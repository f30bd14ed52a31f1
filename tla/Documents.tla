------------------------------- MODULE Documents -------------------------------
(* The documents a diagnostic is turned into (the processor.rs of each source of *)
(* processor/elasticsearch and processor/logstash): each response is taken apart *)
(* into documents of several data streams, which go to their channels, and each  *)
(* document is enriched from the lookups. Fields that are only copied are left   *)
(* out; an Option is a set of at most one element.                               *)
EXTENDS Lookups
CONSTANTS Word,     \* 2^64: sums and differences of times wrap around it
          Gigabyte, \* 2^30
          Day       \* 86,400 seconds

(* ----------------------------- indices and shards -------------------------- *)
\* The settings of an index on its way into documents: its stream, its age at the
\* time of the collection, which is never negative, and its lifecycle.
WithStream(s, stream) == [s EXCEPT !.stream = stream]
WithAge(s, date) == [s EXCEPT !.age = {IF date > c THEN date - c ELSE 0 : c \in s.created}]
SettingsDocument(s, ilm) ==
  [name |-> s.name, age |-> s.age, created |-> IF s.created = {} THEN 0 ELSE CHOOSE c \in s.created : TRUE,
   stream |-> s.stream, ilm |-> ilm, phase |-> {}]
IndexSettings(lookups, name, date) ==
  {SettingsDocument(WithAge(WithStream(s, ById(lookups.data_stream, name)), date), ByName(lookups.ilm_explain, name)) :
     s \in ByName(lookups.index_settings, name)}

\* The time since the rollover needs a lifecycle date and an age. The date may be
\* later than the collection: the difference then wraps.
SinceRollover(s) == UNION {{(age + s.created - d) % Word : d \in i.date, age \in s.age} : i \in s.ilm}
WithSettings(e, alias, settings) ==
  IF settings = {} THEN [name |-> e.name, alias |-> alias, stream |-> {}, age |-> {}, ilm |-> {}, since |-> {}]
  ELSE LET s == CHOOSE x \in settings : TRUE
       IN [name |-> s.name, alias |-> alias, stream |-> s.stream, age |-> s.age, ilm |-> s.ilm, since |-> SinceRollover(s)]

\* The statistics of all copies of an index or of its primaries: how many shards
\* they count, and what Elasticsearch may leave out, which is zero then, but for
\* the documents.
EnrichedStore(store) == IF store = {} THEN 0 ELSE CHOOSE x \in store : TRUE
EnrichedIndexing(indexing) == IF indexing = {} THEN [time |-> 0, total |-> 0] ELSE CHOOSE x \in indexing : TRUE
EnrichedBulk(bulk) == IF bulk = {} THEN 0 ELSE CHOOSE x \in bulk : TRUE
EnrichedStats(s) ==
  [shards |-> s.shards, docs |-> s.docs, size |-> EnrichedStore(s.store), indexing |-> EnrichedIndexing(s.indexing),
   bulk |-> EnrichedBulk(s.bulk)]

Second == 1000
WritePhase(doc) ==
  LET age == IF doc.age = {} THEN 0 ELSE CHOOSE a \in doc.age : TRUE
      before == \E i \in doc.ilm : i.action = "rollover"
  IN IF doc.since = {} THEN 0
     ELSE LET since == CHOOSE x \in doc.since : TRUE
          IN IF age > since THEN (age - since) \div Second ELSE IF before THEN age \div Second ELSE 0
AverageSize(count, size) == IF count > 0 THEN size \div count ELSE 0
PerGb(count, size) ==
  CASE size = 0 -> 0
    [] size \in 1 .. Gigabyte - 1 /\ AverageSize(count, size) > 0 -> Gigabyte \div AverageSize(count, size)
    [] OTHER -> (count * Gigabyte) \div size
EnrichedDocs(docs, size) == {[count |-> n, avg_size |-> AverageSize(n, size), per_gb |-> PerGb(n, size)] : n \in docs}
EstBytesPerDay(size, phase) == IF phase = 0 THEN 0 ELSE (size * Day) \div phase
\* The quotients over the number of shards are not guarded.
Calculate(e, doc) ==
  LET write == (\E a \in doc.alias : a.write) \/ (\E a \in doc.stream : a.write)
      phase == WritePhase(doc)
      primaries == EnrichedStats(e.primaries)
      total == EnrichedStats(e.total)
  IN IF primaries.shards = 0 \/ total.shards = 0 THEN Panic
     ELSE [panic |-> FALSE, name |-> doc.name, write |-> write, phase |-> phase, stream |-> doc.stream, age |-> doc.age,
           size |-> total.size, docs |-> EnrichedDocs(total.docs, total.size),
           per_day |-> [store |-> EstBytesPerDay(total.size, phase), primaries |-> EstBytesPerDay(primaries.size, phase),
                        bulk |-> EstBytesPerDay(primaries.bulk, phase)],
           per_shard |-> [primaries |-> primaries.indexing.time \div primaries.shards,
                          total |-> total.indexing.time \div total.shards]]

\* A rate is zero while nothing is known to have been written, or searched.
Rate(amount, phase) == IF phase = 0 THEN 0 ELSE amount \div phase
SearchRate(amount, settings) ==
  LET age == UNION {s.age : s \in settings}
  IN IF \E a \in age : a > 0 THEN amount \div (LET a == CHOOSE x \in age : TRUE IN IF a < Second THEN 1 ELSE a \div Second) ELSE 0
ShardDocument(number, shard, settings, nodes) ==
  LET phase == IF settings = {} THEN 0 ELSE CHOOSE p \in UNION {s.phase : s \in settings} : TRUE
      size == EnrichedStore(shard.store)
  IN [number |-> number, id |-> shard.id, index |-> settings, node |-> ById(nodes, shard.node), size |-> size,
      indexing |-> {[docs_sec |-> Rate(x.total, phase), cpu |-> Rate(x.time, phase), bytes_sec |-> Rate(size, phase)] : x \in shard.indexing},
      bulk |-> {[bytes_sec |-> Rate(b, phase)] : b \in shard.bulk}, docs |-> EnrichedDocs(shard.docs, size),
      search |-> {SearchRate(q, settings) : q \in shard.search}]
ExtractShardDocuments(shards, settings, nodes) ==
  FlattenSeq([i \in 1 .. Len(shards) |->
                [j \in 1 .. Len(shards[i].copies) |-> ShardDocument(shards[i].number, shards[i].copies[j], settings, nodes)]])

ProcessIndex(e, lookups, date) ==
  LET settings == IndexSettings(lookups, e.name, date)
      doc == Calculate(e, WithSettings(e, ByName(lookups.alias, e.name), settings))
      written == {[s EXCEPT !.phase = {doc.phase}] : s \in settings}
  IN IF doc.panic THEN Panic
     ELSE [panic |-> FALSE, index |-> <<doc>>, shard |-> ExtractShardDocuments(e.copies, written, lookups.node)]

\* One summary for both streams; an error of the stream is passed over.
NothingSent == [panic |-> FALSE, index |-> <<>>, shard |-> <<>>]
ExportIndices(items, lookups, date) ==
  FoldLeft(LAMBDA sent, x :
      IF sent.panic \/ ~x.ok THEN sent
      ELSE LET out == ProcessIndex(x.v, lookups, date)
           IN IF out.panic THEN [sent EXCEPT !.panic = TRUE]
              ELSE [sent EXCEPT !.index = @ \o out.index, !.shard = @ \o out.shard],
    NothingSent, items)
IndicesSummary(sent) == [docs |-> Len(sent.index) + Len(sent.shard)]

(* ----------------------------------- nodes --------------------------------- *)
\* A part of a node's statistics: absent, or an object with what is to be taken
\* out of it: nothing, something of another shape, or items.
Items(part) == IF part.kind = "object" /\ part.items.kind = "items" THEN part.items.list ELSE <<>>
Whole(part) == [doc |-> part, docs |-> <<>>]
\* Taken out and written each to its own document; the rest stays in the node's.
TakenOut(part) == [doc |-> [part EXCEPT !.items = [kind |-> "none"]], docs |-> Items(part)]

\* Of another shape: left as it was. Nothing there: nothing to do.
TransportActions(part) == IF part.kind = "object" /\ part.items.kind # "odd" THEN TakenOut(part) ELSE Whole(part)
HttpClients(part) == IF part.kind = "object" /\ part.items.kind # "odd" THEN TakenOut(part) ELSE Whole(part)
ClusterApplier(part) == IF part.kind = "object" /\ part.items.kind = "items" THEN TakenOut(part) ELSE Whole(part)
\* Never a part of the node's document: the peers of a node.
AdaptiveSelections(part, nodes) == [docs |-> [i \in 1 .. Len(Items(part)) |-> [item |-> Items(part)[i], peer |-> ById(nodes, Items(part)[i])]]]

\* A processor of a pipeline is a map of one name, at its place in the pipeline.
\* The older form has no type: the name stands for it.
ProcessorDocument(pipeline, i, p) ==
  [pipeline |-> pipeline, order |-> i - 1, name |-> p.name, type |-> IF p.type = "none" THEN p.name ELSE p.type]
ExtractProcessors(pipeline, processors) ==
  LET docs == [i \in 1 .. Len(processors) |-> {ProcessorDocument(pipeline, i, p) : p \in processors[i]}]
  IN FlattenSeq([i \in 1 .. Len(docs) |-> SetToSeq(docs[i])])
IngestPipelines(pipelines) ==
  [pipelines |-> [i \in 1 .. Len(pipelines) |-> pipelines[i].name],
   processors |-> FlattenSeq([i \in 1 .. Len(pipelines) |-> ExtractProcessors(pipelines[i].name, pipelines[i].processors)])]

\* Disk and load: the quotients are not guarded.
CalculateStats(node, processors) ==
  IF node.disk.total = 0 \/ (node.load # {} /\ processors = 0) THEN Panic
  ELSE [panic |-> FALSE, used |-> (node.disk.total - node.disk.free) % Word,
        load |-> {l \div processors : l \in node.load}]
\* The roles are those of the list of nodes, where it has the node.
EnrichedRoles(node, known) == IF known = {} THEN node.roles ELSE (CHOOSE d \in known : TRUE).roles

ProcessNode(node, lookups) ==
  LET known == ById(lookups.node, node.id)
      processors == IF known = {} THEN 1 ELSE (CHOOSE d \in known : TRUE).processors
      calculated == CalculateStats(node, processors)
      transport == TransportActions(node.transport)
      http == HttpClients(node.http)
      applier == ClusterApplier(node.discovery)
      ingest == IF "ingest" \in EnrichedRoles(node, known) THEN IngestPipelines(node.pipelines)
                ELSE [pipelines |-> <<>>, processors |-> <<>>]
  IN IF calculated.panic THEN Panic
     ELSE [panic |-> FALSE, known |-> known, actions |-> transport.docs, clients |-> http.docs, applier |-> applier.docs,
           adaptive |-> AdaptiveSelections(node.adaptive, lookups.node).docs, pipelines |-> ingest.pipelines,
           processors |-> ingest.processors, cache |-> ById(lookups.shared_cache, node.id),
           doc |-> [transport |-> transport.doc, http |-> http.doc, discovery |-> applier.doc]]

\* The node documents count in the summary, every other stream in one of its own.
NodeStreams == {"actions", "clients", "applier", "adaptive", "pipelines", "processors"}
NodesSummary(outs) ==
  [docs |-> Len(outs),
   children |-> [s \in NodeStreams |-> FoldLeft(LAMBDA n, o : n + Len(o[s]), 0, outs)]]
ExportNodes(items, lookups) ==
  FoldLeft(LAMBDA sent, x :
      IF sent.panic \/ ~x.ok THEN sent
      ELSE LET out == ProcessNode(x.v, lookups)
           IN IF out.panic THEN [sent EXCEPT !.panic = TRUE] ELSE [sent EXCEPT !.outs = Append(@, out)],
    [panic |-> FALSE, outs |-> <<>>], items)

(* ----------------------------------- tasks --------------------------------- *)
\* An action is its scope before the colon, the words of its path and the marks
\* of its last word; a description the number of its requests and its indices, or
\* its index and shard.
NoData == [some |-> FALSE]
TaskData(action, description) ==
  LET shard == action.marks # <<>> /\ action.marks[1] = "s"
  IN IF description = {} \/ action.scope # "indices" \/ Len(action.path) < 3 \/ action.path[2] # "write" THEN NoData
     ELSE LET d == CHOOSE x \in description : TRUE
          IN IF shard THEN [some |-> TRUE, shard |-> TRUE, number |-> d.number, primary |-> Len(action.marks) = 2 /\ action.marks[2] = "p",
                            names |-> <<d.indices[1]>>, count |-> 1, docs |-> d.requests]
             ELSE [some |-> TRUE, shard |-> FALSE, names |-> d.indices, count |-> Len(d.indices), docs |-> d.requests]
ParentTask(parent) == {[node |-> p[1], id |-> IF Len(p) > 1 /\ p[2] \in Nat THEN p[2] ELSE 0] : p \in parent}
TaskDocuments(nodes, lookup) ==
  FlattenSeq([i \in 1 .. Len(nodes) |->
                [j \in 1 .. Len(nodes[i].tasks) |->
                   LET t == nodes[i].tasks[j]
                   IN [id |-> t.id, node |-> ById(lookup, nodes[i].id), data |-> TaskData(t.action, t.description),
                       parent |-> ParentTask(t.parent)]]])

(* --------------------------- snapshots and health -------------------------- *)
\* The first ten characters of a name that are a date; one that looks like a date
\* and is none is passed over.
Digits == 0 .. 9
IsDate(w) ==
  /\ \A i \in {1, 2, 3, 4, 6, 7, 9, 10} : w[i] \in Digits
  /\ w[5] = 10 /\ w[8] = 10 \* a dot
  /\ 10 * w[6] + w[7] \in 1 .. 12 /\ 10 * w[9] + w[10] \in 1 .. 31
ExtractSnapshotDate(name) ==
  LET starts == {i \in 1 .. Len(name) - 9 : IsDate(SubSeq(name, i, i + 9))}
  IN IF Len(name) < 10 \/ starts = {} THEN <<>>
     ELSE LET i == CHOOSE x \in starts : \A y \in starts : x <= y IN SubSeq(name, i, i + 9)
SnapshotDocument(s) == [name |-> s, date |-> ExtractSnapshotDate(s)]
ExportSnapshots(entries) ==
  LET good == SelectSeq(StreamSnapshots(entries), LAMBDA x : x.ok)
  IN [i \in 1 .. Len(good) |-> SnapshotDocument(good[i].v)]

HealthDocuments(indicators) ==
  FlattenSeq([i \in 1 .. Len(indicators) |->
    LET x == indicators[i]
        Of(stream, list) == [j \in 1 .. Len(list) |-> [stream |-> stream, indicator |-> x.name, item |-> list[j]]]
        Some(list) == IF list = {} THEN <<>> ELSE CHOOSE l \in list : TRUE
    IN Of("impact", Some(x.impacts)) \o Of("diagnosis", Some(x.diagnosis))
       \o <<[stream |-> "indicator", indicator |-> x.name, item |-> "none"]>>])

(* ---------------------------------- Logstash ------------------------------- *)
PluginDocuments(plugins) ==
  LET Of(type) == [i \in 1 .. Len(plugins[type]) |-> [stream |-> "plugin", type |-> type, item |-> plugins[type][i]]]
  IN Of("input") \o Of("codec") \o Of("filter") \o Of("output")
PipelineDocuments(pipelines) ==
  [i \in 1 .. Len(pipelines) |-> [stream |-> "pipeline", type |-> "none", item |-> pipelines[i].name]]
  \o FlattenSeq([i \in 1 .. Len(pipelines) |-> PluginDocuments(pipelines[i].plugins)])
LogstashDocuments(pipelines) == PipelineDocuments(pipelines) \o <<[stream |-> "node", type |-> "none", item |-> "node"]>>

(* ------------------------------- the data stream --------------------------- *)
\* Every document says which stream it belongs to: type, dataset and namespace.
DataStreamName(words) == [type |-> words[1], dataset |-> words[2], namespace |-> words[3]]
ForDataStream(metadata, words) == [metadata EXCEPT !.data_stream = DataStreamName(words)]

(* --------------------------------- properties ------------------------------ *)
\* Every index that is read, and every copy of a shard, has one document, with the
\* settings, the stream and the node of its own; it is an index that is written to
\* if its alias or its stream says so; it was written to no longer than it exists,
\* though the clocks disagree; its averages fit its size, whatever is empty or left
\* out; its shards say what it says; the summary counts them all. Only an index of which no shard is counted stops the rest.
IndicesComplete(entries, lookups, date) ==
  LET items == StreamIndices(entries)
      sent == ExportIndices(items, lookups, date)
      read == SelectSeq(items, LAMBDA x : x.ok)
      copies == FlattenSeq([i \in 1 .. Len(read) |-> FlattenSeq([j \in 1 .. Len(read[i].v.copies) |-> read[i].v.copies[j].copies])])
  IN /\ sent.panic <=> \E i \in 1 .. Len(read) : read[i].v.primaries.shards = 0 \/ read[i].v.total.shards = 0
     /\ ~sent.panic =>
          /\ [i \in 1 .. Len(sent.index) |-> sent.index[i].name] = [i \in 1 .. Len(read) |-> read[i].v.name]
          /\ [i \in 1 .. Len(sent.shard) |-> sent.shard[i].id] = [i \in 1 .. Len(copies) |-> copies[i].id]
          /\ IndicesSummary(sent).docs = Len(read) + Len(copies)
     /\ \A d \in ToSet(sent.index) :
          /\ d.phase * Second <= (IF d.age = {} THEN 0 ELSE CHOOSE a \in d.age : TRUE)
          /\ d.write => (\E a \in ByName(lookups.alias, d.name) : a.write) \/ (\E a \in ById(lookups.data_stream, d.name) : a.write)
          /\ \A t \in ByName(lookups.index_settings, d.name) : d.stream = ById(lookups.data_stream, d.name)
          /\ d.phase = 0 => d.per_day = [store |-> 0, primaries |-> 0, bulk |-> 0]
          /\ d.per_day.store * d.phase <= d.size * Day
     /\ \A d \in ToSet(sent.index) \cup ToSet(sent.shard) : \A x \in d.docs :
          /\ x.count * x.avg_size <= d.size
          /\ x.avg_size * x.per_gb <= Gigabyte
          /\ d.size \in 1 .. Gigabyte => (x.per_gb = 0 <=> x.count = 0)
     /\ \A s \in ToSet(sent.shard) : \A x \in s.index :
          /\ \E d \in ToSet(sent.index) : d.name = x.name /\ x.phase = {d.phase}
          /\ x.phase = {0} => \A i \in s.indexing : i.docs_sec = 0 /\ i.bytes_sec = 0

\* What is taken out of a node's statistics is in documents of its own or still in
\* the node's, never in both and never in neither, but for the peers, which are
\* lost if they are no object, and the pipelines of a node that has none to run;
\* a processor keeps its place; the summaries count each stream.
NodesComplete(entries, lookups) ==
  LET items == StreamNodes(entries)
      sent == ExportNodes(items, lookups)
      read == SelectSeq(items, LAMBDA x : x.ok)
      Conserved(part, left, docs) ==
        /\ Items(part) = Items(left) \o docs
        /\ Items(left) = <<>> \/ docs = <<>>
        /\ part.kind = "absent" \/ part.items.kind = "odd" => left = part
  IN ~sent.panic =>
       /\ Len(sent.outs) = Len(read)
       /\ \A i \in 1 .. Len(read) :
            LET n == read[i].v  o == sent.outs[i]
            IN /\ Conserved(n.transport, o.doc.transport, o.actions)
               /\ Conserved(n.http, o.doc.http, o.clients)
               /\ Conserved(n.discovery, o.doc.discovery, o.applier)
               /\ [j \in 1 .. Len(o.adaptive) |-> o.adaptive[j].item] = Items(n.adaptive)
               /\ \A d \in o.known : d.id = n.id
               /\ \A p \in ToSet(o.processors) :
                    \E q \in ToSet(n.pipelines) : q.name = p.pipeline /\ \E s \in q.processors[p.order + 1] : s.name = p.name
               /\ o.pipelines # <<>> => Len(o.pipelines) = Len(n.pipelines)
       /\ NodesSummary(sent.outs).docs = Len(read)
       /\ LET children == NodesSummary(sent.outs).children
              Held(Part(_)) == FoldLeft(LAMBDA k, x : k + Len(Items(Part(x.v))), 0, read)
          IN /\ children["actions"] = Held(LAMBDA v : v.transport) /\ children["clients"] = Held(LAMBDA v : v.http)
             /\ children["applier"] = Held(LAMBDA v : v.discovery) /\ children["adaptive"] = Held(LAMBDA v : v.adaptive)

\* A task is of the shard it names, of a primary only if its action says so.
TasksComplete(nodes, lookup) ==
  LET docs == TaskDocuments(nodes, lookup)
      tasks == FlattenSeq([i \in 1 .. Len(nodes) |-> nodes[i].tasks])
  IN /\ Len(docs) = Len(tasks)
     /\ \A i \in 1 .. Len(docs) :
          /\ docs[i].id = tasks[i].id
          /\ docs[i].data.some => docs[i].data.count = Len(docs[i].data.names) /\ docs[i].data.count > 0
          /\ docs[i].data.some /\ docs[i].data.shard /\ docs[i].data.primary => tasks[i].action.marks = <<"s", "p">>
          /\ \A p \in docs[i].parent : \E q \in tasks[i].parent : p.node = q[1]

\* A snapshot has the date its name has, and no other; a malformed one takes none
\* of the others with it.
SnapshotsComplete(entries) ==
  LET docs == ExportSnapshots(entries)
  IN /\ Len(docs) = Cardinality({i \in 1 .. Len(entries) : entries[i].ok})
     /\ \A d \in ToSet(docs) :
          /\ d.date # <<>> => IsDate(d.date) /\ \E i \in 1 .. Len(d.name) : SubSeq(d.name, i, i + 9) = d.date
          /\ d.date = <<>> => \A i \in 1 .. Len(d.name) - 9 : ~IsDate(SubSeq(d.name, i, i + 9))

\* Every impact and diagnosis of the health report, and every pipeline and plugin
\* of Logstash, has one document, under the indicator or the type it came with.
PartsComplete(indicators, pipelines) ==
  LET health == HealthDocuments(indicators)
      logstash == LogstashDocuments(pipelines)
      Known(list) == UNION {ToSet(l) : l \in list}
  IN /\ \A x \in ToSet(indicators) :
          /\ {d.item : d \in {y \in ToSet(health) : y.stream = "impact" /\ y.indicator = x.name}} = Known(x.impacts)
          /\ {d.item : d \in {y \in ToSet(health) : y.stream = "diagnosis" /\ y.indicator = x.name}} = Known(x.diagnosis)
          /\ Cardinality({i \in 1 .. Len(health) : health[i].stream = "indicator" /\ health[i].indicator = x.name}) = 1
     /\ \A type \in {"input", "codec", "filter", "output"} :
          {d.item : d \in {y \in ToSet(logstash) : y.type = type}} = UNION {ToSet(p.plugins[type]) : p \in ToSet(pipelines)}
     /\ Cardinality({i \in 1 .. Len(logstash) : logstash[i].stream = "pipeline"}) = Len(pipelines)
===============================================================================
