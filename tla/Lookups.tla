-------------------------------- MODULE Lookups --------------------------------
(* What the documents of a diagnostic are enriched from: the lookup tables       *)
(* (processor/diagnostic/lookup.rs) that are built from the responses of a       *)
(* cluster, one per lookup.rs, and the streams the large responses come in      *)
(* (data.rs). A hash map that is drained is a sequence, in any order; an       *)
(* Option is a set of at most one element.                                       *)
EXTENDS Naturals, Sequences, FiniteSets, SequencesExt, TLC

NoKeys == [k \in {} |-> 0]
New == [ids |-> NoKeys, names |-> NoKeys, entries |-> <<>>, parsed |-> FALSE, missing |-> FALSE]
WasParsed(l) == [l EXCEPT !.parsed = TRUE, !.missing = FALSE]
Missing == [New EXCEPT !.missing = TRUE]

ByName(l, name) == IF name \in DOMAIN l.names THEN {l.entries[l.names[name]]} ELSE {}
ById(l, id) == IF id \in DOMAIN l.ids THEN {l.entries[l.ids[id]]} ELSE {}

\* An id or a name goes to the entry that was added last.
Add(l, value) == [l EXCEPT !.entries = Append(@, value)]
WithId(l, id) == [l EXCEPT !.ids = (id :> Len(l.entries)) @@ @]
WithName(l, name) == [l EXCEPT !.names = (name :> Len(l.entries)) @@ @]

\* The table of a response that is read, absent from the bundle, or broken.
LookupFromResult(kind, table) == CASE kind = "ok" -> WasParsed(table) [] kind = "missing" -> Missing [] OTHER -> New

(* ----------------------------------- nodes --------------------------------- *)
\* The first of these roles a node has is its tier.
Precedence ==
  <<<<"index", "index">>, <<"search", "search">>, <<"data_hot", "hot">>, <<"data_warm", "warm">>, <<"data_cold", "cold">>,
    <<"data_frozen", "frozen">>, <<"data_content", "content">>, <<"data", "data">>, <<"ingest", "ingest">>, <<"ml", "ml">>,
    <<"transform", "transform">>, <<"voting_only", "tiebreaker">>, <<"master", "master">>, <<"remote_cluster_client", "remote">>>>
GetTier(roles) ==
  LET hits == SelectSeq(Precedence, LAMBDA p : p[1] \in roles)
  IN IF hits # <<>> THEN hits[1][2] ELSE IF roles = {} THEN "coord" ELSE "node"

Tiers ==
  <<"index", "search", "hot", "warm", "cold", "frozen", "content", "data", "ingest", "ml", "transform", "tiebreaker",
    "master", "remote", "coord", "node">>
GetTierOrder(tier) == IF tier \in ToSet(Tiers) THEN (CHOOSE i \in 1 .. Len(Tiers) : Tiers[i] = tier) - 1 ELSE 99

\* A name is <<name>>, or <<"instance", zeros, number>>, which loses its zeros by six.
GetTierNodeName(name, tier) == IF name[1] = "instance" THEN <<tier, name[2] % 6, name[3]>> ELSE name

RoleLetters ==
  [data |-> "d", data_content |-> "s", data_frozen |-> "f", data_hot |-> "h", data_warm |-> "w", data_cold |-> "c",
   index |-> "I", ingest |-> "i", master |-> "m", ml |-> "l", remote_cluster_client |-> "r", search |-> "S", transform |-> "t"]
\* The letters are sorted: the text is the set of them.
GetRolesAbbreviation(roles) == IF roles = {} THEN {"-"} ELSE {RoleLetters[r] : r \in roles \cap DOMAIN RoleLetters}

NodeDocument(node) ==
  LET tier == GetTier(node.roles)
  IN [id |-> node.id, name |-> GetTierNodeName(node.name, tier), role |-> GetRolesAbbreviation(node.roles),
      roles |-> node.roles, tier |-> tier, order |-> GetTierOrder(tier), processors |-> node.processors]
FromNodes(nodes) == FoldLeft(LAMBDA l, n : WithId(WithName(Add(l, NodeDocument(n)), n.name), n.id), New, nodes)
FromSharedCache(nodes) == FoldLeft(LAMBDA l, n : WithId(Add(l, n.cache), n.id), New, nodes)

(* ----------------------------- indices and streams ------------------------- *)
\* created is a set, as the setting may be absent.
BuildSettings(s) == [s EXCEPT !.store = <<s.mode, s.source, s.codec>>]
FromIndicesSettings(settings) ==
  FoldLeft(LAMBDA l, s : WithId(WithName(Add(l, BuildSettings(s)), s.name), s.uuid), New, settings)

\* Every alias of an index is added under the name of the index.
FromAliases(list) ==
  FoldLeft(LAMBDA l, e : FoldLeft(LAMBDA k, a : WithName(Add(k, a), e.index), l, e.aliases), New, list)

FromIlmExplain(indices) == FoldLeft(LAMBDA l, e : WithName(Add(l, e.ilm), e.index), New, indices)

\* The words of a stream's name between its dashes. Panic: a word is read that is
\* not there.
Panic == [panic |-> TRUE]
Parts(type, dataset, namespace) == [panic |-> FALSE, type |-> type, dataset |-> dataset, namespace |-> namespace]
BuildKibana(words) ==
  LET n == Len(words)
      Cut(k) == IF n < k THEN Panic ELSE Parts(<<".kibana">>, SubSeq(words, 2, k), SubSeq(words, k + 1, n))
  IN CASE words[2] = "reporting" -> Parts(<<".kibana">>, <<words[2]>>, <<>>)
       [] words[2] = "elastic" /\ n = 4 -> Panic
       [] words[2] = "elastic" /\ n > 4 /\ words[5] \in {"anonymization", "knowledge", "attack"} -> Cut(6)
       [] words[2] = "elastic" /\ (n < 4 \/ words[5] \notin {"anonymization", "knowledge", "attack"}) -> Cut(5)
       [] words[2] = "event" -> Cut(3)
       [] OTHER -> Cut(2)
BuildStream(words) ==
  LET n == Len(words)
  IN CASE n = 1 -> Parts(<<>>, words, <<>>)
       [] n = 2 /\ words[1] = ".fleet" -> Parts(<<>>, <<words[2]>>, <<>>)
       [] n = 2 /\ words[1] \in {".items", ".lists"} -> Parts(<<>>, <<>>, <<words[2]>>)
       [] n = 3 -> Parts(<<words[1]>>, <<words[2]>>, <<words[3]>>)
       [] n # 3 /\ n > 1 /\ words[1] = ".kibana" -> BuildKibana(words)
       [] OTHER -> Parts(<<words[1]>>, <<words[2]>>, SubSeq(words, 3, n))

\* The indices of a stream, oldest first: the last one is written to.
StreamDocument(stream, write) == [name |-> stream.name, write |-> write]
AddIndices(l, stream) ==
  FoldLeftDomain(LAMBDA k, i :
      IF i = Len(stream.indices)
      THEN WithId(WithName(Add(k, StreamDocument(stream, TRUE)), stream.name), stream.indices[i])
      ELSE WithId(k, stream.indices[i]),
    WithName(Add(l, StreamDocument(stream, FALSE)), stream.name), stream.indices)
AddFailureStore(l, stream) ==
  IF stream.failures = {} THEN l
  ELSE FoldLeft(WithId, Add(l, StreamDocument(stream, FALSE)), CHOOSE f \in stream.failures : TRUE)
FromDataStreams(streams) == FoldLeft(LAMBDA l, s : AddFailureStore(AddIndices(l, s), s), New, streams)

(* ---------------------------------- mappings ------------------------------- *)
Count(fields, key) == IF key \in DOMAIN fields THEN [fields EXCEPT ![key] = @ + 1] ELSE (key :> 1) @@ fields
NoSummary == [path |-> <<>>, fields |-> NoKeys, multi |-> [total |-> 0, names |-> <<>>]]

\* A field f at the path of the summary s. All fields share the path, which each
\* extends for those below it and cuts back. type, properties and fields are sets.
RECURSIVE SummarizeField(_, _)
SummarizeField(s, f) ==
  LET kind == IF f.type # {} THEN f.type ELSE IF f.properties # {} THEN {"object"} ELSE {}
      total == [s EXCEPT !.fields = Count(@, "total")]
      counted == IF kind = {} THEN total ELSE [total EXCEPT !.fields = Count(@, CHOOSE k \in kind : TRUE)]
      noted == IF \E x \in f.fields : x # <<>>
               THEN [counted EXCEPT !.multi = [total |-> @.total + 1, names |-> Append(@.names, s.path)]] ELSE counted
      Below(t, parts) ==
        IF parts = {} THEN t
        ELSE FoldLeft(LAMBDA u, e : LET v == SummarizeField([u EXCEPT !.path = Append(@, e.name)], e.field)
                                    IN [v EXCEPT !.path = SubSeq(@, 1, Len(t.path))],
                      t, CHOOSE p \in parts : TRUE)
  IN Below(Below(noted, f.properties), f.fields)
SummarizeIndex(properties) ==
  FoldLeft(LAMBDA s, e : [SummarizeField([s EXCEPT !.path = <<e.name>>], e.field) EXCEPT !.path = <<>>], NoSummary, properties)

\* What the summary should say: every field with its path.
RECURSIVE FieldsAt(_, _)
FieldsAt(path, f) ==
  {<<path, f>>} \cup UNION {FieldsAt(Append(path, e.name), e.field) : e \in UNION {ToSet(p) : p \in f.properties \cup f.fields}}

(* ----------------------------------- streams ------------------------------- *)
\* entries is what the response holds, each of them well-formed or not. A map is
\* read up to the first malformed value, whose error ends the stream; snapshots
\* are read on, and only the malformed one is an error.
Ok(v) == [ok |-> TRUE, v |-> v]
Err == [ok |-> FALSE]
StreamMap(entries) ==
  LET bad == {i \in 1 .. Len(entries) : ~entries[i].ok}
      first == CHOOSE i \in bad : \A j \in bad : i <= j
  IN IF bad = {} THEN entries ELSE SubSeq(entries, 1, first - 1) \o <<Err>>
StreamNodes(entries) == StreamMap(entries)
StreamIndices(entries) == StreamMap(entries)
StreamMappings(entries) == StreamMap(entries)
StreamSnapshots(entries) == [i \in 1 .. Len(entries) |-> IF entries[i].ok THEN entries[i] ELSE Err]

\* The table of mappings, from a stream whose errors are of an absent source or not.
FromMappingStream(items) ==
  LET table == FoldLeft(LAMBDA l, x : IF x.ok THEN WithName(Add(l, x.v.summary), x.v.name) ELSE l, New, items)
      absent == \E i \in 1 .. Len(items) : ~items[i].ok /\ items[i].absent
      failed == \E i \in 1 .. Len(items) : ~items[i].ok /\ ~items[i].absent
  IN IF table.entries = <<>> /\ absent /\ ~failed THEN Missing ELSE IF failed THEN table ELSE WasParsed(table)

\* The report lists a table that could not be read once, and every table's size.
AddLookup(report, name, l) ==
  [report EXCEPT !.failures = IF ~l.missing /\ ~l.parsed THEN @ \cup {name} ELSE @,
                 !.stats = (name :> [docs |-> Len(l.entries), parsed |-> l.parsed]) @@ @]

(* --------------------------------- properties ------------------------------ *)
\* A node is found by its id and is itself, one of the nodes of its name by its
\* name; its tier is that of a role it has; its letters name its roles; and the
\* names Elastic Cloud gives stay different (nodes/lookup.rs).
NodesFound(nodes) ==
  LET l == FromNodes(nodes)
  IN \A n \in ToSet(nodes) :
       /\ ById(l, n.id) = {NodeDocument(n)}
       /\ \E m \in ToSet(nodes) : m.name = n.name /\ ByName(l, n.name) = {NodeDocument(m)}
       /\ LET d == NodeDocument(n)
          IN /\ d.order < 99
             /\ \A m \in ToSet(nodes) : d.order = NodeDocument(m).order <=> d.tier = NodeDocument(m).tier
             /\ n.roles # {} => {r \in DOMAIN RoleLetters : RoleLetters[r] \in d.role} = n.roles \cap DOMAIN RoleLetters
             /\ \A m \in ToSet(nodes) : Len(n.name) = 3 /\ Len(m.name) = 3 /\ n.name # m.name /\ n.name[2] = m.name[2] =>
                  d.name # NodeDocument(m).name

\* An index of a data stream is found with its own stream, as written to if and
\* only if it is the newest, never if it holds failures; by its name the stream is
\* found as written to (data_stream/lookup.rs).
StreamsFound(streams) ==
  LET l == FromDataStreams(streams)
  IN \A s \in ToSet(streams) :
       /\ \A i \in 1 .. Len(s.indices) : ById(l, s.indices[i]) = {[name |-> s.name, write |-> i = Len(s.indices)]}
       /\ \A f \in s.failures : \A x \in ToSet(f) : ById(l, x) = {[name |-> s.name, write |-> FALSE]}
       /\ ByName(l, s.name) = {[name |-> s.name, write |-> TRUE]}

\* The parts of a stream's name are the name, cut in place, but for the two that
\* are read without a type (data_stream/data.rs).
NameCutInPlace(words) ==
  LET p == BuildStream(words)
  IN ~p.panic => p.type \o p.dataset \o p.namespace = (IF Len(p.type) = 0 /\ Len(words) = 2 THEN Tail(words) ELSE words)
               \/ (words[1] = ".kibana" /\ words[2] = "reporting")

\* The summary of a mapping counts every field of the tree once, by its type, and
\* names the fields that have others in them by their whole path, although all of
\* them write to one path (mapping_stats/data.rs).
MappingCounted(properties) ==
  LET s == SummarizeIndex(properties)
      all == UNION {FieldsAt(<<e.name>>, e.field) : e \in ToSet(properties)}
      Kind(k) == {x \in all : k \in (IF x[2].type # {} THEN x[2].type ELSE IF x[2].properties # {} THEN {"object"} ELSE {})}
  IN /\ (all # {}) => s.fields["total"] = Cardinality(all)
     /\ \A k \in DOMAIN s.fields \ {"total"} : s.fields[k] = Cardinality(Kind(k))
     /\ ToSet(s.multi.names) = {x[1] : x \in {y \in all : \E p \in y[2].fields : p # <<>>}}
     /\ s.multi.total = Len(s.multi.names) /\ IsInjective(s.multi.names)

\* A stream brings what came before its first fault, in order, and one error at
\* most; of the snapshots it brings all that are well-formed; and a table that
\* lacks what a fault cut off says so in the report, while one whose source is not
\* in the bundle is no failure (mapping_stats/lookup.rs, report.rs).
StreamsHonest(entries, absent) ==
  LET sent == StreamMappings(entries)
      items == IF absent THEN <<[ok |-> FALSE, absent |-> TRUE]>>
               ELSE [i \in 1 .. Len(sent) |-> IF sent[i].ok THEN sent[i] ELSE [ok |-> FALSE, absent |-> FALSE]]
      l == FromMappingStream(items)
      report == AddLookup([failures |-> {}, stats |-> NoKeys], "mapping_stats", l)
  IN /\ \A i \in 1 .. Len(sent) : sent[i].ok <=> \A j \in 1 .. i : entries[j].ok
     /\ \A i \in 1 .. Len(entries) : entries[i].ok => StreamSnapshots(entries)[i] = entries[i]
     /\ report.failures # {} <=> ~absent /\ \E i \in 1 .. Len(entries) : ~entries[i].ok
     /\ l.missing => l.entries = <<>> /\ ~l.parsed
     /\ l.parsed => \A i \in 1 .. Len(entries) : ByName(l, entries[i].v.name) # {}
===============================================================================
