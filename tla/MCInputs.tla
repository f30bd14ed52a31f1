------------------------------- MODULE MCInputs -------------------------------
(* The decisions the program takes on what it is given, each over a small set of *)
(* inputs: `call` is the operation under way and its arguments. Beside them, and *)
(* apart from each other, the cache of the Elastic CLI's configuration, the       *)
(* command a value of that configuration runs, and the version a receiver asks a *)
(* product for; `part` is the one that moves.                                    *)
EXTENDS Naturals, Sequences, FiniteSets, SequencesExt
CONSTANTS Callers, MaxEdits, Tasks, MaxFaults
VARIABLES part, call, platform, files, cache, calls, run, child, heirs, readers, outcome,
          receiver, server, cell, initialiser, tasks, faults, asked

Cache == INSTANCE ConfigCache
Command == INSTANCE CommandResolver
Live == INSTANCE LiveReceiver WITH Ranges <- <<[from |-> 1, to |-> 3, url |-> "old"], [from |-> 2, to |-> 9, url |-> "new"]>>
cacheVars == <<platform, files, cache, calls>>
commandVars == <<run, child, heirs, readers, outcome>>
receiverVars == <<receiver, server, cell, initialiser, tasks, faults, asked>>
vars == <<part, call, cacheVars, commandVars, receiverVars>>

Idle == part = "decisions" /\ call.op = "none"

(* ----------------------------- choice of sources --------------------------- *)
Es == INSTANCE ApiSelection WITH KeyOrder <- <<"b", "c", "ghost", "version">>, Legacy <- [old_c |-> "c"]
Kb == INSTANCE ApiSelection WITH KeyOrder <- <<"kb_a", "kb_b", "kibana_spaces", "kibana_status">>, Legacy <- [old |-> "kb_a"]

Source(tags, option, deps, collect) ==
  [tags |-> tags, option |-> option, deps |-> deps, collect |-> collect, spaces |-> FALSE]
EsRegistries ==
  {[version |-> Source(Es!Types, v, <<>>, <<>>),
    b |-> Source({"support"}, ob, db, cb),
    c |-> Source(tc, oc, dc, cc)] :
     v \in {"required", "no"}, ob \in {"option", "required"}, oc \in {"no", "option"},
     db \in {<<>>, <<"c">>}, dc \in {<<>>, <<"b", "version">>},
     cb \in {<<>>, <<"c">>, <<"ghost">>}, cc \in {<<>>, <<"b">>}, tc \in {{}, {"support", "light"}}}

SelectSources ==
  /\ Idle
  /\ \E reg \in EsRegistries, type \in {"light", "support", "custom"},
        include \in {<<>>, <<"old_c">>, <<"c", "b">>, <<"ghost">>}, exclude \in {<<>>, <<"b">>, <<"version">>} :
       call' = [op |-> "select", reg |-> reg, type |-> type, include |-> include, exclude |-> exclude]

KbEntry(k, spaced, tagged) == [tags |-> IF k \in tagged THEN {"support"} ELSE {}, spaces |-> k \in spaced]
SelectKibana ==
  /\ Idle
  /\ \E spaced, tagged \in SUBSET {"kb_a", "kb_b"}, type \in {"minimal", "support"},
        include \in {<<>>, <<"old">>, <<"kb_b", "kb_a">>}, exclude \in {<<>>, <<"kibana_spaces">>, <<"kb_a">>} :
       call' = [op |-> "kibana", type |-> type, include |-> include, exclude |-> exclude,
                reg |-> [k \in {"kb_a", "kb_b", "kibana_spaces", "kibana_status"} |-> KbEntry(k, spaced, tagged)]]

(* ------------------------------ reading a bundle --------------------------- *)
F == INSTANCE BundleFiles WITH Dotted <- {"a", "b", "set"}

Contents == {"absent", "json", "empty", "broken", "locked"}
Places == <<<<"set">>, <<"a">>, <<"cat", "b">>>>
Put(subdir, doubled, i, content) ==
  IF content = "absent" THEN <<>>
  ELSE <<[path |-> <<"r">> \o subdir \o (IF doubled THEN <<"">> ELSE <<>>) \o Places[i], content |-> content]>>

ReadSource ==
  /\ Idle
  /\ \E first \in {<<"r">>, <<"r", "zero">>, <<"r", "syscalls", "set">>}, subdir \in {<<>>, <<"k">>}, doubled \in BOOLEAN,
        x \in [1 .. 3 -> Contents], deep \in BOOLEAN, filename \in {"", "set"}, name \in {"a", "b", "none"} :
       /\ doubled => subdir # <<>>
       /\ call' = [op |-> "read", subdir |-> subdir, name |-> name, aliases |-> IF name = "a" THEN <<"b">> ELSE <<"x", "a">>,
                   bundle |-> <<[path |-> first, content |-> IF Len(first) = 1 THEN "dir" ELSE "json"]>>
                              \o Put(subdir, doubled, 1, x[1]) \o Put(subdir, doubled, 2, x[2]) \o Put(subdir, doubled, 3, x[3])
                              \o IF deep THEN <<[path |-> <<"r">> \o subdir \o <<"syscalls", "a">>, content |-> "json"]>> ELSE <<>>,
                   registry |-> [a |-> [filename |-> filename, subdir |-> <<>>], b |-> [filename |-> "", subdir |-> <<"cat">>]]]

OpenIncluded ==
  /\ Idle
  /\ \E sub \in {<<>>, <<"k">>, <<".", "k">>, <<"..", "k">>, <<"/", "k">>}, parentApp \in {"logstash", "none"},
        app \in {"elasticsearch", "agent", "logstash"} :
       call' = [op |-> "included", sub |-> sub, parentApp |-> parentApp, app |-> app]

(* ----------------------------- classifying a bundle ------------------------ *)
B == INSTANCE Bundles

Manifests ==
  {[product |-> p, platform |-> f, application |-> a, type |-> t, runner |-> r, included |-> {"child"}] :
     p \in B!Products, f \in B!Platforms \cup {B!None}, a \in {"elasticsearch", "agent", B!None},
     t \in {"eck-diagnostics", "k8s-platform-diagnostics", "api"}, r \in {"ece", "eck", "cli"}}
Seen == {"none", "cloud_admin", "syscalls", "cloud_license"}

Classify ==
  /\ Idle
  /\ \E m \in Manifests, identified \in {B!None, "ece", "self-managed"}, seen \in Seen :
       call' = [op |-> "classify", m |-> m, identified |-> identified, seen |-> seen]

Parents == {[product |-> p, platform |-> B!None, application |-> B!None, type |-> t, runner |-> "cli", included |-> {"child"}] :
              p \in {"eck", "unknown", "elasticsearch"}, t \in {"eck-diagnostics", "api"}}
ClassifyChild ==
  /\ Idle
  /\ \E m \in Manifests, parent \in Parents, seen \in {"none", "syscalls"} :
       m.platform \in {B!None, "self-managed"} /\ call' = [op |-> "child", m |-> m, parent |-> parent, seen |-> seen]

ReadOldManifest ==
  /\ Idle
  /\ \E p \in B!Products \cup {B!None}, t \in {"eck-diagnostics", "k8s-platform-diagnostics", "api"}, r \in {"ece", "eck", "cli"} :
       call' = [op |-> "old", old |-> [product |-> p, type |-> t, runner |-> r, included |-> {"child"}]]

(* ------------------------------- the documents ----------------------------- *)
D == INSTANCE Documents WITH Word <- 65536, Gigabyte <- 20, Day <- 9

NodesListed ==
  {[id |-> i, name |-> n, roles |-> r, processors |-> p] :
     i \in {"n1"}, n \in {<<"instance", 9, 1>>, <<"es">>}, r \in {{}, {"data_hot", "ingest"}, {"master", "voting_only"}, {"odd"}}, p \in {1}}
  \cup {[id |-> "n2", name |-> n, roles |-> r, processors |-> p] :
          n \in {<<"instance", 9, 2>>, <<"es">>}, r \in {{"data_hot", "data_warm"}, {"index"}, {"remote_cluster_client"}}, p \in {2}}
ListNodes == Idle /\ \E x, y \in NodesListed : x.id # y.id /\ call' = [op |-> "listed", nodes |-> <<x, y>>]

StreamsListed(name, x, y, f) ==
  [name : {name}, indices : {<<x>>, <<x, y>>}, failures : {{}, {<<>>}, {<<f>>}}]
ListStreams ==
  /\ Idle
  /\ \E s \in StreamsListed("logs", "a1", "a2", "f1"), t \in StreamsListed("metrics", "b1", "b2", "f2"), first \in BOOLEAN :
       call' = [op |-> "streams", streams |-> IF first THEN <<s, t>> ELSE <<t, s>>]
NameStream ==
  /\ Idle
  /\ \E first \in {".kibana", ".fleet", ".items", "logs"}, second \in {"elastic", "event", "reporting", "x"},
        rest \in UNION {[1 .. n -> {"knowledge", "y"}] : n \in 0 .. 5}, alone \in BOOLEAN :
       call' = [op |-> "words", words |-> IF alone THEN <<first>> ELSE <<first, second>> \o rest]

Leaf == {[type |-> t, properties |-> {}, fields |-> f] : t \in {{}, {"text"}}, f \in {{}, {<<>>}}}
Multi == {[type |-> {"text"}, properties |-> {}, fields |-> {<<[name |-> "raw", field |-> x]>>}] : x \in Leaf}
Object(below) ==
  {[type |-> t, properties |-> {<<[name |-> "x", field |-> x], [name |-> "y", field |-> y]>>}, fields |-> {}] :
     t \in {{}, {"nested"}}, x, y \in below}
FieldsMapped == LET one == Leaf \cup Multi IN one \cup Object(one)
SummarizeMapping ==
  /\ Idle
  /\ \E x \in FieldsMapped \cup Object(Leaf \cup Object(Multi)), y \in Multi \cup Object(Multi) :
       \/ call' = [op |-> "mapping", properties |-> <<[name |-> "a", field |-> x], [name |-> "b", field |-> y]>>]
       \/ call' = [op |-> "mapping", properties |-> <<>>]
StreamResponse ==
  /\ Idle
  /\ \E oks \in UNION {[1 .. n -> BOOLEAN] : n \in 0 .. 4}, absent \in BOOLEAN :
       call' = [op |-> "stream", absent |-> absent,
                entries |-> [i \in DOMAIN oks |-> [ok |-> oks[i], v |-> [name |-> i, summary |-> i]]]]

\* Times in milliseconds, about the collection at 5000.
LookupsOf(created, date, action, alias, indices, kind) ==
  [node |-> D!FromNodes(<<[id |-> "n1", name |-> <<"es">>, roles |-> {"ingest"}, processors |-> 2]>>),
   shared_cache |-> D!FromSharedCache(<<[id |-> "n1", cache |-> "cache"]>>),
   alias |-> D!FromAliases(<<[index |-> "a1", aliases |-> alias]>>),
   ilm_explain |-> D!FromIlmExplain(<<[index |-> "a2", ilm |-> [date |-> date, action |-> action]],
                                     [index |-> "a1", ilm |-> [date |-> date, action |-> "complete"]]>>),
   data_stream |-> D!FromDataStreams(<<[name |-> "logs", indices |-> indices, failures |-> {}]>>),
   index_settings |-> D!LookupFromResult(kind, D!FromIndicesSettings(
      [i \in 1 .. 2 |-> [name |-> <<"a1", "a2">>[i], uuid |-> i, created |-> created, mode |-> "standard", source |-> "default",
                        codec |-> "default", store |-> <<>>, stream |-> {}, age |-> {}]]))]
Amounts == [shards : {2}, docs : {{}, {0}, {4}, {25}}, store : {{}, {9}, {23}}, indexing : {{}, {[time |-> 7, total |-> 4]}}, bulk : {{}, {6}}]
Few == CHOOSE a \in Amounts : a.docs = {4} /\ a.store = {9} /\ a.indexing # {} /\ a.bulk # {}
Copy(id, node, a) == [id |-> id, node |-> node, store |-> a.store, docs |-> a.docs, indexing |-> a.indexing, bulk |-> a.bulk, search |-> {8}]
IndexEntry(name, primaries, a, copies) ==
  [name |-> name, primaries |-> [Few EXCEPT !.shards = primaries], total |-> a, copies |-> copies]
CopiesOf(name) == {<<>>, <<[number |-> 0, copies |-> <<Copy(<<name, 1>>, "n1", Few), Copy(<<name, 2>>, "gone", Few)>>],
                           [number |-> 1, copies |-> <<Copy(<<name, 3>>, "n1", Few)>>]>>}
ReadIndices ==
  /\ Idle
  /\ \E created \in {{}, {0}, {1500}, {9000}}, date \in {{}, {0}, {3000}, {8000}}, action \in {"rollover", "complete"},
        alias \in {<<>>, <<[write |-> TRUE]>>, <<[write |-> FALSE], [write |-> TRUE]>>}, indices \in {<<"a1">>, <<"a1", "a2">>},
        kind \in {"ok", "error"}, bad \in {0, 2}, primaries \in {0, 1}, c1 \in CopiesOf("a1"), c2 \in CopiesOf("a2") :
       \/ call' = [op |-> "indices", lookups |-> LookupsOf(created, date, action, alias, indices, kind), date |-> 5000,
                   entries |-> [i \in 1 .. 3 |-> [ok |-> i # bad,
                      v |-> <<IndexEntry("a1", 1, Few, c1), IndexEntry("a2", primaries, Few, c2), IndexEntry("other", 1, Few, <<>>)>>[i]]]]
       \/ /\ bad = 0 /\ primaries = 1 /\ c1 = <<>> /\ c2 = <<>> /\ alias = <<>>
          /\ \E a \in Amounts :
               call' = [op |-> "indices", lookups |-> LookupsOf(created, date, action, alias, indices, kind), date |-> 5000,
                        entries |-> <<[ok |-> TRUE, v |-> IndexEntry("a2", 2, a, <<[number |-> 0, copies |-> <<Copy("a2", "n1", a)>>]>>)]>>]

Held == {[kind |-> "object", items |-> x] : x \in {[kind |-> "none"], [kind |-> "odd"], [kind |-> "items", list |-> <<"n1", "x">>],
                                                 [kind |-> "items", list |-> <<>>]}}
PipelinesRun == {<<>>, <<[name |-> "p", processors |-> <<{[name |-> "set", type |-> "none"]}, {}, {[name |-> "tag", type |-> "grok"]}>>],
                        [name |-> "q", processors |-> <<>>]>>}
ReadNodes ==
  /\ Idle
  /\ \E id \in {"n1", "n9"}, transport, adaptive \in Held \cup {[kind |-> "absent"]}, http, discovery \in Held,
        roles \in {{}, {"ingest"}}, pipelines \in PipelinesRun, total \in {0, 4}, bad \in BOOLEAN :
       call' = [op |-> "nodes", lookups |-> LookupsOf({}, {}, "complete", <<>>, <<"a1">>, "ok"),
                entries |-> <<[ok |-> TRUE, v |-> [id |-> id, transport |-> transport, adaptive |-> adaptive, http |-> http,
                                                  discovery |-> discovery, roles |-> roles, pipelines |-> pipelines,
                                                  disk |-> [total |-> total, free |-> 1], load |-> {300}]]>>
                           \o IF bad THEN <<[ok |-> FALSE]>> ELSE <<>>]

Actions == [scope : {"indices", "cluster"}, path : {<<"data", "write", "bulk">>, <<"data", "read", "search">>, <<"data", "write">>},
            marks : {<<>>, <<"s">>, <<"s", "p">>, <<"s", "r">>, <<"p">>, <<"s", "p", "x">>}]
ReadTasks ==
  /\ Idle
  /\ \E action \in Actions, description \in {{}, {[requests |-> {3}, indices |-> <<"a", "b">>, number |-> {}]},
                                              {[requests |-> {}, indices |-> <<"a">>, number |-> {0}]}},
        parent \in {{}, {<<"n1">>}, {<<"n1", 7>>}}, node \in {"n1", "n9"} :
       call' = [op |-> "tasks", lookup |-> LookupsOf({}, {}, "complete", <<>>, <<"a1">>, "ok").node,
                nodes |-> <<[id |-> node, tasks |-> <<[id |-> 1, action |-> action, description |-> description, parent |-> parent],
                                                     [id |-> 2, action |-> action, description |-> {}, parent |-> {}]>>]>>]
\* The characters of a snapshot's name: digits, 10 for a dot, 11 for another.
Day(y, m, d) == <<2, 0, 2, y, 10, m \div 10, m % 10, 10, d \div 10, d % 10>>
ReadSnapshots ==
  /\ Idle
  /\ \E before \in {<<>>, <<11>>, <<10, 1>>}, after \in {<<>>, <<1>>, <<10, 1, 2>>}, m \in {0, 3, 12, 13}, d \in {0, 1, 31, 32},
        second \in {<<>>, Day(6, 3, 1), <<10, 0, 1, 10, 0, 9>>}, ok \in BOOLEAN :
       call' = [op |-> "snapshots",
                entries |-> <<[ok |-> ok, v |-> before \o Day(6, m, d) \o second \o after], [ok |-> TRUE, v |-> <<11>>]>>]
ReadParts ==
  /\ Idle
  /\ \E x, y \in {{}, {<<>>}, {<<"i1", "i2">>}}, a, b \in {<<>>, <<"one">>, <<"one", "two">>} :
       call' = [op |-> "parts", indicators |-> <<[name |-> "disk", impacts |-> x, diagnosis |-> y], [name |-> "slm", impacts |-> y, diagnosis |-> {}]>>,
                pipelines |-> <<[name |-> "main", plugins |-> [input |-> a, codec |-> b, filter |-> <<>>, output |-> a]],
                               [name |-> "side", plugins |-> [input |-> b, codec |-> <<>>, filter |-> a, output |-> <<>>]]>>]

(* ----------------------------- running products ---------------------------- *)
K == INSTANCE Clients

SendRequest ==
  /\ Idle
  /\ \E type \in {"none", "basic", "apikey"}, base \in {<<>>, <<"">>, <<"c">>, <<"c", "d", "">>}, path \in {<<>>, <<"">>, <<"_cat", "nodes">>, <<"x", "">>},
        query \in UNION {[1 .. n -> {<<>>, <<"v">>, <<"h", "id">>}] : n \in 0 .. 3} :
       call' = [op |-> "send", auth |-> [type |-> type, user |-> "u", key |-> "k"], base |-> base, path |-> path, query |-> query]
Replies == {0, 200, 204, 401, 403, 404, 410, 503}
Products == {"elasticsearch", "kibana", "logstash"}
ProbeProduct ==
  /\ Idle
  /\ \E client, server0 \in Products, s, r, u \in Replies, json \in BOOLEAN, flavor \in {"default", "serverless"}, enabled \in {"yes", "no", "absent"} :
       call' = [op |-> "probe", client |-> client, server |-> server0, answer |-> [status |-> s, json |-> json, fields |-> {"name"}],
                root |-> [status |-> r, json |-> json, flavor |-> flavor], usage |-> [status |-> u, json |-> json, enabled |-> enabled]]
OpenInput ==
  /\ Idle
  /\ \E k \in {"directory", "file", "service link", "cloud admin", "gov admin", "cloud", "host", "stream"}, app \in Products :
       call' = [op |-> "receiver", uri |-> [kind |-> k, app |-> app]]

(* --------------------------- references and hosts -------------------------- *)
R == INSTANCE HostReferences WITH Backslashed <- {"back"}, Extended <- {"x.zip"}

Names == {"", "es", "cloud", "prod", "back"}
Segs == {<<a>> : a \in Names} \cup {<<a, b>> : a, b \in Names} \cup {<<"prod", "eu", "es">>, <<"a", "cloud">>}
Dots == {R!Dot(<<s>>) : s \in Segs} \cup {R!Dot(<<s, <<t>>>>) : s \in Segs, t \in {"", "dep"}}
        \cup {R!Dot(<<s, <<t>>, <<u>>>>) : s \in Segs, t \in {"", "dep"}, u \in {"es", "kb", ""}}
Urls == {R!Url(s, h, p, w /\ s = "https") : s \in {"https", "file", "prod", "stdio"}, h \in {"", "upload", "any", "stdout"},
                             p \in {<<>>, <<"kb">>, <<"a", "b">>, <<"a", "">>}, w \in BOOLEAN}
Texts == Dots \cup Urls \cup {R!Plain(p) : p \in {"-", "prod", "x.zip", "other"}}
Saved == {{}, {R!Plain("prod"), R!Dot(<<<<"prod">>>>), R!Dot(<<<<"prod", "es">>>>), R!Url("prod", "", <<>>, FALSE)}}

NameContext ==
  /\ Idle
  /\ \E name \in {<<s>> : s \in Segs} \cup {<<s, t>> : s, t \in {<<"prod">>, <<"a", "b">>}}, hosts \in Saved :
       call' = [op |-> "context", name |-> name, hosts |-> hosts]
ReadText ==
  /\ Idle
  /\ \E text \in Texts, hosts \in Saved, fs \in {"dir", "file", "absent"} :
       call' = [op |-> "text", text |-> text, hosts |-> hosts, fs |-> fs]

H == INSTANCE HostRecords

HostUrls == {H!NoUrl} \cup {[domain |-> d, path |-> p] : d \in {"plain", "admin"}, p \in {"deployment", "proxy"}}
Template(tokens) == [tokens |-> tokens, url |-> [domain |-> "admin", path |-> "proxy"]]
Templates == {H!NoTemplate, Template(<<"{", "id", "}">>), Template(<<"{", "id", "{">>),
              Template(<<"{", "id", "}", "{", "product", "}">>)}
Credentials == {H!NoCredential, H!KeystoreRef("s"), H!Runtime("apikey"), H!FromHostsYml("s", "basic")}
Host(app, cloud, roles, viewer, url, template, cred) ==
  [certs |-> FALSE, app |-> app, cloud |-> cloud, roles |-> roles, viewer |-> viewer, url |-> url,
   template |-> template, cred |-> cred]
RoleLists == {<<>>, <<"collect">>, <<"send", "collect">>, <<"view">>}
Hosts == {Host(a, H!None, r, "", u, t, c) : a \in {H!None, "elasticsearch", "kibana", "agent"}, r \in RoleLists,
                                            u \in HostUrls, t \in Templates, c \in Credentials}
BuiltHosts == {H!FromParts(h) : h \in {x \in Hosts : H!ValidParts(x)}}
Entry(auth, key, secret) ==
  [certs |-> "absent", app |-> "elasticsearch", cloud |-> "absent", roles |-> <<"absent">>, secret |-> secret, viewer |-> "",
   url |-> [domain |-> "plain", path |-> ""], template |-> H!NoTemplate, auth |-> auth, apikey |-> key,
   username |-> FALSE, password |-> FALSE]
Viewer == [Entry("absent", FALSE, "s") EXCEPT !.app = "kibana", !.roles = <<"view">>]
HostFiles == {[other |-> Entry(a, k, s), kb |-> Viewer] : a \in {"absent", "ApiKey", "NoAuth"}, k \in BOOLEAN, s \in {"", "s"}}

SaveHost ==
  /\ Idle
  /\ \E file \in HostFiles, h \in BuiltHosts, viewer \in {"", "kb"}, name \in {"new", "other"}, reserved \in {{}, {"new"}} :
       call' = [op |-> "save", file |-> file, name |-> name, h |-> [h EXCEPT !.viewer = viewer],
                reserved |-> reserved, scheme |-> {"new"}]
UpdateHost ==
  /\ Idle
  /\ \E h \in BuiltHosts, certs \in {"none", "true"}, roles \in {<<>>, <<"view">>}, secret \in {"", "s"},
        given \in SUBSET {"apikey", "username", "password"}, known \in BOOLEAN :
       call' = [op |-> "update", h |-> h, known |-> known,
                u |-> [certs |-> certs, roles |-> roles, secret |-> secret, apikey |-> "apikey" \in given,
                       username |-> "username" \in given, password |-> "password" \in given]]
UseHost ==
  /\ Idle
  /\ \E h \in BuiltHosts, product \in {"elasticsearch", "kibana", "agent", "x"}, store \in {<<>>, [s |-> "basic"]} :
       call' = [op |-> "use", h |-> h, product |-> product, store |-> store]

(* --------------------------- the Elastic CLI's file ------------------------ *)
E == INSTANCE ElasticRc

Auths == {{}, {"api_key"}, {"username"}}
Service(url, scheme, auth) == [url |-> url, scheme |-> scheme, auth |-> auth]
Contexts == {<<>>} \cup {[elasticsearch |-> Service("es", s, a)] : s \in {"http", "ftp"}, a \in Auths}
            \cup {[elasticsearch |-> Service("es", "http", a), kibana |-> Service("kb", s, b)] :
                     s \in {"http", "ftp"}, a \in Auths, b \in Auths}
Second == [elasticsearch |-> Service("es2", "http", {}), kibana |-> Service("kb2", "http", {})]
Configs == {[current |-> c, contexts |-> [one |-> x, two |-> Second]] : c \in {"one", "gone"}, x \in Contexts}
Environments == {[elasticsearch |-> [url |-> e, auth |-> a], kibana |-> [url |-> k, auth |-> {}]] :
                   e \in {"", "no url", "env_es"}, k \in {"", "no url", "env_kb"}, a \in Auths}

ResolveOutput ==
  /\ Idle
  /\ \E config \in {{}} \cup {{c} : c \in Configs}, env \in Environments, context \in {"none", "two", "three"},
        invoked, kibana \in BOOLEAN :
       call' = [op |-> "output", config |-> config, env |-> env, context |-> context, invoked |-> invoked, kibana |-> kibana]

LoadConfig ==
  /\ Idle
  /\ \E explicit \in {"none", "x.js", ".elasticrc.yml"}, variable \in {"none", ".elasticrc"},
        there \in SUBSET {"x.js", ".elasticrc", ".elasticrc.yml"}, current \in {"", "one"}, broken \in {"none", ".elasticrc"} :
       call' = [op |-> "load", explicit |-> explicit, variable |-> variable,
                home |-> [f \in there |-> [config |-> [current |-> current, contexts |-> [one |-> Second]], parses |-> f # broken]]]

Chars == {"a", "space", "single", "double", "backslash", "semicolon"}
Lines(n) == UNION {[1 .. k -> Chars] : k \in 0 .. n}
SplitCommand ==
  /\ Idle /\ \E first \in Lines(3), second \in Lines(1) : call' = [op |-> "argv", words |-> <<first, second>>]

Worlds == [file : [regular : BOOLEAN, size : {2, 3}, opens : {TRUE}, read : {2, 3}, utf8 : BOOLEAN],
           resolver : {"secret_service", "keychain"}, account : {"", "me"}, held : BOOLEAN]
ExpandValue ==
  /\ Idle
  /\ \E text \in UNION {[1 .. k -> {"$(", ")", "env", "file"}] : k \in 0 .. 4}, world \in Worlds :
       \/ call' = [op |-> "expand", text |-> text, world |-> world]
       \/ text = <<>> /\ call' = [op |-> "expand", text |-> <<"file", "$(", "keyring", ")">>, world |-> world]

(* ------------------------------ the command line --------------------------- *)
C == INSTANCE CommandLine

Tokens == {"--format", "--format=json", "--agent", "--help", "help", "json", "process", "host", "x"}
ReadArguments ==
  /\ Idle /\ \E args \in UNION {[1 .. n -> Tokens] : n \in 0 .. 4} : call' = [op |-> "arguments", args |-> args]
LogRun ==
  /\ Idle
  /\ \E command \in {"serve", "collect"}, debug, agent \in BOOLEAN, variable \in {"none", "warn", "debug"} :
       call' = [op |-> "log", c |-> [command |-> command, debug |-> debug, agent |-> agent], variable |-> variable]
Names0 == {"process", "job run", "local", "serve", "setup completions", "version"} \cup DOMAIN C!FiniteOutcomes
Exports == {"stdout", "host"}
RunCommand ==
  /\ Idle
  /\ \E name \in Names0, output \in {"-", "stdio://stdout", "x.zip"}, ask, print \in BOOLEAN, arg \in {"none", "secrets", "up"},
        a, b, c \in Exports, at \in {"refused", "failed", "done"} :
       /\ (output = "x.zip" /\ ~ask) \/ name \in {"process", "serve"}
       /\ (a = "host" /\ b = "host" /\ c = "host") \/ name = "job run"
       /\ arg = "none" \/ name = "local"
       /\ ~print \/ name = "setup completions"
       /\ name = "version" => at = "done"
       /\ call' = [op |-> "run", c |-> [name |-> name, output |-> output, ask |-> ask, print |-> print, arg |-> arg,
                                        reads |-> <<a, b, c>>, at |-> at]]

Children == {[report |-> r, failure |-> f, skipped |-> s] : r, f, s \in BOOLEAN}
Outcomes ==
  {[bundle |-> b, retained |-> r, created |-> c, slug |-> g, report |-> p, children |-> <<x>>] :
     b, r, c, g, p \in BOOLEAN, x \in Children}
Words == {{}, {"not found", "auth"}, {"collect", "process"}, {"send"}, {"secret"}}
Statuses == {0, 401, 404, 409, 503, 418}
Errors ==
  {[type |-> t, status |-> s, words |-> w] : t \in {"secret exists", "ask conflict", "saved job missing", "skills", "plain"},
                                             s \in Statuses, w \in Words}
  \cup {[type |-> "job", status |-> s, words |-> {"send"}, stage |-> g, outcome |-> o] :
           s \in {0, 503}, g \in {"collect", "process", "send"}, o \in Outcomes}
  \cup {[type |-> "agent", status |-> 0, words |-> {}, agent |-> [kind |-> k, status |-> s, conversation |-> c]] :
           k \in {"http", "remote", "protocol", "transport", "interrupted"}, s \in Statuses \ {0}, c \in BOOLEAN}
ReportFailure == Idle /\ \E e \in Errors, setup \in BOOLEAN : call' = [op |-> "failure", e |-> e, setup |-> setup]

AddHost ==
  /\ Idle
  /\ \E app \in {"none", "kibana"}, port \in {0, 443, 9200, 5601, 9600}, template \in BOOLEAN, materialised \in {"none", "logstash"},
        path \in {<<>>, <<"api", "v1", "deployments", "id", "kibana">>, <<"api", "v1", "deployments", "", "id">>} :
       call' = [op |-> "add", app |-> app, target |-> [port |-> port, path |-> path], template |-> template,
                materialised |-> materialised]

(* --------------------------------- saved jobs ------------------------------ *)
DraftRegistry ==
  [version |-> Source(Es!Types, "required", <<>>, <<>>), b |-> Source({"support"}, "option", <<"c">>, <<>>),
   c |-> Source({"support", "light"}, "option", <<>>, <<>>)]
ResolveDraft(product, type, selected) ==
  IF product = "gone" THEN <<"error">>
  ELSE LET r == Es!ResolveSelection(product, DraftRegistry, type, selected) IN IF r = Es!Err THEN <<"error">> ELSE r
J == INSTANCE JobDrafts WITH ResolveProcessing <- ResolveDraft

World == [hosts |-> {"es", "prod"}, dirs |-> {"dir"}, urls |-> {"url"}]
Drafts ==
  {[J!DefaultDraft EXCEPT !.mode = m, !.host = h, !.save = s, !.dir = d, !.process = p, !.enabled = e, !.selected = l,
      !.product = a, !.send = o, !.remote = r, !.local = t, !.localDir = ld, !.raw = w, !.rawLocal = k] :
     m \in {"collect", "upload"}, h \in {"es", "x"}, s, e, k \in BOOLEAN, d \in {"", " ", "dir"}, p \in {"process", "forward"},
     l \in {<<>>, <<"b">>}, a \in {"elasticsearch"}, o \in {"remote", "local"}, r \in {"", "prod", "up"},
     t \in {"", "directory", "-", "x.zip"}, ld \in {"", "dir"}, w \in {"", " ", "up"}}
DraftJob ==
  /\ Idle
  /\ \E d \in Drafts :
       /\ d.mode = "upload" => d.host = "es" /\ d.selected = <<>>
       /\ d.host = "x" => d.selected = <<>> /\ d.dir = "" /\ d.raw = ""
       /\ d.selected # <<>> => d.dir # " " /\ d.raw # " " /\ d.enabled
       /\ call' = [op |-> "draft", d |-> d]
DeriveJob ==
  /\ Idle
  /\ \E host \in {"es", "x"}, output \in {"none", "prod", "dir", "-", "url", "x.zip"}, send \in {"none", " ", "up"},
        context, default \in {"", "prod"}, env \in {"", "set"} :
       call' = [op |-> "derive", host |-> host, output |-> output, send |-> send,
                config |-> [context |-> context, default |-> default], env |-> env]
OldSelections == {[explicit |-> FALSE, product |-> "elasticsearch", type |-> "standard", selected |-> <<>>]}
  \cup {[explicit |-> TRUE, product |-> p, type |-> "support", selected |-> l] : p \in {"elasticsearch", "gone"}, l \in {<<>>, <<"old_c">>}}
OldJobs == {[host |-> h, type |-> "light", dir |-> d, action |-> a, at |-> "prod", selection |-> s] :
              h \in {"es", ""}, d \in {"", "dir"}, a \in {"collect", "upload", "process"}, s \in OldSelections}
NewJobs == {J!Job("es", "standard", J!Temporary, J!NoProcess, "up"), J!Job("es", "light", J!Retained("dir"), J!NoProcess, "")}
Numbers == {"absent", "mapping", "bad", "1", "2", "3"}
JobFiles ==
  {[kind |-> k, version |-> "absent", hasJobs |-> FALSE, entries |-> <<>>] : k \in {"absent", "blank", "mapping"}}
  \cup {[kind |-> "mapping", version |-> v, hasJobs |-> k, entries |-> [n |-> x, m |-> y]] :
           v \in {"absent", "mapping"}, k \in {FALSE, TRUE}, x \in OldJobs, y \in {z \in OldJobs : z.dir = "" /\ ~z.selection.explicit}}
  \cup {[kind |-> "mapping", version |-> v, hasJobs |-> TRUE, entries |-> [n |-> x]] : v \in {"bad", "1", "2", "3"}, x \in NewJobs}
StoreJob ==
  /\ Idle
  /\ \E file \in JobFiles, name \in {"n", "o", "a/b", " "}, job \in NewJobs :
       call' = [op |-> "store", file |-> file, name |-> name, job |-> job]

(* ---------------------------------- the server ----------------------------- *)
P == INSTANCE ServerPolicy

Given == {"none", "google-iap", "odd"}
StartServer ==
  /\ Idle
  /\ \E mode \in P!Modes, provider, variable \in Given, header \in {"none", "blank", "x-user"}, features \in {{"none"}, {}, {"advanced"}, {"job-builder", "odd"}},
        global \in {P!Absent, P!Garbage, 0, 1}, method \in {"GET", "OPTIONS"}, path \in {"style.css", "index", "jobs", "api/settings/update", "nowhere"},
        sent \in {<<>>, <<"">>, <<"ann">>, <<"acct", "ann">>, <<"a", "b", "">>}, user \in {"", "me"}, config \in {"", "unreadable"} :
       call' = [op |-> "serve", mode |-> mode, o |-> [provider |-> provider, header |-> "none", features |-> {"none"}],
                env |-> [provider |-> variable, header |-> header, features |-> features, global |-> global, owner |-> P!Absent],
                method |-> method, path |-> path, sent |-> sent, user |-> user, config |-> config]
ReadLimits ==
  /\ Idle
  /\ \E v, w \in {P!Absent, P!Garbage, 0, 1, 3, 5, 9, 255, 256}, weight \in {P!Absent, 1, 3, 5}, other \in 1 .. 5 :
       call' = [op |-> "limits", v |-> v, w |-> w, weight |-> weight, other |-> other]

(* --------------------------------- properties ------------------------------ *)
\* The sources of a diagnostic: what is collected is what was asked for, less the
\* exclusions, and all that it needs, before what needs it (processor/api.rs); a
\* selection derived from it is collected and stable; a bundle is read alike
\* zipped and unpacked, and an included one with the sources of its own product
\* (receiver/); a bundle once classified stays so, written, read again, and for
\* every diagnostic included in it (processor/diagnostic/, processor/mod.rs); every
\* part of a response has its document, once, enriched with what is its own
\* (processor/elasticsearch/, processor/logstash/); a product that runs is asked in
\* one version, whoever asks first, and taken for what it is (receiver/, client/).
SourcesSound ==
  /\ Live!OneVersionAsked
  /\ CASE call.op = "select" ->
            /\ call.type = "custom" \/ Es!CollectedIsClosure("elasticsearch", call.reg, call.type, call.include, call.exclude)
            /\ Es!SelectionIsCollected("elasticsearch", call.reg, call.type, call.include, call.exclude)
       [] call.op = "kibana" -> Kb!CollectedIsClosure("kibana", call.reg, call.type, call.include, call.exclude)
       [] call.op = "read" -> F!SameInEitherForm(call.bundle, <<"r">>, call.subdir, call.registry, call.name, call.aliases)
       [] call.op = "included" -> F!ChildReadsOwnSources(call.sub, call.parentApp, call.app)
       [] call.op = "classify" -> B!OnceClassified(call.m, call.identified, call.seen)
       [] call.op = "child" -> B!ChildLikeParent(call.m, call.parent, call.seen)
       [] call.op = "old" -> B!OldManifestsKeepMeaning(call.old)
       [] call.op = "listed" -> D!NodesFound(call.nodes)
       [] call.op = "streams" -> D!StreamsFound(call.streams)
       [] call.op = "words" -> D!NameCutInPlace(call.words)
       [] call.op = "mapping" -> D!MappingCounted(call.properties)
       [] call.op = "stream" -> D!StreamsHonest(call.entries, call.absent)
       [] call.op = "indices" -> D!IndicesComplete(call.entries, call.lookups, call.date)
       [] call.op = "nodes" -> D!NodesComplete(call.entries, call.lookups)
       [] call.op = "tasks" -> D!TasksComplete(call.nodes, call.lookup)
       [] call.op = "snapshots" -> D!SnapshotsComplete(call.entries)
       [] call.op = "parts" -> D!PartsComplete(call.indicators, call.pipelines)
       [] call.op = "send" -> K!RequestsWhole(call.auth, call.base, call.path, call.query)
       [] call.op = "probe" -> K!ProductsKnown(call.client, call.server, call.answer, call.root, call.usage)
       [] call.op = "receiver" -> K!ReceiverFits(call.uri)
       [] OTHER -> TRUE

\* The hosts behind what the user writes: a reference selects one thing and a
\* context only itself (host_reference.rs, elastic_context.rs, uri.rs); a host
\* that is saved is read back, without plaintext and without a change to its
\* neighbours, and what is resolved from it can be used (known_host.rs); an
\* output is taken whole from one place, and a configuration that is served was
\* in the file during the call (elastic_context.rs); the values of the Elastic
\* CLI's file come whole or not at all, and its commands leave nothing behind
\* (crates/elasticrc).
ReferencesSound ==
  /\ Cache!ServedIsCurrent
  /\ Command!CommandLeavesNothing
  /\ CASE call.op = "context" -> R!ReferenceSelectsContext(call.name, call.hosts)
       [] call.op = "text" -> R!TextMeansOneThing(call.text, call.hosts, call.fs)
       [] call.op = "save" -> H!SavedIsRead(call.file, call.name, call.h, call.reserved, call.scheme)
       [] call.op = "update" -> H!UpdateIsLocal(call.h, call.u, call.known)
       [] call.op = "use" -> H!ResolvedIsUsable(call.h, call.product, call.store)
       [] call.op = "output" -> E!OneSource(call.config, call.env, call.context, call.invoked, call.kibana)
       [] call.op = "load" -> E!NamedOrFails(call.explicit, call.variable, call.home)
       [] call.op = "argv" -> E!ArgumentsArrive(call.words) /\ E!NoShellPassed(call.words[1] \o call.words[2])
       [] call.op = "expand" -> E!ExpressionsInPlace(call.text, call.world)
       [] OTHER -> TRUE

\* What the program was asked to do: the arguments select one command of the
\* profile, stdout has one voice, and a failure says what is known and no more
\* (main.rs); the draft of a job means the job it compiles to, a job saved by a
\* command does what the command does, and the file of an older release keeps its
\* jobs (data/saved_jobs.rs, job/mod.rs); a shared server keeps to itself what
\* belongs to the user who runs it, and its limits let work through (server/mod.rs).
RequestsSound ==
  CASE call.op = "arguments" -> C!ProfileIsExact(call.args)
    [] call.op = "log" -> C!RunIsRecorded(call.c, call.variable)
    [] call.op = "run" -> C!OneVoice(call.c)
    [] call.op = "failure" -> C!FailureIsHonest(call.e, call.setup)
    [] call.op = "add" -> C!AddedHostHasApp(call.app, call.target, call.template, call.materialised)
    [] call.op = "draft" -> J!DraftMeansJob(call.d, World)
    [] call.op = "derive" -> J!SavedLikeTheRun(call.host, call.output, call.send, call.config, call.env, World)
    [] call.op = "store" -> J!FileKeepsJobs(call.file, call.name, call.job)
    [] call.op = "serve" ->
         P!SharedServerIsShut(call.mode, call.o, call.env, call.method, call.path, call.sent, call.user, call.config)
    [] call.op = "limits" -> P!LimitsLetWorkThrough(call.v, call.w, call.weight, call.other)
    [] OTHER -> TRUE

Init ==
  /\ part \in {"decisions", "cache", "command", "receiver"} /\ call = [op |-> "none"]
  /\ Cache!CacheInit /\ Command!CommandInit /\ Live!ReceiverInit
  /\ part # "receiver" => receiver = "kibana" /\ server = 1
  /\ part # "cache" => platform = [os |-> "unix", apart |-> FALSE]
Return == part = "decisions" /\ call.op # "none" /\ call' = [op |-> "none"]
Decide ==
  \/ SelectSources \/ SelectKibana \/ ReadSource \/ OpenIncluded \/ Classify \/ ClassifyChild \/ ReadOldManifest
  \/ ListNodes \/ ListStreams \/ NameStream \/ SummarizeMapping \/ StreamResponse \/ ReadIndices \/ ReadNodes \/ ReadTasks
  \/ ReadSnapshots \/ ReadParts \/ SendRequest \/ ProbeProduct \/ OpenInput \/ NameContext \/ ReadText \/ SaveHost \/ UpdateHost \/ UseHost \/ ResolveOutput \/ LoadConfig \/ SplitCommand
  \/ ExpandValue \/ ReadArguments \/ LogRun \/ RunCommand \/ ReportFailure \/ AddHost \/ DraftJob \/ DeriveJob \/ StoreJob
  \/ StartServer \/ ReadLimits \/ Return
Next ==
  /\ UNCHANGED part
  /\ \/ Decide /\ UNCHANGED <<cacheVars, commandVars, receiverVars>>
     \/ part = "cache" /\ Cache!CacheNext /\ UNCHANGED <<call, commandVars, receiverVars>>
     \/ part = "command" /\ Command!CommandNext /\ UNCHANGED <<call, cacheVars, receiverVars>>
     \/ part = "receiver" /\ Live!ReceiverNext /\ UNCHANGED <<call, cacheVars, commandVars>>
Spec == Init /\ [][Next]_vars
===============================================================================
