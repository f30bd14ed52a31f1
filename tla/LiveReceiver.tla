------------------------------ MODULE LiveReceiver ------------------------------
(* The receivers that ask a running product (receiver/elasticsearch.rs,          *)
(* kibana.rs, logstash.rs, elastic_cloud_admin.rs). All clones of a receiver     *)
(* share one cell for the version of the product, which the first of them that   *)
(* needs it asks for; what it then asks depends on that version. The product may *)
(* be upgraded meanwhile.                                                        *)
EXTENDS Naturals, Sequences, FiniteSets
CONSTANTS Tasks,     \* what asks through clones of one receiver
          MaxFaults, \* bound: requests for the version that fail
          Ranges     \* the versions of a source: a sequence of [from, to, url]

VARIABLES receiver,        \* which one it is
          server,      \* the version the product has now
          cell,        \* the version in the cell, a set
          initialiser, \* who fills the cell, a set
          tasks, faults, asked
receiverVars == <<receiver, server, cell, initialiser, tasks, faults, asked>>

Kinds == {"elasticsearch", "kibana", "logstash", "admin"}
Idle0 == [pc |-> "idle", op |-> "none", version |-> {}, url |-> "none", fault |-> "none", result |-> "none", status |-> 0]

ReceiverInit ==
  /\ receiver \in Kinds /\ server \in {0, 1} /\ cell = {} /\ initialiser = {} /\ faults = 0 /\ asked = 0
  /\ tasks = [t \in Tasks |-> Idle0]

\* A pre-release is matched as its release. The first range that has it.
ResolveVersion(version) ==
  LET hits == SelectSeq(Ranges, LAMBDA r : r.from <= version /\ version < r.to)
  IN IF hits = <<>> THEN {} ELSE {hits[1].url}

\* The answers a receiver takes a value from: get of two of them takes a 200 only.
ElasticsearchAccepts(status) == status = 200
KibanaAccepts(status) == status \in 200 .. 299
LogstashAccepts(status) == status = 200
AdminAccepts(status) == status \in 200 .. 299
RawAccepts(status) == status \in 200 .. 299
Accepts(op, status) ==
  CASE op = "raw" -> RawAccepts(status)
    [] op # "raw" /\ receiver = "elasticsearch" -> ElasticsearchAccepts(status)
    [] op # "raw" /\ receiver = "kibana" -> KibanaAccepts(status)
    [] op # "raw" /\ receiver = "logstash" -> LogstashAccepts(status)
    [] OTHER -> AdminAccepts(status)

Done(t, result) == [t EXCEPT !.pc = "done", !.result = result]
\* With the version, or without.
Resolved(t, version) ==
  IF t.op = "context" \/ (t.op = "manifest" /\ receiver = "logstash") THEN Done([t EXCEPT !.version = version], "version")
  ELSE IF version = {} THEN Done(t, "error")
  ELSE LET url == ResolveVersion(CHOOSE v \in version : TRUE)
       IN IF url = {} THEN Done([t EXCEPT !.version = version], "unsupported")
          ELSE [t EXCEPT !.version = version, !.pc = "sent", !.url = CHOOSE u \in url : TRUE]

\* The version could not be had. Two of the receivers end with its error; the
\* others go on without a version, and fail for the lack of it.
Unanswered(t) == IF t.fault = "status" THEN [Done(t, "http") EXCEPT !.status = 503] ELSE Done(t, "error")
ElasticsearchFails(t) == Unanswered(t)
KibanaFails(t) == Unanswered(t)
LogstashFails(t) == IF t.op \in {"context", "manifest"} THEN Unanswered(t) ELSE Resolved(t, {})
AdminFails(t) == IF t.op = "context" THEN Unanswered(t) ELSE Resolved(t, {})
VersionFails(t) ==
  CASE receiver = "elasticsearch" -> ElasticsearchFails(t)
    [] receiver = "kibana" -> KibanaFails(t)
    [] receiver = "logstash" -> LogstashFails(t)
    [] OTHER -> AdminFails(t)

\* Nothing that runs can be streamed. The manifest of Kibana is its status.
Ask(t) ==
  /\ tasks[t].pc = "idle"
  /\ \E op \in {"get", "raw", "stream", "manifest", "context"} :
       tasks' = [tasks EXCEPT ![t] =
         LET asks == [Idle0 EXCEPT !.op = op]
         IN IF op = "stream" THEN Done(asks, "error")
            ELSE IF op = "manifest" /\ receiver = "kibana" THEN [asks EXCEPT !.pc = "sent", !.url = "status"]
            ELSE [asks EXCEPT !.pc = "version"]]
  /\ UNCHANGED <<receiver, server, cell, initialiser, faults, asked>>
BeginVersion(t) ==
  /\ tasks[t].pc = "version" /\ cell = {} /\ initialiser = {}
  /\ initialiser' = {t} /\ asked' = asked + 1
  /\ tasks' = [tasks EXCEPT ![t].pc = "asking"]
  /\ UNCHANGED <<receiver, server, cell, faults>>
HasVersion(t) ==
  /\ tasks[t].pc = "version" /\ cell # {}
  /\ tasks' = [tasks EXCEPT ![t] = Resolved(@, cell)]
  /\ UNCHANGED <<receiver, server, cell, initialiser, faults, asked>>
EndVersion(t) ==
  /\ tasks[t].pc = "asking" /\ initialiser' = {}
  /\ \/ /\ cell' = {server} /\ tasks' = [tasks EXCEPT ![t] = Resolved(@, {server})]
        /\ UNCHANGED faults
     \/ /\ faults < MaxFaults /\ faults' = faults + 1
        /\ \E fault \in {"unsent", "status", "unreadable"} :
             tasks' = [tasks EXCEPT ![t] = VersionFails([@ EXCEPT !.fault = fault])]
        /\ UNCHANGED cell
  /\ UNCHANGED <<receiver, server, asked>>
Answer(t) ==
  /\ tasks[t].pc = "sent"
  /\ \/ \E status \in {200, 204, 404, 503}, json \in BOOLEAN :
          tasks' = [tasks EXCEPT ![t] =
            IF ~Accepts(@.op, status) THEN [Done(@, "http") EXCEPT !.status = status]
            ELSE IF @.op # "raw" /\ ~json THEN [Done(@, "error") EXCEPT !.status = status]
            ELSE [Done(@, "value") EXCEPT !.status = status]]
     \/ tasks' = [tasks EXCEPT ![t] = Done(@, "error")]
  /\ UNCHANGED <<receiver, server, cell, initialiser, faults, asked>>
Leave(t) ==
  /\ tasks[t].pc = "done" /\ tasks' = [tasks EXCEPT ![t] = Idle0]
  /\ UNCHANGED <<receiver, server, cell, initialiser, faults, asked>>
\* external: the product
Upgrade ==
  /\ server < 2 /\ server' = server + 1
  /\ UNCHANGED <<receiver, cell, initialiser, tasks, faults, asked>>

ReceiverNext ==
  \/ \E t \in Tasks : Ask(t) \/ BeginVersion(t) \/ HasVersion(t) \/ EndVersion(t) \/ Answer(t) \/ Leave(t)
  \/ Upgrade
ReceiverSpec == ReceiverInit /\ [][ReceiverNext]_receiverVars

(* --------------------------------- properties ------------------------------ *)
\* However many ask at once, the version is asked for once more than it could not
\* be had; all use the same, before and after an upgrade, and ask where the ranges
\* say for it; what failed is no value, and the status of an answer is in its
\* error, but for a version whose failure is passed over (receiver/).
OneVersionAsked ==
  /\ asked <= faults + 1
  /\ cell = {} => asked = faults + Cardinality(initialiser)
  /\ \A t \in Tasks :
       /\ tasks[t].version # {} => tasks[t].version = cell
       /\ tasks[t].url \notin {"none", "status"} => {tasks[t].url} = ResolveVersion(CHOOSE v \in cell : TRUE)
       /\ tasks[t].result = "value" => tasks[t].status \in 200 .. 299 /\ tasks[t].url # "none"
       /\ tasks[t].result = "version" => cell # {} /\ tasks[t].version = cell
       /\ tasks[t].status > 299 => tasks[t].result = "http"
       /\ tasks[t].fault = "status" /\ tasks[t].result = "error" => receiver \in {"logstash", "admin"} /\ tasks[t].op \in {"get", "raw", "manifest"}
===============================================================================
