---------------------------- MODULE WorkspaceProofs ----------------------------
(* What the files that configure ESDiag are, whatever edits them: the          *)
(* invariants of Workspace and what the wizard reaches, for any names and      *)
(* forms, any number of pages and shells that edit the files at once, and any  *)
(* commands cut off.                                                           *)
EXTENDS Workspace, FiniteSetTheorems, SequenceTheorems, WellFoundedInduction, Functions, TLAPS

----------------------------------------------------------------------------
(* The programs                                                               *)

\* The steps of each command.
StepsOf(op) ==
  CASE op = "identity" -> {"load", "user", "workflow"}
    [] op = "unlock" -> {"create", "load", "exporter", "kibana"}
    [] op = "output" -> {"confirm", "connect", "parse", "write", "load", "select", "stamp", "exporter", "kibana"}
    [] op = "provision" -> {"confirmAny", "connect", "parse", "write", "load", "select", "stamp", "exporter", "kibana"}
    [] op = "collection" -> {"confirmHost", "connect", "parse", "source", "load", "undefer"}
    [] op = "defer" -> {"load", "exporter", "kibana", "may", "defer"}
    [] op = "default" -> {"load", "confirmJob", "fetch", "draft", "loadJobs", "saveJobs", "default"}
    [] op = "settings" -> {"load", "check", "fetch", "connect", "select", "kibana", "exporter", "stamp"}
    [] op \in {"host", "remove"} -> {"parse", "write", "load", "undefer", "active"}
    [] op = "cluster" -> {"parse", "write", "active"}
    [] op = "delhost" -> {"row", "parse", "write", "load", "undefer"}
    [] op = "delcluster" -> {"row", "parse", "write", "active"}
    [] op \in {"savejob", "deljob"} -> {"acquire", "release"}
    [] op = "add" -> {"absent", "connect", "parse", "write", "load", "undefer"}
    [] op = "update" -> {"fetch", "connect", "parse", "write", "load", "undefer"}
    [] op \in {"context", "clear"} -> {"load", "context"}
    [] op \in {"addjob", "dropjob"} -> {"loadJobs", "saveJobs"}
    [] OTHER -> {"load", "plan", "user", "workflow", "nodefault", "connect", "parse", "write", "select", "wait", "stamp",
                 "ask", "source", "undefer", "collectJob", "processJob", "loadJobs", "saveJobs", "default", "final"}

\* Which step may follow which in the program of a command.
Succ(op, x) ==
  IF x \notin StepsOf(op) THEN {} ELSE
  CASE x \in {"confirm", "confirmAny", "confirmHost", "absent"} -> {"connect"}
    [] x = "connect" -> IF op = "settings" THEN {"select"} ELSE {"parse"}
    [] x = "row" -> {"parse"}
    [] x = "parse" -> {"write", "source"}
    [] x = "write" -> IF op \in {"cluster", "delcluster"} THEN {"active"} ELSE {"load"}
    [] x = "load" ->
         CASE op = "identity" -> {"user", "workflow"}
           [] op = "unlock" -> {"exporter"}
           [] op \in {"output", "provision"} -> {"select", "stamp", "exporter"}
           [] op = "defer" -> {"exporter", "defer"}
           [] op = "default" -> {"confirmJob", "draft", "default"}
           [] op = "settings" -> {"check"}
           [] op \in {"context", "clear"} -> {"context"}
           [] op = "init" -> {"plan", "user", "workflow", "nodefault", "select", "wait", "undefer", "default"}
           [] OTHER -> {"undefer"}
    [] x = "user" -> IF op = "identity" THEN {"load"} ELSE {"load", "connect", "ask", "final"}
    [] x = "workflow" -> IF op = "identity" THEN {} ELSE {"load", "connect", "ask", "final"}
    [] x = "nodefault" -> {"connect", "final"}
    [] x = "select" -> IF op = "settings" THEN {"kibana"} ELSE {"load"}
    [] x = "stamp" -> CASE op = "provision" -> {"load"}
                        [] op = "init" -> {"ask", "final"}
                        [] OTHER -> {"exporter"}
    [] x = "wait" -> {"stamp"}
    [] x = "undefer" -> CASE op \in {"host", "remove"} -> {"active"}
                          [] op = "init" -> {"collectJob"}
                          [] OTHER -> {}
    [] x = "default" -> IF op = "init" THEN {"processJob", "final"} ELSE {}
    [] x = "exporter" -> IF op = "settings" THEN {} ELSE {"kibana"}
    [] x = "kibana" -> CASE op = "settings" -> {"exporter"}
                         [] op = "defer" -> {"may"}
                         [] OTHER -> {}
    [] x \in {"may", "create", "source"} -> {"load"}
    [] x \in {"check", "confirmJob"} -> {"fetch"}
    [] x = "fetch" -> IF op = "default" THEN {"load"} ELSE {"connect"}
    [] x = "draft" -> {"loadJobs"}
    [] x = "loadJobs" -> {"saveJobs"}
    [] x = "saveJobs" -> IF op \in {"default", "init"} THEN {"load"} ELSE {}
    [] x = "acquire" -> {"release"}
    [] x = "ask" -> {"collectJob"}
    [] x = "collectJob" -> {"processJob", "final"}
    [] x = "processJob" -> {"final"}
    [] OTHER -> {}

\* What follows a load, or a parse, that follows a step.
After(op, x) ==
  CASE x = "connect" -> IF op = "collection" THEN {"source"} ELSE {"write"}
    [] x = "row" -> {"write"}
    [] x = "write" -> IF op \in {"output", "provision", "init"} THEN {"select"} ELSE {"undefer"}
    [] x = "source" -> {"undefer"}
    [] x = "select" -> IF op = "init" THEN {"wait"} ELSE {"stamp"}
    [] x \in {"stamp", "create"} -> {"exporter"}
    [] x = "user" -> {"workflow", "nodefault"}
    [] x = "workflow" -> {"nodefault"}
    [] x = "may" -> {"defer"}
    [] x = "fetch" -> {"draft"}
    [] x = "saveJobs" -> {"default"}
    [] OTHER -> {}

\* Where a program ends.
Ending(op) ==
  CASE op = "identity" -> {"workflow"}
    [] op \in {"unlock", "output", "provision"} -> {"kibana"}
    [] op \in {"collection", "delhost", "add", "update"} -> {"undefer"}
    [] op = "defer" -> {"defer"}
    [] op = "default" -> {"default"}
    [] op = "settings" -> {"exporter"}
    [] op \in {"host", "remove", "cluster", "delcluster"} -> {"active"}
    [] op \in {"savejob", "deljob"} -> {"release"}
    [] op \in {"context", "clear"} -> {"context"}
    [] op \in {"addjob", "dropjob"} -> {"saveJobs"}
    [] OTHER -> {"plan", "final"}

Steps == ConfigSteps \cup
  {"confirm", "confirmAny", "confirmHost", "confirmJob", "absent", "connect", "row", "parse", "write", "source", "load",
   "active", "wait", "exporter", "kibana", "may", "create", "check", "fetch", "draft", "loadJobs", "saveJobs", "acquire",
   "release", "plan", "ask", "collectJob", "processJob", "final"}

OnCourse(op, s) ==
  /\ s \in Seq(Steps)
  /\ \A i \in 1..Len(s) :
       /\ i = Len(s) => s[i] \in Ending(op)
       /\ i < Len(s) => s[i + 1] \in Succ(op, s[i])
       /\ i < Len(s) /\ s[i + 1] \in {"load", "parse"} => i + 1 < Len(s) /\ s[i + 2] \in After(op, s[i])

----------------------------------------------------------------------------
(* What a command has read                                                    *)

WebOps == {"identity", "unlock", "output", "provision", "collection", "defer", "default", "settings",
           "host", "cluster", "delhost", "delcluster", "savejob", "deljob"}
CliOps == {"add", "update", "remove", "context", "clear", "addjob", "dropjob", "init"}
ExporterStates == {None} \cup (Names \X {"u1", "u2"}) \cup {<<"env">>, <<"rc">>}

Shaped(p) ==
  p = [op |-> p.op, name |-> p.name, orig |-> p.orig, host |-> p.host, wf |-> p.wf, job |-> p.job,
       target |-> p.target, saw |-> p.saw, cfg |-> p.cfg, seen |-> p.seen, got |-> p.got, how |-> p.how,
       mem |-> p.mem, with |-> p.with, before |-> p.before, todo |-> p.todo]

Unplanned(p) == p.op = "init" /\ p.todo \in {<<"load", "plan">>, <<"plan">>}
Arguments(p) ==
  /\ p.op \in {"output", "provision", "collection", "default", "settings", "host", "cluster", "add", "update"}
       => p.name \in Clusters
  /\ p.op \in {"host", "add", "update"} => p.host \in HostRecords
  /\ p.op \in {"add", "update"} => p.host.roles # {}
  /\ p.op \in {"savejob", "addjob"} => p.got.export \in Exports
  /\ p.op = "identity" => p.wf \in Workflows
  /\ p.op = "init" => Unplanned(p) \/ (p.name \in Clusters /\ p.wf \in Workflows)

\* The steps that use a copy, and those between which it is carried.
UsesConfig(op) == ConfigSteps \cup {"exporter", "kibana", "draft", "confirmJob", "check", "wait"}
                  \cup (IF op = "settings" THEN {"fetch", "connect"} ELSE {})
UsesHosts(op) == {"write", "source", "active"} \cup (IF op \in {"host", "remove"} THEN {"load", "undefer"} ELSE {})

Knows(p) ==
  LET h == Head(p.todo) IN
  /\ h \in UsesConfig(p.op) => IsConfig(p.cfg)
  /\ h \in UsesHosts(p.op) =>
       IsHosts(p.saw) /\ (p.op \in {"host", "cluster", "delcluster"} => p.mem \in Names \cup {None})
  /\ h \in {"saveJobs", "release"} => IsJobs(p.seen)
  /\ h \in {"loadJobs", "saveJobs"} /\ p.op \in {"default", "init"} => p.got.export \in Exports
  /\ p.op = "settings" /\ h \in {"connect", "select", "kibana", "exporter", "stamp"} => p.got \in ExporterStates
  /\ \/ h = "source" \/ (h = "parse" /\ p.todo[2] = "source")
     \/ p.op = "collection" /\ h # "confirmHost"
     => p.target \in Names

CommandInv(p) == Shaped(p) /\ p.op \in WebOps \cup CliOps /\ p.todo # <<>> /\ OnCourse(p.op, p.todo) /\ Arguments(p) /\ Knows(p)

ProcInv ==
  /\ DOMAIN proc = Actors
  /\ \A a \in Actors : Running(a) => CommandInv(proc[a]) /\ (proc[a].op \in WebOps => a \in Web)

----------------------------------------------------------------------------
(* Who runs with whom                                                         *)

CompanyInv ==
  /\ \A a, b \in Actors : a # b /\ Running(a) /\ Running(b) =>
       /\ proc[a].with # "nobody"
       /\ b \in Cli => proc[a].with = "others"
  /\ clean => \A a \in Actors : Running(a) => Alone(a)

MutexInv ==
  /\ lock # None => lock \in Web /\ AtStep(lock, "release")
  /\ \A a \in Actors : AtStep(a, "release") =>
       /\ lock = a /\ proc[a].op \in {"savejob", "deljob"}
       /\ proc[a].with # "others" => proc[a].seen = jobs

----------------------------------------------------------------------------
(* A command that is alone                                                    *)

\* The steps before the first that changes a file.
Early(op) ==
  {"confirm", "confirmAny", "confirmHost", "confirmJob", "connect", "parse", "write", "source", "fetch", "absent", "row", "check",
   "may", "create", "acquire", "loadJobs"}
  \cup (IF op \in {"unlock", "defer", "settings", "context", "clear"}
        THEN {"load", "exporter", "kibana", "defer", "select", "stamp", "context"} \ (IF op = "settings" THEN {"exporter", "kibana"} ELSE {})
        ELSE {})
Planning == {"plan", "user", "workflow", "nodefault"}
IsPlanning(p) == Head(p.todo) \in Planning \cup {"connect"} \/ (Head(p.todo) = "load" /\ p.todo[2] \in Planning)

Untouched(p) ==
  CASE p.op = "init" -> IsPlanning(p) => hosts = p.before.hosts /\ config.output = p.before.config.output
    [] p.op = "default" -> hosts = p.before.hosts /\ config = p.before.config
    [] OTHER -> Head(p.todo) \in Early(p.op) => Unchanged(p)

FreshConfig(op) == ConfigSteps \cup {"wait", "check"} \cup (IF op = "settings" THEN {"fetch", "connect"} ELSE {})

HasCluster(n) ==
  /\ n \in DOMAIN hosts /\ hosts[n].viewer = KibanaOf[n]
  /\ KibanaOf[n] \in DOMAIN hosts /\ hosts[KibanaOf[n]].url = "u2"
IsSelected(n) == config.output = n /\ ~config.context
ViewedFrom(n) == n \in DOMAIN hosts /\ hosts[n].viewer # None /\ hosts[n].viewer \in DOMAIN hosts

Switches(p) ==
  LET h == Head(p.todo) n == p.name IN
  CASE p.op \in {"output", "provision"} ->
         /\ h \in {"load", "select", "stamp", "exporter", "kibana"} => HasCluster(n)
         /\ h \in {"stamp", "exporter", "kibana"} \/ (h = "load" /\ p.todo[2] # "select") => IsSelected(n)
         /\ p.op = "provision" /\ h \in {"exporter", "kibana"} => p.cfg.output = n
         /\ h = "kibana" => exporter = Endpoint(hosts, n)
    [] p.op = "settings" ->
         /\ h \in {"fetch", "connect", "select", "kibana"} => ViewedFrom(n)
         /\ h \in {"connect", "select", "kibana"} => p.got = Endpoint(hosts, n)
         /\ h = "kibana" => IsSelected(n)
         /\ h = "exporter" => \/ config = p.before.config
                              \/ /\ ViewedFrom(n) /\ IsSelected(n)
                                 /\ p.got = Endpoint(hosts, n) /\ kibanaLink = Endpoint(hosts, hosts[n].viewer)
    [] OTHER -> TRUE

AloneKnows(p) ==
  LET h == Head(p.todo) IN
  /\ h \in FreshConfig(p.op) => p.cfg = config
  /\ h \in {"write", "source"} => p.saw = hosts
  /\ p.op = "defer" /\ (h = "defer" \/ (h = "load" /\ p.todo[2] = "defer")) => CollectHosts(hosts) = {}
  /\ Untouched(p) /\ Switches(p)

AloneInv == \A a \in Actors : Alone(a) => AloneKnows(proc[a])

\* A source that was saved while one was deferred has its command about to
\* clear the deferral.
Clears(p) == Head(p.todo) = "undefer" \/ (Head(p.todo) = "load" /\ p.todo[2] = "undefer")
DeferralInv ==
  clean /\ config.deferred /\ CollectHosts(hosts) # {} => \E a \in Actors : Running(a) /\ Clears(proc[a])

Conduct == ProcInv /\ CompanyInv /\ MutexInv /\ AloneInv /\ DeferralInv
WorkspaceInv == TypeOK /\ Readable(hosts) /\ Conduct

----------------------------------------------------------------------------
(* Names and hosts                                                            *)

\* The least name of a set is in it.
LEMMA FirstIn == ASSUME NEW S, S \subseteq Names, S # {} PROVE FirstName(S) \in S
<1> DEFINE I == {i \in DOMAIN NameOrder : NameOrder[i] \in S}
<1>1. NameOrder \in Seq(Names) /\ DOMAIN NameOrder = 1 .. Len(NameOrder) /\ Len(NameOrder) \in Nat
  BY NamesAssumption
<1>2. I \subseteq Nat /\ I # {}
  BY <1>1 DEF Names
<1>3. PICK i \in I : \A j \in I : ~(<<j, i>> \in OpToRel(<, Nat))
  BY <1>2, NatLessThanWellFounded, WFMin
<1>4. ASSUME NEW j \in I PROVE i <= j
  <2>1. i \in Nat /\ j \in Nat /\ <<j, i>> \notin OpToRel(<, Nat)
    BY <1>2, <1>3
  <2>2. QED BY <2>1 DEF OpToRel
<1>5. i \in DOMAIN NameOrder /\ NameOrder[i] \in S
  OBVIOUS
<1>6. ASSUME NEW j \in 1 .. (i - 1) PROVE NameOrder[j] \notin S
  <2>1. j \in DOMAIN NameOrder /\ j < i /\ i \in Nat /\ j \in Nat
    BY <1>1, <1>2, <1>5
  <2>2. QED BY <2>1, <1>4
<1>7. \E k \in DOMAIN NameOrder : NameOrder[k] \in S /\ \A j \in 1 .. (k - 1) : NameOrder[j] \notin S
  BY <1>5, <1>6
<1>8. QED BY <1>7 DEF FirstName

\* The first of the hosts that are left, if any.
LEMMA FirstOrNoneIn == ASSUME NEW S, S \subseteq Names PROVE FirstOrNone(S) \in S \cup {None}
BY FirstIn DEF FirstOrNone

\* What the helpers on hosts.yml keep.
LEMMA HostsKept ==
  ASSUME NEW hs, IsHosts(hs)
  PROVE  /\ \A n \in Names, h \in HostRecords : IsHosts(Put(hs, n, h))
         /\ \A S : IsHosts(Drop(hs, S))
         /\ IsHosts(Written(hs))
<1>1. ASSUME NEW n \in Names, NEW h \in HostRecords PROVE IsHosts(Put(hs, n, h))
  BY DEF IsHosts, Put
<1>2. ASSUME NEW S PROVE IsHosts(Drop(hs, S))
  BY DEF IsHosts, Drop
<1>3. ASSUME NEW n \in DOMAIN hs PROVE Normalized(hs[n]) \in HostRecords
  <2>1. hs[n] \in HostRecords
    BY DEF IsHosts
  <2>2. QED BY <2>1 DEF HostRecords, Normalized
<1>4. IsHosts(Written(hs))
  BY <1>3 DEF IsHosts, Written
<1>5. QED BY <1>1, <1>2, <1>4

\* A host is written with some role, and otherwise as it was.
LEMMA NormalizedFacts ==
  ASSUME NEW h \in HostRecords
  PROVE  /\ Normalized(h) \in HostRecords /\ Normalized(h).roles # {}
         /\ Normalized(h).app = h.app /\ Normalized(h).viewer = h.viewer
         /\ Normalized(h).url = h.url
         /\ Normalized(h).roles = IF h.roles = {} THEN {"collect"} ELSE h.roles
BY DEF HostRecords, Normalized

\* What write_hosts_yml accepts can be read back.
LEMMA WrittenReadable ==
  ASSUME NEW hs, IsHosts(hs), Writable(hs) PROVE Readable(Written(hs))
<1>1. ASSUME NEW n \in DOMAIN hs
      PROVE  /\ hs[n] \in HostRecords
             /\ Written(hs)[n] = Normalized(hs[n])
             /\ "send" \in Normalized(hs[n]).roles => hs[n].app = "es"
             /\ "view" \in Normalized(hs[n]).roles => hs[n].app = "kb"
             /\ hs[n].viewer # None => "send" \in hs[n].roles /\ Has(hs, hs[n].viewer, "view")
  <2>1. hs[n] \in HostRecords /\ RolesFit(Normalized(hs[n]))
    BY DEF IsHosts, Writable
  <2>2. QED BY <2>1, NormalizedFacts DEF RolesFit, Writable, LinksFit, Written
<1>2. DOMAIN Written(hs) = DOMAIN hs
  BY DEF Written
<1>3. ASSUME NEW n \in DOMAIN hs, hs[n].viewer # None
      PROVE  Has(Written(hs), n, "send") /\ Is(Written(hs), hs[n].viewer, "kb")
  <2>1. "send" \in Normalized(hs[n]).roles
    BY <1>1, <1>3, NormalizedFacts
  <2>2. hs[n].viewer \in DOMAIN hs /\ "view" \in hs[hs[n].viewer].roles
    BY <1>1, <1>3 DEF Has
  <2>3. "view" \in Normalized(hs[hs[n].viewer]).roles
    BY <1>1, <2>2, NormalizedFacts
  <2>4. Normalized(hs[hs[n].viewer]).app = "kb"
    BY <1>1, <2>2, <2>3, NormalizedFacts
  <2>5. QED BY <1>1, <1>2, <2>1, <2>2, <2>4 DEF Has, Is
<1>4. QED BY <1>1, <1>2, <1>3, NormalizedFacts DEF Readable

\* Onboarding says of the files what is true, whatever they hold.
LEMMA CompleteUsable ==
  ASSUME TypeOK PROVE CompleteIsUsable
<1> DEFINE r == Ready
           env == world.env # "none" /\ Resolves(hosts, config, world, TRUE)
<1>1. /\ r.workflow = config.workflow /\ r.user = config.user /\ r.env = env
      /\ r.output = IF world.env # "none" THEN env ELSE ValidOutput(hosts, config.output)
      /\ r.job = (config.job \in DOMAIN jobs /\ FitsWorkflow(jobs[config.job], hosts, config, world))
      /\ r.workflow \in Workflows \cup {None} /\ None \notin Workflows
  BY NamesAssumption DEF InspectOnboarding, Ready, TypeOK, IsConfig
<1> HIDE DEF r
<1>2. CanEnter(r) => Stage(r) = "complete"
  <2>1. IsComplete(r) => Stage(r) = "complete"
    BY <1>1 DEF IsComplete, Stage, Collects, Processes, Workflows
  <2>2. CanEnter(r) /\ ~IsComplete(r) => Stage(r) = "complete"
    BY <1>1 DEF CanEnter, OutputReady, Stage, Collects, Processes, Workflows
  <2>3. QED BY <2>1, <2>2
<1>3. IsComplete(r) /\ Processes(r.workflow) => r.output
  BY DEF IsComplete, Processes
<1>4. IsComplete(r) /\ Collects(r.workflow) => r.job
  BY DEF IsComplete, Collects
<1>5. IsComplete(r) /\ Processes(r.workflow) /\ ~config.context => Resolves(hosts, config, world, TRUE)
  BY <1>1, <1>3 DEF Resolves, SavedResolves, ValidOutput
<1>6. IsComplete(r) /\ r.workflow = "both" /\ world.env = "none" => ReferencesFit(hosts, jobs, config)
  BY <1>1, <1>3, <1>4 DEF ReferencesFit, Collects, Processes
<1>7. IsComplete(r) /\ Collects(r.workflow) => Has(hosts, jobs[config.job].host, "collect")
  BY <1>1, <1>4 DEF FitsWorkflow
<1>8. QED BY <1>2, <1>5, <1>6, <1>7 DEF CompleteIsUsable, r

----------------------------------------------------------------------------
(* Programs                                                                   *)

\* The rest of a program is on its course.
LEMMA CourseTail ==
  ASSUME NEW op, NEW s, OnCourse(op, s), s # <<>>
  PROVE  /\ s \in Seq(Steps) /\ Len(s) \in Nat \ {0} /\ Head(s) = s[1] /\ Tail(s) \in Seq(Steps)
         /\ Tail(s) = <<>> => Head(s) \in Ending(op)
         /\ Tail(s) # <<>> =>
              /\ OnCourse(op, Tail(s))
              /\ Head(Tail(s)) = s[2] /\ Head(Tail(s)) \in Succ(op, Head(s))
              /\ Head(Tail(s)) \in {"load", "parse"} => Tail(Tail(s)) # <<>> /\ Tail(s)[2] \in After(op, Head(s))
<1>1. /\ s \in Seq(Steps) /\ Len(s) \in Nat \ {0} /\ Head(s) = s[1] /\ Tail(s) \in Seq(Steps)
      /\ Len(Tail(s)) = Len(s) - 1 /\ \A i \in 1 .. Len(Tail(s)) : Tail(s)[i] = s[i + 1]
  BY HeadTailProperties, EmptySeq DEF OnCourse
<1>2. \A i \in 1 .. Len(s) :
        /\ i = Len(s) => s[i] \in Ending(op)
        /\ i < Len(s) => s[i + 1] \in Succ(op, s[i])
        /\ i < Len(s) /\ s[i + 1] \in {"load", "parse"} => i + 1 < Len(s) /\ s[i + 2] \in After(op, s[i])
  BY DEF OnCourse
<1>3. Tail(s) = <<>> => Head(s) \in Ending(op)
  <2>1. Tail(s) = <<>> => Len(s) = 1
    BY <1>1, EmptySeq
  <2>2. 1 \in 1 .. Len(s)
    BY <1>1
  <2>3. 1 = Len(s) => s[1] \in Ending(op)
    BY <1>2, <2>2
  <2>4. QED BY <1>1, <2>1, <2>3
<1>4. ASSUME Tail(s) # <<>>
      PROVE  /\ OnCourse(op, Tail(s))
             /\ Head(Tail(s)) = s[2] /\ Head(Tail(s)) \in Succ(op, Head(s))
             /\ Head(Tail(s)) \in {"load", "parse"} => Tail(Tail(s)) # <<>> /\ Tail(s)[2] \in After(op, Head(s))
  <2>1. Len(Tail(s)) \in Nat \ {0} /\ Len(s) > 1 /\ Head(Tail(s)) = Tail(s)[1]
    BY <1>1, <1>4, EmptySeq, HeadTailProperties
  <2>2. Head(Tail(s)) = s[2]
    BY <1>1, <2>1
  <2>3. s[2] \in Succ(op, s[1]) /\ (s[2] \in {"load", "parse"} => 2 < Len(s) /\ s[3] \in After(op, s[1]))
    <3>1. 1 \in 1 .. Len(s) /\ 1 < Len(s) /\ 1 + 1 = 2 /\ 1 + 2 = 3
      BY <1>1, <2>1
    <3>2. 1 < Len(s) => s[1 + 1] \in Succ(op, s[1])
      BY <1>2, <3>1
    <3>3. 1 < Len(s) /\ s[1 + 1] \in {"load", "parse"} => 1 + 1 < Len(s) /\ s[1 + 2] \in After(op, s[1])
      BY <1>2, <3>1
    <3>4. QED BY <3>1, <3>2, <3>3
  <2>4. Head(Tail(s)) \in {"load", "parse"} => Tail(Tail(s)) # <<>> /\ Tail(s)[2] \in After(op, Head(s))
    <3>1. 2 < Len(s) => Tail(s)[2] = s[3] /\ Len(Tail(Tail(s))) > 0
      BY <1>1, <1>4, <2>1, HeadTailProperties
    <3>2. Len(<<>>) = 0
      BY EmptySeq
    <3>3. 2 < Len(s) => Tail(Tail(s)) # <<>>
      BY <3>1, <3>2
    <3>4. QED BY <1>1, <2>2, <2>3, <3>1, <3>3
  <2>5. ASSUME NEW i \in 1 .. Len(Tail(s))
        PROVE  /\ i = Len(Tail(s)) => Tail(s)[i] \in Ending(op)
               /\ i < Len(Tail(s)) => Tail(s)[i + 1] \in Succ(op, Tail(s)[i])
               /\ i < Len(Tail(s)) /\ Tail(s)[i + 1] \in {"load", "parse"} =>
                    i + 1 < Len(Tail(s)) /\ Tail(s)[i + 2] \in After(op, Tail(s)[i])
    <3>1. i + 1 \in 1 .. Len(s) /\ i \in Nat
      BY <1>1
    <3>2. /\ i + 1 = Len(s) => s[i + 1] \in Ending(op)
          /\ i + 1 < Len(s) => s[(i + 1) + 1] \in Succ(op, s[i + 1])
          /\ i + 1 < Len(s) /\ s[(i + 1) + 1] \in {"load", "parse"} =>
               (i + 1) + 1 < Len(s) /\ s[(i + 1) + 2] \in After(op, s[i + 1])
      BY <1>2, <3>1
    <3>3. Tail(s)[i] = s[i + 1]
      BY <1>1
    <3>4. i < Len(Tail(s)) => Tail(s)[i + 1] = s[(i + 1) + 1]
      BY <1>1, <3>1
    <3>5. i + 1 < Len(Tail(s)) => Tail(s)[i + 2] = s[(i + 1) + 2]
      BY <1>1, <3>1
    <3>6. /\ i = Len(Tail(s)) <=> i + 1 = Len(s)
          /\ i < Len(Tail(s)) <=> i + 1 < Len(s)
          /\ i + 1 < Len(Tail(s)) <=> (i + 1) + 1 < Len(s)
      BY <1>1, <3>1
    <3>7. QED BY <3>2, <3>3, <3>4, <3>5, <3>6
  <2>6. OnCourse(op, Tail(s))
    BY <1>1, <2>5 DEF OnCourse
  <2>7. QED BY <1>1, <2>2, <2>3, <2>4, <2>6
<1>5. QED BY <1>1, <1>3, <1>4

\* The program of every handler and command is on its course.
LEMMA SaveIdentityCourse ==
  OnCourse("identity", SaveIdentity) /\ SaveIdentity # <<>> /\ Head(SaveIdentity) = "load" /\ SaveIdentity[2] = "user"
<1>1. SaveIdentity \in Seq(Steps)
  BY DEF SaveIdentity, Steps, ConfigSteps
<1>2. /\ Len(SaveIdentity) = 4
      /\ SaveIdentity[1] = "load" /\ SaveIdentity[2] = "user" /\ SaveIdentity[3] = "load" /\ SaveIdentity[4] = "workflow"
  BY DEF SaveIdentity
<1>3. ASSUME NEW i \in 1 .. Len(SaveIdentity)
      PROVE  /\ i = Len(SaveIdentity) => SaveIdentity[i] \in Ending("identity")
             /\ i < Len(SaveIdentity) => SaveIdentity[i + 1] \in Succ("identity", SaveIdentity[i])
             /\ i < Len(SaveIdentity) /\ SaveIdentity[i + 1] \in {"load", "parse"} =>
                  i + 1 < Len(SaveIdentity) /\ SaveIdentity[i + 2] \in After("identity", SaveIdentity[i])
  <2>1. i \in {1, 2, 3, 4}
    BY <1>2
  <2>2. QED BY <2>1, <1>2 DEF Succ, StepsOf, After, Ending
<1>4. SaveIdentity # <<>> /\ Head(SaveIdentity) = "load"
  BY DEF SaveIdentity
<1>5. QED BY <1>1, <1>2, <1>3, <1>4 DEF OnCourse

LEMMA SaveKeystoreCourse ==
  OnCourse("unlock", SaveKeystore) /\ SaveKeystore # <<>> /\ Head(SaveKeystore) = "create"
<1>1. SaveKeystore \in Seq(Steps)
  BY DEF SaveKeystore, Reload, Steps, ConfigSteps
<1>2. /\ Len(SaveKeystore) = 4
      /\ SaveKeystore[1] = "create" /\ SaveKeystore[2] = "load" /\ SaveKeystore[3] = "exporter" /\ SaveKeystore[4] = "kibana"
  BY DEF SaveKeystore, Reload
<1>3. ASSUME NEW i \in 1 .. Len(SaveKeystore)
      PROVE  /\ i = Len(SaveKeystore) => SaveKeystore[i] \in Ending("unlock")
             /\ i < Len(SaveKeystore) => SaveKeystore[i + 1] \in Succ("unlock", SaveKeystore[i])
             /\ i < Len(SaveKeystore) /\ SaveKeystore[i + 1] \in {"load", "parse"} =>
                  i + 1 < Len(SaveKeystore) /\ SaveKeystore[i + 2] \in After("unlock", SaveKeystore[i])
  <2>1. i \in {1, 2, 3, 4}
    BY <1>2
  <2>2. QED BY <2>1, <1>2 DEF Succ, StepsOf, After, Ending
<1>4. SaveKeystore # <<>> /\ Head(SaveKeystore) = "create"
  BY DEF SaveKeystore, Reload
<1>5. QED BY <1>1, <1>2, <1>3, <1>4 DEF OnCourse

LEMMA SaveOutputCourse ==
  OnCourse("output", SaveOutput) /\ SaveOutput # <<>> /\ Head(SaveOutput) = "confirm"
<1>1. SaveOutput \in Seq(Steps)
  BY DEF SaveOutput, Deploy, Reload, Steps, ConfigSteps
<1>2. /\ Len(SaveOutput) = 10
      /\ SaveOutput[1] = "confirm" /\ SaveOutput[2] = "connect" /\ SaveOutput[3] = "parse" /\ SaveOutput[4] = "write" /\ SaveOutput[5] = "load"
      /\ SaveOutput[6] = "select" /\ SaveOutput[7] = "load" /\ SaveOutput[8] = "stamp" /\ SaveOutput[9] = "exporter" /\ SaveOutput[10] = "kibana"
  BY DEF SaveOutput, Deploy, Reload
<1>3. ASSUME NEW i \in 1 .. Len(SaveOutput)
      PROVE  /\ i = Len(SaveOutput) => SaveOutput[i] \in Ending("output")
             /\ i < Len(SaveOutput) => SaveOutput[i + 1] \in Succ("output", SaveOutput[i])
             /\ i < Len(SaveOutput) /\ SaveOutput[i + 1] \in {"load", "parse"} =>
                  i + 1 < Len(SaveOutput) /\ SaveOutput[i + 2] \in After("output", SaveOutput[i])
  <2>1. i \in {1, 2, 3, 4, 5, 6, 7, 8, 9, 10}
    BY <1>2
  <2>2. QED BY <2>1, <1>2 DEF Succ, StepsOf, After, Ending
<1>4. SaveOutput # <<>> /\ Head(SaveOutput) = "confirm"
  BY DEF SaveOutput, Deploy, Reload
<1>5. QED BY <1>1, <1>2, <1>3, <1>4 DEF OnCourse

LEMMA ProvisionCourse ==
  OnCourse("provision", Provision) /\ Provision # <<>> /\ Head(Provision) = "confirmAny"
<1>1. Provision \in Seq(Steps)
  BY DEF Provision, Deploy, Reload, Steps, ConfigSteps
<1>2. /\ Len(Provision) = 11
      /\ Provision[1] = "confirmAny" /\ Provision[2] = "connect" /\ Provision[3] = "parse" /\ Provision[4] = "write" /\ Provision[5] = "load"
      /\ Provision[6] = "select" /\ Provision[7] = "load" /\ Provision[8] = "stamp" /\ Provision[9] = "load" /\ Provision[10] = "exporter"
      /\ Provision[11] = "kibana"
  BY DEF Provision, Deploy, Reload
<1>3. ASSUME NEW i \in 1 .. Len(Provision)
      PROVE  /\ i = Len(Provision) => Provision[i] \in Ending("provision")
             /\ i < Len(Provision) => Provision[i + 1] \in Succ("provision", Provision[i])
             /\ i < Len(Provision) /\ Provision[i + 1] \in {"load", "parse"} =>
                  i + 1 < Len(Provision) /\ Provision[i + 2] \in After("provision", Provision[i])
  <2>1. i \in {1, 2, 3, 4, 5, 6, 7, 8, 9, 10, 11}
    BY <1>2
  <2>2. QED BY <2>1, <1>2 DEF Succ, StepsOf, After, Ending
<1>4. Provision # <<>> /\ Head(Provision) = "confirmAny"
  BY DEF Provision, Deploy, Reload
<1>5. QED BY <1>1, <1>2, <1>3, <1>4 DEF OnCourse

LEMMA SaveCollectionCourse ==
  OnCourse("collection", SaveCollection) /\ SaveCollection # <<>> /\ Head(SaveCollection) = "confirmHost"
<1>1. SaveCollection \in Seq(Steps)
  BY DEF SaveCollection, Undefer, Steps, ConfigSteps
<1>2. /\ Len(SaveCollection) = 6
      /\ SaveCollection[1] = "confirmHost" /\ SaveCollection[2] = "connect" /\ SaveCollection[3] = "parse" /\ SaveCollection[4] = "source" /\ SaveCollection[5] = "load"
      /\ SaveCollection[6] = "undefer"
  BY DEF SaveCollection, Undefer
<1>3. ASSUME NEW i \in 1 .. Len(SaveCollection)
      PROVE  /\ i = Len(SaveCollection) => SaveCollection[i] \in Ending("collection")
             /\ i < Len(SaveCollection) => SaveCollection[i + 1] \in Succ("collection", SaveCollection[i])
             /\ i < Len(SaveCollection) /\ SaveCollection[i + 1] \in {"load", "parse"} =>
                  i + 1 < Len(SaveCollection) /\ SaveCollection[i + 2] \in After("collection", SaveCollection[i])
  <2>1. i \in {1, 2, 3, 4, 5, 6}
    BY <1>2
  <2>2. QED BY <2>1, <1>2 DEF Succ, StepsOf, After, Ending
<1>4. SaveCollection # <<>> /\ Head(SaveCollection) = "confirmHost"
  BY DEF SaveCollection, Undefer
<1>5. QED BY <1>1, <1>2, <1>3, <1>4 DEF OnCourse

LEMMA DeferCourse ==
  OnCourse("defer", Defer) /\ Defer # <<>> /\ Head(Defer) = "load" /\ Defer[2] = "exporter"
<1>1. Defer \in Seq(Steps)
  BY DEF Defer, Reload, Steps, ConfigSteps
<1>2. /\ Len(Defer) = 6
      /\ Defer[1] = "load" /\ Defer[2] = "exporter" /\ Defer[3] = "kibana" /\ Defer[4] = "may" /\ Defer[5] = "load"
      /\ Defer[6] = "defer"
  BY DEF Defer, Reload
<1>3. ASSUME NEW i \in 1 .. Len(Defer)
      PROVE  /\ i = Len(Defer) => Defer[i] \in Ending("defer")
             /\ i < Len(Defer) => Defer[i + 1] \in Succ("defer", Defer[i])
             /\ i < Len(Defer) /\ Defer[i + 1] \in {"load", "parse"} =>
                  i + 1 < Len(Defer) /\ Defer[i + 2] \in After("defer", Defer[i])
  <2>1. i \in {1, 2, 3, 4, 5, 6}
    BY <1>2
  <2>2. QED BY <2>1, <1>2 DEF Succ, StepsOf, After, Ending
<1>4. Defer # <<>> /\ Head(Defer) = "load"
  BY DEF Defer, Reload
<1>5. QED BY <1>1, <1>2, <1>3, <1>4 DEF OnCourse

LEMMA DefaultJobCourse ==
  OnCourse("default", DefaultJob) /\ DefaultJob # <<>> /\ Head(DefaultJob) = "load" /\ DefaultJob[2] = "confirmJob"
<1>1. DefaultJob \in Seq(Steps)
  BY DEF DefaultJob, AddJob, Steps, ConfigSteps
<1>2. /\ Len(DefaultJob) = 9
      /\ DefaultJob[1] = "load" /\ DefaultJob[2] = "confirmJob" /\ DefaultJob[3] = "fetch" /\ DefaultJob[4] = "load" /\ DefaultJob[5] = "draft"
      /\ DefaultJob[6] = "loadJobs" /\ DefaultJob[7] = "saveJobs" /\ DefaultJob[8] = "load" /\ DefaultJob[9] = "default"
  BY DEF DefaultJob, AddJob
<1>3. ASSUME NEW i \in 1 .. Len(DefaultJob)
      PROVE  /\ i = Len(DefaultJob) => DefaultJob[i] \in Ending("default")
             /\ i < Len(DefaultJob) => DefaultJob[i + 1] \in Succ("default", DefaultJob[i])
             /\ i < Len(DefaultJob) /\ DefaultJob[i + 1] \in {"load", "parse"} =>
                  i + 1 < Len(DefaultJob) /\ DefaultJob[i + 2] \in After("default", DefaultJob[i])
  <2>1. i \in {1, 2, 3, 4, 5, 6, 7, 8, 9}
    BY <1>2
  <2>2. QED BY <2>1, <1>2 DEF Succ, StepsOf, After, Ending
<1>4. DefaultJob # <<>> /\ Head(DefaultJob) = "load"
  BY DEF DefaultJob, AddJob
<1>5. QED BY <1>1, <1>2, <1>3, <1>4 DEF OnCourse

LEMMA UpdateSettingsCourse ==
  OnCourse("settings", UpdateSettings) /\ UpdateSettings # <<>> /\ Head(UpdateSettings) = "load" /\ UpdateSettings[2] = "check"
<1>1. UpdateSettings \in Seq(Steps)
  BY DEF UpdateSettings, Steps, ConfigSteps
<1>2. /\ Len(UpdateSettings) = 7
      /\ UpdateSettings[1] = "load" /\ UpdateSettings[2] = "check" /\ UpdateSettings[3] = "fetch" /\ UpdateSettings[4] = "connect" /\ UpdateSettings[5] = "select"
      /\ UpdateSettings[6] = "kibana" /\ UpdateSettings[7] = "exporter"
  BY DEF UpdateSettings
<1>3. ASSUME NEW i \in 1 .. Len(UpdateSettings)
      PROVE  /\ i = Len(UpdateSettings) => UpdateSettings[i] \in Ending("settings")
             /\ i < Len(UpdateSettings) => UpdateSettings[i + 1] \in Succ("settings", UpdateSettings[i])
             /\ i < Len(UpdateSettings) /\ UpdateSettings[i + 1] \in {"load", "parse"} =>
                  i + 1 < Len(UpdateSettings) /\ UpdateSettings[i + 2] \in After("settings", UpdateSettings[i])
  <2>1. i \in {1, 2, 3, 4, 5, 6, 7}
    BY <1>2
  <2>2. QED BY <2>1, <1>2 DEF Succ, StepsOf, After, Ending
<1>4. UpdateSettings # <<>> /\ Head(UpdateSettings) = "load"
  BY DEF UpdateSettings
<1>5. QED BY <1>1, <1>2, <1>3, <1>4 DEF OnCourse

LEMMA UpsertHostCourse ==
  OnCourse("host", UpsertHost) /\ UpsertHost # <<>> /\ Head(UpsertHost) = "parse" /\ UpsertHost[2] = "write"
<1>1. UpsertHost \in Seq(Steps)
  BY DEF UpsertHost, Undefer, Steps, ConfigSteps
<1>2. /\ Len(UpsertHost) = 5
      /\ UpsertHost[1] = "parse" /\ UpsertHost[2] = "write" /\ UpsertHost[3] = "load" /\ UpsertHost[4] = "undefer" /\ UpsertHost[5] = "active"
  BY DEF UpsertHost, Undefer
<1>3. ASSUME NEW i \in 1 .. Len(UpsertHost)
      PROVE  /\ i = Len(UpsertHost) => UpsertHost[i] \in Ending("host")
             /\ i < Len(UpsertHost) => UpsertHost[i + 1] \in Succ("host", UpsertHost[i])
             /\ i < Len(UpsertHost) /\ UpsertHost[i + 1] \in {"load", "parse"} =>
                  i + 1 < Len(UpsertHost) /\ UpsertHost[i + 2] \in After("host", UpsertHost[i])
  <2>1. i \in {1, 2, 3, 4, 5}
    BY <1>2
  <2>2. QED BY <2>1, <1>2 DEF Succ, StepsOf, After, Ending
<1>4. UpsertHost # <<>> /\ Head(UpsertHost) = "parse"
  BY DEF UpsertHost, Undefer
<1>5. QED BY <1>1, <1>2, <1>3, <1>4 DEF OnCourse

LEMMA UpsertClusterCourse ==
  OnCourse("cluster", UpsertCluster) /\ UpsertCluster # <<>> /\ Head(UpsertCluster) = "parse" /\ UpsertCluster[2] = "write"
<1>1. UpsertCluster \in Seq(Steps)
  BY DEF UpsertCluster, Steps, ConfigSteps
<1>2. /\ Len(UpsertCluster) = 3
      /\ UpsertCluster[1] = "parse" /\ UpsertCluster[2] = "write" /\ UpsertCluster[3] = "active"
  BY DEF UpsertCluster
<1>3. ASSUME NEW i \in 1 .. Len(UpsertCluster)
      PROVE  /\ i = Len(UpsertCluster) => UpsertCluster[i] \in Ending("cluster")
             /\ i < Len(UpsertCluster) => UpsertCluster[i + 1] \in Succ("cluster", UpsertCluster[i])
             /\ i < Len(UpsertCluster) /\ UpsertCluster[i + 1] \in {"load", "parse"} =>
                  i + 1 < Len(UpsertCluster) /\ UpsertCluster[i + 2] \in After("cluster", UpsertCluster[i])
  <2>1. i \in {1, 2, 3}
    BY <1>2
  <2>2. QED BY <2>1, <1>2 DEF Succ, StepsOf, After, Ending
<1>4. UpsertCluster # <<>> /\ Head(UpsertCluster) = "parse"
  BY DEF UpsertCluster
<1>5. QED BY <1>1, <1>2, <1>3, <1>4 DEF OnCourse

LEMMA DeleteHostCourse ==
  OnCourse("delhost", DeleteHost) /\ DeleteHost # <<>> /\ Head(DeleteHost) = "row"
<1>1. DeleteHost \in Seq(Steps)
  BY DEF DeleteHost, Undefer, Steps, ConfigSteps
<1>2. /\ Len(DeleteHost) = 5
      /\ DeleteHost[1] = "row" /\ DeleteHost[2] = "parse" /\ DeleteHost[3] = "write" /\ DeleteHost[4] = "load" /\ DeleteHost[5] = "undefer"
  BY DEF DeleteHost, Undefer
<1>3. ASSUME NEW i \in 1 .. Len(DeleteHost)
      PROVE  /\ i = Len(DeleteHost) => DeleteHost[i] \in Ending("delhost")
             /\ i < Len(DeleteHost) => DeleteHost[i + 1] \in Succ("delhost", DeleteHost[i])
             /\ i < Len(DeleteHost) /\ DeleteHost[i + 1] \in {"load", "parse"} =>
                  i + 1 < Len(DeleteHost) /\ DeleteHost[i + 2] \in After("delhost", DeleteHost[i])
  <2>1. i \in {1, 2, 3, 4, 5}
    BY <1>2
  <2>2. QED BY <2>1, <1>2 DEF Succ, StepsOf, After, Ending
<1>4. DeleteHost # <<>> /\ Head(DeleteHost) = "row"
  BY DEF DeleteHost, Undefer
<1>5. QED BY <1>1, <1>2, <1>3, <1>4 DEF OnCourse

LEMMA DeleteClusterCourse ==
  OnCourse("delcluster", DeleteCluster) /\ DeleteCluster # <<>> /\ Head(DeleteCluster) = "row"
<1>1. DeleteCluster \in Seq(Steps)
  BY DEF DeleteCluster, Steps, ConfigSteps
<1>2. /\ Len(DeleteCluster) = 4
      /\ DeleteCluster[1] = "row" /\ DeleteCluster[2] = "parse" /\ DeleteCluster[3] = "write" /\ DeleteCluster[4] = "active"
  BY DEF DeleteCluster
<1>3. ASSUME NEW i \in 1 .. Len(DeleteCluster)
      PROVE  /\ i = Len(DeleteCluster) => DeleteCluster[i] \in Ending("delcluster")
             /\ i < Len(DeleteCluster) => DeleteCluster[i + 1] \in Succ("delcluster", DeleteCluster[i])
             /\ i < Len(DeleteCluster) /\ DeleteCluster[i + 1] \in {"load", "parse"} =>
                  i + 1 < Len(DeleteCluster) /\ DeleteCluster[i + 2] \in After("delcluster", DeleteCluster[i])
  <2>1. i \in {1, 2, 3, 4}
    BY <1>2
  <2>2. QED BY <2>1, <1>2 DEF Succ, StepsOf, After, Ending
<1>4. DeleteCluster # <<>> /\ Head(DeleteCluster) = "row"
  BY DEF DeleteCluster
<1>5. QED BY <1>1, <1>2, <1>3, <1>4 DEF OnCourse

LEMMA WithJobsCourse ==
  OnCourse("savejob", WithJobs) /\ OnCourse("deljob", WithJobs) /\ WithJobs # <<>> /\ Head(WithJobs) = "acquire"
<1>1. WithJobs \in Seq(Steps)
  BY DEF WithJobs, Steps, ConfigSteps
<1>2. /\ Len(WithJobs) = 2
      /\ WithJobs[1] = "acquire" /\ WithJobs[2] = "release"
  BY DEF WithJobs
<1>3. ASSUME NEW i \in 1 .. Len(WithJobs)
      PROVE  /\ i = Len(WithJobs) => WithJobs[i] \in Ending("savejob")
             /\ i < Len(WithJobs) => WithJobs[i + 1] \in Succ("savejob", WithJobs[i])
             /\ i < Len(WithJobs) /\ WithJobs[i + 1] \in {"load", "parse"} =>
                  i + 1 < Len(WithJobs) /\ WithJobs[i + 2] \in After("savejob", WithJobs[i])
  <2>1. i \in {1, 2}
    BY <1>2
  <2>2. QED BY <2>1, <1>2 DEF Succ, StepsOf, After, Ending
<1>4. ASSUME NEW i \in 1 .. Len(WithJobs)
      PROVE  /\ i = Len(WithJobs) => WithJobs[i] \in Ending("deljob")
             /\ i < Len(WithJobs) => WithJobs[i + 1] \in Succ("deljob", WithJobs[i])
             /\ i < Len(WithJobs) /\ WithJobs[i + 1] \in {"load", "parse"} =>
                  i + 1 < Len(WithJobs) /\ WithJobs[i + 2] \in After("deljob", WithJobs[i])
  <2>1. i \in {1, 2}
    BY <1>2
  <2>2. QED BY <2>1, <1>2 DEF Succ, StepsOf, After, Ending
<1>5. WithJobs # <<>> /\ Head(WithJobs) = "acquire"
  BY DEF WithJobs
<1>6. QED BY <1>1, <1>2, <1>3, <1>4, <1>5 DEF OnCourse

LEMMA AddHostCourse ==
  OnCourse("add", AddHost) /\ AddHost # <<>> /\ Head(AddHost) = "absent"
<1>1. AddHost \in Seq(Steps)
  BY DEF AddHost, Undefer, Steps, ConfigSteps
<1>2. /\ Len(AddHost) = 6
      /\ AddHost[1] = "absent" /\ AddHost[2] = "connect" /\ AddHost[3] = "parse" /\ AddHost[4] = "write" /\ AddHost[5] = "load"
      /\ AddHost[6] = "undefer"
  BY DEF AddHost, Undefer
<1>3. ASSUME NEW i \in 1 .. Len(AddHost)
      PROVE  /\ i = Len(AddHost) => AddHost[i] \in Ending("add")
             /\ i < Len(AddHost) => AddHost[i + 1] \in Succ("add", AddHost[i])
             /\ i < Len(AddHost) /\ AddHost[i + 1] \in {"load", "parse"} =>
                  i + 1 < Len(AddHost) /\ AddHost[i + 2] \in After("add", AddHost[i])
  <2>1. i \in {1, 2, 3, 4, 5, 6}
    BY <1>2
  <2>2. QED BY <2>1, <1>2 DEF Succ, StepsOf, After, Ending
<1>4. AddHost # <<>> /\ Head(AddHost) = "absent"
  BY DEF AddHost, Undefer
<1>5. QED BY <1>1, <1>2, <1>3, <1>4 DEF OnCourse

LEMMA UpdateHostCourse ==
  OnCourse("update", UpdateHost) /\ UpdateHost # <<>> /\ Head(UpdateHost) = "fetch"
<1>1. UpdateHost \in Seq(Steps)
  BY DEF UpdateHost, Undefer, Steps, ConfigSteps
<1>2. /\ Len(UpdateHost) = 6
      /\ UpdateHost[1] = "fetch" /\ UpdateHost[2] = "connect" /\ UpdateHost[3] = "parse" /\ UpdateHost[4] = "write" /\ UpdateHost[5] = "load"
      /\ UpdateHost[6] = "undefer"
  BY DEF UpdateHost, Undefer
<1>3. ASSUME NEW i \in 1 .. Len(UpdateHost)
      PROVE  /\ i = Len(UpdateHost) => UpdateHost[i] \in Ending("update")
             /\ i < Len(UpdateHost) => UpdateHost[i + 1] \in Succ("update", UpdateHost[i])
             /\ i < Len(UpdateHost) /\ UpdateHost[i + 1] \in {"load", "parse"} =>
                  i + 1 < Len(UpdateHost) /\ UpdateHost[i + 2] \in After("update", UpdateHost[i])
  <2>1. i \in {1, 2, 3, 4, 5, 6}
    BY <1>2
  <2>2. QED BY <2>1, <1>2 DEF Succ, StepsOf, After, Ending
<1>4. UpdateHost # <<>> /\ Head(UpdateHost) = "fetch"
  BY DEF UpdateHost, Undefer
<1>5. QED BY <1>1, <1>2, <1>3, <1>4 DEF OnCourse

LEMMA RemoveHostCourse ==
  OnCourse("remove", RemoveHost) /\ RemoveHost # <<>> /\ Head(RemoveHost) = "parse" /\ RemoveHost[2] = "write"
<1>1. RemoveHost \in Seq(Steps)
  BY DEF RemoveHost, Undefer, Steps, ConfigSteps
<1>2. /\ Len(RemoveHost) = 5
      /\ RemoveHost[1] = "parse" /\ RemoveHost[2] = "write" /\ RemoveHost[3] = "load" /\ RemoveHost[4] = "undefer" /\ RemoveHost[5] = "active"
  BY DEF RemoveHost, Undefer
<1>3. ASSUME NEW i \in 1 .. Len(RemoveHost)
      PROVE  /\ i = Len(RemoveHost) => RemoveHost[i] \in Ending("remove")
             /\ i < Len(RemoveHost) => RemoveHost[i + 1] \in Succ("remove", RemoveHost[i])
             /\ i < Len(RemoveHost) /\ RemoveHost[i + 1] \in {"load", "parse"} =>
                  i + 1 < Len(RemoveHost) /\ RemoveHost[i + 2] \in After("remove", RemoveHost[i])
  <2>1. i \in {1, 2, 3, 4, 5}
    BY <1>2
  <2>2. QED BY <2>1, <1>2 DEF Succ, StepsOf, After, Ending
<1>4. RemoveHost # <<>> /\ Head(RemoveHost) = "parse"
  BY DEF RemoveHost, Undefer
<1>5. QED BY <1>1, <1>2, <1>3, <1>4 DEF OnCourse

LEMMA EditContextCourse ==
  OnCourse("context", EditContext) /\ OnCourse("clear", EditContext) /\ EditContext # <<>> /\ Head(EditContext) = "load" /\ EditContext[2] = "context"
<1>1. EditContext \in Seq(Steps)
  BY DEF EditContext, Steps, ConfigSteps
<1>2. /\ Len(EditContext) = 2
      /\ EditContext[1] = "load" /\ EditContext[2] = "context"
  BY DEF EditContext
<1>3. ASSUME NEW i \in 1 .. Len(EditContext)
      PROVE  /\ i = Len(EditContext) => EditContext[i] \in Ending("context")
             /\ i < Len(EditContext) => EditContext[i + 1] \in Succ("context", EditContext[i])
             /\ i < Len(EditContext) /\ EditContext[i + 1] \in {"load", "parse"} =>
                  i + 1 < Len(EditContext) /\ EditContext[i + 2] \in After("context", EditContext[i])
  <2>1. i \in {1, 2}
    BY <1>2
  <2>2. QED BY <2>1, <1>2 DEF Succ, StepsOf, After, Ending
<1>4. ASSUME NEW i \in 1 .. Len(EditContext)
      PROVE  /\ i = Len(EditContext) => EditContext[i] \in Ending("clear")
             /\ i < Len(EditContext) => EditContext[i + 1] \in Succ("clear", EditContext[i])
             /\ i < Len(EditContext) /\ EditContext[i + 1] \in {"load", "parse"} =>
                  i + 1 < Len(EditContext) /\ EditContext[i + 2] \in After("clear", EditContext[i])
  <2>1. i \in {1, 2}
    BY <1>2
  <2>2. QED BY <2>1, <1>2 DEF Succ, StepsOf, After, Ending
<1>5. EditContext # <<>> /\ Head(EditContext) = "load"
  BY DEF EditContext
<1>6. QED BY <1>1, <1>2, <1>3, <1>4, <1>5 DEF OnCourse

LEMMA EditJobsCourse ==
  OnCourse("addjob", EditJobs) /\ OnCourse("dropjob", EditJobs) /\ EditJobs # <<>> /\ Head(EditJobs) = "loadJobs"
<1>1. EditJobs \in Seq(Steps)
  BY DEF EditJobs, Steps, ConfigSteps
<1>2. /\ Len(EditJobs) = 2
      /\ EditJobs[1] = "loadJobs" /\ EditJobs[2] = "saveJobs"
  BY DEF EditJobs
<1>3. ASSUME NEW i \in 1 .. Len(EditJobs)
      PROVE  /\ i = Len(EditJobs) => EditJobs[i] \in Ending("addjob")
             /\ i < Len(EditJobs) => EditJobs[i + 1] \in Succ("addjob", EditJobs[i])
             /\ i < Len(EditJobs) /\ EditJobs[i + 1] \in {"load", "parse"} =>
                  i + 1 < Len(EditJobs) /\ EditJobs[i + 2] \in After("addjob", EditJobs[i])
  <2>1. i \in {1, 2}
    BY <1>2
  <2>2. QED BY <2>1, <1>2 DEF Succ, StepsOf, After, Ending
<1>4. ASSUME NEW i \in 1 .. Len(EditJobs)
      PROVE  /\ i = Len(EditJobs) => EditJobs[i] \in Ending("dropjob")
             /\ i < Len(EditJobs) => EditJobs[i + 1] \in Succ("dropjob", EditJobs[i])
             /\ i < Len(EditJobs) /\ EditJobs[i + 1] \in {"load", "parse"} =>
                  i + 1 < Len(EditJobs) /\ EditJobs[i + 2] \in After("dropjob", EditJobs[i])
  <2>1. i \in {1, 2}
    BY <1>2
  <2>2. QED BY <2>1, <1>2 DEF Succ, StepsOf, After, Ending
<1>5. EditJobs # <<>> /\ Head(EditJobs) = "loadJobs"
  BY DEF EditJobs
<1>6. QED BY <1>1, <1>2, <1>3, <1>4, <1>5 DEF OnCourse
\* A step that the next one may follow can be put before a program.
LEMMA CourseCons ==
  ASSUME NEW op, NEW x \in Steps, NEW s, OnCourse(op, s), s # <<>>, s[1] \in Succ(op, x),
         s[1] \in {"load", "parse"} => Len(s) > 1 /\ s[2] \in After(op, x)
  PROVE  /\ OnCourse(op, <<x>> \o s) /\ <<x>> \o s # <<>>
         /\ (<<x>> \o s)[1] = x /\ (<<x>> \o s)[2] = s[1] /\ Len(<<x>> \o s) > 1
<1> DEFINE t == <<x>> \o s
<1>1. s \in Seq(Steps) /\ Len(s) \in Nat \ {0} /\ <<x>> \in Seq(Steps) /\ Len(<<x>>) = 1
  BY EmptySeq DEF OnCourse
<1>2. /\ t \in Seq(Steps) /\ Len(t) = Len(s) + 1
      /\ t[1] = x /\ \A i \in 1 .. Len(s) : t[i + 1] = s[i]
  BY <1>1
<1> HIDE DEF t
<1>3. \A i \in 1 .. Len(s) :
        /\ i = Len(s) => s[i] \in Ending(op)
        /\ i < Len(s) => s[i + 1] \in Succ(op, s[i])
        /\ i < Len(s) /\ s[i + 1] \in {"load", "parse"} => i + 1 < Len(s) /\ s[i + 2] \in After(op, s[i])
  BY DEF OnCourse
<1>4. ASSUME NEW i \in 1 .. Len(t)
      PROVE  /\ i = Len(t) => t[i] \in Ending(op)
             /\ i < Len(t) => t[i + 1] \in Succ(op, t[i])
             /\ i < Len(t) /\ t[i + 1] \in {"load", "parse"} => i + 1 < Len(t) /\ t[i + 2] \in After(op, t[i])
  <2>1. CASE i = 1
    <3>1. 1 \in 1 .. Len(s) /\ 1 < Len(t) /\ 1 + 1 = 2 /\ 1 + 2 = 3
      BY <1>1, <1>2
    <3>2. t[2] = s[1]
      BY <1>2, <3>1
    <3>3. Len(s) > 1 => t[3] = s[2] /\ 2 < Len(t)
      <4>1. ASSUME Len(s) > 1 PROVE 2 \in 1 .. Len(s) /\ 2 + 1 = 3 /\ 2 < Len(t)
        BY <1>1, <1>2, <4>1
      <4>2. QED BY <4>1, <1>2
    <3>4. QED BY <2>1, <1>1, <1>2, <3>1, <3>2, <3>3
  <2>2. CASE i # 1
    <3> DEFINE k == i - 1
    <3>1. k \in 1 .. Len(s) /\ i = k + 1 /\ k \in Nat
      BY <1>1, <1>2, <2>2
    <3> HIDE DEF k
    <3>2. /\ k = Len(s) => s[k] \in Ending(op)
          /\ k < Len(s) => s[k + 1] \in Succ(op, s[k])
          /\ k < Len(s) /\ s[k + 1] \in {"load", "parse"} => k + 1 < Len(s) /\ s[k + 2] \in After(op, s[k])
      BY <1>3, <3>1
    <3>3. t[i] = s[k] /\ (k < Len(s) => t[i + 1] = s[k + 1])
      <4>1. k < Len(s) => k + 1 \in 1 .. Len(s) /\ (k + 1) + 1 = i + 1
        BY <1>1, <3>1
      <4>2. QED BY <1>2, <3>1, <4>1
    <3>4. k + 1 < Len(s) => t[i + 2] = s[k + 2]
      <4>1. k + 1 < Len(s) => k + 2 \in 1 .. Len(s) /\ (k + 2) + 1 = i + 2
        BY <1>1, <3>1
      <4>2. QED BY <1>2, <4>1
    <3>5. (i = Len(t) <=> k = Len(s)) /\ (i < Len(t) <=> k < Len(s)) /\ (i + 1 < Len(t) <=> k + 1 < Len(s))
      BY <1>1, <1>2, <3>1
    <3>6. QED BY <3>2, <3>3, <3>4, <3>5
  <2>3. QED BY <2>1, <2>2
<1>5. OnCourse(op, t)
  BY <1>2, <1>4 DEF OnCourse
<1>6. t # <<>> /\ t[2] = s[1] /\ Len(t) > 1
  <2>1. 1 \in 1 .. Len(s) /\ 1 + 1 = 2
    BY <1>1
  <2>2. QED BY <1>1, <1>2, <2>1, EmptySeq
<1>7. QED BY <1>2, <1>5, <1>6 DEF t

\* The same by the step that follows.
LEMMA CourseConsPlain ==
  ASSUME NEW op, NEW x \in Steps, NEW y, NEW s, OnCourse(op, s), s # <<>>, s[1] = y, y \in Succ(op, x),
         y \notin {"load", "parse"}
  PROVE  /\ OnCourse(op, <<x>> \o s) /\ <<x>> \o s # <<>>
         /\ (<<x>> \o s)[1] = x /\ (<<x>> \o s)[2] = y /\ Len(<<x>> \o s) > 1
BY CourseCons

LEMMA CourseConsRead ==
  ASSUME NEW op, NEW x \in Steps, NEW y, NEW z, NEW s, OnCourse(op, s), s # <<>>, s[1] = y, y \in Succ(op, x),
         Len(s) > 1, s[2] = z, z \in After(op, x)
  PROVE  /\ OnCourse(op, <<x>> \o s) /\ <<x>> \o s # <<>>
         /\ (<<x>> \o s)[1] = x /\ (<<x>> \o s)[2] = y /\ Len(<<x>> \o s) > 1
BY CourseCons

\* Whatever the wizard is answered, its program is on its course.
StartsWith(s, heads, edits) ==
  /\ OnCourse("init", s) /\ s # <<>> /\ s[1] \in heads
  /\ s[1] = "load" => Len(s) > 1 /\ s[2] \in edits

\* The order of the steps of the wizard.
LEMMA WizardOrder ==
  /\ "collectJob" \in Succ("init", "ask") /\ {"processJob", "final"} \subseteq Succ("init", "collectJob")
  /\ "final" \in Succ("init", "processJob") /\ "stamp" \in Succ("init", "wait")
  /\ {"wait", "select"} \subseteq Succ("init", "load") /\ "load" \in Succ("init", "select") /\ "wait" \in After("init", "select")
  /\ "load" \in Succ("init", "write") /\ "select" \in After("init", "write") /\ "write" \in Succ("init", "parse")
  /\ "parse" \in Succ("init", "connect") /\ "write" \in After("init", "connect")
  /\ {"connect", "final"} \subseteq Succ("init", "nodefault")
  /\ {"load", "connect", "ask", "final"} \subseteq Succ("init", "workflow") \cap Succ("init", "user")
  /\ "nodefault" \in After("init", "workflow") /\ {"workflow", "nodefault"} \subseteq After("init", "user")
  /\ {"load", "undefer"} \subseteq Steps /\ "load" \in Succ("init", "saveJobs") /\ "default" \in After("init", "saveJobs")
  /\ {"default", "undefer"} \subseteq Succ("init", "load") /\ "load" \in Succ("init", "source") /\ "undefer" \in After("init", "source")
  /\ "source" \in Succ("init", "parse") /\ "saveJobs" \in Succ("init", "loadJobs")
  /\ {"processJob", "final"} \subseteq Succ("init", "default") /\ "collectJob" \in Succ("init", "undefer")
BY DEF Succ, StepsOf, After, Steps, ConfigSteps

\* An edit of esdiag.yml in front of a part of the wizard.
LEMMA WizardEdit ==
  ASSUME NEW x \in {"user", "workflow", "nodefault", "undefer", "default"}, NEW s, NEW heads, NEW edits,
         StartsWith(s, heads, edits),
         heads \subseteq Succ("init", x), "parse" \notin heads, edits \subseteq After("init", x)
  PROVE  StartsWith(<<"load", x>> \o s, {"load"}, {x})
<1>0. {x, "load"} \subseteq Steps
  BY DEF Steps, ConfigSteps
<1>1. OnCourse("init", <<x>> \o s) /\ <<x>> \o s # <<>> /\ (<<x>> \o s)[1] = x
  <2>1. /\ OnCourse("init", s) /\ s # <<>> /\ s[1] \in Succ("init", x)
        /\ s[1] \in {"load", "parse"} => Len(s) > 1 /\ s[2] \in After("init", x)
    BY DEF StartsWith
  <2>2. QED BY <1>0, <2>1, CourseCons
<1>2. /\ OnCourse("init", <<"load">> \o (<<x>> \o s)) /\ <<"load">> \o (<<x>> \o s) # <<>>
      /\ (<<"load">> \o (<<x>> \o s))[1] = "load" /\ (<<"load">> \o (<<x>> \o s))[2] = x
      /\ Len(<<"load">> \o (<<x>> \o s)) > 1
  <2>1. x \in Succ("init", "load") /\ x \notin {"load", "parse"}
    BY DEF Succ, StepsOf
  <2>2. QED BY <1>0, <1>1, <2>1, CourseConsPlain
<1>3. <<"load", x>> \o s = <<"load">> \o (<<x>> \o s)
  <2>1. s \in Seq(Steps)
    BY DEF StartsWith, OnCourse
  <2>2. QED BY <1>0, <2>1
<1>4. QED BY <1>2, <1>3 DEF StartsWith

\* The default jobs, and the end.
LEMMA WizardJobsCourse ==
  ASSUME NEW wf \in {"collect", "both"}
  PROVE  StartsWith((<<"ask">> \o WizardJobs(wf)) \o <<"final">>, {"ask"}, {})
<1>0. {"ask", "collectJob", "processJob", "final"} \subseteq Steps
  BY DEF Steps
<1>1. OnCourse("init", <<"final">>) /\ <<"final">> # <<>> /\ <<"final">>[1] = "final"
  BY <1>0 DEF OnCourse, Ending
<1> DEFINE c1 == <<"collectJob">> \o <<"final">>
           c2 == <<"ask">> \o c1
           b1 == <<"processJob">> \o <<"final">>
           b2 == <<"collectJob">> \o b1
           b3 == <<"ask">> \o b2
<1>2. OnCourse("init", c1) /\ c1 # <<>> /\ c1[1] = "collectJob"
  BY <1>0, <1>1, CourseConsPlain, WizardOrder
<1>3. OnCourse("init", b1) /\ b1 # <<>> /\ b1[1] = "processJob"
  BY <1>0, <1>1, CourseConsPlain, WizardOrder
<1> HIDE DEF c1, b1
<1>4. OnCourse("init", c2) /\ c2 # <<>> /\ c2[1] = "ask"
  BY <1>0, <1>2, CourseConsPlain, WizardOrder
<1>5. OnCourse("init", b2) /\ b2 # <<>> /\ b2[1] = "collectJob"
  BY <1>0, <1>3, CourseConsPlain, WizardOrder
<1> HIDE DEF b2
<1>6. OnCourse("init", b3) /\ b3 # <<>> /\ b3[1] = "ask"
  BY <1>0, <1>5, CourseConsPlain, WizardOrder
<1>7. CASE wf = "collect"
  <2>1. (<<"ask">> \o WizardJobs(wf)) \o <<"final">> = <<"ask">> \o (<<"collectJob">> \o <<"final">>)
    BY <1>7 DEF WizardJobs
  <2>2. QED BY <1>4, <2>1 DEF StartsWith, c1
<1>8. CASE wf = "both"
  <2>1. (<<"ask">> \o WizardJobs(wf)) \o <<"final">> = <<"ask">> \o (<<"collectJob">> \o (<<"processJob">> \o <<"final">>))
    BY <1>8 DEF WizardJobs
  <2>2. QED BY <1>6, <2>1 DEF StartsWith, b1, b2
<1>9. QED BY <1>7, <1>8

\* The output, in front of the rest.
LEMMA WizardOutputCourse ==
  ASSUME NEW s, StartsWith(s, {"ask", "final"}, {}) PROVE StartsWith(WizardOutput \o s, {"connect"}, {})
<1>0. {"connect", "parse", "write", "load", "select", "wait", "stamp"} \subseteq Steps /\ s \in Seq(Steps)
  BY DEF Steps, ConfigSteps, StartsWith, OnCourse
<1> DEFINE s1 == <<"stamp">> \o s
           s2 == <<"wait">> \o s1
           s3 == <<"load">> \o s2
           s4 == <<"select">> \o s3
           s5 == <<"load">> \o s4
           s6 == <<"write">> \o s5
           s7 == <<"parse">> \o s6
           s8 == <<"connect">> \o s7
<1>1. OnCourse("init", s1) /\ s1 # <<>> /\ s1[1] = "stamp"
  <2>1. OnCourse("init", s) /\ s # <<>> /\ s[1] \in Succ("init", "stamp") /\ s[1] \notin {"load", "parse"}
    BY DEF StartsWith, Succ, StepsOf
  <2>2. QED BY <1>0, <2>1, CourseCons
<1> HIDE DEF s1
<1>2. OnCourse("init", s2) /\ s2 # <<>> /\ s2[1] = "wait"
  BY <1>0, <1>1, CourseConsPlain, WizardOrder
<1> HIDE DEF s2
<1>3. OnCourse("init", s3) /\ s3 # <<>> /\ s3[1] = "load" /\ s3[2] = "wait" /\ Len(s3) > 1
  BY <1>0, <1>2, CourseConsPlain, WizardOrder
<1> HIDE DEF s3
<1>4. OnCourse("init", s4) /\ s4 # <<>> /\ s4[1] = "select"
  BY <1>0, <1>3, CourseConsRead, WizardOrder
<1> HIDE DEF s4
<1>5. OnCourse("init", s5) /\ s5 # <<>> /\ s5[1] = "load" /\ s5[2] = "select" /\ Len(s5) > 1
  BY <1>0, <1>4, CourseConsPlain, WizardOrder
<1> HIDE DEF s5
<1>6. OnCourse("init", s6) /\ s6 # <<>> /\ s6[1] = "write"
  BY <1>0, <1>5, CourseConsRead, WizardOrder
<1> HIDE DEF s6
<1>7. OnCourse("init", s7) /\ s7 # <<>> /\ s7[1] = "parse" /\ s7[2] = "write" /\ Len(s7) > 1
  BY <1>0, <1>6, CourseConsPlain, WizardOrder
<1> HIDE DEF s7
<1>8. OnCourse("init", s8) /\ s8 # <<>> /\ s8[1] = "connect"
  BY <1>0, <1>7, CourseConsRead, WizardOrder
<1>9. WizardOutput \o s = s8
  <2> DEFINE conn == <<"connect">>
             last == <<"load", "wait", "stamp">>
  <2>1. conn \in Seq(Steps) /\ last \in Seq(Steps) /\ Deploy \in Seq(Steps)
    BY <1>0 DEF Deploy
  <2>2. last \o s = s3
    BY <1>0 DEF s1, s2, s3
  <2>3. s3 \in Seq(Steps)
    BY <1>3 DEF OnCourse
  <2>4. Deploy \o s3 = s7
    BY <1>0, <2>3 DEF Deploy, s4, s5, s6, s7
  <2> HIDE DEF conn, last
  <2>5. ((conn \o Deploy) \o last) \o s = conn \o (Deploy \o (last \o s))
    <3> DEFINE Cat(x, y) == x \o y
    <3>1. \A x, y \in Seq(Steps) : Cat(x, y) \in Seq(Steps)
      BY ConcatProperties
    <3>2. \A x, y, z \in Seq(Steps) : Cat(Cat(x, y), z) = Cat(x, Cat(y, z))
      BY ConcatAssociative
    <3> HIDE DEF Cat
    <3>3. Cat(Cat(Cat(conn, Deploy), last), s) = Cat(conn, Cat(Deploy, Cat(last, s)))
      BY <1>0, <2>1, <3>1, <3>2
    <3>4. QED BY <3>3 DEF Cat
  <2>6. QED BY <2>2, <2>4, <2>5 DEF WizardOutput, conn, last
<1>10. QED BY <1>8, <1>9 DEF StartsWith

\* Parts of a program can be grouped in any way.
LEMMA Regroup == \A s, t, u \in Seq(Steps) : s \o t \in Seq(Steps) /\ (s \o t) \o u = s \o (t \o u)
BY ConcatProperties, ConcatAssociative

LEMMA SixParts ==
  \A A, B, C, D, E, F \in Seq(Steps) : A \o B \o C \o D \o E \o F = A \o (B \o (C \o (D \o (E \o F))))
<1> TAKE A, B, C, D, E, F \in Seq(Steps)
<1> DEFINE Cat(s, t) == s \o t
<1>1. \A s, t, u \in Seq(Steps) : Cat(s, t) \in Seq(Steps) /\ Cat(Cat(s, t), u) = Cat(s, Cat(t, u))
  BY Regroup
<1> HIDE DEF Cat
<1>3. Cat(A, B) \in Seq(Steps) /\ Cat(Cat(A, B), C) \in Seq(Steps) /\ Cat(Cat(Cat(A, B), C), D) \in Seq(Steps)
  BY <1>1
<1>4. Cat(E, F) \in Seq(Steps) /\ Cat(D, Cat(E, F)) \in Seq(Steps) /\ Cat(C, Cat(D, Cat(E, F))) \in Seq(Steps)
  BY <1>1
<1>5. Cat(Cat(Cat(Cat(Cat(A, B), C), D), E), F) = Cat(Cat(Cat(Cat(A, B), C), D), Cat(E, F))
  BY <1>1, <1>3
<1>6. Cat(Cat(Cat(Cat(A, B), C), D), Cat(E, F)) = Cat(Cat(Cat(A, B), C), Cat(D, Cat(E, F)))
  BY <1>1, <1>3, <1>4
<1>7. Cat(Cat(Cat(A, B), C), Cat(D, Cat(E, F))) = Cat(Cat(A, B), Cat(C, Cat(D, Cat(E, F))))
  BY <1>1, <1>3, <1>4
<1>8. Cat(Cat(A, B), Cat(C, Cat(D, Cat(E, F)))) = Cat(A, Cat(B, Cat(C, Cat(D, Cat(E, F)))))
  BY <1>1, <1>4
<1>9. QED BY <1>5, <1>6, <1>7, <1>8 DEF Cat

WizardParts(wf, A, B, C, D, E) ==
  /\ A \in {<<>>, <<"load", "user">>} /\ B \in {<<>>, <<"load", "workflow">>}
  /\ C \in {<<>>, <<"load", "nodefault">>} /\ (C # <<>> => wf = "process")
  /\ D \in {<<>>, WizardOutput}
  /\ E = IF Collects(wf) THEN <<"ask">> \o WizardJobs(wf) ELSE <<>>

\* Every plan the answers of the wizard lead to is on its course.
LEMMA WizardCourse ==
  ASSUME NEW wf \in Workflows, NEW A, NEW B, NEW C, NEW D, NEW E, WizardParts(wf, A, B, C, D, E)
  PROVE  StartsWith(A \o B \o C \o D \o E \o <<"final">>, {"load", "connect", "ask", "final"}, {"user", "workflow", "nodefault"})
<1> DEFINE F == <<"final">>
           e == E \o F
           d == D \o e
           c == C \o d
           b == B \o c
<1>0. {A, B, C, D, E, F} \subseteq Seq(Steps)
  <2>1. <<"load", "user">> \in Seq(Steps) /\ <<"load", "workflow">> \in Seq(Steps)
        /\ <<"load", "nodefault">> \in Seq(Steps) /\ F \in Seq(Steps) /\ <<>> \in Seq(Steps)
    BY DEF Steps, ConfigSteps
  <2>2. WizardOutput \in Seq(Steps)
    BY DEF WizardOutput, Deploy, Steps, ConfigSteps
  <2>3. <<"ask">> \o WizardJobs(wf) \in Seq(Steps)
    <3>1. <<"ask">> \in Seq(Steps) /\ <<"collectJob">> \in Seq(Steps) /\ <<"processJob">> \in Seq(Steps)
      BY DEF Steps
    <3>2. QED BY <2>1, <3>1, ConcatProperties DEF WizardJobs
  <2>4. QED BY <2>1, <2>2, <2>3 DEF WizardParts
<1>1. e \in Seq(Steps) /\ StartsWith(e, {"ask", "final"}, {}) /\ (wf = "process" => e[1] = "final")
  <2>1. CASE Collects(wf)
    <3>1. wf \in {"collect", "both"}
      BY <2>1 DEF Collects
    <3>2. QED BY <2>1, <3>1, <1>0, WizardJobsCourse, ConcatProperties DEF StartsWith, WizardParts
  <2>2. CASE ~Collects(wf)
    <3>1. e = F
      BY <2>2, <1>0, ConcatEmptySeq DEF WizardParts
    <3>2. OnCourse("init", F) /\ F # <<>> /\ F[1] = "final"
      BY <1>0 DEF OnCourse, Ending
    <3>3. QED BY <1>0, <3>1, <3>2 DEF StartsWith
  <2>3. QED BY <2>1, <2>2
<1> HIDE DEF e
<1>2. /\ d \in Seq(Steps) /\ StartsWith(d, {"connect", "ask", "final"}, {})
      /\ wf = "process" => StartsWith(d, {"connect", "final"}, {})
  <2>1. CASE D = <<>>
    <3>1. d = e
      BY <2>1, <1>1, ConcatEmptySeq
    <3>2. QED BY <3>1, <1>1 DEF StartsWith
  <2>2. CASE D # <<>>
    <3>1. D = WizardOutput
      BY <2>2 DEF WizardParts
    <3>2. StartsWith(d, {"connect"}, {})
      BY <1>1, <3>1, WizardOutputCourse
    <3>3. QED BY <3>2, <1>0, <1>1, ConcatProperties DEF StartsWith
  <2>3. QED BY <2>1, <2>2
<1> HIDE DEF d
<1>3. c \in Seq(Steps) /\ StartsWith(c, {"load", "connect", "ask", "final"}, {"nodefault"})
  <2>1. CASE C = <<>>
    <3>1. c = d
      BY <2>1, <1>2, ConcatEmptySeq
    <3>2. QED BY <3>1, <1>2 DEF StartsWith
  <2>2. CASE C # <<>>
    <3>1. C = <<"load", "nodefault">> /\ StartsWith(d, {"connect", "final"}, {})
      BY <2>2, <1>2 DEF WizardParts
    <3>2. StartsWith(c, {"load"}, {"nodefault"})
      <4>1. /\ {"connect", "final"} \subseteq Succ("init", "nodefault") /\ {} \subseteq After("init", "nodefault")
            /\ "parse" \notin {"connect", "final"}
        BY WizardOrder
      <4>2. StartsWith(<<"load", "nodefault">> \o d, {"load"}, {"nodefault"})
        <5> DEFINE heads == {"connect", "final"}
        <5>1. StartsWith(d, heads, {}) /\ heads \subseteq Succ("init", "nodefault") /\ "parse" \notin heads
          BY <3>1, <4>1
        <5> HIDE DEF heads
        <5>2. QED BY <4>1, <5>1, WizardEdit
      <4>3. QED BY <3>1, <4>2
    <3>3. QED BY <3>2, <1>0, <1>2, ConcatProperties DEF StartsWith
  <2>3. QED BY <2>1, <2>2
<1> HIDE DEF c
<1>4. b \in Seq(Steps) /\ StartsWith(b, {"load", "connect", "ask", "final"}, {"workflow", "nodefault"})
  <2>1. CASE B = <<>>
    <3>1. b = c
      BY <2>1, <1>3, ConcatEmptySeq
    <3>2. QED BY <3>1, <1>3 DEF StartsWith
  <2>2. CASE B # <<>>
    <3>1. B = <<"load", "workflow">>
      BY <2>2 DEF WizardParts
    <3>2. StartsWith(b, {"load"}, {"workflow"})
      <4>1. {"load", "connect", "ask", "final"} \subseteq Succ("init", "workflow") /\ {"nodefault"} \subseteq After("init", "workflow")
        BY WizardOrder
      <4>2. StartsWith(<<"load", "workflow">> \o c, {"load"}, {"workflow"})
        <5> DEFINE heads == {"load", "connect", "ask", "final"}
                   edits == {"nodefault"}
        <5>1. StartsWith(c, heads, edits) /\ heads \subseteq Succ("init", "workflow") /\ "parse" \notin heads
              /\ edits \subseteq After("init", "workflow")
          BY <1>3, <4>1
        <5> HIDE DEF heads, edits
        <5>2. QED BY <5>1, WizardEdit
      <4>3. QED BY <3>1, <4>2
    <3>3. QED BY <3>2, <1>0, <1>3, ConcatProperties DEF StartsWith
  <2>3. QED BY <2>1, <2>2
<1> HIDE DEF b
<1>5. StartsWith(A \o b, {"load", "connect", "ask", "final"}, {"user", "workflow", "nodefault"})
  <2>1. CASE A = <<>>
    <3>1. A \o b = b
      BY <2>1, <1>4, ConcatEmptySeq
    <3>2. QED BY <3>1, <1>4 DEF StartsWith
  <2>2. CASE A # <<>>
    <3>1. A = <<"load", "user">>
      BY <2>2 DEF WizardParts
    <3>2. StartsWith(A \o b, {"load"}, {"user"})
      <4>1. /\ {"load", "connect", "ask", "final"} \subseteq Succ("init", "user")
            /\ {"workflow", "nodefault"} \subseteq After("init", "user")
        BY WizardOrder
      <4>2. StartsWith(<<"load", "user">> \o b, {"load"}, {"user"})
        <5> DEFINE heads == {"load", "connect", "ask", "final"}
                   edits == {"workflow", "nodefault"}
        <5>1. StartsWith(b, heads, edits) /\ heads \subseteq Succ("init", "user") /\ "parse" \notin heads
              /\ edits \subseteq After("init", "user")
          BY <1>4, <4>1
        <5> HIDE DEF heads, edits
        <5>2. QED BY <5>1, WizardEdit
      <4>3. QED BY <3>1, <4>2
    <3>3. QED BY <3>2 DEF StartsWith
  <2>3. QED BY <2>1, <2>2
<1>6. A \o B \o C \o D \o E \o F = A \o b
  <2>1. A \in Seq(Steps) /\ B \in Seq(Steps) /\ C \in Seq(Steps) /\ D \in Seq(Steps) /\ E \in Seq(Steps) /\ F \in Seq(Steps)
    BY <1>0
  <2> DEFINE left(p, q, r, s, t, u) == p \o q \o r \o s \o t \o u
             right(p, q, r, s, t, u) == p \o (q \o (r \o (s \o (t \o u))))
  <2>2. \A p, q, r, s, t, u \in Seq(Steps) : left(p, q, r, s, t, u) = right(p, q, r, s, t, u)
    BY SixParts
  <2> HIDE DEF left, right, F
  <2>3. left(A, B, C, D, E, F) = right(A, B, C, D, E, F)
    BY <2>1, <2>2
  <2>4. QED BY <2>3 DEF left, right, b, c, d, e
<1>7. QED BY <1>5, <1>6

----------------------------------------------------------------------------
(* Commands                                                                   *)

\* The next step of a program on its course is one of its command.
LEMMA HeadsLive ==
  ASSUME NEW op \in WebOps \cup CliOps, NEW s, OnCourse(op, s), s # <<>> PROVE Head(s) \in StepsOf(op)
<1>1. CASE Tail(s) = <<>>
  <2>1. Head(s) \in Ending(op)
    BY <1>1, CourseTail
  <2>2. Ending(op) \subseteq StepsOf(op)
    BY DEF Ending, StepsOf, WebOps, CliOps
  <2>3. QED BY <2>1, <2>2
<1>2. CASE Tail(s) # <<>>
  <2>1. Head(Tail(s)) \in Succ(op, Head(s))
    BY <1>2, CourseTail
  <2>2. QED BY <2>1 DEF Succ
<1>3. QED BY <1>1, <1>2

Fields(q, p) ==
  /\ q.op = p.op /\ q.name = p.name /\ q.orig = p.orig /\ q.host = p.host /\ q.wf = p.wf /\ q.job = p.job
  /\ q.target = p.target /\ q.saw = p.saw /\ q.cfg = p.cfg /\ q.seen = p.seen /\ q.got = p.got /\ q.how = p.how
  /\ q.mem = p.mem /\ q.with = p.with /\ q.before = p.before

\* A command that only goes on is otherwise as it was.
LEMMA WithTodo ==
  ASSUME NEW p, Shaped(p), NEW t PROVE LET q == [p EXCEPT !.todo = t] IN Shaped(q) /\ q.todo = t /\ Fields(q, p)
BY DEF Shaped, Fields

\* So every command starts on its course.
LEMMA ProgramsOnCourse ==
  ASSUME NEW op \in WebOps \cup CliOps
  PROVE  /\ OnCourse(op, Program[op]) /\ Program[op] # <<>> /\ Head(Program[op]) \in StepsOf(op)
         /\ op = "init" => Program[op] = <<"load", "plan">>
<1> DEFINE fits(o, s) == OnCourse(o, s) /\ s # <<>>
<1>1. fits("init", <<"load", "plan">>)
  <2>1. <<"load", "plan">> \in Seq(Steps)
    BY DEF Steps
  <2>2. ASSUME NEW i \in 1 .. 2
        PROVE  /\ i = 2 => <<"load", "plan">>[i] \in Ending("init")
               /\ i < 2 => <<"load", "plan">>[i + 1] \in Succ("init", <<"load", "plan">>[i])
               /\ i < 2 => <<"load", "plan">>[i + 1] \notin {"load", "parse"}
    <3>1. i \in {1, 2}
      OBVIOUS
    <3>2. QED BY <3>1 DEF Ending, Succ, StepsOf
  <2>3. QED BY <2>1, <2>2 DEF OnCourse
<1>2. /\ fits("identity", SaveIdentity) /\ fits("unlock", SaveKeystore) /\ fits("output", SaveOutput)
      /\ fits("provision", Provision) /\ fits("collection", SaveCollection) /\ fits("defer", Defer)
      /\ fits("default", DefaultJob) /\ fits("settings", UpdateSettings)
  BY SaveIdentityCourse, SaveKeystoreCourse, SaveOutputCourse, ProvisionCourse, SaveCollectionCourse, DeferCourse,
     DefaultJobCourse, UpdateSettingsCourse
<1>3. /\ fits("host", UpsertHost) /\ fits("cluster", UpsertCluster) /\ fits("delhost", DeleteHost)
      /\ fits("delcluster", DeleteCluster) /\ fits("savejob", WithJobs) /\ fits("deljob", WithJobs)
      /\ fits("add", AddHost) /\ fits("update", UpdateHost) /\ fits("remove", RemoveHost)
      /\ fits("context", EditContext) /\ fits("clear", EditContext) /\ fits("addjob", EditJobs) /\ fits("dropjob", EditJobs)
  BY UpsertHostCourse, UpsertClusterCourse, DeleteHostCourse, DeleteClusterCourse, WithJobsCourse, AddHostCourse,
     UpdateHostCourse, RemoveHostCourse, EditContextCourse, EditJobsCourse
<1> HIDE DEF fits
<1>4. fits(op, Program[op]) /\ (op = "init" => Program[op] = <<"load", "plan">>)
  BY <1>1, <1>2, <1>3 DEF WebOps, CliOps, Program
<1>5. QED BY <1>4, HeadsLive DEF fits

\* What a step of its program needs of a command is there: it was read before.
LEMMA NextCommand ==
  ASSUME NEW p, CommandInv(p), ~Unplanned(p), NEW q, Shaped(q), q.todo = Tail(p.todo), q.todo # <<>>,
         q.op = p.op, q.name = p.name, q.wf = p.wf,
         q.host = p.host \/ (q.host \in HostRecords /\ q.host.roles # {}),
         (q.cfg = p.cfg /\ Head(p.todo) # "load") \/ IsConfig(q.cfg),
         (q.saw = p.saw /\ Head(p.todo) # "parse") \/ IsHosts(q.saw),
         (q.mem = p.mem /\ Head(p.todo) # "parse") \/ p.op \notin {"host", "cluster", "delcluster"} \/ q.mem \in Names \cup {None},
         (q.seen = p.seen /\ Head(p.todo) \notin {"loadJobs", "acquire"}) \/ IsJobs(q.seen),
         \/ q.got = p.got /\ Head(p.todo) # "draft" /\ (p.op = "settings" => Head(p.todo) # "fetch")
         \/ p.op # "settings" /\ q.got.export \in Exports
         \/ p.op = "settings" /\ q.got \in ExporterStates,
         (q.target = p.target /\ Head(p.todo) # "confirmHost") \/ q.target \in Names \/ Head(p.todo) = "row"
  PROVE  CommandInv(q)
<1> DEFINE h == Head(p.todo)
           g == Head(q.todo)
<1>1. p.op \in WebOps \cup CliOps /\ OnCourse(p.op, p.todo) /\ p.todo # <<>> /\ Arguments(p) /\ Knows(p)
  BY DEF CommandInv
<1>2. /\ OnCourse(q.op, q.todo) /\ g = p.todo[2] /\ g \in Succ(p.op, h) /\ h \in StepsOf(p.op)
      /\ g \in {"load", "parse"} => q.todo[2] \in After(p.op, h)
  BY <1>1, CourseTail, HeadsLive
<1> HIDE DEF h, g
<1>3. Arguments(q)
  BY <1>1 DEF Arguments, Unplanned
<1>4. g \in UsesConfig(q.op) => IsConfig(q.cfg)
  <2>1. g \in UsesConfig(q.op) => h = "load" \/ h \in UsesConfig(p.op)
    BY <1>1, <1>2 DEF Succ, StepsOf, UsesConfig, ConfigSteps, WebOps, CliOps
  <2>2. QED BY <1>1, <2>1 DEF Knows, h
<1>5. g \in UsesHosts(q.op) => IsHosts(q.saw) /\ (q.op \in {"host", "cluster", "delcluster"} => q.mem \in Names \cup {None})
  <2>1. g \in UsesHosts(q.op) => h = "parse" \/ h \in UsesHosts(p.op)
    BY <1>1, <1>2 DEF Succ, StepsOf, UsesHosts, ConfigSteps, WebOps, CliOps
  <2>2. QED BY <1>1, <2>1 DEF Knows, h
<1>6. g \in {"saveJobs", "release"} => IsJobs(q.seen)
  <2>1. g \in {"saveJobs", "release"} => h \in {"loadJobs", "acquire"}
    BY <1>1, <1>2 DEF Succ, StepsOf, WebOps, CliOps
  <2>2. QED BY <2>1 DEF h
<1>7. g \in {"loadJobs", "saveJobs"} /\ q.op \in {"default", "init"} => q.got.export \in Exports
  <2>1. g \in {"loadJobs", "saveJobs"} /\ p.op \in {"default", "init"} => h \in {"draft", "loadJobs"}
    BY <1>1, <1>2 DEF Succ, StepsOf, WebOps, CliOps
  <2>2. QED BY <1>1, <2>1 DEF Knows, h
<1>8. q.op = "settings" /\ g \in {"connect", "select", "kibana", "exporter", "stamp"} => q.got \in ExporterStates
  <2>1. p.op = "settings" /\ g \in {"connect", "select", "kibana", "exporter", "stamp"} =>
          h \in {"fetch", "connect", "select", "kibana", "exporter", "stamp"}
    BY <1>1, <1>2 DEF Succ, StepsOf, WebOps, CliOps
  <2>2. QED BY <1>1, <2>1 DEF Knows, h
<1>9. \/ g = "source" \/ (g = "parse" /\ q.todo[2] = "source")
      \/ q.op = "collection" /\ g # "confirmHost"
      => q.target \in Names
  <2>1. g = "source" => h = "parse"
    BY <1>1, <1>2 DEF Succ, StepsOf, WebOps, CliOps
  <2>2. g = "parse" /\ q.todo[2] = "source" => p.op = "collection"
    BY <1>1, <1>2 DEF Succ, After, StepsOf, WebOps, CliOps
  <2>3. p.op = "collection" /\ h = "confirmHost" => q.target \in Names
    BY DEF h
  <2>4. h = "row" => p.op # "collection" /\ g # "source"
    BY <1>1, <1>2 DEF Succ, StepsOf
  <2>5. QED BY <1>1, <1>2, <2>1, <2>2, <2>3, <2>4 DEF Knows, h
<1>10. Knows(q)
  BY <1>4, <1>5, <1>6, <1>7, <1>8, <1>9 DEF Knows, g
<1>11. QED BY <1>1, <1>2, <1>3, <1>10 DEF CommandInv

----------------------------------------------------------------------------
(* A step of one command, and what the others notice                          *)

Sole(a) == clean /\ ~Overlap(a)

\* The step of a command to its next state, or the start of one.
LEMMA Moved ==
  ASSUME ProcInv, CompanyInv, NEW a \in Actors, NEW q, CommandInv(q), q.op \in WebOps => a \in Web,
         \A b \in Actors \ {a} : Running(b) => q.with # "nobody" /\ (b \in Cli => q.with = "others"),
         Sole(a) => q.with = "nobody", Becomes(a, q)
  PROVE  /\ ProcInv' /\ CompanyInv' /\ proc'[a] = q /\ Running(a)' /\ (clean' <=> Sole(a))
         /\ \A b \in Actors \ {a} :
              /\ ~Alone(b)' /\ (Running(b)' <=> Running(b))
              /\ Running(b) => /\ proc'[b].todo = proc[b].todo /\ proc'[b].op = proc[b].op /\ proc'[b].seen = proc[b].seen
                               /\ proc'[b].with = Company(a, b)
<1>1. /\ proc' = Noticed(a, q) /\ (clean' <=> Sole(a))
      /\ DOMAIN proc' = Actors /\ proc'[a] = q
  BY DEF Becomes, Noticed, Sole
<1>2. q.op # "idle" /\ Running(a)'
  BY <1>1 DEF CommandInv, WebOps, CliOps, Running
<1>3. ASSUME NEW b \in Actors \ {a}, Running(b)
      PROVE  /\ Running(b)' /\ proc'[b].todo = proc[b].todo /\ proc'[b].op = proc[b].op /\ proc'[b].seen = proc[b].seen
             /\ proc'[b].with = Company(a, b) /\ CommandInv(proc'[b])
  <2>1. proc'[b] = [proc[b] EXCEPT !.with = Company(a, b), !.before = None]
    BY <1>1, <1>3 DEF Noticed
  <2>2. CommandInv(proc[b])
    BY <1>3 DEF ProcInv
  <2> DEFINE r == proc'[b] p == proc[b]
  <2>3. Shaped(p)
    BY <2>2 DEF CommandInv
  <2>4. /\ Shaped(r) /\ r.with = Company(a, b) /\ r.todo = p.todo /\ r.op = p.op /\ r.name = p.name /\ r.host = p.host
        /\ r.wf = p.wf /\ r.target = p.target /\ r.saw = p.saw /\ r.cfg = p.cfg /\ r.seen = p.seen /\ r.got = p.got
        /\ r.mem = p.mem
    BY <2>1, <2>3 DEF Shaped
  <2> HIDE DEF r, p
  <2>5. CommandInv(p) => CommandInv(r)
    BY <2>4 DEF CommandInv, Arguments, Unplanned, Knows
  <2>6. QED BY <1>3, <2>2, <2>4, <2>5 DEF Running, r, p
<1>4. ASSUME NEW b \in Actors \ {a} PROVE ~Alone(b)' /\ (Running(b)' <=> Running(b))
  <2>1. CASE Running(b)
    BY <1>3, <2>1 DEF Alone, Company
  <2>2. CASE ~Running(b)
    <3>1. proc'[b] = Idle
      BY <1>1, <2>2 DEF Noticed
    <3>2. QED BY <2>2, <3>1 DEF Idle, Running, Alone
  <2>3. QED BY <2>1, <2>2
<1>5. ProcInv'
  <2>1. ASSUME NEW b \in Actors, Running(b)' PROVE CommandInv(proc'[b]) /\ (proc'[b].op \in WebOps => b \in Web)
    <3>1. CASE b = a
      BY <1>1, <3>1
    <3>2. CASE b # a
      BY <1>3, <1>4, <2>1, <3>2 DEF ProcInv
    <3>3. QED BY <3>1, <3>2
  <2>2. QED BY <1>1, <2>1 DEF ProcInv
<1>6. ASSUME NEW b \in Actors, NEW c \in Actors, b # c, Running(b)', Running(c)'
      PROVE  proc'[b].with # "nobody" /\ (c \in Cli => proc'[b].with = "others")
  <2>1. CASE b = a
    BY <1>1, <1>4, <1>6, <2>1
  <2>2. CASE b # a /\ c = a
    BY <1>3, <1>4, <1>6, <2>2, ActorsAssumption DEF Company
  <2>3. CASE b # a /\ c # a
    <3>1. Running(b) /\ Running(c) /\ proc'[b].with = Company(a, b)
      BY <1>3, <1>4, <1>6, <2>3
    <3>2. c \in Cli => proc[b].with = "others"
      BY <1>6, <3>1 DEF CompanyInv
    <3>3. QED BY <3>1, <3>2 DEF Company
  <2>4. QED BY <2>1, <2>2, <2>3
<1>7. clean' => \A b \in Actors : Running(b)' => Alone(b)'
  <2>1. ASSUME clean', NEW b \in Actors, Running(b)' PROVE Alone(b)'
    <3>1. Sole(a) /\ b = a
      BY <1>1, <1>4, <2>1 DEF Sole, Overlap
    <3>2. proc'[a].with = "nobody"
      BY <1>1, <3>1
    <3>3. QED BY <1>2, <3>1, <3>2 DEF Alone
  <2>2. QED BY <2>1
<1>8. CompanyInv'
  BY <1>6, <1>7 DEF CompanyInv
<1>9. QED BY <1>1, <1>2, <1>3, <1>4, <1>5, <1>8

\* The end of a command.
LEMMA Ended ==
  ASSUME ProcInv, CompanyInv, NEW a \in Actors, NEW r, proc' = Noticed(a, [op |-> "idle", result |-> r]),
         clean' => Sole(a)
  PROVE  /\ ProcInv' /\ CompanyInv' /\ ~Running(a)'
         /\ \A b \in Actors : ~Alone(b)'
         /\ \A b \in Actors \ {a} :
              /\ Running(b)' <=> Running(b)
              /\ Running(b) => /\ proc'[b].todo = proc[b].todo /\ proc'[b].op = proc[b].op /\ proc'[b].seen = proc[b].seen
                               /\ proc'[b].with = Company(a, b)
<1>1. DOMAIN proc' = Actors /\ ~Running(a)'
  BY DEF Noticed, Running
<1>3. ASSUME NEW b \in Actors \ {a}, Running(b)
      PROVE  /\ Running(b)' /\ proc'[b].todo = proc[b].todo /\ proc'[b].op = proc[b].op /\ proc'[b].seen = proc[b].seen
             /\ proc'[b].with = Company(a, b) /\ CommandInv(proc'[b])
  <2>1. proc'[b] = [proc[b] EXCEPT !.with = Company(a, b), !.before = None]
    BY <1>3 DEF Noticed
  <2>2. CommandInv(proc[b])
    BY <1>3 DEF ProcInv
  <2> DEFINE r1 == proc'[b] p == proc[b]
  <2>3. Shaped(p)
    BY <2>2 DEF CommandInv
  <2>4. /\ Shaped(r1) /\ r1.with = Company(a, b) /\ r1.todo = p.todo /\ r1.op = p.op /\ r1.name = p.name /\ r1.host = p.host
        /\ r1.wf = p.wf /\ r1.target = p.target /\ r1.saw = p.saw /\ r1.cfg = p.cfg /\ r1.seen = p.seen /\ r1.got = p.got
        /\ r1.mem = p.mem
    BY <2>1, <2>3 DEF Shaped
  <2> HIDE DEF r1, p
  <2>5. CommandInv(p) => CommandInv(r1)
    BY <2>4 DEF CommandInv, Arguments, Unplanned, Knows
  <2>6. QED BY <1>3, <2>2, <2>4, <2>5 DEF Running, r1, p
<1>4. ASSUME NEW b \in Actors \ {a} PROVE ~Alone(b)' /\ (Running(b)' <=> Running(b))
  <2>1. CASE Running(b)
    BY <1>3, <2>1 DEF Alone, Company
  <2>2. CASE ~Running(b)
    <3>1. proc'[b] = Idle
      BY <2>2 DEF Noticed
    <3>2. QED BY <2>2, <3>1 DEF Idle, Running, Alone
  <2>3. QED BY <2>1, <2>2
<1>5. ProcInv'
  <2>1. ASSUME NEW b \in Actors, Running(b)' PROVE CommandInv(proc'[b]) /\ (proc'[b].op \in WebOps => b \in Web)
    <3>1. b # a
      BY <1>1, <2>1
    <3>2. QED BY <1>3, <1>4, <2>1, <3>1 DEF ProcInv
  <2>2. QED BY <1>1, <2>1 DEF ProcInv
<1>6. ASSUME NEW b \in Actors, NEW c \in Actors, b # c, Running(b)', Running(c)'
      PROVE  proc'[b].with # "nobody" /\ (c \in Cli => proc'[b].with = "others")
  <2>1. Running(b) /\ Running(c) /\ proc'[b].with = Company(a, b)
    BY <1>1, <1>3, <1>4, <1>6
  <2>2. c \in Cli => proc[b].with = "others"
    BY <1>6, <2>1 DEF CompanyInv
  <2>3. QED BY <2>1, <2>2 DEF Company
<1>7. clean' => \A b \in Actors : ~Running(b)'
  BY <1>1, <1>4 DEF Sole, Overlap
<1>8. CompanyInv'
  BY <1>6, <1>7 DEF CompanyInv
<1>9. QED BY <1>1, <1>3, <1>4, <1>5, <1>8 DEF Alone

\* The mutex of jobs.yml, when the command that moves does not hold it.
LEMMA MutexKept ==
  ASSUME MutexInv, ProcInv, CompanyInv, NEW a \in Actors, lock' = lock, jobs' = jobs \/ a \in Cli \/ lock = None,
         ~AtStep(a, "release"), ~AtStep(a, "release")',
         \A b \in Actors \ {a} :
           /\ Running(b)' <=> Running(b)
           /\ Running(b) => /\ proc'[b].todo = proc[b].todo /\ proc'[b].op = proc[b].op /\ proc'[b].seen = proc[b].seen
                            /\ proc'[b].with = Company(a, b)
  PROVE  MutexInv'
<1>1. ASSUME NEW b \in Actors \ {a} PROVE AtStep(b, "release")' <=> AtStep(b, "release")
  BY DEF AtStep
<1>2. lock' # None => lock' \in Web /\ AtStep(lock, "release")'
  <2>1. lock # None => lock \in Actors \ {a}
    BY DEF MutexInv, Actors
  <2>2. lock # None => AtStep(lock, "release")'
    BY <1>1, <2>1 DEF MutexInv
  <2>3. QED BY <2>2 DEF MutexInv
<1>3. ASSUME NEW b \in Actors, AtStep(b, "release")'
      PROVE  /\ lock' = b /\ proc'[b].op \in {"savejob", "deljob"}
             /\ proc'[b].with # "others" => proc'[b].seen = jobs'
  <2>1. b # a /\ AtStep(b, "release") /\ Running(b)
    BY <1>1, <1>3 DEF AtStep
  <2>2. lock = b /\ proc[b].op \in {"savejob", "deljob"} /\ (proc[b].with # "others" => proc[b].seen = jobs) /\ lock # None
    BY <2>1, ActorsAssumption DEF MutexInv
  <2>3. proc'[b].with # "others" => a \in Web /\ proc[b].with # "others"
    BY <2>1 DEF Company
  <2>4. proc'[b].with # "others" => jobs' = jobs
    BY <2>2, <2>3, ActorsAssumption
  <2>5. QED BY <2>1, <2>2, <2>3, <2>4
<1>4. QED BY <1>2, <1>3 DEF MutexInv

\* A command goes on, or ends, and everything is as it should be.
LEMMA Went ==
  ASSUME Conduct, NEW a \in Actors, Running(a), NEW q, CommandInv(q), q.op = proc[a].op, q.with = proc[a].with, Becomes(a, q),
         lock' = lock, jobs' = jobs \/ a \in Cli \/ lock = None, ~AtStep(a, "release"), Head(q.todo) # "release",
         Alone(a) => AloneKnows(proc[a])',
         Sole(a) /\ (config.deferred /\ CollectHosts(hosts) # {})' => Clears(q)
  PROVE  Conduct'
<1>1. ProcInv /\ CompanyInv /\ MutexInv /\ CommandInv(proc[a]) /\ (proc[a].op \in WebOps => a \in Web)
  BY DEF Conduct, ProcInv
<1>2. \A b \in Actors \ {a} : Running(b) => proc[a].with # "nobody" /\ (b \in Cli => proc[a].with = "others")
  BY <1>1 DEF CompanyInv
<1>3. Sole(a) => proc[a].with = "nobody"
  BY <1>1 DEF CompanyInv, Alone, Sole
<1>4. /\ ProcInv' /\ CompanyInv' /\ proc'[a] = q /\ Running(a)' /\ (clean' <=> Sole(a))
      /\ \A b \in Actors \ {a} :
           /\ ~Alone(b)' /\ (Running(b)' <=> Running(b))
           /\ Running(b) => /\ proc'[b].todo = proc[b].todo /\ proc'[b].op = proc[b].op /\ proc'[b].seen = proc[b].seen
                            /\ proc'[b].with = Company(a, b)
  BY <1>1, <1>2, <1>3, Moved
<1>5. MutexInv'
  <2>1. ~AtStep(a, "release")'
    BY <1>4 DEF AtStep
  <2>2. \A b \in Actors \ {a} :
          /\ Running(b)' <=> Running(b)
          /\ Running(b) => /\ proc'[b].todo = proc[b].todo /\ proc'[b].op = proc[b].op /\ proc'[b].seen = proc[b].seen
                           /\ proc'[b].with = Company(a, b)
    BY <1>4
  <2>3. QED BY <1>1, <2>1, <2>2, MutexKept
<1>6. AloneInv'
  <2>1. ASSUME NEW b \in Actors, Alone(b)' PROVE AloneKnows(proc[b])'
    <3>1. b = a
      BY <1>4, <2>1
    <3>2. Alone(a)
      BY <1>4, <2>1, <3>1 DEF Alone
    <3>3. QED BY <3>1, <3>2
  <2>2. QED BY <2>1 DEF AloneInv
<1>7. DeferralInv'
  <2>1. ASSUME clean', (config.deferred /\ CollectHosts(hosts) # {})' PROVE (\E b \in Actors : Running(b) /\ Clears(proc[b]))'
    <3>1. Clears(q)
      BY <1>4, <2>1
    <3>2. Clears(proc[a])'
      BY <1>4, <3>1 DEF Clears
    <3>3. QED BY <1>4, <3>2
  <2>2. QED BY <2>1 DEF DeferralInv
<1>8. QED BY <1>4, <1>5, <1>6, <1>7 DEF Conduct

\* A command that ends leaves the others as they should be.
LEMMA Stopped ==
  ASSUME Conduct, NEW a \in Actors, Running(a), NEW r, proc' = Noticed(a, [op |-> "idle", result |-> r]), clean' => Sole(a),
         lock' = lock, jobs' = jobs \/ a \in Cli \/ lock = None, ~AtStep(a, "release"),
         clean' => ~(config.deferred /\ CollectHosts(hosts) # {})'
  PROVE  Conduct'
<1>1. ProcInv /\ CompanyInv /\ MutexInv
  BY DEF Conduct
<1>4. /\ ProcInv' /\ CompanyInv' /\ ~Running(a)'
      /\ \A b \in Actors : ~Alone(b)'
      /\ \A b \in Actors \ {a} :
           /\ Running(b)' <=> Running(b)
           /\ Running(b) => /\ proc'[b].todo = proc[b].todo /\ proc'[b].op = proc[b].op /\ proc'[b].seen = proc[b].seen
                            /\ proc'[b].with = Company(a, b)
  BY <1>1, Ended
<1>5. MutexInv'
  <2>1. ~AtStep(a, "release")'
    BY <1>4 DEF AtStep
  <2>3. QED BY <1>1, <1>4, <2>1, MutexKept
<1>6. AloneInv'
  BY <1>4 DEF AloneInv
<1>7. DeferralInv'
  BY DEF DeferralInv
<1>8. QED BY <1>4, <1>5, <1>6, <1>7 DEF Conduct

----------------------------------------------------------------------------
(* Steps that change nothing a command alone relies on                        *)

Changing == ConfigSteps \cup {"write", "source", "saveJobs", "release", "acquire", "exporter", "kibana"}

\* Which steps such a step may precede, h before g before k.
QuietFacts(op, h, g, k) ==
  /\ g \in FreshConfig(op) => h = "load" \/ h \in FreshConfig(op)
  /\ g \in {"write", "source"} => h = "parse"
  /\ op = "defer" => (g = "defer" => h = "load") /\ (g = "load" /\ k = "defer" => h = "may")
  /\ op \notin {"init", "default"} /\ g \in Early(op) => h \in Early(op)
  /\ op = "init" /\ (g \in Planning \cup {"connect"} \/ (g = "load" /\ k \in Planning))
       => h = "plan" \/ (h = "load" /\ g \in Planning)
  /\ op \in {"output", "provision"} /\ g \in {"load", "select", "stamp", "exporter", "kibana"} => h = "load" /\ g # "load" /\ g # "kibana"
  /\ op = "settings" =>
       /\ g = "fetch" => h = "check"
       /\ g = "connect" => h = "fetch"
       /\ g = "select" => h = "connect"
       /\ g \notin {"kibana", "exporter"}

\* Which such steps follow each other.
LEMMA QuietOrder ==
  ASSUME NEW op \in WebOps \cup CliOps, NEW h \in StepsOf(op) \ Changing, NEW g \in Succ(op, h), NEW k,
         g \in {"load", "parse"} => k \in After(op, h)
  PROVE  QuietFacts(op, h, g, k)
<1>1. g \in FreshConfig(op) => h = "load" \/ h \in FreshConfig(op)
  BY DEF Succ, StepsOf, FreshConfig, ConfigSteps, Changing, WebOps, CliOps
<1>2. g \in {"write", "source"} => h = "parse"
  BY DEF Succ, StepsOf, Changing, ConfigSteps, WebOps, CliOps
<1>3. op = "defer" => (g = "defer" => h = "load") /\ (g = "load" /\ k = "defer" => h = "may")
  BY DEF Succ, StepsOf, After, Changing, ConfigSteps
<1>4. op \notin {"init", "default"} /\ g \in Early(op) => h \in Early(op)
  BY DEF Succ, StepsOf, Early, Changing, ConfigSteps, WebOps, CliOps
<1>5. op = "init" /\ (g \in Planning \cup {"connect"} \/ (g = "load" /\ k \in Planning)) => h = "plan" \/ (h = "load" /\ g \in Planning)
  BY DEF Succ, StepsOf, After, Planning, Changing, ConfigSteps
<1>6. op \in {"output", "provision"} /\ g \in {"load", "select", "stamp", "exporter", "kibana"} => h = "load" /\ g # "load" /\ g # "kibana"
  BY DEF Succ, StepsOf, Changing, ConfigSteps
<1>7. op = "settings" =>
        /\ g = "fetch" => h = "check"
        /\ g = "connect" => h = "fetch"
        /\ g = "select" => h = "connect"
        /\ g \notin {"kibana", "exporter"}
  BY DEF Succ, StepsOf, Changing, ConfigSteps
<1>8. QED BY <1>1, <1>2, <1>3, <1>4, <1>5, <1>6, <1>7 DEF QuietFacts

\* What such a step must tell a command that is alone.
Learnt(p, q) ==
  LET h == Head(p.todo) IN
  /\ q.cfg = config \/ (q.cfg = p.cfg /\ h # "load")
  /\ h = "parse" => q.saw = hosts
  /\ h = "may" => CollectHosts(hosts) = {}
  /\ p.op = "settings" /\ h = "check" => ViewedFrom(p.name)
  /\ p.op = "settings" => q.got = (IF h = "fetch" THEN Endpoint(hosts, p.name) ELSE p.got)

\* A command alone that takes such a step knows what it should.
LEMMA QuietKnows ==
  ASSUME NEW p, CommandInv(p), AloneKnows(p), NEW q, q.todo = Tail(p.todo), q.todo # <<>>,
         Head(p.todo) \notin Changing, q.op = p.op, q.name = p.name, q.before = p.before, Learnt(p, q)
  PROVE  AloneKnows(q)
<1> DEFINE op == p.op
           h == Head(p.todo)
           g == Head(q.todo)
           k == q.todo[2]
<1>1. /\ op \in WebOps \cup CliOps /\ h \in StepsOf(op) \ Changing /\ g \in Succ(op, h) /\ g = p.todo[2]
      /\ g \in {"load", "parse"} => k \in After(op, h)
  BY CourseTail, HeadsLive DEF CommandInv
<1> HIDE DEF g, h, k
<1>a. QuietFacts(op, h, g, k)
  BY <1>1, QuietOrder
<1>2. /\ g \in FreshConfig(op) => h = "load" \/ h \in FreshConfig(op)
      /\ g \in {"write", "source"} => h = "parse"
      /\ op = "defer" => (g = "defer" => h = "load") /\ (g = "load" /\ k = "defer" => h = "may")
      /\ op \notin {"init", "default"} /\ g \in Early(op) => h \in Early(op)
      /\ op = "init" /\ (g \in Planning \cup {"connect"} \/ (g = "load" /\ k \in Planning))
           => h = "plan" \/ (h = "load" /\ g \in Planning)
      /\ op \in {"output", "provision"} /\ g \in {"load", "select", "stamp", "exporter", "kibana"} => h = "load" /\ g # "load" /\ g # "kibana"
      /\ op = "settings" =>
           /\ g = "fetch" => h = "check"
           /\ g = "connect" => h = "fetch"
           /\ g = "select" => h = "connect"
           /\ g \notin {"kibana", "exporter"}
  BY <1>a DEF QuietFacts
<1>3. g \in FreshConfig(op) => q.cfg = config
  BY <1>2 DEF AloneKnows, Learnt, h
<1>4. g \in {"write", "source"} => q.saw = hosts
  BY <1>2 DEF Learnt, h
<1>5. op = "defer" /\ (g = "defer" \/ (g = "load" /\ k = "defer")) => CollectHosts(hosts) = {}
  BY <1>1, <1>2 DEF AloneKnows, Learnt, h
<1>6. Untouched(q)
  <2>1. CASE op = "init"
    <3>1. IsPlanning(q) => IsPlanning(p)
      BY <1>1, <1>2, <2>1 DEF IsPlanning, Planning, g, h, k
    <3>2. QED BY <2>1, <3>1 DEF AloneKnows, Untouched
  <2>2. CASE op = "default"
    BY <2>2 DEF AloneKnows, Untouched
  <2>3. CASE op \notin {"init", "default"}
    BY <1>2, <2>3 DEF AloneKnows, Untouched, Unchanged, g, h
  <2>4. QED BY <2>1, <2>2, <2>3
<1>7. Switches(q)
  <2>1. CASE op \in {"output", "provision"}
    <3>1. h = "load" /\ g \in {"select", "stamp", "exporter"} => HasCluster(p.name) /\ (g # "select" => IsSelected(p.name))
      BY <1>1, <2>1 DEF AloneKnows, Switches, h
    <3>2. h = "load" => q.cfg = config
      BY DEF Learnt, h
    <3>3. QED BY <1>2, <2>1, <3>1, <3>2 DEF Switches, IsSelected, g
  <2>2. CASE op = "settings"
    BY <1>2, <2>2 DEF AloneKnows, Switches, Learnt, g, h
  <2>3. CASE op \notin {"output", "provision", "settings"}
    BY <2>3 DEF Switches
  <2>4. QED BY <2>1, <2>2, <2>3
<1>8. QED BY <1>3, <1>4, <1>5, <1>6, <1>7 DEF AloneKnows, g, k

\* What a command knows of files that did not change.
LEMMA KnowsKept ==
  ASSUME NEW a \in Actors, NEW q, AloneKnows(q), proc'[a] = q, UNCHANGED <<hosts, jobs, config, exporter, kibanaLink>>
  PROVE  AloneKnows(proc[a])'
BY DEF AloneKnows, Untouched, IsPlanning, Unchanged, Switches, HasCluster, IsSelected, ViewedFrom, Endpoint

\* A command that ends without having changed anything.
LEMMA Refuses ==
  ASSUME Conduct, NEW a \in Actors, Running(a), NEW r, End(a, r), UNCHANGED <<hosts, jobs, config, lock>>,
         Head(proc[a].todo) \notin {"release", "undefer"},
         ~(Head(proc[a].todo) = "load" /\ proc[a].todo[2] = "undefer")
  PROVE  Conduct'
<1>1. proc' = Noticed(a, [op |-> "idle", result |-> r]) /\ (clean' <=> Sole(a))
  BY DEF End, Becomes, Sole
<1>2. clean' => ~(config.deferred /\ CollectHosts(hosts) # {})'
  <2>1. ASSUME Sole(a), config.deferred, CollectHosts(hosts) # {} PROVE FALSE
    <3>1. \E b \in Actors : Running(b) /\ Clears(proc[b])
      BY <2>1 DEF Conduct, DeferralInv, Sole
    <3>2. Clears(proc[a])
      BY <2>1, <3>1 DEF Sole, Overlap
    <3>3. QED BY <3>2 DEF Clears
  <2>2. QED BY <1>1, <2>1 DEF CollectHosts, Has
<1>3. ~AtStep(a, "release")
  BY DEF AtStep
<1>4. QED BY <1>1, <1>2, <1>3, Stopped

\* A step that reads, asks or decides.
LEMMA QuietStep ==
  ASSUME Conduct, NEW a \in Actors, Running(a), NEW q, GoTo(a, q), UNCHANGED <<hosts, jobs, config, exporter, kibanaLink, lock>>,
         Head(proc[a].todo) \notin Changing, q.todo = Tail(proc[a].todo),
         q.op = proc[a].op, q.name = proc[a].name, q.with = proc[a].with, q.before = proc[a].before,
         q.todo # <<>> => CommandInv(q) /\ (Alone(a) => Learnt(proc[a], q))
  PROVE  Conduct'
<1> DEFINE p == proc[a]
<1>1. CommandInv(p) /\ ProcInv
  BY DEF Conduct, ProcInv
<1>2. CASE q.todo = <<>>
  <2>1. End(a, "ok")
    BY <1>2 DEF GoTo
  <2>2. Head(p.todo) \in Ending(p.op) /\ p.op \in WebOps \cup CliOps
    BY <1>1, <1>2, CourseTail DEF CommandInv
  <2>3. Head(p.todo) # "load" /\ Head(p.todo) \notin {"release", "undefer"}
    BY <2>2 DEF Ending, WebOps, CliOps, Changing, ConfigSteps
  <2>4. QED BY <2>1, <2>3, Refuses
<1>3. CASE q.todo # <<>>
  <2>1. Becomes(a, q) /\ CommandInv(q)
    BY <1>3 DEF GoTo
  <2>2. /\ p.op \in WebOps \cup CliOps /\ Head(p.todo) \in StepsOf(p.op) /\ Head(q.todo) \in Succ(p.op, Head(p.todo))
        /\ Head(q.todo) = p.todo[2]
    BY <1>1, <1>3, CourseTail, HeadsLive DEF CommandInv
  <2>3. Head(q.todo) # "release" /\ ~AtStep(a, "release")
    <3>1. Head(p.todo) \notin {"acquire", "release"}
      BY DEF Changing
    <3>2. QED BY <2>2, <3>1 DEF Succ, StepsOf, WebOps, CliOps, AtStep
  <2>4. Alone(a) => AloneKnows(p)'
    <3>1. ASSUME Alone(a) PROVE AloneKnows(q)
      BY <1>1, <1>3, <2>1, <3>1, QuietKnows DEF Conduct, AloneInv
    <3>2. proc'[a] = q
      BY <2>1 DEF Becomes, Noticed
    <3>3. QED BY <3>1, <3>2, KnowsKept
  <2>5. ASSUME Sole(a), (config.deferred /\ CollectHosts(hosts) # {})' PROVE Clears(q)
    <3>1. config.deferred /\ CollectHosts(hosts) # {}
      BY <2>5 DEF CollectHosts, Has
    <3>2. Clears(p)
      BY <2>5, <3>1 DEF Conduct, DeferralInv, Sole, Overlap
    <3>3. Head(p.todo) # "undefer"
      BY DEF Changing, ConfigSteps
    <3>4. QED BY <2>2, <3>2, <3>3 DEF Clears
  <2>6. QED BY <2>1, <2>3, <2>4, <2>5, Went
<1>4. QED BY <1>2, <1>3

\* The same, when nothing of the command changes but its program.
LEMMA Advances ==
  ASSUME Conduct, NEW a \in Actors, Running(a), Advance(a), UNCHANGED <<hosts, jobs, config, exporter, kibanaLink, lock>>,
         Head(proc[a].todo) \notin Changing \cup {"load", "parse", "loadJobs", "draft", "confirmHost", "fetch", "plan"}
           \/ (Head(proc[a].todo) = "fetch" /\ proc[a].op # "settings"),
         Head(proc[a].todo) = "may" => CollectHosts(hosts) = {},
         proc[a].op = "settings" /\ Head(proc[a].todo) = "check" => ViewedFrom(proc[a].name)
  PROVE  Conduct'
<1> DEFINE p == proc[a]
           q == Rest(a)
<1>1. CommandInv(p) /\ Shaped(p) /\ Head(p.todo) \notin Changing
  BY DEF Conduct, ProcInv, CommandInv, Changing, ConfigSteps
<1>2. GoTo(a, q)
  BY DEF Advance
<1>3. Shaped(q) /\ q.todo = Tail(p.todo) /\ Fields(q, p)
  BY <1>1, WithTodo DEF Rest
<1> HIDE DEF q
<1>4. ~Unplanned(p)
  BY DEF Unplanned
<1>5. q.todo # <<>> => CommandInv(q)
  <2>1. ASSUME q.todo # <<>> PROVE CommandInv(q)
    <3>1. Head(p.todo) \notin {"load", "parse", "loadJobs", "acquire", "draft", "confirmHost"} /\ (p.op = "settings" => Head(p.todo) # "fetch")
      BY <1>1 DEF Changing
    <3>2. QED BY <1>1, <1>3, <1>4, <2>1, <3>1, NextCommand DEF Fields
  <2>2. QED BY <2>1
<1>6. Alone(a) => Learnt(p, q)
  BY <1>3 DEF Learnt, Fields
<1>7. QED BY <1>1, <1>2, <1>3, <1>4, <1>5, <1>6, QuietStep DEF Fields

----------------------------------------------------------------------------
(* The steps that read, ask or decide                                         *)

\* The command of a running actor.
LEMMA HereIs ==
  ASSUME Conduct, NEW a \in Actors, Running(a)
  PROVE  CommandInv(proc[a]) /\ Shaped(proc[a]) /\ Head(proc[a].todo) \in StepsOf(proc[a].op) /\ proc[a].op \in WebOps \cup CliOps
BY HeadsLive DEF Conduct, ProcInv, CommandInv

\* One lemma for each step: the commands stay as they should be.
LEMMA ParseStep == ASSUME TypeOK, Conduct, NEW a \in Actors, Parse(a) PROVE Conduct'
<1> DEFINE p == proc[a]
           r == Rest(a)
           q == [r EXCEPT !.saw = hosts, !.mem = IF p.op \in {"host", "cluster", "delcluster"} THEN active ELSE @]
<1>1. CommandInv(p) /\ Shaped(p) /\ Running(a) /\ Head(p.todo) = "parse"
  BY HereIs DEF Parse, AtStep
<1>3. GoTo(a, q) /\ UNCHANGED <<hosts, jobs, config, exporter, kibanaLink, lock>>
  BY DEF Parse, files, server
<1>r. Shaped(r) /\ r.todo = Tail(p.todo) /\ Fields(r, p)
  BY <1>1, WithTodo DEF Rest
<1> HIDE DEF p, r
<1>2. /\ Shaped(q) /\ q.todo = Tail(p.todo) /\ q.op = p.op /\ q.name = p.name /\ q.wf = p.wf /\ q.host = p.host /\ q.cfg = p.cfg
      /\ q.seen = p.seen /\ q.got = p.got /\ q.target = p.target /\ q.with = p.with /\ q.before = p.before
      /\ q.saw = hosts /\ (p.op \in {"host", "cluster", "delcluster"} => q.mem = active)
  <2> DEFINE v == IF p.op \in {"host", "cluster", "delcluster"} THEN active ELSE r.mem
  <2>1. q = [r EXCEPT !.saw = hosts, !.mem = v]
    OBVIOUS
  <2>2. p.op \in {"host", "cluster", "delcluster"} => v = active
    OBVIOUS
  <2> HIDE DEF v, q
  <2>3. QED BY <1>r, <2>1, <2>2 DEF Shaped, Fields
<1> HIDE DEF q
<1>4. ~Unplanned(p) /\ IsHosts(hosts) /\ active \in Names \cup {None}
  BY <1>1 DEF Unplanned, TypeOK
<1>5. q.todo # <<>> => CommandInv(q)
  BY <1>1, <1>2, <1>4, NextCommand
<1>6. Learnt(p, q)
  BY <1>1, <1>2 DEF Learnt
<1>7. "parse" \notin Changing
  BY DEF Changing, ConfigSteps
<1>8. QED BY <1>1, <1>2, <1>3, <1>4, <1>5, <1>6, <1>7, QuietStep DEF p

\* Branches that end the command.
LEMMA Refusal ==
  ASSUME Conduct, NEW a \in Actors, Running(a), NEW r, End(a, r), UNCHANGED <<hosts, jobs, config, lock>>,
         Head(proc[a].todo) \notin {"release", "undefer", "load"}
  PROVE  Conduct'
BY Refuses

LEMMA PlainSteps ==
  ASSUME Conduct, NEW a \in Actors,
         Active(a) \/ Create(a) \/ Connect(a) \/ Wait(a) \/ Confirm(a) \/ ConfirmAny(a) \/ Absent(a) \/ Final(a)
  PROVE  Conduct'
<1> DEFINE h == Head(proc[a].todo)
<1>1. /\ Running(a) /\ UNCHANGED <<hosts, jobs, config, exporter, kibanaLink, lock>>
      /\ h \in {"active", "create", "connect", "wait", "confirm", "confirmAny", "absent", "final"}
      /\ Advance(a) \/ End(a, "failed")
  BY DEF Active, Create, Connect, Wait, Confirm, ConfirmAny, Absent, Final, AtStep, Decide, files, server, Fail
<1>2. /\ h \notin Changing \cup {"load", "parse", "loadJobs", "draft", "confirmHost", "fetch", "plan", "may", "check"}
      /\ h \notin {"release", "undefer", "load"}
  BY <1>1 DEF Changing, ConfigSteps
<1> HIDE DEF h
<1>3. CASE Advance(a)
  BY <1>1, <1>2, <1>3, Advances DEF h
<1>4. CASE End(a, "failed")
  BY <1>1, <1>2, <1>4, Refusal DEF h
<1>5. QED BY <1>1, <1>3, <1>4

LEMMA MayStep == ASSUME Conduct, NEW a \in Actors, May(a) PROVE Conduct'
<1>1. /\ Running(a) /\ UNCHANGED <<hosts, jobs, config, exporter, kibanaLink, lock>> /\ Head(proc[a].todo) = "may"
      /\ (MayDefer(Ready) /\ Advance(a)) \/ End(a, "failed")
  BY DEF May, AtStep, Decide, files, server, Fail
<1>2. CASE MayDefer(Ready) /\ Advance(a)
  <2>1. CollectHosts(hosts) = {}
    BY <1>2 DEF MayDefer, Ready, InspectOnboarding
  <2>2. "may" \notin Changing
    BY DEF Changing, ConfigSteps
  <2>3. QED BY <1>1, <1>2, <2>1, <2>2, Advances
<1>3. CASE End(a, "failed")
  BY <1>1, <1>3, Refusal
<1>4. QED BY <1>1, <1>2, <1>3

LEMMA LoadJobsStep == ASSUME TypeOK, Conduct, NEW a \in Actors, LoadJobs(a) PROVE Conduct'
<1> DEFINE p == proc[a]
           r == Rest(a)
           q == [r EXCEPT !.seen = jobs]
<1>1. CommandInv(p) /\ Shaped(p) /\ Running(a) /\ Head(p.todo) = "loadJobs"
  BY HereIs DEF LoadJobs, AtStep
<1>2. End(a, "failed") \/ GoTo(a, q)
  BY DEF LoadJobs, Fail
<1>3. UNCHANGED <<hosts, jobs, config, exporter, kibanaLink, lock>>
  BY DEF LoadJobs, files, server
<1>4. Shaped(r) /\ r.todo = Tail(p.todo) /\ Fields(r, p)
  BY <1>1, WithTodo DEF Rest
<1> HIDE DEF p, r
<1>5. /\ Shaped(q) /\ q.todo = Tail(p.todo) /\ q.op = p.op /\ q.name = p.name /\ q.wf = p.wf /\ q.host = p.host /\ q.cfg = p.cfg
      /\ q.saw = p.saw /\ q.got = p.got /\ q.target = p.target /\ q.mem = p.mem /\ q.with = p.with /\ q.before = p.before
      /\ q.seen = jobs
  BY <1>4 DEF Shaped, Fields
<1> HIDE DEF q
<1>6. ~Unplanned(p) /\ IsJobs(jobs) /\ "loadJobs" \notin Changing
  BY <1>1 DEF Unplanned, TypeOK, Changing, ConfigSteps
<1>7. q.todo # <<>> => CommandInv(q)
  BY <1>1, <1>5, <1>6, NextCommand
<1>8. Learnt(p, q)
  BY <1>1, <1>5 DEF Learnt
<1>9. QED BY <1>1, <1>2, <1>3, <1>5, <1>6, <1>7, <1>8, QuietStep, Refusal DEF p

LEMMA ConfirmHostStep == ASSUME Conduct, NEW a \in Actors, ConfirmHost(a) PROVE Conduct'
<1> DEFINE p == proc[a]
           r == Rest(a)
           n == p.name
           w == IF n \in DOMAIN hosts THEN "replace" ELSE "add"
           q == [r EXCEPT !.target = n, !.how = w]
<1>1. CommandInv(p) /\ Shaped(p) /\ Running(a) /\ Head(p.todo) = "confirmHost" /\ Head(p.todo) \in StepsOf(p.op)
  BY HereIs DEF ConfirmHost, AtStep
<1>2. End(a, "failed") \/ GoTo(a, q)
  BY DEF ConfirmHost, Fail
<1>3. UNCHANGED <<hosts, jobs, config, exporter, kibanaLink, lock>>
  BY DEF ConfirmHost, Decide, files, server
<1>4. Shaped(r) /\ r.todo = Tail(p.todo) /\ Fields(r, p)
  BY <1>1, WithTodo DEF Rest
<1> HIDE DEF p, r, w, n
<1>5. /\ Shaped(q) /\ q.todo = Tail(p.todo) /\ q.op = p.op /\ q.name = p.name /\ q.wf = p.wf /\ q.host = p.host /\ q.cfg = p.cfg
      /\ q.saw = p.saw /\ q.got = p.got /\ q.seen = p.seen /\ q.mem = p.mem /\ q.with = p.with /\ q.before = p.before
      /\ q.target = n
  <2>1. q = [r EXCEPT !.target = n, !.how = w]
    OBVIOUS
  <2> HIDE DEF q
  <2>2. Shaped(q) /\ q.target = n /\ q.todo = r.todo /\ q.op = r.op /\ q.name = r.name /\ q.wf = r.wf /\ q.host = r.host
        /\ q.cfg = r.cfg /\ q.saw = r.saw /\ q.got = r.got /\ q.seen = r.seen /\ q.mem = r.mem /\ q.with = r.with
        /\ q.before = r.before
    BY <1>4, <2>1 DEF Shaped
  <2>3. QED BY <1>4, <2>2 DEF Fields
<1> HIDE DEF q
<1>6. ~Unplanned(p) /\ n \in Names /\ "confirmHost" \notin Changing
  <2>1. p.op = "collection"
    BY <1>1 DEF StepsOf, CommandInv, WebOps, CliOps
  <2>2. QED BY <1>1, <2>1, NamesAssumption DEF Unplanned, CommandInv, Arguments, Changing, ConfigSteps, n
<1>7. q.todo # <<>> => CommandInv(q)
  BY <1>1, <1>5, <1>6, NextCommand
<1>8. Learnt(p, q)
  BY <1>1, <1>5 DEF Learnt
<1>9. QED BY <1>1, <1>2, <1>3, <1>5, <1>6, <1>7, <1>8, QuietStep, Refusal DEF p

LEMMA LoadStep == ASSUME TypeOK, Conduct, NEW a \in Actors, Load(a) PROVE Conduct'
<1> DEFINE p == proc[a]
           r == Rest(a)
           q == [r EXCEPT !.cfg = config]
           s == [q EXCEPT !.todo = Tail(q.todo)]
<1>1. CommandInv(p) /\ Shaped(p) /\ Running(a) /\ Head(p.todo) = "load" /\ p.op \in WebOps \cup CliOps
  BY HereIs DEF Load, AtStep
<1>2. IF Len(q.todo) > 0 /\ Head(q.todo) = "undefer" /\ ~config.deferred THEN GoTo(a, s) ELSE GoTo(a, q)
  BY DEF Load
<1>3. UNCHANGED <<hosts, jobs, config, exporter, kibanaLink, lock>>
  BY DEF Load, files, server
<1>4. Shaped(r) /\ r.todo = Tail(p.todo) /\ Fields(r, p)
  BY <1>1, WithTodo DEF Rest
<1> HIDE DEF p, r
<1>5. /\ Shaped(q) /\ q.todo = Tail(p.todo) /\ q.op = p.op /\ q.name = p.name /\ q.wf = p.wf /\ q.host = p.host /\ q.cfg = config
      /\ q.saw = p.saw /\ q.got = p.got /\ q.target = p.target /\ q.mem = p.mem /\ q.with = p.with /\ q.before = p.before
      /\ q.seen = p.seen
  BY <1>4 DEF Shaped, Fields
<1> HIDE DEF q
<1>6. IsConfig(config) /\ "load" \notin Changing
  BY DEF TypeOK, Changing, ConfigSteps
<1>7. q.todo # <<>> => CommandInv(q)
  <2>1. CASE ~Unplanned(p)
    BY <1>1, <1>5, <1>6, <2>1, NextCommand
  <2>2. CASE Unplanned(p)
    <3>1. p.op = "init" /\ p.todo = <<"load", "plan">> /\ q.todo = <<"plan">>
      <4>1. Head(<<"plan">>) # "load" /\ Tail(<<"load", "plan">>) = <<"plan">>
        OBVIOUS
      <4>2. p.op = "init" /\ p.todo \in {<<"load", "plan">>, <<"plan">>}
        BY <2>2 DEF Unplanned
      <4>3. p.todo = <<"load", "plan">>
        BY <1>1, <4>1, <4>2
      <4>4. QED BY <1>5, <4>1, <4>2, <4>3
    <3>2. OnCourse("init", <<"plan">>)
      BY DEF OnCourse, Ending, Steps
    <3>3. Arguments(q) /\ Knows(q)
      BY <1>5, <3>1 DEF Arguments, Unplanned, Knows, UsesConfig, UsesHosts, ConfigSteps
    <3>4. QED BY <1>1, <1>5, <3>1, <3>2, <3>3 DEF CommandInv
  <2>3. QED BY <2>1, <2>2
<1>8. Learnt(p, q)
  BY <1>1, <1>5 DEF Learnt
<1>9. CASE GoTo(a, q)
  BY <1>1, <1>3, <1>5, <1>6, <1>7, <1>8, <1>9, QuietStep DEF p
<1>10. CASE Len(q.todo) > 0 /\ Head(q.todo) = "undefer" /\ ~config.deferred /\ GoTo(a, s)
  <2>1. q.todo # <<>> /\ CommandInv(q)
    <3>1. Len(<<>>) = 0
      OBVIOUS
    <3>2. q.todo # <<>>
      BY <1>10, <3>1
    <3>3. QED BY <1>7, <3>2
  <2>2. Shaped(s) /\ s.todo = Tail(q.todo) /\ Fields(s, q)
    BY <1>5, WithTodo
  <2> HIDE DEF s
  <2>3. s.todo # <<>> => CommandInv(s)
    <3>1. ~Unplanned(q)
      BY <1>10 DEF Unplanned
    <3>2. QED BY <1>10, <2>1, <2>2, <3>1, NextCommand DEF Fields
  <2>4. ~AtStep(a, "release") /\ ~(config.deferred /\ CollectHosts(hosts) # {})'
    BY <1>1, <1>3, <1>10 DEF AtStep, p
  <2>5. CASE s.todo = <<>>
    <3>1. End(a, "ok")
      BY <1>10, <2>5 DEF GoTo
    <3>2. QED BY <1>1, <1>3, <2>4, <3>1, Stopped DEF End, Becomes, Sole
  <2>6. CASE s.todo # <<>>
    <3>1. Becomes(a, s) /\ CommandInv(s)
      BY <1>10, <2>3, <2>6 DEF GoTo
    <3>2. Head(s.todo) \in {"active", "collectJob"} /\ (Head(s.todo) = "collectJob" => s.op = "init")
      <4>1. Head(s.todo) \in Succ(q.op, "undefer") /\ q.op \in WebOps \cup CliOps
        BY <1>1, <1>5, <1>10, <2>1, <2>2, <2>6, CourseTail DEF CommandInv
      <4>2. QED BY <4>1, <2>2 DEF Succ, StepsOf, Fields
    <3>3. AloneKnows(s)
      <4>1. s.op \notin {"output", "provision", "settings", "defer", "default"}
        <5>1. Head(s.todo) \in StepsOf(s.op) /\ s.op \in WebOps \cup CliOps
          BY <3>1, HeadsLive DEF CommandInv
        <5>2. QED BY <3>2, <5>1 DEF StepsOf
      <4>2. Head(s.todo) \notin FreshConfig(s.op) /\ Head(s.todo) \notin {"write", "source", "load", "defer"}
        BY <3>2, <4>1 DEF FreshConfig, ConfigSteps
      <4>3. Untouched(s)
        BY <3>2, <4>1 DEF Untouched, IsPlanning, Planning, Early
      <4>4. Switches(s)
        BY <4>1 DEF Switches
      <4>5. QED BY <4>1, <4>2, <4>3, <4>4 DEF AloneKnows
    <3>4. proc'[a] = s /\ s.op = p.op /\ s.with = p.with
      BY <1>5, <2>2, <3>1 DEF Becomes, Noticed, Fields
    <3>5. AloneKnows(proc[a])'
      BY <1>3, <3>3, <3>4, KnowsKept
    <3>6. QED BY <1>1, <1>3, <2>4, <3>1, <3>2, <3>4, <3>5, Went DEF p
  <2>7. QED BY <2>5, <2>6
<1>11. QED BY <1>2, <1>9, <1>10

LEMMA DraftStep == ASSUME TypeOK, Conduct, NEW a \in Actors, Draft(a) PROVE Conduct'
<1> DEFINE p == proc[a]
           r == Rest(a)
           e == IF world.env # "none" THEN "env" ELSE p.cfg.output
           g == [host |-> p.name, export |-> e]
           q == [r EXCEPT !.got = g]
<1>1. CommandInv(p) /\ Shaped(p) /\ Running(a) /\ Head(p.todo) = "draft" /\ Head(p.todo) \in StepsOf(p.op)
  BY HereIs DEF Draft, AtStep
<1>2. End(a, "failed") \/ (~(world.env = "none" /\ p.cfg.output = None) /\ GoTo(a, q))
  BY DEF Draft, Fail
<1>3. UNCHANGED <<hosts, jobs, config, exporter, kibanaLink, lock>>
  BY DEF Draft, Decide, files, server
<1>4. Shaped(r) /\ r.todo = Tail(p.todo) /\ Fields(r, p)
  BY <1>1, WithTodo DEF Rest
<1>5. ~(world.env = "none" /\ p.cfg.output = None) => e \in Exports
  <2>1. IsConfig(p.cfg)
    BY <1>1 DEF CommandInv, Knows, UsesConfig
  <2>2. QED BY <2>1 DEF IsConfig, Exports
<1>6. ~Unplanned(p) /\ "draft" \notin Changing /\ p.op # "settings"
  BY <1>1 DEF Unplanned, Changing, ConfigSteps, StepsOf
<1>7. g.export = e
  OBVIOUS
<1> HIDE DEF p, r, e, g
<1>8. /\ Shaped(q) /\ q.todo = Tail(p.todo) /\ q.op = p.op /\ q.name = p.name /\ q.wf = p.wf /\ q.host = p.host /\ q.cfg = p.cfg
      /\ q.saw = p.saw /\ q.seen = p.seen /\ q.target = p.target /\ q.mem = p.mem /\ q.with = p.with /\ q.before = p.before
      /\ q.got = g
  BY <1>4 DEF Shaped, Fields
<1> HIDE DEF q
<1>9. e \in Exports /\ q.todo # <<>> => CommandInv(q)
  BY <1>1, <1>6, <1>7, <1>8, NextCommand
<1>10. Learnt(p, q)
  BY <1>1, <1>6, <1>8 DEF Learnt
<1>11. QED BY <1>1, <1>2, <1>3, <1>5, <1>6, <1>8, <1>9, <1>10, QuietStep, Refusal DEF p

LEMMA FetchStep == ASSUME TypeOK, Conduct, NEW a \in Actors, Fetch(a) PROVE Conduct'
<1> DEFINE p == proc[a]
           n == p.name
           r == Rest(a)
           u == [r EXCEPT !.got = <<n, hosts[n].url>>]
           h == [hosts[n] EXCEPT !.roles = p.host.roles]
           v == [r EXCEPT !.host = h]
<1>1. CommandInv(p) /\ Shaped(p) /\ Running(a) /\ Head(p.todo) = "fetch" /\ Head(p.todo) \in StepsOf(p.op) /\ p.op \in WebOps \cup CliOps
  BY HereIs DEF Fetch, AtStep
<1>2. p.op \in {"default", "settings", "update"}
  BY <1>1 DEF StepsOf, WebOps, CliOps
<1>3. UNCHANGED <<hosts, jobs, config, exporter, kibanaLink, lock>>
  BY DEF Fetch, Decide, files, server
<1>4. \/ End(a, "failed")
      \/ n \in DOMAIN hosts /\ p.op = "default" /\ Advance(a)
      \/ n \in DOMAIN hosts /\ p.op = "settings" /\ GoTo(a, u)
      \/ n \in DOMAIN hosts /\ p.op = "update" /\ GoTo(a, v)
  <2>1. CASE n \notin DOMAIN hosts
    BY <2>1 DEF Fetch, Fail
  <2>2. CASE n \in DOMAIN hosts /\ p.op = "default"
    BY <2>2 DEF Fetch, Fail
  <2>3. CASE n \in DOMAIN hosts /\ p.op = "settings"
    BY <2>3 DEF Fetch
  <2>4. CASE n \in DOMAIN hosts /\ p.op = "update"
    BY <2>4 DEF Fetch
  <2>5. QED BY <1>2, <2>1, <2>2, <2>3, <2>4
<1>5. Shaped(r) /\ r.todo = Tail(p.todo) /\ Fields(r, p)
  BY <1>1, WithTodo DEF Rest
<1>6. ~Unplanned(p) /\ "fetch" \notin Changing
  BY <1>1 DEF Unplanned, Changing, ConfigSteps
<1>7. n \in DOMAIN hosts => n \in Names /\ hosts[n] \in HostRecords
  BY DEF TypeOK, IsHosts
<1>8. CASE End(a, "failed")
  BY <1>1, <1>3, <1>8, Refusal
<1>9. CASE n \in DOMAIN hosts /\ p.op = "default" /\ Advance(a)
  BY <1>1, <1>3, <1>6, <1>9, Advances
<1>10. CASE n \in DOMAIN hosts /\ p.op = "settings" /\ GoTo(a, u)
  <2>1. <<n, hosts[n].url>> = Endpoint(hosts, n) /\ Endpoint(hosts, n) \in ExporterStates
    BY <1>7, <1>10 DEF Endpoint, ExporterStates, HostRecords
  <2>2. u = [r EXCEPT !.got = Endpoint(hosts, n)]
    BY <2>1
  <2> HIDE DEF p, r, u, n
  <2>3. /\ Shaped(u) /\ u.todo = Tail(p.todo) /\ u.op = p.op /\ u.name = p.name /\ u.wf = p.wf /\ u.host = p.host /\ u.cfg = p.cfg
        /\ u.saw = p.saw /\ u.seen = p.seen /\ u.target = p.target /\ u.mem = p.mem /\ u.with = p.with /\ u.before = p.before
        /\ u.got = Endpoint(hosts, n)
    BY <1>5, <2>2 DEF Shaped, Fields
  <2>4. u.todo # <<>> => CommandInv(u)
    BY <1>1, <1>6, <1>10, <2>1, <2>3, NextCommand
  <2>5. Learnt(p, u)
    BY <1>1, <2>3 DEF Learnt, n
  <2>6. QED BY <1>1, <1>3, <1>6, <1>10, <2>3, <2>4, <2>5, QuietStep DEF p
<1>11. CASE n \in DOMAIN hosts /\ p.op = "update" /\ GoTo(a, v)
  <2>1. h \in HostRecords /\ h.roles # {}
    <3>1. p.host \in HostRecords /\ p.host.roles # {} /\ hosts[n] \in HostRecords
      BY <1>1, <1>7, <1>11 DEF CommandInv, Arguments
    <3>2. QED BY <3>1 DEF HostRecords
  <2> HIDE DEF p, r, n, h
  <2>3. /\ Shaped(v) /\ v.todo = Tail(p.todo) /\ v.op = p.op /\ v.name = p.name /\ v.wf = p.wf /\ v.host = h /\ v.cfg = p.cfg
        /\ v.saw = p.saw /\ v.seen = p.seen /\ v.target = p.target /\ v.mem = p.mem /\ v.with = p.with /\ v.before = p.before
        /\ v.got = p.got
    BY <1>5 DEF Shaped, Fields
  <2> HIDE DEF v
  <2>4. v.todo # <<>> => CommandInv(v)
    BY <1>1, <1>6, <1>11, <2>1, <2>3, NextCommand
  <2>5. Learnt(p, v)
    BY <1>1, <1>11, <2>3 DEF Learnt
  <2>6. QED BY <1>1, <1>3, <1>6, <1>11, <2>3, <2>4, <2>5, QuietStep DEF p
<1>12. QED BY <1>4, <1>8, <1>9, <1>10, <1>11

LEMMA RowStep == ASSUME Conduct, NEW a \in Actors, Row(a) PROVE Conduct'
<1> DEFINE p == proc[a]
           rows == IF p.op = "delhost" THEN HostRows(hosts) ELSE ClusterRows(hosts)
           r == Rest(a)
           t == rows[p.mem]
           q == [r EXCEPT !.target = t]
<1>1. CommandInv(p) /\ Shaped(p) /\ Running(a) /\ Head(p.todo) = "row" /\ Head(p.todo) \in StepsOf(p.op) /\ p.op \in WebOps \cup CliOps
  BY HereIs DEF Row, AtStep
<1>2. End(a, "ok") \/ GoTo(a, q)
  BY DEF Row
<1>3. UNCHANGED <<hosts, jobs, config, exporter, kibanaLink, lock>>
  BY DEF Row, files, server
<1>4. Shaped(r) /\ r.todo = Tail(p.todo) /\ Fields(r, p)
  BY <1>1, WithTodo DEF Rest
<1> HIDE DEF p, r, t, rows
<1>5. /\ Shaped(q) /\ q.todo = Tail(p.todo) /\ q.op = p.op /\ q.name = p.name /\ q.wf = p.wf /\ q.host = p.host /\ q.cfg = p.cfg
      /\ q.saw = p.saw /\ q.seen = p.seen /\ q.got = p.got /\ q.mem = p.mem /\ q.with = p.with /\ q.before = p.before
  BY <1>4 DEF Shaped, Fields
<1> HIDE DEF q
<1>6. ~Unplanned(p) /\ "row" \notin Changing
  BY <1>1 DEF Unplanned, Changing, ConfigSteps
<1>7. q.todo # <<>> => CommandInv(q)
  BY <1>1, <1>5, <1>6, NextCommand
<1>8. Learnt(p, q)
  BY <1>1, <1>5 DEF Learnt
<1>9. QED BY <1>1, <1>2, <1>3, <1>5, <1>6, <1>7, <1>8, QuietStep, Refusal DEF p

LEMMA CheckStep == ASSUME TypeOK, Conduct, NEW a \in Actors, Check(a) PROVE Conduct'
<1> DEFINE p == proc[a]
           n == p.name
           t == <<"stamp", "exporter">>
           q == [p EXCEPT !.got = exporter, !.todo = t]
<1>1. CommandInv(p) /\ Shaped(p) /\ Running(a) /\ Head(p.todo) = "check" /\ Head(p.todo) \in StepsOf(p.op) /\ p.op \in WebOps \cup CliOps
  BY HereIs DEF Check, AtStep
<1>2. p.op = "settings"
  BY <1>1 DEF StepsOf, WebOps, CliOps
<1>3. UNCHANGED <<hosts, jobs, config, exporter, kibanaLink, lock>>
  BY DEF Check, Decide, files, server
<1>4. \/ End(a, "failed")
      \/ GoTo(a, q)
      \/ Has(hosts, n, "send") /\ hosts[n].viewer # None /\ Has(hosts, hosts[n].viewer, "view") /\ Advance(a)
  BY DEF Check, Fail
<1>5. CASE End(a, "failed")
  BY <1>1, <1>3, <1>5, Refusal
<1>6. CASE Has(hosts, n, "send") /\ hosts[n].viewer # None /\ Has(hosts, hosts[n].viewer, "view") /\ Advance(a)
  <2>1. ViewedFrom(n)
    BY <1>6 DEF ViewedFrom, Has
  <2>2. "check" \notin Changing
    BY DEF Changing, ConfigSteps
  <2>3. QED BY <1>1, <1>3, <1>6, <2>1, <2>2, Advances
<1>7. CASE GoTo(a, q)
  <2>1. OnCourse("settings", t) /\ t # <<>> /\ Head(t) = "stamp"
    <3>1. t \in Seq(Steps) /\ Len(t) = 2 /\ t[1] = "stamp" /\ t[2] = "exporter"
      BY DEF Steps, ConfigSteps
    <3>2. "exporter" \in Ending("settings") /\ "exporter" \in Succ("settings", "stamp")
      BY DEF Ending, Succ, StepsOf
    <3>3. \A i \in 1 .. 2 : i = 1 \/ i = 2
      OBVIOUS
    <3>4. QED BY <3>1, <3>2, <3>3 DEF OnCourse
  <2> HIDE DEF t
  <2>2. /\ Shaped(q) /\ q.todo = t /\ q.op = p.op /\ q.name = p.name /\ q.cfg = p.cfg /\ q.got = exporter
        /\ q.with = p.with /\ q.before = p.before
    <3> DEFINE r == [p EXCEPT !.got = exporter]
    <3> HIDE DEF p, t
    <3>1. /\ Shaped(r) /\ r.op = p.op /\ r.name = p.name /\ r.cfg = p.cfg /\ r.got = exporter
          /\ r.with = p.with /\ r.before = p.before
      BY <1>1 DEF Shaped
    <3>2. q = [r EXCEPT !.todo = t]
      OBVIOUS
    <3> HIDE DEF r
    <3>3. Shaped(q) /\ q.todo = t /\ Fields(q, r)
      BY <3>1, <3>2, WithTodo
    <3> HIDE DEF q
    <3>4. QED BY <3>1, <3>3 DEF Fields
  <2> HIDE DEF q
  <2>3. IsConfig(p.cfg) /\ exporter \in ExporterStates /\ p.name \in Clusters
    BY <1>1, <1>2 DEF CommandInv, Knows, Arguments, UsesConfig, TypeOK, ExporterStates
  <2>4. CommandInv(q)
    <3>1. Arguments(q)
      BY <1>2, <2>2, <2>3 DEF Arguments, Unplanned
    <3>2. Knows(q)
      BY <1>2, <2>1, <2>2, <2>3 DEF Knows, UsesHosts
    <3>3. QED BY <1>1, <1>2, <2>1, <2>2, <3>1, <3>2 DEF CommandInv
  <2>5. Becomes(a, q) /\ proc'[a] = q
    BY <1>7, <2>1, <2>2 DEF GoTo, Becomes, Noticed
  <2>6. Alone(a) => AloneKnows(q)
    <3>1. ASSUME Alone(a) PROVE q.cfg = config /\ Unchanged(p)
      <4>1. AloneKnows(p)
        BY <3>1 DEF Conduct, AloneInv
      <4>2. "check" \in FreshConfig("settings") /\ "check" \in Early("settings")
        BY DEF FreshConfig, Early
      <4>3. QED BY <1>1, <1>2, <2>2, <4>1, <4>2 DEF AloneKnows, Untouched
    <3>2. ASSUME Alone(a) PROVE Untouched(q) /\ Switches(q)
      BY <1>2, <2>1, <2>2, <3>1, <3>2 DEF Untouched, Switches, Unchanged
    <3>3. QED BY <1>2, <2>1, <2>2, <3>1, <3>2 DEF AloneKnows
  <2>7. Alone(a) => AloneKnows(p)'
    BY <1>3, <2>5, <2>6, KnowsKept
  <2>8. Sole(a) => ~(config.deferred /\ CollectHosts(hosts) # {})'
    <3>1. Sole(a) /\ config.deferred /\ CollectHosts(hosts) # {} => Clears(p)
      BY DEF Conduct, DeferralInv, Sole, Overlap
    <3>2. ~Clears(p)
      BY <1>1 DEF Clears
    <3>3. QED BY <1>3, <3>1, <3>2 DEF CollectHosts, Has
  <2>9. ~AtStep(a, "release")
    BY <1>1 DEF AtStep
  <2>10. QED BY <1>1, <1>3, <2>1, <2>2, <2>4, <2>5, <2>7, <2>8, <2>9, Went
<1>8. QED BY <1>4, <1>5, <1>6, <1>7

\* The second half of the program of the default job.
LEMMA AddJobCourse == OnCourse("default", AddJob) /\ AddJob # <<>> /\ Head(AddJob) = "loadJobs"
<1>1. AddJob \in Seq(Steps)
  BY DEF AddJob, Steps, ConfigSteps
<1>2. Len(AddJob) = 4 /\ AddJob[1] = "loadJobs" /\ AddJob[2] = "saveJobs" /\ AddJob[3] = "load" /\ AddJob[4] = "default"
  BY DEF AddJob
<1>3. ASSUME NEW i \in 1 .. Len(AddJob)
      PROVE  /\ i = Len(AddJob) => AddJob[i] \in Ending("default")
             /\ i < Len(AddJob) => AddJob[i + 1] \in Succ("default", AddJob[i])
             /\ i < Len(AddJob) /\ AddJob[i + 1] \in {"load", "parse"} =>
                  i + 1 < Len(AddJob) /\ AddJob[i + 2] \in After("default", AddJob[i])
  <2>1. i \in {1, 2, 3, 4}
    BY <1>2
  <2>2. QED BY <2>1, <1>2 DEF Succ, StepsOf, After, Ending
<1>4. AddJob # <<>> /\ Head(AddJob) = "loadJobs"
  BY DEF AddJob
<1>5. QED BY <1>1, <1>2, <1>3, <1>4 DEF OnCourse

LEMMA ConfirmJobStep == ASSUME TypeOK, Conduct, NEW a \in Actors, ConfirmJob(a) PROVE Conduct'
<1> DEFINE p == proc[a]
           g == [host |-> p.name, export |-> "none"]
           q == [p EXCEPT !.got = g, !.todo = AddJob]
<1>1. CommandInv(p) /\ Shaped(p) /\ Running(a) /\ Head(p.todo) = "confirmJob" /\ Head(p.todo) \in StepsOf(p.op) /\ p.op \in WebOps \cup CliOps
  BY HereIs DEF ConfirmJob, AtStep
<1>2. p.op = "default"
  BY <1>1 DEF StepsOf, WebOps, CliOps
<1>3. UNCHANGED <<hosts, jobs, config, exporter, kibanaLink, lock>>
  BY DEF ConfirmJob, Decide, files, server
<1>4. End(a, "failed") \/ GoTo(a, q) \/ Advance(a)
  BY DEF ConfirmJob, Fail
<1>5. CASE End(a, "failed")
  BY <1>1, <1>3, <1>5, Refusal
<1>6. CASE Advance(a)
  <2>1. "confirmJob" \notin Changing
    BY DEF Changing, ConfigSteps
  <2>2. QED BY <1>1, <1>2, <1>3, <1>6, <2>1, Advances
<1>7. CASE GoTo(a, q)
  <2>1. g.export = "none" /\ "none" \in Exports
    BY DEF Exports
  <2> HIDE DEF g
  <2>2. /\ Shaped(q) /\ q.todo = AddJob /\ q.op = p.op /\ q.name = p.name /\ q.got = g
        /\ q.with = p.with /\ q.before = p.before
    <3> DEFINE r == [p EXCEPT !.got = g]
    <3> HIDE DEF p
    <3>1. /\ Shaped(r) /\ r.op = p.op /\ r.name = p.name /\ r.cfg = p.cfg /\ r.got = g
          /\ r.with = p.with /\ r.before = p.before
      BY <1>1 DEF Shaped
    <3>2. q = [r EXCEPT !.todo = AddJob]
      OBVIOUS
    <3> HIDE DEF r
    <3>3. Shaped(q) /\ q.todo = AddJob /\ Fields(q, r)
      BY <3>1, <3>2, WithTodo
    <3> HIDE DEF q
    <3>4. QED BY <3>1, <3>3 DEF Fields
  <2> HIDE DEF q
  <2>3. CommandInv(q)
    <3>1. p.name \in Clusters
      BY <1>1, <1>2 DEF CommandInv, Arguments
    <3>2. Arguments(q)
      BY <1>2, <2>2, <3>1 DEF Arguments, Unplanned
    <3>3. Knows(q)
      BY <1>2, <2>1, <2>2, AddJobCourse DEF Knows, UsesHosts, UsesConfig, ConfigSteps
    <3>4. QED BY <1>1, <1>2, <2>2, <3>2, <3>3, AddJobCourse DEF CommandInv
  <2>4. Becomes(a, q) /\ proc'[a] = q
    BY <1>7, <2>2, AddJobCourse DEF GoTo, Becomes, Noticed
  <2>5. Alone(a) => AloneKnows(q)
    <3>1. ASSUME Alone(a) PROVE Untouched(q)
      BY <1>2, <2>2, <3>1 DEF Untouched, Conduct, AloneInv, AloneKnows
    <3>2. "loadJobs" \notin FreshConfig("default")
      BY DEF FreshConfig, ConfigSteps
    <3>3. QED BY <1>2, <2>2, <3>1, <3>2, AddJobCourse DEF AloneKnows, Switches
  <2>6. Alone(a) => AloneKnows(p)'
    BY <1>3, <2>4, <2>5, KnowsKept
  <2>7. Sole(a) => ~(config.deferred /\ CollectHosts(hosts) # {})'
    <3>1. Sole(a) /\ config.deferred /\ CollectHosts(hosts) # {} => Clears(p)
      BY DEF Conduct, DeferralInv, Sole, Overlap
    <3>2. ~Clears(p)
      BY <1>1 DEF Clears
    <3>3. QED BY <1>3, <3>1, <3>2 DEF CollectHosts, Has
  <2>8. ~AtStep(a, "release")
    BY <1>1 DEF AtStep
  <2>9. QED BY <1>1, <1>3, <2>2, <2>3, <2>4, <2>6, <2>7, <2>8, AddJobCourse, Went
<1>8. QED BY <1>4, <1>5, <1>6, <1>7

----------------------------------------------------------------------------
(* The steps that write                                                       *)

\* The next state of a command whose step changes nothing but its program.
LEMMA NextIs ==
  ASSUME Conduct, NEW a \in Actors, Running(a)
  PROVE  LET p == proc[a] q == Rest(a) IN
         /\ Shaped(q) /\ q.todo = Tail(p.todo) /\ Fields(q, p)
         /\ q.todo = <<>> => Head(p.todo) \in Ending(p.op)
         /\ q.todo # <<>> =>
              /\ OnCourse(q.op, q.todo) /\ Head(q.todo) \in Succ(p.op, Head(p.todo)) /\ Head(q.todo) \in StepsOf(p.op)
              /\ Head(q.todo) = p.todo[2] /\ (Head(q.todo) \in {"load", "parse"} => q.todo[2] \in After(p.op, Head(p.todo)))
              /\ Head(p.todo) \notin {"load", "parse", "loadJobs", "acquire", "draft", "confirmHost", "plan"}
                   /\ (p.op = "settings" => Head(p.todo) # "fetch") => CommandInv(q)
<1> DEFINE p == proc[a]
           q == Rest(a)
<1>1. CommandInv(p) /\ Shaped(p) /\ OnCourse(p.op, p.todo) /\ p.todo # <<>> /\ p.op \in WebOps \cup CliOps
  BY HereIs DEF CommandInv
<1>2. Shaped(q) /\ q.todo = Tail(p.todo) /\ Fields(q, p)
  BY <1>1, WithTodo DEF Rest
<1> HIDE DEF q, p
<1>3. /\ q.todo = <<>> => Head(p.todo) \in Ending(p.op)
      /\ q.todo # <<>> =>
           /\ OnCourse(p.op, q.todo) /\ Head(q.todo) \in Succ(p.op, Head(p.todo)) /\ Head(q.todo) = p.todo[2]
           /\ (Head(q.todo) \in {"load", "parse"} => q.todo[2] \in After(p.op, Head(p.todo)))
  BY <1>1, <1>2, CourseTail
<1>4. q.todo # <<>> => Head(q.todo) \in StepsOf(p.op)
  BY <1>1, <1>3, HeadsLive
<1>5. ASSUME q.todo # <<>>, Head(p.todo) \notin {"load", "parse", "loadJobs", "acquire", "draft", "confirmHost", "plan"},
             p.op = "settings" => Head(p.todo) # "fetch"
      PROVE  CommandInv(q)
  <2>1. ~Unplanned(p)
    BY <1>5 DEF Unplanned
  <2>2. QED BY <1>1, <1>2, <1>5, <2>1, NextCommand DEF Fields
<1>6. q.op = p.op
  BY <1>2 DEF Fields
<1>7. QED BY <1>2, <1>3, <1>4, <1>5, <1>6 DEF p, q

\* Alone, nothing was put off unless the command is about to take it back.
LEMMA SoleDefers ==
  ASSUME Conduct, NEW a \in Actors, Sole(a), config.deferred, CollectHosts(hosts) # {} PROVE Clears(proc[a])
BY DEF Conduct, DeferralInv, Sole, Overlap

LEMMA SaveJobsStep == ASSUME Conduct, NEW a \in Actors, SaveJobs(a) PROVE Conduct'
<1> DEFINE p == proc[a]
           q == Rest(a)
<1>1. /\ CommandInv(p) /\ Running(a) /\ Head(p.todo) = "saveJobs" /\ Head(p.todo) \in StepsOf(p.op) /\ p.op \in WebOps \cup CliOps
      /\ GoTo(a, q)
  BY HereIs DEF SaveJobs, AtStep, Advance
<1>2. p.op \in {"default", "init", "addjob", "dropjob"}
  BY <1>1 DEF StepsOf, WebOps, CliOps
<1>3. UNCHANGED <<hosts, config, exporter, kibanaLink, lock>> /\ (a \in Cli \/ lock = None)
  BY DEF SaveJobs, server, Free
<1>4. Sole(a) => ~(config.deferred /\ CollectHosts(hosts) # {})'
  <2>1. ~Clears(p)
    BY <1>1 DEF Clears
  <2>2. QED BY <1>3, <2>1, SoleDefers DEF CollectHosts, Has
<1>5. ~AtStep(a, "release")
  BY <1>1 DEF AtStep
<1>6. CASE q.todo = <<>>
  <2>1. End(a, "ok")
    BY <1>1, <1>6 DEF GoTo
  <2>2. QED BY <1>1, <1>3, <1>4, <1>5, <2>1, Stopped DEF End, Becomes, Sole
<1>7. CASE q.todo # <<>>
  <2>1. Becomes(a, q) /\ proc'[a] = q
    BY <1>1, <1>7 DEF GoTo, Becomes, Noticed
  <2>2. CommandInv(q) /\ Fields(q, p) /\ Head(q.todo) \in Succ(p.op, "saveJobs") /\ (Head(q.todo) \in {"load", "parse"} => q.todo[2] \in After(p.op, "saveJobs"))
    BY <1>1, <1>7, NextIs
  <2> HIDE DEF q
  <2>3. Head(q.todo) = "load" /\ p.op \in {"default", "init"} /\ q.todo[2] = "default"
    BY <1>2, <2>2 DEF Succ, StepsOf, After
  <2>4. q.op = p.op /\ q.with = p.with /\ q.before = p.before
    BY <2>2 DEF Fields
  <2>5. ASSUME Alone(a) PROVE AloneKnows(p)'
    <3>1. Untouched(p)
      BY <2>5 DEF Conduct, AloneInv, AloneKnows
    <3>2. Untouched(p)'
      BY <1>3, <2>1, <2>3, <2>4, <3>1 DEF Untouched, IsPlanning, Planning
    <3>3. Switches(p)'
      BY <2>1, <2>3, <2>4 DEF Switches
    <3>4. "load" \notin FreshConfig(p.op)
      BY <1>2 DEF FreshConfig, ConfigSteps
    <3>5. QED BY <2>1, <2>3, <2>4, <3>2, <3>3, <3>4 DEF AloneKnows
  <2>6. QED BY <1>1, <1>3, <1>4, <1>5, <2>1, <2>2, <2>3, <2>4, <2>5, Went
<1>8. QED BY <1>6, <1>7

LEMMA ExporterStep == ASSUME TypeOK, Conduct, NEW a \in Actors, Exporter(a) PROVE Conduct'
<1> DEFINE p == proc[a]
           q == Rest(a)
           s == [p EXCEPT !.todo = Tail(Tail(@))]
<1>1. /\ CommandInv(p) /\ Shaped(p) /\ Running(a) /\ Head(p.todo) = "exporter" /\ Head(p.todo) \in StepsOf(p.op)
      /\ p.op \in WebOps \cup CliOps
  BY HereIs DEF Exporter, AtStep
<1>2. p.op \in {"settings", "unlock", "defer", "output", "provision"}
  BY <1>1 DEF StepsOf, WebOps, CliOps
<1>3. UNCHANGED <<hosts, jobs, config, kibanaLink, lock>>
  BY DEF Exporter, files
<1>4. Sole(a) => ~(config.deferred /\ CollectHosts(hosts) # {})'
  <2>1. ~Clears(p)
    BY <1>1 DEF Clears
  <2>2. QED BY <1>3, <2>1, SoleDefers DEF CollectHosts, Has
<1>5. ~AtStep(a, "release")
  BY <1>1 DEF AtStep
<1>6. \/ p.op = "settings" /\ GoTo(a, q)
      \/ p.op \in {"unlock", "defer"} /\ GoTo(a, s) /\ UNCHANGED exporter
      \/ End(a, "failed")
      \/ p.op # "settings" /\ exporter' = Endpoint(hosts, SwitchTo(p)) /\ GoTo(a, q)
  BY DEF Exporter, Advance, Skip2, Fail
<1>7. CASE p.op = "settings" /\ GoTo(a, q)
  <2>1. q.todo = <<>>
    BY <1>1, <1>7, NextIs DEF Succ, StepsOf
  <2>2. End(a, "ok")
    BY <1>7, <2>1 DEF GoTo
  <2>3. QED BY <1>1, <1>3, <1>4, <1>5, <2>2, Stopped DEF End, Becomes, Sole
<1>8. CASE p.op \in {"unlock", "defer"} /\ GoTo(a, s) /\ UNCHANGED exporter
  <2>1. /\ q.todo # <<>> /\ Head(q.todo) = "kibana" /\ CommandInv(q) /\ Shaped(q) /\ q.todo = Tail(p.todo) /\ Fields(q, p)
    <3>1. q.todo # <<>>
      BY <1>1, <1>8, NextIs DEF Ending
    <3>2. QED BY <1>1, <1>8, <3>1, NextIs DEF Succ, StepsOf
  <2>2. Shaped(s) /\ s.todo = Tail(q.todo) /\ Fields(s, p)
    <3>1. s = [p EXCEPT !.todo = Tail(Tail(p.todo))]
      OBVIOUS
    <3> HIDE DEF s, q
    <3>2. QED BY <1>1, <2>1, <3>1, WithTodo
  <2> HIDE DEF s, q
  <2>3. s.todo # <<>> => /\ CommandInv(s) /\ Head(s.todo) \in Succ(p.op, "kibana")
    <3>1. ~Unplanned(q)
      BY <1>8, <2>1 DEF Unplanned, Fields
    <3>2. ASSUME s.todo # <<>> PROVE CommandInv(s)
      BY <2>1, <2>2, <3>1, <3>2, NextCommand DEF Fields
    <3>3. ASSUME s.todo # <<>> PROVE Head(s.todo) \in Succ(p.op, "kibana")
      BY <2>1, <2>2, <3>3, CourseTail DEF CommandInv, Fields
    <3>4. QED BY <3>2, <3>3
  <2>4. CASE s.todo = <<>>
    <3>1. End(a, "ok")
      BY <1>8, <2>4 DEF GoTo
    <3>2. QED BY <1>1, <1>3, <1>4, <1>5, <3>1, Stopped DEF End, Becomes, Sole
  <2>5. CASE s.todo # <<>>
    <3>1. Becomes(a, s) /\ proc'[a] = s /\ s.op = p.op /\ s.with = p.with /\ s.before = p.before
      BY <1>8, <2>2, <2>5 DEF GoTo, Becomes, Noticed, Fields
    <3>2. Head(s.todo) = "may" /\ p.op = "defer"
      BY <1>8, <2>3, <2>5 DEF Succ, StepsOf
    <3>3. ASSUME Alone(a) PROVE AloneKnows(s)
      <4>1. Unchanged(p)
        BY <1>1, <3>2, <3>3 DEF Conduct, AloneInv, AloneKnows, Untouched, Early
      <4>2. Untouched(s) /\ Switches(s)
        BY <3>1, <3>2, <4>1 DEF Untouched, Unchanged, Switches
      <4>3. "may" \notin FreshConfig("defer")
        BY DEF FreshConfig, ConfigSteps
      <4>4. QED BY <3>1, <3>2, <4>2, <4>3 DEF AloneKnows
    <3>4. Alone(a) => AloneKnows(p)'
      BY <1>3, <1>8, <3>1, <3>3, KnowsKept
    <3>5. QED BY <1>1, <1>3, <1>4, <1>5, <2>3, <2>5, <3>1, <3>2, <3>4, Went
  <2>6. QED BY <2>4, <2>5
<1>9. CASE End(a, "failed")
  BY <1>1, <1>3, <1>9, Refusal
<1>10. CASE p.op # "settings" /\ exporter' = Endpoint(hosts, SwitchTo(p)) /\ GoTo(a, q)
  <2>1. q.todo # <<>> /\ Head(q.todo) = "kibana" /\ CommandInv(q) /\ Fields(q, p)
    <3>1. q.todo # <<>>
      BY <1>1, <1>2, <1>10, NextIs DEF Ending
    <3>2. QED BY <1>1, <1>2, <1>10, <3>1, NextIs DEF Succ, StepsOf
  <2>2. Becomes(a, q) /\ proc'[a] = q
    BY <1>10, <2>1 DEF GoTo, Becomes, Noticed
  <2> HIDE DEF q
  <2>3. q.op = p.op /\ q.with = p.with /\ q.before = p.before /\ q.name = p.name /\ q.cfg = p.cfg
    BY <2>1 DEF Fields
  <2>4. ASSUME Alone(a) PROVE AloneKnows(p)'
    <3>1. Untouched(p) /\ Switches(p)
      BY <2>4 DEF Conduct, AloneInv, AloneKnows
    <3>2. Untouched(p)'
      <4>1. CASE p.op \in {"unlock", "defer"}
        <5>1. Unchanged(p)
          BY <1>1, <3>1, <4>1 DEF Untouched, Early
        <5>2. QED BY <1>3, <2>2, <2>3, <4>1, <5>1 DEF Untouched, Unchanged
      <4>2. CASE p.op \in {"output", "provision"}
        <5>1. "kibana" \notin Early(p.op)
          BY <4>2 DEF Early
        <5>2. QED BY <2>1, <2>2, <2>3, <4>2, <5>1 DEF Untouched
      <4>3. QED BY <1>2, <1>10, <4>1, <4>2
    <3>3. Switches(p)'
      <4>1. CASE p.op \in {"unlock", "defer"}
        BY <2>2, <2>3, <4>1 DEF Switches
      <4>2. CASE p.op \in {"output", "provision"}
        <5>1. HasCluster(p.name) /\ IsSelected(p.name) /\ (p.op = "provision" => p.cfg.output = p.name)
          BY <1>1, <3>1, <4>2 DEF Switches
        <5>2. SwitchTo(p) = p.name
          BY <4>2, <5>1 DEF SwitchTo
        <5>3. HasCluster(p.name)' /\ IsSelected(p.name)' /\ exporter' = Endpoint(hosts', q.name)
          BY <1>3, <1>10, <2>2, <2>3, <5>1, <5>2 DEF HasCluster, IsSelected, Endpoint
        <5>4. QED BY <2>1, <2>2, <2>3, <4>2, <5>1, <5>3 DEF Switches
      <4>3. QED BY <1>2, <1>10, <4>1, <4>2
    <3>4. "kibana" \notin FreshConfig(p.op)
      BY <1>10 DEF FreshConfig, ConfigSteps
    <3>5. QED BY <2>1, <2>2, <2>3, <3>2, <3>3, <3>4 DEF AloneKnows
  <2>5. QED BY <1>1, <1>3, <1>4, <1>5, <2>1, <2>2, <2>3, <2>4, Went
<1>11. QED BY <1>6, <1>7, <1>8, <1>9, <1>10

\* The link a handler of the settings leaves, and that no link is None.
LEMMA LinkIs ==
  ASSUME TypeOK, NEW n \in DOMAIN hosts PROVE Endpoint(hosts, n) \in Names \X {"u1", "u2"} /\ Endpoint(hosts, n) # None
<1>1. n \in Names /\ hosts[n].url \in {"u1", "u2"}
  BY DEF TypeOK, IsHosts, HostRecords
<1>2. QED BY <1>1, ActorsAssumption DEF Endpoint

LEMMA KibanaStep == ASSUME TypeOK, Conduct, NEW a \in Actors, Kibana(a) PROVE Conduct'
<1> DEFINE p == proc[a]
           q == Rest(a)
<1>1. /\ CommandInv(p) /\ Shaped(p) /\ Running(a) /\ Head(p.todo) = "kibana" /\ Head(p.todo) \in StepsOf(p.op)
      /\ p.op \in WebOps \cup CliOps /\ GoTo(a, q)
  BY HereIs DEF Kibana, AtStep, Advance
<1>2. p.op \in {"settings", "unlock", "defer", "output", "provision"}
  BY <1>1 DEF StepsOf, WebOps, CliOps
<1>3. UNCHANGED <<hosts, jobs, config, exporter, lock>>
  BY DEF Kibana, files
<1>4. Sole(a) => ~(config.deferred /\ CollectHosts(hosts) # {})'
  <2>1. ~Clears(p)
    BY <1>1 DEF Clears
  <2>2. QED BY <1>3, <2>1, SoleDefers DEF CollectHosts, Has
<1>5. ~AtStep(a, "release")
  BY <1>1 DEF AtStep
<1>6. CASE q.todo = <<>>
  <2>1. End(a, "ok")
    BY <1>1, <1>6 DEF GoTo
  <2>2. QED BY <1>1, <1>3, <1>4, <1>5, <2>1, Stopped DEF End, Becomes, Sole
<1>7. CASE q.todo # <<>>
  <2>1. Becomes(a, q) /\ proc'[a] = q
    BY <1>1, <1>7 DEF GoTo, Becomes, Noticed
  <2>2. CommandInv(q) /\ Fields(q, p) /\ Head(q.todo) \in Succ(p.op, "kibana")
    BY <1>1, <1>7, NextIs
  <2> HIDE DEF q
  <2>3. \/ p.op = "settings" /\ Head(q.todo) = "exporter"
        \/ p.op = "defer" /\ Head(q.todo) = "may"
    BY <1>2, <2>2 DEF Succ, StepsOf
  <2>4. q.op = p.op /\ q.with = p.with /\ q.before = p.before /\ q.name = p.name /\ q.got = p.got
    BY <2>2 DEF Fields
  <2>5. ASSUME Alone(a) PROVE AloneKnows(p)'
    <3>1. Untouched(p) /\ Switches(p)
      BY <2>5 DEF Conduct, AloneInv, AloneKnows
    <3>2. CASE p.op = "settings"
      <4>1. ViewedFrom(p.name) /\ p.got = Endpoint(hosts, p.name) /\ IsSelected(p.name)
        BY <1>1, <3>1, <3>2 DEF Switches
      <4>2. kibanaLink' = Endpoint(hosts, hosts[p.name].viewer)
        <5>1. Linked(p) = Endpoint(hosts, hosts[p.name].viewer)
          BY <3>2, <4>1 DEF Linked, ViewedFrom
        <5>2. Linked(p) # None
          BY <4>1, <5>1, LinkIs DEF ViewedFrom
        <5>3. QED BY <5>1, <5>2 DEF Kibana
      <4>3. ViewedFrom(p.name)' /\ IsSelected(p.name)' /\ q.got = Endpoint(hosts', q.name) /\ kibanaLink' = Endpoint(hosts', hosts'[q.name].viewer)
        BY <1>3, <2>1, <2>4, <4>1, <4>2 DEF ViewedFrom, IsSelected, Endpoint
      <4>4. Switches(p)'
        BY <2>1, <2>3, <2>4, <3>2, <4>3 DEF Switches
      <4>5. Untouched(p)'
        <5>1. "exporter" \notin Early("settings")
          BY DEF Early
        <5>2. QED BY <2>1, <2>3, <2>4, <3>2, <5>1 DEF Untouched
      <4>6. "exporter" \notin FreshConfig("settings")
        BY DEF FreshConfig, ConfigSteps
      <4>7. QED BY <2>1, <2>3, <2>4, <3>2, <4>4, <4>5, <4>6 DEF AloneKnows
    <3>3. CASE p.op = "defer"
      <4>1. Unchanged(p)
        BY <1>1, <3>1, <3>3 DEF Untouched, Early
      <4>2. Untouched(p)'
        BY <1>3, <2>1, <2>4, <3>3, <4>1 DEF Untouched, Unchanged
      <4>3. Switches(p)'
        BY <2>1, <2>4, <3>3 DEF Switches
      <4>4. "may" \notin FreshConfig("defer")
        BY DEF FreshConfig, ConfigSteps
      <4>5. QED BY <2>1, <2>3, <2>4, <3>3, <4>2, <4>3, <4>4 DEF AloneKnows
    <3>4. QED BY <2>3, <3>2, <3>3
  <2>6. QED BY <1>1, <1>3, <1>4, <1>5, <2>1, <2>2, <2>3, <2>4, <2>5, Went
<1>8. QED BY <1>6, <1>7

\* The mutex is taken by a handler that reads jobs.yml and gives it back when
\* it has written it.
LEMMA AcquireStep == ASSUME TypeOK, Conduct, NEW a \in Actors, Acquire(a) PROVE Conduct'
<1> DEFINE p == proc[a]
           r == Rest(a)
           q == [r EXCEPT !.seen = jobs]
<1>1. /\ CommandInv(p) /\ Shaped(p) /\ Running(a) /\ Head(p.todo) = "acquire" /\ Head(p.todo) \in StepsOf(p.op)
      /\ p.op \in WebOps \cup CliOps
  BY HereIs DEF Acquire, AtStep
<1>2. p.op \in {"savejob", "deljob"} /\ p.op \in WebOps /\ a \in Web
  BY <1>1 DEF StepsOf, WebOps, CliOps, Conduct, ProcInv
<1>3. UNCHANGED <<hosts, jobs, config, exporter, kibanaLink>>
  BY DEF Acquire, files
<1>4. (End(a, "failed") /\ UNCHANGED lock) \/ (GoTo(a, q) /\ lock' = a /\ lock = None)
  BY DEF Acquire, Fail, Hold
<1>5. CASE End(a, "failed") /\ UNCHANGED lock
  BY <1>1, <1>3, <1>5, Refusal
<1>6. CASE GoTo(a, q) /\ lock' = a /\ lock = None
  <2>1. /\ Shaped(r) /\ r.todo = Tail(p.todo) /\ Fields(r, p) /\ r.todo # <<>> /\ Head(r.todo) = "release"
    <3>1. r.todo # <<>>
      BY <1>1, <1>2, NextIs DEF Ending
    <3>2. QED BY <1>1, <1>2, <3>1, NextIs DEF Succ, StepsOf
  <2>a. ~Unplanned(p) /\ IsJobs(jobs)
    BY <1>1 DEF Unplanned, TypeOK
  <2> HIDE DEF r
  <2>2. /\ Shaped(q) /\ q.todo = r.todo /\ q.op = r.op /\ q.name = r.name /\ q.wf = r.wf /\ q.host = r.host /\ q.cfg = r.cfg
        /\ q.saw = r.saw /\ q.got = r.got /\ q.target = r.target /\ q.mem = r.mem /\ q.with = r.with /\ q.before = r.before
        /\ q.seen = jobs
    <3> HIDE DEF p
    <3>1. QED BY <2>1 DEF Shaped, Fields
  <2> HIDE DEF q
  <2>3. CommandInv(q)
    BY <1>1, <2>1, <2>a, <2>2, NextCommand DEF Fields
  <2>4. Becomes(a, q) /\ q.op = p.op /\ q.with = p.with /\ q.before = p.before /\ q.todo # <<>> /\ Head(q.todo) = "release"
    BY <1>6, <2>1, <2>2 DEF GoTo, Fields
  <2>5. \A b \in Actors \ {a} : Running(b) => q.with # "nobody" /\ (b \in Cli => q.with = "others")
    BY <1>1, <2>4 DEF Conduct, CompanyInv
  <2>6. Sole(a) => q.with = "nobody"
    BY <1>1, <2>4 DEF Conduct, CompanyInv, Alone, Sole
  <2>7. /\ ProcInv' /\ CompanyInv' /\ proc'[a] = q /\ Running(a)' /\ (clean' <=> Sole(a))
        /\ \A b \in Actors \ {a} :
             /\ ~Alone(b)' /\ (Running(b)' <=> Running(b))
             /\ Running(b) => /\ proc'[b].todo = proc[b].todo /\ proc'[b].op = proc[b].op /\ proc'[b].seen = proc[b].seen
                              /\ proc'[b].with = Company(a, b)
    BY <1>2, <2>3, <2>4, <2>5, <2>6, Moved DEF Conduct
  <2>8. MutexInv'
    <3>1. AtStep(a, "release")'
      BY <2>4, <2>7 DEF AtStep
    <3>2. ASSUME NEW b \in Actors, b # a PROVE ~AtStep(b, "release")'
      <4>1. ~AtStep(b, "release")
        BY <1>6, <3>2, ActorsAssumption DEF Conduct, MutexInv, Actors
      <4>2. QED BY <2>7, <3>2, <4>1 DEF AtStep
    <3>3. q.seen = jobs'
      BY <1>3, <2>2
    <3>4. QED BY <1>2, <1>6, <2>4, <2>7, <3>1, <3>2, <3>3 DEF MutexInv
  <2>9. AloneInv'
    <3>1. ASSUME Alone(a)' PROVE AloneKnows(q)
      <4>1. Alone(a)
        BY <1>1, <2>4, <2>7, <3>1 DEF Alone
      <4>2. "release" \notin FreshConfig(p.op) /\ "release" \notin Early(p.op)
        BY <1>2 DEF FreshConfig, ConfigSteps, Early
      <4>3. QED BY <1>2, <2>4, <4>2 DEF AloneKnows, Untouched, Switches
    <3>2. Alone(a)' => AloneKnows(proc[a])'
      BY <1>3, <2>7, <3>1, KnowsKept
    <3>3. QED BY <2>7, <3>2 DEF AloneInv
  <2>10. DeferralInv'
    <3>1. ~Clears(p)
      BY <1>1 DEF Clears
    <3>2. QED BY <1>3, <2>7, <3>1, SoleDefers DEF DeferralInv, CollectHosts, Has
  <2>11. QED BY <2>7, <2>8, <2>9, <2>10 DEF Conduct
<1>7. QED BY <1>4, <1>5, <1>6

LEMMA ReleaseStep == ASSUME Conduct, NEW a \in Actors, ReleaseJobs(a) PROVE Conduct'
<1> DEFINE p == proc[a]
           q == Rest(a)
<1>1. /\ CommandInv(p) /\ Running(a) /\ Head(p.todo) = "release" /\ Head(p.todo) \in StepsOf(p.op) /\ p.op \in WebOps \cup CliOps
      /\ GoTo(a, q) /\ lock' = None /\ AtStep(a, "release")
  BY HereIs DEF ReleaseJobs, AtStep, Advance
<1>2. q.todo = <<>>
  <2>1. p.op \in {"savejob", "deljob"}
    BY <1>1 DEF StepsOf, WebOps, CliOps
  <2>2. QED BY <1>1, <2>1, NextIs DEF Succ, StepsOf
<1>3. UNCHANGED <<hosts, config>>
  BY DEF ReleaseJobs
<1>4. proc' = Noticed(a, [op |-> "idle", result |-> "ok"]) /\ (clean' <=> Sole(a))
  BY <1>1, <1>2 DEF GoTo, End, Becomes, Sole
<1>5. /\ ProcInv' /\ CompanyInv' /\ ~Running(a)'
      /\ \A b \in Actors : ~Alone(b)'
      /\ \A b \in Actors \ {a} :
           /\ Running(b)' <=> Running(b)
           /\ Running(b) => /\ proc'[b].todo = proc[b].todo /\ proc'[b].op = proc[b].op /\ proc'[b].seen = proc[b].seen
                            /\ proc'[b].with = Company(a, b)
  BY <1>4, Ended DEF Conduct
<1>6. MutexInv'
  <2>1. lock = a
    BY <1>1 DEF Conduct, MutexInv
  <2>2. ASSUME NEW b \in Actors PROVE ~AtStep(b, "release")'
    <3>1. CASE b = a
      BY <1>5, <3>1 DEF AtStep
    <3>2. CASE b # a
      <4>1. ~AtStep(b, "release")
        BY <2>1, <3>2 DEF Conduct, MutexInv
      <4>2. QED BY <1>5, <3>2, <4>1 DEF AtStep
    <3>3. QED BY <3>1, <3>2
  <2>3. QED BY <1>1, <2>2 DEF MutexInv
<1>7. AloneInv'
  BY <1>5 DEF AloneInv
<1>8. DeferralInv'
  <2>1. ~Clears(p)
    BY <1>1 DEF Clears
  <2>2. QED BY <1>3, <1>4, <2>1, SoleDefers DEF DeferralInv, CollectHosts, Has
<1>9. QED BY <1>5, <1>6, <1>7, <1>8 DEF Conduct

\* What may follow the writing of a configuration.
SaveFacts(op, h, g, k) ==
  /\ g \notin FreshConfig(op) /\ g \notin {"write", "source", "defer", "release"} /\ (g = "load" => op # "defer") /\ op # "default"
  /\ op # "init" => g \notin Early(op)
  /\ op = "init" /\ (g \in Planning \cup {"connect"} \/ (g = "load" /\ k \in Planning)) => h \in {"user", "workflow", "nodefault"}
  /\ op \in {"output", "provision"} => (h = "select" /\ g = "load") \/ (h = "stamp" /\ g = (IF op = "output" THEN "exporter" ELSE "load"))
  /\ op = "settings" => (h = "select" /\ g = "kibana") \/ (h = "stamp" /\ g = "exporter")

\* What follows an edit of esdiag.yml.
LEMMA SaveOrder ==
  ASSUME NEW op \in WebOps \cup CliOps, NEW h \in StepsOf(op) \cap ConfigSteps, NEW g \in Succ(op, h), NEW k,
         g \in {"load", "parse"} => k \in After(op, h)
  PROVE  SaveFacts(op, h, g, k)
<1>1. g \notin FreshConfig(op)
  BY DEF Succ, StepsOf, FreshConfig, ConfigSteps, WebOps, CliOps
<1>2. g \notin {"write", "source", "defer", "release"} /\ (g = "load" => op # "defer") /\ op # "default"
  BY DEF Succ, StepsOf, ConfigSteps, WebOps, CliOps
<1>3. op # "init" => g \notin Early(op)
  BY <1>2 DEF Succ, StepsOf, Early, ConfigSteps, WebOps, CliOps
<1>4. op = "init" /\ (g \in Planning \cup {"connect"} \/ (g = "load" /\ k \in Planning)) => h \in {"user", "workflow", "nodefault"}
  BY DEF Succ, StepsOf, After, Planning, ConfigSteps
<1>5. op \in {"output", "provision"} => (h = "select" /\ g = "load") \/ (h = "stamp" /\ g = (IF op = "output" THEN "exporter" ELSE "load"))
  BY DEF Succ, StepsOf, ConfigSteps
<1>6. op = "settings" => (h = "select" /\ g = "kibana") \/ (h = "stamp" /\ g = "exporter")
  BY DEF Succ, StepsOf, ConfigSteps
<1>7. QED BY <1>1, <1>2, <1>3, <1>4, <1>5, <1>6 DEF SaveFacts

\* What it writes.
LEMMA SavedIs ==
  ASSUME NEW p, NEW h \in ConfigSteps, IsConfig(p.cfg)
  PROVE  /\ Saved(p, h).deferred => h = "defer" \/ (h # "undefer" /\ p.cfg.deferred)
         /\ h \notin {"select"} => Saved(p, h).output = p.cfg.output
         /\ h = "stamp" => Saved(p, h) = p.cfg
         /\ h = "select" => Saved(p, h).output = p.name /\ ~Saved(p, h).context
BY DEF Saved, Selected, Undeferred, IsConfig, ConfigSteps

\* An edit of esdiag.yml, whichever it is.
LEMMA SaveStep == ASSUME Conduct, NEW a \in Actors, Save(a) PROVE Conduct'
<1> DEFINE p == proc[a]
           h == Head(p.todo)
           q == Rest(a)
<1>1. /\ CommandInv(p) /\ Shaped(p) /\ Running(a) /\ h \in ConfigSteps /\ h \in StepsOf(p.op) /\ p.op \in WebOps \cup CliOps
  BY HereIs DEF Save
<1>2. \/ (Refused(p, h) \/ h = "nodefault") /\ End(a, "failed") /\ UNCHANGED config
      \/ config' = Saved(p, h) /\ GoTo(a, q)
  BY DEF Save, Fail, Advance
<1>3. UNCHANGED <<hosts, jobs, exporter, kibanaLink, lock>>
  BY DEF Save, server
<1>4. CASE (Refused(p, h) \/ h = "nodefault") /\ End(a, "failed") /\ UNCHANGED config
  <2>1. h \in {"default", "context", "nodefault"}
    BY <1>4 DEF Refused
  <2>2. QED BY <1>1, <1>3, <1>4, <2>1, Refusal
<1>5. CASE config' = Saved(p, h) /\ GoTo(a, q)
  <2>1. IsConfig(p.cfg)
    BY <1>1 DEF CommandInv, Knows, UsesConfig
  <2>2. Alone(a) => p.cfg = config /\ AloneKnows(p)
    BY <1>1 DEF Conduct, AloneInv, AloneKnows, FreshConfig
  <2>3. Sole(a) => ~(config.deferred /\ CollectHosts(hosts) # {})'
    <3>1. ASSUME Sole(a), Saved(p, h).deferred, CollectHosts(hosts) # {} PROVE FALSE
      <4>1. Alone(a)
        BY <1>1, <3>1 DEF Conduct, CompanyInv, Sole
      <4>2. CASE h = "defer"
        <5>1. p.op = "defer"
          BY <1>1, <4>2 DEF StepsOf, WebOps, CliOps
        <5>2. QED BY <2>2, <3>1, <4>1, <4>2, <5>1 DEF AloneKnows
      <4>3. CASE h # "undefer" /\ p.cfg.deferred
        <5>1. Clears(p)
          BY <2>2, <3>1, <4>1, <4>3, SoleDefers
        <5>2. h # "load"
          BY <1>1 DEF ConfigSteps
        <5>3. QED BY <4>3, <5>1, <5>2 DEF Clears
      <4>4. QED BY <1>1, <2>1, <3>1, <4>2, <4>3, SavedIs
    <3>2. CollectHosts(hosts)' = CollectHosts(hosts)
      BY <1>3 DEF CollectHosts, Has
    <3>3. QED BY <1>5, <3>1, <3>2
  <2>4. ~AtStep(a, "release")
    BY <1>1 DEF AtStep, ConfigSteps
  <2>5. CASE q.todo = <<>>
    <3>1. End(a, "ok")
      BY <1>5, <2>5 DEF GoTo
    <3>2. QED BY <1>1, <1>3, <2>3, <2>4, <3>1, Stopped DEF End, Becomes, Sole
  <2>6. CASE q.todo # <<>>
    <3>1. Becomes(a, q) /\ proc'[a] = q
      BY <1>5, <2>6 DEF GoTo, Becomes, Noticed
    <3>a. h \notin {"load", "parse", "loadJobs", "acquire", "draft", "confirmHost", "plan", "fetch"}
      BY <1>1 DEF ConfigSteps
    <3>2. /\ CommandInv(q) /\ Fields(q, p) /\ Head(q.todo) \in Succ(p.op, h)
          /\ Head(q.todo) \in {"load", "parse"} => q.todo[2] \in After(p.op, h)
      BY <1>1, <2>6, <3>a, NextIs
    <3>3. SaveFacts(p.op, h, Head(q.todo), q.todo[2])
      BY <1>1, <3>2, SaveOrder
    <3> HIDE DEF q, h
    <3>4. q.op = p.op /\ q.with = p.with /\ q.before = p.before /\ q.name = p.name /\ q.got = p.got /\ q.cfg = p.cfg
      BY <3>2 DEF Fields
    <3>5. ASSUME Alone(a) PROVE AloneKnows(p)'
      <4>1. Untouched(p) /\ Switches(p) /\ p.cfg = config
        BY <2>2, <3>5 DEF AloneKnows
      <4>2. Untouched(p)'
        <5>1. CASE p.op = "init"
          <6>1. ASSUME IsPlanning(q) PROVE hosts = p.before.hosts /\ config' = Saved(p, h) /\ Saved(p, h).output = p.before.config.output
            <7>1. h \in {"user", "workflow", "nodefault"}
              BY <3>3, <5>1, <6>1 DEF SaveFacts, IsPlanning
            <7>2. IsPlanning(p)
              BY <7>1 DEF IsPlanning, Planning, h
            <7>3. Saved(p, h).output = p.cfg.output
              BY <1>1, <2>1, <7>1, SavedIs
            <7>4. QED BY <1>5, <4>1, <5>1, <7>2, <7>3 DEF Untouched
          <6>2. QED BY <1>3, <3>1, <3>4, <5>1, <6>1 DEF Untouched, IsPlanning
        <5>2. CASE p.op # "init"
          BY <3>1, <3>3, <3>4, <5>2 DEF SaveFacts, Untouched
        <5>3. QED BY <5>1, <5>2
      <4>3. Switches(p)'
        <5>1. CASE p.op \in {"output", "provision"}
          <6>1. h \in {"select", "stamp"} /\ Head(q.todo) = (IF h = "stamp" /\ p.op = "output" THEN "exporter" ELSE "load")
            BY <3>3, <5>1 DEF SaveFacts
          <6>2. HasCluster(p.name) /\ (h = "stamp" => IsSelected(p.name))
            BY <4>1, <5>1, <6>1 DEF Switches, h
          <6>3. HasCluster(p.name)'
            BY <1>3, <3>1, <3>4, <6>2 DEF HasCluster
          <6>4. IsSelected(p.name)'
            BY <1>1, <1>5, <2>1, <3>1, <3>4, <4>1, <6>1, <6>2, SavedIs DEF IsSelected
          <6>5. QED BY <3>1, <3>4, <5>1, <6>1, <6>3, <6>4 DEF Switches
        <5>2. CASE p.op = "settings"
          <6>1. CASE h = "select" /\ Head(q.todo) = "kibana"
            <7>1. ViewedFrom(p.name) /\ p.got = Endpoint(hosts, p.name)
              BY <4>1, <5>2, <6>1 DEF Switches, h
            <7>2. ViewedFrom(p.name)' /\ q.got = Endpoint(hosts', q.name)
              BY <1>3, <3>1, <3>4, <7>1 DEF ViewedFrom, Endpoint
            <7>3. IsSelected(p.name)'
              BY <1>1, <1>5, <2>1, <3>1, <3>4, <6>1, SavedIs DEF IsSelected
            <7>4. QED BY <3>1, <3>4, <5>2, <6>1, <7>2, <7>3 DEF Switches
          <6>2. CASE h = "stamp" /\ Head(q.todo) = "exporter"
            <7>1. Unchanged(p)
              BY <4>1, <5>2, <6>2 DEF Untouched, Early, h
            <7>2. config' = q.before.config
              BY <1>1, <1>5, <2>1, <3>4, <4>1, <6>2, <7>1, SavedIs DEF Unchanged
            <7>3. QED BY <3>1, <3>4, <5>2, <6>2, <7>2 DEF Switches
          <6>3. QED BY <3>3, <5>2, <6>1, <6>2 DEF SaveFacts
        <5>3. CASE p.op \notin {"output", "provision", "settings"}
          BY <3>1, <3>4, <5>3 DEF Switches
        <5>4. QED BY <5>1, <5>2, <5>3
      <4>4. QED BY <3>1, <3>3, <3>4, <4>2, <4>3 DEF SaveFacts, AloneKnows
    <3>6. Head(q.todo) # "release"
      BY <3>3 DEF SaveFacts
    <3>7. QED BY <1>1, <1>3, <2>3, <2>4, <3>1, <3>2, <3>4, <3>5, <3>6, Went
  <2>7. QED BY <2>5, <2>6
<1>6. QED BY <1>2, <1>4, <1>5

\* The map a command writes is one that hosts.yml can hold.
LEMMA EditedIs ==
  ASSUME NEW p, CommandInv(p), Head(p.todo) \in {"write", "source", "active"} PROVE IsHosts(p.saw) /\ IsHosts(Edited(p))
<1>1. IsHosts(p.saw) /\ p.op \in WebOps \cup CliOps /\ Head(p.todo) \in StepsOf(p.op) /\ Arguments(p)
  BY HeadsLive DEF CommandInv, Knows, UsesHosts
<1>2. CASE Head(p.todo) = "source"
  <2>1. p.target \in Names
    BY <1>2 DEF CommandInv, Knows
  <2>2. SourceHost \in HostRecords
    BY DEF SourceHost, HostRecords
  <2>3. p.target \in DOMAIN p.saw => [p.saw[p.target] EXCEPT !.roles = @ \cup {"collect"}] \in HostRecords
    <3>1. p.target \in DOMAIN p.saw => p.saw[p.target] \in HostRecords
      BY <1>1 DEF IsHosts
    <3>2. QED BY <3>1 DEF HostRecords
  <2>4. IsHosts(WithSource(p))
    BY <1>1, <2>1, <2>2, <2>3, HostsKept DEF WithSource
  <2>5. QED BY <1>1, <1>2, <2>4 DEF Edited
<1>3. CASE Head(p.todo) \in {"write", "active"}
  <2>1. ASSUME NEW hs, IsHosts(hs), NEW n \in Clusters PROVE IsHosts(WithCluster(hs, n))
    <3>1. n \in Names /\ KibanaOf[n] \in Names /\ OutputHost(n) \in HostRecords /\ ViewerHost \in HostRecords
      BY NamesAssumption DEF OutputHost, ViewerHost, HostRecords
    <3>2. IsHosts(Put(hs, n, OutputHost(n)))
      BY <2>1, <3>1, HostsKept
    <3>3. QED BY <3>1, <3>2, HostsKept DEF WithCluster
  <2>2. p.op \in {"output", "provision", "host", "cluster", "delhost", "delcluster", "add", "update", "remove", "init"}
    BY <1>1, <1>3 DEF StepsOf, WebOps, CliOps
  <2>3. CASE p.op \in {"output", "provision", "init"}
    <3>1. p.name \in Clusters
      BY <1>1, <1>3, <2>3 DEF Arguments, Unplanned
    <3>2. Edited(p) = WithCluster(p.saw, p.name)
      BY <1>3, <2>3 DEF Edited
    <3>3. QED BY <1>1, <2>1, <3>1, <3>2
  <2>4. CASE p.op = "cluster"
    <3>1. p.name \in Clusters
      BY <1>1, <2>4 DEF Arguments
    <3>2. Edited(p) = WithCluster(IF p.orig \in {None, p.name} THEN p.saw ELSE Drop(p.saw, {p.orig, KibanaOf[p.orig]}), p.name)
      BY <1>3, <2>4 DEF Edited
    <3>3. IsHosts(Drop(p.saw, {p.orig, KibanaOf[p.orig]}))
      BY <1>1, HostsKept
    <3>4. QED BY <1>1, <2>1, <3>1, <3>2, <3>3
  <2>5. CASE p.op = "host"
    <3>1. p.name \in Names /\ p.host \in HostRecords
      BY <1>1, <2>5, NamesAssumption DEF Arguments
    <3> DEFINE hs == Drop(p.saw, {p.orig} \ {p.name})
    <3>2. Edited(p) = Put(hs, p.name, p.host)
      BY <1>3, <2>5 DEF Edited
    <3>3. IsHosts(hs)
      BY <1>1, HostsKept
    <3> HIDE DEF hs
    <3>4. QED BY <1>1, <3>1, <3>2, <3>3, HostsKept
  <2>6. CASE p.op \in {"add", "update"}
    <3>1. p.name \in Names /\ p.host \in HostRecords
      BY <1>1, <2>6, NamesAssumption DEF Arguments
    <3>2. Edited(p) = Put(p.saw, p.name, p.host)
      BY <1>3, <2>6 DEF Edited
    <3>3. QED BY <1>1, <3>1, <3>2, HostsKept
  <2>7. CASE p.op \in {"delhost", "delcluster", "remove"}
    <3>1. \/ Edited(p) = Drop(p.saw, {p.target, KibanaOf[p.target]})
          \/ Edited(p) = Drop(p.saw, {p.target})
      BY <1>3, <2>7 DEF Edited
    <3>2. QED BY <1>1, <3>1, HostsKept
  <2>8. QED BY <1>1, <2>2, <2>3, <2>4, <2>5, <2>6, <2>7
<1>4. QED BY <1>2, <1>3

\* A cluster that was saved is there.
LEMMA ClusterSaved ==
  ASSUME NEW hs, NEW n \in Clusters, hosts' = Written(WithCluster(hs, n)) PROVE HasCluster(n)'
<1>1. KibanaOf[n] # n
  BY NamesAssumption
<1>2. /\ n \in DOMAIN WithCluster(hs, n) /\ KibanaOf[n] \in DOMAIN WithCluster(hs, n)
      /\ WithCluster(hs, n)[n] = OutputHost(n) /\ WithCluster(hs, n)[KibanaOf[n]] = ViewerHost
  BY <1>1 DEF WithCluster, Put
<1>3. /\ OutputHost(n).roles # {} /\ ViewerHost.roles # {}
      /\ OutputHost(n).viewer = KibanaOf[n] /\ ViewerHost.url = "u2"
  BY DEF OutputHost, ViewerHost
<1>4. QED BY <1>2, <1>3 DEF Written, Normalized, HasCluster

\* A host of the new map either was there, or is the one that was saved.
LEMMA SourcesKept ==
  ASSUME NEW p, CommandInv(p), Head(p.todo) = "write", Readable(p.saw), CollectHosts(p.saw) = {},
         p.op \in {"host", "add", "update", "delhost", "remove"} => ~TouchesSource(p)
  PROVE  CollectHosts(Written(Edited(p))) = {}
<1> DEFINE old(h) == "collect" \notin h.roles /\ h.roles # {}
<1>1. IsHosts(p.saw) /\ p.op \in WebOps \cup CliOps /\ Head(p.todo) \in StepsOf(p.op) /\ Arguments(p)
  BY HeadsLive DEF CommandInv, Knows, UsesHosts
<1>2. \A n \in DOMAIN p.saw : old(p.saw[n])
  BY DEF CollectHosts, Has, Readable
<1>3. ASSUME NEW hs, \A n \in DOMAIN hs : "collect" \notin Normalized(hs[n]).roles PROVE CollectHosts(Written(hs)) = {}
  BY <1>3 DEF CollectHosts, Has, Written
<1>4. \A h : old(h) => "collect" \notin Normalized(h).roles
  BY DEF Normalized
<1>5. ASSUME NEW hs, NEW n, \A m \in DOMAIN hs : old(hs[m]) PROVE \A m \in DOMAIN WithCluster(hs, n) : old(WithCluster(hs, n)[m])
  BY <1>5 DEF WithCluster, Put, OutputHost, ViewerHost
<1>6. \A S : \A m \in DOMAIN Drop(p.saw, S) : old(Drop(p.saw, S)[m])
  BY <1>2 DEF Drop
<1>7. p.op \in {"output", "provision", "host", "cluster", "delhost", "delcluster", "add", "update", "remove", "init"}
  BY <1>1 DEF StepsOf, WebOps, CliOps
<1> HIDE DEF old
<1>8. CASE p.op \in {"output", "provision", "init"}
  <2>1. Edited(p) = WithCluster(p.saw, p.name)
    BY <1>8 DEF Edited
  <2>2. QED BY <1>2, <1>3, <1>4, <1>5, <2>1
<1>9. CASE p.op = "cluster"
  <2> DEFINE hs == IF p.orig \in {None, p.name} THEN p.saw ELSE Drop(p.saw, {p.orig, KibanaOf[p.orig]})
  <2>1. Edited(p) = WithCluster(hs, p.name)
    BY <1>9 DEF Edited
  <2>2. \A m \in DOMAIN hs : old(hs[m])
    BY <1>2, <1>6
  <2> HIDE DEF hs
  <2>3. QED BY <1>3, <1>4, <1>5, <2>1, <2>2
<1>10. CASE p.op = "host"
  <2> DEFINE hs == Drop(p.saw, {p.orig} \ {p.name})
  <2>1. Edited(p) = Put(hs, p.name, p.host) /\ "collect" \notin Normalized(p.host).roles
    BY <1>10 DEF Edited, TouchesSource
  <2>2. \A m \in DOMAIN hs : old(hs[m])
    BY <1>6
  <2> HIDE DEF hs
  <2>3. \A m \in DOMAIN Put(hs, p.name, p.host) : "collect" \notin Normalized(Put(hs, p.name, p.host)[m]).roles
    BY <1>4, <2>1, <2>2 DEF Put
  <2>4. QED BY <1>3, <2>1, <2>3
<1>11. CASE p.op \in {"add", "update"}
  <2>1. Edited(p) = Put(p.saw, p.name, p.host)
    BY <1>11 DEF Edited
  <2>2. old(p.host)
    BY <1>1, <1>11 DEF TouchesSource, Arguments, old
  <2>3. \A m \in DOMAIN Put(p.saw, p.name, p.host) : "collect" \notin Normalized(Put(p.saw, p.name, p.host)[m]).roles
    BY <1>2, <1>4, <2>2 DEF Put
  <2>4. QED BY <1>3, <2>1, <2>3
<1>12. CASE p.op \in {"delhost", "delcluster", "remove"}
  <2>1. \/ Edited(p) = Drop(p.saw, {p.target, KibanaOf[p.target]})
        \/ Edited(p) = Drop(p.saw, {p.target})
    BY <1>12 DEF Edited
  <2>2. QED BY <1>3, <1>4, <1>6, <2>1
<1>13. QED BY <1>7, <1>8, <1>9, <1>10, <1>11, <1>12

\* A program without the three steps a command may skip.
LEMMA WithoutThree ==
  ASSUME NEW S, NEW s \in Seq(S), Len(s) >= 3
  PROVE  /\ SubSeq(s, 4, Len(s)) = Tail(Tail(Tail(s)))
         /\ Tail(s) # <<>> /\ Tail(Tail(s)) # <<>> /\ Head(Tail(Tail(s))) = s[3]
         /\ SubSeq(s, 2, 3)[1] = s[2] /\ SubSeq(s, 2, 3)[2] = s[3]
<1> DEFINE s1 == Tail(s)
           s2 == Tail(s1)
           s3 == Tail(s2)
           t == SubSeq(s, 4, Len(s))
<1>a. Len(<<>>) = 0
  OBVIOUS
<1>1. Len(s) \in Nat /\ s # <<>> /\ \A i \in 1 .. Len(s) : s[i] \in S
  BY <1>a
<1>b. s1 \in Seq(S) /\ Len(s1) = Len(s) - 1 /\ (\A i \in 1 .. Len(s1) : s1[i] = s[i + 1])
  BY <1>1, HeadTailProperties
<1> HIDE DEF s1
<1>2. s1 \in Seq(S) /\ Len(s1) = Len(s) - 1 /\ (\A i \in 1 .. Len(s1) : s1[i] = s[i + 1]) /\ s1 # <<>>
  BY <1>a, <1>b, <1>1
<1>c. s2 \in Seq(S) /\ Len(s2) = Len(s1) - 1 /\ (\A i \in 1 .. Len(s2) : s2[i] = s1[i + 1])
  BY <1>2, HeadTailProperties
<1> HIDE DEF s2
<1>3. s2 \in Seq(S) /\ Len(s2) = Len(s1) - 1 /\ (\A i \in 1 .. Len(s2) : s2[i] = s1[i + 1]) /\ s2 # <<>>
  BY <1>a, <1>c, <1>1, <1>2
<1> HIDE DEF s2
<1>4. s3 \in Seq(S) /\ Len(s3) = Len(s2) - 1 /\ \A i \in 1 .. Len(s3) : s3[i] = s2[i + 1]
  BY <1>3, HeadTailProperties
<1> HIDE DEF s3
<1>5. t \in Seq(S) /\ Len(t) = Len(s) - 3 /\ \A i \in 1 .. Len(s) - 3 : t[i] = s[4 + i - 1]
  <2>1. 4 \in Int /\ Len(s) \in Int /\ \A i \in 4 .. Len(s) : s[i] \in S
    BY <1>1
  <2>2. /\ t \in Seq(S) /\ Len(t) = (IF 4 <= Len(s) THEN Len(s) - 4 + 1 ELSE 0)
        /\ \A i \in 1 .. Len(s) - 4 + 1 : t[i] = s[4 + i - 1]
    BY <2>1, SubSeqProperties
  <2> HIDE DEF t
  <2>3. Len(s) - 4 + 1 = Len(s) - 3 /\ (IF 4 <= Len(s) THEN Len(s) - 4 + 1 ELSE 0) = Len(s) - 3
    <3>1. \A n \in Nat : n >= 3 => n - 4 + 1 = n - 3 /\ (4 <= n \/ n - 3 = 0)
      OBVIOUS
    <3>2. Len(s) - 4 + 1 = Len(s) - 3 /\ (4 <= Len(s) \/ Len(s) - 3 = 0)
      BY <1>1, <3>1
    <3>3. QED BY <3>2
  <2>4. QED BY <2>2, <2>3
<1> HIDE DEF t
<1>6. ASSUME NEW i \in 1 .. Len(t) PROVE t[i] = s3[i]
  <2>1. i \in 1 .. Len(s3) /\ i + 1 \in 1 .. Len(s2) /\ (i + 1) + 1 \in 1 .. Len(s1) /\ 4 + i - 1 = ((i + 1) + 1) + 1
    BY <1>1, <1>2, <1>3, <1>4, <1>5
  <2>2. s3[i] = s[((i + 1) + 1) + 1]
    BY <1>2, <1>3, <1>4, <2>1
  <2>3. QED BY <1>5, <2>1, <2>2
<1>7. Len(t) = Len(s3)
  BY <1>1, <1>2, <1>3, <1>4, <1>5
<1>8. t = s3
  BY <1>4, <1>5, <1>6, <1>7, SeqEqual
<1>9. Head(s2) = s[3]
  <2>1. 1 \in 1 .. Len(s2) /\ 2 \in 1 .. Len(s1) /\ 1 + 1 = 2 /\ 2 + 1 = 3
    BY <1>1, <1>2, <1>3
  <2>2. s2[1] = s[3]
    BY <1>2, <1>3, <2>1
  <2>3. QED BY <1>3, <2>2
<1>10. SubSeq(s, 2, 3)[1] = s[2] /\ SubSeq(s, 2, 3)[2] = s[3]
  <2>1. \A i \in 2 .. 3 : s[i] \in S
    BY <1>1
  <2>2. \A i \in 1 .. 3 - 2 + 1 : SubSeq(s, 2, 3)[i] = s[2 + i - 1]
    BY <2>1, SubSeqProperties
  <2>3. 1 \in 1 .. 3 - 2 + 1 /\ 2 \in 1 .. 3 - 2 + 1 /\ 2 + 1 - 1 = 2 /\ 2 + 2 - 1 = 3
    OBVIOUS
  <2>4. QED BY <2>2, <2>3
<1>11. QED BY <1>2, <1>3, <1>8, <1>9, <1>10 DEF s1, s2, s3, t

\* The steps a write may skip.
LEMMA SkippedCommand ==
  ASSUME NEW p, CommandInv(p), Head(p.todo) = "write", SkipsUndefer(p), NEW t, t = SubSeq(p.todo, 4, Len(p.todo)),
         NEW q, Shaped(q), q.todo = t, Fields(q, p)
  PROVE  q.op \notin {"output", "provision", "settings", "defer", "default", "init"}
         /\ (q.todo # <<>> => CommandInv(q) /\ Head(q.todo) = "active")
<1>1. /\ p.todo \in Seq(Steps) /\ p.todo # <<>> /\ OnCourse(p.op, p.todo) /\ p.op \in WebOps \cup CliOps /\ Arguments(p) /\ Knows(p)
      /\ Head(p.todo) \in StepsOf(p.op)
  BY HeadsLive DEF CommandInv, OnCourse
<1>2. Len(p.todo) >= 3 /\ p.todo[2] = "load" /\ p.todo[3] = "undefer"
  <2>1. Len(p.todo) >= 3 /\ SubSeq(p.todo, 2, 3) = <<"load", "undefer">>
    BY DEF SkipsUndefer, Undefer
  <2>2. <<"load", "undefer">>[1] = "load" /\ <<"load", "undefer">>[2] = "undefer"
    OBVIOUS
  <2>3. QED BY <1>1, <2>1, <2>2, WithoutThree
<1> DEFINE s1 == Tail(p.todo)
           s2 == Tail(s1)
           s3 == Tail(s2)
<1>3. t = s3 /\ s1 # <<>> /\ s2 # <<>> /\ Head(s2) = "undefer"
  BY <1>1, <1>2, WithoutThree
<1> HIDE DEF s1, s2, s3
<1>4. OnCourse(p.op, s1)
  BY <1>1, <1>3, CourseTail DEF s1
<1>5. OnCourse(p.op, s2)
  BY <1>3, <1>4, CourseTail DEF s2
<1>6. Head(s2) \in StepsOf(p.op)
  BY <1>1, <1>3, <1>5, HeadsLive
<1>7. s3 # <<>> => OnCourse(p.op, s3) /\ Head(s3) \in Succ(p.op, "undefer")
  BY <1>3, <1>5, CourseTail DEF s3
<1>8. p.op \in {"host", "add", "update", "delhost", "remove"}
  <2>1. p.op \in {"collection", "host", "add", "update", "delhost", "remove", "init"}
    BY <1>1, <1>3, <1>6 DEF StepsOf, WebOps, CliOps
  <2>2. p.op # "collection"
    BY <1>1 DEF StepsOf
  <2>3. p.op # "init"
    BY DEF SkipsUndefer, TouchesSource
  <2>4. QED BY <2>1, <2>2, <2>3
<1>9. ASSUME q.todo # <<>> PROVE CommandInv(q) /\ Head(q.todo) = "active"
  <2>1. Head(q.todo) = "active" /\ p.op \in {"host", "remove"} /\ OnCourse(q.op, q.todo)
    BY <1>3, <1>7, <1>8, <1>9 DEF Succ, StepsOf, Fields
  <2>2. Arguments(q)
    BY <1>1, <2>1 DEF Arguments, Unplanned, Fields
  <2>3. IsHosts(p.saw) /\ (p.op \in {"host", "cluster", "delcluster"} => p.mem \in Names \cup {None})
    BY <1>1 DEF Knows, UsesHosts
  <2>4. "active" \notin UsesConfig(p.op)
    BY <2>1 DEF UsesConfig, ConfigSteps
  <2>5. Knows(q)
    BY <2>1, <2>3, <2>4 DEF Knows, Fields
  <2>6. QED BY <1>1, <1>9, <2>1, <2>2, <2>5 DEF CommandInv, Fields
<1>10. QED BY <1>8, <1>9 DEF Fields

\* What may follow the writing of hosts.yml.
WriteFacts(op, h, g, k) ==
  /\ g \in {"load", "active"} /\ g \notin FreshConfig(op) /\ op \notin {"defer", "default", "settings"}
  /\ op # "init" => g \notin Early(op)
  /\ g = "load" => k = IF op \in {"output", "provision"} \/ (op = "init" /\ h = "write") THEN "select" ELSE "undefer"
  /\ op \in {"output", "provision"} => h = "write" /\ g = "load"
  /\ h = "source" => g = "load"
  /\ op \in {"host", "add", "update", "delhost", "remove"} => g = "load"

\* What follows an edit of hosts.yml.
LEMMA WriteOrder ==
  ASSUME NEW op \in WebOps \cup CliOps, NEW h \in StepsOf(op) \cap {"write", "source"}, NEW g \in Succ(op, h), NEW k,
         g \in {"load", "parse"} => k \in After(op, h)
  PROVE  WriteFacts(op, h, g, k)
<1>1. g \in {"load", "active"} /\ g \notin FreshConfig(op) /\ op \notin {"defer", "default", "settings"}
  BY DEF Succ, StepsOf, FreshConfig, ConfigSteps, WebOps, CliOps
<1>2. op # "init" => g \notin Early(op)
  BY <1>1 DEF StepsOf, Early, WebOps, CliOps
<1>3. g = "load" => k = IF op \in {"output", "provision"} \/ (op = "init" /\ h = "write") THEN "select" ELSE "undefer"
  BY <1>1 DEF StepsOf, After, WebOps, CliOps
<1>4. op \in {"output", "provision"} => h = "write" /\ g = "load"
  BY DEF Succ, StepsOf
<1>5. h = "source" => g = "load"
  BY DEF Succ, StepsOf
<1>6. op \in {"host", "add", "update", "delhost", "remove"} => g = "load"
  BY DEF Succ, StepsOf
<1>7. QED BY <1>1, <1>2, <1>3, <1>4, <1>5, <1>6 DEF WriteFacts

\* An edit of hosts.yml, whichever it is.
LEMMA WriteStep == ASSUME Readable(hosts), Conduct, NEW a \in Actors, Write(a) PROVE Conduct'
<1> DEFINE p == proc[a]
           h == Head(p.todo)
           hs == Edited(p)
           r == Rest(a)
           q == IF SkipsUndefer(p) THEN [p EXCEPT !.todo = SubSeq(@, 4, Len(@))] ELSE r
<1>1. /\ CommandInv(p) /\ Shaped(p) /\ Running(a) /\ h \in {"write", "source"} /\ h \in StepsOf(p.op) /\ p.op \in WebOps \cup CliOps
  BY HereIs DEF Write, AtStep
<1>2. UNCHANGED <<jobs, config, exporter, kibanaLink, lock>>
  BY DEF Write, server
<1>3. (End(a, "failed") /\ UNCHANGED hosts) \/ (hosts' = Written(hs) /\ GoTo(a, q))
  BY DEF Write, Fail, Advance
<1>4. CASE End(a, "failed") /\ UNCHANGED hosts
  BY <1>1, <1>2, <1>4, Refusal
<1>5. CASE hosts' = Written(hs) /\ GoTo(a, q)
  <2>1. /\ Shaped(r) /\ r.todo = Tail(p.todo) /\ Fields(r, p)
        /\ r.todo = <<>> => h \in Ending(p.op)
        /\ r.todo # <<>> =>
             /\ CommandInv(r) /\ Head(r.todo) \in Succ(p.op, h)
             /\ Head(r.todo) \in {"load", "parse"} => r.todo[2] \in After(p.op, h)
    BY <1>1, NextIs
  <2>2. r.todo # <<>>
    BY <1>1, <2>1 DEF Ending, WebOps, CliOps
  <2>3. WriteFacts(p.op, h, Head(r.todo), r.todo[2])
    BY <1>1, <2>1, <2>2, WriteOrder
  <2>4. Alone(a) => p.saw = hosts
    BY <1>1 DEF Conduct, AloneInv, AloneKnows
  <2>5. h = "source" => ~SkipsUndefer(p)
    <3>1. h = "source" => p.op \in {"collection", "init"}
      BY <1>1 DEF StepsOf, WebOps, CliOps
    <3>2. QED BY <3>1 DEF SkipsUndefer, TouchesSource
  <2>6. ASSUME Sole(a), (config.deferred /\ CollectHosts(hosts) # {})' PROVE ~SkipsUndefer(p) /\ Clears(r)
    <3>1. Alone(a)
      BY <1>1, <2>6 DEF Conduct, CompanyInv, Sole
    <3>2. CollectHosts(hosts) = {}
      <4>1. ~Clears(p)
        BY <1>1 DEF Clears
      <4>2. QED BY <1>2, <2>6, <4>1, SoleDefers
    <3>3. ASSUME h = "write", p.op \in {"host", "add", "update", "delhost", "remove"} => ~TouchesSource(p) PROVE FALSE
      <4>1. CollectHosts(Written(hs)) = {}
        BY <1>1, <2>4, <3>1, <3>2, <3>3, SourcesKept
      <4>2. QED BY <1>5, <2>6, <4>1
    <3>4. CASE h = "source"
      BY <2>3, <2>5, <3>4 DEF WriteFacts, Clears
    <3>5. CASE h = "write" /\ p.op \in {"host", "add", "update", "delhost", "remove"} /\ TouchesSource(p)
      BY <2>3, <3>5 DEF SkipsUndefer, WriteFacts, Clears
    <3>6. QED BY <1>1, <3>3, <3>4, <3>5
  <2>7. Sole(a) /\ SkipsUndefer(p) => ~(config.deferred /\ CollectHosts(hosts) # {})'
    BY <2>6
  <2>8. ~AtStep(a, "release")
    BY <1>1 DEF AtStep
  <2>9. CASE SkipsUndefer(p)
    <3> DEFINE t == SubSeq(p.todo, 4, Len(p.todo))
    <3>1. q = [p EXCEPT !.todo = t]
      BY <2>9
    <3> HIDE DEF t, q, r
    <3>2. Shaped(q) /\ q.todo = t /\ Fields(q, p)
      BY <1>1, <3>1, WithTodo
    <3>3. h = "write"
      BY <1>1, <2>5, <2>9
    <3>4. q.op \notin {"output", "provision", "settings", "defer", "default", "init"} /\ (q.todo # <<>> => CommandInv(q) /\ Head(q.todo) = "active")
      BY <1>1, <2>9, <3>2, <3>3, SkippedCommand DEF t
    <3>5. CASE q.todo = <<>>
      <4>1. End(a, "ok")
        BY <1>5, <3>5 DEF GoTo
      <4>2. QED BY <1>1, <1>2, <2>7, <2>8, <2>9, <4>1, Stopped DEF End, Becomes, Sole
    <3>6. CASE q.todo # <<>>
      <4>1. Becomes(a, q) /\ proc'[a] = q /\ q.op = p.op /\ q.with = p.with
        BY <1>5, <3>2, <3>6 DEF GoTo, Becomes, Noticed, Fields
      <4>2. AloneKnows(p)'
        <5>1. "active" \notin FreshConfig(q.op) /\ "active" \notin Early(q.op)
          BY DEF FreshConfig, ConfigSteps, Early
        <5>2. QED BY <3>4, <3>6, <4>1, <5>1 DEF AloneKnows, Untouched, Switches
      <4>3. QED BY <1>1, <1>2, <2>7, <2>8, <2>9, <3>4, <3>6, <4>1, <4>2, Went
    <3>7. QED BY <3>5, <3>6
  <2>10. CASE ~SkipsUndefer(p)
    <3>1. Becomes(a, r) /\ proc'[a] = r
      BY <1>5, <2>2, <2>10 DEF GoTo, Becomes, Noticed
    <3> HIDE DEF r, h
    <3>2. r.op = p.op /\ r.with = p.with /\ r.before = p.before /\ r.name = p.name
      BY <2>1 DEF Fields
    <3>3. Untouched(p)'
      <4>1. CASE p.op = "init"
        BY <2>3, <3>1, <3>2, <4>1 DEF WriteFacts, Untouched, IsPlanning, Planning
      <4>2. CASE p.op # "init"
        BY <2>3, <3>1, <3>2, <4>2 DEF WriteFacts, Untouched
      <4>3. QED BY <4>1, <4>2
    <3>4. Switches(p)'
      <4>1. CASE p.op \in {"output", "provision"}
        <5>1. h = "write" /\ Head(r.todo) = "load" /\ r.todo[2] = "select"
          BY <2>3, <4>1 DEF WriteFacts
        <5>2. hs = WithCluster(p.saw, p.name) /\ p.name \in Clusters
          BY <1>1, <4>1, <5>1 DEF Edited, CommandInv, Arguments, h
        <5>3. HasCluster(p.name)'
          <6> DEFINE n == p.name
                     m == p.saw
          <6>1. n \in Clusters /\ hosts' = Written(WithCluster(m, n)) /\ n = r.name
            BY <1>5, <3>2, <5>2
          <6>2. ASSUME NEW c \in Clusters, NEW s, hosts' = Written(WithCluster(s, c)) PROVE HasCluster(c)'
            BY <6>2, ClusterSaved
          <6>3. QED BY <3>1, <6>1, <6>2 DEF HasCluster
        <5>4. QED BY <3>1, <3>2, <4>1, <5>1, <5>3 DEF Switches
      <4>2. CASE p.op \notin {"output", "provision"}
        BY <2>3, <3>1, <3>2, <4>2 DEF Switches, WriteFacts
      <4>3. QED BY <4>1, <4>2
    <3>5. AloneKnows(p)'
      BY <2>3, <3>1, <3>2, <3>3, <3>4 DEF WriteFacts, AloneKnows
    <3>6. Head(r.todo) # "release"
      BY <2>3 DEF WriteFacts
    <3>7. Sole(a) /\ (config.deferred /\ CollectHosts(hosts) # {})' => Clears(r)
      BY <2>6
    <3>8. QED BY <1>1, <1>2, <2>1, <2>2, <2>8, <3>1, <3>2, <3>5, <3>6, <3>7, Went DEF h
  <2>11. QED BY <2>9, <2>10
<1>6. QED BY <1>3, <1>4, <1>5

----------------------------------------------------------------------------
(* The wizard                                                                 *)

\* A step of the wizard that gives the rest of the program another form.
LEMMA Diverts ==
  ASSUME Conduct, NEW a \in Actors, Running(a), NEW q, CommandInv(q), Becomes(a, q),
         UNCHANGED <<hosts, jobs, config, exporter, kibanaLink, lock>>,
         proc[a].op = "init", q.op = "init", q.with = proc[a].with, q.before = proc[a].before,
         Head(proc[a].todo) \in {"plan", "ask", "collectJob", "processJob"},
         Head(q.todo) \in {"load", "connect", "ask", "final", "parse", "loadJobs"},
         IsPlanning(q) => IsPlanning(proc[a])
  PROVE  Conduct'
<1> DEFINE p == proc[a]
<1>1. ~Clears(p) /\ ~AtStep(a, "release")
  BY DEF Clears, AtStep
<1>2. Sole(a) => ~(config.deferred /\ CollectHosts(hosts) # {})'
  BY <1>1, SoleDefers DEF CollectHosts, Has
<1>3. ASSUME Alone(a) PROVE AloneKnows(p)'
  <2>1. Untouched(q)
    BY <1>3 DEF Conduct, AloneInv, AloneKnows, Untouched
  <2>2. Head(q.todo) \notin FreshConfig("init")
    BY DEF FreshConfig, ConfigSteps
  <2>3. AloneKnows(q)
    BY <2>1, <2>2 DEF AloneKnows, Switches
  <2>4. proc'[a] = q
    BY DEF Becomes, Noticed
  <2>5. QED BY <2>3, <2>4, KnowsKept
<1>4. Head(q.todo) # "release"
  OBVIOUS
<1>5. QED BY <1>1, <1>2, <1>3, <1>4, Went

\* Four parts of a program.
LEMMA RegroupFour == \A x, y, z, s \in Seq(Steps) : ((x \o y) \o z) \o s = x \o (y \o (z \o s))
<1> TAKE x, y, z, s \in Seq(Steps)
<1> DEFINE Cat(u, v) == u \o v
<1>1. \A u, v, w \in Seq(Steps) : Cat(u, v) \in Seq(Steps) /\ Cat(Cat(u, v), w) = Cat(u, Cat(v, w))
  BY Regroup
<1> HIDE DEF Cat
<1>2. Cat(x, y) \in Seq(Steps) /\ Cat(z, s) \in Seq(Steps)
  BY <1>1
<1>3. Cat(Cat(Cat(x, y), z), s) = Cat(Cat(x, y), Cat(z, s))
  BY <1>1, <1>2
<1>4. Cat(Cat(x, y), Cat(z, s)) = Cat(x, Cat(y, Cat(z, s)))
  BY <1>1, <1>2
<1>5. QED BY <1>3, <1>4 DEF Cat

\* The parts the answers put before the rest of the program.
LEMMA WizardHostCourse ==
  ASSUME NEW s, StartsWith(s, {"collectJob"}, {})
  PROVE  OnCourse("init", WizardHost \o s) /\ WizardHost \o s # <<>> /\ Head(WizardHost \o s) = "parse" /\ (WizardHost \o s)[2] = "source"
<1> DEFINE u == <<"load", "undefer">> \o s
           v == <<"source">> \o u
           w == <<"parse">> \o v
<1>1. {"collectJob"} \subseteq Succ("init", "undefer") /\ "parse" \notin {"collectJob"} /\ {} \subseteq After("init", "undefer")
  BY WizardOrder
<1>2. StartsWith(u, {"load"}, {"undefer"})
  <2>1. "undefer" \in {"user", "workflow", "nodefault", "undefer", "default"}
    OBVIOUS
  <2>2. QED BY <1>1, <2>1, WizardEdit
<1> HIDE DEF u
<1>3. OnCourse("init", v) /\ v # <<>> /\ v[1] = "source" /\ Len(v) > 1
  <2>1. OnCourse("init", u) /\ u # <<>> /\ u[1] = "load" /\ Len(u) > 1 /\ u[2] = "undefer"
    BY <1>2 DEF StartsWith
  <2>2. "source" \in Steps /\ "load" \in Succ("init", "source") /\ "undefer" \in After("init", "source")
    BY WizardOrder DEF Steps
  <2>3. QED BY <2>1, <2>2, CourseConsRead
<1> HIDE DEF v
<1>4. OnCourse("init", w) /\ w # <<>> /\ w[1] = "parse" /\ w[2] = "source"
  <2>1. "parse" \in Steps /\ "source" \in Succ("init", "parse") /\ "source" \notin {"load", "parse"}
    BY WizardOrder DEF Steps
  <2>2. QED BY <1>3, <2>1, CourseConsPlain
<1>5. WizardHost \o s = w
  <2>1. <<"parse">> \in Seq(Steps) /\ <<"source">> \in Seq(Steps) /\ <<"load", "undefer">> \in Seq(Steps) /\ s \in Seq(Steps)
    BY DEF Steps, ConfigSteps, StartsWith, OnCourse
  <2> DEFINE left(b, c, d, e) == ((b \o c) \o d) \o e
             right(b, c, d, e) == b \o (c \o (d \o e))
  <2>2. \A b, c, d, e \in Seq(Steps) : left(b, c, d, e) = right(b, c, d, e)
    BY RegroupFour
  <2> HIDE DEF left, right
  <2>3. left(<<"parse">>, <<"source">>, <<"load", "undefer">>, s) = right(<<"parse">>, <<"source">>, <<"load", "undefer">>, s)
    BY <2>1, <2>2
  <2>4. WizardHost = (<<"parse">> \o <<"source">>) \o <<"load", "undefer">>
    BY DEF WizardHost, Undefer
  <2>5. QED BY <2>3, <2>4 DEF left, right, u, v
<1> HIDE DEF w
<1>6. Head(w) = w[1]
  BY <1>4, CourseTail
<1>7. QED BY <1>4, <1>5, <1>6

\* What the wizard puts in front of the rest: a default job it keeps,
LEMMA WizardDefaultCourse ==
  ASSUME NEW s, StartsWith(s, {"processJob", "final"}, {})
  PROVE  StartsWith(<<"load", "default">> \o s, {"load"}, {"default"})
<1>1. {"processJob", "final"} \subseteq Succ("init", "default") /\ "parse" \notin {"processJob", "final"} /\ {} \subseteq After("init", "default")
  BY WizardOrder
<1>2. "default" \in {"user", "workflow", "nodefault", "undefer", "default"}
  OBVIOUS
<1>3. QED BY <1>1, <1>2, WizardEdit

\* or one it saves.
LEMMA WizardJobCourse ==
  ASSUME NEW s, StartsWith(s, {"processJob", "final"}, {})
  PROVE  OnCourse("init", AddJob \o s) /\ AddJob \o s # <<>> /\ Head(AddJob \o s) = "loadJobs"
<1> DEFINE u == <<"load", "default">> \o s
           v == <<"saveJobs">> \o u
           w == <<"loadJobs">> \o v
<1>2. StartsWith(u, {"load"}, {"default"})
  BY WizardDefaultCourse
<1> HIDE DEF u
<1>3. OnCourse("init", v) /\ v # <<>> /\ v[1] = "saveJobs" /\ Len(v) > 1
  <2>1. OnCourse("init", u) /\ u # <<>> /\ u[1] = "load" /\ Len(u) > 1 /\ u[2] = "default"
    BY <1>2 DEF StartsWith
  <2>2. "saveJobs" \in Steps /\ "load" \in Succ("init", "saveJobs") /\ "default" \in After("init", "saveJobs")
    BY WizardOrder DEF Steps
  <2>3. QED BY <2>1, <2>2, CourseConsRead
<1> HIDE DEF v
<1>4. OnCourse("init", w) /\ w # <<>> /\ w[1] = "loadJobs"
  <2>1. "loadJobs" \in Steps /\ "saveJobs" \in Succ("init", "loadJobs") /\ "saveJobs" \notin {"load", "parse"}
    BY WizardOrder DEF Steps
  <2>2. QED BY <1>3, <2>1, CourseConsPlain
<1>5. AddJob \o s = w
  <2>1. <<"loadJobs">> \in Seq(Steps) /\ <<"saveJobs">> \in Seq(Steps) /\ <<"load", "default">> \in Seq(Steps) /\ s \in Seq(Steps)
    BY DEF Steps, ConfigSteps, StartsWith, OnCourse
  <2> DEFINE left(b, c, d, e) == ((b \o c) \o d) \o e
             right(b, c, d, e) == b \o (c \o (d \o e))
  <2>2. \A b, c, d, e \in Seq(Steps) : left(b, c, d, e) = right(b, c, d, e)
    BY RegroupFour
  <2> HIDE DEF left, right
  <2>3. left(<<"loadJobs">>, <<"saveJobs">>, <<"load", "default">>, s) = right(<<"loadJobs">>, <<"saveJobs">>, <<"load", "default">>, s)
    BY <2>1, <2>2
  <2>4. AddJob = (<<"loadJobs">> \o <<"saveJobs">>) \o <<"load", "default">>
    BY DEF AddJob
  <2>5. QED BY <2>3, <2>4 DEF left, right, u, v
<1> HIDE DEF w
<1>6. Head(w) = w[1]
  BY <1>4, CourseTail
<1>7. QED BY <1>4, <1>5, <1>6

\* What such a step must have settled.
LEMMA Diverted ==
  ASSUME NEW q, Shaped(q), q.op = "init", OnCourse("init", q.todo), q.todo # <<>>, q.name \in Clusters, q.wf \in Workflows,
         Head(q.todo) \in {"load", "connect", "ask", "final", "parse", "loadJobs"},
         Head(q.todo) = "loadJobs" => q.got.export \in Exports, Head(q.todo) = "parse" => q.target \in Names
  PROVE  CommandInv(q)
<1>1. "init" \in WebOps \cup CliOps
  BY DEF CliOps
<1>2. Arguments(q)
  BY DEF Arguments
<1>3. Head(q.todo) \notin UsesConfig("init") /\ Head(q.todo) \notin UsesHosts("init")
  BY DEF UsesConfig, UsesHosts, ConfigSteps
<1>4. Knows(q)
  BY <1>3 DEF Knows
<1>5. QED BY <1>1, <1>2, <1>4 DEF CommandInv

\* The wizard at one of its questions.
LEMMA AtQuestion ==
  ASSUME Conduct, NEW a \in Actors, Running(a), Head(proc[a].todo) \in {"ask", "collectJob", "processJob"}
  PROVE  LET p == proc[a] r == Rest(a) IN
         /\ p.op = "init" /\ CommandInv(p) /\ Shaped(p) /\ ~Unplanned(p) /\ p.name \in Clusters /\ p.wf \in Workflows
         /\ Shaped(r) /\ Fields(r, p) /\ r.todo = Tail(p.todo) /\ r.todo # <<>> /\ CommandInv(r)
         /\ Head(p.todo) = "ask" => StartsWith(r.todo, {"collectJob"}, {})
         /\ Head(p.todo) # "ask" => StartsWith(r.todo, {"processJob", "final"}, {})
         /\ Head(p.todo) \notin Changing
<1> DEFINE p == proc[a]
           r == Rest(a)
<1>1. CommandInv(p) /\ Shaped(p) /\ Head(p.todo) \in StepsOf(p.op) /\ p.op \in WebOps \cup CliOps
  BY HereIs
<1>2. p.op = "init" /\ ~Unplanned(p) /\ Head(p.todo) \notin Changing
  BY <1>1 DEF StepsOf, WebOps, CliOps, Unplanned, Changing, ConfigSteps
<1>3. p.name \in Clusters /\ p.wf \in Workflows
  BY <1>1, <1>2 DEF CommandInv, Arguments
<1>4. /\ Shaped(r) /\ r.todo = Tail(p.todo) /\ Fields(r, p)
      /\ r.todo = <<>> => Head(p.todo) \in Ending("init")
      /\ r.todo # <<>> => CommandInv(r) /\ Head(r.todo) \in Succ("init", Head(p.todo)) /\ OnCourse(r.op, r.todo)
  BY <1>2, NextIs
<1> HIDE DEF r, p
<1>5. r.todo # <<>>
  <2>1. Head(p.todo) \notin Ending("init")
    BY DEF Ending, p
  <2>2. QED BY <1>4, <2>1
<1>6. r.op = "init" /\ r.todo[1] = Head(r.todo)
  BY <1>2, <1>4, <1>5, CourseTail DEF Fields
<1>7. /\ Head(p.todo) = "ask" => Head(r.todo) = "collectJob"
      /\ Head(p.todo) # "ask" => Head(r.todo) \in {"processJob", "final"}
  BY <1>4, <1>5 DEF Succ, StepsOf, p
<1>8. QED BY <1>1, <1>2, <1>3, <1>4, <1>5, <1>6, <1>7 DEF StartsWith, p, r

\* The questions of the wizard.
LEMMA AskStep == ASSUME TypeOK, Conduct, NEW a \in Actors, Ask(a) PROVE Conduct'
<1> DEFINE p == proc[a]
           r == Rest(a)
<1>1. /\ Running(a) /\ Head(p.todo) = "ask" /\ UNCHANGED <<hosts, jobs, config, exporter, kibanaLink, lock>>
  BY DEF Ask, AtStep, Decide, files, server
<1>2. /\ p.op = "init" /\ CommandInv(p) /\ Shaped(p) /\ ~Unplanned(p) /\ p.name \in Clusters /\ p.wf \in Workflows
      /\ Shaped(r) /\ Fields(r, p) /\ r.todo = Tail(p.todo) /\ r.todo # <<>> /\ CommandInv(r)
      /\ StartsWith(r.todo, {"collectJob"}, {}) /\ Head(p.todo) \notin Changing
  BY <1>1, AtQuestion
<1>3. CASE CollectHosts(hosts) # {} /\ GoTo(a, [r EXCEPT !.target = FirstName(CollectHosts(hosts))])
  <2> DEFINE t == FirstName(CollectHosts(hosts))
             q == [r EXCEPT !.target = t]
  <2>1. t \in Names
    <3>1. CollectHosts(hosts) \subseteq Names
      BY DEF CollectHosts, TypeOK, IsHosts
    <3>2. QED BY <1>3, <3>1, FirstIn
  <2>2. GoTo(a, q)
    BY <1>3
  <2> HIDE DEF t, r, p
  <2>3. /\ Shaped(q) /\ q.todo = Tail(p.todo) /\ q.op = p.op /\ q.name = p.name /\ q.wf = p.wf /\ q.host = p.host /\ q.cfg = p.cfg
        /\ q.saw = p.saw /\ q.seen = p.seen /\ q.got = p.got /\ q.mem = p.mem /\ q.with = p.with /\ q.before = p.before
        /\ q.target = t
    BY <1>2 DEF Shaped, Fields
  <2> HIDE DEF q
  <2>4. q.todo # <<>> => CommandInv(q)
    BY <1>1, <1>2, <2>1, <2>3, NextCommand
  <2>5. Learnt(p, q)
    BY <1>1, <1>2, <2>3 DEF Learnt
  <2>6. QED BY <1>1, <1>2, <2>2, <2>3, <2>4, <2>5, QuietStep DEF p
<1>4. ASSUME NEW n \in Clusters, GoTo(a, [r EXCEPT !.target = n, !.how = "add", !.todo = WizardHost \o @]) PROVE Conduct'
  <2> DEFINE t == WizardHost \o r.todo
             u == [r EXCEPT !.target = n, !.how = "add"]
             q == [u EXCEPT !.todo = t]
  <2>1. OnCourse("init", t) /\ t # <<>> /\ Head(t) = "parse" /\ t[2] = "source"
    BY <1>2, WizardHostCourse
  <2>2. GoTo(a, q)
    BY <1>4
  <2> HIDE DEF t, r, p
  <2>3. Shaped(u) /\ u.op = r.op /\ u.name = r.name /\ u.wf = r.wf /\ u.with = r.with /\ u.before = r.before /\ u.target = n
    <3>1. u = [r EXCEPT !.target = n, !.how = "add"]
      OBVIOUS
    <3> HIDE DEF u
    <3>2. QED BY <1>2, <3>1 DEF Shaped
  <2> HIDE DEF u
  <2>4. Shaped(q) /\ q.todo = t /\ Fields(q, u)
    BY <2>3, WithTodo
  <2> HIDE DEF q
  <2>5. q.op = "init" /\ q.name = p.name /\ q.wf = p.wf /\ q.with = p.with /\ q.before = p.before /\ q.target = n
    BY <1>2, <2>3, <2>4 DEF Fields
  <2>6. CommandInv(q)
    BY <1>2, <2>1, <2>4, <2>5, Diverted, NamesAssumption
  <2>7. Becomes(a, q)
    BY <2>1, <2>2, <2>4 DEF GoTo
  <2>8. ~IsPlanning(q)
    BY <2>1, <2>4 DEF IsPlanning, Planning
  <2>9. QED BY <1>1, <1>2, <2>1, <2>4, <2>5, <2>6, <2>7, <2>8, Diverts DEF p
<1>5. CASE End(a, "failed")
  BY <1>1, <1>5, Refusal
<1>6. QED BY <1>3, <1>4, <1>5 DEF Ask, Fail

\* A command at a step that needs nothing it has read.
LEMMA Settled ==
  ASSUME NEW q, Shaped(q), q.op = "init", OnCourse("init", q.todo), q.todo # <<>>, q.name \in Clusters, q.wf \in Workflows,
         Head(q.todo) \in {"processJob", "final"}
  PROVE  CommandInv(q)
<1>1. "init" \in WebOps \cup CliOps
  BY DEF CliOps
<1>2. Arguments(q)
  BY DEF Arguments
<1>3. Head(q.todo) \notin UsesConfig("init") /\ Head(q.todo) \notin UsesHosts("init")
  BY DEF UsesConfig, UsesHosts, ConfigSteps
<1>4. Knows(q)
  BY <1>3 DEF Knows
<1>5. QED BY <1>1, <1>2, <1>4 DEF CommandInv

\* The user may have chosen another source.
SameButTarget(q, p) ==
  /\ q.op = p.op /\ q.name = p.name /\ q.wf = p.wf /\ q.host = p.host /\ q.cfg = p.cfg /\ q.saw = p.saw /\ q.seen = p.seen
  /\ q.got = p.got /\ q.job = p.job /\ q.mem = p.mem /\ q.how = p.how /\ q.with = p.with /\ q.before = p.before

\* A job is saved, kept or refused.
LEMMA JobChosen ==
  ASSUME TypeOK, Conduct, NEW a \in Actors, Running(a), Head(proc[a].todo) \in {"collectJob", "processJob"},
         UNCHANGED <<hosts, jobs, config, exporter, kibanaLink, lock>>,
         NEW n, NEW job, NEW mine, NEW last, job.export \in Exports, JobChoice(a, n, job, mine, last)
  PROVE  Conduct'
<1> DEFINE p == proc[a]
           b == Rest(a)
           r == [b EXCEPT !.target = job.host]
<1>1. /\ p.op = "init" /\ CommandInv(p) /\ Shaped(p) /\ ~Unplanned(p) /\ p.name \in Clusters /\ p.wf \in Workflows
      /\ Shaped(b) /\ Fields(b, p) /\ b.todo = Tail(p.todo) /\ b.todo # <<>>
      /\ StartsWith(b.todo, {"processJob", "final"}, {}) /\ Head(p.todo) \notin Changing
  BY AtQuestion
<1>3. \/ GoTo(a, [r EXCEPT !.job = n, !.got = job, !.mem = "saved", !.todo = AddJob \o @])
      \/ End(a, "failed")
      \/ GoTo(a, [r EXCEPT !.mem = "kept"])
      \/ GoTo(a, [r EXCEPT !.job = n, !.mem = "keep", !.todo = <<"load", "default">> \o @])
  BY DEF JobChoice, Fail
<1>2. /\ p.op = "init" /\ CommandInv(p) /\ Shaped(p) /\ ~Unplanned(p) /\ p.name \in Clusters /\ p.wf \in Workflows
      /\ Shaped(r) /\ SameButTarget(r, p) /\ r.todo = Tail(p.todo) /\ r.todo # <<>>
      /\ StartsWith(r.todo, {"processJob", "final"}, {}) /\ Head(p.todo) \notin Changing
  <2> HIDE DEF b
  <2>1. Shaped(r) /\ r.todo = b.todo /\ SameButTarget(r, b)
    BY <1>1 DEF Shaped, SameButTarget
  <2> HIDE DEF r
  <2>2. QED BY <1>1, <2>1 DEF SameButTarget, Fields
<1>4. CASE GoTo(a, [r EXCEPT !.job = n, !.got = job, !.mem = "saved", !.todo = AddJob \o @])
  <2> DEFINE t == AddJob \o r.todo
             u == [r EXCEPT !.job = n, !.got = job, !.mem = "saved"]
             q == [u EXCEPT !.todo = t]
  <2>1. OnCourse("init", t) /\ t # <<>> /\ Head(t) = "loadJobs"
    BY <1>2, WizardJobCourse
  <2>2. GoTo(a, q)
    BY <1>4
  <2> HIDE DEF t, r, p
  <2>3. Shaped(u) /\ u.op = r.op /\ u.name = r.name /\ u.wf = r.wf /\ u.with = r.with /\ u.before = r.before /\ u.got = job
    <3>1. u = [r EXCEPT !.job = n, !.got = job, !.mem = "saved"]
      OBVIOUS
    <3> HIDE DEF u
    <3>2. QED BY <1>2, <3>1 DEF Shaped
  <2> HIDE DEF u
  <2>4. Shaped(q) /\ q.todo = t /\ Fields(q, u)
    BY <2>3, WithTodo
  <2> HIDE DEF q
  <2>5. q.op = "init" /\ q.name = p.name /\ q.wf = p.wf /\ q.with = p.with /\ q.before = p.before /\ q.got = job
    BY <1>2, <2>3, <2>4 DEF Fields, SameButTarget
  <2>6. CommandInv(q)
    BY <1>2, <2>1, <2>4, <2>5, Diverted
  <2>7. Becomes(a, q)
    BY <2>1, <2>2, <2>4 DEF GoTo
  <2>8. ~IsPlanning(q)
    BY <2>1, <2>4 DEF IsPlanning, Planning
  <2>9. QED BY <1>2, <2>1, <2>4, <2>5, <2>6, <2>7, <2>8, Diverts DEF p
<1>5. CASE End(a, "failed")
  BY <1>5, Refusal
<1>6. CASE GoTo(a, [r EXCEPT !.mem = "kept"])
  <2> DEFINE q == [r EXCEPT !.mem = "kept"]
  <2>2. GoTo(a, q)
    BY <1>6
  <2> HIDE DEF r, p
  <2>3. /\ Shaped(q) /\ q.todo = Tail(p.todo) /\ q.op = p.op /\ q.name = p.name /\ q.wf = p.wf /\ q.host = p.host /\ q.cfg = p.cfg
        /\ q.saw = p.saw /\ q.seen = p.seen /\ q.got = p.got /\ q.with = p.with /\ q.before = p.before
    BY <1>2 DEF Shaped, SameButTarget
  <2> HIDE DEF q
  <2>4. CommandInv(q)
    <3>1. OnCourse("init", q.todo) /\ q.todo # <<>> /\ Head(q.todo) \in {"processJob", "final"}
      BY <1>2, <2>3, CourseTail DEF StartsWith
    <3>2. QED BY <1>2, <2>3, <3>1, Settled
  <2>5. Learnt(p, q)
    <3>1. Head(p.todo) \notin {"load", "parse", "may"}
      BY DEF p
    <3>2. QED BY <1>2, <2>3, <3>1 DEF Learnt
  <2>6. QED BY <1>2, <2>2, <2>3, <2>4, <2>5, QuietStep DEF p
<1>7. CASE GoTo(a, [r EXCEPT !.job = n, !.mem = "keep", !.todo = <<"load", "default">> \o @])
  <2> DEFINE t == <<"load", "default">> \o r.todo
             u == [r EXCEPT !.job = n, !.mem = "keep"]
             q == [u EXCEPT !.todo = t]
  <2>1. OnCourse("init", t) /\ t # <<>> /\ Head(t) = "load" /\ t[2] = "default"
    <3>1. StartsWith(t, {"load"}, {"default"})
      BY <1>2, WizardDefaultCourse
    <3> HIDE DEF t
    <3>2. QED BY <3>1, CourseTail DEF StartsWith
  <2>2. GoTo(a, q)
    BY <1>7
  <2> HIDE DEF t, r, p
  <2>3. Shaped(u) /\ u.op = r.op /\ u.name = r.name /\ u.wf = r.wf /\ u.with = r.with /\ u.before = r.before
    <3>1. u = [r EXCEPT !.job = n, !.mem = "keep"]
      OBVIOUS
    <3> HIDE DEF u
    <3>2. QED BY <1>2, <3>1 DEF Shaped
  <2> HIDE DEF u
  <2>4. Shaped(q) /\ q.todo = t /\ Fields(q, u)
    BY <2>3, WithTodo
  <2> HIDE DEF q
  <2>5. q.op = "init" /\ q.name = p.name /\ q.wf = p.wf /\ q.with = p.with /\ q.before = p.before
    BY <1>2, <2>3, <2>4 DEF Fields, SameButTarget
  <2>6. CommandInv(q)
    BY <1>2, <2>1, <2>4, <2>5, Diverted
  <2>7. Becomes(a, q)
    BY <2>1, <2>2, <2>4 DEF GoTo
  <2>8. ~IsPlanning(q)
    BY <2>1, <2>4 DEF IsPlanning, Planning
  <2>9. QED BY <1>2, <2>1, <2>4, <2>5, <2>6, <2>7, <2>8, Diverts DEF p
<1>8. QED BY <1>3, <1>4, <1>5, <1>6, <1>7

LEMMA CollectJobStep == ASSUME TypeOK, Conduct, NEW a \in Actors, CollectJob(a) PROVE Conduct'
<1>1. /\ Running(a) /\ Head(proc[a].todo) = "collectJob" /\ UNCHANGED <<hosts, jobs, config, exporter, kibanaLink, lock>>
  BY DEF CollectJob, AtStep, Decide, files, server
<1>2. PICK n \in CollectHosts(hosts) : JobChoice(a, <<n>>, [host |-> n, export |-> "none"], None, proc[a].wf # "both")
  BY DEF CollectJob
<1> DEFINE job == [host |-> n, export |-> "none"]
<1>3. job.export \in Exports
  BY DEF Exports
<1>4. JobChoice(a, <<n>>, job, None, proc[a].wf # "both")
  BY <1>2
<1> HIDE DEF job
<1>5. QED BY <1>1, <1>3, <1>4, JobChosen

LEMMA ProcessJobStep == ASSUME TypeOK, Conduct, NEW a \in Actors, ProcessJob(a) PROVE Conduct'
<1> DEFINE p == proc[a]
           o == config.output
           e == IF world.env # "none" THEN "env" ELSE o
           job == [host |-> p.target, export |-> e]
<1>1. Running(a) /\ Head(p.todo) = "processJob" /\ UNCHANGED <<hosts, jobs, config, exporter, kibanaLink, lock>>
  BY DEF ProcessJob, AtStep, Decide, files, server
<1>2. \/ Advance(a) \/ End(a, "failed")
      \/ o # None /\ JobChoice(a, <<p.target, o>>, job, <<p.target>>, TRUE)
  BY DEF ProcessJob, Fail
<1>3. CASE Advance(a)
  <2>1. "processJob" \notin Changing /\ p.op = "init"
    BY <1>1, AtQuestion
  <2>2. QED BY <1>1, <1>3, <2>1, Advances
<1>4. CASE End(a, "failed")
  BY <1>1, <1>4, Refusal
<1>5. CASE o # None /\ JobChoice(a, <<p.target, o>>, job, <<p.target>>, TRUE)
  <2>1. e \in Exports
    BY <1>5 DEF TypeOK, IsConfig, Exports
  <2>2. job.export \in Exports
    BY <2>1
  <2> HIDE DEF job, e
  <2>3. QED BY <1>1, <1>5, <2>2, JobChosen
<1>6. QED BY <1>2, <1>3, <1>4, <1>5

\* The program the answers lead to.
LEMMA PlanStep == ASSUME Conduct, NEW a \in Actors, Plan(a) PROVE Conduct'
<1> DEFINE p == proc[a]
           r == Ready
           A == IF p.cfg.user THEN <<>> ELSE <<"load", "user">>
           B(wf) == IF p.cfg.workflow = wf THEN <<>> ELSE <<"load", "workflow">>
           C(wf) == IF wf = "process" /\ p.cfg.job # None THEN <<"load", "nodefault">> ELSE <<>>
           D(wf, keep) == IF Processes(wf) /\ ~keep THEN WizardOutput ELSE <<>>
           E(wf) == IF Collects(wf) THEN <<"ask">> \o WizardJobs(wf) ELSE <<>>
           t(wf, keep) == A \o B(wf) \o C(wf) \o D(wf, keep) \o E(wf) \o <<"final">>
<1>1. /\ CommandInv(p) /\ Shaped(p) /\ Running(a) /\ Head(p.todo) = "plan" /\ Head(p.todo) \in StepsOf(p.op) /\ p.op \in WebOps \cup CliOps
  BY HereIs DEF Plan, AtStep
<1>2. p.op = "init" /\ IsPlanning(p)
  BY <1>1 DEF StepsOf, WebOps, CliOps, IsPlanning, Planning
<1>3. UNCHANGED <<hosts, jobs, config, exporter, kibanaLink, lock>>
  BY DEF Plan, Decide, files, server
<1>4. \/ End(a, "ok")
      \/ \E wf \in Workflows, n \in Clusters, keep \in BOOLEAN : GoTo(a, [p EXCEPT !.wf = wf, !.name = n, !.todo = t(wf, keep)])
  BY DEF Plan
<1>5. CASE End(a, "ok")
  BY <1>1, <1>3, <1>5, Refusal
<1>6. ASSUME NEW wf \in Workflows, NEW n \in Clusters, NEW keep \in BOOLEAN,
             GoTo(a, [p EXCEPT !.wf = wf, !.name = n, !.todo = t(wf, keep)])
      PROVE  Conduct'
  <2> DEFINE s == t(wf, keep)
             u == [p EXCEPT !.wf = wf, !.name = n]
             q == [u EXCEPT !.todo = s]
  <2>1. StartsWith(s, {"load", "connect", "ask", "final"}, {"user", "workflow", "nodefault"})
    <3>1. WizardParts(wf, A, B(wf), C(wf), D(wf, keep), E(wf))
      BY DEF WizardParts
    <3> HIDE DEF A, B, C, D, E
    <3>2. QED BY <3>1, WizardCourse
  <2>2. GoTo(a, q)
    BY <1>6
  <2> HIDE DEF t, s, p
  <2>3. OnCourse("init", s) /\ s # <<>> /\ Head(s) \in {"load", "connect", "ask", "final"}
    BY <2>1, CourseTail DEF StartsWith
  <2>4. Shaped(u) /\ u.op = p.op /\ u.wf = wf /\ u.name = n /\ u.with = p.with /\ u.before = p.before
    <3>1. u = [p EXCEPT !.wf = wf, !.name = n]
      OBVIOUS
    <3> HIDE DEF u
    <3>2. QED BY <1>1, <3>1 DEF Shaped
  <2> HIDE DEF u
  <2>5. Shaped(q) /\ q.todo = s /\ Fields(q, u)
    BY <2>4, WithTodo
  <2> HIDE DEF q
  <2>6. q.op = "init" /\ q.name \in Clusters /\ q.wf \in Workflows /\ q.with = p.with /\ q.before = p.before
    BY <1>2, <2>4, <2>5 DEF Fields
  <2>7. CommandInv(q)
    BY <2>3, <2>5, <2>6, Diverted
  <2>8. Becomes(a, q)
    BY <2>2, <2>3, <2>5 DEF GoTo
  <2>9. QED BY <1>1, <1>2, <1>3, <2>3, <2>5, <2>6, <2>7, <2>8, Diverts DEF p
<1>7. QED BY <1>4, <1>5, <1>6

\* A command that is cut off does not hold the mutex.
LEMMA InterruptStep == ASSUME Conduct, NEW a \in Actors, Interrupt(a) PROVE Conduct'
<1>1. /\ a \in Cli \/ Head(proc[a].todo) \in {"connect", "exporter", "kibana"}
      /\ Running(a) /\ proc' = Noticed(a, [op |-> "idle", result |-> "cut"]) /\ ~clean'
      /\ UNCHANGED <<hosts, jobs, config, lock>>
  BY DEF Interrupt, files, server
<1>2. ~AtStep(a, "release")
  <2>1. CASE a \in Cli
    <3>1. lock # a
      BY <2>1, ActorsAssumption DEF Conduct, MutexInv
    <3>2. QED BY <3>1 DEF Conduct, MutexInv
  <2>2. CASE Head(proc[a].todo) \in {"connect", "exporter", "kibana"}
    BY <2>2 DEF AtStep
  <2>3. QED BY <1>1, <2>1, <2>2
<1>3. QED BY <1>1, <1>2, Stopped

----------------------------------------------------------------------------
(* Commands that start, pages, and a restart                                  *)

\* What a form or a command line gives a command.
Given(c) ==
  /\ Shaped(c) /\ c.op \in WebOps \cup CliOps
  /\ c.op \in {"output", "provision", "collection", "default", "settings", "host", "cluster", "add", "update"} => c.name \in Clusters
  /\ c.op \in {"host", "add", "update"} => c.host \in HostRecords /\ c.host.roles # {}
  /\ c.op \in {"savejob", "addjob"} => c.got.export \in Exports
  /\ c.op = "identity" => c.wf \in Workflows

\* What a form or a command line fills in.
LEMMA CmdIs ==
  ASSUME NEW op, NEW n PROVE Shaped(Cmd(op, n)) /\ Cmd(op, n).op = op /\ Cmd(op, n).name = n
<1>1. Shaped(Blank)
  BY DEF Blank, Shaped
<1> DEFINE b == Blank
<1>2. Cmd(op, n) = [b EXCEPT !.op = op, !.name = n] /\ Shaped(b)
  BY <1>1 DEF Cmd
<1> HIDE DEF b
<1>3. QED BY <1>2 DEF Shaped

\* Every form gives what its handler needs,
LEMMA WebGiven == ASSUME NEW a \in Web, NEW c \in WebCommands(a) PROVE Given(c) /\ c.op \in WebOps
<1>1. CASE c \in OnboardingForms
  <2>1. ASSUME NEW wf \in Workflows, c = [Cmd("identity", None) EXCEPT !.wf = wf] PROVE Given(c) /\ c.op \in WebOps
    <3> DEFINE b == Cmd("identity", None)
    <3>1. Shaped(b) /\ b.op = "identity" /\ c = [b EXCEPT !.wf = wf]
      BY <2>1, CmdIs
    <3> HIDE DEF b
    <3>2. Shaped(c) /\ c.op = "identity" /\ c.wf = wf
      BY <3>1 DEF Shaped
    <3>3. QED BY <3>2 DEF Given, WebOps
  <2>2. ASSUME NEW op \in {"defer", "unlock"}, c = Cmd(op, None) PROVE Given(c) /\ c.op \in WebOps
    BY <2>2, CmdIs DEF Given, WebOps
  <2>3. ASSUME NEW op \in {"output", "collection", "settings"}, NEW n \in Clusters, c = Cmd(op, n) PROVE Given(c) /\ c.op \in WebOps
    BY <2>3, CmdIs DEF Given, WebOps
  <2>4. c = Cmd("provision", Local) => Given(c) /\ c.op \in WebOps
    BY CmdIs, FormsAssumption DEF Given, WebOps
  <2>5. ASSUME NEW n \in Clusters, c = [Cmd("default", n) EXCEPT !.job = <<n>>] PROVE Given(c) /\ c.op \in WebOps
    <3> DEFINE b == Cmd("default", n)
    <3>1. Shaped(b) /\ b.op = "default" /\ b.name = n /\ c = [b EXCEPT !.job = <<n>>]
      BY <2>5, CmdIs
    <3> HIDE DEF b
    <3>2. Shaped(c) /\ c.op = "default" /\ c.name = n
      BY <3>1 DEF Shaped
    <3>3. QED BY <3>2 DEF Given, WebOps
  <2>6. QED BY <1>1, <2>1, <2>2, <2>3, <2>4, <2>5 DEF OnboardingForms
<1>2. CASE c \in HostForms(a)
  <2>1. ASSUME NEW n \in Clusters, NEW o, NEW h \in Forms, c = [Cmd("host", n) EXCEPT !.orig = o, !.host = h] PROVE Given(c) /\ c.op \in WebOps
    <3> DEFINE b == Cmd("host", n)
    <3>1. Shaped(b) /\ b.op = "host" /\ b.name = n /\ c = [b EXCEPT !.orig = o, !.host = h]
      BY <2>1, CmdIs
    <3> HIDE DEF b
    <3>2. Shaped(c) /\ c.op = "host" /\ c.name = n /\ c.host = h
      BY <3>1 DEF Shaped
    <3>3. QED BY <3>2, FormsAssumption DEF Given, WebOps
  <2>2. ASSUME NEW n, NEW i, c = [Cmd("delhost", n) EXCEPT !.mem = i] PROVE Given(c) /\ c.op \in WebOps
    <3> DEFINE b == Cmd("delhost", n)
    <3>1. Shaped(b) /\ b.op = "delhost" /\ c = [b EXCEPT !.mem = i]
      BY <2>2, CmdIs
    <3> HIDE DEF b
    <3>2. Shaped(c) /\ c.op = "delhost"
      BY <3>1 DEF Shaped
    <3>3. QED BY <3>2 DEF Given, WebOps
  <2> DEFINE f(n, o, h) == [Cmd("host", n) EXCEPT !.orig = o, !.host = h]
             g(r) == [Cmd("delhost", r.name) EXCEPT !.mem = r.id]
  <2>3. HostForms(a) = {g(r) : r \in {page[a][i] : i \in DOMAIN page[a]}}
                       \cup UNION {{f(n, o, h) : o \in Origins(n, HostRows(hosts)), h \in Forms} : n \in Clusters}
    BY DEF HostForms
  <2>4. /\ \A n \in Clusters, h \in Forms : \A o : c = f(n, o, h) => Given(c) /\ c.op \in WebOps
        /\ \A r : c = g(r) => Given(c) /\ c.op \in WebOps
    BY <2>1, <2>2
  <2> HIDE DEF f, g
  <2>5. ASSUME NEW n \in Clusters, c \in {f(n, o, h) : o \in Origins(n, HostRows(hosts)), h \in Forms} PROVE Given(c) /\ c.op \in WebOps
    <3>1. \E o \in Origins(n, HostRows(hosts)), h \in Forms : c = f(n, o, h)
      BY <2>5
    <3>2. \A o : \A h \in Forms : c = f(n, o, h) => Given(c) /\ c.op \in WebOps
      BY <2>4
    <3>3. QED BY <3>1, <3>2
  <2>6. c \in {g(r) : r \in {page[a][i] : i \in DOMAIN page[a]}} => Given(c) /\ c.op \in WebOps
    BY <2>4
  <2>7. QED BY <1>2, <2>3, <2>5, <2>6
<1>3. CASE c \in ClusterForms
  <2>1. ASSUME NEW n \in Clusters, NEW o, c = [Cmd("cluster", n) EXCEPT !.orig = o] PROVE Given(c) /\ c.op \in WebOps
    <3> DEFINE b == Cmd("cluster", n)
    <3>1. Shaped(b) /\ b.op = "cluster" /\ b.name = n /\ c = [b EXCEPT !.orig = o]
      BY <2>1, CmdIs
    <3> HIDE DEF b
    <3>2. Shaped(c) /\ c.op = "cluster" /\ c.name = n
      BY <3>1 DEF Shaped
    <3>3. QED BY <3>2 DEF Given, WebOps
  <2>2. ASSUME NEW i, c = [Cmd("delcluster", None) EXCEPT !.mem = i] PROVE Given(c) /\ c.op \in WebOps
    <3> DEFINE b == Cmd("delcluster", None)
    <3>1. Shaped(b) /\ b.op = "delcluster" /\ c = [b EXCEPT !.mem = i]
      BY <2>2, CmdIs
    <3> HIDE DEF b
    <3>2. Shaped(c) /\ c.op = "delcluster"
      BY <3>1 DEF Shaped
    <3>3. QED BY <3>2 DEF Given, WebOps
  <2> DEFINE f(n, o) == [Cmd("cluster", n) EXCEPT !.orig = o]
             g(i) == [Cmd("delcluster", None) EXCEPT !.mem = i]
  <2>3. ClusterForms = {g(i) : i \in DOMAIN ClusterRows(hosts)} \cup UNION {{f(n, o) : o \in Origins(n, ClusterRows(hosts))} : n \in Clusters}
    BY DEF ClusterForms
  <2>4. /\ \A n \in Clusters : \A o : c = f(n, o) => Given(c) /\ c.op \in WebOps
        /\ \A i : c = g(i) => Given(c) /\ c.op \in WebOps
    BY <2>1, <2>2
  <2> HIDE DEF f, g
  <2>5. ASSUME NEW n \in Clusters, c \in {f(n, o) : o \in Origins(n, ClusterRows(hosts))} PROVE Given(c) /\ c.op \in WebOps
    <3>1. \E o \in Origins(n, ClusterRows(hosts)) : c = f(n, o)
      BY <2>5
    <3>2. QED BY <2>4, <3>1
  <2>6. c \in {g(i) : i \in DOMAIN ClusterRows(hosts)} => Given(c) /\ c.op \in WebOps
    BY <2>4
  <2>7. QED BY <1>3, <2>3, <2>5, <2>6
<1>4. CASE c \in JobForms
  <2>1. ASSUME NEW n, NEW h, c = [Cmd("savejob", n) EXCEPT !.job = <<n>>, !.got = [host |-> n, export |-> "none"], !.how = h]
        PROVE  Given(c) /\ c.op \in WebOps
    <3> DEFINE b == Cmd("savejob", n)
               g == [host |-> n, export |-> "none"]
    <3>1. Shaped(b) /\ b.op = "savejob" /\ c = [b EXCEPT !.job = <<n>>, !.got = g, !.how = h] /\ g.export = "none"
      BY <2>1, CmdIs
    <3> HIDE DEF b, g
    <3>2. Shaped(c) /\ c.op = "savejob" /\ c.got = g
      BY <3>1 DEF Shaped
    <3>3. QED BY <3>1, <3>2 DEF Given, WebOps, Exports
  <2>2. ASSUME NEW j, c = [Cmd("deljob", None) EXCEPT !.job = j] PROVE Given(c) /\ c.op \in WebOps
    <3> DEFINE b == Cmd("deljob", None)
    <3>1. Shaped(b) /\ b.op = "deljob" /\ c = [b EXCEPT !.job = j]
      BY <2>2, CmdIs
    <3> HIDE DEF b
    <3>2. Shaped(c) /\ c.op = "deljob"
      BY <3>1 DEF Shaped
    <3>3. QED BY <3>2 DEF Given, WebOps
  <2>3. QED BY <1>4, <2>1, <2>2 DEF JobForms
<1>5. QED BY <1>1, <1>2, <1>3, <1>4 DEF WebCommands

\* and every command line what its command needs.
LEMMA CliGiven == ASSUME NEW c, c \in CliCommands PROVE Given(c) /\ c.op \in CliOps
<1>1. ASSUME NEW op \in {"add", "update"}, NEW n \in Clusters, NEW h \in Forms, c = [Cmd(op, n) EXCEPT !.host = h] PROVE Given(c) /\ c.op \in CliOps
  <2> DEFINE b == Cmd(op, n)
  <2>1. Shaped(b) /\ b.op = op /\ b.name = n /\ c = [b EXCEPT !.host = h]
    BY <1>1, CmdIs
  <2> HIDE DEF b
  <2>2. Shaped(c) /\ c.op = op /\ c.name = n /\ c.host = h
    BY <2>1 DEF Shaped
  <2>3. QED BY <2>2, FormsAssumption DEF Given, CliOps
<1>2. ASSUME NEW n, c = [Cmd("remove", n) EXCEPT !.target = n] PROVE Given(c) /\ c.op \in CliOps
  <2> DEFINE b == Cmd("remove", n)
  <2>1. Shaped(b) /\ b.op = "remove" /\ c = [b EXCEPT !.target = n]
    BY <1>2, CmdIs
  <2> HIDE DEF b
  <2>2. Shaped(c) /\ c.op = "remove"
    BY <2>1 DEF Shaped
  <2>3. QED BY <2>2 DEF Given, CliOps
<1>3. ASSUME NEW op \in {"context", "clear", "init"}, c = Cmd(op, None) PROVE Given(c) /\ c.op \in CliOps
  BY <1>3, CmdIs DEF Given, CliOps
<1>4. ASSUME NEW n, c = [Cmd("addjob", n) EXCEPT !.job = <<n>>, !.got = [host |-> n, export |-> "none"]] PROVE Given(c) /\ c.op \in CliOps
  <2> DEFINE b == Cmd("addjob", n)
             g == [host |-> n, export |-> "none"]
  <2>1. Shaped(b) /\ b.op = "addjob" /\ c = [b EXCEPT !.job = <<n>>, !.got = g] /\ g.export = "none"
    BY <1>4, CmdIs
  <2> HIDE DEF b, g
  <2>2. Shaped(c) /\ c.op = "addjob" /\ c.got = g
    BY <2>1 DEF Shaped
  <2>3. QED BY <2>1, <2>2 DEF Given, CliOps, Exports
<1>5. ASSUME NEW j, c = [Cmd("dropjob", None) EXCEPT !.job = j] PROVE Given(c) /\ c.op \in CliOps
  <2> DEFINE b == Cmd("dropjob", None)
  <2>1. Shaped(b) /\ b.op = "dropjob" /\ c = [b EXCEPT !.job = j]
    BY <1>5, CmdIs
  <2> HIDE DEF b
  <2>2. Shaped(c) /\ c.op = "dropjob"
    BY <2>1 DEF Shaped
  <2>3. QED BY <2>2 DEF Given, CliOps
<1> DEFINE f(op, n, h) == [Cmd(op, n) EXCEPT !.host = h]
           g(n) == [Cmd("remove", n) EXCEPT !.target = n]
           k(n) == [Cmd("addjob", n) EXCEPT !.job = <<n>>, !.got = [host |-> n, export |-> "none"]]
           l(j) == [Cmd("dropjob", None) EXCEPT !.job = j]
<1>6. /\ HostCommands = {f("add", n, h) : n \in Clusters, h \in Forms} \cup {f("update", n, h) : n \in Clusters, h \in Forms} \cup {g(n) : n \in Names}
      /\ JobCommands = {k(n) : n \in Clusters} \cup {l(j) : j \in DOMAIN jobs}
  BY DEF HostCommands, JobCommands
<1>7. /\ \A op \in {"add", "update"}, n \in Clusters, h \in Forms : c = f(op, n, h) => Given(c) /\ c.op \in CliOps
      /\ \A n : c = g(n) => Given(c) /\ c.op \in CliOps
      /\ \A op \in {"context", "clear", "init"} : c = Cmd(op, None) => Given(c) /\ c.op \in CliOps
      /\ \A n : c = k(n) => Given(c) /\ c.op \in CliOps
      /\ \A j : c = l(j) => Given(c) /\ c.op \in CliOps
  BY <1>1, <1>2, <1>3, <1>4, <1>5
<1> HIDE DEF f, g, k, l
<1>8. QED BY <1>6, <1>7 DEF CliCommands

\* Where the programs start.
FirstSteps(op, s) ==
  /\ Head(s) \in {"load", "create", "confirm", "confirmAny", "confirmHost", "row", "acquire", "absent", "fetch", "loadJobs", "parse"}
  /\ op = "collection" => Head(s) = "confirmHost"
  /\ op \in {"host", "remove"} => Head(s) = "parse"
  /\ op \in {"settings", "init", "default"} => Head(s) = "load"
  /\ op \in {"output", "provision"} => Head(s) \in {"confirm", "confirmAny"}
  /\ Head(s) = "parse" => s[2] = "write"
  /\ op = "defer" => s[2] = "exporter"

\* So the first steps of a program have what they need.
LEMMA ProgramStarts == ASSUME NEW op \in WebOps \cup CliOps PROVE FirstSteps(op, Program[op])
<1>1. FirstSteps("identity", SaveIdentity) /\ FirstSteps("unlock", SaveKeystore) /\ FirstSteps("output", SaveOutput)
  BY DEF FirstSteps, SaveIdentity, SaveKeystore, SaveOutput, Reload, Deploy
<1>2. FirstSteps("provision", Provision) /\ FirstSteps("collection", SaveCollection) /\ FirstSteps("defer", Defer)
  BY DEF FirstSteps, Provision, SaveCollection, Defer, Reload, Deploy, Undefer
<1>3. FirstSteps("default", DefaultJob) /\ FirstSteps("settings", UpdateSettings) /\ FirstSteps("host", UpsertHost)
  BY DEF FirstSteps, DefaultJob, AddJob, UpdateSettings, UpsertHost, Undefer
<1>4. FirstSteps("cluster", UpsertCluster) /\ FirstSteps("delhost", DeleteHost) /\ FirstSteps("delcluster", DeleteCluster)
  BY DEF FirstSteps, UpsertCluster, DeleteHost, DeleteCluster, Undefer
<1>5. FirstSteps("savejob", WithJobs) /\ FirstSteps("deljob", WithJobs) /\ FirstSteps("add", AddHost) /\ FirstSteps("update", UpdateHost)
  BY DEF FirstSteps, WithJobs, AddHost, UpdateHost, Undefer
<1>6. /\ FirstSteps("remove", RemoveHost) /\ FirstSteps("context", EditContext) /\ FirstSteps("clear", EditContext)
      /\ FirstSteps("addjob", EditJobs) /\ FirstSteps("dropjob", EditJobs) /\ FirstSteps("init", <<"load", "plan">>)
  BY DEF FirstSteps, RemoveHost, EditContext, EditJobs, Undefer
<1>7. QED BY <1>1, <1>2, <1>3, <1>4, <1>5, <1>6 DEF WebOps, CliOps, Program

\* A command starts, alone or among others.
LEMMA StartStep == ASSUME Conduct, NEW a \in Actors, StartWeb(a) \/ StartCli(a) PROVE Conduct'
<1>1. PICK c : Given(c) /\ Start(a, c) /\ (c.op \in WebOps => a \in Web)
  <2>1. CASE StartWeb(a)
    BY <2>1, WebGiven DEF StartWeb
  <2>2. CASE StartCli(a)
    <3>1. PICK c \in CliCommands : Start(a, c)
      BY <2>2 DEF StartCli
    <3>2. Given(c) /\ c.op \in CliOps
      BY CliGiven
    <3>3. c.op \notin WebOps
      BY <3>2 DEF WebOps, CliOps
    <3>4. QED BY <3>1, <3>2, <3>3
  <2>3. QED BY <2>1, <2>2
<1> DEFINE s == Program[c.op]
           w == IF ~Overlap(a) THEN "nobody" ELSE IF a \in Web /\ \A b \in Cli : ~Running(b) THEN "server" ELSE "others"
           f == IF Overlap(a) THEN None ELSE [hosts |-> hosts, jobs |-> jobs, config |-> config]
           u == [c EXCEPT !.with = w, !.before = f]
           q == [u EXCEPT !.todo = s]
<1>2. /\ ~Running(a) /\ Becomes(a, q) /\ UNCHANGED <<hosts, jobs, config, exporter, kibanaLink, lock>>
  <2>1. [c EXCEPT !.todo = s, !.with = w, !.before = f] = q
    <3> HIDE DEF s, w, f
    <3>1. Shaped(c)
      BY <1>1 DEF Given
    <3>2. QED BY <3>1 DEF Shaped
  <2>2. Becomes(a, [c EXCEPT !.todo = s, !.with = w, !.before = f])
    BY <1>1 DEF Start
  <2>3. QED BY <1>1, <2>1, <2>2 DEF Start, files, server
<1>3. /\ OnCourse(c.op, s) /\ s # <<>> /\ FirstSteps(c.op, s) /\ c.op \in WebOps \cup CliOps
      /\ c.op = "init" => s = <<"load", "plan">>
  BY <1>1, ProgramsOnCourse, ProgramStarts DEF Given
<1>4. ~Overlap(a) => f.hosts = hosts /\ f.jobs = jobs /\ f.config = config
  OBVIOUS
<1>5. /\ ~Overlap(a) => w = "nobody"
      /\ \A b \in Actors \ {a} : Running(b) => w # "nobody" /\ (b \in Cli => w = "others")
  BY DEF Overlap
<1> HIDE DEF s, w, f
<1>6. Shaped(u) /\ u.with = w /\ u.before = f /\ u.op = c.op /\ u.name = c.name /\ u.host = c.host /\ u.got = c.got /\ u.wf = c.wf
  <2>1. u = [c EXCEPT !.with = w, !.before = f] /\ Shaped(c)
    BY <1>1 DEF Given
  <2> HIDE DEF u
  <2>2. QED BY <2>1 DEF Shaped
<1> HIDE DEF u
<1>7. Shaped(q) /\ q.todo = s /\ Fields(q, u)
  BY <1>6, WithTodo
<1> HIDE DEF q
<1>8. /\ q.op = c.op /\ q.with = w /\ q.before = f /\ q.name = c.name /\ q.host = c.host /\ q.got = c.got /\ q.wf = c.wf
  BY <1>6, <1>7 DEF Fields
<1>9. CommandInv(q)
  <2>1. Arguments(q)
    BY <1>1, <1>3, <1>7, <1>8 DEF Given, Arguments, Unplanned
  <2>2. Head(s) \notin UsesConfig(c.op) /\ Head(s) \notin UsesHosts(c.op) /\ Head(s) \notin {"saveJobs", "release"}
    BY <1>3 DEF FirstSteps, UsesConfig, UsesHosts, ConfigSteps
  <2>3. /\ Head(s) = "loadJobs" => c.op \notin {"default", "init"}
        /\ c.op = "settings" => Head(s) = "load"
        /\ Head(s) # "source" /\ (Head(s) = "parse" => s[2] = "write") /\ (c.op = "collection" => Head(s) = "confirmHost")
    BY <1>3 DEF FirstSteps
  <2>4. Knows(q)
    BY <1>7, <1>8, <2>2, <2>3 DEF Knows
  <2>5. QED BY <1>3, <1>7, <1>8, <2>1, <2>4 DEF CommandInv
<1>10. /\ ProcInv' /\ CompanyInv' /\ proc'[a] = q /\ Running(a)' /\ (clean' <=> Sole(a))
       /\ \A b \in Actors \ {a} :
            /\ ~Alone(b)' /\ (Running(b)' <=> Running(b))
            /\ Running(b) => /\ proc'[b].todo = proc[b].todo /\ proc'[b].op = proc[b].op /\ proc'[b].seen = proc[b].seen
                             /\ proc'[b].with = Company(a, b)
  <2>1. q.op \in WebOps => a \in Web
    BY <1>1, <1>8
  <2>2. Sole(a) => q.with = "nobody"
    BY <1>5, <1>8 DEF Sole
  <2>3. \A b \in Actors \ {a} : Running(b) => q.with # "nobody" /\ (b \in Cli => q.with = "others")
    BY <1>5, <1>8
  <2>4. QED BY <1>2, <1>9, <2>1, <2>2, <2>3, Moved DEF Conduct
<1>11. MutexInv'
  <2>1. ~AtStep(a, "release") /\ ~AtStep(a, "release")'
    BY <1>2, <1>3, <1>7, <1>10 DEF AtStep, FirstSteps
  <2>2. \A b \in Actors \ {a} :
          /\ Running(b)' <=> Running(b)
          /\ Running(b) => /\ proc'[b].todo = proc[b].todo /\ proc'[b].op = proc[b].op /\ proc'[b].seen = proc[b].seen
                           /\ proc'[b].with = Company(a, b)
    BY <1>10
  <2>3. QED BY <1>2, <2>1, <2>2, MutexKept DEF Conduct
<1>12. AloneInv'
  <2>1. ASSUME Alone(a)' PROVE AloneKnows(q)
    <3>1. w = "nobody"
      BY <1>8, <1>10, <2>1 DEF Alone
    <3>2. ~Overlap(a)
      BY <1>5, <3>1 DEF Overlap
    <3>3. q.before.hosts = hosts /\ q.before.jobs = jobs /\ q.before.config = config
      BY <1>4, <1>8, <3>2
    <3>4. Untouched(q)
      BY <3>3 DEF Untouched, Unchanged
    <3>5. Head(s) \notin FreshConfig(c.op) /\ Head(s) \notin {"write", "source", "defer"}
      BY <1>3 DEF FirstSteps, FreshConfig, ConfigSteps
    <3>6. Switches(q)
      BY <1>3, <1>7, <1>8 DEF Switches, FirstSteps
    <3>7. c.op = "defer" => s[2] # "defer"
      BY <1>3 DEF FirstSteps
    <3>8. QED BY <1>7, <1>8, <3>4, <3>5, <3>6, <3>7 DEF AloneKnows
  <2>2. Alone(a)' => AloneKnows(proc[a])'
    BY <1>2, <1>10, <2>1, KnowsKept
  <2>3. QED BY <1>10, <2>2 DEF AloneInv
<1>13. DeferralInv'
  <2>1. ~(Sole(a) /\ config.deferred /\ CollectHosts(hosts) # {})
    BY <1>2 DEF Conduct, DeferralInv, Sole, Overlap
  <2>2. QED BY <1>2, <1>10, <2>1 DEF DeferralInv, CollectHosts, Has
<1>14. QED BY <1>10, <1>11, <1>12, <1>13 DEF Conduct

\* Nothing happens to the commands.
LEMMA SameConduct ==
  ASSUME Conduct, UNCHANGED <<hosts, jobs, config, exporter, kibanaLink, lock, proc, clean>> PROVE Conduct'
<1>1. UNCHANGED <<hosts, jobs, config, exporter, kibanaLink, lock, proc, clean>>
  OBVIOUS
<1>2. ProcInv' /\ CompanyInv'
  BY <1>1 DEF Conduct, ProcInv, CompanyInv, Running, Alone
<1>3. MutexInv'
  BY <1>1 DEF Conduct, MutexInv, AtStep, Running
<1>4. AloneInv'
  <2>1. ASSUME NEW b \in Actors, Alone(b)' PROVE AloneKnows(proc[b])'
    <3>1. AloneKnows(proc[b]) /\ proc'[b] = proc[b]
      BY <1>1, <2>1 DEF Conduct, AloneInv, Alone, Running
    <3> DEFINE q == proc[b]
    <3>2. AloneKnows(q) /\ proc'[b] = q
      BY <3>1
    <3> HIDE DEF q
    <3>3. QED BY <1>1, <3>2, KnowsKept
  <2>2. QED BY <2>1 DEF AloneInv
<1>5. DeferralInv'
  BY <1>1 DEF Conduct, DeferralInv, CollectHosts, Has, Running, Clears
<1>6. QED BY <1>2, <1>3, <1>4, <1>5 DEF Conduct

LEMMA PageStep == ASSUME Conduct, NEW a \in Actors, OpenPage(a) PROVE Conduct'
<1>1. UNCHANGED <<hosts, jobs, config, exporter, kibanaLink, lock, proc, clean>>
  BY DEF OpenPage, files, server, rest
<1>2. QED BY <1>1, SameConduct

\* After a restart every command that still runs has shared its time.
LEMMA RestartStep == ASSUME Conduct, Restart PROVE Conduct'
<1>1. /\ \A a \in Web : ~Running(a)
      /\ proc' = [b \in Actors |-> IF Running(b) THEN [proc[b] EXCEPT !.with = "others", !.before = None] ELSE proc[b]]
      /\ clean' = (clean /\ NobodyRuns) /\ UNCHANGED <<hosts, jobs, lock>> /\ config'.deferred = config.deferred
  <2>1. UNCHANGED <<hosts, jobs, lock>> /\ config'.deferred = config.deferred
    <3>1. [config EXCEPT !.output = active].deferred = config.deferred
      OBVIOUS
    <3>2. QED BY <3>1 DEF Restart
  <2>2. QED BY <2>1 DEF Restart
<1>2. ASSUME NEW b \in Actors, Running(b)
      PROVE  /\ Running(b)' /\ proc'[b].todo = proc[b].todo /\ proc'[b].op = proc[b].op /\ proc'[b].with = "others"
             /\ CommandInv(proc'[b])
  <2>1. proc'[b] = [proc[b] EXCEPT !.with = "others", !.before = None]
    BY <1>1, <1>2
  <2>2. CommandInv(proc[b])
    BY <1>2 DEF Conduct, ProcInv
  <2> DEFINE r == proc'[b] p == proc[b]
  <2>3. Shaped(p)
    BY <2>2 DEF CommandInv
  <2>4. /\ Shaped(r) /\ r.with = "others" /\ r.todo = p.todo /\ r.op = p.op /\ r.name = p.name /\ r.host = p.host
        /\ r.wf = p.wf /\ r.target = p.target /\ r.saw = p.saw /\ r.cfg = p.cfg /\ r.seen = p.seen /\ r.got = p.got
        /\ r.mem = p.mem
    BY <2>1, <2>3 DEF Shaped
  <2> HIDE DEF r, p
  <2>5. CommandInv(p) => CommandInv(r)
    BY <2>4 DEF CommandInv, Arguments, Unplanned, Knows
  <2>6. QED BY <1>2, <2>2, <2>4, <2>5 DEF Running, r, p
<1>3. \A b \in Actors : Running(b)' <=> Running(b)
  <2>1. \A b \in Actors : ~Running(b) => proc'[b] = proc[b]
    BY <1>1
  <2>2. QED BY <1>2, <2>1 DEF Running
<1>4. ProcInv'
  <2>1. DOMAIN proc' = Actors
    BY <1>1
  <2>2. ASSUME NEW b \in Actors, Running(b)' PROVE CommandInv(proc'[b]) /\ (proc'[b].op \in WebOps => b \in Web)
    BY <1>2, <1>3, <2>2 DEF Conduct, ProcInv
  <2>3. QED BY <2>1, <2>2 DEF ProcInv
<1>5. CompanyInv'
  <2>1. \A a, b \in Actors : a # b /\ Running(a)' /\ Running(b)' => proc'[a].with # "nobody" /\ (b \in Cli => proc'[a].with = "others")
    BY <1>2, <1>3
  <2>2. clean' => \A a \in Actors : ~Running(a)'
    BY <1>1, <1>3 DEF NobodyRuns
  <2>3. QED BY <2>1, <2>2 DEF CompanyInv
<1>6. MutexInv'
  <2>1. lock = None
    BY <1>1 DEF Conduct, MutexInv, AtStep
  <2>2. ASSUME NEW b \in Actors PROVE ~AtStep(b, "release")'
    <3>1. ~AtStep(b, "release")
      BY <2>1, ActorsAssumption DEF Conduct, MutexInv
    <3>2. QED BY <1>2, <1>3, <3>1 DEF AtStep
  <2>3. QED BY <1>1, <2>1, <2>2 DEF MutexInv
<1>7. AloneInv'
  BY <1>2, <1>3 DEF AloneInv, Alone
<1>8. DeferralInv'
  <2>1. ~(clean' /\ config.deferred /\ CollectHosts(hosts) # {})
    BY <1>1 DEF Conduct, DeferralInv, NobodyRuns
  <2>2. QED BY <1>1, <2>1 DEF DeferralInv, CollectHosts, Has
<1>9. QED BY <1>4, <1>5, <1>6, <1>7, <1>8 DEF Conduct

----------------------------------------------------------------------------
(* The types, and what hosts.yml holds                                        *)

\* What a server starts with.
LEMMA StartExporterIs ==
  ASSUME NEW hs, IsHosts(hs), NEW c, IsConfig(c), NEW w, NEW st PROVE StartExporter(hs, c, w, st) \in ExporterStates
<1>1. CASE Resolves(hs, c, w, FALSE) /\ ~c.context /\ w.env = "none"
  <2>1. c.output \in DOMAIN hs
    BY <1>1 DEF Resolves, SavedResolves, Is
  <2>2. c.output \in Names /\ hs[c.output].url \in {"u1", "u2"}
    BY <2>1 DEF IsHosts, HostRecords
  <2>3. QED BY <1>1, <2>2 DEF StartExporter, ExporterStates
<1>2. CASE ~(Resolves(hs, c, w, FALSE) /\ ~c.context /\ w.env = "none")
  BY <1>2 DEF StartExporter, ExporterStates
<1>3. QED BY <1>1, <1>2

\* What an edit of the configuration keeps.
LEMMA ConfigKept ==
  ASSUME NEW c, IsConfig(c)
  PROVE  /\ \A b \in BOOLEAN : /\ IsConfig([c EXCEPT !.user = b]) /\ IsConfig([c EXCEPT !.deferred = b])
                               /\ IsConfig([c EXCEPT !.context = b])
         /\ \A wf \in Workflows : IsConfig([c EXCEPT !.workflow = wf])
         /\ \A n \in Names : IsConfig([c EXCEPT !.output = n])
         /\ \A j : IsConfig([c EXCEPT !.job = j])
BY DEF IsConfig

\* Every edit of esdiag.yml keeps its form,
LEMMA SavedConfig ==
  ASSUME NEW p, CommandInv(p), Head(p.todo) \in ConfigSteps PROVE IsConfig(Saved(p, Head(p.todo)))
<1> DEFINE h == Head(p.todo)
           c == p.cfg
<1>1. IsConfig(c) /\ p.op \in WebOps \cup CliOps /\ h \in StepsOf(p.op) /\ Arguments(p)
  BY HeadsLive DEF CommandInv, Knows, UsesConfig
<1>2. h = "workflow" => p.wf \in Workflows
  <2>1. h = "workflow" => p.op \in {"identity", "init"}
    BY <1>1 DEF StepsOf, WebOps, CliOps
  <2>2. QED BY <1>1, <2>1 DEF Arguments, Unplanned
<1>3. h = "select" => p.name \in Names
  <2>1. h = "select" => p.op \in {"output", "provision", "settings", "init"}
    BY <1>1 DEF StepsOf, WebOps, CliOps
  <2>2. h = "select" => p.name \in Clusters
    BY <1>1, <2>1 DEF Arguments, Unplanned
  <2>3. QED BY <2>2, NamesAssumption
<1>4. h = "user" => Saved(p, h) = [c EXCEPT !.user = TRUE]
  BY DEF Saved
<1>5. h = "undefer" => Saved(p, h) = [c EXCEPT !.deferred = FALSE]
  BY DEF Saved, Undeferred
<1>6. h = "defer" => Saved(p, h) = [c EXCEPT !.deferred = TRUE]
  BY DEF Saved
<1>7. h = "context" => Saved(p, h) = [c EXCEPT !.context = (p.op = "context")]
  BY DEF Saved
<1>8. h = "default" => Saved(p, h) = [c EXCEPT !.job = p.job]
  BY DEF Saved
<1>9. h = "nodefault" => Saved(p, h) = [c EXCEPT !.job = None]
  BY DEF Saved
<1>10. h = "stamp" => Saved(p, h) = c
  BY DEF Saved
<1>11. h = "workflow" => Saved(p, h) = [[c EXCEPT !.workflow = p.wf] EXCEPT !.deferred = (c.deferred /\ c.workflow = p.wf)]
  <2>1. h = "workflow" => Saved(p, h) = [c EXCEPT !.workflow = p.wf, !.deferred = @ /\ c.workflow = p.wf]
    BY DEF Saved
  <2>2. IsConfig(c)
    BY <1>1
  <2> HIDE DEF c
  <2>3. QED BY <2>1, <2>2 DEF IsConfig
<1>12. h = "select" => Saved(p, h) = [[c EXCEPT !.output = p.name] EXCEPT !.context = FALSE]
  <2>1. h = "select" => Saved(p, h) = [c EXCEPT !.output = p.name, !.context = FALSE]
    BY DEF Saved, Selected
  <2>2. IsConfig(c)
    BY <1>1
  <2> HIDE DEF c
  <2>3. QED BY <2>1, <2>2 DEF IsConfig
<1>13. h \in ConfigSteps
  OBVIOUS
<1>14. (c.deferred /\ c.workflow = p.wf) \in BOOLEAN /\ (p.op = "context") \in BOOLEAN
  OBVIOUS
<1> HIDE DEF h, c
<1>15. h = "workflow" => IsConfig(Saved(p, h))
  BY <1>1, <1>2, <1>11, <1>14, ConfigKept
<1>16. h = "select" => IsConfig(Saved(p, h))
  BY <1>1, <1>3, <1>12, ConfigKept
<1>17. h \in {"user", "undefer", "defer", "context"} => IsConfig(Saved(p, h))
  <2>1. (h = "user" => IsConfig(Saved(p, h))) /\ (h = "defer" => IsConfig(Saved(p, h)))
    BY <1>1, <1>4, <1>6, ConfigKept
  <2>2. h = "undefer" => IsConfig(Saved(p, h))
    BY <1>1, <1>5, ConfigKept
  <2>3. h = "context" => IsConfig(Saved(p, h))
    <3>1. IsConfig([c EXCEPT !.context = (p.op = "context")])
      BY <1>1, <1>14, ConfigKept
    <3>2. QED BY <1>7, <3>1
  <2>4. QED BY <2>1, <2>2, <2>3
<1>18. h \in {"default", "nodefault", "stamp"} => IsConfig(Saved(p, h))
  BY <1>1, <1>8, <1>9, <1>10, ConfigKept
<1>19. IsConfig(Saved(p, h))
  BY <1>13, <1>15, <1>16, <1>17, <1>18 DEF ConfigSteps
<1>20. QED BY <1>19 DEF h

\* and every edit of jobs.yml.
LEMMA JobsKept ==
  ASSUME NEW p, CommandInv(p), Head(p.todo) \in {"saveJobs", "release"} PROVE IsJobs(JobsOf(p))
<1>1. IsJobs(p.seen) /\ p.op \in WebOps \cup CliOps /\ Head(p.todo) \in StepsOf(p.op) /\ Arguments(p) /\ Knows(p)
  BY HeadsLive DEF CommandInv, Knows
<1>2. p.op \in {"default", "init", "addjob", "dropjob", "savejob", "deljob"}
  BY <1>1 DEF StepsOf, WebOps, CliOps
<1>3. CASE p.op \in {"deljob", "dropjob"}
  BY <1>1, <1>3 DEF JobsOf, IsJobs, Drop
<1>4. CASE p.op \in {"default", "init", "addjob", "savejob"}
  <2>1. p.got.export \in Exports
    <3>1. CASE p.op \in {"addjob", "savejob"}
      BY <1>1, <3>1 DEF Arguments
    <3>2. CASE p.op \in {"default", "init"}
      <4>1. Head(p.todo) = "saveJobs"
        BY <1>1, <3>2 DEF StepsOf
      <4>2. QED BY <1>1, <3>2, <4>1 DEF Knows
    <3>3. QED BY <1>4, <3>1, <3>2
  <2> DEFINE js == p.seen
             g == p.got
             j == p.job
  <2>2. JobsOf(p) = Put(js, j, g) /\ IsJobs(js) /\ g.export \in Exports
    BY <1>1, <1>4, <2>1 DEF JobsOf
  <2> HIDE DEF js, g, j
  <2>3. QED BY <2>2 DEF IsJobs, Put
<1>5. QED BY <1>2, <1>3, <1>4

\* Files that nobody wrote keep their types.
LEMMA SameFiles ==
  ASSUME TypeOK, Readable(hosts), UNCHANGED <<files, server>>, started' \in 0 .. MaxCommands, losses' \in 0 .. MaxLosses
  PROVE  TypeOK' /\ Readable(hosts)'
<1>1. UNCHANGED <<hosts, jobs, config, active, store, exporter, kibanaLink, lock>>
  BY DEF files, server
<1>2. QED BY <1>1 DEF TypeOK, Readable, Has, Is

\* A file keeps its type: what an action changes is of the kind it was.
LEMMA KeepsTypes ==
  ASSUME TypeOK, Readable(hosts), IsHosts(hosts'), Readable(hosts'), IsJobs(jobs'), IsConfig(config'),
         active' \in Names \cup {None}, store' \in BOOLEAN, lock' \in Web \cup {None},
         exporter' \in ExporterStates, kibanaLink' \in {None} \cup (Names \X {"u1", "u2"}),
         started' \in 0 .. MaxCommands, losses' \in 0 .. MaxLosses
  PROVE  TypeOK' /\ Readable(hosts)'
<1>1. Readable(hosts)'
  BY DEF Readable, Has, Is
<1>2. IsHosts(hosts)' /\ IsJobs(jobs)' /\ IsConfig(config)'
  BY DEF IsHosts, IsJobs, IsConfig
<1>3. QED BY <1>1, <1>2 DEF TypeOK, ExporterStates

\* What TypeOK says of an unchanged file.
LEMMA TypesAre ==
  ASSUME TypeOK
  PROVE  /\ IsHosts(hosts) /\ IsJobs(jobs) /\ IsConfig(config)
         /\ active \in Names \cup {None} /\ store \in BOOLEAN /\ lock \in Web \cup {None}
         /\ exporter \in ExporterStates /\ kibanaLink \in {None} \cup (Names \X {"u1", "u2"})
         /\ started \in 0 .. MaxCommands /\ losses \in 0 .. MaxLosses
BY DEF TypeOK, ExporterStates

\* The types after each step that writes.
LEMMA WriteTypes ==
  ASSUME TypeOK, Readable(hosts), Conduct, NEW a \in Actors, Write(a) PROVE TypeOK' /\ Readable(hosts)'
<1> DEFINE p == proc[a]
           hs == Edited(p)
<1>1. CommandInv(p) /\ Head(p.todo) \in {"write", "source", "active"}
  BY DEF Write, AtStep, Conduct, ProcInv, Running
<1>2. IsHosts(hs)
  BY <1>1, EditedIs
<1>3. IsHosts(Written(hs)) /\ (Writable(hs) => Readable(Written(hs)))
  BY <1>2, HostsKept, WrittenReadable
<1>4. /\ \/ Writable(hs) /\ hosts' = Written(hs) /\ store' = (store \/ p.op \in {"output", "provision", "collection", "init"})
         \/ UNCHANGED <<hosts, store>>
      /\ UNCHANGED <<jobs, config, active, exporter, kibanaLink, lock, started, losses>>
  BY DEF Write, server
<1> HIDE DEF hs, p
<1>5. IsHosts(hosts') /\ Readable(hosts') /\ store' \in BOOLEAN
  BY <1>3, <1>4, TypesAre
<1>6. QED BY <1>4, <1>5, TypesAre, KeepsTypes

LEMMA ActiveTypes ==
  ASSUME TypeOK, Readable(hosts), Conduct, NEW a \in Actors, Active(a) PROVE TypeOK' /\ Readable(hosts)'
<1> DEFINE p == proc[a]
           left == IF p.op = "remove" THEN hosts ELSE Edited(p)
           moved == CASE p.op \in {"host", "cluster"} /\ p.orig \notin {None, p.name} /\ p.mem = p.orig -> p.name
                      [] p.op = "cluster" /\ p.orig \notin {None, p.name} /\ p.mem = KibanaOf[p.orig] -> KibanaOf[p.name]
                      [] OTHER -> IF p.op = "remove" THEN active ELSE p.mem
           gone == CASE p.op = "remove" -> moved = p.target
                     [] p.op = "delcluster" -> moved \in {p.target, KibanaOf[p.target]}
                     [] OTHER -> moved # None /\ moved \notin DOMAIN left
           next == IF gone THEN FirstOrNone(DOMAIN left) ELSE moved
<1>1. CommandInv(p) /\ Head(p.todo) = "active"
  BY DEF Active, AtStep, Conduct, ProcInv, Running
<1>2. IsHosts(Edited(p)) /\ p.op \in WebOps \cup CliOps /\ Head(p.todo) \in StepsOf(p.op) /\ Arguments(p) /\ Knows(p)
  BY <1>1, EditedIs, HeadsLive DEF CommandInv
<1>3. p.op \in {"host", "remove", "cluster", "delcluster"}
  BY <1>1, <1>2 DEF StepsOf, WebOps, CliOps
<1>4. p.op \in {"host", "cluster", "delcluster"} => p.mem \in Names \cup {None}
  BY <1>1, <1>2 DEF Knows, UsesHosts
<1>5. p.op \in {"host", "cluster"} => p.name \in Clusters /\ {p.name, KibanaOf[p.name]} \subseteq Names
  BY <1>2, NamesAssumption DEF Arguments
<1>6. /\ active' = IF p.op = "remove" \/ next # p.mem THEN next ELSE active
      /\ UNCHANGED <<hosts, jobs, config, store, exporter, kibanaLink, lock, started, losses>>
  BY DEF Active, server
<1>7. DOMAIN left \subseteq Names
  BY <1>2, TypesAre DEF IsHosts
<1>8. moved \in Names \cup {None}
  <2>1. CASE p.op = "host"
    BY <2>1, <1>4, <1>5
  <2>2. CASE p.op = "cluster"
    BY <2>2, <1>4, <1>5
  <2>3. CASE p.op \in {"delcluster", "remove"}
    BY <2>3, <1>4, TypesAre
  <2>4. QED BY <1>3, <2>1, <2>2, <2>3
<1> HIDE DEF left, moved
<1>9. FirstOrNone(DOMAIN left) \in Names \cup {None}
  BY <1>7, FirstOrNoneIn
<1>10. active' \in Names \cup {None}
  BY <1>6, <1>8, <1>9, TypesAre
<1>11. QED BY <1>6, <1>10, TypesAre, KeepsTypes

LEMMA SaveTypes ==
  ASSUME TypeOK, Readable(hosts), Conduct, NEW a \in Actors, Save(a) PROVE TypeOK' /\ Readable(hosts)'
<1> DEFINE p == proc[a]
<1>1. CommandInv(p) /\ Head(p.todo) \in ConfigSteps
  BY DEF Save, Conduct, ProcInv
<1>2. IsConfig(Saved(p, Head(p.todo)))
  BY <1>1, SavedConfig
<1>3. /\ config' = Saved(p, Head(p.todo)) \/ config' = config
      /\ UNCHANGED <<hosts, jobs, active, store, exporter, kibanaLink, lock, started, losses>>
  BY DEF Save, server
<1>4. IsConfig(config')
  BY <1>2, <1>3, TypesAre
<1>5. QED BY <1>3, <1>4, TypesAre, KeepsTypes

LEMMA JobsTypes ==
  ASSUME TypeOK, Readable(hosts), Conduct, NEW a \in Actors, SaveJobs(a) \/ ReleaseJobs(a) PROVE TypeOK' /\ Readable(hosts)'
<1> DEFINE p == proc[a]
<1>1. CommandInv(p) /\ Head(p.todo) \in {"saveJobs", "release"}
  BY DEF SaveJobs, ReleaseJobs, AtStep, Conduct, ProcInv, Running
<1>2. IsJobs(JobsOf(p))
  BY <1>1, JobsKept
<1>3. /\ jobs' = JobsOf(p) /\ lock' \in {lock, None}
      /\ UNCHANGED <<hosts, config, active, store, exporter, kibanaLink, started, losses>>
  BY DEF SaveJobs, ReleaseJobs, server
<1>4. QED BY <1>2, <1>3, TypesAre, KeepsTypes

LEMMA AcquireTypes ==
  ASSUME TypeOK, Readable(hosts), Conduct, NEW a \in Actors, Acquire(a) PROVE TypeOK' /\ Readable(hosts)'
<1>1. Running(a) /\ proc[a].op \in {"savejob", "deljob"}
  <2>1. CommandInv(proc[a]) /\ Head(proc[a].todo) = "acquire" /\ Running(a)
    BY DEF Acquire, AtStep, Conduct, ProcInv, Running
  <2>2. Head(proc[a].todo) \in StepsOf(proc[a].op) /\ proc[a].op \in WebOps \cup CliOps
    BY <2>1, HeadsLive DEF CommandInv
  <2>3. QED BY <2>1, <2>2 DEF StepsOf, WebOps, CliOps
<1>2. a \in Web
  BY <1>1 DEF Conduct, ProcInv, WebOps
<1>3. /\ lock' \in {lock, a}
      /\ UNCHANGED <<hosts, jobs, config, active, store, exporter, kibanaLink, started, losses>>
  BY DEF Acquire, Hold, files
<1>4. QED BY <1>2, <1>3, TypesAre, KeepsTypes

LEMMA ExporterTypes ==
  ASSUME TypeOK, Readable(hosts), Conduct, NEW a \in Actors, Exporter(a) PROVE TypeOK' /\ Readable(hosts)'
<1> DEFINE p == proc[a]
           n == SwitchTo(p)
<1>1. CommandInv(p) /\ Head(p.todo) = "exporter"
  BY DEF Exporter, AtStep, Conduct, ProcInv, Running
<1>2. p.op = "settings" => p.got \in ExporterStates
  BY <1>1 DEF CommandInv, Knows
<1>3. /\ \/ p.op = "settings" /\ exporter' = p.got
         \/ exporter' = exporter
         \/ n \in DOMAIN hosts /\ exporter' = Endpoint(hosts, n)
      /\ UNCHANGED <<hosts, jobs, config, active, store, kibanaLink, lock, started, losses>>
  BY DEF Exporter, files
<1>4. n \in DOMAIN hosts => Endpoint(hosts, n) \in ExporterStates
  BY LinkIs DEF ExporterStates
<1> HIDE DEF n, p
<1>5. exporter' \in ExporterStates
  BY <1>2, <1>3, <1>4, TypesAre
<1>6. QED BY <1>3, <1>5, TypesAre, KeepsTypes

LEMMA KibanaTypes ==
  ASSUME TypeOK, Readable(hosts), Conduct, NEW a \in Actors, Kibana(a) PROVE TypeOK' /\ Readable(hosts)'
<1> DEFINE p == proc[a]
<1>1. CommandInv(p)
  BY DEF Kibana, AtStep, Conduct, ProcInv, Running
<1>2. p.op = "output" => KibanaOf[p.name] \in Names
  BY <1>1, NamesAssumption DEF CommandInv, Arguments
<1>3. Linked(p) \in {None} \cup (Names \X {"u1", "u2"})
  <2> DEFINE n == IF p.op = "settings" THEN p.name ELSE SwitchTo(p)
  <2>1. CASE p.op = "output"
    BY <1>2, <2>1 DEF Linked
  <2>2. CASE p.op # "output" /\ n \in DOMAIN hosts /\ hosts[n].viewer # None
    <3>1. hosts[n].viewer \in DOMAIN hosts
      BY <2>2 DEF Readable, Is
    <3>2. Linked(p) = Endpoint(hosts, hosts[n].viewer)
      BY <2>2 DEF Linked
    <3>3. QED BY <3>1, <3>2, LinkIs
  <2>3. CASE p.op # "output" /\ ~(n \in DOMAIN hosts /\ hosts[n].viewer # None)
    BY <2>3 DEF Linked
  <2>4. QED BY <2>1, <2>2, <2>3
<1>4. /\ kibanaLink' \in {Linked(p), kibanaLink}
      /\ UNCHANGED <<hosts, jobs, config, active, store, exporter, lock, started, losses>>
  BY DEF Kibana, files
<1> HIDE DEF p
<1>5. QED BY <1>3, <1>4, TypesAre, KeepsTypes

LEMMA RestartTypes ==
  ASSUME TypeOK, Readable(hosts), Restart PROVE TypeOK' /\ Readable(hosts)'
<1>1. /\ exporter' = StartExporter(hosts, config, world, store) /\ kibanaLink' = None /\ started < MaxCommands
      /\ config' = IF Migrates THEN [config EXCEPT !.output = active] ELSE config
      /\ started' = started + 1 /\ UNCHANGED <<hosts, jobs, active, store, lock, losses>>
  BY DEF Restart
<1>2. exporter' \in ExporterStates
  BY <1>1, TypesAre, StartExporterIs
<1>3. IsConfig(config')
  <2>1. Migrates => active \in Names
    BY TypesAre DEF Migrates
  <2>2. QED BY <1>1, <2>1, TypesAre, ConfigKept
<1>4. started' \in 0 .. MaxCommands
  BY <1>1, TypesAre, ActorsAssumption
<1>5. QED BY <1>1, <1>2, <1>3, <1>4, TypesAre, KeepsTypes

----------------------------------------------------------------------------
(* The invariant and what follows from it                                     *)

\* The steps that leave the files and the server as they are.
LEMMA OtherTypes ==
  ASSUME TypeOK, Readable(hosts), UNCHANGED <<files, server>>,
         \/ UNCHANGED <<started, losses>>
         \/ started < MaxCommands /\ started' = started + 1 /\ UNCHANGED losses
         \/ losses < MaxLosses /\ losses' = losses + 1 /\ UNCHANGED started
  PROVE  TypeOK' /\ Readable(hosts)'
<1>1. started' \in 0 .. MaxCommands /\ losses' \in 0 .. MaxLosses
  BY TypesAre, ActorsAssumption
<1>2. QED BY <1>1, SameFiles

\* The invariant, action by action.
LEMMA FileSteps ==
  ASSUME WorkspaceInv, NEW a \in Actors, FileStep(a) PROVE WorkspaceInv'
<1>1. TypeOK /\ Readable(hosts) /\ Conduct
  BY DEF WorkspaceInv
<1>2. CASE Parse(a)
  <2>1. UNCHANGED <<files, server>> /\ UNCHANGED <<started, losses>>
    BY <1>2 DEF Parse
  <2>2. QED BY <1>1, <1>2, <2>1, ParseStep, OtherTypes DEF WorkspaceInv
<1>3. CASE Write(a)
  BY <1>1, <1>3, WriteStep, WriteTypes DEF WorkspaceInv
<1>4. CASE Active(a)
  BY <1>1, <1>4, PlainSteps, ActiveTypes DEF WorkspaceInv
<1>5. CASE Load(a)
  <2>1. UNCHANGED <<files, server>> /\ UNCHANGED <<started, losses>>
    BY <1>5 DEF Load
  <2>2. QED BY <1>1, <1>5, <2>1, LoadStep, OtherTypes DEF WorkspaceInv
<1>6. CASE Save(a)
  BY <1>1, <1>6, SaveStep, SaveTypes DEF WorkspaceInv
<1>7. CASE LoadJobs(a)
  <2>1. UNCHANGED <<files, server>> /\ UNCHANGED <<started, losses>>
    BY <1>7 DEF LoadJobs
  <2>2. QED BY <1>1, <1>7, <2>1, LoadJobsStep, OtherTypes DEF WorkspaceInv
<1>8. CASE SaveJobs(a)
  BY <1>1, <1>8, SaveJobsStep, JobsTypes DEF WorkspaceInv
<1>9. CASE Acquire(a)
  BY <1>1, <1>9, AcquireStep, AcquireTypes DEF WorkspaceInv
<1>10. CASE ReleaseJobs(a)
  BY <1>1, <1>10, ReleaseStep, JobsTypes DEF WorkspaceInv
<1>11. CASE Create(a)
  <2>1. store' \in BOOLEAN /\ UNCHANGED <<hosts, jobs, config, active, exporter, kibanaLink, lock, started, losses>>
    BY <1>11 DEF Create, server
  <2>2. TypeOK' /\ Readable(hosts)'
    BY <1>1, <2>1, TypesAre, KeepsTypes
  <2>3. QED BY <1>1, <1>11, <2>2, PlainSteps DEF WorkspaceInv
<1>12. QED BY <1>2, <1>3, <1>4, <1>5, <1>6, <1>7, <1>8, <1>9, <1>10, <1>11 DEF FileStep

LEMMA Decisions ==
  ASSUME WorkspaceInv, NEW a \in Actors, Decision(a) PROVE WorkspaceInv'
<1>1. TypeOK /\ Readable(hosts) /\ Conduct
  BY DEF WorkspaceInv
<1>2. UNCHANGED <<files, server>> /\ UNCHANGED <<started, losses>>
  BY DEF Decision, Decide, Confirm, ConfirmAny, ConfirmHost, ConfirmJob, Draft, Fetch, Absent, May, Check, Row, Connect, Wait
<1>3. TypeOK' /\ Readable(hosts)'
  BY <1>1, <1>2, OtherTypes
<1>4. CASE Confirm(a)
  BY <1>1, <1>4, PlainSteps, <1>3 DEF WorkspaceInv
<1>5. CASE ConfirmAny(a)
  BY <1>1, <1>5, PlainSteps, <1>3 DEF WorkspaceInv
<1>6. CASE Absent(a)
  BY <1>1, <1>6, PlainSteps, <1>3 DEF WorkspaceInv
<1>7. CASE Connect(a)
  BY <1>1, <1>7, PlainSteps, <1>3 DEF WorkspaceInv
<1>8. CASE Wait(a)
  BY <1>1, <1>8, PlainSteps, <1>3 DEF WorkspaceInv
<1>9. CASE ConfirmHost(a)
  BY <1>1, <1>9, ConfirmHostStep, <1>3 DEF WorkspaceInv
<1>10. CASE ConfirmJob(a)
  BY <1>1, <1>10, ConfirmJobStep, <1>3 DEF WorkspaceInv
<1>11. CASE Draft(a)
  BY <1>1, <1>11, DraftStep, <1>3 DEF WorkspaceInv
<1>12. CASE Fetch(a)
  BY <1>1, <1>12, FetchStep, <1>3 DEF WorkspaceInv
<1>13. CASE May(a)
  BY <1>1, <1>13, MayStep, <1>3 DEF WorkspaceInv
<1>14. CASE Check(a)
  BY <1>1, <1>14, CheckStep, <1>3 DEF WorkspaceInv
<1>15. CASE Row(a)
  BY <1>1, <1>15, RowStep, <1>3 DEF WorkspaceInv
<1>16. QED BY <1>4, <1>5, <1>6, <1>7, <1>8, <1>9, <1>10, <1>11, <1>12, <1>13, <1>14, <1>15 DEF Decision

LEMMA WizardSteps ==
  ASSUME WorkspaceInv, NEW a \in Actors, Wizard(a) PROVE WorkspaceInv'
<1>1. TypeOK /\ Readable(hosts) /\ Conduct
  BY DEF WorkspaceInv
<1>2. UNCHANGED <<files, server>> /\ UNCHANGED <<started, losses>>
  BY DEF Wizard, Decide, Plan, Ask, CollectJob, ProcessJob, Final
<1>3. TypeOK' /\ Readable(hosts)'
  BY <1>1, <1>2, OtherTypes
<1>4. Conduct'
  BY <1>1, PlanStep, AskStep, CollectJobStep, ProcessJobStep, PlainSteps DEF Wizard
<1>5. QED BY <1>3, <1>4 DEF WorkspaceInv

LEMMA ServerSteps ==
  ASSUME WorkspaceInv, NEW a \in Actors, Exporter(a) \/ Kibana(a) \/ Interrupt(a) PROVE WorkspaceInv'
<1>1. TypeOK /\ Readable(hosts) /\ Conduct
  BY DEF WorkspaceInv
<1>2. CASE Exporter(a)
  BY <1>1, <1>2, ExporterStep, ExporterTypes DEF WorkspaceInv
<1>3. CASE Kibana(a)
  BY <1>1, <1>3, KibanaStep, KibanaTypes DEF WorkspaceInv
<1>4. CASE Interrupt(a)
  <2>1. UNCHANGED <<files, server>> /\ losses < MaxLosses /\ losses' = losses + 1 /\ UNCHANGED started
    BY <1>4 DEF Interrupt
  <2>2. QED BY <1>1, <1>4, <2>1, InterruptStep, OtherTypes DEF WorkspaceInv
<1>5. QED BY <1>2, <1>3, <1>4

LEMMA Starts ==
  ASSUME WorkspaceInv, NEW a \in Actors, StartWeb(a) \/ StartCli(a) \/ OpenPage(a) PROVE WorkspaceInv'
<1>1. TypeOK /\ Readable(hosts) /\ Conduct
  BY DEF WorkspaceInv
<1>2. CASE StartWeb(a) \/ StartCli(a)
  <2>1. UNCHANGED <<files, server>> /\ started < MaxCommands /\ started' = started + 1 /\ UNCHANGED losses
    BY <1>2 DEF StartWeb, StartCli, Start
  <2>2. QED BY <1>1, <1>2, <2>1, StartStep, OtherTypes DEF WorkspaceInv
<1>3. CASE OpenPage(a)
  <2>1. UNCHANGED <<files, server>> /\ UNCHANGED <<started, losses>>
    BY <1>3 DEF OpenPage, rest
  <2>2. QED BY <1>1, <1>3, <2>1, PageStep, OtherTypes DEF WorkspaceInv
<1>4. QED BY <1>2, <1>3

\* It holds of every seed, is kept, and implies the properties.
LEMMA WorkspaceStarts == WorkspaceInit => WorkspaceInv
<1> SUFFICES ASSUME WorkspaceInit PROVE WorkspaceInv
  OBVIOUS
<1>1. PICK s \in Seeds :
        /\ hosts = s.hosts /\ jobs = s.jobs /\ config = s.config /\ active = s.active /\ store = s.store
        /\ exporter = StartExporter(s.hosts, s.config, s.world, s.store)
  BY DEF WorkspaceInit
<1>2. /\ kibanaLink = None /\ lock = None /\ proc = [a \in Actors |-> Idle] /\ clean = TRUE /\ started = 0 /\ losses = 0
  BY DEF WorkspaceInit
<1>3. /\ IsHosts(hosts) /\ Readable(hosts) /\ IsJobs(jobs) /\ IsConfig(config)
      /\ config.deferred => CollectHosts(hosts) = {}
      /\ active \in Names \cup {None} /\ store \in BOOLEAN
  BY <1>1, SeedsAssumption
<1>4. exporter \in ExporterStates
  BY <1>1, <1>3, StartExporterIs
<1>5. TypeOK
  BY <1>2, <1>3, <1>4, ActorsAssumption DEF TypeOK, ExporterStates
<1>6. \A a \in Actors : ~Running(a)
  BY <1>2 DEF Running, Idle
<1>7. ProcInv /\ CompanyInv /\ MutexInv /\ AloneInv
  BY <1>2, <1>6 DEF ProcInv, CompanyInv, MutexInv, AloneInv, Alone, AtStep
<1>8. DeferralInv
  BY <1>3 DEF DeferralInv
<1>9. QED BY <1>3, <1>5, <1>7, <1>8 DEF WorkspaceInv, Conduct

LEMMA WorkspaceStutters == WorkspaceInv /\ UNCHANGED workspaceVars => WorkspaceInv'
<1> SUFFICES ASSUME WorkspaceInv, UNCHANGED workspaceVars PROVE WorkspaceInv'
  OBVIOUS
<1>1. /\ UNCHANGED <<hosts, jobs, config, active, store, exporter, kibanaLink, lock>> /\ UNCHANGED <<proc, clean, started, losses>>
      /\ UNCHANGED <<files, server>>
  BY DEF workspaceVars, files, server, rest
<1>2. TypeOK' /\ Readable(hosts)'
  BY <1>1, OtherTypes DEF WorkspaceInv
<1>3. Conduct'
  BY <1>1, SameConduct DEF WorkspaceInv
<1>4. QED BY <1>2, <1>3 DEF WorkspaceInv

LEMMA WorkspaceKeeps == WorkspaceInv /\ [WorkspaceNext]_workspaceVars => WorkspaceInv'
<1> SUFFICES ASSUME WorkspaceInv, [WorkspaceNext]_workspaceVars PROVE WorkspaceInv'
  OBVIOUS
<1>1. CASE \E a \in Actors : StartWeb(a) \/ StartCli(a) \/ OpenPage(a)
  BY <1>1, Starts
<1>2. CASE \E a \in {b \in Actors : Running(b)} :
             FileStep(a) \/ Decision(a) \/ Exporter(a) \/ Kibana(a) \/ Wizard(a) \/ Interrupt(a)
  BY <1>2, FileSteps, Decisions, WizardSteps, ServerSteps
<1>3. CASE Restart
  BY <1>3, RestartStep, RestartTypes DEF WorkspaceInv
<1>4. CASE UNCHANGED workspaceVars
  BY <1>4, WorkspaceStutters
<1>5. QED BY <1>1, <1>2, <1>3, <1>4 DEF WorkspaceNext

\* hosts.yml can always be read back, a source is not put off while there is
\* one, and onboarding calls complete only what can be used: whatever commands
\* the pages and the shells interleave, and whichever of them are cut off.
THEOREM WorkspaceHolds == WorkspaceSpec => []WorkspaceSound
<1>1. WorkspaceInv => WorkspaceSound
  <2> SUFFICES ASSUME WorkspaceInv PROVE WorkspaceSound
    OBVIOUS
  <2>1. TypeOK /\ Readable(hosts) /\ Conduct
    BY DEF WorkspaceInv
  <2>2. HostsReadable
    BY <2>1 DEF HostsReadable, Conduct, MutexInv
  <2>3. DeferralHonest
    BY <2>1 DEF DeferralHonest, Conduct, DeferralInv, NobodyRuns
  <2>4. CompleteIsUsable
    BY <2>1, CompleteUsable
  <2>5. QED BY <2>1, <2>2, <2>3, <2>4 DEF WorkspaceSound
<1>2. QED BY <1>1, WorkspaceStarts, WorkspaceKeeps, PTL DEF WorkspaceSpec

----------------------------------------------------------------------------
(* How a command ends                                                         *)

\* A command that goes on ends only where nothing is left to do, and then well.
LEMMA KeepsGoing ==
  ASSUME NEW a \in Actors, Running(a), NEW q, q.op = proc[a].op, GoTo(a, q), ~Running(a)'
  PROVE  q.todo = <<>> /\ proc'[a].result = "ok"
<1>1. CASE q.todo = <<>>
  <2>1. proc'[a] = [op |-> "idle", result |-> "ok"]
    BY <1>1 DEF GoTo, End, Becomes, Noticed
  <2>2. QED BY <1>1, <2>1
<1>2. CASE q.todo # <<>>
  <2>1. proc'[a] = q
    BY <1>2 DEF GoTo, Becomes, Noticed
  <2>2. QED BY <2>1 DEF Running
<1>3. QED BY <1>1, <1>2

\* A command that fails ends with an error.
LEMMA Failing == ASSUME NEW a \in Actors, Fail(a) PROVE proc'[a].result = "failed"
<1>1. proc'[a] = [op |-> "idle", result |-> "failed"]
  BY DEF Fail, End, Becomes, Noticed
<1>2. QED BY <1>1

\* Steps that go on as the same command.
LEMMA SameOp ==
  ASSUME NEW p, Shaped(p)
  PROVE  /\ \A t : [p EXCEPT !.todo = t].op = p.op /\ [p EXCEPT !.todo = t].todo = t
         /\ \A c : [p EXCEPT !.cfg = c].op = p.op /\ [p EXCEPT !.cfg = c].todo = p.todo
         /\ \A g : [p EXCEPT !.got = g].op = p.op /\ [p EXCEPT !.got = g].todo = p.todo
         /\ \A s, m : [p EXCEPT !.saw = s, !.mem = m].op = p.op /\ [p EXCEPT !.saw = s, !.mem = m].todo = p.todo
BY DEF Shaped

\* What is left of a command is a command of its kind.
LEMMA RestIs ==
  ASSUME Conduct, NEW a \in Actors, Running(a)
  PROVE  Shaped(proc[a]) /\ Shaped(Rest(a)) /\ Rest(a).op = proc[a].op /\ Rest(a).todo = Tail(proc[a].todo)
BY HereIs, WithTodo DEF Rest, Fields

\* A step of a command shows in the records of the others.
LEMMA Notices ==
  ASSUME Conduct, NEW b \in Actors, Running(b),
         FileStep(b) \/ Decision(b) \/ Exporter(b) \/ Kibana(b) \/ Wizard(b) \/ Interrupt(b)
  PROVE  \E q : proc' = Noticed(b, q)
<1>1. CASE FileStep(b)
  BY <1>1 DEF FileStep, Parse, Write, Active, Load, Save, LoadJobs, SaveJobs, Acquire, ReleaseJobs, Create, Advance, Fail, GoTo, End, Becomes
<1>2. CASE Decision(b)
  <2>1. CASE Confirm(b) \/ ConfirmAny(b) \/ ConfirmHost(b) \/ ConfirmJob(b)
    BY <2>1 DEF Confirm, ConfirmAny, ConfirmHost, ConfirmJob, Advance, Fail, GoTo, End, Becomes
  <2>2. CASE Draft(b) \/ Absent(b) \/ May(b) \/ Connect(b) \/ Wait(b)
    BY <2>2 DEF Draft, Absent, May, Connect, Wait, Advance, Fail, GoTo, End, Becomes
  <2>3. CASE Fetch(b)
    <3> DEFINE p == proc[b]
               n == p.name
    <3>1. Head(p.todo) = "fetch" /\ Head(p.todo) \in StepsOf(p.op) /\ p.op \in WebOps \cup CliOps
      BY <2>3, HereIs DEF Fetch, AtStep
    <3>2. p.op \in {"default", "settings", "update"}
      BY <3>1 DEF StepsOf, WebOps, CliOps
    <3>3. Fail(b) \/ \E q : GoTo(b, q)
      <4>1. CASE n \notin DOMAIN hosts
        BY <2>3, <4>1 DEF Fetch
      <4>2. CASE n \in DOMAIN hosts /\ p.op = "default"
        BY <2>3, <4>2 DEF Fetch, Advance
      <4>3. CASE n \in DOMAIN hosts /\ p.op = "settings"
        BY <2>3, <4>3 DEF Fetch
      <4>4. CASE n \in DOMAIN hosts /\ p.op = "update"
        BY <2>3, <4>4 DEF Fetch
      <4>5. QED BY <3>2, <4>1, <4>2, <4>3, <4>4
    <3>4. QED BY <3>3 DEF Fail, GoTo, End, Becomes
  <2>4. CASE Check(b) \/ Row(b)
    BY <2>4 DEF Check, Row, Advance, Fail, GoTo, End, Becomes
  <2>5. QED BY <1>2, <2>1, <2>2, <2>3, <2>4 DEF Decision
<1>3. CASE Exporter(b) \/ Kibana(b) \/ Interrupt(b)
  BY <1>3 DEF Exporter, Kibana, Interrupt, Advance, Skip2, Fail, GoTo, End, Becomes
<1>4. CASE Wizard(b)
  BY <1>4 DEF Wizard, Plan, Ask, CollectJob, ProcessJob, JobChoice, Final, Advance, Fail, GoTo, End, Becomes
<1>5. QED BY <1>1, <1>2, <1>3, <1>4

\* Only a step of its own ends a command.
LEMMA OwnStep ==
  ASSUME Conduct, WorkspaceNext, NEW a \in Actors, Running(a), ~Running(a)'
  PROVE  FileStep(a) \/ Decision(a) \/ Exporter(a) \/ Kibana(a) \/ Wizard(a) \/ Interrupt(a)
<1>1. Shaped(proc[a])
  BY RestIs
<1>2. \A w : [proc[a] EXCEPT !.with = w, !.before = None].op = proc[a].op
  BY <1>1 DEF Shaped
<1>3. ASSUME NEW b \in Actors, b # a, NEW q, proc' = Noticed(b, q) PROVE FALSE
  <2>1. proc'[a] = [proc[a] EXCEPT !.with = Company(b, a), !.before = None]
    BY <1>3 DEF Noticed
  <2>2. QED BY <1>2, <2>1 DEF Running
<1>4. ASSUME NEW b \in Actors, StartWeb(b) \/ StartCli(b) \/ OpenPage(b) PROVE FALSE
  <2>1. OpenPage(b) => proc' = proc
    BY DEF OpenPage
  <2>2. StartWeb(b) \/ StartCli(b) => ~Running(b) /\ \E q : proc' = Noticed(b, q)
    BY DEF StartWeb, StartCli, Start, Becomes
  <2>3. QED BY <1>3, <1>4, <2>1, <2>2 DEF Running
<1>5. ~Restart
  <2>1. Restart => proc'[a] = [proc[a] EXCEPT !.with = "others", !.before = None]
    BY DEF Restart
  <2>2. QED BY <1>2, <2>1 DEF Running
<1>6. QED BY <1>3, <1>4, <1>5, Notices DEF WorkspaceNext

\* The steps a command takes once it has changed a file.
LateSteps == {"load", "user", "workflow", "select", "stamp", "exporter", "kibana", "undefer", "active", "saveJobs", "release"}
\* These are the steps that are not early.
LEMMA LateIs ==
  ASSUME NEW op \in (WebOps \cup CliOps) \ {"init", "default"}, NEW h \in StepsOf(op) \ Early(op)
  PROVE  h \in LateSteps /\ (h = "exporter" => op \in {"output", "provision", "settings"})
BY DEF StepsOf, Early, LateSteps, WebOps, CliOps

\* None of them ends a command with an error.
LEMMA LateNeverFails ==
  ASSUME Conduct, WorkspaceNext, NEW a \in Actors, Alone(a), ~Running(a)',
         proc[a].op \notin {"init", "default"}, Head(proc[a].todo) \notin Early(proc[a].op)
  PROVE  proc'[a].result # "failed"
<1> DEFINE p == proc[a]
           r == Rest(a)
           h == Head(p.todo)
<1>1. Running(a) /\ Shaped(p) /\ Shaped(r) /\ r.op = p.op /\ r.todo = Tail(p.todo)
  BY RestIs DEF Alone
<1>2. h \in StepsOf(p.op) \ Early(p.op) /\ p.op \in (WebOps \cup CliOps) \ {"init", "default"}
  BY <1>1, HereIs
<1>3. h \in LateSteps /\ (h = "exporter" => p.op \in {"output", "provision", "settings"})
  BY <1>2, LateIs
<1>4. Advance(a) => proc'[a].result # "failed"
  BY <1>1, KeepsGoing DEF Advance
<1>5. FileStep(a) \/ Exporter(a) \/ Kibana(a) \/ Interrupt(a)
  <2>1. FileStep(a) \/ Decision(a) \/ Exporter(a) \/ Kibana(a) \/ Wizard(a) \/ Interrupt(a)
    BY <1>1, OwnStep
  <2>2. Decision(a) => h \notin LateSteps
    BY DEF Decision, Confirm, ConfirmAny, ConfirmHost, ConfirmJob, Draft, Fetch, Absent, May, Check, Row, Connect, Wait,
           AtStep, LateSteps
  <2>3. Wizard(a) => h \notin LateSteps
    BY DEF Wizard, Plan, Ask, CollectJob, ProcessJob, Final, AtStep, LateSteps
  <2>4. QED BY <1>3, <2>1, <2>2, <2>3
<1>6. CASE Kibana(a)
  BY <1>4, <1>6 DEF Kibana
<1>7. CASE Interrupt(a)
  <2>1. proc'[a] = [op |-> "idle", result |-> "cut"]
    BY <1>7 DEF Interrupt, Noticed
  <2>2. QED BY <2>1
<1>8. CASE Exporter(a)
  <2>1. p.op \in {"output", "provision", "settings"} /\ h = "exporter"
    BY <1>3, <1>8 DEF Exporter, AtStep
  <2>2. CASE p.op = "settings"
    BY <1>4, <1>8, <2>2 DEF Exporter
  <2>3. CASE p.op \in {"output", "provision"}
    <3>1. HasCluster(p.name) /\ SwitchTo(p) = p.name /\ p.name \in Clusters
      <4>1. Switches(p) /\ Arguments(p)
        BY <1>1, HereIs DEF Conduct, AloneInv, AloneKnows, CommandInv
      <4>2. HasCluster(p.name) /\ (p.op = "provision" => p.cfg.output = p.name)
        BY <2>1, <2>3, <4>1 DEF Switches
      <4>3. QED BY <2>3, <4>1, <4>2 DEF SwitchTo, Arguments
    <3>2. SwitchTo(p) \in DOMAIN hosts /\ hosts[SwitchTo(p)].viewer # None
      BY <3>1, NamesAssumption DEF HasCluster
    <3>3. Advance(a)
      BY <1>8, <2>3, <3>2 DEF Exporter
    <3>4. QED BY <1>4, <3>3
  <2>4. QED BY <2>1, <2>2, <2>3
<1>9. CASE FileStep(a)
  <2>1. Load(a) \/ Save(a) \/ Active(a) \/ SaveJobs(a) \/ ReleaseJobs(a)
    BY <1>3, <1>9 DEF FileStep, Parse, Write, LoadJobs, Acquire, Create, AtStep, LateSteps
  <2>2. CASE Active(a) \/ SaveJobs(a) \/ ReleaseJobs(a)
    BY <1>4, <2>2 DEF Active, SaveJobs, ReleaseJobs
  <2>3. CASE Save(a)
    <3>1. h \notin {"default", "context", "nodefault"}
      BY <1>3 DEF LateSteps
    <3>2. QED BY <1>4, <2>3, <3>1 DEF Save, Refused
  <2>4. CASE Load(a)
    <3> DEFINE q == [r EXCEPT !.cfg = config]
               s == [q EXCEPT !.todo = Tail(q.todo)]
    <3>1. GoTo(a, s) \/ GoTo(a, q)
      BY <2>4 DEF Load
    <3>2. q.op = p.op /\ s.op = p.op
      BY <1>1 DEF Shaped
    <3>3. QED BY <1>1, <3>1, <3>2, KeepsGoing
  <2>5. QED BY <2>1, <2>2, <2>3, <2>4
<1>10. QED BY <1>5, <1>6, <1>7, <1>8, <1>9

\* A command that ends with an error and shared its time with nobody has
\* changed no file; onboarding's two commands of several stages keep the stages
\* they finished.
THEOREM FailuresKeepFiles == WorkspaceSpec => AllOrNothing
<1>1. WorkspaceInv /\ [WorkspaceNext]_workspaceVars =>
        [\A a \in Actors : Alone(a) /\ Ends(a, "failed") =>
           LET p == proc[a] IN
           CASE p.op = "init" -> AtStep(a, "connect") => hosts = p.before.hosts /\ config.output = p.before.config.output
             [] p.op = "default" -> hosts = p.before.hosts /\ config = p.before.config
             [] OTHER -> Unchanged(p)]_workspaceVars
  <2> SUFFICES ASSUME WorkspaceInv, WorkspaceNext, NEW a \in Actors, Alone(a), Ends(a, "failed")
               PROVE  LET p == proc[a] IN
                      CASE p.op = "init" -> AtStep(a, "connect") => hosts = p.before.hosts /\ config.output = p.before.config.output
                        [] p.op = "default" -> hosts = p.before.hosts /\ config = p.before.config
                        [] OTHER -> Unchanged(p)
    OBVIOUS
  <2> DEFINE p == proc[a]
  <2>1. Conduct /\ Untouched(p) /\ ~Running(a)' /\ proc'[a].result = "failed"
    BY DEF WorkspaceInv, Conduct, AloneInv, AloneKnows, Ends
  <2>2. p.op \notin {"init", "default"} => Head(p.todo) \in Early(p.op)
    BY <2>1, LateNeverFails
  <2>3. p.op \notin {"init", "default"} => Unchanged(p)
    BY <2>1, <2>2 DEF Untouched
  <2>4. p.op = "default" => hosts = p.before.hosts /\ config = p.before.config
    BY <2>1 DEF Untouched
  <2>5. p.op = "init" /\ AtStep(a, "connect") => hosts = p.before.hosts /\ config.output = p.before.config.output
    BY <2>1 DEF Untouched, IsPlanning, AtStep
  <2>6. QED BY <2>3, <2>4, <2>5
<1>2. QED BY <1>1, WorkspaceStarts, WorkspaceKeeps, PTL DEF WorkspaceSpec, AllOrNothing

\* A command that switches the output ends well only at the end of its program.
LEMMA SwitchEnds ==
  ASSUME Conduct, WorkspaceNext, NEW a \in Actors, Running(a), proc[a].op \in {"output", "provision", "settings"},
         Ends(a, "ok")
  PROVE  \/ Exporter(a) /\ proc[a].op = "settings"
         \/ Kibana(a) /\ proc[a].op \in {"output", "provision"}
<1> DEFINE p == proc[a]
           r == Rest(a)
           h == Head(p.todo)
<1>1. /\ Shaped(p) /\ Shaped(r) /\ r.op = p.op /\ r.todo = Tail(p.todo) /\ CommandInv(p) /\ h \in StepsOf(p.op)
      /\ ~Running(a)' /\ proc'[a].result = "ok" /\ OnCourse(p.op, p.todo) /\ p.todo # <<>>
  BY RestIs, HereIs DEF Ends, CommandInv
<1>2. ~Fail(a)
  BY <1>1, Failing
<1>3. h \in Ending(p.op) => h = IF p.op = "settings" THEN "exporter" ELSE "kibana"
  BY DEF Ending
<1>4. Tail(p.todo) = <<>> => h \in Ending(p.op)
  BY <1>1, CourseTail
<1>5. ASSUME NEW q, q.op = p.op, q.todo = Tail(p.todo), GoTo(a, q) PROVE h = IF p.op = "settings" THEN "exporter" ELSE "kibana"
  BY <1>1, <1>3, <1>4, <1>5, KeepsGoing
<1>6. Advance(a) => h = IF p.op = "settings" THEN "exporter" ELSE "kibana"
  BY <1>1, <1>5 DEF Advance
<1>7. h \in {"confirm", "confirmAny", "connect", "parse", "write", "load", "select", "stamp", "exporter", "kibana", "check", "fetch"}
  BY <1>1 DEF StepsOf
<1>8. FileStep(a) \/ Decision(a) \/ Exporter(a) \/ Kibana(a) \/ Wizard(a) \/ Interrupt(a)
  BY <1>1, OwnStep
<1>9. ~Interrupt(a)
  <2>1. Interrupt(a) => proc'[a] = [op |-> "idle", result |-> "cut"]
    BY DEF Interrupt, Noticed
  <2>2. QED BY <1>1, <2>1
<1>10. ~Wizard(a)
  BY <1>7 DEF Wizard, Plan, Ask, CollectJob, ProcessJob, Final, AtStep
<1>11. CASE Decision(a)
  <2>1. Confirm(a) \/ ConfirmAny(a) \/ Connect(a) \/ Check(a) \/ Fetch(a)
    BY <1>7, <1>11 DEF Decision, ConfirmHost, ConfirmJob, Draft, Absent, May, Row, Wait, AtStep
  <2>2. CASE Confirm(a) \/ ConfirmAny(a) \/ Connect(a)
    BY <1>2, <1>6, <2>2 DEF Confirm, ConfirmAny, Connect, AtStep
  <2>3. CASE Check(a)
    <3> DEFINE q == [p EXCEPT !.got = exporter, !.todo = <<"stamp", "exporter">>]
    <3>1. GoTo(a, q) \/ Advance(a)
      BY <1>2, <2>3 DEF Check
    <3>2. q.op = p.op /\ q.todo = <<"stamp", "exporter">>
      BY <1>1 DEF Shaped
    <3>3. ~GoTo(a, q)
      <4>1. <<"stamp", "exporter">> # <<>>
        OBVIOUS
      <4> HIDE DEF q
      <4>2. QED BY <1>1, <3>2, <4>1, KeepsGoing
    <3>4. QED BY <1>6, <2>3, <3>1, <3>3 DEF Check, AtStep
  <2>4. CASE Fetch(a)
    <3> DEFINE q == [r EXCEPT !.got = <<p.name, hosts[p.name].url>>]
    <3>1. p.op = "settings" /\ h = "fetch"
      BY <1>1, <2>4 DEF Fetch, AtStep, StepsOf
    <3>2. GoTo(a, q)
      BY <1>2, <2>4, <3>1 DEF Fetch
    <3>3. q.op = p.op /\ q.todo = Tail(p.todo)
      BY <1>1, SameOp
    <3>4. QED BY <1>5, <3>1, <3>2, <3>3
  <2>5. QED BY <2>1, <2>2, <2>3, <2>4
<1>12. CASE FileStep(a)
  <2>1. Parse(a) \/ Write(a) \/ Load(a) \/ Save(a)
    BY <1>7, <1>12 DEF FileStep, Active, LoadJobs, SaveJobs, Acquire, ReleaseJobs, Create, AtStep
  <2>2. CASE Parse(a)
    <3> DEFINE q == [r EXCEPT !.saw = hosts, !.mem = IF p.op \in {"host", "cluster", "delcluster"} THEN active ELSE @]
    <3>1. GoTo(a, q) /\ h = "parse"
      BY <2>2 DEF Parse, AtStep
    <3>2. q.op = p.op /\ q.todo = Tail(p.todo)
      BY <1>1, SameOp
    <3>3. QED BY <1>5, <3>1, <3>2
  <2>3. CASE Write(a)
    <3>1. ~SkipsUndefer(p)
      BY DEF SkipsUndefer, TouchesSource
    <3>2. QED BY <1>2, <1>6, <2>3, <3>1 DEF Write, AtStep
  <2>4. CASE Save(a)
    BY <1>2, <1>6, <1>7, <2>4 DEF Save, ConfigSteps
  <2>5. CASE Load(a)
    <3> DEFINE q == [r EXCEPT !.cfg = config]
    <3>1. h = "load" /\ q.op = p.op /\ q.todo = Tail(p.todo)
      BY <1>1, <2>5, SameOp DEF Load, AtStep
    <3>2. Tail(p.todo) # <<>>
      BY <1>3, <1>4, <3>1
    <3>3. Head(Tail(p.todo)) # "undefer"
      <4>1. Head(Tail(p.todo)) \in Succ(p.op, "load")
        BY <1>1, <3>1, <3>2, CourseTail
      <4>2. QED BY <4>1 DEF Succ
    <3>4. GoTo(a, q)
      BY <2>5, <3>1, <3>3 DEF Load
    <3>5. QED BY <1>5, <3>1, <3>4
  <2>6. QED BY <2>1, <2>2, <2>3, <2>4, <2>5
<1>13. CASE Exporter(a)
  <2>1. h = "exporter" /\ Advance(a)
    BY <1>2, <1>13 DEF Exporter, AtStep
  <2>2. p.op = "settings"
    BY <1>6, <2>1
  <2>3. QED BY <1>13, <2>2
<1>14. CASE Kibana(a)
  BY <1>6, <1>14 DEF Kibana, AtStep
<1>15. QED BY <1>8, <1>9, <1>10, <1>11, <1>12, <1>13, <1>14

\* A handler that switched the output, alone, leaves the configuration, the
\* exporter and the Kibana link at the same deployment.
THEOREM OutputsSwitch == WorkspaceSpec => OutputSwitched
<1>1. WorkspaceInv /\ [WorkspaceNext]_workspaceVars =>
        [\A a \in Web : Alone(a) /\ Ends(a, "ok") /\ proc[a].op \in {"output", "provision", "settings"} =>
           \/ proc[a].op = "settings" /\ config = proc[a].before.config
           \/ LET n == config.output IN
              /\ n = proc[a].name /\ ~config.context
              /\ exporter' = Endpoint(hosts, n) /\ kibanaLink' = Endpoint(hosts, hosts[n].viewer)]_workspaceVars
  <2> SUFFICES ASSUME WorkspaceInv, WorkspaceNext, NEW a \in Web, Alone(a), Ends(a, "ok"),
                      proc[a].op \in {"output", "provision", "settings"}
               PROVE  \/ proc[a].op = "settings" /\ config = proc[a].before.config
                      \/ LET n == config.output IN
                         /\ n = proc[a].name /\ ~config.context
                         /\ exporter' = Endpoint(hosts, n) /\ kibanaLink' = Endpoint(hosts, hosts[n].viewer)
    OBVIOUS
  <2> DEFINE p == proc[a]
             n == p.name
  <2>1. TypeOK /\ Conduct /\ Switches(p) /\ CommandInv(p) /\ Running(a) /\ a \in Actors /\ n \in Clusters
    <3>1. TypeOK /\ Conduct /\ Switches(p) /\ Running(a) /\ a \in Actors
      BY DEF WorkspaceInv, Conduct, AloneInv, AloneKnows, Actors, Alone
    <3>2. QED BY <3>1, HereIs DEF CommandInv, Arguments
  <2>2. (Exporter(a) /\ p.op = "settings") \/ (Kibana(a) /\ p.op \in {"output", "provision"})
    BY <2>1, SwitchEnds
  <2>3. CASE Exporter(a) /\ p.op = "settings"
    <3>1. exporter' = p.got /\ kibanaLink' = kibanaLink /\ Head(p.todo) = "exporter"
      BY <2>3 DEF Exporter, AtStep
    <3>2. \/ config = p.before.config
          \/ IsSelected(n) /\ p.got = Endpoint(hosts, n) /\ kibanaLink = Endpoint(hosts, hosts[n].viewer)
      BY <2>1, <2>3, <3>1 DEF Switches
    <3>3. QED BY <2>3, <3>1, <3>2 DEF IsSelected
  <2>4. CASE Kibana(a) /\ p.op \in {"output", "provision"}
    <3>1. kibanaLink' = (IF Linked(p) # None THEN Linked(p) ELSE kibanaLink) /\ exporter' = exporter /\ Head(p.todo) = "kibana"
      BY <2>4 DEF Kibana, AtStep
    <3>2. HasCluster(n) /\ IsSelected(n) /\ (p.op = "provision" => p.cfg.output = n) /\ exporter = Endpoint(hosts, n)
      BY <2>1, <2>4, <3>1 DEF Switches
    <3>3. hosts[n].viewer = KibanaOf[n] /\ KibanaOf[n] \in DOMAIN hosts /\ n \in DOMAIN hosts /\ hosts[n].viewer # None
      BY <2>1, <3>2, NamesAssumption DEF HasCluster
    <3>4. Linked(p) = Endpoint(hosts, hosts[n].viewer)
      <4>1. CASE p.op = "output"
        BY <3>2, <3>3, <4>1 DEF Linked, HasCluster, Endpoint
      <4>2. CASE p.op = "provision"
        BY <3>2, <3>3, <4>2 DEF Linked, SwitchTo
      <4>3. QED BY <2>4, <4>1, <4>2
    <3>5. Endpoint(hosts, hosts[n].viewer) # None
      BY <2>1, <3>3, LinkIs
    <3>6. QED BY <3>1, <3>2, <3>4, <3>5 DEF IsSelected
  <2>5. QED BY <2>2, <2>3, <2>4
<1>2. QED BY <1>1, WorkspaceStarts, WorkspaceKeeps, PTL DEF WorkspaceSpec, OutputSwitched

----------------------------------------------------------------------------
(* The wizard reaches its end                                                 *)

\* The steps a program still has.
Owed(s) == Range(s)

\* A command is about to take a step, or about to read what it takes it on.
Nears(s, x) == Head(s) = x \/ (Head(s) \in {"load", "parse"} /\ s[2] = x)

\* The files of a moment, and what the wizard needs of them.
FilesNow == [hosts |-> hosts, jobs |-> jobs, config |-> config]
OutputFits(f) == ~f.config.context /\ f.config.output # None => ValidOutput(f.hosts, f.config.output)
Usable(f) == Writable(f.hosts) /\ ReferencesFit(f.hosts, f.jobs, f.config)
Fits(j, f, w) == FitsWorkflow(j, f.hosts, f.config, w)
JobReady(f, w) == f.config.job \in DOMAIN f.jobs /\ Fits(f.jobs[f.config.job], f, w)

\* An environment that names an output names one with its Kibana.
Aided(p, f, w) == Processes(p.wf) /\ w.env # "none" => Resolves(f.hosts, f.config, w, TRUE)

\* The last default job the wizard asks for must fit the workflow.
Fitting(p, f, w) == Aided(p, f, w) /\ "processJob" \notin Owed(p.todo)

\* A default job is not needed, still asked for, or being settled.
NoJob(p) == ~Collects(p.wf) /\ {"ask", "collectJob", "processJob", "default"} \cap Owed(p.todo) = {}
JobAhead(p) ==
  Collects(p.wf) /\ "collectJob" \in Owed(p.todo) /\ (p.wf = "both" => "processJob" \in Owed(p.todo))
JobSettles(p, f, w) ==
  /\ Collects(p.wf)
  /\ \/ Head(p.todo) \in {"loadJobs", "saveJobs"} /\ (Fitting(p, f, w) => Fits(p.got, f, w))
     \/ /\ Nears(p.todo, "default") /\ p.job \in DOMAIN f.jobs
        /\ Fitting(p, f, w) => Fits(f.jobs[p.job], f, w)
     \/ Head(p.todo) = "processJob"
     \/ Head(p.todo) = "final" /\ (Aided(p, f, w) => JobReady(f, w))
JobMet(p, f, w) == NoJob(p) \/ JobAhead(p) \/ JobSettles(p, f, w)

\* What the other answers of the wizard call for is there, or still to come.
AnswersMet(p, f, w) ==
  /\ f.config.user \/ "user" \in Owed(p.todo)
  /\ f.config.workflow = p.wf \/ "workflow" \in Owed(p.todo)
  /\ Processes(p.wf) /\ w.env = "none" => ValidOutput(f.hosts, f.config.output) \/ "select" \in Owed(p.todo)
  /\ "processJob" \in Owed(p.todo) => p.wf = "both"

\* The files stay such that its writes are accepted, and the output it selects
\* is there.
FilesMet(p, f) == Usable(p.before) => Writable(f.hosts) /\ (OutputFits(f) \/ "select" \in Owed(p.todo))
StepsMet(p, f) ==
  /\ Nears(p.todo, "source") => p.how = "add"
  /\ Nears(p.todo, "select") => ValidOutput(f.hosts, p.name)

WizardPath(p, f, w) ==
  /\ Head(p.todo) = "plan" => p.cfg = f.config
  /\ FilesMet(p, f) /\ StepsMet(p, f)
  /\ Unplanned(p) \/ (AnswersMet(p, f, w) /\ JobMet(p, f, w))

WizardInv == \A a \in Actors : Alone(a) /\ proc[a].op = "init" => WizardPath(proc[a], FilesNow, world)

----------------------------------------------------------------------------
(* Programs of the wizard                                                     *)

\* A program owes its next step and what its rest owes.
LEMMA OwedIs ==
  ASSUME NEW s \in Seq(Steps), s # <<>> PROVE Owed(s) = {Head(s)} \cup Owed(Tail(s))
<1>1. /\ DOMAIN s = 1 .. Len(s) /\ Len(s) \in Nat \ {0} /\ Head(s) = s[1]
      /\ DOMAIN Tail(s) = 1 .. Len(Tail(s)) /\ Len(Tail(s)) = Len(s) - 1
      /\ \A i \in 1 .. Len(Tail(s)) : Tail(s)[i] = s[i + 1]
  BY HeadTailProperties, EmptySeq
<1>2. ASSUME NEW i \in DOMAIN s PROVE s[i] \in {Head(s)} \cup Owed(Tail(s))
  <2>1. CASE i = 1
    BY <1>1, <2>1
  <2>2. CASE i # 1
    <3>1. i - 1 \in DOMAIN Tail(s) /\ (i - 1) + 1 = i
      BY <1>1, <2>2
    <3>2. Tail(s)[i - 1] = s[i]
      BY <1>1, <3>1
    <3>3. QED BY <3>1, <3>2 DEF Owed, Range
  <2>3. QED BY <2>1, <2>2
<1>3. ASSUME NEW i \in DOMAIN Tail(s) PROVE Tail(s)[i] \in Owed(s)
  <2>1. i + 1 \in DOMAIN s /\ Tail(s)[i] = s[i + 1]
    BY <1>1
  <2>2. QED BY <2>1 DEF Owed, Range
<1>4. Head(s) \in Owed(s)
  BY <1>1 DEF Owed, Range
<1>5. QED BY <1>2, <1>3, <1>4 DEF Owed, Range

\* What two parts in a row owe.
LEMMA OwedCat == \A s, t \in Seq(Steps) : Owed(s \o t) = Owed(s) \cup Owed(t)
<1> TAKE s, t \in Seq(Steps)
<1> DEFINE u == s \o t
<1>1. /\ DOMAIN s = 1 .. Len(s) /\ DOMAIN t = 1 .. Len(t) /\ DOMAIN u = 1 .. Len(u)
      /\ Len(s) \in Nat /\ Len(t) \in Nat /\ Len(u) = Len(s) + Len(t)
      /\ \A i \in 1 .. Len(u) : u[i] = IF i <= Len(s) THEN s[i] ELSE t[i - Len(s)]
  BY ConcatProperties
<1> HIDE DEF u
<1>2. ASSUME NEW i \in DOMAIN u PROVE u[i] \in Owed(s) \cup Owed(t)
  <2>1. CASE i <= Len(s)
    BY <1>1, <2>1 DEF Owed, Range
  <2>2. CASE ~(i <= Len(s))
    <3>1. i - Len(s) \in DOMAIN t /\ u[i] = t[i - Len(s)]
      BY <1>1, <2>2
    <3>2. QED BY <3>1 DEF Owed, Range
  <2>3. QED BY <2>1, <2>2
<1>3. ASSUME NEW i \in DOMAIN s PROVE s[i] \in Owed(u)
  <2>1. i \in DOMAIN u /\ u[i] = s[i]
    BY <1>1
  <2>2. QED BY <2>1 DEF Owed, Range
<1>4. ASSUME NEW i \in DOMAIN t PROVE t[i] \in Owed(u)
  <2>1. i + Len(s) \in DOMAIN u /\ ~(i + Len(s) <= Len(s)) /\ (i + Len(s)) - Len(s) = i
    BY <1>1
  <2>2. u[i + Len(s)] = t[i]
    BY <1>1, <2>1
  <2>3. QED BY <2>1, <2>2 DEF Owed, Range
<1>5. QED BY <1>2, <1>3, <1>4 DEF Owed, Range, u

\* What is left once the default jobs are asked for.
LEMMA LastOwed ==
  ASSUME NEW s, OnCourse("init", s), s # <<>>
  PROVE  /\ Head(s) \in {"plan", "final"} => Owed(s) = {Head(s)} /\ Tail(s) = <<>>
         /\ Head(s) = "processJob" => Owed(s) = {"processJob", "final"}
         /\ Head(s) \in {"collectJob", "default"} => Owed(s) \subseteq {Head(s), "processJob", "final"}
<1>1. ASSUME NEW t, OnCourse("init", t), t # <<>>
      PROVE  Owed(t) = {Head(t)} \cup Owed(Tail(t))
             /\ (Tail(t) = <<>> \/ (OnCourse("init", Tail(t)) /\ Head(Tail(t)) \in Succ("init", Head(t))))
  BY <1>1, CourseTail, OwedIs DEF OnCourse
<1>2. Owed(<<>>) = {}
  BY DEF Owed, Range
<1>3. ASSUME NEW t, OnCourse("init", t), t # <<>>, Head(t) \in {"plan", "final"} PROVE Owed(t) = {Head(t)} /\ Tail(t) = <<>>
  <2>1. Succ("init", Head(t)) = {}
    BY <1>3 DEF Succ
  <2>2. QED BY <1>1, <1>2, <1>3, <2>1
<1>4. ASSUME NEW t, OnCourse("init", t), t # <<>>, Head(t) = "processJob" PROVE Owed(t) = {"processJob", "final"}
  <2>1. Succ("init", Head(t)) \subseteq {"final"} /\ Head(t) \notin Ending("init")
    BY <1>4 DEF Succ, Ending
  <2>2. Tail(t) # <<>>
    BY <1>4, <2>1, CourseTail
  <2>3. QED BY <1>1, <1>3, <1>4, <2>1, <2>2
<1>5. ASSUME Head(s) \in {"collectJob", "default"} PROVE Owed(s) \subseteq {Head(s), "processJob", "final"}
  <2>1. Succ("init", Head(s)) \subseteq {"processJob", "final"}
    BY <1>5 DEF Succ
  <2>2. QED BY <1>1, <1>2, <1>3, <1>4, <2>1
<1>6. QED BY <1>3, <1>4, <1>5

\* What the wizard nears, it neared before.
LEMMA NearsKept ==
  ASSUME NEW s, OnCourse("init", s), s # <<>>, Tail(s) # <<>>
  PROVE  /\ Nears(Tail(s), "source") => Nears(s, "source")
         /\ Nears(Tail(s), "select") => Nears(s, "select") \/ Head(s) = "write"
         /\ Head(s) = "load" /\ Nears(s, "default") => Head(Tail(s)) = "default"
<1> DEFINE t == Tail(s)
<1>1. /\ Head(t) = s[2] /\ Head(t) \in Succ("init", Head(s))
      /\ Head(t) \in {"load", "parse"} => t[2] \in After("init", Head(s))
  BY CourseTail
<1> HIDE DEF t
<1>2. Head(t) = "source" => Head(s) = "parse"
  BY <1>1 DEF Succ, StepsOf
<1>3. Head(t) = "select" => Head(s) = "load"
  BY <1>1 DEF Succ, StepsOf
<1>4. "source" \notin After("init", Head(s)) /\ ("select" \in After("init", Head(s)) => Head(s) = "write")
  BY DEF After
<1>5. QED BY <1>1, <1>2, <1>3, <1>4 DEF Nears, t

----------------------------------------------------------------------------
(* What the wizard writes                                                     *)

\* Hosts that are written once more stay what they are.
LEMMA WrittenFits ==
  ASSUME NEW hs, IsHosts(hs)
  PROVE  /\ Writable(hs) => Writable(Written(hs))
         /\ \A n : ValidOutput(hs, n) => ValidOutput(Written(hs), n)
<1>1. ASSUME NEW n \in DOMAIN hs
      PROVE  /\ hs[n] \in HostRecords /\ Written(hs)[n] = Normalized(hs[n])
             /\ Normalized(Written(hs)[n]) = Normalized(hs[n])
             /\ Written(hs)[n].viewer = hs[n].viewer /\ Written(hs)[n].app = hs[n].app
             /\ hs[n].roles \subseteq Written(hs)[n].roles
  <2>1. hs[n] \in HostRecords /\ Written(hs)[n] = Normalized(hs[n])
    BY DEF IsHosts, Written
  <2>2. Normalized(hs[n]).roles # {}
    BY <2>1, NormalizedFacts
  <2>3. Normalized(Normalized(hs[n])) = Normalized(hs[n])
    <3> DEFINE h == Normalized(hs[n])
    <3>1. h.roles # {}
      BY <2>2
    <3> HIDE DEF h
    <3>2. QED BY <3>1 DEF Normalized, h
  <2>4. QED BY <2>1, <2>3, NormalizedFacts
<1>2. DOMAIN Written(hs) = DOMAIN hs
  BY DEF Written
<1>3. Writable(hs) => Writable(Written(hs))
  BY <1>1, <1>2 DEF Writable, LinksFit, Has
<1>4. ASSUME NEW n, ValidOutput(hs, n) PROVE ValidOutput(Written(hs), n)
  BY <1>1, <1>2, <1>4 DEF ValidOutput, Is, Has
<1>5. QED BY <1>3, <1>4

\* An output and its viewer.
LEMMA ClusterFits ==
  ASSUME NEW hs, NEW n \in Clusters
  PROVE  /\ ValidOutput(WithCluster(hs, n), n)
         /\ Writable(hs) /\ (\A m \in DOMAIN hs : hs[m].viewer # n) => Writable(WithCluster(hs, n))
<1> DEFINE k == KibanaOf[n]
           c == WithCluster(hs, n)
<1>1. k # n /\ k # None
  BY NamesAssumption
<1>2. /\ DOMAIN c = DOMAIN hs \cup {n, k} /\ c[n] = OutputHost(n) /\ c[k] = ViewerHost
      /\ \A m \in DOMAIN hs \ {n, k} : c[m] = hs[m]
  BY <1>1 DEF WithCluster, Put
<1>3. /\ OutputHost(n).app = "es" /\ OutputHost(n).roles = {"send"} /\ OutputHost(n).viewer = k
      /\ ViewerHost.app = "kb" /\ ViewerHost.roles = {"view"} /\ ViewerHost.viewer = None
      /\ Normalized(OutputHost(n)) = OutputHost(n) /\ Normalized(ViewerHost) = ViewerHost
  BY DEF OutputHost, ViewerHost, Normalized
<1> HIDE DEF c, k
<1>4. ValidOutput(c, n)
  BY <1>1, <1>2, <1>3 DEF ValidOutput, Is, Has
<1>5. ASSUME Writable(hs), \A m \in DOMAIN hs : hs[m].viewer # n PROVE Writable(c)
  <2>1. ASSUME NEW m \in DOMAIN c
        PROVE  RolesFit(Normalized(c[m])) /\ (c[m].viewer # None => "send" \in c[m].roles /\ Has(c, c[m].viewer, "view"))
    <3>1. CASE m = n
      BY <1>2, <1>3, <3>1 DEF RolesFit, Has
    <3>2. CASE m = k
      BY <1>2, <1>3, <3>2 DEF RolesFit
    <3>3. CASE m \in DOMAIN hs \ {n, k}
      <4>1. RolesFit(Normalized(hs[m])) /\ (hs[m].viewer # None => "send" \in hs[m].roles /\ Has(hs, hs[m].viewer, "view"))
        BY <1>5, <3>3 DEF Writable, LinksFit
      <4>2. \A v \in DOMAIN hs \ {n} : "view" \in hs[v].roles => Has(c, v, "view")
        BY <1>2, <1>3 DEF Has
      <4>3. hs[m].viewer # None => Has(c, hs[m].viewer, "view")
        BY <1>5, <3>3, <4>1, <4>2 DEF Has
      <4>4. QED BY <1>2, <3>3, <4>1, <4>3
    <3>4. QED BY <1>2, <3>1, <3>2, <3>3
  <2>2. QED BY <2>1 DEF Writable, LinksFit
<1>6. QED BY <1>4, <1>5 DEF c

\* A source that is added takes nothing from a known host.
LEMMA SourceFits ==
  ASSUME NEW p, IsHosts(p.saw), p.how = "add"
  PROVE  /\ Writable(p.saw) => Writable(WithSource(p))
         /\ \A n : ValidOutput(p.saw, n) => ValidOutput(WithSource(p), n)
<1> DEFINE hs == p.saw
           c == WithSource(p)
           t == p.target
<1>1. /\ DOMAIN c = DOMAIN hs \cup {t} /\ \A m \in DOMAIN hs \ {t} : c[m] = hs[m]
      /\ t \notin DOMAIN hs => c[t] = SourceHost
      /\ t \in DOMAIN hs => c[t] = [hs[t] EXCEPT !.roles = @ \cup {"collect"}]
  BY DEF WithSource, Put
<1> HIDE DEF c
<1>2. ASSUME NEW m \in DOMAIN hs
      PROVE  /\ c[m].app = hs[m].app /\ c[m].viewer = hs[m].viewer /\ hs[m].roles \subseteq c[m].roles
             /\ RolesFit(Normalized(hs[m])) => RolesFit(Normalized(c[m]))
  <2>1. CASE m # t
    BY <1>1, <2>1
  <2>2. CASE m = t
    <3> DEFINE h == hs[t]
               g == [h EXCEPT !.roles = @ \cup {"collect"}]
    <3>1. c[m] = g /\ h \in HostRecords
      BY <1>1, <2>2 DEF IsHosts
    <3>2. g \in HostRecords /\ g.app = h.app /\ g.viewer = h.viewer /\ g.roles = h.roles \cup {"collect"}
      BY <3>1 DEF HostRecords
    <3> HIDE DEF h, g
    <3>3. RolesFit(Normalized(h)) => RolesFit(Normalized(g))
      BY <3>1, <3>2, NormalizedFacts DEF RolesFit
    <3>4. QED BY <2>2, <3>1, <3>2, <3>3 DEF h
  <2>3. QED BY <2>1, <2>2
<1>3. t \notin DOMAIN hs => RolesFit(Normalized(c[t])) /\ c[t].viewer = None
  BY <1>1 DEF SourceHost, Normalized, RolesFit
<1>4. Writable(hs) => Writable(c)
  <2>1. ASSUME Writable(hs), NEW m \in DOMAIN c
        PROVE  RolesFit(Normalized(c[m])) /\ (c[m].viewer # None => "send" \in c[m].roles /\ Has(c, c[m].viewer, "view"))
    BY <1>1, <1>2, <1>3, <2>1 DEF Writable, LinksFit, Has
  <2>2. QED BY <2>1 DEF Writable, LinksFit
<1>5. ASSUME NEW n, ValidOutput(hs, n) PROVE ValidOutput(c, n)
  BY <1>1, <1>2, <1>5 DEF ValidOutput, Is, Has
<1>6. QED BY <1>4, <1>5 DEF c

----------------------------------------------------------------------------
(* One step of the wizard                                                     *)

SameWizard(q, p) ==
  /\ q.op = p.op /\ q.wf = p.wf /\ q.name = p.name /\ q.before = p.before
  /\ q.how = p.how /\ q.job = p.job /\ q.got = p.got

\* The wizard at a step that is not its last.
OnItsWay(p, q) ==
  /\ p.op = "init" /\ ~Unplanned(p) /\ OnCourse("init", p.todo) /\ p.todo # <<>>
  /\ q.todo = Tail(p.todo) /\ q.todo # <<>> /\ SameWizard(q, p)

\* The next step, and the one it is read for.
LEMMA WayFacts ==
  ASSUME NEW p, NEW q, OnItsWay(p, q)
  PROVE  /\ Owed(p.todo) = {Head(p.todo)} \cup Owed(q.todo) /\ OnCourse("init", q.todo)
         /\ Head(q.todo) \in Succ("init", Head(p.todo))
         /\ Head(q.todo) \in {"load", "parse"} => q.todo[2] \in After("init", Head(p.todo)) /\ q.todo[2] \in Owed(q.todo)
         /\ Nears(q.todo, "source") => Nears(p.todo, "source")
         /\ Nears(q.todo, "select") => Nears(p.todo, "select") \/ Head(p.todo) = "write"
         /\ Head(p.todo) # "final"
<1> DEFINE s == p.todo
           t == q.todo
<1>1. OnCourse("init", s) /\ s # <<>> /\ t = Tail(s) /\ t # <<>> /\ s \in Seq(Steps)
  BY DEF OnItsWay, OnCourse
<1> HIDE DEF s, t
<1>2. Owed(s) = {Head(s)} \cup Owed(t)
  BY <1>1, OwedIs
<1>3. /\ OnCourse("init", t) /\ Head(t) \in Succ("init", Head(s))
      /\ Head(t) \in {"load", "parse"} => Tail(t) # <<>> /\ t[2] \in After("init", Head(s))
  BY <1>1, CourseTail
<1>4. ASSUME Head(t) \in {"load", "parse"} PROVE t[2] \in Owed(t)
  <2>1. Tail(t) # <<>> /\ t \in Seq(Steps)
    BY <1>3, <1>4 DEF OnCourse
  <2>2. Head(Tail(t)) = t[2] /\ OnCourse("init", Tail(t))
    BY <1>1, <1>3, <2>1, CourseTail
  <2>3. Tail(t) \in Seq(Steps)
    BY <2>2 DEF OnCourse
  <2>4. QED BY <1>1, <2>1, <2>2, <2>3, OwedIs
<1>5. Head(s) # "final"
  BY <1>1, LastOwed
<1>6. /\ Nears(t, "source") => Nears(s, "source")
      /\ Nears(t, "select") => Nears(s, "select") \/ Head(s) = "write"
  BY <1>1, NearsKept
<1>7. QED BY <1>2, <1>3, <1>4, <1>5, <1>6 DEF s, t

\* Until it asks for the default job.
LEMMA JobWaits ==
  ASSUME NEW p, NEW q, OnItsWay(p, q), NoJob(p) \/ JobAhead(p), Head(p.todo) \notin {"collectJob", "processJob"}
  PROVE  NoJob(q) \/ JobAhead(q)
<1>1. Owed(p.todo) = {Head(p.todo)} \cup Owed(q.todo) /\ q.wf = p.wf
  BY WayFacts DEF OnItsWay, SameWizard
<1>2. QED BY <1>1 DEF NoJob, JobAhead

\* What does not change the outcome of the inspection.
SameOutput(g, f) == g.hosts = f.hosts /\ g.config.output = f.config.output /\ g.config.context = f.config.context

\* With it, an output fits, an environment aids and a job suits as before.
LEMMA OutputKept ==
  ASSUME NEW p, NEW q, NEW f, NEW g, NEW w, SameOutput(g, f), q.wf = p.wf
  PROVE  /\ OutputFits(g) <=> OutputFits(f)
         /\ Aided(q, g, w) <=> Aided(p, f, w)
         /\ g.config.workflow = f.config.workflow => \A j : Fits(j, g, w) <=> Fits(j, f, w)
BY DEF SameOutput, OutputFits, Aided, Fits, FitsWorkflow, Resolves

\* The steps between the answers.
LEMMA PathKept ==
  ASSUME NEW p, NEW q, NEW f, NEW g, NEW w, WizardPath(p, f, w), OnItsWay(p, q), SameOutput(g, f), g.jobs = f.jobs,
         Head(p.todo) \notin {"plan", "write", "source", "select", "collectJob", "processJob", "saveJobs", "default"},
         Head(p.todo) = "load" => q.cfg = g.config,
         IF Head(p.todo) = "user" THEN g.config.user ELSE g.config.user = f.config.user,
         g.config.workflow = IF Head(p.todo) = "workflow" THEN p.wf ELSE f.config.workflow
  PROVE  WizardPath(q, g, w)
<1> DEFINE h == Head(p.todo)
<1>1. /\ Owed(p.todo) = {h} \cup Owed(q.todo) /\ Head(q.todo) \in Succ("init", h)
      /\ Nears(q.todo, "source") => Nears(p.todo, "source")
      /\ Nears(q.todo, "select") => Nears(p.todo, "select")
      /\ h # "final"
  BY WayFacts
<1>2. SameWizard(q, p) /\ p.todo # <<>> /\ q.todo = Tail(p.todo) /\ OnCourse("init", p.todo) /\ q.todo # <<>>
  BY DEF OnItsWay
<1>3. FilesMet(p, f) /\ StepsMet(p, f) /\ AnswersMet(p, f, w) /\ JobMet(p, f, w)
  BY DEF WizardPath, OnItsWay
<1>4. /\ OutputFits(g) <=> OutputFits(f)
      /\ Aided(q, g, w) <=> Aided(p, f, w)
      /\ h # "workflow" => \A j : Fits(j, g, w) <=> Fits(j, f, w)
  BY <1>2, OutputKept DEF SameWizard
<1>5. Head(q.todo) = "plan" => q.cfg = g.config
  BY <1>1 DEF Succ
<1>6. FilesMet(q, g)
  BY <1>1, <1>2, <1>3, <1>4 DEF FilesMet, SameWizard, SameOutput
<1>7. StepsMet(q, g)
  BY <1>1, <1>2, <1>3 DEF StepsMet, SameWizard, SameOutput
<1>8. AnswersMet(q, g, w)
  BY <1>1, <1>2, <1>3 DEF AnswersMet, SameWizard, SameOutput
<1>9. JobMet(q, g, w)
  <2>1. CASE NoJob(p) \/ JobAhead(p)
    BY <2>1, JobWaits DEF JobMet
  <2>2. CASE JobSettles(p, f, w)
    <3>1. h # "workflow" /\ (h \in {"loadJobs", "saveJobs"} => Head(q.todo) = "saveJobs")
      <4>1. h = "loadJobs" => Head(q.todo) = "saveJobs"
        BY <1>1 DEF Succ
      <4>2. h # "workflow"
        BY <2>2 DEF JobSettles, Nears
      <4>3. QED BY <4>1, <4>2
    <3>2. Nears(p.todo, "default") => Head(q.todo) = "default"
      <4>1. h = "parse" => p.todo[2] # "default"
        <5>1. Head(q.todo) = p.todo[2]
          BY <1>2, CourseTail
        <5>2. h = "parse" => Head(q.todo) # "default"
          BY <1>1 DEF Succ
        <5>3. QED BY <5>1, <5>2
      <4>2. QED BY <1>2, <4>1, NearsKept DEF Nears
    <3>3. Fitting(q, g, w) <=> Fitting(p, f, w)
      BY <1>1, <1>4 DEF Fitting
    <3>4. JobSettles(q, g, w)
      BY <1>1, <1>2, <1>4, <2>2, <3>1, <3>2, <3>3 DEF JobSettles, SameWizard, Nears
    <3>5. QED BY <3>4 DEF JobMet
  <2>3. QED BY <1>3, <2>1, <2>2 DEF JobMet
<1>10. QED BY <1>5, <1>6, <1>7, <1>8, <1>9 DEF WizardPath

\* The output is written, and selected next.
LEMMA PathWritten ==
  ASSUME NEW p, NEW q, NEW f, NEW g, NEW w, WizardPath(p, f, w), OnItsWay(p, q), Head(p.todo) = "write",
         g.jobs = f.jobs, g.config = f.config,
         NEW hs, IsHosts(hs), Writable(hs), ValidOutput(hs, p.name), g.hosts = Written(hs)
  PROVE  WizardPath(q, g, w)
<1>1. /\ Owed(p.todo) = {"write"} \cup Owed(q.todo) /\ Head(q.todo) \in Succ("init", "write")
      /\ Head(q.todo) \in {"load", "parse"} => q.todo[2] \in After("init", "write") /\ q.todo[2] \in Owed(q.todo)
      /\ Nears(q.todo, "source") => Nears(p.todo, "source")
  BY WayFacts
<1>2. Head(q.todo) = "load" /\ q.todo[2] = "select" /\ "select" \in Owed(q.todo)
  <2>1. Head(q.todo) = "load"
    BY <1>1 DEF Succ, StepsOf
  <2>2. QED BY <1>1, <2>1 DEF After
<1>3. SameWizard(q, p) /\ AnswersMet(p, f, w) /\ JobMet(p, f, w)
  BY DEF WizardPath, OnItsWay
<1>4. Writable(g.hosts) /\ ValidOutput(g.hosts, q.name)
  BY <1>3, WrittenFits DEF SameWizard
<1>5. FilesMet(q, g)
  BY <1>2, <1>4 DEF FilesMet
<1>6. StepsMet(q, g)
  <2>1. ~Nears(q.todo, "source")
    BY <1>1 DEF Nears
  <2>2. QED BY <1>4, <2>1 DEF StepsMet
<1>7. AnswersMet(q, g, w)
  BY <1>1, <1>2, <1>3 DEF AnswersMet, SameWizard
<1>8. JobMet(q, g, w)
  <2>1. NoJob(p) \/ JobAhead(p)
    BY <1>3 DEF JobMet, JobSettles, Nears
  <2>2. QED BY <2>1, JobWaits DEF JobMet
<1>9. QED BY <1>2, <1>5, <1>6, <1>7, <1>8 DEF WizardPath

\* A source is added.
LEMMA PathSourced ==
  ASSUME NEW p, NEW q, NEW f, NEW g, NEW w, WizardPath(p, f, w), OnItsWay(p, q), Head(p.todo) = "source",
         g.jobs = f.jobs, g.config = f.config, p.saw = f.hosts, IsHosts(f.hosts), IsHosts(WithSource(p)),
         g.hosts = Written(WithSource(p))
  PROVE  WizardPath(q, g, w)
<1>1. /\ Owed(p.todo) = {"source"} \cup Owed(q.todo) /\ Head(q.todo) \in Succ("init", "source")
      /\ Nears(q.todo, "source") => Nears(p.todo, "source")
      /\ Nears(q.todo, "select") => Nears(p.todo, "select")
      /\ Head(q.todo) \in {"load", "parse"} => q.todo[2] \in After("init", "source")
  BY WayFacts
<1>2. SameWizard(q, p) /\ FilesMet(p, f) /\ AnswersMet(p, f, w) /\ JobMet(p, f, w)
  BY DEF WizardPath, OnItsWay
<1>3. p.how = "add"
  BY DEF WizardPath, StepsMet, Nears
<1>4. /\ Writable(f.hosts) => Writable(g.hosts)
      /\ \A n : ValidOutput(f.hosts, n) => ValidOutput(g.hosts, n)
  BY <1>3, SourceFits, WrittenFits
<1>5. FilesMet(q, g)
  BY <1>1, <1>2, <1>4 DEF FilesMet, OutputFits, SameWizard
<1>6. StepsMet(q, g)
  BY <1>1, <1>2, <1>3 DEF StepsMet, Nears, SameWizard
<1>7. AnswersMet(q, g, w)
  BY <1>1, <1>2, <1>4 DEF AnswersMet, SameWizard
<1>8. JobMet(q, g, w)
  <2>1. NoJob(p) \/ JobAhead(p)
    BY <1>2 DEF JobMet, JobSettles, Nears
  <2>2. QED BY <2>1, JobWaits DEF JobMet
<1>9. Head(q.todo) # "plan"
  BY <1>1 DEF Succ
<1>10. QED BY <1>5, <1>6, <1>7, <1>8, <1>9 DEF WizardPath

\* The output is selected.
LEMMA PathSelected ==
  ASSUME NEW p, NEW q, NEW f, NEW g, NEW w, WizardPath(p, f, w), OnItsWay(p, q), Head(p.todo) = "select",
         g.jobs = f.jobs, g.hosts = f.hosts, g.config.output = p.name, ~g.config.context,
         g.config.user = f.config.user, g.config.workflow = f.config.workflow
  PROVE  WizardPath(q, g, w)
<1>1. /\ Owed(p.todo) = {"select"} \cup Owed(q.todo) /\ Head(q.todo) \in Succ("init", "select")
      /\ Nears(q.todo, "source") => Nears(p.todo, "source")
      /\ Nears(q.todo, "select") => Nears(p.todo, "select")
  BY WayFacts
<1>2. SameWizard(q, p) /\ FilesMet(p, f) /\ AnswersMet(p, f, w) /\ JobMet(p, f, w) /\ StepsMet(p, f)
  BY DEF WizardPath, OnItsWay
<1>3. ValidOutput(g.hosts, g.config.output)
  BY <1>2 DEF StepsMet, Nears
<1>4. FilesMet(q, g)
  BY <1>2, <1>3 DEF FilesMet, OutputFits, SameWizard
<1>5. StepsMet(q, g)
  BY <1>1, <1>2 DEF StepsMet, SameWizard
<1>6. AnswersMet(q, g, w)
  BY <1>1, <1>2, <1>3 DEF AnswersMet, SameWizard
<1>7. JobMet(q, g, w)
  <2>1. NoJob(p) \/ JobAhead(p)
    BY <1>2 DEF JobMet, JobSettles, Nears
  <2>2. QED BY <2>1, JobWaits DEF JobMet
<1>8. Head(q.todo) # "plan"
  BY <1>1 DEF Succ
<1>9. QED BY <1>4, <1>5, <1>6, <1>7, <1>8 DEF WizardPath

\* A job is saved, and becomes the default next.
LEMMA PathSaved ==
  ASSUME NEW p, NEW q, NEW f, NEW g, NEW w, WizardPath(p, f, w), OnItsWay(p, q), Head(p.todo) = "saveJobs",
         g.hosts = f.hosts, g.config = f.config, g.jobs = Put(p.seen, p.job, p.got)
  PROVE  WizardPath(q, g, w)
<1>1. /\ Owed(p.todo) = {"saveJobs"} \cup Owed(q.todo) /\ Head(q.todo) \in Succ("init", "saveJobs")
      /\ Head(q.todo) \in {"load", "parse"} => q.todo[2] \in After("init", "saveJobs")
      /\ Nears(q.todo, "source") => Nears(p.todo, "source")
      /\ Nears(q.todo, "select") => Nears(p.todo, "select")
  BY WayFacts
<1>2. SameWizard(q, p) /\ FilesMet(p, f) /\ AnswersMet(p, f, w) /\ JobMet(p, f, w) /\ StepsMet(p, f)
  BY DEF WizardPath, OnItsWay
<1>3. Nears(q.todo, "default") /\ Head(q.todo) # "plan"
  <2>1. Head(q.todo) = "load"
    BY <1>1 DEF Succ, StepsOf
  <2>2. QED BY <1>1, <2>1 DEF After, Nears
<1>4. FilesMet(q, g)
  BY <1>1, <1>2 DEF FilesMet, OutputFits, SameWizard
<1>5. StepsMet(q, g)
  BY <1>1, <1>2 DEF StepsMet, SameWizard
<1>6. AnswersMet(q, g, w)
  BY <1>1, <1>2 DEF AnswersMet, SameWizard
<1>7. JobMet(q, g, w)
  <2>1. CASE NoJob(p) \/ JobAhead(p)
    BY <2>1, JobWaits DEF JobMet
  <2>2. CASE JobSettles(p, f, w)
    <3>1. Collects(p.wf) /\ (Fitting(p, f, w) => Fits(p.got, f, w))
      BY <2>2 DEF JobSettles, Nears
    <3>2. p.job \in DOMAIN g.jobs /\ g.jobs[p.job] = p.got
      BY DEF Put
    <3>3. (Fitting(q, g, w) <=> Fitting(p, f, w)) /\ \A j : Fits(j, g, w) <=> Fits(j, f, w)
      BY <1>1, <1>2, OutputKept DEF Fitting, SameWizard, SameOutput
    <3>4. QED BY <1>2, <1>3, <3>1, <3>2, <3>3 DEF JobMet, JobSettles, SameWizard
  <2>3. QED BY <1>2, <2>1, <2>2 DEF JobMet
<1>8. QED BY <1>3, <1>4, <1>5, <1>6, <1>7 DEF WizardPath

\* The job is the default.
LEMMA PathDefaulted ==
  ASSUME NEW p, NEW q, NEW f, NEW g, NEW w, WizardPath(p, f, w), OnItsWay(p, q), Head(p.todo) = "default",
         SameOutput(g, f), g.jobs = f.jobs, g.config.user = f.config.user, g.config.workflow = f.config.workflow,
         g.config.job = p.job
  PROVE  WizardPath(q, g, w)
<1>1. /\ Owed(p.todo) = {"default"} \cup Owed(q.todo) /\ Head(q.todo) \in Succ("init", "default")
      /\ OnCourse("init", q.todo)
      /\ Nears(q.todo, "source") => Nears(p.todo, "source")
      /\ Nears(q.todo, "select") => Nears(p.todo, "select")
  BY WayFacts
<1>2. SameWizard(q, p) /\ FilesMet(p, f) /\ AnswersMet(p, f, w) /\ JobMet(p, f, w) /\ StepsMet(p, f) /\ q.todo # <<>>
  BY DEF WizardPath, OnItsWay
<1>3. Head(q.todo) \in {"processJob", "final"}
  BY <1>1 DEF Succ
<1>4. FilesMet(q, g)
  <2>1. OutputFits(g) <=> OutputFits(f)
    BY <1>2, OutputKept DEF SameWizard
  <2>2. QED BY <1>1, <1>2, <2>1 DEF FilesMet, SameWizard, SameOutput
<1>5. StepsMet(q, g)
  BY <1>1, <1>2 DEF StepsMet, SameWizard, SameOutput
<1>6. AnswersMet(q, g, w)
  BY <1>1, <1>2 DEF AnswersMet, SameWizard, SameOutput
<1>7. JobMet(q, g, w)
  <2>1. CASE NoJob(p) \/ JobAhead(p)
    BY <2>1, JobWaits DEF JobMet
  <2>2. CASE JobSettles(p, f, w) /\ Head(q.todo) = "processJob"
    BY <1>2, <2>2 DEF JobMet, JobSettles, SameWizard
  <2>3. CASE JobSettles(p, f, w) /\ Head(q.todo) = "final"
    <3>1. "processJob" \notin Owed(p.todo)
      BY <1>1, <1>2, <2>3, LastOwed
    <3>2. (Aided(q, g, w) <=> Aided(p, f, w)) /\ \A j : Fits(j, g, w) <=> Fits(j, f, w)
      BY <1>2, OutputKept DEF SameWizard
    <3>3. Collects(p.wf) /\ p.job \in DOMAIN f.jobs /\ (Fitting(p, f, w) => Fits(f.jobs[p.job], f, w))
      BY <2>3 DEF JobSettles
    <3>4. QED BY <1>2, <2>3, <3>1, <3>2, <3>3 DEF JobMet, JobSettles, JobReady, Fitting, SameWizard
  <2>4. QED BY <1>2, <1>3, <2>1, <2>2, <2>3 DEF JobMet
<1>8. QED BY <1>3, <1>4, <1>5, <1>6, <1>7 DEF WizardPath

\* A source is to be added.
LEMMA PathAsked ==
  ASSUME NEW p, NEW q, NEW f, NEW w, WizardPath(p, f, w), ~Unplanned(p), OnCourse("init", p.todo), p.todo # <<>>,
         Head(p.todo) = "ask", StartsWith(Tail(p.todo), {"collectJob"}, {}),
         q.todo = WizardHost \o Tail(p.todo), q.how = "add", q.wf = p.wf, q.before = p.before
  PROVE  WizardPath(q, f, w)
<1> DEFINE t == Tail(p.todo)
<1>1. Owed(p.todo) = {"ask"} \cup Owed(t) /\ t \in Seq(Steps)
  BY OwedIs DEF OnCourse, StartsWith
<1>2. Head(q.todo) = "parse" /\ q.todo[2] = "source"
  BY WizardHostCourse
<1> HIDE DEF t
<1>3. Owed(q.todo) = {"parse", "source", "load", "undefer"} \cup Owed(t)
  <2>1. /\ <<"parse", "source">> \in Seq(Steps) /\ Owed(<<"parse", "source">>) = {"parse", "source"}
        /\ Undefer \in Seq(Steps) /\ Owed(Undefer) = {"load", "undefer"}
    BY DEF Undefer, Steps, ConfigSteps, Owed, Range
  <2>2. WizardHost \in Seq(Steps) /\ Owed(WizardHost) = {"parse", "source"} \cup {"load", "undefer"}
    BY <2>1, OwedCat, ConcatProperties DEF WizardHost
  <2>3. Owed(WizardHost \o t) = Owed(WizardHost) \cup Owed(t)
    BY <1>1, <2>2, OwedCat
  <2>4. q.todo = WizardHost \o t
    BY DEF t
  <2>5. QED BY <2>2, <2>3, <2>4
<1>4. FilesMet(p, f) /\ AnswersMet(p, f, w) /\ JobMet(p, f, w)
  BY DEF WizardPath
<1>5. FilesMet(q, f) /\ AnswersMet(q, f, w)
  BY <1>1, <1>3, <1>4 DEF FilesMet, AnswersMet
<1>6. StepsMet(q, f)
  BY <1>2 DEF StepsMet, Nears
<1>7. JobAhead(p)
  BY <1>1, <1>4 DEF JobMet, NoJob, JobSettles, Nears
<1>8. JobMet(q, f, w)
  BY <1>1, <1>3, <1>7 DEF JobMet, JobAhead
<1>9. QED BY <1>2, <1>5, <1>6, <1>8 DEF WizardPath

\* The wizard asks for a default job once all else is settled.
AsksJob(p, f, w) ==
  /\ WizardPath(p, f, w) /\ ~Unplanned(p) /\ OnCourse("init", p.todo) /\ p.todo # <<>>
  /\ Head(p.todo) \in {"collectJob", "processJob"}

\* What then is settled, and which of the two jobs it asks for last.
LEMMA JobAsked ==
  ASSUME NEW p, NEW f, NEW w, AsksJob(p, f, w)
  PROVE  /\ Collects(p.wf) /\ f.config.user /\ f.config.workflow = p.wf
         /\ Processes(p.wf) /\ w.env = "none" => ValidOutput(f.hosts, f.config.output)
         /\ Usable(p.before) => Writable(f.hosts) /\ OutputFits(f)
         /\ OnCourse("init", Tail(p.todo)) /\ Tail(p.todo) # <<>> /\ Tail(p.todo) \in Seq(Steps)
         /\ \/ /\ Head(Tail(p.todo)) = "processJob" /\ Owed(Tail(p.todo)) = {"processJob", "final"}
               /\ Head(p.todo) = "collectJob" /\ p.wf = "both"
            \/ /\ Head(Tail(p.todo)) = "final" /\ Owed(Tail(p.todo)) = {"final"}
               /\ p.wf = IF Head(p.todo) = "collectJob" THEN "collect" ELSE "both"
<1> DEFINE t == Tail(p.todo)
           h == Head(p.todo)
<1>1. h \in {"collectJob", "processJob"} /\ OnCourse("init", p.todo) /\ p.todo # <<>> /\ p.todo \in Seq(Steps)
  BY DEF AsksJob, OnCourse
<1>2. t # <<>> /\ OnCourse("init", t) /\ t \in Seq(Steps) /\ Head(t) \in Succ("init", h)
  <2>1. h \notin Ending("init")
    BY <1>1 DEF Ending
  <2>2. t # <<>>
    BY <1>1, <2>1, CourseTail
  <2>3. QED BY <1>1, <2>2, CourseTail
<1>3. Owed(p.todo) = {h} \cup Owed(t) /\ Owed(p.todo) \subseteq {h, "processJob", "final"}
  BY <1>1, OwedIs, LastOwed
<1>4. \/ Head(t) = "processJob" /\ Owed(t) = {"processJob", "final"} /\ h = "collectJob"
      \/ Head(t) = "final" /\ Owed(t) = {"final"}
  BY <1>1, <1>2, LastOwed DEF Succ
<1> HIDE DEF t
<1>5. FilesMet(p, f) /\ AnswersMet(p, f, w) /\ JobMet(p, f, w)
  BY DEF AsksJob, WizardPath
<1>6. /\ f.config.user /\ f.config.workflow = p.wf /\ ("processJob" \in Owed(p.todo) => p.wf = "both")
      /\ Processes(p.wf) /\ w.env = "none" => ValidOutput(f.hosts, f.config.output)
      /\ Usable(p.before) => Writable(f.hosts) /\ OutputFits(f)
  BY <1>1, <1>3, <1>5 DEF AnswersMet, FilesMet
<1>7. Collects(p.wf) /\ (h = "collectJob" /\ p.wf = "both" => "processJob" \in Owed(p.todo))
  BY <1>1, <1>3, <1>5 DEF JobMet, NoJob, JobAhead, JobSettles, Nears
<1>8. QED BY <1>1, <1>2, <1>3, <1>4, <1>6, <1>7 DEF Collects, t

\* Whatever becomes of the job, the rest stays settled.
LEMMA PathSettled ==
  ASSUME NEW p, NEW f, NEW w, AsksJob(p, f, w), NEW q, q.wf = p.wf, q.before = p.before,
         ~Nears(q.todo, "source"), ~Nears(q.todo, "select"), Head(q.todo) # "plan",
         "processJob" \in Owed(q.todo) => "processJob" \in Owed(Tail(p.todo)), JobSettles(q, f, w)
  PROVE  WizardPath(q, f, w)
<1>1. /\ f.config.user /\ f.config.workflow = p.wf
      /\ Processes(p.wf) /\ w.env = "none" => ValidOutput(f.hosts, f.config.output)
      /\ Usable(p.before) => Writable(f.hosts) /\ OutputFits(f)
  BY JobAsked
<1>2. "processJob" \in Owed(Tail(p.todo)) => p.wf = "both"
  <2>1. Owed(Tail(p.todo)) = {"final"} \/ p.wf = "both"
    BY JobAsked
  <2>2. QED BY <2>1
<1>3. FilesMet(q, f) /\ StepsMet(q, f) /\ AnswersMet(q, f, w)
  BY <1>1, <1>2 DEF FilesMet, StepsMet, AnswersMet
<1>4. QED BY <1>3 DEF WizardPath, JobMet

\* The default job stays,
LEMMA PathJobLeft ==
  ASSUME NEW p, NEW f, NEW w, AsksJob(p, f, w), NEW q, q.wf = p.wf, q.before = p.before, q.todo = Tail(p.todo), JobReady(f, w)
  PROVE  WizardPath(q, f, w)
<1>1. Collects(q.wf) /\ Head(q.todo) \in {"processJob", "final"}
  BY JobAsked
<1>2. ~Nears(q.todo, "source") /\ ~Nears(q.todo, "select") /\ Head(q.todo) # "plan"
  BY <1>1 DEF Nears
<1>3. JobSettles(q, f, w)
  BY <1>1 DEF JobSettles
<1>4. QED BY <1>2, <1>3, PathSettled

\* one of the saved jobs becomes the default,
LEMMA PathJobKept ==
  ASSUME NEW p, NEW f, NEW w, AsksJob(p, f, w), NEW q, q.wf = p.wf, q.before = p.before,
         q.todo = <<"load", "default">> \o Tail(p.todo), Head(q.todo) = "load", q.todo[2] = "default", q.job \in DOMAIN f.jobs,
         Head(p.todo) = "processJob" \/ p.wf # "both" => Fits(f.jobs[q.job], f, w)
  PROVE  WizardPath(q, f, w)
<1> DEFINE t == Tail(p.todo)
<1>1. /\ Collects(p.wf) /\ t \in Seq(Steps)
      /\ \/ Owed(t) = {"processJob", "final"} /\ Head(p.todo) = "collectJob" /\ p.wf = "both"
         \/ Owed(t) = {"final"} /\ p.wf = IF Head(p.todo) = "collectJob" THEN "collect" ELSE "both"
  BY JobAsked
<1>2. Head(p.todo) \in {"collectJob", "processJob"}
  BY DEF AsksJob
<1>3. Owed(q.todo) = {"load", "default"} \cup Owed(t)
  <2>1. <<"load", "default">> \in Seq(Steps) /\ Owed(<<"load", "default">>) = {"load", "default"}
    BY DEF Steps, ConfigSteps, Owed, Range
  <2>2. Owed(<<"load", "default">> \o t) = Owed(<<"load", "default">>) \cup Owed(t)
    BY <1>1, <2>1, OwedCat
  <2>3. QED BY <2>1, <2>2
<1> HIDE DEF t
<1>4. Fitting(q, f, w) => Fits(f.jobs[q.job], f, w)
  BY <1>1, <1>2, <1>3 DEF Fitting
<1>5. Nears(q.todo, "default") /\ ~Nears(q.todo, "source") /\ ~Nears(q.todo, "select")
  BY DEF Nears
<1>6. JobSettles(q, f, w)
  BY <1>1, <1>4, <1>5 DEF JobSettles
<1>7. "processJob" \in Owed(q.todo) => "processJob" \in Owed(Tail(p.todo))
  BY <1>3 DEF t
<1>8. QED BY <1>5, <1>6, <1>7, PathSettled

\* or a new one is saved.
LEMMA PathJobSaved ==
  ASSUME NEW p, NEW f, NEW w, AsksJob(p, f, w), NEW q, q.wf = p.wf, q.before = p.before,
         q.todo = AddJob \o Tail(p.todo), Head(q.todo) = "loadJobs", Has(f.hosts, q.got.host, "collect"),
         q.got.export = (IF Head(p.todo) = "collectJob" THEN "none" ELSE IF w.env # "none" THEN "env" ELSE f.config.output),
         Head(p.todo) = "processJob" => f.config.output # None
  PROVE  WizardPath(q, f, w)
<1> DEFINE t == Tail(p.todo)
<1>1. /\ Collects(p.wf) /\ t \in Seq(Steps) /\ f.config.workflow = p.wf
      /\ \/ Owed(t) = {"processJob", "final"} /\ Head(p.todo) = "collectJob" /\ p.wf = "both"
         \/ Owed(t) = {"final"} /\ p.wf = IF Head(p.todo) = "collectJob" THEN "collect" ELSE "both"
  BY JobAsked
<1>2. Head(p.todo) \in {"collectJob", "processJob"}
  BY DEF AsksJob
<1>3. Owed(q.todo) = {"loadJobs", "saveJobs", "load", "default"} \cup Owed(t)
  <2>1. AddJob \in Seq(Steps) /\ Owed(AddJob) = {"loadJobs", "saveJobs", "load", "default"}
    BY DEF AddJob, Steps, ConfigSteps, Owed, Range
  <2>2. Owed(AddJob \o t) = Owed(AddJob) \cup Owed(t)
    BY <1>1, <2>1, OwedCat
  <2>3. QED BY <2>1, <2>2
<1> HIDE DEF t
<1>4. Fitting(q, f, w) => Fits(q.got, f, w)
  <2> SUFFICES ASSUME Fitting(q, f, w) PROVE Fits(q.got, f, w)
    OBVIOUS
  <2>1. Owed(t) = {"final"} /\ p.wf = IF Head(p.todo) = "collectJob" THEN "collect" ELSE "both"
    BY <1>1, <1>3 DEF Fitting
  <2>2. CASE Head(p.todo) = "collectJob"
    BY <1>1, <2>1, <2>2 DEF Fits, FitsWorkflow
  <2>3. CASE Head(p.todo) = "processJob"
    <3>1. w.env # "none" => Resolves(f.hosts, f.config, w, TRUE)
      BY <2>1, <2>3 DEF Fitting, Aided, Processes
    <3>2. QED BY <1>1, <2>1, <2>3, <3>1 DEF Fits, FitsWorkflow
  <2>4. QED BY <1>2, <2>2, <2>3
<1>5. ~Nears(q.todo, "source") /\ ~Nears(q.todo, "select") /\ Head(q.todo) # "plan"
  BY DEF Nears
<1>6. JobSettles(q, f, w)
  BY <1>1, <1>4 DEF JobSettles
<1>7. "processJob" \in Owed(q.todo) => "processJob" \in Owed(Tail(p.todo))
  BY <1>3 DEF t
<1>8. QED BY <1>5, <1>6, <1>7, PathSettled

\* The steps that bring an output.
LEMMA OutputOwed ==
  /\ WizardOutput \in Seq(Steps) /\ WizardOutput # <<>>
  /\ Owed(WizardOutput) = {"connect", "parse", "write", "load", "select", "wait", "stamp"}
<1> DEFINE conn == <<"connect">>
           last == <<"load", "wait", "stamp">>
<1>1. /\ conn \in Seq(Steps) /\ Owed(conn) = {"connect"} /\ last \in Seq(Steps) /\ Owed(last) = {"load", "wait", "stamp"}
      /\ Deploy \in Seq(Steps) /\ Owed(Deploy) = {"parse", "write", "load", "select"} /\ Owed(<<>>) = {}
  BY DEF Deploy, Steps, ConfigSteps, Owed, Range
<1>2. WizardOutput = (conn \o Deploy) \o last
  BY DEF WizardOutput
<1> HIDE DEF conn, last
<1>3. conn \o Deploy \in Seq(Steps) /\ Owed(conn \o Deploy) = {"connect"} \cup {"parse", "write", "load", "select"}
  BY <1>1, OwedCat, ConcatProperties
<1>4. /\ WizardOutput \in Seq(Steps)
      /\ Owed(WizardOutput) = ({"connect"} \cup {"parse", "write", "load", "select"}) \cup {"load", "wait", "stamp"}
  BY <1>1, <1>2, <1>3, OwedCat, ConcatProperties
<1>5. QED BY <1>1, <1>4

\* The steps of the parts of a plan.
LEMMA PartsOwed ==
  ASSUME NEW wf \in Workflows, NEW A, NEW B, NEW C, NEW D, NEW E, WizardParts(wf, A, B, C, D, E)
  PROVE  /\ Owed(A \o B \o C \o D \o E \o <<"final">>)
              = Owed(A) \cup Owed(B) \cup Owed(C) \cup Owed(D) \cup Owed(E) \cup {"final"}
         /\ Owed(A) = (IF A = <<>> THEN {} ELSE {"load", "user"}) /\ Owed(B) = (IF B = <<>> THEN {} ELSE {"load", "workflow"})
         /\ Owed(C) \subseteq {"load", "nodefault"}
         /\ Owed(D) = IF D = <<>> THEN {} ELSE {"connect", "parse", "write", "load", "select", "wait", "stamp"}
         /\ Owed(E) = IF ~Collects(wf) THEN {} ELSE {"ask", "collectJob"} \cup (IF wf = "both" THEN {"processJob"} ELSE {})
<1> DEFINE F == <<"final">>
<1>1. /\ <<>> \in Seq(Steps) /\ Owed(<<>>) = {} /\ F \in Seq(Steps) /\ Owed(F) = {"final"}
      /\ <<"load", "user">> \in Seq(Steps) /\ Owed(<<"load", "user">>) = {"load", "user"}
      /\ <<"load", "workflow">> \in Seq(Steps) /\ Owed(<<"load", "workflow">>) = {"load", "workflow"}
      /\ <<"load", "nodefault">> \in Seq(Steps) /\ Owed(<<"load", "nodefault">>) = {"load", "nodefault"}
  BY DEF Steps, ConfigSteps, Owed, Range
<1>2. A \in Seq(Steps) /\ Owed(A) = IF A = <<>> THEN {} ELSE {"load", "user"}
  BY <1>1 DEF WizardParts
<1>3. B \in Seq(Steps) /\ Owed(B) = IF B = <<>> THEN {} ELSE {"load", "workflow"}
  BY <1>1 DEF WizardParts
<1>4. C \in Seq(Steps) /\ Owed(C) \subseteq {"load", "nodefault"}
  BY <1>1 DEF WizardParts
<1>5. D \in Seq(Steps) /\ Owed(D) = IF D = <<>> THEN {} ELSE {"connect", "parse", "write", "load", "select", "wait", "stamp"}
  <2>1. D = <<>> \/ D = WizardOutput
    BY DEF WizardParts
  <2>2. QED BY <1>1, <2>1, OutputOwed
<1>6. E \in Seq(Steps) /\ Owed(E) = IF ~Collects(wf) THEN {} ELSE {"ask", "collectJob"} \cup (IF wf = "both" THEN {"processJob"} ELSE {})
  <2> DEFINE ask == <<"ask">>
             one == <<"collectJob">>
             two == IF wf = "both" THEN <<"processJob">> ELSE <<>>
  <2>1. /\ ask \in Seq(Steps) /\ Owed(ask) = {"ask"} /\ one \in Seq(Steps) /\ Owed(one) = {"collectJob"}
        /\ two \in Seq(Steps) /\ Owed(two) = IF wf = "both" THEN {"processJob"} ELSE {}
    BY <1>1 DEF Steps, Owed, Range
  <2>2. WizardJobs(wf) = one \o two
    BY DEF WizardJobs
  <2> HIDE DEF ask, one, two
  <2>3. WizardJobs(wf) \in Seq(Steps) /\ Owed(WizardJobs(wf)) = {"collectJob"} \cup (IF wf = "both" THEN {"processJob"} ELSE {})
    BY <2>1, <2>2, OwedCat, ConcatProperties
  <2>4. ask \o WizardJobs(wf) \in Seq(Steps) /\ Owed(ask \o WizardJobs(wf)) = {"ask"} \cup Owed(WizardJobs(wf))
    BY <2>1, <2>3, OwedCat, ConcatProperties
  <2>5. E = IF Collects(wf) THEN ask \o WizardJobs(wf) ELSE <<>>
    BY DEF WizardParts, ask
  <2>6. QED BY <1>1, <2>3, <2>4, <2>5
<1> HIDE DEF F
<1>7. Owed(A \o B \o C \o D \o E \o F) = Owed(A) \cup Owed(B) \cup Owed(C) \cup Owed(D) \cup Owed(E) \cup Owed(F)
  <2> DEFINE Cat(s, t) == s \o t
  <2>1. \A s, t \in Seq(Steps) : Cat(s, t) \in Seq(Steps) /\ Owed(Cat(s, t)) = Owed(s) \cup Owed(t)
    BY OwedCat, ConcatProperties
  <2> HIDE DEF Cat
  <2>2. Cat(A, B) \in Seq(Steps) /\ Owed(Cat(A, B)) = Owed(A) \cup Owed(B)
    BY <1>2, <1>3, <2>1
  <2>3. Cat(Cat(A, B), C) \in Seq(Steps) /\ Owed(Cat(Cat(A, B), C)) = Owed(A) \cup Owed(B) \cup Owed(C)
    BY <1>4, <2>1, <2>2
  <2>4. /\ Cat(Cat(Cat(A, B), C), D) \in Seq(Steps)
        /\ Owed(Cat(Cat(Cat(A, B), C), D)) = Owed(A) \cup Owed(B) \cup Owed(C) \cup Owed(D)
    BY <1>5, <2>1, <2>3
  <2>5. /\ Cat(Cat(Cat(Cat(A, B), C), D), E) \in Seq(Steps)
        /\ Owed(Cat(Cat(Cat(Cat(A, B), C), D), E)) = Owed(A) \cup Owed(B) \cup Owed(C) \cup Owed(D) \cup Owed(E)
    BY <1>6, <2>1, <2>4
  <2>6. Owed(Cat(Cat(Cat(Cat(Cat(A, B), C), D), E), F))
          = Owed(A) \cup Owed(B) \cup Owed(C) \cup Owed(D) \cup Owed(E) \cup Owed(F)
    BY <1>1, <2>1, <2>5
  <2>7. QED BY <2>6 DEF Cat
<1>8. QED BY <1>1, <1>2, <1>3, <1>4, <1>5, <1>6, <1>7 DEF F

\* The plan asks for all that is not there.
LEMMA PathPlanned ==
  ASSUME NEW p, NEW f, NEW w, WizardPath(p, f, w), OnCourse("init", p.todo), p.todo # <<>>, Head(p.todo) = "plan",
         NEW wf \in Workflows, NEW A, NEW B, NEW C, NEW D, NEW E, WizardParts(wf, A, B, C, D, E),
         p.cfg.user \/ A # <<>>, p.cfg.workflow = wf \/ B # <<>>,
         Processes(wf) /\ w.env = "none" => ValidOutput(f.hosts, f.config.output) \/ D # <<>>,
         NEW q, q.todo = A \o B \o C \o D \o E \o <<"final">>, q.wf = wf, q.before = p.before
  PROVE  WizardPath(q, f, w)
<1>1. /\ Owed(q.todo) = Owed(A) \cup Owed(B) \cup Owed(C) \cup Owed(D) \cup Owed(E) \cup {"final"}
      /\ Owed(A) = (IF A = <<>> THEN {} ELSE {"load", "user"}) /\ Owed(B) = (IF B = <<>> THEN {} ELSE {"load", "workflow"})
      /\ Owed(C) \subseteq {"load", "nodefault"}
      /\ Owed(D) = (IF D = <<>> THEN {} ELSE {"connect", "parse", "write", "load", "select", "wait", "stamp"})
      /\ Owed(E) = IF ~Collects(wf) THEN {} ELSE {"ask", "collectJob"} \cup (IF wf = "both" THEN {"processJob"} ELSE {})
  BY PartsOwed
<1>2. StartsWith(q.todo, {"load", "connect", "ask", "final"}, {"user", "workflow", "nodefault"})
  BY WizardCourse
<1>3. /\ Head(q.todo) \in {"load", "connect", "ask", "final"}
      /\ Head(q.todo) = "load" => q.todo[2] \in {"user", "workflow", "nodefault"}
  BY <1>2, CourseTail DEF StartsWith
<1>4. p.cfg = f.config /\ (Usable(p.before) => Writable(f.hosts) /\ OutputFits(f))
  <2>1. Owed(p.todo) = {"plan"}
    BY LastOwed
  <2>2. QED BY <2>1 DEF WizardPath, FilesMet
<1>5. FilesMet(q, f) /\ StepsMet(q, f) /\ Head(q.todo) # "plan"
  BY <1>3, <1>4 DEF FilesMet, StepsMet, Nears
<1>6. AnswersMet(q, f, w)
  <2>1. f.config.user \/ "user" \in Owed(q.todo)
    BY <1>1, <1>4
  <2>2. f.config.workflow = wf \/ "workflow" \in Owed(q.todo)
    BY <1>1, <1>4
  <2>3. Processes(wf) /\ w.env = "none" => ValidOutput(f.hosts, f.config.output) \/ "select" \in Owed(q.todo)
    BY <1>1
  <2>4. "processJob" \in Owed(q.todo) => wf = "both"
    <3>1. /\ "processJob" \notin Owed(A) /\ "processJob" \notin Owed(B) /\ "processJob" \notin Owed(C) /\ "processJob" \notin Owed(D)
          /\ wf # "both" => "processJob" \notin Owed(E)
      BY <1>1
    <3>2. QED BY <1>1, <3>1
  <2>5. QED BY <2>1, <2>2, <2>3, <2>4 DEF AnswersMet
<1>7. JobMet(q, f, w)
  BY <1>1 DEF JobMet, NoJob, JobAhead
<1>8. QED BY <1>5, <1>6, <1>7 DEF WizardPath

----------------------------------------------------------------------------
(* The wizard among the other commands                                        *)

\* A wizard that runs alone, and where its step leads.
Wizarding(a) == WorkspaceInv /\ Alone(a) /\ proc[a].op = "init" /\ WizardPath(proc[a], FilesNow, world)
Arrived(a) == ~Running(a)' \/ WizardPath(proc'[a], FilesNow', world')

\* It is enough that the record it goes on with is on the path.
LEMMA Arrives ==
  ASSUME NEW a \in Actors, NEW q, GoTo(a, q), UNCHANGED world, q.todo # <<>> => WizardPath(q, FilesNow', world)
  PROVE  Arrived(a)
<1>1. CASE q.todo = <<>>
  <2>1. proc'[a] = [op |-> "idle", result |-> "ok"]
    BY <1>1 DEF GoTo, End, Becomes, Noticed
  <2>2. QED BY <2>1 DEF Arrived, Running
<1>2. CASE q.todo # <<>>
  <2>1. proc'[a] = q
    BY <1>2 DEF GoTo, Becomes, Noticed
  <2>2. QED BY <1>2, <2>1 DEF Arrived
<1>3. QED BY <1>1, <1>2

\* A wizard that fails is over.
LEMMA GivesUp == ASSUME NEW a \in Actors, NEW r, End(a, r) PROVE Arrived(a)
<1>1. proc'[a] = [op |-> "idle", result |-> r]
  BY DEF End, Becomes, Noticed
<1>2. QED BY <1>1 DEF Arrived, Running

\* What is known of it.
LEMMA WizardFacts ==
  ASSUME NEW a \in Actors, Wizarding(a)
  PROVE  LET p == proc[a] IN
         /\ TypeOK /\ Conduct /\ Running(a) /\ p.op = "init" /\ WizardPath(p, FilesNow, world)
         /\ CommandInv(p) /\ Shaped(p) /\ OnCourse("init", p.todo) /\ p.todo # <<>>
         /\ Head(p.todo) \in StepsOf("init")
         /\ Head(p.todo) \in ConfigSteps => IsConfig(p.cfg) /\ p.cfg = config
         /\ Head(p.todo) \in {"write", "source"} => p.saw = hosts
         /\ ~Unplanned(p) => p.name \in Clusters /\ p.wf \in Workflows
         /\ Unplanned(p) <=> p.todo \in {<<"load", "plan">>, <<"plan">>}
         /\ Tail(p.todo) = <<>> => Head(p.todo) \in {"plan", "final"}
<1> DEFINE p == proc[a]
<1>1. TypeOK /\ Conduct /\ Running(a) /\ p.op = "init" /\ WizardPath(p, FilesNow, world)
  BY DEF Wizarding, WorkspaceInv, Alone
<1>2. CommandInv(p) /\ Shaped(p) /\ Head(p.todo) \in StepsOf("init")
  BY <1>1, HereIs
<1>3. OnCourse("init", p.todo) /\ p.todo # <<>> /\ Knows(p) /\ Arguments(p)
  BY <1>1, <1>2 DEF CommandInv
<1>4. AloneKnows(p)
  BY DEF Wizarding, WorkspaceInv, Conduct, AloneInv
<1> HIDE DEF p
<1>5. /\ Head(p.todo) \in ConfigSteps => IsConfig(p.cfg) /\ p.cfg = config
      /\ Head(p.todo) \in {"write", "source"} => p.saw = hosts
  BY <1>1, <1>3, <1>4 DEF Knows, UsesConfig, AloneKnows, FreshConfig
<1>6. ~Unplanned(p) => p.name \in Clusters /\ p.wf \in Workflows
  BY <1>1, <1>3 DEF Arguments
<1>7. Tail(p.todo) = <<>> => Head(p.todo) \in {"plan", "final"}
  BY <1>3, CourseTail DEF Ending
<1>8. QED BY <1>1, <1>2, <1>3, <1>5, <1>6, <1>7 DEF Unplanned, p

\* It goes on to its next step: one that is not its last.
LEMMA WizardWay ==
  ASSUME NEW a \in Actors, Wizarding(a), ~Unplanned(proc[a]), NEW q, q.todo = Tail(proc[a].todo), q.todo # <<>>, SameWizard(q, proc[a])
  PROVE  OnItsWay(proc[a], q)
BY WizardFacts DEF OnItsWay

\* What is left of the wizard has the same answers.
LEMMA RestSame ==
  ASSUME NEW a \in Actors, Wizarding(a)
  PROVE  SameWizard(Rest(a), proc[a]) /\ Rest(a).todo = Tail(proc[a].todo) /\ Shaped(Rest(a))
<1>1. Shaped(proc[a])
  BY WizardFacts
<1>2. Shaped(Rest(a)) /\ Fields(Rest(a), proc[a]) /\ Rest(a).todo = Tail(proc[a].todo)
  BY <1>1, WithTodo DEF Rest
<1>3. QED BY <1>2 DEF Fields, SameWizard

\* A step between the answers.
LEMMA Wanders ==
  ASSUME NEW a \in Actors, Wizarding(a), ~Unplanned(proc[a]), NEW q, q.todo = Tail(proc[a].todo), SameWizard(q, proc[a]),
         GoTo(a, q), UNCHANGED world, SameOutput(FilesNow', FilesNow), UNCHANGED jobs,
         Head(proc[a].todo) \notin {"plan", "write", "source", "select", "collectJob", "processJob", "saveJobs", "default"},
         Head(proc[a].todo) = "load" => q.cfg = config',
         IF Head(proc[a].todo) = "user" THEN config'.user ELSE config'.user = config.user,
         config'.workflow = IF Head(proc[a].todo) = "workflow" THEN proc[a].wf ELSE config.workflow
  PROVE  Arrived(a)
<1> DEFINE p == proc[a]
           f == FilesNow
           g == FilesNow'
           h == Head(p.todo)
<1>1. ASSUME q.todo # <<>> PROVE WizardPath(q, FilesNow', world)
  <2>1. OnItsWay(p, q) /\ WizardPath(p, f, world)
    BY <1>1, WizardWay, WizardFacts
  <2>2. /\ f.config = config /\ g.config = config' /\ g.jobs = f.jobs /\ SameOutput(g, f)
    BY DEF FilesNow
  <2> HIDE DEF f, g, p
  <2>3. /\ h = "load" => q.cfg = g.config
        /\ IF h = "user" THEN g.config.user ELSE g.config.user = f.config.user
        /\ g.config.workflow = IF h = "workflow" THEN p.wf ELSE f.config.workflow
        /\ h \notin {"plan", "write", "source", "select", "collectJob", "processJob", "saveJobs", "default"}
    BY <2>2 DEF p
  <2> HIDE DEF h
  <2>4. WizardPath(q, g, world)
    BY <2>1, <2>2, <2>3, PathKept DEF h
  <2>5. QED BY <2>4 DEF g
<1>2. QED BY <1>1, Arrives

\* A step that changes no file.
LEMMA Asks ==
  ASSUME NEW a \in Actors, Wizarding(a), ~Unplanned(proc[a]), NEW q, q.todo = Tail(proc[a].todo), SameWizard(q, proc[a]),
         GoTo(a, q), UNCHANGED <<hosts, jobs, config, world>>,
         Head(proc[a].todo) \notin {"plan", "write", "source", "select", "collectJob", "processJob", "saveJobs", "default", "user", "workflow"},
         Head(proc[a].todo) = "load" => q.cfg = config
  PROVE  Arrived(a)
<1>1. SameOutput(FilesNow', FilesNow)
  BY DEF SameOutput, FilesNow
<1>2. QED BY <1>1, Wanders

\* One lemma for each step of the wizard.
LEMMA ParsePath == ASSUME NEW a \in Actors, Wizarding(a), Parse(a) PROVE Arrived(a)
<1> DEFINE p == proc[a]
           r == Rest(a)
           v == IF p.op \in {"host", "cluster", "delcluster"} THEN active ELSE r.mem
           q == [r EXCEPT !.saw = hosts, !.mem = v]
<1>1. Head(p.todo) = "parse" /\ GoTo(a, q) /\ UNCHANGED <<hosts, jobs, config, world>>
  BY DEF Parse, AtStep, files
<1>2. SameWizard(r, p) /\ r.todo = Tail(p.todo) /\ Shaped(r)
  BY RestSame
<1>3. SameWizard(q, p) /\ q.todo = Tail(p.todo)
  <2> HIDE DEF p, r, v
  <2>1. QED BY <1>2 DEF Shaped, SameWizard
<1> HIDE DEF q
<1>4. ~Unplanned(p)
  BY <1>1 DEF Unplanned
<1>5. QED BY <1>1, <1>3, <1>4, Asks

\* An endpoint answers, or a wait is over.
LEMMA PausePath == ASSUME NEW a \in Actors, Wizarding(a), Connect(a) \/ Wait(a) PROVE Arrived(a)
<1>1. /\ Head(proc[a].todo) \in {"connect", "wait"} /\ UNCHANGED <<hosts, jobs, config, world>>
      /\ GoTo(a, Rest(a)) \/ End(a, "failed")
  BY DEF Connect, Wait, AtStep, files, Advance, Fail
<1>2. ~Unplanned(proc[a])
  BY <1>1 DEF Unplanned
<1>3. SameWizard(Rest(a), proc[a]) /\ Rest(a).todo = Tail(proc[a].todo)
  BY RestSame
<1>4. GoTo(a, Rest(a)) => Arrived(a)
  BY <1>1, <1>2, <1>3, Asks
<1>5. QED BY <1>1, <1>4, GivesUp

\* The jobs are read into a copy.
LEMMA LoadJobsPath == ASSUME NEW a \in Actors, Wizarding(a), LoadJobs(a) PROVE Arrived(a)
<1> DEFINE p == proc[a]
           r == Rest(a)
           q == [r EXCEPT !.seen = jobs]
<1>1. Head(p.todo) = "loadJobs" /\ (GoTo(a, q) \/ End(a, "failed")) /\ UNCHANGED <<hosts, jobs, config, world>>
  BY DEF LoadJobs, AtStep, files, Fail
<1>2. SameWizard(r, p) /\ r.todo = Tail(p.todo) /\ Shaped(r)
  BY RestSame
<1>3. SameWizard(q, p) /\ q.todo = Tail(p.todo)
  <2> HIDE DEF p, r
  <2>1. QED BY <1>2 DEF Shaped, SameWizard
<1> HIDE DEF q
<1>4. ~Unplanned(p)
  BY <1>1 DEF Unplanned
<1>5. GoTo(a, q) => Arrived(a)
  BY <1>1, <1>3, <1>4, Asks
<1>6. QED BY <1>1, <1>5, GivesUp

\* The chosen job is written with the others.
LEMMA SaveJobsPath == ASSUME NEW a \in Actors, Wizarding(a), SaveJobs(a) PROVE Arrived(a)
<1> DEFINE p == proc[a]
           q == Rest(a)
           f == FilesNow
           g == FilesNow'
<1>1. Head(p.todo) = "saveJobs" /\ GoTo(a, q) /\ jobs' = JobsOf(p) /\ UNCHANGED <<hosts, config, world>>
  BY DEF SaveJobs, AtStep, Advance
<1>2. SameWizard(q, p) /\ q.todo = Tail(p.todo) /\ p.op = "init" /\ WizardPath(p, f, world)
  BY RestSame, WizardFacts
<1>3. ~Unplanned(p)
  BY <1>1 DEF Unplanned
<1>4. g.hosts = f.hosts /\ g.config = f.config /\ g.jobs = Put(p.seen, p.job, p.got)
  BY <1>1, <1>2 DEF FilesNow, JobsOf
<1> HIDE DEF f, g, q
<1>5. q.todo # <<>> => OnItsWay(p, q)
  BY <1>2, <1>3, WizardWay
<1> HIDE DEF p
<1>6. q.todo # <<>> => WizardPath(q, g, world)
  BY <1>1, <1>2, <1>4, <1>5, PathSaved
<1>7. QED BY <1>1, <1>6, Arrives DEF g

\* The output or the source is written.
LEMMA WritePath == ASSUME NEW a \in Actors, Wizarding(a), Write(a) PROVE Arrived(a)
<1> DEFINE p == proc[a]
           q == Rest(a)
           f == FilesNow
           g == FilesNow'
           hs == Edited(p)
<1>1. CommandInv(p) /\ p.op = "init" /\ Running(a) /\ WizardPath(p, f, world) /\ SameWizard(q, p) /\ q.todo = Tail(p.todo) /\ TypeOK
  BY RestSame, WizardFacts
<1>2. ~SkipsUndefer(p)
  BY <1>1 DEF SkipsUndefer, TouchesSource
<1>3. /\ Head(p.todo) \in {"write", "source"} /\ UNCHANGED <<jobs, config, world>>
      /\ End(a, "failed") \/ (Writable(hs) /\ hosts' = Written(hs) /\ GoTo(a, q))
  BY <1>2 DEF Write, AtStep, Advance, Fail
<1>4. p.saw = hosts /\ IsHosts(p.saw) /\ IsHosts(hs) /\ ~Unplanned(p) /\ p.name \in Clusters
  <2>1. IsHosts(p.saw) /\ IsHosts(hs)
    BY <1>1, <1>3, EditedIs
  <2>2. ~Unplanned(p)
    BY <1>3 DEF Unplanned
  <2>3. QED BY <1>3, <2>1, <2>2, WizardFacts
<1>5. g.jobs = f.jobs /\ g.config = f.config /\ f.hosts = hosts /\ g.hosts = hosts'
  BY <1>3 DEF FilesNow
<1> HIDE DEF f, g, q
<1>6. q.todo # <<>> => OnItsWay(p, q)
  BY <1>1, <1>4, WizardWay
<1>7. ASSUME Writable(hs), hosts' = Written(hs), GoTo(a, q) PROVE Arrived(a)
  <2>1. CASE Head(p.todo) = "write"
    <3>1. hs = WithCluster(p.saw, p.name)
      BY <1>1, <2>1 DEF Edited
    <3>2. ValidOutput(hs, p.name)
      BY <1>4, <3>1, ClusterFits
    <3> HIDE DEF hs, p
    <3>3. q.todo # <<>> => WizardPath(q, g, world)
      BY <1>1, <1>4, <1>5, <1>6, <1>7, <2>1, <3>2, PathWritten
    <3>4. QED BY <1>3, <1>7, <3>3, Arrives DEF g
  <2>2. CASE Head(p.todo) = "source"
    <3>1. hs = WithSource(p)
      BY <2>2 DEF Edited
    <3>2. IsHosts(WithSource(p)) /\ g.hosts = Written(WithSource(p)) /\ p.saw = f.hosts /\ IsHosts(f.hosts)
      BY <1>4, <1>5, <1>7, <3>1
    <3> HIDE DEF hs, p
    <3>3. q.todo # <<>> => WizardPath(q, g, world)
      BY <1>1, <1>5, <1>6, <2>2, <3>2, PathSourced
    <3>4. QED BY <1>3, <1>7, <3>3, Arrives DEF g
  <2>3. QED BY <1>3, <2>1, <2>2
<1>8. QED BY <1>3, <1>7, GivesUp

\* An answer is saved in the configuration.
LEMMA SavePath == ASSUME NEW a \in Actors, Wizarding(a), Save(a) PROVE Arrived(a)
<1> DEFINE p == proc[a]
           h == Head(p.todo)
           q == Rest(a)
           f == FilesNow
           g == FilesNow'
<1>1. /\ h \in ConfigSteps /\ UNCHANGED <<hosts, jobs, world>>
      /\ End(a, "failed") \/ (config' = Saved(p, h) /\ GoTo(a, q))
  BY DEF Save, Fail, Advance
<1>2. /\ h \in {"user", "workflow", "nodefault", "select", "stamp", "undefer", "default"}
      /\ IsConfig(p.cfg) /\ p.cfg = config /\ WizardPath(p, f, world) /\ p.op = "init"
  BY <1>1, WizardFacts DEF StepsOf, ConfigSteps
<1>3. SameWizard(q, p) /\ q.todo = Tail(p.todo)
  BY RestSame
<1>4. ~Unplanned(p)
  BY <1>2 DEF Unplanned
<1>5. q.todo # <<>> => OnItsWay(p, q)
  BY <1>3, <1>4, WizardWay
<1>6. g.hosts = f.hosts /\ g.jobs = f.jobs /\ f.config = config /\ g.config = config' /\ f.hosts = hosts
  BY <1>1 DEF FilesNow
<1>7. ASSUME config' = Saved(p, h), GoTo(a, q) PROVE Arrived(a)
  <2>1. /\ h \in {"user", "workflow", "nodefault", "stamp", "undefer"} =>
             /\ config'.output = config.output /\ config'.context = config.context
             /\ IF h = "user" THEN config'.user ELSE config'.user = config.user
             /\ config'.workflow = IF h = "workflow" THEN p.wf ELSE config.workflow
        /\ h = "select" => /\ config'.output = p.name /\ ~config'.context
                           /\ config'.user = config.user /\ config'.workflow = config.workflow
        /\ h = "default" => /\ config'.output = config.output /\ config'.context = config.context /\ config'.job = p.job
                            /\ config'.user = config.user /\ config'.workflow = config.workflow
    <3> HIDE DEF p, h
    <3>1. h = "user" => config' = [config EXCEPT !.user = TRUE]
      BY <1>2, <1>7 DEF Saved
    <3>2. h = "workflow" => config' = [config EXCEPT !.workflow = p.wf, !.deferred = @ /\ config.workflow = p.wf]
      BY <1>2, <1>7 DEF Saved
    <3>3. h = "nodefault" => config' = [config EXCEPT !.job = None]
      BY <1>2, <1>7 DEF Saved
    <3>4. h = "stamp" => config' = config
      BY <1>2, <1>7 DEF Saved
    <3>5. h = "undefer" => config' = [config EXCEPT !.deferred = FALSE]
      BY <1>2, <1>7 DEF Saved, Undeferred
    <3>6. h = "select" => config' = [config EXCEPT !.output = p.name, !.context = FALSE]
      BY <1>2, <1>7 DEF Saved, Selected
    <3>7. h = "default" => config' = [config EXCEPT !.job = p.job]
      BY <1>2, <1>7 DEF Saved
    <3>8. IsConfig(config)
      BY <1>2
    <3>9. QED BY <3>1, <3>2, <3>3, <3>4, <3>5, <3>6, <3>7, <3>8 DEF IsConfig
  <2>2. CASE h \in {"user", "workflow", "nodefault", "stamp", "undefer"}
    <3>1. SameOutput(FilesNow', FilesNow)
      BY <1>6, <2>1, <2>2 DEF SameOutput
    <3>2. IF h = "user" THEN config'.user ELSE config'.user = config.user
      BY <2>1, <2>2
    <3>3. config'.workflow = IF h = "workflow" THEN p.wf ELSE config.workflow
      BY <2>1, <2>2
    <3>4. h \notin {"plan", "write", "source", "select", "collectJob", "processJob", "saveJobs", "default", "load"}
      BY <2>2
    <3>5. QED BY <1>1, <1>3, <1>4, <1>7, <3>1, <3>2, <3>3, <3>4, Wanders
  <2>3. CASE h = "select"
    <3> HIDE DEF f, g, q, p
    <3>1. q.todo # <<>> => WizardPath(q, g, world)
      BY <1>2, <1>5, <1>6, <2>1, <2>3, PathSelected DEF h
    <3>2. QED BY <1>1, <1>7, <3>1, Arrives DEF g
  <2>4. CASE h = "default"
    <3>1. SameOutput(g, f)
      BY <1>6, <2>1, <2>4 DEF SameOutput
    <3> HIDE DEF f, g, q, p
    <3>2. q.todo # <<>> => WizardPath(q, g, world)
      BY <1>2, <1>5, <1>6, <2>1, <2>4, <3>1, PathDefaulted DEF h
    <3>3. QED BY <1>1, <1>7, <3>2, Arrives DEF g
  <2>5. QED BY <1>2, <2>2, <2>3, <2>4
<1>8. QED BY <1>1, <1>7, GivesUp

\* The first read of a wizard is the one its plan is made from.
LEMMA PathRead ==
  ASSUME NEW p, NEW q, NEW f, NEW w, WizardPath(p, f, w), Unplanned(p), Head(p.todo) = "load", OnCourse("init", p.todo),
         q.todo = Tail(p.todo), q.op = p.op, q.before = p.before, q.cfg = f.config
  PROVE  WizardPath(q, f, w)
<1>1. p.todo = <<"load", "plan">> /\ q.todo = <<"plan">> /\ Head(q.todo) = "plan" /\ p.op = "init"
  <2>1. p.todo = <<"load", "plan">> /\ p.op = "init"
    <3>1. Head(<<"plan">>) # "load"
      OBVIOUS
    <3>2. QED BY <3>1 DEF Unplanned
  <2>2. Tail(<<"load", "plan">>) = <<"plan">> /\ Head(<<"plan">>) = "plan"
    OBVIOUS
  <2>3. QED BY <2>1, <2>2
<1>2. Owed(p.todo) = {"load", "plan"}
  BY <1>1 DEF Owed, Range
<1>3. FilesMet(q, f)
  BY <1>2 DEF WizardPath, FilesMet
<1>4. StepsMet(q, f) /\ Unplanned(q)
  BY <1>1 DEF StepsMet, Nears, Unplanned
<1>5. QED BY <1>3, <1>4 DEF WizardPath

\* The configuration is read, for a plan or for an edit.
LEMMA LoadPath == ASSUME NEW a \in Actors, Wizarding(a), Load(a) PROVE Arrived(a)
<1> DEFINE p == proc[a]
           r == Rest(a)
           m == [r EXCEPT !.cfg = config]
           q == [m EXCEPT !.todo = Tail(@)]
           f == FilesNow
<1>1. /\ Head(p.todo) = "load" /\ UNCHANGED <<hosts, jobs, config, world>>
      /\ GoTo(a, m) \/ (Head(m.todo) = "undefer" /\ GoTo(a, q))
  BY DEF Load, AtStep, files
<1>2. SameWizard(r, p) /\ r.todo = Tail(p.todo) /\ Shaped(r)
  BY RestSame
<1>3. WizardPath(p, f, world) /\ OnCourse("init", p.todo) /\ p.op = "init" /\ p.todo # <<>> /\ Tail(p.todo) # <<>>
  BY <1>1, WizardFacts
<1>4. f.config = config /\ FilesNow' = f /\ SameOutput(f, f)
  BY <1>1 DEF FilesNow, SameOutput
<1> HIDE DEF p, r, f
<1>5. SameWizard(m, p) /\ m.todo = Tail(p.todo) /\ m.cfg = config /\ Shaped(m)
  BY <1>2 DEF Shaped, SameWizard
<1> HIDE DEF m
<1>6. SameWizard(q, m) /\ q.todo = Tail(m.todo)
  BY <1>5 DEF Shaped, SameWizard
<1> HIDE DEF q
<1>7. CASE Unplanned(p)
  <2>1. WizardPath(m, f, world)
    BY <1>1, <1>3, <1>4, <1>5, <1>7, PathRead DEF SameWizard
  <2>2. Head(m.todo) # "undefer"
    BY <1>1, <1>5, <1>7 DEF Unplanned
  <2>3. QED BY <1>1, <1>4, <2>1, <2>2, Arrives
<1>8. CASE ~Unplanned(p)
  <2>1. OnItsWay(p, m)
    BY <1>3, <1>5, <1>8 DEF OnItsWay
  <2>2. WizardPath(m, f, world)
    BY <1>1, <1>3, <1>4, <1>5, <2>1, PathKept
  <2>3. ASSUME Head(m.todo) = "undefer", q.todo # <<>> PROVE WizardPath(q, f, world)
    <3>1. OnCourse("init", m.todo) /\ m.op = "init" /\ m.todo # <<>> /\ ~Unplanned(m)
      <4>1. OnCourse("init", m.todo)
        BY <2>1, WayFacts
      <4>2. ~Unplanned(m)
        BY <2>3 DEF Unplanned
      <4>3. QED BY <1>3, <1>5, <4>1, <4>2 DEF SameWizard
    <3>2. OnItsWay(m, q)
      BY <1>6, <2>3, <3>1 DEF OnItsWay
    <3>3. QED BY <1>4, <2>2, <2>3, <3>2, PathKept
  <2>4. QED BY <1>1, <1>4, <2>2, <2>3, Arrives
<1>9. QED BY <1>7, <1>8

\* The last inspection is the last step.
LEMMA FinalPath == ASSUME NEW a \in Actors, Wizarding(a), Final(a) PROVE Arrived(a)
<1>1. Head(proc[a].todo) = "final" /\ UNCHANGED <<hosts, jobs, config, world>> /\ (GoTo(a, Rest(a)) \/ End(a, "failed"))
  BY DEF Final, AtStep, Decide, files, Advance, Fail
<1>2. ~Unplanned(proc[a])
  BY <1>1 DEF Unplanned
<1>3. SameWizard(Rest(a), proc[a]) /\ Rest(a).todo = Tail(proc[a].todo)
  BY RestSame
<1>4. GoTo(a, Rest(a)) => Arrived(a)
  BY <1>1, <1>2, <1>3, Asks
<1>5. QED BY <1>1, <1>4, GivesUp

\* The plan owes what the workspace lacks for the workflow that is chosen.
LEMMA PlanPath == ASSUME NEW a \in Actors, Wizarding(a), Plan(a) PROVE Arrived(a)
<1> DEFINE p == proc[a]
           r == Ready
           f == FilesNow
           A == IF p.cfg.user THEN <<>> ELSE <<"load", "user">>
           B(wf) == IF p.cfg.workflow = wf THEN <<>> ELSE <<"load", "workflow">>
           C(wf) == IF wf = "process" /\ p.cfg.job # None THEN <<"load", "nodefault">> ELSE <<>>
           D(wf, keep) == IF Processes(wf) /\ ~keep THEN WizardOutput ELSE <<>>
           E(wf) == IF Collects(wf) THEN <<"ask">> \o WizardJobs(wf) ELSE <<>>
           t(wf, keep) == A \o B(wf) \o C(wf) \o D(wf, keep) \o E(wf) \o <<"final">>
<1>1. /\ Shaped(p) /\ Head(p.todo) = "plan" /\ WizardPath(p, f, world) /\ OnCourse("init", p.todo) /\ p.todo # <<>>
      /\ UNCHANGED <<hosts, jobs, config, world>>
  BY WizardFacts DEF Plan, AtStep, Decide, files
<1>2. \/ End(a, "ok")
      \/ \E wf \in Workflows, n \in Clusters, keep \in BOOLEAN :
           (keep => r.output) /\ GoTo(a, [p EXCEPT !.wf = wf, !.name = n, !.todo = t(wf, keep)])
  BY DEF Plan
<1>3. FilesNow' = f /\ f.hosts = hosts /\ f.config = config
  BY <1>1 DEF FilesNow
<1>4. r.output => (world.env = "none" => ValidOutput(hosts, config.output))
  BY DEF Ready, InspectOnboarding
<1>5. ASSUME NEW wf \in Workflows, NEW n \in Clusters, NEW keep \in BOOLEAN, keep => r.output,
             GoTo(a, [p EXCEPT !.wf = wf, !.name = n, !.todo = t(wf, keep)])
      PROVE  Arrived(a)
  <2> DEFINE s == t(wf, keep)
             q == [p EXCEPT !.wf = wf, !.name = n, !.todo = s]
  <2>1. WizardParts(wf, A, B(wf), C(wf), D(wf, keep), E(wf))
    BY DEF WizardParts
  <2>2. /\ p.cfg.user \/ A # <<>>
        /\ p.cfg.workflow = wf \/ B(wf) # <<>>
        /\ Processes(wf) /\ world.env = "none" => ValidOutput(hosts, config.output) \/ D(wf, keep) # <<>>
    BY <1>4, <1>5, OutputOwed
  <2>3. GoTo(a, q) /\ s = A \o B(wf) \o C(wf) \o D(wf, keep) \o E(wf) \o <<"final">>
    BY <1>5
  <2> HIDE DEF A, B, C, D, E, s, f, p
  <2>4. q.todo = s /\ q.wf = wf /\ q.before = p.before
    BY <1>1 DEF Shaped
  <2> HIDE DEF q
  <2>5. WizardPath(q, f, world)
    BY <1>1, <1>3, <2>1, <2>2, <2>3, <2>4, PathPlanned
  <2>6. QED BY <1>1, <1>3, <2>3, <2>5, Arrives
<1>6. QED BY <1>2, <1>5, GivesUp

\* A source is resumed or added.
LEMMA AskPath == ASSUME NEW a \in Actors, Wizarding(a), Ask(a) PROVE Arrived(a)
<1> DEFINE p == proc[a]
           r == Rest(a)
           f == FilesNow
<1>1. Head(p.todo) = "ask" /\ UNCHANGED <<hosts, jobs, config, world>> /\ Running(a) /\ Conduct
  BY WizardFacts DEF Ask, AtStep, Decide, files
<1>2. /\ ~Unplanned(p) /\ SameWizard(r, p) /\ r.todo = Tail(p.todo) /\ Shaped(r) /\ StartsWith(r.todo, {"collectJob"}, {})
      /\ WizardPath(p, f, world) /\ OnCourse("init", p.todo) /\ p.todo # <<>>
  BY <1>1, AtQuestion, RestSame, WizardFacts
<1>3. FilesNow' = f
  BY <1>1 DEF FilesNow
<1>4. ASSUME NEW t, GoTo(a, [r EXCEPT !.target = t]) PROVE Arrived(a)
  <2> DEFINE q == [r EXCEPT !.target = t]
  <2>1. GoTo(a, q)
    BY <1>4
  <2>2. SameWizard(q, p) /\ q.todo = Tail(p.todo)
    <3> HIDE DEF p, r
    <3>1. QED BY <1>2 DEF Shaped, SameWizard
  <2> HIDE DEF q
  <2>3. QED BY <1>1, <1>2, <2>1, <2>2, Asks
<1>5. ASSUME NEW n, GoTo(a, [r EXCEPT !.target = n, !.how = "add", !.todo = WizardHost \o @]) PROVE Arrived(a)
  <2> DEFINE s == WizardHost \o r.todo
             q == [r EXCEPT !.target = n, !.how = "add", !.todo = s]
  <2>1. GoTo(a, q)
    BY <1>5
  <2>2. q.wf = p.wf /\ q.before = p.before /\ q.how = "add" /\ q.todo = WizardHost \o Tail(p.todo)
    <3>1. s = WizardHost \o Tail(p.todo)
      BY <1>2
    <3> HIDE DEF p, r, s
    <3>2. QED BY <1>2, <3>1 DEF Shaped, SameWizard
  <2>3. StartsWith(Tail(p.todo), {"collectJob"}, {})
    BY <1>2
  <2> HIDE DEF q, p, f
  <2>4. WizardPath(q, f, world)
    BY <1>1, <1>2, <2>2, <2>3, PathAsked
  <2>5. QED BY <1>1, <1>3, <2>1, <2>4, Arrives
<1>6. QED BY <1>4, <1>5, GivesUp DEF Ask, Fail

\* What a question about a default job leads to.
LEMMA ChoicePath ==
  ASSUME NEW a \in Actors, Wizarding(a), Head(proc[a].todo) \in {"collectJob", "processJob"},
         UNCHANGED <<hosts, jobs, config, world>>,
         NEW n, NEW job, NEW mine, NEW last, JobChoice(a, n, job, mine, last),
         Head(proc[a].todo) = "processJob" \/ proc[a].wf # "both" => last,
         Has(hosts, job.host, "collect"),
         job.export = (IF Head(proc[a].todo) = "collectJob" THEN "none" ELSE IF world.env # "none" THEN "env" ELSE config.output),
         Head(proc[a].todo) = "processJob" => config.output # None
  PROVE  Arrived(a)
<1> DEFINE p == proc[a]
           b == Rest(a)
           f == FilesNow
           other == config.job # None /\ config.job # mine
           c == [b EXCEPT !.target = job.host]
<1>1. Running(a) /\ Conduct /\ Shaped(p) /\ WizardPath(p, f, world) /\ OnCourse("init", p.todo) /\ p.todo # <<>>
  BY WizardFacts
<1>2. ~Unplanned(p) /\ b.todo = Tail(p.todo) /\ Shaped(b) /\ SameWizard(b, p) /\ StartsWith(b.todo, {"processJob", "final"}, {})
  BY <1>1, AtQuestion, RestSame
<1>3. AsksJob(p, f, world)
  BY <1>1, <1>2 DEF AsksJob
<1>4. FilesNow' = f /\ f.hosts = hosts /\ f.config = config /\ f.jobs = jobs
  BY DEF FilesNow
<1>5. \/ GoTo(a, [c EXCEPT !.job = n, !.got = job, !.mem = "saved", !.todo = AddJob \o @])
      \/ End(a, "failed")
      \/ Ready.job /\ GoTo(a, [c EXCEPT !.mem = "kept"])
      \/ /\ n \in DOMAIN jobs /\ (last => FitsWorkflow(jobs[n], hosts, config, world))
         /\ GoTo(a, [c EXCEPT !.job = n, !.mem = "keep", !.todo = <<"load", "default">> \o @])
  <2>1. CASE other
    BY <2>1 DEF JobChoice, Fail
  <2>2. CASE ~other
    BY <2>2 DEF JobChoice, Fail
  <2>3. QED BY <2>1, <2>2
<1>6. Shaped(c) /\ SameWizard(c, p) /\ c.todo = Tail(p.todo)
  <2> HIDE DEF p, b
  <2>1. QED BY <1>2 DEF Shaped, SameWizard
<1> HIDE DEF c, b
<1>7. ASSUME GoTo(a, [c EXCEPT !.job = n, !.got = job, !.mem = "saved", !.todo = AddJob \o @]) PROVE Arrived(a)
  <2> DEFINE s == AddJob \o c.todo
             q == [c EXCEPT !.job = n, !.got = job, !.mem = "saved", !.todo = s]
  <2>1. s = AddJob \o Tail(p.todo) /\ Head(s) = "loadJobs"
    BY <1>2, <1>6, WizardJobCourse
  <2>2. GoTo(a, q)
    BY <1>7
  <2> HIDE DEF s, p
  <2>3. q.wf = p.wf /\ q.before = p.before /\ q.todo = s /\ q.got = job
    BY <1>6 DEF Shaped, SameWizard
  <2> HIDE DEF q, f
  <2>4. Head(p.todo) = "processJob" => f.config.output # None
    BY <1>4 DEF p
  <2>5. q.got.export = (IF Head(p.todo) = "collectJob" THEN "none" ELSE IF world.env # "none" THEN "env" ELSE f.config.output)
    BY <1>4, <2>3 DEF p
  <2>6. Has(f.hosts, q.got.host, "collect")
    BY <1>4, <2>3
  <2>7. WizardPath(q, f, world)
    BY <1>3, <2>1, <2>3, <2>4, <2>5, <2>6, PathJobSaved
  <2>8. QED BY <1>4, <2>2, <2>7, Arrives
<1>8. ASSUME Ready.job, GoTo(a, [c EXCEPT !.mem = "kept"]) PROVE Arrived(a)
  <2> DEFINE q == [c EXCEPT !.mem = "kept"]
  <2>1. GoTo(a, q)
    BY <1>8
  <2>2. JobReady(f, world)
    BY <1>4, <1>8 DEF JobReady, Fits, Ready, InspectOnboarding
  <2> HIDE DEF p, f
  <2>3. q.wf = p.wf /\ q.before = p.before /\ q.todo = Tail(p.todo)
    BY <1>6 DEF Shaped, SameWizard
  <2> HIDE DEF q
  <2>4. WizardPath(q, f, world)
    BY <1>3, <2>2, <2>3, PathJobLeft
  <2>5. QED BY <1>4, <2>1, <2>4, Arrives
<1>9. ASSUME n \in DOMAIN jobs, last => FitsWorkflow(jobs[n], hosts, config, world),
             GoTo(a, [c EXCEPT !.job = n, !.mem = "keep", !.todo = <<"load", "default">> \o @])
      PROVE  Arrived(a)
  <2> DEFINE s == <<"load", "default">> \o c.todo
             q == [c EXCEPT !.job = n, !.mem = "keep", !.todo = s]
  <2>1. s = <<"load", "default">> \o Tail(p.todo) /\ Head(s) = "load" /\ s[2] = "default"
    <3>1. StartsWith(s, {"load"}, {"default"})
      BY <1>2, <1>6, WizardDefaultCourse
    <3>2. s = <<"load", "default">> \o Tail(p.todo)
      BY <1>6
    <3> HIDE DEF s
    <3>3. QED BY <3>1, <3>2, CourseTail DEF StartsWith
  <2>2. GoTo(a, q)
    BY <1>9
  <2> HIDE DEF s, p
  <2>3. q.wf = p.wf /\ q.before = p.before /\ q.todo = s /\ q.job = n
    BY <1>6 DEF Shaped, SameWizard
  <2> HIDE DEF q, f
  <2>4. q.job \in DOMAIN f.jobs /\ (Head(p.todo) = "processJob" \/ p.wf # "both" => Fits(f.jobs[q.job], f, world))
    BY <1>4, <1>9, <2>3 DEF Fits, p
  <2>5. WizardPath(q, f, world)
    BY <1>3, <2>1, <2>3, <2>4, PathJobKept
  <2>6. QED BY <1>4, <2>2, <2>5, Arrives
<1>10. QED BY <1>5, <1>7, <1>8, <1>9, GivesUp

\* The job that collects.
LEMMA CollectJobPath == ASSUME NEW a \in Actors, Wizarding(a), CollectJob(a) PROVE Arrived(a)
<1>1. Head(proc[a].todo) = "collectJob" /\ UNCHANGED <<hosts, jobs, config, world>>
  BY DEF CollectJob, AtStep, Decide, files
<1>2. PICK n \in CollectHosts(hosts) : JobChoice(a, <<n>>, [host |-> n, export |-> "none"], None, proc[a].wf # "both")
  BY DEF CollectJob
<1> DEFINE job == [host |-> n, export |-> "none"]
           last == proc[a].wf # "both"
           id == <<n>>
<1>3. job.export = "none" /\ Has(hosts, job.host, "collect")
  BY DEF CollectHosts
<1>4. JobChoice(a, id, job, None, last)
  BY <1>2
<1>5. Head(proc[a].todo) = "processJob" \/ proc[a].wf # "both" => last
  BY <1>1
<1> HIDE DEF job, last, id
<1>6. QED BY <1>1, <1>3, <1>4, <1>5, ChoicePath

\* The job that processes, when the first did not make one that fits.
LEMMA ProcessJobPath == ASSUME NEW a \in Actors, Wizarding(a), ProcessJob(a) PROVE Arrived(a)
<1> DEFINE p == proc[a]
           o == config.output
           f == FilesNow
           q == Rest(a)
           e == IF world.env # "none" THEN "env" ELSE o
           job == [host |-> p.target, export |-> e]
           id == <<p.target, o>>
           mine == <<p.target>>
<1>1. Head(p.todo) = "processJob" /\ UNCHANGED <<hosts, jobs, config, world>>
  BY DEF ProcessJob, AtStep, Decide, files
<1>2. \/ Ready.job /\ GoTo(a, q)
      \/ End(a, "failed")
      \/ o # None /\ Has(hosts, p.target, "collect") /\ JobChoice(a, id, job, mine, TRUE)
  BY DEF ProcessJob, Fail, Advance
<1>3. ASSUME Ready.job, GoTo(a, q) PROVE Arrived(a)
  <2>1. FilesNow' = f
    BY <1>1 DEF FilesNow
  <2>2. JobReady(f, world)
    BY <1>3 DEF FilesNow, JobReady, Fits, Ready, InspectOnboarding
  <2>3. AsksJob(p, f, world)
    BY <1>1, WizardFacts DEF AsksJob, Unplanned
  <2>4. SameWizard(q, p) /\ q.todo = Tail(p.todo)
    BY RestSame
  <2> HIDE DEF p, q, f
  <2>5. WizardPath(q, f, world)
    BY <2>2, <2>3, <2>4, PathJobLeft DEF SameWizard
  <2>6. QED BY <1>1, <1>3, <2>1, <2>5, Arrives
<1>4. ASSUME o # None, Has(hosts, p.target, "collect"), JobChoice(a, id, job, mine, TRUE) PROVE Arrived(a)
  <2>1. Has(hosts, job.host, "collect") /\ job.export = IF world.env # "none" THEN "env" ELSE config.output
    BY <1>4
  <2> HIDE DEF job, id, mine
  <2>2. QED BY <1>1, <1>4, <2>1, ChoicePath
<1>5. QED BY <1>2, <1>3, <1>4, GivesUp

\* Every step of the wizard.
LEMMA OwnPath ==
  ASSUME NEW a \in Actors, Wizarding(a), FileStep(a) \/ Decision(a) \/ Exporter(a) \/ Kibana(a) \/ Wizard(a) \/ Interrupt(a)
  PROVE  Arrived(a)
<1>1. Head(proc[a].todo) \in StepsOf("init")
  BY WizardFacts
<1>2. Head(proc[a].todo) \notin {"active", "acquire", "release", "create", "confirm", "confirmAny", "confirmHost", "confirmJob", "draft",
                                 "fetch", "absent", "may", "check", "row", "exporter", "kibana"}
  BY <1>1 DEF StepsOf
<1>3. CASE FileStep(a)
  <2>1. Parse(a) \/ Write(a) \/ Load(a) \/ Save(a) \/ LoadJobs(a) \/ SaveJobs(a)
    BY <1>2, <1>3 DEF FileStep, Active, Acquire, ReleaseJobs, Create, AtStep
  <2>2. QED BY <2>1, ParsePath, WritePath, LoadPath, SavePath, LoadJobsPath, SaveJobsPath
<1>4. CASE Decision(a)
  <2>1. Connect(a) \/ Wait(a)
    BY <1>2, <1>4 DEF Decision, Confirm, ConfirmAny, ConfirmHost, ConfirmJob, Draft, Fetch, Absent, May, Check, Row, AtStep
  <2>2. QED BY <2>1, PausePath
<1>5. CASE Wizard(a)
  BY <1>5, PlanPath, AskPath, CollectJobPath, ProcessJobPath, FinalPath DEF Wizard
<1>6. CASE Interrupt(a)
  <2>1. proc'[a] = [op |-> "idle", result |-> "cut"]
    BY <1>6 DEF Interrupt, Noticed
  <2>2. QED BY <2>1 DEF Arrived, Running
<1>7. ~Exporter(a) /\ ~Kibana(a)
  BY <1>2 DEF Exporter, Kibana, AtStep
<1>8. QED BY <1>3, <1>4, <1>5, <1>6, <1>7

\* A command stays what it is, with whom it shares its time, in its own steps.
SameCommand(q, p) == q.op = p.op /\ q.with = p.with

\* Every form in which the steps leave a record keeps both.
LEMMA SameForms ==
  ASSUME NEW p, Shaped(p)
  PROVE  /\ \A t : SameCommand([p EXCEPT !.todo = t], p)
         /\ \A c, t : SameCommand([p EXCEPT !.cfg = c], p) /\ SameCommand([[p EXCEPT !.cfg = c] EXCEPT !.todo = t], p)
         /\ \A s, m : SameCommand([p EXCEPT !.saw = s, !.mem = m], p)
         /\ \A g, t : SameCommand([p EXCEPT !.got = g], p) /\ SameCommand([p EXCEPT !.got = g, !.todo = t], p)
         /\ \A s, n : SameCommand([p EXCEPT !.seen = s], p) /\ SameCommand([p EXCEPT !.target = n], p) /\ SameCommand([p EXCEPT !.host = n], p)
         /\ \A n, h, t : SameCommand([p EXCEPT !.target = n, !.how = h], p) /\ SameCommand([p EXCEPT !.target = n, !.how = h, !.todo = t], p)
         /\ \A w, n, t : SameCommand([p EXCEPT !.wf = w, !.name = n, !.todo = t], p)
         /\ \A h, j, g, m, t :
              /\ SameCommand([[p EXCEPT !.target = h] EXCEPT !.job = j, !.got = g, !.mem = m, !.todo = t], p)
              /\ SameCommand([[p EXCEPT !.target = h] EXCEPT !.mem = m], p)
              /\ SameCommand([[p EXCEPT !.target = h] EXCEPT !.job = j, !.mem = m, !.todo = t], p)
<1>1. \A t : SameCommand([p EXCEPT !.todo = t], p)
  BY DEF Shaped, SameCommand
<1>2. \A c : SameCommand([p EXCEPT !.cfg = c], p) /\ Shaped([p EXCEPT !.cfg = c])
  BY DEF Shaped, SameCommand
<1>3. \A c, t : SameCommand([[p EXCEPT !.cfg = c] EXCEPT !.todo = t], p)
  BY DEF Shaped, SameCommand
<1>4. \A s, m : SameCommand([p EXCEPT !.saw = s, !.mem = m], p)
  BY DEF Shaped, SameCommand
<1>5. \A g, t : SameCommand([p EXCEPT !.got = g], p) /\ SameCommand([p EXCEPT !.got = g, !.todo = t], p)
  BY DEF Shaped, SameCommand
<1>6. \A s, n : SameCommand([p EXCEPT !.seen = s], p) /\ SameCommand([p EXCEPT !.target = n], p) /\ SameCommand([p EXCEPT !.host = n], p)
  BY DEF Shaped, SameCommand
<1>7. \A n, h, t : SameCommand([p EXCEPT !.target = n, !.how = h], p) /\ SameCommand([p EXCEPT !.target = n, !.how = h, !.todo = t], p)
  BY DEF Shaped, SameCommand
<1>8. \A w, n, t : SameCommand([p EXCEPT !.wf = w, !.name = n, !.todo = t], p)
  BY DEF Shaped, SameCommand
<1>9. \A h, j, g, m, t : SameCommand([[p EXCEPT !.target = h] EXCEPT !.job = j, !.got = g, !.mem = m, !.todo = t], p)
  BY DEF Shaped, SameCommand
<1>10. \A h, m : SameCommand([[p EXCEPT !.target = h] EXCEPT !.mem = m], p)
  BY DEF Shaped, SameCommand
<1>11. \A h, j, m, t : SameCommand([[p EXCEPT !.target = h] EXCEPT !.job = j, !.mem = m, !.todo = t], p)
  BY DEF Shaped, SameCommand
<1>12. QED BY <1>1, <1>2, <1>3, <1>4, <1>5, <1>6, <1>7, <1>8, <1>9, <1>10, <1>11

\* One step of a command, its own: it ends, or goes on as what it was.
Remains(a) == ~Running(a)' \/ SameCommand(proc'[a], proc[a])

\* So it is when it ends, or goes on with a record of the same command.
LEMMA RemainsWhen ==
  ASSUME NEW a \in Actors
  PROVE  /\ \A r : End(a, r) => Remains(a)
         /\ \A q : GoTo(a, q) /\ SameCommand(q, proc[a]) => Remains(a)
<1>1. ASSUME NEW r, End(a, r) PROVE Remains(a)
  <2>1. proc'[a] = [op |-> "idle", result |-> r]
    BY <1>1 DEF End, Becomes, Noticed
  <2>2. QED BY <2>1 DEF Remains, Running
<1>2. ASSUME NEW q, GoTo(a, q), SameCommand(q, proc[a]) PROVE Remains(a)
  <2>1. CASE q.todo = <<>>
    BY <1>1, <1>2, <2>1 DEF GoTo
  <2>2. CASE q.todo # <<>>
    <3>1. proc'[a] = q
      BY <1>2, <2>2 DEF GoTo, Becomes, Noticed
    <3>2. QED BY <1>2, <3>1 DEF Remains
  <2>3. QED BY <2>1, <2>2
<1>3. QED BY <1>1, <1>2

\* The forms in which the steps leave a command.
LEMMA RestForms ==
  ASSUME Conduct, NEW a \in Actors, Running(a)
  PROVE  /\ SameCommand(Rest(a), proc[a]) /\ \A t : SameCommand([proc[a] EXCEPT !.todo = t], proc[a])
         /\ \A c, t : /\ SameCommand([Rest(a) EXCEPT !.cfg = c], proc[a])
                      /\ SameCommand([[Rest(a) EXCEPT !.cfg = c] EXCEPT !.todo = t], proc[a])
         /\ \A s, m : SameCommand([Rest(a) EXCEPT !.saw = s, !.mem = m], proc[a])
         /\ \A g, t : SameCommand([Rest(a) EXCEPT !.got = g], proc[a]) /\ SameCommand([proc[a] EXCEPT !.got = g, !.todo = t], proc[a])
         /\ \A s, n : /\ SameCommand([Rest(a) EXCEPT !.seen = s], proc[a]) /\ SameCommand([Rest(a) EXCEPT !.target = n], proc[a])
                      /\ SameCommand([Rest(a) EXCEPT !.host = n], proc[a])
         /\ \A n, h, t : /\ SameCommand([Rest(a) EXCEPT !.target = n, !.how = h], proc[a])
                         /\ SameCommand([Rest(a) EXCEPT !.target = n, !.how = h, !.todo = t], proc[a])
         /\ \A w, n, t : SameCommand([proc[a] EXCEPT !.wf = w, !.name = n, !.todo = t], proc[a])
         /\ \A h, j, g, m, t :
              /\ SameCommand([[Rest(a) EXCEPT !.target = h] EXCEPT !.job = j, !.got = g, !.mem = m, !.todo = t], proc[a])
              /\ SameCommand([[Rest(a) EXCEPT !.target = h] EXCEPT !.mem = m], proc[a])
              /\ SameCommand([[Rest(a) EXCEPT !.target = h] EXCEPT !.job = j, !.mem = m, !.todo = t], proc[a])
<1> DEFINE p == proc[a]
           r == Rest(a)
<1>1. Shaped(p) /\ Shaped(r)
  BY RestIs
<1>2. \A t : SameCommand([p EXCEPT !.todo = t], p)
  BY <1>1, SameForms
<1>3. SameCommand(r, p)
  BY <1>2 DEF Rest
<1>4. \A q : SameCommand(q, r) => SameCommand(q, p)
  BY <1>3 DEF SameCommand
<1> HIDE DEF p, r
<1>5. /\ \A g, t : SameCommand([p EXCEPT !.got = g, !.todo = t], p)
      /\ \A w, n, t : SameCommand([p EXCEPT !.wf = w, !.name = n, !.todo = t], p)
  BY <1>1, SameForms
<1>6. /\ \A c, t : SameCommand([r EXCEPT !.cfg = c], r) /\ SameCommand([[r EXCEPT !.cfg = c] EXCEPT !.todo = t], r)
      /\ \A s, m : SameCommand([r EXCEPT !.saw = s, !.mem = m], r)
      /\ \A g : SameCommand([r EXCEPT !.got = g], r)
      /\ \A s, n : SameCommand([r EXCEPT !.seen = s], r) /\ SameCommand([r EXCEPT !.target = n], r) /\ SameCommand([r EXCEPT !.host = n], r)
      /\ \A n, h, t : SameCommand([r EXCEPT !.target = n, !.how = h], r) /\ SameCommand([r EXCEPT !.target = n, !.how = h, !.todo = t], r)
      /\ \A h, j, g, m, t :
           /\ SameCommand([[r EXCEPT !.target = h] EXCEPT !.job = j, !.got = g, !.mem = m, !.todo = t], r)
           /\ SameCommand([[r EXCEPT !.target = h] EXCEPT !.mem = m], r)
           /\ SameCommand([[r EXCEPT !.target = h] EXCEPT !.job = j, !.mem = m, !.todo = t], r)
  BY <1>1, SameForms
<1>7. /\ \A c, t : SameCommand([r EXCEPT !.cfg = c], p) /\ SameCommand([[r EXCEPT !.cfg = c] EXCEPT !.todo = t], p)
      /\ \A s, m : SameCommand([r EXCEPT !.saw = s, !.mem = m], p)
      /\ \A g : SameCommand([r EXCEPT !.got = g], p)
      /\ \A s, n : SameCommand([r EXCEPT !.seen = s], p) /\ SameCommand([r EXCEPT !.target = n], p) /\ SameCommand([r EXCEPT !.host = n], p)
      /\ \A n, h, t : SameCommand([r EXCEPT !.target = n, !.how = h], p) /\ SameCommand([r EXCEPT !.target = n, !.how = h, !.todo = t], p)
  BY <1>4, <1>6
<1>8. \A h, j, g, m, t :
        /\ SameCommand([[r EXCEPT !.target = h] EXCEPT !.job = j, !.got = g, !.mem = m, !.todo = t], p)
        /\ SameCommand([[r EXCEPT !.target = h] EXCEPT !.mem = m], p)
        /\ SameCommand([[r EXCEPT !.target = h] EXCEPT !.job = j, !.mem = m, !.todo = t], p)
  BY <1>4, <1>6
<1>9. QED BY <1>2, <1>3, <1>5, <1>7, <1>8 DEF p, r

\* Its own steps leave a command what it is.
LEMMA Remaining ==
  ASSUME Conduct, NEW a \in Actors, Running(a),
         FileStep(a) \/ Decision(a) \/ Exporter(a) \/ Kibana(a) \/ Wizard(a) \/ Interrupt(a)
  PROVE  Remains(a)
<1> DEFINE p == proc[a]
           r == Rest(a)
<1>1. /\ Fail(a) => Remains(a)
      /\ Advance(a) => Remains(a)
      /\ \A t : GoTo(a, [p EXCEPT !.todo = t]) => Remains(a)
  BY RestForms, RemainsWhen DEF Fail, Advance
<1>2. Skip2(a) => Remains(a)
  BY <1>1 DEF Skip2
<1>3. CASE FileStep(a)
  <2>1. CASE Active(a) \/ Save(a) \/ SaveJobs(a) \/ ReleaseJobs(a) \/ Create(a)
    BY <1>1, <2>1 DEF Active, Save, SaveJobs, ReleaseJobs, Create
  <2>2. CASE Parse(a)
    <3>1. \E m : GoTo(a, [r EXCEPT !.saw = hosts, !.mem = m])
      BY <2>2 DEF Parse
    <3>2. QED BY <3>1, RestForms, RemainsWhen
  <2>3. CASE Write(a)
    <3>1. Fail(a) \/ Advance(a) \/ \E t : GoTo(a, [p EXCEPT !.todo = t])
      BY <2>3 DEF Write
    <3>2. QED BY <1>1, <3>1
  <2>4. CASE Load(a)
    <3>1. GoTo(a, [r EXCEPT !.cfg = config]) \/ \E t : GoTo(a, [[r EXCEPT !.cfg = config] EXCEPT !.todo = t])
      BY <2>4 DEF Load
    <3>2. QED BY <3>1, RestForms, RemainsWhen
  <2>5. CASE LoadJobs(a) \/ Acquire(a)
    <3>1. Fail(a) \/ GoTo(a, [r EXCEPT !.seen = jobs])
      BY <2>5 DEF LoadJobs, Acquire
    <3>2. QED BY <1>1, <3>1, RestForms, RemainsWhen
  <2>6. QED BY <1>3, <2>1, <2>2, <2>3, <2>4, <2>5 DEF FileStep
<1>4. CASE Decision(a)
  <2>1. CASE Confirm(a) \/ ConfirmAny(a) \/ Absent(a) \/ May(a) \/ Connect(a) \/ Wait(a)
    BY <1>1, <2>1 DEF Confirm, ConfirmAny, Absent, May, Connect, Wait
  <2>2. CASE ConfirmHost(a)
    <3>1. Fail(a) \/ \E n, h : GoTo(a, [r EXCEPT !.target = n, !.how = h])
      BY <2>2 DEF ConfirmHost
    <3>2. QED BY <1>1, <3>1, RestForms, RemainsWhen
  <2>3. CASE ConfirmJob(a)
    <3>1. Fail(a) \/ Advance(a) \/ \E g, t : GoTo(a, [p EXCEPT !.got = g, !.todo = t])
      BY <2>3 DEF ConfirmJob
    <3>2. QED BY <1>1, <3>1, RestForms, RemainsWhen
  <2>4. CASE Draft(a)
    <3>1. Fail(a) \/ \E g : GoTo(a, [r EXCEPT !.got = g])
      BY <2>4 DEF Draft
    <3>2. QED BY <1>1, <3>1, RestForms, RemainsWhen
  <2>5. CASE Fetch(a)
    <3>1. Head(p.todo) = "fetch" /\ Head(p.todo) \in StepsOf(p.op) /\ p.op \in WebOps \cup CliOps
      BY <2>5, HereIs DEF Fetch, AtStep
    <3>2. p.op \in {"default", "settings", "update"}
      BY <3>1 DEF StepsOf, WebOps, CliOps
    <3>3. Fail(a) \/ Advance(a) \/ (\E g : GoTo(a, [r EXCEPT !.got = g])) \/ (\E h : GoTo(a, [r EXCEPT !.host = h]))
      <4>1. CASE p.name \notin DOMAIN hosts
        BY <2>5, <4>1 DEF Fetch
      <4>2. CASE p.name \in DOMAIN hosts /\ p.op = "default"
        BY <2>5, <4>2 DEF Fetch
      <4>3. CASE p.name \in DOMAIN hosts /\ p.op = "settings"
        BY <2>5, <4>3 DEF Fetch
      <4>4. CASE p.name \in DOMAIN hosts /\ p.op = "update"
        BY <2>5, <4>4 DEF Fetch
      <4>5. QED BY <3>2, <4>1, <4>2, <4>3, <4>4
    <3>4. QED BY <1>1, <3>3, RestForms, RemainsWhen
  <2>6. CASE Check(a)
    <3>1. Fail(a) \/ Advance(a) \/ \E g, t : GoTo(a, [p EXCEPT !.got = g, !.todo = t])
      BY <2>6 DEF Check
    <3>2. QED BY <1>1, <3>1, RestForms, RemainsWhen
  <2>7. CASE Row(a)
    <3>1. End(a, "ok") \/ \E n : GoTo(a, [r EXCEPT !.target = n])
      BY <2>7 DEF Row
    <3>2. QED BY <3>1, RestForms, RemainsWhen
  <2>8. QED BY <1>4, <2>1, <2>2, <2>3, <2>4, <2>5, <2>6, <2>7 DEF Decision
<1>5. CASE Exporter(a)
  BY <1>1, <1>2, <1>5 DEF Exporter
<1>6. CASE Kibana(a)
  BY <1>1, <1>6 DEF Kibana
<1>7. CASE Wizard(a)
  <2>1. CASE Plan(a)
    <3>1. End(a, "ok") \/ \E w, n, t : GoTo(a, [p EXCEPT !.wf = w, !.name = n, !.todo = t])
      BY <2>1 DEF Plan
    <3>2. QED BY <3>1, RestForms, RemainsWhen
  <2>2. CASE Ask(a)
    <3>1. \/ Fail(a) \/ \E n : GoTo(a, [r EXCEPT !.target = n])
          \/ \E n, h, t : GoTo(a, [r EXCEPT !.target = n, !.how = h, !.todo = t])
      BY <2>2 DEF Ask
    <3>2. QED BY <1>1, <3>1, RestForms, RemainsWhen
  <2>3. ASSUME NEW n, NEW job, NEW mine, NEW last, JobChoice(a, n, job, mine, last) PROVE Remains(a)
    <3>1. \/ Fail(a)
          \/ \E h, j, g, m, t : GoTo(a, [[r EXCEPT !.target = h] EXCEPT !.job = j, !.got = g, !.mem = m, !.todo = t])
          \/ \E h, m : GoTo(a, [[r EXCEPT !.target = h] EXCEPT !.mem = m])
          \/ \E h, j, m, t : GoTo(a, [[r EXCEPT !.target = h] EXCEPT !.job = j, !.mem = m, !.todo = t])
      BY <2>3 DEF JobChoice
    <3>2. QED BY <1>1, <3>1, RestForms, RemainsWhen
  <2>4. CASE CollectJob(a)
    BY <2>3, <2>4 DEF CollectJob
  <2>5. CASE ProcessJob(a)
    <3>1. Advance(a) \/ Fail(a) \/ \E n, job, mine, last : JobChoice(a, n, job, mine, last)
      BY <2>5 DEF ProcessJob
    <3>2. QED BY <1>1, <2>3, <3>1
  <2>6. CASE Final(a)
    BY <1>1, <2>6 DEF Final
  <2>7. QED BY <1>7, <2>1, <2>2, <2>4, <2>5, <2>6 DEF Wizard
<1>8. CASE Interrupt(a)
  <2>1. proc'[a] = [op |-> "idle", result |-> "cut"]
    BY <1>8 DEF Interrupt, Noticed
  <2>2. QED BY <2>1 DEF Remains, Running
<1>9. QED BY <1>3, <1>4, <1>5, <1>6, <1>7, <1>8

\* A command that is noticed is not alone.
LEMMA NoticedOnes ==
  ASSUME Conduct, NEW a \in Actors, NEW b \in Actors, a # b, NEW q, proc' = Noticed(b, q)
  PROVE  ~Alone(a)'
<1>1. CASE Running(a)
  <2>1. proc'[a] = [proc[a] EXCEPT !.with = Company(b, a), !.before = None]
    BY <1>1 DEF Noticed
  <2>2. proc'[a].with = Company(b, a)
    <3> DEFINE w == Company(b, a)
               p == proc[a]
               q1 == proc'[a]
    <3>1. Shaped(p) /\ q1 = [p EXCEPT !.with = w, !.before = None]
      BY <1>1, <2>1, RestIs
    <3> HIDE DEF w, p, q1
    <3>2. q1.with = w
      BY <3>1 DEF Shaped
    <3>3. QED BY <3>2 DEF w, q1
  <2>3. QED BY <2>2 DEF Alone, Company
<1>2. CASE ~Running(a)
  <2>1. proc'[a] = Idle
    BY <1>2 DEF Noticed
  <2>2. QED BY <2>1 DEF Alone, Running, Idle
<1>3. QED BY <1>1, <1>2

\* The wizard starts with the files as they are.
LEMMA BeginsPath ==
  ASSUME Conduct, NEW a \in Actors, StartWeb(a) \/ StartCli(a), Alone(a)', proc'[a].op = "init"
  PROVE  WizardPath(proc'[a], FilesNow', world')
<1>1. PICK c : Given(c) /\ Start(a, c)
  BY WebGiven, CliGiven DEF StartWeb, StartCli
<1> DEFINE s == Program[c.op]
           w == IF ~Overlap(a) THEN "nobody" ELSE IF a \in Web /\ \A b \in Cli : ~Running(b) THEN "server" ELSE "others"
           f == IF Overlap(a) THEN None ELSE [hosts |-> hosts, jobs |-> jobs, config |-> config]
           q == proc'[a]
<1>2. Becomes(a, [c EXCEPT !.todo = s, !.with = w, !.before = f]) /\ UNCHANGED <<hosts, jobs, config, world>> /\ Shaped(c)
  BY <1>1 DEF Start, files, Given
<1>3. q = [c EXCEPT !.todo = s, !.with = w, !.before = f]
  BY <1>2 DEF Becomes, Noticed
<1>4. q.op = c.op /\ q.todo = s /\ q.with = w /\ q.before = f
  <2> HIDE DEF s, w, f, q
  <2>1. QED BY <1>2, <1>3 DEF Shaped
<1>5. ~Overlap(a)
  BY <1>4 DEF Alone
<1>6. /\ q.todo = <<"load", "plan">> /\ q.op = "init" /\ q.before = FilesNow
      /\ FilesNow.hosts = hosts /\ FilesNow.jobs = jobs /\ FilesNow.config = config
  BY <1>4, <1>5 DEF Program, FilesNow
<1>7. FilesNow' = FilesNow /\ world' = world
  BY <1>2 DEF FilesNow
<1> HIDE DEF q
<1>8. Usable(FilesNow) => Writable(FilesNow.hosts) /\ OutputFits(FilesNow)
  BY DEF Usable, OutputFits, ReferencesFit
<1>9. /\ Unplanned(q) /\ Head(q.todo) # "plan" /\ ~Nears(q.todo, "source") /\ ~Nears(q.todo, "select")
  BY <1>6 DEF Unplanned, Nears
<1>10. FilesMet(q, FilesNow) /\ StepsMet(q, FilesNow)
  BY <1>6, <1>8, <1>9 DEF FilesMet, StepsMet
<1>11. WizardPath(q, FilesNow, world)
  BY <1>9, <1>10 DEF WizardPath
<1>12. QED BY <1>7, <1>11 DEF q

\* The wizard's path is kept by its own steps; whatever another command does
\* ends that it is alone.
LEMMA WizardKeeps == WorkspaceInv /\ WizardInv /\ [WorkspaceNext]_workspaceVars => WizardInv'
<1> SUFFICES ASSUME WorkspaceInv, WizardInv, [WorkspaceNext]_workspaceVars, NEW a \in Actors, Alone(a)', proc'[a].op = "init"
             PROVE  WizardPath(proc'[a], FilesNow', world')
  BY DEF WizardInv
<1>1. Conduct
  BY DEF WorkspaceInv
<1>2. ASSUME UNCHANGED <<hosts, jobs, config, world, proc>> PROVE WizardPath(proc'[a], FilesNow', world')
  <2>1. FilesNow' = FilesNow /\ Alone(a)
    BY <1>2 DEF FilesNow, Alone, Running
  <2>2. QED BY <1>2, <2>1 DEF WizardInv
<1>3. CASE UNCHANGED workspaceVars
  BY <1>2, <1>3 DEF workspaceVars, files, rest
<1>4. ASSUME NEW b \in Actors, StartWeb(b) \/ StartCli(b) \/ OpenPage(b) PROVE WizardPath(proc'[a], FilesNow', world')
  <2>1. CASE OpenPage(b)
    BY <1>2, <2>1 DEF OpenPage, files, rest
  <2>2. CASE (StartWeb(b) \/ StartCli(b)) /\ b # a
    <3>1. \E q : proc' = Noticed(b, q)
      BY <2>2 DEF StartWeb, StartCli, Start, Becomes
    <3>2. QED BY <1>1, <2>2, <3>1, NoticedOnes
  <2>3. CASE (StartWeb(b) \/ StartCli(b)) /\ b = a
    BY <1>1, <2>3, BeginsPath
  <2>4. QED BY <1>4, <2>1, <2>2, <2>3
<1>5. ASSUME NEW b \in Actors, Running(b), FileStep(b) \/ Decision(b) \/ Exporter(b) \/ Kibana(b) \/ Wizard(b) \/ Interrupt(b)
      PROVE  WizardPath(proc'[a], FilesNow', world')
  <2>1. CASE b # a
    <3>1. \E q : proc' = Noticed(b, q)
      BY <1>1, <1>5, Notices
    <3>2. QED BY <1>1, <2>1, <3>1, NoticedOnes
  <2>2. CASE b = a
    <3>1. Running(a)' /\ proc'[a].with = "nobody"
      BY DEF Alone
    <3>2. SameCommand(proc'[a], proc[a])
      BY <1>1, <1>5, <2>2, <3>1, Remaining DEF Remains
    <3>3. Alone(a) /\ proc[a].op = "init"
      BY <1>5, <2>2, <3>1, <3>2 DEF Alone, SameCommand
    <3>4. Wizarding(a)
      BY <3>3 DEF Wizarding, WizardInv
    <3>5. Arrived(a)
      BY <1>5, <2>2, <3>4, OwnPath
    <3>6. QED BY <3>1, <3>5 DEF Arrived
  <2>3. QED BY <2>1, <2>2
<1>6. CASE Restart
  <2>1. CASE Running(a)
    <3>1. Shaped(proc[a]) /\ proc'[a] = [proc[a] EXCEPT !.with = "others", !.before = None]
      BY <1>1, <1>6, <2>1, RestIs DEF Restart
    <3>2. proc'[a].with = "others"
      BY <3>1 DEF Shaped
    <3>3. QED BY <3>2 DEF Alone
  <2>2. CASE ~Running(a)
    <3>1. proc'[a] = proc[a]
      BY <1>6, <2>2 DEF Restart
    <3>2. QED BY <2>2, <3>1 DEF Alone, Running
  <2>3. QED BY <2>1, <2>2
<1>7. QED BY <1>3, <1>4, <1>5, <1>6 DEF WorkspaceNext

\* At the start nobody runs.
LEMMA WizardStarts == WorkspaceInit => WizardInv
BY DEF WorkspaceInit, WizardInv, Alone, Running, Idle

----------------------------------------------------------------------------
(* Where the wizard gives up                                                  *)

\* The steps that can refuse, and why they do.
Refusing(a) ==
  LET p == proc[a] IN
  \/ Head(p.todo) \in {"nodefault", "connect", "ask", "collectJob", "processJob"}
  \/ Head(p.todo) \in {"write", "source"} /\ ~Writable(Edited(p))
  \/ Head(p.todo) = "default" /\ ~ReferencesFit(hosts, jobs, Saved(p, "default"))
  \/ Head(p.todo) = "final" /\ ~IsComplete(Ready)

\* No other step ends the wizard with an error.
LEMMA FailsWhere ==
  ASSUME NEW a \in Actors, Wizarding(a), WorkspaceNext, Ends(a, "failed") PROVE Refusing(a)
<1> DEFINE p == proc[a]
           r == Rest(a)
           h == Head(p.todo)
<1>1. Conduct /\ Running(a) /\ ~Running(a)' /\ proc'[a].result = "failed" /\ p.op = "init" /\ h \in StepsOf("init")
  BY WizardFacts DEF Ends
<1>2. \A q : GoTo(a, q) => ~SameCommand(q, p)
  BY <1>1, KeepsGoing DEF SameCommand
<1>3. ~End(a, "ok")
  <2>1. End(a, "ok") => proc'[a] = [op |-> "idle", result |-> "ok"]
    BY DEF End, Becomes, Noticed
  <2>2. QED BY <1>1, <2>1
<1>4. ~Advance(a) /\ \A t : ~GoTo(a, [p EXCEPT !.todo = t])
  BY <1>1, <1>2, RestForms DEF Advance
<1>5. h \notin {"active", "acquire", "release", "create", "confirm", "confirmAny", "confirmHost", "confirmJob", "draft",
                "fetch", "absent", "may", "check", "row", "exporter", "kibana", "context"}
  BY <1>1 DEF StepsOf
<1>6. CASE FileStep(a)
  <2>1. CASE Parse(a)
    <3>1. \E m : GoTo(a, [r EXCEPT !.saw = hosts, !.mem = m])
      BY <2>1 DEF Parse
    <3>2. QED BY <1>1, <1>2, <3>1, RestForms
  <2>2. CASE Load(a)
    <3>1. GoTo(a, [r EXCEPT !.cfg = config]) \/ \E t : GoTo(a, [[r EXCEPT !.cfg = config] EXCEPT !.todo = t])
      BY <2>2 DEF Load
    <3>2. QED BY <1>1, <1>2, <3>1, RestForms
  <2>3. CASE LoadJobs(a)
    <3>1. GoTo(a, [r EXCEPT !.seen = jobs])
      BY <1>1, <2>3 DEF LoadJobs
    <3>2. QED BY <1>1, <1>2, <3>1, RestForms
  <2>4. CASE SaveJobs(a)
    BY <1>4, <2>4 DEF SaveJobs
  <2>5. CASE Write(a)
    <3>1. h \in {"write", "source"} /\ p.op # "remove"
      BY <1>1, <2>5 DEF Write, AtStep
    <3>2. Writable(Edited(p)) => Advance(a) \/ \E t : GoTo(a, [p EXCEPT !.todo = t])
      BY <2>5, <3>1 DEF Write
    <3>3. QED BY <1>4, <3>1, <3>2 DEF Refusing
  <2>6. CASE Save(a)
    <3>1. Refused(p, h) \/ h = "nodefault"
      BY <1>4, <2>6 DEF Save
    <3>2. QED BY <1>5, <3>1 DEF Refused, Refusing
  <2>7. Parse(a) \/ Write(a) \/ Load(a) \/ Save(a) \/ LoadJobs(a) \/ SaveJobs(a)
    BY <1>5, <1>6 DEF FileStep, Active, Acquire, ReleaseJobs, Create, AtStep
  <2>8. QED BY <2>1, <2>2, <2>3, <2>4, <2>5, <2>6, <2>7
<1>7. CASE Decision(a)
  <2>1. Connect(a) \/ Wait(a)
    BY <1>5, <1>7 DEF Decision, Confirm, ConfirmAny, ConfirmHost, ConfirmJob, Draft, Fetch, Absent, May, Check, Row, AtStep
  <2>2. QED BY <1>4, <2>1 DEF Connect, Wait, AtStep, Refusing
<1>8. CASE Wizard(a)
  <2>1. ~Plan(a)
    <3>1. Plan(a) => End(a, "ok") \/ \E w, n, t : GoTo(a, [p EXCEPT !.wf = w, !.name = n, !.todo = t])
      BY DEF Plan
    <3>2. \A w, n, t : SameCommand([p EXCEPT !.wf = w, !.name = n, !.todo = t], p)
      BY <1>1, RestForms
    <3>3. QED BY <1>2, <1>3, <3>1, <3>2
  <2>2. CASE Ask(a) \/ CollectJob(a) \/ ProcessJob(a)
    BY <2>2 DEF Ask, CollectJob, ProcessJob, AtStep, Refusing
  <2>3. CASE Final(a)
    BY <1>4, <2>3 DEF Final, AtStep, Refusing
  <2>4. QED BY <1>8, <2>1, <2>2, <2>3 DEF Wizard
<1>9. ~Interrupt(a)
  <2>1. Interrupt(a) => proc'[a] = [op |-> "idle", result |-> "cut"]
    BY DEF Interrupt, Noticed
  <2>2. QED BY <1>1, <2>1
<1>10. ~Exporter(a) /\ ~Kibana(a)
  BY <1>5 DEF Exporter, Kibana, AtStep
<1>11. QED BY <1>1, <1>6, <1>7, <1>8, <1>9, <1>10, OwnStep

\* hosts.yml refuses a new output only when it has the name of a viewer; it
\* never refuses a source.
LEMMA WriteRefused ==
  ASSUME NEW a \in Actors, Wizarding(a), Head(proc[a].todo) \in {"write", "source"}, Usable(proc[a].before),
         ~Writable(Edited(proc[a]))
  PROVE  Head(proc[a].todo) = "write" /\ \E n \in DOMAIN hosts : hosts[n].viewer = proc[a].name
<1> DEFINE p == proc[a]
<1>1. /\ p.op = "init" /\ p.saw = hosts /\ WizardPath(p, FilesNow, world) /\ FilesNow.hosts = hosts /\ TypeOK
      /\ p.name \in Clusters
  <2>1. ~Unplanned(p)
    BY DEF Unplanned
  <2>2. QED BY <2>1, WizardFacts DEF FilesNow
<1>2. Writable(hosts)
  BY <1>1 DEF WizardPath, FilesMet
<1>3. ASSUME Head(p.todo) = "source" PROVE FALSE
  <2>1. p.how = "add" /\ IsHosts(p.saw)
    BY <1>1, <1>3 DEF WizardPath, StepsMet, Nears, TypeOK
  <2>2. Writable(WithSource(p))
    BY <1>1, <1>2, <2>1, SourceFits
  <2>3. QED BY <1>3, <2>2 DEF Edited
<1>4. ASSUME Head(p.todo) = "write" PROVE \E n \in DOMAIN hosts : hosts[n].viewer = p.name
  <2>1. Edited(p) = WithCluster(hosts, p.name)
    BY <1>1, <1>4 DEF Edited
  <2>2. QED BY <1>1, <1>2, <2>1, ClusterFits
<1>5. QED BY <1>3, <1>4

\* The references fit whenever the wizard makes a job the default.
LEMMA DefaultFits ==
  ASSUME NEW a \in Actors, Wizarding(a), Head(proc[a].todo) = "default", Usable(proc[a].before)
  PROVE  ReferencesFit(hosts, jobs, Saved(proc[a], "default"))
<1> DEFINE p == proc[a]
           c == Saved(p, "default")
<1>1. /\ WizardPath(p, FilesNow, world) /\ FilesNow.hosts = hosts /\ FilesNow.jobs = jobs /\ FilesNow.config = config
      /\ IsConfig(p.cfg) /\ p.cfg = config /\ OnCourse("init", p.todo) /\ p.todo # <<>> /\ ~Unplanned(p)
  BY WizardFacts DEF FilesNow, Unplanned, ConfigSteps
<1>2. "default" \in Owed(p.todo) /\ "select" \notin Owed(p.todo) /\ "collectJob" \notin Owed(p.todo)
  <2>1. Owed(p.todo) = {Head(p.todo)} \cup Owed(Tail(p.todo))
    BY <1>1, OwedIs DEF OnCourse
  <2>2. Owed(p.todo) \subseteq {"default", "processJob", "final"}
    BY <1>1, LastOwed
  <2>3. QED BY <2>1, <2>2
<1>3. OutputFits(FilesNow)
  BY <1>1, <1>2 DEF WizardPath, FilesMet
<1>4. p.job \in DOMAIN jobs
  BY <1>1, <1>2 DEF WizardPath, JobMet, NoJob, JobAhead, JobSettles
<1>5. c.output = config.output /\ c.context = config.context /\ c.job = p.job
  <2> DEFINE d == p.cfg
  <2>1. c = [d EXCEPT !.job = p.job]
    BY DEF Saved
  <2> HIDE DEF d, c
  <2>2. c.output = d.output /\ c.context = d.context /\ c.job = p.job
    <3>1. IsConfig(d)
      BY <1>1 DEF d
    <3>2. QED BY <2>1, <3>1 DEF IsConfig
  <2>3. QED BY <1>1, <2>2 DEF d
<1>6. QED BY <1>1, <1>3, <1>4, <1>5 DEF OutputFits, ReferencesFit

\* The last inspection finds what the answers called for.
LEMMA FinalComplete ==
  ASSUME NEW a \in Actors, Wizarding(a), Head(proc[a].todo) = "final"
  PROVE  \/ IsComplete(Ready)
         \/ Processes(proc[a].wf) /\ (~store \/ (world.env # "none" /\ ~Resolves(hosts, config, world, TRUE)))
<1> DEFINE p == proc[a]
           f == FilesNow
<1>1. /\ WizardPath(p, f, world) /\ f.hosts = hosts /\ f.jobs = jobs /\ f.config = config
      /\ OnCourse("init", p.todo) /\ p.todo # <<>> /\ ~Unplanned(p) /\ p.wf \in Workflows
  <2>1. ~Unplanned(p)
    BY DEF Unplanned
  <2>2. QED BY <2>1, WizardFacts DEF FilesNow
<1>2. Owed(p.todo) = {"final"}
  BY <1>1, LastOwed
<1>3. AnswersMet(p, f, world) /\ JobMet(p, f, world)
  BY <1>1 DEF WizardPath
<1> HIDE DEF p, f
<1>4. /\ config.user /\ config.workflow = p.wf
      /\ Processes(p.wf) /\ world.env = "none" => ValidOutput(hosts, config.output)
  BY <1>1, <1>2, <1>3 DEF AnswersMet
<1>5. /\ ~Collects(p.wf) \/ (Aided(p, f, world) => JobReady(f, world))
  BY <1>2, <1>3 DEF JobMet, NoJob, JobAhead, JobSettles, Nears, p
<1>6. ASSUME ~(Processes(p.wf) /\ (~store \/ (world.env # "none" /\ ~Resolves(hosts, config, world, TRUE))))
      PROVE  IsComplete(Ready)
  <2> DEFINE d == Ready
  <2>1. /\ d.user /\ d.workflow = p.wf /\ d.store = store
        /\ d.output = IF world.env # "none" THEN world.env # "none" /\ Resolves(hosts, config, world, TRUE)
                      ELSE ValidOutput(hosts, config.output)
        /\ d.host = (CollectHosts(hosts) # {})
        /\ d.job = (config.job \in DOMAIN jobs /\ FitsWorkflow(jobs[config.job], hosts, config, world))
    <3>1. d.user = config.user /\ d.workflow = config.workflow /\ d.store = store
      BY DEF Ready, InspectOnboarding
    <3>2. d.host = (CollectHosts(hosts) # {})
      BY DEF Ready, InspectOnboarding
    <3>3. d.job = (config.job \in DOMAIN jobs /\ FitsWorkflow(jobs[config.job], hosts, config, world))
      BY DEF Ready, InspectOnboarding
    <3>4. d.output = IF world.env # "none" THEN world.env # "none" /\ Resolves(hosts, config, world, TRUE)
                     ELSE ValidOutput(hosts, config.output)
      BY DEF Ready, InspectOnboarding
    <3>5. QED BY <1>4, <3>1, <3>2, <3>3, <3>4
  <2> HIDE DEF d
  <2>2. Aided(p, f, world)
    BY <1>1, <1>6 DEF Aided
  <2>3. Collects(p.wf) => d.job /\ d.host
    <3>1. Collects(p.wf) => config.job \in DOMAIN jobs /\ FitsWorkflow(jobs[config.job], hosts, config, world)
      BY <1>1, <1>5, <2>2 DEF JobReady, Fits
    <3>2. Collects(p.wf) => CollectHosts(hosts) # {}
      BY <3>1 DEF FitsWorkflow, CollectHosts, Has
    <3>3. QED BY <2>1, <3>1, <3>2
  <2>4. Processes(p.wf) => d.output /\ d.store
    BY <1>4, <1>6, <2>1
  <2>5. p.wf \in {"collect", "process", "both"}
    BY <1>1 DEF Workflows
  <2>6. IsComplete(d)
    BY <2>1, <2>3, <2>4, <2>5 DEF IsComplete, Collects, Processes
  <2>7. QED BY <2>6 DEF d
<1>7. QED BY <1>6 DEF p

\* The wizard, alone, completes a workspace whose files it could write and
\* whose references fit. It stops where the user declines or an endpoint does
\* not answer; otherwise only a new output with the name of a viewer is refused,
\* and only a missing keystore or an environment without its Kibana is found in
\* the end.
THEOREM WizardFinishes == WorkspaceSpec => WizardCompletes
<1>1. WorkspaceInv /\ WizardInv /\ [WorkspaceNext]_workspaceVars =>
        [\A a \in Cli : Alone(a) /\ proc[a].op = "init" /\ Ends(a, "failed") =>
           LET p == proc[a] IN
           \/ Head(p.todo) \in {"nodefault", "connect", "ask", "collectJob", "processJob"}
           \/ ~(Writable(p.before.hosts) /\ ReferencesFit(p.before.hosts, p.before.jobs, p.before.config))
           \/ AtStep(a, "write") /\ \E n \in DOMAIN hosts : hosts[n].viewer = p.name
           \/ /\ AtStep(a, "final") /\ Processes(p.wf)
              /\ ~store \/ (world.env # "none" /\ ~Resolves(hosts, config, world, TRUE))]_workspaceVars
  <2> SUFFICES ASSUME WorkspaceInv, WizardInv, WorkspaceNext, NEW a \in Cli, Alone(a), proc[a].op = "init", Ends(a, "failed")
               PROVE  LET p == proc[a] IN
                      \/ Head(p.todo) \in {"nodefault", "connect", "ask", "collectJob", "processJob"}
                      \/ ~(Writable(p.before.hosts) /\ ReferencesFit(p.before.hosts, p.before.jobs, p.before.config))
                      \/ AtStep(a, "write") /\ \E n \in DOMAIN hosts : hosts[n].viewer = p.name
                      \/ /\ AtStep(a, "final") /\ Processes(p.wf)
                         /\ ~store \/ (world.env # "none" /\ ~Resolves(hosts, config, world, TRUE))
    OBVIOUS
  <2> DEFINE p == proc[a]
  <2>1. a \in Actors /\ Running(a)
    BY DEF Actors, Alone
  <2>2. Wizarding(a)
    BY <2>1 DEF Wizarding, WizardInv
  <2>3. Usable(p.before) <=> Writable(p.before.hosts) /\ ReferencesFit(p.before.hosts, p.before.jobs, p.before.config)
    BY DEF Usable
  <2>4. Refusing(a)
    BY <2>1, <2>2, FailsWhere
  <2>5. CASE Head(p.todo) \in {"write", "source"} /\ ~Writable(Edited(p))
    BY <2>1, <2>2, <2>3, <2>5, WriteRefused DEF AtStep
  <2>6. CASE Head(p.todo) = "default" /\ ~ReferencesFit(hosts, jobs, Saved(p, "default"))
    BY <2>1, <2>2, <2>3, <2>6, DefaultFits
  <2>7. CASE Head(p.todo) = "final" /\ ~IsComplete(Ready)
    BY <2>1, <2>2, <2>7, FinalComplete DEF AtStep
  <2>8. QED BY <2>4, <2>5, <2>6, <2>7 DEF Refusing
<1>2. QED BY <1>1, WorkspaceStarts, WorkspaceKeeps, WizardStarts, WizardKeeps, PTL DEF WorkspaceSpec, WizardCompletes

----------------------------------------------------------------------------
(* The edits of jobs.yml                                                      *)

\* The program of a record, in the forms in which the steps leave one.
LEMMA ProgramKept ==
  ASSUME NEW r, Shaped(r)
  PROVE  /\ \A c : [r EXCEPT !.cfg = c].todo = r.todo
         /\ \A c : Shaped([r EXCEPT !.cfg = c])
         /\ \A s, m : [r EXCEPT !.saw = s, !.mem = m].todo = r.todo
         /\ \A n : /\ [r EXCEPT !.got = n].todo = r.todo /\ [r EXCEPT !.seen = n].todo = r.todo
                   /\ [r EXCEPT !.target = n].todo = r.todo /\ [r EXCEPT !.host = n].todo = r.todo
         /\ \A n, h : [r EXCEPT !.target = n, !.how = h].todo = r.todo
         /\ \A h, m : [[r EXCEPT !.target = h] EXCEPT !.mem = m].todo = r.todo
BY DEF Shaped

\* And where a step replaces it.
LEMMA ProgramPut ==
  ASSUME NEW r, Shaped(r)
  PROVE  /\ \A g, t : [r EXCEPT !.got = g, !.todo = t].todo = t
         /\ \A n, h, t : [r EXCEPT !.target = n, !.how = h, !.todo = t].todo = t
         /\ \A w, n, t : [r EXCEPT !.wf = w, !.name = n, !.todo = t].todo = t
         /\ \A h, j, g, m, t : [[r EXCEPT !.target = h] EXCEPT !.job = j, !.got = g, !.mem = m, !.todo = t].todo = t
         /\ \A h, j, m, t : [[r EXCEPT !.target = h] EXCEPT !.job = j, !.mem = m, !.todo = t].todo = t
BY DEF Shaped

\* The commands that edit jobs.yml without holding the mutex.
JobOps == {"default", "init", "addjob", "dropjob"}

\* Whoever is about to save the jobs has just loaded them: no other step of a
\* command leads there.
LEMMA EditBegins ==
  ASSUME Conduct, ProcInv', NEW a \in Actors, Running(a), AtStep(a, "saveJobs")',
         FileStep(a) \/ Decision(a) \/ Exporter(a) \/ Kibana(a) \/ Wizard(a) \/ Interrupt(a)
  PROVE  LoadJobs(a)
<1> DEFINE p == proc[a]
           r == Rest(a)
           h == Head(p.todo)
           q == proc'[a]
<1>1. /\ CommandInv(p) /\ Shaped(p) /\ OnCourse(p.op, p.todo) /\ p.todo # <<>>
      /\ p.op \in WebOps \cup CliOps /\ h \in StepsOf(p.op)
  BY HereIs DEF CommandInv
<1>2. Shaped(r) /\ r.op = p.op /\ r.todo = Tail(p.todo)
  BY RestIs
<1>3. Running(a)' /\ Head(q.todo) = "saveJobs"
  BY DEF AtStep
<1>4. q.op = p.op
  BY <1>3, Remaining DEF Remains, SameCommand
<1>5. p.op \in JobOps
  <2>1. CommandInv(q)
    BY <1>3 DEF ProcInv
  <2>2. "saveJobs" \in StepsOf(p.op)
    BY <1>3, <1>4, <2>1, HeadsLive DEF CommandInv
  <2>3. QED BY <1>1, <2>2 DEF StepsOf, WebOps, CliOps, JobOps
<1>6. h \notin {"confirm", "confirmAny", "confirmHost", "absent", "may", "check", "row", "exporter", "kibana", "acquire", "release",
                "active", "create"}
  BY <1>1, <1>5 DEF StepsOf, JobOps
<1>7. /\ r.todo # <<>> /\ Head(r.todo) = "saveJobs" => h = "loadJobs"
      /\ r.todo # <<>> /\ Head(r.todo) = "undefer" /\ Tail(r.todo) # <<>> => Head(Tail(r.todo)) # "saveJobs"
  <2>1. r.todo # <<>> => OnCourse(p.op, r.todo) /\ Head(r.todo) \in Succ(p.op, h)
    BY <1>1, <1>2, CourseTail
  <2>2. r.todo # <<>> /\ Tail(r.todo) # <<>> => Head(Tail(r.todo)) \in Succ(p.op, Head(r.todo))
    BY <2>1, CourseTail
  <2>3. "saveJobs" \in Succ(p.op, h) => h = "loadJobs"
    BY <1>1, <1>5 DEF Succ, StepsOf, JobOps
  <2>4. "saveJobs" \notin Succ(p.op, "undefer")
    BY <1>5 DEF Succ, StepsOf, JobOps
  <2>5. QED BY <2>1, <2>2, <2>3, <2>4
<1> HIDE DEF r, p, q
<1>8. \A g : ~End(a, g)
  <2>1. ASSUME NEW g, End(a, g) PROVE FALSE
    <3>1. q = [op |-> "idle", result |-> g]
      BY <2>1 DEF End, Becomes, Noticed, q
    <3>2. QED BY <1>3, <3>1 DEF Running, q
  <2>2. QED BY <2>1
<1>9. ASSUME NEW n, GoTo(a, n) PROVE n.todo # <<>> /\ Head(n.todo) = "saveJobs"
  <2>1. n.todo # <<>> /\ Becomes(a, n)
    BY <1>8, <1>9 DEF GoTo
  <2>2. q = n
    BY <2>1 DEF Becomes, Noticed, q
  <2>3. QED BY <1>3, <2>1, <2>2
<1>10. ASSUME NEW n, GoTo(a, n), n.todo = r.todo PROVE h = "loadJobs"
  BY <1>7, <1>9, <1>10
<1>11. Advance(a) => h = "loadJobs"
  BY <1>10 DEF Advance, r
<1>12. ~Fail(a)
  BY <1>8 DEF Fail
<1>13. h = "loadJobs" => LoadJobs(a)
  <2>1. SUFFICES ASSUME h = "loadJobs" PROVE LoadJobs(a)
    OBVIOUS
  <2>2. ~Decision(a)
    BY <2>1 DEF h, p, Decision, Confirm, ConfirmAny, ConfirmHost, ConfirmJob, Draft, Fetch, Absent, May, Check, Row, Connect, Wait, AtStep
  <2>3. ~Wizard(a) /\ ~Exporter(a) /\ ~Kibana(a)
    BY <2>1 DEF h, p, Wizard, Plan, Ask, CollectJob, ProcessJob, Final, Exporter, Kibana, AtStep
  <2>4. ~Interrupt(a)
    <3>1. Interrupt(a) => q = [op |-> "idle", result |-> "cut"]
      BY DEF Interrupt, Noticed, q
    <3>2. QED BY <1>3, <3>1 DEF Running, q
  <2>5. QED BY <2>1, <2>2, <2>3, <2>4 DEF h, p, FileStep, Parse, Write, Active, Load, Save, SaveJobs, Acquire, ReleaseJobs, Create, AtStep,
                                           ConfigSteps
<1>14. CASE FileStep(a)
  <2>1. CASE Active(a) \/ Save(a) \/ SaveJobs(a) \/ ReleaseJobs(a) \/ Create(a)
    BY <1>11, <1>12, <1>13, <2>1 DEF Active, Save, SaveJobs, ReleaseJobs, Create
  <2>2. CASE Parse(a)
    <3>1. \E m : GoTo(a, [r EXCEPT !.saw = hosts, !.mem = m])
      BY <2>2 DEF Parse, r
    <3>2. ASSUME NEW m, GoTo(a, [r EXCEPT !.saw = hosts, !.mem = m]) PROVE h = "loadJobs"
      <4>1. [r EXCEPT !.saw = hosts, !.mem = m].todo = r.todo
        BY <1>2, ProgramKept
      <4>2. QED BY <1>10, <3>2, <4>1
    <3>3. QED BY <1>13, <3>1, <3>2
  <2>3. CASE Write(a)
    <3>1. h \in {"write", "source"}
      BY <2>3 DEF Write, AtStep, h, p
    <3>2. p.op = "init"
      BY <1>1, <1>5, <3>1 DEF StepsOf, JobOps
    <3>3. ~SkipsUndefer(p)
      BY <3>2 DEF SkipsUndefer, TouchesSource
    <3>4. Advance(a) \/ Fail(a)
      BY <2>3, <3>3 DEF Write, p
    <3>5. QED BY <1>11, <1>12, <1>13, <3>4
  <2>4. CASE Load(a)
    <3> DEFINE c == [r EXCEPT !.cfg = config]
    <3>1. \/ GoTo(a, c)
          \/ Len(c.todo) > 0 /\ Head(c.todo) = "undefer" /\ GoTo(a, [c EXCEPT !.todo = Tail(c.todo)])
      BY <2>4 DEF Load, r
    <3>2. Shaped(c) /\ c.todo = r.todo
      BY <1>2, ProgramKept
    <3> HIDE DEF c
    <3>3. [c EXCEPT !.todo = Tail(c.todo)].todo = Tail(r.todo)
      BY <3>2, WithTodo
    <3>4. CASE GoTo(a, c)
      BY <1>10, <1>13, <3>2, <3>4
    <3>5. CASE Len(c.todo) > 0 /\ Head(c.todo) = "undefer" /\ GoTo(a, [c EXCEPT !.todo = Tail(c.todo)])
      <4>1. Tail(r.todo) # <<>> /\ Head(Tail(r.todo)) = "saveJobs"
        BY <1>9, <3>3, <3>5
      <4>2. r.todo # <<>> /\ Head(r.todo) = "undefer"
        <5>1. Len(<<>>) = 0
          BY EmptySeq
        <5>2. QED BY <3>2, <3>5, <5>1
      <4>3. QED BY <1>7, <4>1, <4>2
    <3>6. QED BY <3>1, <3>4, <3>5
  <2>5. CASE LoadJobs(a) \/ Acquire(a)
    <3>1. Fail(a) \/ GoTo(a, [r EXCEPT !.seen = jobs])
      BY <2>5 DEF LoadJobs, Acquire, r
    <3>2. QED BY <1>2, <1>10, <1>12, <1>13, <3>1, ProgramKept
  <2>6. QED BY <1>14, <2>1, <2>2, <2>3, <2>4, <2>5 DEF FileStep
<1>15. CASE Decision(a)
  <2>1. CASE Confirm(a) \/ ConfirmAny(a) \/ Absent(a) \/ May(a) \/ Connect(a) \/ Wait(a)
    BY <1>11, <1>12, <1>13, <2>1 DEF Confirm, ConfirmAny, Absent, May, Connect, Wait
  <2>2. CASE ConfirmHost(a) \/ Check(a) \/ Row(a)
    BY <1>6, <2>2 DEF ConfirmHost, Check, Row, AtStep, h, p
  <2>3. CASE ConfirmJob(a)
    <3>1. Fail(a) \/ Advance(a) \/ \E g : GoTo(a, [p EXCEPT !.got = g, !.todo = AddJob])
      BY <2>3 DEF ConfirmJob, p
    <3>2. ASSUME NEW g, GoTo(a, [p EXCEPT !.got = g, !.todo = AddJob]) PROVE FALSE
      <4>1. [p EXCEPT !.got = g, !.todo = AddJob].todo = AddJob
        BY <1>1, ProgramPut
      <4>2. QED BY <1>9, <3>2, <4>1, AddJobCourse
    <3>3. QED BY <1>11, <1>12, <1>13, <3>1, <3>2
  <2>4. CASE Draft(a)
    <3>1. Fail(a) \/ \E g : GoTo(a, [r EXCEPT !.got = g])
      BY <2>4 DEF Draft, r
    <3>2. QED BY <1>2, <1>10, <1>12, <1>13, <3>1, ProgramKept
  <2>5. CASE Fetch(a)
    <3>1. p.op = "default"
      <4>1. h = "fetch"
        BY <2>5 DEF Fetch, AtStep, h, p
      <4>2. QED BY <1>1, <1>5, <4>1 DEF StepsOf, JobOps
    <3>2. Fail(a) \/ Advance(a)
      BY <2>5, <3>1 DEF Fetch, p
    <3>3. QED BY <1>11, <1>12, <1>13, <3>2
  <2>6. QED BY <1>15, <2>1, <2>2, <2>3, <2>4, <2>5 DEF Decision
<1>16. CASE Exporter(a) \/ Kibana(a)
  BY <1>6, <1>16 DEF Exporter, Kibana, AtStep, h, p
<1>17. CASE Wizard(a)
  <2>1. CASE Plan(a)
    <3> DEFINE A == IF p.cfg.user THEN <<>> ELSE <<"load", "user">>
               B(wf) == IF p.cfg.workflow = wf THEN <<>> ELSE <<"load", "workflow">>
               C(wf) == IF wf = "process" /\ p.cfg.job # None THEN <<"load", "nodefault">> ELSE <<>>
               D(wf, keep) == IF Processes(wf) /\ ~keep THEN WizardOutput ELSE <<>>
               E(wf) == IF Collects(wf) THEN <<"ask">> \o WizardJobs(wf) ELSE <<>>
               t(wf, keep) == A \o B(wf) \o C(wf) \o D(wf, keep) \o E(wf) \o <<"final">>
    <3>1. \/ End(a, "ok")
          \/ \E wf \in Workflows, n \in Clusters, keep \in BOOLEAN : GoTo(a, [p EXCEPT !.wf = wf, !.name = n, !.todo = t(wf, keep)])
      BY <2>1 DEF Plan, p
    <3>2. ASSUME NEW wf \in Workflows, NEW n, NEW keep \in BOOLEAN, GoTo(a, [p EXCEPT !.wf = wf, !.name = n, !.todo = t(wf, keep)])
          PROVE  FALSE
      <4>1. StartsWith(t(wf, keep), {"load", "connect", "ask", "final"}, {"user", "workflow", "nodefault"})
        <5>1. WizardParts(wf, A, B(wf), C(wf), D(wf, keep), E(wf))
          BY DEF WizardParts
        <5> HIDE DEF A, B, C, D, E
        <5>2. QED BY <5>1, WizardCourse
      <4> DEFINE s == t(wf, keep)
      <4>2. GoTo(a, [p EXCEPT !.wf = wf, !.name = n, !.todo = s]) /\ StartsWith(s, {"load", "connect", "ask", "final"}, {"user", "workflow", "nodefault"})
        BY <3>2, <4>1
      <4> HIDE DEF s
      <4>3. [p EXCEPT !.wf = wf, !.name = n, !.todo = s].todo = s
        BY <1>1, ProgramPut
      <4>4. Head(s) \in {"load", "connect", "ask", "final"}
        BY <4>2, CourseTail DEF StartsWith
      <4>5. QED BY <1>9, <4>2, <4>3, <4>4
    <3>3. QED BY <1>8, <3>1, <3>2
  <2>2. ASSUME h \in {"ask", "collectJob", "processJob"}
        PROVE  /\ h = "ask" => StartsWith(r.todo, {"collectJob"}, {})
               /\ h # "ask" => StartsWith(r.todo, {"processJob", "final"}, {})
    BY <2>2, AtQuestion DEF h, p, r
  <2>3. CASE Ask(a)
    <3>1. h = "ask"
      BY <2>3 DEF Ask, AtStep, h, p
    <3>2. \/ Fail(a) \/ \E n : GoTo(a, [r EXCEPT !.target = n])
          \/ \E n \in Clusters : GoTo(a, [r EXCEPT !.target = n, !.how = "add", !.todo = WizardHost \o r.todo])
      BY <2>3 DEF Ask, r
    <3>3. ASSUME NEW n \in Clusters, GoTo(a, [r EXCEPT !.target = n, !.how = "add", !.todo = WizardHost \o r.todo]) PROVE FALSE
      <4>1. Head(WizardHost \o r.todo) = "parse"
        BY <2>2, <3>1, WizardHostCourse
      <4>2. [r EXCEPT !.target = n, !.how = "add", !.todo = WizardHost \o r.todo].todo = WizardHost \o r.todo
        BY <1>2, ProgramPut
      <4>3. QED BY <1>9, <3>3, <4>1, <4>2
    <3>4. QED BY <1>2, <1>10, <1>12, <1>13, <3>2, <3>3, ProgramKept
  <2>4. ASSUME NEW n, NEW job, NEW mine, NEW last, JobChoice(a, n, job, mine, last), h \in {"collectJob", "processJob"}
        PROVE  h = "loadJobs"
    <3> DEFINE c == [r EXCEPT !.target = job.host]
               u == AddJob \o c.todo
               v == <<"load", "default">> \o c.todo
               w(m) == [c EXCEPT !.mem = m]
               x == [c EXCEPT !.job = n, !.got = job, !.mem = "saved", !.todo = u]
               y == [c EXCEPT !.job = n, !.mem = "keep", !.todo = v]
    <3>1. Fail(a) \/ GoTo(a, x) \/ GoTo(a, w("kept")) \/ GoTo(a, y)
      BY <2>4 DEF JobChoice, r
    <3>2. c.todo = r.todo /\ Shaped(c) /\ w("kept").todo = r.todo
      BY <1>2 DEF Shaped
    <3>3. x.todo = u /\ y.todo = v
      BY <3>2 DEF Shaped
    <3>4. StartsWith(r.todo, {"processJob", "final"}, {})
      BY <2>2, <2>4
    <3>5. Head(u) = "loadJobs"
      BY <3>2, <3>4, WizardJobCourse
    <3>6. Head(v) = "load"
      <4>1. StartsWith(v, {"load"}, {"default"})
        BY <3>2, <3>4, WizardDefaultCourse
      <4>2. QED BY <4>1, CourseTail DEF StartsWith
    <3> HIDE DEF c, u, v, w, x, y
    <3>7. GoTo(a, w("kept")) => h = "loadJobs"
      BY <1>10, <3>2
    <3>8. GoTo(a, x) => h = "loadJobs"
      BY <1>9, <2>2, <2>4, <3>3, <3>5
    <3>9. ~GoTo(a, y)
      BY <1>9, <3>3, <3>6
    <3>10. QED BY <1>12, <3>1, <3>7, <3>8, <3>9
  <2>5. CASE CollectJob(a)
    <3>1. h = "collectJob"
      BY <2>5 DEF CollectJob, AtStep, h, p
    <3>2. QED BY <1>13, <2>4, <2>5, <3>1 DEF CollectJob
  <2>6. CASE ProcessJob(a)
    <3>1. h = "processJob"
      BY <2>6 DEF ProcessJob, AtStep, h, p
    <3>2. Advance(a) \/ Fail(a) \/ \E n, job, mine, last : JobChoice(a, n, job, mine, last)
      BY <2>6 DEF ProcessJob
    <3>3. QED BY <1>11, <1>12, <1>13, <2>4, <3>1, <3>2
  <2>7. CASE Final(a)
    BY <1>11, <1>12, <1>13, <2>7 DEF Final
  <2>8. QED BY <1>17, <2>1, <2>3, <2>5, <2>6, <2>7 DEF Wizard
<1>18. CASE Interrupt(a)
  <2>1. q = [op |-> "idle", result |-> "cut"]
    BY <1>18 DEF Interrupt, Noticed, q
  <2>2. QED BY <1>3, <2>1 DEF Running, q
<1>19. QED BY <1>14, <1>15, <1>16, <1>17, <1>18

\* A command alone that is about to save the jobs knows them as they are.
EditsFresh == \A a \in Actors : Alone(a) /\ AtStep(a, "saveJobs") => proc[a].seen = jobs

LEMMA EditsKeep == WorkspaceInv /\ EditsFresh /\ [WorkspaceNext]_workspaceVars => EditsFresh'
<1> SUFFICES ASSUME WorkspaceInv, EditsFresh, [WorkspaceNext]_workspaceVars, NEW a \in Actors, Alone(a)', AtStep(a, "saveJobs")'
             PROVE  proc'[a].seen = jobs'
  BY DEF EditsFresh
<1>1. Conduct /\ ProcInv'
  BY WorkspaceKeeps DEF WorkspaceInv, Conduct
<1>2. ASSUME UNCHANGED <<jobs, proc>> PROVE proc'[a].seen = jobs'
  <2>1. Alone(a) /\ AtStep(a, "saveJobs")
    BY <1>2 DEF Alone, Running, AtStep
  <2>2. QED BY <1>2, <2>1 DEF EditsFresh
<1>3. CASE UNCHANGED workspaceVars
  BY <1>2, <1>3 DEF workspaceVars, files
<1>4. ASSUME NEW b \in Actors, b # a, NEW q, proc' = Noticed(b, q) PROVE FALSE
  BY <1>1, <1>4, NoticedOnes
<1>5. ASSUME NEW b \in Actors, StartWeb(b) \/ StartCli(b) \/ OpenPage(b) PROVE proc'[a].seen = jobs'
  <2>1. CASE OpenPage(b)
    BY <1>2, <2>1 DEF OpenPage, files
  <2>2. CASE (StartWeb(b) \/ StartCli(b)) /\ b # a
    <3>1. \E q : proc' = Noticed(b, q)
      BY <2>2 DEF StartWeb, StartCli, Start, Becomes
    <3>2. QED BY <1>4, <2>2, <3>1
  <2>3. CASE (StartWeb(b) \/ StartCli(b)) /\ b = a
    <3>1. PICK c : Given(c) /\ Start(a, c)
      BY <2>3, WebGiven, CliGiven DEF StartWeb, StartCli
    <3>2. PICK w, f : Becomes(a, [c EXCEPT !.todo = Program[c.op], !.with = w, !.before = f])
      BY <3>1 DEF Start
    <3> DEFINE s == Program[c.op]
               q == proc'[a]
    <3>3. q = [c EXCEPT !.todo = s, !.with = w, !.before = f] /\ Shaped(c) /\ c.op \in WebOps \cup CliOps
      BY <3>1, <3>2 DEF Becomes, Noticed, Given
    <3>4. Head(q.todo) = "saveJobs"
      BY DEF AtStep
    <3>5. Head(s) # "saveJobs"
      BY <3>3, ProgramStarts DEF FirstSteps
    <3> HIDE DEF s, q
    <3>6. q.todo = s
      BY <3>3 DEF Shaped
    <3>7. QED BY <3>4, <3>5, <3>6
  <2>4. QED BY <1>5, <2>1, <2>2, <2>3
<1>6. ASSUME NEW b \in Actors, Running(b), FileStep(b) \/ Decision(b) \/ Exporter(b) \/ Kibana(b) \/ Wizard(b) \/ Interrupt(b)
      PROVE  proc'[a].seen = jobs'
  <2>1. CASE b # a
    <3>1. \E q : proc' = Noticed(b, q)
      BY <1>1, <1>6, Notices
    <3>2. QED BY <1>4, <2>1, <3>1
  <2>2. CASE b = a
    <3>1. LoadJobs(a)
      BY <1>1, <1>6, <2>2, EditBegins
    <3> DEFINE r == Rest(a)
               q == [r EXCEPT !.seen = jobs]
    <3>2. Shaped(r) /\ jobs' = jobs
      BY <1>1, <1>6, <2>2, <3>1, RestIs DEF LoadJobs, files
    <3>3. Fail(a) \/ GoTo(a, q)
      BY <3>1 DEF LoadJobs
    <3>4. Running(a)'
      BY DEF Alone
    <3>5. proc'[a] = q
      <4>1. ASSUME NEW g, End(a, g) PROVE FALSE
        <5>1. proc'[a] = [op |-> "idle", result |-> g]
          BY <4>1 DEF End, Becomes, Noticed
        <5>2. QED BY <3>4, <5>1 DEF Running
      <4>2. Becomes(a, q)
        BY <3>3, <4>1 DEF Fail, GoTo
      <4>3. QED BY <4>2 DEF Becomes, Noticed
    <3> HIDE DEF r
    <3>6. q.seen = jobs
      BY <3>2 DEF Shaped
    <3>7. QED BY <3>2, <3>5, <3>6
  <2>3. QED BY <2>1, <2>2
<1>7. CASE Restart
  <2>1. CASE Running(a)
    <3>1. Shaped(proc[a]) /\ proc'[a] = [proc[a] EXCEPT !.with = "others", !.before = None]
      BY <1>1, <1>7, <2>1, RestIs DEF Restart
    <3>2. proc'[a].with = "others"
      BY <3>1 DEF Shaped
    <3>3. QED BY <3>2 DEF Alone
  <2>2. CASE ~Running(a)
    <3>1. proc'[a] = proc[a]
      BY <1>7, <2>2 DEF Restart
    <3>2. QED BY <2>2, <3>1 DEF Alone, Running
  <2>3. QED BY <2>1, <2>2
<1>8. QED BY <1>3, <1>5, <1>6, <1>7 DEF WorkspaceNext

LEMMA EditsStart == WorkspaceInit => EditsFresh
BY DEF WorkspaceInit, EditsFresh, Alone, Running, Idle

\* Every edit of jobs.yml changes the job it names and no other: that of a page
\* that holds the mutex, whatever other pages do, unless another process shared
\* its time; that of any other command when it is alone.
THEOREM JobsSerialized == WorkspaceSpec => JobsSerial
<1>1. WorkspaceInv /\ EditsFresh /\ [WorkspaceNext]_workspaceVars =>
        [\A a \in Actors : (ReleaseJobs(a) /\ proc[a].with # "others") \/ (SaveJobs(a) /\ Alone(a)) => OnlyChanges(proc[a].job)]_workspaceVars
  <2> SUFFICES ASSUME WorkspaceInv, EditsFresh, NEW a \in Actors,
                      (ReleaseJobs(a) /\ proc[a].with # "others") \/ (SaveJobs(a) /\ Alone(a))
               PROVE  OnlyChanges(proc[a].job)
    OBVIOUS
  <2>1. proc[a].seen = jobs
    BY DEF ReleaseJobs, SaveJobs, EditsFresh, WorkspaceInv, Conduct, MutexInv
  <2>2. jobs' = Drop(jobs, {proc[a].job}) \/ jobs' = Put(jobs, proc[a].job, proc[a].got)
    BY <2>1 DEF ReleaseJobs, SaveJobs, JobsOf
  <2>3. QED BY <2>2 DEF OnlyChanges, Drop, Put
<1>2. QED BY <1>1, WorkspaceStarts, WorkspaceKeeps, EditsStart, EditsKeep, PTL DEF WorkspaceSpec, JobsSerial
=============================================================================
