------------------------------- MODULE Workspace -------------------------------
(* The files that configure ESDiag (hosts.yml, jobs.yml, esdiag.yml and the    *)
(* legacy settings.yml) and everything that edits them: the onboarding pages   *)
(* (server/web_onboarding.rs), the settings page (server/settings.rs), the     *)
(* host manager (server/hosts.rs), the saved jobs (server/saved_jobs.rs), the  *)
(* commands host, output, job and init (main.rs), and a restart of the server. *)
(*                                                                             *)
(* A command is a program of file accesses, one step each. Nothing but the     *)
(* mutex of jobs.yml, which only one process shares, orders the steps of two   *)
(* commands: each edits the copy it read. hosts.yml is replaced in one step    *)
(* here; the moment in which it is truncated is part of Keystore.              *)
EXTENDS Readiness, TLC

CONSTANTS
  Web, Cli,        \* handlers of the server, commands in a shell
  Forms,           \* the hosts a form or a command line can describe
  Local,           \* the output `local up` saves
  Seeds,           \* the workspaces a run starts from
  MaxCommands,
  MaxLosses        \* commands cut off

Actors == Web \cup Cli
ASSUME ActorsAssumption ==
  /\ Web \cap Cli = {} /\ None \notin Actors \cup (Names \X {"u1", "u2"})
  /\ MaxCommands \in Nat /\ MaxLosses \in Nat

\* What the files hold. A job has any name.
HostRecords == [app : {"es", "kb", "other"}, roles : SUBSET {"collect", "send", "view"}, viewer : Names \cup {None},
                url : {"u1", "u2"}, secret : BOOLEAN]
Exports == {"none", "env"} \cup Names
IsHosts(hs) ==
  /\ hs = [n \in DOMAIN hs |-> hs[n]] /\ DOMAIN hs \subseteq Names
  /\ \A n \in DOMAIN hs : hs[n] \in HostRecords
IsJobs(js) ==
  /\ js = [j \in DOMAIN js |-> js[j]]
  /\ \A j \in DOMAIN js : js[j].export \in Exports
IsConfig(c) ==
  /\ c = [user |-> c.user, workflow |-> c.workflow, output |-> c.output, context |-> c.context,
          deferred |-> c.deferred, job |-> c.job]
  /\ c.workflow \in Workflows \cup {None} /\ c.output \in Names \cup {None}
  /\ {c.user, c.context, c.deferred} \subseteq BOOLEAN

\* A form or a command line gives a host some role.
ASSUME FormsAssumption ==
  /\ Forms \subseteq HostRecords /\ \A f \in Forms : f.roles # {}
  /\ Local \in Clusters

VARIABLES
  hosts, jobs, config,   \* hosts.yml, jobs.yml, esdiag.yml
  active,                \* active_target of settings.yml
  store,                 \* secrets.yml exists
  world,                 \* ESDIAG_OUTPUT_URL and the context of .elasticrc
  exporter, kibanaLink,  \* ServerState: the deployment jobs are sent to, the link shown
  page,                  \* the rows of the host manager in each browser: id and name
  lock,                  \* the holder of saved_jobs_io_lock in the server
  proc,                  \* the command of each actor
  clean,                 \* no command has overlapped another or was cut off
  started, losses

files == <<hosts, jobs, config, active, store>>
server == <<exporter, kibanaLink, lock>>
rest == <<world, clean, started, losses>>
workspaceVars == <<files, server, rest, page, proc>>

Idle == [op |-> "idle", result |-> "none"]
Blank == [op |-> "idle", name |-> None, orig |-> None, host |-> None, wf |-> None, job |-> None,
          target |-> None, saw |-> <<>>, cfg |-> None, seen |-> <<>>, got |-> None, how |-> None, mem |-> None,
          with |-> "nobody", before |-> None, todo |-> <<>>]

(* ------------------------------- programs --------------------------------- *)
\* The file accesses of each handler and command, in the order of the code.
Undefer == <<"load", "undefer">>
Deploy == <<"parse", "write", "load", "select">>
AddJob == <<"loadJobs", "saveJobs", "load", "default">>
Reload == <<"exporter", "kibana">>

SaveIdentity == <<"load", "user", "load", "workflow">>
SaveKeystore == <<"create", "load">> \o Reload
\* Mutant: the output is saved before it is tried.
SaveOutputFirst == <<"confirm">> \o Deploy \o <<"connect", "load", "stamp">> \o Reload
SaveOutput == <<"confirm", "connect">> \o Deploy \o <<"load", "stamp">> \o Reload

Provision == <<"confirmAny", "connect">> \o Deploy \o <<"load", "stamp", "load">> \o Reload
SaveCollection == <<"confirmHost", "connect", "parse", "source">> \o Undefer
Defer == <<"load">> \o Reload \o <<"may", "load", "defer">>
DefaultJob == <<"load", "confirmJob", "fetch", "load", "draft">> \o AddJob
UpdateSettings == <<"load", "check", "fetch", "connect", "select", "kibana", "exporter">>
UpsertHost == <<"parse", "write">> \o Undefer \o <<"active">>
UpsertCluster == <<"parse", "write", "active">>
DeleteHost == <<"row", "parse", "write">> \o Undefer
DeleteCluster == <<"row", "parse", "write", "active">>
AddHost == <<"absent", "connect", "parse", "write">> \o Undefer
UpdateHost == <<"fetch", "connect", "parse", "write">> \o Undefer
RemoveHost == <<"parse", "write">> \o Undefer \o <<"active">>
EditContext == <<"load", "context">>
EditJobs == <<"loadJobs", "saveJobs">>
WithJobs == <<"acquire", "release">>

Program ==
  [identity |-> SaveIdentity, unlock |-> SaveKeystore, output |-> SaveOutput, provision |-> Provision,
   collection |-> SaveCollection, defer |-> Defer, default |-> DefaultJob, settings |-> UpdateSettings,
   host |-> UpsertHost, cluster |-> UpsertCluster, delhost |-> DeleteHost, delcluster |-> DeleteCluster,
   savejob |-> WithJobs, deljob |-> WithJobs,
   add |-> AddHost, update |-> UpdateHost, remove |-> RemoveHost, context |-> EditContext, clear |-> EditContext,
   addjob |-> EditJobs, dropjob |-> EditJobs, init |-> <<"load", "plan">>]

\* run_init_wizard: the steps its answers lead to. The configuration that is
\* stamped at the end of the output stage is read before the assets are
\* installed, which may take minutes ("wait").
WizardOutput == <<"connect">> \o Deploy \o <<"load", "wait", "stamp">>
WizardHost == <<"parse", "source">> \o Undefer
WizardJobs(wf) == <<"collectJob">> \o (IF wf = "both" THEN <<"processJob">> ELSE <<>>)

(* ------------------------------ initial states ---------------------------- *)
TypeOK ==
  /\ IsHosts(hosts) /\ IsJobs(jobs) /\ IsConfig(config)
  /\ active \in Names \cup {None} /\ store \in BOOLEAN /\ lock \in Web \cup {None}
  /\ exporter \in {None} \cup (Names \X {"u1", "u2"}) \cup {<<"env">>, <<"rc">>}
  /\ kibanaLink \in {None} \cup (Names \X {"u1", "u2"})
  /\ started \in 0..MaxCommands /\ losses \in 0..MaxLosses

\* What can be read back from hosts.yml: roles and viewer links that fit.
Readable(hs) == \A n \in DOMAIN hs :
  /\ hs[n].roles # {} /\ ("send" \in hs[n].roles => hs[n].app = "es")
  /\ hs[n].viewer # None => Has(hs, n, "send") /\ Is(hs, hs[n].viewer, "kb")

\* The files a run starts from were written by the program.
ASSUME SeedsAssumption == \A s \in Seeds :
  /\ IsHosts(s.hosts) /\ Readable(s.hosts) /\ IsJobs(s.jobs) /\ IsConfig(s.config)
  /\ s.config.deferred => CollectHosts(s.hosts) = {}
  /\ s.active \in Names \cup {None} /\ s.store \in BOOLEAN

\* The server has resolved the output of the workspace it starts in.
StartExporter(hs, c, w, st) ==
  IF ~Resolves(hs, c, w, FALSE) THEN None
  ELSE IF c.context THEN <<"rc">> ELSE IF w.env # "none" THEN <<"env">>
  ELSE <<c.output, hs[c.output].url>>

WorkspaceInit ==
  \E s \in Seeds :
    /\ hosts = s.hosts /\ jobs = s.jobs /\ config = s.config /\ active = s.active
    /\ store = s.store /\ world = s.world
    /\ exporter = StartExporter(s.hosts, s.config, s.world, s.store) /\ kibanaLink = None
    /\ page = [a \in Web |-> <<>>] /\ lock = None /\ proc = [a \in Actors |-> Idle]
    /\ clean = TRUE /\ started = 0 /\ losses = 0

Running(a) == proc[a].op # "idle"
NobodyRuns == \A a \in Actors : ~Running(a)
Ready == InspectOnboarding(hosts, jobs, config, world, store)

(* ------------------------------ command steps ----------------------------- *)
AtStep(a, step) == Running(a) /\ Head(proc[a].todo) = step

\* With whom a command shares its time: nobody, handlers of the same server,
\* or also commands of other processes.
Company(a, b) == IF {a, b} \subseteq Web /\ proc[b].with # "others" THEN "server" ELSE "others"
Noticed(a, p) == [b \in Actors |-> IF b = a THEN p
                   ELSE IF Running(b) THEN [proc[b] EXCEPT !.with = Company(a, b), !.before = None] ELSE Idle]
Overlap(a) == \E b \in Actors \ {a} : Running(b)

Becomes(a, p) == proc' = Noticed(a, p) /\ clean' = (clean /\ ~Overlap(a))
End(a, r) == Becomes(a, [op |-> "idle", result |-> r])
GoTo(a, p) == IF p.todo = <<>> THEN End(a, "ok") ELSE Becomes(a, p)
Rest(a) == [proc[a] EXCEPT !.todo = Tail(@)]
Advance(a) == GoTo(a, Rest(a))
Skip2(a) == GoTo(a, [proc[a] EXCEPT !.todo = Tail(Tail(@))])
Fail(a) == End(a, "failed")

Start(a, cmd) ==
  /\ ~Running(a) /\ started < MaxCommands
  /\ started' = started + 1
  /\ Becomes(a, [cmd EXCEPT !.todo = Program[cmd.op], !.with = IF ~Overlap(a) THEN "nobody"
                              ELSE IF a \in Web /\ \A b \in Cli : ~Running(b) THEN "server" ELSE "others",
                   !.before = IF Overlap(a) THEN None ELSE [hosts |-> hosts, jobs |-> jobs, config |-> config]])
  /\ UNCHANGED <<files, server, page, world, losses>>

Cmd(op, n) == [Blank EXCEPT !.op = op, !.name = n]

\* A form is new, or edits a row under another name.
Origins(n, rows) == {None} \cup ({rows[i] : i \in DOMAIN rows} \ {n})

\* The forms of the web interface: onboarding and settings, the two tables of
\* the host manager, the saved jobs. A user confirms every replacement the page
\* asks about; without the confirmation the handler stops at the question.
OnboardingForms ==
  {[Cmd("identity", None) EXCEPT !.wf = wf] : wf \in Workflows}
  \cup {Cmd(op, None) : op \in {"defer", "unlock"}}
  \cup {Cmd(op, n) : op \in {"output", "collection", "settings"}, n \in Clusters}
  \cup {Cmd("provision", Local)}
  \cup {[Cmd("default", n) EXCEPT !.job = <<n>>] : n \in Clusters}
HostForms(a) ==
  {[Cmd("delhost", r.name) EXCEPT !.mem = r.id] : r \in {page[a][i] : i \in DOMAIN page[a]}}
  \cup UNION {{[Cmd("host", n) EXCEPT !.orig = o, !.host = h] : o \in Origins(n, HostRows(hosts)), h \in Forms} : n \in Clusters}
ClusterForms ==
  {[Cmd("delcluster", None) EXCEPT !.mem = i] : i \in DOMAIN ClusterRows(hosts)}
  \cup UNION {{[Cmd("cluster", n) EXCEPT !.orig = o] : o \in Origins(n, ClusterRows(hosts))} : n \in Clusters}
\* validate_saved_job: the reference names a host that can be collected from,
\* whatever its roles, or a context of the Elastic CLI (None).
Collectable(n) == IF n = None THEN world.rc # "none" ELSE n \in DOMAIN hosts /\ hosts[n].app # "other"
JobForms ==
  {[Cmd("savejob", n) EXCEPT !.job = <<n>>, !.got = [host |-> n, export |-> "none"],
                             !.how = IF Collectable(n) THEN "valid" ELSE "invalid"] : n \in Clusters \cup {None}}
  \cup {[Cmd("deljob", None) EXCEPT !.job = j] : j \in DOMAIN jobs}
WebCommands(a) == OnboardingForms \cup HostForms(a) \cup ClusterForms \cup JobForms

\* The commands of a shell.
HostCommands ==
  {[Cmd("add", n) EXCEPT !.host = h] : n \in Clusters, h \in Forms}
  \cup {[Cmd("update", n) EXCEPT !.host = h] : n \in Clusters, h \in Forms}
  \cup {[Cmd("remove", n) EXCEPT !.target = n] : n \in Names}
JobCommands ==
  {[Cmd("addjob", n) EXCEPT !.job = <<n>>, !.got = [host |-> n, export |-> "none"]] : n \in Clusters}
  \cup {[Cmd("dropjob", None) EXCEPT !.job = j] : j \in DOMAIN jobs}
CliCommands == HostCommands \cup JobCommands \cup {Cmd(op, None) : op \in {"context", "clear", "init"}}

StartWeb(a) == a \in Web /\ \E c \in WebCommands(a) : Start(a, c)
StartCli(a) == a \in Cli /\ \E c \in CliCommands : Start(a, c)

\* hosts_page: the rows of the table are numbered from one.
Rows(hs) == [i \in DOMAIN HostRows(hs) |-> [id |-> i, name |-> HostRows(hs)[i]]]
OpenPage(a) ==
  /\ a \in Web /\ ~Running(a)
  /\ page[a] = <<>> /\ HostRows(hosts) # <<>>
  /\ page' = [page EXCEPT ![a] = Rows(hosts)]
  /\ UNCHANGED <<files, server, rest, proc>>

\* parse_hosts_yml
Parse(a) ==
  /\ AtStep(a, "parse")
  /\ GoTo(a, [Rest(a) EXCEPT !.saw = hosts, !.mem = IF proc[a].op \in {"host", "cluster", "delcluster"} THEN active ELSE @])
  /\ UNCHANGED <<files, server, page, world, started, losses>>

\* The host that a command saves.
OutputHost(n) == [app |-> "es", roles |-> {"send"}, viewer |-> KibanaOf[n], url |-> "u2", secret |-> TRUE]
ViewerHost == [app |-> "kb", roles |-> {"view"}, viewer |-> None, url |-> "u2", secret |-> TRUE]
SourceHost == [app |-> "es", roles |-> {"collect"}, viewer |-> None, url |-> "u2", secret |-> TRUE]

\* Mutant: a source is saved over the host of its name.
WithSourceOver(p) == Put(p.saw, p.target, SourceHost)
\* save_collect_host and replace_collect_host: unless the form replaces it, a
\* known host only gains the role.
WithSource(p) ==
  IF p.target \in DOMAIN p.saw /\ p.how # "replace"
  THEN Put(p.saw, p.target, [p.saw[p.target] EXCEPT !.roles = @ \cup {"collect"}])
  ELSE Put(p.saw, p.target, SourceHost)

\* save_output_deployment, apply_upsert_cluster: an output and its viewer.
WithCluster(hs, n) == Put(Put(hs, n, OutputHost(n)), KibanaOf[n], ViewerHost)

\* The map each command writes back, from the copy it read.
Edited(p) ==
  IF Head(p.todo) = "source" THEN WithSource(p) ELSE
  CASE p.op \in {"output", "provision", "init"} -> WithCluster(p.saw, p.name)
    [] p.op = "cluster" ->
         WithCluster(IF p.orig \in {None, p.name} THEN p.saw ELSE Drop(p.saw, {p.orig, KibanaOf[p.orig]}), p.name)
    [] p.op = "host" -> Put(Drop(p.saw, {p.orig} \ {p.name}), p.name, p.host)
    [] p.op \in {"add", "update"} -> Put(p.saw, p.name, p.host)
    [] p.op = "delcluster" -> Drop(p.saw, {p.target, KibanaOf[p.target]})
    [] OTHER -> Drop(p.saw, {p.target})

\* The steps after the write that the code takes only for a source.
TouchesSource(p) ==
  CASE p.op = "host" -> \/ Has(p.saw, p.name, "collect") \/ Has(p.saw, p.orig, "collect")
                        \/ "collect" \in Normalized(p.host).roles
    [] p.op \in {"add", "update"} -> "collect" \in p.host.roles
    [] p.op \in {"delhost", "remove"} -> Has(p.saw, p.target, "collect")
    [] OTHER -> TRUE
SkipsUndefer(p) == Len(p.todo) >= 3 /\ SubSeq(p.todo, 2, 3) = Undefer /\ ~TouchesSource(p)

\* write_hosts_yml: refused as a whole when a role or a link does not fit. A
\* row that was deleted leaves the page, the other rows keep their numbers.
Write(a) ==
  LET p == proc[a]
      hs == Edited(p)
  IN /\ AtStep(a, "write") \/ AtStep(a, "source")
     /\ IF Writable(hs) /\ (p.op = "remove" => p.target \in DOMAIN p.saw)
        THEN /\ hosts' = Written(hs)
             /\ store' = (store \/ p.op \in {"output", "provision", "collection", "init"})
             /\ IF SkipsUndefer(p) THEN GoTo(a, [p EXCEPT !.todo = SubSeq(@, 4, Len(@))]) ELSE Advance(a)
             /\ page' = IF p.op = "delhost"
                        THEN [page EXCEPT ![a] = SelectSeq(@, LAMBDA r : r.id # p.mem)] ELSE page
        ELSE Fail(a) /\ UNCHANGED <<hosts, store, page>>
     /\ UNCHANGED <<jobs, config, active, server, world, started, losses>>

\* The answer to a saved cluster renders all rows again, the answer to a saved
\* host only its own: the row it was edited in, or one appended for it.
RowSaved(p, rows) ==
  IF \E i \in DOMAIN rows : rows[i].name \in {p.name, p.orig}
  THEN [i \in DOMAIN rows |-> IF rows[i].name \in {p.name, p.orig} THEN [rows[i] EXCEPT !.name = p.name] ELSE rows[i]]
  ELSE Append(rows, [id |-> rows[Len(rows)].id + 1, name |-> p.name])
Answered(p, rows) == IF p.op = "host" THEN RowSaved(p, rows) ELSE Rows(hosts)

\* settings.save: the legacy file follows a rename and forgets a host.
Active(a) ==
  LET p == proc[a]
      left == IF p.op = "remove" THEN hosts ELSE Edited(p)
      moved == CASE p.op \in {"host", "cluster"} /\ p.orig \notin {None, p.name} /\ p.mem = p.orig -> p.name
                 [] p.op = "cluster" /\ p.orig \notin {None, p.name} /\ p.mem = KibanaOf[p.orig] -> KibanaOf[p.name]
                 [] OTHER -> IF p.op = "remove" THEN active ELSE p.mem
      gone == CASE p.op = "remove" -> moved = p.target
                [] p.op = "delcluster" -> moved \in {p.target, KibanaOf[p.target]}
                [] OTHER -> moved # None /\ moved \notin DOMAIN left
      next == IF gone THEN FirstOrNone(DOMAIN left) ELSE moved
  IN /\ AtStep(a, "active")
     /\ active' = IF p.op = "remove" \/ next # p.mem THEN next ELSE active
     /\ page' = IF a \in Web /\ page[a] # <<>> THEN [page EXCEPT ![a] = Answered(p, @)] ELSE page
     /\ Advance(a)
     /\ UNCHANGED <<hosts, jobs, config, store, server, world, started, losses>>

\* ApplicationConfig::load. An update that would change nothing is not saved.
Load(a) ==
  LET p == [Rest(a) EXCEPT !.cfg = config] IN
  /\ AtStep(a, "load")
  /\ IF Len(p.todo) > 0 /\ Head(p.todo) = "undefer" /\ ~config.deferred
     THEN GoTo(a, [p EXCEPT !.todo = Tail(@)]) ELSE GoTo(a, p)
  /\ UNCHANGED <<files, server, page, world, started, losses>>

\* OutputConfig::select_saved_host
Selected(p) == [p.cfg EXCEPT !.output = p.name, !.context = FALSE]

\* Mutant: a source no longer clears the deferral.
UndeferredKeeps(p) == p.cfg
\* clear_collection_deferral
Undeferred(p) == [p.cfg EXCEPT !.deferred = FALSE]

\* What each step changes in the configuration it read.
Saved(p, step) ==
  CASE step = "user" -> [p.cfg EXCEPT !.user = TRUE]
    [] step = "workflow" -> [p.cfg EXCEPT !.workflow = p.wf, !.deferred = @ /\ p.cfg.workflow = p.wf]
    [] step = "select" -> Selected(p)
    [] step = "undefer" -> Undeferred(p)
    [] step = "defer" -> [p.cfg EXCEPT !.deferred = TRUE]
    [] step = "context" -> [p.cfg EXCEPT !.context = (p.op = "context")]
    [] step = "default" -> [p.cfg EXCEPT !.job = p.job]
    [] step = "nodefault" -> [p.cfg EXCEPT !.job = None]
    [] OTHER -> p.cfg

\* Steps that check the references of what they are about to save.
Refused(p, step) ==
  \/ step = "default" /\ p.mem # "keep" /\ ~ReferencesFit(hosts, jobs, Saved(p, step))
  \/ step = "context" /\ p.op = "context" /\ world.rc = "none"

ConfigSteps == {"user", "workflow", "select", "stamp", "undefer", "defer", "context", "default", "nodefault"}

\* ApplicationConfig::save replaces the file by the edited copy. The wizard
\* asks before it clears a default job.
Save(a) ==
  /\ Running(a) /\ Head(proc[a].todo) \in ConfigSteps
  /\ LET step == Head(proc[a].todo)
     IN \/ (Refused(proc[a], step) \/ step = "nodefault") /\ Fail(a) /\ UNCHANGED config
        \/ ~Refused(proc[a], step) /\ config' = Saved(proc[a], step) /\ Advance(a)
  /\ UNCHANGED <<hosts, jobs, active, store, server, page, world, started, losses>>

\* load_saved_jobs and save_saved_jobs: one hold of the mutex each; a command
\* in a shell is another process and has a mutex of its own.
Free(a) == a \in Cli \/ lock = None
JobsOf(p) == IF p.op \in {"deljob", "dropjob"} THEN Drop(p.seen, {p.job}) ELSE Put(p.seen, p.job, p.got)
LoadJobs(a) ==
  /\ AtStep(a, "loadJobs") /\ Free(a)
  /\ IF proc[a].op = "dropjob" /\ proc[a].job \notin DOMAIN jobs THEN Fail(a)
     ELSE GoTo(a, [Rest(a) EXCEPT !.seen = jobs])
  /\ UNCHANGED <<files, server, page, world, started, losses>>
SaveJobs(a) ==
  /\ AtStep(a, "saveJobs") /\ Free(a)
  /\ jobs' = JobsOf(proc[a])
  /\ Advance(a)
  /\ UNCHANGED <<hosts, config, active, store, server, page, world, started, losses>>

\* Mutant: the mutex is given back between the two accesses.
HoldBriefly(a) == lock' = None
\* saved_jobs_io_lock
Hold(a) == lock' = a

\* with_saved_jobs_async: both accesses under one hold. save_job has checked
\* the reference before it waits for the mutex, delete_saved_job looks for the
\* job when it has it.
Acquire(a) ==
  LET p == proc[a] IN
  /\ AtStep(a, "acquire")
  /\ \/ p.op = "savejob" /\ p.how = "invalid" /\ Fail(a) /\ UNCHANGED lock
     \/ p.op = "deljob" /\ p.job \notin DOMAIN jobs /\ lock = None /\ Fail(a) /\ UNCHANGED lock
     \/ /\ IF p.op = "savejob" THEN p.how = "valid" ELSE p.job \in DOMAIN jobs
        /\ lock = None /\ GoTo(a, [Rest(a) EXCEPT !.seen = jobs]) /\ Hold(a)
  /\ UNCHANGED <<files, exporter, kibanaLink, page, world, started, losses>>
ReleaseJobs(a) ==
  /\ AtStep(a, "release")
  /\ jobs' = JobsOf(proc[a]) /\ lock' = None
  /\ Advance(a)
  /\ UNCHANGED <<hosts, config, active, store, exporter, kibanaLink, page, world, started, losses>>

\* An endpoint is tried: answered, or the command ends with what it read. A
\* wait is a prompt, an installation or a running compose.
Connect(a) ==
  /\ AtStep(a, "connect")
  /\ Advance(a) \/ Fail(a)
  /\ UNCHANGED <<files, server, page, world, started, losses>>
Wait(a) ==
  /\ AtStep(a, "wait")
  /\ Advance(a)
  /\ UNCHANGED <<files, server, page, world, started, losses>>

(* --------------------------- decisions and reads -------------------------- *)
Decide(a) == UNCHANGED <<files, server, page, world, started, losses>>

\* save_output_stage, provision_local_output and save_collection_stage stop at
\* what exists unless the form confirms its replacement; the first two also at
\* a workflow that needs no output.
Confirm(a) ==
  /\ AtStep(a, "confirm")
  /\ \/ Processes(config.workflow) /\ Advance(a)
     \/ ~Processes(config.workflow) /\ Fail(a)
     \/ {proc[a].name, KibanaOf[proc[a].name]} \cap DOMAIN hosts # {} /\ Fail(a)
  /\ Decide(a)
ConfirmAny(a) ==
  /\ AtStep(a, "confirmAny")
  /\ \/ Processes(config.workflow) /\ Advance(a)
     \/ (~Processes(config.workflow) \/ Ready.output) /\ Fail(a)
  /\ Decide(a)
ConfirmHost(a) ==
  LET n == proc[a].name IN
  /\ AtStep(a, "confirmHost")
  /\ \/ GoTo(a, [Rest(a) EXCEPT !.target = n, !.how = IF n \in DOMAIN hosts THEN "replace" ELSE "add"])
     \/ (Ready.host \/ n \in DOMAIN hosts) /\ Fail(a)
  /\ Decide(a)

\* save_default_job_stage: a collection needs no output.
ConfirmJob(a) ==
  LET p == proc[a] IN
  /\ AtStep(a, "confirmJob")
  /\ \/ p.cfg.workflow = "collect"
        /\ GoTo(a, [p EXCEPT !.got = [host |-> p.name, export |-> "none"], !.todo = AddJob])
     \/ p.cfg.workflow = "both" /\ Advance(a)
     \/ (~Collects(p.cfg.workflow) \/ p.cfg.job # None \/ p.job \in DOMAIN jobs) /\ Fail(a)
  /\ Decide(a)

\* save_default_processing_job: the environment, if it declares an output.
Draft(a) ==
  LET p == proc[a] IN
  /\ AtStep(a, "draft")
  /\ IF world.env = "none" /\ p.cfg.output = None THEN Fail(a)
     ELSE GoTo(a, [Rest(a) EXCEPT !.got = [host |-> p.name, export |-> IF world.env # "none" THEN "env" ELSE p.cfg.output]])
  /\ Decide(a)

\* get_known: what the command goes on with.
Fetch(a) ==
  LET p == proc[a]
      n == p.name
  IN /\ AtStep(a, "fetch")
     /\ IF n \notin DOMAIN hosts THEN Fail(a) ELSE
        CASE p.op = "default" -> IF Has(hosts, n, "collect") THEN Advance(a) ELSE Fail(a)
          [] p.op = "settings" -> GoTo(a, [Rest(a) EXCEPT !.got = <<n, hosts[n].url>>])
          [] p.op = "update" -> GoTo(a, [Rest(a) EXCEPT !.host = [hosts[n] EXCEPT !.roles = p.host.roles]])
     /\ Decide(a)
Absent(a) ==
  /\ AtStep(a, "absent")
  /\ IF proc[a].name \in DOMAIN hosts THEN Fail(a) ELSE Advance(a)
  /\ Decide(a)

\* defer_collection
May(a) ==
  /\ AtStep(a, "may")
  /\ IF MayDefer(Ready) THEN Advance(a) ELSE Fail(a)
  /\ Decide(a)

\* update_settings: the configured output, or else the running one, is not
\* selected again, but the configuration and the exporter read here are still
\* written back.
Check(a) ==
  LET p == proc[a]
      n == p.name
      same == IF p.cfg.output # None THEN n = p.cfg.output ELSE exporter # None /\ exporter[1] = n
  IN /\ AtStep(a, "check")
     /\ IF same THEN GoTo(a, [p EXCEPT !.got = exporter, !.todo = <<"stamp", "exporter">>])
        ELSE IF Has(hosts, n, "send") /\ hosts[n].viewer # None /\ Has(hosts, hosts[n].viewer, "view")
        THEN Advance(a) ELSE Fail(a)
     /\ Decide(a)

\* The row of a request is looked up in the rows as they are now.
Row(a) ==
  LET p == proc[a]
      rows == IF p.op = "delhost" THEN HostRows(hosts) ELSE ClusterRows(hosts)
  IN /\ AtStep(a, "row")
     /\ IF p.mem \in DOMAIN rows THEN GoTo(a, [Rest(a) EXCEPT !.target = rows[p.mem]]) /\ UNCHANGED page
        ELSE /\ End(a, "ok")
             /\ page' = IF p.op = "delhost" THEN [page EXCEPT ![a] = SelectSeq(@, LAMBDA r : r.id # p.mem)] ELSE page
     /\ UNCHANGED <<files, server, world, started, losses>>

\* save_keystore: a first password creates the store.
Create(a) ==
  /\ AtStep(a, "create")
  /\ store' = TRUE
  /\ Advance(a)
  /\ UNCHANGED <<hosts, jobs, config, active, server, page, world, started, losses>>

(* ---------------------------- the running server -------------------------- *)
\* reload_configured_output leaves an output alone that it does not own.
Reloads(p) == world.env = "none" /\ Processes(p.cfg.workflow) /\ p.cfg.output # None
Endpoint(hs, n) == <<n, hs[n].url>>

\* The deployment a handler switches the server to.
SwitchTo(p) == IF p.op = "output" THEN p.name ELSE p.cfg.output
Exporter(a) ==
  LET p == proc[a]
      n == SwitchTo(p)
  IN /\ AtStep(a, "exporter")
     /\ IF p.op = "settings" THEN exporter' = p.got /\ Advance(a)
        ELSE IF p.op \in {"unlock", "defer"} /\ ~Reloads(p) THEN Skip2(a) /\ UNCHANGED exporter
        ELSE IF n \notin DOMAIN hosts \/ (p.op = "provision" /\ hosts[n].viewer = None) THEN Fail(a) /\ UNCHANGED exporter
        ELSE exporter' = Endpoint(hosts, n) /\ Advance(a)
     /\ UNCHANGED <<files, kibanaLink, lock, page, world, started, losses>>

\* Mutant: the link keeps pointing to the old deployment.
LinkedOld(p) == None
\* The Kibana of that deployment; the form of an output has its address.
Linked(p) ==
  LET n == IF p.op = "settings" THEN p.name ELSE SwitchTo(p)
  IN IF p.op = "output" THEN <<KibanaOf[p.name], "u2">>
     ELSE IF n \in DOMAIN hosts /\ hosts[n].viewer # None THEN Endpoint(hosts, hosts[n].viewer) ELSE None

Kibana(a) ==
  /\ AtStep(a, "kibana")
  /\ kibanaLink' = IF Linked(proc[a]) # None THEN Linked(proc[a]) ELSE kibanaLink
  /\ Advance(a)
  /\ UNCHANGED <<files, exporter, lock, page, world, started, losses>>

\* `serve` again: the exporter is resolved, then legacy settings are migrated.
\* The link starts from the environment, whatever the viewer is.
Migrates == active # None /\ config.output = None /\ ValidOutput(hosts, active)
Restart ==
  /\ started < MaxCommands /\ \A a \in Web : ~Running(a)
  /\ Resolves(hosts, config, world, FALSE) \/ ~IsComplete(Ready) \/ ~Ready.output
  /\ exporter' = StartExporter(hosts, config, world, store) /\ kibanaLink' = None
  /\ config' = IF Migrates THEN [config EXCEPT !.output = active] ELSE config
  /\ proc' = [b \in Actors |-> IF Running(b) THEN [proc[b] EXCEPT !.with = "others", !.before = None] ELSE proc[b]]
  /\ clean' = (clean /\ NobodyRuns) /\ page' = [a \in Web |-> <<>>] /\ started' = started + 1
  /\ UNCHANGED <<hosts, jobs, active, store, lock, world, losses>>

(* ------------------------------- the wizard ------------------------------- *)
\* run_init_wizard: a complete configuration is kept or gone over again. An
\* output that is configured for the same workflow can be kept.
Plan(a) ==
  LET p == proc[a]
      r == Ready
  IN /\ AtStep(a, "plan")
     /\ \/ IsComplete(r) /\ End(a, "ok")
        \/ \E wf \in Workflows, n \in Clusters, keep \in BOOLEAN :
             /\ keep => r.output /\ p.cfg.workflow = wf
             /\ GoTo(a, [p EXCEPT !.wf = wf, !.name = n, !.todo =
                  (IF p.cfg.user THEN <<>> ELSE <<"load", "user">>)
                  \o (IF p.cfg.workflow = wf THEN <<>> ELSE <<"load", "workflow">>)
                  \o (IF wf = "process" /\ p.cfg.job # None THEN <<"load", "nodefault">> ELSE <<>>)
                  \o (IF Processes(wf) /\ ~keep THEN WizardOutput ELSE <<>>)
                  \o (IF Collects(wf) THEN <<"ask">> \o WizardJobs(wf) ELSE <<>>)
                  \o <<"final">>])
     /\ Decide(a)

\* The first collection host is resumed, or one is added; the user may decline
\* to unlock the keystore or to give a known host the role.
Ask(a) ==
  /\ AtStep(a, "ask")
  /\ \/ CollectHosts(hosts) # {} /\ GoTo(a, [Rest(a) EXCEPT !.target = FirstName(CollectHosts(hosts))])
     \/ \E n \in Clusters : GoTo(a, [Rest(a) EXCEPT !.target = n, !.how = "add", !.todo = WizardHost \o @])
     \/ Fail(a)
  /\ Decide(a)

\* confirm_default_job_replacement and keep_default_job for the job n.
JobChoice(a, n, job, mine, last) ==
  LET other == config.job # None /\ config.job # mine
      chosen == [Rest(a) EXCEPT !.target = job.host]
      accept == [chosen EXCEPT !.job = n, !.got = job, !.mem = "saved", !.todo = AddJob \o @]
      misfit == IF other THEN ~Ready.job ELSE last /\ ~FitsWorkflow(jobs[n], hosts, config, world)
      asked == n \in DOMAIN jobs \/ (other /\ config.job # n)
  IN \/ GoTo(a, accept)
     \/ /\ asked
        /\ IF misfit THEN Fail(a)
           ELSE IF other THEN GoTo(a, [chosen EXCEPT !.mem = "kept"])
           ELSE GoTo(a, [chosen EXCEPT !.job = n, !.mem = "keep", !.todo = <<"load", "default">> \o @])

\* prompt_collect_host: the question is repeated until it names a saved source.
CollectJob(a) ==
  /\ AtStep(a, "collectJob")
  /\ \E n \in CollectHosts(hosts) :
       JobChoice(a, <<n>>, [host |-> n, export |-> "none"], None, proc[a].wf # "both")
  /\ Decide(a)

\* needs_processing_default_job, then save_default_processing_job.
ProcessJob(a) ==
  LET p == proc[a]
      o == config.output
  IN /\ AtStep(a, "processJob")
     /\ IF p.mem # "saved" /\ Ready.job THEN Advance(a)
        ELSE IF o = None \/ ~Has(hosts, p.target, "collect") THEN Fail(a)
        ELSE JobChoice(a, <<p.target, o>>, [host |-> p.target, export |-> IF world.env # "none" THEN "env" ELSE o],
                       <<p.target>>, TRUE)
     /\ Decide(a)
Final(a) ==
  /\ AtStep(a, "final")
  /\ IF IsComplete(Ready) THEN Advance(a) ELSE Fail(a)
  /\ Decide(a)

Unchanged(p) == hosts = p.before.hosts /\ jobs = p.before.jobs /\ config = p.before.config
\* A command is killed; a request whose client has left is dropped where its
\* handler waits. One that has not changed a file yet leaves no trace.
Interrupt(a) ==
  /\ losses < MaxLosses /\ Running(a)
  /\ a \in Cli \/ Head(proc[a].todo) \in {"connect", "exporter", "kibana"}
  /\ proc[a].before # None => ~Unchanged(proc[a])
  /\ losses' = losses + 1
  /\ proc' = Noticed(a, [op |-> "idle", result |-> "cut"]) /\ clean' = FALSE
  /\ UNCHANGED <<files, server, page, world, started>>

\* One access to a file, one decision from what was read, one question of the
\* wizard.
FileStep(a) ==
  /\ Head(proc[a].todo) \in {"parse", "write", "source", "active", "load", "loadJobs", "saveJobs",
                            "acquire", "release", "create"} \cup ConfigSteps
  /\ \/ Parse(a) \/ Write(a) \/ Active(a) \/ Load(a) \/ Save(a)
     \/ LoadJobs(a) \/ SaveJobs(a) \/ Acquire(a) \/ ReleaseJobs(a) \/ Create(a)
Decision(a) ==
  \/ Confirm(a) \/ ConfirmAny(a) \/ ConfirmHost(a) \/ ConfirmJob(a) \/ Draft(a) \/ Fetch(a) \/ Absent(a)
  \/ May(a) \/ Check(a) \/ Row(a) \/ Connect(a) \/ Wait(a)
Wizard(a) == Plan(a) \/ Ask(a) \/ CollectJob(a) \/ ProcessJob(a) \/ Final(a)

WorkspaceNext ==
  \/ \E a \in Actors : StartWeb(a) \/ StartCli(a) \/ OpenPage(a)
  \/ \E a \in {b \in Actors : Running(b)} :
       FileStep(a) \/ Decision(a) \/ Exporter(a) \/ Kibana(a) \/ Wizard(a) \/ Interrupt(a)
  \/ Restart

WorkspaceSpec == WorkspaceInit /\ [][WorkspaceNext]_workspaceVars

(* ------------------------------- properties ------------------------------- *)
Alone(a) == Running(a) /\ proc[a].with = "nobody"
Ends(a, r) == Running(a) /\ ~Running(a)' /\ proc'[a].result = r

\* hosts.yml can always be read back: whatever the commands interleave, the
\* file on disk has roles and viewer links that fit. The mutex of jobs.yml is
\* held by a handler that is about to write.
HostsReadable ==
  /\ Readable(hosts)
  /\ lock # None => AtStep(lock, "release")

\* A source is not put off while there is one: every command that saves a
\* collection host clears the deferral, and none defers past one, as long as
\* commands run one after the other to their end.
DeferralHonest == clean /\ NobodyRuns /\ config.deferred => CollectHosts(hosts) = {}

\* Onboarding calls a workspace complete only when the page agrees, the output
\* resolves with its Kibana, and the default job has a source to collect from.
CompleteIsUsable ==
  LET r == Ready IN
  /\ CanEnter(r) => Stage(r) = "complete"
  /\ IsComplete(r) /\ Processes(r.workflow) /\ ~config.context => Resolves(hosts, config, world, TRUE)
  /\ IsComplete(r) /\ r.workflow = "both" /\ world.env = "none" => ReferencesFit(hosts, jobs, config)
  /\ IsComplete(r) /\ Collects(r.workflow) => Has(hosts, jobs[config.job].host, "collect")

\* The files fit together, whichever commands wrote them, and onboarding says
\* of them what is true.
WorkspaceSound == TypeOK /\ HostsReadable /\ DeferralHonest /\ CompleteIsUsable

\* A command that ends with an error and shared its time with nobody has
\* changed no file. The two commands of several stages keep the stages they
\* finished: init up to the output that did not answer, the default job up to
\* the job itself, which stays saved when the references do not fit.
AllOrNothing == [][\A a \in Actors : Alone(a) /\ Ends(a, "failed") =>
  LET p == proc[a] IN
  CASE p.op = "init" -> AtStep(a, "connect") => hosts = p.before.hosts /\ config.output = p.before.config.output
    [] p.op = "default" -> hosts = p.before.hosts /\ config = p.before.config
    [] OTHER -> Unchanged(p)]_workspaceVars

\* A handler that switched the output, alone, leaves the configuration, the
\* exporter and the Kibana link at the same deployment.
OutputSwitched == [][\A a \in Web :
  Alone(a) /\ Ends(a, "ok") /\ proc[a].op \in {"output", "provision", "settings"} =>
    \/ proc[a].op = "settings" /\ config = proc[a].before.config
    \/ LET n == config.output IN
       /\ n = proc[a].name /\ ~config.context
       /\ exporter' = Endpoint(hosts, n) /\ kibanaLink' = Endpoint(hosts, hosts[n].viewer)]_workspaceVars

\* What a step leaves of the other jobs.
OnlyChanges(j) == \A k \in (DOMAIN jobs \cup DOMAIN jobs') \ {j} :
  k \in DOMAIN jobs /\ k \in DOMAIN jobs' /\ jobs'[k] = jobs[k]

\* Whoever edits jobs.yml changes the job it names and no other: the pages that
\* save and delete under one hold of the mutex whatever other pages do, unless
\* another process shared their time; the default job, the wizard and the
\* commands, which load and save under separate holds, when they are alone.
JobsSerial == [][\A a \in Actors :
  (ReleaseJobs(a) /\ proc[a].with # "others") \/ (SaveJobs(a) /\ Alone(a)) => OnlyChanges(proc[a].job)]_workspaceVars

\* No page of the one server loses the job another page saves. Refuted by TLC:
\* save_default_job gives the mutex back between load_saved_jobs and
\* save_saved_jobs, and writes back the jobs as they were before.
PagesKeepJobs == [][\A a \in Web : ReleaseJobs(a) \/ SaveJobs(a) => OnlyChanges(proc[a].job)]_workspaceVars

\* The wizard, alone, completes a workspace whose files it could write and
\* whose references fit: it stops where the user declines or an endpoint does
\* not answer. Two steps of its own can still refuse: hosts.yml, when the new
\* output has the name of a viewer; the last inspection, when an output is
\* kept without a keystore or the environment names one without its Kibana.
WizardCompletes == [][\A a \in Cli : Alone(a) /\ proc[a].op = "init" /\ Ends(a, "failed") =>
  LET p == proc[a] IN
  \/ Head(p.todo) \in {"nodefault", "connect", "ask", "collectJob", "processJob"}
  \/ ~(Writable(p.before.hosts) /\ ReferencesFit(p.before.hosts, p.before.jobs, p.before.config))
  \/ AtStep(a, "write") /\ \E n \in DOMAIN hosts : hosts[n].viewer = p.name
  \/ /\ AtStep(a, "final") /\ Processes(p.wf)
     /\ ~store \/ (world.env # "none" /\ ~Resolves(hosts, config, world, TRUE))]_workspaceVars

\* The confirmation asks "Delete host <name>?" for the name in the row: no
\* other host is deleted. Refuted by TLC: the handler looks the number of the
\* row up among the hosts that are left, and the answer to a deletion removes
\* its row without numbering the others again.
DeletesNamedHost == [][\A a \in Web : clean /\ Running(a) /\ proc[a].op = "delhost" /\ hosts' # hosts =>
  DOMAIN hosts \ DOMAIN hosts' \subseteq {proc[a].name}]_workspaceVars
=============================================================================
