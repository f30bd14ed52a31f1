------------------------------- MODULE WebSession -------------------------------
(* A session with the web interface: pages submit jobs, wait for their bundle  *)
(* and fetch it, while the event bus, the table of retained bundles and the    *)
(* keystore session do their part. What a form becomes follows run_job and     *)
(* execute_unified_web_job (server/job_runner.rs) and the handlers that call   *)
(* them (service_link.rs, api_key.rs, known_host.rs, file_upload.rs). The caps *)
(* of service mode are WebJobs' subject: here a start may be refused.          *)
EXTENDS UnlockSession

CONSTANTS
  JobTab,   \* the tab each job is submitted from
  Scenarios \* bound of the model: who takes part in a session, and in what
            \* [modes, jobs, forms, tabs, unlockers, failures, secured, followers, stops]

Sources == {"upload", "link", "key", "host"}
Targets == {"none", "output", "sendhost", "localhost", "otherhost", "directory"}
PageForms == [src : Sources, save : BOOLEAN, raw : BOOLEAN, rawTo : BOOLEAN, process : {"process", "forward"},
          send : {"remote", "local"}, target : Targets]

ASSUME TabsAssumption == JobTab \in [Runs -> Tabs]
ASSUME ScenariosAssumption == \A c \in Scenarios :
  /\ c.modes \subseteq {"user", "service"} /\ c.jobs \subseteq Runs /\ c.forms \subseteq PageForms
  /\ c.tabs \subseteq Tabs /\ c.followers \subseteq Tabs /\ c.secured \subseteq BOOLEAN
  /\ c.unlockers \subseteq Unlockers /\ c.failures \in Nat

J == INSTANCE JobModel

VARIABLES
  cast,     \* one of Scenarios
  secured,  \* the active output needs a stored secret
  job       \* each job: where its task is, what it is to do, its card

sessionVars == <<busVars, bundleVars, unlockVars, cast, secured, job>>

(* ------------------------- what a form asks for --------------------------- *)
\* A form is [src, save, raw, rawTo, process, send, target]: raw asks for the
\* bundle itself as a download, rawTo for its upload to a target of its own.
IsCollect(f) == f.src \in {"key", "host"}

\* normalize_targets: a raw local copy of a collection is a saved collection.
Saves(f) == f.save \/ (f.raw /\ IsCollect(f))

\* should_track_download
Tracks(f) == f.save \/ f.raw

\* The bundle is offered for download.
Retains(f) == Saves(f) \/ f.raw

\* raw_send_target, after normalize_targets: a collection that is not saved has
\* no bundle to send.
RawSend(f) ==
  /\ IsCollect(f) => Saves(f)
  /\ f.rawTo \/ (f.process = "forward" /\ f.send = "remote" /\ f.target # "none")

\* The save target of a collection: retained, or for the upload only.
SaveTarget(f) == IF ~IsCollect(f) THEN "None"
                 ELSE IF Saves(f) THEN "Retained" ELSE IF RawSend(f) THEN "Temporary" ELSE "None"

Shape(f) == [input   |-> IF IsCollect(f) THEN "CollectBinding"
                         ELSE IF f.src = "link" THEN "LoadBinding" ELSE "LoadFile",
             save    |-> SaveTarget(f),
             process |-> IF f.process = "process" THEN "Binding" ELSE "None",
             send    |-> RawSend(f)]

\* validate_job_request
ValidRequest(f) ==
  /\ f.src = "host" => mode = "user"
  /\ f.send = "local" /\ f.process = "forward" => f.save
  /\ f.send = "local" /\ f.process = "process" /\ f.target = "directory" => mode = "user"

\* validate_remote_send_uri, for a target that is not the configured output.
RemoteSendOk(target) == target \in {"sendhost", "localhost", "directory"}

\* validate_local_send_uri
LocalSendOk(target) == target = "localhost"

\* select_processed_exporter
ExporterOk(f) ==
  IF f.send = "remote" THEN f.target \in {"none", "output"} \/ RemoteSendOk(f.target)
  ELSE IF f.target = "directory" THEN mode = "user" ELSE LocalSendOk(f.target)

\* The steps between the start and the execution.
Prepares(f) == (f.process = "process" => ExporterOk(f)) /\ J!TryNew(Shape(f)) = "Ok"

\* setup_inserts_processing_entry and replace_existing_entry: an upload has its
\* card before it runs.
Preset(f) == f.src = "upload"

(* ------------------------------ the jobs ---------------------------------- *)
NoForm == [src |-> "none", save |-> FALSE, raw |-> FALSE, rawTo |-> FALSE, process |-> "none", send |-> "none", target |-> "none"]
JobOwner(j) == Owner(JobTab[j])
SessionInit ==
  /\ BusInit /\ BundleInit /\ UnlockInit
  /\ cast \in Scenarios /\ mode \in cast.modes
  /\ secured \in cast.secured /\ (cast.unlockers = {} => store)
  /\ job = [j \in Runs |-> [pc |-> "new", form |-> NoForm, out |-> "none", card |-> "none"]]

\* card: an element that is put into the feed, or a patch of the element there.
Feed == "ended"
Patched(c) == IF c = "none" THEN "none" ELSE "ended"
To(j, pc, c) == job' = [job EXCEPT ![j].pc = pc, ![j].card = c]
Rest == <<mode, down, cast, secured, unlockVars>>
Quiet == UNCHANGED <<ring, tab>>
Tell(j, kind) == Emit(<<Event(kind, JobOwner(j), j)>>)

\* The page remembers the token it sent.
Submit(j) ==
  /\ ~down /\ job[j].pc = "new" /\ j \in cast.jobs
  /\ \E f \in cast.forms :
       /\ f.src = "host" => mode = "user"
       /\ job' = [job EXCEPT ![j] = [pc |-> "form", form |-> f, out |-> "none",
                                     card |-> IF Preset(f) THEN "working" ELSE "none"]]
       /\ tab' = IF Tracks(f) THEN [tab EXCEPT ![JobTab[j]].pending = j] ELSE tab
  /\ UNCHANGED <<Rest, ring, counters, dirty, bundleVars>>

\* ensure_active_output_ready, which the form for saved hosts does not ask.
LockedOut(f) == f.src # "host" /\ mode = "user" /\ ~Unlocked /\ secured

\* The form is refused: the output is locked, the host is unknown, needs a
\* locked secret or has no URL. The download is rejected and the feed tells.
RefuseForm(j) ==
  LET f == job[j].form IN
  /\ job[j].pc = "form" /\ (f.src \in {"key", "host"} \/ (f.src = "link" /\ LockedOut(f)))
  /\ IF Tracks(f) THEN RejectBundle(j, JobOwner(j), AfterTime) /\ Tell(j, "error") ELSE Quiet /\ UNCHANGED entry
  /\ CountStep
  /\ To(j, "done", Feed)
  /\ UNCHANGED <<Rest, disk, timers, expired, doomed, get>>

\* A link that is not one of the upload service is not counted.
RefuseLink(j) ==
  /\ job[j].pc = "form" /\ job[j].form.src = "link" /\ ~LockedOut(job[j].form)
  /\ IF Tracks(job[j].form) THEN RejectBundle(j, JobOwner(j), AfterTime) /\ Tell(j, "error")
     ELSE Quiet /\ UNCHANGED entry
  /\ To(j, "done", "none")
  /\ UNCHANGED <<Rest, counters, dirty, disk, timers, expired, doomed, get>>

\* run_upload_job returns with a card and nothing else.
RefuseUpload(j) ==
  /\ job[j].pc = "form" /\ job[j].form.src = "upload" /\ LockedOut(job[j].form)
  /\ To(j, "quiet", "ended")
  /\ Quiet /\ UNCHANGED <<Rest, counters, dirty, bundleVars>>

TakeForm(j) ==
  /\ job[j].pc = "form" /\ ~LockedOut(job[j].form)
  /\ To(j, "validate", job[j].card)
  /\ Quiet /\ UNCHANGED <<Rest, counters, dirty, bundleVars>>

\* run_job: the request is validated, its download accepted,
ValidateJob(j) ==
  /\ job[j].pc = "validate" /\ ValidRequest(job[j].form)
  /\ To(j, "start", job[j].card)
  /\ IF Tracks(job[j].form) THEN Accept(j, JobOwner(j)) ELSE UNCHANGED bundleVars
  /\ Quiet /\ UNCHANGED <<Rest, counters, dirty>>

\* or rejected.
RejectRequest(j) ==
  /\ job[j].pc = "validate" /\ ~ValidRequest(job[j].form)
  /\ IF Tracks(job[j].form) THEN RejectBundle(j, JobOwner(j), KeepTime) /\ Tell(j, "error")
     ELSE Quiet /\ UNCHANGED entry
  /\ CountStep
  /\ To(j, "done", Patched(job[j].card))
  /\ UNCHANGED <<Rest, disk, timers, expired, doomed, get>>

\* record_job_started, and the card of a job that runs.
Start(j) ==
  /\ job[j].pc = "start"
  /\ CountStep
  /\ To(j, "run", "working")
  /\ Quiet /\ UNCHANGED <<Rest, bundleVars>>

\* The cap is reached, or the binding failed before.
RefuseStart(j) ==
  /\ job[j].pc = "start" /\ (mode = "service" \/ IsCollect(job[j].form))
  /\ job' = [job EXCEPT ![j].pc = "fail"]
  /\ Quiet /\ UNCHANGED <<Rest, counters, dirty, bundleVars>>

\* What execute_with_context leaves: whether there is a bundle, a report, a failure.
Outcomes(f) == {o \in [bundle : BOOLEAN, report : BOOLEAN, failed : BOOLEAN] :
  /\ o.bundle => Retains(f)
  /\ o.report => f.process = "process" /\ o.bundle = Retains(f)
  /\ ~o.failed => o.bundle = Retains(f) /\ o.report = (f.process = "process")}

Execute(j) ==
  /\ job[j].pc = "run" /\ Prepares(job[j].form)
  /\ \E o \in Outcomes(job[j].form) : job' = [job EXCEPT ![j].pc = "publish", ![j].out = o]
  /\ Quiet /\ UNCHANGED <<Rest, counters, dirty, bundleVars>>

PrepareFails(j) ==
  /\ job[j].pc = "run" /\ ~Prepares(job[j].form)
  /\ job' = [job EXCEPT ![j].pc = "fail"]
  /\ Quiet /\ UNCHANGED <<Rest, counters, dirty, bundleVars>>

\* Mutant: the bundle is stored and nobody is told.
PublishUntold(j) ==
  /\ job[j].pc = "publish"
  /\ job' = [job EXCEPT ![j].pc = "settle"]
  /\ IF job[j].out.bundle THEN disk' = disk \cup {j} /\ Insert(j, JobOwner(j)) /\ UNCHANGED <<ring, tab>>
     ELSE Quiet /\ UNCHANGED <<disk, entry, timers>>
  /\ UNCHANGED <<Rest, counters, dirty, expired, doomed, get>>

\* publish_retained_download: an upload's bundle is copied first.
Publish(j) ==
  /\ job[j].pc = "publish"
  /\ job' = [job EXCEPT ![j].pc = "settle"]
  /\ IF job[j].out.bundle THEN disk' = disk \cup {j} /\ Insert(j, JobOwner(j)) /\ Tell(j, "ready")
     ELSE Quiet /\ UNCHANGED <<disk, entry, timers>>
  /\ UNCHANGED <<Rest, counters, dirty, expired, doomed, get>>

CopyFails(j) ==
  /\ job[j].pc = "publish" /\ job[j].out.bundle /\ job[j].form.src = "upload"
  /\ job' = [job EXCEPT ![j].pc = "fail"]
  /\ Quiet /\ UNCHANGED <<Rest, counters, dirty, bundleVars>>

\* The report decides, or nothing failed.
Settle(j) ==
  LET o == job[j].out IN
  /\ job[j].pc = "settle" /\ (o.report \/ ~o.failed)
  /\ CountStep
  /\ To(j, "done", IF o.report \/ RawSend(job[j].form) \/ o.bundle THEN Patched(job[j].card) ELSE job[j].card)
  /\ Quiet /\ UNCHANGED <<Rest, bundleVars>>

SettleFails(j) ==
  /\ job[j].pc = "settle" /\ ~job[j].out.report /\ job[j].out.failed
  /\ job' = [job EXCEPT ![j].pc = "fail"]
  /\ Quiet /\ UNCHANGED <<Rest, counters, dirty, bundleVars>>

\* token_has_bundle
HasBundle(j) == Offered(j)

\* The error path of run_job.
Fail(j) ==
  /\ job[j].pc = "fail"
  /\ IF Tracks(job[j].form) /\ ~HasBundle(j) THEN RejectBundle(j, JobOwner(j), KeepTime) /\ Tell(j, "error")
     ELSE Quiet /\ UNCHANGED entry
  /\ CountStep
  /\ To(j, "done", Patched(job[j].card))
  /\ UNCHANGED <<Rest, disk, timers, expired, doomed, get>>

(* ------------------------------ the pages --------------------------------- *)
\* An event is read; the bundle the page waits for is fetched.
Receive(t) ==
  LET e == NextEvent(t)
      mine == Visible(e, t) /\ e.kind \in {"ready", "error"} /\ e.about = tab[t].pending
      seen == IF Visible(e, t) THEN Shown(tab[t], e) ELSE tab[t]
  IN /\ tab[t].stream = "on" /\ tab[t].unread > 0
     /\ mine /\ e.kind = "ready" => get[t].at = "idle"
     /\ tab' = [tab EXCEPT ![t] = [seen EXCEPT !.unread = @ - 1, !.pending = IF mine THEN None ELSE @]]
     /\ ring' = Unread(ring, tab')
     /\ get' = IF mine /\ e.kind = "ready" THEN [get EXCEPT ![t] = [at |-> "read", token |-> e.about]] ELSE get
     /\ UNCHANGED <<mode, counters, dirty, down, entry, disk, timers, expired, doomed, unlockVars, cast, secured, job>>

\* A link that was kept is followed once.
Follow(t, j) ==
  /\ ~down /\ tab[t].answer = "none" /\ get[t].at = "idle" /\ job[j].pc # "new"
  /\ get' = [get EXCEPT ![t] = [at |-> "read", token |-> j]]
  /\ UNCHANGED <<busVars, entry, disk, timers, expired, doomed, unlockVars, cast, secured, job>>

Tick ==
  /\ \/ lease > 0 \/ limit.block > 0
     \/ \E x \in timers : x[2] > 0
     \/ \E j \in Runs : entry[j] # None /\ entry[j].left > 0
  /\ Aged /\ Cooled
  /\ UNCHANGED <<busVars, disk, expired, doomed, get, store, unlock, cast, secured, job>>

(* -------------------------------- the whole ------------------------------- *)
Work(j) == \/ RefuseForm(j) \/ RefuseLink(j) \/ RefuseUpload(j) \/ TakeForm(j) \/ ValidateJob(j) \/ RejectRequest(j)
           \/ Start(j) \/ RefuseStart(j) \/ Execute(j) \/ PrepareFails(j)
           \/ Publish(j) \/ CopyFails(j) \/ Settle(j) \/ SettleFails(j) \/ Fail(j)

Others == <<bundleVars, unlockVars, cast, secured, job>>
Streams(t) == /\ OpenStream(t) \/ Subscribe(t) \/ Blur(t) \/ EndStream(t)
              /\ UNCHANGED Others
Download(t) == (GetEntry(t) \/ OpenFile(t) \/ Touch(t)) /\ UNCHANGED <<unlockVars, cast, secured, job>>
Cleaner(j) == (Wake(j) \/ CleanUp(j) \/ Remove(j)) /\ UNCHANGED <<unlockVars, cast, secured, job>>
Keys == /\ \/ Bootstrap \/ Lock \/ Observe \/ Elsewhere
           \/ \E u \in cast.unlockers : AskUnlock(u, cast.failures) \/ TryRight(u) \/ TryWrong(u)
        /\ UNCHANGED <<cast, secured, job>>

SessionNext ==
  \/ \E j \in Runs : Submit(j) \/ Work(j) \/ Cleaner(j)
  \/ \E t \in cast.tabs : Streams(t)
  \/ \E t \in Tabs : Receive(t) \/ Download(t)
  \/ \E t \in cast.followers, j \in Runs : Follow(t, j)
  \/ PublishStats /\ UNCHANGED Others
  \/ cast.stops /\ Shutdown /\ UNCHANGED Others
  \/ cast.unlockers # {} /\ Keys
  \/ Tick

\* tokio polls every task and wakes every sleeper, the event loop of the
\* counters runs, browsers read an open stream, and time passes. Nobody has to
\* submit, to focus a tab or to unlock.
SessionSpec ==
  /\ SessionInit /\ [][SessionNext]_sessionVars
  /\ \A j \in Runs : WF_sessionVars(Work(j)) /\ WF_sessionVars(Cleaner(j))
  /\ \A t \in Tabs : WF_sessionVars(Receive(t)) /\ WF_sessionVars(Download(t))
                     /\ WF_sessionVars(EndStream(t) /\ UNCHANGED Others)
                     /\ WF_sessionVars(Subscribe(t) /\ UNCHANGED Others)
  /\ WF_sessionVars(PublishStats /\ UNCHANGED Others)
  /\ WF_sessionVars(Tick)

(* ------------------------------- properties ------------------------------- *)
\* Types of the composed state.
SessionTypes ==
  /\ \A j \in Runs : entry[j] = None \/ entry[j].left \in 0..KeepTime
  /\ disk \subseteq Runs /\ expired \subseteq Runs /\ doomed \subseteq Runs
  /\ \A t \in Tabs : tab[t].unread <= Len(ring)
  /\ \A j \in Runs : job[j].card \in {"none", "working", "ended"}

\* A card that was put into the feed does not go on working after its job has
\* ended: a job that fails early, late or in its copy patches the card that is
\* there. A loaded bundle that is neither processed, sent nor kept has no
\* terminal card at all.
CardsEnd == \A j \in Runs :
  job[j].pc \in {"done", "quiet"} /\ job[j].card = "working" =>
     ~Retains(job[j].form) /\ ~RawSend(job[j].form) /\ job[j].form.process = "forward"

\* The bundles, the cards and the limit on unlocking hold what they promise.
SessionSound == SessionTypes /\ BundlesKept /\ CardsEnd /\ TriesLimited

\* A download keeps its promise: no cleanup task condemns a bundle whose time
\* has not come, and an unexpired bundle leaves the table only by a task that
\* found it expired before it was renewed.
Fresh(j) == Offered(j) /\ ~entry[j].error /\ entry[j].left > 0
NeverLostEarly == [][\A j \in Runs : Fresh(j) =>
  /\ j \in expired' => j \in expired
  /\ entry'[j] = None => j \in expired]_sessionVars

\* Disk space is returned: every published bundle is removed in the end,
\* whether it was fetched, fetched too late or never.
BundlesRemoved == \A j \in Runs : j \in disk ~> j \notin disk

\* A page that sent a token and keeps listening learns what became of it, ready
\* or failed, whatever way the job ended. An upload that is refused because the
\* output is locked tells only its card; a stream that fell a whole ring behind
\* may miss it.
Waiting(j) == LET t == JobTab[j] IN
  tab[t].pending = j /\ tab[t].stream = "on" /\ ~tab[t].missed /\ ~down /\ job[j].pc \in {"form", "validate"}
TokenAnswered == \A j \in Runs : LET t == JobTab[j] IN
  Waiting(j) ~> (tab[t].pending # j \/ tab[t].stream # "on" \/ tab[t].missed \/ down \/ job[j].pc = "quiet")
===============================================================================
