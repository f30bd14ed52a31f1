----------------------------- MODULE JobExecutor -----------------------------
(***************************************************************************)
(* The one job executor (src/job/executor.rs) with the input resolver      *)
(* (src/receiver/resolver.rs) and the outcome (src/job/outcome.rs).        *)
(*                                                                         *)
(* Root is the job a caller submits; Children are the included diagnostics *)
(* its bundle may declare, each run as a Load + Process job by the same    *)
(* executor while the parent's Process future is still pending.  Process   *)
(* and Send are two futures of one tokio::join!, so their steps and the    *)
(* children's interleave at every await.                                   *)
(*                                                                         *)
(* fs is the set of directories that hold a bundle on disk, guards the     *)
(* drop guards (TempDirCleanup, TempInputCleanup) that are armed: a guard  *)
(* removes its directory when the execution returns or is dropped.         *)
(***************************************************************************)
EXTENDS JobModel

CONSTANTS Root,      \* the submitted execution
          Children   \* the included diagnostics a bundle may declare

ASSUME RootAssumption == Root \notin Children

VARIABLES
    job,        \* the validated Job of Root
    bound,      \* what Root's runtime binding key resolves to
    retain,     \* context.retention = RetainLoadedBundle
    pc,         \* where each execution is
    proc,       \* its Process future
    snd,        \* its Send future
    started,    \* stages whose Queued and Started events were observed
    stage,      \* recorded stage statuses ("None": not recorded)
    verdict,    \* DiagnosticOutcome of the report Process produced
    exportErr,  \* ProcessExecution.export_error is set
    error,      \* kind of the error that failed Process
    path,       \* resolved.bundle_path of Root
    retained,   \* outcome.retained_bundle of Root
    kids,       \* included diagnostics Root's Process discovered
    fs, guards  \* bundle directories on disk, armed drop guards

fileVars == <<path, retained, fs, guards>>
resultVars == <<verdict, exportErr, error, kids>>
vars == <<job, bound, retain, pc, proc, snd, started, stage, resultVars, fileVars>>

Execs == {Root} \cup Children

Stages    == {"Collect", "Load", "Save", "Process", "Export", "Send"}
Statuses  == {"Succeeded", "Failed", "Blocked"}
Verdicts  == {"Complete", "Partial", "Failed"}
TempDirs  == {"Staging", "TempInput"}
Places    == TempDirs \cup {"SaveDir", "User"}

\* run_child_jobs: every included diagnostic becomes a nested LoadBinding job.
ChildJob == [input |-> "LoadBinding", save |-> "None", process |-> "Binding", send |-> FALSE]
JobOf(e) == IF e = Root THEN job ELSE ChildJob

InputStage(j) == IF IsCollect(j) THEN "Collect" ELSE "Load"

\* The stages a job selects: Export is part of Process.
OutputStages(j) == (IF Processing(j) THEN {"Process", "Export"} ELSE {})
                   \cup (IF j.send THEN {"Send"} ELSE {})
SelectedStages(j) == {InputStage(j)} \cup OutputStages(j)
                     \cup (IF j.save # "None" THEN {"Save"} ELSE {})

(***************************************************************************)
(* Recording (record_stage, record_blocked_outputs): the first status of a *)
(* stage stays.                                                            *)
(***************************************************************************)
Record(st, S, status) == [s \in Stages |-> IF s \in S /\ st[s] = "None" THEN status ELSE st[s]]

\* Mutant: Send is forgotten.
BlockedWithoutSend(j, st) == Record(st, OutputStages(j) \ {"Send"}, "Blocked")

RecordBlockedOutputs(j, st) == Record(st, OutputStages(j), "Blocked")

\* An early return that records S as failed and blocks the selected outputs.
FailInto(e, st, S) == RecordBlockedOutputs(JobOf(e), Record(st, S, "Failed"))

(***************************************************************************)
(* Returning drops the guards of Root's frame; a child owns none.          *)
(***************************************************************************)
Return(e, disk, armed) ==
    /\ pc' = [pc EXCEPT ![e] = "Done"]
    /\ IF e = Root THEN fs' = disk \ armed /\ guards' = {}
                   ELSE fs' = disk /\ guards' = armed

\* Mutant: children are spawned as tasks of their own.
LiveDetached(e) == e = Root \/ e \in kids

\* An execution runs when it was submitted, or when its parent awaits it.
Live(e) == \/ e = Root
           \/ e \in kids /\ proc[Root] = "Children" /\ pc[Root] = "Outputs"

At(e, label) == Live(e) /\ pc[e] = label

(***************************************************************************)
(* Phase 1: input resolution                                               *)
(***************************************************************************)
Bindings == {"None", "Receiver", "ServiceLink"}

\* What the callers bind: a receiver, or the link of a Load.
BindingsOf(j) ==
    {b \in Bindings : /\ b = "None" <=> j.input \notin {"CollectBinding", "LoadBinding"}
                      /\ b = "ServiceLink" => j.input = "LoadBinding"}

\* InputResolver::resolve: what the declared input refers to.
StableSource == [Collect |-> "Host", LoadFile |-> "File",
                 LoadServiceLink |-> "ServiceLink", LoadOther |-> "Other"]
Source(e) == IF e # Root THEN "Nested"
             ELSE IF job.input \in DOMAIN StableSource THEN StableSource[job.input]
             ELSE bound

MaterializeRemote(e) == ~IsCollect(JobOf(e)) /\ (Processing(JobOf(e)) \/ JobOf(e).send \/ retain)
Downloads(e) == Source(e) = "ServiceLink" /\ MaterializeRemote(e)

\* require_local_bundle, which only a runtime binding checks.
LacksLocalBundle(e) == JobOf(e).send /\ ~IsCollect(JobOf(e)) /\ Source(e) \in {"Receiver", "Nested"}

Begin(e) ==
    /\ At(e, "Start")
    /\ pc' = [pc EXCEPT ![e] = "Resolving"]
    /\ started' = [started EXCEPT ![e] = @ \cup {InputStage(JobOf(e))}]
    /\ UNCHANGED <<job, bound, retain, proc, snd, stage, resultVars, fileVars>>

\* The input cannot be resolved: nothing downstream starts.
InputFails(e, disk) ==
    /\ stage' = [stage EXCEPT ![e] = FailInto(e, stage[e], {InputStage(JobOf(e))})]
    /\ Return(e, disk, guards)
    /\ UNCHANGED <<job, bound, retain, proc, snd, started, resultVars, path, retained>>

ResolveFails(e) == At(e, "Resolving") /\ InputFails(e, fs)

Resolve(e) ==
    /\ At(e, "Resolving")
    /\ ~Downloads(e) /\ ~LacksLocalBundle(e)
    /\ pc' = [pc EXCEPT ![e] = "Resolved"]
    /\ path' = IF e = Root /\ Source(e) = "File" THEN "User" ELSE path
    /\ UNCHANGED <<job, bound, retain, proc, snd, started, stage, resultVars, retained, fs, guards>>

\* resolve_stable_load of a service link: the download is written to a fresh
\* temporary directory before any guard owns it.
Download(e) ==
    /\ At(e, "Resolving") /\ Downloads(e)
    /\ pc' = [pc EXCEPT ![e] = "Writing"]
    /\ fs' = fs \cup {"TempInput"}
    /\ UNCHANGED <<job, bound, retain, proc, snd, started, stage, resultVars, path, retained, guards>>

WriteFails(e) == At(e, "Writing") /\ InputFails(e, fs \ {"TempInput"})

\* Receiver::try_from fails on the written file: the error returns before the
\* cleanup guard exists.
OpenFails(e) == At(e, "Writing") /\ InputFails(e, fs)

OpenDownload(e) ==
    /\ At(e, "Writing")
    /\ pc' = [pc EXCEPT ![e] = "Resolved"]
    /\ path' = "TempInput"
    /\ guards' = guards \cup {"TempInput"}
    /\ UNCHANGED <<job, bound, retain, proc, snd, started, stage, resultVars, retained, fs>>

(***************************************************************************)
(* Phase 1 continued: streaming, staged collection, load                   *)
(***************************************************************************)
EnterOutputs(e) ==
    /\ pc' = [pc EXCEPT ![e] = "Outputs"]
    /\ proc' = [proc EXCEPT ![e] = IF Processing(JobOf(e)) THEN "Ready" ELSE "Off"]
    /\ snd' = [snd EXCEPT ![e] = IF JobOf(e).send THEN "Ready" ELSE "Off"]

Streaming(e) == ExecutionMode(JobOf(e)) = "Streaming"

\* Streaming: the receiver itself is the input; Collect succeeds by resolving.
Stream(e) ==
    /\ At(e, "Resolved") /\ Streaming(e)
    /\ stage' = [stage EXCEPT ![e] = Record(@, {"Collect"}, "Succeeded")]
    /\ EnterOutputs(e)
    /\ UNCHANGED <<job, bound, retain, started, resultVars, fileVars>>

\* Streaming with an invalid process selection.
StreamBadSelection(e) ==
    /\ At(e, "Resolved") /\ Streaming(e)
    /\ stage' = [stage EXCEPT ![e] =
          Record(Record(Record(@, {"Collect"}, "Succeeded"), {"Process"}, "Failed"), {"Export"}, "Blocked")]
    /\ Return(e, fs, guards)
    /\ UNCHANGED <<job, bound, retain, proc, snd, started, resultVars, path, retained>>

Staged(e) == At(e, "Resolved") /\ IsCollect(JobOf(e)) /\ ~Streaming(e)
BundleDir == IF job.save = "Temporary" THEN "Staging" ELSE "SaveDir"

\* Mutants: every save directory gets a guard; none does.
GuardEverySave == {BundleDir}
GuardNoSave == {}

\* The guard of the staging directory, armed by temp_bundle_dir.
StagingGuard == {BundleDir} \cap TempDirs

TempDirFails(e) ==
    /\ Staged(e) /\ job.save = "Temporary"
    /\ stage' = [stage EXCEPT ![e] = FailInto(e, @, {"Save"})]
    /\ Return(e, fs, guards)
    /\ UNCHANGED <<job, bound, retain, proc, snd, started, resultVars, path, retained>>

\* Setup failures after Save was announced: a staging directory made for this
\* run is dropped again by its guard before the step ends.
SetupFails(e) ==
    /\ Staged(e)
    /\ started' = [started EXCEPT ![e] = @ \cup {"Save"}]
    /\ \/ /\ Source(e) = "Receiver"      \* no application came with the receiver
          /\ stage' = [stage EXCEPT ![e] = FailInto(e, @, {"Collect"})]
       \/ stage' = [stage EXCEPT ![e] = FailInto(e, @, {"Save"})]   \* archive
    /\ Return(e, fs \cup StagingGuard, guards \cup StagingGuard)
    /\ UNCHANGED <<job, bound, retain, proc, snd, resultVars, path, retained>>

StartCollect(e) ==
    /\ Staged(e)
    /\ started' = [started EXCEPT ![e] = @ \cup {"Save"}]
    /\ pc' = [pc EXCEPT ![e] = "Collecting"]
    /\ fs' = fs \cup StagingGuard
    /\ guards' = guards \cup StagingGuard
    /\ UNCHANGED <<job, bound, retain, proc, snd, stage, resultVars, path, retained>>

\* Mutant: the error is recorded and the outputs run anyway.
CollectFailsThrough(e) ==
    /\ At(e, "Collecting")
    /\ stage' = [stage EXCEPT ![e] = Record(@, {"Collect", "Save"}, "Failed")]
    /\ EnterOutputs(e)
    /\ UNCHANGED <<job, bound, retain, started, resultVars, fileVars>>

CollectFails(e) ==
    /\ At(e, "Collecting")
    /\ stage' = [stage EXCEPT ![e] = FailInto(e, @, {"Collect", "Save"})]
    /\ Return(e, fs, guards)
    /\ UNCHANGED <<job, bound, retain, proc, snd, started, resultVars, path, retained>>

Collected(e) == Record(stage[e], {"Collect", "Save"}, "Succeeded")
RetainSaved == IF job.save = "Retained" THEN "SaveDir" ELSE "None"

\* Mutant: the staging guard lives in the collection block and drops at its end.
CollectSucceedsUnguarded(e) ==
    /\ At(e, "Collecting")
    /\ stage' = [stage EXCEPT ![e] = Collected(e)]
    /\ retained' = RetainSaved
    /\ path' = BundleDir
    /\ fs' = (fs \cup {BundleDir}) \ guards
    /\ guards' = {}
    /\ EnterOutputs(e)
    /\ UNCHANGED <<job, bound, retain, started, resultVars>>

\* The bundle exists and its archive opens: the outputs run over it.
CollectSucceeds(e) ==
    /\ At(e, "Collecting")
    /\ stage' = [stage EXCEPT ![e] = Collected(e)]
    /\ retained' = RetainSaved
    /\ path' = BundleDir
    /\ fs' = fs \cup {BundleDir}
    /\ EnterOutputs(e)
    /\ UNCHANGED <<job, bound, retain, started, resultVars, guards>>

\* Mutant: the reopen error returns without blocking the outputs.
ReopenFailsQuietly(e) ==
    /\ At(e, "Collecting")
    /\ stage' = [stage EXCEPT ![e] = Collected(e)]
    /\ retained' = RetainSaved
    /\ Return(e, fs \cup {BundleDir}, guards)
    /\ UNCHANGED <<job, bound, retain, proc, snd, started, resultVars, path>>

\* The bundle exists and cannot be opened again.
ReopenFails(e) ==
    /\ At(e, "Collecting")
    /\ stage' = [stage EXCEPT ![e] = RecordBlockedOutputs(JobOf(e), Collected(e))]
    /\ retained' = RetainSaved
    /\ Return(e, fs \cup {BundleDir}, guards)
    /\ UNCHANGED <<job, bound, retain, proc, snd, started, resultVars, path>>

\* Mutant: the path is retained and the guard stays armed.
LoadStillGuarded(e) ==
    /\ At(e, "Resolved") /\ ~IsCollect(JobOf(e))
    /\ stage' = [stage EXCEPT ![e] = Record(@, {"Load"}, "Succeeded")]
    /\ retained' = IF e = Root /\ retain THEN path ELSE retained
    /\ EnterOutputs(e)
    /\ UNCHANGED <<job, bound, retain, started, resultVars, path, fs, guards>>

\* Load: retaining a materialized input disarms its guard.
Load(e) ==
    /\ At(e, "Resolved") /\ ~IsCollect(JobOf(e))
    /\ stage' = [stage EXCEPT ![e] = Record(@, {"Load"}, "Succeeded")]
    /\ IF e # Root THEN UNCHANGED <<retained, guards>>
       ELSE /\ retained' = IF retain \/ job.input = "LoadFile" THEN path ELSE "None"
            /\ guards' = IF retain THEN guards \ {"TempInput"} ELSE guards
    /\ EnterOutputs(e)
    /\ UNCHANGED <<job, bound, retain, started, resultVars, path, fs>>

(***************************************************************************)
(* Phases 2 and 3: the Process future, the children, the Send future       *)
(***************************************************************************)
\* derived_selection is an error: Process fails without having started.
BadSelection(e) ==
    /\ At(e, "Outputs") /\ proc[e] = "Ready"
    /\ IsCollect(JobOf(e)) /\ ~Streaming(e)
    /\ proc' = [proc EXCEPT ![e] = "Err"]
    /\ error' = [error EXCEPT ![e] = "Other"]
    /\ UNCHANGED <<job, bound, retain, pc, snd, started, stage, verdict, exportErr, kids, fileVars>>

\* run_process_result up to process_documents: the exporter may not resolve.
StartProcess(e) ==
    /\ At(e, "Outputs") /\ proc[e] = "Ready"
    /\ started' = [started EXCEPT ![e] = @ \cup {"Process", "Export"}]
    /\ \/ proc' = [proc EXCEPT ![e] = "Reading"] /\ UNCHANGED error
       \/ proc' = [proc EXCEPT ![e] = "Err"] /\ error' = [error EXCEPT ![e] = "Other"]
    /\ UNCHANGED <<job, bound, retain, pc, snd, stage, verdict, exportErr, kids, fileVars>>

\* process_documents fails without a report; "Skip" is an error skip_kind_for
\* recognises (the application has no processor, or the bundle is unsupported).
ProcessFails(e) ==
    /\ At(e, "Outputs") /\ proc[e] = "Reading"
    /\ proc' = [proc EXCEPT ![e] = "Err"]
    /\ \E k \in {"Skip", "Other"} : error' = [error EXCEPT ![e] = k]
    /\ UNCHANGED <<job, bound, retain, pc, snd, started, stage, verdict, exportErr, kids, fileVars>>

\* process_documents returns a report; only Root discovers included diagnostics
\* (context.child_depth == 0), and run_child_jobs pushes a future for each.
ProcessReports(e) ==
    /\ At(e, "Outputs") /\ proc[e] = "Reading"
    /\ proc' = [proc EXCEPT ![e] = "Children"]
    /\ \E v \in Verdicts : verdict' = [verdict EXCEPT ![e] = v]
    /\ \E x \in BOOLEAN : exportErr' = [exportErr EXCEPT ![e] = x]
    /\ IF e = Root THEN kids' \in SUBSET Children ELSE UNCHANGED kids
    /\ UNCHANGED <<job, bound, retain, pc, snd, started, stage, error, fileVars>>

\* Mutant: the parent does not await its children.
ChildrenNotAwaited(e) ==
    /\ At(e, "Outputs") /\ proc[e] = "Children"
    /\ proc' = [proc EXCEPT ![e] = "Ok"]
    /\ UNCHANGED <<job, bound, retain, pc, snd, started, stage, resultVars, fileVars>>

\* children.collect().await: the Process future completes with the last child.
ChildrenDone(e) ==
    /\ At(e, "Outputs") /\ proc[e] = "Children"
    /\ e = Root => \A c \in kids : pc[c] = "Done"
    /\ proc' = [proc EXCEPT ![e] = "Ok"]
    /\ UNCHANGED <<job, bound, retain, pc, snd, started, stage, resultVars, fileVars>>

StartSend(e) ==
    /\ At(e, "Outputs") /\ snd[e] = "Ready"
    /\ IF path = "None"
       THEN snd' = [snd EXCEPT ![e] = "Err"] /\ UNCHANGED started
       ELSE /\ snd' = [snd EXCEPT ![e] = "Sending"]
            /\ started' = [started EXCEPT ![e] = @ \cup {"Send"}]
    /\ UNCHANGED <<job, bound, retain, pc, proc, stage, resultVars, fileVars>>

\* Mutant: a failed upload is retried without a limit.
EndSendRetries(e) ==
    /\ At(e, "Outputs") /\ snd[e] = "Sending"
    /\ \E r \in {"Ok", "Ready"} : snd' = [snd EXCEPT ![e] = r]
    /\ UNCHANGED <<job, bound, retain, pc, proc, started, stage, resultVars, fileVars>>

EndSend(e) ==
    /\ At(e, "Outputs") /\ snd[e] = "Sending"
    /\ \E r \in {"Ok", "Err"} : snd' = [snd EXCEPT ![e] = r]
    /\ UNCHANGED <<job, bound, retain, pc, proc, started, stage, resultVars, fileVars>>

\* Mutant: a failed Process blocks every output, Send included.
ApplyProcessBlocksSend(e, st) ==
    IF proc[e] = "Off" THEN st
    ELSE IF proc[e] = "Err" THEN Record(Record(st, {"Process"}, "Failed"), {"Export", "Send"}, "Blocked")
    ELSE Record(st, {"Process", "Export"}, "Succeeded")

\* apply_process_result
ExportStatus(e) ==
    IF proc[e] = "Err" THEN "Blocked" ELSE IF exportErr[e] THEN "Failed" ELSE "Succeeded"
ApplyProcess(e, st) ==
    IF proc[e] = "Off" THEN st
    ELSE Record(Record(st, {"Process"}, IF proc[e] = "Err" THEN "Failed" ELSE "Succeeded"),
                {"Export"}, ExportStatus(e))

ApplySend(e, st) ==
    IF snd[e] = "Off" THEN st
    ELSE Record(st, {"Send"}, IF snd[e] = "Err" THEN "Failed" ELSE "Succeeded")

Settled == {"Off", "Ok", "Err"}

\* tokio::join! resolves, both results are applied, the staging guard drops.
Join(e) ==
    /\ At(e, "Outputs")
    /\ proc[e] \in Settled /\ snd[e] \in Settled
    /\ stage' = [stage EXCEPT ![e] = ApplySend(e, ApplyProcess(e, @))]
    /\ Return(e, fs, guards)
    /\ UNCHANGED <<job, bound, retain, proc, snd, started, resultVars, path, retained>>

\* The jobs the synchronous API awaits inside its request handler
\* (execute_synchronous_processing): Process only, over a runtime binding.
Synchronous == /\ job.input \in {"CollectBinding", "LoadBinding"}
               /\ job.save = "None" /\ Processing(job) /\ ~job.send /\ ~retain

\* The client of the synchronous API disconnects and the handler's future is
\* dropped: every pending step ends and the armed guards run.
Cancel ==
    /\ Synchronous
    /\ pc[Root] \notin {"Start", "Done", "Dropped"}
    /\ pc' = [pc EXCEPT ![Root] = "Dropped"]
    /\ fs' = fs \ guards
    /\ guards' = {}
    /\ UNCHANGED <<job, bound, retain, proc, snd, started, stage, resultVars, path, retained>>

(***************************************************************************)
(* Specification                                                           *)
(***************************************************************************)
Init ==
    /\ job \in Jobs
    /\ bound \in BindingsOf(job)
    /\ retain \in IF IsCollect(job) THEN {FALSE} ELSE BOOLEAN
    /\ pc = [e \in Execs |-> "Start"]
    /\ proc = [e \in Execs |-> "Off"]
    /\ snd = [e \in Execs |-> "Off"]
    /\ started = [e \in Execs |-> {}]
    /\ stage = [e \in Execs |-> [s \in Stages |-> "None"]]
    /\ verdict = [e \in Execs |-> "None"]
    /\ exportErr = [e \in Execs |-> FALSE]
    /\ error = [e \in Execs |-> "None"]
    /\ path = "None" /\ retained = "None" /\ kids = {}
    /\ fs = {"User"} /\ guards = {}

PhaseOne(e) ==
    \/ Begin(e) \/ ResolveFails(e) \/ Resolve(e)
    \/ Download(e) \/ WriteFails(e) \/ OpenFails(e) \/ OpenDownload(e)
    \/ Stream(e) \/ StreamBadSelection(e) \/ Load(e)
    \/ TempDirFails(e) \/ SetupFails(e) \/ StartCollect(e)
    \/ CollectFails(e) \/ CollectSucceeds(e) \/ ReopenFails(e)

Outputs(e) ==
    \/ BadSelection(e) \/ StartProcess(e) \/ ProcessFails(e)
    \/ ProcessReports(e) \/ ChildrenDone(e)
    \/ StartSend(e) \/ EndSend(e) \/ Join(e)

Step(e) == PhaseOne(e) \/ Outputs(e)

\* A finished or dropped execution is the end of the behaviour.
Over == pc[Root] \in {"Done", "Dropped"}

Next == (\E e \in Execs : Step(e)) \/ Cancel \/ (Over /\ UNCHANGED vars)

Spec == Init /\ [][Next]_vars

\* The execution awaits a peer that is under no time limit: the host that is
\* collected from, or, while Process runs, a live source or the output's cluster.
AwaitsPeer(e) == At(e, "Collecting") \/ (At(e, "Outputs") /\ proc[e] = "Reading")

\* Every future is polled and every other await ends: the download and the Send
\* of a bundle have the timeouts of their client. That a collected host or a
\* live source ever answers is not assumed.
FairSpec ==
    /\ Spec
    /\ \A e \in Execs : /\ WF_vars(~AwaitsPeer(e) /\ Step(e))
                        /\ WF_vars(StartSend(e) \/ EndSend(e))

(***************************************************************************)
(* The outcome (src/job/outcome.rs)                                        *)
(***************************************************************************)
Unsuccessful == {"Failed", "Blocked"}
Succeeded(e) == \A s \in Stages : stage[e][s] \notin Unsuccessful

\* outcome.report: set when the Process result is applied.
Report(e) == IF stage[e]["Process"] = "Succeeded" THEN verdict[e] ELSE "None"

\* The diagnostic_outcome of a ChildExecutionOutcome.
ChildDiagnosticOutcome(c) ==
    IF Report(c) # "None" THEN Report(c)
    ELSE IF stage[c]["Load"] = "Succeeded" /\ error[c] = "Skip" THEN "Skipped" ELSE "Failed"

\* ChildExecutionOutcome::failure
ChildFailure(c) ==
    LET outcome == ChildDiagnosticOutcome(c)
    IN  outcome # "Skipped" /\ (outcome = "Failed" \/ stage[c]["Export"] \in Unsuccessful)

\* ExecutionOutcome::failed, the verdict every caller shares.
OutcomeFailed(e) ==
    \/ ~Succeeded(e)
    \/ Report(e) = "Failed"
    \/ e = Root /\ \E c \in kids : ChildFailure(c)

(***************************************************************************)
(* Properties                                                              *)
(***************************************************************************)
Labels == {"Start", "Resolving", "Writing", "Resolved", "Collecting", "Outputs", "Done", "Dropped"}

\* Type invariant.  The drop guards of executor.rs and resolver.rs own
\* temporary directories only, never the user's file or save directory.
TypeOK ==
    /\ job \in Jobs
    /\ bound \in Bindings
    /\ retain \in BOOLEAN
    /\ pc \in [Execs -> Labels]
    /\ proc \in [Execs -> {"Off", "Ready", "Reading", "Children", "Ok", "Err"}]
    /\ snd \in [Execs -> {"Off", "Ready", "Sending", "Ok", "Err"}]
    /\ started \in [Execs -> SUBSET Stages]
    /\ stage \in [Execs -> [Stages -> Statuses \cup {"None"}]]
    /\ verdict \in [Execs -> Verdicts \cup {"None"}]
    /\ exportErr \in [Execs -> BOOLEAN]
    /\ error \in [Execs -> {"None", "Skip", "Other"}]
    /\ path \in Places \cup {"None"}
    /\ retained \in Places \cup {"None"}
    /\ kids \in SUBSET Children
    /\ fs \in SUBSET Places
    /\ guards \in SUBSET TempDirs

\* A future of the join, or a child reading from the parent's bundle, is using
\* the resolved bundle.
Reading == /\ pc[Root] = "Outputs"
           /\ proc[Root] \in {"Reading", "Children"} \/ snd[Root] = "Sending"

\* While Process, an included diagnostic or Send still reads the resolved
\* bundle, no guard has removed its directory: staging_cleanup and the
\* TempInputCleanup inside `resolved` outlive the join.
BundleOutlivesReaders == Reading /\ path # "None" => path \in fs

\* However the execution ends, error returns and a dropped future included,
\* the staging directory of a temporary Save is gone ("their directory is
\* removed before the outcome reaches the caller").
StagingRemoved == Over => "Staging" \notin fs

\* The retained_bundle an outcome hands to its caller is on disk when the
\* caller receives it: no guard of the same execution removed it.
RetainedExists == pc[Root] = "Done" /\ retained # "None" => retained \in fs

\* A bundle directory lives exactly as long as somebody needs it: never removed
\* under a reader, never left behind by a temporary Save, and there when an
\* outcome names it.
BundleLifetime == BundleOutlivesReaders /\ StagingRemoved /\ RetainedExists

\* Every execution that returns has recorded a status for each output stage its
\* job selected, whatever error path it took (record_blocked_outputs).
OutputsAccounted ==
    \A e \in Execs : pc[e] = "Done" => \A s \in OutputStages(JobOf(e)) : stage[e][s] # "None"

\* A job whose verdict is not failed did all it selected: no early return
\* leaves a selected stage behind an outcome that callers read as success.
SuccessIsComplete ==
    pc[Root] = "Done" /\ ~OutcomeFailed(Root) =>
        \A s \in SelectedStages(job) : stage[Root][s] = "Succeeded"

\* A failed Collect, Load or Save starts no output: nothing is processed,
\* exported or uploaded from an input that is not there.
FailedInputStartsNothing ==
    \A e \in Execs :
        (\E s \in {"Collect", "Load", "Save"} : stage[e][s] = "Failed") =>
            started[e] \cap {"Process", "Export", "Send"} = {}

\* Process and Send are independent: a Send over a resolved bundle is attempted
\* and gets a result of its own, also when Process or a child failed.
SendIndependent ==
    pc[Root] = "Done" /\ job.send /\ path # "None" =>
        /\ "Send" \in started[Root]
        /\ stage[Root]["Send"] \in {"Succeeded", "Failed"}

\* The parent returns a Process result only when every included diagnostic it
\* discovered has an outcome with all of its own stages recorded.
ChildrenSettled ==
    pc[Root] = "Done" /\ stage[Root]["Process"] = "Succeeded" =>
        \A c \in kids : /\ pc[c] = "Done"
                        /\ stage[c]["Load"] # "None" /\ stage[c]["Process"] # "None"

\* A downloaded input that was opened is removed with its execution or handed
\* to the caller that retains it: only one that never got a cleanup guard, since
\* it did not open or the caller left during the write, stays behind.
DownloadOwned == Over /\ "TempInput" \in fs => retained = "TempInput" \/ path = "None"

\* The outcome tells what happened, whichever early return an execution takes:
\* nothing selected is left out, nothing is claimed that was not done, nothing
\* runs on a failed input, Send has a result of its own, a parent that reports
\* has waited for its children, and a retained download is named.
StagesHonest == /\ OutputsAccounted /\ SuccessIsComplete /\ FailedInputStartsNothing
                /\ SendIndependent /\ ChildrenSettled /\ DownloadOwned

\* Nothing of an execution runs on after its future returned or was dropped:
\* the children are polled by the parent's future and die with it.
NothingOutlivesTheFuture == [][Over => UNCHANGED vars]_vars

\* A host may take its time, and refuse or break off, but not stay silent.
PeersAnswer == \A e \in Execs : []<>~AwaitsPeer(e)

\* Only a silent host keeps a submitted job from ending: however Process, Send
\* and the included diagnostics interleave and fail, they do not wait for each
\* other for ever.
Termination == PeersAnswer => <>Over

(* --------------------- what the caller is promised ------------------------ *)
\* What the caller can see of an execution.
Phase == IF pc[Root] = "Done" THEN "returned" ELSE IF pc[Root] = "Dropped" THEN "dropped" ELSE "open"

P == INSTANCE JobPromise WITH selected <- SelectedStages(job), phase <- Phase, status <- stage[Root]

\* The executor keeps the promise: whatever way input resolution, collection,
\* the concurrent Process and Send futures and the included diagnostics take, a
\* caller sees no more than the abstract promise: stages are decided once,
\* outputs succeed only over an input, and the returned outcome is complete.
KeepsPromise == P!PSpec

\* Refuted by TLC, see the README: what included-diagnostic-jobs says of the
\* verdict, a parent whose own stages and report succeeded is not failed by an
\* included diagnostic.
ChildFailureSparesParent ==
    pc[Root] = "Done" /\ Succeeded(Root) /\ Report(Root) # "Failed" => ~OutcomeFailed(Root)

\* Refuted by TLC, see the README: what the doc of retain_bundle says of a
\* downloaded input, only a retained one is kept after execution.
DownloadNotLeaked == Over /\ "TempInput" \in fs => retained = "TempInput"
=============================================================================
