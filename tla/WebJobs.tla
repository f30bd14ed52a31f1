------------------------------ MODULE WebJobs ------------------------------
(* The jobs of the web server: how a request reaches run_job, how it is       *)
(* admitted under the caps of service mode, and how it is accounted for when  *)
(* it ends (server/mod.rs, job_runner.rs, file_upload.rs, service_link.rs,    *)
(* api_key.rs, known_host.rs, api.rs).                                        *)
(*                                                                            *)
(* A TASK is one asynchronous handler: the future tokio spawns for a browser  *)
(* form, a claim of a stored request, or a synchronous API call that runs in  *)
(* the connection's own future. A REQUEST is an entry of job_requests: an     *)
(* uploaded archive waiting to be claimed, or a link or key left by the API.  *)
(* Each `.await` on a lock separates two actions; what a handler does while   *)
(* it holds one lock is one action. The server runs in service mode: in user  *)
(* mode there is one owner and record_job_started takes no slot.              *)
EXTENDS Integers, FiniteSets

CONSTANTS
  Tasks,        \* handlers
  Requests,     \* ids handed out by new_job_id and stored in job_requests
  Owners,       \* resolved identities
  User,         \* the identity behind each handler and each stored request
  GlobalCap,    \* server_policy.job_caps().global
  OwnerCap,     \* server_policy.job_caps().per_owner
  NoRequest     \* the id of a task that runs a request it was given directly

ASSUME CapsAssumption == GlobalCap \in Nat \ {0} /\ OwnerCap \in Nat \ {0}
ASSUME TasksFinite == IsFiniteSet(Tasks) /\ IsFiniteSet(Requests) /\ IsFiniteSet(Owners)
ASSUME UserAssumption == User \in [Tasks \union Requests -> Owners] /\ NoRequest \notin Requests

VARIABLES
  task,     \* each handler: where it is and what it runs
  request,  \* each id: whether it is an upload, and how far its submission got
  queued,   \* job_requests: the ids that are in the map
  file,     \* the staged archive of each upload
  timer,    \* uploads whose abandonment task is still asleep
  slots,    \* active_jobs_by_owner (an absent owner has 0)
  stats     \* stats.jobs

vars == <<task, request, queued, file, timer, slots, stats>>

\* Spawned tasks outlive the connection they serve, synchronous calls do not.
Kinds == {"spawned", "sync"}

\* pop: about to take the stored request;
\* validate: run_job before admission; count: admitted, the stats lock
\* still to be taken; settled: recorded, the owner's slot still to be returned;
\* reject: to be recorded as rejected; cleanup: recorded, input to be removed;
\* quiet: returned without being recorded; dropped: the future was dropped.
Points == {"idle", "pop", "validate", "admit", "count", "running",
           "settled", "reject", "cleanup", "done", "quiet", "dropped"}

At(pc, kind, r) == [pc |-> pc, kind |-> kind, id |-> r, at |-> "idle"]

Init ==
  /\ task = [t \in Tasks |-> At("idle", "spawned", NoRequest)]
  /\ request = [r \in Requests |-> [upload |-> FALSE, state |-> "unused"]]
  /\ queued = {}
  /\ file = [r \in Requests |-> "none"]
  /\ timer = {}
  /\ slots = [o \in Owners |-> 0]
  /\ stats = [active |-> 0, total |-> 0, success |-> 0, failed |-> 0]

GoTo(t, pc) == task' = [task EXCEPT ![t].pc = pc]

\* A handler that has returned keeps nothing.
Return(t, pc) == task' = [task EXCEPT ![t] = At(pc, "spawned", NoRequest)]

----------------------------------------------------------------------------
(* Accounting                                                                 *)

\* values().sum() of active_jobs_by_owner: one pair for each slot that is taken.
TakenSlots == UNION {{o} \X (1..slots[o]) : o \in Owners}

\* Mutant: the caps are compared with > instead of >=.
MayStartLoose(o) ==
  /\ Cardinality(TakenSlots) <= GlobalCap
  /\ slots[o] <= OwnerCap

\* The check and the increment of record_job_started, under one lock.
MayStart(o) ==
  /\ Cardinality(TakenSlots) < GlobalCap
  /\ slots[o] < OwnerCap

RecordStarted == [stats EXCEPT !.active = @ + 1]

\* record_success, record_outcome and record_failure: one outcome, one job
\* fewer active.
RecordFinished(ok) ==
  [stats EXCEPT !.total = @ + 1,
                !.success = IF ok THEN @ + 1 ELSE @,
                !.failed = IF ok THEN @ ELSE @ + 1,
                !.active = IF @ > 0 THEN @ - 1 ELSE @]

\* Mutant: a rejected job is taken off the active count it never entered.
RecordRejectedAsEnded ==
  [stats EXCEPT !.total = @ + 1, !.failed = @ + 1, !.active = @ - 1]

\* record_job_rejected: the job was never active.
RecordRejected == [stats EXCEPT !.total = @ + 1, !.failed = @ + 1]

\* record_job_finished_for_owner.
ReleaseSlot(o) == [slots EXCEPT ![o] = IF @ > 0 THEN @ - 1 ELSE 0]

----------------------------------------------------------------------------
(* Requests that wait to be claimed                                           *)

\* POST /upload: the archive is being written to its temporary file.
StageUpload(r) ==
  /\ request[r].state = "unused"
  /\ request' = [request EXCEPT ![r] = [upload |-> TRUE, state |-> "staging"]]
  /\ file' = [file EXCEPT ![r] = "partial"]
  /\ UNCHANGED <<task, queued, timer, slots, stats>>

\* Mutant: no abandonment task.
PushUploadUntimed(r) ==
  /\ request[r].state = "staging"
  /\ request' = [request EXCEPT ![r].state = "stored"]
  /\ file' = [file EXCEPT ![r] = "staged"]
  /\ queued' = queued \union {r}
  /\ UNCHANGED <<task, timer, slots, stats>>

\* The archive is complete: it is stored, and its abandonment task is started.
PushUpload(r) ==
  /\ request[r].state = "staging"
  /\ request' = [request EXCEPT ![r].state = "stored"]
  /\ file' = [file EXCEPT ![r] = "staged"]
  /\ queued' = queued \union {r}
  /\ timer' = timer \union {r}
  /\ UNCHANGED <<task, slots, stats>>

\* Writing it failed: the partial file goes, the submission counts as failed.
StageFails(r) ==
  /\ request[r].state = "staging"
  /\ request' = [request EXCEPT ![r].state = "failed"]
  /\ file' = [file EXCEPT ![r] = "removed"]
  /\ stats' = RecordRejected
  /\ UNCHANGED <<task, queued, timer, slots>>

\* The browser goes away in the middle of the upload, and the handler with it.
SubmitDropped(r) ==
  /\ request[r].state = "staging"
  /\ request' = [request EXCEPT ![r].state = "dropped"]
  /\ UNCHANGED <<task, queued, file, timer, slots, stats>>

\* The API without wait_for_completion: the request is left for a browser.
Push(r) ==
  /\ request[r].state = "unused"
  /\ request' = [request EXCEPT ![r] = [upload |-> FALSE, state |-> "stored"]]
  /\ queued' = queued \union {r}
  /\ UNCHANGED <<task, file, timer, slots, stats>>

PushLink(r) == Push(r)

PushKey(r) == Push(r)

\* JobInput::cleanup: an upload's archive is removed, other inputs have none.
Cleanup(r) ==
  IF r \in Requests /\ request[r].upload THEN [file EXCEPT ![r] = "removed"] ELSE file

\* Mutant: the abandonment task waits for the request to be claimed.
AbandonClaimed(r) ==
  /\ r \in timer /\ r \notin queued
  /\ timer' = timer \ {r}
  /\ UNCHANGED <<task, request, queued, file, slots, stats>>

\* The abandonment task wakes up and takes the request, if nobody has.
Abandon(r) ==
  /\ r \in timer
  /\ timer' = timer \ {r}
  /\ queued' = queued \ {r}
  /\ file' = IF r \in queued THEN Cleanup(r) ELSE file
  /\ UNCHANGED <<task, request, slots, stats>>

----------------------------------------------------------------------------
(* How a handler gets its request                                             *)

Begin(t, kind, r, pc) ==
  /\ task[t].pc = "idle"
  /\ task' = [task EXCEPT ![t] = At(pc, kind, r)]
  /\ UNCHANGED <<request, queued, file, timer, slots, stats>>

\* run_upload_job, with the id of any stored request: if the output is locked
\* it returns at once, records nothing and leaves the upload where it is.
ProcessUpload(t, r) ==
  Begin(t, "spawned", r, "pop") \/ Begin(t, "spawned", NoRequest, "quiet")

\* run_service_link_id and run_api_key_id.
ClaimLink(t, r) == Begin(t, "spawned", r, "pop")

ClaimKey(t, r) == Begin(t, "spawned", r, "pop")

\* run_service_link_form: a locked output is recorded as a rejection, a URL
\* that is not one of the upload service is not recorded.
LinkForm(t) == \E pc \in {"validate", "reject", "quiet"} : Begin(t, "spawned", NoRequest, pc)

\* run_api_key_form: a locked output and a host that cannot be built are
\* rejections.
KeyForm(t) == \E pc \in {"validate", "reject"} : Begin(t, "spawned", NoRequest, pc)

\* run_known_host_form: an unknown host, a host whose secret is locked and a
\* host without a URL are rejections.
HostForm(t) == \E pc \in {"validate", "reject"} : Begin(t, "spawned", NoRequest, pc)

\* Identity cannot be resolved: the spawned task only records the rejection.
Denied(t) == Begin(t, "spawned", NoRequest, "reject")

\* The API with wait_for_completion; a malformed call is answered at once and
\* is not a job.
CallLinkApi(t) == Begin(t, "sync", NoRequest, "admit")

CallKeyApi(t) == Begin(t, "sync", NoRequest, "admit")

\* pop_job_request_for_owner.
Mine(t) == task[t].id \in queued /\ User[task[t].id] = User[t]

\* Mutant: the request is read and stays in the map.
PopKeeps(t) ==
  /\ task[t].pc = "pop"
  /\ Mine(t)
  /\ GoTo(t, "validate")
  /\ UNCHANGED <<request, queued, file, timer, slots, stats>>

Pop(t) ==
  /\ task[t].pc = "pop"
  /\ Mine(t)
  /\ queued' = queued \ {task[t].id}
  /\ GoTo(t, "validate")
  /\ UNCHANGED <<request, file, timer, slots, stats>>

\* Mutant: another user's request is waited for.
PopMissesAbsent(t) ==
  /\ task[t].pc = "pop"
  /\ task[t].id \notin queued
  /\ task' = [task EXCEPT ![t].pc = "reject", ![t].id = NoRequest]
  /\ UNCHANGED <<request, queued, file, timer, slots, stats>>

\* Not there, or not this user's: the task runs nothing and owns no input.
PopMisses(t) ==
  /\ task[t].pc = "pop"
  /\ ~Mine(t)
  /\ task' = [task EXCEPT ![t].pc = "reject", ![t].id = NoRequest]
  /\ UNCHANGED <<request, queued, file, timer, slots, stats>>

----------------------------------------------------------------------------
(* run_job                                                                    *)

\* validate_job_request, then execute_unified_web_job up to record_job_started:
\* an error of either finds `started` unset.
Validate(t) ==
  /\ task[t].pc = "validate"
  /\ \E pc \in {"admit", "reject"} : GoTo(t, pc)
  /\ UNCHANGED <<request, queued, file, timer, slots, stats>>

Admit(t) ==
  /\ task[t].pc = "admit"
  /\ MayStart(User[t])
  /\ slots' = [slots EXCEPT ![User[t]] = @ + 1]
  /\ GoTo(t, "count")
  /\ UNCHANGED <<request, queued, file, timer, stats>>

AtCap(t) ==
  /\ task[t].pc = "admit"
  /\ ~MayStart(User[t])
  /\ GoTo(t, "reject")
  /\ UNCHANGED <<request, queued, file, timer, slots, stats>>

Count(t) ==
  /\ task[t].pc = "count"
  /\ stats' = RecordStarted
  /\ GoTo(t, "running")
  /\ UNCHANGED <<request, queued, file, timer, slots>>

\* Mutant: `started` stays set, and the error path records the job again.
FinishTwice(t, ok) ==
  /\ task[t].pc = "running"
  /\ stats' = [RecordFinished(ok) EXCEPT !.total = @ + 1, !.failed = @ + 1]
  /\ GoTo(t, "settled")
  /\ UNCHANGED <<request, queued, file, timer, slots>>

Finish(t, ok) ==
  /\ task[t].pc = "running"
  /\ stats' = RecordFinished(ok)
  /\ GoTo(t, "settled")
  /\ UNCHANGED <<request, queued, file, timer, slots>>

\* Processing ran: the job ends as its report does, or as failed when an
\* output failed beside it; `started` is cleared.
FinishReport(t) == task[t].kind # "sync" /\ \E ok \in BOOLEAN : Finish(t, ok)

\* Nothing was to be processed, and nothing failed.
FinishBundle(t) == task[t].kind # "sync" /\ Finish(t, TRUE)

\* An error after admission, with `started` still set: of a step before the
\* execution, of the execution, or of the copy that is kept for download.
FinishError(t) == task[t].kind # "sync" /\ Finish(t, FALSE)

\* A synchronous call records the outcome itself.
FinishSync(t) == task[t].kind = "sync" /\ \E ok \in BOOLEAN : Finish(t, ok)

Release(t) ==
  /\ task[t].pc = "settled"
  /\ slots' = ReleaseSlot(User[t])
  /\ GoTo(t, "cleanup")
  /\ UNCHANGED <<request, queued, file, timer, stats>>

\* Mutant: a job that was not admitted returns a slot as well (record_failure).
RejectReleases(t) ==
  /\ task[t].pc = "reject"
  /\ stats' = RecordRejected
  /\ slots' = ReleaseSlot(User[t])
  /\ GoTo(t, "cleanup")
  /\ UNCHANGED <<request, queued, file, timer>>

Reject(t) ==
  /\ task[t].pc = "reject"
  /\ stats' = RecordRejected
  /\ GoTo(t, "cleanup")
  /\ UNCHANGED <<request, queued, file, timer, slots>>

CleanupInput(t) ==
  /\ task[t].pc = "cleanup"
  /\ file' = Cleanup(task[t].id)
  /\ Return(t, "done")
  /\ UNCHANGED <<request, queued, timer, slots, stats>>

\* The client of a synchronous call disconnects: its future is dropped at
\* whatever await it had reached. The spawned tasks outlive their client.
Disconnect(t) ==
  /\ task[t].kind = "sync"
  /\ task[t].pc \in {"admit", "count", "running", "settled", "reject"}
  /\ task' = [task EXCEPT ![t].at = task[t].pc, ![t].pc = "dropped"]
  /\ UNCHANGED <<request, queued, file, timer, slots, stats>>

----------------------------------------------------------------------------
Stored(r) ==
  \/ StageUpload(r) \/ PushLink(r) \/ PushKey(r) \/ PushUpload(r)
  \/ StageFails(r) \/ SubmitDropped(r) \/ Abandon(r)

Arrive(t) ==
  \/ \E r \in Requests : ProcessUpload(t, r) \/ ClaimLink(t, r) \/ ClaimKey(t, r)
  \/ LinkForm(t) \/ KeyForm(t) \/ HostForm(t) \/ Denied(t)
  \/ CallLinkApi(t) \/ CallKeyApi(t)

Proceed(t) ==
  \/ Pop(t) \/ PopMisses(t)
  \/ Validate(t) \/ Admit(t) \/ AtCap(t) \/ Count(t)
  \/ FinishReport(t) \/ FinishBundle(t) \/ FinishError(t) \/ FinishSync(t)
  \/ Release(t) \/ Reject(t) \/ CleanupInput(t)

Next ==
  \/ \E r \in Requests : Stored(r)
  \/ \E t \in Tasks : Arrive(t) \/ Proceed(t) \/ Disconnect(t)

Spec == Init /\ [][Next]_vars

Running(t) == task[t].pc = "running"

\* tokio polls every handler and every sleeping task, and a browser reads its
\* event stream or closes it: a full channel would suspend the job that writes
\* to it. That an execution ends is not assumed: a silent host holds it for ever
\* (JobExecutor's Termination).
FairSpec ==
  /\ Spec
  /\ \A t \in Tasks : WF_vars(~Running(t) /\ Proceed(t))
  /\ \A r \in Requests : WF_vars(Abandon(r)) /\ WF_vars(PushUpload(r) \/ StageFails(r))
----------------------------------------------------------------------------
(* Properties                                                                 *)

\* The point a task has reached, or had reached when it was dropped.
Reached(t) == IF task[t].pc = "dropped" THEN task[t].at ELSE task[t].pc

Holding(t) == Reached(t) \in {"count", "running", "settled"}

Executing(t) == task[t].pc \in {"count", "running"}

\* A task that took a stored request and has not yet removed its input.
Claims(t, r) ==
  /\ task[t].id = r
  /\ task[t].pc \in {"validate", "admit", "count", "running", "settled", "reject", "cleanup"}

\* Type invariant.
TypeOK ==
  /\ task \in [Tasks -> [pc : Points, kind : Kinds,
                         id : Requests \union {NoRequest}, at : Points]]
  /\ request \in [Requests -> [upload : BOOLEAN,
                               state : {"unused", "staging", "stored", "failed", "dropped"}]]
  /\ queued \subseteq Requests
  /\ file \in [Requests -> {"none", "partial", "staged", "removed"}]
  /\ timer \subseteq Requests
  /\ slots \in [Owners -> Nat]
  /\ stats \in [active : Nat, total : Nat, success : Nat, failed : Nat]

\* active_jobs_by_owner is exact: an owner has one slot for each of its jobs
\* between admission and release, however those jobs interleave, whichever way
\* they end; a job that was dropped keeps its slot for ever.
SlotsExact ==
  \A o \in Owners : slots[o] = Cardinality({t \in Tasks : User[t] = o /\ Holding(t)})

\* No owner, and not the server as a whole, executes more jobs than its cap,
\* although the count of running jobs is kept in a map the jobs themselves
\* update when they end (record_job_started, record_job_finished_for_owner).
CapsRespected ==
  /\ Cardinality({t \in Tasks : Executing(t)}) <= GlobalCap
  /\ \A o \in Owners : Cardinality({t \in Tasks : User[t] = o /\ Executing(t)}) <= OwnerCap

\* Admission keeps its promise and loses no slot.
CapsEnforced == SlotsExact /\ CapsRespected

\* The figures of the status page: a job is active from its start to its
\* outcome, and every job and submission that ended is counted exactly once,
\* rejected before admission or not. The guard `active > 0` never hides an
\* outcome that was recorded twice.
StatsExact ==
  /\ stats.active = Cardinality({t \in Tasks : Reached(t) = "running"})
  /\ stats.total = Cardinality({t \in Tasks : Reached(t) \in {"settled", "cleanup", "done"}})
                   + Cardinality({r \in Requests : request[r].state = "failed"})
  /\ stats.total = stats.success + stats.failed

\* A stored request runs at most once, as its owner, and not after it was given
\* up: the abandonment task, two browser tabs and another user race for it.
ClaimedOnce ==
  \A t \in Tasks, r \in Requests :
     Claims(t, r) => /\ r \notin queued
                     /\ User[t] = User[r]
                     /\ request[r].upload => file[r] = "staged"
                     /\ \A u \in Tasks : Claims(u, r) => u = t

\* A staged archive always has somebody who will remove it: the task that
\* claimed it, or the timer of a request that is still in the map.
UploadHasOwner ==
  \A r \in Requests :
     file[r] = "staged" => r \in queued \intersect timer \/ \E t \in Tasks : Claims(t, r)

\* However many race for a stored request, one gets it, and its archive always
\* belongs to somebody.
RequestClaimed == ClaimedOnce /\ UploadHasOwner

\* Slots, figures, claims and staged archives agree with what the handlers of
\* the web server are doing, whoever races, ends or goes away.
WebJobsSound == TypeOK /\ CapsEnforced /\ StatsExact /\ RequestClaimed

\* Every handler ends, recorded, returned or dropped, unless its own execution
\* hangs: one that hangs keeps its slot and holds up no other.
HandlersEnd ==
  \A t \in Tasks :
     []<>~Running(t) =>
       (task[t].pc # "idle" ~> task[t].pc \in {"done", "quiet", "dropped"})

\* Every archive that was staged is removed from the disk in the end, unless the
\* execution that reads it hangs.
UploadsRemoved ==
  \A r \in Requests :
     (\A t \in Tasks : []<>~Running(t)) => (file[r] = "staged" ~> file[r] = "removed")

\* Nothing is left waiting: every handler ends and every staged archive goes.
Settled == HandlersEnd /\ UploadsRemoved

----------------------------------------------------------------------------
(* The instance that is checked: two owners, a stored request and three       *)
(* handlers, two of them of one owner: enough for an owner to meet its own    *)
(* cap and for a third job to meet the global one, and for two handlers of    *)
(* the owner, one of another user and the timer to race for the request.      *)
ThreeHandlers == [x \in Tasks \cup Requests |-> IF x = "t3" THEN "o2" ELSE "o1"]
=============================================================================
