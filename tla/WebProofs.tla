----------------------------- MODULE WebProofs -----------------------------
(* What the web server keeps. Jobs: for any number of handlers, owners and    *)
(* stored requests and for any caps, the slots and the figures count the      *)
(* handlers at each point, and a stored request and its archive have one      *)
(* owner. Session: for any number of tabs, jobs and unlock requests, any ring *)
(* and any times, an offered bundle is on disk and watched and leaves the     *)
(* table only when its time has come, and a block on unlocking holds.         *)
EXTENDS WebJobs, WebSession, FiniteSetTheorems, TLAPS

\* The handlers that hold a slot, run, or have been counted.
HeldBy(o) == {t \in Tasks : User[t] = o /\ Holding(t)}
Held      == {t \in Tasks : Holding(t)}
Active    == {t \in Tasks : Reached(t) = "running"}
Ended     == {t \in Tasks : Reached(t) \in {"settled", "cleanup", "done"}}
Failed    == {r \in Requests : request[r].state = "failed"}

\* The map of slots and its sum count the same handlers, within the caps.
SlotsInv ==
  /\ SlotsExact
  /\ Cardinality(TakenSlots) = Cardinality(Held)
  /\ Cardinality(Held) <= GlobalCap
  /\ \A o \in Owners : slots[o] <= OwnerCap

\* How far the submission of a request got, against where the request is.
StoredInv ==
  /\ \A t \in Tasks : task[t].kind = "sync" => task[t].id = NoRequest
  /\ \A r \in queued \union timer : request[r].state = "stored"
  /\ \A r \in Requests : request[r].state = "staging" => request[r].upload
  /\ \A r \in Requests : file[r] = "staged" => request[r] = [upload |-> TRUE, state |-> "stored"]
  /\ \A r \in queued : request[r].upload => file[r] = "staged" /\ r \in timer
  /\ \A t \in Tasks, r \in Requests : Claims(t, r) => request[r].state = "stored"

IndInv == TypeOK /\ SlotsInv /\ StatsExact /\ StoredInv /\ RequestClaimed

-----------------------------------------------------------------------------
(* Counting                                                                   *)

\* The size of a set of handlers or requests changes with the one that moves.
LEMMA CountChange ==
    ASSUME NEW U, IsFiniteSet(U), NEW S \in SUBSET U, NEW T \in SUBSET U, NEW t, S \ {t} = T \ {t}
    PROVE  /\ Cardinality(S) \in Nat /\ Cardinality(T) \in Nat
           /\ (t \in S <=> t \in T) => Cardinality(T) = Cardinality(S)
           /\ t \notin S /\ t \in T => Cardinality(T) = Cardinality(S) + 1
           /\ t \in S /\ t \notin T => Cardinality(S) = Cardinality(T) + 1
<1>1. IsFiniteSet(S) /\ IsFiniteSet(T)
  BY FS_Subset
<1>2. Cardinality(S) \in Nat /\ Cardinality(T) \in Nat
  BY <1>1, FS_CardinalityType
<1>3. CASE t \in S <=> t \in T
  <2>1. S = T
    BY <1>3
  <2> QED
    BY <2>1, <1>2, <1>3
<1>4. CASE t \notin S /\ t \in T
  <2>1. T = S \cup {t}
    BY <1>4
  <2> QED
    BY <2>1, <1>1, <1>2, <1>4, FS_AddElement
<1>5. CASE t \in S /\ t \notin T
  <2>1. S = T \cup {t}
    BY <1>5
  <2> QED
    BY <2>1, <1>1, <1>2, <1>5, FS_AddElement
<1> QED
  BY <1>3, <1>4, <1>5

\* The sum of the slots changes with the slots of one owner.
Taken(f) == UNION {{o} \X (1..f[o]) : o \in Owners}

LEMMA TakenFinite ==
    ASSUME NEW f \in [Owners -> Nat]
    PROVE  IsFiniteSet(Taken(f)) /\ Cardinality(Taken(f)) \in Nat
<1> DEFINE parts == {{o} \X (1..f[o]) : o \in Owners}
           h == [o \in Owners |-> {o} \X (1..f[o])]
<1>1. h \in Surjection(Owners, parts)
  BY DEF Surjection
<1>2. IsFiniteSet(parts)
  <2> HIDE DEF h, parts
  <2> QED
    BY <1>1, TasksFinite, FS_Surjection
<1>3. \A P \in parts : IsFiniteSet(P)
  <2> SUFFICES ASSUME NEW o \in Owners PROVE IsFiniteSet({o} \X (1..f[o]))
    OBVIOUS
  <2>1. f[o] \in Int /\ 1 \in Int
    OBVIOUS
  <2>2. IsFiniteSet(1..f[o]) /\ IsFiniteSet({o})
    BY <2>1, FS_Interval, FS_Singleton
  <2> QED
    BY <2>2, FS_Product
<1>4. IsFiniteSet(UNION parts)
  <2> HIDE DEF parts
  <2> QED
    BY <1>2, <1>3, FS_UNION
<1> QED
  BY <1>4, FS_CardinalityType DEF Taken

LEMMA TakenIs ==
    ASSUME NEW f \in [Owners -> Nat]
    PROVE  \A p : p \in Taken(f) <=> \E o \in Owners : \E i \in 1..f[o] : p = <<o, i>>
BY DEF Taken

LEMMA TakenGrows ==
    ASSUME NEW f \in [Owners -> Nat], NEW o \in Owners,
           NEW g, g = [f EXCEPT ![o] = @ + 1]
    PROVE  Cardinality(Taken(g)) = Cardinality(Taken(f)) + 1
<1> DEFINE new == <<o, f[o] + 1>>
<1>0. g \in [Owners -> Nat]
  OBVIOUS
<1>1. \A p : p \in Taken(g) <=> \E q \in Owners : \E i \in 1..g[q] : p = <<q, i>>
  BY <1>0 DEF Taken
<1>2. Taken(g) = Taken(f) \cup {new}
  <2>1. ASSUME NEW p \in Taken(g) PROVE p \in Taken(f) \cup {new}
    <3>0. PICK q \in Owners : \E i \in 1..g[q] : p = <<q, i>>
      BY <1>1, <2>1
    <3>1. PICK i \in 1..g[q] : p = <<q, i>>
      BY <3>0
    <3>2. q # o \/ i <= f[o] => i \in 1..f[q]
      BY <3>1
    <3>3. q = o /\ i > f[o] => i = f[o] + 1
      BY <3>1
    <3> QED
      BY <3>1, <3>2, <3>3, TakenIs
  <2>2. ASSUME NEW p \in Taken(f) PROVE p \in Taken(g)
    <3>0. PICK q \in Owners : \E i \in 1..f[q] : p = <<q, i>>
      BY TakenIs, <2>2
    <3>1. PICK i \in 1..f[q] : p = <<q, i>>
      BY <3>0
    <3>2. i \in 1..g[q]
      BY <3>1
    <3> QED
      BY <3>1, <3>2, <1>1
  <2>3. new \in Taken(g)
    <3>1. f[o] + 1 \in 1..g[o]
      OBVIOUS
    <3> QED
      BY <3>1, <1>1
  <2> QED
    BY <2>1, <2>2, <2>3
<1>3. new \notin Taken(f)
  <2> SUFFICES ASSUME new \in Taken(f) PROVE FALSE
    OBVIOUS
  <2>1. \E q \in Owners : \E i \in 1..f[q] : new = <<q, i>>
    BY TakenIs
  <2> QED
    BY <2>1
<1> HIDE DEF new
<1> QED
  BY <1>2, <1>3, TakenFinite, FS_AddElement

-----------------------------------------------------------------------------
(* Type correctness                                                           *)

TaskRecords == [pc : Points, kind : Kinds, id : Requests \union {NoRequest}, at : Points]
RequestRecords == [upload : BOOLEAN, state : {"unused", "staging", "stored", "failed", "dropped"}]
Figures == [active : Nat, total : Nat, success : Nat, failed : Nat]

\* What the three ways of recording a job do to the figures.
LEMMA Recording ==
    ASSUME stats \in Figures
    PROVE  /\ RecordStarted \in Figures /\ RecordStarted.active = stats.active + 1 /\ RecordStarted.total = stats.total
           /\ RecordStarted.success = stats.success /\ RecordStarted.failed = stats.failed
           /\ RecordRejected \in Figures
           /\ RecordRejected.active = stats.active /\ RecordRejected.total = stats.total + 1
           /\ RecordRejected.success = stats.success /\ RecordRejected.failed = stats.failed + 1
           /\ \A ok \in BOOLEAN :
                LET f == RecordFinished(ok)
                IN  /\ f \in Figures /\ f.active = (IF stats.active > 0 THEN stats.active - 1 ELSE stats.active)
                    /\ f.total = stats.total + 1 /\ f.success + f.failed = stats.success + stats.failed + 1
<1>0. stats.active \in Nat /\ stats.total \in Nat /\ stats.success \in Nat /\ stats.failed \in Nat
  BY DEF Figures
<1>1. /\ RecordStarted \in Figures /\ RecordStarted.active = stats.active + 1 /\ RecordStarted.total = stats.total
      /\ RecordStarted.success = stats.success /\ RecordStarted.failed = stats.failed
  BY <1>0 DEF RecordStarted, Figures
<1> DEFINE f1 == [stats EXCEPT !.total = stats.total + 1]
<1>2. /\ f1 \in Figures /\ f1.active = stats.active
      /\ f1.total = stats.total + 1 /\ f1.success = stats.success /\ f1.failed = stats.failed
  BY <1>0 DEF Figures
<1>3. /\ RecordRejected \in Figures
      /\ RecordRejected.active = stats.active /\ RecordRejected.total = stats.total + 1
      /\ RecordRejected.success = stats.success /\ RecordRejected.failed = stats.failed + 1
  <2> DEFINE f2 == [f1 EXCEPT !.failed = stats.failed + 1]
  <2>1. f2 = RecordRejected
    BY DEF RecordRejected
  <2> HIDE DEF f1
  <2>2. /\ f2 \in Figures /\ f2.active = f1.active
        /\ f2.total = f1.total /\ f2.success = f1.success /\ f2.failed = stats.failed + 1
    BY <1>0, <1>2 DEF Figures
  <2> HIDE DEF f2
  <2> QED
    BY <1>2, <2>1, <2>2
<1>4. ASSUME NEW ok \in BOOLEAN
      PROVE  LET f == RecordFinished(ok)
             IN  /\ f \in Figures /\ f.active = (IF stats.active > 0 THEN stats.active - 1 ELSE stats.active)
                 /\ f.total = stats.total + 1 /\ f.success + f.failed = stats.success + stats.failed + 1
  <2> DEFINE good == IF ok THEN stats.success + 1 ELSE stats.success
             bad  == IF ok THEN stats.failed ELSE stats.failed + 1
             open == IF stats.active > 0 THEN stats.active - 1 ELSE stats.active
             f2   == [f1 EXCEPT !.success = good]
             f3   == [f2 EXCEPT !.failed = bad]
             f4   == [f3 EXCEPT !.active = open]
  <2>1. f4 = RecordFinished(ok)
    BY DEF RecordFinished
  <2>2. good \in Nat /\ bad \in Nat /\ open \in Nat /\ good + bad = stats.success + stats.failed + 1
    BY <1>0
  <2> HIDE DEF good, bad, f1
  <2>3. f2 \in Figures /\ f2.active = f1.active /\ f2.total = f1.total /\ f2.success = good /\ f2.failed = f1.failed
    BY <1>2, <2>2 DEF Figures
  <2> HIDE DEF f2
  <2>4. f3 \in Figures /\ f3.active = f2.active /\ f3.total = f2.total /\ f3.success = f2.success /\ f3.failed = bad
    BY <2>2, <2>3 DEF Figures
  <2> HIDE DEF f3, open
  <2>5. f4 \in Figures /\ f4.active = open /\ f4.total = f3.total /\ f4.success = f3.success /\ f4.failed = f3.failed
    BY <2>2, <2>4 DEF Figures
  <2> HIDE DEF f4
  <2> QED
    BY <1>2, <2>1, <2>2, <2>3, <2>4, <2>5 DEF open
<1> QED
  BY <1>1, <1>3, <1>4

LEMMA FiguresType ==
    ASSUME stats \in Figures
    PROVE  /\ RecordStarted \in Figures /\ RecordRejected \in Figures
           /\ \A ok \in BOOLEAN : RecordFinished(ok) \in Figures
BY Recording

LEMMA GoToType ==
    ASSUME task \in [Tasks -> TaskRecords], NEW t \in Tasks, NEW pc \in Points, GoTo(t, pc)
    PROVE  task' \in [Tasks -> TaskRecords]
<1>1. [task[t] EXCEPT !.pc = pc] \in TaskRecords
  BY DEF TaskRecords
<1> QED
  BY <1>1 DEF GoTo

LEMMA StoredType ==
    ASSUME TypeOK, NEW r \in Requests, Stored(r)
    PROVE  TypeOK' /\ UNCHANGED <<task, slots>>
<1>0. /\ request \in [Requests -> RequestRecords] /\ stats \in Figures
      /\ file \in [Requests -> {"none", "partial", "staged", "removed"}]
      /\ queued \subseteq Requests /\ timer \subseteq Requests
  BY DEF TypeOK, RequestRecords, Figures
<1>1. ASSUME NEW s \in {"stored", "failed", "dropped"} PROVE [request[r] EXCEPT !.state = s] \in RequestRecords
  BY <1>0 DEF RequestRecords
<1>2. /\ [upload |-> TRUE, state |-> "staging"] \in RequestRecords
      /\ [upload |-> FALSE, state |-> "stored"] \in RequestRecords
  BY DEF RequestRecords
<1>3. request' \in [Requests -> RequestRecords]
  BY <1>0, <1>1, <1>2 DEF Stored, StageUpload, PushUpload, SubmitDropped, PushLink, PushKey, Push, StageFails, Abandon
<1>4. stats' \in Figures /\ UNCHANGED <<task, slots>>
  BY <1>0, FiguresType
     DEF Stored, StageUpload, PushUpload, SubmitDropped, PushLink, PushKey, Push, StageFails, Abandon
<1>5. /\ file' \in [Requests -> {"none", "partial", "staged", "removed"}]
      /\ queued' \subseteq Requests /\ timer' \subseteq Requests
  BY <1>0 DEF Stored, StageUpload, PushUpload, SubmitDropped, PushLink, PushKey, Push, StageFails, Abandon, Cleanup
<1> QED
  BY <1>3, <1>4, <1>5 DEF TypeOK, RequestRecords, Figures

LEMMA BeginType ==
    ASSUME TypeOK, NEW t \in Tasks, NEW kind \in Kinds, NEW r \in Requests \union {NoRequest}, NEW pc \in Points,
           Begin(t, kind, r, pc)
    PROVE  TypeOK'
BY DEF TypeOK, Begin, At, Points

\* Whatever a handler begins with, it is a fresh handler of one kind, and only
\* a claim names a stored request.
LEMMA ArriveBegins ==
    ASSUME NEW t \in Tasks, Arrive(t)
    PROVE  \E kind \in Kinds, r \in Requests \union {NoRequest}, pc \in {"pop", "quiet", "validate", "reject", "admit"} :
             Begin(t, kind, r, pc) /\ (r # NoRequest => kind = "spawned" /\ pc = "pop")
<1> USE DEF Kinds
<1>1. CASE \E r \in Requests : ProcessUpload(t, r) \/ ClaimLink(t, r) \/ ClaimKey(t, r)
  <2>1. PICK r \in Requests : ProcessUpload(t, r) \/ ClaimLink(t, r) \/ ClaimKey(t, r)
    BY <1>1
  <2>2. Begin(t, "spawned", r, "pop") \/ Begin(t, "spawned", NoRequest, "quiet")
    BY <2>1 DEF ProcessUpload, ClaimLink, ClaimKey
  <2> QED
    BY <2>2
<1>2. CASE LinkForm(t) \/ KeyForm(t) \/ HostForm(t) \/ Denied(t)
  <2>1. \E pc \in {"quiet", "validate", "reject"} : Begin(t, "spawned", NoRequest, pc)
    BY <1>2 DEF LinkForm, KeyForm, HostForm, Denied
  <2> QED
    BY <2>1
<1>3. CASE CallLinkApi(t) \/ CallKeyApi(t)
  <2>1. Begin(t, "sync", NoRequest, "admit")
    BY <1>3 DEF CallLinkApi, CallKeyApi
  <2> QED
    BY <2>1
<1> QED
  BY <1>1, <1>2, <1>3 DEF Arrive

LEMMA ProceedType ==
    ASSUME TypeOK, NEW t \in Tasks, Proceed(t)
    PROVE  TypeOK'
<1>0. /\ task \in [Tasks -> TaskRecords] /\ stats \in Figures /\ slots \in [Owners -> Nat]
      /\ file \in [Requests -> {"none", "partial", "staged", "removed"}]
      /\ queued \subseteq Requests /\ UNCHANGED <<request, timer>>
  BY DEF TypeOK, TaskRecords, Figures, Proceed, Pop, PopMisses, Validate, AtCap, Admit, Count, FinishReport,
         FinishBundle, FinishError, FinishSync, Finish, Release, Reject, CleanupInput
<1>1. task' \in [Tasks -> TaskRecords]
  <2>1. CASE PopMisses(t)
    <3>1. [task[t] EXCEPT !.pc = "reject", !.id = NoRequest] \in TaskRecords
      BY <1>0 DEF TaskRecords, Points
    <3>2. task' = [task EXCEPT ![t] = [task[t] EXCEPT !.pc = "reject", !.id = NoRequest]]
      BY <1>0, <2>1 DEF PopMisses
    <3> QED
      BY <1>0, <3>1, <3>2
  <2>2. CASE CleanupInput(t)
    BY <1>0, <2>2 DEF CleanupInput, Return, At, Kinds, Points, TaskRecords
  <2>3. CASE ~PopMisses(t) /\ ~CleanupInput(t)
    <3>1. \E pc \in Points : GoTo(t, pc)
      BY <2>3 DEF Proceed, Pop, Validate, AtCap, Admit, Count, FinishReport, FinishBundle, FinishError, FinishSync, Finish,
                  Release, Reject, Points
    <3> QED
      BY <1>0, <3>1, GoToType
  <2> QED
    BY <2>1, <2>2, <2>3
<1>2. stats' \in Figures
  BY <1>0, FiguresType DEF Proceed, Pop, PopMisses, Validate, AtCap, Admit, Count, FinishReport,
         FinishBundle, FinishError, FinishSync, Finish, Release, Reject, CleanupInput
<1>3. slots' \in [Owners -> Nat]
  <2>1. User[t] \in Owners
    BY UserAssumption
  <2>2. CASE Admit(t)
    BY <1>0, <2>1, <2>2 DEF Admit
  <2>3. CASE Release(t)
    <3>1. ReleaseSlot(User[t]) \in [Owners -> Nat]
      <4>1. slots[User[t]] \in Nat
        BY <1>0, <2>1
      <4>2. (IF slots[User[t]] > 0 THEN slots[User[t]] - 1 ELSE 0) \in Nat
        BY <4>1
      <4> QED
        BY <1>0, <4>2 DEF ReleaseSlot
    <3> QED
      BY <2>3, <3>1 DEF Release
  <2>4. CASE ~Admit(t) /\ ~Release(t)
    BY <1>0, <2>4 DEF Proceed, Pop, PopMisses, Validate, AtCap, Count, FinishReport,
         FinishBundle, FinishError, FinishSync, Finish, Reject, CleanupInput
  <2> QED
    BY <2>2, <2>3, <2>4
<1>4. /\ file' \in [Requests -> {"none", "partial", "staged", "removed"}]
      /\ queued' \subseteq Requests
  BY <1>0 DEF Proceed, Pop, PopMisses, Validate, AtCap, Admit, Count, FinishReport,
         FinishBundle, FinishError, FinishSync, Finish, Release, Reject, CleanupInput, Cleanup
<1> QED
  BY <1>0, <1>1, <1>2, <1>3, <1>4 DEF TypeOK, TaskRecords, Figures

LEMMA DisconnectType ==
    ASSUME TypeOK, NEW t \in Tasks, Disconnect(t)
    PROVE  TypeOK'
BY DEF TypeOK, Disconnect, Points

LEMMA TypeInductive == TypeOK /\ [Next]_vars => TypeOK'
<1> SUFFICES ASSUME TypeOK, [Next]_vars PROVE TypeOK'
  OBVIOUS
<1>1. ASSUME NEW t \in Tasks, Arrive(t) PROVE TypeOK'
  <2>1. PICK kind \in Kinds, r \in Requests \union {NoRequest}, pc \in {"pop", "quiet", "validate", "reject", "admit"} :
           Begin(t, kind, r, pc)
    BY <1>1, ArriveBegins
  <2> QED
    BY <2>1, BeginType DEF Points
<1>2. CASE UNCHANGED vars
  BY <1>2 DEF vars, TypeOK
<1> QED
  BY <1>1, <1>2, StoredType, ProceedType, DisconnectType DEF Next

-----------------------------------------------------------------------------
(* What one step moves                                                        *)

\* A step of a handler moves that handler only, and changes the slots and the
\* figures in one of six ways.
Moves(t, from, to) ==
  /\ \A u \in Tasks : u # t => task'[u] = task[u]
  /\ Reached(t) = from /\ Reached(t)' = to

Unseen == {"idle", "pop", "validate", "admit", "reject", "quiet"}
Counted == {"cleanup", "done"}

StepShape(t) ==
  \/ \E from, to \in Points :
       /\ Moves(t, from, to) /\ UNCHANGED <<slots, stats>>
       /\ from = to \/ {from, to} \subseteq Unseen \/ {from, to} \subseteq Counted
  \/ Moves(t, "admit", "count") /\ MayStart(User[t]) /\ slots' = [slots EXCEPT ![User[t]] = @ + 1] /\ UNCHANGED stats
  \/ Moves(t, "count", "running") /\ stats' = RecordStarted /\ UNCHANGED slots
  \/ Moves(t, "running", "settled") /\ (\E ok \in BOOLEAN : stats' = RecordFinished(ok)) /\ UNCHANGED slots
  \/ Moves(t, "settled", "cleanup") /\ slots' = ReleaseSlot(User[t]) /\ UNCHANGED stats
  \/ Moves(t, "reject", "cleanup") /\ stats' = RecordRejected /\ UNCHANGED slots

LEMMA HandlerShape ==
    ASSUME TypeOK, NEW t \in Tasks, Arrive(t) \/ Proceed(t) \/ Disconnect(t)
    PROVE  StepShape(t) /\ UNCHANGED request
<1> USE DEF TypeOK, GoTo, Reached, Moves, Unseen, Counted
<1>1. CASE Arrive(t)
  <2>1. PICK kind \in Kinds, r \in Requests \union {NoRequest}, pc \in {"pop", "quiet", "validate", "reject", "admit"} :
           Begin(t, kind, r, pc)
    BY <1>1, ArriveBegins
  <2>2. Moves(t, "idle", pc) /\ UNCHANGED <<slots, stats, request>>
    BY <2>1 DEF Begin, At
  <2>3. "idle" \in Points /\ pc \in Points /\ {"idle", pc} \subseteq Unseen
    BY DEF Points
  <2> QED
    BY <2>2, <2>3 DEF StepShape
<1>2. CASE Disconnect(t)
  <2>1. Moves(t, task[t].pc, task[t].pc) /\ UNCHANGED <<slots, stats, request>> /\ task[t].pc \in Points
    BY <1>2 DEF Disconnect
  <2> QED
    BY <2>1 DEF StepShape
<1>3. CASE Pop(t) \/ PopMisses(t) \/ Validate(t) \/ AtCap(t)
  <2>1. UNCHANGED <<slots, stats, request>>
    BY <1>3 DEF Pop, PopMisses, Validate, AtCap
  <2>2. \E from \in {"pop", "validate", "admit"}, to \in {"validate", "admit", "reject"} : Moves(t, from, to)
    BY <1>3 DEF Pop, PopMisses, Validate, AtCap
  <2>3. PICK from \in {"pop", "validate", "admit"}, to \in {"validate", "admit", "reject"} : Moves(t, from, to)
    BY <2>2
  <2>4. from \in Points /\ to \in Points /\ {from, to} \subseteq Unseen
    BY DEF Points
  <2> QED
    BY <2>1, <2>3, <2>4 DEF StepShape
<1>4. CASE Admit(t)
  <2>1. Moves(t, "admit", "count")
    BY <1>4 DEF Admit
  <2> QED
    BY <1>4, <2>1 DEF StepShape, Admit
<1>5. CASE Count(t)
  <2>1. Moves(t, "count", "running")
    BY <1>5 DEF Count
  <2> QED
    BY <1>5, <2>1 DEF StepShape, Count
<1>6. CASE FinishReport(t) \/ FinishBundle(t) \/ FinishError(t) \/ FinishSync(t)
  <2>1. PICK ok \in BOOLEAN : Finish(t, ok)
    BY <1>6 DEF FinishReport, FinishBundle, FinishError, FinishSync
  <2>2. Moves(t, "running", "settled")
    BY <2>1 DEF Finish
  <2> QED
    BY <2>1, <2>2 DEF StepShape, Finish
<1>7. CASE Release(t)
  <2>1. Moves(t, "settled", "cleanup")
    BY <1>7 DEF Release
  <2> QED
    BY <1>7, <2>1 DEF StepShape, Release
<1>8. CASE Reject(t)
  <2>1. Moves(t, "reject", "cleanup")
    BY <1>8 DEF Reject
  <2> QED
    BY <1>8, <2>1 DEF StepShape, Reject
<1>9. CASE CleanupInput(t)
  <2>1. Moves(t, "cleanup", "done") /\ UNCHANGED <<slots, stats, request>>
    BY <1>9 DEF CleanupInput, Return, At
  <2>2. "cleanup" \in Points /\ "done" \in Points /\ {"cleanup", "done"} \subseteq Counted
    BY DEF Points
  <2> QED
    BY <2>1, <2>2 DEF StepShape
<1> QED
  BY <1>1, <1>2, <1>3, <1>4, <1>5, <1>6, <1>7, <1>8, <1>9 DEF Proceed

-----------------------------------------------------------------------------
(* The slots and the figures                                                  *)
Holders == {"count", "running", "settled"}

LEMMA HeldMoves ==
    ASSUME NEW t \in Tasks, NEW from, NEW to, Moves(t, from, to), NEW o \in Owners
    PROVE  LET moved == User[t] = o
           IN  /\ (from \in Holders <=> to \in Holders) =>
                    Cardinality(HeldBy(o)') = Cardinality(HeldBy(o)) /\ Cardinality(Held') = Cardinality(Held)
               /\ from \notin Holders /\ to \in Holders =>
                    /\ Cardinality(Held') = Cardinality(Held) + 1
                    /\ Cardinality(HeldBy(o)') = Cardinality(HeldBy(o)) + (IF moved THEN 1 ELSE 0)
               /\ from \in Holders /\ to \notin Holders =>
                    /\ Cardinality(Held) = Cardinality(Held') + 1
                    /\ Cardinality(HeldBy(o)) = Cardinality(HeldBy(o)') + (IF moved THEN 1 ELSE 0)
               /\ Cardinality(Held) \in Nat /\ Cardinality(Held') \in Nat
               /\ Cardinality(HeldBy(o)) \in Nat /\ Cardinality(HeldBy(o)') \in Nat
<1>1. \A u \in Tasks : u # t => (Holding(u)' <=> Holding(u))
  BY DEF Moves, Holding, Reached
<1>2. (Holding(t) <=> from \in Holders) /\ (Holding(t)' <=> to \in Holders)
  BY DEF Moves, Holding, Holders
<1>3. /\ Held \in SUBSET Tasks /\ Held' \in SUBSET Tasks /\ Held \ {t} = Held' \ {t}
      /\ (t \in Held <=> from \in Holders) /\ (t \in Held' <=> to \in Holders)
  BY <1>1, <1>2 DEF Held
<1>4. /\ HeldBy(o) \in SUBSET Tasks /\ HeldBy(o)' \in SUBSET Tasks /\ HeldBy(o) \ {t} = HeldBy(o)' \ {t}
      /\ (t \in HeldBy(o) <=> User[t] = o /\ from \in Holders) /\ (t \in HeldBy(o)' <=> User[t] = o /\ to \in Holders)
  BY <1>1, <1>2 DEF HeldBy
<1> DEFINE H == Held    H2 == Held'    B == HeldBy(o)    B2 == HeldBy(o)'
<1>5. /\ Cardinality(H) \in Nat /\ Cardinality(H2) \in Nat
      /\ (t \in H <=> t \in H2) => Cardinality(H2) = Cardinality(H)
      /\ t \notin H /\ t \in H2 => Cardinality(H2) = Cardinality(H) + 1
      /\ t \in H /\ t \notin H2 => Cardinality(H) = Cardinality(H2) + 1
  <2> HIDE DEF H, H2
  <2> QED
    BY <1>3, TasksFinite, CountChange DEF H, H2
<1>6. /\ Cardinality(B) \in Nat /\ Cardinality(B2) \in Nat
      /\ (t \in B <=> t \in B2) => Cardinality(B2) = Cardinality(B)
      /\ t \notin B /\ t \in B2 => Cardinality(B2) = Cardinality(B) + 1
      /\ t \in B /\ t \notin B2 => Cardinality(B) = Cardinality(B2) + 1
  BY <1>4, TasksFinite, CountChange
<1> QED
  BY <1>3, <1>4, <1>5, <1>6

LEMMA SlotsStep ==
    ASSUME TypeOK, SlotsInv, NEW t \in Tasks, StepShape(t)
    PROVE  SlotsInv'
<1>0. User[t] \in Owners /\ slots \in [Owners -> Nat] /\ GlobalCap \in Nat /\ OwnerCap \in Nat
  BY UserAssumption, CapsAssumption DEF TypeOK
<1>1. /\ \A o \in Owners : slots[o] = Cardinality(HeldBy(o)) /\ slots[o] <= OwnerCap
      /\ Cardinality(Taken(slots)) = Cardinality(Held) /\ Cardinality(Held) <= GlobalCap
  BY DEF SlotsInv, SlotsExact, HeldBy, Taken, TakenSlots
<1>2. SUFFICES /\ \A o \in Owners : slots'[o] = Cardinality(HeldBy(o)') /\ slots'[o] <= OwnerCap
               /\ Cardinality(Taken(slots')) = Cardinality(Held') /\ Cardinality(Held') <= GlobalCap
  BY DEF SlotsInv, SlotsExact, HeldBy, Taken, TakenSlots
<1>3. CASE \E from, to \in Points : /\ Moves(t, from, to) /\ UNCHANGED slots
                                    /\ (from \in Holders <=> to \in Holders)
  <2>1. PICK from \in Points, to \in Points : /\ Moves(t, from, to) /\ UNCHANGED slots
                                    /\ (from \in Holders <=> to \in Holders)
    BY <1>3
  <2>2. \A o \in Owners : Cardinality(HeldBy(o)') = Cardinality(HeldBy(o)) /\ Cardinality(Held') = Cardinality(Held)
    BY <2>1, HeldMoves
  <2> QED
    BY <2>1, <2>2, <1>0, <1>1
<1>4. CASE Moves(t, "admit", "count") /\ MayStart(User[t]) /\ slots' = [slots EXCEPT ![User[t]] = @ + 1]
  <2>1. \A o \in Owners : /\ Cardinality(HeldBy(o)') = Cardinality(HeldBy(o)) + (IF User[t] = o THEN 1 ELSE 0)
                          /\ Cardinality(Held') = Cardinality(Held) + 1
                          /\ Cardinality(Held) \in Nat /\ Cardinality(HeldBy(o)) \in Nat
    BY <1>4, HeldMoves DEF Holders
  <2>2. Cardinality(Taken(slots')) = Cardinality(Taken(slots)) + 1
    BY <1>0, <1>4, TakenGrows
  <2>3. Cardinality(Taken(slots)) < GlobalCap /\ slots[User[t]] < OwnerCap
    BY <1>4 DEF MayStart, TakenSlots, Taken
  <2>4. \A o \in Owners : slots'[o] = slots[o] + (IF User[t] = o THEN 1 ELSE 0)
    BY <1>0, <1>4
  <2> QED
    BY <1>0, <1>1, <2>1, <2>2, <2>3, <2>4
<1>5. CASE Moves(t, "settled", "cleanup") /\ slots' = ReleaseSlot(User[t])
  <2>1. \A o \in Owners : /\ Cardinality(HeldBy(o)) = Cardinality(HeldBy(o)') + (IF User[t] = o THEN 1 ELSE 0)
                          /\ Cardinality(Held) = Cardinality(Held') + 1
                          /\ Cardinality(Held') \in Nat /\ Cardinality(HeldBy(o)') \in Nat
    BY <1>5, HeldMoves DEF Holders
  <2>2. slots[User[t]] > 0
    BY <1>0, <1>1, <2>1
  <2>3. slots' \in [Owners -> Nat] /\ \A o \in Owners : slots[o] = slots'[o] + (IF User[t] = o THEN 1 ELSE 0)
    BY <1>0, <1>5, <2>2 DEF ReleaseSlot
  <2>4. slots = [slots' EXCEPT ![User[t]] = @ + 1]
    BY <1>0, <2>3
  <2>5. Cardinality(Taken(slots)) = Cardinality(Taken(slots')) + 1
    BY <1>0, <2>3, <2>4, TakenGrows
  <2>6. Cardinality(Taken(slots')) \in Nat
    BY <2>3, TakenFinite
  <2> QED
    BY <1>0, <1>1, <2>1, <2>3, <2>5, <2>6
<1> QED
  <2>1. {"admit", "count", "running", "settled", "cleanup", "reject"} \subseteq Points
    BY DEF Points
  <2>2. Unseen \cap Holders = {} /\ Counted \cap Holders = {}
    BY DEF Unseen, Counted, Holders
  <2> QED
    BY <1>3, <1>4, <1>5, <2>1, <2>2 DEF StepShape, Holders

LEMMA SetMoves ==
    ASSUME NEW t \in Tasks, NEW from, NEW to, Moves(t, from, to)
    PROVE  /\ ((from # "running" /\ to # "running") \/ from = to) => Cardinality(Active') = Cardinality(Active)
           /\ from # "running" /\ to = "running" => Cardinality(Active') = Cardinality(Active) + 1
           /\ from = "running" /\ to # "running" => Cardinality(Active) = Cardinality(Active') + 1
           /\ LET ends == {"settled", "cleanup", "done"}
              IN  /\ (from \in ends <=> to \in ends) => Cardinality(Ended') = Cardinality(Ended)
                  /\ from \notin ends /\ to \in ends => Cardinality(Ended') = Cardinality(Ended) + 1
           /\ Cardinality(Active) \in Nat /\ Cardinality(Active') \in Nat /\ Cardinality(Ended) \in Nat
<1>1. \A u \in Tasks : u # t => Reached(u)' = Reached(u)
  BY DEF Moves, Reached
<1>2. Reached(t) = from /\ Reached(t)' = to
  BY DEF Moves
<1>3. /\ Active \in SUBSET Tasks /\ Active' \in SUBSET Tasks /\ Active \ {t} = Active' \ {t}
      /\ (t \in Active <=> from = "running") /\ (t \in Active' <=> to = "running")
  BY <1>1, <1>2 DEF Active
<1>4. /\ Ended \in SUBSET Tasks /\ Ended' \in SUBSET Tasks /\ Ended \ {t} = Ended' \ {t}
      /\ (t \in Ended <=> from \in {"settled", "cleanup", "done"})
      /\ (t \in Ended' <=> to \in {"settled", "cleanup", "done"})
  BY <1>1, <1>2 DEF Ended
<1> DEFINE A == Active    A2 == Active'    E == Ended    E2 == Ended'
<1>5. /\ Cardinality(A) \in Nat /\ Cardinality(A2) \in Nat
      /\ (t \in A <=> t \in A2) => Cardinality(A2) = Cardinality(A)
      /\ t \notin A /\ t \in A2 => Cardinality(A2) = Cardinality(A) + 1
      /\ t \in A /\ t \notin A2 => Cardinality(A) = Cardinality(A2) + 1
  <2> HIDE DEF A, A2
  <2> QED
    BY <1>3, TasksFinite, CountChange DEF A, A2
<1>6. /\ Cardinality(E) \in Nat
      /\ (t \in E <=> t \in E2) => Cardinality(E2) = Cardinality(E)
      /\ t \notin E /\ t \in E2 => Cardinality(E2) = Cardinality(E) + 1
  <2> HIDE DEF E, E2
  <2> QED
    BY <1>4, TasksFinite, CountChange DEF E, E2
<1> QED
  BY <1>3, <1>4, <1>5, <1>6

LEMMA StatsStep ==
    ASSUME TypeOK, StatsExact, NEW t \in Tasks, StepShape(t), UNCHANGED request
    PROVE  StatsExact'
<1>0. stats \in Figures /\ stats.active \in Nat /\ stats.total \in Nat /\ stats.success \in Nat /\ stats.failed \in Nat
  BY DEF TypeOK, Figures
<1>1. /\ stats.active = Cardinality(Active) /\ stats.total = Cardinality(Ended) + Cardinality(Failed)
      /\ stats.total = stats.success + stats.failed
  BY DEF StatsExact, Active, Ended, Failed
<1>2. Failed' = Failed /\ Cardinality(Failed) \in Nat
  <2>1. IsFiniteSet(Failed)
    BY TasksFinite, FS_Subset DEF Failed
  <2> QED
    BY <2>1, FS_CardinalityType DEF Failed
<1>3. SUFFICES /\ stats'.active = Cardinality(Active') /\ stats'.total = Cardinality(Ended') + Cardinality(Failed)
               /\ stats'.total = stats'.success + stats'.failed
  BY <1>2 DEF StatsExact, Active, Ended, Failed
<1>4. CASE \E from, to \in Points :
             /\ Moves(t, from, to) /\ UNCHANGED <<slots, stats>>
             /\ from = to \/ {from, to} \subseteq Unseen \/ {from, to} \subseteq Counted
  BY <1>1, <1>4, SetMoves DEF Unseen, Counted
<1>5. CASE Moves(t, "admit", "count") /\ UNCHANGED stats
  BY <1>1, <1>5, SetMoves
<1>6. CASE Moves(t, "count", "running") /\ stats' = RecordStarted
  BY <1>0, <1>1, <1>6, SetMoves, Recording
<1>7. CASE Moves(t, "running", "settled") /\ (\E ok \in BOOLEAN : stats' = RecordFinished(ok))
  <2>1. PICK ok \in BOOLEAN : stats' = RecordFinished(ok)
    BY <1>7
  <2>2. /\ stats'.active = (IF stats.active > 0 THEN stats.active - 1 ELSE stats.active)
        /\ stats'.total = stats.total + 1 /\ stats'.success + stats'.failed = stats.success + stats.failed + 1
    BY <1>0, <2>1, Recording
  <2>3. /\ Cardinality(Active) = Cardinality(Active') + 1 /\ Cardinality(Active') \in Nat
        /\ Cardinality(Ended') = Cardinality(Ended) + 1 /\ Cardinality(Ended) \in Nat
    BY <1>7, SetMoves
  <2> QED
    BY <1>0, <1>1, <1>2, <2>2, <2>3
<1>8. CASE Moves(t, "settled", "cleanup") /\ UNCHANGED stats
  BY <1>1, <1>8, SetMoves
<1>9. CASE Moves(t, "reject", "cleanup") /\ stats' = RecordRejected
  <2>1. Cardinality(Active') = Cardinality(Active) /\ Cardinality(Ended') = Cardinality(Ended) + 1
        /\ Cardinality(Ended) \in Nat
    BY <1>9, SetMoves
  <2>2. /\ stats'.active = stats.active /\ stats'.total = stats.total + 1
        /\ stats'.success = stats.success /\ stats'.failed = stats.failed + 1
    BY <1>0, <1>9, Recording
  <2> QED
    BY <1>0, <1>1, <1>2, <2>1, <2>2
<1> QED
  BY <1>4, <1>5, <1>6, <1>7, <1>8, <1>9 DEF StepShape

\* A submission changes no handler; one that fails is counted.
LEMMA StoredCounts ==
    ASSUME TypeOK, SlotsInv, StatsExact, NEW r \in Requests, Stored(r)
    PROVE  SlotsInv' /\ StatsExact'
<1>0. /\ UNCHANGED <<task, slots>> /\ stats \in Figures
      /\ stats.active \in Nat /\ stats.total \in Nat /\ stats.success \in Nat /\ stats.failed \in Nat
  BY StoredType DEF TypeOK, Figures
<1>1. SlotsInv'
  BY <1>0 DEF SlotsInv, SlotsExact, TakenSlots, Held, Holding, Reached
<1>2. /\ stats.active = Cardinality(Active) /\ stats.total = Cardinality(Ended) + Cardinality(Failed)
      /\ stats.total = stats.success + stats.failed
  BY DEF StatsExact, Active, Ended, Failed
<1>3. Active' = Active /\ Ended' = Ended
  BY <1>0 DEF Active, Ended, Reached
<1>4. Cardinality(Ended) \in Nat
  <2>1. IsFiniteSet(Ended)
    BY TasksFinite, FS_Subset DEF Ended
  <2> QED
    BY <2>1, FS_CardinalityType
<1>5. SUFFICES /\ stats'.active = Cardinality(Active) /\ stats'.total = Cardinality(Ended) + Cardinality(Failed')
               /\ stats'.total = stats'.success + stats'.failed
  BY <1>1, <1>3 DEF StatsExact, Active, Ended, Failed
<1>6. /\ Failed \in SUBSET Requests /\ Failed' \in SUBSET Requests /\ Failed \ {r} = Failed' \ {r}
      /\ r \in Failed' <=> request'[r].state = "failed"
      /\ r \in Failed <=> request[r].state = "failed"
  BY DEF Failed, TypeOK, Stored, StageUpload, PushUpload, SubmitDropped, PushLink, PushKey, Push, StageFails, Abandon
<1> DEFINE F == Failed    F2 == Failed'
<1>7. /\ Cardinality(F) \in Nat /\ Cardinality(F2) \in Nat
      /\ (r \in F <=> r \in F2) => Cardinality(F2) = Cardinality(F)
      /\ r \notin F /\ r \in F2 => Cardinality(F2) = Cardinality(F) + 1
  <2> HIDE DEF F, F2
  <2> QED
    BY <1>6, TasksFinite, CountChange DEF F, F2
<1>8. CASE StageFails(r)
  <2>1. request[r].state # "failed" /\ request'[r].state = "failed" /\ stats' = RecordRejected
    BY <1>8 DEF StageFails, TypeOK
  <2> QED
    BY <1>0, <1>2, <1>4, <1>6, <1>7, <2>1, Recording
<1>9. CASE ~StageFails(r)
  <2>1. UNCHANGED stats /\ (request'[r].state = "failed" <=> request[r].state = "failed")
    BY <1>9 DEF TypeOK, Stored, StageUpload, PushUpload, SubmitDropped, PushLink, PushKey, Push, Abandon
  <2> QED
    BY <1>2, <1>6, <1>7, <2>1
<1> QED
  BY <1>8, <1>9

-----------------------------------------------------------------------------
(* Stored requests and their archives                                         *)
ClaimsInv == StoredInv /\ ClaimedOnce /\ UploadHasOwner

\* As long as nobody's claim and no stored request changes, nothing is lost.
LEMMA ClaimsStay ==
    ASSUME ClaimsInv, UNCHANGED <<request, queued, file, timer>>,
           \A u \in Tasks, r \in Requests : Claims(u, r)' <=> Claims(u, r),
           \A u \in Tasks : task'[u].kind = "sync" => task'[u].id = NoRequest
    PROVE  ClaimsInv'
BY DEF ClaimsInv, StoredInv, ClaimedOnce, UploadHasOwner

LEMMA ClaimsHandler ==
    ASSUME TypeOK, ClaimsInv, NEW t \in Tasks, Arrive(t) \/ Proceed(t) \/ Disconnect(t)
    PROVE  ClaimsInv'
<1>0. task \in [Tasks -> TaskRecords] /\ file \in [Requests -> {"none", "partial", "staged", "removed"}]
      /\ NoRequest \notin Requests /\ \A u \in Tasks : task[u].kind = "sync" => task[u].id = NoRequest
  BY UserAssumption DEF TypeOK, TaskRecords, ClaimsInv, StoredInv
<1>1. ASSUME \A u \in Tasks : u # t => task'[u] = task[u],
             \A r \in Requests : Claims(t, r)' <=> Claims(t, r),
             task'[t].kind = "sync" => task'[t].id = NoRequest,
             UNCHANGED <<request, queued, file, timer>>
      PROVE  ClaimsInv'
  BY <1>0, <1>1, ClaimsStay DEF Claims
<1>2. CASE Arrive(t)
  <2>1. PICK kind \in Kinds, r \in Requests \union {NoRequest}, pc \in {"pop", "quiet", "validate", "reject", "admit"} :
           Begin(t, kind, r, pc) /\ (r # NoRequest => kind = "spawned" /\ pc = "pop")
    BY <1>2, ArriveBegins
  <2>2. /\ task[t].pc = "idle" /\ task'[t] = At(pc, kind, r) /\ \A u \in Tasks : u # t => task'[u] = task[u]
        /\ UNCHANGED <<request, queued, file, timer>>
    BY <1>0, <2>1 DEF Begin
  <2>3. \A q \in Requests : ~Claims(t, q) /\ ~Claims(t, q)'
    BY <1>0, <2>1, <2>2 DEF Claims, At
  <2>4. task'[t].kind = "sync" => task'[t].id = NoRequest
    BY <2>1, <2>2 DEF At
  <2> QED
    BY <1>1, <2>2, <2>3, <2>4
<1>3. CASE Disconnect(t)
  <2>1. /\ task[t].kind = "sync" /\ task'[t].kind = task[t].kind /\ task'[t].id = task[t].id
        /\ \A u \in Tasks : u # t => task'[u] = task[u]
        /\ UNCHANGED <<request, queued, file, timer>>
    BY <1>0, <1>3 DEF Disconnect, TaskRecords
  <2>2. \A q \in Requests : ~Claims(t, q) /\ ~Claims(t, q)'
    BY <1>0, <2>1 DEF Claims
  <2> QED
    BY <1>0, <1>1, <2>1, <2>2
<1>4. CASE Pop(t)
  <2> DEFINE r == task[t].id
  <2>1. /\ task[t].pc = "pop" /\ r \in queued /\ User[r] = User[t] /\ queued' = queued \ {r}
        /\ task'[t].pc = "validate" /\ task'[t].id = r /\ task'[t].kind = task[t].kind
        /\ \A u \in Tasks : u # t => task'[u] = task[u]
        /\ UNCHANGED <<request, file, timer>>
    BY <1>0, <1>4 DEF Pop, Mine, GoTo, TaskRecords
  <2>2. r \in Requests /\ \A u \in Tasks : ~Claims(u, r)
    BY <2>1 DEF ClaimsInv, ClaimedOnce, TypeOK
  <2> HIDE DEF r
  <2>3. \A u \in Tasks, q \in Requests : Claims(u, q)' <=> Claims(u, q) \/ (u = t /\ q = r)
    BY <1>0, <2>1 DEF Claims, r
  <2>4. StoredInv'
    BY <1>0, <2>1, <2>2, <2>3 DEF ClaimsInv, StoredInv, r
  <2>5. ClaimedOnce'
    BY <2>1, <2>2, <2>3 DEF ClaimsInv, StoredInv, ClaimedOnce
  <2>6. UploadHasOwner'
    BY <2>1, <2>2, <2>3 DEF ClaimsInv, UploadHasOwner
  <2> QED
    BY <2>4, <2>5, <2>6 DEF ClaimsInv
<1>5. CASE PopMisses(t)
  <2>1. /\ task[t].pc = "pop" /\ task'[t].id = NoRequest
        /\ \A u \in Tasks : u # t => task'[u] = task[u]
        /\ UNCHANGED <<request, queued, file, timer>>
    BY <1>0, <1>5 DEF PopMisses, TaskRecords
  <2>2. \A q \in Requests : ~Claims(t, q) /\ ~Claims(t, q)'
    BY <1>0, <2>1 DEF Claims
  <2> QED
    BY <1>1, <2>1, <2>2
<1>6. CASE CleanupInput(t)
  <2> DEFINE r == task[t].id
  <2>1. /\ task[t].pc = "cleanup" /\ task'[t] = At("done", "spawned", NoRequest) /\ file' = Cleanup(r)
        /\ \A u \in Tasks : u # t => task'[u] = task[u]
        /\ UNCHANGED <<request, queued, timer>>
    BY <1>0, <1>6 DEF CleanupInput, Return
  <2>2. r \in Requests => Claims(t, r)
    BY <2>1 DEF Claims
  <2>3. \A q \in Requests : Claims(t, q) => q = r
    BY DEF Claims
  <2> HIDE DEF r
  <2>4. \A q \in Requests : ~Claims(t, q)'
    BY <1>0, <2>1 DEF Claims, At
  <2>5. \A u \in Tasks, q \in Requests : Claims(u, q)' <=> Claims(u, q) /\ u # t
    BY <1>0, <2>1, <2>4 DEF Claims
  <2>6. \A q \in Requests : file'[q] = IF q = r /\ request[r].upload THEN "removed" ELSE file[q]
    BY <1>0, <2>1 DEF Cleanup
  <2>7. \A u \in Tasks : u # t /\ r \in Requests => ~Claims(u, r)
    BY <2>2 DEF ClaimsInv, ClaimedOnce
  <2>8. StoredInv'
    <3>1. \A u \in Tasks : task'[u].kind = "sync" => task'[u].id = NoRequest
      BY <1>0, <2>1 DEF At
    <3>2. r \in Requests => r \notin queued
      BY <2>2 DEF ClaimsInv, ClaimedOnce
    <3>3. queued \subseteq Requests
      BY DEF TypeOK
    <3> QED
      BY <2>1, <2>5, <2>6, <3>1, <3>2, <3>3 DEF ClaimsInv, StoredInv
  <2>9. ClaimedOnce'
    BY <2>1, <2>5, <2>6, <2>7 DEF ClaimsInv, ClaimedOnce
  <2>10. UploadHasOwner'
    <3> SUFFICES ASSUME NEW q \in Requests, file'[q] = "staged"
                 PROVE  q \in queued' \intersect timer' \/ \E u \in Tasks : Claims(u, q)'
      BY DEF UploadHasOwner
    <3>1. file[q] = "staged" /\ request[q].upload /\ ~(q = r)
      BY <2>6 DEF ClaimsInv, StoredInv
    <3>2. q \in queued \intersect timer \/ \E u \in Tasks : Claims(u, q)
      BY <3>1 DEF ClaimsInv, UploadHasOwner
    <3> QED
      BY <2>1, <2>3, <2>5, <3>1, <3>2
  <2> QED
    BY <2>8, <2>9, <2>10 DEF ClaimsInv
<1>7. CASE Proceed(t) /\ ~Pop(t) /\ ~PopMisses(t) /\ ~CleanupInput(t)
  <2> DEFINE inner == {"validate", "admit", "count", "running", "settled", "reject", "cleanup"}
  <2>1. /\ \E pc \in inner : GoTo(t, pc)
        /\ task[t].pc \in inner
        /\ UNCHANGED <<request, queued, file, timer>>
    BY <1>7 DEF Proceed, Validate, AtCap, Admit, Count, FinishReport, FinishBundle, FinishError, FinishSync, Finish,
                Release, Reject
  <2>2. /\ task'[t].pc \in inner /\ task'[t].id = task[t].id /\ task'[t].kind = task[t].kind
        /\ \A u \in Tasks : u # t => task'[u] = task[u]
    BY <1>0, <2>1 DEF GoTo, TaskRecords
  <2>3. \A q \in Requests : Claims(t, q)' <=> Claims(t, q)
    BY <2>1, <2>2 DEF Claims
  <2> QED
    BY <1>0, <1>1, <2>1, <2>2, <2>3
<1> QED
  BY <1>2, <1>3, <1>4, <1>5, <1>6, <1>7

LEMMA ClaimsStored ==
    ASSUME TypeOK, ClaimsInv, NEW r \in Requests, Stored(r)
    PROVE  ClaimsInv'
<1>0. /\ request \in [Requests -> RequestRecords] /\ UNCHANGED task
      /\ file \in [Requests -> {"none", "partial", "staged", "removed"}]
      /\ queued \subseteq Requests /\ timer \subseteq Requests
      /\ \A q \in Requests : q # r => request'[q] = request[q] /\ file'[q] = file[q]
                                      /\ (q \in queued' <=> q \in queued) /\ (q \in timer' <=> q \in timer)
  <2>1. /\ request \in [Requests -> RequestRecords] /\ UNCHANGED task
        /\ file \in [Requests -> {"none", "partial", "staged", "removed"}]
        /\ queued \subseteq Requests /\ timer \subseteq Requests
    BY StoredType DEF TypeOK, RequestRecords
  <2>2. \A q \in Requests : q # r => request'[q] = request[q]
    BY <2>1 DEF Stored, StageUpload, PushUpload, SubmitDropped, PushLink, PushKey, Push, StageFails, Abandon
  <2>3. \A q \in Requests : q # r => file'[q] = file[q]
    BY <2>1 DEF Stored, StageUpload, PushUpload, SubmitDropped, PushLink, PushKey, Push, StageFails, Abandon, Cleanup
  <2>4. \A q \in Requests : q # r => (q \in queued' <=> q \in queued) /\ (q \in timer' <=> q \in timer)
    BY <2>1 DEF Stored, StageUpload, PushUpload, SubmitDropped, PushLink, PushKey, Push, StageFails, Abandon
  <2> QED
    BY <2>1, <2>2, <2>3, <2>4
<1>1. queued' \subseteq Requests /\ timer' \subseteq Requests
  BY StoredType DEF TypeOK
<1>2. \A u \in Tasks, q \in Requests : Claims(u, q)' <=> Claims(u, q)
  BY <1>0 DEF Claims
<1>3. ASSUME request[r].state # "stored"
      PROVE  file[r] # "staged" /\ r \notin queued /\ r \notin timer /\ \A u \in Tasks : ~Claims(u, r)
  <2>1. ~(request[r] = [upload |-> TRUE, state |-> "stored"])
    BY <1>3
  <2> QED
    BY <1>3, <2>1 DEF ClaimsInv, StoredInv
<1>4. SUFFICES /\ r \in queued' \union timer' => request'[r].state = "stored"
               /\ request'[r].state = "staging" => request'[r].upload
               /\ file'[r] = "staged" => request'[r] = [upload |-> TRUE, state |-> "stored"]
               /\ r \in queued' /\ request'[r].upload => file'[r] = "staged" /\ r \in timer'
               /\ \A u \in Tasks : Claims(u, r) =>
                     /\ request'[r].state = "stored" /\ r \notin queued'
                     /\ request'[r].upload => file'[r] = "staged"
               /\ file'[r] = "staged" => r \in queued' \intersect timer' \/ \E u \in Tasks : Claims(u, r)
  <2>1. StoredInv'
    <3>1. \A q \in queued' \union timer' : request'[q].state = "stored"
      BY <1>0, <1>1, <1>4 DEF ClaimsInv, StoredInv
    <3>2. \A q \in Requests : request'[q].state = "staging" => request'[q].upload
      BY <1>0, <1>4 DEF ClaimsInv, StoredInv
    <3>3. \A q \in Requests : file'[q] = "staged" => request'[q] = [upload |-> TRUE, state |-> "stored"]
      BY <1>0, <1>4 DEF ClaimsInv, StoredInv
    <3>4. \A q \in queued' : request'[q].upload => file'[q] = "staged" /\ q \in timer'
      BY <1>0, <1>1, <1>4 DEF ClaimsInv, StoredInv
    <3>5. \A u \in Tasks, q \in Requests : Claims(u, q)' => request'[q].state = "stored"
      BY <1>0, <1>2, <1>4 DEF ClaimsInv, StoredInv
    <3> QED
      BY <1>0, <3>1, <3>2, <3>3, <3>4, <3>5 DEF ClaimsInv, StoredInv
  <2>2. ClaimedOnce'
    BY <1>0, <1>1, <1>2, <1>4 DEF ClaimsInv, ClaimedOnce
  <2>3. UploadHasOwner'
    BY <1>0, <1>1, <1>2, <1>4 DEF ClaimsInv, UploadHasOwner
  <2> QED
    BY <2>1, <2>2, <2>3 DEF ClaimsInv
<1>5. CASE StageUpload(r) \/ StageFails(r) \/ SubmitDropped(r)
  <2>1. /\ request[r].state # "stored" /\ file'[r] # "staged" /\ UNCHANGED <<queued, timer>>
        /\ request'[r].state = "staging" => request'[r].upload
    BY <1>0, <1>3, <1>5 DEF StageUpload, StageFails, SubmitDropped, RequestRecords
  <2> QED
    BY <2>1, <1>3
<1>6. CASE PushUpload(r)
  <2>1. /\ request[r].state = "staging" /\ file'[r] = "staged" /\ r \in queued' /\ r \in timer'
        /\ request'[r] = [request[r] EXCEPT !.state = "stored"]
    BY <1>0, <1>6 DEF PushUpload
  <2>2. request'[r] = [upload |-> TRUE, state |-> "stored"]
    <3>1. request[r].upload = TRUE
      BY <1>0, <2>1 DEF ClaimsInv, StoredInv, RequestRecords
    <3>2. request'[r].upload = TRUE /\ request'[r].state = "stored" /\ request'[r] \in RequestRecords
      BY <1>0, <2>1, <3>1 DEF RequestRecords
    <3>3. \A f \in RequestRecords : f = [upload |-> f.upload, state |-> f.state]
      BY DEF RequestRecords
    <3> QED
      BY <3>2, <3>3
  <2> QED
    BY <2>1, <2>2, <1>3
<1>7. CASE PushLink(r) \/ PushKey(r)
  <2>1. /\ request[r].state = "unused" /\ UNCHANGED <<file, timer>> /\ queued' = queued \union {r}
        /\ request'[r] = [upload |-> FALSE, state |-> "stored"]
    BY <1>0, <1>7 DEF PushLink, PushKey, Push
  <2> QED
    BY <2>1, <1>3
<1>8. CASE Abandon(r)
  <2>1. /\ UNCHANGED request /\ r \notin queued' /\ r \notin timer'
        /\ file'[r] = IF r \in queued /\ request[r].upload THEN "removed" ELSE file[r]
    BY <1>0, <1>8 DEF Abandon, Cleanup
  <2> QED
    BY <2>1 DEF ClaimsInv, StoredInv, ClaimedOnce, UploadHasOwner
<1> QED
  BY <1>5, <1>6, <1>7, <1>8 DEF Stored

-----------------------------------------------------------------------------
(* The invariant                                                              *)
LEMMA Inductive == IndInv /\ [Next]_vars => IndInv'
<1> SUFFICES ASSUME IndInv, [Next]_vars PROVE IndInv'
  OBVIOUS
<1>0. TypeOK /\ SlotsInv /\ StatsExact /\ ClaimsInv /\ TypeOK'
  BY TypeInductive DEF IndInv, ClaimsInv, RequestClaimed
<1>1. SUFFICES SlotsInv' /\ StatsExact' /\ ClaimsInv'
  BY <1>0 DEF IndInv, ClaimsInv, RequestClaimed
<1>2. ASSUME NEW r \in Requests, Stored(r) PROVE SlotsInv' /\ StatsExact' /\ ClaimsInv'
  BY <1>0, <1>2, StoredCounts, ClaimsStored
<1>3. ASSUME NEW t \in Tasks, Arrive(t) \/ Proceed(t) \/ Disconnect(t)
      PROVE  SlotsInv' /\ StatsExact' /\ ClaimsInv'
  <2>1. StepShape(t) /\ UNCHANGED request
    BY <1>0, <1>3, HandlerShape
  <2> QED
    BY <1>0, <1>3, <2>1, SlotsStep, StatsStep, ClaimsHandler
<1>4. CASE UNCHANGED vars
  <2>1. SlotsInv'
    BY <1>0, <1>4 DEF vars, SlotsInv, SlotsExact, TakenSlots, Held, Holding, Reached
  <2>2. StatsExact'
    BY <1>0, <1>4 DEF vars, StatsExact, Reached
  <2>3. ClaimsInv'
    BY <1>0, <1>4 DEF vars, ClaimsInv, StoredInv, ClaimedOnce, UploadHasOwner, Claims
  <2> QED
    BY <2>1, <2>2, <2>3
<1> QED
  BY <1>2, <1>3, <1>4 DEF Next

LEMMA Initially == Init => IndInv
<1> SUFFICES ASSUME Init PROVE IndInv
  OBVIOUS
<1>0. \A t \in Tasks : task[t] = [pc |-> "idle", kind |-> "spawned", id |-> NoRequest, at |-> "idle"]
  BY DEF Init, At
<1>1. TypeOK
  BY DEF Init, TypeOK, At, Points, Kinds
<1>2. {t \in Tasks : Holding(t)} = {} /\ Active = {} /\ Ended = {} /\ Failed = {}
  BY <1>0 DEF Init, Holding, Reached, Active, Ended, Failed
<1>3. SlotsInv
  <2>1. TakenSlots = {}
    <3>1. \A p : p \notin Taken(slots)
      <4>1. slots \in [Owners -> Nat]
        BY <1>1 DEF TypeOK
      <4> QED
        BY <4>1, TakenIs DEF Init
    <3> QED
      BY <3>1 DEF Taken, TakenSlots
  <2>2. \A o \in Owners : HeldBy(o) = {}
    BY <1>2 DEF HeldBy
  <2>3. /\ \A o \in Owners : slots[o] = 0 /\ Cardinality(HeldBy(o)) = 0
        /\ Cardinality(TakenSlots) = 0 /\ Cardinality(Held) = 0
    BY <1>2, <2>1, <2>2, FS_EmptySet DEF Init, Held
  <2>4. SlotsExact
    <3>1. \A o \in Owners : slots[o] = Cardinality(HeldBy(o))
      BY <2>3
    <3> QED
      BY <3>1 DEF SlotsExact, HeldBy
  <2>5. GlobalCap \in Nat /\ OwnerCap \in Nat
    BY CapsAssumption
  <2> QED
    BY <2>3, <2>4, <2>5 DEF SlotsInv
<1>4. StatsExact
  <2>1. Cardinality(Active) = 0 /\ Cardinality(Ended) = 0 /\ Cardinality(Failed) = 0
    BY <1>2, FS_EmptySet
  <2>2. stats.active = 0 /\ stats.total = 0 /\ stats.success = 0 /\ stats.failed = 0
    BY DEF Init
  <2> QED
    BY <2>1, <2>2 DEF StatsExact, Active, Ended, Failed
<1>5. StoredInv /\ RequestClaimed
  BY <1>0, UserAssumption DEF Init, StoredInv, RequestClaimed, ClaimedOnce, UploadHasOwner, Claims
<1> QED
  BY <1>1, <1>3, <1>4, <1>5 DEF IndInv

\* Nobody executes above a cap: an executing handler holds a slot, and the
\* slots stay within the caps at the only place that takes one.
LEMMA CapsFollow == IndInv => CapsRespected
<1> SUFFICES ASSUME IndInv PROVE CapsRespected
  OBVIOUS
<1>1. \A t \in Tasks : Executing(t) => Holding(t)
  BY DEF Executing, Holding, Reached
<1>2. Cardinality({t \in Tasks : Executing(t)}) <= GlobalCap
  <2> DEFINE running == {t \in Tasks : Executing(t)}
  <2>1. running \in SUBSET Held /\ IsFiniteSet(Held)
    BY <1>1, TasksFinite, FS_Subset DEF Held
  <2>2. IsFiniteSet(running) /\ Cardinality(running) <= Cardinality(Held)
    <3> HIDE DEF running
    <3> QED
      BY <2>1, FS_Subset
  <2>3. Cardinality(running) \in Nat /\ Cardinality(Held) \in Nat /\ Cardinality(Held) <= GlobalCap
    BY <2>1, <2>2, FS_CardinalityType DEF IndInv, SlotsInv
  <2> QED
    BY <2>2, <2>3, CapsAssumption
<1>3. ASSUME NEW o \in Owners
      PROVE  Cardinality({t \in Tasks : User[t] = o /\ Executing(t)}) <= OwnerCap
  <2> DEFINE running == {t \in Tasks : User[t] = o /\ Executing(t)}
  <2>1. running \in SUBSET HeldBy(o) /\ IsFiniteSet(HeldBy(o))
    BY <1>1, TasksFinite, FS_Subset DEF HeldBy
  <2>2. IsFiniteSet(running) /\ Cardinality(running) <= Cardinality(HeldBy(o))
    <3> HIDE DEF running
    <3> QED
      BY <2>1, FS_Subset
  <2>3. /\ Cardinality(running) \in Nat /\ Cardinality(HeldBy(o)) \in Nat
        /\ Cardinality(HeldBy(o)) = slots[o] /\ slots[o] <= OwnerCap
    BY <2>1, <2>2, FS_CardinalityType DEF IndInv, SlotsInv, SlotsExact, HeldBy
  <2> QED
    BY <2>2, <2>3, CapsAssumption
<1> QED
  BY <1>2, <1>3 DEF CapsRespected

\* For any number of handlers, owners and stored requests and for any caps,
\* whichever locks interleave and whoever disconnects: the slots and figures
\* count the handlers, no cap is exceeded, a stored request runs at most once
\* and as its owner, and a staged archive always belongs to somebody.
THEOREM JobsSound == Spec => []WebJobsSound
<1>1. IndInv => WebJobsSound
  BY CapsFollow DEF IndInv, SlotsInv, WebJobsSound, CapsEnforced
<1> QED
  BY <1>1, Initially, Inductive, PTL DEF Spec

-----------------------------------------------------------------------------
(* A session                                                                  *)

\* What the variables of a session hold.
Events == [kind : {"stats"}, owner : Users, about : Nat]
          \cup [kind : {"ready", "error"}, owner : Users, about : Runs]
          \cup [kind : {"keystore"}, owner : Users, about : BOOLEAN]
TabStates == [stream : {"off", "opening", "on"}, copy : Nat, unread : 0..Ring, missed : BOOLEAN, gap : BOOLEAN,
              shown : Nat, pending : Runs \cup {None},
              answer : {"none", "missing", "forbidden", "failed", "expired", "early", "file"}]
Gets == {NoGet} \cup [at : {"read", "open", "touch"}, token : Runs]
Results == [bundle : BOOLEAN, report : BOOLEAN, failed : BOOLEAN]
JobStates == [pc : {"new", "form", "validate", "start", "run", "publish", "settle", "fail", "done", "quiet"},
              form : PageForms \cup {NoForm}, out : Results \cup {"none"}, card : {"none", "working", "ended"}]

\* Every page can find what it has yet to read in the ring.
BusInv ==
  /\ mode \in {"user", "service"} /\ counters \in Nat /\ dirty \in BOOLEAN /\ down \in BOOLEAN
  /\ ring \in Seq(Events) /\ tab \in [Tabs -> TabStates]
  /\ \A t \in Tabs : tab[t].unread <= Len(ring)

TableInv ==
  /\ entry \in [Runs -> Entries \cup {None}]
  /\ disk \subseteq Runs /\ expired \subseteq Runs /\ doomed \subseteq Runs
  /\ timers \subseteq Runs \X (0..KeepTime)
  /\ get \in [Tabs -> Gets]

\* Only a job that has published has anything on disk.
Published(j) == job[j].pc \in {"settle", "fail", "done"}
DiskInv == BundlesKept /\ \A j \in Runs : Offered(j) \/ j \in disk \/ j \in doomed => Published(j)

LockInv ==
  /\ store \in BOOLEAN /\ lease \in Nat /\ late \in Nat
  /\ limit \in [failed : Nat, block : Nat, seen : BOOLEAN]
  /\ unlock \in [Unlockers -> {"idle", "try"}]
  /\ TriesLimited

\* A form is known while its job is under way, an outcome until it is told.
JobsInv ==
  /\ cast \in Scenarios /\ secured \in BOOLEAN
  /\ job \in [Runs -> JobStates]
  /\ \A j \in Runs : job[j].pc # "new" => job[j].form \in PageForms
  /\ \A j \in Runs : job[j].pc \in {"publish", "settle"} => job[j].out \in Outcomes(job[j].form)
  /\ CardsEnd

SessionInv == BusInv /\ TableInv /\ DiskInv /\ LockInv /\ JobsInv

-----------------------------------------------------------------------------
(* The ring                                                                   *)

\* A finite set of numbers has a greatest one.
LEMMA Greatest ==
    ASSUME NEW T \in SUBSET Nat, T # {}, IsFiniteSet(T)
    PROVE  \E m \in T : \A n \in T : n <= m
<1> DEFINE above(s) == {x \in T : x > s}
           family == {above(s) : s \in T}
<1>1. IsWellFoundedOn(StrictSubsetOrdering(T), FiniteSubsetsOf(T))
  BY FS_StrictSubsetOrderingWellFounded
<1>2. family \subseteq FiniteSubsetsOf(T) /\ family # {}
  <2>1. ASSUME NEW s \in T PROVE above(s) \in FiniteSubsetsOf(T)
    <3>1. above(s) \in SUBSET T
      OBVIOUS
    <3>2. IsFiniteSet(above(s))
      BY <3>1, FS_Subset
    <3> QED BY <3>1, <3>2 DEF FiniteSubsetsOf
  <2> QED BY <2>1
<1>3. PICK U \in family : \A V \in family : <<V, U>> \notin StrictSubsetOrdering(T)
  <2> HIDE DEF family
  <2> QED BY <1>1, <1>2, WFMin
<1>4. PICK s \in T : U = above(s)
  BY <1>3
<1>5. ASSUME NEW y \in T, ~(y <= s) PROVE FALSE
  <2>1. y \in above(s) /\ y \notin above(y) /\ above(y) \subseteq above(s)
    <3>1. y \in Nat /\ s \in Nat /\ y > s
      BY <1>5
    <3>2. \A x \in T : x > y => x > s
      BY <3>1
    <3>3. y \in above(s)
      BY <1>5, <3>1
    <3>4. y \notin above(y)
      BY <3>1
    <3> QED BY <3>2, <3>3, <3>4
  <2>2. <<above(y), U>> \in StrictSubsetOrdering(T)
    BY <2>1, <1>4 DEF StrictSubsetOrdering
  <2> QED BY <2>2, <1>3
<1> QED BY <1>5

\* The ring keeps what some page has yet to read.
LEMMA UnreadKept ==
    ASSUME NEW s \in Seq(Events), NEW x,
           \A t \in Tabs : x[t].unread \in 0..Ring /\ x[t].unread <= Len(s)
    PROVE  Unread(s, x) \in Seq(Events) /\ \A t \in Tabs : x[t].unread <= Len(Unread(s, x))
<1> DEFINE sizes == {0} \cup {x[t].unread : t \in Tabs}
           n == CHOOSE m \in sizes : \A t \in Tabs : x[t].unread <= m
<1>1. sizes \in SUBSET Nat /\ sizes # {} /\ \A m \in sizes : m <= Ring /\ m <= Len(s)
  BY RingAssumption
<1>2. IsFiniteSet(sizes)
  <2> HIDE DEF sizes
  <2> QED BY <1>1, RingAssumption, FS_BoundedSetOfNaturals
<1>3. \E m \in sizes : \A t \in Tabs : x[t].unread <= m
  <2>1. PICK m \in sizes : \A k \in sizes : k <= m
    <3> HIDE DEF sizes
    <3> QED BY <1>1, <1>2, Greatest
  <2> QED BY <2>1
<1>4. n \in sizes /\ \A t \in Tabs : x[t].unread <= n
  <2> HIDE DEF sizes
  <2> QED BY <1>3
<1>5. Unread(s, x) = Last(s, n)
  BY DEF Unread
<1>6. n \in Nat /\ n <= Len(s)
  BY <1>4, <1>1
<1> HIDE DEF n
<1>7. Last(s, n) \in Seq(Events) /\ Len(Last(s, n)) = n
  <2>1. CASE Len(s) <= n
    BY <2>1, <1>6 DEF Last
  <2>2. CASE ~(Len(s) <= n)
    BY <2>2, <1>6 DEF Last
  <2> QED BY <2>1, <2>2
<1> QED BY <1>4, <1>5, <1>6, <1>7

\* An event reaches the pages that listen, and nothing else changes in them.
LEMMA EmitKeeps ==
    ASSUME BusInv, NEW e \in Events, Emit(<<e>>)
    PROVE  /\ ring' \in Seq(Events) /\ tab' \in [Tabs -> TabStates]
           /\ \A t \in Tabs : tab'[t].unread <= Len(ring')
<1> DEFINE heard(t) == [tab[t] EXCEPT !.unread = Capped(@ + Len(<<e>>)),
                                      !.missed = @ \/ tab[t].unread + Len(<<e>>) > Ring]
           s == ring \o <<e>>
<1>0. \A k \in Nat : Capped(k) \in 0..Ring /\ Capped(k) <= k
  BY RingAssumption DEF Capped
<1>1. s \in Seq(Events) /\ Len(s) = Len(ring) + 1
  BY DEF BusInv
<1>2. \A t \in Tabs : tab[t] \in TabStates /\ tab[t].unread \in Nat /\ Len(<<e>>) = 1
  BY RingAssumption DEF BusInv, TabStates
<1>3. ASSUME NEW t \in Tabs
      PROVE  heard(t) \in TabStates /\ heard(t).unread <= tab[t].unread + 1
  <2>1. Capped(tab[t].unread + 1) \in 0..Ring /\ Capped(tab[t].unread + 1) <= tab[t].unread + 1
    BY <1>0, <1>2
  <2> QED BY <2>1, <1>2 DEF TabStates
<1>4. tab' = [t \in Tabs |-> IF tab[t].stream # "on" THEN tab[t] ELSE heard(t)] /\ ring' = Unread(s, tab')
  BY DEF Emit
<1> HIDE DEF heard
<1>5. tab' \in [Tabs -> TabStates]
  BY <1>2, <1>3, <1>4
<1>6. ASSUME NEW t \in Tabs
      PROVE  tab'[t].unread \in 0..Ring /\ tab'[t].unread <= Len(s)
  <2>1. tab[t].unread <= Len(ring) /\ Len(ring) \in Nat
    BY DEF BusInv
  <2>2. tab'[t] = tab[t] \/ tab'[t] = heard(t)
    BY <1>4
  <2>3. tab'[t].unread \in 0..Ring
    BY <1>5 DEF TabStates
  <2> QED BY <2>1, <2>2, <2>3, <1>1, <1>2, <1>3
<1> HIDE DEF s
<1> QED BY <1>1, <1>4, <1>5, <1>6, UnreadKept

-----------------------------------------------------------------------------
(* What a job's step does to the rest                                         *)

\* A job's step tells the pages at most one event about its token.
LEMMA WorkTells ==
    ASSUME NEW j \in Runs, Work(j)
    PROVE  /\ UNCHANGED <<mode, down, cast, secured, unlockVars, get>>
           /\ UNCHANGED <<ring, tab>> \/ \E kind \in {"ready", "error"} : Tell(j, kind)
           /\ UNCHANGED <<counters, dirty>> \/ CountStep
BY DEF Work, RefuseForm, RefuseLink, RefuseUpload, TakeForm, ValidateJob, RejectRequest, Start, RefuseStart, Execute,
       PrepareFails, Publish, CopyFails, Settle, SettleFails, Fail, Rest, Quiet, CountStep, Accept, Insert, RejectBundle,
       bundleVars

\* What it does to the table of downloads.
Untouched == UNCHANGED <<entry, disk, timers, expired, doomed>>
Accepts(j) == job[j].pc = "validate" /\ Accept(j, JobOwner(j)) /\ job'[j].pc = "start"
Rejects(j) ==
  /\ ~Offered(j) /\ \E ttl \in {AfterTime, KeepTime} : RejectBundle(j, JobOwner(j), ttl)
  /\ UNCHANGED <<disk, timers, expired, doomed>>
Publishes(j) ==
  /\ job[j].pc = "publish" /\ job'[j].pc = "settle"
  /\ disk' = disk \cup {j} /\ Insert(j, JobOwner(j)) /\ UNCHANGED <<expired, doomed>>

LEMMA WorkStores ==
    ASSUME NEW j \in Runs, Work(j), DiskInv, JobsInv
    PROVE  Untouched \/ Accepts(j) \/ Rejects(j) \/ Publishes(j)
<1> USE DEF Untouched, Rejects, Rest, Quiet, bundleVars
<1>0. ~Published(j) => ~Offered(j)
  BY DEF DiskInv
<1>1. CASE RefuseForm(j)
  BY <1>0, <1>1 DEF RefuseForm, Published
<1>2. CASE RefuseLink(j)
  BY <1>0, <1>2 DEF RefuseLink, Published
<1>3. CASE ValidateJob(j)
  BY <1>3 DEF ValidateJob, Accepts, To, JobsInv, JobStates
<1>4. CASE RejectRequest(j)
  BY <1>0, <1>4 DEF RejectRequest, Published
<1>5. CASE Publish(j)
  BY <1>5 DEF Publish, Publishes, JobsInv, JobStates
<1>6. CASE Fail(j)
  BY <1>6 DEF Fail, HasBundle
<1>7. CASE \/ RefuseUpload(j) \/ TakeForm(j) \/ Start(j) \/ RefuseStart(j) \/ Execute(j) \/ PrepareFails(j)
           \/ CopyFails(j) \/ Settle(j) \/ SettleFails(j)
  BY <1>7 DEF RefuseUpload, TakeForm, Start, RefuseStart, Execute, PrepareFails, CopyFails, Settle, SettleFails
<1> QED BY <1>1, <1>2, <1>3, <1>4, <1>5, <1>6, <1>7 DEF Work

\* What it does to the job: one step along its points.
LEMMA WorkMoves ==
    ASSUME NEW j \in Runs, Work(j), JobsInv
    PROVE  \E r \in JobStates :
             /\ job' = [job EXCEPT ![j] = r]
             /\ r.form = job[j].form /\ job[j].pc # "new" /\ r.pc # "new"
             /\ Published(j) => r.pc \in {"settle", "fail", "done"}
             /\ r.pc \in {"publish", "settle"} => r.out \in Outcomes(r.form)
             /\ r.pc \in {"done", "quiet"} /\ r.card = "working" =>
                  ~Retains(r.form) /\ ~RawSend(r.form) /\ r.form.process = "forward"
<1> DEFINE f == job[j].form
           out(o) == [job[j] EXCEPT !.pc = "publish", !.out = o]
           point(p) == [job[j] EXCEPT !.pc = p]
           point2(p, c) == [job[j] EXCEPT !.pc = p, !.card = c]
<1> USE DEF Published
<1>1. job \in [Runs -> JobStates] /\ job[j] \in JobStates
  BY DEF JobsInv
<1>2. \A c \in {"none", "working", "ended"} :
        \A p \in {"form", "validate", "start", "run", "settle", "fail", "done", "quiet"} :
          /\ point2(p, c) \in JobStates /\ point(p) \in JobStates
          /\ point2(p, c).form = f /\ point2(p, c).out = job[j].out /\ point2(p, c).pc = p /\ point2(p, c).card = c
          /\ point(p).form = f /\ point(p).out = job[j].out /\ point(p).pc = p
  BY <1>1 DEF JobStates
<1>3. job[j].card \in {"none", "working", "ended"} /\ Patched(job[j].card) \in {"none", "ended"}
  BY <1>1 DEF JobStates, Patched
<1>4. CASE RefuseForm(j) \/ RefuseLink(j) \/ RefuseUpload(j) \/ RejectRequest(j) \/ Fail(j)
  <2>1. \E p \in {"done", "quiet"}, c \in {"none", "ended"} :
          /\ job' = [job EXCEPT ![j].pc = p, ![j].card = c]
          /\ job[j].pc \in {"form", "validate", "fail"} /\ (job[j].pc = "fail" => p = "done")
    BY <1>3, <1>4 DEF RefuseForm, RefuseLink, RefuseUpload, RejectRequest, Fail, To, Feed
  <2>2. PICK p \in {"done", "quiet"}, c \in {"none", "ended"} :
          /\ job' = [job EXCEPT ![j] = point2(p, c)]
          /\ job[j].pc \in {"form", "validate", "fail"} /\ (job[j].pc = "fail" => p = "done")
    BY <2>1, <1>1
  <2> HIDE DEF point2
  <2>3. point2(p, c) \in JobStates /\ point2(p, c).form = f /\ point2(p, c).pc = p /\ point2(p, c).card = c
    BY <1>2
  <2>4. p \notin {"publish", "settle", "new"} /\ c # "working"
    OBVIOUS
  <2>5. Published(j) => p = "done"
    BY <2>2
  <2> QED BY <2>2, <2>3, <2>4, <2>5
<1>5. CASE TakeForm(j) \/ ValidateJob(j) \/ Start(j)
  <2>1. PICK p \in {"validate", "start", "run"}, c \in {"none", "working", "ended"} :
          job' = [job EXCEPT ![j] = point2(p, c)] /\ job[j].pc \in {"form", "validate", "start"}
    BY <1>1, <1>3, <1>5 DEF TakeForm, ValidateJob, Start, To
  <2> HIDE DEF point2
  <2>2. point2(p, c) \in JobStates /\ point2(p, c).form = f /\ point2(p, c).pc = p
    BY <1>2
  <2> QED BY <2>1, <2>2
<1>6. CASE RefuseStart(j) \/ PrepareFails(j) \/ CopyFails(j) \/ SettleFails(j)
  <2>1. job' = [job EXCEPT ![j] = point("fail")] /\ job[j].pc \in {"start", "run", "publish", "settle"}
    BY <1>1, <1>6 DEF RefuseStart, PrepareFails, CopyFails, SettleFails
  <2>2. point("fail") \in JobStates /\ point("fail").form = f /\ point("fail").pc = "fail"
    BY <1>2
  <2> HIDE DEF point
  <2> QED BY <2>1, <2>2
<1>7. CASE Execute(j)
  <2>1. PICK o \in Outcomes(f) : job' = [job EXCEPT ![j] = out(o)] /\ job[j].pc = "run"
    BY <1>1, <1>7 DEF Execute
  <2>2. o \in Results
    BY DEF Outcomes, Results
  <2>3. out(o) \in JobStates /\ out(o).form = f /\ out(o).out = o /\ out(o).pc = "publish"
    BY <1>1, <2>2 DEF JobStates
  <2> HIDE DEF out
  <2> QED BY <2>1, <2>3
<1>8. CASE Publish(j)
  <2>1. job' = [job EXCEPT ![j] = point("settle")] /\ job[j].pc = "publish"
    BY <1>1, <1>8 DEF Publish
  <2>2. job[j].out \in Outcomes(f)
    BY <2>1 DEF JobsInv
  <2> HIDE DEF point
  <2> QED BY <2>1, <2>2, <1>2, <1>3
<1>9. CASE Settle(j)
  <2> DEFINE o == job[j].out
             c == IF o.report \/ RawSend(f) \/ o.bundle THEN Patched(job[j].card) ELSE job[j].card
  <2>1. job' = [job EXCEPT ![j] = point2("done", c)] /\ job[j].pc = "settle" /\ (o.report \/ ~o.failed)
    BY <1>1, <1>9 DEF Settle, To
  <2>2. c \in {"none", "working", "ended"} /\ (c = "working" => ~o.report /\ ~RawSend(f) /\ ~o.bundle)
    BY <1>3
  <2>3. o \in Outcomes(f) /\ f \in PageForms
    BY <2>1 DEF JobsInv
  <2>4. c = "working" => ~Retains(f) /\ ~RawSend(f) /\ f.process = "forward"
    BY <2>1, <2>2, <2>3 DEF Outcomes, PageForms, Retains, Saves
  <2>5. point2("done", c) \in JobStates /\ point2("done", c).form = f /\ point2("done", c).pc = "done"
        /\ point2("done", c).card = c
    <3> HIDE DEF point2, c
    <3> QED BY <1>2, <2>2
  <2> HIDE DEF point2, c
  <2> QED BY <2>1, <2>4, <2>5
<1> QED BY <1>4, <1>5, <1>6, <1>7, <1>8, <1>9 DEF Work

-----------------------------------------------------------------------------
(* The bus is kept                                                            *)

LEMMA OwnersAreUsers ==
    ASSUME BusInv
    PROVE  (\A t \in Tabs : Owner(t) \in Users) /\ (\A j \in Runs : JobOwner(j) \in Users)
BY TabsAssumption DEF BusInv, Owner, JobOwner, Users

\* A page changes other fields than its place in the ring.
LEMMA PageKeeps ==
    ASSUME BusInv, NEW t \in Tabs, NEW r \in TabStates, r.unread = tab[t].unread,
           tab' = [tab EXCEPT ![t] = r], ring' = ring
    PROVE  /\ ring' \in Seq(Events) /\ tab' \in [Tabs -> TabStates]
           /\ \A u \in Tabs : tab'[u].unread <= Len(ring')
BY DEF BusInv

\* A page reads less, or leaves.
LEMMA PageReads ==
    ASSUME BusInv, NEW t \in Tabs, NEW r \in TabStates, r.unread <= tab[t].unread,
           tab' = [tab EXCEPT ![t] = r], ring' = Unread(ring, tab')
    PROVE  /\ ring' \in Seq(Events) /\ tab' \in [Tabs -> TabStates]
           /\ \A u \in Tabs : tab'[u].unread <= Len(ring')
<1>1. tab' \in [Tabs -> TabStates] /\ ring \in Seq(Events)
  BY DEF BusInv
<1>2. ASSUME NEW u \in Tabs PROVE tab'[u].unread \in 0..Ring /\ tab'[u].unread <= Len(ring)
  <2>1. tab[u] \in TabStates /\ tab[u].unread <= Len(ring) /\ tab[t].unread <= Len(ring) /\ tab[t] \in TabStates
    BY DEF BusInv
  <2>2. tab'[u] = r \/ tab'[u] = tab[u]
    BY DEF BusInv
  <2>3. \A x \in TabStates : x.unread \in 0..Ring /\ x.unread \in Nat
    BY RingAssumption DEF TabStates
  <2> QED BY <2>1, <2>2, <2>3
<1> QED BY <1>1, <1>2, UnreadKept

LEMMA StreamsKeepBus ==
    ASSUME BusInv, NEW t \in Tabs, Streams(t)
    PROVE  BusInv'
<1>0. tab \in [Tabs -> TabStates] /\ tab[t] \in TabStates /\ counters \in Nat
  BY DEF BusInv
<1>1. mode' = mode /\ counters' = counters /\ dirty' = dirty /\ down' = down
  BY DEF Streams, OpenStream, Subscribe, Blur, EndStream
<1>2. CASE OpenStream(t)
  <2> DEFINE r == [tab[t] EXCEPT !.stream = "opening", !.copy = counters]
  <2>1. tab' = [tab EXCEPT ![t] = r] /\ ring' = ring
    BY <1>0, <1>2 DEF OpenStream
  <2>2. r \in TabStates /\ r.unread = tab[t].unread
    BY <1>0 DEF TabStates
  <2> HIDE DEF r
  <2>3. QED BY <1>1, <2>1, <2>2, PageKeeps DEF BusInv
<1>3. CASE Subscribe(t)
  <2> DEFINE r == [tab[t] EXCEPT !.stream = "on", !.shown = tab[t].copy, !.copy = 0, !.missed = FALSE,
                                 !.gap = tab[t].copy # counters /\ ~dirty]
  <2>1. tab' = [tab EXCEPT ![t] = r] /\ ring' = ring
    BY <1>0, <1>3 DEF Subscribe
  <2>2. r \in TabStates /\ r.unread = tab[t].unread
    <3> DEFINE gap == tab[t].copy # counters /\ ~dirty
    <3>1. gap \in BOOLEAN
      OBVIOUS
    <3>2. r = [tab[t] EXCEPT !.stream = "on", !.shown = tab[t].copy, !.copy = 0, !.missed = FALSE, !.gap = gap]
      OBVIOUS
    <3> HIDE DEF gap, r
    <3> QED BY <1>0, <3>1, <3>2 DEF TabStates
  <2> HIDE DEF r
  <2>3. QED BY <1>1, <2>1, <2>2, PageKeeps DEF BusInv
<1>4. CASE Blur(t) \/ EndStream(t)
  <2> DEFINE r == Closed(tab[t])
  <2>1. tab' = [tab EXCEPT ![t] = r] /\ ring' = Unread(ring, tab')
    BY <1>0, <1>4 DEF Blur, EndStream
  <2>2. r \in TabStates /\ r.unread = 0 /\ tab[t].unread \in 0..Ring
    <3>1. 0 \in 0..Ring /\ 0 \in Nat
      BY RingAssumption
    <3> QED BY <1>0, <3>1 DEF TabStates, Closed
  <2>3. r.unread <= tab[t].unread
    BY <2>2, RingAssumption
  <2> HIDE DEF r
  <2>4. QED BY <1>1, <2>1, <2>2, <2>3, PageReads DEF BusInv
<1> QED BY <1>2, <1>3, <1>4 DEF Streams

\* The event a page reads next is in the ring.
LEMMA NextInRing ==
    ASSUME BusInv, NEW t \in Tabs, tab[t].unread > 0
    PROVE  NextEvent(t) \in Events
<1>1. tab[t].unread \in Nat /\ tab[t].unread <= Len(ring) /\ Len(ring) \in Nat
  BY RingAssumption DEF BusInv, TabStates
<1>2. Len(ring) - tab[t].unread + 1 \in 1..Len(ring)
  BY <1>1
<1> QED BY <1>2 DEF NextEvent, BusInv

LEMMA ReceiveKeepsBus ==
    ASSUME BusInv, NEW t \in Tabs, Receive(t)
    PROVE  BusInv'
<1> DEFINE e == NextEvent(t)
           mine == Visible(e, t) /\ e.kind \in {"ready", "error"} /\ e.about = tab[t].pending
           seen == IF Visible(e, t) THEN Shown(tab[t], e) ELSE tab[t]
           r == [seen EXCEPT !.unread = @ - 1, !.pending = IF mine THEN None ELSE @]
<1>1. tab[t].unread > 0 /\ tab' = [tab EXCEPT ![t] = r] /\ ring' = Unread(ring, tab')
      /\ UNCHANGED <<mode, counters, dirty, down>>
  BY DEF Receive
<1>2. e \in Events
  BY <1>1, NextInRing
<1>3. tab[t] \in TabStates
  BY DEF BusInv
<1> HIDE DEF e
<1>4. e.kind = "stats" => e.about \in Nat
  BY <1>2 DEF Events
<1>5. seen \in TabStates /\ seen.unread = tab[t].unread
  <2>1. Shown(tab[t], e) \in TabStates /\ Shown(tab[t], e).unread = tab[t].unread
    BY <1>3, <1>4 DEF Shown, TabStates
  <2> QED BY <2>1, <1>3
<1> HIDE DEF seen, mine
<1>6. tab[t].unread \in 0..Ring /\ tab[t].unread - 1 \in 0..Ring /\ tab[t].unread - 1 <= tab[t].unread
  BY <1>1, <1>3, RingAssumption DEF TabStates
<1>7. r \in TabStates /\ r.unread <= tab[t].unread
  BY <1>5, <1>6 DEF TabStates
<1> HIDE DEF r
<1> QED BY <1>1, <1>7, PageReads DEF BusInv

LEMMA KeysTell ==
    ASSUME Keys
    PROVE  /\ UNCHANGED <<mode, counters, dirty, down, bundleVars, cast, secured, job>>
           /\ UNCHANGED <<ring, tab>> \/ \E open \in BOOLEAN : Emit(<<LockEvent(open)>>)
<1>1. Unlocked \in BOOLEAN
  BY DEF Unlocked
<1> QED BY <1>1 DEF Keys, Bootstrap, Lock, Observe, Elsewhere, AskUnlock, TryRight, TryWrong, SetUnlocked, LockEvent, busVars

LEMMA BusKept ==
    ASSUME SessionInv, [SessionNext]_sessionVars
    PROVE  BusInv'
<1> USE DEF SessionInv
<1>0. mode \in {"user", "service"} /\ counters \in Nat /\ dirty \in BOOLEAN /\ down \in BOOLEAN
  BY DEF BusInv
<1>1. ASSUME NEW j \in Runs, Submit(j) PROVE BusInv'
  <2> DEFINE t == JobTab[j]
             r == [tab[t] EXCEPT !.pending = j]
  <2>1. t \in Tabs /\ tab[t] \in TabStates /\ tab \in [Tabs -> TabStates]
    BY TabsAssumption DEF BusInv
  <2>2. (tab' = tab \/ tab' = [tab EXCEPT ![t] = r]) /\ ring' = ring /\ UNCHANGED <<mode, counters, dirty, down>>
    BY <1>1, <2>1 DEF Submit, Rest
  <2>3. r \in TabStates /\ r.unread = tab[t].unread
    BY <2>1 DEF TabStates
  <2> HIDE DEF r, t
  <2>4. tab' = [tab EXCEPT ![t] = r] => BusInv'
    BY <2>1, <2>2, <2>3, PageKeeps DEF BusInv
  <2>5. tab' = tab => BusInv'
    BY <2>2 DEF BusInv
  <2> QED BY <2>2, <2>4, <2>5
<1>2. ASSUME NEW j \in Runs, Work(j) PROVE BusInv'
  <2>0. UNCHANGED <<mode, down>> /\ (UNCHANGED <<counters, dirty>> \/ CountStep)
    BY <1>2, WorkTells
  <2>1. UNCHANGED <<mode, down>> /\ counters' \in Nat /\ dirty' \in BOOLEAN
    <3>1. counters' \in Nat
      BY <1>0, <2>0 DEF CountStep
    <3>2. dirty' = dirty \/ dirty' = TRUE
      BY <2>0 DEF CountStep
    <3> QED BY <1>0, <2>0, <3>1, <3>2
  <2>2. CASE UNCHANGED <<ring, tab>>
    BY <2>1, <2>2 DEF BusInv
  <2>3. ASSUME NEW kind \in {"ready", "error"}, Tell(j, kind) PROVE BusInv'
    <3>1. Event(kind, JobOwner(j), j) \in Events
      BY OwnersAreUsers DEF Event, Events
    <3> QED BY <2>1, <2>3, <3>1, EmitKeeps DEF Tell, BusInv
  <2> QED BY <2>2, <2>3, <1>2, WorkTells
<1>3. ASSUME NEW t \in Tabs, Download(t) PROVE BusInv'
  <2>1. \/ UNCHANGED busVars
        \/ \E a \in {"missing", "forbidden", "failed", "expired", "early", "file"} :
             tab' = [tab EXCEPT ![t].answer = a] /\ UNCHANGED <<mode, ring, counters, dirty, down>>
    <3>1. CASE GetEntry(t)
      BY <3>1 DEF GetEntry, Answer
    <3>2. CASE OpenFile(t)
      BY <3>2 DEF OpenFile, Answer
    <3>3. CASE Touch(t)
      BY <3>3 DEF Touch, Answer
    <3> QED BY <1>3, <3>1, <3>2, <3>3 DEF Download
  <2>2. CASE UNCHANGED busVars
    BY <2>2 DEF BusInv, busVars
  <2>3. ASSUME NEW a \in {"missing", "forbidden", "failed", "expired", "early", "file"},
               tab' = [tab EXCEPT ![t].answer = a], UNCHANGED <<mode, ring, counters, dirty, down>>
        PROVE  BusInv'
    <3> DEFINE r == [tab[t] EXCEPT !.answer = a]
    <3>1. tab[t] \in TabStates /\ tab' = [tab EXCEPT ![t] = r]
      BY <2>3 DEF BusInv
    <3>2. r \in TabStates /\ r.unread = tab[t].unread
      BY <3>1 DEF TabStates
    <3> HIDE DEF r
    <3> QED BY <2>3, <3>1, <3>2, PageKeeps DEF BusInv
  <2> QED BY <2>1, <2>2, <2>3
<1>4. ASSUME Keys PROVE BusInv'
  <2>1. \A open \in BOOLEAN : LockEvent(open) \in Events
    BY DEF LockEvent, Event, Events, Users
  <2>2. ASSUME NEW open \in BOOLEAN, Emit(<<LockEvent(open)>>) PROVE BusInv'
    BY <1>4, <2>1, <2>2, KeysTell, EmitKeeps DEF BusInv
  <2>3. CASE UNCHANGED <<ring, tab>>
    BY <2>3, <1>4, KeysTell DEF BusInv
  <2> QED BY <1>4, <2>2, <2>3, KeysTell
<1>5. ASSUME PublishStats PROVE BusInv'
  <2>1. Event("stats", "nobody", counters) \in Events
    BY <1>0 DEF Event, Events, Users
  <2> QED BY <1>5, <2>1, EmitKeeps DEF PublishStats, BusInv
<1>6. ASSUME Shutdown PROVE BusInv'
  BY <1>6 DEF Shutdown, BusInv
<1>7. ASSUME NEW t \in Tabs, NEW j \in Runs, Cleaner(j) \/ Follow(t, j) \/ Tick \/ UNCHANGED sessionVars PROVE BusInv'
  <2>1. UNCHANGED busVars
    BY <1>7 DEF Cleaner, Wake, CleanUp, Remove, Follow, Tick, sessionVars
  <2> QED BY <2>1 DEF BusInv, busVars
<1>8. ASSUME NEW j \in Runs, Cleaner(j) PROVE BusInv'
  BY <1>7, <1>8, TabsAssumption
<1>9. CASE Tick \/ UNCHANGED sessionVars
  <2>1. UNCHANGED busVars
    BY <1>9 DEF Tick, sessionVars
  <2> QED BY <2>1 DEF BusInv, busVars
<1>10. QED
  <2>1. cast.tabs \subseteq Tabs /\ cast.followers \subseteq Tabs
    BY ScenariosAssumption DEF JobsInv
  <2> QED
    BY <2>1, <1>1, <1>2, <1>3, <1>4, <1>5, <1>6, <1>7, <1>8, <1>9, StreamsKeepBus, ReceiveKeepsBus DEF SessionNext

-----------------------------------------------------------------------------
(* The table and the disk are kept                                            *)

EntryOf(o, error, path, left) == [owner |-> o, error |-> error, path |-> path, left |-> left]

LEMMA EntryTyped ==
    ASSUME NEW o \in Users, NEW error \in BOOLEAN, NEW path \in BOOLEAN, NEW left \in 0..KeepTime
    PROVE  EntryOf(o, error, path, left) \in Entries /\ EntryOf(o, error, path, left) # None
BY NoneAssumption DEF EntryOf, Entries

LEMMA Times ==
  /\ KeepTime \in 0..KeepTime /\ AfterTime \in 0..KeepTime /\ 0 \in 0..KeepTime
  /\ KeepTime > 0 /\ AfterTime > 0 /\ 0..KeepTime \subseteq Nat
  /\ \A n \in 0..KeepTime : Less(n) \in 0..KeepTime /\ Less(n) <= n
  /\ \A m \in 0..KeepTime, n \in 0..KeepTime : m <= n => Less(m) <= Less(n)
BY TimesAssumption DEF Less

\* The record of a token and its watch, written for the state and for the next.
Watched(j, e, ts, found) == j \in found \/ \E x \in ts : x[1] = j /\ x[2] >= e.left
Kept(j, e, d, ts, found, gone) == e # None /\ e.path => j \in d /\ j \notin gone /\ Watched(j, e, ts, found)

LEMMA KeptIs ==
  /\ BundlesKept <=> \A j \in Runs : Kept(j, entry[j], disk, timers, expired, doomed)
  /\ BundlesKept' <=> \A j \in Runs : Kept(j, entry'[j], disk', timers', expired', doomed')
BY DEF BundlesKept, Kept, Watched, Offered

\* A step that takes the bundle of one token out of the table.
LEMMA DiscardKeeps ==
    ASSUME TableInv, DiskInv, NEW j \in Runs, Discard(j), UNCHANGED <<disk, timers, job>>, expired' \in {expired, expired \ {j}}
    PROVE  /\ entry' \in [Runs -> Entries \cup {None}] /\ doomed' \subseteq Runs /\ expired' \subseteq Runs
           /\ DiskInv'
<1>1. entry' = [entry EXCEPT ![j] = None] /\ entry' \in [Runs -> Entries \cup {None}]
      /\ (doomed' = doomed \/ (Offered(j) /\ doomed' = doomed \cup {j}))
  BY DEF Discard, TableInv
<1>2. ASSUME NEW k \in Runs, k # j
      PROVE  Kept(k, entry'[k], disk', timers', expired', doomed') /\ (Offered(k)' <=> Offered(k))
             /\ (k \in doomed' <=> k \in doomed)
  <2>1. entry'[k] = entry[k] /\ (k \in expired' <=> k \in expired) /\ (k \in doomed' <=> k \in doomed)
    BY <1>1, <1>2 DEF TableInv
  <2>2. Kept(k, entry[k], disk, timers, expired, doomed)
    BY KeptIs DEF DiskInv
  <2> QED BY <2>1, <2>2 DEF Kept, Watched, Offered
<1>3. Kept(j, entry'[j], disk', timers', expired', doomed') /\ ~Offered(j)'
  BY <1>1 DEF Kept, Offered, TableInv
<1>4. BundlesKept'
  BY <1>2, <1>3, KeptIs
<1>5. ASSUME NEW k \in Runs, Offered(k)' \/ k \in disk' \/ k \in doomed' PROVE Published(k)'
  <2>1. Offered(k) \/ k \in disk \/ k \in doomed
    BY <1>1, <1>2, <1>3, <1>5
  <2> QED BY <2>1 DEF DiskInv, Published
<1> QED BY <1>1, <1>4, <1>5 DEF DiskInv, TableInv

\* A step that writes the record of one token.
LEMMA WriteKeeps ==
    ASSUME TableInv, DiskInv, NEW j \in Runs, NEW e \in Entries,
           entry' = [entry EXCEPT ![j] = e], timers \subseteq timers', UNCHANGED <<expired, doomed>>,
           timers' \subseteq Runs \X (0..KeepTime),
           disk \subseteq disk', disk' \subseteq disk \cup {j},
           e.path => j \in disk' /\ j \notin doomed /\ Watched(j, e, timers', expired),
           \A k \in Runs : k # j => job'[k] = job[k],
           e.path \/ j \in disk' \/ j \in doomed => Published(j)'
    PROVE  entry' \in [Runs -> Entries \cup {None}] /\ disk' \subseteq Runs /\ DiskInv'
<1>1. entry' \in [Runs -> Entries \cup {None}] /\ disk' \subseteq Runs /\ entry'[j] = e
  BY DEF TableInv
<1>2. ASSUME NEW k \in Runs, k # j
      PROVE  Kept(k, entry'[k], disk', timers', expired', doomed') /\ (Offered(k)' <=> Offered(k))
             /\ (k \in disk' <=> k \in disk)
  <2>1. entry'[k] = entry[k] /\ (k \in disk' <=> k \in disk)
    BY <1>2 DEF TableInv
  <2>2. Kept(k, entry[k], disk, timers, expired, doomed)
    BY KeptIs DEF DiskInv
  <2> QED BY <2>1, <2>2 DEF Kept, Watched, Offered
<1>3. Kept(j, entry'[j], disk', timers', expired', doomed') /\ (Offered(j)' => e.path)
  BY <1>1 DEF Kept, Watched, Offered
<1>4. BundlesKept'
  BY <1>2, <1>3, KeptIs
<1>5. ASSUME NEW k \in Runs, Offered(k)' \/ k \in disk' \/ k \in doomed' PROVE Published(k)'
  <2>1. CASE k = j
    BY <2>1, <1>3, <1>5
  <2>2. CASE k # j
    BY <2>2, <1>2, <1>5 DEF DiskInv, Published
  <2> QED BY <2>1, <2>2
<1> QED BY <1>1, <1>4, <1>5 DEF DiskInv

\* A step that leaves the table alone: a job only gets on.
LEMMA UntouchedKeeps ==
    ASSUME TableInv, DiskInv, Untouched, \A k \in Runs : Published(k) => Published(k)'
    PROVE  DiskInv'
BY DEF Untouched, DiskInv, BundlesKept, Offered

LEMMA WorkKeepsTable ==
    ASSUME SessionInv, NEW j \in Runs, Work(j)
    PROVE  TableInv' /\ DiskInv'
<1> USE DEF SessionInv
<1>1. PICK r \in JobStates : job' = [job EXCEPT ![j] = r] /\ (Published(j) => r.pc \in {"settle", "fail", "done"})
  BY WorkMoves
<1>2. job'[j] = r /\ \A k \in Runs : k # j => job'[k] = job[k]
  BY <1>1 DEF JobsInv
<1>3. \A k \in Runs : Published(k) => Published(k)'
  BY <1>1, <1>2 DEF Published
<1>4. get' = get
  BY WorkTells
<1>5. JobOwner(j) \in Users /\ Offered(j) \in BOOLEAN
  BY OwnersAreUsers DEF Offered, TableInv, Entries
<1>6. CASE Untouched
  BY <1>3, <1>4, <1>6, UntouchedKeeps DEF TableInv, Untouched
<1>7. CASE Accepts(j)
  <2> DEFINE e == EntryOf(JobOwner(j), FALSE, Offered(j), KeepTime)
  <2>1. e \in Entries /\ e.path = Offered(j) /\ e.left = KeepTime
    BY <1>5, EntryTyped, Times DEF EntryOf
  <2>2. entry' = [entry EXCEPT ![j] = e] /\ timers' = timers \cup {<<j, KeepTime>>}
        /\ UNCHANGED <<disk, expired, doomed>>
    BY <1>7 DEF Accepts, Accept, Accepted, Schedule, EntryOf
  <2>3. ~Offered(j) /\ j \notin disk /\ j \notin doomed
    BY <1>7 DEF Accepts, DiskInv, Published
  <2>4. timers' \subseteq Runs \X (0..KeepTime)
    BY <2>2, Times DEF TableInv
  <2> HIDE DEF e
  <2> QED BY <1>2, <1>4, <2>1, <2>2, <2>3, <2>4, WriteKeeps DEF TableInv
<1>8. CASE Rejects(j)
  <2>1. PICK ttl \in {AfterTime, KeepTime} : RejectBundle(j, JobOwner(j), ttl)
    BY <1>8 DEF Rejects
  <2> DEFINE e == EntryOf(JobOwner(j), TRUE, Offered(j), ttl)
  <2>2. e \in Entries /\ e.path = Offered(j)
    BY <1>5, EntryTyped, Times DEF EntryOf
  <2>3. entry' = [entry EXCEPT ![j] = e] /\ UNCHANGED <<disk, timers, expired, doomed>> /\ ~Offered(j)
    BY <1>8, <2>1 DEF Rejects, RejectBundle, Rejected, EntryOf
  <2>4. j \in disk \/ j \in doomed => Published(j)'
    BY <1>3 DEF DiskInv
  <2> HIDE DEF e
  <2> QED BY <1>2, <1>4, <2>2, <2>3, <2>4, WriteKeeps DEF TableInv
<1>9. CASE Publishes(j)
  <2> DEFINE e == EntryOf(JobOwner(j), FALSE, TRUE, KeepTime)
  <2>1. e \in Entries /\ e.left = KeepTime
    BY <1>5, EntryTyped, Times DEF EntryOf
  <2>2. entry' = [entry EXCEPT ![j] = e] /\ timers' = timers \cup {<<j, KeepTime>>}
        /\ disk' = disk \cup {j} /\ UNCHANGED <<expired, doomed>>
    BY <1>9 DEF Publishes, Insert, Schedule, EntryOf
  <2>3. j \notin doomed /\ Published(j)'
    BY <1>9 DEF Publishes, DiskInv, Published
  <2>4. timers' \subseteq Runs \X (0..KeepTime)
    BY <2>2, Times DEF TableInv
  <2>5. Watched(j, e, timers', expired)
    <3> DEFINE x == <<j, KeepTime>>
    <3>1. x \in timers' /\ x[1] = j /\ x[2] = KeepTime
      BY <2>2
    <3> HIDE DEF x, e
    <3>2. KeepTime >= e.left
      BY <2>1, TimesAssumption
    <3> QED BY <3>1, <3>2 DEF Watched
  <2> HIDE DEF e
  <2> QED BY <1>2, <1>4, <2>1, <2>2, <2>3, <2>4, <2>5, WriteKeeps DEF TableInv
<1> QED BY <1>6, <1>7, <1>8, <1>9, WorkStores

LEMMA CleanerKeepsTable ==
    ASSUME SessionInv, NEW j \in Runs, Cleaner(j)
    PROVE  TableInv' /\ DiskInv'
<1> USE DEF SessionInv
<1>0. job' = job /\ get' = get
  BY DEF Cleaner, Wake, CleanUp, Remove
<1>1. CASE Wake(j)
  <2>1. /\ timers' = timers \ {<<j, 0>>} /\ UNCHANGED <<entry, disk, doomed>>
        /\ expired' = IF IsExpired(j) THEN expired \cup {j} ELSE expired
    BY <1>1 DEF Wake
  <2>2. TableInv'
    BY <1>0, <2>1 DEF TableInv
  <2>3. ASSUME NEW k \in Runs, Offered(k) PROVE Watched(k, entry[k], timers', expired')
    <3>1. CASE k = j /\ entry[j].left = 0
      BY <3>1, <2>1, <2>3 DEF IsExpired, Watched, Offered
    <3>2. CASE k \in expired
      BY <3>2, <2>1 DEF Watched
    <3>3. ASSUME NEW x \in timers, x[1] = k, x[2] >= entry[k].left, ~(k = j /\ entry[j].left = 0)
          PROVE  Watched(k, entry[k], timers', expired')
      <4>1. entry[k].left \in Nat /\ x = <<x[1], x[2]>>
        BY <2>3, Times DEF TableInv, Entries, Offered
      <4>2. x # <<j, 0>>
        BY <3>3, <4>1
      <4> QED BY <3>3, <4>2, <2>1 DEF Watched
    <3> QED BY <3>1, <3>2, <3>3, <2>3, KeptIs DEF DiskInv, Kept, Watched, Offered
  <2>4. BundlesKept'
    BY <2>1, <2>3, KeptIs DEF DiskInv, Kept, Offered
  <2> QED BY <1>0, <2>1, <2>2, <2>4 DEF DiskInv, Offered, Published
<1>2. CASE CleanUp(j)
  <2>1. Discard(j) /\ UNCHANGED <<disk, timers>> /\ expired' = expired \ {j}
    BY <1>2 DEF CleanUp
  <2> QED BY <1>0, <2>1, DiscardKeeps DEF TableInv
<1>3. CASE Remove(j)
  <2>1. j \in doomed /\ doomed' = doomed \ {j} /\ disk' = disk \ {j} /\ UNCHANGED <<entry, timers, expired>>
    BY <1>3 DEF Remove
  <2>2. ~Offered(j)
    BY <2>1 DEF DiskInv, BundlesKept
  <2> QED BY <1>0, <2>1, <2>2 DEF TableInv, DiskInv, BundlesKept, Offered, Published
<1> QED BY <1>1, <1>2, <1>3 DEF Cleaner

LEMMA DownloadKeepsTable ==
    ASSUME SessionInv, NEW t \in Tabs, Download(t)
    PROVE  TableInv' /\ DiskInv'
<1> USE DEF SessionInv
<1>0. job' = job /\ get[t].at # "idle" /\ get[t] \in Gets /\ UNCHANGED <<disk, expired>>
  BY DEF Download, GetEntry, OpenFile, Touch, TableInv
<1>1. /\ NoGet \in Gets /\ \A at \in {"read", "open", "touch"} : [get[t] EXCEPT !.at = at] \in Gets
      /\ \E j \in Runs : j = get[t].token
  BY <1>0 DEF Gets, NoGet
<1>j. PICK j \in Runs : j = get[t].token
  BY <1>1
<1>2. get' \in [Tabs -> Gets]
  <2>1. get' = [get EXCEPT ![t] = NoGet] \/ \E at \in {"open", "touch"} : get' = [get EXCEPT ![t] = [get[t] EXCEPT !.at = at]]
    <3>1. CASE GetEntry(t)
      BY <3>1 DEF GetEntry, Answer, TableInv
    <3>2. CASE OpenFile(t)
      BY <3>2 DEF OpenFile, Answer, TableInv
    <3>3. CASE Touch(t)
      BY <3>3 DEF Touch, Answer
    <3> QED BY <3>1, <3>2, <3>3 DEF Download
  <2> QED BY <1>1, <2>1 DEF TableInv
<1>3. CASE UNCHANGED <<entry, doomed, timers>>
  BY <1>0, <1>2, <1>3 DEF TableInv, DiskInv, BundlesKept, Offered, Published
<1>4. CASE Discard(j) /\ UNCHANGED timers
  BY <1>0, <1>1, <1>2, <1>4, DiscardKeeps DEF TableInv
<1>5. CASE Touch(t)
  <2>1. timers' = timers \cup {<<j, AfterTime>>} /\ UNCHANGED <<disk, expired, doomed>>
        /\ entry' = IF entry[j] = None THEN entry ELSE [entry EXCEPT ![j].left = AfterTime]
    BY <1>5, <1>j DEF Touch, Schedule
  <2>2. timers' \subseteq Runs \X (0..KeepTime)
    BY <2>1, <1>1, Times DEF TableInv
  <2>3. CASE entry[j] = None
    <3>1. entry' = entry
      BY <2>1, <2>3
    <3>2. BundlesKept
      BY DEF DiskInv
    <3>3. timers \subseteq timers' /\ UNCHANGED <<disk, expired, doomed>>
      BY <2>1
    <3>4. BundlesKept'
      BY <3>1, <3>2, <3>3 DEF BundlesKept, Offered
    <3> QED BY <1>0, <1>2, <2>1, <2>2, <3>1, <3>3, <3>4 DEF TableInv, DiskInv, Offered, Published
  <2>4. CASE entry[j] # None
    <3> DEFINE e == [entry[j] EXCEPT !.left = AfterTime]
               x == <<j, AfterTime>>
    <3>1. entry[j] \in Entries /\ entry' = [entry EXCEPT ![j] = e]
      BY <1>1, <2>1, <2>4 DEF TableInv
    <3>2. e \in Entries /\ e.path = entry[j].path /\ e.left = AfterTime
      BY <3>1, Times DEF Entries
    <3>3. x \in timers' /\ x[1] = j /\ x[2] = AfterTime /\ AfterTime >= AfterTime
      BY <2>1, TimesAssumption
    <3>4. Watched(j, e, timers', expired)
      <4> HIDE DEF x, e
      <4> QED BY <3>2, <3>3 DEF Watched
    <3>5. e.path => Offered(j) /\ j \in disk /\ j \notin doomed
      BY <1>1, <2>4, <3>2 DEF Offered, DiskInv, BundlesKept
    <3>6. e.path \/ j \in disk \/ j \in doomed => Published(j)'
      BY <1>0, <1>1, <3>5 DEF DiskInv, Published
    <3> HIDE DEF e
    <3> QED BY <1>0, <1>1, <1>2, <2>1, <2>2, <3>1, <3>2, <3>4, <3>5, <3>6, WriteKeeps DEF TableInv
  <2> QED BY <2>3, <2>4
<1>6. CASE GetEntry(t)
  BY <1>6, <1>3, <1>4, <1>j DEF GetEntry, Answer
<1>7. CASE OpenFile(t)
  BY <1>7, <1>3, <1>4, <1>j DEF OpenFile, Answer
<1> QED BY <1>5, <1>6, <1>7 DEF Download

LEMMA TickKeepsTable ==
    ASSUME SessionInv, Tick
    PROVE  TableInv' /\ DiskInv'
<1> USE DEF SessionInv
<1>0. /\ UNCHANGED <<disk, expired, doomed, get, job>>
      /\ entry' = [j \in Runs |-> IF entry[j] = None THEN None ELSE [entry[j] EXCEPT !.left = Less(@)]]
      /\ timers' = {<<x[1], Less(x[2])>> : x \in timers}
  BY DEF Tick, Aged
<1>1. ASSUME NEW j \in Runs, entry[j] # None
      PROVE  /\ entry'[j] \in Entries /\ entry'[j] # None
             /\ entry'[j].path = entry[j].path /\ entry'[j].left = Less(entry[j].left)
             /\ entry[j].left \in 0..KeepTime
  <2>1. entry[j] \in Entries /\ entry'[j] = [entry[j] EXCEPT !.left = Less(@)]
    BY <1>0, <1>1 DEF TableInv
  <2>2. entry[j].left \in 0..KeepTime
    BY <2>1 DEF Entries
  <2>3. Less(entry[j].left) \in 0..KeepTime
    BY <2>2, Times
  <2>4. entry'[j] \in Entries
    BY <2>1, <2>3 DEF Entries
  <2> QED BY <2>1, <2>2, <2>4, NoneAssumption DEF Entries
<1>2. ASSUME NEW x \in timers
      PROVE  <<x[1], Less(x[2])>> \in timers' /\ x[1] \in Runs /\ x[2] \in 0..KeepTime /\ Less(x[2]) \in 0..KeepTime
  BY <1>0, Times DEF TableInv
<1>3. entry' \in [Runs -> Entries \cup {None}]
  BY <1>0, <1>1
<1>4. timers' \subseteq Runs \X (0..KeepTime)
  BY <1>0, <1>2
<1>5. \A j \in Runs : Offered(j)' <=> Offered(j)
  BY <1>0, <1>1 DEF Offered
<1>6. ASSUME NEW j \in Runs, Offered(j) PROVE Watched(j, entry'[j], timers', expired')
  <2>1. CASE j \in expired
    BY <2>1, <1>0 DEF Watched
  <2>2. ASSUME NEW x \in timers, x[1] = j, x[2] >= entry[j].left PROVE Watched(j, entry'[j], timers', expired')
    <3> DEFINE y == <<x[1], Less(x[2])>>
    <3>1. entry'[j].left = Less(entry[j].left) /\ entry[j].left \in 0..KeepTime
      BY <1>1, <1>6 DEF Offered
    <3>2. Less(entry[j].left) <= Less(x[2])
      BY <2>2, <3>1, <1>2, Times
    <3>3. y \in timers' /\ y[1] = j /\ y[2] = Less(x[2]) /\ Less(x[2]) \in Nat /\ Less(entry[j].left) \in Nat
      BY <1>2, <2>2, <3>1, Times
    <3>4. Less(x[2]) >= Less(entry[j].left)
      BY <3>2, <3>3
    <3> HIDE DEF y
    <3> QED BY <3>1, <3>3, <3>4 DEF Watched
  <2> QED BY <1>6, <2>1, <2>2, KeptIs DEF DiskInv, Kept, Watched, Offered
<1>7. BundlesKept'
  BY <1>0, <1>5, <1>6, KeptIs DEF DiskInv, Kept, Offered
<1> QED BY <1>0, <1>3, <1>4, <1>5, <1>7 DEF TableInv, DiskInv, Published

LEMMA TableKept ==
    ASSUME SessionInv, [SessionNext]_sessionVars
    PROVE  TableInv' /\ DiskInv'
<1> USE DEF SessionInv
<1>1. ASSUME NEW j \in Runs, Submit(j) PROVE TableInv' /\ DiskInv'
  <2>1. UNCHANGED bundleVars /\ ~Published(j) /\ \A k \in Runs : k # j => job'[k] = job[k]
    BY <1>1 DEF Submit, JobsInv, Published
  <2>2. \A k \in Runs : Published(k) => Published(k)'
    BY <2>1 DEF Published
  <2> QED BY <2>1, <2>2, UntouchedKeeps DEF TableInv, Untouched, bundleVars
<1>2. ASSUME NEW t \in Tabs, Receive(t) PROVE TableInv' /\ DiskInv'
  <2> DEFINE e == NextEvent(t)
  <2>1. /\ UNCHANGED <<entry, disk, timers, expired, doomed, job>> /\ tab[t].unread > 0
        /\ get' = get \/ (e.kind = "ready" /\ get' = [get EXCEPT ![t] = [at |-> "read", token |-> e.about]])
    BY <1>2 DEF Receive
  <2>2. e \in Events
    BY <2>1, NextInRing
  <2> HIDE DEF e
  <2>3. e.kind = "ready" => e.about \in Runs
    BY <2>2 DEF Events
  <2>4. e.kind = "ready" => [at |-> "read", token |-> e.about] \in Gets
    BY <2>3 DEF Gets
  <2> QED BY <2>1, <2>4 DEF TableInv, DiskInv, BundlesKept, Offered, Published
<1>3. ASSUME NEW t \in Tabs, NEW j \in Runs, Follow(t, j) PROVE TableInv' /\ DiskInv'
  <2>1. [at |-> "read", token |-> j] \in Gets
    BY DEF Gets
  <2> QED BY <1>3, <2>1 DEF Follow, TableInv, DiskInv, BundlesKept, Offered, Published
<1>4. ASSUME UNCHANGED <<bundleVars, job>> PROVE TableInv' /\ DiskInv'
  BY <1>4 DEF bundleVars, TableInv, DiskInv, BundlesKept, Offered, Published
<1>5. cast.tabs \subseteq Tabs /\ cast.followers \subseteq Tabs
  BY ScenariosAssumption DEF JobsInv
<1>6. CASE UNCHANGED sessionVars
  BY <1>4, <1>6 DEF sessionVars
<1>7. ASSUME NEW t \in Tabs, Streams(t) PROVE TableInv' /\ DiskInv'
  BY <1>4, <1>7 DEF Streams, Others
<1>8. ASSUME Keys PROVE TableInv' /\ DiskInv'
  BY <1>4, <1>8, KeysTell
<1>9. ASSUME UNCHANGED Others PROVE TableInv' /\ DiskInv'
  BY <1>4, <1>9 DEF Others
<1> QED BY <1>1, <1>2, <1>3, <1>5, <1>6, <1>7, <1>8, <1>9, WorkKeepsTable, CleanerKeepsTable, DownloadKeepsTable,
           TickKeepsTable DEF SessionNext

-----------------------------------------------------------------------------
(* The limit on unlocking and the jobs are kept                               *)

LEMMA BackoffGrows ==
  /\ \A n \in Nat : Backoff(n) \in Nat
  /\ \A n \in Nat : Backoff(n) <= Backoff(n + 1)
  /\ Backoff(0) = 0
BY UnlockAssumption DEF Backoff

\* The requests that have been let in.
Tries(u) == {v \in Unlockers : u[v] = "try"}

LEMMA TriesCounted ==
    ASSUME LockInv
    PROVE  /\ Trying = Cardinality(Tries(unlock)) /\ Trying \in Nat
           /\ \A v \in Unlockers : unlock[v] = "try" =>
                Cardinality(Tries([unlock EXCEPT ![v] = "idle"])) = Trying - 1
<1>1. Tries(unlock) \in SUBSET Unlockers /\ IsFiniteSet(Tries(unlock))
  BY UnlockAssumption, FS_Subset DEF Tries
<1>2. Trying = Cardinality(Tries(unlock)) /\ Trying \in Nat
  BY <1>1, FS_CardinalityType DEF Trying, Tries
<1>3. ASSUME NEW v \in Unlockers, unlock[v] = "try"
      PROVE  Cardinality(Tries([unlock EXCEPT ![v] = "idle"])) = Trying - 1
  <2>1. Tries([unlock EXCEPT ![v] = "idle"]) = Tries(unlock) \ {v} /\ v \in Tries(unlock)
    BY <1>3 DEF LockInv, Tries
  <2> QED BY <1>1, <1>2, <2>1, FS_RemoveElement
<1> QED BY <1>2, <1>3

LEMMA KeysKeepLock ==
    ASSUME SessionInv, Keys
    PROVE  LockInv'
<1> USE DEF SessionInv
<1> DEFINE Limits == [failed : Nat, block : Nat, seen : BOOLEAN]
<1>0. /\ store \in BOOLEAN /\ lease \in Nat /\ late \in Nat /\ limit \in Limits
      /\ unlock \in [Unlockers -> {"idle", "try"}] /\ LeaseTime \in Nat /\ Unlocked \in BOOLEAN
      /\ limit.block \in Nat /\ limit.failed \in Nat /\ limit.seen \in BOOLEAN
      /\ limit.block <= Backoff(limit.failed)
  BY UnlockAssumption DEF LockInv, Unlocked, TriesLimited
<1>1. ASSUME SetUnlocked, store' \in BOOLEAN, unlock' \in [Unlockers -> {"idle", "try"}] PROVE LockInv'
  <2>1. /\ lease' \in Nat /\ late' = 0 /\ limit' \in Limits /\ limit'.block = 0 /\ limit'.failed = 0
    BY <1>0, <1>1 DEF SetUnlocked
  <2>2. TriesLimited'
    BY <2>1, BackoffGrows DEF TriesLimited
  <2> QED BY <1>1, <2>1, <2>2 DEF LockInv
<1>2. ASSUME store' = store, lease' \in Nat, late' = late, unlock' = unlock,
             limit'.block = limit.block, limit'.failed = limit.failed, limit' \in Limits
      PROVE  LockInv'
  BY <1>0, <1>2 DEF LockInv, TriesLimited, Trying
<1>3. ASSUME NEW u \in Unlockers, NEW max, AskUnlock(u, max) PROVE LockInv'
  <2>1. UNCHANGED <<store, lease, limit, late>>
    BY <1>3 DEF AskUnlock
  <2>2. CASE unlock' = unlock
    BY <1>0, <1>2, <2>1, <2>2
  <2>3. CASE limit.block = 0 /\ unlock' = [unlock EXCEPT ![u] = "try"]
    <3>1. TriesLimited'
      BY <1>0, <2>1, <2>3 DEF TriesLimited
    <3> QED BY <1>0, <2>1, <2>3, <3>1 DEF LockInv
  <2>4. ~(limit.block > 0) => limit.block = 0
    BY <1>0
  <2> QED BY <2>2, <2>3, <2>4, <1>3 DEF AskUnlock
<1>4. ASSUME NEW u \in Unlockers, TryRight(u) PROVE LockInv'
  <2>1. store' = store /\ unlock' \in [Unlockers -> {"idle", "try"}] /\ SetUnlocked
    BY <1>0, <1>4 DEF TryRight
  <2> QED BY <1>0, <1>1, <2>1
<1>5. ASSUME NEW u \in Unlockers, TryWrong(u) PROVE LockInv'
  <2> DEFINE n == limit.failed + 1
             b == IF Backoff(n) > 0 THEN Backoff(n) ELSE limit.block
  <2>1. /\ unlock[u] = "try" /\ unlock' = [unlock EXCEPT ![u] = "idle"] /\ UNCHANGED <<store, lease>>
        /\ limit' = [limit EXCEPT !.failed = n, !.block = b, !.seen = Unlocked]
        /\ late' = IF limit.block > 0 THEN late + 1 ELSE 0
    BY <1>5 DEF TryWrong
  <2>2. n \in Nat /\ b \in Nat /\ b <= Backoff(n) /\ Backoff(n) \in Nat
    BY <1>0, BackoffGrows
  <2>3. limit' \in Limits /\ limit'.failed = n /\ limit'.block = b
    <3> HIDE DEF n, b
    <3> QED BY <1>0, <2>1, <2>2
  <2>4. Trying' = Trying - 1 /\ Trying \in Nat /\ Trying <= Cardinality(Unlockers) /\ Cardinality(Unlockers) \in Nat
    <3>1. Trying' = Cardinality(Tries(unlock'))
      BY DEF Trying, Tries
    <3>2. Tries(unlock) \in SUBSET Unlockers
      BY DEF Tries
    <3>3. Cardinality(Tries(unlock)) <= Cardinality(Unlockers) /\ Cardinality(Unlockers) \in Nat
      BY <3>2, UnlockAssumption, FS_Subset, FS_CardinalityType
    <3>4. Trying = Cardinality(Tries(unlock)) /\ Trying \in Nat
      BY TriesCounted
    <3>5. Cardinality(Tries([unlock EXCEPT ![u] = "idle"])) = Trying - 1
      BY <2>1, TriesCounted
    <3>6. Trying' = Trying - 1
      BY <2>1, <3>1, <3>5
    <3> QED BY <3>3, <3>4, <3>6
  <2>5. limit.block > 0 => late + Trying < Cardinality(Unlockers)
    BY DEF LockInv, TriesLimited
  <2>6. late' \in Nat /\ late' + Trying' < Cardinality(Unlockers)
    BY <1>0, <2>1, <2>4, <2>5
  <2>7. TriesLimited'
    <3> HIDE DEF n, b
    <3> QED BY <2>2, <2>3, <2>6 DEF TriesLimited
  <2>8. unlock' \in [Unlockers -> {"idle", "try"}] /\ store' \in BOOLEAN /\ lease' \in Nat
    BY <1>0, <2>1
  <2> HIDE DEF n, b
  <2> QED BY <2>3, <2>6, <2>7, <2>8 DEF LockInv
<1>6. CASE Bootstrap
  <2>1. store' \in BOOLEAN /\ unlock' = unlock /\ SetUnlocked
    BY <1>6 DEF Bootstrap
  <2> QED BY <1>0, <1>1, <2>1
<1>7. CASE Lock
  <2>1. /\ UNCHANGED <<store, unlock, late>> /\ lease' = 0 /\ limit' = [limit EXCEPT !.seen = FALSE]
    BY <1>7 DEF Lock
  <2> QED BY <1>0, <1>2, <2>1
<1>8. CASE Observe
  <2>1. /\ UNCHANGED <<store, lease, unlock, late>> /\ limit' = [limit EXCEPT !.seen = Unlocked]
    BY <1>8 DEF Observe
  <2>2. limit' \in Limits /\ limit'.block = limit.block /\ limit'.failed = limit.failed
    BY <1>0, <2>1
  <2> QED BY <1>0, <1>2, <2>1, <2>2
<1>9. CASE Elsewhere
  <2>1. UNCHANGED <<store, limit, unlock, late>> /\ lease' \in {0, LeaseTime}
    BY <1>9 DEF Elsewhere
  <2> QED BY <1>0, <1>2, <2>1
<1> QED
  <2>1. cast.unlockers \subseteq Unlockers
    BY ScenariosAssumption DEF JobsInv
  <2> QED BY <2>1, <1>3, <1>4, <1>5, <1>6, <1>7, <1>8, <1>9 DEF Keys

LEMMA LockKept ==
    ASSUME SessionInv, [SessionNext]_sessionVars
    PROVE  LockInv'
<1> USE DEF SessionInv
<1>1. CASE UNCHANGED unlockVars
  BY <1>1 DEF unlockVars, LockInv, TriesLimited, Trying
<1>2. CASE Tick
  <2>1. /\ UNCHANGED <<store, unlock>> /\ lease' = Less(lease)
        /\ limit' = [limit EXCEPT !.block = Less(@)] /\ late' = IF limit.block <= 1 THEN 0 ELSE late
    BY <1>2 DEF Tick, Cooled
  <2>2. /\ limit \in [failed : Nat, block : Nat, seen : BOOLEAN] /\ limit.block \in Nat /\ limit.failed \in Nat
        /\ lease \in Nat /\ late \in Nat /\ Backoff(limit.failed) \in Nat
    BY BackoffGrows DEF LockInv
  <2>3. Less(limit.block) \in Nat /\ Less(lease) \in Nat /\ Less(limit.block) <= limit.block
        /\ (Less(limit.block) > 0 => limit.block > 1)
    BY <2>2 DEF Less
  <2>4. limit' \in [failed : Nat, block : Nat, seen : BOOLEAN] /\ limit'.block = Less(limit.block)
        /\ limit'.failed = limit.failed
    BY <2>1, <2>2, <2>3
  <2>5. TriesLimited'
    <3>1. Trying' = Trying
      BY <2>1 DEF Trying
    <3>2. limit'.block > 0 => late' = late /\ limit.block > 0
      BY <2>1, <2>2, <2>3, <2>4
    <3>3. limit'.block <= Backoff(limit.failed)
      BY <2>2, <2>3, <2>4 DEF LockInv, TriesLimited
    <3> QED BY <2>4, <3>1, <3>2, <3>3 DEF LockInv, TriesLimited
  <2>6. late' \in Nat /\ lease' \in Nat
    BY <2>1, <2>2, <2>3
  <2> QED BY <2>1, <2>4, <2>5, <2>6 DEF LockInv
<1>3. ASSUME NEW j \in Runs, Submit(j) \/ Cleaner(j) PROVE UNCHANGED unlockVars
  BY <1>3 DEF Submit, Rest, Cleaner
<1>4. ASSUME NEW j \in Runs, Work(j) PROVE UNCHANGED unlockVars
  BY <1>4, WorkTells
<1>5. ASSUME NEW t \in Tabs, Receive(t) \/ Download(t) \/ Streams(t) PROVE UNCHANGED unlockVars
  BY <1>5 DEF Receive, Download, Streams, Others
<1>6. ASSUME NEW t \in Tabs, NEW j \in Runs, Follow(t, j) PROVE UNCHANGED unlockVars
  BY <1>6 DEF Follow
<1>7. cast.tabs \subseteq Tabs /\ cast.followers \subseteq Tabs
  BY ScenariosAssumption DEF JobsInv
<1>8. CASE UNCHANGED Others \/ UNCHANGED sessionVars
  BY <1>1, <1>8 DEF Others, sessionVars
<1> QED BY <1>1, <1>2, <1>3, <1>4, <1>5, <1>6, <1>7, <1>8, KeysKeepLock DEF SessionNext

LEMMA JobsKept ==
    ASSUME SessionInv, [SessionNext]_sessionVars
    PROVE  JobsInv'
<1> USE DEF SessionInv
<1>1. CASE UNCHANGED <<cast, secured, job>>
  BY <1>1 DEF JobsInv, CardsEnd
<1>2. ASSUME NEW j \in Runs, Submit(j) PROVE JobsInv'
  <2>1. PICK f \in cast.forms : job' = [job EXCEPT ![j] = [pc |-> "form", form |-> f, out |-> "none",
                                                          card |-> IF Preset(f) THEN "working" ELSE "none"]]
    BY <1>2 DEF Submit
  <2> DEFINE c == IF Preset(f) THEN "working" ELSE "none"
             r == [pc |-> "form", form |-> f, out |-> "none", card |-> c]
  <2>2. f \in PageForms /\ c \in {"none", "working", "ended"}
    BY ScenariosAssumption DEF JobsInv
  <2> HIDE DEF c
  <2>3. r \in JobStates /\ r.pc = "form" /\ r.form = f
    BY <2>2 DEF JobStates
  <2>4. job' = [job EXCEPT ![j] = r] /\ UNCHANGED <<cast, secured>>
    BY <2>1, <1>2 DEF Submit, Rest, c
  <2> HIDE DEF r
  <2> QED BY <2>2, <2>3, <2>4 DEF JobsInv, CardsEnd
<1>3. ASSUME NEW j \in Runs, Work(j) PROVE JobsInv'
  <2>1. UNCHANGED <<cast, secured>>
    BY <1>3, WorkTells
  <2>2. PICK r \in JobStates :
          /\ job' = [job EXCEPT ![j] = r] /\ r.form = job[j].form /\ job[j].pc # "new"
          /\ r.pc \in {"publish", "settle"} => r.out \in Outcomes(r.form)
          /\ r.pc \in {"done", "quiet"} /\ r.card = "working" =>
               ~Retains(r.form) /\ ~RawSend(r.form) /\ r.form.process = "forward"
    BY <1>3, WorkMoves
  <2>3. job' \in [Runs -> JobStates]
    BY <2>2 DEF JobsInv
  <2>4. ASSUME NEW k \in Runs
        PROVE  /\ job'[k].pc # "new" => job'[k].form \in PageForms
               /\ job'[k].pc \in {"publish", "settle"} => job'[k].out \in Outcomes(job'[k].form)
               /\ job'[k].pc \in {"done", "quiet"} /\ job'[k].card = "working" =>
                    ~Retains(job'[k].form) /\ ~RawSend(job'[k].form) /\ job'[k].form.process = "forward"
    <3>1. CASE k = j
      BY <3>1, <2>2 DEF JobsInv
    <3>2. CASE k # j
      <4>1. job'[k] = job[k]
        BY <3>2, <2>2
      <4> QED BY <4>1 DEF JobsInv, CardsEnd
    <3> QED BY <3>1, <3>2
  <2> QED BY <2>1, <2>3, <2>4 DEF JobsInv, CardsEnd
<1>4. ASSUME NEW j \in Runs, Cleaner(j) PROVE JobsInv'
  BY <1>1, <1>4 DEF Cleaner
<1>5. ASSUME NEW t \in Tabs, Receive(t) \/ Download(t) \/ Streams(t) PROVE JobsInv'
  BY <1>1, <1>5 DEF Receive, Download, Streams, Others
<1>6. ASSUME NEW t \in Tabs, NEW j \in Runs, Follow(t, j) PROVE JobsInv'
  BY <1>1, <1>6 DEF Follow
<1>7. cast.tabs \subseteq Tabs /\ cast.followers \subseteq Tabs
  BY ScenariosAssumption DEF JobsInv
<1>8. CASE UNCHANGED Others \/ UNCHANGED sessionVars \/ Keys \/ Tick
  BY <1>1, <1>8 DEF Others, sessionVars, Keys, Tick
<1> QED BY <1>2, <1>3, <1>4, <1>5, <1>6, <1>7, <1>8 DEF SessionNext

-----------------------------------------------------------------------------
(* The session is sound                                                       *)

LEMMA SessionInitially == SessionInit => SessionInv
<1> SUFFICES ASSUME SessionInit PROVE SessionInv
  OBVIOUS
<1>1. BusInv
  <2> DEFINE r == [stream |-> "off", copy |-> 0, unread |-> 0, missed |-> FALSE, gap |-> FALSE,
                   shown |-> 0, pending |-> None, answer |-> "none"]
  <2>1. r \in TabStates /\ r.unread = 0
    BY RingAssumption DEF TabStates
  <2>2. /\ mode \in {"user", "service"} /\ ring = <<>> /\ counters = 0 /\ dirty = FALSE /\ down = FALSE
        /\ tab = [t \in Tabs |-> r]
    BY DEF SessionInit, BusInit
  <2>3. ring \in Seq(Events) /\ Len(ring) = 0
    BY <2>2
  <2> HIDE DEF r
  <2>4. tab \in [Tabs -> TabStates] /\ \A t \in Tabs : tab[t].unread <= Len(ring)
    BY <2>1, <2>2, <2>3
  <2>5. dirty \in BOOLEAN /\ down \in BOOLEAN
    BY <2>2
  <2>6. counters \in Nat
    BY <2>2
  <2> QED BY <2>2, <2>3, <2>4, <2>5, <2>6 DEF BusInv
<1>2. TableInv
  BY DEF SessionInit, BundleInit, TableInv, Gets, NoGet
<1>3. DiskInv
  BY DEF SessionInit, BundleInit, DiskInv, BundlesKept, Offered
<1>4. LockInv
  <2>1. /\ store \in BOOLEAN /\ lease = 0 /\ late = 0 /\ limit = [failed |-> 0, block |-> 0, seen |-> FALSE]
        /\ unlock = [u \in Unlockers |-> "idle"]
    BY DEF SessionInit, UnlockInit
  <2>2. limit \in [failed : Nat, block : Nat, seen : BOOLEAN] /\ limit.block = 0 /\ limit.failed = 0
    BY <2>1
  <2>3. TriesLimited
    BY <2>2, BackoffGrows DEF TriesLimited
  <2>4. unlock \in [Unlockers -> {"idle", "try"}] /\ lease \in Nat /\ late \in Nat
    BY <2>1
  <2> QED BY <2>1, <2>2, <2>3, <2>4 DEF LockInv
<1>5. JobsInv
  <2> DEFINE r == [pc |-> "new", form |-> NoForm, out |-> "none", card |-> "none"]
  <2>1. r \in JobStates /\ r.pc = "new"
    BY DEF JobStates
  <2>2. cast \in Scenarios /\ secured \in cast.secured /\ job = [j \in Runs |-> r]
    BY DEF SessionInit
  <2>3. secured \in BOOLEAN
    BY <2>2, ScenariosAssumption
  <2> HIDE DEF r
  <2> QED BY <2>1, <2>2, <2>3 DEF JobsInv, CardsEnd
<1> QED BY <1>1, <1>2, <1>3, <1>4, <1>5 DEF SessionInv

LEMMA SessionInductive == SessionInv /\ [SessionNext]_sessionVars => SessionInv'
BY BusKept, TableKept, LockKept, JobsKept DEF SessionInv

LEMMA SessionSoundFollows == SessionInv => SessionSound
<1> SUFFICES ASSUME SessionInv PROVE SessionSound
  OBVIOUS
<1>1. \A j \in Runs : entry[j] = None \/ entry[j].left \in 0..KeepTime
  BY DEF SessionInv, TableInv, Entries
<1>2. \A j \in Runs : job[j].card \in {"none", "working", "ended"}
  BY DEF SessionInv, JobsInv, JobStates
<1> QED BY <1>1, <1>2 DEF SessionSound, SessionTypes, SessionInv, BusInv, TableInv, DiskInv, LockInv, JobsInv

\* For any number of tabs, jobs and unlock requests, any ring and any times: a
\* bundle that the table offers is on disk, nobody is about to remove it and a
\* cleanup task watches it, a card does not outlive its job, and no more
\* passwords are tried during a block than were let in together with it.
THEOREM SessionHolds == SessionSpec => []SessionSound
BY SessionInitially, SessionInductive, SessionSoundFollows, PTL DEF SessionSpec

-----------------------------------------------------------------------------
(* A download keeps its promise                                               *)

\* A step that writes a token's record leaves every token a record.
LEMMA WrittenStays ==
    ASSUME TableInv, NEW i \in Runs, NEW e \in Entries, entry' = [entry EXCEPT ![i] = e],
           NEW j \in Runs, entry[j] # None
    PROVE  entry'[j] # None
BY NoneAssumption DEF TableInv

LEMMA WorkLosesNone ==
    ASSUME SessionInv, NEW i \in Runs, Work(i), NEW j \in Runs, entry[j] # None
    PROVE  expired' = expired /\ entry'[j] # None
<1> USE DEF SessionInv
<1>1. JobOwner(i) \in Users /\ Offered(i) \in BOOLEAN
  BY OwnersAreUsers DEF Offered, TableInv, Entries
<1>2. CASE Untouched
  BY <1>2 DEF Untouched
<1>3. ASSUME NEW error \in BOOLEAN, NEW path \in BOOLEAN, NEW left \in 0..KeepTime,
             entry' = [entry EXCEPT ![i] = EntryOf(JobOwner(i), error, path, left)]
      PROVE  entry'[j] # None
  BY <1>1, <1>3, EntryTyped, WrittenStays
<1>4. CASE Accepts(i)
  <2>1. entry' = [entry EXCEPT ![i] = EntryOf(JobOwner(i), FALSE, Offered(i), KeepTime)] /\ expired' = expired
    BY <1>4 DEF Accepts, Accept, Accepted, EntryOf
  <2> QED BY <1>1, <1>3, <2>1, Times
<1>5. CASE Rejects(i)
  <2>1. PICK ttl \in {AfterTime, KeepTime} : RejectBundle(i, JobOwner(i), ttl)
    BY <1>5 DEF Rejects
  <2>2. entry' = [entry EXCEPT ![i] = EntryOf(JobOwner(i), TRUE, Offered(i), ttl)] /\ expired' = expired
    BY <1>5, <2>1 DEF Rejects, RejectBundle, Rejected, EntryOf
  <2> QED BY <1>1, <1>3, <2>2, Times
<1>6. CASE Publishes(i)
  <2>1. entry' = [entry EXCEPT ![i] = EntryOf(JobOwner(i), FALSE, TRUE, KeepTime)] /\ expired' = expired
    BY <1>6 DEF Publishes, Insert, EntryOf
  <2> QED BY <1>1, <1>3, <2>1, Times
<1> QED BY <1>2, <1>4, <1>5, <1>6, WorkStores

LEMMA CleanerLosesExpired ==
    ASSUME SessionInv, NEW i \in Runs, Cleaner(i), NEW j \in Runs, Fresh(j)
    PROVE  (j \in expired' => j \in expired) /\ (entry'[j] = None => j \in expired)
<1>0. entry \in [Runs -> Entries \cup {None}] /\ entry[j] # None /\ entry[j].left # 0
  BY DEF SessionInv, TableInv, Fresh, Offered
<1>1. CASE Wake(i)
  <2>1. entry' = entry /\ (expired' = expired \/ (IsExpired(i) /\ expired' = expired \cup {i}))
    BY <1>1 DEF Wake
  <2>2. ~IsExpired(j)
    BY <1>0 DEF IsExpired
  <2> QED BY <1>0, <2>1, <2>2
<1>2. CASE CleanUp(i)
  <2>1. i \in expired /\ expired' = expired \ {i} /\ entry' = [entry EXCEPT ![i] = None]
    BY <1>2 DEF CleanUp, Discard
  <2> QED BY <1>0, <2>1
<1>3. CASE Remove(i)
  BY <1>0, <1>3 DEF Remove
<1> QED BY <1>1, <1>2, <1>3 DEF Cleaner

LEMMA DownloadLosesNone ==
    ASSUME SessionInv, NEW t \in Tabs, Download(t), NEW j \in Runs, Fresh(j)
    PROVE  expired' = expired /\ entry'[j] # None
<1>0. /\ entry \in [Runs -> Entries \cup {None}] /\ entry[j] # None /\ ~entry[j].error /\ entry[j].left # 0
      /\ j \in disk
  BY DEF SessionInv, TableInv, DiskInv, BundlesKept, Fresh, Offered
<1>1. expired' = expired
  BY DEF Download, GetEntry, OpenFile, Touch
<1>2. CASE GetEntry(t)
  <2>1. \/ entry' = entry
        \/ \E i : /\ entry' = [entry EXCEPT ![i] = None]
                  /\ entry[i].error \/ entry[i].left = 0
    BY <1>2 DEF GetEntry, Discard
  <2> QED BY <1>0, <1>1, <2>1
<1>3. CASE OpenFile(t)
  <2>1. entry' = entry \/ \E i : i \notin disk /\ entry' = [entry EXCEPT ![i] = None]
    BY <1>3 DEF OpenFile, Discard
  <2> QED BY <1>0, <1>1, <2>1
<1>4. CASE Touch(t)
  <2> DEFINE i == get[t].token
  <2>1. entry' = IF entry[i] = None THEN entry ELSE [entry EXCEPT ![i].left = AfterTime]
    BY <1>4 DEF Touch
  <2>2. CASE entry' = entry
    BY <1>0, <1>1, <2>2
  <2>3. CASE entry' = [entry EXCEPT ![i].left = AfterTime] /\ entry' # entry
    <3>1. i \in Runs /\ entry[i] \in Entries
      BY <1>0, <2>1, <2>3
    <3> DEFINE e == [entry[i] EXCEPT !.left = AfterTime]
    <3>2. e \in Entries /\ entry' = [entry EXCEPT ![i] = e]
      BY <2>3, <3>1, Times DEF Entries
    <3> HIDE DEF e, i
    <3> QED BY <1>0, <1>1, <3>1, <3>2, WrittenStays DEF SessionInv
  <2> QED BY <2>1, <2>2, <2>3
<1> QED BY <1>2, <1>3, <1>4 DEF Download

LEMMA PromiseKept ==
    ASSUME SessionInv, [SessionNext]_sessionVars, NEW j \in Runs, Fresh(j)
    PROVE  (j \in expired' => j \in expired) /\ (entry'[j] = None => j \in expired)
<1>0. entry[j] # None
  BY DEF Fresh, Offered
<1>1. CASE UNCHANGED <<entry, expired>>
  BY <1>0, <1>1
<1>2. CASE Tick
  <2>1. expired' = expired /\ entry'[j] = [entry[j] EXCEPT !.left = Less(@)]
    BY <1>0, <1>2 DEF Tick, Aged
  <2>2. entry[j] \in Entries /\ entry[j].left \in 0..KeepTime
    BY <1>0 DEF SessionInv, TableInv, Entries
  <2>3. entry'[j] \in Entries
    BY <2>1, <2>2, Times DEF Entries
  <2> QED BY <2>1, <2>3, NoneAssumption
<1>3. ASSUME NEW i \in Runs, Submit(i) PROVE UNCHANGED <<entry, expired>>
  BY <1>3 DEF Submit, bundleVars
<1>4. ASSUME NEW t \in Tabs, Receive(t) \/ Streams(t) PROVE UNCHANGED <<entry, expired>>
  BY <1>4 DEF Receive, Streams, Others, bundleVars
<1>5. ASSUME NEW t \in Tabs, NEW i \in Runs, Follow(t, i) PROVE UNCHANGED <<entry, expired>>
  BY <1>5 DEF Follow
<1>6. CASE Keys
  <2>1. UNCHANGED bundleVars
    BY <1>6, KeysTell
  <2> QED BY <1>1, <2>1 DEF bundleVars
<1>7. CASE UNCHANGED Others \/ UNCHANGED sessionVars
  BY <1>1, <1>7 DEF Others, sessionVars, bundleVars
<1>8. cast.tabs \subseteq Tabs /\ cast.followers \subseteq Tabs
  BY ScenariosAssumption DEF SessionInv, JobsInv
<1>9. ASSUME NEW i \in Runs, Work(i) PROVE expired' = expired /\ entry'[j] # None
  BY <1>0, <1>9, WorkLosesNone
<1> QED BY <1>1, <1>2, <1>3, <1>4, <1>5, <1>6, <1>7, <1>8, <1>9, CleanerLosesExpired, DownloadLosesNone DEF SessionNext

\* For the same constants: no cleanup task condemns a download whose time has
\* not come, and no step of a job, a page, a request or the clock takes an
\* unexpired one out of the table.
THEOREM DownloadsKept == SessionSpec => NeverLostEarly
<1>1. SessionInv /\ [SessionNext]_sessionVars =>
        [\A j \in Runs : Fresh(j) =>
           /\ j \in expired' => j \in expired
           /\ entry'[j] = None => j \in expired]_sessionVars
  BY PromiseKept
<1> QED BY <1>1, SessionInitially, SessionInductive, PTL DEF SessionSpec, NeverLostEarly
=============================================================================
