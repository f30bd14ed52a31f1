---------------------- MODULE DiagnosticProcessProofs ----------------------
(***************************************************************************)
(* For every set of sources and lookups, every channel capacity and every  *)
(* bound on the counts: the verdict is derived, what is persisted holds    *)
(* every summary that was sent, a verdict never improves, and a complete   *)
(* one is earned.                                                          *)
(***************************************************************************)
EXTENDS DiagnosticProcess, FiniteSetTheorems, TLAPS

Sent == {s \in Sources : src[s] = "sent"}

Busy(s) == src[s] \in {"running", "sending"}

\* What the report holds, the channel carries and the processors do.
Progress ==
    /\ queue \subseteq Sent
    /\ report.sources = Sent \ queue
    /\ (phase \in {"ready", "started"} \/ kind = "platform") =>
         \A s \in Sources : src[s] = "waiting"
    /\ phase # "processing" => \A s \in Sources : src[s] # "sending"
    /\ kind # "elasticsearch" =>
         \A s, t \in Sources : Busy(s) /\ Busy(t) => s = t
    /\ phase \in {"closing", "saved", "local", "done"} => queue = {}

\* What has been saved, by phase.
Persisted ==
    /\ phase = "ready" => report = NoReport
    /\ phase \in {"ready", "started", "processing", "draining", "closing"} =>
         remote = NoReport /\ local = NoReport /\ result = "none"
    /\ phase = "saved" =>
         /\ local = NoReport /\ result = "none"
         /\ <<"report", "error">> \notin report.events => remote = report
    /\ phase = "local" =>
         /\ result = "none" /\ exporter = "elasticsearch"
         /\ ~ReportErrored => remote = report
         /\ <<"report.json", "error">> \notin report.events => local = report

IndInv ==
    /\ TypeOK
    /\ OutcomeDerived
    /\ Progress
    /\ SavedHoldsEverySummary
    /\ Persisted
    /\ CompletedIsPersisted
    /\ RecoveryCopyDefinitive

-----------------------------------------------------------------------------
(* The calls that build a report keep it well formed and its verdict       *)
(* derived.                                                                *)
Derived(r) == r.outcome = DeriveOutcome(r.events, r.created, r.errors)

LEMMA OutcomeType ==
    ASSUME NEW e, NEW c, NEW f
    PROVE  DeriveOutcome(e, c, f) \in {"complete", "partial", "failed"}
BY DEF DeriveOutcome

\* refresh_outcome changes the verdict only, and makes it the derived one.
LEMMA Refresh ==
    ASSUME NEW r \in Reports
    PROVE  /\ WithOutcome(r) \in Reports
           /\ Derived(WithOutcome(r))
           /\ WithOutcome(r).outcome # "none"
           /\ WithOutcome(r).sources = r.sources
           /\ WithOutcome(r).events = r.events
<1> DEFINE v == DeriveOutcome(r.events, r.created, r.errors)
<1>1. v \in {"complete", "partial", "failed"}
  BY OutcomeType
<1>2. WithOutcome(r) = [r EXCEPT !.outcome = v]
  BY DEF WithOutcome
<1> HIDE DEF v
<1>3. /\ WithOutcome(r) \in Reports
      /\ WithOutcome(r).outcome = v
      /\ WithOutcome(r).sources = r.sources
      /\ WithOutcome(r).events = r.events
      /\ WithOutcome(r).created = r.created
      /\ WithOutcome(r).errors = r.errors
  BY <1>1, <1>2 DEF Reports
<1>4. v = DeriveOutcome(r.events, r.created, r.errors)
  BY DEF v
<1> QED
  BY <1>1, <1>3, <1>4 DEF Derived

\* record_event adds its event and refreshes the verdict.
LEMMA RecordEventFacts ==
    ASSUME NEW r \in Reports, NEW o \in Origins
    PROVE  LET n == RecordEvent(r, o, "error")
           IN /\ n \in Reports
              /\ Derived(n)
              /\ n.outcome # "none"
              /\ n.sources = r.sources
              /\ n.events = r.events \cup {<<o, "error">>}
<1> DEFINE q == [r EXCEPT !.events = @ \cup {<<o, "error">>}]
<1>1. <<o, "error">> \in Origins \X Severities
  BY DEF Severities
<1>2. q \in Reports /\ q.sources = r.sources /\ q.events = r.events \cup {<<o, "error">>}
  BY <1>1 DEF Reports
<1>3. RecordEvent(r, o, "error") = WithOutcome(q)
  BY DEF RecordEvent
<1> HIDE DEF q
<1> QED
  BY <1>2, <1>3, Refresh

\* A summary's event has a known severity and the summary's source.
LEMMA SummaryEventsType ==
    ASSUME NEW s \in Sources, NEW m \in Summaries
    PROVE  SummaryEvents(s, m) \subseteq Origins \X Severities
BY DEF SummaryEvents, Origins, Severities

\* add_processor_summary adds its source and refreshes the verdict.
LEMMA AddSummaryFacts ==
    ASSUME NEW r \in Reports, NEW s \in Sources, NEW m \in Summaries
    PROVE  LET n == AddSummary(r, s, m)
           IN /\ n \in Reports
              /\ Derived(n)
              /\ n.outcome # "none"
              /\ n.sources = r.sources \cup {s}
<1> DEFINE ev == SummaryEvents(s, m)
           q == [r EXCEPT !.events = @ \cup ev,
                          !.created = @ + m.docs,
                          !.errors = @ + m.errors,
                          !.sources = @ \cup {s}]
<1>1. ev \subseteq Origins \X Severities
  BY SummaryEventsType
<1>2. m.docs \in Nat /\ m.errors \in Nat
  BY BoundsAssumption DEF Summaries
<1>3. AddSummary(r, s, m) = WithOutcome(q)
  BY DEF AddSummary
<1> HIDE DEF ev
<1>4. q \in Reports /\ q.sources = r.sources \cup {s}
  <2> DEFINE e == r.events \cup ev
             c == r.created + m.docs
             f == r.errors + m.errors
             z == r.sources \cup {s}
  <2>1. /\ e \in SUBSET (Origins \X Severities)
        /\ z \in SUBSET Sources
    BY <1>1 DEF Reports
  <2>2. c \in Nat /\ f \in Nat
    BY <1>2 DEF Reports
  <2>3. q = [r EXCEPT !.events = e, !.created = c, !.errors = f, !.sources = z]
    OBVIOUS
  <2> HIDE DEF e, c, f, z, q
  <2>4. q \in Reports /\ q.sources = z
    BY <2>1, <2>2, <2>3 DEF Reports
  <2> QED
    BY <2>4 DEF z
<1> HIDE DEF q
<1> QED
  BY <1>3, <1>4, Refresh

\* The report a diagnostic starts with.
LEMMA NewReportFacts ==
    ASSUME TypeOK
    PROVE  /\ NewReport \in Reports
           /\ Derived(NewReport)
           /\ NewReport.outcome # "none"
           /\ NewReport.sources = {}
<1> DEFINE c == IF kind = "platform" THEN {<<s, "warning">> : s \in refused} ELSE {}
           u == IF kind = "elasticsearch"
                THEN {<<l, "warning">> : l \in {n \in LookupNames : lookup[n] = "bad"}}
                ELSE {}
           q == [events |-> c \cup u, created |-> 0, errors |-> 0,
                 sources |-> {}, outcome |-> "complete"]
<1>1. c \subseteq Origins \X Severities /\ u \subseteq Origins \X Severities
  BY DEF TypeOK, Origins, Severities
<1>2. NewReport = WithOutcome(q)
  BY DEF NewReport
<1> HIDE DEF c, u
<1>3. q \in Reports /\ q.sources = {}
  BY <1>1 DEF Reports
<1> HIDE DEF q
<1> QED
  BY <1>2, <1>3, Refresh

LEMMA NoReportFacts ==
    NoReport \in Reports /\ NoReport.sources = {} /\ NoReport.outcome = "none"
BY DEF NoReport, Reports

-----------------------------------------------------------------------------
LEMMA InitInv == Init => IndInv
<1> SUFFICES ASSUME Init PROVE IndInv
  OBVIOUS
<1>1. NoSummary \in Summaries
  <2>1. 0 \in 0..MaxDocs
    BY BoundsAssumption
  <2> QED
    BY <2>1 DEF NoSummary, Summaries
<1>2. Cardinality({}) = 0
  BY FS_EmptySet
<1>3. TypeOK
  <2>1. refused \in SUBSET Sources
    BY DEF Init
  <2>2. Cardinality(queue) <= Capacity
    BY <1>2, BoundsAssumption DEF Init
  <2>3. summary \in [Sources -> Summaries]
    BY <1>1 DEF Init
  <2> QED
    BY <2>1, <2>2, <2>3, NoReportFacts DEF Init, TypeOK
<1>4. Progress
  BY NoReportFacts DEF Init, Progress, Sent, Busy
<1> QED
  BY <1>3, <1>4, NoReportFacts
     DEF Init, IndInv, OutcomeDerived, SavedHoldsEverySummary, Persisted,
         CompletedIsPersisted, RecoveryCopyDefinitive

(***************************************************************************)
(* The invariant is kept.  TypeOK comes first; the rest is split into what *)
(* concerns the processors and the channel (Progress) and what concerns    *)
(* the saved reports.                                                      *)
(***************************************************************************)
Saves ==
    /\ OutcomeDerived
    /\ SavedHoldsEverySummary
    /\ Persisted
    /\ CompletedIsPersisted
    /\ RecoveryCopyDefinitive

\* A step of process() itself that leaves the report as it is.
LEMMA MainInv ==
    ASSUME IndInv,
           \/ StartFails \/ ProcessRuns \/ ProcessFails \/ ProcessEnds \/ Drained
           \/ SaveReport \/ SaveLocal \/ Conclude
    PROVE  IndInv'
<1> USE DEF inputs, work
<1>1. CASE StartFails
  <2>1. TypeOK'
    BY <1>1 DEF IndInv, TypeOK, StartFails
  <2>2. Progress'
    BY <1>1 DEF IndInv, TypeOK, StartFails, Progress, Sent, Busy
  <2>3. Saves'
    BY <1>1, NoReportFacts DEF IndInv, TypeOK, StartFails, Progress, Sent, Busy, Saves,
       OutcomeDerived, SavedHoldsEverySummary, Persisted, CompletedIsPersisted,
       RecoveryCopyDefinitive, ReportErrored
  <2> QED
    BY <2>1, <2>2, <2>3 DEF IndInv, Saves
<1>2. CASE ProcessRuns
  <2>1. TypeOK'
    BY <1>2 DEF IndInv, TypeOK, ProcessRuns
  <2>2. Progress'
    BY <1>2 DEF IndInv, TypeOK, ProcessRuns, Progress, Sent, Busy
  <2>3. Saves'
    BY <1>2, NoReportFacts DEF IndInv, TypeOK, ProcessRuns, Progress, Sent, Busy, Saves,
       OutcomeDerived, SavedHoldsEverySummary, Persisted, CompletedIsPersisted,
       RecoveryCopyDefinitive, ReportErrored
  <2> QED
    BY <2>1, <2>2, <2>3 DEF IndInv, Saves
<1>3. CASE ProcessFails
  <2>1. TypeOK'
    BY <1>3 DEF IndInv, TypeOK, ProcessFails
  <2>2. Progress'
    BY <1>3 DEF IndInv, TypeOK, ProcessFails, Progress, Sent, Busy
  <2>3. Saves'
    BY <1>3, NoReportFacts DEF IndInv, TypeOK, ProcessFails, Progress, Sent, Busy, Saves,
       OutcomeDerived, SavedHoldsEverySummary, Persisted, CompletedIsPersisted,
       RecoveryCopyDefinitive, ReportErrored
  <2> QED
    BY <2>1, <2>2, <2>3 DEF IndInv, Saves
<1>4. CASE ProcessEnds
  <2>1. TypeOK'
    BY <1>4 DEF IndInv, TypeOK, ProcessEnds
  <2>2. Progress'
    BY <1>4 DEF IndInv, TypeOK, ProcessEnds, Progress, Sent, Busy
  <2>3. Saves'
    BY <1>4, NoReportFacts DEF IndInv, TypeOK, ProcessEnds, Progress, Sent, Busy, Saves,
       OutcomeDerived, SavedHoldsEverySummary, Persisted, CompletedIsPersisted,
       RecoveryCopyDefinitive, ReportErrored
  <2> QED
    BY <2>1, <2>2, <2>3 DEF IndInv, Saves
<1>5. CASE Drained
  <2>1. TypeOK'
    BY <1>5 DEF IndInv, TypeOK, Drained
  <2>2. Progress'
    BY <1>5 DEF IndInv, TypeOK, Drained, Progress, Sent, Busy
  <2>3. Saves'
    BY <1>5, NoReportFacts DEF IndInv, TypeOK, Drained, Progress, Sent, Busy, Saves,
       OutcomeDerived, SavedHoldsEverySummary, Persisted, CompletedIsPersisted,
       RecoveryCopyDefinitive, ReportErrored
  <2> QED
    BY <2>1, <2>2, <2>3 DEF IndInv, Saves
<1>6. CASE SaveReport
  <2>1. TypeOK'
    BY <1>6 DEF IndInv, TypeOK, SaveReport
  <2>2. Progress'
    BY <1>6 DEF IndInv, TypeOK, SaveReport, Progress, Sent, Busy
  <2>3. Saves'
    BY <1>6, NoReportFacts DEF IndInv, TypeOK, SaveReport, Progress, Sent, Busy, Saves,
       OutcomeDerived, SavedHoldsEverySummary, Persisted, CompletedIsPersisted,
       RecoveryCopyDefinitive, ReportErrored
  <2> QED
    BY <2>1, <2>2, <2>3 DEF IndInv, Saves
<1>7. CASE SaveLocal
  <2>1. TypeOK'
    BY <1>7 DEF IndInv, TypeOK, SaveLocal
  <2>2. Progress'
    BY <1>7 DEF IndInv, TypeOK, SaveLocal, Progress, Sent, Busy
  <2>3. Saves'
    BY <1>7, NoReportFacts DEF IndInv, TypeOK, SaveLocal, Progress, Sent, Busy, Saves,
       OutcomeDerived, SavedHoldsEverySummary, Persisted, CompletedIsPersisted,
       RecoveryCopyDefinitive, ReportErrored
  <2> QED
    BY <2>1, <2>2, <2>3 DEF IndInv, Saves
<1>8. CASE Conclude
  <2>1. TypeOK'
    BY <1>8 DEF IndInv, TypeOK, Conclude
  <2>2. Progress'
    BY <1>8 DEF IndInv, TypeOK, Conclude, Progress, Sent, Busy
  <2>3. Saves'
    BY <1>8, NoReportFacts DEF IndInv, TypeOK, Conclude, Progress, Sent, Busy, Saves,
       OutcomeDerived, SavedHoldsEverySummary, Persisted, CompletedIsPersisted,
       RecoveryCopyDefinitive, ReportErrored
  <2> QED
    BY <2>1, <2>2, <2>3 DEF IndInv, Saves
<1> QED
  BY <1>1, <1>2, <1>3, <1>4, <1>5, <1>6, <1>7, <1>8

\* A step of process() that starts the report or records a failed save.
LEMMA ReportInv ==
    ASSUME IndInv,
           Start \/ SaveReportFails \/ SaveLocalFails
    PROVE  IndInv'
<1> USE DEF inputs, work
<1>0. {"report", "report.json"} \subseteq Origins /\ report \in Reports
  BY DEF Origins, IndInv, TypeOK
<1>1. CASE Start
  <2>1. /\ report' \in Reports
        /\ report'.outcome = DeriveOutcome(report'.events, report'.created, report'.errors)
        /\ report'.outcome # "none"
        /\ report'.sources = {}
    BY <1>1, NewReportFacts DEF Start, Derived, IndInv
  <2>2. TypeOK'
    BY <1>1, <2>1 DEF IndInv, TypeOK, Start
  <2>3. Progress'
    BY <1>1, <2>1 DEF IndInv, TypeOK, Start, Progress, Sent, Busy
  <2>4. Saves'
    BY <1>1, <2>1, NoReportFacts DEF IndInv, Start, Progress, Sent, Saves,
       OutcomeDerived, SavedHoldsEverySummary, Persisted, CompletedIsPersisted,
       RecoveryCopyDefinitive, ReportErrored
  <2> QED
    BY <2>2, <2>3, <2>4 DEF IndInv, Saves
<1>2. CASE SaveReportFails
  <2>1. /\ report' \in Reports
        /\ report'.outcome = DeriveOutcome(report'.events, report'.created, report'.errors)
        /\ report'.outcome # "none"
        /\ report'.sources = report.sources
        /\ report'.events = report.events \cup {<<"report", "error">>}
    BY <1>0, <1>2, RecordEventFacts DEF SaveReportFails, Derived
  <2>2. TypeOK'
    BY <1>2, <2>1 DEF IndInv, TypeOK, SaveReportFails
  <2>3. Progress'
    BY <1>2, <2>1 DEF IndInv, TypeOK, SaveReportFails, Progress, Sent, Busy
  <2>4. Saves'
    BY <1>2, <2>1, NoReportFacts DEF IndInv, SaveReportFails, Progress, Sent, Saves,
       OutcomeDerived, SavedHoldsEverySummary, Persisted, CompletedIsPersisted,
       RecoveryCopyDefinitive, ReportErrored
  <2> QED
    BY <2>2, <2>3, <2>4 DEF IndInv, Saves
<1>3. CASE SaveLocalFails
  <2>1. /\ report' \in Reports
        /\ report'.outcome = DeriveOutcome(report'.events, report'.created, report'.errors)
        /\ report'.outcome # "none"
        /\ report'.sources = report.sources
        /\ report'.events = report.events \cup {<<"report.json", "error">>}
    BY <1>0, <1>3, RecordEventFacts DEF SaveLocalFails, Derived
  <2>2. TypeOK'
    BY <1>3, <2>1 DEF IndInv, TypeOK, SaveLocalFails
  <2>3. Progress'
    BY <1>3, <2>1 DEF IndInv, TypeOK, SaveLocalFails, Progress, Sent, Busy
  <2>4. Saves'
    BY <1>3, <2>1, NoReportFacts DEF IndInv, SaveLocalFails, Progress, Sent, Saves,
       OutcomeDerived, SavedHoldsEverySummary, Persisted, CompletedIsPersisted,
       RecoveryCopyDefinitive, ReportErrored
  <2> QED
    BY <2>2, <2>3, <2>4 DEF IndInv, Saves
<1> QED
  BY <1>1, <1>2, <1>3

\* A step of one source's processor, or of the summary task.
LEMMA SourceInv ==
    ASSUME IndInv, NEW s \in Sources, SourceStep(s)
    PROVE  IndInv'
<1> USE DEF inputs, work
<1>0. IsFiniteSet(queue) /\ Cardinality(queue) \in Nat
  <2>1. IsFiniteSet(queue)
    BY SourcesAssumption, FS_Subset DEF IndInv, TypeOK
  <2> QED
    BY <2>1, FS_CardinalityType
<1>1. CASE Begin(s)
  <2>1. TypeOK'
    BY <1>1 DEF IndInv, TypeOK, Begin
  <2>2. Progress'
    BY <1>1 DEF IndInv, TypeOK, Begin, Progress, Sent, Busy, Concurrent
  <2>3. Saves'
    BY <1>1 DEF IndInv, TypeOK, Begin, Saves,
       OutcomeDerived, SavedHoldsEverySummary, Persisted, CompletedIsPersisted,
       RecoveryCopyDefinitive, ReportErrored, NoReport
  <2> QED
    BY <2>1, <2>2, <2>3 DEF IndInv, Saves
<1>2. CASE Process(s)
  <2>1. summary' \in [Sources -> Summaries]
    BY <1>2 DEF IndInv, TypeOK, Process, Exports
  <2>2. TypeOK'
    BY <1>2, <2>1 DEF IndInv, TypeOK, Process
  <2>3. Progress'
    BY <1>2 DEF IndInv, TypeOK, Process, Progress, Sent, Busy
  <2>4. Saves'
    BY <1>2 DEF IndInv, TypeOK, Process, Saves,
       OutcomeDerived, SavedHoldsEverySummary, Persisted, CompletedIsPersisted,
       RecoveryCopyDefinitive, ReportErrored, NoReport
  <2> QED
    BY <2>2, <2>3, <2>4 DEF IndInv, Saves
<1>3. CASE SourceFails(s)
  <2>1. TypeOK'
    BY <1>3 DEF IndInv, TypeOK, SourceFails
  <2>2. Progress'
    BY <1>3 DEF IndInv, TypeOK, SourceFails, Progress, Sent, Busy
  <2>3. Saves'
    BY <1>3 DEF IndInv, TypeOK, SourceFails, Saves,
       OutcomeDerived, SavedHoldsEverySummary, Persisted, CompletedIsPersisted,
       RecoveryCopyDefinitive, ReportErrored
  <2> QED
    BY <2>1, <2>2, <2>3 DEF IndInv, Saves
<1>4. CASE Send(s)
  <2>1. Cardinality(queue \cup {s}) <= Capacity
    <3>1. Cardinality(queue) < Capacity /\ Capacity \in Nat
      BY <1>4, BoundsAssumption DEF Send
    <3>2. Cardinality(queue \cup {s}) \in {Cardinality(queue), Cardinality(queue) + 1}
      BY <1>0, FS_AddElement
    <3> QED
      BY <1>0, <3>1, <3>2
  <2>2. TypeOK'
    BY <1>4, <2>1 DEF IndInv, TypeOK, Send
  <2>3. phase = "processing"
    BY <1>4 DEF IndInv, Progress, Send
  <2>4. Progress'
    BY <1>4, <2>3 DEF IndInv, TypeOK, Send, Progress, Sent, Busy
  <2>5. Saves'
    BY <1>4, <2>3 DEF IndInv, TypeOK, Send, Saves,
       OutcomeDerived, SavedHoldsEverySummary, Persisted, CompletedIsPersisted,
       RecoveryCopyDefinitive, ReportErrored, NoReport
  <2> QED
    BY <2>2, <2>4, <2>5 DEF IndInv, Saves
<1>5. CASE Drain(s)
  <2>1. Cardinality(queue \ {s}) <= Capacity
    <3>1. Cardinality(queue) <= Capacity /\ Capacity \in Nat
      BY BoundsAssumption DEF IndInv, TypeOK
    <3>2. Cardinality(queue \ {s}) \in {Cardinality(queue), Cardinality(queue) - 1}
      BY <1>0, FS_RemoveElement
    <3> QED
      BY <1>0, <3>1, <3>2
  <2>2. /\ report' \in Reports
        /\ report'.outcome = DeriveOutcome(report'.events, report'.created, report'.errors)
        /\ report'.outcome # "none"
        /\ report'.sources = report.sources \cup {s}
    <3>1. report \in Reports /\ summary[s] \in Summaries
      BY DEF IndInv, TypeOK
    <3> QED
      BY <1>5, <3>1, AddSummaryFacts DEF Drain, Derived
  <2>3. TypeOK'
    BY <1>5, <2>1, <2>2 DEF IndInv, TypeOK, Drain
  <2>4. phase \in {"processing", "draining"}
    BY <1>5 DEF IndInv, TypeOK, Progress, Sent, Drain
  <2>5. Progress'
    BY <1>5, <2>2, <2>4 DEF IndInv, TypeOK, Drain, Progress, Sent, Busy
  <2>6. Saves'
    BY <1>5, <2>2, <2>4 DEF IndInv, Drain, Saves,
       OutcomeDerived, SavedHoldsEverySummary, Persisted, CompletedIsPersisted,
       RecoveryCopyDefinitive, ReportErrored, NoReport
  <2> QED
    BY <2>3, <2>5, <2>6 DEF IndInv, Saves
<1> QED
  BY <1>1, <1>2, <1>3, <1>4, <1>5 DEF SourceStep

LEMMA StepInv == IndInv /\ [Next]_vars => IndInv'
<1> SUFFICES ASSUME IndInv, [Next]_vars PROVE IndInv'
  OBVIOUS
<1>1. CASE MainStep
  BY <1>1, MainInv, ReportInv DEF MainStep
<1>2. CASE \E s \in Sources : SourceStep(s)
  BY <1>2, SourceInv
<1>3. CASE UNCHANGED vars
  <2>1. TypeOK'
    BY <1>3 DEF IndInv, TypeOK, vars, inputs, work
  <2>2. Progress'
    BY <1>3 DEF IndInv, Progress, Sent, Busy, vars, inputs, work
  <2>3. Saves'
    BY <1>3 DEF IndInv, Saves, vars, inputs, work,
       OutcomeDerived, SavedHoldsEverySummary, Persisted, CompletedIsPersisted,
       RecoveryCopyDefinitive, ReportErrored
  <2> QED
    BY <2>1, <2>2, <2>3 DEF IndInv, Saves
<1> QED
  BY <1>1, <1>2, <1>3 DEF Next, Terminated

LEMMA Invariance == Spec => []IndInv
BY InitInv, StepInv, PTL DEF Spec

-----------------------------------------------------------------------------
(***************************************************************************)
(* The state of a processor keeps its shape, and the summary channel never *)
(* holds more than its capacity (mpsc::channel in start).                  *)
(***************************************************************************)
THEOREM TypeCorrect == Spec => []TypeOK
<1>1. IndInv => TypeOK
  BY DEF IndInv
<1> QED
  BY <1>1, Invariance, PTL

(***************************************************************************)
(* The report in hand, the one the exporter saved and the recovery copy    *)
(* always carry the verdict derive_outcome gives for their own events and  *)
(* counts.                                                                 *)
(***************************************************************************)
THEOREM VerdictDerived == Spec => []OutcomeDerived
<1>1. IndInv => OutcomeDerived
  BY DEF IndInv
<1> QED
  BY <1>1, Invariance, PTL

(***************************************************************************)
(* A persisted report holds the summary of every processor that sent one,  *)
(* for any number of concurrent processors and any channel capacity, also  *)
(* when process() failed part of the way.                                  *)
(***************************************************************************)
THEOREM SavedAfterDrain == Spec => []SavedHoldsEverySummary
<1>1. IndInv => SavedHoldsEverySummary
  BY DEF IndInv
<1> QED
  BY <1>1, Invariance, PTL

(***************************************************************************)
(* Processor<Completed> means that the report it returns is the one that   *)
(* was persisted.                                                          *)
(***************************************************************************)
THEOREM CompletedPersisted == Spec => []CompletedIsPersisted
<1>1. IndInv => CompletedIsPersisted
  BY DEF IndInv
<1> QED
  BY <1>1, Invariance, PTL

(***************************************************************************)
(* The local recovery copy is the definitive report, the failure to save   *)
(* it remotely included.                                                   *)
(***************************************************************************)
THEOREM RecoveryDefinitive == Spec => []RecoveryCopyDefinitive
<1>1. IndInv => RecoveryCopyDefinitive
  BY DEF IndInv
<1> QED
  BY <1>1, Invariance, PTL

(***************************************************************************)
(* What is persisted is the whole report, and the same one everywhere, for *)
(* any number of concurrent sources and any capacity of the channel.       *)
(***************************************************************************)
THEOREM ReportsPersisted == Spec => []ReportPersisted
<1>1. SavedHoldsEverySummary /\ CompletedIsPersisted /\ RecoveryCopyDefinitive => ReportPersisted
  BY DEF ReportPersisted
<1> QED
  BY <1>1, SavedAfterDrain, CompletedPersisted, RecoveryDefinitive, PTL

-----------------------------------------------------------------------------
\* A report that grew keeps a failure signal it had.
LEMMA SignalKept ==
    ASSUME NEW e, NEW c \in Nat, NEW f \in Nat,
           NEW e1, NEW c1 \in Nat, NEW f1 \in Nat,
           e \subseteq e1, f <= f1,
           DeriveOutcome(e, c, f) # "complete"
    PROVE  DeriveOutcome(e1, c1, f1) # "complete"
<1>1. f > 0 \/ \E x \in e : x[2] \in {"error", "warning"}
  BY DEF DeriveOutcome
<1>2. f1 > 0 \/ \E x \in e1 : x[2] \in {"error", "warning"}
  BY <1>1
<1> QED
  BY <1>2 DEF DeriveOutcome

\* Every call that changes a report with a verdict lets it grow.
LEMMA ReportGrows ==
    ASSUME IndInv, [Next]_vars, report.outcome # "none"
    PROVE  report.events \subseteq report'.events /\ report.errors <= report'.errors
<1> USE DEF inputs, work
<1>0. report \in Reports /\ \A s \in Sources : summary[s] \in Summaries
  BY DEF IndInv, TypeOK
<1>1. CASE report' = report
  BY <1>0, <1>1 DEF Reports
<1>2. CASE Start
  BY <1>2, NoReportFacts DEF Start, IndInv, Persisted
<1>3. CASE SaveReportFails \/ SaveLocalFails
  <2>1. PICK o : report' = RecordEvent(report, o, "error")
    BY <1>3 DEF SaveReportFails, SaveLocalFails
  <2> QED
    BY <1>0, <2>1 DEF RecordEvent, WithOutcome, Reports
<1>4. CASE \E s \in Sources : Drain(s)
  <2>1. PICK s \in Sources : report' = AddSummary(report, s, summary[s])
    BY <1>4 DEF Drain
  <2>2. summary[s].errors \in Nat
    BY <1>0, BoundsAssumption DEF Summaries
  <2> QED
    BY <1>0, <2>1, <2>2 DEF AddSummary, WithOutcome, Reports
<1>5. report' = report \/ Start \/ SaveReportFails \/ SaveLocalFails
        \/ \E s \in Sources : Drain(s)
  BY DEF Next, MainStep, SourceStep, Terminated, vars, StartFails, ProcessRuns,
         ProcessFails, ProcessEnds, Drained, SaveReport, SaveLocal, Conclude,
         Begin, Process, SourceFails, Send
<1> QED
  BY <1>1, <1>2, <1>3, <1>4, <1>5

(***************************************************************************)
(* Once a report is partial or failed, no later summary or event makes it  *)
(* complete: the order in which concurrent processors report is of no      *)
(* consequence for a failure's being seen.                                 *)
(***************************************************************************)
THEOREM VerdictKept == Spec => VerdictNeverImproves
<1>1. IndInv /\ IndInv' /\ [Next]_vars =>
        [report.outcome \in {"partial", "failed"} => report'.outcome # "complete"]_vars
  <2> SUFFICES ASSUME IndInv, IndInv', [Next]_vars,
                      report.outcome \in {"partial", "failed"},
                      report'.outcome # "none"
               PROVE  report'.outcome # "complete"
    OBVIOUS
  <2>1. report \in Reports /\ report' \in Reports
    BY DEF IndInv, TypeOK
  <2>2. /\ report.outcome = DeriveOutcome(report.events, report.created, report.errors)
        /\ report'.outcome = DeriveOutcome(report'.events, report'.created, report'.errors)
    BY DEF IndInv, OutcomeDerived
  <2>3. report.events \subseteq report'.events /\ report.errors <= report'.errors
    BY ReportGrows
  <2>4. /\ report.created \in Nat /\ report.errors \in Nat
        /\ report'.created \in Nat /\ report'.errors \in Nat
    BY <2>1 DEF Reports
  <2> QED
    BY <2>2, <2>3, <2>4, SignalKept
<1> QED
  BY <1>1, Invariance, PTL DEF Spec, VerdictNeverImproves

-----------------------------------------------------------------------------
(***************************************************************************)
(* A clean verdict is earned.  A report that has a verdict has an event of *)
(* every lookup that could not be read and of every drained source that    *)
(* could not, and counts the rejected documents of each drained source; a  *)
(* processing run that did not fail has drained every source.              *)
(***************************************************************************)
Witnessed(r) ==
    /\ \A l \in LookupNames : lookup[l] = "bad" => <<l, "warning">> \in r.events
    /\ \A s \in r.sources :
         /\ summary[s].errors <= r.errors
         /\ summary[s].read = "unparsed" => <<s, "error">> \in r.events

Earned ==
    /\ phase \in {"started", "processing", "draining", "closing", "saved", "local"}
         => report.outcome # "none"
    /\ kind = "elasticsearch" =>
         /\ report.outcome # "none" => Witnessed(report)
         /\ remote.outcome # "none" => Witnessed(remote)
    /\ \A s \in Sources : src[s] \in {"sending", "sent"} => summary[s].read = Reading(s)
    /\ kind = "elasticsearch" /\ ~errored
       /\ (phase \in {"draining", "closing", "saved", "local"} \/ remote.outcome # "none")
         => \A s \in Sources : src[s] = "sent"

EarnedInv == IndInv /\ Earned

\* add_processor_summary keeps what was witnessed and adds the drained source.
LEMMA SummaryWitnessed ==
    ASSUME TypeOK, NEW r \in Reports, NEW s \in Sources, summary[s] \in Summaries, Witnessed(r)
    PROVE  Witnessed(AddSummary(r, s, summary[s]))
<1> DEFINE m == summary[s]
           n == AddSummary(r, s, m)
<1>1. /\ n.events = r.events \cup SummaryEvents(s, m) /\ n.errors = r.errors + m.errors
      /\ n.sources = r.sources \cup {s}
  BY DEF AddSummary, WithOutcome, Reports
<1>2. m.errors \in Nat /\ r.errors \in Nat
  BY BoundsAssumption DEF Summaries, Reports
<1>3. \A o \in r.sources : summary[o].errors \in Nat
  <2>1. \A o \in r.sources : summary[o] \in Summaries
    BY DEF TypeOK, Reports
  <2> QED
    BY <2>1, BoundsAssumption DEF Summaries
<1>4. m.read = "unparsed" => <<s, "error">> \in SummaryEvents(s, m)
  BY DEF SummaryEvents
<1> HIDE DEF n
<1>5. \A l \in LookupNames : lookup[l] = "bad" => <<l, "warning">> \in n.events
  BY <1>1 DEF Witnessed
<1>6. ASSUME NEW o \in n.sources
      PROVE  /\ summary[o].errors <= n.errors
             /\ summary[o].read = "unparsed" => <<o, "error">> \in n.events
  <2>1. CASE o = s
    BY <1>1, <1>2, <1>4, <2>1
  <2>2. CASE o # s
    <3>1. o \in r.sources
      BY <1>1, <2>2
    <3> QED
      BY <1>1, <1>2, <1>3, <3>1 DEF Witnessed
  <2> QED
    BY <2>1, <2>2
<1> QED
  BY <1>5, <1>6 DEF Witnessed, n

\* record_event takes nothing back.
LEMMA EventWitnessed ==
    ASSUME NEW r \in Reports, NEW o \in Origins, Witnessed(r)
    PROVE  Witnessed(RecordEvent(r, o, "error"))
<1> DEFINE n == RecordEvent(r, o, "error")
<1>1. n.events = r.events \cup {<<o, "error">>} /\ n.errors = r.errors /\ n.sources = r.sources
  BY DEF RecordEvent, WithOutcome, Reports
<1> HIDE DEF n
<1> QED
  BY <1>1 DEF Witnessed, n

\* The report starts with an event of every lookup that could not be read.
LEMMA NewWitnessed ==
    ASSUME kind = "elasticsearch"
    PROVE  Witnessed(NewReport)
<1>1. /\ NewReport.events = {<<l, "warning">> : l \in {n \in LookupNames : lookup[n] = "bad"}}
      /\ NewReport.sources = {}
  BY DEF NewReport, WithOutcome
<1> QED
  BY <1>1 DEF Witnessed

\* The steps that keep the inputs, the summaries and the processors' progress.
LEMMA MainEarned ==
    ASSUME EarnedInv, IndInv', MainStep
    PROVE  Earned'
<1> USE DEF inputs, work
<1>0. report \in Reports /\ {"report", "report.json"} \subseteq Origins
  BY DEF EarnedInv, IndInv, TypeOK, Origins
<1>1. /\ kind' = kind /\ lookup' = lookup /\ bundle' = bundle /\ src' = src /\ summary' = summary
  BY DEF MainStep, StartFails, Start, ProcessRuns, ProcessFails, ProcessEnds, Drained,
         SaveReport, SaveReportFails, SaveLocal, SaveLocalFails, Conclude
<1>2. \A s \in Sources : src'[s] \in {"sending", "sent"} => summary'[s].read = Reading(s)'
  BY <1>1 DEF EarnedInv, Earned, Reading, Lazily
<1>3. \A r : Witnessed(r)' <=> Witnessed(r)
  BY <1>1 DEF Witnessed
<1>4. ASSUME kind = "elasticsearch", report'.outcome # "none"
      PROVE  Witnessed(report')
  <2>1. CASE Start
    BY <1>4, <2>1, NewWitnessed DEF Start
  <2>2. CASE SaveReportFails \/ SaveLocalFails
    <3>1. PICK o \in Origins : report' = RecordEvent(report, o, "error")
      BY <1>0, <2>2 DEF SaveReportFails, SaveLocalFails
    <3>2. report.outcome # "none"
      BY <2>2 DEF EarnedInv, Earned, SaveReportFails, SaveLocalFails
    <3> QED
      BY <1>0, <1>4, <3>1, <3>2, EventWitnessed DEF EarnedInv, Earned
  <2>3. CASE report' = report
    BY <1>4, <2>3 DEF EarnedInv, Earned
  <2> QED
    BY <2>1, <2>2, <2>3
       DEF MainStep, StartFails, ProcessRuns, ProcessFails, ProcessEnds, Drained,
           SaveReport, SaveLocal, Conclude
<1>5. ASSUME kind = "elasticsearch", remote'.outcome # "none"
      PROVE  Witnessed(remote')
  <2>1. remote' = remote \/ (remote' = report /\ phase = "closing")
    BY DEF MainStep, StartFails, Start, ProcessRuns, ProcessFails, ProcessEnds, Drained,
           SaveReport, SaveReportFails, SaveLocal, SaveLocalFails, Conclude
  <2> QED
    BY <1>5, <2>1 DEF EarnedInv, Earned
<1>6. phase' \in {"started", "processing", "draining", "closing", "saved", "local"}
        => report'.outcome # "none"
  <2>1. CASE Start
    BY <2>1, NewReportFacts DEF Start, EarnedInv, IndInv
  <2>2. CASE SaveReportFails \/ SaveLocalFails
    BY <1>0, <2>2, RecordEventFacts DEF SaveReportFails, SaveLocalFails
  <2>3. CASE report' = report /\ ~Start
    BY <2>3 DEF EarnedInv, Earned, MainStep, StartFails, ProcessRuns, ProcessFails,
       ProcessEnds, Drained, SaveReport, SaveReportFails, SaveLocal, SaveLocalFails, Conclude
  <2> QED
    BY <2>1, <2>2, <2>3
       DEF MainStep, StartFails, ProcessRuns, ProcessFails, ProcessEnds, Drained,
           SaveReport, SaveLocal, Conclude
<1>7. ASSUME kind = "elasticsearch", ~errored',
             phase' \in {"draining", "closing", "saved", "local"} \/ remote'.outcome # "none"
      PROVE  \A s \in Sources : src'[s] = "sent"
  <2>1. phase \in {"ready", "started", "processing"} => remote.outcome = "none"
    BY NoReportFacts DEF EarnedInv, IndInv, Persisted
  <2>2. CASE ProcessEnds
    BY <1>7, <2>2 DEF ProcessEnds
  <2>3. CASE ~ProcessEnds
    <3>1. /\ ~errored
          /\ phase \in {"draining", "closing", "saved", "local"} \/ remote.outcome # "none"
      BY <1>7, <2>1, <2>3 DEF MainStep, StartFails, Start, ProcessRuns, ProcessFails, Drained,
         SaveReport, SaveReportFails, SaveLocal, SaveLocalFails, Conclude
    <3> QED
      BY <1>1, <1>7, <3>1 DEF EarnedInv, Earned
  <2> QED
    BY <2>2, <2>3
<1> QED
  BY <1>1, <1>2, <1>3, <1>4, <1>5, <1>6, <1>7 DEF Earned

\* The steps of the processors and of the summary task.
LEMMA SourceEarned ==
    ASSUME EarnedInv, IndInv', NEW s \in Sources, SourceStep(s)
    PROVE  Earned'
<1> USE DEF inputs, work
<1>0. /\ TypeOK /\ report \in Reports /\ summary \in [Sources -> Summaries]
      /\ src \in [Sources -> {"waiting", "running", "sending", "sent"}]
      /\ report.sources = Sent \ queue /\ queue \subseteq Sent
  BY DEF EarnedInv, IndInv, TypeOK, Progress
<1>1. /\ kind' = kind /\ lookup' = lookup /\ bundle' = bundle /\ remote' = remote
  BY DEF SourceStep, Begin, Process, SourceFails, Send, Drain
<1>2. phase \in {"ready", "started", "processing"} => remote.outcome = "none"
  BY NoReportFacts DEF EarnedInv, IndInv, Persisted
<1>3. CASE Begin(s)
  BY <1>0, <1>1, <1>2, <1>3 DEF EarnedInv, Earned, Witnessed, Begin, Reading, Lazily
<1>4. CASE Process(s)
  <2>1. /\ phase = "processing" /\ phase' = phase /\ src[s] = "running" /\ errored' = errored
        /\ src' = [src EXCEPT ![s] = "sending"] /\ report' = report
    BY <1>4 DEF Process
  <2>2. PICK m \in Exports(s) : summary' = [summary EXCEPT ![s] = m]
    BY <1>4 DEF Process
  <2>3. m.read = Reading(s)
    BY DEF Exports
  <2>4. s \notin report.sources
    BY <1>0, <2>1 DEF Sent
  <2>5. \A o \in Sources : o # s => summary'[o] = summary[o] /\ src'[o] = src[o]
    BY <1>0, <2>1, <2>2
  <2>6. summary'[s] = m /\ src'[s] = "sending"
    BY <1>0, <2>1, <2>2
  <2>7. \A o \in Sources : src'[o] \in {"sending", "sent"} => summary'[o].read = Reading(o)'
    BY <1>1, <2>3, <2>5, <2>6 DEF EarnedInv, Earned, Reading, Lazily
  <2>8. Witnessed(report) => Witnessed(report)'
    <3>1. \A o \in report.sources : summary'[o] = summary[o]
      BY <1>0, <2>4, <2>5 DEF Sent
    <3> QED
      BY <1>1, <2>1, <3>1 DEF Witnessed
  <2> QED
    BY <1>1, <1>2, <2>1, <2>7, <2>8 DEF EarnedInv, Earned
<1>5. CASE SourceFails(s)
  BY <1>0, <1>1, <1>2, <1>5 DEF EarnedInv, Earned, Witnessed, SourceFails, Reading, Lazily
<1>6. CASE Send(s)
  BY <1>0, <1>1, <1>2, <1>6 DEF EarnedInv, Earned, Witnessed, Send, Reading, Lazily
<1>7. CASE Drain(s)
  <2>1. /\ src' = src /\ summary' = summary /\ phase' = phase /\ errored' = errored
        /\ report' = AddSummary(report, s, summary[s])
    BY <1>7 DEF Drain
  <2>2. report'.outcome # "none" /\ phase \in {"processing", "draining"}
    BY <1>0, <1>7, <2>1, AddSummaryFacts DEF Drain, EarnedInv, IndInv, TypeOK, Progress, Sent
  <2>3. kind = "elasticsearch" => Witnessed(report')
    BY <1>0, <2>1, <2>2, SummaryWitnessed DEF EarnedInv, Earned
  <2>4. \A r : Witnessed(r)' <=> Witnessed(r')
    BY <1>1, <2>1 DEF Witnessed
  <2>5. Witnessed(report)' <=> Witnessed(report')
    BY <1>1, <2>1 DEF Witnessed
  <2>6. Witnessed(remote)' <=> Witnessed(remote)
    BY <1>1, <2>1 DEF Witnessed
  <2>7. \A o \in Sources : src'[o] \in {"sending", "sent"} => summary'[o].read = Reading(o)'
    BY <1>1, <2>1 DEF EarnedInv, Earned, Reading, Lazily
  <2> QED
    BY <1>1, <2>1, <2>2, <2>3, <2>5, <2>6, <2>7 DEF EarnedInv, Earned
<1> QED
  BY <1>3, <1>4, <1>5, <1>6, <1>7 DEF SourceStep

LEMMA InitEarned == Init => EarnedInv
<1>1. Init => Earned
  BY NoReportFacts DEF Init, Earned
<1> QED
  BY <1>1, InitInv DEF EarnedInv

LEMMA StepEarned == EarnedInv /\ [Next]_vars => EarnedInv'
<1> SUFFICES ASSUME EarnedInv, [Next]_vars  PROVE EarnedInv'
  OBVIOUS
<1>0. IndInv'
  BY StepInv DEF EarnedInv
<1>1. CASE MainStep
  BY <1>0, <1>1, MainEarned DEF EarnedInv
<1>2. CASE \E s \in Sources : SourceStep(s)
  BY <1>0, <1>2, SourceEarned DEF EarnedInv
<1>3. CASE UNCHANGED vars
  BY <1>0, <1>3 DEF EarnedInv, Earned, Witnessed, Reading, Lazily, vars, inputs, work
<1> QED
  BY <1>1, <1>2, <1>3 DEF Next, Terminated

\* What the invariant says of a saved report whose verdict is complete.
LEMMA CleanFollows == EarnedInv => CompleteIsClean
<1> SUFFICES ASSUME EarnedInv, kind = "elasticsearch", ~errored, remote.outcome = "complete"
             PROVE  /\ \A s \in Sources : bundle[s] = "bad" => s \in Streamed
                    /\ \A s \in Sources : summary[s].errors = 0
                    /\ \A l \in LookupNames : lookup[l] # "bad"
  BY DEF CompleteIsClean
<1>1. /\ remote \in Reports /\ Witnessed(remote)
      /\ \A s \in Sources : src[s] = "sent" /\ summary[s].read = Reading(s)
      /\ \A s \in Sources : summary[s] \in Summaries
      /\ remote.outcome = DeriveOutcome(remote.events, remote.created, remote.errors)
      /\ remote.sources = {s \in Sources : src[s] = "sent"}
  BY DEF EarnedInv, IndInv, Earned, TypeOK, OutcomeDerived, SavedHoldsEverySummary
<1>2. remote.errors \in Nat /\ remote.created \in Nat
  BY <1>1 DEF Reports
<1>3. remote.errors = 0 /\ ~ \E e \in remote.events : e[2] \in {"error", "warning"}
  BY <1>1, <1>2 DEF DeriveOutcome
<1>4. \A s \in Sources : s \in remote.sources
  BY <1>1
<1>5. ASSUME NEW s \in Sources  PROVE summary[s].errors = 0 /\ (bundle[s] = "bad" => s \in Streamed)
  <2>1. summary[s].errors \in Nat /\ summary[s].errors <= remote.errors
    <3>1. summary[s].errors \in 0..MaxDocs
      BY <1>1 DEF Summaries
    <3>2. summary[s].errors \in Nat
      BY <3>1, BoundsAssumption
    <3>3. summary[s].errors <= remote.errors
      BY <1>1, <1>4 DEF Witnessed
    <3> QED
      BY <3>2, <3>3
  <2>2. summary[s].read # "unparsed"
    <3>1. <<s, "error">>[2] = "error"
      OBVIOUS
    <3> QED
      BY <1>1, <1>3, <1>4, <3>1 DEF Witnessed
  <2> QED
    BY <1>1, <1>3, <2>1, <2>2 DEF Reading, Lazily
<1>6. ASSUME NEW l \in LookupNames  PROVE lookup[l] # "bad"
  <2>1. <<l, "warning">>[2] = "warning"
    OBVIOUS
  <2> QED
    BY <1>1, <1>3, <2>1 DEF Witnessed
<1> QED
  BY <1>5, <1>6

(***************************************************************************)
(* A persisted "complete" of an Elasticsearch diagnostic is earned, for    *)
(* any number of sources and lookups and whatever order their processors   *)
(* report in: no source was unreadable as a whole, no document was         *)
(* rejected and every lookup could be read.                                *)
(***************************************************************************)
THEOREM CleanIsEarned == Spec => []ProcessSound
<1>1. EarnedInv => ProcessSound
  BY CleanFollows DEF ProcessSound, EarnedInv, IndInv
<1> QED
  BY <1>1, InitEarned, StepEarned, PTL DEF Spec
=============================================================================
