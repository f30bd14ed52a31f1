-------------------------- MODULE DiagnosticProcess --------------------------
(***************************************************************************)
(* Processing one diagnostic bundle (src/processor/mod.rs): build the      *)
(* report and its lookups, run the processors of the sources, heavy ones   *)
(* concurrently and light ones in sequence, drain their summaries into the *)
(* report, and persist it.  The verdict is derived from the recorded       *)
(* events (src/processor/diagnostic/report.rs, ADR-0016).                  *)
(*                                                                         *)
(* What a source exports is the business of BulkExport: here an export is  *)
(* a pair of counts.  The bundle, the lookups and the manifest's request   *)
(* log are inputs and never change.                                        *)
(***************************************************************************)
EXTENDS Integers, FiniteSets

CONSTANTS
    Sources,      \* the selected processable sources
    Streamed,     \* sources the registry marks streamable
    Heavy,        \* sources whose weight gives them a task of their own
    LookupNames,  \* the enrichment lookups
    Capacity,     \* of the summary channel
    MaxDocs       \* bound: documents created or rejected per source

ASSUME SourcesAssumption ==
    /\ IsFiniteSet(Sources)
    /\ Streamed \subseteq Sources
    /\ Heavy \subseteq Sources
    /\ Sources \cap LookupNames = {}
    /\ {"report", "report.json"} \cap (Sources \cup LookupNames) = {}

ASSUME BoundsAssumption == Capacity \in Nat \ {0} /\ MaxDocs \in Nat

VARIABLES
    kind,       \* which Diagnostic the manifest selects
    exporter,   \* "elasticsearch" also keeps a local copy of the report
    bundle,     \* what each source holds
    refused,    \* sources the manifest lists with a failed request
    lookup,     \* how each lookup reads
    phase,      \* of Processor<_>
    src,        \* progress of each source's processor
    summary,    \* the ProcessorSummary a processor produced
    queue,      \* summaries in the channel
    report,     \* the DiagnosticReport being built
    errored,    \* process() returned Err
    remote,     \* the report the exporter saved
    local,      \* the report.json recovery copy
    result      \* Processor<Completed> or Processor<Failed>

inputs == <<kind, exporter, bundle, refused, lookup>>
work == <<src, summary, queue>>
vars == <<inputs, phase, work, report, errored, remote, local, result>>

-----------------------------------------------------------------------------
(* The report. *)
Severities == {"error", "warning", "success"}
\* Both failures to save name the source "report"; their reasons differ, and
\* "report.json" stands for the second.
Origins == Sources \cup LookupNames \cup {"report", "report.json"}

\* Mutant: an attempt that was rejected does not count as a failure signal.
DeriveFromEvents(events, created, errors) ==
    IF ~ \E e \in events : e[2] = "error" THEN "complete"
    ELSE IF created > 0 THEN "partial" ELSE "failed"

DeriveOutcome(events, created, errors) ==
    LET signal == errors > 0 \/ \E e \in events : e[2] \in {"error", "warning"}
        produced == created + errors > 0 \/ \E e \in events : e[2] = "success"
    IN IF signal /\ ~produced THEN "failed"
       ELSE IF signal THEN "partial"
       ELSE "complete"

WithOutcome(r) ==
    [r EXCEPT !.outcome = DeriveOutcome(r.events, r.created, r.errors)]

\* Mutant: the event is recorded and the verdict stays as it was.
RecordOnly(r, origin, severity) ==
    [r EXCEPT !.events = @ \cup {<<origin, severity>>}]

RecordEvent(r, origin, severity) ==
    WithOutcome([r EXCEPT !.events = @ \cup {<<origin, severity>>}])

\* add_single_processor_summary: the event a summary leaves.
SummaryEvents(s, m) ==
    IF m.read = "missing" THEN {}
    ELSE IF m.read = "unparsed" THEN {<<s, "error">>}
    ELSE IF m.errors > 0 THEN {<<s, "warning">>}
    ELSE {<<s, "success">>}

\* Mutant: the verdict of the last summary replaces the derived one.
AddSummaryLast(r, s, m) ==
    [r EXCEPT !.events = @ \cup SummaryEvents(s, m),
              !.created = @ + m.docs,
              !.errors = @ + m.errors,
              !.sources = @ \cup {s},
              !.outcome = DeriveOutcome(SummaryEvents(s, m), m.docs, m.errors)]

AddSummary(r, s, m) ==
    WithOutcome([r EXCEPT !.events = @ \cup SummaryEvents(s, m),
                          !.created = @ + m.docs,
                          !.errors = @ + m.errors,
                          !.sources = @ \cup {s}])

\* DiagnosticReportBuilder::build, add_lookup for each lookup.
NewReport ==
    LET collection == IF kind = "platform"
                      THEN {<<s, "warning">> : s \in refused} ELSE {}
        unread == IF kind = "elasticsearch"
                  THEN {<<l, "warning">> : l \in {n \in LookupNames : lookup[n] = "bad"}}
                  ELSE {}
    IN WithOutcome([events |-> collection \cup unread, created |-> 0, errors |-> 0,
                    sources |-> {}, outcome |-> "complete"])

NoReport == [events |-> {}, created |-> 0, errors |-> 0, sources |-> {},
             outcome |-> "none"]

Summaries == [read : {"parsed", "unparsed", "missing"}, docs : 0..MaxDocs,
              errors : 0..MaxDocs]

NoSummary == [read |-> "missing", docs |-> 0, errors |-> 0]

-----------------------------------------------------------------------------
Init ==
    /\ kind \in {"elasticsearch", "logstash", "platform"}
    /\ exporter \in {"elasticsearch", "local"}
    /\ bundle \in [Sources -> {"good", "bad", "missing"}]
    /\ refused \in SUBSET {s \in Sources : bundle[s] = "missing"}
    /\ lookup \in [LookupNames -> {"parsed", "missing", "bad"}]
    /\ phase = "ready"
    /\ src = [s \in Sources |-> "waiting"]
    /\ summary = [s \in Sources |-> NoSummary]
    /\ queue = {}
    /\ report = NoReport
    /\ errored = FALSE
    /\ remote = NoReport
    /\ local = NoReport
    /\ result = "none"

\* Diagnostic::try_new: a product that is not processed, no version, no manifest.
StartFails ==
    /\ phase = "ready"
    /\ phase' = "done"
    /\ result' = "failed"
    /\ UNCHANGED <<inputs, work, report, errored, remote, local>>

Start ==
    /\ phase = "ready"
    /\ phase' = "started"
    /\ report' = NewReport
    /\ UNCHANGED <<inputs, work, errored, remote, local, result>>

\* process(): the Elasticsearch diagnostic first checks the exporter; a debug
\* dump or the registry check may fail for both products.
ProcessRuns ==
    /\ phase = "started"
    /\ phase' = "processing"
    /\ UNCHANGED <<inputs, work, report, errored, remote, local, result>>

ProcessFails ==
    /\ phase = "started"
    /\ kind # "platform"
    /\ phase' = "draining"
    /\ errored' = TRUE
    /\ UNCHANGED <<inputs, work, report, remote, local, result>>

(***************************************************************************)
(* Heavy sources of Elasticsearch run at once; the others wait for the one *)
(* before them.                                                            *)
(***************************************************************************)
Concurrent(s) == kind = "elasticsearch" /\ s \in Heavy

Begin(s) ==
    /\ phase = "processing"
    /\ kind # "platform"
    /\ src[s] = "waiting"
    /\ \/ Concurrent(s)
       \/ ~ \E o \in Sources : ~Concurrent(o) /\ src[o] \in {"running", "sending"}
    /\ src' = [src EXCEPT ![s] = "running"]
    /\ UNCHANGED <<inputs, phase, summary, queue, report, errored, remote, local,
                   result>>

(***************************************************************************)
(* What a processor makes of its source.  A stream is opened without       *)
(* reading it: a missing or unreadable one shows only as an error item,    *)
(* which the streaming processors log and skip.                            *)
(***************************************************************************)
Lazily(s) == kind = "elasticsearch" /\ s \in Streamed

\* Mutant: a source that cannot be read is taken for one that is absent.
ReadingLenient(s) ==
    IF bundle[s] = "good" \/ Lazily(s)
    THEN "parsed" ELSE "missing"

Reading(s) ==
    IF bundle[s] = "good" \/ Lazily(s)
    THEN "parsed"
    ELSE IF bundle[s] = "missing" THEN "missing" ELSE "unparsed"

Exports(s) ==
    {m \in Summaries :
       /\ m.read = Reading(s)
       /\ (m.read # "parsed" \/ bundle[s] = "missing") => m.docs = 0 /\ m.errors = 0}

Process(s) ==
    /\ phase = "processing"
    /\ src[s] = "running"
    /\ ~(kind = "logstash" /\ bundle[s] = "bad")
    /\ \E m \in Exports(s) : summary' = [summary EXCEPT ![s] = m]
    /\ src' = [src EXCEPT ![s] = "sending"]
    /\ UNCHANGED <<inputs, phase, queue, report, errored, remote, local, result>>

\* The Logstash processor gives up at the first source it cannot read.
SourceFails(s) ==
    /\ phase = "processing"
    /\ src[s] = "running"
    /\ kind = "logstash"
    /\ bundle[s] = "bad"
    /\ phase' = "draining"
    /\ errored' = TRUE
    /\ UNCHANGED <<inputs, work, report, remote, local, result>>

\* Mutant: the summary is pushed whether or not there is a place.
SendUnbounded(s) ==
    /\ src[s] = "sending"
    /\ queue' = queue \cup {s}
    /\ src' = [src EXCEPT ![s] = "sent"]
    /\ UNCHANGED <<inputs, phase, summary, report, errored, remote, local, result>>

\* summary_tx.send waits for a place in the channel.
Send(s) ==
    /\ src[s] = "sending"
    /\ Cardinality(queue) < Capacity
    /\ queue' = queue \cup {s}
    /\ src' = [src EXCEPT ![s] = "sent"]
    /\ UNCHANGED <<inputs, phase, summary, report, errored, remote, local, result>>

\* The summary task drains the channel until its senders are gone.
Drain(s) ==
    /\ s \in queue
    /\ queue' = queue \ {s}
    /\ report' = AddSummary(report, s, summary[s])
    /\ UNCHANGED <<inputs, phase, src, summary, errored, remote, local, result>>

ProcessEnds ==
    /\ phase = "processing"
    /\ kind = "platform" \/ \A s \in Sources : src[s] = "sent"
    /\ phase' = "draining"
    /\ UNCHANGED <<inputs, work, report, errored, remote, local, result>>

\* Mutant: the report is taken before the channel is empty.
NotAwaited ==
    /\ phase = "draining"
    /\ phase' = "closing"
    /\ UNCHANGED <<inputs, work, report, errored, remote, local, result>>

\* Mutant: the summary task counts the sources instead of waiting for the
\* channel to close.
DrainedByCount ==
    /\ phase = "draining"
    /\ report.sources = Sources
    /\ phase' = "closing"
    /\ UNCHANGED <<inputs, work, report, errored, remote, local, result>>

\* summary_handle.await.
Drained ==
    /\ phase = "draining"
    /\ queue = {}
    /\ phase' = "closing"
    /\ UNCHANGED <<inputs, work, report, errored, remote, local, result>>

SaveReport ==
    /\ phase = "closing"
    /\ remote' = report
    /\ phase' = "saved"
    /\ UNCHANGED <<inputs, work, report, errored, local, result>>

SaveReportFails ==
    /\ phase = "closing"
    /\ report' = RecordEvent(report, "report", "error")
    /\ phase' = "saved"
    /\ UNCHANGED <<inputs, work, errored, remote, local, result>>

\* Mutant: the recovery copy is skipped when the remote report failed.
SaveLocalUnlessFailed ==
    /\ phase = "saved"
    /\ exporter = "elasticsearch"
    /\ local' = IF remote = NoReport THEN NoReport ELSE report
    /\ phase' = "local"
    /\ UNCHANGED <<inputs, work, report, errored, remote, result>>

SaveLocal ==
    /\ phase = "saved"
    /\ exporter = "elasticsearch"
    /\ local' = report
    /\ phase' = "local"
    /\ UNCHANGED <<inputs, work, report, errored, remote, result>>

SaveLocalFails ==
    /\ phase = "saved"
    /\ exporter = "elasticsearch"
    /\ report' = RecordEvent(report, "report.json", "error")
    /\ phase' = "local"
    /\ UNCHANGED <<inputs, work, errored, remote, local, result>>

ReportErrored == \E o \in {"report", "report.json"} : <<o, "error">> \in report.events

\* Mutant: only process() decides; a report nobody can find is a success.
ConcludeProcessOnly ==
    /\ phase = "local" \/ (phase = "saved" /\ exporter = "local")
    /\ result' = IF errored THEN "failed" ELSE "completed"
    /\ phase' = "done"
    /\ UNCHANGED <<inputs, work, report, errored, remote, local>>

\* process_error.or(report_error)
Conclude ==
    /\ phase = "local" \/ (phase = "saved" /\ exporter = "local")
    /\ result' = IF errored \/ ReportErrored THEN "failed" ELSE "completed"
    /\ phase' = "done"
    /\ UNCHANGED <<inputs, work, report, errored, remote, local>>

SourceStep(s) ==
    Begin(s) \/ Process(s) \/ SourceFails(s) \/ Send(s) \/ Drain(s)

MainStep ==
    \/ StartFails \/ Start \/ ProcessRuns \/ ProcessFails \/ ProcessEnds
    \/ Drained \/ SaveReport \/ SaveReportFails \/ SaveLocal \/ SaveLocalFails
    \/ Conclude

Terminated == phase = "done" /\ UNCHANGED vars

Next == MainStep \/ (\E s \in Sources : SourceStep(s)) \/ Terminated

Spec == Init /\ [][Next]_vars

(***************************************************************************)
(* A live host is asked for the manifest at the start and for each source, *)
(* without a time limit.                                                   *)
(***************************************************************************)
AwaitsManifest == phase = "ready"

AwaitsSource(s) == src[s] = "running" /\ phase = "processing"

(***************************************************************************)
(* Each processor, the summary task and process() itself are polled while  *)
(* they can advance, and exports end (BulkExport).  That a live host ever  *)
(* answers is not assumed.                                                 *)
(***************************************************************************)
FairSpec ==
    /\ Spec
    /\ WF_vars(~AwaitsManifest /\ MainStep)
    /\ \A s \in Sources : /\ WF_vars(~AwaitsSource(s) /\ SourceStep(s))
                          /\ WF_vars(Drain(s))

-----------------------------------------------------------------------------
Reports ==
    [events : SUBSET (Origins \X Severities), created : Nat, errors : Nat,
     sources : SUBSET Sources,
     outcome : {"none", "complete", "partial", "failed"}]

\* The shape of the processor's state.
TypeOK ==
    /\ kind \in {"elasticsearch", "logstash", "platform"}
    /\ exporter \in {"elasticsearch", "local"}
    /\ bundle \in [Sources -> {"good", "bad", "missing"}]
    /\ refused \in SUBSET Sources
    /\ lookup \in [LookupNames -> {"parsed", "missing", "bad"}]
    /\ phase \in {"ready", "started", "processing", "draining", "closing",
                  "saved", "local", "done"}
    /\ src \in [Sources -> {"waiting", "running", "sending", "sent"}]
    /\ summary \in [Sources -> Summaries]
    /\ queue \in SUBSET Sources
    /\ Cardinality(queue) <= Capacity
    /\ report \in Reports
    /\ errored \in BOOLEAN
    /\ remote \in Reports
    /\ local \in Reports
    /\ result \in {"none", "completed", "failed"}

(***************************************************************************)
(* "always equal to derive_outcome(&events, &docs)" (report.rs): whatever  *)
(* is recorded, by whichever call, the stored verdict follows.             *)
(***************************************************************************)
OutcomeDerived ==
    \A r \in {report, remote, local} :
      r.outcome # "none" => r.outcome = DeriveOutcome(r.events, r.created, r.errors)

(***************************************************************************)
(* Once the report is persisted it holds the summary of every processor    *)
(* that finished: nothing is still in the channel when it is saved.        *)
(***************************************************************************)
SavedHoldsEverySummary ==
    \A r \in {remote, local} :
      r.outcome # "none" => r.sources = {s \in Sources : src[s] = "sent"}

(***************************************************************************)
(* A diagnostic whose sources were read in full and whose exports were     *)
(* accepted is the only one that is complete: an Elasticsearch source that *)
(* is read as a whole and fails, a rejected document or an unread lookup   *)
(* shows in the verdict that is persisted.                                 *)
(***************************************************************************)
CompleteIsClean ==
    kind = "elasticsearch" /\ ~errored /\ remote.outcome = "complete" =>
      /\ \A s \in Sources : bundle[s] = "bad" => s \in Streamed
      /\ \A s \in Sources : summary[s].errors = 0
      /\ \A l \in LookupNames : lookup[l] # "bad"

(***************************************************************************)
(* A Processor<Completed> has been persisted as it stands: everywhere the  *)
(* exporter keeps it, with the verdict the caller sees.                    *)
(***************************************************************************)
CompletedIsPersisted ==
    result = "completed" =>
      /\ remote = report
      /\ exporter = "elasticsearch" => local = report

(***************************************************************************)
(* "Save the definitive outcome once, after the remote report attempt":    *)
(* unless the local write itself failed, the recovery copy is the report   *)
(* the caller gets, a failure to save it remotely included.                *)
(***************************************************************************)
RecoveryCopyDefinitive ==
    /\ phase = "done"
    /\ exporter = "elasticsearch"
    /\ report.outcome # "none"
    /\ <<"report.json", "error">> \notin report.events
    => local = report

(***************************************************************************)
(* What is persisted is the whole report and the same report everywhere.   *)
(***************************************************************************)
ReportPersisted == SavedHoldsEverySummary /\ CompletedIsPersisted /\ RecoveryCopyDefinitive

\* The state of a run is well formed and a clean verdict is earned.
ProcessSound == TypeOK /\ CompleteIsClean

\* A verdict below complete is never taken back while the report grows.
VerdictNeverImproves ==
    [][report.outcome \in {"partial", "failed"}
         => report'.outcome # "complete"]_vars

\* The host answers for its manifest and for every source, or breaks off.
HostAnswers == []<>~AwaitsManifest /\ \A s \in Sources : []<>~AwaitsSource(s)

\* Only a host that stays silent keeps a processing run from ending: the
\* processors, the bounded channel and the summary task never wait for each
\* other in a circle, also when one of them gives up half-way.
Termination == HostAnswers => <>(phase = "done")

(***************************************************************************)
(* Refuted by TLC, see the README.  What the document                      *)
(* openspec/specs/diagnostic-reporting/spec.md says: "the report MUST record a *)
(* failure event" when a source cannot be collected.                       *)
(***************************************************************************)
CollectionFailureRecorded ==
    remote.outcome # "none" => \A s \in refused : \E e \in remote.events :
                                 e[1] = s /\ e[2] \in {"error", "warning"}

(***************************************************************************)
(* Refuted likewise.  The same specification on processing: a source that fails leaves a      *)
(* failure event, not only a log line.                                     *)
(***************************************************************************)
SourceFailureRecorded ==
    remote.outcome # "none" =>
      \A s \in Sources :
        src[s] \in {"running", "sent"} /\ bundle[s] = "bad"
          => \E e \in remote.events : e[1] = s /\ e[2] \in {"error", "warning"}
=============================================================================
