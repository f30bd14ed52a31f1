----------------------------- MODULE BulkExport -----------------------------
(***************************************************************************)
(* The document pipeline of one diagnostic: every data stream has a        *)
(* document_channel (src/exporter/mod.rs) that groups the documents it     *)
(* receives into batches, and every batch is a task that sends bulk        *)
(* sub-batches to the output cluster (src/exporter/elasticsearch.rs).  The *)
(* channels of one exporter share its semaphore tx_limit.  The responses   *)
(* are merged (src/processor/diagnostic/report.rs) into the counts the     *)
(* report publishes.                                                       *)
(*                                                                         *)
(* Documents are counted, not named.  The cluster is external: a request   *)
(* ends in any of the answers parse_response tells apart.  `indexed` and   *)
(* `retried` are history variables: what the cluster really stored and how *)
(* often a request was really repeated.                                    *)
(***************************************************************************)
EXTENDS Integers, FiniteSets

CONSTANTS
    Channels,     \* the data streams exported at the same time
    Documents,    \* bound: documents a channel receives
    BatchSize,    \* batch_size of document_channel
    EsBulkSize,   \* ESDIAG_ES_BULK_SIZE
    TaskLimit,    \* ESDIAG_OUTPUT_TASK_LIMIT
    MaxRetries,   \* ESDIAG_EXPORT_RETRY_MAX
    Unexpected    \* statuses outside parse_response's list the output may send

ASSUME SizesAssumption ==
    /\ IsFiniteSet(Channels)
    /\ Documents \in Nat
    /\ BatchSize \in Nat \ {0}
    /\ EsBulkSize \in Nat
    /\ MaxRetries \in Nat

ASSUME LimitAssumption == TaskLimit \in Nat \ {0}

ASSUME StatusAssumption == Unexpected \subseteq 201..428

VARIABLES
    exporter,   \* which exporter the diagnostic writes to
    phase,      \* document_channel: receiving, awaiting its batches, returned
    received,   \* documents taken off the channel
    held,       \* documents in the accumulator
    sent,       \* batches handed to tx, batch_receivers.len()
    awaited,    \* batch responses merged so far
    summary,    \* the channel's ProcessorSummary
    task,       \* the spawned batch tasks
    permits,    \* free permits of tx_limit
    indexed,    \* history: documents of a batch the output has stored
    retried     \* history: requests of a batch that were repeated

chanVars == <<phase, received, held, sent, awaited, summary>>
vars == <<exporter, chanVars, task, permits, indexed, retried>>

(***************************************************************************)
(* BatchResponse and ProcessorSummary.  A response counts the requests it  *)
(* stands for per status, the rejected documents whose destination the     *)
(* cluster named (attributed), and keeps one scalar status.                *)
(***************************************************************************)
NotCompleted == 599    \* HTTP_REQUEST_NOT_COMPLETED
TooMany == 429
Codes == {0, 200, TooMany, NotCompleted} \cup Unexpected

NoCounts == [c \in Codes |-> 0]

Smaller(a, b) == IF a < b THEN a ELSE b
Larger(a, b) == IF a < b THEN b ELSE a

New(docs, errors, retries, code) ==
    [batches |-> 1, docs |-> docs, errors |-> errors, attributed |-> errors,
     retries |-> retries, status |-> code, counts |-> NoCounts]

Aggregate ==
    [batches |-> 0, docs |-> 0, errors |-> 0, attributed |-> 0,
     retries |-> 0, status |-> 0, counts |-> NoCounts]

Failed(docs, code) ==
    [batches |-> 1, docs |-> 0, errors |-> docs, attributed |-> 0,
     retries |-> 0, status |-> code, counts |-> NoCounts]

CountsOf(r) ==
    IF r.counts = NoCounts
    THEN [NoCounts EXCEPT ![r.status] = r.batches]
    ELSE r.counts

\* Mutant: the mixed verdict collapses to 0, as it did before ADR-0016.
MergeStatusToZero(a, b) ==
    IF a.batches = 0 THEN b.status
    ELSE IF a.status = b.status THEN a.status ELSE 0

\* Mutant: the last request decides the verdict of the batch.
MergeStatusLast(a, b) == b.status

MergeStatus(a, b) ==
    IF a.status = 0 /\ a.batches = 0 THEN b.status
    ELSE IF b.status = 0 /\ b.errors = 0 THEN a.status
    ELSE IF (a.status >= 400) = (b.status >= 400) THEN Larger(a.status, b.status)
    ELSE IF a.status >= 400 THEN a.status ELSE b.status

MergeCounts(a, b) ==
    [c \in Codes |-> a.counts[c] + CountsOf(b)[c]]

Merge(a, b) ==
    [batches |-> a.batches + b.batches,
     docs |-> a.docs + b.docs,
     errors |-> a.errors + b.errors,
     attributed |-> a.attributed + b.attributed,
     retries |-> a.retries + b.retries,
     status |-> MergeStatus(a, b),
     counts |-> MergeCounts(a, b)]

NewSummary ==
    [batches |-> 0, docs |-> 0, errors |-> 0, rejected |-> 0,
     retries |-> 0, counts |-> NoCounts]

\* Mutant: documents lost without an answer are not attributed to any index.
AddBatchAttributed(s, r) ==
    [batches |-> s.batches + r.batches,
     docs |-> s.docs + r.docs,
     errors |-> s.errors + r.errors,
     rejected |-> s.rejected + r.attributed,
     retries |-> s.retries + r.retries,
     counts |-> [c \in Codes |-> s.counts[c] + CountsOf(r)[c]]]

AddBatch(s, r) ==
    IF r.batches = 0 /\ r.docs = 0 /\ r.errors = 0 THEN s
    ELSE [batches |-> s.batches + r.batches,
          docs |-> s.docs + r.docs,
          errors |-> s.errors + r.errors,
          rejected |-> s.rejected + r.attributed
                         + Larger(0, r.errors - r.attributed),
          retries |-> s.retries + r.retries,
          counts |-> [c \in Codes |-> s.counts[c] + CountsOf(r)[c]]]

-----------------------------------------------------------------------------
(* Batches of a channel are numbered in the order it hands them to tx. *)
Tasks == Channels \X (1..Documents)

BulkSize == Larger(EsBulkSize, 1)

NoTask ==
    [state |-> "none", size |-> 0, left |-> 0, bulk |-> 0, attempt |-> 0,
     resp |-> Aggregate]

Init ==
    /\ exporter \in {"elasticsearch", "local"}
    /\ phase = [c \in Channels |-> "receiving"]
    /\ received = [c \in Channels |-> 0]
    /\ held = [c \in Channels |-> 0]
    /\ sent = [c \in Channels |-> 0]
    /\ awaited = [c \in Channels |-> 0]
    /\ summary = [c \in Channels |-> NewSummary]
    /\ task = [t \in Tasks |-> NoTask]
    /\ permits = TaskLimit
    /\ indexed = [t \in Tasks |-> 0]
    /\ retried = [t \in Tasks |-> 0]

(***************************************************************************)
(* tx.  The Elasticsearch exporter spawns a task that first waits for a    *)
(* permit; the file, directory and stream exporters write the batch before *)
(* they return, and a failed write may leave any part of it behind.        *)
(***************************************************************************)
Spawned(n) == [NoTask EXCEPT !.state = "queued", !.size = n, !.left = n]

Written(n, ok) ==
    [NoTask EXCEPT !.state = "answered", !.size = n,
                   !.resp = IF ok THEN New(n, 0, 0, 0) ELSE Failed(n, 0)]

Tx(c, n) ==
    LET t == <<c, sent[c] + 1>>
    IN /\ sent' = [sent EXCEPT ![c] = @ + 1]
       /\ \/ /\ exporter = "elasticsearch"
             /\ task' = [task EXCEPT ![t] = Spawned(n)]
             /\ UNCHANGED indexed
          \/ /\ exporter = "local"
             /\ task' = [task EXCEPT ![t] = Written(n, TRUE)]
             /\ indexed' = [indexed EXCEPT ![t] = n]
          \/ /\ exporter = "local"
             /\ \E k \in 0..n : indexed' = [indexed EXCEPT ![t] = k]
             /\ task' = [task EXCEPT ![t] = Written(n, FALSE)]

\* rx.recv() yields a document; a full accumulator goes out at once.
Receive(c) ==
    /\ phase[c] = "receiving"
    /\ received[c] < Documents
    /\ received' = [received EXCEPT ![c] = @ + 1]
    /\ \/ /\ held[c] + 1 < BatchSize
          /\ held' = [held EXCEPT ![c] = @ + 1]
          /\ UNCHANGED <<sent, task, indexed>>
       \/ /\ held[c] + 1 >= BatchSize
          /\ held' = [held EXCEPT ![c] = 0]
          /\ Tx(c, held[c] + 1)
    /\ UNCHANGED <<exporter, phase, awaited, summary, permits, retried>>

\* Mutant: the partial batch at the end of the stream is forgotten.
CloseDropsRest(c) ==
    /\ phase[c] = "receiving"
    /\ phase' = [phase EXCEPT ![c] = "awaiting"]
    /\ held' = [held EXCEPT ![c] = 0]
    /\ UNCHANGED <<exporter, received, sent, awaited, summary, task, permits,
                   indexed, retried>>

\* rx.recv() returns None: every sender is gone and the buffer is empty.
Close(c) ==
    /\ phase[c] = "receiving"
    /\ phase' = [phase EXCEPT ![c] = "awaiting"]
    /\ held' = [held EXCEPT ![c] = 0]
    /\ \/ /\ held[c] = 0
          /\ UNCHANGED <<sent, task, indexed>>
       \/ /\ held[c] > 0
          /\ Tx(c, held[c])
    /\ UNCHANGED <<exporter, received, awaited, summary, permits, retried>>

\* batch_rx.await, in the order of batch_receivers.
Await(c) ==
    LET t == <<c, awaited[c] + 1>>
    IN /\ phase[c] = "awaiting"
       /\ awaited[c] < sent[c]
       /\ task[t].state = "answered"
       /\ awaited' = [awaited EXCEPT ![c] = @ + 1]
       /\ summary' = [summary EXCEPT ![c] = AddBatch(@, task[t].resp)]
       /\ UNCHANGED <<exporter, phase, received, held, sent, task, permits,
                      indexed, retried>>

Done(c) ==
    /\ phase[c] = "awaiting"
    /\ awaited[c] = sent[c]
    /\ phase' = [phase EXCEPT ![c] = "returned"]
    /\ UNCHANGED <<exporter, received, held, sent, awaited, summary, task,
                   permits, indexed, retried>>

-----------------------------------------------------------------------------
(* The batch task: semaphore.acquire, batch_send, tx.send, drop(permit). *)

\* Mutant: the limit is checked without taking a permit.
AcquireNothing(t) ==
    /\ task[t].state = "queued"
    /\ permits > 0
    /\ task' = [task EXCEPT ![t].state = "sending"]
    /\ UNCHANGED <<exporter, chanVars, permits, indexed, retried>>

Acquire(t) ==
    /\ task[t].state = "queued"
    /\ permits > 0
    /\ permits' = permits - 1
    /\ task' = [task EXCEPT ![t].state = "sending"]
    /\ UNCHANGED <<exporter, chanVars, indexed, retried>>

Answer(t, resp) ==
    /\ task' = [task EXCEPT ![t].state = "answered", ![t].left = 0,
                            ![t].bulk = 0, ![t].attempt = 0, ![t].resp = resp]
    /\ permits' = permits + 1

Between(t) == task[t].state = "sending" /\ task[t].bulk = 0
Requesting(t) == task[t].state = "sending" /\ task[t].bulk > 0

\* A document does not serialise: nothing is sent.
SerializeFails(t) ==
    /\ Between(t)
    /\ task[t].left = task[t].size
    /\ Answer(t, Failed(task[t].size, NotCompleted))
    /\ UNCHANGED <<exporter, chanVars, indexed, retried>>

(***************************************************************************)
(* The next sub-batch: as many documents as bulk_size and the byte limit   *)
(* allow, at least one (a document larger than the limit goes alone).  The *)
(* estimated sizes are abstracted: any number up to bulk_size.             *)
(***************************************************************************)
NextBulk(t) ==
    /\ Between(t)
    /\ \E n \in 1..Smaller(BulkSize, task[t].left) :
         task' = [task EXCEPT ![t].bulk = n, ![t].left = @ - n]
    /\ UNCHANGED <<exporter, chanVars, permits, indexed, retried>>

MergeInto(t, resp) ==
    task' = [task EXCEPT ![t].bulk = 0, ![t].attempt = 0,
                         ![t].resp = Merge(task[t].resp, resp)]

\* Mutant: an item retained in the failure store counts as created.
IndexedCountsAll(t) ==
    /\ Requesting(t)
    /\ \E rejected \in 0..task[t].bulk :
         /\ MergeInto(t, New(task[t].bulk, 0, task[t].attempt, 200))
         /\ indexed' = [indexed EXCEPT ![t] = @ + task[t].bulk - rejected]
    /\ UNCHANGED <<exporter, chanVars, permits, retried>>

\* http 200: some items created, the others rejected or in the failure store.
\* Elasticsearch answers each operation with an item; fewer are not modelled.
Indexed(t) ==
    /\ Requesting(t)
    /\ \E rejected \in 0..task[t].bulk :
         /\ MergeInto(t, New(task[t].bulk - rejected, rejected,
                             task[t].attempt, 200))
         /\ indexed' = [indexed EXCEPT ![t] = @ + task[t].bulk - rejected]
    /\ UNCHANGED <<exporter, chanVars, permits, retried>>

\* Any other status the match does not list: the body has no "items".
UnexpectedStatus(t) ==
    /\ Requesting(t)
    /\ \E code \in Unexpected :
         MergeInto(t, New(0, 0, task[t].attempt, code))
    /\ UNCHANGED <<exporter, chanVars, permits, indexed, retried>>

\* Mutant: one attempt more than the loop's range allows.
RetryOnceMore(t) ==
    /\ Requesting(t)
    /\ task[t].attempt <= MaxRetries
    /\ task' = [task EXCEPT ![t].attempt = @ + 1]
    /\ retried' = [retried EXCEPT ![t] = @ + 1]
    /\ UNCHANGED <<exporter, chanVars, permits, indexed>>

\* Mutant: the attempt counter starts over instead of ending the loop.
RetryForever(t) ==
    /\ Requesting(t)
    /\ task' = [task EXCEPT ![t].attempt = IF @ = MaxRetries THEN 0 ELSE @ + 1]
    /\ UNCHANGED <<exporter, chanVars, permits, indexed, retried>>

\* http 429 with attempts left: back off and send the same documents again.
Retry(t) ==
    /\ Requesting(t)
    /\ task[t].attempt < MaxRetries
    /\ task' = [task EXCEPT ![t].attempt = @ + 1]
    /\ retried' = [retried EXCEPT ![t] = @ + 1]
    /\ UNCHANGED <<exporter, chanVars, permits, indexed>>

\* Mutant: the response of an exhausted batch forgets its retries.
GiveUpSilently(t) ==
    /\ Requesting(t)
    /\ task[t].attempt = MaxRetries
    /\ MergeInto(t, Failed(task[t].bulk, TooMany))
    /\ UNCHANGED <<exporter, chanVars, permits, indexed, retried>>

\* http 429 on the last attempt: the sub-batch is dropped, the batch goes on.
GiveUp(t) ==
    /\ Requesting(t)
    /\ task[t].attempt = MaxRetries
    /\ MergeInto(t, [Failed(task[t].bulk, TooMany) EXCEPT
                       !.retries = task[t].attempt])
    /\ UNCHANGED <<exporter, chanVars, permits, indexed, retried>>

\* Mutant: the unsent sub-batches are left out of the failed count.
FailedWithoutUnsent(t) == Merge(task[t].resp, Failed(task[t].bulk, NotCompleted))

(***************************************************************************)
(* What a fatal error leaves: the first sub-batch fails the whole batch,   *)
(* a later one counts itself and every unsent document as failed.          *)
(***************************************************************************)
FatalResponse(t) ==
    IF task[t].resp.batches = 0
    THEN Failed(task[t].size, NotCompleted)
    ELSE Merge(task[t].resp, Failed(task[t].bulk + task[t].left, NotCompleted))

\* Mutant: a request without an answer is repeated like a 429.
FatalRetried(t) ==
    /\ Requesting(t)
    /\ \E k \in 0..task[t].bulk : indexed' = [indexed EXCEPT ![t] = @ + k]
    /\ IF task[t].attempt < MaxRetries
       THEN /\ task' = [task EXCEPT ![t].attempt = @ + 1]
            /\ UNCHANGED permits
       ELSE Answer(t, FatalResponse(t))
    /\ UNCHANGED <<exporter, chanVars, retried>>

(***************************************************************************)
(* A fatal status, a transport error, the request timeout, a body that is  *)
(* not JSON, or a bulk_errors.ndjson that cannot be written.  The cluster  *)
(* may already have stored any part of the sub-batch.                      *)
(***************************************************************************)
Fatal(t) ==
    /\ Requesting(t)
    /\ \E k \in 0..task[t].bulk : indexed' = [indexed EXCEPT ![t] = @ + k]
    /\ Answer(t, FatalResponse(t))
    /\ UNCHANGED <<exporter, chanVars, retried>>

Finish(t) ==
    /\ Between(t)
    /\ task[t].left = 0
    /\ Answer(t, task[t].resp)
    /\ UNCHANGED <<exporter, chanVars, indexed, retried>>

-----------------------------------------------------------------------------
ChannelStep(c) == Receive(c) \/ Close(c) \/ Await(c) \/ Done(c)

TaskStep(t) ==
    \/ Acquire(t) \/ SerializeFails(t) \/ NextBulk(t) \/ Indexed(t)
    \/ UnexpectedStatus(t) \/ Retry(t) \/ GiveUp(t) \/ Fatal(t) \/ Finish(t)

Returned == \A c \in Channels : phase[c] = "returned"

Terminated == Returned /\ UNCHANGED vars

Next ==
    \/ \E c \in Channels : ChannelStep(c)
    \/ \E t \in Tasks : TaskStep(t)
    \/ Terminated

Spec == Init /\ [][Next]_vars

(***************************************************************************)
(* Every channel and every task is a spawned future the runtime polls      *)
(* whenever it can advance: the producer drops its sender, a request ends  *)
(* by its timeout, and a released permit wakes the longest waiter.  The    *)
(* timeout is over when the head of an answer has come; that its body is   *)
(* then sent to the end, or broken off, is assumed of the cluster.         *)
(***************************************************************************)
FairSpec ==
    /\ Spec
    /\ \A c \in Channels : WF_vars(ChannelStep(c))
    /\ \A t \in Tasks : WF_vars(TaskStep(t))

-----------------------------------------------------------------------------
Responses ==
    [batches : Nat, docs : Nat, errors : Nat, attributed : Nat, retries : Nat,
     status : Codes, counts : [Codes -> Nat]]

TaskRecords ==
    [state : {"none", "queued", "sending", "answered"}, size : Nat, left : Nat,
     bulk : Nat, attempt : 0..MaxRetries, resp : Responses]

\* The shape of the exporter's state: channels, batch tasks, permits.
TypeOK ==
    /\ exporter \in {"elasticsearch", "local"}
    /\ phase \in [Channels -> {"receiving", "awaiting", "returned"}]
    /\ received \in [Channels -> 0..Documents]
    /\ held \in [Channels -> Nat]
    /\ sent \in [Channels -> 0..Documents]
    /\ awaited \in [Channels -> 0..Documents]
    /\ summary \in [Channels ->
         [batches : Nat, docs : Nat, errors : Nat, rejected : Nat,
          retries : Nat, counts : [Codes -> Nat]]]
    /\ task \in [Tasks -> TaskRecords]
    /\ permits \in Nat
    /\ indexed \in [Tasks -> Nat]
    /\ retried \in [Tasks -> Nat]

(***************************************************************************)
(* At most TaskLimit batches talk to the output at a time, and a finished  *)
(* task has given its permit back: backpressure neither leaks nor breaks,  *)
(* whichever way batch_send ends.                                          *)
(***************************************************************************)
InFlight == {t \in Tasks : task[t].state = "sending"}

PermitsConserved == permits + Cardinality(InFlight) = TaskLimit

(***************************************************************************)
(* A batch never makes the cluster store more documents than it holds:     *)
(* only 429, which stores nothing, is retried.                             *)
(***************************************************************************)
NothingStoredTwice == \A t \in Tasks : indexed[t] <= task[t].size

(***************************************************************************)
(* The created count is never better than the truth: each document that a  *)
(* response reports as created is stored by the output.                    *)
(***************************************************************************)
CreatedIsStored == \A t \in Tasks : task[t].resp.docs <= indexed[t]

(***************************************************************************)
(* Every document of an answered batch is either created or an error, over *)
(* splits, retries, partial failures and unsent sub-batches, unless the    *)
(* output answered with a status the exporter does not know.               *)
(***************************************************************************)
Answered(t) == task[t].state = "answered"

UnknownAnswers(r) == {c \in Unexpected : r.counts[c] > 0}

BatchAccounted ==
    \A t \in Tasks :
      Answered(t) /\ UnknownAnswers(task[t].resp) = {}
        => task[t].resp.docs + task[t].resp.errors = task[t].size

(***************************************************************************)
(* What a batch did to the output and what its response says of it agree.  *)
(***************************************************************************)
BatchSound == NothingStoredTwice /\ CreatedIsStored /\ BatchAccounted

(***************************************************************************)
(* A returned channel has accounted for all it received: nothing stays in  *)
(* the accumulator or in a batch nobody awaited; and every rejected        *)
(* document is attributed to exactly one index: the rows of                *)
(* rejected_indices add up to doc_errors.                                  *)
(***************************************************************************)
ChannelAccounted ==
    \A c \in Channels :
      /\ phase[c] = "returned" /\ UnknownAnswers(summary[c]) = {}
           => summary[c].docs + summary[c].errors = received[c]
      /\ summary[c].rejected = summary[c].errors

(***************************************************************************)
(* Status 0 is reserved for the exporters without HTTP (ADR-0016): the     *)
(* histogram of an Elasticsearch export never has it, nor does the scalar  *)
(* of an answered batch.                                                   *)
(***************************************************************************)
ZeroMeansNoHttp ==
    exporter = "elasticsearch" =>
      /\ \A c \in Channels : summary[c].counts[0] = 0
      /\ \A t \in Tasks : Answered(t) => task[t].resp.status # 0

(***************************************************************************)
(* The scalar status of a batch is one its requests really had, and it is  *)
(* a failure whenever one of them failed.                                  *)
(***************************************************************************)
ScalarIsWorst ==
    \A t \in Tasks : Answered(t) =>
      LET codes == {c \in Codes : CountsOf(task[t].resp)[c] > 0}
      IN /\ task[t].resp.status \in codes
         /\ (\E c \in codes : c >= 400) => task[t].resp.status >= 400

(***************************************************************************)
(* A batch whose requests were all answered reports exactly the retries    *)
(* that were made for it, dropped sub-batches included.                    *)
(***************************************************************************)
RetriesReported ==
    \A t \in Tasks :
      Answered(t) /\ CountsOf(task[t].resp)[NotCompleted] = 0
        => task[t].resp.retries = retried[t]

(***************************************************************************)
(* The status, the histogram and the retries that are reported for a batch *)
(* are those its requests had, whatever answers were merged.               *)
(***************************************************************************)
ResponseHonest == ZeroMeansNoHttp /\ ScalarIsWorst /\ RetriesReported

(***************************************************************************)
(* What the exporter tells of an export is what happened: every document   *)
(* of a returned channel is in a count, and statuses, histograms and       *)
(* retries are those the requests had.                                     *)
(***************************************************************************)
ExportHonest == TypeOK /\ ChannelAccounted /\ ResponseHonest

\* Every channel returns its summary once its producer is done.
Termination == <>Returned

(***************************************************************************)
(* Refuted by TLC, see the README.  What the document                      *)
(* openspec/specs/diagnostic-reporting/spec.md says: a failure is never    *)
(* only a log line.  A returned channel with no error has stored every document.  *)
(***************************************************************************)
NoErrorMeansStored ==
    \A c \in Channels :
      phase[c] = "returned" /\ summary[c].errors = 0
        => summary[c].docs = received[c]
=============================================================================
