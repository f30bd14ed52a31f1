-------------------------- MODULE BulkExportProofs --------------------------
(***************************************************************************)
(* What the document pipeline keeps for any number of data streams,        *)
(* documents, retries and permits. The invariant follows one batch: its    *)
(* documents are stored, rejected, in the current request or still to be   *)
(* sent, and nothing of a batch exists before it is handed to tx. A        *)
(* stream's batches are then added up along the order in which they were   *)
(* handed over.                                                            *)
(***************************************************************************)
EXTENDS BulkExport, FiniteSetTheorems, TLAPS

\* A batch that no task has started yet has neither answers nor documents out.
Untouched(t) ==
    task[t].state \in {"none", "queued"} =>
      /\ task[t].resp = Aggregate
      /\ task[t].bulk = 0
      /\ task[t].left = task[t].size
      /\ indexed[t] = 0

\* The documents of a batch under way, one conjunct per place they can be in.
UnderWay(t) ==
    LET open == task[t].bulk + task[t].left
        known == task[t].resp.docs + task[t].resp.errors
    IN task[t].state = "sending" =>
         /\ indexed[t] + open <= task[t].size
         /\ known + open <= task[t].size
         /\ UnknownAnswers(task[t].resp) = {} => known + open = task[t].size

Settled(t) ==
    Answered(t) /\ UnknownAnswers(task[t].resp) = {}
      => task[t].resp.docs + task[t].resp.errors = task[t].size

Stored(t) ==
    /\ indexed[t] <= task[t].size
    /\ task[t].resp.docs <= indexed[t]

TaskInv(t) == Untouched(t) /\ UnderWay(t) /\ Settled(t) /\ Stored(t)

\* A channel has never handed over more batches than documents.
ChannelInv(c) ==
    /\ sent[c] + held[c] <= received[c]
    /\ awaited[c] <= sent[c]
    /\ \A i \in 1..Documents : i > sent[c] => task[<<c, i>>].state = "none"

IndInv ==
    /\ TypeOK
    /\ \A t \in Tasks : TaskInv(t)
    /\ \A c \in Channels : ChannelInv(c)

-----------------------------------------------------------------------------
\* The statuses of responses are numbers, and those of the known answers differ.
LEMMA CodesFacts ==
    /\ Codes \subseteq Nat
    /\ {0, 200, 429, 599} \subseteq Codes
    /\ Unexpected \cap {0, 200, 429, 599} = {}
    /\ NoCounts \in [Codes -> Nat]
BY StatusAssumption DEF Codes, NotCompleted, TooMany, NoCounts

\* The constructors of BatchResponse build responses.
LEMMA ConstructorsType ==
    /\ Aggregate \in Responses
    /\ \A d, e, r \in Nat, c \in Codes : New(d, e, r, c) \in Responses
    /\ \A d \in Nat, c \in Codes : Failed(d, c) \in Responses
BY CodesFacts DEF Aggregate, New, Failed, Responses

\* merge_status_counts sees a total histogram, whichever way the response was built.
LEMMA CountsType ==
    ASSUME NEW r \in Responses
    PROVE  CountsOf(r) \in [Codes -> Nat]
<1>1. r.counts \in [Codes -> Nat] /\ r.batches \in Nat
  BY DEF Responses
<1> QED  BY <1>1, CodesFacts DEF CountsOf

\* merge keeps the shape of a response and adds its counts.
LEMMA MergeFacts ==
    ASSUME NEW a \in Responses, NEW b \in Responses
    PROVE  /\ Merge(a, b) \in Responses
           /\ Merge(a, b).docs = a.docs + b.docs
           /\ Merge(a, b).errors = a.errors + b.errors
           /\ Merge(a, b).batches = a.batches + b.batches
           /\ \A c \in Codes : Merge(a, b).counts[c] = a.counts[c] + CountsOf(b)[c]
<1>1. MergeStatus(a, b) \in Codes
  BY CodesFacts DEF MergeStatus, Larger, Responses
<1>2. MergeCounts(a, b) \in [Codes -> Nat]
  BY CountsType DEF MergeCounts, Responses
<1>3. Merge(a, b) \in Responses
  BY <1>1, <1>2 DEF Merge, Responses
<1>4. \A c \in Codes : MergeCounts(a, b)[c] = a.counts[c] + CountsOf(b)[c]
  BY DEF MergeCounts
<1> QED  BY <1>3, <1>4 DEF Merge

\* A merge keeps an unknown answer visible: it can only add to the histogram.
LEMMA MergeUnknown ==
    ASSUME NEW a \in Responses, NEW b \in Responses,
           UnknownAnswers(Merge(a, b)) = {}
    PROVE  /\ UnknownAnswers(a) = {}
           /\ \A c \in Unexpected : CountsOf(b)[c] = 0
<1> SUFFICES ASSUME NEW c \in Unexpected
             PROVE  a.counts[c] = 0 /\ CountsOf(b)[c] = 0
  BY DEF UnknownAnswers
<1>1. c \in Codes
  BY DEF Codes
<1>2. a.counts[c] \in Nat /\ CountsOf(b)[c] \in Nat
  BY <1>1, CountsType DEF Responses
<1>3. ~(Merge(a, b).counts[c] > 0)
  BY DEF UnknownAnswers
<1>4. Merge(a, b).counts[c] = a.counts[c] + CountsOf(b)[c]
  BY <1>1, MergeFacts
<1> QED  BY <1>2, <1>3, <1>4

-----------------------------------------------------------------------------
(***************************************************************************)
(* A step of the batch task t leaves every other batch and every channel   *)
(* alone, so only its own invariant has to be shown.                       *)
(***************************************************************************)
LEMMA TaskFrame ==
    ASSUME IndInv, NEW t \in Tasks,
           task[t].state \in {"queued", "sending"},
           task' \in [Tasks -> TaskRecords],
           indexed' \in [Tasks -> Nat],
           retried' \in [Tasks -> Nat],
           permits' \in Nat,
           \A u \in Tasks : u # t => task'[u] = task[u] /\ indexed'[u] = indexed[u],
           UNCHANGED <<exporter, chanVars>>,
           TaskInv(t)'
    PROVE  IndInv'
<1>1. TypeOK'
  BY DEF IndInv, TypeOK, chanVars
<1>2. \A u \in Tasks : TaskInv(u)'
  <2> SUFFICES ASSUME NEW u \in Tasks, u # t  PROVE TaskInv(u)'
    OBVIOUS
  <2>1. TaskInv(u) /\ task'[u] = task[u] /\ indexed'[u] = indexed[u]
    BY DEF IndInv
  <2> QED  BY <2>1 DEF TaskInv, Untouched, UnderWay, Settled, Stored, Answered,
                       UnknownAnswers
<1>3. \A c \in Channels : ChannelInv(c)'
  <2> SUFFICES ASSUME NEW c \in Channels  PROVE ChannelInv(c)'
    OBVIOUS
  <2>1. ChannelInv(c)
    BY DEF IndInv
  <2>2. sent' = sent /\ held' = held /\ received' = received /\ awaited' = awaited
    BY DEF chanVars
  <2>3. ASSUME NEW i \in 1..Documents, i > sent[c]
        PROVE  task'[<<c, i>>].state = "none"
    <3>1. task[<<c, i>>].state = "none"
      BY <2>1, <2>3 DEF ChannelInv
    <3>2. <<c, i>> \in Tasks /\ <<c, i>> # t
      BY <3>1 DEF Tasks
    <3> QED  BY <3>1, <3>2
  <2> QED  BY <2>1, <2>2, <2>3 DEF ChannelInv
<1> QED  BY <1>1, <1>2, <1>3 DEF IndInv

\* The fields of a batch task have their types.
LEMMA TaskFields ==
    ASSUME TypeOK, NEW t \in Tasks
    PROVE  /\ task \in [Tasks -> TaskRecords]
           /\ task[t] \in TaskRecords
           /\ task[t].size \in Nat /\ task[t].left \in Nat /\ task[t].bulk \in Nat
           /\ task[t].attempt \in 0..MaxRetries /\ task[t].attempt \in Nat
           /\ task[t].resp \in Responses
           /\ task[t].resp.docs \in Nat /\ task[t].resp.errors \in Nat
           /\ indexed \in [Tasks -> Nat] /\ indexed[t] \in Nat
           /\ retried \in [Tasks -> Nat] /\ retried[t] \in Nat
           /\ permits \in Nat
BY SizesAssumption DEF TypeOK, TaskRecords, Responses

LEMMA AcquireStep ==
    ASSUME IndInv, NEW t \in Tasks, Acquire(t)  PROVE IndInv'
<1>1. TypeOK /\ TaskInv(t)
  BY DEF IndInv
<1>2. task' \in [Tasks -> TaskRecords] /\ permits' \in Nat
  BY <1>1, TaskFields DEF Acquire, TaskRecords
<1>3. /\ task'[t].state = "sending" /\ task'[t].resp = Aggregate
      /\ task'[t].bulk = 0 /\ task'[t].left = task[t].size
      /\ task'[t].size = task[t].size /\ indexed' = indexed /\ indexed[t] = 0
  BY <1>1, TaskFields DEF Acquire, TaskInv, Untouched, TaskRecords
<1>4. TaskInv(t)'
  BY <1>1, <1>3, TaskFields
     DEF TaskInv, Untouched, UnderWay, Settled, Stored, Answered, Aggregate
<1> QED
  BY <1>1, <1>2, <1>4, TaskFrame, TaskFields DEF Acquire

(***************************************************************************)
(* An answered batch needs two facts about its response: it reports no     *)
(* more than what is stored, and it counts every document unless an        *)
(* unknown status hides some.                                              *)
(***************************************************************************)
LEMMA AnswerStep ==
    ASSUME IndInv, NEW t \in Tasks, task[t].state = "sending",
           NEW resp \in Responses, Answer(t, resp),
           indexed' \in [Tasks -> Nat], retried' = retried,
           \A u \in Tasks : u # t => indexed'[u] = indexed[u],
           indexed'[t] <= task[t].size,
           resp.docs <= indexed'[t],
           UnknownAnswers(resp) = {} => resp.docs + resp.errors = task[t].size,
           UNCHANGED <<exporter, chanVars>>
    PROVE  IndInv'
<1>1. TypeOK
  BY DEF IndInv
<1> DEFINE new == [task[t] EXCEPT !.state = "answered", !.left = 0, !.bulk = 0,
                                  !.attempt = 0, !.resp = resp]
<1>a. new \in TaskRecords
  <2>1. task[t] \in TaskRecords /\ 0 \in 0..MaxRetries
    BY <1>1, TaskFields, SizesAssumption
  <2> QED  BY <2>1 DEF TaskRecords
<1>b. task' = [task EXCEPT ![t] = new] /\ permits' = permits + 1
  BY DEF Answer
<1>2. task' \in [Tasks -> TaskRecords] /\ permits' \in Nat
  <2> HIDE DEF new
  <2> QED  BY <1>1, <1>a, <1>b, TaskFields
<1>3. /\ task'[t].state = "answered" /\ task'[t].resp = resp
      /\ task'[t].size = task[t].size
      /\ \A u \in Tasks : u # t => task'[u] = task[u]
  BY <1>1, TaskFields DEF Answer, TaskRecords
<1>4. TaskInv(t)'
  BY <1>3 DEF TaskInv, Untouched, UnderWay, Settled, Stored, Answered, UnknownAnswers
<1> QED
  BY <1>1, <1>2, <1>3, <1>4, TaskFrame, TaskFields

\* A response that has not merged anything has no unknown answer.
LEMMA NoCountsNoUnknown ==
    /\ UnknownAnswers(Aggregate) = {}
    /\ \A d \in Nat, c \in Codes : UnknownAnswers(Failed(d, c)) = {}
BY CodesFacts DEF UnknownAnswers, Aggregate, Failed, NoCounts, Codes

LEMMA SerializeFailsStep ==
    ASSUME IndInv, NEW t \in Tasks, SerializeFails(t)  PROVE IndInv'
<1>1. TypeOK /\ TaskInv(t)
  BY DEF IndInv
<1> DEFINE resp == Failed(task[t].size, NotCompleted)
<1>2. resp \in Responses
  BY <1>1, TaskFields, ConstructorsType, CodesFacts DEF NotCompleted
<1>3. resp.docs = 0 /\ resp.errors = task[t].size
  BY DEF Failed
<1> HIDE DEF resp
<1> QED
  BY <1>1, <1>2, <1>3, TaskFields, AnswerStep
     DEF SerializeFails, Between, TaskInv, Stored, resp

LEMMA FinishStep ==
    ASSUME IndInv, NEW t \in Tasks, Finish(t)  PROVE IndInv'
<1>1. TypeOK /\ TaskInv(t)
  BY DEF IndInv
<1>2. /\ task[t].state = "sending" /\ task[t].bulk = 0 /\ task[t].left = 0
      /\ Answer(t, task[t].resp) /\ indexed' = indexed /\ retried' = retried
      /\ UNCHANGED <<exporter, chanVars>>
  BY DEF Finish, Between
<1>3. UnknownAnswers(task[t].resp) = {}
        => task[t].resp.docs + task[t].resp.errors = task[t].size
  BY <1>1, <1>2, TaskFields DEF TaskInv, UnderWay
<1> QED
  BY <1>1, <1>2, <1>3, TaskFields, AnswerStep DEF TaskInv, Stored

LEMMA FatalStep ==
    ASSUME IndInv, NEW t \in Tasks, Fatal(t)  PROVE IndInv'
<1>1. TypeOK /\ TaskInv(t)
  BY DEF IndInv
<1>2. /\ task[t].state = "sending" /\ Answer(t, FatalResponse(t))
      /\ retried' = retried /\ UNCHANGED <<exporter, chanVars>>
  BY DEF Fatal, Requesting
<1>3. PICK k \in 0..task[t].bulk : indexed' = [indexed EXCEPT ![t] = @ + k]
  BY DEF Fatal
<1>4. /\ indexed' \in [Tasks -> Nat]
      /\ \A u \in Tasks : u # t => indexed'[u] = indexed[u]
      /\ indexed[t] <= indexed'[t] /\ indexed'[t] <= task[t].size
  BY <1>1, <1>2, <1>3, TaskFields DEF TaskInv, UnderWay
<1> DEFINE resp == FatalResponse(t)
           rest == Failed(task[t].bulk + task[t].left, NotCompleted)
<1>5. /\ rest \in Responses /\ rest.docs = 0
      /\ rest.errors = task[t].bulk + task[t].left
  <2>1. task[t].bulk + task[t].left \in Nat /\ NotCompleted \in Codes
    BY <1>1, TaskFields, CodesFacts DEF NotCompleted
  <2>2. rest \in Responses
    BY <2>1, ConstructorsType
  <2> QED  BY <2>2 DEF Failed
<1>6. CASE task[t].resp.batches = 0
  <2>1. resp = Failed(task[t].size, NotCompleted)
    BY <1>6 DEF FatalResponse
  <2>2. resp \in Responses /\ resp.docs = 0 /\ resp.errors = task[t].size
    BY <1>1, <2>1, TaskFields, ConstructorsType, CodesFacts DEF NotCompleted, Failed
  <2> HIDE DEF resp
  <2> QED  BY <1>1, <1>2, <1>4, <2>2, TaskFields, AnswerStep DEF resp
<1>7. CASE task[t].resp.batches # 0
  <2>1. resp = Merge(task[t].resp, rest)
    BY <1>7 DEF FatalResponse
  <2> HIDE DEF rest, resp
  <2>2. /\ resp \in Responses /\ resp.docs = task[t].resp.docs
        /\ resp.errors = task[t].resp.errors + task[t].bulk + task[t].left
    BY <1>1, <1>5, <2>1, TaskFields, MergeFacts
  <2>3. UnknownAnswers(resp) = {} => UnknownAnswers(task[t].resp) = {}
    BY <1>1, <1>5, <2>1, TaskFields, MergeUnknown
  <2>4. UnknownAnswers(resp) = {} => resp.docs + resp.errors = task[t].size
    BY <1>1, <1>2, <2>2, <2>3, TaskFields DEF TaskInv, UnderWay
  <2>5. resp.docs <= indexed'[t]
    BY <1>1, <1>4, <2>2, TaskFields DEF TaskInv, Stored
  <2> QED  BY <1>2, <1>4, <2>2, <2>4, <2>5, AnswerStep DEF resp
<1> QED  BY <1>6, <1>7

\* The answer to one request: b accounts for the documents of the request.
LEMMA MergeStep ==
    ASSUME IndInv, NEW t \in Tasks, Requesting(t),
           NEW b \in Responses, MergeInto(t, b),
           indexed' \in [Tasks -> Nat], UNCHANGED <<exporter, chanVars, permits, retried>>,
           \A u \in Tasks : u # t => indexed'[u] = indexed[u],
           indexed[t] + b.docs <= indexed'[t],
           indexed'[t] <= indexed[t] + task[t].bulk,
           b.docs + b.errors <= task[t].bulk,
           (\A c \in Unexpected : CountsOf(b)[c] = 0)
             => b.docs + b.errors = task[t].bulk
    PROVE  IndInv'
<1>1. TypeOK /\ TaskInv(t) /\ task[t].state = "sending"
  BY DEF IndInv, Requesting
<1> DEFINE resp == Merge(task[t].resp, b)
           new == [task[t] EXCEPT !.bulk = 0, !.attempt = 0, !.resp = resp]
<1>2. /\ resp \in Responses /\ resp.docs = task[t].resp.docs + b.docs
      /\ resp.errors = task[t].resp.errors + b.errors
  BY <1>1, TaskFields, MergeFacts
<1>3. UnknownAnswers(resp) = {} =>
        /\ UnknownAnswers(task[t].resp) = {}
        /\ \A c \in Unexpected : CountsOf(b)[c] = 0
  BY <1>1, TaskFields, MergeUnknown
<1>4. task' = [task EXCEPT ![t] = new]
  BY DEF MergeInto
<1> HIDE DEF resp
<1>5. new \in TaskRecords
  <2>1. task[t] \in TaskRecords /\ 0 \in 0..MaxRetries
    BY <1>1, TaskFields, SizesAssumption
  <2> QED  BY <1>2, <2>1 DEF TaskRecords
<1>6. task' \in [Tasks -> TaskRecords]
  <2> HIDE DEF new
  <2> QED  BY <1>1, <1>4, <1>5, TaskFields
<1>7. /\ task'[t].state = "sending" /\ task'[t].bulk = 0
      /\ task'[t].left = task[t].left /\ task'[t].size = task[t].size
      /\ task'[t].resp = resp
      /\ \A u \in Tasks : u # t => task'[u] = task[u]
  BY <1>1, <1>4, TaskFields DEF TaskRecords
<1>8. b.docs \in Nat /\ b.errors \in Nat
  BY DEF Responses
<1>9. UnderWay(t)'
  <2>1. UnderWay(t)
    BY <1>1 DEF TaskInv
  <2>2. UnknownAnswers(resp) = {} =>
          task[t].resp.docs + task[t].resp.errors + task[t].bulk + task[t].left
            = task[t].size
    BY <1>1, <1>3, <2>1, TaskFields DEF UnderWay
  <2>3. UnknownAnswers(task'[t].resp) = UnknownAnswers(resp)
    BY <1>7
  <2>4. UnknownAnswers(resp) = {} =>
          resp.docs + resp.errors + 0 + task[t].left = task[t].size
    BY <1>1, <1>2, <1>3, <1>8, <2>2, TaskFields
  <2>5. /\ indexed'[t] + 0 + task[t].left <= task[t].size
        /\ resp.docs + resp.errors + 0 + task[t].left <= task[t].size
    BY <1>1, <1>2, <1>8, <2>1, TaskFields DEF UnderWay
  <2>6. /\ resp.docs \in Nat /\ resp.errors \in Nat /\ task[t].left \in Nat
        /\ indexed'[t] \in Nat /\ task[t].size \in Nat
    BY <1>1, <1>2, TaskFields DEF Responses
  <2> QED  BY <1>7, <2>4, <2>5, <2>6 DEF UnderWay, UnknownAnswers
<1>10. TaskInv(t)'
  <2>1. Stored(t)'
    BY <1>1, <1>2, <1>7, <1>8, TaskFields DEF TaskInv, Stored, UnderWay
  <2> QED  BY <1>7, <1>9, <2>1 DEF TaskInv, Untouched, Settled, Answered
<1> QED
  BY <1>1, <1>6, <1>7, <1>10, TaskFrame, TaskFields

LEMMA IndexedStep ==
    ASSUME IndInv, NEW t \in Tasks, Indexed(t)  PROVE IndInv'
<1>1. TypeOK
  BY DEF IndInv
<1>2. PICK rejected \in 0..task[t].bulk :
        /\ MergeInto(t, New(task[t].bulk - rejected, rejected, task[t].attempt, 200))
        /\ indexed' = [indexed EXCEPT ![t] = @ + task[t].bulk - rejected]
  BY DEF Indexed
<1> DEFINE b == New(task[t].bulk - rejected, rejected, task[t].attempt, 200)
<1>3. rejected \in Nat /\ task[t].bulk - rejected \in Nat /\ task[t].attempt \in Nat
  BY <1>1, TaskFields
<1>4. /\ b \in Responses
      /\ b.docs = task[t].bulk - rejected /\ b.errors = rejected
  <2>1. b \in Responses
    BY <1>3, ConstructorsType, CodesFacts
  <2> QED  BY <2>1 DEF New
<1>5. /\ indexed' \in [Tasks -> Nat]
      /\ \A u \in Tasks : u # t => indexed'[u] = indexed[u]
      /\ indexed'[t] = indexed[t] + task[t].bulk - rejected
  BY <1>1, <1>2, TaskFields
<1> HIDE DEF b
<1> QED
  BY <1>1, <1>2, <1>3, <1>4, <1>5, MergeStep, TaskFields DEF Indexed, b

LEMMA UnexpectedStep ==
    ASSUME IndInv, NEW t \in Tasks, UnexpectedStatus(t)  PROVE IndInv'
<1>1. TypeOK
  BY DEF IndInv
<1>2. PICK code \in Unexpected : MergeInto(t, New(0, 0, task[t].attempt, code))
  BY DEF UnexpectedStatus
<1> DEFINE b == New(0, 0, task[t].attempt, code)
<1>3. b \in Responses
  BY <1>1, TaskFields, ConstructorsType DEF Codes
<1>4. b.docs = 0 /\ b.errors = 0
  BY DEF New
<1>5. code \in Codes /\ CountsOf(b)[code] = 1
  BY CodesFacts DEF CountsOf, New, NoCounts, Codes
<1> HIDE DEF b
<1> QED
  BY <1>1, <1>2, <1>3, <1>4, <1>5, MergeStep, TaskFields DEF UnexpectedStatus, b

LEMMA GiveUpStep ==
    ASSUME IndInv, NEW t \in Tasks, GiveUp(t)  PROVE IndInv'
<1>1. TypeOK
  BY DEF IndInv
<1> DEFINE f == Failed(task[t].bulk, TooMany)
           b == [f EXCEPT !.retries = task[t].attempt]
<1>2. f \in Responses
  BY <1>1, TaskFields, ConstructorsType, CodesFacts DEF TooMany
<1>3. f.docs = 0 /\ f.errors = task[t].bulk
  BY DEF Failed
<1> HIDE DEF f
<1>4. b \in Responses /\ b.docs = 0 /\ b.errors = task[t].bulk
  BY <1>1, <1>2, <1>3, TaskFields DEF Responses
<1>5. MergeInto(t, b)
  BY DEF GiveUp, f
<1> HIDE DEF b
<1> QED
  BY <1>1, <1>4, <1>5, MergeStep, TaskFields DEF GiveUp

LEMMA RetryStep ==
    ASSUME IndInv, NEW t \in Tasks, Retry(t)  PROVE IndInv'
<1>1. TypeOK /\ TaskInv(t) /\ task[t].state = "sending" /\ task[t].attempt < MaxRetries
  BY DEF IndInv, Retry, Requesting
<1>2. /\ task' \in [Tasks -> TaskRecords]
      /\ retried' \in [Tasks -> Nat] /\ indexed' = indexed /\ permits' = permits
  BY <1>1, TaskFields, SizesAssumption DEF Retry, TaskRecords
<1>3. /\ task'[t].state = "sending" /\ task'[t].bulk = task[t].bulk
      /\ task'[t].left = task[t].left /\ task'[t].size = task[t].size
      /\ task'[t].resp = task[t].resp
      /\ \A u \in Tasks : u # t => task'[u] = task[u]
  BY <1>1, TaskFields DEF Retry, TaskRecords
<1>4. TaskInv(t)'
  BY <1>1, <1>2, <1>3
     DEF TaskInv, Untouched, UnderWay, Settled, Stored, Answered, UnknownAnswers
<1> QED
  BY <1>1, <1>2, <1>3, <1>4, TaskFrame, TaskFields DEF Retry

LEMMA NextBulkStep ==
    ASSUME IndInv, NEW t \in Tasks, NextBulk(t)  PROVE IndInv'
<1>1. TypeOK /\ TaskInv(t) /\ task[t].state = "sending" /\ task[t].bulk = 0
  BY DEF IndInv, NextBulk, Between
<1>2. PICK n \in 1..Smaller(BulkSize, task[t].left) :
        task' = [task EXCEPT ![t].bulk = n, ![t].left = @ - n]
  BY DEF NextBulk
<1>3. n \in Nat /\ n <= task[t].left
  BY <1>1, <1>2, TaskFields, SizesAssumption DEF Smaller, BulkSize, Larger
<1>4. task' \in [Tasks -> TaskRecords] /\ indexed' = indexed /\ permits' = permits
  BY <1>1, <1>2, <1>3, TaskFields DEF NextBulk, TaskRecords
<1>5. /\ task'[t].state = "sending" /\ task'[t].bulk = n
      /\ task'[t].left = task[t].left - n /\ task'[t].size = task[t].size
      /\ task'[t].resp = task[t].resp
      /\ \A u \in Tasks : u # t => task'[u] = task[u]
  BY <1>1, <1>2, TaskFields DEF TaskRecords
<1>6. UnderWay(t)'
  BY <1>1, <1>3, <1>4, <1>5, TaskFields DEF TaskInv, UnderWay, UnknownAnswers
<1>7. TaskInv(t)'
  BY <1>1, <1>4, <1>5, <1>6 DEF TaskInv, Untouched, Settled, Stored, Answered
<1> QED
  BY <1>1, <1>4, <1>5, <1>7, TaskFrame, TaskFields DEF NextBulk

-----------------------------------------------------------------------------
(* The steps of a channel. *)

\* Handing a batch of n documents to tx starts a batch that no task holds yet.
LEMMA TxTask ==
    ASSUME IndInv, NEW c \in Channels, NEW n \in Nat, Tx(c, n),
           NEW t \in Tasks, t = <<c, sent[c] + 1>>
    PROVE  /\ task[t].state = "none"
           /\ task' \in [Tasks -> TaskRecords]
           /\ indexed' \in [Tasks -> Nat]
           /\ \A u \in Tasks : u # t => task'[u] = task[u] /\ indexed'[u] = indexed[u]
           /\ task'[t].state \in {"queued", "answered"}
           /\ TaskInv(t)'
<1>1. TypeOK /\ ChannelInv(c) /\ sent[c] \in Nat
  BY SizesAssumption DEF IndInv, TypeOK
<1>2. sent[c] + 1 \in 1..Documents
  BY <1>1, SizesAssumption DEF Tasks
<1>3. task[t].state = "none"
  BY <1>1, <1>2 DEF ChannelInv
<1>4. TaskInv(t)
  BY DEF IndInv
<1>5. indexed[t] = 0
  BY <1>3, <1>4 DEF TaskInv, Untouched
<1>6. CASE exporter = "elasticsearch"
  <2>1. task' = [task EXCEPT ![t] = Spawned(n)] /\ indexed' = indexed
    BY <1>6 DEF Tx
  <2>2. Spawned(n) \in TaskRecords
    <3>1. 0 \in 0..MaxRetries
      BY SizesAssumption
    <3> QED  BY <3>1, ConstructorsType DEF Spawned, NoTask, TaskRecords
  <2>3. /\ Spawned(n).state = "queued" /\ Spawned(n).resp = Aggregate
        /\ Spawned(n).bulk = 0 /\ Spawned(n).left = n /\ Spawned(n).size = n
    BY DEF Spawned, NoTask
  <2>4. /\ task' \in [Tasks -> TaskRecords] /\ task'[t] = Spawned(n)
        /\ \A u \in Tasks : u # t => task'[u] = task[u]
        /\ indexed' \in [Tasks -> Nat] /\ indexed'[t] = 0
    BY <1>1, <1>5, <2>1, <2>2, TaskFields
  <2>5. TaskInv(t)'
    BY <2>3, <2>4 DEF TaskInv, Untouched, UnderWay, Settled, Stored, Answered, Aggregate
  <2> QED  BY <1>3, <2>1, <2>3, <2>4, <2>5
<1>7. CASE exporter # "elasticsearch"
  <2>1. PICK ok \in BOOLEAN, k \in 0..n :
          /\ task' = [task EXCEPT ![t] = Written(n, ok)]
          /\ indexed' = [indexed EXCEPT ![t] = k]
          /\ ok => k = n
    <3>1. CASE task' = [task EXCEPT ![t] = Written(n, TRUE)]
               /\ indexed' = [indexed EXCEPT ![t] = n]
      <4>1. n \in 0..n
        OBVIOUS
      <4> QED  BY <3>1, <4>1
    <3>2. CASE task' = [task EXCEPT ![t] = Written(n, FALSE)]
               /\ \E k \in 0..n : indexed' = [indexed EXCEPT ![t] = k]
      BY <3>2
    <3> QED  BY <1>7, <3>1, <3>2 DEF Tx
  <2>2. /\ New(n, 0, 0, 0) \in Responses /\ Failed(n, 0) \in Responses
    BY ConstructorsType, CodesFacts
  <2>3. Written(n, ok) \in TaskRecords
    <3>1. 0 \in 0..MaxRetries
      BY SizesAssumption
    <3> QED  BY <2>2, <3>1 DEF Written, NoTask, TaskRecords
  <2>4. /\ Written(n, ok).state = "answered" /\ Written(n, ok).size = n
        /\ Written(n, ok).resp = IF ok THEN New(n, 0, 0, 0) ELSE Failed(n, 0)
    BY DEF Written, NoTask
  <2>5. /\ New(n, 0, 0, 0).docs = n /\ New(n, 0, 0, 0).errors = 0
        /\ Failed(n, 0).docs = 0 /\ Failed(n, 0).errors = n
    BY DEF New, Failed
  <2>6. /\ task' \in [Tasks -> TaskRecords] /\ task'[t] = Written(n, ok)
        /\ \A u \in Tasks : u # t => task'[u] = task[u] /\ indexed'[u] = indexed[u]
        /\ indexed' \in [Tasks -> Nat] /\ indexed'[t] = k
    BY <1>1, <2>1, <2>3, TaskFields
  <2>7. Stored(t)'
    BY <2>1, <2>4, <2>5, <2>6 DEF Stored
  <2>8. Settled(t)'
    BY <2>4, <2>5, <2>6 DEF Settled
  <2>9. TaskInv(t)'
    BY <2>4, <2>6, <2>7, <2>8 DEF TaskInv, Untouched, UnderWay
  <2> QED  BY <1>3, <2>4, <2>6, <2>9
<1> QED  BY <1>6, <1>7

\* The invariant of the batches survives a step that hands over one batch.
LEMMA TxStep ==
    ASSUME IndInv, NEW c \in Channels, NEW n \in Nat, Tx(c, n),
           sent[c] < Documents,
           TypeOK',
           UNCHANGED awaited,
           \A d \in Channels : d # c => received'[d] = received[d] /\ held'[d] = held[d],
           sent'[c] + held'[c] <= received'[c]
    PROVE  IndInv'
<1>0. PICK t \in Tasks : t = <<c, sent[c] + 1>>
  <2>1. sent[c] \in Nat
    BY SizesAssumption DEF IndInv, TypeOK
  <2>2. <<c, sent[c] + 1>> \in Tasks
    BY <2>1, SizesAssumption DEF Tasks
  <2> QED  BY <2>2
<1>1. /\ \A u \in Tasks : u # t => task'[u] = task[u] /\ indexed'[u] = indexed[u]
      /\ TaskInv(t)'
  BY <1>0, TxTask
<1>2. \A u \in Tasks : TaskInv(u)'
  <2> SUFFICES ASSUME NEW u \in Tasks, u # t  PROVE TaskInv(u)'
    BY <1>1
  <2>1. TaskInv(u) /\ task'[u] = task[u] /\ indexed'[u] = indexed[u]
    BY <1>1 DEF IndInv
  <2> QED  BY <2>1 DEF TaskInv, Untouched, UnderWay, Settled, Stored, Answered,
                       UnknownAnswers
<1>3. sent' = [sent EXCEPT ![c] = @ + 1] /\ sent \in [Channels -> 0..Documents]
  BY DEF Tx, IndInv, TypeOK
<1>4. ASSUME NEW d \in Channels  PROVE ChannelInv(d)'
  <2>1. ChannelInv(d)
    BY DEF IndInv
  <2>2. sent'[d] + held'[d] <= received'[d] /\ awaited'[d] <= sent'[d]
    BY <1>3, <2>1, SizesAssumption DEF ChannelInv, IndInv, TypeOK
  <2>3. ASSUME NEW i \in 1..Documents, i > sent'[d]
        PROVE  task'[<<d, i>>].state = "none"
    <3>1. i > sent[d] /\ <<d, i>> # t
      BY <1>0, <1>3, <2>3, SizesAssumption
    <3>2. <<d, i>> \in Tasks
      BY DEF Tasks
    <3> QED  BY <1>1, <2>1, <3>1, <3>2 DEF ChannelInv
  <2> QED  BY <2>2, <2>3 DEF ChannelInv
<1> QED  BY <1>2, <1>4 DEF IndInv

\* A channel step that hands nothing over leaves the batches alone.
LEMMA QuietStep ==
    ASSUME IndInv, TypeOK', UNCHANGED <<task, indexed, sent>>,
           \A d \in Channels : /\ sent[d] + held'[d] <= received'[d]
                               /\ awaited'[d] <= sent[d]
    PROVE  IndInv'
<1>1. \A u \in Tasks : TaskInv(u)'
  BY DEF IndInv, TaskInv, Untouched, UnderWay, Settled, Stored, Answered,
         UnknownAnswers
<1>2. \A d \in Channels : ChannelInv(d)'
  BY DEF IndInv, ChannelInv
<1> QED  BY <1>1, <1>2 DEF IndInv

\* add_batch keeps the shape of the channel's summary.
LEMMA AddBatchType ==
    ASSUME NEW s \in [batches : Nat, docs : Nat, errors : Nat, rejected : Nat,
                      retries : Nat, counts : [Codes -> Nat]],
           NEW r \in Responses
    PROVE  AddBatch(s, r) \in [batches : Nat, docs : Nat, errors : Nat,
                               rejected : Nat, retries : Nat,
                               counts : [Codes -> Nat]]
<1>1. [c \in Codes |-> s.counts[c] + CountsOf(r)[c]] \in [Codes -> Nat]
  BY CountsType
<1>2. s.rejected + r.attributed + Larger(0, r.errors - r.attributed) \in Nat
  BY DEF Larger, Responses
<1> QED  BY <1>1, <1>2 DEF AddBatch, Responses

LEMMA ReceiveStep ==
    ASSUME IndInv, NEW c \in Channels, Receive(c)  PROVE IndInv'
<1>1. /\ TypeOK /\ ChannelInv(c) /\ received[c] < Documents
      /\ held \in [Channels -> Nat] /\ sent \in [Channels -> 0..Documents]
      /\ received \in [Channels -> 0..Documents]
  BY DEF IndInv, TypeOK, Receive
<1>2. received' = [received EXCEPT ![c] = @ + 1] /\ received' \in [Channels -> 0..Documents]
  BY <1>1, SizesAssumption DEF Receive
<1>3. CASE held' = [held EXCEPT ![c] = @ + 1] /\ UNCHANGED <<sent, task, indexed>>
  <2>1. TypeOK'
    BY <1>1, <1>2, <1>3 DEF TypeOK, Receive
  <2>2. \A d \in Channels : /\ sent[d] + held'[d] <= received'[d]
                            /\ awaited'[d] <= sent[d]
    BY <1>1, <1>2, <1>3, SizesAssumption DEF IndInv, ChannelInv, Receive
  <2> QED  BY <1>3, <2>1, <2>2, QuietStep
<1>4. CASE held' = [held EXCEPT ![c] = 0] /\ Tx(c, held[c] + 1)
  <2>1. sent[c] < Documents /\ held[c] + 1 \in Nat
    BY <1>1, SizesAssumption DEF ChannelInv
  <2>2. task' \in [Tasks -> TaskRecords] /\ indexed' \in [Tasks -> Nat]
    <3>1. <<c, sent[c] + 1>> \in Tasks
      BY <1>1, <2>1, SizesAssumption DEF Tasks
    <3> QED  BY <1>4, <2>1, <3>1, TxTask
  <2>3. sent' = [sent EXCEPT ![c] = @ + 1] /\ sent' \in [Channels -> 0..Documents]
    BY <1>1, <1>4, <2>1, SizesAssumption DEF Tx
  <2>4. TypeOK'
    BY <1>1, <1>2, <1>4, <2>2, <2>3 DEF TypeOK, Receive
  <2>5. /\ sent'[c] + held'[c] <= received'[c]
        /\ \A d \in Channels : d # c => received'[d] = received[d] /\ held'[d] = held[d]
    BY <1>1, <1>2, <1>4, <2>3, SizesAssumption DEF ChannelInv
  <2>6. UNCHANGED awaited
    BY DEF Receive
  <2> QED  BY <1>4, <2>1, <2>4, <2>5, <2>6, TxStep
<1> QED  BY <1>3, <1>4 DEF Receive

LEMMA CloseStep ==
    ASSUME IndInv, NEW c \in Channels, Close(c)  PROVE IndInv'
<1>1. /\ TypeOK /\ ChannelInv(c)
      /\ held \in [Channels -> Nat] /\ sent \in [Channels -> 0..Documents]
      /\ received \in [Channels -> 0..Documents]
      /\ held' = [held EXCEPT ![c] = 0] /\ received' = received
  BY DEF IndInv, TypeOK, Close
<1>2. CASE UNCHANGED <<sent, task, indexed>>
  <2>1. TypeOK'
    BY <1>1, <1>2 DEF TypeOK, Close
  <2>2. \A d \in Channels : /\ sent[d] + held'[d] <= received'[d]
                            /\ awaited'[d] <= sent[d]
    BY <1>1, <1>2, SizesAssumption DEF IndInv, ChannelInv, Close
  <2> QED  BY <1>2, <2>1, <2>2, QuietStep
<1>3. CASE held[c] > 0 /\ Tx(c, held[c])
  <2>1. sent[c] < Documents /\ held[c] \in Nat
    BY <1>1, <1>3, SizesAssumption DEF ChannelInv
  <2>2. task' \in [Tasks -> TaskRecords] /\ indexed' \in [Tasks -> Nat]
    <3>1. <<c, sent[c] + 1>> \in Tasks
      BY <1>1, <2>1, SizesAssumption DEF Tasks
    <3> QED  BY <1>3, <2>1, <3>1, TxTask
  <2>3. sent' = [sent EXCEPT ![c] = @ + 1] /\ sent' \in [Channels -> 0..Documents]
    BY <1>1, <1>3, <2>1, SizesAssumption DEF Tx
  <2>4. TypeOK'
    BY <1>1, <1>3, <2>2, <2>3 DEF TypeOK, Close
  <2>5. /\ sent'[c] + held'[c] <= received'[c]
        /\ \A d \in Channels : d # c => received'[d] = received[d] /\ held'[d] = held[d]
    BY <1>1, <1>3, <2>3, SizesAssumption DEF ChannelInv
  <2>6. UNCHANGED awaited
    BY DEF Close
  <2> QED  BY <1>3, <2>1, <2>4, <2>5, <2>6, TxStep
<1> QED  BY <1>2, <1>3 DEF Close

LEMMA AwaitStep ==
    ASSUME IndInv, NEW c \in Channels, Await(c)  PROVE IndInv'
<1> DEFINE t == <<c, awaited[c] + 1>>
<1>1. /\ TypeOK /\ awaited[c] < sent[c] /\ awaited \in [Channels -> 0..Documents]
      /\ sent \in [Channels -> 0..Documents]
  BY DEF IndInv, TypeOK, Await
<1>2. t \in Tasks
  BY <1>1, SizesAssumption DEF Tasks
<1>3. task[t].resp \in Responses
  BY <1>1, <1>2, TaskFields
<1>4. summary' = [summary EXCEPT ![c] = AddBatch(summary[c], task[t].resp)]
  BY DEF Await
<1> HIDE DEF t
<1>5. TypeOK'
  <2>1. summary' \in [Channels ->
         [batches : Nat, docs : Nat, errors : Nat, rejected : Nat,
          retries : Nat, counts : [Codes -> Nat]]]
    BY <1>1, <1>3, <1>4, AddBatchType DEF TypeOK
  <2>2. awaited' \in [Channels -> 0..Documents]
    BY <1>1, SizesAssumption DEF Await
  <2> QED  BY <1>1, <2>1, <2>2 DEF TypeOK, Await
<1>6. \A d \in Channels : /\ sent[d] + held'[d] <= received'[d]
                          /\ awaited'[d] <= sent[d]
  BY <1>1, SizesAssumption DEF IndInv, ChannelInv, Await
<1> QED  BY <1>5, <1>6, QuietStep DEF Await

LEMMA DoneStep ==
    ASSUME IndInv, NEW c \in Channels, Done(c)  PROVE IndInv'
<1>1. TypeOK'
  BY DEF IndInv, TypeOK, Done
<1>2. \A d \in Channels : /\ sent[d] + held'[d] <= received'[d]
                          /\ awaited'[d] <= sent[d]
  BY DEF IndInv, ChannelInv, Done
<1> QED  BY <1>1, <1>2, QuietStep DEF Done

-----------------------------------------------------------------------------
\* The empty pipeline satisfies the invariant.
LEMMA InitInd == Init => IndInv
<1> SUFFICES ASSUME Init  PROVE IndInv
  OBVIOUS
<1>1. NoTask \in TaskRecords
  BY ConstructorsType, SizesAssumption DEF NoTask, TaskRecords
<1>2. TypeOK
  BY <1>1, CodesFacts, SizesAssumption, LimitAssumption DEF Init, TypeOK, NewSummary
<1>3. \A t \in Tasks : TaskInv(t)
  BY DEF Init, TaskInv, Untouched, UnderWay, Settled, Stored, Answered, NoTask, Aggregate
<1>4. \A c \in Channels : ChannelInv(c)
  BY DEF Init, ChannelInv, NoTask, Tasks
<1> QED  BY <1>2, <1>3, <1>4 DEF IndInv

\* Every step of the pipeline preserves the invariant.
LEMMA NextInd == IndInv /\ [Next]_vars => IndInv'
<1> SUFFICES ASSUME IndInv, [Next]_vars  PROVE IndInv'
  OBVIOUS
<1>1. CASE UNCHANGED vars
  <2>1. TypeOK'
    BY <1>1 DEF IndInv, TypeOK, vars, chanVars
  <2> QED  BY <1>1, <2>1, QuietStep DEF vars, chanVars, IndInv, ChannelInv
<1>2. ASSUME NEW c \in Channels, ChannelStep(c)  PROVE IndInv'
  BY <1>2, ReceiveStep, CloseStep, AwaitStep, DoneStep DEF ChannelStep
<1>3. ASSUME NEW t \in Tasks, TaskStep(t)  PROVE IndInv'
  BY <1>3, AcquireStep, SerializeFailsStep, NextBulkStep, IndexedStep,
     UnexpectedStep, RetryStep, GiveUpStep, FatalStep, FinishStep DEF TaskStep
<1> QED  BY <1>1, <1>2, <1>3 DEF Next, Terminated

(***************************************************************************)
(* The exporter's state keeps its shape: the batch numbers stay within the *)
(* documents received and no request is attempted more than max_retries    *)
(* times over.                                                             *)
(***************************************************************************)
THEOREM TypeCorrect == Spec => []TypeOK
<1>1. IndInv => TypeOK
  BY DEF IndInv
<1> QED  BY <1>1, InitInd, NextInd, PTL DEF Spec

\* No batch stores more documents than it holds, over timeouts and retries.
THEOREM StoredOnce == Spec => []NothingStoredTwice
<1>1. IndInv => NothingStoredTwice
  BY DEF IndInv, TaskInv, Stored, NothingStoredTwice
<1> QED  BY <1>1, InitInd, NextInd, PTL DEF Spec

\* Every document reported as created is stored by the output.
THEOREM CreatedSound == Spec => []CreatedIsStored
<1>1. IndInv => CreatedIsStored
  BY DEF IndInv, TaskInv, Stored, CreatedIsStored
<1> QED  BY <1>1, InitInd, NextInd, PTL DEF Spec

\* Every document of an answered batch is created or counted as an error.
THEOREM AccountsForBatch == Spec => []BatchAccounted
<1>1. IndInv => BatchAccounted
  BY DEF IndInv, TaskInv, Settled, BatchAccounted
<1> QED  BY <1>1, InitInd, NextInd, PTL DEF Spec

\* What a batch did to the output and what its response reports agree, for any
\* number of data streams and documents, any sizes and any retry limit.
THEOREM BatchesSound == Spec => []BatchSound
<1>1. NothingStoredTwice /\ CreatedIsStored /\ BatchAccounted => BatchSound
  BY DEF BatchSound
<1> QED  BY <1>1, StoredOnce, CreatedSound, AccountsForBatch, PTL

-----------------------------------------------------------------------------
(***************************************************************************)
(* The semaphore.  A task is in flight exactly while it is "sending", so   *)
(* the permits move with the set of those tasks.                           *)
(***************************************************************************)
PermitInv == IndInv /\ PermitsConserved

LEMMA InFlightFinite == IsFiniteSet(InFlight)
<1>1. IsFiniteSet(1..Documents)
  BY FS_Interval, SizesAssumption
<1>2. IsFiniteSet(Tasks)
  BY <1>1, FS_Product, SizesAssumption DEF Tasks
<1> QED  BY <1>2, FS_Subset DEF InFlight

\* A step that starts and ends no request keeps the set and the permits.
LEMMA SameFlight ==
    ASSUME PermitInv, permits' = permits,
           \A t \in Tasks : (task'[t].state = "sending") <=> (task[t].state = "sending")
    PROVE  PermitsConserved'
<1>1. InFlight' = InFlight
  BY DEF InFlight
<1> QED  BY <1>1 DEF PermitInv, PermitsConserved

\* tx.send and the end of the task give the permit back.
LEMMA AnswerFlight ==
    ASSUME PermitInv, NEW t \in Tasks, NEW resp, task[t].state = "sending",
           Answer(t, resp)
    PROVE  PermitsConserved'
<1>1. /\ \A u \in Tasks : u # t => task'[u] = task[u]
      /\ task'[t].state = "answered"
  BY TaskFields DEF PermitInv, IndInv, Answer, TaskRecords
<1>2. InFlight' = InFlight \ {t} /\ t \in InFlight
  BY <1>1 DEF InFlight
<1>3. /\ Cardinality(InFlight') = Cardinality(InFlight) - 1
      /\ Cardinality(InFlight) \in Nat
  BY <1>2, InFlightFinite, FS_RemoveElement, FS_CardinalityType
<1>4. permits' = permits + 1 /\ permits \in Nat
  BY DEF Answer, PermitInv, IndInv, TypeOK
<1> QED  BY <1>3, <1>4, LimitAssumption DEF PermitInv, PermitsConserved

LEMMA AcquireFlight ==
    ASSUME PermitInv, NEW t \in Tasks, Acquire(t)
    PROVE  PermitsConserved'
<1>1. /\ \A u \in Tasks : u # t => task'[u] = task[u]
      /\ task'[t].state = "sending" /\ task[t].state = "queued"
  BY TaskFields DEF PermitInv, IndInv, Acquire, TaskRecords
<1>2. InFlight' = InFlight \cup {t} /\ t \notin InFlight
  BY <1>1 DEF InFlight
<1>3. /\ Cardinality(InFlight') = Cardinality(InFlight) + 1
      /\ Cardinality(InFlight) \in Nat
  BY <1>2, InFlightFinite, FS_AddElement, FS_CardinalityType
<1>4. permits' = permits - 1 /\ permits \in Nat
  BY DEF Acquire, PermitInv, IndInv, TypeOK
<1> QED  BY <1>3, <1>4, LimitAssumption DEF PermitInv, PermitsConserved

\* A batch handed to tx is queued or already answered, never in flight.
LEMMA TxFlight ==
    ASSUME PermitInv, NEW c \in Channels, NEW n \in Nat, Tx(c, n),
           sent[c] < Documents, permits' = permits
    PROVE  PermitsConserved'
<1>1. IndInv /\ sent[c] \in Nat
  BY SizesAssumption DEF PermitInv, IndInv, TypeOK
<1>2. <<c, sent[c] + 1>> \in Tasks
  BY <1>1, SizesAssumption DEF Tasks
<1>3. /\ task[<<c, sent[c] + 1>>].state = "none"
      /\ task'[<<c, sent[c] + 1>>].state \in {"queued", "answered"}
      /\ \A u \in Tasks : u # <<c, sent[c] + 1>> => task'[u] = task[u]
  BY <1>1, <1>2, TxTask
<1> QED  BY <1>3, SameFlight

LEMMA ChannelFlight ==
    ASSUME PermitInv, NEW c \in Channels, ChannelStep(c)
    PROVE  PermitsConserved'
<1>1. /\ ChannelInv(c) /\ held[c] \in Nat /\ sent[c] \in Nat
      /\ received[c] \in 0..Documents
  BY SizesAssumption DEF PermitInv, IndInv, TypeOK
<1>2. permits' = permits
  BY DEF ChannelStep, Receive, Close, Await, Done
<1>3. CASE task' = task
  BY <1>2, <1>3, SameFlight
<1>4. CASE Receive(c) /\ Tx(c, held[c] + 1)
  <2>1. sent[c] < Documents /\ held[c] + 1 \in Nat
    BY <1>1, <1>4, SizesAssumption DEF Receive, ChannelInv
  <2> QED  BY <1>2, <1>4, <2>1, TxFlight
<1>5. CASE held[c] > 0 /\ Tx(c, held[c])
  <2>1. sent[c] < Documents
    BY <1>1, <1>5, SizesAssumption DEF ChannelInv
  <2> QED  BY <1>1, <1>2, <1>5, <2>1, TxFlight
<1> QED
  BY <1>3, <1>4, <1>5 DEF ChannelStep, Receive, Close, Await, Done

LEMMA TaskFlight ==
    ASSUME PermitInv, NEW t \in Tasks, TaskStep(t)
    PROVE  PermitsConserved'
<1>1. TypeOK
  BY DEF PermitInv, IndInv
<1>2. CASE Acquire(t)
  BY <1>2, AcquireFlight
<1>3. CASE SerializeFails(t) \/ Fatal(t) \/ Finish(t)
  BY <1>3, AnswerFlight DEF SerializeFails, Fatal, Finish, Between, Requesting
<1>4. CASE NextBulk(t) \/ Indexed(t) \/ UnexpectedStatus(t) \/ Retry(t) \/ GiveUp(t)
  <2>1. permits' = permits
    BY <1>4 DEF NextBulk, Indexed, UnexpectedStatus, Retry, GiveUp
  <2>2. /\ \A u \in Tasks : u # t => task'[u] = task[u]
        /\ task'[t].state = task[t].state
    <3>1. CASE NextBulk(t) \/ Retry(t)
      BY <1>1, <3>1, TaskFields DEF NextBulk, Retry, TaskRecords
    <3>2. CASE \E b : MergeInto(t, b)
      BY <1>1, <3>2, TaskFields DEF MergeInto, TaskRecords
    <3> QED  BY <1>4, <3>1, <3>2 DEF Indexed, UnexpectedStatus, GiveUp
  <2> QED  BY <2>1, <2>2, SameFlight
<1> QED  BY <1>2, <1>3, <1>4 DEF TaskStep

(***************************************************************************)
(* tx_limit holds for any number of data streams: never more than          *)
(* TaskLimit batches are in flight, and every exit of a task returns its   *)
(* permit.                                                                 *)
(***************************************************************************)
THEOREM LimitKept == Spec => []PermitsConserved
<1>1. Init => PermitInv
  <2> SUFFICES ASSUME Init  PROVE PermitsConserved
    BY InitInd DEF PermitInv
  <2>1. InFlight = {}
    BY DEF Init, InFlight, NoTask
  <2> QED  BY <2>1, FS_EmptySet, LimitAssumption DEF Init, PermitsConserved
<1>2. PermitInv /\ [Next]_vars => PermitInv'
  <2> SUFFICES ASSUME PermitInv, [Next]_vars  PROVE PermitsConserved'
    BY NextInd DEF PermitInv
  <2>1. CASE UNCHANGED vars
    BY <2>1, SameFlight DEF vars
  <2> QED  BY <2>1, ChannelFlight, TaskFlight DEF Next, Terminated
<1>3. PermitInv => PermitsConserved
  BY DEF PermitInv
<1> QED  BY <1>1, <1>2, <1>3, PTL DEF Spec

-----------------------------------------------------------------------------
(***************************************************************************)
(* What is reported of a batch.  A response is either the aggregate that   *)
(* has merged nothing or has the status of one of its requests, a failure  *)
(* if one of them failed; and it never names more rejected documents than  *)
(* it counts.                                                              *)
(***************************************************************************)
StatusWorst(r) ==
    /\ CountsOf(r)[r.status] > 0
    /\ \A c \in Codes : c >= 400 /\ CountsOf(r)[c] > 0 => r.status >= 400

HttpOnly(r) == r.status # 0 /\ CountsOf(r)[0] = 0

ResponseInv(r) ==
    /\ r.batches = 0 => r = Aggregate
    /\ r.batches > 0 => StatusWorst(r)
    /\ r.batches > 0 /\ exporter = "elasticsearch" => HttpOnly(r)
    /\ r.attributed <= r.errors

\* A batch is never empty, so at least one request stands behind its answer,
\* and the repetitions of the request under way are not in its response yet.
HonestTask(t) ==
    /\ ResponseInv(task[t].resp)
    /\ task[t].state \in {"none", "queued"} => task[t].attempt = 0 /\ retried[t] = 0
    /\ task[t].state # "none" => task[t].size > 0
    /\ task[t].state = "sending" =>
         /\ task[t].resp.batches > 0 => task[t].resp.counts # NoCounts
         /\ task[t].resp.batches = 0 /\ task[t].bulk = 0 => task[t].left = task[t].size
         /\ task[t].bulk = 0 => task[t].attempt = 0
         /\ task[t].resp.retries + task[t].attempt = retried[t]
    /\ Answered(t) =>
         /\ task[t].resp.batches > 0
         /\ CountsOf(task[t].resp)[NotCompleted] = 0 => task[t].resp.retries = retried[t]

(***************************************************************************)
(* The documents of a channel, in the order they came: p[i] of them are in *)
(* its first i batches, those of the awaited ones are in the summary and   *)
(* those behind the last batch are held.                                   *)
(***************************************************************************)
InOrder(c, p) ==
    /\ p \in [0..Documents -> 0..Documents]
    /\ p[0] = 0
    /\ \A i \in 1..Documents : i <= sent[c] => p[i] = p[i - 1] + task[<<c, i>>].size
    /\ p[sent[c]] + held[c] = received[c]
    /\ UnknownAnswers(summary[c]) = {} => summary[c].docs + summary[c].errors = p[awaited[c]]

HonestChannel(c) ==
    /\ phase[c] # "receiving" => held[c] = 0
    /\ phase[c] = "returned" => awaited[c] = sent[c]
    /\ summary[c].rejected = summary[c].errors
    /\ exporter = "elasticsearch" => summary[c].counts[0] = 0
    /\ \E p \in [0..Documents -> 0..Documents] : InOrder(c, p)

HonestInv ==
    /\ IndInv
    /\ \A t \in Tasks : HonestTask(t)
    /\ \A c \in Channels : HonestChannel(c)

\* One request stands for itself in the histogram.
LEMMA CountsOfOne ==
    ASSUME NEW b \in Responses, b.batches = 1, b.counts = NoCounts
    PROVE  \A c \in Codes : CountsOf(b)[c] = IF c = b.status THEN 1 ELSE 0
<1>1. CountsOf(b) = [NoCounts EXCEPT ![b.status] = 1] /\ b.status \in Codes
  BY DEF CountsOf, Responses
<1> QED
  BY <1>1, CodesFacts DEF NoCounts

\* The histogram of a merge is never the empty one: the last request is in it.
LEMMA MergeCounted ==
    ASSUME NEW a \in Responses, NEW b \in Responses,
           b.batches = 1, b.counts = NoCounts
    PROVE  /\ Merge(a, b).counts # NoCounts
           /\ Merge(a, b).batches > 0
           /\ \A c \in Codes : CountsOf(Merge(a, b))[c] = a.counts[c] + CountsOf(b)[c]
<1> DEFINE r == Merge(a, b)
<1>1. b.status \in Codes /\ a.counts[b.status] \in Nat /\ a.batches \in Nat
  BY DEF Responses
<1>2. r.counts[b.status] = a.counts[b.status] + 1
  BY <1>1, CountsOfOne, MergeFacts
<1>3. r.counts # NoCounts
  BY <1>1, <1>2 DEF NoCounts
<1>4. \A c \in Codes : r.counts[c] = a.counts[c] + CountsOf(b)[c]
  BY MergeFacts
<1>5. r.batches = a.batches + 1
  BY MergeFacts
<1> HIDE DEF r
<1> QED
  BY <1>1, <1>3, <1>4, <1>5 DEF r, CountsOf

\* merge keeps what a response reports honest: the answer of one more request
\* is counted and the verdict stays a failure once there was one.
LEMMA MergeHonest ==
    ASSUME NEW a \in Responses, NEW b \in Responses, ResponseInv(a),
           a.batches > 0 => a.counts # NoCounts,
           b.batches = 1, b.counts = NoCounts,
           b.attributed <= b.errors, b.status # 0
    PROVE  ResponseInv(Merge(a, b))
<1> DEFINE r == Merge(a, b)
<1>1. /\ r.batches > 0 /\ r \in Responses
      /\ \A c \in Codes : CountsOf(r)[c] = a.counts[c] + CountsOf(b)[c]
  BY MergeCounted, MergeFacts
<1>2. r.status = MergeStatus(a, b) /\ r.attributed <= r.errors
  BY DEF Merge, Responses, ResponseInv
<1>3. \A c \in Codes : CountsOf(b)[c] = IF c = b.status THEN 1 ELSE 0
  BY CountsOfOne
<1>4. /\ a.status \in Nat /\ b.status \in Nat /\ a.status \in Codes /\ b.status \in Codes
      /\ a.batches \in Nat /\ b.errors \in Nat /\ a.counts \in [Codes -> Nat]
      /\ 0 \in Codes /\ Codes \subseteq Nat
  <2>1. /\ a.status \in Codes /\ b.status \in Codes /\ a.batches \in Nat
        /\ b.errors \in Nat /\ a.counts \in [Codes -> Nat]
    BY DEF Responses
  <2>2. Codes \subseteq Nat /\ 0 \in Codes
    BY CodesFacts
  <2>3. a.status \in Nat /\ b.status \in Nat
    BY <2>1, <2>2
  <2> QED
    BY <2>1, <2>2, <2>3
<1> SUFFICES ResponseInv(r)
  OBVIOUS
<1> HIDE DEF r
<1>5. CASE a.batches = 0
  <2>1. a.status = 0 /\ a.counts = NoCounts
    BY <1>5 DEF ResponseInv, Aggregate
  <2>2. r.status = b.status
    BY <1>2, <1>5, <2>1 DEF MergeStatus
  <2>3. \A c \in Codes : CountsOf(r)[c] = IF c = b.status THEN 1 ELSE 0
    BY <1>1, <1>3, <2>1 DEF NoCounts
  <2> QED
    BY <1>1, <1>2, <1>4, <2>2, <2>3 DEF ResponseInv, StatusWorst, HttpOnly
<1>6. CASE a.batches > 0
  <2>1. CountsOf(a) = a.counts
    BY <1>6 DEF CountsOf
  <2>2. /\ a.counts[a.status] > 0
        /\ \A c \in Codes : c >= 400 /\ a.counts[c] > 0 => a.status >= 400
        /\ exporter = "elasticsearch" => a.status # 0 /\ a.counts[0] = 0
    BY <1>6, <2>1 DEF ResponseInv, StatusWorst, HttpOnly
  <2>3. r.status = IF (a.status >= 400) <=> (b.status >= 400) THEN Larger(a.status, b.status)
                   ELSE IF a.status >= 400 THEN a.status ELSE b.status
    BY <1>2, <1>4, <1>6 DEF MergeStatus
  <2>4. /\ r.status \in {a.status, b.status}
        /\ (a.status >= 400 \/ b.status >= 400) => r.status >= 400
    BY <1>4, <2>3 DEF Larger
  <2>5. \A c \in Codes : /\ CountsOf(r)[c] = a.counts[c] + CountsOf(b)[c]
                         /\ a.counts[c] \in Nat /\ CountsOf(b)[c] \in Nat
    BY <1>1, <1>3, <1>4
  <2>6. CountsOf(r)[r.status] > 0
    BY <1>3, <1>4, <2>2, <2>4, <2>5
  <2>7. ASSUME NEW c \in Codes, c >= 400, CountsOf(r)[c] > 0  PROVE r.status >= 400
    <3>1. a.counts[c] > 0 \/ c = b.status
      BY <1>3, <2>5, <2>7
    <3> QED
      BY <2>2, <2>4, <2>7, <3>1
  <2>8. exporter = "elasticsearch" => HttpOnly(r)
    <3>1. CountsOf(b)[0] = 0
      BY <1>3, <1>4
    <3> QED
      BY <1>4, <2>2, <2>4, <2>5, <3>1 DEF HttpOnly
  <2> QED
    BY <1>1, <1>2, <2>6, <2>7, <2>8 DEF ResponseInv, StatusWorst
<1> QED
  BY <1>4, <1>5, <1>6

\* The answer of a batch that never merged one is that of its only request.
LEMMA SingleHonest ==
    ASSUME NEW b \in Responses, b.batches = 1, b.counts = NoCounts,
           b.attributed <= b.errors,
           exporter = "elasticsearch" => b.status # 0
    PROVE  ResponseInv(b)
<1>1. /\ \A c \in Codes : CountsOf(b)[c] = IF c = b.status THEN 1 ELSE 0
      /\ b.status \in Codes /\ 0 \in Codes
  BY CountsOfOne, CodesFacts DEF Responses
<1> QED
  BY <1>1 DEF ResponseInv, StatusWorst, HttpOnly

(***************************************************************************)
(* A step of the batch task t does not touch what the other batches and    *)
(* the channels report.                                                    *)
(***************************************************************************)
LEMMA HonestFrame ==
    ASSUME HonestInv, IndInv', NEW t \in Tasks, UNCHANGED <<exporter, chanVars>>,
           \A u \in Tasks : u # t => task'[u] = task[u] /\ retried'[u] = retried[u],
           task'[t].size = task[t].size,
           HonestTask(t)'
    PROVE  HonestInv'
<1>1. ASSUME NEW u \in Tasks, u # t  PROVE HonestTask(u)'
  <2>1. /\ HonestTask(u) /\ task'[u] = task[u] /\ retried'[u] = retried[u]
        /\ exporter' = exporter
    BY <1>1 DEF HonestInv
  <2> QED
    BY <2>1 DEF HonestTask, ResponseInv, Answered, HttpOnly, StatusWorst
<1>2. ASSUME NEW c \in Channels  PROVE HonestChannel(c)'
  <2>1. HonestChannel(c)
    BY DEF HonestInv
  <2>2. /\ exporter' = exporter /\ phase' = phase /\ received' = received /\ held' = held
        /\ sent' = sent /\ awaited' = awaited /\ summary' = summary
    BY DEF chanVars
  <2>3. PICK p \in [0..Documents -> 0..Documents] : InOrder(c, p)
    BY <2>1 DEF HonestChannel
  <2>4. \A i \in 1..Documents : task'[<<c, i>>].size = task[<<c, i>>].size
    BY DEF Tasks
  <2>5. InOrder(c, p)'
    BY <2>2, <2>3, <2>4 DEF InOrder, UnknownAnswers
  <2> QED
    BY <2>1, <2>2, <2>5 DEF HonestChannel
<1> QED
  BY <1>1, <1>2 DEF HonestInv

\* Taking a permit changes nothing a batch reports.
LEMMA AcquireHonest ==
    ASSUME HonestInv, IndInv', NEW t \in Tasks, Acquire(t)  PROVE HonestInv'
<1>1. TypeOK /\ TaskInv(t) /\ HonestTask(t) /\ task[t].state = "queued"
  BY DEF HonestInv, IndInv, Acquire
<1>2. /\ task' = [task EXCEPT ![t].state = "sending"] /\ retried' = retried
      /\ UNCHANGED <<exporter, chanVars>>
  BY DEF Acquire
<1>3. /\ task'[t].state = "sending" /\ task'[t].resp = task[t].resp
      /\ task'[t].bulk = task[t].bulk /\ task'[t].left = task[t].left
      /\ task'[t].size = task[t].size /\ task'[t].attempt = task[t].attempt
      /\ \A u \in Tasks : u # t => task'[u] = task[u]
  BY <1>1, <1>2, TaskFields DEF TaskRecords
<1>4. /\ task[t].resp = Aggregate /\ task[t].bulk = 0 /\ task[t].left = task[t].size
      /\ task[t].attempt = 0 /\ retried[t] = 0 /\ task[t].size > 0
  BY <1>1 DEF TaskInv, Untouched, HonestTask
<1>5. Aggregate.batches = 0 /\ Aggregate.retries = 0
  BY DEF Aggregate
<1>6. ResponseInv(task'[t].resp) /\ ResponseInv(task[t].resp)'
  BY <1>1, <1>2, <1>3 DEF HonestTask, ResponseInv, HttpOnly, StatusWorst
<1>7. HonestTask(t)'
  BY <1>2, <1>3, <1>4, <1>5, <1>6 DEF HonestTask, Answered
<1> QED
  BY <1>2, <1>3, <1>7, HonestFrame

\* An answered batch reports one request at least, and its retries unless some
\* request was not completed.
LEMMA AnswerHonest ==
    ASSUME HonestInv, IndInv', NEW t \in Tasks, task[t].state = "sending",
           NEW resp \in Responses, Answer(t, resp),
           ResponseInv(resp), resp.batches > 0,
           CountsOf(resp)[NotCompleted] = 0 => resp.retries = retried[t],
           retried' = retried, UNCHANGED <<exporter, chanVars>>
    PROVE  HonestInv'
<1>1. TypeOK /\ HonestTask(t)
  BY DEF HonestInv, IndInv
<1>2. /\ task'[t].state = "answered" /\ task'[t].resp = resp
      /\ task'[t].size = task[t].size
      /\ \A u \in Tasks : u # t => task'[u] = task[u]
  BY <1>1, TaskFields DEF Answer, TaskRecords
<1>3. ResponseInv(task[t].resp)'
  BY <1>2 DEF ResponseInv, HttpOnly, StatusWorst
<1>4. HonestTask(t)'
  BY <1>1, <1>2, <1>3 DEF HonestTask, Answered
<1> QED
  BY <1>2, <1>4, HonestFrame

\* The response to documents that got no answer counts one request of its own.
LEMMA FailedFacts ==
    ASSUME NEW n \in Nat
    PROVE  LET f == Failed(n, NotCompleted)
           IN  /\ f \in Responses /\ f.batches = 1 /\ f.counts = NoCounts
               /\ f.attributed <= f.errors /\ f.status = NotCompleted /\ f.status # 0
               /\ CountsOf(f)[NotCompleted] = 1
<1> DEFINE f == Failed(n, NotCompleted)
<1>1. NotCompleted \in Codes /\ NotCompleted # 0
  BY CodesFacts DEF NotCompleted
<1>2. f \in Responses
  BY <1>1, ConstructorsType
<1>3. /\ f.batches = 1 /\ f.counts = NoCounts /\ f.attributed = 0 /\ f.errors = n
      /\ f.status = NotCompleted
  BY DEF Failed
<1> HIDE DEF f
<1>4. CountsOf(f)[NotCompleted] = 1
  BY <1>1, <1>2, <1>3, CountsOfOne
<1> QED
  BY <1>1, <1>2, <1>3, <1>4 DEF f

LEMMA SerializeFailsHonest ==
    ASSUME HonestInv, IndInv', NEW t \in Tasks, SerializeFails(t)  PROVE HonestInv'
<1>1. /\ TypeOK /\ task[t].state = "sending" /\ retried' = retried
      /\ UNCHANGED <<exporter, chanVars>>
  BY DEF HonestInv, IndInv, SerializeFails, Between
<1> DEFINE f == Failed(task[t].size, NotCompleted)
<1>2. /\ f \in Responses /\ f.batches = 1 /\ f.counts = NoCounts
      /\ f.attributed <= f.errors /\ f.status # 0 /\ CountsOf(f)[NotCompleted] = 1
  BY <1>1, TaskFields, FailedFacts
<1>3. Answer(t, f)
  BY DEF SerializeFails
<1> HIDE DEF f
<1>4. ResponseInv(f)
  BY <1>2, SingleHonest
<1> QED
  BY <1>1, <1>2, <1>3, <1>4, AnswerHonest

LEMMA FinishHonest ==
    ASSUME HonestInv, IndInv', NEW t \in Tasks, Finish(t)  PROVE HonestInv'
<1>1. /\ TypeOK /\ HonestTask(t) /\ task[t].state = "sending" /\ task[t].bulk = 0
      /\ task[t].left = 0 /\ Answer(t, task[t].resp) /\ retried' = retried
      /\ UNCHANGED <<exporter, chanVars>>
  BY DEF HonestInv, IndInv, Finish, Between
<1>2. /\ ResponseInv(task[t].resp) /\ task[t].size > 0 /\ task[t].attempt = 0
      /\ task[t].resp.batches = 0 => task[t].left = task[t].size
      /\ task[t].resp.retries + task[t].attempt = retried[t]
  BY <1>1 DEF HonestTask
<1>3. /\ task[t].resp \in Responses /\ task[t].resp.batches \in Nat
      /\ task[t].resp.retries \in Nat
  BY <1>1, TaskFields DEF Responses
<1>4. task[t].resp.batches > 0 /\ task[t].resp.retries = retried[t]
  BY <1>1, <1>2, <1>3
<1> QED
  BY <1>1, <1>2, <1>3, <1>4, AnswerHonest

LEMMA FatalHonest ==
    ASSUME HonestInv, IndInv', NEW t \in Tasks, Fatal(t)  PROVE HonestInv'
<1>1. /\ TypeOK /\ HonestTask(t) /\ task[t].state = "sending"
      /\ Answer(t, FatalResponse(t)) /\ retried' = retried
      /\ UNCHANGED <<exporter, chanVars>>
  BY DEF HonestInv, IndInv, Fatal, Requesting
<1>2. /\ task[t].resp \in Responses /\ ResponseInv(task[t].resp)
      /\ task[t].resp.batches > 0 => task[t].resp.counts # NoCounts
      /\ task[t].resp.batches \in Nat /\ task[t].resp.counts \in [Codes -> Nat]
  BY <1>1, TaskFields DEF HonestTask, Responses
<1> DEFINE r == FatalResponse(t)
<1>3. CASE task[t].resp.batches = 0
  <2> DEFINE f == Failed(task[t].size, NotCompleted)
  <2>1. /\ f \in Responses /\ f.batches = 1 /\ f.counts = NoCounts
        /\ f.attributed <= f.errors /\ f.status # 0 /\ CountsOf(f)[NotCompleted] = 1
    BY <1>1, TaskFields, FailedFacts
  <2>2. r = f
    BY <1>3 DEF FatalResponse
  <2> HIDE DEF f, r
  <2>3. ResponseInv(r) /\ r \in Responses /\ r.batches > 0 /\ CountsOf(r)[NotCompleted] = 1
    BY <2>1, <2>2, SingleHonest
  <2> QED
    BY <1>1, <2>3, AnswerHonest DEF r
<1>4. CASE task[t].resp.batches # 0
  <2> DEFINE f == Failed(task[t].bulk + task[t].left, NotCompleted)
  <2>1. /\ f \in Responses /\ f.batches = 1 /\ f.counts = NoCounts
        /\ f.attributed <= f.errors /\ f.status # 0 /\ CountsOf(f)[NotCompleted] = 1
    BY <1>1, TaskFields, FailedFacts
  <2>2. r = Merge(task[t].resp, f)
    BY <1>4 DEF FatalResponse
  <2> HIDE DEF f, r
  <2>3. NotCompleted \in Codes
    BY CodesFacts DEF NotCompleted
  <2>4. /\ r \in Responses /\ r.batches > 0
        /\ CountsOf(r)[NotCompleted] = task[t].resp.counts[NotCompleted] + 1
    <3>1. Merge(task[t].resp, f) \in Responses
      BY <1>2, <2>1, MergeFacts
    <3>2. /\ Merge(task[t].resp, f).batches > 0
          /\ \A c \in Codes : CountsOf(Merge(task[t].resp, f))[c]
                               = task[t].resp.counts[c] + CountsOf(f)[c]
      BY <1>2, <2>1, MergeCounted
    <3> QED
      BY <2>1, <2>2, <2>3, <3>1, <3>2
  <2>5. ResponseInv(r)
    BY <1>2, <2>1, <2>2, MergeHonest
  <2>6. CountsOf(r)[NotCompleted] # 0
    BY <1>2, <2>3, <2>4
  <2> QED
    BY <1>1, <2>4, <2>5, <2>6, AnswerHonest DEF r
<1> QED
  BY <1>3, <1>4

\* The answer to one request takes its repetitions into the response.
LEMMA MergedHonest ==
    ASSUME HonestInv, IndInv', NEW t \in Tasks, Requesting(t),
           NEW b \in Responses, MergeInto(t, b),
           b.batches = 1, b.counts = NoCounts, b.attributed <= b.errors,
           b.status # 0, b.retries = task[t].attempt,
           retried' = retried, UNCHANGED <<exporter, chanVars>>
    PROVE  HonestInv'
<1>1. TypeOK /\ HonestTask(t) /\ task[t].state = "sending"
  BY DEF HonestInv, IndInv, Requesting
<1> DEFINE r == Merge(task[t].resp, b)
<1>2. /\ task[t].resp \in Responses /\ ResponseInv(task[t].resp)
      /\ task[t].resp.batches > 0 => task[t].resp.counts # NoCounts
      /\ task[t].resp.retries \in Nat /\ task[t].attempt \in Nat
      /\ task[t].resp.retries + task[t].attempt = retried[t] /\ task[t].size > 0
  BY <1>1, TaskFields DEF HonestTask, Responses
<1>3. /\ r.retries = task[t].resp.retries + task[t].attempt
      /\ r \in Responses /\ r.batches > 0 /\ r.counts # NoCounts
  <2>1. r.retries = task[t].resp.retries + b.retries
    BY DEF Merge
  <2> HIDE DEF r
  <2> QED
    BY <1>2, <2>1, MergeFacts, MergeCounted DEF r
<1>4. ResponseInv(r)
  BY <1>2, MergeHonest
<1>5. /\ task'[t].state = "sending" /\ task'[t].bulk = 0 /\ task'[t].attempt = 0
      /\ task'[t].size = task[t].size /\ task'[t].resp = r
      /\ \A u \in Tasks : u # t => task'[u] = task[u]
  <2> HIDE DEF r
  <2>1. task' = [task EXCEPT ![t] = [task[t] EXCEPT !.bulk = 0, !.attempt = 0, !.resp = r]]
    BY DEF MergeInto, r
  <2> QED
    BY <1>1, <2>1, TaskFields DEF TaskRecords
<1> HIDE DEF r
<1>6. ResponseInv(task[t].resp)'
  BY <1>4, <1>5 DEF ResponseInv, HttpOnly, StatusWorst
<1>7. HonestTask(t)'
  <2>1. r.retries + 0 = retried[t] /\ r.retries \in Nat
    BY <1>2, <1>3 DEF Responses
  <2> QED
    BY <1>2, <1>3, <1>5, <1>6, <2>1 DEF HonestTask, Answered
<1> QED
  BY <1>5, <1>7, HonestFrame

LEMMA IndexedHonest ==
    ASSUME HonestInv, IndInv', NEW t \in Tasks, Indexed(t)  PROVE HonestInv'
<1>1. /\ TypeOK /\ Requesting(t) /\ retried' = retried /\ UNCHANGED <<exporter, chanVars>>
  BY DEF HonestInv, IndInv, Indexed
<1>2. PICK rejected \in 0..task[t].bulk :
        MergeInto(t, New(task[t].bulk - rejected, rejected, task[t].attempt, 200))
  BY DEF Indexed
<1> DEFINE b == New(task[t].bulk - rejected, rejected, task[t].attempt, 200)
<1>3. rejected \in Nat /\ task[t].bulk - rejected \in Nat /\ task[t].attempt \in Nat
  BY <1>1, TaskFields
<1>4. b \in Responses
  BY <1>3, ConstructorsType, CodesFacts
<1>5. /\ b.batches = 1 /\ b.counts = NoCounts /\ b.attributed = rejected
      /\ b.errors = rejected /\ b.status = 200 /\ b.retries = task[t].attempt
  BY DEF New
<1> HIDE DEF b
<1> QED
  BY <1>1, <1>2, <1>3, <1>4, <1>5, MergedHonest DEF b

LEMMA UnexpectedHonest ==
    ASSUME HonestInv, IndInv', NEW t \in Tasks, UnexpectedStatus(t)  PROVE HonestInv'
<1>1. /\ TypeOK /\ Requesting(t) /\ retried' = retried /\ UNCHANGED <<exporter, chanVars>>
  BY DEF HonestInv, IndInv, UnexpectedStatus
<1>2. PICK code \in Unexpected : MergeInto(t, New(0, 0, task[t].attempt, code))
  BY DEF UnexpectedStatus
<1> DEFINE b == New(0, 0, task[t].attempt, code)
<1>3. code \in Codes /\ code # 0
  BY CodesFacts DEF Codes
<1>4. b \in Responses
  BY <1>1, <1>3, TaskFields, ConstructorsType
<1>5. /\ b.batches = 1 /\ b.counts = NoCounts /\ b.attributed = 0
      /\ b.errors = 0 /\ b.status = code /\ b.retries = task[t].attempt
  BY DEF New
<1> HIDE DEF b
<1> QED
  BY <1>1, <1>2, <1>3, <1>4, <1>5, MergedHonest DEF b

LEMMA GiveUpHonest ==
    ASSUME HonestInv, IndInv', NEW t \in Tasks, GiveUp(t)  PROVE HonestInv'
<1>1. /\ TypeOK /\ Requesting(t) /\ retried' = retried /\ UNCHANGED <<exporter, chanVars>>
  BY DEF HonestInv, IndInv, GiveUp
<1> DEFINE f == Failed(task[t].bulk, TooMany)
           b == [f EXCEPT !.retries = task[t].attempt]
<1>2. f \in Responses /\ task[t].attempt \in Nat /\ task[t].bulk \in Nat
  BY <1>1, TaskFields, ConstructorsType, CodesFacts DEF TooMany
<1>3. /\ f.batches = 1 /\ f.counts = NoCounts /\ f.attributed = 0
      /\ f.errors = task[t].bulk /\ f.status = TooMany /\ TooMany # 0
  BY DEF Failed, TooMany
<1>4. MergeInto(t, b)
  BY DEF GiveUp
<1> HIDE DEF f
<1>5. /\ b \in Responses /\ b.batches = 1 /\ b.counts = NoCounts /\ b.attributed <= b.errors
      /\ b.status # 0 /\ b.retries = task[t].attempt
  BY <1>2, <1>3 DEF Responses
<1> HIDE DEF b
<1> QED
  BY <1>1, <1>4, <1>5, MergedHonest

LEMMA RetryHonest ==
    ASSUME HonestInv, IndInv', NEW t \in Tasks, Retry(t)  PROVE HonestInv'
<1>1. /\ TypeOK /\ HonestTask(t) /\ task[t].state = "sending" /\ task[t].bulk > 0
      /\ UNCHANGED <<exporter, chanVars>>
  BY DEF HonestInv, IndInv, Retry, Requesting
<1>2. /\ task'[t].state = "sending" /\ task'[t].bulk = task[t].bulk
      /\ task'[t].left = task[t].left /\ task'[t].size = task[t].size
      /\ task'[t].resp = task[t].resp /\ task'[t].attempt = task[t].attempt + 1
      /\ \A u \in Tasks : u # t => task'[u] = task[u]
  BY <1>1, TaskFields DEF Retry, TaskRecords
<1>3. retried'[t] = retried[t] + 1 /\ \A u \in Tasks : u # t => retried'[u] = retried[u]
  BY <1>1, TaskFields DEF Retry
<1>4. task[t].resp.retries \in Nat /\ task[t].attempt \in Nat /\ retried[t] \in Nat
  BY <1>1, TaskFields DEF Responses
<1>5. ResponseInv(task[t].resp)'
  BY <1>1, <1>2 DEF HonestTask, ResponseInv, HttpOnly, StatusWorst
<1>6. HonestTask(t)'
  <2>1. task'[t].resp.retries + task'[t].attempt = retried'[t]
    BY <1>1, <1>2, <1>3, <1>4 DEF HonestTask
  <2> QED
    BY <1>1, <1>2, <1>5, <2>1, TaskFields DEF HonestTask, Answered
<1> QED
  BY <1>1, <1>2, <1>3, <1>6, HonestFrame

LEMMA NextBulkHonest ==
    ASSUME HonestInv, IndInv', NEW t \in Tasks, NextBulk(t)  PROVE HonestInv'
<1>1. /\ TypeOK /\ HonestTask(t) /\ task[t].state = "sending" /\ task[t].bulk = 0
      /\ UNCHANGED <<exporter, chanVars, retried>>
  BY DEF HonestInv, IndInv, NextBulk, Between
<1>2. PICK n \in 1..Smaller(BulkSize, task[t].left) :
        task' = [task EXCEPT ![t].bulk = n, ![t].left = @ - n]
  BY DEF NextBulk
<1>3. n > 0 /\ n \in Nat
  BY <1>1, <1>2, TaskFields, SizesAssumption DEF Smaller, BulkSize, Larger
<1>4. /\ task'[t].state = "sending" /\ task'[t].bulk = n
      /\ task'[t].size = task[t].size
      /\ task'[t].resp = task[t].resp /\ task'[t].attempt = task[t].attempt
      /\ \A u \in Tasks : u # t => task'[u] = task[u]
  BY <1>1, <1>2, TaskFields DEF TaskRecords
<1>5. ResponseInv(task[t].resp)'
  BY <1>1, <1>4 DEF HonestTask, ResponseInv, HttpOnly, StatusWorst
<1>6. HonestTask(t)'
  BY <1>1, <1>3, <1>4, <1>5 DEF HonestTask, Answered
<1> QED
  BY <1>1, <1>4, <1>6, HonestFrame

-----------------------------------------------------------------------------
(* What a channel reports. *)

\* What add_batch makes of the summary of a channel and one answered batch:
\* every rejected document goes to one row, and no unknown answer is forgotten.
LEMMA AddBatchFacts ==
    ASSUME NEW s \in [batches : Nat, docs : Nat, errors : Nat, rejected : Nat,
                      retries : Nat, counts : [Codes -> Nat]],
           NEW r \in Responses, r.batches > 0, r.attributed <= r.errors
    PROVE  /\ AddBatch(s, r).docs = s.docs + r.docs
           /\ AddBatch(s, r).errors = s.errors + r.errors
           /\ AddBatch(s, r).rejected = s.rejected + r.errors
           /\ \A c \in Codes : AddBatch(s, r).counts[c] = s.counts[c] + CountsOf(r)[c]
           /\ UnknownAnswers(AddBatch(s, r)) = {}
                => UnknownAnswers(s) = {} /\ UnknownAnswers(r) = {}
<1> DEFINE n == AddBatch(s, r)
<1>1. /\ r.attributed \in Nat /\ r.errors \in Nat /\ s.rejected \in Nat
      /\ r.counts \in [Codes -> Nat] /\ s.counts \in [Codes -> Nat]
  BY DEF Responses
<1>2. /\ n.docs = s.docs + r.docs /\ n.errors = s.errors + r.errors
      /\ n.rejected = s.rejected + r.attributed + Larger(0, r.errors - r.attributed)
      /\ n.counts = [c \in Codes |-> s.counts[c] + CountsOf(r)[c]]
  BY DEF AddBatch
<1> HIDE DEF n
<1>3. n.rejected = s.rejected + r.errors
  BY <1>1, <1>2 DEF Larger
<1>4. \A c \in Codes : n.counts[c] = s.counts[c] + CountsOf(r)[c]
  BY <1>2
<1>5. ASSUME NEW c \in Unexpected, UnknownAnswers(n) = {}
      PROVE  s.counts[c] = 0 /\ r.counts[c] = 0
  <2>1. /\ c \in Codes /\ s.counts[c] \in Nat /\ r.counts[c] \in Nat
        /\ CountsOf(r)[c] \in Nat /\ NoCounts[c] = 0
    BY <1>1, CountsType DEF Codes, NoCounts
  <2>2. ~(n.counts[c] > 0)
    BY <1>5 DEF UnknownAnswers
  <2>3. s.counts[c] = 0 /\ CountsOf(r)[c] = 0
    BY <1>4, <2>1, <2>2
  <2>4. r.counts[c] = 0
    BY <2>1, <2>3 DEF CountsOf
  <2> QED
    BY <2>3, <2>4
<1>6. UnknownAnswers(n) = {} => UnknownAnswers(s) = {} /\ UnknownAnswers(r) = {}
  BY <1>5 DEF UnknownAnswers
<1> QED
  BY <1>2, <1>3, <1>4, <1>6 DEF n

\* A channel step that hands nothing over leaves what the batches report alone.
LEMMA QuietHonest ==
    ASSUME HonestInv, IndInv', UNCHANGED <<exporter, task, retried>>,
           \A c \in Channels : HonestChannel(c)'
    PROVE  HonestInv'
<1>1. ASSUME NEW t \in Tasks  PROVE HonestTask(t)'
  <2>1. HonestTask(t)
    BY DEF HonestInv
  <2> QED
    BY <2>1 DEF HonestTask, ResponseInv, Answered, HttpOnly, StatusWorst
<1> QED
  BY <1>1 DEF HonestInv

\* A channel that a step does not concern keeps its account.
LEMMA OtherChannel ==
    ASSUME HonestInv, NEW c \in Channels, exporter' = exporter,
           phase'[c] = phase[c], received'[c] = received[c], held'[c] = held[c],
           sent'[c] = sent[c], awaited'[c] = awaited[c], summary'[c] = summary[c],
           \A i \in 1..Documents :
             i <= sent[c] => task'[<<c, i>>].size = task[<<c, i>>].size
    PROVE  HonestChannel(c)'
<1>1. HonestChannel(c)
  BY DEF HonestInv
<1>2. PICK p \in [0..Documents -> 0..Documents] : InOrder(c, p)
  BY <1>1 DEF HonestChannel
<1>3. InOrder(c, p)'
  BY <1>2 DEF InOrder, UnknownAnswers
<1> QED
  BY <1>1, <1>3 DEF HonestChannel

\* A batch handed over is not empty and starts with a clean report; the
\* documents in front of it are those of the earlier batches.
LEMMA TxHonest ==
    ASSUME HonestInv, IndInv', NEW c \in Channels, NEW n \in Nat, n > 0, Tx(c, n),
           sent[c] < Documents,
           UNCHANGED <<exporter, retried, awaited, summary>>,
           \A d \in Channels : d # c => /\ phase'[d] = phase[d]
                                        /\ received'[d] = received[d]
                                        /\ held'[d] = held[d],
           phase'[c] # "returned", held'[c] = 0,
           received'[c] = received[c] - held[c] + n
    PROVE  HonestInv'
<1>1. /\ IndInv /\ TypeOK /\ sent[c] \in Nat /\ sent \in [Channels -> 0..Documents]
      /\ sent' = [sent EXCEPT ![c] = @ + 1] /\ awaited[c] <= sent[c] /\ awaited[c] \in Nat
      /\ received[c] \in Nat /\ held[c] \in Nat /\ received'[c] \in 0..Documents
  BY SizesAssumption DEF HonestInv, IndInv, TypeOK, Tx, ChannelInv
<1>2. PICK t \in Tasks : t = <<c, sent[c] + 1>>
  <2>1. sent[c] + 1 \in 1..Documents
    BY <1>1, SizesAssumption
  <2>2. <<c, sent[c] + 1>> \in Tasks
    BY <2>1 DEF Tasks
  <2> QED
    BY <2>2
<1>3. /\ task[t].state = "none" /\ task \in [Tasks -> TaskRecords]
      /\ \A u \in Tasks : u # t => task'[u] = task[u]
  BY <1>1, <1>2, TxTask, TaskFields
<1>4. HonestTask(t) /\ retried[t] = 0
  BY <1>3 DEF HonestInv, HonestTask
<1>5. HonestTask(t)' /\ task'[t].size = n
  <2>1. CASE exporter = "elasticsearch"
    <3>1. task'[t] = Spawned(n)
      BY <1>2, <1>3, <2>1 DEF Tx
    <3>2. /\ Spawned(n).state = "queued" /\ Spawned(n).resp = Aggregate
          /\ Spawned(n).attempt = 0 /\ Spawned(n).size = n
      BY DEF Spawned, NoTask
    <3>3. Aggregate.batches = 0 /\ Aggregate.attributed = 0 /\ Aggregate.errors = 0
      BY DEF Aggregate
    <3>4. ResponseInv(task[t].resp)'
      BY <3>1, <3>2, <3>3 DEF ResponseInv
    <3> QED
      BY <1>4, <3>1, <3>2, <3>4 DEF HonestTask, Answered
  <2>2. CASE exporter # "elasticsearch"
    <3>1. PICK ok \in BOOLEAN : task'[t] = Written(n, ok)
      BY <1>2, <1>3, <2>2 DEF Tx
    <3> DEFINE b == IF ok THEN New(n, 0, 0, 0) ELSE Failed(n, 0)
    <3>2. b \in Responses
      BY ConstructorsType, CodesFacts
    <3>3. /\ b.batches = 1 /\ b.counts = NoCounts /\ b.attributed = 0 /\ b.errors \in Nat
          /\ b.retries = 0
      BY DEF New, Failed
    <3>4. /\ Written(n, ok).state = "answered" /\ Written(n, ok).size = n
          /\ Written(n, ok).resp = b
      BY DEF Written, NoTask
    <3> HIDE DEF b
    <3>5. ResponseInv(b)
      BY <2>2, <3>2, <3>3, SingleHonest
    <3>6. ResponseInv(task[t].resp)'
      BY <3>1, <3>4, <3>5 DEF ResponseInv, HttpOnly, StatusWorst
    <3> QED
      BY <1>4, <3>1, <3>3, <3>4, <3>6 DEF HonestTask, Answered
  <2> QED
    BY <2>1, <2>2
<1>6. ASSUME NEW u \in Tasks, u # t  PROVE HonestTask(u)'
  <2>1. HonestTask(u) /\ task'[u] = task[u] /\ retried'[u] = retried[u]
    BY <1>3, <1>6 DEF HonestInv
  <2> QED
    BY <2>1 DEF HonestTask, ResponseInv, Answered, HttpOnly, StatusWorst
<1>7. ASSUME NEW d \in Channels, d # c  PROVE HonestChannel(d)'
  <2>1. sent'[d] = sent[d]
    BY <1>1, <1>7
  <2>2. \A i \in 1..Documents : task'[<<d, i>>].size = task[<<d, i>>].size
    BY <1>2, <1>3, <1>7 DEF Tasks
  <2> QED
    BY <1>7, <2>1, <2>2, OtherChannel
<1>8. HonestChannel(c)'
  <2>1. HonestChannel(c)
    BY DEF HonestInv
  <2>2. PICK p \in [0..Documents -> 0..Documents] : InOrder(c, p)
    BY <2>1 DEF HonestChannel
  <2>3. /\ p[sent[c]] + n = received'[c] /\ p[sent[c]] \in Nat
        /\ sent[c] + 1 \in 0..Documents /\ sent'[c] = sent[c] + 1
    <3>1. sent[c] \in 0..Documents /\ sent[c] + 1 \in 0..Documents
      BY <1>1, SizesAssumption
    <3>2. p[sent[c]] \in Nat /\ p[sent[c]] + held[c] = received[c]
      BY <2>2, <3>1 DEF InOrder
    <3> QED
      BY <1>1, <3>1, <3>2
  <2>q. PICK q \in [0..Documents -> 0..Documents] :
          q = [p EXCEPT ![sent[c] + 1] = p[sent[c]] + n]
    BY <1>1, <2>2, <2>3
  <2>4. \A i \in 0..Documents : q[i] = IF i = sent[c] + 1 THEN received'[c] ELSE p[i]
    BY <2>q, <2>3
  <2>5. /\ q[sent'[c]] = received'[c]
        /\ \A i \in 0..Documents : i <= sent[c] => q[i] = p[i]
    BY <1>1, <2>3, <2>4
  <2>6. q[0] = 0 /\ q[awaited[c]] = p[awaited[c]]
    <3>1. 0 \in 0..Documents /\ awaited[c] \in 0..Documents /\ 0 <= sent[c]
      <4>1. sent[c] <= Documents
        BY <1>1
      <4> QED
        BY <1>1, <4>1, SizesAssumption
    <3> QED
      BY <1>1, <2>2, <2>5, <3>1 DEF InOrder
  <2>7. ASSUME NEW i \in 1..Documents, i <= sent'[c]
        PROVE  q[i] = q[i - 1] + task'[<<c, i>>].size
    <3>1. CASE i = sent[c] + 1
      <4>1. q[i] = p[sent[c]] + n /\ q[i - 1] = p[sent[c]]
        <5>1. sent[c] \in 0..Documents /\ i - 1 = sent[c] /\ i \in 0..Documents
          BY <1>1, <2>3, <3>1, SizesAssumption
        <5> QED
          BY <1>1, <2>3, <2>4, <2>5, <3>1, <5>1
      <4> QED
        BY <1>2, <1>5, <3>1, <4>1
    <3>2. CASE i # sent[c] + 1
      <4>1. i <= sent[c] /\ i - 1 \in 0..Documents /\ i \in 0..Documents /\ i - 1 <= sent[c]
        <5>1. i \in Nat /\ i >= 1 /\ i <= Documents /\ sent[c] \in Nat /\ i <= sent[c] + 1
          BY <1>1, <2>3, <2>7, SizesAssumption
        <5> QED
          BY <3>2, <5>1, SizesAssumption
      <4>2. q[i] = p[i] /\ q[i - 1] = p[i - 1]
        BY <2>5, <4>1
      <4>3. p[i] = p[i - 1] + task[<<c, i>>].size
        BY <2>2, <4>1 DEF InOrder
      <4>4. <<c, i>> \in Tasks /\ <<c, i>> # t
        BY <1>2, <3>2 DEF Tasks
      <4> QED
        BY <1>3, <4>2, <4>3, <4>4
    <3> QED
      BY <3>1, <3>2
  <2>8. InOrder(c, q)'
    <3>1. UnknownAnswers(summary'[c]) = {}
            => summary'[c].docs + summary'[c].errors = q[awaited'[c]]
      BY <2>2, <2>6 DEF InOrder
    <3>2. q[sent'[c]] + held'[c] = received'[c]
      BY <1>1, <2>5
    <3> QED
      BY <2>6, <2>7, <3>1, <3>2 DEF InOrder, UnknownAnswers
  <2> QED
    BY <2>1, <2>8 DEF HonestChannel
<1> QED
  BY <1>5, <1>6, <1>7, <1>8 DEF HonestInv

LEMMA ReceiveHonest ==
    ASSUME HonestInv, IndInv', NEW c \in Channels, Receive(c)  PROVE HonestInv'
<1>1. /\ IndInv /\ TypeOK /\ ChannelInv(c) /\ HonestChannel(c) /\ received[c] < Documents
      /\ held \in [Channels -> Nat] /\ sent \in [Channels -> 0..Documents]
      /\ received \in [Channels -> 0..Documents] /\ phase[c] = "receiving"
      /\ received' = [received EXCEPT ![c] = @ + 1]
      /\ UNCHANGED <<exporter, phase, awaited, summary, retried>>
  BY DEF HonestInv, IndInv, TypeOK, Receive
<1>2. CASE held' = [held EXCEPT ![c] = @ + 1] /\ UNCHANGED <<sent, task, indexed>>
  <2>1. ASSUME NEW d \in Channels, d # c  PROVE HonestChannel(d)'
    BY <1>1, <1>2, <2>1, OtherChannel
  <2>2. HonestChannel(c)'
    <3>1. PICK p \in [0..Documents -> 0..Documents] : InOrder(c, p)
      BY <1>1 DEF HonestChannel
    <3>2. p[sent[c]] \in Nat /\ held[c] \in Nat /\ received[c] \in Nat
      BY <1>1, <3>1, SizesAssumption
    <3>3. p[sent'[c]] + held'[c] = received'[c]
      BY <1>1, <1>2, <3>1, <3>2 DEF InOrder
    <3>4. InOrder(c, p)'
      BY <1>1, <1>2, <3>1, <3>3 DEF InOrder, UnknownAnswers
    <3> QED
      BY <1>1, <3>4 DEF HonestChannel
  <2> QED
    BY <1>1, <1>2, <2>1, <2>2, QuietHonest
<1>3. CASE held' = [held EXCEPT ![c] = 0] /\ Tx(c, held[c] + 1)
  <2>1. sent[c] < Documents /\ held[c] + 1 \in Nat /\ held[c] + 1 > 0
    BY <1>1, SizesAssumption DEF ChannelInv
  <2>2. /\ held'[c] = 0 /\ received'[c] = received[c] - held[c] + (held[c] + 1)
        /\ \A d \in Channels : d # c => received'[d] = received[d] /\ held'[d] = held[d]
        /\ phase'[c] # "returned"
    BY <1>1, <1>3, SizesAssumption
  <2> QED
    BY <1>1, <1>3, <2>1, <2>2, TxHonest
<1> QED
  BY <1>2, <1>3 DEF Receive

LEMMA CloseHonest ==
    ASSUME HonestInv, IndInv', NEW c \in Channels, Close(c)  PROVE HonestInv'
<1>1. /\ IndInv /\ TypeOK /\ ChannelInv(c) /\ HonestChannel(c)
      /\ held \in [Channels -> Nat] /\ sent \in [Channels -> 0..Documents]
      /\ received \in [Channels -> 0..Documents] /\ received' = received
      /\ phase' = [phase EXCEPT ![c] = "awaiting"] /\ held' = [held EXCEPT ![c] = 0]
      /\ phase \in [Channels -> {"receiving", "awaiting", "returned"}]
      /\ UNCHANGED <<exporter, awaited, summary, retried>>
  BY DEF HonestInv, IndInv, TypeOK, Close
<1>2. CASE held[c] = 0 /\ UNCHANGED <<sent, task, indexed>>
  <2>1. ASSUME NEW d \in Channels, d # c  PROVE HonestChannel(d)'
    BY <1>1, <1>2, <2>1, OtherChannel
  <2>2. HonestChannel(c)'
    <3>1. PICK p \in [0..Documents -> 0..Documents] : InOrder(c, p)
      BY <1>1 DEF HonestChannel
    <3>2. held'[c] = held[c]
      BY <1>1, <1>2
    <3>3. InOrder(c, p)'
      BY <1>1, <1>2, <3>1, <3>2 DEF InOrder, UnknownAnswers
    <3> QED
      BY <1>1, <3>3 DEF HonestChannel
  <2> QED
    BY <1>1, <1>2, <2>1, <2>2, QuietHonest
<1>3. CASE held[c] > 0 /\ Tx(c, held[c])
  <2>1. sent[c] < Documents /\ held[c] \in Nat
    BY <1>1, <1>3, SizesAssumption DEF ChannelInv
  <2>2. /\ held'[c] = 0 /\ received'[c] = received[c] - held[c] + held[c]
        /\ \A d \in Channels : d # c => /\ received'[d] = received[d] /\ held'[d] = held[d]
                                        /\ phase'[d] = phase[d]
        /\ phase'[c] # "returned"
    BY <1>1, <1>3, SizesAssumption
  <2> QED
    BY <1>1, <1>3, <2>1, <2>2, TxHonest
<1> QED
  BY <1>2, <1>3 DEF Close

LEMMA AwaitHonest ==
    ASSUME HonestInv, IndInv', NEW c \in Channels, Await(c)  PROVE HonestInv'
<1> DEFINE t == <<c, awaited[c] + 1>>
           r == task[t].resp
           n == AddBatch(summary[c], r)
<1>1. /\ IndInv /\ TypeOK /\ HonestChannel(c) /\ awaited[c] < sent[c]
      /\ awaited \in [Channels -> 0..Documents] /\ sent \in [Channels -> 0..Documents]
      /\ task[t].state = "answered" /\ phase[c] = "awaiting"
      /\ awaited' = [awaited EXCEPT ![c] = @ + 1]
      /\ summary' = [summary EXCEPT ![c] = n]
      /\ UNCHANGED <<exporter, phase, received, held, sent, task, retried>>
  BY DEF HonestInv, IndInv, TypeOK, Await
<1>2. t \in Tasks /\ awaited[c] + 1 \in 1..Documents /\ awaited[c] \in Nat
  BY <1>1, SizesAssumption DEF Tasks
<1>3. HonestTask(t) /\ TaskInv(t)
  BY <1>2 DEF HonestInv, IndInv
<1>4. /\ r \in Responses /\ ResponseInv(r) /\ r.batches > 0 /\ r.attributed <= r.errors
      /\ UnknownAnswers(r) = {} => r.docs + r.errors = task[t].size
      /\ r.docs \in Nat /\ r.errors \in Nat /\ r.counts \in [Codes -> Nat]
  BY <1>1, <1>2, <1>3, TaskFields
     DEF HonestTask, TaskInv, Settled, Answered, ResponseInv, Responses
<1>5. /\ summary[c] \in [batches : Nat, docs : Nat, errors : Nat, rejected : Nat,
                         retries : Nat, counts : [Codes -> Nat]]
      /\ summary[c].docs \in Nat /\ summary[c].errors \in Nat
      /\ summary[c].rejected \in Nat /\ summary[c].counts \in [Codes -> Nat]
  BY <1>1 DEF TypeOK
<1> HIDE DEF t, r
<1>6. /\ n.docs = summary[c].docs + r.docs /\ n.errors = summary[c].errors + r.errors
      /\ n.rejected = summary[c].rejected + r.errors
      /\ \A code \in Codes : n.counts[code] = summary[c].counts[code] + CountsOf(r)[code]
      /\ UnknownAnswers(n) = {} => UnknownAnswers(summary[c]) = {} /\ UnknownAnswers(r) = {}
  BY <1>4, <1>5, AddBatchFacts
<1> HIDE DEF n
<1>7. awaited'[c] = awaited[c] + 1 /\ summary'[c] = n
  BY <1>1 DEF TypeOK
<1>8. n.rejected = n.errors
  BY <1>1, <1>6 DEF HonestChannel
<1>9. exporter = "elasticsearch" => n.counts[0] = 0
  <2>1. 0 \in Codes
    BY CodesFacts
  <2>2. exporter = "elasticsearch" => summary[c].counts[0] = 0 /\ CountsOf(r)[0] = 0
    BY <1>1, <1>4 DEF HonestChannel, ResponseInv, HttpOnly
  <2> QED
    BY <1>6, <2>1, <2>2
<1>10. HonestChannel(c)'
  <2>1. PICK p \in [0..Documents -> 0..Documents] : InOrder(c, p)
    BY <1>1 DEF HonestChannel
  <2>2. p[awaited[c] + 1] = p[awaited[c]] + task[t].size
    <3>1. awaited[c] + 1 <= sent[c] /\ (awaited[c] + 1) - 1 = awaited[c]
      <4>1. sent[c] \in Nat
        BY <1>1, SizesAssumption
      <4>2. awaited[c] < sent[c]
        BY <1>1
      <4> QED
        BY <1>2, <4>1, <4>2
    <3>2. p[awaited[c] + 1] = p[(awaited[c] + 1) - 1] + task[<<c, awaited[c] + 1>>].size
      BY <1>2, <2>1, <3>1 DEF InOrder
    <3> QED
      BY <3>1, <3>2 DEF t
  <2>3. p[awaited[c]] \in Nat
    BY <1>1, <2>1
  <2>4. UnknownAnswers(n) = {} => n.docs + n.errors = p[awaited'[c]]
    <3>1. UnknownAnswers(n) = {} => summary[c].docs + summary[c].errors = p[awaited[c]]
      BY <1>6, <2>1 DEF InOrder
    <3>2. UnknownAnswers(n) = {} => r.docs + r.errors = task[t].size
      BY <1>4, <1>6
    <3> QED
      BY <1>4, <1>5, <1>6, <1>7, <2>2, <2>3, <3>1, <3>2
  <2>5. InOrder(c, p)'
    BY <1>1, <1>7, <2>1, <2>4 DEF InOrder, UnknownAnswers
  <2> QED
    BY <1>1, <1>7, <1>8, <1>9, <2>5 DEF HonestChannel
<1>11. ASSUME NEW d \in Channels, d # c  PROVE HonestChannel(d)'
  <2>1. awaited'[d] = awaited[d] /\ summary'[d] = summary[d]
    BY <1>1, <1>11 DEF TypeOK
  <2> QED
    BY <1>1, <2>1, OtherChannel
<1> QED
  BY <1>1, <1>10, <1>11, QuietHonest

LEMMA DoneHonest ==
    ASSUME HonestInv, IndInv', NEW c \in Channels, Done(c)  PROVE HonestInv'
<1>1. /\ HonestChannel(c) /\ phase[c] = "awaiting" /\ awaited[c] = sent[c]
      /\ phase' = [phase EXCEPT ![c] = "returned"]
      /\ phase \in [Channels -> {"receiving", "awaiting", "returned"}]
      /\ UNCHANGED <<exporter, received, held, sent, awaited, summary, task, retried>>
  BY DEF HonestInv, IndInv, TypeOK, Done
<1>2. ASSUME NEW d \in Channels, d # c  PROVE HonestChannel(d)'
  BY <1>1, <1>2, OtherChannel
<1>3. HonestChannel(c)'
  <2>1. PICK p \in [0..Documents -> 0..Documents] : InOrder(c, p)
    BY <1>1 DEF HonestChannel
  <2>2. InOrder(c, p)'
    BY <1>1, <2>1 DEF InOrder, UnknownAnswers
  <2> QED
    BY <1>1, <2>2 DEF HonestChannel
<1> QED
  BY <1>1, <1>2, <1>3, QuietHonest

\* Nothing is reported before anything is sent.
LEMMA InitHonest == Init => HonestInv
<1> SUFFICES ASSUME Init  PROVE HonestInv
  OBVIOUS
<1>1. Aggregate.batches = 0 /\ Aggregate.attributed = 0 /\ Aggregate.errors = 0
  BY DEF Aggregate
<1>2. ASSUME NEW t \in Tasks  PROVE HonestTask(t)
  <2>1. /\ task[t].state = "none" /\ task[t].resp = Aggregate /\ task[t].attempt = 0
        /\ retried[t] = 0
    BY DEF Init, NoTask
  <2> QED
    BY <1>1, <2>1 DEF HonestTask, ResponseInv, Answered
<1>3. ASSUME NEW c \in Channels  PROVE HonestChannel(c)
  <2> DEFINE p == [i \in 0..Documents |-> 0]
  <2>1. /\ phase[c] = "receiving" /\ received[c] = 0 /\ held[c] = 0 /\ sent[c] = 0
        /\ awaited[c] = 0 /\ summary[c] = NewSummary
    BY DEF Init
  <2>2. /\ NewSummary.docs = 0 /\ NewSummary.errors = 0 /\ NewSummary.rejected = 0
        /\ NewSummary.counts[0] = 0
    BY CodesFacts DEF NewSummary, NoCounts
  <2>3. p \in [0..Documents -> 0..Documents] /\ p[0] = 0
    BY SizesAssumption
  <2> HIDE DEF p
  <2>4. InOrder(c, p)
    BY <2>1, <2>2, <2>3 DEF InOrder
  <2> QED
    BY <2>1, <2>2, <2>3, <2>4 DEF HonestChannel
<1> QED
  BY <1>2, <1>3, InitInd DEF HonestInv

LEMMA NextHonest == HonestInv /\ [Next]_vars => HonestInv'
<1> SUFFICES ASSUME HonestInv, [Next]_vars  PROVE HonestInv'
  OBVIOUS
<1>0. IndInv'
  BY NextInd DEF HonestInv
<1>1. CASE UNCHANGED vars
  <2>1. \A c \in Channels : HonestChannel(c)'
    BY <1>1, OtherChannel DEF vars, chanVars
  <2> QED
    BY <1>0, <1>1, <2>1, QuietHonest DEF vars
<1>2. ASSUME NEW c \in Channels, ChannelStep(c)  PROVE HonestInv'
  BY <1>0, <1>2, ReceiveHonest, CloseHonest, AwaitHonest, DoneHonest DEF ChannelStep
<1>3. ASSUME NEW t \in Tasks, TaskStep(t)  PROVE HonestInv'
  BY <1>0, <1>3, AcquireHonest, SerializeFailsHonest, NextBulkHonest, IndexedHonest,
     UnexpectedHonest, RetryHonest, GiveUpHonest, FatalHonest, FinishHonest DEF TaskStep
<1> QED
  BY <1>1, <1>2, <1>3 DEF Next, Terminated

(***************************************************************************)
(* What the exporter tells of an export is what happened, for any number   *)
(* of data streams, documents, sub-batches, retries and unknown statuses:  *)
(* a returned channel has counted every document it received, every        *)
(* rejected document has its index row, and statuses, histograms and       *)
(* retries are those the requests had.                                     *)
(***************************************************************************)
THEOREM HonestExport == Spec => []ExportHonest
<1>1. HonestInv => TypeOK
  BY DEF HonestInv, IndInv
<1>2. HonestInv => ChannelAccounted
  <2> SUFFICES ASSUME HonestInv, NEW c \in Channels
               PROVE  /\ phase[c] = "returned" /\ UnknownAnswers(summary[c]) = {}
                           => summary[c].docs + summary[c].errors = received[c]
                      /\ summary[c].rejected = summary[c].errors
    BY DEF ChannelAccounted
  <2>1. HonestChannel(c)
    BY DEF HonestInv
  <2>2. PICK p \in [0..Documents -> 0..Documents] : InOrder(c, p)
    BY <2>1 DEF HonestChannel
  <2>3. phase[c] = "returned" => received[c] = p[awaited[c]]
    <3>1. sent[c] \in 0..Documents /\ p[sent[c]] \in Nat
      BY <2>2 DEF HonestInv, IndInv, TypeOK
    <3> QED
      BY <2>1, <2>2, <3>1 DEF HonestChannel, InOrder
  <2> QED
    BY <2>1, <2>2, <2>3 DEF HonestChannel, InOrder
<1>3. HonestInv => ResponseHonest
  <2> SUFFICES ASSUME HonestInv  PROVE ResponseHonest
    OBVIOUS
  <2>1. ASSUME NEW t \in Tasks, Answered(t)
        PROVE  /\ StatusWorst(task[t].resp) /\ task[t].resp.status \in Codes
               /\ exporter = "elasticsearch" => task[t].resp.status # 0
               /\ CountsOf(task[t].resp)[NotCompleted] = 0 => task[t].resp.retries = retried[t]
    <3>1. HonestTask(t) /\ TypeOK
      BY DEF HonestInv, IndInv
    <3> QED
      BY <2>1, <3>1, TaskFields DEF HonestTask, ResponseInv, HttpOnly, Responses
  <2>2. ZeroMeansNoHttp
    BY <2>1 DEF ZeroMeansNoHttp, HonestInv, HonestChannel
  <2>3. ScalarIsWorst
    BY <2>1 DEF ScalarIsWorst, StatusWorst
  <2>4. RetriesReported
    BY <2>1 DEF RetriesReported
  <2> QED
    BY <2>2, <2>3, <2>4 DEF ResponseHonest
<1>4. HonestInv => ExportHonest
  BY <1>1, <1>2, <1>3 DEF ExportHonest
<1> QED
  BY <1>4, InitHonest, NextHonest, PTL DEF Spec
=============================================================================
