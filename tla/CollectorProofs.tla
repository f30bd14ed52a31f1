--------------------------- MODULE CollectorProofs ---------------------------
(***************************************************************************)
(* The collection of a bundle for any number of APIs, any size of the pool *)
(* and any bounds on parts and repetitions.  The invariant divides the     *)
(* files of the archive among the APIs they belong to: those of the APIs   *)
(* that have ended are behind the reported number, those of an API under   *)
(* way behind what its retry loop has counted so far.                      *)
(* Then three small machines of the inputs, which are proved apart.        *)
(***************************************************************************)
EXTENDS Collector, FiniteSetTheorems, TLAPS

EntriesOf(a) == {f \in entries : f[1] = a}

DoneEntries == {f \in entries : api[f[1]].pc = "done"}

\* The phases in which no API has been asked, or none is asked any more.
PhaseInv ==
  /\ phase = "start" => \A a \in Apis : api[a].pc = "todo"
  /\ phase = "light" => \A a \in Apis : Sequential(a) => api[a].pc = "todo"
  /\ phase = "heavy" => \A a \in Apis : ~Sequential(a) => api[a].pc = "done"
  /\ phase = "manifest" => \A a \in Apis : api[a].pc = "done"
  /\ phase \in {"finalize", "done"} => InFlight = {}

\* How the manifest and the result follow the phases.
EndInv ==
  /\ manifest.written =>
       /\ phase \in {"finalize", "done"}
       /\ manifest.apis = requested
       /\ \A a \in Apis : api[a].pc = "done"
  /\ phase \in {"start", "light", "heavy", "manifest"} => result = "none"
  /\ phase = "finalize" => \/ result = "failing"
                           \/ result = "none" /\ manifest.written
  /\ ResultHonest

\* What the retry loop of an API has counted is in the archive.
ApiInv(a) ==
  /\ api[a].pc \in {"todo", "done"} => api[a].saved = 0 /\ api[a].retried = 0
  /\ api[a].saved < api[a].part
  /\ product # "kibana" =>
       /\ api[a].part = 1 /\ api[a].retried = 0
       /\ api[a].pc # "done" => EntriesOf(a) = {}
  /\ api[a].pc = "done" /\ a \notin Unsupported => requested[a] # "absent"
  /\ zip => api[a].retried + api[a].saved <= Cardinality(EntriesOf(a))
  /\ a \in Unsupported => EntriesOf(a) = {}

CountInv ==
  /\ product # "kibana" => success = Cardinality(entries) + ManifestFiles
  /\ zip => success <= Cardinality(DoneEntries) + ManifestFiles

\* Only an API that is asked for leaves a file cut off.
PartialInv == \A f \in partial : f[1] \notin Unsupported

IndInv ==
  /\ TypeOK /\ PhaseInv /\ EndInv /\ CountInv /\ ConcurrencyLimited /\ PartialInv
  /\ \A a \in Apis : ApiInv(a)

-----------------------------------------------------------------------------
ApiRecords ==
  [pc : ApiPoints, part : 1 .. MaxParts, saved : 0 .. (MaxParts - 1),
   retried : 0 .. MaxRetried, late : BOOLEAN]

\* The fields of an API's retry loop have their types.
LEMMA ApiFields ==
  ASSUME TypeOK, NEW a \in Apis
  PROVE  /\ api \in [Apis -> ApiRecords] /\ api[a] \in ApiRecords
         /\ api[a].pc \in ApiPoints /\ api[a].late \in BOOLEAN
         /\ api[a].part \in 1 .. MaxParts /\ api[a].part \in Nat
         /\ api[a].saved \in 0 .. (MaxParts - 1) /\ api[a].saved \in Nat
         /\ api[a].retried \in 0 .. MaxRetried /\ api[a].retried \in Nat
<1>1. api \in [Apis -> ApiRecords]
  BY DEF TypeOK, ApiRecords
<1>2. api[a] \in ApiRecords
  BY <1>1
<1>3. /\ api[a].pc \in ApiPoints /\ api[a].late \in BOOLEAN
      /\ api[a].part \in 1 .. MaxParts /\ api[a].saved \in 0 .. (MaxParts - 1)
      /\ api[a].retried \in 0 .. MaxRetried
  BY <1>2 DEF ApiRecords
<1>4. MaxParts \in Nat /\ MaxRetried \in Nat
  BY PoolAssumption
<1> QED
  BY <1>1, <1>2, <1>3, <1>4

\* An archive and a pool are finite, whatever is in them.
LEMMA Finite ==
  ASSUME TypeOK
  PROVE  /\ IsFiniteSet(InFlight) /\ Cardinality(InFlight) \in Nat
         /\ \A s \in SUBSET entries : IsFiniteSet(s) /\ Cardinality(s) \in Nat
<1>1. IsFiniteSet(InFlight)
  BY ApisAssumption, FS_Subset DEF InFlight
<1>2. IsFiniteSet(1 .. MaxParts)
  BY PoolAssumption, FS_Interval
<1>3. IsFiniteSet(Apis \X (1 .. MaxParts))
  BY <1>2, ApisAssumption, FS_Product
<1>4. entries \in SUBSET (Apis \X (1 .. MaxParts))
  BY DEF TypeOK
<1>5. IsFiniteSet(entries)
  BY <1>3, <1>4, FS_Subset
<1>6. \A s \in SUBSET entries : IsFiniteSet(s)
  BY <1>5, FS_Subset
<1> QED
  BY <1>1, <1>6, FS_CardinalityType

\* A request is out only while the light or the heavy APIs are collected.
LEMMA InFlightPhase ==
  ASSUME IndInv, NEW a \in InFlight
  PROVE  /\ a \in Apis /\ api[a].pc \notin {"todo", "done"}
         /\ phase \in {"light", "heavy"} /\ ~manifest.written
         /\ phase = "light" => ~Sequential(a)
         /\ phase = "heavy" => Sequential(a)
<1>1. a \in Apis /\ api[a].pc \in {"fetch", "sleep"}
  BY DEF InFlight
<1>2. phase \in {"start", "light", "heavy", "manifest", "finalize", "done"}
  BY DEF IndInv, TypeOK
<1> QED
  BY <1>1, <1>2 DEF IndInv, PhaseInv, EndInv

(***************************************************************************)
(* A step of the retry loop of the API a leaves the other APIs, their      *)
(* files and the end of the collection alone.                              *)
(***************************************************************************)
Frame == UNCHANGED <<product, zip, phase, writer, manifest, result>>

OfApi(a) ==
  /\ Frame
  /\ \A b \in Apis : b # a => api'[b] = api[b] /\ requested'[b] = requested[b]
  /\ entries \subseteq entries'
  /\ \A f \in entries' : f \in entries \/ f[1] = a
  /\ partial' \subseteq Apis \X (1 .. MaxParts)
  /\ \A f \in partial' : f \in partial \/ (f[1] = a /\ a \notin Unsupported)

LEMMA OthersKept ==
  ASSUME IndInv, NEW a \in Apis, OfApi(a)
  PROVE  \A b \in Apis : b # a => ApiInv(b)' /\ EntriesOf(b)' = EntriesOf(b)
<1> SUFFICES ASSUME NEW b \in Apis, b # a
             PROVE  ApiInv(b)' /\ EntriesOf(b)' = EntriesOf(b)
  OBVIOUS
<1>1. EntriesOf(b)' = EntriesOf(b)
  BY DEF OfApi, EntriesOf
<1>2. ApiInv(b) /\ api'[b] = api[b] /\ requested'[b] = requested[b] /\ product' = product /\ zip' = zip
  BY DEF IndInv, OfApi, Frame
<1> QED
  BY <1>1, <1>2 DEF ApiInv

LEMMA Framed ==
  ASSUME IndInv, NEW a \in Apis, OfApi(a), TypeOK', ApiInv(a)', CountInv', ConcurrencyLimited',
         ~manifest.written, phase \in {"light", "heavy"},
         phase = "light" => ~Sequential(a),
         phase = "heavy" => Sequential(a)
  PROVE  IndInv'
<1>1. \A b \in Apis : ApiInv(b)'
  BY OthersKept
<1>2. /\ phase' = phase /\ product' = product /\ manifest' = manifest /\ result' = result
      /\ writer' = writer
  BY DEF OfApi, Frame
<1>3. PhaseInv'
  BY <1>2 DEF IndInv, PhaseInv, Sequential, OfApi
<1>4. EndInv'
  BY <1>2 DEF IndInv, EndInv, ResultHonest
<1>5. PartialInv'
  BY DEF IndInv, PartialInv, OfApi
<1> QED
  BY <1>1, <1>3, <1>4, <1>5 DEF IndInv

\* As long as the API has not ended, its step moves nothing into the count.
LEMMA UnderWay ==
  ASSUME IndInv, NEW a \in Apis, OfApi(a), api[a].pc # "done", api'[a].pc # "done",
         success' = success, product # "kibana" => entries' = entries
  PROVE  CountInv'
<1>1. /\ product' = product /\ zip' = zip /\ manifest' = manifest
  BY DEF OfApi, Frame
<1>2. ManifestFiles' = ManifestFiles
  BY <1>1 DEF ManifestFiles
<1>3. DoneEntries' = DoneEntries
  <2>1. \A f \in entries : f[1] \in Apis
    BY DEF IndInv, TypeOK
  <2>2. \A f \in entries : (api'[f[1]].pc = "done") <=> (api[f[1]].pc = "done")
    BY <2>1 DEF OfApi
  <2> QED
    BY <2>2 DEF DoneEntries, OfApi
<1> QED
  BY <1>1, <1>2, <1>3 DEF IndInv, CountInv

\* The API keeps its place in the pool.
LEMMA SameFlight ==
  ASSUME IndInv, NEW a \in InFlight, OfApi(a), api'[a].pc \in {"fetch", "sleep"}
  PROVE  ConcurrencyLimited'
<1>1. InFlight' = InFlight /\ product' = product
  BY DEF InFlight, OfApi, Frame
<1> QED
  BY <1>1 DEF IndInv, ConcurrencyLimited, Sequential

-----------------------------------------------------------------------------
\* buffer_unordered has room for one more light API.
LEMMA BeginLightStep ==
  ASSUME IndInv, NEW a \in Apis, BeginLight(a)  PROVE IndInv'
<1>1. /\ TypeOK /\ ApiInv(a) /\ api[a].pc = "todo" /\ phase = "light" /\ ~Sequential(a)
      /\ Cardinality(InFlight) < Pool /\ ~manifest.written
  BY DEF IndInv, BeginLight, EndInv
<1>2. /\ api' = [api EXCEPT ![a] = [api[a] EXCEPT !.pc = "fetch"]]
      /\ success' = success /\ entries' = entries /\ partial' = partial /\ requested' = requested /\ Frame
  BY DEF BeginLight, Frame
<1>3. [api[a] EXCEPT !.pc = "fetch"] \in ApiRecords
  BY <1>1, ApiFields DEF ApiRecords, ApiPoints
<1>4. /\ api' \in [Apis -> ApiRecords] /\ api'[a].pc = "fetch" /\ api'[a].saved = api[a].saved
      /\ api'[a].part = api[a].part /\ api'[a].retried = api[a].retried
      /\ \A b \in Apis : b # a => api'[b] = api[b]
  BY <1>1, <1>2, <1>3, ApiFields DEF ApiRecords
<1>5. OfApi(a)
  BY <1>1, <1>2, <1>4 DEF OfApi, TypeOK
<1>6. TypeOK'
  BY <1>1, <1>2, <1>4 DEF TypeOK, Frame, ApiRecords
<1>7. ApiInv(a)'
  BY <1>1, <1>2, <1>4 DEF ApiInv, EntriesOf, Frame
<1>8. ConcurrencyLimited'
  <2>1. InFlight' = InFlight \cup {a} /\ a \notin InFlight
    BY <1>1, <1>4 DEF InFlight
  <2>2. Cardinality(InFlight') <= Pool
    <3>1. /\ Cardinality(InFlight') = Cardinality(InFlight) + 1
          /\ Cardinality(InFlight) \in Nat
      BY <1>1, <2>1, Finite, FS_AddElement
    <3> QED
      BY <1>1, <3>1, PoolAssumption
  <2>3. \A b \in InFlight' : ~Sequential(b)'
    BY <1>1, <1>2, <2>1 DEF IndInv, PhaseInv, InFlight, Sequential, Frame
  <2> QED
    BY <2>2, <2>3 DEF ConcurrencyLimited
<1>9. CountInv'
  BY <1>1, <1>2, <1>4, <1>5, UnderWay
<1> QED
  BY <1>1, <1>5, <1>6, <1>7, <1>8, <1>9, Framed

\* The loop over the heavy APIs has nothing else in flight.
LEMMA BeginHeavyStep ==
  ASSUME IndInv, NEW a \in Apis, BeginHeavy(a)  PROVE IndInv'
<1>1. /\ TypeOK /\ ApiInv(a) /\ api[a].pc = "todo" /\ phase = "heavy" /\ Sequential(a)
      /\ InFlight = {} /\ ~manifest.written
  BY DEF IndInv, BeginHeavy, EndInv
<1>2. /\ api' = [api EXCEPT ![a] = [api[a] EXCEPT !.pc = "fetch"]]
      /\ success' = success /\ entries' = entries /\ partial' = partial /\ requested' = requested /\ Frame
  BY DEF BeginHeavy, Frame
<1>3. [api[a] EXCEPT !.pc = "fetch"] \in ApiRecords
  BY <1>1, ApiFields DEF ApiRecords, ApiPoints
<1>4. /\ api' \in [Apis -> ApiRecords] /\ api'[a].pc = "fetch" /\ api'[a].saved = api[a].saved
      /\ api'[a].part = api[a].part /\ api'[a].retried = api[a].retried
      /\ \A b \in Apis : b # a => api'[b] = api[b]
  BY <1>1, <1>2, <1>3, ApiFields DEF ApiRecords
<1>5. OfApi(a)
  BY <1>1, <1>2, <1>4 DEF OfApi, TypeOK
<1>6. TypeOK'
  BY <1>1, <1>2, <1>4 DEF TypeOK, Frame, ApiRecords
<1>7. ApiInv(a)'
  BY <1>1, <1>2, <1>4 DEF ApiInv, EntriesOf, Frame
<1>8. ConcurrencyLimited'
  <2>1. InFlight' = {a}
    BY <1>1, <1>4 DEF InFlight
  <2>2. Cardinality({a}) = 1
    BY FS_Singleton
  <2> QED
    BY <2>1, <2>2, PoolAssumption DEF ConcurrencyLimited
<1>9. CountInv'
  BY <1>1, <1>2, <1>4, <1>5, UnderWay
<1> QED
  BY <1>1, <1>5, <1>6, <1>7, <1>8, <1>9, Framed

\* A failed attempt is put aside with the files it stored.
LEMMA RetryStep ==
  ASSUME IndInv, NEW a \in Apis, Retry(a)  PROVE IndInv'
<1>1. /\ TypeOK /\ ApiInv(a) /\ a \in InFlight /\ api[a].retried + api[a].saved <= MaxRetried
  BY DEF IndInv, Retry, CanFail, Active, InFlight
<1> DEFINE n == api[a].retried + api[a].saved
           r == [api[a] EXCEPT !.pc = "sleep", !.part = 1, !.saved = 0, !.retried = n]
<1>2. /\ api' = [api EXCEPT ![a] = r]
      /\ success' = success /\ entries' = entries /\ partial' = partial /\ requested' = requested /\ Frame
  BY DEF Retry, Frame
<1>3. /\ n \in 0 .. MaxRetried /\ 0 \in 0 .. (MaxParts - 1) /\ 1 \in 1 .. MaxParts
      /\ api[a].retried \in Nat /\ api[a].saved \in Nat
  BY <1>1, ApiFields, PoolAssumption
<1>4. r \in ApiRecords
  <2> HIDE DEF n
  <2> QED
    BY <1>1, <1>3, ApiFields DEF ApiRecords, ApiPoints
<1>5. r.pc = "sleep" /\ r.part = 1 /\ r.saved = 0 /\ r.retried = n
  <2> HIDE DEF n
  <2> QED
    BY <1>1, ApiFields DEF ApiRecords
<1> HIDE DEF r
<1>6. /\ api' \in [Apis -> ApiRecords] /\ api'[a] = r
      /\ \A b \in Apis : b # a => api'[b] = api[b]
  BY <1>1, <1>2, <1>4, ApiFields
<1>7. OfApi(a)
  BY <1>1, <1>2, <1>6 DEF OfApi, TypeOK
<1>8. TypeOK'
  BY <1>1, <1>2, <1>6 DEF TypeOK, Frame, ApiRecords
<1>9. ApiInv(a)'
  <2>1. product # "kibana" => api[a].saved = 0 /\ api[a].retried = 0
    BY <1>1, <1>3 DEF ApiInv
  <2>2. product # "kibana" => n = 0
    BY <2>1
  <2>3. n + 0 = n
    BY <1>3
  <2> QED
    BY <1>1, <1>2, <1>5, <1>6, <2>2, <2>3, InFlightPhase DEF ApiInv, EntriesOf, Frame
<1>10. ConcurrencyLimited'
  BY <1>1, <1>5, <1>6, <1>7, SameFlight
<1>11. CountInv'
  BY <1>1, <1>2, <1>5, <1>6, <1>7, InFlightPhase, UnderWay
<1> QED
  BY <1>1, <1>7, <1>8, <1>9, <1>10, <1>11, InFlightPhase, Framed

LEMMA WaitStep ==
  ASSUME IndInv, NEW a \in Apis, Wake(a) \/ TimeUp(a)  PROVE IndInv'
<1>1. TypeOK /\ ApiInv(a) /\ a \in InFlight
  BY DEF IndInv, Wake, TimeUp, InFlight
<1>2. PICK p \in {"fetch", "sleep"}, l \in BOOLEAN :
        api' = [api EXCEPT ![a] = [api[a] EXCEPT !.pc = p, !.late = l]]
  <2>1. CASE Wake(a)
    <3>1. api' = [api EXCEPT ![a] = [api[a] EXCEPT !.pc = "fetch", !.late = api[a].late]]
      BY <1>1, <2>1, ApiFields DEF Wake, ApiRecords
    <3> QED
      BY <1>1, <3>1, ApiFields
  <2>2. CASE TimeUp(a)
    <3>1. api' = [api EXCEPT ![a] = [api[a] EXCEPT !.pc = api[a].pc, !.late = TRUE]]
      BY <1>1, <2>2, ApiFields DEF TimeUp, ApiRecords
    <3> QED
      BY <1>1, <3>1 DEF InFlight
  <2> QED
    BY <2>1, <2>2
<1>3. success' = success /\ entries' = entries /\ partial' = partial /\ requested' = requested /\ Frame
  BY DEF Wake, TimeUp, Frame
<1>4. [api[a] EXCEPT !.pc = p, !.late = l] \in ApiRecords
  BY <1>1, ApiFields DEF ApiRecords, ApiPoints
<1>5. /\ api' \in [Apis -> ApiRecords] /\ api'[a].pc = p /\ api'[a].saved = api[a].saved
      /\ api'[a].part = api[a].part /\ api'[a].retried = api[a].retried
      /\ \A b \in Apis : b # a => api'[b] = api[b]
  BY <1>1, <1>2, <1>4, ApiFields DEF ApiRecords
<1>6. OfApi(a)
  BY <1>1, <1>3, <1>5 DEF OfApi, TypeOK
<1>7. TypeOK'
  BY <1>1, <1>3, <1>5 DEF TypeOK, Frame, ApiRecords
<1>8. ApiInv(a)'
  BY <1>1, <1>3, <1>5, InFlightPhase DEF ApiInv, EntriesOf, Frame
<1>9. ConcurrencyLimited'
  BY <1>1, <1>5, <1>6, SameFlight
<1>10. CountInv'
  BY <1>1, <1>3, <1>5, <1>6, InFlightPhase, UnderWay
<1> QED
  BY <1>1, <1>6, <1>7, <1>8, <1>9, <1>10, InFlightPhase, Framed

-----------------------------------------------------------------------------
\* A stored file is one more of its API's, and in a zip archive it is a new one.
LEMMA StoreFacts ==
  ASSUME IndInv, NEW a \in InFlight, a \notin Unsupported,
         NEW k \in 1 .. MaxParts, NEW stored \in BOOLEAN, Store(<<a, k>>, stored),
         zip' = zip
  PROVE  /\ entries \subseteq entries' /\ entries' \subseteq Apis \X (1 .. MaxParts)
         /\ \A f \in entries' : f \in entries \/ f[1] = a
         /\ partial' \subseteq Apis \X (1 .. MaxParts)
         /\ \A f \in partial' : f \in partial \/ f[1] = a
         /\ ~stored => entries' = entries
         /\ Cardinality(EntriesOf(a)) \in Nat /\ Cardinality(EntriesOf(a)') \in Nat
         /\ zip => Cardinality(EntriesOf(a)') = Cardinality(EntriesOf(a)) + IF stored THEN 1 ELSE 0
         /\ product # "kibana" =>
              Cardinality(entries') = Cardinality(entries) + IF stored THEN 1 ELSE 0
<1>1. TypeOK /\ ApiInv(a) /\ a \in Apis /\ api[a].pc \notin {"todo", "done"}
  BY InFlightPhase DEF IndInv
<1>2. /\ entries' = IF stored THEN entries \cup {<<a, k>>} ELSE entries
      /\ stored => ~(zip /\ <<a, k>> \in entries)
      /\ partial' \subseteq partial \cup {<<a, k>>}
  BY DEF Store, CanStore
<1>3. /\ entries \subseteq entries' /\ entries' \subseteq Apis \X (1 .. MaxParts)
      /\ \A f \in entries' : f \in entries \/ f[1] = a
      /\ partial' \subseteq Apis \X (1 .. MaxParts)
      /\ \A f \in partial' : f \in partial \/ f[1] = a
  BY <1>1, <1>2 DEF TypeOK
<1>4. EntriesOf(a) \in SUBSET entries
  BY DEF EntriesOf
<1>5. /\ IsFiniteSet(entries) /\ IsFiniteSet(EntriesOf(a))
      /\ Cardinality(entries) \in Nat /\ Cardinality(EntriesOf(a)) \in Nat
  BY <1>1, <1>4, Finite
<1>6. CASE ~stored
  <2>1. entries' = entries /\ EntriesOf(a)' = EntriesOf(a)
    BY <1>2, <1>6 DEF EntriesOf
  <2> QED
    BY <1>3, <1>5, <1>6, <2>1
<1>7. CASE stored
  <2>1. EntriesOf(a)' = EntriesOf(a) \cup {<<a, k>>} /\ entries' = entries \cup {<<a, k>>}
    BY <1>2, <1>7 DEF EntriesOf
  <2>2. /\ Cardinality(EntriesOf(a)') \in Nat
        /\ <<a, k>> \notin EntriesOf(a)
             => Cardinality(EntriesOf(a)') = Cardinality(EntriesOf(a)) + 1
        /\ <<a, k>> \notin entries => Cardinality(entries') = Cardinality(entries) + 1
    <3> DEFINE e == EntriesOf(a)
               f == <<a, k>>
    <3> HIDE DEF e, f
    <3>1. /\ IsFiniteSet(e \cup {f})
          /\ Cardinality(e \cup {f}) = IF f \in e THEN Cardinality(e) ELSE Cardinality(e) + 1
          /\ Cardinality(entries \cup {f})
               = IF f \in entries THEN Cardinality(entries) ELSE Cardinality(entries) + 1
      BY <1>5, FS_AddElement DEF e
    <3>2. Cardinality(e \cup {f}) \in Nat
      BY <3>1, FS_CardinalityType
    <3> QED
      BY <2>1, <3>1, <3>2 DEF e, f
  <2>3. zip \/ product # "kibana" => <<a, k>> \notin entries /\ <<a, k>> \notin EntriesOf(a)
    BY <1>1, <1>2, <1>7 DEF ApiInv, EntriesOf
  <2> QED
    BY <1>3, <1>5, <1>7, <2>2, <2>3
<1> QED
  BY <1>6, <1>7

\* Another page or space of a Kibana API.
LEMMA AnswerPartStep ==
  ASSUME IndInv, NEW a \in Apis, AnswerPart(a)  PROVE IndInv'
<1>1. /\ TypeOK /\ ApiInv(a) /\ a \in InFlight /\ a \notin Unsupported /\ product = "kibana"
      /\ api[a].part < MaxParts /\ api[a].pc = "fetch"
  BY DEF IndInv, AnswerPart, Asked, Active, InFlight
<1>2. PICK stored \in BOOLEAN :
        /\ Store(<<a, api[a].part>>, stored)
        /\ api' = [api EXCEPT ![a].part = @ + 1, ![a].saved = IF stored THEN @ + 1 ELSE @]
  BY DEF AnswerPart
<1> DEFINE s == IF stored THEN api[a].saved + 1 ELSE api[a].saved
           r == [api[a] EXCEPT !.part = api[a].part + 1, !.saved = s]
<1>3. /\ success' = success /\ requested' = requested /\ Frame /\ zip' = zip
      /\ api' = [api EXCEPT ![a] = r]
  BY <1>2 DEF AnswerPart, Frame
<1>4. /\ api[a].part \in Nat /\ api[a].saved \in Nat /\ api[a].retried \in Nat
      /\ api[a].part \in 1 .. MaxParts /\ MaxParts \in Nat
      /\ api[a].saved < api[a].part
  BY <1>1, ApiFields, PoolAssumption DEF ApiInv
<1>5. s \in 0 .. (MaxParts - 1) /\ api[a].part + 1 \in 1 .. MaxParts /\ s < api[a].part + 1
  BY <1>1, <1>4
<1>6. s = api[a].saved + IF stored THEN 1 ELSE 0
  BY <1>4
<1> HIDE DEF s
<1>7. r \in ApiRecords /\ r.pc = "fetch" /\ r.part = api[a].part + 1 /\ r.saved = s
      /\ r.retried = api[a].retried
  BY <1>1, <1>5, ApiFields DEF ApiRecords
<1> HIDE DEF r
<1>8. /\ api' \in [Apis -> ApiRecords] /\ api'[a] = r
      /\ \A b \in Apis : b # a => api'[b] = api[b]
  BY <1>1, <1>3, <1>7, ApiFields
<1>9. /\ entries \subseteq entries' /\ entries' \subseteq Apis \X (1 .. MaxParts)
      /\ \A f \in entries' : f \in entries \/ f[1] = a
      /\ partial' \subseteq Apis \X (1 .. MaxParts)
      /\ \A f \in partial' : f \in partial \/ f[1] = a
      /\ Cardinality(EntriesOf(a)) \in Nat
      /\ zip => Cardinality(EntriesOf(a)') = Cardinality(EntriesOf(a)) + IF stored THEN 1 ELSE 0
  BY <1>1, <1>2, <1>3, <1>4, StoreFacts
<1>10. OfApi(a)
  BY <1>1, <1>3, <1>8, <1>9 DEF OfApi
<1>11. TypeOK'
  BY <1>1, <1>3, <1>8, <1>9 DEF TypeOK, Frame, ApiRecords
<1>12. ApiInv(a)'
  <2>1. zip => r.retried + r.saved <= Cardinality(EntriesOf(a)')
    <3>1. zip => api[a].retried + api[a].saved <= Cardinality(EntriesOf(a))
      BY <1>1 DEF ApiInv
    <3> QED
      BY <1>4, <1>6, <1>7, <1>9, <3>1
  <2>2. product' = product /\ zip' = zip
    BY <1>3 DEF Frame
  <2> QED
    BY <1>1, <1>5, <1>7, <1>8, <2>1, <2>2 DEF ApiInv
<1>13. ConcurrencyLimited'
  BY <1>1, <1>7, <1>8, <1>10, SameFlight
<1>14. CountInv'
  BY <1>1, <1>3, <1>7, <1>8, <1>10, UnderWay
<1> QED
  BY <1>1, <1>10, <1>11, <1>12, <1>13, <1>14, InFlightPhase, Framed

(***************************************************************************)
(* The result of an API reaches the loop of collect(): its files move from *)
(* those under way to those that are counted.                              *)
(***************************************************************************)
LEMMA SettleStep ==
  ASSUME IndInv, NEW a \in InFlight, NEW n \in Nat,
         NEW verdict \in {"skipped", "ok", "failed"}, Settle(a, verdict, n), Frame,
         verdict = "skipped" => a \in Unsupported,
         entries \subseteq entries', entries' \subseteq Apis \X (1 .. MaxParts),
         \A f \in entries' : f \in entries \/ f[1] = a,
         partial' \subseteq Apis \X (1 .. MaxParts),
         \A f \in partial' : f \in partial \/ (f[1] = a /\ a \notin Unsupported),
         a \in Unsupported => entries' = entries,
         zip => n <= Cardinality(EntriesOf(a)'),
         product # "kibana" => Cardinality(entries') = Cardinality(entries) + n
  PROVE  IndInv'
<1>1. TypeOK /\ ApiInv(a) /\ a \in Apis /\ api[a].pc \notin {"todo", "done"}
  BY InFlightPhase DEF IndInv
<1> DEFINE r == [api[a] EXCEPT !.pc = "done", !.part = 1, !.saved = 0, !.retried = 0, !.late = FALSE]
<1>2. /\ success' = success + n /\ api' = [api EXCEPT ![a] = r]
      /\ requested' = IF verdict = "skipped" THEN requested ELSE [requested EXCEPT ![a] = verdict]
  BY DEF Settle
<1>3. /\ r \in ApiRecords /\ r.pc = "done" /\ r.part = 1 /\ r.saved = 0 /\ r.retried = 0
  <2>1. 0 \in 0 .. (MaxParts - 1) /\ 0 \in 0 .. MaxRetried /\ 1 \in 1 .. MaxParts
    BY PoolAssumption
  <2> QED
    BY <1>1, <2>1, ApiFields DEF ApiRecords, ApiPoints
<1> HIDE DEF r
<1>4. /\ api' \in [Apis -> ApiRecords] /\ api'[a] = r
      /\ \A b \in Apis : b # a => api'[b] = api[b]
  BY <1>1, <1>2, <1>3, ApiFields
<1>5. /\ requested' \in [Apis -> {"absent", "ok", "failed"}]
      /\ \A b \in Apis : b # a => requested'[b] = requested[b]
      /\ a \notin Unsupported => requested'[a] # "absent"
  BY <1>1, <1>2 DEF TypeOK
<1>6. OfApi(a)
  BY <1>4, <1>5 DEF OfApi
<1>7. TypeOK'
  <2>1. success' \in Nat
    BY <1>1, <1>2 DEF TypeOK
  <2> QED
    BY <1>1, <1>4, <1>5, <2>1 DEF TypeOK, Frame, ApiRecords
<1>8. /\ IsFiniteSet(EntriesOf(a)') /\ Cardinality(EntriesOf(a)') \in Nat
      /\ IsFiniteSet(DoneEntries) /\ Cardinality(DoneEntries) \in Nat
      /\ Cardinality(entries) \in Nat
  <2>1. /\ \A s \in SUBSET entries : IsFiniteSet(s) /\ Cardinality(s) \in Nat
    BY <1>1, Finite
  <2>2. DoneEntries \in SUBSET entries
    BY DEF DoneEntries
  <2>3. \A s \in SUBSET entries' : IsFiniteSet(s) /\ Cardinality(s) \in Nat
    <3>1. TypeOK' => \A s \in SUBSET entries' : IsFiniteSet(s) /\ Cardinality(s) \in Nat
      <4>1. IsFiniteSet(Apis \X (1 .. MaxParts))
        <5>1. IsFiniteSet(1 .. MaxParts)
          BY PoolAssumption, FS_Interval
        <5> QED
          BY <5>1, ApisAssumption, FS_Product
      <4>2. IsFiniteSet(entries')
        BY <4>1, FS_Subset
      <4> QED
        BY <4>2, FS_Subset, FS_CardinalityType
    <3> QED
      BY <1>7, <3>1
  <2>4. EntriesOf(a)' \in SUBSET entries'
    BY DEF EntriesOf
  <2> QED
    BY <2>1, <2>2, <2>3, <2>4
<1>9. ApiInv(a)'
  <2>1. a \in Unsupported => EntriesOf(a)' = {}
    BY <1>1 DEF ApiInv, EntriesOf
  <2> QED
    BY <1>3, <1>4, <1>5, <1>8, <2>1 DEF ApiInv
<1>10. ConcurrencyLimited'
  <2>1. InFlight' = InFlight \ {a} /\ product' = product
    BY <1>1, <1>3, <1>4 DEF InFlight, Frame
  <2>2. Cardinality(InFlight') <= Pool
    <3>1. /\ IsFiniteSet(InFlight) /\ Cardinality(InFlight) \in Nat
          /\ Cardinality(InFlight) <= Pool
      BY <1>1, Finite DEF IndInv, ConcurrencyLimited
    <3>2. Cardinality(InFlight') = Cardinality(InFlight) - 1
      BY <2>1, <3>1, FS_RemoveElement
    <3> QED
      BY <3>1, <3>2, PoolAssumption
  <2>3. \A b \in InFlight' : Sequential(b)' => InFlight' = {b}
    BY <2>1 DEF IndInv, ConcurrencyLimited, Sequential
  <2> QED
    BY <2>2, <2>3 DEF ConcurrencyLimited
<1>11. CountInv'
  <2>1. product' = product /\ zip' = zip /\ manifest' = manifest
    BY DEF Frame
  <2>2. ManifestFiles' = ManifestFiles /\ ManifestFiles \in {0, 1} /\ success \in Nat
    BY <1>1, <2>1 DEF ManifestFiles, TypeOK
  <2>3. DoneEntries' = DoneEntries \cup EntriesOf(a)' /\ DoneEntries \cap EntriesOf(a)' = {}
    <3>1. \A f \in entries' : f[1] \in Apis
      OBVIOUS
    <3>2. \A f \in entries' : f[1] # a => f \in entries /\ api'[f[1]] = api[f[1]]
      BY <1>4, <3>1
    <3>3. \A f \in entries' : (api'[f[1]].pc = "done") <=> (f \in DoneEntries \/ f[1] = a)
      BY <1>1, <1>3, <1>4, <3>1, <3>2 DEF DoneEntries
    <3>4. \A f \in DoneEntries : f \in entries' /\ f[1] # a
      BY <1>1 DEF DoneEntries
    <3> QED
      BY <3>3, <3>4 DEF DoneEntries, EntriesOf
  <2>4. Cardinality(DoneEntries') = Cardinality(DoneEntries) + Cardinality(EntriesOf(a)')
    <3> DEFINE d == DoneEntries
               e == EntriesOf(a)'
    <3> HIDE DEF d, e
    <3>1. IsFiniteSet(d) /\ IsFiniteSet(e) /\ d \cap e = {}
      BY <1>8, <2>3 DEF d, e
    <3>2. Cardinality(d \cup e) = Cardinality(d) + Cardinality(e) - Cardinality(d \cap e)
      BY <3>1, FS_Union
    <3>3. Cardinality(d \cap e) = 0
      BY <3>1, FS_EmptySet
    <3>4. Cardinality(d) \in Nat /\ Cardinality(e) \in Nat
      BY <3>1, FS_CardinalityType
    <3>5. Cardinality(d \cup e) = Cardinality(d) + Cardinality(e)
      BY <3>2, <3>3, <3>4
    <3> QED
      BY <2>3, <3>5 DEF d, e
  <2>5. /\ product # "kibana" => success = Cardinality(entries) + ManifestFiles
        /\ zip => success <= Cardinality(DoneEntries) + ManifestFiles
    BY DEF IndInv, CountInv
  <2>6. product # "kibana" => success' = Cardinality(entries') + ManifestFiles
    BY <1>2, <1>8, <2>2, <2>5
  <2>7. zip => success' <= Cardinality(DoneEntries') + ManifestFiles
    BY <1>2, <1>8, <2>2, <2>4, <2>5
  <2> QED
    BY <2>1, <2>2, <2>6, <2>7 DEF CountInv
<1> QED
  BY <1>1, <1>6, <1>7, <1>9, <1>10, <1>11, InFlightPhase, Framed

\* The last answer of an API.
LEMMA AnswerStep ==
  ASSUME IndInv, NEW a \in Apis, Answer(a)  PROVE IndInv'
<1>1. /\ TypeOK /\ ApiInv(a) /\ a \in InFlight /\ a \notin Unsupported /\ api[a].pc = "fetch"
  BY DEF IndInv, Answer, Asked, Active, InFlight
<1>2. PICK stored \in BOOLEAN :
        /\ Store(<<a, api[a].part>>, stored)
        /\ Settle(a, "ok", api[a].saved + IF stored THEN 1 ELSE 0)
  BY DEF Answer
<1> DEFINE n == api[a].saved + IF stored THEN 1 ELSE 0
<1>3. Frame /\ zip' = zip
  BY <1>2 DEF Answer, Settle, Frame
<1>4. /\ api[a].saved \in Nat /\ api[a].retried \in Nat /\ api[a].part \in 1 .. MaxParts
      /\ n \in Nat
  BY <1>1, ApiFields
<1>5. /\ entries \subseteq entries' /\ entries' \subseteq Apis \X (1 .. MaxParts)
      /\ \A f \in entries' : f \in entries \/ f[1] = a
      /\ partial' \subseteq Apis \X (1 .. MaxParts)
      /\ \A f \in partial' : f \in partial \/ f[1] = a
      /\ Cardinality(EntriesOf(a)) \in Nat /\ Cardinality(EntriesOf(a)') \in Nat
      /\ zip => Cardinality(EntriesOf(a)') = Cardinality(EntriesOf(a)) + IF stored THEN 1 ELSE 0
      /\ product # "kibana" =>
           Cardinality(entries') = Cardinality(entries) + IF stored THEN 1 ELSE 0
  BY <1>1, <1>2, <1>3, <1>4, StoreFacts
<1>6. zip => n <= Cardinality(EntriesOf(a)')
  <2>1. zip => api[a].retried + api[a].saved <= Cardinality(EntriesOf(a))
    BY <1>1 DEF ApiInv
  <2> QED
    BY <1>4, <1>5, <2>1
<1>7. product # "kibana" => Cardinality(entries') = Cardinality(entries) + n
  <2>1. product # "kibana" => api[a].saved = 0
    <3>1. product # "kibana" => api[a].part = 1 /\ api[a].saved < api[a].part
      BY <1>1 DEF ApiInv
    <3> QED
      BY <1>4, <3>1
  <2> QED
    BY <1>4, <1>5, <2>1
<1> HIDE DEF n
<1> QED
  BY <1>1, <1>2, <1>3, <1>4, <1>5, <1>6, <1>7, SettleStep DEF n

LEMMA SkipStep ==
  ASSUME IndInv, NEW a \in Apis, Skip(a)  PROVE IndInv'
<1>1. /\ TypeOK /\ a \in InFlight /\ a \in Unsupported /\ Settle(a, "skipped", 0)
      /\ entries' = entries /\ partial' = partial /\ Frame
  BY DEF IndInv, Skip, Active, InFlight, Frame
<1>2. /\ EntriesOf(a)' = EntriesOf(a) /\ Cardinality(EntriesOf(a)) \in Nat
      /\ Cardinality(entries) \in Nat
  BY <1>1, Finite DEF EntriesOf
<1>3. entries' \subseteq Apis \X (1 .. MaxParts) /\ partial' \subseteq Apis \X (1 .. MaxParts)
  BY <1>1 DEF TypeOK
<1>4. 0 <= Cardinality(EntriesOf(a)') /\ Cardinality(entries') = Cardinality(entries) + 0
  BY <1>1, <1>2
<1> QED
  BY <1>1, <1>3, <1>4, SettleStep

\* An API that is given up is counted with the files of all its attempts.
LEMMA GiveUpStep ==
  ASSUME IndInv, NEW a \in Apis, GiveUp(a)  PROVE IndInv'
<1> DEFINE n == api[a].retried + api[a].saved
<1>1. /\ TypeOK /\ ApiInv(a) /\ a \in InFlight /\ Settle(a, "failed", n)
      /\ entries' = entries /\ partial' = partial /\ Frame /\ api[a].pc = "fetch"
  BY DEF IndInv, GiveUp, CanFail, Active, InFlight, Frame
<1>2. /\ EntriesOf(a)' = EntriesOf(a) /\ Cardinality(EntriesOf(a)) \in Nat
      /\ Cardinality(entries) \in Nat
  BY <1>1, Finite DEF EntriesOf
<1>3. entries' \subseteq Apis \X (1 .. MaxParts) /\ partial' \subseteq Apis \X (1 .. MaxParts)
  BY <1>1 DEF TypeOK
<1>4. api[a].saved \in Nat /\ api[a].retried \in Nat /\ n \in Nat
  BY <1>1, ApiFields
<1>5. zip => n <= Cardinality(EntriesOf(a)')
  BY <1>1, <1>2 DEF ApiInv
<1>6. product # "kibana" => Cardinality(entries') = Cardinality(entries) + n
  <2>1. product # "kibana" => api[a].part = 1 /\ api[a].saved < api[a].part /\ api[a].retried = 0
    BY <1>1 DEF ApiInv
  <2> QED
    BY <1>1, <1>2, <1>4, <2>1
<1> HIDE DEF n
<1> QED
  BY <1>1, <1>3, <1>4, <1>5, <1>6, SettleStep

-----------------------------------------------------------------------------
\* The phases of collect(): the manifest is written once every API has ended.
LEMMA PhaseStep ==
  ASSUME IndInv, Phases  PROVE IndInv'
<1>1. /\ TypeOK /\ PhaseInv /\ EndInv /\ CountInv /\ ConcurrencyLimited /\ PartialInv
      /\ \A a \in Apis : ApiInv(a)
  BY DEF IndInv
<1>2. /\ api' = api /\ entries' = entries /\ partial' = partial /\ requested' = requested
      /\ product' = product /\ zip' = zip
  BY DEF Phases, Start, LightDone, HeavyDone, SaveManifest, Finalize
<1>3. /\ \A a \in Apis : ApiInv(a)'
      /\ ConcurrencyLimited' /\ InFlight' = InFlight /\ DoneEntries' = DoneEntries
      /\ PartialInv'
  BY <1>1, <1>2
     DEF ApiInv, EntriesOf, DoneEntries, ConcurrencyLimited, InFlight, Sequential, PartialInv
<1>4. TypeOK'
  <2>1. /\ phase' \in {"start", "light", "heavy", "manifest", "finalize", "done"}
        /\ writer' \in {"open", "finished"}
        /\ result' \in {"none", "failing", "ok", "error"}
    BY <1>1 DEF TypeOK, Phases, Start, LightDone, HeavyDone, SaveManifest, Finalize
  <2>2. \/ manifest' = manifest /\ success' = success
        \/ manifest' = [written |-> TRUE, apis |-> requested] /\ success' = success + 1
    BY DEF Phases, Start, LightDone, HeavyDone, SaveManifest, Finalize
  <2>3. manifest' \in [written : BOOLEAN, apis : [Apis -> {"absent", "ok", "failed"}]]
    <3>1. /\ requested \in [Apis -> {"absent", "ok", "failed"}]
          /\ manifest \in [written : BOOLEAN, apis : [Apis -> {"absent", "ok", "failed"}]]
      BY <1>1 DEF TypeOK
    <3>2. [written |-> TRUE, apis |-> requested]
            \in [written : BOOLEAN, apis : [Apis -> {"absent", "ok", "failed"}]]
      BY <3>1
    <3> QED
      BY <2>2, <3>1, <3>2
  <2>4. success' \in Nat
    BY <1>1, <2>2 DEF TypeOK
  <2> QED
    BY <1>1, <1>2, <2>1, <2>3, <2>4 DEF TypeOK
<1>5. \A a \in Apis : (api[a].pc \in {"todo", "done"}) => a \notin InFlight
  BY DEF InFlight
<1>6. PhaseInv'
  BY <1>1, <1>2, <1>3, <1>5
     DEF PhaseInv, Phases, Start, LightDone, HeavyDone, SaveManifest, Finalize, Sequential, InFlight
<1>7. EndInv'
  BY <1>1, <1>2
     DEF EndInv, PhaseInv, ResultHonest, TypeOK, Phases, Start, LightDone, HeavyDone, SaveManifest, Finalize
<1>8. CountInv'
  <2>1. CASE manifest' = manifest /\ success' = success
    BY <1>1, <1>2, <1>3, <2>1 DEF CountInv, ManifestFiles
  <2>2. CASE /\ phase = "manifest" /\ success' = success + 1
             /\ manifest' = [written |-> TRUE, apis |-> requested]
    <3>1. ManifestFiles = 0 /\ ManifestFiles' = 1
      BY <1>1, <2>2 DEF EndInv, ManifestFiles, TypeOK
    <3>2. /\ Cardinality(entries) \in Nat /\ Cardinality(DoneEntries) \in Nat /\ success \in Nat
      <4>1. DoneEntries \in SUBSET entries
        BY DEF DoneEntries
      <4> QED
        BY <1>1, <4>1, Finite DEF TypeOK
    <3> QED
      BY <1>1, <1>2, <1>3, <2>2, <3>1, <3>2 DEF CountInv
  <2> QED
    BY <2>1, <2>2 DEF Phases, Start, LightDone, HeavyDone, SaveManifest, Finalize
<1> QED
  BY <1>3, <1>4, <1>6, <1>7, <1>8 DEF IndInv

LEMMA Initially == Init => IndInv
<1> SUFFICES ASSUME Init  PROVE IndInv
  OBVIOUS
<1>1. \A a \in Apis : api[a] = [pc |-> "todo", part |-> 1, saved |-> 0, retried |-> 0, late |-> FALSE]
  BY DEF Init
<1>2. TypeOK
  <2>1. 0 \in 0 .. (MaxParts - 1) /\ 0 \in 0 .. MaxRetried /\ 1 \in 1 .. MaxParts
    BY PoolAssumption
  <2> QED
    BY <2>1 DEF Init, TypeOK, ApiPoints
<1>3. InFlight = {} /\ DoneEntries = {} /\ entries = {} /\ \A a \in Apis : EntriesOf(a) = {}
  BY <1>1 DEF Init, InFlight, DoneEntries, EntriesOf
<1>4. Cardinality({}) = 0
  BY FS_EmptySet
<1>5. PhaseInv /\ EndInv
  BY <1>1 DEF Init, PhaseInv, EndInv, ResultHonest
<1>6. CountInv
  BY <1>3, <1>4 DEF Init, CountInv, ManifestFiles
<1>7. ConcurrencyLimited
  BY <1>3, <1>4, PoolAssumption DEF ConcurrencyLimited
<1>8. \A a \in Apis : ApiInv(a)
  BY <1>1, <1>3, <1>4 DEF ApiInv
<1>9. PartialInv
  BY DEF Init, PartialInv
<1> QED
  BY <1>2, <1>5, <1>6, <1>7, <1>8, <1>9 DEF IndInv

LEMMA Inductive == IndInv /\ [Next]_vars => IndInv'
<1> SUFFICES ASSUME IndInv, [Next]_vars  PROVE IndInv'
  OBVIOUS
<1>1. CASE Phases
  BY <1>1, PhaseStep
<1>2. ASSUME NEW a \in Apis,
             BeginLight(a) \/ BeginHeavy(a) \/ Request(a) \/ Wake(a) \/ TimeUp(a)
      PROVE  IndInv'
  BY <1>2, BeginLightStep, BeginHeavyStep, SkipStep, AnswerStep, AnswerPartStep, RetryStep,
     GiveUpStep, WaitStep DEF Request
<1>3. CASE UNCHANGED vars
  <2>1. /\ TypeOK /\ PhaseInv /\ EndInv /\ CountInv /\ ConcurrencyLimited /\ PartialInv
        /\ \A a \in Apis : ApiInv(a)
    BY DEF IndInv
  <2>2. TypeOK' /\ PhaseInv' /\ EndInv' /\ PartialInv'
    BY <1>3, <2>1
       DEF vars, TypeOK, PhaseInv, EndInv, PartialInv, ResultHonest, InFlight, Sequential
  <2>3. CountInv' /\ ConcurrencyLimited' /\ \A a \in Apis : ApiInv(a)'
    BY <1>3, <2>1
       DEF vars, CountInv, ManifestFiles, DoneEntries, ConcurrencyLimited, InFlight, Sequential,
           ApiInv, EntriesOf
  <2> QED
    BY <2>2, <2>3 DEF IndInv
<1> QED
  BY <1>1, <1>2, <1>3 DEF Next

(***************************************************************************)
(* For any number of APIs, any pool and any number of repetitions: the     *)
(* host never has more requests than the pool has room for, a heavy API    *)
(* has it to itself, the manifest speaks for every file of the archive,    *)
(* no more files are reported than are stored, and collect() is Ok only    *)
(* with a manifest.                                                        *)
(***************************************************************************)
THEOREM CollectionHolds == Spec => []CollectionSound
<1>1. IndInv => CollectionSound
  <2> SUFFICES ASSUME IndInv  PROVE CollectionSound
    OBVIOUS
  <2>1. TypeOK /\ ConcurrencyLimited /\ ResultHonest
    BY DEF IndInv, EndInv
  <2>2. ManifestComplete
    <3>1. \A f \in entries \cup partial : f[1] \in Apis
      BY <2>1 DEF TypeOK
    <3>2. \A f \in entries : f \in EntriesOf(f[1])
      BY DEF EntriesOf
    <3>3. \A f \in entries : f[1] \notin Unsupported
      BY <3>1, <3>2 DEF IndInv, ApiInv
    <3>4. \A f \in entries \cup partial : f[1] \notin Unsupported
      BY <3>3 DEF IndInv, PartialInv
    <3> QED
      BY <3>1, <3>4 DEF IndInv, EndInv, ApiInv, ManifestComplete
  <2>3. CountedIsStored
    <3>1. DoneEntries \in SUBSET entries /\ entries \in SUBSET entries
      BY DEF DoneEntries
    <3>2. /\ IsFiniteSet(entries) /\ Cardinality(entries) \in Nat /\ Cardinality(DoneEntries) \in Nat
      BY <2>1, <3>1, Finite
    <3>3. Cardinality(DoneEntries) <= Cardinality(entries)
      BY <3>1, <3>2, FS_Subset
    <3>4. ManifestFiles \in {0, 1} /\ success \in Nat
      BY <2>1 DEF ManifestFiles, TypeOK
    <3> QED
      BY <3>2, <3>3, <3>4 DEF IndInv, CountInv, CountedIsStored
  <2> QED
    BY <2>1, <2>2, <2>3 DEF CollectionSound
<1> QED
  BY <1>1, Initially, Inductive, PTL DEF Spec

(***************************************************************************)
(* Three small machines that share nothing with the collection but the     *)
(* code around it: the cache of the Elastic CLI's configuration, the child *)
(* process that gives a value of it, and the cell in which all clones of a *)
(* receiver keep the version of the product.                               *)
(***************************************************************************)
CONSTANTS Callers, MaxEdits, Tasks, MaxFaults, Ranges
VARIABLES platform, files, cache, calls, run, child, heirs, readers, outcome,
          receiver, server, cell, initialiser, tasks, faults, asked

Cache == INSTANCE ConfigCache
Command == INSTANCE CommandResolver
Live == INSTANCE LiveReceiver

(***************************************************************************)
(* The cache.                                                              *)
(***************************************************************************)
Found == [dir : {"none", "home", "profile"}, edit : Nat]
Records == [pc : {"idle", "look", "load", "store", "served"}, print : Found, got : Found, began : Nat]

CacheShape ==
  /\ platform \in [os : {"unix", "windows"}, apart : BOOLEAN]
  /\ files \in [Cache!Dirs -> [edit : Nat, state : Cache!States]]
  /\ cache \in [print : Found, config : Found]
  /\ calls \in [Callers -> Records]

\* What was in the file at some time since the edit it had at the beginning.
Since(f, edit) == f.dir = "home" /\ edit <= f.edit /\ f.edit <= files["home"].edit

\* A hash is of the edit a call began with. So whatever was stored under it was
\* loaded at that edit or later, and serves every call that began with it.
CallInv(c) ==
  /\ calls[c].pc # "idle" /\ calls[c].print # Cache!None => calls[c].print.edit = calls[c].began
  /\ calls[c].pc # "idle" => calls[c].began <= files["home"].edit
  /\ calls[c].pc \in {"look", "load"} => calls[c].got = Cache!None
  /\ calls[c].pc \in {"store", "served"} /\ calls[c].got # Cache!None => Since(calls[c].got, calls[c].began)

EntryInv == cache.print # Cache!None => Since(cache.config, cache.print.edit)

CacheInv == CacheShape /\ (Cache!LoadDir = "home" => EntryInv /\ \A c \in Callers : CallInv(c))

LEMMA CacheSteps ==
  ASSUME CacheInv, [Cache!CacheNext]_(Cache!cacheVars) PROVE CacheInv'
<1> USE DEF CacheInv, CacheShape, Cache!Dirs, Cache!States, Cache!None, Found, Records
<1>1. CASE UNCHANGED Cache!cacheVars
  BY <1>1 DEF Cache!cacheVars, Cache!LoadDir, EntryInv, CallInv, Since
<1>2. ASSUME NEW d \in Cache!Dirs, Cache!Edit(d) PROVE CacheInv'
  <2>1. PICK s \in Cache!States : files' = [files EXCEPT ![d] = [edit |-> @.edit + 1, state |-> s]]
    BY <1>2 DEF Cache!Edit
  <2>2. files' \in [Cache!Dirs -> [edit : Nat, state : Cache!States]]
    BY <2>1, <1>2
  <2>3. files["home"].edit \in Nat /\ files'["home"].edit \in Nat /\ files["home"].edit <= files'["home"].edit
    BY <2>1, <2>2, <1>2
  <2>4. UNCHANGED <<platform, cache, calls>>
    BY <1>2 DEF Cache!Edit
  <2>5. ASSUME Cache!LoadDir = "home" PROVE EntryInv'
    BY <2>3, <2>4, <2>5 DEF EntryInv, Since
  <2>6. ASSUME Cache!LoadDir = "home", NEW c \in Callers PROVE CallInv(c)'
    BY <2>3, <2>4, <2>6 DEF CallInv, Since
  <2>7. QED BY <2>2, <2>4, <2>5, <2>6 DEF Cache!LoadDir
<1>3. ASSUME NEW c \in Callers, Cache!Fingerprint(c) PROVE CacheInv'
  <2> USE DEF Cache!Fingerprint, Cache!PrintDir
  <2>1. CacheShape'
    BY <1>3 DEF Cache!LoadDir
  <2>2. ASSUME Cache!LoadDir = "home", NEW b \in Callers PROVE CallInv(b)'
    BY <1>3, <2>2 DEF CallInv, Since
  <2>3. QED BY <1>3, <2>1, <2>2 DEF Cache!LoadDir, EntryInv, Since
<1>4. ASSUME NEW c \in Callers, Cache!LookUp(c) PROVE CacheInv'
  <2> USE DEF Cache!LookUp, Cache!Fresh
  <2> DEFINE w == [calls[c] EXCEPT !.pc = IF Cache!Fresh(c) THEN "served" ELSE "load",
                                   !.got = IF Cache!Fresh(c) THEN cache.config ELSE @]
  <2>0. w \in Records /\ calls' = [calls EXCEPT ![c] = w]
    <3>1. calls' = [calls EXCEPT ![c] = w]
      BY <1>4
    <3>2. calls[c] \in Records /\ cache.config \in Found
      OBVIOUS
    <3>3. QED BY <3>1, <3>2
  <2>1. CacheShape'
    <3> HIDE DEF w, Cache!LookUp, Cache!Fresh, Records, Found
    <3>1. UNCHANGED <<platform, files, cache>>
      BY <1>4 DEF Cache!LookUp
    <3>2. QED BY <2>0, <3>1
  <2>2. ASSUME Cache!LoadDir = "home", NEW b \in Callers PROVE CallInv(b)'
    BY <1>4, <2>2 DEF CallInv, Since, EntryInv
  <2>3. QED BY <1>4, <2>1, <2>2 DEF Cache!LoadDir, EntryInv, Since
<1>5. ASSUME NEW c \in Callers, Cache!Load(c) PROVE CacheInv'
  <2> USE DEF Cache!Load, Cache!Rest
  <2> DEFINE w == IF files[Cache!LoadDir].state = "broken" THEN Cache!Rest
                  ELSE [calls[c] EXCEPT !.pc = "store",
                                        !.got = IF files[Cache!LoadDir].state = "absent" THEN Cache!None
                                                ELSE [dir |-> Cache!LoadDir, edit |-> files[Cache!LoadDir].edit]]
  <2>0. w \in Records /\ calls' = [calls EXCEPT ![c] = w]
    <3>1. calls' = [calls EXCEPT ![c] = w]
      BY <1>5
    <3>2. calls[c] \in Records /\ Cache!LoadDir \in Cache!Dirs
      BY DEF Cache!LoadDir
    <3>3. [dir |-> Cache!LoadDir, edit |-> files[Cache!LoadDir].edit] \in Found
      <4> HIDE DEF Cache!LoadDir
      <4>1. QED BY <3>2
    <3>4. QED BY <3>1, <3>2, <3>3
  <2>1. CacheShape'
    <3> HIDE DEF w, Cache!Load, Records, Found
    <3>1. UNCHANGED <<platform, files, cache>>
      BY <1>5 DEF Cache!Load
    <3>2. QED BY <2>0, <3>1
  <2>2. ASSUME Cache!LoadDir = "home", NEW b \in Callers PROVE CallInv(b)'
    BY <1>5, <2>2 DEF CallInv, Since
  <2>3. QED BY <1>5, <2>1, <2>2 DEF Cache!LoadDir, EntryInv, Since
<1>6. ASSUME NEW c \in Callers, Cache!Insert(c) PROVE CacheInv'
  <2> USE DEF Cache!Insert
  <2>1. CacheShape'
    BY <1>6
  <2>2. ASSUME Cache!LoadDir = "home", NEW b \in Callers PROVE CallInv(b)'
    BY <1>6, <2>2 DEF CallInv, Since
  <2>3. ASSUME Cache!LoadDir = "home" PROVE EntryInv'
    BY <1>6, <2>3 DEF CallInv, EntryInv, Since
  <2>4. QED BY <1>6, <2>1, <2>2, <2>3 DEF Cache!LoadDir
<1>7. ASSUME NEW c \in Callers, Cache!Finish(c) PROVE CacheInv'
  <2> USE DEF Cache!Finish, Cache!Rest
  <2>1. CacheShape'
    BY <1>7
  <2>2. ASSUME Cache!LoadDir = "home", NEW b \in Callers PROVE CallInv(b)'
    BY <1>7, <2>2 DEF CallInv, Since
  <2>3. QED BY <1>7, <2>1, <2>2 DEF Cache!LoadDir, EntryInv, Since
<1>8. QED BY <1>1, <1>2, <1>3, <1>4, <1>5, <1>6, <1>7 DEF Cache!CacheNext

\* A configuration that the cache serves was in the file at some time during the
\* call, for any callers and edits, as long as the hash is taken of the file that
\* is loaded (data/elastic_context.rs).
THEOREM CacheServes == Cache!CacheSpec => []Cache!ServedIsCurrent
<1>1. Cache!CacheInit => CacheInv
  BY DEF Cache!CacheInit, CacheInv, CacheShape, Cache!Dirs, Cache!States, Cache!None, Cache!Rest, Found, Records,
         EntryInv, CallInv
<1>2. CacheInv /\ [Cache!CacheNext]_(Cache!cacheVars) => CacheInv'
  BY CacheSteps
<1>3. CacheInv => Cache!ServedIsCurrent
  BY DEF CacheInv, CacheShape, CallInv, Since, Found, Records, Cache!ServedIsCurrent, Cache!PrintDir, Cache!Dirs
<1>4. QED BY <1>1, <1>2, <1>3, PTL DEF Cache!CacheSpec

(***************************************************************************)
(* The child process.                                                      *)
(***************************************************************************)
CommandShape ==
  /\ run \in {"idle", "polling", "joining", "done"}
  /\ child \in {"none", "running", "success", "failure", "killed"}
  /\ heirs \in BOOLEAN
  /\ readers \in [Command!Streams -> {"none", "reading", "whole", "exceeded"}]
  /\ outcome \in {"none", "value", "error"}

\* The caller joins the readers of a child that has ended or was killed, and has
\* no value before both are joined.
CommandInv ==
  /\ CommandShape
  /\ run = "idle" => child = "none" /\ \A s \in Command!Streams : readers[s] = "none"
  /\ run \in {"joining", "done"} => child # "running"
  /\ Command!CommandLeavesNothing

LEMMA CommandSteps ==
  ASSUME CommandInv, [Command!CommandNext]_(Command!commandVars) PROVE CommandInv'
<1> USE DEF CommandInv, CommandShape, Command!Streams, Command!CommandLeavesNothing
<1>1. CASE UNCHANGED Command!commandVars
  BY <1>1 DEF Command!commandVars
<1>2. CASE Command!Spawn
  BY <1>2 DEF Command!Spawn
<1>3. CASE Command!ChildForks \/ Command!ChildEnds \/ Command!HeirsEnd
  BY <1>3 DEF Command!ChildForks, Command!ChildEnds, Command!HeirsEnd
<1>4. ASSUME NEW s \in Command!Streams, Command!ReadToEnd(s) \/ Command!ReadTooMuch(s) PROVE CommandInv'
  BY <1>4 DEF Command!ReadToEnd, Command!ReadTooMuch
<1>5. CASE Command!Poll \/ Command!TimeOut
  BY <1>5 DEF Command!Poll, Command!TimeOut
<1>6. CASE Command!Join
  BY <1>6 DEF Command!Join, Command!Joined
<1>7. CASE Command!Again
  BY <1>7 DEF Command!Again
<1>8. QED BY <1>1, <1>2, <1>3, <1>4, <1>5, <1>6, <1>7 DEF Command!CommandNext

\* A call that is over has left neither child nor reader behind, whenever the
\* child ends, forks or writes too much and whenever the time is up; a value is
\* the whole output of a command that succeeded (crates/elasticrc).
THEOREM CommandEnds == Command!CommandSpec => []Command!CommandLeavesNothing
<1>1. Command!CommandInit => CommandInv
  BY DEF Command!CommandInit, CommandInv, CommandShape, Command!Streams, Command!CommandLeavesNothing
<1>2. CommandInv /\ [Command!CommandNext]_(Command!commandVars) => CommandInv'
  BY CommandSteps
<1>3. CommandInv => Command!CommandLeavesNothing
  BY DEF CommandInv
<1>4. QED BY <1>1, <1>2, <1>3, PTL DEF Command!CommandSpec

(***************************************************************************)
(* The cell of a receiver's clones.                                        *)
(***************************************************************************)
Versions == {0, 1, 2}
Addresses == UNION {Live!ResolveVersion(v) : v \in Versions}
Asks == {"get", "raw", "manifest", "context"}

Codes == {200, 204, 404, 503}

TaskRecords ==
  [pc : {"idle", "version", "asking", "sent", "done"}, op : Asks \cup {"none", "stream"},
   version : SUBSET Versions, url : Addresses \cup {"none", "status"},
   fault : {"none", "unsent", "status", "unreadable"},
   result : {"none", "error", "version", "unsupported", "http", "value"}, status : Codes \cup {0}]

\* The address is the one of the version in the cell, and the version is that.
FromCell(t, c) ==
  /\ t.version # {} => t.version = c
  /\ t.url \notin {"none", "status"} => {t.url} = Live!ResolveVersion(CHOOSE v \in c : TRUE)
  /\ t.result = "version" => c # {} /\ t.version = c
  /\ t.url \in {"none", "status"} \/ c # {}

\* What came of a request. A version that could not be had is an error of its
\* own for the receivers and requests that cannot do without.
Honest(t) ==
  /\ t.result = "value" => t.status \in 200 .. 299 /\ t.url # "none"
  /\ t.status > 299 => t.result = "http"
  /\ t.fault = "status" /\ t.result = "error" => receiver \in {"logstash", "admin"} /\ t.op \in {"get", "raw", "manifest"}

\* What a request knows at each point. Only one that has failed knows of a fault.
Untold(t) == t.result = "none" /\ t.status = 0 /\ t.fault = "none"
AtPoint(t) ==
  /\ t.pc \in {"idle", "version", "asking"} => Untold(t) /\ t.version = {} /\ t.url = "none"
  /\ t.pc \in {"version", "asking"} => t.op \in Asks
  /\ t.pc = "sent" => Untold(t) /\ t.url # "none"

RequestInv(t, c) == t \in TaskRecords /\ FromCell(t, c) /\ Honest(t) /\ AtPoint(t)

\* The one that asks is the one that fills the cell; every other question failed.
CellInv ==
  /\ receiver \in Live!Kinds /\ server \in Versions /\ faults \in Nat
  /\ cell = {} \/ \E v \in Versions : cell = {v}
  /\ \/ initialiser = {} /\ asked = faults + IF cell = {} THEN 0 ELSE 1
     \/ cell = {} /\ asked = faults + 1 /\ \E t \in Tasks : initialiser = {t}

ReceiverInv ==
  /\ CellInv
  /\ tasks = [t \in Tasks |-> tasks[t]]
  /\ \A t \in Tasks : RequestInv(tasks[t], cell)
  /\ \A t \in Tasks : tasks[t].pc = "asking" => initialiser = {t}

\* No source has the marker of a request without an address for its address.
Addressed == "none" \notin Addresses

LEMMA ResolveFacts ==
  ASSUME NEW v \in Versions
  PROVE  /\ Live!ResolveVersion(v) = {} \/ \E u : Live!ResolveVersion(v) = {u}
         /\ Live!ResolveVersion(v) \subseteq Addresses
<1>1. Live!ResolveVersion(v) = {} \/ \E u : Live!ResolveVersion(v) = {u}
  BY ZenonT(30) DEF Live!ResolveVersion
<1>2. QED BY <1>1 DEF Addresses

\* The fields of a request, one changed at a time.
LEMMA PointFacts ==
  ASSUME NEW t \in TaskRecords, NEW x \in {"idle", "version", "asking", "sent", "done"}, NEW w, w = [t EXCEPT !.pc = x]
  PROVE  /\ w \in TaskRecords /\ w.pc = x
         /\ w.op = t.op /\ w.version = t.version /\ w.url = t.url /\ w.fault = t.fault /\ w.result = t.result /\ w.status = t.status
BY DEF TaskRecords

LEMMA VersionFacts ==
  ASSUME NEW t \in TaskRecords, NEW x \in SUBSET Versions, NEW w, w = [t EXCEPT !.version = x]
  PROVE  /\ w \in TaskRecords /\ w.version = x
         /\ w.pc = t.pc /\ w.op = t.op /\ w.url = t.url /\ w.fault = t.fault /\ w.result = t.result /\ w.status = t.status
BY DEF TaskRecords

LEMMA AddressFacts ==
  ASSUME NEW t \in TaskRecords, NEW x \in Addresses \cup {"none", "status"}, NEW w, w = [t EXCEPT !.url = x]
  PROVE  /\ w \in TaskRecords /\ w.url = x
         /\ w.pc = t.pc /\ w.op = t.op /\ w.version = t.version /\ w.fault = t.fault /\ w.result = t.result /\ w.status = t.status
BY DEF TaskRecords

LEMMA ResultFacts ==
  ASSUME NEW t \in TaskRecords, NEW x \in {"none", "error", "version", "unsupported", "http", "value"}, NEW w, w = [t EXCEPT !.result = x]
  PROVE  /\ w \in TaskRecords /\ w.result = x
         /\ w.pc = t.pc /\ w.op = t.op /\ w.version = t.version /\ w.url = t.url /\ w.fault = t.fault /\ w.status = t.status
BY DEF TaskRecords

LEMMA StatusFacts ==
  ASSUME NEW t \in TaskRecords, NEW x \in Codes \cup {0}, NEW w, w = [t EXCEPT !.status = x]
  PROVE  /\ w \in TaskRecords /\ w.status = x
         /\ w.pc = t.pc /\ w.op = t.op /\ w.version = t.version /\ w.url = t.url /\ w.fault = t.fault /\ w.result = t.result
BY DEF TaskRecords

LEMMA DoneFacts ==
  ASSUME NEW t \in TaskRecords, NEW how \in {"none", "error", "version", "unsupported", "http", "value"}
  PROVE  /\ Live!Done(t, how) \in TaskRecords
         /\ Live!Done(t, how).pc = "done" /\ Live!Done(t, how).result = how
         /\ Live!Done(t, how).op = t.op /\ Live!Done(t, how).version = t.version
         /\ Live!Done(t, how).url = t.url /\ Live!Done(t, how).fault = t.fault
         /\ Live!Done(t, how).status = t.status
<1> DEFINE w == [t EXCEPT !.pc = "done"]
           r == Live!Done(t, how)
<1>1. /\ w \in TaskRecords /\ w.pc = "done"
      /\ w.op = t.op /\ w.version = t.version /\ w.url = t.url /\ w.fault = t.fault /\ w.status = t.status
  BY PointFacts
<1>2. r = [w EXCEPT !.result = how]
  BY DEF Live!Done
<1> HIDE DEF w, r
<1>3. /\ r \in TaskRecords /\ r.result = how /\ r.pc = w.pc
      /\ r.op = w.op /\ r.version = w.version /\ r.url = w.url /\ r.fault = w.fault /\ r.status = w.status
  BY <1>1, <1>2, ResultFacts
<1>4. QED BY <1>1, <1>3 DEF r

\* A request that is resolved with the version in the cell, or without one.
LEMMA ResolvedFacts ==
  ASSUME Addressed, NEW t \in TaskRecords, NEW c, c = {} \/ \E v \in Versions : c = {v},
         t.version = {}, t.url = "none", t.result = "none", t.status = 0, t.op \in Asks,
         c = {} => t.op # "context" /\ ~(t.op = "manifest" /\ receiver = "logstash"),
         t.fault = "status" => c = {} /\ receiver \in {"logstash", "admin"},
         t.fault # "none" => c = {}
  PROVE  RequestInv(Live!Resolved(t, c), c) /\ Live!Resolved(t, c).pc \in {"sent", "done"}
<1> DEFINE w == [t EXCEPT !.version = c]
           r == Live!Resolved(t, c)
<1> USE DEF RequestInv, FromCell, Honest, AtPoint, Untold
<1>1. c \in SUBSET Versions
  OBVIOUS
<1>2. /\ w \in TaskRecords /\ w.version = c /\ w.pc = t.pc /\ w.result = t.result /\ w.op = t.op
      /\ w.url = t.url /\ w.fault = t.fault /\ w.status = t.status
  BY <1>1, VersionFacts
<1> HIDE DEF w, r
<1>3. CASE t.op = "context" \/ (t.op = "manifest" /\ receiver = "logstash")
  <2>1. r = Live!Done(w, "version")
    BY <1>3 DEF Live!Resolved, r, w
  <2>2. c # {} /\ t.fault = "none"
    BY <1>3
  <2>3. r \in TaskRecords /\ r.pc = "done" /\ r.result = "version" /\ r.version = c /\ r.url = "none"
        /\ r.status = 0 /\ r.fault = "none"
    BY <1>2, <2>1, <2>2, DoneFacts
  <2>4. QED BY <2>2, <2>3 DEF r
<1>4. CASE ~(t.op = "context" \/ (t.op = "manifest" /\ receiver = "logstash")) /\ c = {}
  <2>1. r = Live!Done(t, "error")
    BY <1>4 DEF Live!Resolved, r
  <2>2. r \in TaskRecords /\ r.pc = "done" /\ r.result = "error" /\ r.version = {} /\ r.url = "none"
        /\ r.status = 0 /\ r.fault = t.fault /\ r.op = t.op
    BY <2>1, DoneFacts
  <2>3. r.fault = "status" => receiver \in {"logstash", "admin"} /\ r.op \in {"get", "raw", "manifest"}
    BY <1>4, <2>2 DEF Asks
  <2>4. QED BY <1>4, <2>2, <2>3 DEF r
<1>5. CASE ~(t.op = "context" \/ (t.op = "manifest" /\ receiver = "logstash")) /\ c # {}
  <2> DEFINE url == Live!ResolveVersion(CHOOSE v \in c : TRUE)
  <2>1. PICK v \in Versions : c = {v}
    BY <1>5
  <2>2. (CHOOSE x \in c : TRUE) = v
    BY <2>1
  <2>3. url \subseteq Addresses /\ (url = {} \/ \E u : url = {u})
    BY <2>2, ResolveFacts
  <2>4. r = IF url = {} THEN Live!Done(w, "unsupported")
            ELSE [t EXCEPT !.version = c, !.pc = "sent", !.url = CHOOSE u \in url : TRUE]
    BY <1>5 DEF Live!Resolved, r, w
  <2>5. t.fault = "none"
    BY <1>5
  <2> HIDE DEF url
  <2>6. CASE url = {}
    <3>1. r \in TaskRecords /\ r.pc = "done" /\ r.result = "unsupported" /\ r.version = c /\ r.url = "none"
          /\ r.status = 0 /\ r.fault = "none"
      BY <1>2, <2>4, <2>5, <2>6, DoneFacts
    <3>2. QED BY <3>1, <1>5 DEF r
  <2>7. CASE url # {}
    <3>1. PICK u : url = {u}
      BY <2>3, <2>7
    <3>2. r = [t EXCEPT !.version = c, !.pc = "sent", !.url = u]
      BY <3>1, <2>4
    <3>3. u \in Addresses /\ u # "none"
      BY <3>1, <2>3 DEF Addressed
    <3> DEFINE y == [w EXCEPT !.pc = "sent"]
    <3>4. r \in TaskRecords /\ r.pc = "sent" /\ r.result = "none" /\ r.version = c /\ r.url = u
          /\ r.status = 0 /\ r.fault = "none" /\ r.op = t.op
      <4>1. /\ y \in TaskRecords /\ y.pc = "sent"
            /\ y.op = w.op /\ y.version = w.version /\ y.fault = w.fault /\ y.result = w.result /\ y.status = w.status
        BY <1>2, PointFacts
      <4>2. r = [y EXCEPT !.url = u]
        BY <3>2 DEF w
      <4> HIDE DEF y
      <4>3. /\ r \in TaskRecords /\ r.url = u /\ r.pc = y.pc
            /\ r.op = y.op /\ r.version = y.version /\ r.fault = y.fault /\ r.result = y.result /\ r.status = y.status
        BY <3>3, <4>1, <4>2, AddressFacts
      <4>4. QED BY <1>2, <2>5, <4>1, <4>3
    <3>5. FromCell(r, c)
      BY <3>1, <3>4, <1>5 DEF url
    <3>6. QED BY <3>3, <3>4, <3>5 DEF r
  <2>8. QED BY <2>6, <2>7
<1>6. QED BY <1>3, <1>4, <1>5

LEMMA FailedFacts ==
  ASSUME Addressed, receiver \in Live!Kinds, NEW t \in TaskRecords, t.version = {}, t.url = "none", t.result = "none",
         t.status = 0, t.op \in Asks, t.fault # "none"
  PROVE  RequestInv(Live!VersionFails(t), {}) /\ Live!VersionFails(t).pc \in {"sent", "done"}
<1>1. RequestInv(Live!Unanswered(t), {}) /\ Live!Unanswered(t).pc \in {"sent", "done"}
  <2> USE DEF RequestInv, FromCell, Honest, AtPoint, Untold
  <2> DEFINE d == Live!Done(t, "http")
             r == Live!Unanswered(t)
  <2>1. CASE t.fault = "status"
    <3>1. d \in TaskRecords /\ d.pc = "done" /\ d.result = "http" /\ d.version = {} /\ d.url = "none"
      BY DoneFacts
    <3> HIDE DEF d
    <3>2. r = [d EXCEPT !.status = 503]
      BY <2>1 DEF Live!Unanswered, d
    <3> HIDE DEF r
    <3>3. r \in TaskRecords /\ r.pc = "done" /\ r.result = "http" /\ r.version = {} /\ r.url = "none" /\ r.status = 503
      BY <3>1, <3>2, StatusFacts DEF Codes
    <3>4. QED BY <3>3 DEF r
  <2>2. CASE t.fault # "status"
    <3>1. r = Live!Done(t, "error")
      BY <2>2 DEF Live!Unanswered
    <3> HIDE DEF r
    <3>2. r \in TaskRecords /\ r.pc = "done" /\ r.result = "error" /\ r.version = {} /\ r.url = "none"
          /\ r.status = 0 /\ r.fault = t.fault
      BY <3>1, DoneFacts
    <3>3. QED BY <2>2, <3>2 DEF r
  <2>3. QED BY <2>1, <2>2
<1>2. CASE receiver \in {"elasticsearch", "kibana"}
  BY <1>1, <1>2 DEF Live!VersionFails, Live!ElasticsearchFails, Live!KibanaFails
<1>3. CASE receiver = "logstash"
  <2>1. CASE t.op \in {"context", "manifest"}
    BY <1>1, <1>3, <2>1 DEF Live!VersionFails, Live!LogstashFails
  <2>2. CASE t.op \notin {"context", "manifest"}
    <3>1. Live!VersionFails(t) = Live!Resolved(t, {})
      BY <1>3, <2>2 DEF Live!VersionFails, Live!LogstashFails
    <3>2. QED BY <1>3, <2>2, <3>1, ResolvedFacts
  <2>3. QED BY <2>1, <2>2
<1>4. CASE receiver = "admin"
  <2>1. CASE t.op = "context"
    BY <1>1, <1>4, <2>1 DEF Live!VersionFails, Live!AdminFails
  <2>2. CASE t.op # "context"
    <3>1. Live!VersionFails(t) = Live!Resolved(t, {})
      BY <1>4, <2>2 DEF Live!VersionFails, Live!AdminFails
    <3>2. QED BY <1>4, <2>2, <3>1, ResolvedFacts
  <2>3. QED BY <2>1, <2>2
<1>5. QED BY <1>2, <1>3, <1>4 DEF Live!Kinds

\* A step that changes one request and leaves the cell.
LEMMA OneRequest ==
  ASSUME ReceiverInv, NEW t \in Tasks, NEW r, RequestInv(r, cell), tasks' = [tasks EXCEPT ![t] = r],
         receiver' = receiver, cell' = cell
  PROVE  /\ tasks' = [s \in Tasks |-> tasks'[s]]
         /\ \A s \in Tasks : RequestInv(tasks[s], cell)'
         /\ tasks'[t] = r /\ \A s \in Tasks \ {t} : tasks'[s] = tasks[s]
<1>1. tasks'[t] = r /\ (\A s \in Tasks \ {t} : tasks'[s] = tasks[s]) /\ tasks' = [s \in Tasks |-> tasks'[s]]
  BY DEF ReceiverInv
<1>2. \A s \in Tasks : RequestInv(tasks'[s], cell)
  BY <1>1 DEF ReceiverInv
<1>3. QED BY <1>1, <1>2 DEF RequestInv, FromCell, Honest, AtPoint, Untold

\* It has not begun to ask, so who fills the cell is as before.
LEMMA OneAnswered ==
  ASSUME ReceiverInv, NEW t \in Tasks, NEW r, RequestInv(r, cell), r.pc # "asking", tasks' = [tasks EXCEPT ![t] = r],
         UNCHANGED <<receiver, server, cell, initialiser, faults, asked>>
  PROVE  ReceiverInv'
<1>0. receiver' = receiver /\ cell' = cell /\ initialiser' = initialiser
  OBVIOUS
<1>1. CellInv'
  BY DEF ReceiverInv, CellInv
<1>2. /\ tasks' = [s \in Tasks |-> tasks'[s]] /\ \A s \in Tasks : RequestInv(tasks[s], cell)'
      /\ tasks'[t] = r /\ \A s \in Tasks \ {t} : tasks'[s] = tasks[s]
  BY <1>0, OneRequest
<1>3. \A s \in Tasks : tasks'[s].pc = "asking" => initialiser' = {s}
  BY <1>0, <1>2 DEF ReceiverInv
<1>4. QED BY <1>1, <1>2, <1>3 DEF ReceiverInv

LEMMA Counted == \A S : Live!Cardinality(S) = Cardinality(S)
BY DEF Live!Cardinality, Cardinality

LEMMA IdleFacts == RequestInv(Live!Idle0, cell) /\ Live!Idle0.pc = "idle"
BY DEF Live!Idle0, RequestInv, TaskRecords, FromCell, Honest, AtPoint, Untold, Versions

LEMMA RequestAsks ==
  ASSUME ReceiverInv, NEW t \in Tasks, Live!Ask(t) PROVE ReceiverInv'
<1> DEFINE asks(op) == [Live!Idle0 EXCEPT !.op = op]
           r(op) == IF op = "stream" THEN Live!Done(asks(op), "error")
                    ELSE IF op = "manifest" /\ receiver = "kibana" THEN [asks(op) EXCEPT !.pc = "sent", !.url = "status"]
                    ELSE [asks(op) EXCEPT !.pc = "version"]
<1>1. PICK op \in Asks \cup {"stream"} : tasks' = [tasks EXCEPT ![t] = r(op)]
  BY DEF Live!Ask, Asks
<1>2. asks(op) = [pc |-> "idle", op |-> op, version |-> {}, url |-> "none", fault |-> "none", result |-> "none", status |-> 0]
  BY DEF Live!Idle0
<1>3. RequestInv(r(op), cell) /\ r(op).pc # "asking"
  <2> USE DEF RequestInv, TaskRecords, FromCell, Honest, AtPoint, Untold
  <2>1. CASE op = "stream"
    <3>1. r(op) = [pc |-> "done", op |-> op, version |-> {}, url |-> "none", fault |-> "none", result |-> "error", status |-> 0]
      BY <1>2, <2>1 DEF Live!Done
    <3> HIDE DEF r
    <3>2. QED BY <3>1, <2>1
  <2>2. CASE op # "stream" /\ op = "manifest" /\ receiver = "kibana"
    <3>1. r(op) = [pc |-> "sent", op |-> op, version |-> {}, url |-> "status", fault |-> "none", result |-> "none", status |-> 0]
      BY <1>2, <2>2
    <3> HIDE DEF r
    <3>2. QED BY <3>1, <2>2
  <2>3. CASE op # "stream" /\ ~(op = "manifest" /\ receiver = "kibana")
    <3>1. r(op) = [pc |-> "version", op |-> op, version |-> {}, url |-> "none", fault |-> "none", result |-> "none", status |-> 0]
      BY <1>2, <2>3
    <3> HIDE DEF r
    <3>2. QED BY <3>1, <2>3
  <2>4. QED BY <2>1, <2>2, <2>3
<1> HIDE DEF r
<1>4. QED BY <1>1, <1>3, OneAnswered DEF Live!Ask

LEMMA RequestBegins ==
  ASSUME ReceiverInv, NEW t \in Tasks, Live!BeginVersion(t) PROVE ReceiverInv'
<1> DEFINE r == [tasks[t] EXCEPT !.pc = "asking"]
<1>1. tasks' = [tasks EXCEPT ![t] = r] /\ tasks[t].pc = "version" /\ cell = {} /\ initialiser = {} /\ initialiser' = {t}
      /\ asked' = asked + 1 /\ UNCHANGED <<receiver, server, cell, faults>>
  BY DEF Live!BeginVersion
<1>2. RequestInv(tasks[t], cell)
  BY DEF ReceiverInv
<1>3. /\ r \in TaskRecords /\ r.pc = "asking" /\ r.op = tasks[t].op /\ r.version = tasks[t].version /\ r.url = tasks[t].url
      /\ r.fault = tasks[t].fault /\ r.result = tasks[t].result /\ r.status = tasks[t].status
  BY <1>2, PointFacts DEF RequestInv
<1> HIDE DEF r
<1>4. RequestInv(r, cell)
  BY <1>1, <1>2, <1>3 DEF RequestInv, FromCell, Honest, AtPoint, Untold
<1>5. CellInv'
  BY <1>1 DEF ReceiverInv, CellInv
<1>6. /\ tasks' = [s \in Tasks |-> tasks'[s]] /\ \A s \in Tasks : RequestInv(tasks[s], cell)'
      /\ tasks'[t] = r /\ \A s \in Tasks \ {t} : tasks'[s] = tasks[s]
  BY <1>1, <1>4, OneRequest
<1>7. \A s \in Tasks : tasks'[s].pc = "asking" => initialiser' = {s}
  BY <1>1, <1>6 DEF ReceiverInv
<1>8. QED BY <1>5, <1>6, <1>7 DEF ReceiverInv

LEMMA RequestServed ==
  ASSUME Addressed, ReceiverInv, NEW t \in Tasks, Live!HasVersion(t) PROVE ReceiverInv'
<1>1. /\ tasks[t].pc = "version" /\ cell # {} /\ tasks' = [tasks EXCEPT ![t] = Live!Resolved(tasks[t], cell)]
      /\ UNCHANGED <<receiver, server, cell, initialiser, faults, asked>>
  BY DEF Live!HasVersion
<1>2. RequestInv(tasks[t], cell) /\ CellInv
  BY DEF ReceiverInv
<1>3. RequestInv(Live!Resolved(tasks[t], cell), cell) /\ Live!Resolved(tasks[t], cell).pc \in {"sent", "done"}
  BY <1>1, <1>2, ResolvedFacts DEF RequestInv, AtPoint, Untold, CellInv
<1>4. QED BY <1>1, <1>3, OneAnswered

\* Who asks fills the cell, or fails and leaves it empty. The others have no
\* version yet, so the one that is put there is theirs.
LEMMA RequestEnds ==
  ASSUME Addressed, ReceiverInv, NEW t \in Tasks, Live!EndVersion(t) PROVE ReceiverInv'
<1>1. /\ tasks[t].pc = "asking" /\ initialiser' = {} /\ receiver' = receiver /\ server' = server /\ asked' = asked
      /\ tasks[t] \in TaskRecords /\ tasks[t].version = {} /\ tasks[t].url = "none" /\ tasks[t].result = "none"
      /\ tasks[t].status = 0 /\ tasks[t].fault = "none" /\ tasks[t].op \in Asks
  BY DEF Live!EndVersion, ReceiverInv, RequestInv, AtPoint, Untold
<1>2. initialiser = {t} /\ cell = {} /\ asked = faults + 1 /\ receiver \in Live!Kinds /\ server \in Versions /\ faults \in Nat
  BY <1>1 DEF ReceiverInv, CellInv
<1>3. \A s \in Tasks \ {t} : tasks[s].pc # "asking"
  BY <1>2 DEF ReceiverInv
<1>4. CASE cell' = {server} /\ tasks' = [tasks EXCEPT ![t] = Live!Resolved(tasks[t], {server})] /\ faults' = faults
  <2> DEFINE r == Live!Resolved(tasks[t], {server})
  <2>1. RequestInv(r, {server}) /\ r.pc \in {"sent", "done"}
    BY <1>1, <1>2, ResolvedFacts
  <2> HIDE DEF r
  <2>2. /\ tasks'[t] = r /\ (\A s \in Tasks \ {t} : tasks'[s] = tasks[s]) /\ tasks' = [s \in Tasks |-> tasks'[s]]
    BY <1>4 DEF ReceiverInv, r
  <2>3. ASSUME NEW s \in Tasks \ {t} PROVE RequestInv(tasks[s], cell)'
    <3>1. RequestInv(tasks[s], {})
      BY <1>2 DEF ReceiverInv
    <3>2. RequestInv(tasks[s], {server})
      BY <3>1 DEF RequestInv, FromCell
    <3>3. QED BY <1>1, <1>4, <2>2, <3>2 DEF RequestInv, FromCell, Honest, AtPoint, Untold
  <2>4. RequestInv(tasks[t], cell)'
    BY <1>1, <1>4, <2>1, <2>2 DEF RequestInv, FromCell, Honest, AtPoint, Untold
  <2>5. \A s \in Tasks : tasks'[s].pc # "asking"
    BY <1>3, <2>1, <2>2
  <2>6. CellInv'
    BY <1>1, <1>2, <1>4 DEF CellInv
  <2>7. QED BY <2>2, <2>3, <2>4, <2>5, <2>6 DEF ReceiverInv
<1>5. ASSUME NEW fault \in {"unsent", "status", "unreadable"}, faults' = faults + 1, cell' = cell,
             tasks' = [tasks EXCEPT ![t] = Live!VersionFails([tasks[t] EXCEPT !.fault = fault])]
      PROVE  ReceiverInv'
  <2> DEFINE x == [tasks[t] EXCEPT !.fault = fault]
             r == Live!VersionFails(x)
  <2>1. /\ x \in TaskRecords /\ x.fault = fault /\ x.op = tasks[t].op /\ x.version = tasks[t].version
        /\ x.url = tasks[t].url /\ x.result = tasks[t].result /\ x.status = tasks[t].status
    BY <1>1 DEF TaskRecords
  <2>2. tasks' = [tasks EXCEPT ![t] = r]
    BY <1>5
  <2> HIDE DEF x
  <2>3. RequestInv(r, {}) /\ r.pc \in {"sent", "done"}
    BY <1>1, <1>2, <2>1, FailedFacts
  <2> HIDE DEF r
  <2>4. /\ tasks' = [s \in Tasks |-> tasks'[s]] /\ \A s \in Tasks : RequestInv(tasks[s], cell)'
        /\ tasks'[t] = r /\ \A s \in Tasks \ {t} : tasks'[s] = tasks[s]
    BY <1>1, <1>2, <1>5, <2>2, <2>3, OneRequest
  <2>5. \A s \in Tasks : tasks'[s].pc # "asking"
    BY <1>3, <2>3, <2>4
  <2>6. CellInv'
    BY <1>1, <1>2, <1>5 DEF CellInv
  <2>7. QED BY <2>4, <2>5, <2>6 DEF ReceiverInv
<1>6. QED BY <1>4, <1>5 DEF Live!EndVersion

LEMMA RequestAnswered ==
  ASSUME ReceiverInv, NEW t \in Tasks, Live!Answer(t) PROVE ReceiverInv'
<1> DEFINE x == tasks[t]
           Ended(how, status) == [Live!Done(x, how) EXCEPT !.status = status]
<1>1. tasks[t].pc = "sent" /\ RequestInv(x, cell)
  BY DEF Live!Answer, ReceiverInv
<1>2. ASSUME NEW how \in {"http", "error", "value"}, NEW status \in Codes,
             status > 299 => how = "http", how = "value" => status \in 200 .. 299
      PROVE  RequestInv(Ended(how, status), cell) /\ Ended(how, status).pc = "done"
  <2> DEFINE d == Live!Done(x, how)
             r == Ended(how, status)
  <2>1. /\ d \in TaskRecords /\ d.pc = "done" /\ d.result = how /\ d.op = x.op /\ d.version = x.version
        /\ d.url = x.url /\ d.fault = x.fault
    BY <1>1, DoneFacts DEF RequestInv
  <2>2. r = [d EXCEPT !.status = status]
    OBVIOUS
  <2> HIDE DEF d, r, Ended
  <2>3. /\ r \in TaskRecords /\ r.status = status /\ r.pc = d.pc /\ r.result = d.result /\ r.op = d.op
        /\ r.version = d.version /\ r.url = d.url /\ r.fault = d.fault
    BY <2>1, <2>2, StatusFacts
  <2>4. QED BY <1>1, <1>2, <2>1, <2>3 DEF r, RequestInv, FromCell, Honest, AtPoint, Untold
<1>3. RequestInv(Live!Done(x, "error"), cell) /\ Live!Done(x, "error").pc = "done"
  <2> DEFINE d == Live!Done(x, "error")
  <2>1. /\ d \in TaskRecords /\ d.pc = "done" /\ d.result = "error" /\ d.op = x.op /\ d.version = x.version
        /\ d.url = x.url /\ d.fault = x.fault /\ d.status = x.status
    BY <1>1, DoneFacts DEF RequestInv
  <2> HIDE DEF d
  <2>2. QED BY <1>1, <2>1 DEF d, RequestInv, FromCell, Honest, AtPoint, Untold
<1>4. UNCHANGED <<receiver, server, cell, initialiser, faults, asked>>
  BY DEF Live!Answer
<1>5. ASSUME NEW how \in {"http", "error", "value"}, NEW status \in Codes,
             status > 299 => how = "http", how = "value" => status \in 200 .. 299,
             tasks' = [tasks EXCEPT ![t] = Ended(how, status)]
      PROVE  ReceiverInv'
  <2>1. RequestInv(Ended(how, status), cell) /\ Ended(how, status).pc # "asking"
    BY <1>2, <1>5
  <2> HIDE DEF x, Ended
  <2>2. QED BY <1>4, <1>5, <2>1, OneAnswered
<1>6. CASE tasks' = [tasks EXCEPT ![t] = Live!Done(x, "error")]
  BY <1>3, <1>4, <1>6, OneAnswered
<1>7. ASSUME NEW status \in Codes, NEW json,
             tasks' = [tasks EXCEPT ![t] =
               IF ~Live!Accepts(x.op, status) THEN Ended("http", status)
               ELSE IF x.op # "raw" /\ ~json THEN Ended("error", status) ELSE Ended("value", status)]
      PROVE  ReceiverInv'
  <2>1. Live!Accepts(x.op, status) => status \in 200 .. 299
    BY DEF Live!Accepts, Live!ElasticsearchAccepts, Live!KibanaAccepts, Live!LogstashAccepts, Live!AdminAccepts, Live!RawAccepts
  <2> HIDE DEF Ended, x
  <2>2. CASE ~Live!Accepts(x.op, status)
    <3>1. tasks' = [tasks EXCEPT ![t] = Ended("http", status)]
      BY <1>7, <2>2
    <3>2. QED BY <1>5, <3>1
  <2>3. CASE Live!Accepts(x.op, status) /\ x.op # "raw" /\ ~json
    <3>1. tasks' = [tasks EXCEPT ![t] = Ended("error", status)]
      BY <1>7, <2>3
    <3>2. status \in 200 .. 299 /\ ~(status > 299)
      BY <2>1, <2>3
    <3>3. QED BY <1>5, <3>1, <3>2
  <2>4. CASE Live!Accepts(x.op, status) /\ ~(x.op # "raw" /\ ~json)
    <3>1. tasks' = [tasks EXCEPT ![t] = Ended("value", status)]
      BY <1>7, <2>4
    <3>2. status \in 200 .. 299 /\ ~(status > 299)
      BY <2>1, <2>4
    <3>3. QED BY <1>5, <3>1, <3>2
  <2>5. QED BY <2>2, <2>3, <2>4, Zenon
<1>8. QED BY <1>6, <1>7 DEF Live!Answer, Codes

LEMMA ReceiverSteps ==
  ASSUME Addressed, ReceiverInv, [Live!ReceiverNext]_(Live!receiverVars) PROVE ReceiverInv'
<1>1. CASE UNCHANGED Live!receiverVars
  BY <1>1 DEF Live!receiverVars, ReceiverInv, CellInv, RequestInv, FromCell, Honest, AtPoint, Untold
<1>2. ASSUME NEW t \in Tasks, Live!Leave(t) PROVE ReceiverInv'
  BY <1>2, IdleFacts, OneAnswered DEF Live!Leave
<1>3. CASE Live!Upgrade
  <2>1. CellInv'
    BY <1>3 DEF Live!Upgrade, ReceiverInv, CellInv, Versions
  <2>2. QED BY <1>3, <2>1 DEF Live!Upgrade, ReceiverInv, RequestInv, FromCell, Honest, AtPoint, Untold
<1>4. QED BY <1>1, <1>2, <1>3, RequestAsks, RequestBegins, RequestServed, RequestEnds, RequestAnswered DEF Live!ReceiverNext

\* For any sources and any number of requests at once, whenever the product is
\* upgraded and however often its version cannot be had: all requests use one
\* version, which is asked for once more than it failed, and what failed is no
\* value (receiver/).
THEOREM VersionAskedOnce ==
  ASSUME Addressed PROVE Live!ReceiverSpec => []Live!OneVersionAsked
<1>1. Live!ReceiverInit => ReceiverInv
  <2> SUFFICES ASSUME Live!ReceiverInit PROVE ReceiverInv
    OBVIOUS
  <2>1. CellInv
    BY DEF Live!ReceiverInit, CellInv, Versions
  <2>2. \A t \in Tasks : tasks[t] = Live!Idle0
    BY DEF Live!ReceiverInit
  <2>3. tasks = [t \in Tasks |-> tasks[t]]
    BY DEF Live!ReceiverInit
  <2>4. QED BY <2>1, <2>2, <2>3, IdleFacts DEF ReceiverInv
<1>2. ReceiverInv /\ [Live!ReceiverNext]_(Live!receiverVars) => ReceiverInv'
  BY ReceiverSteps
<1>3. ReceiverInv => Live!OneVersionAsked
  <2> SUFFICES ASSUME ReceiverInv PROVE Live!OneVersionAsked
    OBVIOUS
  <2>1. Cardinality({}) = 0 /\ \A t \in Tasks : Cardinality({t}) = 1
    BY FS_EmptySet, FS_Singleton
  <2>2. asked <= faults + 1 /\ (cell = {} => asked = faults + Cardinality(initialiser))
    <3>1. CellInv
      BY DEF ReceiverInv
    <3>2. CASE initialiser = {} /\ asked = faults + IF cell = {} THEN 0 ELSE 1
      <4>1. Cardinality(initialiser) = 0
        BY <2>1, <3>2
      <4>2. faults \in Nat
        BY <3>1 DEF CellInv
      <4>3. QED BY <3>2, <4>1, <4>2
    <3>3. CASE cell = {} /\ asked = faults + 1 /\ \E t \in Tasks : initialiser = {t}
      <4>1. Cardinality(initialiser) = 1
        BY <2>1, <3>3
      <4>2. faults \in Nat
        BY <3>1 DEF CellInv
      <4>3. QED BY <3>3, <4>1, <4>2
    <3>4. QED BY <3>1, <3>2, <3>3 DEF CellInv
  <2>3. ASSUME NEW t \in Tasks
        PROVE  /\ tasks[t].version # {} => tasks[t].version = cell
               /\ tasks[t].url \notin {"none", "status"} => {tasks[t].url} = Live!ResolveVersion(CHOOSE v \in cell : TRUE)
               /\ tasks[t].result = "value" => tasks[t].status \in 200 .. 299 /\ tasks[t].url # "none"
               /\ tasks[t].result = "version" => cell # {} /\ tasks[t].version = cell
               /\ tasks[t].status > 299 => tasks[t].result = "http"
               /\ tasks[t].fault = "status" /\ tasks[t].result = "error" =>
                    receiver \in {"logstash", "admin"} /\ tasks[t].op \in {"get", "raw", "manifest"}
    BY DEF ReceiverInv, RequestInv, FromCell, Honest
  <2>4. QED BY <2>2, <2>3, Counted DEF Live!OneVersionAsked
<1>4. QED BY <1>1, <1>2, <1>3, PTL DEF Live!ReceiverSpec
=============================================================================
