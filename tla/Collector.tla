----------------------------- MODULE Collector -----------------------------
(* The collection of a diagnostic bundle from a live host: the collectors of  *)
(* Elasticsearch, Logstash and Kibana and the archive they write              *)
(* (processor/*/collector.rs, exporter/archive.rs).                           *)
(*                                                                            *)
(* A collector asks for each API, light ones concurrently in a pool, heavy    *)
(* ones one after the other, repeats what can be repeated for five minutes,   *)
(* and stores each answer. An Elasticsearch or Logstash API has one file; a   *)
(* Kibana API has one for each space and page, its PARTS. The manifest, saved *)
(* last, says of every API that was asked for how it went.                    *)
EXTENDS Integers, FiniteSets

CONSTANTS
  Apis,       \* the resolved APIs of the diagnostic type
  Heavy,      \* those at or above the sequential threshold (source_weight)
  Unsupported,\* those the registry does not have for the host's version
  Pool,       \* CollectConcurrencyPolicy::concurrent_pool, capped for Kibana
  MaxParts,   \* bound: spaces and pages of one Kibana API
  MaxRetried  \* bound: files that failed attempts of one API have stored

ASSUME ApisAssumption == IsFiniteSet(Apis) /\ Heavy \subseteq Apis /\ Unsupported \subseteq Apis
ASSUME PoolAssumption == Pool \in Nat \ {0} /\ MaxParts \in Nat \ {0} /\ MaxRetried \in Nat

VARIABLES
  product,    \* "elasticsearch", "logstash" or "kibana"
  zip,        \* the archive is a zip file (otherwise a directory)
  phase,      \* how far collect() is
  api,        \* each API: its retry loop
  entries,    \* the files stored in the archive, as <<API, part>>
  partial,    \* the files a failed write has begun and not finished
  writer,     \* the zip writer: "open" or "finished"
  requested,  \* requested_apis: "ok" or "failed" for each API with an entry
  success,    \* CollectionResult.success
  manifest,   \* the manifest: whether it is in the archive, its requested_apis
  result      \* what collect() returns

vars == <<product, zip, phase, api, entries, partial, writer, requested, success, manifest, result>>

\* fetch: a request is out; sleep: waiting before the next attempt.
ApiPoints == {"todo", "fetch", "sleep", "done"}

InFlight == {a \in Apis : api[a].pc \in {"fetch", "sleep"}}

\* policy.is_sequential; the Kibana collector has no sequential sources.
Sequential(a) == product # "kibana" /\ a \in Heavy

Init ==
  /\ product \in {"elasticsearch", "logstash", "kibana"}
  /\ zip \in BOOLEAN
  /\ phase = "start"
  /\ api = [a \in Apis |-> [pc |-> "todo", part |-> 1, saved |-> 0, retried |-> 0, late |-> FALSE]]
  /\ entries = {}
  /\ partial = {}
  /\ writer = "open"
  /\ requested = [a \in Apis |-> "absent"]
  /\ success = 0
  /\ manifest = [written |-> FALSE, apis |-> requested]
  /\ result = "none"

----------------------------------------------------------------------------
(* The phases of collect()                                                    *)

\* Resolving the APIs and the version of the host, which fails the collection.
Start ==
  /\ phase = "start"
  /\ \/ phase' = "light" /\ UNCHANGED result
     \/ phase' = "finalize" /\ result' = "failing"
  /\ UNCHANGED <<product, zip, api, entries, partial, writer, requested, success, manifest>>

\* The stream of light APIs is exhausted.
LightDone ==
  /\ phase = "light"
  /\ \A a \in Apis : ~Sequential(a) => api[a].pc = "done"
  /\ phase' = "heavy"
  /\ UNCHANGED <<product, zip, api, entries, partial, writer, requested, success, manifest, result>>

\* Mutant: the heavy APIs are started and not awaited.
HeavyDoneEarly ==
  /\ phase = "heavy"
  /\ \A a \in Apis : api[a].pc # "todo"
  /\ phase' = "manifest"
  /\ UNCHANGED <<product, zip, api, entries, partial, writer, requested, success, manifest, result>>

HeavyDone ==
  /\ phase = "heavy"
  /\ \A a \in Apis : api[a].pc = "done"
  /\ phase' = "manifest"
  /\ UNCHANGED <<product, zip, api, entries, partial, writer, requested, success, manifest, result>>

\* save_diagnostic_manifest: the last file; without it the collection fails.
SaveManifest ==
  /\ phase = "manifest"
  /\ phase' = "finalize"
  /\ \/ /\ manifest' = [written |-> TRUE, apis |-> requested] /\ success' = success + 1
        /\ UNCHANGED result
     \/ /\ result' = "failing"
        /\ UNCHANGED <<manifest, success>>
  /\ UNCHANGED <<product, zip, api, entries, partial, writer, requested>>

\* Mutant: the error of the collection is lost when the archive can be closed.
FinalizeForgets ==
  /\ phase = "finalize"
  /\ phase' = "done"
  /\ writer' = "finished"
  /\ \/ result' = "ok"
     \/ zip /\ result' = "error"
  /\ UNCHANGED <<product, zip, api, entries, partial, requested, success, manifest>>

\* exporter.finalize(), whatever collect() has come to; closing a zip can fail.
Finalize ==
  /\ phase = "finalize"
  /\ phase' = "done"
  /\ writer' = "finished"
  /\ \/ result' = IF result = "failing" THEN "error" ELSE "ok"
     \/ zip /\ result' = "error"
  /\ UNCHANGED <<product, zip, api, entries, partial, requested, success, manifest>>

----------------------------------------------------------------------------
(* save_api_with_retry                                                        *)

Active(a) == api[a].pc = "fetch"

\* A request for the API is made. For Elasticsearch and Logstash the version is
\* known from the start, for Kibana asking for it can fail as well.
Asked(a) == Active(a) /\ a \notin Unsupported

CanFail(a) == Active(a) /\ (a \in Unsupported => product = "kibana")

\* Mutant: the entries of the heavy APIs are not kept.
SettleLightOnly(a, verdict, saved) ==
  /\ api' = [api EXCEPT ![a].pc = "done", ![a].part = 1, ![a].saved = 0,
                        ![a].retried = 0, ![a].late = FALSE]
  /\ success' = success + saved
  /\ requested' = IF verdict = "skipped" \/ Sequential(a)
                  THEN requested ELSE [requested EXCEPT ![a] = verdict]

\* The result of one API reaches the loop of collect(): saved files are added,
\* an API that was asked for gets its entry.
Settle(a, verdict, saved) ==
  /\ api' = [api EXCEPT ![a].pc = "done", ![a].part = 1, ![a].saved = 0,
                        ![a].retried = 0, ![a].late = FALSE]
  /\ success' = success + saved
  /\ requested' = IF verdict = "skipped" THEN requested ELSE [requested EXCEPT ![a] = verdict]

\* buffer_unordered starts the next light API when there is room in the pool.
BeginLight(a) ==
  /\ phase = "light"
  /\ ~Sequential(a) /\ api[a].pc = "todo"
  /\ Cardinality(InFlight) < Pool
  /\ api' = [api EXCEPT ![a].pc = "fetch"]
  /\ UNCHANGED <<product, zip, phase, entries, partial, writer, requested, success, manifest, result>>

\* Mutant: heavy APIs are started like light ones.
BeginHeavyPooled(a) ==
  /\ phase = "heavy"
  /\ Sequential(a) /\ api[a].pc = "todo"
  /\ Cardinality(InFlight) < Pool
  /\ api' = [api EXCEPT ![a].pc = "fetch"]
  /\ UNCHANGED <<product, zip, phase, entries, partial, writer, requested, success, manifest, result>>

\* The loop over the heavy APIs awaits each of them.
BeginHeavy(a) ==
  /\ phase = "heavy"
  /\ Sequential(a) /\ api[a].pc = "todo"
  /\ InFlight = {}
  /\ api' = [api EXCEPT ![a].pc = "fetch"]
  /\ UNCHANGED <<product, zip, phase, entries, partial, writer, requested, success, manifest, result>>

\* Not in the registry, or not for this version: no entry in the manifest.
Skip(a) ==
  /\ Active(a)
  /\ a \in Unsupported
  /\ Settle(a, "skipped", 0)
  /\ UNCHANGED <<product, zip, phase, entries, partial, writer, manifest, result>>

\* Storing a file: a zip archive refuses a name it already has, a directory
\* overwrites it, and writing can fail, then a part of the file may be left
\* under its name. A failure is logged and counts nothing.
CanStore(f) == ~(zip /\ f \in entries \union partial)

Store(f, stored) ==
  \/ /\ stored /\ CanStore(f)
     /\ entries' = entries \union {f} /\ partial' = partial \ {f}
  \/ /\ ~stored
     /\ \/ UNCHANGED partial
        \/ CanStore(f) /\ partial' = partial \union {f}
     /\ UNCHANGED entries

\* Mutant: an answer counts whether or not it could be stored.
AnswerCounts(a) ==
  /\ Asked(a)
  /\ \E stored \in BOOLEAN :
        /\ Store(<<a, api[a].part>>, stored)
        /\ Settle(a, "ok", api[a].saved + 1)
  /\ UNCHANGED <<product, zip, phase, writer, manifest, result>>

\* An answer arrives and is stored, and it was the last: save_raw of
\* Elasticsearch and Logstash, the last page of the last space of Kibana.
Answer(a) ==
  /\ Asked(a)
  /\ \E stored \in BOOLEAN :
        /\ Store(<<a, api[a].part>>, stored)
        /\ Settle(a, "ok", api[a].saved + IF stored THEN 1 ELSE 0)
  /\ UNCHANGED <<product, zip, phase, writer, manifest, result>>

\* A Kibana API has another page or another space.
AnswerPart(a) ==
  /\ Asked(a)
  /\ product = "kibana" /\ api[a].part < MaxParts
  /\ \E stored \in BOOLEAN :
        /\ Store(<<a, api[a].part>>, stored)
        /\ api' = [api EXCEPT ![a].part = @ + 1, ![a].saved = IF stored THEN @ + 1 ELSE @]
  /\ UNCHANGED <<product, zip, phase, writer, requested, success, manifest, result>>

\* Mutant: nothing limits the attempts.
RetryForever(a) ==
  /\ CanFail(a)
  /\ api[a].retried + api[a].saved <= MaxRetried
  /\ api' = [api EXCEPT ![a].pc = "sleep", ![a].part = 1, ![a].saved = 0,
                        ![a].retried = @ + api[a].saved]
  /\ UNCHANGED <<product, zip, phase, entries, partial, writer, requested, success, manifest, result>>

\* Mutant: the next attempt starts over and keeps counting.
RetryKeepsCount(a) ==
  /\ CanFail(a)
  /\ ~api[a].late
  /\ api[a].retried + api[a].saved <= MaxRetried
  /\ api' = [api EXCEPT ![a].pc = "sleep", ![a].part = 1]
  /\ UNCHANGED <<product, zip, phase, entries, partial, writer, requested, success, manifest, result>>

\* A failure that may be repeated, within the five minutes: the files of this
\* attempt are remembered (only a Kibana attempt can have any).
Retry(a) ==
  /\ CanFail(a)
  /\ ~api[a].late
  /\ api[a].retried + api[a].saved <= MaxRetried
  /\ api' = [api EXCEPT ![a].pc = "sleep", ![a].part = 1, ![a].saved = 0,
                        ![a].retried = @ + api[a].saved]
  /\ UNCHANGED <<product, zip, phase, entries, partial, writer, requested, success, manifest, result>>

Wake(a) ==
  /\ api[a].pc = "sleep"
  /\ api' = [api EXCEPT ![a].pc = "fetch"]
  /\ UNCHANGED <<product, zip, phase, entries, partial, writer, requested, success, manifest, result>>

\* A failure that is not repeated, or comes after the five minutes.
GiveUp(a) ==
  /\ CanFail(a)
  /\ Settle(a, "failed", api[a].retried + api[a].saved)
  /\ UNCHANGED <<product, zip, phase, entries, partial, writer, manifest, result>>

\* Five minutes after the first attempt.
TimeUp(a) ==
  /\ a \in InFlight
  /\ ~api[a].late
  /\ api' = [api EXCEPT ![a].late = TRUE]
  /\ UNCHANGED <<product, zip, phase, entries, partial, writer, requested, success, manifest, result>>

----------------------------------------------------------------------------
Request(a) == Skip(a) \/ Answer(a) \/ AnswerPart(a) \/ Retry(a) \/ GiveUp(a)

Phases == Start \/ LightDone \/ HeavyDone \/ SaveManifest \/ Finalize

Next ==
  \/ Phases
  \/ \E a \in Apis : BeginLight(a) \/ BeginHeavy(a) \/ Request(a) \/ Wake(a) \/ TimeUp(a)

Spec == Init /\ [][Next]_vars

\* The host owes an answer: its version at the start and, of Kibana, for the
\* manifest, or the answer to a request for an API (of Kibana, to that for its
\* version, too). No client sets a time limit, and the five minutes of an API
\* are looked at only after a failed attempt.
AwaitsVersion == phase = "start" \/ (phase = "manifest" /\ product = "kibana")

AwaitsAnswer(a) == CanFail(a)

\* collect() is polled, a sleep ends, and five minutes pass. That the host ever
\* answers, refuses or hangs up is not assumed.
FairSpec ==
  /\ Spec
  /\ WF_vars(~AwaitsVersion /\ Phases)
  /\ \A a \in Apis : /\ WF_vars(BeginLight(a) \/ BeginHeavy(a))
                     /\ WF_vars(~AwaitsAnswer(a) /\ Request(a))
                     /\ WF_vars(Wake(a)) /\ WF_vars(TimeUp(a))

----------------------------------------------------------------------------
(* Properties                                                                 *)

\* Type invariant.
TypeOK ==
  /\ product \in {"elasticsearch", "logstash", "kibana"} /\ zip \in BOOLEAN
  /\ phase \in {"start", "light", "heavy", "manifest", "finalize", "done"}
  /\ api \in [Apis -> [pc : ApiPoints, part : 1 .. MaxParts, saved : 0 .. (MaxParts - 1),
                       retried : 0 .. MaxRetried, late : BOOLEAN]]
  /\ entries \subseteq Apis \X (1 .. MaxParts)
  /\ partial \subseteq Apis \X (1 .. MaxParts)
  /\ writer \in {"open", "finished"}
  /\ requested \in [Apis -> {"absent", "ok", "failed"}]
  /\ success \in Nat
  /\ manifest \in [written : BOOLEAN, apis : [Apis -> {"absent", "ok", "failed"}]]
  /\ result \in {"none", "failing", "ok", "error"}

\* The host is protected: no more requests are out or waiting to be repeated
\* than the pool has room for, and a heavy API, its retries included, has the
\* host to itself.
ConcurrencyLimited ==
  /\ Cardinality(InFlight) <= Pool
  /\ \A a \in InFlight : Sequential(a) => InFlight = {a}

\* The manifest speaks for the archive: when it is written every API has ended,
\* it has the verdict of each of them, and no file, whole or cut off, lies in
\* the archive without its API in the manifest.
ManifestComplete ==
  manifest.written => /\ manifest.apis = requested
                      /\ \A a \in Apis : api[a].pc = "done"
                      /\ \A f \in entries \union partial : manifest.apis[f[1]] # "absent"

ManifestFiles == IF manifest.written THEN 1 ELSE 0

\* The number of collected files that is reported: exact for Elasticsearch and
\* Logstash, and for a zip of Kibana never more than the archive holds,
\* although a repeated attempt asks for, and stores, earlier pages again.
CountedIsStored ==
  /\ product # "kibana" => success = Cardinality(entries) + ManifestFiles
  /\ zip => success <= Cardinality(entries) + ManifestFiles

\* collect() is Ok only for an archive with a manifest, and leaves no open
\* writer behind however it ends.
ResultHonest ==
  /\ result = "ok" => manifest.written
  /\ result \in {"ok", "error"} => writer = "finished"

\* What a collection leaves behind and what it says of it agree, however its
\* requests interleave, fail and are repeated.
CollectionSound ==
  TypeOK /\ ConcurrencyLimited /\ ManifestComplete /\ CountedIsStored /\ ResultHonest

\* Every request the host is asked comes to an end: with an answer, a refusal
\* or a broken connection.
HostEndsRequests == []<>~AwaitsVersion /\ \A a \in Apis : []<>~AwaitsAnswer(a)

\* Only a host that stays silent on an open connection keeps a collection from
\* ending: no number of answers 429 or 5xx, of broken connections or of files
\* that cannot be written does, however the retries of the APIs interleave.
Termination == HostEndsRequests => <>(phase = "done")
=============================================================================
