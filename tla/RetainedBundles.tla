---------------------------- MODULE RetainedBundles ----------------------------
(* The downloads that jobs leave for the browser (server/mod.rs,               *)
(* server/bundle_download.rs): a table of tokens, a file for each bundle, and  *)
(* cleanup tasks that sleep, look at the expiry and discard. Every job has a   *)
(* token of its own, made by the page. Times are what is left of them.         *)
EXTENDS EventBus

CONSTANTS
  Runs,        \* the tokens
  KeepTime,    \* RETAINED_BUNDLE_TTL
  AfterTime    \* RETAINED_BUNDLE_POST_DOWNLOAD_TTL, DOWNLOAD_REJECTION_TTL

\* A rejection and a download leave less time than a new bundle has.
ASSUME TimesAssumption == KeepTime \in Nat \ {0} /\ AfterTime \in 1..KeepTime

\* What a token can have in the table.
Entries == [owner : Users, error : BOOLEAN, path : BOOLEAN, left : 0..KeepTime]
ASSUME NoneAssumption == None \notin Runs \cup Entries

VARIABLES
  entry,     \* retained_bundles: [owner, error, path, left] or None
  disk,      \* the jobs whose bundle is on disk
  timers,    \* sleeping cleanup tasks: <<token, left>>
  expired,   \* tokens a cleanup task found expired and is about to discard
  doomed,    \* tokens whose entry is gone and whose file is being removed
  get        \* the download request of each tab

bundleVars == <<entry, disk, timers, expired, doomed, get>>

NoGet == [at |-> "idle", token |-> None]
BundleInit ==
  /\ entry = [j \in Runs |-> None]
  /\ disk = {} /\ timers = {} /\ expired = {} /\ doomed = {}
  /\ get = [t \in Tabs |-> NoGet]

\* The table has a path for the token.
Offered(j) == entry[j] # None /\ entry[j].path

\* Both take over whatever the token has.
Accepted(j, o) ==
  [owner |-> o, error |-> FALSE, path |-> Offered(j), left |-> KeepTime]
Rejected(j, o, ttl) ==
  [owner |-> o, error |-> TRUE, path |-> Offered(j), left |-> ttl]

\* Mutant: nobody cleans up after a download.
ScheduleOnce(j, ttl) == IF ttl = AfterTime /\ ttl # KeepTime THEN timers ELSE timers \cup {<<j, ttl>>}

\* schedule_retained_bundle_cleanup
Schedule(j, ttl) == timers \cup {<<j, ttl>>}

\* accept_retained_bundle and its cleanup.
Accept(j, o) ==
  /\ entry' = [entry EXCEPT ![j] = Accepted(j, o)]
  /\ timers' = Schedule(j, KeepTime)
  /\ UNCHANGED <<disk, expired, doomed, get>>

\* reject_retained_bundle: nothing is scheduled.
RejectBundle(j, o, ttl) == entry' = [entry EXCEPT ![j] = Rejected(j, o, ttl)]

\* insert_retained_bundle_internal and its cleanup.
Insert(j, o) ==
  /\ entry' = [entry EXCEPT ![j] = [owner |-> o, error |-> FALSE, path |-> TRUE, left |-> KeepTime]]
  /\ timers' = Schedule(j, KeepTime)

\* Mutant: the entry is removed and its file forgotten.
DiscardEntry(j) == entry' = [entry EXCEPT ![j] = None] /\ doomed' = doomed

\* discard_retained_bundle: the entry first, then its file.
Discard(j) ==
  /\ entry' = [entry EXCEPT ![j] = None]
  /\ doomed' = IF Offered(j) THEN doomed \cup {j} ELSE doomed

Remove(j) ==
  /\ j \in doomed
  /\ doomed' = doomed \ {j} /\ disk' = disk \ {j}
  /\ UNCHANGED <<entry, timers, expired, get, busVars>>

\* Mutant: the expiry is not looked at.
IsExpiredAny(j) == entry[j] # None

\* The expiry is in the past.
IsExpired(j) == entry[j] # None /\ entry[j].left = 0

\* The task wakes, reads the expiry under one lock,
Wake(j) ==
  /\ <<j, 0>> \in timers
  /\ timers' = timers \ {<<j, 0>>}
  /\ expired' = IF IsExpired(j) THEN expired \cup {j} ELSE expired
  /\ UNCHANGED <<entry, disk, doomed, get, busVars>>

\* and discards under another.
CleanUp(j) ==
  /\ j \in expired
  /\ expired' = expired \ {j}
  /\ Discard(j)
  /\ UNCHANGED <<disk, timers, get, busVars>>

(* ------------------------- download_retained_bundle ----------------------- *)
Answer(t, a) ==
  /\ get' = [get EXCEPT ![t] = NoGet]
  /\ tab' = [tab EXCEPT ![t].answer = a]
  /\ UNCHANGED <<mode, ring, counters, dirty, down>>

\* The entry is read; what is refused is discarded.
GetEntry(t) ==
  LET j == get[t].token
      e == entry[j]
  IN /\ get[t].at = "read"
     /\ CASE e = None -> Answer(t, "missing") /\ UNCHANGED <<entry, doomed>>
          [] e # None /\ e.owner # Owner(t) -> Answer(t, "forbidden") /\ UNCHANGED <<entry, doomed>>
          [] e # None /\ e.owner = Owner(t) /\ e.error -> Answer(t, "failed") /\ Discard(j)
          [] e # None /\ e.owner = Owner(t) /\ ~e.error /\ e.left = 0 -> Answer(t, "expired") /\ Discard(j)
          [] e # None /\ e.owner = Owner(t) /\ ~e.error /\ e.left > 0 /\ ~e.path ->
               Answer(t, "early") /\ UNCHANGED <<entry, doomed>>
          [] OTHER -> get' = [get EXCEPT ![t].at = "open"] /\ UNCHANGED <<entry, doomed, busVars>>
     /\ UNCHANGED <<disk, timers, expired>>

OpenFile(t) ==
  LET j == get[t].token IN
  /\ get[t].at = "open"
  /\ IF j \in disk THEN get' = [get EXCEPT ![t].at = "touch"] /\ UNCHANGED <<entry, doomed, busVars>>
     ELSE Answer(t, "missing") /\ Discard(j)
  /\ UNCHANGED <<disk, timers, expired>>

\* touch_retained_bundle; the open file is streamed whatever happens to it.
Touch(t) ==
  LET j == get[t].token IN
  /\ get[t].at = "touch"
  /\ entry' = IF entry[j] = None THEN entry ELSE [entry EXCEPT ![j].left = AfterTime]
  /\ timers' = Schedule(j, AfterTime)
  /\ Answer(t, "file")
  /\ UNCHANGED <<disk, expired, doomed>>

\* Time passes for the entries and the sleepers alike.
Less(n) == IF n = 0 THEN 0 ELSE n - 1
Aged == /\ entry' = [j \in Runs |-> IF entry[j] = None THEN None ELSE [entry[j] EXCEPT !.left = Less(@)]]
        /\ timers' = {<<x[1], Less(x[2])>> : x \in timers}

(* ------------------------------- properties ------------------------------- *)
\* A bundle that the table offers is on disk and nobody is about to remove it,
\* although its file goes after its entry, under no lock. A cleanup task
\* watches it: one has found it expired, or one sleeps at least until it
\* expires, since a task that wakes before that does nothing.
BundlesKept == \A j \in Runs : Offered(j) =>
  /\ j \in disk /\ j \notin doomed
  /\ j \in expired \/ \E x \in timers : x[1] = j /\ x[2] >= entry[j].left
===============================================================================
