----------------------------- MODULE UnlockSession -----------------------------
(* The keystore session of the web interface (server/keystore.rs): requests to *)
(* unlock that are checked against a rate limit, tried, and only then counted; *)
(* the lease they write; the state the pages were last told. The session       *)
(* exists in user mode only.                                                   *)
EXTENDS RetainedBundles, FiniteSets

CONSTANTS
  Unlockers,   \* concurrent requests
  FreeTries,   \* failures without a pause
  MaxBlock,    \* the longest pause, in units of the shortest
  LeaseTime    \* default_unlock_ttl

ASSUME UnlockAssumption ==
  /\ IsFiniteSet(Unlockers)
  /\ FreeTries \in Nat /\ MaxBlock \in Nat \ {0} /\ LeaseTime \in Nat \ {0}

VARIABLES
  store,    \* keystore_exists
  lease,    \* what is left of the unlock lease
  limit,    \* KeystoreRateLimit: failed, block (what is left of it), seen
  unlock,   \* each request: idle, or let in and about to try its password
  late      \* tries since the block began

unlockVars == <<store, lease, limit, unlock, late>>

UnlockInit ==
  /\ store \in BOOLEAN
  /\ lease = 0 /\ late = 0
  /\ limit = [failed |-> 0, block |-> 0, seen |-> FALSE]
  /\ unlock = [u \in Unlockers |-> "idle"]

Unlocked == lease > 0
CanUseSession == mode = "user"

\* current_backoff_seconds
Backoff(n) == IF n <= FreeTries THEN 0 ELSE IF n - FreeTries > MaxBlock THEN MaxBlock ELSE n - FreeTries

LockEvent(open) == Event("keystore", "local", open)

\* set_keystore_unlocked, after the password was accepted
SetUnlocked ==
  /\ lease' = LeaseTime
  /\ limit' = [failed |-> 0, block |-> 0, seen |-> TRUE]
  /\ late' = 0
  /\ Emit(<<LockEvent(TRUE)>>)

\* Mutant: the block is only looked at when the failure is recorded.
AskUnlockAlways(u, max) ==
  /\ CanUseSession /\ store /\ ~down /\ unlock[u] = "idle" /\ limit.failed < max
  /\ unlock' = [unlock EXCEPT ![u] = "try"] /\ UNCHANGED <<ring, tab>>
  /\ UNCHANGED <<store, lease, limit, late, bundleVars, mode, counters, dirty, down>>

\* unlock: blocked_unlock_response, or let in. (max bounds the failures in a row.)
AskUnlock(u, max) ==
  /\ CanUseSession /\ store /\ ~down /\ unlock[u] = "idle" /\ limit.failed < max
  /\ IF limit.block > 0 THEN Emit(<<Event("keystore", "local", Unlocked)>>) /\ UNCHANGED unlock
     ELSE unlock' = [unlock EXCEPT ![u] = "try"] /\ UNCHANGED <<ring, tab>>
  /\ UNCHANGED <<store, lease, limit, late, bundleVars, mode, counters, dirty, down>>

\* authenticate succeeds.
TryRight(u) ==
  /\ unlock[u] = "try"
  /\ unlock' = [unlock EXCEPT ![u] = "idle"]
  /\ SetUnlocked
  /\ UNCHANGED <<store, bundleVars, mode, counters, dirty, down>>

\* authenticate fails: record_keystore_failed_attempt.
TryWrong(u) ==
  LET n == limit.failed + 1 IN
  /\ unlock[u] = "try"
  /\ unlock' = [unlock EXCEPT ![u] = "idle"]
  /\ limit' = [limit EXCEPT !.failed = n, !.block = IF Backoff(n) > 0 THEN Backoff(n) ELSE @, !.seen = Unlocked]
  /\ late' = IF limit.block > 0 THEN late + 1 ELSE 0
  /\ Emit(<<LockEvent(Unlocked)>>)
  /\ UNCHANGED <<store, lease, bundleVars, mode, counters, dirty, down>>

\* bootstrap, and the keystore step of the welcome pages where there is none.
Bootstrap ==
  /\ CanUseSession /\ ~store /\ ~down
  /\ store' = TRUE
  /\ SetUnlocked
  /\ UNCHANGED <<unlock, bundleVars, mode, counters, dirty, down>>

\* set_keystore_locked
Lock ==
  /\ CanUseSession /\ ~down /\ Unlocked
  /\ lease' = 0
  /\ limit' = [limit EXCEPT !.seen = FALSE]
  /\ Emit(<<LockEvent(FALSE)>>)
  /\ UNCHANGED <<store, unlock, late, bundleVars, mode, counters, dirty, down>>

\* keystore_status, whenever a page is rendered: tells that the lease ran out.
Observe ==
  /\ CanUseSession /\ ~down /\ limit.seen # Unlocked
  /\ limit' = [limit EXCEPT !.seen = Unlocked]
  /\ IF limit.seen THEN Emit(<<LockEvent(FALSE)>>) ELSE UNCHANGED <<ring, tab>>
  /\ UNCHANGED <<store, lease, unlock, late, bundleVars, mode, counters, dirty, down>>

\* The command line unlocks or locks beside the server (module Keystore).
Elsewhere ==
  /\ CanUseSession /\ store /\ ~down
  /\ lease' \in {0, LeaseTime} \ {lease}
  /\ UNCHANGED <<store, limit, unlock, late, bundleVars, busVars>>

\* Time passes for the lease and the block.
Cooled ==
  /\ lease' = Less(lease)
  /\ limit' = [limit EXCEPT !.block = Less(@)]
  /\ late' = IF limit.block <= 1 THEN 0 ELSE late

(* ------------------------------- properties ------------------------------- *)
Trying == Cardinality({u \in Unlockers : unlock[u] = "try"})

\* Guessing is slowed down although a failure is only counted after the
\* password was tried: while the keystore is blocked no more passwords are
\* tried than there were requests let in together with the one that began the
\* block, and a block is never longer than the failures in a row account for.
TriesLimited ==
  /\ limit.block > 0 => late + Trying < Cardinality(Unlockers)
  /\ limit.block <= Backoff(limit.failed)
===============================================================================
