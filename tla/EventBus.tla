------------------------------- MODULE EventBus -------------------------------
(* The event stream of the web interface (server/mod.rs, server/stats.rs): one *)
(* broadcast channel of Ring events that every open tab reads at its own pace, *)
(* filtered by owner when an identity provider is configured, and the counters *)
(* that a background task publishes on it.                                     *)
(*                                                                             *)
(* An event is [kind, owner, about]: "stats" with the counters, "ready" and    *)
(* "error" with a download token, "keystore" with the state of the lock.       *)
EXTENDS Naturals, Sequences

CONSTANTS
  Tabs, TabOwner,   \* browser tabs, and who is signed in to each
  Ring,             \* the capacity of the broadcast channel
  None

ASSUME RingAssumption == Ring \in Nat \ {0}

\* Whom an event can belong to.
Users == {"local", "nobody"} \cup {TabOwner[t] : t \in Tabs}

VARIABLES
  mode,     \* "user", or "service" behind an identity provider
  ring,     \* the last events, at most Ring
  tab,      \* the stream of each tab, and what the page shows
  counters, \* ServerStats, as the number of their changes
  dirty,    \* the watch channel of the counters has an unseen change
  down      \* shutdown was sent

busVars == <<mode, ring, tab, counters, dirty, down>>

Owner(t) == IF mode = "user" THEN "local" ELSE TabOwner[t]

\* unread events of the ring; missed: some were overwritten before they were
\* read; gap: the counters changed between the snapshot and the subscription.
Closed(x) == [x EXCEPT !.stream = "off", !.unread = 0, !.copy = 0]
BusInit ==
  /\ mode \in {"user", "service"}
  /\ ring = <<>> /\ counters = 0 /\ dirty = FALSE /\ down = FALSE
  /\ tab = [t \in Tabs |-> [stream |-> "off", copy |-> 0, unread |-> 0, missed |-> FALSE, gap |-> FALSE,
                           shown |-> 0, pending |-> None, answer |-> "none"]]

Last(s, n) == IF Len(s) <= n THEN s ELSE SubSeq(s, Len(s) - n + 1, Len(s))
Capped(n) == IF n > Ring THEN Ring ELSE n

\* What some subscriber has yet to read is kept.
Unread(s, x) ==
  Last(s, CHOOSE n \in {0} \cup {x[t].unread : t \in Tabs} : \A t \in Tabs : x[t].unread <= n)

\* publish_event: to every subscriber; without one the event is dropped.
Emit(es) ==
  /\ tab' = [t \in Tabs |-> IF tab[t].stream # "on" THEN tab[t]
               ELSE [tab[t] EXCEPT !.unread = Capped(@ + Len(es)), !.missed = @ \/ tab[t].unread + Len(es) > Ring]]
  /\ ring' = Unread(ring \o es, tab')

Event(kind, owner, about) == [kind |-> kind, owner |-> owner, about |-> about]

\* event_visible_to_user; without a provider every event is delivered.
Visible(e, t) == mode = "user" \/ e.owner = TabOwner[t] \/ e.kind = "stats"

\* notify_stats_changed
CountStep == counters' = counters + 1 /\ dirty' = TRUE

(* ------------------------------- streams ---------------------------------- *)
\* events: the snapshot is read first,
OpenStream(t) ==
  /\ ~down /\ tab[t].stream = "off"
  /\ tab' = [tab EXCEPT ![t].stream = "opening", ![t].copy = counters]
  /\ UNCHANGED <<mode, ring, counters, dirty, down>>

\* then the channel is subscribed to and the snapshot sent.
Subscribe(t) ==
  /\ tab[t].stream = "opening"
  /\ tab' = [tab EXCEPT ![t] = [@ EXCEPT !.stream = "on", !.shown = tab[t].copy, !.copy = 0, !.missed = FALSE,
                                 !.gap = tab[t].copy # counters /\ ~dirty]]
  /\ UNCHANGED <<mode, ring, counters, dirty, down>>

\* A tab that loses focus closes its stream.
Blur(t) ==
  /\ tab[t].stream = "on"
  /\ tab' = [tab EXCEPT ![t] = Closed(@)]
  /\ ring' = Unread(ring, tab')
  /\ UNCHANGED <<mode, counters, dirty, down>>

NextEvent(t) == ring[Len(ring) - tab[t].unread + 1]
Shown(x, e) == IF e.kind = "stats" THEN [x EXCEPT !.shown = e.about] ELSE x

\* Mutant: the counters are not of the class everybody sees.
PublishStatsOwned ==
  /\ ~down /\ dirty
  /\ dirty' = FALSE
  /\ Emit(<<Event("count", "nobody", counters)>>)
  /\ UNCHANGED <<mode, counters, down>>

\* run_stats_events_loop: changes that come together are told once.
PublishStats ==
  /\ ~down /\ dirty
  /\ dirty' = FALSE
  /\ Emit(<<Event("stats", "nobody", counters)>>)
  /\ UNCHANGED <<mode, counters, down>>

Shutdown ==
  /\ ~down
  /\ down' = TRUE
  /\ UNCHANGED <<mode, ring, tab, counters, dirty>>

\* Mutant: the stream only looks at the flag when an event wakes it.
EndStreamIdle(t) ==
  /\ down /\ tab[t].stream # "off" /\ tab[t].unread > 0
  /\ tab' = [tab EXCEPT ![t] = Closed(@)]
  /\ ring' = Unread(ring, tab')
  /\ UNCHANGED <<mode, counters, dirty, down>>

\* broadcast_receiver_stream ends when shutdown changes.
EndStream(t) ==
  /\ down /\ tab[t].stream # "off"
  /\ tab' = [tab EXCEPT ![t] = Closed(@)]
  /\ ring' = Unread(ring, tab')
  /\ UNCHANGED <<mode, counters, dirty, down>>

(* ------------------------------- properties ------------------------------- *)
Attached(t) == tab[t].stream = "on" /\ ~tab[t].missed /\ ~tab[t].gap

\* The counters a page shows catch up with the server: for every tab that
\* stays attached, has not fallen a whole ring behind, and whose snapshot was
\* not overtaken while it subscribed. When the server shuts down every stream
\* ends.
StatsReach == \A t \in Tabs :
  /\ Attached(t) ~> (tab[t].shown = counters \/ ~Attached(t))
  /\ down ~> tab[t].stream = "off"
===============================================================================
