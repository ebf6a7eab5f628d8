----------------------------- MODULE IslandFeed -----------------------------
(***************************************************************************)
(* What the live feed promises, without connections: events are logged in  *)
(* order, and a page shows some of them.  An event is shown at most once,  *)
(* after every older event that is shown, in all of its lists in the same  *)
(* step or in none; a list keeps the newest Limit entries.  Events may be  *)
(* missed: the island has no replay.                                       *)
(***************************************************************************)
EXTENDS Naturals, Sequences

CONSTANTS
  Lists,    \* the lists a page shows
  Main,     \* the list every event belongs to
  Limit     \* entries a list keeps

VARIABLES
  log,      \* sequence of events, an event being the set of its lists
  shown     \* list -> numbers of the events in it, newest first

feedVars == <<log, shown>>

Newest(s) == IF s = <<>> THEN 0 ELSE Head(s)
Pushed(n, s) == SubSeq(<<n>> \o s, 1, IF Len(s) < Limit THEN Len(s) + 1 ELSE Limit)

Post ==
  /\ \E lists \in SUBSET Lists : Main \in lists /\ log' = Append(log, lists)
  /\ UNCHANGED shown

Show ==
  /\ \E n \in DOMAIN log :
       /\ n > Newest(shown[Main])
       /\ shown' = [l \in Lists |-> IF l \in log[n] THEN Pushed(n, shown[l])
                                                    ELSE shown[l]]
  /\ UNCHANGED log

FeedInit == log = <<>> /\ shown = [l \in Lists |-> <<>>]

FeedSpec == FeedInit /\ [][Post \/ Show]_feedVars
=============================================================================
