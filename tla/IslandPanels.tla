---------------------------- MODULE IslandPanels -----------------------------
(***************************************************************************)
(* All zone panels of one browser tab over one query cache, and what the   *)
(* tab may get wrong about the services: sessions change and panels close  *)
(* while requests are under way, answers overtake each other or are lost.  *)
(***************************************************************************)
EXTENDS BeachPanel, CrabPanel, ParrotPanel

CONSTANT Pasts    \* how guests left the services: "new", "landed" or "roomed"

ASSUME PanelsAssumption ==
  /\ IsFiniteSet(Guests)
  /\ Nobody \notin Guests \cup {Admin}
  /\ MaxTurns \in Nat

Panels == {"airport", "hotel", "beach", "crab", "parrot"}

services == <<arrivals, reservations, beachVars, stock, conversation>>
panelsVars == <<appVars, services, failedTurn>>

AllOps == {"board", "reserve", "cancel", "book", "unbook", "add", "remove", "order", "chat"}

(* The queries a mutation's success makes the client look at again. *)
Touches(p) ==
  CASE p.op = "board" -> {ArrivalKey(p.guest)}
    [] p.op \in {"reserve", "cancel"} -> {ReservationKey(p.guest)}
    [] p.op \in {"book", "unbook"} -> {ActivitiesKey, BookedKey(p.guest)}
    [] p.op \in {"add", "remove"} -> {ActivitiesKey}
    [] p.op = "order" -> {MenuKey}
    [] p.op = "chat" -> {HistoryKey(p.guest)}

PageStep ==
  /\ \/ \E w \in Guests \cup {Admin} : EnterMap(w)
     \/ \E z \in Panels : OpenPanel(z)
     \/ SwitchSession(AllOps)
     \/ ClosePanel(AllOps)
  /\ failedTurn' = <<>>
  /\ UNCHANGED services

NetworkStep ==
  /\ \/ \E k \in Keys : Refetch(k) \/ FetchFails(k) \/ Settle(k)
     \/ \E p \in posts : \/ PostFails(p) \/ AnswerLost(p, Touches(p))
                         \/ p.op # "chat" /\ OnMutationError(p)
  /\ UNCHANGED <<services, failedTurn>>

(* The services remember guests of earlier visits, with or without a room; *)
(* the parrots, which keep conversations in memory, start without any.     *)
PanelsInit ==
  /\ AppInit
  /\ \E past \in Pasts :
       LET roomed == SetToSeq({g \in Guests : past[g] = "roomed"}) IN
         /\ arrivals = [g \in Guests |-> IF past[g] = "new" THEN <<>> ELSE <<"processed">>]
         /\ reservations = [i \in DOMAIN roomed |-> [guest |-> roomed[i], status |-> "confirmed"]]
  /\ conversation = [i \in Parrots |-> [g \in Guests |-> <<>>]]
  /\ failedTurn = <<>>
  /\ stock = DailyStock
  /\ offered = Activities
  /\ visitors = {reservations[i].guest : i \in DOMAIN reservations}
  /\ bookings = [g \in Guests |-> <<>>]

PanelsNext ==
  \/ PageStep
  \/ NetworkStep
  \/ AirportStep /\ UNCHANGED <<reservations, beachVars, stock, conversation, failedTurn>>
  \/ HotelStep /\ UNCHANGED <<arrivals, beachVars, stock, conversation, failedTurn>>
  \/ BeachStep /\ UNCHANGED <<arrivals, reservations, stock, conversation, failedTurn>>
  \/ CrabStep /\ UNCHANGED <<arrivals, reservations, beachVars, conversation, failedTurn>>
  \/ ParrotStep /\ UNCHANGED <<arrivals, reservations, beachVars, stock>>

PanelsSpec == PanelsInit /\ [][PanelsNext]_panelsVars

-----------------------------------------------------------------------------
(* A reservation the tab remembers for a guest is that guest's, and it is  *)
(* still confirmed unless a cancellation of it is under way, overtook the  *)
(* answer to its booking, or had its own answer lost                       *)
(* (use-active-reservation.ts, use-reservation-form.ts).                   *)
CardTruthful ==
  \A g \in Guests : \A i \in DOMAIN reservations :
    Reservation(g) = <<i>> =>
      /\ reservations[i].guest = g
      /\ \/ reservations[i].status = "confirmed"
         \/ \E p \in posts : p.op = "cancel" /\ p.arg = i
         \/ q[ReservationKey(g)].missed

(* What is on screen of the beach and of the menu is what the services     *)
(* hold as soon as nothing is under way, after any order of answers, save  *)
(* that an answer was lost, that the screen joined a load older than a     *)
(* change, or that a booking went with its activity and nothing has        *)
(* fetched it since (use-book-activity.ts, use-manage-activities.ts,       *)
(* use-place-order.ts).                                                    *)
Truth(k) ==
  CASE k[1] = "booked" -> bookings[k[2]]
    [] k[1] = "activities" -> Overview
    [] k[1] = "menu" -> Menu
SettledTruth ==
  \A k \in Keys :
    /\ k[1] \in {"booked", "activities", "menu"}
    /\ Observed(k)
    /\ q[k].flight = "idle" /\ q[k].status = "success" /\ ~q[k].missed
    /\ ~\E p \in posts : p.phase = "ok" /\ k \in Touches(p)
    => q[k].data = <<Truth(k)>>

(* The thread a tab shows has every turn once, and of the turns that an    *)
(* instance keeps it has all that the instance it was loaded from had and  *)
(* all that were asked since, in that instance's order and under the same  *)
(* mask, unless a fetch or another reply crossed a reply, or an answer was *)
(* lost (use-parrot-chat.ts, history.py, pool.go).  What another instance  *)
(* was told before the load is not among them.                             *)
Waiting(g) ==
  {p.n : p \in {r \in posts : r.op = "chat" /\ r.guest = g /\ r.phase = "ok"}}
Due(g, i, thread) ==
  {t \in ToSet(conversation[i][g]) : /\ t[1] \notin Waiting(g)
                                     /\ i = thread.from \/ t[1] > thread.since}
TrueTo(g, thread) ==
  /\ \A a, b \in DOMAIN thread.turns : thread.turns[a][1] = thread.turns[b][1] => a = b
  /\ \A i \in Parrots : \A t \in Due(g, i, thread) :
       /\ \E u \in ToSet(thread.turns) : u[1] = t[1] /\ Mask(u[2]) = t[2]
       /\ \A u \in Due(g, i, thread) :
            Before(conversation[i][g], t[1], u[1]) => Before(thread.turns, t[1], u[1])
ChatTruthful ==
  \A g \in Guests :
    LET entry == q[HistoryKey(g)] IN
      \/ entry.data = <<>>
      \/ entry.missed
      \/ TrueTo(g, entry.data[1])

=============================================================================
