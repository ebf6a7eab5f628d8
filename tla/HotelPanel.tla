----------------------------- MODULE HotelPanel ------------------------------
(***************************************************************************)
(* The hotel panel: the reservation form or the card of the active         *)
(* reservation.  The service keeps every reservation; its identifier is    *)
(* its place in the sequence.                                              *)
(***************************************************************************)
EXTENDS AirportPanel

VARIABLE reservations    \* service: sequence of [guest, status]

ReservationKey(g) == <<"reservation", g>>

(* What the panel shows of the guest's reservation: <<>> or <<id>>. *)
Reservation(g) == q[ReservationKey(g)].data

ShowsHotel ==
  /\ panel = "hotel"
  /\ Landed
  /\ ~Loading(q[ReservationKey(who)])

(* A form the schema accepts; room type, dates and party are left out. *)
SubmitReservation ==
  /\ ShowsHotel
  /\ Reservation(who) = <<>>
  /\ ~IsPending({"reserve"})
  /\ Mutate("reserve", who, 0)
  /\ UNCHANGED reservations

CancelReservation ==
  /\ ShowsHotel
  /\ Reservation(who) # <<>>
  /\ ~IsPending({"cancel"})
  /\ Mutate("cancel", who, Reservation(who)[1])
  /\ UNCHANGED reservations

(* The callback runs with the guest of the render that sent the request.   *)
(* Mutant: it stores the answer for whoever is on the map.                 *)
OnReservedMutant(p) ==
  LET g == IF who \in Guests THEN who ELSE p.guest
  IN  /\ p.op = "reserve"
      /\ OnSuccess(p, [q EXCEPT ![ReservationKey(g)] = Stored(@, p.result)])
      /\ UNCHANGED reservations

(* A fetch may have shown the reservation, and the guest cancelled it,     *)
(* before this answer arrives: it then brings the card back.               *)
OnReserved(p) ==
  LET key == ReservationKey(p.guest)
      cancelled == reservations[p.result].status = "cancelled"
  IN  /\ p.op = "reserve"
      /\ OnSuccess(p, [q EXCEPT ![key] = [Stored(@, p.result) EXCEPT !.missed = cancelled]])
      /\ UNCHANGED reservations

(* The entry is removed, its fetch with it.  Nobody is told: only the      *)
(* panel that sent the request, if it is still mounted, renders and so     *)
(* fetches anew, any other observer when it renders next (Refetch).        *)
OnCancelled(p) ==
  /\ p.op = "cancel"
  /\ OnSuccess(p, [q EXCEPT ![ReservationKey(p.guest)] =
                                IF p.shown THEN Begin(Fresh) ELSE Fresh])
  /\ UNCHANGED reservations

-----------------------------------------------------------------------------
(* The hotel service: a guest that has not cleared the airport is refused, *)
(* and so is anybody when no room is left.                                 *)
PostReservation(p) ==
  /\ p.op = "reserve"
  /\ p.phase = "sent"
  /\ \/ /\ arrivals[p.guest] # <<>> /\ Latest(p.guest) = "processed"
        /\ reservations' = Append(reservations, [guest |-> p.guest, status |-> "confirmed"])
        /\ Replied(p, "ok", Len(reservations) + 1)
     \/ /\ Replied(p, "error", 0)
        /\ UNCHANGED reservations
  /\ UNCHANGED <<q, page, counters>>

DeleteReservation(p) ==
  /\ p.op = "cancel"
  /\ p.phase = "sent"
  /\ reservations' = [reservations EXCEPT ![p.arg].status = "cancelled"]
  /\ Replied(p, "ok", p.arg)
  /\ UNCHANGED <<q, page, counters>>

Confirmed(g) ==
  {i \in DOMAIN reservations : reservations[i] = [guest |-> g, status |-> "confirmed"]}

GetReservation(g) ==
  /\ \/ \E i \in Confirmed(g) : Answer(ReservationKey(g), <<i>>)
     \/ Confirmed(g) = {} /\ Answer(ReservationKey(g), <<>>)
  /\ UNCHANGED reservations

HotelStep ==
  \/ SubmitReservation
  \/ CancelReservation
  \/ \E p \in posts : OnReserved(p) \/ OnCancelled(p) \/ PostReservation(p) \/ DeleteReservation(p)
  \/ \E g \in Guests : GetReservation(g)
=============================================================================
