------------------------- MODULE HotelReservations -------------------------
(***************************************************************************)
(* The hotel's reservations (services/hotel).  POST and DELETE requests    *)
(* share the reservation table without a transaction: between the awaits   *)
(* of one request the steps of every other one may run.  One action is     *)
(* what a request does up to its next await, the answer of that included.  *)
(*                                                                         *)
(* A request r of Requests is one POST /reservation and the row it may     *)
(* insert.  Rooms are numbers: ordering by id is the order of numbers.     *)
(***************************************************************************)
EXTENDS Integers, Sequences, FiniteSets

CONSTANTS
  Requests,    \* the POST /reservation requests
  Cancels,     \* the DELETE /reservation requests
  Rooms,       \* the seeded rooms
  RoomType,    \* RoomType[m]: type of room m
  Capacity,    \* Capacity[m]: its capacity
  Stays,       \* the bodies a request may carry, see StayRecord
  NoStay, NoRoom, NoRequest

\* A CreateReservationDto that passed validation; party is empty when omitted.
StayRecord ==
  [type : {RoomType[m] : m \in Rooms}, guest_count : Nat \ {0},
   party : Seq(STRING), in : Int, out : Int]

ASSUME HotelAssumption ==
  /\ Rooms \subseteq Nat /\ IsFiniteSet(Rooms)
  /\ RoomType \in [Rooms -> STRING] /\ Capacity \in [Rooms -> Nat \ {0}]
  /\ Stays \subseteq StayRecord
  /\ NoStay \notin Stays /\ NoRoom \notin Rooms /\ NoRequest \notin Requests

VARIABLES
  pc,         \* progress of a POST
  dto,        \* its body
  todo,       \* the rooms its loop has not counted yet
  room,       \* availableRoom, and then the row's room_id
  status,     \* the row's status, "none" before it exists
  cpc, cid,   \* DELETE requests: progress and reservation id
  events,     \* the events Broadcast received, in order
  counted     \* history: rows CONFIRMED when the request found its room free

postVars   == <<pc, dto, todo, room, counted>>
cancelVars == <<cpc, cid>>
vars == <<postVars, cancelVars, status, events>>

PostPc == {"new", "airport", "rooms", "count", "create", "publish", "done",
           "refused"}
CancelPc == {"new", "update", "publish", "done"}
EventTypes == {"reservation_confirmed", "reservation_cancelled"}

TypeOK ==
  /\ pc \in [Requests -> PostPc]
  /\ dto \in [Requests -> Stays \cup {NoStay}]
  /\ todo \in [Requests -> SUBSET Rooms]
  /\ room \in [Requests -> Rooms \cup {NoRoom}]
  /\ status \in [Requests -> {"none", "CONFIRMED", "CANCELLED"}]
  /\ cpc \in [Cancels -> CancelPc]
  /\ cid \in [Cancels -> Requests \cup {NoRequest}]
  /\ events \in Seq(EventTypes \X Requests)
  /\ counted \in [Requests -> SUBSET Requests]
  /\ \A r \in Requests : status[r] # "none" => room[r] \in Rooms /\ dto[r] \in Stays

Init ==
  /\ pc = [r \in Requests |-> "new"]
  /\ dto = [r \in Requests |-> NoStay]
  /\ todo = [r \in Requests |-> {}]
  /\ room = [r \in Requests |-> NoRoom]
  /\ status = [r \in Requests |-> "none"]
  /\ cpc = [c \in Cancels |-> "new"]
  /\ cid = [c \in Cancels |-> NoRequest]
  /\ events = <<>>
  /\ counted = [r \in Requests |-> {}]
-----------------------------------------------------------------------------
(* ReservationService.create                                               *)

\* A party that is given counts; guest_count is the fallback.
PartySize(s) == IF s.party # <<>> THEN Len(s.party) ELSE s.guest_count

\* The where clause of the count: days are inclusive at both ends.
\* Mutant: only a reservation that spans the whole stay counts.
OverlapsMutant(s, t) == s.in <= t.in /\ s.out >= t.out
Overlaps(s, t) == s.in <= t.out /\ s.out >= t.in

\* The request comes in with a body; the dates are checked at once.
Create(r, s) ==
  /\ pc[r] = "new"
  /\ dto' = [dto EXCEPT ![r] = s]
  /\ pc' = [pc EXCEPT ![r] = IF s.out <= s.in THEN "refused" ELSE "airport"]
  /\ UNCHANGED <<todo, room, counted, cancelVars, status, events>>

\* rejectIfGuestHasNotClearedAirport: the airport says yes or no, or there is
\* no usable answer (null), which lets the guest through.
CheckAirport(r, answer) ==
  /\ pc[r] = "airport"
  /\ pc' = [pc EXCEPT ![r] = IF answer = "no" THEN "refused" ELSE "rooms"]
  /\ UNCHANGED <<dto, todo, room, counted, cancelVars, status, events>>

OfType(s) == {m \in Rooms : RoomType[m] = s.type}
Fitting(s) == {m \in OfType(s) : PartySize(s) <= Capacity[m]}

\* room.findMany and the capacity check.  Rooms that are too small are skipped
\* by the loop without a query.
FindRooms(r) ==
  /\ pc[r] = "rooms"
  /\ todo' = [todo EXCEPT ![r] = Fitting(dto[r])]
  /\ pc' = [pc EXCEPT ![r] = IF Fitting(dto[r]) = {} THEN "refused" ELSE "count"]
  /\ UNCHANGED <<dto, room, counted, cancelVars, status, events>>

Taken(m, s) ==
  \E q \in Requests : /\ status[q] = "CONFIRMED" /\ room[q] = m
                      /\ Overlaps(dto[q], s)

\* One round of the loop: the count for the next room by id.
CountFree(r, m) ==
  /\ pc[r] = "count" /\ m \in todo[r] /\ \A n \in todo[r] : m <= n
  /\ ~Taken(m, dto[r])
  /\ room' = [room EXCEPT ![r] = m]
  /\ pc' = [pc EXCEPT ![r] = "create"]
  /\ counted' = [counted EXCEPT ![r] = {q \in Requests : status[q] = "CONFIRMED"}]
  /\ UNCHANGED <<dto, todo, cancelVars, status, events>>

CountTaken(r, m) ==
  /\ pc[r] = "count" /\ m \in todo[r] /\ \A n \in todo[r] : m <= n
  /\ Taken(m, dto[r])
  /\ todo' = [todo EXCEPT ![r] = @ \ {m}]
  /\ pc' = [pc EXCEPT ![r] = IF todo[r] = {m} THEN "refused" ELSE @]
  /\ UNCHANGED <<dto, room, counted, cancelVars, status, events>>

\* reservation.create: the row and its party in one statement; a name that is
\* twice in the party violates the key of ReservationGuest and nothing is kept.
InsertRow(r) ==
  /\ pc[r] = "create"
  /\ \A i, j \in DOMAIN dto[r].party : dto[r].party[i] = dto[r].party[j] => i = j
  /\ status' = [status EXCEPT ![r] = "CONFIRMED"]
  /\ pc' = [pc EXCEPT ![r] = "publish"]
  /\ UNCHANGED <<dto, todo, room, counted, cancelVars, events>>

InsertFails(r) ==
  /\ pc[r] = "create"
  /\ \E i, j \in DOMAIN dto[r].party : i # j /\ dto[r].party[i] = dto[r].party[j]
  /\ pc' = [pc EXCEPT ![r] = "refused"]
  /\ UNCHANGED <<dto, todo, room, counted, cancelVars, status, events>>

\* publishHotelEvent: one attempt, a failure is only logged.
Publish(type, r, delivered) ==
  events' = IF delivered THEN Append(events, <<type, r>>) ELSE events

PublishConfirmed(r, delivered) ==
  /\ pc[r] = "publish"
  /\ Publish("reservation_confirmed", r, delivered)
  /\ pc' = [pc EXCEPT ![r] = "done"]
  /\ UNCHANGED <<dto, todo, room, counted, cancelVars, status>>
-----------------------------------------------------------------------------
(* ReservationService.cancel                                               *)

\* findFirst: an unknown or already cancelled reservation ends the request.
CancelFind(c, r) ==
  /\ cpc[c] = "new"
  /\ cid' = [cid EXCEPT ![c] = r]
  /\ cpc' = [cpc EXCEPT ![c] = IF status[r] = "CONFIRMED" THEN "update" ELSE "done"]
  /\ UNCHANGED <<postVars, status, events>>

\* Mutant: the event goes out before the update.
CancelUpdateMutant(c) ==
  /\ cpc[c] = "update"
  /\ Publish("reservation_cancelled", cid[c], TRUE)
  /\ cpc' = [cpc EXCEPT ![c] = "done"]
  /\ UNCHANGED <<postVars, status, cid>>
CancelUpdate(c) ==
  /\ cpc[c] = "update"
  /\ status' = [status EXCEPT ![cid[c]] = "CANCELLED"]
  /\ cpc' = [cpc EXCEPT ![c] = "publish"]
  /\ UNCHANGED <<postVars, cid, events>>

PublishCancelled(c, delivered) ==
  /\ cpc[c] = "publish"
  /\ Publish("reservation_cancelled", cid[c], delivered)
  /\ cpc' = [cpc EXCEPT ![c] = "done"]
  /\ UNCHANGED <<postVars, status, cid>>
-----------------------------------------------------------------------------
Post(r) ==
  \/ \E s \in Stays : Create(r, s)
  \/ \E answer \in {"yes", "no", "null"} : CheckAirport(r, answer)
  \/ FindRooms(r)
  \/ \E m \in Rooms : CountFree(r, m) \/ CountTaken(r, m)
  \/ InsertRow(r)
  \/ InsertFails(r)
  \/ \E delivered \in BOOLEAN : PublishConfirmed(r, delivered)

Cancel(c) ==
  \/ \E r \in Requests : CancelFind(c, r)
  \/ CancelUpdate(c)
  \/ \E delivered \in BOOLEAN : PublishCancelled(c, delivered)

Next == (\E r \in Requests : Post(r)) \/ (\E c \in Cancels : Cancel(c))

Spec == Init /\ [][Next]_vars
-----------------------------------------------------------------------------
SharesNight(s, t) == s.in < t.out /\ t.in < s.out

Clash(q, r) ==
  /\ q # r /\ status[q] = "CONFIRMED" /\ status[r] = "CONFIRMED"
  /\ room[q] = room[r] /\ SharesNight(dto[q], dto[r])

\* Two confirmed reservations of one room share a night only if each request
\* counted before the other one's row was inserted: a request never books over
\* a reservation that was there to be seen, whatever was cancelled since.
ClashOnlyWhenRaced ==
  \A q, r \in Requests : Clash(q, r) => q \notin counted[r] /\ r \notin counted[q]

\* Every confirmed reservation holds its party: the room the loop stopped at has
\* the requested type and a place for everybody named.
PartyFits ==
  \A r \in Requests : status[r] = "CONFIRMED" =>
    /\ RoomType[room[r]] = dto[r].type
    /\ (IF dto[r].party # <<>> THEN Len(dto[r].party) ELSE dto[r].guest_count)
         <= Capacity[room[r]]

\* Broadcast never hears of something the table does not hold: a confirmation
\* has its row, a cancellation a row that is cancelled.
EventsFollowTable ==
  \A i \in DOMAIN events :
    status[events[i][2]] \in IF events[i][1] = "reservation_cancelled"
                             THEN {"CANCELLED"} ELSE {"CONFIRMED", "CANCELLED"}
=============================================================================
