--------------------------- MODULE TrafficGenerator ---------------------------
(***************************************************************************)
(* The frontend's traffic generator: on every visit of the map page a few  *)
(* loops wake up by timers, each drives one random synthetic guest by one  *)
(* step of its itinerary.  A step reads the guest's state when it starts,  *)
(* waits for its requests and writes a new state at the end; nothing keeps *)
(* two loops from driving the same guest.  Gates and activities, of which  *)
(* nothing depends, are left out of the state.                             *)
(***************************************************************************)
EXTENDS Naturals, Sequences, FiniteSets

CONSTANTS
  Loops,           \* CONCURRENT_GUESTS of them
  SyntheticGuests, \* the list of guests the loops pick from
  SeedStage,       \* guest -> STAGES[i % 4] of its place in the list
  MaxReservations, MaxMounts, MaxFaults,    \* bounds
  MaxSteps         \* bound on steps under way, of all visits

ASSUME TrafficAssumption ==
  /\ SeedStage \in [SyntheticGuests -> {"new", "arrived", "hotel_booked", "beach_booked"}]
  /\ {MaxReservations, MaxMounts, MaxFaults, MaxSteps} \subseteq Nat

VARIABLES
  states,          \* guestStatesRef: guest -> [stage, res]; 0 is the empty id
  mount,           \* visits of the map page so far
  running,         \* runningRef
  steps,           \* steps under way
  cooling,         \* askParrot was sent less than a cooldown ago
  arrival,         \* airport: guest -> status of its latest arrival
  reservations,    \* hotel: sequence of [guest, status, mount]
  visitors,        \* beach: checked-in guests
  booked,          \* beach: guests with an activity
  faults,
  overlapped,      \* ghost: guests two steps of one visit have driven at a time
  dropped          \* ghost: guests whose reservation a failure lost sight of

generator == <<states, mount, running, steps, cooling>>
services == <<arrival, reservations, visitors, booked>>
ghosts == <<overlapped, dropped>>
trafficVars == <<generator, services, faults, ghosts>>

-----------------------------------------------------------------------------
(* machine.ts: seedState turns the last stage into the one before it. *)
SeedState(stage) ==
  [stage |-> IF stage = "beach_booked" THEN "hotel_booked" ELSE stage, res |-> 0]

CreateInitialState == [g \in SyntheticGuests |-> SeedState(SeedStage[g])]

Mount ==
  /\ ~running
  /\ mount < MaxMounts
  /\ running' = TRUE
  /\ mount' = mount + 1
  /\ states' = CreateInitialState
  /\ overlapped' = {}
  /\ UNCHANGED <<steps, cooling, services, faults, dropped>>

(* Timers are cleared; steps under way go on, with the state they had. *)
Unmount ==
  /\ running
  /\ running' = FALSE
  /\ UNCHANGED <<states, mount, steps, cooling, services, faults, ghosts>>

(* The first request of each handler. *)
FirstRequests(stage) ==
  CASE stage = "new" -> {"arrive"}
    [] stage = "arrived" -> {"reserve"}
    [] stage = "hotel_booked" -> {"activities"}
    [] stage = "beach_booked" -> {"leave", "unbook"}

(* A timer fires and runGuestStep picks a guest. *)
RunGuestStep(l, g) ==
  /\ running
  /\ ~\E s \in steps : s.loop = l /\ s.mount = mount
  /\ Cardinality(steps) < MaxSteps
  /\ \E request \in FirstRequests(states[g].stage) :
       steps' = steps \cup {[loop |-> l, mount |-> mount, guest |-> g, was |-> states[g],
                             at |-> request, ok |-> FALSE, id |-> 0]}
  /\ overlapped' = IF \E s \in steps : s.guest = g /\ s.mount = mount
                   THEN overlapped \cup {g} ELSE overlapped
  /\ UNCHANGED <<states, mount, running, cooling, services, faults, dropped>>

(* Of any stage but new, the step may be a question to the parrot, which   *)
(* changes nothing but the cooldown all visits share.                      *)
AskParrot(g) ==
  /\ running
  /\ states[g].stage # "new"
  /\ ~cooling
  /\ cooling' = TRUE
  /\ UNCHANGED <<states, mount, running, steps, services, faults, ghosts>>

CooledDown ==
  /\ cooling
  /\ cooling' = FALSE
  /\ UNCHANGED <<states, mount, running, steps, services, faults, ghosts>>

-----------------------------------------------------------------------------
(* How a step goes on, and how it ends: the state is written to the states *)
(* of the visit that started it.                                           *)
GoOn(s, at, ok, id) ==
  steps' = (steps \ {s}) \cup {[s EXCEPT !.at = at, !.ok = ok, !.id = id]}

Finish(s, next) ==
  /\ steps' = steps \ {s}
  /\ states' = IF s.mount = mount THEN [states EXCEPT ![s.guest] = next] ELSE states
  /\ UNCHANGED <<mount, running, cooling, services, faults, ghosts>>

GiveUp(s) ==
  /\ steps' = steps \ {s}
  /\ UNCHANGED <<states, mount, running, cooling, services, faults, ghosts>>

Fault == faults < MaxFaults /\ faults' = faults + 1

Rest == <<states, mount, running, cooling, overlapped>>

-----------------------------------------------------------------------------
(* actions.ts against the services.  arrive: a POST may fail before or     *)
(* after it is executed.                                                   *)
PostArrival(s) ==
  /\ s.at = "arrive"
  /\ \/ /\ arrival' = [arrival EXCEPT ![s.guest] = "queued"]
        /\ \/ GoOn(s, "arrived", TRUE, 0) /\ UNCHANGED faults
           \/ GoOn(s, "arrived", FALSE, 0) /\ Fault
     \/ /\ GoOn(s, "arrived", FALSE, 0) /\ Fault
        /\ UNCHANGED arrival
  /\ UNCHANGED <<Rest, reservations, visitors, booked, dropped>>

Arrived(s) ==
  /\ s.at = "arrived"
  /\ IF s.ok THEN Finish(s, [stage |-> "arrived", res |-> 0]) ELSE GiveUp(s)

(* bookHotel: any failure is answered by asking for the guest's            *)
(* reservation.  Mutant: the step gives up at once.                        *)
PostReservationFailsMutant(s) == GoOn(s, "reserved", FALSE, 0)
PostReservationFails(s) == GoOn(s, "recover", FALSE, 0)

PostReservation(s) ==
  /\ s.at = "reserve"
  /\ \/ /\ arrival[s.guest] = "processed"
        /\ Len(reservations) < MaxReservations
        /\ reservations' = Append(reservations, [guest |-> s.guest, status |-> "confirmed",
                                                 mount |-> s.mount])
        /\ \/ GoOn(s, "reserved", TRUE, Len(reservations) + 1) /\ UNCHANGED faults
           \/ PostReservationFails(s) /\ Fault
     \/ /\ PostReservationFails(s)
        /\ UNCHANGED <<reservations, faults>>
  /\ UNCHANGED <<Rest, arrival, visitors, booked, dropped>>

Confirmed(g) ==
  {i \in DOMAIN reservations : reservations[i].guest = g /\ reservations[i].status = "confirmed"}

GetReservation(s) ==
  /\ s.at = "recover"
  /\ \/ /\ \E i \in Confirmed(s.guest) : GoOn(s, "reserved", TRUE, i)
        /\ dropped' = IF Cardinality(Confirmed(s.guest)) > 1 THEN dropped \cup {s.guest}
                                                             ELSE dropped
        /\ UNCHANGED faults
     \/ /\ Confirmed(s.guest) = {}
        /\ GoOn(s, "reserved", FALSE, 0)
        /\ UNCHANGED <<faults, dropped>>
     \/ /\ GoOn(s, "reserved", FALSE, 0)
        /\ Fault
        /\ dropped' = dropped \cup {s.guest}
  /\ UNCHANGED <<Rest, services>>

Reserved(s) ==
  /\ s.at = "reserved"
  /\ IF s.ok THEN Finish(s, [stage |-> "hotel_booked", res |-> s.id]) ELSE GiveUp(s)

(* bookRandomActivity: the list has nothing free, or the booking follows;  *)
(* any failure ends the step.  Mutant: the booking's failure is not seen.  *)
BookingFailsMutant(s) == GoOn(s, "booked", TRUE, 0)
BookingFails(s) == GoOn(s, "booked", FALSE, 0)

GetActivities(s) ==
  /\ s.at = "activities"
  /\ GoOn(s, "book", FALSE, 0) \/ GoOn(s, "booked", FALSE, 0)
  /\ UNCHANGED <<Rest, services, faults, dropped>>

PostBooking(s) ==
  /\ s.at = "book"
  /\ \/ /\ s.guest \in visitors \ booked
        /\ booked' = booked \cup {s.guest}
        /\ \/ GoOn(s, "booked", TRUE, 0) /\ UNCHANGED faults
           \/ BookingFails(s) /\ Fault
     \/ /\ BookingFails(s)
        /\ UNCHANGED <<booked, faults>>
  /\ UNCHANGED <<Rest, arrival, reservations, visitors, dropped>>

ActivityBooked(s) ==
  /\ s.at = "booked"
  /\ IF s.ok THEN Finish(s, [s.was EXCEPT !.stage = "beach_booked"]) ELSE GiveUp(s)

(* cancelBeachActivity, alone or before cancelHotelReservation: failures   *)
(* are ignored.                                                            *)
PostUnbook(s) ==
  /\ s.at \in {"unbook", "leave"}
  /\ \/ booked' = booked \ {s.guest} /\ UNCHANGED faults
     \/ Fault /\ UNCHANGED booked
  /\ GoOn(s, IF s.at = "leave" THEN "cancel" ELSE "unbooked", TRUE, 0)
  /\ UNCHANGED <<Rest, arrival, reservations, visitors, dropped>>

Unbooked(s) ==
  /\ s.at = "unbooked"
  /\ Finish(s, [s.was EXCEPT !.stage = "hotel_booked"])

DeleteReservation(s) ==
  /\ s.at = "cancel"
  /\ \/ /\ s.was.res \in DOMAIN reservations
        /\ reservations' = [reservations EXCEPT ![s.was.res].status = "cancelled"]
        /\ UNCHANGED <<faults, dropped>>
     \/ /\ Fault
        /\ dropped' = dropped \cup {s.guest}
        /\ UNCHANGED reservations
  /\ GoOn(s, "left", TRUE, 0)
  /\ UNCHANGED <<Rest, arrival, visitors, booked>>

Left(s) ==
  /\ s.at = "left"
  /\ Finish(s, [stage |-> "new", res |-> 0])

-----------------------------------------------------------------------------
(* Passport control, and the hotel's event to the beach. *)
Process(g) ==
  /\ arrival[g] = "queued"
  /\ arrival' = [arrival EXCEPT ![g] = "processed"]
  /\ UNCHANGED <<generator, reservations, visitors, booked, faults, ghosts>>

CheckIn(g) ==
  /\ g \notin visitors
  /\ \E i \in DOMAIN reservations : reservations[i].guest = g
  /\ visitors' = visitors \cup {g}
  /\ UNCHANGED <<generator, arrival, reservations, booked, faults, ghosts>>

TrafficInit ==
  /\ states = CreateInitialState
  /\ mount = 0
  /\ running = FALSE
  /\ steps = {}
  /\ cooling = FALSE
  /\ arrival = [g \in SyntheticGuests |-> "none"]
  /\ reservations = <<>>
  /\ visitors = {}
  /\ booked = {}
  /\ faults = 0
  /\ overlapped = {}
  /\ dropped = {}

Continue(s) ==
  \/ PostArrival(s) \/ Arrived(s)
  \/ PostReservation(s) \/ GetReservation(s) \/ Reserved(s)
  \/ GetActivities(s) \/ PostBooking(s) \/ ActivityBooked(s)
  \/ PostUnbook(s) \/ Unbooked(s) \/ DeleteReservation(s) \/ Left(s)

TrafficNext ==
  \/ Mount
  \/ Unmount
  \/ \E l \in Loops, g \in SyntheticGuests : RunGuestStep(l, g)
  \/ \E g \in SyntheticGuests : AskParrot(g) \/ Process(g) \/ CheckIn(g)
  \/ CooledDown
  \/ \E s \in steps : Continue(s)

TrafficSpec == TrafficInit /\ [][TrafficNext]_trafficVars

-----------------------------------------------------------------------------
(* A guest on the beach holds a reservation the hotel knows, so that       *)
(* leaving it never sends the empty identifier of a seeded guest           *)
(* (machine.ts, seedState).                                                *)
BeachGuestsHaveRooms ==
  \A g \in SyntheticGuests : states[g].stage = "beach_booked" =>
    states[g].res \in DOMAIN reservations /\ reservations[states[g].res].guest = g

(* Between its steps, the generator knows every confirmed reservation it   *)
(* made for a guest on this visit, so that it can cancel it, unless two    *)
(* steps drove the guest at a time, a later request failed too, or asking  *)
(* again found one of an earlier visit; a lost answer to the booking alone *)
(* is made up for by asking again (actions.ts, bookHotel).                 *)
NothingLeaks ==
  \A g \in SyntheticGuests :
    \/ g \in overlapped \cup dropped
    \/ \E s \in steps : s.guest = g
    \/ {i \in Confirmed(g) : reservations[i].mount = mount} \subseteq {states[g].res}
=============================================================================
