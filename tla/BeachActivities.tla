-------------------------- MODULE BeachActivities --------------------------
(***************************************************************************)
(* Activity bookings of the beach service (services/beach).                *)
(*                                                                         *)
(* A request reads an activity with its bookings, decides on that copy and *)
(* writes the copy back, each in a transaction of its own.  Transactions   *)
(* run at REPEATABLE READ and are retried on a conflict, so each of them   *)
(* is one step; between them other requests, the administrator and the     *)
(* listener for hotel events may run.                                      *)
(***************************************************************************)
EXTENDS Integers, FiniteSets

CONSTANTS
  Activities, Visitors,
  Requests,        \* the book and cancel requests
  Capacities,      \* the capacities an activity may be created with
  MaxAdmin,        \* bound on create and remove requests
  NoActivity, NoVisitor

ASSUME BeachAssumption ==
  /\ Capacities \subseteq Nat \ {0}
  /\ IsFiniteSet(Visitors)
  /\ NoActivity \notin Activities /\ NoVisitor \notin Visitors
  /\ MaxAdmin \in Nat

VARIABLES
  capacity, bookings,       \* activities and activity_bookings; capacity 0: no row
  checkedIn,                \* visitors with checked_in set
  kind, pc, act, vis,       \* a request: book or cancel, its progress, arguments
  copy, copyCap, wasFull,   \* the Activity object it read and changes
  heard,                    \* activity events Broadcast received
  connected,                \* whether the listener has its event stream
  admin,                    \* create and remove requests so far
  version, read,            \* history: writes of an activity, and as read
  stale,                    \* history: activities written from an outdated copy
  agreed,                   \* history: what the answers told the visitors
  hasty                     \* history: visitors with two bookings under way at once

tables  == <<capacity, bookings>>
reqVars == <<kind, pc, act, vis, copy, copyCap, wasFull, read>>
hotel   == <<checkedIn, connected>>
history == <<version, stale, agreed, hasty>>
vars == <<tables, reqVars, hotel, heard, admin, history>>

Pc == {"new", "visitor", "elsewhere", "save", "publish", "done"}

TypeOK ==
  /\ capacity \in [Activities -> Capacities \cup {0}]
  /\ bookings \in [Activities -> SUBSET Visitors]
  /\ checkedIn \subseteq Visitors
  /\ kind \in [Requests -> {"book", "cancel"}]
  /\ pc \in [Requests -> Pc]
  /\ act \in [Requests -> Activities \cup {NoActivity}]
  /\ vis \in [Requests -> Visitors \cup {NoVisitor}]
  /\ copy \in [Requests -> SUBSET Visitors]
  /\ copyCap \in [Requests -> Capacities \cup {0}]
  /\ wasFull \in [Requests -> BOOLEAN]
  /\ heard \subseteq {"full", "available"} \X Activities
  /\ connected \in BOOLEAN
  /\ admin \in 0..MaxAdmin
  /\ version \in [Activities -> Nat] /\ read \in [Requests -> Nat]
  /\ stale \subseteq Activities
  /\ agreed \in [Activities -> SUBSET Visitors] /\ hasty \subseteq Visitors
  /\ \A a \in Activities : capacity[a] = 0 => bookings[a] = {}

\* The seeded activities, nobody booked; the listener is connected.
Init ==
  /\ capacity \in [Activities -> Capacities]
  /\ bookings = [a \in Activities |-> {}]
  /\ checkedIn = {} /\ connected = TRUE
  /\ kind = [r \in Requests |-> "book"] /\ pc = [r \in Requests |-> "new"]
  /\ act = [r \in Requests |-> NoActivity] /\ vis = [r \in Requests |-> NoVisitor]
  /\ copy = [r \in Requests |-> {}] /\ copyCap = [r \in Requests |-> 0]
  /\ wasFull = [r \in Requests |-> FALSE]
  /\ heard = {} /\ admin = 0
  /\ version = [a \in Activities |-> 0] /\ read = [r \in Requests |-> 0]
  /\ stale = {} /\ agreed = bookings /\ hasty = {}
-----------------------------------------------------------------------------
\* Activity.isFull.  Mutant: one too many.
IsFullMutant(booked, cap) == Cardinality(booked) > cap
IsFull(booked, cap) == Cardinality(booked) >= cap

Goto(r, label) == pc' = [pc EXCEPT ![r] = label]

\* findById of a book or a cancel request, and what a cancel decides on it.
Find(r, k, a, v) ==
  /\ pc[r] = "new"
  /\ kind' = [kind EXCEPT ![r] = k]
  /\ act' = [act EXCEPT ![r] = a] /\ vis' = [vis EXCEPT ![r] = v]
  /\ copyCap' = [copyCap EXCEPT ![r] = capacity[a]]
  /\ read' = [read EXCEPT ![r] = version[a]]
  /\ wasFull' = [wasFull EXCEPT ![r] = IsFull(bookings[a], capacity[a])]
  /\ \/ /\ k = "book"
        /\ copy' = [copy EXCEPT ![r] = bookings[a]]
        /\ Goto(r, IF capacity[a] = 0 THEN "done" ELSE "visitor")
     \/ /\ k = "cancel"
        /\ copy' = [copy EXCEPT ![r] = bookings[a] \ {v}]
        /\ Goto(r, IF v \in bookings[a] THEN "save" ELSE "done")
  /\ UNCHANGED <<tables, hotel, heard, admin, history>>

\* The visitor must be known and checked in, and not in this activity already.
\* Mutant: the check-in is not looked at.
FindVisitorMutant(r) ==
  /\ pc[r] = "visitor"
  /\ Goto(r, IF vis[r] \notin copy[r] THEN "elsewhere" ELSE "done")
  /\ UNCHANGED <<tables, kind, act, vis, copy, copyCap, wasFull, read, hotel, heard,
                 admin, history>>
FindVisitor(r) ==
  /\ pc[r] = "visitor"
  /\ Goto(r, IF vis[r] \in checkedIn \ copy[r] THEN "elsewhere" ELSE "done")
  /\ UNCHANGED <<tables, kind, act, vis, copy, copyCap, wasFull, read, hotel, heard,
                 admin, history>>

\* Another booking of the same visitor has passed its checks and is not saved yet.
BookingUnderWay(r) ==
  \E q \in Requests \ {r} : pc[q] = "save" /\ kind[q] = "book" /\ vis[q] = vis[r]

\* isVisitorBooked: in any activity.  Mutant: in the requested one only.
BookedMutant(r) == vis[r] \in bookings[act[r]]
Booked(r) == \E a \in Activities : vis[r] \in bookings[a]

\* The visitor must be booked nowhere, and the copy have a place; the visitor joins
\* the copy.
CheckElsewhere(r) ==
  /\ pc[r] = "elsewhere"
  /\ IF Booked(r) \/ IsFull(copy[r], copyCap[r])
     THEN Goto(r, "done") /\ copy' = copy /\ hasty' = hasty
     ELSE /\ Goto(r, "save")
          /\ copy' = [copy EXCEPT ![r] = @ \cup {vis[r]}]
          /\ hasty' = IF BookingUnderWay(r) THEN hasty \cup {vis[r]} ELSE hasty
  /\ UNCHANGED <<tables, kind, act, vis, copyCap, wasFull, read, hotel, heard, admin,
                 version, stale, agreed>>

\* What a request has to tell Broadcast after its save.
Announces(r) ==
  IF kind[r] = "book" THEN IsFull(copy[r], copyCap[r])
  ELSE wasFull[r] /\ ~IsFull(copy[r], copyCap[r])

Agree(r) ==
  agreed' = [agreed EXCEPT ![act[r]] =
               IF kind[r] = "book" THEN @ \cup {vis[r]} ELSE @ \ {vis[r]}]

\* save: the row is updated, or inserted when it is gone, and the bookings are
\* replaced by the copy.  Mutant: the old bookings are not deleted.
WrittenMutant(r) == bookings[act[r]] \cup copy[r]
Written(r) == copy[r]
Save(r) ==
  /\ pc[r] = "save"
  /\ capacity' = [capacity EXCEPT ![act[r]] = copyCap[r]]
  /\ bookings' = [bookings EXCEPT ![act[r]] = Written(r)]
  /\ Goto(r, IF Announces(r) THEN "publish" ELSE "done")
  /\ version' = [version EXCEPT ![act[r]] = @ + 1]
  /\ stale' = IF read[r] = version[act[r]] THEN stale ELSE stale \cup {act[r]}
  /\ Agree(r)
  /\ UNCHANGED <<kind, act, vis, copy, copyCap, wasFull, read, hotel, heard, admin,
                 hasty>>

\* The database gives up on the transaction: an error answer, nothing written.
SaveFails(r) ==
  /\ pc[r] = "save"
  /\ Goto(r, "done")
  /\ UNCHANGED <<tables, kind, act, vis, copy, copyCap, wasFull, read, hotel, heard,
                 admin, history>>

\* One attempt with a timeout, errors are swallowed.
Publish(r, delivered) ==
  /\ pc[r] = "publish"
  /\ heard' = IF delivered
              THEN heard \cup {<<IF kind[r] = "book" THEN "full" ELSE "available",
                                 act[r]>>}
              ELSE heard
  /\ Goto(r, "done")
  /\ UNCHANGED <<tables, kind, act, vis, copy, copyCap, wasFull, read, hotel, admin,
                 history>>
-----------------------------------------------------------------------------
\* POST and DELETE of an activity by the administrator; a delete cascades.
CreateActivity(a, cap) ==
  /\ admin < MaxAdmin /\ admin' = admin + 1
  /\ capacity[a] = 0
  /\ capacity' = [capacity EXCEPT ![a] = cap]
  /\ version' = [version EXCEPT ![a] = @ + 1]
  /\ UNCHANGED <<bookings, reqVars, hotel, heard, stale, agreed, hasty>>

RemoveActivity(a) ==
  /\ admin < MaxAdmin /\ admin' = admin + 1
  /\ capacity[a] # 0
  /\ capacity' = [capacity EXCEPT ![a] = 0]
  /\ bookings' = [bookings EXCEPT ![a] = {}]
  /\ version' = [version EXCEPT ![a] = @ + 1]
  /\ agreed' = [agreed EXCEPT ![a] = {}]
  /\ UNCHANGED <<reqVars, hotel, heard, stale, hasty>>
-----------------------------------------------------------------------------
\* An event of the hotel reaches the stream.  Only a confirmation is acted on,
\* and nothing is replayed to a listener that was away.
HotelEvent(type, v) ==
  /\ checkedIn' = IF connected /\ type = "reservation_confirmed"
                  THEN checkedIn \cup {v} ELSE checkedIn
  /\ UNCHANGED <<tables, reqVars, connected, heard, admin, history>>

\* The stream breaks; the listener comes back after its delay.
Disconnect ==
  /\ connected /\ connected' = FALSE
  /\ UNCHANGED <<tables, reqVars, checkedIn, heard, admin, history>>

Reconnect ==
  /\ ~connected /\ connected' = TRUE
  /\ UNCHANGED <<tables, reqVars, checkedIn, heard, admin, history>>
-----------------------------------------------------------------------------
Request(r) ==
  \/ \E k \in {"book", "cancel"}, a \in Activities, v \in Visitors : Find(r, k, a, v)
  \/ FindVisitor(r)
  \/ CheckElsewhere(r)
  \/ Save(r)
  \/ SaveFails(r)
  \/ \E delivered \in BOOLEAN : Publish(r, delivered)

Admin(a) == RemoveActivity(a) \/ \E cap \in Capacities : CreateActivity(a, cap)

HotelStream ==
  \/ \E v \in Visitors, type \in {"reservation_confirmed", "reservation_cancelled"} :
       HotelEvent(type, v)
  \/ Disconnect
  \/ Reconnect

Next == \/ \E r \in Requests : Request(r)
        \/ \E a \in Activities : Admin(a)
        \/ HotelStream

Spec == Init /\ [][Next]_vars
-----------------------------------------------------------------------------
\* No activity holds more visitors than its row allows, whichever outdated copy
\* was written last and with whatever capacity the activity was created anew.
WithinCapacity ==
  \A a \in Activities : Cardinality(bookings[a]) <= capacity[a]

\* Nobody is booked who was not reported as checked in, not even by a copy that
\* was read before.
BookedAreCheckedIn == \A a \in Activities : bookings[a] \subseteq checkedIn

\* As long as an activity was never written from an outdated copy, its bookings
\* are what the visitors were told, one answer after the other.
SerialBookings == \A a \in Activities \ stale : bookings[a] = agreed[a]

\* A visitor is in two activities only after two bookings of that visitor were under
\* way at once, or after an outdated copy brought a cancelled booking back: bookings
\* that follow one another never get past isVisitorBooked.
OneActivityUnlessHasty ==
  \A a, b \in Activities \ stale :
    a # b => bookings[a] \cap bookings[b] \subseteq hasty
=============================================================================
