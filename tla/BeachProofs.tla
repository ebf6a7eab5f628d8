----------------------------- MODULE BeachProofs -----------------------------
(***************************************************************************)
(* Proofs about BeachActivities, for any number of activities, visitors,   *)
(* requests and administrator actions.                                     *)
(*                                                                         *)
(* A request acts on a copy that may be outdated, so each property of the  *)
(* tables is carried by the same property of the copies on their way back. *)
(***************************************************************************)
EXTENDS BeachActivities, FiniteSetTheorems, TLAPS

Holding == {"visitor", "elsewhere", "save"}

\* A request that holds a copy knows its arguments and read an existing row.
ArgsOK ==
  \A r \in Requests :
    /\ pc[r] \in Holding => act[r] \in Activities /\ vis[r] \in Visitors
                            /\ copyCap[r] \in Capacities
    /\ pc[r] = "publish" => act[r] \in Activities
    /\ pc[r] \in {"visitor", "elsewhere"} => kind[r] = "book"

Shape == TypeOK /\ ArgsOK

CopiesFit ==
  \A r \in Requests : pc[r] \in Holding => Cardinality(copy[r]) <= copyCap[r]

CopiesPresent ==
  \A r \in Requests :
    /\ pc[r] \in Holding => copy[r] \subseteq checkedIn
    /\ pc[r] = "elsewhere" => vis[r] \in checkedIn

\* A copy that is not outdated is the row, with the request's own change made.
CopiesFresh ==
  \A r \in Requests : pc[r] \in Holding =>
    /\ read[r] <= version[act[r]]
    /\ read[r] = version[act[r]] =>
         /\ pc[r] # "save" => copy[r] = bookings[act[r]]
         /\ pc[r] = "save" /\ kind[r] = "book" =>
              copy[r] = bookings[act[r]] \cup {vis[r]}
         /\ pc[r] = "save" /\ kind[r] = "cancel" =>
              copy[r] = bookings[act[r]] \ {vis[r]}

\* A booking that has passed its checks and is about to be saved.
Saving(r) == pc[r] = "save" /\ kind[r] = "book"

\* Two such bookings of one visitor, or one of a visitor who is booked elsewhere by
\* now, are the mark of a hasty visitor.
HastySeen ==
  /\ \A q, r \in Requests :
       q # r /\ Saving(q) /\ Saving(r) /\ vis[q] = vis[r] => vis[r] \in hasty
  /\ \A r \in Requests, a \in Activities \ stale :
       Saving(r) /\ a # act[r] /\ vis[r] \in bookings[a] => vis[r] \in hasty
-----------------------------------------------------------------------------
\* Sets of visitors are finite; joining adds at most one to their number.
LEMMA VisitorSets ==
  ASSUME NEW S \in SUBSET Visitors, NEW v \in Visitors
  PROVE  /\ IsFiniteSet(S) /\ Cardinality(S) \in Nat
         /\ Cardinality(S \cup {v}) <= Cardinality(S) + 1
         /\ Cardinality(S \ {v}) <= Cardinality(S) /\ Cardinality(S \ {v}) \in Nat
<1>1. IsFiniteSet(S) BY BeachAssumption, FS_Subset
<1>2. Cardinality(S) \in Nat BY <1>1, FS_CardinalityType
<1>3. Cardinality(S \cup {v}) <= Cardinality(S) + 1 BY <1>1, <1>2, FS_AddElement
<1>4. Cardinality(S \ {v}) <= Cardinality(S) BY <1>1, <1>2, FS_RemoveElement
<1>5. Cardinality(S \ {v}) \in Nat BY <1>1, FS_RemoveElement, FS_CardinalityType
<1> QED BY <1>1, <1>2, <1>3, <1>4, <1>5

\* Every capacity, that of a missing row included, is a number.
LEMMA CapacityType ==
  ASSUME TypeOK
  PROVE  /\ \A a \in Activities : capacity[a] \in Nat
         /\ \A r \in Requests : copyCap[r] \in Nat
<1>1. Capacities \cup {0} \subseteq Nat BY BeachAssumption
<1> QED BY <1>1 DEF TypeOK

\* Shape holds of the seeded tables.
LEMMA InitShape == Init => Shape
  BY BeachAssumption DEF Init, Shape, TypeOK, ArgsOK, Holding, Pc

\* The transactions of a book or cancel request keep Shape.
LEMMA RequestShape ==
  ASSUME Shape, NEW r \in Requests, Request(r)
  PROVE  Shape'
<1> USE DEF Shape
<1>1. ASSUME NEW k \in {"book", "cancel"}, NEW a \in Activities, NEW v \in Visitors,
             Find(r, k, a, v)
      PROVE  Shape'
  <2>1. TypeOK' BY <1>1 DEF TypeOK, Find, Goto, Pc, tables, hotel, history, IsFull
  <2>2. ArgsOK' BY <1>1 DEF TypeOK, ArgsOK, Find, Goto, Holding
  <2> QED BY <2>1, <2>2
<1>2. CASE FindVisitor(r)
  <2>1. TypeOK' BY <1>2 DEF TypeOK, FindVisitor, Goto, Pc, tables, hotel, history
  <2>2. ArgsOK' BY <1>2 DEF TypeOK, ArgsOK, FindVisitor, Goto, Holding
  <2> QED BY <2>1, <2>2
<1>3. CASE CheckElsewhere(r)
  <2>0. vis[r] \in Visitors BY <1>3 DEF ArgsOK, CheckElsewhere, Holding
  <2>1. TypeOK' BY <1>3, <2>0 DEF TypeOK, CheckElsewhere, Goto, Pc, tables, hotel, history
  <2>2. ArgsOK' BY <1>3 DEF TypeOK, ArgsOK, CheckElsewhere, Goto, Holding
  <2> QED BY <2>1, <2>2
<1>4. CASE Save(r)
  <2>0. act[r] \in Activities /\ vis[r] \in Visitors /\ copyCap[r] \in Capacities
    BY <1>4 DEF ArgsOK, Save, Holding
  <2>1. agreed' \in [Activities -> SUBSET Visitors]
    BY <1>4, <2>0 DEF TypeOK, Save, Agree
  <2>2. capacity' \in [Activities -> Capacities \cup {0}]
        /\ bookings' \in [Activities -> SUBSET Visitors]
        /\ version' \in [Activities -> Nat] /\ stale' \subseteq Activities
        /\ pc' \in [Requests -> Pc]
    BY <1>4, <2>0 DEF TypeOK, Save, Written, Goto, Pc
  <2>3. \A a \in Activities : capacity'[a] = 0 => bookings'[a] = {}
    BY <1>4, <2>0, BeachAssumption DEF TypeOK, Save
  <2>4. TypeOK' BY <1>4, <2>1, <2>2, <2>3 DEF TypeOK, Save, hotel
  <2>5. ArgsOK' BY <1>4, <2>0 DEF TypeOK, ArgsOK, Save, Goto, Holding
  <2> QED BY <2>4, <2>5
<1>5. CASE SaveFails(r)
  <2>1. TypeOK' BY <1>5 DEF TypeOK, SaveFails, Goto, Pc, tables, hotel, history
  <2>2. ArgsOK' BY <1>5 DEF TypeOK, ArgsOK, SaveFails, Goto, Holding
  <2> QED BY <2>1, <2>2
<1>6. ASSUME NEW delivered \in BOOLEAN, Publish(r, delivered) PROVE Shape'
  <2>0. act[r] \in Activities BY <1>6 DEF ArgsOK, Publish
  <2>1. heard' \subseteq {"full", "available"} \X Activities
    <3>1. <<IF kind[r] = "book" THEN "full" ELSE "available", act[r]>>
            \in {"full", "available"} \X Activities
      BY <2>0
    <3> QED BY <1>6, <3>1 DEF TypeOK, Publish
  <2>2. TypeOK' BY <1>6, <2>1 DEF TypeOK, Publish, Goto, Pc, tables, hotel, history
  <2>3. ArgsOK' BY <1>6 DEF TypeOK, ArgsOK, Publish, Goto, Holding
  <2> QED BY <2>2, <2>3
<1> QED BY <1>1, <1>2, <1>3, <1>4, <1>5, <1>6 DEF Request

\* Creating and removing an activity keeps Shape.
LEMMA AdminShape ==
  ASSUME Shape, NEW a \in Activities, Admin(a)
  PROVE  Shape'
<1> USE DEF Shape
<1>1. CASE RemoveActivity(a)
  <2>1. TypeOK' BY <1>1, BeachAssumption DEF TypeOK, RemoveActivity, reqVars, hotel
  <2>2. ArgsOK' BY <1>1 DEF ArgsOK, RemoveActivity, reqVars
  <2> QED BY <2>1, <2>2
<1>2. ASSUME NEW cap \in Capacities, CreateActivity(a, cap) PROVE Shape'
  <2>1. TypeOK' BY <1>2, BeachAssumption DEF TypeOK, CreateActivity, reqVars, hotel
  <2>2. ArgsOK' BY <1>2 DEF ArgsOK, CreateActivity, reqVars
  <2> QED BY <2>1, <2>2
<1> QED BY <1>1, <1>2 DEF Admin

\* The listener for hotel events keeps Shape.
LEMMA HotelShape == ASSUME Shape, HotelStream PROVE Shape'
  BY DEF Shape, TypeOK, ArgsOK, HotelStream, HotelEvent, Disconnect, Reconnect, tables,
         reqVars, history

\* Shape is an invariant of the beach service.
LEMMA ShapeInvariance == Spec => []Shape
<1>1. ASSUME Shape, UNCHANGED vars PROVE Shape'
  BY <1>1 DEF Shape, TypeOK, ArgsOK, vars, tables, reqVars, hotel, history
<1>2. ASSUME Shape, [Next]_vars PROVE Shape'
  BY <1>1, <1>2, RequestShape, AdminShape, HotelShape DEF Next
<1> QED BY <1>2, InitShape, PTL DEF Spec

\* Type correctness; bookings go when their activity goes.
THEOREM BeachTypeCorrect == Spec => []TypeOK
<1>1. Shape => TypeOK BY DEF Shape
<1> QED BY <1>1, ShapeInvariance, PTL
-----------------------------------------------------------------------------
(* Capacity.                                                               *)

FitInv == Shape /\ WithinCapacity /\ CopiesFit

\* A copy is filled only below its own capacity and saved together with it.
LEMMA FitStep ==
  ASSUME FitInv, Shape', [Next]_vars
  PROVE  WithinCapacity' /\ CopiesFit'
<1> USE DEF FitInv
<1>1. ASSUME NEW r \in Requests, NEW k \in {"book", "cancel"}, NEW a \in Activities,
             NEW v \in Visitors, Find(r, k, a, v)
      PROVE  WithinCapacity' /\ CopiesFit'
  <2>1. bookings[a] \in SUBSET Visitors BY DEF Shape, TypeOK
  <2>0. capacity[a] \in Nat BY BeachAssumption, CapacityType DEF Shape
  <2>2. Cardinality(bookings[a]) <= capacity[a] BY DEF WithinCapacity
  <2>3. Cardinality(bookings[a] \ {v}) <= capacity[a]
    <3>1. /\ Cardinality(bookings[a]) \in Nat /\ Cardinality(bookings[a] \ {v}) \in Nat
          /\ Cardinality(bookings[a] \ {v}) <= Cardinality(bookings[a])
      BY <2>1, VisitorSets
    <3> QED BY <2>0, <2>2, <3>1
  <2>4. WithinCapacity' BY <1>1 DEF Find, WithinCapacity, tables
  <2>5. ASSUME NEW q \in Requests, pc'[q] \in Holding
        PROVE  Cardinality(copy'[q]) <= copyCap'[q]
    <3>1. CASE q = r
      <4>1. copyCap'[r] = capacity[a] BY <1>1 DEF Find, Shape, TypeOK
      <4>2. copy'[r] = bookings[a] \/ copy'[r] = bookings[a] \ {v}
        BY <1>1 DEF Find, Shape, TypeOK
      <4> QED BY <3>1, <4>1, <4>2, <2>2, <2>3
    <3>2. CASE q # r
      <4>1. copy'[q] = copy[q] /\ copyCap'[q] = copyCap[q] /\ pc'[q] = pc[q]
        BY <1>1, <3>2 DEF Find, Goto, Shape, TypeOK
      <4> QED BY <4>1, <2>5 DEF CopiesFit
    <3> QED BY <3>1, <3>2
  <2> QED BY <2>4, <2>5 DEF CopiesFit
<1>2. ASSUME NEW r \in Requests, FindVisitor(r) PROVE WithinCapacity' /\ CopiesFit'
  <2>1. WithinCapacity' BY <1>2 DEF FindVisitor, WithinCapacity, tables
  <2>2. CopiesFit' BY <1>2 DEF FindVisitor, CopiesFit, Shape, TypeOK, Goto, Holding
  <2> QED BY <2>1, <2>2
<1>3. ASSUME NEW r \in Requests, CheckElsewhere(r) PROVE WithinCapacity' /\ CopiesFit'
  <2>1. copy[r] \in SUBSET Visitors /\ vis[r] \in Visitors /\ copyCap[r] \in Nat
    BY <1>3, BeachAssumption DEF CheckElsewhere, Shape, TypeOK, ArgsOK, Holding
  <2>2. ~IsFull(copy[r], copyCap[r])
          => Cardinality(copy[r] \cup {vis[r]}) <= copyCap[r]
    <3>1. Cardinality(copy[r]) \in Nat
          /\ Cardinality(copy[r] \cup {vis[r]}) <= Cardinality(copy[r]) + 1
          /\ Cardinality(copy[r] \cup {vis[r]}) \in Nat
      <4>1. copy[r] \cup {vis[r]} \in SUBSET Visitors BY <2>1
      <4> QED BY <2>1, <4>1, VisitorSets
    <3> QED BY <2>1, <3>1 DEF IsFull
  <2>3. WithinCapacity' BY <1>3 DEF CheckElsewhere, WithinCapacity, tables
  <2>4. CopiesFit'
    BY <1>3, <2>2 DEF CheckElsewhere, CopiesFit, Shape, TypeOK, Goto, Holding
  <2> QED BY <2>3, <2>4
<1>4. ASSUME NEW r \in Requests, Save(r) PROVE WithinCapacity' /\ CopiesFit'
  <2>1. act[r] \in Activities /\ Cardinality(copy[r]) <= copyCap[r]
    BY <1>4 DEF Save, Shape, ArgsOK, CopiesFit, Holding
  <2>2. WithinCapacity'
    BY <1>4, <2>1 DEF Save, Written, WithinCapacity, Shape, TypeOK
  <2>3. CopiesFit' BY <1>4 DEF Save, CopiesFit, Shape, TypeOK, Goto, Holding
  <2> QED BY <2>2, <2>3
<1>5. ASSUME NEW r \in Requests, SaveFails(r) PROVE WithinCapacity' /\ CopiesFit'
  <2>1. WithinCapacity' BY <1>5 DEF SaveFails, WithinCapacity, tables
  <2>2. CopiesFit' BY <1>5 DEF SaveFails, CopiesFit, Shape, TypeOK, Goto, Holding
  <2> QED BY <2>1, <2>2
<1>6. ASSUME NEW r \in Requests, NEW delivered \in BOOLEAN, Publish(r, delivered)
      PROVE  WithinCapacity' /\ CopiesFit'
  <2>1. WithinCapacity' BY <1>6 DEF Publish, WithinCapacity, tables
  <2>2. CopiesFit' BY <1>6 DEF Publish, CopiesFit, Shape, TypeOK, Goto, Holding
  <2> QED BY <2>1, <2>2
<1>7. ASSUME NEW a \in Activities, Admin(a) PROVE WithinCapacity' /\ CopiesFit'
  <2>1. CASE RemoveActivity(a)
    BY <2>1, FS_EmptySet DEF RemoveActivity, WithinCapacity, CopiesFit, Shape, TypeOK, reqVars
  <2>2. ASSUME NEW cap \in Capacities, CreateActivity(a, cap)
        PROVE  WithinCapacity' /\ CopiesFit'
    <3>1. bookings[a] = {} /\ cap \in Nat
      BY <2>2, BeachAssumption DEF CreateActivity, Shape, TypeOK
    <3>2. CopiesFit' BY <2>2 DEF CreateActivity, CopiesFit, reqVars
    <3>3. Cardinality(bookings[a]) <= cap BY <3>1, FS_EmptySet
    <3>4. WithinCapacity'
      BY <2>2, <3>3 DEF CreateActivity, WithinCapacity, Shape, TypeOK
    <3> QED BY <3>2, <3>4
  <2> QED BY <1>7, <2>1, <2>2 DEF Admin
<1>8. CASE HotelStream \/ UNCHANGED vars
  BY <1>8 DEF HotelStream, HotelEvent, Disconnect, Reconnect, vars, tables, reqVars,
              WithinCapacity, CopiesFit
<1> QED BY <1>1, <1>2, <1>3, <1>4, <1>5, <1>6, <1>7, <1>8 DEF Next, Request

\* An activity never holds more visitors than its row allows, although requests
\* write back whole copies that may be outdated.
THEOREM CapacityKept == Spec => []WithinCapacity
<1>1. Init => WithinCapacity /\ CopiesFit
  <2> SUFFICES ASSUME Init PROVE WithinCapacity /\ CopiesFit
    OBVIOUS
  <2>1. CopiesFit BY DEF Init, CopiesFit, Holding
  <2>2. TypeOK BY InitShape DEF Shape
  <2>3. \A a \in Activities : capacity[a] \in Nat /\ bookings[a] = {}
    BY <2>2, CapacityType DEF Init
  <2>4. WithinCapacity BY <2>3, FS_EmptySet DEF WithinCapacity
  <2> QED BY <2>1, <2>4
<1>2. ASSUME Shape, Shape', WithinCapacity, CopiesFit, [Next]_vars
      PROVE  WithinCapacity' /\ CopiesFit'
  BY <1>2, FitStep DEF FitInv
<1> QED BY <1>1, <1>2, ShapeInvariance, PTL DEF Spec
-----------------------------------------------------------------------------
(* Check-in.                                                               *)

\* A visitor joins a copy only when checked in, and nobody is ever checked out.
LEMMA PresentStep ==
  ASSUME Shape, BookedAreCheckedIn, CopiesPresent, [Next]_vars
  PROVE  BookedAreCheckedIn' /\ CopiesPresent'
<1> DEFINE Goal == BookedAreCheckedIn' /\ CopiesPresent'
<1> USE DEF BookedAreCheckedIn, CopiesPresent, Shape, TypeOK, Goto, Holding, tables,
            reqVars, hotel, history
<1>1. ASSUME NEW r \in Requests, NEW k \in {"book", "cancel"}, NEW a \in Activities,
             NEW v \in Visitors, Find(r, k, a, v)
      PROVE  Goal
  BY <1>1 DEF Find
<1>2. ASSUME NEW r \in Requests, FindVisitor(r) PROVE Goal BY <1>2 DEF FindVisitor
<1>3. ASSUME NEW r \in Requests, CheckElsewhere(r) PROVE Goal BY <1>3 DEF CheckElsewhere
<1>4. ASSUME NEW r \in Requests, Save(r) PROVE Goal BY <1>4 DEF Save, Written, ArgsOK
<1>5. ASSUME NEW r \in Requests, SaveFails(r) PROVE Goal BY <1>5 DEF SaveFails
<1>6. ASSUME NEW r \in Requests, NEW delivered \in BOOLEAN, Publish(r, delivered)
      PROVE  Goal
  BY <1>6 DEF Publish
<1>7. ASSUME NEW a \in Activities, RemoveActivity(a) PROVE Goal BY <1>7 DEF RemoveActivity
<1>8. ASSUME NEW a \in Activities, NEW cap \in Capacities, CreateActivity(a, cap)
      PROVE  Goal
  BY <1>8 DEF CreateActivity
<1>9. CASE HotelStream
  BY <1>9 DEF HotelStream, HotelEvent, Disconnect, Reconnect
<1>10. CASE UNCHANGED vars BY <1>10 DEF vars
<1> QED BY <1>1, <1>2, <1>3, <1>4, <1>5, <1>6, <1>7, <1>8, <1>9, <1>10
        DEF Next, Request, Admin

\* Only checked-in visitors are ever booked: a check-in is never taken back, so a
\* copy read earlier cannot bring in anybody else.
THEOREM OnlyCheckedIn == Spec => []BookedAreCheckedIn
<1>1. Init => BookedAreCheckedIn /\ CopiesPresent
  BY DEF Init, BookedAreCheckedIn, CopiesPresent, Holding
<1> QED BY <1>1, PresentStep, ShapeInvariance, PTL DEF Spec
-----------------------------------------------------------------------------
(* Bookings against answers.                                               *)

\* A write that is not outdated does to the row what its answer says.
LEMMA FreshStep ==
  ASSUME Shape, SerialBookings, CopiesFresh, [Next]_vars
  PROVE  SerialBookings' /\ CopiesFresh'
<1> DEFINE Goal == SerialBookings' /\ CopiesFresh'
<1> USE DEF SerialBookings, CopiesFresh, Shape, TypeOK, ArgsOK, Goto, Holding, tables,
            reqVars, hotel, history
<1>1. ASSUME NEW r \in Requests, NEW k \in {"book", "cancel"}, NEW a \in Activities,
             NEW v \in Visitors, Find(r, k, a, v)
      PROVE  Goal
  <2>1. CASE k = "book" BY <1>1, <2>1 DEF Find
  <2>2. CASE k = "cancel" BY <1>1, <2>2 DEF Find
  <2> QED BY <2>1, <2>2
<1>2. ASSUME NEW r \in Requests, FindVisitor(r) PROVE Goal BY <1>2 DEF FindVisitor
<1>3. ASSUME NEW r \in Requests, CheckElsewhere(r) PROVE Goal BY <1>3 DEF CheckElsewhere
<1>4. ASSUME NEW r \in Requests, Save(r) PROVE Goal
  <2>0. act[r] \in Activities BY <1>4 DEF Save
  <2>1. ASSUME NEW a \in Activities \ stale' PROVE bookings'[a] = agreed'[a]
    <3>1. CASE a = act[r]
      <4>1. a \notin stale /\ read[r] = version[a] BY <1>4, <2>1, <3>1 DEF Save
      <4>2. bookings[a] = agreed[a] BY <4>1, <2>1
      <4>3. bookings'[a] = copy[r] BY <1>4, <3>1 DEF Save, Written
      <4>4. CASE kind[r] = "book"
        BY <1>4, <3>1, <4>1, <4>2, <4>3, <4>4 DEF Save, Agree
      <4>5. CASE kind[r] = "cancel"
        BY <1>4, <3>1, <4>1, <4>2, <4>3, <4>5 DEF Save, Agree
      <4> QED BY <4>4, <4>5
    <3>2. CASE a # act[r] BY <1>4, <2>1, <3>2 DEF Save, Agree
    <3> QED BY <3>1, <3>2
  <2>2. CopiesFresh' BY <1>4 DEF Save, Written
  <2> QED BY <2>1, <2>2
<1>5. ASSUME NEW r \in Requests, SaveFails(r) PROVE Goal BY <1>5 DEF SaveFails
<1>6. ASSUME NEW r \in Requests, NEW delivered \in BOOLEAN, Publish(r, delivered)
      PROVE  Goal
  BY <1>6 DEF Publish
<1>7. ASSUME NEW a \in Activities, RemoveActivity(a) PROVE Goal BY <1>7 DEF RemoveActivity
<1>8. ASSUME NEW a \in Activities, NEW cap \in Capacities, CreateActivity(a, cap)
      PROVE  Goal
  BY <1>8 DEF CreateActivity
<1>9. CASE HotelStream
  BY <1>9 DEF HotelStream, HotelEvent, Disconnect, Reconnect
<1>10. CASE UNCHANGED vars BY <1>10 DEF vars
<1> HIDE DEF SerialBookings, CopiesFresh, Shape, TypeOK, ArgsOK, Goto, Holding, tables,
             reqVars, hotel, history
<1>11. ASSUME NEW r \in Requests, Request(r) PROVE Goal
  BY <1>1, <1>2, <1>3, <1>4, <1>5, <1>6, <1>11 DEF Request
<1>12. ASSUME NEW a \in Activities, Admin(a) PROVE Goal
  BY <1>7, <1>8, <1>12 DEF Admin
<1> QED BY <1>9, <1>10, <1>11, <1>12 DEF Next

\* Until an outdated copy is written, the bookings of an activity are what the
\* answers said: concurrent requests lose bookings in no other way.
THEOREM SerialUnlessStale == Spec => []SerialBookings
<1>1. Init => SerialBookings /\ CopiesFresh
  BY DEF Init, SerialBookings, CopiesFresh, Holding
<1> QED BY <1>1, FreshStep, ShapeInvariance, PTL DEF Spec
-----------------------------------------------------------------------------
(* One activity at a time.                                                 *)

\* A fresh save adds nobody to its activity but the visitor of a booking.
LEMMA FreshSave ==
  ASSUME Shape, CopiesFresh, NEW r \in Requests, Save(r), NEW a \in Activities \ stale',
         NEW v \in bookings'[a]
  PROVE  a \notin stale /\ (v \in bookings[a] \/ (Saving(r) /\ a = act[r] /\ v = vis[r]))
<1>0. act[r] \in Activities /\ pc[r] = "save" /\ kind[r] \in {"book", "cancel"}
  BY DEF Shape, ArgsOK, TypeOK, Save, Holding
<1>1. a \notin stale BY DEF Save
<1>2. CASE a # act[r] BY <1>1, <1>2 DEF Save, Shape, TypeOK
<1>3. CASE a = act[r]
  <2>1. read[r] = version[act[r]] BY <1>3 DEF Save
  <2>2. v \in copy[r] BY <1>0, <1>3 DEF Save, Written, Shape, TypeOK
  <2> QED BY <1>0, <1>1, <1>3, <2>1, <2>2 DEF CopiesFresh, Saving, Holding
<1> QED BY <1>2, <1>3

\* HastySeen is what a save needs to know of the other bookings of its visitor.
LEMMA HastyStep ==
  ASSUME Shape, CopiesFresh, HastySeen, OneActivityUnlessHasty, [Next]_vars
  PROVE  HastySeen' /\ OneActivityUnlessHasty'
<1> DEFINE Goal == HastySeen' /\ OneActivityUnlessHasty'
<1>1. ASSUME NEW r \in Requests, NEW k \in {"book", "cancel"}, NEW a \in Activities,
             NEW v \in Visitors, Find(r, k, a, v)
      PROVE  Goal
  BY <1>1 DEF Find, Goto, Shape, TypeOK, HastySeen, Saving, OneActivityUnlessHasty,
              tables, history
<1>2. ASSUME NEW r \in Requests, FindVisitor(r) PROVE Goal
  BY <1>2 DEF FindVisitor, Goto, Shape, TypeOK, HastySeen, Saving, OneActivityUnlessHasty,
              tables, history
<1>3. ASSUME NEW r \in Requests, CheckElsewhere(r) PROVE Goal
  BY <1>3 DEF CheckElsewhere, Booked, BookingUnderWay, Goto, Shape, TypeOK, HastySeen,
              Saving, OneActivityUnlessHasty, tables
<1>4. ASSUME NEW r \in Requests, Save(r) PROVE Goal
  <2>1. /\ vis' = vis /\ act' = act /\ hasty' = hasty
        /\ \A q \in Requests : Saving(q)' => q # r /\ Saving(q)
    BY <1>4 DEF Save, Goto, Shape, TypeOK, Saving
  <2>2. HastySeen'
    <3>1. ASSUME NEW q \in Requests, NEW a \in Activities \ stale', Saving(q)',
                 a # act[q], vis[q] \in bookings'[a]
          PROVE  vis[q] \in hasty
      <4>1. q # r /\ Saving(q) BY <2>1, <3>1
      <4>2. a \notin stale
            /\ (vis[q] \in bookings[a] \/ (Saving(r) /\ a = act[r] /\ vis[q] = vis[r]))
        BY <1>4, <3>1, FreshSave
      <4> QED BY <3>1, <4>1, <4>2 DEF HastySeen
    <3>2. ASSUME NEW p \in Requests, NEW q \in Requests, p # q, Saving(p)', Saving(q)',
                 vis[p] = vis[q]
          PROVE  vis[q] \in hasty
      BY <2>1, <3>2 DEF HastySeen
    <3> QED BY <2>1, <3>1, <3>2 DEF HastySeen
  <2>3. ASSUME NEW a \in Activities \ stale', NEW b \in Activities \ stale', a # b,
               NEW v \in bookings'[a] \cap bookings'[b]
        PROVE  v \in hasty
    <3>1. a \notin stale
          /\ (v \in bookings[a] \/ (Saving(r) /\ a = act[r] /\ v = vis[r]))
      BY <1>4, <2>3, FreshSave
    <3>2. b \notin stale
          /\ (v \in bookings[b] \/ (Saving(r) /\ b = act[r] /\ v = vis[r]))
      BY <1>4, <2>3, FreshSave
    <3> QED BY <2>3, <3>1, <3>2 DEF HastySeen, OneActivityUnlessHasty
  <2> QED BY <2>1, <2>2, <2>3 DEF OneActivityUnlessHasty
<1>5. ASSUME NEW r \in Requests, SaveFails(r) PROVE Goal
  BY <1>5 DEF SaveFails, Goto, Shape, TypeOK, HastySeen, Saving, OneActivityUnlessHasty,
              tables, history
<1>6. ASSUME NEW r \in Requests, NEW delivered \in BOOLEAN, Publish(r, delivered)
      PROVE  Goal
  BY <1>6 DEF Publish, Goto, Shape, TypeOK, HastySeen, Saving, OneActivityUnlessHasty,
              tables, history
<1>7. ASSUME NEW a \in Activities, RemoveActivity(a) PROVE Goal
  BY <1>7 DEF RemoveActivity, Shape, TypeOK, HastySeen, Saving, OneActivityUnlessHasty,
              reqVars
<1>8. ASSUME NEW a \in Activities, NEW cap \in Capacities, CreateActivity(a, cap)
      PROVE  Goal
  BY <1>8 DEF CreateActivity, HastySeen, Saving, OneActivityUnlessHasty, reqVars
<1>9. CASE HotelStream \/ UNCHANGED vars
  BY <1>9 DEF HotelStream, HotelEvent, Disconnect, Reconnect, vars, HastySeen, Saving,
              OneActivityUnlessHasty, tables, reqVars, history
<1>10. ASSUME NEW r \in Requests, Request(r) PROVE Goal
  BY <1>1, <1>2, <1>3, <1>4, <1>5, <1>6, <1>10 DEF Request
<1>11. ASSUME NEW a \in Activities, Admin(a) PROVE Goal
  BY <1>7, <1>8, <1>11 DEF Admin
<1> QED BY <1>9, <1>10, <1>11 DEF Next

\* Whoever is in two activities booked them at the same time: bookings that follow
\* one another, whatever other visitors and the administrator do, never end so.
THEOREM OneActivityAtATime == Spec => []OneActivityUnlessHasty
<1>1. Init => /\ SerialBookings /\ CopiesFresh
              /\ HastySeen /\ OneActivityUnlessHasty
  BY DEF Init, SerialBookings, CopiesFresh, Holding, HastySeen, Saving,
         OneActivityUnlessHasty
<1> QED BY <1>1, FreshStep, HastyStep, ShapeInvariance, PTL DEF Spec
=============================================================================
