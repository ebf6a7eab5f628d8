---------------------------- MODULE HotelProofs ----------------------------
(***************************************************************************)
(* Proofs about HotelReservations, for any number of requests, rooms and   *)
(* stays.  The inductive invariant ties a request's progress to the row it *)
(* may own (Linked) and records what the room count established (Apart).   *)
(***************************************************************************)
EXTENDS HotelReservations, TLAPS

Chosen == {"create", "publish", "done"}

Linked ==
  /\ \A r \in Requests : pc[r] # "new" => dto[r] \in Stays
  /\ \A r \in Requests : status[r] = "none" <=> pc[r] \notin {"publish", "done"}
  /\ \A r \in Requests : pc[r] = "count" => todo[r] \subseteq Fitting(dto[r])
  /\ \A r \in Requests : pc[r] \in Chosen => room[r] \in Fitting(dto[r])
  /\ \A c \in Cancels : cpc[c] = "update" =>
       cid[c] \in Requests /\ status[cid[c]] # "none"
  /\ \A c \in Cancels : cpc[c] = "publish" =>
       cid[c] \in Requests /\ status[cid[c]] = "CANCELLED"

\* What the count found: a row it saw in the chosen room lies apart from the
\* stay as long as that row is confirmed.
Apart ==
  \A q, r \in Requests :
    q \in counted[r] =>
      /\ status[q] # "none"
      /\ (pc[r] \in Chosen /\ status[q] = "CONFIRMED" /\ room[q] = room[r])
           => ~Overlaps(dto[q], dto[r])

HotelInv == TypeOK /\ Linked /\ Apart

\* The inductive invariant holds of the seeded hotel.
LEMMA InitHotel == Init => HotelInv
  BY HotelAssumption DEF Init, HotelInv, TypeOK, Linked, Apart, Chosen, PostPc, CancelPc

\* The steps of a POST before it has a room.
LEMMA LookupStep ==
  ASSUME HotelInv, NEW r \in Requests,
         \/ \E s \in Stays : Create(r, s)
         \/ \E answer \in {"yes", "no", "null"} : CheckAirport(r, answer)
         \/ FindRooms(r)
  PROVE  HotelInv'
<1> USE DEF HotelInv
<1>1. CASE \E s \in Stays : Create(r, s)
  <2> PICK s \in Stays : Create(r, s) BY <1>1
  <2>1. TypeOK' BY DEF TypeOK, Create, PostPc, cancelVars, Linked
  <2>2. Linked' BY DEF Linked, Create, TypeOK, cancelVars, Chosen, Fitting, OfType
  <2>3. Apart' BY DEF Apart, Linked, Create, TypeOK, cancelVars, Chosen
  <2> QED BY <2>1, <2>2, <2>3
<1>2. CASE \E answer \in {"yes", "no", "null"} : CheckAirport(r, answer)
  <2> PICK answer \in {"yes", "no", "null"} : CheckAirport(r, answer) BY <1>2
  <2>1. TypeOK' BY DEF TypeOK, CheckAirport, PostPc, cancelVars
  <2>2. Linked' BY DEF Linked, CheckAirport, TypeOK, cancelVars, Chosen, Fitting, OfType
  <2>3. Apart' BY DEF Apart, CheckAirport, TypeOK, cancelVars, Chosen
  <2> QED BY <2>1, <2>2, <2>3
<1>3. CASE FindRooms(r)
  <2>0. Fitting(dto[r]) \subseteq Rooms BY DEF Fitting, OfType
  <2>1. TypeOK' BY <1>3, <2>0 DEF TypeOK, FindRooms, PostPc, cancelVars
  <2>2. Linked' BY <1>3 DEF Linked, FindRooms, TypeOK, cancelVars, Chosen, Fitting, OfType
  <2>3. Apart' BY <1>3 DEF Apart, FindRooms, TypeOK, cancelVars, Chosen
  <2> QED BY <2>1, <2>2, <2>3
<1> QED BY <1>1, <1>2, <1>3

\* The room count: a free room starts out apart from every confirmed row.
LEMMA CountStep ==
  ASSUME HotelInv, NEW r \in Requests, NEW m \in Rooms,
         CountFree(r, m) \/ CountTaken(r, m)
  PROVE  HotelInv'
<1> USE DEF HotelInv
<1>1. CASE CountFree(r, m)
  <2> DEFINE seen == {q \in Requests : status[q] = "CONFIRMED"}
  <2>1. TypeOK' BY <1>1 DEF TypeOK, CountFree, PostPc, cancelVars, Linked
  <2>2. Linked' BY <1>1 DEF Linked, CountFree, TypeOK, cancelVars, Chosen, Fitting, OfType
  <2>3. ASSUME NEW p \in Requests, NEW q \in Requests, q \in counted'[p]
        PROVE  /\ status'[q] # "none"
               /\ (pc'[p] \in Chosen /\ status'[q] = "CONFIRMED" /\ room'[q] = room'[p])
                    => ~Overlaps(dto'[q], dto'[p])
    <3>0. status' = status /\ dto' = dto BY <1>1 DEF CountFree
    <3>1. CASE p = r
      <4>1. q \in seen BY <1>1, <2>3, <3>1 DEF CountFree, TypeOK
      <4>2. q # r BY <4>1, <1>1 DEF Linked, CountFree, TypeOK
      <4>3. room'[q] = room[q] /\ room'[r] = m BY <1>1, <4>2 DEF CountFree, TypeOK
      <4>4. room[q] = m => ~Overlaps(dto[q], dto[r])
        BY <1>1, <4>1 DEF CountFree, Taken
      <4> QED BY <3>0, <3>1, <4>1, <4>3, <4>4
    <3>2. CASE p # r
      <4>1. q \in counted[p] /\ pc'[p] = pc[p] BY <1>1, <2>3, <3>2 DEF CountFree, TypeOK
      <4>2. status[q] # "none" BY <4>1 DEF Apart
      <4>3. q # r BY <4>2, <1>1 DEF Linked, CountFree
      <4>4. room'[q] = room[q] /\ room'[p] = room[p] BY <1>1, <3>2, <4>3 DEF CountFree, TypeOK
      <4> QED BY <3>0, <4>1, <4>2, <4>4 DEF Apart
    <3> QED BY <3>1, <3>2
  <2>4. Apart' BY <2>3 DEF Apart, Overlaps
  <2> QED BY <2>1, <2>2, <2>4
<1>2. CASE CountTaken(r, m)
  <2>1. TypeOK' BY <1>2 DEF TypeOK, CountTaken, PostPc, cancelVars
  <2>2. Linked' BY <1>2 DEF Linked, CountTaken, TypeOK, cancelVars, Chosen, Fitting, OfType
  <2>3. Apart' BY <1>2 DEF Apart, CountTaken, TypeOK, cancelVars, Chosen
  <2> QED BY <2>1, <2>2, <2>3
<1> QED BY <1>1, <1>2

\* The insert: nobody can have counted the row before it exists.
LEMMA InsertStep ==
  ASSUME HotelInv, NEW r \in Requests, InsertRow(r) \/ InsertFails(r)
  PROVE  HotelInv'
<1> USE DEF HotelInv
<1>1. CASE InsertRow(r)
  <2>0. room[r] \in Rooms /\ dto[r] \in Stays
    BY <1>1 DEF InsertRow, Linked, Chosen, Fitting, OfType
  <2>1. TypeOK' BY <1>1, <2>0 DEF TypeOK, InsertRow, PostPc, cancelVars
  <2>2. Linked' BY <1>1 DEF Linked, InsertRow, TypeOK, cancelVars, Chosen, Fitting, OfType
  <2>3. \A p \in Requests : r \notin counted[p]
    BY <1>1 DEF Apart, Linked, InsertRow
  <2>4. Apart' BY <1>1, <2>3 DEF Apart, InsertRow, TypeOK, cancelVars, Chosen
  <2> QED BY <2>1, <2>2, <2>4
<1>2. CASE InsertFails(r)
  <2>1. TypeOK' BY <1>2 DEF TypeOK, InsertFails, PostPc, cancelVars
  <2>2. Linked' BY <1>2 DEF Linked, InsertFails, TypeOK, cancelVars, Chosen, Fitting, OfType
  <2>3. Apart' BY <1>2 DEF Apart, InsertFails, TypeOK, cancelVars, Chosen
  <2> QED BY <2>1, <2>2, <2>3
<1> QED BY <1>1, <1>2

\* Publishing keeps the list of events well typed.
LEMMA PublishType ==
  ASSUME NEW type \in EventTypes, NEW r \in Requests, NEW delivered \in BOOLEAN,
         TypeOK, Publish(type, r, delivered)
  PROVE  events' \in Seq(EventTypes \X Requests)
  BY DEF Publish, TypeOK

\* The confirmation event leaves rows and requests as they are.
LEMMA PublishStep ==
  ASSUME HotelInv, NEW r \in Requests, NEW delivered \in BOOLEAN,
         PublishConfirmed(r, delivered)
  PROVE  HotelInv'
<1> USE DEF HotelInv
<1>1. events' \in Seq(EventTypes \X Requests)
  BY PublishType DEF PublishConfirmed, EventTypes
<1>2. TypeOK' BY <1>1 DEF TypeOK, PublishConfirmed, PostPc, cancelVars
<1>3. Linked' BY DEF Linked, PublishConfirmed, TypeOK, cancelVars, Chosen, Fitting, OfType
<1>4. Apart' BY DEF Apart, PublishConfirmed, TypeOK, cancelVars, Chosen
<1> QED BY <1>2, <1>3, <1>4

\* A cancellation changes a row that exists, and only to CANCELLED.
LEMMA CancelStep ==
  ASSUME HotelInv, NEW c \in Cancels, Cancel(c)
  PROVE  HotelInv'
<1> USE DEF HotelInv
<1>1. CASE \E r \in Requests : CancelFind(c, r)
  <2> PICK r \in Requests : CancelFind(c, r) BY <1>1
  <2>1. TypeOK' BY DEF TypeOK, CancelFind, CancelPc, postVars
  <2>2. Linked' BY DEF Linked, CancelFind, TypeOK, postVars, Chosen, Fitting, OfType
  <2>3. Apart' BY DEF Apart, CancelFind, postVars
  <2> QED BY <2>1, <2>2, <2>3
<1>2. CASE CancelUpdate(c)
  <2>0. cid[c] \in Requests /\ status[cid[c]] # "none"
    BY <1>2 DEF Linked, CancelUpdate
  <2>1. TypeOK' BY <1>2, <2>0 DEF TypeOK, CancelUpdate, CancelPc, postVars
  <2>2. Linked' BY <1>2, <2>0 DEF Linked, CancelUpdate, TypeOK, postVars, Chosen, Fitting, OfType
  <2>3. Apart' BY <1>2, <2>0 DEF Apart, CancelUpdate, TypeOK, postVars
  <2> QED BY <2>1, <2>2, <2>3
<1>3. CASE \E delivered \in BOOLEAN : PublishCancelled(c, delivered)
  <2> PICK delivered \in BOOLEAN : PublishCancelled(c, delivered) BY <1>3
  <2>0. cid[c] \in Requests BY DEF PublishCancelled, Linked
  <2>1. events' \in Seq(EventTypes \X Requests)
    BY <2>0, PublishType DEF PublishCancelled, EventTypes
  <2>2. TypeOK' BY <2>1 DEF TypeOK, PublishCancelled, CancelPc, postVars
  <2>3. Linked' BY DEF Linked, PublishCancelled, TypeOK, postVars, Chosen, Fitting, OfType
  <2>4. Apart' BY DEF Apart, PublishCancelled, postVars
  <2> QED BY <2>2, <2>3, <2>4
<1> QED BY <1>1, <1>2, <1>3 DEF Cancel

\* The inductive invariant holds in every reachable state.
LEMMA HotelInvariance == Spec => []HotelInv
<1>1. ASSUME HotelInv, [Next]_vars PROVE HotelInv'
  <2>1. ASSUME NEW r \in Requests, Post(r) PROVE HotelInv'
    BY <1>1, <2>1, LookupStep, CountStep, InsertStep, PublishStep DEF Post
  <2>2. CASE UNCHANGED vars
    BY <1>1, <2>2 DEF HotelInv, TypeOK, Linked, Apart, vars, postVars, cancelVars,
                      Chosen, Fitting, OfType
  <2> QED BY <1>1, <2>1, <2>2, CancelStep DEF Next
<1> QED BY <1>1, InitHotel, PTL DEF Spec

\* Type correctness, the foreign key of every row included.
THEOREM HotelTypeCorrect == Spec => []TypeOK
<1>1. HotelInv => TypeOK BY DEF HotelInv
<1> QED BY <1>1, HotelInvariance, PTL

\* A double booking needs two requests that both counted before either row was
\* inserted: no request books over a reservation it could have seen.
THEOREM RacedOnly == Spec => []ClashOnlyWhenRaced
<1>1. HotelInv => ClashOnlyWhenRaced
  <2> SUFFICES ASSUME HotelInv, NEW q \in Requests, NEW r \in Requests, Clash(q, r)
               PROVE  q \notin counted[r] /\ r \notin counted[q]
    BY DEF ClashOnlyWhenRaced
  <2>1. dto[q] \in StayRecord /\ dto[r] \in StayRecord
    BY HotelAssumption DEF HotelInv, TypeOK, Clash
  <2>2. Overlaps(dto[q], dto[r]) /\ Overlaps(dto[r], dto[q])
    BY <2>1 DEF Clash, SharesNight, Overlaps, StayRecord
  <2>3. pc[q] \in Chosen /\ pc[r] \in Chosen
    BY DEF HotelInv, Linked, Clash, Chosen
  <2> QED BY <2>2, <2>3 DEF HotelInv, Apart, Clash
<1> QED BY <1>1, HotelInvariance, PTL

\* Every confirmed reservation is in a room of its type that holds its party.
THEOREM PartyHasRoom == Spec => []PartyFits
<1>1. HotelInv => PartyFits
  BY DEF HotelInv, Linked, PartyFits, Chosen, Fitting, OfType, PartySize
<1> QED BY <1>1, HotelInvariance, PTL

\* A row is never removed and a cancelled row stays cancelled, so that what was
\* announced about it stays true.
LEMMA RowsStay ==
  ASSUME HotelInv, [Next]_vars, NEW r \in Requests
  PROVE  /\ status[r] # "none" => status'[r] # "none"
         /\ status[r] = "CANCELLED" => status'[r] = "CANCELLED"
<1> USE DEF HotelInv, TypeOK
<1>1. ASSUME NEW q \in Requests, Post(q) PROVE status' = status \/ InsertRow(q)
  BY <1>1 DEF Post, Create, CheckAirport, FindRooms, CountFree, CountTaken, InsertFails,
     PublishConfirmed
<1>2. ASSUME NEW q \in Requests, InsertRow(q)
      PROVE  status[q] = "none" /\ status' = [status EXCEPT ![q] = "CONFIRMED"]
  BY <1>2 DEF InsertRow, Linked
<1>3. ASSUME NEW c \in Cancels, Cancel(c)
      PROVE  \/ status' = status
             \/ /\ cid[c] \in Requests /\ status[cid[c]] # "none"
                /\ status' = [status EXCEPT ![cid[c]] = "CANCELLED"]
  BY <1>3 DEF Cancel, CancelFind, CancelUpdate, PublishCancelled, Linked
<1>4. CASE UNCHANGED vars
  BY <1>4 DEF vars
<1> QED
  BY <1>1, <1>2, <1>3, <1>4 DEF Next

\* Whoever publishes has written the row first.
LEMMA PublishedIsTrue ==
  ASSUME HotelInv, [Next]_vars
  PROVE  \/ events' = events
         \/ \E e \in EventTypes \X Requests :
              /\ events' = Append(events, e) /\ status' = status
              /\ status[e[2]] # "none"
              /\ e[1] = "reservation_cancelled" => status[e[2]] = "CANCELLED"
<1> USE DEF HotelInv
<1>1. ASSUME NEW r \in Requests, NEW delivered \in BOOLEAN, PublishConfirmed(r, delivered),
             events' # events
      PROVE  /\ events' = Append(events, <<"reservation_confirmed", r>>)
             /\ status' = status /\ status[r] # "none"
  BY <1>1 DEF PublishConfirmed, Publish, Linked
<1>2. ASSUME NEW c \in Cancels, NEW delivered \in BOOLEAN, PublishCancelled(c, delivered),
             events' # events
      PROVE  /\ events' = Append(events, <<"reservation_cancelled", cid[c]>>)
             /\ status' = status /\ cid[c] \in Requests /\ status[cid[c]] = "CANCELLED"
  BY <1>2 DEF PublishCancelled, Publish, Linked
<1>3. ASSUME NEW r \in Requests, Post(r)
      PROVE  events' = events \/ \E delivered \in BOOLEAN : PublishConfirmed(r, delivered)
  BY <1>3 DEF Post, Create, CheckAirport, FindRooms, CountFree, CountTaken, InsertRow,
     InsertFails
<1>4. ASSUME NEW c \in Cancels, Cancel(c)
      PROVE  events' = events \/ \E delivered \in BOOLEAN : PublishCancelled(c, delivered)
  BY <1>4 DEF Cancel, CancelFind, CancelUpdate
<1>5. CASE \E r \in Requests : Post(r)
  <2>1. PICK r \in Requests : Post(r)
    BY <1>5
  <2>2. CASE events' # events
    <3>1. PICK delivered \in BOOLEAN : PublishConfirmed(r, delivered)
      BY <2>1, <2>2, <1>3
    <3> DEFINE e == <<"reservation_confirmed", r>>
    <3>2. e \in EventTypes \X Requests /\ e[2] = r /\ e[1] # "reservation_cancelled"
      BY DEF EventTypes
    <3> QED
      BY <3>1, <3>2, <2>2, <1>1
  <2> QED
    BY <2>2
<1>6. CASE \E c \in Cancels : Cancel(c)
  <2>1. PICK c \in Cancels : Cancel(c)
    BY <1>6
  <2>2. CASE events' # events
    <3>1. PICK delivered \in BOOLEAN : PublishCancelled(c, delivered)
      BY <2>1, <2>2, <1>4
    <3> DEFINE e == <<"reservation_cancelled", cid[c]>>
    <3>2. e \in EventTypes \X Requests /\ e[2] = cid[c] /\ e[1] = "reservation_cancelled"
      BY <3>1, <2>2, <1>2 DEF EventTypes
    <3> QED
      BY <3>1, <3>2, <2>2, <1>2
  <2> QED
    BY <2>2
<1>7. CASE UNCHANGED vars
  BY <1>7 DEF vars
<1> QED
  BY <1>5, <1>6, <1>7 DEF Next

\* Whatever Broadcast hears of a reservation, the table says so too, then and ever
\* after, for any interleaving of requests and cancellations.
THEOREM EventsAreTrue == Spec => []EventsFollowTable
<1> DEFINE told(e, st) == /\ st[e[2]] \in {"CONFIRMED", "CANCELLED"}
                          /\ e[1] = "reservation_cancelled" => st[e[2]] = "CANCELLED"
           Told == \A i \in DOMAIN events : told(events[i], status)
<1>1. Init => Told
  BY DEF Init
<1>2. ASSUME HotelInv, Told, [Next]_vars, HotelInv' PROVE Told'
  <2> SUFFICES ASSUME NEW i \in DOMAIN events' PROVE told(events'[i], status')
    OBVIOUS
  <2>0. /\ events \in Seq(EventTypes \X Requests) /\ events' \in Seq(EventTypes \X Requests)
        /\ status \in [Requests -> {"none", "CONFIRMED", "CANCELLED"}]
        /\ status' \in [Requests -> {"none", "CONFIRMED", "CANCELLED"}]
    BY <1>2 DEF HotelInv, TypeOK
  <2>1. ASSUME NEW e \in EventTypes \X Requests, told(e, status) PROVE told(e, status')
    <3>1. e[2] \in Requests
      OBVIOUS
    <3> QED
      BY <1>2, <2>0, <2>1, <3>1, RowsStay
  <2>2. CASE i \in DOMAIN events /\ events'[i] = events[i]
    <3>1. events[i] \in EventTypes \X Requests
      BY <2>0, <2>2
    <3> QED
      BY <1>2, <2>1, <2>2, <3>1
  <2>3. CASE ~ (i \in DOMAIN events /\ events'[i] = events[i])
    <3>1. PICK e \in EventTypes \X Requests :
            /\ events' = Append(events, e) /\ status' = status
            /\ status[e[2]] # "none"
            /\ e[1] = "reservation_cancelled" => status[e[2]] = "CANCELLED"
      BY <1>2, <2>3, PublishedIsTrue
    <3>2. events'[i] = e
      BY <2>0, <2>3, <3>1
    <3> QED
      BY <2>0, <3>1, <3>2
  <2> QED
    BY <2>2, <2>3
<1>3. Told => EventsFollowTable
  BY DEF EventsFollowTable
<1> HIDE DEF Told
<1> QED
  BY <1>1, <1>2, <1>3, HotelInvariance, PTL DEF Spec
=============================================================================
