----------------------------- MODULE BeachPanel ------------------------------
(***************************************************************************)
(* The beach panel: the guest's list of activities behind the landing and  *)
(* check-in gates, and the admin's activities.  The service takes one      *)
(* booking a visitor; a room makes a guest a visitor.                      *)
(***************************************************************************)
EXTENDS HotelPanel

CONSTANT Capacity    \* places of an activity

VARIABLES
  offered,     \* service: the activities there are
  visitors,    \* service: checked-in guests
  bookings     \* service: guest -> <<>> or <<activity>>

beachVars == <<offered, visitors, bookings>>

BookedKey(g) == <<"booked", g>>
ActivitiesKey == <<"activities", Nobody>>

CheckedIn == who \in Guests /\ ~Loading(q[ReservationKey(who)]) /\ Reservation(who) # <<>>

GatesOpen == panel = "beach" /\ Landed /\ CheckedIn

(* The list mounts and unmounts with the gates, its two mutation hooks     *)
(* with it.                                                                *)
ShowList ==
  /\ GatesOpen
  /\ ~list
  /\ list' = TRUE
  /\ q' = MountAll({BookedKey(who), ActivitiesKey})
  /\ UNCHANGED <<who, panel, posts, counters, beachVars>>

HideList ==
  /\ list
  /\ ~GatesOpen
  /\ list' = FALSE
  /\ posts' = Unseen({"book", "unbook"})
  /\ UNCHANGED <<q, who, panel, counters, beachVars>>

(* What ActivitiesList has on screen: a query that failed without data     *)
(* reads as an empty list, or as nothing booked.                           *)
Listed ==
  IF q[ActivitiesKey].data = <<>> THEN {} ELSE q[ActivitiesKey].data[1]

ShowsList ==
  /\ list /\ GatesOpen
  /\ ~Loading(q[ActivitiesKey])
  /\ ~Loading(q[BookedKey(who)])

BookedActivity(g) == IF q[BookedKey(g)].data = <<>> THEN <<>> ELSE q[BookedKey(g)].data[1]

Book(a) ==
  /\ ShowsList
  /\ [activity |-> a, full |-> FALSE] \in Listed
  /\ BookedActivity(who) # <<a>>
  /\ ~IsPending({"book", "unbook"})
  /\ Mutate("book", who, a)
  /\ UNCHANGED beachVars

CancelActivity(a) ==
  /\ ShowsList
  /\ \E full \in BOOLEAN : [activity |-> a, full |-> full] \in Listed
  /\ BookedActivity(who) = <<a>>
  /\ ~IsPending({"book", "unbook"})
  /\ Mutate("unbook", who, a)
  /\ UNCHANGED beachVars

(* invalidate() of useBookActivity and of useManageActivities.  Mutant:    *)
(* only the list of activities is refreshed.                               *)
BeachInvalidatedMutant(g) ==
  [q EXCEPT ![ActivitiesKey] = Invalidated(@, Observed(ActivitiesKey))]
BeachInvalidated(g) ==
  [k \in Keys |-> IF k \in {ActivitiesKey, BookedKey(g)} THEN Invalidated(q[k], Observed(k))
                                                         ELSE q[k]]

OnBeachChanged(p) ==
  /\ p.op \in {"book", "unbook", "add", "remove"}
  /\ OnSuccess(p, BeachInvalidated(p.guest))
  /\ UNCHANGED beachVars

(* The admin's view.  A field the form cannot accept sends nothing. *)
ShowsAdminList == panel = "beach" /\ who = Admin /\ q[ActivitiesKey].data # <<>>

AddActivity(a) ==
  /\ ShowsAdminList
  /\ ~IsPending({"add"})
  /\ Mutate("add", Admin, a)
  /\ UNCHANGED beachVars

RemoveActivity(a) ==
  /\ ShowsAdminList
  /\ \E full \in BOOLEAN : [activity |-> a, full |-> full] \in Listed
  /\ ~IsPending({"remove"})
  /\ Mutate("remove", Admin, a)
  /\ UNCHANGED beachVars

-----------------------------------------------------------------------------
(* The beach service. *)
Booked(a) == {g \in Guests : bookings[g] = <<a>>}
Overview == {[activity |-> a, full |-> Cardinality(Booked(a)) >= Capacity] : a \in offered}

(* The hotel's event reaches the beach. *)
CheckIn(g) ==
  /\ g \notin visitors
  /\ \E i \in DOMAIN reservations : reservations[i].guest = g
  /\ visitors' = visitors \cup {g}
  /\ UNCHANGED <<appVars, offered, bookings>>

Execute(p, accepted) ==
  /\ p.phase = "sent"
  /\ Replied(p, IF accepted THEN "ok" ELSE "error", p.arg)
  /\ UNCHANGED <<page, counters>>

BookActivity(p) ==
  LET accepted == /\ p.arg \in offered
                  /\ p.guest \in visitors
                  /\ bookings[p.guest] = <<>>
                  /\ Cardinality(Booked(p.arg)) < Capacity
  IN  /\ p.op = "book"
      /\ Execute(p, accepted)
      /\ bookings' = IF accepted THEN [bookings EXCEPT ![p.guest] = <<p.arg>>] ELSE bookings
      /\ UNCHANGED <<q, offered, visitors>>

UnbookActivity(p) ==
  /\ p.op = "unbook"
  /\ Execute(p, bookings[p.guest] = <<p.arg>>)
  /\ bookings' = IF bookings[p.guest] = <<p.arg>> THEN [bookings EXCEPT ![p.guest] = <<>>]
                                                  ELSE bookings
  /\ UNCHANGED <<q, offered, visitors>>

CreateActivity(p) ==
  /\ p.op = "add"
  /\ Execute(p, p.arg \notin offered)
  /\ offered' = offered \cup {p.arg}
  /\ UNCHANGED <<q, visitors, bookings>>

(* The bookings go with their activity, and no answer tells the tab whose. *)
DropActivity(p) ==
  /\ p.op = "remove"
  /\ Execute(p, p.arg \in offered)
  /\ offered' = offered \ {p.arg}
  /\ bookings' = [g \in Guests |-> IF bookings[g] = <<p.arg>> THEN <<>> ELSE bookings[g]]
  /\ q' = [k \in Keys |-> IF k \in {BookedKey(g) : g \in Booked(p.arg)} THEN Overlooked(q[k])
                                                                      ELSE q[k]]
  /\ UNCHANGED visitors

GetBooked(g) == Answer(BookedKey(g), <<bookings[g]>>) /\ UNCHANGED beachVars
GetActivities == Answer(ActivitiesKey, <<Overview>>) /\ UNCHANGED beachVars

BeachStep ==
  \/ ShowList
  \/ HideList
  \/ \E a \in Activities : Book(a) \/ CancelActivity(a) \/ AddActivity(a) \/ RemoveActivity(a)
  \/ \E p \in posts : \/ OnBeachChanged(p) \/ BookActivity(p) \/ UnbookActivity(p)
                      \/ CreateActivity(p) \/ DropActivity(p)
  \/ \E g \in Guests : CheckIn(g) \/ GetBooked(g)
  \/ GetActivities
=============================================================================
