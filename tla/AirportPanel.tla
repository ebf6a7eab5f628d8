---------------------------- MODULE AirportPanel -----------------------------
(***************************************************************************)
(* The airport panel and the gate it is for the other panels.  The service *)
(* is reduced to what the panel can tell apart: it adds one arrival per    *)
(* POST, processes each in its time, and answers with the latest.          *)
(***************************************************************************)
EXTENDS IslandApp

VARIABLE arrivals    \* service: guest -> statuses of its arrivals, oldest first

Latest(g) == arrivals[g][Len(arrivals[g])]

ArrivalKey(g) == <<"arrival", g>>

(* useLanded of the guest on the map *)
Landed == who \in Guests /\ q[ArrivalKey(who)].data = <<"processed">>

(* The boarding form is replaced by the status card once there is one. *)
Board ==
  /\ panel = "airport"
  /\ who \in Guests
  /\ q[ArrivalKey(who)].data = <<>>
  /\ ~IsPending({"board"})
  /\ Mutate("board", who, 0)
  /\ UNCHANGED arrivals

(* refetchInterval: poll until the guest is processed. *)
PollArrival(g) ==
  /\ g = who
  /\ q[ArrivalKey(g)].flight = "idle"
  /\ q[ArrivalKey(g)].data # <<"processed">>
  /\ q' = [q EXCEPT ![ArrivalKey(g)] = Begin(@)]
  /\ UNCHANGED <<page, posts, counters, arrivals>>

OnBoarded(p) ==
  /\ p.op = "board"
  /\ OnSuccess(p, [q EXCEPT ![ArrivalKey(p.guest)] = Invalidated(@, p.guest = who)])
  /\ UNCHANGED arrivals

-----------------------------------------------------------------------------
(* The airport service. *)
PostArrival(p) ==
  /\ p.op = "board"
  /\ p.phase = "sent"
  /\ arrivals' = [arrivals EXCEPT ![p.guest] = Append(@, "queued")]
  /\ Replied(p, "ok", p.result)
  /\ UNCHANGED <<q, page, counters>>

GetArrival(g) ==
  /\ Answer(ArrivalKey(g), IF arrivals[g] = <<>> THEN <<>> ELSE <<Latest(g)>>)
  /\ UNCHANGED arrivals

Process(g) ==
  /\ \E i \in DOMAIN arrivals[g] :
       /\ arrivals[g][i] = "queued"
       /\ arrivals' = [arrivals EXCEPT ![g][i] = "processed"]
  /\ UNCHANGED appVars

AirportStep ==
  \/ Board
  \/ \E p \in posts : OnBoarded(p) \/ PostArrival(p)
  \/ \E g \in Guests : PollArrival(g) \/ GetArrival(g) \/ Process(g)
=============================================================================
