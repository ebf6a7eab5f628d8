------------------------------ MODULE IslandApp ------------------------------
(***************************************************************************)
(* What the zone panels of the map page have in common: who is on the map, *)
(* which panel is open, the cache of the tab, and the requests under way   *)
(* (api-client.ts).  Of a failed POST the client cannot tell whether the   *)
(* service has executed it; bounds limit how many requests of each kind a  *)
(* behaviour has, not when they happen.                                    *)
(***************************************************************************)
EXTENDS QueryCache

CONSTANTS
  Guests, Admin, Nobody,
  Activities,
  MaxPosts,        \* bound on mutations sent
  MaxUpsets,       \* bound on failures, refetches by focus and expiries
  MaxVisits        \* bound on sessions and panels opened

VARIABLES
  who,        \* whose session is on the map page, Nobody on the other pages
  panel,      \* the open zone panel, or "none"
  list,       \* the beach panel shows its list of activities
  posts,      \* mutations under way
  sent, upsets, visits

page == <<who, panel, list>>
counters == <<sent, upsets, visits>>
appVars == <<q, page, posts, counters>>

Keys == ({"arrival", "reservation", "booked", "history"} \X Guests)
        \cup ({"activities", "menu"} \X {Nobody})

(* The queries some mounted component uses: the zone markers need to know  *)
(* whether the guest has landed and has a room.                            *)
Observed(k) ==
  CASE k[1] \in {"arrival", "reservation"} -> k[2] = who
    [] k[1] = "booked" -> list /\ k[2] = who
    [] k[1] = "activities" -> list \/ (panel = "beach" /\ who = Admin)
    [] k[1] = "menu" -> panel = "crab"
    [] k[1] = "history" -> panel = "parrot" /\ k[2] = who

(* The queries mounted with a panel; the crab panel loads the menu for an  *)
(* admin too, the activities come with their list.                         *)
PanelKeys(z) ==
  {<<"arrival", who>>}
  \cup (CASE z \in {"hotel", "beach"} -> {<<"reservation", who>>}
          [] z = "crab" -> {<<"menu", Nobody>>}
          [] z = "parrot" -> {<<"history", who>>}
          [] OTHER -> {})
  \cup (IF z = "beach" /\ who = Admin THEN {<<"activities", Nobody>>} ELSE {})

MountAll(keys) == [k \in Keys |-> IF k \in keys THEN Mounted(q[k]) ELSE q[k]]

(* Unmounting a component unmounts its mutation hooks: nobody sees the     *)
(* mutation pending any more, but its callbacks still run.                 *)
Unseen(ops) == {[p EXCEPT !.shown = p.shown /\ p.op \notin ops] : p \in posts}

-----------------------------------------------------------------------------
EnterMap(w) ==
  /\ who = Nobody
  /\ visits < MaxVisits
  /\ who' = w
  /\ q' = MountAll({"arrival", "reservation"} \X {w})
  /\ visits' = visits + 1
  /\ UNCHANGED <<panel, list, posts, sent, upsets>>

SwitchSession(ops) ==
  /\ who # Nobody
  /\ who' = Nobody
  /\ panel' = "none"
  /\ list' = FALSE
  /\ posts' = Unseen(ops)
  /\ UNCHANGED <<q, counters>>

OpenPanel(z) ==
  /\ who # Nobody
  /\ panel = "none"
  /\ visits < MaxVisits
  /\ panel' = z
  /\ q' = MountAll(PanelKeys(z))
  /\ visits' = visits + 1
  /\ UNCHANGED <<who, list, posts, sent, upsets>>

ClosePanel(ops) ==
  /\ panel # "none"
  /\ panel' = "none"
  /\ list' = FALSE
  /\ posts' = Unseen(ops)
  /\ UNCHANGED <<q, who, counters>>

(* The window regains focus, or a marker renders after its entry was       *)
(* removed.                                                                *)
Refetch(k) ==
  /\ Observed(k)
  /\ q[k].flight = "idle"
  /\ q[k].status = "pending" \/ upsets < MaxUpsets
  /\ upsets' = IF q[k].status = "pending" THEN upsets ELSE upsets + 1
  /\ q' = [q EXCEPT ![k] = Begin(@)]
  /\ UNCHANGED <<page, posts, sent, visits>>

-----------------------------------------------------------------------------
(* A fetch reads the service: value is <<>> for an error response. *)
Answer(k, value) ==
  /\ q[k].flight = "sent"
  /\ q' = [q EXCEPT ![k].flight = IF value = <<>> THEN "failed" ELSE "read",
                    ![k].answer = value]
  /\ UNCHANGED <<page, posts, counters>>

FetchFails(k) ==
  /\ q[k].flight = "sent"
  /\ upsets < MaxUpsets
  /\ q' = [q EXCEPT ![k].flight = "failed"]
  /\ upsets' = upsets + 1
  /\ UNCHANGED <<page, posts, sent, visits>>

Settle(k) ==
  /\ q[k].flight \in {"read", "failed"}
  /\ q' = [q EXCEPT ![k] = Settled(@)]
  /\ UNCHANGED <<page, posts, counters>>

-----------------------------------------------------------------------------
IsPending(ops) == \E p \in posts : p.shown /\ p.op \in ops

Mutate(op, g, arg) ==
  /\ sent < MaxPosts
  /\ sent' = sent + 1
  /\ posts' = posts \cup {[n |-> sent + 1, op |-> op, guest |-> g, arg |-> arg,
                           phase |-> "sent", result |-> arg, shown |-> TRUE]}
  /\ UNCHANGED <<q, page, upsets, visits>>

Replied(p, phase, result) ==
  posts' = (posts \ {p}) \cup {[p EXCEPT !.phase = phase, !.result = result]}

(* The request does not reach the service. *)
PostFails(p) ==
  /\ p.phase = "sent"
  /\ upsets < MaxUpsets
  /\ Replied(p, "error", p.result)
  /\ upsets' = upsets + 1
  /\ UNCHANGED <<q, page, sent, visits>>

(* The service's answer does not reach the client; keys are the queries it *)
(* would have made the client look at.                                     *)
AnswerLost(p, keys) ==
  /\ p.phase = "ok"
  /\ upsets < MaxUpsets
  /\ Replied(p, "error", p.result)
  /\ q' = [k \in Keys |-> IF k \in keys THEN Overlooked(q[k]) ELSE q[k]]
  /\ upsets' = upsets + 1
  /\ UNCHANGED <<page, sent, visits>>

(* onError only shows the message. *)
OnMutationError(p) ==
  /\ p.phase = "error"
  /\ posts' = posts \ {p}
  /\ UNCHANGED <<q, page, counters>>

(* The client's side of onSuccess: cache is what it makes of the cache. *)
OnSuccess(p, cache) ==
  /\ p.phase = "ok"
  /\ posts' = posts \ {p}
  /\ q' = cache
  /\ UNCHANGED <<page, counters>>

AppInit ==
  /\ q = [k \in Keys |-> Fresh]
  /\ who = Nobody
  /\ panel = "none"
  /\ list = FALSE
  /\ posts = {}
  /\ sent = 0 /\ upsets = 0 /\ visits = 0
=============================================================================
