------------------------------ MODULE CrabPanel ------------------------------
(***************************************************************************)
(* The Crusty Crab's panel: a polled menu and one order at a time.  One    *)
(* limited dish stands for the menu.                                       *)
(***************************************************************************)
EXTENDS AirportPanel

CONSTANT DailyStock

VARIABLE stock    \* service: portions left today

MenuKey == <<"menu", Nobody>>

Order ==
  /\ panel = "crab"
  /\ Landed
  /\ q[MenuKey].data = <<"available">>
  /\ ~IsPending({"order"})
  /\ Mutate("order", who, 0)
  /\ UNCHANGED stock

OnOrdered(p) ==
  /\ p.op = "order"
  /\ OnSuccess(p, [q EXCEPT ![MenuKey] = Invalidated(@, Observed(MenuKey))])
  /\ UNCHANGED stock

-----------------------------------------------------------------------------
(* The restaurant service. *)
Menu == IF stock = 0 THEN "sold out" ELSE "available"

PostOrder(p) ==
  /\ p.op = "order"
  /\ p.phase = "sent"
  /\ Replied(p, IF stock = 0 THEN "error" ELSE "ok", 0)
  /\ stock' = IF stock = 0 THEN 0 ELSE stock - 1
  /\ UNCHANGED <<q, page, counters>>

GetMenu == Answer(MenuKey, <<Menu>>) /\ UNCHANGED stock

CrabStep ==
  \/ Order
  \/ \E p \in posts : OnOrdered(p) \/ PostOrder(p)
  \/ GetMenu
=============================================================================
