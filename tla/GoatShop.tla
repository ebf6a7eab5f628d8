------------------------------ MODULE GoatShop -------------------------------
(***************************************************************************)
(* The goat farm with one guest's popup: a query that is only enabled      *)
(* while the popup is open, a countdown computed from its last answer, and *)
(* an effect that asks again when the countdown ends.  React runs that     *)
(* effect again only when the popup or the number shown has changed.       *)
(* Every other request to the farm is another guest's.                     *)
(***************************************************************************)
EXTENDS GoatFarm, QueryCache

CONSTANT MaxFailures    \* bound on fetches of the popup that fail

VARIABLES
  open,
  updatedAt,   \* dataUpdatedAt
  nowMs,       \* the popup's clock, moved by its interval
  shown,       \* secondsUntilRestock of the last render, Null before any data
  timeout,     \* the effect's timeout is pending
  buying,      \* the popup's purchase: [item, phase], phase "none" without one
  failures

popup == <<open, updatedAt, nowMs, shown, timeout, buying>>
shopVars == <<vars, q, popup, failures>>

Null == -1
NoPurchase == [item |-> "", phase |-> "none"]

(* A shelf that was updated after the interval's last tick makes the       *)
(* countdown start above the farm's number.                                *)
SecondsUntilRestock(data, at, clock) ==
  IF data = <<>> THEN Null
  ELSE LET left == data[1].quote - (clock - at) IN IF left < 0 THEN 0 ELSE left

(* Mutant: the countdown, which is clamped at zero, has to fall below it. *)
ExpiredMutant(seconds) == seconds < 0 /\ seconds # Null
Expired(seconds) == seconds = 0

Render(isOpen, data, at, clock) ==
  LET seconds == SecondsUntilRestock(data, at, clock)
  IN  /\ open' = isOpen
      /\ updatedAt' = at
      /\ nowMs' = clock
      /\ shown' = seconds
      /\ timeout' = IF isOpen # open \/ seconds # shown
                    THEN isOpen /\ Expired(seconds) ELSE timeout

-----------------------------------------------------------------------------
Toggle ==
  /\ q' = IF open THEN q ELSE Mounted(q)
  /\ Render(~open, q.data, updatedAt, nowMs)
  /\ UNCHANGED <<vars, buying, failures>>

IntervalTick ==
  /\ open
  /\ nowMs # now
  /\ Render(open, q.data, updatedAt, now)
  /\ UNCHANGED <<vars, q, buying, failures>>

TimeoutFires ==
  /\ timeout
  /\ timeout' = FALSE
  /\ q' = Begin(q)
  /\ UNCHANGED <<vars, open, updatedAt, nowMs, shown, buying, failures>>

GetStock(lag) ==
  /\ q.flight = "sent"
  /\ Stock(lag)
  /\ q' = [q EXCEPT !.flight = "read", !.answer = <<[quote |-> quote', stock |-> stock']>>]
  /\ UNCHANGED <<popup, failures>>

FetchFails ==
  /\ q.flight = "sent"
  /\ failures < MaxFailures
  /\ q' = [q EXCEPT !.flight = "failed"]
  /\ failures' = failures + 1
  /\ UNCHANGED <<vars, popup>>

Settle ==
  /\ q.flight \in {"read", "failed"}
  /\ q' = Settled(q)
  /\ Render(open, Settled(q).data, IF q.flight = "read" THEN now ELSE updatedAt, nowMs)
  /\ UNCHANGED <<vars, buying, failures>>

Buy(i) ==
  /\ open
  /\ q.data # <<>> /\ q.data[1].stock[i] > 0
  /\ buying.phase = "none"
  /\ buying' = [item |-> i, phase |-> "sent"]
  /\ UNCHANGED <<vars, q, open, updatedAt, nowMs, shown, timeout, failures>>

PostPurchase(lag, late) ==
  /\ buying.phase = "sent"
  /\ \/ /\ Purchase(buying.item, lag, late)
        /\ buying' = [buying EXCEPT !.phase = "ok"]
     \/ /\ StockNow[buying.item] = 0
        /\ PurchaseRejected
        /\ buying' = [buying EXCEPT !.phase = "error"]
  /\ UNCHANGED <<q, open, updatedAt, nowMs, shown, timeout, failures>>

Bought ==
  /\ buying.phase \in {"ok", "error"}
  /\ q' = IF buying.phase = "ok" THEN Invalidated(q, open) ELSE q
  /\ buying' = NoPurchase
  /\ UNCHANGED <<vars, open, updatedAt, nowMs, shown, timeout, failures>>

ShopInit ==
  /\ Init
  /\ q = Fresh
  /\ open = FALSE
  /\ updatedAt = 0
  /\ nowMs = 0
  /\ shown = Null
  /\ timeout = FALSE
  /\ buying = NoPurchase
  /\ failures = 0

ShopNext ==
  \/ Next /\ UNCHANGED <<q, popup, failures>>
  \/ Toggle
  \/ IntervalTick
  \/ TimeoutFires
  \/ \E lag \in 0..MaxLag : GetStock(lag)
  \/ \E lag, late \in 0..MaxLag : PostPurchase(lag, late)
  \/ FetchFails
  \/ Settle
  \/ \E i \in Items : Buy(i)
  \/ Bought

ShopSpec == ShopInit /\ [][ShopNext]_shopVars

-----------------------------------------------------------------------------
(* An open popup whose countdown is over looks at the farm again.  It      *)
(* stays at zero with nothing pending only if that request failed, or if   *)
(* the farm itself answered zero, which it does when the interval ends     *)
(* between its two looks at the clock (goat-farm-popup.tsx).               *)
StuckOnlyByTheFarm ==
  open /\ shown = 0 /\ q.flight = "idle" /\ ~timeout
    => q.status = "error" \/ q.data[1].quote = 0
=============================================================================
