------------------------------ MODULE GoatFarm ------------------------------
(***************************************************************************)
(* The goat farm shop (services/goat-farm): a mutex-protected store whose  *)
(* restock timer starts at the first purchase from full stock and is only  *)
(* looked at when a request comes in.  One action is one request; the      *)
(* clock may advance between the reads a request makes of it: a timer may  *)
(* start `lag` and the answer be made `late` after the restock test.       *)
(***************************************************************************)
EXTENDS Integers

CONSTANTS
  Items,             \* the farm's items
  MaxStock,          \* MaxStock[i]: full stock of item i
  RestockInterval,   \* restockInterval, in clock units
  MaxLag,            \* how far the clock moves within one request
  MaxTime            \* bound on the clock

ASSUME GoatFarmAssumption ==
  /\ MaxStock \in [Items -> Nat \ {0}]
  /\ RestockInterval \in Nat \ {0}
  /\ MaxLag \in Nat /\ MaxTime \in Nat

VARIABLES
  stock,       \* Stock of each item
  startedAt,   \* restockStartedAt, Never when zero
  now,         \* the real clock
  quote,       \* SecondsUntilRestock of the last answer
  bought       \* purchases recorded since the last restock, per item

vars == <<stock, startedAt, now, quote, bought>>

Never == -1

TypeOK ==
  /\ stock \in [Items -> Nat] /\ \A i \in Items : stock[i] <= MaxStock[i]
  /\ startedAt \in Nat \cup {Never}
  /\ now \in Nat
  /\ quote \in Nat
  /\ bought \in [Items -> Nat]

Init ==
  /\ stock = MaxStock
  /\ startedAt = Never
  /\ now = 0
  /\ quote = 0
  /\ bought = [i \in Items |-> 0]
-----------------------------------------------------------------------------
\* restockIfNeeded fires: the timer runs and is not before its end.
Due == startedAt # Never /\ now >= startedAt + RestockInterval

\* What restockIfNeeded leaves.  Mutant: the timer is not reset.
StockNow == IF Due THEN MaxStock ELSE stock
BoughtNow == IF Due THEN [i \in Items |-> 0] ELSE bought
TimerNowMutant == startedAt
TimerNow == IF Due THEN Never ELSE startedAt

\* SecondsUntilRestock of stockLocked for a timer started at s, at time t: a
\* timer that does not run counts from now, and an overdue one is clamped.
SecondsUntil(s, t) ==
  LET left == (IF s = Never THEN t ELSE s) + RestockInterval - t
  IN  IF left < 0 THEN 0 ELSE left

\* GET /stock.
Stock(lag) ==
  /\ now + lag <= MaxTime
  /\ now' = now + lag
  /\ stock' = StockNow /\ bought' = BoughtNow /\ startedAt' = TimerNow
  /\ quote' = SecondsUntil(TimerNow, now + lag)

\* POST /purchase without guest, of an unknown item or of one out of stock: the
\* error comes after the restock, which stays.
PurchaseRejected ==
  /\ stock' = StockNow /\ bought' = BoughtNow /\ startedAt' = TimerNow
  /\ UNCHANGED <<now, quote>>

\* A sale under the timer started at `start`, and its answer.
Sell(i, late, start) ==
  /\ now + late <= MaxTime
  /\ now' = now + late
  /\ startedAt' = start
  /\ stock' = [StockNow EXCEPT ![i] = @ - 1]
  /\ bought' = [BoughtNow EXCEPT ![i] = @ + 1]
  /\ quote' = SecondsUntil(start, now + late)

\* Mutant: every purchase restarts the timer.
PurchaseMutant(i, lag, late) ==
  lag <= late /\ StockNow[i] > 0 /\ Sell(i, late, now + lag)

\* POST /purchase of an item in stock; the timer starts only when it is zero.
Purchase(i, lag, late) ==
  /\ lag <= late
  /\ StockNow[i] > 0
  /\ Sell(i, late, IF TimerNow = Never THEN now + lag ELSE TimerNow)

Tick ==
  /\ now < MaxTime
  /\ now' = now + 1
  /\ UNCHANGED <<stock, startedAt, quote, bought>>

Next == \/ \E lag \in 0..MaxLag : Stock(lag)
        \/ \E i \in Items, lag, late \in 0..MaxLag : Purchase(i, lag, late)
        \/ PurchaseRejected
        \/ Tick

Spec == Init /\ [][Next]_vars
-----------------------------------------------------------------------------
\* The timer runs exactly while something was sold since the last restock:
\* stock that is short is always on its way back, and full stock never waits.
TimerIffShort ==
  startedAt # Never <=> \E i \in Items : stock[i] < MaxStock[i]

\* Between two restocks no item is sold more often than its full stock: stock
\* and recorded purchases always add up, across restocks inside a request.
NothingOversold == \A i \in Items : stock[i] + bought[i] = MaxStock[i]

\* No answer announces a restock that lies in the past or further away than one
\* interval, even when the interval ends in the middle of the request.
QuoteInInterval == quote <= RestockInterval /\ quote >= 0

\* A running timer is never pushed back by later purchases: it keeps its start
\* until the interval is over.
NeverPostponed ==
  [][(startedAt # Never /\ startedAt' # Never)
       => startedAt' = startedAt \/ startedAt' >= startedAt + RestockInterval]_vars
=============================================================================
