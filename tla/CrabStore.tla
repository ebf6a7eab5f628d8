----------------------------- MODULE CrabStore -----------------------------
(***************************************************************************)
(* The Crusty Crab restaurant (services/crab): a mutex-protected menu with *)
(* daily stocks, reset by the first request that sees a later game day,    *)
(* and the events its goroutines post to Broadcast in any order.           *)
(*                                                                         *)
(* Quantities are Go ints: sums wrap around at MaxInt.                     *)
(***************************************************************************)
EXTENDS Integers, Sequences

CONSTANTS
  Items,        \* the menu
  DailyStock,   \* DailyStock[i]: a number, or Unlimited for a nil pointer
  Baskets,      \* the bodies of POST /orders: sequences of [item, qty]
  MaxInt,       \* the largest int
  Days,         \* the game days the clock may show
  MaxOrders,    \* bound on orders served
  Unlimited

Ints == (-MaxInt - 1)..MaxInt

ASSUME CrabAssumption ==
  /\ MaxInt \in Nat
  /\ \A i \in Items : DailyStock[i] = Unlimited \/ DailyStock[i] \in 0..MaxInt
  /\ Unlimited \notin Nat /\ "order_placed" \notin Items
  /\ Days \subseteq Int /\ Days # {}
  /\ \A b \in Baskets : b \in Seq([item : STRING, qty : Ints])
  /\ MaxOrders \in Nat

VARIABLES
  day,             \* cfg.GameDay(): the wall clock, which may be set back
  lastRestockDay,
  sold,            \* Sold of each item
  orders,          \* the orders map, in insertion order: [day, basket]
  inFlight,        \* events whose goroutine has not posted them yet
  heard,           \* events Broadcast received
  served           \* history: what was handed out since the last restock

vars == <<day, lastRestockDay, sold, orders, inFlight, heard, served>>

\* An event names the order it came from, and the item that sold out with it.
EventTypes == {"order_placed"} \cup Items
Event(kind, n) == <<kind, n>>

TypeOK ==
  /\ day \in Days /\ lastRestockDay \in Days
  /\ sold \in [Items -> Ints]
  /\ orders \in Seq([day : Days, basket : Baskets])
  /\ inFlight \subseteq (EventTypes \X Nat)
  /\ heard \subseteq (EventTypes \X Nat)
  /\ served \in [Items -> Nat]

Init ==
  /\ day \in Days /\ lastRestockDay = day
  /\ sold = [i \in Items |-> 0]
  /\ orders = <<>>
  /\ inFlight = {} /\ heard = {}
  /\ served = [i \in Items |-> 0]
-----------------------------------------------------------------------------
\* The int that a sum or difference of two ints becomes.
Wrap(n) == IF n > MaxInt THEN n - 2 * (MaxInt + 1)
           ELSE IF n < -MaxInt - 1 THEN n + 2 * (MaxInt + 1) ELSE n

\* d[1] + ... + d[n], as numbers and as ints.
SumTo(d, n) ==
  LET s[k \in 0..n] == IF k = 0 THEN 0 ELSE s[k - 1] + d[k] IN s[n]
IntSumTo(d, n) ==
  LET s[k \in 0..n] == IF k = 0 THEN 0 ELSE Wrap(s[k - 1] + d[k]) IN s[n]

\* What each line of a basket asks for of item i.
LinesOf(basket, i) ==
  [n \in 1..Len(basket) |-> IF basket[n].item = i THEN basket[n].qty ELSE 0]

\* want[i] of a basket, and what its lines really add up to.
Want(basket, i) == IntSumTo(LinesOf(basket, i), Len(basket))
Quantity(basket, i) == SumTo(LinesOf(basket, i), Len(basket))

Wanted(basket) == {basket[n].item : n \in DOMAIN basket}

\* Remaining of a limited item, clamped at zero.
RemainingOf(i, s) ==
  LET r == Wrap(DailyStock[i] - s) IN IF r < 0 THEN 0 ELSE r

\* restockIfNewDay.  Mutant: the day of the restock is not
\* remembered.
NewDay == day > lastRestockDay
SoldNow == IF NewDay THEN [i \in Items |-> 0] ELSE sold
ServedNow == IF NewDay THEN [i \in Items |-> 0] ELSE served
RestockDayMutant == lastRestockDay
RestockDay == IF NewDay THEN day ELSE lastRestockDay

\* GET /menu.
Menu ==
  /\ sold' = SoldNow /\ served' = ServedNow
  /\ lastRestockDay' = RestockDay
  /\ UNCHANGED <<day, orders, inFlight, heard>>

\* Every line has a positive quantity of something on the menu.
Valid(basket) ==
  /\ basket # <<>>
  /\ \A n \in DOMAIN basket : basket[n].qty > 0 /\ basket[n].item \in Items

\* No limited item is short.  Mutant: every line is compared for itself.
InStockMutant(basket) ==
  \A n \in DOMAIN basket :
    DailyStock[basket[n].item] # Unlimited =>
      RemainingOf(basket[n].item, SoldNow[basket[n].item]) >= basket[n].qty
InStock(basket) ==
  \A i \in Wanted(basket) :
    DailyStock[i] # Unlimited => RemainingOf(i, SoldNow[i]) >= Want(basket, i)

\* A bad or sold-out basket is refused after the restock, which stays.  An empty
\* one does not reach the store.
OrderRefused(basket) ==
  /\ basket # <<>>
  /\ ~(Valid(basket) /\ InStock(basket))
  /\ sold' = SoldNow /\ served' = ServedNow
  /\ lastRestockDay' = RestockDay
  /\ UNCHANGED <<day, orders, inFlight, heard>>

\* The quantities of a basket are added line by line; ints wrap, so the sum does
\* not depend on the order.  Quantities are recorded under the day in force.
SoldAfter(basket) ==
  [i \in Items |-> IF i \in Wanted(basket)
                   THEN Wrap(SoldNow[i] + Want(basket, i)) ELSE SoldNow[i]]

\* The items the order emptied.  Mutant: every item that is at zero.
EmptiedMutant(basket) ==
  {i \in Items : DailyStock[i] # Unlimited /\ RemainingOf(i, SoldAfter(basket)[i]) = 0}
Emptied(basket) ==
  {i \in Wanted(basket) :
     DailyStock[i] # Unlimited /\ RemainingOf(i, SoldAfter(basket)[i]) = 0}

\* PlaceOrder, and the goroutines its handler starts.
PlaceOrder(basket) ==
  /\ Len(orders) < MaxOrders
  /\ Valid(basket) /\ InStock(basket)
  /\ sold' = SoldAfter(basket)
  /\ served' = [i \in Items |-> ServedNow[i] + Quantity(basket, i)]
  /\ lastRestockDay' = RestockDay
  /\ orders' = Append(orders, [day |-> RestockDay, basket |-> basket])
  /\ inFlight' = inFlight \cup
       {Event(kind, Len(orders) + 1) : kind \in {"order_placed"} \cup Emptied(basket)}
  /\ UNCHANGED <<day, heard>>

\* BroadcastClient.post in its goroutine: one attempt, errors are dropped.
PostEvent(e, delivered) ==
  /\ e \in inFlight
  /\ inFlight' = inFlight \ {e}
  /\ heard' = IF delivered THEN heard \cup {e} ELSE heard
  /\ UNCHANGED <<day, lastRestockDay, sold, orders, served>>

\* The wall clock moves, now and then backwards.
Clock(d) ==
  /\ d # day
  /\ day' = d
  /\ UNCHANGED <<lastRestockDay, sold, orders, inFlight, heard, served>>

Next ==
  \/ Menu
  \/ \E b \in Baskets : PlaceOrder(b) \/ OrderRefused(b)
  \/ \E e \in inFlight, delivered \in BOOLEAN : PostEvent(e, delivered)
  \/ \E d \in Days : Clock(d)

Spec == Init /\ [][Next]_vars
-----------------------------------------------------------------------------
Limited == {i \in Items : DailyStock[i] # Unlimited}

\* The lines of every order that was accepted add up without wrapping.  A sum that
\* wraps is negative and passes the stock check.
NoOverflow ==
  \A n \in DOMAIN orders, i \in Items :
    Want(orders[n].basket, i) = Quantity(orders[n].basket, i)

\* A limited item is handed out beyond the stock of its day only by a basket whose
\* quantities wrap, never by one that names it twice or by a clock that is set back.
WithinDailyStock == NoOverflow => \A i \in Limited : served[i] <= DailyStock[i]

\* What all orders recorded for day d took of item i.
TakenBy(i, d) ==
  [n \in 1..Len(orders) |-> IF orders[n].day = d THEN Quantity(orders[n].basket, i) ELSE 0]
Ordered(i, d) == SumTo(TakenBy(i, d), Len(orders))

\* Sold is what the orders recorded for the restock day took, as an int: a restock
\* happens once per day, loses no order of the new day, and a refused basket leaves
\* no trace.
SoldMatchesOrders ==
  \A i \in Items : (Ordered(i, lastRestockDay) - sold[i]) % (2 * (MaxInt + 1)) = 0

\* An item is announced as sold out at most once per day, whether the event has
\* arrived or is still on its way, unless a wrapped sum put stock back.
SoldOutOncePerDay ==
  NoOverflow => \A d, e \in inFlight \cup heard :
    d[1] = e[1] /\ d[1] \in Items /\ orders[d[2]].day = orders[e[2]].day => d = e
=============================================================================
