--------------------------- MODULE GoatFarmProofs ---------------------------
(* Theorems about the goat farm and its popup for any items, stocks,       *)
(* interval and lag.                                                       *)
EXTENDS GoatShop, TLAPS

\* The timer and the stock move together, and the timer never lies in the future:
\* this is what makes the bound on an announced restock inductive.
FarmInv ==
  /\ TypeOK
  /\ TimerIffShort
  /\ NothingOversold
  /\ startedAt <= now
  /\ QuoteInInterval

\* Restocking inside a request leaves a state in which FarmInv's parts hold.
LEMMA AfterRestock ==
  ASSUME FarmInv
  PROVE  /\ StockNow \in [Items -> Nat]
         /\ \A i \in Items : StockNow[i] <= MaxStock[i]
         /\ BoughtNow \in [Items -> Nat]
         /\ \A i \in Items : StockNow[i] + BoughtNow[i] = MaxStock[i]
         /\ TimerNow \in Nat \cup {Never}
         /\ TimerNow <= now
         /\ TimerNow # Never <=> \E i \in Items : StockNow[i] < MaxStock[i]
<1> USE GoatFarmAssumption
<1>1. CASE Due
  <2>1. StockNow = MaxStock /\ BoughtNow = [i \in Items |-> 0] /\ TimerNow = Never
    BY <1>1 DEF StockNow, BoughtNow, TimerNow
  <2> QED
    BY <2>1 DEF FarmInv, TypeOK, Never
<1>2. CASE ~ Due
  <2>1. StockNow = stock /\ BoughtNow = bought /\ TimerNow = startedAt
    BY <1>2 DEF StockNow, BoughtNow, TimerNow
  <2> QED
    BY <2>1 DEF FarmInv, TypeOK, TimerIffShort, NothingOversold
<1> QED
  BY <1>1, <1>2

\* An announced restock lies within one interval of the answer.
LEMMA SecondsUntilBound ==
  ASSUME NEW s \in Nat \cup {Never}, NEW t \in Nat, s <= t
  PROVE  SecondsUntil(s, t) \in Nat /\ SecondsUntil(s, t) <= RestockInterval
  BY GoatFarmAssumption DEF SecondsUntil, Never

\* FarmInv holds initially.
LEMMA FarmInit == Init => FarmInv
  BY GoatFarmAssumption DEF Init, FarmInv, TypeOK, TimerIffShort, NothingOversold,
     QuoteInInterval, Never

\* A sale of an item in stock, with a running timer that started at `start`.
LEMMA SellKeeps ==
  ASSUME FarmInv, NEW i \in Items, NEW late \in 0..MaxLag, NEW start \in Nat,
         start <= now + late, StockNow[i] > 0, Sell(i, late, start)
  PROVE  FarmInv'
<1> USE GoatFarmAssumption
<1>1. now' \in Nat /\ now' = now + late /\ startedAt' = start
  BY DEF Sell, FarmInv, TypeOK
<1>2. quote' \in Nat /\ quote' <= RestockInterval
  BY <1>1, SecondsUntilBound DEF Sell
<1>3. /\ stock' = [StockNow EXCEPT ![i] = StockNow[i] - 1]
      /\ bought' = [BoughtNow EXCEPT ![i] = BoughtNow[i] + 1]
  BY DEF Sell
<1>4. /\ stock' \in [Items -> Nat] /\ \A k \in Items : stock'[k] <= MaxStock[k]
      /\ bought' \in [Items -> Nat]
      /\ \A k \in Items : stock'[k] + bought'[k] = MaxStock[k]
  BY <1>3, AfterRestock
<1>5. stock'[i] < MaxStock[i]
  BY <1>3, AfterRestock
<1> QED
  BY <1>1, <1>2, <1>4, <1>5 DEF FarmInv, TypeOK, TimerIffShort, NothingOversold,
     QuoteInInterval, Never

\* Every request and every tick of the clock preserves FarmInv.
LEMMA FarmStep == FarmInv /\ [Next]_vars => FarmInv'
<1> SUFFICES ASSUME FarmInv, [Next]_vars PROVE FarmInv'
  OBVIOUS
<1> USE GoatFarmAssumption
<1>1. ASSUME NEW lag \in 0..MaxLag, Stock(lag) PROVE FarmInv'
  <2>1. now' \in Nat /\ now' = now + lag /\ TimerNow <= now + lag
    BY <1>1, AfterRestock DEF Stock, FarmInv, TypeOK, Never
  <2>2. quote' \in Nat /\ quote' <= RestockInterval
    BY <1>1, <2>1, AfterRestock, SecondsUntilBound DEF Stock
  <2> QED
    BY <1>1, <2>1, <2>2, AfterRestock DEF Stock, FarmInv, TypeOK, TimerIffShort,
       NothingOversold, QuoteInInterval
<1>2. ASSUME NEW i \in Items, NEW lag \in 0..MaxLag, NEW late \in 0..MaxLag,
             Purchase(i, lag, late)
      PROVE  FarmInv'
  <2> DEFINE start == IF TimerNow = Never THEN now + lag ELSE TimerNow
  <2>1. start \in Nat /\ start <= now + late
    <3>1. now \in Nat /\ lag \in Nat /\ late \in Nat /\ lag <= late
      BY <1>2 DEF FarmInv, TypeOK, Purchase
    <3>2. CASE TimerNow = Never
      BY <3>1, <3>2
    <3>3. CASE TimerNow # Never
      BY <3>1, <3>3, AfterRestock
    <3> QED
      BY <3>2, <3>3
  <2>2. StockNow[i] > 0 /\ Sell(i, late, start)
    BY <1>2 DEF Purchase
  <2> HIDE DEF start
  <2> QED
    BY <2>1, <2>2, SellKeeps
<1>3. CASE PurchaseRejected
  BY <1>3, AfterRestock DEF PurchaseRejected, FarmInv, TypeOK, TimerIffShort,
     NothingOversold, QuoteInInterval
<1>4. CASE Tick
  BY <1>4 DEF Tick, FarmInv, TypeOK, TimerIffShort, NothingOversold, QuoteInInterval, Never
<1>5. CASE UNCHANGED vars
  BY <1>5 DEF vars, FarmInv, TypeOK, TimerIffShort, NothingOversold, QuoteInInterval
<1> QED
  BY <1>1, <1>2, <1>3, <1>4, <1>5 DEF Next

\* FarmInv is an invariant of the shop.
LEMMA FarmInvariance == Spec => []FarmInv
  BY FarmInit, FarmStep, PTL DEF Spec

\* The restock timer runs exactly while stock is short.
THEOREM TimerCorrect == Spec => []TimerIffShort
  BY FarmInvariance, PTL DEF FarmInv

\* No item is sold more often than its full stock between two restocks.
THEOREM StockCorrect == Spec => []NothingOversold
  BY FarmInvariance, PTL DEF FarmInv

\* No answer announces a restock in the past or beyond one interval.
THEOREM QuoteCorrect == Spec => []QuoteInInterval
  BY FarmInvariance, PTL DEF FarmInv

\* Later purchases never push a running restock timer back.
THEOREM TimerNeverPostponed == Spec => NeverPostponed
<1>1. FarmInv /\ [Next]_vars =>
        [(startedAt # Never /\ startedAt' # Never)
           => startedAt' = startedAt \/ startedAt' >= startedAt + RestockInterval]_vars
  <2> SUFFICES ASSUME FarmInv, Next, startedAt # Never, startedAt' # Never,
                      startedAt' # startedAt
               PROVE  startedAt' >= startedAt + RestockInterval
    BY DEF vars
  <2>1. Due
    <3>1. SUFFICES ASSUME ~ Due PROVE FALSE
      OBVIOUS
    <3>2. TimerNow = startedAt
      BY <3>1 DEF TimerNow
    <3> QED
      BY <3>2 DEF Next, Stock, Purchase, Sell, PurchaseRejected, Tick
  <2>2. startedAt' >= now
    BY <2>1 DEF Next, Stock, Purchase, Sell, PurchaseRejected, Tick, TimerNow, FarmInv,
       TypeOK
  <2>3. startedAt' \in Nat
    BY FarmStep DEF FarmInv, TypeOK
  <2> QED
    BY <2>1, <2>2, <2>3, GoatFarmAssumption DEF Due, FarmInv, TypeOK, Never
<1> QED
  BY <1>1, FarmInvariance, PTL DEF Spec, NeverPostponed

-----------------------------------------------------------------------------
(* The popup.                                                              *)

\* What the farm answers, and an entry of the popup's query.
Shelf == [quote : Nat, stock : [Items -> Nat]]
Answer == {<<>>} \cup {<<a>> : a \in Shelf}
Entry == [data : Answer, status : {"pending", "success", "error"},
          flight : {"idle", "sent", "read", "failed"}, answer : Answer,
          missed : BOOLEAN, crossed : BOOLEAN]

\* The popup's purchase.
Order == [item : Items \cup {""}, phase : {"none", "sent", "ok", "error"}]

\* The popup renders the countdown of the data it has, by a clock that is never ahead.
PopupInv ==
  /\ q \in Entry
  /\ q.flight = "read" => q.answer # <<>>
  /\ open \in BOOLEAN /\ timeout \in BOOLEAN
  /\ updatedAt \in Nat /\ nowMs \in Nat /\ nowMs <= now
  /\ shown = SecondsUntilRestock(q.data, updatedAt, nowMs)
  /\ buying \in Order
  /\ buying.phase = "sent" => buying.item \in Items

\* The inductive invariant of the farm with its popup.
ShopInv == FarmInv /\ PopupInv /\ StuckOnlyByTheFarm

\* The operations of the query on its entry.
LEMMA EntryOps ==
  ASSUME NEW e \in Entry
  PROVE  /\ Begin(e) \in Entry /\ Begin(e).data = e.data /\ Begin(e).flight = "sent"
         /\ Mounted(e) \in Entry /\ Mounted(e).data = e.data /\ Mounted(e).flight # "idle"
         /\ Mounted(e).flight = "read" => e.flight = "read" /\ Mounted(e).answer = e.answer
         /\ \A o \in BOOLEAN :
              /\ Invalidated(e, o) \in Entry /\ Invalidated(e, o).data = e.data
              /\ Invalidated(e, o).flight = "read" =>
                   e.flight = "read" /\ Invalidated(e, o).answer = e.answer
              /\ o => Invalidated(e, o).flight # "idle"
<1>1. Begin(e) \in Entry /\ Begin(e).data = e.data /\ Begin(e).flight = "sent"
  BY DEF Begin, Entry, Answer
<1>2. \A x \in BOOLEAN : /\ [e EXCEPT !.crossed = x] \in Entry
                         /\ [e EXCEPT !.crossed = x].data = e.data
                         /\ [e EXCEPT !.crossed = x].flight = e.flight
                         /\ [e EXCEPT !.crossed = x].answer = e.answer
  BY DEF Entry
<1>3. (e.flight = "read") \in BOOLEAN
  OBVIOUS
<1>4. /\ Mounted(e) \in Entry /\ Mounted(e).data = e.data /\ Mounted(e).flight # "idle"
      /\ Mounted(e).flight = "read" => e.flight = "read" /\ Mounted(e).answer = e.answer
  BY <1>1 DEF Mounted
<1>5. ASSUME NEW o \in BOOLEAN
      PROVE  /\ Invalidated(e, o) \in Entry /\ Invalidated(e, o).data = e.data
             /\ Invalidated(e, o).flight = "read" =>
                  e.flight = "read" /\ Invalidated(e, o).answer = e.answer
             /\ o => Invalidated(e, o).flight # "idle"
  <2>1. CASE o /\ (e.flight = "idle" \/ e.data # <<>>)
    BY <1>1, <2>1 DEF Invalidated
  <2>2. CASE ~ (o /\ (e.flight = "idle" \/ e.data # <<>>))
    <3>1. Invalidated(e, o) = [e EXCEPT !.crossed = e.flight = "read"]
      BY <2>2 DEF Invalidated
    <3> QED
      BY <1>2, <1>3, <2>2, <3>1
  <2> QED
    BY <2>1, <2>2
<1> QED
  BY <1>1, <1>4, <1>5

\* A shelf's countdown.
LEMMA CountdownOf ==
  ASSUME NEW a \in Shelf, NEW at \in Nat, NEW clock \in Nat
  PROVE  LET s == SecondsUntilRestock(<<a>>, at, clock)
         IN  /\ s \in Nat
             /\ s = 0 <=> a.quote <= clock - at
  BY DEF SecondsUntilRestock, Shelf

\* A countdown that is over stays over while the popup's clock runs on.
LEMMA CountdownOver ==
  ASSUME NEW data \in Answer, NEW at \in Nat, NEW clock \in Nat, NEW later \in Nat,
         clock <= later, SecondsUntilRestock(data, at, clock) = 0
  PROVE  SecondsUntilRestock(data, at, later) = 0
<1>1. CASE data = <<>>
  BY <1>1 DEF SecondsUntilRestock, Null
<1>2. ASSUME NEW a \in Shelf, data = <<a>> PROVE SecondsUntilRestock(data, at, later) = 0
  <2>1. a.quote \in Nat
    BY DEF Shelf
  <2>2. a.quote <= clock - at
    BY <1>2, CountdownOf
  <2>3. a.quote <= later - at
    BY <2>1, <2>2
  <2> QED
    BY <1>2, <2>3, CountdownOf
<1> QED
  BY <1>1, <1>2 DEF Answer

\* The popup leaves the farm alone, except by asking and buying.
LEMMA ShopIsFarm ==
  ASSUME PopupInv, [ShopNext]_shopVars
  PROVE  [Next]_vars
<1> USE DEF shopVars
<1>1. CASE Next /\ UNCHANGED <<q, popup, failures>>
  BY <1>1
<1>2. CASE Toggle \/ IntervalTick \/ TimeoutFires \/ FetchFails \/ Settle \/ Bought
  BY <1>2 DEF Toggle, IntervalTick, TimeoutFires, FetchFails, Settle, Bought
<1>3. CASE \E i \in Items : Buy(i)
  BY <1>3 DEF Buy
<1>4. CASE \E lag \in 0..MaxLag : GetStock(lag)
  BY <1>4 DEF GetStock, Next
<1>5. CASE \E lag, late \in 0..MaxLag : PostPurchase(lag, late)
  BY <1>5 DEF PostPurchase, Next, PopupInv
<1>6. CASE UNCHANGED shopVars
  BY <1>6
<1> QED
  BY <1>1, <1>2, <1>3, <1>4, <1>5, <1>6 DEF ShopNext

\* A step that renders nothing keeps the invariant if it keeps the data and leaves no
\* popup without its request.
LEMMA NoRender ==
  ASSUME ShopInv, FarmInv', now <= now', UNCHANGED <<open, updatedAt, nowMs, shown>>,
         q' \in Entry, q'.data = q.data, q'.flight = "read" => q'.answer # <<>>,
         timeout' \in BOOLEAN, buying' \in Order, buying'.phase = "sent" => buying'.item \in Items,
         \/ timeout' = timeout /\ q'.flight = q.flight /\ q'.status = q.status
         \/ open => q'.flight # "idle"
  PROVE  ShopInv'
<1>1. now \in Nat /\ now' \in Nat
  BY DEF ShopInv, FarmInv, TypeOK
<1>2. PopupInv'
  BY <1>1 DEF ShopInv, PopupInv
<1>3. StuckOnlyByTheFarm'
  BY DEF ShopInv, StuckOnlyByTheFarm
<1> QED
  BY <1>2, <1>3 DEF ShopInv

\* Every step of the farm and of the popup keeps the invariant.
LEMMA ShopStep ==
  ASSUME ShopInv, [ShopNext]_shopVars
  PROVE  ShopInv'
<1> USE DEF ShopInv
<1>0. FarmInv' /\ [Next]_vars /\ now \in Nat /\ now' \in Nat
  <2>1. [Next]_vars
    BY ShopIsFarm
  <2>2. FarmInv'
    BY <2>1, FarmStep
  <2> QED
    BY <2>1, <2>2 DEF FarmInv, TypeOK
<1>1. now <= now'
  BY <1>0 DEF Next, Stock, Purchase, Sell, PurchaseRejected, Tick, vars
<1>2. /\ q \in Entry /\ (q.flight = "read" => q.answer # <<>>)
      /\ open \in BOOLEAN /\ timeout \in BOOLEAN
      /\ updatedAt \in Nat /\ nowMs \in Nat /\ nowMs <= now
      /\ shown = SecondsUntilRestock(q.data, updatedAt, nowMs)
      /\ buying \in Order /\ (buying.phase = "sent" => buying.item \in Items)
  BY DEF PopupInv
<1>3. CASE (Next /\ UNCHANGED <<q, popup, failures>>) \/ UNCHANGED shopVars
  BY <1>0, <1>1, <1>2, <1>3, NoRender DEF popup, shopVars
<1>4. CASE Toggle
  <2>1. PopupInv'
    BY <1>0, <1>2, <1>4, EntryOps DEF Toggle, Render, PopupInv, vars, Expired
  <2>2. StuckOnlyByTheFarm'
    BY <1>2, <1>4, EntryOps DEF Toggle, Render, StuckOnlyByTheFarm
  <2> QED
    BY <1>0, <2>1, <2>2
<1>5. CASE IntervalTick
  <2>1. /\ q' = q /\ open /\ open' = open /\ updatedAt' = updatedAt /\ nowMs' = now
        /\ shown' = SecondsUntilRestock(q.data, updatedAt, now)
        /\ timeout' = IF shown' # shown THEN shown' = 0 ELSE timeout
        /\ now' = now /\ buying' = buying
    BY <1>5, <1>2 DEF IntervalTick, Render, Expired, vars
  <2>2. PopupInv'
    <3>1. timeout' \in BOOLEAN
      BY <1>2, <2>1
    <3>2. nowMs' \in Nat /\ nowMs' <= now'
      BY <1>0, <2>1
    <3> QED
      BY <1>2, <2>1, <3>1, <3>2 DEF PopupInv
  <2>3. StuckOnlyByTheFarm'
    BY <1>0, <1>2, <2>1, CountdownOver DEF StuckOnlyByTheFarm
  <2> QED
    BY <1>0, <2>2, <2>3
<1>6. CASE TimeoutFires
  BY <1>0, <1>1, <1>2, <1>6, EntryOps, NoRender DEF TimeoutFires
<1>7. ASSUME NEW lag \in 0..MaxLag, GetStock(lag) PROVE ShopInv'
  <2>1. [quote |-> quote', stock |-> stock'] \in Shelf
    BY <1>0 DEF Shelf, FarmInv, TypeOK
  <2>2. /\ q' \in Entry /\ q'.data = q.data /\ q'.flight = "read" /\ q'.answer # <<>>
    BY <1>2, <1>7, <2>1 DEF GetStock, Entry, Answer
  <2> QED
    BY <1>0, <1>1, <1>2, <1>7, <2>2, NoRender DEF GetStock, popup
<1>8. CASE FetchFails
  <2>1. q' \in Entry /\ q'.data = q.data /\ q'.flight = "failed"
    BY <1>2, <1>8 DEF FetchFails, Entry
  <2> QED
    BY <1>0, <1>1, <1>2, <1>8, <2>1, NoRender DEF FetchFails, popup
<1>9. CASE Settle
  <2>0. /\ q' = Settled(q) /\ open' = open /\ nowMs' = nowMs /\ now' = now
        /\ updatedAt' = IF q.flight = "read" THEN now ELSE updatedAt
        /\ shown' = SecondsUntilRestock(q'.data, updatedAt', nowMs)
        /\ timeout' = IF shown' # shown THEN open /\ shown' = 0 ELSE timeout
        /\ buying' = buying
    BY <1>9, <1>2 DEF Settle, Render, Expired, vars
  <2>1. CASE q.flight = "read"
    <3>1. /\ q' \in Entry /\ q'.data = q.answer /\ q'.flight = "idle" /\ q'.answer = <<>>
      BY <1>2, <2>0, <2>1 DEF Settled, Fresh, Entry, Answer
    <3>2. PopupInv'
      BY <1>0, <1>2, <2>0, <2>1, <3>1 DEF PopupInv
    <3>3. PICK a \in Shelf : q.answer = <<a>>
      BY <1>2, <2>1 DEF Entry, Answer
    <3>4. a.quote \in Nat /\ q'.data[1].quote = a.quote
      BY <3>1, <3>3 DEF Shelf
    <3>5. shown' = 0 => a.quote = 0
      <4>1. shown' = SecondsUntilRestock(<<a>>, now, nowMs)
        BY <2>0, <2>1, <3>1, <3>3
      <4>2. shown' = 0 => a.quote <= nowMs - now
        BY <1>0, <1>2, <4>1, CountdownOf
      <4> QED
        BY <1>0, <1>2, <3>4, <4>2
    <3> QED
      BY <1>0, <3>2, <3>4, <3>5 DEF StuckOnlyByTheFarm
  <2>2. CASE q.flight # "read"
    <3>1. /\ q' \in Entry /\ q'.data = q.data /\ q'.flight = "idle" /\ q'.status = "error"
      BY <1>2, <2>0, <2>2 DEF Settled, Entry
    <3>2. PopupInv'
      BY <1>0, <1>2, <2>0, <2>2, <3>1 DEF PopupInv
    <3> QED
      BY <1>0, <3>1, <3>2 DEF StuckOnlyByTheFarm
  <2> QED
    BY <2>1, <2>2
<1>10. ASSUME NEW i \in Items, Buy(i) PROVE ShopInv'
  <2>1. buying' \in Order /\ buying'.item \in Items
    BY <1>10 DEF Buy, Order
  <2> QED
    BY <2>1, <1>0, <1>1, <1>2, <1>10, NoRender DEF Buy
<1>11. ASSUME NEW lag \in 0..MaxLag, NEW late \in 0..MaxLag, PostPurchase(lag, late)
       PROVE  ShopInv'
  <2>1. buying' \in Order /\ buying'.phase # "sent"
    BY <1>2, <1>11 DEF PostPurchase, Order
  <2> QED
    BY <1>0, <1>1, <1>2, <1>11, <2>1, NoRender DEF PostPurchase
<1>12. CASE Bought
  <2>1. \/ q' = q
        \/ q' = Invalidated(q, open)
    BY <1>12 DEF Bought
  <2>2. buying' \in Order /\ buying'.phase # "sent"
    BY <1>12 DEF Bought, NoPurchase, Order
  <2>3. CASE q' = q
    BY <1>0, <1>1, <1>2, <1>12, <2>2, <2>3, NoRender DEF Bought
  <2>4. CASE q' = Invalidated(q, open)
    <3>1. /\ q' \in Entry /\ q'.data = q.data
          /\ q'.flight = "read" => q.flight = "read" /\ q'.answer = q.answer
          /\ open => q'.flight # "idle"
      BY <1>2, <2>4, EntryOps
    <3>2. UNCHANGED <<open, updatedAt, nowMs, shown, timeout>>
      BY <1>12 DEF Bought
    <3> QED
      BY <1>0, <1>1, <1>2, <2>2, <3>1, <3>2, NoRender
  <2> QED
    BY <2>1, <2>3, <2>4
<1> QED
  BY <1>3, <1>4, <1>5, <1>6, <1>7, <1>8, <1>9, <1>10, <1>11, <1>12 DEF ShopNext

\* The invariant holds in every reachable state of the farm with its popup.
LEMMA ShopInvariance == ShopSpec => []ShopInv
<1>1. ShopInit => ShopInv
  <2> SUFFICES ASSUME ShopInit PROVE ShopInv
    OBVIOUS
  <2>1. FarmInv /\ now = 0
    BY FarmInit DEF ShopInit, Init
  <2>2. q \in Entry /\ q.data = <<>> /\ q.flight = "idle"
    BY DEF ShopInit, Fresh, Entry, Answer
  <2>3. shown = SecondsUntilRestock(q.data, updatedAt, nowMs) /\ shown # 0
    BY <2>2 DEF ShopInit, SecondsUntilRestock, Null
  <2>4. buying \in Order /\ buying.phase # "sent"
    BY DEF ShopInit, NoPurchase, Order
  <2>5. /\ open = FALSE /\ timeout = FALSE /\ updatedAt = 0 /\ nowMs = 0
    BY DEF ShopInit
  <2>6. PopupInv
    <3>1. open \in BOOLEAN /\ timeout \in BOOLEAN
      BY <2>5
    <3>2. updatedAt \in Nat /\ nowMs \in Nat /\ nowMs <= now
      BY <2>1, <2>5
    <3>3. (q.flight = "read" => q.answer # <<>>) /\ (buying.phase = "sent" => buying.item \in Items)
      BY <2>2, <2>4
    <3> QED
      BY <2>2, <2>3, <2>4, <3>1, <3>2, <3>3, Zenon DEF PopupInv
  <2> QED
    BY <2>1, <2>5, <2>6 DEF ShopInv, StuckOnlyByTheFarm
<1> QED
  BY <1>1, ShopStep, PTL DEF ShopSpec

\* The popup's effect asks the farm again when its countdown ends: an open popup that shows
\* zero with no request and no timeout pending had its last request fail or was quoted zero.
THEOREM PopupAsksAgain == ShopSpec => []StuckOnlyByTheFarm
<1>1. ShopInv => StuckOnlyByTheFarm
  BY DEF ShopInv
<1> QED
  BY <1>1, ShopInvariance, PTL

\* The farm with its popup implements the farm: the popup acts on the stock only through the
\* handlers of GET /stock and POST /purchase, so the farm's theorems hold with it as well.
THEOREM ShopImplementsFarm == ShopSpec => Spec
<1>1. ShopInit => Init
  BY DEF ShopInit
<1>2. ShopInv /\ [ShopNext]_shopVars => [Next]_vars
  BY ShopIsFarm DEF ShopInv
<1> QED
  BY <1>1, <1>2, ShopInvariance, PTL DEF ShopSpec, Spec
=============================================================================
