---------------------------- MODULE AirportProofs ----------------------------
(* Theorems about passport control for any arrivals, gates and requests.   *)
EXTENDS AirportGates, FiniteSetTheorems, TLAPS

\* Every nonempty set of naturals has a least element.
LEMMA LeastNatural ==
  ASSUME NEW T \in SUBSET Nat, T # {}
  PROVE  \E m \in T : \A n \in T : m <= n
<1>1. PICK m \in T : \A n \in T : ~ (<<n, m>> \in OpToRel(<, Nat))
  BY NatLessThanWellFounded, WFMin
<1>2. \A n \in T : ~ (n < m)
  BY <1>1 DEF OpToRel
<1> QED
  BY <1>2

\* Gate.enqueue turns a queue of arrivals into a queue of arrivals.
LEMMA InsertType ==
  ASSUME NEW q \in Seq(Arrivals), NEW a \in Arrivals
  PROVE  Insert(q, a) \in Seq(Arrivals)
<1> DEFINE stays(j) == j <= Len(q) /\ \A k \in 1..j : Rank[q[k]] <= Rank[a]
           r == [j \in 1..(Len(q) + 1) |-> IF stays(j) THEN q[j]
                                 ELSE IF j = 1 \/ stays(j - 1) THEN a
                                 ELSE q[j - 1]]
<1>1. Insert(q, a) = r
  BY DEF Insert
<1>2. \A j \in 1..(Len(q) + 1) : r[j] \in Arrivals
  <2> TAKE j \in 1..(Len(q) + 1)
  <2>1. CASE stays(j)
    BY <2>1
  <2>2. CASE ~ stays(j) /\ (j = 1 \/ stays(j - 1))
    BY <2>2
  <2>3. CASE ~ stays(j) /\ ~ (j = 1 \/ stays(j - 1))
    <3>1. j - 1 \in 1..Len(q)
      BY <2>3
    <3> QED
      BY <3>1, <2>3
  <2> QED
    BY <2>1, <2>2, <2>3
<1> HIDE DEF stays
<1>3. r \in [1..(Len(q) + 1) -> Arrivals]
  BY <1>2
<1>4. Len(q) + 1 \in Nat
  OBVIOUS
<1> QED
  BY <1>1, <1>3, <1>4

\* Popping a bundle leaves a queue of arrivals.
LEMMA WithoutType ==
  ASSUME NEW q \in Seq(Arrivals), NEW S
  PROVE  Without(q, S) \in Seq(Arrivals)
<1> DEFINE K(i) == {k \in 1..i : q[k] \notin S}
           kept(i) == Cardinality(K(i))
           at(j) == CHOOSE i \in 1..Len(q) :
                 /\ kept(i) >= j
                 /\ \A m \in 1..Len(q) : kept(m) >= j => i <= m
<1>1. \A i \in Nat : kept(i) \in Nat
  <2> TAKE i \in Nat
  <2>1. IsFiniteSet(1..i)
    BY FS_Interval
  <2>2. IsFiniteSet(K(i))
    BY <2>1, FS_Subset
  <2> QED
    BY <2>2, FS_CardinalityType
<1> HIDE DEF kept
<1>2. ASSUME NEW j \in 1..kept(Len(q))
      PROVE  at(j) \in 1..Len(q)
  <2> DEFINE T == {i \in 1..Len(q) : kept(i) >= j}
  <2>1. Len(q) \in Nat /\ kept(0) \in Nat /\ kept(Len(q)) >= j
    BY <1>1
  <2>2. kept(0) = 0
    BY FS_EmptySet DEF kept
  <2>3. Len(q) \in T
    BY <2>1, <2>2
  <2>4. T \in SUBSET Nat /\ T # {}
    BY <2>3
  <2>5. PICK m \in T : \A n \in T : m <= n
    <3> HIDE DEF T
    <3> QED
      BY <2>4, LeastNatural
  <2> QED
    BY <2>5
<1>3. \A j \in 1..kept(Len(q)) : q[at(j)] \in Arrivals
  <2> HIDE DEF at
  <2> QED
    BY <1>2
<1>4. Without(q, S) = [j \in 1..kept(Len(q)) |-> q[at(j)]]
  BY DEF Without, kept
<1> HIDE DEF at
<1>5. [j \in 1..kept(Len(q)) |-> q[at(j)]] \in [1..kept(Len(q)) -> Arrivals]
  BY <1>3
<1>6. kept(Len(q)) \in Nat
  BY <1>1
<1> QED
  BY <1>4, <1>5, <1>6
-----------------------------------------------------------------------------
\* TypeOK alone is not inductive: a request that goes on must have its gate, and
\* a close that saves must have a displaced guest and a target.
ThreadsOK ==
  /\ \A a \in Arrivals : reqPc[a] \in {"chosen", "saved"} => reqGate[a] \in Gates
  /\ \A c \in Closers : closePc[c] \in {"drain", "requeue", "save"} => closeGate[c] \in Gates
  /\ \A c \in Closers : closePc[c] = "save" => target[c] \in Gates /\ displaced[c] # <<>>

\* The inductive type invariant.
TypeInv == TypeOK /\ ThreadsOK

\* The type invariant holds initially.
LEMMA InitType == Init => TypeInv
  BY AirportAssumption
  DEF Init, TypeInv, TypeOK, ThreadsOK, NoDicts, NewActive, EmptyQueues, NoneInBooth,
      Started, Nobody, ReqPc, Status, WorkerPc, ClosePc, Ids

\* The steps of a POST /arrivals request preserve the type invariant.
LEMMA RequestType ==
  ASSUME TypeInv, NEW a \in Arrivals, Request(a)
  PROVE  TypeInv'
<1> USE AirportAssumption DEF TypeInv, TypeOK, ThreadsOK, reqVars, dbVars, gateVars,
      workerVars, closeVars, procVars, ReqPc, Status
<1>1. CASE ChooseGate(a)
  <2>1. Choices(a) \subseteq Gates
    BY DEF Choices, Shortest, OfType
  <2> QED
    BY <1>1, <2>1 DEF ChooseGate
<1>2. CASE ChooseFails(a)
  BY <1>2 DEF ChooseFails
<1>3. CASE SaveArrival(a)
  BY <1>3 DEF SaveArrival, Ids
<1>4. CASE EnqueueArrival(a)
  BY <1>4, InsertType DEF EnqueueArrival
<1> QED
  BY <1>1, <1>2, <1>3, <1>4 DEF Request

\* The members of a queue of arrivals are arrivals.
LEMMA MembersType ==
  ASSUME NEW q \in Seq(Arrivals)
  PROVE  Members(q) \subseteq Arrivals
  BY DEF Members

\* The worker's locked section preserves the type invariant.
LEMMA TakeBundleType ==
  ASSUME TypeInv, NEW g \in Gates, NEW passed \in SUBSET Arrivals,
         NEW taken \in SUBSET Arrivals, NEW first,
         taken # {} => first \in Arrivals,
         TakeBundle(g, passed, taken, first)
  PROVE  TypeInv'
<1>1. Without(queue[g], taken) \in Seq(Arrivals)
  BY WithoutType DEF TypeInv, TypeOK
<1> QED
  BY <1>1 DEF TypeInv, TypeOK, ThreadsOK, TakeBundle, AfterPick, reqVars, dbVars,
     closeVars, procVars, Status, WorkerPc

\* The steps of a gate's worker preserve the type invariant.
LEMMA WorkerType ==
  ASSUME TypeInv, NEW g \in Gates, Worker(g)
  PROVE  TypeInv'
<1> DEFINE q == queue[g]
<1>q. q \in Seq(Arrivals)
  BY DEF TypeInv, TypeOK
<1>1. CASE PickBundle(g)
  <2>1. PICK i \in 1..QueueLen(g) :
          TakeBundle(g, {q[j] : j \in 1..(i - 1)}, {q[i]} \cup Relatives(q, q[i]), q[i])
    BY <1>1 DEF PickBundle
  <2>2. q[i] \in Arrivals /\ \A j \in 1..(i - 1) : q[j] \in Arrivals
    BY <1>q DEF QueueLen
  <2>3. Relatives(q, q[i]) \subseteq Arrivals
    BY <1>q, MembersType DEF Relatives
  <2> HIDE DEF q
  <2> QED
    BY <2>1, <2>2, <2>3, TakeBundleType
<1>2. CASE PickNobody(g)
  <2>1. TakeBundle(g, Members(q), {}, NoArrival)
    BY <1>2 DEF PickNobody
  <2> QED
    BY <2>1, <1>q, MembersType, TakeBundleType
<1>3. CASE LoopTop(g)
  BY <1>3 DEF TypeInv, TypeOK, ThreadsOK, LoopTop, reqVars, dbVars, gateVars, closeVars,
     procVars, WorkerPc
<1>7. CASE ClearCurrent(g)
  BY <1>7 DEF TypeInv, TypeOK, ThreadsOK, ClearCurrent, reqVars, dbVars, gateVars,
     closeVars, procVars, WorkerPc
<1>5. CASE MarkHeld(g) \/ StartBundle(g) \/ CommitBundle(g)
  <2>1. dbStatus' \in [Arrivals -> Status]
    BY <1>5 DEF TypeInv, TypeOK, MarkHeld, StartBundle, CommitBundle, SetRows, Status
  <2>2. wpc' \in [Gates -> WorkerPc]
    BY <1>5 DEF TypeInv, TypeOK, MarkHeld, StartBundle, CommitBundle, AfterPick, WorkerPc
  <2> QED
    BY <1>5, <2>1, <2>2 DEF TypeInv, TypeOK, ThreadsOK, MarkHeld, StartBundle,
       CommitBundle, reqVars, gateVars, closeVars, procVars
<1>6. CASE FinishBundle(g)
  BY <1>6 DEF TypeInv, TypeOK, ThreadsOK, FinishBundle, reqVars, dbVars, gateVars,
     closeVars, procVars, Status, WorkerPc
<1>4. CASE PublishOne(g)
  BY <1>4 DEF TypeInv, TypeOK, ThreadsOK, PublishOne, reqVars, dbVars, gateVars,
     closeVars, procVars, WorkerPc
<1> QED
  BY <1>1, <1>2, <1>3, <1>4, <1>5, <1>6, <1>7 DEF Worker

\* Opening a gate preserves the type invariant.
LEMMA OpenType ==
  ASSUME TypeInv, NEW g \in Gates, Open(g)
  PROVE  TypeInv'
<1> USE DEF TypeInv, TypeOK, ThreadsOK, reqVars, dbVars, gateVars, closeVars, procVars,
      WorkerPc
<1>1. CASE OpenCheck(g)
  BY <1>1 DEF OpenCheck
<1>2. CASE OpenRegister(g)
  BY <1>2 DEF OpenRegister
<1> QED
  BY <1>1, <1>2 DEF Open

\* The steps of a close request preserve the type invariant.
LEMMA CloseType ==
  ASSUME TypeInv, NEW c \in Closers, Close(c)
  PROVE  TypeInv'
<1> USE DEF TypeInv, TypeOK, ThreadsOK, reqVars, dbVars, gateVars, workerVars, procVars,
      ClosePc, Status
<1>1. CASE CloseBegin(c)
  BY <1>1 DEF CloseBegin, SameType
<1>2. CASE CloseDrain(c)
  <2>1. InBooth(closeGate[c]) \o queue[closeGate[c]] \in Seq(Arrivals)
    BY <1>2 DEF CloseDrain, DrainTo, InBooth
  <2> QED
    BY <1>2, <2>1 DEF CloseDrain, DrainTo
<1>3. CASE CloseRequeue(c)
  <2>1. Head(displaced[c]) \in Arrivals
    BY <1>3 DEF CloseRequeue
  <2>2. Shortest(sameType[c]) \subseteq Gates
    BY DEF Shortest
  <2>3. PICK t \in Gates : /\ queue' = [queue EXCEPT ![t] = Insert(@, Head(displaced[c]))]
                          /\ target' = [target EXCEPT ![c] = t]
    BY <1>3, <2>2 DEF CloseRequeue
  <2>4. Insert(queue[t], Head(displaced[c])) \in Seq(Arrivals)
    BY <2>1, InsertType
  <2> QED
    BY <1>3, <2>3, <2>4 DEF CloseRequeue
<1>4. CASE CloseSave(c)
  <2>1. Head(displaced[c]) \in Arrivals /\ Tail(displaced[c]) \in Seq(Arrivals)
    BY <1>4 DEF CloseSave
  <2>2. Id[target[c]] \in Ids
    BY <1>4 DEF CloseSave, Ids
  <2> QED
    BY <1>4, <2>1, <2>2 DEF CloseSave, SetRows
<1>5. CASE CloseDelete(c)
  BY <1>5 DEF CloseDelete
<1> QED
  BY <1>1, <1>2, <1>3, <1>4, <1>5 DEF Close

\* A crash and the boot sequence preserve the type invariant.
LEMMA RestartType ==
  ASSUME TypeInv, Crash \/ Rehydrate
  PROVE  TypeInv'
<1> USE AirportAssumption DEF TypeInv, TypeOK, ThreadsOK, reqVars, dbVars, gateVars,
      workerVars, closeVars, Status
<1>1. CASE Crash
  <2>1. Without(stamped, Arrivals \ Unfinished) \in Seq(Arrivals)
    BY WithoutType
  <2>2. /\ memStatus' \in [Arrivals -> Status] /\ gates' \subseteq Gates
        /\ active' \in [Gates -> BOOLEAN] /\ queue' \in [Gates -> Seq(Arrivals)]
        /\ current' \in [Gates -> Arrivals \cup {NoArrival}]
    BY <1>1 DEF Crash, NoDicts, NewActive, EmptyQueues, NoneInBooth
  <2>3. /\ wpc' \in [Gates -> WorkerPc] /\ bundle' \in [Gates -> SUBSET Arrivals]
        /\ newlyHeld' \in [Gates -> SUBSET Arrivals]
    BY <1>1 DEF Crash, Nobody, WorkerPc
  <2>4. /\ reqPc' \in [Arrivals -> ReqPc] /\ closePc' \in [Closers -> ClosePc]
        /\ displaced' \in [Closers -> Seq(Arrivals)]
        /\ restarts' \in 0..MaxRestarts
    BY <1>1 DEF Crash, ReqPc, ClosePc
  <2>5. /\ \A a \in Arrivals : reqPc'[a] \notin {"chosen", "saved"}
        /\ \A c \in Closers : closePc'[c] \in {"idle", "done"}
    BY <1>1 DEF Crash
  <2> QED
    BY <1>1, <2>1, <2>2, <2>3, <2>4, <2>5 DEF Crash
<1>2. CASE RehydrateRow
  <2>1. Head(boot) \in Arrivals /\ Tail(boot) \in Seq(Arrivals)
    BY <1>2 DEF RehydrateRow
  <2>2. \A g \in Gates : /\ Insert(queue[g], Head(boot)) \in Seq(Arrivals)
                         /\ <<Head(boot)>> \o queue[g] \in Seq(Arrivals)
    <3> TAKE g \in Gates
    <3>1. queue[g] \in Seq(Arrivals)
      OBVIOUS
    <3>2. Insert(queue[g], Head(boot)) \in Seq(Arrivals)
      BY <3>1, <2>1, InsertType
    <3>3. <<Head(boot)>> \o queue[g] \in Seq(Arrivals)
      BY <3>1, <2>1
    <3> QED
      BY <3>2, <3>3
  <2>3. queue' \in [Gates -> Seq(Arrivals)] /\ memStatus' \in [Arrivals -> Status]
    <3> DEFINE a == Head(boot)
    <3>1. CASE UNCHANGED <<memStatus, queue>>
      BY <3>1
    <3>2. ASSUME NEW g \in DefaultGates, dbStatus[a] = "processing",
                 memStatus' = [memStatus EXCEPT ![a] = "queued"],
                 queue' = [queue EXCEPT ![g] = <<a>> \o @]
          PROVE  queue' \in [Gates -> Seq(Arrivals)] /\ memStatus' \in [Arrivals -> Status]
      BY <3>2, <2>1, <2>2
    <3>3. ASSUME NEW g \in DefaultGates,
                 memStatus' = [memStatus EXCEPT ![a] = dbStatus[a]],
                 queue' = [queue EXCEPT ![g] = Insert(@, a)]
          PROVE  queue' \in [Gates -> Seq(Arrivals)] /\ memStatus' \in [Arrivals -> Status]
      BY <3>3, <2>1, <2>2
    <3> QED
      BY <1>2, <3>1, <3>2, <3>3 DEF RehydrateRow
  <2> QED
    BY <1>2, <2>1, <2>3 DEF RehydrateRow
<1>3. CASE RehydrateCommit
  BY <1>3 DEF RehydrateCommit, SetRows, Started, WorkerPc
<1> QED
  BY <1>1, <1>2, <1>3 DEF Rehydrate

\* Every variable keeps its type, and every thread that goes on has the gate and
\* the guest it goes on with.
LEMMA TypeInvariance == Spec => []TypeInv
<1>1. TypeInv /\ [Next]_vars => TypeInv'
  <2> SUFFICES ASSUME TypeInv, [Next]_vars PROVE TypeInv'
    OBVIOUS
  <2>1. CASE UNCHANGED vars
    BY <2>1 DEF TypeInv, TypeOK, ThreadsOK, vars, reqVars, dbVars, gateVars, workerVars,
       closeVars, procVars
  <2> QED
    BY <2>1, RequestType, WorkerType, OpenType, CloseType, RestartType DEF Next
<1> QED
  BY <1>1, InitType, PTL DEF Spec

\* TypeOK is an invariant of passport control: in particular no queue, bundle or
\* list of displaced guests ever contains an empty booth's None.
THEOREM TypeCorrect == Spec => []TypeOK
  BY TypeInvariance, PTL DEF TypeInv

\* When _pick_next may take the guest at i, every minor of the bundle has an
\* adult of its surname in the bundle.
LEMMA BundleEscorted ==
  ASSUME NEW q \in Seq(Arrivals), NEW i \in 1..Len(q), MayPass(q, q[i]),
         NEW m \in ({q[i]} \cup Relatives(q, q[i])) \cap Minor
  PROVE  \E a \in ({q[i]} \cup Relatives(q, q[i])) \ Minor : Surname[a] = Surname[m]
<1>1. Surname[m] = Surname[q[i]]
  BY DEF Relatives
<1>2. CASE q[i] \notin Minor
  BY <1>1, <1>2
<1>3. CASE q[i] \in Minor
  <2>1. PICK a \in Relatives(q, q[i]) \ Minor : TRUE
    BY <1>3 DEF MayPass
  <2>2. Surname[a] = Surname[q[i]]
    BY <2>1 DEF Relatives
  <2> QED
    BY <1>1, <2>1, <2>2
<1> QED
  BY <1>2, <1>3

\* A worker's locked section keeps escorted bundles when the bundle it takes is.
LEMMA TakeEscorted ==
  ASSUME TypeInv, MinorsEscorted, NEW g \in Gates, NEW passed, NEW taken, NEW first,
         \A m \in taken \cap Minor : \E a \in taken \ Minor : Surname[a] = Surname[m],
         TakeBundle(g, passed, taken, first)
  PROVE  MinorsEscorted'
<1> SUFFICES ASSUME NEW h \in Gates, InHand(h)', NEW m \in bundle'[h] \cap Minor
             PROVE  \E a \in bundle'[h] \ Minor : Surname[a] = Surname[m]
  BY DEF MinorsEscorted
<1>1. bundle' = [bundle EXCEPT ![g] = taken]
  BY DEF TakeBundle
<1>2. CASE h = g
  BY <1>1, <1>2 DEF TypeInv, TypeOK
<1>3. CASE h # g
  <2>1. bundle'[h] = bundle[h] /\ wpc'[h] = wpc[h]
    BY <1>1, <1>3 DEF TakeBundle, TypeInv, TypeOK
  <2> QED
    BY <2>1 DEF MinorsEscorted, InHand
<1> QED
  BY <1>2, <1>3

\* A step that takes no bundle and brings no worker's bundle into its hand keeps
\* MinorsEscorted.
LEMMA UntouchedEscorted ==
  ASSUME MinorsEscorted,
         \A h \in Gates : InHand(h)' => InHand(h) /\ bundle'[h] = bundle[h]
  PROVE  MinorsEscorted'
  BY DEF MinorsEscorted

\* No worker of any gate ever has a minor in hand without an adult of the family,
\* whatever requests, closes and crashes do in between.
THEOREM Escorted == Spec => []MinorsEscorted
<1>1. Init => MinorsEscorted
  BY DEF Init, MinorsEscorted, Nobody
<1>2. TypeInv /\ MinorsEscorted /\ [Next]_vars => MinorsEscorted'
  <2> SUFFICES ASSUME TypeInv, MinorsEscorted, [Next]_vars PROVE MinorsEscorted'
    OBVIOUS
  <2> USE DEF TypeInv, TypeOK, InHand
  <2>1. ASSUME NEW a \in Arrivals, Request(a) PROVE MinorsEscorted'
    BY <2>1, UntouchedEscorted DEF Request, ChooseGate, ChooseFails, SaveArrival,
       EnqueueArrival, workerVars
  <2>2. ASSUME NEW g \in Gates, PickBundle(g) PROVE MinorsEscorted'
    <3> DEFINE q == queue[g]
    <3>1. PICK i \in 1..Len(q) :
            /\ MayPass(q, q[i])
            /\ TakeBundle(g, {q[j] : j \in 1..(i - 1)}, {q[i]} \cup Relatives(q, q[i]), q[i])
      BY <2>2 DEF PickBundle, QueueLen
    <3>2. q \in Seq(Arrivals)
      OBVIOUS
    <3> HIDE DEF q
    <3>3. \A m \in ({q[i]} \cup Relatives(q, q[i])) \cap Minor :
            \E a \in ({q[i]} \cup Relatives(q, q[i])) \ Minor : Surname[a] = Surname[m]
      BY <3>1, <3>2, BundleEscorted
    <3> QED
      BY <3>1, <3>3, TakeEscorted
  <2>3. ASSUME NEW g \in Gates, PickNobody(g) PROVE MinorsEscorted'
    BY <2>3, TakeEscorted DEF PickNobody
  <2>4. ASSUME NEW g \in Gates,
               \/ LoopTop(g) \/ MarkHeld(g) \/ StartBundle(g) \/ FinishBundle(g)
               \/ CommitBundle(g) \/ ClearCurrent(g)
        PROVE  MinorsEscorted'
    <3>1. \A h \in Gates : InHand(h)' => InHand(h) /\ bundle'[h] = bundle[h]
      BY <2>4 DEF LoopTop, MarkHeld, StartBundle, FinishBundle, CommitBundle, ClearCurrent,
         AfterPick
    <3> QED
      BY <3>1, UntouchedEscorted
  <2>5. ASSUME NEW g \in Gates, PublishOne(g) PROVE MinorsEscorted'
    BY <2>5, UntouchedEscorted DEF PublishOne
  <2>6. ASSUME NEW g \in Gates, Open(g) PROVE MinorsEscorted'
    BY <2>6, UntouchedEscorted DEF Open, OpenCheck, OpenRegister
  <2>7. ASSUME NEW c \in Closers, Close(c) PROVE MinorsEscorted'
    BY <2>7, UntouchedEscorted DEF Close, CloseBegin, CloseDrain, DrainTo, CloseRequeue,
       CloseSave, CloseDelete, workerVars
  <2>8. CASE Crash \/ RehydrateCommit
    BY <2>8, UntouchedEscorted DEF Crash, RehydrateCommit, Started, Nobody
  <2>9. CASE RehydrateRow \/ UNCHANGED vars
    BY <2>9, UntouchedEscorted DEF RehydrateRow, vars, workerVars
  <2> QED
    BY <2>1, <2>2, <2>3, <2>4, <2>5, <2>6, <2>7, <2>8, <2>9 DEF Next, Worker, Rehydrate
<1> QED
  BY <1>1, <1>2, TypeInvariance, PTL DEF Spec

-----------------------------------------------------------------------------
(* Gate.enqueue and _pick_next on a queue.                                 *)

\* Where Gate.enqueue puts a guest: behind everybody of its rank or better at the
\* front, before the first guest of a worse rank.
LEMMA InsertShape ==
  ASSUME NEW q \in Seq(Arrivals), NEW a \in Arrivals
  PROVE  /\ Len(Insert(q, a)) = Len(q) + 1
         /\ \E p \in 1..(Len(q) + 1) :
              /\ \A j \in 1..(p - 1) : Insert(q, a)[j] = q[j] /\ Rank[q[j]] <= Rank[a]
              /\ Insert(q, a)[p] = a
              /\ \A j \in (p + 1)..(Len(q) + 1) : Insert(q, a)[j] = q[j - 1]
              /\ p <= Len(q) => Rank[a] < Rank[q[p]]
<1> DEFINE stays(j) == j <= Len(q) /\ \A k \in 1..j : Rank[q[k]] <= Rank[a]
           r == [j \in 1..(Len(q) + 1) |-> IF stays(j) THEN q[j]
                                 ELSE IF j = 1 \/ stays(j - 1) THEN a
                                 ELSE q[j - 1]]
           T == {j \in 1..(Len(q) + 1) : ~ stays(j)}
<1>1. Insert(q, a) = r
  BY DEF Insert
<1>2. Len(r) = Len(q) + 1
  <2>1. DOMAIN r = 1..(Len(q) + 1) /\ Len(q) \in Nat
    OBVIOUS
  <2> HIDE DEF r
  <2>2. r \in Seq(Arrivals)
    BY <1>1, InsertType
  <2>3. DOMAIN r = 1..Len(r) /\ Len(r) \in Nat
    BY <2>2
  <2> QED
    BY <2>1, <2>3
<1>3. PICK p \in T : \A n \in T : p <= n
  <2>1. T \in SUBSET Nat /\ Len(q) + 1 \in T
    OBVIOUS
  <2> HIDE DEF T
  <2> QED
    BY <2>1, LeastNatural
<1>4. \A j \in 1..(p - 1) : stays(j)
  <2> TAKE j \in 1..(p - 1)
  <2>1. j \in 1..(Len(q) + 1) /\ j < p
    BY <1>3
  <2> QED
    BY <2>1, <1>3
<1>5. \A j \in p..(Len(q) + 1) : ~ stays(j)
  BY <1>3
<1>6. \A j \in 1..(p - 1) : r[j] = q[j] /\ Rank[q[j]] <= Rank[a]
  BY <1>3, <1>4
<1>7. r[p] = a
  <2>1. p \in 1..(Len(q) + 1) /\ ~ stays(p) /\ (p = 1 \/ p - 1 \in 1..(p - 1))
    BY <1>3
  <2>2. p = 1 \/ stays(p - 1)
    BY <2>1, <1>4
  <2> QED
    BY <2>1, <2>2
<1>8. \A j \in (p + 1)..(Len(q) + 1) : r[j] = q[j - 1]
  <2> TAKE j \in (p + 1)..(Len(q) + 1)
  <2>1. j \in 1..(Len(q) + 1) /\ j # 1 /\ j \in p..(Len(q) + 1) /\ j - 1 \in p..(Len(q) + 1)
    BY <1>3
  <2>2. ~ stays(j) /\ ~ stays(j - 1)
    BY <2>1, <1>5
  <2> QED
    BY <2>1, <2>2
<1>9. p <= Len(q) => Rank[a] < Rank[q[p]]
  <2> SUFFICES ASSUME p <= Len(q) PROVE Rank[a] < Rank[q[p]]
    OBVIOUS
  <2>1. PICK k \in 1..p : ~ (Rank[q[k]] <= Rank[a])
    BY <1>3
  <2>2. k = p
    BY <1>3, <1>6, <2>1
  <2>3. Rank[q[p]] \in Int /\ Rank[a] \in Int
    BY <1>3, AirportAssumption
  <2> QED
    BY <2>1, <2>2, <2>3
<1>10. p \in 1..(Len(q) + 1)
  BY <1>3
<1> HIDE DEF stays, r, T
<1> QED
  BY <1>1, <1>2, <1>6, <1>7, <1>8, <1>9, <1>10

\* Enqueuing adds the guest and loses nobody.
LEMMA InsertMembers ==
  ASSUME NEW q \in Seq(Arrivals), NEW a \in Arrivals
  PROVE  Members(Insert(q, a)) = Members(q) \cup {a}
<1> DEFINE r == Insert(q, a)
<1>1. PICK p \in 1..(Len(q) + 1) :
        /\ \A j \in 1..(p - 1) : r[j] = q[j]
        /\ r[p] = a
        /\ \A j \in (p + 1)..(Len(q) + 1) : r[j] = q[j - 1]
  BY InsertShape
<1>2. Len(r) = Len(q) + 1 /\ Len(q) \in Nat
  BY InsertShape
<1> HIDE DEF r
<1>3. \A j \in 1..Len(r) : r[j] \in Members(q) \cup {a}
  <2> TAKE j \in 1..Len(r)
  <2>1. CASE j < p
    BY <2>1, <1>1, <1>2 DEF Members
  <2>2. CASE j = p
    BY <2>2, <1>1
  <2>3. CASE j > p
    <3>1. r[j] = q[j - 1] /\ j - 1 \in 1..Len(q)
      BY <2>3, <1>1, <1>2
    <3> QED
      BY <3>1 DEF Members
  <2> QED
    BY <2>1, <2>2, <2>3, <1>1, <1>2
<1>4. \A i \in 1..Len(q) : q[i] \in Members(r)
  <2> TAKE i \in 1..Len(q)
  <2>1. CASE i < p
    <3>1. i \in 1..Len(r) /\ r[i] = q[i]
      BY <2>1, <1>1, <1>2
    <3> QED
      BY <3>1 DEF Members
  <2>2. CASE i >= p
    <3>1. i + 1 \in 1..Len(r) /\ r[i + 1] = q[i]
      BY <2>2, <1>1, <1>2
    <3> QED
      BY <3>1 DEF Members
  <2> QED
    BY <2>1, <2>2, <1>1, <1>2
<1>5. a \in Members(r)
  BY <1>1, <1>2 DEF Members
<1>6. Members(r) = Members(q) \cup {a}
  BY <1>3, <1>4, <1>5 DEF Members
<1> QED
  BY <1>6 DEF r

\* A queue in which nobody stands twice.
Distinct(q) == \A i, j \in 1..Len(q) : q[i] = q[j] => i = j

\* Enqueuing a newcomer keeps a queue without duplicates.
LEMMA InsertDistinct ==
  ASSUME NEW q \in Seq(Arrivals), NEW a \in Arrivals, Distinct(q), a \notin Members(q)
  PROVE  Distinct(Insert(q, a))
<1> DEFINE r == Insert(q, a)
<1>1. PICK p \in 1..(Len(q) + 1) :
        /\ \A j \in 1..(p - 1) : r[j] = q[j]
        /\ r[p] = a
        /\ \A j \in (p + 1)..(Len(q) + 1) : r[j] = q[j - 1]
  BY InsertShape
<1>2. Len(r) = Len(q) + 1 /\ Len(q) \in Nat
  BY InsertShape
<1> HIDE DEF r
<1> DEFINE from(j) == IF j < p THEN j ELSE j - 1
<1>3. \A j \in 1..Len(r) : j # p => from(j) \in 1..Len(q) /\ r[j] = q[from(j)]
  BY <1>1, <1>2
<1>4. \A i, j \in 1..Len(r) : i # p /\ j # p /\ from(i) = from(j) => i = j
  BY <1>1, <1>2
<1>5. \A j \in 1..Len(r) : j # p => r[j] # a
  BY <1>3 DEF Members
<1> HIDE DEF from
<1>6. ASSUME NEW i \in 1..Len(r), NEW j \in 1..Len(r), r[i] = r[j]
      PROVE  i = j
  <2>1. CASE i = p \/ j = p
    BY <2>1, <1>1, <1>5, <1>6
  <2>2. CASE i # p /\ j # p
    BY <2>2, <1>3, <1>4, <1>6 DEF Distinct
  <2> QED
    BY <2>1, <2>2
<1> QED
  BY <1>6 DEF Distinct, r

\* A queue in the order of the ranks.
Ordered(q) == \A i, j \in 1..Len(q) : i < j => Rank[q[i]] <= Rank[q[j]]

\* Enqueuing keeps the order of the ranks.
LEMMA InsertOrdered ==
  ASSUME NEW q \in Seq(Arrivals), NEW a \in Arrivals, Ordered(q)
  PROVE  Ordered(Insert(q, a))
<1> DEFINE r == Insert(q, a)
           R(i) == Rank[q[i]]
<1>1. PICK p \in 1..(Len(q) + 1) :
        /\ \A j \in 1..(p - 1) : r[j] = q[j] /\ R(j) <= Rank[a]
        /\ r[p] = a
        /\ \A j \in (p + 1)..(Len(q) + 1) : r[j] = q[j - 1]
        /\ p <= Len(q) => Rank[a] < R(p)
  BY InsertShape
<1>2. Len(r) = Len(q) + 1 /\ Len(q) \in Nat
  BY InsertShape
<1>3. Rank[a] \in Int /\ \A i \in 1..Len(q) : R(i) \in Int
  BY AirportAssumption
<1>4. \A i, j \in 1..Len(q) : i <= j => R(i) <= R(j)
  BY <1>3 DEF Ordered
<1>5. \A j \in 1..Len(r) : Rank[r[j]] = IF j < p THEN R(j) ELSE IF j = p THEN Rank[a]
                                        ELSE R(j - 1)
  BY <1>1, <1>2
<1> HIDE DEF r, R
<1>6. ASSUME NEW i \in 1..Len(r), NEW j \in 1..Len(r), i < j
      PROVE  Rank[r[i]] <= Rank[r[j]]
  <2>1. CASE j < p
    BY <2>1, <1>2, <1>4, <1>5, <1>6
  <2>2. CASE j = p
    BY <2>2, <1>1, <1>2, <1>5, <1>6
  <2>3. CASE i < p /\ p < j
    BY <2>3, <1>2, <1>4, <1>5, <1>6
  <2>4. CASE i = p
    <3>1. p <= Len(q) /\ p <= j - 1 /\ j - 1 \in 1..Len(q)
      BY <2>4, <1>2, <1>6
    <3>2. Rank[a] < R(p) /\ R(p) <= R(j - 1) /\ R(p) \in Int /\ R(j - 1) \in Int
      BY <3>1, <1>1, <1>3, <1>4
    <3>3. Rank[a] <= R(j - 1)
      BY <3>2, <1>3
    <3> QED
      BY <2>4, <3>3, <1>2, <1>5, <1>6
  <2>5. CASE p < i
    BY <2>5, <1>2, <1>4, <1>5, <1>6
  <2> QED
    BY <2>1, <2>2, <2>3, <2>4, <2>5, <1>1, <1>2, <1>6
<1> QED
  BY <1>6 DEF Ordered, r

\* What the pops of _pick_next leave: the guests outside S, each from its own
\* place and in the order of the places.
LEMMA WithoutShape ==
  ASSUME NEW q \in Seq(Arrivals), NEW S
  PROVE  \E f \in [1..Len(Without(q, S)) -> 1..Len(q)] :
           /\ \A j \in 1..Len(Without(q, S)) : Without(q, S)[j] = q[f[j]] /\ q[f[j]] \notin S
           /\ \A i, j \in 1..Len(Without(q, S)) : i < j => f[i] < f[j]
           /\ \A i \in 1..Len(q) : q[i] \notin S => \E j \in 1..Len(Without(q, S)) : f[j] = i
<1> DEFINE K(i) == {k \in 1..i : q[k] \notin S}
           kept(i) == Cardinality(K(i))
           at(j) == CHOOSE i \in 1..Len(q) :
                 /\ kept(i) >= j
                 /\ \A m \in 1..Len(q) : kept(m) >= j => i <= m
           n == kept(Len(q))
           w == Without(q, S)
<1>1. \A i \in Nat : IsFiniteSet(K(i)) /\ kept(i) \in Nat
  <2> TAKE i \in Nat
  <2>1. IsFiniteSet(1..i)
    BY FS_Interval
  <2>2. IsFiniteSet(K(i))
    BY <2>1, FS_Subset
  <2> QED
    BY <2>2, FS_CardinalityType
<1>2. kept(0) = 0
  <2>1. K(0) = {}
    OBVIOUS
  <2> QED
    BY <2>1, FS_EmptySet
<1>3. \A i \in Nat : kept(i + 1) = IF q[i + 1] \notin S THEN kept(i) + 1 ELSE kept(i)
  <2> TAKE i \in Nat
  <2>1. CASE q[i + 1] \notin S
    <3>1. K(i + 1) = K(i) \cup {i + 1} /\ i + 1 \notin K(i)
      BY <2>1
    <3> HIDE DEF K
    <3> QED
      BY <2>1, <3>1, <1>1, FS_AddElement
  <2>2. CASE q[i + 1] \in S
    <3>1. K(i + 1) = K(i)
      BY <2>2
    <3> HIDE DEF K
    <3> QED
      BY <2>2, <3>1
  <2> QED
    BY <2>1, <2>2
<1>4. \A i, m \in Nat : i <= m => kept(i) <= kept(m)
  <2> TAKE i, m \in Nat
  <2> HAVE i <= m
  <2>1. K(i) \in SUBSET K(m)
    OBVIOUS
  <2> HIDE DEF K
  <2> QED
    BY <2>1, <1>1, FS_Subset
<1> HIDE DEF K, kept
<1>5. Len(q) \in Nat /\ n \in Nat
  <2>1. Len(q) \in Nat
    OBVIOUS
  <2> QED
    BY <2>1, <1>1
<1>6. ASSUME NEW j \in 1..n
      PROVE  /\ at(j) \in 1..Len(q) /\ kept(at(j)) >= j
             /\ \A m \in 1..Len(q) : kept(m) >= j => at(j) <= m
  <2> DEFINE T == {i \in 1..Len(q) : kept(i) >= j}
  <2>1. T \in SUBSET Nat /\ Len(q) \in T
    BY <1>2, <1>5
  <2>2. PICK m \in T : \A k \in T : m <= k
    <3> HIDE DEF T
    <3> QED
      BY <2>1, LeastNatural
  <2>3. /\ m \in 1..Len(q) /\ kept(m) >= j
        /\ \A k \in 1..Len(q) : kept(k) >= j => m <= k
    BY <2>2
  <2> HIDE DEF T
  <2> QED
    BY <2>3
<1> HIDE DEF at
<1>7. ASSUME NEW j \in 1..n
      PROVE  kept(at(j)) = j /\ q[at(j)] \notin S
  <2> DEFINE i == at(j) - 1
  <2>0. i \in Nat /\ i + 1 = at(j)
    BY <1>6, <1>5
  <2>1. i \in Nat /\ i + 1 = at(j) /\ kept(i) \in Nat /\ kept(i + 1) >= j
    BY <2>0, <1>6, <1>1
  <2>2. kept(i) < j
    <3>1. CASE i = 0
      BY <3>1, <1>2
    <3>2. CASE i # 0
      <4>1. i \in 1..Len(q) /\ ~ (at(j) <= i)
        BY <3>2, <2>1, <1>6, <1>5
      <4>2. ~ (kept(i) >= j)
        BY <4>1, <1>6
      <4> QED
        BY <4>2, <2>1
    <3> QED
      BY <3>1, <3>2
  <2>3. kept(at(j)) = IF q[at(j)] \notin S THEN kept(i) + 1 ELSE kept(i)
    <3> HIDE DEF i
    <3>1. kept(i + 1) = IF q[i + 1] \notin S THEN kept(i) + 1 ELSE kept(i)
      BY <2>1, <1>3
    <3> QED
      BY <3>1, <2>1
  <2> HIDE DEF i
  <2> QED
    BY <2>1, <2>2, <2>3
<1>8. \A i, j \in 1..n : i < j => at(i) < at(j)
  <2> TAKE i, j \in 1..n
  <2> HAVE i < j
  <2>1. at(i) \in Nat /\ at(j) \in Nat /\ kept(at(i)) = i /\ kept(at(j)) = j
    BY <1>6, <1>7
  <2>2. at(j) <= at(i) => j <= i
    BY <2>1, <1>4
  <2> QED
    BY <2>1, <2>2, <1>5
<1>9. \A i \in 1..Len(q) : q[i] \notin S => \E j \in 1..n : at(j) = i
  <2> TAKE i \in 1..Len(q)
  <2> HAVE q[i] \notin S
  <2> DEFINE j == kept(i)
             h == i - 1
  <2>1. h \in Nat /\ h + 1 = i /\ i \in Nat
    BY <1>5
  <2>2. kept(i) = kept(h) + 1 /\ kept(h) \in Nat /\ kept(i) <= n
    <3> HIDE DEF h
    <3>1. kept(h + 1) = kept(h) + 1 /\ kept(h) \in Nat
      BY <2>1, <1>1, <1>3
    <3>2. i <= Len(q)
      BY <1>5
    <3> QED
      BY <3>1, <3>2, <2>1, <1>4, <1>5
  <2>3. j \in 1..n
    BY <2>2, <1>5
  <2>4. at(j) <= i /\ at(j) \in 1..Len(q) /\ kept(at(j)) = j
    BY <2>3, <1>6, <1>7, <2>2
  <2>5. at(j) <= h => kept(at(j)) <= kept(h)
    BY <2>4, <2>1, <1>4
  <2>6. at(j) = i
    BY <2>1, <2>2, <2>4, <2>5
  <2> QED
    BY <2>3, <2>6
<1>10. w = [j \in 1..n |-> q[at(j)]]
  BY DEF Without, K, kept, at
<1>11. Len(w) = n
  <2>1. w \in Seq(Arrivals)
    BY WithoutType
  <2>2. DOMAIN w = 1..n
    BY <1>10
  <2>3. DOMAIN w = 1..Len(w) /\ Len(w) \in Nat
    <3> HIDE DEF w
    <3> QED
      BY <2>1
  <2> HIDE DEF n, w
  <2> QED
    BY <1>5, <2>2, <2>3
<1> DEFINE f == [j \in 1..n |-> at(j)]
<1>12. f \in [1..n -> 1..Len(q)]
  BY <1>6
<1>13. \A j \in 1..n : f[j] = at(j) /\ w[j] = q[f[j]] /\ q[f[j]] \notin S
  BY <1>7, <1>10
<1>14. \A i, j \in 1..n : i < j => f[i] < f[j]
  BY <1>8
<1>15. \A i \in 1..Len(q) : q[i] \notin S => \E j \in 1..n : f[j] = i
  BY <1>9
<1> HIDE DEF f, n, w
<1>16. \E e \in [1..Len(w) -> 1..Len(q)] :
           /\ \A j \in 1..Len(w) : w[j] = q[e[j]] /\ q[e[j]] \notin S
           /\ \A i, j \in 1..Len(w) : i < j => e[i] < e[j]
           /\ \A i \in 1..Len(q) : q[i] \notin S => \E j \in 1..Len(w) : e[j] = i
  BY <1>11, <1>12, <1>13, <1>14, <1>15
<1> QED
  BY <1>16 DEF w

\* Popping a bundle takes exactly the bundle out of the queue.
LEMMA WithoutMembers ==
  ASSUME NEW q \in Seq(Arrivals), NEW S
  PROVE  Members(Without(q, S)) = Members(q) \ S
<1> DEFINE w == Without(q, S)
<1>1. PICK f \in [1..Len(w) -> 1..Len(q)] :
        /\ \A j \in 1..Len(w) : w[j] = q[f[j]] /\ q[f[j]] \notin S
        /\ \A i \in 1..Len(q) : q[i] \notin S => \E j \in 1..Len(w) : f[j] = i
  <2>1. \E f \in [1..Len(w) -> 1..Len(q)] :
           /\ \A j \in 1..Len(w) : w[j] = q[f[j]] /\ q[f[j]] \notin S
           /\ \A i, j \in 1..Len(w) : i < j => f[i] < f[j]
           /\ \A i \in 1..Len(q) : q[i] \notin S => \E j \in 1..Len(w) : f[j] = i
    BY WithoutShape
  <2> HIDE DEF w
  <2> QED
    BY <2>1
<1> HIDE DEF w
<1>2. \A j \in 1..Len(w) : w[j] \in Members(q) \ S
  BY <1>1 DEF Members
<1>3. \A i \in 1..Len(q) : q[i] \notin S => q[i] \in Members(w)
  <2> TAKE i \in 1..Len(q)
  <2> HAVE q[i] \notin S
  <2>1. PICK j \in 1..Len(w) : f[j] = i
    BY <1>1
  <2> QED
    BY <2>1, <1>1 DEF Members
<1>4. Members(w) = Members(q) \ S
  BY <1>2, <1>3 DEF Members
<1> QED
  BY <1>4 DEF w

\* Popping a bundle makes nobody stand twice.
LEMMA WithoutDistinct ==
  ASSUME NEW q \in Seq(Arrivals), NEW S, Distinct(q)
  PROVE  Distinct(Without(q, S))
<1> DEFINE w == Without(q, S)
<1>1. PICK f \in [1..Len(w) -> 1..Len(q)] :
        /\ \A j \in 1..Len(w) : w[j] = q[f[j]]
        /\ \A i, j \in 1..Len(w) : i < j => f[i] < f[j]
  BY WithoutShape
<1>2. w \in Seq(Arrivals)
  BY WithoutType
<1> HIDE DEF w
<1>3. ASSUME NEW i \in 1..Len(w), NEW j \in 1..Len(w), w[i] = w[j]
      PROVE  i = j
  <2>1. f[i] = f[j]
    BY <1>1, <1>3 DEF Distinct
  <2>2. f[i] \in Int /\ f[j] \in Int /\ ~ (i < j) /\ ~ (j < i)
    BY <1>1, <2>1
  <2> QED
    BY <2>2, <1>2
<1> QED
  BY <1>3 DEF w, Distinct

\* Popping a bundle keeps the order of the ranks.
LEMMA WithoutOrdered ==
  ASSUME NEW q \in Seq(Arrivals), NEW S, Ordered(q)
  PROVE  Ordered(Without(q, S))
<1> DEFINE w == Without(q, S)
<1>1. PICK f \in [1..Len(w) -> 1..Len(q)] :
        /\ \A j \in 1..Len(w) : w[j] = q[f[j]]
        /\ \A i, j \in 1..Len(w) : i < j => f[i] < f[j]
  BY WithoutShape
<1> HIDE DEF w
<1>2. \A i, j \in 1..Len(w) : i < j => Rank[w[i]] <= Rank[w[j]]
  BY <1>1 DEF Ordered
<1> QED
  BY <1>2 DEF w, Ordered

-----------------------------------------------------------------------------
(* Rank order.                                                             *)

\* Before the first restart the service is up and every queue is in order; only
\* the rehydration of a guest who was in a booth puts somebody to the front.
OrderInv == restarts = 0 => up /\ \A g \in Gates : Ordered(queue[g])

\* A step that changes no queue and no process state keeps the order.
LEMMA QueuesUntouched ==
  ASSUME OrderInv, queue' = queue, procVars' = procVars
  PROVE  OrderInv'
  BY DEF OrderInv, procVars, Ordered

\* Every step keeps the order.
LEMMA OrderStep ==
  ASSUME TypeInv, OrderInv, [Next]_vars
  PROVE  OrderInv'
<1>q. \A g \in Gates : queue[g] \in Seq(Arrivals)
  BY DEF TypeInv, TypeOK
<1>1. ASSUME NEW h \in Gates, NEW r, Ordered(queue[h]) => Ordered(r),
             queue' = [queue EXCEPT ![h] = r], procVars' = procVars
      PROVE  OrderInv'
  <2>1. \A g \in Gates : queue'[g] = IF g = h THEN r ELSE queue[g]
    BY <1>1 DEF TypeInv, TypeOK
  <2>2. \A g \in Gates : Ordered(queue[g]) => Ordered(queue'[g])
    BY <2>1, <1>1
  <2> QED
    BY <2>2, <1>1 DEF OrderInv, procVars
<1>2. ASSUME NEW g \in Gates, NEW passed, NEW taken, NEW first,
             TakeBundle(g, passed, taken, first)
      PROVE  OrderInv'
  <2>1. /\ queue' = [queue EXCEPT ![g] = Without(queue[g], taken)]
        /\ procVars' = procVars
    BY <1>2 DEF TakeBundle, procVars
  <2> QED
    BY <2>1, <1>1, <1>q, WithoutOrdered
<1>3. ASSUME NEW a \in Arrivals, EnqueueArrival(a) PROVE OrderInv'
  <2>1. /\ reqGate[a] \in Gates /\ procVars' = procVars
        /\ queue' = [queue EXCEPT ![reqGate[a]] = Insert(queue[reqGate[a]], a)]
    BY <1>3 DEF EnqueueArrival, procVars, TypeInv, ThreadsOK
  <2> QED
    BY <2>1, <1>1, <1>q, InsertOrdered
<1>4. ASSUME NEW c \in Closers, CloseDrain(c) PROVE OrderInv'
  <2>1. /\ closeGate[c] \in Gates /\ procVars' = procVars
        /\ queue' = [queue EXCEPT ![closeGate[c]] = <<>>]
    BY <1>4 DEF CloseDrain, DrainTo, procVars, TypeInv, ThreadsOK
  <2>2. Ordered(<<>>)
    BY DEF Ordered
  <2> QED
    BY <2>1, <2>2, <1>1
<1>5. ASSUME NEW c \in Closers, CloseRequeue(c) PROVE OrderInv'
  <2>1. Head(displaced[c]) \in Arrivals
    BY <1>5 DEF CloseRequeue, TypeInv, TypeOK
  <2>2. PICK t \in Gates : queue' = [queue EXCEPT ![t] = Insert(queue[t], Head(displaced[c]))]
    BY <1>5 DEF CloseRequeue, Shortest, TypeInv, TypeOK
  <2>3. procVars' = procVars
    BY <1>5 DEF CloseRequeue, procVars
  <2> QED
    BY <2>1, <2>2, <2>3, <1>1, <1>q, InsertOrdered
<1>6. CASE Crash
  BY <1>6 DEF Crash, OrderInv, TypeInv, TypeOK
<1>7. CASE Rehydrate
  <2>1. ~ up /\ restarts' = restarts
    BY <1>7 DEF Rehydrate, RehydrateRow, RehydrateCommit
  <2> QED
    BY <2>1 DEF OrderInv
<1>8. ASSUME NEW a \in Arrivals, ChooseGate(a) \/ ChooseFails(a) \/ SaveArrival(a)
      PROVE  OrderInv'
  BY <1>8, QueuesUntouched DEF ChooseGate, ChooseFails, SaveArrival, gateVars, procVars
<1>9. ASSUME NEW g \in Gates,
             \/ LoopTop(g) \/ MarkHeld(g) \/ StartBundle(g) \/ FinishBundle(g)
             \/ CommitBundle(g) \/ PublishOne(g) \/ ClearCurrent(g) \/ Open(g)
      PROVE  OrderInv'
  BY <1>9, QueuesUntouched DEF LoopTop, MarkHeld, StartBundle, FinishBundle, CommitBundle,
     PublishOne, ClearCurrent, Open, OpenCheck, OpenRegister, gateVars, procVars
<1>10. ASSUME NEW c \in Closers, CloseBegin(c) \/ CloseSave(c) \/ CloseDelete(c)
       PROVE  OrderInv'
  BY <1>10, QueuesUntouched DEF CloseBegin, CloseSave, CloseDelete, gateVars, procVars
<1>11. CASE UNCHANGED vars
  BY <1>11, QueuesUntouched DEF vars, gateVars, procVars
<1>12. ASSUME NEW g \in Gates, PickBundle(g) \/ PickNobody(g) PROVE OrderInv'
  BY <1>12, <1>2 DEF PickBundle, PickNobody
<1> QED
  BY <1>3, <1>4, <1>5, <1>6, <1>7, <1>8, <1>9, <1>10, <1>11, <1>12
  DEF Next, Request, Worker, Close

\* Until the process restarts, every queue is ordered by rank: closes that move
\* guests between queues and workers that pop families never mix it up.
THEOREM OrderedUntilRestart == Spec => [](restarts = 0 => RankOrder)
<1>1. Init => OrderInv
  BY DEF Init, OrderInv, Ordered, EmptyQueues
<1>2. OrderInv => (restarts = 0 => RankOrder)
  BY DEF OrderInv, Ordered, RankOrder, QueueLen
<1>3. TypeInv /\ OrderInv /\ [Next]_vars => OrderInv'
  BY OrderStep
<1> QED
  BY <1>1, <1>2, <1>3, TypeInvariance, PTL DEF Spec

-----------------------------------------------------------------------------
(* Nobody is forgotten.                                                    *)

\* The displaced guests a close has still to put into a queue.
Pending(c) == IF closePc[c] = "save" THEN Tail(displaced[c]) ELSE displaced[c]

\* Somebody still has a in hand, or its event is out.
Kept(a) ==
  \/ events[a] > 0 \/ reqPc[a] = "saved"
  \/ \E g \in Gates : a \in Members(queue[g]) \/ a \in bundle[g]
  \/ \E c \in Closers : a \in Members(Pending(c))

\* A worker has a bundle only between the pick and the last publish, a close has
\* displaced guests only after its drain, and neither exists while the process boots.
HandsInv ==
  /\ \A g \in Gates : wpc[g] \in {"unborn", "opening", "top", "pick", "clear", "stopped"} =>
                        bundle[g] = {}
  /\ \A c \in Closers : closePc[c] \in {"idle", "drain"} => displaced[c] = <<>>
  /\ ~ up => /\ \A g \in Gates : wpc[g] = "unborn"
             /\ \A c \in Closers : closePc[c] \in {"idle", "done"}

\* The inductive form of NobodyForgotten.  A worker that marks held guests and a
\* close that saves a guest only write rows of guests who are kept; while the process
\* boots, every unfinished row of a known gate is still to be read or in a queue again.
KeptInv ==
  /\ HandsInv
  /\ \A c \in Closers, a \in Arrivals :
       closePc[c] = "save" /\ a = Head(displaced[c]) => Kept(a)
  /\ \A g \in Gates : wpc[g] = "markHeld" => \A a \in newlyHeld[g] : Kept(a)
  /\ up => \A a \in Arrivals :
             dbStatus[a] # "none" => dbStatus[a] = "processed" \/ Stranded(a) \/ Kept(a)
  /\ ~ up => /\ restarts > 0
             /\ \A a \in Unfinished : Stranded(a) \/ a \in Members(boot)
                                      \/ \E g \in Gates : a \in Members(queue[g])

\* A longer queue keeps its members.
LEMMA MembersOfConcat ==
  ASSUME NEW p \in Seq(Arrivals), NEW q \in Seq(Arrivals)
  PROVE  Members(p \o q) = Members(p) \cup Members(q)
<1> DEFINE r == p \o q
<1>1. /\ Len(p) \in Nat /\ Len(q) \in Nat /\ Len(r) = Len(p) + Len(q)
      /\ \A i \in 1..Len(r) : r[i] = IF i <= Len(p) THEN p[i] ELSE q[i - Len(p)]
  OBVIOUS
<1> HIDE DEF r
<1>2. \A i \in 1..Len(r) : r[i] \in Members(p) \cup Members(q)
  BY <1>1 DEF Members
<1>3. \A i \in 1..Len(p) : p[i] \in Members(r)
  BY <1>1 DEF Members
<1>4. \A i \in 1..Len(q) : q[i] \in Members(r)
  <2> TAKE i \in 1..Len(q)
  <2>1. i + Len(p) \in 1..Len(r) /\ r[i + Len(p)] = q[i]
    BY <1>1
  <2> QED
    BY <2>1 DEF Members
<1>5. Members(r) = Members(p) \cup Members(q)
  BY <1>2, <1>3, <1>4 DEF Members
<1> QED
  BY <1>5 DEF r

\* A nonempty list is its head and its tail.
LEMMA MembersOfTail ==
  ASSUME NEW q \in Seq(Arrivals), q # <<>>
  PROVE  /\ Head(q) \in Arrivals /\ Tail(q) \in Seq(Arrivals)
         /\ Members(q) = {Head(q)} \cup Members(Tail(q))
<1>1. /\ Head(q) \in Arrivals /\ Tail(q) \in Seq(Arrivals) /\ Head(q) = q[1]
      /\ Len(q) \in Nat /\ Len(q) > 0 /\ Len(Tail(q)) = Len(q) - 1
      /\ \A i \in 1..Len(Tail(q)) : Tail(q)[i] = q[i + 1]
  OBVIOUS
<1>2. \A i \in 1..Len(q) : q[i] \in {Head(q)} \cup Members(Tail(q))
  <2> TAKE i \in 1..Len(q)
  <2>1. CASE i = 1
    BY <2>1, <1>1
  <2>2. CASE i # 1
    <3>1. i - 1 \in 1..Len(Tail(q)) /\ Tail(q)[i - 1] = q[i]
      BY <2>2, <1>1
    <3> QED
      BY <3>1 DEF Members
  <2> QED
    BY <2>1, <2>2
<1>3. \A i \in 1..Len(Tail(q)) : Tail(q)[i] \in Members(q)
  BY <1>1 DEF Members
<1>4. Head(q) \in Members(q)
  BY <1>1 DEF Members
<1> QED
  BY <1>1, <1>2, <1>3, <1>4 DEF Members

\* The minors _pick_next passes over are not of the family it takes.
LEMMA PassedNotTaken ==
  ASSUME NEW q, NEW a, NEW b, MayPass(q, a), ~ MayPass(q, b), a \in Members(q)
  PROVE  b \notin {a} \cup Relatives(q, a)
  BY DEF MayPass, Relatives

\* A step that moves no guest keeps everybody.
LEMMA NothingMoved ==
  ASSUME queue' = queue, bundle' = bundle, events' = events,
         \A c \in Closers : Pending(c)' = Pending(c),
         NEW a \in Arrivals, reqPc[a] = "saved" => reqPc'[a] = "saved", Kept(a)
  PROVE  Kept(a)'
  BY DEF Kept, Members

\* No step of the running service loses a guest that somebody has in hand.
LEMMA KeptStable ==
  ASSUME TypeInv, HandsInv, [Next]_vars, ~ Crash, NEW a \in Arrivals, Kept(a)
  PROVE  Kept(a)'
<1> USE DEF TypeInv, TypeOK
<1>q. \A g \in Gates : queue[g] \in Seq(Arrivals)
  OBVIOUS
<1>1. ASSUME NEW b \in Arrivals, ChooseGate(b) \/ ChooseFails(b) \/ SaveArrival(b)
      PROVE  Kept(a)'
  <2>1. /\ queue' = queue /\ bundle' = bundle /\ events' = events
        /\ closePc' = closePc /\ displaced' = displaced
    BY <1>1 DEF ChooseGate, ChooseFails, SaveArrival, gateVars, workerVars, closeVars
  <2>2. reqPc[a] = "saved" => reqPc'[a] = "saved"
    BY <1>1 DEF ChooseGate, ChooseFails, SaveArrival
  <2> QED
    BY <2>1, <2>2, NothingMoved DEF Pending
<1>2. ASSUME NEW b \in Arrivals, EnqueueArrival(b) PROVE Kept(a)'
  <2>1. /\ bundle' = bundle /\ events' = events
        /\ \A c \in Closers : Members(Pending(c))' = Members(Pending(c))
    BY <1>2 DEF EnqueueArrival, workerVars, closeVars, Pending, Members
  <2>2. /\ reqGate[b] \in Gates
        /\ queue' = [queue EXCEPT ![reqGate[b]] = Insert(queue[reqGate[b]], b)]
        /\ reqPc' = [reqPc EXCEPT ![b] = "done"]
    BY <1>2 DEF EnqueueArrival, ThreadsOK
  <2>3. \A g \in Gates : Members(queue'[g]) =
          IF g = reqGate[b] THEN Members(queue[g]) \cup {b} ELSE Members(queue[g])
    BY <2>2, <1>q, InsertMembers
  <2> QED
    BY <2>1, <2>2, <2>3 DEF Kept
<1>3. ASSUME NEW g \in Gates, NEW passed, NEW taken, NEW first, wpc[g] = "pick",
             taken \subseteq Members(queue[g]), TakeBundle(g, passed, taken, first)
      PROVE  Kept(a)'
  <2>1. /\ reqPc' = reqPc /\ events' = events
        /\ \A c \in Closers : Members(Pending(c))' = Members(Pending(c))
    BY <1>3 DEF TakeBundle, reqVars, closeVars, Pending, Members
  <2>2. /\ queue' = [queue EXCEPT ![g] = Without(queue[g], taken)]
        /\ bundle' = [bundle EXCEPT ![g] = taken]
        /\ bundle[g] = {}
    BY <1>3 DEF TakeBundle, HandsInv
  <2>3. \A h \in Gates : Members(queue'[h]) =
          IF h = g THEN Members(queue[h]) \ taken ELSE Members(queue[h])
    BY <2>2, <1>q, WithoutMembers
  <2>4. \A h \in Gates : bundle'[h] = IF h = g THEN taken ELSE bundle[h]
    BY <2>2
  <2> QED
    BY <2>1, <2>2, <2>3, <2>4 DEF Kept
<1>4. ASSUME NEW g \in Gates, PickBundle(g) PROVE Kept(a)'
  <2> DEFINE q == queue[g]
  <2>1. PICK i \in 1..Len(q) :
          TakeBundle(g, {q[j] : j \in 1..(i - 1)}, {q[i]} \cup Relatives(q, q[i]), q[i])
    BY <1>4 DEF PickBundle, QueueLen
  <2>2. {q[i]} \cup Relatives(q, q[i]) \subseteq Members(queue[g])
    BY <2>1 DEF Members, Relatives
  <2>3. wpc[g] = "pick"
    BY <1>4 DEF PickBundle
  <2> HIDE DEF q
  <2> QED
    BY <2>1, <2>2, <2>3, <1>3
<1>5. ASSUME NEW g \in Gates, PickNobody(g) PROVE Kept(a)'
  BY <1>5, <1>3 DEF PickNobody
<1>6. ASSUME NEW g \in Gates,
             \/ LoopTop(g) \/ MarkHeld(g) \/ StartBundle(g) \/ FinishBundle(g)
             \/ CommitBundle(g) \/ ClearCurrent(g) \/ Open(g)
      PROVE  Kept(a)'
  <2>1. /\ queue' = queue /\ bundle' = bundle /\ events' = events /\ reqPc' = reqPc
        /\ closePc' = closePc /\ displaced' = displaced
    BY <1>6 DEF LoopTop, MarkHeld, StartBundle, FinishBundle, CommitBundle, ClearCurrent,
       Open, OpenCheck, OpenRegister, reqVars, gateVars, closeVars
  <2> QED
    BY <2>1, NothingMoved DEF Pending
<1>7. ASSUME NEW g \in Gates, PublishOne(g) PROVE Kept(a)'
  <2>1. /\ queue' = queue /\ reqPc' = reqPc
        /\ \A c \in Closers : Members(Pending(c))' = Members(Pending(c))
    BY <1>7 DEF PublishOne, reqVars, gateVars, closeVars, Pending, Members
  <2>2. PICK b \in bundle[g] : /\ events' = [events EXCEPT ![b] = @ + 1]
                               /\ bundle' = [bundle EXCEPT ![g] = @ \ {b}]
    BY <1>7 DEF PublishOne
  <2>3. events'[a] >= events[a] /\ (a = b => events'[a] > 0)
    BY <2>2
  <2>4. \A h \in Gates : a \in bundle[h] /\ a # b => a \in bundle'[h]
    BY <2>2
  <2>5. events[a] \in Nat /\ events'[a] \in Nat
    BY <2>2
  <2> QED
    BY <2>1, <2>3, <2>4, <2>5 DEF Kept
<1>8. ASSUME NEW c \in Closers, CloseBegin(c) \/ CloseDelete(c) PROVE Kept(a)'
  <2>1. /\ queue' = queue /\ bundle' = bundle /\ events' = events /\ reqPc' = reqPc
        /\ displaced' = displaced
        /\ \A d \in Closers : closePc[d] = "save" <=> closePc'[d] = "save"
    BY <1>8 DEF CloseBegin, CloseDelete, reqVars, gateVars, workerVars
  <2> QED
    BY <2>1, NothingMoved DEF Pending
<1>9. ASSUME NEW c \in Closers, CloseSave(c) PROVE Kept(a)'
  <2>1. /\ queue' = queue /\ bundle' = bundle /\ events' = events /\ reqPc' = reqPc
        /\ displaced' = [displaced EXCEPT ![c] = Tail(@)]
        /\ closePc[c] = "save" /\ closePc' = [closePc EXCEPT ![c] = "requeue"]
    BY <1>9 DEF CloseSave, reqVars, gateVars, workerVars
  <2>2. \A d \in Closers : Pending(d)' = Pending(d)
    BY <2>1 DEF Pending
  <2> QED
    BY <2>1, <2>2, NothingMoved
<1>10. ASSUME NEW c \in Closers, CloseDrain(c) PROVE Kept(a)'
  <2> DEFINE g == closeGate[c]
  <2>1. /\ bundle' = bundle /\ events' = events /\ reqPc' = reqPc
        /\ displaced' = [displaced EXCEPT ![c] = InBooth(g) \o queue[g]]
        /\ queue' = [queue EXCEPT ![g] = <<>>] /\ g \in Gates
        /\ closePc[c] = "drain" /\ closePc' = [closePc EXCEPT ![c] = "requeue"]
    BY <1>10 DEF CloseDrain, DrainTo, reqVars, workerVars, ThreadsOK
  <2>2. InBooth(g) \in Seq(Arrivals)
    BY <2>1 DEF InBooth
  <2>3. Members(queue[g]) \subseteq Members(InBooth(g) \o queue[g])
    BY <2>1, <2>2, <1>q, MembersOfConcat
  <2>4. Members(Pending(c)') = Members(InBooth(g) \o queue[g]) /\ Members(Pending(c)) = {}
    <3>1. Pending(c) = <<>> /\ Pending(c)' = InBooth(g) \o queue[g]
      BY <2>1 DEF Pending, HandsInv
    <3>2. Members(<<>>) = {}
      BY DEF Members
    <3> QED
      BY <3>1, <3>2
  <2>5. \A d \in Closers : d # c => Members(Pending(d)') = Members(Pending(d))
    BY <2>1 DEF Pending
  <2>6. \A h \in Gates : h # g => Members(queue'[h]) = Members(queue[h])
    BY <2>1
  <2>7. \A h \in Gates : a \in Members(queue[h]) =>
          a \in Members(queue'[h]) \/ a \in Members(Pending(c)')
    BY <2>1, <2>3, <2>4, <2>6
  <2>8. \A d \in Closers : a \in Members(Pending(d)) => a \in Members(Pending(d)')
    BY <2>4, <2>5
  <2> HIDE DEF g
  <2> QED
    BY <2>1, <2>7, <2>8 DEF Kept
<1>11. ASSUME NEW c \in Closers, CloseRequeue(c) PROVE Kept(a)'
  <2>1. /\ bundle' = bundle /\ events' = events /\ reqPc' = reqPc /\ displaced' = displaced
        /\ closePc[c] = "requeue" /\ closePc' = [closePc EXCEPT ![c] = "save"]
        /\ displaced[c] \in Seq(Arrivals) /\ displaced[c] # <<>>
    BY <1>11 DEF CloseRequeue, reqVars, workerVars
  <2> DEFINE b == Head(displaced[c])
  <2>2. b \in Arrivals /\ Members(displaced[c]) = {b} \cup Members(Tail(displaced[c]))
    BY <2>1, MembersOfTail
  <2>3. PICK t \in Gates : queue' = [queue EXCEPT ![t] = Insert(queue[t], b)]
    BY <1>11 DEF CloseRequeue, Shortest
  <2>4. \A g \in Gates : Members(queue'[g]) =
          IF g = t THEN Members(queue[g]) \cup {b} ELSE Members(queue[g])
    BY <2>2, <2>3, <1>q, InsertMembers
  <2>5. /\ Members(Pending(c)) = {b} \cup Members(Pending(c)')
        /\ \A d \in Closers : d # c => Members(Pending(d)') = Members(Pending(d))
    BY <2>1, <2>2 DEF Pending
  <2> HIDE DEF b
  <2> QED
    BY <2>1, <2>3, <2>4, <2>5 DEF Kept
<1>12. ASSUME RehydrateRow PROVE Kept(a)'
  <2>1. /\ bundle' = bundle /\ events' = events /\ reqPc' = reqPc
        /\ \A c \in Closers : Members(Pending(c))' = Members(Pending(c))
    BY <1>12 DEF RehydrateRow, workerVars, reqVars, closeVars, Pending, Members
  <2>2. \A g \in Gates : Members(queue[g]) \subseteq Members(queue'[g])
    <3> DEFINE b == Head(boot)
    <3>1. b \in Arrivals
      BY <1>12 DEF RehydrateRow
    <3>2. \A g \in Gates : /\ Members(queue[g]) \subseteq Members(Insert(queue[g], b))
                           /\ Members(queue[g]) \subseteq Members(<<b>> \o queue[g])
      <4> TAKE g \in Gates
      <4>1. <<b>> \in Seq(Arrivals)
        BY <3>1
      <4> HIDE DEF b
      <4>2. Members(Insert(queue[g], b)) = Members(queue[g]) \cup {b}
        BY <3>1, <1>q, InsertMembers
      <4>3. Members(<<b>> \o queue[g]) = Members(<<b>>) \cup Members(queue[g])
        BY <4>1, <1>q, MembersOfConcat
      <4> QED
        BY <4>2, <4>3
    <3>3. CASE queue' = queue
      BY <3>3
    <3>4. CASE \E g \in DefaultGates : \/ queue' = [queue EXCEPT ![g] = <<b>> \o queue[g]]
                                       \/ queue' = [queue EXCEPT ![g] = Insert(queue[g], b)]
      <4> HIDE DEF b
      <4> QED
        BY <3>2, <3>4
    <3> QED
      BY <1>12, <3>3, <3>4 DEF RehydrateRow
  <2> QED
    BY <2>1, <2>2 DEF Kept
<1>13. CASE RehydrateCommit \/ UNCHANGED vars
  <2>1. /\ queue' = queue /\ bundle' = bundle /\ events' = events /\ reqPc' = reqPc
        /\ closePc' = closePc /\ displaced' = displaced
    BY <1>13 DEF RehydrateCommit, vars, reqVars, gateVars, closeVars, workerVars
  <2> QED
    BY <2>1, NothingMoved DEF Pending
<1> QED
  BY <1>1, <1>2, <1>4, <1>5, <1>6, <1>7, <1>8, <1>9, <1>10, <1>11, <1>12, <1>13
  DEF Next, Request, Worker, Close, Rehydrate

\* Every step keeps HandsInv.
LEMMA HandsStep ==
  ASSUME TypeInv, HandsInv, [Next]_vars
  PROVE  HandsInv'
<1> USE DEF TypeInv, TypeOK
<1>1. ASSUME NEW g \in Gates, NEW passed, NEW taken, NEW first, up,
             TakeBundle(g, passed, taken, first)
      PROVE  HandsInv'
  <2>1. /\ bundle' = [bundle EXCEPT ![g] = taken]
        /\ wpc' = [wpc EXCEPT ![g] = IF {b \in passed : memStatus[b] # "held"} # {}
                                     THEN "markHeld" ELSE AfterPick(taken)]
        /\ closePc' = closePc /\ displaced' = displaced /\ up'
    BY <1>1 DEF TakeBundle, closeVars, procVars
  <2> QED
    BY <2>1 DEF HandsInv, AfterPick
<1>2. ASSUME NEW a \in Arrivals, Request(a) PROVE HandsInv'
  BY <1>2 DEF HandsInv, Request, ChooseGate, ChooseFails, SaveArrival, EnqueueArrival,
     workerVars, closeVars, procVars
<1>3. ASSUME NEW g \in Gates, PickBundle(g) \/ PickNobody(g) PROVE HandsInv'
  BY <1>3, <1>1 DEF PickBundle, PickNobody
<1>4. ASSUME NEW g \in Gates, \/ LoopTop(g) \/ MarkHeld(g) \/ StartBundle(g)
                              \/ FinishBundle(g) \/ CommitBundle(g) \/ ClearCurrent(g)
      PROVE  HandsInv'
  <2>1. closePc' = closePc /\ displaced' = displaced /\ bundle' = bundle /\ up'
    BY <1>4 DEF LoopTop, MarkHeld, StartBundle, FinishBundle, CommitBundle, ClearCurrent,
       closeVars, procVars
  <2>2. \A h \in Gates :
          wpc'[h] \in {"unborn", "opening", "top", "pick", "clear", "stopped"} =>
            \/ wpc[h] \in {"unborn", "opening", "top", "pick", "clear", "stopped"}
            \/ bundle[h] = {}
    BY <1>4 DEF LoopTop, MarkHeld, StartBundle, FinishBundle, CommitBundle, ClearCurrent,
       AfterPick
  <2> QED
    BY <2>1, <2>2 DEF HandsInv
<1>5. ASSUME NEW g \in Gates, PublishOne(g) PROVE HandsInv'
  <2>1. closePc' = closePc /\ displaced' = displaced /\ wpc[g] = "publish" /\ up'
    BY <1>5 DEF PublishOne, closeVars, procVars
  <2>2. PICK a \in bundle[g] :
          /\ bundle' = [bundle EXCEPT ![g] = @ \ {a}]
          /\ wpc' = [wpc EXCEPT ![g] = IF bundle[g] = {a} THEN "clear" ELSE @]
    BY <1>5 DEF PublishOne
  <2> QED
    BY <2>1, <2>2 DEF HandsInv
<1>6. ASSUME NEW g \in Gates, Open(g) PROVE HandsInv'
  BY <1>6 DEF HandsInv, Open, OpenCheck, OpenRegister, closeVars, procVars
<1>7. ASSUME NEW c \in Closers, Close(c) PROVE HandsInv'
  <2>1. bundle' = bundle /\ wpc' = wpc /\ up'
    BY <1>7 DEF Close, CloseBegin, CloseDrain, DrainTo, CloseRequeue, CloseSave, CloseDelete,
       workerVars, procVars
  <2>2. \A d \in Closers : closePc'[d] \in {"idle", "drain"} =>
          closePc[d] \in {"idle", "drain"} /\ displaced'[d] = displaced[d]
    BY <1>7 DEF Close, CloseBegin, CloseDrain, DrainTo, CloseRequeue, CloseSave, CloseDelete
  <2> QED
    BY <2>1, <2>2 DEF HandsInv
<1>8. CASE Crash \/ RehydrateCommit
  <2>1. CASE Crash
    BY <2>1 DEF HandsInv, Crash, Nobody
  <2>2. CASE RehydrateCommit
    BY <2>2 DEF HandsInv, RehydrateCommit, Started, closeVars
  <2> QED
    BY <1>8, <2>1, <2>2
<1>9. CASE RehydrateRow \/ UNCHANGED vars
  BY <1>9 DEF HandsInv, RehydrateRow, vars, workerVars, closeVars, procVars
<1> QED
  BY <1>2, <1>3, <1>4, <1>5, <1>6, <1>7, <1>8, <1>9 DEF Next, Worker, Rehydrate

\* A close that is about to save has its guest in a queue or further on.
LEMMA SaveKept ==
  ASSUME TypeInv, KeptInv, [Next]_vars, ~ Crash,
         NEW c \in Closers, NEW a \in Arrivals, closePc'[c] = "save", a = Head(displaced'[c])
  PROVE  Kept(a)'
<1> USE DEF TypeInv, TypeOK
<1>1. CASE CloseRequeue(c)
  <2>1. displaced' = displaced
    BY <1>1 DEF CloseRequeue
  <2>2. PICK t \in Gates : queue' = [queue EXCEPT ![t] = Insert(queue[t], a)]
    BY <1>1, <2>1 DEF CloseRequeue, Shortest
  <2>3. a \in Members(Insert(queue[t], a))
    BY InsertMembers
  <2>4. a \in Members(queue'[t])
    BY <2>2, <2>3
  <2> QED
    BY <2>4 DEF Kept
<1>2. CASE ~ CloseRequeue(c)
  <2>1. closePc[c] = "save" /\ displaced'[c] = displaced[c]
    <3>1. CASE \E d \in Closers : Close(d)
      BY <3>1, <1>2 DEF Close, CloseBegin, CloseDrain, DrainTo, CloseRequeue, CloseSave,
         CloseDelete
    <3>2. CASE \E g \in Gates : Worker(g) \/ Open(g)
      BY <3>2 DEF Worker, LoopTop, PickBundle, PickNobody, TakeBundle, MarkHeld, StartBundle,
         FinishBundle, CommitBundle, PublishOne, ClearCurrent, Open, OpenCheck, OpenRegister,
         closeVars
    <3>3. CASE \E b \in Arrivals : Request(b)
      BY <3>3 DEF Request, ChooseGate, ChooseFails, SaveArrival, EnqueueArrival, closeVars
    <3>4. CASE Rehydrate \/ UNCHANGED vars
      BY <3>4 DEF Rehydrate, RehydrateRow, RehydrateCommit, vars, closeVars
    <3> QED
      BY <3>1, <3>2, <3>3, <3>4 DEF Next
  <2>2. Kept(a)
    BY <2>1 DEF KeptInv
  <2> QED
    BY <2>2, KeptStable DEF KeptInv
<1> QED
  BY <1>1, <1>2

\* A worker that is about to mark guests held has them in its queue or further on.
LEMMA HeldKept ==
  ASSUME TypeInv, KeptInv, [Next]_vars, ~ Crash,
         NEW g \in Gates, NEW a \in newlyHeld'[g], a \in Arrivals, wpc'[g] = "markHeld"
  PROVE  Kept(a)'
<1> USE DEF TypeInv, TypeOK
<1> SUFFICES Kept(a)
  BY KeptStable DEF KeptInv
<1>1. ASSUME NEW passed, NEW taken, NEW first, passed \subseteq Members(queue[g]),
             TakeBundle(g, passed, taken, first)
      PROVE  Kept(a)
  BY <1>1 DEF TakeBundle, Kept
<1>2. CASE PickBundle(g)
  <2> DEFINE q == queue[g]
  <2>1. PICK i \in 1..Len(q) :
          TakeBundle(g, {q[j] : j \in 1..(i - 1)}, {q[i]} \cup Relatives(q, q[i]), q[i])
    BY <1>2 DEF PickBundle, QueueLen
  <2>2. {q[j] : j \in 1..(i - 1)} \subseteq Members(queue[g])
    BY <2>1 DEF Members
  <2> HIDE DEF q
  <2> QED
    BY <2>1, <2>2, <1>1
<1>3. CASE PickNobody(g)
  BY <1>3, <1>1 DEF PickNobody
<1>4. CASE ~ PickBundle(g) /\ ~ PickNobody(g)
  <2>1. wpc[g] = "markHeld" /\ newlyHeld'[g] = newlyHeld[g]
    <3>1. ASSUME NEW h \in Gates, Worker(h) \/ Open(h)
          PROVE  wpc[g] = "markHeld" /\ newlyHeld'[g] = newlyHeld[g]
      <4>1. CASE PickBundle(h) \/ PickNobody(h)
        <5>1. h # g
          BY <4>1, <1>4
        <5> QED
          BY <5>1, <4>1 DEF PickBundle, PickNobody, TakeBundle
      <4>2. CASE ~ PickBundle(h) /\ ~ PickNobody(h)
        BY <4>2, <3>1 DEF Worker, LoopTop, MarkHeld, StartBundle,
         FinishBundle, CommitBundle, PublishOne, ClearCurrent, Open, OpenCheck, OpenRegister,
         AfterPick
      <4> QED
        BY <4>1, <4>2
    <3>2. CASE \E d \in Closers : Close(d)
      BY <3>2 DEF Close, CloseBegin, CloseDrain, DrainTo, CloseRequeue, CloseSave,
         CloseDelete, workerVars
    <3>3. CASE \E b \in Arrivals : Request(b)
      BY <3>3 DEF Request, ChooseGate, ChooseFails, SaveArrival, EnqueueArrival, workerVars
    <3>4. CASE Rehydrate \/ UNCHANGED vars
      BY <3>4 DEF Rehydrate, RehydrateRow, RehydrateCommit, Started, vars, workerVars
    <3> QED
      BY <3>1, <3>2, <3>3, <3>4 DEF Next
  <2> QED
    BY <2>1 DEF KeptInv
<1> QED
  BY <1>2, <1>3, <1>4

\* Whoever stands in the booth of a gate object.
Booth(g) == {current[g]} \ {NoArrival}

\* The arrivals that have a row.
Rows == {a \in Arrivals : dbStatus[a] # "none"}

\* The row comes first: whoever stands in a queue or a booth, is in a bundle, held,
\* displaced or about to be rehydrated has a row, and a row has been stamped.
RowInv ==
  /\ \A g \in Gates : /\ Members(queue[g]) \subseteq Rows /\ Booth(g) \subseteq Rows
                      /\ bundle[g] \subseteq Rows /\ newlyHeld[g] \subseteq Rows
  /\ \A c \in Closers : Members(displaced[c]) \subseteq Rows
  /\ Members(boot) \subseteq Rows
  /\ \A a \in Arrivals : reqPc[a] = "saved" => a \in Rows
  /\ \A a \in Arrivals : a \in Rows \/ reqPc[a] = "chosen" => a \in Members(stamped)

\* Appending adds one member.
LEMMA MembersOfAppend ==
  ASSUME NEW q \in Seq(Arrivals), NEW b \in Arrivals
  PROVE  Members(Append(q, b)) = Members(q) \cup {b}
<1>1. /\ Len(q) \in Nat /\ Len(Append(q, b)) = Len(q) + 1
      /\ \A i \in 1..Len(q) : Append(q, b)[i] = q[i]
      /\ Append(q, b)[Len(q) + 1] = b
  OBVIOUS
<1> QED
  BY <1>1 DEF Members

\* Every step keeps RowInv.
LEMMA RowStep ==
  ASSUME TypeInv, RowInv, [Next]_vars
  PROVE  RowInv'
<1> USE DEF TypeInv, TypeOK
<1>q. \A g \in Gates : queue[g] \in Seq(Arrivals)
  OBVIOUS
<1>0. ASSUME Rows' = Rows, queue' = queue, bundle' = bundle, newlyHeld' = newlyHeld,
             displaced' = displaced, boot' = boot, stamped' = stamped,
             \A g \in Gates : Booth(g)' \subseteq Booth(g),
             \A a \in Arrivals : reqPc'[a] \in {"chosen", "saved"} => reqPc'[a] = reqPc[a]
      PROVE  RowInv'
  <2>1. \A g \in Gates : /\ Members(queue'[g]) \subseteq Rows /\ Booth(g)' \subseteq Rows
                         /\ bundle'[g] \subseteq Rows /\ newlyHeld'[g] \subseteq Rows
    BY <1>0 DEF RowInv
  <2>2. /\ \A c \in Closers : Members(displaced'[c]) \subseteq Rows
        /\ Members(boot') \subseteq Rows /\ Members(stamped') = Members(stamped)
    BY <1>0 DEF RowInv
  <2>3. \A a \in Arrivals : /\ reqPc'[a] = "saved" => a \in Rows
                            /\ a \in Rows \/ reqPc'[a] = "chosen" => a \in Members(stamped)
    BY <1>0 DEF RowInv
  <2> QED
    BY <1>0, <2>1, <2>2, <2>3 DEF RowInv
<1>1. ASSUME NEW a \in Arrivals, ChooseGate(a) PROVE RowInv'
  <2>1. /\ queue' = queue /\ bundle' = bundle /\ newlyHeld' = newlyHeld /\ boot' = boot
        /\ displaced' = displaced /\ current' = current /\ dbStatus' = dbStatus
        /\ reqPc' = [reqPc EXCEPT ![a] = "chosen"] /\ stamped' = Append(stamped, a)
    BY <1>1 DEF ChooseGate, dbVars, gateVars, workerVars, closeVars, procVars
  <2>2. Members(stamped') = Members(stamped) \cup {a}
    BY <2>1, MembersOfAppend
  <2> QED
    BY <2>1, <2>2 DEF RowInv, Rows, Booth
<1>2. ASSUME NEW a \in Arrivals, ChooseFails(a) PROVE RowInv'
  BY <1>2, <1>0 DEF ChooseFails, dbVars, gateVars, workerVars, closeVars, procVars, Rows, Booth
<1>3. ASSUME NEW a \in Arrivals, SaveArrival(a) PROVE RowInv'
  <2>1. /\ queue' = queue /\ bundle' = bundle /\ newlyHeld' = newlyHeld /\ boot' = boot
        /\ displaced' = displaced /\ current' = current /\ stamped' = stamped
        /\ reqPc' = [reqPc EXCEPT ![a] = "saved"] /\ reqPc[a] = "chosen"
    BY <1>3 DEF SaveArrival, gateVars, workerVars, closeVars, procVars
  <2>2. Rows' = Rows \cup {a}
    BY <1>3 DEF SaveArrival, Rows
  <2> QED
    BY <2>1, <2>2 DEF RowInv, Booth
<1>4. ASSUME NEW a \in Arrivals, EnqueueArrival(a) PROVE RowInv'
  <2>1. /\ Rows' = Rows /\ bundle' = bundle /\ newlyHeld' = newlyHeld /\ boot' = boot
        /\ displaced' = displaced /\ current' = current /\ stamped' = stamped
        /\ reqPc' = [reqPc EXCEPT ![a] = "done"] /\ reqPc[a] = "saved"
        /\ reqGate[a] \in Gates
        /\ queue' = [queue EXCEPT ![reqGate[a]] = Insert(queue[reqGate[a]], a)]
    BY <1>4 DEF EnqueueArrival, dbVars, workerVars, closeVars, procVars, ThreadsOK, Rows
  <2>2. \A g \in Gates : Members(queue'[g]) =
          IF g = reqGate[a] THEN Members(queue[g]) \cup {a} ELSE Members(queue[g])
    BY <2>1, <1>q, InsertMembers
  <2>3. a \in Rows /\ \A g \in Gates : Members(queue[g]) \subseteq Rows
    BY <2>1 DEF RowInv
  <2>4. \A g \in Gates : Members(queue'[g]) \subseteq Rows
    BY <2>2, <2>3
  <2> QED
    BY <2>1, <2>4 DEF RowInv, Booth
<1>5. ASSUME NEW g \in Gates, NEW passed, NEW taken, NEW first,
             passed \subseteq Members(queue[g]), taken \subseteq Members(queue[g]),
             taken = {} \/ first \in taken, TakeBundle(g, passed, taken, first)
      PROVE  RowInv'
  <2>1. /\ Rows' = Rows /\ boot' = boot /\ displaced' = displaced /\ reqPc' = reqPc
        /\ stamped' = stamped
    BY <1>5 DEF TakeBundle, dbVars, closeVars, procVars, reqVars, Rows
  <2>2. /\ queue' = [queue EXCEPT ![g] = Without(queue[g], taken)]
        /\ bundle' = [bundle EXCEPT ![g] = taken]
        /\ newlyHeld'[g] \subseteq passed /\ \A h \in Gates : h # g => newlyHeld'[h] = newlyHeld[h]
        /\ current' = [current EXCEPT ![g] = IF taken = {} THEN @ ELSE first]
    BY <1>5 DEF TakeBundle
  <2>3. \A h \in Gates : Members(queue'[h]) \subseteq Members(queue[h])
    BY <2>2, <1>q, WithoutMembers
  <2>4. \A h \in Gates : Booth(h)' \subseteq Booth(h) \cup Members(queue[g])
    BY <2>2, <1>5 DEF Booth
  <2>5. Members(queue[g]) \subseteq Rows
    BY DEF RowInv
  <2>6. \A h \in Gates : /\ Members(queue'[h]) \subseteq Rows /\ Booth(h)' \subseteq Rows
                         /\ bundle'[h] \subseteq Rows /\ newlyHeld'[h] \subseteq Rows
    BY <2>2, <2>3, <2>4, <2>5, <1>5 DEF RowInv
  <2> QED
    BY <2>1, <2>6 DEF RowInv
<1>6. ASSUME NEW g \in Gates, PickBundle(g) PROVE RowInv'
  <2> DEFINE q == queue[g]
  <2>1. PICK i \in 1..Len(q) :
          TakeBundle(g, {q[j] : j \in 1..(i - 1)}, {q[i]} \cup Relatives(q, q[i]), q[i])
    BY <1>6 DEF PickBundle, QueueLen
  <2>2. /\ {q[i]} \cup Relatives(q, q[i]) \subseteq Members(queue[g])
        /\ {q[j] : j \in 1..(i - 1)} \subseteq Members(queue[g])
    BY <2>1 DEF Members, Relatives
  <2> HIDE DEF q
  <2> QED
    BY <2>1, <2>2, <1>5
<1>7. ASSUME NEW g \in Gates, PickNobody(g) PROVE RowInv'
  <2>1. TakeBundle(g, Members(queue[g]), {}, NoArrival)
    BY <1>7 DEF PickNobody
  <2>2. ASSUME NEW passed, NEW taken, NEW first, passed \subseteq Members(queue[g]),
               taken = {}, TakeBundle(g, passed, taken, first)
        PROVE  RowInv'
    <3>1. taken \subseteq Members(queue[g])
      BY <2>2
    <3> QED
      BY <2>2, <3>1, <1>5
  <2> QED
    BY <2>1, <2>2
<1>8. ASSUME NEW g \in Gates, \/ LoopTop(g) \/ MarkHeld(g) \/ StartBundle(g)
                              \/ FinishBundle(g) \/ CommitBundle(g) \/ ClearCurrent(g) \/ Open(g)
      PROVE  RowInv'
  <2>1. /\ queue' = queue /\ bundle' = bundle /\ newlyHeld' = newlyHeld /\ boot' = boot
        /\ displaced' = displaced /\ stamped' = stamped /\ reqPc' = reqPc
    BY <1>8 DEF LoopTop, MarkHeld, StartBundle, FinishBundle, CommitBundle, ClearCurrent,
       Open, OpenCheck, OpenRegister, gateVars, closeVars, procVars, reqVars
  <2>2. \A h \in Gates : Booth(h)' \subseteq Booth(h)
    BY <1>8 DEF LoopTop, MarkHeld, StartBundle, FinishBundle, CommitBundle, ClearCurrent,
       Open, OpenCheck, OpenRegister, gateVars, Booth
  <2>3. Rows' = Rows
    <3>1. CASE MarkHeld(g) \/ StartBundle(g) \/ CommitBundle(g)
      BY <3>1 DEF MarkHeld, StartBundle, CommitBundle, SetRows, RowInv, Rows
    <3>2. CASE LoopTop(g) \/ FinishBundle(g) \/ ClearCurrent(g) \/ Open(g)
      BY <3>2 DEF LoopTop, FinishBundle, ClearCurrent, Open, OpenCheck, OpenRegister, dbVars, Rows
    <3> QED
      BY <1>8, <3>1, <3>2
  <2> QED
    BY <2>1, <2>2, <2>3, <1>0
<1>9. ASSUME NEW g \in Gates, PublishOne(g) PROVE RowInv'
  <2>1. /\ Rows' = Rows /\ queue' = queue /\ newlyHeld' = newlyHeld /\ boot' = boot
        /\ displaced' = displaced /\ stamped' = stamped /\ reqPc' = reqPc /\ current' = current
        /\ \A h \in Gates : bundle'[h] \subseteq bundle[h]
    BY <1>9 DEF PublishOne, dbVars, gateVars, closeVars, procVars, reqVars, Rows
  <2> QED
    BY <2>1 DEF RowInv, Booth
<1>10. ASSUME NEW c \in Closers, CloseBegin(c) \/ CloseDelete(c) PROVE RowInv'
  BY <1>10, <1>0 DEF CloseBegin, CloseDelete, dbVars, gateVars, workerVars, reqVars, procVars,
     Rows, Booth
<1>11. ASSUME NEW c \in Closers, CloseSave(c) PROVE RowInv'
  <2>1. /\ queue' = queue /\ bundle' = bundle /\ newlyHeld' = newlyHeld /\ boot' = boot
        /\ current' = current /\ stamped' = stamped /\ reqPc' = reqPc
        /\ displaced' = [displaced EXCEPT ![c] = Tail(@)]
    BY <1>11 DEF CloseSave, gateVars, workerVars, reqVars, procVars
  <2>2. /\ Head(displaced[c]) \in Members(displaced[c])
        /\ Members(Tail(displaced[c])) \subseteq Members(displaced[c])
    <3>1. displaced[c] \in Seq(Arrivals) /\ displaced[c] # <<>>
      BY <1>11 DEF CloseSave, ThreadsOK
    <3> QED
      BY <3>1, MembersOfTail
  <2>3. Rows' = Rows
    BY <1>11, <2>2 DEF CloseSave, SetRows, RowInv, Rows
  <2>4. \A d \in Closers : Members(displaced'[d]) \subseteq Members(displaced[d])
    BY <2>1, <2>2
  <2> QED
    BY <2>1, <2>3, <2>4 DEF RowInv, Booth
<1>12. ASSUME NEW c \in Closers, CloseDrain(c) PROVE RowInv'
  <2> DEFINE g == closeGate[c]
  <2>1. /\ Rows' = Rows /\ bundle' = bundle /\ newlyHeld' = newlyHeld /\ boot' = boot
        /\ stamped' = stamped /\ reqPc' = reqPc /\ g \in Gates
        /\ displaced' = [displaced EXCEPT ![c] = InBooth(g) \o queue[g]]
        /\ queue' = [queue EXCEPT ![g] = <<>>]
        /\ current' = [current EXCEPT ![g] = NoArrival]
    BY <1>12 DEF CloseDrain, DrainTo, dbVars, reqVars, workerVars, procVars, ThreadsOK, Rows
  <2>2. InBooth(g) \in Seq(Arrivals) /\ Members(InBooth(g)) = Booth(g)
    <3>1. CASE current[g] = NoArrival
      BY <3>1 DEF InBooth, Booth, Members
    <3>2. CASE current[g] # NoArrival
      <4>1. current[g] \in Arrivals
        BY <2>1, <3>2
      <4>2. <<current[g]>> \in Seq(Arrivals) /\ Len(<<current[g]>>) = 1
            /\ <<current[g]>>[1] = current[g]
        BY <4>1
      <4> QED
        BY <3>2, <4>2 DEF InBooth, Booth, Members
    <3> QED
      BY <3>1, <3>2
  <2>3. Members(InBooth(g) \o queue[g]) = Booth(g) \cup Members(queue[g])
    BY <2>1, <2>2, <1>q, MembersOfConcat
  <2>4. Members(<<>>) = {}
    BY DEF Members
  <2> HIDE DEF g
  <2>5. \A h \in Gates : Members(queue'[h]) \subseteq Members(queue[h]) /\ Booth(h)' \subseteq Booth(h)
    BY <2>1, <2>4 DEF Booth
  <2>6. \A d \in Closers : Members(displaced'[d]) \subseteq Rows
    BY <2>1, <2>3 DEF RowInv
  <2> QED
    BY <2>1, <2>5, <2>6 DEF RowInv
<1>13. ASSUME NEW c \in Closers, CloseRequeue(c) PROVE RowInv'
  <2>1. /\ Rows' = Rows /\ bundle' = bundle /\ newlyHeld' = newlyHeld /\ boot' = boot
        /\ stamped' = stamped /\ reqPc' = reqPc /\ displaced' = displaced /\ current' = current
        /\ displaced[c] \in Seq(Arrivals) /\ displaced[c] # <<>>
    BY <1>13 DEF CloseRequeue, dbVars, reqVars, workerVars, procVars, Rows
  <2> DEFINE b == Head(displaced[c])
  <2>2. b \in Arrivals /\ b \in Members(displaced[c])
    BY <2>1, MembersOfTail
  <2>3. PICK t \in Gates : queue' = [queue EXCEPT ![t] = Insert(queue[t], b)]
    BY <1>13 DEF CloseRequeue, Shortest
  <2>4. \A g \in Gates : Members(queue'[g]) =
          IF g = t THEN Members(queue[g]) \cup {b} ELSE Members(queue[g])
    BY <2>2, <2>3, <1>q, InsertMembers
  <2> HIDE DEF b
  <2>5. \A g \in Gates : Members(queue'[g]) \subseteq Rows
    BY <2>2, <2>4 DEF RowInv
  <2> QED
    BY <2>1, <2>5 DEF RowInv, Booth
<1>14. CASE Crash
  <2>1. /\ Rows' = Rows /\ stamped' = stamped
        /\ boot' = Without(stamped, Arrivals \ Unfinished)
        /\ \A g \in Gates : queue'[g] = <<>> /\ bundle'[g] = {} /\ newlyHeld'[g] = {}
                            /\ Booth(g)' = {}
        /\ \A c \in Closers : displaced'[c] = <<>>
        /\ \A a \in Arrivals : reqPc'[a] \notin {"chosen", "saved"}
    BY <1>14 DEF Crash, dbVars, Rows, EmptyQueues, Nobody, NoneInBooth, Booth
  <2>2. Members(boot') \subseteq Unfinished
    BY <2>1, WithoutMembers, MembersType
  <2>3. Unfinished \subseteq Rows /\ Members(<<>>) = {}
    BY DEF Unfinished, Rows, Members
  <2> QED
    BY <2>1, <2>2, <2>3 DEF RowInv
<1>15. CASE RehydrateRow
  <2>1. /\ Rows' = Rows /\ bundle' = bundle /\ newlyHeld' = newlyHeld /\ boot' = Tail(boot)
        /\ stamped' = stamped /\ reqPc' = reqPc /\ displaced' = displaced /\ current' = current
        /\ boot # <<>>
    BY <1>15 DEF RehydrateRow, dbVars, reqVars, workerVars, closeVars, Rows
  <2> DEFINE b == Head(boot)
  <2>2. b \in Arrivals /\ Members(boot) = {b} \cup Members(Tail(boot))
    BY <2>1, MembersOfTail
  <2>3. \A g \in Gates : Members(queue'[g]) \subseteq Members(queue[g]) \cup {b}
    <3>1. \A g \in Gates : /\ Members(Insert(queue[g], b)) = Members(queue[g]) \cup {b}
                           /\ Members(<<b>> \o queue[g]) = Members(queue[g]) \cup {b}
      <4> TAKE g \in Gates
      <4> HIDE DEF b
      <4>1. <<b>> \in Seq(Arrivals) /\ Members(<<b>>) = {b}
        <5>1. <<b>> \in Seq(Arrivals) /\ Len(<<b>>) = 1 /\ <<b>>[1] = b
          BY <2>2
        <5> QED
          BY <5>1 DEF Members
      <4>2. Members(Insert(queue[g], b)) = Members(queue[g]) \cup {b}
        BY <2>2, <1>q, InsertMembers
      <4>3. Members(<<b>> \o queue[g]) = Members(<<b>>) \cup Members(queue[g])
        BY <4>1, <1>q, MembersOfConcat
      <4> QED
        BY <4>1, <4>2, <4>3
    <3>2. CASE queue' = queue
      BY <3>2
    <3>3. CASE \E g \in DefaultGates : \/ queue' = [queue EXCEPT ![g] = <<b>> \o queue[g]]
                                       \/ queue' = [queue EXCEPT ![g] = Insert(queue[g], b)]
      <4> HIDE DEF b
      <4>1. PICK g \in DefaultGates : \/ queue' = [queue EXCEPT ![g] = <<b>> \o queue[g]]
                                     \/ queue' = [queue EXCEPT ![g] = Insert(queue[g], b)]
        BY <3>3
      <4>2. g \in Gates /\ Members(queue'[g]) = Members(queue[g]) \cup {b}
        BY <3>1, <4>1, AirportAssumption
      <4>3. \A h \in Gates : h # g => queue'[h] = queue[h]
        BY <4>1
      <4> QED
        BY <4>2, <4>3
    <3> QED
      BY <1>15, <3>2, <3>3 DEF RehydrateRow
  <2> HIDE DEF b
  <2>4. (\A g \in Gates : Members(queue'[g]) \subseteq Rows) /\ Members(boot') \subseteq Rows
    BY <2>1, <2>2, <2>3 DEF RowInv
  <2> QED
    BY <2>1, <2>4 DEF RowInv, Booth
<1>16. CASE RehydrateCommit
  <2>1. Rows' = Rows
    BY <1>16 DEF RehydrateCommit, SetRows, Rows
  <2> QED
    BY <1>16, <2>1, <1>0 DEF RehydrateCommit, reqVars, gateVars, closeVars, Booth
<1>17. CASE UNCHANGED vars
  BY <1>17, <1>0 DEF vars, reqVars, dbVars, gateVars, workerVars, closeVars, procVars, Rows, Booth
<1> QED
  BY <1>1, <1>2, <1>3, <1>4, <1>6, <1>7, <1>8, <1>9, <1>10, <1>11, <1>12, <1>13, <1>14,
     <1>15, <1>16, <1>17
  DEF Next, Request, Worker, Close, Rehydrate

\* A guest has a row before anybody can hold it.
LEMMA RowsFirst == Spec => []RowInv
<1>1. Init => RowInv
  BY DEF Init, RowInv, Rows, Booth, EmptyQueues, NoneInBooth, Nobody, Members
<1>2. TypeInv /\ RowInv /\ [Next]_vars => RowInv'
  BY RowStep
<1> QED
  BY <1>1, <1>2, TypeInvariance, PTL DEF Spec

\* While the service runs, a step that changes a row leaves it processed or writes
\* the row of a guest who is kept.
LEMMA RowWrites ==
  ASSUME TypeInv, KeptInv, [Next]_vars, ~ Crash, up, NEW a \in Arrivals
  PROVE  \/ dbStatus'[a] = dbStatus[a] /\ dbGate'[a] = dbGate[a]
         \/ dbStatus'[a] = "processed" \/ Kept(a)'
<1> USE DEF TypeInv, TypeOK
<1>k. Kept(a) => Kept(a)'
  BY KeptStable DEF KeptInv
<1>1. ASSUME NEW b \in Arrivals, SaveArrival(b)
      PROVE  (dbStatus'[a] = dbStatus[a] /\ dbGate'[a] = dbGate[a]) \/ Kept(a)'
  <2>1. CASE a = b
    BY <1>1, <2>1 DEF SaveArrival, Kept
  <2>2. CASE a # b
    BY <1>1, <2>2 DEF SaveArrival
  <2> QED
    BY <2>1, <2>2
<1>2. ASSUME NEW g \in Gates, MarkHeld(g) \/ StartBundle(g)
      PROVE  (dbStatus'[a] = dbStatus[a] /\ dbGate'[a] = dbGate[a]) \/ Kept(a)'
  <2>1. dbGate' = dbGate
    BY <1>2 DEF MarkHeld, StartBundle
  <2>2. CASE MarkHeld(g)
    <3>1. a \in newlyHeld[g] => Kept(a)
      BY <2>2 DEF MarkHeld, KeptInv
    <3> QED
      BY <2>1, <2>2, <3>1, <1>k DEF MarkHeld, SetRows
  <2>3. CASE StartBundle(g)
    <3>1. a \in bundle[g] => Kept(a)
      BY DEF Kept
    <3> QED
      BY <2>1, <2>3, <3>1, <1>k DEF StartBundle, SetRows
  <2> QED
    BY <1>2, <2>2, <2>3
<1>3. ASSUME NEW g \in Gates, CommitBundle(g)
      PROVE  (dbStatus'[a] = dbStatus[a] /\ dbGate'[a] = dbGate[a]) \/ dbStatus'[a] = "processed"
  BY <1>3 DEF CommitBundle, SetRows
<1>4. ASSUME NEW c \in Closers, CloseSave(c)
      PROVE  (dbStatus'[a] = dbStatus[a] /\ dbGate'[a] = dbGate[a]) \/ Kept(a)'
  <2>1. CASE a = Head(displaced[c])
    <3>1. Kept(a)
      BY <1>4, <2>1 DEF CloseSave, KeptInv
    <3> QED
      BY <3>1, <1>k
  <2>2. CASE a # Head(displaced[c])
    BY <1>4, <2>2 DEF CloseSave, SetRows
  <2> QED
    BY <2>1, <2>2
<1>5. ASSUME NEW b \in Arrivals, ChooseGate(b) \/ ChooseFails(b) \/ EnqueueArrival(b)
      PROVE  dbStatus' = dbStatus /\ dbGate' = dbGate
  BY <1>5 DEF ChooseGate, ChooseFails, EnqueueArrival, dbVars
<1>6. ASSUME NEW g \in Gates,
             \/ LoopTop(g) \/ PickBundle(g) \/ PickNobody(g) \/ FinishBundle(g)
             \/ PublishOne(g) \/ ClearCurrent(g) \/ Open(g)
      PROVE  dbStatus' = dbStatus /\ dbGate' = dbGate
  BY <1>6 DEF LoopTop, PickBundle, PickNobody, TakeBundle, FinishBundle, PublishOne,
     ClearCurrent, Open, OpenCheck, OpenRegister, dbVars
<1>7. ASSUME NEW c \in Closers, \/ CloseBegin(c) \/ CloseDrain(c) \/ CloseRequeue(c)
                                \/ CloseDelete(c)
      PROVE  dbStatus' = dbStatus /\ dbGate' = dbGate
  BY <1>7 DEF CloseBegin, CloseDrain, DrainTo, CloseRequeue, CloseDelete, dbVars
<1>8. CASE UNCHANGED vars
  BY <1>8 DEF vars, dbVars
<1>9. ~ Rehydrate
  BY DEF Rehydrate, RehydrateRow, RehydrateCommit
<1> QED
  BY <1>1, <1>2, <1>3, <1>4, <1>5, <1>6, <1>7, <1>8, <1>9 DEF Next, Request, Worker, Close

\* No step but a crash or the boot sequence touches the number of restarts.
LEMMA RunningStep ==
  ASSUME TypeInv, [Next]_vars, ~ Crash, up
  PROVE  up' /\ restarts' = restarts
<1>1. ~ Rehydrate
  BY DEF Rehydrate, RehydrateRow, RehydrateCommit
<1>2. ASSUME NEW a \in Arrivals, Request(a) PROVE UNCHANGED procVars
  BY <1>2 DEF Request, ChooseGate, ChooseFails, SaveArrival, EnqueueArrival, procVars
<1>3. ASSUME NEW g \in Gates, Worker(g) \/ Open(g) PROVE UNCHANGED procVars
  BY <1>3 DEF Worker, LoopTop, PickBundle, PickNobody, TakeBundle, MarkHeld, StartBundle,
     FinishBundle, CommitBundle, PublishOne, ClearCurrent, Open, OpenCheck, OpenRegister,
     procVars
<1>4. ASSUME NEW c \in Closers, Close(c) PROVE UNCHANGED procVars
  BY <1>4 DEF Close, CloseBegin, CloseDrain, DrainTo, CloseRequeue, CloseSave, CloseDelete,
     procVars
<1> QED
  BY <1>1, <1>2, <1>3, <1>4 DEF Next, vars, procVars

\* The rehydration of a row puts its guest into a queue when its gate exists and
\* takes nobody out of one.
LEMMA RehydrateMoves ==
  ASSUME TypeInv, RehydrateRow
  PROVE  /\ \A g \in Gates : Members(queue[g]) \subseteq Members(queue'[g])
         /\ HasDefaultGate(Head(boot)) => \E g \in Gates : Head(boot) \in Members(queue'[g])
<1> DEFINE b == Head(boot)
<1>q. \A g \in Gates : queue[g] \in Seq(Arrivals)
  BY DEF TypeInv, TypeOK
<1>1. b \in Arrivals
  BY DEF RehydrateRow, TypeInv, TypeOK
<1>2. \A g \in Gates : /\ Members(Insert(queue[g], b)) = Members(queue[g]) \cup {b}
                       /\ Members(<<b>> \o queue[g]) = Members(queue[g]) \cup {b}
  <2> TAKE g \in Gates
  <2> HIDE DEF b
  <2>1. <<b>> \in Seq(Arrivals) /\ Members(<<b>>) = {b}
    <3>1. <<b>> \in Seq(Arrivals) /\ Len(<<b>>) = 1 /\ <<b>>[1] = b
      BY <1>1
    <3> QED
      BY <3>1 DEF Members
  <2>2. Members(Insert(queue[g], b)) = Members(queue[g]) \cup {b}
    BY <1>1, <1>q, InsertMembers
  <2>3. Members(<<b>> \o queue[g]) = Members(<<b>>) \cup Members(queue[g])
    BY <2>1, <1>q, MembersOfConcat
  <2> QED
    BY <2>1, <2>2, <2>3
<1>3. CASE queue' = queue /\ ~ HasDefaultGate(b)
  BY <1>3
<1>4. ASSUME NEW g \in DefaultGates,
             \/ queue' = [queue EXCEPT ![g] = <<b>> \o queue[g]]
             \/ queue' = [queue EXCEPT ![g] = Insert(queue[g], b)]
      PROVE  /\ \A h \in Gates : Members(queue[h]) \subseteq Members(queue'[h])
             /\ \E h \in Gates : b \in Members(queue'[h])
  <2> HIDE DEF b
  <2>1. g \in Gates /\ Members(queue'[g]) = Members(queue[g]) \cup {b}
    BY <1>2, <1>4, AirportAssumption DEF TypeInv, TypeOK
  <2>2. \A h \in Gates : h # g => queue'[h] = queue[h]
    BY <1>4 DEF TypeInv, TypeOK
  <2> QED
    BY <2>1, <2>2
<1>5. \/ queue' = queue /\ ~ HasDefaultGate(b)
      \/ \E g \in DefaultGates : \/ queue' = [queue EXCEPT ![g] = <<b>> \o queue[g]]
                                 \/ queue' = [queue EXCEPT ![g] = Insert(queue[g], b)]
  BY DEF RehydrateRow
<1> HIDE DEF b
<1>6. /\ \A g \in Gates : Members(queue[g]) \subseteq Members(queue'[g])
      /\ HasDefaultGate(b) => \E g \in Gates : b \in Members(queue'[g])
  BY <1>3, <1>4, <1>5
<1> QED
  BY <1>6 DEF b

\* Every step keeps the types.
LEMMA TypeStep ==
  ASSUME TypeInv, [Next]_vars
  PROVE  TypeInv'
<1>1. CASE UNCHANGED vars
  BY <1>1 DEF TypeInv, TypeOK, ThreadsOK, vars, reqVars, dbVars, gateVars, workerVars,
     closeVars, procVars
<1> QED
  BY <1>1, RequestType, WorkerType, OpenType, CloseType, RestartType DEF Next

\* Every step keeps KeptInv.
LEMMA KeptStep ==
  ASSUME TypeInv, RowInv, KeptInv, [Next]_vars
  PROVE  KeptInv'
<1> USE DEF TypeInv, TypeOK
<1>h. HandsInv'
  BY HandsStep DEF KeptInv
<1>1. CASE Crash
  <2>1. /\ ~ up' /\ restarts' > 0 /\ dbStatus' = dbStatus /\ dbGate' = dbGate
        /\ boot' = Without(stamped, Arrivals \ Unfinished)
        /\ \A g \in Gates : wpc'[g] # "markHeld"
        /\ \A c \in Closers : closePc'[c] # "save"
    BY <1>1 DEF Crash, dbVars
  <2>2. Members(boot') = Members(stamped) \ (Arrivals \ Unfinished)
    BY <2>1, WithoutMembers
  <2>3. Unfinished \subseteq Members(stamped) /\ Unfinished' = Unfinished
    BY <2>1 DEF Unfinished, RowInv, Rows
  <2>4. \A a \in Unfinished' : a \in Members(boot')
    BY <2>2, <2>3
  <2> QED
    BY <1>h, <2>1, <2>4 DEF KeptInv
<1>2. CASE ~ Crash
  <2>1. \A c \in Closers, a \in Arrivals :
          closePc'[c] = "save" /\ a = Head(displaced'[c]) => Kept(a)'
    BY <1>2, SaveKept
  <2>2. \A g \in Gates : wpc'[g] = "markHeld" => \A a \in newlyHeld'[g] : Kept(a)'
    <3> TAKE g \in Gates
    <3> HAVE wpc'[g] = "markHeld"
    <3> TAKE a \in newlyHeld'[g]
    <3>1. TypeInv'
      BY TypeStep
    <3>2. a \in Arrivals
      BY <3>1
    <3> QED
      BY <3>2, <1>2, HeldKept
  <2>3. CASE up
    <3>1. up' /\ restarts' = restarts
      BY <1>2, <2>3, RunningStep
    <3>2. ASSUME NEW a \in Arrivals, dbStatus'[a] # "none"
          PROVE  dbStatus'[a] = "processed" \/ Stranded(a)' \/ Kept(a)'
      <4>1. CASE dbStatus'[a] = dbStatus[a] /\ dbGate'[a] = dbGate[a]
        <5>1. dbStatus[a] = "processed" \/ Stranded(a) \/ Kept(a)
          BY <2>3, <3>2, <4>1 DEF KeptInv
        <5>2. Kept(a) => Kept(a)'
          BY <1>2, KeptStable DEF KeptInv
        <5>3. Stranded(a) => Stranded(a)'
          BY <3>1, <4>1 DEF Stranded, HasDefaultGate
        <5> QED
          BY <4>1, <5>1, <5>2, <5>3
      <4>2. CASE dbStatus'[a] = "processed" \/ Kept(a)'
        BY <4>2
      <4> QED
        BY <4>1, <4>2, <1>2, <2>3, RowWrites
    <3> QED
      BY <1>h, <2>1, <2>2, <3>1, <3>2 DEF KeptInv
  <2>4. CASE RehydrateRow
    <3>1. /\ ~ up' /\ restarts' = restarts /\ boot # <<>> /\ boot' = Tail(boot)
          /\ Unfinished' = Unfinished /\ dbGate' = dbGate /\ ~ up
      BY <2>4 DEF RehydrateRow, dbVars, Unfinished
    <3> DEFINE b == Head(boot)
    <3>2. b \in Arrivals /\ Members(boot) = {b} \cup Members(boot')
      BY <3>1, MembersOfTail
    <3>3. ASSUME NEW a \in Arrivals PROVE Stranded(a) => Stranded(a)'
      BY <3>1 DEF Stranded, HasDefaultGate
    <3>4. /\ \A g \in Gates : Members(queue[g]) \subseteq Members(queue'[g])
          /\ HasDefaultGate(b) => \E g \in Gates : b \in Members(queue'[g])
      BY <2>4, RehydrateMoves
    <3>5. ~ HasDefaultGate(b) => \A a \in Arrivals : a = b => Stranded(a)
      BY <3>1 DEF KeptInv, Stranded
    <3> HIDE DEF b
    <3>6. ASSUME NEW a \in Unfinished'
          PROVE \/ Stranded(a)' \/ a \in Members(boot')
                \/ \E g \in Gates : a \in Members(queue'[g])
      <4>1. a \in Arrivals /\ a \in Unfinished
        BY <3>1, <3>6 DEF Unfinished
      <4>2. Stranded(a) \/ a \in Members(boot) \/ \E g \in Gates : a \in Members(queue[g])
        BY <4>1, <3>1 DEF KeptInv
      <4>3. CASE a = b
        BY <4>1, <4>3, <3>3, <3>4, <3>5
      <4>4. CASE a # b
        BY <4>1, <4>2, <4>4, <3>2, <3>3, <3>4
      <4> QED
        BY <4>3, <4>4
    <3> QED
      BY <1>h, <2>1, <2>2, <3>1, <3>6 DEF KeptInv
  <2>5. CASE RehydrateCommit
    <3>1. /\ up' /\ restarts' = restarts /\ boot = <<>> /\ ~ up /\ dbGate' = dbGate
          /\ queue' = queue
          /\ \A a \in Arrivals : \/ dbStatus'[a] = dbStatus[a]
                                 \/ dbStatus[a] = "processing"
      BY <2>5 DEF RehydrateCommit, SetRows, gateVars
    <3>2. ASSUME NEW a \in Arrivals, dbStatus'[a] # "none"
          PROVE  dbStatus'[a] = "processed" \/ Stranded(a)' \/ Kept(a)'
      <4>1. dbStatus'[a] = "processed" \/ a \in Unfinished
        BY <3>1, <3>2 DEF Unfinished, Status
      <4>2. a \notin Members(boot)
        BY <3>1 DEF Members
      <4>3. Stranded(a) => Stranded(a)'
        BY <3>1 DEF Stranded, HasDefaultGate
      <4>4. (\E g \in Gates : a \in Members(queue[g])) => Kept(a)'
        BY <3>1 DEF Kept
      <4> QED
        BY <3>1, <4>1, <4>2, <4>3, <4>4 DEF KeptInv
    <3> QED
      BY <1>h, <2>1, <2>2, <3>1, <3>2 DEF KeptInv
  <2>6. CASE ~ up /\ ~ Rehydrate
    <3>1. UNCHANGED vars
      BY <1>2, <2>6 DEF Next, Request, ChooseGate, ChooseFails, SaveArrival, EnqueueArrival,
         Worker, LoopTop, PickBundle, PickNobody, MarkHeld, StartBundle, FinishBundle,
         CommitBundle, PublishOne, ClearCurrent, Open, OpenCheck, OpenRegister, Close,
         CloseBegin, CloseDrain, DrainTo, CloseRequeue, CloseSave, CloseDelete
    <3>2. /\ up' = up /\ restarts' = restarts /\ boot' = boot /\ queue' = queue
          /\ dbStatus' = dbStatus /\ dbGate' = dbGate
      BY <3>1 DEF vars, procVars, gateVars, dbVars
    <3>3. ASSUME NEW a \in Unfinished'
          PROVE \/ Stranded(a)' \/ a \in Members(boot')
                \/ \E g \in Gates : a \in Members(queue'[g])
      BY <2>6, <3>2 DEF KeptInv, Unfinished, Stranded, HasDefaultGate
    <3> QED
      BY <1>h, <2>1, <2>2, <2>6, <3>2, <3>3 DEF KeptInv
  <2> QED
    BY <2>3, <2>4, <2>5, <2>6 DEF Rehydrate
<1> QED
  BY <1>1, <1>2

\* No accepted arrival is forgotten while the service runs, for any number of
\* gates, requests, closes and crashes.
THEOREM NoneForgotten == Spec => []NobodyForgotten
<1>1. Init => KeptInv
  BY DEF Init, KeptInv, HandsInv, Started, Nobody
<1>2. TypeInv /\ RowInv /\ KeptInv /\ [Next]_vars => KeptInv'
  BY KeptStep
<1>3. TypeInv /\ KeptInv => NobodyForgotten
  <2> SUFFICES ASSUME TypeInv, KeptInv, up, NEW a \in Arrivals, dbStatus[a] # "none",
                      NEW c \in Closers, a \in Members(Pending(c))
               PROVE  a \in Members(displaced[c])
    BY DEF KeptInv, Kept, NobodyForgotten
  <2>1. CASE closePc[c] = "save"
    <3>1. displaced[c] \in Seq(Arrivals) /\ displaced[c] # <<>>
      BY <2>1 DEF TypeInv, TypeOK, ThreadsOK
    <3> QED
      BY <2>1, <3>1, MembersOfTail DEF Pending
  <2>2. CASE closePc[c] # "save"
    BY <2>2 DEF Pending
  <2> QED
    BY <2>1, <2>2
<1> QED
  BY <1>1, <1>2, <1>3, TypeInvariance, RowsFirst, PTL DEF Spec

-----------------------------------------------------------------------------
(* Nobody is queued twice.                                                 *)

\* The arrivals whose request may still enqueue them.
Asking == {a \in Arrivals : reqPc[a] \in {"new", "chosen", "saved"}}

\* Nobody stands twice in one list.
ListsDistinct ==
  /\ \A g \in Gates : Distinct(queue[g])
  /\ \A c \in Closers : Distinct(Pending(c))
  /\ Distinct(boot) /\ Distinct(stamped)

\* A guest in a queue is in no other queue and in no booth.
QueuesApart ==
  \A g, h \in Gates : \A a \in Members(queue[g]) :
    (g # h => a \notin Members(queue[h])) /\ a \notin Booth(h)

\* A guest stands in one booth.
BoothsApart == \A g, h \in Gates : g # h => \A a \in Booth(g) : a \notin Booth(h)

\* A guest one close has displaced is in no other close's hands, queue or booth.
PendingApart ==
  /\ \A c, d \in Closers : c # d => \A a \in Members(Pending(c)) : a \notin Members(Pending(d))
  /\ \A g \in Gates, c \in Closers : \A a \in Members(Pending(c)) :
       a \notin Members(queue[g]) /\ a \notin Booth(g)

\* A guest its request or the boot sequence will enqueue is nowhere else yet.
SourcesApart ==
  /\ \A a \in Asking \cup Members(boot) :
       /\ \A g \in Gates : a \notin Members(queue[g]) /\ a \notin Booth(g)
       /\ \A c \in Closers : a \notin Members(Pending(c))
  /\ \A a \in Asking : a \notin Members(boot) /\ (reqPc[a] = "new" => a \notin Members(stamped))

\* Whoever may enqueue a guest is the only one: its request, the boot sequence, a
\* close that displaced it or the close that will find it in a booth; and the guest
\* is in no queue yet.
Apart == QueuesApart /\ BoothsApart /\ PendingApart /\ SourcesApart

\* The inductive invariant behind QueuedOnce.
OnceInv == ListsDistinct /\ Apart

\* Two lists without duplicates and without a common guest make such a list.
LEMMA DistinctConcat ==
  ASSUME NEW p \in Seq(Arrivals), NEW q \in Seq(Arrivals), Distinct(p), Distinct(q),
         \A a \in Members(p) : a \notin Members(q)
  PROVE  Distinct(p \o q)
<1> DEFINE r == p \o q
<1>1. /\ Len(p) \in Nat /\ Len(q) \in Nat /\ Len(r) = Len(p) + Len(q)
      /\ \A i \in 1..Len(r) : r[i] = IF i <= Len(p) THEN p[i] ELSE q[i - Len(p)]
  OBVIOUS
<1> HIDE DEF r
<1>2. \A i \in 1..Len(p), j \in 1..Len(q) : p[i] # q[j]
  BY DEF Members
<1>3. ASSUME NEW i \in 1..Len(r), NEW j \in 1..Len(r), r[i] = r[j]
      PROVE  i = j
  <2>1. CASE i <= Len(p) /\ j <= Len(p)
    BY <2>1, <1>1, <1>3 DEF Distinct
  <2>2. CASE i > Len(p) /\ j > Len(p)
    <3>1. i - Len(p) \in 1..Len(q) /\ j - Len(p) \in 1..Len(q)
          /\ q[i - Len(p)] = q[j - Len(p)]
      BY <2>2, <1>1, <1>3
    <3>2. i - Len(p) = j - Len(p)
      BY <3>1 DEF Distinct
    <3> QED
      BY <3>2, <1>1
  <2>3. CASE i <= Len(p) /\ j > Len(p)
    <3>1. i \in 1..Len(p) /\ j - Len(p) \in 1..Len(q) /\ p[i] = q[j - Len(p)]
      BY <2>3, <1>1, <1>3
    <3> QED
      BY <3>1, <1>2
  <2>4. CASE j <= Len(p) /\ i > Len(p)
    <3>1. j \in 1..Len(p) /\ i - Len(p) \in 1..Len(q) /\ p[j] = q[i - Len(p)]
      BY <2>4, <1>1, <1>3
    <3> QED
      BY <3>1, <1>2
  <2> QED
    BY <2>1, <2>2, <2>3, <2>4, <1>1
<1> QED
  BY <1>3 DEF Distinct, r

\* The tail of a list without duplicates has none, and its head is not in it.
LEMMA DistinctTail ==
  ASSUME NEW q \in Seq(Arrivals), q # <<>>, Distinct(q)
  PROVE  Distinct(Tail(q)) /\ Head(q) \notin Members(Tail(q))
<1>1. /\ Head(q) = q[1] /\ Len(q) \in Nat /\ Len(q) > 0 /\ Len(Tail(q)) = Len(q) - 1
      /\ \A i \in 1..Len(Tail(q)) : Tail(q)[i] = q[i + 1]
  OBVIOUS
<1>2. \A i, j \in 1..Len(q) : q[i] = q[j] => i = j
  BY DEF Distinct
<1>3. \A i, j \in 1..Len(Tail(q)) : Tail(q)[i] = Tail(q)[j] => i = j
  BY <1>1, <1>2
<1>4. \A i \in 1..Len(Tail(q)) : Tail(q)[i] # Head(q)
  BY <1>1, <1>2
<1> QED
  BY <1>3, <1>4 DEF Distinct, Members

\* Appending a newcomer to a list without duplicates.
LEMMA DistinctAppend ==
  ASSUME NEW q \in Seq(Arrivals), NEW b \in Arrivals, Distinct(q), b \notin Members(q)
  PROVE  Distinct(Append(q, b))
<1>1. /\ Len(q) \in Nat /\ Len(Append(q, b)) = Len(q) + 1
      /\ \A i \in 1..Len(q) : Append(q, b)[i] = q[i]
      /\ Append(q, b)[Len(q) + 1] = b
  OBVIOUS
<1>2. \A i \in 1..Len(q) : q[i] # b
  BY DEF Members
<1>3. \A i, j \in 1..Len(q) : q[i] = q[j] => i = j
  BY DEF Distinct
<1>4. ASSUME NEW i \in 1..Len(Append(q, b)), NEW j \in 1..Len(Append(q, b)),
             Append(q, b)[i] = Append(q, b)[j]
      PROVE  i = j
  <2>1. (i \in 1..Len(q) \/ i = Len(q) + 1) /\ (j \in 1..Len(q) \/ j = Len(q) + 1)
    BY <1>1
  <2> QED
    BY <2>1, <1>1, <1>2, <1>3, <1>4
<1> QED
  BY <1>4 DEF Distinct

\* A guest joins a queue, by enqueue or at its front.
LEMMA Joins ==
  ASSUME TypeInv, NEW t \in Gates, NEW b \in Arrivals,
         \/ queue' = [queue EXCEPT ![t] = Insert(queue[t], b)]
         \/ queue' = [queue EXCEPT ![t] = <<b>> \o queue[t]]
  PROVE  /\ \A g \in Gates : Members(queue'[g]) =
              IF g = t THEN Members(queue[g]) \cup {b} ELSE Members(queue[g])
         /\ (\A g \in Gates : Distinct(queue[g])) /\ b \notin Members(queue[t]) =>
              \A g \in Gates : Distinct(queue'[g])
<1> DEFINE q == queue[t]
<1>1. q \in Seq(Arrivals)
  BY DEF TypeInv, TypeOK
<1> HIDE DEF q
<1>2. Members(Insert(q, b)) = Members(q) \cup {b}
  BY <1>1, InsertMembers
<1>3. Distinct(q) /\ b \notin Members(q) => Distinct(Insert(q, b))
  BY <1>1, InsertDistinct
<1>4. /\ <<b>> \in Seq(Arrivals) /\ Len(<<b>>) = 1 /\ <<b>>[1] = b
  OBVIOUS
<1>5. Members(<<b>> \o q) = Members(q) \cup {b}
  <2>1. Members(<<b>>) = {b}
    BY <1>4 DEF Members
  <2>2. Members(<<b>> \o q) = Members(<<b>>) \cup Members(q)
    BY <1>1, <1>4, MembersOfConcat
  <2> QED
    BY <2>1, <2>2
<1>6. Distinct(q) /\ b \notin Members(q) => Distinct(<<b>> \o q)
  BY <1>1, <1>4, DistinctConcat DEF Distinct, Members
<1>7. queue'[t] = Insert(q, b) \/ queue'[t] = <<b>> \o q
  BY DEF q, TypeInv, TypeOK
<1>8. \A g \in Gates : g # t => queue'[g] = queue[g]
  BY DEF TypeInv, TypeOK
<1>9. /\ Members(queue'[t]) = Members(queue[t]) \cup {b}
      /\ Distinct(queue[t]) /\ b \notin Members(queue[t]) => Distinct(queue'[t])
  BY <1>2, <1>3, <1>5, <1>6, <1>7 DEF q
<1> QED
  BY <1>8, <1>9

\* The guest in the booth, as the list a close puts before the queue.
LEMMA BoothList ==
  ASSUME TypeInv, NEW g \in Gates
  PROVE  /\ InBooth(g) \in Seq(Arrivals) /\ Members(InBooth(g)) = Booth(g)
         /\ Distinct(InBooth(g))
<1>1. CASE current[g] = NoArrival
  BY <1>1 DEF InBooth, Booth, Members, Distinct
<1>2. CASE current[g] # NoArrival
  <2>1. current[g] \in Arrivals
    BY <1>2 DEF TypeInv, TypeOK
  <2>2. /\ <<current[g]>> \in Seq(Arrivals) /\ Len(<<current[g]>>) = 1
        /\ <<current[g]>>[1] = current[g]
    BY <2>1
  <2> QED
    BY <1>2, <2>2 DEF InBooth, Booth, Members, Distinct
<1> QED
  BY <1>1, <1>2

\* A step that moves no guest keeps OnceInv.
LEMMA OnceUntouched ==
  ASSUME OnceInv, queue' = queue, stamped' = stamped, boot' = boot,
         \A c \in Closers : Pending(c)' = Pending(c),
         \A g \in Gates : Booth(g)' \subseteq Booth(g), Asking' \subseteq Asking,
         \A a \in Arrivals : reqPc'[a] = "new" => reqPc[a] = "new"
  PROVE  OnceInv'
<1>1. ListsDistinct'
  BY DEF OnceInv, ListsDistinct
<1>2. Asking \subseteq Arrivals
  BY DEF Asking
<1>3. Apart'
  <2>1. QueuesApart'
    BY <1>2 DEF OnceInv, Apart, QueuesApart, BoothsApart, PendingApart, SourcesApart
  <2>2. BoothsApart'
    BY <1>2 DEF OnceInv, Apart, QueuesApart, BoothsApart, PendingApart, SourcesApart
  <2>3. PendingApart'
    BY <1>2 DEF OnceInv, Apart, QueuesApart, BoothsApart, PendingApart, SourcesApart
  <2>4. SourcesApart'
    BY <1>2 DEF OnceInv, Apart, QueuesApart, BoothsApart, PendingApart, SourcesApart
  <2> QED
    BY <2>1, <2>2, <2>3, <2>4 DEF Apart
<1> QED
  BY <1>1, <1>3 DEF OnceInv

\* A guest that only one source could enqueue joins a queue.
LEMMA ApartJoin ==
  ASSUME Apart, NEW t \in Gates, NEW b,
         b \in Asking \/ b \in Members(boot) \/ \E c \in Closers : b \in Members(Pending(c)),
         \A g \in Gates : \A x \in Members(queue'[g]) : x \in Members(queue[g]) \/ x = b,
         \A g \in Gates : g # t => Members(queue'[g]) = Members(queue[g]),
         \A g \in Gates : Booth(g)' = Booth(g),
         \A c \in Closers : Members(Pending(c)') \subseteq Members(Pending(c)) \ {b},
         Asking' \subseteq Asking \ {b}, Members(boot') \subseteq Members(boot) \ {b},
         stamped' = stamped, \A a \in Asking' : reqPc'[a] = "new" => reqPc[a] = "new"
  PROVE  Apart'
<1>1. \A g \in Gates : b \notin Members(queue[g]) /\ b \notin Booth(g)
  BY DEF Apart, SourcesApart, PendingApart
<1>2. QueuesApart'
  BY <1>1 DEF Apart, QueuesApart
<1>3. BoothsApart'
  BY DEF Apart, BoothsApart
<1>4. PendingApart'
  BY <1>1 DEF Apart, PendingApart
<1>5. SourcesApart'
  BY <1>1 DEF Apart, SourcesApart
<1> QED
  BY <1>2, <1>3, <1>4, <1>5 DEF Apart

\* A worker takes its bundle out of its queue, one guest of it into the booth.
LEMMA ApartTake ==
  ASSUME Apart, NEW g \in Gates, NEW taken, taken \subseteq Members(queue[g]),
         \A h \in Gates : Members(queue'[h]) =
           IF h = g THEN Members(queue[h]) \ taken ELSE Members(queue[h]),
         \A h \in Gates : h # g => Booth(h)' = Booth(h),
         Booth(g)' \subseteq Booth(g) \/ Booth(g)' \subseteq taken,
         \A c \in Closers : Pending(c)' = Pending(c), Asking' = Asking,
         boot' = boot, stamped' = stamped, reqPc' = reqPc
  PROVE  Apart'
<1>1. \A h \in Gates : \A x \in Members(queue'[h]) :
        x \in Members(queue[h]) /\ (h = g => x \notin taken)
  OBVIOUS
<1>2. \A h \in Gates : \A x \in Booth(h)' : x \in Booth(h) \/ (h = g /\ x \in taken)
  OBVIOUS
<1>3. \A x \in taken : x \in Members(queue[g])
  OBVIOUS
<1>4. QueuesApart'
  BY <1>1, <1>2, <1>3 DEF Apart, QueuesApart
<1>5. BoothsApart'
  BY <1>2, <1>3 DEF Apart, QueuesApart, BoothsApart
<1>6. PendingApart'
  BY <1>1, <1>2, <1>3 DEF Apart, PendingApart
<1>7. SourcesApart'
  BY <1>1, <1>2, <1>3 DEF Apart, SourcesApart
<1> QED
  BY <1>4, <1>5, <1>6, <1>7 DEF Apart

\* A close takes over a queue and its booth.
LEMMA ApartDrain ==
  ASSUME Apart, NEW c \in Closers, NEW g \in Gates,
         \A h \in Gates : Members(queue'[h]) = IF h = g THEN {} ELSE Members(queue[h]),
         \A h \in Gates : h # g => Booth(h)' = Booth(h), Booth(g)' = {},
         \A d \in Closers : Members(Pending(d)') =
           IF d = c THEN Booth(g) \cup Members(queue[g]) ELSE Members(Pending(d)),
         Asking' = Asking, boot' = boot, stamped' = stamped, reqPc' = reqPc
  PROVE  Apart'
<1>1. \A h \in Gates : \A x \in Members(queue'[h]) : x \in Members(queue[h]) /\ h # g
  OBVIOUS
<1>2. \A h \in Gates : \A x \in Booth(h)' : x \in Booth(h) /\ h # g
  OBVIOUS
<1>3. \A d \in Closers : \A x \in Members(Pending(d)') :
        \/ d = c /\ (x \in Booth(g) \/ x \in Members(queue[g]))
        \/ d # c /\ x \in Members(Pending(d))
  OBVIOUS
<1>4. QueuesApart'
  BY <1>1, <1>2 DEF Apart, QueuesApart
<1>5. BoothsApart'
  BY <1>2 DEF Apart, BoothsApart
<1>6. PendingApart'
  BY <1>1, <1>2, <1>3 DEF Apart, QueuesApart, BoothsApart, PendingApart
<1>7. SourcesApart'
  BY <1>1, <1>2, <1>3 DEF Apart, SourcesApart
<1> QED
  BY <1>4, <1>5, <1>6, <1>7 DEF Apart

\* Every step keeps OnceInv.
LEMMA OnceStep ==
  ASSUME TypeInv, OnceInv, [Next]_vars
  PROVE  OnceInv'
<1> USE DEF TypeInv, TypeOK
<1>q. \A g \in Gates : queue[g] \in Seq(Arrivals)
  OBVIOUS
<1>1. ASSUME NEW a \in Arrivals, ChooseGate(a) PROVE OnceInv'
  <2>1. /\ queue' = queue /\ boot' = boot /\ current' = current
        /\ closePc' = closePc /\ displaced' = displaced
        /\ reqPc[a] = "new" /\ reqPc' = [reqPc EXCEPT ![a] = "chosen"]
        /\ stamped' = Append(stamped, a)
    BY <1>1 DEF ChooseGate, gateVars, closeVars, procVars
  <2>2. Members(stamped') = Members(stamped) \cup {a} /\ a \notin Members(stamped)
    BY <2>1, MembersOfAppend DEF OnceInv, Apart, QueuesApart, BoothsApart, PendingApart, SourcesApart, Asking
  <2>3. Distinct(stamped')
    BY <2>1, <2>2, DistinctAppend DEF OnceInv, ListsDistinct
  <2>4. Asking' = Asking
    BY <2>1 DEF Asking
  <2>5. ListsDistinct'
    BY <2>1, <2>3 DEF OnceInv, ListsDistinct, Pending
  <2>6. \A b \in Asking : reqPc'[b] = "new" => b \notin Members(stamped')
    BY <2>1, <2>2 DEF OnceInv, Apart, QueuesApart, BoothsApart, PendingApart, SourcesApart, Asking
  <2>7. Apart'
    <3>1. QueuesApart'
      BY <2>1, <2>4, <2>6 DEF OnceInv, Apart, QueuesApart, BoothsApart, PendingApart, SourcesApart, Pending, Booth
    <3>2. BoothsApart'
      BY <2>1, <2>4, <2>6 DEF OnceInv, Apart, QueuesApart, BoothsApart, PendingApart, SourcesApart, Pending, Booth
    <3>3. PendingApart'
      BY <2>1, <2>4, <2>6 DEF OnceInv, Apart, QueuesApart, BoothsApart, PendingApart, SourcesApart, Pending, Booth
    <3>4. SourcesApart'
      BY <2>1, <2>4, <2>6 DEF OnceInv, Apart, QueuesApart, BoothsApart, PendingApart, SourcesApart, Pending, Booth
    <3> QED
      BY <3>1, <3>2, <3>3, <3>4 DEF Apart
  <2> QED
    BY <2>5, <2>7 DEF OnceInv
<1>2. ASSUME NEW a \in Arrivals, ChooseFails(a) \/ SaveArrival(a) PROVE OnceInv'
  <2>1. /\ queue' = queue /\ boot' = boot /\ current' = current /\ stamped' = stamped
        /\ closePc' = closePc /\ displaced' = displaced
    BY <1>2 DEF ChooseFails, SaveArrival, gateVars, closeVars, procVars
  <2>2. Asking' \subseteq Asking /\ \A b \in Arrivals : reqPc'[b] = "new" => reqPc[b] = "new"
    BY <1>2 DEF ChooseFails, SaveArrival, Asking
  <2> QED
    BY <2>1, <2>2, OnceUntouched DEF Pending, Booth
<1>3. ASSUME NEW a \in Arrivals, EnqueueArrival(a) PROVE OnceInv'
  <2>1. /\ boot' = boot /\ current' = current /\ stamped' = stamped
        /\ closePc' = closePc /\ displaced' = displaced
        /\ reqPc' = [reqPc EXCEPT ![a] = "done"] /\ reqPc[a] = "saved"
    BY <1>3 DEF EnqueueArrival, closeVars, procVars
  <2>2. PICK t \in Gates : queue' = [queue EXCEPT ![t] = Insert(queue[t], a)]
    BY <1>3 DEF EnqueueArrival, ThreadsOK
  <2>3. a \in Asking /\ Asking' = Asking \ {a}
    BY <2>1 DEF Asking
  <2>4. \A g \in Gates : Members(queue'[g]) =
          IF g = t THEN Members(queue[g]) \cup {a} ELSE Members(queue[g])
    BY <2>2, Joins
  <2>5. \A g \in Gates : Distinct(queue'[g])
    <3>1. a \notin Members(queue[t]) /\ \A g \in Gates : Distinct(queue[g])
      BY <2>3 DEF OnceInv, Apart, QueuesApart, BoothsApart, PendingApart, SourcesApart, ListsDistinct
    <3> QED
      BY <2>2, <3>1, Joins
  <2>6. ListsDistinct'
    BY <2>1, <2>5 DEF OnceInv, ListsDistinct, Pending
  <2>7. /\ \A g \in Gates : Booth(g)' = Booth(g)
        /\ \A c \in Closers : Pending(c)' = Pending(c)
        /\ \A b \in Asking' : reqPc'[b] = "new" => reqPc[b] = "new"
    BY <2>1 DEF Booth, Pending, Asking
  <2>8. Apart'
    <3>1. \A g \in Gates : \A x \in Members(queue'[g]) : x \in Members(queue[g]) \/ x = a
      BY <2>4
    <3>2. /\ \A g \in Gates : g # t => Members(queue'[g]) = Members(queue[g])
          /\ \A c \in Closers : Members(Pending(c)') \subseteq Members(Pending(c)) \ {a}
          /\ Members(boot') \subseteq Members(boot) \ {a}
      BY <2>1, <2>3, <2>4, <2>7 DEF OnceInv, Apart, SourcesApart
    <3> QED
      BY <2>1, <2>3, <2>7, <3>1, <3>2, ApartJoin DEF OnceInv
  <2> QED
    BY <2>6, <2>8 DEF OnceInv
<1>4. ASSUME NEW g \in Gates, NEW passed, NEW taken, NEW first,
             taken \subseteq Members(queue[g]), taken = {} \/ first \in taken,
             TakeBundle(g, passed, taken, first)
      PROVE  OnceInv'
  <2>1. /\ boot' = boot /\ stamped' = stamped /\ reqPc' = reqPc
        /\ closePc' = closePc /\ displaced' = displaced
        /\ queue' = [queue EXCEPT ![g] = Without(queue[g], taken)]
        /\ current' = [current EXCEPT ![g] = IF taken = {} THEN @ ELSE first]
    BY <1>4 DEF TakeBundle, reqVars, closeVars, procVars
  <2>2. \A h \in Gates : Members(queue'[h]) =
          IF h = g THEN Members(queue[h]) \ taken ELSE Members(queue[h])
    BY <2>1, <1>q, WithoutMembers
  <2>3. Distinct(Without(queue[g], taken))
    BY <1>q, WithoutDistinct DEF OnceInv, ListsDistinct
  <2>4. ListsDistinct'
    BY <2>1, <2>3 DEF OnceInv, ListsDistinct, Pending
  <2>5. /\ \A c \in Closers : Pending(c)' = Pending(c)
        /\ Asking' = Asking
        /\ \A h \in Gates : h # g => Booth(h)' = Booth(h)
        /\ Booth(g)' \subseteq Booth(g) \/ Booth(g)' \subseteq taken
    BY <2>1, <1>4 DEF Booth, Pending, Asking
  <2>6. Apart'
    BY <2>1, <2>2, <2>5, <1>4, ApartTake DEF OnceInv
  <2> QED
    BY <2>4, <2>6 DEF OnceInv
<1>5. ASSUME NEW g \in Gates, PickBundle(g) PROVE OnceInv'
  <2> DEFINE q == queue[g]
  <2>1. PICK i \in 1..Len(q) :
          TakeBundle(g, {q[j] : j \in 1..(i - 1)}, {q[i]} \cup Relatives(q, q[i]), q[i])
    BY <1>5 DEF PickBundle, QueueLen
  <2>2. {q[i]} \cup Relatives(q, q[i]) \subseteq Members(queue[g])
    BY <2>1 DEF Members, Relatives
  <2> HIDE DEF q
  <2> QED
    BY <2>1, <2>2, <1>4
<1>6. ASSUME NEW g \in Gates, PickNobody(g) PROVE OnceInv'
  <2>1. ASSUME NEW passed, NEW taken, NEW first, taken = {},
               TakeBundle(g, passed, taken, first)
        PROVE  OnceInv'
    <3>1. taken \subseteq Members(queue[g])
      BY <2>1
    <3> QED
      BY <2>1, <3>1, <1>4
  <2> QED
    BY <1>6, <2>1 DEF PickNobody
<1>7. ASSUME NEW g \in Gates,
             \/ LoopTop(g) \/ MarkHeld(g) \/ StartBundle(g) \/ FinishBundle(g)
             \/ CommitBundle(g) \/ PublishOne(g) \/ ClearCurrent(g) \/ Open(g)
      PROVE  OnceInv'
  <2>1. /\ queue' = queue /\ boot' = boot /\ stamped' = stamped /\ reqPc' = reqPc
        /\ closePc' = closePc /\ displaced' = displaced
    BY <1>7 DEF LoopTop, MarkHeld, StartBundle, FinishBundle, CommitBundle, ClearCurrent,
       PublishOne, Open, OpenCheck, OpenRegister, gateVars, closeVars, procVars, reqVars
  <2>2. \A h \in Gates : Booth(h)' \subseteq Booth(h)
    BY <1>7 DEF LoopTop, MarkHeld, StartBundle, FinishBundle, CommitBundle, ClearCurrent,
       PublishOne, Open, OpenCheck, OpenRegister, gateVars, Booth
  <2> QED
    BY <2>1, <2>2, OnceUntouched DEF Pending, Asking
<1>8. ASSUME NEW c \in Closers, CloseBegin(c) \/ CloseDelete(c) \/ CloseSave(c)
      PROVE  OnceInv'
  <2>1. /\ queue' = queue /\ boot' = boot /\ stamped' = stamped /\ reqPc' = reqPc
        /\ current' = current
    BY <1>8 DEF CloseBegin, CloseDelete, CloseSave, gateVars, procVars, reqVars
  <2>2. \A d \in Closers : Pending(d)' = Pending(d)
    <3>1. CASE CloseBegin(c) \/ CloseDelete(c)
      BY <3>1 DEF CloseBegin, CloseDelete, Pending
    <3>2. CASE CloseSave(c)
      BY <3>2 DEF CloseSave, Pending
    <3> QED
      BY <1>8, <3>1, <3>2
  <2> QED
    BY <2>1, <2>2, OnceUntouched DEF Booth, Asking
<1>9. ASSUME NEW c \in Closers, CloseDrain(c) PROVE OnceInv'
  <2>1. PICK g \in Gates : g = closeGate[c]
    BY <1>9 DEF CloseDrain, DrainTo, ThreadsOK
  <2>2. /\ boot' = boot /\ stamped' = stamped /\ reqPc' = reqPc
        /\ displaced' = [displaced EXCEPT ![c] = InBooth(g) \o queue[g]]
        /\ queue' = [queue EXCEPT ![g] = <<>>]
        /\ current' = [current EXCEPT ![g] = NoArrival]
        /\ closePc' = [closePc EXCEPT ![c] = "requeue"]
    BY <1>9, <2>1 DEF CloseDrain, DrainTo, reqVars, procVars
  <2>3. InBooth(g) \in Seq(Arrivals) /\ Members(InBooth(g)) = Booth(g) /\ Distinct(InBooth(g))
    BY BoothList
  <2>4. Members(InBooth(g) \o queue[g]) = Booth(g) \cup Members(queue[g])
    BY <2>3, <1>q, MembersOfConcat
  <2>5. Distinct(InBooth(g) \o queue[g])
    <3>1. \A a \in Members(InBooth(g)) : a \notin Members(queue[g])
      BY <2>3 DEF OnceInv, Apart, QueuesApart, BoothsApart, PendingApart, SourcesApart
    <3> QED
      BY <3>1, <2>3, <1>q, DistinctConcat DEF OnceInv, ListsDistinct
  <2>6. Members(<<>>) = {} /\ Distinct(<<>>)
    BY DEF Members, Distinct
  <2>7. /\ Pending(c)' = InBooth(g) \o queue[g]
        /\ \A d \in Closers : d # c => Pending(d)' = Pending(d)
        /\ \A h \in Gates : h # g => queue'[h] = queue[h] /\ Booth(h)' = Booth(h)
        /\ queue'[g] = <<>> /\ Booth(g)' = {} /\ Asking' = Asking
    BY <2>2 DEF Pending, Booth, Asking
  <2>8. ListsDistinct'
    BY <2>2, <2>5, <2>6, <2>7 DEF OnceInv, ListsDistinct
  <2>9. /\ \A h \in Gates : Members(queue'[h]) = IF h = g THEN {} ELSE Members(queue[h])
        /\ \A d \in Closers : Members(Pending(d)') =
             IF d = c THEN Booth(g) \cup Members(queue[g]) ELSE Members(Pending(d))
    BY <2>4, <2>6, <2>7
  <2>10. Apart'
    BY <2>2, <2>7, <2>9, ApartDrain DEF OnceInv
  <2> QED
    BY <2>8, <2>10 DEF OnceInv
<1>10. ASSUME NEW c \in Closers, CloseRequeue(c) PROVE OnceInv'
  <2>1. /\ boot' = boot /\ stamped' = stamped /\ reqPc' = reqPc /\ displaced' = displaced
        /\ current' = current /\ closePc[c] = "requeue"
        /\ closePc' = [closePc EXCEPT ![c] = "save"]
        /\ displaced[c] \in Seq(Arrivals) /\ displaced[c] # <<>>
    BY <1>10 DEF CloseRequeue, reqVars, procVars
  <2>2. PICK b \in Arrivals : b = Head(displaced[c])
    BY <2>1, MembersOfTail
  <2>3. PICK t \in Gates : queue' = [queue EXCEPT ![t] = Insert(queue[t], b)]
    BY <1>10, <2>2 DEF CloseRequeue, Shortest
  <2>4. Pending(c) = displaced[c] /\ Pending(c)' = Tail(displaced[c])
        /\ \A d \in Closers : d # c => Pending(d)' = Pending(d)
    BY <2>1 DEF Pending
  <2>5. /\ Members(Pending(c)) = {b} \cup Members(Pending(c)')
        /\ b \notin Members(Pending(c)') /\ Distinct(Pending(c)')
    BY <2>1, <2>2, <2>4, MembersOfTail, DistinctTail DEF OnceInv, ListsDistinct
  <2>6. \A g \in Gates : Members(queue'[g]) =
          IF g = t THEN Members(queue[g]) \cup {b} ELSE Members(queue[g])
    BY <2>3, Joins
  <2>7. \A g \in Gates : Distinct(queue'[g])
    <3>1. b \notin Members(queue[t]) /\ \A g \in Gates : Distinct(queue[g])
      BY <2>5 DEF OnceInv, Apart, QueuesApart, BoothsApart, PendingApart, SourcesApart, ListsDistinct
    <3> QED
      BY <2>3, <3>1, Joins
  <2>8. ListsDistinct'
    BY <2>1, <2>4, <2>5, <2>7 DEF OnceInv, ListsDistinct
  <2>9. Asking' = Asking /\ \A g \in Gates : Booth(g)' = Booth(g)
    BY <2>1 DEF Asking, Booth
  <2>10. \A d \in Closers : d # c => Members(Pending(d)') = Members(Pending(d))
    BY <2>4
  <2>11. Apart'
    <3>1. \A g \in Gates : \A x \in Members(queue'[g]) : x \in Members(queue[g]) \/ x = b
      BY <2>6
    <3>2. b \in Members(Pending(c))
      BY <2>5
    <3>3. \A d \in Closers : Members(Pending(d)') \subseteq Members(Pending(d)) \ {b}
      BY <2>5, <2>10, <3>2 DEF OnceInv, Apart, PendingApart
    <3>4. /\ Asking' \subseteq Asking \ {b} /\ Members(boot') \subseteq Members(boot) \ {b}
          /\ \A g \in Gates : g # t => Members(queue'[g]) = Members(queue[g])
      BY <2>1, <2>6, <2>9, <3>2 DEF OnceInv, Apart, SourcesApart
    <3> QED
      BY <2>1, <2>9, <3>1, <3>2, <3>3, <3>4, ApartJoin DEF OnceInv
  <2> QED
    BY <2>8, <2>11 DEF OnceInv
<1>11. CASE Crash
  <2>1. /\ stamped' = stamped /\ boot' = Without(stamped, Arrivals \ Unfinished)
        /\ \A g \in Gates : queue'[g] = <<>> /\ Booth(g)' = {}
        /\ \A c \in Closers : displaced'[c] = <<>> /\ closePc'[c] # "save"
        /\ Asking' = {a \in Arrivals : reqPc[a] = "new"}
        /\ \A a \in Arrivals : reqPc'[a] = "new" => reqPc[a] = "new"
    BY <1>11 DEF Crash, EmptyQueues, NoneInBooth, Booth, Asking
  <2>2. Members(boot') \subseteq Members(stamped)
    BY <2>1, WithoutMembers
  <2>3. Distinct(boot')
    BY <2>1, WithoutDistinct DEF OnceInv, ListsDistinct
  <2>4. Members(<<>>) = {} /\ Distinct(<<>>)
    BY DEF Members, Distinct
  <2>5. \A c \in Closers : Pending(c)' = <<>>
    BY <2>1 DEF Pending
  <2>6. ListsDistinct'
    BY <2>1, <2>3, <2>4, <2>5 DEF OnceInv, ListsDistinct
  <2>7. \A a \in Asking' : a \notin Members(stamped)
    BY <2>1 DEF OnceInv, Apart, QueuesApart, BoothsApart, PendingApart, SourcesApart, Asking
  <2>8. Apart'
    <3>1. QueuesApart'
      BY <2>1, <2>2, <2>4, <2>5, <2>7 DEF Apart, QueuesApart, BoothsApart, PendingApart, SourcesApart
    <3>2. BoothsApart'
      BY <2>1, <2>2, <2>4, <2>5, <2>7 DEF Apart, QueuesApart, BoothsApart, PendingApart, SourcesApart
    <3>3. PendingApart'
      BY <2>1, <2>2, <2>4, <2>5, <2>7 DEF Apart, QueuesApart, BoothsApart, PendingApart, SourcesApart
    <3>4. SourcesApart'
      BY <2>1, <2>2, <2>4, <2>5, <2>7 DEF Apart, QueuesApart, BoothsApart, PendingApart, SourcesApart
    <3> QED
      BY <3>1, <3>2, <3>3, <3>4 DEF Apart
  <2> QED
    BY <2>6, <2>8 DEF OnceInv
<1>12. CASE RehydrateRow
  <2>1. /\ stamped' = stamped /\ reqPc' = reqPc /\ displaced' = displaced
        /\ current' = current /\ closePc' = closePc
        /\ boot' = Tail(boot) /\ boot # <<>>
    BY <1>12 DEF RehydrateRow, reqVars, closeVars
  <2>2. PICK b \in Arrivals : b = Head(boot)
    BY <2>1, MembersOfTail
  <2>3. /\ Members(boot) = {b} \cup Members(boot') /\ b \notin Members(boot')
        /\ Distinct(boot')
    BY <2>1, <2>2, MembersOfTail, DistinctTail DEF OnceInv, ListsDistinct
  <2>4. /\ \A c \in Closers : Pending(c)' = Pending(c)
        /\ Asking' = Asking /\ \A g \in Gates : Booth(g)' = Booth(g)
    BY <2>1 DEF Pending, Asking, Booth
  <2>5. CASE queue' = queue
    <3>1. ListsDistinct'
      BY <2>1, <2>3, <2>4, <2>5 DEF OnceInv, ListsDistinct
    <3>2. Apart'
      <4>1. QueuesApart'
        BY <2>1, <2>3, <2>4, <2>5 DEF OnceInv, Apart, QueuesApart, BoothsApart, PendingApart, SourcesApart
      <4>2. BoothsApart'
        BY <2>1, <2>3, <2>4, <2>5 DEF OnceInv, Apart, QueuesApart, BoothsApart, PendingApart, SourcesApart
      <4>3. PendingApart'
        BY <2>1, <2>3, <2>4, <2>5 DEF OnceInv, Apart, QueuesApart, BoothsApart, PendingApart, SourcesApart
      <4>4. SourcesApart'
        BY <2>1, <2>3, <2>4, <2>5 DEF OnceInv, Apart, QueuesApart, BoothsApart, PendingApart, SourcesApart
      <4> QED
        BY <4>1, <4>2, <4>3, <4>4 DEF Apart
    <3> QED
      BY <3>1, <3>2 DEF OnceInv
  <2>6. ASSUME NEW t \in Gates, \/ queue' = [queue EXCEPT ![t] = Insert(queue[t], b)]
                                \/ queue' = [queue EXCEPT ![t] = <<b>> \o queue[t]]
        PROVE  OnceInv'
    <3>1. \A g \in Gates : Members(queue'[g]) =
            IF g = t THEN Members(queue[g]) \cup {b} ELSE Members(queue[g])
      BY <2>6, Joins
    <3>2. \A g \in Gates : Distinct(queue'[g])
      <4>1. b \notin Members(queue[t]) /\ \A g \in Gates : Distinct(queue[g])
        BY <2>3 DEF OnceInv, Apart, QueuesApart, BoothsApart, PendingApart, SourcesApart, ListsDistinct
      <4> QED
        BY <2>6, <4>1, Joins
    <3>3. ListsDistinct'
      BY <2>1, <2>3, <2>4, <3>2 DEF OnceInv, ListsDistinct
    <3>4. Apart'
      <4>1. \A g \in Gates : \A x \in Members(queue'[g]) : x \in Members(queue[g]) \/ x = b
        BY <3>1
      <4>2. /\ Asking' \subseteq Asking \ {b} /\ Members(boot') \subseteq Members(boot) \ {b}
            /\ \A g \in Gates : g # t => Members(queue'[g]) = Members(queue[g])
            /\ \A c \in Closers : Members(Pending(c)') \subseteq Members(Pending(c)) \ {b}
        BY <2>3, <2>4, <3>1 DEF OnceInv, Apart, SourcesApart
      <4> QED
        BY <2>1, <2>3, <2>4, <4>1, <4>2, ApartJoin DEF OnceInv
    <3> QED
      BY <3>3, <3>4 DEF OnceInv
  <2>7. DefaultGates \subseteq Gates
    BY AirportAssumption
  <2> QED
    BY <1>12, <2>2, <2>5, <2>6, <2>7 DEF RehydrateRow
<1>13. CASE RehydrateCommit \/ UNCHANGED vars
  BY <1>13, OnceUntouched DEF RehydrateCommit, vars, reqVars, gateVars, closeVars, procVars,
     Pending, Booth, Asking
<1> QED
  BY <1>1, <1>2, <1>3, <1>5, <1>6, <1>7, <1>8, <1>9, <1>10, <1>11, <1>12, <1>13
  DEF Next, Request, Worker, Close, Rehydrate

\* Nobody who can still be enqueued is in a queue already.
LEMMA OneEnqueuer == Spec => []OnceInv
<1>1. Init => OnceInv
  <2> SUFFICES ASSUME Init PROVE OnceInv
    OBVIOUS
  <2>1. Members(<<>>) = {} /\ Distinct(<<>>)
    BY DEF Members, Distinct
  <2>2. /\ \A g \in Gates : queue[g] = <<>> /\ Booth(g) = {}
        /\ \A c \in Closers : Pending(c) = <<>>
        /\ boot = <<>> /\ stamped = <<>>
    BY DEF Init, EmptyQueues, NoneInBooth, Booth, Pending
  <2> QED
    BY <2>1, <2>2 DEF OnceInv, ListsDistinct, Apart, QueuesApart, BoothsApart, PendingApart, SourcesApart
<1>2. TypeInv /\ OnceInv /\ [Next]_vars => OnceInv'
  BY OnceStep
<1> QED
  BY <1>1, <1>2, TypeInvariance, PTL DEF Spec

\* No guest ever stands in two queues or twice in one, whatever requests, workers,
\* closes and restarts do at the same time.
THEOREM NeverQueuedTwice == Spec => []QueuedOnce
<1>1. ASSUME TypeInv, OnceInv, NEW a \in Arrivals
      PROVE  Cardinality(Places(a)) <= 1
  <2>1. \A g \in Gates : \A i \in {j \in 1..QueueLen(g) : queue[g][j] = a} :
          i \in 1..Len(queue[g]) /\ queue[g][i] = a /\ a \in Members(queue[g])
    BY DEF QueueLen, Members
  <2>2. \A x, y \in Places(a) : x = y
    <3> TAKE x, y \in Places(a)
    <3>a. PICK g \in Gates : \E i \in {j \in 1..QueueLen(g) : queue[g][j] = a} : x = <<g, i>>
      BY DEF Places
    <3>b. PICK h \in Gates : \E k \in {j \in 1..QueueLen(h) : queue[h][j] = a} : y = <<h, k>>
      BY DEF Places
    <3>1. PICK i \in {j \in 1..QueueLen(g) : queue[g][j] = a} : x = <<g, i>>
      BY <3>a
    <3>2. PICK k \in {j \in 1..QueueLen(h) : queue[h][j] = a} : y = <<h, k>>
      BY <3>b
    <3>3. g = h
      BY <1>1, <2>1, <3>1, <3>2 DEF OnceInv, Apart, QueuesApart, BoothsApart, PendingApart, SourcesApart
    <3>4. i = k
      BY <1>1, <2>1, <3>1, <3>2, <3>3 DEF OnceInv, ListsDistinct, Distinct
    <3> QED
      BY <3>1, <3>2, <3>3, <3>4
  <2>3. CASE Places(a) = {}
    BY <2>3, FS_EmptySet
  <2>4. CASE Places(a) # {}
    <3>1. PICK x \in Places(a) : TRUE
      BY <2>4
    <3>2. Places(a) = {x}
      BY <2>2, <3>1
    <3> QED
      BY <3>2, FS_Singleton
  <2> QED
    BY <2>3, <2>4
<1>2. TypeInv /\ OnceInv => QueuedOnce
  BY <1>1 DEF QueuedOnce
<1> QED
  BY <1>2, TypeInvariance, OneEnqueuer, PTL

-----------------------------------------------------------------------------
(* While no gate is being closed.                                          *)

\* No DELETE /admin/gates request has got past its error returns.
NoCloseYet == \A c \in Closers : closePc[c] = "idle"

\* a is on its way to a worker: requested, to be rehydrated, queued or in hand.
Waiting(a) == \/ a \in Asking \/ a \in Members(boot)
              \/ \E g \in Gates : a \in Members(queue[g]) \/ (InHand(g) /\ a \in bundle[g])

\* A guest in a bundle is in nobody else's hands.
BundlesApart ==
  \A g \in Gates : \A a \in bundle[g] :
    /\ a \notin Asking
    /\ \A h \in Gates : a \notin Members(queue[h]) /\ (g # h => a \notin bundle[h])

\* What a row and its events say follows the guest through the service.
RowsFollow ==
  /\ \A a \in Arrivals : Waiting(a) => dbStatus[a] # "processed" /\ events[a] = 0
  /\ \A g \in Gates : wpc[g] = "publish" =>
       \A a \in bundle[g] : dbStatus[a] = "processed" /\ events[a] = 0
  /\ \A a \in Arrivals : events[a] = 0 \/ (events[a] = 1 /\ dbStatus[a] = "processed")

\* The invariant behind the properties that a close of a busy gate breaks.
CalmInv ==
  NoCloseYet =>
    /\ up => boot = <<>>
    /\ \A g \in Gates : wpc[g] = "markHeld" => newlyHeld[g] \subseteq Members(queue[g])
    /\ BundlesApart /\ RowsFollow

\* A step after which no close has begun is not a step of a close.
LEMMA StillNoClose ==
  ASSUME TypeInv, [Next]_vars, NoCloseYet'
  PROVE  /\ NoCloseYet
         /\ \A c \in Closers : ~ Close(c)
<1> USE DEF TypeInv, TypeOK, NoCloseYet
<1>1. ASSUME NEW c \in Closers, Close(c) PROVE FALSE
  BY <1>1 DEF Close, CloseBegin, CloseDrain, DrainTo, CloseRequeue, CloseSave, CloseDelete
<1>2. ASSUME Crash PROVE NoCloseYet
  BY <1>2 DEF Crash
<1>3. ASSUME NEW a \in Arrivals, Request(a) PROVE NoCloseYet
  BY <1>3 DEF Request, ChooseGate, ChooseFails, SaveArrival, EnqueueArrival, closeVars
<1>4. ASSUME NEW g \in Gates, Worker(g) \/ Open(g) PROVE NoCloseYet
  BY <1>4 DEF Worker, LoopTop, PickBundle, PickNobody, TakeBundle, MarkHeld, StartBundle,
     FinishBundle, CommitBundle, PublishOne, ClearCurrent, Open, OpenCheck, OpenRegister,
     closeVars
<1>5. ASSUME Rehydrate \/ UNCHANGED vars PROVE NoCloseYet
  BY <1>5 DEF Rehydrate, RehydrateRow, RehydrateCommit, vars, closeVars
<1> QED
  BY <1>1, <1>2, <1>3, <1>4, <1>5 DEF Next

\* Requests keep CalmInv.
LEMMA CalmRequest ==
  ASSUME TypeInv, OnceInv, CalmInv, NoCloseYet, NEW a \in Arrivals, Request(a)
  PROVE  CalmInv'
<1> USE DEF TypeInv, TypeOK
<1>0. /\ BundlesApart /\ RowsFollow /\ (up => boot = <<>>)
      /\ \A g \in Gates : wpc[g] = "markHeld" => newlyHeld[g] \subseteq Members(queue[g])
  BY DEF CalmInv
<1>1. /\ wpc' = wpc /\ bundle' = bundle /\ newlyHeld' = newlyHeld /\ events' = events
      /\ boot' = boot /\ up' = up
  BY DEF Request, ChooseGate, ChooseFails, SaveArrival, EnqueueArrival, workerVars, procVars
<1>2. /\ Asking' \subseteq Asking
      /\ \A g \in Gates : \A b \in Members(queue'[g]) : b \in Members(queue[g]) \/ b \in Asking
      /\ \A g \in Gates : Members(queue[g]) \subseteq Members(queue'[g])
      /\ \A b \in Arrivals : \/ dbStatus'[b] = dbStatus[b]
                             \/ b \in Asking /\ dbStatus'[b] = "queued"
  <2>1. CASE ChooseGate(a) \/ ChooseFails(a)
    BY <2>1 DEF ChooseGate, ChooseFails, gateVars, dbVars, Asking
  <2>2. CASE SaveArrival(a)
    BY <2>2 DEF SaveArrival, gateVars, Asking
  <2>3. CASE EnqueueArrival(a)
    <3>1. PICK t \in Gates : queue' = [queue EXCEPT ![t] = Insert(queue[t], a)]
      BY <2>3 DEF EnqueueArrival, ThreadsOK
    <3>2. \A g \in Gates : Members(queue'[g]) =
            IF g = t THEN Members(queue[g]) \cup {a} ELSE Members(queue[g])
      BY <3>1, Joins
    <3>3. a \in Asking /\ Asking' \subseteq Asking /\ dbStatus' = dbStatus
      BY <2>3 DEF EnqueueArrival, dbVars, Asking
    <3> QED
      BY <3>2, <3>3
  <2> QED
    BY <2>1, <2>2, <2>3 DEF Request
<1>3. BundlesApart'
  BY <1>0, <1>1, <1>2 DEF BundlesApart
<1>4. \A b \in Arrivals : Waiting(b)' => Waiting(b)
  BY <1>1, <1>2 DEF Waiting, InHand
<1>5. RowsFollow'
  <2>1. \A b \in Arrivals : b \in Asking => events[b] = 0 /\ Waiting(b)
    BY <1>0 DEF RowsFollow, Waiting
  <2>2. \A b \in Arrivals : Waiting(b)' => dbStatus'[b] # "processed" /\ events'[b] = 0
    BY <1>0, <1>1, <1>2, <1>4 DEF RowsFollow
  <2>3. \A g \in Gates : wpc'[g] = "publish" =>
          \A b \in bundle'[g] : dbStatus'[b] = "processed" /\ events'[b] = 0
    BY <1>0, <1>1, <1>2 DEF RowsFollow, BundlesApart
  <2>4. \A b \in Arrivals : events'[b] = 0 \/ (events'[b] = 1 /\ dbStatus'[b] = "processed")
    BY <1>0, <1>1, <1>2, <2>1 DEF RowsFollow
  <2> QED
    BY <2>2, <2>3, <2>4 DEF RowsFollow
<1>6. \A g \in Gates : wpc'[g] = "markHeld" => newlyHeld'[g] \subseteq Members(queue'[g])
  BY <1>0, <1>1, <1>2
<1> QED
  BY <1>0, <1>1, <1>3, <1>5, <1>6 DEF CalmInv

\* The worker's locked section keeps CalmInv.
LEMMA CalmTake ==
  ASSUME TypeInv, OnceInv, HandsInv, CalmInv, NoCloseYet,
         NEW g \in Gates, NEW passed, NEW taken, NEW first, up, wpc[g] = "pick",
         taken \subseteq Members(queue[g]), passed \subseteq Members(queue[g]),
         \A b \in passed : b \notin taken,
         TakeBundle(g, passed, taken, first)
  PROVE  CalmInv'
<1> USE DEF TypeInv, TypeOK
<1>0. /\ BundlesApart /\ RowsFollow /\ boot = <<>> /\ bundle[g] = {}
      /\ \A h \in Gates : wpc[h] = "markHeld" => newlyHeld[h] \subseteq Members(queue[h])
  BY DEF CalmInv, HandsInv
<1>1. /\ dbStatus' = dbStatus /\ events' = events /\ boot' = boot /\ up' = up
      /\ reqPc' = reqPc
      /\ queue' = [queue EXCEPT ![g] = Without(queue[g], taken)]
      /\ bundle' = [bundle EXCEPT ![g] = taken]
      /\ \A h \in Gates : h # g => wpc'[h] = wpc[h] /\ newlyHeld'[h] = newlyHeld[h]
      /\ newlyHeld'[g] \subseteq passed /\ wpc'[g] # "publish"
  BY DEF TakeBundle, AfterPick, dbVars, procVars, reqVars
<1>2. Asking' = Asking
  BY <1>1 DEF Asking
<1>3. \A h \in Gates : Members(queue'[h]) =
        IF h = g THEN Members(queue[h]) \ taken ELSE Members(queue[h])
  BY <1>1, WithoutMembers
<1>4. \A h \in Gates : \A b \in Members(queue'[h]) :
        b \in Members(queue[h]) /\ (h = g => b \notin taken)
  BY <1>3
<1>5. \A h \in Gates : \A b \in bundle'[h] : (h = g /\ b \in taken) \/ (h # g /\ b \in bundle[h])
  BY <1>1
<1>6. \A b \in taken : /\ b \in Members(queue[g]) /\ b \notin Asking
                       /\ \A h \in Gates : h # g => b \notin Members(queue[h]) /\ b \notin bundle[h]
  BY <1>0 DEF OnceInv, Apart, QueuesApart, SourcesApart, BundlesApart
<1>7. BundlesApart'
  BY <1>0, <1>2, <1>4, <1>5, <1>6 DEF BundlesApart
<1>8. \A b \in Arrivals : Waiting(b)' => Waiting(b)
  BY <1>1, <1>2, <1>4, <1>5, <1>6 DEF Waiting, InHand
<1>9. RowsFollow'
  <2>1. \A b \in Arrivals : Waiting(b)' => dbStatus'[b] # "processed" /\ events'[b] = 0
    BY <1>0, <1>1, <1>8 DEF RowsFollow
  <2>2. \A h \in Gates : wpc'[h] = "publish" =>
          \A b \in bundle'[h] : dbStatus'[b] = "processed" /\ events'[b] = 0
    BY <1>0, <1>1, <1>5 DEF RowsFollow
  <2> QED
    BY <1>0, <1>1, <2>1, <2>2 DEF RowsFollow
<1>10. \A h \in Gates : wpc'[h] = "markHeld" => newlyHeld'[h] \subseteq Members(queue'[h])
  <2>1. newlyHeld'[g] \subseteq Members(queue'[g])
    BY <1>1, <1>3
  <2>2. \A h \in Gates : h # g => Members(queue'[h]) = Members(queue[h])
    BY <1>3
  <2> QED
    BY <1>0, <1>1, <2>1, <2>2
<1> QED
  BY <1>0, <1>1, <1>7, <1>9, <1>10 DEF CalmInv

\* The other steps of a worker, and opening a gate, keep CalmInv.
LEMMA CalmWorker ==
  ASSUME TypeInv, OnceInv, HandsInv, CalmInv, NoCloseYet, NEW g \in Gates,
         Worker(g) \/ Open(g)
  PROVE  CalmInv'
<1> USE DEF TypeInv, TypeOK
<1>0. /\ BundlesApart /\ RowsFollow /\ (up => boot = <<>>)
      /\ \A h \in Gates : wpc[h] = "markHeld" => newlyHeld[h] \subseteq Members(queue[h])
  BY DEF CalmInv
<1>1. CASE PickBundle(g)
  <2> DEFINE q == queue[g]
  <2>1. PICK i \in 1..Len(q) :
          /\ MayPass(q, q[i])
          /\ \A j \in 1..(i - 1) : ~ MayPass(q, q[j])
          /\ TakeBundle(g, {q[j] : j \in 1..(i - 1)}, {q[i]} \cup Relatives(q, q[i]), q[i])
    BY <1>1 DEF PickBundle, QueueLen
  <2>2. /\ {q[i]} \cup Relatives(q, q[i]) \subseteq Members(queue[g])
        /\ {q[j] : j \in 1..(i - 1)} \subseteq Members(queue[g])
    BY <2>1 DEF Members, Relatives
  <2>3. up /\ wpc[g] = "pick"
    BY <1>1 DEF PickBundle
  <2>4. \A b \in {q[j] : j \in 1..(i - 1)} : b \notin {q[i]} \cup Relatives(q, q[i])
    <3> HIDE DEF q
    <3>1. q[i] \in Members(q)
      BY <2>2 DEF q
    <3> QED
      BY <2>1, <3>1, PassedNotTaken
  <2> HIDE DEF q
  <2> QED
    BY <2>1, <2>2, <2>3, <2>4, CalmTake
<1>2. CASE PickNobody(g)
  <2>1. ASSUME NEW passed, NEW taken, NEW first, taken = {},
               passed \subseteq Members(queue[g]), TakeBundle(g, passed, taken, first)
        PROVE  CalmInv'
    <3>1. taken \subseteq Members(queue[g]) /\ \A b \in passed : b \notin taken
      BY <2>1
    <3>2. up /\ wpc[g] = "pick"
      BY <1>2 DEF PickNobody
    <3> QED
      BY <2>1, <3>1, <3>2, CalmTake
  <2> QED
    BY <1>2, <2>1 DEF PickNobody
<1>3. CASE PublishOne(g)
  <2>1. /\ queue' = queue /\ newlyHeld' = newlyHeld /\ dbStatus' = dbStatus /\ reqPc' = reqPc
        /\ boot' = boot /\ up' = up /\ wpc[g] = "publish" /\ up
    BY <1>3 DEF PublishOne, gateVars, dbVars, procVars, reqVars
  <2>2. PICK a \in bundle[g] : /\ events' = [events EXCEPT ![a] = @ + 1]
                               /\ bundle' = [bundle EXCEPT ![g] = @ \ {a}]
                               /\ wpc' = [wpc EXCEPT ![g] = IF bundle[g] = {a} THEN "clear" ELSE @]
    BY <1>3 DEF PublishOne
  <2>3. /\ \A h \in Gates : \A b \in bundle'[h] : b \in bundle[h] /\ (h = g => b # a)
        /\ \A h \in Gates : h # g => wpc'[h] = wpc[h]
        /\ wpc'[g] \in {"publish", "clear"}
    BY <2>1, <2>2
  <2>4. a \in Arrivals /\ dbStatus[a] = "processed" /\ events[a] = 0 /\ ~ Waiting(a)
    BY <1>0, <2>1, <2>2 DEF RowsFollow
  <2>5. events'[a] = 1 /\ \A b \in Arrivals : b # a => events'[b] = events[b]
    BY <2>2, <2>4
  <2>6. Asking' = Asking
    BY <2>1 DEF Asking
  <2>7. BundlesApart'
    BY <1>0, <2>1, <2>3, <2>6 DEF BundlesApart
  <2>8. \A b \in Arrivals : Waiting(b)' => Waiting(b)
    BY <2>1, <2>3, <2>6 DEF Waiting, InHand
  <2>9. RowsFollow'
    <3>1. \A b \in Arrivals : Waiting(b)' => dbStatus'[b] # "processed" /\ events'[b] = 0
      BY <1>0, <2>1, <2>4, <2>5, <2>8 DEF RowsFollow
    <3>2. \A h \in Gates : wpc'[h] = "publish" =>
            \A b \in bundle'[h] : dbStatus'[b] = "processed" /\ events'[b] = 0
      <4> TAKE h \in Gates
      <4> HAVE wpc'[h] = "publish"
      <4> TAKE b \in bundle'[h]
      <4>1. wpc[h] = "publish" /\ b \in bundle[h] /\ b \in Arrivals
        BY <2>1, <2>3
      <4>2. b # a
        BY <1>0, <2>2, <2>3, <4>1 DEF BundlesApart
      <4> QED
        BY <1>0, <2>1, <2>5, <4>1, <4>2 DEF RowsFollow
    <3>3. \A b \in Arrivals : events'[b] = 0 \/ (events'[b] = 1 /\ dbStatus'[b] = "processed")
      BY <1>0, <2>1, <2>4, <2>5 DEF RowsFollow
    <3> QED
      BY <3>1, <3>2, <3>3 DEF RowsFollow
  <2>10. \A h \in Gates : wpc'[h] = "markHeld" => newlyHeld'[h] \subseteq Members(queue'[h])
    BY <1>0, <2>1, <2>3
  <2> QED
    BY <1>0, <2>1, <2>7, <2>9, <2>10 DEF CalmInv
<1>4. CASE \/ LoopTop(g) \/ MarkHeld(g) \/ StartBundle(g) \/ FinishBundle(g)
           \/ CommitBundle(g) \/ ClearCurrent(g) \/ Open(g)
  <2>1. /\ queue' = queue /\ bundle' = bundle /\ newlyHeld' = newlyHeld /\ reqPc' = reqPc
        /\ boot' = boot /\ up' = up /\ up /\ events' = events
    BY <1>4 DEF LoopTop, MarkHeld, StartBundle, FinishBundle, CommitBundle, ClearCurrent,
       Open, OpenCheck, OpenRegister, gateVars, procVars, reqVars
  <2>2. /\ \A h \in Gates : h # g => wpc'[h] = wpc[h]
        /\ wpc'[g] # "markHeld"
    BY <1>4 DEF LoopTop, MarkHeld, StartBundle, FinishBundle, CommitBundle, ClearCurrent,
       Open, OpenCheck, OpenRegister, AfterPick
  <2>3. Asking' = Asking
    BY <2>1 DEF Asking
  <2>4. BundlesApart'
    BY <1>0, <2>1, <2>3 DEF BundlesApart
  <2>5. \A h \in Gates : wpc'[h] = "markHeld" => newlyHeld'[h] \subseteq Members(queue'[h])
    BY <1>0, <2>1, <2>2
  <2>6. CASE ~ CommitBundle(g)
    <3>1. wpc'[g] # "publish" /\ (InHand(g)' => InHand(g))
      BY <1>4, <2>6 DEF LoopTop, MarkHeld, StartBundle, FinishBundle, ClearCurrent,
         Open, OpenCheck, OpenRegister, AfterPick, InHand
    <3>2. \A b \in Arrivals : Waiting(b)' => Waiting(b)
      BY <2>1, <2>2, <2>3, <3>1 DEF Waiting, InHand
    <3>3. \A b \in Arrivals : \/ dbStatus'[b] = dbStatus[b]
                              \/ Waiting(b) /\ dbStatus'[b] # "processed"
                                 /\ \A h \in Gates : b \in bundle[h] => wpc[h] # "publish"
      <4>1. CASE MarkHeld(g)
        <5>1. \A b \in Arrivals : b \in newlyHeld[g] => b \in Members(queue[g])
          BY <1>0, <4>1 DEF MarkHeld
        <5> QED
          BY <1>0, <4>1, <5>1 DEF MarkHeld, SetRows, Waiting, BundlesApart
      <4>2. CASE StartBundle(g)
        <5>1. InHand(g) /\ wpc[g] # "publish"
          BY <4>2 DEF StartBundle, InHand
        <5> QED
          BY <1>0, <4>2, <5>1 DEF StartBundle, SetRows, Waiting, BundlesApart
      <4>3. CASE ~ MarkHeld(g) /\ ~ StartBundle(g)
        BY <1>4, <2>6, <4>3 DEF LoopTop, FinishBundle, ClearCurrent, Open, OpenCheck,
           OpenRegister, dbVars
      <4> QED
        BY <4>1, <4>2, <4>3
    <3>4. \A b \in Arrivals : Waiting(b)' => dbStatus'[b] # "processed" /\ events'[b] = 0
      BY <1>0, <2>1, <3>2, <3>3 DEF RowsFollow
    <3>5. \A h \in Gates : wpc'[h] = "publish" =>
            \A b \in bundle'[h] : dbStatus'[b] = "processed" /\ events'[b] = 0
      BY <1>0, <2>1, <2>2, <3>1, <3>3 DEF RowsFollow
    <3>6. \A b \in Arrivals : events'[b] = 0 \/ (events'[b] = 1 /\ dbStatus'[b] = "processed")
      BY <1>0, <2>1, <3>3 DEF RowsFollow
    <3> QED
      BY <1>0, <2>1, <2>4, <2>5, <3>4, <3>5, <3>6 DEF CalmInv, RowsFollow
  <2>7. CASE CommitBundle(g)
    <3>1. /\ \A b \in Arrivals : dbStatus'[b] = IF b \in bundle[g] THEN "processed" ELSE dbStatus[b]
          /\ wpc[g] = "commit" /\ wpc'[g] = "publish"
      BY <2>7 DEF CommitBundle, SetRows
    <3>2. \A b \in Arrivals : b \in bundle[g] => Waiting(b)
      BY <3>1 DEF Waiting, InHand
    <3>3. \A b \in Arrivals : Waiting(b)' => Waiting(b) /\ b \notin bundle[g]
      <4>1. boot = <<>> /\ Members(boot) = {}
        BY <1>0, <2>1 DEF Members
      <4> QED
        BY <1>0, <2>1, <2>2, <2>3, <3>1, <4>1 DEF Waiting, InHand, BundlesApart
    <3>4. \A b \in Arrivals : Waiting(b)' => dbStatus'[b] # "processed" /\ events'[b] = 0
      BY <1>0, <2>1, <3>1, <3>3 DEF RowsFollow
    <3>5. \A h \in Gates : wpc'[h] = "publish" =>
            \A b \in bundle'[h] : dbStatus'[b] = "processed" /\ events'[b] = 0
      BY <1>0, <2>1, <2>2, <3>1, <3>2 DEF RowsFollow
    <3>6. \A b \in Arrivals : events'[b] = 0 \/ (events'[b] = 1 /\ dbStatus'[b] = "processed")
      BY <1>0, <2>1, <3>1 DEF RowsFollow
    <3> QED
      BY <1>0, <2>1, <2>4, <2>5, <3>4, <3>5, <3>6 DEF CalmInv, RowsFollow
  <2> QED
    BY <2>6, <2>7
<1> QED
  BY <1>1, <1>2, <1>3, <1>4 DEF Worker

\* A crash and the boot sequence keep CalmInv.
LEMMA CalmRestart ==
  ASSUME TypeInv, OnceInv, HandsInv, CalmInv, NoCloseYet, Crash \/ Rehydrate
  PROVE  CalmInv'
<1> USE DEF TypeInv, TypeOK
<1>0. /\ BundlesApart /\ RowsFollow /\ (up => boot = <<>>)
      /\ \A h \in Gates : wpc[h] = "markHeld" => newlyHeld[h] \subseteq Members(queue[h])
  BY DEF CalmInv
<1>1. CASE Crash
  <2>1. /\ ~ up' /\ dbStatus' = dbStatus /\ events' = events
        /\ boot' = Without(stamped, Arrivals \ Unfinished)
        /\ \A g \in Gates : queue'[g] = <<>> /\ bundle'[g] = {} /\ wpc'[g] = "unborn"
        /\ Asking' \subseteq Asking
    BY <1>1 DEF Crash, dbVars, EmptyQueues, Nobody, Asking
  <2>2. Members(boot') \subseteq Unfinished /\ Members(<<>>) = {}
    <3>1. Members(boot') = Members(stamped) \ (Arrivals \ Unfinished)
      BY <2>1, WithoutMembers
    <3>2. Members(stamped) \subseteq Arrivals
      BY MembersType
    <3>3. Members(<<>>) = {}
      BY DEF Members
    <3> QED
      BY <3>1, <3>2, <3>3
  <2>3. \A b \in Arrivals : Waiting(b)' => b \in Asking \/ b \in Unfinished
    BY <2>1, <2>2 DEF Waiting
  <2>4. \A b \in Arrivals : Waiting(b)' => dbStatus'[b] # "processed" /\ events'[b] = 0
    BY <1>0, <2>1, <2>3 DEF RowsFollow, Waiting, Unfinished
  <2>5. RowsFollow' /\ BundlesApart'
    BY <1>0, <2>1, <2>4 DEF RowsFollow, BundlesApart
  <2> QED
    BY <2>1, <2>5 DEF CalmInv
<1>2. CASE RehydrateRow
  <2>1. /\ ~ up' /\ ~ up /\ dbStatus' = dbStatus /\ events' = events /\ reqPc' = reqPc
        /\ boot' = Tail(boot) /\ boot # <<>> /\ bundle' = bundle /\ wpc' = wpc
    BY <1>2 DEF RehydrateRow, dbVars, workerVars, reqVars
  <2>2. \A g \in Gates : wpc'[g] = "unborn" /\ bundle'[g] = {}
    BY <2>1 DEF HandsInv
  <2>3. PICK b \in Arrivals : b = Head(boot)
    BY <2>1, MembersOfTail
  <2>4. Members(boot) = {b} \cup Members(boot')
    BY <2>1, <2>3, MembersOfTail
  <2>5. \A g \in Gates : \A x \in Members(queue'[g]) : x \in Members(queue[g]) \/ x = b
    <3>1. CASE queue' = queue
      BY <3>1
    <3>2. ASSUME NEW t \in Gates, \/ queue' = [queue EXCEPT ![t] = Insert(queue[t], b)]
                                  \/ queue' = [queue EXCEPT ![t] = <<b>> \o queue[t]]
          PROVE  \A g \in Gates : \A x \in Members(queue'[g]) : x \in Members(queue[g]) \/ x = b
      <4>1. \A g \in Gates : Members(queue'[g]) =
              IF g = t THEN Members(queue[g]) \cup {b} ELSE Members(queue[g])
        BY <3>2, Joins
      <4> QED
        BY <4>1
    <3>3. DefaultGates \subseteq Gates
      BY AirportAssumption
    <3> QED
      BY <1>2, <2>3, <3>1, <3>2, <3>3 DEF RehydrateRow
  <2>6. Asking' = Asking
    BY <2>1 DEF Asking
  <2>7. \A x \in Arrivals : Waiting(x)' => Waiting(x)
    BY <2>1, <2>2, <2>4, <2>5, <2>6 DEF Waiting
  <2>8. RowsFollow' /\ BundlesApart'
    BY <1>0, <2>1, <2>2, <2>7 DEF RowsFollow, BundlesApart
  <2> QED
    BY <2>1, <2>2, <2>8 DEF CalmInv
<1>3. CASE RehydrateCommit
  <2>1. /\ ~ up /\ boot = <<>> /\ boot' = boot /\ events' = events /\ reqPc' = reqPc
        /\ queue' = queue /\ bundle' = bundle
        /\ \A g \in Gates : wpc'[g] \in {"top", "unborn"}
        /\ \A b \in Arrivals : \/ dbStatus'[b] = dbStatus[b]
                               \/ dbStatus[b] = "processing" /\ dbStatus'[b] = "queued"
    BY <1>3 DEF RehydrateCommit, SetRows, Started, reqVars, gateVars
  <2>2. \A g \in Gates : bundle'[g] = {}
    BY <2>1 DEF HandsInv
  <2>3. Asking' = Asking
    BY <2>1 DEF Asking
  <2>4. \A x \in Arrivals : Waiting(x)' => Waiting(x)
    BY <2>1, <2>2, <2>3 DEF Waiting
  <2>5. RowsFollow'
    <3>1. \A b \in Arrivals : Waiting(b)' => dbStatus'[b] # "processed" /\ events'[b] = 0
      BY <1>0, <2>1, <2>4 DEF RowsFollow
    <3>2. \A b \in Arrivals : events'[b] = 0 \/ (events'[b] = 1 /\ dbStatus'[b] = "processed")
      BY <1>0, <2>1 DEF RowsFollow
    <3> QED
      BY <2>1, <3>1, <3>2 DEF RowsFollow
  <2>6. BundlesApart'
    BY <2>2 DEF BundlesApart
  <2> QED
    BY <2>1, <2>5, <2>6 DEF CalmInv
<1> QED
  BY <1>1, <1>2, <1>3 DEF Rehydrate

\* Workers have bundles and closes displaced guests only while they should.
LEMMA HandsInvariance == Spec => []HandsInv
<1>1. Init => HandsInv
  BY DEF Init, HandsInv, Started, Nobody
<1>2. TypeInv /\ HandsInv /\ [Next]_vars => HandsInv'
  BY HandsStep
<1> QED
  BY <1>1, <1>2, TypeInvariance, PTL DEF Spec

\* CalmInv is an invariant.
LEMMA CalmInvariance == Spec => []CalmInv
<1>1. Init => CalmInv
  <2> SUFFICES ASSUME Init PROVE CalmInv
    OBVIOUS
  <2>1. Members(<<>>) = {}
    BY DEF Members
  <2>2. /\ \A g \in Gates : bundle[g] = {} /\ wpc[g] \in {"top", "unborn"}
        /\ \A a \in Arrivals : dbStatus[a] = "none" /\ events[a] = 0
        /\ boot = <<>>
    BY DEF Init, Nobody, Started
  <2> QED
    BY <2>1, <2>2 DEF CalmInv, BundlesApart, RowsFollow
<1>2. TypeInv /\ OnceInv /\ HandsInv /\ CalmInv /\ [Next]_vars => CalmInv'
  <2> SUFFICES ASSUME TypeInv, OnceInv, HandsInv, CalmInv, [Next]_vars, NoCloseYet'
               PROVE  CalmInv'
    BY DEF CalmInv
  <2>1. NoCloseYet /\ \A c \in Closers : ~ Close(c)
    BY StillNoClose
  <2>2. CASE UNCHANGED vars
    <3>1. /\ up' = up /\ boot' = boot /\ queue' = queue /\ bundle' = bundle /\ wpc' = wpc
          /\ newlyHeld' = newlyHeld /\ dbStatus' = dbStatus /\ events' = events
          /\ reqPc' = reqPc
      BY <2>2 DEF vars, reqVars, dbVars, gateVars, workerVars, procVars
    <3>2. Asking' = Asking
      BY <3>1 DEF Asking
    <3>3. BundlesApart' /\ RowsFollow'
      BY <2>1, <3>1, <3>2 DEF CalmInv, BundlesApart, RowsFollow, Waiting, InHand
    <3> QED
      BY <2>1, <3>1, <3>3 DEF CalmInv
  <2> QED
    BY <2>1, <2>2, CalmRequest, CalmWorker, CalmRestart DEF Next
<1> QED
  BY <1>1, <1>2, TypeInvariance, OneEnqueuer, HandsInvariance, PTL DEF Spec

\* As long as no close has begun, across any number of restarts, no guest that a
\* worker has in hand stands in a queue as well.  (A close puts the guest in the booth
\* back into a queue while the worker goes on with it.)
THEOREM InHandOnce == Spec => [](NoCloseYet => InHandNotQueued)
<1>1. CalmInv => (NoCloseYet => InHandNotQueued)
  BY DEF CalmInv, BundlesApart, InHandNotQueued
<1> QED
  BY <1>1, CalmInvariance, PTL

\* As long as no close has begun, across any number of restarts, an arrival is
\* announced at most once, and only after its row says that it was processed.
THEOREM AnnouncedOnce == Spec => [](NoCloseYet => OneEventAfterCommit)
<1>1. TypeInv /\ CalmInv => (NoCloseYet => OneEventAfterCommit)
  BY DEF CalmInv, RowsFollow, OneEventAfterCommit, TypeInv, TypeOK
<1> QED
  BY <1>1, CalmInvariance, TypeInvariance, PTL

\* A step of a service without a close never takes "processed" back.
LEMMA ProcessedStays ==
  ASSUME TypeInv, OnceInv, CalmInv, NoCloseYet', [Next]_vars,
         NEW a \in Arrivals, dbStatus[a] = "processed"
  PROVE  dbStatus'[a] = "processed"
<1> USE DEF TypeInv, TypeOK
<1>0. NoCloseYet /\ \A c \in Closers : ~ Close(c)
  BY StillNoClose
<1>1. /\ ~ Waiting(a)
      /\ \A g \in Gates : wpc[g] = "markHeld" => newlyHeld[g] \subseteq Members(queue[g])
  BY <1>0 DEF CalmInv, RowsFollow
<1>2. ASSUME NEW b \in Arrivals, Request(b) PROVE dbStatus'[a] = "processed"
  <2>1. CASE SaveArrival(b)
    <3>1. b \in Asking
      BY <2>1 DEF SaveArrival, Asking
    <3>2. b # a
      BY <3>1, <1>1 DEF Waiting
    <3> QED
      BY <2>1, <3>2 DEF SaveArrival
  <2>2. CASE ~ SaveArrival(b)
    BY <1>2, <2>2 DEF Request, ChooseGate, ChooseFails, EnqueueArrival, dbVars
  <2> QED
    BY <2>1, <2>2
<1>3. ASSUME NEW g \in Gates, Worker(g) \/ Open(g) PROVE dbStatus'[a] = "processed"
  <2>1. CASE MarkHeld(g)
    <3>1. a \notin newlyHeld[g]
      BY <1>1, <2>1 DEF MarkHeld, Waiting
    <3> QED
      BY <2>1, <3>1 DEF MarkHeld, SetRows
  <2>2. CASE StartBundle(g)
    <3>1. a \notin bundle[g]
      BY <1>1, <2>2 DEF StartBundle, Waiting, InHand
    <3> QED
      BY <2>2, <3>1 DEF StartBundle, SetRows
  <2>3. CASE CommitBundle(g)
    BY <2>3 DEF CommitBundle, SetRows
  <2>4. CASE \/ LoopTop(g) \/ PickBundle(g) \/ PickNobody(g) \/ FinishBundle(g)
             \/ PublishOne(g) \/ ClearCurrent(g) \/ Open(g)
    BY <2>4 DEF LoopTop, PickBundle, PickNobody, TakeBundle, FinishBundle, PublishOne,
       ClearCurrent, Open, OpenCheck, OpenRegister, dbVars
  <2> QED
    BY <1>3, <2>1, <2>2, <2>3, <2>4 DEF Worker
<1>4. CASE Crash \/ RehydrateRow \/ UNCHANGED vars
  BY <1>4 DEF Crash, RehydrateRow, vars, dbVars
<1>5. CASE RehydrateCommit
  BY <1>5 DEF RehydrateCommit, SetRows
<1> QED
  BY <1>0, <1>2, <1>3, <1>4, <1>5 DEF Next, Rehydrate

\* In a service whose gates are never closed a processed guest stays processed,
\* across any number of restarts.
THEOREM ProcessedForGood == Spec /\ []NoCloseYet => Lifecycle
<1>1. TypeInv /\ OnceInv /\ CalmInv /\ NoCloseYet' /\ [Next]_vars =>
        [\A a \in Arrivals : dbStatus[a] = "processed" => dbStatus'[a] = "processed"]_vars
  BY ProcessedStays
<1> QED
  BY <1>1, TypeInvariance, OneEnqueuer, CalmInvariance, PTL DEF Spec, Lifecycle

-----------------------------------------------------------------------------
(* The last gate of a type.                                                *)

\* A gate id is always opened with the same type.
IdsKeepTheirType == \A g, h \in Gates : Id[g] = Id[h] => GateType[g] = GateType[h]

\* Gate id i is registered, or a close other than d closes it.
Accounted(d, i) == IsRegistered(i) \/ \E c \in Closers \ {d} : Closes(c, i)

\* A close counts on gates of its type with other ids, and only another close can have
\* taken one of them away; the ids that the airport started with go by closes only.
LastInv ==
  /\ \A c \in Closers : closePc[c] = "idle" => closeGate[c] = NoGate /\ sameType[c] = {}
  /\ \A d \in Closers : closeGate[d] # NoGate => sameType[d] # {}
  /\ \A d \in Closers : \A h \in sameType[d] :
       /\ closeGate[d] # NoGate
       /\ GateType[h] = GateType[closeGate[d]] /\ Id[h] # Id[closeGate[d]]
       /\ Accounted(d, Id[h])
  /\ \A g \in DefaultGates : IsRegistered(Id[g]) \/ \E c \in Closers : Closes(c, Id[g])

\* A step that leaves what the closes know alone and no gate id unregistered keeps
\* LastInv.
LEMMA LastUntouched ==
  ASSUME LastInv, closeGate' = closeGate, sameType' = sameType,
         \A c \in Closers : closePc'[c] = "idle" => closePc[c] = "idle",
         \A g \in gates : \E h \in gates' : Id[h] = Id[g]
  PROVE  LastInv'
<1>1. \A c \in Closers : \A i : Closes(c, i)' <=> Closes(c, i)
  BY DEF Closes
<1>2. \A i : IsRegistered(i) => IsRegistered(i)'
  BY DEF IsRegistered
<1>3. \A d \in Closers : \A i : Accounted(d, i) => Accounted(d, i)'
  BY <1>1, <1>2 DEF Accounted
<1> QED
  BY <1>1, <1>2, <1>3 DEF LastInv

\* Every step keeps LastInv.
LEMMA LastStep ==
  ASSUME TypeInv, LastInv, [Next]_vars
  PROVE  LastInv'
<1> USE DEF TypeInv, TypeOK
<1>1. ASSUME NEW a \in Arrivals, Request(a) PROVE LastInv'
  BY <1>1, LastUntouched DEF Request, ChooseGate, ChooseFails, SaveArrival, EnqueueArrival,
     closeVars, gateVars
<1>2. ASSUME NEW g \in Gates, Worker(g) \/ OpenCheck(g) PROVE LastInv'
  BY <1>2, LastUntouched DEF Worker, LoopTop, PickBundle, PickNobody, TakeBundle, MarkHeld,
     StartBundle, FinishBundle, CommitBundle, PublishOne, ClearCurrent, OpenCheck,
     closeVars, gateVars
<1>3. ASSUME NEW g \in Gates, OpenRegister(g) PROVE LastInv'
  BY <1>3, LastUntouched DEF OpenRegister, closeVars
<1>4. ASSUME NEW c \in Closers, CloseDrain(c) \/ CloseRequeue(c) \/ CloseSave(c)
      PROVE  LastInv'
  BY <1>4, LastUntouched DEF CloseDrain, DrainTo, CloseRequeue, CloseSave, gateVars
<1>5. ASSUME NEW c \in Closers, CloseBegin(c) PROVE LastInv'
  <2>1. gates' = gates /\ closePc[c] = "idle" /\ closePc' = [closePc EXCEPT ![c] = "drain"]
    BY <1>5 DEF CloseBegin
  <2>2. PICK g \in gates : /\ SameType(g) # {}
                           /\ closeGate' = [closeGate EXCEPT ![c] = g]
                           /\ sameType' = [sameType EXCEPT ![c] = SameType(g)]
    BY <1>5 DEF CloseBegin
  <2>3. closeGate[c] = NoGate /\ sameType[c] = {}
    BY <2>1 DEF LastInv
  <2>4. /\ closeGate'[c] = g /\ sameType'[c] = SameType(g) /\ closePc'[c] = "drain"
        /\ g # NoGate
        /\ \A d \in Closers : d # c => /\ closeGate'[d] = closeGate[d]
                                       /\ closePc'[d] = closePc[d]
                                       /\ sameType'[d] = sameType[d]
    BY <2>1, <2>2, AirportAssumption
  <2>5. \A d \in Closers : \A i : Closes(d, i) => Closes(d, i)'
    BY <2>3, <2>4 DEF Closes
  <2>6. \A i : IsRegistered(i) => IsRegistered(i)'
    BY <2>1 DEF IsRegistered
  <2>7. \A d \in Closers : \A i : Accounted(d, i) => Accounted(d, i)'
    BY <2>5, <2>6 DEF Accounted
  <2>8. \A h \in SameType(g) : /\ GateType[h] = GateType[g] /\ Id[h] # Id[g]
                               /\ Accounted(c, Id[h])'
    BY <2>1 DEF SameType, IsRegistered, Accounted
  <2>9. \A d \in Closers : \A h \in sameType'[d] :
          /\ closeGate'[d] # NoGate
          /\ GateType[h] = GateType[closeGate'[d]] /\ Id[h] # Id[closeGate'[d]]
          /\ Accounted(d, Id[h])'
    <3> TAKE d \in Closers
    <3>1. CASE d = c
      BY <3>1, <2>4, <2>8
    <3>2. CASE d # c
      BY <3>2, <2>4, <2>7 DEF LastInv
    <3> QED
      BY <3>1, <3>2
  <2>10. \A d \in Closers : closeGate'[d] # NoGate => sameType'[d] # {}
    BY <2>2, <2>4 DEF LastInv
  <2>11. \A d \in Closers : closePc'[d] = "idle" => closeGate'[d] = NoGate /\ sameType'[d] = {}
    BY <2>4 DEF LastInv
  <2>12. \A e \in DefaultGates : IsRegistered(Id[e])' \/ \E d \in Closers : Closes(d, Id[e])'
    BY <2>5, <2>6 DEF LastInv
  <2> QED
    BY <2>9, <2>10, <2>11, <2>12 DEF LastInv
<1>6. ASSUME NEW c \in Closers, CloseDelete(c) PROVE LastInv'
  <2>1. /\ closeGate' = closeGate /\ sameType' = sameType /\ closePc[c] = "requeue"
        /\ gates' = {h \in gates : Id[h] # Id[closeGate[c]]}
        /\ closePc' = [closePc EXCEPT ![c] = "done"] /\ closeGate[c] \in Gates
    BY <1>6 DEF CloseDelete, ThreadsOK
  <2>2. \A d \in Closers : \A i : Closes(d, i)' <=> Closes(d, i)
    BY <2>1 DEF Closes
  <2>3. Closes(c, Id[closeGate[c]])
    BY <2>1, AirportAssumption DEF Closes
  <2>4. \A i : IsRegistered(i) /\ i # Id[closeGate[c]] => IsRegistered(i)'
    BY <2>1 DEF IsRegistered
  <2>5. ASSUME NEW d \in Closers, NEW h \in sameType[d] PROVE Accounted(d, Id[h])'
    <3>1. CASE Id[h] = Id[closeGate[c]]
      <4>1. d # c
        BY <2>5, <3>1 DEF LastInv
      <4> QED
        BY <2>2, <2>3, <3>1, <4>1 DEF Accounted
    <3>2. CASE Id[h] # Id[closeGate[c]]
      BY <2>2, <2>4, <2>5, <3>2 DEF LastInv, Accounted
    <3> QED
      BY <3>1, <3>2
  <2>6. ASSUME NEW g \in DefaultGates
        PROVE  IsRegistered(Id[g])' \/ \E d \in Closers : Closes(d, Id[g])'
    BY <2>2, <2>3, <2>4 DEF LastInv
  <2>7. \A d \in Closers : closePc'[d] = "idle" => closePc[d] = "idle"
    BY <2>1
  <2> QED
    BY <2>1, <2>5, <2>6, <2>7 DEF LastInv
<1>7. CASE Crash
  <2>1. /\ gates' = DefaultGates
        /\ \A c \in Closers : closeGate'[c] = NoGate /\ sameType'[c] = {}
    BY <1>7 DEF Crash
  <2>2. \A g \in DefaultGates : IsRegistered(Id[g])'
    BY <2>1 DEF IsRegistered
  <2> QED
    BY <2>1, <2>2 DEF LastInv
<1>8. CASE Rehydrate \/ UNCHANGED vars
  BY <1>8, LastUntouched DEF Rehydrate, RehydrateRow, RehydrateCommit, vars, closeVars, gateVars
<1> QED
  BY <1>1, <1>2, <1>3, <1>4, <1>5, <1>6, <1>7, <1>8 DEF Next, Open, Close

\* If a gate id is never reopened with another type, a type that the airport started
\* with loses its last gate only to closes that race in a circle, however many there
\* are.
THEOREM LastGateKept == IdsKeepTheirType => (Spec => []LastGateOnlyRaced)
<1> SUFFICES ASSUME IdsKeepTheirType PROVE Spec => []LastGateOnlyRaced
  OBVIOUS
<1>1. Init => LastInv
  BY DEF Init, LastInv, IsRegistered
<1>2. TypeInv /\ LastInv /\ [Next]_vars => LastInv'
  BY LastStep
<1>3. TypeInv /\ LastInv => LastGateOnlyRaced
  <2> SUFFICES ASSUME TypeInv, LastInv, NEW g \in DefaultGates, OfType(GateType[g]) = {}
               PROVE  /\ \E d \in Closers : Closes(d, Id[g])
                      /\ \A d \in Closers :
                           closeGate[d] # NoGate /\ GateType[closeGate[d]] = GateType[g] =>
                             /\ sameType[d] # {}
                             /\ \A h \in sameType[d] : \E c \in Closers \ {d} : Closes(c, Id[h])
    BY DEF LastGateOnlyRaced
  <2>1. ASSUME NEW h \in Gates, GateType[h] = GateType[g] PROVE ~ IsRegistered(Id[h])
    BY <2>1 DEF IsRegistered, OfType, IdsKeepTheirType, TypeInv, TypeOK
  <2>2. g \in Gates /\ \A d \in Closers : sameType[d] \subseteq Gates
    BY AirportAssumption DEF TypeInv, TypeOK
  <2> QED
    BY <2>1, <2>2 DEF LastInv, Accounted
<1> QED
  BY <1>1, <1>2, <1>3, TypeInvariance, PTL DEF Spec
=============================================================================
