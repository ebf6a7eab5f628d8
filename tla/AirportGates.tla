---------------------------- MODULE AirportGates ----------------------------
(***************************************************************************)
(* Passport control of the airport service (services/airport).             *)
(*                                                                         *)
(* POST /arrivals requests, gate worker threads and admin open/close       *)
(* requests share the gate queues; the arrivals table outlives a crash of  *)
(* the process, everything else does not.  One action is one section that  *)
(* the code runs under a gate's lock, one database commit, or one publish. *)
(*                                                                         *)
(* An arrival stands for one POST /arrivals and for the table row and the  *)
(* guest dict it creates.  A gate is a Gate OBJECT: closing and reopening  *)
(* a gate id gives a second object with the same Id.                       *)
(***************************************************************************)
EXTENDS Integers, Sequences, FiniteSets

CONSTANTS
  Arrivals,       \* the POST /arrivals requests
  Surname,        \* Surname[a], already lower-cased
  Minor,          \* the arrivals younger than 12
  Rank,           \* Rank[a]: 0 disability, 1 fast, 2 standard
  EUPassport,     \* the arrivals with an EU passport
  Gates,          \* the gate objects a behaviour can create
  DefaultGates,   \* the ones GateManager.__init__ creates
  Id,             \* Id[g]: the gate id
  GateType,       \* GateType[g]: "EU" or "ALL"
  Closers,        \* the DELETE /admin/gates requests
  MaxRestarts,    \* bound on crashes of the process
  NoGate, NoArrival

ASSUME AirportAssumption ==
  /\ DefaultGates \subseteq Gates
  /\ Minor \subseteq Arrivals /\ EUPassport \subseteq Arrivals
  /\ Rank \in [Arrivals -> 0..2]
  /\ GateType \in [Gates -> {"EU", "ALL"}]
  /\ DOMAIN Id = Gates /\ DOMAIN Surname = Arrivals
  /\ \A g, h \in DefaultGates : Id[g] = Id[h] => g = h
  /\ NoGate \notin Gates /\ NoArrival \notin Arrivals
  /\ MaxRestarts \in Nat

VARIABLES
  reqPc, reqGate,             \* POST /arrivals: its progress, the gate it chose
  stamped,                    \* the arrivals in the order of their queued_at
  dbStatus, dbGate,           \* the arrivals table
  memStatus,                  \* guest["status"] of the shared guest dict
  gates,                      \* GateManager.gates, as a set of objects
  queue, current, active,     \* Gate.queue, .currently_processing, .active
  wpc, bundle, newlyHeld,     \* worker threads: progress and locals of _run
  closePc, closeGate, sameType, displaced, target,    \* close_gate requests
  events,                     \* arrival events posted to Broadcast
  up, boot, restarts          \* the process: running, rows still to rehydrate

reqVars    == <<reqPc, reqGate, stamped>>
dbVars     == <<dbStatus, dbGate>>
gateVars   == <<gates, queue, current, active>>
workerVars == <<wpc, bundle, newlyHeld>>
closeVars  == <<closePc, closeGate, sameType, displaced, target>>
procVars   == <<up, boot, restarts>>
vars == <<reqVars, dbVars, memStatus, gateVars, workerVars, closeVars, events,
          procVars>>

Status == {"none", "queued", "held", "processing", "processed"}
ReqPc == {"new", "chosen", "saved", "done", "failed"}
WorkerPc == {"unborn", "opening", "top", "pick", "markHeld", "start", "work",
             "commit", "publish", "clear", "stopped"}
ClosePc == {"idle", "drain", "requeue", "save", "done"}
Ids == {Id[g] : g \in Gates}

TypeOK ==
  /\ reqPc \in [Arrivals -> ReqPc]
  /\ reqGate \in [Arrivals -> Gates \cup {NoGate}]
  /\ stamped \in Seq(Arrivals)
  /\ dbStatus \in [Arrivals -> Status]
  /\ dbGate \in [Arrivals -> Ids \cup {NoGate}]
  /\ memStatus \in [Arrivals -> Status]
  /\ gates \subseteq Gates
  /\ queue \in [Gates -> Seq(Arrivals)]
  /\ current \in [Gates -> Arrivals \cup {NoArrival}]
  /\ active \in [Gates -> BOOLEAN]
  /\ wpc \in [Gates -> WorkerPc]
  /\ bundle \in [Gates -> SUBSET Arrivals]
  /\ newlyHeld \in [Gates -> SUBSET Arrivals]
  /\ closePc \in [Closers -> ClosePc]
  /\ closeGate \in [Closers -> Gates \cup {NoGate}]
  /\ sameType \in [Closers -> SUBSET Gates]
  /\ displaced \in [Closers -> Seq(Arrivals)]
  /\ target \in [Closers -> Gates \cup {NoGate}]
  /\ events \in [Arrivals -> Nat]
  /\ up \in BOOLEAN
  /\ boot \in Seq(Arrivals)
  /\ restarts \in 0..MaxRestarts

\* What GateManager.__init__ creates; workers run from start_all on.
NewActive == [g \in Gates |-> g \in DefaultGates]
Started == [g \in Gates |-> IF g \in DefaultGates THEN "top" ELSE "unborn"]
Nobody == [g \in Gates |-> {}]
EmptyQueues == [g \in Gates |-> <<>>]
NoneInBooth == [g \in Gates |-> NoArrival]
NoDicts == [a \in Arrivals |-> "none"]

\* An empty table and a started service.
Init ==
  /\ reqPc = [a \in Arrivals |-> "new"]
  /\ reqGate = [a \in Arrivals |-> NoGate]
  /\ stamped = <<>>
  /\ dbStatus = [a \in Arrivals |-> "none"]
  /\ dbGate = [a \in Arrivals |-> NoGate]
  /\ memStatus = NoDicts
  /\ gates = DefaultGates /\ active = NewActive
  /\ queue = EmptyQueues /\ current = NoneInBooth
  /\ wpc = Started /\ bundle = Nobody /\ newlyHeld = Nobody
  /\ closePc = [c \in Closers |-> "idle"]
  /\ closeGate = [c \in Closers |-> NoGate]
  /\ sameType = [c \in Closers |-> {}]
  /\ displaced = [c \in Closers |-> <<>>]
  /\ target = [c \in Closers |-> NoGate]
  /\ events = [a \in Arrivals |-> 0]
  /\ up = TRUE /\ boot = <<>> /\ restarts = 0
-----------------------------------------------------------------------------
(* Gate.enqueue and the removal of a bundle from a queue.                  *)

\* Mutant: ranks ignored, every guest joins at the back.
InsertMutant(q, a) == Append(q, a)

\* Gate.enqueue: a goes before the first guest of a strictly worse rank.  The
\* guest at j keeps its place when nobody up to j has a worse rank.
Insert(q, a) ==
  LET stays(j) == j <= Len(q) /\ \A k \in 1..j : Rank[q[k]] <= Rank[a]
  IN  [j \in 1..(Len(q) + 1) |-> IF stays(j) THEN q[j]
                                 ELSE IF j = 1 \/ stays(j - 1) THEN a
                                 ELSE q[j - 1]]

Members(q) == {q[i] : i \in 1..Len(q)}

\* Mutant: the bundle is not popped.
WithoutMutant(q, S) == q

\* What the pops of _pick_next leave of q: its guests outside S, in order.
Without(q, S) ==
  LET kept(i) == Cardinality({k \in 1..i : q[k] \notin S})
      at(j) == CHOOSE i \in 1..Len(q) :
                 /\ kept(i) >= j
                 /\ \A m \in 1..Len(q) : kept(m) >= j => i <= m
  IN  [j \in 1..kept(Len(q)) |-> q[at(j)]]

\* _find_family: the other guests of the queue with the surname of a.
Relatives(q, a) == {b \in Members(q) \ {a} : Surname[b] = Surname[a]}

\* Mutants: a minor may pass alone; everybody needs an adult relative.
MayPassMutant(q, a) == TRUE
MayPassMutant2(q, a) == Relatives(q, a) \ Minor # {}

\* _pick_next passes over a minor that has no adult relative in this queue.
MayPass(q, a) == a \in Minor => Relatives(q, a) \ Minor # {}
-----------------------------------------------------------------------------
(* POST /arrivals: GateManager.assign_and_enqueue.                         *)

QueueLen(g) == Len(queue[g])

\* _shortest_queue_gate.  Which of several shortest gates min() returns depends
\* on the order of the dict and is left open.
Shortest(S) == {g \in S : \A h \in S : QueueLen(g) <= QueueLen(h)}
OfType(type) == {g \in gates : GateType[g] = type}

\* The gates assign_and_enqueue may choose for a; empty when min() finds no gate.
Choices(a) ==
  IF a \in EUPassport
  THEN {g \in Gates : \E e \in Shortest(OfType("EU")), l \in Shortest(OfType("ALL")) :
                        g = IF QueueLen(l) < QueueLen(e) THEN l ELSE e}
  ELSE Shortest(OfType("ALL"))

\* The queue lengths are read without a lock; queued_at is taken here.
ChooseGate(a) ==
  /\ up /\ reqPc[a] = "new"
  /\ \E g \in Choices(a) : reqGate' = [reqGate EXCEPT ![a] = g]
  /\ reqPc' = [reqPc EXCEPT ![a] = "chosen"]
  /\ stamped' = Append(stamped, a)
  /\ memStatus' = [memStatus EXCEPT ![a] = "queued"]
  /\ UNCHANGED <<dbVars, gateVars, workerVars, closeVars, events, procVars>>

\* min() of no candidates raises: the request is answered with a 500.
ChooseFails(a) ==
  /\ up /\ reqPc[a] = "new" /\ Choices(a) = {}
  /\ reqPc' = [reqPc EXCEPT ![a] = "failed"]
  /\ UNCHANGED <<reqGate, stamped, dbVars, memStatus, gateVars, workerVars,
                 closeVars, events, procVars>>

\* The insert, committed under assignment_lock.
SaveArrival(a) ==
  /\ up /\ reqPc[a] = "chosen"
  /\ dbStatus' = [dbStatus EXCEPT ![a] = "queued"]
  /\ dbGate' = [dbGate EXCEPT ![a] = Id[reqGate[a]]]
  /\ reqPc' = [reqPc EXCEPT ![a] = "saved"]
  /\ UNCHANGED <<reqGate, stamped, memStatus, gateVars, workerVars, closeVars,
                 events, procVars>>

\* The enqueue under the lock of the gate object chosen two steps earlier.
EnqueueArrival(a) ==
  /\ up /\ reqPc[a] = "saved"
  /\ queue' = [queue EXCEPT ![reqGate[a]] = Insert(@, a)]
  /\ reqPc' = [reqPc EXCEPT ![a] = "done"]
  /\ UNCHANGED <<reqGate, stamped, dbVars, memStatus, gates, current, active,
                 workerVars, closeVars, events, procVars>>
-----------------------------------------------------------------------------
(* A gate's worker thread: Gate._run.                                      *)

\* The test of the while loop.
LoopTop(g) ==
  /\ up /\ wpc[g] = "top"
  /\ wpc' = [wpc EXCEPT ![g] = IF active[g] THEN "pick" ELSE "stopped"]
  /\ UNCHANGED <<reqVars, dbVars, memStatus, gateVars, bundle, newlyHeld,
                 closeVars, events, procVars>>

\* Where the worker goes after the lock, or after the held rows are committed.
AfterPick(b) == IF b = {} THEN "top" ELSE "start"

\* The effect of the locked section when the minors `passed` were passed over
\* and `taken` (empty: nobody) was taken, first `first`.
TakeBundle(g, passed, taken, first) ==
  LET held == {b \in passed : memStatus[b] # "held"} IN
  /\ memStatus' = [b \in Arrivals |-> IF b \in taken THEN "processing"
                                      ELSE IF b \in held THEN "held"
                                      ELSE memStatus[b]]
  /\ queue' = [queue EXCEPT ![g] = Without(@, taken)]
  /\ current' = [current EXCEPT ![g] = IF taken = {} THEN @ ELSE first]
  /\ bundle' = [bundle EXCEPT ![g] = taken]
  /\ newlyHeld' = [newlyHeld EXCEPT ![g] = held]
  /\ wpc' = [wpc EXCEPT ![g] = IF held # {} THEN "markHeld" ELSE AfterPick(taken)]
  /\ UNCHANGED <<reqVars, dbVars, gates, active, closeVars, events, procVars>>

\* Mutant: the family is left in the queue.
PickBundleMutant(g) ==
  /\ up /\ wpc[g] = "pick"
  /\ \E i \in 1..QueueLen(g) :
       LET q == queue[g] IN
       /\ MayPass(q, q[i])
       /\ \A j \in 1..(i - 1) : ~ MayPass(q, q[j])
       /\ TakeBundle(g, {q[j] : j \in 1..(i - 1)}, {q[i]}, q[i])

\* _pick_next finds the first guest that may pass; its whole family goes along.
PickBundle(g) ==
  /\ up /\ wpc[g] = "pick"
  /\ \E i \in 1..QueueLen(g) :
       LET q == queue[g] IN
       /\ MayPass(q, q[i])
       /\ \A j \in 1..(i - 1) : ~ MayPass(q, q[j])
       /\ TakeBundle(g, {q[j] : j \in 1..(i - 1)},
                     {q[i]} \cup Relatives(q, q[i]), q[i])

\* Nobody may pass: minors not yet held become held, then the worker sleeps.
PickNobody(g) ==
  /\ up /\ wpc[g] = "pick"
  /\ \A i \in 1..QueueLen(g) : ~ MayPass(queue[g], queue[g][i])
  /\ TakeBundle(g, Members(queue[g]), {}, NoArrival)

\* The rows of a set of arrivals get one status in one commit.
SetRows(S, st) ==
  dbStatus' = [a \in Arrivals |-> IF a \in S THEN st ELSE dbStatus[a]]

MarkHeld(g) ==
  /\ up /\ wpc[g] = "markHeld"
  /\ SetRows(newlyHeld[g], "held")
  /\ wpc' = [wpc EXCEPT ![g] = AfterPick(bundle[g])]
  /\ UNCHANGED <<reqVars, dbGate, memStatus, gateVars, bundle, newlyHeld,
                 closeVars, events, procVars>>

StartBundle(g) ==
  /\ up /\ wpc[g] = "start"
  /\ SetRows(bundle[g], "processing")
  /\ wpc' = [wpc EXCEPT ![g] = "work"]
  /\ UNCHANGED <<reqVars, dbGate, memStatus, gateVars, bundle, newlyHeld,
                 closeVars, events, procVars>>

\* After the processing time the guest dicts are stamped, without a lock.
FinishBundle(g) ==
  /\ up /\ wpc[g] = "work"
  /\ memStatus' = [a \in Arrivals |-> IF a \in bundle[g] THEN "processed"
                                      ELSE memStatus[a]]
  /\ wpc' = [wpc EXCEPT ![g] = "commit"]
  /\ UNCHANGED <<reqVars, dbVars, gateVars, bundle, newlyHeld, closeVars, events,
                 procVars>>

CommitBundle(g) ==
  /\ up /\ wpc[g] = "commit"
  /\ SetRows(bundle[g], "processed")
  /\ wpc' = [wpc EXCEPT ![g] = "publish"]
  /\ UNCHANGED <<reqVars, dbGate, memStatus, gateVars, bundle, newlyHeld,
                 closeVars, events, procVars>>

\* One publish_event of the loop over the bundle; the order within a family is
\* left open.  events counts the posts, whether or not Broadcast is up.
PublishOne(g) ==
  /\ up /\ wpc[g] = "publish"
  /\ \E a \in bundle[g] :
       /\ events' = [events EXCEPT ![a] = @ + 1]
       /\ bundle' = [bundle EXCEPT ![g] = @ \ {a}]
       /\ wpc' = [wpc EXCEPT ![g] = IF bundle[g] = {a} THEN "clear" ELSE @]
  /\ UNCHANGED <<reqVars, dbVars, memStatus, gateVars, newlyHeld, closeVars,
                 procVars>>

ClearCurrent(g) ==
  /\ up /\ wpc[g] = "clear"
  /\ current' = [current EXCEPT ![g] = NoArrival]
  /\ wpc' = [wpc EXCEPT ![g] = "top"]
  /\ UNCHANGED <<reqVars, dbVars, memStatus, gates, queue, active, bundle,
                 newlyHeld, closeVars, events, procVars>>
-----------------------------------------------------------------------------
(* POST /admin/gates and DELETE /admin/gates/<id>.                         *)

IsRegistered(id) == \E g \in gates : Id[g] = id

\* open_gate: the duplicate test ...
OpenCheck(g) ==
  /\ up /\ wpc[g] = "unborn" /\ ~ IsRegistered(Id[g])
  /\ wpc' = [wpc EXCEPT ![g] = "opening"]
  /\ UNCHANGED <<reqVars, dbVars, memStatus, gateVars, bundle, newlyHeld,
                 closeVars, events, procVars>>

\* ... and the registration, which replaces an object that another open_gate of
\* the same id registered meanwhile.  gates # {}: values()[0] must exist.
OpenRegister(g) ==
  /\ up /\ wpc[g] = "opening" /\ gates # {}
  /\ gates' = {h \in gates : Id[h] # Id[g]} \cup {g}
  /\ active' = [active EXCEPT ![g] = TRUE]
  /\ wpc' = [wpc EXCEPT ![g] = "top"]
  /\ UNCHANGED <<reqVars, dbVars, memStatus, queue, current, bundle, newlyHeld,
                 closeVars, events, procVars>>

\* The gates that can take over the guests of g.  Mutant: g is one of them.
SameTypeMutant(g) == {h \in gates : GateType[h] = GateType[g]}
SameType(g) == {h \in gates : GateType[h] = GateType[g] /\ Id[h] # Id[g]}

\* close_gate passes its two error returns and deactivates the gate.
CloseBegin(c) ==
  /\ up /\ closePc[c] = "idle"
  /\ \E g \in gates :
       /\ SameType(g) # {}
       /\ closeGate' = [closeGate EXCEPT ![c] = g]
       /\ sameType' = [sameType EXCEPT ![c] = SameType(g)]
       /\ active' = [active EXCEPT ![g] = FALSE]
  /\ closePc' = [closePc EXCEPT ![c] = "drain"]
  /\ UNCHANGED <<reqVars, dbVars, memStatus, gates, queue, current, workerVars,
                 displaced, target, events, procVars>>

\* The locked section of close_gate: `guests` are displaced, the guest in the
\* booth counts as queued again and `left` stays in the queue.
DrainTo(c, guests, left) ==
  LET g == closeGate[c] IN
  /\ up /\ closePc[c] = "drain"
  /\ displaced' = [displaced EXCEPT ![c] = guests]
  /\ queue' = [queue EXCEPT ![g] = left]
  /\ memStatus' = [a \in Arrivals |-> IF a = current[g] THEN "queued"
                                      ELSE memStatus[a]]
  /\ current' = [current EXCEPT ![g] = NoArrival]
  /\ closePc' = [closePc EXCEPT ![c] = "requeue"]
  /\ UNCHANGED <<reqVars, dbVars, gates, active, workerVars, closeGate, sameType,
                 target, events, procVars>>

InBooth(g) == IF current[g] = NoArrival THEN <<>> ELSE <<current[g]>>

\* Mutant: the queue is not cleared.
CloseDrainMutant(c) ==
  DrainTo(c, InBooth(closeGate[c]) \o queue[closeGate[c]], queue[closeGate[c]])

\* Under the gate's lock: empty the queue and take the guest in the booth along.
CloseDrain(c) == DrainTo(c, InBooth(closeGate[c]) \o queue[closeGate[c]], <<>>)

\* The next displaced guest joins the shortest of the gates listed at the start.
CloseRequeue(c) ==
  /\ up /\ closePc[c] = "requeue" /\ displaced[c] # <<>>
  /\ \E t \in Shortest(sameType[c]) :
       /\ queue' = [queue EXCEPT ![t] = Insert(@, Head(displaced[c]))]
       /\ target' = [target EXCEPT ![c] = t]
  /\ closePc' = [closePc EXCEPT ![c] = "save"]
  /\ UNCHANGED <<reqVars, dbVars, memStatus, gates, current, active, workerVars,
                 closeGate, sameType, displaced, events, procVars>>

\* The commit of its new gate; the row becomes "queued" whatever it was.
CloseSave(c) ==
  /\ up /\ closePc[c] = "save"
  /\ SetRows({Head(displaced[c])}, "queued")
  /\ dbGate' = [dbGate EXCEPT ![Head(displaced[c])] = Id[target[c]]]
  /\ displaced' = [displaced EXCEPT ![c] = Tail(@)]
  /\ closePc' = [closePc EXCEPT ![c] = "requeue"]
  /\ UNCHANGED <<reqVars, memStatus, gateVars, workerVars, closeGate, sameType,
                 target, events, procVars>>

\* del self.gates[gate_id]: whatever object has the id (or a KeyError).
CloseDelete(c) ==
  /\ up /\ closePc[c] = "requeue" /\ displaced[c] = <<>>
  /\ gates' = {h \in gates : Id[h] # Id[closeGate[c]]}
  /\ closePc' = [closePc EXCEPT ![c] = "done"]
  /\ UNCHANGED <<reqVars, dbVars, memStatus, queue, current, active, workerVars,
                 closeGate, sameType, displaced, target, events, procVars>>
-----------------------------------------------------------------------------
(* Crash and restart of the process: GateManager.__init__ again.           *)

\* Mutants: held rows are not rehydrated; processed rows are.
UnfinishedMutant == {a \in Arrivals : dbStatus[a] \in {"queued", "processing"}}
UnfinishedMutant2 == {a \in Arrivals : dbStatus[a] # "none"}

\* The rows _rehydrate_from_db selects.
Unfinished == {a \in Arrivals : dbStatus[a] \in {"queued", "processing", "held"}}

\* Everything in memory is lost, requests in progress included; the new process
\* reads the unfinished rows in the order of queued_at.
Crash ==
  /\ restarts < MaxRestarts
  /\ restarts' = restarts + 1
  /\ up' = FALSE
  /\ boot' = Without(stamped, Arrivals \ Unfinished)
  /\ memStatus' = NoDicts
  /\ gates' = DefaultGates /\ active' = NewActive
  /\ queue' = EmptyQueues /\ current' = NoneInBooth
  /\ wpc' = [g \in Gates |-> "unborn"] /\ bundle' = Nobody /\ newlyHeld' = Nobody
  /\ reqPc' = [a \in Arrivals |-> IF reqPc[a] \in {"chosen", "saved"} THEN "failed"
                                  ELSE reqPc[a]]
  /\ closePc' = [c \in Closers |-> IF closePc[c] = "idle" THEN "idle" ELSE "done"]
  /\ closeGate' = [c \in Closers |-> NoGate] /\ sameType' = [c \in Closers |-> {}]
  /\ displaced' = [c \in Closers |-> <<>>]
  /\ UNCHANGED <<reqGate, stamped, dbVars, target, events>>

HasDefaultGate(a) == \E g \in DefaultGates : Id[g] = dbGate[a]

\* The loop of _rehydrate_from_db: a row whose gate was opened at run time has
\* no gate object and is skipped; a "processing" row goes to the front.
RehydrateRow ==
  /\ ~ up /\ boot # <<>>
  /\ boot' = Tail(boot)
  /\ LET a == Head(boot) IN
       \/ /\ ~ HasDefaultGate(a)
          /\ UNCHANGED <<memStatus, queue>>
       \/ \E g \in DefaultGates :
            /\ Id[g] = dbGate[a]
            /\ IF dbStatus[a] = "processing"
               THEN /\ memStatus' = [memStatus EXCEPT ![a] = "queued"]
                    /\ queue' = [queue EXCEPT ![g] = <<a>> \o @]
               ELSE /\ memStatus' = [memStatus EXCEPT ![a] = dbStatus[a]]
                    /\ queue' = [queue EXCEPT ![g] = Insert(@, a)]
  /\ UNCHANGED <<reqVars, dbVars, gates, current, active, workerVars, closeVars,
                 events, up, restarts>>

\* Mutant: the commit resets every row of a known gate.
RehydrateCommitMutant ==
  /\ ~ up /\ boot = <<>>
  /\ SetRows({a \in Arrivals : HasDefaultGate(a)}, "queued")
  /\ wpc' = Started /\ up' = TRUE
  /\ UNCHANGED <<reqVars, dbGate, memStatus, gateVars, bundle, newlyHeld,
                 closeVars, events, boot, restarts>>

\* The one commit after the loop, and start_all.
RehydrateCommit ==
  /\ ~ up /\ boot = <<>>
  /\ SetRows({a \in Arrivals : dbStatus[a] = "processing" /\ HasDefaultGate(a)},
             "queued")
  /\ wpc' = Started /\ up' = TRUE
  /\ UNCHANGED <<reqVars, dbGate, memStatus, gateVars, bundle, newlyHeld,
                 closeVars, events, boot, restarts>>
-----------------------------------------------------------------------------
Request(a) == ChooseGate(a) \/ ChooseFails(a) \/ SaveArrival(a) \/ EnqueueArrival(a)

Worker(g) == \/ LoopTop(g) \/ PickBundle(g) \/ PickNobody(g) \/ MarkHeld(g)
             \/ StartBundle(g) \/ FinishBundle(g) \/ CommitBundle(g)
             \/ PublishOne(g) \/ ClearCurrent(g)

Open(g) == OpenCheck(g) \/ OpenRegister(g)

Close(c) == \/ CloseBegin(c) \/ CloseDrain(c) \/ CloseRequeue(c) \/ CloseSave(c)
            \/ CloseDelete(c)

Rehydrate == RehydrateRow \/ RehydrateCommit

Next == \/ \E a \in Arrivals : Request(a)
        \/ \E g \in Gates : Worker(g) \/ Open(g)
        \/ \E c \in Closers : Close(c)
        \/ Crash \/ Rehydrate

Spec == Init /\ [][Next]_vars

\* Threads that have started keep running: workers, requests past their first
\* step, and the boot sequence.  Nobody has to send a request.
Fairness ==
  /\ \A g \in Gates : WF_vars(Worker(g))
  /\ \A a \in Arrivals : WF_vars(SaveArrival(a) \/ EnqueueArrival(a))
  /\ \A c \in Closers : WF_vars(closePc[c] # "idle" /\ Close(c))
  /\ WF_vars(Rehydrate)

FairSpec == Spec /\ Fairness
-----------------------------------------------------------------------------
(* Correctness properties.                                                 *)

Places(a) == UNION {{<<g, i>> : i \in {j \in 1..QueueLen(g) : queue[g][j] = a}} :
                    g \in Gates}

\* No guest stands in two queues, or twice in one: a guest dict is enqueued by
\* its request, by rehydration or by a close, and never by two of them.
QueuedOnce == \A a \in Arrivals : Cardinality(Places(a)) <= 1

InHand(g) == wpc[g] \in {"markHeld", "start", "work", "commit"}

\* A restart has no gate for a row whose gate was opened at run time.
Stranded(a) == restarts > 0 /\ ~ HasDefaultGate(a)

\* No accepted arrival is forgotten while the service runs: it was processed, or
\* some gate has it in its queue or bundle, or the request that saved it is about
\* to enqueue it, or a close is moving it.  Only a restart forgets, and only the
\* rows of gates that were opened at run time.
NobodyForgotten ==
  up => \A a \in {b \in Arrivals : dbStatus[b] # "none"} :
          \/ dbStatus[a] = "processed" \/ events[a] > 0 \/ Stranded(a)
          \/ \E g \in Gates : a \in Members(queue[g]) \cup bundle[g]
          \/ reqPc[a] = "saved"
          \/ \E c \in Closers : a \in Members(displaced[c])

\* A bundle in hand never contains a minor without an adult of its family, even
\* when the adult's own gate closes or the process restarts in between.
MinorsEscorted ==
  \A g \in Gates : InHand(g) =>
    \A m \in bundle[g] \cap Minor :
      \E a \in bundle[g] \ Minor : Surname[a] = Surname[m]

\* A guest in hand is not standing in any queue as well: it cannot be processed
\* a second time.
InHandNotQueued ==
  \A g, h \in Gates : InHand(g) => bundle[g] \cap Members(queue[h]) = {}

\* Broadcast hears of an arrival at most once, and only when the table already
\* says that the guest was processed.
OneEventAfterCommit ==
  \A a \in Arrivals : /\ events[a] <= 1
                      /\ events[a] > 0 => dbStatus[a] = "processed"

\* Each queue is ordered by rank: disability, fast, standard.
RankOrder ==
  \A g \in Gates : \A i, j \in 1..QueueLen(g) :
    i < j => Rank[queue[g][i]] <= Rank[queue[g][j]]

\* Close request c closes, or has closed, gate id i.
Closes(c, i) == closeGate[c] # NoGate /\ Id[closeGate[c]] = i

\* "Cannot close the last gate": a type that the airport started with is left without
\* a gate only by closes that raced in a circle, each one counting on gates all of
\* which others closed.
LastGateOnlyRaced ==
  up => \A g \in DefaultGates : OfType(GateType[g]) = {} =>
          /\ \E d \in Closers : Closes(d, Id[g])
          /\ \A d \in Closers :
               closeGate[d] # NoGate /\ GateType[closeGate[d]] = GateType[g] =>
                 /\ sameType[d] # {}
                 /\ \A h \in sameType[d] : \E c \in Closers \ {d} : Closes(c, Id[h])

\* The life of a row as the Arrival model documents it: a processed guest stays
\* processed (held is a waiting state of the same guest).
Lifecycle ==
  [][\A a \in Arrivals : dbStatus[a] = "processed" => dbStatus'[a] = "processed"]_vars

\* Every adult that was accepted is processed sooner or later, across restarts,
\* unless a restart has no gate for it.
AdultsProcessed ==
  \A a \in Arrivals \ Minor :
    reqPc[a] = "done" ~> dbStatus[a] = "processed" \/ Stranded(a)

\* A minor that waits in one queue with an adult of its family is processed
\* sooner or later: the adult never leaves without it.
FamiliesProcessed ==
  \A m \in Minor :
    (\E g \in Gates : m \in Members(queue[g]) /\ Relatives(queue[g], m) \ Minor # {})
      ~> dbStatus[m] = "processed" \/ Stranded(m)
=============================================================================
