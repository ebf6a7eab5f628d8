------------------------------ MODULE MapProofs ------------------------------
(***************************************************************************)
(* Proof that the copies of a session agree however it came about, and     *)
(* that the burger quest has the one dead end of a skipped trial, for any  *)
(* guests, panels, quiz and sequence, and whatever the trials pay as long  *)
(* as one of them pays for a burger; and that the traffic generator of the *)
(* map page keeps track of the reservations it makes, for any loops,       *)
(* guests and seeds.                                                       *)
(***************************************************************************)
EXTENDS IslandMap, TrafficGenerator, FiniteSetTheorems, TLAPS

\* What the store sets together is coherent, and a reload would restore it.
LEMMA SetsAgree ==
  ASSUME \/ \E g : SelectGuest(g)
         \/ \E p : LoginAdmin(p)
         \/ ClearSession
  PROVE  /\ guest' = session'.guest
         /\ isAdmin' <=> session'.role = "admin"
         /\ Migrate(stored').session = session'
<1>1. ASSUME NEW g, SelectGuest(g)
      PROVE  /\ guest' = session'.guest
             /\ isAdmin' <=> session'.role = "admin"
             /\ Migrate(stored').session = session'
  BY <1>1 DEF SelectGuest, GuestSession, Persist, Migrate
<1>2. ASSUME NEW p, LoginAdmin(p)
      PROVE  /\ guest' = session'.guest
             /\ isAdmin' <=> session'.role = "admin"
             /\ Migrate(stored').session = session'
  BY <1>2 DEF LoginAdmin, AdminSession, Persist, Migrate
<1>3. CASE ClearSession
  BY <1>3 DEF ClearSession, NoSession, Persist, Migrate
<1> QED BY <1>1, <1>2, <1>3

\* Whatever is in the storage, what is restored from it is coherent.
LEMMA MigrateAgrees ==
  ASSUME NEW s
  PROVE  /\ Migrate(s).guest = Migrate(s).session.guest
         /\ Migrate(s).isAdmin <=> Migrate(s).session.role = "admin"
<1>1. CASE s.session.role # "none"
  BY <1>1 DEF Migrate
<1>2. CASE s.session.role = "none" /\ s.guest # NoGuest
  BY <1>2 DEF Migrate, GuestSession
<1>3. CASE s.session.role = "none" /\ s.guest = NoGuest
  BY <1>3 DEF Migrate, NoSession
<1> QED BY <1>1, <1>2, <1>3

\* A selected guest and a logged in admin are sessions.
LEMMA RealSessions ==
  /\ \A g : GuestSession(g) # NoSession
  /\ \A p : AdminSession(p) # NoSession
<1>1. NoSession.role = "none"
  BY DEF NoSession
<1>2. ASSUME NEW x PROVE GuestSession(x).role = "guest" /\ AdminSession(x).role = "admin"
  BY DEF GuestSession, AdminSession
<1> QED BY <1>1, <1>2

\* Every change of the store or of the page keeps the copies in agreement.
LEMMA SessionStep ==
  ASSUME SessionCoherent, [Next]_vars PROVE SessionCoherent'
<1>1. ASSUME UNCHANGED <<sessionVars, path>> PROVE SessionCoherent'
  BY <1>1 DEF SessionCoherent, sessionVars, OnMap, Migrate
<1>2. ASSUME NEW g, HandleSelectGuest(g) PROVE SessionCoherent'
  <2>1. SelectGuest(g) /\ session' # NoSession
    BY <1>2, RealSessions DEF HandleSelectGuest, SelectGuest
  <2> QED BY <2>1, SetsAgree DEF SessionCoherent, OnMap, Migrate
<1>3. ASSUME NEW p, HandleAdminLogin(p) PROVE SessionCoherent'
  <2>1. LoginAdmin(p) /\ session' # NoSession
    BY <1>3, RealSessions DEF HandleAdminLogin, LoginAdmin
  <2> QED BY <2>1, SetsAgree DEF SessionCoherent, OnMap, Migrate
<1>4. CASE HandleSwitchSession
  <2>1. ClearSession /\ path' = "/"
    BY <1>4 DEF HandleSwitchSession, Goto
  <2> QED BY <2>1, SetsAgree DEF SessionCoherent, OnMap, Migrate
<1>5. ASSUME NEW p \in {"/", "/map", "/quit"}, Navigate(p) PROVE SessionCoherent'
  <2>1. path' = RequireSession(p, session)
    BY <1>5 DEF Navigate, Goto
  <2>2. CASE p = "/quit"
    <3>1. ClearSession /\ path' = "/quit"
      BY <1>5, <2>1, <2>2 DEF Navigate, RequireSession
    <3> QED BY <3>1, SetsAgree DEF SessionCoherent, OnMap, Migrate
  <2>3. CASE p # "/quit"
    <3>1. UNCHANGED sessionVars
      BY <1>5, <2>3 DEF Navigate
    <3>2. path' = "/map" => session # NoSession
      BY <2>1, <2>3 DEF RequireSession
    <3> QED BY <3>1, <3>2 DEF SessionCoherent, sessionVars, OnMap, Migrate
  <2> QED BY <2>2, <2>3
<1>6. CASE Reload
  <2>1. /\ session' = Migrate(stored).session /\ guest' = Migrate(stored).guest
        /\ isAdmin' = Migrate(stored).isAdmin /\ stored' = stored
        /\ path' = RequireSession(path, session')
    BY <1>6 DEF Reload, Goto
  <2>2. path' = "/map" => session' # NoSession
    BY <2>1 DEF RequireSession
  <2>3. Migrate(stored') = Migrate(stored)
    BY <2>1
  <2>4. guest' = session'.guest /\ (isAdmin' <=> session'.role = "admin")
    BY <2>1, MigrateAgrees
  <2> QED BY <2>1, <2>2, <2>3, <2>4 DEF SessionCoherent, OnMap, Migrate
<1>7. CASE ChangePage
  BY <1>2, <1>3, <1>4, <1>5, <1>6, <1>7 DEF ChangePage
<1>8. CASE StayOnPage
  BY <1>1, <1>8 DEF StayOnPage, Flip, ClickZone, ClosePanel
<1>9. CASE UNCHANGED <<sessionVars, pageVars>>
  BY <1>1, <1>9 DEF pageVars
<1> QED BY <1>7, <1>8, <1>9 DEF Next, vars

\* session-store.ts: the session, the guest and the admin flag of the store
\* agree with each other and with what a reload would restore, and the map is
\* never shown without a session, for any guests and passcodes.
THEOREM SessionsAgree == Spec => []SessionCoherent
<1>1. Init => SessionCoherent
  <2> SUFFICES ASSUME Init PROVE SessionCoherent
    OBVIOUS
  <2>1. /\ session = Migrate(stored).session /\ guest = Migrate(stored).guest
        /\ isAdmin = Migrate(stored).isAdmin
        /\ path \in {"/", RequireSession("/map", session)}
    BY DEF Init, SessionInit
  <2>2. path = "/map" => session # NoSession
    BY <2>1 DEF RequireSession
  <2> QED BY <2>1, <2>2, MigrateAgrees DEF SessionCoherent, OnMap
<1>2. SessionCoherent /\ [Next]_vars => SessionCoherent'
  BY SessionStep
<1> QED BY <1>1, <1>2, PTL DEF Spec

-----------------------------------------------------------------------------
Phases == {"idle_at_crab", "burger_received", "ready_to_buy", "failed_task",
           "at_octopus"} \cup TimedPhases

\* The oracle is only open at the octopus, a trial passed there pays for the
\* burger, and the meows stay until it is bought.
QuestInv ==
  /\ phase \in Phases
  /\ meows \in Nat
  /\ lastTrialPassed \in BOOLEAN \cup {Unset}
  /\ open \in [Panels -> BOOLEAN]
  /\ open["quest"] => phase = "at_octopus"
  /\ phase = "at_octopus" /\ ~open["quest"] => lastTrialPassed = Unset
  /\ phase \in {"needs_meows", "walking_to_octopus"} => lastTrialPassed = Unset
  /\ phase = "at_octopus" /\ lastTrialPassed = TRUE => meows >= BURGER_PRICE_MEOWS
  /\ phase \in {"earned_meows", "walking_to_crab", "ready_to_buy"}
       => meows >= BURGER_PRICE_MEOWS

\* Every component of the quest starts over when the page does.
LEMMA FreshQuest ==
  /\ QuestInit => QuestInv
  /\ QuestReset => QuestInv'
<1>1. QuestStart.phase = "idle_at_crab" /\ QuestStart.meows = 0
      /\ QuestStart.lastTrialPassed = Unset /\ QuestStart.open = [p \in Panels |-> FALSE]
  BY DEF QuestStart
<1>2. QuestInit => QuestInv
  BY <1>1, QuestAssumption DEF QuestInit, QuestInv, Phases
<1>3. ASSUME QuestReset PROVE QuestInv'
  <2>1. phase' = "idle_at_crab" /\ meows' = 0 /\ lastTrialPassed' = Unset
        /\ open' = [p \in Panels |-> FALSE]
    BY <1>1, <1>3 DEF QuestReset
  <2> QED BY <2>1, QuestAssumption DEF QuestInv, Phases
<1> QED BY <1>2, <1>3

\* A trial of the quest's own panel is reported while Kiki is at the octopus.
LEMMA TrialStep ==
  ASSUME QuestInv, NEW p \in Panels, open[p], NEW passed \in BOOLEAN,
         HandleTrialResult(p, passed), open' = open
  PROVE  QuestInv'
<1>1. CASE p = "quest"
  <2>1. phase' = phase /\ phase = "at_octopus" /\ lastTrialPassed' = passed
        /\ meows' = meows + RewardForOracleResult(passed)
    BY <1>1 DEF QuestInv, HandleTrialResult
  <2>2. meows' \in Nat /\ (passed => meows' >= BURGER_PRICE_MEOWS)
    BY <2>1, QuestAssumption DEF QuestInv, RewardForOracleResult
  <2> QED BY <1>1, <2>1, <2>2 DEF QuestInv
<1>2. CASE p # "quest"
  BY <1>2 DEF QuestInv, HandleTrialResult, questVars
<1> QED BY <1>1, <1>2

\* The buttons of one panel.
LEMMA OracleKeeps ==
  ASSUME QuestInv, NEW p \in Panels, OracleStep(p)
  PROVE  QuestInv'
<1>1. ASSUME UNCHANGED <<questVars, open>> PROVE QuestInv'
  BY <1>1 DEF QuestInv, questVars
<1>2. CASE FinishBlueTrial(p)
  <2>1. EvaluateQuiz(answers[p]) \in BOOLEAN
    BY DEF EvaluateQuiz
  <2> QED BY <1>2, <2>1, TrialStep DEF FinishBlueTrial
<1>3. ASSUME NEW color, ChooseColor(p, color) PROVE QuestInv'
  <2> DEFINE nextInput == Append(sequenceInput[p], color)
  <2>1. CASE Len(nextInput) # Len(RED_TRIAL_SEQUENCE)
    BY <1>3, <2>1, <1>1 DEF ChooseColor
  <2>2. CASE Len(nextInput) = Len(RED_TRIAL_SEQUENCE)
    <3>1. EvaluateSequence(nextInput) \in BOOLEAN
      BY DEF EvaluateSequence
    <3>2. HandleTrialResult(p, EvaluateSequence(nextInput)) /\ open[p] /\ open' = open
      BY <1>3, <2>2 DEF ChooseColor
    <3> QED BY <3>1, <3>2, TrialStep
  <2> QED BY <2>1, <2>2
<1>4. CASE ClosePanelOf(p)
  <2>1. open' = [open EXCEPT ![p] = FALSE] /\ UNCHANGED <<meows, lastTrialPassed>> /\ open[p]
    BY <1>4 DEF ClosePanelOf
  <2>2. CASE p = "quest"
    <3>1. phase = "at_octopus" /\ HandleOracleClose /\ ~open'["quest"]
      BY <1>4, <2>1, <2>2 DEF QuestInv, ClosePanelOf
    <3>2. CASE lastTrialPassed = Unset
      <4>1. phase' = phase
        BY <3>1, <3>2, QuestAssumption DEF HandleOracleClose
      <4> QED BY <4>1, <3>1, <3>2, <2>1, QuestAssumption DEF QuestInv
    <3>3. CASE lastTrialPassed = TRUE
      <4>1. phase' = "earned_meows"
        BY <3>1, <3>3, QuestAssumption DEF HandleOracleClose
      <4> QED BY <4>1, <3>1, <3>3, <2>1 DEF QuestInv, Phases, TimedPhases
    <3>4. CASE lastTrialPassed = FALSE
      <4>1. phase' = "failed_task"
        BY <3>1, <3>4, QuestAssumption DEF HandleOracleClose
      <4> QED BY <4>1, <3>1, <3>4, <2>1 DEF QuestInv, Phases, TimedPhases
    <3> QED BY <3>2, <3>3, <3>4 DEF QuestInv
  <2>3. CASE p # "quest"
    <3>1. phase' = phase /\ open'["quest"] = open["quest"] /\ open' \in [Panels -> BOOLEAN]
      BY <1>4, <2>1, <2>3, QuestAssumption DEF QuestInv, ClosePanelOf
    <3> QED BY <2>1, <3>1 DEF QuestInv
  <2> QED BY <2>2, <2>3
<1>5. CASE \/ \E pill \in {"blue", "red"} : ChoosePill(p, pill)
           \/ \E q \in Questions, i \in Options : Answer(p, q, i)
           \/ ResetSequence(p)
           \/ Back(p)
  BY <1>5, <1>1 DEF ChoosePill, Answer, ResetSequence, Back
<1> QED BY <1>2, <1>3, <1>4, <1>5 DEF OracleStep

\* Every step keeps the quest's invariant.
LEMMA QuestInductive ==
  ASSUME QuestInv, [Next]_vars PROVE QuestInv'
<1>1. ASSUME UNCHANGED <<phase, meows, lastTrialPassed, open>> PROVE QuestInv'
  BY <1>1 DEF QuestInv
<1>2. CASE RequestBurger
  BY <1>2, QuestAssumption
     DEF QuestInv, RequestBurger, CanRequestBurger, panelVars, Phases, TimedPhases
<1>3. CASE BuyBurger
  <2>1. phase = "ready_to_buy" /\ phase' = "burger_received" /\ UNCHANGED <<lastTrialPassed, open>>
        /\ meows' = meows - BURGER_PRICE_MEOWS /\ meows >= BURGER_PRICE_MEOWS
    BY <1>3 DEF BuyBurger, CanPayForBurger, SpendBurgerMeows, CanBuyBurger, panelVars
  <2>2. meows' \in Nat
    BY <2>1, QuestAssumption DEF QuestInv
  <2> QED BY <2>1, <2>2 DEF QuestInv, Phases, TimedPhases
<1>4. CASE RetryTask
  <2>1. phase' = "at_octopus" /\ lastTrialPassed' = Unset /\ meows' = meows
        /\ open' = [open EXCEPT !["quest"] = TRUE]
    BY <1>4 DEF RetryTask
  <2>2. open' \in [Panels -> BOOLEAN] /\ open'["quest"]
    BY <2>1, QuestAssumption DEF QuestInv
  <2> QED BY <2>1, <2>2, QuestAssumption DEF QuestInv, Phases
<1>5. CASE PhaseTimeout
  <2>1. UNCHANGED <<meows, lastTrialPassed>> /\ phase \in TimedPhases
        /\ open' = [open EXCEPT !["quest"] = phase = "walking_to_octopus" \/ @]
    BY <1>5 DEF PhaseTimeout
  <2>2. ~open["quest"]
    BY <2>1 DEF QuestInv, TimedPhases
  <2>3. open' \in [Panels -> BOOLEAN] /\ (open'["quest"] <=> phase = "walking_to_octopus")
    BY <2>1, <2>2, QuestAssumption DEF QuestInv
  <2>4. CASE phase = "needs_meows"
    BY <1>5, <2>1, <2>3, <2>4 DEF PhaseTimeout, QuestInv, Phases, TimedPhases
  <2>5. CASE phase = "walking_to_octopus"
    BY <1>5, <2>1, <2>3, <2>5, QuestAssumption DEF PhaseTimeout, QuestInv, Phases, TimedPhases
  <2>6. CASE phase = "earned_meows"
    BY <1>5, <2>1, <2>3, <2>6 DEF PhaseTimeout, QuestInv, Phases, TimedPhases
  <2>7. CASE phase = "walking_to_crab"
    BY <1>5, <2>1, <2>3, <2>7 DEF PhaseTimeout, QuestInv, Phases, TimedPhases
  <2> QED BY <2>1, <2>4, <2>5, <2>6, <2>7 DEF TimedPhases
<1>6. CASE ConfettiTimeout
  BY <1>6, <1>1 DEF ConfettiTimeout, panelVars
<1>7. CASE OpenMarkerPanel
  <2>1. open' = [p \in Panels |-> open[p] \/ p # "quest"] /\ UNCHANGED questVars
    BY <1>7 DEF OpenMarkerPanel
  <2>2. open' \in [Panels -> BOOLEAN] /\ open'["quest"] = open["quest"]
    BY <2>1, QuestAssumption DEF QuestInv
  <2> QED BY <2>1, <2>2 DEF QuestInv, questVars
<1>8. CASE QuestStep
  BY <1>2, <1>3, <1>4, <1>5, <1>6, <1>7, <1>8, OracleKeeps DEF QuestStep
<1>9. CASE QuestReset
  BY <1>9, FreshQuest
<1>10. CASE UNCHANGED <<questVars, panelVars>>
  BY <1>10, <1>1 DEF questVars, panelVars
<1> QED BY <1>8, <1>9, <1>10 DEF Next, vars

\* kiki-burger-quest.tsx: in every state of the quest a timeout is pending,
\* the oracle is open or a button is there, except when the oracle was closed
\* before any trial; whatever a trial pays, as long as it pays for a burger.
THEOREM QuestGoesOn == Spec => []OnlyDeadEndIsSkipping
<1>1. Init => QuestInv
  BY FreshQuest DEF Init
<1>2. QuestInv /\ [Next]_vars => QuestInv'
  BY QuestInductive
<1>3. QuestInv => OnlyDeadEndIsSkipping
  BY QuestAssumption
     DEF QuestInv, OnlyDeadEndIsSkipping, Phases, CanRequestBurger, CanRetryTask,
         CanPayForBurger, CanBuyBurger
<1> QED BY <1>1, <1>2, <1>3, PTL DEF Spec

-----------------------------------------------------------------------------
(* The traffic generator.                                                  *)

\* What the generator and the services keep.
GuestState == [stage : {"new", "arrived", "hotel_booked", "beach_booked"}, res : Nat]
Requested == {"arrive", "arrived", "reserve", "recover", "reserved", "activities", "book",
              "booked", "leave", "unbook", "unbooked", "cancel", "left"}
GuestStep == [loop : Loops, mount : Nat, guest : SyntheticGuests, was : GuestState,
              at : Requested, ok : BOOLEAN, id : Nat]
Reservation == [guest : SyntheticGuests, status : {"confirmed", "cancelled"}, mount : Nat]

\* Type correctness of the generator and of what it sees of the services.
TrafficTypeOK ==
  /\ states \in [SyntheticGuests -> GuestState]
  /\ steps \in SUBSET GuestStep
  /\ reservations \in Seq(Reservation)
  /\ mount \in Nat

\* Neither steps nor reservations come from a visit that has not begun.
NoneAhead ==
  /\ \A s \in steps : s.mount <= mount
  /\ \A i \in DOMAIN reservations : reservations[i].mount <= mount

\* The handler of a stage sends the requests of that stage.
AtStage(s) ==
  /\ s.at \in {"arrive", "arrived"} => s.was.stage = "new"
  /\ s.at \in {"reserve", "recover", "reserved"} => s.was.stage = "arrived"
  /\ s.at \in {"activities", "book", "booked"} => s.was.stage = "hotel_booked"
  /\ s.at \in {"leave", "unbook", "unbooked", "cancel", "left"} => s.was.stage = "beach_booked"

\* The hotel knows reservation i as one of g.
Holds(g, i) == i \in DOMAIN reservations /\ reservations[i].guest = g

\* A guest's state: a reservation from the hotel's stage on, none before.
GuestOK(g, state) ==
  /\ state.stage \in {"new", "arrived"} => state.res = 0
  /\ state.stage \in {"hotel_booked", "beach_booked"} => Holds(g, state.res)

\* Guests that a visit seeds in the hotel, without a reservation.
Residents == {g \in SyntheticGuests : SeedStage[g] \in {"hotel_booked", "beach_booked"}}
Seeded == [stage |-> "hotel_booked", res |-> 0]

\* A seeded resident never gets anywhere: the beach does not know it, every booking fails.
ResidentsStay ==
  /\ \A g \in Residents : states[g] = Seeded /\ g \notin visitors
  /\ \A s \in steps : s.guest \in Residents => /\ s.was = Seeded
                                               /\ s.at = "booked" => ~ s.ok
  /\ \A i \in DOMAIN reservations : reservations[i].guest \notin Residents

\* Any other guest is in the hotel or on the beach with a reservation only.
OthersBook ==
  /\ \A g \in SyntheticGuests \ Residents : GuestOK(g, states[g])
  /\ \A s \in steps : s.guest \notin Residents =>
       /\ GuestOK(s.guest, s.was)
       /\ s.at = "reserved" /\ s.ok => Holds(s.guest, s.id)

\* The confirmed reservations that this visit has made for g.
OfVisit(g) == {i \in Confirmed(g) : reservations[i].mount = mount}

\* What a step of this visit knows of its guest's reservations.
StepKnows(s) ==
  /\ s.was = states[s.guest]
  /\ s.at \in {"arrive", "arrived", "reserve", "activities", "book", "booked", "leave", "unbook",
               "unbooked", "cancel"} => OfVisit(s.guest) \subseteq {s.was.res}
  /\ s.at = "reserved" => OfVisit(s.guest) \subseteq (IF s.ok THEN {s.id} ELSE {})
  /\ s.at = "left" => OfVisit(s.guest) = {}

\* The steps of this visit for g.
Mine(g) == {s \in steps : s.guest = g /\ s.mount = mount}

\* A guest driven by one step at a time whose requests were not lost twice: its step or, between
\* steps, its state knows its reservations.
Tracked(g) ==
  /\ \A s, t \in Mine(g) : s = t
  /\ \A s \in Mine(g) : StepKnows(s)
  /\ Mine(g) = {} => OfVisit(g) \subseteq {states[g].res}

\* The inductive invariant.
TrafficInv ==
  /\ TrafficTypeOK /\ NoneAhead /\ (\A s \in steps : AtStage(s))
  /\ ResidentsStay /\ OthersBook
  /\ \A g \in SyntheticGuests \ (overlapped \cup dropped) : Tracked(g)

-----------------------------------------------------------------------------
\* A request's answer takes step s on to t.
Follows(s, t) ==
  /\ t \in GuestStep /\ t.guest = s.guest /\ t.mount = s.mount /\ t.was = s.was
  /\ steps' = (steps \ {s}) \cup {t}
  /\ states' = states
  /\ \/ s.at = "arrive" /\ t.at = "arrived"
     \/ s.at = "reserve" /\ t.at = "recover"
     \/ s.at \in {"reserve", "recover"} /\ t.at = "reserved" /\ (t.ok => Holds(s.guest, t.id)')
     \/ s.at = "activities" /\ t.at \in {"book", "booked"} /\ ~ t.ok
     \/ s.at = "book" /\ t.at = "booked" /\ (t.ok => s.guest \in visitors)
     \/ s.at = "leave" /\ t.at = "cancel"
     \/ s.at = "unbook" /\ t.at = "unbooked"
     \/ s.at = "cancel" /\ t.at = "left"

\* The state a step ends with.
NextState(s, next) ==
  \/ s.at = "arrived" /\ next = [stage |-> "arrived", res |-> 0]
  \/ s.at = "reserved" /\ s.ok /\ next = [stage |-> "hotel_booked", res |-> s.id]
  \/ s.at = "booked" /\ s.ok /\ next = [stage |-> "beach_booked", res |-> s.was.res]
  \/ s.at = "unbooked" /\ next = [stage |-> "hotel_booked", res |-> s.was.res]
  \/ s.at = "left" /\ next = [stage |-> "new", res |-> 0]

\* Step s ends, with or without a new state for its guest.
Ends(s) ==
  /\ steps' = steps \ {s}
  /\ UNCHANGED reservations
  /\ \/ states' = states /\ (s.mount = mount => s.at \in {"arrived", "reserved", "booked"} /\ ~ s.ok)
     \/ /\ s.mount = mount
        /\ \E next \in GuestState :
             NextState(s, next) /\ states' = [states EXCEPT ![s.guest] = next]

\* Reservations are made by step s and never removed; only their status changes.
Booked(s) ==
  /\ reservations' \in Seq(Reservation)
  /\ DOMAIN reservations \subseteq DOMAIN reservations'
  /\ \A i \in DOMAIN reservations :
       /\ reservations'[i].guest = reservations[i].guest
       /\ reservations'[i].mount = reservations[i].mount
       /\ reservations'[i].status = "confirmed" => reservations[i].status = "confirmed"
  /\ \A i \in DOMAIN reservations' \ DOMAIN reservations :
       /\ s.at = "reserve"
       /\ reservations'[i].guest = s.guest /\ reservations'[i].mount = s.mount

\* The step that s becomes by GoOn.
Successor(s, t, at, ok, id) ==
  /\ t.guest = s.guest /\ t.mount = s.mount /\ t.was = s.was
  /\ t.at = at /\ t.ok = ok /\ t.id = id
  /\ steps' = (steps \ {s}) \cup {t}

\* How a step goes on.
LEMMA GoesOn ==
  ASSUME TrafficTypeOK, NEW s \in steps, NEW at, NEW ok, NEW id, GoOn(s, at, ok, id),
         at \in Requested, ok \in BOOLEAN, id \in Nat
  PROVE  \E t \in GuestStep : Successor(s, t, at, ok, id)
<1> DEFINE t == [s EXCEPT !.at = at, !.ok = ok, !.id = id]
<1>1. s \in GuestStep
  BY DEF TrafficTypeOK
<1>2. t \in GuestStep /\ t.guest = s.guest /\ t.mount = s.mount /\ t.was = s.was
      /\ t.at = at /\ t.ok = ok /\ t.id = id
  BY <1>1 DEF GuestStep
<1>3. steps' = (steps \ {s}) \cup {t}
  BY DEF GoOn
<1> HIDE DEF t
<1> QED
  BY <1>2, <1>3 DEF Successor

\* The hotel's table after POST /reservations ...
LEMMA Reserves ==
  ASSUME TrafficTypeOK, NEW s \in steps, NEW n, n = Len(reservations) + 1, s.at = "reserve",
         reservations' = Append(reservations, [guest |-> s.guest, status |-> "confirmed",
                                               mount |-> s.mount])
  PROVE  Booked(s) /\ Holds(s.guest, n)' /\ n \in Nat
         /\ DOMAIN reservations' = DOMAIN reservations \cup {n}
<1> DEFINE r == [guest |-> s.guest, status |-> "confirmed", mount |-> s.mount]
<1>1. s.guest \in SyntheticGuests /\ s.mount \in Nat
  BY DEF TrafficTypeOK, GuestStep
<1>2. r \in Reservation /\ r.guest = s.guest /\ r.mount = s.mount
  BY <1>1 DEF Reservation
<1>3. reservations \in Seq(Reservation) /\ reservations' = Append(reservations, r)
  BY DEF TrafficTypeOK
<1> HIDE DEF r
<1>4. /\ reservations' \in Seq(Reservation) /\ Len(reservations) \in Nat
      /\ DOMAIN reservations = 1..Len(reservations)
      /\ DOMAIN reservations' = 1..n
      /\ reservations'[n] = r
      /\ \A i \in 1..Len(reservations) : reservations'[i] = reservations[i]
  BY <1>2, <1>3
<1>5. /\ DOMAIN reservations' = DOMAIN reservations \cup {n}
      /\ n \in Nat
  BY <1>4
<1>6. Booked(s)
  <2>1. \A i \in DOMAIN reservations : reservations'[i] = reservations[i]
    BY <1>4
  <2>2. \A i \in DOMAIN reservations' \ DOMAIN reservations : reservations'[i] = r
    BY <1>4, <1>5
  <2>3. DOMAIN reservations \subseteq DOMAIN reservations'
    BY <1>5
  <2> QED
    BY <1>2, <1>4, <2>1, <2>2, <2>3 DEF Booked
<1>7. Holds(s.guest, n)'
  BY <1>2, <1>4, <1>5 DEF Holds
<1> QED
  BY <1>5, <1>6, <1>7

\* ... and after DELETE /reservations/:id.
LEMMA Cancels ==
  ASSUME TrafficTypeOK, NEW s \in steps, s.was.res \in DOMAIN reservations,
         reservations' = [reservations EXCEPT ![s.was.res].status = "cancelled"]
  PROVE  Booked(s) /\ DOMAIN reservations' = DOMAIN reservations
         /\ reservations'[s.was.res].status = "cancelled"
<1> DEFINE n == s.was.res
<1>1. /\ reservations \in Seq(Reservation) /\ DOMAIN reservations = 1..Len(reservations)
      /\ Len(reservations) \in Nat
      /\ n \in 1..Len(reservations) /\ reservations[n] \in Reservation
  BY DEF TrafficTypeOK
<1> DEFINE r == [reservations[n] EXCEPT !.status = "cancelled"]
<1>2. r \in Reservation /\ r.guest = reservations[n].guest /\ r.mount = reservations[n].mount
      /\ r.status = "cancelled"
  BY <1>1 DEF Reservation
<1>3. reservations' = [reservations EXCEPT ![n] = r]
  OBVIOUS
<1> HIDE DEF r, n
<1>4. /\ reservations' \in Seq(Reservation) /\ DOMAIN reservations' = DOMAIN reservations
      /\ reservations'[n] = r
      /\ \A i \in DOMAIN reservations : i # n => reservations'[i] = reservations[i]
  BY <1>1, <1>2, <1>3
<1>5. Booked(s)
  BY <1>2, <1>4 DEF Booked
<1> QED
  BY <1>2, <1>4, <1>5 DEF n

\* Whatever leaves the table alone.
LEMMA TableKept ==
  ASSUME TrafficTypeOK, NEW s \in steps, UNCHANGED reservations
  PROVE  Booked(s)
  BY DEF TrafficTypeOK, Booked

\* Every step under way follows its itinerary.
LEMMA ContinueShape ==
  ASSUME TrafficTypeOK, NEW s \in steps, Continue(s)
  PROVE  /\ mount' = mount /\ overlapped' = overlapped /\ dropped \subseteq dropped'
         /\ visitors' = visitors /\ Booked(s)
         /\ Ends(s) \/ \E t \in GuestStep : Follows(s, t)
<1>0. s \in GuestStep /\ s.was \in GuestState /\ s.id \in Nat /\ s.ok \in BOOLEAN
  BY DEF TrafficTypeOK, GuestStep
<1> DEFINE Goal == /\ mount' = mount /\ overlapped' = overlapped /\ dropped \subseteq dropped'
                   /\ visitors' = visitors /\ Booked(s)
                   /\ Ends(s) \/ \E t \in GuestStep : Follows(s, t)
<1>1. CASE PostArrival(s)
  <2>1. s.at = "arrive" /\ \E ok \in BOOLEAN : GoOn(s, "arrived", ok, 0)
    BY <1>1 DEF PostArrival
  <2>2. PICK ok \in BOOLEAN : GoOn(s, "arrived", ok, 0)
    BY <2>1
  <2>3. \E t \in GuestStep : Successor(s, t, "arrived", ok, 0)
    BY <2>2, GoesOn, Zenon DEF Requested
  <2>4. \E t \in GuestStep : Follows(s, t)
    BY <1>1, <2>1, <2>3 DEF PostArrival, Rest, Follows, Successor
  <2> QED
    BY <1>1, <2>4, TableKept DEF PostArrival, Rest
<1>2. ASSUME NEW next \in GuestState, NextState(s, next), Finish(s, next) PROVE Goal
  <2>1. Booked(s)
    BY <1>2, TableKept DEF Finish, services
  <2>2. Ends(s)
    BY <1>2 DEF Finish, services, Ends, NextState
  <2> QED
    BY <1>2, <2>1, <2>2 DEF Finish, services, ghosts
<1>3. ASSUME s.at \in {"arrived", "reserved", "booked"}, ~ s.ok, GiveUp(s) PROVE Goal
  <2>1. Booked(s)
    BY <1>3, TableKept DEF GiveUp, services
  <2> QED
    BY <1>3, <2>1 DEF GiveUp, services, ghosts, Ends
<1>4. CASE Arrived(s)
  <2>1. [stage |-> "arrived", res |-> 0] \in GuestState
    BY DEF GuestState
  <2> QED
    BY <1>2, <1>3, <1>4, <2>1 DEF Arrived, NextState
<1>5. CASE PostReservation(s)
  <2>0. s.at = "reserve" /\ UNCHANGED <<states, mount, overlapped, dropped, visitors>>
    BY <1>5 DEF PostReservation, Rest
  <2>1. CASE /\ GoOn(s, "reserved", TRUE, Len(reservations) + 1)
             /\ reservations' = Append(reservations, [guest |-> s.guest, status |-> "confirmed",
                                                      mount |-> s.mount])
    <3>1. PICK n : n = Len(reservations) + 1
      OBVIOUS
    <3>2. Booked(s) /\ Holds(s.guest, n)' /\ n \in Nat
      BY <2>0, <2>1, <3>1, Reserves
    <3>3. GoOn(s, "reserved", TRUE, n)
      BY <2>1, <3>1
    <3>4. PICK t \in GuestStep : Successor(s, t, "reserved", TRUE, n)
      BY <3>2, <3>3, GoesOn, Zenon DEF Requested
    <3>5. Follows(s, t)
      BY <2>0, <3>2, <3>4 DEF Follows, Successor
    <3> QED
      BY <2>0, <3>2, <3>5
  <2>2. CASE PostReservationFails(s)
    <3>1. PICK t \in GuestStep : Successor(s, t, "recover", FALSE, 0)
      BY <2>2, GoesOn, Zenon DEF Requested, PostReservationFails
    <3>2. Booked(s)
      BY <1>5, <2>0, Reserves, TableKept DEF PostReservation
    <3>3. Follows(s, t)
      BY <2>0, <3>1 DEF Follows, Successor
    <3> QED
      BY <2>0, <3>2, <3>3
  <2> QED
    BY <1>5, <2>1, <2>2 DEF PostReservation
<1>6. CASE GetReservation(s)
  <2>0. /\ s.at = "recover" /\ UNCHANGED <<states, mount, overlapped, visitors, reservations>>
        /\ dropped \subseteq dropped'
    BY <1>6 DEF GetReservation, Rest, services
  <2>1. \/ \E i \in Confirmed(s.guest) : GoOn(s, "reserved", TRUE, i)
        \/ GoOn(s, "reserved", FALSE, 0)
    BY <1>6 DEF GetReservation
  <2>2. ASSUME NEW i \in Confirmed(s.guest), GoOn(s, "reserved", TRUE, i)
        PROVE  \E t \in GuestStep : Follows(s, t)
    <3>1. i \in Nat /\ Holds(s.guest, i)'
      BY <2>0, <2>2 DEF Confirmed, Holds, TrafficTypeOK
    <3>2. PICK t \in GuestStep : Successor(s, t, "reserved", TRUE, i)
      BY <2>2, <3>1, GoesOn, Zenon DEF Requested
    <3> QED
      BY <2>0, <3>1, <3>2 DEF Follows, Successor
  <2>3. ASSUME GoOn(s, "reserved", FALSE, 0)
        PROVE  \E t \in GuestStep : Follows(s, t)
    <3>1. PICK t \in GuestStep : Successor(s, t, "reserved", FALSE, 0)
      BY <2>3, GoesOn, Zenon DEF Requested
    <3> QED
      BY <2>0, <3>1 DEF Follows, Successor
  <2> QED
    BY <2>0, <2>1, <2>2, <2>3, TableKept
<1>7. CASE Reserved(s)
  <2>1. [stage |-> "hotel_booked", res |-> s.id] \in GuestState
    BY <1>0 DEF GuestState
  <2> QED
    BY <1>2, <1>3, <1>7, <2>1 DEF Reserved, NextState
<1>8. CASE GetActivities(s)
  <2>1. s.at = "activities" /\ \E at \in {"book", "booked"} : GoOn(s, at, FALSE, 0)
    BY <1>8 DEF GetActivities
  <2>2. PICK at \in {"book", "booked"} : GoOn(s, at, FALSE, 0)
    BY <2>1
  <2>3. at \in Requested
    BY DEF Requested
  <2>4. PICK t \in GuestStep : Successor(s, t, at, FALSE, 0)
    BY <2>2, <2>3, GoesOn, Zenon
  <2>5. Follows(s, t)
    BY <1>8, <2>1, <2>4 DEF GetActivities, Rest, Follows, Successor
  <2> QED
    BY <1>8, <2>5, TableKept DEF GetActivities, Rest, services
<1>9. CASE PostBooking(s)
  <2>1. \E ok \in BOOLEAN : GoOn(s, "booked", ok, 0) /\ (ok => s.guest \in visitors)
    BY <1>9 DEF PostBooking, BookingFails
  <2>2. PICK ok \in BOOLEAN : GoOn(s, "booked", ok, 0) /\ (ok => s.guest \in visitors)
    BY <2>1
  <2>3. PICK t \in GuestStep : Successor(s, t, "booked", ok, 0)
    BY <2>2, GoesOn, Zenon DEF Requested
  <2>4. Follows(s, t)
    BY <1>9, <2>2, <2>3 DEF PostBooking, Rest, Follows, Successor
  <2> QED
    BY <1>9, <2>4, TableKept DEF PostBooking, Rest
<1>10. CASE ActivityBooked(s)
  <2>1. /\ [s.was EXCEPT !.stage = "beach_booked"] \in GuestState
        /\ [s.was EXCEPT !.stage = "beach_booked"] = [stage |-> "beach_booked", res |-> s.was.res]
    BY <1>0 DEF GuestState
  <2> QED
    BY <1>2, <1>3, <1>10, <2>1 DEF ActivityBooked, NextState
<1>11. CASE PostUnbook(s)
  <2>1. PICK at \in {"cancel", "unbooked"} : /\ GoOn(s, at, TRUE, 0)
                                             /\ \/ s.at = "leave" /\ at = "cancel"
                                                \/ s.at = "unbook" /\ at = "unbooked"
    BY <1>11 DEF PostUnbook
  <2>2. at \in Requested
    BY DEF Requested
  <2>3. PICK t \in GuestStep : Successor(s, t, at, TRUE, 0)
    BY <2>1, <2>2, GoesOn, Zenon
  <2>4. Follows(s, t)
    BY <1>11, <2>1, <2>3 DEF PostUnbook, Rest, Follows, Successor
  <2> QED
    BY <1>11, <2>4, TableKept DEF PostUnbook, Rest
<1>12. CASE Unbooked(s)
  <2>1. /\ [s.was EXCEPT !.stage = "hotel_booked"] \in GuestState
        /\ [s.was EXCEPT !.stage = "hotel_booked"] = [stage |-> "hotel_booked", res |-> s.was.res]
    BY <1>0 DEF GuestState
  <2> QED
    BY <1>2, <1>12, <2>1 DEF Unbooked, NextState
<1>13. CASE DeleteReservation(s)
  <2>0. /\ s.at = "cancel" /\ UNCHANGED <<states, mount, overlapped, visitors>>
        /\ dropped \subseteq dropped' /\ GoOn(s, "left", TRUE, 0)
    BY <1>13 DEF DeleteReservation, Rest
  <2>1. Booked(s)
    BY <1>13, Cancels, TableKept DEF DeleteReservation
  <2>2. PICK t \in GuestStep : Successor(s, t, "left", TRUE, 0)
    BY <2>0, GoesOn, Zenon DEF Requested
  <2>3. Follows(s, t)
    BY <2>0, <2>2 DEF Follows, Successor
  <2> QED
    BY <2>0, <2>1, <2>3
<1>14. CASE Left(s)
  <2>1. [stage |-> "new", res |-> 0] \in GuestState
    BY DEF GuestState
  <2> QED
    BY <1>2, <1>14, <2>1 DEF Left, NextState
<1> QED
  BY <1>1, <1>4, <1>5, <1>6, <1>7, <1>8, <1>9, <1>10, <1>11, <1>12, <1>13, <1>14 DEF Continue

-----------------------------------------------------------------------------
\* Where a step goes on or ends, its guest and its visit's numbers stay in their ranges.
LEMMA ContinueTypes ==
  ASSUME TrafficInv, NEW s \in steps, Continue(s)
  PROVE  (TrafficTypeOK /\ NoneAhead /\ \A x \in steps : AtStage(x))'
<1>1. /\ mount' = mount /\ Booked(s)
      /\ Ends(s) \/ \E t \in GuestStep : Follows(s, t)
  BY ContinueShape DEF TrafficInv
<1>2. /\ TrafficTypeOK /\ NoneAhead /\ (\A x \in steps : AtStage(x)) /\ s \in GuestStep
      /\ s.mount <= mount
  BY DEF TrafficInv, TrafficTypeOK, NoneAhead
<1>3. states' \in [SyntheticGuests -> GuestState]
  BY <1>1, <1>2 DEF Ends, Follows, TrafficTypeOK
<1>4. \A x \in steps' : x \in GuestStep /\ x.mount <= mount /\ AtStage(x)
  <2>1. CASE Ends(s)
    BY <1>2, <2>1 DEF Ends, TrafficTypeOK, NoneAhead
  <2>2. ASSUME NEW t \in GuestStep, Follows(s, t)
        PROVE  \A x \in steps' : x \in GuestStep /\ x.mount <= mount /\ AtStage(x)
    <3>1. AtStage(t)
      <4>1. AtStage(s)
        BY <1>2
      <4> QED
        BY <2>2, <4>1 DEF Follows, AtStage
    <3> QED
      BY <1>2, <2>2, <3>1 DEF Follows, TrafficTypeOK, NoneAhead
  <2> QED
    BY <1>1, <2>1, <2>2
<1>5. \A i \in DOMAIN reservations' : reservations'[i].mount <= mount
  <2>1. \A i \in DOMAIN reservations : reservations'[i].mount <= mount
    BY <1>1, <1>2 DEF Booked, NoneAhead
  <2>2. \A i \in DOMAIN reservations' \ DOMAIN reservations : reservations'[i].mount <= mount
    BY <1>1, <1>2 DEF Booked
  <2> QED
    BY <2>1, <2>2
<1>6. TrafficTypeOK'
  BY <1>1, <1>2, <1>3, <1>4 DEF TrafficTypeOK, Booked
<1>7. NoneAhead'
  BY <1>1, <1>4, <1>5 DEF NoneAhead
<1>8. (\A x \in steps : AtStage(x))'
  BY <1>4 DEF AtStage
<1> QED
  BY <1>6, <1>7, <1>8

\* A reservation that is known stays known.
LEMMA StillHolds ==
  ASSUME NEW s, Booked(s), NEW g, NEW i, Holds(g, i)
  PROVE  Holds(g, i)'
  BY DEF Booked, Holds

\* A state that is right stays right.
LEMMA StillOK ==
  ASSUME NEW s, Booked(s), NEW g, NEW state, GuestOK(g, state)
  PROVE  GuestOK(g, state)'
  BY StillHolds DEF GuestOK

\* A seeded resident stays where it is.
LEMMA ContinueResidents ==
  ASSUME TrafficInv, NEW s \in steps, Continue(s)
  PROVE  ResidentsStay'
<1>1. /\ mount' = mount /\ visitors' = visitors /\ Booked(s)
      /\ Ends(s) \/ \E t \in GuestStep : Follows(s, t)
  BY ContinueShape DEF TrafficInv
<1>2. ResidentsStay /\ AtStage(s) /\ states \in [SyntheticGuests -> GuestState] /\ s \in GuestStep
  BY DEF TrafficInv, TrafficTypeOK
<1>3. s.guest \in Residents => /\ s.was = Seeded
                               /\ s.at \in {"activities", "book", "booked"} /\ s.guest \notin visitors
                               /\ s.at = "booked" => ~ s.ok
  <2>1. s.guest \in Residents => s.was.stage = "hotel_booked" /\ s.at \in Requested
    BY <1>2 DEF ResidentsStay, Seeded, GuestStep
  <2> QED
    BY <1>2, <2>1 DEF ResidentsStay, AtStage, Requested
<1>4. \A g \in Residents : states'[g] = Seeded
  <2>1. ASSUME NEW g \in Residents PROVE states'[g] = states[g]
    BY <1>1, <1>2, <1>3 DEF Ends, NextState, Follows, Residents
  <2> QED
    BY <1>2, <2>1 DEF ResidentsStay
<1>5. \A x \in steps' : x.guest \in Residents => /\ x.was = Seeded
                                                 /\ x.at = "booked" => ~ x.ok
  <2>1. CASE Ends(s)
    BY <1>2, <2>1 DEF Ends, ResidentsStay
  <2>2. ASSUME NEW t \in GuestStep, Follows(s, t)
        PROVE  t.guest \in Residents => /\ t.was = Seeded
                                        /\ t.at = "booked" => ~ t.ok
    BY <1>3, <2>2 DEF Follows
  <2> QED
    BY <1>1, <1>2, <2>1, <2>2 DEF Follows, ResidentsStay
<1>6. \A i \in DOMAIN reservations' : reservations'[i].guest \notin Residents
  <2>1. \A i \in DOMAIN reservations : reservations'[i].guest \notin Residents
    BY <1>1, <1>2 DEF Booked, ResidentsStay
  <2>2. \A i \in DOMAIN reservations' \ DOMAIN reservations : reservations'[i].guest \notin Residents
    BY <1>1, <1>3 DEF Booked
  <2> QED
    BY <2>1, <2>2
<1> QED
  BY <1>1, <1>2, <1>4, <1>5, <1>6 DEF ResidentsStay, Residents, Seeded

\* Any other guest goes to the hotel and to the beach with a reservation.
LEMMA ContinueOthers ==
  ASSUME TrafficInv, NEW s \in steps, Continue(s)
  PROVE  OthersBook'
<1>1. /\ mount' = mount /\ Booked(s)
      /\ Ends(s) \/ \E t \in GuestStep : Follows(s, t)
  BY ContinueShape DEF TrafficInv
<1>2. OthersBook /\ AtStage(s) /\ states \in [SyntheticGuests -> GuestState] /\ s \in GuestStep
  BY DEF TrafficInv, TrafficTypeOK
<1>3. ASSUME NEW g \in SyntheticGuests \ Residents PROVE GuestOK(g, states[g])'
  <2>1. CASE states'[g] = states[g]
    <3>1. GuestOK(g, states[g])
      BY <1>2 DEF OthersBook
    <3>2. PICK state : state = states[g]
      OBVIOUS
    <3>3. GuestOK(g, state)'
      BY <1>1, <3>1, <3>2, StillOK
    <3> QED
      BY <2>1, <3>2, <3>3 DEF GuestOK, Holds
  <2>2. CASE states'[g] # states[g]
    <3>1. g = s.guest /\ reservations' = reservations
      BY <1>1, <1>2, <2>2 DEF Ends, Follows
    <3>2. PICK next \in GuestState : NextState(s, next) /\ states'[g] = next
      BY <1>1, <1>2, <2>2, <3>1 DEF Ends, Follows
    <3>3. GuestOK(s.guest, s.was) /\ (s.at = "reserved" /\ s.ok => Holds(s.guest, s.id))
      BY <1>3, <3>1 , <1>2 DEF OthersBook
    <3>4. GuestOK(g, next)
      BY <1>2, <3>1, <3>2, <3>3 DEF NextState, GuestOK, AtStage
    <3> QED
      BY <3>1, <3>2, <3>4 DEF GuestOK, Holds
  <2> QED
    BY <2>1, <2>2
<1>4. ASSUME NEW x \in steps', x.guest \notin Residents
      PROVE  GuestOK(x.guest, x.was)' /\ (x.at = "reserved" /\ x.ok => Holds(x.guest, x.id)')
  <2>1. CASE x \in steps
    <3>1. GuestOK(x.guest, x.was) /\ (x.at = "reserved" /\ x.ok => Holds(x.guest, x.id))
      BY <1>2, <1>4, <2>1 DEF OthersBook
    <3> QED
      BY <1>1, <3>1, StillOK, StillHolds
  <2>2. CASE x \notin steps
    <3>1. Follows(s, x)
      BY <1>1, <1>4, <2>2 DEF Ends, Follows
    <3>2. GuestOK(x.guest, x.was)
      BY <1>2, <1>4, <3>1 DEF OthersBook, Follows
    <3>3. GuestOK(x.guest, x.was)'
      BY <1>1, <3>2, StillOK
    <3> QED
      BY <3>1, <3>3 DEF Follows, Holds
  <2> QED
    BY <2>1, <2>2
<1> QED
  BY <1>3, <1>4 DEF OthersBook, Residents, GuestOK, Holds

-----------------------------------------------------------------------------
\* Asking again found no other reservation.
LEMMA OneAtMost ==
  ASSUME TrafficTypeOK, NEW g, ~ (Cardinality(Confirmed(g)) > 1),
         NEW i \in Confirmed(g), NEW j \in Confirmed(g)
  PROVE  i = j
<1> SUFFICES ASSUME i # j PROVE FALSE
  OBVIOUS
<1>1. Len(reservations) \in Nat /\ Confirmed(g) \in SUBSET (1..Len(reservations))
  BY DEF TrafficTypeOK, Confirmed
<1>2. IsFiniteSet(1..Len(reservations))
  <2>1. 1 \in Int /\ Len(reservations) \in Int
    BY <1>1
  <2> QED
    BY <2>1, FS_Interval, Zenon
<1>3. IsFiniteSet(Confirmed(g))
  BY <1>1, <1>2, FS_Subset, Zenon
<1>4. IsFiniteSet({i}) /\ Cardinality({i}) = 1
  BY FS_Singleton, Zenon
<1>5. IsFiniteSet({i} \cup {j}) /\ Cardinality({i} \cup {j}) = Cardinality({i}) + 1
  <2>1. j \notin {i}
    OBVIOUS
  <2> QED
    BY <1>4, <2>1, FS_AddElement, Zenon
<1>6. {i} \cup {j} \in SUBSET Confirmed(g)
  OBVIOUS
<1>7. Cardinality({i} \cup {j}) <= Cardinality(Confirmed(g))
  BY <1>3, <1>6, FS_Subset, Zenon
<1>8. Cardinality(Confirmed(g)) \in Nat
  BY <1>3, FS_CardinalityType, Zenon
<1> QED
  BY <1>4, <1>5, <1>7, <1>8

\* Nobody makes a reservation for g on this visit but a step of this visit for g.
LEMMA OfVisitKept ==
  ASSUME NEW g, NEW s \in steps, Booked(s), mount' = mount, s.at = "reserve" => s \notin Mine(g)
  PROVE  OfVisit(g)' \subseteq OfVisit(g)
<1> SUFFICES ASSUME NEW i \in OfVisit(g)' PROVE i \in OfVisit(g)
  OBVIOUS
<1>1. /\ i \in DOMAIN reservations' /\ reservations'[i].guest = g
      /\ reservations'[i].status = "confirmed" /\ reservations'[i].mount = mount
  BY DEF OfVisit, Confirmed
<1>2. i \in DOMAIN reservations
  BY <1>1 DEF Booked, Mine
<1> QED
  BY <1>1, <1>2 DEF Booked, OfVisit, Confirmed

\* The step of a tracked guest goes on, ...
LEMMA MoveTracked ==
  ASSUME NEW g, Tracked(g), NEW s \in Mine(g), NEW t, steps' = (steps \ {s}) \cup {t},
         t.guest = s.guest, t.mount = s.mount, mount' = mount, StepKnows(t)'
  PROVE  Tracked(g)'
<1>1. Mine(g) = {s}
  BY DEF Tracked
<1>2. Mine(g)' = {t}
  BY <1>1 DEF Mine
<1> QED
  BY <1>2 DEF Tracked

\* ... or ends ...
LEMMA EndTracked ==
  ASSUME NEW g, Tracked(g), NEW s \in Mine(g), steps' = steps \ {s}, mount' = mount,
         OfVisit(g)' \subseteq {states'[g].res}
  PROVE  Tracked(g)'
<1>1. Mine(g) = {s}
  BY DEF Tracked
<1>2. Mine(g)' = {}
  BY <1>1 DEF Mine
<1> QED
  BY <1>2 DEF Tracked

\* ... or is not touched.
LEMMA StillTracked ==
  ASSUME NEW g, Tracked(g), Mine(g)' = Mine(g), states'[g] = states[g],
         OfVisit(g)' \subseteq OfVisit(g)
  PROVE  Tracked(g)'
<1>1. ASSUME NEW x \in Mine(g)' PROVE StepKnows(x)'
  <2>1. StepKnows(x) /\ x.guest = g
    BY <1>1 DEF Tracked, Mine
  <2> QED
    BY <2>1 DEF StepKnows
<1>2. \A x, y \in Mine(g)' : x = y
  BY DEF Tracked
<1>3. Mine(g)' = {} => OfVisit(g)' \subseteq {states'[g].res}
  BY DEF Tracked
<1> QED
  BY <1>1, <1>2, <1>3 DEF Tracked

\* A tracked guest's own step.
LEMMA OwnStep ==
  ASSUME TrafficInv, NEW g \in SyntheticGuests, Tracked(g), NEW s \in Mine(g), Continue(s),
         g \notin dropped'
  PROVE  Tracked(g)'
<1>0. /\ s \in steps /\ s \in GuestStep /\ s.guest = g /\ s.mount = mount /\ TrafficTypeOK
      /\ StepKnows(s) /\ AtStage(s) /\ s.was = states[g]
      /\ states \in [SyntheticGuests -> GuestState]
  BY DEF Mine, TrafficInv, TrafficTypeOK, Tracked, StepKnows
<1>1. /\ mount' = mount /\ Booked(s)
      /\ Ends(s) \/ \E t \in GuestStep : Follows(s, t)
  BY <1>0, ContinueShape
<1>2. s.at # "reserve" => OfVisit(g)' \subseteq OfVisit(g)
  BY <1>0, <1>1, OfVisitKept
<1>3. s.at \in {"arrived", "reserve"} => s.was.res = 0 /\ OfVisit(g) = {}
  <2>1. ASSUME s.at \in {"arrived", "reserve"} PROVE s.was.res = 0
    <3>1. s.was.stage \in {"new", "arrived"}
      BY <1>0, <2>1 DEF AtStage
    <3>2. s.guest \notin Residents
      BY <1>0, <3>1 DEF TrafficInv, ResidentsStay, Seeded
    <3> QED
      BY <1>0, <3>1, <3>2 DEF TrafficInv, OthersBook, GuestOK
  <2>2. 0 \notin OfVisit(g)
    BY <1>0 DEF OfVisit, Confirmed, TrafficTypeOK
  <2> QED
    BY <1>0, <2>1, <2>2 DEF StepKnows
<1>4. CASE Ends(s)
  <2>1. s.at # "reserve" /\ OfVisit(g)' \subseteq OfVisit(g)
    BY <1>0, <1>2, <1>4 DEF Ends, NextState
  <2>2. CASE states' = states /\ s.at \in {"arrived", "reserved", "booked"} /\ ~ s.ok
    <3>1. OfVisit(g) \subseteq {s.was.res}
      BY <1>0, <2>2 DEF StepKnows
    <3> QED
      BY <1>0, <1>1, <1>4, <2>1, <2>2, <3>1, EndTracked DEF Ends
  <2>3. ASSUME NEW next \in GuestState, NextState(s, next), states' = [states EXCEPT ![g] = next]
        PROVE  Tracked(g)'
    <3>1. states'[g] = next
      BY <1>0, <2>3
    <3>2. OfVisit(g) \subseteq {next.res}
      BY <1>0, <1>3, <2>3 DEF NextState, StepKnows
    <3> QED
      BY <1>0, <1>1, <1>4, <2>1, <3>1, <3>2, EndTracked DEF Ends
  <2> QED
    BY <1>0, <1>4, <2>2, <2>3 DEF Ends
<1>5. CASE s.at = "reserve"
  <2>1. PostReservation(s)
    BY <1>5 DEF Continue, PostArrival, Arrived, GetReservation, Reserved, GetActivities, PostBooking,
       ActivityBooked, PostUnbook, Unbooked, DeleteReservation, Left
  <2>2. states' = states /\ OfVisit(g) = {}
    BY <1>3, <1>5, <2>1 DEF PostReservation, Rest
  <2>3. CASE PostReservationFails(s)
    <3>1. PICK t \in GuestStep : Successor(s, t, "recover", FALSE, 0)
      BY <1>0, <2>3, GoesOn, Zenon DEF Requested, PostReservationFails
    <3>2. StepKnows(t)'
      BY <1>0, <2>2, <3>1 DEF Successor, StepKnows
    <3> QED
      BY <1>0, <1>1, <3>1, <3>2, MoveTracked DEF Successor
  <2>4. CASE /\ GoOn(s, "reserved", TRUE, Len(reservations) + 1)
             /\ reservations' = Append(reservations, [guest |-> s.guest, status |-> "confirmed",
                                                      mount |-> s.mount])
    <3>1. PICK n : n = Len(reservations) + 1
      OBVIOUS
    <3>2. DOMAIN reservations' = DOMAIN reservations \cup {n} /\ n \in Nat
      BY <1>0, <1>5, <2>4, <3>1, Reserves
    <3>3. GoOn(s, "reserved", TRUE, n)
      BY <2>4, <3>1
    <3>4. PICK t \in GuestStep : Successor(s, t, "reserved", TRUE, n)
      BY <1>0, <3>2, <3>3, GoesOn, Zenon DEF Requested
    <3>5. OfVisit(g)' \subseteq {n}
      <4> SUFFICES ASSUME NEW i \in OfVisit(g)', i # n PROVE FALSE
        OBVIOUS
      <4>1. i \in DOMAIN reservations
        BY <3>2 DEF OfVisit, Confirmed
      <4>2. i \in OfVisit(g)
        BY <1>1, <4>1 DEF OfVisit, Confirmed, Booked
      <4> QED
        BY <2>2, <4>2
    <3>6. StepKnows(t)'
      BY <1>0, <2>2, <3>4, <3>5 DEF Successor, StepKnows
    <3> QED
      BY <1>0, <1>1, <3>4, <3>6, MoveTracked DEF Successor
  <2> QED
    BY <2>1, <2>3, <2>4 DEF PostReservation
<1>6. CASE s.at = "recover"
  <2>1. GetReservation(s)
    BY <1>6 DEF Continue, PostArrival, Arrived, PostReservation, Reserved, GetActivities, PostBooking,
       ActivityBooked, PostUnbook, Unbooked, DeleteReservation, Left
  <2>2. states' = states /\ OfVisit(g)' \subseteq Confirmed(g)
    BY <1>2, <1>6, <2>1 DEF GetReservation, Rest, OfVisit
  <2>3. ASSUME NEW i \in Confirmed(g), GoOn(s, "reserved", TRUE, i),
               ~ (Cardinality(Confirmed(g)) > 1)
        PROVE  Tracked(g)'
    <3>1. OfVisit(g)' \subseteq {i}
      BY <1>0, <2>2, <2>3, OneAtMost
    <3>2. i \in Nat
      BY <1>0 DEF Confirmed, TrafficTypeOK
    <3>3. PICK t \in GuestStep : Successor(s, t, "reserved", TRUE, i)
      BY <1>0, <2>3, <3>2, GoesOn, Zenon DEF Requested
    <3>4. StepKnows(t)'
      BY <1>0, <2>2, <3>1, <3>3 DEF Successor, StepKnows
    <3> QED
      BY <1>0, <1>1, <3>3, <3>4, MoveTracked DEF Successor
  <2>4. ASSUME Confirmed(g) = {}, GoOn(s, "reserved", FALSE, 0)
        PROVE  Tracked(g)'
    <3>1. PICK t \in GuestStep : Successor(s, t, "reserved", FALSE, 0)
      BY <1>0, <2>4, GoesOn, Zenon DEF Requested
    <3>2. StepKnows(t)'
      BY <1>0, <2>2, <2>4, <3>1 DEF Successor, StepKnows
    <3> QED
      BY <1>0, <1>1, <3>1, <3>2, MoveTracked DEF Successor
  <2> QED
    BY <1>0, <2>1, <2>3, <2>4 DEF GetReservation
<1>7. CASE s.at = "cancel"
  <2>1. DeleteReservation(s)
    BY <1>7 DEF Continue, PostArrival, Arrived, PostReservation, Reserved, GetActivities, PostBooking,
       ActivityBooked, PostUnbook, Unbooked, GetReservation, Left
  <2>2. /\ s.was.res \in DOMAIN reservations
        /\ reservations' = [reservations EXCEPT ![s.was.res].status = "cancelled"]
        /\ states' = states /\ GoOn(s, "left", TRUE, 0)
    BY <1>0, <2>1 DEF DeleteReservation, Rest
  <2>3. OfVisit(g)' = {}
    <3>1. OfVisit(g)' \subseteq {s.was.res}
      BY <1>0, <1>2, <1>7 DEF StepKnows
    <3>2. reservations'[s.was.res].status = "cancelled"
      BY <1>0, <2>2, Cancels
    <3>3. s.was.res \notin OfVisit(g)'
      BY <3>2 DEF OfVisit, Confirmed
    <3> QED
      BY <3>1, <3>3
  <2>4. PICK t \in GuestStep : Successor(s, t, "left", TRUE, 0)
    BY <1>0, <2>2, GoesOn, Zenon DEF Requested
  <2>5. StepKnows(t)'
    BY <1>0, <2>2, <2>3, <2>4 DEF Successor, StepKnows
  <2> QED
    BY <1>0, <1>1, <2>4, <2>5, MoveTracked DEF Successor
<1>8. ASSUME NEW t \in GuestStep, Follows(s, t), s.at \notin {"reserve", "recover", "cancel"}
      PROVE  Tracked(g)'
  <2>1. OfVisit(g)' \subseteq {s.was.res}
    BY <1>0, <1>2, <1>8 DEF StepKnows, Follows
  <2>2. StepKnows(t)'
    BY <1>0, <1>8, <2>1 DEF Follows, StepKnows
  <2> QED
    BY <1>0, <1>1, <1>8, <2>2, MoveTracked DEF Follows
<1> QED
  BY <1>1, <1>4, <1>5, <1>6, <1>7, <1>8

\* A step under way keeps its guest and all the others tracked.
LEMMA ContinueTracked ==
  ASSUME TrafficInv, NEW s \in steps, Continue(s), NEW g \in SyntheticGuests,
         g \notin overlapped' \cup dropped'
  PROVE  Tracked(g)'
<1>1. /\ mount' = mount /\ overlapped' = overlapped /\ dropped \subseteq dropped' /\ Booked(s)
      /\ Ends(s) \/ \E t \in GuestStep : Follows(s, t)
  BY ContinueShape DEF TrafficInv
<1>2. Tracked(g)
  BY <1>1 DEF TrafficInv
<1>3. CASE s \in Mine(g)
  BY <1>2, <1>3, OwnStep
<1>4. CASE s \notin Mine(g)
  <2>1. Mine(g)' = Mine(g)
    BY <1>1, <1>4 DEF Ends, Follows, Mine
  <2>2. states'[g] = states[g]
    <3>1. states \in [SyntheticGuests -> GuestState]
      BY DEF TrafficInv, TrafficTypeOK
    <3> QED
      BY <1>1, <1>4, <3>1 DEF Ends, Follows, Mine
  <2>3. OfVisit(g)' \subseteq OfVisit(g)
    BY <1>1, <1>4, OfVisitKept
  <2> QED
    BY <1>2, <2>1, <2>2, <2>3, StillTracked
<1> QED
  BY <1>3, <1>4

\* What CreateInitialState gives a guest.
LEMMA Seeds ==
  ASSUME NEW g \in SyntheticGuests
  PROVE  /\ CreateInitialState \in [SyntheticGuests -> GuestState]
         /\ CreateInitialState[g].res = 0
         /\ g \in Residents => CreateInitialState[g] = Seeded
         /\ g \notin Residents => CreateInitialState[g].stage \in {"new", "arrived"}
<1>1. \A x \in SyntheticGuests : SeedState(SeedStage[x]) \in GuestState
  BY TrafficAssumption DEF SeedState, GuestState
<1>2. CreateInitialState[g] = SeedState(SeedStage[g])
  BY DEF CreateInitialState
<1>3. /\ SeedState(SeedStage[g]).res = 0
      /\ g \in Residents => SeedState(SeedStage[g]) = Seeded
      /\ g \notin Residents => SeedState(SeedStage[g]).stage \in {"new", "arrived"}
  BY TrafficAssumption DEF SeedState, Residents, Seeded
<1> QED
  BY <1>1, <1>2, <1>3 DEF CreateInitialState

\* The initial state.
LEMMA TrafficStart == TrafficInit => TrafficInv
<1> SUFFICES ASSUME TrafficInit PROVE TrafficInv
  OBVIOUS
<1>1. /\ states = CreateInitialState /\ mount = 0 /\ steps = {} /\ reservations = <<>>
      /\ visitors = {}
  BY DEF TrafficInit
<1>2. reservations \in Seq(Reservation) /\ DOMAIN reservations = {}
  BY <1>1
<1>3. states \in [SyntheticGuests -> GuestState]
  BY <1>1, Seeds DEF CreateInitialState
<1>4. TrafficTypeOK /\ NoneAhead
  BY <1>1, <1>2, <1>3 DEF TrafficTypeOK, NoneAhead
<1>5. ResidentsStay
  BY <1>1, <1>2, Seeds DEF ResidentsStay, Residents
<1>6. OthersBook
  BY <1>1, <1>2, Seeds DEF OthersBook, GuestOK
<1>7. \A g \in SyntheticGuests : Tracked(g)
  BY <1>1, <1>2 DEF Tracked, Mine, OfVisit, Confirmed
<1> QED
  BY <1>1, <1>4, <1>5, <1>6, <1>7 DEF TrafficInv

\* A visit begins: its guests are seeded, and nothing of it is under way yet.
LEMMA MountStep ==
  ASSUME TrafficInv, Mount
  PROVE  TrafficInv'
<1>1. /\ states' = CreateInitialState /\ mount' = mount + 1 /\ mount \in Nat /\ steps' = steps
      /\ reservations' = reservations /\ visitors' = visitors /\ dropped' = dropped
  BY DEF Mount, services, TrafficInv, TrafficTypeOK
<1>2. states' \in [SyntheticGuests -> GuestState]
  BY <1>1, Seeds DEF CreateInitialState
<1>3. /\ \A x \in steps : x.mount \in Nat /\ x.mount <= mount
      /\ \A i \in DOMAIN reservations : reservations[i].mount \in Nat /\ reservations[i].mount <= mount
  <2>1. \A x \in steps : x.mount \in Nat /\ x.mount <= mount
    BY DEF TrafficInv, TrafficTypeOK, NoneAhead, GuestStep
  <2>2. \A i \in DOMAIN reservations : reservations[i] \in Reservation /\ reservations[i].mount <= mount
    BY DEF TrafficInv, TrafficTypeOK, NoneAhead
  <2> QED
    BY <2>1, <2>2 DEF Reservation
<1>4. TrafficTypeOK' /\ NoneAhead'
  <2>1. TrafficTypeOK'
    BY <1>1, <1>2 DEF TrafficInv, TrafficTypeOK
  <2>2. \A n \in Nat : n <= mount => n <= mount + 1
    BY <1>1
  <2>3. NoneAhead'
    BY <1>1, <1>3, <2>2 DEF NoneAhead
  <2> QED
    BY <2>1, <2>3
<1>5. ResidentsStay'
  BY <1>1, Seeds DEF TrafficInv, ResidentsStay, Residents, Seeded
<1>6. OthersBook'
  BY <1>1, Seeds DEF TrafficInv, OthersBook, GuestOK, Holds, Residents
<1>7. ASSUME NEW g \in SyntheticGuests PROVE Tracked(g)'
  <2>1. \A n \in Nat : n <= mount => n # mount + 1
    BY <1>1
  <2>2. Mine(g)' = {} /\ OfVisit(g)' = {}
    BY <1>1, <1>3, <2>1 DEF Mine, OfVisit, Confirmed
  <2> QED
    BY <2>2 DEF Tracked
<1>8. (\A x \in steps : AtStage(x))'
  BY <1>1 DEF TrafficInv, AtStage
<1> QED
  BY <1>4, <1>5, <1>6, <1>7, <1>8 DEF TrafficInv

\* A timer fires: a second step for a guest is what overlapped records.
LEMMA RunStep ==
  ASSUME TrafficInv, NEW l \in Loops, NEW g \in SyntheticGuests, RunGuestStep(l, g)
  PROVE  TrafficInv'
<1>1. /\ states' = states /\ mount' = mount /\ mount \in Nat /\ reservations' = reservations
      /\ visitors' = visitors /\ dropped' = dropped /\ overlapped \subseteq overlapped'
      /\ states[g] \in GuestState /\ TrafficTypeOK
  BY DEF RunGuestStep, services, TrafficInv, TrafficTypeOK
<1>2. PICK request \in FirstRequests(states[g].stage) :
        steps' = steps \cup {[loop |-> l, mount |-> mount, guest |-> g, was |-> states[g],
                              at |-> request, ok |-> FALSE, id |-> 0]}
  BY DEF RunGuestStep
<1>3. PICK t : t = [loop |-> l, mount |-> mount, guest |-> g, was |-> states[g],
                    at |-> request, ok |-> FALSE, id |-> 0]
  OBVIOUS
<1>4. states[g].stage \in {"new", "arrived", "hotel_booked", "beach_booked"}
  BY <1>1 DEF GuestState
<1>5. \/ states[g].stage = "new" /\ request = "arrive"
      \/ states[g].stage = "arrived" /\ request = "reserve"
      \/ states[g].stage = "hotel_booked" /\ request = "activities"
      \/ states[g].stage = "beach_booked" /\ request \in {"leave", "unbook"}
  BY <1>4 DEF FirstRequests
<1>6. t \in GuestStep /\ t.guest = g /\ t.mount = mount /\ t.was = states[g] /\ t.at = request
      /\ t.ok = FALSE
  BY <1>1, <1>3, <1>5 DEF GuestStep, Requested
<1>7. steps' = steps \cup {t}
  BY <1>2, <1>3
<1>8. TrafficTypeOK' /\ NoneAhead'
  BY <1>1, <1>6, <1>7 DEF TrafficInv, TrafficTypeOK, NoneAhead
<1>9. (\A x \in steps : AtStage(x))'
  <2>1. AtStage(t)
    BY <1>5, <1>6 DEF AtStage
  <2> QED
    BY <1>7, <2>1 DEF TrafficInv, AtStage
<1>10. ResidentsStay'
  BY <1>1, <1>5, <1>6, <1>7 DEF TrafficInv, ResidentsStay, Residents, Seeded
<1>11. OthersBook'
  BY <1>1, <1>5, <1>6, <1>7 DEF TrafficInv, OthersBook, GuestOK, Holds, Residents
<1>12. ASSUME NEW h \in SyntheticGuests, h \notin overlapped' \cup dropped' PROVE Tracked(h)'
  <2>1. Tracked(h) /\ OfVisit(h)' = OfVisit(h)
    BY <1>1, <1>12 DEF TrafficInv, OfVisit, Confirmed
  <2>2. CASE h # g
    <3>1. Mine(h)' = Mine(h)
      BY <1>1, <1>6, <1>7, <2>2 DEF Mine
    <3> QED
      BY <1>1, <2>1, <3>1, StillTracked
  <2>3. CASE h = g
    <3>1. Mine(g) = {}
      BY <1>12, <2>3 DEF RunGuestStep, Mine
    <3>2. Mine(g)' = {t}
      BY <1>1, <1>6, <1>7, <3>1 DEF Mine
    <3>3. StepKnows(t)'
      BY <1>1, <1>5, <1>6, <2>1, <2>3, <3>1 DEF StepKnows, Tracked
    <3> QED
      BY <2>3, <3>2, <3>3 DEF Tracked
  <2> QED
    BY <2>2, <2>3
<1> QED
  BY <1>8, <1>9, <1>10, <1>11, <1>12 DEF TrafficInv

\* The beach checks in guests with a reservation only; the rest of the world changes nothing
\* that the invariant is about.
LEMMA WorldStep ==
  ASSUME TrafficInv, UNCHANGED <<states, mount, steps, reservations, overlapped, dropped>>,
         \A g \in visitors' : g \in visitors \/ \E i \in DOMAIN reservations : reservations[i].guest = g
  PROVE  TrafficInv'
<1>1. (TrafficTypeOK /\ NoneAhead /\ (\A x \in steps : AtStage(x)))'
  BY DEF TrafficInv, TrafficTypeOK, NoneAhead, AtStage
<1>2. ResidentsStay'
  BY DEF TrafficInv, ResidentsStay, Residents, Seeded
<1>3. OthersBook'
  BY DEF TrafficInv, OthersBook, GuestOK, Holds, Residents
<1>4. ASSUME NEW g \in SyntheticGuests, g \notin overlapped' \cup dropped' PROVE Tracked(g)'
  <2>1. Tracked(g) /\ OfVisit(g)' = OfVisit(g) /\ Mine(g)' = Mine(g)
    BY <1>4 DEF TrafficInv, OfVisit, Confirmed, Mine
  <2> QED
    BY <2>1, StillTracked
<1> QED
  BY <1>1, <1>2, <1>3, <1>4 DEF TrafficInv

\* Every step keeps the invariant.
LEMMA TrafficStep ==
  ASSUME TrafficInv, [TrafficNext]_trafficVars
  PROVE  TrafficInv'
<1>1. CASE Mount
  BY <1>1, MountStep
<1>2. CASE \E l \in Loops, g \in SyntheticGuests : RunGuestStep(l, g)
  BY <1>2, RunStep
<1>3. ASSUME NEW s \in steps, Continue(s) PROVE TrafficInv'
  <2>1. (TrafficTypeOK /\ NoneAhead /\ (\A x \in steps : AtStage(x)))' /\ ResidentsStay' /\ OthersBook'
    BY <1>3, ContinueTypes, ContinueResidents, ContinueOthers
  <2>2. \A g \in SyntheticGuests \ (overlapped' \cup dropped') : Tracked(g)'
    BY <1>3, ContinueTracked
  <2> QED
    BY <2>1, <2>2 DEF TrafficInv
<1>4. CASE Unmount \/ CooledDown \/ UNCHANGED trafficVars
           \/ \E g \in SyntheticGuests : AskParrot(g) \/ Process(g) \/ CheckIn(g)
  <2>1. UNCHANGED <<states, mount, steps, reservations, overlapped, dropped>>
    BY <1>4 DEF Unmount, CooledDown, AskParrot, Process, CheckIn, generator, services, ghosts, trafficVars
  <2>2. \A g \in visitors' : g \in visitors \/ \E i \in DOMAIN reservations : reservations[i].guest = g
    BY <1>4 DEF Unmount, CooledDown, AskParrot, Process, CheckIn, generator, services, trafficVars
  <2> QED
    BY <2>1, <2>2, WorldStep
<1> QED
  BY <1>1, <1>2, <1>3, <1>4 DEF TrafficNext

\* The invariant holds in every reachable state of the generator.
LEMMA TrafficInvariance == TrafficSpec => []TrafficInv
  BY TrafficStart, TrafficStep, PTL DEF TrafficSpec

\* However loops, visits and failures overlap, a guest that machine.ts puts on the beach holds
\* a reservation the hotel knows as its own: leaving never deletes the empty identifier that
\* seedState gives a resident, because no resident's booking ever succeeds.
THEOREM BeachGuestsHold == TrafficSpec => []BeachGuestsHaveRooms
<1>1. TrafficInv => BeachGuestsHaveRooms
  <2> SUFFICES ASSUME TrafficInv, NEW g \in SyntheticGuests, states[g].stage = "beach_booked"
               PROVE  states[g].res \in DOMAIN reservations /\ reservations[states[g].res].guest = g
    BY DEF BeachGuestsHaveRooms
  <2>1. g \notin Residents
    BY DEF TrafficInv, ResidentsStay, Seeded
  <2> QED
    BY <2>1 DEF TrafficInv, OthersBook, GuestOK, Holds
<1> QED
  BY <1>1, TrafficInvariance, PTL

\* bookHotel's second request makes up for a lost answer to the first: between its steps the
\* generator knows every confirmed reservation it made for a guest on this visit, unless two
\* steps drove the guest, a later request failed as well or an older reservation was found.
THEOREM ReservationsKnown == TrafficSpec => []NothingLeaks
<1>1. TrafficInv => NothingLeaks
  <2> SUFFICES ASSUME TrafficInv, NEW g \in SyntheticGuests, g \notin overlapped \cup dropped,
                      ~ \E s \in steps : s.guest = g
               PROVE  {i \in Confirmed(g) : reservations[i].mount = mount} \subseteq {states[g].res}
    BY DEF NothingLeaks
  <2>1. Tracked(g) /\ Mine(g) = {}
    BY DEF TrafficInv, Mine
  <2> QED
    BY <2>1 DEF Tracked, OfVisit
<1> QED
  BY <1>1, TrafficInvariance, PTL
=============================================================================
