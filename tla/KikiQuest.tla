------------------------------ MODULE KikiQuest ------------------------------
(***************************************************************************)
(* Kiki's burger quest and the octopus oracle on the map: the quest's      *)
(* phases, driven by buttons and timeouts, and the oracle panel with its   *)
(* quiz and colour sequence.  The panel exists twice: one instance belongs *)
(* to the quest and reports its trials, the marker's instance does not.    *)
(***************************************************************************)
EXTENDS Naturals, Sequences, FiniteSets

CONSTANTS
  Panels,               \* instances of the oracle panel, one is "quest"
  Questions, Options,
  CorrectIndex,         \* question -> its right option
  OracleColors, RED_TRIAL_SEQUENCE,
  PassMark,             \* right answers the quiz needs
  BURGER_PRICE_MEOWS, ORACLE_REWARD_MEOWS,
  MaxMeows,             \* bound: no trial is started above it
  Unset

ASSUME QuestAssumption ==
  /\ BURGER_PRICE_MEOWS \in Nat
  /\ ORACLE_REWARD_MEOWS \in Nat /\ ORACLE_REWARD_MEOWS >= BURGER_PRICE_MEOWS
  /\ "quest" \in Panels
  /\ Unset \notin BOOLEAN

VARIABLES
  phase, meows,
  lastTrialPassed,   \* TRUE, FALSE or Unset
  showConfetti,
  open,              \* panel -> it is shown
  mode,              \* panel -> "choice", "blue", "red", "result"
  answers,           \* panel -> partial function from questions to options
  sequenceInput      \* panel -> the colours chosen so far

questVars == <<phase, meows, lastTrialPassed, showConfetti>>
panelVars == <<open, mode, answers, sequenceInput>>

(* Which buttons the quest shows, besides the oracle. *)
CanRequestBurger == phase \in {"idle_at_crab", "burger_received"}
CanRetryTask == phase = "failed_task"
CanBuyBurger(m) == m >= BURGER_PRICE_MEOWS
CanPayForBurger == phase = "ready_to_buy" /\ CanBuyBurger(meows)

RewardForOracleResult(passed) == IF passed THEN ORACLE_REWARD_MEOWS ELSE 0
SpendBurgerMeows(m) == IF CanBuyBurger(m) THEN m - BURGER_PRICE_MEOWS ELSE m

-----------------------------------------------------------------------------
(* Mutant: the result of an earlier quest is not forgotten. *)
RequestBurgerMutant ==
  /\ CanRequestBurger
  /\ phase' = "needs_meows"
  /\ meows' = 0
  /\ UNCHANGED <<lastTrialPassed, showConfetti, panelVars>>

RequestBurger ==
  /\ CanRequestBurger
  /\ phase' = "needs_meows"
  /\ meows' = 0
  /\ lastTrialPassed' = Unset
  /\ UNCHANGED <<showConfetti, panelVars>>

BuyBurger ==
  /\ CanPayForBurger
  /\ phase' = "burger_received"
  /\ meows' = SpendBurgerMeows(meows)
  /\ showConfetti' = TRUE
  /\ UNCHANGED <<lastTrialPassed, panelVars>>

RetryTask ==
  /\ CanRetryTask
  /\ phase' = "at_octopus"
  /\ lastTrialPassed' = Unset
  /\ open' = [open EXCEPT !["quest"] = TRUE]
  /\ UNCHANGED <<meows, showConfetti, mode, answers, sequenceInput>>

(* The timeout of a phase; leaving the phase clears it.  Mutant: nobody    *)
(* waits for the walk back to end.                                         *)
PhaseTimeoutMutant ==
  /\ phase' = CASE phase = "needs_meows" -> "walking_to_octopus"
                [] phase = "walking_to_octopus" -> "at_octopus"
                [] phase = "earned_meows" -> "walking_to_crab"
                [] OTHER -> phase
  /\ open' = [open EXCEPT !["quest"] = phase = "walking_to_octopus" \/ @]
  /\ UNCHANGED <<meows, lastTrialPassed, showConfetti, mode, answers, sequenceInput>>

TimedPhases == {"needs_meows", "walking_to_octopus", "earned_meows", "walking_to_crab"}

PhaseTimeout ==
  /\ phase \in TimedPhases
  /\ phase' = CASE phase = "needs_meows" -> "walking_to_octopus"
                [] phase = "walking_to_octopus" -> "at_octopus"
                [] phase = "earned_meows" -> "walking_to_crab"
                [] phase = "walking_to_crab" -> "ready_to_buy"
  /\ open' = [open EXCEPT !["quest"] = phase = "walking_to_octopus" \/ @]
  /\ UNCHANGED <<meows, lastTrialPassed, showConfetti, mode, answers, sequenceInput>>

ConfettiTimeout ==
  /\ showConfetti
  /\ showConfetti' = FALSE
  /\ UNCHANGED <<phase, meows, lastTrialPassed, panelVars>>

-----------------------------------------------------------------------------
(* The oracle panel. *)
NoAnswers == [q \in {} |-> 0]

EvaluateQuiz(a) ==
  Cardinality({q \in DOMAIN a : a[q] = CorrectIndex[q]}) >= PassMark
EvaluateSequence(input) == input = RED_TRIAL_SEQUENCE

ResetToChoice(p) ==
  /\ mode' = [mode EXCEPT ![p] = "choice"]
  /\ answers' = [answers EXCEPT ![p] = NoAnswers]
  /\ sequenceInput' = [sequenceInput EXCEPT ![p] = <<>>]

(* onTrialResult: each trial passed pays, also one after another. *)
HandleTrialResult(p, passed) ==
  IF p = "quest"
  THEN /\ lastTrialPassed' = passed
       /\ meows' = meows + RewardForOracleResult(passed)
       /\ UNCHANGED <<phase, showConfetti>>
  ELSE UNCHANGED questVars

OpenMarkerPanel ==
  /\ open' = [p \in Panels |-> open[p] \/ p # "quest"]
  /\ open' # open
  /\ UNCHANGED <<questVars, mode, answers, sequenceInput>>

ChoosePill(p, pill) ==
  /\ open[p] /\ mode[p] = "choice"
  /\ p = "quest" => meows <= MaxMeows
  /\ mode' = [mode EXCEPT ![p] = pill]
  /\ UNCHANGED <<questVars, open, answers, sequenceInput>>

Answer(p, q, i) ==
  /\ open[p] /\ mode[p] = "blue"
  /\ answers' = [answers EXCEPT ![p] =
       [r \in DOMAIN @ \cup {q} |-> IF r = q THEN i ELSE @[r]]]
  /\ UNCHANGED <<questVars, open, mode, sequenceInput>>

FinishBlueTrial(p) ==
  /\ open[p] /\ mode[p] = "blue"
  /\ DOMAIN answers[p] = Questions
  /\ HandleTrialResult(p, EvaluateQuiz(answers[p]))
  /\ mode' = [mode EXCEPT ![p] = "result"]
  /\ UNCHANGED <<open, answers, sequenceInput>>

ChooseColor(p, color) ==
  LET nextInput == Append(sequenceInput[p], color)
  IN  /\ open[p] /\ mode[p] = "red"
      /\ sequenceInput' = [sequenceInput EXCEPT ![p] = nextInput]
      /\ IF Len(nextInput) # Len(RED_TRIAL_SEQUENCE)
         THEN UNCHANGED <<questVars, mode>>
         ELSE /\ HandleTrialResult(p, EvaluateSequence(nextInput))
              /\ mode' = [mode EXCEPT ![p] = "result"]
      /\ UNCHANGED <<open, answers>>

ResetSequence(p) ==
  /\ open[p] /\ mode[p] = "red"
  /\ sequenceInput' = [sequenceInput EXCEPT ![p] = <<>>]
  /\ UNCHANGED <<questVars, open, mode, answers>>

Back(p) ==
  /\ open[p] /\ mode[p] # "choice"
  /\ ResetToChoice(p)
  /\ UNCHANGED <<questVars, open>>

(* Closing resets the panel; the quest goes on with the last result it saw, *)
(* and stays where it is when there was none.                               *)
HandleOracleClose ==
  phase' = CASE lastTrialPassed = Unset -> phase
             [] lastTrialPassed = TRUE -> "earned_meows"
             [] OTHER -> "failed_task"

ClosePanelOf(p) ==
  /\ open[p]
  /\ ResetToChoice(p)
  /\ open' = [open EXCEPT ![p] = FALSE]
  /\ IF p = "quest" THEN HandleOracleClose ELSE UNCHANGED phase
  /\ UNCHANGED <<meows, lastTrialPassed, showConfetti>>

-----------------------------------------------------------------------------
QuestStart ==
  [phase |-> "idle_at_crab", meows |-> 0, lastTrialPassed |-> Unset,
   showConfetti |-> FALSE, open |-> [p \in Panels |-> FALSE],
   mode |-> [p \in Panels |-> "choice"], answers |-> [p \in Panels |-> NoAnswers],
   sequenceInput |-> [p \in Panels |-> <<>>]]

QuestInit ==
  /\ phase = QuestStart.phase /\ meows = QuestStart.meows
  /\ lastTrialPassed = QuestStart.lastTrialPassed
  /\ showConfetti = QuestStart.showConfetti
  /\ open = QuestStart.open /\ mode = QuestStart.mode
  /\ answers = QuestStart.answers /\ sequenceInput = QuestStart.sequenceInput

(* The component is unmounted or mounted: its state starts over. *)
QuestReset ==
  /\ phase' = QuestStart.phase /\ meows' = QuestStart.meows
  /\ lastTrialPassed' = QuestStart.lastTrialPassed
  /\ showConfetti' = QuestStart.showConfetti
  /\ open' = QuestStart.open /\ mode' = QuestStart.mode
  /\ answers' = QuestStart.answers /\ sequenceInput' = QuestStart.sequenceInput

OracleStep(p) ==
  \/ \E pill \in {"blue", "red"} : ChoosePill(p, pill)
  \/ \E q \in Questions, i \in Options : Answer(p, q, i)
  \/ FinishBlueTrial(p)
  \/ \E color \in OracleColors : ChooseColor(p, color)
  \/ ResetSequence(p)
  \/ Back(p)
  \/ ClosePanelOf(p)

QuestStep ==
  \/ RequestBurger
  \/ BuyBurger
  \/ RetryTask
  \/ PhaseTimeout
  \/ ConfettiTimeout
  \/ OpenMarkerPanel
  \/ \E p \in Panels : OracleStep(p)

-----------------------------------------------------------------------------
(* The quest has one dead end: the oracle closed before any trial, while   *)
(* Kiki stands at the octopus.  In every other state a timeout is pending, *)
(* the oracle is open or a button is there; in particular Kiki never       *)
(* stands at the crab without the price of the burger.                     *)
OnlyDeadEndIsSkipping ==
  \/ phase \in TimedPhases
  \/ open["quest"]
  \/ CanRequestBurger \/ CanRetryTask \/ CanPayForBurger
  \/ phase = "at_octopus" /\ lastTrialPassed = Unset
=============================================================================
