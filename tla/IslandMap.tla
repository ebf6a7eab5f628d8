------------------------------ MODULE IslandMap ------------------------------
(***************************************************************************)
(* The map page: sessions and pages, with Kiki's quest mounted on the map. *)
(* Leaving or reloading the page throws the quest's state away.            *)
(***************************************************************************)
EXTENDS IslandSession, KikiQuest

vars == <<sessionVars, pageVars, questVars, panelVars>>

Init == SessionInit /\ QuestInit

Next ==
  \/ StayOnPage /\ UNCHANGED <<questVars, panelVars>>
  \/ ChangePage /\ QuestReset
  \/ OnMap /\ QuestStep /\ UNCHANGED <<sessionVars, pageVars>>

Spec == Init /\ [][Next]_vars

(* Timeouts fire while the page lives; nobody has to press anything. *)
Fairness == WF_vars(OnMap /\ PhaseTimeout /\ UNCHANGED <<sessionVars, pageVars>>)
FairSpec == Spec /\ Fairness

(* Meows that were earned can be spent, unless the page is left. *)
EarnedIsSpendable == phase = "earned_meows" ~> (CanPayForBurger \/ phase = "idle_at_crab")
=============================================================================
