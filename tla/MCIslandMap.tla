----------------------------- MODULE MCIslandMap -----------------------------
(***************************************************************************)
(* Two guests and an admin, one zone; a quiz of three questions with two   *)
(* options each, and a sequence of two colours.                            *)
(***************************************************************************)
EXTENDS IslandMap

MCCorrectIndex == [q \in Questions |-> 0]
MCSequence == <<"blue", "red">>
=============================================================================
