------------------------- MODULE MCTrafficGenerator --------------------------
(***************************************************************************)
(* Two loops over two guests, one seeded as a newcomer and one as a guest  *)
(* of the hotel.                                                           *)
(***************************************************************************)
EXTENDS TrafficGenerator, TLC

CONSTANTS newcomer, resident

LoopSymmetry == Permutations(Loops)

MCSeedStage == [g \in SyntheticGuests |-> IF g = newcomer THEN "new" ELSE "beach_booked"]
=============================================================================
