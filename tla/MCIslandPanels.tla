--------------------------- MODULE MCIslandPanels ----------------------------
(***************************************************************************)
(* Two guests and an admin who share a tab, one activity with one place,   *)
(* one portion a day, two parrots, which only their names tell apart.      *)
(***************************************************************************)
EXTENDS IslandPanels

CONSTANTS g1, g2, p1, p2

MCPasts == {[g \in Guests |-> IF g = g1 THEN "roomed" ELSE "new"]}
MCSymmetry == Permutations(Parrots)
=============================================================================
