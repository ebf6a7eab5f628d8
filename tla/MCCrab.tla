------------------------------- MODULE MCCrab -------------------------------
(* Two limited items and an unlimited one.  Baskets name an item twice, mix  *)
(* items, ask for too much, for a negative amount, for unknown items and for *)
(* two amounts that add up to more than the largest int.                     *)
EXTENDS CrabStore

MCItems == {"patty", "sundae", "fries"}
MCDailyStock ==
  [i \in MCItems |-> CASE i = "patty" -> 3 [] i = "sundae" -> 1 [] OTHER -> Unlimited]

Line(item, qty) == [item |-> item, qty |-> qty]

MCBaskets ==
  { <<Line("patty", 1)>>, <<Line("patty", 2), Line("patty", 1)>>,
    <<Line("sundae", 1), Line("fries", 2)>>, <<>>, <<Line("patty", -1)>>,
    <<Line("pizza", 1)>>, <<Line("patty", 7), Line("patty", 7)>> }
=============================================================================
