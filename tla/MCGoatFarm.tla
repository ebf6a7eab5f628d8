----------------------------- MODULE MCGoatFarm ------------------------------
(***************************************************************************)
(* One item of two pieces is enough for a shelf that is short or empty.    *)
(***************************************************************************)
EXTENDS GoatShop

MCMaxStock == [i \in Items |-> 2]
=============================================================================
