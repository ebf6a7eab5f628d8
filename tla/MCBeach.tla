------------------------------ MODULE MCBeach ------------------------------
(* Symmetric visitors, activities and requests.                            *)
EXTENDS BeachActivities, TLC

BeachSymmetry ==
  Permutations(Visitors) \cup Permutations(Activities) \cup Permutations(Requests)
=============================================================================
