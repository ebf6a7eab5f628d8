------------------------------ MODULE MCAirport ------------------------------
(* Small instances of passport control for TLC.                            *)
EXTENDS AirportGates, TLC

\* A family of an adult and a minor with a disability, and a fast-track adult
\* travelling alone: all three ranks, and a minor that is first in its queue.
MCSurname == [a \in Arrivals |-> IF a = "fast" THEN "jones" ELSE "smith"]
MCMinor == Arrivals \cap {"kid"}
MCRank == [a \in Arrivals |-> IF a = "kid" THEN 0 ELSE IF a = "fast" THEN 1 ELSE 2]

\* "again" is a second gate object for the id all2, "dyn" a gate with an id of
\* its own that an admin opens at run time.  Guests without an EU passport only go
\* to ALL gates, so the EU gates are left out.
MCGateType == [g \in Gates |-> "ALL"]
MCId == [g \in Gates |-> IF g = "again" THEN "all2" ELSE g]

\* Close requests are interchangeable.
CloserSymmetry == Permutations(Closers)
=============================================================================
