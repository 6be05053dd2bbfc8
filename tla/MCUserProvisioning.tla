-------------------------- MODULE MCUserProvisioning --------------------------
(* UserProvisioning on small instances, for TLC. *)
EXTENDS UserProvisioning

CONSTANTS c1, c2, s1, s2

Crew(members, n) == [members |-> members, faults |-> n]

\* Two creations that may want one name with two faults, two sweeps that may
\* provision one user with one.
SmallCrews == {Crew({c1, c2, s1}, 2), Crew({c1, s1, s2}, 1)}

OneCreation == {Crew({c1}, 1)}
===============================================================================
