------------------------------ MODULE MCUserSync ------------------------------
(* UserSync on small instances, for TLC. *)
EXTENDS UserSync, TLC

\* Updates are interchangeable.
Symmetric == Permutations(Updates)
===============================================================================
