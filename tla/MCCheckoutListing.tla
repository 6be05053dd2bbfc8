-------------------------- MODULE MCCheckoutListing --------------------------
(* CheckoutListing on a small instance, for TLC. *)
EXTENDS CheckoutListing, TLC

CONSTANTS i1, i2, ann, bob, w1, w2

ThreePages == 1..3
PagesAndWrites == ThreePages \cup {w1, w2}

\* One request is a checkout; the other may be anything that is not a read.
SomeKinds ==
    [r \in ThreePages |-> {"read"}] @@ (w1 :> {"checkout"}) @@ (w2 :> Kinds \ {"read"})

\* ann has i1; meanwhile she borrows i2, and bob i1.
OneLoan == {[id |-> 1, item |-> i1, borrower |-> ann]}
LoansMade ==
    (w1 :> [item |-> i2, borrower |-> ann]) @@ (w2 :> [item |-> i1, borrower |-> bob])

SomeLimits == {0, 1, 2}
===============================================================================
