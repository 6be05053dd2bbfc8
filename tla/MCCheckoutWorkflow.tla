-------------------------- MODULE MCCheckoutWorkflow --------------------------
(* CheckoutWorkflow on small instances, for TLC. *)
EXTENDS CheckoutWorkflow, FiniteSets, TLC

CONSTANTS ann, bob, cam

AnnEmployeeBobAdmin == (ann :> "employee") @@ (bob :> "inventory_admin")
OneOfEachRole == AnnEmployeeBobAdmin @@ (cam :> "auditor")

\* No constant names a request, and no definition chooses one.
Symmetric ==
    Permutations(CheckoutRequests) \cup Permutations(ReturnRequests)
        \cup Permutations(ActivationRequests)

\* Bound: of the requests, at most CrewSize are made, and both account changes
\* only beside checkouts.
CrewSize == 4
Crew == {r \in Requests : pc[r] # "new"}
MayJoin(r) ==
    /\ Cardinality(Crew) < CrewSize
    /\ ActivationRequests \subseteq Crew \cup {r} =>
          Crew \cup {r} \subseteq CheckoutRequests \cup ActivationRequests

CrewNext ==
    \/ \E r \in Requests \ Crew : MayJoin(r) /\ Arrive(r)
    \/ \E r \in InProgress : QueueUp(r) \/ Proceed(r) \/ Fail(r)
    \/ InProgress = {} /\ UNCHANGED vars
CrewSpec == Init /\ [][CrewNext]_vars
===============================================================================
