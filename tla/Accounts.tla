------------------------------- MODULE Accounts -------------------------------
(***************************************************************************)
(* What the creation and the provisioning of users promise, as if the      *)
(* users table and Keycloak were one store: a user comes to exist in both  *)
(* at one instant or in neither, a creation is answered once and has no    *)
(* effect after its answer.  UserProvisioning, the model of the code,      *)
(* implements this with calls and statements that fail, are applied late   *)
(* or are undone one by one.                                               *)
(***************************************************************************)
CONSTANTS Creations, Names, None

VARIABLES
    accounts,   \* per name: None, "unlinked" or "linked"
    whole,      \* the linked names whose identity exists with its role
    uncertain,  \* the names linked by a commit nobody was told of
    asked,      \* the name a creation asks for
    told        \* what its client was told

vars == <<accounts, whole, uncertain, asked, told>>

Init ==
    /\ accounts \in [Names -> {None, "unlinked"}]
    /\ whole = {} /\ uncertain = {}
    /\ asked = [c \in Creations |-> None]
    /\ told = [c \in Creations |-> "pending"]

\* The user becomes linked, with everything in place.
Link(n) ==
    /\ accounts' = [accounts EXCEPT ![n] = "linked"]
    /\ whole' = whole \cup {n}

Open(c) == asked[c] \in Names /\ told[c] = "pending"

Tell(c, answer) == told' = [told EXCEPT ![c] = answer]

Ask(c, n) ==
    /\ asked[c] = None
    /\ asked' = [asked EXCEPT ![c] = n]
    /\ UNCHANGED told \/ (accounts[n] # None /\ Tell(c, "username_conflict"))
    /\ UNCHANGED <<accounts, whole, uncertain>>

Create(c) ==
    /\ Open(c)
    /\ accounts[asked[c]] = None
    /\ Link(asked[c])
    /\ \/ Tell(c, "created") /\ UNCHANGED uncertain
       \/ Tell(c, "error") /\ uncertain' = uncertain \cup {asked[c]}
    /\ UNCHANGED asked

\* Refused or failed, and without effect for good.
Refuse(c) ==
    /\ Open(c)
    /\ \/ accounts[asked[c]] # None /\ Tell(c, "username_conflict")
       \/ \E answer \in {"identity_conflict", "error", "crashed"} : Tell(c, answer)
    /\ UNCHANGED <<accounts, whole, uncertain, asked>>

\* A sweep provisions a user.
Provision(n) ==
    /\ accounts[n] = "unlinked"
    /\ Link(n)
    /\ uncertain' \in {uncertain, uncertain \cup {n}}
    /\ UNCHANGED <<asked, told>>

\* A user whose link nobody was told of may lose its identity, and get it back.
Disturb(n) ==
    /\ n \in uncertain /\ accounts[n] = "linked"
    /\ whole' \in {whole \ {n}, whole \cup {n}}
    /\ UNCHANGED <<accounts, uncertain, asked, told>>

Next ==
    \/ \E c \in Creations : Create(c) \/ Refuse(c) \/ \E n \in Names : Ask(c, n)
    \/ \E n \in Names : Provision(n) \/ Disturb(n)

Spec == Init /\ [][Next]_vars
===============================================================================
