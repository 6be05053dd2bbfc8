----------------------------- MODULE UserSyncGaps -----------------------------
(***************************************************************************)
(* UserSync with a history of the situations in which updateManagedUser    *)
(* cannot compensate (services/user.go, 290-319).  Outside of them its     *)
(* promise holds without exception: whatever fails, the stores agree or    *)
(* somebody is told.                                                       *)
(***************************************************************************)
EXTENDS UserSync

CONSTANT MaxTrouble   \* bound: updates that began and faults, together

VARIABLE gap          \* history: one of the situations has come up

gapVars == <<vars, gap>>

\* Another update runs while the restoration of a failed one does.
Overtaken(u) == restoring[u] /\ pc[u] \in Calls /\ lock \in Updates

\* PostgreSQL committed and the service is about to roll back.
Unacknowledged(p) == pc[p] = "rollback" /\ lock # p

\* Nobody is left to compensate, nobody knows what to compensate, or what is
\* compensated may change again.
Uncompensated ==
    \/ late # {}
    \/ \E p \in Processes : outcome[p] = "crashed" \/ Unacknowledged(p) \/ Overtaken(p)

Trouble == Cardinality({u \in Updates : pc[u] # "start"}) + faults

GapInit == Init /\ gap = FALSE

GapNext == Next /\ gap' = (gap \/ Uncompensated') /\ Trouble' <= MaxTrouble

GapSpec == GapInit /\ [][GapNext]_gapVars /\ Fairness

-------------------------------------------------------------------------------
\* When nothing runs any more, the stores agree or somebody was told to run
\* reconcile-users (user.go:242-245), unless there was a gap.
AgreeOrFlaggedUnlessGap == ~gap => AgreeOrFlagged

\* The identity never carries two managed realm roles, for which
\* authentication would refuse it (openapi.yaml:426, "one application realm
\* role"; keycloak_identity_admin.go:109-153), unless there was a gap.
OneManagedRoleUnlessGap == ~gap => \A x, y \in identity.roles : x = y

-------------------------------------------------------------------------------
(* The inductive invariant: why the compensation suffices outside the gaps.  *)

\* How far a replacement has brought the identity towards its target.
ReplacingInv(p) ==
    LET t == target[p]
    IN  /\ pc[p] \in {"get_roles", "delete_roles", "add_role", "write"} =>
              identity.profile = t.profile /\ identity.enabled = t.active
        /\ pc[p] = "delete_roles" =>
              t.role \notin seen[p] /\ identity.roles \ seen[p] \subseteq {t.role}
        /\ pc[p] = "add_role" => identity.roles \subseteq {t.role}
        /\ pc[p] = "write" => identity.roles = {t.role}

\* Whoever writes the identity beside another pushes the same row: an update
\* that may still commit writes it alone.
HoldingInv(p) ==
    /\ pc[p] = "rollback" => lock = p
    /\ restoring[p] /\ pc[p] \in Calls => lock \notin Updates
    /\ (p \in Sweeps \/ restoring[p]) /\ pc[p] \in Calls \cup {"write"} => target[p] = row
    /\ p \in Updates /\ ~restoring[p] /\ ~Idle(p) => previous[p] = row

\* A difference between the stores is somebody's business: an update's that
\* still runs, or the operator's (user.go:290-319).
Compensated ==
    /\ late = {}
    /\ \A x, y \in identity.roles : x = y
    /\ \A p \in Processes : HoldingInv(p) /\ ReplacingInv(p)
    /\ Agree \/ flagged \/ \E u \in Updates : ~Idle(u)

CompensationInv == SyncInv /\ (~gap => Compensated)
===============================================================================
