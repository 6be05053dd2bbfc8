------------------------------- MODULE UserSync -------------------------------
(***************************************************************************)
(* One managed user in two stores: its row in PostgreSQL and its identity  *)
(* in Keycloak, which cannot join the transaction.  Updates are requests   *)
(* running updateManagedUser (services/user.go); sweeps are the            *)
(* reconcile-users command reaching this user                              *)
(* (services/user_reconciliation.go).  Both write Keycloak through         *)
(* Replace (services/keycloak_identity_admin.go), several Admin API calls  *)
(* any of which may fail, before or after Keycloak applied it.             *)
(***************************************************************************)
EXTENDS Integers, FiniteSets

CONSTANTS
    Updates,        \* update requests, each made once
    Sweeps,         \* reconciliation commands, run again and again
    Profiles,       \* username, email and display name together
    TakenProfiles,  \* those whose username or email another user has
    Roles,          \* the managed realm roles
    FaultKinds,     \* which faults may occur
    MaxFaults,      \* bound: how many of them
    None

Processes == Updates \cup Sweeps

Row == [profile : Profiles, role : Roles, active : BOOLEAN]
Identity == [profile : Profiles, roles : SUBSET Roles, enabled : BOOLEAN]

\* The calls of Replace, in order.
Calls == {"update_user", "get_roles", "delete_roles", "add_role"}
Steps == Calls \cup {"start", "write", "rollback", "done"}

ASSUME ProcessesDisjoint == Updates \cap Sweeps = {}
ASSUME TakenProfilesType == TakenProfiles \subseteq Profiles
ASSUME NoneIsNothing == None \notin Row \cup Processes
ASSUME FaultKindsType ==
    FaultKinds \subseteq {"refused", "applied", "late", "commit_lost", "crash"}
ASSUME MaxFaultsType == MaxFaults \in Nat

VARIABLES
    row,        \* the committed users row
    identity,   \* the Keycloak user
    lock,       \* the process whose transaction holds the row FOR UPDATE
    pc,         \* the next call or statement of each process
    restoring,  \* whether a process runs restoreIdentity
    previous,   \* the snapshot read under the lock
    target,     \* the state Replace is to leave in Keycloak
    seen,       \* the managed roles Replace read
    outcome,    \* what an update's client, or a sweep's report, says
    flagged,    \* a warning or a report asks the operator to reconcile
    late,       \* calls Keycloak will apply after the caller gave up
    faults

vars == <<row, identity, lock, pc, restoring, previous, target, seen, outcome,
          flagged, late, faults>>
local == <<restoring, previous, target, seen>>

IdentityState(r) == [profile |-> r.profile, roles |-> {r.role}, enabled |-> r.active]
Agree == identity = IdentityState(row)

Idle(p) == pc[p] \in {"start", "done"}
Quiet == (\A p \in Processes : Idle(p)) /\ late = {}

-------------------------------------------------------------------------------
(* The transaction around a replacement. *)

\* Mutant: the role is not validated.
DesiredAnyRole(r) ==
    {[r EXCEPT !.profile = x] : x \in Profiles \ TakenProfiles}
        \cup {[r EXCEPT !.role = x] : x \in Roles \cup {None}}
        \cup {[r EXCEPT !.active = x] : x \in BOOLEAN}

\* The states one update can ask for: mutate sets one field of the snapshot.
Desired(r) ==
    {[r EXCEPT !.profile = x] : x \in Profiles \ TakenProfiles}
        \cup {[r EXCEPT !.role = x] : x \in Roles}
        \cup {[r EXCEPT !.active = x] : x \in BOOLEAN}

\* Mutant: the row is read without FOR UPDATE.
RowAlwaysFree == TRUE

\* GetUserForUpdate waits for the row.
RowFree == lock = None

Begin(p, state) ==
    /\ pc[p] = "start"
    /\ RowFree
    /\ lock' = p
    /\ previous' = [previous EXCEPT ![p] = row]
    /\ target' = [target EXCEPT ![p] = state]
    /\ restoring' = [restoring EXCEPT ![p] = FALSE]
    /\ pc' = [pc EXCEPT ![p] = "update_user"]
    /\ UNCHANGED <<row, identity, seen, outcome, flagged, late, faults>>

BeginUpdate(u) == u \in Updates /\ \E state \in Desired(row) : Begin(u, state)

\* The username or the email is taken: refused before Keycloak is called.
RefuseTaken(u) ==
    /\ u \in Updates
    /\ pc[u] = "start" /\ RowFree
    /\ TakenProfiles # {}
    /\ pc' = [pc EXCEPT ![u] = "done"]
    /\ outcome' = [outcome EXCEPT ![u] = "error"]
    /\ UNCHANGED <<row, identity, lock, local, flagged, late, faults>>

\* A sweep pushes the row as it is (user_reconciliation.go, pushUser).
BeginSweep(s) == s \in Sweeps /\ Begin(s, row)

-------------------------------------------------------------------------------
(* Replace: UpdateUser, then replaceRole. *)

\* Mutant: the previous roles are not removed.
EffectKeepingRoles(call, state, managed, id) ==
    CASE call = "update_user" ->
            [id EXCEPT !.profile = state.profile, !.enabled = state.active]
      [] call = "add_role" -> [id EXCEPT !.roles = @ \cup {state.role}]
      [] OTHER             -> id

\* What Keycloak does to the identity for one call of a replacement by state,
\* whose get_roles found the managed roles.
Effect(call, state, managed, id) ==
    CASE call = "update_user" ->
            [id EXCEPT !.profile = state.profile, !.enabled = state.active]
      [] call = "delete_roles" -> [id EXCEPT !.roles = @ \ managed]
      [] call = "add_role"     -> [id EXCEPT !.roles = @ \cup {state.role}]
      [] OTHER                 -> id

Applied(p) == Effect(pc[p], target[p], seen[p], identity)

\* Mutant: done as soon as the desired role is among the managed ones.
AfterCallRolePresent(p) ==
    CASE pc[p] = "update_user"  -> "get_roles"
      [] pc[p] = "get_roles"    ->
            IF target[p].role \in identity.roles THEN "replaced"
            ELSE IF identity.roles = {} THEN "add_role" ELSE "delete_roles"
      [] pc[p] = "delete_roles" -> "add_role"
      [] OTHER                  -> "replaced"

\* After get_roles nothing is left to do if the one managed role is the desired
\* one, and nothing is deleted if there is none.
AfterCall(p) ==
    CASE pc[p] = "update_user"  -> "get_roles"
      [] pc[p] = "get_roles"    ->
            IF identity.roles = {target[p].role} THEN "replaced"
            ELSE IF identity.roles = {} THEN "add_role" ELSE "delete_roles"
      [] pc[p] = "delete_roles" -> "add_role"
      [] OTHER                  -> "replaced"

\* A successful restoration ends the request, as the error it was.
Replaced(p) ==
    IF restoring[p]
    THEN /\ pc' = [pc EXCEPT ![p] = "done"]
         /\ outcome' = [outcome EXCEPT ![p] = "error"]
    ELSE pc' = [pc EXCEPT ![p] = "write"] /\ UNCHANGED outcome

CallSucceeds(p) ==
    /\ pc[p] \in Calls
    /\ identity' = Applied(p)
    /\ seen' = IF pc[p] = "get_roles" THEN [seen EXCEPT ![p] = identity.roles] ELSE seen
    /\ IF AfterCall(p) = "replaced"
       THEN Replaced(p)
       ELSE pc' = [pc EXCEPT ![p] = AfterCall(p)] /\ UNCHANGED outcome
    /\ UNCHANGED <<row, lock, restoring, previous, target, flagged, late, faults>>

\* An error ends the replacement.  A failed restoration, or a failed push of a
\* sweep, tells the operator; a failed update rolls back first.
GiveUp(p) ==
    IF restoring[p]
    THEN /\ pc' = [pc EXCEPT ![p] = "done"]
         /\ outcome' = [outcome EXCEPT ![p] = "error"]
         /\ flagged' = TRUE
    ELSE pc' = [pc EXCEPT ![p] = "rollback"] /\ UNCHANGED <<outcome, flagged>>

Fault(kind) ==
    /\ kind \in FaultKinds
    /\ faults < MaxFaults
    /\ faults' = faults + 1

\* The call is refused, or its answer is lost after Keycloak applied it.
CallFails(p) ==
    /\ pc[p] \in Calls
    /\ \/ Fault("refused") /\ UNCHANGED identity
       \/ Fault("applied") /\ identity' = Applied(p)
    /\ GiveUp(p)
    /\ UNCHANGED <<row, lock, local, late>>

\* The call times out here and Keycloak applies it later.
CallTimesOut(p) ==
    /\ pc[p] \in Calls \ {"get_roles"}
    /\ Fault("late")
    /\ late' = late \cup {[call |-> pc[p], target |-> target[p], seen |-> seen[p]]}
    /\ GiveUp(p)
    /\ UNCHANGED <<row, identity, lock, local>>

DeliverLate ==
    \E m \in late :
        /\ late' = late \ {m}
        /\ identity' = Effect(m.call, m.target, m.seen, identity)
        /\ UNCHANGED <<row, lock, pc, local, outcome, flagged, faults>>

-------------------------------------------------------------------------------
(* After Replace: the local write and the commit, or the compensation. *)

Commit(p) ==
    /\ pc[p] = "write"
    /\ lock' = None
    /\ pc' = [pc EXCEPT ![p] = "done"]
    /\ outcome' = [outcome EXCEPT ![p] = "ok"]
    /\ IF p \in Updates
       THEN row' = target[p] /\ UNCHANGED flagged
       ELSE flagged' = FALSE /\ UNCHANGED row
    /\ UNCHANGED <<identity, local, late, faults>>

\* The local write or the commit fails, and PostgreSQL rolls back.
WriteFails(p) ==
    /\ pc[p] = "write"
    /\ Fault("refused")
    /\ pc' = [pc EXCEPT ![p] = "rollback"]
    /\ UNCHANGED <<row, identity, lock, local, outcome, flagged, late>>

\* PostgreSQL commits and the service is told that it did not.
CommitLost(p) ==
    /\ pc[p] = "write"
    /\ Fault("commit_lost")
    /\ row' = IF p \in Updates THEN target[p] ELSE row
    /\ pc' = [pc EXCEPT ![p] = "rollback"]
    /\ lock' = None
    /\ UNCHANGED <<identity, local, outcome, flagged, late>>

\* Mutant: there is no compensation.
RollbackOnly(p) ==
    /\ pc[p] = "rollback"
    /\ lock' = IF lock = p THEN None ELSE lock
    /\ pc' = [pc EXCEPT ![p] = "done"]
    /\ outcome' = [outcome EXCEPT ![p] = "error"]
    /\ flagged' = (flagged \/ p \in Sweeps)
    /\ UNCHANGED <<row, identity, restoring, previous, target, seen, late, faults>>

\* Run's deferred Rollback releases the row; only then updateManagedUser makes
\* its one attempt to restore the snapshot.  A sweep reports the failure.
Rollback(p) ==
    /\ pc[p] = "rollback"
    /\ lock' = IF lock = p THEN None ELSE lock
    /\ IF p \in Updates
       THEN /\ restoring' = [restoring EXCEPT ![p] = TRUE]
            /\ target' = [target EXCEPT ![p] = previous[p]]
            /\ pc' = [pc EXCEPT ![p] = "update_user"]
            /\ UNCHANGED <<outcome, flagged>>
       ELSE /\ pc' = [pc EXCEPT ![p] = "done"]
            /\ outcome' = [outcome EXCEPT ![p] = "error"]
            /\ flagged' = TRUE
            /\ UNCHANGED <<restoring, target>>
    /\ UNCHANGED <<row, identity, previous, seen, late, faults>>

\* The process dies: PostgreSQL rolls back, and nobody restores or warns.
Crash(p) ==
    /\ ~Idle(p)
    /\ Fault("crash")
    /\ lock' = IF lock = p THEN None ELSE lock
    /\ pc' = [pc EXCEPT ![p] = "done"]
    /\ outcome' = [outcome EXCEPT ![p] = "crashed"]
    /\ UNCHANGED <<row, identity, local, flagged, late>>

\* The operator runs the command again.
SweepAgain(s) ==
    /\ s \in Sweeps
    /\ pc[s] = "done"
    /\ pc' = [pc EXCEPT ![s] = "start"]
    /\ UNCHANGED <<row, identity, lock, local, outcome, flagged, late, faults>>

-------------------------------------------------------------------------------
Init ==
    /\ row \in {r \in Row : r.profile \notin TakenProfiles}
    /\ identity = IdentityState(row)
    /\ lock = None
    /\ pc = [p \in Processes |-> "start"]
    /\ restoring = [p \in Processes |-> FALSE]
    /\ previous = [p \in Processes |-> None]
    /\ target = [p \in Processes |-> None]
    /\ seen = [p \in Processes |-> {}]
    /\ outcome = [p \in Processes |-> "none"]
    /\ flagged = FALSE
    /\ late = {}
    /\ faults = 0

\* What a process does on its own once it runs.
Proceed(p) == CallSucceeds(p) \/ Commit(p) \/ Rollback(p)

Fail(p) ==
    CallFails(p) \/ CallTimesOut(p) \/ WriteFails(p) \/ CommitLost(p) \/ Crash(p)

Next ==
    \/ \E p \in Processes :
          BeginUpdate(p) \/ RefuseTaken(p) \/ BeginSweep(p) \/ SweepAgain(p)
              \/ Proceed(p) \/ Fail(p)
    \/ DeliverLate

Spec == Init /\ [][Next]_vars

\* Requests run to their end, Keycloak's late work is done some day, and the
\* operator keeps running reconcile-users, as README.md:430-433 asks.  Its turn
\* for the row comes: PostgreSQL queues the waiters.
Fairness ==
    /\ \A p \in Processes : WF_vars(Proceed(p))
    /\ \A s \in Sweeps : SF_vars(BeginSweep(s)) /\ WF_vars(SweepAgain(s))
    /\ WF_vars(DeliverLate)

-------------------------------------------------------------------------------
(* Correctness. *)

\* Every variable has the shape the two stores and the service give it.
TypeOK ==
    /\ row \in Row
    /\ identity \in Identity
    /\ lock \in Processes \cup {None}
    /\ pc \in [Processes -> Steps]
    /\ restoring \in [Processes -> BOOLEAN]
    /\ previous \in [Processes -> Row \cup {None}]
    /\ target \in [Processes -> Row \cup {None}]
    /\ seen \in [Processes -> SUBSET Roles]
    /\ outcome \in [Processes -> {"none", "ok", "error", "crashed"}]
    /\ flagged \in BOOLEAN
    /\ late \subseteq [call : Calls \ {"get_roles"}, target : Row, seen : SUBSET Roles]
    /\ faults \in 0..MaxFaults

\* When nothing runs any more, the two stores agree or somebody was told to run
\* reconcile-users (user.go:242-245).
AgreeOrFlagged == Quiet => Agree \/ flagged

\* No update is lost: a commit changes one field of the row that is committed
\* at that moment, never of an older snapshot (user.go:256-260, FOR UPDATE).
NoLostUpdate == [][row' # row => row' \in Desired(row)]_vars

\* Whatever failed, crashed or arrived late, once it is over and
\* reconcile-users is run the stores agree for good (README.md:430-433).
EventuallyAgree == <>[]Agree

-------------------------------------------------------------------------------
(* The inductive invariant: why no update is lost.                          *)

\* Until it commits, a replacement works on a snapshot of the row that cannot
\* have changed, because the row is still locked.
ReplacementInv(p) ==
    /\ pc[p] \in Calls \cup {"write", "rollback"} => previous[p] \in Row /\ target[p] \in Row
    /\ restoring[p] => p \in Updates /\ pc[p] \notin {"write", "rollback"}
    /\ pc[p] \in Calls \cup {"write"} /\ ~restoring[p] =>
          /\ lock = p
          /\ p \in Updates => target[p] \in Desired(row)

\* Whoever may still commit holds the row and asks for one change of it
\* (user.go:256-289).
SyncInv == TypeOK /\ \A p \in Processes : ReplacementInv(p)
===============================================================================
