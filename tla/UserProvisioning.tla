--------------------------- MODULE UserProvisioning ---------------------------
(***************************************************************************)
(* How a user comes to exist in both stores.  Creations are POST /users    *)
(* (services/user.go, Create); sweeps are reconcile-users commands         *)
(* (services/user_reconciliation.go, Reconcile), which provision unlinked  *)
(* local users, push linked ones and report the Keycloak users nobody is   *)
(* linked to.                                                              *)
(*                                                                         *)
(* A name stands for a username with its email: both stores keep it        *)
(* unique.  What else a profile holds, and its later changes, are left to  *)
(* UserSync.                                                               *)
(***************************************************************************)
EXTENDS Integers, FiniteSets

CONSTANTS
    Creations,   \* requests to create a user, each made once
    Sweeps,      \* reconciliation commands, run again and again
    Names,
    Seeded,      \* names of the local users that start without an identity
    Subjects,    \* Keycloak user ids; bound: how many are ever in use at once
    FaultKinds,  \* which faults may occur
    MaxFaults,   \* bound: how many of them
    Crews,       \* bound: which processes run together, with how many faults
    None

Processes == Creations \cup Sweeps

ASSUME ProcessesDisjoint == Creations \cap Sweeps = {}
ASSUME SeededType == Seeded \subseteq Names
ASSUME NoneIsNothing ==
    None \notin Processes \cup Names \cup Subjects \cup {"linked", "unlinked"}
ASSUME SubjectsType == "unlinked" \notin Subjects
ASSUME NoneIsNoIdentity == None \notin [name : Names, role : BOOLEAN]
ASSUME FaultKindsType ==
    FaultKinds \subseteq {"refused", "applied", "late", "commit_lost", "crash"}
ASSUME MaxFaultsType == MaxFaults \in Nat
ASSUME CrewsType == Crews \subseteq [members : SUBSET Processes, faults : 0..MaxFaults]

\* Calls to Keycloak and statements to PostgreSQL, in the order a creation and
\* a sweep make them.
Calls == {"create_user", "set_role", "push", "delete_user"}
Steps == Calls \cup
    {"start", "insert", "next_user", "link", "list_identities", "list_links", "done", "absent"}

Report == [failures : SUBSET Names, orphans : SUBSET Subjects]

VARIABLES
    rows,       \* the users table: no row, "unlinked", or the linked subject
    identities, \* the Keycloak users: none, or its name and whether it has its role
    locks,      \* the sweep holding a row FOR UPDATE
    pc,         \* the next call or statement of each process
    name,       \* the user a process works on
    subject,    \* the identity it created for that user
    answer,     \* what the client of a creation was told
    warned,     \* a warning asks the operator to run reconcile-users
    todo,       \* the users a sweep has still to reconcile
    failures,   \* those it could not
    listed,     \* the identities it read
    report,     \* what its last complete run printed
    late,       \* calls Keycloak will apply after the caller gave up
    faults,
    uncertain   \* history: the names linked by a commit nobody was told of

vars == <<rows, identities, locks, pc, name, subject, answer, warned, todo, failures,
          listed, report, late, faults>>
allVars == <<vars, uncertain>>
sweeping == <<todo, failures, listed, report>>

Linked == {rows[n] : n \in Names} \cap Subjects
Existing == {sub \in Subjects : identities[sub] # None}
NamesTaken == {identities[sub].name : sub \in Existing}
Healthy(n) ==
    /\ rows[n] \in Existing
    /\ identities[rows[n]] = [name |-> n, role |-> TRUE]

\* Keycloak never hands out an id twice; one that nothing mentions is as new.
\* Subjects has to be large enough that there always is one to CHOOSE: TLC stops
\* with an error otherwise.
Mentioned ==
    Existing \cup Linked \cup {subject[p] : p \in Processes}
        \cup {m.subject : m \in late}
        \cup UNION {listed[s] \cup report[s].orphans : s \in Sweeps}
Unused == Subjects \ Mentioned
NewSubject == CHOOSE sub \in Unused : TRUE

Idle(p) == pc[p] \in {"start", "done", "absent"}

Fault(kind) ==
    /\ kind \in FaultKinds
    /\ faults < MaxFaults
    /\ faults' = faults + 1

-------------------------------------------------------------------------------
(* Keycloak: what a call does, and whether it is refused for what it finds.  *)

Call(p) == [call |-> pc[p], name |-> name[p],
            subject |-> CASE pc[p] = "create_user" -> NewSubject
                          [] pc[p] = "push"        -> rows[name[p]]
                          [] OTHER                 -> subject[p]]

Acceptable(m) ==
    IF m.call = "create_user" THEN m.name \notin NamesTaken
                              ELSE identities[m.subject] # None

\* Mutant: the role is not assigned.
EffectWithoutRole(m) ==
    CASE m.call = "create_user" ->
            [identities EXCEPT ![m.subject] = [name |-> m.name, role |-> FALSE]]
      [] m.call \in {"set_role", "push"} -> identities
      [] m.call = "delete_user" -> [identities EXCEPT ![m.subject] = None]

Effect(m) ==
    CASE m.call = "create_user" ->
            [identities EXCEPT ![m.subject] = [name |-> m.name, role |-> FALSE]]
      [] m.call \in {"set_role", "push"} ->
            [identities EXCEPT ![m.subject] = [name |-> m.name, role |-> TRUE]]
      [] m.call = "delete_user" -> [identities EXCEPT ![m.subject] = None]

-------------------------------------------------------------------------------
(* Where a process goes when a call has succeeded, and when something failed. *)

\* Mutant: a creation does not wait for its role to be assigned.
AfterSuccessUnassigned(p) ==
    CASE pc[p] = "create_user" -> IF p \in Creations THEN "insert" ELSE "set_role"
      [] pc[p] = "set_role"    -> "link"
      [] pc[p] = "push"        -> "next_user"
      [] pc[p] = "delete_user" -> IF p \in Creations THEN "done" ELSE "next_user"

AfterSuccess(p) ==
    CASE pc[p] = "create_user" -> "set_role"
      [] pc[p] = "set_role"    -> IF p \in Creations THEN "insert" ELSE "link"
      [] pc[p] = "push"        -> "next_user"
      [] pc[p] = "delete_user" -> IF p \in Creations THEN "done" ELSE "next_user"

Go(p, step) == pc' = [pc EXCEPT ![p] = step]

\* A sweep's transaction ends with its user, by commit or by rollback.
Unlocked(p) == [n \in Names |-> IF locks[n] = p THEN None ELSE locks[n]]

\* Mutant: the identity is left behind.
CompensateNothing(p, a) ==
    /\ IF p \in Creations
       THEN answer' = [answer EXCEPT ![p] = a] /\ UNCHANGED failures
       ELSE failures' = [failures EXCEPT ![p] = @ \cup {name[p]}] /\ UNCHANGED answer
    /\ locks' = Unlocked(p)
    /\ Go(p, IF p \in Creations THEN "done" ELSE "next_user")

\* Mutant: a sweep does not record the user it could not reconcile.
CompensateSilently(p, a) ==
    /\ answer' = IF p \in Creations THEN [answer EXCEPT ![p] = a] ELSE answer
    /\ UNCHANGED failures
    /\ locks' = Unlocked(p)
    /\ Go(p, IF subject[p] # None THEN "delete_user"
             ELSE IF p \in Creations THEN "done" ELSE "next_user")

\* Before an identity is known there is nothing to undo; afterwards it is
\* deleted, once the transaction of a sweep has rolled back.
Compensate(p, a) ==
    /\ IF p \in Creations
       THEN answer' = [answer EXCEPT ![p] = a] /\ UNCHANGED failures
       ELSE failures' = [failures EXCEPT ![p] = @ \cup {name[p]}] /\ UNCHANGED answer
    /\ locks' = Unlocked(p)
    /\ Go(p, IF subject[p] # None THEN "delete_user"
             ELSE IF p \in Creations THEN "done" ELSE "next_user")

\* The deletion failed as well: a creation warns, a sweep already reports.
DeletionFailed(p) ==
    /\ warned' = (warned \/ p \in Creations)
    /\ Go(p, IF p \in Creations THEN "done" ELSE "next_user")
    /\ UNCHANGED <<answer, failures, locks>>

CallFailed(p, a) ==
    IF pc[p] = "delete_user"
    THEN DeletionFailed(p)
    ELSE Compensate(p, a) /\ UNCHANGED warned

CallSucceeds(p) ==
    /\ pc[p] \in Calls
    /\ Acceptable(Call(p))
    /\ identities' = Effect(Call(p))
    /\ subject' = IF pc[p] = "create_user"
                  THEN [subject EXCEPT ![p] = Call(p).subject] ELSE subject
    /\ locks' = IF pc[p] = "push" THEN Unlocked(p) ELSE locks
    /\ Go(p, AfterSuccess(p))
    /\ UNCHANGED <<rows, name, answer, warned, sweeping, late, faults>>

\* Keycloak finds the name taken or the identity missing.
CallRejected(p) ==
    /\ pc[p] \in Calls
    /\ ~Acceptable(Call(p))
    /\ CallFailed(p, IF pc[p] = "create_user" THEN "identity_conflict" ELSE "error")
    /\ UNCHANGED <<rows, identities, name, subject, todo, listed, report, late, faults>>

\* The call is refused, or its answer is lost after Keycloak applied it: the id
\* of an identity created that way is lost with it.  A push whose transaction
\* fails to commit ends like one whose answer is lost.
CallFails(p) ==
    /\ pc[p] \in Calls
    /\ \/ Fault("refused") /\ UNCHANGED identities
       \/ /\ Fault("applied")
                /\ Acceptable(Call(p))
          /\ identities' = Effect(Call(p))
    /\ CallFailed(p, "error")
    /\ UNCHANGED <<rows, name, subject, todo, listed, report, late>>

CallTimesOut(p) ==
    /\ pc[p] \in Calls
    /\ Fault("late")
    /\ late' = late \cup {Call(p)}
    /\ CallFailed(p, "error")
    /\ UNCHANGED <<rows, identities, name, subject, todo, listed, report>>

DeliverLate ==
    \E m \in late :
        /\ late' = late \ {m}
        /\ identities' = IF Acceptable(m) THEN Effect(m) ELSE identities
        /\ UNCHANGED <<rows, locks, pc, name, subject, answer, warned, sweeping, faults>>

-------------------------------------------------------------------------------
(* Creation. *)

\* The uniqueness check runs on its own, before anything else.
CheckName(c) ==
    /\ c \in Creations
    /\ pc[c] = "start"
    /\ \E n \in Names :
          /\ name' = [name EXCEPT ![c] = n]
          /\ IF rows[n] = None
             THEN Go(c, "create_user") /\ UNCHANGED answer
             ELSE Go(c, "done") /\ answer' = [answer EXCEPT ![c] = "username_conflict"]
    /\ UNCHANGED <<rows, identities, locks, subject, warned, sweeping, late, faults>>

InsertUser(c) ==
    /\ c \in Creations
    /\ pc[c] = "insert"
    /\ IF rows[name[c]] = None
       THEN /\ rows' = [rows EXCEPT ![name[c]] = subject[c]]
            /\ answer' = [answer EXCEPT ![c] = "created"]
            /\ Go(c, "done")
            /\ UNCHANGED <<locks, failures>>
       ELSE Compensate(c, "username_conflict") /\ UNCHANGED rows
    /\ UNCHANGED <<identities, name, subject, warned, todo, listed, report, late, faults>>

-------------------------------------------------------------------------------
(* Reconciliation. *)

ListUsers(s) ==
    /\ s \in Sweeps
    /\ pc[s] = "start"
    /\ todo' = [todo EXCEPT ![s] = {n \in Names : rows[n] # None}]
    /\ failures' = [failures EXCEPT ![s] = {}]
    /\ Go(s, "next_user")
    /\ UNCHANGED <<rows, identities, locks, name, subject, answer, warned, listed, report,
                   late, faults>>

\* One user after the other, in whatever order they were listed.  GetUserForUpdate
\* waits for the row, then a linked user is pushed and another one provisioned.
LockUser(s) ==
    /\ s \in Sweeps
    /\ pc[s] = "next_user"
    /\ \E n \in todo[s] :
          /\ locks[n] = None
          /\ locks' = [locks EXCEPT ![n] = s]
          /\ name' = [name EXCEPT ![s] = n]
          /\ todo' = [todo EXCEPT ![s] = @ \ {n}]
          /\ Go(s, IF rows[n] = "unlinked" THEN "create_user" ELSE "push")
    /\ subject' = [subject EXCEPT ![s] = None]
    /\ UNCHANGED <<rows, identities, answer, warned, failures, listed, report, late, faults>>

\* The transaction cannot begin, or the row cannot be locked or read: the sweep
\* reports the user and takes the next one.
LockFails(s) ==
    /\ s \in Sweeps
    /\ pc[s] = "next_user"
    /\ Fault("refused")
    /\ \E n \in todo[s] :
          /\ name' = [name EXCEPT ![s] = n]
          /\ todo' = [todo EXCEPT ![s] = @ \ {n}]
          /\ failures' = [failures EXCEPT ![s] = @ \cup {n}]
    /\ subject' = [subject EXCEPT ![s] = None]
    /\ UNCHANGED <<rows, identities, locks, pc, answer, warned, listed, report, late>>

\* LinkUserExternalIdentity and the commit.
LinkUser(s) ==
    /\ s \in Sweeps
    /\ pc[s] = "link"
    /\ IF rows[name[s]] = "unlinked"
       THEN /\ rows' = [rows EXCEPT ![name[s]] = subject[s]]
            /\ locks' = Unlocked(s)
            /\ Go(s, "next_user")
            /\ UNCHANGED <<answer, failures>>
       ELSE Compensate(s, "error") /\ UNCHANGED rows
    /\ UNCHANGED <<identities, name, subject, warned, todo, listed, report, late, faults>>

UsersDone(s) ==
    /\ s \in Sweeps
    /\ pc[s] = "next_user" /\ todo[s] = {}
    /\ Go(s, "list_identities")
    /\ UNCHANGED <<rows, identities, locks, name, subject, answer, warned, sweeping, late, faults>>

ListIdentities(s) ==
    /\ s \in Sweeps
    /\ pc[s] = "list_identities"
    /\ listed' = [listed EXCEPT ![s] = Existing]
    /\ Go(s, "list_links")
    /\ UNCHANGED <<rows, identities, locks, name, subject, answer, warned, todo, failures,
                   report, late, faults>>

\* Mutant: the names of the orphans instead of their ids.
OrphanNames(s) == {identities[sub].name : sub \in (listed[s] \ Linked) \cap Existing}

\* Those nobody is linked to by now.
Orphans(s) == listed[s] \ Linked

ListLinks(s) ==
    /\ s \in Sweeps
    /\ pc[s] = "list_links"
    /\ report' = [report EXCEPT ![s] =
            [failures |-> failures[s], orphans |-> Orphans(s)]]
    /\ listed' = [listed EXCEPT ![s] = {}]
    /\ Go(s, "done")
    /\ UNCHANGED <<rows, identities, locks, name, subject, answer, warned, todo, failures,
                   late, faults>>

\* The users, the identities or the links cannot be listed: the command ends
\* without a report.
ListingFails(s) ==
    /\ s \in Sweeps
    /\ pc[s] \in {"start", "list_identities", "list_links"}
    /\ Fault("refused")
    /\ listed' = [listed EXCEPT ![s] = {}]
    /\ Go(s, "done")
    /\ UNCHANGED <<rows, identities, locks, name, subject, answer, warned, todo, failures,
                   report, late>>

\* The operator runs the command again.
SweepAgain(s) ==
    /\ s \in Sweeps
    /\ pc[s] = "done"
    /\ Go(s, "start")
    /\ UNCHANGED <<rows, identities, locks, name, subject, answer, warned, sweeping, late, faults>>

-------------------------------------------------------------------------------
(* Failures of the local write and of the process. *)

WriteFails(p) ==
    /\ pc[p] \in {"insert", "link"}
    /\ Fault("refused")
    /\ Compensate(p, "error")
    /\ UNCHANGED <<rows, identities, name, subject, warned, todo, listed, report, late>>

\* PostgreSQL commits and the service is told that it did not.
CommitLost(p) ==
    /\ pc[p] \in {"insert", "link"}
    /\ Fault("commit_lost")
    /\ rows[name[p]] = IF p \in Creations THEN None ELSE "unlinked"
    /\ rows' = [rows EXCEPT ![name[p]] = subject[p]]
    /\ uncertain' = uncertain \cup {name[p]}
    /\ Compensate(p, "error")
    /\ UNCHANGED <<identities, name, subject, warned, todo, listed, report, late>>

\* The process dies, and with it the memory of the identity it created.
Crash(p) ==
    /\ ~Idle(p)
    /\ Fault("crash")
    /\ locks' = Unlocked(p)
    /\ answer' = IF p \in Creations /\ answer[p] = "pending"
                 THEN [answer EXCEPT ![p] = "crashed"] ELSE answer
    /\ subject' = [subject EXCEPT ![p] = None]
    /\ Go(p, "done")
    /\ UNCHANGED <<rows, identities, name, warned, sweeping, late>>

-------------------------------------------------------------------------------
\* Seeded users are not linked, and an administrator may have made a Keycloak
\* user by hand.
Init ==
    /\ rows = [n \in Names |-> IF n \in Seeded THEN "unlinked" ELSE None]
    /\ \E foreign \in Names \cup {None} :
          identities = [sub \in Subjects |->
              IF foreign # None /\ sub = CHOOSE x \in Subjects : TRUE
              THEN [name |-> foreign, role |-> FALSE] ELSE None]
    /\ locks = [n \in Names |-> None]
    /\ \E crew \in Crews :
          /\ pc = [p \in Processes |-> IF p \in crew.members THEN "start" ELSE "absent"]
          /\ faults = MaxFaults - crew.faults
    /\ name = [p \in Processes |-> None]
    /\ subject = [p \in Processes |-> None]
    /\ answer = [c \in Creations |-> "pending"]
    /\ warned = FALSE
    /\ todo = [s \in Sweeps |-> {}]
    /\ failures = [s \in Sweeps |-> {}]
    /\ listed = [s \in Sweeps |-> {}]
    /\ report = [s \in Sweeps |-> [failures |-> {}, orphans |-> {}]]
    /\ late = {} /\ uncertain = {}

\* What a process does on its own once it runs.
Proceed(p) ==
    \/ CallSucceeds(p)
    \/ CallRejected(p)
    \/ InsertUser(p)
    \/ LinkUser(p)
    \/ UsersDone(p)
    \/ ListIdentities(p)
    \/ ListLinks(p)

Fail(p) ==
    \/ CallFails(p) \/ CallTimesOut(p) \/ WriteFails(p)
    \/ LockFails(p) \/ ListingFails(p) \/ Crash(p)

Next ==
    \/ /\ \E p \in Processes :
             \/ CheckName(p) \/ ListUsers(p) \/ LockUser(p) \/ SweepAgain(p)
             \/ Proceed(p) \/ Fail(p)
       /\ UNCHANGED uncertain
    \/ DeliverLate /\ UNCHANGED uncertain
    \/ \E p \in Processes : CommitLost(p)

Spec == Init /\ [][Next]_allVars

\* Requests run to their end, the operator keeps running reconcile-users, a
\* sweep's turn for a row comes, and Keycloak's late work is done some day.
FairSpec ==
    /\ Spec
    /\ \A p \in Processes : WF_vars(Proceed(p))
    /\ \A s \in Sweeps :
          WF_vars(ListUsers(s)) /\ SF_vars(LockUser(s)) /\ WF_vars(SweepAgain(s))
    /\ WF_vars(DeliverLate)

-------------------------------------------------------------------------------
(* Correctness. *)

Quiet == (\A p \in Processes : Idle(p)) /\ late = {}

\* Every variable has the shape the two stores and the services give it.
TypeOK ==
    /\ rows \in [Names -> Subjects \cup {None, "unlinked"}]
    /\ identities \in [Subjects -> [name : Names, role : BOOLEAN] \cup {None}]
    /\ locks \in [Names -> Sweeps \cup {None}]
    /\ pc \in [Processes -> Steps]
    /\ name \in [Processes -> Names \cup {None}]
    /\ subject \in [Processes -> Subjects \cup {None}]
    /\ answer \in [Creations ->
          {"pending", "created", "username_conflict", "identity_conflict", "error", "crashed"}]
    /\ warned \in BOOLEAN
    /\ todo \in [Sweeps -> SUBSET Names]
    /\ failures \in [Sweeps -> SUBSET Names]
    /\ listed \in [Sweeps -> SUBSET Subjects]
    /\ report \in [Sweeps -> Report]
    /\ late \subseteq [call : Calls, name : Names, subject : Subjects]
    /\ faults \in 0..MaxFaults
    /\ uncertain \subseteq Names

\* A linked user has its identity, under its name and with its role, whatever
\* is compensated at the same time: an identity is removed only if linking it
\* failed (user.go:94-113; user_reconciliation.go:123-147).
LinkedHealthy == \A n \in Names : rows[n] \in Subjects => Healthy(n)

\* Nothing but a lost acknowledgement of the linking commit takes a linked user
\* the identity or its role, whatever fails, crashes, arrives late or is
\* compensated at the same time (user.go:94-113; user_reconciliation.go:123-147).
AcknowledgedHealthy ==
    \A n \in Names : rows[n] \in Subjects /\ n \notin uncertain => Healthy(n)

\* A creation that was refused leaves no identity it knows of behind, unless
\* the warning or the report says so (user.go:95-113, 300-304;
\* user_reconciliation.go:142-147).
NoSilentOrphan ==
    Quiet => \A p \in Processes :
        subject[p] \in Existing \ Linked =>
            IF p \in Creations THEN warned ELSE name[p] \in failures[p]

\* A user comes to exist in both stores at one instant or in neither, and a
\* creation that was refused stays without effect, though its calls are made,
\* lost and undone one at a time (user.go:55-120; user_reconciliation.go:97-150).
Register == INSTANCE Accounts WITH
    accounts <- [n \in Names |-> IF rows[n] \in Subjects THEN "linked" ELSE rows[n]],
    whole <- {n \in Names : rows[n] \in Subjects /\ Healthy(n)},
    asked <- [c \in Creations |-> name[c]],
    told <- answer
ImplementsAccounts == Register!Spec

\* "make reconcile-users ... provisions unlinked local users ... and reports
\* Keycloak-only orphans" (README.md:465-469): whatever went wrong, in the end
\* every user is whole or reported, and every orphan is reported.
EventuallyWholeOrReported ==
    <>[](/\ \A n \in Names : rows[n] # None =>
               Healthy(n) \/ \E s \in Sweeps : n \in report[s].failures
         /\ \A sub \in Existing \ Linked : \E s \in Sweeps : sub \in report[s].orphans)

-------------------------------------------------------------------------------
(* Why both safety properties hold: the invariant that the steps preserve.   *)

\* There is always an id that nothing mentions.
SubjectsSuffice == Unused # {}

\* A process has created an identity and not linked it yet.
Provisioning(p) == pc[p] \in {"set_role", "insert", "link"}

\* No user is acknowledged to be linked to it.
Unacknowledged(sub) == \A n \in Names : rows[n] = sub => n \in uncertain

\* What a process works on: an identity of its own that nobody is linked to, the
\* identity of the user it pushes, or one that it may delete.
WorkInv(p) ==
    /\ pc[p] \in Calls \cup {"insert", "link"} => name[p] \in Names
    /\ pc[p] \in {"create_user", "push"} => subject[p] = None
    /\ pc[p] = "start" /\ p \in Creations => subject[p] = None
    /\ pc[p] = "push" => rows[name[p]] \in Subjects
    /\ Provisioning(p) =>
          /\ subject[p] \in Existing \ Linked
          /\ identities[subject[p]].name = name[p]
          /\ pc[p] # "set_role" => identities[subject[p]].role
    /\ pc[p] = "delete_user" => subject[p] \in Subjects /\ Unacknowledged(subject[p])

\* An identity that a process leaves behind is reported, unless the process is
\* still at it: a sweep that starts again comes to its user again.
OrphanInv(p) ==
    subject[p] \in Existing \ Linked =>
        IF p \in Creations
        THEN pc[p] \in {"set_role", "insert", "delete_user"} \/ warned
        ELSE \/ pc[p] \in {"set_role", "link"} \/ name[p] \in failures[p]
             \/ pc[p] = "next_user" /\ todo[p] # {}

TodoInv(s) ==
    /\ \A n \in todo[s] : rows[n] # None
    /\ subject[s] # None \/ pc[s] = "create_user" => name[s] \in Names /\ rows[name[s]] # None

\* What a call may do whenever it arrives: push a user to its own identity, or
\* change an identity that nobody is acknowledged to be linked to.
MessageInv(m) ==
    IF m.call = "push" THEN rows[m.name] = m.subject ELSE Unacknowledged(m.subject)

\* No process still counts on the identity a late call is about.
LateInv ==
    \A m \in late :
        /\ MessageInv(m)
        /\ \A p \in Processes :
              Provisioning(p) \/ m.call = "create_user" => subject[p] # m.subject

ProvisioningInv ==
    /\ TypeOK
    /\ AcknowledgedHealthy
    /\ \A n, k \in Names : rows[n] = rows[k] /\ rows[n] \in Subjects => n = k
    /\ \A p, q \in Processes : subject[p] = subject[q] /\ subject[p] # None => p = q
    /\ \A p \in Processes : WorkInv(p) /\ OrphanInv(p)
    /\ \A s \in Sweeps : TodoInv(s)
    /\ LateInv

\* A creation is answered when its last chance to link its user is gone.
AnswerInv(c) ==
    /\ pc[c] \in {"start", "absent", "create_user", "set_role", "insert", "delete_user", "done"}
    /\ pc[c] = "start" => name[c] = None
    /\ pc[c] \notin {"delete_user", "done"} => answer[c] = "pending"
===============================================================================
