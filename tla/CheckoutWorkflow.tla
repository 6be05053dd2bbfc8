--------------------------- MODULE CheckoutWorkflow ---------------------------
(***************************************************************************)
(* The checkout and return transactions of services/checkout.go, with the  *)
(* two other writers of the rows they read: item deletion                  *)
(* (services/item.go, Delete) and account activation (services/user.go,    *)
(* SetActive) as PostgreSQL sees it.                                       *)
(*                                                                         *)
(* A request runs one transaction, one SQL statement per step.  Statements *)
(* of different requests interleave; a statement waits for the row locks   *)
(* it asks for, in the line that PostgreSQL forms at a locked row, locks   *)
(* are kept until the transaction ends, and what a transaction writes is   *)
(* seen by the others when it commits (READ COMMITTED).  Each request is   *)
(* made once; a checkout row is named by the request that creates it.      *)
(***************************************************************************)
EXTENDS Integers, Sequences

CONSTANTS
    Users,
    Items,
    CheckoutRequests,    \* POST /items/:id/checkouts; also the checkout rows
    ReturnRequests,      \* POST /checkouts/:id/return
    DeleteRequests,      \* DELETE /items/:id
    ActivationRequests,  \* PATCH /users/:id/status
    TokenRole,           \* the role each user's access token carries
    DueInputs,           \* how due_at compares with the transaction's timestamp
    MaxFaults,           \* bound: aborts and lost commit acknowledgements
    None                 \* SQL NULL, and the id of a row that does not exist

Requests ==
    CheckoutRequests \cup ReturnRequests \cup DeleteRequests \cup ActivationRequests

Loan == [item : Items, borrower : Users, createdBy : Users, returnedTo : Users \cup {None}]

\* Answers that refuse the request, answers that grant it, and no answer yet.
Refusals ==
    {"account_inactive", "forbidden", "borrower_not_found", "borrower_inactive",
     "item_not_found", "item_not_available", "invalid_due_at", "checkout_not_found",
     "checkout_returned", "state_conflict", "item_in_use", "not_synchronized"}
Grants == {"created", "returned", "deleted", "updated"}
Answers == Refusals \cup Grants \cup {"internal_error", "pending"}

Steps ==
    {"new", "borrower", "item", "insert", "status",
     "loan", "loan_item", "settle", "restore",
     "remove", "references", "user", "identity", "commit", "done"}

RoleCapabilities ==
    [employee        |-> {"inventory_read", "checkout_self"},
     inventory_admin |-> {"inventory_read", "inventory_manage", "users_manage",
                          "checkout_self", "checkout_manage", "history_read_all"},
     auditor         |-> {"inventory_read", "history_read_all"}]

ASSUME KindsDisjoint ==
    /\ CheckoutRequests \cap (ReturnRequests \cup DeleteRequests \cup ActivationRequests) = {}
    /\ ReturnRequests \cap (DeleteRequests \cup ActivationRequests) = {}
    /\ DeleteRequests \cap ActivationRequests = {}
ASSUME NoneIsNoRow == None \notin Users \cup Items \cup CheckoutRequests \cup Loan
ASSUME TokenRoleType == TokenRole \in [Users -> DOMAIN RoleCapabilities]
ASSUME DueInputsType == DueInputs \subseteq {"none", "later", "elapsed", "sub_microsecond"}
ASSUME MaxFaultsType == MaxFaults \in Nat

VARIABLES
    \* the committed database
    active,      \* users.is_active
    status,      \* items.status, "absent" once the row is deleted
    checkouts,   \* the checkouts table
    history,     \* item_status_history, per item in insertion order
    audit,       \* audit_events of entity type checkout, per checkout
    \* the requests
    pc,          \* the statement a request executes next
    req,         \* its input, and the rows its transaction has read so far
    answer,      \* what its client was told
    updateLocks, \* rows its transaction holds FOR UPDATE
    shareLocks,  \* rows it holds FOR SHARE or FOR KEY SHARE
    tupleLock,   \* the row it is first in line for: it holds the tuple lock
    behind,      \* those whose tuple lock it waits for, further back in line
    faults       \* faults that occurred

database == <<active, status, checkouts, history, audit>>
vars == <<active, status, checkouts, history, audit,
          pc, req, answer, updateLocks, shareLocks, tupleLock, behind, faults>>

-------------------------------------------------------------------------------
(* Authorization: services/authentication.go, services/checkout.go. *)

Has(u, capability) == capability \in RoleCapabilities[TokenRole[u]]

CanManageCheckouts(u) == Has(u, "checkout_manage")
CanUseSelfCheckout(u) == Has(u, "checkout_self")

AuthorizeCheckoutBorrower(u, borrower) ==
    CanManageCheckouts(u) \/ (CanUseSelfCheckout(u) /\ borrower = u)

MayReturn(u, loan) ==
    CanManageCheckouts(u) \/ (CanUseSelfCheckout(u) /\ loan.borrower = u)

-------------------------------------------------------------------------------
(* Row locks.  FOR UPDATE excludes every other lock on the row; FOR SHARE   *)
(* and the FOR KEY SHARE of a foreign-key check exclude FOR UPDATE only.    *)
(* ActiveKey(i) is the entry of item i in uq_checkouts_one_active_per_item. *)

ActiveKey(i) == <<i, "active">>

\* Rows of different tables are different rows, and the index is none of them.
ASSUME RowsApart ==
    /\ Users \cap Items = {} /\ (Users \cup Items) \cap CheckoutRequests = {}
    /\ \A i \in Items : ActiveKey(i) \notin Users \cup Items \cup CheckoutRequests

\* Mutant: the insert writes the borrower's row, which was read FOR SHARE.
WantsUpdateOfBorrower(r) ==
    CASE pc[r] \in {"item", "status", "loan_item", "restore", "remove"} -> {req[r].item}
      [] pc[r] = "insert"               -> {ActiveKey(req[r].item), req[r].user}
      [] pc[r] = "settle"               -> {ActiveKey(req[r].item)}
      [] pc[r] = "loan"                 -> {req[r].loan}
      [] pc[r] = "user"                 -> {req[r].user}
      [] OTHER                          -> {}

WantsUpdate(r) ==
    CASE pc[r] \in {"item", "status", "loan_item", "restore", "remove"} -> {req[r].item}
      [] pc[r] \in {"insert", "settle"} -> {ActiveKey(req[r].item)}
      [] pc[r] = "loan"                 -> {req[r].loan}
      [] pc[r] = "user"                 -> {req[r].user}
      [] OTHER                          -> {}

\* Mutant: the borrower is read without FOR SHARE.
WantsShareButNotBorrower(r) ==
    CASE pc[r] = "insert"     -> {req[r].user, req[r].actor, req[r].item}
      [] pc[r] = "settle"     -> {req[r].actor}
      [] pc[r] = "references" -> {req[r].loan}
      [] OTHER                -> {}

WantsShare(r) ==
    CASE pc[r] = "borrower"   -> {req[r].user} \cap Users
      [] pc[r] = "insert"     -> {req[r].user, req[r].actor, req[r].item}
      [] pc[r] = "settle"     -> {req[r].actor}
      [] pc[r] = "references" -> {req[r].loan}
      [] OTHER                -> {}

\* The rows r asks for that s holds in a way that excludes r.
ContestedRows(r, s) ==
    (WantsUpdate(r) \cap (updateLocks[s] \cup shareLocks[s]))
        \cup (WantsShare(r) \cap updateLocks[s])

Holders(r) == {s \in Requests \ {r} : ContestedRows(r, s) # {}}

\* A request that must wait for a row first takes the row's tuple lock, which
\* it keeps until it has the row; those who come later wait for the tuple lock
\* of an earlier one, unless both only share.  A request that finds the row
\* free takes it without standing in line.
TableRows == Users \cup Items \cup CheckoutRequests

Ahead(r, row) ==
    {s \in Requests \ {r} :
        tupleLock[s] = row /\ row \in WantsUpdate(r) \cup WantsUpdate(s)}

Blockers(r) == Holders(r) \cup behind[r]

Waiting == {r \in Requests : Blockers(r) # {}}

\* r waits, directly or through others, for itself: it is in every set that
\* leads from r, and from its own members, to all the waiting they wait for.
Deadlocked(r) ==
    /\ Blockers(r) # {}
    /\ LET waiting == Waiting
       IN  \A S \in SUBSET waiting :
              (\A s \in S \cup {r} : Blockers(s) \cap waiting \subseteq S) => r \in S

LoansOf(i) == {c \in CheckoutRequests : checkouts[c] # None /\ checkouts[c].item = i}
OpenLoans(i) == {c \in LoansOf(i) : checkouts[c].returnedTo = None}

-------------------------------------------------------------------------------
(* How a request moves. *)

\* Mutant: the statements run on the pool instead of the transaction.
AcquireNothing(r) == UNCHANGED <<updateLocks, shareLocks>>

Acquire(r) ==
    /\ updateLocks' = [updateLocks EXCEPT ![r] = @ \cup WantsUpdate(r)]
    /\ shareLocks' = [shareLocks EXCEPT ![r] = @ \cup WantsShare(r)]

\* Mutant: an error leaves the transaction open.
FinishWithoutRelease(r, a) ==
    /\ pc' = [pc EXCEPT ![r] = "done"]
    /\ answer' = [answer EXCEPT ![r] = a]
    /\ UNCHANGED <<updateLocks, shareLocks>>

\* The transaction ends, by commit or by rollback, and the client is answered.
Finish(r, a) ==
    /\ pc' = [pc EXCEPT ![r] = "done"]
    /\ answer' = [answer EXCEPT ![r] = a]
    /\ updateLocks' = [updateLocks EXCEPT ![r] = {}]
    /\ shareLocks' = [shareLocks EXCEPT ![r] = {}]

Leave(gone) ==
    /\ tupleLock' = [s \in Requests |-> IF s \in gone THEN None ELSE tupleLock[s]]
    /\ behind' = [s \in Requests |-> IF s \in gone THEN {} ELSE behind[s] \ gone]

\* A commit ends the lines at the rows r wrote: the first in line gives up the
\* tuple lock of the old version and asks for the new one.  A rollback leaves
\* the rows as they were, and the lines at them too.
LeaveAndDissolve(r) == Leave({r} \cup {s \in Requests : tupleLock[s] \in updateLocks[r]})

\* A statement that must wait for a row takes its place in the line.
QueueUp(r) ==
    /\ tupleLock[r] = None /\ behind[r] = {}
    /\ \E s \in Holders(r), row \in TableRows :
          /\ row \in ContestedRows(r, s)
          /\ IF Ahead(r, row) = {}
             THEN tupleLock' = [tupleLock EXCEPT ![r] = row] /\ UNCHANGED behind
             ELSE behind' = [behind EXCEPT ![r] = Ahead(r, row)] /\ UNCHANGED tupleLock
    /\ UNCHANGED <<active, status, checkouts, history, audit,
                   pc, req, answer, updateLocks, shareLocks, faults>>

\* One statement: it waits for its locks, then either the transaction goes on
\* to the next statement or the service returns the outcome as its error.
Statement(r, at, outcome, next) ==
    /\ pc[r] = at
    /\ Blockers(r) = {}
    /\ IF outcome = "ok"
       THEN Acquire(r) /\ pc' = [pc EXCEPT ![r] = next] /\ UNCHANGED answer
       ELSE Finish(r, outcome)
    /\ Leave({r})
    /\ UNCHANGED <<active, status, checkouts, history, audit, faults>>

\* Authentication, the route's capability and the service's own check all come
\* before the transaction begins.
Submit(r, input, permitted, first) ==
    /\ pc[r] = "new"
    /\ req' = [req EXCEPT ![r] = input]
    /\ IF active[input.actor] /\ permitted
       THEN pc' = [pc EXCEPT ![r] = first] /\ UNCHANGED answer
       ELSE /\ pc' = [pc EXCEPT ![r] = "done"]
            /\ answer' = [answer EXCEPT ![r] =
                            IF active[input.actor] THEN "forbidden" ELSE "account_inactive"]
    /\ UNCHANGED <<active, status, checkouts, history, audit,
                   updateLocks, shareLocks, tupleLock, behind, faults>>

Input ==
    [actor : Users, item : Items \cup {None}, user : Users \cup {None},
     loan : CheckoutRequests \cup {None}, due : DueInputs \cup {"none"}, enable : BOOLEAN]

InputOf(actor) ==
    [actor |-> actor, item |-> None, user |-> None, loan |-> None,
     due |-> "none", enable |-> FALSE]

-------------------------------------------------------------------------------
(* Checkout. *)

ArriveCheckout(r) ==
    /\ r \in CheckoutRequests
    /\ \E actor \in Users, i \in Items, borrower \in Users \cup {None}, due \in DueInputs :
          Submit(r,
                 [InputOf(actor) EXCEPT !.item = i, !.user = borrower, !.due = due],
                 AuthorizeCheckoutBorrower(actor, borrower),
                 "borrower")

\* Mutants: an unknown or an inactive borrower is accepted.
BorrowerOutcomeUnknownAccepted(r) ==
    IF req[r].user # None /\ ~active[req[r].user] THEN "borrower_inactive" ELSE "ok"
BorrowerOutcomeInactiveAccepted(r) ==
    IF req[r].user = None THEN "borrower_not_found" ELSE "ok"

BorrowerOutcome(r) ==
    IF req[r].user = None THEN "borrower_not_found"
    ELSE IF ~active[req[r].user] THEN "borrower_inactive"
    ELSE "ok"

GetCheckoutBorrowerForShare(r) ==
    /\ r \in CheckoutRequests
    /\ Statement(r, "borrower", BorrowerOutcome(r), "item")
    /\ UNCHANGED req

ItemOutcome(r) ==
    IF status[req[r].item] = "absent" THEN "item_not_found"
    ELSE IF status[req[r].item] # "available" THEN "item_not_available"
    ELSE IF req[r].due = "elapsed" THEN "invalid_due_at"
    ELSE "ok"

GetItemForStatusUpdate(r) ==
    /\ r \in CheckoutRequests
    /\ Statement(r, "item", ItemOutcome(r), "insert")
    /\ UNCHANGED req

\* The column keeps microseconds: a due_at less than one after the transaction
\* timestamp passes the service's test and fails ck_checkouts_due_after_checkout.
InsertOutcome(r) ==
    IF req[r].due = "sub_microsecond" THEN "invalid_due_at"
    ELSE IF OpenLoans(req[r].item) # {} THEN "item_not_available"
    ELSE "ok"

CreateCheckout(r) ==
    /\ r \in CheckoutRequests
    /\ Statement(r, "insert", InsertOutcome(r), "status")
    /\ UNCHANGED req

\* The UPDATE expects the status it read; the history and audit rows inserted
\* after it need no lock the transaction does not hold.
LendStatusOutcome(r) ==
    IF status[req[r].item] = "available" THEN "ok" ELSE "item_not_available"

SetItemCheckedOut(r) ==
    /\ r \in CheckoutRequests
    /\ Statement(r, "status", LendStatusOutcome(r), "commit")
    /\ UNCHANGED req

\* Mutant: the two statuses are swapped.
HistoryEntrySwapped(from, to, source, by) ==
    [from |-> to, to |-> from, source |-> source, by |-> by]

HistoryEntry(from, to, source, by) ==
    [from |-> from, to |-> to, source |-> source, by |-> by]

AuditEvent(action, by) == [action |-> action, by |-> by]

PublishCheckout(r) ==
    LET in == req[r]
    IN  /\ checkouts' = [checkouts EXCEPT ![r] =
                [item |-> in.item, borrower |-> in.user, createdBy |-> in.actor,
                 returnedTo |-> None]]
        /\ status' = [status EXCEPT ![in.item] = "checked_out"]
        /\ history' = [history EXCEPT ![in.item] =
                Append(@, HistoryEntry("available", "checked_out", r, in.actor))]
        /\ audit' = [audit EXCEPT ![r] =
                Append(@, AuditEvent("checkout.created", in.actor))]
        /\ UNCHANGED active

-------------------------------------------------------------------------------
(* Return. *)

ArriveReturn(r) ==
    /\ r \in ReturnRequests
    /\ \E actor \in Users, c \in CheckoutRequests :
          Submit(r,
                 [InputOf(actor) EXCEPT !.loan = c],
                 CanManageCheckouts(actor) \/ CanUseSelfCheckout(actor),
                 "loan")

\* Mutant: anyone may return a loan.
LoanOutcomeOfAnyBorrower(r) ==
    LET row == checkouts[req[r].loan]
    IN  IF row = None THEN "checkout_not_found"
        ELSE IF row.returnedTo # None THEN "checkout_returned"
        ELSE "ok"

\* Mutant: a loan that was returned before is taken back again.
LoanOutcomeReturnedUnchecked(r) ==
    LET row == checkouts[req[r].loan]
    IN  IF row = None THEN "checkout_not_found"
        ELSE IF ~MayReturn(req[r].actor, row) THEN "forbidden"
        ELSE "ok"

LoanOutcome(r) ==
    LET row == checkouts[req[r].loan]
    IN  IF row = None THEN "checkout_not_found"
        ELSE IF ~MayReturn(req[r].actor, row) THEN "forbidden"
        ELSE IF row.returnedTo # None THEN "checkout_returned"
        ELSE "ok"

GetCheckoutForUpdate(r) ==
    /\ r \in ReturnRequests
    /\ Statement(r, "loan", LoanOutcome(r), "loan_item")
    /\ req' = IF LoanOutcome(r) = "ok"
              THEN [req EXCEPT ![r].item = checkouts[req[r].loan].item]
              ELSE req

LoanItemOutcome(r) ==
    IF status[req[r].item] = "checked_out" THEN "ok" ELSE "state_conflict"

GetLoanItemForStatusUpdate(r) ==
    /\ r \in ReturnRequests
    /\ Statement(r, "loan_item", LoanItemOutcome(r), "settle")
    /\ UNCHANGED req

SettleOutcome(r) ==
    IF checkouts[req[r].loan].returnedTo = None THEN "ok" ELSE "checkout_returned"

ReturnCheckout(r) ==
    /\ r \in ReturnRequests
    /\ Statement(r, "settle", SettleOutcome(r), "restore")
    /\ UNCHANGED req

SetItemAvailable(r) ==
    /\ r \in ReturnRequests
    /\ Statement(r, "restore", LoanItemOutcome(r), "commit")
    /\ UNCHANGED req

\* Mutant: the audit event names the borrower instead of the actor.
PublishReturnAuditingBorrower(r) ==
    LET in == req[r]
    IN  /\ checkouts' = [checkouts EXCEPT ![in.loan].returnedTo = in.actor]
        /\ status' = [status EXCEPT ![in.item] = "available"]
        /\ history' = [history EXCEPT ![in.item] =
                Append(@, HistoryEntry("checked_out", "available", in.loan, in.actor))]
        /\ audit' = [audit EXCEPT ![in.loan] =
                Append(@, AuditEvent("checkout.returned", checkouts[in.loan].borrower))]
        /\ UNCHANGED active

PublishReturn(r) ==
    LET in == req[r]
    IN  /\ checkouts' = [checkouts EXCEPT ![in.loan].returnedTo = in.actor]
        /\ status' = [status EXCEPT ![in.item] = "available"]
        /\ history' = [history EXCEPT ![in.item] =
                Append(@, HistoryEntry("checked_out", "available", in.loan, in.actor))]
        /\ audit' = [audit EXCEPT ![in.loan] =
                Append(@, AuditEvent("checkout.returned", in.actor))]
        /\ UNCHANGED active

-------------------------------------------------------------------------------
(* Item deletion: one statement that locks the item and then checks, in the *)
(* ON DELETE RESTRICT trigger, the first checkout it finds for the item,    *)
(* locking that row FOR KEY SHARE.                                          *)

ArriveDelete(r) ==
    /\ r \in DeleteRequests
    /\ \E actor \in Users, i \in Items :
          Submit(r, [InputOf(actor) EXCEPT !.item = i],
                 Has(actor, "inventory_manage"), "remove")

RemoveOutcome(r) == IF status[req[r].item] = "absent" THEN "item_not_found" ELSE "ok"

DeleteItem(r) ==
    /\ r \in DeleteRequests
    /\ pc[r] = "remove"
    /\ IF LoansOf(req[r].item) = {}
       THEN Statement(r, "remove", RemoveOutcome(r), "commit") /\ UNCHANGED req
       ELSE \E c \in LoansOf(req[r].item) :
                /\ Statement(r, "remove", "ok", "references")
                /\ req' = [req EXCEPT ![r].loan = c]

ProbeReferences(r) ==
    /\ r \in DeleteRequests
    /\ Statement(r, "references", "item_in_use", "done")
    /\ UNCHANGED req

PublishDelete(r) ==
    /\ status' = [status EXCEPT ![req[r].item] = "absent"]
    /\ UNCHANGED <<active, checkouts, history, audit>>

-------------------------------------------------------------------------------
(* Account activation: the row is locked before the identity provider is   *)
(* called and written after it.                                            *)

ArriveActivation(r) ==
    /\ r \in ActivationRequests
    /\ \E actor \in Users, u \in Users, enable \in BOOLEAN :
          Submit(r, [InputOf(actor) EXCEPT !.user = u, !.enable = enable],
                 Has(actor, "users_manage"), "user")

GetUserForUpdate(r) ==
    /\ r \in ActivationRequests
    /\ Statement(r, "user", "ok", "identity")
    /\ UNCHANGED req

\* With the row locked the service may find that the user has no identity to
\* manage or conflicts with another, or the identity provider may refuse.
ReplaceIdentity(r) ==
    /\ r \in ActivationRequests
    /\ \E outcome \in {"ok", "not_synchronized"} :
          Statement(r, "identity", outcome, "commit")
    /\ UNCHANGED req

PublishActivation(r) ==
    /\ active' = [active EXCEPT ![req[r].user] = req[r].enable]
    /\ UNCHANGED <<status, checkouts, history, audit>>

-------------------------------------------------------------------------------
(* The ends of a transaction: db/transaction.go. *)

Publish(r) ==
    \/ r \in CheckoutRequests /\ PublishCheckout(r)
    \/ r \in ReturnRequests /\ PublishReturn(r)
    \/ r \in DeleteRequests /\ PublishDelete(r)
    \/ r \in ActivationRequests /\ PublishActivation(r)

GrantOf(r) ==
    CASE r \in CheckoutRequests -> "created"
      [] r \in ReturnRequests   -> "returned"
      [] r \in DeleteRequests   -> "deleted"
      [] OTHER                  -> "updated"

Commit(r) ==
    /\ pc[r] = "commit"
    /\ Publish(r)
    /\ Finish(r, GrantOf(r))
    /\ LeaveAndDissolve(r)
    /\ UNCHANGED <<req, faults>>

\* The server commits and the connection breaks before Commit returns.
CommitUnacknowledged(r) ==
    /\ pc[r] = "commit"
    /\ faults < MaxFaults
    /\ faults' = faults + 1
    /\ Publish(r)
    /\ Finish(r, "internal_error")
    /\ LeaveAndDissolve(r)
    /\ UNCHANGED req

\* A statement fails, the request's deadline passes or the process dies: the
\* transaction rolls back.
Abort(r) ==
    /\ pc[r] \notin {"new", "done"}
    /\ faults < MaxFaults
    /\ faults' = faults + 1
    /\ Finish(r, "internal_error")
    /\ Leave({r})
    /\ UNCHANGED <<active, status, checkouts, history, audit, req>>

\* PostgreSQL breaks a cycle of waits by aborting one of its members, the first
\* whose deadlock_timeout expires: a holder, or one that stands in line.
DeadlockAbort(r) ==
    /\ pc[r] \notin {"new", "done"}
    /\ Deadlocked(r)
    /\ Finish(r, "internal_error")
    /\ Leave({r})
    /\ UNCHANGED <<active, status, checkouts, history, audit, req, faults>>

-------------------------------------------------------------------------------
\* No operation writes "maintenance" or "retired", but the schema allows them;
\* the code treats the two alike, so "maintenance" stands for both.
Init ==
    /\ active \in [Users -> BOOLEAN]
    /\ status \in [Items -> {"available", "maintenance"}]
    /\ checkouts = [c \in CheckoutRequests |-> None]
    /\ history = [i \in Items |-> <<>>]
    /\ audit = [c \in CheckoutRequests |-> <<>>]
    /\ pc = [r \in Requests |-> "new"]
    /\ req = [r \in Requests |-> None]
    /\ answer = [r \in Requests |-> "pending"]
    /\ updateLocks = [r \in Requests |-> {}]
    /\ shareLocks = [r \in Requests |-> {}]
    /\ tupleLock = [r \in Requests |-> None]
    /\ behind = [r \in Requests |-> {}]
    /\ faults = 0

Arrive(r) ==
    \/ ArriveCheckout(r)
    \/ ArriveReturn(r)
    \/ ArriveDelete(r)
    \/ ArriveActivation(r)

Proceed(r) ==
    \/ GetCheckoutBorrowerForShare(r)
    \/ GetItemForStatusUpdate(r)
    \/ CreateCheckout(r)
    \/ SetItemCheckedOut(r)
    \/ GetCheckoutForUpdate(r)
    \/ GetLoanItemForStatusUpdate(r)
    \/ ReturnCheckout(r)
    \/ SetItemAvailable(r)
    \/ DeleteItem(r)
    \/ ProbeReferences(r)
    \/ GetUserForUpdate(r)
    \/ ReplaceIdentity(r)
    \/ Commit(r)
    \/ DeadlockAbort(r)

Fail(r) == Abort(r) \/ CommitUnacknowledged(r)

\* Every request was answered: the only state in which nothing may happen.
Terminated == (\A r \in Requests : pc[r] = "done") /\ UNCHANGED vars

Next == (\E r \in Requests : Arrive(r) \/ QueueUp(r) \/ Proceed(r) \/ Fail(r)) \/ Terminated

Spec == Init /\ [][Next]_vars

FairSpec == Spec /\ \A r \in Requests : WF_vars(Proceed(r))

-------------------------------------------------------------------------------
(* Correctness. *)

Statuses == {"available", "checked_out", "maintenance", "absent"}
HistoryEntries ==
    [from : Statuses, to : Statuses, source : CheckoutRequests, by : Users]
AuditEvents == [action : {"checkout.created", "checkout.returned"}, by : Users]
Rows == Users \cup Items \cup CheckoutRequests \cup {ActiveKey(i) : i \in Items}

LinesOK ==
    /\ tupleLock \in [Requests -> TableRows \cup {None}]
    /\ behind \in [Requests -> SUBSET Requests]

\* Every variable has the shape the schema and the services give it.
TypeOK ==
    /\ active \in [Users -> BOOLEAN]
    /\ status \in [Items -> Statuses]
    /\ checkouts \in [CheckoutRequests -> Loan \cup {None}]
    /\ history \in [Items -> Seq(HistoryEntries)]
    /\ audit \in [CheckoutRequests -> Seq(AuditEvents)]
    /\ pc \in [Requests -> Steps]
    /\ req \in [Requests -> Input \cup {None}]
    /\ answer \in [Requests -> Answers]
    /\ updateLocks \in [Requests -> SUBSET Rows]
    /\ shareLocks \in [Requests -> SUBSET Rows]
    /\ LinesOK
    /\ faults \in 0..MaxFaults

\* items.status and the checkouts table are written by separate statements: an
\* item is checked out exactly when it has an open loan, it never has two, and
\* a deleted item has none (checkout.go:130-149, 238-257; item.go:160).
AtMostOneOpenLoan == \A i \in Items : \A c, d \in OpenLoans(i) : c = d
CheckedOutIffOpenLoan ==
    \A i \in Items : status[i] = "checked_out" <=> OpenLoans(i) # {}
DeletedNeverLent == \A i \in Items : status[i] = "absent" => LoansOf(i) = {}
StatusAgrees == AtMostOneOpenLoan /\ CheckedOutIffOpenLoan /\ DeletedNeverLent

\* The history of an item is one unbroken chain: each entry starts where the
\* last one ended, a return follows the loan it ends, and the chain ends at the
\* item's current status (checkout.go:151-161, 259-269).
HistoryChain ==
    \A i \in Items :
        LET h == history[i]
        IN  /\ \A k \in 2..Len(h) :
                  /\ h[k].from = h[k - 1].to
                  /\ h[k].to = "available" => h[k].source = h[k - 1].source
            /\ h # <<>> => h[1].from = "available" /\ h[Len(h)].to = status[i]

\* The audit trail of a checkout tells its life and who acted: created by its
\* creator, then returned by who took it back, and nothing else
\* (checkout.go:172-181, 279-288).
AuditTrail ==
    \A c \in CheckoutRequests :
        audit[c] =
            IF checkouts[c] = None THEN <<>>
            ELSE LET created == AuditEvent("checkout.created", checkouts[c].createdBy)
                 IN  IF checkouts[c].returnedTo = None THEN <<created>>
                     ELSE <<created, AuditEvent("checkout.returned", checkouts[c].returnedTo)>>

\* What a client was told is what happened, whatever ran at the same time: a
\* grant left its rows, a refusal none, and a refusal's reason is a fact of the
\* database (checkout.go:569-598; item.go:160-169).  The service's defence
\* against an item that contradicts its open loan (checkout.go:227-236, 249-257)
\* is never needed.
AnswersTruthful ==
    \A r \in Requests :
        /\ answer[r] # "state_conflict"
        /\ r \in CheckoutRequests =>
              /\ answer[r] = "created" =>
                    /\ checkouts[r] # None
                    /\ req[r].due \in {"none", "later"}
              /\ answer[r] \in Refusals => checkouts[r] = None
              /\ answer[r] = "item_not_found" => status[req[r].item] = "absent"
        /\ r \in ReturnRequests =>
              /\ answer[r] = "returned" => checkouts[req[r].loan].returnedTo = req[r].actor
              /\ answer[r] = "checkout_returned" => checkouts[req[r].loan].returnedTo # None
        /\ r \in DeleteRequests =>
              /\ answer[r] = "deleted" => status[req[r].item] = "absent"
              /\ answer[r] = "item_in_use" => LoansOf(req[r].item) # {}

\* One loan is taken back for one request only, however many ask at once
\* (checkout.go:212-225, 238-247).
ReturnedOnce ==
    \A r, s \in ReturnRequests :
        answer[r] = "returned" /\ answer[s] = "returned" /\ req[r].loan = req[s].loan => r = s

\* Every loan was made by its borrower or by an administrator and ended by
\* either, an auditor takes no part (checkout.go:219-222, 475-484).
LoansAuthorized ==
    \A c \in CheckoutRequests :
        checkouts[c] # None =>
            /\ AuthorizeCheckoutBorrower(checkouts[c].createdBy, checkouts[c].borrower)
            /\ \/ checkouts[c].returnedTo = None
               \/ MayReturn(checkouts[c].returnedTo, checkouts[c])

\* The account a loan is made to is active at the moment the loan becomes
\* visible, not only when the service looked (checkout.go:100-109, FOR SHARE).
BorrowerActiveAtCommit ==
    [][\A c \in CheckoutRequests :
          checkouts[c] = None /\ checkouts'[c] # None => active[checkouts'[c].borrower]]_vars

\* Every request that reached the service is answered: no row lock outlives
\* its transaction and no wait for one lasts (transaction.go:35-51).
Answered == \A r \in Requests : pc[r] \notin {"new", "done"} ~> pc[r] = "done"

\* Requests that wait for each other in a circle, however many, include a return
\* and the deletion of its item that hold what the other waits for: checkouts,
\* returns and activations take their rows in an order of which only item.go:160
\* knows nothing (checkout.go:100-149, 212-257).  One other circle exists, and
\* only after an account change was undone with its row locked (user.go:260-278):
\* the next account change is still first in line at that row, some request
\* stands behind it, and a checkout that found the row free meanwhile waits for
\* that request.
Circle(waiting) ==
    waiting # {} /\ \A r \in waiting : Blockers(r) \cap waiting # {}

Undone(user) ==
    \E a \in ActivationRequests :
        /\ answer[a] \in {"not_synchronized", "internal_error"}
        /\ req[a].user = user

OnlyReturnAndDeletionDeadlock ==
    \A waiting \in SUBSET Waiting :
        Circle(waiting) =>
            \/ \E r \in waiting \cap ReturnRequests, d \in waiting \cap DeleteRequests :
                  r \in Blockers(d) /\ d \in Blockers(r)
            \/ \E r \in waiting \ ActivationRequests, a \in waiting \cap ActivationRequests :
                  a \in behind[r] /\ Undone(req[a].user)

\* While requests are in progress one of them can go on, or PostgreSQL ends one
\* that waits for itself: locks and places in line outlive no transaction, and
\* nobody waits for a request that is not in progress (transaction.go:35-51).
InProgress == {r \in Requests : pc[r] \notin {"new", "done"}}

SomeoneProceeds ==
    InProgress # {} => \E r \in InProgress : Blockers(r) = {} \/ Deadlocked(r)

\* The item a request is about, once it is known.
Concerns(r, i) ==
    /\ pc[r] # "new"
    /\ \/ r \in ReturnRequests /\ req[r].loan \in LoansOf(i)
       \/ r \in CheckoutRequests \cup DeleteRequests /\ req[r].item = i

\* Two account changes of one user, of which one was undone.
ChangeUndoneBesideAnother ==
    \E a, b \in ActivationRequests :
        /\ a # b /\ answer[a] = "not_synchronized"
        /\ pc[b] # "new" /\ req[b].user = req[a].user

\* So a request is answered with an internal error only if something failed, or
\* a return and a deletion were asked for the item it is about, or an account
\* change was undone beside another (transaction.go:41-48, item.go:160).
FailsOnlyByFault ==
    \A r \in Requests : answer[r] = "internal_error" =>
        \/ faults > 0
        \/ ChangeUndoneBesideAnother
        \/ \E i \in Items, t \in ReturnRequests, d \in DeleteRequests :
              Concerns(r, i) /\ Concerns(t, i) /\ Concerns(d, i)

\* The workflow implements the ledger.
Ledger == INSTANCE EquipmentLedger WITH
    Loans <- CheckoutRequests,
    open <- [i \in Items |-> OpenLoans(i)],
    closed <- [i \in Items |-> LoansOf(i) \ OpenLoans(i)],
    present <- {i \in Items : status[i] \in {"available", "checked_out"}},
    enabled <- {u \in Users : active[u]}
ImplementsLedger == Ledger!Spec

-------------------------------------------------------------------------------
(* The inductive invariant: why StatusAgrees holds.  A request keeps the    *)
(* rows it decided on locked, so what it read stays true until it commits.  *)

\* A row held FOR UPDATE is held by nobody else.
LockInv ==
    \A r, s \in Requests :
        r # s => updateLocks[r] \cap (updateLocks[s] \cup shareLocks[s]) = {}

CheckoutInv(r) ==
    LET in == req[r]
    IN  /\ pc[r] \in {"new", "borrower", "item", "insert", "status", "commit", "done"}
        /\ pc[r] # "done" => checkouts[r] = None
        /\ pc[r] \in {"borrower", "item", "insert", "status", "commit"} => in.item \in Items
        /\ pc[r] \in {"item", "insert", "status", "commit"} =>
              in.user \in Users /\ in.user \in shareLocks[r] /\ active[in.user]
        /\ pc[r] \in {"insert", "status", "commit"} =>
              in.item \in updateLocks[r] /\ status[in.item] = "available"

ReturnInv(r) ==
    LET in == req[r]
    IN  /\ pc[r] \in {"new", "loan", "loan_item", "settle", "restore", "commit", "done"}
        /\ pc[r] \in {"loan", "loan_item", "settle", "restore", "commit"} =>
              in.loan \in CheckoutRequests
        /\ pc[r] \in {"loan_item", "settle", "restore", "commit"} =>
              /\ in.item \in Items /\ in.loan \in updateLocks[r]
              /\ checkouts[in.loan] # None
              /\ checkouts[in.loan].item = in.item
              /\ checkouts[in.loan].returnedTo = None
        /\ pc[r] \in {"settle", "restore", "commit"} => in.item \in updateLocks[r]

DeleteInv(r) ==
    LET in == req[r]
    IN  /\ pc[r] \in {"new", "remove", "references", "commit", "done"}
        /\ pc[r] \in {"remove", "references", "commit"} => in.item \in Items
        /\ pc[r] = "references" => in.loan \in CheckoutRequests
        /\ pc[r] = "commit" => in.item \in updateLocks[r] /\ LoansOf(in.item) = {}

ActivationInv(r) ==
    LET in == req[r]
    IN  /\ pc[r] \in {"new", "user", "identity", "commit", "done"}
        /\ pc[r] \in {"user", "identity", "commit"} => in.user \in Users
        /\ pc[r] \in {"identity", "commit"} => in.user \in updateLocks[r]

RequestInv(r) ==
    /\ pc[r] # "new" => req[r] \in Input
    /\ r \in CheckoutRequests => CheckoutInv(r)
    /\ r \in ReturnRequests => ReturnInv(r)
    /\ r \in DeleteRequests => DeleteInv(r)
    /\ r \in ActivationRequests => ActivationInv(r)

\* Every request's knowledge of the rows it holds is still true, so status and
\* loans agree (checkout.go:100-120, 212-236: FOR SHARE and FOR UPDATE).
WorkflowInv ==
    /\ TypeOK
    /\ LockInv
    /\ \A r \in Requests : RequestInv(r)
    /\ StatusAgrees

-------------------------------------------------------------------------------
(* The second inductive invariant: why the records are right.  What a       *)
(* request was let do, and what its client was told, rests on rows that no  *)
(* later transaction takes back.                                            *)

\* The loan a request makes or ends is one its actor may make or end.
AuthorizedInv(r) ==
    LET in == req[r]
    IN  /\ r \in CheckoutRequests /\ pc[r] \notin {"new", "done"} =>
              AuthorizeCheckoutBorrower(in.actor, in.user)
        /\ r \in ReturnRequests /\ pc[r] \in {"loan_item", "settle", "restore", "commit"} =>
              MayReturn(in.actor, checkouts[in.loan])

\* What a request has found out or was told is true.
TruthInv(r) ==
    LET in == req[r]
    IN  /\ pc[r] # "done" => answer[r] = "pending"
        /\ answer[r] # "state_conflict"
        /\ r \in CheckoutRequests =>
              /\ pc[r] = "insert" => in.due # "elapsed"
              /\ pc[r] \in {"status", "commit"} => in.due \in {"none", "later"}
              /\ answer[r] = "created" =>
                    checkouts[r] # None /\ in.due \in {"none", "later"}
              /\ answer[r] \in Refusals => checkouts[r] = None
              /\ answer[r] = "item_not_found" =>
                    in.item \in Items /\ status[in.item] = "absent"
        /\ r \in ReturnRequests =>
              /\ answer[r] \in {"returned", "checkout_returned"} =>
                    /\ in.loan \in CheckoutRequests
                    /\ checkouts[in.loan] # None
                    /\ checkouts[in.loan].returnedTo # None
              /\ answer[r] = "returned" => checkouts[in.loan].returnedTo = in.actor
        /\ r \in DeleteRequests =>
              /\ pc[r] = "references" => in.loan \in LoansOf(in.item)
              /\ answer[r] = "deleted" => in.item \in Items /\ status[in.item] = "absent"
              /\ answer[r] = "item_in_use" => LoansOf(in.item) # {}

\* The history of an item names its own loans, and last the open one.
HistoryInv(i) ==
    LET h == history[i]
    IN  /\ \A k \in 1..Len(h) : h[k].source \in LoansOf(i)
        /\ OpenLoans(i) # {} => h # <<>> /\ h[Len(h)].source \in OpenLoans(i)

\* The records agree with what the requests decided (checkout.go:122-181,
\* 238-288), and no request invalidates what another relies on.
RecordInv ==
    /\ \A r \in Requests : AuthorizedInv(r) /\ TruthInv(r)
    /\ LoansAuthorized
    /\ AuditTrail
    /\ HistoryChain
    /\ \A i \in Items : HistoryInv(i)

-------------------------------------------------------------------------------
(* Why only a return and a deletion deadlock: the rows a request holds at    *)
(* most while it waits.                                                      *)

HoldsAtMost(r, forUpdate, forShare) ==
    updateLocks[r] \subseteq forUpdate /\ shareLocks[r] \subseteq forShare

HoldingInv(r) ==
    LET in == req[r]
    IN  /\ pc[r] \in {"new", "borrower", "loan", "remove", "user", "done"} =>
              HoldsAtMost(r, {}, {})
        /\ pc[r] = "item" => HoldsAtMost(r, {}, Users)
        /\ r \in CheckoutRequests /\ pc[r] \in {"insert", "status", "commit"} =>
              HoldsAtMost(r, {in.item, ActiveKey(in.item)}, Users \cup {in.item})
        /\ pc[r] = "loan_item" => HoldsAtMost(r, {in.loan}, {})
        /\ r \in ReturnRequests /\ pc[r] \in {"settle", "restore", "commit"} =>
              HoldsAtMost(r, {in.loan, in.item, ActiveKey(in.item)}, Users)
        /\ r \in DeleteRequests /\ pc[r] \in {"references", "commit"} =>
              in.item \in updateLocks[r] /\ HoldsAtMost(r, {in.item}, {})
        /\ r \in ActivationRequests /\ pc[r] \in {"identity", "commit"} =>
              HoldsAtMost(r, {in.user}, {})

Wants(r) == WantsUpdate(r) \cup WantsShare(r)

\* A request stands in line for a row it still asks for, and in one line only.
\* A request stands behind an account change while another has the row locked,
\* or when that one was undone.
LineInv(r) ==
    /\ tupleLock[r] # None =>
          behind[r] = {} /\ tupleLock[r] \in Wants(r) \ updateLocks[r]
    /\ \A s \in behind[r] :
          /\ s # r /\ tupleLock[r] = None /\ tupleLock[s] # None
          /\ tupleLock[s] \in Wants(r) \ updateLocks[r]
          /\ tupleLock[s] \in WantsUpdate(r) \cup WantsUpdate(s)
          /\ r \notin ActivationRequests /\ s \in ActivationRequests =>
                \/ Undone(tupleLock[s])
                \/ \E a \in ActivationRequests :
                      pc[a] \in {"identity", "commit"} /\ req[a].user = tupleLock[s]
QueueInv == \A r \in Requests : HoldingInv(r) /\ LineInv(r)

\* "Administrators can return any active checkout" (openapi.yaml): with no
\* fault, an administrator's return of an open loan is not answered with an
\* internal error.
AdministratorReturnsAnyActiveCheckout ==
    \A r \in ReturnRequests :
        answer[r] = "internal_error" /\ CanManageCheckouts(req[r].actor) => faults > 0

===============================================================================
