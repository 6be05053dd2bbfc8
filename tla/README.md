# Equipment checkout system: verification project

The server lends equipment items to users. It is a Go HTTP API over PostgreSQL;
user accounts live twice, in PostgreSQL and in Keycloak. This directory holds
TLA+ models of the parts whose correctness depends on concurrency or failure,
the TLC configurations that check them on small instances, and TLAPS proofs of
the results that matter most for instances of any size. Paths below are
relative to `src/server/` unless they begin with another directory.

## 1. Inventory

| Component | State | Operations | Hard behaviour |
|---|---|---|---|
| Checkout workflow (`services/checkout.go`, `db/queries/checkouts.sql`) | `checkouts`, `items.status`, `item_status_history`, `audit_events` | `Checkout`, `Return` | six to seven SQL statements per transaction interleave under READ COMMITTED; row locks in different orders; abort between statements; lost commit acknowledgement |
| Checkout reads (`checkout.go:300-442`) | none | `GetByID`, `List`, `ListByItem` | count and page from two snapshots, offset paging over a growing table, ids that become visible out of order |
| Item and category catalogue (`services/item.go`, `services/category.go`) | `items`, `categories` | create, update, delete | existence checks that race with the writes they protect; foreign keys checked from both sides; writes that wait for each other; deletion against checkouts |
| Managed users (`services/user.go`) | `users` and the Keycloak user | `UpdateProfile`, `SetRole`, `SetActive`, `Deprovision` through `updateManagedUser`; `Create`; `SetTemporaryPassword` | two stores without a common transaction, compensation after the lock is released |
| Identity administration (`services/keycloak_identity_admin.go`) | Keycloak user and realm roles | `Create`, `Replace`, `Delete`, `List` | several calls each, any may fail before or after taking effect |
| Reconciliation (`services/user_reconciliation.go`, `cmd/reconcile_users.go`) | as above | `Reconcile` | concurrent with the API, list read before the links |
| Authentication and authorization (`services/authentication.go`, `identity.go`, `oidc.go`, `middleware/`) | token claims, `users.is_active` | `Authenticate`, `RequireCapability` | role from the token, activity from the database |
| Transactions (`db/transaction.go`) | connection, locks | `Run` | rollback on every error path, ambiguous commit |
| Server lifecycle (`cmd/serve.go`, `middleware/http.go`, `handlers/health.go`, `db/postgres.go`) | process, connection pool | start, graceful stop, 15 s request deadline, readiness probe | a pool at its limit, requests still running when the shutdown's time is over |

How they meet. Handlers call one service method each. `Checkout` and `Return`
share item rows with item deletion and user rows with user updates; all of them
meet only in PostgreSQL, through row locks, foreign keys and one partial unique
index. A user update holds its row through the Keycloak calls. Reconciliation
is a second process that uses the same rows and the same `Replace`. Every
request shares the connection pool and the process with all others.

What makes each correct:

- *Checkout workflow.* An item is checked out exactly when it has one open
  loan; a loan is returned once; history and audit trail tell exactly what
  happened; only borrower or administrator act on a loan; the borrower is
  active when a loan appears; answers are true; everybody is answered.
- *Managed users.* No update is lost; after any failure the stores agree or an
  operator knows; the identity has at most one managed role; reconciliation
  repairs everything.
- *Catalogue.* Uniqueness and references hold however the checks race, and the
  answer a client gets is true whichever of check and constraint decided.
- *Authentication.* A deactivated account is refused from then on; a role
  change is effective at the latest when the token expires.
- *Listings.* A page belongs to the actor's view; a walk by pages misses nothing
  that was there when it began; the total never promises more than there is.
- *Server.* Nobody waits for a connection while keeping one; a shutdown ends,
  cuts no transaction, and reports whether it cut anything.

`PROJECT.json` lists every component and every hazard with its line.

## 2. Plan

| Order | Module | Content | State |
|---|---|---|---|
| 1 | `EquipmentLedger` | abstract specification: loans, items and accounts, atomic | done |
| 2 | `CheckoutWorkflow` | the transactions, statement by statement; implements 1 | done |
| 3 | `CheckoutWorkflowProofs` | types, status, active borrower, refinement | done |
| 4 | `UserSync`, `UserSyncProofs` | one linked user in two stores | done |
| 5 | `Accounts`, `UserProvisioning`, `UserProvisioningProofs` | `Create`, provisioning, compensation, orphans, two creations of one username; implements the abstract `Accounts` | done |
| 6 | `AccessControl`, `AccessControlProofs` | route matrix, token lifetime and skew, role change, deactivation | done |
| 7 | `Catalog`, `ItemCatalog`, `ItemCatalogProofs` | check-then-write of tags, serials, names and references; implements the abstract `Catalog` | done |
| 8 | `ServerLifecycle`, `CheckoutListing`, `ServerLifecycleProofs`, `CheckoutListingProofs` | process, pool and deadline; in it, the reads of checkouts beside writers | done |
| 9 | `UserSyncGaps`, more of `UserSyncProofs` | `UserSync` with the situations its compensation does not cover; the promises outside them | done |
| 10 | `CheckoutRecordProofs` | authorization, single return, audit trail, history, answers and deadlocks of module 2 as theorems | done |

Module 5 shares `Replace` and the row lock with `UserSync`; module 6 has
the capability table of `CheckoutWorkflow`; `CheckoutListing` is composed with
`ServerLifecycle` by extending it, and so are their proofs; module 10 extends
module 3.

## 3. Modules

### EquipmentLedger

What the workflow promises, in four atomic steps: `Lend`, `TakeBack`,
`Withdraw`, `SetActive`. It knows no locks, requests or errors.

### CheckoutWorkflow

One action per SQL statement of a transaction; one request per member of
`Requests`, each with a program counter `pc`, the rows it has read (`req`), its
answer and its locks.

| Code | Model |
|---|---|
| authentication, route capability, service check before `Run` | `Submit`, used by the four `Arrive...` actions |
| `GetCheckoutBorrowerForShare`, `GetItemForStatusUpdate`, `CreateCheckout`, `SetItemWorkflowStatus` (`checkout.go:100-149`) | the actions of those names, `SetItemCheckedOut` |
| `GetCheckoutForUpdate` ... `SetItemWorkflowStatus` (`checkout.go:212-257`) | `GetCheckoutForUpdate`, `GetLoanItemForStatusUpdate`, `ReturnCheckout`, `SetItemAvailable` |
| history and audit rows, `tx.Commit` | `PublishCheckout`, `PublishReturn` inside `Commit` |
| error returns and `mapCheckoutWorkflowError` | `...Outcome` operators; `Statement` ends the transaction on any but `"ok"` |
| `FOR UPDATE`, `FOR SHARE`, foreign-key `FOR KEY SHARE`, partial unique index | `WantsUpdate`, `WantsShare`, `ActiveKey`, `Holders` |
| PostgreSQL's lines at locked rows (tuple locks) | `tupleLock`, `behind`, `QueueUp`, `Leave`; `Blockers` are the holders and those ahead |
| `TransactionManager.Run` | `Acquire`, `Finish`, `Commit`, `CommitUnacknowledged`, `Abort` |
| PostgreSQL's deadlock detector | `Deadlocked`, `DeadlockAbort` |
| `itemService.Delete` with its `ON DELETE RESTRICT` check | `DeleteItem`, `ProbeReferences` |
| `SetActive` as PostgreSQL sees it | `GetUserForUpdate`, `ReplaceIdentity`, `PublishActivation` |

Abstractions. A transaction's writes become visible together, at commit, as
READ COMMITTED has it; they are computed from rows the transaction has locked,
so nothing is lost by writing them there. `due_at` is one of four classes: none,
later, elapsed, and less than a microsecond away (passes the test at
`checkout.go:126`, fails the column's CHECK after rounding). `"maintenance"`
stands for `"retired"` as well. A checkout row is named by its request. An
activation change checks its user and calls Keycloak between its two statements;
here that is one step, `ReplaceIdentity`, which succeeds or is refused, and the
rest is `UserSync`. Profile and role updates and the pushes of a reconciliation
take the same row in the same way and are not separate requests here.

Waiting is modelled as PostgreSQL does it. The first request that must wait for a
row takes the row's tuple lock and waits for the row's holders; those who come
later wait for that request. A request that finds the row free takes it without
standing in line. A commit that changed the row ends its line, because the
waiters go on to the new version; a rollback leaves the line as it was.
`DeadlockAbort` ends any member of any circle of waits, whichever
`deadlock_timeout` expires first, so a checkout that only stands in line between
a deletion and a return can be the victim.

### UserSync

One linked user: its row, its identity and the processes that change them.

| Code | Model |
|---|---|
| `lockedLinkedUser`, `mutate` (`user.go:256-276`) | `Begin`, `Desired`; `RefuseTaken` for `validateUniqueUserIdentity` |
| `Replace`, `replaceRole` | calls `update_user`, `get_roles`, `delete_roles`, `add_role`; `Effect`, `AfterCall` |
| an error before or after Keycloak applied the call | `CallFails` |
| the call's deadline (`withToken`) with the effect still to come | `CallTimesOut`, `DeliverLate` |
| `UpdateManagedUser` and commit | `Commit`, `WriteFails`, `CommitLost` |
| `Run`'s deferred rollback, then `restoreIdentity` | `Rollback`, which frees the row first |
| warning log and reconciliation report | `flagged` |
| `reconcileUser`, `pushUser` | `BeginSweep`; `SweepAgain` for a new run of the command |

### UserSyncGaps

`UserSync` with one history variable, `gap`, that remembers whether one of the
situations has come up in which `updateManagedUser` has no compensation: a
restoration that another update overtook (`Overtaken`, finding 2), a commit whose
acknowledgement was lost (`Unacknowledged`), a crash, and a call that Keycloak
applies after its timeout. Without a gap the promise of `user.go:242-245` holds
under every fault, and each of the four is needed for that: leave one out
of `Uncompensated` and TLC finds a counterexample.

### Accounts

What `Create` and provisioning promise, as if the two stores were one: a user
becomes linked, with identity and role in place, at one instant (`Create`,
`Provision`); a creation is refused or fails without effect for good (`Refuse`); and
only a user whose linking commit went unacknowledged may lose its identity again
(`Disturb`, finding 3). It knows no calls, locks, orphans or compensation.

### UserProvisioning

How users come to exist in both stores. `Creations` are `POST /users` requests,
`Sweeps` are `reconcile-users` commands; a name is a username with its email.

| Code | Model |
|---|---|
| `validateUniqueUserIdentity` before the Keycloak calls (`user.go:85`) | `CheckName` |
| `CreateUser` and `replaceRole` in Keycloak, `Replace`, `Delete` | calls `create_user`, `set_role`, `push`, `delete_user`; `Effect`, `AfterSuccess` |
| a call refused, failed, applied without an answer, or applied late | `CallRejected`, `CallFails`, `CallTimesOut`, `DeliverLate` |
| `queries.CreateUser` with the unique index | `InsertUser` |
| `reconcileUser`: lock, push or provision, link, commit, and their errors | `LockUser`, `LinkUser`; `LockFails`, `WriteFails`, `CommitLost` |
| the deletion that undoes a creation, and its warning | `Compensate`, `DeletionFailed` |
| `ListUsers`, `List`, `linkedSubjects`, the report (`user_reconciliation.go:61-103`) | `ListUsers`, `ListIdentities`, `ListLinks`, `Orphans`, `ListingFails` |

`Replace` is one call here: what happens inside it, and to a linked user's
profile, is `UserSync`. Initially some local users are unlinked, as the seeds
leave them, and one Keycloak user may have been made by hand. `Crews` are the
sets of processes that run together and how many faults they meet, so that one
run covers two instances. `uncertain` is a history variable: the users whose
linking commit was not acknowledged.

### AccessControl

Whom the API admits. A request carries one token Keycloak issued at some time;
meanwhile roles, activity and link of its user change, and the clocks may differ
by up to `MaxOffset`.

| Code | Model |
|---|---|
| `RequireBearer`, `bearerCredential` | `RequireBearer` |
| `oidcTokenVerifier.Verify`, `validTemporalClaims`, `realmRoles` | `Verify`, `VerifyOutcome`, `ValidTemporalClaims`; `VerifyWithoutKeys` when the keys cannot be fetched, or not in time |
| `capabilitiesForRoles` | `CapabilitiesForRoles` |
| `identityResolver.Resolve`, then `RequireAnyCapability` of the route | `Resolve`, `ResolveOutcome`, `Permits`, `RouteNeeds`; `ResolveFails` when the row cannot be read |
| `replaceRole` and restorations, call by call | `RemoveRoles`, `AddRole` in any order |
| `SetActive`, in Keycloak and in the row | `ReplaceEnabled`, `CommitActive`, each possibly without the other |

`soleAt` and `sawActive` are ghosts: when a role was last the only one of its
user, and whether a request's user was active since it came. The user changes
are freer than `UserSync` makes them, so what holds here does not depend on how
far a synchronization got.

A token for a user without a managed role carries no `realm_access`: in
`src/keycloak/realms/equipment-realm.json` the client has `fullScopeAllowed` false
(line 89) and only the managed roles are mapped to it (501-506). `realmRoles`
does not accept such a token, so a token issued between the two calls of
`replaceRole` is answered `invalid_token` as long as it lives. `FreshTokensAccepted`
names that case and says that there is no other.

### Catalog

What the endpoints of items and categories promise: a request that was asked
takes effect at one instant, at which nothing speaks against it, or is refused
for a `Reason` that holds at the instant of the refusal; a failure leaves open
whether it took effect. It knows no statements, locks or constraints.

### ItemCatalog

The writes of `item.go` and `category.go`. They run outside transactions: some
reads, then one write. The write is more than one step here, because PostgreSQL
can wait inside it.

| Code | Model |
|---|---|
| handlers and `normalizeItemInput`, `normalizeCategoryInput`, `validateItemID` | `Submit`, used by the six `Arrive...` actions |
| `getByID`, `validateCategory`, `AssetTagExists`, `CategoryNameExists` | `GetItem`, `GetCategory`, `CategoryExists`, `AssetTagExists`, `CategoryNameExists` |
| the row of an UPDATE or DELETE | `LockItem`, `LockCategory` |
| the entries in `uq_items_asset_tag`, `uq_items_serial_number`, `uq_categories_name` | `EnterAssetTag`, `EnterSerialNumber`, `EnterCategoryName`; `KeysHeld` |
| `fk_items_category` from the item's side | `CheckCategoryReference`, `KeyShared` |
| `ON DELETE RESTRICT` of items and categories | `ProbeItems`, `ProbeCheckouts` |
| `mapItemWriteError`, `mapCategoryWriteError`, `Delete`'s errors | the `...Outcome` operators |
| the end of the statement, its lost answer, a failed call or deadline, a cycle of waits | `Commit`, `CommitUnacknowledged`, `Abort`, `DeadlockAbort` |
| a checkout of an item | `Lend` |

Abstractions. A row is its label (an item's tag, a category's name), its serial
number and its category; names and descriptions of items are left out. A blank
label and an id that is not positive are both `Malformed`; the two differ in
where they are refused. A value a write replaces keeps its index entry until the
statement ends, as it may come back.

### ServerLifecycle

The process. A request is accepted only while the server serves, and is a row of
statements; a statement outside a transaction needs a free connection of the
pool while it runs, a transaction keeps one from `Begin` to its end.

| Code | Model |
|---|---|
| `runServe` up to `Start`, and its errors | `Start`, `StartFails` |
| SIGINT or SIGTERM, `GracefulTimeout`, `OnShutdownError` | `Signal`, `Drained`, `GraceExpires` |
| the deferred `pool.Close`, then the end of the process | `Exit`, which waits for `held` to be empty |
| `ContextTimeout`, `readinessTimeout`, a failed call | `Fail` |
| `Run`, with the Keycloak calls of `updateManagedUser` inside it | `Begin`, `Work`, `Commit`; `Restore` for `restoreIdentity` |
| `Health.Ready` | `Ping` |
| a closed pool | `PoolRefuses` |

### CheckoutListing

Extends `ServerLifecycle` with what the statements read and write. One client
looks up a loan, or walks a listing page by page until a page is short; others
borrow items, update users or probe readiness.

| Code | Model |
|---|---|
| authentication, capability, `parseCheckoutPagination`, `validateCheckoutPagination` | `ResolveReader`, `Permitted`, `ValidPagination` |
| `GetItem`, `Count...`, `List...` of `List` and `ListByItem` | `GetItem`, `CountCheckouts`, `ListCheckouts`, each a statement of its own |
| `ORDER BY id DESC LIMIT OFFSET` | `RowsOf` |
| `GetCheckout`, `GetCheckoutForBorrower` | `GetCheckout`, `Found` |
| `CreateCheckout` draws an id, `Commit` shows the row | `InsertLoan`, `CommitLoan` |

A return changes no id, so it is not an action here. That an open loan blocks
another of the same item is `CheckoutWorkflow`'s business; without it more
tables are possible, not fewer.

## 4. Runs

| Run | Instance | Shows |
|---|---|---|
| `checkout_workflow` | 2 users (employee, administrator), 1 item, any 4 of 2 checkouts, 1 return, 1 deletion and 2 activation changes (both changes only beside checkouts), 1 fault | status and loans, truthful answers, active borrowers, refinement; who deadlocks with whom, and where internal errors come from |
| `checkout_returns` | 3 users, one per role; 2 checkouts, 2 returns; three classes of `due_at` besides "later" | history chain, audit trail, single return, ownership, truthful answers about due dates and ended loans |
| `checkout_liveness` | one request of each kind, 1 fault | every request is answered, and nobody waits for a lock that will not be released |
| `checkout_deadlock` | the same without faults | finding 1 below |
| `user_sync` | 2 updates, 1 repeated sweep, any 2 faults, at most 3 of updates and faults together | agree or flagged and one managed role unless there was a gap, no lost update, eventual agreement |
| `user_sync_restore_race` | 2 updates, 1 error | finding 2 below |
| `user_provisioning` | 2 names (one local and unlinked); 2 creations and 1 repeated sweep with any 2 faults, or 1 creation and 2 sweeps with 1 | acknowledged links are whole, orphans are announced, everything is whole or reported in the end, refinement of `Accounts` |
| `user_provisioning_commit_lost` | 1 creation, a lost acknowledgement | finding 3 below |
| `access_control` | 1 user, 1 request, 1 token, lifetime and skew of one tick, clocks one tick apart, 3 changes, 4 ticks | exposure of a replaced role, which fresh tokens are called invalid, deactivation |
| `access_control_retained_role` | the same with equal clocks | finding 4 below |
| `item_catalog` | 2 items and 1 category, 2 item requests and 1 category request of any kind, 5 item bodies, 2 names, 1 fault | uniqueness and references, refinement of `Catalog`, which says that every answer is true |
| `checkout_listing` | a client with 3 pages and limits 0, 1, 2; 1 checkout and 1 request of any kind; 2 connections, 1 fault | walks miss nothing, totals promise nothing, requests end, shutdown cuts no transaction and ends |

Why the bounds are enough. Items meet only through their own row, so one item
carries every conflict of the workflow. Two checkouts and one return are the
least that lets an item be lent, returned and lent again, two returns the least
that race for a loan, and one deletion and one activation change each block,
and are blocked by, every statement that uses the row. One fault at any
statement leaves the other requests to meet its consequences; a second fault
only ends another request early. A circle of waits needs at most three requests, a
return and a deletion with a checkout in line between them, or an account change
that is first in line, a request behind it and the checkout that overtook both,
and a fourth for what was there before, so `CrewSpec` lets any four of the six
requests be made; the second activation change is there for the circle around an undone one, which
of four requests takes two changes and two checkouts, so both changes join only
checkouts. (A return can take a checkout's place in that circle, but needs a loan
to exist, and thus a fifth request: there the theorem speaks alone.) In
`UserSync` the second update is the one that can run between a rollback and its
restoration, and two errors are what it takes for a replacement and its
restoration to fail both; `MaxTrouble` leaves out only two updates with two
faults. In `UserProvisioning` two
creations are what it takes to race for a username, two sweeps to race for a row,
and two faults to fail a creation and its compensation; `Subjects` is large
enough that a fresh id always exists (TLC would stop with an error if not).
In `AccessControl` requests share nothing with each other, so one with one token
shows what any of them meets; four ticks are one more than lifetime, skew and
offset together, so a role can be out of use for longer than the bound.
In `ItemCatalog` two item requests are what it takes to race for a tag, or to
wait for each other, one at a tag and one at a serial number; the category
request can create the category one of them refers to, or rename or delete the
seeded one. In `CheckoutListing` the client's own first page, a row that is drawn before
and seen after it, and a row that pushes others over the page boundary need one
seeded loan, two checkouts, and pages of one and of two rows; two connections are
used up by two transactions, or by one and a statement.
Symmetry is used only in runs without liveness, over requests of one kind.

Deadlock checking is on for the workflow, where `Terminated` is the one state in
which nothing may happen (in `CrewSpec`, when no request is in progress), and for the catalogue, where the
same name stands for the same state, so a cycle of waits that `DeadlockAbort` does not break would be found. It
is off for the other models, whose requests are finite and which stop by design
when nothing is left to do, and for the server, whose process ends.

Fairness. `FairSpec` of the workflow lets every request that has begun take its
next step (the Go scheduler and PostgreSQL both run on), and never assumes that
a request arrives or a fault happens. A wait ends because its holder ends; a
cycle of waits ends because PostgreSQL's detector aborts a member. In `UserSync`
the operator runs `reconcile-users` again and again, as README.md:430-433 asks
after a failure, and a sweep is not overtaken for ever (strong fairness on
`BeginSweep`), because PostgreSQL queues the waiters for a row. `UserProvisioning` assumes the
same of its requests and sweeps. In both, faults are never assumed, and a call
Keycloak has accepted is applied some day. In `CheckoutListing` handlers run on, a
free connection is given to somebody who waits (weak fairness suffices, as
requests are finite), and a shutdown that has begun runs its course; neither a
signal nor the passing of a deadline is assumed, so `AcceptedRequestsEnd` says
that requests end without the 15 seconds' help.

### Findings

1. **A return can be aborted by a deletion.** `Return` locks checkout, then item
   (`checkout.go:212`, `:227`). `DELETE /items/:id` locks the item, and its
   foreign-key check then locks the checkout. Each can wait for the other;
   PostgreSQL aborts one after `deadlock_timeout`, and the code maps that to an
   internal error. The OpenAPI document promises that an administrator can
   return any active checkout. Run `checkout_deadlock`. A checkout that stands in
   the item's line can be the one that is aborted. But for one rare circle around
   an account change that was undone it is the only deadlock there is
   (`OthersNeverDeadlock`), and without deletions, with one account change, the
   promise holds (`AdministratorReturnsWithoutDeletions`).
2. **A restoration can overwrite a newer update.** `restoreIdentity` runs after
   `Run` has rolled back and released the row. An update that locks the row,
   replaces the identity and commits in between is undone in Keycloak, with
   success, so the warning that asks for reconciliation is not logged. Run
   `user_sync_restore_race`.

3. **A lost acknowledgement deletes a linked identity.** `Create` compensates
   every error of the insert, also one that only says that the connection broke
   after the commit. The row then names an identity that no longer exists;
   `reconcile-users` pushes to it, is told `keycloak_identity_not_found`, reports
   that, and never provisions the user again. Run `user_provisioning_commit_lost`.

4. **A role outlives the token lifetime.** `validTemporalClaims` accepts a token
   until `exp` plus the skew, so with equal clocks a replaced role works for up
   to 30 seconds (the default) longer than the five minutes that README.md:460-461
   and `docs/keycloak-security-verification.md:85-86` give. Run
   `access_control_retained_role`; `RoleExposureBounded` is what does hold.

The same models show two other consequences of a commit whose acknowledgement is lost
(`transaction.go:51`): the client of a checkout is told of an error although
the loan exists, and a user update restores the old identity although the row
is committed. `docs/keycloak-security-verification.md:124-128` disclaims a
distributed transaction; `EventuallyAgree` covers the second, and in `ItemCatalog`
`Catalog`'s `Break` allows the first for single statements too.

## 5. Proofs

`tlapm` checks every step of the eight proof modules. Assumptions are the named
`ASSUME`s of the models: the kinds of requests are disjoint, rows of different
tables are different, `None` is no row and no status, the bounds are natural
numbers, seeded loans are numbered from one, the listings' requests name items
and users, roles and due classes are those of the code.

*CheckoutWorkflow.* `StatusAgrees` is not inductive: that a checkout may set an
item to checked out depends on what it read several statements ago. `WorkflowInv`
adds that a row held `FOR UPDATE` is held by nobody else (`LockInv`) and, per
request and program counter, which rows it holds and what is true of them
(`CheckoutInv`, `ReturnInv`, `DeleteInv`, `ActivationInv`). The proof has one
lemma per statement; the common part is that a request's step keeps what every
other request knows (`OthersKeep`), because a step of one request writes only
rows it holds `FOR UPDATE`. From it follow `TypeCorrect`, `StatusAlwaysAgrees`,
`BorrowerAlwaysActive` (the shared lock on the borrower excludes a committing
activation change) and `LedgerImplemented` (each commit is one ledger step, all
else stutters).

*CheckoutRecordProofs.* `WorkflowInv` says what a request knows while it holds
its locks; what it recorded and what its client was told has to stay true after
it let them go. `RecordInv`, inductive beside `WorkflowInv`, says what each
request has found out (`TruthInv`) and was let do (`AuthorizedInv`), and that the
history of an item names its own loans and last the open one (`HistoryInv`,
without which a return could not be shown to follow the loan it ends). The
argument is that no transaction takes back what another relies on (`RowsKept`): a
checkout row never disappears, its item, borrower and creator never change, an
ended loan stays as it is, a deleted item stays deleted. From it follow
`LoansAlwaysAuthorized`, `AuditAlwaysComplete`, `HistoryAlwaysChained`,
`AnswersAlwaysTruthful` and `ReturnedAtMostOnce` (a return is granted only by the
commit that ends its loan, and an ended loan stays ended).

*Deadlocks* (in `CheckoutRecordProofs`). `HoldingInv` says which rows a request
holds at most at each of its statements, `LineInv` where it may stand in line;
`QueueInv` is the two together. Unless an account change was undone, one that waits
blocks no other kind of request in a circle (`CircleActivation`), and account changes
alone make none (`CircleOfOthers`), so a circle is left if they are taken out of it.
In it some deletion's foreign key waits for a loan: the others wait for an item that
somebody else of the circle holds, or stand behind somebody who waits for it
(`CircleDeletion`). The loan is held by a return, perhaps with another return first
in line for it, and the holder waits for the item that the deletion holds
(`CirclePair`). That is `OthersNeverDeadlock`.

`SomeoneAlwaysProceeds` takes a smallest set of requests in progress that contains
whom its members wait for; if all wait, each member of it waits for itself. It is
stated for finitely many requests, for infinitely many it would be false.
`FailsOnlyWithFault` shows the converse: a request is not in a circle if some set
closed under waiting leaves it out (`NotDeadlocked`), and such a set exists unless a
return and a deletion were asked for its item (`AbortedContested`) or an account
change was undone (`Calm`). Without the lines a checkout could never be the one that
is aborted, and the theorem would promise it too much.

*ItemCatalog.* A statement's checks of uniqueness and references are separate
steps, so that a tag is unique when a row is written depends on what an earlier
step found. `CatalogInv` says that rows written and not committed exclude each
other (`ExclusionInv`), that a request works on a legal input (`InputInv`), and
that what a write found at one of its steps is still true, because whoever could
change it waits for it (`KnowledgeInv`). From it follow `TypeCorrect`,
`CatalogStaysConsistent` and `CatalogImplemented`: each request takes effect, or
is refused for a reason that holds, at one instant.

*UserSync.* `SyncInv` says that whoever may still commit holds the row, and that
its target is one change of the row as it is committed now (`ReplacementInv`).
From it follow `SyncTypeCorrect` and `UpdatesNeverLost`.

*UserSyncGaps* (in `UserSyncProofs`). That the stores agree or somebody was told is a claim about
the end of an update; what makes it inductive is what holds in its middle.
`CompensationInv` adds to `SyncInv`, as long as no gap occurred, that no call is
still on its way to Keycloak, how far a replacement has brought the identity
(`ReplacingInv`), and that whoever writes the identity beside another process
pushes the same committed row, an update that may still commit writing it alone
(`HoldingInv`): two such writers cannot undo each other. A difference is then
flagged, or an update that still runs will remove or flag it. From it follow
`AlwaysAgreeOrFlagged` and `AlwaysOneManagedRole`, for any number of updates,
sweeps and faults. Without the condition "unless a gap occurred" both are false:
finding 2 refutes the first.

*AccessControl.* That an admitted request's role is recent depends on when its
token was issued: `AccessInv` says that a token's only role was its user's only
role at that moment (`TokensInv`), that the ghosts are up to date (`RolesInv`),
and that a request past `Verify` holds a token younger than lifetime, skew and
offset together (`RequestInv`). From it follow `AccessTypeCorrect`,
`RoleExposureAlwaysBounded`, `FreshTokensAlwaysAccepted` (which needs
`OffsetTolerated`: the clocks differ by no more than the skew; a token without a
managed role is its stated exception) and
`DeactivatedAlwaysRefused`.

*UserProvisioning.* An identity exists before anybody is linked to it, and the
calls that make and delete it may arrive late. `ProvisioningInv` says that ids are
never shared, that an identity under way is its process's own and ready when it is
linked, that a process deletes only what no user is acknowledged to be linked to
(`WorkInv`), that a late call is about an identity no process counts on any more
(`LateInv`), and that an identity left behind is warned of, listed as a failure,
or belongs to a user the sweep still has to come to (`OrphanInv`, `TodoInv`). From
it follow `ProvisioningTypeCorrect`, `AcknowledgedAlwaysHealthy` and
`OrphansNeverSilent`, for any number of processes and faults. They assume
`SubjectsSuffice`: Keycloak always has an id that nothing mentions. A run whose
`Subjects` were too few would stop with an error at `NewSubject`.

`AccountsImplemented`, under the same assumption, maps the commit that links a user
to the one instant at which it comes to exist, and every other step to a refusal, a
disturbance or a stutter. The instant is right because an identity is ready, with its
role, when its user is linked to it (`WorkInv`); a refusal is without effect for
good because a creation is answered only when no statement of it is left that
could link (`AnswerInv`); and no call, late or compensating, touches the identity of
an acknowledged user (`MessageInv`).

*ServerLifecycle.* `ServerInv` says that the transactions are exactly the
connections taken, never more than `MaxConns`, and that an exit code "clean" was
decided when no request was in progress, after which none is accepted. From it
follow `CleanExitAlwaysAnsweredAll` and `ShutdownNeverCutsTransaction`, about the
server as `CheckoutListing` runs it, for any number of requests and faults and any
pool.

*CheckoutListing.* A walk is a sequence of counts and pages, each from a snapshot of
its own, so a loan can move while it is walked. `ListingInv` says that an id belongs
to one loan or one draft, and that a loan of the view that was there when the walk
began has been shown or stands behind the next offset. The argument is that a row's
rank only grows, because rows only come: in a table that rows can leave, paging by
offset would skip some. From it follow `ListingTypeCorrect` and `WalkAlwaysComplete`.
`ShortPageAlwaysEnds` rests on a lemma that a page which is not full reaches the end
of the table: ids and ranks of a finite view are in bijection, so no rank below its
size is missing.

Only model-checked: the liveness properties (`Answered`, `EventuallyAgree`,
`EventuallyWholeOrReported`, `AcceptedRequestsEnd`, `StopsOnSignal`), because the
proof system does not reason about fairness and `ENABLED`. Every invariant, action
property and refinement of the passing runs is a theorem. The properties of the
four violation runs are false; what holds in their place is proved.

## 6. Not modelled

- Formatting, validation of strings and ids, logging, API documentation, the
  Keycloak realm and its themes, seeds and token inspection.
- Configuration: it is read and validated once, before anything runs
  concurrently, and is a constant of the models.
- The single-statement reads of items, categories and users (lists and lookups):
  each sees one snapshot and changes nothing.
- Generated query code as such: the models translate the statements it sends.
- Tables no code writes (reservations, maintenance records, condition reports,
  locations), and timestamps, whose strict growth the schema and the statements
  enforce row by row.
- Temporary passwords: one call to Keycloak that keeps no state here.
- A panic inside a transaction: `Run` (`transaction.go:36-39`) does not recover,
  so the transaction is neither committed nor rolled back by it.
- Of a walk through a listing: a walk that stops by `total` instead of at the
  first short page, and a role that changes between two pages.
- The pages of Keycloak's list of users: `UserProvisioning` lists all identities
  in one step, because what a page of a changing list holds is Keycloak's choice.
