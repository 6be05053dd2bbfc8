------------------------- MODULE CheckoutRecordProofs -------------------------
(***************************************************************************)
(* What CheckoutWorkflow writes down and answers: authorization, the audit *)
(* trail, the status history, the answers and the deadlocks, for any       *)
(* number of users, items and requests.  RecordInv is inductive beside     *)
(* WorkflowInv, and so are the rows a request holds (HoldingInv).          *)
(***************************************************************************)
EXTENDS CheckoutWorkflowProofs, FiniteSetTheorems

Step(r) == Arrive(r) \/ QueueUp(r) \/ Proceed(r) \/ Fail(r)

\* A checkout row stays what it was, except that an open loan may be ended.
KeepsLoan(c) ==
    checkouts[c] # None =>
        /\ checkouts'[c] # None
        /\ checkouts'[c].item = checkouts[c].item
        /\ checkouts'[c].borrower = checkouts[c].borrower
        /\ checkouts'[c].createdBy = checkouts[c].createdBy
        /\ checkouts[c].returnedTo # None => checkouts'[c] = checkouts[c]

\* A deleted item stays deleted.
KeepsDeleted(i) == status[i] = "absent" => status'[i] = "absent"

-------------------------------------------------------------------------------
(* What a step leaves alone. *)

\* A request's step is its own: it moves no other request.
LEMMA OthersStand ==
    ASSUME TypeOK, NEW r \in Requests, Step(r), NEW s \in Requests \ {r}
    PROVE  pc'[s] = pc[s] /\ req'[s] = req[s] /\ answer'[s] = answer[s]
<1>1. CASE Arrive(r)
  BY <1>1 DEF TypeOK, Arrive, ArriveCheckout, ArriveReturn, ArriveDelete, ArriveActivation,
     Submit
<1>2. CASE Proceed(r)
  <2>1. CASE \/ GetCheckoutBorrowerForShare(r) \/ GetItemForStatusUpdate(r)
             \/ CreateCheckout(r) \/ SetItemCheckedOut(r)
    BY <2>1 DEF TypeOK, GetCheckoutBorrowerForShare, GetItemForStatusUpdate, CreateCheckout,
       SetItemCheckedOut, Statement, Finish
  <2>2. CASE \/ GetCheckoutForUpdate(r) \/ GetLoanItemForStatusUpdate(r)
             \/ ReturnCheckout(r) \/ SetItemAvailable(r)
    BY <2>2 DEF TypeOK, GetCheckoutForUpdate, GetLoanItemForStatusUpdate, ReturnCheckout,
       SetItemAvailable, Statement, Finish
  <2>3. CASE \/ DeleteItem(r) \/ ProbeReferences(r)
             \/ GetUserForUpdate(r) \/ ReplaceIdentity(r)
    BY <2>3 DEF TypeOK, DeleteItem, ProbeReferences, GetUserForUpdate, ReplaceIdentity,
       Statement, Finish
  <2>4. CASE Commit(r) \/ DeadlockAbort(r)
    BY <2>4 DEF TypeOK, Commit, DeadlockAbort, Finish
  <2> QED
    BY <1>2, <2>1, <2>2, <2>3, <2>4 DEF Proceed
<1>3. CASE Fail(r)
  BY <1>3 DEF TypeOK, Fail, Abort, CommitUnacknowledged, Finish
<1>4. CASE QueueUp(r)
  BY <1>4 DEF QueueUp
<1> QED
  BY <1>1, <1>2, <1>3, <1>4 DEF Step

\* A step that changes the database is a commit of the request that takes it.
LEMMA OwnCommit ==
    ASSUME NEW r \in Requests, Step(r)
    PROVE  UNCHANGED database \/ (pc[r] = "commit" /\ Publish(r))
<1> USE DEF database
<1>1. CASE Arrive(r)
  BY <1>1 DEF Arrive, ArriveCheckout, ArriveReturn, ArriveDelete, ArriveActivation, Submit
<1>2. CASE Proceed(r)
  BY <1>2 DEF Proceed, GetCheckoutBorrowerForShare, GetItemForStatusUpdate, CreateCheckout,
     SetItemCheckedOut, GetCheckoutForUpdate, GetLoanItemForStatusUpdate, ReturnCheckout,
     SetItemAvailable, DeleteItem, ProbeReferences, GetUserForUpdate, ReplaceIdentity,
     Commit, DeadlockAbort, Statement
<1>3. CASE Fail(r)
  BY <1>3 DEF Fail, Abort, CommitUnacknowledged
<1>4. CASE QueueUp(r)
  BY <1>4 DEF QueueUp
<1> QED
  BY <1>1, <1>2, <1>3, <1>4 DEF Step

\* A checkout that commits writes its own row, which was empty.
LEMMA LentRow ==
    ASSUME WorkflowInv, NEW r \in CheckoutRequests, pc[r] = "commit", PublishCheckout(r)
    PROVE  LET in  == req[r]
               row == [item |-> in.item, borrower |-> in.user, createdBy |-> in.actor,
                       returnedTo |-> None]
           IN  /\ in.item \in Items /\ in.user \in Users /\ in.actor \in Users
               /\ checkouts[r] = None /\ row # None /\ row \in Loan
               /\ checkouts'[r] = row
               /\ checkouts'[r].item = in.item
               /\ checkouts'[r].borrower = in.user
               /\ checkouts'[r].createdBy = in.actor
               /\ checkouts'[r].returnedTo = None
               /\ \A c \in CheckoutRequests \ {r} : checkouts'[c] = checkouts[c]
               /\ status[in.item] = "available"
               /\ status'[in.item] = "checked_out"
               /\ \A i \in Items \ {in.item} : status'[i] = status[i]
<1>1. TypeOK /\ CheckoutInv(r) /\ req[r] \in Input
  BY DEF WorkflowInv, RequestInv, Requests
<1>2. /\ req[r].item \in Items /\ req[r].user \in Users /\ req[r].actor \in Users
      /\ checkouts[r] = None /\ status[req[r].item] = "available"
  BY <1>1 DEF CheckoutInv, Input
<1>3. [item |-> req[r].item, borrower |-> req[r].user, createdBy |-> req[r].actor,
       returnedTo |-> None] \in Loan
  BY <1>2 DEF Loan
<1> QED
  BY <1>1, <1>2, <1>3, NoneIsNoRow DEF PublishCheckout, TypeOK

\* A return that commits ends its open loan and nothing else.
LEMMA EndedRow ==
    ASSUME WorkflowInv, NEW r \in ReturnRequests, pc[r] = "commit", PublishReturn(r)
    PROVE  LET in == req[r]
           IN  /\ in.item \in Items /\ in.loan \in CheckoutRequests /\ in.actor \in Users
               /\ checkouts[in.loan] \in Loan /\ checkouts[in.loan] # None
               /\ checkouts[in.loan].item = in.item
               /\ checkouts[in.loan].returnedTo = None
               /\ checkouts'[in.loan] # None
               /\ checkouts'[in.loan].item = in.item
               /\ checkouts'[in.loan].borrower = checkouts[in.loan].borrower
               /\ checkouts'[in.loan].createdBy = checkouts[in.loan].createdBy
               /\ checkouts'[in.loan].returnedTo = in.actor
               /\ in.actor # None
               /\ \A c \in CheckoutRequests \ {in.loan} : checkouts'[c] = checkouts[c]
               /\ status[in.item] = "checked_out"
               /\ status'[in.item] = "available"
               /\ \A i \in Items \ {in.item} : status'[i] = status[i]
<1>1. TypeOK /\ ReturnInv(r) /\ StatusAgrees /\ req[r] \in Input
  BY DEF WorkflowInv, RequestInv, Requests
<1>2. /\ req[r].item \in Items /\ req[r].loan \in CheckoutRequests
      /\ req[r].actor \in Users
      /\ checkouts[req[r].loan] # None
      /\ checkouts[req[r].loan].item = req[r].item
      /\ checkouts[req[r].loan].returnedTo = None
  BY <1>1 DEF ReturnInv, Input
<1>3. checkouts[req[r].loan] \in Loan
  BY <1>1, <1>2 DEF TypeOK
<1>4. /\ checkouts'[req[r].loan] = [checkouts[req[r].loan] EXCEPT !.returnedTo = req[r].actor]
      /\ \A c \in CheckoutRequests \ {req[r].loan} : checkouts'[c] = checkouts[c]
  BY <1>1, <1>2 DEF TypeOK, PublishReturn
<1>5. /\ checkouts'[req[r].loan] \in Loan
      /\ checkouts'[req[r].loan].item = req[r].item
      /\ checkouts'[req[r].loan].borrower = checkouts[req[r].loan].borrower
      /\ checkouts'[req[r].loan].createdBy = checkouts[req[r].loan].createdBy
      /\ checkouts'[req[r].loan].returnedTo = req[r].actor
  BY <1>2, <1>3, <1>4 DEF Loan
<1>6. status[req[r].item] = "checked_out"
  BY <1>1, <1>2 DEF StatusAgrees, CheckedOutIffOpenLoan, OpenLoans, LoansOf
<1>7. /\ status'[req[r].item] = "available"
      /\ \A i \in Items \ {req[r].item} : status'[i] = status[i]
  BY <1>1, <1>2 DEF TypeOK, PublishReturn
<1> QED
  BY <1>2, <1>3, <1>4, <1>5, <1>6, <1>7, NoneIsNoRow

\* No transaction takes back what another request relies on.
LEMMA RowsKept ==
    ASSUME WorkflowInv, NEW r \in Requests, Step(r)
    PROVE  /\ \A c \in CheckoutRequests : KeepsLoan(c)
           /\ \A i \in Items : KeepsDeleted(i)
           /\ \A c \in CheckoutRequests \ {r} : checkouts[c] = None => checkouts'[c] = None
<1>1. CASE UNCHANGED database
  BY <1>1 DEF database, KeepsLoan, KeepsDeleted
<1>2. CASE pc[r] = "commit" /\ r \in CheckoutRequests /\ PublishCheckout(r)
  BY <1>2, LentRow DEF KeepsLoan, KeepsDeleted
<1>3. CASE pc[r] = "commit" /\ r \in ReturnRequests /\ PublishReturn(r)
  BY <1>3, EndedRow DEF KeepsLoan, KeepsDeleted
<1>4. CASE pc[r] = "commit" /\ r \in DeleteRequests /\ PublishDelete(r)
  BY <1>4 DEF PublishDelete, KeepsLoan, KeepsDeleted, WorkflowInv, TypeOK
<1>5. CASE pc[r] = "commit" /\ r \in ActivationRequests /\ PublishActivation(r)
  BY <1>5 DEF PublishActivation, KeepsLoan, KeepsDeleted
<1> QED
  BY <1>1, <1>2, <1>3, <1>4, <1>5, OwnCommit DEF Publish

\* So the other requests' findings and answers stay true.
LEMMA OthersTrue ==
    ASSUME WorkflowInv, NEW s \in Requests, AuthorizedInv(s), TruthInv(s),
           pc'[s] = pc[s], req'[s] = req[s], answer'[s] = answer[s],
           \A c \in CheckoutRequests : KeepsLoan(c),
           \A i \in Items : KeepsDeleted(i),
           s \in CheckoutRequests /\ checkouts[s] = None => checkouts'[s] = None
    PROVE  AuthorizedInv(s)' /\ TruthInv(s)'
<1>1. RequestInv(s)
  BY DEF WorkflowInv
<1>2. AuthorizedInv(s)'
  <2>1. CASE s \in ReturnRequests
    BY <1>1, <2>1, KindsDisjoint
    DEF AuthorizedInv, RequestInv, ReturnInv, KeepsLoan, MayReturn, CanManageCheckouts,
        CanUseSelfCheckout, Has
  <2>2. CASE s \notin ReturnRequests
    BY <2>2 DEF AuthorizedInv, AuthorizeCheckoutBorrower, CanManageCheckouts,
        CanUseSelfCheckout, Has
  <2> QED
    BY <2>1, <2>2
<1>3. TruthInv(s)'
  <2>1. CASE s \in CheckoutRequests
    BY <2>1, KindsDisjoint DEF TruthInv, KeepsLoan, KeepsDeleted
  <2>2. CASE s \in ReturnRequests
    BY <2>2, KindsDisjoint DEF TruthInv, KeepsLoan
  <2>3. CASE s \in DeleteRequests
    BY <2>3, KindsDisjoint DEF TruthInv, KeepsLoan, KeepsDeleted, LoansOf
  <2>4. CASE s \in ActivationRequests
    BY <2>4, KindsDisjoint DEF TruthInv
  <2> QED
    BY <2>1, <2>2, <2>3, <2>4 DEF Requests
<1> QED
  BY <1>2, <1>3

-------------------------------------------------------------------------------
(* What a step does for its own request. *)

\* A request that was answered takes no further step.
LEMMA AnsweredStops ==
    ASSUME NEW r \in Requests, TruthInv(r), Step(r), ~QueueUp(r)
    PROVE  answer[r] = "pending"
<1>1. pc[r] # "done"
  <2>1. CASE Arrive(r)
    BY <2>1 DEF Arrive, ArriveCheckout, ArriveReturn, ArriveDelete, ArriveActivation, Submit
  <2>2. CASE Proceed(r)
    BY <2>2 DEF Proceed, GetCheckoutBorrowerForShare, GetItemForStatusUpdate, CreateCheckout,
       SetItemCheckedOut, GetCheckoutForUpdate, GetLoanItemForStatusUpdate, ReturnCheckout,
       SetItemAvailable, DeleteItem, ProbeReferences, GetUserForUpdate, ReplaceIdentity,
       Commit, DeadlockAbort, Statement
  <2>3. CASE Fail(r)
    BY <2>3 DEF Fail, Abort, CommitUnacknowledged
  <2> QED
    BY <2>1, <2>2, <2>3 DEF Step
<1> QED
  BY <1>1 DEF TruthInv

\* A request that is answered without a commit is answered with the truth.
LEMMA RefusedTrue ==
    ASSUME TypeOK, NEW r \in Requests, NEW a \in Answers, Finish(r, a), UNCHANGED database,
           req'[r] = req[r], a # "state_conflict",
           r \in CheckoutRequests =>
              /\ checkouts[r] = None /\ a # "created"
              /\ a = "item_not_found" => req[r].item \in Items /\ status[req[r].item] = "absent",
           r \in ReturnRequests =>
              /\ a # "returned"
              /\ a = "checkout_returned" =>
                    /\ req[r].loan \in CheckoutRequests
                    /\ checkouts[req[r].loan] # None
                    /\ checkouts[req[r].loan].returnedTo # None,
           r \in DeleteRequests =>
              /\ a # "deleted"
              /\ a = "item_in_use" => LoansOf(req[r].item) # {}
    PROVE  AuthorizedInv(r)' /\ TruthInv(r)'
<1>1. pc'[r] = "done" /\ answer'[r] = a
  BY DEF Finish, TypeOK
<1>2. AuthorizedInv(r)'
  BY <1>1 DEF AuthorizedInv
<1>3. TruthInv(r)'
  <2>1. CASE r \in CheckoutRequests
    BY <1>1, <2>1, KindsDisjoint DEF TruthInv, database
  <2>2. CASE r \in ReturnRequests
    BY <1>1, <2>2, KindsDisjoint DEF TruthInv, database
  <2>3. CASE r \in DeleteRequests
    BY <1>1, <2>3, KindsDisjoint DEF TruthInv, LoansOf, database
  <2>4. CASE r \in ActivationRequests
    BY <1>1, <2>4, KindsDisjoint DEF TruthInv
  <2> QED
    BY <2>1, <2>2, <2>3, <2>4 DEF Requests
<1> QED
  BY <1>2, <1>3

\* A request that arrives is refused at once, or is let in as its actor may.
LEMMA ArrivedTrue ==
    ASSUME WorkflowInv, NEW r \in Requests, AuthorizedInv(r), TruthInv(r), Arrive(r)
    PROVE  AuthorizedInv(r)' /\ TruthInv(r)'
<1>1. TypeOK /\ RequestInv(r)
  BY DEF WorkflowInv
<1>2. CASE ArriveCheckout(r)
  <2>1. PICK actor \in Users, i \in Items, borrower \in Users \cup {None}, due \in DueInputs :
          Submit(r, [InputOf(actor) EXCEPT !.item = i, !.user = borrower, !.due = due],
                 AuthorizeCheckoutBorrower(actor, borrower), "borrower")
    BY <1>2 DEF ArriveCheckout
  <2>2. /\ req'[r] = [InputOf(actor) EXCEPT !.item = i, !.user = borrower, !.due = due]
        /\ r \in CheckoutRequests /\ checkouts[r] = None /\ UNCHANGED database
        /\ \/ /\ pc'[r] = "borrower" /\ answer'[r] = "pending"
              /\ AuthorizeCheckoutBorrower(actor, borrower)
           \/ pc'[r] = "done" /\ answer'[r] \in {"forbidden", "account_inactive"}
    BY <1>1, <1>2, <2>1
    DEF ArriveCheckout, Submit, TypeOK, RequestInv, CheckoutInv, TruthInv, database
  <2>3. req'[r].actor = actor /\ req'[r].user = borrower
    BY <2>2 DEF InputOf
  <2> QED
    BY <2>2, <2>3, KindsDisjoint
    DEF AuthorizedInv, TruthInv, AuthorizeCheckoutBorrower, CanManageCheckouts,
        CanUseSelfCheckout, Has, database
<1>3. ASSUME NEW input, NEW permitted, NEW first \in {"loan", "remove", "user"},
             Submit(r, input, permitted, first), r \notin CheckoutRequests
      PROVE  AuthorizedInv(r)' /\ TruthInv(r)'
  <2>1. \/ pc'[r] = first /\ answer'[r] = "pending"
        \/ pc'[r] = "done" /\ answer'[r] \in {"forbidden", "account_inactive"}
    BY <1>1, <1>3 DEF Submit, TypeOK, TruthInv
  <2> QED
    BY <1>3, <2>1, KindsDisjoint DEF AuthorizedInv, TruthInv
<1> QED
  BY <1>2, <1>3, KindsDisjoint DEF Arrive, ArriveReturn, ArriveDelete, ArriveActivation

\* A statement that succeeds moves its request on, still unanswered.
LEMMA Advanced ==
    ASSUME TypeOK, NEW r \in Requests, TruthInv(r), NEW at, NEW next \in Steps,
           at # "done", Statement(r, at, "ok", next)
    PROVE  pc[r] = at /\ pc'[r] = next /\ answer'[r] = "pending" /\ UNCHANGED database
BY DEF Statement, TruthInv, TypeOK, database

\* A statement that fails answers its request.
LEMMA Refused ==
    ASSUME NEW r \in Requests, NEW at, NEW outcome, NEW next, outcome # "ok",
           Statement(r, at, outcome, next)
    PROVE  pc[r] = at /\ Finish(r, outcome) /\ UNCHANGED database
BY DEF Statement, database

\* The statements of a checkout.
LEMMA LendingTrue ==
    ASSUME WorkflowInv, NEW r \in Requests, AuthorizedInv(r), TruthInv(r),
           \/ GetCheckoutBorrowerForShare(r) \/ GetItemForStatusUpdate(r)
           \/ CreateCheckout(r) \/ SetItemCheckedOut(r)
    PROVE  AuthorizedInv(r)' /\ TruthInv(r)'
<1> USE KindsDisjoint
<1>1. TypeOK /\ RequestInv(r) /\ r \in CheckoutRequests /\ req' = req
  BY DEF WorkflowInv, GetCheckoutBorrowerForShare, GetItemForStatusUpdate, CreateCheckout,
     SetItemCheckedOut
<1>2. pc[r] # "done" /\ pc[r] # "new" /\ checkouts[r] = None /\ req[r] \in Input
  BY <1>1 DEF RequestInv, CheckoutInv, GetCheckoutBorrowerForShare, GetItemForStatusUpdate,
     CreateCheckout, SetItemCheckedOut, Statement
<1>3. AuthorizeCheckoutBorrower(req[r].actor, req[r].user)
  BY <1>1, <1>2 DEF AuthorizedInv
<1>4. ASSUME pc'[r] \in {"item", "insert", "status", "commit"}, answer'[r] = "pending",
             UNCHANGED database,
             pc'[r] = "insert" => req[r].due # "elapsed",
             pc'[r] \in {"status", "commit"} => req[r].due \in {"none", "later"}
      PROVE  AuthorizedInv(r)' /\ TruthInv(r)'
  BY <1>1, <1>3, <1>4
  DEF AuthorizedInv, TruthInv, AuthorizeCheckoutBorrower, CanManageCheckouts,
      CanUseSelfCheckout, Has, Refusals
<1>5. ASSUME NEW at, NEW outcome, NEW next, outcome # "ok", Statement(r, at, outcome, next),
             outcome \in Refusals \ {"state_conflict"},
             outcome = "item_not_found" => req[r].item \in Items /\ status[req[r].item] = "absent"
      PROVE  AuthorizedInv(r)' /\ TruthInv(r)'
  <2>1. Finish(r, outcome) /\ UNCHANGED database
    BY <1>5, Refused
  <2>2. outcome \in Answers /\ outcome # "created" /\ outcome # "state_conflict"
    BY <1>5 DEF Answers, Refusals
  <2> QED
    BY <1>1, <1>2, <1>5, <2>1, <2>2, RefusedTrue
<1>6. CASE GetCheckoutBorrowerForShare(r)
  <2>1. Statement(r, "borrower", BorrowerOutcome(r), "item")
    BY <1>6 DEF GetCheckoutBorrowerForShare
  <2>2. CASE BorrowerOutcome(r) = "ok"
    BY <1>1, <1>4, <2>1, <2>2, Advanced DEF Steps
  <2>3. CASE BorrowerOutcome(r) # "ok"
    BY <1>5, <2>1, <2>3 DEF BorrowerOutcome, Refusals
  <2> QED
    BY <2>2, <2>3
<1>7. CASE GetItemForStatusUpdate(r)
  <2>1. Statement(r, "item", ItemOutcome(r), "insert")
    BY <1>7 DEF GetItemForStatusUpdate
  <2>2. CASE ItemOutcome(r) = "ok"
    BY <1>1, <1>4, <2>1, <2>2, Advanced DEF Steps, ItemOutcome
  <2>3. CASE ItemOutcome(r) # "ok"
    <3>1. req[r].item \in Items
      BY <1>1, <2>1 DEF RequestInv, CheckoutInv, Statement
    <3> QED
      BY <1>5, <2>1, <2>3, <3>1 DEF ItemOutcome, Refusals
  <2> QED
    BY <2>2, <2>3
<1>8. CASE CreateCheckout(r)
  <2>1. Statement(r, "insert", InsertOutcome(r), "status")
    BY <1>8 DEF CreateCheckout
  <2>2. CASE InsertOutcome(r) = "ok"
    <3>1. /\ pc[r] = "insert" /\ pc'[r] = "status" /\ answer'[r] = "pending"
          /\ UNCHANGED database
      BY <1>1, <2>1, <2>2, Advanced DEF Steps
    <3>2. req[r].due \in {"none", "later"}
      BY <1>1, <1>2, <2>2, <3>1, DueInputsType DEF TruthInv, InsertOutcome, Input
    <3> QED
      BY <1>4, <3>1, <3>2
  <2>3. CASE InsertOutcome(r) # "ok"
    BY <1>5, <2>1, <2>3 DEF InsertOutcome, Refusals
  <2> QED
    BY <2>2, <2>3
<1>9. CASE SetItemCheckedOut(r)
  <2>1. Statement(r, "status", LendStatusOutcome(r), "commit")
    BY <1>9 DEF SetItemCheckedOut
  <2>2. CASE LendStatusOutcome(r) = "ok"
    <3>1. /\ pc[r] = "status" /\ pc'[r] = "commit" /\ answer'[r] = "pending"
          /\ UNCHANGED database
      BY <1>1, <2>1, <2>2, Advanced DEF Steps
    <3>2. req[r].due \in {"none", "later"}
      BY <1>1, <3>1 DEF TruthInv
    <3> QED
      BY <1>4, <3>1, <3>2
  <2>3. CASE LendStatusOutcome(r) # "ok"
    BY <1>5, <2>1, <2>3 DEF LendStatusOutcome, Refusals
  <2> QED
    BY <2>2, <2>3
<1> QED
  BY <1>6, <1>7, <1>8, <1>9

\* The statements of a return.
LEMMA EndingTrue ==
    ASSUME WorkflowInv, NEW r \in Requests, AuthorizedInv(r), TruthInv(r),
           \/ GetCheckoutForUpdate(r) \/ GetLoanItemForStatusUpdate(r)
           \/ ReturnCheckout(r) \/ SetItemAvailable(r)
    PROVE  AuthorizedInv(r)' /\ TruthInv(r)'
<1> USE KindsDisjoint
<1>1. TypeOK /\ StatusAgrees /\ RequestInv(r) /\ ReturnInv(r) /\ r \in ReturnRequests
  BY DEF WorkflowInv, RequestInv, GetCheckoutForUpdate, GetLoanItemForStatusUpdate,
     ReturnCheckout, SetItemAvailable
<1>2. ASSUME pc'[r] \in {"loan_item", "settle", "restore", "commit"}, answer'[r] = "pending",
             UNCHANGED database, req'[r].actor = req[r].actor, req'[r].loan = req[r].loan,
             MayReturn(req[r].actor, checkouts[req[r].loan])
      PROVE  AuthorizedInv(r)' /\ TruthInv(r)'
  BY <1>1, <1>2
  DEF AuthorizedInv, TruthInv, MayReturn, CanManageCheckouts, CanUseSelfCheckout, Has, database
<1>3. ASSUME NEW at, NEW outcome, NEW next, outcome # "ok", Statement(r, at, outcome, next),
             outcome \in Refusals \ {"state_conflict"}, req' = req,
             outcome = "checkout_returned" =>
                /\ req[r].loan \in CheckoutRequests
                /\ checkouts[req[r].loan] # None
                /\ checkouts[req[r].loan].returnedTo # None
      PROVE  AuthorizedInv(r)' /\ TruthInv(r)'
  <2>1. Finish(r, outcome) /\ UNCHANGED database
    BY <1>3, Refused
  <2>2. outcome \in Answers /\ outcome # "returned" /\ outcome # "state_conflict"
    BY <1>3 DEF Answers, Refusals
  <2> QED
    BY <1>1, <1>3, <2>1, <2>2, RefusedTrue
<1>4. CASE GetCheckoutForUpdate(r)
  <2>1. Statement(r, "loan", LoanOutcome(r), "loan_item") /\ pc[r] = "loan"
    BY <1>4 DEF GetCheckoutForUpdate, Statement
  <2>2. req[r] \in Input /\ req[r].loan \in CheckoutRequests
    BY <1>1, <2>1 DEF RequestInv, ReturnInv
  <2>3. CASE LoanOutcome(r) = "ok"
    <3>1. pc'[r] = "loan_item" /\ answer'[r] = "pending" /\ UNCHANGED database
      BY <1>1, <2>1, <2>3, Advanced DEF Steps
    <3>2. req'[r] = [req[r] EXCEPT !.item = checkouts[req[r].loan].item]
      BY <1>1, <1>4, <2>3 DEF GetCheckoutForUpdate, TypeOK
    <3>3. req'[r].actor = req[r].actor /\ req'[r].loan = req[r].loan
      BY <2>2, <3>2 DEF Input
    <3>4. MayReturn(req[r].actor, checkouts[req[r].loan])
      BY <2>3 DEF LoanOutcome
    <3> QED
      BY <1>2, <3>1, <3>3, <3>4
  <2>4. CASE LoanOutcome(r) # "ok"
    <3>1. req' = req
      BY <1>4, <2>4 DEF GetCheckoutForUpdate
    <3> QED
      BY <1>3, <2>1, <2>2, <2>4, <3>1 DEF LoanOutcome, Refusals
  <2> QED
    BY <2>3, <2>4
<1>5. ASSUME pc[r] \in {"loan_item", "settle", "restore"}
      PROVE  /\ MayReturn(req[r].actor, checkouts[req[r].loan])
             /\ LoanItemOutcome(r) = "ok" /\ SettleOutcome(r) = "ok"
  <2>1. MayReturn(req[r].actor, checkouts[req[r].loan])
    BY <1>1, <1>5 DEF AuthorizedInv
  <2>2. /\ req[r].item \in Items /\ req[r].loan \in CheckoutRequests
        /\ checkouts[req[r].loan] # None
        /\ checkouts[req[r].loan].item = req[r].item
        /\ checkouts[req[r].loan].returnedTo = None
    BY <1>1, <1>5 DEF ReturnInv
  <2>3. status[req[r].item] = "checked_out"
    BY <1>1, <2>2 DEF StatusAgrees, CheckedOutIffOpenLoan, OpenLoans, LoansOf
  <2> QED
    BY <2>1, <2>2, <2>3 DEF LoanItemOutcome, SettleOutcome
<1>6. CASE GetLoanItemForStatusUpdate(r)
  <2>1. Statement(r, "loan_item", "ok", "settle") /\ req' = req
    BY <1>5, <1>6 DEF GetLoanItemForStatusUpdate, Statement
  <2> QED
    BY <1>1, <1>2, <1>5, <2>1, Advanced DEF Steps
<1>7. CASE ReturnCheckout(r)
  <2>1. Statement(r, "settle", "ok", "restore") /\ req' = req
    BY <1>5, <1>7 DEF ReturnCheckout, Statement
  <2> QED
    BY <1>1, <1>2, <1>5, <2>1, Advanced DEF Steps
<1>8. CASE SetItemAvailable(r)
  <2>1. Statement(r, "restore", "ok", "commit") /\ req' = req
    BY <1>5, <1>8 DEF SetItemAvailable, Statement
  <2> QED
    BY <1>1, <1>2, <1>5, <2>1, Advanced DEF Steps
<1> QED
  BY <1>4, <1>6, <1>7, <1>8

\* The statements of a deletion and of an activation.
LEMMA RemovingTrue ==
    ASSUME WorkflowInv, NEW r \in Requests, AuthorizedInv(r), TruthInv(r),
           DeleteItem(r) \/ ProbeReferences(r) \/ GetUserForUpdate(r) \/ ReplaceIdentity(r)
    PROVE  AuthorizedInv(r)' /\ TruthInv(r)'
<1> USE KindsDisjoint
<1>1. TypeOK /\ RequestInv(r)
  BY DEF WorkflowInv
<1>2. CASE DeleteItem(r)
  <2>1. r \in DeleteRequests /\ pc[r] = "remove" /\ req[r].item \in Items /\ req[r] \in Input
    BY <1>1, <1>2 DEF DeleteItem, RequestInv, DeleteInv
  <2>2. CASE LoansOf(req[r].item) = {}
    <3>1. Statement(r, "remove", RemoveOutcome(r), "commit") /\ req' = req
      BY <1>2, <2>2 DEF DeleteItem
    <3>2. CASE RemoveOutcome(r) = "ok"
      <4>1. pc'[r] = "commit" /\ answer'[r] = "pending"
        BY <1>1, <3>1, <3>2, Advanced DEF Steps
      <4> QED
        BY <2>1, <4>1 DEF AuthorizedInv, TruthInv
    <3>3. CASE RemoveOutcome(r) # "ok"
      <4>1. RemoveOutcome(r) = "item_not_found"
        BY <3>3 DEF RemoveOutcome
      <4>2. Finish(r, "item_not_found") /\ UNCHANGED database
        BY <3>1, <3>3, <4>1, Refused
      <4>3. "item_not_found" \in Answers
        BY DEF Answers, Refusals
      <4> QED
        BY <1>1, <2>1, <3>1, <4>2, <4>3, RefusedTrue
    <3> QED
      BY <3>2, <3>3
  <2>3. CASE LoansOf(req[r].item) # {}
    <3>1. PICK c \in LoansOf(req[r].item) :
            /\ Statement(r, "remove", "ok", "references")
            /\ req' = [req EXCEPT ![r].loan = c]
      BY <1>2, <2>3 DEF DeleteItem
    <3>2. pc'[r] = "references" /\ answer'[r] = "pending" /\ UNCHANGED database
      BY <1>1, <3>1, Advanced DEF Steps
    <3>3. req'[r].loan = c /\ req'[r].item = req[r].item
      BY <1>1, <2>1, <3>1 DEF TypeOK, Input
    <3>4. c \in LoansOf(req[r].item)'
      BY <3>2, <3>3 DEF LoansOf, database
    <3> QED
      BY <2>1, <3>2, <3>3, <3>4 DEF AuthorizedInv, TruthInv
  <2> QED
    BY <2>2, <2>3
<1>3. CASE ProbeReferences(r)
  <2>1. r \in DeleteRequests /\ pc[r] = "references" /\ req' = req
    BY <1>3 DEF ProbeReferences, Statement
  <2>2. Finish(r, "item_in_use") /\ UNCHANGED database
    BY <1>3, Refused DEF ProbeReferences
  <2>3. LoansOf(req[r].item) # {}
    BY <2>1 DEF TruthInv
  <2>4. "item_in_use" \in Answers
    BY DEF Answers, Refusals
  <2> QED
    BY <1>1, <2>1, <2>2, <2>3, <2>4, RefusedTrue
<1>4. CASE GetUserForUpdate(r)
  <2>1. r \in ActivationRequests /\ pc'[r] = "identity" /\ answer'[r] = "pending"
    BY <1>1, <1>4, Advanced DEF GetUserForUpdate, Steps
  <2> QED
    BY <2>1 DEF AuthorizedInv, TruthInv
<1>5. CASE ReplaceIdentity(r)
  <2>1. PICK outcome \in {"ok", "not_synchronized"} : Statement(r, "identity", outcome, "commit")
    BY <1>5 DEF ReplaceIdentity
  <2>2. r \in ActivationRequests /\ pc[r] = "identity" /\ answer[r] = "pending"
    BY <1>5, <2>1 DEF ReplaceIdentity, Statement, TruthInv
  <2>3. \/ pc'[r] = "commit" /\ answer'[r] = "pending"
        \/ pc'[r] = "done" /\ answer'[r] = "not_synchronized"
    BY <1>1, <2>1, <2>2 DEF Statement, Finish, TypeOK
  <2> QED
    BY <2>2, <2>3 DEF AuthorizedInv, TruthInv
<1> QED
  BY <1>2, <1>3, <1>4, <1>5

\* A commit grants what it wrote; unacknowledged, it says nothing.
LEMMA CommittedTrue ==
    ASSUME WorkflowInv, NEW r \in Requests, AuthorizedInv(r), TruthInv(r),
           pc[r] = "commit", Publish(r), NEW a \in {GrantOf(r), "internal_error"},
           Finish(r, a), req' = req
    PROVE  AuthorizedInv(r)' /\ TruthInv(r)'
<1> USE KindsDisjoint
<1>1. TypeOK /\ RequestInv(r)
  BY DEF WorkflowInv
<1>2. pc'[r] = "done" /\ answer'[r] = a
  BY <1>1 DEF Finish, TypeOK
<1>3. AuthorizedInv(r)'
  BY <1>2 DEF AuthorizedInv
<1>4. CASE r \in CheckoutRequests /\ PublishCheckout(r)
  <2>1. checkouts'[r] # None
    BY <1>4, LentRow
  <2>2. req[r].due \in {"none", "later"} /\ a \in {"created", "internal_error"}
    BY <1>4 DEF TruthInv, GrantOf
  <2> QED
    BY <1>2, <1>3, <1>4, <2>1, <2>2 DEF TruthInv, Refusals
<1>5. CASE r \in ReturnRequests /\ PublishReturn(r)
  <2>1. /\ req[r].loan \in CheckoutRequests
        /\ checkouts'[req[r].loan] # None
        /\ checkouts'[req[r].loan].returnedTo = req[r].actor
        /\ req[r].actor # None
    BY <1>5, EndedRow
  <2>2. a \in {"returned", "internal_error"}
    BY <1>5 DEF GrantOf
  <2> QED
    BY <1>2, <1>3, <1>5, <2>1, <2>2 DEF TruthInv
<1>6. CASE r \in DeleteRequests /\ PublishDelete(r)
  <2>1. req[r].item \in Items
    BY <1>1, <1>6 DEF RequestInv, DeleteInv
  <2>2. status'[req[r].item] = "absent" /\ a \in {"deleted", "internal_error"}
    BY <1>1, <1>6, <2>1 DEF PublishDelete, TypeOK, GrantOf
  <2> QED
    BY <1>2, <1>3, <1>6, <2>1, <2>2 DEF TruthInv
<1>7. CASE r \in ActivationRequests /\ PublishActivation(r)
  BY <1>2, <1>3, <1>7 DEF TruthInv, GrantOf
<1> QED
  BY <1>4, <1>5, <1>6, <1>7 DEF Publish

\* Whatever its step, a request's findings and its answer are true after it.
LEMMA ActorTrue ==
    ASSUME WorkflowInv, NEW r \in Requests, AuthorizedInv(r), TruthInv(r), Step(r)
    PROVE  AuthorizedInv(r)' /\ TruthInv(r)'
<1>1. TypeOK /\ RequestInv(r)
  BY DEF WorkflowInv
<1>2. ASSUME pc[r] \notin {"new", "done"}, Finish(r, "internal_error"), UNCHANGED database,
             req' = req
      PROVE  AuthorizedInv(r)' /\ TruthInv(r)'
  <2>1. r \in CheckoutRequests => checkouts[r] = None
    BY <1>1, <1>2 DEF RequestInv, CheckoutInv
  <2>2. "internal_error" \in Answers
    BY DEF Answers
  <2> QED
    BY <1>1, <1>2, <2>1, <2>2, RefusedTrue
<1>3. CASE Arrive(r)
  BY <1>3, ArrivedTrue
<1>4. CASE Proceed(r)
  <2>1. CASE \/ GetCheckoutBorrowerForShare(r) \/ GetItemForStatusUpdate(r)
             \/ CreateCheckout(r) \/ SetItemCheckedOut(r)
    BY <2>1, LendingTrue
  <2>2. CASE \/ GetCheckoutForUpdate(r) \/ GetLoanItemForStatusUpdate(r)
             \/ ReturnCheckout(r) \/ SetItemAvailable(r)
    BY <2>2, EndingTrue
  <2>3. CASE \/ DeleteItem(r) \/ ProbeReferences(r)
             \/ GetUserForUpdate(r) \/ ReplaceIdentity(r)
    BY <2>3, RemovingTrue
  <2>4. CASE Commit(r)
    BY <2>4, CommittedTrue DEF Commit
  <2>5. CASE DeadlockAbort(r)
    BY <1>2, <2>5 DEF DeadlockAbort, database
  <2> QED
    BY <1>4, <2>1, <2>2, <2>3, <2>4, <2>5 DEF Proceed
<1>5. CASE Abort(r)
  BY <1>2, <1>5 DEF Abort, database
<1>6. CASE CommitUnacknowledged(r)
  BY <1>6, CommittedTrue DEF CommitUnacknowledged
<1>7. CASE QueueUp(r)
  <2>1. UNCHANGED <<pc, req, answer, database>>
    BY <1>7 DEF QueueUp, database
  <2> QED
    BY <2>1 DEF AuthorizedInv, TruthInv, MayReturn, AuthorizeCheckoutBorrower,
       CanManageCheckouts, CanUseSelfCheckout, Has, LoansOf, database
<1> QED
  BY <1>3, <1>4, <1>5, <1>6, <1>7 DEF Step, Fail

-------------------------------------------------------------------------------
(* What a commit records. *)

\* Every loan is made and ended by one who may.
LEMMA AuthorizedStep ==
    ASSUME WorkflowInv, LoansAuthorized, NEW r \in Requests, AuthorizedInv(r), Step(r)
    PROVE  LoansAuthorized'
<1> USE DEF AuthorizeCheckoutBorrower, MayReturn, CanManageCheckouts, CanUseSelfCheckout, Has
<1>1. CASE UNCHANGED database
  BY <1>1 DEF database, LoansAuthorized
<1>2. CASE pc[r] = "commit" /\ r \in CheckoutRequests /\ PublishCheckout(r)
  <2>1. AuthorizeCheckoutBorrower(req[r].actor, req[r].user)
    BY <1>2 DEF AuthorizedInv
  <2>2. /\ checkouts'[r].createdBy = req[r].actor /\ checkouts'[r].borrower = req[r].user
        /\ checkouts'[r].returnedTo = None
        /\ \A c \in CheckoutRequests \ {r} : checkouts'[c] = checkouts[c]
    BY <1>2, LentRow
  <2> QED
    BY <1>2, <2>1, <2>2 DEF LoansAuthorized
<1>3. CASE pc[r] = "commit" /\ r \in ReturnRequests /\ PublishReturn(r)
  <2>1. MayReturn(req[r].actor, checkouts[req[r].loan])
    BY <1>3 DEF AuthorizedInv
  <2> QED
    BY <1>3, <2>1, EndedRow DEF LoansAuthorized
<1>4. CASE pc[r] = "commit" /\ r \in DeleteRequests /\ PublishDelete(r)
  BY <1>4 DEF PublishDelete, LoansAuthorized
<1>5. CASE pc[r] = "commit" /\ r \in ActivationRequests /\ PublishActivation(r)
  BY <1>5 DEF PublishActivation, LoansAuthorized
<1> QED
  BY <1>1, <1>2, <1>3, <1>4, <1>5, OwnCommit DEF Publish

\* What the audit trail of one checkout must be.
Trail(c) ==
    IF checkouts[c] = None THEN <<>>
    ELSE LET created == AuditEvent("checkout.created", checkouts[c].createdBy)
         IN  IF checkouts[c].returnedTo = None THEN <<created>>
             ELSE <<created, AuditEvent("checkout.returned", checkouts[c].returnedTo)>>

\* Appending to a short sequence.
LEMMA AppendShort ==
    ASSUME NEW d, NEW e
    PROVE  Append(<<>>, d) = <<d>> /\ Append(<<d>>, e) = <<d, e>>
<1> DEFINE S == {d, e}
           one == Append(<<>>, d)
           two == Append(<<d>>, e)
<1>1. <<>> \in Seq(S) /\ Len(<<>>) = 0 /\ <<d>> \in Seq(S) /\ Len(<<d>>) = 1
      /\ <<d, e>> \in Seq(S) /\ Len(<<d, e>>) = 2 /\ d \in S /\ e \in S
  BY EmptySeq
<1> HIDE DEF S
<1>2. one = <<d>>
  <2>1. one \in Seq(S) /\ Len(one) = 1 /\ one[1] = d
    BY <1>1, AppendProperties
  <2>2. \A i \in 1..Len(one) : one[i] = <<d>>[i]
    BY <2>1
  <2> HIDE DEF one
  <2> QED
    BY <1>1, <2>1, <2>2, SeqEqual
<1>3. two = <<d, e>>
  <2>1. two \in Seq(S) /\ Len(two) = 2 /\ two[2] = e /\ two[1] = d
    <3>1. /\ two \in Seq(S) /\ Len(two) = 1 + 1 /\ two[1 + 1] = e
          /\ \A i \in 1..1 : two[i] = <<d>>[i]
      BY <1>1, AppendProperties
    <3> QED
      BY <3>1
  <2>2. \A i \in 1..Len(two) : two[i] = <<d, e>>[i]
    BY <2>1
  <2> HIDE DEF two
  <2> QED
    BY <1>1, <2>1, <2>2, SeqEqual
<1> QED
  BY <1>2, <1>3

\* A commit adds its own event to the trail of its own checkout.
LEMMA AuditStep ==
    ASSUME WorkflowInv, AuditTrail, NEW r \in Requests, Step(r)
    PROVE  AuditTrail'
<1>1. TypeOK /\ \A c \in CheckoutRequests : audit[c] = Trail(c)
  BY DEF WorkflowInv, AuditTrail, Trail
<1> SUFFICES ASSUME NEW c \in CheckoutRequests PROVE audit'[c] = Trail(c)'
  BY DEF AuditTrail, Trail
<1>2. CASE UNCHANGED database
  BY <1>1, <1>2 DEF database, Trail
<1>3. CASE pc[r] = "commit" /\ r \in CheckoutRequests /\ PublishCheckout(r)
  <2>1. audit' = [audit EXCEPT ![r] = Append(@, AuditEvent("checkout.created", req[r].actor))]
    BY <1>3 DEF PublishCheckout
  <2>2. CASE c = r
    <3>1. /\ audit[r] = <<>>
          /\ audit'[r] = Append(<<>>, AuditEvent("checkout.created", req[r].actor))
      BY <1>1, <1>3, <2>1, LentRow DEF TypeOK, Trail
    <3>2. /\ checkouts'[r] # None /\ checkouts'[r].createdBy = req[r].actor
          /\ checkouts'[r].returnedTo = None
      BY <1>3, LentRow
    <3> QED
      BY <2>2, <3>1, <3>2, AppendShort DEF Trail
  <2>3. CASE c # r
    <3>1. checkouts'[c] = checkouts[c]
      BY <1>3, <2>3, LentRow
    <3>2. audit'[c] = audit[c]
      BY <1>1, <2>1, <2>3 DEF TypeOK
    <3> QED
      BY <1>1, <3>1, <3>2 DEF Trail
  <2> QED
    BY <2>2, <2>3
<1>4. CASE pc[r] = "commit" /\ r \in ReturnRequests /\ PublishReturn(r)
  <2> DEFINE l == req[r].loan
  <2>1. audit' = [audit EXCEPT ![l] = Append(@, AuditEvent("checkout.returned", req[r].actor))]
    BY <1>4 DEF PublishReturn
  <2>2. CASE c = l
    <3>1. /\ checkouts[l] # None /\ checkouts[l].returnedTo = None
          /\ checkouts'[l] # None /\ checkouts'[l].createdBy = checkouts[l].createdBy
          /\ checkouts'[l].returnedTo = req[r].actor /\ req[r].actor # None
      BY <1>4, EndedRow
    <3>2. audit[l] = <<AuditEvent("checkout.created", checkouts[l].createdBy)>>
      BY <1>1, <2>2, <3>1 DEF Trail
    <3>3. audit'[l] = Append(audit[l], AuditEvent("checkout.returned", req[r].actor))
      BY <1>1, <2>1, <2>2 DEF TypeOK
    <3>4. audit'[l] = <<AuditEvent("checkout.created", checkouts[l].createdBy),
                        AuditEvent("checkout.returned", req[r].actor)>>
      BY <3>2, <3>3, AppendShort
    <3>5. Trail(c)' = <<AuditEvent("checkout.created", checkouts'[c].createdBy),
                        AuditEvent("checkout.returned", checkouts'[c].returnedTo)>>
      BY <2>2, <3>1 DEF Trail
    <3> QED
      BY <2>2, <3>1, <3>4, <3>5
  <2>3. CASE c # l
    <3>1. checkouts'[c] = checkouts[c]
      BY <1>4, <2>3, EndedRow
    <3>2. audit'[c] = audit[c]
      BY <1>1, <2>1, <2>3 DEF TypeOK
    <3> QED
      BY <1>1, <3>1, <3>2 DEF Trail
  <2> QED
    BY <2>2, <2>3
<1>5. CASE pc[r] = "commit" /\ r \in DeleteRequests /\ PublishDelete(r)
  BY <1>1, <1>5 DEF PublishDelete, Trail
<1>6. CASE pc[r] = "commit" /\ r \in ActivationRequests /\ PublishActivation(r)
  BY <1>1, <1>6 DEF PublishActivation, Trail
<1> QED
  BY <1>2, <1>3, <1>4, <1>5, <1>6, OwnCommit DEF Publish

-------------------------------------------------------------------------------
(* The status history. *)

\* The history of one item is a chain.
ChainInv(i) ==
    LET h == history[i]
    IN  /\ \A k \in 2..Len(h) :
              /\ h[k].from = h[k - 1].to
              /\ h[k].to = "available" => h[k].source = h[k - 1].source
        /\ h # <<>> => h[1].from = "available" /\ h[Len(h)].to = status[i]

\* Of an appended sequence: its length, its last element and the others.
LEMMA AppendFacts ==
    ASSUME NEW S, NEW h \in Seq(S), NEW e \in S
    PROVE  /\ Append(h, e) \in Seq(S) /\ Append(h, e) # <<>>
           /\ Len(Append(h, e)) = Len(h) + 1 /\ Len(h) \in Nat
           /\ Append(h, e)[Len(h) + 1] = e
           /\ \A k \in 1..Len(h) : Append(h, e)[k] = h[k]
           /\ h # <<>> <=> Len(h) > 0
BY AppendProperties, LenProperties, EmptySeq

\* An entry that starts where the chain ended, and that names the loan the chain
\* ended with if it is a return, continues the chain.
LEMMA ChainGrows ==
    ASSUME TypeOK, NEW i \in Items, ChainInv(i), NEW e \in HistoryEntries,
           history'[i] = Append(history[i], e), status'[i] = e.to, e.from = status[i],
           history[i] = <<>> => e.from = "available",
           e.to = "available" =>
              history[i] # <<>> /\ e.source = history[i][Len(history[i])].source
    PROVE  ChainInv(i)'
<1> DEFINE h == history[i]
           g == Append(h, e)
<1>1. h \in Seq(HistoryEntries)
  BY DEF TypeOK
<1>2. /\ g # <<>> /\ Len(g) = Len(h) + 1 /\ Len(h) \in Nat /\ g[Len(h) + 1] = e
      /\ \A k \in 1..Len(h) : g[k] = h[k]
      /\ h # <<>> <=> Len(h) > 0
  BY <1>1, AppendFacts
<1>3. /\ \A k \in 2..Len(h) :
            /\ h[k].from = h[k - 1].to
            /\ h[k].to = "available" => h[k].source = h[k - 1].source
      /\ h # <<>> => h[1].from = "available" /\ h[Len(h)].to = status[i]
  BY DEF ChainInv
<1>4. e.to = "available" => h # <<>> /\ e.source = h[Len(h)].source
  OBVIOUS
<1>5. h = <<>> => e.from = "available"
  OBVIOUS
<1> HIDE DEF h, g
<1>6. ASSUME NEW k \in 2..Len(g)
      PROVE  /\ g[k].from = g[k - 1].to
             /\ g[k].to = "available" => g[k].source = g[k - 1].source
  <2>1. CASE k \in 2..Len(h)
    BY <1>2, <1>3, <2>1
  <2>2. CASE k = Len(h) + 1
    <3>1. Len(h) > 0 /\ k - 1 = Len(h) /\ g[k] = e /\ g[k - 1] = h[Len(h)]
      BY <1>2, <1>6, <2>2
    <3> QED
      BY <1>2, <1>3, <1>4, <3>1
  <2> QED
    BY <1>2, <1>6, <2>1, <2>2
<1>7. g[1].from = "available" /\ g[Len(g)].to = status'[i]
  <2>1. CASE h = <<>>
    BY <1>2, <1>5, <2>1
  <2>2. CASE h # <<>>
    BY <1>2, <1>3, <2>2
  <2> QED
    BY <2>1, <2>2
<1>8. history'[i] = g
  BY DEF g, h
<1> QED
  BY <1>6, <1>7, <1>8 DEF ChainInv

\* Its sources stay the item's loans, the last of them open if one is.
LEMMA SourcesGrow ==
    ASSUME TypeOK, NEW i \in Items, HistoryInv(i), NEW e \in HistoryEntries,
           history'[i] = Append(history[i], e),
           LoansOf(i) \subseteq LoansOf(i)', e.source \in LoansOf(i)',
           OpenLoans(i)' # {} => e.source \in OpenLoans(i)'
    PROVE  HistoryInv(i)'
<1> DEFINE h == history[i]
           g == Append(h, e)
<1>1. h \in Seq(HistoryEntries)
  BY DEF TypeOK
<1>2. /\ g # <<>> /\ Len(g) = Len(h) + 1 /\ Len(h) \in Nat /\ g[Len(h) + 1] = e
      /\ \A k \in 1..Len(h) : g[k] = h[k]
  BY <1>1, AppendFacts
<1>3. \A k \in 1..Len(h) : h[k].source \in LoansOf(i)
  BY DEF HistoryInv
<1> HIDE DEF h, g
<1>4. ASSUME NEW k \in 1..Len(g) PROVE g[k].source \in LoansOf(i)'
  <2>1. CASE k \in 1..Len(h)
    BY <1>2, <1>3, <2>1
  <2>2. CASE k = Len(h) + 1
    BY <1>2, <2>2
  <2> QED
    BY <1>2, <1>4, <2>1, <2>2
<1>5. OpenLoans(i)' # {} => g # <<>> /\ g[Len(g)].source \in OpenLoans(i)'
  BY <1>2
<1>6. history'[i] = g
  BY DEF g, h
<1> QED
  BY <1>4, <1>5, <1>6 DEF HistoryInv

\* A commit appends to the history of its own item what continues it.
LEMMA HistoryStep ==
    ASSUME WorkflowInv, HistoryChain, \A j \in Items : HistoryInv(j),
           NEW r \in Requests, Step(r), NEW i \in Items
    PROVE  ChainInv(i)' /\ HistoryInv(i)'
<1>1. TypeOK /\ StatusAgrees /\ ChainInv(i) /\ HistoryInv(i)
  BY DEF WorkflowInv, HistoryChain, ChainInv
<1>2. ASSUME history'[i] = history[i], status'[i] = status[i] \/ history[i] = <<>>,
             LoansOf(i)' = LoansOf(i), OpenLoans(i)' = OpenLoans(i)
      PROVE  ChainInv(i)' /\ HistoryInv(i)'
  BY <1>1, <1>2 DEF ChainInv, HistoryInv
<1>3. CASE UNCHANGED database
  <2>1. LoansOf(i)' = LoansOf(i) /\ OpenLoans(i)' = OpenLoans(i)
    BY <1>3 DEF database, LoansOf, OpenLoans
  <2> QED
    BY <1>2, <1>3, <2>1 DEF database
<1>4. CASE pc[r] = "commit" /\ r \in CheckoutRequests /\ PublishCheckout(r)
  <2> DEFINE e == HistoryEntry("available", "checked_out", r, req[r].actor)
  <2>1. /\ req[r].item \in Items /\ req[r].actor \in Users /\ checkouts[r] = None
        /\ checkouts'[r] # None /\ checkouts'[r].item = req[r].item
        /\ checkouts'[r].returnedTo = None
        /\ \A c \in CheckoutRequests \ {r} : checkouts'[c] = checkouts[c]
        /\ status[req[r].item] = "available"
        /\ status'[req[r].item] = "checked_out"
        /\ \A j \in Items \ {req[r].item} : status'[j] = status[j]
    BY <1>4, LentRow
  <2>2. history' = [history EXCEPT ![req[r].item] = Append(@, e)]
    BY <1>4 DEF PublishCheckout
  <2>3. CASE i # req[r].item
    <3>1. history'[i] = history[i]
      BY <1>1, <2>1, <2>2, <2>3 DEF TypeOK
    <3>2. LoansOf(i)' = LoansOf(i) /\ OpenLoans(i)' = OpenLoans(i)
      BY <2>1, <2>3 DEF LoansOf, OpenLoans
    <3> QED
      BY <1>2, <2>1, <2>3, <3>1, <3>2
  <2>4. CASE i = req[r].item
    <3>1. e \in HistoryEntries /\ e.from = "available" /\ e.to = "checked_out" /\ e.source = r
      BY <1>4, <2>1 DEF HistoryEntry, HistoryEntries, Statuses
    <3>2. history'[i] = Append(history[i], e)
      BY <1>1, <2>1, <2>2, <2>4 DEF TypeOK
    <3>3. /\ LoansOf(i) \subseteq LoansOf(i)' /\ r \in LoansOf(i)' /\ r \in OpenLoans(i)'
      BY <1>4, <2>1, <2>4 DEF LoansOf, OpenLoans
    <3> HIDE DEF e
    <3>4. ChainInv(i)'
      BY <1>1, <2>1, <2>4, <3>1, <3>2, ChainGrows
    <3>5. HistoryInv(i)'
      BY <1>1, <3>1, <3>2, <3>3, SourcesGrow
    <3> QED
      BY <3>4, <3>5
  <2> QED
    BY <2>3, <2>4
<1>5. CASE pc[r] = "commit" /\ r \in ReturnRequests /\ PublishReturn(r)
  <2> DEFINE l == req[r].loan
             e == HistoryEntry("checked_out", "available", l, req[r].actor)
  <2>1. /\ req[r].item \in Items /\ l \in CheckoutRequests /\ req[r].actor \in Users
        /\ checkouts[l] # None /\ checkouts[l].item = req[r].item
        /\ checkouts[l].returnedTo = None
        /\ checkouts'[l] # None /\ checkouts'[l].item = req[r].item
        /\ checkouts'[l].returnedTo # None
        /\ \A c \in CheckoutRequests \ {l} : checkouts'[c] = checkouts[c]
        /\ status[req[r].item] = "checked_out"
        /\ status'[req[r].item] = "available"
        /\ \A j \in Items \ {req[r].item} : status'[j] = status[j]
    BY <1>5, EndedRow
  <2>2. history' = [history EXCEPT ![req[r].item] = Append(@, e)]
    BY <1>5 DEF PublishReturn
  <2>3. LoansOf(i)' = LoansOf(i)
    BY <2>1 DEF LoansOf
  <2>4. CASE i # req[r].item
    <3>1. history'[i] = history[i]
      BY <1>1, <2>1, <2>2, <2>4 DEF TypeOK
    <3>2. OpenLoans(i)' = OpenLoans(i)
      BY <2>1, <2>4 DEF LoansOf, OpenLoans
    <3> QED
      BY <1>2, <2>1, <2>3, <2>4, <3>1, <3>2
  <2>5. CASE i = req[r].item
    <3>1. /\ e \in HistoryEntries /\ e.from = "checked_out" /\ e.to = "available"
          /\ e.source = l
      BY <2>1 DEF HistoryEntry, HistoryEntries, Statuses
    <3>2. history'[i] = Append(history[i], e)
      BY <1>1, <2>1, <2>2, <2>5 DEF TypeOK
    <3>3. l \in LoansOf(i) /\ l \in OpenLoans(i) /\ \A c \in OpenLoans(i) : c = l
      BY <1>1, <2>1, <2>5 DEF LoansOf, OpenLoans, StatusAgrees, AtMostOneOpenLoan
    <3>4. OpenLoans(i)' = {}
      BY <2>1, <3>3 DEF LoansOf, OpenLoans
    <3>5. history[i] # <<>> /\ history[i][Len(history[i])].source = l
      BY <1>1, <3>3 DEF HistoryInv
    <3> HIDE DEF e, l
    <3>6. ChainInv(i)'
      BY <1>1, <2>1, <2>5, <3>1, <3>2, <3>5, ChainGrows
    <3>7. HistoryInv(i)'
      BY <1>1, <2>3, <3>1, <3>2, <3>3, <3>4, SourcesGrow
    <3> QED
      BY <3>6, <3>7
  <2> QED
    BY <2>4, <2>5
<1>6. CASE pc[r] = "commit" /\ r \in DeleteRequests /\ PublishDelete(r)
  <2>1. req[r].item \in Items /\ LoansOf(req[r].item) = {}
    BY <1>6 DEF WorkflowInv, RequestInv, DeleteInv
  <2>2. history' = history /\ LoansOf(i)' = LoansOf(i) /\ OpenLoans(i)' = OpenLoans(i)
    BY <1>6 DEF PublishDelete, LoansOf, OpenLoans
  <2>3. i # req[r].item => status'[i] = status[i]
    BY <1>1, <1>6 DEF PublishDelete, TypeOK
  <2>4. i = req[r].item => history[i] = <<>>
    <3>1. history[i] \in Seq(HistoryEntries) /\ (history[i] # <<>> => 1 \in 1..Len(history[i]))
      BY <1>1, EmptySeq, LenProperties DEF TypeOK
    <3> QED
      BY <1>1, <2>1, <3>1 DEF HistoryInv
  <2> QED
    BY <1>2, <2>2, <2>3, <2>4
<1>7. CASE pc[r] = "commit" /\ r \in ActivationRequests /\ PublishActivation(r)
  <2>1. LoansOf(i)' = LoansOf(i) /\ OpenLoans(i)' = OpenLoans(i)
    BY <1>7 DEF PublishActivation, LoansOf, OpenLoans
  <2> QED
    BY <1>2, <1>7, <2>1 DEF PublishActivation
<1> QED
  BY <1>3, <1>4, <1>5, <1>6, <1>7, OwnCommit DEF Publish

-------------------------------------------------------------------------------
(* The records are right in every reachable state. *)

LEMMA RecordInit == Init => RecordInv
<1> SUFFICES ASSUME Init PROVE RecordInv
  OBVIOUS
<1>1. \A r \in Requests : AuthorizedInv(r) /\ TruthInv(r)
  BY KindsDisjoint DEF Init, AuthorizedInv, TruthInv, Refusals, Requests
<1>2. LoansAuthorized /\ AuditTrail
  BY DEF Init, LoansAuthorized, AuditTrail
<1>3. HistoryChain /\ \A i \in Items : HistoryInv(i)
  BY EmptySeq DEF Init, HistoryChain, HistoryInv, OpenLoans, LoansOf
<1> QED
  BY <1>1, <1>2, <1>3 DEF RecordInv

LEMMA RecordStep == WorkflowInv /\ RecordInv /\ [Next]_vars => RecordInv'
<1> SUFFICES ASSUME WorkflowInv, RecordInv, [Next]_vars PROVE RecordInv'
  OBVIOUS
<1>1. /\ \A s \in Requests : AuthorizedInv(s) /\ TruthInv(s)
      /\ LoansAuthorized /\ AuditTrail /\ HistoryChain
      /\ \A i \in Items : HistoryInv(i)
      /\ TypeOK
  BY DEF RecordInv, WorkflowInv
<1>2. CASE UNCHANGED vars
  <2>1. \A s \in Requests : AuthorizedInv(s)' /\ TruthInv(s)'
    BY <1>1, <1>2 DEF vars, AuthorizedInv, TruthInv, MayReturn, AuthorizeCheckoutBorrower,
       CanManageCheckouts, CanUseSelfCheckout, Has, LoansOf
  <2>2. LoansAuthorized' /\ AuditTrail'
    BY <1>1, <1>2 DEF vars, LoansAuthorized, AuditTrail
  <2>3. HistoryChain' /\ \A i \in Items : HistoryInv(i)'
    BY <1>1, <1>2 DEF vars, HistoryChain, HistoryInv, OpenLoans, LoansOf
  <2> QED
    BY <2>1, <2>2, <2>3 DEF RecordInv
<1>3. ASSUME NEW r \in Requests, Step(r) PROVE RecordInv'
  <2>1. \A s \in Requests : AuthorizedInv(s)' /\ TruthInv(s)'
    <3>1. AuthorizedInv(r)' /\ TruthInv(r)'
      BY <1>1, <1>3, ActorTrue
    <3>2. ASSUME NEW s \in Requests \ {r} PROVE AuthorizedInv(s)' /\ TruthInv(s)'
      <4>1. pc'[s] = pc[s] /\ req'[s] = req[s] /\ answer'[s] = answer[s]
        BY <1>1, <1>3, OthersStand
      <4> QED
        BY <1>1, <1>3, <4>1, RowsKept, OthersTrue
    <3> QED
      BY <3>1, <3>2
  <2>2. LoansAuthorized'
    BY <1>1, <1>3, AuthorizedStep
  <2>3. AuditTrail'
    BY <1>1, <1>3, AuditStep
  <2>4. \A i \in Items : ChainInv(i)' /\ HistoryInv(i)'
    BY <1>1, <1>3, HistoryStep
  <2>5. HistoryChain'
    BY <2>4 DEF HistoryChain, ChainInv
  <2> QED
    BY <2>1, <2>2, <2>3, <2>4, <2>5 DEF RecordInv
<1> QED
  BY <1>2, <1>3 DEF Next, Terminated, Step

\* In every reachable state, of any instance, what the requests decided and
\* were told rests on rows nobody takes back.
THEOREM RecordInvariant == Spec => []RecordInv
<1>1. Init => RecordInv
  BY RecordInit
<1>2. WorkflowInv /\ RecordInv /\ [Next]_vars => RecordInv'
  BY RecordStep
<1> QED
  BY <1>1, <1>2, WorkflowInvariant, PTL DEF Spec

\* Every loan was made and ended by its borrower or by an administrator.
THEOREM LoansAlwaysAuthorized == Spec => []LoansAuthorized
<1>1. RecordInv => LoansAuthorized
  BY DEF RecordInv
<1> QED
  BY <1>1, RecordInvariant, PTL

\* The audit trail of a checkout tells who made and who ended it, and no more.
THEOREM AuditAlwaysComplete == Spec => []AuditTrail
<1>1. RecordInv => AuditTrail
  BY DEF RecordInv
<1> QED
  BY <1>1, RecordInvariant, PTL

\* The status history of an item is one unbroken chain up to its status.
THEOREM HistoryAlwaysChained == Spec => []HistoryChain
<1>1. RecordInv => HistoryChain
  BY DEF RecordInv
<1> QED
  BY <1>1, RecordInvariant, PTL

\* What a client was told is what happened.
THEOREM AnswersAlwaysTruthful == Spec => []AnswersTruthful
<1>1. RecordInv => AnswersTruthful
  BY DEF RecordInv, AnswersTruthful, TruthInv
<1> QED
  BY <1>1, RecordInvariant, PTL

-------------------------------------------------------------------------------
(* One return. *)

\* A return is granted only by the commit that ends its loan.
LEMMA GrantedByCommit ==
    ASSUME WorkflowInv, NEW r \in ReturnRequests, TruthInv(r), Step(r),
           answer'[r] = "returned", answer[r] # "returned"
    PROVE  pc[r] = "commit" /\ PublishReturn(r) /\ req' = req
<1> USE KindsDisjoint
<1>1. TypeOK /\ r \in Requests
  BY DEF WorkflowInv, Requests
<1>2. ASSUME NEW a, Finish(r, a) PROVE a = "returned"
  BY <1>1, <1>2 DEF Finish, TypeOK
<1>3. ASSUME NEW at, NEW outcome, NEW next, Statement(r, at, outcome, next),
             outcome # "returned"
      PROVE  FALSE
  BY <1>1, <1>2, <1>3 DEF Statement
<1>4. CASE Arrive(r)
  <2>1. ASSUME NEW input, NEW permitted, NEW first, Submit(r, input, permitted, first)
        PROVE  FALSE
    BY <1>1, <2>1 DEF Submit, TypeOK
  <2> QED
    BY <1>4, <2>1 DEF Arrive, ArriveCheckout, ArriveReturn, ArriveDelete, ArriveActivation
<1>5. CASE Proceed(r)
  <2>1. CASE GetCheckoutForUpdate(r)
    BY <1>3, <2>1 DEF GetCheckoutForUpdate, LoanOutcome
  <2>2. CASE GetLoanItemForStatusUpdate(r) \/ SetItemAvailable(r)
    BY <1>3, <2>2 DEF GetLoanItemForStatusUpdate, SetItemAvailable, LoanItemOutcome
  <2>3. CASE ReturnCheckout(r)
    BY <1>3, <2>3 DEF ReturnCheckout, SettleOutcome
  <2>4. CASE Commit(r)
    BY <2>4 DEF Commit, Publish
  <2>5. CASE DeadlockAbort(r)
    BY <1>2, <2>5 DEF DeadlockAbort
  <2> QED
    BY <1>5, <2>1, <2>2, <2>3, <2>4, <2>5
    DEF Proceed, GetCheckoutBorrowerForShare, GetItemForStatusUpdate, CreateCheckout,
        SetItemCheckedOut, DeleteItem, ProbeReferences, GetUserForUpdate, ReplaceIdentity
<1>6. CASE Fail(r)
  BY <1>2, <1>6 DEF Fail, Abort, CommitUnacknowledged
<1>7. CASE QueueUp(r)
  BY <1>7 DEF QueueUp
<1> QED
  BY <1>4, <1>5, <1>6, <1>7 DEF Step

\* So a second return of the same loan is never granted.
LEMMA GrantedOnce ==
    ASSUME WorkflowInv, RecordInv, NEW p \in ReturnRequests, NEW q \in ReturnRequests,
           p # q, Step(p), answer[p] # "returned", answer'[p] = "returned",
           answer'[q] = "returned", req'[p].loan = req'[q].loan
    PROVE  FALSE
<1>1. TypeOK /\ TruthInv(p) /\ TruthInv(q) /\ p \in Requests /\ q \in Requests
  BY DEF WorkflowInv, RecordInv, Requests
<1>2. answer[q] = "returned" /\ req'[q] = req[q]
  BY <1>1, OthersStand
<1>3. pc[p] = "commit" /\ PublishReturn(p) /\ req' = req
  BY <1>1, GrantedByCommit
<1>4. checkouts[req[p].loan].returnedTo = None
  BY <1>3, EndedRow
<1>5. checkouts[req[q].loan].returnedTo # None
  BY <1>1, <1>2 DEF TruthInv
<1> QED
  BY <1>3, <1>4, <1>5

LEMMA ReturnedStep ==
    WorkflowInv /\ RecordInv /\ ReturnedOnce /\ [Next]_vars => ReturnedOnce'
<1> SUFFICES ASSUME WorkflowInv, RecordInv, ReturnedOnce, [Next]_vars,
                    NEW p \in ReturnRequests, NEW q \in ReturnRequests,
                    answer'[p] = "returned", answer'[q] = "returned",
                    req'[p].loan = req'[q].loan, p # q
             PROVE  FALSE
  BY DEF ReturnedOnce
<1>1. TypeOK /\ p \in Requests /\ q \in Requests /\ TruthInv(p) /\ TruthInv(q)
  BY DEF WorkflowInv, RecordInv, Requests
<1>2. ~(answer[p] = "returned" /\ answer[q] = "returned" /\ req[p].loan = req[q].loan)
  BY DEF ReturnedOnce
<1>3. ASSUME UNCHANGED vars PROVE FALSE
  BY <1>2, <1>3 DEF vars
<1>4. ASSUME NEW r \in Requests, Step(r) PROVE FALSE
  <2>1. CASE r # p /\ r # q
    BY <1>1, <1>2, <1>4, <2>1, OthersStand
  <2>2. CASE QueueUp(r)
    BY <1>2, <2>2 DEF QueueUp
  <2>3. CASE r = p /\ ~QueueUp(r)
    <3>1. answer[p] # "returned"
      BY <1>1, <1>4, <2>3, AnsweredStops
    <3> QED
      BY <1>4, <2>3, <3>1, GrantedOnce
  <2>4. CASE r = q /\ ~QueueUp(r)
    <3>1. answer[q] # "returned"
      BY <1>1, <1>4, <2>4, AnsweredStops
    <3> QED
      BY <1>4, <2>4, <3>1, GrantedOnce
  <2> QED
    BY <2>1, <2>2, <2>3, <2>4
<1> QED
  BY <1>3, <1>4 DEF Next, Terminated, Step

\* One loan is taken back for one request only.
THEOREM ReturnedAtMostOnce == Spec => []ReturnedOnce
<1>1. Init => ReturnedOnce
  BY DEF Init, ReturnedOnce, Requests
<1>2. WorkflowInv /\ RecordInv /\ ReturnedOnce /\ [Next]_vars => ReturnedOnce'
  BY ReturnedStep
<1> QED
  BY <1>1, <1>2, WorkflowInvariant, RecordInvariant, PTL DEF Spec

-------------------------------------------------------------------------------
(* Who can wait for whom. *)

\* A step leaves the locks of the other requests alone, so what they hold at most.
LEMMA OthersHold ==
    ASSUME NEW r \in Requests, NEW s \in Requests \ {r}, HoldingInv(s),
           pc'[s] = pc[s], req'[s] = req[s],
           updateLocks'[s] = updateLocks[s], shareLocks'[s] = shareLocks[s]
    PROVE  HoldingInv(s)'
BY DEF HoldingInv, HoldsAtMost

\* Whoever is finished holds nothing.
LEMMA FinishedHolds ==
    ASSUME TypeOK, NEW r \in Requests, NEW a, Finish(r, a)
    PROVE  HoldingInv(r)'
<1>1. pc'[r] = "done" /\ updateLocks'[r] = {} /\ shareLocks'[r] = {}
  BY DEF TypeOK, Finish
<1> QED
  BY <1>1 DEF HoldingInv, HoldsAtMost

\* What a statement adds to what its request holds.
LEMMA StatementHolds ==
    ASSUME WorkflowInv, NEW r \in Requests, NEW at, NEW outcome, NEW next,
           Statement(r, at, outcome, next)
    PROVE  /\ pc[r] = at /\ Blockers(r) = {}
           /\ \A s \in Requests \ {r} :
                 pc'[s] = pc[s] /\ updateLocks'[s] = updateLocks[s] /\ shareLocks'[s] = shareLocks[s]
           /\ \/ HoldingInv(r)'
              \/ /\ outcome = "ok" /\ pc'[r] = next
                 /\ updateLocks'[r] = updateLocks[r] \cup WantsUpdate(r)
                 /\ shareLocks'[r] = shareLocks[r] \cup WantsShare(r)
<1>1. pc[r] = at /\ Blockers(r) = {} /\ TypeOK
  BY DEF Statement, WorkflowInv
<1>2. CASE outcome = "ok"
  BY <1>1, <1>2 DEF Statement, Acquire, TypeOK
<1>3. CASE outcome # "ok"
  BY <1>1, <1>3, FinishedHolds DEF Statement, Finish, TypeOK
<1> QED
  BY <1>1, <1>2, <1>3

LEMMA CheckoutHolds ==
    ASSUME WorkflowInv, NEW r \in CheckoutRequests, HoldingInv(r),
           \/ GetCheckoutBorrowerForShare(r) \/ GetItemForStatusUpdate(r)
           \/ CreateCheckout(r) \/ SetItemCheckedOut(r)
    PROVE  HoldingInv(r)'
<1>1. r \in Requests /\ req' = req /\ r \notin ReturnRequests \cup DeleteRequests \cup ActivationRequests
  BY KindsDisjoint DEF Requests, GetCheckoutBorrowerForShare, GetItemForStatusUpdate, CreateCheckout, SetItemCheckedOut
<1>2. req[r] \in Input \/ pc[r] = "new"
  BY <1>1 DEF WorkflowInv, RequestInv
<1>3. CheckoutInv(r)
  BY <1>1 DEF WorkflowInv, RequestInv
<1>4. CASE GetCheckoutBorrowerForShare(r)
  BY <1>1, <1>4, StatementHolds DEF GetCheckoutBorrowerForShare, HoldingInv, HoldsAtMost, WantsUpdate, WantsShare
<1>5. CASE GetItemForStatusUpdate(r)
  BY <1>1, <1>5, StatementHolds DEF GetItemForStatusUpdate, HoldingInv, HoldsAtMost, WantsUpdate, WantsShare
<1>6. CASE CreateCheckout(r)
  <2>1. req[r].user \in Users /\ req[r].actor \in Users
    BY <1>2, <1>3, <1>6 DEF CreateCheckout, Statement, CheckoutInv, Input
  <2> QED
    BY <1>1, <1>6, <2>1, StatementHolds DEF CreateCheckout, HoldingInv, HoldsAtMost, WantsUpdate, WantsShare
<1>7. CASE SetItemCheckedOut(r)
  BY <1>1, <1>7, StatementHolds DEF SetItemCheckedOut, HoldingInv, HoldsAtMost, WantsUpdate, WantsShare
<1> QED
  BY <1>4, <1>5, <1>6, <1>7

LEMMA ReturnHolds ==
    ASSUME WorkflowInv, NEW r \in ReturnRequests, HoldingInv(r),
           \/ GetCheckoutForUpdate(r) \/ GetLoanItemForStatusUpdate(r)
           \/ ReturnCheckout(r) \/ SetItemAvailable(r)
    PROVE  HoldingInv(r)'
<1>1. r \in Requests /\ r \notin CheckoutRequests \cup DeleteRequests \cup ActivationRequests
  BY KindsDisjoint DEF Requests
<1>2. pc[r] # "new" /\ req[r] \in Input
  BY <1>1 DEF WorkflowInv, RequestInv, GetCheckoutForUpdate, GetLoanItemForStatusUpdate, ReturnCheckout, SetItemAvailable, Statement
<1>3. CASE GetCheckoutForUpdate(r)
  <2>1. req'[r].loan = req[r].loan
    BY <1>1, <1>2, <1>3 DEF GetCheckoutForUpdate, WorkflowInv, TypeOK, Input
  <2> QED
    BY <1>1, <1>3, <2>1, StatementHolds DEF GetCheckoutForUpdate, HoldingInv, HoldsAtMost, WantsUpdate, WantsShare
<1>4. CASE GetLoanItemForStatusUpdate(r)
  BY <1>1, <1>4, StatementHolds DEF GetLoanItemForStatusUpdate, HoldingInv, HoldsAtMost, WantsUpdate, WantsShare
<1>5. CASE ReturnCheckout(r)
  <2>1. req[r].actor \in Users
    BY <1>2 DEF Input
  <2> QED
    BY <1>1, <1>5, <2>1, StatementHolds DEF ReturnCheckout, HoldingInv, HoldsAtMost, WantsUpdate, WantsShare
<1>6. CASE SetItemAvailable(r)
  BY <1>1, <1>6, StatementHolds DEF SetItemAvailable, HoldingInv, HoldsAtMost, WantsUpdate, WantsShare
<1> QED
  BY <1>3, <1>4, <1>5, <1>6

LEMMA OtherHolds ==
    ASSUME WorkflowInv, NEW r \in DeleteRequests \cup ActivationRequests, HoldingInv(r),
           DeleteItem(r) \/ ProbeReferences(r) \/ GetUserForUpdate(r) \/ ReplaceIdentity(r)
    PROVE  HoldingInv(r)'
<1>1. r \in Requests /\ r \notin CheckoutRequests \cup ReturnRequests
      /\ ~(r \in DeleteRequests /\ r \in ActivationRequests)
  BY KindsDisjoint DEF Requests
<1>2. pc[r] # "new" /\ req[r] \in Input
  BY <1>1 DEF WorkflowInv, RequestInv, DeleteItem, ProbeReferences, GetUserForUpdate,
     ReplaceIdentity, Statement
<1>3. CASE DeleteItem(r)
  <2>1. req'[r].item = req[r].item /\ r \in DeleteRequests /\ pc[r] = "remove"
    BY <1>1, <1>2, <1>3 DEF DeleteItem, WorkflowInv, TypeOK, Input
  <2>2. \E outcome : \E next \in {"commit", "references"} : Statement(r, "remove", outcome, next)
    BY <1>3 DEF DeleteItem
  <2> QED
    BY <1>1, <2>1, <2>2, StatementHolds DEF HoldingInv, HoldsAtMost, WantsUpdate, WantsShare
<1>4. CASE ProbeReferences(r)
  BY <1>1, <1>4, StatementHolds DEF ProbeReferences
<1>5. CASE GetUserForUpdate(r)
  BY <1>1, <1>5, StatementHolds DEF GetUserForUpdate, HoldingInv, HoldsAtMost, WantsUpdate, WantsShare
<1>6. CASE ReplaceIdentity(r)
  <2>1. r \in ActivationRequests /\ req' = req
    BY <1>6 DEF ReplaceIdentity
  <2>2. \E outcome : Statement(r, "identity", outcome, "commit")
    BY <1>6 DEF ReplaceIdentity
  <2> QED
    BY <1>1, <2>1, <2>2, StatementHolds DEF HoldingInv, HoldsAtMost, WantsUpdate, WantsShare
<1> QED
  BY <1>3, <1>4, <1>5, <1>6

\* A request's step takes and releases its own locks only.
LEMMA OthersKeepLocks ==
    ASSUME TypeOK, NEW r \in Requests, Step(r), NEW s \in Requests \ {r}
    PROVE  updateLocks'[s] = updateLocks[s] /\ shareLocks'[s] = shareLocks[s]
<1>1. CASE Arrive(r)
  BY <1>1 DEF Arrive, ArriveCheckout, ArriveReturn, ArriveDelete, ArriveActivation, Submit
<1>2. CASE Proceed(r)
  BY <1>2 DEF TypeOK, Proceed, GetCheckoutBorrowerForShare, GetItemForStatusUpdate,
     CreateCheckout, SetItemCheckedOut, GetCheckoutForUpdate, GetLoanItemForStatusUpdate,
     ReturnCheckout, SetItemAvailable, DeleteItem, ProbeReferences, GetUserForUpdate,
     ReplaceIdentity, Commit, DeadlockAbort, Statement, Acquire, Finish
<1>3. CASE Fail(r)
  BY <1>3 DEF TypeOK, Fail, Abort, CommitUnacknowledged, Finish
<1>4. CASE QueueUp(r)
  BY <1>4 DEF QueueUp
<1> QED
  BY <1>1, <1>2, <1>3, <1>4 DEF Step

LEMMA ArrivedHolds ==
    ASSUME WorkflowInv, NEW r \in Requests, HoldingInv(r), Arrive(r)
    PROVE  HoldingInv(r)'
<1>1. /\ pc[r] = "new" /\ TypeOK
      /\ pc'[r] \in {"borrower", "loan", "remove", "user", "done"}
      /\ UNCHANGED <<updateLocks, shareLocks>>
  BY DEF WorkflowInv, TypeOK, Arrive, ArriveCheckout, ArriveReturn, ArriveDelete,
     ArriveActivation, Submit
<1> QED
  BY <1>1 DEF HoldingInv, HoldsAtMost

LEMMA HoldingStep ==
    WorkflowInv /\ (\A r \in Requests : HoldingInv(r)) /\ [Next]_vars
        => \A r \in Requests : HoldingInv(r)'
<1> SUFFICES ASSUME WorkflowInv, \A r \in Requests : HoldingInv(r), [Next]_vars,
                    NEW s \in Requests
             PROVE  HoldingInv(s)'
  OBVIOUS
<1>1. TypeOK
  BY DEF WorkflowInv
<1>2. CASE UNCHANGED vars
  BY <1>2 DEF vars, HoldingInv, HoldsAtMost
<1>3. ASSUME NEW r \in Requests, Step(r) PROVE HoldingInv(s)'
  <2>1. CASE s # r
    BY <1>1, <1>3, <2>1, OthersStand, OthersKeepLocks, OthersHold
  <2>2. CASE s = r
    <3>1. CASE Arrive(r)
      BY <2>2, <3>1, ArrivedHolds
    <3>2. CASE \/ GetCheckoutBorrowerForShare(r) \/ GetItemForStatusUpdate(r)
               \/ CreateCheckout(r) \/ SetItemCheckedOut(r)
      <4>1. r \in CheckoutRequests
        BY <3>2 DEF GetCheckoutBorrowerForShare, GetItemForStatusUpdate, CreateCheckout,
           SetItemCheckedOut
      <4> QED
        BY <2>2, <3>2, <4>1, CheckoutHolds
    <3>3. CASE \/ GetCheckoutForUpdate(r) \/ GetLoanItemForStatusUpdate(r)
               \/ ReturnCheckout(r) \/ SetItemAvailable(r)
      <4>1. r \in ReturnRequests
        BY <3>3 DEF GetCheckoutForUpdate, GetLoanItemForStatusUpdate, ReturnCheckout,
           SetItemAvailable
      <4> QED
        BY <2>2, <3>3, <4>1, ReturnHolds
    <3>4. CASE \/ DeleteItem(r) \/ ProbeReferences(r)
               \/ GetUserForUpdate(r) \/ ReplaceIdentity(r)
      <4>1. r \in DeleteRequests \cup ActivationRequests
        BY <1>3, <3>4 DEF DeleteItem, ProbeReferences, GetUserForUpdate, ReplaceIdentity
      <4> QED
        BY <2>2, <3>4, <4>1, OtherHolds
    <3>5. CASE Commit(r) \/ DeadlockAbort(r) \/ Fail(r)
      <4>1. \E a : Finish(r, a)
        BY <3>5 DEF Commit, DeadlockAbort, Fail, Abort, CommitUnacknowledged
      <4> QED
        BY <1>1, <2>2, <4>1, FinishedHolds
    <3>6. CASE QueueUp(r)
      BY <2>2, <3>6 DEF QueueUp, HoldingInv, HoldsAtMost
    <3> QED
      BY <1>3, <3>1, <3>2, <3>3, <3>4, <3>5, <3>6 DEF Step, Proceed
  <2> QED
    BY <2>1, <2>2
<1> QED
  BY <1>2, <1>3 DEF Next, Terminated, Step

\* In every reachable state a request that waits holds no more than the rows
\* its earlier statements took.
THEOREM HoldingInvariant == Spec => [](\A r \in Requests : HoldingInv(r))
<1> DEFINE Holding == \A r \in Requests : HoldingInv(r)
<1>1. Init => Holding
  BY DEF Init, HoldingInv, HoldsAtMost
<1>2. WorkflowInv /\ Holding /\ [Next]_vars => Holding'
  BY HoldingStep
<1> HIDE DEF Holding
<1>3. Spec => []Holding
  BY <1>1, <1>2, WorkflowInvariant, PTL DEF Spec
<1> QED
  BY <1>3 DEF Holding

-------------------------------------------------------------------------------
(* Who holds a row, table by table. *)

\* Which kind of request is at which statement.
LEMMA KindOfStep ==
    ASSUME WorkflowInv, NEW r \in Requests
    PROVE  /\ pc[r] \in {"borrower", "item", "insert", "status"} => r \in CheckoutRequests
           /\ pc[r] \in {"loan", "loan_item", "settle", "restore"} => r \in ReturnRequests
           /\ pc[r] \in {"remove", "references"} => r \in DeleteRequests
           /\ pc[r] \in {"user", "identity"} => r \in ActivationRequests
           /\ pc[r] \in Steps /\ (pc[r] # "new" => req[r] \in Input)
<1>1. RequestInv(r) /\ TypeOK
  BY DEF WorkflowInv
<1>2. pc[r] \in Steps /\ (pc[r] # "new" => req[r] \in Input)
  BY <1>1 DEF TypeOK, RequestInv
<1>3. CASE r \in CheckoutRequests
  BY <1>1, <1>2, <1>3 DEF RequestInv, CheckoutInv
<1>4. CASE r \in ReturnRequests
  BY <1>1, <1>2, <1>4 DEF RequestInv, ReturnInv
<1>5. CASE r \in DeleteRequests
  BY <1>1, <1>2, <1>5 DEF RequestInv, DeleteInv
<1>6. CASE r \in ActivationRequests
  BY <1>1, <1>2, <1>6 DEF RequestInv, ActivationInv
<1> QED
  BY <1>3, <1>4, <1>5, <1>6 DEF Requests

\* Only what it takes at its steps, in one list for every kind of request.
LEMMA HeldRows ==
    ASSUME WorkflowInv, NEW s \in Requests, HoldingInv(s), NEW x,
           x \in updateLocks[s] \cup shareLocks[s]
    PROVE  \/ /\ s \in CheckoutRequests /\ pc[s] \in {"item", "insert", "status", "commit"}
              /\ x \in Users /\ x \notin updateLocks[s]
           \/ /\ s \in CheckoutRequests /\ pc[s] \in {"insert", "status", "commit"}
              /\ x \in {req[s].item, ActiveKey(req[s].item)}
              /\ req[s].item \in Items /\ req[s].item \in updateLocks[s]
           \/ /\ s \in ReturnRequests
              /\ pc[s] \in {"loan_item", "settle", "restore", "commit"}
              /\ x = req[s].loan /\ x \in CheckoutRequests
           \/ /\ s \in ReturnRequests /\ pc[s] \in {"settle", "restore", "commit"}
              /\ \/ x \in {req[s].item, ActiveKey(req[s].item)}
                 \/ x \in Users /\ x \notin updateLocks[s]
              /\ req[s].item \in Items /\ req[s].item \in updateLocks[s]
           \/ /\ s \in DeleteRequests /\ pc[s] \in {"references", "commit"}
              /\ x = req[s].item /\ x \in Items /\ x \in updateLocks[s]
           \/ /\ s \in ActivationRequests /\ pc[s] \in {"identity", "commit"}
              /\ x = req[s].user /\ x \in Users
<1>1. RequestInv(s)
  BY DEF WorkflowInv
<1>2. CASE s \in CheckoutRequests
  BY <1>1, <1>2, KindsDisjoint, RowsApart DEF RequestInv, CheckoutInv, HoldingInv, HoldsAtMost
<1>3. CASE s \in ReturnRequests
  BY <1>1, <1>3, KindsDisjoint, RowsApart DEF RequestInv, ReturnInv, HoldingInv, HoldsAtMost
<1>4. CASE s \in DeleteRequests
  BY <1>1, <1>4, KindsDisjoint DEF RequestInv, DeleteInv, HoldingInv, HoldsAtMost
<1>5. CASE s \in ActivationRequests
  BY <1>1, <1>5, KindsDisjoint DEF RequestInv, ActivationInv, HoldingInv, HoldsAtMost
<1> QED
  BY <1>2, <1>3, <1>4, <1>5 DEF Requests

\* An account row is held FOR UPDATE by an activation that only has to commit.
LEMMA UserHolder ==
    ASSUME WorkflowInv, NEW s \in Requests, HoldingInv(s), NEW u \in Users,
           u \in updateLocks[s]
    PROVE  s \in ActivationRequests /\ pc[s] \in {"identity", "commit"} /\ req[s].user = u
BY HeldRows, RowsApart

\* Whoever holds the index entry of an item's open loan holds the item.
LEMMA KeyHolder ==
    ASSUME WorkflowInv, NEW s \in Requests, HoldingInv(s), NEW i \in Items,
           ActiveKey(i) \in updateLocks[s] \cup shareLocks[s]
    PROVE  i \in updateLocks[s]
<1>1. \A j : ActiveKey(j) = ActiveKey(i) => j = i
  BY DEF ActiveKey
<1>2. ActiveKey(i) \notin Users \cup Items \cup CheckoutRequests
  BY RowsApart
<1> HIDE DEF ActiveKey
<1> QED
  BY <1>1, <1>2, HeldRows

LEMMA ItemHolder ==
    ASSUME WorkflowInv, NEW s \in Requests, HoldingInv(s), NEW i \in Items,
           i \in updateLocks[s] \cup shareLocks[s]
    PROVE  \/ s \in CheckoutRequests \cup ReturnRequests
              /\ pc[s] \in {"insert", "status", "settle", "restore", "commit"}
           \/ s \in DeleteRequests /\ pc[s] \in {"references", "commit"}
<1>1. \A j \in Items : i # ActiveKey(j)
  BY RowsApart
<1>2. i \notin Users /\ i \notin CheckoutRequests
  BY RowsApart
<1> QED
  BY <1>1, <1>2, HeldRows

LEMMA LoanHolder ==
    ASSUME WorkflowInv, NEW s \in Requests, HoldingInv(s), NEW c \in CheckoutRequests,
           c \in updateLocks[s] \cup shareLocks[s]
    PROVE  /\ s \in ReturnRequests /\ req[s].loan = c
           /\ pc[s] \in {"loan_item", "settle", "restore", "commit"}
<1>1. \A j \in Items : c # ActiveKey(j)
  BY RowsApart
<1>2. c \notin Users /\ c \notin Items
  BY RowsApart
<1> QED
  BY <1>1, <1>2, HeldRows

-------------------------------------------------------------------------------
(* Places in line. *)

\* A request that waits wants a row, so it is in progress.
LEMMA WantsInProgress ==
    ASSUME NEW r \in Requests, Wants(r) # {}
    PROVE  pc[r] \notin {"new", "identity", "commit", "done"}
BY DEF Wants, WantsUpdate, WantsShare

LEMMA SameWants ==
    ASSUME NEW r \in Requests, pc'[r] = pc[r], req'[r] = req[r]
    PROVE  WantsUpdate(r)' = WantsUpdate(r) /\ WantsShare(r)' = WantsShare(r) /\ Wants(r)' = Wants(r)
<1>1. WantsUpdate(r)' = WantsUpdate(r)
  BY DEF WantsUpdate
<1>2. WantsShare(r)' = WantsShare(r)
  BY DEF WantsShare
<1> QED
  BY <1>1, <1>2 DEF Wants

\* An account change wants one account row, FOR UPDATE, and nobody else does.
LEMMA UserWanted ==
    ASSUME WorkflowInv, NEW r \in Requests, NEW x
    PROVE  /\ r \in ActivationRequests /\ x \in Wants(r) =>
                 pc[r] = "user" /\ x = req[r].user /\ x \in Users
           /\ x \in Users /\ x \in WantsUpdate(r) => r \in ActivationRequests
<1>1. RequestInv(r) /\ TypeOK
  BY DEF WorkflowInv
<1>2. CASE r \in ActivationRequests
  BY <1>1, <1>2, KindsDisjoint
  DEF RequestInv, ActivationInv, Wants, WantsUpdate, WantsShare
<1>3. CASE r \notin ActivationRequests
  <2>1. ASSUME x \in Users, x \in WantsUpdate(r) PROVE FALSE
    <3>1. x \notin Items /\ x \notin CheckoutRequests /\ \A i \in Items : x # ActiveKey(i)
      BY <2>1, RowsApart
    <3>2. CASE r \in CheckoutRequests
      BY <1>1, <2>1, <3>1, <3>2 DEF RequestInv, CheckoutInv, WantsUpdate
    <3>3. CASE r \in ReturnRequests
      BY <1>1, <2>1, <3>1, <3>3 DEF RequestInv, ReturnInv, WantsUpdate
    <3>4. CASE r \in DeleteRequests
      BY <1>1, <2>1, <3>1, <3>4 DEF RequestInv, DeleteInv, WantsUpdate
    <3> QED
      BY <1>3, <3>2, <3>3, <3>4 DEF Requests
  <2> QED
    BY <1>3, <2>1
<1> QED
  BY <1>2, <1>3

\* An item not yet locked is wanted by the statements that wait for an item.
LEMMA ItemWanted ==
    ASSUME WorkflowInv, NEW r \in Requests, NEW i \in Items, i \in Wants(r) \ updateLocks[r]
    PROVE  pc[r] \in {"item", "loan_item", "remove"} /\ req[r].item = i
<1>1. i \notin Users /\ i \notin CheckoutRequests /\ \A j \in Items : i # ActiveKey(j)
  BY RowsApart
<1>2. RequestInv(r) /\ pc[r] # "new" /\ req[r] \in Input
  BY WantsInProgress, KindOfStep DEF WorkflowInv
<1> HIDE DEF ActiveKey
<1>3. CASE r \in CheckoutRequests
  BY <1>1, <1>2, <1>3 DEF RequestInv, CheckoutInv, Wants, WantsUpdate, WantsShare, Input
<1>4. CASE r \in ReturnRequests
  BY <1>1, <1>2, <1>4 DEF RequestInv, ReturnInv, Wants, WantsUpdate, WantsShare, Input
<1>5. CASE r \in DeleteRequests
  BY <1>1, <1>2, <1>5 DEF RequestInv, DeleteInv, Wants, WantsUpdate, WantsShare
<1>6. CASE r \in ActivationRequests
  BY <1>1, <1>6, UserWanted
<1> QED
  BY <1>3, <1>4, <1>5, <1>6 DEF Requests

\* A loan is wanted by the returns of it and by the deletion that finds it.
LEMMA LoanWanted ==
    ASSUME WorkflowInv, NEW r \in Requests, NEW c \in CheckoutRequests, c \in Wants(r)
    PROVE  /\ pc[r] \in {"loan", "references"} /\ req[r].loan = c
           /\ c \in WantsUpdate(r) => pc[r] = "loan"
<1>1. c \notin Users /\ c \notin Items /\ \A j \in Items : c # ActiveKey(j)
  BY RowsApart
<1>2. RequestInv(r) /\ pc[r] # "new" /\ req[r] \in Input
  BY WantsInProgress, KindOfStep DEF WorkflowInv
<1> HIDE DEF ActiveKey
<1>3. CASE r \in CheckoutRequests
  BY <1>1, <1>2, <1>3 DEF RequestInv, CheckoutInv, Wants, WantsUpdate, WantsShare, Input
<1>4. CASE r \in ReturnRequests
  BY <1>1, <1>2, <1>4 DEF RequestInv, ReturnInv, Wants, WantsUpdate, WantsShare, Input
<1>5. CASE r \in DeleteRequests
  BY <1>1, <1>2, <1>5 DEF RequestInv, DeleteInv, Wants, WantsUpdate, WantsShare
<1>6. CASE r \in ActivationRequests
  BY <1>1, <1>6, UserWanted
<1> QED
  BY <1>3, <1>4, <1>5, <1>6 DEF Requests

\* The account of a change that was let go on is locked by it.
LEMMA ActivationHolds ==
    ASSUME WorkflowInv, NEW a \in ActivationRequests, pc[a] \in {"identity", "commit"}
    PROVE  a \in Requests /\ req[a].user \in Users /\ req[a].user \in updateLocks[a]
BY DEF WorkflowInv, RequestInv, ActivationInv, Requests

\* A step that takes some requests out of their lines leaves the others' places
\* in order, if it accounts for the account it unlocks: either nobody is left in
\* line for it, or the change was undone.
LEMMA LinesKept ==
    ASSUME WorkflowInv, \A q \in Requests : TruthInv(q) /\ LineInv(q),
           NEW p \in Requests, pc[p] # "done", NEW gone \in SUBSET Requests, p \in gone,
           Leave(gone),
           \A q \in Requests \ {p} :
              /\ pc'[q] = pc[q] /\ req'[q] = req[q] /\ answer'[q] = answer[q]
              /\ updateLocks'[q] = updateLocks[q],
           p \in ActivationRequests /\ pc[p] \in {"identity", "commit"} =>
              \/ \A q \in Requests : tupleLock[q] = req[p].user => q \in gone
              \/ /\ req'[p].user = req[p].user
                 /\ \/ pc'[p] \in {"identity", "commit"}
                    \/ answer'[p] \in {"not_synchronized", "internal_error"},
           NEW r \in Requests
    PROVE  LineInv(r)'
<1>1. CASE r \in gone
  BY <1>1 DEF Leave, LineInv
<1>2. CASE r \notin gone
  <2>1. /\ r # p /\ tupleLock'[r] = tupleLock[r] /\ behind'[r] = behind[r] \ gone
        /\ updateLocks'[r] = updateLocks[r] /\ WantsUpdate(r)' = WantsUpdate(r)
        /\ Wants(r)' = Wants(r)
    BY <1>2, SameWants DEF Leave
  <2>2. ASSUME NEW s \in behind[r] \ gone
        PROVE  /\ s \in Requests /\ tupleLock'[s] = tupleLock[s]
               /\ WantsUpdate(s)' = WantsUpdate(s)
    BY <2>2, SameWants DEF Leave, WorkflowInv, TypeOK, LinesOK
  <2>3. ASSUME NEW s \in behind[r] \ gone,
               r \notin ActivationRequests, s \in ActivationRequests
        PROVE  \/ Undone(tupleLock[s])'
               \/ \E a \in ActivationRequests :
                     pc'[a] \in {"identity", "commit"} /\ req'[a].user = tupleLock'[s]
    <3>1. s \in Requests /\ tupleLock'[s] = tupleLock[s]
      BY <2>2, <2>3
    <3>2. CASE Undone(tupleLock[s])
      <4>1. PICK a \in ActivationRequests :
              answer[a] \in {"not_synchronized", "internal_error"} /\ req[a].user = tupleLock[s]
        BY <3>2 DEF Undone
      <4>2. a # p
        BY <4>1 DEF TruthInv
      <4> QED
        BY <3>1, <4>1, <4>2 DEF Undone, Requests
    <3>3. CASE \E a \in ActivationRequests :
                  pc[a] \in {"identity", "commit"} /\ req[a].user = tupleLock[s]
      <4>1. PICK a \in ActivationRequests :
              pc[a] \in {"identity", "commit"} /\ req[a].user = tupleLock[s]
        BY <3>3
      <4>2. CASE a # p
        BY <3>1, <4>1, <4>2 DEF Requests
      <4>3. CASE a = p
        <5>1. ~(\A q \in Requests : tupleLock[q] = req[p].user => q \in gone)
          BY <2>3, <3>1, <4>1, <4>3
        <5>2. /\ req'[p].user = req[p].user
              /\ \/ pc'[p] \in {"identity", "commit"}
                 \/ answer'[p] \in {"not_synchronized", "internal_error"}
          BY <4>1, <4>3, <5>1
        <5> QED
          BY <3>1, <4>1, <4>3, <5>2 DEF Undone
      <4> QED
        BY <4>2, <4>3
    <3> QED
      BY <2>3, <3>2, <3>3 DEF LineInv
  <2> QED
    <3> DEFINE Accounted(s) ==
          \/ Undone(tupleLock[s])
          \/ \E a \in ActivationRequests :
                pc[a] \in {"identity", "commit"} /\ req[a].user = tupleLock[s]
    <3>1. \A s \in behind[r] \ gone :
            r \notin ActivationRequests /\ s \in ActivationRequests => Accounted(s)'
      BY <2>3
    <3> HIDE DEF Accounted
    <3>2. LineInv(r)
      OBVIOUS
    <3> QED
      BY <2>1, <2>2, <3>1, <3>2 DEF LineInv, Accounted
<1> QED
  BY <1>1, <1>2

\* A statement that takes its place asks for a row that is locked; an account row
\* that it only shares is locked by a change in progress.
LEMMA LinesGrow ==
    ASSUME WorkflowInv, \A q \in Requests : HoldingInv(q) /\ LineInv(q),
           NEW p \in Requests, QueueUp(p), NEW r \in Requests
    PROVE  LineInv(r)'
<1>1. UNCHANGED <<pc, req, answer, updateLocks>>
  BY DEF QueueUp
<1>2. /\ tupleLock[p] = None /\ behind[p] = {}
      /\ tupleLock \in [Requests -> TableRows \cup {None}] /\ behind \in [Requests -> SUBSET Requests]
  BY DEF QueueUp, WorkflowInv, TypeOK, LinesOK
<1>3. PICK h \in Holders(p), row \in TableRows :
        /\ row \in ContestedRows(p, h)
        /\ \/ tupleLock' = [tupleLock EXCEPT ![p] = row] /\ UNCHANGED behind
           \/ behind' = [behind EXCEPT ![p] = Ahead(p, row)] /\ UNCHANGED tupleLock
  BY DEF QueueUp
<1>4. \A q \in Requests : WantsUpdate(q)' = WantsUpdate(q) /\ Wants(q)' = Wants(q)
  BY <1>1, SameWants
<1>5. row \in Wants(p) \ updateLocks[p] /\ row # None
  <2>1. h \in Requests \ {p}
    BY DEF Holders
  <2> QED
    BY <1>3, <2>1, NoneIsNoRow DEF ContestedRows, WorkflowInv, LockInv, Wants, TableRows
<1>6. CASE r # p
  <2>1. behind'[r] = behind[r] /\ tupleLock'[r] = tupleLock[r]
    BY <1>2, <1>3, <1>6
  <2>2. \A s \in behind[r] : s \in Requests /\ tupleLock'[s] = tupleLock[s]
    BY <1>2, <1>3 DEF LineInv
  <2> QED
    BY <1>1, <1>4, <2>1, <2>2 DEF LineInv, Undone
<1>7. CASE r = p /\ tupleLock' = [tupleLock EXCEPT ![p] = row] /\ UNCHANGED behind
  BY <1>1, <1>2, <1>4, <1>5, <1>7 DEF LineInv
<1>8. CASE r = p /\ behind' = [behind EXCEPT ![p] = Ahead(p, row)] /\ UNCHANGED tupleLock
  <2>1. behind'[p] = Ahead(p, row)
    BY <1>2, <1>8
  <2>2. ASSUME NEW s \in Ahead(p, row)
        PROVE  /\ s \in Requests /\ s # p /\ tupleLock[s] = row
               /\ row \in WantsUpdate(p) \cup WantsUpdate(s)
    BY <2>2 DEF Ahead
  <2>3. ASSUME p \notin ActivationRequests, NEW s \in Ahead(p, row), s \in ActivationRequests
        PROVE  \E a \in ActivationRequests :
                  pc[a] \in {"identity", "commit"} /\ req[a].user = tupleLock[s]
    <3>1. s \in Requests /\ tupleLock[s] = row
      BY <2>2, <2>3
    <3>2. row \in Users
      BY <1>5, <2>3, <3>1, UserWanted DEF LineInv
    <3>3. row \in updateLocks[h] /\ h \in Requests
      BY <1>3, <2>3, <3>2, UserWanted DEF ContestedRows, Holders
    <3> QED
      BY <3>1, <3>2, <3>3, UserHolder
  <2>4. ASSUME NEW s \in Ahead(p, row)
        PROVE  /\ s # p /\ tupleLock[p] = None /\ tupleLock[s] # None
               /\ tupleLock[s] \in Wants(p) \ updateLocks[p]
               /\ tupleLock[s] \in WantsUpdate(p) \cup WantsUpdate(s)
    BY <1>2, <1>5, <2>2, <2>4
  <2>5. Ahead(p, row) \subseteq Requests
    BY DEF Ahead
  <2> QED
    BY <1>1, <1>2, <1>4, <1>8, <2>1, <2>3, <2>4, <2>5 DEF LineInv, Undone
<1> QED
  BY <1>3, <1>6, <1>7, <1>8

\* A statement that goes on or fails takes its request out of its line.
LEMMA StatementLeaves ==
    ASSUME TypeOK, NEW p \in Requests, NEW at, NEW outcome, NEW next,
           Statement(p, at, outcome, next)
    PROVE  /\ pc[p] = at /\ Leave({p})
           /\ outcome = "ok" => pc'[p] = next
           /\ outcome # "ok" => answer'[p] = outcome
BY DEF TypeOK, Statement, Finish

\* What a step that is not an arrival does to the lines.
Leaves(p) ==
    \E gone \in SUBSET Requests :
        /\ p \in gone /\ Leave(gone)
        /\ p \in ActivationRequests /\ pc[p] \in {"identity", "commit"} =>
              \/ \A q \in Requests : tupleLock[q] = req[p].user => q \in gone
              \/ /\ req'[p].user = req[p].user
                 /\ \/ pc'[p] \in {"identity", "commit"}
                    \/ answer'[p] \in {"not_synchronized", "internal_error"}

LEMMA StepLeaves ==
    ASSUME WorkflowInv, NEW p \in Requests, Proceed(p) \/ Fail(p)
    PROVE  pc[p] # "done" /\ Leaves(p)
<1>1. TypeOK
  BY DEF WorkflowInv
<1>2. CASE \/ GetCheckoutBorrowerForShare(p) \/ GetItemForStatusUpdate(p)
           \/ CreateCheckout(p) \/ SetItemCheckedOut(p)
  <2>1. p \notin ActivationRequests /\ pc[p] # "done" /\ Leave({p})
    BY <1>2, KindsDisjoint DEF GetCheckoutBorrowerForShare, GetItemForStatusUpdate,
       CreateCheckout, SetItemCheckedOut, Statement
  <2> QED
    BY <2>1 DEF Leaves
<1>3. CASE \/ GetCheckoutForUpdate(p) \/ GetLoanItemForStatusUpdate(p)
           \/ ReturnCheckout(p) \/ SetItemAvailable(p)
  <2>1. p \notin ActivationRequests /\ pc[p] # "done" /\ Leave({p})
    BY <1>3, KindsDisjoint DEF GetCheckoutForUpdate, GetLoanItemForStatusUpdate,
       ReturnCheckout, SetItemAvailable, Statement
  <2> QED
    BY <2>1 DEF Leaves
<1>4. CASE DeleteItem(p) \/ ProbeReferences(p) \/ GetUserForUpdate(p)
  <2>1. /\ p \in ActivationRequests => pc[p] = "user"
        /\ pc[p] # "done" /\ Leave({p})
    BY <1>4, KindsDisjoint DEF DeleteItem, ProbeReferences, GetUserForUpdate, Statement
  <2> QED
    BY <2>1 DEF Leaves
<1>5. CASE ReplaceIdentity(p)
  <2>1. PICK outcome \in {"ok", "not_synchronized"} : Statement(p, "identity", outcome, "commit")
    BY <1>5 DEF ReplaceIdentity
  <2>2. req' = req
    BY <1>5 DEF ReplaceIdentity
  <2>3. /\ pc[p] = "identity" /\ Leave({p})
        /\ pc'[p] = "commit" \/ answer'[p] = "not_synchronized"
    BY <1>1, <2>1, StatementLeaves
  <2> QED
    BY <2>2, <2>3 DEF Leaves
<1>6. CASE Commit(p) \/ CommitUnacknowledged(p)
  <2>1. pc[p] = "commit" /\ LeaveAndDissolve(p)
    BY <1>6 DEF Commit, CommitUnacknowledged
  <2> DEFINE gone == {p} \cup {s \in Requests : tupleLock[s] \in updateLocks[p]}
  <2>2. gone \in SUBSET Requests /\ p \in gone /\ Leave(gone)
    BY <2>1 DEF LeaveAndDissolve
  <2>3. ASSUME p \in ActivationRequests, NEW q \in Requests, tupleLock[q] = req[p].user
        PROVE  q \in gone
    BY <2>1, <2>3, ActivationHolds
  <2> QED
    BY <2>1, <2>2, <2>3 DEF Leaves
<1>7. CASE Abort(p) \/ DeadlockAbort(p)
  <2>1. /\ pc[p] # "done" /\ Leave({p}) /\ req' = req
        /\ answer'[p] = "internal_error"
    BY <1>1, <1>7 DEF Abort, DeadlockAbort, Finish, TypeOK
  <2> QED
    BY <2>1 DEF Leaves
<1> QED
  BY <1>2, <1>3, <1>4, <1>5, <1>6, <1>7 DEF Proceed, Fail

\* A request that arrives stands in no line yet, and nobody behind it.
LEMMA LinesStand ==
    ASSUME WorkflowInv, \A q \in Requests : TruthInv(q) /\ LineInv(q),
           NEW p \in Requests, Arrive(p), NEW r \in Requests
    PROVE  LineInv(r)'
<1>1. pc[p] = "new" /\ UNCHANGED <<updateLocks, tupleLock, behind>> /\ TypeOK
  BY DEF Arrive, ArriveCheckout, ArriveReturn, ArriveDelete, ArriveActivation, Submit, WorkflowInv
<1>2. answer[p] = "pending"
  BY <1>1 DEF TruthInv
<1>3. \A q \in Requests \ {p} :
        pc'[q] = pc[q] /\ req'[q] = req[q] /\ answer'[q] = answer[q]
  BY <1>1, OthersStand DEF Step
<1>4. tupleLock[p] = None /\ behind[p] = {}
  <2>1. Wants(p) = {}
    BY <1>1, WantsInProgress
  <2> QED
    BY <2>1 DEF LineInv
<1>5. CASE r = p
  BY <1>1, <1>4, <1>5 DEF LineInv
<1>6. CASE r # p
  <2>1. WantsUpdate(r)' = WantsUpdate(r) /\ Wants(r)' = Wants(r)
    BY <1>3, <1>6, SameWants
  <2>2. ASSUME NEW s \in behind[r]
        PROVE  s \in Requests /\ s # p /\ WantsUpdate(s)' = WantsUpdate(s)
    BY <1>1, <1>3, <1>4, <2>2, SameWants DEF LineInv, TypeOK, LinesOK
  <2>3. \A u : Undone(u) => Undone(u)'
    BY <1>2, <1>3 DEF Undone, Requests
  <2>4. \A a \in ActivationRequests :
          pc[a] \in {"identity", "commit"} => pc'[a] = pc[a] /\ req'[a] = req[a]
    BY <1>1, <1>3 DEF Requests
  <2> QED
    BY <1>1, <2>1, <2>2, <2>3, <2>4 DEF LineInv
<1> QED
  BY <1>5, <1>6

LEMMA LineStep ==
    WorkflowInv /\ RecordInv /\ QueueInv /\ [Next]_vars => \A r \in Requests : LineInv(r)'
<1> SUFFICES ASSUME WorkflowInv, RecordInv, QueueInv, [Next]_vars, NEW r \in Requests
             PROVE  LineInv(r)'
  OBVIOUS
<1>1. \A q \in Requests : TruthInv(q) /\ HoldingInv(q) /\ LineInv(q)
  BY DEF RecordInv, QueueInv
<1>2. CASE UNCHANGED vars
  BY <1>1, <1>2 DEF vars, LineInv, Wants, WantsUpdate, WantsShare, Undone
<1>3. ASSUME NEW p \in Requests, Step(p) PROVE LineInv(r)'
  <2>1. CASE Arrive(p)
    BY <1>1, <2>1, LinesStand
  <2>2. CASE QueueUp(p)
    BY <1>1, <2>2, LinesGrow
  <2>3. CASE Proceed(p) \/ Fail(p)
    <3>1. PICK gone \in SUBSET Requests :
            /\ p \in gone /\ Leave(gone)
            /\ p \in ActivationRequests /\ pc[p] \in {"identity", "commit"} =>
                  \/ \A q \in Requests : tupleLock[q] = req[p].user => q \in gone
                  \/ /\ req'[p].user = req[p].user
                     /\ \/ pc'[p] \in {"identity", "commit"}
                        \/ answer'[p] \in {"not_synchronized", "internal_error"}
      BY <2>3, StepLeaves DEF Leaves
    <3>2. pc[p] # "done"
      BY <2>3, StepLeaves
    <3>3. \A q \in Requests \ {p} :
             /\ pc'[q] = pc[q] /\ req'[q] = req[q] /\ answer'[q] = answer[q]
             /\ updateLocks'[q] = updateLocks[q]
      BY <1>3, OthersStand, OthersKeepLocks DEF WorkflowInv
    <3> QED
      BY <1>1, <3>1, <3>2, <3>3, LinesKept
  <2> QED
    BY <1>3, <2>1, <2>2, <2>3 DEF Step
<1> QED
  BY <1>2, <1>3 DEF Next, Terminated, Step

\* In every reachable state a request that waits holds no more than the rows its
\* earlier statements took, and stands in one line, for a row it still asks for.
THEOREM QueueInvariant == Spec => []QueueInv
<1>1. Init => QueueInv
  BY DEF Init, QueueInv, HoldingInv, HoldsAtMost, LineInv
<1>2. WorkflowInv /\ RecordInv /\ QueueInv /\ [Next]_vars => QueueInv'
  BY HoldingStep, LineStep DEF QueueInv
<1> QED
  BY <1>1, <1>2, WorkflowInvariant, RecordInvariant, PTL DEF Spec

-------------------------------------------------------------------------------
(* Whom a request can wait for. *)

\* A blocker holds a row the request asks for, or is first in line for it.
LEMMA BlockedBy ==
    ASSUME WorkflowInv, QueueInv, NEW r \in Requests, NEW s \in Blockers(r)
    PROVE  /\ s \in Requests /\ s # r /\ HoldingInv(s) /\ LineInv(s)
           /\ pc[r] \notin {"new", "identity", "commit", "done"}
           /\ \/ s \in Holders(r)
              \/ /\ s \in behind[r] /\ behind[s] = {} /\ tupleLock[s] # None
                 /\ tupleLock[s] \in TableRows /\ tupleLock[r] = None
                 /\ tupleLock[s] \in Wants(r) \ updateLocks[r]
                 /\ tupleLock[s] \in Wants(s) \ updateLocks[s]
                 /\ tupleLock[s] \in WantsUpdate(r) \cup WantsUpdate(s)
<1>1. /\ tupleLock \in [Requests -> TableRows \cup {None}]
      /\ behind \in [Requests -> SUBSET Requests]
  BY DEF WorkflowInv, TypeOK, LinesOK
<1>2. CASE s \in Holders(r)
  <2>1. s \in Requests /\ s # r /\ Wants(r) # {}
    BY <1>2 DEF Holders, ContestedRows, Wants
  <2> QED
    BY <1>2, <2>1, WantsInProgress DEF QueueInv
<1>3. CASE s \in behind[r]
  <2>1. s \in Requests /\ LineInv(r) /\ LineInv(s) /\ HoldingInv(s)
    BY <1>1, <1>3 DEF QueueInv
  <2>2. /\ s # r /\ tupleLock[r] = None /\ tupleLock[s] # None
        /\ tupleLock[s] \in Wants(r) \ updateLocks[r]
        /\ tupleLock[s] \in WantsUpdate(r) \cup WantsUpdate(s)
    BY <1>3, <2>1 DEF LineInv
  <2>3. behind[s] = {} /\ tupleLock[s] \in Wants(s) \ updateLocks[s] /\ tupleLock[s] \in TableRows
    BY <1>1, <2>1, <2>2 DEF LineInv
  <2> QED
    BY <1>3, <2>1, <2>2, <2>3, WantsInProgress
<1> QED
  BY <1>2, <1>3 DEF Blockers

\* A holder excludes the request at one row.
LEMMA HeldBy ==
    ASSUME NEW r \in Requests, NEW s \in Holders(r)
    PROVE  /\ s \in Requests /\ s # r
           /\ \E x : \/ x \in WantsUpdate(r) /\ x \in updateLocks[s] \cup shareLocks[s]
                     \/ x \in WantsShare(r) /\ x \in updateLocks[s]
BY DEF Holders, ContestedRows

\* An account change that waits does so at its first statement and holds nothing.
LEMMA WaitingActivation ==
    ASSUME WorkflowInv, QueueInv, NEW s \in ActivationRequests, Blockers(s) # {}
    PROVE  /\ s \in Requests /\ pc[s] = "user" /\ req[s].user \in Users
           /\ updateLocks[s] = {} /\ shareLocks[s] = {}
           /\ \A r \in Requests : s \in Blockers(r) =>
                 s \in behind[r] /\ tupleLock[s] = req[s].user /\ behind[s] = {}
<1>1. s \in Requests
  BY DEF Requests
<1>2. pc[s] = "user" /\ req[s].user \in Users
  BY <1>1, BlockedBy, KindsDisjoint DEF WorkflowInv, RequestInv, ActivationInv, Requests
<1>3. updateLocks[s] = {} /\ shareLocks[s] = {}
  BY <1>1, <1>2 DEF QueueInv, HoldingInv, HoldsAtMost
<1>4. ASSUME NEW r \in Requests, s \in Blockers(r)
      PROVE  s \in behind[r] /\ tupleLock[s] = req[s].user /\ behind[s] = {}
  <2>1. s \notin Holders(r)
    BY <1>3, HeldBy
  <2>2. s \in behind[r] /\ behind[s] = {} /\ tupleLock[s] \in Wants(s)
    BY <1>4, <2>1, BlockedBy
  <2> QED
    BY <1>1, <2>2, UserWanted
<1> QED
  BY <1>1, <1>2, <1>3, <1>4

\* Past its last wait for a row that a waiting request may hold, a request waits
\* for account changes only.
Unimpeded == {"borrower", "insert", "status", "settle", "restore", "commit"}

LEMMA UnimpededWaits ==
    ASSUME WorkflowInv, QueueInv,
           NEW r \in Requests, pc[r] \in Unimpeded, NEW s \in Blockers(r)
    PROVE  s \in ActivationRequests
<1>1. /\ s \in Requests /\ s # r /\ HoldingInv(s)
      /\ RequestInv(r) /\ pc[r] # "commit"
  BY BlockedBy DEF WorkflowInv
<1>2. updateLocks[r] \cap (updateLocks[s] \cup shareLocks[s]) = {}
  BY <1>1 DEF WorkflowInv, LockInv
<1>3. \E x \in Wants(r) \ updateLocks[r] :
         \/ x \in WantsUpdate(r) /\ x \in updateLocks[s] \cup shareLocks[s]
         \/ x \in WantsShare(r) /\ x \in updateLocks[s]
         \/ x \in TableRows /\ x \in WantsUpdate(r)
         \/ x \in TableRows /\ x \in WantsUpdate(s)
  <2>1. CASE s \in Holders(r)
    BY <1>2, <2>1, HeldBy DEF Wants
  <2>2. CASE s \notin Holders(r)
    BY <2>2, BlockedBy
  <2> QED
    BY <2>1, <2>2
<1>4. ASSUME NEW x \in Users, x \in updateLocks[s] \/ x \in WantsUpdate(s)
      PROVE  s \in ActivationRequests
    BY <1>1, <1>4, UserHolder, UserWanted
<1>5. CASE pc[r] = "borrower"
  <2>1. WantsUpdate(r) = {} /\ Wants(r) \subseteq Users
    BY <1>5 DEF WantsUpdate, WantsShare, Wants
  <2> QED
    BY <1>3, <1>4, <2>1
<1>6. CASE pc[r] = "insert"
  <2>1. /\ req[r].item \in Items /\ req[r].item \in updateLocks[r]
        /\ req[r].user \in Users /\ req[r].actor \in Users
    BY <1>1, <1>6, KindOfStep DEF RequestInv, CheckoutInv, Input
  <2>2. ActiveKey(req[r].item) \notin updateLocks[s] \cup shareLocks[s]
    BY <1>1, <1>2, <2>1, KeyHolder
  <2>3. ActiveKey(req[r].item) \notin TableRows
    BY <2>1, RowsApart DEF TableRows
  <2>4. /\ WantsUpdate(r) = {ActiveKey(req[r].item)}
        /\ WantsShare(r) = {req[r].user, req[r].actor, req[r].item}
        /\ Wants(r) = WantsUpdate(r) \cup WantsShare(r)
    BY <1>6 DEF WantsUpdate, WantsShare, Wants
  <2>5. \A x \in Wants(r) : x = ActiveKey(req[r].item) \/ x = req[r].item \/ x \in Users
    BY <2>1, <2>4
  <2>6. ActiveKey(req[r].item) \notin WantsUpdate(s) \/ ActiveKey(req[r].item) \notin TableRows
    BY <2>3
  <2>7. ActiveKey(req[r].item) \notin Users
    BY <2>3 DEF TableRows
  <2> HIDE DEF ActiveKey
  <2> QED
    BY <1>3, <1>4, <2>1, <2>2, <2>3, <2>4, <2>5, <2>7
<1>7. CASE pc[r] = "settle"
  <2>1. /\ req[r].item \in Items /\ req[r].item \in updateLocks[r]
        /\ req[r].actor \in Users
    BY <1>1, <1>7, KindOfStep DEF RequestInv, ReturnInv, Input
  <2>2. ActiveKey(req[r].item) \notin updateLocks[s] \cup shareLocks[s]
    BY <1>1, <1>2, <2>1, KeyHolder
  <2>3. ActiveKey(req[r].item) \notin TableRows /\ ActiveKey(req[r].item) \notin Users
    BY <2>1, RowsApart DEF TableRows
  <2>4. /\ WantsUpdate(r) = {ActiveKey(req[r].item)} /\ WantsShare(r) = {req[r].actor}
        /\ Wants(r) = WantsUpdate(r) \cup WantsShare(r)
    BY <1>7 DEF WantsUpdate, WantsShare, Wants
  <2> HIDE DEF ActiveKey
  <2> QED
    BY <1>3, <1>4, <2>1, <2>2, <2>3, <2>4
<1>8. CASE pc[r] \in {"status", "restore"}
  <2>1. req[r].item \in updateLocks[r]
    BY <1>1, <1>8, KindOfStep DEF RequestInv, CheckoutInv, ReturnInv
  <2>2. Wants(r) = {req[r].item}
    BY <1>8 DEF WantsUpdate, WantsShare, Wants
  <2> QED
    BY <1>3, <2>1, <2>2
<1> QED
  BY <1>1, <1>5, <1>6, <1>7, <1>8 DEF Unimpeded

\* The statements that wait for an item.
AtItem == {"item", "loan_item", "remove"}

\* Who waits for an item waits for a request past its waits, for a deletion of
\* the item, or for the first in line for it.
LEMMA ItemWaits ==
    ASSUME WorkflowInv, QueueInv, NEW r \in Requests, pc[r] \in AtItem, NEW s \in Blockers(r)
    PROVE  \/ s \in Holders(r) /\ pc[s] \in Unimpeded
           \/ /\ s \in Holders(r) /\ s \in DeleteRequests
              /\ pc[s] = "references" /\ req[s].item = req[r].item
           \/ /\ s \in behind[r] /\ behind[s] = {} /\ tupleLock[r] = None
              /\ tupleLock[s] # None
              /\ pc[s] \in AtItem /\ req[s].item = req[r].item
<1>1. /\ s \in Requests /\ s # r /\ HoldingInv(s)
      /\ RequestInv(s) /\ RequestInv(r)
  BY BlockedBy DEF WorkflowInv
<1>2. req[r].item \in Items
  BY <1>1, KindOfStep DEF AtItem, RequestInv, CheckoutInv, ReturnInv, DeleteInv
<1>3. WantsUpdate(r) = {req[r].item} /\ WantsShare(r) = {}
  BY DEF WantsUpdate, WantsShare, AtItem
<1>4. CASE s \in Holders(r)
  <2>1. req[r].item \in updateLocks[s] \cup shareLocks[s]
    BY <1>3, <1>4, HeldBy
  <2>2. CASE s \in DeleteRequests /\ pc[s] = "references"
    <3>1. req[s].item = req[r].item
      BY <1>1, <1>2, <2>1, <2>2, HeldRows, KindsDisjoint
    <3> QED
      BY <1>4, <2>2, <3>1
  <2> QED
    BY <1>1, <1>2, <1>4, <2>1, <2>2, ItemHolder DEF Unimpeded
<1>5. CASE s \notin Holders(r)
  <2>1. /\ s \in behind[r] /\ behind[s] = {} /\ tupleLock[r] = None /\ tupleLock[s] # None
        /\ tupleLock[s] \in Wants(r) /\ tupleLock[s] \in Wants(s) \ updateLocks[s]
    BY <1>5, BlockedBy
  <2>2. req[r].item \in Wants(s) \ updateLocks[s]
    BY <1>3, <2>1 DEF Wants
  <2>3. pc[s] \in AtItem /\ req[s].item = req[r].item
    BY <1>1, <1>2, <2>2, ItemWanted DEF AtItem
  <2> QED
    BY <2>1, <2>3
<1> QED
  BY <1>4, <1>5

\* Who waits for a loan waits for a return of it that holds it, or for the first
\* in line for it.
LEMMA LoanWaits ==
    ASSUME WorkflowInv, QueueInv, NEW r \in Requests, pc[r] \in {"loan", "references"},
           NEW s \in Blockers(r)
    PROVE  \/ /\ s \in Holders(r) /\ s \in ReturnRequests /\ req[s].loan = req[r].loan
              /\ pc[s] \in {"loan_item"} \cup Unimpeded
              /\ req[r].loan \in updateLocks[s]
           \/ /\ s \in behind[r] /\ behind[s] = {} /\ tupleLock[r] = None
              /\ tupleLock[s] # None /\ req[s].loan = req[r].loan
              /\ pc[s] \in {"loan", "references"}
              /\ pc[r] = "references" => pc[s] = "loan"
<1>1. /\ s \in Requests /\ s # r /\ HoldingInv(s)
      /\ RequestInv(s) /\ RequestInv(r)
  BY BlockedBy DEF WorkflowInv
<1>2. req[r].loan \in CheckoutRequests
  BY <1>1, KindOfStep DEF RequestInv, ReturnInv, DeleteInv
<1>3. /\ Wants(r) = {req[r].loan}
      /\ WantsUpdate(r) \cup WantsShare(r) = {req[r].loan}
      /\ pc[r] = "references" => WantsUpdate(r) = {}
  BY DEF WantsUpdate, WantsShare, Wants
<1>4. CASE s \in Holders(r)
  <2>1. req[r].loan \in updateLocks[s] \cup shareLocks[s]
    BY <1>3, <1>4, HeldBy
  <2>2. s \in ReturnRequests /\ req[s].loan = req[r].loan
        /\ pc[s] \in {"loan_item", "settle", "restore", "commit"}
    BY <1>1, <1>2, <2>1, LoanHolder
  <2>3. req[s].loan \in updateLocks[s]
    BY <1>1, <2>2 DEF RequestInv, ReturnInv
  <2> QED
    BY <1>4, <2>2, <2>3 DEF Unimpeded
<1>5. CASE s \notin Holders(r)
  <2>1. /\ s \in behind[r] /\ behind[s] = {} /\ tupleLock[r] = None /\ tupleLock[s] # None
        /\ tupleLock[s] \in Wants(r) /\ tupleLock[s] \in Wants(s)
        /\ tupleLock[s] \in WantsUpdate(r) \cup WantsUpdate(s)
    BY <1>5, BlockedBy
  <2>2. req[r].loan \in Wants(s) /\ (pc[r] = "references" => req[r].loan \in WantsUpdate(s))
    BY <1>3, <2>1
  <2>3. /\ pc[s] \in {"loan", "references"} /\ req[s].loan = req[r].loan
        /\ pc[r] = "references" => pc[s] = "loan"
    BY <1>1, <1>2, <2>2, LoanWanted
  <2> QED
    BY <2>1, <2>3
<1> QED
  BY <1>4, <1>5

-------------------------------------------------------------------------------
(* Circles of requests that wait. *)

\* Without the gap, no account change in a circle blocks a request of another kind:
\* it waits for a change that has the row locked, and that one waits for nobody.
LEMMA CircleActivation ==
    ASSUME WorkflowInv, QueueInv, NEW waiting \in SUBSET Requests, Circle(waiting),
           NEW r \in waiting \ ActivationRequests, NEW a \in waiting \cap ActivationRequests,
           a \in Blockers(r)
    PROVE  a \in behind[r] /\ Undone(req[a].user)
<1>1. Blockers(a) # {} /\ r \in Requests /\ a \in Requests
  BY DEF Circle
<1>2. /\ a \in behind[r] /\ tupleLock[a] = req[a].user /\ behind[a] = {}
      /\ req[a].user \in Users /\ pc[a] = "user"
  BY <1>1, WaitingActivation
<1>3. ASSUME NEW h \in ActivationRequests, pc[h] \in {"identity", "commit"},
             req[h].user = req[a].user
      PROVE  FALSE
  <2>1. h \in Requests /\ req[a].user \in updateLocks[h]
    BY <1>3, ActivationHolds
  <2>2. PICK t \in waiting : t \in Blockers(a)
    BY DEF Circle
  <2>3. t \in Holders(a) /\ t \in Requests
    BY <1>2, <2>2 DEF Blockers
  <2>4. WantsUpdate(a) = {req[a].user} /\ WantsShare(a) = {}
    BY <1>2 DEF WantsUpdate, WantsShare
  <2>5. req[a].user \in updateLocks[t] \cup shareLocks[t]
    BY <1>1, <2>3, <2>4, HeldBy
  <2>6. t = h
    BY <2>1, <2>3, <2>5 DEF WorkflowInv, LockInv
  <2>7. Blockers(h) # {}
    BY <2>2, <2>6 DEF Circle
  <2> QED
    BY <1>3, <2>1, <2>7, BlockedBy
<1>4. Undone(tupleLock[a])
  BY <1>1, <1>2, <1>3 DEF QueueInv, LineInv
<1> QED
  BY <1>2, <1>4

\* A circle of account changes alone is none: who blocks the first in line holds
\* the row and waits.
LEMMA CircleOfOthers ==
    ASSUME WorkflowInv, QueueInv, NEW waiting \in SUBSET Requests, Circle(waiting)
    PROVE  waiting \ ActivationRequests # {}
<1> SUFFICES ASSUME waiting \subseteq ActivationRequests PROVE FALSE
  OBVIOUS
<1>1. PICK r \in waiting : TRUE
  BY DEF Circle
<1>2. PICK s \in waiting : s \in Blockers(r)
  BY <1>1 DEF Circle
<1>3. PICK t \in waiting : t \in Blockers(s)
  BY <1>2 DEF Circle
<1>4. Blockers(s) # {} /\ Blockers(t) # {}
  BY <1>2, <1>3 DEF Circle
<1>5. behind[s] = {}
  BY <1>2, <1>4, WaitingActivation
<1>6. t \in behind[s]
  BY <1>3, <1>4, WaitingActivation
<1> QED
  BY <1>5, <1>6

\* In a circle without account changes a deletion waits for a loan.
LEMMA CircleDeletion ==
    ASSUME WorkflowInv, QueueInv, NEW waiting \in SUBSET Requests, Circle(waiting),
           waiting \cap ActivationRequests = {}
    PROVE  \E d \in waiting : pc[d] = "references"
<1>1. ASSUME NEW r \in waiting
      PROVE  pc[r] \in AtItem \cup {"loan", "references"}
  <2>1. PICK s \in waiting : s \in Blockers(r)
    BY <1>1 DEF Circle
  <2>2. pc[r] \notin Unimpeded
    BY <1>1, <2>1, UnimpededWaits
  <2>3. pc[r] \in Steps /\ pc[r] \notin {"new", "identity", "commit", "done"}
    BY <1>1, <2>1, BlockedBy, KindOfStep
  <2>4. pc[r] # "user"
    BY <1>1, KindOfStep
  <2> QED
    BY <2>2, <2>3, <2>4 DEF Steps, Unimpeded, AtItem
<1>2. ASSUME NEW r \in waiting, pc[r] \in AtItem
      PROVE  \E d \in waiting : pc[d] = "references"
  <2>1. PICK s \in waiting : s \in Blockers(r)
    BY <1>2 DEF Circle
  <2>2. PICK t \in waiting : t \in Blockers(s)
    BY <2>1 DEF Circle
  <2>3. pc[s] \notin Unimpeded /\ pc[t] \notin Unimpeded
    BY <1>1 DEF AtItem, Unimpeded
  <2>4. CASE pc[s] = "references"
    BY <2>1, <2>4
  <2>5. CASE pc[s] # "references"
    <3>1. pc[s] \in AtItem /\ behind[s] = {}
      BY <1>2, <2>1, <2>3, <2>5, ItemWaits
    <3>2. pc[t] = "references"
      BY <2>1, <2>2, <2>3, <3>1, ItemWaits
    <3> QED
      BY <2>2, <3>2
  <2> QED
    BY <2>4, <2>5
<1>3. ASSUME NEW r \in waiting, pc[r] = "loan"
      PROVE  \E d \in waiting : pc[d] = "references"
  <2>1. PICK s \in waiting : s \in Blockers(r)
    BY <1>3 DEF Circle
  <2>2. PICK t \in waiting : t \in Blockers(s)
    BY <2>1 DEF Circle
  <2>3. pc[s] \notin Unimpeded /\ pc[t] \notin Unimpeded
    BY <1>1 DEF AtItem, Unimpeded
  <2>4. CASE pc[s] = "references"
    BY <2>1, <2>4
  <2>5. CASE pc[s] = "loan_item"
    BY <1>2, <2>1, <2>5 DEF AtItem
  <2>6. CASE pc[s] = "loan"
    <3>1. behind[s] = {}
      BY <1>3, <2>1, <2>6, LoanWaits DEF Unimpeded
    <3>2. pc[t] = "loan_item"
      BY <2>1, <2>2, <2>3, <2>6, <3>1, LoanWaits
    <3> QED
      BY <1>2, <2>2, <3>2 DEF AtItem
  <2> QED
    BY <1>3, <2>1, <2>3, <2>4, <2>5, <2>6, LoanWaits
<1>4. PICK r \in waiting : TRUE
  BY DEF Circle
<1> QED
  BY <1>1, <1>2, <1>3, <1>4

\* It waits for a return of that loan, directly or behind another return, and
\* the return waits for the item that the deletion holds.
LEMMA CirclePair ==
    ASSUME WorkflowInv, RecordInv, QueueInv,
           NEW waiting \in SUBSET Requests, Circle(waiting),
           waiting \cap ActivationRequests = {}
    PROVE  \E r \in waiting \cap ReturnRequests, d \in waiting \cap DeleteRequests :
               r \in Blockers(d) /\ d \in Blockers(r)
<1>1. \A q \in waiting : pc[q] \notin Unimpeded
  BY UnimpededWaits DEF Circle
<1>2. PICK d \in waiting : pc[d] = "references"
  BY CircleDeletion
<1>3. d \in DeleteRequests
  BY <1>2, KindOfStep
<1>4. PICK r \in waiting : r \in Holders(d) /\ pc[r] = "loan_item" /\ req[r].loan = req[d].loan
  <2>1. PICK s \in waiting : s \in Blockers(d)
    BY DEF Circle
  <2>2. PICK t \in waiting : t \in Blockers(s)
    BY <2>1 DEF Circle
  <2>3. CASE s \in Holders(d) /\ pc[s] = "loan_item" /\ req[s].loan = req[d].loan
    BY <2>3
  <2>4. CASE pc[s] = "loan" /\ behind[s] = {} /\ req[s].loan = req[d].loan
    <3>1. /\ pc[t] = "loan_item" /\ req[t].loan = req[d].loan
          /\ req[d].loan \in updateLocks[t]
      BY <1>1, <2>2, <2>4, LoanWaits
    <3>2. WantsShare(d) = {req[d].loan}
      BY <1>2 DEF WantsShare
    <3>3. t \in Holders(d)
      BY <1>2, <2>2, <3>1, <3>2 DEF Holders, ContestedRows
    <3> QED
      BY <2>2, <3>1, <3>3
  <2> QED
    BY <1>1, <1>2, <2>1, <2>3, <2>4, LoanWaits
<1>5. r \in ReturnRequests /\ r # d
  BY <1>2, <1>4, KindOfStep
<1>6. req[r].item = req[d].item
  <2>1. checkouts[req[r].loan].item = req[r].item
    BY <1>4, <1>5 DEF WorkflowInv, RequestInv, ReturnInv, Requests
  <2>2. req[d].loan \in LoansOf(req[d].item)
    BY <1>2, <1>3 DEF RecordInv, TruthInv, Requests
  <2> QED
    BY <1>4, <2>1, <2>2 DEF LoansOf
<1>7. req[d].item \in updateLocks[d]
  BY <1>2, <1>3 DEF QueueInv, HoldingInv, Requests
<1>8. WantsUpdate(r) = {req[r].item}
  BY <1>4 DEF WantsUpdate
<1>9. d \in Holders(r)
  BY <1>5, <1>6, <1>7, <1>8 DEF Holders, ContestedRows
<1> QED
  BY <1>3, <1>4, <1>5, <1>9 DEF Blockers

LEMMA CircleHasPair ==
    ASSUME WorkflowInv, RecordInv, QueueInv
    PROVE  OnlyReturnAndDeletionDeadlock
<1> SUFFICES ASSUME NEW waiting \in SUBSET Waiting, Circle(waiting),
                    \A r \in waiting \ ActivationRequests, a \in waiting \cap ActivationRequests :
                       ~(a \in behind[r] /\ Undone(req[a].user))
             PROVE  \E r \in waiting \cap ReturnRequests, d \in waiting \cap DeleteRequests :
                       r \in Blockers(d) /\ d \in Blockers(r)
  BY DEF OnlyReturnAndDeletionDeadlock
<1> DEFINE others == waiting \ ActivationRequests
<1>1. waiting \in SUBSET Requests
  BY DEF Waiting
<1>2. \A r \in others : Blockers(r) \cap others # {}
  <2> SUFFICES ASSUME NEW r \in others PROVE Blockers(r) \cap others # {}
    OBVIOUS
  <2>1. PICK s \in waiting : s \in Blockers(r)
    BY DEF Circle
  <2>2. s \notin ActivationRequests
    BY <1>1, <2>1, CircleActivation
  <2> QED
    BY <2>1, <2>2
<1>3. others # {}
  BY <1>1, CircleOfOthers
<1>4. others \in SUBSET Requests /\ Circle(others) /\ others \cap ActivationRequests = {}
  BY <1>1, <1>2, <1>3 DEF Circle
<1> HIDE DEF others
<1>5. \E r \in others \cap ReturnRequests, d \in others \cap DeleteRequests :
         r \in Blockers(d) /\ d \in Blockers(r)
  BY <1>4, CirclePair
<1> QED
  BY <1>5 DEF others

\* Requests that wait for each other in a circle, in any instance and however
\* many they are, include a return and the deletion of its item that wait for
\* each other, or stand behind an account change although one was undone.
THEOREM OthersNeverDeadlock == Spec => []OnlyReturnAndDeletionDeadlock
<1>1. WorkflowInv /\ RecordInv /\ QueueInv => OnlyReturnAndDeletionDeadlock
  BY CircleHasPair
<1> QED
  BY <1>1, WorkflowInvariant, RecordInvariant, QueueInvariant, PTL

-------------------------------------------------------------------------------
(* Progress. *)

\* Nobody waits for a request that is not in progress.
LEMMA BlockersInProgress ==
    ASSUME WorkflowInv, QueueInv, NEW r \in Requests, NEW s \in Blockers(r)
    PROVE  r \in InProgress /\ s \in InProgress
<1>1. pc[r] \notin {"new", "done"} /\ s \in Requests /\ HoldingInv(s)
  BY BlockedBy
<1>2. CASE s \in Holders(r)
  <2>1. updateLocks[s] \cup shareLocks[s] # {}
    BY <1>2, HeldBy
  <2> QED
    BY <1>1, <2>1 DEF InProgress, HoldingInv, HoldsAtMost
<1>3. CASE s \notin Holders(r)
  <2>1. Wants(s) # {}
    BY <1>3, BlockedBy
  <2> QED
    BY <1>1, <2>1, WantsInProgress DEF InProgress
<1> QED
  BY <1>2, <1>3

\* A finite set whose members all wait has a smallest part that waits for itself,
\* and each of its members waits for itself.
LEMMA ProgressPossible ==
    ASSUME WorkflowInv, QueueInv, IsFiniteSet(Requests)
    PROVE  SomeoneProceeds
<1> SUFFICES ASSUME InProgress # {}, \A r \in InProgress : Blockers(r) # {}
             PROVE  \E r \in InProgress : Deadlocked(r)
  BY DEF SomeoneProceeds
<1>1. InProgress \subseteq Requests /\ Waiting = InProgress
  BY BlockersInProgress DEF InProgress, Waiting
<1>2. \A r \in InProgress : Blockers(r) \subseteq InProgress
  BY <1>1, BlockersInProgress
<1> DEFINE Closed == {S \in SUBSET InProgress : S # {} /\ \A s \in S : Blockers(s) \subseteq S}
<1>3. PICK least \in Closed : \A S \in Closed : ~(S \subseteq least /\ S # least)
  <2>1. IsFiniteSet(InProgress)
    BY <1>1, FS_Subset
  <2>2. Closed \subseteq FiniteSubsetsOf(InProgress)
    BY <2>1, FS_FiniteSubsetsOfFinite
  <2>3. InProgress \in Closed
    BY <1>2
  <2>4. IsWellFoundedOn(StrictSubsetOrdering(InProgress), FiniteSubsetsOf(InProgress))
    BY FS_StrictSubsetOrderingWellFounded
  <2>5. Closed # {} /\ Closed \subseteq SUBSET InProgress
    BY <2>3
  <2> HIDE DEF Closed
  <2>6. \E x \in Closed : \A y \in Closed : <<y, x>> \notin StrictSubsetOrdering(InProgress)
    BY <2>2, <2>4, <2>5, WFMin
  <2> QED
    BY <2>5, <2>6 DEF StrictSubsetOrdering
<1>4. PICK r \in least : TRUE
  OBVIOUS
<1>5. ASSUME NEW S \in SUBSET Waiting,
             \A s \in S \cup {r} : Blockers(s) \cap Waiting \subseteq S
      PROVE  r \in S
  <2> DEFINE part == S \cap least
  <2>1. \A s \in least : Blockers(s) \subseteq least /\ Blockers(s) \subseteq Waiting
                          /\ Blockers(s) # {}
    BY <1>1, <1>2
  <2>2. \A s \in part : Blockers(s) \subseteq part
    BY <1>5, <2>1
  <2>3. part # {}
    BY <1>4, <1>5, <2>1
  <2>4. part \in Closed
    BY <2>2, <2>3
  <2>5. part = least
    BY <1>3, <2>4
  <2> QED
    BY <1>4, <2>5
<1>6. r \in InProgress /\ Blockers(r) # {}
  BY <1>4
<1>7. Deadlocked(r)
  BY <1>5, <1>6 DEF Deadlocked
<1> QED
  BY <1>6, <1>7

\* In any instance with finitely many requests, while one is in progress, one of
\* them can go on or is one that PostgreSQL finds waiting for itself.
THEOREM SomeoneAlwaysProceeds ==
    ASSUME IsFiniteSet(Requests)
    PROVE  Spec => []SomeoneProceeds
<1>1. WorkflowInv /\ QueueInv => SomeoneProceeds
  BY ProgressPossible
<1> QED
  BY <1>1, WorkflowInvariant, QueueInvariant, PTL

-------------------------------------------------------------------------------
(* Who can be aborted. *)

\* A request that a closed set of the waiting leaves out does not wait for itself.
LEMMA NotDeadlocked ==
    ASSUME NEW r, NEW S \in SUBSET Waiting, r \notin S,
           \A s \in S \cup {r} : Blockers(s) \cap Waiting \subseteq S
    PROVE  ~Deadlocked(r)
BY DEF Deadlocked

\* No account change was undone with its successor still in line.
Calm ==
    \A r \in Requests \ ActivationRequests :
        \A a \in behind[r] \cap ActivationRequests :
            \E h \in ActivationRequests :
                pc[h] \in {"identity", "commit"} /\ req[h].user = tupleLock[a]

\* Then an account change that blocks another kind of request waits for a change
\* that goes on.
LEMMA CalmActivation ==
    ASSUME WorkflowInv, QueueInv, Calm,
           NEW r \in Requests \ ActivationRequests,
           NEW a \in ActivationRequests \cap Waiting, a \in Blockers(r)
    PROVE  Blockers(a) \cap Waiting = {}
<1>1. a \in Requests /\ Blockers(a) # {}
  BY DEF Waiting
<1>2. /\ a \in behind[r] /\ tupleLock[a] = req[a].user /\ behind[a] = {} /\ pc[a] = "user"
  BY <1>1, WaitingActivation
<1>3. PICK h \in ActivationRequests :
        pc[h] \in {"identity", "commit"} /\ req[h].user = req[a].user
  BY <1>2 DEF Calm
<1>4. h \in Requests /\ req[a].user \in updateLocks[h]
  BY <1>3, ActivationHolds
<1>5. ASSUME NEW t \in Blockers(a) PROVE t = h
  <2>1. t \in Holders(a) /\ t \in Requests
    BY <1>1, <1>2, <1>5, BlockedBy DEF Blockers
  <2>2. WantsUpdate(a) = {req[a].user} /\ WantsShare(a) = {}
    BY <1>2 DEF WantsUpdate, WantsShare
  <2>3. req[a].user \in updateLocks[t] \cup shareLocks[t]
    BY <1>1, <2>1, <2>2, HeldBy
  <2> QED
    BY <1>4, <2>1, <2>3 DEF WorkflowInv, LockInv
<1>6. h \notin Waiting
  BY <1>3, <1>4, BlockedBy DEF Waiting
<1> QED
  BY <1>5, <1>6

\* An account change waits for itself in no case: who stands behind it shows that
\* it waits for one that goes on.
LEMMA ActivationGoesOn ==
    ASSUME WorkflowInv, QueueInv, Calm, NEW a \in ActivationRequests
    PROVE  ~Deadlocked(a)
<1> SUFFICES ASSUME Deadlocked(a) PROVE FALSE
  OBVIOUS
<1>1. a \in Requests /\ Blockers(a) # {}
  BY DEF Requests, Deadlocked
<1>2. CASE \E r \in Requests \ ActivationRequests : a \in Blockers(r)
  <2>1. Blockers(a) \cap Waiting = {}
    BY <1>1, <1>2, CalmActivation DEF Waiting
  <2> QED
    BY <2>1, NotDeadlocked
<1>3. CASE \A r \in Requests \ ActivationRequests : a \notin Blockers(r)
  <2> DEFINE followers == {x \in ActivationRequests : a \in Blockers(x)}
             S == Waiting \ (followers \cup {a})
  <2>1. ASSUME NEW s \in S \cup {a}, NEW t \in Blockers(s), t \in Waiting PROVE t \in S
    <3>1. s \in Requests /\ t # s /\ t \in Requests
      BY <1>1, <2>1, BlockedBy DEF Waiting
    <3>2. t # a
      BY <1>3, <2>1, <3>1
    <3>3. ASSUME t \in followers PROVE FALSE
      <4>1. t \in ActivationRequests /\ Blockers(t) # {} /\ a \in Blockers(t)
        BY <3>3
      <4>2. tupleLock[t] # None
        BY <2>1, <3>1, <4>1, WaitingActivation, NoneIsNoRow
      <4>3. a \in behind[t]
        BY <1>1, <3>1, <4>1, WaitingActivation
      <4> QED
        BY <3>1, <4>2, <4>3 DEF QueueInv, LineInv
    <3> QED
      BY <2>1, <3>2, <3>3
  <2>2. S \in SUBSET Waiting /\ a \notin S
    OBVIOUS
  <2> HIDE DEF S
  <2>3. \A s \in S \cup {a} : Blockers(s) \cap Waiting \subseteq S
    BY <2>1
  <2> QED
    BY <2>2, <2>3, NotDeadlocked
<1> QED
  BY <1>2, <1>3

\* The waiting that wait at most for account changes that go on.
Flowing ==
    {s \in Waiting : \/ s \in ActivationRequests /\ Blockers(s) \cap Waiting = {}
                     \/ pc[s] \in Unimpeded}

LEMMA FlowingClosed ==
    ASSUME WorkflowInv, QueueInv, Calm, NEW s \in Requests,
           s \in Flowing \/ pc[s] \in Unimpeded
    PROVE  Blockers(s) \cap Waiting \subseteq Flowing
<1>1. CASE pc[s] \in Unimpeded /\ s \notin ActivationRequests
  <2>1. ASSUME NEW t \in Blockers(s), t \in Waiting PROVE t \in Flowing
    <3>1. t \in ActivationRequests
      BY <1>1, <2>1, UnimpededWaits
    <3> QED
      BY <1>1, <2>1, <3>1, CalmActivation DEF Flowing
  <2> QED
    BY <2>1
<1>2. CASE pc[s] \in Unimpeded /\ s \in ActivationRequests
  <2>1. pc[s] = "commit"
    BY <1>2, KindsDisjoint DEF WorkflowInv, RequestInv, ActivationInv, Unimpeded
  <2>2. Blockers(s) = {}
    BY <2>1, BlockedBy
  <2> QED
    BY <2>2
<1>3. CASE pc[s] \notin Unimpeded
  BY <1>3 DEF Flowing
<1> QED
  BY <1>1, <1>2, <1>3

\* Past its waits a request waits for itself in no case either.
LEMMA UnimpededGoesOn ==
    ASSUME WorkflowInv, QueueInv, Calm, NEW r \in Requests, pc[r] \in Unimpeded
    PROVE  ~Deadlocked(r)
<1> DEFINE S == Blockers(r) \cap Waiting
<1>1. S \subseteq Flowing /\ S \subseteq ActivationRequests
  BY FlowingClosed, UnimpededWaits
<1>2. \A s \in S : pc[s] \notin Unimpeded
  <2>1. ASSUME NEW s \in S PROVE pc[s] = "user"
    BY <1>1, WaitingActivation DEF Waiting
  <2> QED
    BY <2>1 DEF Unimpeded
<1>3. \A s \in S : Blockers(s) \cap Waiting = {}
  BY <1>1, <1>2 DEF Flowing
<1>4. r \notin S /\ S \in SUBSET Waiting
  BY BlockedBy
<1> QED
  BY <1>3, <1>4, NotDeadlocked

\* The requests that make an item contested.
Contested(i) ==
    \E t \in ReturnRequests, d \in DeleteRequests : Concerns(t, i) /\ Concerns(d, i)

\* A deletion that waits for a loan waits for a return of it.
LEMMA DeletionContests ==
    ASSUME WorkflowInv, RecordInv, QueueInv, NEW d \in Requests, pc[d] = "references",
           Blockers(d) # {}
    PROVE  /\ req[d].item \in Items /\ Contested(req[d].item)
           /\ d \in DeleteRequests /\ Concerns(d, req[d].item)
<1>1. d \in DeleteRequests
  BY KindOfStep
<1>2. req[d].item \in Items /\ req[d].loan \in LoansOf(req[d].item)
  BY <1>1 DEF WorkflowInv, RequestInv, DeleteInv, RecordInv, TruthInv
<1>3. PICK t \in Blockers(d) : TRUE
  OBVIOUS
<1>4. t \in Requests /\ pc[t] # "new"
  BY <1>3, BlockersInProgress, BlockedBy DEF InProgress
<1>5. t \in ReturnRequests /\ req[t].loan = req[d].loan
  <2>1. CASE pc[t] = "loan" /\ req[t].loan = req[d].loan
    BY <1>4, <2>1, KindOfStep
  <2> QED
    BY <2>1, LoanWaits
<1>6. Concerns(t, req[d].item) /\ Concerns(d, req[d].item)
  BY <1>1, <1>2, <1>4, <1>5 DEF Concerns
<1> QED
  BY <1>1, <1>2, <1>5, <1>6 DEF Contested

\* The waiting at an item, with those past their waits.
AtItemOf(i) == {s \in Waiting : pc[s] \in AtItem /\ req[s].item = i}

\* Who waits for an item that is not contested waits for them only.
LEMMA UncontestedItem ==
    ASSUME WorkflowInv, RecordInv, QueueInv, Calm, NEW r \in Requests, pc[r] \in AtItem,
           ~Contested(req[r].item)
    PROVE  /\ Holders(r) \cap Waiting \subseteq Flowing
           /\ behind[r] \cap Waiting \subseteq AtItemOf(req[r].item)
           /\ behind[r] \subseteq Requests
           /\ \A s \in behind[r] : behind[s] = {} /\ tupleLock[s] # None
<1>1. ASSUME NEW s \in Holders(r), s \in Waiting PROVE s \in Flowing
  <2>1. s \in Requests /\ Blockers(s) # {} /\ s \in Blockers(r)
    BY <1>1 DEF Waiting, Blockers
  <2>2. ~(pc[s] = "references" /\ req[s].item = req[r].item)
    BY <2>1, DeletionContests
  <2>3. pc[s] \in Unimpeded \/ (s \in behind[r] /\ behind[s] = {} /\ tupleLock[s] # None
                                 /\ pc[s] \in AtItem)
    BY <2>1, <2>2, ItemWaits
  <2>4. CASE pc[s] \in AtItem
    <3>1. s \in CheckoutRequests \cup ReturnRequests \cup DeleteRequests
      BY <2>1, <2>4, KindOfStep DEF AtItem
    <3>2. req[r].item \in Items /\ HoldingInv(s)
      BY <2>1, KindOfStep DEF AtItem, WorkflowInv, RequestInv, CheckoutInv, ReturnInv, DeleteInv, QueueInv
    <3>3. WantsUpdate(r) = {req[r].item} /\ WantsShare(r) = {}
      BY DEF WantsUpdate, WantsShare, AtItem
    <3>4. req[r].item \in updateLocks[s] \cup shareLocks[s]
      BY <1>1, <3>3, HeldBy
    <3> QED
      BY <2>1, <2>4, <3>2, <3>4, ItemHolder DEF AtItem
  <2> QED
    BY <1>1, <2>3, <2>4 DEF Flowing
<1>2. ASSUME NEW s \in behind[r]
      PROVE  /\ s \in Requests /\ behind[s] = {} /\ tupleLock[s] # None
             /\ pc[s] \in AtItem /\ req[s].item = req[r].item
  <2>1. s \in Blockers(r) /\ s \in Requests
    BY <1>2, BlockedBy DEF Blockers
  <2>2. LineInv(r) /\ LineInv(s) /\ RequestInv(r) /\ RequestInv(s)
    BY <2>1 DEF QueueInv, WorkflowInv
  <2>3. behind[s] = {} /\ tupleLock[s] # None /\ tupleLock[s] \in Wants(r)
        /\ tupleLock[s] \in Wants(s) \ updateLocks[s]
    BY <1>2, <2>2 DEF LineInv
  <2>4. Wants(r) = {req[r].item}
    BY DEF Wants, WantsUpdate, WantsShare, AtItem
  <2>5. req[r].item \in Items
    BY <2>2, KindOfStep DEF AtItem, RequestInv, CheckoutInv, ReturnInv, DeleteInv
  <2> QED
    BY <2>1, <2>3, <2>4, <2>5, ItemWanted DEF AtItem
<1> QED
  BY <1>1, <1>2 DEF AtItemOf

LEMMA ItemGoesOn ==
    ASSUME WorkflowInv, RecordInv, QueueInv, Calm, NEW r \in Requests, pc[r] \in AtItem,
           ~Contested(req[r].item)
    PROVE  ~Deadlocked(r)
<1> DEFINE S == Flowing \cup (behind[r] \cap Waiting)
<1>1. r \notin S
  <2>1. pc[r] \notin Unimpeded /\ r \notin ActivationRequests
    BY KindOfStep, KindsDisjoint DEF AtItem, Unimpeded
  <2>2. r \notin behind[r]
    BY BlockedBy DEF Blockers
  <2> QED
    BY <2>1, <2>2 DEF Flowing
<1>2. ASSUME NEW s \in S PROVE Blockers(s) \cap Waiting \subseteq S
  <2>1. CASE s \in Flowing
    BY <2>1, FlowingClosed DEF Flowing, Waiting
  <2>2. CASE s \in behind[r] /\ s \in Waiting
    <3>1. /\ s \in Requests /\ pc[s] \in AtItem /\ req[s].item = req[r].item
          /\ behind[s] = {}
      BY <2>2, UncontestedItem DEF AtItemOf
    <3>2. Holders(s) \cap Waiting \subseteq Flowing
      BY <3>1, UncontestedItem
    <3> QED
      BY <3>1, <3>2 DEF Blockers
  <2> QED
    BY <2>1, <2>2
<1>3. Blockers(r) \cap Waiting \subseteq S
  BY UncontestedItem DEF Blockers
<1>4. S \in SUBSET Waiting
  BY DEF Flowing
<1> HIDE DEF S
<1> QED
  BY <1>1, <1>2, <1>3, <1>4, NotDeadlocked

\* A return that waits for its loan waits for returns of it, and they for its item.
LEMMA LoanGoesOn ==
    ASSUME WorkflowInv, RecordInv, QueueInv, Calm, NEW r \in ReturnRequests, pc[r] = "loan",
           \A i \in Items : ~(Concerns(r, i) /\ Contested(i))
    PROVE  ~Deadlocked(r)
<1>1. r \in Requests /\ req[r].loan \in CheckoutRequests
  BY DEF Requests, WorkflowInv, RequestInv, ReturnInv
<1> DEFINE i == checkouts[req[r].loan].item
<1>2. ASSUME NEW t \in ReturnRequests, req[t].loan = req[r].loan,
             pc[t] \in {"loan_item"} \cup Unimpeded
      PROVE  req[t].item = i /\ i \in Items /\ Concerns(r, i) /\ ~Contested(i)
  <2>1. t \in Requests /\ pc[t] \in {"loan_item", "settle", "restore", "commit"}
    BY <1>2, KindOfStep, KindsDisjoint DEF Requests, Unimpeded
  <2>2. /\ req[t].item \in Items /\ checkouts[req[t].loan] # None
        /\ checkouts[req[t].loan].item = req[t].item
    BY <1>2, <2>1 DEF WorkflowInv, RequestInv, ReturnInv
  <2>3. Concerns(r, i)
    BY <1>1, <1>2, <2>2 DEF Concerns, LoansOf
  <2> QED
    BY <1>2, <2>2, <2>3
<1>3. ASSUME NEW t \in Requests, pc[t] = "references", req[t].loan = req[r].loan
      PROVE  FALSE
  <2>1. t \in DeleteRequests
    BY <1>3, KindOfStep
  <2>2. req[t].item \in Items /\ req[r].loan \in LoansOf(req[t].item)
    BY <1>3, <2>1 DEF WorkflowInv, RequestInv, DeleteInv, RecordInv, TruthInv
  <2>3. Concerns(r, req[t].item) /\ Concerns(t, req[t].item)
    BY <1>3, <2>1, <2>2 DEF Concerns
  <2> QED
    BY <2>1, <2>2, <2>3 DEF Contested
<1> DEFINE items == {s \in AtItemOf(i) : ~Contested(i)}
           S == Flowing \cup items \cup (behind[r] \cap Waiting)
<1>4. ASSUME NEW s \in Flowing \cup items PROVE Blockers(s) \cap Waiting \subseteq S
  <2>1. CASE s \in Flowing
    BY <2>1, FlowingClosed DEF Flowing, Waiting
  <2>2. CASE s \in items
    <3>1. s \in Requests /\ pc[s] \in AtItem /\ req[s].item = i /\ ~Contested(i)
      BY <2>2 DEF AtItemOf, Waiting
    <3>2. Holders(s) \cap Waiting \subseteq Flowing
      BY <3>1, UncontestedItem
    <3>3. behind[s] \cap Waiting \subseteq items
      BY <3>1, UncontestedItem
    <3> QED
      BY <3>2, <3>3 DEF Blockers
  <2> QED
    BY <2>1, <2>2
<1>5. ASSUME NEW s \in Requests, pc[s] = "loan", req[s].loan = req[r].loan,
             NEW t \in Blockers(s), t \in Waiting, t \notin behind[s]
      PROVE  t \in S
  <2>1. t \in ReturnRequests /\ req[t].loan = req[r].loan /\ pc[t] \in {"loan_item"} \cup Unimpeded
    BY <1>5, LoanWaits
  <2>2. CASE pc[t] \in Unimpeded
    BY <1>5, <2>2 DEF Flowing
  <2>3. CASE pc[t] = "loan_item"
    BY <1>2, <1>5, <2>1, <2>3 DEF AtItemOf, AtItem
  <2> QED
    BY <2>1, <2>2, <2>3
<1>6. ASSUME NEW s \in behind[r], s \in Waiting
      PROVE  /\ s \in Requests /\ s # r /\ behind[s] = {}
             /\ pc[s] = "loan" /\ req[s].loan = req[r].loan
  <2>1. s \in Blockers(r) /\ s \in Requests /\ s # r
    BY <1>1, <1>6, BlockedBy DEF Blockers
  <2>2. LineInv(r) /\ LineInv(s)
    BY <1>1, <2>1 DEF QueueInv
  <2>3. behind[s] = {} /\ tupleLock[s] \in Wants(r) /\ tupleLock[s] \in Wants(s)
    BY <1>6, <2>2 DEF LineInv
  <2>4. Wants(r) = {req[r].loan}
    BY DEF Wants, WantsUpdate, WantsShare
  <2>5. pc[s] \in {"loan", "references"} /\ req[s].loan = req[r].loan
    BY <1>1, <2>1, <2>3, <2>4, LoanWanted
  <2> QED
    BY <1>3, <2>1, <2>3, <2>5
<1>7. \A s \in S \cup {r} : Blockers(s) \cap Waiting \subseteq S
  <2>1. ASSUME NEW t \in Blockers(r), t \in Waiting PROVE t \in S
    BY <1>1, <1>5, <2>1
  <2>2. ASSUME NEW s \in behind[r], s \in Waiting, NEW t \in Blockers(s), t \in Waiting
        PROVE  t \in S
    BY <1>5, <1>6, <2>2
  <2> HIDE DEF items
  <2> QED
    BY <1>4, <2>1, <2>2
<1>8. r \notin S /\ S \in SUBSET Waiting
  <2>1. r \notin ActivationRequests /\ pc[r] \notin Unimpeded /\ pc[r] \notin AtItem
    BY KindsDisjoint DEF Unimpeded, AtItem
  <2> QED
    BY <1>6, <2>1 DEF Flowing, AtItemOf
<1> HIDE DEF S
<1> QED
  BY <1>7, <1>8, NotDeadlocked

\* So without the gap only a request about a contested item can be aborted.
LEMMA AbortedContested ==
    ASSUME WorkflowInv, RecordInv, QueueInv, Calm, NEW r \in Requests,
           pc[r] \notin {"new", "done"}, Deadlocked(r)
    PROVE  \E i \in Items : Concerns(r, i) /\ Contested(i)
<1>1. r \notin ActivationRequests /\ pc[r] \notin Unimpeded /\ Blockers(r) # {}
  BY ActivationGoesOn, UnimpededGoesOn DEF Deadlocked
<1>2. CASE pc[r] = "references"
  BY <1>1, <1>2, DeletionContests
<1>3. CASE pc[r] = "loan"
  <2>1. r \in ReturnRequests
    BY <1>3, KindOfStep
  <2> QED
    BY <1>3, <2>1, LoanGoesOn
<1>4. CASE pc[r] \in AtItem
  <2>1. Contested(req[r].item)
    BY <1>4, ItemGoesOn
  <2>2. req[r].item \in Items
    BY <1>4, KindOfStep DEF AtItem, WorkflowInv, RequestInv, CheckoutInv, ReturnInv, DeleteInv
  <2>3. Concerns(r, req[r].item)
    <3>1. CASE pc[r] \in {"item", "remove"}
      BY <3>1, KindOfStep DEF Concerns
    <3>2. CASE pc[r] = "loan_item"
      <4>1. r \in ReturnRequests
        BY <3>2, KindOfStep
      <4>2. req[r].loan \in LoansOf(req[r].item)
        BY <3>2, <4>1 DEF WorkflowInv, RequestInv, ReturnInv, LoansOf
      <4> QED
        BY <3>2, <4>1, <4>2 DEF Concerns
    <3> QED
      BY <1>4, <3>1, <3>2 DEF AtItem
  <2> QED
    BY <2>1, <2>2, <2>3
<1>5. pc[r] \in Steps /\ pc[r] \notin {"new", "identity", "commit", "done"} /\ pc[r] # "user"
  BY <1>1, BlockedBy, KindOfStep
<1> QED
  BY <1>1, <1>2, <1>3, <1>4, <1>5 DEF Steps, Unimpeded, AtItem

\* A statement's own errors are refusals (checkout.go:569-598).
LEMMA ProceedFails ==
    ASSUME TypeOK, NEW r \in Requests, Proceed(r), answer[r] # "internal_error",
           answer'[r] = "internal_error"
    PROVE  DeadlockAbort(r)
<1>1. CASE \/ GetCheckoutBorrowerForShare(r) \/ GetItemForStatusUpdate(r)
           \/ CreateCheckout(r) \/ SetItemCheckedOut(r)
  BY <1>1 DEF TypeOK, GetCheckoutBorrowerForShare, GetItemForStatusUpdate, CreateCheckout,
     SetItemCheckedOut, Statement, Finish, BorrowerOutcome, ItemOutcome, InsertOutcome,
     LendStatusOutcome
<1>2. CASE \/ GetCheckoutForUpdate(r) \/ GetLoanItemForStatusUpdate(r)
           \/ ReturnCheckout(r) \/ SetItemAvailable(r)
  BY <1>2 DEF TypeOK, GetCheckoutForUpdate, GetLoanItemForStatusUpdate, ReturnCheckout,
     SetItemAvailable, Statement, Finish, LoanOutcome, LoanItemOutcome, SettleOutcome
<1>3. CASE DeleteItem(r) \/ ProbeReferences(r) \/ GetUserForUpdate(r)
  BY <1>3 DEF TypeOK, DeleteItem, ProbeReferences, GetUserForUpdate, Statement, Finish,
     RemoveOutcome
<1>4. CASE ReplaceIdentity(r)
  BY <1>4 DEF TypeOK, ReplaceIdentity, Statement, Finish
<1>5. CASE Commit(r)
  BY <1>5 DEF TypeOK, Commit, Finish, GrantOf
<1> QED
  BY <1>1, <1>2, <1>3, <1>4, <1>5 DEF Proceed

\* Faults are only counted up.
LEMMA FaultsGrow ==
    ASSUME TypeOK, NEW r \in Requests, Step(r)
    PROVE  /\ faults \in Int /\ faults' \in Int /\ faults >= 0 /\ faults' >= faults
           /\ Fail(r) => faults' > 0
<1>1. faults \in Int /\ faults >= 0
  BY MaxFaultsType DEF TypeOK
<1>2. CASE Arrive(r) \/ QueueUp(r) \/ Proceed(r)
  <2>1. faults' = faults
    BY <1>2 DEF Arrive, ArriveCheckout, ArriveReturn, ArriveDelete, ArriveActivation, Submit,
       QueueUp, Proceed, GetCheckoutBorrowerForShare, GetItemForStatusUpdate, CreateCheckout,
       SetItemCheckedOut, GetCheckoutForUpdate, GetLoanItemForStatusUpdate, ReturnCheckout,
       SetItemAvailable, DeleteItem, ProbeReferences, GetUserForUpdate, ReplaceIdentity,
       Commit, DeadlockAbort, Statement
  <2>2. ~Fail(r) \/ faults' = faults + 1
    BY DEF Fail, Abort, CommitUnacknowledged
  <2> QED
    BY <1>1, <2>1, <2>2
<1>3. CASE Fail(r)
  BY <1>1, <1>3 DEF Fail, Abort, CommitUnacknowledged
<1> QED
  BY <1>2, <1>3 DEF Step

\* What a request asks for stays what it was.
LEMMA InputKept ==
    ASSUME WorkflowInv, NEW p \in Requests, Step(p), NEW r \in Requests, pc[r] # "new"
    PROVE  /\ pc'[r] # "new"
           /\ r \in ReturnRequests => req'[r].loan = req[r].loan
           /\ r \in CheckoutRequests \cup DeleteRequests => req'[r].item = req[r].item
           /\ r \in ActivationRequests => req'[r].user = req[r].user
<1>1. TypeOK /\ req[r] \in Input
  BY KindOfStep DEF WorkflowInv
<1>2. CASE r # p
  BY <1>1, <1>2, OthersStand
<1>3. CASE r = p
  <2>1. ~Arrive(p)
    BY <1>3 DEF Arrive, ArriveCheckout, ArriveReturn, ArriveDelete, ArriveActivation, Submit
  <2>2. CASE GetCheckoutForUpdate(p)
    BY <1>1, <1>3, <2>2, KindsDisjoint DEF GetCheckoutForUpdate, Statement, Finish, TypeOK, Input
  <2>3. CASE DeleteItem(p)
    BY <1>1, <1>3, <2>3, KindsDisjoint DEF DeleteItem, Statement, Finish, TypeOK, Input
  <2>4. CASE \/ GetCheckoutBorrowerForShare(p) \/ GetItemForStatusUpdate(p)
             \/ CreateCheckout(p) \/ SetItemCheckedOut(p)
    BY <1>1, <1>3, <2>4 DEF TypeOK, GetCheckoutBorrowerForShare, GetItemForStatusUpdate,
       CreateCheckout, SetItemCheckedOut, Statement, Finish
  <2>5. CASE GetLoanItemForStatusUpdate(p) \/ ReturnCheckout(p) \/ SetItemAvailable(p)
    BY <1>1, <1>3, <2>5 DEF TypeOK, GetLoanItemForStatusUpdate, ReturnCheckout,
       SetItemAvailable, Statement, Finish
  <2>6. CASE ProbeReferences(p) \/ GetUserForUpdate(p) \/ ReplaceIdentity(p)
    BY <1>1, <1>3, <2>6 DEF TypeOK, ProbeReferences, GetUserForUpdate, ReplaceIdentity,
       Statement, Finish
  <2>7. CASE Commit(p) \/ DeadlockAbort(p) \/ Fail(p)
    BY <1>1, <1>3, <2>7 DEF TypeOK, Commit, DeadlockAbort, Fail, Abort,
       CommitUnacknowledged, Finish
  <2>8. CASE QueueUp(p)
    BY <1>3, <2>8 DEF QueueUp
  <2> QED
    BY <2>1, <2>2, <2>3, <2>4, <2>5, <2>6, <2>7, <2>8 DEF Step, Proceed
<1> QED
  BY <1>2, <1>3

\* So it stays concerned with its item, and an undone change stays beside another.
LEMMA ConcernsKept ==
    ASSUME WorkflowInv, NEW p \in Requests, Step(p), NEW r \in Requests, NEW i \in Items,
           Concerns(r, i)
    PROVE  Concerns(r, i)'
<1>1. \A c \in LoansOf(i) : c \in LoansOf(i)'
  BY RowsKept DEF LoansOf, KeepsLoan
<1> QED
  BY <1>1, InputKept DEF Concerns

LEMMA UndoneKept ==
    ASSUME WorkflowInv, RecordInv, NEW p \in Requests, Step(p), ChangeUndoneBesideAnother
    PROVE  ChangeUndoneBesideAnother'
<1>1. PICK a \in ActivationRequests, b \in ActivationRequests :
        /\ a # b /\ answer[a] = "not_synchronized"
        /\ pc[b] # "new" /\ req[b].user = req[a].user
  BY DEF ChangeUndoneBesideAnother
<1>2. a \in Requests /\ b \in Requests /\ TruthInv(a)
  BY DEF Requests, RecordInv
<1>3. pc[a] # "new"
  BY <1>1, <1>2 DEF TruthInv
<1>4. answer'[a] = "not_synchronized"
  <2>1. CASE a # p
    BY <1>1, <1>2, <2>1, OthersStand DEF WorkflowInv
  <2>2. CASE a = p
    <3>1. QueueUp(p)
      BY <1>1, <1>2, <2>2, AnsweredStops
    <3> QED
      BY <1>1, <2>2, <3>1 DEF QueueUp
  <2> QED
    BY <2>1, <2>2
<1>5. req'[a].user = req[a].user /\ req'[b].user = req[b].user /\ pc'[b] # "new"
  BY <1>1, <1>2, <1>3, InputKept
<1> QED
  BY <1>1, <1>4, <1>5 DEF ChangeUndoneBesideAnother

\* Why a request may be told of an internal error.
Excused(r) ==
    \/ faults > 0
    \/ ChangeUndoneBesideAnother
    \/ \E i \in Items : Concerns(r, i) /\ Contested(i)

LEMMA ExcuseKept ==
    ASSUME WorkflowInv, RecordInv, NEW p \in Requests, Step(p), NEW r \in Requests, Excused(r)
    PROVE  Excused(r)'
<1>1. CASE faults > 0
  <2>1. faults' > 0
    BY <1>1, FaultsGrow DEF WorkflowInv
  <2> QED
    BY <2>1 DEF Excused
<1>2. CASE ChangeUndoneBesideAnother
  BY <1>2, UndoneKept DEF Excused
<1>3. CASE \E i \in Items : Concerns(r, i) /\ Contested(i)
  <2>1. PICK i \in Items, t \in ReturnRequests, d \in DeleteRequests :
          Concerns(r, i) /\ Concerns(t, i) /\ Concerns(d, i)
    BY <1>3 DEF Contested
  <2>2. Concerns(r, i)' /\ Concerns(t, i)' /\ Concerns(d, i)'
    BY <2>1, ConcernsKept DEF Requests
  <2>3. Contested(i)'
    BY <2>2 DEF Contested
  <2> QED
    BY <2>2, <2>3 DEF Excused
<1> QED
  BY <1>1, <1>2, <1>3 DEF Excused

\* Without a fault and an undone change beside another, no change was undone with
\* its successor still in line.
LEMMA WithoutUndoneCalm ==
    ASSUME WorkflowInv, RecordInv, QueueInv,
           \A q \in Requests : answer[q] = "internal_error" => Excused(q),
           ~(faults > 0), ~ChangeUndoneBesideAnother
    PROVE  Calm
<1> SUFFICES ASSUME NEW r \in Requests \ ActivationRequests,
                    NEW a \in behind[r] \cap ActivationRequests,
                    Undone(tupleLock[a])
             PROVE  FALSE
  BY DEF Calm, QueueInv, LineInv
<1>1. a \in Requests /\ a \in Blockers(r)
  BY DEF Requests, Blockers
<1>2. tupleLock[a] # None /\ LineInv(a)
  BY <1>1 DEF QueueInv, LineInv
<1>3. pc[a] = "user" /\ tupleLock[a] = req[a].user
  BY <1>1, <1>2, UserWanted DEF LineInv
<1>4. PICK b \in ActivationRequests :
        answer[b] \in {"not_synchronized", "internal_error"} /\ req[b].user = req[a].user
  BY <1>3 DEF Undone
<1>5. b \in Requests /\ b \notin CheckoutRequests \cup ReturnRequests \cup DeleteRequests
  BY KindsDisjoint DEF Requests
<1>6. answer[b] = "not_synchronized"
  <2>1. \A i \in Items : ~Concerns(b, i)
    BY <1>5 DEF Concerns
  <2> QED
    BY <1>4, <1>5, <2>1 DEF Excused
<1>7. a # b
  BY <1>1, <1>3, <1>6 DEF RecordInv, TruthInv
<1> QED
  BY <1>3, <1>4, <1>6, <1>7 DEF ChangeUndoneBesideAnother

LEMMA FailsStep ==
    WorkflowInv /\ RecordInv /\ QueueInv
    /\ (\A r \in Requests : answer[r] = "internal_error" => Excused(r)) /\ [Next]_vars
        => \A r \in Requests : answer'[r] = "internal_error" => Excused(r)'
<1> SUFFICES ASSUME WorkflowInv, RecordInv, QueueInv,
                    \A r \in Requests : answer[r] = "internal_error" => Excused(r),
                    [Next]_vars, NEW s \in Requests, answer'[s] = "internal_error"
             PROVE  Excused(s)'
  OBVIOUS
<1>1. TypeOK
  BY DEF WorkflowInv
<1>2. CASE UNCHANGED vars
  <2>1. Excused(s)
    BY <1>2 DEF vars
  <2> QED
    BY <1>2, <2>1 DEF vars, Excused, Contested, Concerns, ChangeUndoneBesideAnother, LoansOf
<1>3. ASSUME NEW r \in Requests, Step(r) PROVE Excused(s)'
  <2>1. CASE answer[s] = "internal_error"
    BY <1>3, <2>1, ExcuseKept
  <2>2. CASE answer[s] # "internal_error"
    <3>1. s = r
      BY <1>1, <1>3, <2>2, OthersStand
    <3>2. CASE Arrive(r)
      <4>1. answer'[r] \in {answer[r], "forbidden", "account_inactive"}
        BY <1>1, <3>2 DEF TypeOK, Arrive, ArriveCheckout, ArriveReturn, ArriveDelete,
           ArriveActivation, Submit
      <4> QED
        BY <2>2, <3>1, <4>1
    <3>3. CASE QueueUp(r)
      BY <2>2, <3>1, <3>3 DEF QueueUp
    <3>4. CASE Proceed(r)
      <4>1. pc[r] \notin {"new", "done"} /\ Deadlocked(r)
        BY <1>1, <2>2, <3>1, <3>4, ProceedFails DEF DeadlockAbort
      <4>2. Excused(r)
        <5>1. CASE faults > 0 \/ ChangeUndoneBesideAnother
          BY <5>1 DEF Excused
        <5>2. CASE ~(faults > 0) /\ ~ChangeUndoneBesideAnother
          BY <4>1, <5>2, WithoutUndoneCalm, AbortedContested DEF Excused
        <5> QED
          BY <5>1, <5>2
      <4> QED
        BY <1>3, <3>1, <4>2, ExcuseKept
    <3>5. CASE Fail(r)
      <4>1. faults' > 0
        BY <1>1, <1>3, <3>5, FaultsGrow
      <4> QED
        BY <4>1 DEF Excused
    <3> QED
      BY <1>3, <3>2, <3>3, <3>4, <3>5 DEF Step
  <2> QED
    BY <2>1, <2>2
<1> QED
  BY <1>2, <1>3 DEF Next, Terminated, Step

\* In any instance a request is answered with an internal error only if something
\* failed, if a return and a deletion were asked for the item it is about, or if an
\* account change was undone beside another of the same account.
THEOREM FailsOnlyWithFault == Spec => []FailsOnlyByFault
<1> DEFINE Inv == \A r \in Requests : answer[r] = "internal_error" => Excused(r)
<1>1. Init => Inv
  BY DEF Init
<1>2. WorkflowInv /\ RecordInv /\ QueueInv /\ Inv /\ [Next]_vars => Inv'
  BY FailsStep
<1>3. Inv => FailsOnlyByFault
  BY DEF FailsOnlyByFault, Excused, Contested
<1> HIDE DEF Inv
<1> QED
  BY <1>1, <1>2, <1>3, WorkflowInvariant, RecordInvariant, QueueInvariant, PTL DEF Spec

\* Where no item is deleted and accounts are changed one at a time, an
\* administrator can return any active checkout: only a fault makes the answer an
\* internal error.
THEOREM AdministratorReturnsWithoutDeletions ==
    ASSUME DeleteRequests = {}, \A a, b \in ActivationRequests : a = b
    PROVE  Spec => []AdministratorReturnsAnyActiveCheckout
<1>1. FailsOnlyByFault => AdministratorReturnsAnyActiveCheckout
  BY DEF FailsOnlyByFault, ChangeUndoneBesideAnother, AdministratorReturnsAnyActiveCheckout,
     Requests
<1> QED
  BY <1>1, FailsOnlyWithFault, PTL

===============================================================================
