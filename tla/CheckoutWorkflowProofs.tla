------------------------ MODULE CheckoutWorkflowProofs ------------------------
(***************************************************************************)
(* Theorems about CheckoutWorkflow, for any number of users, items and     *)
(* requests.  WorkflowInv is inductive; every other result follows from it *)
(* or is proved beside it.                                                 *)
(***************************************************************************)
EXTENDS CheckoutWorkflow, SequenceTheorems, TLAPS

-------------------------------------------------------------------------------
(* The initial state. *)

\* Nothing is lent, locked or answered when the service starts.
LEMMA InitInv == Init => WorkflowInv
<1> SUFFICES ASSUME Init PROVE WorkflowInv
  OBVIOUS
<1> USE NoneIsNoRow, MaxFaultsType
<1>1. TypeOK
  BY DEF Init, TypeOK, LinesOK, Statuses, Steps, Answers
<1>2. LockInv
  BY DEF Init, LockInv
<1>3. \A r \in Requests : RequestInv(r)
  BY DEF Init, RequestInv, CheckoutInv, ReturnInv, DeleteInv, ActivationInv, Requests
<1>4. StatusAgrees
  BY DEF Init, StatusAgrees, AtMostOneOpenLoan, CheckedOutIffOpenLoan,
         DeletedNeverLent, OpenLoans, LoansOf
<1> QED
  BY <1>1, <1>2, <1>3, <1>4 DEF WorkflowInv

-------------------------------------------------------------------------------
(* The two ways locks change. *)

\* A statement that waited for its blockers may take its locks.
LEMMA AcquireLocks ==
    ASSUME TypeOK, LockInv, NEW r \in Requests, Blockers(r) = {}, Acquire(r)
    PROVE  LockInv'
<1> SUFFICES ASSUME NEW s \in Requests, NEW t \in Requests, s # t
             PROVE  updateLocks'[s] \cap (updateLocks'[t] \cup shareLocks'[t]) = {}
  BY DEF LockInv
<1> DEFINE U == WantsUpdate(r)
           S == WantsShare(r)
<1>1. \A q \in Requests :
         /\ updateLocks'[q] = IF q = r THEN updateLocks[q] \cup U ELSE updateLocks[q]
         /\ shareLocks'[q] = IF q = r THEN shareLocks[q] \cup S ELSE shareLocks[q]
  BY DEF Acquire, TypeOK
<1>2. \A q \in Requests \ {r} :
         U \cap (updateLocks[q] \cup shareLocks[q]) = {} /\ S \cap updateLocks[q] = {}
  BY DEF Blockers, Holders, ContestedRows
<1>3. \A p, q \in Requests :
         p # q => updateLocks[p] \cap (updateLocks[q] \cup shareLocks[q]) = {}
  BY DEF LockInv
<1> HIDE DEF U, S
<1>4. CASE s = r
  BY <1>1, <1>2, <1>3, <1>4
<1>5. CASE t = r
  BY <1>1, <1>2, <1>3, <1>5
<1>6. CASE s # r /\ t # r
  BY <1>1, <1>3, <1>6
<1> QED
  BY <1>4, <1>5, <1>6

\* Ending a transaction only releases locks.
LEMMA FinishLocks ==
    ASSUME TypeOK, LockInv, NEW r \in Requests, NEW a, Finish(r, a)
    PROVE  LockInv'
BY DEF Finish, LockInv, TypeOK

-------------------------------------------------------------------------------
(* The lines at the rows. *)

\* Whoever leaves, the lines remain lines.
LEMMA LinesLeft ==
    ASSUME LinesOK, NEW gone, Leave(gone)
    PROVE  LinesOK'
BY DEF LinesOK, Leave

\* A statement that takes its place in a line changes nothing else.
LEMMA QueueUpInv ==
    ASSUME WorkflowInv, NEW r \in Requests, QueueUp(r)
    PROVE  WorkflowInv'
<1>1. UNCHANGED <<active, status, checkouts, history, audit,
                  pc, req, answer, updateLocks, shareLocks, faults>>
  BY DEF QueueUp
<1>2. LinesOK'
  <2>1. PICK row \in TableRows :
          \/ tupleLock' = [tupleLock EXCEPT ![r] = row] /\ UNCHANGED behind
          \/ behind' = [behind EXCEPT ![r] = Ahead(r, row)] /\ UNCHANGED tupleLock
    BY DEF QueueUp
  <2>2. Ahead(r, row) \subseteq Requests
    BY DEF Ahead
  <2> QED
    BY <2>1, <2>2 DEF WorkflowInv, TypeOK, LinesOK
<1>3. TypeOK' /\ LockInv' /\ StatusAgrees'
  BY <1>1, <1>2 DEF WorkflowInv, TypeOK, LockInv, StatusAgrees, AtMostOneOpenLoan,
     CheckedOutIffOpenLoan, DeletedNeverLent, OpenLoans, LoansOf
<1>4. \A s \in Requests : RequestInv(s)'
  BY <1>1 DEF WorkflowInv, RequestInv, CheckoutInv, ReturnInv, DeleteInv, ActivationInv, LoansOf
<1> QED
  BY <1>3, <1>4 DEF WorkflowInv

-------------------------------------------------------------------------------
(* What one request's step leaves to the others. *)

\* Which rows a statement asks for.
LEMMA WantedRows ==
    ASSUME TypeOK, NEW r \in Requests, RequestInv(r)
    PROVE  WantsUpdate(r) \subseteq Rows /\ WantsShare(r) \subseteq Rows
<1>1. pc[r] # "new" => req[r] \in Input
  BY DEF RequestInv
<1>2. CASE r \in CheckoutRequests
  BY <1>1, <1>2 DEF RequestInv, CheckoutInv, WantsUpdate, WantsShare, Rows, Input
<1>3. CASE r \in ReturnRequests
  BY <1>1, <1>3 DEF RequestInv, ReturnInv, WantsUpdate, WantsShare, Rows, Input
<1>4. CASE r \in DeleteRequests
  BY <1>1, <1>4 DEF RequestInv, DeleteInv, WantsUpdate, WantsShare, Rows, Input
<1>5. CASE r \in ActivationRequests
  BY <1>1, <1>5 DEF RequestInv, ActivationInv, WantsUpdate, WantsShare, Rows, Input
<1> QED
  BY <1>2, <1>3, <1>4, <1>5 DEF Requests

\* A request that ends keeps nothing that another could invalidate.
LEMMA FinishedRequest ==
    ASSUME TypeOK, NEW r \in Requests, RequestInv(r), NEW a, Finish(r, a),
           pc[r] # "new", req'[r] = req[r]
    PROVE  RequestInv(r)'
<1>1. pc'[r] = "done" /\ req'[r] \in Input
  BY DEF Finish, TypeOK, RequestInv
<1> QED
  BY <1>1 DEF RequestInv, CheckoutInv, ReturnInv, DeleteInv, ActivationInv

\* The other requests keep what they know when the database does not change.
LEMMA OthersKeep ==
    ASSUME NEW s \in Requests, RequestInv(s), UNCHANGED database,
           pc'[s] = pc[s], req'[s] = req[s],
           updateLocks'[s] = updateLocks[s], shareLocks'[s] = shareLocks[s]
    PROVE  RequestInv(s)'
BY DEF RequestInv, CheckoutInv, ReturnInv, DeleteInv, ActivationInv, LoansOf, database

\* A statement preserves the invariant if it does so for its own request.
LEMMA StatementInv ==
    ASSUME WorkflowInv, NEW r \in Requests, NEW at,
           NEW outcome \in Answers \cup {"ok"}, NEW next \in Steps,
           Statement(r, at, outcome, next),
           req' \in [Requests -> Input \cup {None}],
           \A s \in Requests \ {r} : req'[s] = req[s],
           RequestInv(r)'
    PROVE  WorkflowInv'
<1>1. TypeOK /\ LockInv /\ StatusAgrees /\ \A s \in Requests : RequestInv(s)
  BY DEF WorkflowInv
<1>2. UNCHANGED database /\ UNCHANGED faults /\ Blockers(r) = {} /\ LinesOK'
  BY LinesLeft DEF Statement, database, WorkflowInv, TypeOK
<1>3. CASE outcome = "ok"
  <2>1. Acquire(r) /\ pc' = [pc EXCEPT ![r] = next] /\ UNCHANGED answer
    BY <1>3 DEF Statement
  <2>2. TypeOK'
    BY <1>1, <1>2, <2>1, WantedRows DEF TypeOK, Acquire, database
  <2>3. LockInv'
    BY <1>1, <1>2, <2>1, AcquireLocks
  <2>4. \A s \in Requests \ {r} : RequestInv(s)'
    BY <1>1, <1>2, <2>1, OthersKeep DEF Acquire, TypeOK
  <2> QED
    BY <1>1, <1>2, <2>2, <2>3, <2>4
    DEF WorkflowInv, StatusAgrees, AtMostOneOpenLoan, CheckedOutIffOpenLoan,
        DeletedNeverLent, OpenLoans, LoansOf, database
<1>4. CASE outcome # "ok"
  <2>1. Finish(r, outcome)
    BY <1>4 DEF Statement
  <2>2. TypeOK'
    BY <1>1, <1>2, <1>4, <2>1 DEF TypeOK, Finish, Steps, database
  <2>3. LockInv'
    BY <1>1, <2>1, FinishLocks
  <2>4. \A s \in Requests \ {r} : RequestInv(s)'
    BY <1>1, <1>2, <2>1, OthersKeep DEF Finish, TypeOK
  <2> QED
    BY <1>1, <1>2, <2>2, <2>3, <2>4
    DEF WorkflowInv, StatusAgrees, AtMostOneOpenLoan, CheckedOutIffOpenLoan,
        DeletedNeverLent, OpenLoans, LoansOf, database
<1> QED
  BY <1>3, <1>4

-------------------------------------------------------------------------------
(* The statements. *)

\* The borrower is known, active and locked.
LEMMA BorrowerStep ==
    ASSUME WorkflowInv, NEW r \in Requests, GetCheckoutBorrowerForShare(r)
    PROVE  WorkflowInv'
<1>1. /\ r \in CheckoutRequests /\ pc[r] = "borrower" /\ req' = req /\ req[r] \in Input
      /\ Statement(r, "borrower", BorrowerOutcome(r), "item")
      /\ TypeOK /\ RequestInv(r) /\ CheckoutInv(r)
  BY DEF GetCheckoutBorrowerForShare, Statement, WorkflowInv, RequestInv
<1>2. BorrowerOutcome(r) \in Answers \cup {"ok"}
  BY DEF BorrowerOutcome, Answers, Refusals
<1>3. RequestInv(r)'
  <2>1. CASE BorrowerOutcome(r) = "ok"
    <3>1. /\ pc'[r] = "item"
          /\ updateLocks'[r] = updateLocks[r] \cup WantsUpdate(r)
          /\ shareLocks'[r] = shareLocks[r] \cup WantsShare(r)
          /\ UNCHANGED database
      BY <1>1, <2>1 DEF Statement, Acquire, TypeOK, database
    <3> QED
      BY <1>1, <2>1, <3>1, KindsDisjoint
      DEF RequestInv, CheckoutInv, BorrowerOutcome, WantsUpdate, WantsShare, Input, database
  <2>2. CASE BorrowerOutcome(r) # "ok"
    BY <1>1, <2>2, FinishedRequest DEF Statement
  <2> QED
    BY <2>1, <2>2
<1> QED
  BY <1>1, <1>2, <1>3, StatementInv DEF Steps, TypeOK

\* The item is available and locked.
LEMMA ItemStep ==
    ASSUME WorkflowInv, NEW r \in Requests, GetItemForStatusUpdate(r)
    PROVE  WorkflowInv'
<1>1. /\ r \in CheckoutRequests /\ pc[r] = "item" /\ req' = req /\ req[r] \in Input
      /\ Statement(r, "item", ItemOutcome(r), "insert")
      /\ TypeOK /\ RequestInv(r) /\ CheckoutInv(r)
  BY DEF GetItemForStatusUpdate, Statement, WorkflowInv, RequestInv
<1>2. ItemOutcome(r) \in Answers \cup {"ok"}
  BY DEF ItemOutcome, Answers, Refusals
<1>3. RequestInv(r)'
  <2>1. CASE ItemOutcome(r) = "ok"
    <3>1. /\ pc'[r] = "insert"
          /\ updateLocks'[r] = updateLocks[r] \cup WantsUpdate(r)
          /\ shareLocks'[r] = shareLocks[r] \cup WantsShare(r)
          /\ UNCHANGED database
      BY <1>1, <2>1 DEF Statement, Acquire, TypeOK, database
    <3> QED
      BY <1>1, <2>1, <3>1, KindsDisjoint
      DEF RequestInv, CheckoutInv, ItemOutcome, WantsUpdate, WantsShare, Input, database
  <2>2. CASE ItemOutcome(r) # "ok"
    BY <1>1, <2>2, FinishedRequest DEF Statement
  <2> QED
    BY <2>1, <2>2
<1> QED
  BY <1>1, <1>2, <1>3, StatementInv DEF Steps, TypeOK

\* The new row is not yet visible to others.
LEMMA InsertStep ==
    ASSUME WorkflowInv, NEW r \in Requests, CreateCheckout(r)
    PROVE  WorkflowInv'
<1>1. /\ r \in CheckoutRequests /\ pc[r] = "insert" /\ req' = req /\ req[r] \in Input
      /\ Statement(r, "insert", InsertOutcome(r), "status")
      /\ TypeOK /\ RequestInv(r) /\ CheckoutInv(r)
  BY DEF CreateCheckout, Statement, WorkflowInv, RequestInv
<1>2. InsertOutcome(r) \in Answers \cup {"ok"}
  BY DEF InsertOutcome, Answers, Refusals
<1>3. RequestInv(r)'
  <2>1. CASE InsertOutcome(r) = "ok"
    <3>1. /\ pc'[r] = "status"
          /\ updateLocks'[r] = updateLocks[r] \cup WantsUpdate(r)
          /\ shareLocks'[r] = shareLocks[r] \cup WantsShare(r)
          /\ UNCHANGED database
      BY <1>1, <2>1 DEF Statement, Acquire, TypeOK, database
    <3> QED
      BY <1>1, <2>1, <3>1, KindsDisjoint
      DEF RequestInv, CheckoutInv, InsertOutcome, WantsUpdate, WantsShare, Input, database
  <2>2. CASE InsertOutcome(r) # "ok"
    BY <1>1, <2>2, FinishedRequest DEF Statement
  <2> QED
    BY <2>1, <2>2
<1> QED
  BY <1>1, <1>2, <1>3, StatementInv DEF Steps, TypeOK

\* The item is still available when its status is set.
LEMMA LendStatusStep ==
    ASSUME WorkflowInv, NEW r \in Requests, SetItemCheckedOut(r)
    PROVE  WorkflowInv'
<1>1. /\ r \in CheckoutRequests /\ pc[r] = "status" /\ req' = req /\ req[r] \in Input
      /\ Statement(r, "status", LendStatusOutcome(r), "commit")
      /\ TypeOK /\ RequestInv(r) /\ CheckoutInv(r)
  BY DEF SetItemCheckedOut, Statement, WorkflowInv, RequestInv
<1>2. LendStatusOutcome(r) \in Answers \cup {"ok"}
  BY DEF LendStatusOutcome, Answers, Refusals
<1>3. RequestInv(r)'
  <2>1. CASE LendStatusOutcome(r) = "ok"
    <3>1. /\ pc'[r] = "commit"
          /\ updateLocks'[r] = updateLocks[r] \cup WantsUpdate(r)
          /\ shareLocks'[r] = shareLocks[r] \cup WantsShare(r)
          /\ UNCHANGED database
      BY <1>1, <2>1 DEF Statement, Acquire, TypeOK, database
    <3> QED
      BY <1>1, <2>1, <3>1, KindsDisjoint
      DEF RequestInv, CheckoutInv, LendStatusOutcome, WantsUpdate, WantsShare, Input, database
  <2>2. CASE LendStatusOutcome(r) # "ok"
    BY <1>1, <2>2, FinishedRequest DEF Statement
  <2> QED
    BY <2>1, <2>2
<1> QED
  BY <1>1, <1>2, <1>3, StatementInv DEF Steps, TypeOK

\* The item of the loan is locked after the loan.
LEMMA LoanItemStep ==
    ASSUME WorkflowInv, NEW r \in Requests, GetLoanItemForStatusUpdate(r)
    PROVE  WorkflowInv'
<1>1. /\ r \in ReturnRequests /\ pc[r] = "loan_item" /\ req' = req /\ req[r] \in Input
      /\ Statement(r, "loan_item", LoanItemOutcome(r), "settle")
      /\ TypeOK /\ RequestInv(r) /\ ReturnInv(r)
  BY DEF GetLoanItemForStatusUpdate, Statement, WorkflowInv, RequestInv
<1>2. LoanItemOutcome(r) \in Answers \cup {"ok"}
  BY DEF LoanItemOutcome, Answers, Refusals
<1>3. RequestInv(r)'
  <2>1. CASE LoanItemOutcome(r) = "ok"
    <3>1. /\ pc'[r] = "settle"
          /\ updateLocks'[r] = updateLocks[r] \cup WantsUpdate(r)
          /\ shareLocks'[r] = shareLocks[r] \cup WantsShare(r)
          /\ UNCHANGED database
      BY <1>1, <2>1 DEF Statement, Acquire, TypeOK, database
    <3> QED
      BY <1>1, <2>1, <3>1, KindsDisjoint
      DEF RequestInv, ReturnInv, LoanItemOutcome, WantsUpdate, WantsShare, Input, database
  <2>2. CASE LoanItemOutcome(r) # "ok"
    BY <1>1, <2>2, FinishedRequest DEF Statement
  <2> QED
    BY <2>1, <2>2
<1> QED
  BY <1>1, <1>2, <1>3, StatementInv DEF Steps, TypeOK

\* The loan is still open when it is ended.
LEMMA SettleStep ==
    ASSUME WorkflowInv, NEW r \in Requests, ReturnCheckout(r)
    PROVE  WorkflowInv'
<1>1. /\ r \in ReturnRequests /\ pc[r] = "settle" /\ req' = req /\ req[r] \in Input
      /\ Statement(r, "settle", SettleOutcome(r), "restore")
      /\ TypeOK /\ RequestInv(r) /\ ReturnInv(r)
  BY DEF ReturnCheckout, Statement, WorkflowInv, RequestInv
<1>2. SettleOutcome(r) \in Answers \cup {"ok"}
  BY DEF SettleOutcome, Answers, Refusals
<1>3. RequestInv(r)'
  <2>1. CASE SettleOutcome(r) = "ok"
    <3>1. /\ pc'[r] = "restore"
          /\ updateLocks'[r] = updateLocks[r] \cup WantsUpdate(r)
          /\ shareLocks'[r] = shareLocks[r] \cup WantsShare(r)
          /\ UNCHANGED database
      BY <1>1, <2>1 DEF Statement, Acquire, TypeOK, database
    <3> QED
      BY <1>1, <2>1, <3>1, KindsDisjoint
      DEF RequestInv, ReturnInv, SettleOutcome, WantsUpdate, WantsShare, Input, database
  <2>2. CASE SettleOutcome(r) # "ok"
    BY <1>1, <2>2, FinishedRequest DEF Statement
  <2> QED
    BY <2>1, <2>2
<1> QED
  BY <1>1, <1>2, <1>3, StatementInv DEF Steps, TypeOK

\* The item is still checked out when its status is restored.
LEMMA RestoreStep ==
    ASSUME WorkflowInv, NEW r \in Requests, SetItemAvailable(r)
    PROVE  WorkflowInv'
<1>1. /\ r \in ReturnRequests /\ pc[r] = "restore" /\ req' = req /\ req[r] \in Input
      /\ Statement(r, "restore", LoanItemOutcome(r), "commit")
      /\ TypeOK /\ RequestInv(r) /\ ReturnInv(r)
  BY DEF SetItemAvailable, Statement, WorkflowInv, RequestInv
<1>2. LoanItemOutcome(r) \in Answers \cup {"ok"}
  BY DEF LoanItemOutcome, Answers, Refusals
<1>3. RequestInv(r)'
  <2>1. CASE LoanItemOutcome(r) = "ok"
    <3>1. /\ pc'[r] = "commit"
          /\ updateLocks'[r] = updateLocks[r] \cup WantsUpdate(r)
          /\ shareLocks'[r] = shareLocks[r] \cup WantsShare(r)
          /\ UNCHANGED database
      BY <1>1, <2>1 DEF Statement, Acquire, TypeOK, database
    <3> QED
      BY <1>1, <2>1, <3>1, KindsDisjoint
      DEF RequestInv, ReturnInv, LoanItemOutcome, WantsUpdate, WantsShare, Input, database
  <2>2. CASE LoanItemOutcome(r) # "ok"
    BY <1>1, <2>2, FinishedRequest DEF Statement
  <2> QED
    BY <2>1, <2>2
<1> QED
  BY <1>1, <1>2, <1>3, StatementInv DEF Steps, TypeOK

\* The loan is open, of this item, and locked.
LEMMA LoanStep ==
    ASSUME WorkflowInv, NEW r \in Requests, GetCheckoutForUpdate(r)
    PROVE  WorkflowInv'
<1>1. /\ r \in ReturnRequests /\ pc[r] = "loan" /\ req[r] \in Input
      /\ req[r].loan \in CheckoutRequests
      /\ Statement(r, "loan", LoanOutcome(r), "loan_item")
      /\ TypeOK /\ RequestInv(r) /\ ReturnInv(r)
  BY DEF GetCheckoutForUpdate, Statement, WorkflowInv, RequestInv, ReturnInv
<1>2. LoanOutcome(r) \in Answers \cup {"ok"}
  BY DEF LoanOutcome, Answers, Refusals
<1>3. CASE LoanOutcome(r) = "ok"
  <2>1. /\ checkouts[req[r].loan] \in Loan
        /\ checkouts[req[r].loan] # None
        /\ checkouts[req[r].loan].returnedTo = None
    BY <1>1, <1>3 DEF LoanOutcome, TypeOK
  <2>2. req' = [req EXCEPT ![r].item = checkouts[req[r].loan].item]
    BY <1>3 DEF GetCheckoutForUpdate
  <2>3. /\ req' \in [Requests -> Input \cup {None}]
        /\ \A s \in Requests \ {r} : req'[s] = req[s]
        /\ req'[r] \in Input
        /\ req'[r].item = checkouts[req[r].loan].item
        /\ req'[r].loan = req[r].loan
    BY <1>1, <2>1, <2>2 DEF TypeOK, Input, Loan
  <2>4. /\ pc'[r] = "loan_item"
        /\ req[r].loan \in updateLocks'[r]
        /\ UNCHANGED database
    BY <1>1, <1>3 DEF Statement, Acquire, TypeOK, WantsUpdate, database
  <2>5. RequestInv(r)'
    BY <1>1, <2>1, <2>3, <2>4, KindsDisjoint DEF RequestInv, ReturnInv, Loan, database
  <2> QED
    BY <1>1, <1>2, <2>3, <2>5, StatementInv DEF Steps
<1>4. CASE LoanOutcome(r) # "ok"
  <2>1. req' = req /\ Finish(r, LoanOutcome(r))
    BY <1>1, <1>4 DEF GetCheckoutForUpdate, Statement
  <2>2. RequestInv(r)'
    BY <1>1, <2>1, FinishedRequest
  <2> QED
    BY <1>1, <1>2, <2>1, <2>2, StatementInv DEF Steps, TypeOK
<1> QED
  BY <1>3, <1>4

\* The item is locked; a checkout of it, if there is one, is probed next.
LEMMA RemoveStep ==
    ASSUME WorkflowInv, NEW r \in Requests, DeleteItem(r)
    PROVE  WorkflowInv'
<1>1. /\ r \in DeleteRequests /\ pc[r] = "remove" /\ req[r] \in Input
      /\ req[r].item \in Items
      /\ TypeOK /\ RequestInv(r) /\ DeleteInv(r)
  BY DEF DeleteItem, WorkflowInv, RequestInv, DeleteInv
<1>2. CASE LoansOf(req[r].item) = {}
  <2>1. Statement(r, "remove", RemoveOutcome(r), "commit") /\ req' = req
    BY <1>2 DEF DeleteItem
  <2>2. RemoveOutcome(r) \in Answers \cup {"ok"}
    BY DEF RemoveOutcome, Answers, Refusals
  <2>3. RequestInv(r)'
    <3>1. CASE RemoveOutcome(r) = "ok"
      <4>1. /\ pc'[r] = "commit" /\ req[r].item \in updateLocks'[r]
            /\ UNCHANGED database
        BY <1>1, <2>1, <3>1 DEF Statement, Acquire, TypeOK, WantsUpdate, database
      <4> QED
        BY <1>1, <1>2, <2>1, <4>1, KindsDisjoint DEF RequestInv, DeleteInv, LoansOf, database
    <3>2. CASE RemoveOutcome(r) # "ok"
      BY <1>1, <2>1, <3>2, FinishedRequest DEF Statement
    <3> QED
      BY <3>1, <3>2
  <2> QED
    BY <1>1, <2>1, <2>2, <2>3, StatementInv DEF Steps, TypeOK
<1>3. CASE LoansOf(req[r].item) # {}
  <2>1. PICK c \in LoansOf(req[r].item) :
          /\ Statement(r, "remove", "ok", "references")
          /\ req' = [req EXCEPT ![r].loan = c]
    BY <1>3 DEF DeleteItem
  <2>2. /\ req' \in [Requests -> Input \cup {None}]
        /\ \A s \in Requests \ {r} : req'[s] = req[s]
        /\ req'[r] \in Input
        /\ req'[r].loan \in CheckoutRequests
        /\ req'[r].item = req[r].item
    BY <1>1, <2>1 DEF TypeOK, Input, LoansOf
  <2>3. pc'[r] = "references"
    BY <1>1, <2>1 DEF Statement, TypeOK
  <2>4. RequestInv(r)'
    BY <1>1, <2>2, <2>3, KindsDisjoint DEF RequestInv, DeleteInv
  <2> QED
    BY <2>1, <2>2, <2>4, StatementInv DEF Steps
<1> QED
  BY <1>2, <1>3

\* A referenced item is refused.
LEMMA ProbeStep ==
    ASSUME WorkflowInv, NEW r \in Requests, ProbeReferences(r)
    PROVE  WorkflowInv'
<1>1. /\ pc[r] = "references" /\ req' = req
      /\ Statement(r, "references", "item_in_use", "done")
      /\ TypeOK /\ RequestInv(r)
  BY DEF ProbeReferences, Statement, WorkflowInv
<1>2. RequestInv(r)'
  BY <1>1, FinishedRequest DEF Statement
<1> QED
  BY <1>1, <1>2, StatementInv DEF Steps, Answers, Refusals, TypeOK

\* The account is locked.
LEMMA UserStep ==
    ASSUME WorkflowInv, NEW r \in Requests, GetUserForUpdate(r)
    PROVE  WorkflowInv'
<1>1. /\ r \in ActivationRequests /\ pc[r] = "user" /\ req' = req /\ req[r] \in Input
      /\ Statement(r, "user", "ok", "identity")
      /\ TypeOK /\ ActivationInv(r)
  BY DEF GetUserForUpdate, Statement, WorkflowInv, RequestInv
<1>2. pc'[r] = "identity" /\ req[r].user \in updateLocks'[r]
  BY <1>1 DEF Statement, Acquire, TypeOK, WantsUpdate
<1>3. RequestInv(r)'
  BY <1>1, <1>2, KindsDisjoint DEF RequestInv, ActivationInv
<1> QED
  BY <1>1, <1>3, StatementInv DEF Steps, TypeOK

\* The account stays locked while its identity is replaced, or the change ends.
LEMMA IdentityStep ==
    ASSUME WorkflowInv, NEW r \in Requests, ReplaceIdentity(r)
    PROVE  WorkflowInv'
<1>1. PICK outcome \in {"ok", "not_synchronized"} : Statement(r, "identity", outcome, "commit")
  BY DEF ReplaceIdentity
<1>2. /\ r \in ActivationRequests /\ pc[r] = "identity" /\ req' = req /\ req[r] \in Input
      /\ TypeOK /\ RequestInv(r) /\ ActivationInv(r)
  BY <1>1 DEF ReplaceIdentity, Statement, WorkflowInv, RequestInv
<1>3. RequestInv(r)'
  <2>1. CASE outcome = "ok"
    <3>1. pc'[r] = "commit" /\ updateLocks[r] \subseteq updateLocks'[r]
      BY <1>1, <1>2, <2>1 DEF Statement, Acquire, TypeOK
    <3> QED
      BY <1>2, <3>1, KindsDisjoint DEF RequestInv, ActivationInv
  <2>2. CASE outcome # "ok"
    BY <1>1, <1>2, <2>2, FinishedRequest DEF Statement
  <2> QED
    BY <2>1, <2>2
<1> QED
  BY <1>1, <1>2, <1>3, StatementInv DEF Steps, TypeOK, Answers, Refusals

-------------------------------------------------------------------------------
(* Arrivals, and transactions that end without effect. *)

\* A request that begins holds no lock and changes no row.
LEMMA SubmitInv ==
    ASSUME WorkflowInv, NEW r \in Requests, NEW input \in Input, NEW permitted,
           NEW first \in Steps, Submit(r, input, permitted, first),
           r \in CheckoutRequests =>
              first = "borrower" /\ input.item \in Items,
           r \in ReturnRequests =>
              first = "loan" /\ input.loan \in CheckoutRequests,
           r \in DeleteRequests => first = "remove" /\ input.item \in Items,
           r \in ActivationRequests => first = "user" /\ input.user \in Users
    PROVE  WorkflowInv'
<1>1. /\ TypeOK /\ LockInv /\ StatusAgrees
      /\ \A s \in Requests : RequestInv(s)
      /\ UNCHANGED database /\ UNCHANGED <<updateLocks, shareLocks, faults>>
      /\ UNCHANGED <<tupleLock, behind>>
      /\ pc[r] = "new" /\ req' = [req EXCEPT ![r] = input]
  BY DEF WorkflowInv, Submit, database
<1>2. /\ \/ pc' = [pc EXCEPT ![r] = first]
         \/ pc' = [pc EXCEPT ![r] = "done"]
      /\ answer' \in [Requests -> Answers]
  BY <1>1 DEF Submit, TypeOK, Answers, Refusals
<1>3. TypeOK'
  <2>1. "done" \in Steps
    BY DEF Steps
  <2>2. pc' \in [Requests -> Steps]
    BY <1>1, <1>2, <2>1 DEF TypeOK
  <2>3. req' \in [Requests -> Input \cup {None}]
    BY <1>1 DEF TypeOK
  <2> QED
    BY <1>1, <1>2, <2>2, <2>3 DEF TypeOK, LinesOK, database
<1>4. LockInv'
  BY <1>1 DEF LockInv
<1>5. StatusAgrees'
  BY <1>1 DEF StatusAgrees, AtMostOneOpenLoan, CheckedOutIffOpenLoan,
              DeletedNeverLent, OpenLoans, LoansOf, database
<1>6. \A s \in Requests \ {r} : RequestInv(s)'
  BY <1>1, <1>2, OthersKeep DEF TypeOK
<1>7. RequestInv(r)'
  <2>1. req'[r] = input /\ (pc'[r] = first \/ pc'[r] = "done")
    BY <1>1, <1>2 DEF TypeOK
  <2>2. CASE r \in CheckoutRequests
    BY <1>1, <2>1, <2>2, KindsDisjoint DEF RequestInv, CheckoutInv, database
  <2>3. CASE r \in ReturnRequests
    BY <1>1, <2>1, <2>3, KindsDisjoint DEF RequestInv, ReturnInv
  <2>4. CASE r \in DeleteRequests
    BY <1>1, <2>1, <2>4, KindsDisjoint DEF RequestInv, DeleteInv
  <2>5. CASE r \in ActivationRequests
    BY <1>1, <2>1, <2>5, KindsDisjoint DEF RequestInv, ActivationInv
  <2> QED
    BY <2>2, <2>3, <2>4, <2>5 DEF Requests
<1> QED
  BY <1>3, <1>4, <1>5, <1>6, <1>7 DEF WorkflowInv

\* A request of any kind arrives.
LEMMA ArriveInv ==
    ASSUME WorkflowInv, NEW r \in Requests, Arrive(r)
    PROVE  WorkflowInv'
<1>1. CASE ArriveCheckout(r)
  <2>1. PICK actor \in Users, i \in Items, borrower \in Users \cup {None}, due \in DueInputs :
          Submit(r, [InputOf(actor) EXCEPT !.item = i, !.user = borrower, !.due = due],
                 AuthorizeCheckoutBorrower(actor, borrower), "borrower")
    BY <1>1 DEF ArriveCheckout
  <2>2. /\ [InputOf(actor) EXCEPT !.item = i, !.user = borrower, !.due = due] \in Input
        /\ [InputOf(actor) EXCEPT !.item = i, !.user = borrower, !.due = due].item = i
    BY DEF Input, InputOf
  <2> QED
    BY <1>1, <2>1, <2>2, SubmitInv, KindsDisjoint DEF ArriveCheckout, Steps
<1>2. CASE ArriveReturn(r)
  <2>1. PICK actor \in Users, c \in CheckoutRequests :
          Submit(r, [InputOf(actor) EXCEPT !.loan = c],
                 CanManageCheckouts(actor) \/ CanUseSelfCheckout(actor), "loan")
    BY <1>2 DEF ArriveReturn
  <2>2. /\ [InputOf(actor) EXCEPT !.loan = c] \in Input
        /\ [InputOf(actor) EXCEPT !.loan = c].loan = c
    BY DEF Input, InputOf
  <2> QED
    BY <1>2, <2>1, <2>2, SubmitInv, KindsDisjoint DEF ArriveReturn, Steps
<1>3. CASE ArriveDelete(r)
  <2>1. PICK actor \in Users, i \in Items :
          Submit(r, [InputOf(actor) EXCEPT !.item = i],
                 Has(actor, "inventory_manage"), "remove")
    BY <1>3 DEF ArriveDelete
  <2>2. /\ [InputOf(actor) EXCEPT !.item = i] \in Input
        /\ [InputOf(actor) EXCEPT !.item = i].item = i
    BY DEF Input, InputOf
  <2> QED
    BY <1>3, <2>1, <2>2, SubmitInv, KindsDisjoint DEF ArriveDelete, Steps
<1>4. CASE ArriveActivation(r)
  <2>1. PICK actor \in Users, u \in Users, enable \in BOOLEAN :
          Submit(r, [InputOf(actor) EXCEPT !.user = u, !.enable = enable],
                 Has(actor, "users_manage"), "user")
    BY <1>4 DEF ArriveActivation
  <2>2. /\ [InputOf(actor) EXCEPT !.user = u, !.enable = enable] \in Input
        /\ [InputOf(actor) EXCEPT !.user = u, !.enable = enable].user = u
    BY DEF Input, InputOf
  <2> QED
    BY <1>4, <2>1, <2>2, SubmitInv, KindsDisjoint DEF ArriveActivation, Steps
<1> QED
  BY <1>1, <1>2, <1>3, <1>4 DEF Arrive

\* A rollback changes no row.
LEMMA RollbackInv ==
    ASSUME WorkflowInv, NEW r \in Requests, pc[r] # "new",
           Finish(r, "internal_error"), Leave({r}), UNCHANGED database, UNCHANGED req,
           faults' \in 0..MaxFaults
    PROVE  WorkflowInv'
<1>1. TypeOK /\ LockInv /\ StatusAgrees /\ \A s \in Requests : RequestInv(s)
  BY DEF WorkflowInv
<1>2. TypeOK'
  BY <1>1, LinesLeft DEF TypeOK, Finish, Steps, Answers, database
<1>3. LockInv'
  BY <1>1, FinishLocks
<1>4. StatusAgrees'
  BY <1>1 DEF StatusAgrees, AtMostOneOpenLoan, CheckedOutIffOpenLoan,
              DeletedNeverLent, OpenLoans, LoansOf, database
<1>5. \A s \in Requests \ {r} : RequestInv(s)'
  BY <1>1, OthersKeep DEF Finish, TypeOK
<1>6. RequestInv(r)'
  BY <1>1, FinishedRequest
<1> QED
  BY <1>2, <1>3, <1>4, <1>5, <1>6 DEF WorkflowInv

-------------------------------------------------------------------------------
(* Commits. *)

\* Appending an entry to one of several logs keeps them logs of entries.
LEMMA AppendToLog ==
    ASSUME NEW D, NEW S, NEW log \in [D -> Seq(S)], NEW d \in D, NEW e \in S
    PROVE  [log EXCEPT ![d] = Append(@, e)] \in [D -> Seq(S)]
<1>1. Append(log[d], e) \in Seq(S)
  OBVIOUS
<1> QED
  BY <1>1

\* The item was available and is locked: it gets its only open loan.
LEMMA CommitCheckoutInv ==
    ASSUME WorkflowInv, NEW r \in Requests, r \in CheckoutRequests, pc[r] = "commit",
           PublishCheckout(r), NEW a \in Answers, Finish(r, a), UNCHANGED req,
           faults' \in 0..MaxFaults, LinesOK'
    PROVE  WorkflowInv'
<1>1. TypeOK /\ LockInv /\ StatusAgrees /\ \A s \in Requests : RequestInv(s)
  BY DEF WorkflowInv
<1>2. CheckoutInv(r) /\ req[r] \in Input
  BY <1>1 DEF RequestInv
<1>3. pc' \in [Requests -> Steps] /\ answer' \in [Requests -> Answers]
      /\ updateLocks' \in [Requests -> SUBSET Rows]
      /\ shareLocks' \in [Requests -> SUBSET Rows]
  BY <1>1 DEF TypeOK, Finish, Steps
<1>4. LockInv'
  BY <1>1, FinishLocks
<1>5. RequestInv(r)'
  BY <1>1, FinishedRequest
<1>6. \A s \in Requests \ {r} :
         /\ pc'[s] = pc[s] /\ req'[s] = req[s]
         /\ updateLocks'[s] = updateLocks[s] /\ shareLocks'[s] = shareLocks[s]
         /\ updateLocks[r] \cap (updateLocks[s] \cup shareLocks[s]) = {}
  BY <1>1 DEF Finish, TypeOK, LockInv
<1>7. LET in == req[r]
          row == [item |-> in.item, borrower |-> in.user, createdBy |-> in.actor,
                  returnedTo |-> None]
      IN  /\ in.item \in Items /\ in.user \in Users /\ in.actor \in Users
          /\ in.item \in updateLocks[r] /\ status[in.item] = "available"
          /\ checkouts[r] = None /\ row \in Loan /\ row # None
          /\ checkouts' = [checkouts EXCEPT ![r] = row]
          /\ status' = [status EXCEPT ![in.item] = "checked_out"]
          /\ UNCHANGED active
  BY <1>2, NoneIsNoRow DEF CheckoutInv, PublishCheckout, Input, Loan
<1>8. TypeOK'
  <2>1. history' \in [Items -> Seq(HistoryEntries)]
    <3>1. HistoryEntry("available", "checked_out", r, req[r].actor) \in HistoryEntries
      BY <1>7 DEF HistoryEntry, HistoryEntries, Statuses
    <3> QED
      BY <1>1, <1>7, <3>1, AppendToLog DEF PublishCheckout, TypeOK
  <2>2. audit' \in [CheckoutRequests -> Seq(AuditEvents)]
    <3>1. AuditEvent("checkout.created", req[r].actor) \in AuditEvents
      BY <1>7 DEF AuditEvent, AuditEvents
    <3> QED
      BY <1>1, <1>7, <3>1, AppendToLog DEF PublishCheckout, TypeOK
  <2> QED
    BY <1>1, <1>3, <1>7, <2>1, <2>2 DEF TypeOK, Statuses
<1>9. StatusAgrees'
  BY <1>1, <1>7 DEF TypeOK, StatusAgrees, AtMostOneOpenLoan, CheckedOutIffOpenLoan,
         DeletedNeverLent, OpenLoans, LoansOf
<1>10. \A s \in Requests \ {r} : RequestInv(s)'
  <2> SUFFICES ASSUME NEW s \in Requests \ {r} PROVE RequestInv(s)'
    OBVIOUS
  <2>1. RequestInv(s) /\ (pc[s] # "new" => req[s] \in Input)
    BY <1>1 DEF RequestInv
  <2>2. CASE s \in CheckoutRequests
    BY <1>1, <1>2, <1>6, <1>7, <2>1, <2>2, KindsDisjoint, NoneIsNoRow
    DEF RequestInv, CheckoutInv, TypeOK, LoansOf
  <2>3. CASE s \in ReturnRequests
    BY <1>1, <1>2, <1>6, <1>7, <2>1, <2>3, KindsDisjoint, NoneIsNoRow
    DEF RequestInv, ReturnInv, TypeOK, LoansOf
  <2>4. CASE s \in DeleteRequests
    BY <1>1, <1>2, <1>6, <1>7, <2>1, <2>4, KindsDisjoint, NoneIsNoRow
    DEF RequestInv, DeleteInv, TypeOK, LoansOf
  <2>5. CASE s \in ActivationRequests
    BY <1>1, <1>2, <1>6, <1>7, <2>1, <2>5, KindsDisjoint, NoneIsNoRow
    DEF RequestInv, ActivationInv, TypeOK, LoansOf
  <2> QED
    BY <2>2, <2>3, <2>4, <2>5 DEF Requests
<1> QED
  BY <1>4, <1>5, <1>8, <1>9, <1>10 DEF WorkflowInv

\* The loan was open, so the item's only one, and both are locked.
LEMMA CommitReturnInv ==
    ASSUME WorkflowInv, NEW r \in Requests, r \in ReturnRequests, pc[r] = "commit",
           PublishReturn(r), NEW a \in Answers, Finish(r, a), UNCHANGED req,
           faults' \in 0..MaxFaults, LinesOK'
    PROVE  WorkflowInv'
<1>1. TypeOK /\ LockInv /\ StatusAgrees /\ \A s \in Requests : RequestInv(s)
  BY DEF WorkflowInv
<1>2. ReturnInv(r) /\ req[r] \in Input
  BY <1>1 DEF RequestInv
<1>3. pc' \in [Requests -> Steps] /\ answer' \in [Requests -> Answers]
      /\ updateLocks' \in [Requests -> SUBSET Rows]
      /\ shareLocks' \in [Requests -> SUBSET Rows]
  BY <1>1 DEF TypeOK, Finish, Steps
<1>4. LockInv'
  BY <1>1, FinishLocks
<1>5. RequestInv(r)'
  BY <1>1, FinishedRequest
<1>6. \A s \in Requests \ {r} :
         /\ pc'[s] = pc[s] /\ req'[s] = req[s]
         /\ updateLocks'[s] = updateLocks[s] /\ shareLocks'[s] = shareLocks[s]
         /\ updateLocks[r] \cap (updateLocks[s] \cup shareLocks[s]) = {}
  BY <1>1 DEF Finish, TypeOK, LockInv
<1>7. LET in == req[r]
      IN  /\ in.item \in Items /\ in.loan \in CheckoutRequests /\ in.actor \in Users
          /\ in.item \in updateLocks[r] /\ in.loan \in updateLocks[r]
          /\ checkouts[in.loan] \in Loan /\ checkouts[in.loan] # None
          /\ checkouts[in.loan].item = in.item
          /\ checkouts[in.loan].returnedTo = None
          /\ checkouts' = [checkouts EXCEPT ![in.loan].returnedTo = in.actor]
          /\ checkouts'[in.loan] \in Loan /\ checkouts'[in.loan] # None
          /\ checkouts'[in.loan].item = in.item
          /\ checkouts'[in.loan].returnedTo # None
          /\ \A c \in CheckoutRequests \ {in.loan} : checkouts'[c] = checkouts[c]
          /\ status' = [status EXCEPT ![in.item] = "available"]
          /\ UNCHANGED active
  <2>1. /\ req[r].item \in Items /\ req[r].loan \in CheckoutRequests
        /\ req[r].actor \in Users
        /\ req[r].item \in updateLocks[r] /\ req[r].loan \in updateLocks[r]
        /\ checkouts[req[r].loan] # None
        /\ checkouts[req[r].loan].item = req[r].item
        /\ checkouts[req[r].loan].returnedTo = None
    BY <1>2 DEF ReturnInv, Input
  <2>2. checkouts[req[r].loan] \in Loan
    BY <1>1, <2>1 DEF TypeOK
  <2>3. checkouts' = [checkouts EXCEPT ![req[r].loan].returnedTo = req[r].actor]
    BY DEF PublishReturn
  <2>4. /\ checkouts'[req[r].loan] = [checkouts[req[r].loan] EXCEPT !.returnedTo = req[r].actor]
        /\ \A c \in CheckoutRequests \ {req[r].loan} : checkouts'[c] = checkouts[c]
    BY <1>1, <2>1, <2>3 DEF TypeOK
  <2>5. /\ checkouts'[req[r].loan] \in Loan
        /\ checkouts'[req[r].loan].item = req[r].item
        /\ checkouts'[req[r].loan].returnedTo = req[r].actor
    BY <2>1, <2>2, <2>4 DEF Loan
  <2> QED
    BY <2>1, <2>2, <2>3, <2>4, <2>5, NoneIsNoRow DEF PublishReturn
<1>8. TypeOK'
  <2>1. history' \in [Items -> Seq(HistoryEntries)]
    <3>1. HistoryEntry("checked_out", "available", req[r].loan, req[r].actor) \in HistoryEntries
      BY <1>7 DEF HistoryEntry, HistoryEntries, Statuses
    <3> QED
      BY <1>1, <1>7, <3>1, AppendToLog DEF PublishReturn, TypeOK
  <2>2. audit' \in [CheckoutRequests -> Seq(AuditEvents)]
    <3>1. AuditEvent("checkout.returned", req[r].actor) \in AuditEvents
      BY <1>7 DEF AuditEvent, AuditEvents
    <3> QED
      BY <1>1, <1>7, <3>1, AppendToLog DEF PublishReturn, TypeOK
  <2>3. checkouts' \in [CheckoutRequests -> Loan \cup {None}]
    BY <1>1, <1>7 DEF TypeOK
  <2> QED
    BY <1>1, <1>3, <1>7, <2>1, <2>2, <2>3 DEF TypeOK, Statuses
<1>9. StatusAgrees'
  BY <1>1, <1>7 DEF TypeOK, StatusAgrees, AtMostOneOpenLoan, CheckedOutIffOpenLoan,
         DeletedNeverLent, OpenLoans, LoansOf
<1>10. \A s \in Requests \ {r} : RequestInv(s)'
  <2> SUFFICES ASSUME NEW s \in Requests \ {r} PROVE RequestInv(s)'
    OBVIOUS
  <2>1. RequestInv(s) /\ (pc[s] # "new" => req[s] \in Input)
    BY <1>1 DEF RequestInv
  <2>2. CASE s \in CheckoutRequests
    BY <1>1, <1>2, <1>6, <1>7, <2>1, <2>2, KindsDisjoint, NoneIsNoRow
    DEF RequestInv, CheckoutInv, TypeOK, LoansOf
  <2>3. CASE s \in ReturnRequests
    BY <1>1, <1>2, <1>6, <1>7, <2>1, <2>3, KindsDisjoint, NoneIsNoRow
    DEF RequestInv, ReturnInv, TypeOK, LoansOf
  <2>4. CASE s \in DeleteRequests
    BY <1>1, <1>2, <1>6, <1>7, <2>1, <2>4, KindsDisjoint, NoneIsNoRow
    DEF RequestInv, DeleteInv, TypeOK, LoansOf
  <2>5. CASE s \in ActivationRequests
    BY <1>1, <1>2, <1>6, <1>7, <2>1, <2>5, KindsDisjoint, NoneIsNoRow
    DEF RequestInv, ActivationInv, TypeOK, LoansOf
  <2> QED
    BY <2>2, <2>3, <2>4, <2>5 DEF Requests
<1> QED
  BY <1>4, <1>5, <1>8, <1>9, <1>10 DEF WorkflowInv

\* No checkout refers to the item, and none can be inserted: it is locked.
LEMMA CommitDeleteInv ==
    ASSUME WorkflowInv, NEW r \in Requests, r \in DeleteRequests, pc[r] = "commit",
           PublishDelete(r), NEW a \in Answers, Finish(r, a), UNCHANGED req,
           faults' \in 0..MaxFaults, LinesOK'
    PROVE  WorkflowInv'
<1>1. TypeOK /\ LockInv /\ StatusAgrees /\ \A s \in Requests : RequestInv(s)
  BY DEF WorkflowInv
<1>2. DeleteInv(r) /\ req[r] \in Input
  BY <1>1 DEF RequestInv
<1>3. pc' \in [Requests -> Steps] /\ answer' \in [Requests -> Answers]
      /\ updateLocks' \in [Requests -> SUBSET Rows]
      /\ shareLocks' \in [Requests -> SUBSET Rows]
  BY <1>1 DEF TypeOK, Finish, Steps
<1>4. LockInv'
  BY <1>1, FinishLocks
<1>5. RequestInv(r)'
  BY <1>1, FinishedRequest
<1>6. \A s \in Requests \ {r} :
         /\ pc'[s] = pc[s] /\ req'[s] = req[s]
         /\ updateLocks'[s] = updateLocks[s] /\ shareLocks'[s] = shareLocks[s]
         /\ updateLocks[r] \cap (updateLocks[s] \cup shareLocks[s]) = {}
  BY <1>1 DEF Finish, TypeOK, LockInv
<1>7. LET in == req[r]
      IN  /\ in.item \in Items /\ in.item \in updateLocks[r] /\ LoansOf(in.item) = {}
          /\ status' = [status EXCEPT ![in.item] = "absent"]
          /\ UNCHANGED <<active, checkouts, history, audit>>
  BY <1>2 DEF DeleteInv, PublishDelete
<1>8. TypeOK'
  BY <1>1, <1>3, <1>7 DEF TypeOK, Statuses
<1>9. StatusAgrees'
  BY <1>1, <1>7 DEF TypeOK, StatusAgrees, AtMostOneOpenLoan, CheckedOutIffOpenLoan,
         DeletedNeverLent, OpenLoans, LoansOf
<1>10. \A s \in Requests \ {r} : RequestInv(s)'
  <2> SUFFICES ASSUME NEW s \in Requests \ {r} PROVE RequestInv(s)'
    OBVIOUS
  <2>1. RequestInv(s) /\ (pc[s] # "new" => req[s] \in Input)
    BY <1>1 DEF RequestInv
  <2>2. CASE s \in CheckoutRequests
    BY <1>1, <1>2, <1>6, <1>7, <2>1, <2>2, KindsDisjoint, NoneIsNoRow
    DEF RequestInv, CheckoutInv, TypeOK, LoansOf
  <2>3. CASE s \in ReturnRequests
    BY <1>1, <1>2, <1>6, <1>7, <2>1, <2>3, KindsDisjoint, NoneIsNoRow
    DEF RequestInv, ReturnInv, TypeOK, LoansOf
  <2>4. CASE s \in DeleteRequests
    BY <1>1, <1>2, <1>6, <1>7, <2>1, <2>4, KindsDisjoint, NoneIsNoRow
    DEF RequestInv, DeleteInv, TypeOK, LoansOf
  <2>5. CASE s \in ActivationRequests
    BY <1>1, <1>2, <1>6, <1>7, <2>1, <2>5, KindsDisjoint, NoneIsNoRow
    DEF RequestInv, ActivationInv, TypeOK, LoansOf
  <2> QED
    BY <2>2, <2>3, <2>4, <2>5 DEF Requests
<1> QED
  BY <1>4, <1>5, <1>8, <1>9, <1>10 DEF WorkflowInv

\* No checkout to this user is under way: its row is locked FOR UPDATE.
LEMMA CommitActivationInv ==
    ASSUME WorkflowInv, NEW r \in Requests, r \in ActivationRequests, pc[r] = "commit",
           PublishActivation(r), NEW a \in Answers, Finish(r, a), UNCHANGED req,
           faults' \in 0..MaxFaults, LinesOK'
    PROVE  WorkflowInv'
<1>1. TypeOK /\ LockInv /\ StatusAgrees /\ \A s \in Requests : RequestInv(s)
  BY DEF WorkflowInv
<1>2. ActivationInv(r) /\ req[r] \in Input
  BY <1>1 DEF RequestInv
<1>3. pc' \in [Requests -> Steps] /\ answer' \in [Requests -> Answers]
      /\ updateLocks' \in [Requests -> SUBSET Rows]
      /\ shareLocks' \in [Requests -> SUBSET Rows]
  BY <1>1 DEF TypeOK, Finish, Steps
<1>4. LockInv'
  BY <1>1, FinishLocks
<1>5. RequestInv(r)'
  BY <1>1, FinishedRequest
<1>6. \A s \in Requests \ {r} :
         /\ pc'[s] = pc[s] /\ req'[s] = req[s]
         /\ updateLocks'[s] = updateLocks[s] /\ shareLocks'[s] = shareLocks[s]
         /\ updateLocks[r] \cap (updateLocks[s] \cup shareLocks[s]) = {}
  BY <1>1 DEF Finish, TypeOK, LockInv
<1>7. LET in == req[r]
      IN  /\ in.user \in Users /\ in.user \in updateLocks[r] /\ in.enable \in BOOLEAN
          /\ active' = [active EXCEPT ![in.user] = in.enable]
          /\ UNCHANGED <<status, checkouts, history, audit>>
  BY <1>2 DEF ActivationInv, PublishActivation, Input
<1>8. TypeOK'
  BY <1>1, <1>3, <1>7 DEF TypeOK
<1>9. StatusAgrees'
  BY <1>1, <1>7 DEF StatusAgrees, AtMostOneOpenLoan, CheckedOutIffOpenLoan,
         DeletedNeverLent, OpenLoans, LoansOf
<1>10. \A s \in Requests \ {r} : RequestInv(s)'
  <2> SUFFICES ASSUME NEW s \in Requests \ {r} PROVE RequestInv(s)'
    OBVIOUS
  <2>1. RequestInv(s) /\ (pc[s] # "new" => req[s] \in Input)
    BY <1>1 DEF RequestInv
  <2>2. CASE s \in CheckoutRequests
    BY <1>1, <1>2, <1>6, <1>7, <2>1, <2>2, KindsDisjoint, NoneIsNoRow
    DEF RequestInv, CheckoutInv, TypeOK, LoansOf
  <2>3. CASE s \in ReturnRequests
    BY <1>1, <1>2, <1>6, <1>7, <2>1, <2>3, KindsDisjoint, NoneIsNoRow
    DEF RequestInv, ReturnInv, TypeOK, LoansOf
  <2>4. CASE s \in DeleteRequests
    BY <1>1, <1>2, <1>6, <1>7, <2>1, <2>4, KindsDisjoint, NoneIsNoRow
    DEF RequestInv, DeleteInv, TypeOK, LoansOf
  <2>5. CASE s \in ActivationRequests
    BY <1>1, <1>2, <1>6, <1>7, <2>1, <2>5, KindsDisjoint, NoneIsNoRow
    DEF RequestInv, ActivationInv, TypeOK, LoansOf
  <2> QED
    BY <2>2, <2>3, <2>4, <2>5 DEF Requests
<1> QED
  BY <1>4, <1>5, <1>8, <1>9, <1>10 DEF WorkflowInv

\* A commit, acknowledged or not, keeps the invariant.
LEMMA PublishInv ==
    ASSUME WorkflowInv, NEW r \in Requests, pc[r] = "commit", Publish(r),
           NEW a \in Answers, Finish(r, a), LeaveAndDissolve(r), UNCHANGED req,
           faults' \in 0..MaxFaults
    PROVE  WorkflowInv'
<1> LinesOK'
  BY LinesLeft DEF LeaveAndDissolve, WorkflowInv, TypeOK
<1>1. CASE r \in CheckoutRequests /\ PublishCheckout(r)
  BY <1>1, CommitCheckoutInv
<1>2. CASE r \in ReturnRequests /\ PublishReturn(r)
  BY <1>2, CommitReturnInv
<1>3. CASE r \in DeleteRequests /\ PublishDelete(r)
  BY <1>3, CommitDeleteInv
<1>4. CASE r \in ActivationRequests /\ PublishActivation(r)
  BY <1>4, CommitActivationInv
<1> QED
  BY <1>1, <1>2, <1>3, <1>4 DEF Publish

-------------------------------------------------------------------------------
(* The invariant is inductive. *)

LEMMA NextInv == WorkflowInv /\ [Next]_vars => WorkflowInv'
<1> SUFFICES ASSUME WorkflowInv, [Next]_vars PROVE WorkflowInv'
  OBVIOUS
<1> USE DEF database
<1>1. ASSUME NEW r \in Requests, Arrive(r) PROVE WorkflowInv'
  BY <1>1, ArriveInv
<1>2. ASSUME NEW r \in Requests, Proceed(r) PROVE WorkflowInv'
  <2>1. CASE GetCheckoutBorrowerForShare(r)
    BY <1>2, <2>1, BorrowerStep
  <2>2. CASE GetItemForStatusUpdate(r)
    BY <1>2, <2>2, ItemStep
  <2>3. CASE CreateCheckout(r)
    BY <1>2, <2>3, InsertStep
  <2>4. CASE SetItemCheckedOut(r)
    BY <1>2, <2>4, LendStatusStep
  <2>5. CASE GetCheckoutForUpdate(r)
    BY <1>2, <2>5, LoanStep
  <2>6. CASE GetLoanItemForStatusUpdate(r)
    BY <1>2, <2>6, LoanItemStep
  <2>7. CASE ReturnCheckout(r)
    BY <1>2, <2>7, SettleStep
  <2>8. CASE SetItemAvailable(r)
    BY <1>2, <2>8, RestoreStep
  <2>9. CASE DeleteItem(r)
    BY <1>2, <2>9, RemoveStep
  <2>10. CASE ProbeReferences(r)
    BY <1>2, <2>10, ProbeStep
  <2>11. CASE GetUserForUpdate(r)
    BY <1>2, <2>11, UserStep
  <2>12. CASE Commit(r)
    <3>1. GrantOf(r) \in Answers
      BY DEF GrantOf, Answers, Grants
    <3>2. faults' \in 0..MaxFaults
      BY <2>12 DEF Commit, WorkflowInv, TypeOK
    <3> QED
      BY <1>2, <2>12, <3>1, <3>2, PublishInv DEF Commit
  <2>13. CASE DeadlockAbort(r)
    <3>1. pc[r] # "new"
      BY <2>13 DEF DeadlockAbort
    <3>2. faults' \in 0..MaxFaults
      BY <2>13 DEF DeadlockAbort, WorkflowInv, TypeOK
    <3> QED
      BY <1>2, <2>13, <3>1, <3>2, RollbackInv DEF DeadlockAbort
  <2>14. CASE ReplaceIdentity(r)
    BY <1>2, <2>14, IdentityStep
  <2> QED
    BY <1>2, <2>1, <2>2, <2>3, <2>4, <2>5, <2>6, <2>7, <2>8, <2>9, <2>10, <2>11,
       <2>12, <2>13, <2>14 DEF Proceed
<1>3. ASSUME NEW r \in Requests, Fail(r) PROVE WorkflowInv'
  <2>1. faults' \in 0..MaxFaults
    BY <1>3, MaxFaultsType DEF Fail, Abort, CommitUnacknowledged, WorkflowInv, TypeOK
  <2>2. CASE Abort(r)
    BY <1>3, <2>1, <2>2, RollbackInv DEF Abort
  <2>3. CASE CommitUnacknowledged(r)
    BY <1>3, <2>1, <2>3, PublishInv DEF CommitUnacknowledged, Answers
  <2> QED
    BY <1>3, <2>2, <2>3 DEF Fail
<1>4. CASE UNCHANGED vars
  BY <1>4 DEF vars, WorkflowInv, TypeOK, LinesOK, LockInv, RequestInv, CheckoutInv, ReturnInv,
     DeleteInv, ActivationInv, StatusAgrees, AtMostOneOpenLoan, CheckedOutIffOpenLoan,
     DeletedNeverLent, OpenLoans, LoansOf
<1>5. ASSUME NEW r \in Requests, QueueUp(r) PROVE WorkflowInv'
  BY <1>5, QueueUpInv
<1> QED
  BY <1>1, <1>2, <1>3, <1>4, <1>5 DEF Next, Terminated

\* In every reachable state, of any instance, each request's knowledge of the
\* rows it holds is still true.
THEOREM WorkflowInvariant == Spec => []WorkflowInv
BY InitInv, NextInv, PTL DEF Spec

\* Every variable keeps its type.
THEOREM TypeCorrect == Spec => []TypeOK
<1>1. WorkflowInv => TypeOK
  BY DEF WorkflowInv
<1> QED
  BY <1>1, WorkflowInvariant, PTL

\* An item is checked out exactly when it has an open loan, it has at most one,
\* and a deleted item has none, for any number of concurrent requests.
THEOREM StatusAlwaysAgrees == Spec => []StatusAgrees
<1>1. WorkflowInv => StatusAgrees
  BY DEF WorkflowInv
<1> QED
  BY <1>1, WorkflowInvariant, PTL

-------------------------------------------------------------------------------
(* What a step does to the database. *)

\* Only a commit changes the database.
LEMMA OnlyCommitsWrite ==
    ASSUME [Next]_vars
    PROVE  \/ UNCHANGED database
           \/ \E r \in Requests : pc[r] = "commit" /\ Publish(r)
<1> USE DEF database
<1>1. ASSUME NEW r \in Requests, Arrive(r) PROVE UNCHANGED database
  BY <1>1 DEF Arrive, ArriveCheckout, ArriveReturn, ArriveDelete, ArriveActivation, Submit
<1>2. ASSUME NEW r \in Requests, Proceed(r)
      PROVE  UNCHANGED database \/ (pc[r] = "commit" /\ Publish(r))
  BY <1>2 DEF Proceed, GetCheckoutBorrowerForShare, GetItemForStatusUpdate, CreateCheckout,
     SetItemCheckedOut, GetCheckoutForUpdate, GetLoanItemForStatusUpdate, ReturnCheckout,
     SetItemAvailable, DeleteItem, ProbeReferences, GetUserForUpdate, ReplaceIdentity, Commit,
     DeadlockAbort, Statement
<1>3. ASSUME NEW r \in Requests, Fail(r)
      PROVE  UNCHANGED database \/ (pc[r] = "commit" /\ Publish(r))
  BY <1>3 DEF Fail, Abort, CommitUnacknowledged
<1>4. ASSUME NEW r \in Requests, QueueUp(r) PROVE UNCHANGED database
  BY <1>4 DEF QueueUp
<1> QED
  BY <1>1, <1>2, <1>3, <1>4 DEF Next, Terminated, vars

\* The account a loan is made to is active when the loan becomes visible.
THEOREM BorrowerAlwaysActive == Spec => BorrowerActiveAtCommit
<1> DEFINE Lent == \A c \in CheckoutRequests :
                      checkouts[c] = None /\ checkouts'[c] # None
                         => active[checkouts'[c].borrower]
<1>1. WorkflowInv /\ [Next]_vars => Lent
  <2> SUFFICES ASSUME WorkflowInv, [Next]_vars,
                      NEW c \in CheckoutRequests, checkouts[c] = None, checkouts'[c] # None
               PROVE  active[checkouts'[c].borrower]
    OBVIOUS
  <2>1. PICK r \in Requests : pc[r] = "commit" /\ Publish(r)
    BY OnlyCommitsWrite DEF database
  <2>2. TypeOK /\ RequestInv(r)
    BY DEF WorkflowInv
  <2>3. CASE r \in CheckoutRequests /\ PublishCheckout(r)
    <3>1. active[req[r].user]
      BY <2>1, <2>2, <2>3 DEF RequestInv, CheckoutInv
    <3>2. c = r /\ checkouts'[c].borrower = req[r].user
      BY <2>2, <2>3 DEF PublishCheckout, TypeOK
    <3> QED
      BY <3>1, <3>2
  <2>4. CASE r \in ReturnRequests /\ PublishReturn(r)
    <3>1. req[r].loan \in CheckoutRequests /\ checkouts[req[r].loan] # None
      BY <2>1, <2>2, <2>4 DEF RequestInv, ReturnInv
    <3> QED
      BY <2>2, <2>4, <3>1 DEF PublishReturn, TypeOK
  <2> QED
    BY <2>1, <2>3, <2>4 DEF Publish, PublishDelete, PublishActivation
<1> QED
  BY <1>1, WorkflowInvariant, PTL DEF Spec, BorrowerActiveAtCommit

-------------------------------------------------------------------------------
(* Refinement. *)

LEMMA LedgerInit == Init => Ledger!Init
BY NoneIsNoRow DEF Init, Ledger!Init, OpenLoans, LoansOf

\* A checkout that commits lends the item.
LEMMA LendStep ==
    ASSUME WorkflowInv, NEW r \in CheckoutRequests, pc[r] = "commit", PublishCheckout(r)
    PROVE  Ledger!Lend(r, req[r].item, req[r].user)
<1> DEFINE in == req[r]
           row == [item |-> in.item, borrower |-> in.user, createdBy |-> in.actor,
                   returnedTo |-> None]
<1>1. TypeOK /\ StatusAgrees /\ CheckoutInv(r) /\ in \in Input
  BY DEF WorkflowInv, RequestInv, Requests
<1>2. /\ in.item \in Items /\ in.user \in Users /\ active[in.user]
      /\ status[in.item] = "available" /\ checkouts[r] = None
  BY <1>1 DEF CheckoutInv
<1>3. /\ checkouts' = [checkouts EXCEPT ![r] = row]
      /\ status' = [status EXCEPT ![in.item] = "checked_out"]
      /\ UNCHANGED active
  BY DEF PublishCheckout
<1>4. row # None
  BY <1>1, <1>2, NoneIsNoRow DEF Input, Loan
<1>5. \A c \in CheckoutRequests : checkouts'[c] = IF c = r THEN row ELSE checkouts[c]
  BY <1>1, <1>3 DEF TypeOK
<1>6. \A i \in Items : /\ LoansOf(i)' = IF i = in.item THEN LoansOf(i) \cup {r} ELSE LoansOf(i)
                       /\ OpenLoans(i)' = IF i = in.item THEN OpenLoans(i) \cup {r}
                                                         ELSE OpenLoans(i)
                       /\ r \notin LoansOf(i) /\ OpenLoans(i) \subseteq LoansOf(i)
  BY <1>2, <1>4, <1>5 DEF LoansOf, OpenLoans
<1>7. OpenLoans(in.item) = {}
  BY <1>1, <1>2 DEF StatusAgrees, CheckedOutIffOpenLoan
<1>8. \A i \in Items : status'[i] = IF i = in.item THEN "checked_out" ELSE status[i]
  BY <1>1, <1>3 DEF TypeOK
<1>9. Ledger!Unused(r)
  BY <1>6 DEF Ledger!Unused
<1>10. [i \in Items |-> OpenLoans(i)]' = [[i \in Items |-> OpenLoans(i)] EXCEPT ![in.item] = {r}]
  BY <1>2, <1>6, <1>7
<1>11. [i \in Items |-> LoansOf(i) \ OpenLoans(i)]' = [i \in Items |-> LoansOf(i) \ OpenLoans(i)]
  BY <1>6
<1>12. {i \in Items : status[i] \in {"available", "checked_out"}}'
         = {i \in Items : status[i] \in {"available", "checked_out"}}
  BY <1>2, <1>8
<1> QED
  BY <1>2, <1>3, <1>7, <1>9, <1>10, <1>11, <1>12 DEF Ledger!Lend

\* A return that commits takes the item back.
LEMMA TakeBackStep ==
    ASSUME WorkflowInv, NEW r \in ReturnRequests, pc[r] = "commit", PublishReturn(r)
    PROVE  Ledger!TakeBack(req[r].loan, req[r].item)
<1> DEFINE in == req[r]
<1>1. TypeOK /\ StatusAgrees /\ ReturnInv(r) /\ in \in Input
  BY DEF WorkflowInv, RequestInv, Requests
<1>2. /\ in.item \in Items /\ in.loan \in CheckoutRequests /\ in.actor \in Users
      /\ checkouts[in.loan] # None /\ checkouts[in.loan].item = in.item
      /\ checkouts[in.loan].returnedTo = None
  BY <1>1 DEF ReturnInv, Input
<1>3. /\ checkouts' = [checkouts EXCEPT ![in.loan].returnedTo = in.actor]
      /\ status' = [status EXCEPT ![in.item] = "available"]
      /\ UNCHANGED active
  BY DEF PublishReturn
<1>4. /\ checkouts[in.loan] \in Loan
      /\ checkouts'[in.loan] = [checkouts[in.loan] EXCEPT !.returnedTo = in.actor]
      /\ \A c \in CheckoutRequests \ {in.loan} : checkouts'[c] = checkouts[c]
  BY <1>1, <1>2, <1>3 DEF TypeOK
<1>5. /\ checkouts'[in.loan] # None /\ checkouts'[in.loan].item = in.item
      /\ checkouts'[in.loan].returnedTo # None
  BY <1>2, <1>4, NoneIsNoRow DEF Loan
<1>6. \A i \in Items : /\ LoansOf(i)' = LoansOf(i)
                       /\ OpenLoans(i)' = IF i = in.item THEN OpenLoans(i) \ {in.loan}
                                                         ELSE OpenLoans(i)
                       /\ OpenLoans(i) \subseteq LoansOf(i)
  BY <1>2, <1>4, <1>5 DEF LoansOf, OpenLoans
<1>7. in.loan \in OpenLoans(in.item) /\ status[in.item] = "checked_out"
  BY <1>1, <1>2 DEF StatusAgrees, CheckedOutIffOpenLoan, OpenLoans, LoansOf
<1>8. \A i \in Items : status'[i] = IF i = in.item THEN "available" ELSE status[i]
  BY <1>1, <1>3 DEF TypeOK
<1>9. [i \in Items |-> OpenLoans(i)]'
         = [[i \in Items |-> OpenLoans(i)] EXCEPT ![in.item] = @ \ {in.loan}]
  BY <1>2, <1>6
<1>10. [i \in Items |-> LoansOf(i) \ OpenLoans(i)]'
         = [[i \in Items |-> LoansOf(i) \ OpenLoans(i)] EXCEPT ![in.item] = @ \cup {in.loan}]
  BY <1>2, <1>6, <1>7
<1>11. {i \in Items : status[i] \in {"available", "checked_out"}}'
         = {i \in Items : status[i] \in {"available", "checked_out"}}
  BY <1>7, <1>8
<1> QED
  BY <1>2, <1>3, <1>7, <1>9, <1>10, <1>11 DEF Ledger!TakeBack

\* A deletion that commits withdraws the item, or removes one out of service.
LEMMA WithdrawStep ==
    ASSUME WorkflowInv, NEW r \in DeleteRequests, pc[r] = "commit", PublishDelete(r),
           NEW i0 \in Items, i0 = req[r].item
    PROVE  Ledger!Withdraw(i0) \/ UNCHANGED Ledger!vars
<1> DEFINE in == req[r]
<1>1. TypeOK /\ DeleteInv(r)
  BY DEF WorkflowInv, RequestInv, Requests
<1>2. in.item \in Items /\ LoansOf(in.item) = {} /\ OpenLoans(in.item) = {}
  BY <1>1 DEF DeleteInv, OpenLoans
<1>3. \A i \in Items : status'[i] = IF i = in.item THEN "absent" ELSE status[i]
  BY <1>1, <1>2 DEF TypeOK, PublishDelete
<1>4. \A i \in Items : LoansOf(i)' = LoansOf(i) /\ OpenLoans(i)' = OpenLoans(i)
  BY DEF PublishDelete, LoansOf, OpenLoans
<1>5. UNCHANGED active
  BY DEF PublishDelete
<1>6. CASE status[in.item] \in {"available", "checked_out"}
  BY <1>2, <1>3, <1>4, <1>5, <1>6 DEF Ledger!Withdraw
<1>7. CASE status[in.item] \notin {"available", "checked_out"}
  BY <1>2, <1>3, <1>4, <1>5, <1>7 DEF Ledger!vars
<1> QED
  BY <1>6, <1>7

\* An activation that commits changes the set of active users.
LEMMA SetActiveStep ==
    ASSUME WorkflowInv, NEW r \in ActivationRequests, pc[r] = "commit", PublishActivation(r),
           NEW u0 \in Users, u0 = req[r].user, NEW enable \in BOOLEAN, enable = req[r].enable
    PROVE  Ledger!SetActive(u0, enable)
<1>1. TypeOK /\ ActivationInv(r) /\ req[r] \in Input
  BY DEF WorkflowInv, RequestInv, Requests
<1>2. \A u \in Users : active'[u] = IF u = req[r].user THEN req[r].enable ELSE active[u]
  BY <1>1 DEF TypeOK, PublishActivation, ActivationInv
<1>3. \A i \in Items : LoansOf(i)' = LoansOf(i) /\ OpenLoans(i)' = OpenLoans(i)
  BY DEF PublishActivation, LoansOf, OpenLoans
<1>4. UNCHANGED status /\ req[r].user \in Users /\ req[r].enable \in BOOLEAN
  BY <1>1 DEF PublishActivation, ActivationInv, Input
<1> QED
  BY <1>2, <1>3, <1>4 DEF Ledger!SetActive

\* Every step of the workflow is a step of the ledger or changes nothing in it.
LEMMA LedgerStep == WorkflowInv /\ [Next]_vars => [Ledger!Next]_(Ledger!vars)
<1> SUFFICES ASSUME WorkflowInv, [Next]_vars PROVE Ledger!Next \/ UNCHANGED Ledger!vars
  OBVIOUS
<1>1. CASE UNCHANGED database
  BY <1>1 DEF database, Ledger!vars, LoansOf, OpenLoans
<1>2. ASSUME NEW r \in Requests, pc[r] = "commit", Publish(r)
      PROVE  Ledger!Next \/ UNCHANGED Ledger!vars
  <2>1. RequestInv(r) /\ req[r] \in Input
    BY <1>2 DEF WorkflowInv, RequestInv
  <2>2. CASE r \in CheckoutRequests /\ PublishCheckout(r)
    <3>1. req[r].item \in Items /\ req[r].user \in Users
      BY <1>2, <2>1, <2>2 DEF RequestInv, CheckoutInv
    <3> QED
      BY <1>2, <2>2, <3>1, LendStep DEF Ledger!Next
  <2>3. CASE r \in ReturnRequests /\ PublishReturn(r)
    <3>1. req[r].item \in Items /\ req[r].loan \in CheckoutRequests
      BY <1>2, <2>1, <2>3 DEF RequestInv, ReturnInv
    <3> QED
      BY <1>2, <2>3, <3>1, TakeBackStep DEF Ledger!Next
  <2>4. CASE r \in DeleteRequests /\ PublishDelete(r)
    <3>1. req[r].item \in Items
      BY <1>2, <2>1, <2>4 DEF RequestInv, DeleteInv
    <3>2. PICK i \in Items : i = req[r].item
      BY <3>1
    <3>3. Ledger!Withdraw(i) \/ UNCHANGED Ledger!vars
      BY <1>2, <2>4, <3>2, WithdrawStep
    <3> QED
      BY <3>3 DEF Ledger!Next
  <2>5. CASE r \in ActivationRequests /\ PublishActivation(r)
    <3>1. req[r].user \in Users /\ req[r].enable \in BOOLEAN
      BY <1>2, <2>1, <2>5 DEF RequestInv, ActivationInv, Input
    <3>2. PICK u \in Users, enable \in BOOLEAN : u = req[r].user /\ enable = req[r].enable
      BY <3>1
    <3>3. Ledger!SetActive(u, enable)
      BY <1>2, <2>5, <3>2, SetActiveStep
    <3> QED
      BY <3>3, Zenon DEF Ledger!Next
  <2> QED
    BY <1>2, <2>2, <2>3, <2>4, <2>5 DEF Publish
<1> QED
  BY <1>1, <1>2, OnlyCommitsWrite

\* The transactions, whatever their interleaving, aborts and lost commits,
\* implement the ledger.
THEOREM LedgerImplemented == Spec => ImplementsLedger
BY LedgerInit, LedgerStep, WorkflowInvariant, PTL
DEF Spec, ImplementsLedger, Ledger!Spec
===============================================================================
