--------------------------- MODULE CheckoutListing ---------------------------
(***************************************************************************)
(* The reads of services/checkout.go while checkouts are made, in the      *)
(* server of ServerLifecycle.  A listing counts and then reads a page, in  *)
(* two statements that each see the table of their own moment.  A client   *)
(* walks through its view page by page, or looks up one loan.  Rows are    *)
(* never deleted, but a loan with a smaller id can become visible after    *)
(* one with a larger id: ids are drawn when the row is inserted, and rows  *)
(* are seen when the transaction commits.                                  *)
(***************************************************************************)
EXTENDS ServerLifecycle

CONSTANTS
    Borrowers,
    Items,
    Reads,         \* the requests of the client, in order
    Limits,        \* values of the query parameter limit
    SeedLoans,     \* the loans there are at first
    LoanOf,        \* the item and borrower each request would borrow
    None

MaxLimit == 100    \* maxCheckoutPageLimit
LoanIds == 1..(Cardinality(SeedLoans) + Cardinality(Requests \ Reads))

\* A request of the client is a read and nothing else.
ASSUME ReadsType ==
    /\ Reads \subseteq Requests /\ Reads \subseteq Nat \ {0}
    /\ \A p \in Reads : 1..p \subseteq Reads /\ KindsOf[p] = {"read"}
    /\ \A r \in Requests \ Reads : "read" \notin KindsOf[r]
ASSUME LimitsType == Limits \subseteq Int
ASSUME LoanOfType == LoanOf \in [Requests \ Reads -> [item : Items, borrower : Borrowers]]
\* The primary key, drawn from the sequence so far.
ASSUME SeedLoansType ==
    /\ IsFiniteSet(SeedLoans)
    /\ SeedLoans \subseteq [id : 1..Cardinality(SeedLoans), item : Items, borrower : Borrowers]
    /\ \A l, m \in SeedLoans : l.id = m.id => l = m

VARIABLES
    loans,    \* the committed checkouts
    lastId,   \* the identity sequence of the table
    draft,    \* the id each checkout has drawn
    query,    \* what the client asks for
    total,    \* the count of each listing
    page,     \* the rows of each listing
    before    \* the loans there were when the client began

dataVars == <<loans, lastId, draft>>
readVars == <<query, total, page, before>>
vars == <<serverVars, requestVars, dataVars, readVars>>

\* A borrower reads the own loans, who has CapabilityCheckoutHistoryReadAll all.
Scopes == Borrowers \cup {"all", "none"}

\* GET /checkouts, GET /items/{id}/checkouts, GET /checkouts/{id}.
Queries ==
    [scope : Scopes, item : Items \cup {None}, id : {None}, limit : Limits]
        \cup [scope : Scopes, item : {None}, id : LoanIds, limit : {None}]

\* What the actor of the query may see of a table.
View(table) ==
    {l \in table : /\ query.scope \in {"all", l.borrower}
                   /\ query.item \in {None, l.item}}

Offset(p) == (p - 1) * query.limit

-------------------------------------------------------------------------------
(* The client. *)

BeginWalk ==
    /\ Accept(1, "read")
    /\ query' \in Queries
    /\ before' = loans
    /\ UNCHANGED <<dataVars, total, page>>

Received(p) == pc[p] = "done" /\ answer[p] = "ok"

\* The response of a listing, of page p.
Listed(p) == Received(p) /\ query.id = None

\* A full page may have a successor, a short one is the last.
ShortPage(p) == Cardinality(page[p]) < query.limit

NextPage(p) ==
    /\ p > 1 /\ Listed(p - 1) /\ ~ShortPage(p - 1)
    /\ Accept(p, "read")
    /\ UNCHANGED <<dataVars, readVars>>

-------------------------------------------------------------------------------
(* GetByID, List and ListByItem. *)

\* validateCheckoutPagination; the offset of a walk is never negative.
ValidPagination == query.id # None \/ query.limit \in 1..MaxLimit

Permitted == IF query.item = None THEN query.scope # "none" ELSE query.scope = "all"

\* Mutant: the page is read before the count.
AfterPageFirst(at) ==
    IF at = "resolve" /\ query.id # None THEN "get"
    ELSE IF at = "resolve" /\ query.item # None THEN "item"
    ELSE IF at \in {"resolve", "item"} THEN "page"
    ELSE IF at = "page" THEN "count" ELSE "done"

\* The statement that follows.
After(at) ==
    IF at = "resolve" /\ query.id # None THEN "get"
    ELSE IF at = "resolve" /\ query.item # None THEN "item"
    ELSE IF at \in {"resolve", "item"} THEN "count"
    ELSE IF at = "count" THEN "page" ELSE "done"

\* Authentication; then the route checks the capability, the handler the page.
ResolveReader(p) ==
    /\ p \in Reads
    /\ \/ /\ Statement(p, "resolve", After("resolve"), "pending")
          /\ Permitted /\ ValidPagination
       \/ Statement(p, "resolve", "done", "forbidden") /\ ~Permitted
       \/ Statement(p, "resolve", "done", "invalid_request") /\ Permitted /\ ~ValidPagination
    /\ UNCHANGED <<dataVars, readVars>>

\* An item with loans is never deleted; one without loans may be missing.
GetItem(p) ==
    /\ \/ Statement(p, "item", After("item"), "pending")
       \/ /\ Statement(p, "item", "done", "item_not_found")
          /\ \A l \in loans : l.item # query.item
    /\ UNCHANGED <<dataVars, readVars>>

CountCheckouts(p) ==
    /\ Statement(p, "count", After("count"), "ok")
    /\ total' = [total EXCEPT ![p] = Cardinality(View(loans))]
    /\ UNCHANGED <<dataVars, query, page, before>>

\* Mutant: the page has no ORDER BY.
SomeRowsOf(p, rows) ==
    rows \subseteq View(loans) /\ Cardinality(rows) <= query.limit

\* How many loans of a table are sorted before this one.
Rank(l, table) == Cardinality({m \in table : m.id > l.id})

\* ORDER BY id DESC LIMIT limit OFFSET offset.
RowsOf(p, rows) ==
    rows = {l \in View(loans) :
               Rank(l, View(loans)) \in Offset(p)..(Offset(p) + query.limit - 1)}

ListCheckouts(p) ==
    /\ Statement(p, "page", After("page"), "ok")
    /\ \E rows \in SUBSET loans : RowsOf(p, rows) /\ page' = [page EXCEPT ![p] = rows]
    /\ UNCHANGED <<dataVars, query, total, before>>

\* Mutant: a borrower's lookup does not name the borrower.
FoundAnywhere == {l \in loans : l.id = query.id}

Found == {l \in View(loans) : l.id = query.id}

GetCheckout(p) ==
    /\ Statement(p, "get", "done", IF Found = {} THEN "checkout_not_found" ELSE "ok")
    /\ page' = [page EXCEPT ![p] = Found]
    /\ UNCHANGED <<dataVars, query, total, before>>

-------------------------------------------------------------------------------
(* Checkouts as the table sees them, user updates, and the readiness probe. *)

AcceptOther(r) ==
    /\ \E k \in Kinds \ {"read"} : Accept(r, k)
    /\ UNCHANGED <<dataVars, readVars>>

Transact(w) ==
    /\ \/ kind[w] \in {"checkout", "user_update"} /\ Statement(w, "resolve", "begin", "pending")
       \/ Begin(w)
       \/ kind[w] = "user_update" /\ (Work(w) \/ Commit(w))
    /\ UNCHANGED <<dataVars, readVars>>

InsertLoan(w) ==
    /\ kind[w] = "checkout" /\ Work(w)
    /\ lastId' = lastId + 1
    /\ draft' = [draft EXCEPT ![w] = lastId + 1]
    /\ UNCHANGED <<loans, readVars>>

CommitLoan(w) ==
    /\ kind[w] = "checkout" /\ Commit(w)
    /\ loans' = loans \cup
          {[id |-> draft[w], item |-> LoanOf[w].item, borrower |-> LoanOf[w].borrower]}
    /\ UNCHANGED <<lastId, draft, readVars>>

-------------------------------------------------------------------------------
Init ==
    /\ ServerInit
    /\ loans = SeedLoans /\ lastId = Cardinality(SeedLoans)
    /\ draft = [w \in Requests \ Reads |-> None]
    /\ query = None
    /\ total = [p \in Reads |-> 0]
    /\ page = [p \in Reads |-> {}]
    /\ before = {}

Arrive(r) ==
    \/ r = 1 /\ BeginWalk
    \/ r \in Reads /\ NextPage(r)
    \/ AcceptOther(r)

Read(p) ==
    ResolveReader(p) \/ GetItem(p) \/ CountCheckouts(p) \/ ListCheckouts(p) \/ GetCheckout(p)

Process(action) == action /\ UNCHANGED <<dataVars, readVars>>

Proceed(r) ==
    \/ Read(r) \/ Transact(r) \/ InsertLoan(r) \/ CommitLoan(r)
    \/ Process(Ping(r) \/ PoolRefuses(r) \/ Restore(r))

Next ==
    \/ \E r \in Requests : Arrive(r) \/ Proceed(r) \/ Process(Fail(r))
    \/ Process(ServerNext)

Spec == Init /\ [][Next]_vars

\* Handlers run, the pool serves its waiters, a shutdown runs its course.
FairSpec ==
    /\ Spec
    /\ \A r \in Requests : WF_vars(Proceed(r))
    /\ WF_vars(Process(StopServer))

-------------------------------------------------------------------------------
(* Correctness. *)

\* Every variable has its shape, and the pool its size.
TypeOK ==
    /\ server \in Stages /\ exit \in {"running", "clean", "shutdown_error", "start_error"}
    /\ kind \in [Requests -> Kinds \cup {"unknown"}]
    /\ Cardinality(held) <= MaxConns
    /\ \A r \in Requests : r \in held <=> pc[r] \in {"work", "commit"}
    /\ faults \in 0..MaxFaults
    /\ query \in Queries \cup {None}
    /\ \A l \in loans : l.id \in 1..lastId /\ l.item \in Items /\ l.borrower \in Borrowers
    /\ before \subseteq loans
    /\ \A p \in Reads : total[p] \in 0..Cardinality(loans) /\ page[p] \subseteq loans

\* A client that walks by pages until a short one has seen every loan of its
\* view that was there when it began, though rows moved under its offsets; and
\* nobody ever sees a loan outside the own view (checkout.go:316-330, 361-391).
WalkComplete ==
    \A p \in Reads :
        /\ Received(p) => page[p] \subseteq View(loans)
        /\ Listed(p) /\ ShortPage(p) =>
              View(before) \subseteq UNION {page[q] : q \in 1..p}

\* Count and page disagree in one direction only: the total of a response never
\* promises rows beyond its short page (checkout.go:361-391, 424-441).
ShortPageEndsListing ==
    \A p \in Reads :
        Listed(p) /\ ShortPage(p) => total[p] <= Offset(p) + Cardinality(page[p])
-------------------------------------------------------------------------------
(* Why: a rank grows only, so what a page has not shown stays behind the next
   offset. *)

Answers ==
    {"pending", "ok", "ready", "forbidden", "invalid_request", "item_not_found",
     "checkout_not_found", "not_ready", "error"}

\* Who does what, and how far it can be.
RequestsInv ==
    /\ answer \in [Requests -> Answers]
    /\ \A r \in Requests :
          IF pc[r] = "new" THEN kind[r] = "unknown" ELSE kind[r] \in KindsOf[r]
    /\ \A p \in Reads :
          pc[p] \in {"new", "resolve", "item", "count", "page", "get", "done", "cut"}
    /\ \A w \in Requests \ Reads : pc[w] \notin {"item", "count", "page", "get"}

Drafting(w) == kind[w] = "checkout" /\ pc[w] = "commit"

\* An id is a loan's or a draft's, never both, never two of either.
LoansInv ==
    /\ lastId \in Nat
    /\ IsFiniteSet(loans)
    /\ \A l, m \in loans : l.id = m.id => l = m
    /\ draft \in [Requests \ Reads -> Nat \cup {None}]
    /\ \A w \in Requests \ Reads : Drafting(w) =>
          /\ draft[w] \in 1..lastId
          /\ \A l \in loans : l.id # draft[w]
          /\ \A v \in Requests \ Reads : Drafting(v) /\ draft[v] = draft[w] => v = w

\* The client asks one thing, page after page.
WalkInv ==
    /\ \A p \in Reads : pc[p] # "new" =>
          /\ query \in Queries
          /\ \A q \in 1..(p - 1) : Listed(q) /\ ~ShortPage(q)
    /\ \A p \in Reads : pc[p] \in {"item", "count", "page"} \/ Listed(p) =>
          query.id = None /\ ValidPagination
    /\ \A p \in Reads : pc[p] = "get" => query.id # None

\* What was counted and read of the tables of different moments.
PagesInv ==
    /\ total \in [Reads -> Nat] /\ page \in [Reads -> SUBSET loans]
    /\ \A p \in Reads :
          /\ pc[p] = "page" => total[p] <= Cardinality(View(loans))
          /\ Received(p) => page[p] \subseteq View(loans)
    /\ \A p \in Reads : Listed(p) =>
          \A l \in View(before) :
              \/ l \in UNION {page[q] : q \in 1..p}
              \/ ~ShortPage(p) /\ Rank(l, View(loans)) >= Offset(p) + query.limit

ListingInv ==
    ServerInv /\ TypeOK /\ RequestsInv /\ LoansInv /\ WalkInv /\ PagesInv /\ ShortPageEndsListing
===============================================================================
