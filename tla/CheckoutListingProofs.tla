------------------------- MODULE CheckoutListingProofs -------------------------
(***************************************************************************)
(* Why a walk by pages misses no loan and shows none of others, for every  *)
(* set of loans, borrowers and items, every number of pages, every page    *)
(* size and every number of checkouts made meanwhile.                      *)
(***************************************************************************)
EXTENDS ServerLifecycleProofs, FunctionTheorems

-------------------------------------------------------------------------------
(* Ranks and pages. *)

\* A rank is a number, and does not shrink when the table grows.
LEMMA RankGrows ==
    ASSUME NEW V, NEW W, V \subseteq W, IsFiniteSet(W), NEW l
    PROVE  Rank(l, V) \in Nat /\ Rank(l, W) \in Nat /\ Rank(l, V) <= Rank(l, W)
<1> DEFINE A == {m \in V : m.id > l.id}
           B == {m \in W : m.id > l.id}
<1>1. A \subseteq B /\ B \subseteq W
  OBVIOUS
<1>2. IsFiniteSet(B)
  BY <1>1, FS_Subset
<1>3. IsFiniteSet(A) /\ Cardinality(A) <= Cardinality(B)
  BY <1>1, <1>2, FS_Subset
<1> QED
  BY <1>2, <1>3, FS_CardinalityType DEF Rank

\* The loans of a table, sorted by id: their ranks are the numbers below their
\* number, each once.
LEMMA RanksEnumerate ==
    ASSUME NEW V, IsFiniteSet(V), \A l \in V : l.id \in Nat,
           \A l, m \in V : l.id = m.id => l = m
    PROVE  [l \in V |-> Rank(l, V)] \in Bijection(V, 0..(Cardinality(V) - 1))
<1> DEFINE Above(l) == {m \in V : m.id > l.id}
           N == Cardinality(V)
           T == 0..(N - 1)
           f == [l \in V |-> Rank(l, V)]
<1>1. N \in Nat
  BY FS_CardinalityType
<1>2. ASSUME NEW A, NEW B, A \subseteq B, B \subseteq V, NEW x \in B, x \notin A
      PROVE  Cardinality(A) < Cardinality(B)
  <2>1. IsFiniteSet(B) /\ IsFiniteSet(A)
    BY <1>2, FS_Subset
  <2>2. Cardinality(A) <= Cardinality(B) /\ Cardinality(A) # Cardinality(B)
    BY <1>2, <2>1, FS_Subset
  <2> QED
    BY <2>1, <2>2, FS_CardinalityType
<1>3. ASSUME NEW l \in V PROVE f[l] \in T
  <2>1. Cardinality(Above(l)) < N
    BY <1>2, l \notin Above(l)
  <2>2. Cardinality(Above(l)) \in Nat
    BY FS_Subset, FS_CardinalityType
  <2> QED
    BY <1>1, <2>1, <2>2 DEF Rank
<1>4. ASSUME NEW l \in V, NEW m \in V, l.id < m.id PROVE f[m] < f[l]
  <2>1. Above(m) \subseteq Above(l) /\ m \in Above(l) /\ m \notin Above(m)
    BY <1>4
  <2>2. Above(l) \subseteq V
    OBVIOUS
  <2>3. Cardinality(Above(m)) < Cardinality(Above(l))
    BY <1>2, <2>1, <2>2
  <2> QED
    BY <2>3 DEF Rank
<1>5. f \in Injection(V, T)
  <2>1. ASSUME NEW l \in V, NEW m \in V, f[l] = f[m] PROVE l = m
    <3>1. ~(l.id < m.id) /\ ~(m.id < l.id)
      BY <1>1, <1>3, <1>4, <2>1
    <3> QED
      BY <3>1
  <2>2. f \in [V -> T]
    BY <1>3
  <2> QED
    BY <2>1, <2>2, Fun_IsInj
<1>6. IsFiniteSet(T) /\ Cardinality(T) = N
  BY <1>1, FS_Interval
<1>7. f \in Surjection(V, T)
  BY <1>5, <1>6, FS_Injection
<1> QED
  BY <1>5, <1>7, Fun_IsBij

\* A page shorter than its limit reaches the end of the table.
LEMMA ShortPageIsLast ==
    ASSUME NEW V, IsFiniteSet(V), \A l \in V : l.id \in Nat,
           \A l, m \in V : l.id = m.id => l = m,
           NEW o \in Nat, NEW n \in Nat, NEW P,
           P = {l \in V : Rank(l, V) \in o..(o + n - 1)},
           Cardinality(P) < n
    PROVE  Cardinality(V) <= o + Cardinality(P)
<1> DEFINE N == Cardinality(V)
           f == [l \in V |-> Rank(l, V)]
           end == IF o + n <= N THEN o + n ELSE N
           T == o..(end - 1)
           g == [l \in P |-> f[l]]
<1>1. N \in Nat /\ IsFiniteSet(P) /\ Cardinality(P) \in Nat
  BY FS_Subset, FS_CardinalityType
<1>0. f \in Bijection(V, 0..(N - 1))
  BY RanksEnumerate
<1>3. \A l \in V : f[l] = Rank(l, V)
  OBVIOUS
<1> HIDE DEF f
<1>2. /\ f \in [V -> 0..(N - 1)]
      /\ \A l, m \in V : f[l] = f[m] => l = m
      /\ \A i \in 0..(N - 1) : \E l \in V : f[l] = i
  <2> DEFINE S == 0..(N - 1)
  <2>1. f \in Bijection(V, S)
    BY <1>0
  <2> HIDE DEF S
  <2>2. f \in [V -> S]
    BY <2>1, Fun_BijectionProperties
  <2>3. \A l, m \in V : f[l] = f[m] => l = m
    BY <2>1, Fun_BijectionProperties
  <2>4. \A i \in S : \E l \in V : f[l] = i
    BY <2>1, Fun_BijectionProperties
  <2> QED
    BY <2>2, <2>3, <2>4 DEF S
<1>4. CASE N <= o
  BY <1>1, <1>4
<1>5. CASE N > o
  <2>1. end \in Nat /\ end <= N /\ end > o /\ end <= o + n
    BY <1>1, <1>5
  <2>2. P = {l \in V : f[l] \in T}
    BY <1>1, <1>2, <1>3
  <2>3. g \in [P -> T]
    BY <2>2
  <2>4. \A l, m \in P : g[l] = g[m] => l = m
    BY <1>2, <2>2
  <2>5. \A i \in T : \E l \in P : g[l] = i
    <3> SUFFICES ASSUME NEW i \in T PROVE \E l \in P : g[l] = i
      OBVIOUS
    <3>1. i \in 0..(N - 1)
      BY <1>1, <2>1
    <3>2. PICK l \in V : f[l] = i
      BY <1>2, <3>1
    <3> QED
      BY <2>2, <3>2
  <2> HIDE DEF g, end
  <2>6. g \in Bijection(P, T)
    BY <2>3, <2>4, <2>5, Fun_IsBij
  <2>7. Cardinality(P) = Cardinality(T)
    BY <1>1, <2>6, FS_Bijection DEF ExistsBijection
  <2>8. Cardinality(T) = end - o
    BY <2>1, FS_Interval
  <2> QED
    BY <1>1, <2>1, <2>7, <2>8 DEF end
<1> QED
  BY <1>1, <1>4, <1>5

-------------------------------------------------------------------------------
(* Requests. *)

Answered(r) == answer' = answer \/ \E a \in Answers : answer' = [answer EXCEPT ![r] = a]

\* What a request that goes on keeps.
LEMMA RequestGoesOn ==
    ASSUME ServerInv, TypeOK, RequestsInv, NEW r \in Requests, NEW next \in Steps \ {"new"},
           pc[r] # "new", pc' = [pc EXCEPT ![r] = next], kind' = kind, Answered(r),
           r \in Reads => next \in {"resolve", "item", "count", "page", "get", "done", "cut"},
           r \notin Reads => next \notin {"item", "count", "page", "get"}
    PROVE  RequestsInv'
<1>1. pc'[r] = next /\ \A q \in Requests \ {r} : pc'[q] = pc[q]
  BY DEF ServerInv
<1>2. answer' \in [Requests -> Answers]
  BY DEF Answered, RequestsInv
<1>3. Reads \subseteq Requests
  BY ReadsType
<1> QED
  BY <1>1, <1>2, <1>3 DEF RequestsInv

\* A read is nothing else, and nothing else a read.
LEMMA KindsApart ==
    ASSUME RequestsInv, NEW r \in Requests, pc[r] # "new"
    PROVE  r \in Reads <=> kind[r] = "read"
<1>1. kind[r] \in KindsOf[r]
  BY DEF RequestsInv
<1>2. CASE r \in Reads
  BY <1>1, <1>2, ReadsType
<1>3. CASE r \notin Reads
  <2>1. "read" \notin KindsOf[r]
    BY <1>3, ReadsType
  <2> QED
    BY <1>1, <1>3, <2>1
<1> QED
  BY <1>2, <1>3

LEMMA AcceptRequests ==
    ASSUME ServerInv, TypeOK, RequestsInv, NEW r \in Requests, NEW k, Accept(r, k)
    PROVE  /\ RequestsInv'
           /\ k = "read" <=> r \in Reads
           /\ kind' \in [Requests -> Kinds \cup {"unknown"}]
           /\ pc[r] = "new" /\ pc'[r] \in {"resolve", "ping"} /\ answer' = answer
           /\ \A q \in Requests \ {r} : pc'[q] = pc[q] /\ kind'[q] = kind[q]
<1>1. /\ pc[r] = "new" /\ k \in KindsOf[r] /\ answer' = answer
      /\ pc' = [pc EXCEPT ![r] = IF k = "probe" THEN "ping" ELSE "resolve"]
      /\ kind' = [kind EXCEPT ![r] = k]
  BY DEF Accept, Goto
<1>2. k \in Kinds /\ (k = "read" <=> r \in Reads) /\ Reads \subseteq Requests
  BY <1>1, ReadsType, KindsOfType
<1>3. /\ pc'[r] = (IF k = "probe" THEN "ping" ELSE "resolve") /\ kind'[r] = k
      /\ \A q \in Requests \ {r} : pc'[q] = pc[q] /\ kind'[q] = kind[q]
  BY <1>1 DEF ServerInv, TypeOK
<1>4. kind' \in [Requests -> Kinds \cup {"unknown"}]
  BY <1>1, <1>2 DEF TypeOK
<1>5. r \in Reads => pc'[r] = "resolve"
  BY <1>2, <1>3
<1>6. \A q \in Requests : IF pc'[q] = "new" THEN kind'[q] = "unknown" ELSE kind'[q] \in KindsOf[q]
  BY <1>1, <1>3 DEF RequestsInv
<1>7. RequestsInv'
  BY <1>1, <1>2, <1>3, <1>5, <1>6 DEF RequestsInv
<1> QED
  BY <1>1, <1>2, <1>3, <1>4, <1>7

LEMMA StatementRequests ==
    ASSUME ServerInv, TypeOK, RequestsInv, NEW r \in Requests, NEW at \in OnPool,
           NEW next \in OnPool \cup {"done"}, NEW a \in Answers, Statement(r, at, next, a),
           r \in Reads => next \notin {"ping", "begin"},
           r \notin Reads => next \notin {"item", "count", "page", "get"}
    PROVE  RequestsInv'
<1>1. pc[r] = at /\ pc' = [pc EXCEPT ![r] = next] /\ kind' = kind /\ Answered(r)
  BY DEF Statement, Goto, Say, Answered
<1>2. at # "new" /\ next \in Steps \ {"new"}
  BY DEF OnPool, Steps
<1>3. r \in Reads => next \in {"resolve", "item", "count", "page", "get", "done", "cut"}
  BY DEF OnPool
<1> QED
  BY <1>1, <1>2, <1>3, RequestGoesOn

\* What a request outside the reads does, and how any request fails.
LEMMA OtherRequests ==
    ASSUME ServerInv, TypeOK, RequestsInv, NEW r \in Requests,
           \/ r \notin Reads /\ (Begin(r) \/ Work(r) \/ Commit(r) \/ Restore(r))
           \/ Fail(r) \/ PoolRefuses(r)
    PROVE  RequestsInv'
<1>1. PICK next \in {"work", "commit", "done", "restore"} :
         /\ pc' = [pc EXCEPT ![r] = next] /\ kind' = kind
         /\ r \in Reads => next = "done"
  <2>1. CASE r \notin Reads /\ (Begin(r) \/ Work(r) \/ Commit(r) \/ Restore(r))
    BY <2>1 DEF Begin, Work, Commit, Restore, Goto
  <2>2. CASE PoolRefuses(r)
    BY <2>2 DEF PoolRefuses, Goto
  <2>3. CASE Fail(r)
    <3>1. r \in Reads => AfterFailure(r) = {"done"}
      BY <2>3, KindsApart DEF AfterFailure, Fail, OnPool
    <3>2. AfterFailure(r) \subseteq {"done", "restore"}
      BY DEF AfterFailure
    <3> QED
      BY <2>3, <3>1, <3>2 DEF Fail, Goto
  <2> QED
    BY <2>1, <2>2, <2>3
<1>2. Answered(r)
  <2>1. FailedAnswer(r) \in Answers
    BY DEF FailedAnswer, Answers
  <2>2. CASE Fail(r) \/ PoolRefuses(r)
    BY <2>1, <2>2 DEF Fail, PoolRefuses, Say, Answered
  <2>3. CASE Begin(r) \/ Work(r) \/ Commit(r) \/ Restore(r)
    BY <2>3 DEF Begin, Work, Commit, Restore, Say, Answered, Answers
  <2> QED
    BY <2>2, <2>3
<1>3. pc[r] # "new"
  BY DEF Begin, Work, Commit, Restore, Fail, PoolRefuses, OnPool
<1>4. next \in Steps \ {"new"}
  BY DEF Steps
<1> QED
  BY <1>1, <1>2, <1>3, <1>4, RequestGoesOn

\* Who reads, and who does not.
LEMMA ReaderSteps ==
    ASSUME ServerInv, TypeOK, RequestsInv, NEW r \in Requests
    PROVE  /\ Read(r) => r \in Reads
           /\ Transact(r) \/ InsertLoan(r) \/ CommitLoan(r) => r \notin Reads
           /\ Ping(r) \/ Begin(r) \/ Work(r) \/ Commit(r) \/ Restore(r) => r \notin Reads
<1>1. pc[r] \in {"item", "count", "page", "get"} => r \in Reads
  BY DEF RequestsInv
<1>2. pc[r] \in {"ping", "begin", "work", "commit", "restore"} => r \notin Reads
  BY DEF RequestsInv
<1>3. Read(r) => r \in Reads
  BY <1>1 DEF Read, ResolveReader, GetItem, CountCheckouts, ListCheckouts, GetCheckout, Statement
<1>4. Ping(r) \/ Begin(r) \/ Work(r) \/ Commit(r) \/ Restore(r) => r \notin Reads
  BY <1>2 DEF Ping, Statement, Begin, Work, Commit, Restore
<1>5. kind[r] = "user_update" /\ pc[r] = "resolve" => r \notin Reads
  BY KindsApart
<1>6. kind[r] = "checkout" /\ pc[r] = "resolve" => r \notin Reads
  BY KindsApart
<1> QED
  BY <1>3, <1>4, <1>5, <1>6 DEF Transact, InsertLoan, CommitLoan, Statement

LEMMA ReadRequests ==
    ASSUME ServerInv, TypeOK, RequestsInv, NEW p \in Requests, Read(p)
    PROVE  RequestsInv'
<1>1. p \in Reads
  BY ReaderSteps
<1>2. \A at \in OnPool : After(at) \in {"get", "item", "count", "page", "done"}
  BY DEF After, OnPool
<1>3. {"get", "item", "count", "page", "done"} \subseteq OnPool \cup {"done"}
  BY DEF OnPool
<1>4. {"resolve", "get", "item", "count", "page"} \subseteq OnPool
  BY DEF OnPool
<1>5. \A at, a : \A next \in {"get", "item", "count", "page", "done"} :
         at \in OnPool /\ a \in Answers /\ Statement(p, at, next, a) => RequestsInv'
  BY <1>1, <1>3, StatementRequests
<1>6. CASE ResolveReader(p)
  BY <1>2, <1>4, <1>5, <1>6 DEF ResolveReader, Answers
<1>7. CASE GetItem(p)
  BY <1>2, <1>4, <1>5, <1>7 DEF GetItem, Answers
<1>8. CASE CountCheckouts(p)
  BY <1>2, <1>4, <1>5, <1>8 DEF CountCheckouts, Answers
<1>9. CASE ListCheckouts(p)
  BY <1>2, <1>4, <1>5, <1>9 DEF ListCheckouts, Answers
<1>10. CASE GetCheckout(p)
  BY <1>2, <1>4, <1>5, <1>10 DEF GetCheckout, Answers
<1> QED
  BY <1>6, <1>7, <1>8, <1>9, <1>10 DEF Read

LEMMA ProceedRequests ==
    ASSUME ServerInv, TypeOK, RequestsInv, NEW r \in Requests, Proceed(r) \/ Process(Fail(r))
    PROVE  RequestsInv'
<1>1. CASE Read(r)
  BY <1>1, ReadRequests
<1>2. ASSUME r \notin Reads, NEW at \in {"ping", "resolve"}, NEW next \in {"begin", "done"},
             NEW a \in Answers, Statement(r, at, next, a)
      PROVE  RequestsInv'
  <2>1. at \in OnPool /\ next \in OnPool \cup {"done"}
    BY DEF OnPool
  <2> QED
    BY <1>2, <2>1, StatementRequests
<1>3. CASE Transact(r)
  BY <1>2, <1>3, ReaderSteps, OtherRequests DEF Transact, Answers
<1>4. CASE InsertLoan(r) \/ CommitLoan(r)
  BY <1>4, ReaderSteps, OtherRequests DEF InsertLoan, CommitLoan
<1>5. CASE Process(Ping(r) \/ PoolRefuses(r) \/ Restore(r)) \/ Process(Fail(r))
  BY <1>2, <1>5, ReaderSteps, OtherRequests DEF Process, Ping, Answers
<1> QED
  BY <1>1, <1>3, <1>4, <1>5 DEF Proceed

LEMMA ServerRequests ==
    ASSUME ServerInv, TypeOK, RequestsInv, ServerNext
    PROVE  /\ RequestsInv' /\ UNCHANGED <<kind, answer, faults>>
           /\ \A r \in Requests : pc'[r] # pc[r] => pc'[r] = "cut"
           /\ \A r \in Requests : pc[r] \in {"new", "done"} => pc'[r] = pc[r]
<1>1. UNCHANGED <<kind, answer, faults>>
  BY DEF ServerNext, StopServer, Start, StartFails, Signal, Drained, GraceExpires, Exit,
         requestVars
<1>2. \A r \in Requests : IF InFlight(r) THEN pc'[r] \in {pc[r], "cut"} ELSE pc'[r] = pc[r]
  <2>1. CASE Exit
    BY <2>1 DEF Exit, CutOff
  <2>2. CASE ~Exit
    BY <2>2 DEF ServerNext, StopServer, Start, StartFails, Signal, Drained, GraceExpires,
                requestVars
  <2> QED
    BY <2>1, <2>2
<1>3. /\ \A r \in Requests : pc'[r] # pc[r] => pc'[r] = "cut"
      /\ \A r \in Requests : pc[r] \in {"new", "done"} => pc'[r] = pc[r]
      /\ \A r \in Requests : pc'[r] = "new" <=> pc[r] = "new"
  BY <1>2 DEF InFlight
<1> QED
  BY <1>1, <1>3, ReadsType DEF RequestsInv

-------------------------------------------------------------------------------
(* Loans and drafts. *)

NoNewDraft == \A w \in Requests \ Reads : Drafting(w)' => Drafting(w)

LEMMA DraftsStay ==
    ASSUME LoansInv, UNCHANGED dataVars, NoNewDraft
    PROVE  LoansInv'
BY DEF LoansInv, dataVars, NoNewDraft

\* The sequence gives an id to one draft.
LEMMA InsertKeepsLoans ==
    ASSUME ServerInv, TypeOK, RequestsInv, LoansInv, NEW w \in Requests, InsertLoan(w)
    PROVE  LoansInv' /\ lastId' = lastId + 1 /\ loans' = loans
<1>1. w \in Requests \ Reads
  BY ReaderSteps
<1>2. /\ pc' = [pc EXCEPT ![w] = "commit"] /\ kind' = kind /\ loans' = loans
      /\ lastId' = lastId + 1 /\ draft' = [draft EXCEPT ![w] = lastId + 1]
  BY DEF InsertLoan, Work, Goto, readVars
<1>3. /\ draft'[w] = lastId + 1 /\ lastId \in Nat
      /\ \A v \in Requests \ Reads : v # w =>
            draft'[v] = draft[v] /\ (Drafting(v)' => Drafting(v))
  BY <1>1, <1>2 DEF ServerInv, LoansInv, Drafting
<1>4. \A l \in loans : l.id \in 1..lastId
  BY DEF TypeOK
<1>5. \A v \in Requests \ Reads : v # w /\ Drafting(v)' =>
         draft'[v] \in 1..lastId /\ \A l \in loans : l.id # draft'[v]
  BY <1>3 DEF LoansInv
<1>6. \A u, v \in Requests \ Reads :
         Drafting(u)' /\ Drafting(v)' /\ draft'[u] = draft'[v] => u = v
  <2> SUFFICES ASSUME NEW u \in Requests \ Reads, NEW v \in Requests \ Reads,
                      Drafting(u)', Drafting(v)', draft'[u] = draft'[v], u # v
               PROVE  FALSE
    OBVIOUS
  <2>1. CASE u = w \/ v = w
    BY <1>3, <1>5, <2>1
  <2>2. CASE u # w /\ v # w
    BY <1>3, <2>2 DEF LoansInv
  <2> QED
    BY <2>1, <2>2
<1>7. \A v \in Requests \ Reads : Drafting(v)' =>
         draft'[v] \in 1..lastId' /\ \A l \in loans : l.id # draft'[v]
  BY <1>2, <1>3, <1>4, <1>5
<1>8. draft' \in [Requests \ Reads -> Nat \cup {None}] /\ lastId' \in Nat
  <2>1. draft \in [Requests \ Reads -> Nat \cup {None}] /\ lastId + 1 \in Nat
    BY <1>3 DEF LoansInv
  <2> QED
    BY <1>2, <2>1
<1> QED
  BY <1>2, <1>6, <1>7, <1>8 DEF LoansInv

\* A commit makes one draft a loan.
LEMMA CommitKeepsLoans ==
    ASSUME ServerInv, TypeOK, RequestsInv, LoansInv, NEW w \in Requests, CommitLoan(w)
    PROVE  /\ LoansInv' /\ lastId' = lastId /\ loans \subseteq loans'
           /\ \A l \in loans' :
                 l.id \in 1..lastId /\ l.item \in Items /\ l.borrower \in Borrowers
<1> DEFINE new == [id |-> draft[w], item |-> LoanOf[w].item, borrower |-> LoanOf[w].borrower]
<1>1. w \in Requests \ Reads
  BY ReaderSteps
<1>2. /\ pc[w] = "commit" /\ kind[w] = "checkout"
      /\ pc' = [pc EXCEPT ![w] = "done"] /\ kind' = kind /\ loans' = loans \cup {new}
      /\ lastId' = lastId /\ draft' = draft
  BY DEF CommitLoan, Commit, Goto
<1>3. Drafting(w) /\ ~Drafting(w)' /\ \A v \in Requests \ Reads : Drafting(v)' => Drafting(v)
  BY <1>1, <1>2 DEF ServerInv, Drafting
<1>4. draft[w] \in 1..lastId /\ \A l \in loans : l.id # draft[w]
  BY <1>1, <1>3 DEF LoansInv
<1>5. new.id = draft[w] /\ new.item \in Items /\ new.borrower \in Borrowers
  BY <1>1, LoanOfType
<1>6. \A l \in loans' : l.id \in 1..lastId /\ l.item \in Items /\ l.borrower \in Borrowers
  <2>1. \A l \in loans : l.id \in 1..lastId /\ l.item \in Items /\ l.borrower \in Borrowers
    BY DEF TypeOK
  <2> QED
    BY <1>2, <1>4, <1>5, <2>1
<1>7. \A l, m \in loans' : l.id = m.id => l = m
  BY <1>2, <1>4, <1>5 DEF LoansInv
<1>8. IsFiniteSet(loans')
  BY <1>2, FS_AddElement DEF LoansInv
<1>9. \A v \in Requests \ Reads : Drafting(v)' => \A l \in loans' : l.id # draft[v]
  <2> SUFFICES ASSUME NEW v \in Requests \ Reads, Drafting(v)'
               PROVE  \A l \in loans' : l.id # draft[v]
    OBVIOUS
  <2>1. v # w /\ Drafting(v)
    BY <1>3
  <2>2. draft[v] # draft[w]
    BY <1>1, <1>3, <2>1 DEF LoansInv
  <2>3. \A l \in loans : l.id # draft[v]
    BY <2>1 DEF LoansInv
  <2> QED
    BY <1>2, <1>5, <2>2, <2>3
<1>10. LoansInv'
  BY <1>2, <1>3, <1>7, <1>8, <1>9 DEF LoansInv
<1> QED
  BY <1>2, <1>6, <1>10

-------------------------------------------------------------------------------
(* Steps that read no page. *)

\* No reader gets anything; who goes on asks for what the query asks.
Quiet ==
    /\ UNCHANGED readVars
    /\ \A p \in Reads :
          /\ pc'[p] = "new" <=> pc[p] = "new"
          /\ Received(p)' <=> Received(p)
          /\ pc'[p] = "page" => pc[p] = "page"
          /\ pc'[p] \in {"item", "count"} => query.id = None /\ ValidPagination
          /\ pc'[p] = "get" => query.id # None

\* A step outside the reads.
LEMMA OthersQuiet ==
    ASSUME ServerInv, TypeOK, RequestsInv, WalkInv, UNCHANGED readVars,
           \A p \in Reads : pc'[p] = pc[p] /\ answer'[p] = answer[p]
    PROVE  Quiet
BY DEF Quiet, Received, WalkInv

\* A step of a read that goes on, or ends without rows.
LEMMA ReaderQuiet ==
    ASSUME ServerInv, TypeOK, RequestsInv, WalkInv, UNCHANGED readVars, NEW p \in Reads,
           NEW next, NEW a, pc[p] \in OnPool,
           pc' = [pc EXCEPT ![p] = next], answer' = [answer EXCEPT ![p] = a],
           next \in {"item", "count", "get", "done"}, next = "done" => a # "ok",
           next \in {"item", "count"} => query.id = None /\ ValidPagination,
           next = "get" => query.id # None
    PROVE  Quiet
<1>1. p \in Requests
  BY ReadsType
<1>2. /\ pc'[p] = next /\ answer'[p] = a
      /\ \A q \in Reads : q # p => pc'[q] = pc[q] /\ answer'[q] = answer[q]
  BY <1>1, ReadsType DEF ServerInv, RequestsInv
<1>3. pc[p] # "new" /\ pc[p] # "done"
  BY DEF OnPool
<1> QED
  BY <1>2, <1>3 DEF Quiet, Received, WalkInv

LEMMA ResolveQuiet ==
    ASSUME ServerInv, TypeOK, RequestsInv, WalkInv, NEW p \in Requests, ResolveReader(p)
    PROVE  Quiet
<1>1. p \in Reads /\ pc[p] = "resolve" /\ pc[p] \in OnPool /\ UNCHANGED readVars
  BY DEF ResolveReader, Statement, OnPool
<1>2. CASE Statement(p, "resolve", After("resolve"), "pending") /\ ValidPagination
  <2>1. /\ After("resolve") \in {"item", "count", "get"}
        /\ After("resolve") = "get" <=> query.id # None
    BY DEF After
  <2>2. pc' = [pc EXCEPT ![p] = After("resolve")] /\ answer' = [answer EXCEPT ![p] = "pending"]
    BY <1>2 DEF Statement, Goto, Say
  <2> QED
    BY <1>1, <1>2, <2>1, <2>2, ReaderQuiet
<1>3. ASSUME NEW a \in {"forbidden", "invalid_request"}, Statement(p, "resolve", "done", a)
      PROVE  Quiet
  BY <1>1, <1>3, ReaderQuiet DEF Statement, Goto, Say
<1> QED
  BY <1>2, <1>3 DEF ResolveReader

LEMMA ItemQuiet ==
    ASSUME ServerInv, TypeOK, RequestsInv, WalkInv, NEW p \in Requests, GetItem(p)
    PROVE  Quiet
<1>1. /\ p \in Reads /\ pc[p] = "item" /\ pc[p] \in OnPool /\ UNCHANGED readVars
      /\ After("item") = "count"
  BY ReaderSteps DEF Read, GetItem, Statement, OnPool, After
<1>2. query.id = None /\ ValidPagination
  BY <1>1 DEF WalkInv
<1>3. \E next \in {"count", "done"}, a \in {"pending", "item_not_found"} :
         /\ pc' = [pc EXCEPT ![p] = next] /\ answer' = [answer EXCEPT ![p] = a]
  BY <1>1 DEF GetItem, Statement, Goto, Say
<1> QED
  BY <1>1, <1>2, <1>3, ReaderQuiet

\* How a read fails, and what anyone else does.
LEMMA EndQuiet ==
    ASSUME ServerInv, TypeOK, RequestsInv, WalkInv, NEW r \in Requests, UNCHANGED readVars,
           \/ Fail(r) \/ PoolRefuses(r) \/ Ping(r) \/ Begin(r) \/ Work(r) \/ Commit(r)
           \/ Restore(r) \/ Transact(r)
    PROVE  Quiet
<1>1. CASE r \notin Reads
  <2>1. \A q \in Requests : q # r => pc'[q] = pc[q] /\ answer'[q] = answer[q]
    BY DEF Fail, PoolRefuses, Ping, Begin, Work, Commit, Restore, Transact, Statement, Goto,
           Say, ServerInv, RequestsInv
  <2> QED
    BY <1>1, <2>1, ReadsType, OthersQuiet
<1>2. CASE r \in Reads
  <2>1. Fail(r) \/ PoolRefuses(r)
    BY <1>2, ReaderSteps
  <2>2. pc[r] \in OnPool
    BY <1>2, <2>1 DEF Fail, PoolRefuses, RequestsInv
  <2>3. pc' = [pc EXCEPT ![r] = "done"]
    <3>1. kind[r] = "read"
      BY <1>2, <2>2, KindsApart DEF OnPool
    <3>2. AfterFailure(r) = {"done"}
      BY <3>1 DEF AfterFailure
    <3> QED
      BY <2>1, <3>2 DEF Fail, PoolRefuses, Goto
  <2>4. answer' = [answer EXCEPT ![r] = FailedAnswer(r)] /\ FailedAnswer(r) # "ok"
    BY <2>1 DEF Fail, PoolRefuses, Say, FailedAnswer
  <2> QED
    BY <1>2, <2>2, <2>3, <2>4, ReaderQuiet
<1> QED
  BY <1>1, <1>2

LEMMA ServerQuiet ==
    ASSUME ServerInv, TypeOK, RequestsInv, WalkInv, UNCHANGED readVars, ServerNext
    PROVE  Quiet
<1>1. /\ answer' = answer
      /\ \A r \in Requests : pc'[r] # pc[r] => pc'[r] = "cut"
      /\ \A r \in Requests : pc[r] \in {"new", "done"} => pc'[r] = pc[r]
  BY ServerRequests
<1>2. Reads \subseteq Requests
  BY ReadsType
<1> QED
  BY <1>1, <1>2 DEF Quiet, Received, WalkInv

\* A view of the loans is finite and has their ids.
LEMMA ViewOfLoans ==
    ASSUME TypeOK, LoansInv
    PROVE  /\ View(loans) \subseteq loans /\ IsFiniteSet(View(loans))
           /\ \A l \in View(loans) : l.id \in Nat
           /\ \A l, m \in View(loans) : l.id = m.id => l = m
           /\ Cardinality(View(loans)) \in Nat /\ Cardinality(loans) \in Nat
           /\ Cardinality(View(loans)) <= Cardinality(loans)
<1>1. View(loans) \subseteq loans
  BY DEF View
<1>2. IsFiniteSet(loans) /\ \A l, m \in loans : l.id = m.id => l = m
  BY DEF LoansInv
<1>3. \A l \in loans : l.id \in Nat
  BY DEF TypeOK
<1>4. /\ IsFiniteSet(View(loans)) /\ Cardinality(View(loans)) \in Nat
      /\ Cardinality(loans) \in Nat /\ Cardinality(View(loans)) <= Cardinality(loans)
  BY <1>1, <1>2, FS_Subset, FS_CardinalityType
<1> QED
  BY <1>1, <1>2, <1>3, <1>4

\* More loans make more of every view.
LEMMA ViewGrows ==
    ASSUME TypeOK, LoansInv, LoansInv', loans \subseteq loans', query' = query
    PROVE  /\ View(loans) \subseteq View(loans)' /\ IsFiniteSet(View(loans)')
           /\ Cardinality(View(loans)) <= Cardinality(View(loans)')
           /\ Cardinality(loans) <= Cardinality(loans')
<1>1. View(loans) \subseteq View(loans)' /\ View(loans)' \subseteq loans'
  BY DEF View
<1>2. IsFiniteSet(loans')
  BY DEF LoansInv
<1>3. IsFiniteSet(View(loans)')
  BY <1>1, <1>2, FS_Subset
<1> QED
  BY <1>1, <1>2, <1>3, FS_Subset

\* A page before another was a read of the client too.
LEMMA EarlierPage ==
    ASSUME NEW p \in Reads, NEW q \in 1..p
    PROVE  q \in Reads /\ p \in Nat \ {0}
BY ReadsType

\* An offset goes on by the limit.
LEMMA NextOffset ==
    ASSUME NEW p \in Nat, p > 1, query.limit \in Nat
    PROVE  Offset(p) = Offset(p - 1) + query.limit
<1> DEFINE n == query.limit
<1>1. ASSUME NEW k \in Int, NEW m \in Nat PROVE k * m = (k - 1) * m + m
  BY <1>1
<1>2. p - 1 \in Int /\ (p - 1) - 1 \in Int
  OBVIOUS
<1> QED
  BY <1>1, <1>2 DEF Offset

LEMMA QuietKeeps ==
    ASSUME TypeOK, LoansInv, WalkInv, PagesInv, ShortPageEndsListing,
           Quiet, LoansInv', loans \subseteq loans'
    PROVE  WalkInv' /\ PagesInv' /\ ShortPageEndsListing'
<1>1. query' = query /\ total' = total /\ page' = page /\ before' = before
  BY DEF Quiet, readVars
<1>2. \A p \in Reads :
         /\ pc'[p] = "new" <=> pc[p] = "new"
         /\ Received(p)' <=> Received(p)
         /\ Listed(p)' <=> Listed(p)
         /\ ShortPage(p)' <=> ShortPage(p)
         /\ Offset(p)' = Offset(p)
  BY <1>1 DEF Quiet, Listed, ShortPage, Offset
<1>3. WalkInv'
  <2>1. \A p \in Reads : pc'[p] # "new" =>
           query' \in Queries /\ \A q \in 1..(p - 1) : Listed(q)' /\ ~ShortPage(q)'
    <3> SUFFICES ASSUME NEW p \in Reads, pc'[p] # "new"
                 PROVE  query' \in Queries /\ \A q \in 1..(p - 1) : Listed(q)' /\ ~ShortPage(q)'
      OBVIOUS
    <3>1. query \in Queries /\ \A q \in 1..(p - 1) : Listed(q) /\ ~ShortPage(q)
      BY <1>2 DEF WalkInv
    <3>2. \A q \in 1..(p - 1) : q \in Reads
      BY ReadsType
    <3> QED
      BY <1>1, <1>2, <3>1, <3>2
  <2>2. \A p \in Reads : pc'[p] \in {"item", "count", "page"} \/ Listed(p)' =>
           query'.id = None /\ ValidPagination'
    <3> SUFFICES ASSUME NEW p \in Reads, pc'[p] \in {"item", "count", "page"} \/ Listed(p)'
                 PROVE  query.id = None /\ ValidPagination
      BY <1>1 DEF ValidPagination
    <3>1. CASE pc'[p] \in {"item", "count"}
      BY <3>1 DEF Quiet
    <3>2. CASE pc'[p] = "page" \/ Listed(p)'
      <4>1. pc[p] = "page" \/ Listed(p)
        BY <1>2, <3>2 DEF Quiet
      <4> QED
        BY <4>1 DEF WalkInv
    <3> QED
      BY <3>1, <3>2
  <2>3. \A p \in Reads : pc'[p] = "get" => query'.id # None
    BY <1>1 DEF Quiet
  <2> QED
    BY <2>1, <2>2, <2>3 DEF WalkInv
<1>4. PagesInv'
  <2>1. total' \in [Reads -> Nat] /\ page' \in [Reads -> SUBSET loans']
    BY <1>1 DEF PagesInv
  <2>2. \A p \in Reads : pc'[p] = "page" => total'[p] <= Cardinality(View(loans)')
    <3> SUFFICES ASSUME NEW p \in Reads, pc'[p] = "page"
                 PROVE  total'[p] <= Cardinality(View(loans)')
      OBVIOUS
    <3>1. total[p] <= Cardinality(View(loans)) /\ total[p] \in Nat
      BY DEF Quiet, PagesInv
    <3>2. Cardinality(View(loans)) \in Nat /\ Cardinality(View(loans)') \in Nat
      BY <1>1, ViewOfLoans, ViewGrows, FS_CardinalityType
    <3> QED
      BY <1>1, <3>1, <3>2, ViewGrows
  <2>3. \A p \in Reads : Received(p)' => page'[p] \subseteq View(loans)'
    BY <1>1, <1>2, ViewGrows DEF PagesInv
  <2>4. \A p \in Reads : Listed(p)' => \A l \in View(before)' :
           \/ l \in UNION {page'[q] : q \in 1..p}
           \/ ~ShortPage(p)' /\ Rank(l, View(loans)') >= Offset(p)' + query'.limit
    <3> SUFFICES ASSUME NEW p \in Reads, Listed(p)', NEW l \in View(before)',
                        l \notin UNION {page'[q] : q \in 1..p}
                 PROVE  ~ShortPage(p)' /\ Rank(l, View(loans)') >= Offset(p)' + query'.limit
      OBVIOUS
    <3>1. Listed(p) /\ l \in View(before) /\ l \notin UNION {page[q] : q \in 1..p}
      BY <1>1, <1>2 DEF View
    <3>2. ~ShortPage(p) /\ Rank(l, View(loans)) >= Offset(p) + query.limit
      BY <3>1 DEF PagesInv
    <3>3. /\ Rank(l, View(loans)) \in Nat /\ Rank(l, View(loans)') \in Nat
          /\ Rank(l, View(loans)) <= Rank(l, View(loans)')
      BY <1>1, ViewGrows, RankGrows
    <3>4. Offset(p) + query.limit \in Int
      <4>1. p \in Int /\ query.limit \in Int
        BY <3>1, ReadsType DEF WalkInv, ValidPagination, MaxLimit
      <4> QED
        BY <4>1 DEF Offset
    <3> QED
      BY <1>1, <1>2, <3>2, <3>3, <3>4
  <2> QED
    BY <2>1, <2>2, <2>3, <2>4 DEF PagesInv
<1>5. ShortPageEndsListing'
  BY <1>1, <1>2 DEF ShortPageEndsListing
<1> QED
  BY <1>3, <1>4, <1>5

-------------------------------------------------------------------------------
(* Steps of the walk. *)

ReadsInv == WalkInv /\ PagesInv /\ ShortPageEndsListing

\* Nobody has read anything when the client begins.
LEMMA BeginKeeps ==
    ASSUME ServerInv, TypeOK, RequestsInv, LoansInv, ReadsInv, 1 \in Requests, BeginWalk
    PROVE  ReadsInv' /\ query' \in Queries
<1>1. /\ 1 \in Reads /\ pc[1] = "new" /\ pc'[1] \in {"resolve", "ping"}
      /\ \A q \in Requests : q # 1 => pc'[q] = pc[q]
  BY AcceptRequests DEF BeginWalk
<1>2. query' \in Queries /\ before' = loans /\ total' = total /\ page' = page /\ loans' = loans
  BY DEF BeginWalk, dataVars
<1>3. \A p \in Reads : pc[p] = "new"
  <2> SUFFICES ASSUME NEW p \in Reads, pc[p] # "new"
               PROVE  FALSE
    OBVIOUS
  <2>1. p # 1 /\ p \in Nat \ {0} /\ 1 \in 1..(p - 1)
    BY <1>1, ReadsType
  <2>2. Listed(1)
    BY <2>1 DEF ReadsInv, WalkInv
  <2> QED
    BY <1>1, <2>2 DEF Listed, Received
<1>4. \A p \in Reads : p # 1 => pc'[p] = "new"
  BY <1>1, <1>3, ReadsType
<1>5. pc'[1] = "resolve"
  BY AcceptRequests DEF BeginWalk, RequestsInv
<1>6. \A p \in Reads : ~Received(p)' /\ ~Listed(p)' /\ pc'[p] \in {"new", "resolve"}
  BY <1>4, <1>5 DEF Received, Listed
<1>7. WalkInv'
  BY <1>2, <1>4, <1>6 DEF WalkInv
<1>8. PagesInv' /\ ShortPageEndsListing'
  BY <1>2, <1>6 DEF ReadsInv, PagesInv, ShortPageEndsListing
<1> QED
  BY <1>2, <1>7, <1>8 DEF ReadsInv

\* The next page is asked for after a full one.
LEMMA NextPageKeeps ==
    ASSUME ServerInv, TypeOK, RequestsInv, LoansInv, ReadsInv,
           NEW p \in Reads, NextPage(p)
    PROVE  ReadsInv'
<1>1. /\ p > 1 /\ Listed(p - 1) /\ ~ShortPage(p - 1)
      /\ UNCHANGED <<dataVars, readVars>> /\ Accept(p, "read")
  BY DEF NextPage
<1>2. p \in Requests /\ p \in Nat
  BY ReadsType
<1>3. /\ pc[p] = "new" /\ pc'[p] = "resolve" /\ answer' = answer
      /\ \A q \in Requests \ {p} : pc'[q] = pc[q]
  BY <1>1, <1>2, AcceptRequests DEF RequestsInv
<1>4. query' = query /\ total' = total /\ page' = page /\ before' = before /\ loans' = loans
  BY <1>1 DEF dataVars, readVars
<1>5. \A q \in Reads :
         /\ Received(q)' <=> Received(q)
         /\ Listed(q)' <=> Listed(q)
         /\ ShortPage(q)' <=> ShortPage(q)
         /\ pc'[q] \in {"item", "count", "page", "get"} => pc[q] = pc'[q]
         /\ q # p => pc'[q] = pc[q]
  BY <1>2, <1>3, <1>4, ReadsType DEF Received, Listed, ShortPage
<1>6. query \in Queries /\ \A q \in 1..(p - 1) : Listed(q) /\ ~ShortPage(q)
  <2>1. p - 1 \in Reads /\ pc[p - 1] # "new"
    BY <1>1, <1>2, ReadsType DEF Listed, Received
  <2>2. query \in Queries /\ \A q \in 1..(p - 1 - 1) : Listed(q) /\ ~ShortPage(q)
    BY <2>1 DEF ReadsInv, WalkInv
  <2> QED
    BY <1>1, <1>2, <2>2
<1>7. WalkInv'
  <2>1. \A r \in Reads : pc'[r] # "new" =>
           query' \in Queries /\ \A q \in 1..(r - 1) : Listed(q)' /\ ~ShortPage(q)'
    <3> SUFFICES ASSUME NEW r \in Reads, pc'[r] # "new"
                 PROVE  query' \in Queries /\ \A q \in 1..(r - 1) : Listed(q)' /\ ~ShortPage(q)'
      OBVIOUS
    <3>1. \A q \in 1..(r - 1) : q \in Reads
      BY ReadsType
    <3>2. query \in Queries /\ \A q \in 1..(r - 1) : Listed(q) /\ ~ShortPage(q)
      BY <1>5, <1>6 DEF ReadsInv, WalkInv
    <3> QED
      BY <1>4, <1>5, <3>1, <3>2
  <2>2. \A r \in Reads : pc'[r] \in {"item", "count", "page"} \/ Listed(r)' =>
           query.id = None /\ ValidPagination
    BY <1>5 DEF ReadsInv, WalkInv
  <2>3. \A r \in Reads : pc'[r] = "get" => query.id # None
    BY <1>5 DEF ReadsInv, WalkInv
  <2> QED
    BY <1>4, <2>1, <2>2, <2>3 DEF WalkInv, ValidPagination
<1>8. PagesInv' /\ ShortPageEndsListing'
  <2>1. View(loans)' = View(loans) /\ View(before)' = View(before)
    BY <1>4 DEF View
  <2>2. \A q \in Reads : Offset(q)' = Offset(q)
    BY <1>4 DEF Offset
  <2> QED
    BY <1>4, <1>5, <2>1, <2>2 DEF ReadsInv, PagesInv, ShortPageEndsListing
<1> QED
  BY <1>7, <1>8 DEF ReadsInv

\* One read of a reader, which changes at most its own page and total.
ReaderStep(p) ==
    /\ UNCHANGED <<dataVars, query, before>>
    /\ \A q \in Reads \ {p} :
          pc'[q] = pc[q] /\ answer'[q] = answer[q] /\ page'[q] = page[q] /\ total'[q] = total[q]

LEMMA ReadsOneStep ==
    ASSUME ServerInv, RequestsInv, PagesInv, NEW p \in Reads,
           CountCheckouts(p) \/ ListCheckouts(p) \/ GetCheckout(p)
    PROVE  /\ ReaderStep(p)
           /\ CountCheckouts(p) => pc[p] = "count" /\ pc'[p] = "page"
           /\ ListCheckouts(p) => pc[p] = "page" /\ pc'[p] = "done" /\ answer'[p] = "ok"
           /\ GetCheckout(p) => pc[p] = "get" /\ pc'[p] = "done"
<1>1. Reads \subseteq Requests
  BY ReadsType
<1>2. After("count") = "page" /\ After("page") = "done"
  BY DEF After
<1>3. pc \in [Requests -> Steps] /\ answer \in [Requests -> Answers]
  BY DEF ServerInv, RequestsInv
<1>4. total \in [Reads -> Nat] /\ page \in [Reads -> SUBSET loans]
  BY DEF PagesInv
<1>5. \E at, next, a : Statement(p, at, next, a)
  BY DEF CountCheckouts, ListCheckouts, GetCheckout
<1>6. \A q \in Reads \ {p} : pc'[q] = pc[q] /\ answer'[q] = answer[q]
  BY <1>1, <1>3, <1>5 DEF Statement, Goto, Say
<1>7. \A q \in Reads \ {p} : page'[q] = page[q] /\ total'[q] = total[q]
  BY <1>4 DEF CountCheckouts, ListCheckouts, GetCheckout
<1>8. UNCHANGED <<dataVars, query, before>>
  BY DEF CountCheckouts, ListCheckouts, GetCheckout
<1>9. CountCheckouts(p) => pc[p] = "count" /\ pc'[p] = "page"
  BY <1>1, <1>2, <1>3 DEF CountCheckouts, Statement, Goto
<1>10. ListCheckouts(p) => pc[p] = "page" /\ pc'[p] = "done" /\ answer'[p] = "ok"
  BY <1>1, <1>2, <1>3 DEF ListCheckouts, Statement, Goto, Say
<1>11. GetCheckout(p) => pc[p] = "get" /\ pc'[p] = "done"
  BY <1>1, <1>3 DEF GetCheckout, Statement, Goto
<1> QED
  BY <1>6, <1>7, <1>8, <1>9, <1>10, <1>11 DEF ReaderStep

\* What was read and asked before a read stays.
LEMMA ReaderStepKeeps ==
    ASSUME ReadsInv, NEW p \in Reads, ReaderStep(p), pc[p] \in {"count", "page", "get"},
           pc'[p] # "new"
    PROVE  /\ query' = query /\ before' = before /\ loans' = loans
           /\ View(loans)' = View(loans) /\ View(before)' = View(before)
           /\ ValidPagination' <=> ValidPagination
           /\ \A q \in Reads : Offset(q)' = Offset(q)
           /\ \A q \in Reads \ {p} : /\ Received(q)' <=> Received(q)
                                     /\ Listed(q)' <=> Listed(q)
                                     /\ ShortPage(q)' <=> ShortPage(q)
           /\ \A r \in Reads : pc'[r] # "new" =>
                 query \in Queries /\ \A q \in 1..(r - 1) :
                    q # p /\ Listed(q) /\ ~ShortPage(q) /\ Listed(q)' /\ ~ShortPage(q)'
<1>1. query' = query /\ before' = before /\ loans' = loans
  BY DEF ReaderStep, dataVars
<1>2. View(loans)' = View(loans) /\ View(before)' = View(before)
  BY <1>1 DEF View
<1>3. \A q \in Reads \ {p} :
         (Received(q)' <=> Received(q)) /\ (Listed(q)' <=> Listed(q)) /\ (ShortPage(q)' <=> ShortPage(q))
  BY <1>1 DEF ReaderStep, Received, Listed, ShortPage
<1>4. ~Listed(p)
  BY DEF Listed, Received
<1>5. ASSUME NEW r \in Reads, pc'[r] # "new"
      PROVE  query \in Queries /\ \A q \in 1..(r - 1) :
                q # p /\ Listed(q) /\ ~ShortPage(q) /\ Listed(q)' /\ ~ShortPage(q)'
  <2>1. pc[r] # "new"
    BY <1>5 DEF ReaderStep
  <2>2. query \in Queries /\ \A q \in 1..(r - 1) : Listed(q) /\ ~ShortPage(q)
    BY <2>1 DEF ReadsInv, WalkInv
  <2>3. \A q \in 1..(r - 1) : q \in Reads
    BY ReadsType
  <2> QED
    BY <1>3, <1>4, <2>2, <2>3
<1> QED
  BY <1>1, <1>2, <1>3, <1>5 DEF ValidPagination, Offset

\* Counting: no page has come yet, and every row may still be.
LEMMA CountKeeps ==
    ASSUME ServerInv, TypeOK, RequestsInv, LoansInv, ReadsInv,
           NEW p \in Reads, CountCheckouts(p)
    PROVE  ReadsInv' /\ total'[p] \in 0..Cardinality(loans)
<1>1. pc[p] = "count" /\ pc'[p] = "page" /\ ReaderStep(p)
  BY ReadsOneStep DEF ReadsInv
<1>2. page' = page /\ total' = [total EXCEPT ![p] = Cardinality(View(loans))]
  BY DEF CountCheckouts
<1>3. /\ Cardinality(View(loans)) \in Nat /\ Cardinality(loans) \in Nat
      /\ Cardinality(View(loans)) <= Cardinality(loans)
  BY ViewOfLoans
<1>4. total'[p] = Cardinality(View(loans)) /\ total' \in [Reads -> Nat]
  BY <1>2, <1>3 DEF ReadsInv, PagesInv
<1>5. ~Received(p)' /\ ~Listed(p)'
  BY <1>1 DEF Received, Listed
<1>6. WalkInv'
  <2>1. \A r \in Reads : pc'[r] \in {"item", "count", "page"} \/ Listed(r)' =>
           query.id = None /\ ValidPagination
    BY <1>1, <1>5, ReaderStepKeeps DEF ReaderStep, ReadsInv, WalkInv
  <2>2. \A r \in Reads : pc'[r] = "get" => query.id # None
    BY <1>1 DEF ReaderStep, ReadsInv, WalkInv
  <2> QED
    BY <1>1, <2>1, <2>2, ReaderStepKeeps DEF WalkInv
<1>7. PagesInv'
  <2>1. page' \in [Reads -> SUBSET loans']
    BY <1>1, <1>2, ReaderStepKeeps DEF ReadsInv, PagesInv
  <2>2. \A r \in Reads : /\ pc'[r] = "page" => total'[r] <= Cardinality(View(loans))
                         /\ Received(r)' => page'[r] \subseteq View(loans)
    BY <1>1, <1>2, <1>3, <1>4, <1>5, ReaderStepKeeps DEF ReaderStep, ReadsInv, PagesInv
  <2>3. \A r \in Reads : Listed(r)' => \A l \in View(before) :
           \/ l \in UNION {page'[q] : q \in 1..r}
           \/ ~ShortPage(r)' /\ Rank(l, View(loans)) >= Offset(r) + query.limit
    BY <1>1, <1>2, <1>5, ReaderStepKeeps DEF ReadsInv, PagesInv
  <2> QED
    BY <1>1, <1>4, <2>1, <2>2, <2>3, ReaderStepKeeps DEF PagesInv
<1>8. ShortPageEndsListing'
  <2> SUFFICES ASSUME NEW r \in Reads, Listed(r)', ShortPage(r)'
               PROVE  total'[r] <= Offset(r)' + Cardinality(page'[r])
    BY DEF ShortPageEndsListing
  <2>1. r # p /\ Listed(r) /\ ShortPage(r) /\ Offset(r)' = Offset(r) /\ total'[r] = total[r]
    BY <1>1, <1>5, ReaderStepKeeps DEF ReaderStep
  <2> QED
    BY <1>2, <2>1 DEF ReadsInv, ShortPageEndsListing
<1> QED
  BY <1>3, <1>4, <1>6, <1>7, <1>8 DEF ReadsInv

\* A lookup of one loan: nothing is listed, and what is found is in the view.
LEMMA GetKeeps ==
    ASSUME ServerInv, TypeOK, RequestsInv, LoansInv, ReadsInv,
           NEW p \in Reads, GetCheckout(p)
    PROVE  ReadsInv' /\ page'[p] \subseteq loans /\ total' = total
<1>1. pc[p] = "get" /\ pc'[p] = "done" /\ ReaderStep(p)
  BY ReadsOneStep DEF ReadsInv
<1>2. total' = total /\ page' = [page EXCEPT ![p] = Found]
  BY DEF GetCheckout
<1>3. Found \subseteq View(loans) /\ View(loans) \subseteq loans
  BY ViewOfLoans DEF Found
<1>4. page'[p] = Found /\ page' \in [Reads -> SUBSET loans]
  BY <1>2, <1>3 DEF ReadsInv, PagesInv
<1>5. query.id # None /\ query' = query
  BY <1>1, ReaderStepKeeps DEF ReadsInv, WalkInv
<1>6. \A r \in Reads : ~Listed(r)'
  BY <1>5 DEF Listed
<1>7. WalkInv'
  <2>1. \A r \in Reads : pc'[r] \notin {"item", "count", "page"}
    BY <1>1, <1>5 DEF ReaderStep, ReadsInv, WalkInv
  <2>2. \A r \in Reads : pc'[r] # "new" => query' \in Queries /\ \A q \in 1..(r - 1) : Listed(q)' /\ ~ShortPage(q)'
    BY <1>1, ReaderStepKeeps
  <2> QED
    BY <1>5, <1>6, <2>1, <2>2 DEF WalkInv
<1>8. PagesInv'
  <2>1. \A r \in Reads : /\ pc'[r] = "page" => total'[r] <= Cardinality(View(loans))
                         /\ Received(r)' => page'[r] \subseteq View(loans)
    BY <1>1, <1>2, <1>3, <1>4, ReaderStepKeeps DEF ReaderStep, ReadsInv, PagesInv
  <2> QED
    BY <1>1, <1>2, <1>4, <1>6, <2>1, ReaderStepKeeps DEF ReadsInv, PagesInv
<1>9. ShortPageEndsListing'
  BY <1>6 DEF ShortPageEndsListing
<1> QED
  BY <1>2, <1>3, <1>4, <1>7, <1>8, <1>9 DEF ReadsInv

\* The page itself: what no earlier page has shown is on it or behind it.
LEMMA PageShows ==
    ASSUME TypeOK, RequestsInv, LoansInv, ReadsInv, NEW p \in Reads, pc[p] = "page",
           NEW rows, RowsOf(p, rows), NEW l \in View(before)
    PROVE  \/ l \in rows \/ \E q \in 1..(p - 1) : l \in page[q]
           \/ Rank(l, View(loans)) >= Offset(p) + query.limit
<1>1. query.limit \in 1..100 /\ p \in Nat \ {0} /\ Offset(p) \in Nat
  <2>1. query.limit \in 1..100
    BY DEF ReadsInv, WalkInv, ValidPagination, MaxLimit
  <2>2. p \in Nat \ {0}
    BY ReadsType
  <2>3. \A i, j \in Nat : i * j \in Nat
    OBVIOUS
  <2>4. p - 1 \in Nat /\ query.limit \in Nat
    BY <2>1, <2>2
  <2> QED
    BY <2>1, <2>2, <2>3, <2>4 DEF Offset
<1>2. l \in View(loans)
  BY DEF TypeOK, View
<1>3. Rank(l, View(loans)) \in Nat
  BY ViewOfLoans, RankGrows
<1>4. CASE Rank(l, View(loans)) < Offset(p)
  <2>1. p > 1
    <3>1. p = 1 => Offset(p) = 0
      BY <1>1 DEF Offset
    <3> QED
      BY <1>1, <1>3, <1>4, <3>1
  <2>2. p - 1 \in Reads /\ Listed(p - 1) /\ p - 1 \in 1..(p - 1)
    BY <1>1, <2>1, ReadsType DEF ReadsInv, WalkInv
  <2>3. Offset(p) = Offset(p - 1) + query.limit
    BY <1>1, <2>1, NextOffset
  <2>4. l \in UNION {page[q] : q \in 1..(p - 1)}
    <3>1. \/ l \in UNION {page[q] : q \in 1..(p - 1)}
          \/ Rank(l, View(loans)) >= Offset(p - 1) + query.limit
      BY <2>2 DEF ReadsInv, PagesInv
    <3> QED
      BY <1>1, <1>3, <1>4, <2>3, <3>1
  <2> QED
    BY <2>4
<1>5. CASE Rank(l, View(loans)) >= Offset(p)
  BY <1>1, <1>2, <1>3, <1>5 DEF RowsOf
<1> QED
  BY <1>1, <1>3, <1>4, <1>5

\* A short page has reached the end of the view.
LEMMA ShortPageEnds ==
    ASSUME TypeOK, LoansInv, ReadsInv, NEW p \in Reads, pc[p] = "page",
           NEW rows, RowsOf(p, rows), Cardinality(rows) < query.limit
    PROVE  Cardinality(View(loans)) <= Offset(p) + Cardinality(rows)
<1>1. query.limit \in Nat /\ Offset(p) \in Nat
  <2>1. query.limit \in Nat
    BY DEF ReadsInv, WalkInv, ValidPagination, MaxLimit
  <2>2. p - 1 \in Nat
    BY ReadsType
  <2>3. \A i, j \in Nat : i * j \in Nat
    OBVIOUS
  <2> QED
    BY <2>1, <2>2, <2>3 DEF Offset
<1> DEFINE V == View(loans)
<1>2. /\ IsFiniteSet(V) /\ (\A l \in V : l.id \in Nat)
      /\ \A l, m \in V : l.id = m.id => l = m
  BY ViewOfLoans
<1>3. rows = {l \in V : Rank(l, V) \in Offset(p)..(Offset(p) + query.limit - 1)}
  BY DEF RowsOf
<1> HIDE DEF V
<1>4. Cardinality(V) <= Offset(p) + Cardinality(rows)
  BY <1>1, <1>2, <1>3, ShortPageIsLast
<1> QED
  BY <1>4 DEF V

\* Reading a page.
LEMMA ListKeeps ==
    ASSUME ServerInv, TypeOK, RequestsInv, LoansInv, ReadsInv,
           NEW p \in Reads, ListCheckouts(p)
    PROVE  ReadsInv' /\ page'[p] \subseteq loans /\ total' = total
<1>1. pc[p] = "page" /\ pc'[p] = "done" /\ answer'[p] = "ok" /\ ReaderStep(p)
  BY ReadsOneStep DEF ReadsInv
<1>2. PICK rows \in SUBSET loans :
         RowsOf(p, rows) /\ total' = total /\ page' = [page EXCEPT ![p] = rows]
  BY DEF ListCheckouts
<1>3. page'[p] = rows /\ page' \in [Reads -> SUBSET loans] /\ rows \subseteq View(loans)
  BY <1>2 DEF ReadsInv, PagesInv, RowsOf
<1>4. query.id = None /\ ValidPagination
  BY <1>1 DEF ReadsInv, WalkInv
<1>5. WalkInv'
  <2>1. \A r \in Reads : pc'[r] \in {"item", "count", "page"} \/ Listed(r)' =>
           query.id = None /\ ValidPagination
    BY <1>4
  <2>2. \A r \in Reads : pc'[r] = "get" => query.id # None
    BY <1>1 DEF ReaderStep, ReadsInv, WalkInv
  <2> QED
    BY <1>1, <2>1, <2>2, ReaderStepKeeps DEF WalkInv
<1>6. \A l \in View(before) :
         \/ l \in UNION {page'[q] : q \in 1..p}
         \/ ~ShortPage(p)' /\ Rank(l, View(loans)) >= Offset(p) + query.limit
  <2> SUFFICES ASSUME NEW l \in View(before), l \notin UNION {page'[q] : q \in 1..p}
               PROVE  ~ShortPage(p)' /\ Rank(l, View(loans)) >= Offset(p) + query.limit
    OBVIOUS
  <2>1. l \notin rows /\ \A q \in 1..(p - 1) : l \notin page[q]
    <3>1. p \in 1..p /\ \A q \in 1..(p - 1) : q \in 1..p /\ q \in Reads \ {p}
      BY ReadsType
    <3> QED
      BY <1>1, <1>3, <3>1 DEF ReaderStep
  <2>2. Rank(l, View(loans)) >= Offset(p) + query.limit
    BY <1>1, <1>2, <2>1, PageShows
  <2>3. ~ShortPage(p)'
    <3> SUFFICES ASSUME Cardinality(rows) < query.limit
                 PROVE  FALSE
      BY <1>1, <1>3, ReaderStepKeeps DEF ShortPage
    <3>1. Cardinality(View(loans)) <= Offset(p) + Cardinality(rows)
      BY <1>1, <1>2, ShortPageEnds
    <3>2. Rank(l, View(loans)) <= Cardinality(View(loans)) /\ Rank(l, View(loans)) \in Nat
      <4>1. {m \in View(loans) : m.id > l.id} \subseteq View(loans)
        OBVIOUS
      <4> QED
        BY <4>1, ViewOfLoans, FS_Subset, FS_CardinalityType DEF Rank
    <3>3. /\ Cardinality(View(loans)) \in Nat /\ Cardinality(rows) \in Nat
          /\ query.limit \in Nat /\ Offset(p) \in Int
      <4>1. query.limit \in Nat /\ p \in Int
        BY <1>4, ReadsType DEF ValidPagination, MaxLimit
      <4> QED
        BY <1>3, <4>1, ViewOfLoans, FS_Subset, FS_CardinalityType DEF Offset
    <3> QED
      BY <2>2, <3>1, <3>2, <3>3
  <2> QED
    BY <2>2, <2>3
<1>7. PagesInv'
  <2>1. \A r \in Reads : /\ pc'[r] = "page" => total'[r] <= Cardinality(View(loans))
                         /\ Received(r)' => page'[r] \subseteq View(loans)
    BY <1>1, <1>2, <1>3, ReaderStepKeeps DEF ReaderStep, ReadsInv, PagesInv
  <2>2. \A r \in Reads : Listed(r)' => \A l \in View(before) :
           \/ l \in UNION {page'[q] : q \in 1..r}
           \/ ~ShortPage(r)' /\ Rank(l, View(loans)) >= Offset(r) + query.limit
    <3> SUFFICES ASSUME NEW r \in Reads, r # p, Listed(r)', NEW l \in View(before),
                        l \notin UNION {page'[q] : q \in 1..r}
                 PROVE  ~ShortPage(r)' /\ Rank(l, View(loans)) >= Offset(r) + query.limit
      BY <1>6
    <3>1. Listed(r) /\ (ShortPage(r)' <=> ShortPage(r))
      BY <1>1, ReaderStepKeeps
    <3>2. \A q \in 1..r : q \in Reads \ {p}
      <4>1. pc'[r] # "new"
        BY DEF Listed, Received
      <4>2. \A q \in 1..(r - 1) : q # p
        BY <1>1, <4>1, ReaderStepKeeps
      <4> QED
        BY <4>2, ReadsType
    <3>3. l \notin UNION {page[q] : q \in 1..r}
      BY <1>1, <3>2 DEF ReaderStep
    <3> QED
      BY <3>1, <3>3 DEF ReadsInv, PagesInv
  <2> QED
    BY <1>1, <1>2, <1>3, <2>1, <2>2, ReaderStepKeeps DEF ReadsInv, PagesInv
<1>8. ShortPageEndsListing'
  <2> SUFFICES ASSUME NEW r \in Reads, Listed(r)', ShortPage(r)'
               PROVE  total'[r] <= Offset(r)' + Cardinality(page'[r])
    BY DEF ShortPageEndsListing
  <2>1. CASE r # p
    <3>1. /\ Listed(r) /\ ShortPage(r) /\ Offset(r)' = Offset(r) /\ page'[r] = page[r]
      BY <1>1, <2>1, ReaderStepKeeps DEF ReaderStep
    <3> QED
      BY <1>2, <3>1 DEF ReadsInv, ShortPageEndsListing
  <2>2. CASE r = p
    <3>1. Cardinality(rows) < query.limit
      BY <1>1, <1>3, <2>2, ReaderStepKeeps DEF ShortPage
    <3>2. Cardinality(View(loans)) <= Offset(p) + Cardinality(rows)
      BY <1>1, <1>2, <3>1, ShortPageEnds
    <3>3. total[p] <= Cardinality(View(loans)) /\ total[p] \in Nat
      BY <1>1 DEF ReadsInv, PagesInv
    <3>4. /\ Cardinality(View(loans)) \in Nat /\ Cardinality(rows) \in Nat
          /\ Offset(p) \in Int
      <4>1. query.limit \in Nat /\ p \in Int
        BY <1>4, ReadsType DEF ValidPagination, MaxLimit
      <4> QED
        BY <1>3, <4>1, ViewOfLoans, FS_Subset, FS_CardinalityType DEF Offset
    <3> QED
      BY <1>1, <1>2, <1>3, <2>2, <3>2, <3>3, <3>4, ReaderStepKeeps
  <2> QED
    BY <2>1, <2>2
<1> QED
  BY <1>2, <1>3, <1>5, <1>7, <1>8 DEF ReadsInv

-------------------------------------------------------------------------------
(* The specification keeps the invariant. *)

ProcessTypes ==
    /\ server \in Stages /\ exit \in {"running", "clean", "shutdown_error", "start_error"}
    /\ kind \in [Requests -> Kinds \cup {"unknown"}]
    /\ faults \in 0..MaxFaults

TableTypes ==
    /\ query \in Queries \cup {None}
    /\ \A l \in loans : l.id \in 1..lastId /\ l.item \in Items /\ l.borrower \in Borrowers
    /\ before \subseteq loans
    /\ \A p \in Reads : total[p] \in 0..Cardinality(loans) /\ page[p] \subseteq loans

LEMMA TypesTogether ==
    ASSUME ServerInv', ProcessTypes', TableTypes'
    PROVE  TypeOK'
<1>1. /\ held' = {r \in Requests : pc'[r] \in {"work", "commit"}}
      /\ Cardinality(held') <= MaxConns
  BY DEF ServerInv
<1> QED
  BY <1>1 DEF TypeOK, ProcessTypes, TableTypes

\* A step of a request changes no stage, and no kind but of who is accepted.
LEMMA RequestTypes ==
    ASSUME ServerInv, TypeOK, RequestsInv, NEW r \in Requests,
           Arrive(r) \/ Proceed(r) \/ Process(Fail(r))
    PROVE  ProcessTypes'
<1>1. /\ server \in Stages /\ exit \in {"running", "clean", "shutdown_error", "start_error"}
      /\ kind \in [Requests -> Kinds \cup {"unknown"}] /\ faults \in 0..MaxFaults
      /\ MaxFaults \in Nat
  BY ServerFaultsType DEF TypeOK
<1>2. CASE Arrive(r)
  <2>1. PICK k : Accept(r, k)
    BY <1>2 DEF Arrive, BeginWalk, NextPage, AcceptOther
  <2>2. kind' \in [Requests -> Kinds \cup {"unknown"}]
    BY <2>1, AcceptRequests
  <2> QED
    BY <1>1, <2>1, <2>2 DEF Accept, serverVars, ProcessTypes
<1>3. CASE Proceed(r)
  <2>1. UNCHANGED <<server, exit, kind, faults>>
    BY <1>3 DEF Proceed, Read, ResolveReader, GetItem, CountCheckouts, ListCheckouts,
                GetCheckout, Transact, InsertLoan, CommitLoan, Process, Ping, PoolRefuses,
                Restore, Statement, Begin, Work, Commit, serverVars
  <2> QED
    BY <1>1, <2>1 DEF ProcessTypes
<1>4. CASE Process(Fail(r))
  BY <1>1, <1>4 DEF Process, Fail, serverVars, ProcessTypes
<1> QED
  BY <1>2, <1>3, <1>4

LEMMA ServerTypes ==
    ASSUME ServerInv, TypeOK, RequestsInv, ServerNext
    PROVE  ProcessTypes'
<1>1. UNCHANGED <<kind, faults>>
  BY ServerRequests
<1>2. server' \in Stages /\ exit' \in {exit, "clean", "shutdown_error", "start_error"}
  BY DEF ServerNext, StopServer, Start, StartFails, Signal, Drained, GraceExpires, Exit, Stages
<1> QED
  BY <1>1, <1>2 DEF TypeOK, ProcessTypes

\* Without a read of rows only the loans can change, and they only grow.
LEMMA TablesGrow ==
    ASSUME TypeOK, LoansInv, LoansInv', UNCHANGED readVars, loans \subseteq loans',
           \A l \in loans' : l.id \in 1..lastId' /\ l.item \in Items /\ l.borrower \in Borrowers
    PROVE  TableTypes'
<1>1. query' = query /\ total' = total /\ page' = page /\ before' = before
  BY DEF readVars
<1>2. /\ Cardinality(loans) \in Nat /\ Cardinality(loans') \in Nat
      /\ Cardinality(loans) <= Cardinality(loans')
  BY <1>1, ViewGrows, FS_CardinalityType DEF LoansInv
<1>3. \A p \in Reads : total'[p] \in 0..Cardinality(loans')
  BY <1>1, <1>2 DEF TypeOK
<1> QED
  BY <1>1, <1>3 DEF TypeOK, TableTypes

\* What a step that leaves the tables alone has to show.
LEMMA QuietStep ==
    ASSUME ListingInv, UNCHANGED <<dataVars, readVars>>, Quiet, NoNewDraft,
           ServerInv', RequestsInv', ProcessTypes'
    PROVE  ListingInv'
<1> USE DEF ListingInv
<1>1. LoansInv' /\ loans' = loans /\ lastId' = lastId
  BY DraftsStay DEF dataVars
<1>2. WalkInv' /\ PagesInv' /\ ShortPageEndsListing'
  BY <1>1, QuietKeeps
<1>3. TableTypes'
  BY <1>1, TablesGrow DEF TypeOK
<1> QED
  BY <1>1, <1>2, <1>3, TypesTogether

LEMMA NoDraftStep ==
    ASSUME ServerInv, TypeOK, RequestsInv, NEW r \in Requests,
           \/ AcceptOther(r) \/ Transact(r) \/ ResolveReader(r) \/ GetItem(r)
           \/ CountCheckouts(r) \/ ListCheckouts(r) \/ GetCheckout(r)
           \/ NextPage(r) \/ (r = 1 /\ BeginWalk)
           \/ Ping(r) \/ PoolRefuses(r) \/ Restore(r) \/ Fail(r)
    PROVE  NoNewDraft
<1>1. ASSUME NEW k, Accept(r, k) PROVE NoNewDraft
  BY <1>1, AcceptRequests DEF NoNewDraft, Drafting
<1>2. ASSUME kind' = kind, \A w \in Requests : w # r => pc'[w] = pc[w],
             pc'[r] = "commit" => kind[r] # "checkout"
      PROVE  NoNewDraft
  BY <1>2 DEF NoNewDraft, Drafting
<1>3. ASSUME NEW at, NEW next \in OnPool \cup {"done"}, NEW a, Statement(r, at, next, a)
      PROVE  NoNewDraft
  BY <1>2, <1>3 DEF Statement, Goto, ServerInv, OnPool
<1>4. CASE AcceptOther(r) \/ NextPage(r) \/ (r = 1 /\ BeginWalk)
  BY <1>1, <1>4 DEF AcceptOther, NextPage, BeginWalk
<1>5. CASE Transact(r)
  <2>1. CASE Begin(r) \/ Commit(r) \/ (kind[r] = "user_update" /\ Work(r))
    <3>1. /\ kind' = kind
          /\ \E next \in {"work", "done", "commit"} :
                /\ pc' = [pc EXCEPT ![r] = next]
                /\ next = "commit" => kind[r] = "user_update"
      BY <2>1 DEF Begin, Work, Commit, Goto
    <3> QED
      BY <1>2, <3>1 DEF ServerInv
  <2>2. CASE Statement(r, "resolve", "begin", "pending")
    BY <1>3, <2>2 DEF OnPool
  <2> QED
    BY <1>5, <2>1, <2>2 DEF Transact
<1>6. CASE ResolveReader(r) \/ GetItem(r) \/ CountCheckouts(r) \/ ListCheckouts(r) \/ GetCheckout(r)
  <2>1. \A at : After(at) \in OnPool \cup {"done"}
    BY DEF After, OnPool
  <2> QED
    BY <1>3, <1>6, <2>1 DEF ResolveReader, GetItem, CountCheckouts, ListCheckouts, GetCheckout
<1>7. CASE Ping(r)
  BY <1>3, <1>7 DEF Ping
<1>8. CASE PoolRefuses(r) \/ Restore(r) \/ Fail(r)
  <2>1. AfterFailure(r) \subseteq {"done", "restore"}
    BY DEF AfterFailure
  <2> QED
    BY <1>2, <1>8, <2>1 DEF PoolRefuses, Restore, Fail, Goto, ServerInv
<1> QED
  BY <1>4, <1>5, <1>6, <1>7, <1>8

LEMMA ListingInit == Init => ListingInv
<1> SUFFICES ASSUME Init PROVE ListingInv
  OBVIOUS
<1> USE DEF Init, ServerInit
<1>1. ServerInv
  BY ServerInitInv
<1>2. IsFiniteSet(loans) /\ Cardinality(loans) \in Nat /\ lastId = Cardinality(loans)
  BY SeedLoansType, FS_CardinalityType
<1>3. \A l \in loans : l.id \in 1..lastId /\ l.item \in Items /\ l.borrower \in Borrowers
  BY SeedLoansType
<1>4. TypeOK
  <2>1. held = {r \in Requests : pc[r] \in {"work", "commit"}} /\ Cardinality(held) <= MaxConns
    BY <1>1 DEF ServerInv
  <2>2. server \in Stages /\ kind \in [Requests -> Kinds \cup {"unknown"}] /\ faults \in 0..MaxFaults
    BY ServerFaultsType DEF Stages
  <2> QED
    BY <1>2, <1>3, <2>1, <2>2 DEF TypeOK
<1>5. RequestsInv
  BY ReadsType DEF RequestsInv, Answers
<1>6. LoansInv
  BY <1>2, <1>3, SeedLoansType DEF LoansInv, Drafting
<1>7. \A p \in Reads : pc[p] = "new" /\ ~Received(p) /\ ~Listed(p)
  BY ReadsType DEF Received, Listed
<1>8. WalkInv /\ PagesInv /\ ShortPageEndsListing
  BY <1>7 DEF WalkInv, PagesInv, ShortPageEndsListing
<1> QED
  BY <1>1, <1>4, <1>5, <1>6, <1>8 DEF ListingInv

LEMMA ListingArrive ==
    ASSUME ListingInv, NEW r \in Requests, Arrive(r), ServerInv'
    PROVE  ListingInv'
<1> USE DEF ListingInv
<1>1. ProcessTypes'
  BY RequestTypes
<1>2. PICK k : Accept(r, k)
  BY DEF Arrive, BeginWalk, NextPage, AcceptOther
<1>3. RequestsInv'
  BY <1>2, AcceptRequests
<1>4. CASE r = 1 /\ BeginWalk
  <2>1. ReadsInv' /\ query' \in Queries
    BY <1>4, BeginKeeps DEF ReadsInv
  <2>2. LoansInv'
    BY <1>4, NoDraftStep, DraftsStay DEF BeginWalk
  <2>3. TableTypes'
    BY <1>4, <2>1 DEF BeginWalk, dataVars, TypeOK, TableTypes
  <2> QED
    BY <1>1, <1>3, <2>1, <2>2, <2>3, TypesTogether DEF ReadsInv
<1>5. CASE r \in Reads /\ NextPage(r)
  <2>1. ReadsInv'
    BY <1>5, NextPageKeeps DEF ReadsInv
  <2>2. LoansInv'
    BY <1>5, NoDraftStep, DraftsStay DEF NextPage
  <2>3. TableTypes'
    BY <1>5 DEF NextPage, dataVars, readVars, TypeOK, TableTypes
  <2> QED
    BY <1>1, <1>3, <2>1, <2>2, <2>3, TypesTogether DEF ReadsInv
<1>6. CASE AcceptOther(r)
  <2>1. PICK other \in Kinds \ {"read"} : Accept(r, other)
    BY <1>6 DEF AcceptOther
  <2>2. r \notin Reads /\ \A q \in Reads : pc'[q] = pc[q] /\ answer'[q] = answer[q]
    BY <2>1, AcceptRequests, ReadsType
  <2>3. Quiet /\ NoNewDraft
    BY <1>6, <2>2, OthersQuiet, NoDraftStep DEF AcceptOther
  <2> QED
    BY <1>1, <1>3, <1>6, <2>3, QuietStep DEF AcceptOther
<1> QED
  BY <1>4, <1>5, <1>6 DEF Arrive

LEMMA ListingProceed ==
    ASSUME ListingInv, NEW r \in Requests, Proceed(r) \/ Process(Fail(r)), ServerInv'
    PROVE  ListingInv'
<1> USE DEF ListingInv
<1>1. ProcessTypes' /\ RequestsInv'
  BY RequestTypes, ProceedRequests
<1>2. ASSUME CountCheckouts(r) \/ ListCheckouts(r) \/ GetCheckout(r) PROVE ListingInv'
  <2>1. r \in Reads /\ ReaderStep(r)
    BY <1>2, ReaderSteps, ReadsOneStep DEF Read
  <2>2. ReadsInv' /\ page'[r] \subseteq loans /\ total'[r] \in 0..Cardinality(loans)
    BY <1>2, <2>1, CountKeeps, ListKeeps, GetKeeps DEF ReadsInv, CountCheckouts, TypeOK
  <2>3. LoansInv'
    BY <1>2, <2>1, NoDraftStep, DraftsStay DEF ReaderStep
  <2>4. TableTypes'
    BY <2>1, <2>2 DEF ReaderStep, dataVars, TypeOK, TableTypes
  <2> QED
    BY <1>1, <2>2, <2>3, <2>4, TypesTogether DEF ReadsInv
<1>3. CASE ResolveReader(r) \/ GetItem(r)
  BY <1>1, <1>3, ResolveQuiet, ItemQuiet, NoDraftStep, QuietStep DEF ResolveReader, GetItem
<1>4. CASE Transact(r)
  BY <1>1, <1>4, EndQuiet, NoDraftStep, QuietStep DEF Transact
<1>5. CASE InsertLoan(r)
  <2>1. LoansInv' /\ lastId' = lastId + 1 /\ loans' = loans /\ lastId \in Nat
    BY <1>5, InsertKeepsLoans DEF LoansInv
  <2>2. Quiet /\ UNCHANGED readVars
    BY <1>5, EndQuiet DEF InsertLoan
  <2>3. TableTypes'
    BY <2>1, <2>2, TablesGrow DEF TypeOK
  <2> QED
    BY <1>1, <2>1, <2>2, <2>3, QuietKeeps, TypesTogether
<1>6. CASE CommitLoan(r)
  <2>1. /\ LoansInv' /\ lastId' = lastId /\ loans \subseteq loans'
        /\ \A l \in loans' : l.id \in 1..lastId /\ l.item \in Items /\ l.borrower \in Borrowers
    BY <1>6, CommitKeepsLoans
  <2>2. Quiet /\ UNCHANGED readVars
    BY <1>6, EndQuiet DEF CommitLoan
  <2>3. TableTypes'
    BY <2>1, <2>2, TablesGrow
  <2> QED
    BY <1>1, <2>1, <2>2, <2>3, QuietKeeps, TypesTogether
<1>7. CASE Process(Ping(r) \/ PoolRefuses(r) \/ Restore(r)) \/ Process(Fail(r))
  BY <1>1, <1>7, EndQuiet, NoDraftStep, QuietStep DEF Process
<1> QED
  BY <1>2, <1>3, <1>4, <1>5, <1>6, <1>7 DEF Proceed, Read

LEMMA ListingNext == ListingInv /\ [Next]_vars => ListingInv'
<1> SUFFICES ASSUME ListingInv, [Next]_vars PROVE ListingInv'
  OBVIOUS
<1>1. ServerInv'
  BY ServerNextInv DEF ListingInv
<1>2. ASSUME NEW r \in Requests, Arrive(r) PROVE ListingInv'
  BY <1>1, <1>2, ListingArrive
<1>3. ASSUME NEW r \in Requests, Proceed(r) \/ Process(Fail(r)) PROVE ListingInv'
  BY <1>1, <1>3, ListingProceed
<1>4. CASE Process(ServerNext)
  <2>1. RequestsInv' /\ ProcessTypes' /\ NoNewDraft
    BY <1>4, ServerRequests, ServerTypes DEF Process, ListingInv, NoNewDraft, Drafting
  <2> QED
    BY <1>1, <1>4, <2>1, ServerQuiet, QuietStep DEF Process, ListingInv
<1>5. CASE UNCHANGED vars
  BY <1>5 DEF vars, serverVars, requestVars, dataVars, readVars, ListingInv, ServerInv, TypeOK,
              RequestsInv, LoansInv, Drafting, WalkInv, PagesInv, ShortPageEndsListing,
              Received, Listed, ShortPage, ValidPagination, View, Offset
<1> QED
  BY <1>2, <1>3, <1>4, <1>5 DEF Next

-------------------------------------------------------------------------------
(* What a listing promises. *)

\* Ids are a loan's or a draft's, and what the pages up to p have not shown of
\* the loans there were at first stands behind the next offset.
THEOREM ListingInvariant == Spec => []ListingInv
BY ListingInit, ListingNext, PTL DEF Spec

\* Every variable keeps its shape, however many loans and pages there are.
THEOREM ListingTypeCorrect == Spec => []TypeOK
<1>1. ListingInv => TypeOK
  BY DEF ListingInv
<1> QED
  BY <1>1, ListingInvariant, PTL

\* A walk by pages of any size until a short one has shown every loan of the view
\* there was when it began, and no answer shows a loan outside the view.
THEOREM WalkAlwaysComplete == Spec => []WalkComplete
<1>1. ListingInv => WalkComplete
  BY DEF ListingInv, PagesInv, WalkComplete
<1> QED
  BY <1>1, ListingInvariant, PTL

\* The count, read a statement earlier, never promises rows behind a short page.
THEOREM ShortPageAlwaysEnds == Spec => []ShortPageEndsListing
<1>1. ListingInv => ShortPageEndsListing
  BY DEF ListingInv
<1> QED
  BY <1>1, ListingInvariant, PTL
===============================================================================
