------------------------ MODULE ServerLifecycleProofs -------------------------
(***************************************************************************)
(* Why a shutdown is honest and cuts off no transaction, for every set of  *)
(* requests, every size of the pool and any number of faults.              *)
(***************************************************************************)
EXTENDS CheckoutListing, FiniteSetTheorems, TLAPS

Transacting == {r \in Requests : pc[r] \in {"work", "commit"}}

\* What every step keeps.
Kept ==
    /\ ServerInv'
    /\ \A q \in Requests : pc'[q] = "cut" => pc[q] \notin {"work", "commit"}

\* A request's step neither ends the process nor is taken after a clean end.
RequestStep(r, next) ==
    /\ UNCHANGED serverVars
    /\ InFlight(r) \/ server = "serving"
    /\ pc' = [pc EXCEPT ![r] = next]

LEMMA RequestKeepsServer ==
    ASSUME ServerInv, NEW r \in Requests, NEW next \in Steps \ {"cut"}, RequestStep(r, next),
           held' = Transacting', IsFiniteSet(held'), Cardinality(held') <= MaxConns
    PROVE  Kept
<1>1. /\ pc' \in [Requests -> Steps] /\ pc'[r] = next
      /\ \A q \in Requests \ {r} : pc'[q] = pc[q]
  BY DEF ServerInv, RequestStep, Steps
<1>2. exit # "clean"
  BY DEF ServerInv, RequestStep, InFlight
<1> QED
  BY <1>1, <1>2 DEF ServerInv, Kept, RequestStep, Transacting, Steps, serverVars

\* A connection returned, or none taken.
LEMMA FewerConnections ==
    ASSUME ServerInv, held' \subseteq held
    PROVE  IsFiniteSet(held') /\ Cardinality(held') <= MaxConns
<1>1. IsFiniteSet(held) /\ IsFiniteSet(held') /\ Cardinality(held') <= Cardinality(held)
  BY FS_Subset DEF ServerInv
<1>2. Cardinality(held) \in Nat /\ Cardinality(held') \in Nat
  BY <1>1, FS_CardinalityType
<1> QED
  BY <1>1, <1>2, MaxConnsType DEF ServerInv

\* A statement outside a transaction takes no connection for longer.
LEMMA NoConnectionStep ==
    ASSUME ServerInv, NEW r \in Requests, NEW next \in Steps \ {"cut", "work", "commit"},
           RequestStep(r, next), held' = held \ {r}
    PROVE  Kept
<1>1. /\ pc'[r] = next /\ \A q \in Requests \ {r} : pc'[q] = pc[q]
  BY DEF ServerInv, RequestStep
<1>2. held' = Transacting'
  BY <1>1 DEF ServerInv, Transacting
<1> QED
  BY <1>2, FewerConnections, RequestKeepsServer

LEMMA StatementStep ==
    ASSUME ServerInv, NEW r \in Requests, NEW at \in OnPool,
           NEW next \in OnPool \cup {"done"}, NEW a, Statement(r, at, next, a)
    PROVE  Kept
<1>1. pc[r] = at /\ held' = held /\ pc' = [pc EXCEPT ![r] = next] /\ UNCHANGED serverVars
  BY DEF Statement, Goto
<1>2. held = held \ {r}
  BY <1>1 DEF ServerInv, OnPool
<1>3. InFlight(r)
  BY <1>1 DEF InFlight, OnPool
<1>4. next \in Steps \ {"cut", "work", "commit"}
  BY DEF Steps, OnPool
<1> QED
  BY <1>1, <1>2, <1>3, <1>4, NoConnectionStep DEF RequestStep

LEMMA AcceptStep ==
    ASSUME ServerInv, NEW r \in Requests, NEW k, Accept(r, k)
    PROVE  Kept
<1>1. /\ server = "serving" /\ pc[r] = "new" /\ held' = held /\ UNCHANGED serverVars
      /\ pc' = [pc EXCEPT ![r] = IF k = "probe" THEN "ping" ELSE "resolve"]
  BY DEF Accept, Goto
<1>2. held = held \ {r}
  BY <1>1 DEF ServerInv
<1>3. (IF k = "probe" THEN "ping" ELSE "resolve") \in Steps \ {"cut", "work", "commit"}
  BY DEF Steps, OnPool
<1> QED
  BY <1>1, <1>2, <1>3, NoConnectionStep DEF RequestStep, Kept

LEMMA ReadStep ==
    ASSUME ServerInv, NEW p \in Requests, Read(p)
    PROVE  Kept
<1>1. /\ \A at \in OnPool : After(at) \in OnPool \cup {"done"}
      /\ {"resolve", "item", "count", "page", "get"} \subseteq OnPool
  BY DEF After, OnPool
<1>2. CASE ResolveReader(p)
  BY <1>1, <1>2, StatementStep DEF ResolveReader, Kept
<1>3. CASE GetItem(p)
  BY <1>1, <1>3, StatementStep DEF GetItem, Kept
<1>4. CASE CountCheckouts(p)
  BY <1>1, <1>4, StatementStep DEF CountCheckouts, Kept
<1>5. CASE ListCheckouts(p)
  BY <1>1, <1>5, StatementStep DEF ListCheckouts, Kept
<1>6. CASE GetCheckout(p)
  BY <1>1, <1>6, StatementStep DEF GetCheckout, Kept
<1> QED
  BY <1>2, <1>3, <1>4, <1>5, <1>6 DEF Read

\* A transaction takes its connection only when one is free.
LEMMA BeginStep ==
    ASSUME ServerInv, NEW r \in Requests, Begin(r)
    PROVE  Kept
<1>1. /\ pc[r] = "begin" /\ Cardinality(held) < MaxConns /\ held' = held \cup {r}
      /\ pc' = [pc EXCEPT ![r] = "work"] /\ UNCHANGED serverVars
  BY DEF Begin, Goto, FreeConnection
<1>2. r \notin held /\ IsFiniteSet(held)
  BY <1>1 DEF ServerInv
<1>3. IsFiniteSet(held') /\ Cardinality(held') = Cardinality(held) + 1
  BY <1>1, <1>2, FS_AddElement
<1>4. Cardinality(held) \in Nat
  BY <1>2, FS_CardinalityType
<1>5. Cardinality(held') <= MaxConns
  BY <1>1, <1>3, <1>4, MaxConnsType
<1>6. held' = Transacting'
  BY <1>1 DEF ServerInv, Transacting
<1>7. RequestStep(r, "work") /\ "work" \in Steps \ {"cut"}
  BY <1>1 DEF RequestStep, InFlight, Steps
<1> QED
  BY <1>3, <1>5, <1>6, <1>7, RequestKeepsServer DEF Kept

LEMMA WorkStep ==
    ASSUME ServerInv, NEW r \in Requests, Work(r)
    PROVE  Kept
<1>1. /\ pc[r] = "work" /\ held' = held /\ pc' = [pc EXCEPT ![r] = "commit"]
      /\ UNCHANGED serverVars
  BY DEF Work, Goto
<1>2. held' = Transacting'
  BY <1>1 DEF ServerInv, Transacting
<1>3. RequestStep(r, "commit") /\ "commit" \in Steps \ {"cut"}
  BY <1>1 DEF RequestStep, InFlight, Steps
<1> QED
  BY <1>1, <1>2, <1>3, FewerConnections, RequestKeepsServer DEF Kept

\* What gives a connection back, if it had one.
LEMMA EndStep ==
    ASSUME ServerInv, NEW r \in Requests,
           Commit(r) \/ Fail(r) \/ PoolRefuses(r) \/ Restore(r)
    PROVE  Kept
<1>1. PICK next \in {"done", "restore"} :
         pc' = [pc EXCEPT ![r] = next] /\ UNCHANGED serverVars
  BY DEF Commit, Fail, PoolRefuses, Restore, AfterFailure, Goto
<1>2. pc[r] \in OnPool \cup {"work", "commit", "restore"}
  BY DEF Commit, Fail, PoolRefuses, Restore
<1>3. held' = held \ {r}
  BY DEF Commit, Fail, PoolRefuses, Restore, ServerInv, OnPool
<1>4. RequestStep(r, next) /\ next \in Steps \ {"cut", "work", "commit"}
  BY <1>1, <1>2 DEF RequestStep, InFlight, Steps, OnPool
<1> QED
  BY <1>3, <1>4, NoConnectionStep DEF Kept

\* The process: it ends only when no transaction has a connection.
LEMMA ServerStep ==
    ASSUME ServerInv, ServerNext
    PROVE  Kept
<1>1. CASE Exit
  <2>1. held = {} /\ held' = {} /\ exit' = exit /\ server' = "exited" /\ pc' = CutOff
    BY <1>1 DEF Exit
  <2>2. \A r \in Requests : pc[r] \notin {"work", "commit"}
    BY <2>1 DEF ServerInv
  <2>3. pc' \in [Requests -> Steps] /\ \A r \in Requests : pc'[r] \in {pc[r], "cut"}
    BY <2>1 DEF CutOff, ServerInv, Steps
  <2>4. exit' = "clean" => \A r \in Requests : pc'[r] \in {"new", "done"}
    BY <2>1 DEF CutOff, ServerInv, InFlight
  <2>5. held' = {r \in Requests : pc'[r] \in {"work", "commit"}}
    BY <2>1, <2>2, <2>3
  <2> QED
    BY <2>1, <2>2, <2>3, <2>4, <2>5, FewerConnections DEF ServerInv, Kept, Steps
<1>2. CASE Start \/ StartFails \/ Signal \/ Drained \/ GraceExpires
  <2>1. UNCHANGED <<pc, held>>
    BY <1>2 DEF Start, StartFails, Signal, Drained, GraceExpires, requestVars
  <2>2. exit' = "clean" =>
           server' \in {"closing", "exited"} /\ \A r \in Requests : pc[r] \in {"new", "done"}
    <3>1. CASE Drained
      <4>1. \A r \in Requests : ~InFlight(r) /\ pc[r] # "cut"
        BY <3>1 DEF Drained, ServerInv
      <4> QED
        BY <3>1, <4>1 DEF Drained, InFlight
    <3>2. CASE ~Drained
      BY <1>2, <3>2 DEF Start, StartFails, Signal, GraceExpires, ServerInv
    <3> QED
      BY <3>1, <3>2
  <2>3. \A r \in Requests : pc[r] # "cut"
    BY <1>2 DEF ServerInv, Start, StartFails, Signal, Drained, GraceExpires
  <2> QED
    BY <2>1, <2>2, <2>3 DEF ServerInv, Kept
<1> QED
  BY <1>1, <1>2 DEF ServerNext, StopServer

-------------------------------------------------------------------------------
(* What a shutdown promises. *)

LEMMA ServerInitInv == Init => ServerInv
<1> SUFFICES ASSUME Init PROVE ServerInv
  OBVIOUS
<1>1. held = {} /\ \A r \in Requests : pc[r] = "new"
  BY DEF Init, ServerInit
<1>2. IsFiniteSet(held) /\ Cardinality(held) = 0
  BY <1>1, FS_EmptySet
<1> QED
  BY <1>1, <1>2, MaxConnsType DEF Init, ServerInit, ServerInv, Steps

LEMMA ServerNextInv ==
    ServerInv /\ [Next]_vars =>
        /\ ServerInv'
        /\ UNCHANGED <<server, pc>> \/ \A r \in Requests : pc'[r] = "cut" => pc[r] \notin {"work", "commit"}
<1> SUFFICES ASSUME ServerInv, [Next]_vars
             PROVE  Kept \/ (ServerInv' /\ UNCHANGED <<server, pc>>)
  BY DEF Kept
<1>1. ASSUME NEW r \in Requests, Arrive(r) PROVE Kept
  BY <1>1, AcceptStep DEF Arrive, BeginWalk, NextPage, AcceptOther
<1>2. ASSUME NEW r \in Requests, Proceed(r) PROVE Kept
  <2>1. CASE Read(r)
    BY <2>1, ReadStep
  <2>2. CASE Transact(r)
    <3>1. {"resolve", "begin"} \subseteq OnPool
      BY DEF OnPool
    <3> QED
      BY <2>2, <3>1, StatementStep, BeginStep, WorkStep, EndStep DEF Transact, Kept
  <2>3. CASE InsertLoan(r) \/ CommitLoan(r)
    BY <2>3, WorkStep, EndStep DEF InsertLoan, CommitLoan
  <2>4. CASE Process(Ping(r) \/ PoolRefuses(r) \/ Restore(r))
    <3>1. "ping" \in OnPool
      BY DEF OnPool
    <3> QED
      BY <2>4, <3>1, StatementStep, EndStep DEF Process, Ping, Kept
  <2> QED
    BY <1>2, <2>1, <2>2, <2>3, <2>4 DEF Proceed
<1>3. ASSUME NEW r \in Requests, Process(Fail(r)) PROVE Kept
  BY <1>3, EndStep DEF Process
<1>4. CASE Process(ServerNext)
  BY <1>4, ServerStep DEF Process
<1>5. CASE UNCHANGED vars
  BY <1>5 DEF vars, serverVars, requestVars, ServerInv
<1> QED
  BY <1>1, <1>2, <1>3, <1>4, <1>5 DEF Next

\* A transaction is a connection of the pool, of which there are never too many,
\* and a clean shutdown has answered what it accepted.
THEOREM ServerInvariant == Spec => []ServerInv
BY ServerInitInv, ServerNextInv, PTL DEF Spec

\* The exit code tells the truth: after a clean end no accepted request was cut
\* off, however many there were.
THEOREM CleanExitAlwaysAnsweredAll == Spec => []CleanExitAnsweredAll
<1>1. ServerInv => CleanExitAnsweredAll
  BY DEF ServerInv, CleanExitAnsweredAll
<1> QED
  BY <1>1, ServerInvariant, PTL

\* Whatever a shutdown cuts off when its time is over, no transaction is.
THEOREM ShutdownNeverCutsTransaction == Spec => ShutdownCutsNoTransaction
<1>1. ServerInv /\ [Next]_vars =>
         [\A r \in Requests : pc'[r] = "cut" => pc[r] \notin {"work", "commit"}]_<<server, pc>>
  BY ServerNextInv
<1> QED
  BY <1>1, ServerInvariant, PTL DEF Spec, ShutdownCutsNoTransaction
===============================================================================
