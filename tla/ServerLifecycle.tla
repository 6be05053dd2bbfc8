--------------------------- MODULE ServerLifecycle ---------------------------
(***************************************************************************)
(* The process around every handler: cmd/serve.go, the connection pool,    *)
(* the request deadline and graceful shutdown.  What a request does is a   *)
(* row of statements; a statement outside a transaction needs a free       *)
(* connection while it runs, a transaction keeps one until it ends.        *)
(* Modules that extend this one say what the statements read and write.    *)
(***************************************************************************)
EXTENDS Integers, FiniteSets

CONSTANTS
    Requests,
    KindsOf,     \* what each request may turn out to be
    MaxConns,    \* DB_MAX_CONNECTIONS
    MaxFaults    \* bound: failed calls and deadlines that pass

Kinds == {"read", "checkout", "user_update", "probe"}

ASSUME KindsOfType == KindsOf \in [Requests -> SUBSET Kinds]
ASSUME MaxConnsType == MaxConns \in 1..100
ASSUME ServerFaultsType == MaxFaults \in Nat

VARIABLES
    server,   \* the process
    exit,     \* what it reports when it ends
    kind,     \* what each accepted request is
    pc,       \* what a request does next
    held,     \* the requests whose transaction has a connection
    answer,   \* what a request will be or was answered
    faults    \* faults that occurred

serverVars == <<server, exit>>
requestVars == <<kind, pc, held, answer, faults>>

Stages == {"starting", "serving", "draining", "closing", "exited"}

InFlight(r) == pc[r] \notin {"new", "done", "cut"}

PoolOpen == server \in {"serving", "draining"}
FreeConnection == Cardinality(held) < MaxConns

Goto(r, next) == pc' = [pc EXCEPT ![r] = next]
Say(r, a) == answer' = [answer EXCEPT ![r] = a]

-------------------------------------------------------------------------------
(* The process. *)

\* Configuration, signing keys and database were found good; then it listens.
Start ==
    /\ server = "starting"
    /\ server' = "serving"
    /\ UNCHANGED <<exit, requestVars>>

\* Any of them, or the listener, failed.
StartFails ==
    /\ server = "starting"
    /\ server' = "exited" /\ exit' = "start_error"
    /\ UNCHANGED requestVars

\* SIGINT or SIGTERM: no request is accepted any more.
Signal ==
    /\ server = "serving"
    /\ server' = "draining"
    /\ UNCHANGED <<exit, requestVars>>

\* Every accepted request was answered within gracefulShutdownTimeout.
Drained ==
    /\ server = "draining"
    /\ \A r \in Requests : ~InFlight(r)
    /\ server' = "closing" /\ exit' = "clean"
    /\ UNCHANGED requestVars

\* Mutant: the error of the shutdown is not reported.
GraceExpiresUnreported ==
    /\ server = "draining"
    /\ \E r \in Requests : InFlight(r)
    /\ server' = "closing" /\ exit' = "clean"
    /\ UNCHANGED requestVars

\* The time is over first; what is left goes on while the process closes down.
GraceExpires ==
    /\ server = "draining"
    /\ \E r \in Requests : InFlight(r)
    /\ server' = "closing" /\ exit' = "shutdown_error"
    /\ UNCHANGED requestVars

CutOff == [r \in Requests |-> IF InFlight(r) THEN "cut" ELSE pc[r]]

\* Mutant: the pool is not closed before the process ends.
ExitWithoutClose ==
    /\ server = "closing"
    /\ server' = "exited"
    /\ pc' = CutOff /\ held' = {}
    /\ UNCHANGED <<exit, kind, answer, faults>>

\* The deferred pool.Close waits for every connection; then the process ends,
\* whatever handlers still run.
Exit ==
    /\ server = "closing" /\ held = {}
    /\ server' = "exited"
    /\ pc' = CutOff
    /\ UNCHANGED <<exit, kind, held, answer, faults>>

-------------------------------------------------------------------------------
(* A request. *)

Accept(r, k) ==
    /\ server = "serving"
    /\ pc[r] = "new" /\ k \in KindsOf[r]
    /\ kind' = [kind EXCEPT ![r] = k]
    /\ Goto(r, IF k = "probe" THEN "ping" ELSE "resolve")
    /\ UNCHANGED <<serverVars, held, answer, faults>>

\* A statement on the pool: it takes any free connection and returns it.
Statement(r, at, next, a) ==
    /\ pc[r] = at
    /\ PoolOpen /\ FreeConnection
    /\ Goto(r, next)
    /\ Say(r, a)
    /\ UNCHANGED <<serverVars, kind, held, faults>>

\* The database answered within readinessTimeout.
Ping(r) == Statement(r, "ping", "done", "ready")

Begin(r) ==
    /\ pc[r] = "begin" /\ PoolOpen /\ FreeConnection
    /\ Goto(r, "work")
    /\ held' = held \cup {r}
    /\ UNCHANGED <<serverVars, kind, answer, faults>>

\* Mutant: a statement of the transaction runs on the pool.
WorkOnPool(r) ==
    /\ pc[r] = "work" /\ FreeConnection
    /\ Goto(r, "commit")
    /\ UNCHANGED <<serverVars, kind, held, answer, faults>>

\* The statements of the transaction, and the Keycloak calls of a user update.
Work(r) ==
    /\ pc[r] = "work"
    /\ Goto(r, "commit")
    /\ UNCHANGED <<serverVars, kind, held, answer, faults>>

Commit(r) ==
    /\ pc[r] = "commit"
    /\ Goto(r, "done")
    /\ held' = held \ {r}
    /\ Say(r, "ok")
    /\ UNCHANGED <<serverVars, kind, faults>>

OnPool == {"ping", "resolve", "item", "count", "page", "get", "begin"}
Steps == OnPool \cup {"new", "work", "commit", "restore", "done", "cut"}

FailedAnswer(r) == IF kind[r] = "probe" THEN "not_ready" ELSE "error"

\* A user update that may have changed the identity restores it.
AfterFailure(r) ==
    CASE kind[r] = "user_update" /\ pc[r] = "work"   -> {"done", "restore"}
      [] kind[r] = "user_update" /\ pc[r] = "commit" -> {"restore"}
      [] OTHER                                       -> {"done"}

\* Mutant: an error leaves the transaction open.
FailWithoutRollback(r) ==
    /\ pc[r] \in OnPool \cup {"work", "commit"} /\ faults < MaxFaults
    /\ \E next \in AfterFailure(r) : Goto(r, next)
    /\ Say(r, FailedAnswer(r))
    /\ faults' = faults + 1
    /\ UNCHANGED <<serverVars, kind, held>>

\* A call fails, or the deadline of the request (requestTimeout, or
\* readinessTimeout for a probe) passes while it runs or waits for a
\* connection; a transaction is rolled back.
Fail(r) ==
    /\ pc[r] \in OnPool \cup {"work", "commit"} /\ faults < MaxFaults
    /\ \E next \in AfterFailure(r) : Goto(r, next)
    /\ held' = held \ {r}
    /\ Say(r, FailedAnswer(r))
    /\ faults' = faults + 1
    /\ UNCHANGED <<serverVars, kind>>

\* A closed pool refuses.
PoolRefuses(r) ==
    /\ pc[r] \in OnPool /\ server = "closing"
    /\ Goto(r, "done")
    /\ Say(r, FailedAnswer(r))
    /\ UNCHANGED <<serverVars, kind, held, faults>>

\* restoreIdentity needs no connection, and the deadline does not bind it.
Restore(r) ==
    /\ pc[r] = "restore"
    /\ Goto(r, "done")
    /\ UNCHANGED <<serverVars, kind, held, answer, faults>>

-------------------------------------------------------------------------------
ServerInit ==
    /\ server = "starting" /\ exit = "running"
    /\ kind = [r \in Requests |-> "unknown"]
    /\ pc = [r \in Requests |-> "new"]
    /\ held = {}
    /\ answer = [r \in Requests |-> "pending"]
    /\ faults = 0

StopServer == Drained \/ GraceExpires \/ Exit

ServerNext == Start \/ StartFails \/ Signal \/ StopServer

\* The exit code tells the truth: a clean end answered every accepted request
\* (serve.go:161-181).
CleanExitAnsweredAll ==
    server = "exited" /\ exit = "clean" => \A r \in Requests : pc[r] # "cut"

\* A shutdown whose time is over cuts off no transaction (serve.go:90).  What runs
\* outside one can be cut off: an answer, the restoration of an identity, or the
\* rest of a user's creation (user.go:94-113), which UserProvisioning has as a crash.
ShutdownCutsNoTransaction ==
    [][\A r \in Requests : pc'[r] = "cut" => pc[r] \notin {"work", "commit"}]_<<server, pc>>

\* Every accepted request ends without its deadline's help: nobody waits for a
\* connection while keeping one (transaction.go:30-51, user.go:256-289).
AcceptedRequestsEnd ==
    \A r \in Requests : InFlight(r) ~> ~InFlight(r)

\* After a signal the process ends: every transaction gives its connection back
\* (serve.go:90, 161-181).
StopsOnSignal == server = "draining" ~> server = "exited"

\* Why: a transaction is a connection the pool's closing waits for, and a clean
\* shutdown is one that found no request in progress.
ServerInv ==
    /\ pc \in [Requests -> Steps]
    /\ held = {r \in Requests : pc[r] \in {"work", "commit"}}
    /\ IsFiniteSet(held) /\ Cardinality(held) <= MaxConns
    /\ exit = "clean" =>
          server \in {"closing", "exited"} /\ \A r \in Requests : pc[r] \in {"new", "done"}
    /\ \A r \in Requests : pc[r] = "cut" => server = "exited"
===============================================================================
