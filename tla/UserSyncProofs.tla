---------------------------- MODULE UserSyncProofs ----------------------------
(***************************************************************************)
(* Proofs about UserSync and UserSyncGaps for every set of updates,        *)
(* sweeps, profiles and roles and every number of faults: the two stores   *)
(* keep their types, no update is lost, and outside the gaps the stores    *)
(* agree or somebody was told.                                             *)
(***************************************************************************)
EXTENDS UserSyncGaps, TLAPS

\* One change of a row is a row again.
LEMMA DesiredRows ==
    ASSUME NEW r \in Row
    PROVE  Desired(r) \subseteq Row
BY DEF Desired, Row

\* A replacement works on rows, and its process is not nothing.
LEMMA ReplacementRows ==
    ASSUME SyncInv, NEW p \in Processes, pc[p] \in Calls \cup {"write", "rollback"}
    PROVE  target[p] \in Row /\ previous[p] \in Row /\ p # None
BY NoneIsNothing DEF SyncInv, ReplacementInv

\* A call leaves an identity behind.
LEMMA EffectIdentity ==
    ASSUME NEW call, NEW state \in Row, NEW managed, NEW id \in Identity
    PROVE  Effect(call, state, managed, id) \in Identity
BY DEF Effect, Row, Identity

\* A step of one process keeps what the others know, if it leaves the row and
\* their variables alone and takes the lock from none of them.
LEMMA OthersKeepReplacement ==
    ASSUME SyncInv, NEW p \in Processes, NEW q \in Processes \ {p},
           pc'[q] = pc[q], restoring'[q] = restoring[q],
           previous'[q] = previous[q], target'[q] = target[q],
           lock = q => lock' = q /\ row' = row
    PROVE  ReplacementInv(q)'
BY DEF SyncInv, ReplacementInv, Desired

\* Both kinds of transaction begin by locking and reading the row.
LEMMA BeginStep ==
    ASSUME SyncInv, NEW p \in Processes, NEW state \in Row, Begin(p, state),
           p \in Updates => state \in Desired(row)
    PROVE  SyncInv'
<1>1. TypeOK'
  BY DEF SyncInv, TypeOK, Begin, Steps, Calls
<1>2. ReplacementInv(p)'
  BY DEF SyncInv, TypeOK, Begin, ReplacementInv, Calls
<1>3. ASSUME NEW q \in Processes \ {p} PROVE ReplacementInv(q)'
  <2>1. lock # q
    BY NoneIsNothing DEF Begin, RowFree
  <2> QED
    BY <2>1, <1>3, OthersKeepReplacement DEF Begin, SyncInv, TypeOK
<1> QED
  BY <1>1, <1>2, <1>3 DEF SyncInv

LEMMA BeginUpdateStep ==
    ASSUME SyncInv, NEW p \in Processes, BeginUpdate(p)
    PROVE  SyncInv'
<1>1. PICK state \in Desired(row) : Begin(p, state)
  BY DEF BeginUpdate
<1>2. row \in Row
  BY DEF SyncInv, TypeOK
<1> QED
  BY <1>1, <1>2, DesiredRows, BeginStep

LEMMA BeginSweepStep ==
    ASSUME SyncInv, NEW p \in Processes, BeginSweep(p)
    PROVE  SyncInv'
<1>1. p \notin Updates /\ Begin(p, row) /\ row \in Row
  BY ProcessesDisjoint DEF BeginSweep, SyncInv, TypeOK
<1> QED
  BY <1>1, BeginStep

LEMMA RefuseTakenStep ==
    ASSUME SyncInv, NEW p \in Processes, RefuseTaken(p)
    PROVE  SyncInv'
<1>1. TypeOK'
  BY DEF SyncInv, TypeOK, RefuseTaken, Steps, local
<1>2. ReplacementInv(p)'
  BY DEF SyncInv, TypeOK, RefuseTaken, ReplacementInv, Calls, local
<1>3. ASSUME NEW q \in Processes \ {p} PROVE ReplacementInv(q)'
  BY <1>3, OthersKeepReplacement DEF RefuseTaken, SyncInv, TypeOK, local
<1> QED
  BY <1>1, <1>2, <1>3 DEF SyncInv

LEMMA SweepAgainStep ==
    ASSUME SyncInv, NEW p \in Processes, SweepAgain(p)
    PROVE  SyncInv'
<1>1. TypeOK'
  BY DEF SyncInv, TypeOK, SweepAgain, Steps, local
<1>2. ReplacementInv(p)'
  BY DEF SyncInv, TypeOK, SweepAgain, ReplacementInv, Calls, local
<1>3. ASSUME NEW q \in Processes \ {p} PROVE ReplacementInv(q)'
  BY <1>3, OthersKeepReplacement DEF SweepAgain, SyncInv, TypeOK, local
<1> QED
  BY <1>1, <1>2, <1>3 DEF SyncInv

\* A call moves the replacement on and touches the identity alone.
LEMMA CallSucceedsStep ==
    ASSUME SyncInv, NEW p \in Processes, CallSucceeds(p)
    PROVE  SyncInv'
<1>1. identity' \in Identity
  <2>1. target[p] \in Row
    BY ReplacementRows DEF CallSucceeds
  <2> QED
    BY <2>1, EffectIdentity DEF CallSucceeds, Applied, SyncInv, TypeOK
<1>2. seen' \in [Processes -> SUBSET Roles]
  BY DEF CallSucceeds, SyncInv, TypeOK, Identity
<1>3. AfterCall(p) \in {"get_roles", "add_role", "delete_roles", "replaced"}
  BY DEF AfterCall
<1>4. /\ pc' \in [Processes -> Steps]
      /\ outcome' \in [Processes -> {"none", "ok", "error", "crashed"}]
      /\ pc'[p] \in Calls \cup {"write", "done"}
      /\ restoring[p] => pc'[p] # "write"
      /\ \A q \in Processes \ {p} : pc'[q] = pc[q]
  BY <1>3 DEF CallSucceeds, Replaced, SyncInv, TypeOK, Steps, Calls
<1>5. TypeOK'
  BY <1>1, <1>2, <1>4 DEF CallSucceeds, SyncInv, TypeOK
<1>6. ReplacementInv(p)'
  BY <1>4 DEF CallSucceeds, SyncInv, ReplacementInv, Calls, Desired
<1>7. ASSUME NEW q \in Processes \ {p} PROVE ReplacementInv(q)'
  BY <1>4, <1>7, OthersKeepReplacement DEF CallSucceeds
<1> QED
  BY <1>5, <1>6, <1>7 DEF SyncInv

\* Giving up leads to the rollback, or ends a restoration.
LEMMA GiveUpEffect ==
    ASSUME SyncInv, NEW p \in Processes, GiveUp(p)
    PROVE  /\ pc' \in [Processes -> Steps]
           /\ outcome' \in [Processes -> {"none", "ok", "error", "crashed"}]
           /\ flagged' \in BOOLEAN
           /\ pc'[p] = IF restoring[p] THEN "done" ELSE "rollback"
           /\ \A q \in Processes \ {p} : pc'[q] = pc[q]
BY DEF GiveUp, SyncInv, TypeOK, Steps

LEMMA FaultCounted ==
    ASSUME SyncInv, NEW kind, Fault(kind)
    PROVE  faults' \in 0..MaxFaults
BY MaxFaultsType DEF Fault, SyncInv, TypeOK

LEMMA CallFailsStep ==
    ASSUME SyncInv, NEW p \in Processes, CallFails(p)
    PROVE  SyncInv'
<1>1. identity' \in Identity /\ faults' \in 0..MaxFaults
  <2>1. target[p] \in Row
    BY ReplacementRows DEF CallFails
  <2> QED
    BY <2>1, EffectIdentity, FaultCounted DEF CallFails, Applied, SyncInv, TypeOK
<1>2. GiveUp(p)
  BY DEF CallFails
<1>3. TypeOK'
  BY <1>1, <1>2, GiveUpEffect DEF CallFails, SyncInv, TypeOK, local
<1>4. ReplacementInv(p)'
  BY <1>2, GiveUpEffect DEF CallFails, SyncInv, ReplacementInv, Calls, local
<1>5. ASSUME NEW q \in Processes \ {p} PROVE ReplacementInv(q)'
  BY <1>2, <1>5, GiveUpEffect, OthersKeepReplacement DEF CallFails, local
<1> QED
  BY <1>3, <1>4, <1>5 DEF SyncInv

LEMMA CallTimesOutStep ==
    ASSUME SyncInv, NEW p \in Processes, CallTimesOut(p)
    PROVE  SyncInv'
<1>1. late' \subseteq [call : Calls \ {"get_roles"}, target : Row, seen : SUBSET Roles]
  <2>1. target[p] \in Row
    BY ReplacementRows DEF CallTimesOut
  <2>2. seen[p] \in SUBSET Roles
    BY DEF SyncInv, TypeOK
  <2> QED
    BY <2>1, <2>2 DEF CallTimesOut, SyncInv, TypeOK
<1>2. GiveUp(p) /\ faults' \in 0..MaxFaults
  BY FaultCounted DEF CallTimesOut
<1>3. TypeOK'
  BY <1>1, <1>2, GiveUpEffect DEF CallTimesOut, SyncInv, TypeOK, local
<1>4. ReplacementInv(p)'
  BY <1>2, GiveUpEffect DEF CallTimesOut, SyncInv, ReplacementInv, Calls, local
<1>5. ASSUME NEW q \in Processes \ {p} PROVE ReplacementInv(q)'
  BY <1>2, <1>5, GiveUpEffect, OthersKeepReplacement DEF CallTimesOut, local
<1> QED
  BY <1>3, <1>4, <1>5 DEF SyncInv

\* Keycloak's late work concerns no process.
LEMMA DeliverLateStep ==
    ASSUME SyncInv, DeliverLate
    PROVE  SyncInv'
<1>1. PICK m \in late :
        /\ late' = late \ {m}
        /\ identity' = Effect(m.call, m.target, m.seen, identity)
  BY DEF DeliverLate
<1>2. identity' \in Identity
  BY <1>1, EffectIdentity DEF SyncInv, TypeOK
<1>3. TypeOK'
  BY <1>1, <1>2 DEF DeliverLate, SyncInv, TypeOK, local
<1>4. \A q \in Processes : ReplacementInv(q)'
  BY DEF DeliverLate, SyncInv, ReplacementInv, Desired, local
<1> QED
  BY <1>3, <1>4 DEF SyncInv

\* The committing process holds the lock, so the others hold nothing.
LEMMA WriterHolds ==
    ASSUME SyncInv, NEW p \in Processes, pc[p] = "write"
    PROVE  /\ lock = p /\ ~restoring[p]
           /\ target[p] \in Row
           /\ p \in Updates => target[p] \in Desired(row)
BY DEF SyncInv, ReplacementInv

LEMMA CommitStep ==
    ASSUME SyncInv, NEW p \in Processes, Commit(p)
    PROVE  SyncInv'
<1>1. lock = p /\ target[p] \in Row /\ ~restoring[p]
  BY WriterHolds DEF Commit
<1>2. TypeOK'
  BY <1>1 DEF Commit, SyncInv, TypeOK, Steps, local
<1>3. ReplacementInv(p)'
  BY <1>1 DEF Commit, SyncInv, TypeOK, ReplacementInv, Calls, local
<1>4. ASSUME NEW q \in Processes \ {p} PROVE ReplacementInv(q)'
  BY <1>1, <1>4, OthersKeepReplacement DEF Commit, SyncInv, TypeOK, local
<1> QED
  BY <1>2, <1>3, <1>4 DEF SyncInv

LEMMA CommitLostStep ==
    ASSUME SyncInv, NEW p \in Processes, CommitLost(p)
    PROVE  SyncInv'
<1>1. lock = p /\ target[p] \in Row /\ ~restoring[p] /\ faults' \in 0..MaxFaults
  BY WriterHolds, FaultCounted DEF CommitLost
<1>2. TypeOK'
  BY <1>1 DEF CommitLost, SyncInv, TypeOK, Steps, local
<1>3. ReplacementInv(p)'
  BY <1>1 DEF CommitLost, SyncInv, TypeOK, ReplacementInv, Calls, local
<1>4. ASSUME NEW q \in Processes \ {p} PROVE ReplacementInv(q)'
  BY <1>1, <1>4, OthersKeepReplacement DEF CommitLost, SyncInv, TypeOK, local
<1> QED
  BY <1>2, <1>3, <1>4 DEF SyncInv

LEMMA WriteFailsStep ==
    ASSUME SyncInv, NEW p \in Processes, WriteFails(p)
    PROVE  SyncInv'
<1>1. ~restoring[p] /\ faults' \in 0..MaxFaults
  BY WriterHolds, FaultCounted DEF WriteFails
<1>2. TypeOK'
  BY <1>1 DEF WriteFails, SyncInv, TypeOK, Steps, local
<1>3. ReplacementInv(p)'
  BY <1>1 DEF WriteFails, SyncInv, TypeOK, ReplacementInv, Calls, local
<1>4. ASSUME NEW q \in Processes \ {p} PROVE ReplacementInv(q)'
  BY <1>4, OthersKeepReplacement DEF WriteFails, SyncInv, TypeOK, local
<1> QED
  BY <1>2, <1>3, <1>4 DEF SyncInv

\* The rollback gives up the row before the restoration starts.
LEMMA RollbackStep ==
    ASSUME SyncInv, NEW p \in Processes, Rollback(p)
    PROVE  SyncInv'
<1>1. target[p] \in Row /\ previous[p] \in Row /\ ~restoring[p]
  BY ReplacementRows DEF Rollback, SyncInv, ReplacementInv
<1>2. TypeOK'
  BY <1>1 DEF Rollback, SyncInv, TypeOK, Steps, Calls
<1>3. ReplacementInv(p)'
  BY <1>1 DEF Rollback, SyncInv, TypeOK, ReplacementInv, Calls
<1>4. ASSUME NEW q \in Processes \ {p} PROVE ReplacementInv(q)'
  BY <1>4, OthersKeepReplacement DEF Rollback, SyncInv, TypeOK
<1> QED
  BY <1>2, <1>3, <1>4 DEF SyncInv

LEMMA CrashStep ==
    ASSUME SyncInv, NEW p \in Processes, Crash(p)
    PROVE  SyncInv'
<1>1. faults' \in 0..MaxFaults
  BY FaultCounted DEF Crash
<1>2. TypeOK'
  BY <1>1 DEF Crash, SyncInv, TypeOK, Steps, local
<1>3. ReplacementInv(p)'
  BY DEF Crash, SyncInv, TypeOK, ReplacementInv, Calls, local
<1>4. ASSUME NEW q \in Processes \ {p} PROVE ReplacementInv(q)'
  BY <1>4, OthersKeepReplacement DEF Crash, SyncInv, TypeOK, local
<1> QED
  BY <1>2, <1>3, <1>4 DEF SyncInv

LEMMA SyncInit == Init => SyncInv
<1> SUFFICES ASSUME Init PROVE SyncInv
  OBVIOUS
<1>1. IdentityState(row) \in Identity
  BY DEF Init, IdentityState, Row, Identity
<1>2. TypeOK
  <2>1. row \in Row /\ identity \in Identity /\ late = {} /\ faults \in 0..MaxFaults
    BY <1>1, MaxFaultsType DEF Init
  <2>2. /\ lock \in Processes \cup {None} /\ flagged \in BOOLEAN
        /\ pc \in [Processes -> Steps] /\ restoring \in [Processes -> BOOLEAN]
    BY DEF Init, Steps
  <2>3. /\ previous \in [Processes -> Row \cup {None}]
        /\ target \in [Processes -> Row \cup {None}]
        /\ seen \in [Processes -> SUBSET Roles]
        /\ outcome \in [Processes -> {"none", "ok", "error", "crashed"}]
    BY DEF Init
  <2> QED
    BY <2>1, <2>2, <2>3 DEF TypeOK
<1>3. ASSUME NEW p \in Processes PROVE ReplacementInv(p)
  BY <1>3 DEF Init, ReplacementInv, Calls
<1> QED
  BY <1>2, <1>3 DEF SyncInv

LEMMA SyncNext == SyncInv /\ [Next]_vars => SyncInv'
<1> SUFFICES ASSUME SyncInv, [Next]_vars PROVE SyncInv'
  OBVIOUS
<1>1. ASSUME NEW p \in Processes,
             BeginUpdate(p) \/ RefuseTaken(p) \/ BeginSweep(p) \/ SweepAgain(p)
      PROVE  SyncInv'
  BY <1>1, BeginUpdateStep, RefuseTakenStep, BeginSweepStep, SweepAgainStep
<1>2. ASSUME NEW p \in Processes, Proceed(p) PROVE SyncInv'
  BY <1>2, CallSucceedsStep, CommitStep, RollbackStep DEF Proceed
<1>3. ASSUME NEW p \in Processes, Fail(p) PROVE SyncInv'
  BY <1>3, CallFailsStep, CallTimesOutStep, WriteFailsStep, CommitLostStep, CrashStep
  DEF Fail
<1>4. CASE DeliverLate
  BY <1>4, DeliverLateStep
<1>5. CASE UNCHANGED vars
  BY <1>5 DEF vars, SyncInv, TypeOK, ReplacementInv, Desired
<1> QED
  BY <1>1, <1>2, <1>3, <1>4, <1>5 DEF Next

\* Whoever may still commit holds the row and asks for one change of it.
THEOREM SyncInvariant == Spec => []SyncInv
BY SyncInit, SyncNext, PTL DEF Spec

\* Every variable keeps its shape.
THEOREM SyncTypeCorrect == Spec => []TypeOK
<1>1. SyncInv => TypeOK
  BY DEF SyncInv
<1> QED
  BY <1>1, SyncInvariant, PTL

\* The row changes only by a commit, which changes the committed row.
LEMMA OnlyCommitsWriteRow ==
    ASSUME SyncInv, [Next]_vars, row' # row
    PROVE  row' \in Desired(row)
<1>1. PICK p \in Processes : Commit(p) \/ CommitLost(p)
  BY DEF Next, vars, Proceed, Fail, BeginUpdate, BeginSweep, Begin, RefuseTaken,
         SweepAgain, CallSucceeds, Rollback, CallFails, CallTimesOut, WriteFails,
         Crash, DeliverLate
<1>2. pc[p] = "write" /\ p \in Updates /\ row' = target[p]
  BY <1>1 DEF Commit, CommitLost
<1> QED
  BY <1>2, WriterHolds

\* No update of a user is lost, whatever else updates or reconciles it.
THEOREM UpdatesNeverLost == Spec => NoLostUpdate
<1>1. SyncInv /\ [Next]_vars => [row' # row => row' \in Desired(row)]_vars
  BY OnlyCommitsWriteRow
<1> QED
  BY <1>1, SyncInvariant, PTL DEF Spec, NoLostUpdate

-------------------------------------------------------------------------------
(***************************************************************************)
(* Why the compensation of updateManagedUser suffices outside the gaps.    *)
(***************************************************************************)

OneRole == \A x, y \in identity.roles : x = y

-------------------------------------------------------------------------------
(* One call of a replacement. *)

\* An identity as a row wants it.
LEMMA IdentityEqual ==
    ASSUME NEW id \in Identity, NEW r \in Row,
           id.profile = r.profile, id.enabled = r.active, id.roles = {r.role}
    PROVE  id = IdentityState(r)
BY DEF Identity, IdentityState

\* What the call does to each part of the identity.
LEMMA AppliedParts ==
    ASSUME TypeOK, NEW p \in Processes, pc[p] \in Calls, target[p] \in Row,
           identity' = Applied(p)
    PROVE  /\ identity'.profile = IF pc[p] = "update_user" THEN target[p].profile ELSE identity.profile
           /\ identity'.enabled = IF pc[p] = "update_user" THEN target[p].active ELSE identity.enabled
           /\ identity'.roles = CASE pc[p] = "delete_roles" -> identity.roles \ seen[p]
                                  [] pc[p] = "add_role"     -> identity.roles \cup {target[p].role}
                                  [] OTHER                  -> identity.roles
<1>1. identity \in Identity
  BY DEF TypeOK
<1> QED
  BY <1>1 DEF Applied, Effect, Identity, Row, Calls

\* A call never leaves a second managed role.
LEMMA CallOneRole ==
    ASSUME TypeOK, NEW p \in Processes, pc[p] \in Calls, target[p] \in Row,
           ReplacingInv(p), OneRole, identity' = Applied(p)
    PROVE  OneRole'
<1>1. identity'.roles \subseteq identity.roles \/ identity'.roles \subseteq {target[p].role}
  BY AppliedParts DEF ReplacingInv
<1> QED
  BY <1>1 DEF OneRole

\* A call does not undo what another replacement by the same row has done.
LEMMA CallKeepsOthers ==
    ASSUME TypeOK, NEW p \in Processes, NEW q \in Processes \ {p}, pc[p] \in Calls,
           target[p] \in Row, pc[q] \in Calls \cup {"write"} => target[q] = target[p],
           ReplacingInv(p), ReplacingInv(q), identity' = Applied(p),
           pc'[q] = pc[q], target'[q] = target[q], seen'[q] = seen[q]
    PROVE  ReplacingInv(q)'
<1>1. /\ identity'.profile = IF pc[p] = "update_user" THEN target[p].profile ELSE identity.profile
      /\ identity'.enabled = IF pc[p] = "update_user" THEN target[p].active ELSE identity.enabled
      /\ identity'.roles = CASE pc[p] = "delete_roles" -> identity.roles \ seen[p]
                             [] pc[p] = "add_role"     -> identity.roles \cup {target[p].role}
                             [] OTHER                  -> identity.roles
  BY AppliedParts
<1> QED
  BY <1>1 DEF ReplacingInv, Calls

\* A call that succeeds brings its own replacement forward; the last one leaves
\* the identity as the row wants it.
LEMMA CallAdvances ==
    ASSUME TypeOK, NEW p \in Processes, pc[p] \in Calls, target[p] \in Row,
           ReplacingInv(p), OneRole, CallSucceeds(p)
    PROVE  /\ ReplacingInv(p)'
           /\ AfterCall(p) = "replaced" => identity' = IdentityState(target[p])
<1>1. /\ identity'.profile = IF pc[p] = "update_user" THEN target[p].profile ELSE identity.profile
      /\ identity'.enabled = IF pc[p] = "update_user" THEN target[p].active ELSE identity.enabled
      /\ identity'.roles = CASE pc[p] = "delete_roles" -> identity.roles \ seen[p]
                             [] pc[p] = "add_role"     -> identity.roles \cup {target[p].role}
                             [] OTHER                  -> identity.roles
  BY AppliedParts DEF CallSucceeds
<1>2. identity'.profile = target[p].profile /\ identity'.enabled = target[p].active
  BY <1>1 DEF ReplacingInv, Calls
<1>3. AfterCall(p) = "replaced" => identity'.roles = {target[p].role}
  BY <1>1 DEF ReplacingInv, AfterCall, Calls
<1>4. AfterCall(p) = "replaced" => identity' = IdentityState(target[p])
  <2>1. identity' \in Identity
    BY EffectIdentity DEF CallSucceeds, Applied, TypeOK
  <2> QED
    BY <1>2, <1>3, <2>1, IdentityEqual
<1>5. ReplacingInv(p)'
  <2>1. target'[p] = target[p]
    BY DEF CallSucceeds
  <2>2. CASE AfterCall(p) = "replaced"
    <3>1. pc'[p] \in {"done", "write"}
      BY <2>2 DEF CallSucceeds, Replaced, TypeOK
    <3> QED
      BY <1>2, <1>3, <2>1, <2>2, <3>1 DEF ReplacingInv
  <2>3. CASE AfterCall(p) # "replaced"
    <3>1. pc'[p] = AfterCall(p)
      BY <2>3 DEF CallSucceeds, TypeOK
    <3>2. CASE pc[p] = "get_roles"
      <4>1. seen'[p] = identity.roles /\ identity'.roles = identity.roles
        BY <1>1, <3>2 DEF CallSucceeds, TypeOK
      <4>2. identity.roles # {target[p].role}
        BY <2>3, <3>2 DEF AfterCall
      <4>3. target[p].role \notin identity.roles
        BY <4>2 DEF OneRole
      <4>4. pc'[p] = IF identity.roles = {} THEN "add_role" ELSE "delete_roles"
        BY <3>1, <3>2, <4>2 DEF AfterCall
      <4> QED
        BY <1>2, <2>1, <4>1, <4>3, <4>4 DEF ReplacingInv
    <3>3. CASE pc[p] # "get_roles"
      <4>1. seen'[p] = seen[p]
        BY <3>3 DEF CallSucceeds
      <4>2. /\ pc[p] = "update_user" => pc'[p] = "get_roles"
            /\ pc[p] = "delete_roles" => pc'[p] = "add_role"
            /\ pc[p] # "add_role"
        BY <2>3, <3>1, <3>3 DEF AfterCall, Calls
      <4> QED
        BY <1>1, <1>2, <2>1, <3>3, <4>1, <4>2 DEF ReplacingInv, Calls
    <3> QED
      BY <3>2, <3>3
  <2> QED
    BY <2>2, <2>3
<1> QED
  BY <1>4, <1>5

\* A call for the committed row does not undo an agreement.
LEMMA CallKeepsAgreement ==
    ASSUME TypeOK, NEW p \in Processes, pc[p] \in Calls, target[p] = row,
           ReplacingInv(p), Agree, identity' = Applied(p)
    PROVE  identity' = IdentityState(row)
<1>1. row \in Row /\ identity \in Identity /\ identity' \in Identity
  BY EffectIdentity DEF TypeOK, Applied
<1>2. identity.profile = row.profile /\ identity.enabled = row.active
      /\ identity.roles = {row.role}
  BY DEF Agree, IdentityState
<1>3. identity'.profile = row.profile /\ identity'.enabled = row.active
      /\ identity'.roles = {row.role}
  BY <1>1, <1>2, AppliedParts DEF ReplacingInv
<1> QED
  BY <1>1, <1>3, IdentityEqual

-------------------------------------------------------------------------------
(* Who runs beside whom. *)

\* An update that may still commit, or has to roll back, runs alone.
LEMMA HolderRunsAlone ==
    ASSUME SyncInv, Compensated, NEW p \in Updates, lock = p, NEW q \in Processes \ {p}
    PROVE  Idle(q)
<1>1. ReplacementInv(q) /\ HoldingInv(q) /\ pc[q] \in Steps
  BY DEF SyncInv, Compensated, TypeOK
<1> QED
  BY <1>1 DEF ReplacementInv, HoldingInv, Idle, Steps

\* Two replacements run at once only for the same row.
LEMMA SameTarget ==
    ASSUME SyncInv, Compensated, NEW p \in Processes, NEW q \in Processes \ {p},
           pc[p] \in Calls, pc[q] \in Calls \cup {"write"}
    PROVE  target[q] = target[p]
<1>1. \A r \in {p, q} :
         /\ ReplacementInv(r) /\ HoldingInv(r)
         /\ r \in Updates /\ ~restoring[r] => lock = r
         /\ r \notin Updates \/ restoring[r] => target[r] = row
  BY DEF SyncInv, Compensated, ReplacementInv, HoldingInv, Processes
<1>2. ~Idle(p) /\ ~Idle(q)
  BY DEF Idle, Calls
<1>3. ~(p \in Updates /\ lock = p) /\ ~(q \in Updates /\ lock = q)
  BY <1>2, HolderRunsAlone
<1> QED
  BY <1>1, <1>3

\* Without a gap, a step of one process leaves the others their knowledge.
LEMMA OthersHold ==
    ASSUME ~Uncompensated', NEW q \in Processes, HoldingInv(q), row' = row,
           pc'[q] = pc[q], restoring'[q] = restoring[q],
           target'[q] = target[q], previous'[q] = previous[q]
    PROVE  HoldingInv(q)'
BY DEF Uncompensated, Unacknowledged, Overtaken, HoldingInv, Idle

\* A step that leaves the identity and the row alone.
LEMMA LocalStep ==
    ASSUME SyncInv, Compensated, ~Uncompensated', NEW p \in Processes,
           row' = row, identity' = identity,
           \A q \in Processes \ {p} :
              /\ pc'[q] = pc[q] /\ restoring'[q] = restoring[q] /\ seen'[q] = seen[q]
              /\ target'[q] = target[q] /\ previous'[q] = previous[q],
           HoldingInv(p)', ReplacingInv(p)',
           (flagged => flagged') \/ Agree, flagged' \/ Idle(p) \/ p \in Sweeps \/ ~Idle(p)'
    PROVE  Compensated'
<1>1. late' = {}
  BY DEF Uncompensated
<1>2. \A x, y \in identity'.roles : x = y
  BY DEF Compensated
<1>3. \A q \in Processes : HoldingInv(q)' /\ ReplacingInv(q)'
  BY OthersHold DEF Compensated, ReplacingInv
<1>4. Agree' \/ flagged' \/ \E u \in Updates : ~Idle(u)'
  BY ProcessesDisjoint DEF Compensated, Agree, IdentityState, Idle, Processes
<1> QED
  BY <1>1, <1>2, <1>3, <1>4 DEF Compensated

\* A step that applies a call.
LEMMA AppliedStep ==
    ASSUME SyncInv, Compensated, ~Uncompensated', NEW p \in Processes, pc[p] \in Calls,
           row' = row, identity' = Applied(p), flagged => flagged',
           \A q \in Processes \ {p} :
              /\ pc'[q] = pc[q] /\ restoring'[q] = restoring[q] /\ seen'[q] = seen[q]
              /\ target'[q] = target[q] /\ previous'[q] = previous[q],
           HoldingInv(p)', ReplacingInv(p)',
           identity' = IdentityState(row) \/ flagged' \/ p \in Sweeps \/ ~Idle(p)'
    PROVE  Compensated'
<1>1. TypeOK /\ target[p] \in Row /\ ReplacementInv(p)
  BY ReplacementRows DEF SyncInv
<1>2. late' = {}
  BY DEF Uncompensated
<1>3. \A x, y \in identity'.roles : x = y
  BY <1>1, CallOneRole DEF Compensated, OneRole
<1>4. ASSUME NEW q \in Processes \ {p} PROVE HoldingInv(q)' /\ ReplacingInv(q)'
  <2>1. HoldingInv(q)'
    BY <1>4, OthersHold DEF Compensated
  <2>2. pc[q] \in Calls \cup {"write"} => target[q] = target[p]
    BY <1>4, SameTarget
  <2>3. ReplacingInv(p) /\ ReplacingInv(q)
    BY <1>4 DEF Compensated
  <2> QED
    BY <1>1, <1>4, <2>1, <2>2, <2>3, CallKeepsOthers
<1>5. Agree' \/ flagged' \/ \E u \in Updates : ~Idle(u)'
  <2>1. CASE identity' = IdentityState(row)
    BY <2>1 DEF Agree, IdentityState
  <2>2. CASE flagged'
    BY <2>2
  <2>3. CASE p \in Updates /\ ~Idle(p)'
    BY <2>3
  <2>4. CASE p \in Sweeps /\ Agree
    <3>1. target[p] = row /\ ReplacingInv(p)
      BY <2>4 DEF Compensated, HoldingInv
    <3> QED
      BY <1>1, <2>1, <2>4, <3>1, CallKeepsAgreement
  <2>5. CASE p \in Sweeps /\ \E u \in Updates : ~Idle(u)
    BY <2>5, ProcessesDisjoint DEF Idle, Processes
  <2> QED
    BY <2>1, <2>2, <2>3, <2>4, <2>5 DEF Compensated, Processes
<1> QED
  BY <1>2, <1>3, <1>4, <1>5 DEF Compensated

-------------------------------------------------------------------------------
(* The steps. *)

\* A transaction begins, on the row as it is.
LEMMA BeginCompensated ==
    ASSUME SyncInv, Compensated, ~Uncompensated', NEW p \in Processes,
           BeginUpdate(p) \/ BeginSweep(p)
    PROVE  Compensated'
<1>1. PICK state : Begin(p, state) /\ (p \in Sweeps => state = row)
  BY ProcessesDisjoint DEF BeginUpdate, BeginSweep
<1>2. /\ pc'[p] = "update_user" /\ restoring'[p] = FALSE /\ previous'[p] = row
      /\ target'[p] = state /\ row' = row /\ identity' = identity /\ flagged' = flagged
      /\ \A q \in Processes \ {p} :
            /\ pc'[q] = pc[q] /\ restoring'[q] = restoring[q] /\ seen'[q] = seen[q]
            /\ target'[q] = target[q] /\ previous'[q] = previous[q]
  BY <1>1 DEF Begin, SyncInv, TypeOK
<1>3. HoldingInv(p)' /\ ReplacingInv(p)'
  BY <1>1, <1>2 DEF HoldingInv, ReplacingInv
<1>4. ~Idle(p)'
  BY <1>2 DEF Idle
<1> QED
  BY <1>2, <1>3, <1>4, LocalStep

\* A process that does nothing, yet or any more.
LEMMA IdleCompensated ==
    ASSUME SyncInv, Compensated, ~Uncompensated', NEW p \in Processes,
           RefuseTaken(p) \/ SweepAgain(p)
    PROVE  Compensated'
<1>1. /\ pc'[p] \in {"start", "done"} /\ Idle(p)
      /\ row' = row /\ identity' = identity /\ flagged' = flagged
      /\ \A q \in Processes \ {p} :
            /\ pc'[q] = pc[q] /\ restoring'[q] = restoring[q] /\ seen'[q] = seen[q]
            /\ target'[q] = target[q] /\ previous'[q] = previous[q]
  BY DEF RefuseTaken, SweepAgain, SyncInv, TypeOK, Idle, local
<1>2. HoldingInv(p)' /\ ReplacingInv(p)'
  BY <1>1 DEF HoldingInv, ReplacingInv, Idle, Calls
<1> QED
  BY <1>1, <1>2, LocalStep

\* A call succeeds: the replacement goes on, or its target is reached.
LEMMA CallSucceedsCompensated ==
    ASSUME SyncInv, Compensated, ~Uncompensated', NEW p \in Processes, CallSucceeds(p)
    PROVE  Compensated'
<1>1. /\ TypeOK /\ ReplacementInv(p) /\ HoldingInv(p) /\ ReplacingInv(p) /\ OneRole
      /\ pc[p] \in Calls /\ target[p] \in Row
  BY ReplacementRows DEF CallSucceeds, SyncInv, Compensated, OneRole
<1>2. /\ row' = row /\ identity' = Applied(p) /\ flagged' = flagged
      /\ restoring' = restoring /\ target' = target /\ previous' = previous
      /\ \A q \in Processes \ {p} : pc'[q] = pc[q] /\ seen'[q] = seen[q]
  BY <1>1 DEF CallSucceeds, Replaced, TypeOK
<1>3. /\ pc'[p] \in Calls \cup {"write", "done"}
      /\ pc'[p] = "write" => ~restoring[p]
      /\ pc'[p] = "done" => restoring[p] /\ AfterCall(p) = "replaced"
  BY <1>1 DEF CallSucceeds, Replaced, TypeOK, AfterCall, Calls
<1>4. ReplacingInv(p)' /\ (AfterCall(p) = "replaced" => identity' = IdentityState(target[p]))
  BY <1>1, CallAdvances
<1>5. HoldingInv(p)'
  <2>1. restoring'[p] /\ pc'[p] \in Calls => lock' \notin Updates
    BY <1>1, <1>2 DEF HoldingInv, CallSucceeds
  <2> QED
    BY <1>1, <1>2, <1>3, <2>1 DEF HoldingInv, Calls, Idle
<1>6. pc'[p] = "done" => identity' = IdentityState(row)
  BY <1>1, <1>3, <1>4 DEF HoldingInv
<1> QED
  BY <1>1, <1>2, <1>3, <1>4, <1>5, <1>6, AppliedStep DEF Idle, Calls

\* A call fails, applied or not: a failed restoration is reported.
LEMMA CallFailsCompensated ==
    ASSUME SyncInv, Compensated, ~Uncompensated', NEW p \in Processes, CallFails(p)
    PROVE  Compensated'
<1>1. TypeOK /\ ReplacementInv(p) /\ HoldingInv(p) /\ pc[p] \in Calls
  BY DEF CallFails, SyncInv, Compensated
<1>2. /\ row' = row /\ UNCHANGED local
      /\ \A q \in Processes \ {p} : pc'[q] = pc[q]
      /\ \/ restoring[p] /\ pc'[p] = "done" /\ flagged' = TRUE
         \/ ~restoring[p] /\ pc'[p] = "rollback" /\ flagged' = flagged
  BY <1>1 DEF CallFails, GiveUp, TypeOK
<1>3. HoldingInv(p)'
  <2>1. ~restoring[p] => lock' = p
    BY <1>1 DEF CallFails, ReplacementInv
  <2> QED
    BY <1>1, <1>2, <2>1 DEF HoldingInv, Calls, Idle, local
<1>4. ReplacingInv(p)'
  BY <1>2 DEF ReplacingInv
<1>5. flagged' \/ ~Idle(p)'
  BY <1>2 DEF Idle
<1>6. CASE identity' = identity
  BY <1>2, <1>3, <1>4, <1>5, <1>6, LocalStep DEF local
<1>7. CASE identity' = Applied(p)
  BY <1>1, <1>2, <1>3, <1>4, <1>5, <1>7, AppliedStep DEF local
<1> QED
  BY <1>6, <1>7 DEF CallFails

\* An update that commits was alone, and the identity is as it asked; a sweep
\* that reports success has pushed the row.
LEMMA CommitCompensated ==
    ASSUME SyncInv, Compensated, ~Uncompensated', NEW p \in Processes, Commit(p)
    PROVE  Compensated'
<1>1. /\ TypeOK /\ ReplacementInv(p) /\ HoldingInv(p) /\ ReplacingInv(p)
      /\ pc[p] = "write" /\ target[p] \in Row /\ ~restoring[p] /\ lock = p
  BY ReplacementRows DEF Commit, SyncInv, Compensated, ReplacementInv
<1>2. /\ pc'[p] = "done" /\ identity' = identity /\ UNCHANGED local
      /\ \A q \in Processes \ {p} : pc'[q] = pc[q]
  BY <1>1 DEF Commit, TypeOK
<1>3. identity = IdentityState(target[p])
  BY <1>1, IdentityEqual DEF ReplacingInv, TypeOK
<1>4. HoldingInv(p)' /\ ReplacingInv(p)'
  BY <1>2 DEF HoldingInv, ReplacingInv, Idle, Calls
<1>5. CASE p \in Updates
  <2>1. row' = target[p] /\ flagged' = flagged
    BY <1>5 DEF Commit
  <2>2. ASSUME NEW q \in Processes \ {p} PROVE HoldingInv(q)' /\ ReplacingInv(q)'
    <3>1. Idle(q)
      BY <1>1, <1>5, <2>2, HolderRunsAlone
    <3> QED
      BY <1>2, <2>2, <3>1 DEF HoldingInv, ReplacingInv, Idle, Calls
  <2>3. Agree'
    BY <1>2, <1>3, <2>1 DEF Agree, IdentityState
  <2>4. late' = {}
    BY DEF Uncompensated
  <2> QED
    BY <1>2, <1>4, <2>2, <2>3, <2>4 DEF Compensated
<1>6. CASE p \notin Updates
  <2>1. row' = row /\ target[p] = row
    BY <1>1, <1>6 DEF Commit, HoldingInv, Processes
  <2>2. Agree /\ p \in Sweeps
    BY <1>3, <1>6, <2>1 DEF Agree, Processes
  <2> QED
    BY <1>2, <1>4, <2>1, <2>2, LocalStep DEF local
<1> QED
  BY <1>5, <1>6

\* The local write fails: the identity is ahead, and its update rolls back.
LEMMA WriteFailsCompensated ==
    ASSUME SyncInv, Compensated, ~Uncompensated', NEW p \in Processes, WriteFails(p)
    PROVE  Compensated'
<1>1. TypeOK /\ ReplacementInv(p) /\ HoldingInv(p) /\ pc[p] = "write"
  BY DEF WriteFails, SyncInv, Compensated
<1>2. /\ pc'[p] = "rollback" /\ row' = row /\ identity' = identity /\ flagged' = flagged
      /\ UNCHANGED local /\ lock' = lock
      /\ \A q \in Processes \ {p} : pc'[q] = pc[q]
  BY <1>1 DEF WriteFails, TypeOK
<1>3. HoldingInv(p)' /\ ReplacingInv(p)'
  BY <1>1, <1>2 DEF HoldingInv, ReplacingInv, ReplacementInv, Calls, Idle, local
<1> QED
  BY <1>2, <1>3, LocalStep DEF local, Idle

\* The row is released; an update turns to restoring it, a sweep reports.
LEMMA RollbackCompensated ==
    ASSUME SyncInv, Compensated, ~Uncompensated', NEW p \in Processes, Rollback(p)
    PROVE  Compensated'
<1>1. TypeOK /\ ReplacementInv(p) /\ HoldingInv(p) /\ pc[p] = "rollback" /\ ~restoring[p]
      /\ lock = p /\ p # None
  BY NoneIsNothing DEF Rollback, SyncInv, Compensated, ReplacementInv, HoldingInv
<1>2. /\ row' = row /\ identity' = identity /\ previous' = previous /\ seen' = seen
      /\ lock' = None /\ (flagged => flagged')
      /\ \A q \in Processes \ {p} :
            pc'[q] = pc[q] /\ restoring'[q] = restoring[q] /\ target'[q] = target[q]
  BY <1>1 DEF Rollback, TypeOK
<1>3. CASE p \in Updates
  <2>1. pc'[p] = "update_user" /\ restoring'[p] /\ target'[p] = previous[p]
    BY <1>1, <1>3 DEF Rollback, TypeOK
  <2>2. previous[p] = row
    BY <1>1, <1>3 DEF HoldingInv, Idle
  <2>3. HoldingInv(p)' /\ ReplacingInv(p)' /\ ~Idle(p)'
    BY <1>2, <2>1, <2>2, NoneIsNothing DEF HoldingInv, ReplacingInv, Idle, Processes
  <2> QED
    BY <1>2, <2>3, LocalStep
<1>4. CASE p \notin Updates
  <2>1. pc'[p] = "done" /\ flagged' = TRUE
    BY <1>1, <1>4 DEF Rollback, TypeOK
  <2>2. HoldingInv(p)' /\ ReplacingInv(p)'
    BY <2>1 DEF HoldingInv, ReplacingInv, Idle, Calls
  <2> QED
    BY <1>2, <2>1, <2>2, LocalStep
<1> QED
  BY <1>3, <1>4

\* The steps that open a gap.
LEMMA GapOpens ==
    ASSUME SyncInv, NEW p \in Processes, CallTimesOut(p) \/ CommitLost(p) \/ Crash(p)
    PROVE  Uncompensated'
<1>1. CASE CallTimesOut(p)
  BY <1>1 DEF CallTimesOut, Uncompensated
<1>2. CASE CommitLost(p)
  BY <1>2, NoneIsNothing DEF CommitLost, SyncInv, TypeOK, Uncompensated, Unacknowledged
<1>3. CASE Crash(p)
  BY <1>3 DEF Crash, SyncInv, TypeOK, Uncompensated
<1> QED
  BY <1>1, <1>2, <1>3

-------------------------------------------------------------------------------
(* The promise of updateManagedUser. *)

LEMMA GapInitInv == GapInit => CompensationInv
<1> SUFFICES ASSUME GapInit PROVE CompensationInv
  OBVIOUS
<1>1. SyncInv
  BY SyncInit DEF GapInit
<1>2. \A x, y \in identity.roles : x = y
  BY DEF GapInit, Init, IdentityState
<1>3. \A p \in Processes : HoldingInv(p) /\ ReplacingInv(p)
  BY DEF GapInit, Init, HoldingInv, ReplacingInv, Calls, Idle
<1> QED
  BY <1>1, <1>2, <1>3 DEF GapInit, Init, CompensationInv, Compensated, Agree

LEMMA GapNextInv == CompensationInv /\ [GapNext]_gapVars => CompensationInv'
<1> SUFFICES ASSUME CompensationInv, [GapNext]_gapVars PROVE CompensationInv'
  OBVIOUS
<1>1. SyncInv /\ [Next]_vars
  BY DEF CompensationInv, GapNext, gapVars
<1>2. SyncInv'
  BY <1>1, SyncNext
<1>3. ASSUME ~gap', GapNext PROVE Compensated'
  <2>1. Compensated /\ ~Uncompensated' /\ Next
    BY <1>3 DEF CompensationInv, GapNext
  <2>2. ASSUME NEW p \in Processes,
               BeginUpdate(p) \/ RefuseTaken(p) \/ BeginSweep(p) \/ SweepAgain(p)
        PROVE  Compensated'
    BY <1>1, <2>1, <2>2, BeginCompensated, IdleCompensated
  <2>3. ASSUME NEW p \in Processes, Proceed(p) PROVE Compensated'
    BY <1>1, <2>1, <2>3, CallSucceedsCompensated, CommitCompensated, RollbackCompensated
    DEF Proceed
  <2>4. ASSUME NEW p \in Processes, Fail(p) PROVE Compensated'
    BY <1>1, <2>1, <2>4, CallFailsCompensated, WriteFailsCompensated, GapOpens DEF Fail
  <2>5. ~DeliverLate
    BY <2>1 DEF Compensated, DeliverLate
  <2> QED
    BY <2>1, <2>2, <2>3, <2>4, <2>5 DEF Next
<1>4. ASSUME ~gap', UNCHANGED gapVars PROVE Compensated'
  <2>1. Compensated
    BY <1>4 DEF CompensationInv, gapVars
  <2> QED
    BY <1>4, <2>1 DEF gapVars, vars, Compensated, HoldingInv, ReplacingInv, Agree,
       IdentityState, Idle
<1> QED
  BY <1>2, <1>3, <1>4 DEF CompensationInv

\* Outside the gaps a difference between the stores is always somebody's
\* business, for any number of updates, sweeps and faults.
THEOREM CompensationInvariant == GapSpec => []CompensationInv
BY GapInitInv, GapNextInv, PTL DEF GapSpec

\* When nothing runs any more, the stores agree or the operator was told, unless
\* a situation came up that the code does not compensate.
THEOREM AlwaysAgreeOrFlagged == GapSpec => []AgreeOrFlaggedUnlessGap
<1>1. CompensationInv => AgreeOrFlaggedUnlessGap
  BY DEF CompensationInv, Compensated, AgreeOrFlaggedUnlessGap, AgreeOrFlagged, Quiet,
     Processes
<1> QED
  BY <1>1, CompensationInvariant, PTL

\* The identity never carries two managed roles, unless there was a gap.
THEOREM AlwaysOneManagedRole == GapSpec => []OneManagedRoleUnlessGap
<1>1. CompensationInv => OneManagedRoleUnlessGap
  BY DEF CompensationInv, Compensated, OneManagedRoleUnlessGap
<1> QED
  BY <1>1, CompensationInvariant, PTL
===============================================================================
