------------------------ MODULE UserProvisioningProofs ------------------------
(***************************************************************************)
(* Why a linked user keeps its identity and no orphan stays unreported,    *)
(* for every set of creations, sweeps, names and ids and any number of     *)
(* faults, as long as Keycloak has an id left that nothing mentions.  At   *)
(* the end, why the code implements Accounts, in which a user comes to     *)
(* exist in both stores at one instant.                                    *)
(***************************************************************************)
EXTENDS UserProvisioning, TLAPS

Message == [call : Calls, name : Names, subject : Subjects]

\* What a process knows of the stores.
Known(p) == WorkInv(p) /\ OrphanInv(p) /\ (p \in Sweeps => TodoInv(p))

-------------------------------------------------------------------------------
(* Calls to Keycloak. *)

LEMMA FreshSubject ==
    ASSUME SubjectsSuffice
    PROVE  /\ NewSubject \in Subjects /\ identities[NewSubject] = None
           /\ \A n \in Names : rows[n] # NewSubject
           /\ \A p \in Processes : subject[p] # NewSubject
           /\ \A m \in late : m.subject # NewSubject
<1>1. NewSubject \in Unused
  BY DEF NewSubject, SubjectsSuffice
<1>2. NewSubject \in Subjects /\ NewSubject \notin Mentioned
  BY <1>1 DEF Unused
<1>3. NewSubject \notin Existing /\ NewSubject \notin Linked
  BY <1>2 DEF Mentioned
<1>4. NewSubject \notin {subject[p] : p \in Processes}
  BY <1>2 DEF Mentioned
<1>5. \A m \in late : m.subject \in Mentioned
  BY DEF Mentioned
<1>6. identities[NewSubject] = None
  BY <1>2, <1>3 DEF Existing
<1>7. \A n \in Names : rows[n] # NewSubject
  BY <1>2, <1>3 DEF Linked
<1> QED
  BY <1>2, <1>4, <1>5, <1>6, <1>7

\* A call may do what it does, and no other process counts on its identity.
LEMMA CallMessage ==
    ASSUME ProvisioningInv, SubjectsSuffice, NEW p \in Processes, pc[p] \in Calls
    PROVE  /\ Call(p) \in Message /\ Call(p).call = pc[p] /\ Call(p).name = name[p]
           /\ MessageInv(Call(p))
           /\ \A q \in Processes \ {p} :
                 Provisioning(q) \/ pc[p] = "create_user" => subject[q] # Call(p).subject
<1>1. WorkInv(p) /\ name[p] \in Names /\ pc[p] \in {"create_user", "set_role", "push", "delete_user"}
  BY DEF ProvisioningInv, WorkInv, Calls
<1>2. /\ Call(p).call = pc[p] /\ Call(p).name = name[p]
      /\ pc[p] = "create_user" => Call(p).subject = NewSubject
      /\ pc[p] = "push" => Call(p).subject = rows[name[p]]
      /\ pc[p] \in {"set_role", "delete_user"} => Call(p).subject = subject[p]
  BY <1>1 DEF Call
<1>3. Call(p).subject \in Subjects
  BY <1>1, <1>2, FreshSubject DEF WorkInv, Provisioning, Existing
<1>4. Call(p) \in Message
  BY <1>1, <1>2, <1>3 DEF Call, Message
<1>5. MessageInv(Call(p))
  BY <1>1, <1>2, FreshSubject
  DEF MessageInv, WorkInv, Provisioning, Existing, Linked, Unacknowledged
<1>6. ASSUME NEW q \in Processes \ {p}, Provisioning(q) \/ pc[p] = "create_user"
      PROVE  subject[q] # Call(p).subject
  <2>1. CASE pc[p] = "create_user"
    BY <1>2, <2>1, FreshSubject
  <2>2. CASE pc[p] = "push"
    BY <1>1, <1>2, <1>6, <2>2 DEF ProvisioningInv, WorkInv, Linked
  <2>3. CASE pc[p] \in {"set_role", "delete_user"}
    BY <1>2, <1>3, <2>3, NoneIsNothing DEF ProvisioningInv
  <2> QED
    BY <1>1, <2>1, <2>2, <2>3
<1> QED
  BY <1>2, <1>4, <1>5, <1>6

\* The effect of a call: only its own identity changes, into the one of its name
\* or into none, and a call other than create_user brings none into being.
LEMMA EffectParts ==
    ASSUME TypeOK, NEW m \in Message, Acceptable(m), identities' = Effect(m)
    PROVE  /\ identities' \in [Subjects -> [name : Names, role : BOOLEAN] \cup {None}]
           /\ \A sub \in Subjects \ {m.subject} : identities'[sub] = identities[sub]
           /\ m.call \in {"set_role", "push"} =>
                 identities'[m.subject] = [name |-> m.name, role |-> TRUE]
           /\ m.call = "create_user" =>
                 identities'[m.subject] = [name |-> m.name, role |-> FALSE]
           /\ m.call # "create_user" => identities[m.subject] # None
BY DEF TypeOK, Message, Calls, Acceptable, Effect

\* An acknowledged user stays whole.
LEMMA EffectHealthy ==
    ASSUME ProvisioningInv, NEW m \in Message, MessageInv(m), Acceptable(m),
           identities' = Effect(m), rows' = rows, uncertain' = uncertain
    PROVE  AcknowledgedHealthy'
<1> SUFFICES ASSUME NEW n \in Names, rows[n] \in Subjects, n \notin uncertain
             PROVE  Healthy(n)'
  BY DEF AcknowledgedHealthy
<1>1. Healthy(n)
  BY DEF ProvisioningInv, AcknowledgedHealthy
<1>2. CASE rows[n] # m.subject
  <2>1. identities'[rows[n]] = identities[rows[n]]
    BY <1>2, EffectParts DEF ProvisioningInv
  <2> QED
    BY <1>1, <2>1 DEF Healthy, Existing
<1>3. CASE rows[n] = m.subject
  <2>1. m.call = "push" /\ rows[m.name] = m.subject
    BY <1>3 DEF MessageInv, Unacknowledged
  <2>2. m.name = n
    BY <1>3, <2>1 DEF ProvisioningInv, Message
  <2>3. identities'[rows[n]] = [name |-> n, role |-> TRUE]
    BY <1>3, <2>1, <2>2, EffectParts DEF ProvisioningInv
  <2>4. [name |-> n, role |-> TRUE] \in [name : Names, role : BOOLEAN]
    OBVIOUS
  <2>5. [name |-> n, role |-> TRUE] # None
    BY <2>4, NoneIsNoIdentity
  <2> QED
    BY <2>3, <2>5 DEF Healthy, Existing
<1> QED
  BY <1>2, <1>3

-------------------------------------------------------------------------------
(* What a step leaves to the processes that do not take it. *)

\* A user that has a row keeps it, and a linked one its link.
RowsGrow ==
    \A n \in Names :
        /\ rows[n] # None => rows'[n] # None
        /\ rows[n] \in Subjects => rows'[n] = rows[n]

LEMMA OthersKnow ==
    ASSUME TypeOK, NEW q \in Processes, Known(q), RowsGrow,
           pc'[q] = pc[q], name'[q] = name[q], subject'[q] = subject[q],
           q \in Sweeps => todo'[q] = todo[q] /\ failures'[q] = failures[q],
           warned => warned', uncertain \subseteq uncertain',
           \A n \in Names : rows'[n] = subject[q] /\ subject[q] \in Subjects => rows[n] = subject[q],
           Provisioning(q) => identities'[subject[q]] = identities[subject[q]],
           subject[q] \in Subjects /\ identities'[subject[q]] # None
              => identities[subject[q]] # None
    PROVE  Known(q)'
<1>1. subject[q] \in Existing' \ Linked' => subject[q] \in Existing \ Linked
  <2> SUFFICES ASSUME subject[q] \in Existing' \ Linked'
               PROVE  subject[q] \in Existing \ Linked
    OBVIOUS
  <2>1. subject[q] \in Subjects /\ identities[subject[q]] # None
    BY DEF Existing
  <2>2. subject[q] \notin Linked
    BY <2>1 DEF Linked, RowsGrow
  <2> QED
    BY <2>1, <2>2 DEF Existing
<1>2. Provisioning(q) => subject[q] \in Existing' \ Linked'
  BY DEF Known, WorkInv, Existing, Linked
<1>3. WorkInv(q)'
  BY <1>2 DEF Known, WorkInv, Provisioning, RowsGrow, Unacknowledged, Calls
<1>4. OrphanInv(q)'
  BY <1>1, ProcessesDisjoint DEF Known, OrphanInv, Processes
<1>5. q \in Sweeps => TodoInv(q)'
  BY DEF Known, TodoInv, RowsGrow, TypeOK
<1> QED
  BY <1>3, <1>4, <1>5 DEF Known

\* A step that changes what one process works on and neither store.
LEMMA LocalStep ==
    ASSUME ProvisioningInv, TypeOK', NEW p \in Processes, rows' = rows,
           identities' = identities, uncertain' = uncertain,
           warned => warned', subject'[p] \in {subject[p], None},
           Provisioning(p)' => Provisioning(p), Known(p)',
           \A m \in late' \ late :
              /\ MessageInv(m)
              /\ \A q \in Processes :
                    Provisioning(q)' \/ m.call = "create_user" => subject'[q] # m.subject,
           \A q \in Processes \ {p} :
              /\ pc'[q] = pc[q] /\ name'[q] = name[q] /\ subject'[q] = subject[q]
              /\ q \in Sweeps => todo'[q] = todo[q] /\ failures'[q] = failures[q]
    PROVE  ProvisioningInv'
<1>1. ASSUME NEW q \in Processes PROVE Known(q)'
  <2>1. TypeOK /\ Known(q) /\ RowsGrow
    BY DEF ProvisioningInv, Known, RowsGrow
  <2>2. CASE q # p
    BY <2>1, <2>2, OthersKnow
  <2> QED
    BY <2>2
<1>2. AcknowledgedHealthy'
  BY DEF ProvisioningInv, AcknowledgedHealthy, Healthy, Existing
<1>3. \A q, r \in Processes : subject'[q] = subject'[r] /\ subject'[q] # None => q = r
  BY DEF ProvisioningInv
<1>4. LateInv'
  <2> SUFFICES ASSUME NEW m \in late'
               PROVE  /\ MessageInv(m)'
                      /\ \A q \in Processes : Provisioning(q)' \/ m.call = "create_user"
                            => subject'[q] # m.subject
    BY DEF LateInv
  <2>1. MessageInv(m)'
    BY DEF ProvisioningInv, LateInv, MessageInv, Unacknowledged
  <2>2. m \in late => m.subject # None
    BY NoneIsNothing DEF ProvisioningInv, TypeOK
  <2> QED
    BY <2>1, <2>2 DEF ProvisioningInv, LateInv, Provisioning
<1>5. \A s \in Sweeps : TodoInv(s)'
  BY <1>1 DEF Known, Processes
<1> QED
  BY <1>1, <1>2, <1>3, <1>4, <1>5 DEF ProvisioningInv, Known

\* A step that applies a call, its process going on from it.
LEMMA AppliedStep ==
    ASSUME ProvisioningInv, TypeOK', NEW p \in Processes, NEW m \in Message,
           MessageInv(m), Acceptable(m), identities' = Effect(m),
           rows' = rows, late' = late, uncertain' = uncertain, warned => warned',
           \A q \in Processes \ {p} :
              /\ Provisioning(q) \/ m.call = "create_user" => subject[q] # m.subject
              /\ pc'[q] = pc[q] /\ name'[q] = name[q] /\ subject'[q] = subject[q]
              /\ q \in Sweeps => todo'[q] = todo[q] /\ failures'[q] = failures[q],
           subject'[p] = subject[p] \/ (m.call = "create_user" /\ subject'[p] = m.subject),
           \A k \in late : Provisioning(p)' \/ k.call = "create_user" => subject'[p] # k.subject,
           Known(p)'
    PROVE  ProvisioningInv'
<1>1. ASSUME NEW q \in Processes PROVE Known(q)'
  <2>1. TypeOK /\ Known(q) /\ RowsGrow
    BY DEF ProvisioningInv, Known, RowsGrow
  <2>2. CASE q # p
    <3>1. \A sub \in Subjects \ {m.subject} : identities'[sub] = identities[sub]
      BY <2>1, EffectParts
    <3>2. m.call # "create_user" => identities[m.subject] # None
      BY <2>1, EffectParts
    <3>3. Provisioning(q) => subject[q] \in Subjects
      BY <2>1 DEF Known, WorkInv, Existing
    <3>4. Provisioning(q) => identities'[subject[q]] = identities[subject[q]]
      BY <2>2, <3>1, <3>3
    <3>5. subject[q] \in Subjects /\ identities'[subject[q]] # None
             => identities[subject[q]] # None
      BY <2>2, <3>1, <3>2
    <3> QED
      BY <2>1, <2>2, <3>4, <3>5, OthersKnow
  <2> QED
    BY <2>2
<1>2. AcknowledgedHealthy'
  BY EffectHealthy
<1>3. \A q, r \in Processes : subject'[q] = subject'[r] /\ subject'[q] # None => q = r
  BY DEF ProvisioningInv
<1>4. LateInv'
  BY DEF ProvisioningInv, LateInv, MessageInv, Unacknowledged, Provisioning
<1>5. \A s \in Sweeps : TodoInv(s)'
  BY <1>1 DEF Known, Processes
<1> QED
  BY <1>1, <1>2, <1>3, <1>4, <1>5 DEF ProvisioningInv, Known

\* An identity that is ready to be linked.
LEMMA ReadyIdentity ==
    ASSUME ProvisioningInv, NEW p \in Processes, pc[p] \in {"insert", "link"}
    PROVE  /\ name[p] \in Names /\ subject[p] \in Existing \ Linked
           /\ identities[subject[p]] = [name |-> name[p], role |-> TRUE]
<1>1. /\ name[p] \in Names /\ subject[p] \in Existing \ Linked
      /\ identities[subject[p]].name = name[p] /\ identities[subject[p]].role
  BY DEF ProvisioningInv, WorkInv, Provisioning
<1>2. identities[subject[p]] \in [name : Names, role : BOOLEAN]
  BY <1>1 DEF ProvisioningInv, TypeOK, Existing
<1> QED
  BY <1>1, <1>2

\* A step that links a user, told to the process or not.
LEMMA LinkStep ==
    ASSUME ProvisioningInv, TypeOK', NEW p \in Processes, pc[p] \in {"insert", "link"},
           rows[name[p]] \notin Subjects, rows' = [rows EXCEPT ![name[p]] = subject[p]],
           identities' = identities, late' = late, uncertain \subseteq uncertain',
           warned => warned', subject' = subject, name' = name,
           ~Provisioning(p)', Known(p)',
           \A q \in Processes \ {p} :
              pc'[q] = pc[q] /\ (q \in Sweeps => todo'[q] = todo[q] /\ failures'[q] = failures[q])
    PROVE  ProvisioningInv'
<1>1. /\ name[p] \in Names /\ subject[p] \in Subjects /\ subject[p] \notin Linked
      /\ identities[subject[p]] = [name |-> name[p], role |-> TRUE]
      /\ subject[p] \in Existing
  BY ReadyIdentity DEF Existing
<1>2. \A n \in Names : rows'[n] = IF n = name[p] THEN subject[p] ELSE rows[n]
  BY DEF ProvisioningInv, TypeOK
<1>3. \A n \in Names : rows[n] # subject[p]
  BY <1>1 DEF Linked
<1>4. subject[p] # None
  BY <1>1, NoneIsNothing
<1>5. ASSUME NEW q \in Processes PROVE Known(q)'
  <2>1. TypeOK /\ Known(q)
    BY DEF ProvisioningInv, Known
  <2>2. RowsGrow
    BY <1>2, <1>4 DEF RowsGrow
  <2>3. CASE q # p
    <3>1. subject[q] # subject[p]
      BY <1>4, <2>3 DEF ProvisioningInv
    <3> QED
      BY <1>2, <2>1, <2>2, <2>3, <3>1, OthersKnow
  <2> QED
    BY <2>3
<1>6. AcknowledgedHealthy'
  <2> SUFFICES ASSUME NEW n \in Names, rows'[n] \in Subjects, n \notin uncertain'
               PROVE  rows'[n] \in Existing' /\ identities'[rows'[n]] = [name |-> n, role |-> TRUE]
    BY DEF AcknowledgedHealthy, Healthy
  <2>1. CASE n = name[p]
    BY <1>1, <1>2, <2>1 DEF Existing
  <2>2. CASE n # name[p]
    <3>1. Healthy(n) /\ rows'[n] = rows[n]
      BY <1>2, <2>2 DEF ProvisioningInv, AcknowledgedHealthy
    <3> QED
      BY <3>1 DEF Healthy, Existing
  <2> QED
    BY <2>1, <2>2
<1>7. \A n, k \in Names : rows'[n] = rows'[k] /\ rows'[n] \in Subjects => n = k
  BY <1>2, <1>3 DEF ProvisioningInv
<1>8. LateInv'
  <2> SUFFICES ASSUME NEW m \in late
               PROVE  /\ MessageInv(m)'
                      /\ \A q \in Processes : Provisioning(q)' \/ m.call = "create_user"
                            => subject'[q] # m.subject
    BY DEF LateInv
  <2>1. m.name \in Names /\ m.subject \in Subjects
    BY DEF ProvisioningInv, TypeOK
  <2>2. MessageInv(m) /\ subject[p] # m.subject
    BY DEF ProvisioningInv, LateInv, Provisioning
  <2>3. MessageInv(m)'
    BY <1>2, <2>1, <2>2 DEF MessageInv, Unacknowledged
  <2> QED
    BY <2>3 DEF ProvisioningInv, LateInv, Provisioning
<1>9. \A q, r \in Processes : subject'[q] = subject'[r] /\ subject'[q] # None => q = r
  BY DEF ProvisioningInv
<1>10. \A s \in Sweeps : TodoInv(s)'
  BY <1>5 DEF Known, Processes
<1> QED
  BY <1>5, <1>6, <1>7, <1>8, <1>9, <1>10 DEF ProvisioningInv, Known

-------------------------------------------------------------------------------
(* Where a process goes when something failed. *)

Told == {"username_conflict", "identity_conflict", "error"}

LEMMA UnlockedType ==
    ASSUME TypeOK, NEW p \in Processes
    PROVE  Unlocked(p) \in [Names -> Sweeps \cup {None}]
BY DEF TypeOK, Unlocked

\* Only the failing process, its answer and its row's lock are touched.
LEMMA CompensateParts ==
    ASSUME TypeOK, NEW p \in Processes, name[p] \in Names, NEW a \in Told, Compensate(p, a)
    PROVE  /\ locks' \in [Names -> Sweeps \cup {None}]
           /\ answer' \in [Creations -> {"pending", "created", "username_conflict",
                                         "identity_conflict", "error", "crashed"}]
           /\ failures' \in [Sweeps -> SUBSET Names]
           /\ pc' \in [Processes -> Steps]
           /\ pc'[p] = IF subject[p] # None THEN "delete_user"
                     ELSE IF p \in Creations THEN "done" ELSE "next_user"
           /\ p \notin Creations => name[p] \in failures'[p]
           /\ \A q \in Processes \ {p} :
                 pc'[q] = pc[q] /\ (q \in Sweeps => failures'[q] = failures[q])
<1>1. locks' \in [Names -> Sweeps \cup {None}]
  BY UnlockedType DEF Compensate
<1>2. answer' \in [Creations -> {"pending", "created", "username_conflict",
                                 "identity_conflict", "error", "crashed"}]
  BY DEF Compensate, TypeOK, Told
<1>3. /\ failures' \in [Sweeps -> SUBSET Names]
      /\ p \notin Creations => name[p] \in failures'[p]
      /\ \A q \in Processes \ {p} : q \in Sweeps => failures'[q] = failures[q]
  BY DEF Compensate, TypeOK, Processes
<1>4. /\ pc' \in [Processes -> Steps]
      /\ pc'[p] = IF subject[p] # None THEN "delete_user"
                ELSE IF p \in Creations THEN "done" ELSE "next_user"
      /\ \A q \in Processes \ {p} : pc'[q] = pc[q]
  BY DEF Compensate, Go, TypeOK, Steps, Calls
<1> QED
  BY <1>1, <1>2, <1>3, <1>4

\* A failure before the link: the identity of one's own is deleted next.
LEMMA CompensateKnown ==
    ASSUME ProvisioningInv, NEW p \in Processes, pc[p] \in {"create_user", "set_role", "push", "insert", "link"},
           NEW a \in Told, Compensate(p, a), name' = name, subject' = subject, todo' = todo,
           rows' = rows, uncertain' = uncertain
    PROVE  Known(p)'
<1>1. TypeOK /\ WorkInv(p) /\ (p \in Sweeps => TodoInv(p)) /\ name[p] \in Names
  BY DEF ProvisioningInv, WorkInv, Calls
<1>2. /\ pc'[p] = IF subject[p] # None THEN "delete_user"
                ELSE IF p \in Creations THEN "done" ELSE "next_user"
      /\ p \notin Creations => name[p] \in failures'[p]
  BY <1>1, CompensateParts
<1>3. subject[p] # None => subject[p] \in Subjects /\ Unacknowledged(subject[p])
  BY <1>1 DEF WorkInv, Provisioning, Existing, Linked, Unacknowledged
<1>4. WorkInv(p)'
  BY <1>1, <1>2, <1>3 DEF WorkInv, Provisioning, Calls, Unacknowledged
<1>5. OrphanInv(p)'
  <2>1. p \in Creations /\ subject[p] # None => pc'[p] = "delete_user"
    BY <1>2
  <2>2. subject[p] \in Existing' => subject[p] # None
    BY NoneIsNothing DEF Existing
  <2> QED
    BY <1>2, <2>1, <2>2 DEF OrphanInv
<1>6. p \in Sweeps => TodoInv(p)'
  BY <1>1, <1>2 DEF TodoInv
<1> QED
  BY <1>4, <1>5, <1>6 DEF Known

\* A call that failed, applied or not.
LEMMA CallFailedParts ==
    ASSUME ProvisioningInv, NEW p \in Processes, pc[p] \in Calls, NEW a \in Told,
           CallFailed(p, a), name' = name, subject' = subject, todo' = todo,
           rows' = rows, uncertain' = uncertain,
           pc[p] = "delete_user" /\ identities'[subject[p]] # None => identities[subject[p]] # None
    PROVE  /\ locks' \in [Names -> Sweeps \cup {None}]
           /\ answer' \in [Creations -> {"pending", "created", "username_conflict",
                                         "identity_conflict", "error", "crashed"}]
           /\ failures' \in [Sweeps -> SUBSET Names]
           /\ pc' \in [Processes -> Steps] /\ warned' \in BOOLEAN
           /\ warned => warned'
           /\ \A q \in Processes \ {p} :
                 pc'[q] = pc[q] /\ (q \in Sweeps => failures'[q] = failures[q])
           /\ ~Provisioning(p)' /\ Known(p)'
<1>1. TypeOK /\ WorkInv(p) /\ OrphanInv(p) /\ name[p] \in Names
  BY DEF ProvisioningInv, WorkInv
<1>2. CASE pc[p] # "delete_user"
  <2>1. Compensate(p, a) /\ warned' = warned
    BY <1>2 DEF CallFailed
  <2>2. pc[p] \in {"create_user", "set_role", "push"}
    BY <1>2 DEF Calls
  <2>3. Known(p)'
    BY <2>1, <2>2, CompensateKnown
  <2>4. ~Provisioning(p)'
    BY <1>1, <2>1, CompensateParts DEF Provisioning
  <2> QED
    BY <1>1, <2>1, <2>3, <2>4, CompensateParts DEF TypeOK
<1>3. CASE pc[p] = "delete_user"
  <2>1. /\ warned' = (warned \/ p \in Creations) /\ UNCHANGED <<answer, failures, locks>>
        /\ pc' = [pc EXCEPT ![p] = IF p \in Creations THEN "done" ELSE "next_user"]
    BY <1>3 DEF CallFailed, DeletionFailed, Go
  <2>2. /\ pc'[p] = IF p \in Creations THEN "done" ELSE "next_user"
        /\ pc' \in [Processes -> Steps] /\ \A q \in Processes \ {p} : pc'[q] = pc[q]
    BY <1>1, <2>1 DEF TypeOK, Steps, Calls
  <2>3. WorkInv(p)' /\ ~Provisioning(p)'
    BY <2>2 DEF WorkInv, Provisioning, Calls
  <2>4. subject[p] \in Existing' \ Linked' => subject[p] \in Existing \ Linked
    BY <1>3 DEF Existing, Linked
  <2>5. OrphanInv(p)'
    BY <1>3, <2>1, <2>4, <1>1 DEF OrphanInv
  <2>6. p \in Sweeps => TodoInv(p)'
    BY <2>2 DEF ProvisioningInv, TodoInv
  <2> QED
    BY <1>1, <2>1, <2>2, <2>3, <2>5, <2>6 DEF Known, TypeOK
<1> QED
  BY <1>2, <1>3

-------------------------------------------------------------------------------
(* The steps of calls. *)

LEMMA CallSucceedsStep ==
    ASSUME ProvisioningInv, SubjectsSuffice, NEW p \in Processes, CallSucceeds(p),
           uncertain' = uncertain
    PROVE  ProvisioningInv'
<1> DEFINE m == Call(p)
<1>1. /\ TypeOK /\ WorkInv(p) /\ OrphanInv(p) /\ pc[p] \in Calls
      /\ pc[p] \in {"create_user", "set_role", "push", "delete_user"} /\ name[p] \in Names
  BY DEF CallSucceeds, ProvisioningInv, WorkInv, Calls
<1>2. /\ m \in Message /\ m.call = pc[p] /\ m.name = name[p] /\ MessageInv(m)
      /\ \A q \in Processes \ {p} :
            Provisioning(q) \/ pc[p] = "create_user" => subject[q] # m.subject
  BY <1>1, CallMessage
<1>3. /\ Acceptable(m) /\ identities' = Effect(m)
      /\ pc' = [pc EXCEPT ![p] = AfterSuccess(p)]
      /\ subject' = IF pc[p] = "create_user" THEN [subject EXCEPT ![p] = m.subject] ELSE subject
      /\ locks' = IF pc[p] = "push" THEN Unlocked(p) ELSE locks
      /\ UNCHANGED <<rows, name, answer, warned, todo, failures, listed, report, late, faults>>
  BY DEF CallSucceeds, Go, sweeping
<1>4. /\ identities' \in [Subjects -> [name : Names, role : BOOLEAN] \cup {None}]
      /\ m.call \in {"set_role", "push"} =>
            identities'[m.subject] = [name |-> m.name, role |-> TRUE]
      /\ m.call = "create_user" =>
            identities'[m.subject] = [name |-> m.name, role |-> FALSE]
  BY <1>1, <1>2, <1>3, EffectParts
<1>5. AfterSuccess(p) =
         IF pc[p] = "create_user" THEN "set_role"
         ELSE IF pc[p] = "set_role" THEN (IF p \in Creations THEN "insert" ELSE "link")
         ELSE IF pc[p] = "push" THEN "next_user"
         ELSE (IF p \in Creations THEN "done" ELSE "next_user")
  BY <1>1 DEF AfterSuccess
<1>6. /\ pc'[p] = AfterSuccess(p) /\ pc' \in [Processes -> Steps]
      /\ subject' \in [Processes -> Subjects \cup {None}]
      /\ subject'[p] = IF pc[p] = "create_user" THEN m.subject ELSE subject[p]
      /\ \A q \in Processes \ {p} : pc'[q] = pc[q] /\ subject'[q] = subject[q]
  BY <1>1, <1>2, <1>3, <1>5 DEF TypeOK, Steps, Calls, Message
<1>7. TypeOK'
  <2>1. locks' \in [Names -> Sweeps \cup {None}]
    BY <1>1, <1>3, UnlockedType DEF TypeOK
  <2> QED
    BY <1>1, <1>3, <1>4, <1>6, <2>1 DEF TypeOK
<1>8. Linked' = Linked
  BY <1>3 DEF Linked
<1>9. \A x \in Names, b \in BOOLEAN : [name |-> x, role |-> b] # None
  <2>1. \A x \in Names, b \in BOOLEAN : [name |-> x, role |-> b] \in [name : Names, role : BOOLEAN]
    OBVIOUS
  <2> QED
    BY <2>1, NoneIsNoIdentity
<1>10. Known(p)'
  <2>1. CASE pc[p] = "create_user"
    <3>1. pc'[p] = "set_role" /\ subject'[p] = m.subject /\ m.subject = NewSubject
      BY <1>1, <1>5, <1>6, <2>1 DEF Call
    <3>2. m.subject \in Subjects /\ m.subject \notin Linked
      BY <3>1, FreshSubject DEF Linked
    <3>3. identities'[m.subject] = [name |-> name[p], role |-> FALSE] /\ name[p] \in Names
      BY <1>1, <1>2, <1>4, <2>1
    <3>4. m.subject \in Existing'
      BY <1>9, <3>2, <3>3 DEF Existing
    <3>5. WorkInv(p)'
      BY <1>3, <1>8, <3>1, <3>2, <3>3, <3>4 DEF WorkInv, Provisioning, Calls
    <3>6. p \in Sweeps => TodoInv(p)'
      BY <1>1, <1>3, <3>1 DEF TodoInv, ProvisioningInv
    <3> QED
      BY <3>1, <3>5, <3>6 DEF Known, OrphanInv
  <2>2. CASE pc[p] = "set_role"
    <3>1. /\ pc'[p] = (IF p \in Creations THEN "insert" ELSE "link")
          /\ subject'[p] = subject[p] /\ m.subject = subject[p]
      BY <1>1, <1>5, <1>6, <2>2 DEF Call
    <3>2. subject[p] \in Subjects /\ subject[p] \notin Linked
      BY <1>1, <2>2 DEF WorkInv, Provisioning, Existing
    <3>3. identities'[subject[p]] = [name |-> name[p], role |-> TRUE]
      BY <1>2, <1>4, <2>2, <3>1
    <3>4. subject[p] \in Existing'
      BY <1>1, <1>9, <3>2, <3>3 DEF Existing
    <3>5. WorkInv(p)'
      BY <1>1, <1>3, <1>8, <3>1, <3>2, <3>3, <3>4 DEF WorkInv, Provisioning, Calls
    <3>6. p \in Sweeps => TodoInv(p)'
      BY <1>3, <3>1 DEF TodoInv, ProvisioningInv
    <3> QED
      BY <3>1, <3>5, <3>6 DEF Known, OrphanInv
  <2>3. CASE pc[p] = "push"
    <3>1. pc'[p] = "next_user" /\ subject'[p] = None
      BY <1>1, <1>5, <1>6, <2>3 DEF WorkInv
    <3>2. p \in Sweeps => TodoInv(p)'
      BY <1>3, <3>1 DEF TodoInv, ProvisioningInv
    <3> QED
      BY <3>1, <3>2, NoneIsNothing DEF Known, OrphanInv, WorkInv, Provisioning, Calls, Existing
  <2>4. CASE pc[p] = "delete_user"
    <3>1. /\ pc'[p] \in {"done", "next_user"} /\ subject'[p] = subject[p]
          /\ m.subject = subject[p]
      BY <1>1, <1>5, <1>6, <2>4 DEF Call
    <3>2. identities'[subject[p]] = None
      BY <1>1, <1>2, <1>3, <2>4, <3>1 DEF Effect, TypeOK, WorkInv
    <3>3. p \in Sweeps => TodoInv(p)'
      BY <1>3, <3>1 DEF TodoInv, ProvisioningInv
    <3> QED
      BY <3>1, <3>2, <3>3 DEF Known, OrphanInv, WorkInv, Provisioning, Calls, Existing
  <2> QED
    BY <1>1, <2>1, <2>2, <2>3, <2>4
<1>11. \A k \in late : Provisioning(p)' \/ k.call = "create_user" => subject'[p] # k.subject
  <2>1. CASE pc[p] = "create_user"
    <3>1. m.subject = NewSubject
      BY <2>1 DEF Call
    <3> QED
      BY <1>6, <2>1, <3>1, FreshSubject
  <2>2. CASE pc[p] # "create_user"
    <3>1. Provisioning(p)' => Provisioning(p)
      BY <1>1, <1>5, <1>6, <2>2 DEF Provisioning
    <3> QED
      BY <1>6, <2>2, <3>1 DEF ProvisioningInv, LateInv
  <2> QED
    BY <2>1, <2>2
<1>12. \A q \in Processes \ {p} :
          /\ Provisioning(q) \/ m.call = "create_user" => subject[q] # m.subject
          /\ pc'[q] = pc[q] /\ name'[q] = name[q] /\ subject'[q] = subject[q]
          /\ q \in Sweeps => todo'[q] = todo[q] /\ failures'[q] = failures[q]
  BY <1>2, <1>3, <1>6
<1>13. subject'[p] = subject[p] \/ (m.call = "create_user" /\ subject'[p] = m.subject)
  BY <1>2, <1>6
<1> HIDE DEF m
<1> QED
  BY <1>2, <1>3, <1>7, <1>10, <1>11, <1>12, <1>13, AppliedStep

LEMMA CallRejectedStep ==
    ASSUME ProvisioningInv, NEW p \in Processes, CallRejected(p), uncertain' = uncertain
    PROVE  ProvisioningInv'
<1>1. PICK a \in Told :
         /\ pc[p] \in Calls /\ CallFailed(p, a)
         /\ UNCHANGED <<rows, identities, name, subject, todo, listed, report, late, faults>>
  <2>1. "identity_conflict" \in Told /\ "error" \in Told
    BY DEF Told
  <2> QED
    BY <2>1 DEF CallRejected
<1>2. TypeOK'
  BY <1>1, CallFailedParts DEF ProvisioningInv, TypeOK
<1>3. Known(p)' /\ ~Provisioning(p)' /\ (warned => warned')
      /\ \A q \in Processes \ {p} :
            pc'[q] = pc[q] /\ (q \in Sweeps => failures'[q] = failures[q])
  BY <1>1, CallFailedParts
<1> QED
  BY <1>1, <1>2, <1>3, LocalStep

\* Faults are counted up to their bound.
LEMMA FaultCounted ==
    ASSUME TypeOK, NEW kind, Fault(kind)
    PROVE  faults' \in 0..MaxFaults
BY MaxFaultsType DEF TypeOK, Fault

LEMMA CallFailsStep ==
    ASSUME ProvisioningInv, SubjectsSuffice, NEW p \in Processes, CallFails(p),
           uncertain' = uncertain
    PROVE  ProvisioningInv'
<1> DEFINE m == Call(p)
<1>1. /\ pc[p] \in Calls /\ CallFailed(p, "error") /\ "error" \in Told
      /\ UNCHANGED <<rows, name, subject, todo, listed, report, late>>
      /\ identities' = identities \/ (Acceptable(m) /\ identities' = Effect(m))
      /\ faults' \in 0..MaxFaults
  BY FaultCounted DEF CallFails, Told, ProvisioningInv
<1>2. /\ m \in Message /\ m.call = pc[p] /\ MessageInv(m)
      /\ \A q \in Processes \ {p} :
            Provisioning(q) \/ pc[p] = "create_user" => subject[q] # m.subject
  BY <1>1, CallMessage
<1>3. identities' \in [Subjects -> [name : Names, role : BOOLEAN] \cup {None}]
  BY <1>1, <1>2, EffectParts DEF ProvisioningInv, TypeOK
<1>4. pc[p] = "delete_user" /\ identities'[subject[p]] # None => identities[subject[p]] # None
  <2> SUFFICES ASSUME pc[p] = "delete_user", Acceptable(m), identities' = Effect(m)
               PROVE  identities[subject[p]] # None
    BY <1>1
  <2>1. m.subject = subject[p]
    BY DEF Call
  <2> QED
    BY <1>2, <2>1, EffectParts DEF ProvisioningInv
<1>5. /\ ~Provisioning(p)' /\ Known(p)' /\ (warned => warned')
      /\ \A q \in Processes \ {p} :
            pc'[q] = pc[q] /\ (q \in Sweeps => failures'[q] = failures[q])
  BY <1>1, <1>4, CallFailedParts
<1>6. TypeOK'
  BY <1>1, <1>3, <1>4, CallFailedParts DEF ProvisioningInv, TypeOK
<1> HIDE DEF m
<1>7. CASE identities' = identities
  BY <1>1, <1>5, <1>6, <1>7, LocalStep
<1>8. CASE Acceptable(m) /\ identities' = Effect(m)
  <2>1. \A k \in late : Provisioning(p)' \/ k.call = "create_user" => subject'[p] # k.subject
    BY <1>1, <1>5 DEF ProvisioningInv, LateInv
  <2> QED
    BY <1>1, <1>2, <1>5, <1>6, <1>8, <2>1, AppliedStep
<1> QED
  BY <1>1, <1>7, <1>8

\* The caller gives up and counts no more on the identity.
LEMMA CallTimesOutStep ==
    ASSUME ProvisioningInv, SubjectsSuffice, NEW p \in Processes, CallTimesOut(p),
           uncertain' = uncertain
    PROVE  ProvisioningInv'
<1> DEFINE m == Call(p)
<1>1. /\ pc[p] \in Calls /\ CallFailed(p, "error") /\ "error" \in Told
      /\ UNCHANGED <<rows, identities, name, subject, todo, listed, report>>
      /\ late' = late \cup {m} /\ faults' \in 0..MaxFaults
  BY FaultCounted DEF CallTimesOut, Told, ProvisioningInv
<1>2. /\ m \in Message /\ m.call = pc[p] /\ MessageInv(m)
      /\ \A q \in Processes \ {p} :
            Provisioning(q) \/ pc[p] = "create_user" => subject[q] # m.subject
  BY <1>1, CallMessage
<1>3. /\ ~Provisioning(p)' /\ Known(p)' /\ (warned => warned')
      /\ \A q \in Processes \ {p} :
            pc'[q] = pc[q] /\ (q \in Sweeps => failures'[q] = failures[q])
  BY <1>1, CallFailedParts
<1>4. TypeOK'
  BY <1>1, <1>2, CallFailedParts DEF ProvisioningInv, TypeOK, Message
<1>5. \A q \in Processes :
         Provisioning(q)' \/ m.call = "create_user" => subject'[q] # m.subject
  <2>1. m.call = "create_user" => subject[p] # m.subject
    <3> SUFFICES ASSUME pc[p] = "create_user" PROVE subject[p] # m.subject
      BY <1>2
    <3>1. m.subject = NewSubject
      BY DEF Call
    <3> QED
      BY <3>1, FreshSubject
  <2>2. \A q \in Processes \ {p} : Provisioning(q)' => Provisioning(q)
    BY <1>3 DEF Provisioning
  <2> QED
    BY <1>1, <1>2, <1>3, <2>1, <2>2
<1> HIDE DEF m
<1>6. \A k \in late' \ late :
         /\ MessageInv(k)
         /\ \A q \in Processes :
               Provisioning(q)' \/ k.call = "create_user" => subject'[q] # k.subject
  BY <1>1, <1>2, <1>5
<1> QED
  BY <1>1, <1>3, <1>4, <1>6, LocalStep

\* Keycloak's late work is for nobody who still counts on it.
LEMMA DeliverLateStep ==
    ASSUME ProvisioningInv, DeliverLate, uncertain' = uncertain
    PROVE  ProvisioningInv'
<1>1. PICK m \in late :
         /\ late' = late \ {m}
         /\ identities' = IF Acceptable(m) THEN Effect(m) ELSE identities
         /\ UNCHANGED <<rows, locks, pc, name, subject, answer, warned, todo, failures,
                        listed, report, faults>>
  BY DEF DeliverLate, sweeping
<1>2. /\ TypeOK /\ m \in Message /\ MessageInv(m)
      /\ \A p \in Processes :
            Provisioning(p) \/ m.call = "create_user" => subject[p] # m.subject
  BY DEF ProvisioningInv, LateInv, TypeOK, Message
<1>3. identities' \in [Subjects -> [name : Names, role : BOOLEAN] \cup {None}]
  BY <1>1, <1>2, EffectParts DEF TypeOK
<1>4. TypeOK'
  BY <1>1, <1>2, <1>3 DEF TypeOK
<1>5. AcknowledgedHealthy'
  <2>1. CASE Acceptable(m)
    BY <1>1, <1>2, <2>1, EffectHealthy
  <2>2. CASE ~Acceptable(m)
    BY <1>1, <2>2 DEF ProvisioningInv, AcknowledgedHealthy, Healthy, Existing
  <2> QED
    BY <2>1, <2>2
<1>6. ASSUME NEW q \in Processes PROVE Known(q)'
  <2>1. RowsGrow /\ Known(q)
    BY <1>1 DEF RowsGrow, ProvisioningInv, Known
  <2>2. \A sub \in Subjects \ {m.subject} : identities'[sub] = identities[sub]
    BY <1>1, <1>2, EffectParts
  <2>3. m.call # "create_user" /\ identities'[m.subject] # None => identities[m.subject] # None
    BY <1>1, <1>2, EffectParts
  <2>4. Provisioning(q) => identities'[subject[q]] = identities[subject[q]]
    BY <1>2, <2>1, <2>2 DEF Known, WorkInv, Existing
  <2>5. subject[q] \in Subjects /\ identities'[subject[q]] # None
           => identities[subject[q]] # None
    BY <1>2, <2>2, <2>3
  <2> QED
    BY <1>1, <1>2, <2>1, <2>4, <2>5, OthersKnow
<1>7. LateInv'
  BY <1>1 DEF ProvisioningInv, LateInv, MessageInv, Unacknowledged, Provisioning
<1>8. \A s \in Sweeps : TodoInv(s)'
  BY <1>6 DEF Known, Processes
<1> QED
  BY <1>1, <1>4, <1>5, <1>6, <1>7, <1>8 DEF ProvisioningInv, Known

-------------------------------------------------------------------------------
(* The other steps of a creation. *)

LEMMA CheckNameStep ==
    ASSUME ProvisioningInv, NEW c \in Processes, CheckName(c), uncertain' = uncertain
    PROVE  ProvisioningInv'
<1>1. TypeOK /\ WorkInv(c) /\ c \in Creations /\ pc[c] = "start" /\ subject[c] = None
  BY DEF CheckName, ProvisioningInv, WorkInv
<1>2. /\ name' \in [Processes -> Names \cup {None}] /\ name'[c] \in Names
      /\ \A q \in Processes \ {c} : name'[q] = name[q]
      /\ pc' \in [Processes -> Steps] /\ pc'[c] \in {"create_user", "done"}
      /\ \A q \in Processes \ {c} : pc'[q] = pc[q]
      /\ answer' \in [Creations -> {"pending", "created", "username_conflict",
                                    "identity_conflict", "error", "crashed"}]
  <2>1. PICK n \in Names :
           /\ name' = [name EXCEPT ![c] = n]
           /\ IF rows[n] = None
              THEN Go(c, "create_user") /\ UNCHANGED answer
              ELSE Go(c, "done") /\ answer' = [answer EXCEPT ![c] = "username_conflict"]
    BY DEF CheckName
  <2> QED
    BY <1>1, <2>1 DEF TypeOK, Go, Steps, Calls
<1>3. /\ UNCHANGED <<rows, identities, locks, subject, warned, todo, failures, listed, report,
                     late, faults>>
  BY DEF CheckName, sweeping
<1>4. TypeOK'
  BY <1>1, <1>2, <1>3 DEF TypeOK
<1>5. ~Provisioning(c)' /\ Known(c)'
  BY <1>1, <1>2, <1>3, NoneIsNothing, ProcessesDisjoint
  DEF Known, WorkInv, OrphanInv, Existing, Provisioning, Calls
<1> QED
  BY <1>2, <1>3, <1>4, <1>5, LocalStep

\* A creation or a sweep that failed to link, whatever the reason.
LEMMA NotLinkedStep ==
    ASSUME ProvisioningInv, NEW p \in Processes, pc[p] \in {"insert", "link"}, NEW a \in Told,
           Compensate(p, a), uncertain' = uncertain, faults' \in 0..MaxFaults,
           UNCHANGED <<rows, identities, name, subject, warned, todo, listed, report, late>>
    PROVE  ProvisioningInv'
<1>1. TypeOK /\ name[p] \in Names
  BY DEF ProvisioningInv, WorkInv
<1>2. TypeOK'
  BY <1>1, CompensateParts DEF TypeOK
<1>3. Known(p)'
  BY CompensateKnown
<1>4. ~Provisioning(p)'
  BY <1>1, CompensateParts DEF Provisioning
<1>5. \A q \in Processes \ {p} :
         pc'[q] = pc[q] /\ (q \in Sweeps => failures'[q] = failures[q])
  BY <1>1, CompensateParts
<1> QED
  BY <1>2, <1>3, <1>4, <1>5, LocalStep

LEMMA InsertUserStep ==
    ASSUME ProvisioningInv, NEW c \in Processes, InsertUser(c), uncertain' = uncertain
    PROVE  ProvisioningInv'
<1>1. /\ TypeOK /\ WorkInv(c) /\ c \in Creations /\ pc[c] = "insert"
      /\ name[c] \in Names /\ subject[c] \in Subjects
      /\ UNCHANGED <<identities, name, subject, warned, todo, listed, report, late, faults>>
  BY DEF InsertUser, ProvisioningInv, WorkInv, Provisioning, Existing
<1>2. CASE rows[name[c]] = None
  <2>1. /\ rows' = [rows EXCEPT ![name[c]] = subject[c]]
        /\ answer' = [answer EXCEPT ![c] = "created"]
        /\ pc' = [pc EXCEPT ![c] = "done"] /\ UNCHANGED <<locks, failures>>
    BY <1>2 DEF InsertUser, Go
  <2>2. /\ pc' \in [Processes -> Steps] /\ pc'[c] = "done"
        /\ \A q \in Processes \ {c} : pc'[q] = pc[q]
    BY <1>1, <2>1 DEF TypeOK, Steps
  <2>3. TypeOK'
    BY <1>1, <2>1, <2>2 DEF TypeOK
  <2>4. subject[c] \in Linked'
    BY <1>1, <2>1 DEF Linked, TypeOK
  <2>5. ~Provisioning(c)' /\ Known(c)'
    BY <1>1, <2>2, <2>4, ProcessesDisjoint
    DEF Known, WorkInv, OrphanInv, Provisioning, Calls
  <2>6. rows[name[c]] \notin Subjects
    BY <1>2, NoneIsNothing
  <2> QED
    BY <1>1, <2>1, <2>2, <2>3, <2>5, <2>6, LinkStep
<1>3. CASE rows[name[c]] # None
  <2>1. Compensate(c, "username_conflict") /\ UNCHANGED rows /\ "username_conflict" \in Told
    BY <1>3 DEF InsertUser, Told
  <2> QED
    BY <1>1, <2>1, NotLinkedStep DEF TypeOK
<1> QED
  BY <1>2, <1>3

-------------------------------------------------------------------------------
(* The other steps of a sweep. *)

LEMMA LinkUserStep ==
    ASSUME ProvisioningInv, NEW s \in Processes, LinkUser(s), uncertain' = uncertain
    PROVE  ProvisioningInv'
<1>1. /\ TypeOK /\ WorkInv(s) /\ s \in Sweeps /\ pc[s] = "link" /\ TodoInv(s)
      /\ name[s] \in Names /\ subject[s] \in Subjects
      /\ UNCHANGED <<identities, name, subject, warned, todo, listed, report, late, faults>>
  BY DEF LinkUser, ProvisioningInv, WorkInv, Provisioning, Existing
<1>2. CASE rows[name[s]] = "unlinked"
  <2>1. /\ rows' = [rows EXCEPT ![name[s]] = subject[s]] /\ locks' = Unlocked(s)
        /\ pc' = [pc EXCEPT ![s] = "next_user"] /\ UNCHANGED <<answer, failures>>
    BY <1>2 DEF LinkUser, Go
  <2>2. /\ pc' \in [Processes -> Steps] /\ pc'[s] = "next_user"
        /\ \A q \in Processes \ {s} : pc'[q] = pc[q]
    BY <1>1, <2>1 DEF TypeOK, Steps
  <2>3. TypeOK'
    BY <1>1, <2>1, <2>2, UnlockedType DEF TypeOK
  <2>4. subject[s] \in Linked'
    BY <1>1, <2>1 DEF Linked, TypeOK
  <2>5. TodoInv(s)'
    <3>1. \A n \in Names : rows[n] # None => rows'[n] # None
      BY <1>1, <2>1, NoneIsNothing DEF TypeOK
    <3> QED
      BY <1>1, <2>2, <3>1 DEF TodoInv, TypeOK
  <2>6. ~Provisioning(s)' /\ Known(s)'
    BY <1>1, <2>2, <2>4, <2>5
    DEF Known, WorkInv, OrphanInv, Provisioning, Calls
  <2>7. rows[name[s]] \notin Subjects
    BY <1>2, SubjectsType
  <2> QED
    BY <1>1, <2>1, <2>2, <2>3, <2>6, <2>7, LinkStep
<1>3. CASE rows[name[s]] # "unlinked"
  <2>1. Compensate(s, "error") /\ UNCHANGED rows /\ "error" \in Told
    BY <1>3 DEF LinkUser, Told
  <2> QED
    BY <1>1, <2>1, NotLinkedStep DEF TypeOK
<1> QED
  BY <1>2, <1>3

\* A sweep starts: an orphan it has left behind belongs to a user it lists.
LEMMA ListUsersStep ==
    ASSUME ProvisioningInv, NEW s \in Processes, ListUsers(s), uncertain' = uncertain
    PROVE  ProvisioningInv'
<1>1. /\ TypeOK /\ s \in Sweeps /\ s \notin Creations /\ TodoInv(s)
      /\ todo' = [todo EXCEPT ![s] = {n \in Names : rows[n] # None}]
      /\ failures' = [failures EXCEPT ![s] = {}] /\ pc' = [pc EXCEPT ![s] = "next_user"]
      /\ UNCHANGED <<rows, identities, locks, name, subject, answer, warned, listed, report,
                     late, faults>>
  BY ProcessesDisjoint DEF ListUsers, Go, ProvisioningInv
<1>2. /\ pc' \in [Processes -> Steps] /\ pc'[s] = "next_user"
      /\ todo'[s] = {n \in Names : rows[n] # None} /\ todo' \in [Sweeps -> SUBSET Names]
      /\ failures' \in [Sweeps -> SUBSET Names]
      /\ \A q \in Processes \ {s} :
            pc'[q] = pc[q] /\ (q \in Sweeps => todo'[q] = todo[q] /\ failures'[q] = failures[q])
  BY <1>1 DEF TypeOK, Steps
<1>3. TypeOK'
  BY <1>1, <1>2 DEF TypeOK
<1>4. TodoInv(s)'
  BY <1>1, <1>2 DEF TodoInv
<1>5. subject[s] # None => todo'[s] # {}
  BY <1>1, <1>2 DEF TodoInv
<1>6. OrphanInv(s)'
  BY <1>1, <1>2, <1>5, NoneIsNothing DEF OrphanInv, Existing
<1>7. ~Provisioning(s)' /\ Known(s)'
  BY <1>1, <1>2, <1>4, <1>6 DEF Known, WorkInv, Provisioning, Calls
<1> QED
  BY <1>1, <1>2, <1>3, <1>7, LocalStep

LEMMA LockUserStep ==
    ASSUME ProvisioningInv, NEW s \in Processes, LockUser(s), uncertain' = uncertain
    PROVE  ProvisioningInv'
<1>1. PICK n \in todo[s] :
         /\ locks' = [locks EXCEPT ![n] = s] /\ name' = [name EXCEPT ![s] = n]
         /\ todo' = [todo EXCEPT ![s] = @ \ {n}]
         /\ pc' = [pc EXCEPT ![s] = IF rows[n] = "unlinked" THEN "create_user" ELSE "push"]
  BY DEF LockUser, Go
<1>2. /\ TypeOK /\ s \in Sweeps /\ s \notin Creations /\ TodoInv(s)
      /\ subject' = [subject EXCEPT ![s] = None]
      /\ UNCHANGED <<rows, identities, answer, warned, failures, listed, report, late, faults>>
  BY ProcessesDisjoint DEF LockUser, ProvisioningInv
<1>3. n \in Names /\ rows[n] # None
  BY <1>2 DEF TypeOK, TodoInv
<1>4. /\ pc' \in [Processes -> Steps]
      /\ pc'[s] = IF rows[n] = "unlinked" THEN "create_user" ELSE "push"
      /\ name' \in [Processes -> Names \cup {None}] /\ name'[s] = n
      /\ subject' \in [Processes -> Subjects \cup {None}] /\ subject'[s] = None
      /\ todo' \in [Sweeps -> SUBSET Names] /\ todo'[s] = todo[s] \ {n}
      /\ \A q \in Processes \ {s} :
            /\ pc'[q] = pc[q] /\ name'[q] = name[q] /\ subject'[q] = subject[q]
            /\ q \in Sweeps => todo'[q] = todo[q]
  BY <1>1, <1>2, <1>3 DEF TypeOK, Steps, Calls
<1>5. TypeOK'
  <2>1. locks' \in [Names -> Sweeps \cup {None}]
    BY <1>1, <1>2, <1>3 DEF TypeOK
  <2> QED
    BY <1>2, <1>4, <2>1 DEF TypeOK
<1>6. pc'[s] = "push" => rows[n] \in Subjects
  BY <1>2, <1>3, <1>4 DEF TypeOK
<1>7. TodoInv(s)'
  BY <1>2, <1>3, <1>4 DEF TodoInv
<1>8. WorkInv(s)' /\ ~Provisioning(s)'
  BY <1>2, <1>3, <1>4, <1>6 DEF WorkInv, Provisioning
<1>9. OrphanInv(s)'
  BY <1>2, <1>4, NoneIsNothing DEF OrphanInv, Existing
<1> QED
  BY <1>2, <1>4, <1>5, <1>7, <1>8, <1>9, LocalStep DEF Known

LEMMA LockFailsStep ==
    ASSUME ProvisioningInv, NEW s \in Processes, LockFails(s), uncertain' = uncertain
    PROVE  ProvisioningInv'
<1>1. PICK n \in todo[s] :
         /\ name' = [name EXCEPT ![s] = n]
         /\ todo' = [todo EXCEPT ![s] = @ \ {n}]
         /\ failures' = [failures EXCEPT ![s] = @ \cup {n}]
  BY DEF LockFails
<1>2. /\ TypeOK /\ s \in Sweeps /\ s \notin Creations /\ TodoInv(s) /\ pc[s] = "next_user"
      /\ subject' = [subject EXCEPT ![s] = None]
      /\ faults' \in 0..MaxFaults
      /\ UNCHANGED <<rows, identities, locks, pc, answer, warned, listed, report, late>>
  BY ProcessesDisjoint, FaultCounted DEF LockFails, ProvisioningInv
<1>3. n \in Names
  BY <1>2 DEF TypeOK
<1>4. /\ name' \in [Processes -> Names \cup {None}]
      /\ subject' \in [Processes -> Subjects \cup {None}] /\ subject'[s] = None
      /\ todo' \in [Sweeps -> SUBSET Names] /\ todo'[s] = todo[s] \ {n}
      /\ failures' \in [Sweeps -> SUBSET Names]
      /\ \A q \in Processes \ {s} :
            /\ name'[q] = name[q] /\ subject'[q] = subject[q]
            /\ q \in Sweeps => todo'[q] = todo[q] /\ failures'[q] = failures[q]
  BY <1>1, <1>2, <1>3 DEF TypeOK
<1>5. TypeOK'
  BY <1>2, <1>4 DEF TypeOK
<1>6. TodoInv(s)'
  BY <1>2, <1>4 DEF TodoInv
<1>7. WorkInv(s)' /\ ~Provisioning(s)'
  BY <1>2, <1>4 DEF WorkInv, Provisioning, Calls
<1>8. OrphanInv(s)'
  BY <1>2, <1>4, NoneIsNothing DEF OrphanInv, Existing
<1> QED
  BY <1>2, <1>4, <1>5, <1>6, <1>7, <1>8, LocalStep DEF Known

\* The steps in which a sweep reads, reports or starts again.
LEMMA ReadingStep ==
    ASSUME ProvisioningInv, NEW s \in Processes,
           \/ UsersDone(s) \/ ListIdentities(s) \/ ListLinks(s)
           \/ ListingFails(s) \/ SweepAgain(s),
           uncertain' = uncertain
    PROVE  ProvisioningInv'
<1>1. /\ TypeOK /\ s \in Sweeps /\ s \notin Creations /\ WorkInv(s) /\ OrphanInv(s) /\ TodoInv(s)
      /\ UNCHANGED <<rows, identities, locks, name, subject, answer, warned, todo, failures, late>>
  BY ProcessesDisjoint
  DEF UsersDone, ListIdentities, ListLinks, ListingFails, SweepAgain, sweeping, ProvisioningInv
<1>2. /\ pc[s] \in {"start", "next_user", "list_identities", "list_links", "done"}
      /\ pc[s] = "next_user" => todo[s] = {}
      /\ \E step \in {"start", "list_identities", "list_links", "done"} :
            pc' = [pc EXCEPT ![s] = step]
  BY DEF UsersDone, ListIdentities, ListLinks, ListingFails, SweepAgain, Go
<1>3. /\ pc' \in [Processes -> Steps]
      /\ pc'[s] \in {"start", "list_identities", "list_links", "done"}
      /\ \A q \in Processes \ {s} : pc'[q] = pc[q]
  BY <1>1, <1>2 DEF TypeOK, Steps
<1>4. TypeOK'
  <2>1. listed' \in [Sweeps -> SUBSET Subjects]
    BY <1>1 DEF TypeOK, UsersDone, ListIdentities, ListLinks, ListingFails, SweepAgain,
       sweeping, Existing
  <2>2. report' \in [Sweeps -> Report]
    <3>1. CASE ListLinks(s)
      <4>1. [failures |-> failures[s], orphans |-> Orphans(s)] \in Report
        BY <1>1 DEF TypeOK, Report, Orphans
      <4>2. report' = [report EXCEPT ![s] = [failures |-> failures[s], orphans |-> Orphans(s)]]
        BY <3>1 DEF ListLinks
      <4> QED
        BY <1>1, <4>1, <4>2 DEF TypeOK
    <3>2. CASE ~ListLinks(s)
      BY <1>1, <3>2 DEF TypeOK, UsersDone, ListIdentities, ListingFails, SweepAgain, sweeping
    <3> QED
      BY <3>1, <3>2
  <2>3. faults' \in 0..MaxFaults
    BY <1>1, FaultCounted
    DEF TypeOK, UsersDone, ListIdentities, ListLinks, ListingFails, SweepAgain
  <2> QED
    BY <1>1, <1>3, <2>1, <2>2, <2>3 DEF TypeOK
<1>5. OrphanInv(s)'
  BY <1>1, <1>2 DEF OrphanInv, Existing, Linked
<1>6. WorkInv(s)' /\ ~Provisioning(s)'
  BY <1>1, <1>3 DEF WorkInv, Provisioning, Calls
<1>7. TodoInv(s)'
  BY <1>1, <1>3 DEF TodoInv
<1> QED
  BY <1>1, <1>3, <1>4, <1>5, <1>6, <1>7, LocalStep DEF Known

-------------------------------------------------------------------------------
(* Failures of the local write and of the process. *)

LEMMA WriteFailsStep ==
    ASSUME ProvisioningInv, NEW p \in Processes, WriteFails(p), uncertain' = uncertain
    PROVE  ProvisioningInv'
<1>1. "error" \in Told /\ faults' \in 0..MaxFaults
  BY FaultCounted DEF Told, WriteFails, ProvisioningInv
<1> QED
  BY <1>1, NotLinkedStep DEF WriteFails

\* The link is there, and the process that does not know will remove the identity.
LEMMA CommitLostStep ==
    ASSUME ProvisioningInv, NEW p \in Processes, CommitLost(p)
    PROVE  ProvisioningInv'
<1>1. /\ TypeOK /\ WorkInv(p) /\ (p \in Sweeps => TodoInv(p)) /\ pc[p] \in {"insert", "link"}
      /\ name[p] \in Names /\ subject[p] \in Subjects /\ subject[p] \notin Linked
      /\ rows[name[p]] \in {None, "unlinked"}
      /\ rows' = [rows EXCEPT ![name[p]] = subject[p]]
      /\ uncertain' = uncertain \cup {name[p]}
      /\ Compensate(p, "error") /\ "error" \in Told /\ faults' \in 0..MaxFaults
      /\ UNCHANGED <<identities, name, subject, warned, todo, listed, report, late>>
  BY FaultCounted DEF CommitLost, Told, ProvisioningInv, WorkInv, Provisioning, Existing
<1>2. subject[p] # None /\ rows[name[p]] \notin Subjects
  BY <1>1, NoneIsNothing, SubjectsType
<1>3. /\ pc'[p] = "delete_user"
      /\ \A q \in Processes \ {p} :
            pc'[q] = pc[q] /\ (q \in Sweeps => failures'[q] = failures[q])
  BY <1>1, <1>2, CompensateParts
<1>4. \A n \in Names : rows'[n] = IF n = name[p] THEN subject[p] ELSE rows[n]
  BY <1>1 DEF TypeOK
<1>5. TypeOK'
  <2>1. rows' \in [Names -> Subjects \cup {None, "unlinked"}] /\ uncertain' \subseteq Names
    BY <1>1 DEF TypeOK
  <2> QED
    BY <1>1, <2>1, CompensateParts DEF TypeOK
<1>6. Unacknowledged(subject[p])'
  BY <1>1, <1>4 DEF Unacknowledged, Linked
<1>7. subject[p] \in Linked'
  BY <1>1, <1>4 DEF Linked
<1>8. p \in Sweeps => TodoInv(p)'
  BY <1>1, <1>2, <1>3, <1>4 DEF TodoInv, TypeOK
<1>9. ~Provisioning(p)' /\ Known(p)'
  BY <1>1, <1>3, <1>6, <1>7, <1>8
  DEF Known, WorkInv, OrphanInv, Provisioning, Unacknowledged, Calls
<1> QED
  BY <1>1, <1>2, <1>3, <1>5, <1>9, LinkStep

\* What the process had created is nobody's any more.
LEMMA CrashStep ==
    ASSUME ProvisioningInv, NEW p \in Processes, Crash(p), uncertain' = uncertain
    PROVE  ProvisioningInv'
<1>1. /\ TypeOK /\ (p \in Sweeps => TodoInv(p)) /\ locks' = Unlocked(p)
      /\ answer' = IF p \in Creations /\ answer[p] = "pending"
                   THEN [answer EXCEPT ![p] = "crashed"] ELSE answer
      /\ subject' = [subject EXCEPT ![p] = None] /\ pc' = [pc EXCEPT ![p] = "done"]
      /\ faults' \in 0..MaxFaults
      /\ UNCHANGED <<rows, identities, name, warned, todo, failures, listed, report, late>>
  BY FaultCounted DEF Crash, Go, sweeping, ProvisioningInv
<1>2. /\ pc' \in [Processes -> Steps] /\ pc'[p] = "done"
      /\ subject' \in [Processes -> Subjects \cup {None}] /\ subject'[p] = None
      /\ \A q \in Processes \ {p} : pc'[q] = pc[q] /\ subject'[q] = subject[q]
  BY <1>1 DEF TypeOK, Steps
<1>3. TypeOK'
  BY <1>1, <1>2, UnlockedType DEF TypeOK
<1>4. p \in Sweeps => TodoInv(p)'
  BY <1>1, <1>2 DEF TodoInv
<1>5. ~Provisioning(p)' /\ Known(p)'
  BY <1>1, <1>2, <1>4, NoneIsNothing
  DEF Known, WorkInv, OrphanInv, Existing, Provisioning, Calls
<1> QED
  BY <1>1, <1>2, <1>3, <1>5, LocalStep

-------------------------------------------------------------------------------
(* What creations and sweeps promise. *)

LEMMA ProvisioningInit == Init => ProvisioningInv
<1> SUFFICES ASSUME Init PROVE ProvisioningInv
  OBVIOUS
<1>1. TypeOK
  <2>1. identities \in [Subjects -> [name : Names, role : BOOLEAN] \cup {None}]
    <3>1. PICK foreign \in Names \cup {None} :
             identities = [sub \in Subjects |->
                 IF foreign # None /\ sub = CHOOSE x \in Subjects : TRUE
                 THEN [name |-> foreign, role |-> FALSE] ELSE None]
      BY DEF Init
    <3>2. foreign # None => [name |-> foreign, role |-> FALSE] \in [name : Names, role : BOOLEAN]
      OBVIOUS
    <3> QED
      BY <3>1, <3>2
  <2>2. pc \in [Processes -> Steps] /\ faults \in 0..MaxFaults
    <3>1. PICK crew \in Crews :
             /\ pc = [p \in Processes |-> IF p \in crew.members THEN "start" ELSE "absent"]
             /\ faults = MaxFaults - crew.faults
      BY DEF Init
    <3>2. crew.faults \in 0..MaxFaults
      BY CrewsType
    <3> QED
      BY <3>1, <3>2, MaxFaultsType DEF Steps
  <2> QED
    BY <2>1, <2>2 DEF Init, TypeOK, Report
<1>2. \A n \in Names : rows[n] \notin Subjects
  BY NoneIsNothing, SubjectsType DEF Init
<1>3. \A p \in Processes : pc[p] \in {"start", "absent"} /\ subject[p] = None
  BY DEF Init
<1>4. \A p \in Processes : WorkInv(p) /\ OrphanInv(p)
  BY <1>3, NoneIsNothing DEF WorkInv, OrphanInv, Existing, Provisioning, Calls
<1>5. \A s \in Sweeps : TodoInv(s)
  BY <1>3 DEF TodoInv, Init, Processes
<1> QED
  BY <1>1, <1>2, <1>3, <1>4, <1>5 DEF ProvisioningInv, AcknowledgedHealthy, LateInv, Init

LEMMA ProvisioningNext ==
    ProvisioningInv /\ SubjectsSuffice /\ [Next]_allVars => ProvisioningInv'
<1> SUFFICES ASSUME ProvisioningInv, SubjectsSuffice, [Next]_allVars
             PROVE  ProvisioningInv'
  OBVIOUS
<1>1. ASSUME NEW p \in Processes, uncertain' = uncertain,
             CheckName(p) \/ ListUsers(p) \/ LockUser(p) \/ SweepAgain(p)
      PROVE  ProvisioningInv'
  BY <1>1, CheckNameStep, ListUsersStep, LockUserStep, ReadingStep
<1>2. ASSUME NEW p \in Processes, uncertain' = uncertain, Proceed(p)
      PROVE  ProvisioningInv'
  BY <1>2, CallSucceedsStep, CallRejectedStep, InsertUserStep, LinkUserStep, ReadingStep
  DEF Proceed
<1>3. ASSUME NEW p \in Processes, uncertain' = uncertain, Fail(p)
      PROVE  ProvisioningInv'
  BY <1>3, CallFailsStep, CallTimesOutStep, WriteFailsStep, LockFailsStep, ReadingStep,
     CrashStep DEF Fail
<1>4. CASE UNCHANGED allVars
  BY <1>4
  DEF allVars, vars, ProvisioningInv, TypeOK, AcknowledgedHealthy, Healthy, Existing, Linked,
      WorkInv, OrphanInv, TodoInv, LateInv, MessageInv, Unacknowledged, Provisioning
<1> QED
  BY <1>1, <1>2, <1>3, <1>4, DeliverLateStep, CommitLostStep DEF Next

\* What each process counts on holds at every step: its identity is its own, a
\* late call is about nobody else's, and an orphan has somebody to report it.
THEOREM ProvisioningInvariant == Spec /\ []SubjectsSuffice => []ProvisioningInv
BY ProvisioningInit, ProvisioningNext, PTL DEF Spec

\* The variables keep their types.
THEOREM ProvisioningTypeCorrect == Spec /\ []SubjectsSuffice => []TypeOK
<1>1. ProvisioningInv => TypeOK
  BY DEF ProvisioningInv
<1> QED
  BY <1>1, ProvisioningInvariant, PTL

\* A linked user has its identity, under its name and with its role, whatever
\* fails, crashes or arrives late, unless a commit was not acknowledged.
THEOREM AcknowledgedAlwaysHealthy == Spec /\ []SubjectsSuffice => []AcknowledgedHealthy
<1>1. ProvisioningInv => AcknowledgedHealthy
  BY DEF ProvisioningInv
<1> QED
  BY <1>1, ProvisioningInvariant, PTL

\* An identity that a creation or a sweep knows it left behind is reported.
THEOREM OrphansNeverSilent == Spec /\ []SubjectsSuffice => []NoSilentOrphan
<1>1. ProvisioningInv => NoSilentOrphan
  BY DEF ProvisioningInv, NoSilentOrphan, OrphanInv, Quiet, Idle
<1> QED
  BY <1>1, ProvisioningInvariant, PTL

-------------------------------------------------------------------------------
(* Accounts: a user comes to exist in both stores at once. *)

Answering == \A c \in Creations : AnswerInv(c)

LEMMA CallAnswers ==
    ASSUME TypeOK, NEW p \in Processes, Answering, name' = name,
           CallSucceeds(p) \/ CallRejected(p) \/ CallFails(p) \/ CallTimesOut(p)
    PROVE  Answering'
<1> SUFFICES ASSUME NEW c \in Creations PROVE AnswerInv(c)'
  BY DEF Answering
<1>1. AnswerInv(c) /\ c \in Processes
  BY DEF Answering, Processes
<1>2. pc[p] \in {"create_user", "set_role", "push", "delete_user"}
  BY DEF CallSucceeds, CallRejected, CallFails, CallTimesOut, Calls
<1>3. CASE CallSucceeds(p)
  <2>1. pc' = [pc EXCEPT ![p] = AfterSuccess(p)] /\ answer' = answer
    BY <1>3 DEF CallSucceeds, Go
  <2>2. p = c => AfterSuccess(p) \in {"set_role", "insert", "done"}
                 /\ (AfterSuccess(p) = "done" <=> pc[p] = "delete_user")
    BY <1>1, <1>2 DEF AfterSuccess, AnswerInv
  <2> QED
    BY <1>1, <1>2, <2>1, <2>2 DEF TypeOK, AnswerInv
<1>4. CASE CallRejected(p) \/ CallFails(p) \/ CallTimesOut(p)
  <2>1. \E a : CallFailed(p, a)
    BY <1>4 DEF CallRejected, CallFails, CallTimesOut
  <2>2. \/ pc'[c] = pc[c] /\ answer'[c] = answer[c]
        \/ p = c /\ pc'[c] \in {"delete_user", "done"}
    BY <1>1, <2>1 DEF TypeOK, CallFailed, DeletionFailed, Compensate, Go
  <2> QED
    BY <1>1, <2>2 DEF AnswerInv
<1> QED
  BY <1>3, <1>4

LEMMA WriteAnswers ==
    ASSUME TypeOK, NEW p \in Processes, Answering, name' = name,
           InsertUser(p) \/ LinkUser(p) \/ WriteFails(p) \/ CommitLost(p)
    PROVE  Answering'
<1> SUFFICES ASSUME NEW c \in Creations PROVE AnswerInv(c)'
  BY DEF Answering
<1>1. AnswerInv(c) /\ c \in Processes
  BY DEF Answering, Processes
<1>2. \/ pc'[c] = pc[c] /\ answer'[c] = answer[c]
      \/ p = c /\ pc'[c] \in {"delete_user", "done"}
  BY <1>1, ProcessesDisjoint
  DEF TypeOK, InsertUser, LinkUser, WriteFails, CommitLost, Compensate, Go
<1> QED
  BY <1>1, <1>2 DEF AnswerInv

LEMMA AnswersStep ==
    TypeOK /\ Answering /\ [Next]_allVars => Answering'
<1> SUFFICES ASSUME TypeOK, Answering, [Next]_allVars PROVE Answering'
  OBVIOUS
<1>1. CASE UNCHANGED allVars
  BY <1>1 DEF allVars, vars, Answering, AnswerInv
<1>2. ASSUME NEW p \in Processes,
             \/ CallSucceeds(p) \/ CallRejected(p) \/ CallFails(p) \/ CallTimesOut(p)
             \/ InsertUser(p) \/ LinkUser(p) \/ WriteFails(p) \/ CommitLost(p)
      PROVE  Answering'
  <2>1. name' = name
    BY <1>2 DEF CallSucceeds, CallRejected, CallFails, CallTimesOut, InsertUser, LinkUser,
       WriteFails, CommitLost
  <2> QED
    BY <1>2, <2>1, CallAnswers, WriteAnswers
<1>3. ASSUME NEW p \in Processes, CheckName(p) PROVE Answering'
  <2> SUFFICES ASSUME NEW c \in Creations PROVE AnswerInv(c)'
    BY DEF Answering
  <2>1. AnswerInv(c) /\ c \in Processes
    BY DEF Answering, Processes
  <2>2. CASE c # p
    BY <1>3, <2>1, <2>2 DEF TypeOK, CheckName, Go, AnswerInv
  <2>3. CASE c = p
    BY <1>3, <2>1, <2>3 DEF TypeOK, CheckName, Go, AnswerInv
  <2> QED
    BY <2>2, <2>3
<1>4. ASSUME NEW p \in Processes, p \in Sweeps,
             \/ ListUsers(p) \/ LockUser(p) \/ LockFails(p) \/ UsersDone(p) \/ ListIdentities(p)
             \/ ListLinks(p) \/ ListingFails(p) \/ SweepAgain(p)
      PROVE  Answering'
  <2>1. \A c \in Creations : c \in Processes /\ c # p
    BY <1>4, ProcessesDisjoint DEF Processes
  <2>2. \A c \in Creations : pc'[c] = pc[c] /\ name'[c] = name[c] /\ answer'[c] = answer[c]
    BY <1>4, <2>1
    DEF TypeOK, ListUsers, LockUser, LockFails, UsersDone, ListIdentities, ListLinks, ListingFails,
        SweepAgain, Go, sweeping
  <2> QED
    BY <2>2 DEF Answering, AnswerInv
<1>5. ASSUME NEW p \in Processes, Crash(p) PROVE Answering'
  <2> SUFFICES ASSUME NEW c \in Creations PROVE AnswerInv(c)'
    BY DEF Answering
  <2>1. AnswerInv(c) /\ c \in Processes
    BY DEF Answering, Processes
  <2> QED
    BY <1>5, <2>1 DEF TypeOK, Crash, Go, AnswerInv
<1>6. CASE DeliverLate
  BY <1>6 DEF DeliverLate, Answering, AnswerInv
<1>7. \A p : \/ ListUsers(p) \/ LockUser(p) \/ LockFails(p) \/ UsersDone(p) \/ ListIdentities(p)
           \/ ListLinks(p) \/ ListingFails(p) \/ SweepAgain(p)
               => p \in Sweeps
  BY DEF ListUsers, LockUser, LockFails, UsersDone, ListIdentities, ListLinks, ListingFails,
     SweepAgain
<1> QED
  BY <1>1, <1>2, <1>3, <1>4, <1>5, <1>6, <1>7 DEF Next, Proceed, Fail

Whole == {n \in Names : rows[n] \in Subjects /\ Healthy(n)}

\* What the abstract specification sees of a step.
StoresKept == rows' = rows /\ Whole' = Whole /\ uncertain' = uncertain
AnswersKept == (\A c \in Creations : name'[c] = name[c]) /\ answer' = answer

LEMMA StutterImplements ==
    ASSUME StoresKept, AnswersKept
    PROVE  UNCHANGED Register!vars
<1>1. [n \in Names |-> IF rows[n] \in Subjects THEN "linked" ELSE rows[n]]'
         = [n \in Names |-> IF rows[n] \in Subjects THEN "linked" ELSE rows[n]]
  BY DEF StoresKept
<1>2. [c \in Creations |-> name[c]]' = [c \in Creations |-> name[c]]
  BY DEF AnswersKept
<1> QED
  BY <1>1, <1>2 DEF Register!vars, StoresKept, AnswersKept, Whole

\* A creation that is refused, whatever the reason.
LEMMA RefusalImplements ==
    ASSUME ProvisioningInv, NEW c \in Creations, answer[c] = "pending", name[c] \in Names,
           StoresKept, name' = name, NEW a, answer' = [answer EXCEPT ![c] = a],
           \/ a \in {"identity_conflict", "error", "crashed"}
           \/ a = "username_conflict" /\ rows[name[c]] # None
    PROVE  Register!Refuse(c)
<1>1. rows[name[c]] # None
        => [n \in Names |-> IF rows[n] \in Subjects THEN "linked" ELSE rows[n]][name[c]] # None
  BY NoneIsNothing
<1> QED
  BY <1>1 DEF Register!Refuse, Register!Open, Register!Tell, StoresKept, Whole

\* A commit that links: all of the user's identity is there at that instant.
LEMMA LinkImplements ==
    ASSUME ProvisioningInv, NEW p \in Processes, pc[p] \in {"insert", "link"},
           rows[name[p]] \in {None, "unlinked"},
           rows' = [rows EXCEPT ![name[p]] = subject[p]], identities' = identities
    PROVE  Register!Link(name[p]) /\ name[p] \in Names
<1>1. /\ name[p] \in Names /\ subject[p] \in Subjects /\ subject[p] \in Existing
      /\ identities[subject[p]] = [name |-> name[p], role |-> TRUE]
  BY ReadyIdentity DEF Existing
<1>2. \A n \in Names : rows'[n] = IF n = name[p] THEN subject[p] ELSE rows[n]
  BY <1>1 DEF ProvisioningInv, TypeOK
<1>3. [n \in Names |-> IF rows[n] \in Subjects THEN "linked" ELSE rows[n]]'
         = [[n \in Names |-> IF rows[n] \in Subjects THEN "linked" ELSE rows[n]]
               EXCEPT ![name[p]] = "linked"]
  BY <1>1, <1>2
<1>4. Whole' = Whole \cup {name[p]}
  <2>1. ASSUME NEW n \in Names PROVE n \in Whole' <=> n \in Whole \/ n = name[p]
    <3>1. CASE n = name[p]
      BY <1>1, <1>2, <3>1 DEF Whole, Healthy, Existing
    <3>2. CASE n # name[p]
      BY <1>2, <3>2 DEF Whole, Healthy, Existing
    <3> QED
      BY <3>1, <3>2
  <2> QED
    BY <1>1, <2>1 DEF Whole
<1> QED
  BY <1>1, <1>3, <1>4 DEF Register!Link, Whole

\* A call changes what one unacknowledged user has, or nobody's.
LEMMA EffectWhole ==
    ASSUME ProvisioningInv, NEW m \in Message, MessageInv(m), Acceptable(m),
           identities' = Effect(m), rows' = rows
    PROVE  \/ Whole' = Whole
           \/ \E n \in Names :
                 /\ rows[n] = m.subject /\ n \in uncertain
                 /\ Whole' \in {Whole \ {n}, Whole \cup {n}}
<1>1. \A n \in Names : rows[n] \in Subjects /\ rows[n] # m.subject
         => (n \in Whole' <=> n \in Whole)
  BY EffectParts DEF ProvisioningInv, Whole, Healthy, Existing
<1>2. \A n \in Names : rows[n] \notin Subjects => n \notin Whole /\ n \notin Whole'
  BY DEF Whole
<1>3. m.subject \in Subjects /\ m.name \in Names /\ Whole \subseteq Names /\ Whole' \subseteq Names
  BY DEF Message, Whole
<1>4. CASE \A n \in Names : rows[n] # m.subject
  BY <1>1, <1>2, <1>3, <1>4
<1>5. CASE \E n \in Names : rows[n] = m.subject
  <2>1. PICK n \in Names : rows[n] = m.subject
    BY <1>5
  <2>2. \A k \in Names \ {n} : rows[k] # m.subject
    BY <1>3, <2>1 DEF ProvisioningInv
  <2>3. Whole' \in {Whole \ {n}, Whole \cup {n}}
    BY <1>1, <1>2, <1>3, <2>1, <2>2
  <2>4. CASE n \in uncertain
    BY <2>1, <2>3, <2>4
  <2>5. CASE n \notin uncertain
    <3>1. n \in Whole
      BY <1>3, <2>1, <2>5 DEF ProvisioningInv, AcknowledgedHealthy, Whole
    <3>2. m.call = "push" /\ m.name = n
      BY <1>3, <2>1, <2>2, <2>5 DEF MessageInv, Unacknowledged
    <3>3. identities'[rows[n]] = [name |-> n, role |-> TRUE]
      BY <2>1, <3>2, EffectParts DEF ProvisioningInv
    <3>4. identities'[rows[n]] # None
      <4>1. [name |-> n, role |-> TRUE] \in [name : Names, role : BOOLEAN]
        OBVIOUS
      <4> QED
        BY <3>3, <4>1, NoneIsNoIdentity
    <3>5. n \in Whole'
      BY <1>3, <2>1, <3>3, <3>4 DEF Whole, Healthy, Existing
    <3> QED
      BY <1>3, <2>3, <3>1, <3>5
  <2> QED
    BY <2>4, <2>5
<1> QED
  BY <1>4, <1>5

\* So a call that changes nothing else is a disturbance at most.
LEMMA EffectImplements ==
    ASSUME ProvisioningInv, NEW m \in Message, MessageInv(m), Acceptable(m),
           identities' = Effect(m), rows' = rows, uncertain' = uncertain, AnswersKept
    PROVE  [Register!Next]_(Register!vars)
<1>1. CASE Whole' = Whole
  BY <1>1, StutterImplements DEF StoresKept
<1>2. ASSUME NEW n \in Names, rows[n] = m.subject, n \in uncertain,
             Whole' \in {Whole \ {n}, Whole \cup {n}}
      PROVE  Register!Disturb(n)
  <2>1. [k \in Names |-> IF rows[k] \in Subjects THEN "linked" ELSE rows[k]][n] = "linked"
    BY <1>2 DEF Message
  <2>2. [c \in Creations |-> name[c]]' = [c \in Creations |-> name[c]]
    BY DEF AnswersKept
  <2> QED
    BY <1>2, <2>1, <2>2 DEF Register!Disturb, Whole, AnswersKept
<1> QED
  BY <1>1, <1>2, EffectWhole DEF Register!Next

\* A call that failed: a creation is refused if it was about to be answered, and
\* the identity its call was about is nobody's.
LEMMA FailedCallImplements ==
    ASSUME ProvisioningInv, SubjectsSuffice, Answering, NEW p \in Processes, pc[p] \in Calls,
           NEW a \in {"identity_conflict", "error"}, CallFailed(p, a),
           UNCHANGED <<rows, name, uncertain>>,
           \/ identities' = identities
           \/ Acceptable(Call(p)) /\ identities' = Effect(Call(p))
    PROVE  [Register!Next]_(Register!vars)
<1>1. Call(p) \in Message /\ MessageInv(Call(p)) /\ name[p] \in Names
  BY CallMessage DEF ProvisioningInv, WorkInv
<1>2. CASE p \in Creations /\ pc[p] # "delete_user"
  <2>1. pc[p] \in {"create_user", "set_role"} /\ answer[p] = "pending"
    BY <1>2 DEF Answering, AnswerInv, Calls
  <2>2. answer' = [answer EXCEPT ![p] = a]
    BY <1>2 DEF CallFailed, Compensate
  <2>3. \A n \in Names : rows[n] # Call(p).subject
    <3>1. CASE pc[p] = "create_user"
      BY <3>1, FreshSubject DEF Call
    <3>2. CASE pc[p] = "set_role"
      BY <3>2 DEF Call, ProvisioningInv, WorkInv, Provisioning, Existing, Linked
    <3> QED
      BY <2>1, <3>1, <3>2
  <2>4. Whole' = Whole
    <3>1. CASE identities' = identities
      BY <3>1 DEF Whole, Healthy, Existing
    <3>2. CASE Acceptable(Call(p)) /\ identities' = Effect(Call(p))
      BY <1>1, <2>3, <3>2, EffectWhole
    <3> QED
      BY <3>1, <3>2
  <2> QED
    BY <1>1, <1>2, <2>1, <2>2, <2>4, RefusalImplements DEF StoresKept, Register!Next
<1>3. CASE p \notin Creations \/ pc[p] = "delete_user"
  <2>1. AnswersKept
    BY <1>3 DEF CallFailed, DeletionFailed, Compensate, AnswersKept
  <2>2. CASE identities' = identities
    <3>1. StoresKept
      BY <2>2 DEF StoresKept, Whole, Healthy, Existing
    <3> QED
      BY <2>1, <3>1, StutterImplements
  <2>3. CASE Acceptable(Call(p)) /\ identities' = Effect(Call(p))
    BY <1>1, <2>1, <2>3, EffectImplements
  <2> QED
    BY <2>2, <2>3
<1> QED
  BY <1>2, <1>3

LEMMA CallImplements ==
    ASSUME ProvisioningInv, SubjectsSuffice, Answering, NEW p \in Processes,
           CallSucceeds(p) \/ CallRejected(p) \/ CallFails(p) \/ CallTimesOut(p),
           uncertain' = uncertain
    PROVE  [Register!Next]_(Register!vars)
<1>1. pc[p] \in Calls /\ UNCHANGED <<rows, name>>
  BY DEF CallSucceeds, CallRejected, CallFails, CallTimesOut
<1>2. CASE CallSucceeds(p)
  <2>1. Call(p) \in Message /\ MessageInv(Call(p))
    BY <1>1, CallMessage
  <2>2. Acceptable(Call(p)) /\ identities' = Effect(Call(p)) /\ AnswersKept
    BY <1>2 DEF CallSucceeds, AnswersKept
  <2> QED
    BY <1>1, <2>1, <2>2, EffectImplements
<1>3. CASE CallRejected(p) \/ CallFails(p) \/ CallTimesOut(p)
  <2>1. PICK a \in {"identity_conflict", "error"} : CallFailed(p, a)
    BY <1>3 DEF CallRejected, CallFails, CallTimesOut
  <2>2. \/ identities' = identities
        \/ Acceptable(Call(p)) /\ identities' = Effect(Call(p))
    BY <1>3 DEF CallRejected, CallFails, CallTimesOut
  <2> QED
    BY <1>1, <2>1, <2>2, FailedCallImplements
<1> QED
  BY <1>2, <1>3

\* The write or the commit that ends the provisioning of a user.
LEMMA NotLinkedImplements ==
    ASSUME ProvisioningInv, Answering, NEW p \in Processes, pc[p] \in {"insert", "link"},
           NEW a, Compensate(p, a), UNCHANGED <<rows, identities, name, uncertain>>,
           a = "error" \/ (a = "username_conflict" /\ rows[name[p]] # None)
    PROVE  [Register!Next]_(Register!vars)
<1>1. StoresKept /\ name[p] \in Names
  BY DEF StoresKept, Whole, Healthy, Existing, ProvisioningInv, WorkInv
<1>2. CASE p \in Creations
  <2>1. answer[p] = "pending" /\ answer' = [answer EXCEPT ![p] = a]
    BY <1>2 DEF Answering, AnswerInv, Compensate
  <2> QED
    BY <1>1, <1>2, <2>1, RefusalImplements DEF Register!Next
<1>3. CASE p \notin Creations
  BY <1>1, <1>3, StutterImplements DEF Compensate, AnswersKept
<1> QED
  BY <1>2, <1>3

LEMMA WriteImplements ==
    ASSUME ProvisioningInv, Answering, NEW p \in Processes,
           InsertUser(p) \/ LinkUser(p) \/ WriteFails(p), uncertain' = uncertain
    PROVE  [Register!Next]_(Register!vars)
<1> DEFINE accounts == [n \in Names |-> IF rows[n] \in Subjects THEN "linked" ELSE rows[n]]
<1>1. /\ pc[p] \in {"insert", "link"} /\ name[p] \in Names
      /\ UNCHANGED <<identities, name>>
  BY DEF InsertUser, LinkUser, WriteFails, ProvisioningInv, WorkInv
<1>2. CASE InsertUser(p) /\ rows[name[p]] = None
  <2>1. /\ p \in Creations /\ answer[p] = "pending"
        /\ answer' = [answer EXCEPT ![p] = "created"]
        /\ rows' = [rows EXCEPT ![name[p]] = subject[p]]
    BY <1>2 DEF InsertUser, Answering, AnswerInv
  <2>2. Register!Link(name[p])
    BY <1>1, <1>2, <2>1, LinkImplements
  <2>3. accounts[name[p]] = None
    BY <1>1, <1>2, NoneIsNothing
  <2>4. Register!Create(p)
    BY <1>1, <2>1, <2>2, <2>3
    DEF Register!Create, Register!Open, Register!Tell, Register!Link
  <2> QED
    BY <2>1, <2>4 DEF Register!Next
<1>3. CASE LinkUser(p) /\ rows[name[p]] = "unlinked"
  <2>1. rows' = [rows EXCEPT ![name[p]] = subject[p]] /\ answer' = answer
    BY <1>3 DEF LinkUser
  <2>2. Register!Link(name[p])
    BY <1>1, <1>3, <2>1, LinkImplements
  <2>3. accounts[name[p]] = "unlinked"
    BY <1>1, <1>3, SubjectsType
  <2>4. PICK n \in Names : n = name[p]
    BY <1>1
  <2>5. Register!Provision(n)
    BY <1>1, <2>1, <2>2, <2>3, <2>4 DEF Register!Provision, Register!Link
  <2> QED
    BY <2>5 DEF Register!Next
<1>4. CASE InsertUser(p) /\ rows[name[p]] # None
  <2>1. Compensate(p, "username_conflict") /\ UNCHANGED rows
    BY <1>4 DEF InsertUser
  <2> QED
    BY <1>1, <1>4, <2>1, NotLinkedImplements
<1>5. CASE LinkUser(p) /\ rows[name[p]] # "unlinked"
  <2>1. Compensate(p, "error") /\ UNCHANGED rows
    BY <1>5 DEF LinkUser
  <2> QED
    BY <1>1, <2>1, NotLinkedImplements
<1>6. CASE WriteFails(p)
  BY <1>1, <1>6, NotLinkedImplements DEF WriteFails
<1> QED
  BY <1>2, <1>3, <1>4, <1>5, <1>6

LEMMA CommitLostImplements ==
    ASSUME ProvisioningInv, Answering, NEW p \in Processes, CommitLost(p)
    PROVE  Register!Next
<1> DEFINE accounts == [n \in Names |-> IF rows[n] \in Subjects THEN "linked" ELSE rows[n]]
<1>1. /\ pc[p] \in {"insert", "link"} /\ name[p] \in Names
      /\ rows[name[p]] = IF p \in Creations THEN None ELSE "unlinked"
      /\ rows' = [rows EXCEPT ![name[p]] = subject[p]]
      /\ uncertain' = uncertain \cup {name[p]} /\ Compensate(p, "error")
      /\ UNCHANGED <<identities, name>>
  BY DEF CommitLost, ProvisioningInv, WorkInv
<1>2. Register!Link(name[p])
  BY <1>1, LinkImplements
<1>3. CASE p \in Creations
  <2>1. answer[p] = "pending" /\ answer' = [answer EXCEPT ![p] = "error"]
    BY <1>1, <1>3 DEF Answering, AnswerInv, Compensate
  <2>2. accounts[name[p]] = None
    BY <1>1, <1>3, NoneIsNothing
  <2>3. Register!Create(p)
    BY <1>1, <1>2, <1>3, <2>1, <2>2
    DEF Register!Create, Register!Open, Register!Tell, Register!Link
  <2> QED
    BY <1>3, <2>3 DEF Register!Next
<1>4. CASE p \notin Creations
  <2>1. answer' = answer
    BY <1>1, <1>4 DEF Compensate
  <2>2. accounts[name[p]] = "unlinked"
    BY <1>1, <1>4, SubjectsType
  <2>3. PICK n \in Names : n = name[p]
    BY <1>1
  <2>4. Register!Provision(n)
    BY <1>1, <1>2, <2>1, <2>2, <2>3 DEF Register!Provision, Register!Link
  <2> QED
    BY <2>4 DEF Register!Next
<1> QED
  BY <1>3, <1>4

LEMMA CheckImplements ==
    ASSUME ProvisioningInv, Answering, NEW c \in Processes, CheckName(c), uncertain' = uncertain
    PROVE  Register!Next
<1> DEFINE accounts == [n \in Names |-> IF rows[n] \in Subjects THEN "linked" ELSE rows[n]]
<1>1. /\ c \in Creations /\ name[c] = None /\ name \in [Processes -> Names \cup {None}]
      /\ UNCHANGED <<rows, identities>>
  BY DEF CheckName, Answering, AnswerInv, ProvisioningInv, TypeOK
<1>2. PICK n \in Names :
         /\ name' = [name EXCEPT ![c] = n]
         /\ answer' = answer \/ (rows[n] # None /\ answer' = [answer EXCEPT ![c] = "username_conflict"])
  BY DEF CheckName
<1>3. [d \in Creations |-> name[d]]' = [[d \in Creations |-> name[d]] EXCEPT ![c] = n]
  BY <1>1, <1>2 DEF Processes
<1>4. rows[n] # None => accounts[n] # None
  BY NoneIsNothing
<1>5. StoresKept
  BY <1>1 DEF StoresKept, Whole, Healthy, Existing
<1>6. Register!Ask(c, n)
  BY <1>1, <1>2, <1>3, <1>4, <1>5 DEF Register!Ask, Register!Tell, StoresKept, Whole
<1> QED
  BY <1>1, <1>6 DEF Register!Next

LEMMA CrashImplements ==
    ASSUME ProvisioningInv, Answering, NEW p \in Processes, Crash(p), uncertain' = uncertain
    PROVE  [Register!Next]_(Register!vars)
<1>1. /\ UNCHANGED <<rows, identities, name>>
      /\ answer' = IF p \in Creations /\ answer[p] = "pending"
                   THEN [answer EXCEPT ![p] = "crashed"] ELSE answer
  BY DEF Crash
<1>2. StoresKept
  BY <1>1 DEF StoresKept, Whole, Healthy, Existing
<1>3. CASE p \in Creations /\ answer[p] = "pending"
  <2>1. name[p] \in Names
    BY <1>3 DEF Answering, AnswerInv, Crash, Idle, ProvisioningInv, WorkInv, Calls
  <2> QED
    BY <1>1, <1>2, <1>3, <2>1, RefusalImplements DEF Register!Next
<1>4. CASE ~(p \in Creations /\ answer[p] = "pending")
  BY <1>1, <1>2, <1>4, StutterImplements DEF AnswersKept
<1> QED
  BY <1>3, <1>4

LEMMA SweepImplements ==
    ASSUME ProvisioningInv, NEW s \in Processes, uncertain' = uncertain,
           \/ ListUsers(s) \/ LockUser(s) \/ LockFails(s) \/ UsersDone(s) \/ ListIdentities(s)
           \/ ListLinks(s) \/ ListingFails(s) \/ SweepAgain(s)
    PROVE  UNCHANGED Register!vars
<1>1. s \in Sweeps /\ UNCHANGED <<rows, identities, answer>>
  BY DEF ListUsers, LockUser, LockFails, UsersDone, ListIdentities, ListLinks, ListingFails,
     SweepAgain
<1>2. \A c \in Creations : c \in Processes /\ c # s
  BY <1>1, ProcessesDisjoint DEF Processes
<1>3. \A c \in Creations : name'[c] = name[c]
  BY <1>2 DEF ListUsers, LockUser, LockFails, UsersDone, ListIdentities, ListLinks, ListingFails,
     SweepAgain, ProvisioningInv, TypeOK
<1>4. StoresKept /\ AnswersKept
  BY <1>1, <1>3 DEF StoresKept, AnswersKept, Whole, Healthy, Existing
<1> QED
  BY <1>4, StutterImplements

LEMMA DeliverImplements ==
    ASSUME ProvisioningInv, DeliverLate, uncertain' = uncertain
    PROVE  [Register!Next]_(Register!vars)
<1>1. PICK m \in late :
         /\ identities' = IF Acceptable(m) THEN Effect(m) ELSE identities
         /\ UNCHANGED <<rows, name, answer>>
  BY DEF DeliverLate
<1>2. m \in Message /\ MessageInv(m) /\ AnswersKept
  BY <1>1 DEF ProvisioningInv, TypeOK, LateInv, Message, AnswersKept
<1>3. CASE Acceptable(m)
  BY <1>1, <1>2, <1>3, EffectImplements
<1>4. CASE ~Acceptable(m)
  <2>1. StoresKept
    BY <1>1, <1>4 DEF StoresKept, Whole, Healthy, Existing
  <2> QED
    BY <1>2, <2>1, StutterImplements
<1> QED
  BY <1>3, <1>4

LEMMA AccountsInit == Init => Register!Init /\ Answering
<1> SUFFICES ASSUME Init PROVE Register!Init /\ Answering
  OBVIOUS
<1>1. \A n \in Names : rows[n] \in {None, "unlinked"} /\ rows[n] \notin Subjects
  BY NoneIsNothing, SubjectsType DEF Init
<1>2. Whole = {}
  BY <1>1 DEF Whole
<1>3. [n \in Names |-> IF rows[n] \in Subjects THEN "linked" ELSE rows[n]]
         \in [Names -> {None, "unlinked"}]
  BY <1>1
<1>4. [c \in Creations |-> name[c]] = [c \in Creations |-> None]
  BY DEF Init, Processes
<1>5. Register!Init
  BY <1>2, <1>3, <1>4 DEF Register!Init, Whole, Init
<1>6. Answering
  BY DEF Init, Answering, AnswerInv, Processes
<1> QED
  BY <1>5, <1>6

LEMMA AccountsNext ==
    ProvisioningInv /\ SubjectsSuffice /\ Answering /\ [Next]_allVars
        => [Register!Next]_(Register!vars)
<1> SUFFICES ASSUME ProvisioningInv, SubjectsSuffice, Answering, [Next]_allVars
             PROVE  [Register!Next]_(Register!vars)
  OBVIOUS
<1>1. CASE UNCHANGED allVars
  <2>1. StoresKept /\ AnswersKept
    BY <1>1 DEF allVars, vars, StoresKept, AnswersKept, Whole, Healthy, Existing
  <2> QED
    BY <2>1, StutterImplements
<1>2. ASSUME NEW p \in Processes, uncertain' = uncertain,
             CheckName(p) \/ ListUsers(p) \/ LockUser(p) \/ SweepAgain(p)
      PROVE  [Register!Next]_(Register!vars)
  BY <1>2, CheckImplements, SweepImplements
<1>3. ASSUME NEW p \in Processes, uncertain' = uncertain, Proceed(p)
      PROVE  [Register!Next]_(Register!vars)
  BY <1>3, CallImplements, WriteImplements, SweepImplements DEF Proceed
<1>4. ASSUME NEW p \in Processes, uncertain' = uncertain, Fail(p)
      PROVE  [Register!Next]_(Register!vars)
  BY <1>4, CallImplements, WriteImplements, SweepImplements, CrashImplements DEF Fail
<1> QED
  BY <1>1, <1>2, <1>3, <1>4, DeliverImplements, CommitLostImplements DEF Next

\* In any instance a user comes to exist in both stores at one instant or in
\* neither, and a creation that was refused stays without effect.
THEOREM AccountsImplemented == Spec /\ []SubjectsSuffice => ImplementsAccounts
<1>1. ProvisioningInv => TypeOK
  BY DEF ProvisioningInv
<1> QED
  BY <1>1, AccountsInit, AnswersStep, AccountsNext, ProvisioningInvariant, PTL
  DEF Spec, ImplementsAccounts, Register!Spec
====
