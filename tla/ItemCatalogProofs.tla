-------------------------- MODULE ItemCatalogProofs --------------------------
(* Proofs about ItemCatalog, for any rows, requests and inputs. *)
EXTENDS ItemCatalog, TLAPS

-------------------------------------------------------------------------------
(* What a step leaves alone. *)

Rows == Items \cup Categories

Unmoved(s) == pc'[s] = pc[s] /\ req'[s] = req[s]

\* A request that does not move, while no row changes, holds what it held.
LEMMA HoldsTheSame ==
    ASSUME NEW s \in Requests, Unmoved(s), rows' = rows
    PROVE  /\ Holding(s)' <=> Holding(s)
           /\ KeysHeld(s)' = KeysHeld(s)
           /\ KeyShared(s)' = KeyShared(s)
           /\ Exclusive(s)' = Exclusive(s)
<1>1. Holding(s)' <=> Holding(s)
  BY DEF Unmoved, Holding
<1>2. KeysHeld(s)' = KeysHeld(s)
  BY <1>1 DEF Unmoved, KeysHeld, LabelKey, SerialKey, Blank
<1>3. KeyShared(s)' = KeyShared(s)
  BY DEF Unmoved, KeyShared, NeedsReference
<1>4. Exclusive(s)' = Exclusive(s)
  BY <1>1 DEF Unmoved, Exclusive, ChangesKey
<1> QED BY <1>1, <1>2, <1>3, <1>4

\* Nor does it know less.
LEMMA KnowsTheSame ==
    ASSUME NEW s \in Requests, Unmoved(s), answer'[s] = answer[s], rows' = rows, lent' = lent,
           InputInv(s), KnowledgeInv(s)
    PROVE  InputInv(s)' /\ KnowledgeInv(s)'
<1>1. InputInv(s)'
  BY DEF Unmoved, InputInv, Input, Blank, Contents
<1>2. Holding(s)' <=> Holding(s)
  BY HoldsTheSame
<1>3. /\ Taken(s, "label")' <=> Taken(s, "label")
      /\ Taken(s, "serial")' <=> Taken(s, "serial")
  BY DEF Unmoved, Taken, Present, TableOf
<1>4. NeedsReference(s)' <=> NeedsReference(s)
  BY DEF Unmoved, NeedsReference
<1>5. KnowledgeInv(s)'
  BY <1>2, <1>3, <1>4 DEF Unmoved, KnowledgeInv, Present, Referring
<1> QED BY <1>1, <1>5

-------------------------------------------------------------------------------
(* Steps that change no row. *)

\* A request that ends, or is refused as it arrives, disturbs nobody.
LEMMA FinishKeepsInv ==
    ASSUME CatalogInv, NEW r \in Requests, NEW a \in Answers \ {"pending"},
           pc[r] # "done", Finish(r, a),
           \/ req' = req /\ pc[r] # "new"
           \/ \E in \in Input : req' = [req EXCEPT ![r] = in],
           rows' = rows, lent' = lent, faults' \in 0..MaxFaults
    PROVE  CatalogInv'
<1>1. TypeOK'
  BY DEF CatalogInv, TypeOK, Finish, Steps, Present
<1>2. CatalogConsistent'
  BY DEF CatalogInv, CatalogConsistent, Consistent, Present
<1>3. \A s \in Requests : s # r => Unmoved(s) /\ answer'[s] = answer[s]
  BY DEF CatalogInv, TypeOK, Finish, Unmoved
<1>4. pc'[r] = "done" /\ answer'[r] = a /\ req'[r] \in Input /\ req'[r] # None
  BY NoneIsNoInput DEF CatalogInv, TypeOK, Finish, InputInv
<1>5. ~Holding(r)' /\ KeysHeld(r)' = {} /\ KeyShared(r)' = {} /\ Exclusive(r)' = {}
  BY <1>4 DEF Holding, KeysHeld, KeyShared, Exclusive
<1>6. ExclusionInv'
  BY <1>3, <1>5, HoldsTheSame DEF CatalogInv, ExclusionInv, Unmoved
<1>7. InputInv(r)' /\ KnowledgeInv(r)'
  BY <1>4, <1>5 DEF InputInv, KnowledgeInv
<1>8. \A s \in Requests : s # r => InputInv(s)' /\ KnowledgeInv(s)'
  BY <1>3, KnowsTheSame DEF CatalogInv
<1> QED BY <1>1, <1>2, <1>6, <1>7, <1>8 DEF CatalogInv

\* A request accepted as it arrives holds nothing yet.
LEMMA AcceptKeepsInv ==
    ASSUME CatalogInv, NEW r \in Requests, NEW op \in {"create", "update", "delete"},
           NEW x \in IF r \in ItemRequests THEN Items ELSE Categories,
           NEW content \in IF op = "delete" THEN {Blank}
                           ELSE IF r \in ItemRequests THEN ItemInputs ELSE CategoryInputs,
           NEW first \in {"get", "category", "exists", "row"},
           content.label # Malformed,
           op = "create" => x = r,
           first = "get" => op = "update",
           first \in {"category", "exists"} => op # "delete",
           first = "category" => r \in ItemRequests,
           first = "row" => op # "create",
           first \in {"exists", "row"} => content.category # Malformed,
           pc[r] = "new",
           req' = [req EXCEPT ![r] = [op |-> op, row |-> x, new |-> content]],
           pc' = [pc EXCEPT ![r] = first],
           UNCHANGED <<rows, lent, answer, faults>>
    PROVE  CatalogInv'
<1> DEFINE in == [op |-> op, row |-> x, new |-> content]
<1>1. in \in Input
  BY DEF Input, Contents
<1>2. TypeOK'
  <2>1. req' \in [Requests -> Input \cup {None}] /\ pc' \in [Requests -> Steps]
    BY <1>1 DEF CatalogInv, TypeOK, Steps
  <2> QED BY <2>1 DEF CatalogInv, TypeOK, Present
<1>3. CatalogConsistent'
  BY DEF CatalogInv, CatalogConsistent, Consistent, Present
<1>4. \A s \in Requests : s # r => Unmoved(s) /\ answer'[s] = answer[s]
  BY DEF CatalogInv, TypeOK, Unmoved
<1>5. pc'[r] = first /\ req'[r] = in
  BY DEF CatalogInv, TypeOK
<1>6. ~Holding(r)' /\ KeysHeld(r)' = {} /\ KeyShared(r)' = {} /\ Exclusive(r)' = {}
  BY <1>5 DEF Holding, KeysHeld, KeyShared, Exclusive
<1>7. ExclusionInv'
  BY <1>4, <1>6, HoldsTheSame DEF CatalogInv, ExclusionInv, Unmoved
<1>8. InputInv(r)'
  <2>1. in # None
    BY <1>1, NoneIsNoInput
  <2>2. answer'[r] = "pending"
    BY DEF CatalogInv, InputInv
  <2> QED BY <1>1, <1>5, <2>1, <2>2 DEF InputInv
<1>9. KnowledgeInv(r)'
  BY <1>5, <1>6 DEF CatalogInv, KnowledgeInv
<1>10. \A s \in Requests : s # r => InputInv(s)' /\ KnowledgeInv(s)'
  BY <1>4, KnowsTheSame DEF CatalogInv
<1> QED BY <1>2, <1>3, <1>7, <1>8, <1>9, <1>10 DEF CatalogInv

\* A request that goes on to its next step: what is left to show is about it.
LEMMA AdvanceKeepsInv ==
    ASSUME CatalogInv, NEW r \in Requests, NEW next \in Steps \ {"new", "done"},
           pc' = [pc EXCEPT ![r] = next],
           UNCHANGED <<rows, lent, req, answer, faults>>,
           InputInv(r)', KnowledgeInv(r)',
           \A s \in Requests \ {r} :
               /\ Holding(r)' /\ Holding(s) => req[r].row # req[s].row
               /\ KeysHeld(r)' \cap KeysHeld(s) = {}
               /\ KeyShared(r)' \cap Exclusive(s) = {}
               /\ KeyShared(s) \cap Exclusive(r)' = {}
    PROVE  CatalogInv'
<1>1. TypeOK'
  BY DEF CatalogInv, TypeOK, Present
<1>2. CatalogConsistent'
  BY DEF CatalogInv, CatalogConsistent, Consistent, Present
<1>3. \A s \in Requests : s # r => Unmoved(s) /\ answer'[s] = answer[s]
  BY DEF CatalogInv, TypeOK, Unmoved
<1>4. ExclusionInv'
  BY <1>3, HoldsTheSame DEF CatalogInv, ExclusionInv, Unmoved
<1>5. \A s \in Requests : s # r => InputInv(s)' /\ KnowledgeInv(s)'
  BY <1>3, KnowsTheSame DEF CatalogInv
<1> QED BY <1>1, <1>2, <1>4, <1>5 DEF CatalogInv

\* The index entries of a row nobody else holds are nobody else's.
LEMMA KeysOfFreeRow ==
    ASSUME CatalogInv, NEW x \in Rows, Present(x), NEW s \in Requests,
           ~(Holding(s) /\ req[s].row = x)
    PROVE  /\ LabelKey(x, rows[x]) \notin KeysHeld(s)
           /\ rows[x].serial # None => SerialKey(rows[x]) \notin KeysHeld(s)
<1>1. CASE ~Holding(s)
  BY <1>1 DEF KeysHeld, Holding
<1>2. CASE Holding(s)
  <2> DEFINE y == req[s].row
  <2>1. y \in Rows /\ x # y
    BY <1>2 DEF CatalogInv, InputInv, Holding, Rows
  <2>2. req[s].op # "create" => Present(y)
    BY <1>2 DEF CatalogInv, KnowledgeInv
  <2>3. TableOf(x) = TableOf(y) /\ Present(y) =>
          /\ rows[x].label # rows[y].label
          /\ rows[x].serial # None => rows[x].serial # rows[y].serial
    BY <2>1 DEF CatalogInv, CatalogConsistent, Consistent, Present, Rows
  <2>4. pc[s] \in {"serial", "reference", "commit"} /\ req[s].op # "delete"
          /\ TableOf(x) = TableOf(y) => rows[x].label # req[s].new.label
    <3>1. req[s].op # "delete" => req[s].new.label # None
      BY <1>2, ItemInputsType, CategoryInputsType DEF CatalogInv, InputInv, Holding
    <3>2. x \in TableOf(y) \/ TableOf(x) # TableOf(y)
      BY DEF TableOf, Rows
    <3> QED BY <2>1, <3>1, <3>2 DEF CatalogInv, KnowledgeInv, Taken
  <2>5. pc[s] \in {"reference", "commit"} /\ req[s].op # "delete"
          /\ TableOf(x) = TableOf(y) /\ rows[x].serial # None => rows[x].serial # req[s].new.serial
    <3>2. x \in TableOf(y) \/ TableOf(x) # TableOf(y)
      BY DEF TableOf, Rows
    <3> QED BY <2>1, <3>2 DEF CatalogInv, KnowledgeInv, Taken
  <2>6. x \notin Items => rows[x].serial = None
    BY CategoryInputsType DEF CatalogInv, TypeOK, Rows
  <2>7. y \notin Items =>
          /\ Present(y) => rows[y].serial = None
          /\ req[s].op # "delete" => req[s].new.serial = None
    <3>1. y \notin Items => s \notin ItemRequests
      BY <1>2 DEF CatalogInv, InputInv, Holding
    <3> QED BY <1>2, <2>1, <3>1, CategoryInputsType DEF CatalogInv, TypeOK, InputInv, Holding, Rows
  <2> QED BY <2>2, <2>3, <2>4, <2>5, <2>6, <2>7
          DEF KeysHeld, LabelKey, SerialKey, Blank, TableOf
<1> QED BY <1>1, <1>2

-------------------------------------------------------------------------------
(* The steps of a request, one by one. *)

\* A step that fails ends the request.
LEMMA StepOutcome ==
    ASSUME CatalogInv, NEW r \in Requests, NEW at, NEW outcome \in Answers \cup {"ok"},
           outcome # "pending", at \notin {"new", "done"}, Step(r, at, outcome)
    PROVE  /\ pc[r] = at
           /\ Blockers(r) = {}
           /\ UNCHANGED <<rows, lent, req, faults>>
           /\ outcome # "ok" => CatalogInv'
           /\ outcome = "ok" => pc' = [pc EXCEPT ![r] = After(r)] /\ UNCHANGED answer
<1>1. outcome # "ok" => Finish(r, outcome)
  BY DEF Step
<1>2. outcome # "ok" => CatalogInv'
  BY <1>1, FinishKeepsInv DEF Step, CatalogInv, TypeOK
<1> QED BY <1>2 DEF Step

\* The reads that come before the write hold nothing.
LEMMA ReadKeepsInv ==
    ASSUME CatalogInv, NEW r \in Requests,
           pc[r] \in {"get", "category", "exists"}, req[r].op = "create" => pc[r] # "exists",
           pc[r] = "category" => req[r].new.category # Malformed,
           pc' = [pc EXCEPT ![r] = After(r)], UNCHANGED <<rows, lent, req, answer, faults>>
    PROVE  CatalogInv'
<1>1. pc'[r] = After(r) /\ req'[r] = req[r] /\ answer'[r] = answer[r]
  BY DEF CatalogInv, TypeOK
<1>2. After(r) \in {"category", "exists", "row"}
  BY DEF After
<1>3. InputInv(r)
  BY DEF CatalogInv
<1>4. InputInv(r)'
  <2>1. r \notin ItemRequests /\ pc[r] = "get" => req[r].new.category # Malformed
    BY <1>3, CategoryInputsType, NoValue DEF InputInv
  <2> QED BY <1>1, <1>3, <2>1 DEF InputInv, After
<1>5. ~Holding(r)' /\ KeysHeld(r)' = {} /\ KeyShared(r)' = {} /\ Exclusive(r)' = {}
  BY <1>1, <1>2 DEF Holding, KeysHeld, KeyShared, Exclusive
<1>6. KnowledgeInv(r)'
  BY <1>1, <1>2, <1>5 DEF CatalogInv, KnowledgeInv
<1> QED BY <1>2, <1>4, <1>5, <1>6, AdvanceKeepsInv DEF Steps

\* A creation begins to write: its row is new to everyone.
LEMMA BeginCreateKeepsInv ==
    ASSUME CatalogInv, NEW r \in Requests,
           pc[r] = "exists", req[r].op = "create",
           pc' = [pc EXCEPT ![r] = After(r)], UNCHANGED <<rows, lent, req, answer, faults>>
    PROVE  CatalogInv'
<1>1. pc'[r] = "label" /\ req'[r] = req[r] /\ answer'[r] = answer[r] /\ After(r) = "label"
  BY DEF CatalogInv, TypeOK, After
<1>2. InputInv(r) /\ KnowledgeInv(r) /\ req[r].row = r
  BY DEF CatalogInv, InputInv
<1>3. InputInv(r)'
  BY <1>1, <1>2 DEF InputInv
<1>4. KnowledgeInv(r)'
  BY <1>1, <1>2 DEF KnowledgeInv
<1>5. KeysHeld(r)' = {} /\ KeyShared(r)' = {} /\ Exclusive(r)' = {}
  BY <1>1 DEF KeysHeld, KeyShared, Exclusive, ChangesKey
<1>6. \A s \in Requests \ {r} : Holding(s) => req[s].row # r
  <2> SUFFICES ASSUME NEW s \in Requests \ {r}, Holding(s), req[s].row = r
               PROVE  FALSE
    OBVIOUS
  <2>1. CASE req[s].op = "create"
    BY <2>1 DEF CatalogInv, InputInv, Holding
  <2>2. CASE req[s].op # "create"
    BY <2>2, <1>2 DEF CatalogInv, KnowledgeInv, Present
  <2> QED BY <2>1, <2>2
<1> QED BY <1>1, <1>2, <1>3, <1>4, <1>5, <1>6, AdvanceKeepsInv DEF Steps

\* The write takes its row.
LEMMA LockKeepsInv ==
    ASSUME CatalogInv, NEW r \in Requests,
           pc[r] = "row", Present(req[r].row), Blockers(r) = {},
           pc' = [pc EXCEPT ![r] = After(r)], UNCHANGED <<rows, lent, req, answer, faults>>
    PROVE  CatalogInv'
<1> DEFINE x == req[r].row
<1>1. pc'[r] = After(r) /\ req'[r] = req[r] /\ answer'[r] = answer[r]
  BY DEF CatalogInv, TypeOK
<1>2. After(r) = IF req[r].op = "delete" THEN "probe" ELSE "label"
  BY DEF After
<1>3. InputInv(r) /\ KnowledgeInv(r) /\ x \in Rows
  BY DEF CatalogInv, InputInv, Rows
<1>4. InputInv(r)'
  BY <1>1, <1>2, <1>3 DEF InputInv
<1>5. KnowledgeInv(r)'
  BY <1>1, <1>2, <1>3 DEF KnowledgeInv, Present
<1>6. KeysHeld(r)' \subseteq ({LabelKey(x, rows[x]), SerialKey(rows[x])} \ {SerialKey(Blank)})
  BY <1>1, <1>2 DEF KeysHeld, LabelKey, SerialKey, Blank
<1>7. KeyShared(r)' = {} /\ Exclusive(r)' \subseteq {x} /\ (Exclusive(r)' # {} => ChangesKey(r))
  BY <1>1, <1>2 DEF KeyShared, Exclusive, ChangesKey
<1>8. ASSUME NEW s \in Requests \ {r}
      PROVE  /\ ~(Holding(s) /\ req[s].row = x)
             /\ KeyShared(s) \cap Exclusive(r)' = {}
  BY <1>7 DEF Blockers
<1>9. ASSUME NEW s \in Requests \ {r}
      PROVE  KeysHeld(r)' \cap KeysHeld(s) = {}
  <2>1. LabelKey(x, rows[x]) \notin KeysHeld(s)
    BY <1>3, <1>8, KeysOfFreeRow
  <2>2. SerialKey(rows[x]) # SerialKey(Blank) => SerialKey(rows[x]) \notin KeysHeld(s)
    <3>1. rows[x].serial # None => SerialKey(rows[x]) \notin KeysHeld(s)
      BY <1>3, <1>8, KeysOfFreeRow
    <3> QED BY <3>1 DEF SerialKey, Blank
  <2> QED BY <1>6, <2>1, <2>2
<1> QED BY <1>2, <1>4, <1>5, <1>7, <1>8, <1>9, AdvanceKeepsInv DEF Steps

\* The write enters its label: the index had no such entry, and nobody is about
\* to commit one.
LEMMA LabelKeepsInv ==
    ASSUME CatalogInv, NEW r \in Requests,
           pc[r] = "label", ~Taken(r, "label"), Blockers(r) = {},
           pc' = [pc EXCEPT ![r] = After(r)], UNCHANGED <<rows, lent, req, answer, faults>>
    PROVE  CatalogInv'
<1> DEFINE x == req[r].row
<1>1. pc'[r] = After(r) /\ req'[r] = req[r] /\ answer'[r] = answer[r]
  BY DEF CatalogInv, TypeOK
<1>2. After(r) = IF r \in ItemRequests THEN "serial" ELSE "commit"
  BY DEF After
<1>3. InputInv(r) /\ KnowledgeInv(r) /\ req[r].op # "delete"
  BY DEF CatalogInv, InputInv
<1>4. r \notin ItemRequests => req[r].new.serial = None /\ req[r].new.category = None
  BY <1>3, CategoryInputsType DEF InputInv
<1>5. InputInv(r)'
  BY <1>1, <1>2, <1>3, <1>4, NoValue DEF InputInv
<1>6. /\ Taken(r, "label")' <=> Taken(r, "label")
      /\ r \notin ItemRequests => ~Taken(r, "serial")'
  BY <1>1, <1>4 DEF Taken, Present, TableOf
<1>7. r \notin ItemRequests => ~NeedsReference(r) /\ ~NeedsReference(r)'
  BY <1>1, <1>4 DEF NeedsReference
<1>8. KnowledgeInv(r)'
  BY <1>1, <1>2, <1>3, <1>6, <1>7 DEF KnowledgeInv, Present, Holding
<1>9. Holding(r) /\ Holding(r)' /\ KeyShared(r)' = {} /\ Exclusive(r)' = Exclusive(r)
  BY <1>1, <1>2, <1>7 DEF Holding, KeyShared, Exclusive, ChangesKey
<1>10. KeysHeld(r)' \subseteq KeysHeld(r) \cup {LabelKey(x, req[r].new)}
  BY <1>1, <1>2, <1>3, <1>4, <1>9 DEF KeysHeld, LabelKey, SerialKey, Blank
<1>11. ASSUME NEW s \in Requests \ {r}
       PROVE  LabelKey(x, req[r].new) \notin KeysHeld(s)
  BY DEF Blockers
<1>12. ASSUME NEW s \in Requests \ {r}
       PROVE  /\ KeysHeld(r)' \cap KeysHeld(s) = {} /\ KeyShared(s) \cap Exclusive(r)' = {}
              /\ Holding(s) => req[s].row # x
  BY <1>9, <1>10, <1>11 DEF CatalogInv, ExclusionInv
<1> QED BY <1>2, <1>5, <1>8, <1>9, <1>12, AdvanceKeepsInv DEF Steps

\* The write enters its serial number.
LEMMA SerialKeepsInv ==
    ASSUME CatalogInv, NEW r \in Requests,
           pc[r] = "serial", ~Taken(r, "serial"), Blockers(r) = {},
           pc' = [pc EXCEPT ![r] = After(r)], UNCHANGED <<rows, lent, req, answer, faults>>
    PROVE  CatalogInv'
<1> DEFINE x == req[r].row
<1>1. pc'[r] = "reference" /\ req'[r] = req[r] /\ answer'[r] = answer[r] /\ After(r) = "reference"
  BY DEF CatalogInv, TypeOK, After
<1>2. InputInv(r) /\ KnowledgeInv(r) /\ req[r].op # "delete"
  BY DEF CatalogInv, InputInv
<1>3. InputInv(r)'
  BY <1>1, <1>2 DEF InputInv
<1>4. /\ Taken(r, "label")' <=> Taken(r, "label")
      /\ Taken(r, "serial")' <=> Taken(r, "serial")
  BY <1>1 DEF Taken, Present, TableOf
<1>5. KnowledgeInv(r)'
  BY <1>1, <1>2, <1>4 DEF KnowledgeInv, Present, Holding
<1>6. Holding(r) /\ Holding(r)' /\ KeyShared(r)' = {} /\ Exclusive(r)' = Exclusive(r)
  BY <1>1 DEF Holding, KeyShared, Exclusive, ChangesKey
<1>7. KeysHeld(r)' \subseteq KeysHeld(r) \cup {SerialKey(req[r].new)}
  BY <1>1, <1>2, <1>6 DEF KeysHeld, LabelKey, SerialKey, Blank
<1>8. ASSUME NEW s \in Requests \ {r}
      PROVE  SerialKey(req[r].new) \notin KeysHeld(s)
  BY DEF Blockers
<1> QED BY <1>1, <1>3, <1>5, <1>6, <1>7, <1>8, AdvanceKeepsInv DEF Steps, CatalogInv, ExclusionInv

\* The write finds the category it refers to, and keeps it.
LEMMA ReferenceKeepsInv ==
    ASSUME CatalogInv, NEW r \in Requests,
           pc[r] = "reference", NeedsReference(r) => Present(req[r].new.category),
           Blockers(r) = {},
           pc' = [pc EXCEPT ![r] = After(r)], UNCHANGED <<rows, lent, req, answer, faults>>
    PROVE  CatalogInv'
<1>1. pc'[r] = "commit" /\ req'[r] = req[r] /\ answer'[r] = answer[r] /\ After(r) = "commit"
  BY DEF CatalogInv, TypeOK, After
<1>2. InputInv(r) /\ KnowledgeInv(r) /\ req[r].op # "delete"
  BY DEF CatalogInv, InputInv
<1>3. InputInv(r)'
  BY <1>1, <1>2 DEF InputInv
<1>4. /\ Taken(r, "label")' <=> Taken(r, "label")
      /\ Taken(r, "serial")' <=> Taken(r, "serial")
      /\ NeedsReference(r)' <=> NeedsReference(r)
  BY <1>1 DEF Taken, Present, TableOf, NeedsReference
<1>5. KnowledgeInv(r)'
  BY <1>1, <1>2, <1>4 DEF KnowledgeInv, Present, Holding
<1>6. Holding(r) /\ Holding(r)' /\ Exclusive(r)' = Exclusive(r)
  BY <1>1 DEF Holding, Exclusive, ChangesKey
<1>7. KeysHeld(r)' = KeysHeld(r)
  BY <1>1, <1>2, <1>6 DEF KeysHeld, LabelKey, SerialKey, Blank
<1>8. KeyShared(r)' = IF NeedsReference(r) THEN {req[r].new.category} ELSE {}
  BY <1>1, <1>2, <1>4 DEF KeyShared
<1>9. ASSUME NEW s \in Requests \ {r}
      PROVE  KeyShared(r)' \cap Exclusive(s) = {}
  BY <1>8 DEF Blockers
<1> QED BY <1>1, <1>3, <1>5, <1>6, <1>7, <1>9, AdvanceKeepsInv DEF Steps, CatalogInv, ExclusionInv

\* A deletion finds that nothing refers to its row.
LEMMA ProbeKeepsInv ==
    ASSUME CatalogInv, NEW r \in Requests,
           pc[r] = "probe",
           IF r \in ItemRequests THEN req[r].row \notin lent ELSE Referring(req[r].row) = {},
           pc' = [pc EXCEPT ![r] = After(r)], UNCHANGED <<rows, lent, req, answer, faults>>
    PROVE  CatalogInv'
<1>1. pc'[r] = "commit" /\ req'[r] = req[r] /\ answer'[r] = answer[r] /\ After(r) = "commit"
  BY DEF CatalogInv, TypeOK, After
<1>2. InputInv(r) /\ KnowledgeInv(r) /\ req[r].op = "delete"
  BY DEF CatalogInv, InputInv
<1>3. InputInv(r)'
  BY <1>1, <1>2, NoValue DEF InputInv, Blank
<1>4. KnowledgeInv(r)'
  BY <1>1, <1>2 DEF KnowledgeInv, Present, Holding, Referring
<1>5. Holding(r) /\ Holding(r)' /\ Exclusive(r)' = Exclusive(r) /\ KeyShared(r)' = {}
  BY <1>1, <1>2 DEF Holding, Exclusive, ChangesKey, KeyShared
<1>6. KeysHeld(r)' = KeysHeld(r)
  BY <1>1, <1>2, <1>5 DEF KeysHeld, LabelKey, SerialKey, Blank
<1> QED BY <1>1, <1>3, <1>4, <1>5, <1>6, AdvanceKeepsInv DEF Steps, CatalogInv, ExclusionInv

-------------------------------------------------------------------------------
(* The moment a write takes effect. *)

\* Nothing speaks against a write that is about to take effect.
LEMMA CommitPermitted ==
    ASSUME CatalogInv, NEW r \in Requests, pc[r] = "commit"
    PROVE  /\ req[r].op = "delete" =>
                IF r \in ItemRequests THEN req[r].row \notin lent ELSE Referring(req[r].row) = {}
           /\ req[r].op # "delete" =>
                /\ ~Taken(r, "label") /\ ~Taken(r, "serial")
                /\ req[r].new.category # Malformed
                /\ req[r].new.category # None => Present(req[r].new.category)
<1>1. InputInv(r) /\ KnowledgeInv(r)
  BY DEF CatalogInv
<1>2. ASSUME req[r].op # "delete", req[r].new.category # None, ~NeedsReference(r)
      PROVE  Present(req[r].new.category)
  <2>1. req[r].op = "update" /\ rows[req[r].row].category = req[r].new.category
    BY <1>2 DEF NeedsReference
  <2>2. r \in ItemRequests
    BY <1>1, <1>2, CategoryInputsType DEF InputInv
  <2>3. req[r].row \in Items /\ Present(req[r].row)
    BY <1>1, <2>1, <2>2 DEF InputInv, KnowledgeInv, Holding
  <2> QED BY <1>2, <2>1, <2>3 DEF CatalogInv, CatalogConsistent, Consistent, Present
<1> QED BY <1>1, <1>2 DEF InputInv, KnowledgeInv

\* The contents after the write are as consistent as before.
LEMMA TakeEffectConsistent ==
    ASSUME CatalogInv, NEW r \in Requests, pc[r] = "commit", TakeEffect(r), lent' = lent
    PROVE  /\ CatalogConsistent'
           /\ rows' \in [Rows -> Stored \cup {None}]
           /\ \A c \in Categories : Present(c)' => rows'[c] \in CategoryInputs
<1> DEFINE x == req[r].row
           new == IF req[r].op = "delete" THEN None ELSE req[r].new
<1>1. InputInv(r) /\ KnowledgeInv(r)
  BY DEF CatalogInv
<1>2. /\ x \in IF r \in ItemRequests THEN Items ELSE Categories
      /\ x \in Rows
      /\ req[r].op # "delete" =>
            req[r].new \in IF r \in ItemRequests THEN ItemInputs ELSE CategoryInputs
      /\ req[r].op # "delete" => req[r].new.label \notin {None, Malformed}
  BY <1>1, ItemInputsType, CategoryInputsType DEF InputInv, Rows
<1>3. rows \in [Rows -> Stored \cup {None}]
  BY DEF CatalogInv, TypeOK, Rows
<1>4. rows'[x] = new /\ \A y \in Rows : y # x => rows'[y] = rows[y]
  BY <1>2, <1>3 DEF TakeEffect
<1>5. new \in Stored \cup {None}
  BY <1>1, <1>2, CommitPermitted DEF Stored, Contents
<1>6. rows' \in [Rows -> Stored \cup {None}]
  BY <1>3, <1>5 DEF TakeEffect
<1>7. ASSUME NEW y \in Rows, new # None, rows[y] # None, TableOf(y) = TableOf(x), y # x
      PROVE  /\ rows[y].label # new.label
             /\ new.serial # None => rows[y].serial # new.serial
  <2>1. y \in TableOf(x)
    BY <1>7 DEF TableOf, Rows
  <2> QED BY <1>2, <1>7, <2>1, CommitPermitted DEF Taken, Present
<1>8. ASSUME NEW y \in Rows, NEW z \in Rows, y # z, TableOf(y) = TableOf(z),
             rows'[y] # None, rows'[z] # None
      PROVE  /\ rows'[y].label # rows'[z].label
             /\ rows'[y].serial # None => rows'[y].serial # rows'[z].serial
  <2>1. CASE y # x /\ z # x
    BY <1>4, <1>8, <2>1 DEF CatalogInv, CatalogConsistent, Consistent, Rows
  <2>2. CASE y = x
    BY <1>4, <1>7, <1>8, <2>2
  <2>3. CASE z = x
    BY <1>4, <1>7, <1>8, <2>3
  <2> QED BY <2>1, <2>2, <2>3
<1>9. ASSUME NEW i \in Items, rows'[i] # None, rows'[i].category # None
      PROVE  rows'[rows'[i].category] # None
  <2> DEFINE c == rows'[i].category
  <2>1. c \in Categories
    <3>1. rows'[i] \in Stored
      BY <1>6, <1>9 DEF Rows
    <3> QED BY <1>9, <3>1, ItemInputsType, CategoryInputsType DEF Stored, Contents
  <2>2. rows[c] # None
    <3>1. CASE i = x
      BY <1>1, <1>4, <1>9, <3>1, CommitPermitted DEF Present
    <3>2. CASE i # x
      BY <1>4, <1>9, <3>2 DEF CatalogInv, CatalogConsistent, Consistent, Rows
    <3> QED BY <3>1, <3>2
  <2>3. ASSUME c = x, req[r].op = "delete"
        PROVE  FALSE
    <3>1. r \notin ItemRequests /\ i # x
      BY <1>2, <2>1, <2>3, TablesDisjoint
    <3>2. i \in Referring(x)
      BY <1>4, <1>9, <2>3, <3>1 DEF Referring, Present, Rows
    <3> QED BY <2>3, <3>1, <3>2, CommitPermitted
  <2> QED BY <1>2, <1>4, <2>1, <2>2, <2>3, NoneIsNoInput DEF Rows, Contents
<1>10. ASSUME NEW i \in lent
       PROVE  rows'[i] # None
  <2>1. i \in Items /\ rows[i] # None
    BY DEF CatalogInv, TypeOK, CatalogConsistent, Present
  <2>2. ASSUME i = x
        PROVE  req[r].op # "delete"
    BY <1>2, <2>1, <2>2, TablesDisjoint, CommitPermitted
  <2> QED BY <1>2, <1>4, <2>1, <2>2, NoneIsNoInput DEF Rows, Contents
<1>11. CatalogConsistent'
  BY <1>8, <1>9, <1>10 DEF CatalogConsistent, Consistent, Present, Rows
<1>12. ASSUME NEW c \in Categories, rows'[c] # None
       PROVE  rows'[c] \in CategoryInputs
  BY <1>2, <1>4, <1>12, TablesDisjoint DEF CatalogInv, TypeOK, Present, Rows
<1> QED BY <1>6, <1>11, <1>12 DEF Present

\* What another request holds and knows survives the write, because it holds
\* its row and its entries.
LEMMA TakeEffectSparesOthers ==
    ASSUME CatalogInv, NEW r \in Requests, pc[r] = "commit", TakeEffect(r), lent' = lent,
           NEW s \in Requests, s # r, Unmoved(s), answer'[s] = answer[s]
    PROVE  /\ Holding(s)' <=> Holding(s)
           /\ KeysHeld(s)' = KeysHeld(s)
           /\ KeyShared(s)' = KeyShared(s)
           /\ Exclusive(s)' = Exclusive(s)
           /\ InputInv(s)' /\ KnowledgeInv(s)'
<1> DEFINE x == req[r].row
           y == req[s].row
           new == IF req[r].op = "delete" THEN None ELSE req[r].new
<1>1. InputInv(r) /\ KnowledgeInv(r) /\ InputInv(s) /\ KnowledgeInv(s) /\ Holding(r)
  BY DEF CatalogInv, Holding
<1>2. x \in Rows /\ rows'[x] = new /\ \A z \in Rows : z # x => rows'[z] = rows[z]
  BY <1>1 DEF CatalogInv, TypeOK, InputInv, Rows, TakeEffect
<1>3. Holding(s) => y # x /\ y \in Rows /\ rows'[y] = rows[y]
  BY <1>1, <1>2 DEF CatalogInv, ExclusionInv, InputInv, Holding, Rows
<1>4. Holding(s)' <=> Holding(s)
  BY DEF Unmoved, Holding
<1>5. KeysHeld(s)' = KeysHeld(s)
  BY <1>3, <1>4 DEF Unmoved, KeysHeld, LabelKey, SerialKey, Blank, Holding
<1>6. pc[s] = "commit" => (NeedsReference(s)' <=> NeedsReference(s))
  BY <1>3 DEF Unmoved, NeedsReference, Holding
<1>7. KeyShared(s)' = KeyShared(s)
  BY <1>6 DEF Unmoved, KeyShared
<1>8. Exclusive(s)' = Exclusive(s)
  BY <1>3, <1>4 DEF Unmoved, Exclusive, ChangesKey
<1>9. InputInv(s)'
  BY <1>1 DEF Unmoved, InputInv, Input, Blank, Contents
<1>10. pc[s] # "done" => rows'[s] = None
  <2>1. pc[s] # "done" => s # x
    BY <1>1 DEF InputInv, KnowledgeInv, Present
  <2> QED BY <1>1, <1>2, <2>1, RowsOfRequests DEF Unmoved, KnowledgeInv, Requests, Rows
<1>11. ASSUME pc[s] \in {"serial", "reference", "commit"}, req[s].op # "delete"
       PROVE  ~Taken(s, "label")'
  <2>1. LabelKey(y, req[s].new) \in KeysHeld(s)
    BY <1>11 DEF KeysHeld, LabelKey, SerialKey
  <2>2. req[r].op # "delete" => LabelKey(x, req[r].new) \in KeysHeld(r)
    BY DEF KeysHeld, LabelKey, SerialKey
  <2>3. req[r].op # "delete" /\ x \in TableOf(y) => req[r].new.label # req[s].new.label
    <3>1. x \in TableOf(y) => (x \in Items <=> y \in Items)
      BY <1>1, <1>11, TablesDisjoint DEF TableOf, InputInv
    <3> QED BY <2>1, <2>2, <3>1 DEF CatalogInv, ExclusionInv, LabelKey
  <2>4. ~Taken(s, "label")
    BY <1>1, <1>11 DEF KnowledgeInv
  <2> QED BY <1>2, <2>3, <2>4 DEF Unmoved, Taken, Present, TableOf, Rows
<1>12. ASSUME pc[s] \in {"reference", "commit"}, req[s].op # "delete"
       PROVE  ~Taken(s, "serial")'
  <2>1. req[s].new.serial # None => SerialKey(req[s].new) \in KeysHeld(s)
    BY <1>12 DEF KeysHeld, SerialKey, Blank
  <2>2. req[r].op # "delete" /\ req[r].new.serial # None => SerialKey(req[r].new) \in KeysHeld(r)
    BY DEF KeysHeld, SerialKey, Blank
  <2>3. req[r].op # "delete" /\ req[s].new.serial # None => req[r].new.serial # req[s].new.serial
    BY <2>1, <2>2 DEF CatalogInv, ExclusionInv, SerialKey
  <2>4. ~Taken(s, "serial")
    BY <1>1, <1>12 DEF KnowledgeInv
  <2> QED BY <1>2, <2>3, <2>4 DEF Unmoved, Taken, Present, TableOf, Rows
<1>13. ASSUME pc[s] = "commit", req[s].op # "delete", NeedsReference(s)
       PROVE  rows'[req[s].new.category] # None
  <2> DEFINE c == req[s].new.category
  <2>1. c \in KeyShared(s) /\ rows[c] # None
    BY <1>1, <1>13 DEF KeyShared, KnowledgeInv, Present
  <2>2. c \in Rows
    BY <1>1, <1>13, ItemInputsType, CategoryInputsType DEF InputInv, NeedsReference, Rows
  <2>3. req[r].op = "delete" => c # x
    BY <1>1, <2>1 DEF CatalogInv, ExclusionInv, Exclusive, ChangesKey
  <2> QED BY <1>1, <1>2, <2>1, <2>2, <2>3, NoneIsNoInput DEF InputInv, Contents
<1>14. ASSUME pc[s] = "commit", req[s].op = "delete", s \notin ItemRequests
       PROVE  Referring(y)' = {}
  <2>1. Referring(y) = {} /\ y \in Categories
    BY <1>1, <1>14 DEF KnowledgeInv, InputInv
  <2>2. y \in Exclusive(s)
    BY <1>14 DEF Exclusive, Holding, ChangesKey
  <2>3. ASSUME x \in Items, req[r].op # "delete", req[r].new.category = y
        PROVE  FALSE
    <3>1. CASE NeedsReference(r)
      BY <2>2, <2>3, <3>1 DEF KeyShared, CatalogInv, ExclusionInv
    <3>2. CASE ~NeedsReference(r)
      <4>1. req[r].op = "update" /\ rows[x].category = y
        BY <2>1, <2>3, <3>2, NoValue DEF NeedsReference
      <4>2. x \in Referring(y)
        BY <1>1, <2>3, <4>1 DEF Referring, KnowledgeInv
      <4> QED BY <2>1, <4>2
    <3> QED BY <3>1, <3>2
  <2> QED BY <1>2, <2>1, <2>3 DEF Unmoved, Referring, Present, Rows
<1>15. KnowledgeInv(s)'
  <2>1. Holding(s)' /\ req'[s].op # "create" => rows'[req'[s].row] # None
    BY <1>1, <1>3, <1>4 DEF Unmoved, KnowledgeInv, Present
  <2> QED BY <1>1, <1>6, <1>10, <1>11, <1>12, <1>13, <1>14, <2>1
          DEF Unmoved, KnowledgeInv, Present
<1> QED BY <1>4, <1>5, <1>7, <1>8, <1>9, <1>15

LEMMA CommitKeepsInv ==
    ASSUME CatalogInv, NEW r \in Requests, pc[r] = "commit", TakeEffect(r),
           NEW a \in Answers \ {"pending"}, Finish(r, a),
           UNCHANGED <<lent, req>>, faults' \in 0..MaxFaults
    PROVE  CatalogInv'
<1>1. TypeOK'
  BY TakeEffectConsistent DEF CatalogInv, TypeOK, Finish, Steps, Rows
<1>2. CatalogConsistent'
  BY TakeEffectConsistent
<1>3. \A s \in Requests : s # r => Unmoved(s) /\ answer'[s] = answer[s]
  BY DEF CatalogInv, TypeOK, Finish, Unmoved
<1>4. pc'[r] = "done" /\ answer'[r] = a /\ req'[r] \in Input /\ req'[r] # None
  BY NoneIsNoInput DEF CatalogInv, TypeOK, Finish, InputInv
<1>5. ~Holding(r)' /\ KeysHeld(r)' = {} /\ KeyShared(r)' = {} /\ Exclusive(r)' = {}
  BY <1>4 DEF Holding, KeysHeld, KeyShared, Exclusive
<1>6. ExclusionInv'
  BY <1>3, <1>5, TakeEffectSparesOthers DEF CatalogInv, ExclusionInv, Unmoved
<1>7. InputInv(r)' /\ KnowledgeInv(r)'
  BY <1>4, <1>5 DEF InputInv, KnowledgeInv
<1>8. \A s \in Requests : s # r => InputInv(s)' /\ KnowledgeInv(s)'
  BY <1>3, TakeEffectSparesOthers
<1> QED BY <1>1, <1>2, <1>6, <1>7, <1>8 DEF CatalogInv

LEMMA LendKeepsInv ==
    ASSUME CatalogInv, NEW i \in Items, Lend(i)
    PROVE  CatalogInv'
<1>1. TypeOK' /\ CatalogConsistent'
  BY DEF CatalogInv, TypeOK, CatalogConsistent, Consistent, Present, Lend
<1>2. \A s \in Requests : Unmoved(s) /\ answer'[s] = answer[s]
  BY DEF Lend, Unmoved
<1>3. ExclusionInv'
  BY <1>2, HoldsTheSame DEF CatalogInv, ExclusionInv, Lend, Unmoved
<1>4. ASSUME NEW s \in Requests
      PROVE  InputInv(s)' /\ KnowledgeInv(s)'
  <2>1. InputInv(s)'
    BY <1>2 DEF Unmoved, CatalogInv, InputInv, Input, Blank, Contents
  <2>2. Holding(s)' <=> Holding(s)
    BY <1>2, HoldsTheSame DEF Lend
  <2>3. /\ Taken(s, "label")' <=> Taken(s, "label")
        /\ Taken(s, "serial")' <=> Taken(s, "serial")
        /\ NeedsReference(s)' <=> NeedsReference(s)
    BY <1>2 DEF Unmoved, Taken, Present, TableOf, Lend, NeedsReference
  <2>4. pc[s] = "commit" => req[s].row # i
    BY DEF Lend, Holding
  <2>5. KnowledgeInv(s)'
    BY <1>2, <2>2, <2>3, <2>4 DEF Unmoved, CatalogInv, KnowledgeInv, Present, Referring, Lend
  <2> QED BY <2>1, <2>5
<1> QED BY <1>1, <1>3, <1>4 DEF CatalogInv

-------------------------------------------------------------------------------
(* The invariant of the specification. *)

LEMMA InitEstablishesInv == Init => CatalogInv
<1> SUFFICES ASSUME Init PROVE CatalogInv
  OBVIOUS
<1>1. \A x \in Rows : rows[x] = IF x \in DOMAIN Seed THEN Seed[x] ELSE None
  BY DEF Init, SeededRows, Rows
<1>2. rows \in [Rows -> Stored \cup {None}]
  <2>1. \A x \in DOMAIN Seed : Seed[x] \in Stored
    BY SeedType DEF Stored, Contents
  <2> QED BY <2>1 DEF Init, SeededRows, Rows
<1>3. \A c \in Categories : Present(c) => rows[c] \in CategoryInputs
  BY <1>1, SeedType, TablesDisjoint DEF Present, Rows
<1>4. TypeOK
  BY <1>2, <1>3, MaxFaultsType DEF Init, TypeOK, Rows, Steps, Answers
<1>5. CatalogConsistent
  BY SeedType DEF Init, CatalogConsistent
<1>6. \A r \in Requests : ~Holding(r) /\ KeysHeld(r) = {} /\ KeyShared(r) = {} /\ Exclusive(r) = {}
  BY DEF Init, Holding, KeysHeld, KeyShared, Exclusive
<1>7. \A r \in Requests : InputInv(r)
  BY DEF Init, InputInv
<1>8. \A r \in Requests : rows[r] = None
  BY <1>1, SeedType, RowsOfRequests DEF Requests, Rows
<1>9. \A r \in Requests : KnowledgeInv(r)
  BY <1>6, <1>8 DEF Init, KnowledgeInv
<1> QED BY <1>4, <1>5, <1>6, <1>7, <1>9 DEF CatalogInv, ExclusionInv

\* How a request arrives.
LEMMA SubmitKeepsInv ==
    ASSUME CatalogInv, NEW r \in Requests, NEW op \in {"create", "update", "delete"},
           NEW x \in (IF r \in ItemRequests THEN Items ELSE Categories) \cup {Malformed},
           NEW content \in IF op = "delete" THEN {Blank}
                           ELSE IF r \in ItemRequests THEN ItemInputs ELSE CategoryInputs,
           NEW first \in {"get", "category", "exists", "row"},
           op = "create" => x = r,
           first = "get" => op = "update",
           first \in {"category", "exists"} => op # "delete",
           first = "category" => r \in ItemRequests,
           first = "row" => op # "create",
           first \in {"exists", "row"} => content.category # Malformed,
           Submit(r, op, x, content, first)
    PROVE  CatalogInv'
<1>1. CASE Malformed \in {x, content.label}
  <2>1. [op |-> op, row |-> x, new |-> content] \in Input
    BY DEF Input, Contents
  <2> QED BY <1>1, <2>1, FinishKeepsInv DEF Submit, Answers, Refusals, CatalogInv, TypeOK
<1>2. CASE Malformed \notin {x, content.label}
  BY <1>2, AcceptKeepsInv DEF Submit
<1> QED BY <1>1, <1>2

LEMMA ArriveKeepsInv ==
    ASSUME CatalogInv, NEW r \in Requests,
           \/ r \in ItemRequests /\ ArriveItem(r)
           \/ r \in CategoryRequests /\ ArriveCategory(r)
    PROVE  CatalogInv'
<1>1. r \in CategoryRequests => r \notin ItemRequests
  BY TablesDisjoint, RowsOfRequests
<1>2. Blank.category # Malformed /\ \A in \in CategoryInputs : in.category # Malformed
  BY NoValue, CategoryInputsType DEF Blank
<1>3. r \in IF r \in ItemRequests THEN Items ELSE Categories
  BY RowsOfRequests DEF Requests
<1>4. CASE r \in ItemRequests
  <2>1. CASE ArriveCreateItem(r)
    BY <1>3, <1>4, <2>1, SubmitKeepsInv DEF ArriveCreateItem
  <2>2. CASE ArriveUpdateItem(r)
    BY <1>4, <2>2, SubmitKeepsInv DEF ArriveUpdateItem
  <2>3. CASE ArriveDeleteItem(r)
    BY <1>2, <1>4, <2>3, SubmitKeepsInv DEF ArriveDeleteItem
  <2> QED BY <1>1, <1>4, <2>1, <2>2, <2>3 DEF ArriveItem
<1>5. CASE r \in CategoryRequests
  <2>1. CASE ArriveCreateCategory(r)
    BY <1>1, <1>2, <1>3, <1>5, <2>1, SubmitKeepsInv DEF ArriveCreateCategory
  <2>2. CASE ArriveUpdateCategory(r)
    BY <1>1, <1>5, <2>2, SubmitKeepsInv DEF ArriveUpdateCategory
  <2>3. CASE ArriveDeleteCategory(r)
    BY <1>1, <1>2, <1>5, <2>3, SubmitKeepsInv DEF ArriveDeleteCategory
  <2> QED BY <1>1, <1>5, <2>1, <2>2, <2>3 DEF ArriveCategory
<1> QED BY <1>4, <1>5

LEMMA ProceedKeepsInv ==
    ASSUME CatalogInv, NEW r \in Requests, Proceed(r)
    PROVE  CatalogInv'
<1> USE DEF Answers, Refusals
<1>1. CASE GetItem(r) \/ GetCategory(r)
  BY <1>1, StepOutcome, ReadKeepsInv DEF GetItem, GetCategory, RowOutcome, CatalogInv, InputInv
<1>2. CASE CategoryExists(r)
  BY <1>2, StepOutcome, ReadKeepsInv DEF CategoryExists, CategoryOutcome
<1>3. CASE AssetTagExists(r) \/ CategoryNameExists(r)
  <2>1. PICK conflict \in {"asset_tag_conflict", "category_name_conflict"} :
            Step(r, "exists", LabelOutcome(r, conflict))
    BY <1>3 DEF AssetTagExists, CategoryNameExists
  <2> QED BY <2>1, StepOutcome, ReadKeepsInv, BeginCreateKeepsInv DEF LabelOutcome
<1>4. CASE LockItem(r) \/ LockCategory(r)
  BY <1>4, StepOutcome, LockKeepsInv DEF LockItem, LockCategory, RowOutcome
<1>5. CASE EnterAssetTag(r) \/ EnterCategoryName(r)
  BY <1>5, StepOutcome, LabelKeepsInv DEF EnterAssetTag, EnterCategoryName, LabelOutcome
<1>6. CASE EnterSerialNumber(r)
  BY <1>6, StepOutcome, SerialKeepsInv DEF EnterSerialNumber, SerialOutcome
<1>7. CASE CheckCategoryReference(r)
  BY <1>7, StepOutcome, ReferenceKeepsInv DEF CheckCategoryReference, ReferenceOutcome
<1>8. CASE ProbeCheckouts(r)
  BY <1>8, StepOutcome, ProbeKeepsInv DEF ProbeCheckouts, ItemUseOutcome
<1>9. CASE ProbeItems(r)
  <2>1. r \notin ItemRequests
    BY <1>9, TablesDisjoint, RowsOfRequests DEF ProbeItems
  <2> QED BY <1>9, <2>1, StepOutcome, ProbeKeepsInv DEF ProbeItems, CategoryUseOutcome
<1>10. CASE Commit(r)
  <2>1. Granted(req[r].op) \in Answers \ {"pending"}
    BY <1>10 DEF Commit, Granted, CatalogInv, InputInv, Input
  <2> QED BY <1>10, <2>1, CommitKeepsInv DEF Commit, CatalogInv, TypeOK
<1>11. CASE DeadlockAbort(r)
  <2>1. pc[r] \notin {"new", "done"}
    BY <1>11 DEF DeadlockAbort, Blockers
  <2> QED BY <1>11, <2>1, FinishKeepsInv DEF DeadlockAbort, CatalogInv, TypeOK
<1> QED BY <1>1, <1>2, <1>3, <1>4, <1>5, <1>6, <1>7, <1>8, <1>9, <1>10, <1>11
        DEF Proceed, Write

LEMMA FailKeepsInv ==
    ASSUME CatalogInv, NEW r \in Requests, Fail(r)
    PROVE  CatalogInv'
<1>1. faults < MaxFaults /\ faults' = faults + 1 => faults' \in 0..MaxFaults
  BY MaxFaultsType DEF CatalogInv, TypeOK
<1>2. "internal_error" \in Answers \ {"pending"}
  BY DEF Answers
<1>3. CASE Abort(r)
  BY <1>1, <1>2, <1>3, FinishKeepsInv DEF Abort
<1>4. CASE CommitUnacknowledged(r)
  BY <1>1, <1>2, <1>4, CommitKeepsInv DEF CommitUnacknowledged
<1> QED BY <1>3, <1>4 DEF Fail

\* The invariant is inductive.
LEMMA NextKeepsInv == CatalogInv /\ [Next]_vars => CatalogInv'
<1> SUFFICES ASSUME CatalogInv, [Next]_vars PROVE CatalogInv'
  OBVIOUS
<1>1. CASE \E r \in ItemRequests : ArriveItem(r)
  BY <1>1, ArriveKeepsInv DEF Requests
<1>2. CASE \E r \in CategoryRequests : ArriveCategory(r)
  BY <1>2, ArriveKeepsInv DEF Requests
<1>3. CASE \E r \in Requests : Proceed(r) \/ Fail(r)
  BY <1>3, ProceedKeepsInv, FailKeepsInv
<1>4. CASE \E i \in Items : Lend(i)
  BY <1>4, LendKeepsInv
<1>5. CASE UNCHANGED vars
  <2>1. \A s \in Requests : Unmoved(s) /\ answer'[s] = answer[s]
    BY <1>5 DEF vars, Unmoved
  <2>2. TypeOK' /\ CatalogConsistent'
    BY <1>5 DEF vars, CatalogInv, TypeOK, CatalogConsistent, Consistent, Present
  <2>3. ExclusionInv'
    BY <1>5, <2>1, HoldsTheSame DEF vars, CatalogInv, ExclusionInv
  <2>4. \A s \in Requests : InputInv(s)' /\ KnowledgeInv(s)'
    BY <1>5, <2>1, KnowsTheSame DEF vars, CatalogInv
  <2> QED BY <2>2, <2>3, <2>4 DEF CatalogInv
<1> QED BY <1>1, <1>2, <1>3, <1>4, <1>5 DEF Next, Terminated

\* What every write holds and knows is true in every reachable state.
THEOREM CatalogInvariant == Spec => []CatalogInv
<1>1. Init => CatalogInv
  BY InitEstablishesInv
<1>2. CatalogInv /\ [Next]_vars => CatalogInv'
  BY NextKeepsInv
<1> QED BY <1>1, <1>2, PTL DEF Spec

\* Every variable keeps its type: no malformed content reaches a row.
THEOREM TypeCorrect == Spec => []TypeOK
<1>1. CatalogInv => TypeOK
  BY DEF CatalogInv
<1> QED BY <1>1, CatalogInvariant, PTL

\* Uniqueness, references and lent items survive every race of item and
\* category writes (item.go:48-69, 116-143, 160-170; category.go:142-152).
THEOREM CatalogStaysConsistent == Spec => []CatalogConsistent
<1>1. CatalogInv => CatalogConsistent
  BY DEF CatalogInv
<1> QED BY <1>1, CatalogInvariant, PTL

-------------------------------------------------------------------------------
(* ItemCatalog implements Catalog: the step that decides a request is its   *)
(* step of Catalog, every other step is a stutter.                          *)

LEMMA InitImplements == Init => Abstract!Init
<1> SUFFICES ASSUME Init PROVE Abstract!Init
  OBVIOUS
<1>1. rows \in [Rows -> Contents \cup {None}]
  BY SeedType DEF Init, SeededRows, Rows, Contents
<1> QED BY <1>1 DEF Init, Abstract!Init, Abstract!Contents, Contents, Rows, Abstract!Requests, Requests

\* The two modules mean the same by the values that are taken.
LEMMA TakenAgrees ==
    ASSUME NEW r \in Requests
    PROVE  /\ Abstract!Taken(r, "label") <=> Taken(r, "label")
           /\ Abstract!Taken(r, "serial") <=> Taken(r, "serial")
  BY DEF Abstract!Taken, Taken, Abstract!TableOf, TableOf, Present

\* A refusal whose reason holds is a refusal of Catalog.
LEMMA RefusalImplements ==
    ASSUME CatalogInv, NEW r \in Requests, pc[r] \notin {"new", "done"},
           NEW a \in Refusals, Abstract!Reason(r, a), Finish(r, a), UNCHANGED <<rows, lent, req>>
    PROVE  Abstract!Next
<1>1. Abstract!Open(r)
  BY DEF Abstract!Open, CatalogInv, InputInv
<1>2. Abstract!Refuse(r)
  BY <1>1 DEF Abstract!Refuse, Abstract!Tell, Abstract!Refusals, Refusals, Finish
<1> QED BY <1>2 DEF Abstract!Next, Abstract!Requests, Requests

\* A failure before the write took effect.
LEMMA BreakImplements ==
    ASSUME CatalogInv, NEW r \in Requests, pc[r] \notin {"new", "done"},
           Finish(r, "internal_error"), UNCHANGED <<rows, lent, req>>
    PROVE  Abstract!Next
<1>1. Abstract!Open(r)
  BY DEF Abstract!Open, CatalogInv, InputInv
<1>2. Abstract!Break(r)
  BY <1>1 DEF Abstract!Break, Abstract!Tell, Finish
<1> QED BY <1>2 DEF Abstract!Next, Abstract!Requests, Requests

\* A write that takes effect does so when Catalog permits it.
LEMMA EffectImplements ==
    ASSUME CatalogInv, NEW r \in Requests, pc[r] = "commit", TakeEffect(r)
    PROVE  Abstract!Open(r) /\ Abstract!TakeEffect(r)
<1>1. InputInv(r) /\ KnowledgeInv(r)
  BY DEF CatalogInv
<1>2. Abstract!Open(r)
  BY <1>1 DEF Abstract!Open, InputInv
<1>3. req[r].op # "create" => Present(req[r].row)
  BY <1>1 DEF KnowledgeInv, Holding
<1>4. r \notin ItemRequests /\ req[r].op # "delete" => req[r].new.category = None
  BY <1>1, CategoryInputsType DEF InputInv
<1>5. req[r].op = "delete" => req[r].new = Blank
  BY <1>1 DEF InputInv
<1>6. ASSUME NEW a \in Abstract!Refusals, Abstract!Reason(r, a)
      PROVE  FALSE
  <2>1. CASE a = "invalid_request"
    BY <1>5, <1>6, <2>1, CommitPermitted, NoValue DEF Abstract!Reason, Blank
  <2>2. CASE a = "item_not_found"
    BY <1>3, <1>6, <2>2 DEF Abstract!Reason, Abstract!Missing, Present
  <2>3. CASE a = "item_in_use"
    BY <1>6, <2>3, CommitPermitted DEF Abstract!Reason
  <2>4. CASE a = "asset_tag_conflict" \/ a = "category_name_conflict"
    BY <1>6, <2>4, CommitPermitted, TakenAgrees DEF Abstract!Reason, Abstract!Writes
  <2>5. CASE a = "serial_number_conflict"
    BY <1>6, <2>5, CommitPermitted, TakenAgrees DEF Abstract!Reason, Abstract!Writes
  <2>6. CASE a = "category_in_use"
    BY <1>6, <2>6, CommitPermitted DEF Abstract!Reason, Referring, Present
  <2>7. CASE a = "category_not_found"
    <3>1. CASE r \notin ItemRequests /\ Abstract!Missing(r)
      BY <1>3, <3>1 DEF Abstract!Missing, Present
    <3>2. CASE /\ Abstract!Writes(r) /\ req[r].new.category \in Categories
               /\ rows[req[r].new.category] = None
      BY <3>2, CommitPermitted, NoValue DEF Abstract!Writes, Present
    <3> QED BY <1>6, <2>7, <3>1, <3>2 DEF Abstract!Reason
  <2> QED BY <2>1, <2>2, <2>3, <2>4, <2>5, <2>6, <2>7 DEF Abstract!Refusals
<1>7. Abstract!TakeEffect(r)
  BY <1>6 DEF Abstract!TakeEffect, TakeEffect
<1> QED BY <1>2, <1>7

\* A request's arrival is Catalog's question, and its answer when malformed.
LEMMA ArriveImplements ==
    ASSUME CatalogInv, NEW r \in Requests,
           \/ r \in ItemRequests /\ ArriveItem(r)
           \/ r \in CategoryRequests /\ ArriveCategory(r)
    PROVE  Abstract!Next
<1>1. r \in Rows
  BY RowsOfRequests DEF Requests, Rows
<1>2. PICK op \in {"create", "update", "delete"}, x \in Rows \cup {Malformed},
           content \in Contents \cup {Blank}, first \in Steps :
           Submit(r, op, x, content, first)
  BY <1>1 DEF ArriveItem, ArriveCreateItem, ArriveUpdateItem, ArriveDeleteItem,
      ArriveCategory, ArriveCreateCategory, ArriveUpdateCategory, ArriveDeleteCategory,
      Contents, Steps, Rows
<1> DEFINE in == [op |-> op, row |-> x, new |-> content]
<1>3. in \in Abstract!Input
  BY DEF Abstract!Input, Abstract!Contents, Contents, Abstract!Blank, Blank, Rows
<1>4. req[r] = None /\ req' = [req EXCEPT ![r] = in] /\ req'[r] = in
  BY <1>2 DEF Submit, CatalogInv, InputInv, TypeOK
<1>5. answer' = IF Malformed \in {req'[r].row, req'[r].new.label}
                THEN [answer EXCEPT ![r] = "invalid_request"] ELSE answer
  BY <1>2, <1>4 DEF Submit, Finish
<1>6. UNCHANGED <<rows, lent>>
  BY <1>2 DEF Submit
<1>7. Abstract!Ask(r)
  BY <1>3, <1>4, <1>5, <1>6 DEF Abstract!Ask
<1> QED BY <1>7 DEF Abstract!Next, Abstract!Requests, Requests

\* A step that is no decision changes nothing Catalog sees.
LEMMA StepImplements ==
    ASSUME CatalogInv, NEW r \in Requests, NEW at, NEW outcome \in Refusals \cup {"ok"},
           at \notin {"new", "done"}, Step(r, at, outcome),
           outcome # "ok" => Abstract!Reason(r, outcome)
    PROVE  [Abstract!Next]_(Abstract!vars)
<1>1. CASE outcome = "ok"
  BY <1>1 DEF Step, Abstract!vars
<1>2. CASE outcome # "ok"
  BY <1>2, RefusalImplements DEF Step
<1> QED BY <1>1, <1>2

LEMMA ProceedImplements ==
    ASSUME CatalogInv, NEW r \in Requests, Proceed(r)
    PROVE  [Abstract!Next]_(Abstract!vars)
<1> USE DEF Refusals
<1>1. InputInv(r) /\ (r \in CategoryRequests => r \notin ItemRequests)
  BY TablesDisjoint, RowsOfRequests DEF CatalogInv
<1>2. CASE GetItem(r) \/ LockItem(r)
  BY <1>1, <1>2, StepImplements
     DEF GetItem, LockItem, RowOutcome, Step, InputInv, Abstract!Reason, Abstract!Missing, Present
<1>3. CASE GetCategory(r) \/ LockCategory(r)
  BY <1>1, <1>3, StepImplements
     DEF GetCategory, LockCategory, RowOutcome, Step, InputInv, Abstract!Reason, Abstract!Missing, Present
<1>4. CASE CategoryExists(r)
  <2>1. req[r].op \in {"create", "update"} /\ r \in ItemRequests /\ pc[r] = "category"
    BY <1>1, <1>4 DEF CategoryExists, Step, InputInv, Input
  <2>2. req[r].new.category \in Categories \cup {None, Malformed}
    BY <1>1, <2>1, ItemInputsType DEF InputInv
  <2> QED BY <1>4, <2>1, <2>2, StepImplements
          DEF CategoryExists, CategoryOutcome, Abstract!Reason, Abstract!Writes, Present
<1>5. CASE AssetTagExists(r) \/ EnterAssetTag(r)
  <2>1. pc[r] \in {"exists", "label"} => Abstract!Writes(r)
    BY <1>1 DEF InputInv, Input, Abstract!Writes
  <2> QED BY <1>5, <2>1, TakenAgrees, StepImplements
          DEF AssetTagExists, EnterAssetTag, LabelOutcome, Step, Abstract!Reason
<1>6. CASE CategoryNameExists(r) \/ EnterCategoryName(r)
  <2>1. pc[r] \in {"exists", "label"} => Abstract!Writes(r)
    BY <1>1 DEF InputInv, Input, Abstract!Writes
  <2> QED BY <1>1, <1>6, <2>1, TakenAgrees, StepImplements
          DEF CategoryNameExists, EnterCategoryName, LabelOutcome, Step, Abstract!Reason
<1>7. CASE EnterSerialNumber(r)
  <2>1. pc[r] = "serial" => Abstract!Writes(r) /\ r \in ItemRequests
    BY <1>1 DEF InputInv, Input, Abstract!Writes
  <2> QED BY <1>7, <2>1, TakenAgrees, StepImplements
          DEF EnterSerialNumber, SerialOutcome, Step, Abstract!Reason
<1>8. CASE CheckCategoryReference(r)
  <2>1. pc[r] = "reference"
    BY <1>8 DEF CheckCategoryReference, Step
  <2>2. Abstract!Writes(r) /\ (req[r].new.category # None => req[r].new.category \in Categories)
    BY <1>1, <2>1, ItemInputsType DEF InputInv, Input, Abstract!Writes
  <2> QED BY <1>8, <2>2, StepImplements
          DEF CheckCategoryReference, ReferenceOutcome, NeedsReference, Abstract!Reason, Present
<1>9. CASE ProbeCheckouts(r)
  <2>1. pc[r] = "probe" => req[r].op = "delete"
    BY <1>1 DEF InputInv
  <2> QED BY <1>9, <2>1, StepImplements DEF ProbeCheckouts, ItemUseOutcome, Step, Abstract!Reason
<1>10. CASE ProbeItems(r)
  <2>1. pc[r] = "probe" => req[r].op = "delete"
    BY <1>1 DEF InputInv
  <2> QED BY <1>1, <1>10, <2>1, StepImplements
          DEF ProbeItems, CategoryUseOutcome, Referring, Present, Step, Abstract!Reason
<1>11. CASE Commit(r)
  <2>1. Abstract!Succeed(r)
    BY <1>11, EffectImplements
       DEF Commit, Finish, Granted, Abstract!Succeed, Abstract!Granted, Abstract!Tell
  <2> QED BY <2>1 DEF Abstract!Next, Abstract!Requests, Requests
<1>12. CASE DeadlockAbort(r)
  BY <1>12, BreakImplements DEF DeadlockAbort, Blockers
<1> QED BY <1>2, <1>3, <1>4, <1>5, <1>6, <1>7, <1>8, <1>9, <1>10, <1>11, <1>12
        DEF Proceed, Write

LEMMA FailImplements ==
    ASSUME CatalogInv, NEW r \in Requests, Fail(r)
    PROVE  Abstract!Next
<1>1. CASE Abort(r)
  BY <1>1, BreakImplements DEF Abort
<1>2. CASE CommitUnacknowledged(r)
  <2>1. Abstract!Break(r)
    BY <1>2, EffectImplements DEF CommitUnacknowledged, Finish, Abstract!Break, Abstract!Tell
  <2> QED BY <2>1 DEF Abstract!Next, Abstract!Requests, Requests
<1> QED BY <1>1, <1>2 DEF Fail

LEMMA NextImplements == CatalogInv /\ [Next]_vars => [Abstract!Next]_(Abstract!vars)
<1> SUFFICES ASSUME CatalogInv, [Next]_vars PROVE [Abstract!Next]_(Abstract!vars)
  OBVIOUS
<1>1. CASE \E r \in ItemRequests : ArriveItem(r)
  BY <1>1, ArriveImplements DEF Requests
<1>2. CASE \E r \in CategoryRequests : ArriveCategory(r)
  BY <1>2, ArriveImplements DEF Requests
<1>3. CASE \E r \in Requests : Proceed(r) \/ Fail(r)
  BY <1>3, ProceedImplements, FailImplements
<1>4. CASE \E i \in Items : Lend(i)
  BY <1>4 DEF Lend, Present, Abstract!Lend, Abstract!Next
<1>5. CASE UNCHANGED vars
  BY <1>5 DEF vars, Abstract!vars
<1> QED BY <1>1, <1>2, <1>3, <1>4, <1>5 DEF Next, Terminated

\* Every answer is decided at one instant and true at it, and a write takes
\* effect only when nothing speaks against it, although reads and write are
\* separate statements (item.go:36-173, 226-243; category.go:36-152).
THEOREM CatalogImplemented == Spec => ImplementsCatalog
<1>1. Init => Abstract!Init
  BY InitImplements
<1>2. CatalogInv /\ [Next]_vars => [Abstract!Next]_(Abstract!vars)
  BY NextImplements
<1>3. Spec => Abstract!Spec
  BY <1>1, <1>2, CatalogInvariant, PTL DEF Spec, Abstract!Spec
<1> QED BY <1>3 DEF ImplementsCatalog
===============================================================================
