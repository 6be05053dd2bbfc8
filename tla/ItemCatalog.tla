----------------------------- MODULE ItemCatalog -----------------------------
(***************************************************************************)
(* The writes of services/item.go and services/category.go.  Each request  *)
(* runs a few statements outside any transaction: reads that decide        *)
(* whether to go on, then one write.  Nothing is locked between them, so   *)
(* what a read found may be gone when the write runs; the constraints of   *)
(* the schema decide then, and the service turns their errors into         *)
(* answers.                                                                *)
(*                                                                         *)
(* PostgreSQL carries out the write in steps, in which it can wait for     *)
(* other writes: it takes the row, enters the label (an item's asset tag,  *)
(* a category's name) and the serial number into their unique indexes, and *)
(* checks the foreign keys.  A request's place among these steps says what *)
(* it holds.  A created row is named by the request that creates it.       *)
(***************************************************************************)
EXTENDS Integers

CONSTANTS
    Items,             \* rows of the items table, present or not
    Categories,        \* rows of the categories table
    ItemRequests,      \* POST, PUT and DELETE on /items
    CategoryRequests,  \* the same on /categories
    ItemInputs,        \* bodies of item requests: label, serial, category
    CategoryInputs,    \* bodies of category requests: a label, the name
    Seed,              \* the rows there are at first
    MaxFaults,         \* bound: failed calls and lost commit acknowledgements
    Malformed,         \* an id or a label that no validation lets pass
    None               \* SQL NULL, a row that does not exist

Requests == ItemRequests \cup CategoryRequests
Contents == ItemInputs \cup CategoryInputs

Blank == [label |-> None, serial |-> None, category |-> None]

Input ==
    [op : {"create", "update", "delete"},
     row : Items \cup Categories \cup {Malformed},
     new : Contents \cup {Blank}]

Steps ==
    {"new", "get", "category", "exists",
     "row", "label", "serial", "reference", "probe", "commit", "done"}

Refusals ==
    {"invalid_request", "item_not_found", "item_in_use", "asset_tag_conflict",
     "serial_number_conflict", "category_name_conflict", "category_in_use",
     "category_not_found"}
Answers == Refusals \cup {"created", "updated", "deleted", "internal_error", "pending"}

ASSUME TablesDisjoint == Items \cap Categories = {}
ASSUME RowsOfRequests == ItemRequests \subseteq Items /\ CategoryRequests \subseteq Categories
ASSUME NoValue == {None, Malformed} \cap (Items \cup Categories) = {} /\ None # Malformed
ASSUME ItemInputsType ==
    \A in \in ItemInputs :
        /\ DOMAIN in = {"label", "serial", "category"} /\ in.label # None
        /\ in.category \in Categories \cup {None, Malformed}
ASSUME CategoryInputsType ==
    \A in \in CategoryInputs :
        /\ DOMAIN in = {"label", "serial", "category"} /\ in.label # None
        /\ in.serial = None /\ in.category = None
ASSUME NoneIsNoInput == None \notin Input \cup Contents
ASSUME MaxFaultsType == MaxFaults \in Nat

VARIABLES
    rows,    \* items and categories: the committed contents of each row
    lent,    \* items that a checkout refers to
    pc,      \* what a request does next
    req,     \* what it asks for
    answer,  \* what its client was told
    faults   \* faults that occurred

vars == <<rows, lent, pc, req, answer, faults>>

TableOf(x) == IF x \in Items THEN Items ELSE Categories
Present(x) == rows[x] # None

\* A schema in which the uniqueness and the references hold.
Consistent(table) ==
    /\ \A x, y \in Items \cup Categories :
          table[x] # None /\ table[y] # None /\ TableOf(x) = TableOf(y) /\ x # y =>
              /\ table[x].label # table[y].label
              /\ table[x].serial # None => table[x].serial # table[y].serial
    /\ \A i \in Items :
          table[i] # None /\ table[i].category # None => table[table[i].category] # None

SeededRows == [x \in Items \cup Categories |-> IF x \in DOMAIN Seed THEN Seed[x] ELSE None]

ASSUME SeedType ==
    /\ \A x \in DOMAIN Seed :
          /\ x \in (Items \cup Categories) \ Requests
          /\ Seed[x] \in IF x \in Items THEN ItemInputs ELSE CategoryInputs
          /\ Malformed \notin {Seed[x].label, Seed[x].category}
    /\ Consistent(SeededRows)

-------------------------------------------------------------------------------
(* What a write holds until its statement ends, and whom that keeps waiting. *)

\* The write of r has its row.
Holding(r) == pc[r] \in {"label", "serial", "reference", "probe", "commit"}

\* It takes the row away, or changes a column a foreign key could refer to;
\* otherwise its lock on the row lets foreign-key checks pass.
ChangesKey(r) ==
    \/ req[r].op = "delete"
    \/ req[r].op = "update" /\ rows[req[r].row].label # req[r].new.label

Exclusive(r) == IF Holding(r) /\ ChangesKey(r) THEN {req[r].row} ELSE {}

LabelKey(x, content) == <<IF x \in Items THEN "tag" ELSE "name", content.label>>
SerialKey(content) == <<"serial", content.serial>>

\* Mutant: a foreign key that does not look at the category of a new item.
NeedsReferenceOnUpdateOnly(r) ==
    /\ req[r].op = "update" /\ req[r].new.category # None
    /\ rows[req[r].row].category # req[r].new.category

\* The foreign key looks at a category the write sets to another value.
NeedsReference(r) ==
    /\ req[r].new.category # None
    /\ req[r].op = "update" => rows[req[r].row].category # req[r].new.category

\* The category the write refers to, locked FOR KEY SHARE by its check.
KeyShared(r) ==
    IF pc[r] = "commit" /\ req[r].op # "delete" /\ NeedsReference(r)
    THEN {req[r].new.category} ELSE {}

\* Index entries: those of the row it replaces, and those it has entered.
KeysHeld(r) ==
    LET x == req[r].row
        old == IF Holding(r) /\ req[r].op # "create"
               THEN {LabelKey(x, rows[x]), SerialKey(rows[x])} ELSE {}
        label == IF pc[r] \in {"serial", "reference", "commit"} /\ req[r].op # "delete"
                 THEN {LabelKey(x, req[r].new)} ELSE {}
        serial == IF pc[r] \in {"reference", "commit"} /\ req[r].op # "delete"
                  THEN {SerialKey(req[r].new)} ELSE {}
    IN  (old \cup label \cup serial) \ {SerialKey(Blank)}

Referring(c) == {i \in Items : Present(i) /\ rows[i].category = c}

Locked(x) == \E s \in Requests : x \in Exclusive(s)

Blockers(r) ==
    LET x == req[r].row
        Waits(s) ==
            \/ /\ pc[r] = "row" /\ Present(x)
               /\ \/ Holding(s) /\ req[s].row = x
                  \/ x \in KeyShared(s) /\ ChangesKey(r)
            \/ pc[r] = "label" /\ LabelKey(x, req[r].new) \in KeysHeld(s)
            \/ pc[r] = "serial" /\ SerialKey(req[r].new) \in KeysHeld(s)
            \/ pc[r] = "reference" /\ NeedsReference(r) /\ req[r].new.category \in Exclusive(s)
            \/ /\ pc[r] = "probe" /\ x \in Categories
               /\ \A i \in Referring(x) : Locked(i)
               /\ \E i \in Referring(x) : i \in Exclusive(s)
    IN  {s \in Requests \ {r} : Waits(s)}

-------------------------------------------------------------------------------
(* How a request moves. *)

After(r) ==
    CASE pc[r] = "get"      -> IF r \in ItemRequests THEN "category" ELSE "exists"
      [] pc[r] = "category" -> "exists"
      [] pc[r] = "exists"   -> IF req[r].op = "create" THEN "label" ELSE "row"
      [] pc[r] = "row"      -> IF req[r].op = "delete" THEN "probe" ELSE "label"
      [] pc[r] = "label"    -> IF r \in ItemRequests THEN "serial" ELSE "commit"
      [] pc[r] = "serial"   -> "reference"
      [] OTHER              -> "commit"

Finish(r, a) ==
    /\ pc' = [pc EXCEPT ![r] = "done"]
    /\ answer' = [answer EXCEPT ![r] = a]

\* A statement, or a step of the write: it waits, then either the request goes
\* on or the service returns the outcome as its error.
Step(r, at, outcome) ==
    /\ pc[r] = at
    /\ Blockers(r) = {}
    /\ IF outcome = "ok"
       THEN pc' = [pc EXCEPT ![r] = After(r)] /\ UNCHANGED answer
       ELSE Finish(r, outcome)
    /\ UNCHANGED <<rows, lent, req, faults>>

\* Mutant: a label of blanks is accepted.
SubmitBlankLabel(r, op, x, content, first) ==
    /\ pc[r] = "new"
    /\ req' = [req EXCEPT ![r] = [op |-> op, row |-> x, new |-> content]]
    /\ IF x = Malformed
       THEN Finish(r, "invalid_request")
       ELSE pc' = [pc EXCEPT ![r] = first] /\ UNCHANGED answer
    /\ UNCHANGED <<rows, lent, faults>>

\* The handler parses the id and the body, the service trims and checks them.
Submit(r, op, x, content, first) ==
    /\ pc[r] = "new"
    /\ req' = [req EXCEPT ![r] = [op |-> op, row |-> x, new |-> content]]
    /\ IF Malformed \in {x, content.label}
       THEN Finish(r, "invalid_request")
       ELSE pc' = [pc EXCEPT ![r] = first] /\ UNCHANGED answer
    /\ UNCHANGED <<rows, lent, faults>>

\* Mutant: the request's own row is not excluded.
TakenByAnyRow(r, column) ==
    /\ req[r].new[column] # None
    /\ \E x \in TableOf(req[r].row) : Present(x) /\ rows[x][column] = req[r].new[column]

\* Another row of the table has the value this request wants.
Taken(r, column) ==
    /\ req[r].new[column] # None
    /\ \E x \in TableOf(req[r].row) \ {req[r].row} :
          Present(x) /\ rows[x][column] = req[r].new[column]

RowOutcome(r, notFound) == IF Present(req[r].row) THEN "ok" ELSE notFound
LabelOutcome(r, conflict) == IF Taken(r, "label") THEN conflict ELSE "ok"

-------------------------------------------------------------------------------
(* Items. *)

ArriveCreateItem(r) == \E in \in ItemInputs : Submit(r, "create", r, in, "category")

ArriveUpdateItem(r) ==
    \E x \in Items \cup {Malformed}, in \in ItemInputs : Submit(r, "update", x, in, "get")

ArriveDeleteItem(r) ==
    \E x \in Items \cup {Malformed} : Submit(r, "delete", x, Blank, "row")

GetItem(r) == r \in ItemRequests /\ Step(r, "get", RowOutcome(r, "item_not_found"))

CategoryOutcome(r) ==
    IF req[r].new.category = Malformed THEN "invalid_request"
    ELSE IF req[r].new.category # None /\ ~Present(req[r].new.category)
         THEN "category_not_found" ELSE "ok"

CategoryExists(r) == Step(r, "category", CategoryOutcome(r))

AssetTagExists(r) ==
    r \in ItemRequests /\ Step(r, "exists", LabelOutcome(r, "asset_tag_conflict"))

\* UPDATE and DELETE find no row.
LockItem(r) == r \in ItemRequests /\ Step(r, "row", RowOutcome(r, "item_not_found"))

\* mapItemWriteError, by the constraint that failed.
EnterAssetTag(r) ==
    r \in ItemRequests /\ Step(r, "label", LabelOutcome(r, "asset_tag_conflict"))

SerialOutcome(r) == IF Taken(r, "serial") THEN "serial_number_conflict" ELSE "ok"

EnterSerialNumber(r) == Step(r, "serial", SerialOutcome(r))

ReferenceOutcome(r) ==
    IF NeedsReference(r) /\ ~Present(req[r].new.category) THEN "category_not_found" ELSE "ok"

CheckCategoryReference(r) == Step(r, "reference", ReferenceOutcome(r))

ItemUseOutcome(r) == IF req[r].row \in lent THEN "item_in_use" ELSE "ok"

ProbeCheckouts(r) == r \in ItemRequests /\ Step(r, "probe", ItemUseOutcome(r))

-------------------------------------------------------------------------------
(* Categories. *)

ArriveCreateCategory(r) == \E in \in CategoryInputs : Submit(r, "create", r, in, "exists")

ArriveUpdateCategory(r) ==
    \E x \in Categories \cup {Malformed}, in \in CategoryInputs :
        Submit(r, "update", x, in, "get")

ArriveDeleteCategory(r) ==
    \E x \in Categories \cup {Malformed} : Submit(r, "delete", x, Blank, "row")

GetCategory(r) ==
    r \in CategoryRequests /\ Step(r, "get", RowOutcome(r, "category_not_found"))

CategoryNameExists(r) ==
    r \in CategoryRequests /\ Step(r, "exists", LabelOutcome(r, "category_name_conflict"))

LockCategory(r) ==
    r \in CategoryRequests /\ Step(r, "row", RowOutcome(r, "category_not_found"))

EnterCategoryName(r) ==
    r \in CategoryRequests /\ Step(r, "label", LabelOutcome(r, "category_name_conflict"))

\* ON DELETE RESTRICT answers at the first item that refers to the category; a
\* row that another write may take away or change makes it wait.
CategoryUseOutcome(r) == IF Referring(req[r].row) = {} THEN "ok" ELSE "category_in_use"

ProbeItems(r) == r \in CategoryRequests /\ Step(r, "probe", CategoryUseOutcome(r))

-------------------------------------------------------------------------------
(* The end of a write, and what can go wrong. *)

Granted(op) ==
    CASE op = "create" -> "created" [] op = "update" -> "updated" [] op = "delete" -> "deleted"

TakeEffect(r) ==
    rows' = [rows EXCEPT ![req[r].row] = IF req[r].op = "delete" THEN None ELSE req[r].new]

Commit(r) ==
    /\ pc[r] = "commit"
    /\ TakeEffect(r)
    /\ Finish(r, Granted(req[r].op))
    /\ UNCHANGED <<lent, req, faults>>

\* The statement took effect, its answer got lost.
CommitUnacknowledged(r) ==
    /\ pc[r] = "commit" /\ faults < MaxFaults
    /\ TakeEffect(r)
    /\ Finish(r, "internal_error")
    /\ faults' = faults + 1
    /\ UNCHANGED <<lent, req>>

\* A statement fails, or the request's deadline passes.
Abort(r) ==
    /\ pc[r] \notin {"new", "done"} /\ faults < MaxFaults
    /\ Finish(r, "internal_error")
    /\ faults' = faults + 1
    /\ UNCHANGED <<rows, lent, req>>

\* PostgreSQL breaks a cycle of waits by failing the statement of a member.
DeadlockAbort(r) ==
    /\ \E cycle \in SUBSET Requests :
          /\ r \in cycle
          /\ \A s \in cycle : Blockers(s) \cap cycle # {}
          /\ \A s \in cycle : \E t \in cycle : s \in Blockers(t)
    /\ Finish(r, "internal_error")
    /\ UNCHANGED <<rows, lent, req, faults>>

\* A checkout of an item, whose transaction waits for the writes of the item.
Lend(i) ==
    /\ Present(i) /\ i \notin lent
    /\ \A s \in Requests : ~(Holding(s) /\ req[s].row = i)
    /\ lent' = lent \cup {i}
    /\ UNCHANGED <<rows, pc, req, answer, faults>>

Init ==
    /\ rows = SeededRows
    /\ lent = {}
    /\ pc = [r \in Requests |-> "new"]
    /\ req = [r \in Requests |-> None]
    /\ answer = [r \in Requests |-> "pending"]
    /\ faults = 0

ArriveItem(r) == ArriveCreateItem(r) \/ ArriveUpdateItem(r) \/ ArriveDeleteItem(r)

ArriveCategory(r) ==
    ArriveCreateCategory(r) \/ ArriveUpdateCategory(r) \/ ArriveDeleteCategory(r)

Write(r) ==
    \/ LockItem(r) \/ EnterAssetTag(r) \/ EnterSerialNumber(r)
    \/ CheckCategoryReference(r) \/ ProbeCheckouts(r)
    \/ LockCategory(r) \/ EnterCategoryName(r) \/ ProbeItems(r)
    \/ Commit(r) \/ DeadlockAbort(r)

Proceed(r) ==
    \/ GetItem(r) \/ CategoryExists(r) \/ AssetTagExists(r)
    \/ GetCategory(r) \/ CategoryNameExists(r)
    \/ Write(r)

Fail(r) == Abort(r) \/ CommitUnacknowledged(r)

\* Every request was answered: the only state in which nothing need happen.
Terminated == (\A r \in Requests : pc[r] = "done") /\ UNCHANGED vars

Next ==
    \/ \E r \in ItemRequests : ArriveItem(r)
    \/ \E r \in CategoryRequests : ArriveCategory(r)
    \/ \E r \in Requests : Proceed(r) \/ Fail(r)
    \/ \E i \in Items : Lend(i)
    \/ Terminated

Spec == Init /\ [][Next]_vars

-------------------------------------------------------------------------------
(* Correctness. *)

\* Contents the columns accept (ck_items_asset_tag_not_blank, fk_items_category).
Stored == {in \in Contents : Malformed \notin {in.label, in.category}}

\* Every variable has the shape the schema and the services give it.
TypeOK ==
    /\ rows \in [Items \cup Categories -> Stored \cup {None}]
    /\ \A c \in Categories : Present(c) => rows[c] \in CategoryInputs
    /\ lent \subseteq Items
    /\ pc \in [Requests -> Steps]
    /\ req \in [Requests -> Input \cup {None}]
    /\ answer \in [Requests -> Answers]
    /\ faults \in 0..MaxFaults

\* However the checks race with the writes, tags, serial numbers and names stay
\* unique, an item's category exists and a lent item is not deleted
\* (item.go:46-70, 116-147, 160-170; category.go:44-61, 145-154).
CatalogConsistent ==
    /\ Consistent(rows)
    /\ \A i \in lent : Present(i)

\* A request takes effect at one instant at which nothing speaks against it, or
\* its refusal is true at the instant it is decided, whichever of the reads and
\* constraints decides it (item.go:37-172, 224-240; category.go:34-157, 181-189).
Abstract == INSTANCE Catalog WITH asked <- req, told <- answer
ImplementsCatalog == Abstract!Spec

-------------------------------------------------------------------------------
(* The inductive invariant: why the catalog is consistent.  What a write    *)
(* found at one of its steps stays true until it ends, because every write  *)
(* that could change it waits.                                              *)

\* No two writes hold a row, an index entry, or a category one of them is about
\* to refer to and the other to take away.
ExclusionInv ==
    \A r, s \in Requests : r # s =>
        /\ Holding(r) /\ Holding(s) => req[r].row # req[s].row
        /\ KeysHeld(r) \cap KeysHeld(s) = {}
        /\ KeyShared(r) \cap Exclusive(s) = {}

\* What r asks for, and that it is at a step of such a request.
InputInv(r) ==
    LET in == req[r]
        write == in.op # "delete"
    IN  /\ pc[r] = "done" <=> answer[r] # "pending"
        /\ pc[r] = "new" <=> in = None
        /\ pc[r] # "new" => in \in Input
        /\ pc[r] \notin {"new", "done"} =>
              /\ in.row \in IF r \in ItemRequests THEN Items ELSE Categories
              /\ in.op = "create" => in.row = r
              /\ in.new \in IF ~write THEN {Blank}
                             ELSE IF r \in ItemRequests THEN ItemInputs ELSE CategoryInputs
              /\ in.new.label # Malformed
        /\ pc[r] = "get" => in.op = "update"
        /\ pc[r] \in {"category", "exists", "label", "serial", "reference"} => write
        /\ pc[r] \in {"category", "serial", "reference"} => r \in ItemRequests
        /\ pc[r] = "row" => in.op # "create"
        /\ pc[r] = "probe" => ~write
        /\ pc[r] \in {"exists", "row", "label", "serial", "reference", "commit"} =>
              in.new.category # Malformed

\* What r knows of the rows.
KnowledgeInv(r) ==
    LET in == req[r]
        write == in.op # "delete"
    IN  /\ pc[r] # "done" => rows[r] = None
        /\ Holding(r) /\ in.op # "create" => Present(in.row)
        /\ pc[r] \in {"serial", "reference", "commit"} /\ write => ~Taken(r, "label")
        /\ pc[r] \in {"reference", "commit"} /\ write => ~Taken(r, "serial")
        /\ pc[r] = "commit" /\ write /\ NeedsReference(r) => Present(in.new.category)
        /\ pc[r] = "commit" /\ ~write =>
              IF r \in ItemRequests THEN in.row \notin lent ELSE Referring(in.row) = {}

CatalogInv ==
    /\ TypeOK
    /\ CatalogConsistent
    /\ ExclusionInv
    /\ \A r \in Requests : InputInv(r) /\ KnowledgeInv(r)

===============================================================================
