------------------------------- MODULE Catalog -------------------------------
(***************************************************************************)
(* What the item and category endpoints promise: each request takes effect *)
(* at once or is refused for a reason that holds at that moment.  Tags,    *)
(* serial numbers and category names are unique, a reference points to a   *)
(* row, a referenced row is not deleted.  Which statements achieve this is *)
(* ItemCatalog's business.                                                 *)
(***************************************************************************)
CONSTANTS
    Items,             \* rows of the items table, present or not
    Categories,        \* rows of the categories table
    ItemRequests,
    CategoryRequests,
    ItemInputs,        \* bodies of item requests: label, serial, category
    CategoryInputs,    \* bodies of category requests: a label, the name
    Malformed,         \* an id or a label that no validation lets pass
    None               \* SQL NULL, a row that does not exist

Requests == ItemRequests \cup CategoryRequests
Contents == ItemInputs \cup CategoryInputs

Blank == [label |-> None, serial |-> None, category |-> None]

Input ==
    [op : {"create", "update", "delete"},
     row : Items \cup Categories \cup {Malformed},
     new : Contents \cup {Blank}]

VARIABLES
    rows,    \* the contents of each row
    lent,    \* items that other records refer to
    asked,   \* what a request asks for
    told     \* what its client was told

vars == <<rows, lent, asked, told>>

TableOf(x) == IF x \in Items THEN Items ELSE Categories

\* Another row of the table has the value this request wants.
Taken(r, column) ==
    /\ asked[r].new[column] # None
    /\ \E x \in TableOf(asked[r].row) \ {asked[r].row} :
          rows[x] # None /\ rows[x][column] = asked[r].new[column]

Writes(r) == asked[r].op \in {"create", "update"}
Missing(r) == asked[r].op # "create" /\ rows[asked[r].row] = None

\* When an answer that refuses request r is true.
Reason(r, answer) ==
    LET item == r \in ItemRequests
    IN  CASE answer = "item_not_found" -> item /\ Missing(r)
          [] answer = "item_in_use" ->
                item /\ asked[r].op = "delete" /\ asked[r].row \in lent
          [] answer = "asset_tag_conflict" -> item /\ Writes(r) /\ Taken(r, "label")
          [] answer = "serial_number_conflict" -> item /\ Writes(r) /\ Taken(r, "serial")
          [] answer = "category_name_conflict" -> ~item /\ Writes(r) /\ Taken(r, "label")
          [] answer = "category_in_use" ->
                /\ ~item /\ asked[r].op = "delete"
                /\ \E i \in Items : rows[i] # None /\ rows[i].category = asked[r].row
          [] answer = "category_not_found" ->
                \/ ~item /\ Missing(r)
                \/ /\ Writes(r) /\ asked[r].new.category \in Categories
                   /\ rows[asked[r].new.category] = None
          [] answer = "invalid_request" -> asked[r].new.category = Malformed

Refusals ==
    {"invalid_request", "item_not_found", "item_in_use", "asset_tag_conflict", "serial_number_conflict",
     "category_name_conflict", "category_in_use", "category_not_found"}

Granted(op) ==
    CASE op = "create" -> "created" [] op = "update" -> "updated" [] op = "delete" -> "deleted"

TakeEffect(r) ==
    /\ \A answer \in Refusals : ~Reason(r, answer)
    /\ rows' = [rows EXCEPT ![asked[r].row] =
                    IF asked[r].op = "delete" THEN None ELSE asked[r].new]

Open(r) == asked[r] # None /\ told[r] = "pending"

Tell(r, answer) ==
    /\ told' = [told EXCEPT ![r] = answer]
    /\ UNCHANGED <<lent, asked>>

-------------------------------------------------------------------------------
Init ==
    /\ rows \in [Items \cup Categories -> Contents \cup {None}]
    /\ lent \subseteq {i \in Items : rows[i] # None}
    /\ asked = [r \in Requests |-> None]
    /\ told = [r \in Requests |-> "pending"]

\* A request that names no row, or gives no label, is refused as it is read.
Ask(r) ==
    /\ asked[r] = None
    /\ asked'[r] \in Input
    /\ asked' = [asked EXCEPT ![r] = asked'[r]]
    /\ told' = IF Malformed \in {asked'[r].row, asked'[r].new.label}
               THEN [told EXCEPT ![r] = "invalid_request"] ELSE told
    /\ UNCHANGED <<rows, lent>>

Succeed(r) == Open(r) /\ TakeEffect(r) /\ Tell(r, Granted(asked[r].op))

Refuse(r) ==
    /\ Open(r)
    /\ \E answer \in Refusals : Reason(r, answer) /\ Tell(r, answer)
    /\ UNCHANGED rows

\* After a failure the client does not learn whether the request took effect.
Break(r) ==
    /\ Open(r)
    /\ Tell(r, "internal_error")
    /\ UNCHANGED rows \/ TakeEffect(r)

Lend(i) ==
    /\ rows[i] # None
    /\ lent' = lent \cup {i}
    /\ UNCHANGED <<rows, asked, told>>

Next ==
    \/ \E r \in Requests : Ask(r) \/ Succeed(r) \/ Refuse(r) \/ Break(r)
    \/ \E i \in Items : Lend(i)

Spec == Init /\ [][Next]_vars
===============================================================================
