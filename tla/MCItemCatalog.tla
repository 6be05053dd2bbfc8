---------------------------- MODULE MCItemCatalog ----------------------------
(* ItemCatalog on a small instance, for TLC. *)
EXTENDS ItemCatalog, TLC

CONSTANTS i1, i2, c1, q1

Item(label, serial, category) == [label |-> label, serial |-> serial, category |-> category]

\* The two seeded contents, an unused tag with the other item's serial number
\* and the category q1 creates, a category id that is not positive, a tag of blanks.
SeededContents == {Item("a", "x", c1), Item("b", "y", None)}
SomeItems == SeededContents \cup {Item("t", "x", q1),
                               Item("t", None, Malformed), Item(Malformed, None, None)}

SomeNames == {Item(n, None, None) : n \in {"m", "n"}}

TwoItemsOneCategory ==
    (i1 :> Item("a", "x", c1)) @@ (i2 :> Item("b", "y", None)) @@ (c1 :> Item("m", None, None))

\* No constant names an item request, and no definition chooses one.
Symmetric == Permutations(ItemRequests)
===============================================================================
