--------------------------- MODULE EquipmentLedger ---------------------------
(***************************************************************************)
(* What the checkout system promises, with no transactions, locks, errors  *)
(* or callers in it: every item is lent to at most one active borrower at  *)
(* a time, a loan ends once, and an item that was ever lent stays on the   *)
(* books.  CheckoutWorkflow, the model of the code, implements this.       *)
(***************************************************************************)
CONSTANTS Users, Items, Loans

VARIABLES
    open,       \* [Items -> SUBSET Loans]: the loans of the item not yet ended
    closed,     \* [Items -> SUBSET Loans]: the loans of the item that ended
    present,    \* the items that can be lent or are lent
    enabled     \* the users whose account is active

vars == <<open, closed, present, enabled>>

Unused(l) == \A i \in Items : l \notin open[i] \cup closed[i]

Init ==
    /\ open = [i \in Items |-> {}]
    /\ closed = [i \in Items |-> {}]
    /\ present \in SUBSET Items
    /\ enabled \in SUBSET Users

Lend(l, i, u) ==
    /\ Unused(l)
    /\ i \in present
    /\ open[i] = {}
    /\ u \in enabled
    /\ open' = [open EXCEPT ![i] = {l}]
    /\ UNCHANGED <<closed, present, enabled>>

TakeBack(l, i) ==
    /\ l \in open[i]
    /\ open' = [open EXCEPT ![i] = @ \ {l}]
    /\ closed' = [closed EXCEPT ![i] = @ \cup {l}]
    /\ UNCHANGED <<present, enabled>>

Withdraw(i) ==
    /\ i \in present
    /\ open[i] \cup closed[i] = {}
    /\ present' = present \ {i}
    /\ UNCHANGED <<open, closed, enabled>>

SetActive(u, enable) ==
    /\ enabled' = IF enable THEN enabled \cup {u} ELSE enabled \ {u}
    /\ UNCHANGED <<open, closed, present>>

Next ==
    \/ \E l \in Loans, i \in Items, u \in Users : Lend(l, i, u)
    \/ \E l \in Loans, i \in Items : TakeBack(l, i)
    \/ \E i \in Items : Withdraw(i)
    \/ \E u \in Users, enable \in BOOLEAN : SetActive(u, enable)

Spec == Init /\ [][Next]_vars
===============================================================================
