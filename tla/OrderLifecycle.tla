---------------------------- MODULE OrderLifecycle ----------------------------
(***************************************************************************)
(* What the engine promises of every order (OrderStatus in model/types.rs):*)
(* it becomes known once, its fills only grow, up to its quantity, it ends *)
(* at most once, and it never works again.  Several orders may move in one *)
(* step.                                                                   *)
(***************************************************************************)
EXTENDS Naturals

CONSTANT Orders

VARIABLES status,     \* "Unknown" before the order manager has seen the order
          filled,     \* filled_quantity
          quantity    \* the order's quantity, which risk checks may set before it works

Working == {"New", "Submitted", "PartiallyFilled"}
Ended   == {"Filled", "Cancelled", "Expired", "Rejected"}

Init == status = [i \in Orders |-> "Unknown"] /\ filled = [i \in Orders |-> 0]

\* Order i is not touched.
Rests(i) == status'[i] = status[i] /\ filled'[i] = filled[i]

\* Order i is accepted, or is refused at once.
Appears(i) ==
    /\ status[i] = "Unknown"
    /\ status'[i] \in {"New", "Rejected"}
    /\ filled'[i] = 0

\* Order i fills further, in part or for good.
Fills(i) ==
    /\ status[i] \in Working
    /\ filled'[i] > filled[i] /\ filled'[i] <= quantity[i]
    /\ status'[i] = IF filled'[i] = quantity[i] THEN "Filled" ELSE "PartiallyFilled"

\* Order i ends without filling further; a rejection reports no fill at all.
Ends(i) ==
    /\ status[i] \in Working
    /\ status'[i] \in Ended \ {"Filled"}
    /\ filled'[i] = IF status'[i] = "Rejected" THEN 0 ELSE filled[i]

Next == \A i \in Orders : Rests(i) \/ Appears(i) \/ Fills(i) \/ Ends(i)

Spec == Init /\ [][Next]_<<status, filled>>
=============================================================================
