---------------------------- MODULE MCOrderManager ----------------------------
(***************************************************************************)
(* TLC instance of OrderManager: a few orders, two keys that callers use   *)
(* and one key per bracket entry.                                          *)
(***************************************************************************)
EXTENDS OrderManager, TLC

CONSTANTS o1, o2, o3, o4, k1, k2

MCOrderIds == {o1, o2, o3}
MCFourOrderIds == {o1, o2, o3, o4}
MCBracketGroup == [i \in OrderIds |-> <<"bracket", i>>]
MCGroupIds == {k1, k2} \cup {<<"bracket", i>> : i \in OrderIds}

MCEntries == {o1}
MCNoEntries == {}

Symmetry == Permutations(OrderIds \ {o1}) \cup Permutations({k1, k2})
=============================================================================
