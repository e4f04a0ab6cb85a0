----------------------------- MODULE OrderManager -----------------------------
(***************************************************************************)
(* The order manager under callers in any order: one action per public     *)
(* method of OrderManager (order_manager.rs), with the settlement's direct *)
(* change of its lists.  It asks whether the OCO index, the bracket plans  *)
(* and the order lists stay consistent whatever the engine's stages do     *)
(* between two calls.                                                      *)
(***************************************************************************)
EXTENDS OrderRegistry

CONSTANTS
    BracketGroup,    \* group key of a bracket: "bracket-<entry id>-exit-oco"
    Entries,         \* orders place_bracket submits: the only ones with a bracket plan
    Quantities,      \* filled quantities a report may carry
    KeysAreFresh,    \* TRUE: a group key in use is registered again only for its own orders
    MaxRows          \* bound: rows of one id in the history

ASSUME BracketGroupAssumption == BracketGroup \in [OrderIds -> GroupIds]
ASSUME BracketKeysAssumption ==
    \A i, j \in OrderIds : BracketGroup[i] = BracketGroup[j] => i = j
ASSUME EntriesAssumption == Entries \subseteq OrderIds
ASSUME QuantitiesAssumption == Quantities \subseteq Nat
ASSUME KeysAreFreshAssumption == KeysAreFresh \in BOOLEAN
ASSUME MaxRowsAssumption == MaxRows \in Nat

VARIABLES om,        \* the OrderManager
          planned    \* entries whose plan was registered: place_bracket does it once

vars == <<om, planned>>

\* The keys callers of register_oco_group pick: place_oco's group_id, or its
\* default "oco-<seq>", where every strategy counts its own seq.
CallerGroups == GroupIds \ {BracketGroup[i] : i \in OrderIds}

\* No order but a and b is in group g.
FreeFor(g, a, b) == om.oco.members[g] \subseteq {a, b}

\* No trace of i in the registry: its uuid was just drawn.
Fresh(i) ==
    /\ om.status[i] = Absent /\ om.history[i] = <<>>
    /\ om.oco.groupOf[i] = NoGroup
    /\ om.plans[i] = {} /\ i \notin Entries

Init ==
    /\ om = EmptyRegistry
    /\ planned = {}

RegisterOcoGroup(g, a, b) ==
    /\ g \in CallerGroups
    /\ KeysAreFresh => FreeFor(g, a, b)
    /\ om' = [om EXCEPT !.oco = RegisterOco(om.oco, g, a, b)]
    /\ UNCHANGED planned

RegisterBracketPlan(i, exits) ==
    /\ i \in Entries \ planned
    /\ om' = RegisterPlan(om, i, exits)
    /\ planned' = planned \cup {i}

AddActiveOrder(i) ==
    /\ om.status[i] = Absent /\ om.history[i] = <<>>
    /\ om' = AddActive(om, i)
    /\ UNCHANGED planned

OnExecutionReport(i, status, filled) ==
    /\ Len(om.history[i]) < MaxRows
    /\ om' = OnReport(om, i, status, filled)
    /\ UNCHANGED planned

CancelActiveOrder(i) ==
    /\ om' = CancelActive(om, i)
    /\ UNCHANGED planned

ConsumeOcoPeerCancelsOnFill(i) ==
    /\ om' = [om EXCEPT !.oco = ConsumePeers(om.oco, i)]
    /\ UNCHANGED planned

ConsumeBracketActivationOnFill(i, stop, target) ==
    /\ om.plans[i] # {}
    /\ Fresh(stop) /\ Fresh(target) /\ stop # target
    /\ om' = ActivateBracket(om, i, BracketGroup[i], stop, target)
    /\ UNCHANGED planned

CleanupFinishedOrders ==
    /\ om' = Cleanup(om)
    /\ UNCHANGED planned

SettleDayOrders(S) ==
    /\ \A i \in S : om.status[i] # Absent /\ Len(om.history[i]) < MaxRows
    /\ om' = ExpireAtSettlement(om, S)
    /\ UNCHANGED planned

Next ==
    \/ \E g \in GroupIds, a, b \in OrderIds : RegisterOcoGroup(g, a, b)
    \/ \E i \in OrderIds, exits \in SUBSET Exits : RegisterBracketPlan(i, exits)
    \/ \E i \in OrderIds :
          \/ AddActiveOrder(i)
          \/ CancelActiveOrder(i)
          \/ ConsumeOcoPeerCancelsOnFill(i)
    \/ \E i \in OrderIds, status \in Status, filled \in Quantities :
          OnExecutionReport(i, status, filled)
    \/ \E i, stop, target \in OrderIds : ConsumeBracketActivationOnFill(i, stop, target)
    \/ CleanupFinishedOrders
    \/ \E S \in SUBSET OrderIds : SettleDayOrders(S)

Spec == Init /\ [][Next]_vars

-----------------------------------------------------------------------------
(***************************************************************************)
(* Properties                                                              *)
(***************************************************************************)

\* The registry keeps its type.
TypeOK ==
    /\ om \in RegistryType
    /\ planned \subseteq Entries

\* oco_order_to_group is the reverse index of oco_groups: an order points to a
\* group exactly when it is a member of it.
ReverseIndexExact(oco) ==
    \A i \in OrderIds, g \in GroupIds : oco.groupOf[i] = g <=> i \in oco.members[g]

\* A stored group holds exactly two orders.
GroupsArePairs(oco) ==
    \A g \in GroupIds :
        \/ oco.members[g] = {}
        \/ \E a, b \in OrderIds : a # b /\ oco.members[g] = {a, b}

\* The two OCO maps agree: no order is left alone in a group after its peer
\* closed, and no entry points to a group somebody else overwrote.
\* consume_oco_peer_cancels_on_fill looks the group up in one map and the peers
\* in the other, so a stale entry cancels the orders of somebody else.
OcoIndex == ReverseIndexExact(om.oco) /\ GroupsArePairs(om.oco)

\* The cancel instruction a fill gives is never one-sided: an order is asked to
\* cancel exactly the order that would be asked to cancel it.
PeersAreMutual ==
    \A a, b \in OrderIds :
        b \in Peers(om.oco, a) => a # b /\ Peers(om.oco, b) = {a}

\* The OCO group of a bracket's exits is not in use before the entry's plan is
\* consumed, so binding the exits overwrites nobody; and only the plan of an
\* entry place_bracket registered can be consumed.
BracketKeyUnused ==
    \A i \in OrderIds :
        /\ om.plans[i] # {} => i \in planned
        /\ om.plans[i] # {} \/ i \notin planned
              => om.oco.members[BracketGroup[i]] = {}

\* A cleanup leaves no order that closed without a fill bound to a peer: a
\* later fill of the peer would ask to cancel an order that is in the history.
CleanupUnbinds ==
    [][om' = Cleanup(om) =>
         \A i \in OrderIds :
            om.status[i] \in Finished \ {"Filled"} =>
                /\ om'.oco.groupOf[i] = NoGroup
                /\ \A j \in OrderIds : i \notin Peers(om'.oco, j)]_vars
=============================================================================
