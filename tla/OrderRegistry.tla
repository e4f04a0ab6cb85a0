---------------------------- MODULE OrderRegistry ----------------------------
(***************************************************************************)
(* The data of the order manager (order_manager.rs) and its operations, as *)
(* operators from one registry to the next.  OrderManager lets any caller  *)
(* use them in any order; BacktestPipeline composes them the way the       *)
(* engine's stages do.                                                     *)
(*                                                                         *)
(* `active_orders` is a Vec searched by id.  An id enters it once (ids are *)
(* uuids, and add_active_order and on_execution_report push an id that is  *)
(* not there), so the Vec is a function of the id, "Absent" when the id    *)
(* has no element.  `orders`, the history, is a Vec to which an id may be  *)
(* moved more than once: history[i] is the sequence of the rows of id i.   *)
(***************************************************************************)
EXTENDS Naturals, Sequences, FiniteSets

CONSTANTS OrderIds,     \* order ids (uuids)
          GroupIds,     \* keys of oco_groups
          NoGroup       \* "no entry" in oco_order_to_group

ASSUME NoGroupAssumption == NoGroup \notin GroupIds

Live     == {"New", "Submitted", "PartiallyFilled"}
Finished == {"Filled", "Cancelled", "Expired", "Rejected"}
Status   == Live \cup Finished
Absent   == "Absent"

\* The exits a bracket plan asks for: stop_trigger_price and take_profit_price.
Exits == {"StopLoss", "TakeProfit"}

Row == [status : Status, filled : Nat]

OcoType == [members : [GroupIds -> SUBSET OrderIds],
            groupOf : [OrderIds -> GroupIds \cup {NoGroup}]]

RegistryType == [status  : [OrderIds -> Status \cup {Absent}],
                 filled  : [OrderIds -> Nat],
                 history : [OrderIds -> Seq(Row)],
                 oco     : OcoType,
                 plans   : [OrderIds -> SUBSET Exits]]

EmptyOco == [members |-> [g \in GroupIds |-> {}],
             groupOf |-> [i \in OrderIds |-> NoGroup]]

EmptyRegistry == [status  |-> [i \in OrderIds |-> Absent],
                  filled  |-> [i \in OrderIds |-> 0],
                  history |-> [i \in OrderIds |-> <<>>],
                  oco     |-> EmptyOco,
                  plans   |-> [i \in OrderIds |-> {}]]

-----------------------------------------------------------------------------
(***************************************************************************)
(* One-cancels-the-other groups.  A group absent from the map is the empty *)
(* set: a stored group always has members.                                 *)
(***************************************************************************)

\* The members of g that leave it when the orders of S are detached.
Leaving(oco, S, g) == {i \in S \cap oco.members[g] : oco.groupOf[i] = g}

\* What is left of g: a group of one is dissolved.
Remaining(oco, S, g) ==
    LET rest == oco.members[g] \ Leaving(oco, S, g)
    IN  IF Leaving(oco, S, g) # {} /\ Cardinality(rest) <= 1 THEN {} ELSE rest

\* detach_oco_order of a set S of orders, one after the other.
Detach(oco, S) ==
    [members |-> [g \in GroupIds |-> Remaining(oco, S, g)],
     groupOf |-> [i \in OrderIds |->
        IF \/ i \in S
           \/ \E g \in GroupIds : i \in oco.members[g] /\ Remaining(oco, S, g) = {}
        THEN NoGroup ELSE oco.groupOf[i]]]

\* A register_oco_group that leaves the two orders in their old groups.
RegisterOcoKeepingOld(oco, g, a, b) ==
    IF a = b THEN oco
    ELSE [members |-> [oco.members EXCEPT ![g] = {a, b}],
          groupOf |-> [oco.groupOf EXCEPT ![a] = g, ![b] = g]]

\* register_oco_group: both orders leave their old groups, then g is overwritten.
RegisterOco(oco, g, a, b) ==
    IF a = b THEN oco
    ELSE LET free == Detach(oco, {a, b})
         IN  [members |-> [free.members EXCEPT ![g] = {a, b}],
              groupOf |-> [free.groupOf EXCEPT ![a] = g, ![b] = g]]

\* The orders consume_oco_peer_cancels_on_fill tells its caller to cancel.
Peers(oco, i) ==
    IF oco.groupOf[i] = NoGroup THEN {} ELSE oco.members[oco.groupOf[i]] \ {i}

\* consume_oco_peer_cancels_on_fill: the group and its members' entries go; an
\* entry that points to no group goes alone.
ConsumePeers(oco, i) ==
    IF oco.groupOf[i] = NoGroup THEN oco
    ELSE LET g == oco.groupOf[i]
             gone == IF oco.members[g] = {} THEN {i} ELSE oco.members[g]
         IN  [members |-> [oco.members EXCEPT ![g] = {}],
              groupOf |-> [x \in OrderIds |->
                              IF x \in gone THEN NoGroup ELSE oco.groupOf[x]]]

-----------------------------------------------------------------------------
(***************************************************************************)
(* Orders: active copies, history, bracket plans.                          *)
(***************************************************************************)

\* The first element with id i of orders ++ active_orders, the history first.
Snapshot(om, i) ==
    IF om.history[i] # <<>> THEN Head(om.history[i])
    ELSE [status |-> om.status[i], filled |-> om.filled[i]]

\* add_active_order (an OrderValidated event; the order is New).
AddActive(om, i) == [om EXCEPT !.status[i] = "New", !.filled[i] = 0]

\* on_execution_report: update the active copy, or keep a snapshot of an order
\* not seen before unless it comes Cancelled or Expired.  An order that closes
\* without a fill leaves its OCO group and loses its bracket plan.
OnReport(om, i, status, filled) ==
    LET known  == om.status[i] # Absent
        closed == status = "Rejected" \/ (known /\ status \in {"Cancelled", "Expired"})
    IN  IF ~known /\ status \in {"Cancelled", "Expired"} THEN om
        ELSE [om EXCEPT !.status[i] = status,
                        !.filled[i] = filled,
                        !.oco = IF closed THEN Detach(@, {i}) ELSE @,
                        !.plans[i] = IF closed THEN {} ELSE @]

\* cancel_active_order: only a live order; its plan stays until the cleanup.
CancelActive(om, i) ==
    IF om.status[i] \in Live
    THEN [om EXCEPT !.status[i] = "Cancelled", !.oco = Detach(@, {i})]
    ELSE om

\* cancel_active_order of each order of S.
CancelEach(om, S) ==
    [om EXCEPT !.status = [i \in OrderIds |-> IF i \in S /\ @[i] \in Live
                                             THEN "Cancelled" ELSE @[i]],
               !.oco = Detach(@, {i \in S : om.status[i] \in Live})]

\* register_bracket_plan: ignored when it asks for no exit.
RegisterPlan(om, i, exits) ==
    IF exits = {} THEN om ELSE [om EXCEPT !.plans[i] = exits]

\* An activation that leaves the plan in place, and one that binds no exits.
ActivateBracketKeepingPlan(om, i, g, stop, target) ==
    [om EXCEPT !.oco = IF om.plans[i] = Exits THEN RegisterOco(@, g, stop, target) ELSE @]
ActivateBracketUnbound(om, i, g, stop, target) == [om EXCEPT !.plans[i] = {}]

\* consume_bracket_activation_on_fill: the plan goes, and its two exits, when
\* it asks for both, are bound one-cancels-the-other.
ActivateBracket(om, i, g, stop, target) ==
    [om EXCEPT !.plans[i] = {},
               !.oco = IF om.plans[i] = Exits THEN RegisterOco(@, g, stop, target)
                       ELSE @]

\* The orders of done move to the history; those of lost leave their OCO group
\* and lose their plan.
Archive(om, done, lost) ==
    [status  |-> [i \in OrderIds |-> IF i \in done THEN Absent ELSE om.status[i]],
     filled  |-> [i \in OrderIds |-> IF i \in done THEN 0 ELSE om.filled[i]],
     history |-> [i \in OrderIds |->
                    IF i \in done
                    THEN Append(om.history[i],
                                [status |-> om.status[i], filled |-> om.filled[i]])
                    ELSE om.history[i]],
     oco     |-> Detach(om.oco, lost),
     plans   |-> [i \in OrderIds |-> IF i \in lost THEN {} ELSE om.plans[i]]]

\* A variant for checking: a cleanup that leaves the OCO groups alone.
CleanupKeepingOco(om) == Archive(om, {i \in OrderIds : om.status[i] \in Finished}, {})

\* cleanup_finished_orders: those that did not fill are lost.
Cleanup(om) ==
    Archive(om, {i \in OrderIds : om.status[i] \in Finished},
                {i \in OrderIds : om.status[i] \in Finished \ {"Filled"}})

\* Day-order expiry of the daily settlement (settlement/manager.rs) and the push
\* to the history in the data stage: it moves the orders of S out of the active
\* list and into the history as Expired, past the order manager's own methods.
ExpireAtSettlement(om, S) ==
    [om EXCEPT !.status  = [i \in OrderIds |-> IF i \in S THEN Absent ELSE @[i]],
               !.filled  = [i \in OrderIds |-> IF i \in S THEN 0 ELSE @[i]],
               !.history = [i \in OrderIds |->
                              IF i \in S
                              THEN Append(@[i], [status |-> "Expired",
                                                 filled |-> om.filled[i]])
                              ELSE @[i]]]
=============================================================================
