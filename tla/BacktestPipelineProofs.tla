----------------------- MODULE BacktestPipelineProofs -----------------------
(***************************************************************************)
(* Proofs about the event loop of a backtest.  The invariant IInv says, in *)
(* Good, where each order may be: an order on its way is in one place (the *)
(* channel, the pending requests of a drain, or the reports a stage has    *)
(* still to apply); the client's working orders are queued once and have   *)
(* something left to trade; a report that ends an order finds it inactive  *)
(* at the client, and one that trades is as late as the order wants.  The  *)
(* lemmas follow the operators of the stages, from one report to a whole   *)
(* step of each stage.                                                     *)
(***************************************************************************)
EXTENDS BacktestPipeline, SimulatedClientProofs

-----------------------------------------------------------------------------
(***************************************************************************)
(* The order manager.                                                      *)
(***************************************************************************)

\* What operations on the order manager that bind no orders and register no plan
\* have in common.
Loosens(r, t) ==
    /\ t \in RegistryType
    /\ \A j \in OrderIds : /\ t.plans[j] \subseteq r.plans[j]
                           /\ t.oco.groupOf[j] \in {r.oco.groupOf[j], NoGroup}

LEMMA DetachTyped ==
    ASSUME NEW oco \in OcoType, NEW S
    PROVE  /\ Detach(oco, S) \in OcoType
           /\ \A j \in OrderIds : Detach(oco, S).groupOf[j] \in {oco.groupOf[j], NoGroup}
<1>1. \A g \in GroupIds : Remaining(oco, S, g) \in SUBSET OrderIds
  BY DEF Remaining, OcoType
<1> QED BY <1>1 DEF Detach, OcoType

LEMMA RegisterOcoTyped ==
    ASSUME NEW oco \in OcoType, NEW g \in GroupIds, NEW a \in OrderIds, NEW b \in OrderIds
    PROVE  RegisterOco(oco, g, a, b) \in OcoType
<1> DEFINE free == Detach(oco, {a, b})
<1>1. free \in OcoType
  BY DetachTyped
<1> HIDE DEF free
<1>2. RegisterOco(oco, g, a, b)
        \in {oco, [members |-> [free.members EXCEPT ![g] = {a, b}],
                   groupOf |-> [free.groupOf EXCEPT ![a] = g, ![b] = g]]}
  BY DEF RegisterOco, free
<1> QED BY <1>1, <1>2 DEF OcoType

LEMMA ConsumePeersTyped ==
    ASSUME NEW oco \in OcoType, NEW i \in OrderIds
    PROVE  /\ ConsumePeers(oco, i) \in OcoType /\ Peers(oco, i) \subseteq OrderIds
           /\ \A j \in OrderIds : ConsumePeers(oco, i).groupOf[j] \in {oco.groupOf[j], NoGroup}
<1>1. CASE oco.groupOf[i] = NoGroup
  BY <1>1 DEF ConsumePeers, Peers
<1>2. CASE oco.groupOf[i] # NoGroup
  BY <1>2 DEF ConsumePeers, Peers, OcoType
<1> QED BY <1>1, <1>2

\* The order manager hears a report and nothing else changes.
LEMMA OnReportLoosens ==
    ASSUME NEW r \in RegistryType, NEW i \in OrderIds, NEW status \in Status, NEW filled \in Nat,
           NEW t, t = OnReport(r, i, status, filled)
    PROVE  /\ Loosens(r, t)
           /\ t.history = r.history
           /\ \A j \in OrderIds \ {i} : t.status[j] = r.status[j] /\ t.filled[j] = r.filled[j]
           /\ IF r.status[i] = Absent /\ status \in {"Cancelled", "Expired"}
              THEN t.status[i] = Absent /\ t.filled[i] = r.filled[i]
              ELSE t.status[i] = status /\ t.filled[i] = filled
<1> DEFINE d == Detach(r.oco, {i})
           closed == status = "Rejected" \/ (r.status[i] # Absent /\ status \in {"Cancelled", "Expired"})
           oco == IF closed THEN d ELSE r.oco
           plan == IF closed THEN {} ELSE r.plans[i]
<1>1. oco \in OcoType /\ \A j \in OrderIds : oco.groupOf[j] \in {r.oco.groupOf[j], NoGroup}
  <2>1. r.oco \in OcoType
    BY DEF RegistryType
  <2>2. d \in OcoType /\ \A j \in OrderIds : d.groupOf[j] \in {r.oco.groupOf[j], NoGroup}
    BY <2>1, DetachTyped
  <2> HIDE DEF d
  <2> QED BY <2>1, <2>2
<1>2. plan \subseteq r.plans[i]
  OBVIOUS
<1>3. CASE r.status[i] = Absent /\ status \in {"Cancelled", "Expired"}
  <2>1. t = r
    BY <1>3 DEF OnReport
  <2> QED BY <2>1, <1>3 DEF Loosens
<1>4. CASE ~ (r.status[i] = Absent /\ status \in {"Cancelled", "Expired"})
  <2>1. t = [r EXCEPT !.status[i] = status, !.filled[i] = filled, !.oco = oco, !.plans[i] = plan]
    BY <1>4 DEF OnReport
  <2> HIDE DEF oco, plan
  <2>2. plan \in SUBSET Exits
    BY <1>2 DEF RegistryType
  <2> DEFINE st == [r.status EXCEPT ![i] = status]
             fi == [r.filled EXCEPT ![i] = filled]
             pl == [r.plans EXCEPT ![i] = plan]
  <2>4. st \in [OrderIds -> Status \cup {Absent}] /\ fi \in [OrderIds -> Nat]
        /\ pl \in [OrderIds -> SUBSET Exits]
    BY <2>2 DEF RegistryType
  <2>5. t = [r EXCEPT !.status = st, !.filled = fi, !.oco = oco, !.plans = pl]
    BY <2>1
  <2> HIDE DEF st, fi, pl
  <2>6. t \in RegistryType /\ t.history = r.history /\ t.oco = oco
        /\ t.status = st /\ t.filled = fi /\ t.plans = pl
    BY <2>4, <2>5, <1>1 DEF RegistryType
  <2>3. t \in RegistryType /\ t.history = r.history /\ t.oco = oco
        /\ t.status = [r.status EXCEPT ![i] = status]
        /\ t.filled = [r.filled EXCEPT ![i] = filled]
        /\ t.plans = [r.plans EXCEPT ![i] = plan]
    BY <2>6 DEF st, fi, pl
  <2> QED BY <1>1, <1>2, <1>4, <2>3 DEF Loosens, RegistryType
<1> QED BY <1>3, <1>4

LEMMA CancelEachLoosens ==
    ASSUME NEW r \in RegistryType, NEW S, NEW t, t = CancelEach(r, S)
    PROVE  /\ Loosens(r, t)
           /\ t.history = r.history /\ t.filled = r.filled /\ t.plans = r.plans
           /\ t.status = [j \in OrderIds |-> IF j \in S /\ r.status[j] \in Live
                                             THEN "Cancelled" ELSE r.status[j]]
<1> DEFINE d == Detach(r.oco, {j \in S : r.status[j] \in Live})
           st == [j \in OrderIds |-> IF j \in S /\ r.status[j] \in Live
                                     THEN "Cancelled" ELSE r.status[j]]
<1>1. d \in OcoType /\ \A j \in OrderIds : d.groupOf[j] \in {r.oco.groupOf[j], NoGroup}
  BY DetachTyped DEF RegistryType
<1>2. st \in [OrderIds -> Status \cup {Absent}]
  BY StatusFacts DEF RegistryType
<1>3. t = [r EXCEPT !.status = st, !.oco = d]
  BY DEF CancelEach
<1> HIDE DEF d, st
<1>4. t \in RegistryType /\ t.history = r.history /\ t.filled = r.filled /\ t.plans = r.plans
      /\ t.status = st /\ t.oco = d
  BY <1>1, <1>2, <1>3 DEF RegistryType
<1> QED BY <1>1, <1>4 DEF Loosens, st

\* Finite sets of ids.
LEMMA IdFacts ==
    /\ OrderIds \subseteq Nat /\ IsFiniteSet(OrderIds) /\ Cardinality(OrderIds) \in Nat
    /\ \A a, b \in Nat : /\ IsFiniteSet(a + 1 .. b)
                         /\ b <= Cardinality(OrderIds) => a + 1 .. b \subseteq OrderIds
                         /\ a <= b => Cardinality(a + 1 .. b) = b - a
<1>1. IsFiniteSet(OrderIds) /\ OrderIds = 1 .. Cardinality(OrderIds)
  BY OrderIdsAssumption
<1>2. Cardinality(OrderIds) \in Nat
  BY <1>1, FS_CardinalityType
<1>3. ASSUME NEW a \in Nat, NEW b \in Nat
      PROVE  /\ IsFiniteSet(a + 1 .. b)
             /\ b <= Cardinality(OrderIds) => a + 1 .. b \subseteq OrderIds
             /\ a <= b => Cardinality(a + 1 .. b) = b - a
  <2>1. a + 1 \in Int /\ b \in Int
    OBVIOUS
  <2>2. IsFiniteSet(a + 1 .. b)
        /\ Cardinality(a + 1 .. b) = IF a + 1 > b THEN 0 ELSE b - (a + 1) + 1
    BY <2>1, FS_Interval
  <2> HIDE DEF IsFiniteSet, Cardinality
  <2>3. b <= Cardinality(OrderIds) => a + 1 .. b \subseteq OrderIds
    BY <1>1, <1>2
  <2>4. a <= b => Cardinality(a + 1 .. b) = b - a
    BY <2>2
  <2> QED BY <2>2, <2>3, <2>4
<1>4. OrderIds \subseteq Nat
  BY <1>1, <1>2
<1> QED BY <1>1, <1>2, <1>3, <1>4

\* The exits of a registry's plans, which still have to get their ids.
LEMMA PlannedFacts ==
    ASSUME NEW r \in RegistryType
    PROVE  /\ IsFiniteSet(Planned(r)) /\ Cardinality(Planned(r)) \in Nat
           /\ \A t \in RegistryType :
                (\A j \in OrderIds : t.plans[j] \subseteq r.plans[j])
                  => Cardinality(Planned(t)) <= Cardinality(Planned(r))
<1>1. IsFiniteSet(Exits)
  <2>1. IsFiniteSet({}) /\ IsFiniteSet({} \cup {"StopLoss"})
    BY FS_EmptySet, FS_AddElement
  <2>2. IsFiniteSet(({} \cup {"StopLoss"}) \cup {"TakeProfit"})
    BY <2>1, FS_AddElement
  <2>3. ({} \cup {"StopLoss"}) \cup {"TakeProfit"} = Exits
    BY DEF Exits
  <2> QED BY <2>2, <2>3
<1>2. IsFiniteSet(OrderIds \X Exits)
  BY <1>1, IdFacts, FS_Product
<1>3. IsFiniteSet(Planned(r))
  BY <1>2, FS_Subset DEF Planned
<1>4. ASSUME NEW t \in RegistryType, \A j \in OrderIds : t.plans[j] \subseteq r.plans[j]
      PROVE  Cardinality(Planned(t)) <= Cardinality(Planned(r))
  <2>1. Planned(t) \subseteq Planned(r)
    BY <1>4 DEF Planned
  <2> QED BY <1>3, <2>1, FS_Subset
<1> QED BY <1>3, <1>4, FS_CardinalityType

\* A plan that is activated leaves as many exits as it had.
LEMMA PlanActivated ==
    ASSUME NEW r \in RegistryType, NEW i \in OrderIds, NEW t \in RegistryType,
           t.plans = [r.plans EXCEPT ![i] = {}]
    PROVE  /\ Cardinality(r.plans[i]) \in 0 .. 2
           /\ Cardinality(r.plans[i]) = 2 <=> r.plans[i] = Exits
           /\ Cardinality(r.plans[i]) = 0 <=> r.plans[i] = {}
           /\ Cardinality(r.plans[i]) + Cardinality(Planned(t)) <= Cardinality(Planned(r))
<1>1. r.plans[i] \in {{}, {"StopLoss"}, {"TakeProfit"}, Exits}
  <2> DEFINE p == r.plans[i]
  <2>1. p \in SUBSET Exits
    BY DEF RegistryType
  <2> HIDE DEF p
  <2>2. p \subseteq {"StopLoss", "TakeProfit"}
    BY <2>1 DEF Exits
  <2>3. CASE "StopLoss" \in p /\ "TakeProfit" \in p
    <3>1. p = Exits
      BY <2>2, <2>3 DEF Exits
    <3> QED BY <3>1 DEF p
  <2>4. CASE "StopLoss" \in p /\ "TakeProfit" \notin p
    <3>1. p = {"StopLoss"}
      BY <2>2, <2>4
    <3> QED BY <3>1 DEF p
  <2>5. CASE "StopLoss" \notin p /\ "TakeProfit" \in p
    <3>1. p = {"TakeProfit"}
      BY <2>2, <2>5
    <3> QED BY <3>1 DEF p
  <2>6. CASE "StopLoss" \notin p /\ "TakeProfit" \notin p
    <3>1. p = {}
      BY <2>2, <2>6
    <3> QED BY <3>1 DEF p
  <2> QED BY <2>3, <2>4, <2>5, <2>6 DEF p
<1>2. IsFiniteSet(Planned(r)) /\ Cardinality(Planned(r)) \in Nat
  BY PlannedFacts
<1> DEFINE a == <<i, "StopLoss">>
           b == <<i, "TakeProfit">>
           P == Planned(r)
<1>3. a # b
  OBVIOUS
<1>4. \A e \in Exits : <<i, e>> \in P <=> e \in r.plans[i]
  BY DEF Planned
<1>5. Planned(t) = (P \ {a}) \ {b}
  <2>1. \A j \in OrderIds, e \in Exits : e \in t.plans[j] <=> e \in r.plans[j] /\ j # i
    BY DEF RegistryType
  <2> QED BY <2>1 DEF Planned, Exits
<1>6. \A x, y : x # y => Cardinality({}) = 0 /\ Cardinality({x}) = 1 /\ Cardinality({x, y}) = 2
  <2> TAKE x, y
  <2>1. Cardinality({}) = 0 /\ IsFiniteSet({}) /\ IsFiniteSet({x}) /\ Cardinality({x}) = 1
    BY FS_EmptySet, FS_Singleton
  <2>2. x # y => Cardinality({x} \cup {y}) = Cardinality({x}) + 1
    BY <2>1, FS_AddElement
  <2>3. {x} \cup {y} = {x, y}
    OBVIOUS
  <2> QED BY <2>1, <2>2, <2>3
<1>7. /\ Cardinality({}) = 0 /\ Cardinality({"StopLoss"}) = 1 /\ Cardinality({"TakeProfit"}) = 1
      /\ Cardinality(Exits) = 2
  BY <1>6, "StopLoss" # "TakeProfit" DEF Exits
<1> HIDE DEF a, b, P
<1>8. /\ IsFiniteSet(P \ {a})
      /\ Cardinality(P \ {a}) = IF a \in P THEN Cardinality(P) - 1 ELSE Cardinality(P)
      /\ Cardinality((P \ {a}) \ {b})
           = IF b \in P \ {a} THEN Cardinality(P \ {a}) - 1 ELSE Cardinality(P \ {a})
  BY <1>2, FS_RemoveElement DEF P
<1>9. (a \in P <=> "StopLoss" \in r.plans[i]) /\ (b \in P \ {a} <=> "TakeProfit" \in r.plans[i])
  BY <1>3, <1>4 DEF a, b, Exits
<1>10. Cardinality(P) \in Nat
  BY <1>2 DEF P
<1>11. "StopLoss" # "TakeProfit" /\ {"StopLoss"} # Exits /\ {"TakeProfit"} # Exits
       /\ "StopLoss" \in Exits /\ "TakeProfit" \in Exits
  BY DEF Exits
<1>12. CASE r.plans[i] = {}
  BY <1>5, <1>7, <1>8, <1>9, <1>10, <1>11, <1>12 DEF P
<1>13. CASE r.plans[i] = {"StopLoss"}
  BY <1>5, <1>7, <1>8, <1>9, <1>10, <1>11, <1>13 DEF P
<1>14. CASE r.plans[i] = {"TakeProfit"}
  BY <1>5, <1>7, <1>8, <1>9, <1>10, <1>11, <1>14 DEF P
<1>15. CASE r.plans[i] = Exits
  BY <1>5, <1>7, <1>8, <1>9, <1>10, <1>11, <1>15 DEF P
<1> QED BY <1>1, <1>12, <1>13, <1>14, <1>15

-----------------------------------------------------------------------------
(***************************************************************************)
(* One report.                                                             *)
(***************************************************************************)

MessageType == [kind : {"Request", "Validated"}, id : OrderIds] \cup ReportType

Counts == [OrderIds -> Nat]

LedgerType == [unbooked : Counts, booked : Counts, untold : Counts, told : Counts,
               rejected : Counts, rejectsTold : Counts]

StateType == [om : RegistryType, book : BookType, ord : [OrderIds -> Order \cup {NoOrder}],
              channel : Seq(MessageType), ledger : LedgerType, suppressed : SUBSET OrderIds]

Drawn(s) == Cardinality(Used(s.ord))

\* The requests of k orders with the ids after n.
Requests(n, k) == [j \in 1 .. k |-> [kind |-> "Request", id |-> n + j]]

\* t is s with k new orders, requested through the channel.
Extended(s, t, k) ==
    /\ k \in Nat /\ Drawn(s) + k <= Cardinality(OrderIds)
    /\ \A j \in OrderIds : IF j \in Drawn(s) + 1 .. Drawn(s) + k THEN t.ord[j] \in Order
                           ELSE t.ord[j] = s.ord[j]
    /\ t.channel = s.channel \o Requests(Drawn(s), k)

LEMMA SnapshotTyped ==
    ASSUME NEW r \in RegistryType, NEW i \in OrderIds
    PROVE  /\ Snapshot(r, i).filled \in Nat
           /\ r.history[i] # <<>> => Snapshot(r, i) = r.history[i][1]
           /\ r.history[i] = <<>> => /\ Snapshot(r, i).status = r.status[i]
                                     /\ Snapshot(r, i).filled = r.filled[i]
<1>1. r.history[i] \in Seq(Row) /\ r.filled[i] \in Nat
  BY DEF RegistryType
<1>2. CASE r.history[i] # <<>>
  <2>1. Head(r.history[i]) = r.history[i][1] /\ r.history[i][1] \in Row
    BY <1>1, <1>2
  <2> QED BY <1>2, <2>1 DEF Snapshot, Row
<1>3. CASE r.history[i] = <<>>
  BY <1>1, <1>3 DEF Snapshot
<1> QED BY <1>2, <1>3

\* The exit o of the entry e.
ExitTerms(o, e) == /\ o.side = "Sell" /\ o.effect = e.effect /\ o.tif = e.tif
                   /\ o.offset = e.offset /\ o.cond

\* From s to t only exits of i are new.
ExitsOnly(s, t, i) ==
    \A j \in OrderIds : t.ord[j] # s.ord[j] => ExitTerms(t.ord[j], s.ord[i]) /\ s.om.plans[i] # {}

\* A filled entry asks for the exits of its plan, if there is room for their ids.
LEMMA ExitsRequested ==
    ASSUME NEW s \in StateType, NEW i \in OrderIds, s.ord[i] \in Order, NEW at \in Nat,
           Drawn(s) \in Nat, Drawn(s) + Cardinality(Planned(s.om)) <= Cardinality(OrderIds),
           NEW t, t = RequestExits(s, i, at)
    PROVE  /\ t \in StateType
           /\ Cardinality(s.om.plans[i]) + Cardinality(Planned(t.om)) <= Cardinality(Planned(s.om))
           /\ Extended(s, t, Cardinality(s.om.plans[i]))
           /\ ExitsOnly(s, t, i)
           /\ t.book = s.book /\ t.ledger = s.ledger /\ t.suppressed = s.suppressed
           /\ t.om.status = s.om.status /\ t.om.filled = s.om.filled
           /\ t.om.history = s.om.history /\ t.om.plans = [s.om.plans EXCEPT ![i] = {}]
           /\ s.om.plans[i] # Exits => t.om.oco = s.om.oco
<1> DEFINE n == Drawn(s)
           k == Cardinality(s.om.plans[i])
           free == [s.om.plans EXCEPT ![i] = {}]
           om2 == ActivateBracket(s.om, i, <<"bracket", i>>, n + 1, n + k)
           oco2 == IF s.om.plans[i] = Exits
                   THEN RegisterOco(s.om.oco, <<"bracket", i>>, n + 1, n + k) ELSE s.om.oco
           filled == Snapshot(s.om, i).filled
           q == IF filled > 0 THEN filled ELSE s.ord[i].qty
           exit == [s.ord[i] EXCEPT !.side = "Sell", !.cond = TRUE,
                                 !.resize = FALSE, !.created = at, !.parent = i,
                                 !.qty = q]
           twin(j) == [exit EXCEPT !.twin = IF k = 2 THEN 2 * n + 3 - j ELSE 0]
           ord2 == [j \in OrderIds |-> IF j \in n + 1 .. n + k THEN twin(j) ELSE s.ord[j]]
<1>1. s.om \in RegistryType
  BY DEF StateType
<1>2. [s.om EXCEPT !.plans = free] \in RegistryType /\ [s.om EXCEPT !.plans = free].plans = free
  BY <1>1 DEF RegistryType
<1>3. /\ k \in 0 .. 2 /\ (k = 2 <=> s.om.plans[i] = Exits) /\ (k = 0 <=> s.om.plans[i] = {})
      /\ k + Cardinality(Planned([s.om EXCEPT !.plans = free])) <= Cardinality(Planned(s.om))
  BY ZenonT(60), <1>1, <1>2, PlanActivated
<1>4. k <= Cardinality(Planned(s.om)) /\ n + k <= Cardinality(OrderIds)
  <2>1. Cardinality(Planned([s.om EXCEPT !.plans = free])) \in Nat /\ Cardinality(Planned(s.om)) \in Nat
    BY <1>1, <1>2, PlannedFacts
  <2> DEFINE a == Cardinality(Planned([s.om EXCEPT !.plans = free]))
             b == Cardinality(Planned(s.om))
             c == Cardinality(OrderIds)
  <2>4. c \in Nat
    BY IdFacts
  <2>5. k \in Nat /\ k + a <= b
    BY <1>3
  <2>6. n \in Nat /\ n + b <= c
    OBVIOUS
  <2>2. a \in Nat /\ b \in Nat
    BY <2>1
  <2> HIDE DEF a, b, c, n, k
  <2>3. k <= b /\ n + k <= c
    BY <2>2, <2>4, <2>5, <2>6
  <2> QED BY <2>3 DEF b, c
<1>5. oco2 \in OcoType
  <2>1. s.om.oco \in OcoType
    BY <1>1 DEF RegistryType
  <2>2. CASE s.om.plans[i] = Exits
    <3>1. k = 2
      BY <2>2, <1>3
    <3>2. n + 1 \in OrderIds /\ n + k \in OrderIds
      <4> HIDE DEF n, k
      <4> QED BY <3>1, <1>4, IdFacts, OrderIdsAssumption DEF n
    <3>3. <<"bracket", i>> \in GroupIds
      BY GroupIdsAssumption
    <3> QED BY <2>1, <2>2, <3>2, <3>3, RegisterOcoTyped
  <2> QED BY <2>1, <2>2
<1>6. /\ om2 \in RegistryType /\ om2.status = s.om.status /\ om2.filled = s.om.filled
      /\ om2.history = s.om.history /\ om2.plans = free /\ om2.oco = oco2
  <2>1. om2 = [s.om EXCEPT !.plans = free, !.oco = oco2]
    BY DEF ActivateBracket
  <2>2. free \in [OrderIds -> SUBSET Exits]
    BY <1>1 DEF RegistryType
  <2> HIDE DEF om2, oco2, free
  <2> QED BY <1>1, <1>5, <2>1, <2>2 DEF RegistryType
<1>7. Cardinality(Planned(om2)) = Cardinality(Planned([s.om EXCEPT !.plans = free]))
  BY <1>2, <1>6 DEF Planned
<1>8. filled \in Nat /\ q \in Nat \ {0}
  BY <1>1, SnapshotTyped DEF Order
<1>9. \A j \in n + 1 .. n + k : twin(j) \in Order /\ ExitTerms(twin(j), s.ord[i])
  <2> TAKE j \in n + 1 .. n + k
  <2>1. i \in Nat /\ n \in Nat
    BY IdFacts
  <2>2. (IF k = 2 THEN 2 * n + 3 - j ELSE 0) \in Nat
    <3> HIDE DEF n, k
    <3> QED BY <2>1, <1>3
  <2> HIDE DEF q
  <2>3. exit \in Order /\ ExitTerms(exit, s.ord[i])
    BY <1>8, <2>1 DEF Order, ExitTerms
  <2> HIDE DEF exit
  <2> QED BY <2>2, <2>3 DEF Order, ExitTerms
<1>10. ord2 \in [OrderIds -> Order \cup {NoOrder}]
  <2> HIDE DEF n, k, twin
  <2> QED BY <1>9 DEF StateType
<1>11. \A j \in OrderIds : j \in n + 1 .. n + k => j \in n + 1 .. n + k
  OBVIOUS
<1>12. CASE k = 0
  <2>1. t = s
    BY <1>12 DEF RequestExits
  <2>2. s.om.plans[i] = {} /\ s.om.plans[i] # Exits
    BY <1>3, <1>12
  <2>3. free = s.om.plans
    BY <2>2, <1>1 DEF RegistryType
  <2>4. s.channel \o Requests(n, 0) = s.channel
    <3>1. s.channel \in Seq(MessageType) /\ Requests(n, 0) = <<>>
      BY DEF StateType, Requests
    <3> QED BY <3>1
  <2>5. \A j \in OrderIds : j \notin n + 1 .. n + 0
    BY IdFacts
  <2>6. Extended(s, t, k)
    <3> HIDE DEF n
    <3> QED BY <1>12, <2>1, <2>4, <2>5, <1>4 DEF Extended, n
  <2>7. k + Cardinality(Planned(t.om)) <= Cardinality(Planned(s.om))
    <3>1. Cardinality(Planned(s.om)) \in Nat
      BY <1>1, PlannedFacts
    <3> QED BY <3>1, <1>12, <2>1
  <2>8. t.om.plans = free
    BY <2>1, <2>3
  <2> HIDE DEF k, n, free
  <2>9. t = s /\ ExitsOnly(s, t, i)
    BY <2>1 DEF ExitsOnly
  <2> QED BY <2>2, <2>6, <2>7, <2>8, <2>9 DEF k, free
<1>13. CASE k # 0
  <2>1. t = [s EXCEPT !.om = om2, !.ord = ord2, !.channel = @ \o Requests(n, k)]
    BY <1>13 DEF RequestExits, Requests, Drawn
  <2>2. s.channel \o Requests(n, k) \in Seq(MessageType)
    <3>1. k \in Nat /\ \A j \in 1 .. k : n + j \in OrderIds
      <4> DEFINE c == Cardinality(OrderIds)
      <4>1. k \in Nat /\ n \in Nat /\ c \in Nat /\ n + k <= c /\ OrderIds = 1 .. c
        <5>1. k \in Nat
          BY <1>3
        <5>2. c \in Nat /\ n \in Nat
          BY IdFacts
        <5> QED BY <5>1, <5>2, <1>4, OrderIdsAssumption
      <4> HIDE DEF n, k, c
      <4> QED BY <4>1
    <3>2. Requests(n, k) \in Seq(MessageType)
      <4> HIDE DEF n, k
      <4> QED BY <3>1 DEF Requests, MessageType
    <3>3. s.channel \in Seq(MessageType)
      BY DEF StateType
    <3> HIDE DEF n, k
    <3> QED BY <3>2, <3>3
  <2> HIDE DEF om2, ord2, n, k
  <2>3. /\ t \in StateType /\ t.om = om2 /\ t.ord = ord2 /\ t.channel = s.channel \o Requests(n, k)
        /\ t.book = s.book /\ t.ledger = s.ledger /\ t.suppressed = s.suppressed
    BY <1>6, <1>10, <2>1, <2>2 DEF StateType
  <2>4. \A j \in OrderIds : ord2[j] = IF j \in n + 1 .. n + k THEN twin(j) ELSE s.ord[j]
    BY DEF ord2
  <2> HIDE DEF twin
  <2>5. Extended(s, t, k)
    BY <2>3, <2>4, <1>3, <1>4, <1>9 DEF Extended, n
  <2>6. ExitsOnly(s, t, i)
    BY <2>3, <2>4, <1>3, <1>9, <1>13 DEF ExitsOnly
  <2>7. om2.plans = free /\ (s.om.plans[i] # Exits => om2.oco = s.om.oco)
    BY <1>6
  <2>8. k + Cardinality(Planned(om2)) <= Cardinality(Planned(s.om))
    BY <1>3, <1>7
  <2> QED BY <2>3, <2>5, <2>6, <2>7, <2>8, <1>6 DEF k
<1> QED BY <1>12, <1>13

\* A late fill of an order whose peer filled is dropped.
Dropped(s, r) == r.status = "Filled" /\ r.id \in s.suppressed

\* The order manager ignores the end of an order it does not hold.
Ignored(s, r) == s.om.status[r.id] = Absent /\ r.status \in {"Cancelled", "Expired"}

\* t is s after the report r, which cancelled the orders of P and requested k exits.
Applied(s, r, t, k, P) ==
    /\ t \in StateType
    /\ Extended(s, t, k)
    /\ ExitsOnly(s, t, r.id)
    /\ k + Cardinality(Planned(t.om)) <= Cardinality(Planned(s.om))
    /\ P \subseteq OrderIds \ {r.id}
    /\ t.book = OnCancel(s.book, P)
    /\ t.ledger.booked = s.ledger.booked /\ t.ledger.untold = s.ledger.untold
    /\ t.ledger.told = s.ledger.told /\ t.ledger.rejectsTold = s.ledger.rejectsTold
    /\ \A j \in OrderIds :
          /\ t.ledger.unbooked[j] = IF j = r.id /\ ~Dropped(s, r)
                                    THEN s.ledger.unbooked[j] + r.trade ELSE s.ledger.unbooked[j]
          /\ t.ledger.rejected[j] =
                IF j = r.id /\ ~Dropped(s, r) /\ Snapshot(t.om, j).status = "Rejected"
                THEN s.ledger.rejected[j] + 1 ELSE s.ledger.rejected[j]
    /\ t.om.history = s.om.history
    /\ \A j \in OrderIds \ {r.id} :
          /\ t.om.filled[j] = s.om.filled[j]
          /\ t.om.status[j] = IF j \in P /\ s.om.status[j] \in Live THEN "Cancelled"
                              ELSE s.om.status[j]
    /\ IF Dropped(s, r) \/ Ignored(s, r)
       THEN t.om.status[r.id] = s.om.status[r.id] /\ t.om.filled[r.id] = s.om.filled[r.id]
       ELSE t.om.status[r.id] = r.status /\ t.om.filled[r.id] = r.filled
    /\ \A j \in OrderIds : t.om.plans[j] \subseteq s.om.plans[j]
    /\ t.suppressed = s.suppressed \cup P
    /\ (\A j \in OrderIds : s.om.oco.groupOf[j] = NoGroup /\ s.om.plans[j] # Exits)
          => P = {} /\ \A j \in OrderIds : t.om.oco.groupOf[j] = NoGroup

LEMMA LedgerTyped ==
    ASSUME NEW l \in LedgerType, NEW i \in OrderIds, NEW n \in Nat
    PROVE  /\ [l EXCEPT !.unbooked[i] = @ + n] \in LedgerType
           /\ [l EXCEPT !.rejected[i] = @ + n] \in LedgerType
<1> DEFINE u == [l.unbooked EXCEPT ![i] = @ + n]
           j == [l.rejected EXCEPT ![i] = @ + n]
<1>1. u \in Counts /\ j \in Counts
  BY DEF LedgerType, Counts
<1>2. [l EXCEPT !.unbooked = u] \in LedgerType /\ [l EXCEPT !.rejected = j] \in LedgerType
  <2> HIDE DEF u, j
  <2> QED BY <1>1 DEF LedgerType
<1> QED BY <1>2

\* The book after a cancellation.
LEMMA OnCancelProperties ==
    ASSUME NEW b \in BookType, NEW S, NEW c, c = OnCancel(b, S)
    PROVE  /\ c \in BookType /\ c.filled = b.filled /\ c.queue = b.queue
           /\ c.slice = b.slice /\ c.attempted = b.attempted /\ c.deferred = b.deferred
           /\ Active(c) = Active(b) \ S
           /\ \A j \in OrderIds : c.status[j] = IF j \in S /\ b.status[j] \in Live
                                                THEN "Cancelled" ELSE b.status[j]
           /\ \A o : BookSound(b, o) => BookSound(c, o)
<1> DEFINE st == [i \in OrderIds |-> IF i \in S /\ b.status[i] \in Live THEN "Cancelled"
                                     ELSE b.status[i]]
<1>1. c = [b EXCEPT !.status = st] /\ st \in [OrderIds -> Status \cup {Absent}]
  BY StatusFacts DEF OnCancel, BookType
<1> HIDE DEF st
<1>2. c \in BookType /\ c.filled = b.filled /\ c.queue = b.queue /\ c.status = st
      /\ c.slice = b.slice /\ c.attempted = b.attempted /\ c.deferred = b.deferred
  BY <1>1 DEF BookType
<1>3. Active(c) = Active(b) \ S
  BY <1>2, StatusFacts DEF Active, st
<1>4. \A j \in OrderIds : c.status[j] = IF j \in S /\ b.status[j] \in Live
                                        THEN "Cancelled" ELSE b.status[j]
  BY <1>2 DEF st
<1> QED BY <1>2, <1>3, <1>4 DEF BookSound

\* What consume_oco_peer_cancels_on_fill does, told the fill.
LEMMA PeersCancelled ==
    ASSUME NEW s \in StateType, NEW i \in OrderIds, NEW t, t = CancelPeers(s, i)
    PROVE  LET P == Peers(s.om.oco, i) IN
           /\ t \in StateType /\ P \subseteq OrderIds \ {i}
           /\ t.book = OnCancel(s.book, P) /\ t.suppressed = s.suppressed \cup P
           /\ t.ord = s.ord /\ t.channel = s.channel /\ t.ledger = s.ledger
           /\ t.om.history = s.om.history /\ t.om.filled = s.om.filled
           /\ t.om.plans = s.om.plans
           /\ \A j \in OrderIds : t.om.status[j] = IF j \in P /\ s.om.status[j] \in Live
                                                   THEN "Cancelled" ELSE s.om.status[j]
           /\ \A j \in OrderIds : t.om.oco.groupOf[j] \in {s.om.oco.groupOf[j], NoGroup}
<1> DEFINE P == Peers(s.om.oco, i)
           oco == ConsumePeers(s.om.oco, i)
           r1 == [s.om EXCEPT !.oco = oco]
           r2 == CancelEach(r1, P)
           b == OnCancel(s.book, P)
<1>1. s.om \in RegistryType /\ s.om.oco \in OcoType /\ s.book \in BookType
  BY DEF StateType, RegistryType
<1>2. /\ oco \in OcoType /\ P \subseteq OrderIds
      /\ \A j \in OrderIds : oco.groupOf[j] \in {s.om.oco.groupOf[j], NoGroup}
  BY <1>1, ConsumePeersTyped
<1>3. i \notin P
  BY DEF Peers
<1>4. t = [s EXCEPT !.suppressed = @ \cup P, !.book = b, !.om = r2]
  BY DEF CancelPeers
<1> HIDE DEF oco, P
<1>5. r1 \in RegistryType /\ r1.oco = oco /\ r1.history = s.om.history
      /\ r1.filled = s.om.filled /\ r1.plans = s.om.plans /\ r1.status = s.om.status
  BY <1>1, <1>2 DEF RegistryType
<1> HIDE DEF r1
<1>6. /\ Loosens(r1, r2) /\ r2.history = r1.history /\ r2.filled = r1.filled
      /\ r2.plans = r1.plans
      /\ r2.status = [j \in OrderIds |-> IF j \in P /\ r1.status[j] \in Live
                                         THEN "Cancelled" ELSE r1.status[j]]
  BY <1>5, CancelEachLoosens
<1>7. b \in BookType
  BY <1>1, OnCancelProperties
<1> HIDE DEF r2, b
<1>8. /\ t \in StateType /\ t.book = b /\ t.om = r2 /\ t.suppressed = s.suppressed \cup P
      /\ t.ord = s.ord /\ t.channel = s.channel /\ t.ledger = s.ledger
  BY <1>2, <1>4, <1>6, <1>7 DEF StateType, Loosens
<1>9. \A j \in OrderIds : r2.oco.groupOf[j] \in {s.om.oco.groupOf[j], NoGroup}
  BY <1>2, <1>5, <1>6 DEF Loosens
<1> QED BY <1>2, <1>3, <1>5, <1>6, <1>8, <1>9 DEF P, b

LEMMA ReportApplied ==
    ASSUME NEW s \in StateType, NEW r \in ReportType, s.ord[r.id] \in Order, Drawn(s) \in Nat,
           Drawn(s) + Cardinality(Planned(s.om)) <= Cardinality(OrderIds),
           NEW t, t = ApplyReport(s, r)
    PROVE  \E k \in Nat, P \in SUBSET OrderIds : Applied(s, r, t, k, P)
<1> DEFINE i == r.id
           heard == OnReport(s.om, i, r.status, r.filled)
           told == [s EXCEPT !.om = heard]
           known == told.om.history[i] # <<>> \/ told.om.status[i] # Absent
           isRejected == known /\ Snapshot(told.om, i).status = "Rejected"
           noted == IF isRejected THEN [told EXCEPT !.ledger.rejected[i] = @ + 1] ELSE told
           cleared == CancelPeers(noted, i)
           asked == RequestExits(cleared, i, r.at)
           linked == IF r.status = "Filled" THEN asked ELSE noted
<1>1. /\ i \in OrderIds /\ r.status \in Status /\ r.filled \in Nat /\ r.trade \in Nat
      /\ r.at \in Nat
  BY DEF ReportType
<1>2. s.om \in RegistryType /\ s.book \in BookType /\ s.ledger \in LedgerType
  BY DEF StateType
<1>3. CASE Dropped(s, r)
  <2>1. t = s
    BY <1>3 DEF ApplyReport, Dropped
  <2>2. Extended(s, s, 0)
    <3>1. s.channel \o Requests(Drawn(s), 0) = s.channel
      <4>1. s.channel \in Seq(MessageType) /\ Requests(Drawn(s), 0) = <<>>
        BY DEF StateType, Requests
      <4> QED BY <4>1
    <3>2. \A j \in OrderIds : j \notin Drawn(s) + 1 .. Drawn(s) + 0
      BY IdFacts
    <3>3. Drawn(s) + 0 <= Cardinality(OrderIds)
      <4>1. Cardinality(Planned(s.om)) \in Nat /\ Cardinality(OrderIds) \in Nat
        BY <1>2, PlannedFacts, IdFacts
      <4> QED BY <4>1
    <3> QED BY <3>1, <3>2, <3>3 DEF Extended
  <2>3. OnCancel(s.book, {}) = s.book
    <3>1. [j \in OrderIds |-> IF j \in {} /\ s.book.status[j] \in Live THEN "Cancelled"
                              ELSE s.book.status[j]] = s.book.status
      BY <1>2 DEF BookType
    <3> QED BY <3>1, <1>2 DEF OnCancel, BookType
  <2>4. Applied(s, r, s, 0, {})
    <3>1. 0 + Cardinality(Planned(s.om)) <= Cardinality(Planned(s.om))
      <4>1. Cardinality(Planned(s.om)) \in Nat
        BY <1>2, PlannedFacts
      <4> QED BY <4>1
    <3> QED BY <1>1, <1>3, <2>2, <2>3, <3>1 DEF Applied, ExitsOnly
  <2> QED BY <2>1, <2>4
<1>4. CASE ~Dropped(s, r)
  <2>1. t = [linked EXCEPT !.ledger.unbooked[i] = @ + r.trade]
    BY <1>4 DEF ApplyReport, Dropped
  <2>2. /\ Loosens(s.om, heard) /\ heard.history = s.om.history
        /\ \A j \in OrderIds \ {i} : heard.status[j] = s.om.status[j]
                                     /\ heard.filled[j] = s.om.filled[j]
        /\ IF Ignored(s, r) THEN heard.status[i] = s.om.status[i] /\ heard.filled[i] = s.om.filled[i]
           ELSE heard.status[i] = r.status /\ heard.filled[i] = r.filled
    BY <1>1, <1>2, OnReportLoosens DEF Ignored
  <2> HIDE DEF heard
  <2>3. /\ told \in StateType /\ told.om = heard /\ told.book = s.book /\ told.ord = s.ord
        /\ told.channel = s.channel /\ told.ledger = s.ledger /\ told.suppressed = s.suppressed
    BY <2>2 DEF Loosens, StateType
  <2> HIDE DEF told
  <2>4. isRejected <=> Snapshot(heard, i).status = "Rejected"
    <3>1. heard \in RegistryType
      BY <2>2 DEF Loosens
    <3>2. heard.history[i] = <<>> => Snapshot(heard, i).status = heard.status[i]
      BY <3>1, <1>1, SnapshotTyped
    <3> QED BY <2>3, <3>2 DEF Absent
  <2> HIDE DEF isRejected
  <2>5. /\ noted \in StateType /\ noted.om = heard /\ noted.book = s.book /\ noted.ord = s.ord
        /\ noted.channel = s.channel /\ noted.suppressed = s.suppressed
        /\ noted.ledger.booked = s.ledger.booked /\ noted.ledger.untold = s.ledger.untold
        /\ noted.ledger.told = s.ledger.told /\ noted.ledger.rejectsTold = s.ledger.rejectsTold
        /\ noted.ledger.unbooked = s.ledger.unbooked
        /\ \A j \in OrderIds : noted.ledger.rejected[j] =
               IF j = i /\ isRejected THEN s.ledger.rejected[j] + 1 ELSE s.ledger.rejected[j]
    <3>1. CASE isRejected
      <4> DEFINE rej == [s.ledger.rejected EXCEPT ![i] = @ + 1]
                 l == [s.ledger EXCEPT !.rejected = rej]
      <4>1. noted = [told EXCEPT !.ledger = l]
        BY <3>1, <2>3
      <4>2. rej \in Counts /\ \A j \in OrderIds : rej[j] =
               IF j = i THEN s.ledger.rejected[j] + 1 ELSE s.ledger.rejected[j]
        BY <1>1, <1>2 DEF LedgerType, Counts
      <4> HIDE DEF rej
      <4>3. /\ l \in LedgerType /\ l.rejected = rej
            /\ l.booked = s.ledger.booked /\ l.untold = s.ledger.untold
            /\ l.told = s.ledger.told /\ l.rejectsTold = s.ledger.rejectsTold
            /\ l.unbooked = s.ledger.unbooked
        BY <1>2, <4>2 DEF LedgerType
      <4> HIDE DEF l, noted
      <4>4. /\ noted \in StateType /\ noted.om = told.om /\ noted.book = told.book
            /\ noted.ord = told.ord /\ noted.channel = told.channel
            /\ noted.suppressed = told.suppressed /\ noted.ledger = l
        BY <4>1, <4>3, <2>3 DEF StateType
      <4> QED BY <3>1, <2>3, <4>2, <4>3, <4>4
    <3>2. CASE ~isRejected
      BY <3>2, <2>3
    <3> QED BY <3>1, <3>2
  <2> HIDE DEF noted
  <2> DEFINE P == IF r.status = "Filled" THEN Peers(heard.oco, i) ELSE {}
             k == IF r.status = "Filled" THEN Cardinality(heard.plans[i]) ELSE 0
  <2>6. /\ heard \in RegistryType /\ Cardinality(Planned(heard)) <= Cardinality(Planned(s.om))
        /\ Cardinality(Planned(heard)) \in Nat /\ Cardinality(Planned(s.om)) \in Nat
    <3>1. heard \in RegistryType /\ \A j \in OrderIds : heard.plans[j] \subseteq s.om.plans[j]
      BY <2>2 DEF Loosens
    <3> QED BY <3>1, <1>2, PlannedFacts
  <2>7. Drawn(s) + Cardinality(Planned(heard)) <= Cardinality(OrderIds)
    BY <2>6, IdFacts
  <2> DEFINE Tied(u) ==
        /\ u \in StateType /\ Extended(s, u, k)
        /\ ExitsOnly(s, u, i)
        /\ k + Cardinality(Planned(u.om)) <= Cardinality(Planned(heard))
        /\ P \subseteq OrderIds \ {i}
        /\ u.book = OnCancel(s.book, P) /\ u.suppressed = s.suppressed \cup P
        /\ u.ledger = noted.ledger
        /\ u.om.history = heard.history /\ u.om.filled = heard.filled
        /\ \A j \in OrderIds : u.om.status[j] = IF j \in P /\ heard.status[j] \in Live
                                                THEN "Cancelled" ELSE heard.status[j]
        /\ \A j \in OrderIds : u.om.plans[j] \subseteq heard.plans[j]
        /\ (\A j \in OrderIds : heard.oco.groupOf[j] = NoGroup /\ heard.plans[j] # Exits)
              => P = {} /\ \A j \in OrderIds : u.om.oco.groupOf[j] = NoGroup
  <2>8. Tied(linked)
    <3>1. CASE r.status = "Filled"
      <4>1. /\ cleared \in StateType /\ P \subseteq OrderIds \ {i}
            /\ cleared.book = OnCancel(s.book, P) /\ cleared.suppressed = s.suppressed \cup P
            /\ cleared.ord = s.ord /\ cleared.channel = s.channel /\ cleared.ledger = noted.ledger
            /\ cleared.om.history = heard.history /\ cleared.om.filled = heard.filled
            /\ cleared.om.plans = heard.plans
            /\ \A j \in OrderIds : cleared.om.status[j] = IF j \in P /\ heard.status[j] \in Live
                                                          THEN "Cancelled" ELSE heard.status[j]
            /\ \A j \in OrderIds : cleared.om.oco.groupOf[j] \in {heard.oco.groupOf[j], NoGroup}
        <5> DEFINE Q == Peers(noted.om.oco, i)
        <5>1. P = Q
          BY <2>5, <3>1
        <5> HIDE DEF P
        <5>2. /\ cleared \in StateType /\ Q \subseteq OrderIds \ {i}
              /\ cleared.book = OnCancel(noted.book, Q)
              /\ cleared.suppressed = noted.suppressed \cup Q
              /\ cleared.ord = noted.ord /\ cleared.channel = noted.channel
              /\ cleared.ledger = noted.ledger
              /\ cleared.om.history = noted.om.history /\ cleared.om.filled = noted.om.filled
              /\ cleared.om.plans = noted.om.plans
              /\ \A j \in OrderIds : cleared.om.status[j] =
                    IF j \in Q /\ noted.om.status[j] \in Live THEN "Cancelled"
                    ELSE noted.om.status[j]
              /\ \A j \in OrderIds :
                    cleared.om.oco.groupOf[j] \in {noted.om.oco.groupOf[j], NoGroup}
          <6>1. noted \in StateType /\ i \in OrderIds
            BY <2>5, <1>1
          <6> HIDE DEF i
          <6> QED BY <6>1, PeersCancelled
        <5> HIDE DEF Q, cleared
        <5> QED BY <2>5, <5>1, <5>2
      <4>2. Drawn(cleared) = Drawn(s) /\ Planned(cleared.om) = Planned(heard)
        BY <4>1 DEF Drawn, Planned
      <4>3. cleared.ord[i] \in Order
        BY <4>1
      <4> HIDE DEF cleared, P
      <4>0. /\ Drawn(cleared) \in Nat
            /\ Drawn(cleared) + Cardinality(Planned(cleared.om)) <= Cardinality(OrderIds)
        BY <4>2, <2>7
      <4>4. /\ asked \in StateType
            /\ Cardinality(cleared.om.plans[i]) + Cardinality(Planned(asked.om))
                  <= Cardinality(Planned(cleared.om))
            /\ Extended(cleared, asked, Cardinality(cleared.om.plans[i]))
            /\ ExitsOnly(cleared, asked, i)
            /\ asked.book = cleared.book /\ asked.ledger = cleared.ledger
            /\ asked.suppressed = cleared.suppressed
            /\ asked.om.status = cleared.om.status /\ asked.om.filled = cleared.om.filled
            /\ asked.om.history = cleared.om.history
            /\ asked.om.plans = [cleared.om.plans EXCEPT ![i] = {}]
            /\ cleared.om.plans[i] # Exits => asked.om.oco = cleared.om.oco
        <5>1. cleared \in StateType /\ i \in OrderIds /\ r.at \in Nat
          BY <1>1, <4>1
        <5> HIDE DEF i
        <5> QED BY SMTT(30), <4>0, <5>1, <4>3, ExitsRequested
      <4> HIDE DEF asked
      <4>5. k = Cardinality(cleared.om.plans[i])
        BY <3>1, <4>1
      <4>6. Extended(s, asked, k)
        BY <4>1, <4>2, <4>4, <4>5 DEF Extended
      <4>7. \A j \in OrderIds : asked.om.plans[j] \subseteq heard.plans[j]
        BY <4>1, <4>4, <2>6 DEF RegistryType
      <4>8. (\A j \in OrderIds : heard.oco.groupOf[j] = NoGroup /\ heard.plans[j] # Exits)
              => P = {} /\ \A j \in OrderIds : asked.om.oco.groupOf[j] = NoGroup
        <5>1. heard.oco.groupOf[i] = NoGroup => P = {}
          BY <3>1 DEF P, Peers
        <5> QED BY <5>1, <4>1, <4>4, <1>1
      <4>9. k + Cardinality(Planned(asked.om)) <= Cardinality(Planned(heard))
        BY <4>2, <4>4, <4>5
      <4> HIDE DEF k
      <4>10. linked = asked
        BY <3>1
      <4> HIDE DEF linked
      <4>11. /\ asked.book = OnCancel(s.book, P) /\ asked.suppressed = s.suppressed \cup P
             /\ asked.ledger = noted.ledger /\ asked.om.history = heard.history
             /\ asked.om.filled = heard.filled
             /\ ExitsOnly(s, asked, i)
             /\ \A j \in OrderIds : asked.om.status[j] = IF j \in P /\ heard.status[j] \in Live
                                                THEN "Cancelled" ELSE heard.status[j]
        <5>1. cleared.om.plans[i] # {} => s.om.plans[i] # {}
          BY <1>1, <2>2, <4>1 DEF Loosens
        <5>2. ExitsOnly(s, asked, i)
          BY <4>1, <4>4, <5>1 DEF ExitsOnly
        <5> QED BY <4>1, <4>4, <5>2
      <4> QED BY <4>1, <4>4, <4>6, <4>7, <4>8, <4>9, <4>10, <4>11
    <3>2. CASE r.status # "Filled"
      <4>1. linked = noted /\ P = {} /\ k = 0
        BY <3>2
      <4>2. OnCancel(s.book, {}) = s.book
        <5>1. [j \in OrderIds |-> IF j \in {} /\ s.book.status[j] \in Live THEN "Cancelled"
                                  ELSE s.book.status[j]] = s.book.status
          BY <1>2 DEF BookType
        <5> QED BY <5>1, <1>2 DEF OnCancel, BookType
      <4>3. Extended(s, noted, 0)
        <5>1. noted.channel = s.channel \o Requests(Drawn(s), 0)
          <6>1. s.channel \in Seq(MessageType) /\ Requests(Drawn(s), 0) = <<>>
            BY DEF StateType, Requests
          <6> QED BY <6>1, <2>5
        <5>2. \A j \in OrderIds : j \notin Drawn(s) + 1 .. Drawn(s) + 0
          BY IdFacts
        <5>3. Drawn(s) + 0 <= Cardinality(OrderIds)
          BY <2>6, <2>7, IdFacts
        <5> QED BY <5>1, <5>2, <5>3, <2>5 DEF Extended
      <4>4. 0 + Cardinality(Planned(noted.om)) <= Cardinality(Planned(heard))
        BY <2>5, <2>6
      <4>5. ExitsOnly(s, noted, i)
        BY <2>5 DEF ExitsOnly
      <4> HIDE DEF P, k, linked
      <4> QED BY <4>1, <4>2, <4>3, <4>4, <4>5, <2>5
    <3> QED BY <3>1, <3>2
  <2> HIDE DEF linked, P
  <2> DEFINE u == [linked.ledger.unbooked EXCEPT ![i] = @ + r.trade]
             l == [linked.ledger EXCEPT !.unbooked = u]
  <2>9. k \in Nat
    BY <2>8 DEF Extended
  <2> HIDE DEF k
  <2>10. linked.ledger \in LedgerType
    BY <2>8 DEF StateType
  <2>11. u \in Counts /\ \A j \in OrderIds : u[j] =
            IF j = i THEN linked.ledger.unbooked[j] + r.trade ELSE linked.ledger.unbooked[j]
    BY <1>1, <2>10 DEF LedgerType, Counts
  <2>12. t = [linked EXCEPT !.ledger = l]
    BY <2>1
  <2> HIDE DEF u
  <2>13. /\ l \in LedgerType /\ l.unbooked = u /\ l.rejected = linked.ledger.rejected
         /\ l.booked = linked.ledger.booked /\ l.untold = linked.ledger.untold
         /\ l.told = linked.ledger.told /\ l.rejectsTold = linked.ledger.rejectsTold
    BY <2>10, <2>11 DEF LedgerType
  <2> HIDE DEF l
  <2>14. /\ t \in StateType /\ t.om = linked.om /\ t.book = linked.book /\ t.ord = linked.ord
         /\ t.channel = linked.channel /\ t.suppressed = linked.suppressed /\ t.ledger = l
    BY <2>8, <2>12, <2>13 DEF StateType
  <2>15. Snapshot(t.om, i).status = Snapshot(heard, i).status
    <3>1. t.om.history = heard.history /\ t.om.status[i] = heard.status[i]
      BY <2>8, <2>14, <1>1
    <3> QED BY <3>1 DEF Snapshot
  <2>16. /\ t.ledger.booked = s.ledger.booked /\ t.ledger.untold = s.ledger.untold
         /\ t.ledger.told = s.ledger.told /\ t.ledger.rejectsTold = s.ledger.rejectsTold
         /\ \A j \in OrderIds :
               /\ t.ledger.unbooked[j] = IF j = i THEN s.ledger.unbooked[j] + r.trade
                                         ELSE s.ledger.unbooked[j]
               /\ t.ledger.rejected[j] =
                     IF j = i /\ Snapshot(t.om, j).status = "Rejected"
                     THEN s.ledger.rejected[j] + 1 ELSE s.ledger.rejected[j]
    BY <2>4, <2>5, <2>8, <2>11, <2>13, <2>14, <2>15
  <2>17. Extended(s, t, k)
    BY <2>8, <2>14 DEF Extended
  <2>18. k + Cardinality(Planned(t.om)) <= Cardinality(Planned(s.om))
    <3>1. Cardinality(Planned(t.om)) \in Nat
      BY <2>14, PlannedFacts DEF StateType
    <3> QED BY <3>1, <2>6, <2>8, <2>9, <2>14
  <2>19. /\ \A j \in OrderIds : t.om.plans[j] \subseteq s.om.plans[j]
         /\ (\A j \in OrderIds : s.om.oco.groupOf[j] = NoGroup /\ s.om.plans[j] # Exits)
              => (\A j \in OrderIds : heard.oco.groupOf[j] = NoGroup /\ heard.plans[j] # Exits)
    <3>1. \A j \in OrderIds : s.om.plans[j] \subseteq Exits
      BY <1>2 DEF RegistryType
    <3>2. \A j \in OrderIds : /\ heard.plans[j] \subseteq s.om.plans[j]
                              /\ heard.oco.groupOf[j] \in {s.om.oco.groupOf[j], NoGroup}
      BY <2>2 DEF Loosens
    <3>3. \A j \in OrderIds : t.om.plans[j] \subseteq heard.plans[j]
      BY <2>8, <2>14
    <3> QED BY <3>1, <3>2, <3>3
  <2>20. /\ t.book = OnCancel(s.book, P) /\ t.suppressed = s.suppressed \cup P
         /\ P \subseteq OrderIds \ {i} /\ t.om.history = s.om.history
         /\ \A j \in OrderIds \ {i} :
               /\ t.om.filled[j] = s.om.filled[j]
               /\ t.om.status[j] = IF j \in P /\ s.om.status[j] \in Live THEN "Cancelled"
                                   ELSE s.om.status[j]
         /\ t.om.status[i] = heard.status[i] /\ t.om.filled[i] = heard.filled[i]
         /\ ExitsOnly(s, t, i)
    <3>1. ExitsOnly(s, t, i)
      BY <2>8, <2>14 DEF ExitsOnly
    <3> QED BY <3>1, <1>1, <2>2, <2>8, <2>14
  <2>21. (\A j \in OrderIds : s.om.oco.groupOf[j] = NoGroup /\ s.om.plans[j] # Exits)
            => P = {} /\ \A j \in OrderIds : t.om.oco.groupOf[j] = NoGroup
    BY <2>8, <2>14, <2>19
  <2>22. P \in SUBSET OrderIds
    BY <2>20
  <2>23. Applied(s, r, t, k, P)
    <3> HIDE DEF Tied
    <3> QED BY <1>4, <2>2, <2>14, <2>16, <2>17, <2>18, <2>19, <2>20, <2>21 DEF Applied
  <2> QED BY <2>9, <2>22, <2>23
<1> QED BY <1>3, <1>4

-----------------------------------------------------------------------------
(***************************************************************************)
(* Orders in transit.  An order is in at most one of the channel, the      *)
(* pending requests and the set of reports a stage still has to apply; one *)
(* that waits for its checks is not in the client's queue, and a report    *)
(* that ends an order leaves it inactive there.                            *)
(***************************************************************************)

MessageSound(s, m) ==
    /\ s.ord[m.id] \in Order
    /\ m.kind # "Report" => m.id \notin ToSet(s.book.queue) /\ s.om.status[m.id] = Absent
    /\ m.kind = "Report" =>
          /\ m.status \in Finished => m.id \notin Active(s.book)
          /\ m.trade > 0 /\ s.ord[m.id].offset = 1 => m.at > s.ord[m.id].created

RequestSound(s, i) ==
    s.ord[i] \in Order /\ i \notin ToSet(s.book.queue) /\ s.om.status[i] = Absent

\* reports: those a stage still has to apply.
InOnePlace(s, pending, reports) ==
    /\ pending \in Seq(OrderIds) /\ IsInjective(pending)
    /\ \A k, l \in DOMAIN s.channel : s.channel[k].id = s.channel[l].id => k = l
    /\ \A m \in ToSet(s.channel) : m.id \notin ToSet(pending) /\ \A r \in reports : m.id # r.id
    /\ \A r, q \in reports : r.id \notin ToSet(pending) /\ (r.id = q.id => r = q)

Good(s, pending, reports) ==
    /\ s \in StateType /\ reports \subseteq ReportType
    /\ BookSound(s.book, s.ord)
    /\ \A i \in ToSet(s.book.queue) : s.ord[i] \in Order
    /\ \A i \in OrderIds : s.om.status[i] # Absent => s.ord[i] \in Order
    /\ Used(s.ord) = 1 .. Drawn(s)
    /\ Drawn(s) + Cardinality(Planned(s.om)) <= Cardinality(OrderIds)
    /\ InOnePlace(s, pending, reports)
    /\ \A m \in ToSet(s.channel) \cup reports : MessageSound(s, m)
    /\ \A i \in ToSet(pending) : RequestSound(s, i)

LEMMA UsedFacts ==
    ASSUME NEW s \in StateType
    PROVE  /\ Drawn(s) \in Nat
           /\ \A i \in OrderIds : s.ord[i] \in Order <=> i \in Used(s.ord)
<1>1. IsFiniteSet(Used(s.ord))
  BY IdFacts, FS_Subset DEF Used
<1> QED BY <1>1, FS_CardinalityType, NoOrderAssumption DEF Drawn, Used, StateType

\* Numbers of the orders after an extension.
LEMMA ExtendedProperties ==
    ASSUME NEW s \in StateType, Used(s.ord) = 1 .. Drawn(s), NEW t \in StateType, NEW k,
           Extended(s, t, k)
    PROVE  /\ Used(t.ord) = 1 .. Drawn(t) /\ Drawn(t) = Drawn(s) + k
           /\ \A i \in OrderIds : s.ord[i] \in Order => t.ord[i] = s.ord[i]
           /\ \A j \in Drawn(s) + 1 .. Drawn(s) + k :
                 j \in OrderIds /\ s.ord[j] \notin Order /\ t.ord[j] \in Order
<1> DEFINE n == Drawn(s)
<1>1. n \in Nat /\ k \in Nat /\ n + k \in Nat /\ n + k <= Cardinality(OrderIds)
  BY UsedFacts DEF Extended
<1>2. n + 1 .. n + k \subseteq OrderIds
  <2> HIDE DEF n
  <2> QED BY <1>1, IdFacts
<1>3. \A j \in n + 1 .. n + k : j \notin Used(s.ord)
  <2> HIDE DEF n
  <2> QED BY <1>1 DEF n
<1>4. \A i \in OrderIds : i \in Used(t.ord) <=> i \in Used(s.ord) \/ i \in n + 1 .. n + k
  BY <1>2, NoOrderAssumption DEF Extended, Used
<1>5. Used(t.ord) = 1 .. n + k
  <2>1. Used(t.ord) \subseteq OrderIds /\ Used(s.ord) \subseteq OrderIds
    BY DEF Used
  <2>2. Used(t.ord) = Used(s.ord) \cup (n + 1 .. n + k)
    BY <1>2, <1>4, <2>1
  <2> HIDE DEF n
  <2>3. (1 .. n) \cup (n + 1 .. n + k) = 1 .. n + k
    BY <1>1
  <2> QED BY <2>2, <2>3 DEF n
<1>6. Drawn(t) = n + k
  <2>1. Cardinality(0 + 1 .. n + k) = (n + k) - 0
    <3> DEFINE m == n + k
    <3>1. 0 \in Nat /\ m \in Nat /\ 0 <= m
      BY <1>1
    <3> HIDE DEF m
    <3>2. Cardinality(0 + 1 .. m) = m - 0
      BY <3>1, IdFacts
    <3> QED BY <3>2 DEF m
  <2> QED BY <1>1, <1>5, <2>1 DEF Drawn
<1>7. \A i \in OrderIds : s.ord[i] \in Order => i \notin n + 1 .. n + k
  BY <1>3, UsedFacts
<1> QED BY <1>2, <1>3, <1>5, <1>6, <1>7, UsedFacts DEF Extended

\* A report is applied.
LEMMA ReportKeeps ==
    ASSUME NEW s, NEW pending, NEW reports, Good(s, pending, reports), NEW r \in reports,
           NEW t, t = ApplyReport(s, r)
    PROVE  /\ \E k \in Nat, P \in SUBSET OrderIds : Applied(s, r, t, k, P)
           /\ Good(t, pending, reports \ {r})
           /\ \A i \in OrderIds : s.ord[i] \in Order => t.ord[i] = s.ord[i]
<1>1. /\ s \in StateType /\ r \in ReportType /\ s.ord[r.id] \in Order /\ Drawn(s) \in Nat
      /\ Drawn(s) + Cardinality(Planned(s.om)) <= Cardinality(OrderIds)
      /\ Used(s.ord) = 1 .. Drawn(s)
  BY UsedFacts DEF Good, MessageSound
<1>2. \E k \in Nat, P \in SUBSET OrderIds : Applied(s, r, t, k, P)
  BY <1>1, ReportApplied
<1>3. PICK k \in Nat, P \in SUBSET OrderIds : Applied(s, r, t, k, P)
  BY <1>2
<1> DEFINE n == Drawn(s)
           new == Requests(n, k)
<1>4. t \in StateType /\ Extended(s, t, k) /\ t.channel = s.channel \o new
  BY <1>3 DEF Applied, Extended
<1>5. /\ Used(t.ord) = 1 .. Drawn(t) /\ Drawn(t) = n + k
      /\ \A i \in OrderIds : s.ord[i] \in Order => t.ord[i] = s.ord[i]
      /\ \A j \in n + 1 .. n + k : j \in OrderIds /\ s.ord[j] \notin Order /\ t.ord[j] \in Order
  BY <1>1, <1>4, ExtendedProperties
<1> HIDE DEF n
<1>6. t.book = OnCancel(s.book, P) /\ s.book \in BookType
  BY <1>1, <1>3 DEF Applied, StateType
<1>7. /\ t.book.filled = s.book.filled /\ t.book.queue = s.book.queue
      /\ Active(t.book) = Active(s.book) \ P /\ BookSound(t.book, s.ord)
  BY <1>6, OnCancelProperties DEF Good
<1>8. BookSound(t.book, t.ord) /\ \A i \in ToSet(t.book.queue) : t.ord[i] \in Order
  <2>1. \A i \in ToSet(s.book.queue) : i \in OrderIds /\ s.ord[i] \in Order
    BY <1>6 DEF Good, BookType, ToSet
  <2> QED BY <1>5, <1>7, <2>1 DEF BookSound, Active
<1>9. Drawn(t) + Cardinality(Planned(t.om)) <= Cardinality(OrderIds)
  <2>1. Cardinality(Planned(t.om)) \in Nat /\ Cardinality(Planned(s.om)) \in Nat
        /\ Cardinality(OrderIds) \in Nat
    BY <1>1, <1>4, PlannedFacts, IdFacts DEF StateType
  <2>2. k + Cardinality(Planned(t.om)) <= Cardinality(Planned(s.om))
    BY <1>3 DEF Applied
  <2> QED BY <1>1, <1>5, <2>1, <2>2 DEF n
<1>10. /\ DOMAIN new = 1 .. k /\ Len(new) = k /\ new \in Seq(MessageType)
       /\ \A j \in 1 .. k : new[j].id = n + j /\ new[j].kind = "Request"
                            /\ n + j \in n + 1 .. n + k
  <2>1. n \in Nat /\ \A j \in 1 .. k : n + j \in n + 1 .. n + k
    BY <1>1 DEF n
  <2>2. \A j \in 1 .. k : [kind |-> "Request", id |-> n + j] \in MessageType
    BY <2>1, <1>5 DEF MessageType
  <2> QED BY <2>1, <2>2 DEF Requests
<1> HIDE DEF new
<1>11. s.channel \in Seq(MessageType)
  BY <1>1 DEF StateType
<1>12. /\ DOMAIN t.channel = 1 .. Len(s.channel) + k /\ Len(s.channel) \in Nat
       /\ \A x \in 1 .. Len(s.channel) + k :
             t.channel[x] = IF x <= Len(s.channel) THEN s.channel[x] ELSE new[x - Len(s.channel)]
  <2> DEFINE c == s.channel
  <2>1. c \in Seq(MessageType) /\ new \in Seq(MessageType) /\ Len(new) = k
        /\ t.channel = c \o new
    BY <1>4, <1>10, <1>11
  <2> HIDE DEF c
  <2>2. Len(c) \in Nat /\ Len(c \o new) = Len(c) + k /\ c \o new \in Seq(MessageType)
    BY <2>1, ConcatProperties, LenProperties
  <2>3. DOMAIN (c \o new) = 1 .. Len(c) + k
    BY <2>2
  <2>4. \A x \in 1 .. Len(c) + k : (c \o new)[x] = IF x <= Len(c) THEN c[x] ELSE new[x - Len(c)]
    BY <2>1, <2>2
  <2> QED BY <2>1, <2>2, <2>3, <2>4 DEF c
<1>13. \A x \in 1 .. Len(s.channel) :
          /\ s.channel[x] \in MessageType /\ MessageSound(s, s.channel[x])
          /\ s.channel[x].id \in OrderIds /\ s.ord[s.channel[x].id] \in Order
          /\ s.channel[x] \in ToSet(s.channel)
  <2>1. \A x \in 1 .. Len(s.channel) : s.channel[x] \in MessageType /\ s.channel[x] \in ToSet(s.channel)
    BY <1>11 DEF ToSet
  <2>2. \A m \in MessageType : m.id \in OrderIds
    BY DEF MessageType, ReportType
  <2> QED BY <2>1, <2>2 DEF Good, MessageSound
<1>14. \A m \in ToSet(t.channel) :
          \/ m \in ToSet(s.channel)
          \/ \E j \in 1 .. k : m = new[j]
  BY <1>12 DEF ToSet
<1>15. \A q \in reports : q.id \in OrderIds /\ s.ord[q.id] \in Order
  BY DEF Good, MessageSound, ReportType
<1>16. pending \in Seq(OrderIds) /\ \A i \in ToSet(pending) : i \in OrderIds /\ s.ord[i] \in Order
  <2>1. pending \in Seq(OrderIds)
    BY DEF Good, InOnePlace
  <2>2. ToSet(pending) \subseteq OrderIds
    BY <2>1 DEF ToSet
  <2> QED BY <2>1, <2>2 DEF Good, RequestSound
<1>17. InOnePlace(t, pending, reports \ {r})
  <2>1. ASSUME NEW x \in DOMAIN t.channel, NEW y \in DOMAIN t.channel,
               t.channel[x].id = t.channel[y].id
        PROVE  x = y
    <3> DEFINE c == Len(s.channel)
    <3>1. c \in Nat /\ DOMAIN s.channel = 1 .. c /\ x \in 1 .. c + k /\ y \in 1 .. c + k
      BY <1>11, <1>12
    <3>2. \A z \in 1 .. c : s.ord[s.channel[z].id] \in Order
      BY <1>13
    <3>3. \A z \in 1 .. c + k :
             t.channel[z] = IF z <= c THEN s.channel[z] ELSE new[z - c]
      BY <1>12
    <3>7. \A j \in 1 .. k : new[j].id = n + j /\ s.ord[n + j] \notin Order
      BY <1>5, <1>10
    <3> HIDE DEF c
    <3>8. \A z \in 1 .. c + k :
             z <= c => z \in 1 .. c /\ t.channel[z] = s.channel[z]
                       /\ s.ord[t.channel[z].id] \in Order
      <4> TAKE z \in 1 .. c + k
      <4> HAVE z <= c
      <4>1. z \in 1 .. c
        BY <3>1
      <4>2. t.channel[z] = s.channel[z]
        BY <3>3
      <4> QED BY <4>1, <4>2, <3>2
    <3>9. \A z \in 1 .. c + k :
             ~(z <= c) => t.channel[z].id = n + (z - c) /\ s.ord[t.channel[z].id] \notin Order
      <4> TAKE z \in 1 .. c + k
      <4> HAVE ~(z <= c)
      <4>1. z - c \in 1 .. k
        BY <3>1, k \in Nat, <1>10
      <4>2. t.channel[z] = new[z - c]
        BY <3>3
      <4> QED BY <4>1, <4>2, <3>7
    <3>4. CASE x <= c /\ y <= c
      BY <3>1, <3>8, <3>4, <2>1 DEF Good, InOnePlace
    <3>5. CASE ~(x <= c) /\ ~(y <= c)
      <4>1. n + (x - c) = n + (y - c) /\ n \in Nat
        BY <3>1, <3>9, <3>5, <2>1, <1>1 DEF n
      <4> QED BY <4>1, <3>1
    <3>6. ~(x <= c /\ ~(y <= c)) /\ ~(~(x <= c) /\ y <= c)
      BY <3>1, <3>8, <3>9, <2>1
    <3> QED BY <3>4, <3>5, <3>6
  <2>2. ASSUME NEW m \in ToSet(t.channel)
        PROVE  m.id \notin ToSet(pending) /\ \A q \in reports \ {r} : m.id # q.id
    <3>1. CASE m \in ToSet(s.channel)
      BY <3>1 DEF Good, InOnePlace
    <3>2. CASE \E j \in 1 .. k : m = new[j]
      BY <3>2, <1>5, <1>10, <1>15, <1>16
    <3> QED BY <3>1, <3>2, <1>14
  <2> QED BY <2>1, <2>2 DEF Good, InOnePlace
<1>21. \A i \in OrderIds :
          i # r.id /\ s.om.status[i] = Absent => t.om.status[i] = Absent
  BY <1>3, StatusFacts DEF Applied
<1>22. \A i \in OrderIds : t.om.status[i] # Absent => t.ord[i] \in Order
  BY <1>1, <1>5, <1>21 DEF Good
<1>18. ASSUME NEW m \in ToSet(t.channel) \cup (reports \ {r})
       PROVE  MessageSound(t, m)
  <2>1. CASE m \in ToSet(s.channel) \cup reports
    <3>1. MessageSound(s, m)
      BY <2>1 DEF Good
    <3>2. m.id \in OrderIds
      <4>1. \A d \in ToSet(s.channel) : d \in MessageType
        BY <1>11 DEF ToSet
      <4> QED BY <4>1, <2>1, <1>15 DEF MessageType, ReportType
    <3>3. m.kind # "Report" => m.id # r.id
      <4>1. m.kind # "Report" => m \in ToSet(s.channel)
        BY <2>1 DEF Good, ReportType
      <4> QED BY <4>1 DEF Good, InOnePlace
    <3> QED BY <3>1, <3>2, <3>3, <1>5, <1>7, <1>21 DEF MessageSound
  <2>2. CASE \E j \in 1 .. k : m = new[j]
    <3>1. PICK j \in 1 .. k : m = new[j]
      BY <2>2
    <3>2. m.id \in OrderIds /\ s.ord[m.id] \notin Order /\ t.ord[m.id] \in Order /\ m.kind = "Request"
      BY <3>1, <1>5, <1>10
    <3>3. m.id \notin ToSet(t.book.queue)
      BY <3>2, <1>7 DEF Good
    <3>4. s.om.status[m.id] = Absent /\ m.id # r.id
      BY <3>2, <1>1 DEF Good
    <3> QED BY <3>2, <3>3, <3>4, <1>21 DEF MessageSound
  <2> QED BY <2>1, <2>2, <1>14
<1>19. \A i \in ToSet(pending) : RequestSound(t, i)
  <2>1. \A i \in ToSet(pending) : i # r.id
    BY DEF Good, InOnePlace
  <2> QED BY <2>1, <1>5, <1>7, <1>16, <1>21 DEF Good, RequestSound
<1>20. reports \ {r} \subseteq ReportType
  BY DEF Good
<1> QED BY <1>2, <1>4, <1>5, <1>8, <1>9, <1>17, <1>18, <1>19, <1>20, <1>22 DEF Good

LEMMA StateFields ==
    ASSUME NEW s \in StateType
    PROVE  s = [om |-> s.om, book |-> s.book, ord |-> s.ord, channel |-> s.channel,
                ledger |-> s.ledger, suppressed |-> s.suppressed]
BY DEF StateType

LEMMA MessageIds ==
    ASSUME NEW s, NEW pending, NEW reports, Good(s, pending, reports)
    PROVE  /\ \A m \in ToSet(s.channel) : m \in MessageType /\ m.id \in OrderIds
           /\ \A r \in reports : r \in ReportType /\ r.id \in OrderIds
           /\ ToSet(pending) \subseteq OrderIds
<1>1. s.channel \in Seq(MessageType) /\ pending \in Seq(OrderIds) /\ reports \subseteq ReportType
  BY DEF Good, StateType, InOnePlace
<1>2. \A k \in DOMAIN s.channel : s.channel[k] \in MessageType
  BY <1>1
<1>3. \A k \in DOMAIN pending : pending[k] \in OrderIds
  BY <1>1
<1> QED BY <1>1, <1>2, <1>3 DEF ToSet, MessageType, ReportType

\* The order manager gets no new order and no new plan.
NothingAdded(r, t) ==
    /\ Cardinality(Planned(t)) <= Cardinality(Planned(r))
    /\ \A i \in OrderIds : r.status[i] = Absent => t.status[i] = Absent

\* Orders, book and channel are left alone; no plan is added.
LEMMA RestKeeps ==
    ASSUME NEW s, NEW pending, NEW reports, Good(s, pending, reports), NEW t \in StateType,
           t.ord = s.ord, t.channel = s.channel, t.book = s.book,
           NothingAdded(s.om, t.om)
    PROVE  Good(t, pending, reports)
<1>1. Drawn(t) = Drawn(s) /\ Drawn(s) \in Nat
  BY UsedFacts DEF Drawn, Good
<1>2. Drawn(t) + Cardinality(Planned(t.om)) <= Cardinality(OrderIds)
  <2>1. Cardinality(Planned(t.om)) \in Nat /\ Cardinality(Planned(s.om)) \in Nat
        /\ Cardinality(OrderIds) \in Nat
    BY PlannedFacts, IdFacts DEF StateType, Good
  <2> QED BY <2>1, <1>1 DEF Good, NothingAdded
<1>3. \A m : m.id \in OrderIds /\ MessageSound(s, m) => MessageSound(t, m)
  BY DEF MessageSound, NothingAdded
<1>4. \A i \in OrderIds : RequestSound(s, i) => RequestSound(t, i)
  BY DEF RequestSound, NothingAdded
<1>5. InOnePlace(t, pending, reports)
  BY DEF InOnePlace, Good
<1> QED BY <1>1, <1>2, <1>3, <1>4, <1>5, MessageIds DEF Good, NothingAdded

\* Orders become inactive in the client's book, and no new one enters its queue.
LEMMA BookKeeps ==
    ASSUME NEW s, NEW pending, NEW reports, Good(s, pending, reports), NEW t \in StateType,
           t.ord = s.ord, t.channel = s.channel,
           NothingAdded(s.om, t.om),
           BookSound(t.book, s.ord), ToSet(t.book.queue) \subseteq ToSet(s.book.queue),
           Active(t.book) \subseteq Active(s.book)
    PROVE  Good(t, pending, reports)
<1>1. Drawn(t) = Drawn(s) /\ Drawn(s) \in Nat
  BY UsedFacts DEF Drawn, Good
<1>2. Drawn(t) + Cardinality(Planned(t.om)) <= Cardinality(OrderIds)
  <2>1. Cardinality(Planned(t.om)) \in Nat /\ Cardinality(Planned(s.om)) \in Nat
        /\ Cardinality(OrderIds) \in Nat
    BY PlannedFacts, IdFacts DEF StateType, Good
  <2> QED BY <2>1, <1>1 DEF Good, NothingAdded
<1>3. \A m : m.id \in OrderIds /\ MessageSound(s, m) => MessageSound(t, m)
  BY DEF MessageSound, NothingAdded
<1>4. \A i \in OrderIds : RequestSound(s, i) => RequestSound(t, i)
  BY DEF RequestSound, NothingAdded
<1>5. InOnePlace(t, pending, reports)
  BY DEF InOnePlace, Good
<1> QED BY <1>1, <1>2, <1>3, <1>4, <1>5, MessageIds DEF Good, NothingAdded

\* New messages enter the channel.
LEMMA Enqueued ==
    ASSUME NEW s, NEW pending, Good(s, pending, {}), NEW q \in Seq(MessageType),
           \A k, l \in DOMAIN q : q[k].id = q[l].id => k = l,
           \A m \in ToSet(q) : /\ MessageSound(s, m) /\ m.id \notin ToSet(pending)
                               /\ \A d \in ToSet(s.channel) : d.id # m.id,
           NEW t \in StateType, t.ord = s.ord, t.channel = s.channel \o q, t.book = s.book,
           NothingAdded(s.om, t.om)
    PROVE  Good(t, pending, {})
<1> DEFINE c == s.channel
           n == Len(c)
<1>1. c \in Seq(MessageType) /\ n \in Nat
  BY DEF Good, StateType
<1>2. /\ DOMAIN t.channel = 1 .. n + Len(q) /\ Len(q) \in Nat /\ DOMAIN c = 1 .. n
      /\ DOMAIN q = 1 .. Len(q)
      /\ \A x \in 1 .. n + Len(q) : t.channel[x] = IF x <= n THEN c[x] ELSE q[x - n]
  <2> HIDE DEF c
  <2>1. c \o q \in Seq(MessageType) /\ Len(c \o q) = n + Len(q)
        /\ \A x \in 1 .. n + Len(q) : (c \o q)[x] = IF x <= n THEN c[x] ELSE q[x - n]
    BY <1>1, ConcatProperties
  <2>2. Len(q) \in Nat /\ DOMAIN (c \o q) = 1 .. n + Len(q)
    BY <2>1, LenProperties
  <2> QED BY <2>1, <2>2, <1>1 DEF c
<1>3. \A x \in 1 .. n + Len(q) :
         /\ x <= n => x \in DOMAIN c /\ t.channel[x] = c[x]
         /\ ~(x <= n) => x - n \in DOMAIN q /\ t.channel[x] = q[x - n]
  <2> HIDE DEF c, n
  <2> QED BY <1>1, <1>2
<1>4. ToSet(t.channel) \subseteq ToSet(c) \cup ToSet(q)
  <2> SUFFICES ASSUME NEW x \in DOMAIN t.channel
               PROVE  t.channel[x] \in ToSet(c) \cup ToSet(q)
    BY DEF ToSet
  <2>1. x \in 1 .. n + Len(q)
    BY <1>2
  <2> HIDE DEF c, n
  <2>2. CASE x <= n
    BY <2>1, <2>2, <1>3 DEF ToSet
  <2>3. CASE ~(x <= n)
    BY <2>1, <2>3, <1>3 DEF ToSet
  <2> QED BY <2>2, <2>3
<1>5. ASSUME NEW x \in DOMAIN t.channel, NEW y \in DOMAIN t.channel,
             t.channel[x].id = t.channel[y].id
      PROVE  x = y
  <2>1. x \in 1 .. n + Len(q) /\ y \in 1 .. n + Len(q) /\ x \in Nat /\ y \in Nat
    BY <1>2
  <2>2. \A k \in DOMAIN c, l \in DOMAIN q : c[k].id # q[l].id
    BY DEF ToSet
  <2>3. \A k, l \in DOMAIN c : c[k].id = c[l].id => k = l
    BY DEF Good, InOnePlace
  <2> HIDE DEF c, n
  <2>7. /\ x <= n => x \in DOMAIN c /\ t.channel[x] = c[x]
        /\ ~(x <= n) => x - n \in DOMAIN q /\ t.channel[x] = q[x - n]
    BY <2>1, <1>3
  <2>8. /\ y <= n => y \in DOMAIN c /\ t.channel[y] = c[y]
        /\ ~(y <= n) => y - n \in DOMAIN q /\ t.channel[y] = q[y - n]
    BY <2>1, <1>3
  <2>4. CASE x <= n /\ y <= n
    BY <2>3, <2>4, <2>7, <2>8, <1>5
  <2>5. CASE ~(x <= n) /\ ~(y <= n)
    <3>1. q[x - n].id = q[y - n].id /\ x - n \in DOMAIN q /\ y - n \in DOMAIN q
      BY <2>5, <2>7, <2>8, <1>5
    <3>2. x - n = y - n
      BY <3>1
    <3> QED BY <3>2, <2>1, <1>1
  <2>6. ~(x <= n /\ ~(y <= n)) /\ ~(~(x <= n) /\ y <= n)
    BY <2>2, <2>7, <2>8, <1>5
  <2> QED BY <2>4, <2>5, <2>6
<1>6. InOnePlace(t, pending, {})
  BY <1>4, <1>5 DEF Good, InOnePlace
<1>7. \A m \in ToSet(t.channel) : MessageSound(t, m)
  <2>1. \A m \in ToSet(q) : m.id \in OrderIds
    <3>1. \A k \in DOMAIN q : q[k] \in MessageType
      OBVIOUS
    <3> QED BY <3>1 DEF ToSet, MessageType, ReportType
  <2>2. \A m \in ToSet(c) \cup ToSet(q) : m.id \in OrderIds /\ MessageSound(s, m)
    BY <2>1, MessageIds DEF Good
  <2>3. \A m : m.id \in OrderIds /\ MessageSound(s, m) => MessageSound(t, m)
    BY DEF MessageSound, NothingAdded
  <2> QED BY <1>4, <2>2, <2>3
<1>8. Drawn(t) = Drawn(s) /\ Drawn(s) \in Nat
  BY UsedFacts DEF Drawn, Good
<1>9. Drawn(t) + Cardinality(Planned(t.om)) <= Cardinality(OrderIds)
  <2>1. Cardinality(Planned(t.om)) \in Nat /\ Cardinality(Planned(s.om)) \in Nat
        /\ Cardinality(OrderIds) \in Nat
    BY PlannedFacts, IdFacts DEF StateType, Good
  <2> QED BY <2>1, <1>8 DEF Good, NothingAdded
<1>10. \A i \in OrderIds : RequestSound(s, i) => RequestSound(t, i)
  BY DEF RequestSound, NothingAdded
<1>11. \A i \in ToSet(pending) : RequestSound(t, i)
  BY <1>10, MessageIds DEF Good
<1>12. \A i \in OrderIds : t.om.status[i] # Absent => t.ord[i] \in Order
  BY DEF Good, NothingAdded
<1> QED BY <1>6, <1>7, <1>8, <1>9, <1>11, <1>12 DEF Good

\* The client's answer to a call: its reports wait to be applied.
LEMMA CallKeeps ==
    ASSUME NEW s, NEW pending, Good(s, pending, {}), NEW times, NEW done,
           CallSound(s.book, s.ord, times, done),
           \A m \in ToSet(s.channel) : m.id \notin Active(s.book),
           NEW t \in StateType, t.om = s.om, t.ord = s.ord, t.channel = s.channel,
           t.book = done.book
    PROVE  /\ Good(t, pending, ToSet(done.reports))
           /\ \A r \in ToSet(done.reports) :
                 r.at \in times /\ Genuine(s.book, s.ord, done.book, r)
<1> DEFINE R == done.reports
<1>1. R \in Seq(ReportType) /\ Outcome(s.book, s.ord, done.book, R)
  BY DEF CallSound
<1>2. \A k \in DOMAIN R : R[k] \in ReportType /\ R[k].at \in times
                          /\ Genuine(s.book, s.ord, done.book, R[k])
  <2>1. \A k \in DOMAIN R : R[k] \in ReportType
    BY <1>1
  <2> QED BY <2>1, <1>1 DEF Outcome, CallSound
<1>3. \A r \in ToSet(R) : /\ r \in ReportType /\ r.at \in times
                          /\ Genuine(s.book, s.ord, done.book, r)
  BY <1>2 DEF ToSet
<1>4. \A r, q \in ToSet(R) : r.id = q.id => r = q
  BY <1>1 DEF Outcome, ToSet
<1> HIDE DEF R
<1>5. Active(done.book) \subseteq Active(s.book)
  BY <1>1 DEF Outcome
<1>6. Good(t, pending, {})
  <2>1. NothingAdded(s.om, t.om)
    <3>1. Cardinality(Planned(s.om)) \in Nat
      BY PlannedFacts DEF Good, StateType
    <3> QED BY <3>1 DEF NothingAdded
  <2> QED BY <2>1, <1>5, BookKeeps DEF CallSound
<1>7. \A i \in Active(s.book) : s.ord[i] \in Order /\ i \in ToSet(s.book.queue)
  BY DEF Good, BookSound
<1>8. \A r \in ToSet(R) : r.id \in Active(s.book) /\ MessageSound(t, r)
  BY <1>3, <1>7 DEF Genuine, MessageSound, ReportType
<1>9. \A i \in ToSet(pending) : i \notin Active(s.book)
  BY <1>7 DEF Good, RequestSound
<1>10. InOnePlace(t, pending, ToSet(R))
  BY <1>4, <1>6, <1>8, <1>9 DEF Good, InOnePlace
<1> QED BY <1>3, <1>6, <1>8, <1>10 DEF Good, R

\* Reports that waited enter the channel.
LEMMA ReportsEnqueued ==
    ASSUME NEW s, NEW pending, NEW R \in Seq(ReportType), Good(s, pending, ToSet(R)),
           \A k, l \in DOMAIN R : R[k].id = R[l].id => k = l,
           NEW t \in StateType, t.ord = s.ord, t.channel = s.channel \o R, t.book = s.book,
           NothingAdded(s.om, t.om)
    PROVE  Good(t, pending, {})
<1>1. Good(s, pending, {})
  BY DEF Good, InOnePlace
<1>2. R \in Seq(MessageType)
  <2>1. \A k \in 1 .. Len(R) : R[k] \in MessageType
    BY DEF MessageType
  <2> QED BY <2>1
<1>3. \A m \in ToSet(R) : /\ MessageSound(s, m) /\ m.id \notin ToSet(pending)
                          /\ \A d \in ToSet(s.channel) : d.id # m.id
  BY DEF Good, InOnePlace
<1> QED BY <1>1, <1>2, <1>3, Enqueued

-----------------------------------------------------------------------------
(***************************************************************************)
(* The channel.                                                            *)
(***************************************************************************)

LEMMA HeadTaken ==
    ASSUME NEW s, NEW pending, Good(s, pending, {}), s.channel # <<>>,
           NEW m, m = Head(s.channel),
           NEW u \in StateType, u.om = s.om, u.book = s.book, u.ord = s.ord,
           u.channel = Tail(s.channel)
    PROVE  /\ m \in MessageType /\ m.id \in OrderIds /\ MessageSound(u, m)
           /\ m \in ToSet(s.channel) /\ ToSet(u.channel) \subseteq ToSet(s.channel)
           /\ m.id \notin ToSet(pending) /\ \A d \in ToSet(u.channel) : d.id # m.id
           /\ Good(u, pending, {})
<1> DEFINE c == s.channel
           e == u.channel
<1>1. c \in Seq(MessageType) /\ c # <<>>
  BY DEF Good, StateType
<1>2. \A k, l \in DOMAIN c : c[k].id = c[l].id => k = l
  BY DEF Good, InOnePlace
<1>0. e = Tail(c) /\ m = Head(c)
  OBVIOUS
<1> HIDE DEF c, e
<1>3. /\ m = c[1] /\ 1 \in DOMAIN c /\ c[1] \in MessageType
      /\ \A k \in DOMAIN e : k + 1 \in DOMAIN c /\ e[k] = c[k + 1] /\ k + 1 # 1 /\ k \in Nat
  BY <1>0, <1>1
<1>4. m \in ToSet(c) /\ ToSet(e) \subseteq ToSet(c)
  BY <1>3 DEF ToSet
<1>5. \A k, l \in DOMAIN e : e[k].id = e[l].id => k = l
  BY <1>2, <1>3
<1>6. \A d \in ToSet(e) : d.id # m.id
  BY <1>2, <1>3 DEF ToSet
<1>7. InOnePlace(u, pending, {})
  BY <1>4, <1>5 DEF InOnePlace, Good, c, e
<1>8. \A d : MessageSound(s, d) => MessageSound(u, d)
  BY DEF MessageSound
<1>9. Good(u, pending, {})
  BY <1>4, <1>7, <1>8 DEF Good, RequestSound, Drawn, c, e
<1>10. m \in MessageType /\ m.id \in OrderIds
  BY <1>3 DEF MessageType, ReportType
<1> QED BY <1>4, <1>6, <1>8, <1>9, <1>10 DEF Good, InOnePlace, c, e

\* A request joins the pending ones.
LEMMA RequestTaken ==
    ASSUME NEW s, NEW pending, Good(s, pending, {}), NEW i \in OrderIds, RequestSound(s, i),
           i \notin ToSet(pending), \A m \in ToSet(s.channel) : m.id # i
    PROVE  Good(s, Append(pending, i), {})
<1> DEFINE q == Append(pending, i)
<1>1. pending \in Seq(OrderIds) /\ IsInjective(pending)
  BY DEF Good, InOnePlace
<1>2. /\ q \in Seq(OrderIds) /\ DOMAIN q = 1 .. Len(pending) + 1 /\ Len(pending) \in Nat
      /\ DOMAIN pending = 1 .. Len(pending)
      /\ \A k \in 1 .. Len(pending) : q[k] = pending[k]
      /\ q[Len(pending) + 1] = i
  BY <1>1
<1> HIDE DEF q
<1>3. ToSet(q) = ToSet(pending) \cup {i}
  BY <1>2 DEF ToSet
<1>4. IsInjective(q)
  BY <1>1, <1>2 DEF IsInjective, ToSet
<1>5. InOnePlace(s, q, {})
  BY <1>2, <1>3, <1>4 DEF Good, InOnePlace
<1> QED BY <1>3, <1>5 DEF Good, q

\* The client takes a validated order.
LEMMA OnOrderProperties ==
    ASSUME NEW b, NEW o, BookSound(b, o), NEW i \in OrderIds, i \notin ToSet(b.queue),
           o[i] \in Order, NEW c, c = OnOrder(b, i)
    PROVE  /\ BookSound(c, o) /\ ToSet(c.queue) = ToSet(b.queue) \cup {i}
           /\ \A j \in OrderIds : /\ c.status[j] = IF j = i THEN "Submitted" ELSE b.status[j]
                                 /\ c.filled[j] = IF j = i THEN 0 ELSE b.filled[j]
<1> DEFINE q == Append(b.queue, i)
           st == [b.status EXCEPT ![i] = "Submitted"]
           fi == [b.filled EXCEPT ![i] = 0]
<1>1. b \in BookType /\ b.queue \in Seq(OrderIds) /\ IsInjective(b.queue)
  BY DEF BookSound, BookType
<1>2. q \in Seq(OrderIds) /\ IsInjective(q) /\ ToSet(q) = ToSet(b.queue) \cup {i}
  <2> DEFINE p == b.queue
  <2>1. p \in Seq(OrderIds) /\ IsInjective(p) /\ i \notin ToSet(p)
    BY <1>1
  <2> HIDE DEF p
  <2>2. /\ Append(p, i) \in Seq(OrderIds) /\ DOMAIN Append(p, i) = 1 .. Len(p) + 1 /\ Len(p) \in Nat
        /\ DOMAIN p = 1 .. Len(p)
        /\ \A k \in 1 .. Len(p) : Append(p, i)[k] = p[k]
        /\ Append(p, i)[Len(p) + 1] = i
    BY <2>1
  <2>3. ToSet(Append(p, i)) = ToSet(p) \cup {i}
    BY <2>2 DEF ToSet
  <2>4. IsInjective(Append(p, i))
    BY <2>1, <2>2 DEF IsInjective, ToSet
  <2> QED BY <2>2, <2>3, <2>4 DEF p
<1>3. st \in [OrderIds -> Status \cup {Absent}] /\ fi \in [OrderIds -> Nat]
  BY <1>1, StatusFacts DEF BookType
<1>4. c = [b EXCEPT !.status = st, !.filled = fi, !.queue = q]
  BY DEF OnOrder
<1> HIDE DEF st, fi, q
<1>5. c \in BookType /\ c.status = st /\ c.filled = fi /\ c.queue = q
  BY <1>1, <1>2, <1>3, <1>4 DEF BookType
<1>6. \A j \in Active(c) : /\ o[j] \in Order /\ c.filled[j] < o[j].qty
                           /\ j \in ToSet(c.queue)
  <2> TAKE j \in Active(c)
  <2>1. CASE j = i
    BY <2>1, <1>1, <1>2, <1>5 DEF fi, Order, BookType
  <2>2. CASE j # i
    <3>1. j \in Active(b) /\ c.filled[j] = b.filled[j]
      BY <2>2, <1>1, <1>5 DEF fi, st, Active, BookType
    <3> QED BY <3>1, <1>2, <1>5 DEF BookSound
  <2> QED BY <2>1, <2>2
<1>7. \A j \in OrderIds : /\ c.status[j] = IF j = i THEN "Submitted" ELSE b.status[j]
                         /\ c.filled[j] = IF j = i THEN 0 ELSE b.filled[j]
  BY <1>1, <1>5 DEF st, fi, BookType
<1> QED BY <1>2, <1>5, <1>6, <1>7 DEF BookSound

LEMMA AddActiveProperties ==
    ASSUME NEW r \in RegistryType, NEW i \in OrderIds, NEW t, t = AddActive(r, i)
    PROVE  /\ t \in RegistryType /\ t.history = r.history /\ t.plans = r.plans /\ t.oco = r.oco
           /\ \A j \in OrderIds : /\ t.status[j] = IF j = i THEN "New" ELSE r.status[j]
                                 /\ t.filled[j] = IF j = i THEN 0 ELSE r.filled[j]
<1> DEFINE st == [r.status EXCEPT ![i] = "New"]
           fi == [r.filled EXCEPT ![i] = 0]
<1>1. st \in [OrderIds -> Status \cup {Absent}] /\ fi \in [OrderIds -> Nat]
  BY StatusFacts DEF RegistryType
<1>2. t = [r EXCEPT !.status = st, !.filled = fi]
  BY DEF AddActive
<1> HIDE DEF st, fi
<1>3. t \in RegistryType /\ t.history = r.history /\ t.plans = r.plans /\ t.oco = r.oco
      /\ t.status = st /\ t.filled = fi
  BY <1>1, <1>2 DEF RegistryType
<1> QED BY <1>3 DEF st, fi, RegistryType

LEMMA OrderTaken ==
    ASSUME NEW s, NEW pending, Good(s, pending, {}), NEW i \in OrderIds, RequestSound(s, i),
           i \notin ToSet(pending), \A m \in ToSet(s.channel) : m.id # i,
           NEW t \in StateType, t.om = AddActive(s.om, i), t.book = OnOrder(s.book, i),
           t.ord = s.ord, t.channel = s.channel
    PROVE  Good(t, pending, {})
<1>1. /\ BookSound(t.book, t.ord) /\ ToSet(t.book.queue) = ToSet(s.book.queue) \cup {i}
      /\ \A j \in OrderIds : t.book.status[j] = IF j = i THEN "Submitted" ELSE s.book.status[j]
  <2>1. BookSound(s.book, s.ord) /\ i \notin ToSet(s.book.queue) /\ s.ord[i] \in Order
    BY DEF Good, RequestSound
  <2>2. /\ BookSound(t.book, s.ord) /\ ToSet(t.book.queue) = ToSet(s.book.queue) \cup {i}
        /\ \A j \in OrderIds : t.book.status[j] = IF j = i THEN "Submitted" ELSE s.book.status[j]
    <3> DEFINE b == s.book
               o == s.ord
               c == t.book
    <3>1. BookSound(b, o) /\ i \notin ToSet(b.queue) /\ o[i] \in Order /\ c = OnOrder(b, i)
      BY <2>1
    <3> HIDE DEF b, o, c
    <3>2. /\ BookSound(c, o) /\ ToSet(c.queue) = ToSet(b.queue) \cup {i}
          /\ \A j \in OrderIds : c.status[j] = IF j = i THEN "Submitted" ELSE b.status[j]
      BY <3>1, OnOrderProperties
    <3> QED BY <3>2 DEF b, o, c
  <2> QED BY <2>2
<1>2. /\ t.om.plans = s.om.plans
      /\ \A j \in OrderIds : t.om.status[j] = IF j = i THEN "New" ELSE s.om.status[j]
  <2>1. s.om \in RegistryType
    BY DEF Good, StateType
  <2> QED BY <2>1, AddActiveProperties
<1>3. Drawn(t) = Drawn(s) /\ Planned(t.om) = Planned(s.om)
  BY <1>2 DEF Drawn, Planned
<1>4. \A j \in OrderIds \ {i} : t.om.status[j] = s.om.status[j]
                                /\ (j \in Active(t.book) => j \in Active(s.book))
  BY <1>1, <1>2 DEF Active
<1>5. \A m : m.id \in OrderIds \ {i} /\ MessageSound(s, m) => MessageSound(t, m)
  BY <1>1, <1>4 DEF MessageSound
<1>6. \A j \in OrderIds \ {i} : RequestSound(s, j) => RequestSound(t, j)
  BY <1>1, <1>4 DEF RequestSound
<1>7. \A m \in ToSet(t.channel) : MessageSound(t, m)
  BY <1>5, MessageIds DEF Good
<1>8. \A j \in ToSet(pending) : RequestSound(t, j)
  BY <1>6, MessageIds DEF Good
<1>9. InOnePlace(t, pending, {})
  BY DEF Good, InOnePlace
<1>10. \A j \in OrderIds : t.om.status[j] # Absent => t.ord[j] \in Order
  BY <1>4 DEF Good, RequestSound
<1>11. \A j \in ToSet(t.book.queue) : t.ord[j] \in Order
  BY <1>1 DEF Good, RequestSound
<1> QED BY <1>1, <1>3, <1>7, <1>8, <1>9, <1>10, <1>11 DEF Good, Drawn

\* The messages process_order_request sends for the requests ids.
Answers(ids, risk, at) ==
    [k \in DOMAIN ids |-> IF risk[ids[k]] = 0 THEN Report(ids[k], "Rejected", 0, 0, at)
                          ELSE [kind |-> "Validated", id |-> ids[k]]]

\* The orders after the checks, which may reduce a quantity.
Reduced(o, ids, risk) ==
    [i \in OrderIds |-> IF i \in ToSet(ids) /\ risk[i] # 0 THEN [o[i] EXCEPT !.qty = risk[i]]
                        ELSE o[i]]

LEMMA ReducedProperties ==
    ASSUME NEW o \in [OrderIds -> Order \cup {NoOrder}], NEW ids,
           \A i \in ToSet(ids) : o[i] \in Order, NEW risk, \A i \in ToSet(ids) : risk[i] \in Nat,
           NEW new, new = Reduced(o, ids, risk)
    PROVE  /\ new \in [OrderIds -> Order \cup {NoOrder}]
           /\ \A i \in OrderIds \ ToSet(ids) : new[i] = o[i]
           /\ \A i \in OrderIds : /\ new[i] \in Order <=> o[i] \in Order
                                  /\ o[i] \in Order => /\ new[i].offset = o[i].offset
                                                         /\ new[i].created = o[i].created
                                                         /\ new[i].tif = o[i].tif
<1>1. \A i \in OrderIds : new[i] = IF i \in ToSet(ids) /\ risk[i] # 0
                                   THEN [o[i] EXCEPT !.qty = risk[i]] ELSE o[i]
  BY DEF Reduced
<1>2. \A i \in OrderIds : i \in ToSet(ids) /\ risk[i] # 0 =>
         /\ new[i] \in Order /\ o[i] \in Order /\ new[i].offset = o[i].offset
         /\ new[i].created = o[i].created /\ new[i].tif = o[i].tif
  <2> SUFFICES ASSUME NEW i \in OrderIds, i \in ToSet(ids), risk[i] # 0
               PROVE  /\ new[i] \in Order /\ o[i] \in Order /\ new[i].offset = o[i].offset
                      /\ new[i].created = o[i].created /\ new[i].tif = o[i].tif
    OBVIOUS
  <2>1. o[i] \in Order /\ risk[i] \in Nat \ {0} /\ new[i] = [o[i] EXCEPT !.qty = risk[i]]
    BY <1>1
  <2> QED BY <2>1 DEF Order
<1>3. \A i \in OrderIds : new[i] \in Order \cup {NoOrder}
  BY <1>1, <1>2
<1>4. new \in [OrderIds -> Order \cup {NoOrder}]
  BY <1>3 DEF Reduced
<1> QED BY <1>1, <1>2, <1>4

\* Some of the pending requests are checked; the others wait.
LEMMA RequestsChecked ==
    ASSUME NEW s, NEW pending, Good(s, pending, {}), s.channel = <<>>,
           NEW ids \in Seq(OrderIds), IsInjective(ids),
           NEW rest \in Seq(OrderIds), IsInjective(rest),
           ToSet(ids) \subseteq ToSet(pending), ToSet(rest) \subseteq ToSet(pending) \ ToSet(ids),
           NEW risk, \A i \in ToSet(ids) : risk[i] \in Nat, NEW at \in Nat,
           NEW t, t.om = s.om, t.book = s.book, t.channel = Answers(ids, risk, at),
           t.ord = Reduced(s.ord, ids, risk),
           t.ledger \in LedgerType,
           t = [om |-> s.om, book |-> s.book, ord |-> t.ord, channel |-> t.channel,
                ledger |-> t.ledger, suppressed |-> s.suppressed]
    PROVE  Good(t, rest, {})
<1> DEFINE q == Answers(ids, risk, at)
<1>1. \A k \in DOMAIN ids : ids[k] \in OrderIds /\ ids[k] \in ToSet(ids)
  BY DEF ToSet
<1>2. \A i \in ToSet(ids) : i \in OrderIds /\ RequestSound(s, i)
  BY MessageIds DEF Good
<1>3. /\ t.ord \in [OrderIds -> Order \cup {NoOrder}]
      /\ \A i \in OrderIds \ ToSet(ids) : t.ord[i] = s.ord[i]
      /\ \A i \in OrderIds : t.ord[i] \in Order <=> s.ord[i] \in Order
  <2> DEFINE o == s.ord
             u == t.ord
  <2>1. /\ o \in [OrderIds -> Order \cup {NoOrder}] /\ \A i \in ToSet(ids) : o[i] \in Order
        /\ u = Reduced(o, ids, risk)
    BY <1>2 DEF Good, StateType, RequestSound
  <2> HIDE DEF o, u
  <2>2. /\ u \in [OrderIds -> Order \cup {NoOrder}]
        /\ \A i \in OrderIds \ ToSet(ids) : u[i] = o[i]
        /\ \A i \in OrderIds : u[i] \in Order <=> o[i] \in Order
    BY <2>1, ReducedProperties
  <2> QED BY <2>2 DEF o, u
<1>4. /\ DOMAIN q = DOMAIN ids /\ q \in Seq(MessageType)
      /\ \A k \in DOMAIN q : /\ q[k] \in MessageType /\ q[k].id = ids[k]
                             /\ q[k].kind = "Validated" \/ (/\ q[k].kind = "Report" /\ q[k].trade = 0
                                                            /\ q[k].status = "Rejected")
  <2>1. \A k \in DOMAIN ids : Report(ids[k], "Rejected", 0, 0, at) \in ReportType
    BY <1>1, StatusFacts DEF Report, ReportType
  <2>2. \A k \in DOMAIN ids : [kind |-> "Validated", id |-> ids[k]] \in MessageType
    BY <1>1 DEF MessageType
  <2>3. \A k \in DOMAIN ids :
           /\ q[k] \in MessageType /\ q[k].id = ids[k]
           /\ q[k].kind = "Validated" \/ (/\ q[k].kind = "Report" /\ q[k].trade = 0
                                          /\ q[k].status = "Rejected")
    <3>1. \A k \in DOMAIN ids : q[k] \in {Report(ids[k], "Rejected", 0, 0, at),
                                         [kind |-> "Validated", id |-> ids[k]]}
      BY DEF Answers
    <3> HIDE DEF q
    <3> QED BY <3>1, <2>1, <2>2 DEF MessageType, Report
  <2>4. DOMAIN q = DOMAIN ids /\ DOMAIN ids = 1 .. Len(ids) /\ Len(ids) \in Nat
    BY DEF Answers
  <2>5. q = [k \in 1 .. Len(ids) |-> q[k]]
    BY <2>4 DEF Answers
  <2> HIDE DEF q
  <2>6. q \in Seq(MessageType)
    <3>1. \A k \in 1 .. Len(ids) : q[k] \in MessageType
      BY <2>3, <2>4
    <3> QED BY <3>1, <2>4, <2>5
  <2> QED BY <2>3, <2>4, <2>6
<1> HIDE DEF q
<1>5. t.channel = q
  BY DEF q
<1>6. t \in StateType
  BY <1>3, <1>4, <1>5 DEF Good, StateType
<1>7. Used(t.ord) = Used(s.ord) /\ Drawn(t) = Drawn(s)
  <2>1. \A i \in OrderIds : i \in Used(t.ord) <=> i \in Used(s.ord)
    BY <1>3, <1>6, UsedFacts DEF Good
  <2>2. Used(t.ord) = Used(s.ord)
    BY <2>1 DEF Used
  <2> QED BY <2>2 DEF Drawn
<1>8. BookSound(t.book, t.ord)
  <2>1. \A i \in Active(s.book) : i \in OrderIds \ ToSet(ids)
    BY <1>2 DEF Good, BookSound, RequestSound, Active
  <2> QED BY <2>1, <1>3 DEF Good, BookSound
<1>9. \A m \in ToSet(t.channel) : MessageSound(t, m)
  <2>1. \A k \in DOMAIN q : MessageSound(t, q[k])
    <3> TAKE k \in DOMAIN q
    <3>1. q[k].id = ids[k] /\ ids[k] \in OrderIds /\ RequestSound(s, ids[k])
      BY <1>1, <1>2, <1>4
    <3>2. ids[k] \notin Active(s.book)
      BY <3>1 DEF Good, BookSound, RequestSound
    <3> QED BY <3>1, <3>2, <1>3, <1>4 DEF MessageSound, RequestSound
  <2> QED BY <2>1, <1>5 DEF ToSet
<1>10. InOnePlace(t, rest, {})
  <2>1. \A k, l \in DOMAIN q : q[k].id = q[l].id => k = l
    BY <1>4 DEF IsInjective
  <2>2. \A m \in ToSet(q) : m.id \notin ToSet(rest)
    <3>1. \A k \in DOMAIN q : q[k].id \in ToSet(ids)
      BY <1>1, <1>4
    <3>2. \A k \in DOMAIN q : q[k].id \notin ToSet(rest)
      BY <3>1
    <3> QED BY <3>2 DEF ToSet
  <2> QED BY <2>1, <2>2, <1>5 DEF InOnePlace
<1>11. \A i \in ToSet(rest) : RequestSound(t, i)
  <2>1. \A i \in ToSet(rest) : i \in OrderIds \ ToSet(ids) /\ RequestSound(s, i)
    BY MessageIds DEF Good
  <2> QED BY <2>1, <1>3 DEF RequestSound
<1>12. \A i \in ToSet(t.book.queue) : t.ord[i] \in Order
  <2>1. ToSet(s.book.queue) \subseteq OrderIds
    BY DEF Good, BookSound, BookType, ToSet
  <2> QED BY <2>1, <1>3 DEF Good
<1>13. \A i \in OrderIds : t.om.status[i] # Absent => t.ord[i] \in Order
  BY <1>3 DEF Good
<1> QED BY <1>6, <1>7, <1>8, <1>9, <1>10, <1>11, <1>12, <1>13 DEF Good

-----------------------------------------------------------------------------
(***************************************************************************)
(* The data stage.                                                         *)
(***************************************************************************)

\* A loop over reports: what holds of the state before the first one and is kept
\* by each one holds after the last.  P is a set of pairs of a place and a state.
LEMMA ReportsInduction ==
    ASSUME NEW acc, NEW T, NEW q \in Seq(T), NEW P, <<0, acc>> \in P,
           \A k \in 1 .. Len(q) : \A a : <<k - 1, a>> \in P => <<k, ApplyReport(a, q[k])>> \in P
    PROVE  <<Len(q), FoldLeft(ApplyReport, acc, q)>> \in P
<1> DEFINE n == Len(q)
           Step(a, r) == ApplyReport(a, r)
           Apply(G, s) == IF s = {} THEN acc ELSE Step(G[s \ {Max(s)}], q[Max(s)])
           Iter(k, G) == G = [s \in SUBSET (1 .. k) |-> Apply(G, s)]
<1>1. n \in Nat /\ DOMAIN q = 1 .. n
  OBVIOUS
<1>2. FoldLeft(ApplyReport, acc, q) = (CHOOSE G : Iter(n, G))[1 .. n]
  BY <1>1 DEF FoldLeft, MapThenFoldSet
<1>3. \A k \in 1 .. n : \A a : <<k - 1, a>> \in P => <<k, Step(a, q[k])>> \in P
  OBVIOUS
<1> HIDE DEF Step
<1>4. \E G : Iter(n, G)
  <2> DEFINE Has == {k \in Nat : \E G : Iter(k, G)}
  <2>1. 0 \in Has
    <3>1. Iter(0, [s \in SUBSET (1 .. 0) |-> acc])
      OBVIOUS
    <3> QED BY <3>1
  <2>2. ASSUME NEW k \in Nat, k \in Has
        PROVE  k + 1 \in Has
    <3>1. PICK G : Iter(k, G)
      BY <2>2
    <3> DEFINE H == [s \in SUBSET (1 .. k + 1) |->
                       IF s \in SUBSET (1 .. k) THEN G[s] ELSE Step(G[s \ {k + 1}], q[k + 1])]
    <3>2. ASSUME NEW s \in SUBSET (1 .. k + 1)
          PROVE  H[s] = Apply(H, s)
      <4>1. CASE s = {}
        BY <4>1, <3>1
      <4>2. CASE s # {} /\ s \in SUBSET (1 .. k)
        <5>1. Max(s) \in s
          BY <4>2, Greatest
        <5>2. s \ {Max(s)} \in SUBSET (1 .. k) /\ s \ {Max(s)} \in SUBSET (1 .. k + 1)
          BY <4>2
        <5> QED BY <4>2, <5>2, <3>1
      <4>3. CASE s \notin SUBSET (1 .. k)
        <5>1. k + 1 \in s
          BY <4>3
        <5>2. Max(s) = k + 1
          BY <5>1, Greatest, k + 1 \in Nat
        <5>3. s \ {k + 1} \in SUBSET (1 .. k) /\ s \ {k + 1} \in SUBSET (1 .. k + 1)
          OBVIOUS
        <5> QED BY <4>3, <5>1, <5>2, <5>3
      <4> QED BY <4>1, <4>2, <4>3
    <3>3. Iter(k + 1, H)
      <4> HIDE DEF H
      <4>1. H = [s \in SUBSET (1 .. k + 1) |-> H[s]]
        BY DEF H
      <4> QED BY <4>1, <3>2
    <3> HIDE DEF Iter
    <3> QED BY <3>3
  <2> HIDE DEF Has
  <2>3. Nat \subseteq Has
    BY <2>1, <2>2, SetInduction
  <2> QED BY <2>3, <1>1 DEF Has
<1> DEFINE F == CHOOSE G : Iter(n, G)
<1>5. Iter(n, F)
  <2> HIDE DEF Iter
  <2> QED BY <1>4
<1> HIDE DEF F
<1> DEFINE Kept == {k \in 0 .. n : <<k, F[1 .. k]>> \in P}
<1>6. 0 \in Kept
  <2>1. 1 .. 0 = {} /\ {} \in SUBSET (1 .. n)
    OBVIOUS
  <2> QED BY <2>1, <1>5, <1>1
<1>7. ASSUME NEW k \in 0 .. n - 1, k \in Kept
      PROVE  k + 1 \in Kept
  <2>1. k + 1 \in 1 .. k + 1 /\ k + 1 \in Nat /\ 1 .. k + 1 \in SUBSET (1 .. n)
    BY <1>1
  <2>2. Max(1 .. k + 1) = k + 1
    BY <2>1, Greatest
  <2>3. (1 .. k + 1) \ {k + 1} = 1 .. k
    OBVIOUS
  <2>4. F[1 .. k + 1] = Step(F[1 .. k], q[k + 1])
    BY <2>1, <2>2, <2>3, <1>5
  <2>5. k + 1 \in 1 .. n /\ (k + 1) - 1 = k
    BY <1>1
  <2>6. <<k, F[1 .. k]>> \in P
    BY <1>7
  <2> QED BY <2>4, <2>5, <2>6, <1>3
<1>8. n \in Kept
  <2> HIDE DEF Kept
  <2>1. \A k \in 0 .. n : k \in Kept
    BY <1>1, <1>6, <1>7, Rising
  <2> QED BY <2>1, <1>1
<1> QED BY <1>8, <1>2 DEF F

\* The ledger after a flush.
LEMMA FlushProperties ==
    ASSUME NEW l \in LedgerType
    PROVE  /\ Flush(l) \in LedgerType /\ Flush(l).unbooked = None
           /\ Flush(l).told = l.told /\ Flush(l).rejected = l.rejected
           /\ Flush(l).rejectsTold = l.rejectsTold
           /\ \A i \in OrderIds : /\ Flush(l).booked[i] = l.booked[i] + l.unbooked[i]
                                  /\ Flush(l).untold[i] = l.untold[i] + l.unbooked[i]
<1> DEFINE b == Plus(l.booked, l.unbooked)
           u == Plus(l.untold, l.unbooked)
<1>1. b \in Counts /\ u \in Counts /\ None \in Counts
  BY DEF Plus, None, Counts, LedgerType
<1>2. Flush(l) = [l EXCEPT !.unbooked = None, !.booked = b, !.untold = u]
  BY DEF Flush
<1> HIDE DEF b, u
<1>3. /\ Flush(l) \in LedgerType /\ Flush(l).unbooked = None /\ Flush(l).booked = b
      /\ Flush(l).untold = u /\ Flush(l).told = l.told /\ Flush(l).rejected = l.rejected
      /\ Flush(l).rejectsTold = l.rejectsTold
  BY <1>1, <1>2 DEF LedgerType
<1> QED BY <1>3 DEF b, u, Plus

\* The trades the reports of a call may bring: of an order the client matched, and
\* of a next-bar order only after its creation.
TradesAt(o, at, i) == o[i] \in Order /\ (o[i].offset = 1 => at > o[i].created)

\* The last match of a slice.
LEMMA LastMatchKeeps ==
    ASSUME NEW s, Good(s, <<>>, {}), s.channel = <<>>, s.ledger.unbooked = None,
           s.book = book, s.ord = ord, feed.last \in Nat, BarsSound(feed.bars, feed.last),
           SliceOpen, NEW v \in FinalVerdicts, NEW t, t = LastMatch(s, v)
    PROVE  /\ Good(t, <<>>, {}) /\ t.ledger.unbooked = None
           /\ \A m \in ToSet(t.channel) : m.kind = "Request"
           /\ \A i \in OrderIds : s.ord[i] \in Order => t.ord[i] = s.ord[i]
           /\ \A i \in OrderIds : t.ledger.booked[i] > s.ledger.booked[i]
                                    => TradesAt(s.ord, feed.last, i)
<1>0. s \in StateType /\ s.ledger \in LedgerType /\ BookSound(s.book, s.ord)
  BY DEF Good, StateType
<1>1. CASE feed.bars = {}
  <2>1. t = s
    BY <1>1 DEF LastMatch
  <2>2. ToSet(s.channel) = {}
    BY DEF ToSet
  <2>3. \A i \in OrderIds : ~(s.ledger.booked[i] > s.ledger.booked[i])
    BY <1>0 DEF LedgerType, Counts
  <2> QED BY <2>1, <2>2, <2>3
<1>2. CASE feed.bars # {}
  <2> DEFINE done == FinalizeTimestamp(s.book, s.ord, feed.bars, feed.last, feed.priced, v)
             u == [s EXCEPT !.book = done.book]
             R == done.reports
             n == Len(R)
             applied == FoldLeft(ApplyReport, u, R)
  <2>1. t = [applied EXCEPT !.ledger = Flush(@)]
    BY <1>2 DEF LastMatch
  <2>2. CallSound(s.book, s.ord, {feed.last}, done)
    <3>1. v \in VerdictsOf(s.book, s.ord, feed.bars, feed.priced,
                           ToFinalize(PrepareSlice(s.book, feed.last), s.ord, feed.last))
      BY DEF FinalVerdicts
    <3> HIDE DEF done
    <3>2. done = FinalizeTimestamp(s.book, s.ord, feed.bars, feed.last, feed.priced, v)
      BY DEF done
    <3> QED BY <1>0, <1>2, <3>1, <3>2, FinalizeTimestampSound
  <2> HIDE DEF done
  <2>3. /\ u \in StateType /\ u.om = s.om /\ u.ord = s.ord /\ u.channel = s.channel
        /\ u.book = done.book /\ u.ledger = s.ledger
    BY <1>0, <2>2 DEF CallSound, BookSound, StateType
  <2>4. ToSet(s.channel) = {}
    BY DEF ToSet
  <2> HIDE DEF u
  <2>5. /\ Good(u, <<>>, ToSet(R))
        /\ \A r \in ToSet(R) : r.at = feed.last /\ Genuine(s.book, s.ord, done.book, r)
    <3>1. \A m \in ToSet(s.channel) : m.id \notin Active(s.book)
      BY <2>4
    <3>2. /\ Good(u, <<>>, ToSet(done.reports))
          /\ \A r \in ToSet(done.reports) :
                r.at \in {feed.last} /\ Genuine(s.book, s.ord, done.book, r)
      BY <2>2, <2>3, <3>1, CallKeeps
    <3> QED BY <3>2
  <2>6. R \in Seq(ReportType) /\ \A k, l \in DOMAIN R : R[k].id = R[l].id => k = l
    BY <2>2 DEF CallSound, Outcome
  <2>7. \A i \in Active(s.book) : s.ord[i] \in Order
    BY <1>0 DEF BookSound
  <2>8. \A r \in ToSet(R) : /\ r \in ReportType /\ r.id \in OrderIds
                            /\ r.trade > 0 => TradesAt(s.ord, feed.last, r.id)
    BY <2>5, <2>7 DEF Good, ReportType, Genuine, TradesAt
  <2> HIDE DEF R
  <2> DEFINE Rest(k) == {R[l] : l \in k + 1 .. n}
             Half(k, a) ==
               /\ Good(a, <<>>, Rest(k))
               /\ \A m \in ToSet(a.channel) : m.kind = "Request"
               /\ \A i \in OrderIds : s.ord[i] \in Order => a.ord[i] = s.ord[i]
               /\ a.ledger.booked = s.ledger.booked
               /\ \A i \in OrderIds : a.ledger.unbooked[i] > 0 => TradesAt(s.ord, feed.last, i)
             P == {p \in (0 .. n) \X StateType : Half(p[1], p[2])}
  <2>9. n \in Nat /\ DOMAIN R = 1 .. n /\ \A k \in 1 .. n : R[k] \in ToSet(R) /\ R[k] \in ReportType
    BY <2>6 DEF ToSet
  <2> HIDE DEF n
  <2>10. <<0, u>> \in P
    <3>1. Rest(0) = ToSet(R)
      BY <2>9 DEF ToSet
    <3>2. \A i \in OrderIds : ~(u.ledger.unbooked[i] > 0)
      BY <2>3 DEF None
    <3>3. Half(0, u)
      BY <2>3, <2>4, <2>5, <3>1, <3>2
    <3> HIDE DEF Half
    <3> QED BY <2>3, <2>9, <3>3
  <2>11. ASSUME NEW k \in 1 .. n, NEW a, <<k - 1, a>> \in P
         PROVE  <<k, ApplyReport(a, R[k])>> \in P
    <3> DEFINE b == ApplyReport(a, R[k])
    <3>1. Half(k - 1, a) /\ k - 1 \in 0 .. n
      <4> HIDE DEF Half
      <4>1. \A p \in P : Half(p[1], p[2]) /\ p[1] \in 0 .. n
        OBVIOUS
      <4>2. <<k - 1, a>>[1] = k - 1 /\ <<k - 1, a>>[2] = a
        OBVIOUS
      <4> HIDE DEF P
      <4> QED BY <4>1, <4>2, <2>11
    <3>2. /\ R[k] \in Rest(k - 1) /\ Rest(k - 1) \ {R[k]} = Rest(k)
          /\ R[k] \in ReportType /\ R[k].trade \in Nat
          /\ R[k].trade > 0 => TradesAt(s.ord, feed.last, R[k].id)
      <4>1. (k - 1) + 1 = k /\ k \in Nat
        BY <2>9
      <4>2. Rest(k - 1) = Rest(k) \cup {R[k]}
        <5>1. k .. n = (k + 1 .. n) \cup {k}
          BY <2>9, <4>1
        <5> QED BY <4>1, <5>1
      <4>3. R[k] \notin Rest(k)
        BY <2>6, <2>9, <4>1
      <4>4. R[k] \in ReportType /\ R[k].trade \in Nat
        BY <2>9 DEF ReportType
      <4>5. R[k].trade > 0 => TradesAt(s.ord, feed.last, R[k].id)
        BY <2>8, <2>9
      <4> HIDE DEF Rest
      <4> QED BY <4>2, <4>3, <4>4, <4>5
    <3> HIDE DEF Rest, b
    <3>3. /\ \E kk \in Nat, PP \in SUBSET OrderIds : Applied(a, R[k], b, kk, PP)
          /\ Good(b, <<>>, Rest(k - 1) \ {R[k]})
          /\ \A i \in OrderIds : a.ord[i] \in Order => b.ord[i] = a.ord[i]
      BY <3>1, <3>2, ReportKeeps DEF b
    <3>4. PICK kk \in Nat, PP \in SUBSET OrderIds : Applied(a, R[k], b, kk, PP)
      BY <3>3
    <3>5. \A m \in ToSet(b.channel) : m.kind = "Request"
      <4>1. /\ b.channel = a.channel \o Requests(Drawn(a), kk) /\ a.channel \in Seq(MessageType)
            /\ b.channel \in Seq(MessageType)
        BY <3>1, <3>3, <3>4 DEF Applied, Extended, Good, StateType
      <4> DEFINE c == a.channel
                 d == Requests(Drawn(a), kk)
      <4>2. DOMAIN d = 1 .. kk /\ Len(d) = kk /\ \A j \in 1 .. kk : d[j].kind = "Request"
        BY DEF Requests
      <4>3. \A j \in DOMAIN c : c[j].kind = "Request"
        BY <3>1 DEF ToSet
      <4>4. c \o d \in Seq(MessageType) /\ b.channel = c \o d /\ c \in Seq(MessageType)
        BY <4>1
      <4> HIDE DEF c, d
      <4>5. \A j \in DOMAIN (c \o d) : (c \o d)[j].kind = "Request"
        <5>1. \A j \in 1 .. Len(c) + kk : (c \o d)[j] = IF j <= Len(c) THEN c[j] ELSE d[j - Len(c)]
          BY <4>2, <4>4
        <5>2. DOMAIN (c \o d) = 1 .. Len(c) + kk /\ Len(c) \in Nat /\ DOMAIN c = 1 .. Len(c)
          BY <4>2, <4>4
        <5> QED BY <5>1, <5>2, <4>2, <4>3
      <4> QED BY <4>4, <4>5 DEF ToSet
    <3>6. b \in StateType /\ a \in StateType /\ a.ledger \in LedgerType
      BY <3>1, <3>3 DEF Good, StateType
    <3>7. \A i \in OrderIds : b.ledger.unbooked[i] > 0 => TradesAt(s.ord, feed.last, i)
      <4>1. \A i \in OrderIds : b.ledger.unbooked[i] =
              IF i = R[k].id /\ ~Dropped(a, R[k])
              THEN a.ledger.unbooked[i] + R[k].trade ELSE a.ledger.unbooked[i]
        BY <3>4 DEF Applied
      <4>2. \A i \in OrderIds : a.ledger.unbooked[i] \in Nat
        BY <3>6 DEF LedgerType, Counts
      <4>3. \A i \in OrderIds : b.ledger.unbooked[i] > 0
                => a.ledger.unbooked[i] > 0 \/ (i = R[k].id /\ R[k].trade > 0)
        BY <4>1, <4>2, <3>2
      <4> QED BY <4>3, <3>1, <3>2
    <3>8. Half(k, b)
      BY <3>1, <3>2, <3>3, <3>4, <3>5, <3>7 DEF Applied
    <3> HIDE DEF Half
    <3> QED BY <3>6, <3>8 DEF b
  <2>12. <<n, applied>> \in P
    <3> HIDE DEF P
    <3> QED BY <2>6, <2>10, <2>11, ReportsInduction DEF n
  <2>13. Half(n, applied)
    <3> HIDE DEF Half
    <3>1. \A p \in P : Half(p[1], p[2])
      OBVIOUS
    <3>2. <<n, applied>>[1] = n /\ <<n, applied>>[2] = applied
      OBVIOUS
    <3> HIDE DEF P
    <3> QED BY <2>12, <3>1, <3>2
  <2>14. Rest(n) = {}
    BY <2>9
  <2> HIDE DEF applied, Rest
  <2>15. applied \in StateType /\ applied.ledger \in LedgerType
    BY <2>13 DEF Good, StateType
  <2>16. /\ t \in StateType /\ t.om = applied.om /\ t.ord = applied.ord /\ t.book = applied.book
         /\ t.channel = applied.channel /\ t.ledger = Flush(applied.ledger)
    BY <2>1, <2>15, FlushProperties DEF StateType
  <2>17. Good(t, <<>>, {})
    <3>1. Cardinality(Planned(applied.om)) \in Nat
      BY <2>15, PlannedFacts DEF StateType
    <3>2. NothingAdded(applied.om, t.om)
      BY <2>16, <3>1 DEF NothingAdded
    <3>3. Good(applied, <<>>, {})
      BY <2>13, <2>14
    <3> QED BY <2>16, <3>2, <3>3, RestKeeps
  <2>18. \A i \in OrderIds : t.ledger.booked[i] > s.ledger.booked[i]
                               => TradesAt(s.ord, feed.last, i)
    <3> DEFINE l == applied.ledger
               e == s.ledger
               f == t.ledger
    <3>0. l \in LedgerType /\ e \in LedgerType /\ f = Flush(l) /\ l.booked = e.booked
      BY <1>0, <2>13, <2>15, <2>16 DEF Good, StateType
    <3> HIDE DEF l, e, f
    <3>1. \A i \in OrderIds : /\ f.booked[i] = e.booked[i] + l.unbooked[i]
                              /\ e.booked[i] \in Nat /\ l.unbooked[i] \in Nat
      <4>1. \A i \in OrderIds : f.booked[i] = l.booked[i] + l.unbooked[i]
        BY <3>0, FlushProperties
      <4>2. l.unbooked \in Counts /\ e.booked \in Counts
        BY <3>0 DEF LedgerType
      <4> QED BY <3>0, <4>1, <4>2 DEF Counts
    <3> USE DEF l, e, f
    <3>2. \A i \in OrderIds : t.ledger.booked[i] > s.ledger.booked[i]
                                => applied.ledger.unbooked[i] > 0
      BY <3>1
    <3> QED BY <3>2, <2>13
  <2> QED BY <2>13, <2>15, <2>16, <2>17, <2>18, FlushProperties
<1> QED BY <1>1, <1>2

\* No message is about an order that works at the client: a call of the client
\* then reports on none that has a message already.
Quiet(s) == \A m \in ToSet(s.channel) : m.id \notin Active(s.book)

\* The rejections for missing symbols.
LEMMA RejectMissingKeeps ==
    ASSUME NEW s, Good(s, <<>>, {}), feed.last \in Nat,
           \A m \in ToSet(s.channel) : m.kind = "Request",
           NEW t, t = RejectMissing(s)
    PROVE  /\ Good(t, <<>>, {}) /\ Quiet(t)
           /\ t.om = s.om /\ t.ord = s.ord /\ t.ledger = s.ledger
<1> DEFINE X == MissingSymbol(s)
           ids == Ascending(X)
           q == MissingReports(s)
           b == s.book
           c == OnCancel(b, X)
           u == [om |-> s.om, book |-> c, ord |-> s.ord, channel |-> s.channel,
                 ledger |-> s.ledger, suppressed |-> s.suppressed]
<1>1. s \in StateType /\ b \in BookType /\ BookSound(b, s.ord) /\ s.om \in RegistryType
  BY DEF Good, StateType
<1>2. X \subseteq OrderIds /\ \A i \in X : s.om.status[i] \in {"New", "Submitted"}
  BY DEF MissingSymbol
<1>3. \A i \in X : s.ord[i] \in Order
  BY <1>2 DEF Good, Absent
<1>4. X \in SUBSET Nat /\ IsFiniteSet(X)
  BY <1>2, IdFacts, FS_Subset
<1> HIDE DEF X, b
<1>5. /\ ids \in Seq(X) /\ \A k, l \in DOMAIN ids : ids[k] = ids[l] => k = l
  BY <1>4, AscendingProperties
<1>6. /\ c \in BookType /\ Active(c) = Active(b) \ X /\ BookSound(c, s.ord)
      /\ c.queue = b.queue
  BY <1>1, OnCancelProperties
<1>7. Cardinality(Planned(s.om)) \in Nat
  BY <1>1, PlannedFacts
<1>8. NothingAdded(s.om, s.om)
  BY <1>7 DEF NothingAdded
<1> HIDE DEF c
<1>9. u \in StateType
  BY <1>1, <1>6 DEF StateType
<1>10. Good(u, <<>>, {})
  <2>1. ToSet(u.book.queue) \subseteq ToSet(s.book.queue)
    BY <1>6 DEF b
  <2>2. Active(u.book) \subseteq Active(s.book)
    <3>1. Active(u.book) = Active(c) /\ Active(s.book) = Active(b)
      BY DEF b
    <3> QED BY <3>1, <1>6
  <2>3. u.ord = s.ord /\ u.channel = s.channel /\ u.om = s.om /\ BookSound(u.book, s.ord)
    BY <1>6
  <2> HIDE DEF u
  <2> QED BY <1>8, <1>9, <2>1, <2>2, <2>3, BookKeeps
<1>11. /\ DOMAIN q = DOMAIN ids
       /\ \A k \in DOMAIN q : /\ ids[k] \in X
                              /\ q[k] = Report(ids[k], "Rejected", s.om.filled[ids[k]], 0, feed.last)
  BY <1>5 DEF MissingReports, X
<1>12. \A k \in DOMAIN q : q[k] \in ReportType /\ q[k].id = ids[k] /\ q[k].status = "Rejected"
                           /\ q[k].trade = 0
  <2>1. \A i \in X : s.om.filled[i] \in Nat
    BY <1>1, <1>2 DEF RegistryType
  <2> QED BY <1>2, <1>11, <2>1, StatusFacts DEF Report, ReportType
<1>13. q \in Seq(MessageType)
  <2>1. DOMAIN q = 1 .. Len(ids) /\ Len(ids) \in Nat
    BY <1>5, <1>11
  <2>2. q = [k \in 1 .. Len(ids) |-> q[k]]
    BY <1>5 DEF MissingReports, X
  <2> HIDE DEF q
  <2> QED BY <2>1, <2>2, <1>12 DEF MessageType
<1>14. \A k, l \in DOMAIN q : q[k].id = q[l].id => k = l
  BY <1>5, <1>11, <1>12
<1>15. \A m \in ToSet(q) : /\ m \in ReportType /\ m.id \in X /\ m.trade = 0 /\ m.status = "Rejected"
  BY <1>11, <1>12 DEF ToSet
<1> HIDE DEF q, u
<1>16. \A m \in ToSet(s.channel) : m.id \notin X
  BY <1>2 DEF Good, MessageSound, Absent
<1>17. \A m \in ToSet(q) : /\ MessageSound(u, m) /\ m.id \notin ToSet(<<>>)
                           /\ \A d \in ToSet(u.channel) : d.id # m.id
  <2> TAKE m \in ToSet(q)
  <2>1. m.id \in X /\ m.kind = "Report" /\ m.trade = 0 /\ m.id \notin Active(c)
    BY <1>6, <1>15 DEF ReportType
  <2>2. u.book = c /\ u.ord = s.ord /\ u.channel = s.channel
    BY DEF u
  <2>3. MessageSound(u, m)
    BY <1>3, <2>1, <2>2 DEF MessageSound
  <2>4. ToSet(<<>>) = {}
    BY DEF ToSet
  <2> QED BY <1>16, <2>1, <2>2, <2>3, <2>4
<1>18. /\ t.om = s.om /\ t.ord = s.ord /\ t.ledger = s.ledger /\ t.book = c
       /\ t.channel = s.channel \o q /\ t \in StateType
  <2>1. s.channel \o q \in Seq(MessageType)
    BY <1>1, <1>13 DEF StateType
  <2>2. t = [s EXCEPT !.book = c, !.channel = s.channel \o q]
    BY DEF RejectMissing, c, b, X, q
  <2> DEFINE ch == s.channel \o q
  <2> HIDE DEF ch
  <2>3. ch \in Seq(MessageType) /\ t = [s EXCEPT !.book = c, !.channel = ch]
    BY <2>1, <2>2 DEF ch
  <2>4. /\ t.om = s.om /\ t.ord = s.ord /\ t.ledger = s.ledger /\ t.book = c
        /\ t.channel = ch /\ t \in StateType
    BY <2>3, <1>1, <1>6 DEF StateType
  <2> QED BY <2>4 DEF ch
<1>19. u.om = s.om /\ u.ord = s.ord /\ u.book = c /\ u.channel = s.channel
  BY DEF u
<1>20. Good(t, <<>>, {})
  BY <1>8, <1>10, <1>13, <1>14, <1>17, <1>18, <1>19, Enqueued
<1>21. Quiet(t)
  <2> SUFFICES ASSUME NEW m \in ToSet(t.channel)
               PROVE  m.id \notin Active(t.book)
    BY DEF Quiet
  <2>1. m \in ToSet(s.channel) \/ m \in ToSet(q)
    <3> DEFINE d == s.channel
    <3>1. d \in Seq(MessageType) /\ t.channel = d \o q
      BY <1>1, <1>18 DEF StateType
    <3> HIDE DEF d
    <3>2. m \in ToSet(d) \cup ToSet(q)
      BY <3>1, <1>13, ConcatProperties, LenProperties DEF ToSet
    <3> QED BY <3>2 DEF d
  <2>2. CASE m \in ToSet(s.channel)
    <3>1. m.id \notin ToSet(s.book.queue)
      BY <2>2 DEF Good, MessageSound
    <3>2. m.id \notin Active(b)
      BY <3>1, <1>1 DEF BookSound, b
    <3> QED BY <3>2, <1>6, <1>18
  <2>3. CASE m \in ToSet(q)
    BY <2>3, <1>6, <1>15, <1>18
  <2> QED BY <2>1, <2>2, <2>3
<1> QED BY <1>18, <1>20, <1>21

\* Orders move to the history at the settlement.
LEMMA ExpireProperties ==
    ASSUME NEW r \in RegistryType, NEW S,
           NEW t, t = ExpireAtSettlement(r, S)
    PROVE  /\ t \in RegistryType /\ t.oco = r.oco /\ t.plans = r.plans
           /\ \A i \in OrderIds : t.status[i] = IF i \in S THEN Absent ELSE r.status[i]
           /\ \A i \in OrderIds : t.filled[i] = IF i \in S THEN 0 ELSE r.filled[i]
           /\ \A i \in OrderIds : t.history[i] =
                 IF i \in S
                 THEN Append(r.history[i], [status |-> "Expired", filled |-> r.filled[i]])
                 ELSE r.history[i]
<1> DEFINE st == [i \in OrderIds |-> IF i \in S THEN Absent ELSE r.status[i]]
           fi == [i \in OrderIds |-> IF i \in S THEN 0 ELSE r.filled[i]]
           hi == [i \in OrderIds |-> IF i \in S THEN Append(r.history[i],
                                          [status |-> "Expired", filled |-> r.filled[i]])
                                   ELSE r.history[i]]
<1>1. t = [r EXCEPT !.status = st, !.filled = fi, !.history = hi]
  BY DEF ExpireAtSettlement
<1>2. st \in [OrderIds -> Status \cup {Absent}] /\ fi \in [OrderIds -> Nat]
  BY DEF RegistryType
<1>3. hi \in [OrderIds -> Seq(Row)]
  <2>1. \A i \in OrderIds : r.history[i] \in Seq(Row) /\ r.filled[i] \in Nat
    BY DEF RegistryType
  <2>2. \A i \in OrderIds : [status |-> "Expired", filled |-> r.filled[i]] \in Row
    BY <2>1, StatusFacts DEF Row
  <2>3. \A i \in OrderIds : hi[i] \in Seq(Row)
    BY <2>1, <2>2
  <2> QED BY <2>3
<1> HIDE DEF st, fi, hi
<1>4. /\ t \in RegistryType /\ t.oco = r.oco /\ t.plans = r.plans
      /\ t.status = st /\ t.filled = fi /\ t.history = hi
  BY <1>1, <1>2, <1>3 DEF RegistryType
<1> QED BY <1>4 DEF st, fi, hi

LEMMA SettleKeeps ==
    ASSUME NEW s, Good(s, <<>>, {}), NEW t, t = SettleDay(s)
    PROVE  /\ Good(t, <<>>, {}) /\ (Quiet(s) => Quiet(t))
           /\ t.ord = s.ord /\ t.ledger = s.ledger /\ t.channel = s.channel
<1> DEFINE X == ExpiredDayOrders(s)
           b == s.book
           c == OnCancel(b, X)
           r == s.om
           o == ExpireAtSettlement(r, X)
<1>1. s \in StateType /\ b \in BookType /\ BookSound(b, s.ord) /\ r \in RegistryType
  BY DEF Good, StateType
<1>2. X \subseteq OrderIds /\ \A i \in X : r.status[i] # Absent
  BY DEF ExpiredDayOrders
<1>3. t = [s EXCEPT !.om = o, !.book = c]
  BY DEF SettleDay
<1> HIDE DEF X, b, r
<1>4. /\ c \in BookType /\ Active(c) = Active(b) \ X /\ BookSound(c, s.ord)
      /\ c.queue = b.queue
  BY <1>1, OnCancelProperties
<1>5. /\ o \in RegistryType /\ o.plans = r.plans
      /\ \A i \in OrderIds : o.status[i] = IF i \in X THEN Absent ELSE r.status[i]
  <2>2. o = ExpireAtSettlement(r, X)
    OBVIOUS
  <2> HIDE DEF o
  <2>3. o \in RegistryType
    BY <1>1, <2>2, ExpireProperties
  <2>4. o.plans = r.plans
    BY <1>1, <2>2, ExpireProperties
  <2>5. \A i \in OrderIds : o.status[i] = IF i \in X THEN Absent ELSE r.status[i]
    BY <1>1, <2>2, ExpireProperties
  <2> QED BY <2>3, <2>4, <2>5
<1>6. NothingAdded(r, o)
  <2>1. Cardinality(Planned(r)) \in Nat
    BY <1>1, PlannedFacts
  <2>2. Planned(o) = Planned(r)
    BY <1>5 DEF Planned
  <2> HIDE DEF o
  <2>3. Cardinality(Planned(o)) <= Cardinality(Planned(r))
    BY <2>1, <2>2
  <2> QED BY <1>5, <2>3 DEF NothingAdded
<1> HIDE DEF c, o
<1>7. /\ t.om = o /\ t.ord = s.ord /\ t.ledger = s.ledger /\ t.book = c
      /\ t.channel = s.channel /\ t \in StateType
  BY <1>1, <1>3, <1>4, <1>5 DEF StateType
<1>8. Active(t.book) = Active(s.book) \ X /\ t.book.queue = s.book.queue
  BY <1>4, <1>7 DEF b
<1>9. NothingAdded(s.om, t.om) /\ BookSound(t.book, s.ord)
  BY <1>4, <1>6, <1>7 DEF r
<1>10. Good(t, <<>>, {})
  BY <1>7, <1>8, <1>9, BookKeeps
<1> QED BY <1>7, <1>8, <1>10 DEF Quiet

LEMMA CleanupProperties ==
    ASSUME NEW r \in RegistryType, NEW t, t = Cleanup(r)
    PROVE  /\ t \in RegistryType
           /\ \A i \in OrderIds : t.plans[i] \subseteq r.plans[i]
           /\ \A i \in OrderIds : t.oco.groupOf[i] \in {r.oco.groupOf[i], NoGroup}
           /\ \A i \in OrderIds :
                 t.status[i] = IF r.status[i] \in Finished THEN Absent ELSE r.status[i]
           /\ \A i \in OrderIds :
                 t.filled[i] = IF r.status[i] \in Finished THEN 0 ELSE r.filled[i]
           /\ \A i \in OrderIds : t.history[i] =
                 IF r.status[i] \in Finished
                 THEN Append(r.history[i], [status |-> r.status[i], filled |-> r.filled[i]])
                 ELSE r.history[i]
<1> DEFINE done == {i \in OrderIds : r.status[i] \in Finished}
           lost == {i \in OrderIds : r.status[i] \in Finished \ {"Filled"}}
           oco == Detach(r.oco, lost)
           st == [i \in OrderIds |-> IF i \in done THEN Absent ELSE r.status[i]]
           fi == [i \in OrderIds |-> IF i \in done THEN 0 ELSE r.filled[i]]
           hi == [i \in OrderIds |-> IF i \in done THEN Append(r.history[i],
                                          [status |-> r.status[i], filled |-> r.filled[i]])
                                   ELSE r.history[i]]
           pl == [i \in OrderIds |-> IF i \in lost THEN {} ELSE r.plans[i]]
<1>1. t = [status |-> st, filled |-> fi, history |-> hi, oco |-> oco, plans |-> pl]
  BY DEF Cleanup, Archive
<1>2. st \in [OrderIds -> Status \cup {Absent}] /\ fi \in [OrderIds -> Nat]
  BY DEF RegistryType
<1>3. hi \in [OrderIds -> Seq(Row)]
  <2>1. \A i \in OrderIds : r.history[i] \in Seq(Row) /\ r.filled[i] \in Nat
    BY DEF RegistryType
  <2>2. \A i \in done : [status |-> r.status[i], filled |-> r.filled[i]] \in Row
    BY <2>1, StatusFacts DEF Row
  <2>3. \A i \in OrderIds : hi[i] \in Seq(Row)
    BY <2>1, <2>2
  <2> QED BY <2>3
<1>4. pl \in [OrderIds -> SUBSET Exits]
  BY DEF RegistryType
<1>5. /\ oco \in OcoType /\ \A j \in OrderIds : oco.groupOf[j] \in {r.oco.groupOf[j], NoGroup}
  <2> HIDE DEF lost
  <2> QED BY DetachTyped DEF RegistryType
<1> HIDE DEF st, fi, hi, oco, pl
<1>6. t \in RegistryType
  BY <1>1, <1>2, <1>3, <1>4, <1>5 DEF RegistryType
<1>7. /\ t.oco = oco /\ t.plans = pl /\ t.status = st /\ t.filled = fi /\ t.history = hi
  BY <1>1
<1>8. \A j \in OrderIds : t.oco.groupOf[j] \in {r.oco.groupOf[j], NoGroup}
  BY <1>5, <1>7
<1> QED BY <1>6, <1>7, <1>8 DEF st, fi, hi, pl

-----------------------------------------------------------------------------
(***************************************************************************)
(* A callback of the strategy.                                             *)
(***************************************************************************)

\* The pair or the plan of the new orders, of which the first is n + 1.
LEMMA LinkOrdersProperties ==
    ASSUME om \in RegistryType, NEW m \in Moves, NEW n \in Nat,
           n + Len(m.orders) <= Cardinality(OrderIds),
           NEW t, t = LinkOrders(m, n)
    PROVE  /\ t \in RegistryType /\ t.status = om.status /\ t.filled = om.filled
           /\ t.history = om.history
           /\ m.orders \in Seq(Order) /\ Len(m.orders) \in Nat /\ Cardinality(m.exits) \in Nat
           /\ ~m.oco => t.oco = om.oco
           /\ \A i \in OrderIds : t.plans[i] \in {om.plans[i], m.exits}
           /\ Cardinality(Planned(t)) <= Cardinality(Planned(om)) + Cardinality(m.exits)
<1> DEFINE g == <<"oco", n + 1>>
           oco == IF m.oco THEN RegisterOco(om.oco, g, n + 1, n + 2) ELSE om.oco
           bound == [om EXCEPT !.oco = oco]
           k == Len(m.orders)
           plans == IF m.exits = {} THEN om.plans ELSE [om.plans EXCEPT ![n + 1] = m.exits]
           N == Cardinality(OrderIds)
<1>1. /\ m.orders \in Seq(Order) /\ m.oco \in BOOLEAN /\ m.exits \in SUBSET Exits
      /\ m.oco => k = 2 /\ m.exits = {}
      /\ m.exits # {} => k = 1
  BY MovesAssumption
<1>2. k \in Nat
  BY <1>1
<1>3. OrderIds = 1 .. N /\ N \in Nat
  BY OrderIdsAssumption, IdFacts
<1>4. /\ m.oco => n + 1 \in OrderIds /\ n + 2 \in OrderIds
      /\ m.exits # {} => n + 1 \in OrderIds
  <2>1. n + k <= N /\ (m.oco => k = 2) /\ (m.exits # {} => k = 1)
    BY <1>1
  <2> HIDE DEF k, N
  <2> QED BY <2>1, <1>2, <1>3
<1>5. m.oco => n + 2 \in OrderIds
  BY <1>4
<1>6. om.oco \in OcoType /\ om.plans \in [OrderIds -> SUBSET Exits]
  BY DEF RegistryType
<1>7. oco \in OcoType
  <2>1. CASE m.oco
    <3>1. g \in GroupIds
      BY <2>1, <1>4, GroupIdsAssumption
    <3> QED BY <2>1, <3>1, <1>4, <1>5, <1>6, RegisterOcoTyped
  <2>2. CASE ~m.oco
    BY <2>2, <1>6
  <2> QED BY <2>1, <2>2
<1>8. bound = IF m.oco THEN [om EXCEPT !.oco = RegisterOco(@, g, n + 1, n + 2)] ELSE om
  BY DEF RegistryType
<1> HIDE DEF g
<1>9. plans \in [OrderIds -> SUBSET Exits]
  BY <1>1, <1>4, <1>6
<1>10. t = [om EXCEPT !.oco = oco, !.plans = plans]
  <2>1. t = RegisterPlan(bound, n + 1, m.exits)
    BY <1>8 DEF LinkOrders, g
  <2>2. bound.plans = om.plans
    BY DEF RegistryType
  <2> HIDE DEF oco
  <2>3. CASE m.exits = {}
    <3>1. t = bound
      BY <2>1, <2>3 DEF RegisterPlan
    <3> QED BY <3>1, <2>3 DEF RegistryType
  <2>4. CASE m.exits # {}
    <3>1. t = [bound EXCEPT !.plans = [bound.plans EXCEPT ![n + 1] = m.exits]]
      BY <2>1, <2>4 DEF RegisterPlan
    <3> DEFINE pp == [om.plans EXCEPT ![n + 1] = m.exits]
    <3>2. t = [bound EXCEPT !.plans = pp] /\ plans = pp
      BY <3>1, <2>2, <2>4
    <3> HIDE DEF pp, plans
    <3> QED BY <3>2
  <2> QED BY <2>3, <2>4
<1>11. \A i \in OrderIds : plans[i] \in {om.plans[i], m.exits}
  BY <1>4, <1>6
<1>12. \A i \in OrderIds : i # n + 1 \/ m.exits = {} => plans[i] = om.plans[i]
  BY <1>4, <1>6
<1> HIDE DEF plans, oco
<1>13. /\ t \in RegistryType /\ t.status = om.status /\ t.filled = om.filled
       /\ t.history = om.history /\ t.oco = oco /\ t.plans = plans
  BY <1>7, <1>9, <1>10 DEF RegistryType
<1>14. ~m.oco => oco = om.oco
  BY DEF oco
<1>15. IsFiniteSet(m.exits) /\ Cardinality(m.exits) \in Nat
  <2>1. IsFiniteSet({}) /\ IsFiniteSet({} \cup {"StopLoss"})
    BY FS_EmptySet, FS_AddElement
  <2>2. IsFiniteSet(({} \cup {"StopLoss"}) \cup {"TakeProfit"})
    BY <2>1, FS_AddElement
  <2>3. ({} \cup {"StopLoss"}) \cup {"TakeProfit"} = Exits
    BY DEF Exits
  <2>4. IsFiniteSet(m.exits)
    BY <1>1, <2>2, <2>3, FS_Subset
  <2> QED BY <2>4, FS_CardinalityType
<1>16. Cardinality(Planned(t)) <= Cardinality(Planned(om)) + Cardinality(m.exits)
  <2> DEFINE A == Planned(om)
             B == {n + 1} \X m.exits
             e == Cardinality(m.exits)
  <2>1. IsFiniteSet(A) /\ Cardinality(A) \in Nat
    BY PlannedFacts
  <2>2. IsFiniteSet({n + 1}) /\ Cardinality({n + 1}) = 1
    BY FS_Singleton
  <2>3. IsFiniteSet(B) /\ Cardinality(B) = Cardinality({n + 1}) * Cardinality(m.exits)
    BY <2>2, <1>15, FS_Product
  <2>4. Cardinality(B) = e /\ e \in Nat
    BY <2>2, <2>3, <1>15
  <2>5. Planned(t) \subseteq A \cup B
    BY <1>11, <1>12, <1>13 DEF Planned
  <2> HIDE DEF A, B, e
  <2>6. /\ IsFiniteSet(A \cup B)
        /\ Cardinality(A \cup B) = Cardinality(A) + Cardinality(B) - Cardinality(A \cap B)
    BY <2>1, <2>3, FS_Union
  <2>7. Cardinality(Planned(t)) <= Cardinality(A \cup B) /\ Cardinality(Planned(t)) \in Nat
    BY <2>5, <2>6, FS_Subset, FS_CardinalityType
  <2>8. Cardinality(A \cap B) \in Nat
    BY <2>1, FS_Subset, FS_CardinalityType
  <2>9. Cardinality(Planned(t)) <= Cardinality(A) + e
    BY <2>1, <2>4, <2>6, <2>7, <2>8
  <2> QED BY <2>9 DEF A, e
<1> QED BY <1>1, <1>2, <1>11, <1>13, <1>14, <1>15, <1>16

\* The cancellations a callback asks for.
Cancellations(S, at) ==
    LET ids == Ascending(S)
    IN  [k \in DOMAIN ids |-> Report(ids[k], "Cancelled", om.filled[ids[k]], 0, at)]

LEMMA CancellationsProperties ==
    ASSUME om \in RegistryType, NEW S \in SUBSET OrderIds, NEW at \in Nat
    PROVE  /\ Cancellations(S, at) \in Seq(ReportType)
           /\ \A k \in DOMAIN Cancellations(S, at) :
                 LET m == Cancellations(S, at)[k]
                 IN  m.id \in S /\ m.status = "Cancelled" /\ m.trade = 0 /\ m.filled = om.filled[m.id]
           /\ \A k, l \in DOMAIN Cancellations(S, at) :
                 Cancellations(S, at)[k].id = Cancellations(S, at)[l].id => k = l
           /\ \A i \in S : \E k \in DOMAIN Cancellations(S, at) : Cancellations(S, at)[k].id = i
<1> DEFINE ids == Ascending(S)
           q == Cancellations(S, at)
<1>1. S \in SUBSET Nat /\ IsFiniteSet(S)
  BY IdFacts, FS_Subset
<1>2. /\ ids \in Seq(S) /\ \A k, l \in DOMAIN ids : ids[k] = ids[l] => k = l
      /\ \A i \in S : \E k \in DOMAIN ids : ids[k] = i
  BY <1>1, AscendingProperties
<1>3. q = [k \in DOMAIN ids |-> Report(ids[k], "Cancelled", om.filled[ids[k]], 0, at)]
  BY DEF Cancellations
<1>4. \A k \in DOMAIN ids : ids[k] \in S
  BY <1>2
<1>5. \A i \in S : om.filled[i] \in Nat
  BY DEF RegistryType
<1> HIDE DEF ids, q
<1>6. DOMAIN q = DOMAIN ids /\ \A k \in DOMAIN q :
         q[k] \in ReportType /\ q[k].id = ids[k] /\ q[k].status = "Cancelled"
         /\ q[k].trade = 0 /\ q[k].filled = om.filled[ids[k]] /\ q[k].id \in S
  BY <1>3, <1>4, <1>5, StatusFacts DEF Report, ReportType
<1>7. q \in Seq(ReportType)
  <2>1. DOMAIN ids = 1 .. Len(ids) /\ Len(ids) \in Nat
    BY <1>2
  <2>2. q = [k \in 1 .. Len(ids) |-> q[k]]
    BY <1>3, <2>1
  <2> QED BY <2>1, <2>2, <1>6
<1>8. \A k \in DOMAIN q : LET m == q[k]
         IN  m.id \in S /\ m.status = "Cancelled" /\ m.trade = 0 /\ m.filled = om.filled[m.id]
  BY <1>6
<1>9. \A k, l \in DOMAIN q : q[k].id = q[l].id => k = l
  BY <1>2, <1>6
<1>10. \A i \in S : \E k \in DOMAIN q : q[k].id = i
  BY <1>2, <1>6
<1> QED BY <1>7, <1>8, <1>9, <1>10 DEF q

\* The orders after a callback, of which n were drawn before.
WithNew(m, n) ==
    [i \in OrderIds |->
        IF i \in n + 1 .. n + Len(m.orders)
        THEN [m.orders[i - n] EXCEPT !.created = Now, !.parent = 0,
                                     !.twin = IF m.oco THEN 2 * n + 3 - i ELSE 0]
        ELSE ord[i]]

LEMMA CallbackOrders ==
    ASSUME NEW m \in Moves, NEW n \in Nat, n + Len(m.orders) <= Cardinality(OrderIds),
           Now \in Nat, ord \in [OrderIds -> Order \cup {NoOrder}],
           NEW new, new = WithNew(m, n)
    PROVE  /\ new \in [OrderIds -> Order \cup {NoOrder}]
           /\ \A i \in OrderIds : IF i \in n + 1 .. n + Len(m.orders)
                                  THEN new[i] \in Order /\ new[i].created = Now
                                       /\ \E k \in DOMAIN m.orders :
                                             /\ new[i].offset = m.orders[k].offset
                                             /\ new[i].tif = m.orders[k].tif
                                  ELSE new[i] = ord[i]
<1> DEFINE k == Len(m.orders)
           q == m.orders
<1>1. q \in Seq(Order) /\ k = Len(q) /\ k \in Nat /\ (m.oco => k = 2) /\ m.oco \in BOOLEAN
  BY MovesAssumption
<1> HIDE DEF k, q
<1>2. ASSUME NEW i \in n + 1 .. n + k
      PROVE  LET o == [q[i - n] EXCEPT !.created = Now, !.parent = 0,
                                       !.twin = IF m.oco THEN 2 * n + 3 - i ELSE 0]
             IN  /\ o \in Order /\ o.created = Now
                 /\ o.offset = q[i - n].offset /\ o.tif = q[i - n].tif
                 /\ i - n \in DOMAIN q
  <2> DEFINE tw == IF m.oco THEN 2 * n + 3 - i ELSE 0
             x == q[i - n]
  <2>1. i - n \in 1 .. k /\ tw \in Nat
    <3>1. i \in Int /\ n + 1 <= i /\ i <= n + k
      BY <1>1
    <3>2. i - n \in 1 .. k
      BY <1>1, <3>1
    <3>3. CASE m.oco
      <4>1. k = 2
        BY <3>3, <1>1
      <4>2. 2 * n + 3 - i \in Nat
        BY <4>1, <3>1
      <4> QED BY <3>2, <3>3, <4>2
    <3>4. CASE ~m.oco
      BY <3>2, <3>4
    <3> QED BY <3>3, <3>4
  <2>2. x \in Order /\ i - n \in DOMAIN q
    BY <1>1, <2>1
  <2> HIDE DEF tw, x
  <2>3. LET o == [x EXCEPT !.created = Now, !.parent = 0, !.twin = tw]
        IN  /\ o \in Order /\ o.created = Now
            /\ o.offset = x.offset /\ o.tif = x.tif
    BY <2>1, <2>2 DEF Order
  <2> QED BY <2>2, <2>3 DEF x, tw
<1>3. \A i \in OrderIds : IF i \in n + 1 .. n + k
                          THEN new[i] \in Order /\ new[i].created = Now
                               /\ \E l \in DOMAIN q : /\ new[i].offset = q[l].offset
                                                      /\ new[i].tif = q[l].tif
                          ELSE new[i] = ord[i]
  <2> TAKE i \in OrderIds
  <2>1. CASE i \in n + 1 .. n + k
    <3> DEFINE o == [q[i - n] EXCEPT !.created = Now, !.parent = 0,
                                       !.twin = IF m.oco THEN 2 * n + 3 - i ELSE 0]
    <3>1. new[i] = o
      BY <2>1 DEF WithNew, k, q
    <3>2. /\ o \in Order /\ o.created = Now
          /\ o.offset = q[i - n].offset /\ o.tif = q[i - n].tif
          /\ i - n \in DOMAIN q
      BY <2>1, <1>2
    <3> HIDE DEF o, q, k
    <3> QED BY <2>1, <3>1, <3>2
  <2>2. CASE i \notin n + 1 .. n + k
    BY <2>2 DEF WithNew, k
  <2> QED BY <2>1, <2>2
<1>4. \A i \in OrderIds : new[i] \in Order \cup {NoOrder}
  <2> HIDE DEF k, q
  <2> QED BY <1>3
<1>5. new \in [OrderIds -> Order \cup {NoOrder}]
  <2>1. DOMAIN new = OrderIds /\ new = [i \in OrderIds |-> new[i]]
    BY DEF WithNew
  <2> QED BY <1>4, <2>1
<1> QED BY <1>3, <1>5 DEF k, q

LEMMA CallbackKeeps ==
    ASSUME NEW s, Good(s, <<>>, {}), s.om = om, s.book = book, s.ord = ord, s.channel = <<>>,
           channel = <<>>, Now \in Nat, NEW m \in Moves,
           NEW S \in SUBSET {i \in OrderIds : om.status[i] \in Live}, Room(m), Callback(m, S),
           NEW l \in LedgerType,
           NEW t, t = [om |-> om', book |-> book', ord |-> ord', channel |-> channel',
                       ledger |-> l, suppressed |-> {}]
    PROVE  /\ Good(t, <<>>, {})
           /\ \A i \in OrderIds : ord[i] \in Order => ord'[i] = ord[i]
<1> DEFINE n == Cardinality(Used(ord))
           k == Len(m.orders)
           N == Cardinality(OrderIds)
           x == [om |-> om', book |-> book', ord |-> ord', channel |-> Requests(n, k),
                 ledger |-> l, suppressed |-> {}]
           u == [om |-> om', book |-> book', ord |-> ord', channel |-> <<>>,
                 ledger |-> l, suppressed |-> {}]
           p == Requests(n, k)
           c == Cancellations(S, Now)
<1>1. s \in StateType /\ om \in RegistryType /\ ord \in [OrderIds -> Order \cup {NoOrder}]
      /\ book \in BookType /\ BookSound(book, ord)
  BY DEF Good, StateType
<1>2. /\ k \in Nat /\ Cardinality(m.exits) \in Nat /\ n \in Nat /\ N \in Nat
      /\ Cardinality(Planned(om)) \in Nat /\ n = Drawn(s)
  <2>1. k \in Nat
    BY MovesAssumption
  <2>2. n = Drawn(s)
    BY DEF Drawn
  <2>3. Drawn(s) \in Nat
    BY <1>1, UsedFacts
  <2>4. IsFiniteSet(m.exits)
    <3>1. m.exits \in SUBSET Exits
      BY MovesAssumption
    <3>2. IsFiniteSet({}) /\ IsFiniteSet({} \cup {"StopLoss"})
      BY FS_EmptySet, FS_AddElement
    <3>3. IsFiniteSet(({} \cup {"StopLoss"}) \cup {"TakeProfit"})
      BY <3>2, FS_AddElement
    <3>4. ({} \cup {"StopLoss"}) \cup {"TakeProfit"} = Exits
      BY DEF Exits
    <3> QED BY <3>1, <3>3, <3>4, FS_Subset
  <2> QED BY <1>1, <2>1, <2>2, <2>3, <2>4, FS_CardinalityType, PlannedFacts, IdFacts
<1>3. n + k + Cardinality(Planned(om)) + Cardinality(m.exits) <= N
  BY DEF Room
<1>4. n + k <= N
  <2> DEFINE a == Cardinality(Planned(om))
             b == Cardinality(m.exits)
  <2>1. a \in Nat /\ b \in Nat /\ n \in Nat /\ k \in Nat /\ N \in Nat /\ n + k + a + b <= N
    BY <1>2, <1>3
  <2> HIDE DEF a, b, n, k, N
  <2> QED BY <2>1
<1> DEFINE bound == LinkOrders(m, n)
<1>5. /\ bound \in RegistryType /\ bound.status = om.status
      /\ Cardinality(Planned(bound)) <= Cardinality(Planned(om)) + Cardinality(m.exits)
  <2> HIDE DEF n
  <2>1. n \in Nat /\ n + Len(m.orders) <= Cardinality(OrderIds)
    BY <1>2, <1>4
  <2>2. bound = LinkOrders(m, n)
    OBVIOUS
  <2> HIDE DEF bound
  <2> QED BY <1>1, <2>1, <2>2, LinkOrdersProperties
<1>6. om' = CancelEach(bound, S) /\ book' = OnCancel(book, S)
  BY DEF Callback
<1> HIDE DEF bound
<1>7. /\ om' \in RegistryType /\ om'.plans = bound.plans
      /\ \A i \in OrderIds : om'.status[i] = IF i \in S /\ bound.status[i] \in Live
                                             THEN "Cancelled" ELSE bound.status[i]
  <2> DEFINE om2 == om'
  <2>1. om2 = CancelEach(bound, S)
    BY <1>6
  <2> HIDE DEF om2
  <2>2. Loosens(bound, om2) /\ om2.plans = bound.plans
        /\ om2.status = [i \in OrderIds |-> IF i \in S /\ bound.status[i] \in Live
                                             THEN "Cancelled" ELSE bound.status[i]]
    BY <1>5, <2>1, CancelEachLoosens
  <2> QED BY <2>2 DEF Loosens, om2
<1>8. \A i \in OrderIds : om'.status[i] # Absent => om.status[i] # Absent
  BY <1>5, <1>7, StatusFacts
<1>9. /\ book' \in BookType /\ Active(book') = Active(book) \ S /\ book'.queue = book.queue
      /\ BookSound(book', ord)
  <2> DEFINE b2 == book'
  <2>1. b2 = OnCancel(book, S)
    BY <1>6
  <2> HIDE DEF b2
  <2>2. /\ b2 \in BookType /\ Active(b2) = Active(book) \ S /\ b2.queue = book.queue
        /\ BookSound(b2, ord)
    BY <1>1, <2>1, OnCancelProperties
  <2> QED BY <2>2 DEF b2
<1>10. /\ ord' \in [OrderIds -> Order \cup {NoOrder}]
       /\ \A i \in OrderIds : IF i \in n + 1 .. n + k THEN ord'[i] \in Order
                              ELSE ord'[i] = ord[i]
  <2> DEFINE new == ord'
  <2>1. new = WithNew(m, n)
    BY DEF Callback, WithNew
  <2>2. n + Len(m.orders) <= Cardinality(OrderIds) /\ n \in Nat
    BY <1>2, <1>4
  <2>3. ord \in [OrderIds -> Order \cup {NoOrder}] /\ Now \in Nat
    BY <1>1
  <2> HIDE DEF new, n
  <2>4. new \in [OrderIds -> Order \cup {NoOrder}]
    BY <2>1, <2>2, <2>3, CallbackOrders
  <2>5. \A i \in OrderIds : IF i \in n + 1 .. n + Len(m.orders) THEN new[i] \in Order
                            ELSE new[i] = ord[i]
    BY <2>1, <2>2, <2>3, CallbackOrders
  <2> QED BY <2>4, <2>5 DEF new
<1>11. \A j \in 1 .. k : n + j \in OrderIds
  <2>1. OrderIds = 1 .. N
    BY OrderIdsAssumption
  <2> HIDE DEF n, k, N
  <2> QED BY <1>2, <1>4, <2>1
<1>12. p \in Seq(MessageType) /\ Len(p) = k /\ DOMAIN p = 1 .. k
       /\ \A j \in 1 .. k : p[j] = [kind |-> "Request", id |-> n + j]
  <2> HIDE DEF n, k
  <2> QED BY <1>2, <1>11 DEF Requests, MessageType
<1>13. u \in StateType /\ x \in StateType
  <2> HIDE DEF p, n, k
  <2>1. <<>> \in Seq(MessageType)
    OBVIOUS
  <2> QED BY <1>7, <1>9, <1>10, <1>12, <2>1 DEF StateType, p
<1>14. Extended(s, x, k)
  <2>1. s.channel \o p = p
    BY <1>12
  <2>2. x.channel = p /\ x.ord = ord'
    OBVIOUS
  <2> HIDE DEF x, p
  <2> QED BY <1>2, <1>4, <1>10, <2>1, <2>2 DEF Extended, p
<1>15. /\ Used(x.ord) = 1 .. Drawn(x) /\ Drawn(x) = Drawn(s) + k
       /\ \A i \in OrderIds : s.ord[i] \in Order => x.ord[i] = s.ord[i]
       /\ \A j \in n + 1 .. n + k : j \in OrderIds /\ s.ord[j] \notin Order /\ x.ord[j] \in Order
  <2>1. Used(s.ord) = 1 .. Drawn(s)
    BY DEF Good
  <2> HIDE DEF x, k, n
  <2> QED BY <1>1, <1>2, <1>13, <1>14, <2>1, ExtendedProperties
<1>16. \A i \in OrderIds : ord[i] \in Order => ord'[i] = ord[i]
  BY <1>15
<1>17. Used(u.ord) = 1 .. Drawn(u) /\ Drawn(u) = n + k
  BY <1>15, <1>2 DEF Drawn
<1>18. Drawn(u) + Cardinality(Planned(u.om)) <= N
  <2> DEFINE a == Cardinality(Planned(om))
             e == Cardinality(m.exits)
             d == Cardinality(Planned(om'))
  <2>1. Planned(om') = Planned(bound)
    BY <1>7 DEF Planned
  <2>2. d <= a + e
    BY <1>5, <2>1
  <2>3. d \in Nat
    <3> DEFINE om2 == om'
    <3>1. om2 \in RegistryType
      BY <1>7
    <3> HIDE DEF om2
    <3>2. Cardinality(Planned(om2)) \in Nat
      BY <3>1, PlannedFacts
    <3> QED BY <3>2 DEF om2
  <2>4. a \in Nat /\ e \in Nat /\ n \in Nat /\ k \in Nat /\ N \in Nat /\ n + k + a + e <= N
    BY <1>2, <1>3
  <2> HIDE DEF a, e, d, n, k, N
  <2>5. n + k + d <= N
    BY <2>2, <2>3, <2>4
  <2> QED BY <2>5, <1>17 DEF d
<1>19. Good(u, <<>>, {})
  <2>1. BookSound(u.book, u.ord)
    <3>1. \A i \in Active(book') : ord[i] \in Order /\ i \in OrderIds
      BY <1>9 DEF BookSound, Active
    <3> QED BY <1>9, <1>16, <3>1 DEF BookSound
  <2>2. \A i \in ToSet(u.book.queue) : u.ord[i] \in Order
    <3>1. \A i \in ToSet(book.queue) : ord[i] \in Order /\ i \in OrderIds
      <4>1. book.queue \in Seq(OrderIds)
        BY <1>1 DEF BookType
      <4>2. \A j \in DOMAIN book.queue : book.queue[j] \in OrderIds
        BY <4>1
      <4> QED BY <4>2 DEF Good, ToSet
    <3> QED BY <3>1, <1>9, <1>16
  <2>3. \A i \in OrderIds : u.om.status[i] # Absent => u.ord[i] \in Order
    <3>1. \A i \in OrderIds : om.status[i] # Absent => ord[i] \in Order
      BY DEF Good
    <3> QED BY <3>1, <1>8, <1>16
  <2>4. ToSet(<<>>) = {} /\ DOMAIN <<>> = {}
    BY DEF ToSet
  <2>5. InOnePlace(u, <<>>, {})
    BY <2>4 DEF InOnePlace, IsInjective
  <2>6. u.channel = <<>>
    OBVIOUS
  <2> HIDE DEF u
  <2> QED BY <1>13, <1>17, <1>18, <2>1, <2>2, <2>3, <2>4, <2>5, <2>6 DEF Good
<1>20. /\ c \in Seq(ReportType)
       /\ \A j \in DOMAIN c : c[j].id \in S /\ c[j].status = "Cancelled" /\ c[j].trade = 0
                              /\ c[j] \in ReportType
       /\ \A i, j \in DOMAIN c : c[i].id = c[j].id => i = j
  <2>1. S \in SUBSET OrderIds
    OBVIOUS
  <2>2. /\ c \in Seq(ReportType)
        /\ \A j \in DOMAIN c : c[j].id \in S /\ c[j].status = "Cancelled" /\ c[j].trade = 0
        /\ \A i, j \in DOMAIN c : c[i].id = c[j].id => i = j
    BY <1>1, <2>1, CancellationsProperties
  <2> HIDE DEF c
  <2> QED BY <2>2
<1>21. channel' = p \o c
  <2>1. p = [j \in DOMAIN m.orders |-> [kind |-> "Request", id |-> n + j]]
    <3>1. DOMAIN m.orders = 1 .. Len(m.orders)
      BY MovesAssumption
    <3> QED BY <3>1 DEF Requests
  <2>2. channel' = (<<>> \o p) \o c
    BY <2>1 DEF Callback, Cancellations
  <2> HIDE DEF p, c
  <2> QED BY <2>2, <1>12
<1> DEFINE q == p \o c
<1>22. /\ c \in Seq(MessageType) /\ q \in Seq(MessageType) /\ DOMAIN q = 1 .. k + Len(c)
       /\ Len(c) \in Nat /\ DOMAIN c = 1 .. Len(c)
       /\ \A j \in 1 .. k + Len(c) : q[j] = IF j <= k THEN p[j] ELSE c[j - k]
  <2> HIDE DEF p, c
  <2>1. \A j \in DOMAIN c : c[j] \in MessageType
    BY <1>20 DEF MessageType
  <2>2. c \in Seq(MessageType)
    BY <1>20, <2>1
  <2>3. Len(c) \in Nat /\ DOMAIN c = 1 .. Len(c)
    BY <2>2
  <2> HIDE DEF k
  <2>4. p \in Seq(MessageType) /\ Len(p) = k /\ k \in Nat
    BY <1>12
  <2>5. p \o c \in Seq(MessageType) /\ Len(p \o c) = k + Len(c)
    BY <2>2, <2>4
  <2>6. DOMAIN (p \o c) = 1 .. k + Len(c)
    BY <2>5
  <2>7. \A j \in 1 .. k + Len(c) : (p \o c)[j] = IF j <= k THEN p[j] ELSE c[j - k]
    BY <2>2, <2>3, <2>4
  <2> QED BY <2>2, <2>3, <2>5, <2>6, <2>7
<1>23. \A j \in DOMAIN q : \/ j \in 1 .. k /\ q[j].kind = "Request" /\ q[j].id = n + j
                           \/ ~(j \in 1 .. k) /\ j - k \in DOMAIN c /\ q[j] = c[j - k]
  <2> HIDE DEF p, c, q, k, n
  <2> QED BY SMTT(30), <1>12, <1>22, <1>2
<1>24. \A i \in S : i \in OrderIds /\ ord[i] \in Order
  <2>1. \A i \in OrderIds : om.status[i] # Absent => ord[i] \in Order
    BY DEF Good
  <2> QED BY <2>1, StatusFacts
<1>25. \A j \in 1 .. k : n + j \notin S
  <2>1. \A j \in n + 1 .. n + k : j \notin S
    BY <1>15, <1>24
  <2> HIDE DEF n, k
  <2> QED BY <2>1, <1>2
<1>26. \A i, j \in DOMAIN q : q[i].id = q[j].id => i = j
  <2> TAKE i, j \in DOMAIN q
  <2> HAVE q[i].id = q[j].id
  <2>1. i \in Nat /\ j \in Nat
    BY <1>22
  <2>2. i \in 1 .. k => i \in 1 .. k /\ q[i].id = n + i /\ n + i \notin S
    BY <1>23, <1>25
  <2>3. j \in 1 .. k => q[j].id = n + j /\ n + j \notin S
    BY <1>23, <1>25
  <2>4. i \notin 1 .. k => i - k \in DOMAIN c /\ q[i] = c[i - k] /\ c[i - k].id \in S
    BY <1>23, <1>20
  <2>5. j \notin 1 .. k => j - k \in DOMAIN c /\ q[j] = c[j - k] /\ c[j - k].id \in S
    BY <1>23, <1>20
  <2> HIDE DEF q, c, n, k
  <2>6. CASE i \in 1 .. k /\ j \in 1 .. k
    BY <2>1, <2>2, <2>3, <2>6, <1>2
  <2>7. CASE i \notin 1 .. k /\ j \notin 1 .. k
    <3>1. i - k = j - k
      BY <2>4, <2>5, <2>7, <1>20
    <3> QED BY <2>1, <3>1, <1>2
  <2> QED BY <2>2, <2>3, <2>4, <2>5, <2>6, <2>7
<1>27. \A d \in ToSet(q) : MessageSound(u, d)
  <2> SUFFICES ASSUME NEW j \in DOMAIN q
               PROVE  MessageSound(u, q[j])
    BY DEF ToSet
  <2>1. CASE j \in 1 .. k
    <3>1. q[j].kind = "Request" /\ q[j].id = n + j
      BY <2>1, <1>23
    <3>2. n + j \in n + 1 .. n + k /\ n + j \in OrderIds
      <4>1. n + j \in OrderIds
        BY <2>1, <1>11
      <4> HIDE DEF n, k
      <4> QED BY <2>1, <1>2, <4>1
    <3>3. ord'[n + j] \in Order /\ ord[n + j] \notin Order
      BY <3>2, <1>15
    <3>4. n + j \notin ToSet(book.queue) /\ om.status[n + j] = Absent
      BY <3>2, <3>3 DEF Good
    <3>5. om'.status[n + j] = Absent
      BY <3>2, <3>4, <1>8
    <3> HIDE DEF q, n, k
    <3> QED BY <3>1, <3>3, <3>4, <3>5, <1>9 DEF MessageSound
  <2>2. CASE j \notin 1 .. k
    <3>1. /\ q[j].id \in S /\ q[j].status = "Cancelled" /\ q[j].trade = 0
          /\ q[j].kind = "Report"
      <4> HIDE DEF q, c, k, n
      <4> QED BY <2>2, <1>23, <1>20 DEF ReportType
    <3>2. ord'[q[j].id] \in Order /\ q[j].id \notin Active(book')
      <4> HIDE DEF q
      <4> QED BY <3>1, <1>9, <1>16, <1>24
    <3> HIDE DEF q
    <3> QED BY <3>1, <3>2 DEF MessageSound
  <2> QED BY <2>1, <2>2
<1>28. Good(t, <<>>, {})
  <2>1. t \in StateType
    <3> HIDE DEF p, q, c
    <3> QED BY <1>7, <1>9, <1>10, <1>21, <1>22 DEF StateType, q
  <2>2. t.ord = u.ord /\ t.book = u.book /\ t.om = u.om
    OBVIOUS
  <2>3. t.channel = u.channel \o q
    <3>1. u.channel = <<>> /\ t.channel = channel' /\ channel' = q
      BY <1>21
    <3> HIDE DEF q, u
    <3> QED BY <3>1, <1>22
  <2>4. NothingAdded(u.om, t.om)
    <3>1. Cardinality(Planned(u.om)) \in Nat
      <4> HIDE DEF u
      <4>1. u.om \in RegistryType
        BY <1>13 DEF StateType
      <4> QED BY <4>1, PlannedFacts
    <3>2. t.om = u.om
      BY <2>2
    <3> HIDE DEF u
    <3> QED BY <3>1, <3>2 DEF NothingAdded
  <2>5. \A d \in ToSet(q) : /\ MessageSound(u, d) /\ d.id \notin ToSet(<<>>)
                            /\ \A y \in ToSet(u.channel) : y.id # d.id
    <3>1. ToSet(<<>>) = {} /\ u.channel = <<>>
      BY DEF ToSet
    <3> HIDE DEF u, q
    <3> QED BY <3>1, <1>27
  <2> HIDE DEF u, q
  <2> QED BY <1>19, <1>22, <1>26, <2>1, <2>2, <2>3, <2>4, <2>5, Enqueued DEF q
<1> QED BY <1>16, <1>28

-----------------------------------------------------------------------------
(***************************************************************************)
(* The invariant.                                                          *)
(***************************************************************************)

DrainType == [pending : Seq(OrderIds), suppressed : SUBSET OrderIds,
              intermediate : BOOLEAN, settle : BOOLEAN]
FeedType == [last : Nat, finalized : Nat, date : Nat, seen : SUBSET Symbols,
             tradable : SUBSET Symbols, bars : SUBSET EventType, event : EventType,
             session : Sessions \cup {"Closed"}, timers : SUBSET Times, priced : SUBSET Nat]

\* Time goes on, and the bars of the slice are those seen in it.
FeedSound ==
    /\ feed \in FeedType
    /\ feed.last <= Now /\ \A t \in feed.timers : feed.last < t
    /\ BarsSound(feed.bars, feed.last) /\ \A e \in feed.bars : e.sym \in feed.seen
    /\ feed.last = 0 => feed.bars = {}

\* What a stage finds when its turn comes.
StageSound ==
    /\ pc \in ToSet(Stages) \cup {"Finish", "Done"}
    /\ pc \in {"Data", "Strategy", "PostExec", "Cleanup"} => channel = <<>>
    /\ pc = "PreExec" => Quiet(State({}))
    /\ ~Draining => drain = IdleDrain /\ ledger.unbooked = None

IInv ==
    /\ Good(State(drain.suppressed), drain.pending, {})
    /\ drain \in DrainType
    /\ FeedSound
    /\ StageSound

LEMMA StageFacts ==
    /\ Len(Stages) = 9 /\ DOMAIN Stages = 1 .. 9
    /\ \A n \in 1 .. 9 : StageAfter(Stages[n]) = IF n = 9 THEN Stages[1] ELSE Stages[n + 1]
<1>1. Len(Stages) = 9 /\ DOMAIN Stages = 1 .. 9
  BY DEF Stages
<1>2. \A k, n \in 1 .. 9 : Stages[k] = Stages[n] => k = n
  BY DEF Stages
<1>3. \A n \in 1 .. 9 : (CHOOSE k \in DOMAIN Stages : Stages[k] = Stages[n]) = n
  BY <1>1, <1>2
<1>4. ASSUME NEW n \in 1 .. 9
      PROVE  StageAfter(Stages[n]) = IF n = 9 THEN Stages[1] ELSE Stages[n + 1]
  <2> DEFINE k == CHOOSE j \in DOMAIN Stages : Stages[j] = Stages[n]
  <2>1. k = n
    BY <1>3
  <2>2. StageAfter(Stages[n]) = IF k = Len(Stages) THEN Stages[1] ELSE Stages[k + 1]
    BY DEF StageAfter
  <2> HIDE DEF k
  <2> QED BY <2>1, <2>2, <1>1
<1> QED BY <1>1, <1>4

LEMMA StageNames ==
    /\ StageAfter("Channel1") = "Data" /\ StageAfter("Data") = "PreExec"
    /\ StageAfter("PreExec") = "Channel2" /\ StageAfter("Channel2") = "Strategy"
    /\ StageAfter("Strategy") = "Channel3" /\ StageAfter("Channel3") = "PostExec"
    /\ StageAfter("PostExec") = "Channel4" /\ StageAfter("Channel4") = "Cleanup"
    /\ StageAfter("Cleanup") = "Channel1"
    /\ ToSet(Stages) = {"Channel1", "Data", "PreExec", "Channel2", "Strategy",
                        "Channel3", "PostExec", "Channel4", "Cleanup"}
<1>1. /\ Stages[1] = "Channel1" /\ Stages[2] = "Data" /\ Stages[3] = "PreExec"
      /\ Stages[4] = "Channel2" /\ Stages[5] = "Strategy" /\ Stages[6] = "Channel3"
      /\ Stages[7] = "PostExec" /\ Stages[8] = "Channel4" /\ Stages[9] = "Cleanup"
  BY DEF Stages
<1>2. ToSet(Stages) = {"Channel1", "Data", "PreExec", "Channel2", "Strategy",
                        "Channel3", "PostExec", "Channel4", "Cleanup"}
  <2>1. \A n \in 1 .. 9 : n \in {1, 2, 3, 4, 5, 6, 7, 8, 9}
    OBVIOUS
  <2>2. ToSet(Stages) = {Stages[n] : n \in 1 .. 9}
    BY StageFacts DEF ToSet
  <2> QED BY <1>1, <2>1, <2>2
<1> QED BY <1>1, <1>2, StageFacts

LEMMA InitSound == Init => IInv
<1> SUFFICES ASSUME Init
             PROVE  IInv
  OBVIOUS
<1> DEFINE s == State({})
<1>1. /\ om = EmptyRegistry /\ book = EmptyBook /\ ord = [i \in OrderIds |-> NoOrder]
      /\ channel = <<>> /\ drain = IdleDrain /\ ledger = EmptyLedger /\ pc = "Channel1"
  BY DEF Init, Stages
<1>2. om \in RegistryType /\ \A i \in OrderIds : om.plans[i] = {} /\ om.status[i] = Absent
  <2>1. /\ [i \in OrderIds |-> Absent] \in [OrderIds -> Status \cup {Absent}]
        /\ [i \in OrderIds |-> 0] \in [OrderIds -> Nat]
        /\ [i \in OrderIds |-> <<>>] \in [OrderIds -> Seq(Row)]
        /\ [i \in OrderIds |-> {}] \in [OrderIds -> SUBSET Exits]
        /\ EmptyOco \in OcoType
    BY DEF EmptyOco, OcoType
  <2> QED BY <1>1, <2>1 DEF EmptyRegistry, RegistryType
<1>3. book \in BookType /\ Active(book) = {} /\ ToSet(book.queue) = {}
  BY <1>1, StatusFacts DEF EmptyBook, BookType, Active, ToSet, Live, Absent
<1>4. ledger \in LedgerType /\ ledger.unbooked = None
  BY <1>1 DEF EmptyLedger, LedgerType, None, Counts
<1>5. s \in StateType
  <2>1. ord \in [OrderIds -> Order \cup {NoOrder}] /\ channel \in Seq(MessageType)
    BY <1>1
  <2> QED BY <1>2, <1>3, <1>4, <2>1 DEF State, StateType
<1>6. Used(ord) = {} /\ Drawn(s) = 0 /\ Used(ord) = 1 .. Drawn(s)
  <2>1. Used(ord) = {}
    BY <1>1 DEF Used
  <2>2. Cardinality({}) = 0
    BY FS_EmptySet
  <2> QED BY <2>1, <2>2 DEF Drawn, State
<1>7. Drawn(s) + Cardinality(Planned(s.om)) <= Cardinality(OrderIds)
  <2>1. Planned(om) = {}
    BY <1>2 DEF Planned
  <2>2. Cardinality({}) = 0 /\ Cardinality(OrderIds) \in Nat
    BY FS_EmptySet, IdFacts
  <2> QED BY <1>6, <2>1, <2>2 DEF State
<1>8. /\ s.om = om /\ s.book = book /\ s.ord = ord /\ s.channel = <<>> /\ s.ledger = ledger
  BY <1>1 DEF State
<1> HIDE DEF s
<1>9. Good(s, <<>>, {})
  <2>1. ToSet(<<>>) = {} /\ DOMAIN <<>> = {}
    BY DEF ToSet
  <2>2. BookSound(book, ord)
    <3>1. book.queue = <<>>
      BY <1>1 DEF EmptyBook
    <3> QED BY <1>3, <3>1, <2>1 DEF BookSound, IsInjective
  <2>3. InOnePlace(s, <<>>, {})
    BY <1>8, <2>1 DEF InOnePlace, IsInjective
  <2> QED BY <1>2, <1>3, <1>5, <1>6, <1>7, <1>8, <2>1, <2>2, <2>3 DEF Good
<1>10. drain \in DrainType /\ drain.pending = <<>> /\ drain.suppressed = {}
  BY <1>1 DEF IdleDrain, DrainType
<1>11. FeedSound
  <2>1. NoEvent \in EventType /\ NoEvent.ts = 0
    BY DEF NoEvent, EventType
  <2>2. IsFiniteSet({})
    BY FS_EmptySet
  <2>3. \A t \in Timers : t \in Times /\ t \in Nat /\ 0 < t
    BY TimesAssumption
  <2> QED BY <2>1, <2>2, <2>3 DEF Init, FeedSound, FeedType, BarsSound, Now
<1>12. StageSound
  <2>1. "Channel1" \in ToSet(Stages)
    BY StageNames
  <2> QED BY <1>1, <2>1 DEF StageSound, Draining
<1> QED BY <1>9, <1>10, <1>11, <1>12 DEF IInv, s

-----------------------------------------------------------------------------
(***************************************************************************)
(* The steps.                                                              *)
(***************************************************************************)

LEMMA ReportTaken ==
    ASSUME NEW u, NEW pending, Good(u, pending, {}), NEW m \in ReportType, MessageSound(u, m),
           m.id \notin ToSet(pending), \A d \in ToSet(u.channel) : d.id # m.id,
           NEW t, t = ApplyReport(u, m)
    PROVE  /\ Good(t, pending, {})
           /\ \A i \in OrderIds : u.ord[i] \in Order => t.ord[i] = u.ord[i]
<1> DEFINE R == {m}
<1>1. InOnePlace(u, pending, R)
  BY DEF Good, InOnePlace
<1>2. R \subseteq ReportType /\ m \in R /\ R \ {m} = {} /\ \A d \in R : MessageSound(u, d)
  OBVIOUS
<1> HIDE DEF R
<1>3. Good(u, pending, R)
  BY <1>1, <1>2 DEF Good
<1>4. /\ Good(t, pending, R \ {m})
      /\ \A i \in OrderIds : u.ord[i] \in Order => t.ord[i] = u.ord[i]
  BY <1>2, <1>3, ReportKeeps
<1> QED BY <1>2, <1>4

\* The state without the first message; and with a validated order taken.
Popped(s) == [s EXCEPT !.channel = Tail(@)]
WithOrder(s, i) == [s EXCEPT !.book = OnOrder(@, i), !.om = AddActive(@, i)]

\* One message is taken from the channel.
LEMMA ReceiveKeeps ==
    ASSUME NEW s, NEW pending, Good(s, pending, {}), s.channel # <<>>,
           NEW m, m = Head(s.channel), NEW u, u = Popped(s),
           NEW t, m.kind = "Request" => t = u,
           m.kind = "Validated" => t = WithOrder(u, m.id),
           m.kind = "Report" => t = ApplyReport(u, m)
    PROVE  /\ Good(t, IF m.kind = "Request" THEN Append(pending, m.id) ELSE pending, {})
           /\ t \in StateType /\ m \in MessageType
           /\ \A i \in OrderIds : s.ord[i] \in Order => t.ord[i] = s.ord[i]
<1>1. s \in StateType /\ s.channel \in Seq(MessageType)
  BY DEF Good, StateType
<1>2. /\ u \in StateType /\ u.om = s.om /\ u.book = s.book /\ u.ord = s.ord
      /\ u.channel = Tail(s.channel)
  <2> DEFINE q == Tail(s.channel)
  <2>1. q \in Seq(MessageType)
    BY <1>1
  <2>2. u = [s EXCEPT !.channel = q]
    BY DEF Popped
  <2> HIDE DEF q
  <2>3. u \in StateType /\ u.om = s.om /\ u.book = s.book /\ u.ord = s.ord /\ u.channel = q
    BY <1>1, <2>1, <2>2 DEF StateType
  <2> QED BY <2>3 DEF q
<1>3. /\ m \in MessageType /\ m.id \in OrderIds /\ MessageSound(u, m)
      /\ m.id \notin ToSet(pending) /\ \A d \in ToSet(u.channel) : d.id # m.id
      /\ Good(u, pending, {})
  <2>1. \A mm, uu : /\ mm = Head(s.channel) /\ uu \in StateType
                    /\ uu.om = s.om /\ uu.book = s.book /\ uu.ord = s.ord
                    /\ uu.channel = Tail(s.channel)
                    => /\ mm \in MessageType /\ mm.id \in OrderIds /\ MessageSound(uu, mm)
                       /\ mm.id \notin ToSet(pending)
                       /\ \A d \in ToSet(uu.channel) : d.id # mm.id
                       /\ Good(uu, pending, {})
    BY HeadTaken
  <2> QED BY <1>2, <2>1
<1>4. m.kind \in {"Request", "Validated", "Report"}
  BY <1>3 DEF MessageType, ReportType
<1>5. CASE m.kind = "Request"
  <2>1. t = u
    BY <1>5
  <2>2. RequestSound(u, m.id)
    BY <1>3, <1>5 DEF MessageSound, RequestSound
  <2>3. Good(u, Append(pending, m.id), {})
    BY <1>3, <2>2, RequestTaken
  <2> QED BY <1>2, <1>3, <1>5, <2>1, <2>3
<1>6. CASE m.kind = "Validated"
  <2> DEFINE i == m.id
             b == OnOrder(u.book, i)
             r == AddActive(u.om, i)
  <2>1. t = [u EXCEPT !.book = b, !.om = r]
    BY <1>6 DEF WithOrder
  <2>2. RequestSound(u, i)
    BY <1>3, <1>6 DEF MessageSound, RequestSound
  <2>3. b \in BookType
    <3> DEFINE c == u.book
               o == u.ord
    <3>1. BookSound(c, o) /\ i \in OrderIds /\ i \notin ToSet(c.queue) /\ o[i] \in Order
      BY <1>3, <2>2 DEF Good, RequestSound
    <3>2. b = OnOrder(c, i)
      OBVIOUS
    <3> HIDE DEF b, c, o
    <3>3. BookSound(b, o)
      BY <3>1, <3>2, OnOrderProperties
    <3> QED BY <3>3 DEF BookSound
  <2>4. r \in RegistryType
    <3> DEFINE v == u.om
    <3>1. v \in RegistryType /\ i \in OrderIds /\ r = AddActive(v, i)
      BY <1>2, <1>3 DEF StateType
    <3> HIDE DEF r, v
    <3> QED BY <3>1, AddActiveProperties
  <2>5. /\ t \in StateType /\ t.om = r /\ t.book = b /\ t.ord = u.ord /\ t.channel = u.channel
    <3> HIDE DEF r, b
    <3> QED BY <1>2, <2>1, <2>3, <2>4 DEF StateType
  <2>6. t.om = AddActive(u.om, i) /\ t.book = OnOrder(u.book, i)
    BY <2>5
  <2>7. i \in OrderIds /\ i \notin ToSet(pending) /\ \A d \in ToSet(u.channel) : d.id # i
    BY <1>3
  <2> HIDE DEF b, r, i
  <2>8. Good(t, pending, {})
    BY <1>3, <2>2, <2>5, <2>6, <2>7, OrderTaken
  <2> QED BY <1>2, <1>3, <1>6, <2>5, <2>8
<1>7. CASE m.kind = "Report"
  <2>1. t = ApplyReport(u, m)
    BY <1>7
  <2>2. m \in ReportType
    BY <1>3, <1>7 DEF MessageType
  <2>4. /\ Good(t, pending, {})
        /\ \A i \in OrderIds : u.ord[i] \in Order => t.ord[i] = u.ord[i]
    BY <1>3, <2>1, <2>2, ReportTaken
  <2>6. t \in StateType
    BY <2>4 DEF Good
  <2> QED BY <1>2, <1>3, <1>7, <2>4, <2>6
<1> QED BY <1>4, <1>5, <1>6, <1>7

\* The orders do not change once they are drawn, but for the quantity.
SameOrders(o, p) ==
    \A i \in OrderIds : o[i] \in Order => /\ p[i] \in Order
                                          /\ p[i].offset = o[i].offset
                                          /\ p[i].created = o[i].created

LEMMA FeedUnchanged == FeedSound /\ UNCHANGED feed => FeedSound'
BY DEF FeedSound, Now

LEMMA DrainingFacts ==
    /\ Draining <=> pc \in {"Channel1", "Channel2", "Channel3", "Channel4"}
    /\ Draining => StageAfter(pc) \in {"Data", "Strategy", "PostExec", "Cleanup"}
BY StageNames DEF Draining

LEMMA ReceiveSound == IInv /\ ChannelReceive => IInv' /\ SameOrders(ord, ord')
<1> SUFFICES ASSUME IInv, ChannelReceive
             PROVE  IInv' /\ SameOrders(ord, ord')
  OBVIOUS
<1> DEFINE s == State(drain.suppressed)
           pending == drain.pending
           m == Head(channel)
           u == Popped(s)
           t == CASE m.kind = "Request"   -> u
                  [] m.kind = "Validated" -> WithOrder(u, m.id)
                  [] m.kind = "Report"    -> ApplyReport(u, m)
           next == IF m.kind = "Request" THEN Append(pending, m.id) ELSE pending
<1>1. /\ Draining /\ channel # <<>> /\ Becomes(t) /\ UNCHANGED <<pc, feed>>
      /\ drain' = [drain EXCEPT !.suppressed = t.suppressed, !.pending = next]
  BY DEF ChannelReceive, Popped, WithOrder
<1>2. Good(s, pending, {}) /\ s.channel = channel /\ s.ord = ord /\ drain \in DrainType
  BY DEF IInv, State
<1> HIDE DEF s, pending
<1>3. /\ m.kind = "Request" => t = u
      /\ m.kind = "Validated" => t = WithOrder(u, m.id)
      /\ m.kind = "Report" => t = ApplyReport(u, m)
  <2> HIDE DEF m, u
  <2>1. "Request" # "Validated" /\ "Request" # "Report" /\ "Validated" # "Report"
    OBVIOUS
  <2>2. CASE m.kind = "Request"
    BY <2>2
  <2>3. CASE m.kind = "Validated"
    BY <2>3
  <2>4. CASE m.kind = "Report"
    BY <2>4
  <2> QED BY <2>1, <2>2, <2>3, <2>4
<1> HIDE DEF t
<1>4. /\ Good(t, next, {}) /\ t \in StateType /\ m \in MessageType
      /\ \A i \in OrderIds : s.ord[i] \in Order => t.ord[i] = s.ord[i]
  <2>1. m = Head(s.channel) /\ u = Popped(s) /\ s.channel # <<>>
    BY <1>1, <1>2
  <2> HIDE DEF m, u
  <2> QED BY <1>2, <1>3, <2>1, ReceiveKeeps
<1>5. /\ om' = t.om /\ book' = t.book /\ ord' = t.ord /\ channel' = t.channel
      /\ ledger' = t.ledger
  BY <1>1 DEF Becomes
<1>6. /\ drain' \in DrainType /\ drain'.pending = next /\ drain'.suppressed = t.suppressed
  <2>1. next \in Seq(OrderIds) /\ t.suppressed \subseteq OrderIds
    BY <1>4 DEF Good, InOnePlace, StateType
  <2> HIDE DEF next
  <2> QED BY <1>1, <1>2, <2>1 DEF DrainType
<1>7. State(drain.suppressed)' = t
  <2>1. t = [om |-> t.om, book |-> t.book, ord |-> t.ord, channel |-> t.channel,
             ledger |-> t.ledger, suppressed |-> t.suppressed]
    BY <1>4, StateFields
  <2> QED BY <1>5, <1>6, <2>1 DEF State
<1>8. FeedSound'
  BY <1>1, FeedUnchanged DEF IInv
<1>9. StageSound'
  BY <1>1 DEF IInv, StageSound, Draining
<1>10. SameOrders(ord, ord')
  BY <1>2, <1>4, <1>5 DEF SameOrders
<1> QED BY <1>4, <1>6, <1>7, <1>8, <1>9, <1>10 DEF IInv

\* The client matches the current event, and its reports enter the channel.
LEMMA MatchKeeps ==
    ASSUME NEW s, NEW pending, Good(s, pending, {}), Quiet(s), NEW event \in EventType,
           NEW now \in Nat, NEW session, NEW priced,
           NEW v \in VerdictsOf(s.book, s.ord, {event}, priced, OrderIds),
           NEW done, done = OnEvent(s.book, s.ord, event, now, session, priced, v),
           NEW l \in LedgerType,
           NEW t, t = [om |-> s.om, book |-> done.book, ord |-> s.ord,
                       channel |-> s.channel \o done.reports, ledger |-> l,
                       suppressed |-> s.suppressed]
    PROVE  /\ Good(t, pending, {}) /\ t \in StateType
           /\ CallSound(s.book, s.ord, Nat, done)
<1> DEFINE b == s.book
           o == s.ord
           c == s.channel
           R == done.reports
           u == [om |-> s.om, book |-> done.book, ord |-> s.ord, channel |-> s.channel,
                 ledger |-> s.ledger, suppressed |-> s.suppressed]
<1>1. s \in StateType /\ BookSound(b, o) /\ s.om \in RegistryType /\ c \in Seq(MessageType)
  BY DEF Good, StateType
<1>2. CallSound(b, o, Nat, done)
  <2>1. BookSound(b, o) /\ v \in VerdictsOf(b, o, {event}, priced, OrderIds)
        /\ done = OnEvent(b, o, event, now, session, priced, v)
    BY <1>1
  <2> HIDE DEF b, o
  <2>2. EventSound(b, o, event, done)
    BY <2>1, OnEventSound
  <2> QED BY <2>2 DEF EventSound
<1>3. /\ R \in Seq(ReportType) /\ \A k, l2 \in DOMAIN R : R[k].id = R[l2].id => k = l2
      /\ done.book \in BookType
  BY <1>2 DEF CallSound, Outcome, BookSound
<1>4. u \in StateType
  BY <1>1, <1>3 DEF StateType
<1>5. Good(u, pending, ToSet(R))
  <2>1. \A m \in ToSet(s.channel) : m.id \notin Active(s.book)
    BY DEF Quiet
  <2>2. u.om = s.om /\ u.ord = s.ord /\ u.channel = s.channel /\ u.book = done.book
    OBVIOUS
  <2>3. CallSound(s.book, s.ord, Nat, done)
    BY <1>2
  <2> HIDE DEF u
  <2> QED BY <1>4, <2>1, <2>2, <2>3, CallKeeps
<1>6. t \in StateType
  <2> HIDE DEF R
  <2>1. \A k \in DOMAIN R : R[k] \in MessageType
    BY <1>3 DEF MessageType
  <2>2. R \in Seq(MessageType)
    BY <1>3, <2>1
  <2> HIDE DEF c
  <2>3. c \o R \in Seq(MessageType)
    BY <1>1, <2>2
  <2> QED BY <1>1, <1>3, <2>3 DEF StateType, R, c
<1>7. Good(t, pending, {})
  <2>1. t.ord = u.ord /\ t.channel = u.channel \o R /\ t.book = u.book /\ t.om = u.om
    OBVIOUS
  <2>2. NothingAdded(u.om, t.om)
    <3>1. Cardinality(Planned(s.om)) \in Nat
      BY <1>1, PlannedFacts
    <3> QED BY <3>1 DEF NothingAdded
  <2> HIDE DEF u, R
  <2> QED BY <1>3, <1>5, <1>6, <2>1, <2>2, ReportsEnqueued
<1> QED BY <1>2, <1>6, <1>7

LEMMA FlushTyped == ASSUME NEW l \in LedgerType PROVE Flush(l) \in LedgerType
BY FlushProperties

LEMMA IntermediateKeeps ==
    ASSUME IInv, channel = <<>>, IntermediateMatch, ledger' \in LedgerType, UNCHANGED om
    PROVE  /\ Good(State(drain.suppressed)', drain'.pending, {})
           /\ drain' \in DrainType /\ ord' = ord
           /\ State(drain.suppressed)' \in StateType
<1> DEFINE s == State(drain.suppressed)
<1>1. PICK v \in VerdictsOf(book, ord, {feed.event}, feed.priced, OrderIds) :
        LET done == OnEvent(book, ord, feed.event, Now, feed.session, feed.priced, v)
        IN  /\ book' = done.book
            /\ channel' = channel \o done.reports
            /\ drain' = [drain EXCEPT !.intermediate = FALSE, !.settle = TRUE]
            /\ UNCHANGED ord
  BY DEF IntermediateMatch
<1> DEFINE done == OnEvent(book, ord, feed.event, Now, feed.session, feed.priced, v)
           t == [om |-> s.om, book |-> done.book, ord |-> s.ord,
                 channel |-> s.channel \o done.reports, ledger |-> ledger',
                 suppressed |-> s.suppressed]
<1>2. /\ Good(s, drain.pending, {}) /\ s.om = om /\ s.book = book /\ s.ord = ord
      /\ s.channel = channel /\ s.suppressed = drain.suppressed
  BY DEF IInv, State
<1>3. feed.event \in EventType /\ Now \in Nat
  BY DEF IInv, FeedSound, FeedType, EventType, Now
<1>4. Quiet(s)
  BY <1>2 DEF Quiet, ToSet
<1>5. drain \in DrainType /\ drain' \in DrainType /\ drain'.pending = drain.pending
      /\ drain'.suppressed = drain.suppressed
  BY <1>1 DEF IInv, DrainType
<1>6. Good(t, drain.pending, {}) /\ t \in StateType
  <2>1. /\ v \in VerdictsOf(s.book, s.ord, {feed.event}, feed.priced, OrderIds)
        /\ done = OnEvent(s.book, s.ord, feed.event, Now, feed.session, feed.priced, v)
    BY <1>2
  <2> DEFINE l == ledger'
  <2>2. t = [om |-> s.om, book |-> done.book, ord |-> s.ord,
             channel |-> s.channel \o done.reports, ledger |-> l, suppressed |-> s.suppressed]
    OBVIOUS
  <2>3. l \in LedgerType
    OBVIOUS
  <2> HIDE DEF t, s, done, l
  <2> QED BY ZenonT(60), <1>2, <1>3, <1>4, <2>1, <2>2, <2>3, MatchKeeps
<1>7. State(drain.suppressed)' = t
  <2>1. om' = om /\ ord' = ord /\ book' = done.book /\ channel' = channel \o done.reports
    BY <1>1
  <2>2. t = [om |-> om, book |-> done.book, ord |-> ord, channel |-> channel \o done.reports,
             ledger |-> ledger', suppressed |-> drain.suppressed]
    BY <1>2
  <2> HIDE DEF t, done
  <2> QED BY <1>5, <2>1, <2>2 DEF State
<1> HIDE DEF t, done, s
<1> QED BY <1>1, <1>5, <1>6, <1>7

LEMMA TurnKeeps ==
    ASSUME IInv, channel = <<>>, RequestsTurn, ledger' \in LedgerType, UNCHANGED om
    PROVE  /\ Good(State(drain.suppressed)', drain'.pending, {})
           /\ drain' \in DrainType /\ SameOrders(ord, ord')
<1> DEFINE s == State(drain.suppressed)
           pending == drain.pending
           batch == IF Mixed THEN Reduces ELSE drain.pending
           t == State(drain.suppressed)'
<1>1. PICK risk \in [ToSet(batch) -> Nat \cap UNION {RiskVerdicts(ord[i]) : i \in ToSet(batch)}] :
          /\ \A i \in ToSet(batch) : risk[i] \in RiskVerdicts(ord[i])
          /\ ProcessRequests(batch, risk)
          /\ drain' = [drain EXCEPT
                 !.pending = Waiting,
                 !.intermediate = Mixed /\ PhaseOf("PostExec", ToSet(drain.pending)),
                 !.settle = FALSE]
          /\ UNCHANGED book
  BY DEF RequestsTurn
<1>2. /\ Good(s, pending, {}) /\ s.om = om /\ s.book = book /\ s.ord = ord
      /\ s.channel = <<>> /\ s.suppressed = drain.suppressed /\ drain \in DrainType
  BY DEF IInv, State
<1>3. pending \in Seq(OrderIds) /\ IsInjective(pending) /\ \A i \in ToSet(pending) : ord[i] \in Order
  BY <1>2 DEF Good, InOnePlace, RequestSound
<1> HIDE DEF s
<1>4. /\ batch \in Seq(OrderIds) /\ IsInjective(batch) /\ ToSet(batch) \subseteq ToSet(pending)
      /\ Waiting \in Seq(OrderIds) /\ IsInjective(Waiting)
      /\ ToSet(Waiting) \subseteq ToSet(pending) \ ToSet(batch)
  <2>1. CASE Mixed
    <3> DEFINE X == Reducing
               Y == ToSet(drain.pending) \ Reducing
    <3>1. Reduces = Only(pending, X) /\ Increases = Only(pending, Y)
      BY DEF Reduces, Increases
    <3>2. batch = Only(pending, X) /\ Waiting = Only(pending, Y)
      BY <2>1, <3>1 DEF Waiting
    <3> HIDE DEF X, batch
    <3>3. /\ Only(pending, X) \in Seq(OrderIds \cap X) /\ IsInjective(Only(pending, X))
          /\ ToSet(Only(pending, X)) = ToSet(pending) \cap X
      <4> HIDE DEF pending
      <4> QED BY <1>3, OnlyInjective
    <3>4. Y \cap X = {}
      BY DEF X
    <3> HIDE DEF Y
    <3>5. /\ Only(pending, Y) \in Seq(OrderIds \cap Y) /\ IsInjective(Only(pending, Y))
          /\ ToSet(Only(pending, Y)) = ToSet(pending) \cap Y
      <4> HIDE DEF pending
      <4> QED BY <1>3, OnlyInjective
    <3>6. \A Z : Seq(OrderIds \cap Z) \subseteq Seq(OrderIds)
      OBVIOUS
    <3> QED BY <3>2, <3>3, <3>4, <3>5, <3>6
  <2>2. CASE ~Mixed
    <3>1. batch = pending /\ Waiting = <<>>
      BY <2>2 DEF Waiting
    <3>2. <<>> \in Seq(OrderIds) /\ ToSet(<<>>) = {} /\ IsInjective(<<>>)
      BY DEF ToSet, IsInjective
    <3> HIDE DEF batch
    <3> QED BY <1>3, <3>1, <3>2
  <2> QED BY <2>1, <2>2
<1> HIDE DEF batch
<1>5. \A i \in ToSet(batch) : risk[i] \in Nat
  BY <1>1
<1>6. Now \in Nat
  BY DEF IInv, FeedSound, FeedType, EventType, Now
<1>7. channel' = Answers(batch, risk, Now) /\ ord' = Reduced(ord, batch, risk)
  <2>1. /\ channel' = <<>> \o Answers(batch, risk, Now)
        /\ ord' = Reduced(ord, batch, risk)
    BY <1>1 DEF ProcessRequests, Answers, Reduced
  <2>2. Answers(batch, risk, Now) \in Seq({Answers(batch, risk, Now)[k] : k \in DOMAIN batch})
    BY <1>4 DEF Answers
  <2> QED BY <2>1, <2>2
<1>8. /\ drain' \in DrainType /\ drain'.pending = Waiting /\ drain'.suppressed = drain.suppressed
  <2> DEFINE b == Mixed /\ PhaseOf("PostExec", ToSet(drain.pending))
  <2>1. b \in BOOLEAN
    BY DEF Mixed, PhaseOf
  <2>2. drain' = [drain EXCEPT !.pending = Waiting, !.intermediate = b, !.settle = FALSE]
    BY <1>1
  <2> HIDE DEF b
  <2> QED BY <1>2, <1>4, <2>1, <2>2 DEF DrainType
<1>9. t = [om |-> om, book |-> book, ord |-> ord', channel |-> channel', ledger |-> ledger',
           suppressed |-> drain.suppressed]
  BY <1>1, <1>8 DEF State
<1>10. /\ t.om = s.om /\ t.book = s.book /\ t.channel = Answers(batch, risk, Now)
       /\ t.ord = Reduced(s.ord, batch, risk) /\ t.ledger \in LedgerType
       /\ t = [om |-> s.om, book |-> s.book, ord |-> t.ord, channel |-> t.channel,
               ledger |-> t.ledger, suppressed |-> s.suppressed]
  <2> HIDE DEF t
  <2>1. /\ t.om = om /\ t.book = book /\ t.ord = ord' /\ t.channel = channel' /\ t.ledger = ledger'
    BY <1>9
  <2> QED BY <1>2, <1>7, <1>9, <2>1
<1>11. Good(t, Waiting, {})
  <2> HIDE DEF t, pending
  <2> QED BY <1>2, <1>4, <1>5, <1>6, <1>10, RequestsChecked
<1>12. SameOrders(ord, ord')
  <2> DEFINE new == ord'
  <2>1. /\ new = Reduced(ord, batch, risk) /\ ord \in [OrderIds -> Order \cup {NoOrder}]
        /\ \A i \in ToSet(batch) : ord[i] \in Order
    BY <1>2, <1>3, <1>4, <1>7 DEF Good, StateType
  <2> HIDE DEF new
  <2>2. \A i \in OrderIds : /\ new[i] \in Order <=> ord[i] \in Order
                            /\ ord[i] \in Order => /\ new[i].offset = ord[i].offset
                                                   /\ new[i].created = ord[i].created
    BY <1>5, <2>1, ReducedProperties
  <2> QED BY <2>2 DEF SameOrders, new
<1> QED BY <1>8, <1>11, <1>12

LEMMA TurnSound == IInv /\ ChannelTurn => IInv' /\ SameOrders(ord, ord')
<1> SUFFICES ASSUME IInv, ChannelTurn
             PROVE  IInv' /\ SameOrders(ord, ord')
  OBVIOUS
<1>1. /\ Draining /\ channel = <<>> /\ UNCHANGED <<pc, om, feed>>
      /\ ledger' = IF drain.settle THEN Flush(ledger) ELSE ledger
      /\ IntermediateMatch \/ RequestsTurn
  BY DEF ChannelTurn
<1>2. ledger' \in LedgerType
  <2>1. ledger \in LedgerType
    BY DEF IInv, Good, StateType, State
  <2>2. Flush(ledger) \in LedgerType
    BY <2>1, FlushTyped
  <2> QED BY <1>1, <2>1, <2>2
<1>3. /\ Good(State(drain.suppressed)', drain'.pending, {}) /\ drain' \in DrainType
      /\ SameOrders(ord, ord')
  <2>1. CASE IntermediateMatch
    <3>1. /\ Good(State(drain.suppressed)', drain'.pending, {}) /\ drain' \in DrainType
          /\ ord' = ord
      BY <1>1, <1>2, <2>1, IntermediateKeeps
    <3> QED BY <3>1 DEF SameOrders
  <2>2. CASE RequestsTurn
    BY <1>1, <1>2, <2>2, TurnKeeps
  <2> QED BY <1>1, <2>1, <2>2
<1>4. FeedSound'
  BY <1>1, FeedUnchanged DEF IInv
<1>5. StageSound'
  BY <1>1 DEF IInv, StageSound, Draining
<1> QED BY <1>3, <1>4, <1>5 DEF IInv

\* A step that leaves orders, book, channel and the order manager's plans alone.
LEMMA StepRests ==
    ASSUME IInv, UNCHANGED <<book, ord, channel>>, om' \in RegistryType, NothingAdded(om, om'),
           ledger' \in LedgerType, drain' \in DrainType, drain'.pending = drain.pending
    PROVE  Good(State(drain.suppressed)', drain'.pending, {})
<1> DEFINE s == State(drain.suppressed)
           t == State(drain.suppressed)'
<1>1. /\ Good(s, drain.pending, {}) /\ s.om = om /\ s.book = book /\ s.ord = ord
      /\ s.channel = channel /\ s.suppressed = drain.suppressed
  BY DEF IInv, State
<1>2. /\ t = [om |-> om', book |-> book, ord |-> ord, channel |-> channel, ledger |-> ledger',
              suppressed |-> drain'.suppressed]
  BY DEF State
<1>3. /\ t.om = om' /\ t.book = s.book /\ t.ord = s.ord /\ t.channel = s.channel /\ t \in StateType
  <2>1. s \in StateType /\ drain'.suppressed \subseteq OrderIds
    BY <1>1 DEF Good, DrainType
  <2>2. /\ book \in BookType /\ ord \in [OrderIds -> Order \cup {NoOrder}]
        /\ channel \in Seq(MessageType)
    BY <1>1, <2>1 DEF StateType
  <2> HIDE DEF s, t
  <2> QED BY <1>1, <1>2, <2>1, <2>2 DEF StateType
<1>4. NothingAdded(s.om, t.om)
  <2> HIDE DEF s, t
  <2> QED BY <1>1, <1>3
<1> HIDE DEF s, t
<1> QED BY <1>1, <1>3, <1>4, RestKeeps DEF t

LEMMA RestFacts == ASSUME IInv PROVE om \in RegistryType /\ NothingAdded(om, om) /\ ledger \in LedgerType
<1>1. om \in RegistryType /\ ledger \in LedgerType
  BY DEF IInv, Good, StateType, State
<1>2. Cardinality(Planned(om)) \in Nat
  BY <1>1, PlannedFacts
<1> QED BY <1>1, <1>2 DEF NothingAdded

LEMMA IdleDrainTyped == IdleDrain \in DrainType /\ IdleDrain.pending = <<>> /\ IdleDrain.suppressed = {}
BY DEF IdleDrain, DrainType

LEMMA LeaveSound == IInv /\ ChannelLeave => IInv' /\ UNCHANGED ord
<1> SUFFICES ASSUME IInv, ChannelLeave
             PROVE  IInv' /\ UNCHANGED ord
  OBVIOUS
<1>1. /\ Draining /\ channel = <<>> /\ drain.pending = <<>>
      /\ ledger' = Flush(ledger) /\ drain' = IdleDrain /\ pc' = StageAfter(pc)
      /\ UNCHANGED <<om, book, ord, channel, feed>>
  BY DEF ChannelLeave
<1>2. ledger' \in LedgerType /\ ledger'.unbooked = None
  BY <1>1, RestFacts, FlushProperties
<1>3. drain' \in DrainType /\ drain'.pending = drain.pending
  BY <1>1, IdleDrainTyped
<1>4. Good(State(drain.suppressed)', drain'.pending, {})
  <2>1. om' \in RegistryType /\ NothingAdded(om, om')
    BY <1>1, RestFacts
  <2> QED BY <1>1, <1>2, <1>3, <2>1, StepRests
<1>5. FeedSound'
  BY <1>1, FeedUnchanged DEF IInv
<1>6. StageSound'
  <2>1. pc' \in {"Data", "Strategy", "PostExec", "Cleanup"}
    BY <1>1, DrainingFacts
  <2>2. pc' \in ToSet(Stages)
    BY <2>1, StageNames
  <2> QED BY <1>1, <1>2, <2>1, <2>2 DEF StageSound, Draining
<1> QED BY <1>1, <1>3, <1>4, <1>5, <1>6 DEF IInv

LEMMA IdleFacts ==
    ASSUME IInv, ~Draining
    PROVE  /\ drain = IdleDrain /\ drain.pending = <<>> /\ drain.suppressed = {}
           /\ Good(State({}), <<>>, {}) /\ ledger.unbooked = None /\ ledger \in LedgerType
<1>1. drain = IdleDrain /\ ledger.unbooked = None
  BY DEF IInv, StageSound
<1>2. drain.pending = <<>> /\ drain.suppressed = {}
  BY <1>1, IdleDrainTyped
<1> QED BY <1>1, <1>2, RestFacts DEF IInv

LEMMA ExecuteSound == IInv /\ Execute => IInv' /\ UNCHANGED ord
<1> SUFFICES ASSUME IInv, Execute
             PROVE  IInv' /\ UNCHANGED ord
  OBVIOUS
<1> DEFINE s == State({})
           t == State({})'
<1>1. /\ pc \in {"PreExec", "PostExec"} /\ pc' = StageAfter(pc)
      /\ UNCHANGED <<om, ord, drain, ledger, feed>> /\ ~Draining
  BY DEF Execute, Draining
<1>2. /\ drain = IdleDrain /\ drain.pending = <<>> /\ drain.suppressed = {}
      /\ Good(s, <<>>, {}) /\ ledger \in LedgerType
  BY <1>1, IdleFacts
<1>3. s.om = om /\ s.book = book /\ s.ord = ord /\ s.channel = channel /\ s.suppressed = {}
  BY DEF State
<1>4. Quiet(s)
  <2>1. CASE pc = "PreExec"
    BY <2>1 DEF IInv, StageSound
  <2>2. CASE pc = "PostExec"
    <3>1. channel = <<>>
      BY <2>2 DEF IInv, StageSound
    <3> QED BY <1>3, <3>1 DEF Quiet, ToSet
  <2> QED BY <1>1, <2>1, <2>2
<1>5. Good(t, <<>>, {})
  <2>1. CASE UNCHANGED <<book, channel>>
    <3>1. t = s
      BY <1>1, <2>1 DEF State
    <3> HIDE DEF s, t
    <3> QED BY <1>2, <3>1
  <2>2. CASE \E v \in VerdictsOf(book, ord, {feed.event}, feed.priced, OrderIds) :
              LET done == OnEvent(book, ord, feed.event, Now, feed.session, feed.priced, v)
              IN  book' = done.book /\ channel' = channel \o done.reports
    <3>1. PICK v \in VerdictsOf(book, ord, {feed.event}, feed.priced, OrderIds) :
              LET done == OnEvent(book, ord, feed.event, Now, feed.session, feed.priced, v)
              IN  book' = done.book /\ channel' = channel \o done.reports
      BY <2>2
    <3> DEFINE done == OnEvent(book, ord, feed.event, Now, feed.session, feed.priced, v)
               u == [om |-> s.om, book |-> done.book, ord |-> s.ord,
                     channel |-> s.channel \o done.reports, ledger |-> ledger,
                     suppressed |-> s.suppressed]
    <3>2. feed.event \in EventType /\ Now \in Nat
      BY DEF IInv, FeedSound, FeedType, EventType, Now
    <3>3. /\ v \in VerdictsOf(s.book, s.ord, {feed.event}, feed.priced, OrderIds)
          /\ done = OnEvent(s.book, s.ord, feed.event, Now, feed.session, feed.priced, v)
      BY <1>3
    <3>4. Good(u, <<>>, {})
      <4>1. u = [om |-> s.om, book |-> done.book, ord |-> s.ord,
                 channel |-> s.channel \o done.reports, ledger |-> ledger,
                 suppressed |-> s.suppressed]
        OBVIOUS
      <4> HIDE DEF u, s, done
      <4> QED BY <1>2, <1>4, <3>2, <3>3, <4>1, MatchKeeps
    <3>5. t = u
      <4>1. om' = om /\ ord' = ord /\ ledger' = ledger
            /\ book' = done.book /\ channel' = channel \o done.reports
        BY <1>1, <3>1
      <4>2. u = [om |-> om, book |-> done.book, ord |-> ord, channel |-> channel \o done.reports,
                 ledger |-> ledger, suppressed |-> {}]
        BY <1>3
      <4> HIDE DEF u, done
      <4> QED BY <4>1, <4>2 DEF State
    <3> HIDE DEF u, t
    <3> QED BY <3>4, <3>5
  <2> QED BY <2>1, <2>2 DEF Execute
<1>6. t = State(drain.suppressed)'
  BY <1>1, <1>2 DEF State
<1>7. FeedSound'
  BY <1>1, FeedUnchanged DEF IInv
<1>8. StageSound'
  <2>1. pc' \in {"Channel2", "Channel4"}
    BY <1>1, StageNames
  <2>2. pc' \in ToSet(Stages)
    BY <2>1, StageNames
  <2> QED BY <2>1, <2>2 DEF StageSound, Draining
<1>9. drain' = drain /\ drain \in DrainType
  BY <1>1 DEF IInv
<1> HIDE DEF s, t
<1> QED BY <1>1, <1>2, <1>5, <1>6, <1>7, <1>8, <1>9 DEF IInv

LEMMA TellProperties ==
    ASSUME NEW l \in LedgerType
    PROVE  /\ Tell(l) \in LedgerType /\ Tell(l).unbooked = l.unbooked /\ Tell(l).booked = l.booked
           /\ Tell(l).untold = None /\ Tell(l).rejected = None
           /\ \A i \in OrderIds : /\ Tell(l).told[i] = l.told[i] + l.untold[i]
                                  /\ Tell(l).rejectsTold[i] = l.rejectsTold[i] + l.rejected[i]
<1> DEFINE a == Plus(l.told, l.untold)
           b == Plus(l.rejectsTold, l.rejected)
<1>1. a \in Counts /\ b \in Counts /\ None \in Counts
  BY DEF LedgerType, Counts, Plus, None
<1>2. Tell(l) = [l EXCEPT !.told = a, !.untold = None, !.rejectsTold = b, !.rejected = None]
  BY DEF Tell
<1>3. /\ \A i \in OrderIds : a[i] = l.told[i] + l.untold[i]
      /\ \A i \in OrderIds : b[i] = l.rejectsTold[i] + l.rejected[i]
  BY DEF Plus
<1> HIDE DEF a, b
<1>4. /\ Tell(l) \in LedgerType /\ Tell(l).unbooked = l.unbooked /\ Tell(l).booked = l.booked
      /\ Tell(l).untold = None /\ Tell(l).rejected = None
      /\ Tell(l).told = a /\ Tell(l).rejectsTold = b
  BY <1>1, <1>2 DEF LedgerType
<1> QED BY <1>3, <1>4

LEMMA CleanupRests == ASSUME NEW r \in RegistryType PROVE Cleanup(r) \in RegistryType /\ NothingAdded(r, Cleanup(r))
<1> DEFINE t == Cleanup(r)
<1>0. t = Cleanup(r)
  OBVIOUS
<1> HIDE DEF t
<1>1. /\ t \in RegistryType /\ \A i \in OrderIds : t.plans[i] \subseteq r.plans[i]
      /\ \A i \in OrderIds : t.status[i] = IF r.status[i] \in Finished THEN Absent ELSE r.status[i]
  BY <1>0, CleanupProperties
<1>2. Cardinality(Planned(t)) <= Cardinality(Planned(r))
  BY <1>1, PlannedFacts
<1> QED BY <1>0, <1>1, <1>2 DEF NothingAdded

LEMMA CleanupSound == IInv /\ CleanupStage => IInv' /\ UNCHANGED ord
<1> SUFFICES ASSUME IInv, CleanupStage
             PROVE  IInv' /\ UNCHANGED ord
  OBVIOUS
<1>1. /\ pc = "Cleanup" /\ pc' = "Channel1" /\ om' = Cleanup(om)
      /\ UNCHANGED <<book, ord, channel, drain, ledger, feed>>
  BY StageNames DEF CleanupStage
<1>2. om' \in RegistryType /\ NothingAdded(om, om') /\ ledger' \in LedgerType
  BY <1>1, RestFacts, CleanupRests
<1>3. drain' \in DrainType /\ drain'.pending = drain.pending
  BY <1>1 DEF IInv
<1>4. Good(State(drain.suppressed)', drain'.pending, {})
  BY <1>1, <1>2, <1>3, StepRests
<1>5. FeedSound'
  BY <1>1, FeedUnchanged DEF IInv
<1>6. StageSound'
  <2>1. "Channel1" \in ToSet(Stages)
    BY StageNames
  <2> QED BY <1>1, <2>1 DEF StageSound, Draining
<1> QED BY <1>1, <1>3, <1>4, <1>5, <1>6 DEF IInv

LEMMA FinishSound == IInv /\ Finish => IInv' /\ UNCHANGED ord
<1> SUFFICES ASSUME IInv, Finish
             PROVE  IInv' /\ UNCHANGED ord
  OBVIOUS
<1>1. /\ pc = "Finish" /\ pc' = "Done" /\ om' = Cleanup(om) /\ ledger' = Tell(ledger)
      /\ UNCHANGED <<book, ord, channel, drain, feed>> /\ ~Draining
  BY DEF Finish, Draining
<1>2. om' \in RegistryType /\ NothingAdded(om, om')
  BY <1>1, RestFacts, CleanupRests
<1>3. drain' \in DrainType /\ drain'.pending = drain.pending
  BY <1>1 DEF IInv
<1>4. ledger' \in LedgerType /\ ledger'.unbooked = None
  BY <1>1, IdleFacts, TellProperties
<1>5. Good(State(drain.suppressed)', drain'.pending, {})
  BY <1>1, <1>2, <1>3, <1>4, StepRests
<1>6. FeedSound'
  BY <1>1, FeedUnchanged DEF IInv
<1>7. StageSound'
  BY <1>1, <1>4, IdleFacts DEF StageSound, Draining
<1> QED BY <1>1, <1>3, <1>5, <1>6, <1>7 DEF IInv

LEMMA StrategySound == IInv /\ Strategy => IInv' /\ SameOrders(ord, ord')
<1> SUFFICES ASSUME IInv, Strategy
             PROVE  IInv' /\ SameOrders(ord, ord')
  OBVIOUS
<1> DEFINE s == State({})
           t == State({})'
           l == ledger'
<1>1. /\ pc = "Strategy" /\ pc' = "Channel3" /\ channel = <<>> /\ ~Draining
      /\ ledger' = Tell(ledger) /\ drain' = drain
      /\ feed' = [feed EXCEPT !.priced = IF feed.event.kind = "Bar"
                                         THEN @ \cup {feed.event.sym} ELSE @]
  BY StageNames DEF Strategy, IInv, StageSound, Draining
<1>2. PICK m \in Moves, S \in SUBSET {i \in OrderIds : om.status[i] \in Live} :
         Room(m) /\ Callback(m, S)
  BY DEF Strategy
<1>3. /\ drain = IdleDrain /\ drain.pending = <<>> /\ drain.suppressed = {}
      /\ Good(s, <<>>, {}) /\ ledger \in LedgerType
  BY <1>1, IdleFacts
<1>4. s.om = om /\ s.book = book /\ s.ord = ord /\ s.channel = <<>>
  BY <1>1 DEF State
<1>5. l \in LedgerType
  BY <1>1, <1>3, TellProperties
<1>6. Now \in Nat
  BY DEF IInv, FeedSound, FeedType, EventType, Now
<1>7. t = [om |-> om', book |-> book', ord |-> ord', channel |-> channel',
           ledger |-> l, suppressed |-> {}]
  BY DEF State
<1>8. Good(t, <<>>, {}) /\ \A i \in OrderIds : ord[i] \in Order => ord'[i] = ord[i]
  <2> HIDE DEF s, t, l
  <2> QED BY <1>1, <1>2, <1>3, <1>4, <1>5, <1>6, <1>7, CallbackKeeps
<1>9. t = State(drain.suppressed)'
  BY <1>1, <1>3 DEF State
<1>10. FeedSound'
  <2> DEFINE p == IF feed.event.kind = "Bar" THEN feed.priced \cup {feed.event.sym} ELSE feed.priced
             f == feed'
  <2>1. f = [feed EXCEPT !.priced = p] /\ feed \in FeedType
    BY <1>1 DEF IInv, FeedSound
  <2>2. p \in SUBSET Nat
    BY <2>1 DEF FeedType, EventType
  <2> HIDE DEF p, f
  <2>3. /\ f \in FeedType /\ f.last = feed.last /\ f.event = feed.event /\ f.timers = feed.timers
        /\ f.bars = feed.bars /\ f.seen = feed.seen
    BY <2>1, <2>2 DEF FeedType
  <2> USE DEF f
  <2> QED BY <2>3 DEF IInv, FeedSound, Now
<1>11. StageSound'
  <2>1. "Channel3" \in ToSet(Stages)
    BY StageNames
  <2> QED BY <1>1, <2>1 DEF StageSound, Draining
<1>12. drain' \in DrainType /\ drain'.pending = <<>>
  BY <1>1, <1>3 DEF IInv
<1>13. SameOrders(ord, ord')
  BY <1>8 DEF SameOrders
<1> HIDE DEF s, t, l
<1> QED BY <1>8, <1>9, <1>10, <1>11, <1>12, <1>13 DEF IInv

\* The end of a slice.
LEMMA FinalizeKeeps ==
    ASSUME IInv, pc = "Data", NEW v \in FinalVerdicts, NEW t, t = Finalize(v)
    PROVE  /\ Good(t, <<>>, {}) /\ Quiet(t) /\ t.ledger.unbooked = None
           /\ \A i \in OrderIds : ord[i] \in Order => t.ord[i] = ord[i]
           /\ \A i \in OrderIds : t.ledger.booked[i] > ledger.booked[i]
                                    => TradesAt(ord, feed.last, i)
<1> DEFINE s == State({})
<1>1. ~Draining /\ channel = <<>>
  BY DEF IInv, StageSound, Draining
<1>2. Good(s, <<>>, {}) /\ ledger.unbooked = None /\ ledger \in LedgerType
  BY <1>1, IdleFacts
<1>3. /\ s.om = om /\ s.book = book /\ s.ord = ord /\ s.channel = <<>> /\ s.ledger = ledger
      /\ s.channel = channel
  BY <1>1 DEF State
<1>4. feed.last \in Nat /\ BarsSound(feed.bars, feed.last)
  BY DEF IInv, FeedSound, FeedType
<1> HIDE DEF s
<1>5. CASE SliceOpen
  <2> DEFINE u == LastMatch(s, v)
  <2>1. t = RejectMissing(u)
    BY <1>5 DEF Finalize, s
  <2>2. s.ledger.unbooked = None
    BY <1>2, <1>3
  <2>3. u = LastMatch(s, v)
    OBVIOUS
  <2> HIDE DEF u
  <2>4. /\ Good(u, <<>>, {}) /\ u.ledger.unbooked = None
        /\ \A m \in ToSet(u.channel) : m.kind = "Request"
        /\ \A i \in OrderIds : s.ord[i] \in Order => u.ord[i] = s.ord[i]
        /\ \A i \in OrderIds : u.ledger.booked[i] > s.ledger.booked[i]
                                 => TradesAt(s.ord, feed.last, i)
    BY <1>2, <1>3, <1>4, <1>5, <2>2, <2>3, LastMatchKeeps
  <2>5. /\ Good(t, <<>>, {}) /\ Quiet(t)
        /\ t.om = u.om /\ t.ord = u.ord /\ t.ledger = u.ledger
    BY <1>4, <2>1, <2>4, RejectMissingKeeps
  <2> QED BY <1>3, <2>4, <2>5
<1>6. CASE ~SliceOpen
  <2>1. t = s
    BY <1>6 DEF Finalize, s
  <2>2. Quiet(s)
    BY <1>3 DEF Quiet, ToSet
  <2>3. \A i \in OrderIds : ~(ledger.booked[i] > ledger.booked[i])
    <3>1. \A i \in OrderIds : ledger.booked[i] \in Nat
      BY <1>2 DEF LedgerType, Counts
    <3> QED BY <3>1
  <2> QED BY <1>2, <1>3, <2>1, <2>2, <2>3
<1> QED BY <1>5, <1>6

LEMMA BecomesKeeps ==
    ASSUME IInv, pc = "Data", NEW t, Good(t, <<>>, {}), Quiet(t), t.ledger.unbooked = None,
           Becomes(t), drain' = drain, pc' \in {"PreExec", "Finish"}
    PROVE  /\ Good(State(drain.suppressed)', drain'.pending, {})
           /\ drain' \in DrainType /\ StageSound'
<1> DEFINE u == State(drain.suppressed)'
<1>1. ~Draining /\ drain \in DrainType
  BY DEF IInv, Draining
<1>2. drain = IdleDrain /\ drain.pending = <<>> /\ drain.suppressed = {}
  BY <1>1, IdleFacts
<1>3. u = [om |-> t.om, book |-> t.book, ord |-> t.ord, channel |-> t.channel,
           ledger |-> t.ledger, suppressed |-> {}]
  BY <1>2 DEF Becomes, State
<1>4. t \in StateType
  BY DEF Good
<1>5. u \in StateType
  BY <1>3, <1>4 DEF StateType
<1>6. NothingAdded(t.om, u.om)
  <2>1. Cardinality(Planned(t.om)) \in Nat
    BY <1>4, PlannedFacts DEF StateType
  <2>2. u.om = t.om
    BY <1>3
  <2> HIDE DEF u
  <2> QED BY <2>1, <2>2 DEF NothingAdded
<1>7. Good(u, <<>>, {})
  <2>1. u.ord = t.ord /\ u.channel = t.channel /\ u.book = t.book
    BY <1>3
  <2> HIDE DEF u
  <2> QED BY <1>5, <1>6, <2>1, RestKeeps
<1>8. StageSound'
  <2>1. Quiet(State({})')
    <3>1. /\ State({})'.channel = t.channel /\ State({})'.book = t.book
      BY DEF State, Becomes
    <3> QED BY <3>1 DEF Quiet
  <2>2. ledger'.unbooked = None
    BY DEF Becomes
  <2>3. pc' \in ToSet(Stages) \cup {"Finish", "Done"}
    BY StageNames
  <2> QED BY <1>2, <2>1, <2>2, <2>3 DEF StageSound
<1> HIDE DEF u
<1> QED BY <1>1, <1>2, <1>7, <1>8 DEF u

LEMMA FinalizedFeedFacts ==
    ASSUME FeedSound
    PROVE  /\ FinalizedFeed \in FeedType /\ FinalizedFeed.last = feed.last
           /\ FinalizedFeed.event = feed.event /\ FinalizedFeed.timers = feed.timers
           /\ FinalizedFeed.seen = feed.seen /\ FinalizedFeed.bars \in {{}, feed.bars}
<1>1. feed \in FeedType
  BY DEF FeedSound
<1>2. CASE SliceOpen
  <2>1. FinalizedFeed = [feed EXCEPT !.finalized = feed.last, !.bars = {}]
    BY <1>2 DEF FinalizedFeed
  <2> QED BY <1>1, <2>1 DEF FeedType
<1>3. CASE ~SliceOpen
  BY <1>1, <1>3 DEF FinalizedFeed
<1> QED BY <1>2, <1>3

LEMMA BarsEmpty == ASSUME NEW n PROVE BarsSound({}, n)
BY FS_EmptySet DEF BarsSound

\* A bar of a symbol not seen yet joins the slice.
LEMMA BarsGrow ==
    ASSUME NEW bars, NEW n, BarsSound(bars, n), NEW e \in EventType, e.kind = "Bar", e.ts = n,
           \A d \in bars : d.sym # e.sym
    PROVE  BarsSound(bars \cup {e}, n)
<1>1. IsFiniteSet(bars \cup {e})
  BY FS_AddElement DEF BarsSound
<1> QED BY <1>1 DEF BarsSound

LEMMA DataBarSound ==
    ASSUME IInv, NEW sym \in Symbols, NEW ts \in Times, NEW traded \in BOOLEAN,
           NEW session \in Sessions, DataBar(sym, ts, traded, session)
    PROVE  /\ IInv' /\ \A i \in OrderIds : ord[i] \in Order => ord'[i] = ord[i]
           /\ \A i \in OrderIds : ledger'.booked[i] > ledger.booked[i]
                                    => TradesAt(ord, feed.last, i)
<1> DEFINE newSlice == feed.last # 0 /\ ts > feed.last
           f == IF newSlice
                THEN [FinalizedFeed EXCEPT !.seen = {}, !.tradable = {}, !.bars = {}]
                ELSE feed
           bar == [kind |-> "Bar", sym |-> sym, ts |-> ts, traded |-> traded]
<1>1. PICK v \in IF ts > feed.last THEN FinalVerdicts ELSE {<<>>} :
        LET s == IF newSlice THEN Finalize(v) ELSE State({})
        IN  /\ Becomes(IF DateOf[ts] = feed.date THEN s ELSE SettleDay(s))
            /\ feed' = [f EXCEPT !.last = ts, !.date = DateOf[ts],
                                 !.seen = @ \cup {sym},
                                 !.tradable = IF traded THEN @ \cup {sym} ELSE @,
                                 !.bars = @ \cup {bar},
                                 !.event = bar, !.session = session]
  BY DEF DataBar
<1>2. /\ pc = "Data" /\ ts >= Now /\ (\A t \in feed.timers : ts < t)
      /\ (ts = feed.last => sym \notin feed.seen) /\ pc' = "PreExec" /\ drain' = drain
  BY StageNames DEF DataBar
<1> DEFINE s == IF newSlice THEN Finalize(v) ELSE State({})
           t == IF DateOf[ts] = feed.date THEN s ELSE SettleDay(s)
<1>3. FeedSound /\ feed \in FeedType /\ ~Draining /\ channel = <<>>
  BY <1>2 DEF IInv, FeedSound, StageSound, Draining
<1>4. ts \in Nat /\ ts # 0 /\ sym \in Nat /\ DateOf[ts] \in Nat
  BY TimesAssumption, SymbolsAssumption, DateOfAssumption
<1>5. /\ Good(s, <<>>, {}) /\ Quiet(s) /\ s.ledger.unbooked = None
      /\ \A i \in OrderIds : ord[i] \in Order => s.ord[i] = ord[i]
      /\ \A i \in OrderIds : s.ledger.booked[i] > ledger.booked[i]
                               => TradesAt(ord, feed.last, i)
  <2>1. CASE newSlice
    <3>1. v \in FinalVerdicts /\ s = Finalize(v)
      BY <1>1, <2>1
    <3> HIDE DEF s
    <3> QED BY <1>2, <3>1, FinalizeKeeps
  <2>2. CASE ~newSlice
    <3>1. s = State({})
      BY <2>2
    <3>2. s.ord = ord /\ s.channel = <<>> /\ s.ledger = ledger
      BY <1>3, <3>1 DEF State
    <3>3. Good(s, <<>>, {}) /\ ledger.unbooked = None /\ ledger \in LedgerType
      <4> HIDE DEF s
      <4> QED BY <1>3, <3>1, IdleFacts
    <3>4. \A i \in OrderIds : ledger.booked[i] \in Nat
      BY <3>3 DEF LedgerType, Counts
    <3>5. \A i \in OrderIds : ~(ledger.booked[i] > ledger.booked[i])
      BY <3>4
    <3> HIDE DEF s
    <3> QED BY <3>2, <3>3, <3>5 DEF Quiet, ToSet
  <2> QED BY <2>1, <2>2
<1> HIDE DEF s
<1>6. Good(t, <<>>, {}) /\ Quiet(t) /\ t.ledger = s.ledger /\ t.ord = s.ord
  <2>1. CASE DateOf[ts] = feed.date
    BY <1>5, <2>1
  <2>2. CASE DateOf[ts] # feed.date
    <3>1. t = SettleDay(s)
      BY <2>2
    <3> HIDE DEF t
    <3> QED BY <1>5, <3>1, SettleKeeps
  <2> QED BY <2>1, <2>2
<1>7. Becomes(t)
  BY <1>1 DEF s
<1> HIDE DEF t
<1>8. /\ Good(State(drain.suppressed)', drain'.pending, {})
      /\ drain' \in DrainType /\ StageSound'
  BY <1>2, <1>5, <1>6, <1>7, BecomesKeeps
<1>9. ord' = t.ord /\ ledger' = t.ledger
  BY <1>7 DEF Becomes
<1>10. FeedSound'
  <2> DEFINE seen == f.seen \cup {sym}
             tradable == IF traded THEN f.tradable \cup {sym} ELSE f.tradable
             bars == f.bars \cup {bar}
             g == feed'
  <2>1. g = [f EXCEPT !.last = ts, !.date = DateOf[ts], !.seen = seen, !.tradable = tradable,
                      !.bars = bars, !.event = bar, !.session = session]
    BY <1>1
  <2>2. bar \in EventType /\ bar.kind = "Bar" /\ bar.ts = ts /\ bar.sym = sym
    BY <1>4 DEF EventType
  <2>3. /\ f \in FeedType /\ f.timers = feed.timers
        /\ newSlice => f.bars = {}
        /\ ~newSlice => f = feed
    <3>1. CASE newSlice
      <4>1. f = [FinalizedFeed EXCEPT !.seen = {}, !.tradable = {}, !.bars = {}]
        BY <3>1
      <4>2. FinalizedFeed \in FeedType /\ FinalizedFeed.timers = feed.timers
        BY <1>3, FinalizedFeedFacts
      <4> HIDE DEF f, newSlice
      <4>3. f \in FeedType /\ f.timers = FinalizedFeed.timers /\ f.bars = {}
        BY <4>1, <4>2 DEF FeedType
      <4> QED BY <3>1, <4>2, <4>3
    <3>2. CASE ~newSlice
      BY <1>3, <3>2
    <3> QED BY <3>1, <3>2
  <2> HIDE DEF f, bar
  <2>4. /\ BarsSound(f.bars, ts) /\ (\A d \in f.bars : d.sym # bar.sym /\ d.sym \in f.seen)
    <3>1. CASE newSlice
      BY <2>3, <3>1, BarsEmpty
    <3>2. CASE ~newSlice /\ feed.last = 0
      BY <1>3, <2>3, <3>2, BarsEmpty DEF FeedSound
    <3>3. CASE ~newSlice /\ feed.last # 0
      <4>1. ts = feed.last
        <5>1. feed.last \in Nat /\ feed.last <= Now /\ Now \in Nat
          BY <1>3 DEF FeedSound, FeedType, EventType, Now
        <5> QED BY <1>2, <1>4, <3>3, <5>1
      <4>2. /\ BarsSound(feed.bars, ts) /\ \A d \in feed.bars : d.sym \in feed.seen
        BY <1>3, <4>1 DEF FeedSound
      <4> QED BY <1>2, <2>2, <2>3, <3>3, <4>1, <4>2
    <3> QED BY <3>1, <3>2, <3>3
  <2>5. BarsSound(bars, ts)
    BY <2>2, <2>4, BarsGrow
  <2>6. \A d \in bars : d.sym \in seen
    BY <2>2, <2>4
  <2>7. bars \in SUBSET EventType /\ seen \in SUBSET Symbols /\ tradable \in SUBSET Symbols
    BY <2>2, <2>3 DEF FeedType
  <2> HIDE DEF bars, seen, tradable, g
  <2>8. /\ g \in FeedType /\ g.last = ts /\ g.event = bar /\ g.timers = f.timers
        /\ g.bars = bars /\ g.seen = seen
    BY <1>4, <2>1, <2>2, <2>3, <2>7 DEF FeedType
  <2> USE DEF g
  <2>9. Now' = ts
    BY <2>2, <2>8 DEF Now
  <2> QED BY <1>2, <1>4, <2>3, <2>5, <2>6, <2>8, <2>9 DEF FeedSound
<1>11. /\ \A i \in OrderIds : ord[i] \in Order => ord'[i] = ord[i]
       /\ \A i \in OrderIds : ledger'.booked[i] > ledger.booked[i]
                                => TradesAt(ord, feed.last, i)
  BY <1>5, <1>6, <1>9
<1> QED BY <1>8, <1>10, <1>11 DEF IInv

LEMMA RestAtData ==
    ASSUME IInv, pc = "Data"
    PROVE  LET s == State({}) IN
           /\ Good(s, <<>>, {}) /\ Quiet(s) /\ s.ledger.unbooked = None
           /\ \A i \in OrderIds : ord[i] \in Order => s.ord[i] = ord[i]
           /\ \A i \in OrderIds : s.ledger.booked[i] > ledger.booked[i]
                                    => TradesAt(ord, feed.last, i)
<1> DEFINE s == State({})
<1>1. ~Draining /\ channel = <<>>
  BY DEF IInv, StageSound, Draining
<1>2. s.ord = ord /\ s.channel = <<>> /\ s.ledger = ledger
  BY <1>1 DEF State
<1>3. Good(s, <<>>, {}) /\ ledger.unbooked = None /\ ledger \in LedgerType
  BY <1>1, IdleFacts
<1>4. \A i \in OrderIds : ledger.booked[i] \in Nat
  BY <1>3 DEF LedgerType, Counts
<1>5. \A i \in OrderIds : ~(ledger.booked[i] > ledger.booked[i])
  BY <1>4
<1> HIDE DEF s
<1>6. Quiet(s)
  BY <1>2 DEF Quiet, ToSet
<1> QED BY <1>2, <1>3, <1>5, <1>6 DEF s

LEMMA DataTimerSound ==
    ASSUME IInv, NEW session \in Sessions, DataTimer(session)
    PROVE  /\ IInv' /\ \A i \in OrderIds : ord[i] \in Order => ord'[i] = ord[i]
           /\ \A i \in OrderIds : ledger'.booked[i] > ledger.booked[i]
                                    => TradesAt(ord, feed.last, i)
<1> DEFINE at == Min(feed.timers)
           ends == TimerEndsSlice(at)
<1>1. PICK v \in IF ends THEN FinalVerdicts ELSE {<<>>} :
         /\ Becomes(IF ends THEN Finalize(v) ELSE State({}))
         /\ feed' = [IF ends THEN FinalizedFeed ELSE feed EXCEPT
                !.timers = TimersPopped(at), !.session = session,
                !.event = [kind |-> "Timer", sym |-> 0, ts |-> at, traded |-> FALSE]]
  BY DEF DataTimer
<1>2. pc = "Data" /\ feed.timers # {} /\ pc' = "PreExec" /\ drain' = drain
  BY StageNames DEF DataTimer
<1>3. FeedSound /\ feed \in FeedType
  BY DEF IInv, FeedSound
<1>4. at \in feed.timers /\ at \in Nat /\ \A x \in feed.timers : at <= x
  <2>1. feed.timers \in SUBSET Nat
    BY <1>3, TimesAssumption DEF FeedType
  <2>2. \E x \in feed.timers : \A y \in feed.timers : x <= y
    BY <1>2, <2>1, LeastElement
  <2> QED BY <2>1, <2>2 DEF Min
<1> DEFINE t == IF ends THEN Finalize(v) ELSE State({})
<1> HIDE DEF at, ends
<1>5. /\ Good(t, <<>>, {}) /\ Quiet(t) /\ t.ledger.unbooked = None
      /\ \A i \in OrderIds : ord[i] \in Order => t.ord[i] = ord[i]
      /\ \A i \in OrderIds : t.ledger.booked[i] > ledger.booked[i]
                               => TradesAt(ord, feed.last, i)
  <2>1. CASE ends
    <3>1. v \in FinalVerdicts /\ t = Finalize(v)
      BY <1>1, <2>1
    <3> HIDE DEF t
    <3> QED BY <1>2, <3>1, FinalizeKeeps
  <2>2. CASE ~ends
    <3>1. t = State({})
      BY <2>2
    <3> HIDE DEF t
    <3> QED BY <1>2, <3>1, RestAtData
  <2> QED BY <2>1, <2>2
<1>6. Becomes(t)
  BY <1>1
<1> HIDE DEF t
<1>7. /\ Good(State(drain.suppressed)', drain'.pending, {})
      /\ drain' \in DrainType /\ StageSound'
  BY <1>2, <1>5, <1>6, BecomesKeeps
<1>8. ord' = t.ord /\ ledger' = t.ledger
  BY <1>6 DEF Becomes
<1>9. FeedSound'
  <2> DEFINE f == IF ends THEN FinalizedFeed ELSE feed
             e == [kind |-> "Timer", sym |-> 0, ts |-> at, traded |-> FALSE]
             p == TimersPopped(at)
             g == feed'
  <2>1. g = [f EXCEPT !.timers = p, !.session = session, !.event = e]
    BY <1>1
  <2>2. e \in EventType /\ e.ts = at
    BY <1>4 DEF EventType
  <2>3. /\ f \in FeedType /\ f.last = feed.last /\ f.bars \in {{}, feed.bars}
        /\ f.seen = feed.seen
    BY <1>3, FinalizedFeedFacts
  <2>4. p = feed.timers \ {at} /\ p \in SUBSET Times
    BY <1>3 DEF TimersPopped, FeedType
  <2> HIDE DEF e, f, p, g
  <2>5. /\ g \in FeedType /\ g.last = f.last /\ g.event = e /\ g.timers = p
        /\ g.bars = f.bars /\ g.seen = f.seen
    BY <2>1, <2>2, <2>3, <2>4 DEF FeedType
  <2> USE DEF g
  <2>6. Now' = at
    BY <2>2, <2>5 DEF Now
  <2>7. feed.last < at /\ feed.last \in Nat /\ \A x \in p : feed.last < x
    BY <1>3, <1>4, <2>4 DEF FeedSound, FeedType
  <2>8. feed.last <= at
    BY <1>4, <2>7
  <2>9. BarsSound(g.bars, g.last) /\ \A d \in g.bars : d.sym \in g.seen
    BY <1>3, <2>3, <2>5, BarsEmpty DEF FeedSound
  <2>10. g.last = 0 => g.bars = {}
    BY <1>3, <2>3, <2>5 DEF FeedSound
  <2> QED BY <2>3, <2>5, <2>6, <2>7, <2>8, <2>9, <2>10 DEF FeedSound
<1>10. /\ \A i \in OrderIds : ord[i] \in Order => ord'[i] = ord[i]
       /\ \A i \in OrderIds : ledger'.booked[i] > ledger.booked[i]
                                => TradesAt(ord, feed.last, i)
  BY <1>5, <1>8
<1> QED BY <1>7, <1>9, <1>10 DEF IInv

LEMMA DataEndSound ==
    ASSUME IInv, DataEnd
    PROVE  /\ IInv' /\ \A i \in OrderIds : ord[i] \in Order => ord'[i] = ord[i]
           /\ \A i \in OrderIds : ledger'.booked[i] > ledger.booked[i]
                                    => TradesAt(ord, feed.last, i)
<1>1. PICK v \in FinalVerdicts : Becomes(Finalize(v))
  BY DEF DataEnd
<1>2. pc = "Data" /\ pc' = "Finish" /\ drain' = drain /\ feed' = FinalizedFeed
  BY DEF DataEnd
<1> DEFINE t == Finalize(v)
<1>3. t = Finalize(v)
  OBVIOUS
<1> HIDE DEF t
<1>4. /\ Good(t, <<>>, {}) /\ Quiet(t) /\ t.ledger.unbooked = None
      /\ \A i \in OrderIds : ord[i] \in Order => t.ord[i] = ord[i]
      /\ \A i \in OrderIds : t.ledger.booked[i] > ledger.booked[i]
                               => TradesAt(ord, feed.last, i)
  BY <1>2, <1>3, FinalizeKeeps
<1>5. Becomes(t)
  BY <1>1, <1>3
<1>6. /\ Good(State(drain.suppressed)', drain'.pending, {})
      /\ drain' \in DrainType /\ StageSound'
  BY <1>2, <1>4, <1>5, BecomesKeeps
<1>7. ord' = t.ord /\ ledger' = t.ledger
  BY <1>5 DEF Becomes
<1>8. FeedSound'
  <2>1. FeedSound
    BY DEF IInv
  <2> DEFINE g == feed'
  <2>2. /\ g \in FeedType /\ g.last = feed.last /\ g.event = feed.event /\ g.timers = feed.timers
        /\ g.seen = feed.seen /\ g.bars \in {{}, feed.bars}
    BY <1>2, <2>1, FinalizedFeedFacts
  <2> QED BY <2>1, <2>2, BarsEmpty DEF FeedSound, Now
<1> QED BY <1>4, <1>6, <1>7, <1>8 DEF IInv

-----------------------------------------------------------------------------
(***************************************************************************)
(* The theorems.                                                           *)
(***************************************************************************)

LEMMA StutterSound == IInv /\ UNCHANGED vars => IInv'
<1> SUFFICES ASSUME IInv, UNCHANGED vars
             PROVE  IInv'
  OBVIOUS
<1>1. /\ pc' = pc /\ om' = om /\ book' = book /\ ord' = ord /\ channel' = channel
      /\ drain' = drain /\ ledger' = ledger /\ feed' = feed
  BY DEF vars
<1>2. State(drain.suppressed)' = State(drain.suppressed) /\ State({})' = State({})
  BY <1>1 DEF State
<1>3. FeedSound'
  BY <1>1, FeedUnchanged DEF IInv
<1>4. StageSound'
  BY <1>1, <1>2 DEF IInv, StageSound, Draining
<1> QED BY <1>1, <1>2, <1>3, <1>4 DEF IInv

\* A step books trades only of orders that may trade in the slice it closes.
LEMMA StepSound ==
    ASSUME IInv, [Next]_vars
    PROVE  /\ IInv'
           /\ \A i \in OrderIds : pc = "Data" /\ ledger'.booked[i] > ledger.booked[i]
                                    => TradesAt(ord, feed.last, i)
<1>1. CASE ChannelReceive
  BY <1>1, ReceiveSound DEF ChannelReceive, Draining
<1>2. CASE ChannelTurn
  BY <1>2, TurnSound DEF ChannelTurn, Draining
<1>3. CASE ChannelLeave
  BY <1>3, LeaveSound DEF ChannelLeave, Draining
<1>4. ASSUME NEW sym \in Symbols, NEW ts \in Times, NEW traded \in BOOLEAN,
             NEW session \in Sessions, DataBar(sym, ts, traded, session)
      PROVE  /\ IInv'
             /\ \A i \in OrderIds : pc = "Data" /\ ledger'.booked[i] > ledger.booked[i]
                                      => TradesAt(ord, feed.last, i)
  BY <1>4, DataBarSound
<1>5. ASSUME NEW session \in Sessions, DataTimer(session)
      PROVE  /\ IInv'
             /\ \A i \in OrderIds : pc = "Data" /\ ledger'.booked[i] > ledger.booked[i]
                                      => TradesAt(ord, feed.last, i)
  BY <1>5, DataTimerSound
<1>6. CASE DataEnd
  BY <1>6, DataEndSound
<1>7. CASE Execute
  BY <1>7, ExecuteSound DEF Execute
<1>8. CASE Strategy
  BY <1>8, StrategySound DEF Strategy
<1>9. CASE CleanupStage
  BY <1>9, CleanupSound DEF CleanupStage
<1>10. CASE Finish
  BY <1>10, FinishSound DEF Finish
<1>11. CASE UNCHANGED vars
  <2>1. \A i \in OrderIds : ledger.booked[i] \in Nat
    BY RestFacts DEF LedgerType, Counts
  <2>2. \A i \in OrderIds : ~(ledger'.booked[i] > ledger.booked[i])
    BY <1>11, <2>1 DEF vars
  <2> QED BY <1>11, <2>2, StutterSound
<1>12. CASE Returned
  BY <1>11, <1>12 DEF Returned
<1> QED BY <1>1, <1>2, <1>3, <1>4, <1>5, <1>6, <1>7, <1>8, <1>9, <1>10, <1>11, <1>12 DEF Next

\* The invariant holds throughout a run: every copy of an order has its type, an
\* order is in one place on its way, the client's working orders are queued and
\* have something left to trade, and each stage finds what it expects.
THEOREM PipelineSound == Spec => []IInv
<1>1. Init => IInv
  BY InitSound
<1>2. IInv /\ [Next]_vars => IInv'
  BY StepSound
<1> QED BY <1>1, <1>2, PTL DEF Spec

\* No report of a next-bar order that trades is older than the order allows.
ReportsWait ==
    \A k \in DOMAIN channel :
        LET m == channel[k]
        IN  m.kind = "Report" /\ m.trade > 0 /\ ord[m.id].offset = 1
                => m.at > ord[m.id].created

\* Nor is a trade the data stage books.
BookingsWait ==
    \A i \in OrderIds :
        pc = "Data" /\ ledger'.booked[i] > ledger.booked[i] /\ ord[i].offset = 1
            => feed.last > ord[i].created

\* NextBarWaits: a next-bar order trades only on a bar later than its creation.
THEOREM NextBarWaitsCorrect == Spec => NextBarWaits
<1>1. IInv => ReportsWait
  <2> SUFFICES ASSUME IInv, NEW k \in DOMAIN channel,
                      channel[k].kind = "Report", channel[k].trade > 0,
                      ord[channel[k].id].offset = 1
               PROVE  channel[k].at > ord[channel[k].id].created
    BY DEF ReportsWait
  <2> DEFINE s == State(drain.suppressed)
             m == channel[k]
  <2>1. Good(s, drain.pending, {}) /\ s.ord = ord /\ s.channel = channel
    BY DEF IInv, State
  <2>2. m \in ToSet(s.channel)
    BY <2>1 DEF ToSet
  <2>3. MessageSound(s, m)
    <3> HIDE DEF s, m
    <3> QED BY <2>1, <2>2 DEF Good
  <2> QED BY <2>1, <2>3 DEF MessageSound
<1>2. IInv /\ [Next]_vars => [BookingsWait]_vars
  <2> SUFFICES ASSUME IInv, [Next]_vars
               PROVE  BookingsWait
    OBVIOUS
  <2> QED BY StepSound DEF BookingsWait, TradesAt
<1>3. NextBarWaits <=> []ReportsWait /\ [][BookingsWait]_vars
  BY DEF NextBarWaits, ReportsWait, BookingsWait
<1> QED BY <1>1, <1>2, <1>3, PipelineSound, PTL DEF Spec
==============================================================================
