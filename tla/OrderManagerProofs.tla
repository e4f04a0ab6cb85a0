-------------------------- MODULE OrderManagerProofs --------------------------
(***************************************************************************)
(* The order manager's OCO index is exact for any orders, keys and calls,  *)
(* as long as no caller takes a key another pair is using.                 *)
(***************************************************************************)
EXTENDS OrderManager, FiniteSetTheorems, SequenceTheorems, TLAPS

-----------------------------------------------------------------------------
(* Operators on the OCO maps.                                              *)

\* In a group of two an order that leaves dissolves the group; a group nobody
\* leaves stays as it is.
LEMMA RemainingOfPairs ==
    ASSUME NEW oco \in OcoType, GroupsArePairs(oco),
           NEW S \in SUBSET OrderIds, NEW g \in GroupIds
    PROVE  Remaining(oco, S, g) =
             IF Leaving(oco, S, g) = {} THEN oco.members[g] ELSE {}
<1> DEFINE rest == oco.members[g] \ Leaving(oco, S, g)
<1>1. CASE Leaving(oco, S, g) = {}
  BY <1>1 DEF Remaining
<1>2. CASE Leaving(oco, S, g) # {}
  <2>1. oco.members[g] # {} /\ Leaving(oco, S, g) \subseteq oco.members[g]
    BY <1>2 DEF Leaving
  <2>2. PICK a, b \in OrderIds : a # b /\ oco.members[g] = {a, b}
    BY <2>1 DEF GroupsArePairs
  <2>3. rest = {} \/ rest = {a} \/ rest = {b}
    BY <1>2, <2>1, <2>2
  <2>4. Cardinality(rest) = 0 \/ Cardinality(rest) = 1
    BY <2>3, FS_EmptySet, FS_Singleton
  <2>5. Cardinality(rest) <= 1
    BY <2>4
  <2> QED BY <1>2, <2>5 DEF Remaining
<1> QED BY <1>1, <1>2

\* Detaching orders keeps the two maps in step, leaves the detached orders
\* without a group, and gives no group a new member.
LEMMA DetachKeepsIndex ==
    ASSUME NEW oco \in OcoType, ReverseIndexExact(oco), GroupsArePairs(oco),
           NEW S \in SUBSET OrderIds
    PROVE  /\ Detach(oco, S) \in OcoType
           /\ ReverseIndexExact(Detach(oco, S))
           /\ GroupsArePairs(Detach(oco, S))
           /\ \A i \in S : Detach(oco, S).groupOf[i] = NoGroup
           /\ \A g \in GroupIds :
                 Detach(oco, S).members[g] \in {oco.members[g], {}}
<1> DEFINE d == Detach(oco, S)
           in(g) == oco.members[g]
<1>1. \A g \in GroupIds : d.members[g] = IF S \cap in(g) = {} THEN in(g) ELSE {}
  <2> TAKE g \in GroupIds
  <2>1. Leaving(oco, S, g) = S \cap in(g)
    BY DEF Leaving, ReverseIndexExact
  <2> QED BY <2>1, RemainingOfPairs DEF Detach
<1>2. \A i \in OrderIds : d.groupOf[i] =
         IF i \in S \/ (\E g \in GroupIds : i \in in(g) /\ d.members[g] = {})
         THEN NoGroup ELSE oco.groupOf[i]
  BY DEF Detach
<1>3. d \in OcoType
  <2>1. \A g \in GroupIds : Remaining(oco, S, g) \in SUBSET OrderIds
    BY DEF Remaining, OcoType
  <2> QED BY <2>1 DEF Detach, OcoType
<1>4. GroupsArePairs(d)
  BY <1>1 DEF GroupsArePairs
<1>5. ReverseIndexExact(d)
  <2> SUFFICES ASSUME NEW i \in OrderIds, NEW g \in GroupIds
               PROVE  d.groupOf[i] = g <=> i \in d.members[g]
    BY DEF ReverseIndexExact
  <2>1. \A h \in GroupIds : oco.groupOf[i] = h <=> i \in in(h)
    BY DEF ReverseIndexExact
  <2>2. ASSUME d.groupOf[i] = g PROVE i \in d.members[g]
    <3>1. /\ i \notin S /\ oco.groupOf[i] = g
          /\ \A h \in GroupIds : i \in in(h) => d.members[h] # {}
      BY <1>2, <2>2, NoGroupAssumption
    <3>2. i \in in(g) /\ d.members[g] # {}
      BY <2>1, <3>1
    <3> QED BY <1>1, <3>2
  <2>3. ASSUME i \in d.members[g] PROVE d.groupOf[i] = g
    <3>1. i \in in(g) /\ S \cap in(g) = {} /\ d.members[g] # {}
      BY <1>1, <2>3
    <3>2. i \notin S /\ oco.groupOf[i] = g
      BY <2>1, <3>1
    <3>3. \A h \in GroupIds : i \in in(h) => h = g
      BY <2>1, <3>2
    <3> QED BY <1>2, <3>1, <3>2, <3>3
  <2> QED BY <2>2, <2>3
<1> QED BY <1>1, <1>2, <1>3, <1>4, <1>5

\* Binding two orders under a key no other order uses keeps the maps in step.
LEMMA RegisterKeepsIndex ==
    ASSUME NEW oco \in OcoType, ReverseIndexExact(oco), GroupsArePairs(oco),
           NEW g \in GroupIds, NEW a \in OrderIds, NEW b \in OrderIds,
           oco.members[g] \subseteq {a, b}
    PROVE  /\ RegisterOco(oco, g, a, b) \in OcoType
           /\ ReverseIndexExact(RegisterOco(oco, g, a, b))
           /\ GroupsArePairs(RegisterOco(oco, g, a, b))
           /\ \A h \in GroupIds \ {g} :
                 RegisterOco(oco, g, a, b).members[h] \in {oco.members[h], {}}
<1>1. CASE a = b
  BY <1>1 DEF RegisterOco
<1>2. CASE a # b
  <2> DEFINE f == Detach(oco, {a, b})
             r == RegisterOco(oco, g, a, b)
  <2>1. /\ f \in OcoType /\ ReverseIndexExact(f) /\ GroupsArePairs(f)
        /\ f.groupOf[a] = NoGroup /\ f.groupOf[b] = NoGroup
        /\ \A h \in GroupIds : f.members[h] \in {oco.members[h], {}}
    <3>1. {a, b} \in SUBSET OrderIds
      OBVIOUS
    <3>2. a \in {a, b} /\ b \in {a, b}
      OBVIOUS
    <3> HIDE DEF f
    <3> QED BY <3>1, <3>2, DetachKeepsIndex, Zenon DEF f
  <2> HIDE DEF f
  <2>2. r = [members |-> [f.members EXCEPT ![g] = {a, b}],
             groupOf |-> [f.groupOf EXCEPT ![a] = g, ![b] = g]]
    BY <1>2 DEF RegisterOco, f
  <2>3. f.members[g] = {}
    <3>1. \A h \in GroupIds : a \notin f.members[h] /\ b \notin f.members[h]
      BY <2>1, NoGroupAssumption DEF ReverseIndexExact
    <3> QED BY <2>1, <3>1
  <2>4. r \in OcoType
    BY <2>1, <2>2 DEF OcoType
  <2>5. GroupsArePairs(r)
    BY <1>2, <2>1, <2>2 DEF GroupsArePairs, OcoType
  <2>6. ReverseIndexExact(r)
    <3> SUFFICES ASSUME NEW i \in OrderIds, NEW h \in GroupIds
                 PROVE  r.groupOf[i] = h <=> i \in r.members[h]
      BY DEF ReverseIndexExact
    <3>1. f.groupOf[i] = h <=> i \in f.members[h]
      BY <2>1 DEF ReverseIndexExact
    <3>2. r.members[h] = IF h = g THEN {a, b} ELSE f.members[h]
      BY <2>1, <2>2 DEF OcoType
    <3>3. r.groupOf[i] = IF i \in {a, b} THEN g ELSE f.groupOf[i]
      BY <2>1, <2>2 DEF OcoType
    <3>4. i \in {a, b} => f.groupOf[i] = NoGroup
      BY <2>1
    <3> QED BY <2>3, <3>1, <3>2, <3>3, <3>4, NoGroupAssumption
  <2>7. \A h \in GroupIds \ {g} : r.members[h] \in {oco.members[h], {}}
    BY <2>1, <2>2 DEF OcoType
  <2> QED BY <2>4, <2>5, <2>6, <2>7
<1> QED BY <1>1, <1>2

\* Consuming the group of a filled order keeps the maps in step.
LEMMA ConsumeKeepsIndex ==
    ASSUME NEW oco \in OcoType, ReverseIndexExact(oco), GroupsArePairs(oco),
           NEW i \in OrderIds
    PROVE  /\ ConsumePeers(oco, i) \in OcoType
           /\ ReverseIndexExact(ConsumePeers(oco, i))
           /\ GroupsArePairs(ConsumePeers(oco, i))
           /\ \A h \in GroupIds :
                 ConsumePeers(oco, i).members[h] \in {oco.members[h], {}}
<1>1. CASE oco.groupOf[i] = NoGroup
  BY <1>1 DEF ConsumePeers
<1>2. CASE oco.groupOf[i] # NoGroup
  <2> DEFINE g == oco.groupOf[i]
             c == ConsumePeers(oco, i)
  <2>1. g \in GroupIds /\ i \in oco.members[g]
    BY <1>2 DEF OcoType, ReverseIndexExact
  <2>2. c = [members |-> [oco.members EXCEPT ![g] = {}],
             groupOf |-> [x \in OrderIds |->
                            IF x \in oco.members[g] THEN NoGroup ELSE oco.groupOf[x]]]
    BY <1>2, <2>1 DEF ConsumePeers
  <2>3. c \in OcoType
    BY <2>1, <2>2 DEF OcoType
  <2>4. GroupsArePairs(c)
    BY <2>1, <2>2 DEF GroupsArePairs, OcoType
  <2>5. ReverseIndexExact(c)
    BY <2>1, <2>2, NoGroupAssumption DEF ReverseIndexExact, OcoType
  <2>6. \A h \in GroupIds : c.members[h] \in {oco.members[h], {}}
    BY <2>1, <2>2 DEF OcoType
  <2> QED BY <2>3, <2>4, <2>5, <2>6
<1> QED BY <1>1, <1>2

-----------------------------------------------------------------------------
(* The order manager keeps its type.                                       *)

LEMMA RegistryTyped ==
    ASSUME om \in RegistryType
    PROVE  /\ om.status \in [OrderIds -> Status \cup {Absent}]
           /\ om.filled \in [OrderIds -> Nat]
           /\ om.history \in [OrderIds -> Seq(Row)]
           /\ om.oco \in OcoType
           /\ om.plans \in [OrderIds -> SUBSET Exits]
  BY DEF RegistryType

\* Detaching, whatever the maps hold, yields maps of the same type.
LEMMA DetachTyped ==
    ASSUME NEW oco \in OcoType, NEW S \in SUBSET OrderIds
    PROVE  Detach(oco, S) \in OcoType
<1>1. \A g \in GroupIds : Remaining(oco, S, g) \in SUBSET OrderIds
  BY DEF Remaining, OcoType
<1>2. \A i \in OrderIds : oco.groupOf[i] \in GroupIds \cup {NoGroup}
  BY DEF OcoType
<1> QED BY <1>1, <1>2 DEF Detach, OcoType

LEMMA RegisterTyped ==
    ASSUME NEW oco \in OcoType, NEW g \in GroupIds,
           NEW a \in OrderIds, NEW b \in OrderIds
    PROVE  RegisterOco(oco, g, a, b) \in OcoType
<1>1. Detach(oco, {a, b}) \in OcoType
  BY DetachTyped
<1> HIDE DEF Detach
<1> QED BY <1>1 DEF RegisterOco, OcoType

LEMMA ConsumeTyped ==
    ASSUME NEW oco \in OcoType, NEW i \in OrderIds
    PROVE  ConsumePeers(oco, i) \in OcoType
  BY DEF ConsumePeers, OcoType

\* A row appended to a history is a history.
LEMMA AppendRow ==
    ASSUME NEW h \in Seq(Row), NEW s \in Status, NEW n \in Nat
    PROVE  Append(h, [status |-> s, filled |-> n]) \in Seq(Row)
<1>1. [status |-> s, filled |-> n] \in Row
  BY DEF Row
<1> QED BY <1>1, AppendProperties

\* Every call leaves a well-typed order manager, for any number of orders and
\* keys and with keys shared between callers.
THEOREM TypeCorrect == Spec => []TypeOK
<1>1. Init => TypeOK
  BY DEF Init, TypeOK, RegistryType, EmptyRegistry, EmptyOco, OcoType
<1>2. TypeOK /\ [Next]_vars => TypeOK'
  <2> SUFFICES ASSUME TypeOK, [Next]_vars PROVE TypeOK'
    OBVIOUS
  <2> USE DEF TypeOK
  <2>0. /\ om \in RegistryType /\ planned \subseteq Entries
        /\ om.status \in [OrderIds -> Status \cup {Absent}]
        /\ om.filled \in [OrderIds -> Nat]
        /\ om.history \in [OrderIds -> Seq(Row)]
        /\ om.oco \in OcoType
        /\ om.plans \in [OrderIds -> SUBSET Exits]
    BY RegistryTyped
  <2>1. ASSUME NEW g \in GroupIds, NEW a \in OrderIds, NEW b \in OrderIds,
               RegisterOcoGroup(g, a, b)
        PROVE  TypeOK'
    BY <2>0, <2>1, RegisterTyped DEF RegisterOcoGroup, RegistryType
  <2>2. ASSUME NEW i \in OrderIds, NEW exits \in SUBSET Exits,
               RegisterBracketPlan(i, exits)
        PROVE  TypeOK'
    BY <2>0, <2>2 DEF RegisterBracketPlan, RegisterPlan, RegistryType
  <2>3. ASSUME NEW i \in OrderIds, AddActiveOrder(i) PROVE TypeOK'
    BY <2>0, <2>3 DEF AddActiveOrder, AddActive, RegistryType, Status, Live
  <2>4. ASSUME NEW i \in OrderIds, CancelActiveOrder(i) PROVE TypeOK'
    <3>1. Detach(om.oco, {i}) \in OcoType
      BY <2>0, DetachTyped
    <3> QED BY <2>0, <2>4, <3>1 DEF CancelActiveOrder, CancelActive, RegistryType, Status, Finished
  <2>5. ASSUME NEW i \in OrderIds, ConsumeOcoPeerCancelsOnFill(i) PROVE TypeOK'
    BY <2>0, <2>5, ConsumeTyped DEF ConsumeOcoPeerCancelsOnFill, RegistryType
  <2>6. ASSUME NEW i \in OrderIds, NEW status \in Status, NEW filled \in Quantities,
               OnExecutionReport(i, status, filled)
        PROVE  TypeOK'
    <3>1. Detach(om.oco, {i}) \in OcoType
      BY <2>0, DetachTyped
    <3>2. filled \in Nat
      BY QuantitiesAssumption
    <3> QED BY <2>0, <2>6, <3>1, <3>2 DEF OnExecutionReport, OnReport, RegistryType
  <2>7. ASSUME NEW i \in OrderIds, NEW stop \in OrderIds, NEW target \in OrderIds,
               ConsumeBracketActivationOnFill(i, stop, target)
        PROVE  TypeOK'
    <3>1. RegisterOco(om.oco, BracketGroup[i], stop, target) \in OcoType
      BY <2>0, RegisterTyped, BracketGroupAssumption
    <3> QED BY <2>0, <2>7, <3>1
        DEF ConsumeBracketActivationOnFill, ActivateBracket, RegistryType
  <2>8. CASE CleanupFinishedOrders
    <3> DEFINE done == {i \in OrderIds : om.status[i] \in Finished}
               lost == {i \in OrderIds : om.status[i] \in Finished \ {"Filled"}}
    <3>1. Detach(om.oco, lost) \in OcoType
      BY <2>0, DetachTyped
    <3>2. \A i \in done : Append(om.history[i], [status |-> om.status[i],
                                                 filled |-> om.filled[i]]) \in Seq(Row)
      <4> TAKE i \in done
      <4>1. om.status[i] \in Status /\ om.filled[i] \in Nat /\ om.history[i] \in Seq(Row)
        BY <2>0 DEF Status
      <4> QED BY <4>1, AppendRow
    <3> HIDE DEF Detach
    <3>3. Cleanup(om) \in RegistryType
      BY <2>0, <3>1, <3>2 DEF Cleanup, Archive, RegistryType
    <3> QED BY <2>0, <2>8, <3>3 DEF CleanupFinishedOrders
  <2>9. ASSUME NEW S \in SUBSET OrderIds, SettleDayOrders(S) PROVE TypeOK'
    <3>1. \A i \in OrderIds : Append(om.history[i], [status |-> "Expired",
                                                     filled |-> om.filled[i]]) \in Seq(Row)
      <4> TAKE i \in OrderIds
      <4>1. om.filled[i] \in Nat /\ om.history[i] \in Seq(Row)
        BY <2>0
      <4>2. "Expired" \in Status
        BY DEF Status, Finished
      <4> QED BY <4>1, <4>2, AppendRow
    <3>2. ExpireAtSettlement(om, S) \in RegistryType
      BY <2>0, <3>1 DEF ExpireAtSettlement, RegistryType
    <3> QED BY <2>0, <2>9, <3>2 DEF SettleDayOrders
  <2>10. CASE UNCHANGED vars
    BY <2>10 DEF vars
  <2> QED
    BY <2>1, <2>2, <2>3, <2>4, <2>5, <2>6, <2>7, <2>8, <2>9, <2>10 DEF Next
<1> QED BY <1>1, <1>2, PTL DEF Spec

-----------------------------------------------------------------------------
(* The OCO index.                                                          *)

\* The strengthening: the maps agree, and the key of a bracket whose plan is
\* still pending (or not registered yet) belongs to no group, so the exits'
\* group overwrites none.
IndexInv == TypeOK /\ OcoIndex /\ BracketKeyUnused

\* What an action that only detaches orders, or touches no OCO map, leaves true.
LEMMA ShrinkKeepsInv ==
    ASSUME IndexInv, TypeOK', OcoIndex',
           \A g \in GroupIds : om'.oco.members[g] \in {om.oco.members[g], {}},
           \A i \in OrderIds : om'.plans[i] # {} => om.plans[i] # {},
           planned' = planned
    PROVE  IndexInv'
  BY BracketGroupAssumption DEF IndexInv, BracketKeyUnused

\* A key callers may pick is the key of no bracket.
LEMMA CallerKeyIsNoBracketKey ==
    ASSUME NEW g \in CallerGroups, NEW i \in OrderIds
    PROVE  BracketGroup[i] # g
  BY DEF CallerGroups

\* Whatever the engine's stages call, and in whatever order, the two OCO maps
\* stay exact inverses and every stored group is a pair, as long as no caller
\* takes a key that another pair is using.
THEOREM IndexInvariant == KeysAreFresh => (Spec => []IndexInv)
<1> SUFFICES ASSUME KeysAreFresh PROVE Spec => []IndexInv
  OBVIOUS
<1>1. Init => IndexInv
  <2> SUFFICES ASSUME Init PROVE IndexInv
    OBVIOUS
  <2>1. TypeOK
    BY DEF Init, TypeOK, RegistryType, EmptyRegistry, EmptyOco, OcoType
  <2>2. om.oco = EmptyOco /\ \A i \in OrderIds : om.plans[i] = {}
    BY DEF Init, EmptyRegistry
  <2>3. OcoIndex
    BY <2>2, NoGroupAssumption DEF OcoIndex, ReverseIndexExact, GroupsArePairs, EmptyOco
  <2>4. BracketKeyUnused
    BY <2>2, BracketGroupAssumption DEF BracketKeyUnused, EmptyOco
  <2> QED BY <2>1, <2>3, <2>4 DEF IndexInv
<1>2. IndexInv /\ TypeOK' /\ [Next]_vars => IndexInv'
  <2> SUFFICES ASSUME IndexInv, TypeOK', [Next]_vars PROVE IndexInv'
    OBVIOUS
  <2>0. /\ om.oco \in OcoType /\ ReverseIndexExact(om.oco) /\ GroupsArePairs(om.oco)
        /\ om.status \in [OrderIds -> Status \cup {Absent}]
        /\ om.plans \in [OrderIds -> SUBSET Exits]
        /\ om \in RegistryType
    BY DEF IndexInv, OcoIndex, TypeOK, RegistryType
  <2>1. ASSUME NEW g \in GroupIds, NEW a \in OrderIds, NEW b \in OrderIds,
               RegisterOcoGroup(g, a, b)
        PROVE  IndexInv'
    <3>1. /\ om'.oco = RegisterOco(om.oco, g, a, b) /\ om'.plans = om.plans
          /\ planned' = planned /\ g \in CallerGroups
      BY <2>0, <2>1 DEF RegisterOcoGroup, RegistryType
    <3>2. om.oco.members[g] \subseteq {a, b}
      BY <2>1 DEF RegisterOcoGroup, FreeFor
    <3>3. /\ ReverseIndexExact(om'.oco) /\ GroupsArePairs(om'.oco)
          /\ \A h \in GroupIds \ {g} : om'.oco.members[h] \in {om.oco.members[h], {}}
      BY <2>0, <3>1, <3>2, RegisterKeepsIndex
    <3>4. BracketKeyUnused'
      BY <3>1, <3>3, CallerKeyIsNoBracketKey, BracketGroupAssumption
      DEF IndexInv, BracketKeyUnused
    <3> QED BY <3>3, <3>4 DEF IndexInv, OcoIndex
  <2>2. ASSUME NEW i \in OrderIds, NEW exits \in SUBSET Exits,
               RegisterBracketPlan(i, exits)
        PROVE  IndexInv'
    <3>1. /\ om'.oco = om.oco /\ planned' = planned \cup {i} /\ i \notin planned
          /\ \A j \in OrderIds \ {i} : om'.plans[j] = om.plans[j]
      BY <2>0, <2>2 DEF RegisterBracketPlan, RegisterPlan, RegistryType
    <3>2. BracketKeyUnused'
      BY <3>1 DEF IndexInv, BracketKeyUnused
    <3> QED BY <3>1, <3>2 DEF IndexInv, OcoIndex
  <2>3. ASSUME NEW i \in OrderIds, AddActiveOrder(i) PROVE IndexInv'
    <3>1. om'.oco = om.oco /\ om'.plans = om.plans /\ planned' = planned
      BY <2>0, <2>3 DEF AddActiveOrder, AddActive, RegistryType
    <3> QED BY <3>1 DEF IndexInv, OcoIndex, BracketKeyUnused
  <2>4. ASSUME NEW i \in OrderIds, CancelActiveOrder(i) PROVE IndexInv'
    <3>1. /\ om'.oco \in {om.oco, Detach(om.oco, {i})}
          /\ om'.plans = om.plans /\ planned' = planned
      BY <2>0, <2>4 DEF CancelActiveOrder, CancelActive, RegistryType
    <3>2. /\ ReverseIndexExact(om'.oco) /\ GroupsArePairs(om'.oco)
          /\ \A h \in GroupIds : om'.oco.members[h] \in {om.oco.members[h], {}}
      BY <2>0, <3>1, DetachKeepsIndex
    <3> QED BY <3>1, <3>2, ShrinkKeepsInv DEF OcoIndex
  <2>5. ASSUME NEW i \in OrderIds, ConsumeOcoPeerCancelsOnFill(i) PROVE IndexInv'
    <3>1. /\ om'.oco = ConsumePeers(om.oco, i)
          /\ om'.plans = om.plans /\ planned' = planned
      BY <2>0, <2>5 DEF ConsumeOcoPeerCancelsOnFill, RegistryType
    <3>2. /\ ReverseIndexExact(om'.oco) /\ GroupsArePairs(om'.oco)
          /\ \A h \in GroupIds : om'.oco.members[h] \in {om.oco.members[h], {}}
      BY <2>0, <3>1, ConsumeKeepsIndex
    <3> QED BY <3>1, <3>2, ShrinkKeepsInv DEF OcoIndex
  <2>6. ASSUME NEW i \in OrderIds, NEW status \in Status, NEW filled \in Quantities,
               OnExecutionReport(i, status, filled)
        PROVE  IndexInv'
    <3>1. /\ om'.oco \in {om.oco, Detach(om.oco, {i})} /\ planned' = planned
          /\ \A j \in OrderIds : om'.plans[j] \in {om.plans[j], {}}
      BY <2>0, <2>6 DEF OnExecutionReport, OnReport, RegistryType
    <3>2. /\ ReverseIndexExact(om'.oco) /\ GroupsArePairs(om'.oco)
          /\ \A h \in GroupIds : om'.oco.members[h] \in {om.oco.members[h], {}}
      BY <2>0, <3>1, DetachKeepsIndex
    <3> QED BY <3>1, <3>2, ShrinkKeepsInv DEF OcoIndex
  <2>7. ASSUME NEW i \in OrderIds, NEW stop \in OrderIds, NEW target \in OrderIds,
               ConsumeBracketActivationOnFill(i, stop, target)
        PROVE  IndexInv'
    <3> DEFINE g == BracketGroup[i]
    <3>1. /\ om'.oco \in {om.oco, RegisterOco(om.oco, g, stop, target)}
          /\ om'.plans = [om.plans EXCEPT ![i] = {}] /\ planned' = planned
      BY <2>0, <2>7
      DEF ConsumeBracketActivationOnFill, ActivateBracket, RegistryType
    <3>2. g \in GroupIds /\ om.oco.members[g] = {} /\ i \in planned
      BY <2>7, BracketGroupAssumption
      DEF ConsumeBracketActivationOnFill, IndexInv, BracketKeyUnused
    <3>3. /\ ReverseIndexExact(om'.oco) /\ GroupsArePairs(om'.oco)
          /\ \A h \in GroupIds \ {g} : om'.oco.members[h] \in {om.oco.members[h], {}}
      <4>1. om.oco.members[g] \subseteq {stop, target}
        BY <3>2
      <4> QED BY <2>0, <3>1, <3>2, <4>1, RegisterKeepsIndex
    <3>4. BracketKeyUnused'
      <4> SUFFICES ASSUME NEW j \in OrderIds
                   PROVE  /\ om'.plans[j] # {} => j \in planned'
                          /\ om'.plans[j] # {} \/ j \notin planned'
                                => om'.oco.members[BracketGroup[j]] = {}
        BY DEF BracketKeyUnused
      <4>1. CASE j = i
        BY <2>0, <3>1, <3>2, <4>1
      <4>2. CASE j # i
        <5>1. BracketGroup[j] \in GroupIds \ {g}
          BY <4>2, BracketGroupAssumption, BracketKeysAssumption
        <5>2. om'.plans[j] = om.plans[j]
          BY <2>0, <3>1, <4>2
        <5> QED BY <3>1, <3>3, <5>1, <5>2 DEF IndexInv, BracketKeyUnused
      <4> QED BY <4>1, <4>2
    <3> QED BY <3>3, <3>4 DEF IndexInv, OcoIndex
  <2>8. CASE CleanupFinishedOrders
    <3> DEFINE lost == {i \in OrderIds : om.status[i] \in Finished \ {"Filled"}}
    <3>1. /\ om'.oco = Detach(om.oco, lost) /\ planned' = planned
          /\ \A j \in OrderIds : om'.plans[j] \in {om.plans[j], {}}
      BY <2>0, <2>8 DEF CleanupFinishedOrders, Cleanup, Archive, RegistryType
    <3>2. /\ ReverseIndexExact(om'.oco) /\ GroupsArePairs(om'.oco)
          /\ \A h \in GroupIds : om'.oco.members[h] \in {om.oco.members[h], {}}
      <4>1. lost \in SUBSET OrderIds
        OBVIOUS
      <4> HIDE DEF lost
      <4> QED BY <2>0, <3>1, <4>1, DetachKeepsIndex
    <3> QED BY <3>1, <3>2, ShrinkKeepsInv DEF OcoIndex
  <2>9. ASSUME NEW S \in SUBSET OrderIds, SettleDayOrders(S) PROVE IndexInv'
    <3>1. om'.oco = om.oco /\ om'.plans = om.plans /\ planned' = planned
      BY <2>0, <2>9 DEF SettleDayOrders, ExpireAtSettlement, RegistryType
    <3> QED BY <3>1 DEF IndexInv, OcoIndex, BracketKeyUnused
  <2>10. CASE UNCHANGED vars
    BY <2>10 DEF vars, IndexInv, OcoIndex, BracketKeyUnused, TypeOK
  <2> QED
    BY <2>1, <2>2, <2>3, <2>4, <2>5, <2>6, <2>7, <2>8, <2>9, <2>10 DEF Next
<1> QED BY <1>1, <1>2, TypeCorrect, PTL DEF Spec

\* oco_groups and oco_order_to_group agree after every call: a member of a group
\* points to it, a pointer leads to a group of two.
THEOREM OcoIndexCorrect == KeysAreFresh => (Spec => []OcoIndex)
<1>1. IndexInv => OcoIndex
  BY DEF IndexInv
<1> QED BY <1>1, IndexInvariant, PTL

\* The key under which the fill of a bracket's entry binds its exits is unused
\* until then, so consume_bracket_activation_on_fill overwrites no group.
THEOREM BracketKeysFree == KeysAreFresh => (Spec => []BracketKeyUnused)
<1>1. IndexInv => BracketKeyUnused
  BY DEF IndexInv
<1> QED BY <1>1, IndexInvariant, PTL

\* A fill never asks to cancel an order that is not the filled order's own
\* partner.
THEOREM PeersMutual == KeysAreFresh => (Spec => []PeersAreMutual)
<1>1. IndexInv => PeersAreMutual
  <2> SUFFICES ASSUME IndexInv, NEW a \in OrderIds, NEW b \in OrderIds,
                      b \in Peers(om.oco, a)
               PROVE  a # b /\ Peers(om.oco, b) = {a}
    BY DEF PeersAreMutual
  <2>1. om.oco \in OcoType /\ ReverseIndexExact(om.oco) /\ GroupsArePairs(om.oco)
    BY DEF IndexInv, OcoIndex, TypeOK, RegistryType
  <2>2. PICK g \in GroupIds : /\ om.oco.groupOf[a] = g
                              /\ a \in om.oco.members[g] /\ b \in om.oco.members[g]
                              /\ a # b
    BY <2>1 DEF Peers, OcoType, ReverseIndexExact
  <2>3. om.oco.members[g] = {a, b}
    BY <2>1, <2>2 DEF GroupsArePairs
  <2>4. om.oco.groupOf[b] = g /\ g # NoGroup
    BY <2>1, <2>2, NoGroupAssumption DEF ReverseIndexExact
  <2> QED BY <2>2, <2>3, <2>4 DEF Peers
<1> QED BY <1>1, IndexInvariant, PTL

\* A cleanup unbinds every order that closed without a fill, whatever the reports
\* that closed it.
THEOREM CleanupUnbindsClosed == KeysAreFresh => (Spec => CleanupUnbinds)
<1> DEFINE Unbound ==
      om' = Cleanup(om) =>
         \A i \in OrderIds :
            om.status[i] \in Finished \ {"Filled"} =>
                /\ om'.oco.groupOf[i] = NoGroup
                /\ \A j \in OrderIds : i \notin Peers(om'.oco, j)
<1>1. IndexInv => Unbound
  <2> SUFFICES ASSUME IndexInv, om' = Cleanup(om), NEW i \in OrderIds,
                      om.status[i] \in Finished \ {"Filled"}
               PROVE  /\ om'.oco.groupOf[i] = NoGroup
                      /\ \A j \in OrderIds : i \notin Peers(om'.oco, j)
    OBVIOUS
  <2> DEFINE lost == {j \in OrderIds : om.status[j] \in Finished \ {"Filled"}}
  <2>1. om.oco \in OcoType /\ ReverseIndexExact(om.oco) /\ GroupsArePairs(om.oco)
    BY DEF IndexInv, OcoIndex, TypeOK, RegistryType
  <2>2. om'.oco = Detach(om.oco, lost) /\ i \in lost /\ lost \in SUBSET OrderIds
    BY DEF Cleanup, Archive
  <2> HIDE DEF lost
  <2>3. om'.oco \in OcoType /\ ReverseIndexExact(om'.oco)
    BY <2>1, <2>2, DetachKeepsIndex
  <2>4. om'.oco.groupOf[i] = NoGroup
    BY <2>2 DEF Detach
  <2>5. \A g \in GroupIds : i \notin om'.oco.members[g]
    BY <2>3, <2>4, NoGroupAssumption DEF ReverseIndexExact
  <2> QED BY <2>3, <2>4, <2>5 DEF Peers, OcoType
<1>2. KeysAreFresh => (Spec => [][Unbound]_vars)
  BY <1>1, IndexInvariant, PTL
<1> QED BY <1>2 DEF CleanupUnbinds
=============================================================================
