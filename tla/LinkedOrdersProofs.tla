-------------------------- MODULE LinkedOrdersProofs --------------------------
(***************************************************************************)
(* Orders bound one-cancels-the-other.  Of each pair, until one of the two *)
(* trades, the order manager's group holds exactly the two, or one of them *)
(* is lost: it did not trade, and no request, no copy at work and no fill  *)
(* on its way can make it trade.  Tidy says so, with what keeps it true:   *)
(* the group keys of orders to come are free, and the two requests of a    *)
(* pair are answered together.  The last section is about brackets: what   *)
(* their exits sell, their entries have traded.                            *)
(***************************************************************************)
EXTENDS OrderAccountsProofs

-----------------------------------------------------------------------------
(***************************************************************************)
(* What the strategy and the market do not do: a match in parts, and a     *)
(* pair of which only one order reduces a position.                        *)
(***************************************************************************)

NoParts == "part" \notin Verdicts
PairsAlike ==
    \A m \in Moves : m.oco => (ReduceFirst(m.orders[1]) <=> ReduceFirst(m.orders[2]))

-----------------------------------------------------------------------------
(***************************************************************************)
(* The OCO groups.                                                         *)
(***************************************************************************)

\* An order points to a group exactly when it is a member of it.
GroupsExact(oco) ==
    \A i \in OrderIds, g \in GroupIds : oco.groupOf[i] = g <=> i \in oco.members[g]

Bound(oco, i, j) == \E g \in GroupIds : oco.members[g] = {i, j}

\* Orders leave their groups: the others stay bound.
LEMMA DetachBinds ==
    ASSUME NEW oco \in OcoType, GroupsExact(oco), NEW S, NEW d, d = Detach(oco, S)
    PROVE  /\ d \in OcoType /\ GroupsExact(d)
           /\ \A g \in GroupIds : d.members[g] \subseteq oco.members[g]
           /\ \A i, j : Bound(oco, i, j) /\ i \notin S /\ j \notin S => Bound(d, i, j)
<1>1. d \in OcoType
  BY DetachTyped
<1>2. /\ \A g \in GroupIds : d.members[g] = Remaining(oco, S, g)
      /\ \A i \in OrderIds : d.groupOf[i] =
            IF \/ i \in S
               \/ \E g \in GroupIds : i \in oco.members[g] /\ Remaining(oco, S, g) = {}
            THEN NoGroup ELSE oco.groupOf[i]
  BY DEF Detach
<1>3. \A g \in GroupIds : Leaving(oco, S, g) = S \cap oco.members[g]
  BY DEF Leaving, GroupsExact, OcoType
<1>4. \A g \in GroupIds : /\ Remaining(oco, S, g) \in {{}, oco.members[g] \ S}
                          /\ S \cap oco.members[g] = {} => Remaining(oco, S, g) = oco.members[g]
  BY <1>3 DEF Remaining
<1>5. \A g \in GroupIds : d.members[g] \subseteq oco.members[g]
  BY <1>2, <1>4
<1>6. GroupsExact(d)
  <2> SUFFICES ASSUME NEW i \in OrderIds, NEW g \in GroupIds
               PROVE  d.groupOf[i] = g <=> i \in d.members[g]
    BY DEF GroupsExact
  <2>1. oco.groupOf[i] = g <=> i \in oco.members[g]
    BY DEF GroupsExact
  <2>2. \A h \in GroupIds : i \in oco.members[h] => oco.groupOf[i] = h
    BY DEF GroupsExact
  <2>3. g # NoGroup
    BY NoGroupAssumption
  <2>4. CASE i \in S \/ \E h \in GroupIds : i \in oco.members[h] /\ Remaining(oco, S, h) = {}
    <3>1. d.groupOf[i] = NoGroup
      BY <1>2, <2>4
    <3>2. i \notin d.members[g]
      <4>1. CASE i \in S
        BY <1>2, <1>4, <4>1
      <4>2. CASE \E h \in GroupIds : i \in oco.members[h] /\ Remaining(oco, S, h) = {}
        BY <1>2, <1>5, <2>1, <2>2, <4>2
      <4> QED BY <2>4, <4>1, <4>2
    <3> QED BY <2>3, <3>1, <3>2
  <2>5. CASE ~(i \in S \/ \E h \in GroupIds : i \in oco.members[h] /\ Remaining(oco, S, h) = {})
    <3>1. d.groupOf[i] = oco.groupOf[i]
      BY <1>2, <2>5
    <3>2. i \in d.members[g] <=> i \in oco.members[g]
      BY <1>2, <1>4, <1>5, <2>5
    <3> QED BY <2>1, <3>1, <3>2
  <2> QED BY <2>4, <2>5
<1>7. ASSUME NEW i, NEW j, Bound(oco, i, j), i \notin S, j \notin S
      PROVE  Bound(d, i, j)
  <2>1. PICK g \in GroupIds : oco.members[g] = {i, j}
    BY <1>7 DEF Bound
  <2>2. d.members[g] = {i, j}
    BY <1>2, <1>4, <1>7, <2>1
  <2> QED BY <2>2 DEF Bound
<1> QED BY <1>1, <1>5, <1>6, <1>7

\* The peer of a bound order is the other one.
LEMMA PeersBound ==
    ASSUME NEW oco \in OcoType, GroupsExact(oco), NEW i \in OrderIds, NEW j \in OrderIds
    PROVE  /\ Bound(oco, i, j) /\ i # j => Peers(oco, i) = {j}
           /\ Bound(oco, i, j) <=> Bound(oco, j, i)
<1>1. ASSUME Bound(oco, i, j), i # j
      PROVE  Peers(oco, i) = {j}
  <2>1. PICK g \in GroupIds : oco.members[g] = {i, j}
    BY <1>1 DEF Bound
  <2>2. oco.groupOf[i] = g /\ g # NoGroup
    BY <2>1, NoGroupAssumption DEF GroupsExact
  <2> QED BY <1>1, <2>1, <2>2 DEF Peers
<1>2. {i, j} = {j, i}
  OBVIOUS
<1> QED BY <1>1, <1>2 DEF Bound

\* A fill consumes the group of its order: the others stay bound, and none of
\* its peers is bound to another order.
LEMMA ConsumeBinds ==
    ASSUME NEW oco \in OcoType, GroupsExact(oco), NEW i \in OrderIds,
           NEW d, d = ConsumePeers(oco, i)
    PROVE  /\ d \in OcoType /\ GroupsExact(d)
           /\ \A g \in GroupIds : d.members[g] \subseteq oco.members[g]
           /\ \A x, y : Bound(oco, x, y) /\ x # i /\ y # i =>
                 /\ Bound(d, x, y) /\ x \notin Peers(oco, i) /\ y \notin Peers(oco, i)
<1>1. d \in OcoType
  BY ConsumePeersTyped
<1>2. CASE oco.groupOf[i] = NoGroup
  BY <1>1, <1>2 DEF ConsumePeers, Peers
<1>3. CASE oco.groupOf[i] # NoGroup
  <2> DEFINE h == oco.groupOf[i]
             gone == oco.members[h]
  <2>1. h \in GroupIds
    BY <1>3 DEF OcoType
  <2>2. i \in gone
    BY <2>1 DEF GroupsExact
  <2>3. d = [members |-> [oco.members EXCEPT ![h] = {}],
             groupOf |-> [x \in OrderIds |-> IF x \in gone THEN NoGroup ELSE oco.groupOf[x]]]
    BY <1>3, <2>2 DEF ConsumePeers
  <2>4. Peers(oco, i) = gone \ {i}
    BY <1>3 DEF Peers
  <2> HIDE DEF h, gone
  <2>5. /\ \A g \in GroupIds : d.members[g] = IF g = h THEN {} ELSE oco.members[g]
        /\ \A x \in OrderIds : d.groupOf[x] = IF x \in gone THEN NoGroup ELSE oco.groupOf[x]
    BY <2>1, <2>3 DEF OcoType
  <2>6. gone = oco.members[h]
    BY DEF gone
  <2>7. GroupsExact(d)
    <3> SUFFICES ASSUME NEW x \in OrderIds, NEW g \in GroupIds
                 PROVE  d.groupOf[x] = g <=> x \in d.members[g]
      BY DEF GroupsExact
    <3>1. (oco.groupOf[x] = g <=> x \in oco.members[g]) /\ (oco.groupOf[x] = h <=> x \in oco.members[h])
      BY <2>1 DEF GroupsExact
    <3> QED BY <2>1, <2>5, <2>6, <3>1, NoGroupAssumption
  <2>8. ASSUME NEW x, NEW y, Bound(oco, x, y), x # i, y # i
        PROVE  Bound(d, x, y) /\ x \notin Peers(oco, i) /\ y \notin Peers(oco, i)
    <3>1. PICK g \in GroupIds : oco.members[g] = {x, y}
      BY <2>8 DEF Bound
    <3>2. g # h /\ x \in OrderIds /\ y \in OrderIds
      BY <2>2, <2>6, <2>8, <3>1 DEF OcoType
    <3>3. Bound(d, x, y)
      BY <2>5, <3>1, <3>2 DEF Bound
    <3>4. x \notin gone /\ y \notin gone
      BY <2>1, <2>6, <3>1, <3>2 DEF GroupsExact
    <3> QED BY <2>4, <3>3, <3>4
  <2>9. \A g \in GroupIds : d.members[g] \subseteq oco.members[g]
    BY <2>5
  <2> QED BY <1>1, <2>7, <2>8, <2>9
<1> QED BY <1>2, <1>3

\* Two orders that no group holds are bound under a key not in use.
LEMMA RegisterBinds ==
    ASSUME NEW oco \in OcoType, GroupsExact(oco), NEW g \in GroupIds, oco.members[g] = {},
           NEW a \in OrderIds, NEW b \in OrderIds, a # b,
           \A h \in GroupIds : a \notin oco.members[h] /\ b \notin oco.members[h],
           NEW d, d = RegisterOco(oco, g, a, b)
    PROVE  /\ d \in OcoType /\ GroupsExact(d)
           /\ \A h \in GroupIds : d.members[h] = IF h = g THEN {a, b} ELSE oco.members[h]
           /\ Bound(d, a, b)
           /\ \A x, y : Bound(oco, x, y) => Bound(d, x, y)
<1> DEFINE free == Detach(oco, {a, b})
<1>1. /\ free \in OcoType /\ GroupsExact(free)
      /\ \A h \in GroupIds : free.members[h] \subseteq oco.members[h]
  <2>1. free = Detach(oco, {a, b})
    OBVIOUS
  <2> HIDE DEF free
  <2> QED BY <2>1, DetachBinds
<1>2. \A h \in GroupIds : free.members[h] = oco.members[h]
  <2>1. \A h \in GroupIds : Leaving(oco, {a, b}, h) = {}
    BY DEF Leaving
  <2>2. \A h \in GroupIds : Remaining(oco, {a, b}, h) = oco.members[h]
    BY <2>1 DEF Remaining
  <2> QED BY <2>2 DEF Detach
<1>3. d = [members |-> [free.members EXCEPT ![g] = {a, b}],
           groupOf |-> [free.groupOf EXCEPT ![a] = g, ![b] = g]]
  BY DEF RegisterOco
<1> HIDE DEF free
<1>4. d \in OcoType
  BY RegisterOcoTyped
<1>5. /\ \A h \in GroupIds : d.members[h] = IF h = g THEN {a, b} ELSE oco.members[h]
      /\ \A x \in OrderIds : d.groupOf[x] = IF x \in {a, b} THEN g ELSE free.groupOf[x]
  BY <1>1, <1>2, <1>3 DEF OcoType
<1>6. GroupsExact(d)
  <2> SUFFICES ASSUME NEW x \in OrderIds, NEW h \in GroupIds
               PROVE  d.groupOf[x] = h <=> x \in d.members[h]
    BY DEF GroupsExact
  <2>1. free.groupOf[x] = h <=> x \in oco.members[h]
    BY <1>1, <1>2 DEF GroupsExact
  <2> QED BY <1>5, <2>1
<1>7. Bound(d, a, b)
  BY <1>5 DEF Bound
<1>8. \A x, y : Bound(oco, x, y) => Bound(d, x, y)
  <2> SUFFICES ASSUME NEW x, NEW y, NEW h \in GroupIds, oco.members[h] = {x, y}
               PROVE  Bound(d, x, y)
    BY DEF Bound
  <2>1. h # g
    OBVIOUS
  <2> QED BY <1>5, <2>1 DEF Bound
<1> QED BY <1>4, <1>5, <1>6, <1>7, <1>8

-----------------------------------------------------------------------------
(***************************************************************************)
(* Pairs.                                                                  *)
(***************************************************************************)

\* A request of the order is not answered yet; a fill of it is on its way.
Requested(s, pending, i) ==
    i \in ToSet(pending) \/ \E m \in ToSet(s.channel) : m.kind = "Request" /\ m.id = i
Fills(s, reports, i) ==
    \E m \in ToSet(s.channel) \cup reports : m.kind = "Report" /\ m.id = i /\ m.status = "Filled"

HasTraded(s, i) ==
    Shown(s, i).status = "Filled" \/ s.ledger.booked[i] # 0 \/ s.ledger.unbooked[i] # 0

\* Something can still make it trade.
Hope(s, pending, reports, i) ==
    \/ Asked(s, pending, i)
    \/ i \in Active(s.book)
    \/ s.om.status[i] \in Live
    \/ i \notin s.suppressed /\ Fills(s, reports, i)
Lost(s, pending, reports, i) == ~Hope(s, pending, reports, i) /\ ~HasTraded(s, i)

\* At most one of the two ever trades.
Split(s, pending, reports, i, j) ==
    \/ Bound(s.om.oco, i, j) /\ ~HasTraded(s, i) /\ ~HasTraded(s, j)
    \/ Lost(s, pending, reports, i)
    \/ Lost(s, pending, reports, j)

\* The two requests are answered together, and neither waits when the other fills.
Apart(s, pending, reports, i, j) ==
    /\ Requested(s, pending, i) => Requested(s, pending, j)
    /\ Asked(s, pending, i) => ~Fills(s, reports, j)
    /\ Split(s, pending, reports, i, j)

Twins(o, i, j) == o[i] \in Order /\ o[i].twin = j
TwinsMatch(o) ==
    /\ \A i \in OrderIds : o[i] \in Order /\ o[i].twin # 0 => o[i].twin \in OrderIds \ {i}
    /\ \A i, j \in OrderIds : Twins(o, i, j) =>
          Twins(o, j, i) /\ (ReduceFirst(o[i]) <=> ReduceFirst(o[j]))

\* No trace of an order that is not drawn yet, and the keys of its groups are free.
Blank(s, x) ==
    /\ s.om.plans[x] = {} /\ s.om.history[x] = <<>>
    /\ s.ledger.booked[x] = 0 /\ s.ledger.unbooked[x] = 0
Linked(s) ==
    /\ GroupsExact(s.om.oco)
    /\ \A g \in GroupIds : \A x \in s.om.oco.members[g] : s.ord[x] \in Order
    /\ \A x \in OrderIds : s.ord[x] \notin Order
                              => s.om.oco.members[<<"oco", x>>] = {} /\ Blank(s, x)
    /\ \A x \in OrderIds : s.ord[x] \notin Order \/ s.om.plans[x] # {}
                              => s.om.oco.members[<<"bracket", x>>] = {}
    /\ \A x \in Active(s.book) : s.om.status[x] \notin Finished

\* A report ends its order, and only a fill trades.
Ends(s, reports) ==
    \A m \in ToSet(s.channel) \cup reports :
        m.kind = "Report" => m.status \in Finished /\ (m.trade > 0 => m.status = "Filled")

Tidy(s, pending, reports) ==
    /\ TwinsMatch(s.ord) /\ Linked(s) /\ Ends(s, reports)
    /\ \A i, j \in OrderIds : Twins(s.ord, i, j) => Apart(s, pending, reports, i, j)

-----------------------------------------------------------------------------
\* t has the orders of s, with their twins.
SameTwins(s, t) ==
    \A i \in OrderIds :
        /\ t.ord[i] \in Order <=> s.ord[i] \in Order
        /\ s.ord[i] \in Order => /\ t.ord[i].twin = s.ord[i].twin
                                 /\ ReduceFirst(t.ord[i]) <=> ReduceFirst(s.ord[i])

\* The order is no nearer to a trade.
Eases(s, p, R, t, q, Q, i) ==
    /\ Hope(t, q, Q, i) => Hope(s, p, R, i)
    /\ HasTraded(t, i) => HasTraded(s, i)

LEMMA TwinsKept ==
    ASSUME NEW s, NEW t, TwinsMatch(s.ord), SameTwins(s, t)
    PROVE  /\ TwinsMatch(t.ord)
           /\ \A i, j \in OrderIds : Twins(t.ord, i, j) <=> Twins(s.ord, i, j)
<1>1. \A i, j \in OrderIds : Twins(t.ord, i, j) <=> Twins(s.ord, i, j)
  BY DEF SameTwins, Twins
<1>2. \A i \in OrderIds : t.ord[i] \in Order /\ t.ord[i].twin # 0 => t.ord[i].twin \in OrderIds \ {i}
  BY DEF SameTwins, TwinsMatch
<1>3. ASSUME NEW i \in OrderIds, NEW j \in OrderIds, Twins(t.ord, i, j)
      PROVE  Twins(t.ord, j, i) /\ (ReduceFirst(t.ord[i]) <=> ReduceFirst(t.ord[j]))
  <2>1. Twins(s.ord, i, j)
    BY <1>1, <1>3
  <2>2. Twins(s.ord, j, i) /\ (ReduceFirst(s.ord[i]) <=> ReduceFirst(s.ord[j]))
    BY <2>1 DEF TwinsMatch
  <2>3. s.ord[i] \in Order /\ s.ord[j] \in Order
    BY <2>1, <2>2 DEF Twins
  <2> QED BY <1>1, <2>2, <2>3 DEF SameTwins
<1> QED BY <1>1, <1>2, <1>3 DEF TwinsMatch

LEMMA LinkedKept ==
    ASSUME NEW s, NEW t, Linked(s), \A i \in OrderIds : s.ord[i] \in Order <=> t.ord[i] \in Order,
           s.om.oco \in OcoType, GroupsExact(t.om.oco),
           \A g \in GroupIds : t.om.oco.members[g] \subseteq s.om.oco.members[g],
           \A i \in OrderIds : t.om.plans[i] \subseteq s.om.plans[i],
           \A i \in OrderIds : s.ord[i] \notin Order /\ Blank(s, i) => Blank(t, i),
           \A i \in Active(t.book) : t.om.status[i] \notin Finished
    PROVE  Linked(t)
<1>1. \A x \in OrderIds : <<"oco", x>> \in GroupIds /\ <<"bracket", x>> \in GroupIds
  BY GroupIdsAssumption
<1>2. \A g \in GroupIds : \A x \in t.om.oco.members[g] : t.ord[x] \in Order
  BY DEF Linked, OcoType
<1>3. \A x \in OrderIds : t.ord[x] \notin Order => t.om.oco.members[<<"oco", x>>] = {} /\ Blank(t, x)
  BY <1>1 DEF Linked
<1>4. \A x \in OrderIds : t.ord[x] \notin Order \/ t.om.plans[x] # {}
                              => t.om.oco.members[<<"bracket", x>>] = {}
  BY <1>1 DEF Linked
<1> QED BY <1>2, <1>3, <1>4 DEF Linked

LEMMA SplitEased ==
    ASSUME NEW s, NEW p, NEW R, NEW t, NEW q, NEW Q, NEW i, NEW j, Split(s, p, R, i, j),
           Eases(s, p, R, t, q, Q, i), Eases(s, p, R, t, q, Q, j),
           Bound(s.om.oco, i, j)
              => Bound(t.om.oco, i, j) \/ ~Hope(t, q, Q, i) \/ ~Hope(t, q, Q, j)
    PROVE  Split(t, q, Q, i, j)
BY DEF Split, Lost, Eases

\* No order is nearer to a trade, nothing is requested, asked for or filled anew,
\* and two orders are unbound only when one of them is lost.
LEMMA TidyEased ==
    ASSUME NEW s, NEW p, NEW R, NEW t, NEW q, NEW Q, Tidy(s, p, R), SameTwins(s, t),
           Linked(t), Ends(t, Q),
           \A i \in OrderIds : Eases(s, p, R, t, q, Q, i),
           \A i \in OrderIds : Asked(t, q, i) => Asked(s, p, i),
           \A i \in OrderIds : Requested(t, q, i) <=> Requested(s, p, i),
           \A i \in OrderIds : Fills(t, Q, i) => Fills(s, R, i),
           \A i, j \in OrderIds : Bound(s.om.oco, i, j) /\ Twins(s.ord, i, j)
              => Bound(t.om.oco, i, j) \/ ~Hope(t, q, Q, i) \/ ~Hope(t, q, Q, j)
    PROVE  Tidy(t, q, Q)
<1>1. TwinsMatch(t.ord) /\ \A i, j \in OrderIds : Twins(t.ord, i, j) <=> Twins(s.ord, i, j)
  BY TwinsKept DEF Tidy
<1>2. ASSUME NEW i \in OrderIds, NEW j \in OrderIds, Twins(t.ord, i, j)
      PROVE  Apart(t, q, Q, i, j)
  <2>1. Twins(s.ord, i, j)
    BY <1>1, <1>2
  <2>2. Apart(s, p, R, i, j)
    BY <2>1 DEF Tidy
  <2>3. Split(t, q, Q, i, j)
    BY <2>1, <2>2, SplitEased DEF Apart
  <2> QED BY <2>2, <2>3 DEF Apart
<1> QED BY <1>1, <1>2 DEF Tidy

\* One pair at a time.
LEMMA TidyStep ==
    ASSUME NEW s, NEW p, NEW R, NEW t, NEW q, NEW Q, Tidy(s, p, R), SameTwins(s, t),
           Linked(t), Ends(t, Q),
           \A i, j \in OrderIds :
              Twins(s.ord, i, j) /\ Twins(s.ord, j, i)
                /\ Apart(s, p, R, i, j) /\ Apart(s, p, R, j, i) => Apart(t, q, Q, i, j)
    PROVE  Tidy(t, q, Q)
<1>1. TwinsMatch(t.ord) /\ \A i, j \in OrderIds : Twins(t.ord, i, j) <=> Twins(s.ord, i, j)
  BY TwinsKept DEF Tidy
<1>2. ASSUME NEW i \in OrderIds, NEW j \in OrderIds, Twins(t.ord, i, j)
      PROVE  Apart(t, q, Q, i, j)
  <2>1. Twins(s.ord, i, j) /\ Twins(s.ord, j, i)
    BY <1>1, <1>2 DEF Tidy, TwinsMatch
  <2>2. Apart(s, p, R, i, j) /\ Apart(s, p, R, j, i)
    BY <2>1 DEF Tidy
  <2> QED BY <2>1, <2>2
<1> QED BY <1>1, <1>2 DEF Tidy

-----------------------------------------------------------------------------
(***************************************************************************)
(* New orders.                                                             *)
(***************************************************************************)

\* Nothing is known of an order that is not drawn yet.
Fresh(s, pending, reports) ==
    \A x \in OrderIds : s.ord[x] \notin Order =>
        /\ x \notin Active(s.book) /\ s.om.status[x] = Absent
        /\ x \notin ToSet(pending) /\ \A m \in ToSet(s.channel) \cup reports : m.id # x

LEMMA FreshFacts ==
    ASSUME NEW s, NEW p, NEW R, Good(s, p, R)
    PROVE  Fresh(s, p, R)
<1> SUFFICES ASSUME NEW x \in OrderIds, s.ord[x] \notin Order
             PROVE  /\ x \notin Active(s.book) /\ s.om.status[x] = Absent
                    /\ x \notin ToSet(p) /\ \A m \in ToSet(s.channel) \cup R : m.id # x
  BY DEF Fresh
<1>1. x \notin Active(s.book)
  BY DEF Good, BookSound
<1>2. s.om.status[x] = Absent
  BY DEF Good
<1>3. x \notin ToSet(p)
  BY DEF Good, RequestSound
<1>4. \A m \in ToSet(s.channel) \cup R : m.id # x
  BY DEF Good, MessageSound
<1> QED BY <1>1, <1>2, <1>3, <1>4

\* The orders of N are drawn and requested, with nothing else but their links.
Draws(s, t, N) ==
    /\ N \subseteq OrderIds
    /\ \A x \in OrderIds : IF x \in N THEN s.ord[x] \notin Order /\ t.ord[x] \in Order
                           ELSE t.ord[x] = s.ord[x]
    /\ t.book = s.book /\ t.ledger = s.ledger /\ t.suppressed = s.suppressed
    /\ t.om.status = s.om.status /\ t.om.history = s.om.history
    /\ ToSet(t.channel) = ToSet(s.channel) \cup {[kind |-> "Request", id |-> x] : x \in N}
    /\ \A x \in OrderIds : t.om.plans[x] # {} => s.om.plans[x] # {} \/ x \in N

\* They are single orders, or one pair under a free key.
DrawsSingles(s, t, N) == t.om.oco = s.om.oco /\ \A x \in N : t.ord[x].twin = 0
DrawsPair(s, t, N, a, b, g) ==
    /\ N = {a, b} /\ a # b /\ t.ord[a].twin = b /\ t.ord[b].twin = a
    /\ ReduceFirst(t.ord[a]) <=> ReduceFirst(t.ord[b])
    /\ g \in GroupIds /\ s.om.oco.members[g] = {}
    /\ t.om.oco = RegisterOco(s.om.oco, g, a, b)
    /\ \A x \in OrderIds : g \in {<<"oco", x>>, <<"bracket", x>>} => t.ord[x] \in Order
    /\ \A x \in OrderIds : g = <<"bracket", x>> => t.om.plans[x] = {}

LEMMA DrawnGroups ==
    ASSUME NEW s, s.om.oco \in OcoType, Linked(s), NEW t, NEW N, Draws(s, t, N),
           DrawsSingles(s, t, N) \/ \E a, b, g : DrawsPair(s, t, N, a, b, g)
    PROVE  /\ GroupsExact(t.om.oco)
           /\ \A g \in GroupIds : \A x \in t.om.oco.members[g] : t.ord[x] \in Order
           /\ \A x \in OrderIds : t.ord[x] \notin Order => t.om.oco.members[<<"oco", x>>] = {}
           /\ \A x \in OrderIds : t.ord[x] \notin Order \/ t.om.plans[x] # {}
                                     => t.om.oco.members[<<"bracket", x>>] = {}
           /\ \A x, y : Bound(s.om.oco, x, y) => Bound(t.om.oco, x, y)
           /\ \A a, b, g : DrawsPair(s, t, N, a, b, g) => Bound(t.om.oco, a, b)
<1>1. \A x \in OrderIds : <<"oco", x>> \in GroupIds /\ <<"bracket", x>> \in GroupIds
  BY GroupIdsAssumption
<1>2. \A x \in OrderIds : t.ord[x] \notin Order => s.ord[x] \notin Order
  BY DEF Draws
<1>3. \A g \in GroupIds : s.om.oco.members[g] \subseteq OrderIds
  BY DEF OcoType
<1>4. \A x \in OrderIds : s.ord[x] \in Order => t.ord[x] \in Order
  BY DEF Draws
<1>5. \A x \in OrderIds : /\ t.ord[x] \notin Order => s.om.oco.members[<<"oco", x>>] = {}
                          /\ t.ord[x] \notin Order \/ t.om.plans[x] # {}
                               => s.om.oco.members[<<"bracket", x>>] = {}
  <2> SUFFICES ASSUME NEW x \in OrderIds
               PROVE  /\ t.ord[x] \notin Order => s.om.oco.members[<<"oco", x>>] = {}
                      /\ t.ord[x] \notin Order \/ t.om.plans[x] # {}
                           => s.om.oco.members[<<"bracket", x>>] = {}
    OBVIOUS
  <2>1. t.om.plans[x] # {} => s.om.plans[x] # {} \/ s.ord[x] \notin Order
    BY DEF Draws
  <2> QED BY <1>2, <2>1 DEF Linked
<1>6. CASE DrawsSingles(s, t, N)
  <2>1. \A a, b, g : ~DrawsPair(s, t, N, a, b, g)
    <3> SUFFICES ASSUME NEW a, NEW b, NEW g, DrawsPair(s, t, N, a, b, g) PROVE FALSE
      OBVIOUS
    <3>1. a \in N /\ b \in N /\ t.ord[a].twin = b /\ t.ord[b].twin = a /\ a # b
      BY DEF DrawsPair
    <3>2. t.ord[a].twin = 0 /\ t.ord[b].twin = 0
      BY <1>6, <3>1 DEF DrawsSingles
    <3> QED BY <3>1, <3>2
  <2>2. t.om.oco = s.om.oco
    BY <1>6 DEF DrawsSingles
  <2>3. GroupsExact(t.om.oco)
    BY <2>2 DEF Linked
  <2>4. \A g \in GroupIds : \A x \in t.om.oco.members[g] : t.ord[x] \in Order
    BY <1>3, <1>4, <2>2 DEF Linked
  <2> QED BY <1>5, <2>1, <2>2, <2>3, <2>4
<1>7. ASSUME NEW a, NEW b, NEW g, DrawsPair(s, t, N, a, b, g)
      PROVE  /\ GroupsExact(t.om.oco)
             /\ \A h \in GroupIds : \A x \in t.om.oco.members[h] : t.ord[x] \in Order
             /\ \A x \in OrderIds : t.ord[x] \notin Order => t.om.oco.members[<<"oco", x>>] = {}
             /\ \A x \in OrderIds : t.ord[x] \notin Order \/ t.om.plans[x] # {}
                                       => t.om.oco.members[<<"bracket", x>>] = {}
             /\ \A x, y : Bound(s.om.oco, x, y) => Bound(t.om.oco, x, y)
             /\ Bound(t.om.oco, a, b)
  <2> DEFINE oco == s.om.oco
             d == t.om.oco
  <2>1. /\ a \in N /\ b \in N /\ a # b /\ g \in GroupIds /\ oco.members[g] = {}
        /\ d = RegisterOco(oco, g, a, b)
    BY <1>7 DEF DrawsPair
  <2>2. /\ a \in OrderIds /\ b \in OrderIds /\ t.ord[a] \in Order /\ t.ord[b] \in Order
        /\ s.ord[a] \notin Order /\ s.ord[b] \notin Order
    BY <2>1 DEF Draws
  <2>3. \A h \in GroupIds : a \notin oco.members[h] /\ b \notin oco.members[h]
    BY <2>2 DEF Linked
  <2>4. GroupsExact(oco)
    BY DEF Linked
  <2> HIDE DEF oco, d
  <2>5. oco \in OcoType
    BY DEF oco
  <2>6. /\ d \in OcoType /\ GroupsExact(d) /\ Bound(d, a, b)
        /\ \A h \in GroupIds : d.members[h] = IF h = g THEN {a, b} ELSE oco.members[h]
        /\ \A x, y : Bound(oco, x, y) => Bound(d, x, y)
    BY <2>1, <2>2, <2>3, <2>4, <2>5, RegisterBinds, SMTT(40)
  <2>7. \A h \in GroupIds : \A x \in d.members[h] : t.ord[x] \in Order
    <3> SUFFICES ASSUME NEW h \in GroupIds, NEW x \in d.members[h] PROVE t.ord[x] \in Order
      OBVIOUS
    <3>1. CASE h = g
      BY <2>2, <2>6, <3>1
    <3>2. CASE h # g
      <4>1. x \in oco.members[h] /\ x \in OrderIds
        BY <1>3, <2>6, <3>2 DEF oco
      <4> QED BY <1>4, <4>1 DEF Linked, oco
    <3> QED BY <3>1, <3>2
  <2>8. \A x \in OrderIds : t.ord[x] \notin Order => d.members[<<"oco", x>>] = {}
    <3> SUFFICES ASSUME NEW x \in OrderIds, t.ord[x] \notin Order PROVE d.members[<<"oco", x>>] = {}
      OBVIOUS
    <3>1. <<"oco", x>> # g
      BY <1>7 DEF DrawsPair
    <3> QED BY <1>1, <1>5, <2>6, <3>1 DEF oco
  <2>9. \A x \in OrderIds : t.ord[x] \notin Order \/ t.om.plans[x] # {}
                               => d.members[<<"bracket", x>>] = {}
    <3> SUFFICES ASSUME NEW x \in OrderIds, t.ord[x] \notin Order \/ t.om.plans[x] # {}
                 PROVE  d.members[<<"bracket", x>>] = {}
      OBVIOUS
    <3>1. <<"bracket", x>> # g
      BY <1>7 DEF DrawsPair
    <3> QED BY <1>1, <1>5, <2>6, <3>1 DEF oco
  <2> QED BY <2>6, <2>7, <2>8, <2>9 DEF oco, d
<1> QED BY <1>6, <1>7

\* New orders leave the others as they were.
LEMMA TidyDrawn ==
    ASSUME NEW s, NEW p, NEW R, s.om.oco \in OcoType, Tidy(s, p, R), Fresh(s, p, R),
           NEW t, NEW N, Draws(s, t, N),
           DrawsSingles(s, t, N) \/ \E a, b, g : DrawsPair(s, t, N, a, b, g)
    PROVE  Tidy(t, p, R)
<1>1. /\ GroupsExact(t.om.oco)
      /\ \A g \in GroupIds : \A x \in t.om.oco.members[g] : t.ord[x] \in Order
      /\ \A x \in OrderIds : t.ord[x] \notin Order => t.om.oco.members[<<"oco", x>>] = {}
      /\ \A x \in OrderIds : t.ord[x] \notin Order \/ t.om.plans[x] # {}
                                => t.om.oco.members[<<"bracket", x>>] = {}
      /\ \A x, y : Bound(s.om.oco, x, y) => Bound(t.om.oco, x, y)
      /\ \A a, b, g : DrawsPair(s, t, N, a, b, g) => Bound(t.om.oco, a, b)
  BY DrawnGroups DEF Tidy
<1>2. Linked(t)
  <2>1. \A x \in OrderIds : t.ord[x] \notin Order => Blank(t, x)
    <3> SUFFICES ASSUME NEW x \in OrderIds, t.ord[x] \notin Order PROVE Blank(t, x)
      OBVIOUS
    <3>1. s.ord[x] \notin Order /\ x \notin N
      BY DEF Draws
    <3>2. Blank(s, x)
      BY <3>1 DEF Tidy, Linked
    <3> QED BY <3>1, <3>2 DEF Blank, Draws
  <2>2. \A x \in Active(t.book) : t.om.status[x] \notin Finished
    BY DEF Draws, Tidy, Linked
  <2> QED BY <1>1, <2>1, <2>2 DEF Linked
<1> DEFINE new == {[kind |-> "Request", id |-> x] : x \in N}
<1>3. /\ ToSet(t.channel) = ToSet(s.channel) \cup new
      /\ \A m \in new : m.kind = "Request" /\ m.id \in N
      /\ \A x \in N : \E m \in new : m.kind = "Request" /\ m.id = x
      /\ "Request" # "Report"
  <2>1. ToSet(t.channel) = ToSet(s.channel) \cup new
    BY DEF Draws
  <2>2. \A m \in new : m.kind = "Request" /\ m.id \in N
    OBVIOUS
  <2>3. ASSUME NEW x \in N PROVE \E m \in new : m.kind = "Request" /\ m.id = x
    <3>1. [kind |-> "Request", id |-> x] \in new
      OBVIOUS
    <3> QED BY <3>1
  <2> HIDE DEF new
  <2> QED BY <2>1, <2>2, <2>3
<1> HIDE DEF new
<1>4. Ends(t, R)
  BY <1>3 DEF Tidy, Ends
<1>5. \A x \in OrderIds : /\ Requested(t, p, x) <=> Requested(s, p, x) \/ x \in N
                          /\ Asked(t, p, x) <=> Asked(s, p, x) \/ x \in N
                          /\ Fills(t, R, x) <=> Fills(s, R, x)
                          /\ HasTraded(t, x) <=> HasTraded(s, x)
  <2> SUFFICES ASSUME NEW x \in OrderIds
               PROVE  /\ Requested(t, p, x) <=> Requested(s, p, x) \/ x \in N
                      /\ Asked(t, p, x) <=> Asked(s, p, x) \/ x \in N
                      /\ Fills(t, R, x) <=> Fills(s, R, x)
                      /\ HasTraded(t, x) <=> HasTraded(s, x)
    OBVIOUS
  <2>1. Requested(t, p, x) <=> Requested(s, p, x) \/ x \in N
    BY <1>3 DEF Requested
  <2>2. Asked(t, p, x) <=> Asked(s, p, x) \/ x \in N
    BY <1>3 DEF Asked
  <2>3. Fills(t, R, x) <=> Fills(s, R, x)
    BY <1>3 DEF Fills
  <2>4. Shown(t, x).status = Shown(s, x).status
    BY DEF Draws, Shown, Snapshot
  <2>5. HasTraded(t, x) <=> HasTraded(s, x)
    BY <2>4 DEF HasTraded, Draws
  <2> QED BY <2>1, <2>2, <2>3, <2>5
<1>6. \A x \in OrderIds \ N : Eases(s, p, R, t, p, R, x)
  BY <1>5 DEF Eases, Hope, Draws
<1>7. \A x \in N : /\ x \in OrderIds /\ s.ord[x] \notin Order /\ t.ord[x] \in Order
                   /\ ~Fills(t, R, x) /\ ~HasTraded(t, x)
  <2> SUFFICES ASSUME NEW x \in N
               PROVE  /\ x \in OrderIds /\ s.ord[x] \notin Order /\ t.ord[x] \in Order
                      /\ ~Fills(s, R, x) /\ ~HasTraded(s, x)
    BY <1>5 DEF Draws
  <2>1. x \in OrderIds /\ s.ord[x] \notin Order /\ t.ord[x] \in Order
    BY DEF Draws
  <2>2. ~Fills(s, R, x) /\ s.om.status[x] = Absent
    BY <2>1 DEF Fresh, Fills
  <2>3. Blank(s, x)
    BY <2>1 DEF Tidy, Linked
  <2>4. Shown(s, x).status # "Filled"
    BY <2>2, <2>3 DEF Blank, Shown, Snapshot, Absent
  <2> QED BY <2>1, <2>2, <2>3, <2>4 DEF HasTraded, Blank
<1>8. \A x \in OrderIds : s.ord[x] \in Order => x \notin N /\ t.ord[x] = s.ord[x]
  BY <1>7 DEF Draws
<1>9. ASSUME NEW x \in OrderIds, x \notin N, t.ord[x] \in Order
      PROVE  s.ord[x] = t.ord[x] /\ s.ord[x] \in Order
  BY <1>9 DEF Draws
<1>10. \A x \in N : \/ t.ord[x].twin = 0
                    \/ \E y \in N : /\ t.ord[x].twin = y /\ t.ord[y].twin = x /\ x # y
                                    /\ ReduceFirst(t.ord[x]) <=> ReduceFirst(t.ord[y])
                                    /\ Bound(t.om.oco, x, y)
  <2>1. ASSUME NEW a, NEW b, NEW g, DrawsPair(s, t, N, a, b, g)
        PROVE  \A x \in N : \E y \in N : /\ t.ord[x].twin = y /\ t.ord[y].twin = x /\ x # y
                                         /\ ReduceFirst(t.ord[x]) <=> ReduceFirst(t.ord[y])
                                         /\ Bound(t.om.oco, x, y)
    <3>1. Bound(t.om.oco, a, b) /\ Bound(t.om.oco, b, a)
      <4>1. {a, b} = {b, a}
        OBVIOUS
      <4> QED BY <1>1, <2>1, <4>1, SMTT(40) DEF Bound
    <3> QED BY <2>1, <3>1 DEF DrawsPair
  <2> QED BY <2>1 DEF DrawsSingles
<1>11. \A i \in OrderIds : t.ord[i] \in Order /\ i \notin N /\ t.ord[i].twin # 0 =>
          t.ord[i].twin \in OrderIds \ {i} /\ t.ord[i].twin \notin N
  <2> SUFFICES ASSUME NEW i \in OrderIds, t.ord[i] \in Order, i \notin N, t.ord[i].twin # 0
               PROVE  t.ord[i].twin \in OrderIds \ {i} /\ t.ord[i].twin \notin N
    OBVIOUS
  <2> DEFINE j == t.ord[i].twin
  <2>1. s.ord[i] = t.ord[i] /\ s.ord[i] \in Order
    BY <1>9
  <2>2. j \in OrderIds \ {i}
    BY <2>1 DEF Tidy, TwinsMatch
  <2>3. Twins(s.ord, i, j)
    BY <2>1 DEF Twins
  <2>4. Twins(s.ord, j, i)
    BY <2>2, <2>3 DEF Tidy, TwinsMatch
  <2> QED BY <1>8, <2>2, <2>4 DEF Twins
<1>12. 0 \notin OrderIds
  <2> DEFINE c == Cardinality(OrderIds)
  <2>1. OrderIds = 1 .. c /\ c \in Nat
    BY OrderIdsAssumption, IdFacts
  <2> HIDE DEF c
  <2> QED BY <2>1
<1>14. \A i, j \in OrderIds : Twins(t.ord, i, j) =>
          \/ /\ i \in N /\ j \in N /\ Twins(t.ord, j, i)
             /\ ReduceFirst(t.ord[i]) <=> ReduceFirst(t.ord[j])
             /\ Bound(t.om.oco, i, j)
          \/ /\ i \notin N /\ j \notin N /\ Twins(s.ord, i, j) /\ Twins(t.ord, j, i)
             /\ ReduceFirst(t.ord[i]) <=> ReduceFirst(t.ord[j])
  <2> SUFFICES ASSUME NEW i \in OrderIds, NEW j \in OrderIds, Twins(t.ord, i, j)
               PROVE  \/ /\ i \in N /\ j \in N /\ Twins(t.ord, j, i)
                         /\ ReduceFirst(t.ord[i]) <=> ReduceFirst(t.ord[j])
                         /\ Bound(t.om.oco, i, j)
                      \/ /\ i \notin N /\ j \notin N /\ Twins(s.ord, i, j) /\ Twins(t.ord, j, i)
                         /\ ReduceFirst(t.ord[i]) <=> ReduceFirst(t.ord[j])
    OBVIOUS
  <2>1. CASE i \in N
    <3>1. t.ord[i].twin = j /\ j # 0
      BY <1>12 DEF Twins
    <3> QED BY <1>7, <1>10, <2>1, <3>1 DEF Twins
  <2>2. CASE i \notin N
    <3>1. t.ord[i].twin = j /\ j # 0 /\ t.ord[i] \in Order
      BY <1>12 DEF Twins
    <3>2. j \notin N /\ s.ord[i] = t.ord[i] /\ s.ord[i] \in Order
      BY <1>9, <1>11, <2>2, <3>1
    <3>3. Twins(s.ord, i, j)
      BY <3>1, <3>2 DEF Twins
    <3>4. Twins(s.ord, j, i) /\ (ReduceFirst(s.ord[i]) <=> ReduceFirst(s.ord[j]))
      BY <3>3 DEF Tidy, TwinsMatch
    <3>5. t.ord[j] = s.ord[j]
      BY <1>8, <3>4 DEF Twins
    <3> QED BY <2>2, <3>2, <3>3, <3>4, <3>5 DEF Twins
  <2> QED BY <2>1, <2>2
<1>15. TwinsMatch(t.ord)
  <2>1. \A i \in OrderIds : t.ord[i] \in Order /\ t.ord[i].twin # 0 => t.ord[i].twin \in OrderIds \ {i}
    BY <1>7, <1>10, <1>11
  <2> QED BY <1>14, <2>1 DEF TwinsMatch
<1>16. ASSUME NEW i \in OrderIds, NEW j \in OrderIds, Twins(t.ord, i, j)
       PROVE  Apart(t, p, R, i, j)
  <2>1. CASE i \in N
    <3>1. j \in N /\ Bound(t.om.oco, i, j)
      BY <1>14, <1>16, <2>1
    <3> QED BY <1>5, <1>7, <2>1, <3>1 DEF Apart, Split
  <2>2. CASE i \notin N
    <3>1. j \notin N /\ Twins(s.ord, i, j)
      BY <1>14, <1>16, <2>2
    <3>2. Apart(s, p, R, i, j)
      BY <3>1 DEF Tidy
    <3>3. Eases(s, p, R, t, p, R, i) /\ Eases(s, p, R, t, p, R, j)
      BY <1>6, <2>2, <3>1
    <3>4. Split(t, p, R, i, j)
      BY <1>1, <3>2, <3>3, SplitEased DEF Apart
    <3> QED BY <1>5, <2>2, <3>1, <3>2, <3>4 DEF Apart
  <2> QED BY <2>1, <2>2
<1> QED BY <1>2, <1>4, <1>15, <1>16 DEF Tidy

\* The requests of the new orders, and of no other, join the channel.
LEMMA ExtendedChannel ==
    ASSUME NEW s \in StateType, NEW t \in StateType, NEW k, Used(s.ord) = 1 .. Drawn(s),
           Extended(s, t, k)
    PROVE  ToSet(t.channel) = ToSet(s.channel)
              \cup {[kind |-> "Request", id |-> x] : x \in Drawn(s) + 1 .. Drawn(s) + k}
<1> DEFINE n == Drawn(s)
           new == Requests(n, k)
<1>1. n \in Nat /\ k \in Nat /\ t.channel = s.channel \o new /\ s.channel \in Seq(MessageType)
  BY UsedFacts DEF Extended, StateType
<1>2. \A j \in n + 1 .. n + k : j \in OrderIds
  BY ExtendedProperties
<1> HIDE DEF n
<1>3. DOMAIN new = 1 .. k /\ \A j \in 1 .. k : new[j] = [kind |-> "Request", id |-> n + j]
  BY DEF Requests
<1>4. new \in Seq(MessageType)
  <2>1. new = [j \in 1 .. k |-> [kind |-> "Request", id |-> n + j]]
    BY DEF Requests
  <2>2. \A j \in 1 .. k : n + j \in OrderIds
    BY <1>1, <1>2
  <2>3. \A j \in 1 .. k : [kind |-> "Request", id |-> n + j] \in MessageType
    BY <2>2 DEF MessageType
  <2> HIDE DEF new
  <2>4. [j \in 1 .. k |-> [kind |-> "Request", id |-> n + j]] \in Seq(MessageType)
    <3>1. k \in Nat
      BY <1>1
    <3> QED BY <2>3, <3>1
  <2> QED BY <2>1, <2>4
<1> HIDE DEF new
<1>5. ToSet(new) = {[kind |-> "Request", id |-> x] : x \in n + 1 .. n + k}
  <2>1. \A x \in n + 1 .. n + k : x - n \in 1 .. k /\ n + (x - n) = x
    BY <1>1
  <2>2. \A j \in 1 .. k : n + j \in n + 1 .. n + k
    BY <1>1
  <2> DEFINE S == {[kind |-> "Request", id |-> x] : x \in n + 1 .. n + k}
  <2>3. ASSUME NEW m \in S PROVE m \in ToSet(new)
    <3>1. PICK x \in n + 1 .. n + k : m = [kind |-> "Request", id |-> x]
      OBVIOUS
    <3>2. x - n \in DOMAIN new /\ new[x - n] = m
      BY <1>3, <2>1, <3>1
    <3> QED BY <3>2 DEF ToSet
  <2>4. ASSUME NEW m \in ToSet(new) PROVE m \in S
    <3>1. PICK j \in 1 .. k : m = new[j]
      BY <1>3 DEF ToSet
    <3> QED BY <1>3, <2>2, <3>1
  <2> QED BY <2>3, <2>4
<1>6. ToSet(t.channel) = ToSet(s.channel) \cup ToSet(new)
  BY <1>1, <1>4, ToSetConcat
<1> QED BY <1>5, <1>6 DEF n

\* The exits of an entry: a pair when there are two.
LEMMA ExitsTwinned ==
    ASSUME NEW s \in StateType, NEW i \in OrderIds, s.ord[i] \in Order, NEW at,
           NEW t, t = RequestExits(s, i, at), NEW n, n = Drawn(s),
           NEW k, k = Cardinality(s.om.plans[i])
    PROVE  /\ k \in 0 .. 2
           /\ \A j \in OrderIds : j \in n + 1 .. n + k =>
                 /\ t.ord[j].twin = IF k = 2 THEN 2 * n + 3 - j ELSE 0
                 /\ t.ord[j].side = "Sell" /\ t.ord[j].effect = s.ord[i].effect
           /\ t.om.oco = IF k = 2 THEN RegisterOco(s.om.oco, <<"bracket", i>>, n + 1, n + 2)
                         ELSE s.om.oco
<1> DEFINE filled == Snapshot(s.om, i).filled
           qty == IF filled > 0 THEN filled ELSE s.ord[i].qty
           exit == [s.ord[i] EXCEPT !.side = "Sell", !.cond = TRUE,
                                    !.resize = FALSE, !.created = at, !.parent = i,
                                    !.qty = qty]
           om2 == ActivateBracket(s.om, i, <<"bracket", i>>, n + 1, n + k)
           ord2 == [l \in OrderIds |->
                       IF l \in n + 1 .. n + k
                       THEN [exit EXCEPT !.twin = IF k = 2 THEN 2 * n + 3 - l ELSE 0]
                       ELSE s.ord[l]]
           ch2 == s.channel \o [l \in 1 .. k |-> [kind |-> "Request", id |-> n + l]]
<1>1. s.om \in RegistryType
  BY DEF StateType
<1>2. k \in 0 .. 2 /\ (k = 2 <=> s.om.plans[i] = Exits)
  <2> DEFINE free == [s.om EXCEPT !.plans = [s.om.plans EXCEPT ![i] = {}]]
  <2>1. free \in RegistryType /\ free.plans = [s.om.plans EXCEPT ![i] = {}]
    BY <1>1 DEF RegistryType
  <2> HIDE DEF free
  <2> QED BY <1>1, <2>1, PlanActivated
<1>3. CASE k = 0
  <2>1. t = s
    BY <1>3 DEF RequestExits
  <2>2. n \in Nat
    BY UsedFacts
  <2>3. \A j : j \notin n + 1 .. n + k
    BY <1>3, <2>2
  <2> QED BY <1>2, <1>3, <2>1, <2>3
<1>4. CASE k # 0
  <2>1. t = [s EXCEPT !.om = om2, !.ord = ord2, !.channel = ch2]
    BY <1>4 DEF RequestExits, Drawn
  <2>2. t.ord = ord2 /\ t.om = om2
    <3> HIDE DEF om2, ord2, ch2
    <3> QED BY <2>1 DEF StateType
  <2>3. om2.oco = IF k = 2 THEN RegisterOco(s.om.oco, <<"bracket", i>>, n + 1, n + 2) ELSE s.om.oco
    BY <1>1, <1>2 DEF ActivateBracket, RegistryType
  <2> HIDE DEF om2
  <2>4. exit.side = "Sell" /\ exit.effect = s.ord[i].effect /\ DOMAIN exit = DOMAIN s.ord[i]
        /\ {"side", "effect", "twin"} \subseteq DOMAIN s.ord[i]
    <3> HIDE DEF qty
    <3> QED BY DEF Order
  <2>5. ASSUME NEW j \in OrderIds, j \in n + 1 .. n + k
        PROVE  /\ t.ord[j].twin = IF k = 2 THEN 2 * n + 3 - j ELSE 0
               /\ t.ord[j].side = "Sell" /\ t.ord[j].effect = s.ord[i].effect
    <3> DEFINE twin == IF k = 2 THEN 2 * n + 3 - j ELSE 0
    <3>1. t.ord[j] = [exit EXCEPT !.twin = twin]
      <4> HIDE DEF exit
      <4> QED BY <2>2, <2>5
    <3> HIDE DEF exit, twin
    <3>2. t.ord[j].twin = twin /\ t.ord[j].side = exit.side /\ t.ord[j].effect = exit.effect
      BY <2>4, <3>1
    <3> QED BY <2>4, <3>2 DEF twin
  <2> QED BY <1>2, <2>2, <2>3, <2>5
<1> QED BY <1>3, <1>4

\* The peers of a filled order, and the groups they leave.
LEMMA PeersGone ==
    ASSUME NEW s \in StateType, NEW i \in OrderIds, NEW t, t = CancelPeers(s, i)
    PROVE  t.om.oco = Detach(ConsumePeers(s.om.oco, i),
                             {j \in Peers(s.om.oco, i) : s.om.status[j] \in Live})
<1> DEFINE P == Peers(s.om.oco, i)
           oco == ConsumePeers(s.om.oco, i)
           r1 == [s.om EXCEPT !.oco = oco]
           r2 == CancelEach(r1, P)
           b == OnCancel(s.book, P)
<1>1. t = [s EXCEPT !.suppressed = @ \cup P, !.book = b, !.om = r2]
  BY DEF CancelPeers
<1> HIDE DEF oco, P
<1>2. r1.oco = oco /\ r1.status = s.om.status /\ r1 \in RegistryType
  <2>1. s.om \in RegistryType /\ s.om.oco \in OcoType
    BY DEF StateType, RegistryType
  <2>2. oco \in OcoType
    BY <2>1, ConsumePeersTyped DEF oco
  <2> QED BY <2>1, <2>2 DEF RegistryType
<1> HIDE DEF r1
<1>3. r2.oco = Detach(oco, {j \in P : s.om.status[j] \in Live})
  BY <1>2 DEF CancelEach, RegistryType
<1> HIDE DEF r2, b
<1>4. t.om = r2
  BY <1>1 DEF StateType
<1> QED BY <1>3, <1>4 DEF oco, P

-----------------------------------------------------------------------------
(***************************************************************************)
(* One report.                                                             *)
(***************************************************************************)

\* What the order manager does with its groups and plans.
LEMMA Heard ==
    ASSUME NEW r \in RegistryType, NEW i \in OrderIds, NEW status, NEW filled,
           NEW t, t = OnReport(r, i, status, filled)
    PROVE  \/ t = r /\ r.status[i] = Absent /\ status \in {"Cancelled", "Expired"}
           \/ /\ status \in {"Rejected", "Cancelled", "Expired"}
              /\ t.oco = Detach(r.oco, {i}) /\ t.plans = [r.plans EXCEPT ![i] = {}]
           \/ status \notin {"Rejected", "Cancelled", "Expired"} /\ t.oco = r.oco /\ t.plans = r.plans
<1> DEFINE known == r.status[i] # Absent
           closed == status = "Rejected" \/ (known /\ status \in {"Cancelled", "Expired"})
           oco == IF closed THEN Detach(r.oco, {i}) ELSE r.oco
           plan == IF closed THEN {} ELSE r.plans[i]
<1>1. CASE ~known /\ status \in {"Cancelled", "Expired"}
  BY <1>1 DEF OnReport
<1>2. CASE ~(~known /\ status \in {"Cancelled", "Expired"})
  <2>1. t = [r EXCEPT !.status[i] = status, !.filled[i] = filled, !.oco = oco, !.plans[i] = plan]
    BY <1>2 DEF OnReport
  <2> HIDE DEF oco, plan
  <2>2. t.oco = oco /\ t.plans = [r.plans EXCEPT ![i] = plan]
    BY <2>1 DEF RegistryType
  <2>3. [r.plans EXCEPT ![i] = r.plans[i]] = r.plans
    BY DEF RegistryType
  <2>4. CASE closed
    <3>1. status \in {"Rejected", "Cancelled", "Expired"}
      BY <2>4
    <3> QED BY <2>2, <2>4, <3>1 DEF oco, plan
  <2>5. CASE ~closed
    <3>1. status \notin {"Rejected", "Cancelled", "Expired"}
      BY <1>2, <2>5
    <3> QED BY <2>2, <2>3, <2>5, <3>1 DEF oco, plan
  <2> QED BY <2>4, <2>5
<1> QED BY <1>1, <1>2

\* The steps of apply_execution_report.
LEMMA ReportSteps ==
    ASSUME NEW s \in StateType, NEW r \in ReportType, ~Dropped(s, r),
           NEW t, t = ApplyReport(s, r)
    PROVE  \E noted \in StateType :
              /\ noted.om = OnReport(s.om, r.id, r.status, r.filled)
              /\ noted.ord = s.ord /\ noted.book = s.book
              /\ noted.channel = s.channel /\ noted.suppressed = s.suppressed
              /\ r.status # "Filled" =>
                    /\ t.om = noted.om /\ t.ord = s.ord /\ t.book = s.book
                    /\ t.channel = s.channel /\ t.suppressed = s.suppressed
              /\ r.status = "Filled" =>
                    LET a == RequestExits(CancelPeers(noted, r.id), r.id, r.at)
                    IN  /\ t.om = a.om /\ t.ord = a.ord /\ t.book = a.book
                        /\ t.channel = a.channel /\ t.suppressed = a.suppressed
<1> DEFINE i == r.id
           heard == OnReport(s.om, i, r.status, r.filled)
           told == [s EXCEPT !.om = heard]
           known == told.om.history[i] # <<>> \/ told.om.status[i] # Absent
           isRejected == known /\ Snapshot(told.om, i).status = "Rejected"
           noted == IF isRejected THEN [told EXCEPT !.ledger.rejected[i] = @ + 1] ELSE told
           a == RequestExits(CancelPeers(noted, i), i, r.at)
           linked == IF r.status = "Filled" THEN a ELSE noted
           unbooked == [linked.ledger.unbooked EXCEPT ![i] = @ + r.trade]
           l == [linked.ledger EXCEPT !.unbooked = unbooked]
<1>1. i \in OrderIds /\ r.status \in Status /\ r.filled \in Nat
  BY DEF ReportType
<1>2. s.om \in RegistryType /\ s.ledger \in LedgerType
  BY DEF StateType
<1>3. heard \in RegistryType
  BY <1>1, <1>2, OnReportLoosens DEF Loosens
<1>4. t = [linked EXCEPT !.ledger.unbooked[i] = @ + r.trade]
  BY DEF ApplyReport, Dropped
<1> HIDE DEF heard
<1>5. /\ told \in StateType /\ told.om = heard /\ told.ord = s.ord /\ told.ledger = s.ledger
      /\ told.book = s.book /\ told.channel = s.channel /\ told.suppressed = s.suppressed
  BY <1>3 DEF StateType
<1> HIDE DEF told, isRejected
<1>6. /\ noted \in StateType /\ noted.om = heard /\ noted.ord = s.ord /\ noted.book = s.book
      /\ noted.channel = s.channel /\ noted.suppressed = s.suppressed
  <2>1. CASE isRejected
    <3> DEFINE m == [s.ledger EXCEPT !.rejected[i] = @ + 1]
    <3>1. noted = [told EXCEPT !.ledger = m]
      BY <1>5, <2>1
    <3>2. m \in LedgerType
      BY <1>1, <1>2, LedgerTyped
    <3> HIDE DEF m, noted
    <3> QED BY <1>5, <3>1, <3>2 DEF StateType
  <2>2. CASE ~isRejected
    BY <1>5, <2>2
  <2> QED BY <2>1, <2>2
<1>7. t = [linked EXCEPT !.ledger = l]
  BY <1>4
<1> HIDE DEF noted
<1>8. r.status # "Filled" => linked = noted
  OBVIOUS
<1>9. r.status = "Filled" => linked = a
  OBVIOUS
<1> HIDE DEF l, linked, a
<1>10. /\ t.om = linked.om /\ t.ord = linked.ord /\ t.book = linked.book
       /\ t.channel = linked.channel /\ t.suppressed = linked.suppressed
  BY <1>7
<1>11. r.status # "Filled" =>
          /\ t.om = heard /\ t.ord = s.ord /\ t.book = s.book
          /\ t.channel = s.channel /\ t.suppressed = s.suppressed
  BY <1>6, <1>8, <1>10
<1>12. r.status = "Filled" =>
          /\ t.om = a.om /\ t.ord = a.ord /\ t.book = a.book
          /\ t.channel = a.channel /\ t.suppressed = a.suppressed
  BY <1>9, <1>10
<1> QED BY <1>6, <1>11, <1>12 DEF a, heard

\* A report r that is the last word on its order.
LEMMA LastReport ==
    ASSUME NEW s, NEW p, NEW R, Good(s, p, R), Tidy(s, p, R), NEW r \in R
    PROVE  /\ r \in ReportType /\ r.kind = "Report" /\ r.id \in OrderIds /\ s.ord[r.id] \in Order
           /\ r.trade \in Nat
           /\ r.status \in Finished /\ (r.trade > 0 => r.status = "Filled")
           /\ ~Asked(s, p, r.id) /\ r.id \notin Active(s.book)
           /\ ~Fills(s, R \ {r}, r.id)
           /\ r.status = "Filled" => Fills(s, R, r.id)
           /\ \A i \in OrderIds : Fills(s, R \ {r}, i) => Fills(s, R, i)
<1>1. r \in ReportType /\ r.kind = "Report" /\ r.id \in OrderIds /\ r.trade \in Nat
  BY DEF Good, ReportType
<1>2. MessageSound(s, r)
  BY DEF Good
<1>3. r.status \in Finished /\ (r.trade > 0 => r.status = "Filled")
  BY <1>1 DEF Tidy, Ends
<1>4. r.id \notin Active(s.book) /\ s.ord[r.id] \in Order
  BY <1>1, <1>2, <1>3 DEF MessageSound
<1>5. InOnePlace(s, p, R)
  BY DEF Good
<1>6. /\ \A m \in ToSet(s.channel) : m.id # r.id
      /\ \A q \in R : q # r => q.id # r.id
      /\ r.id \notin ToSet(p)
  BY <1>5 DEF InOnePlace
<1>7. ~Asked(s, p, r.id)
  BY <1>6 DEF Asked
<1>8. ~Fills(s, R \ {r}, r.id)
  BY <1>6 DEF Fills
<1>9. r.status = "Filled" => Fills(s, R, r.id)
  BY <1>1 DEF Fills
<1>10. \A i \in OrderIds : Fills(s, R \ {r}, i) => Fills(s, R, i)
  BY DEF Fills
<1> QED BY <1>1, <1>3, <1>4, <1>7, <1>8, <1>9, <1>10

\* A report that is dropped.
LEMMA DroppedTidy ==
    ASSUME NEW s, NEW p, NEW R, Tidy(s, p, R), NEW r
    PROVE  Tidy(s, p, R \ {r})
<1>1. \A i \in OrderIds : Fills(s, R \ {r}, i) => Fills(s, R, i)
  BY DEF Fills
<1>2. \A i \in OrderIds : Eases(s, p, R, s, p, R \ {r}, i)
  BY <1>1 DEF Eases, Hope
<1>3. Linked(s) /\ Ends(s, R \ {r}) /\ SameTwins(s, s)
  BY DEF Tidy, Ends, SameTwins
<1> QED BY <1>1, <1>2, <1>3, TidyEased

\* The end of an order that did not fill.
LEMMA UnfilledTidy ==
    ASSUME NEW s, NEW p, NEW R, Good(s, p, R), Tidy(s, p, R), NEW r \in R, r.status # "Filled",
           NEW t, t = ApplyReport(s, r)
    PROVE  Tidy(t, p, R \ {r})
<1> DEFINE i == r.id
           Q == R \ {r}
<1>1. /\ r \in ReportType /\ i \in OrderIds /\ s.ord[i] \in Order /\ r.trade = 0
      /\ r.status \in {"Rejected", "Cancelled", "Expired"}
      /\ ~Asked(s, p, i) /\ i \notin Active(s.book) /\ ~Fills(s, Q, i)
      /\ \A j \in OrderIds : Fills(s, Q, j) => Fills(s, R, j)
  <2>1. /\ r \in ReportType /\ i \in OrderIds /\ s.ord[i] \in Order /\ r.trade = 0
        /\ ~Asked(s, p, i) /\ i \notin Active(s.book) /\ ~Fills(s, Q, i)
        /\ \A j \in OrderIds : Fills(s, Q, j) => Fills(s, R, j)
    <3>1. r \in ReportType /\ i \in OrderIds /\ s.ord[i] \in Order
      BY LastReport
    <3>2. r.trade \in Nat /\ ~(r.trade > 0)
      BY LastReport
    <3>3. r.trade = 0
      BY <3>2
    <3>4. ~Asked(s, p, i) /\ i \notin Active(s.book) /\ ~Fills(s, Q, i)
      BY LastReport
    <3>5. \A j \in OrderIds : Fills(s, Q, j) => Fills(s, R, j)
      BY LastReport
    <3> QED BY <3>1, <3>3, <3>4, <3>5
  <2>2. r.status \in Finished
    BY LastReport
  <2> QED BY <2>1, <2>2 DEF Finished
<1>2. s \in StateType /\ s.om \in RegistryType /\ s.om.oco \in OcoType
  BY DEF Good, StateType, RegistryType
<1>3. ~Dropped(s, r)
  BY DEF Dropped
<1> DEFINE heard == OnReport(s.om, i, r.status, r.filled)
<1>4. /\ t.om = heard /\ t.ord = s.ord /\ t.book = s.book
      /\ t.channel = s.channel /\ t.suppressed = s.suppressed
  BY <1>1, <1>2, <1>3, ReportSteps
<1>5. PICK k \in Nat, P \in SUBSET OrderIds : Applied(s, r, t, k, P)
  BY ReportKeeps
<1>6. /\ t.ledger.booked = s.ledger.booked
      /\ \A j \in OrderIds : t.ledger.unbooked[j] = s.ledger.unbooked[j]
      /\ t.om.history = s.om.history
      /\ \A j \in OrderIds \ {i} : t.om.status[j] = s.om.status[j]
      /\ IF Ignored(s, r) THEN t.om.status[i] = s.om.status[i] ELSE t.om.status[i] = r.status
  <2>1. \A j \in OrderIds : s.ledger.unbooked[j] \in Nat
    BY <1>2 DEF StateType, LedgerType, Counts
  <2>2. \A j \in OrderIds : t.ledger.unbooked[j] = s.ledger.unbooked[j]
    BY <1>1, <1>5, <2>1 DEF Applied
  <2>3. \A j \in OrderIds \ {i} : t.om.status[j] = s.om.status[j]
    BY <1>1, <1>2, <1>4, OnReportLoosens DEF ReportType
  <2> QED BY <1>3, <1>5, <2>2, <2>3 DEF Applied
<1>7. \/ t.om = s.om
      \/ /\ t.om.oco = Detach(s.om.oco, {i}) /\ t.om.plans = [s.om.plans EXCEPT ![i] = {}]
         /\ t.om.status[i] = r.status
  <2>1. \/ heard = s.om /\ s.om.status[i] = Absent /\ r.status \in {"Cancelled", "Expired"}
        \/ /\ r.status \in {"Rejected", "Cancelled", "Expired"}
           /\ heard.oco = Detach(s.om.oco, {i}) /\ heard.plans = [s.om.plans EXCEPT ![i] = {}]
        \/ r.status \notin {"Rejected", "Cancelled", "Expired"}
    <3>1. /\ heard = OnReport(s.om, i, r.status, r.filled)
          /\ i \in OrderIds /\ s.om \in RegistryType
      BY <1>1, <1>2
    <3> DEFINE a == r.status
               b == r.filled
               o == s.om
    <3> HIDE DEF heard, i
    <3>3. heard = OnReport(o, i, a, b) /\ i \in OrderIds /\ o \in RegistryType
      BY <3>1
    <3> HIDE DEF a, b, o
    <3>4. \/ heard = o /\ o.status[i] = Absent /\ a \in {"Cancelled", "Expired"}
          \/ /\ a \in {"Rejected", "Cancelled", "Expired"}
             /\ heard.oco = Detach(o.oco, {i}) /\ heard.plans = [o.plans EXCEPT ![i] = {}]
          \/ a \notin {"Rejected", "Cancelled", "Expired"} /\ heard.oco = o.oco /\ heard.plans = o.plans
      BY <3>3, Heard, SMTT(40)
    <3>2. \/ heard = s.om /\ s.om.status[i] = Absent /\ r.status \in {"Cancelled", "Expired"}
          \/ /\ r.status \in {"Rejected", "Cancelled", "Expired"}
             /\ heard.oco = Detach(s.om.oco, {i}) /\ heard.plans = [s.om.plans EXCEPT ![i] = {}]
          \/ /\ r.status \notin {"Rejected", "Cancelled", "Expired"}
             /\ heard.oco = s.om.oco /\ heard.plans = s.om.plans
      BY <3>4 DEF a, o
    <3> QED BY <3>2
  <2>2. CASE s.om.status[i] = Absent /\ r.status \in {"Cancelled", "Expired"}
    BY <1>4, <2>2 DEF OnReport
  <2>3. CASE ~(s.om.status[i] = Absent /\ r.status \in {"Cancelled", "Expired"})
    BY <1>1, <1>4, <1>6, <2>1, <2>3 DEF Ignored
  <2> QED BY <2>2, <2>3
<1> HIDE DEF heard
<1>8. \A j \in OrderIds : /\ Requested(t, p, j) <=> Requested(s, p, j)
                          /\ Asked(t, p, j) <=> Asked(s, p, j)
                          /\ Fills(t, Q, j) <=> Fills(s, Q, j)
  BY <1>4 DEF Requested, Asked, Fills
<1>9. \A j \in OrderIds : HasTraded(t, j) => HasTraded(s, j)
  <2> SUFFICES ASSUME NEW j \in OrderIds, HasTraded(t, j) PROVE HasTraded(s, j)
    OBVIOUS
  <2>1. CASE t.om.history[j] # <<>> \/ t.om.status[j] = s.om.status[j]
    <3>1. Shown(t, j).status = Shown(s, j).status
      BY <1>6, <2>1 DEF Shown, Snapshot
    <3> QED BY <1>6, <3>1 DEF HasTraded
  <2>2. CASE t.om.history[j] = <<>> /\ t.om.status[j] # s.om.status[j]
    <3>1. j = i /\ t.om.status[j] = r.status
      BY <1>6, <2>2
    <3>2. Shown(t, j).status = r.status
      BY <2>2, <3>1 DEF Shown, Snapshot
    <3> QED BY <1>6, <3>2 DEF HasTraded
  <2> QED BY <2>1, <2>2
<1>10. \A j \in OrderIds \ {i} : Hope(t, p, Q, j) => Hope(s, p, R, j)
  <2> SUFFICES ASSUME NEW j \in OrderIds \ {i}, Hope(t, p, Q, j) PROVE Hope(s, p, R, j)
    OBVIOUS
  <2> QED BY <1>1, <1>4, <1>6, <1>8 DEF Hope
<1>11. CASE t.om = s.om
  <2>1. \A j \in OrderIds : Hope(t, p, Q, j) => Hope(s, p, R, j)
    BY <1>1, <1>4, <1>8, <1>11 DEF Hope
  <2>2. \A j \in OrderIds : Eases(s, p, R, t, p, Q, j)
    BY <1>9, <2>1 DEF Eases
  <2>3. Ends(t, Q) /\ SameTwins(s, t)
    BY <1>4 DEF Tidy, Ends, SameTwins
  <2>4. Linked(t)
    <3>1. \A j \in OrderIds : Blank(s, j) => Blank(t, j)
      BY <1>6, <1>11 DEF Blank
    <3> QED BY <1>4, <1>11, <3>1 DEF Tidy, Linked
  <2>5. \A x, y \in OrderIds : Bound(s.om.oco, x, y) => Bound(t.om.oco, x, y)
    BY <1>11
  <2> QED BY <1>1, <1>8, <2>2, <2>3, <2>4, <2>5, TidyEased
<1>12. CASE /\ t.om.oco = Detach(s.om.oco, {i}) /\ t.om.plans = [s.om.plans EXCEPT ![i] = {}]
            /\ t.om.status[i] = r.status
  <2>1. ~Hope(t, p, Q, i)
    <3>1. r.status \notin Live
      BY <1>1 DEF Live
    <3> QED BY <1>1, <1>4, <1>8, <1>12, <3>1 DEF Hope
  <2>2. \A j \in OrderIds : Eases(s, p, R, t, p, Q, j)
    BY <1>9, <1>10, <2>1 DEF Eases
  <2>3. Ends(t, Q) /\ SameTwins(s, t)
    BY <1>4 DEF Tidy, Ends, SameTwins
  <2>4. GroupsExact(s.om.oco)
    BY DEF Tidy, Linked
  <2>5. /\ GroupsExact(t.om.oco)
        /\ \A g \in GroupIds : t.om.oco.members[g] \subseteq s.om.oco.members[g]
        /\ \A x, y : Bound(s.om.oco, x, y) /\ x \notin {i} /\ y \notin {i} => Bound(t.om.oco, x, y)
    BY <1>2, <1>12, <2>4, DetachBinds
  <2>6. Linked(t)
    <3>1. \A j \in OrderIds : t.om.plans[j] \subseteq s.om.plans[j]
      BY <1>2, <1>12 DEF RegistryType
    <3>2. \A j \in OrderIds : s.ord[j] \notin Order /\ Blank(s, j) => Blank(t, j)
      BY <1>6, <3>1 DEF Blank
    <3>3. \A j \in Active(t.book) : t.om.status[j] \notin Finished
      <4>1. \A j \in Active(t.book) : j \in OrderIds \ {i}
        BY <1>1, <1>4 DEF Active
      <4> QED BY <1>4, <1>6, <4>1 DEF Tidy, Linked
    <3> QED BY <1>2, <1>4, <2>5, <3>1, <3>2, <3>3, LinkedKept DEF Tidy
  <2>7. \A x, y \in OrderIds : Bound(s.om.oco, x, y) =>
           Bound(t.om.oco, x, y) \/ ~Hope(t, p, Q, x) \/ ~Hope(t, p, Q, y)
    BY <2>1, <2>5
  <2> QED BY <1>1, <1>8, <2>2, <2>3, <2>6, <2>7, TidyEased
<1> QED BY <1>7, <1>11, <1>12

\* The copies after a fill, its exits not requested yet: its peers are lost.
LEMMA ClearedTidy ==
    ASSUME NEW s, NEW p, NEW R, Good(s, p, R), Tidy(s, p, R), NEW r \in R, r.status = "Filled",
           r.id \notin s.suppressed, NEW c \in StateType, NEW P, P = Peers(s.om.oco, r.id),
           NEW Q, Q = R \ {r},
           c.ord = s.ord, c.channel = s.channel, c.suppressed = s.suppressed \cup P,
           c.book = OnCancel(s.book, P),
           c.om.oco = Detach(ConsumePeers(s.om.oco, r.id), {j \in P : s.om.status[j] \in Live}),
           c.om.plans = s.om.plans, c.om.history = s.om.history,
           c.ledger.booked = s.ledger.booked,
           \A j \in OrderIds \ {r.id} :
              /\ c.ledger.unbooked[j] = s.ledger.unbooked[j]
              /\ c.om.status[j] = IF j \in P /\ s.om.status[j] \in Live THEN "Cancelled"
                                  ELSE s.om.status[j]
    PROVE  Tidy(c, p, Q)
<1> DEFINE i == r.id
           oco == s.om.oco
           mid == ConsumePeers(oco, i)
           gone == {j \in P : s.om.status[j] \in Live}
<1>1. /\ i \in OrderIds /\ s.ord[i] \in Order /\ i \notin Active(s.book)
      /\ Fills(s, R, i) /\ \A j \in OrderIds : Fills(s, Q, j) => Fills(s, R, j)
  <2>1. i \in OrderIds /\ s.ord[i] \in Order /\ i \notin Active(s.book)
    BY LastReport
  <2>2. Fills(s, R, i)
    BY LastReport
  <2>3. \A j \in OrderIds : Fills(s, Q, j) => Fills(s, R, j)
    BY LastReport
  <2> QED BY <2>1, <2>2, <2>3
<1>2. s \in StateType /\ oco \in OcoType /\ s.book \in BookType
  BY DEF Good, StateType, RegistryType
<1>3. GroupsExact(oco) /\ TwinsMatch(s.ord)
  BY DEF Tidy, Linked
<1>4. Active(c.book) = Active(s.book) \ P
  BY <1>2, OnCancelProperties
<1>5. /\ mid \in OcoType /\ GroupsExact(mid)
      /\ \A g \in GroupIds : mid.members[g] \subseteq oco.members[g]
      /\ \A x, y : Bound(oco, x, y) /\ x # i /\ y # i =>
            Bound(mid, x, y) /\ x \notin P /\ y \notin P
  <2>1. mid = ConsumePeers(oco, i) /\ P = Peers(oco, i)
    OBVIOUS
  <2> HIDE DEF mid, oco, i
  <2> QED BY <1>1, <1>2, <1>3, <2>1, ConsumeBinds
<1>6. /\ GroupsExact(c.om.oco)
      /\ \A g \in GroupIds : c.om.oco.members[g] \subseteq oco.members[g]
      /\ \A x, y : Bound(oco, x, y) /\ x # i /\ y # i => Bound(c.om.oco, x, y)
  <2>1. c.om.oco = Detach(mid, gone) /\ gone \subseteq P
    OBVIOUS
  <2> HIDE DEF mid, gone
  <2>2. /\ GroupsExact(c.om.oco)
        /\ \A g \in GroupIds : c.om.oco.members[g] \subseteq mid.members[g]
        /\ \A x, y : Bound(mid, x, y) /\ x \notin gone /\ y \notin gone => Bound(c.om.oco, x, y)
    <3> DEFINE d == c.om.oco
    <3>1. d = Detach(mid, gone) /\ mid \in OcoType /\ GroupsExact(mid)
      BY <1>5, <2>1
    <3> HIDE DEF d
    <3>2. /\ GroupsExact(d)
          /\ \A g \in GroupIds : d.members[g] \subseteq mid.members[g]
          /\ \A x, y : Bound(mid, x, y) /\ x \notin gone /\ y \notin gone => Bound(d, x, y)
      BY <3>1, DetachBinds
    <3> QED BY <3>2 DEF d
  <2> HIDE DEF oco, i
  <2>3. \A x, y : Bound(oco, x, y) /\ x # i /\ y # i => Bound(c.om.oco, x, y)
    BY <1>5, <2>1, <2>2
  <2>4. \A g \in GroupIds : c.om.oco.members[g] \subseteq oco.members[g]
    BY <1>5, <2>2
  <2> QED BY <2>2, <2>3, <2>4
<1> HIDE DEF mid, gone
<1>7. Linked(c)
  <2>1. \A j \in OrderIds : s.ord[j] \notin Order /\ Blank(s, j) => Blank(c, j)
    BY <1>1 DEF Blank
  <2>2. \A j \in Active(c.book) : c.om.status[j] \notin Finished
    <3> SUFFICES ASSUME NEW j \in Active(c.book) PROVE c.om.status[j] \notin Finished
      OBVIOUS
    <3>1. j \in OrderIds \ {i} /\ j \notin P /\ j \in Active(s.book)
      BY <1>1, <1>4 DEF Active
    <3> QED BY <3>1 DEF Tidy, Linked
  <2> QED BY <1>2, <1>6, <2>1, <2>2, LinkedKept DEF Tidy
<1>8. Ends(c, Q) /\ SameTwins(s, c)
  BY DEF Tidy, Ends, SameTwins
<1>9. \A j \in OrderIds : /\ Requested(c, p, j) <=> Requested(s, p, j)
                          /\ Asked(c, p, j) <=> Asked(s, p, j)
                          /\ Fills(c, Q, j) <=> Fills(s, Q, j)
  BY DEF Requested, Asked, Fills
<1>10. "Cancelled" \notin Live /\ "Cancelled" # "Filled"
  BY DEF Live
<1>11. \A j \in OrderIds \ {i} : /\ Hope(c, p, Q, j) => Hope(s, p, R, j)
                                 /\ j \in P => (Hope(c, p, Q, j) => Asked(s, p, j))
                                 /\ HasTraded(c, j) => HasTraded(s, j)
  <2> SUFFICES ASSUME NEW j \in OrderIds \ {i}
               PROVE  /\ Hope(c, p, Q, j) => Hope(s, p, R, j)
                      /\ j \in P => (Hope(c, p, Q, j) => Asked(s, p, j))
                      /\ HasTraded(c, j) => HasTraded(s, j)
    OBVIOUS
  <2>1. c.om.status[j] \in Live => s.om.status[j] \in Live /\ j \notin P
    BY <1>10
  <2>2. Hope(c, p, Q, j) => Hope(s, p, R, j)
    BY <1>1, <1>4, <1>9, <2>1 DEF Hope
  <2>3. j \in P => (Hope(c, p, Q, j) => Asked(s, p, j))
    BY <1>4, <1>9, <2>1 DEF Hope
  <2>4. Shown(c, j).status = "Filled" => Shown(s, j).status = "Filled"
    BY <1>10 DEF Shown, Snapshot
  <2>5. HasTraded(c, j) => HasTraded(s, j)
    BY <2>4 DEF HasTraded
  <2> QED BY <2>2, <2>3, <2>5
<1>16. ~Asked(s, p, i)
  BY LastReport
\* The peer of the filled order is lost.
<1>12. ASSUME NEW j \in OrderIds, Twins(s.ord, i, j)
       PROVE  /\ j # i /\ Lost(c, p, Q, j) /\ ~Asked(s, p, j)
              /\ ~Asked(s, p, i)
  <2>1. s.ord[i].twin = j /\ j # 0
    <3>1. 0 \notin OrderIds
      <4> DEFINE n == Cardinality(OrderIds)
      <4>1. OrderIds = 1 .. n /\ n \in Nat
        BY OrderIdsAssumption, IdFacts
      <4> HIDE DEF n
      <4> QED BY <4>1
    <3> QED BY <1>12, <3>1 DEF Twins
  <2>2. j # i
    BY <1>1, <1>3, <2>1 DEF TwinsMatch
  <2>3. Twins(s.ord, j, i)
    BY <1>1, <1>3, <1>12 DEF TwinsMatch
  <2>4. Apart(s, p, R, i, j) /\ Apart(s, p, R, j, i)
    BY <1>1, <1>12, <2>3 DEF Tidy
  <2>5. ~Asked(s, p, j)
    BY <1>1, <2>4 DEF Apart
  <2>6. ~Lost(s, p, R, i)
    BY <1>1 DEF Lost, Hope
  <2>7. CASE Bound(oco, i, j)
    <3>1. P = {j}
      <4> HIDE DEF i, oco
      <4>1. P = Peers(oco, i)
        BY DEF i, oco
      <4> QED BY <1>1, <1>2, <1>3, <2>2, <2>7, <4>1, PeersBound
    <3>2. ~HasTraded(s, j)
      BY <2>4, <2>6, <2>7 DEF Apart, Split, Lost
    <3> QED BY <1>11, <2>2, <2>5, <3>1, <3>2, <1>16 DEF Lost
  <2>8. CASE ~Bound(oco, i, j)
    <3>1. Lost(s, p, R, j)
      BY <2>4, <2>6, <2>8 DEF Apart, Split
    <3> QED BY <1>11, <2>2, <2>5, <3>1, <1>16 DEF Lost
  <2> QED BY <2>7, <2>8
<1>13. ASSUME NEW x \in OrderIds, NEW y \in OrderIds
       PROVE  Twins(s.ord, x, y) /\ Twins(s.ord, y, x)
                /\ Apart(s, p, R, x, y) /\ Apart(s, p, R, y, x) => Apart(c, p, Q, x, y)
  <2> SUFFICES ASSUME Twins(s.ord, x, y), Twins(s.ord, y, x),
                      Apart(s, p, R, x, y), Apart(s, p, R, y, x)
               PROVE  Apart(c, p, Q, x, y)
    OBVIOUS
  <2>1. /\ Requested(c, p, x) => Requested(c, p, y)
        /\ Asked(c, p, x) => ~Fills(c, Q, y)
    BY <1>1, <1>9 DEF Apart
  <2>2. CASE x = i
    BY <1>12, <2>1, <2>2 DEF Apart, Split
  <2>3. CASE y = i
    BY <1>12, <2>1, <2>3 DEF Apart, Split
  <2>4. CASE x # i /\ y # i
    <3>1. Eases(s, p, R, c, p, Q, x) /\ Eases(s, p, R, c, p, Q, y)
      BY <1>11, <2>4 DEF Eases
    <3>2. Split(s, p, R, x, y)
      BY DEF Apart
    <3>3. Bound(s.om.oco, x, y) => Bound(c.om.oco, x, y)
      BY <1>6, <2>4
    <3> HIDE DEF i
    <3>4. Split(c, p, Q, x, y)
      BY <3>1, <3>2, <3>3, SplitEased
    <3> QED BY <2>1, <3>4 DEF Apart
  <2> QED BY <2>2, <2>3, <2>4
<1> QED BY <1>7, <1>8, <1>13, TidyStep

\* A set of two elements is not empty.
LEMMA PairNotEmpty ==
    ASSUME NEW S, Cardinality(S) = 2
    PROVE  S # {}
<1> SUFFICES ASSUME S = {}
             PROVE  FALSE
  OBVIOUS
<1>1. Cardinality(S) = 0
  BY FS_EmptySet
<1> QED BY ONLY <1>1, Cardinality(S) = 2

\* A fill: its peers are cancelled, its exits requested.
LEMMA FilledTidy ==
    ASSUME NEW s, NEW p, NEW R, Good(s, p, R), Tidy(s, p, R), NEW r \in R, r.status = "Filled",
           r.id \notin s.suppressed, NEW t, t = ApplyReport(s, r)
    PROVE  Tidy(t, p, R \ {r})
<1> DEFINE i == r.id
           Q == R \ {r}
           P == Peers(s.om.oco, i)
           n == Drawn(s)
           k == Cardinality(s.om.plans[i])
           heard == OnReport(s.om, i, r.status, r.filled)
<1>1. /\ s \in StateType /\ s.om \in RegistryType /\ s.om.oco \in OcoType
      /\ Used(s.ord) = 1 .. n /\ n \in Nat
      /\ n + Cardinality(Planned(s.om)) <= Cardinality(OrderIds)
  BY UsedFacts DEF Good, StateType, RegistryType
<1>2. r \in ReportType /\ i \in OrderIds /\ s.ord[i] \in Order /\ r.at \in Nat
  <2>1. r \in ReportType /\ i \in OrderIds /\ s.ord[i] \in Order
    BY LastReport
  <2> QED BY <2>1 DEF ReportType
<1>3. ~Dropped(s, r)
  BY DEF Dropped
<1>4. PICK noted \in StateType :
         /\ noted.om = heard /\ noted.ord = s.ord /\ noted.book = s.book
         /\ noted.channel = s.channel /\ noted.suppressed = s.suppressed
         /\ LET a == RequestExits(CancelPeers(noted, i), i, r.at)
            IN  /\ t.om = a.om /\ t.ord = a.ord /\ t.book = a.book
                /\ t.channel = a.channel /\ t.suppressed = a.suppressed
  BY <1>1, <1>2, <1>3, ReportSteps
<1>5. PICK kk \in Nat, PP \in SUBSET OrderIds : Applied(s, r, t, kk, PP)
  BY ReportKeeps
<1>6. /\ t \in StateType /\ t.ledger \in LedgerType /\ t.ledger.booked = s.ledger.booked
      /\ \A j \in OrderIds \ {i} : t.ledger.unbooked[j] = s.ledger.unbooked[j]
  <2>1. t \in StateType /\ t.ledger.booked = s.ledger.booked
    BY <1>5 DEF Applied
  <2>2. \A j \in OrderIds \ {i} : t.ledger.unbooked[j] = s.ledger.unbooked[j]
    BY <1>5 DEF Applied
  <2> QED BY <2>1, <2>2 DEF StateType
<1>7. /\ heard.oco = s.om.oco /\ heard.plans = s.om.plans /\ heard.history = s.om.history
      /\ \A j \in OrderIds \ {i} : heard.status[j] = s.om.status[j]
  <2> DEFINE st == r.status
             fi == r.filled
             o == s.om
  <2>1. /\ heard = OnReport(o, i, st, fi) /\ st \in Status /\ fi \in Nat
        /\ i \in OrderIds /\ o \in RegistryType
        /\ st \notin {"Rejected", "Cancelled", "Expired"}
    BY <1>1, <1>2 DEF ReportType
  <2> HIDE DEF st, fi, o, heard, i
  <2>2. heard.oco = o.oco /\ heard.plans = o.plans
    <3>1. \/ heard = o /\ o.status[i] = Absent /\ st \in {"Cancelled", "Expired"}
          \/ /\ st \in {"Rejected", "Cancelled", "Expired"}
             /\ heard.oco = Detach(o.oco, {i}) /\ heard.plans = [o.plans EXCEPT ![i] = {}]
          \/ st \notin {"Rejected", "Cancelled", "Expired"} /\ heard.oco = o.oco /\ heard.plans = o.plans
      BY <2>1, Heard
    <3> QED BY <2>1, <3>1
  <2>3. heard.history = o.history /\ \A j \in OrderIds \ {i} : heard.status[j] = o.status[j]
    BY <2>1, OnReportLoosens
  <2> QED BY <2>2, <2>3 DEF o
<1> HIDE DEF heard
<1> DEFINE cleared == CancelPeers(noted, i)
           gone == {j \in P : noted.om.status[j] \in Live}
<1>8. /\ cleared \in StateType /\ P \subseteq OrderIds \ {i}
      /\ cleared.book = OnCancel(s.book, P) /\ cleared.suppressed = s.suppressed \cup P
      /\ cleared.ord = s.ord /\ cleared.channel = s.channel
      /\ cleared.om.history = s.om.history /\ cleared.om.plans = s.om.plans
      /\ \A j \in OrderIds : cleared.om.status[j] = IF j \in P /\ heard.status[j] \in Live
                                                    THEN "Cancelled" ELSE heard.status[j]
  <2>1. cleared = CancelPeers(noted, i) /\ noted \in StateType /\ i \in OrderIds
        /\ P = Peers(noted.om.oco, i)
    BY <1>2, <1>4, <1>7
  <2> HIDE DEF cleared, i
  <2>3. LET L == Peers(noted.om.oco, i) IN
        /\ cleared \in StateType /\ L \subseteq OrderIds \ {i}
        /\ cleared.book = OnCancel(noted.book, L) /\ cleared.suppressed = noted.suppressed \cup L
        /\ cleared.ord = noted.ord /\ cleared.channel = noted.channel
        /\ cleared.om.history = noted.om.history /\ cleared.om.plans = noted.om.plans
        /\ \A j \in OrderIds : cleared.om.status[j] = IF j \in L /\ noted.om.status[j] \in Live
                                                      THEN "Cancelled" ELSE noted.om.status[j]
    BY <2>1, PeersCancelled
  <2> HIDE DEF P
  <2>2. /\ cleared \in StateType /\ P \subseteq OrderIds \ {i}
        /\ cleared.book = OnCancel(noted.book, P) /\ cleared.suppressed = noted.suppressed \cup P
        /\ cleared.ord = noted.ord /\ cleared.channel = noted.channel
        /\ cleared.om.history = noted.om.history /\ cleared.om.plans = noted.om.plans
        /\ \A j \in OrderIds : cleared.om.status[j] = IF j \in P /\ noted.om.status[j] \in Live
                                                      THEN "Cancelled" ELSE noted.om.status[j]
    BY <2>1, <2>3
  <2> QED BY <1>4, <1>7, <2>2
<1>9. cleared.om.oco = Detach(ConsumePeers(s.om.oco, i), {j \in P : s.om.status[j] \in Live})
  <2>1. cleared = CancelPeers(noted, i) /\ noted \in StateType /\ i \in OrderIds
    BY <1>2
  <2> HIDE DEF cleared
  <2>2. cleared.om.oco = Detach(ConsumePeers(noted.om.oco, i),
                                {j \in Peers(noted.om.oco, i) : noted.om.status[j] \in Live})
    BY <2>1, PeersGone
  <2>3. {j \in Peers(noted.om.oco, i) : noted.om.status[j] \in Live}
          = {j \in P : s.om.status[j] \in Live}
    BY <1>4, <1>7, <1>8
  <2> QED BY <1>4, <1>7, <2>2, <2>3
<1> DEFINE c == [cleared EXCEPT !.ledger = t.ledger]
           a == RequestExits(cleared, i, r.at)
<1>10. /\ t.om = a.om /\ t.ord = a.ord /\ t.book = a.book
       /\ t.channel = a.channel /\ t.suppressed = a.suppressed
  BY <1>4
<1> HIDE DEF cleared
<1>11. /\ c \in StateType /\ c.om = cleared.om /\ c.book = cleared.book /\ c.ord = cleared.ord
       /\ c.channel = cleared.channel /\ c.suppressed = cleared.suppressed
       /\ c.ledger = t.ledger
  BY <1>6, <1>8 DEF StateType
<1> HIDE DEF c
<1>12. Tidy(c, p, Q)
  <2>1. /\ P = Peers(s.om.oco, r.id) /\ c.ord = s.ord /\ c.channel = s.channel
        /\ c.suppressed = s.suppressed \cup P /\ c.book = OnCancel(s.book, P)
        /\ c.om.plans = s.om.plans /\ c.om.history = s.om.history
        /\ c.ledger.booked = s.ledger.booked /\ c \in StateType
    BY <1>6, <1>8, <1>11
  <2>2. c.om.oco = Detach(ConsumePeers(s.om.oco, r.id), {j \in P : s.om.status[j] \in Live})
    BY <1>9, <1>11
  <2>3. \A j \in OrderIds \ {r.id} :
           /\ c.ledger.unbooked[j] = s.ledger.unbooked[j]
           /\ c.om.status[j] = IF j \in P /\ s.om.status[j] \in Live THEN "Cancelled"
                               ELSE s.om.status[j]
    BY <1>6, <1>7, <1>8, <1>11
  <2>4. Good(s, p, R) /\ Tidy(s, p, R) /\ r \in R /\ r.status = "Filled" /\ r.id \notin s.suppressed
    OBVIOUS
  <2> HIDE DEF P
  <2>6. Q = R \ {r}
    OBVIOUS
  <2> HIDE DEF Q, i, n, k
  <2>5. Tidy(c, p, Q)
    BY <2>1, <2>2, <2>3, <2>4, <2>6, ClearedTidy, SMTT(40)
  <2> QED BY <2>5
<1>13. cleared.om.plans = s.om.plans /\ Drawn(cleared) = n /\ Planned(cleared.om) = Planned(s.om)
  BY <1>8 DEF Drawn, Planned
<1>14. /\ a.ord = t.ord /\ a.om = t.om /\ a.book = cleared.book /\ a.suppressed = cleared.suppressed
       /\ a \in StateType /\ Extended(cleared, a, k)
       /\ a.om.status = cleared.om.status /\ a.om.history = cleared.om.history
       /\ a.om.plans = [cleared.om.plans EXCEPT ![i] = {}]
  <2>1. /\ cleared \in StateType /\ i \in OrderIds /\ cleared.ord[i] \in Order /\ r.at \in Nat
        /\ Drawn(cleared) \in Nat
        /\ Drawn(cleared) + Cardinality(Planned(cleared.om)) <= Cardinality(OrderIds)
        /\ a = RequestExits(cleared, i, r.at) /\ k = Cardinality(cleared.om.plans[i])
    BY <1>1, <1>2, <1>8, <1>13
  <2> HIDE DEF a, i, k
  <2>2. /\ a \in StateType /\ Extended(cleared, a, Cardinality(cleared.om.plans[i]))
        /\ a.book = cleared.book /\ a.suppressed = cleared.suppressed
        /\ a.om.status = cleared.om.status /\ a.om.history = cleared.om.history
        /\ a.om.plans = [cleared.om.plans EXCEPT ![i] = {}]
    BY <2>1, ExitsRequested, SMTT(40)
  <2> QED BY <1>10, <2>1, <2>2
<1>15. /\ k \in 0 .. 2
       /\ \A j \in OrderIds : j \in n + 1 .. n + k =>
             /\ t.ord[j].twin = IF k = 2 THEN 2 * n + 3 - j ELSE 0
             /\ t.ord[j].side = "Sell" /\ t.ord[j].effect = s.ord[i].effect
       /\ t.om.oco = IF k = 2 THEN RegisterOco(c.om.oco, <<"bracket", i>>, n + 1, n + 2)
                     ELSE c.om.oco
  <2>1. /\ cleared \in StateType /\ i \in OrderIds /\ cleared.ord[i] \in Order
        /\ a = RequestExits(cleared, i, r.at) /\ n = Drawn(cleared)
        /\ k = Cardinality(cleared.om.plans[i])
    BY <1>2, <1>8, <1>13
  <2> HIDE DEF a, i, k, n
  <2>2. /\ k \in 0 .. 2
        /\ \A j \in OrderIds : j \in n + 1 .. n + k =>
              /\ a.ord[j].twin = IF k = 2 THEN 2 * n + 3 - j ELSE 0
              /\ a.ord[j].side = "Sell" /\ a.ord[j].effect = cleared.ord[i].effect
        /\ a.om.oco = IF k = 2 THEN RegisterOco(cleared.om.oco, <<"bracket", i>>, n + 1, n + 2)
                      ELSE cleared.om.oco
    BY <2>1, ExitsTwinned
  <2> QED BY <1>8, <1>11, <1>14, <2>2
<1> DEFINE N == n + 1 .. n + k
<1> HIDE DEF a
<1>16. /\ \A j \in OrderIds : IF j \in N THEN s.ord[j] \notin Order /\ t.ord[j] \in Order
                              ELSE t.ord[j] = s.ord[j]
       /\ N \subseteq OrderIds
       /\ ToSet(t.channel) = ToSet(c.channel) \cup {[kind |-> "Request", id |-> x] : x \in N}
  <2>1. Used(cleared.ord) = 1 .. Drawn(cleared) /\ cleared \in StateType
    BY <1>1, <1>8, <1>13
  <2>2. /\ \A j \in n + 1 .. n + k : j \in OrderIds /\ s.ord[j] \notin Order /\ t.ord[j] \in Order
    BY <1>8, <1>13, <1>14, <2>1, ExtendedProperties
  <2>3. ToSet(a.channel) = ToSet(cleared.channel)
           \cup {[kind |-> "Request", id |-> x] : x \in n + 1 .. n + k}
    BY <1>13, <1>14, <2>1, ExtendedChannel
  <2>4. \A j \in OrderIds : j \notin N => t.ord[j] = s.ord[j]
    BY <1>8, <1>13, <1>14 DEF Extended
  <2> HIDE DEF n, k
  <2> QED BY <1>10, <1>11, <2>2, <2>3, <2>4
<1>17. \A x \in OrderIds : /\ t.om.plans[x] \subseteq s.om.plans[x]
                           /\ x = i => t.om.plans[x] = {}
  BY <1>1, <1>8, <1>14 DEF RegistryType
<1>18. Draws(c, t, N)
  <2>1. t.book = c.book /\ t.ledger = c.ledger /\ t.suppressed = c.suppressed
    BY <1>10, <1>11, <1>14
  <2>2. t.om.status = c.om.status /\ t.om.history = c.om.history /\ c.ord = s.ord
    BY <1>8, <1>11, <1>14
  <2>3. \A x \in OrderIds : t.om.plans[x] # {} => c.om.plans[x] # {}
    BY <1>8, <1>11, <1>17
  <2> HIDE DEF N
  <2> QED BY <1>16, <2>1, <2>2, <2>3 DEF Draws
<1>19. Fresh(c, p, Q)
  <2> SUFFICES ASSUME NEW x \in OrderIds, s.ord[x] \notin Order
               PROVE  /\ x \notin Active(c.book) /\ c.om.status[x] = Absent
                      /\ x \notin ToSet(p) /\ \A m \in ToSet(c.channel) \cup Q : m.id # x
    BY <1>8, <1>11 DEF Fresh
  <2>1. /\ x \notin Active(s.book) /\ s.om.status[x] = Absent
        /\ x \notin ToSet(p) /\ \A m \in ToSet(s.channel) \cup R : m.id # x
    BY FreshFacts DEF Fresh
  <2>2. x # i
    BY <1>2
  <2>3. Active(c.book) = Active(s.book) \ P
    <3>1. s.book \in BookType /\ c.book = OnCancel(s.book, P)
      BY <1>1, <1>8, <1>11 DEF StateType
    <3> HIDE DEF P
    <3> QED BY <3>1, OnCancelProperties
  <2>4. c.om.status[x] = Absent
    BY <1>7, <1>8, <1>11, <2>1, <2>2, StatusFacts
  <2> QED BY <1>8, <1>11, <2>1, <2>3, <2>4
<1>20. CASE k # 2
  <2>1. DrawsSingles(c, t, N)
    BY <1>15, <1>16, <1>20 DEF DrawsSingles
  <2>2. c.om.oco \in OcoType
    BY <1>11 DEF StateType, RegistryType
  <2> HIDE DEF N, Q
  <2>3. Tidy(t, p, Q)
    BY <1>12, <1>18, <1>19, <2>1, <2>2, TidyDrawn
  <2> QED BY <2>3 DEF Q
<1>21. CASE k = 2
  <2> DEFINE g == <<"bracket", i>>
  <2>1. N = {n + 1, n + 2} /\ n + 1 # n + 2 /\ 2 * n + 3 - (n + 1) = n + 2 /\ 2 * n + 3 - (n + 2) = n + 1
    <3> HIDE DEF n, k
    <3> QED BY <1>1, <1>21
  <2>2. /\ t.ord[n + 1].twin = n + 2 /\ t.ord[n + 2].twin = n + 1
        /\ ReduceFirst(t.ord[n + 1]) <=> ReduceFirst(t.ord[n + 2])
    <3>1. n + 1 \in N /\ n + 2 \in N /\ n + 1 \in OrderIds /\ n + 2 \in OrderIds
      BY <1>16, <2>1
    <3> HIDE DEF n, k
    <3>2. /\ t.ord[n + 1].twin = n + 2 /\ t.ord[n + 2].twin = n + 1
          /\ t.ord[n + 1].side = t.ord[n + 2].side /\ t.ord[n + 1].effect = t.ord[n + 2].effect
      BY <1>15, <1>21, <2>1, <3>1
    <3> QED BY <3>2 DEF ReduceFirst
  <2>3. g \in GroupIds /\ c.om.oco.members[g] = {}
    <3>1. c.om.plans[i] # {}
      <4> DEFINE planned == s.om.plans[i]
      <4>1. c.om.plans[i] = planned
        BY <1>8, <1>11
      <4>2. Cardinality(planned) = 2
        BY <1>21
      <4> HIDE DEF planned
      <4>3. planned # {}
        BY ONLY <4>2, PairNotEmpty
      <4> QED BY ONLY <4>1, <4>3
    <3> QED BY <1>2, <1>12, <3>1, GroupIdsAssumption DEF Tidy, Linked
  <2>4. \A x \in OrderIds : g \in {<<"oco", x>>, <<"bracket", x>>} => t.ord[x] \in Order
    <3>1. t.ord[i] \in Order
      BY <1>2, <1>16
    <3>2. "oco" # "bracket"
      OBVIOUS
    <3> HIDE DEF i
    <3> QED BY <3>1, <3>2
  <2>5. \A x \in OrderIds : g = <<"bracket", x>> => t.om.plans[x] = {}
    BY <1>17
  <2>6. t.om.oco = RegisterOco(c.om.oco, g, n + 1, n + 2)
    BY <1>15, <1>21
  <2> HIDE DEF g
  <2>7. DrawsPair(c, t, N, n + 1, n + 2, g)
    BY <2>1, <2>2, <2>3, <2>4, <2>5, <2>6 DEF DrawsPair, g
  <2>8. c.om.oco \in OcoType
    BY <1>11 DEF StateType, RegistryType
  <2> HIDE DEF N, Q
  <2>9. Tidy(t, p, Q)
    BY <1>12, <1>18, <1>19, <2>7, <2>8, TidyDrawn
  <2> QED BY <2>9 DEF Q
<1> QED BY <1>20, <1>21

\* A report is applied.
LEMMA ReportTidy ==
    ASSUME NEW s, NEW p, NEW R, Good(s, p, R), Tidy(s, p, R), NEW r \in R,
           NEW t, t = ApplyReport(s, r)
    PROVE  Tidy(t, p, R \ {r})
<1>1. CASE Dropped(s, r)
  <2>1. t = s
    BY <1>1 DEF ApplyReport, Dropped
  <2> QED BY <2>1, DroppedTidy
<1>2. CASE r.status # "Filled"
  BY <1>2, UnfilledTidy
<1>3. CASE r.status = "Filled" /\ ~Dropped(s, r)
  BY <1>3, FilledTidy DEF Dropped
<1> QED BY <1>1, <1>2, <1>3

-----------------------------------------------------------------------------
(***************************************************************************)
(* The channel.                                                            *)
(***************************************************************************)

\* Messages and trades move; no order does.
LEMMA TidyMoved ==
    ASSUME NEW s, NEW p, NEW R, NEW t, NEW q, NEW Q, Tidy(s, p, R),
           t.ord = s.ord, t.om = s.om, t.book = s.book, s.om.oco \in OcoType,
           \A i \in OrderIds : s.ledger.booked[i] = 0 /\ s.ledger.unbooked[i] = 0
              => t.ledger.booked[i] = 0 /\ t.ledger.unbooked[i] = 0,
           Ends(t, Q),
           \A i \in OrderIds : Asked(t, q, i) => Asked(s, p, i),
           \A i \in OrderIds : Requested(t, q, i) <=> Requested(s, p, i),
           \A i \in OrderIds : Fills(t, Q, i) =>
              Fills(s, R, i) /\ (i \in s.suppressed => i \in t.suppressed)
    PROVE  Tidy(t, q, Q)
<1>1. SameTwins(s, t)
  BY DEF SameTwins
<1>2. \A i \in OrderIds : HasTraded(t, i) => HasTraded(s, i)
  BY DEF HasTraded, Shown
<1>3. \A i \in OrderIds : Hope(t, q, Q, i) => Hope(s, p, R, i)
  BY DEF Hope
<1>4. \A i \in OrderIds : Eases(s, p, R, t, q, Q, i)
  BY <1>2, <1>3 DEF Eases
<1>5. Linked(t)
  <2>1. GroupsExact(t.om.oco) /\ Linked(s)
    BY DEF Tidy, Linked
  <2>2. \A i \in OrderIds : s.ord[i] \notin Order /\ Blank(s, i) => Blank(t, i)
    BY DEF Blank
  <2>3. \A i \in Active(t.book) : t.om.status[i] \notin Finished
    BY <2>1 DEF Linked
  <2> QED BY <2>1, <2>2, <2>3, LinkedKept
<1> QED BY <1>1, <1>4, <1>5, TidyEased

\* One message is taken from the channel.
LEMMA ReceiveTidy ==
    ASSUME NEW s, NEW pending, Good(s, pending, {}), Tidy(s, pending, {}), s.channel # <<>>,
           NEW m, m = Head(s.channel), NEW u, u = Popped(s),
           NEW t, t \in StateType, m.kind = "Request" => t = u,
           m.kind = "Validated" => t = WithOrder(u, m.id),
           m.kind = "Report" => t = ApplyReport(u, m)
    PROVE  Tidy(t, IF m.kind = "Request" THEN Append(pending, m.id) ELSE pending, {})
<1>1. s \in StateType /\ s.om \in RegistryType /\ s.om.oco \in OcoType
  BY DEF Good, StateType, RegistryType
<1>2. /\ u \in StateType /\ u.om = s.om /\ u.book = s.book /\ u.ord = s.ord
      /\ u.ledger = s.ledger /\ u.suppressed = s.suppressed
      /\ u.channel = Tail(s.channel)
      /\ ToSet(s.channel) = {m} \cup ToSet(u.channel)
  BY <1>1, PoppedProperties
<1>3. /\ m \in MessageType /\ m.id \in OrderIds /\ MessageSound(u, m)
      /\ m.id \notin ToSet(pending) /\ \A d \in ToSet(u.channel) : d.id # m.id
      /\ Good(u, pending, {})
  <2>1. \A mm, uu : /\ mm = Head(s.channel) /\ uu \in StateType
                    /\ uu.om = s.om /\ uu.book = s.book /\ uu.ord = s.ord
                    /\ uu.channel = Tail(s.channel)
                    => /\ mm \in MessageType /\ mm.id \in OrderIds /\ MessageSound(uu, mm)
                       /\ mm.id \notin ToSet(pending)
                       /\ \A d \in ToSet(uu.channel) : d.id # mm.id
                       /\ Good(uu, pending, {})
    BY HeadTaken
  <2> QED BY <1>2, <2>1
<1>4. m.kind \in {"Request", "Validated", "Report"}
  BY <1>3 DEF MessageType, ReportType
<1>5. Ends(u, {})
  BY <1>2 DEF Tidy, Ends
<1>6. CASE m.kind = "Request"
  <2> DEFINE q == Append(pending, m.id)
  <2>1. ToSet(q) = ToSet(pending) \cup {m.id}
    BY <1>3, ToSetAppend DEF Good, InOnePlace
  <2> HIDE DEF q
  <2>2. \A i \in OrderIds : Asked(u, q, i) => Asked(s, pending, i)
    BY <1>2, <1>6, <2>1 DEF Asked
  <2>3. \A i \in OrderIds : Requested(u, q, i) <=> Requested(s, pending, i)
    BY <1>2, <1>6, <2>1 DEF Requested
  <2>4. \A i \in OrderIds : Fills(u, {}, i) => Fills(s, {}, i)
    BY <1>2 DEF Fills
  <2>5. Tidy(u, q, {})
    BY <1>1, <1>2, <1>5, <2>2, <2>3, <2>4, TidyMoved
  <2> QED BY <1>6, <2>5 DEF q
<1>7. CASE m.kind = "Report"
  <2> DEFINE R == {m}
  <2>1. m \in R /\ R \ {m} = {} /\ m \in ReportType /\ "Report" # "Request"
    BY <1>3, <1>7 DEF MessageType
  <2>2. Good(u, pending, R)
    BY <1>3, <2>1 DEF Good, InOnePlace
  <2>3. \A i \in OrderIds : Asked(u, pending, i) => Asked(s, pending, i)
    BY <1>2 DEF Asked
  <2>4. \A i \in OrderIds : Requested(u, pending, i) <=> Requested(s, pending, i)
    BY <1>2, <1>7, <2>1 DEF Requested
  <2>5. \A i \in OrderIds : Fills(u, R, i) => Fills(s, {}, i)
    BY <1>2 DEF Fills
  <2>6. Ends(u, R)
    BY <1>2 DEF Tidy, Ends
  <2> HIDE DEF R
  <2>7. Tidy(u, pending, R)
    BY <1>1, <1>2, <2>3, <2>4, <2>5, <2>6, TidyMoved
  <2>8. Tidy(t, pending, R \ {m})
    BY <1>7, <2>1, <2>2, <2>7, ReportTidy
  <2> QED BY <1>7, <2>1, <2>8
<1>8. CASE m.kind = "Validated"
  <2> DEFINE i == m.id
             b == OnOrder(u.book, i)
             r == AddActive(u.om, i)
  <2>1. t = [u EXCEPT !.book = b, !.om = r]
    BY <1>8 DEF WithOrder
  <2>2. RequestSound(u, i)
    BY <1>3, <1>8 DEF MessageSound, RequestSound
  <2>3. \A j \in OrderIds : b.status[j] = IF j = i THEN "Submitted" ELSE u.book.status[j]
    <3> DEFINE c == u.book
               o == u.ord
    <3>1. BookSound(c, o) /\ i \in OrderIds /\ i \notin ToSet(c.queue) /\ o[i] \in Order
      BY <1>3, <2>2 DEF Good, RequestSound
    <3>2. b = OnOrder(c, i)
      OBVIOUS
    <3> HIDE DEF b, c, o
    <3>3. \A j \in OrderIds : b.status[j] = IF j = i THEN "Submitted" ELSE c.status[j]
      BY <3>1, <3>2, OnOrderProperties
    <3> QED BY <3>3 DEF c
  <2>4. /\ r.history = u.om.history /\ r.plans = u.om.plans /\ r.oco = u.om.oco
        /\ \A j \in OrderIds : r.status[j] = IF j = i THEN "New" ELSE u.om.status[j]
    <3> DEFINE v == u.om
    <3>1. v \in RegistryType /\ i \in OrderIds /\ r = AddActive(v, i)
      BY <1>2, <1>3 DEF StateType
    <3> HIDE DEF r, v
    <3>2. /\ r.history = v.history /\ r.plans = v.plans /\ r.oco = v.oco
          /\ \A j \in OrderIds : r.status[j] = IF j = i THEN "New" ELSE v.status[j]
      BY <3>1, AddActiveProperties
    <3> QED BY <3>2 DEF v
  <2> HIDE DEF r, b
  <2>5. /\ t.om = r /\ t.book = b /\ t.ord = u.ord /\ t.channel = u.channel
        /\ t.ledger = u.ledger /\ t.suppressed = u.suppressed
    BY <1>2, <2>1 DEF StateType
  <2>6. i \in OrderIds /\ \A d \in ToSet(u.channel) : d.id # i
    BY <1>3
  <2>7. /\ t.om.history = s.om.history /\ t.om.plans = s.om.plans /\ t.om.oco = s.om.oco
        /\ t.ord = s.ord /\ t.ledger = s.ledger /\ t.suppressed = s.suppressed
        /\ t.channel = u.channel
    BY <1>2, <2>4, <2>5
  <2>8. \A j \in OrderIds \ {i} : /\ t.om.status[j] = s.om.status[j]
                                  /\ j \in Active(t.book) <=> j \in Active(s.book)
    BY <1>2, <2>3, <2>4, <2>5 DEF Active
  <2>9. t.om.status[i] = "New" /\ s.om.status[i] = Absent
    BY <1>2, <2>2, <2>4, <2>5, <2>6 DEF RequestSound
  <2> HIDE DEF i
  <2>10. \A j \in OrderIds : /\ Asked(t, pending, j) => Asked(s, pending, j)
                             /\ Requested(t, pending, j) <=> Requested(s, pending, j)
                             /\ Fills(t, {}, j) => Fills(s, {}, j)
    <3>1. \A j \in OrderIds : Asked(t, pending, j) => Asked(s, pending, j)
      BY <1>2, <2>7 DEF Asked
    <3>2. "Validated" # "Request"
      OBVIOUS
    <3>3. \A j \in OrderIds : Requested(t, pending, j) <=> Requested(s, pending, j)
      BY <1>2, <1>8, <2>7, <3>2 DEF Requested
    <3>4. \A j \in OrderIds : Fills(t, {}, j) => Fills(s, {}, j)
      BY <1>2, <2>7 DEF Fills
    <3> QED BY <3>1, <3>3, <3>4
  <2>11. Asked(s, pending, i)
    <3>1. "Validated" # "Report"
      OBVIOUS
    <3> QED BY <1>2, <1>8, <3>1 DEF Asked, i
  <2>12. \A j \in OrderIds : Hope(t, pending, {}, j) => Hope(s, pending, {}, j)
    BY <2>7, <2>8, <2>10, <2>11 DEF Hope
  <2>13. \A j \in OrderIds : HasTraded(t, j) => HasTraded(s, j)
    <3>1. ASSUME NEW j \in OrderIds \ {i} PROVE Shown(t, j).status = Shown(s, j).status
      BY <2>7, <2>8 DEF Shown, Snapshot
    <3>2. Shown(t, i).status = "Filled" => Shown(s, i).status = "Filled"
      BY <2>7, <2>9 DEF Shown, Snapshot, Absent
    <3> QED BY <2>7, <3>1, <3>2 DEF HasTraded
  <2>14. \A j \in OrderIds : Eases(s, pending, {}, t, pending, {}, j)
    BY <2>12, <2>13 DEF Eases
  <2>15. Linked(t)
    <3>1. Linked(s) /\ GroupsExact(t.om.oco)
      BY <2>7 DEF Tidy, Linked
    <3>2. \A j \in OrderIds : s.ord[j] \notin Order /\ Blank(s, j) => Blank(t, j)
      BY <2>7 DEF Blank
    <3>3. \A j \in Active(t.book) : t.om.status[j] \notin Finished
      <4>1. "New" \notin Finished
        BY StatusFacts
      <4>2. \A j \in Active(t.book) : j \in OrderIds
        BY DEF Active
      <4> QED BY <2>8, <2>9, <3>1, <4>1, <4>2 DEF Linked
    <3> QED BY <1>1, <2>7, <3>1, <3>2, <3>3, LinkedKept
  <2>16. SameTwins(s, t) /\ Ends(t, {})
    BY <1>5, <2>7 DEF SameTwins, Ends
  <2>17. Tidy(t, pending, {})
    BY <2>7, <2>10, <2>14, <2>15, <2>16, TidyEased
  <2> QED BY <1>8, <2>17
<1> QED BY <1>4, <1>6, <1>7, <1>8

-----------------------------------------------------------------------------
(***************************************************************************)
(* The client.                                                             *)
(***************************************************************************)

\* The channel holds requests and rejections.
Sifted(s) ==
    \A m \in ToSet(s.channel) : m.kind = "Request" \/ (m.kind = "Report" /\ m.status = "Rejected")

\* The client is called; its reports are still to be applied.
LEMMA CallTidy ==
    ASSUME NoParts, NEW s, NEW pending, Good(s, pending, {}), Tidy(s, pending, {}), Sifted(s),
           NEW times, NEW done, CallSound(s.book, s.ord, times, done),
           NEW t, t.om = s.om, t.ord = s.ord, t.channel = s.channel,
           t.book = done.book, t.ledger = s.ledger, t.suppressed = s.suppressed
    PROVE  Tidy(t, pending, ToSet(done.reports))
<1> DEFINE b == s.book
           c == done.book
           R == ToSet(done.reports)
<1>1. /\ \A r \in R : r \in ReportType /\ r.kind = "Report" /\ Genuine(b, s.ord, c, r)
      /\ \A i \in Active(c) : i \in Active(b)
  <2>1. done.reports \in Seq(ReportType) /\ Outcome(b, s.ord, c, done.reports)
    BY DEF CallSound
  <2>2. \A r \in R : \E k \in DOMAIN done.reports : done.reports[k] = r
    BY DEF ToSet
  <2>3. \A k \in DOMAIN done.reports : done.reports[k] \in ReportType
    BY <2>1
  <2>4. \A r \in R : r \in ReportType /\ Genuine(b, s.ord, c, r)
    BY <2>1, <2>2, <2>3 DEF Outcome
  <2> QED BY <2>1, <2>4 DEF Outcome, ReportType
<1> HIDE DEF R
<1>2. \A r \in R : /\ r.id \in Active(b) /\ r.status \in Finished
                   /\ r.trade > 0 => r.status = "Filled"
  <2> SUFFICES ASSUME NEW r \in R
               PROVE  r.id \in Active(b) /\ r.status \in Finished /\ (r.trade > 0 => r.status = "Filled")
    OBVIOUS
  <2>1. Genuine(b, s.ord, c, r) /\ r.trade \in Nat
    BY <1>1 DEF ReportType
  <2>2. r.id \in Active(b) /\ r.status \in Finished
    BY <2>1 DEF Genuine, NoParts
  <2>3. r.status \in {"Filled", "Cancelled", "Expired", "Rejected"}
    BY <2>2 DEF Finished
  <2>4. r.status # "Filled" => r.trade = 0
    BY <2>1, <2>3 DEF Genuine
  <2> QED BY <2>1, <2>2, <2>4
<1>3. \A i \in OrderIds : /\ Asked(t, pending, i) <=> Asked(s, pending, i)
                          /\ Requested(t, pending, i) <=> Requested(s, pending, i)
                          /\ HasTraded(t, i) <=> HasTraded(s, i)
  BY DEF Asked, Requested, HasTraded, Shown
<1>4. \A i \in OrderIds : Fills(t, R, i) => i \in Active(b)
  <2>1. \A m \in ToSet(s.channel) : ~(m.kind = "Report" /\ m.status = "Filled")
    <3>1. "Request" # "Report" /\ "Rejected" # "Filled"
      OBVIOUS
    <3> QED BY <3>1 DEF Sifted
  <2> QED BY <1>2, <2>1 DEF Fills
<1>5. \A i \in OrderIds : Hope(t, pending, R, i) => Hope(s, pending, {}, i)
  BY <1>1, <1>3, <1>4 DEF Hope
<1>6. \A i \in OrderIds : Eases(s, pending, {}, t, pending, R, i)
  BY <1>3, <1>5 DEF Eases
<1>7. Linked(t)
  <2>1. Linked(s) /\ GroupsExact(t.om.oco) /\ s.om.oco \in OcoType
    BY DEF Tidy, Linked, Good, StateType, RegistryType
  <2>2. \A i \in OrderIds : s.ord[i] \notin Order /\ Blank(s, i) => Blank(t, i)
    BY DEF Blank
  <2>3. \A i \in Active(t.book) : t.om.status[i] \notin Finished
    BY <1>1, <2>1 DEF Linked
  <2> QED BY <2>1, <2>2, <2>3, LinkedKept
<1>8. Ends(t, R)
  BY <1>2 DEF Tidy, Ends
<1>9. ASSUME NEW i \in OrderIds, NEW j \in OrderIds, Apart(s, pending, {}, i, j)
      PROVE  Apart(t, pending, R, i, j)
  <2>1. Asked(t, pending, i) => ~Fills(t, R, j)
    <3> SUFFICES ASSUME Asked(t, pending, i) PROVE ~Fills(t, R, j)
      OBVIOUS
    <3>1. Requested(s, pending, i)
      <4>1. "Rejected" # "Request" /\ "Report" # "Request"
        OBVIOUS
      <4> QED BY <1>3, <4>1 DEF Asked, Requested, Sifted
    <3>2. Requested(s, pending, j)
      BY <1>9, <3>1 DEF Apart
    <3>3. Asked(s, pending, j)
      BY <3>2 DEF Requested, Asked
    <3>4. j \notin Active(b)
      BY <3>3, MessageFacts
    <3> QED BY <1>4, <3>4
  <2>2. Split(t, pending, R, i, j)
    BY <1>6, <1>9, SplitEased DEF Apart
  <2> QED BY <1>3, <1>9, <2>1, <2>2 DEF Apart
<1>10. SameTwins(s, t)
  BY DEF SameTwins
<1>11. Tidy(t, pending, R)
  BY <1>7, <1>8, <1>9, <1>10, TidyStep
<1> QED BY <1>11 DEF R

\* Reports enter the channel; trades may be booked.
LEMMA EnqueuedTidy ==
    ASSUME NEW s, NEW pending, NEW R \in Seq(ReportType), Good(s, pending, ToSet(R)),
           Tidy(s, pending, ToSet(R)),
           NEW t, t.om = s.om, t.ord = s.ord, t.channel = s.channel \o R,
           t.book = s.book, t.suppressed = s.suppressed,
           \A i \in OrderIds : s.ledger.booked[i] = 0 /\ s.ledger.unbooked[i] = 0
              => t.ledger.booked[i] = 0 /\ t.ledger.unbooked[i] = 0
    PROVE  Tidy(t, pending, {})
<1>1. s \in StateType /\ s.om.oco \in OcoType
  BY DEF Good, StateType, RegistryType
<1>2. ToSet(t.channel) = ToSet(s.channel) \cup ToSet(R)
  <2>1. s.channel \in Seq(MessageType) /\ R \in Seq(MessageType)
    BY <1>1 DEF StateType, MessageType
  <2> QED BY <2>1, ToSetConcat
<1>3. \A r \in ToSet(R) : r.kind = "Report"
  BY MessageIds DEF ReportType
<1>4. "Report" # "Request"
  OBVIOUS
<1>5. \A i \in OrderIds : Asked(t, pending, i) => Asked(s, pending, i)
  BY <1>2, <1>3 DEF Asked
<1>6. \A i \in OrderIds : Requested(t, pending, i) <=> Requested(s, pending, i)
  BY <1>2, <1>3, <1>4 DEF Requested
<1>7. \A i \in OrderIds : Fills(t, {}, i) => Fills(s, ToSet(R), i)
  BY <1>2 DEF Fills
<1>8. Ends(t, {})
  BY <1>2 DEF Tidy, Ends
<1> QED BY <1>1, <1>5, <1>6, <1>7, <1>8, TidyMoved

\* The client matches the current event.
LEMMA MatchTidy ==
    ASSUME NoParts, NEW s, NEW pending, Good(s, pending, {}), Tidy(s, pending, {}), Quiet(s),
           Sifted(s), NEW event \in EventType, NEW now \in Nat, NEW session, NEW priced,
           NEW v \in VerdictsOf(s.book, s.ord, {event}, priced, OrderIds),
           NEW done, done = OnEvent(s.book, s.ord, event, now, session, priced, v),
           NEW l \in LedgerType,
           \A i \in OrderIds : s.ledger.booked[i] = 0 /\ s.ledger.unbooked[i] = 0
              => l.booked[i] = 0 /\ l.unbooked[i] = 0,
           NEW t, t = [om |-> s.om, book |-> done.book, ord |-> s.ord,
                       channel |-> s.channel \o done.reports, ledger |-> l,
                       suppressed |-> s.suppressed]
    PROVE  Tidy(t, pending, {})
<1>1. t \in StateType /\ CallSound(s.book, s.ord, Nat, done)
  BY MatchKeeps, ZenonT(60)
<1>2. s \in StateType /\ done.reports \in Seq(ReportType) /\ done.book \in BookType
  BY <1>1 DEF Good, CallSound, BookSound
<1> DEFINE u == [om |-> s.om, book |-> done.book, ord |-> s.ord, channel |-> s.channel,
                 ledger |-> s.ledger, suppressed |-> s.suppressed]
<1>3. /\ u \in StateType /\ u.om = s.om /\ u.book = done.book /\ u.ord = s.ord
      /\ u.channel = s.channel /\ u.ledger = s.ledger /\ u.suppressed = s.suppressed
  BY <1>2 DEF StateType
<1>4. /\ t.om = s.om /\ t.book = done.book /\ t.ord = s.ord /\ t.ledger = l
      /\ t.channel = s.channel \o done.reports /\ t.suppressed = s.suppressed
  OBVIOUS
<1> HIDE DEF u
<1>5. Good(u, pending, ToSet(done.reports)) /\ Tidy(u, pending, ToSet(done.reports))
  <2>1. \A m \in ToSet(s.channel) : m.id \notin Active(s.book)
    BY DEF Quiet
  <2>2. Good(u, pending, ToSet(done.reports))
    BY <1>1, <1>3, <2>1, CallKeeps
  <2>3. Tidy(u, pending, ToSet(done.reports))
    BY <1>1, <1>3, CallTidy
  <2> QED BY <2>2, <2>3
<1> DEFINE R == done.reports
<1>6. /\ R \in Seq(ReportType) /\ Good(u, pending, ToSet(R)) /\ Tidy(u, pending, ToSet(R))
      /\ t.om = u.om /\ t.ord = u.ord /\ t.channel = u.channel \o R /\ t.book = u.book
      /\ t.suppressed = u.suppressed
      /\ \A i \in OrderIds : u.ledger.booked[i] = 0 /\ u.ledger.unbooked[i] = 0
            => t.ledger.booked[i] = 0 /\ t.ledger.unbooked[i] = 0
  BY <1>2, <1>3, <1>4, <1>5
<1> HIDE DEF R
<1> QED BY <1>6, EnqueuedTidy, ZenonT(60)

\* Once flushed, a trade is booked: an order that had none has none.
LEMMA FlushTrades ==
    ASSUME NEW l \in LedgerType, NEW i \in OrderIds
    PROVE  /\ Flush(l).unbooked[i] = 0 /\ Flush(l).booked[i] = l.booked[i] + l.unbooked[i]
           /\ l.booked[i] = 0 /\ l.unbooked[i] = 0 =>
                 Flush(l).booked[i] = 0 /\ Flush(l).unbooked[i] = 0
<1>1. l.booked[i] \in Nat /\ l.unbooked[i] \in Nat
  BY DEF LedgerType, Counts
<1>2. Flush(l).unbooked[i] = 0 /\ Flush(l).booked[i] = l.booked[i] + l.unbooked[i]
  BY DEF Flush, LedgerType, Plus, None
<1> QED BY <1>1, <1>2

\* Some of the pending requests are answered; those that wait are of the other kind.
\* t is s after the requests ids were answered, and none of their twins waits.
TurnOf(s, pending, ids, rest, risk, at, t) ==
    /\ s.channel = <<>>
    /\ ToSet(ids) \cup ToSet(rest) = ToSet(pending) /\ ToSet(ids) \cap ToSet(rest) = {}
    /\ \A i \in ToSet(ids), j \in ToSet(rest) : ~(ReduceFirst(s.ord[i]) <=> ReduceFirst(s.ord[j]))
    /\ \A i \in ToSet(ids) : risk[i] \in Nat
    /\ t.om = s.om /\ t.book = s.book /\ t.channel = Answers(ids, risk, at)
    /\ t.ord = Reduced(s.ord, ids, risk) /\ t.suppressed = s.suppressed
    /\ \A i \in OrderIds : s.ledger.booked[i] = 0 /\ s.ledger.unbooked[i] = 0
          => t.ledger.booked[i] = 0 /\ t.ledger.unbooked[i] = 0

LEMMA AnsweredTidy ==
    ASSUME NEW s, NEW pending, Good(s, pending, {}), Tidy(s, pending, {}),
           NEW ids \in Seq(OrderIds), NEW rest, NEW risk, NEW at \in Nat,
           NEW t, TurnOf(s, pending, ids, rest, risk, at, t)
    PROVE  Tidy(t, rest, {})
<1>0. /\ s.channel = <<>>
      /\ ToSet(ids) \cup ToSet(rest) = ToSet(pending) /\ ToSet(ids) \cap ToSet(rest) = {}
      /\ \A i \in ToSet(ids), j \in ToSet(rest) :
            ~(ReduceFirst(s.ord[i]) <=> ReduceFirst(s.ord[j]))
      /\ \A i \in ToSet(ids) : risk[i] \in Nat
      /\ t.om = s.om /\ t.book = s.book /\ t.channel = Answers(ids, risk, at)
      /\ t.ord = Reduced(s.ord, ids, risk) /\ t.suppressed = s.suppressed
      /\ \A i \in OrderIds : s.ledger.booked[i] = 0 /\ s.ledger.unbooked[i] = 0
            => t.ledger.booked[i] = 0 /\ t.ledger.unbooked[i] = 0
  BY DEF TurnOf
<1> USE <1>0
<1>1. s \in StateType /\ s.om.oco \in OcoType /\ ToSet(pending) \subseteq OrderIds
  BY MessageIds DEF Good, StateType, RegistryType
<1>2. s.ord \in [OrderIds -> Order \cup {NoOrder}] /\ \A i \in ToSet(ids) : s.ord[i] \in Order
  BY <1>1 DEF StateType, Good, RequestSound
<1>3. \A i \in OrderIds : /\ t.ord[i] \in Order <=> s.ord[i] \in Order
                          /\ s.ord[i] \in Order => /\ t.ord[i].twin = s.ord[i].twin
                                                   /\ ReduceFirst(t.ord[i]) <=> ReduceFirst(s.ord[i])
  <2> SUFFICES ASSUME NEW i \in OrderIds
               PROVE  /\ t.ord[i] \in Order <=> s.ord[i] \in Order
                      /\ s.ord[i] \in Order => /\ t.ord[i].twin = s.ord[i].twin
                                               /\ ReduceFirst(t.ord[i]) <=> ReduceFirst(s.ord[i])
    OBVIOUS
  <2>1. t.ord[i] = IF i \in ToSet(ids) /\ risk[i] # 0 THEN [s.ord[i] EXCEPT !.qty = risk[i]]
                   ELSE s.ord[i]
    BY DEF Reduced
  <2>2. CASE i \in ToSet(ids) /\ risk[i] # 0
    <3>1. s.ord[i] \in Order /\ risk[i] \in Nat \ {0} /\ t.ord[i] = [s.ord[i] EXCEPT !.qty = risk[i]]
      BY <1>2, <2>1, <2>2
    <3>2. t.ord[i] \in Order /\ t.ord[i].twin = s.ord[i].twin
          /\ t.ord[i].side = s.ord[i].side /\ t.ord[i].effect = s.ord[i].effect
      BY <3>1 DEF Order
    <3> QED BY <3>1, <3>2 DEF ReduceFirst
  <2>3. CASE ~(i \in ToSet(ids) /\ risk[i] # 0)
    BY <2>1, <2>3
  <2> QED BY <2>2, <2>3
<1>4. SameTwins(s, t)
  BY <1>3 DEF SameTwins
<1> DEFINE c == t.channel
<1>5. \A m \in ToSet(c) : /\ m.id \in ToSet(ids) /\ m.kind # "Request"
                          /\ m.kind = "Report" => m.status = "Rejected" /\ m.trade = 0
  <2>1. ASSUME NEW k \in DOMAIN ids
        PROVE  LET m == Answers(ids, risk, at)[k]
               IN  /\ m.id \in ToSet(ids) /\ m.kind # "Request"
                   /\ m.kind = "Report" => m.status = "Rejected" /\ m.trade = 0
    <3> DEFINE m == Answers(ids, risk, at)[k]
    <3>1. m = IF risk[ids[k]] = 0 THEN Report(ids[k], "Rejected", 0, 0, at)
              ELSE [kind |-> "Validated", id |-> ids[k]]
      BY DEF Answers
    <3>2. ids[k] \in ToSet(ids)
      BY DEF ToSet
    <3> HIDE DEF m
    <3>3. /\ m.id = ids[k] /\ m.kind # "Request"
          /\ m.kind = "Report" => m.status = "Rejected" /\ m.trade = 0
      BY <3>1 DEF Report
    <3> QED BY <3>2, <3>3 DEF m
  <2>2. DOMAIN Answers(ids, risk, at) = DOMAIN ids
    BY DEF Answers
  <2> QED BY <2>1, <2>2 DEF ToSet
<1> HIDE DEF c
<1>6. ToSet(s.channel) = {}
  BY DEF ToSet
<1>7. \A i \in OrderIds : Requested(t, rest, i) <=> i \in ToSet(rest)
  BY <1>5 DEF Requested, c
<1>8. \A i \in OrderIds : Requested(s, pending, i) <=> i \in ToSet(pending)
  BY <1>6 DEF Requested
<1>9. \A i \in OrderIds : Asked(t, rest, i) => Asked(s, pending, i)
  BY <1>5 DEF Asked, c
<1>10. \A i \in OrderIds : ~Fills(t, {}, i)
  BY <1>5 DEF Fills, c
<1>11. \A i \in OrderIds : Hope(t, rest, {}, i) => Hope(s, pending, {}, i)
  BY <1>9, <1>10 DEF Hope
<1>12. \A i \in OrderIds : HasTraded(t, i) => HasTraded(s, i)
  BY DEF HasTraded, Shown
<1>13. \A i \in OrderIds : Eases(s, pending, {}, t, rest, {}, i)
  BY <1>11, <1>12 DEF Eases
<1>14. Linked(t)
  <2>1. Linked(s) /\ GroupsExact(t.om.oco)
    BY DEF Tidy, Linked
  <2>2. \A i \in OrderIds : s.ord[i] \notin Order /\ Blank(s, i) => Blank(t, i)
    BY DEF Blank
  <2>3. \A i \in Active(t.book) : t.om.status[i] \notin Finished
    BY <2>1 DEF Linked
  <2> QED BY <1>1, <1>3, <2>1, <2>2, <2>3, LinkedKept
<1>15. Ends(t, {})
  BY <1>5, StatusFacts DEF Ends, c
<1>16. ASSUME NEW i \in OrderIds, NEW j \in OrderIds, Twins(s.ord, i, j),
              Apart(s, pending, {}, i, j)
       PROVE  Apart(t, rest, {}, i, j)
  <2>1. ReduceFirst(s.ord[i]) <=> ReduceFirst(s.ord[j])
    BY <1>16 DEF Tidy, TwinsMatch
  <2>2. Requested(t, rest, i) => Requested(t, rest, j)
    BY <1>7, <1>8, <1>16, <2>1 DEF Apart
  <2>3. Split(t, rest, {}, i, j)
    BY <1>13, <1>16, SplitEased DEF Apart
  <2> QED BY <1>10, <2>2, <2>3 DEF Apart
<1> QED BY <1>4, <1>14, <1>15, <1>16, TidyStep

\* When requests of both kinds are pending, those that wait are not of the kind
\* that is answered.
LEMMA BatchKinds ==
    ASSUME drain.pending \in Seq(OrderIds),
           NEW batch, batch = IF Mixed THEN Reduces ELSE drain.pending
    PROVE  \A i \in ToSet(batch), j \in ToSet(Waiting) : ~(ReduceFirst(ord[i]) <=> ReduceFirst(ord[j]))
<1> DEFINE pending == drain.pending
<1>1. CASE Mixed
  <2> DEFINE X == Reducing
             Y == ToSet(drain.pending) \ Reducing
  <2>1. batch = Only(pending, X) /\ Waiting = Only(pending, Y)
    BY <1>1 DEF Waiting, Reduces, Increases
  <2>2. \A i \in X, j \in Y : ReduceFirst(ord[i]) /\ ~ReduceFirst(ord[j])
    BY DEF Reducing
  <2> HIDE DEF X
  <2>3. ToSet(Only(pending, X)) = ToSet(pending) \cap X
    <3> HIDE DEF pending
    <3> QED BY OnlyProperties DEF pending
  <2> HIDE DEF Y
  <2>4. ToSet(Only(pending, Y)) = ToSet(pending) \cap Y
    <3> HIDE DEF pending
    <3> QED BY OnlyProperties DEF pending
  <2> QED BY <2>1, <2>2, <2>3, <2>4
<1>2. CASE ~Mixed
  <2>1. ToSet(Waiting) = {}
    BY <1>2 DEF Waiting, ToSet
  <2> QED BY <2>1
<1> QED BY <1>1, <1>2
-----------------------------------------------------------------------------
(***************************************************************************)
(* The end of a slice and of a day.                                        *)
(***************************************************************************)

\* No report of a fill is in the channel.
LEMMA SiftedFills ==
    ASSUME NEW s, Sifted(s)
    PROVE  \A i : ~Fills(s, {}, i)
<1>1. "Request" # "Report" /\ "Rejected" # "Filled"
  OBVIOUS
<1> QED BY <1>1 DEF Sifted, Fills

\* The reports of the last match are applied and their trades booked at once.
LEMMA LastMatchTidy ==
    ASSUME NoParts, NEW s, Good(s, <<>>, {}), Tidy(s, <<>>, {}), s.channel = <<>>,
           s.ledger.unbooked = None, s.book = book, s.ord = ord, feed.last \in Nat,
           BarsSound(feed.bars, feed.last), SliceOpen, NEW v \in FinalVerdicts,
           NEW t, t = LastMatch(s, v)
    PROVE  Tidy(t, <<>>, {})
<1>0. /\ s \in StateType /\ s.ledger \in LedgerType /\ BookSound(s.book, s.ord)
      /\ ToSet(s.channel) = {} /\ ToSet(<<>>) = {} /\ Sifted(s)
  BY DEF Good, StateType, ToSet, Sifted
<1>1. CASE feed.bars = {}
  <2>1. t = s
    BY <1>1 DEF LastMatch
  <2> QED BY <2>1
<1>2. CASE feed.bars # {}
  <2> DEFINE done == FinalizeTimestamp(s.book, s.ord, feed.bars, feed.last, feed.priced, v)
             u == [s EXCEPT !.book = done.book]
             R == done.reports
             n == Len(R)
             applied == FoldLeft(ApplyReport, u, R)
  <2>1. t = [applied EXCEPT !.ledger = Flush(@)]
    BY <1>2 DEF LastMatch
  <2>2. CallSound(s.book, s.ord, {feed.last}, done)
    <3>1. v \in VerdictsOf(s.book, s.ord, feed.bars, feed.priced,
                           ToFinalize(PrepareSlice(s.book, feed.last), s.ord, feed.last))
      BY DEF FinalVerdicts
    <3> HIDE DEF done
    <3>2. done = FinalizeTimestamp(s.book, s.ord, feed.bars, feed.last, feed.priced, v)
      BY DEF done
    <3> QED BY <1>0, <1>2, <3>1, <3>2, FinalizeTimestampSound
  <2> HIDE DEF done
  <2>3. /\ u \in StateType /\ u.om = s.om /\ u.ord = s.ord /\ u.channel = s.channel
        /\ u.book = done.book /\ u.ledger = s.ledger /\ u.suppressed = s.suppressed
    BY <1>0, <2>2 DEF CallSound, BookSound, StateType
  <2> HIDE DEF u
  <2>4. Good(u, <<>>, ToSet(R))
    <3>1. \A m \in ToSet(s.channel) : m.id \notin Active(s.book)
      BY <1>0
    <3>2. Good(u, <<>>, ToSet(done.reports))
      BY <2>2, <2>3, <3>1, CallKeeps
    <3> QED BY <3>2
  <2>41. Tidy(u, <<>>, ToSet(R))
    <3>2. Tidy(u, <<>>, ToSet(done.reports))
      BY <1>0, <2>2, <2>3, CallTidy
    <3> QED BY <3>2
  <2>5. /\ R \in Seq(ReportType) /\ \A k, l \in DOMAIN R : R[k].id = R[l].id => k = l
    BY <2>2 DEF CallSound, Outcome
  <2> HIDE DEF R
  <2> DEFINE Rest(k) == {R[l] : l \in k + 1 .. n}
             Half(k, a) == Good(a, <<>>, Rest(k)) /\ Tidy(a, <<>>, Rest(k))
             P == {p \in (0 .. n) \X StateType : Half(p[1], p[2])}
  <2>6. n \in Nat /\ DOMAIN R = 1 .. n
    BY <2>5
  <2> HIDE DEF n
  <2>7. <<0, u>> \in P
    <3>1. Rest(0) = ToSet(R)
      BY <2>6 DEF ToSet
    <3>3. Half(0, u)
      BY <2>4, <2>41, <3>1
    <3> HIDE DEF Half
    <3> QED BY <2>3, <2>6, <3>3
  <2>8. ASSUME NEW k \in 1 .. n, NEW a, <<k - 1, a>> \in P
        PROVE  <<k, ApplyReport(a, R[k])>> \in P
    <3> DEFINE b == ApplyReport(a, R[k])
    <3>1. Half(k - 1, a) /\ k - 1 \in 0 .. n
      <4> HIDE DEF Half
      <4>1. \A p \in P : Half(p[1], p[2]) /\ p[1] \in 0 .. n
        OBVIOUS
      <4>2. <<k - 1, a>>[1] = k - 1 /\ <<k - 1, a>>[2] = a
        OBVIOUS
      <4> HIDE DEF P
      <4> QED BY <4>1, <4>2, <2>8
    <3>2. R[k] \in Rest(k - 1) /\ Rest(k - 1) \ {R[k]} = Rest(k)
      <4>1. (k - 1) + 1 = k /\ k \in Nat
        BY <2>6
      <4>2. Rest(k - 1) = Rest(k) \cup {R[k]}
        <5>1. k .. n = (k + 1 .. n) \cup {k}
          BY <2>6, <4>1
        <5> QED BY <4>1, <5>1
      <4>3. R[k] \notin Rest(k)
        BY <2>5, <2>6, <4>1
      <4> HIDE DEF Rest
      <4> QED BY <4>2, <4>3
    <3> HIDE DEF Rest, b
    <3>3. Good(a, <<>>, Rest(k - 1)) /\ Tidy(a, <<>>, Rest(k - 1)) /\ b = ApplyReport(a, R[k])
      BY <3>1 DEF b
    <3>4. Good(b, <<>>, Rest(k - 1) \ {R[k]})
      BY <3>2, <3>3, ReportKeeps
    <3>5. Tidy(b, <<>>, Rest(k - 1) \ {R[k]})
      BY <3>2, <3>3, ReportTidy
    <3>7. Half(k, b) /\ b \in StateType
      BY <3>2, <3>4, <3>5 DEF Good
    <3> HIDE DEF Half
    <3> QED BY <2>6, <3>7 DEF b
  <2>9. <<n, applied>> \in P
    <3> HIDE DEF P
    <3> QED BY <2>5, <2>7, <2>8, ReportsInduction DEF n
  <2>10. Half(n, applied)
    <3> HIDE DEF Half
    <3>1. \A p \in P : Half(p[1], p[2])
      OBVIOUS
    <3>2. <<n, applied>>[1] = n /\ <<n, applied>>[2] = applied
      OBVIOUS
    <3> HIDE DEF P
    <3> QED BY <2>9, <3>1, <3>2
  <2>11. Rest(n) = {}
    BY <2>6
  <2> HIDE DEF applied, Rest
  <2>12. Good(applied, <<>>, {}) /\ Tidy(applied, <<>>, {})
    BY <2>10, <2>11
  <2>13. applied \in StateType /\ applied.ledger \in LedgerType /\ applied.om.oco \in OcoType
    BY <2>12 DEF Good, StateType, RegistryType
  <2>14. t.om = applied.om /\ t.ord = applied.ord /\ t.channel = applied.channel
         /\ t.book = applied.book /\ t.ledger = Flush(applied.ledger)
         /\ t.suppressed = applied.suppressed
    BY <2>1, <2>13 DEF StateType
  <2>15. \A i \in OrderIds : applied.ledger.booked[i] = 0 /\ applied.ledger.unbooked[i] = 0
            => t.ledger.booked[i] = 0 /\ t.ledger.unbooked[i] = 0
    BY <2>13, <2>14, FlushTrades
  <2>16. Ends(t, {}) /\ \A i \in OrderIds : /\ Asked(t, <<>>, i) <=> Asked(applied, <<>>, i)
                                            /\ Requested(t, <<>>, i) <=> Requested(applied, <<>>, i)
                                            /\ Fills(t, {}, i) <=> Fills(applied, {}, i)
    BY <2>12, <2>14 DEF Tidy, Ends, Asked, Requested, Fills
  <2> QED BY <2>12, <2>13, <2>14, <2>15, <2>16, TidyMoved
<1> QED BY <1>1, <1>2

\* The rejections for missing symbols.
LEMMA RejectMissingTidy ==
    ASSUME NEW s, Good(s, <<>>, {}), Tidy(s, <<>>, {}), feed.last \in Nat,
           \A m \in ToSet(s.channel) : m.kind = "Request", NEW t, t = RejectMissing(s)
    PROVE  Tidy(t, <<>>, {}) /\ Sifted(t)
<1> DEFINE q == MissingReports(s)
           b == OnCancel(s.book, MissingSymbol(s))
           c == s.channel \o q
<1>1. t = [s EXCEPT !.book = b, !.channel = c]
  BY DEF RejectMissing
<1>2. /\ s \in StateType /\ s.channel \in Seq(MessageType) /\ s.book \in BookType
      /\ s.om.oco \in OcoType
  BY DEF Good, StateType, RegistryType
<1>3. q \in Seq(ReportType) /\ \A m \in ToSet(q) : m.kind = "Report" /\ m.trade = 0 /\ m.status = "Rejected"
  <2>1. /\ q \in Seq(ReportType)
        /\ \A r \in ToSet(q) : r = Report(r.id, "Rejected", s.om.filled[r.id], 0, feed.last)
    BY <1>2, MissingReportsProperties
  <2>2. \A i, f : Report(i, "Rejected", f, 0, feed.last).kind = "Report"
                  /\ Report(i, "Rejected", f, 0, feed.last).trade = 0
                  /\ Report(i, "Rejected", f, 0, feed.last).status = "Rejected"
    BY DEF Report
  <2> HIDE DEF q
  <2> QED BY <2>1, <2>2
<1>4. Active(b) = Active(s.book) \ MissingSymbol(s)
  BY <1>2, OnCancelProperties
<1> HIDE DEF q, b
<1>5. q \in Seq(MessageType)
  BY <1>3 DEF MessageType
<1>6. ToSet(c) = ToSet(s.channel) \cup ToSet(q)
  BY <1>2, <1>5, ToSetConcat
<1> HIDE DEF c
<1>7. t.om = s.om /\ t.ord = s.ord /\ t.book = b /\ t.channel = c
      /\ t.ledger = s.ledger /\ t.suppressed = s.suppressed
  BY <1>1, <1>2 DEF StateType
<1>8. "Request" # "Report" /\ "Rejected" # "Filled" /\ "Rejected" \in Finished
  BY DEF Finished
<1>9. Sifted(t)
  BY <1>3, <1>6, <1>7 DEF Sifted
<1>10. \A i \in OrderIds : ~Fills(t, {}, i)
  BY <1>9, SiftedFills
<1>11. \A i \in OrderIds : /\ Asked(t, <<>>, i) => Asked(s, <<>>, i)
                           /\ Requested(t, <<>>, i) <=> Requested(s, <<>>, i)
                           /\ HasTraded(t, i) <=> HasTraded(s, i)
  <2> SUFFICES ASSUME NEW i \in OrderIds
               PROVE  /\ Asked(t, <<>>, i) => Asked(s, <<>>, i)
                      /\ Requested(t, <<>>, i) <=> Requested(s, <<>>, i)
                      /\ HasTraded(t, i) <=> HasTraded(s, i)
    OBVIOUS
  <2>1. Asked(t, <<>>, i) => Asked(s, <<>>, i)
    BY <1>3, <1>6, <1>7 DEF Asked
  <2>2. Requested(t, <<>>, i) <=> Requested(s, <<>>, i)
    BY <1>3, <1>6, <1>7, <1>8 DEF Requested
  <2>3. HasTraded(t, i) <=> HasTraded(s, i)
    BY <1>7 DEF HasTraded, Shown
  <2> QED BY <2>1, <2>2, <2>3
<1>12. \A i \in OrderIds : Eases(s, <<>>, {}, t, <<>>, {}, i)
  BY <1>4, <1>7, <1>10, <1>11 DEF Eases, Hope
<1>13. Linked(t)
  <2>1. Linked(s) /\ GroupsExact(t.om.oco)
    BY <1>7 DEF Tidy, Linked
  <2>2. \A i \in OrderIds : s.ord[i] \notin Order /\ Blank(s, i) => Blank(t, i)
    BY <1>7 DEF Blank
  <2>3. \A i \in Active(t.book) : t.om.status[i] \notin Finished
    BY <1>4, <1>7, <2>1 DEF Linked
  <2> QED BY <1>2, <1>7, <2>1, <2>2, <2>3, LinkedKept
<1>14. Ends(t, {})
  BY <1>3, <1>6, <1>7, <1>8 DEF Tidy, Ends
<1>15. SameTwins(s, t) /\ \A i, j : Bound(s.om.oco, i, j) => Bound(t.om.oco, i, j)
  BY <1>7 DEF SameTwins
<1>16. Tidy(t, <<>>, {})
  BY <1>10, <1>11, <1>12, <1>13, <1>14, <1>15, TidyEased
<1> QED BY <1>9, <1>16

\* The settlement: what an expired order shows is not a fill.
LEMMA SettleTidy ==
    ASSUME NEW s, Good(s, <<>>, {}), Tidy(s, <<>>, {}), NEW t, t = SettleDay(s)
    PROVE  Tidy(t, <<>>, {})
<1> DEFINE X == ExpiredDayOrders(s)
           b == OnCancel(s.book, X)
           o == ExpireAtSettlement(s.om, X)
<1>1. /\ s \in StateType /\ s.book \in BookType /\ s.om \in RegistryType /\ s.om.oco \in OcoType
      /\ s.om.history \in [OrderIds -> Seq(Row)]
  BY DEF Good, StateType, RegistryType
<1>2. t = [s EXCEPT !.om = o, !.book = b]
  BY DEF SettleDay
<1>3. Active(b) = Active(s.book) \ X
  BY <1>1, OnCancelProperties
<1>4. /\ o.oco = s.om.oco /\ o.plans = s.om.plans
      /\ \A i \in OrderIds : o.status[i] = IF i \in X THEN Absent ELSE s.om.status[i]
      /\ \A i \in OrderIds : o.history[i] =
            IF i \in X
            THEN Append(s.om.history[i], [status |-> "Expired", filled |-> s.om.filled[i]])
            ELSE s.om.history[i]
  <2> DEFINE z == ExpireAtSettlement(s.om, X)
  <2>1. z = ExpireAtSettlement(s.om, X)
    OBVIOUS
  <2> HIDE DEF z
  <2>2. z.oco = s.om.oco /\ z.plans = s.om.plans
    BY <1>1, <2>1, ExpireProperties
  <2>3. \A i \in OrderIds : z.status[i] = IF i \in X THEN Absent ELSE s.om.status[i]
    BY <1>1, <2>1, ExpireProperties
  <2>4. \A i \in OrderIds : z.history[i] =
            IF i \in X
            THEN Append(s.om.history[i], [status |-> "Expired", filled |-> s.om.filled[i]])
            ELSE s.om.history[i]
    BY <1>1, <2>1, ExpireProperties
  <2> QED BY <2>1, <2>2, <2>3, <2>4
<1>5. \A i \in X : i \in OrderIds /\ s.om.status[i] # Absent
  BY DEF ExpiredDayOrders
<1> HIDE DEF b, o, X
<1>6. t.om = o /\ t.book = b /\ t.ord = s.ord /\ t.channel = s.channel
      /\ t.ledger = s.ledger /\ t.suppressed = s.suppressed
  BY <1>1, <1>2 DEF StateType
<1>7. \A i \in OrderIds : Shown(t, i).status = "Filled" => Shown(s, i).status = "Filled"
  <2> SUFFICES ASSUME NEW i \in OrderIds, Shown(t, i).status = "Filled"
               PROVE  Shown(s, i).status = "Filled"
    OBVIOUS
  <2>1. CASE i \notin X
    <3>1. t.om.history[i] = s.om.history[i] /\ t.om.status[i] = s.om.status[i]
      BY <1>4, <1>6, <2>1
    <3> QED BY <3>1 DEF Shown, Snapshot
  <2>2. CASE i \in X
    <3> DEFINE h == s.om.history[i]
               e == [status |-> "Expired", filled |-> s.om.filled[i]]
    <3>1. t.om.history[i] = Append(h, e) /\ h \in Seq(Row)
      BY <1>1, <1>4, <1>6, <2>2
    <3>2. e.status = "Expired"
      OBVIOUS
    <3>3. Append(h, e) # <<>> /\ (h = <<>> => Head(Append(h, e)) = e)
          /\ (h # <<>> => Head(Append(h, e)) = Head(h))
      <4>1. h \in Seq(Row) /\ h \in Seq(Row \cup {e}) /\ e \in Row \cup {e}
        BY <3>1
      <4> HIDE DEF h, e
      <4> QED BY <4>1
    <3> HIDE DEF e
    <3>4. h # <<>>
      BY <3>1, <3>2, <3>3 DEF Shown, Snapshot
    <3> QED BY <3>1, <3>3, <3>4 DEF Shown, Snapshot
  <2> QED BY <2>1, <2>2
<1>8. \A i \in OrderIds : /\ Asked(t, <<>>, i) <=> Asked(s, <<>>, i)
                          /\ Requested(t, <<>>, i) <=> Requested(s, <<>>, i)
                          /\ Fills(t, {}, i) <=> Fills(s, {}, i)
                          /\ HasTraded(t, i) => HasTraded(s, i)
  BY <1>6, <1>7 DEF Asked, Requested, Fills, HasTraded
<1>9. \A i \in OrderIds : t.om.status[i] \in Live => s.om.status[i] \in Live
  BY <1>4, <1>6, StatusFacts
<1>10. \A i \in OrderIds : Eases(s, <<>>, {}, t, <<>>, {}, i)
  BY <1>3, <1>6, <1>8, <1>9 DEF Eases, Hope
<1>11. Linked(t)
  <2>1. Linked(s) /\ GroupsExact(t.om.oco)
    BY <1>4, <1>6 DEF Tidy, Linked
  <2>2. \A i \in OrderIds : s.ord[i] \notin Order /\ Blank(s, i) => Blank(t, i)
    <3> SUFFICES ASSUME NEW i \in OrderIds, s.ord[i] \notin Order, Blank(s, i) PROVE Blank(t, i)
      OBVIOUS
    <3>1. i \notin X
      BY <1>5 DEF Good
    <3> QED BY <1>4, <1>6, <3>1 DEF Blank
  <2>3. \A i \in Active(t.book) : t.om.status[i] \notin Finished
    <3>1. Absent \notin Finished
      BY StatusFacts
    <3> QED BY <1>3, <1>4, <1>6, <2>1, <3>1 DEF Linked, Active
  <2> QED BY <1>1, <1>4, <1>6, <2>1, <2>2, <2>3, LinkedKept
<1>12. Ends(t, {}) /\ SameTwins(s, t) /\ \A i, j : Bound(s.om.oco, i, j) => Bound(t.om.oco, i, j)
  BY <1>4, <1>6 DEF Tidy, Ends, SameTwins
<1> QED BY <1>8, <1>10, <1>11, <1>12, TidyEased
\* Outside a drain nothing is pending and no peer is suppressed.
LEMMA IdleState ==
    ASSUME IInv, ~Draining, NEW s, s = State(drain.suppressed)
    PROVE  /\ Good(s, <<>>, {}) /\ s = State({}) /\ drain = IdleDrain /\ drain.pending = <<>>
           /\ s.ledger.unbooked = None /\ s.book = book /\ s.ord = ord /\ s.om = om
           /\ s.channel = channel /\ s.ledger = ledger /\ s.suppressed = {}
<1>1. drain.suppressed = {} /\ drain.pending = <<>> /\ ledger.unbooked = None /\ drain = IdleDrain
  BY IdleFacts
<1>2. Good(s, drain.pending, {})
  BY FundFacts
<1>3. /\ s.book = book /\ s.ord = ord /\ s.om = om
      /\ s.channel = channel /\ s.ledger = ledger /\ s.suppressed = drain.suppressed
  BY FundFacts
<1> QED BY <1>1, <1>2, <1>3

\* The slice is finalized.
LEMMA FinalizeTidy ==
    ASSUME NoParts, IInv, pc = "Data", NEW s, s = State(drain.suppressed), Tidy(s, <<>>, {}),
           NEW v \in FinalVerdicts, NEW t, t = Finalize(v)
    PROVE  Tidy(t, <<>>, {}) /\ Sifted(t)
<1>1. /\ Good(s, <<>>, {}) /\ s.channel = <<>> /\ s.ledger.unbooked = None
      /\ s.book = book /\ s.ord = ord /\ s = State({})
  <2>1. ~Draining /\ channel = <<>>
    BY DEF IInv, StageSound, Draining
  <2> QED BY <2>1, IdleState
<1>2. feed.last \in Nat /\ BarsSound(feed.bars, feed.last)
  BY DEF IInv, FeedSound, FeedType
<1>3. CASE SliceOpen
  <2> DEFINE u == LastMatch(s, v)
  <2>1. t = RejectMissing(u) /\ u = LastMatch(s, v)
    BY <1>1, <1>3 DEF Finalize
  <2> HIDE DEF u
  <2>2. Good(u, <<>>, {}) /\ \A m \in ToSet(u.channel) : m.kind = "Request"
    BY <1>1, <1>2, <1>3, <2>1, LastMatchKeeps
  <2>3. Tidy(u, <<>>, {})
    BY <1>1, <1>2, <1>3, <2>1, LastMatchTidy
  <2>4. Tidy(t, <<>>, {}) /\ Sifted(t)
    BY <1>2, <2>1, <2>2, <2>3, RejectMissingTidy
  <2> QED BY <2>4
<1>4. CASE ~SliceOpen
  <2>1. t = s
    BY <1>1, <1>4 DEF Finalize
  <2>2. Sifted(s)
    BY <1>1 DEF Sifted, ToSet
  <2> QED BY <2>1, <2>2
<1> QED BY <1>3, <1>4

-----------------------------------------------------------------------------
(***************************************************************************)
(* The order manager forgets the finished orders; those that did not trade *)
(* leave their groups, and nothing can make them trade any more.           *)
(***************************************************************************)

LEMMA CleanedTidy ==
    ASSUME NEW s, Good(s, <<>>, {}), Tidy(s, <<>>, {}), Sifted(s),
           NEW t, t.om = Cleanup(s.om), t.book = s.book, t.ord = s.ord, t.channel = s.channel,
           t.suppressed = s.suppressed,
           \A i \in OrderIds : s.ledger.booked[i] = 0 /\ s.ledger.unbooked[i] = 0
              => t.ledger.booked[i] = 0 /\ t.ledger.unbooked[i] = 0
    PROVE  Tidy(t, <<>>, {})
<1> DEFINE lost == {i \in OrderIds : s.om.status[i] \in Finished \ {"Filled"}}
           o == Cleanup(s.om)
<1>1. /\ s \in StateType /\ s.om \in RegistryType /\ s.om.oco \in OcoType
      /\ s.om.history \in [OrderIds -> Seq(Row)]
  BY DEF Good, StateType, RegistryType
<1>2. /\ \A i \in OrderIds : o.plans[i] \subseteq s.om.plans[i]
      /\ \A i \in OrderIds :
            o.status[i] = IF s.om.status[i] \in Finished THEN Absent ELSE s.om.status[i]
      /\ \A i \in OrderIds : o.history[i] =
            IF s.om.status[i] \in Finished
            THEN Append(s.om.history[i], [status |-> s.om.status[i], filled |-> s.om.filled[i]])
            ELSE s.om.history[i]
  <2> DEFINE z == Cleanup(s.om)
  <2>1. z = Cleanup(s.om)
    OBVIOUS
  <2> HIDE DEF z
  <2>2. \A i \in OrderIds : z.plans[i] \subseteq s.om.plans[i]
    BY <1>1, <2>1, CleanupProperties
  <2>3. \A i \in OrderIds :
            z.status[i] = IF s.om.status[i] \in Finished THEN Absent ELSE s.om.status[i]
    BY <1>1, <2>1, CleanupProperties
  <2>4. \A i \in OrderIds : z.history[i] =
            IF s.om.status[i] \in Finished
            THEN Append(s.om.history[i], [status |-> s.om.status[i], filled |-> s.om.filled[i]])
            ELSE s.om.history[i]
    BY <1>1, <2>1, CleanupProperties
  <2> QED BY <2>1, <2>2, <2>3, <2>4
<1>3. o.oco = Detach(s.om.oco, lost)
  BY DEF Cleanup, Archive
<1>4. \A i \in lost : i \in OrderIds /\ s.om.status[i] \in Finished
  OBVIOUS
<1> HIDE DEF o, lost
<1>5. t.om = o
  BY DEF o
<1>6. /\ GroupsExact(t.om.oco) /\ \A g \in GroupIds : t.om.oco.members[g] \subseteq s.om.oco.members[g]
      /\ \A i, j : Bound(s.om.oco, i, j) /\ i \notin lost /\ j \notin lost => Bound(t.om.oco, i, j)
  <2>1. GroupsExact(s.om.oco)
    BY DEF Tidy, Linked
  <2> DEFINE d == t.om.oco
  <2>2. d = Detach(s.om.oco, lost)
    BY <1>3, <1>5
  <2> HIDE DEF d
  <2>3. GroupsExact(d) /\ \A g \in GroupIds : d.members[g] \subseteq s.om.oco.members[g]
    BY <1>1, <2>1, <2>2, DetachBinds
  <2>4. \A i, j : Bound(s.om.oco, i, j) /\ i \notin lost /\ j \notin lost => Bound(d, i, j)
    BY <1>1, <2>1, <2>2, DetachBinds
  <2> QED BY <2>3, <2>4 DEF d
<1>7. \A i \in OrderIds : Shown(t, i).status = Shown(s, i).status
  <2> SUFFICES ASSUME NEW i \in OrderIds PROVE Shown(t, i).status = Shown(s, i).status
    OBVIOUS
  <2>1. CASE s.om.status[i] \notin Finished
    <3>1. t.om.history[i] = s.om.history[i] /\ t.om.status[i] = s.om.status[i]
      BY <1>2, <1>5, <2>1
    <3> QED BY <3>1 DEF Shown, Snapshot
  <2>2. CASE s.om.status[i] \in Finished
    <3> DEFINE h == s.om.history[i]
               e == [status |-> s.om.status[i], filled |-> s.om.filled[i]]
    <3>1. t.om.history[i] = Append(h, e) /\ h \in Seq(Row)
      BY <1>1, <1>2, <1>5, <2>2
    <3>2. e.status = s.om.status[i]
      OBVIOUS
    <3>3. Append(h, e) # <<>> /\ (h = <<>> => Head(Append(h, e)) = e)
          /\ (h # <<>> => Head(Append(h, e)) = Head(h))
      <4>1. h \in Seq(Row) /\ h \in Seq(Row \cup {e}) /\ e \in Row \cup {e}
        BY <3>1
      <4> HIDE DEF h, e
      <4> QED BY <4>1
    <3> HIDE DEF e
    <3> QED BY <3>1, <3>2, <3>3 DEF Shown, Snapshot
  <2> QED BY <2>1, <2>2
<1>8. \A i \in OrderIds : /\ Asked(t, <<>>, i) <=> Asked(s, <<>>, i)
                          /\ Requested(t, <<>>, i) <=> Requested(s, <<>>, i)
                          /\ Fills(t, {}, i) <=> Fills(s, {}, i)
                          /\ HasTraded(t, i) => HasTraded(s, i)
  BY <1>7 DEF Asked, Requested, Fills, HasTraded
<1>9. \A i \in OrderIds : t.om.status[i] \in Live => s.om.status[i] \in Live
  BY <1>2, <1>5, StatusFacts
<1>10. \A i \in OrderIds : Eases(s, <<>>, {}, t, <<>>, {}, i)
  BY <1>8, <1>9 DEF Eases, Hope
<1>11. \A i \in lost : ~Hope(t, <<>>, {}, i)
  <2> SUFFICES ASSUME NEW i \in lost PROVE ~Hope(t, <<>>, {}, i)
    OBVIOUS
  <2>1. i \in OrderIds /\ s.om.status[i] \in Finished /\ s.om.status[i] # Absent
    BY <1>4, StatusFacts
  <2>2. t.om.status[i] \notin Live
    BY <1>2, <1>5, <2>1, StatusFacts
  <2>3. ~Asked(s, <<>>, i)
    BY <2>1, MessageFacts
  <2>4. i \notin Active(t.book)
    BY <2>1 DEF Tidy, Linked
  <2>5. ~Fills(t, {}, i)
    BY <1>8, <2>1, SiftedFills
  <2> QED BY <1>8, <2>1, <2>2, <2>3, <2>4, <2>5 DEF Hope
<1>12. Linked(t)
  <2>1. Linked(s)
    BY DEF Tidy
  <2>2. \A i \in OrderIds : s.ord[i] \notin Order /\ Blank(s, i) => Blank(t, i)
    <3> SUFFICES ASSUME NEW i \in OrderIds, s.ord[i] \notin Order, Blank(s, i) PROVE Blank(t, i)
      OBVIOUS
    <3>1. s.om.status[i] = Absent
      BY DEF Good
    <3>2. t.om.history[i] = s.om.history[i] /\ t.om.plans[i] \subseteq s.om.plans[i]
      BY <1>2, <1>5, <3>1, StatusFacts
    <3> QED BY <3>2 DEF Blank
  <2>3. \A i \in Active(t.book) : t.om.status[i] \notin Finished
    BY <1>2, <1>5, StatusFacts DEF Active
  <2>4. \A i \in OrderIds : t.om.plans[i] \subseteq s.om.plans[i]
    BY <1>2, <1>5
  <2>5. \A i \in OrderIds : s.ord[i] \in Order <=> t.ord[i] \in Order
    OBVIOUS
  <2> QED BY <1>1, <1>6, <2>1, <2>2, <2>3, <2>4, <2>5, LinkedKept
<1>13. Ends(t, {}) /\ SameTwins(s, t)
  BY DEF Tidy, Ends, SameTwins
<1>14. \A i, j \in OrderIds : Bound(s.om.oco, i, j) /\ Twins(s.ord, i, j)
          => Bound(t.om.oco, i, j) \/ ~Hope(t, <<>>, {}, i) \/ ~Hope(t, <<>>, {}, j)
  BY <1>6, <1>11
<1> QED BY <1>8, <1>10, <1>12, <1>13, <1>14, TidyEased

-----------------------------------------------------------------------------
(***************************************************************************)
(* A callback of the strategy.                                             *)
(***************************************************************************)

\* The orders it draws and the links it hands over.
LEMMA NewOrders ==
    ASSUME IInv, NEW m \in Moves, Room(m), NEW n, n = Cardinality(Used(ord)), Now \in Nat,
           NEW new, new = WithNew(m, n)
    PROVE  \A i \in OrderIds :
              IF i \in n + 1 .. n + Len(m.orders)
              THEN /\ ord[i] \notin Order /\ new[i] \in Order
                   /\ new[i].twin = IF m.oco THEN 2 * n + 3 - i ELSE 0
                   /\ ReduceFirst(new[i]) <=> ReduceFirst(m.orders[i - n])
              ELSE new[i] = ord[i]
<1> DEFINE k == Len(m.orders)
           N == n + 1 .. n + k
<1>1. /\ n \in Nat /\ n + Len(m.orders) <= Cardinality(OrderIds) /\ Used(ord) = 1 .. n
      /\ ord \in [OrderIds -> Order \cup {NoOrder}]
  BY RoomLeft
<1>2. m.orders \in Seq(Order) /\ k \in Nat
  BY MovesAssumption
<1>3. \A i \in OrderIds : i \in N => ord[i] \notin Order
  <2>1. \A i \in N : i \notin 1 .. n
    <3> HIDE DEF k
    <3> QED BY <1>1, <1>2
  <2>2. \A i \in OrderIds : ord[i] \in Order => i \in Used(ord)
    BY NoOrderAssumption DEF Used
  <2> QED BY <1>1, <2>1, <2>2
<1>4. \A i \in OrderIds : IF i \in N THEN new[i] \in Order ELSE new[i] = ord[i]
  <2>1. \A i \in OrderIds : IF i \in n + 1 .. n + Len(m.orders) THEN new[i] \in Order
                            ELSE new[i] = ord[i]
    BY <1>1, CallbackOrders
  <2> QED BY <2>1
<1>5. ASSUME NEW i \in OrderIds, i \in N
      PROVE  /\ new[i].twin = IF m.oco THEN 2 * n + 3 - i ELSE 0
             /\ ReduceFirst(new[i]) <=> ReduceFirst(m.orders[i - n])
  <2> DEFINE tw == IF m.oco THEN 2 * n + 3 - i ELSE 0
             o == m.orders[i - n]
  <2>1. new[i] = [o EXCEPT !.created = Now, !.parent = 0, !.twin = tw]
    BY <1>5 DEF WithNew
  <2>2. o \in Order
    <3>1. i - n \in 1 .. k
      <4> HIDE DEF k
      <4>1. i \in Int /\ n + 1 <= i /\ i <= n + k
        BY <1>1, <1>2, <1>5
      <4> QED BY <1>1, <1>2, <4>1
    <3> QED BY <1>2, <3>1
  <2> HIDE DEF o, tw
  <2>3. new[i].twin = tw /\ new[i].effect = o.effect /\ new[i].side = o.side
    BY <2>1, <2>2 DEF Order
  <2> QED BY <2>3 DEF o, tw, ReduceFirst
<1> QED BY <1>3, <1>4, <1>5

LEMMA NextTwo ==
    ASSUME NEW n \in Nat
    PROVE  /\ n + 1 .. n + 2 = {n + 1, n + 2} /\ n + 1 # n + 2
           /\ (n + 1) - n = 1 /\ (n + 2) - n = 2
           /\ 2 * n + 3 - (n + 1) = n + 2 /\ 2 * n + 3 - (n + 2) = n + 1
OBVIOUS

LEMMA NewLinks ==
    ASSUME IInv, NEW m \in Moves, Room(m), NEW n, n = Cardinality(Used(ord)),
           NEW t, t = LinkOrders(m, n)
    PROVE  /\ t \in RegistryType /\ t.status = om.status /\ t.history = om.history
           /\ t.oco = IF m.oco THEN RegisterOco(om.oco, <<"oco", n + 1>>, n + 1, n + 2)
                      ELSE om.oco
           /\ \A i \in OrderIds : t.plans[i] # {} =>
                 om.plans[i] # {} \/ i \in n + 1 .. n + Len(m.orders)
<1>1. n \in Nat /\ n + Len(m.orders) <= Cardinality(OrderIds)
  BY RoomLeft
<1>2. om \in RegistryType
  BY RestFacts
<1>3. Len(m.orders) \in Nat /\ (m.exits # {} => Len(m.orders) = 1)
  BY MovesAssumption
<1>4. t \in RegistryType /\ t.status = om.status /\ t.history = om.history
  BY <1>1, <1>2, LinkOrdersProperties
<1>5. t.oco = IF m.oco THEN RegisterOco(om.oco, <<"oco", n + 1>>, n + 1, n + 2) ELSE om.oco
  BY <1>2 DEF LinkOrders, RegisterPlan, RegistryType
<1>6. ASSUME NEW i \in OrderIds, t.plans[i] # {}, i \notin n + 1 .. n + Len(m.orders)
      PROVE  om.plans[i] # {}
  <2>1. i # n + 1 \/ m.exits = {}
    <3> DEFINE k == Len(m.orders)
    <3>1. m.exits # {} => n + 1 \in n + 1 .. n + k
      <4> HIDE DEF k
      <4>1. n + 1 \in n + 1 .. n + 1
        BY <1>1
      <4> QED BY <1>3, <4>1 DEF k
    <3> QED BY <1>6, <3>1
  <2>2. t.plans[i] = om.plans[i]
    BY <1>2, <2>1, PlansHandedOver
  <2> QED BY <1>6, <2>2
<1> QED BY <1>4, <1>5, <1>6

\* Its new orders: single ones, or a pair under the key of the first of the two.
LEMMA SubmittedTidy ==
    ASSUME PairsAlike, IInv, pc = "Strategy", NEW s, s = State(drain.suppressed),
           Tidy(s, <<>>, {}), NEW m \in Moves, Room(m), NEW n, n = Cardinality(Used(ord)),
           NEW x, x = [om |-> LinkOrders(m, n), book |-> book, ord |-> WithNew(m, n),
                       channel |-> Requests(n, Len(m.orders)), ledger |-> ledger,
                       suppressed |-> {}]
    PROVE  /\ Tidy(x, <<>>, {}) /\ x.om \in RegistryType /\ x.om.status = om.status
           /\ \A d \in ToSet(x.channel) : d.kind = "Request" /\ ord[d.id] \notin Order
<1> DEFINE k == Len(m.orders)
           N == n + 1 .. n + k
           new == WithNew(m, n)
           bound == LinkOrders(m, n)
           p == Requests(n, k)
<1>1. /\ Good(s, <<>>, {}) /\ s.book = book /\ s.ord = ord /\ s.om = om /\ s.channel = <<>>
      /\ s.ledger = ledger /\ s.suppressed = {} /\ Now \in Nat
  <2>1. ~Draining /\ channel = <<>>
    BY DEF IInv, StageSound, Draining
  <2>2. Now \in Nat
    BY DEF IInv, FeedSound, FeedType, EventType, Now
  <2> QED BY <2>1, <2>2, IdleState
<1>2. s \in StateType /\ om \in RegistryType /\ s.om.oco \in OcoType /\ om.oco \in OcoType
  BY <1>1 DEF Good, StateType, RegistryType
<1>3. /\ n \in Nat /\ n + k <= Cardinality(OrderIds) /\ Used(ord) = 1 .. n
      /\ ord \in [OrderIds -> Order \cup {NoOrder}]
  BY RoomLeft
<1>4. /\ m.orders \in Seq(Order) /\ k \in Nat /\ m.oco \in BOOLEAN
      /\ m.oco => k = 2 /\ m.exits = {}
      /\ m.exits # {} => k = 1
  BY MovesAssumption
<1>5. N \subseteq OrderIds
  <2>1. OrderIds = 1 .. Cardinality(OrderIds) /\ Cardinality(OrderIds) \in Nat
    BY OrderIdsAssumption, IdFacts
  <2> DEFINE c == Cardinality(OrderIds)
  <2> HIDE DEF c, k
  <2>2. c \in Nat /\ k \in Nat /\ n \in Nat /\ n + k <= c /\ OrderIds = 1 .. c
    BY <1>3, <1>4, <2>1 DEF c, k
  <2> QED BY <2>2
<1>6. \A i \in OrderIds :
         IF i \in N
         THEN /\ ord[i] \notin Order /\ new[i] \in Order
              /\ new[i].twin = IF m.oco THEN 2 * n + 3 - i ELSE 0
              /\ ReduceFirst(new[i]) <=> ReduceFirst(m.orders[i - n])
         ELSE new[i] = ord[i]
  <2> DEFINE z == WithNew(m, n)
  <2>1. z = WithNew(m, n)
    OBVIOUS
  <2> HIDE DEF z
  <2>2. \A i \in OrderIds :
         IF i \in n + 1 .. n + Len(m.orders)
         THEN /\ ord[i] \notin Order /\ z[i] \in Order
              /\ z[i].twin = IF m.oco THEN 2 * n + 3 - i ELSE 0
              /\ ReduceFirst(z[i]) <=> ReduceFirst(m.orders[i - n])
         ELSE z[i] = ord[i]
    BY <1>1, <2>1, NewOrders
  <2> QED BY <2>2 DEF z
<1>8. /\ bound \in RegistryType /\ bound.status = om.status /\ bound.history = om.history
      /\ bound.oco = IF m.oco THEN RegisterOco(om.oco, <<"oco", n + 1>>, n + 1, n + 2) ELSE om.oco
      /\ \A i \in OrderIds : bound.plans[i] # {} => om.plans[i] # {} \/ i \in N
  <2> DEFINE z == LinkOrders(m, n)
  <2>1. z = LinkOrders(m, n)
    OBVIOUS
  <2> HIDE DEF z, N
  <2>2. z \in RegistryType /\ z.status = om.status /\ z.history = om.history
    BY <2>1, NewLinks
  <2>3. z.oco = IF m.oco THEN RegisterOco(om.oco, <<"oco", n + 1>>, n + 1, n + 2) ELSE om.oco
    BY <2>1, NewLinks
  <2>4. \A i \in OrderIds : z.plans[i] # {} => om.plans[i] # {} \/ i \in n + 1 .. n + Len(m.orders)
    BY <2>1, NewLinks
  <2> QED BY <2>2, <2>3, <2>4 DEF z, N
<1>11. ToSet(p) = {[kind |-> "Request", id |-> i] : i \in N}
  <2> HIDE DEF k
  <2>1. DOMAIN p = 1 .. k /\ \A j \in 1 .. k : p[j] = [kind |-> "Request", id |-> n + j]
    BY DEF Requests
  <2>2. \A j \in 1 .. k : n + j \in N
    BY <1>3, <1>4
  <2>3. \A i \in N : i - n \in 1 .. k /\ n + (i - n) = i
    BY <1>3, <1>4
  <2> HIDE DEF p, N
  <2>4. \A d \in ToSet(p) : d \in {[kind |-> "Request", id |-> i] : i \in N}
    BY <2>1, <2>2 DEF ToSet
  <2>5. \A i \in N : [kind |-> "Request", id |-> i] \in ToSet(p)
    <3> SUFFICES ASSUME NEW i \in N PROVE [kind |-> "Request", id |-> i] \in ToSet(p)
      OBVIOUS
    <3>1. p[i - n] = [kind |-> "Request", id |-> i] /\ i - n \in DOMAIN p
      BY <2>1, <2>3
    <3> QED BY <3>1 DEF ToSet
  <2> QED BY <2>4, <2>5
<1>12. /\ x.om = bound /\ x.book = book /\ x.ord = new /\ x.channel = p
       /\ x.ledger = ledger /\ x.suppressed = {}
  OBVIOUS
<1> HIDE DEF new, bound, p
<1>13. Draws(s, x, N)
  <2>1. ToSet(x.channel) = ToSet(s.channel) \cup {[kind |-> "Request", id |-> i] : i \in N}
    BY <1>1, <1>11, <1>12 DEF ToSet
  <2>2. \A i \in OrderIds : IF i \in N THEN s.ord[i] \notin Order /\ x.ord[i] \in Order
                            ELSE x.ord[i] = s.ord[i]
    BY <1>1, <1>6, <1>12
  <2>3. \A i \in OrderIds : x.om.plans[i] # {} => s.om.plans[i] # {} \/ i \in N
    BY <1>1, <1>8, <1>12
  <2> HIDE DEF N
  <2> QED BY <1>1, <1>5, <1>8, <1>12, <2>1, <2>2, <2>3 DEF Draws
<1>14. DrawsSingles(s, x, N) \/ \E a, b, g : DrawsPair(s, x, N, a, b, g)
  <2>1. CASE ~m.oco
    <3>1. \A i \in N : x.ord[i].twin = 0
      BY <1>5, <1>6, <1>12, <2>1
    <3>2. x.om.oco = s.om.oco
      BY <1>1, <1>8, <1>12, <2>1
    <3> QED BY <3>1, <3>2 DEF DrawsSingles
  <2>2. CASE m.oco
    <3> DEFINE a == n + 1
               b == n + 2
               g == <<"oco", n + 1>>
    <3>1. /\ k = 2 /\ N = {a, b} /\ a # b /\ a - n = 1 /\ b - n = 2
          /\ 2 * n + 3 - a = b /\ 2 * n + 3 - b = a
      <4> HIDE DEF k
      <4>1. k = 2
        BY <1>4, <2>2
      <4>2. n \in Nat
        BY <1>3
      <4>3. /\ n + 1 .. n + 2 = {n + 1, n + 2} /\ n + 1 # n + 2
            /\ (n + 1) - n = 1 /\ (n + 2) - n = 2
            /\ 2 * n + 3 - (n + 1) = n + 2 /\ 2 * n + 3 - (n + 2) = n + 1
        BY ONLY <4>2, NextTwo
      <4> QED BY <4>1, <4>3
    <3>2. a \in OrderIds /\ b \in OrderIds /\ a \in N /\ b \in N
      BY <1>5, <3>1
    <3>3. new[a].twin = b /\ new[b].twin = a
      <4>1. new[a].twin = 2 * n + 3 - a
        BY <1>6, <2>2, <3>2
      <4>2. new[b].twin = 2 * n + 3 - b
        BY <1>6, <2>2, <3>2
      <4> QED BY <3>1, <4>1, <4>2
    <3>4. ReduceFirst(new[a]) <=> ReduceFirst(new[b])
      <4>1. ReduceFirst(new[a]) <=> ReduceFirst(m.orders[1])
        BY <1>6, <3>1, <3>2
      <4>2. ReduceFirst(new[b]) <=> ReduceFirst(m.orders[2])
        BY <1>6, <3>1, <3>2
      <4> QED BY <2>2, <4>1, <4>2 DEF PairsAlike
    <3>5. g \in GroupIds /\ s.om.oco.members[g] = {}
      <4>1. s.ord[a] \notin Order
        BY <1>1, <1>6, <3>2
      <4>2. s.om.oco.members[<<"oco", a>>] = {}
        BY <3>2, <4>1 DEF Tidy, Linked
      <4> QED BY <3>2, <4>2, GroupIdsAssumption
    <3>6. \A i \in OrderIds : g \in {<<"oco", i>>, <<"bracket", i>>} => i = a
      <4>1. "oco" # "bracket"
        OBVIOUS
      <4> QED BY <4>1
    <3>7. \A i \in OrderIds : g # <<"bracket", i>>
      <4>1. "oco" # "bracket"
        OBVIOUS
      <4> QED BY <4>1
    <3>8. x.om.oco = RegisterOco(s.om.oco, g, a, b)
      BY <1>1, <1>8, <1>12, <2>2
    <3>9. new[a] \in Order
      BY <1>6, <3>2
    <3> HIDE DEF a, b, g, N
    <3>10. DrawsPair(s, x, N, a, b, g)
      BY <1>12, <3>1, <3>3, <3>4, <3>5, <3>6, <3>7, <3>8, <3>9 DEF DrawsPair
    <3> QED BY <3>10
  <2> QED BY <2>1, <2>2
<1>15. Fresh(s, <<>>, {})
  BY <1>1, FreshFacts
<1> HIDE DEF N
<1>16. Tidy(x, <<>>, {})
  BY <1>2, <1>13, <1>14, <1>15, TidyDrawn
<1>17. \A d \in ToSet(x.channel) : d.kind = "Request" /\ ord[d.id] \notin Order
  <2>1. \A d \in {[kind |-> "Request", id |-> i] : i \in N} : d.kind = "Request" /\ d.id \in N
    OBVIOUS
  <2> QED BY <1>5, <1>6, <1>11, <1>12, <2>1
<1> QED BY <1>8, <1>12, <1>16, <1>17

\* Cancellations: an order cancelled in both books is lost, or had traded.
LEMMA CancelledTidy ==
    ASSUME NEW s, s.om \in RegistryType, s.book \in BookType, Tidy(s, <<>>, {}),
           NEW S \in SUBSET OrderIds,
           \A m \in ToSet(s.channel) : m.kind = "Request" /\ m.id \notin S,
           NEW q, \A r \in ToSet(q) : r.kind = "Report" /\ r.status = "Cancelled" /\ r.trade = 0,
           NEW t, t.om = CancelEach(s.om, S), t.book = OnCancel(s.book, S), t.ord = s.ord,
           ToSet(t.channel) = ToSet(s.channel) \cup ToSet(q),
           \A i \in OrderIds : s.ledger.booked[i] = 0 /\ s.ledger.unbooked[i] = 0
              => t.ledger.booked[i] = 0 /\ t.ledger.unbooked[i] = 0
    PROVE  Tidy(t, <<>>, {})
<1> DEFINE gone == {i \in S : s.om.status[i] \in Live}
           o == CancelEach(s.om, S)
           b == OnCancel(s.book, S)
<1>1. s.om.oco \in OcoType
  BY DEF RegistryType
<1>2. /\ o.history = s.om.history /\ o.plans = s.om.plans
      /\ \A j \in OrderIds : o.status[j] = IF j \in S /\ s.om.status[j] \in Live
                                           THEN "Cancelled" ELSE s.om.status[j]
  <2> DEFINE z == CancelEach(s.om, S)
  <2>1. z = CancelEach(s.om, S)
    OBVIOUS
  <2> HIDE DEF z
  <2>2. z.history = s.om.history /\ z.plans = s.om.plans
        /\ z.status = [j \in OrderIds |-> IF j \in S /\ s.om.status[j] \in Live
                                          THEN "Cancelled" ELSE s.om.status[j]]
    BY <2>1, CancelEachLoosens
  <2>3. \A j \in OrderIds : z.status[j] = IF j \in S /\ s.om.status[j] \in Live
                                          THEN "Cancelled" ELSE s.om.status[j]
    BY <2>2
  <2> QED BY <2>1, <2>2, <2>3
<1>3. o.oco = Detach(s.om.oco, gone)
  BY DEF CancelEach, RegistryType
<1>4. Active(b) = Active(s.book) \ S
  BY OnCancelProperties
<1>5. \A i \in gone : i \in OrderIds /\ i \in S
  OBVIOUS
<1> HIDE DEF o, b, gone
<1>6. t.om = o /\ t.book = b
  BY DEF o, b
<1>7. /\ GroupsExact(t.om.oco) /\ \A g \in GroupIds : t.om.oco.members[g] \subseteq s.om.oco.members[g]
      /\ \A i, j : Bound(s.om.oco, i, j) /\ i \notin gone /\ j \notin gone => Bound(t.om.oco, i, j)
  <2>1. GroupsExact(s.om.oco)
    BY DEF Tidy, Linked
  <2> DEFINE d == t.om.oco
  <2>2. d = Detach(s.om.oco, gone)
    BY <1>3, <1>6
  <2> HIDE DEF d
  <2>3. GroupsExact(d) /\ \A g \in GroupIds : d.members[g] \subseteq s.om.oco.members[g]
    BY <1>1, <2>1, <2>2, DetachBinds
  <2>4. \A i, j : Bound(s.om.oco, i, j) /\ i \notin gone /\ j \notin gone => Bound(d, i, j)
    BY <1>1, <2>1, <2>2, DetachBinds
  <2> QED BY <2>3, <2>4 DEF d
<1>8. "Cancelled" \notin Live /\ "Cancelled" # "Filled" /\ "Cancelled" \in Finished
      /\ "Request" # "Report"
  BY StatusFacts DEF Live
<1>9. \A i \in OrderIds : Shown(t, i).status = "Filled" => Shown(s, i).status = "Filled"
  BY <1>2, <1>6, <1>8 DEF Shown, Snapshot
<1>10. \A i \in OrderIds : ~Fills(t, {}, i)
  BY <1>8 DEF Fills
<1>11. \A i \in OrderIds : /\ Asked(t, <<>>, i) <=> Asked(s, <<>>, i)
                           /\ Requested(t, <<>>, i) <=> Requested(s, <<>>, i)
                           /\ HasTraded(t, i) => HasTraded(s, i)
  <2>1. \A i \in OrderIds : Asked(t, <<>>, i) <=> Asked(s, <<>>, i)
    BY DEF Asked
  <2>2. \A i \in OrderIds : Requested(t, <<>>, i) <=> Requested(s, <<>>, i)
    BY <1>8 DEF Requested
  <2>3. \A i \in OrderIds : HasTraded(t, i) => HasTraded(s, i)
    BY <1>9 DEF HasTraded
  <2> QED BY <2>1, <2>2, <2>3
<1>12. \A i \in OrderIds : Eases(s, <<>>, {}, t, <<>>, {}, i)
  BY <1>2, <1>4, <1>6, <1>8, <1>10, <1>11 DEF Eases, Hope
<1>13. \A i \in gone : ~Hope(t, <<>>, {}, i)
  <2> SUFFICES ASSUME NEW i \in gone PROVE ~Hope(t, <<>>, {}, i)
    OBVIOUS
  <2>1. i \in OrderIds /\ i \in S /\ s.om.status[i] \in Live
    BY <1>5 DEF gone
  <2>2. t.om.status[i] \notin Live /\ i \notin Active(t.book)
    BY <1>2, <1>4, <1>6, <1>8, <2>1
  <2>3. ~Asked(s, <<>>, i)
    <3>1. ToSet(<<>>) = {}
      BY DEF ToSet
    <3> QED BY <2>1, <3>1 DEF Asked
  <2> QED BY <1>10, <1>11, <2>1, <2>2, <2>3 DEF Hope
<1>14. Linked(t)
  <2>1. Linked(s)
    BY DEF Tidy
  <2>2. \A i \in OrderIds : s.ord[i] \notin Order /\ Blank(s, i) => Blank(t, i)
    BY <1>2, <1>6 DEF Blank
  <2>3. \A i \in Active(t.book) : t.om.status[i] \notin Finished
    <3>1. \A i \in Active(t.book) : i \in OrderIds /\ i \in Active(s.book) /\ i \notin S
      BY <1>4, <1>6 DEF Active
    <3> QED BY <1>2, <1>6, <2>1, <3>1 DEF Linked
  <2>4. \A i \in OrderIds : t.om.plans[i] \subseteq s.om.plans[i]
    BY <1>2, <1>6
  <2>5. \A i \in OrderIds : s.ord[i] \in Order <=> t.ord[i] \in Order
    OBVIOUS
  <2> QED BY <1>1, <1>7, <2>1, <2>2, <2>3, <2>4, <2>5, LinkedKept
<1>15. Ends(t, {}) /\ SameTwins(s, t)
  BY <1>8 DEF Tidy, Ends, SameTwins
<1>16. \A i, j \in OrderIds : Bound(s.om.oco, i, j) /\ Twins(s.ord, i, j)
          => Bound(t.om.oco, i, j) \/ ~Hope(t, <<>>, {}, i) \/ ~Hope(t, <<>>, {}, j)
  BY <1>7, <1>13
<1>17. \A i \in OrderIds : Fills(t, {}, i) => Fills(s, {}, i)
  BY <1>10
<1> QED BY <1>11, <1>12, <1>14, <1>15, <1>16, <1>17, TidyEased
-----------------------------------------------------------------------------
(***************************************************************************)
(* The pairs along a run.                                                  *)
(***************************************************************************)

TidyNow == Tidy(State(drain.suppressed), drain.pending, {})

\* Where the client's book is matched next, and at the end, nothing in the channel
\* fills an order.
StageTidy == pc \in {"PreExec", "Finish", "Done"} => Sifted(State({}))

LEMMA InitTidy == Init => TidyNow /\ StageTidy
<1> SUFFICES ASSUME Init PROVE TidyNow /\ StageTidy
  OBVIOUS
<1> DEFINE s == State(drain.suppressed)
<1>1. /\ s.om = EmptyRegistry /\ s.book = EmptyBook /\ s.ord = [i \in OrderIds |-> NoOrder]
      /\ s.channel = <<>> /\ s.ledger = EmptyLedger /\ s.suppressed = {}
      /\ drain.pending = <<>> /\ pc = "Channel1"
  BY DEF Init, State, IdleDrain, Stages
<1> HIDE DEF s
<1>2. /\ s.om.oco = EmptyOco
      /\ \A i \in OrderIds :
         /\ s.om.history[i] = <<>> /\ s.om.plans[i] = {} /\ i \notin Active(s.book)
         /\ s.ledger.unbooked[i] = 0 /\ s.ledger.booked[i] = 0 /\ s.ord[i] = NoOrder
  BY <1>1, StatusFacts DEF EmptyRegistry, EmptyBook, EmptyLedger, None, Active
<1>3. NoOrder \notin Order
  BY NoOrderAssumption
<1>4. ToSet(s.channel) = {}
  BY <1>1 DEF ToSet
<1>5. \A i, j : ~Twins(s.ord, i, j) \/ i \notin OrderIds
  BY <1>2, <1>3 DEF Twins
<1>6. TwinsMatch(s.ord)
  BY <1>2, <1>3, <1>5 DEF TwinsMatch
<1>7. Linked(s)
  <2>1. \A g \in GroupIds : s.om.oco.members[g] = {}
    BY <1>2 DEF EmptyOco
  <2>2. \A i \in OrderIds : s.om.oco.groupOf[i] = NoGroup
    BY <1>2 DEF EmptyOco
  <2>3. GroupsExact(s.om.oco)
    BY <2>1, <2>2, NoGroupAssumption DEF GroupsExact
  <2>4. \A x \in OrderIds : <<"oco", x>> \in GroupIds /\ <<"bracket", x>> \in GroupIds
    BY GroupIdsAssumption
  <2>5. \A x \in Active(s.book) : x \in OrderIds
    BY DEF Active
  <2> QED BY <1>2, <2>1, <2>3, <2>4, <2>5 DEF Linked, Blank
<1>8. Ends(s, {})
  BY <1>4 DEF Ends
<1>9. Tidy(s, drain.pending, {})
  BY <1>5, <1>6, <1>7, <1>8 DEF Tidy
<1> QED BY <1>1, <1>9 DEF TidyNow, StageTidy, s

LEMMA ReceiveStepTidy ==
    ASSUME IInv, TidyNow, ChannelReceive
    PROVE  TidyNow'
<1> DEFINE s == State(drain.suppressed)
           pending == drain.pending
           m == Head(channel)
           u == Popped(s)
           t == CASE m.kind = "Request"   -> u
                  [] m.kind = "Validated" -> WithOrder(u, m.id)
                  [] m.kind = "Report"    -> ApplyReport(u, m)
           next == IF m.kind = "Request" THEN Append(pending, m.id) ELSE pending
<1>1. /\ Draining /\ channel # <<>> /\ Becomes(t) /\ UNCHANGED <<pc, feed>>
      /\ drain' = [drain EXCEPT !.suppressed = t.suppressed, !.pending = next]
  BY DEF ChannelReceive, Popped, WithOrder
<1>2. /\ Good(s, pending, {}) /\ s.channel = channel /\ drain \in DrainType
      /\ Tidy(s, pending, {}) /\ s.om = om /\ s.ord = ord
  BY DEF IInv, State, TidyNow
<1> HIDE DEF s, pending
<1>3. /\ m.kind = "Request" => t = u
      /\ m.kind = "Validated" => t = WithOrder(u, m.id)
      /\ m.kind = "Report" => t = ApplyReport(u, m)
  <2> HIDE DEF m, u
  <2>1. "Request" # "Validated" /\ "Request" # "Report" /\ "Validated" # "Report"
    OBVIOUS
  <2>2. CASE m.kind = "Request"
    BY <2>2
  <2>3. CASE m.kind = "Validated"
    BY <2>3
  <2>4. CASE m.kind = "Report"
    BY <2>4
  <2> QED BY <2>1, <2>2, <2>3, <2>4
<1> HIDE DEF t
<1>4. t \in StateType /\ Tidy(t, next, {})
  <2>1. m = Head(s.channel) /\ u = Popped(s) /\ s.channel # <<>>
    BY <1>1, <1>2
  <2> HIDE DEF m, u
  <2>2. t \in StateType
    BY <1>2, <1>3, <2>1, ReceiveKeeps
  <2>3. Tidy(t, next, {})
    BY <1>2, <1>3, <2>1, <2>2, ReceiveTidy
  <2> QED BY <2>2, <2>3
<1>5. /\ om' = t.om /\ book' = t.book /\ ord' = t.ord /\ channel' = t.channel
      /\ ledger' = t.ledger
  BY <1>1 DEF Becomes
<1>6. drain'.pending = next /\ drain'.suppressed = t.suppressed
  <2> HIDE DEF next
  <2> QED BY <1>1, <1>2 DEF DrainType
<1>7. State(drain.suppressed)' = t
  <2>1. t = [om |-> t.om, book |-> t.book, ord |-> t.ord, channel |-> t.channel,
             ledger |-> t.ledger, suppressed |-> t.suppressed]
    BY <1>4, StateFields
  <2> QED BY <1>5, <1>6, <2>1 DEF State
<1> QED BY <1>4, <1>6, <1>7 DEF TidyNow

LEMMA IntermediateTidy ==
    ASSUME NoParts, IInv, TidyNow, channel = <<>>, IntermediateMatch, ledger' \in LedgerType,
           \A i \in OrderIds : ledger.booked[i] = 0 /\ ledger.unbooked[i] = 0
              => ledger'.booked[i] = 0 /\ ledger'.unbooked[i] = 0,
           UNCHANGED om
    PROVE  TidyNow'
<1> DEFINE s == State(drain.suppressed)
<1>1. PICK v \in VerdictsOf(book, ord, {feed.event}, feed.priced, OrderIds) :
        LET done == OnEvent(book, ord, feed.event, Now, feed.session, feed.priced, v)
        IN  /\ book' = done.book
            /\ channel' = channel \o done.reports
            /\ drain' = [drain EXCEPT !.intermediate = FALSE, !.settle = TRUE]
            /\ UNCHANGED ord
  BY DEF IntermediateMatch
<1> DEFINE done == OnEvent(book, ord, feed.event, Now, feed.session, feed.priced, v)
           t == [om |-> s.om, book |-> done.book, ord |-> s.ord,
                 channel |-> s.channel \o done.reports, ledger |-> ledger',
                 suppressed |-> s.suppressed]
<1>2. /\ Good(s, drain.pending, {}) /\ Tidy(s, drain.pending, {})
      /\ s.om = om /\ s.book = book /\ s.ord = ord
      /\ s.channel = channel /\ s.suppressed = drain.suppressed /\ s.ledger = ledger
      /\ drain \in DrainType
  <2>1. s = State(drain.suppressed) /\ Tidy(s, drain.pending, {})
    BY DEF TidyNow
  <2> HIDE DEF s
  <2> QED BY <2>1, FundFacts
<1>3. feed.event \in EventType /\ Now \in Nat
  BY DEF IInv, FeedSound, FeedType, EventType, Now
<1>4. Quiet(s) /\ Sifted(s)
  BY <1>2 DEF Quiet, Sifted, ToSet
<1>5. drain'.pending = drain.pending /\ drain'.suppressed = drain.suppressed
  BY <1>1, <1>2 DEF DrainType
<1>6. Tidy(t, drain.pending, {})
  <2>1. /\ v \in VerdictsOf(s.book, s.ord, {feed.event}, feed.priced, OrderIds)
        /\ done = OnEvent(s.book, s.ord, feed.event, Now, feed.session, feed.priced, v)
    BY <1>2
  <2> DEFINE l == ledger'
  <2>2. t = [om |-> s.om, book |-> done.book, ord |-> s.ord,
             channel |-> s.channel \o done.reports, ledger |-> l, suppressed |-> s.suppressed]
    OBVIOUS
  <2>3. /\ l \in LedgerType
        /\ \A i \in OrderIds : s.ledger.booked[i] = 0 /\ s.ledger.unbooked[i] = 0
              => l.booked[i] = 0 /\ l.unbooked[i] = 0
    BY <1>2
  <2> HIDE DEF t, s, done, l
  <2> QED BY <1>2, <1>3, <1>4, <2>1, <2>2, <2>3, MatchTidy
<1>7. State(drain.suppressed)' = t
  <2>1. om' = om /\ ord' = ord /\ book' = done.book /\ channel' = channel \o done.reports
    BY <1>1
  <2>2. t = [om |-> om, book |-> done.book, ord |-> ord, channel |-> channel \o done.reports,
             ledger |-> ledger', suppressed |-> drain.suppressed]
    BY <1>2
  <2> HIDE DEF t, done
  <2> QED BY <1>5, <2>1, <2>2 DEF State
<1> HIDE DEF t, done, s
<1> QED BY <1>5, <1>6, <1>7 DEF TidyNow

LEMMA RequestsTurnTidy ==
    ASSUME IInv, TidyNow, channel = <<>>, RequestsTurn,
           \A i \in OrderIds : ledger.booked[i] = 0 /\ ledger.unbooked[i] = 0
              => ledger'.booked[i] = 0 /\ ledger'.unbooked[i] = 0,
           UNCHANGED om, State(drain.suppressed)' \in StateType
    PROVE  TidyNow'
<1> DEFINE s == State(drain.suppressed)
           pending == drain.pending
           batch == IF Mixed THEN Reduces ELSE drain.pending
           t == State(drain.suppressed)'
<1>1. PICK risk \in [ToSet(batch) -> Nat \cap UNION {RiskVerdicts(ord[i]) : i \in ToSet(batch)}] :
          /\ \A i \in ToSet(batch) : risk[i] \in RiskVerdicts(ord[i])
          /\ ProcessRequests(batch, risk)
          /\ drain' = [drain EXCEPT
                 !.pending = Waiting,
                 !.intermediate = Mixed /\ PhaseOf("PostExec", ToSet(drain.pending)),
                 !.settle = FALSE]
          /\ UNCHANGED book
  BY DEF RequestsTurn
<1>2. /\ Good(s, pending, {}) /\ Tidy(s, pending, {})
      /\ s.om = om /\ s.book = book /\ s.ord = ord
      /\ s.channel = channel /\ s.suppressed = drain.suppressed /\ s.ledger = ledger
      /\ drain \in DrainType
  <2>1. s = State(drain.suppressed) /\ Tidy(s, pending, {})
    BY DEF TidyNow
  <2> HIDE DEF s
  <2> QED BY <2>1, FundFacts
<1>3. pending \in Seq(OrderIds) /\ IsInjective(pending)
  BY <1>2 DEF Good, InOnePlace, IInv
<1> HIDE DEF s
<1>4. /\ batch \in Seq(OrderIds) /\ Waiting \in Seq(OrderIds)
      /\ ToSet(batch) \cup ToSet(Waiting) = ToSet(pending)
      /\ ToSet(batch) \cap ToSet(Waiting) = {}
      /\ \A i \in ToSet(batch), j \in ToSet(Waiting) :
            ~(ReduceFirst(ord[i]) <=> ReduceFirst(ord[j]))
  <2>1. batch = IF Mixed THEN Reduces ELSE drain.pending
    OBVIOUS
  <2> HIDE DEF batch
  <2>2. \A i \in ToSet(batch), j \in ToSet(Waiting) :
            ~(ReduceFirst(ord[i]) <=> ReduceFirst(ord[j]))
    BY <1>3, <2>1, BatchKinds
  <2> QED BY <1>3, <2>1, <2>2, BatchFacts
<1> HIDE DEF batch
<1>5. \A i \in ToSet(batch) : risk[i] \in Nat
  BY <1>1
<1>6. Now \in Nat
  BY DEF IInv, FeedSound, FeedType, EventType, Now
<1>7. channel' = Answers(batch, risk, Now) /\ ord' = Reduced(ord, batch, risk)
  <2>1. /\ channel' = <<>> \o Answers(batch, risk, Now)
        /\ ord' = Reduced(ord, batch, risk)
    BY <1>1 DEF ProcessRequests, Answers, Reduced
  <2>2. Answers(batch, risk, Now) \in Seq({Answers(batch, risk, Now)[k] : k \in DOMAIN batch})
    BY <1>4 DEF Answers
  <2> QED BY <2>1, <2>2
<1>8. drain'.pending = Waiting /\ drain'.suppressed = drain.suppressed
  BY <1>1, <1>2 DEF DrainType
<1>9. t = [om |-> om, book |-> book, ord |-> ord', channel |-> channel', ledger |-> ledger',
           suppressed |-> drain.suppressed]
  BY <1>1, <1>8 DEF State
<1>10. /\ t.om = s.om /\ t.book = s.book /\ t.channel = Answers(batch, risk, Now)
       /\ t.ord = Reduced(s.ord, batch, risk) /\ t.suppressed = s.suppressed
       /\ t.ledger = ledger'
  <2> HIDE DEF t
  <2>1. /\ t.om = om /\ t.book = book /\ t.ord = ord' /\ t.channel = channel'
        /\ t.ledger = ledger' /\ t.suppressed = drain.suppressed
    BY <1>9
  <2> QED BY <1>2, <1>7, <2>1 DEF t
<1>11. Tidy(t, Waiting, {})
  <2> HIDE DEF t, pending
  <2>1. s.channel = <<>>
    BY <1>2
  <2>2. \A i \in OrderIds : s.ledger.booked[i] = 0 /\ s.ledger.unbooked[i] = 0
              => t.ledger.booked[i] = 0 /\ t.ledger.unbooked[i] = 0
    BY <1>2, <1>10
  <2>3. \A i \in ToSet(batch), j \in ToSet(Waiting) :
            ~(ReduceFirst(s.ord[i]) <=> ReduceFirst(s.ord[j]))
    BY <1>2, <1>4
  <2>4. /\ batch \in Seq(OrderIds) /\ ToSet(batch) \cup ToSet(Waiting) = ToSet(pending)
        /\ ToSet(batch) \cap ToSet(Waiting) = {}
    BY <1>4
  <2>5. Good(s, pending, {}) /\ Tidy(s, pending, {})
    BY <1>2
  <2>6. /\ t.om = s.om /\ t.book = s.book /\ t.channel = Answers(batch, risk, Now)
        /\ t.ord = Reduced(s.ord, batch, risk) /\ t.suppressed = s.suppressed
    BY <1>10
  <2>7. TurnOf(s, pending, batch, Waiting, risk, Now, t)
    BY <1>5, <2>1, <2>2, <2>3, <2>4, <2>6 DEF TurnOf
  <2> QED BY <1>6, <2>4, <2>5, <2>7, AnsweredTidy
<1> HIDE DEF t
<1> QED BY <1>8, <1>11 DEF TidyNow, t

LEMMA TurnTidy ==
    ASSUME NoParts, IInv, TidyNow, ChannelTurn
    PROVE  TidyNow'
<1>1. /\ Draining /\ channel = <<>> /\ UNCHANGED <<pc, om, feed>>
      /\ ledger' = IF drain.settle THEN Flush(ledger) ELSE ledger
      /\ IntermediateMatch \/ RequestsTurn
  BY DEF ChannelTurn
<1>2. ledger \in LedgerType
  BY DEF IInv, Good, StateType, State
<1>3. /\ ledger' \in LedgerType
      /\ \A i \in OrderIds : ledger.booked[i] = 0 /\ ledger.unbooked[i] = 0
              => ledger'.booked[i] = 0 /\ ledger'.unbooked[i] = 0
  <2>1. Flush(ledger) \in LedgerType
    BY <1>2, FlushTyped
  <2>2. \A i \in OrderIds : ledger.booked[i] = 0 /\ ledger.unbooked[i] = 0
              => Flush(ledger).booked[i] = 0 /\ Flush(ledger).unbooked[i] = 0
    BY <1>2, FlushTrades
  <2> QED BY <1>1, <1>2, <2>1, <2>2
<1>4. CASE IntermediateMatch
  BY <1>1, <1>3, <1>4, IntermediateTidy
<1>5. CASE RequestsTurn
  <2>1. Good(State(drain.suppressed)', drain'.pending, {})
    BY <1>1, <1>3, <1>5, TurnKeeps
  <2>2. State(drain.suppressed)' \in StateType
    BY <2>1 DEF Good
  <2> QED BY <1>1, <1>3, <1>5, <2>2, RequestsTurnTidy
<1> QED BY <1>1, <1>4, <1>5

-----------------------------------------------------------------------------
(***************************************************************************)
(* The stages.                                                             *)
(***************************************************************************)

LEMMA LeaveTidy ==
    ASSUME IInv, TidyNow, ChannelLeave
    PROVE  TidyNow' /\ StageTidy'
<1>1. /\ Draining /\ channel = <<>> /\ drain.pending = <<>>
      /\ ledger' = Flush(ledger) /\ drain' = IdleDrain /\ pc' = StageAfter(pc)
      /\ UNCHANGED <<om, book, ord, channel, feed>>
  BY DEF ChannelLeave
<1> DEFINE s == State(drain.suppressed)
           t == State(drain.suppressed)'
<1>2. /\ Good(s, <<>>, {}) /\ Tidy(s, <<>>, {}) /\ s \in StateType
      /\ s.om = om /\ s.book = book /\ s.ord = ord /\ s.channel = channel
      /\ s.ledger = ledger /\ s.suppressed = drain.suppressed
  <2>1. s = State(drain.suppressed) /\ Tidy(s, drain.pending, {})
    BY DEF TidyNow
  <2> HIDE DEF s
  <2> QED BY <1>1, <2>1, FundFacts
<1>3. /\ t.om = om' /\ t.book = book' /\ t.ord = ord'
      /\ t.channel = channel' /\ t.ledger = ledger' /\ t.suppressed = drain'.suppressed
  <2>1. IInv' /\ t = State(drain.suppressed)'
    BY LeaveSound
  <2> HIDE DEF t
  <2> QED BY <2>1, NextFacts
<1>4. drain'.pending = <<>> /\ drain'.suppressed = {}
  BY <1>1, IdleDrainTyped
<1> HIDE DEF s, t
<1>5. /\ t.om = s.om /\ t.book = s.book /\ t.ord = s.ord /\ t.channel = s.channel
      /\ ToSet(t.channel) = {} /\ s.om.oco \in OcoType
      /\ ledger \in LedgerType /\ t.ledger = Flush(ledger)
  BY <1>1, <1>2, <1>3 DEF ToSet, StateType, RegistryType
<1>6. \A i \in OrderIds : s.ledger.booked[i] = 0 /\ s.ledger.unbooked[i] = 0
               => t.ledger.booked[i] = 0 /\ t.ledger.unbooked[i] = 0
  BY <1>2, <1>5, FlushTrades
<1>7. Ends(t, {}) /\ \A i \in OrderIds : ~Fills(t, {}, i)
  BY <1>5 DEF Ends, Fills
<1>8. \A i \in OrderIds : /\ Asked(t, <<>>, i) => Asked(s, <<>>, i)
                          /\ Requested(t, <<>>, i) <=> Requested(s, <<>>, i)
  BY <1>5 DEF Asked, Requested
<1>9. Tidy(t, <<>>, {})
  BY <1>2, <1>5, <1>6, <1>7, <1>8, TidyMoved
<1>10. pc' \in {"Data", "Strategy", "PostExec", "Cleanup"}
  BY <1>1, DrainingFacts
<1> QED BY <1>4, <1>9, <1>10 DEF TidyNow, StageTidy, t

LEMMA ExecuteTidy ==
    ASSUME NoParts, IInv, TidyNow, StageTidy, Execute
    PROVE  TidyNow' /\ StageTidy'
<1> DEFINE s == State(drain.suppressed)
           t == State(drain.suppressed)'
<1>1. /\ pc \in {"PreExec", "PostExec"} /\ pc' \in {"Channel2", "Channel4"}
      /\ UNCHANGED <<om, ord, drain, ledger, feed>> /\ ~Draining
  BY StageNames DEF Execute, Draining
<1>2. /\ Good(s, <<>>, {}) /\ Tidy(s, <<>>, {}) /\ s = State({}) /\ drain.pending = <<>>
      /\ s.om = om /\ s.book = book /\ s.ord = ord /\ s.channel = channel
      /\ s.ledger = ledger /\ s.suppressed = drain.suppressed /\ ledger \in LedgerType
  <2>1. s = State(drain.suppressed) /\ Tidy(s, drain.pending, {})
    BY DEF TidyNow
  <2> HIDE DEF s
  <2>2. s.suppressed = drain.suppressed
    BY <2>1, FundFacts
  <2>3. ledger \in LedgerType
    BY <1>1, IdleFacts
  <2> QED BY <1>1, <2>1, <2>2, <2>3, IdleState
<1>3. Quiet(s) /\ Sifted(s)
  <2> HIDE DEF s
  <2>1. CASE pc = "PreExec"
    BY <1>2, <2>1 DEF IInv, StageSound, StageTidy
  <2>2. CASE pc = "PostExec"
    <3>1. channel = <<>>
      BY <2>2 DEF IInv, StageSound
    <3> QED BY <1>2, <3>1 DEF Quiet, Sifted, ToSet
  <2> QED BY <1>1, <2>1, <2>2
<1>4. Tidy(t, <<>>, {})
  <2>1. CASE UNCHANGED <<book, channel>>
    <3>1. t = s
      BY <1>1, <2>1 DEF State
    <3> HIDE DEF s, t
    <3> QED BY <1>2, <3>1
  <2>2. CASE \E v \in VerdictsOf(book, ord, {feed.event}, feed.priced, OrderIds) :
              LET done == OnEvent(book, ord, feed.event, Now, feed.session, feed.priced, v)
              IN  book' = done.book /\ channel' = channel \o done.reports
    <3>1. PICK v \in VerdictsOf(book, ord, {feed.event}, feed.priced, OrderIds) :
              LET done == OnEvent(book, ord, feed.event, Now, feed.session, feed.priced, v)
              IN  book' = done.book /\ channel' = channel \o done.reports
      BY <2>2
    <3> DEFINE done == OnEvent(book, ord, feed.event, Now, feed.session, feed.priced, v)
               u == [om |-> s.om, book |-> done.book, ord |-> s.ord,
                     channel |-> s.channel \o done.reports, ledger |-> ledger,
                     suppressed |-> s.suppressed]
    <3>2. feed.event \in EventType /\ Now \in Nat
      BY DEF IInv, FeedSound, FeedType, EventType, Now
    <3>3. /\ v \in VerdictsOf(s.book, s.ord, {feed.event}, feed.priced, OrderIds)
          /\ done = OnEvent(s.book, s.ord, feed.event, Now, feed.session, feed.priced, v)
      <4> HIDE DEF s
      <4> QED BY <1>2
    <3>4. Tidy(u, <<>>, {})
      <4>1. u = [om |-> s.om, book |-> done.book, ord |-> s.ord,
                 channel |-> s.channel \o done.reports, ledger |-> ledger,
                 suppressed |-> s.suppressed]
        OBVIOUS
      <4> HIDE DEF u, s, done
      <4>2. \A i \in OrderIds : s.ledger.booked[i] = 0 /\ s.ledger.unbooked[i] = 0
               => ledger.booked[i] = 0 /\ ledger.unbooked[i] = 0
        BY <1>2
      <4> QED BY <1>2, <1>3, <3>2, <3>3, <4>1, <4>2, MatchTidy
    <3>5. t = u
      <4>1. om' = om /\ ord' = ord /\ ledger' = ledger /\ drain' = drain
            /\ book' = done.book /\ channel' = channel \o done.reports
        BY <1>1, <3>1
      <4>2. u = [om |-> om, book |-> done.book, ord |-> ord, channel |-> channel \o done.reports,
                 ledger |-> ledger, suppressed |-> drain.suppressed]
        <5> HIDE DEF s
        <5> QED BY <1>2
      <4> HIDE DEF u, done
      <4> QED BY <4>1, <4>2 DEF State
    <3> HIDE DEF u, t
    <3> QED BY <3>4, <3>5
  <2> QED BY <2>1, <2>2 DEF Execute
<1> HIDE DEF t, s
<1> QED BY <1>1, <1>2, <1>4 DEF TidyNow, StageTidy, t

LEMMA CleanupStageTidy ==
    ASSUME IInv, TidyNow, CleanupStage
    PROVE  TidyNow' /\ StageTidy'
<1>1. /\ pc = "Cleanup" /\ pc' = "Channel1" /\ om' = Cleanup(om) /\ ~Draining
      /\ UNCHANGED <<book, ord, channel, drain, ledger, feed>>
  BY StageNames DEF CleanupStage, Draining
<1> DEFINE s == State(drain.suppressed)
           t == State(drain.suppressed)'
<1>2. drain.pending = <<>> /\ channel = <<>>
  BY <1>1, IdleFacts DEF IInv, StageSound
<1>3. /\ Good(s, <<>>, {}) /\ Tidy(s, <<>>, {})
      /\ s.om = om /\ s.book = book /\ s.ord = ord /\ s.channel = channel
      /\ s.ledger = ledger /\ s.suppressed = drain.suppressed
  <2>1. s = State(drain.suppressed) /\ Tidy(s, drain.pending, {})
    BY DEF TidyNow
  <2> HIDE DEF s
  <2> QED BY <1>2, <2>1, FundFacts
<1>4. /\ t.om = om' /\ t.book = book' /\ t.ord = ord'
      /\ t.channel = channel' /\ t.ledger = ledger' /\ t.suppressed = drain'.suppressed
  <2>1. IInv' /\ t = State(drain.suppressed)'
    BY CleanupSound
  <2> HIDE DEF t
  <2> QED BY <2>1, NextFacts
<1> HIDE DEF s, t
<1>5. Sifted(s)
  BY <1>2, <1>3 DEF Sifted, ToSet
<1>6. /\ t.om = Cleanup(s.om) /\ t.ord = s.ord /\ t.channel = s.channel
      /\ t.book = s.book /\ t.ledger = s.ledger /\ t.suppressed = s.suppressed
  BY <1>1, <1>3, <1>4
<1>7. Tidy(t, <<>>, {})
  BY <1>3, <1>5, <1>6, CleanedTidy
<1> QED BY <1>1, <1>2, <1>7 DEF TidyNow, StageTidy, t

LEMMA FinishTidy ==
    ASSUME IInv, TidyNow, StageTidy, Finish
    PROVE  TidyNow' /\ StageTidy'
<1>1. /\ pc = "Finish" /\ pc' = "Done" /\ om' = Cleanup(om) /\ ledger' = Tell(ledger)
      /\ UNCHANGED <<book, ord, channel, drain, feed>> /\ ~Draining
  BY DEF Finish, Draining
<1> DEFINE s == State(drain.suppressed)
           t == State(drain.suppressed)'
<1>2. drain.pending = <<>> /\ drain.suppressed = {} /\ ledger \in LedgerType
  BY <1>1, IdleFacts
<1>3. /\ Good(s, <<>>, {}) /\ Tidy(s, <<>>, {})
      /\ s.om = om /\ s.book = book /\ s.ord = ord /\ s.channel = channel
      /\ s.ledger = ledger /\ s.suppressed = drain.suppressed
  <2>1. s = State(drain.suppressed) /\ Tidy(s, drain.pending, {})
    BY DEF TidyNow
  <2> HIDE DEF s
  <2> QED BY <1>2, <2>1, FundFacts
<1>4. /\ t.om = om' /\ t.book = book' /\ t.ord = ord'
      /\ t.channel = channel' /\ t.ledger = ledger' /\ t.suppressed = drain'.suppressed
  <2>1. IInv' /\ t = State(drain.suppressed)'
    BY FinishSound
  <2> HIDE DEF t
  <2> QED BY <2>1, NextFacts
<1>5. Sifted(s)
  <2>1. s = State({})
    BY <1>2
  <2> HIDE DEF s
  <2> QED BY <1>1, <2>1 DEF StageTidy
<1> HIDE DEF s
<1>6. /\ t.om = Cleanup(s.om) /\ t.ord = s.ord /\ t.channel = s.channel
      /\ t.book = s.book /\ t.suppressed = s.suppressed
      /\ t.ledger.booked = s.ledger.booked /\ t.ledger.unbooked = s.ledger.unbooked
  <2> HIDE DEF t
  <2>1. Tell(ledger).booked = ledger.booked /\ Tell(ledger).unbooked = ledger.unbooked
    BY <1>2, TellProperties
  <2> QED BY <1>1, <1>3, <1>4, <2>1
<1>7. Sifted(t)
  <2> HIDE DEF t
  <2> QED BY <1>5, <1>6 DEF Sifted
<1>8. Tidy(t, <<>>, {})
  <2> HIDE DEF t
  <2> QED BY <1>3, <1>5, <1>6, CleanedTidy
<1>9. drain' = drain
  BY <1>1
<1>10. t = State({})'
  BY <1>2, <1>9
<1> HIDE DEF t
<1> QED BY <1>2, <1>7, <1>8, <1>9, <1>10 DEF TidyNow, StageTidy, t

\* The data stage becomes t.
LEMMA BecomesTidy ==
    ASSUME IInv, IInv', pc = "Data", NEW t, t \in StateType, Tidy(t, <<>>, {}), Sifted(t),
           Becomes(t), drain' = drain
    PROVE  TidyNow' /\ StageTidy'
<1> DEFINE u == State(drain.suppressed)'
<1>1. ~Draining
  BY DEF Draining
<1>2. drain.pending = <<>> /\ drain.suppressed = {}
  BY <1>1, IdleFacts
<1>3. /\ u.om = om' /\ u.book = book' /\ u.ord = ord'
      /\ u.channel = channel' /\ u.ledger = ledger' /\ u.suppressed = drain'.suppressed
  <2>1. u = State(drain.suppressed)'
    OBVIOUS
  <2> HIDE DEF u
  <2> QED BY <2>1, NextFacts
<1>4. u = State({})'
  BY <1>2
<1> HIDE DEF u
<1>5. /\ u.om = t.om /\ u.book = t.book /\ u.ord = t.ord /\ u.channel = t.channel
      /\ u.ledger = t.ledger /\ t.om.oco \in OcoType
  BY <1>2, <1>3 DEF Becomes, StateType, RegistryType
<1>6. Sifted(u) /\ Ends(u, {})
  BY <1>5 DEF Sifted, Ends, Tidy
<1>7. \A i \in OrderIds : /\ Asked(u, <<>>, i) => Asked(t, <<>>, i)
                          /\ Requested(u, <<>>, i) <=> Requested(t, <<>>, i)
                          /\ ~Fills(u, {}, i)
  BY <1>5, <1>6, SiftedFills DEF Asked, Requested
<1>8. Tidy(u, <<>>, {})
  BY <1>5, <1>6, <1>7, TidyMoved
<1> QED BY <1>2, <1>4, <1>6, <1>8 DEF TidyNow, StageTidy, u

\* t is s after the orders S at work were cancelled, and the channel got q for them.
CancelsOf(s, S, q, t) ==
    /\ \A m \in ToSet(s.channel) : m.kind = "Request" /\ m.id \notin S
    /\ \A r \in ToSet(q) : r.kind = "Report" /\ r.status = "Cancelled" /\ r.trade = 0
    /\ t.om = CancelEach(s.om, S) /\ t.book = OnCancel(s.book, S) /\ t.ord = s.ord
    /\ ToSet(t.channel) = ToSet(s.channel) \cup ToSet(q)
    /\ \A i \in OrderIds : s.ledger.booked[i] = 0 /\ s.ledger.unbooked[i] = 0
          => t.ledger.booked[i] = 0 /\ t.ledger.unbooked[i] = 0

LEMMA CancelsTidy ==
    ASSUME NEW s, s.om \in RegistryType, s.book \in BookType, Tidy(s, <<>>, {}),
           NEW S \in SUBSET OrderIds, NEW q, NEW t, CancelsOf(s, S, q, t)
    PROVE  Tidy(t, <<>>, {})
BY CancelledTidy DEF CancelsOf

\* A callback hands its orders over, and cancels some that were at work.
LEMMA StrategyTidy ==
    ASSUME PairsAlike, IInv, TidyNow, Strategy
    PROVE  TidyNow' /\ StageTidy'
<1> DEFINE s == State(drain.suppressed)
           t == State(drain.suppressed)'
<1>1. /\ pc = "Strategy" /\ pc' = "Channel3" /\ channel = <<>> /\ ~Draining
      /\ ledger' = Tell(ledger) /\ drain' = drain
  BY StageNames DEF Strategy, IInv, StageSound, Draining
<1>2. PICK m \in Moves, S \in SUBSET {i \in OrderIds : om.status[i] \in Live} :
         Room(m) /\ Callback(m, S)
  BY DEF Strategy
<1>3. drain.pending = <<>> /\ drain.suppressed = {}
  BY <1>1, IdleFacts
<1>4. s = State(drain.suppressed) /\ Tidy(s, <<>>, {})
  BY <1>3 DEF TidyNow
<1>5. /\ t.om = om' /\ t.book = book' /\ t.ord = ord'
      /\ t.channel = channel' /\ t.ledger = ledger'
  <2>1. IInv' /\ t = State(drain.suppressed)'
    BY StrategySound
  <2> HIDE DEF t
  <2> QED BY <2>1, NextFacts
<1>6. /\ Now \in Nat /\ om \in RegistryType /\ book \in BookType /\ ledger \in LedgerType
      /\ \A i \in OrderIds : om.status[i] # Absent => ord[i] \in Order
  <2>1. Good(s, drain.pending, {}) /\ s \in StateType /\ s.book = book /\ s.om = om /\ s.ord = ord
    <3> HIDE DEF s
    <3> QED BY <1>4, FundFacts
  <2>2. book \in BookType /\ \A i \in OrderIds : om.status[i] # Absent => ord[i] \in Order
    BY <2>1 DEF Good, StateType
  <2>3. Now \in Nat
    BY DEF IInv, FeedSound, FeedType, EventType, Now
  <2> QED BY <2>2, <2>3, RestFacts
<1> HIDE DEF s, t
<1> DEFINE n == Cardinality(Used(ord))
           q == Cancellations(S, Now)
           p == Requests(n, Len(m.orders))
           linked == LinkOrders(m, n)
           new == WithNew(m, n)
           x == [om |-> linked, book |-> book, ord |-> new, channel |-> p, ledger |-> ledger,
                 suppressed |-> {}]
<1>7. /\ Tidy(x, <<>>, {}) /\ x.om \in RegistryType /\ x.om.status = om.status
      /\ \A d \in ToSet(x.channel) : d.kind = "Request" /\ ord[d.id] \notin Order
  <2>1. /\ n = Cardinality(Used(ord))
        /\ x = [om |-> LinkOrders(m, n), book |-> book, ord |-> WithNew(m, n),
                channel |-> Requests(n, Len(m.orders)), ledger |-> ledger, suppressed |-> {}]
    OBVIOUS
  <2> HIDE DEF n, x
  <2> QED BY <1>1, <1>2, <1>4, <2>1, SubmittedTidy
<1>8. S \in SUBSET OrderIds /\ \A i \in S : ord[i] \in Order
  <2>1. Absent \notin Live
    BY StatusFacts
  <2> QED BY <1>6, <2>1
<1>9. /\ ord' = new /\ om' = CancelEach(linked, S) /\ book' = OnCancel(book, S)
      /\ channel' = channel \o [k \in DOMAIN m.orders |-> [kind |-> "Request", id |-> n + k]] \o q
  BY <1>2 DEF Callback, WithNew, Cancellations
<1>10. m.orders \in Seq(Order) /\ n \in Nat
  <2>1. n = Cardinality(Used(ord)) /\ Room(m)
    BY <1>2
  <2> HIDE DEF n
  <2>2. n \in Nat
    BY <2>1, RoomLeft
  <2>3. m.orders \in Seq(Order)
    BY MovesAssumption
  <2> QED BY <2>2, <2>3
<1>11. [k \in DOMAIN m.orders |-> [kind |-> "Request", id |-> n + k]] = p
  <2> HIDE DEF n
  <2>1. DOMAIN m.orders = 1 .. Len(m.orders)
    BY <1>10
  <2> QED BY <2>1 DEF Requests
<1>12. q \in Seq(ReportType) /\ \A r \in ToSet(q) : r.kind = "Report" /\ r.status = "Cancelled" /\ r.trade = 0
  <2>1. q \in Seq(ReportType) /\ \A k \in DOMAIN q : q[k].status = "Cancelled" /\ q[k].trade = 0
    <3>1. q = Cancellations(S, Now)
      OBVIOUS
    <3> HIDE DEF q
    <3> QED BY <1>6, <1>8, <3>1, CancellationsProperties
  <2> HIDE DEF q
  <2>2. \A k \in DOMAIN q : q[k] \in ReportType
    BY <2>1
  <2> QED BY <2>1, <2>2 DEF ToSet, ReportType
<1>13. p \in Seq({p[k] : k \in DOMAIN p})
  <2>1. Len(m.orders) \in Nat
    BY <1>10
  <2> HIDE DEF n
  <2> QED BY <2>1 DEF Requests
<1>14. /\ x.om = linked /\ x.book = book /\ x.ord = new /\ x.channel = p /\ x.ledger = ledger
  OBVIOUS
<1> HIDE DEF x, linked, new, q, p, n
<1>15. ToSet(channel') = ToSet(p) \cup ToSet(q)
  <2> DEFINE T == {p[k] : k \in DOMAIN p} \cup ReportType
  <2> HIDE DEF T
  <2>1. p \in Seq(T) /\ q \in Seq(T)
    BY <1>12, <1>13 DEF T
  <2>2. channel' = <<>> \o p \o q
    BY <1>1, <1>9, <1>11
  <2>3. <<>> \o p = p
    BY <2>1
  <2>4. channel' = p \o q
    BY <2>2, <2>3
  <2> QED BY <2>1, <2>4, ToSetConcat
<1>16. Tidy(t, <<>>, {})
  <2>1. \A d \in ToSet(x.channel) : d.kind = "Request" /\ d.id \notin S
    BY <1>7, <1>8
  <2>2. /\ t.om = CancelEach(x.om, S) /\ t.book = OnCancel(x.book, S) /\ t.ord = x.ord
        /\ ToSet(t.channel) = ToSet(x.channel) \cup ToSet(q)
    BY <1>5, <1>9, <1>14, <1>15
  <2>3. \A i \in OrderIds : x.ledger.booked[i] = 0 /\ x.ledger.unbooked[i] = 0
               => t.ledger.booked[i] = 0 /\ t.ledger.unbooked[i] = 0
    BY <1>1, <1>5, <1>6, <1>14, TellProperties
  <2>4. x.om \in RegistryType /\ x.book \in BookType /\ Tidy(x, <<>>, {})
    BY <1>6, <1>7, <1>14
  <2>5. \A r \in ToSet(q) : r.kind = "Report" /\ r.status = "Cancelled" /\ r.trade = 0
    BY <1>12
  <2>6. S \in SUBSET OrderIds
    BY <1>8
  <2>7. CancelsOf(x, S, q, t)
    BY <2>1, <2>2, <2>3, <2>5 DEF CancelsOf
  <2> QED BY <2>4, <2>6, <2>7, CancelsTidy
<1> QED BY <1>1, <1>3, <1>16 DEF TidyNow, StageTidy, t

-----------------------------------------------------------------------------
(***************************************************************************)
(* The data stage.                                                         *)
(***************************************************************************)

LEMMA RestAtDataTidy ==
    ASSUME IInv, TidyNow, pc = "Data"
    PROVE  /\ Good(State({}), <<>>, {}) /\ Tidy(State({}), <<>>, {}) /\ Sifted(State({}))
           /\ State({}) = State(drain.suppressed)
<1> DEFINE s == State(drain.suppressed)
<1>1. ~Draining /\ channel = <<>> /\ s = State(drain.suppressed) /\ Tidy(s, drain.pending, {})
  BY DEF IInv, StageSound, Draining, TidyNow
<1> HIDE DEF s
<1>2. Good(s, <<>>, {}) /\ s = State({}) /\ drain.pending = <<>> /\ s.channel = channel
  BY <1>1, IdleState
<1>3. Sifted(s)
  BY <1>1, <1>2 DEF Sifted, ToSet
<1> QED BY <1>1, <1>2, <1>3

LEMMA EndOfSliceTidy ==
    ASSUME NoParts, IInv, TidyNow, pc = "Data", NEW v \in FinalVerdicts, NEW t, t = Finalize(v)
    PROVE  Good(t, <<>>, {}) /\ Tidy(t, <<>>, {}) /\ Sifted(t)
<1> DEFINE s == State(drain.suppressed)
<1>1. s = State(drain.suppressed) /\ Tidy(s, <<>>, {})
  BY RestAtDataTidy
<1> HIDE DEF s
<1>2. Tidy(t, <<>>, {}) /\ Sifted(t)
  BY <1>1, FinalizeTidy
<1> QED BY <1>2, FinalizeKeeps

LEMMA DataBarTidy ==
    ASSUME NoParts, IInv, TidyNow, NEW sym \in Symbols, NEW ts \in Times,
           NEW traded \in BOOLEAN, NEW session \in Sessions, DataBar(sym, ts, traded, session)
    PROVE  TidyNow' /\ StageTidy'
<1> DEFINE newSlice == feed.last # 0 /\ ts > feed.last
<1>1. PICK v \in IF ts > feed.last THEN FinalVerdicts ELSE {<<>>} :
         LET s == IF newSlice THEN Finalize(v) ELSE State({})
         IN  Becomes(IF DateOf[ts] = feed.date THEN s ELSE SettleDay(s))
  BY DEF DataBar
<1> DEFINE s == IF newSlice THEN Finalize(v) ELSE State({})
           t == IF DateOf[ts] = feed.date THEN s ELSE SettleDay(s)
<1>2. pc = "Data" /\ drain' = drain
  BY DEF DataBar
<1>3. Good(s, <<>>, {}) /\ Tidy(s, <<>>, {}) /\ Sifted(s)
  <2>1. CASE newSlice
    <3>1. v \in FinalVerdicts /\ s = Finalize(v)
      BY <1>1, <2>1
    <3> HIDE DEF s
    <3> QED BY <1>2, <3>1, EndOfSliceTidy
  <2>2. CASE ~newSlice
    <3>1. s = State({})
      BY <2>2
    <3> HIDE DEF s
    <3> QED BY <1>2, <3>1, RestAtDataTidy
  <2> QED BY <2>1, <2>2
<1>4. Becomes(t)
  BY <1>1
<1> HIDE DEF s
<1>5. Good(t, <<>>, {}) /\ Tidy(t, <<>>, {}) /\ Sifted(t)
  <2>1. CASE DateOf[ts] = feed.date
    BY <1>3, <2>1
  <2>2. CASE DateOf[ts] # feed.date
    <3>1. t = SettleDay(s)
      BY <2>2
    <3> HIDE DEF t
    <3>2. Good(t, <<>>, {}) /\ t.channel = s.channel
      BY <1>3, <3>1, SettleKeeps
    <3>3. Tidy(t, <<>>, {})
      BY <1>3, <3>1, SettleTidy
    <3> QED BY <1>3, <3>2, <3>3 DEF Sifted
  <2> QED BY <2>1, <2>2
<1> HIDE DEF t
<1>6. IInv'
  BY DataBarSound
<1> QED BY <1>2, <1>4, <1>5, <1>6, BecomesTidy DEF Good

LEMMA DataTimerTidy ==
    ASSUME NoParts, IInv, TidyNow, NEW session \in Sessions, DataTimer(session)
    PROVE  TidyNow' /\ StageTidy'
<1> DEFINE ends == TimerEndsSlice(Min(feed.timers))
<1>1. PICK v \in IF ends THEN FinalVerdicts ELSE {<<>>} :
         Becomes(IF ends THEN Finalize(v) ELSE State({}))
  BY DEF DataTimer
<1> DEFINE t == IF ends THEN Finalize(v) ELSE State({})
<1>2. pc = "Data" /\ drain' = drain
  BY DEF DataTimer
<1>3. Becomes(t)
  BY <1>1
<1> HIDE DEF ends
<1>4. Good(t, <<>>, {}) /\ Tidy(t, <<>>, {}) /\ Sifted(t)
  <2>1. CASE ends
    <3>1. v \in FinalVerdicts /\ t = Finalize(v)
      BY <1>1, <2>1
    <3> HIDE DEF t
    <3> QED BY <1>2, <3>1, EndOfSliceTidy
  <2>2. CASE ~ends
    <3>1. t = State({})
      BY <2>2
    <3> HIDE DEF t
    <3> QED BY <1>2, <3>1, RestAtDataTidy
  <2> QED BY <2>1, <2>2
<1> HIDE DEF t
<1>5. IInv'
  BY DataTimerSound
<1> QED BY <1>2, <1>3, <1>4, <1>5, BecomesTidy DEF Good

LEMMA DataEndTidy ==
    ASSUME NoParts, IInv, TidyNow, DataEnd
    PROVE  TidyNow' /\ StageTidy'
<1>1. PICK v \in FinalVerdicts : Becomes(Finalize(v))
  BY DEF DataEnd
<1>2. pc = "Data" /\ drain' = drain
  BY DEF DataEnd
<1> DEFINE t == Finalize(v)
<1>3. t = Finalize(v) /\ Becomes(t)
  BY <1>1
<1> HIDE DEF t
<1>4. Good(t, <<>>, {}) /\ Tidy(t, <<>>, {}) /\ Sifted(t)
  BY <1>2, <1>3, EndOfSliceTidy
<1>5. IInv'
  BY DataEndSound
<1> QED BY <1>2, <1>3, <1>4, <1>5, BecomesTidy DEF Good

LEMMA StutterTidy ==
    ASSUME TidyNow, StageTidy, UNCHANGED vars
    PROVE  TidyNow' /\ StageTidy'
<1>1. /\ pc' = pc /\ om' = om /\ book' = book /\ ord' = ord /\ channel' = channel
      /\ drain' = drain /\ ledger' = ledger
  BY DEF vars
<1>2. State(drain.suppressed)' = State(drain.suppressed) /\ State({})' = State({})
  BY <1>1 DEF State
<1> QED BY <1>1, <1>2 DEF TidyNow, StageTidy

LEMMA StepTidy ==
    ASSUME NoParts, PairsAlike, IInv, TidyNow, StageTidy, [Next]_vars
    PROVE  TidyNow' /\ StageTidy'
<1>1. CASE ChannelReceive
  <2>1. pc' = pc /\ Draining
    BY <1>1 DEF ChannelReceive
  <2> QED BY <1>1, <2>1, ReceiveStepTidy DEF StageTidy, Draining
<1>2. CASE ChannelTurn
  <2>1. pc' = pc /\ Draining
    BY <1>2 DEF ChannelTurn
  <2> QED BY <1>2, <2>1, TurnTidy DEF StageTidy, Draining
<1>3. CASE ChannelLeave
  BY <1>3, LeaveTidy
<1>4. ASSUME NEW sym \in Symbols, NEW ts \in Times, NEW traded \in BOOLEAN,
             NEW session \in Sessions, DataBar(sym, ts, traded, session)
      PROVE  TidyNow' /\ StageTidy'
  BY <1>4, DataBarTidy
<1>5. ASSUME NEW session \in Sessions, DataTimer(session)
      PROVE  TidyNow' /\ StageTidy'
  BY <1>5, DataTimerTidy
<1>6. CASE DataEnd
  BY <1>6, DataEndTidy
<1>7. CASE Execute
  BY <1>7, ExecuteTidy
<1>8. CASE Strategy
  BY <1>8, StrategyTidy
<1>9. CASE CleanupStage
  BY <1>9, CleanupStageTidy
<1>10. CASE Finish
  BY <1>10, FinishTidy
<1>11. CASE UNCHANGED vars
  BY <1>11, StutterTidy
<1>12. CASE Returned
  BY <1>12, StutterTidy DEF Returned
<1> QED BY <1>1, <1>2, <1>3, <1>4, <1>5, <1>6, <1>7, <1>8, <1>9, <1>10, <1>11, <1>12 DEF Next

-----------------------------------------------------------------------------
(***************************************************************************)
(* The theorems.                                                           *)
(***************************************************************************)

\* IInv, and the pairs in order.
PairsInv == IInv /\ TidyNow /\ StageTidy

\* Of two orders bound one-cancels-the-other, throughout a run, neither traded and
\* the group holds the two, or one is lost: shared.rs:129 cancels the peers of a
\* filled order before the next report of the channel is applied.  The client must
\* not match in parts, and a pair must not mix a reducing with an increasing order:
\* channel.rs:237 answers those in two turns, with a match in between.
THEOREM PairsSound == ASSUME NoParts, PairsAlike PROVE Spec => []PairsInv
<1>1. Init => PairsInv
  BY InitSound, InitTidy DEF PairsInv
<1>2. PairsInv /\ [Next]_vars => PairsInv'
  BY StepSound, StepTidy DEF PairsInv
<1> QED BY <1>1, <1>2, PTL DEF Spec

\* What it says of the two orders of a pair.
LEMMA PairNow ==
    ASSUME PairsInv, NEW i \in Used(ord), ord[i].twin # 0, NEW j, j = ord[i].twin,
           NEW s, s = State(drain.suppressed)
    PROVE  /\ i \in OrderIds /\ j \in OrderIds /\ Split(s, drain.pending, {}, i, j)
           /\ s.om = om /\ s.ledger = ledger
<1>1. /\ Good(s, drain.pending, {}) /\ s \in StateType /\ s.ord = ord /\ s.om = om
      /\ s.ledger = ledger
  BY FundFacts DEF PairsInv
<1>2. i \in OrderIds /\ ord[i] \in Order
  BY <1>1 DEF Used, StateType
<1>3. Tidy(s, drain.pending, {})
  BY DEF PairsInv, TidyNow
<1>4. j \in OrderIds
  BY <1>1, <1>2, <1>3 DEF Tidy, TwinsMatch
<1>5. Twins(s.ord, i, j)
  BY <1>1, <1>2 DEF Twins
<1>6. Apart(s, drain.pending, {}, i, j)
  BY <1>2, <1>3, <1>4, <1>5 DEF Tidy
<1> QED BY <1>1, <1>2, <1>4, <1>6 DEF Apart

\* OneOfTwoTrades: two orders bound one-cancels-the-other never both trade.
THEOREM OneOfTwoTradesCorrect ==
    ASSUME NoParts, PairsAlike PROVE Spec => []OneOfTwoTrades
<1>1. PairsInv => OneOfTwoTrades
  <2> SUFFICES ASSUME PairsInv, NEW i \in Used(ord), ord[i].twin # 0
               PROVE  ledger.booked[i] = 0 \/ ledger.booked[ord[i].twin] = 0
    BY DEF OneOfTwoTrades
  <2> DEFINE j == ord[i].twin
             s == State(drain.suppressed)
  <2>1. j = ord[i].twin /\ s = State(drain.suppressed)
    OBVIOUS
  <2> HIDE DEF j, s
  <2>2. Split(s, drain.pending, {}, i, j) /\ s.ledger = ledger
    BY <2>1, PairNow
  <2>3. ledger.booked[i] = 0 \/ ledger.booked[j] = 0
    BY <2>2 DEF Split, Lost, HasTraded
  <2> QED BY <2>1, <2>3
<1> QED BY <1>1, PairsSound, PTL

\* FilledCancelsPeer: when an order of a pair is filled, the other no longer works
\* when the channel is drained.
THEOREM FilledCancelsPeerCorrect ==
    ASSUME NoParts, PairsAlike PROVE Spec => []FilledCancelsPeer
<1>1. PairsInv => FilledCancelsPeer
  <2> SUFFICES ASSUME PairsInv, NEW i \in Used(ord), ord[i].twin # 0, View(i).status = "Filled"
               PROVE  om.status[ord[i].twin] \notin Live
    BY DEF FilledCancelsPeer
  <2> DEFINE j == ord[i].twin
             s == State(drain.suppressed)
  <2>1. j = ord[i].twin /\ s = State(drain.suppressed)
    OBVIOUS
  <2> HIDE DEF j, s
  <2>2. Split(s, drain.pending, {}, i, j) /\ s.om = om
    BY <2>1, PairNow
  <2>3. HasTraded(s, i)
    BY <2>2 DEF HasTraded, Shown, View
  <2>4. Lost(s, drain.pending, {}, j)
    BY <2>2, <2>3 DEF Split, Lost
  <2>5. om.status[j] \notin Live
    BY <2>2, <2>4 DEF Lost, Hope
  <2> QED BY <2>1, <2>5
<1> QED BY <1>1, PairsSound, PTL

-----------------------------------------------------------------------------
(***************************************************************************)
(* The exits of a bracket.  Covered says that an order never trades more   *)
(* than its quantity, that the quantity of an exit was traded by its       *)
(* entry, which has no other exits to come, and that two exits of one      *)
(* entry are a pair.                                                       *)
(***************************************************************************)

\* No bracket has an entry that may be resized: place_bracket asks for a quantity
\* (strategy.py:2560), and only an order without one is resized
\* (strategy_trading_api.py:384).
EntriesFixed == \A m \in Moves : m.exits # {} => ~m.orders[1].resize

\* The accounts balance.
Reckoned == NoNextBarDay /\ (NoDayOrders \/ AlwaysAffordable)

\* The entry e traded what its exit i is to sell, and has all its exits.
Covers(s, e, i) ==
    /\ e \in OrderIds /\ s.ord[e] \in Order
    /\ s.ord[i].qty <= Traded(s, e) /\ s.om.plans[e] = {}

Siblings(o, i, j) ==
    /\ i # j /\ o[i] \in Order /\ o[j] \in Order
    /\ o[i].parent # 0 /\ o[i].parent = o[j].parent

\* Exits are planned for orders that are not resized.
PlansFixed(s) == \A i \in OrderIds : s.om.plans[i] # {} => s.ord[i] \in Order /\ ~s.ord[i].resize

Covered(s) ==
    /\ \A i \in OrderIds : s.ord[i] \in Order =>
          /\ Traded(s, i) <= s.ord[i].qty
          /\ s.ord[i].parent # 0 => Covers(s, s.ord[i].parent, i)
    /\ \A i, j \in OrderIds : Siblings(s.ord, i, j) => s.ord[i].twin = j
    /\ PlansFixed(s)

\* t has the orders of s, none for more, of which none traded less.
Onward(s, t) ==
    \A i \in OrderIds :
        /\ t.ord[i] \in Order <=> s.ord[i] \in Order
        /\ s.ord[i] \in Order =>
              /\ t.ord[i].parent = s.ord[i].parent /\ t.ord[i].twin = s.ord[i].twin
              /\ t.ord[i].resize = s.ord[i].resize
              /\ Traded(t, i) <= t.ord[i].qty /\ t.ord[i].qty <= s.ord[i].qty
        /\ Traded(s, i) <= Traded(t, i)
        /\ t.om.plans[i] \subseteq s.om.plans[i]

LEMMA CoveredOnward ==
    ASSUME NEW s \in StateType, NEW t \in StateType, Covered(s), Onward(s, t)
    PROVE  Covered(t)
<1>1. \A i \in OrderIds : Traded(s, i) \in Nat /\ Traded(t, i) \in Nat
  BY Amounts
<1>2. \A i \in OrderIds : s.ord[i] \in Order => s.ord[i].qty \in Nat /\ t.ord[i].qty \in Nat
  BY DEF Onward, Order
<1>3. ASSUME NEW i \in OrderIds, t.ord[i] \in Order
      PROVE  /\ Traded(t, i) <= t.ord[i].qty
             /\ t.ord[i].parent # 0 => Covers(t, t.ord[i].parent, i)
  <2>1. /\ s.ord[i] \in Order /\ t.ord[i].parent = s.ord[i].parent
        /\ Traded(t, i) <= t.ord[i].qty /\ t.ord[i].qty <= s.ord[i].qty
    BY <1>3 DEF Onward
  <2> DEFINE e == s.ord[i].parent
  <2>2. ASSUME e # 0
        PROVE  Covers(t, e, i)
    <3>1. /\ e \in OrderIds /\ s.ord[e] \in Order
          /\ s.ord[i].qty <= Traded(s, e) /\ s.om.plans[e] = {}
      BY <2>1, <2>2 DEF Covered, Covers
    <3> HIDE DEF e
    <3>2. t.ord[e] \in Order /\ Traded(s, e) <= Traded(t, e) /\ t.om.plans[e] = {}
      BY <3>1 DEF Onward
    <3>3. t.ord[i].qty <= Traded(t, e)
      BY <1>1, <1>2, <2>1, <3>1, <3>2
    <3> QED BY <3>1, <3>2, <3>3 DEF Covers
  <2> QED BY <2>1, <2>2
<1>4. ASSUME NEW i \in OrderIds, NEW j \in OrderIds, Siblings(t.ord, i, j)
      PROVE  t.ord[i].twin = j
  BY <1>4 DEF Onward, Siblings, Covered
<1>5. PlansFixed(t)
  <2> SUFFICES ASSUME NEW i \in OrderIds, t.om.plans[i] # {}
               PROVE  t.ord[i] \in Order /\ ~t.ord[i].resize
    BY DEF PlansFixed
  <2>1. s.om.plans[i] # {}
    BY DEF Onward
  <2>2. s.ord[i] \in Order /\ ~s.ord[i].resize
    BY <2>1 DEF Covered, PlansFixed
  <2> QED BY <2>2 DEF Onward
<1> QED BY <1>3, <1>4, <1>5 DEF Covered

\* Only the place of the trades changed.
LEMMA CoveredRests ==
    ASSUME NEW s \in StateType, NEW t \in StateType, Covered(s), t.ord = s.ord,
           \A i \in OrderIds : Traded(t, i) = Traded(s, i),
           \A i \in OrderIds : t.om.plans[i] \subseteq s.om.plans[i]
    PROVE  Covered(t)
<1>1. \A i \in OrderIds : Traded(s, i) \in Nat
  BY Amounts
<1>2. \A i \in OrderIds : s.ord[i] \in Order => s.ord[i].qty \in Nat
  BY DEF Order
<1>3. Onward(s, t)
  <2> SUFFICES ASSUME NEW i \in OrderIds
               PROVE  /\ s.ord[i] \in Order =>
                            Traded(t, i) <= s.ord[i].qty /\ s.ord[i].qty <= s.ord[i].qty
                      /\ Traded(s, i) <= Traded(t, i)
    BY DEF Onward
  <2>1. s.ord[i] \in Order => Traded(s, i) <= s.ord[i].qty
    BY DEF Covered
  <2> QED BY <1>1, <1>2, <2>1
<1> QED BY <1>3, CoveredOnward

\* New orders N: their entries, if any, had their exits planned until now.
LEMMA CoveredDrawn ==
    ASSUME NEW s \in StateType, NEW t \in StateType, Covered(s), NEW N \in SUBSET OrderIds,
           \A i \in N : s.ord[i] \notin Order,
           \A i \in OrderIds \ N : t.ord[i] = s.ord[i],
           \A i \in OrderIds : Traded(s, i) <= Traded(t, i),
           \A i \in OrderIds : t.ord[i] \in Order => Traded(t, i) <= t.ord[i].qty,
           \A i \in OrderIds \ N : t.om.plans[i] \subseteq s.om.plans[i], PlansFixed(t),
           \A i \in N : t.ord[i].parent # 0 =>
              Covers(t, t.ord[i].parent, i) /\ s.om.plans[t.ord[i].parent] # {},
           \A i, j \in N : Siblings(t.ord, i, j) => t.ord[i].twin = j
    PROVE  Covered(t)
<1>1. \A i \in OrderIds : Traded(s, i) \in Nat /\ Traded(t, i) \in Nat
  BY Amounts
<1>2. ASSUME NEW i \in OrderIds \ N, s.ord[i] \in Order, s.ord[i].parent # 0
      PROVE  Covers(t, s.ord[i].parent, i) /\ s.om.plans[s.ord[i].parent] = {}
  <2> DEFINE e == s.ord[i].parent
  <2>1. /\ e \in OrderIds /\ s.ord[e] \in Order
        /\ s.ord[i].qty <= Traded(s, e) /\ s.om.plans[e] = {}
    BY <1>2 DEF Covered, Covers
  <2>2. s.ord[i].qty \in Nat /\ t.ord[i] = s.ord[i]
    BY <1>2 DEF Order
  <2> HIDE DEF e
  <2>3. e \in OrderIds \ N
    BY <2>1
  <2>4. t.ord[e] \in Order /\ Traded(s, e) <= Traded(t, e) /\ t.om.plans[e] = {}
    BY <2>1, <2>3
  <2>5. t.ord[i].qty <= Traded(t, e)
    BY <1>1, <2>1, <2>2, <2>4
  <2>6. Covers(t, e, i)
    BY <2>1, <2>4, <2>5 DEF Covers
  <2> QED BY <2>1, <2>6 DEF e
<1>3. ASSUME NEW i \in OrderIds, t.ord[i] \in Order, t.ord[i].parent # 0
      PROVE  Covers(t, t.ord[i].parent, i)
  <2>1. CASE i \in N
    BY <1>3, <2>1
  <2>2. CASE i \notin N
    <3>1. t.ord[i] = s.ord[i] /\ i \in OrderIds \ N
      BY <2>2
    <3> QED BY <1>2, <1>3, <3>1
  <2> QED BY <2>1, <2>2
<1>4. ASSUME NEW i \in OrderIds, NEW j \in OrderIds, Siblings(t.ord, i, j)
      PROVE  t.ord[i].twin = j
  <2>1. CASE i \in N /\ j \in N
    BY <1>4, <2>1
  <2>2. CASE i \notin N /\ j \notin N
    <3>1. t.ord[i] = s.ord[i] /\ t.ord[j] = s.ord[j]
      BY <2>2
    <3> QED BY <1>4, <3>1 DEF Covered, Siblings
  <2>3. CASE i \in N /\ j \notin N
    BY <1>2, <1>4, <2>3 DEF Siblings
  <2>4. CASE i \notin N /\ j \in N
    BY <1>2, <1>4, <2>4 DEF Siblings
  <2> QED BY <2>1, <2>2, <2>3, <2>4
<1> QED BY <1>3, <1>4 DEF Covered

\* What the exits of a filled entry are.
LEMMA ExitsCut ==
    ASSUME NEW s \in StateType, NEW i \in OrderIds, s.ord[i] \in Order, NEW at,
           NEW t, t = RequestExits(s, i, at), NEW n, n = Drawn(s),
           NEW k, k = Cardinality(s.om.plans[i]), NEW filled, filled = Snapshot(s.om, i).filled,
           filled > 0, NEW j \in OrderIds, j \in n + 1 .. n + k
    PROVE  t.ord[j].parent = i /\ t.ord[j].qty = filled
<1> DEFINE qty == IF filled > 0 THEN filled ELSE s.ord[i].qty
           exit == [s.ord[i] EXCEPT !.side = "Sell", !.cond = TRUE,
                                    !.resize = FALSE, !.created = at, !.parent = i,
                                    !.qty = qty]
           twin == IF k = 2 THEN 2 * n + 3 - j ELSE 0
           om2 == ActivateBracket(s.om, i, <<"bracket", i>>, n + 1, n + k)
           ord2 == [l \in OrderIds |->
                       IF l \in n + 1 .. n + k
                       THEN [exit EXCEPT !.twin = IF k = 2 THEN 2 * n + 3 - l ELSE 0]
                       ELSE s.ord[l]]
           ch2 == s.channel \o [l \in 1 .. k |-> [kind |-> "Request", id |-> n + l]]
<1>1. k # 0
  <2>1. n \in Nat
    BY UsedFacts
  <2> QED BY <2>1
<1>2. t = [s EXCEPT !.om = om2, !.ord = ord2, !.channel = ch2]
  BY <1>1 DEF RequestExits, Drawn
<1>3. t.ord = ord2
  <2> HIDE DEF om2, ord2, ch2
  <2> QED BY <1>2 DEF StateType
<1>4. exit.parent = i /\ exit.qty = qty /\ DOMAIN exit = DOMAIN s.ord[i]
      /\ {"parent", "qty", "twin"} \subseteq DOMAIN s.ord[i]
  <2> HIDE DEF qty
  <2> QED BY DEF Order
<1>5. t.ord[j] = [exit EXCEPT !.twin = twin]
  <2> HIDE DEF exit
  <2> QED BY <1>3
<1> HIDE DEF exit, twin
<1>6. t.ord[j].parent = exit.parent /\ t.ord[j].qty = exit.qty
  BY <1>4, <1>5
<1> QED BY <1>4, <1>6

\* A fill leaves the plans.
LEMMA FillHeard ==
    ASSUME NEW o \in RegistryType, NEW i \in OrderIds, NEW filled \in Nat,
           NEW t, t = OnReport(o, i, "Filled", filled)
    PROVE  t.plans = o.plans /\ t.history = o.history /\ t.filled[i] = filled
<1> DEFINE status == "Filled"
<1>1. status = "Filled" /\ status \in Status /\ t = OnReport(o, i, status, filled)
  BY StatusFacts DEF Status
<1> HIDE DEF status
<1>2. t.history = o.history /\ t.filled[i] = filled
  BY <1>1, OnReportLoosens
<1>3. t = [o EXCEPT !.status[i] = status, !.filled[i] = filled, !.oco = o.oco, !.plans[i] = o.plans[i]]
  BY <1>1 DEF OnReport
<1>4. [o.plans EXCEPT ![i] = o.plans[i]] = o.plans
  BY DEF RegistryType
<1>5. t.plans = [o.plans EXCEPT ![i] = o.plans[i]]
  BY <1>3 DEF RegistryType
<1> QED BY <1>2, <1>4, <1>5

LEMMA ExitTwin ==
    ASSUME NEW s \in StateType, NEW i \in OrderIds, s.ord[i] \in Order, NEW at,
           NEW t, t = RequestExits(s, i, at), NEW n, n = Drawn(s),
           NEW k, k = Cardinality(s.om.plans[i]), NEW j \in OrderIds, j \in n + 1 .. n + k
    PROVE  k \in 0 .. 2 /\ t.ord[j].twin = IF k = 2 THEN 2 * n + 3 - j ELSE 0
<1>1. /\ k \in 0 .. 2
      /\ \A l \in OrderIds : l \in n + 1 .. n + k =>
            /\ t.ord[l].twin = IF k = 2 THEN 2 * n + 3 - l ELSE 0
            /\ t.ord[l].side = "Sell" /\ t.ord[l].effect = s.ord[i].effect
      /\ t.om.oco = IF k = 2 THEN RegisterOco(s.om.oco, <<"bracket", i>>, n + 1, n + 2)
                    ELSE s.om.oco
  BY ExitsTwinned
<1> QED BY <1>1

\* What the report r of the order i adds to what was traded of it stays within the
\* order, and with a fill the order has traded all of it.
LEMMA TradeWithin ==
    ASSUME Reckoned, NEW s \in StateType, NEW r \in ReportType, NEW i \in OrderIds, i = r.id,
           s.ord[i] \in Order, NEW asked, NEW R, r \in R, Account(s, i, asked, R),
           Traded(s, i) <= s.ord[i].qty
    PROVE  /\ Traded(s, i) + r.trade <= s.ord[i].qty
           /\ r.status = "Filled" => r.filled = s.ord[i].qty
           /\ r.status = "Filled" /\ ~s.ord[i].resize => Traded(s, i) + r.trade = s.ord[i].qty
<1>1. Continues(s, r) /\ Balanced(s, i)
  BY DEF Account, Reckoned
<1>2. /\ s.ord[i].qty \in Nat /\ r.trade \in Nat /\ r.filled \in Nat /\ r.status \in Status
      /\ Traded(s, i) \in Nat /\ s.om.filled[i] \in Nat
  <2>1. Traded(s, i) \in Nat /\ s.om.filled[i] \in Nat
    BY Amounts
  <2> QED BY <2>1 DEF Order, ReportType
<1>3. CASE r.status \in {"Filled", "PartiallyFilled"}
  <2>1. s.om.history[i] = <<>> /\ s.om.status[i] # "Rejected"
    BY <1>1, <1>3, StatusFacts DEF Continues, Live
  <2>2. Shown(s, i).status # "Rejected" /\ Shown(s, i).filled = s.om.filled[i]
    BY <2>1, Amounts
  <2>3. /\ Traded(s, i) <= s.om.filled[i]
        /\ ~s.ord[i].resize => Traded(s, i) = s.om.filled[i]
    BY <1>1, <2>2 DEF Balanced
  <2>4. /\ s.om.filled[i] + r.trade <= r.filled
        /\ ~s.ord[i].resize => s.om.filled[i] + r.trade = r.filled
        /\ r.status = "Filled" => r.filled = s.ord[i].qty
        /\ r.status = "PartiallyFilled" => r.filled < s.ord[i].qty
    BY <1>1, <1>3 DEF Continues
  <2> QED BY <1>2, <1>3, <2>3, <2>4
<1>4. CASE r.status \notin {"Filled", "PartiallyFilled"}
  <2>1. r.status \in {"Cancelled", "Expired", "Rejected"}
    BY <1>1, <1>4 DEF Continues, Finished
  <2>2. r.trade = 0
    BY <1>1, <2>1 DEF Continues
  <2> QED BY <1>2, <1>4, <2>2
<1> QED BY <1>3, <1>4

\* A report books its trade on its order.
LEMMA ReportTrades ==
    ASSUME NEW s \in StateType, NEW r \in ReportType, NEW t, NEW k, NEW P, Applied(s, r, t, k, P),
           ~Dropped(s, r), NEW j \in OrderIds
    PROVE  Traded(t, j) = IF j = r.id THEN Traded(s, j) + r.trade ELSE Traded(s, j)
<1> DEFINE trade == r.trade
           i == r.id
<1>1. t.ledger.booked = s.ledger.booked
      /\ t.ledger.unbooked[j] = IF j = i THEN s.ledger.unbooked[j] + trade ELSE s.ledger.unbooked[j]
  BY DEF Applied
<1>2. s.ledger.unbooked[j] \in Nat /\ s.ledger.booked[j] \in Nat /\ trade \in Nat
  <2>1. r.trade \in Nat
    BY DEF ReportType
  <2> QED BY <2>1, Amounts
<1> HIDE DEF trade, i
<1>3. t.ledger.booked[j] = s.ledger.booked[j]
  BY <1>1
<1>4. Traded(t, j) = IF j = i THEN Traded(s, j) + trade ELSE Traded(s, j)
  BY ONLY <1>1, <1>2, <1>3 DEF Traded
<1> QED BY <1>4 DEF trade, i

\* Nothing is traded of an order that is not requested, or whose request is on its way.
LEMMA UntradedYet ==
    ASSUME Reckoned, NEW s, NEW p, NEW R, Good(s, p, R), Even(s, p, R), NEW i \in OrderIds,
           s.ord[i] \notin Order \/ Asked(s, p, i)
    PROVE  Traded(s, i) = 0
<1> DEFINE asked == Asked(s, p, i)
           T == ReportsOf(s, R, i)
<1>1. s \in StateType
  BY DEF Good
<1>2. s.om.status[i] = Absent
  <2>1. CASE s.ord[i] \notin Order
    BY <2>1 DEF Good
  <2>2. CASE Asked(s, p, i)
    BY <2>2, MessageFacts
  <2> QED BY <2>1, <2>2
<1>3. Account(s, i, asked, T) /\ (asked \/ s.ord[i] \notin Order)
  BY DEF Even
<1> HIDE DEF asked, T
<1>4. s.om.history[i] = <<>> /\ s.om.filled[i] = 0 /\ Balanced(s, i)
  BY <1>2, <1>3 DEF Account, Kept, Reckoned
<1>5. Shown(s, i).status = Absent /\ Shown(s, i).filled = 0
  BY <1>1, <1>2, <1>4, Amounts
<1>6. Traded(s, i) <= 0
  BY <1>4, <1>5 DEF Balanced, Absent
<1>7. Traded(s, i) \in Nat
  BY <1>1, Amounts
<1> QED BY <1>6, <1>7

\* A fill of an order with planned exits: what the exits sell was traded.
LEMMA FillCovered ==
    ASSUME Reckoned, NEW s, NEW p, NEW R, Good(s, p, R), Even(s, p, R), Covered(s),
           NEW r \in R, r.status = "Filled", ~Dropped(s, r), NEW t, t = ApplyReport(s, r)
    PROVE  Covered(t)
<1> DEFINE i == r.id
           n == Drawn(s)
           k == Cardinality(s.om.plans[i])
           heard == OnReport(s.om, i, r.status, r.filled)
           N == n + 1 .. n + k
<1>1. /\ s \in StateType /\ s.om \in RegistryType /\ Used(s.ord) = 1 .. n /\ n \in Nat
      /\ n + Cardinality(Planned(s.om)) <= Cardinality(OrderIds)
  BY UsedFacts DEF Good, StateType
<1>2. r \in ReportType /\ i \in OrderIds /\ s.ord[i] \in Order /\ r.at \in Nat
      /\ r.filled \in Nat /\ r.trade \in Nat
  <2>1. r \in ReportType /\ i \in OrderIds /\ s.ord[i] \in Order
    BY MessageIds DEF Good, MessageSound
  <2> QED BY <2>1 DEF ReportType
<1>3. PICK noted \in StateType :
         /\ noted.om = heard /\ noted.ord = s.ord
         /\ LET a == RequestExits(CancelPeers(noted, i), i, r.at)
            IN  t.om = a.om /\ t.ord = a.ord
  BY <1>1, <1>2, ReportSteps
<1>4. PICK kk \in Nat, PP \in SUBSET OrderIds : Applied(s, r, t, kk, PP)
  BY ReportKeeps
<1>5. /\ t \in StateType
      /\ \A j \in OrderIds : Traded(t, j) = IF j = i THEN Traded(s, j) + r.trade ELSE Traded(s, j)
  <2>1. t \in StateType
    BY <1>4 DEF Applied
  <2> QED BY <1>1, <1>2, <1>4, <2>1, ReportTrades
<1>6. /\ heard.plans = s.om.plans /\ heard.history = s.om.history
      /\ heard.filled[i] = r.filled
  <2> DEFINE fi == r.filled
             o == s.om
  <2>1. heard = OnReport(o, i, "Filled", fi) /\ fi \in Nat /\ i \in OrderIds /\ o \in RegistryType
    BY <1>1, <1>2
  <2> HIDE DEF fi, o, heard, i
  <2>2. heard.plans = o.plans /\ heard.history = o.history /\ heard.filled[i] = fi
    BY <2>1, FillHeard
  <2> QED BY <2>2 DEF o, fi
<1> HIDE DEF heard
<1> DEFINE c == CancelPeers(noted, i)
           a == RequestExits(c, i, r.at)
<1>7. /\ c \in StateType /\ c.ord = s.ord /\ c.om.history = s.om.history
      /\ c.om.plans = s.om.plans /\ c.om.filled[i] = r.filled
  <2>1. c = CancelPeers(noted, i) /\ noted \in StateType /\ i \in OrderIds
    BY <1>2
  <2> HIDE DEF c, i
  <2>2. /\ c \in StateType /\ c.ord = noted.ord /\ c.om.history = noted.om.history
        /\ c.om.filled = noted.om.filled /\ c.om.plans = noted.om.plans
    BY <2>1, PeersCancelled
  <2> QED BY <1>3, <1>6, <2>2
<1>8. t.om = a.om /\ t.ord = a.ord
  BY <1>3
<1> HIDE DEF c
<1>9. c.om.plans = s.om.plans /\ Drawn(c) = n /\ Planned(c.om) = Planned(s.om)
  BY <1>7 DEF Drawn, Planned
<1>10. /\ a \in StateType /\ Extended(c, a, k)
       /\ a.om.plans = [s.om.plans EXCEPT ![i] = {}]
  <2>1. /\ c \in StateType /\ i \in OrderIds /\ c.ord[i] \in Order /\ r.at \in Nat
        /\ Drawn(c) \in Nat
        /\ Drawn(c) + Cardinality(Planned(c.om)) <= Cardinality(OrderIds)
        /\ a = RequestExits(c, i, r.at) /\ k = Cardinality(c.om.plans[i])
    BY <1>1, <1>2, <1>7, <1>9
  <2> HIDE DEF a, i, k
  <2>2. /\ a \in StateType /\ Extended(c, a, Cardinality(c.om.plans[i]))
        /\ a.om.plans = [c.om.plans EXCEPT ![i] = {}]
    BY <2>1, ExitsRequested
  <2> QED BY <1>9, <2>1, <2>2
<1>11. /\ Traded(s, i) + r.trade <= s.ord[i].qty
       /\ r.filled = s.ord[i].qty
       /\ ~s.ord[i].resize => Traded(s, i) + r.trade = s.ord[i].qty
       /\ s.om.history[i] = <<>> /\ s.ord[i].qty \in Nat \ {0}
  <2>1. r \in ReportsOf(s, R, i)
    BY <1>2, MessageFacts
  <2> DEFINE asked == Asked(s, p, i)
             T == ReportsOf(s, R, i)
  <2>2. Account(s, i, asked, T) /\ r \in T
    BY <1>2, <2>1 DEF Even
  <2>3. Traded(s, i) <= s.ord[i].qty
    BY <1>2 DEF Covered
  <2>4. i = r.id
    OBVIOUS
  <2> HIDE DEF asked, T, i
  <2>5. /\ Traded(s, i) + r.trade <= s.ord[i].qty
        /\ r.filled = s.ord[i].qty
        /\ ~s.ord[i].resize => Traded(s, i) + r.trade = s.ord[i].qty
    BY <1>1, <1>2, <2>2, <2>3, <2>4, TradeWithin
  <2>6. s.om.history[i] = <<>>
    BY <2>2, <2>4 DEF Account, Continues
  <2>7. s.ord[i].qty \in Nat \ {0}
    BY <1>2 DEF Order
  <2> QED BY <2>5, <2>6, <2>7
<1>12. Snapshot(c.om, i).filled = r.filled
  <2>1. c.om \in RegistryType
    BY <1>7 DEF StateType
  <2> QED BY <1>2, <1>7, <1>11, <2>1, SnapshotTyped
<1>13. /\ \A j \in N : j \in OrderIds /\ s.ord[j] \notin Order /\ t.ord[j] \in Order
       /\ \A j \in OrderIds \ N : t.ord[j] = s.ord[j]
       /\ t.ord[i] = s.ord[i]
  <2>1. Used(c.ord) = 1 .. Drawn(c)
    BY <1>1, <1>7, <1>9
  <2> HIDE DEF k
  <2>2. /\ \A x \in OrderIds : c.ord[x] \in Order => a.ord[x] = c.ord[x]
        /\ \A j \in Drawn(c) + 1 .. Drawn(c) + k :
              j \in OrderIds /\ c.ord[j] \notin Order /\ a.ord[j] \in Order
    BY <1>7, <1>10, <2>1, ExtendedProperties
  <2>3. \A j \in OrderIds \ N : a.ord[j] = c.ord[j]
    BY <1>9, <1>10 DEF Extended
  <2> HIDE DEF a
  <2> QED BY <1>2, <1>7, <1>8, <1>9, <2>2, <2>3
<1>14. \A j \in N : t.ord[j].parent = i /\ t.ord[j].qty = r.filled
  <2> SUFFICES ASSUME NEW j \in N PROVE t.ord[j].parent = i /\ t.ord[j].qty = r.filled
    OBVIOUS
  <2> DEFINE filled == r.filled
  <2>1. /\ c \in StateType /\ i \in OrderIds /\ c.ord[i] \in Order
        /\ n = Drawn(c) /\ k = Cardinality(c.om.plans[i]) /\ filled = Snapshot(c.om, i).filled
        /\ filled > 0 /\ j \in OrderIds /\ a = RequestExits(c, i, r.at)
    BY <1>2, <1>7, <1>9, <1>11, <1>12, <1>13
  <2>2. j \in n + 1 .. n + k
    OBVIOUS
  <2> HIDE DEF N, n, k, a, i, filled
  <2>3. a.ord[j].parent = i /\ a.ord[j].qty = filled
    BY <2>1, <2>2, ExitsCut
  <2> QED BY <1>8, <2>3 DEF filled
<1>15. \A x, y \in N : x # y => t.ord[x].twin = y
  <2> SUFFICES ASSUME NEW x \in N, NEW y \in N, x # y PROVE t.ord[x].twin = y
    OBVIOUS
  <2>1. k \in 0 .. 2 /\ t.ord[x].twin = IF k = 2 THEN 2 * n + 3 - x ELSE 0
    <3> DEFINE at == r.at
    <3>1. /\ c \in StateType /\ i \in OrderIds /\ c.ord[i] \in Order
          /\ n = Drawn(c) /\ k = Cardinality(c.om.plans[i])
          /\ x \in OrderIds /\ a = RequestExits(c, i, at) /\ x \in n + 1 .. n + k
      BY <1>2, <1>7, <1>9, <1>13
    <3> HIDE DEF N, n, k, a, i, at
    <3> DEFINE w == IF k = 2 THEN 2 * n + 3 - x ELSE 0
    <3>3. k \in 0 .. 2 /\ a.ord[x].twin = w
      BY <3>1, ExitTwin
    <3> HIDE DEF w
    <3>4. t.ord[x].twin = w
      BY ONLY <1>8, <3>3
    <3> QED BY <3>3, <3>4 DEF w
  <2> HIDE DEF k, n
  <2>2. x \in Nat /\ y \in Nat /\ n + 1 <= x /\ n + 1 <= y /\ x <= n + k /\ y <= n + k
    BY <1>1, <2>1
  <2>3. k = 2 /\ y = 2 * n + 3 - x
    BY <1>1, <2>1, <2>2
  <2> QED BY <2>1, <2>3
<1>16. N # {} => s.om.plans[i] # {}
  <2>1. Cardinality({}) = 0
    BY FS_EmptySet
  <2>2. k = 0 => n + 1 .. n + k = {}
    <3> HIDE DEF k, n
    <3> QED BY <1>1
  <2>3. s.om.plans[i] = {} => k = 0
    BY <2>1
  <2> HIDE DEF k, n
  <2> QED BY <2>2, <2>3
<1>17. t.om.plans = [s.om.plans EXCEPT ![i] = {}]
  <2> HIDE DEF a
  <2> QED BY <1>8, <1>10
<1> HIDE DEF N, a, k, n
<1>18. N \in SUBSET OrderIds /\ i \in OrderIds \ N
  BY <1>2, <1>13
<1>19. /\ \A j \in OrderIds : Traded(s, j) <= Traded(t, j)
       /\ Traded(t, i) = Traded(s, i) + r.trade
       /\ \A j \in OrderIds : j # i => Traded(t, j) = Traded(s, j)
       /\ \A j \in OrderIds : Traded(s, j) \in Nat
  <2>1. \A j \in OrderIds : Traded(s, j) \in Nat
    BY <1>1, Amounts
  <2> QED BY <1>2, <1>5, <2>1
<1> HIDE DEF i
<1>20. \A j \in OrderIds : t.ord[j] \in Order => Traded(t, j) <= t.ord[j].qty
  <2> SUFFICES ASSUME NEW j \in OrderIds, t.ord[j] \in Order PROVE Traded(t, j) <= t.ord[j].qty
    OBVIOUS
  <2>1. CASE j = i
    BY <1>11, <1>13, <1>19, <2>1
  <2>2. CASE j \in N
    <3>1. Traded(t, j) = 0
      <4>1. Traded(s, j) = 0
        BY <1>13, <2>2, UntradedYet
      <4> QED BY <1>18, <1>19, <2>2, <4>1
    <3>2. t.ord[j].qty \in Nat
      BY DEF Order
    <3> QED BY <3>1, <3>2
  <2>3. CASE j # i /\ j \notin N
    <3>1. t.ord[j] = s.ord[j] /\ Traded(t, j) = Traded(s, j)
      BY <1>13, <1>19, <2>3
    <3> QED BY <3>1 DEF Covered
  <2> QED BY <2>1, <2>2, <2>3
<1>21. \A j \in OrderIds : t.om.plans[j] \subseteq s.om.plans[j] /\ (j = i => t.om.plans[j] = {})
  BY <1>1, <1>17 DEF RegistryType
<1>22. PlansFixed(t)
  <2> SUFFICES ASSUME NEW j \in OrderIds, t.om.plans[j] # {}
               PROVE  t.ord[j] \in Order /\ ~t.ord[j].resize
    BY DEF PlansFixed
  <2>1. s.ord[j] \in Order /\ ~s.ord[j].resize
    BY <1>21 DEF Covered, PlansFixed
  <2>2. j \notin N
    BY <1>13, <2>1
  <2> QED BY <1>13, <2>1, <2>2
<1>23. ASSUME NEW j \in N
       PROVE  Covers(t, t.ord[j].parent, j) /\ s.om.plans[t.ord[j].parent] # {}
  <2>1. s.om.plans[i] # {} /\ t.ord[j].parent = i /\ t.ord[j].qty = r.filled
    BY <1>14, <1>16
  <2>2. ~s.ord[i].resize
    BY <1>2, <2>1 DEF Covered, PlansFixed
  <2>3. t.ord[j].qty <= Traded(t, i)
    BY <1>11, <1>19, <2>1, <2>2
  <2> QED BY <1>2, <1>13, <1>21, <2>1, <2>3 DEF Covers
<1>24. \A x, y \in N : Siblings(t.ord, x, y) => t.ord[x].twin = y
  BY <1>15 DEF Siblings
<1> QED BY <1>1, <1>5, <1>13, <1>18, <1>19, <1>20, <1>21, <1>22, <1>23, <1>24, CoveredDrawn, ZenonT(60)


\* A report.
LEMMA ReportCovered ==
    ASSUME Reckoned, NEW s, NEW p, NEW R, Good(s, p, R), Even(s, p, R), Covered(s),
           NEW r \in R, NEW t, t = ApplyReport(s, r)
    PROVE  Covered(t)
<1>1. CASE Dropped(s, r)
  <2>1. t = s
    BY <1>1 DEF ApplyReport, Dropped
  <2> QED BY <2>1
<1>2. CASE ~Dropped(s, r) /\ r.status = "Filled"
  BY <1>2, FillCovered
<1>3. CASE ~Dropped(s, r) /\ r.status # "Filled"
  <2> DEFINE i == r.id
  <2>1. s \in StateType /\ r \in ReportType /\ i \in OrderIds /\ s.ord[i] \in Order /\ r.trade \in Nat
    <3>1. r \in ReportType /\ i \in OrderIds /\ s.ord[i] \in Order
      BY MessageIds DEF Good, MessageSound
    <3> QED BY <3>1 DEF Good, ReportType
  <2>2. t.ord = s.ord
    <3>1. \E noted \in StateType : t.ord = s.ord
      BY <1>3, <2>1, ReportSteps
    <3> QED BY <3>1
  <2>3. PICK k \in Nat, P \in SUBSET OrderIds : Applied(s, r, t, k, P)
    BY ReportKeeps
  <2>4. t \in StateType /\ \A j \in OrderIds : t.om.plans[j] \subseteq s.om.plans[j]
    BY <2>3 DEF Applied
  <2>5. \A j \in OrderIds : Traded(t, j) = IF j = i THEN Traded(s, j) + r.trade ELSE Traded(s, j)
    BY <1>3, <2>1, <2>3, ReportTrades
  <2>6. Traded(s, i) + r.trade <= s.ord[i].qty
    <3> DEFINE asked == Asked(s, p, i)
               T == ReportsOf(s, R, i)
    <3>1. Account(s, i, asked, T) /\ r \in T
      <4>1. r \in T
        BY <2>1, MessageFacts
      <4> QED BY <2>1, <4>1 DEF Even
    <3>2. Traded(s, i) <= s.ord[i].qty /\ i = r.id
      BY <2>1 DEF Covered
    <3> HIDE DEF asked, T, i
    <3> QED BY <2>1, <3>1, <3>2, TradeWithin
  <2>7. \A j \in OrderIds : Traded(s, j) \in Nat
    BY <2>1, Amounts
  <2>8. \A j \in OrderIds : s.ord[j] \in Order => s.ord[j].qty \in Nat
    BY DEF Order
  <2> HIDE DEF i
  <2>9. Onward(s, t)
    <3> SUFFICES ASSUME NEW j \in OrderIds
                 PROVE  /\ s.ord[j] \in Order =>
                              Traded(t, j) <= s.ord[j].qty /\ s.ord[j].qty <= s.ord[j].qty
                        /\ Traded(s, j) <= Traded(t, j)
      BY <2>2, <2>4 DEF Onward
    <3>1. s.ord[j] \in Order => Traded(s, j) <= s.ord[j].qty
      BY DEF Covered
    <3>2. CASE j = i
      <4>1. Traded(t, j) = Traded(s, j) + r.trade /\ Traded(t, j) <= s.ord[j].qty
        BY <2>5, <2>6, <3>2
      <4> QED BY <2>1, <2>7, <2>8, <4>1
    <3>3. CASE j # i
      <4>1. Traded(t, j) = Traded(s, j)
        BY <2>5, <3>3
      <4> QED BY <2>7, <2>8, <3>1, <4>1
    <3> QED BY <3>2, <3>3
  <2> QED BY <2>1, <2>4, <2>9, CoveredOnward
<1> QED BY <1>1, <1>2, <1>3


\* The trades of an order are those of the ledger.
LEMMA SameTrades ==
    ASSUME NEW s, NEW t, t.ledger = s.ledger
    PROVE  \A i \in OrderIds : Traded(t, i) = Traded(s, i)
BY DEF Traded

\* The ledger moves its trades along.
LEMMA ConservedTrades ==
    ASSUME NEW s, NEW t, Conserved(s.ledger, t.ledger)
    PROVE  \A i \in OrderIds : Traded(t, i) = Traded(s, i)
BY DEF Conserved, Traded

\* One message is taken from the channel.
LEMMA ReceiveCovered ==
    ASSUME Reckoned, NEW s, NEW p, Good(s, p, {}), Even(s, p, {}), Covered(s), s.channel # <<>>,
           NEW m, m = Head(s.channel), NEW u, u = Popped(s),
           NEW t, t \in StateType, m.kind = "Request" => t = u,
           m.kind = "Validated" => t = WithOrder(u, m.id),
           m.kind = "Report" => t = ApplyReport(u, m)
    PROVE  Covered(t)
<1>1. s \in StateType
  BY DEF Good
<1>2. /\ u \in StateType /\ u.om = s.om /\ u.book = s.book /\ u.ord = s.ord
      /\ u.ledger = s.ledger /\ u.suppressed = s.suppressed
      /\ u.channel = Tail(s.channel)
      /\ ToSet(s.channel) = {m} \cup ToSet(u.channel)
  BY <1>1, PoppedProperties
<1>3. m \in MessageType /\ m.id \in OrderIds /\ MessageSound(u, m) /\ Good(u, p, {})
      /\ m.id \notin ToSet(p) /\ \A d \in ToSet(u.channel) : d.id # m.id
  BY <1>2, HeadTaken
<1>4. m.kind \in {"Request", "Validated", "Report"}
  BY <1>3 DEF MessageType, ReportType
<1>5. Covered(u)
  <2>1. \A i \in OrderIds : Traded(u, i) = Traded(s, i)
    BY <1>2, SameTrades
  <2>2. \A i \in OrderIds : u.om.plans[i] \subseteq s.om.plans[i]
    BY <1>2
  <2> QED BY <1>1, <1>2, <2>1, <2>2, CoveredRests
<1>6. CASE m.kind = "Request"
  BY <1>5, <1>6
<1>7. CASE m.kind = "Validated"
  <2> DEFINE o == AddActive(u.om, m.id)
             b == OnOrder(u.book, m.id)
  <2>1. t = [u EXCEPT !.book = b, !.om = o]
    BY <1>7 DEF WithOrder
  <2>2. o.plans = u.om.plans
    <3>1. u.om \in RegistryType
      BY <1>2 DEF StateType
    <3> QED BY <3>1 DEF AddActive, RegistryType
  <2> HIDE DEF o, b
  <2>3. t.om = o /\ t.ord = u.ord /\ t.ledger = u.ledger
    BY <1>2, <2>1 DEF StateType
  <2>4. \A i \in OrderIds : Traded(t, i) = Traded(u, i)
    BY <2>3, SameTrades
  <2>5. \A i \in OrderIds : t.om.plans[i] \subseteq u.om.plans[i]
    BY <2>2, <2>3
  <2> QED BY <1>2, <1>5, <2>3, <2>4, <2>5, CoveredRests
<1>8. CASE m.kind = "Report"
  <2> DEFINE R == {m}
  <2>1. m \in R /\ m \in ReportType
    BY <1>3, <1>8 DEF MessageType
  <2>2. Good(u, p, R)
    BY <1>3, <2>1 DEF Good, InOnePlace
  <2>3. Plain(u)
    BY <1>2 DEF Even, Plain
  <2>4. \A i \in OrderIds : Alike(s, u, i)
    BY <1>2, ToldFacts DEF Alike, Traded
  <2>5. \A i \in OrderIds : Asked(u, p, i) <=> Asked(s, p, i)
    BY <1>2, <1>8 DEF Asked
  <2>6. \A i \in OrderIds : ReportsOf(u, R, i) = ReportsOf(s, {}, i)
    BY <1>2 DEF ReportsOf
  <2> HIDE DEF R
  <2>7. Even(u, p, R)
    BY <1>1, <1>2, <2>3, <2>4, <2>5, <2>6, EvenMoved
  <2> QED BY <1>5, <1>8, <2>1, <2>2, <2>7, ReportCovered
<1> QED BY <1>4, <1>6, <1>7, <1>8

\* The last match of a slice, its reports applied one after the other.
LEMMA LastMatchCovered ==
    ASSUME Reckoned, NEW s, Good(s, <<>>, {}), Even(s, <<>>, {}), Covered(s), s.channel = <<>>,
           s.book = book, s.ord = ord, feed.last \in Nat, BarsSound(feed.bars, feed.last),
           SliceOpen, NEW v \in FinalVerdicts, NEW t, t = LastMatch(s, v)
    PROVE  t \in StateType /\ Covered(t)
<1>0. s \in StateType /\ s.ledger \in LedgerType /\ BookSound(s.book, s.ord)
  BY DEF Good, StateType
<1>1. CASE feed.bars = {}
  <2>1. t = s
    BY <1>1 DEF LastMatch
  <2> QED BY <1>0, <2>1
<1>2. CASE feed.bars # {}
  <2> DEFINE done == FinalizeTimestamp(s.book, s.ord, feed.bars, feed.last, feed.priced, v)
             u == [s EXCEPT !.book = done.book]
             R == done.reports
             n == Len(R)
             applied == FoldLeft(ApplyReport, u, R)
  <2>1. t = [applied EXCEPT !.ledger = Flush(@)]
    BY <1>2 DEF LastMatch
  <2>2. CallSound(s.book, s.ord, {feed.last}, done)
    <3>1. v \in VerdictsOf(s.book, s.ord, feed.bars, feed.priced,
                           ToFinalize(PrepareSlice(s.book, feed.last), s.ord, feed.last))
      BY DEF FinalVerdicts
    <3> HIDE DEF done
    <3>2. done = FinalizeTimestamp(s.book, s.ord, feed.bars, feed.last, feed.priced, v)
      BY DEF done
    <3> QED BY <1>0, <1>2, <3>1, <3>2, FinalizeTimestampSound
  <2> HIDE DEF done
  <2>3. /\ u \in StateType /\ u.om = s.om /\ u.ord = s.ord /\ u.channel = s.channel
        /\ u.book = done.book /\ u.ledger = s.ledger /\ u.suppressed = s.suppressed
    BY <1>0, <2>2 DEF CallSound, BookSound, StateType
  <2>4. ToSet(s.channel) = {}
    BY DEF ToSet
  <2> HIDE DEF u
  <2>5. /\ Good(u, <<>>, ToSet(R)) /\ Even(u, <<>>, ToSet(R))
    <3>1. \A m \in ToSet(s.channel) : m.id \notin Active(s.book)
      BY <2>4
    <3>2. Good(u, <<>>, ToSet(done.reports))
      BY <2>2, <2>3, <3>1, CallKeeps
    <3>3. Even(u, <<>>, ToSet(done.reports))
      BY <2>2, <2>3, <3>1, CallEven
    <3> QED BY <3>2, <3>3
  <2>6. R \in Seq(ReportType) /\ \A k, l \in DOMAIN R : R[k].id = R[l].id => k = l
    BY <2>2 DEF CallSound, Outcome
  <2>7. Covered(u)
    <3>1. \A i \in OrderIds : Traded(u, i) = Traded(s, i)
      BY <2>3, SameTrades
    <3>2. \A i \in OrderIds : u.om.plans[i] \subseteq s.om.plans[i]
      BY <2>3
    <3> QED BY <1>0, <2>3, <3>1, <3>2, CoveredRests
  <2> HIDE DEF R
  <2> DEFINE Rest(k) == {R[l] : l \in k + 1 .. n}
             Half(k, a) == Good(a, <<>>, Rest(k)) /\ Even(a, <<>>, Rest(k)) /\ Covered(a)
             P == {p \in (0 .. n) \X StateType : Half(p[1], p[2])}
  <2>9. n \in Nat /\ DOMAIN R = 1 .. n
    BY <2>6
  <2> HIDE DEF n
  <2>10. <<0, u>> \in P
    <3>1. Rest(0) = ToSet(R)
      BY <2>9 DEF ToSet
    <3>2. Half(0, u)
      BY <2>5, <2>7, <3>1
    <3> HIDE DEF Half
    <3> QED BY <2>3, <2>9, <3>2
  <2>11. ASSUME NEW k \in 1 .. n, NEW a, <<k - 1, a>> \in P
         PROVE  <<k, ApplyReport(a, R[k])>> \in P
    <3> DEFINE b == ApplyReport(a, R[k])
    <3>1. Half(k - 1, a) /\ k - 1 \in 0 .. n
      <4> HIDE DEF Half
      <4>1. \A p \in P : Half(p[1], p[2]) /\ p[1] \in 0 .. n
        OBVIOUS
      <4>2. <<k - 1, a>>[1] = k - 1 /\ <<k - 1, a>>[2] = a
        OBVIOUS
      <4> HIDE DEF P
      <4> QED BY <4>1, <4>2, <2>11
    <3>2. R[k] \in Rest(k - 1) /\ Rest(k - 1) \ {R[k]} = Rest(k)
      <4>1. (k - 1) + 1 = k /\ k \in Nat
        BY <2>9
      <4>2. Rest(k - 1) = Rest(k) \cup {R[k]}
        <5>1. k .. n = (k + 1 .. n) \cup {k}
          BY <2>9, <4>1
        <5> QED BY <4>1, <5>1
      <4>3. R[k] \notin Rest(k)
        BY <2>6, <2>9, <4>1
      <4> HIDE DEF Rest
      <4> QED BY <4>2, <4>3
    <3> HIDE DEF Rest, b
    <3>3. Good(a, <<>>, Rest(k - 1)) /\ Even(a, <<>>, Rest(k - 1)) /\ Covered(a)
          /\ b = ApplyReport(a, R[k])
      BY <3>1 DEF b
    <3>4. Good(b, <<>>, Rest(k - 1) \ {R[k]})
      BY <3>2, <3>3, ReportKeeps
    <3>5. Even(b, <<>>, Rest(k - 1) \ {R[k]})
      BY <3>2, <3>3, ReportEven
    <3>6. Covered(b)
      BY <3>2, <3>3, ReportCovered
    <3>7. Half(k, b) /\ b \in StateType
      BY <3>2, <3>4, <3>5, <3>6 DEF Good
    <3> HIDE DEF Half
    <3> QED BY <3>7 DEF b
  <2>12. <<n, applied>> \in P
    <3> HIDE DEF P
    <3> QED BY <2>6, <2>10, <2>11, ReportsInduction DEF n
  <2>13. Half(n, applied)
    <3> HIDE DEF Half
    <3>1. \A p \in P : Half(p[1], p[2])
      OBVIOUS
    <3>2. <<n, applied>>[1] = n /\ <<n, applied>>[2] = applied
      OBVIOUS
    <3> HIDE DEF P
    <3> QED BY <2>12, <3>1, <3>2
  <2>14. Rest(n) = {}
    BY <2>9
  <2> HIDE DEF applied, Rest
  <2>15. applied \in StateType /\ applied.ledger \in LedgerType /\ Covered(applied)
         /\ Even(applied, <<>>, {})
    BY <2>13, <2>14 DEF Good, StateType
  <2>16. /\ t \in StateType /\ t.om = applied.om /\ t.ord = applied.ord
         /\ t.ledger = Flush(applied.ledger)
    BY <2>1, <2>15, FlushProperties DEF StateType
  <2>17. Conserved(applied.ledger, t.ledger)
    BY <2>15, <2>16, ToldFacts, FlushConserves
  <2>18. \A i \in OrderIds : Traded(t, i) = Traded(applied, i)
    BY <2>17, ConservedTrades
  <2>19. \A i \in OrderIds : t.om.plans[i] \subseteq applied.om.plans[i]
    BY <2>16
  <2> QED BY <2>15, <2>16, <2>18, <2>19, CoveredRests
<1> QED BY <1>1, <1>2

\* The day settles.
LEMMA SettleCovered ==
    ASSUME NEW s, Good(s, <<>>, {}), Covered(s), NEW t, t = SettleDay(s)
    PROVE  Covered(t)
<1>1. /\ s \in StateType /\ t \in StateType /\ t.ord = s.ord /\ t.ledger = s.ledger
  BY SettleKeeps DEF Good
<1>2. t.om.plans = s.om.plans
  <2> DEFINE o == ExpireAtSettlement(s.om, ExpiredDayOrders(s))
             b == OnCancel(s.book, ExpiredDayOrders(s))
  <2>1. s.om \in RegistryType
    BY <1>1 DEF StateType
  <2>2. o.plans = s.om.plans
    BY <2>1, ExpireProperties
  <2>3. t = [s EXCEPT !.om = o, !.book = b]
    BY DEF SettleDay
  <2> HIDE DEF o, b
  <2> QED BY <1>1, <2>2, <2>3 DEF StateType
<1>3. \A i \in OrderIds : Traded(t, i) = Traded(s, i)
  BY <1>1, SameTrades
<1>4. \A i \in OrderIds : t.om.plans[i] \subseteq s.om.plans[i]
  BY <1>2
<1> QED BY <1>1, <1>3, <1>4, CoveredRests


-----------------------------------------------------------------------------
(***************************************************************************)
(* The exits along a run.                                                  *)
(***************************************************************************)

CoveredNow == Covered(State(drain.suppressed))

\* The ledger moves its trades along in every step but a report.
LEMMA LedgerMoves ==
    ASSUME IInv, EvenNow, ledger' \in {ledger, Flush(ledger), Tell(ledger)}
    PROVE  Conserved(ledger, ledger')
<1> DEFINE s == State(drain.suppressed)
<1>1. ledger \in LedgerType /\ \A i \in OrderIds : ledger.untold[i] + ledger.told[i] = ledger.booked[i]
  <2>1. s = State(drain.suppressed)
    OBVIOUS
  <2> HIDE DEF s
  <2> QED BY <2>1, NowFacts
<1>2. CASE ledger' = ledger
  BY <1>1, <1>2 DEF Conserved
<1>3. CASE ledger' = Flush(ledger)
  BY <1>1, <1>3, FlushConserves
<1>4. CASE ledger' = Tell(ledger)
  BY <1>1, <1>4, TellConserves
<1> QED BY <1>2, <1>3, <1>4

\* A step that leaves the orders, and at most drops plans.
LEMMA StageCovered ==
    ASSUME IInv, IInv', EvenNow, CoveredNow, ord' = ord,
           ledger' \in {ledger, Flush(ledger), Tell(ledger)},
           \A i \in OrderIds : om'.plans[i] \subseteq om.plans[i]
    PROVE  CoveredNow'
<1> DEFINE s == State(drain.suppressed)
           t == State(drain.suppressed)'
<1>1. s \in StateType /\ Covered(s) /\ s.om = om /\ s.ord = ord /\ s.ledger = ledger
  BY DEF IInv, Good, State, CoveredNow
<1>2. t \in StateType /\ t.om = om' /\ t.ord = ord' /\ t.ledger = ledger'
  BY DEF IInv, Good, State
<1> HIDE DEF s, t
<1>3. \A i \in OrderIds : Traded(t, i) = Traded(s, i)
  <2>1. Conserved(s.ledger, t.ledger)
    BY <1>1, <1>2, LedgerMoves
  <2> QED BY <2>1, ConservedTrades
<1>4. \A i \in OrderIds : t.om.plans[i] \subseteq s.om.plans[i]
  BY <1>1, <1>2
<1>5. t.ord = s.ord
  BY <1>1, <1>2
<1>6. Covered(t)
  BY <1>1, <1>2, <1>3, <1>4, <1>5, CoveredRests
<1> QED BY <1>6 DEF CoveredNow, t

\* The state becomes t.
LEMMA BecomesCovered ==
    ASSUME NEW t, Covered(t), Becomes(t)
    PROVE  CoveredNow'
<1> DEFINE u == State(drain.suppressed)'
<1>1. u.om = t.om /\ u.ord = t.ord /\ u.ledger = t.ledger
  BY DEF State, Becomes
<1> HIDE DEF u
<1>2. \A i \in OrderIds : Traded(u, i) = Traded(t, i)
  BY <1>1 DEF Traded
<1>3. \A i \in OrderIds, e \in OrderIds : Covers(u, e, i) <=> Covers(t, e, i)
  BY <1>1, <1>2 DEF Covers
<1>4. \A e, i : Covers(t, e, i) => e \in OrderIds
  BY DEF Covers
<1>5. Covered(u)
  <2>1. PlansFixed(u)
    BY <1>1 DEF Covered, PlansFixed
  <2>2. \A i, j \in OrderIds : Siblings(u.ord, i, j) => u.ord[i].twin = j
    BY <1>1 DEF Covered
  <2>3. ASSUME NEW i \in OrderIds, u.ord[i] \in Order
        PROVE  /\ Traded(u, i) <= u.ord[i].qty
               /\ u.ord[i].parent # 0 => Covers(u, u.ord[i].parent, i)
    <3>1. u.ord[i] = t.ord[i] /\ t.ord[i] \in Order
      BY <1>1, <2>3
    <3>2. Traded(t, i) <= t.ord[i].qty /\ (t.ord[i].parent # 0 => Covers(t, t.ord[i].parent, i))
      BY <3>1 DEF Covered
    <3> QED BY <1>2, <1>3, <1>4, <3>1, <3>2
  <2> QED BY <2>1, <2>2, <2>3 DEF Covered
<1> QED BY <1>5 DEF CoveredNow, u

LEMMA ReceiveStepCovered ==
    ASSUME Reckoned, IInv, EvenNow, CoveredNow, ChannelReceive
    PROVE  CoveredNow'
<1> DEFINE s == State(drain.suppressed)
           pending == drain.pending
           m == Head(channel)
           u == Popped(s)
           t == CASE m.kind = "Request"   -> u
                  [] m.kind = "Validated" -> WithOrder(u, m.id)
                  [] m.kind = "Report"    -> ApplyReport(u, m)
<1>1. /\ channel # <<>> /\ Becomes(t)
  BY DEF ChannelReceive, Popped, WithOrder
<1>2. Good(s, pending, {}) /\ Even(s, pending, {}) /\ s.channel = channel /\ Covered(s)
  BY DEF IInv, EvenNow, State, CoveredNow
<1> HIDE DEF s, pending
<1>3. /\ m.kind = "Request" => t = u
      /\ m.kind = "Validated" => t = WithOrder(u, m.id)
      /\ m.kind = "Report" => t = ApplyReport(u, m)
  <2> HIDE DEF m, u
  <2>1. "Request" # "Validated" /\ "Request" # "Report" /\ "Validated" # "Report"
    OBVIOUS
  <2>2. CASE m.kind = "Request"
    BY <2>2
  <2>3. CASE m.kind = "Validated"
    BY <2>3
  <2>4. CASE m.kind = "Report"
    BY <2>4
  <2> QED BY <2>1, <2>2, <2>3, <2>4
<1> HIDE DEF t
<1>4. Covered(t)
  <2>1. m = Head(s.channel) /\ u = Popped(s) /\ s.channel # <<>>
    BY <1>1, <1>2
  <2> HIDE DEF m, u
  <2>2. t \in StateType
    BY <1>2, <1>3, <2>1, ReceiveKeeps
  <2> QED BY <1>2, <1>3, <2>1, <2>2, ReceiveCovered
<1> QED BY <1>1, <1>4, BecomesCovered

\* The end of a slice.
LEMMA FinalizeCovered ==
    ASSUME Reckoned, IInv, EvenNow, CoveredNow, pc = "Data", NEW v \in FinalVerdicts,
           NEW t, t = Finalize(v)
    PROVE  Covered(t)
<1> DEFINE s == State({})
<1>1. ~Draining /\ channel = <<>>
  BY DEF IInv, StageSound, Draining
<1>2. drain.pending = <<>> /\ drain.suppressed = {}
  BY <1>1, IdleFacts
<1>3. Good(s, <<>>, {}) /\ Even(s, <<>>, {}) /\ Covered(s)
      /\ s.book = book /\ s.ord = ord /\ s.channel = <<>>
  BY <1>1, <1>2 DEF State, CoveredNow, IInv, EvenNow
<1>4. feed.last \in Nat /\ BarsSound(feed.bars, feed.last)
  BY DEF IInv, FeedSound, FeedType
<1> HIDE DEF s
<1>5. CASE SliceOpen
  <2> DEFINE u == LastMatch(s, v)
             b == OnCancel(u.book, MissingSymbol(u))
             c == u.channel \o MissingReports(u)
  <2>1. t = RejectMissing(u)
    BY <1>5 DEF Finalize, s
  <2>2. t = [u EXCEPT !.book = b, !.channel = c]
    BY <2>1 DEF RejectMissing
  <2>3. u \in StateType /\ Covered(u)
    <3>1. u = LastMatch(s, v)
      OBVIOUS
    <3> HIDE DEF u
    <3> QED BY <1>3, <1>4, <1>5, <3>1, LastMatchCovered
  <2>4. t \in StateType
    BY FinalizeKeeps DEF Good
  <2> HIDE DEF u, b, c
  <2>5. t.om = u.om /\ t.ord = u.ord /\ t.ledger = u.ledger
    BY <2>2, <2>3 DEF StateType
  <2>6. \A i \in OrderIds : Traded(t, i) = Traded(u, i)
    BY <2>5, SameTrades
  <2>7. \A i \in OrderIds : t.om.plans[i] \subseteq u.om.plans[i]
    BY <2>5
  <2> QED BY <2>3, <2>4, <2>5, <2>6, <2>7, CoveredRests
<1>6. CASE ~SliceOpen
  <2>1. t = s
    BY <1>6 DEF Finalize, s
  <2> QED BY <1>3, <2>1
<1> QED BY <1>5, <1>6

LEMMA RestCovered ==
    ASSUME IInv, CoveredNow, pc = "Data", NEW t, t = State({})
    PROVE  Covered(t)
<1>1. drain.suppressed = {}
  BY IdleFacts DEF IInv, StageSound, Draining
<1> QED BY <1>1 DEF CoveredNow

LEMMA DataCovered ==
    ASSUME Reckoned, IInv, EvenNow, CoveredNow,
           \/ \E sym \in Symbols, ts \in Times, traded \in BOOLEAN, session \in Sessions :
                 DataBar(sym, ts, traded, session)
           \/ \E session \in Sessions : DataTimer(session)
           \/ DataEnd
    PROVE  CoveredNow'
<1>1. ASSUME NEW sym \in Symbols, NEW ts \in Times, NEW traded \in BOOLEAN,
             NEW session \in Sessions, DataBar(sym, ts, traded, session)
      PROVE  CoveredNow'
  <2> DEFINE newSlice == feed.last # 0 /\ ts > feed.last
  <2>1. PICK v \in IF ts > feed.last THEN FinalVerdicts ELSE {<<>>} :
           LET s == IF newSlice THEN Finalize(v) ELSE State({})
           IN  Becomes(IF DateOf[ts] = feed.date THEN s ELSE SettleDay(s))
    BY <1>1 DEF DataBar
  <2> DEFINE s == IF newSlice THEN Finalize(v) ELSE State({})
             t == IF DateOf[ts] = feed.date THEN s ELSE SettleDay(s)
  <2>2. pc = "Data"
    BY <1>1 DEF DataBar
  <2>3. Good(s, <<>>, {}) /\ Covered(s)
    <3>1. CASE newSlice
      <4>1. v \in FinalVerdicts /\ s = Finalize(v)
        BY <2>1, <3>1
      <4> HIDE DEF s
      <4>2. Good(s, <<>>, {})
        BY <2>2, <4>1, FinalizeKeeps
      <4> QED BY <2>2, <4>1, <4>2, FinalizeCovered
    <3>2. CASE ~newSlice
      <4>1. s = State({})
        BY <3>2
      <4> HIDE DEF s
      <4>2. ~Draining
        BY <2>2 DEF Draining
      <4>3. Good(s, <<>>, {})
        BY <4>1, <4>2, IdleFacts
      <4> QED BY <2>2, <4>1, <4>3, RestCovered
    <3> QED BY <3>1, <3>2
  <2>4. Becomes(t)
    BY <2>1
  <2> HIDE DEF s
  <2>5. Covered(t)
    <3>1. CASE DateOf[ts] = feed.date
      BY <2>3, <3>1
    <3>2. CASE DateOf[ts] # feed.date
      <4>1. t = SettleDay(s)
        BY <3>2
      <4> HIDE DEF t
      <4> QED BY <2>3, <4>1, SettleCovered
    <3> QED BY <3>1, <3>2
  <2> HIDE DEF t
  <2> QED BY <2>4, <2>5, BecomesCovered
<1>2. ASSUME NEW session \in Sessions, DataTimer(session)
      PROVE  CoveredNow'
  <2> DEFINE ends == TimerEndsSlice(Min(feed.timers))
  <2>1. PICK v \in IF ends THEN FinalVerdicts ELSE {<<>>} :
           Becomes(IF ends THEN Finalize(v) ELSE State({}))
    BY <1>2 DEF DataTimer
  <2>2. pc = "Data"
    BY <1>2 DEF DataTimer
  <2> DEFINE t == IF ends THEN Finalize(v) ELSE State({})
  <2> HIDE DEF ends
  <2>3. Covered(t)
    <3>1. CASE ends
      <4>1. v \in FinalVerdicts /\ t = Finalize(v)
        BY <2>1, <3>1
      <4> HIDE DEF t
      <4> QED BY <2>2, <4>1, FinalizeCovered
    <3>2. CASE ~ends
      <4>1. t = State({})
        BY <3>2
      <4> HIDE DEF t
      <4> QED BY <2>2, <4>1, RestCovered
    <3> QED BY <3>1, <3>2
  <2>4. Becomes(t)
    BY <2>1
  <2> HIDE DEF t
  <2> QED BY <2>3, <2>4, BecomesCovered
<1>3. CASE DataEnd
  <2>1. PICK v \in FinalVerdicts : Becomes(Finalize(v))
    BY <1>3 DEF DataEnd
  <2>2. pc = "Data"
    BY <1>3 DEF DataEnd
  <2> DEFINE t == Finalize(v)
  <2>3. t = Finalize(v) /\ Becomes(t)
    BY <2>1
  <2> HIDE DEF t
  <2>4. Covered(t)
    BY <2>2, <2>3, FinalizeCovered
  <2> QED BY <2>3, <2>4, BecomesCovered
<1> QED BY <1>1, <1>2, <1>3


\* The checks lower the quantity of an order, and change nothing else of it.
LEMMA ReducedFields ==
    ASSUME NEW o \in [OrderIds -> Order \cup {NoOrder}], NEW ids, NEW risk,
           \A i \in ToSet(ids) : o[i] \in Order /\ risk[i] \in Nat /\ risk[i] \in RiskVerdicts(o[i]),
           NEW new, new = Reduced(o, ids, risk), NEW i \in OrderIds
    PROVE  /\ new[i] \in Order <=> o[i] \in Order
           /\ o[i] \in Order => /\ new[i].parent = o[i].parent /\ new[i].twin = o[i].twin
                                /\ new[i].resize = o[i].resize /\ new[i].qty <= o[i].qty
           /\ i \notin ToSet(ids) => new[i] = o[i]
<1>1. new[i] = IF i \in ToSet(ids) /\ risk[i] # 0 THEN [o[i] EXCEPT !.qty = risk[i]] ELSE o[i]
  BY DEF Reduced
<1>2. CASE i \in ToSet(ids) /\ risk[i] # 0
  <2>1. o[i] \in Order /\ risk[i] \in Nat \ {0} /\ new[i] = [o[i] EXCEPT !.qty = risk[i]]
    BY <1>1, <1>2
  <2>2. o[i].qty \in Nat
    BY <2>1 DEF Order
  <2>3. risk[i] <= o[i].qty
    BY <1>2, <2>1, <2>2 DEF RiskVerdicts
  <2>4. /\ new[i] \in Order /\ new[i].parent = o[i].parent /\ new[i].twin = o[i].twin
        /\ new[i].resize = o[i].resize /\ new[i].qty = risk[i]
    BY <2>1 DEF Order
  <2> QED BY <1>2, <2>1, <2>3, <2>4
<1>3. CASE ~(i \in ToSet(ids) /\ risk[i] # 0)
  <2>1. new[i] = o[i]
    BY <1>1, <1>3
  <2>2. o[i] \in Order => o[i].qty <= o[i].qty
    BY DEF Order
  <2> QED BY <2>1, <2>2
<1> QED BY <1>2, <1>3

LEMMA RisksCovered ==
    ASSUME Reckoned, NEW s, NEW p, Good(s, p, {}), Even(s, p, {}), Covered(s),
           NEW ids \in Seq(OrderIds), ToSet(ids) \subseteq ToSet(p), NEW risk,
           \A i \in ToSet(ids) : risk[i] \in Nat /\ risk[i] \in RiskVerdicts(s.ord[i]),
           NEW t \in StateType, t.om = s.om, t.ord = Reduced(s.ord, ids, risk),
           \A i \in OrderIds : Traded(t, i) = Traded(s, i)
    PROVE  Covered(t)
<1>1. s \in StateType /\ s.ord \in [OrderIds -> Order \cup {NoOrder}]
  BY DEF Good, StateType
<1>2. \A i \in ToSet(ids) : i \in OrderIds /\ s.ord[i] \in Order /\ Traded(s, i) = 0
  <2> SUFFICES ASSUME NEW i \in ToSet(ids)
               PROVE  i \in OrderIds /\ s.ord[i] \in Order /\ Traded(s, i) = 0
    OBVIOUS
  <2>1. i \in OrderIds /\ Asked(s, p, i)
    BY DEF ToSet, Asked
  <2>2. s.ord[i] \in Order
    BY <2>1, MessageFacts
  <2>3. Traded(s, i) = 0
    BY <2>1, UntradedYet
  <2> QED BY <2>1, <2>2, <2>3
<1>3. \A i \in OrderIds :
         /\ t.ord[i] \in Order <=> s.ord[i] \in Order
         /\ s.ord[i] \in Order =>
               /\ t.ord[i].parent = s.ord[i].parent /\ t.ord[i].twin = s.ord[i].twin
               /\ t.ord[i].resize = s.ord[i].resize /\ t.ord[i].qty <= s.ord[i].qty
         /\ i \notin ToSet(ids) => t.ord[i] = s.ord[i]
  <2> DEFINE o == s.ord
             new == t.ord
  <2>1. /\ o \in [OrderIds -> Order \cup {NoOrder}] /\ new = Reduced(o, ids, risk)
        /\ \A i \in ToSet(ids) : o[i] \in Order /\ risk[i] \in Nat /\ risk[i] \in RiskVerdicts(o[i])
    BY <1>1, <1>2
  <2> HIDE DEF o, new
  <2>2. \A i \in OrderIds :
         /\ new[i] \in Order <=> o[i] \in Order
         /\ o[i] \in Order => /\ new[i].parent = o[i].parent /\ new[i].twin = o[i].twin
                              /\ new[i].resize = o[i].resize /\ new[i].qty <= o[i].qty
         /\ i \notin ToSet(ids) => new[i] = o[i]
    BY <2>1, ReducedFields
  <2> QED BY <2>2 DEF o, new
<1>4. \A i \in OrderIds : Traded(s, i) \in Nat
  BY <1>1, Amounts
<1>5. ASSUME NEW i \in OrderIds, s.ord[i] \in Order
      PROVE  Traded(t, i) <= t.ord[i].qty
  <2>1. CASE i \in ToSet(ids)
    <3>1. t.ord[i].qty \in Nat
      BY <1>3, <1>5 DEF Order
    <3> QED BY <1>2, <2>1, <3>1
  <2>2. CASE i \notin ToSet(ids)
    BY <1>3, <1>5, <2>2 DEF Covered
  <2> QED BY <2>1, <2>2
<1>6. Onward(s, t)
  <2>1. \A i \in OrderIds : Traded(s, i) <= Traded(t, i)
    BY <1>4
  <2> QED BY <1>3, <1>5, <2>1 DEF Onward
<1> QED BY <1>1, <1>6, CoveredOnward

LEMMA RequestsTurnCovered ==
    ASSUME Reckoned, IInv, IInv', EvenNow, CoveredNow, channel = <<>>, RequestsTurn, UNCHANGED om,
           ledger' \in {ledger, Flush(ledger), Tell(ledger)}
    PROVE  CoveredNow'
<1> DEFINE s == State(drain.suppressed)
           pending == drain.pending
           batch == IF Mixed THEN Reduces ELSE drain.pending
           t == State(drain.suppressed)'
<1>1. PICK risk \in [ToSet(batch) -> Nat \cap UNION {RiskVerdicts(ord[i]) : i \in ToSet(batch)}] :
          /\ \A i \in ToSet(batch) : risk[i] \in RiskVerdicts(ord[i])
          /\ ProcessRequests(batch, risk)
          /\ drain' = [drain EXCEPT
                 !.pending = Waiting,
                 !.intermediate = Mixed /\ PhaseOf("PostExec", ToSet(drain.pending)),
                 !.settle = FALSE]
          /\ UNCHANGED book
  BY DEF RequestsTurn
<1>2. /\ Good(s, pending, {}) /\ Even(s, pending, {}) /\ s \in StateType /\ Covered(s)
      /\ s.om = om /\ s.ord = ord /\ s.channel = channel /\ s.ledger = ledger
  <2> HIDE DEF s
  <2>1. s = State(drain.suppressed)
    BY DEF s
  <2> QED BY <2>1, NowFacts DEF CoveredNow
<1>3. pending \in Seq(OrderIds) /\ IsInjective(pending)
  BY <1>2 DEF Good, InOnePlace
<1> HIDE DEF s
<1>4. /\ batch \in Seq(OrderIds) /\ ToSet(batch) \subseteq ToSet(pending)
  <2>1. batch = IF Mixed THEN Reduces ELSE drain.pending
    OBVIOUS
  <2> HIDE DEF batch
  <2>2. batch \in Seq(OrderIds) /\ ToSet(batch) \cup ToSet(Waiting) = ToSet(pending)
    BY <1>3, <2>1, BatchFacts
  <2> QED BY <2>2
<1> HIDE DEF batch
<1>5. \A i \in ToSet(batch) : risk[i] \in Nat /\ risk[i] \in RiskVerdicts(s.ord[i])
  BY <1>1, <1>2
<1>6. ord' = Reduced(ord, batch, risk)
  BY <1>1 DEF ProcessRequests, Reduced
<1>7. t \in StateType /\ t.om = om' /\ t.ord = ord' /\ t.ledger = ledger'
  BY DEF IInv, Good, State
<1> HIDE DEF t, pending
<1>8. \A i \in OrderIds : Traded(t, i) = Traded(s, i)
  <2>1. Conserved(s.ledger, t.ledger)
    BY <1>2, <1>7, LedgerMoves
  <2> QED BY <2>1, ConservedTrades
<1>9. t.om = s.om /\ t.ord = Reduced(s.ord, batch, risk)
  BY <1>2, <1>6, <1>7
<1>10. Covered(t)
  BY <1>2, <1>4, <1>5, <1>7, <1>8, <1>9, RisksCovered
<1> QED BY <1>10 DEF CoveredNow, t

LEMMA TurnCovered ==
    ASSUME Reckoned, IInv, IInv', EvenNow, CoveredNow, ChannelTurn
    PROVE  CoveredNow'
<1>1. /\ channel = <<>> /\ UNCHANGED om
      /\ ledger' \in {ledger, Flush(ledger), Tell(ledger)}
      /\ IntermediateMatch \/ RequestsTurn
  BY DEF ChannelTurn
<1>2. CASE IntermediateMatch
  <2>1. ord' = ord
    BY <1>2 DEF IntermediateMatch
  <2>2. \A i \in OrderIds : om'.plans[i] \subseteq om.plans[i]
    BY <1>1
  <2> QED BY <1>1, <2>1, <2>2, StageCovered
<1>3. CASE RequestsTurn
  BY <1>1, <1>3, RequestsTurnCovered
<1> QED BY <1>1, <1>2, <1>3

\* The other steps leave the orders.
LEMMA RestingCovered ==
    ASSUME IInv, IInv', EvenNow, CoveredNow,
           ChannelLeave \/ Execute \/ CleanupStage \/ Finish \/ Returned \/ UNCHANGED vars
    PROVE  CoveredNow'
<1>1. CASE ChannelLeave
  <2>1. ord' = ord /\ om' = om /\ ledger' \in {ledger, Flush(ledger), Tell(ledger)}
    BY <1>1 DEF ChannelLeave
  <2>2. \A i \in OrderIds : om'.plans[i] \subseteq om.plans[i]
    BY <2>1
  <2> QED BY <2>1, <2>2, StageCovered
<1>2. CASE Execute
  <2>1. ord' = ord /\ om' = om /\ ledger' \in {ledger, Flush(ledger), Tell(ledger)}
    BY <1>2 DEF Execute
  <2>2. \A i \in OrderIds : om'.plans[i] \subseteq om.plans[i]
    BY <2>1
  <2> QED BY <2>1, <2>2, StageCovered
<1>3. CASE CleanupStage \/ Finish
  <2>1. ord' = ord /\ om' = Cleanup(om) /\ ledger' \in {ledger, Flush(ledger), Tell(ledger)}
    BY <1>3 DEF CleanupStage, Finish
  <2>2. \A i \in OrderIds : om'.plans[i] \subseteq om.plans[i]
    BY <2>1, RestFacts, CleanupProperties
  <2> QED BY <2>1, <2>2, StageCovered
<1>4. CASE Returned \/ UNCHANGED vars
  <2>1. ord' = ord /\ om' = om /\ ledger' \in {ledger, Flush(ledger), Tell(ledger)}
    BY <1>4 DEF Returned, vars
  <2>2. \A i \in OrderIds : om'.plans[i] \subseteq om.plans[i]
    BY <2>1
  <2> QED BY <2>1, <2>2, StageCovered
<1> QED BY <1>1, <1>2, <1>3, <1>4


\* A callback of the strategy: no order it draws is an exit.
LEMMA StrategyCovered ==
    ASSUME Reckoned, EntriesFixed, IInv, IInv', EvenNow, CoveredNow, Strategy
    PROVE  CoveredNow'
<1>1. ledger' = Tell(ledger)
  BY DEF Strategy
<1>2. PICK m \in Moves, S \in SUBSET {i \in OrderIds : om.status[i] \in Live} :
         Room(m) /\ Callback(m, S)
  BY DEF Strategy
<1> DEFINE s == State(drain.suppressed)
           t == State(drain.suppressed)'
           n == Cardinality(Used(ord))
           bound == LinkOrders(m, n)
           N == (n + 1 .. n + Len(m.orders)) \cap OrderIds
<1>3. /\ Good(s, drain.pending, {}) /\ Even(s, drain.pending, {}) /\ s \in StateType /\ Covered(s)
      /\ s.om = om /\ s.ord = ord /\ s.ledger = ledger /\ om \in RegistryType
  <2> HIDE DEF s
  <2>1. s = State(drain.suppressed)
    BY DEF s
  <2>2. om \in RegistryType
    BY RestFacts
  <2> QED BY <2>1, <2>2, NowFacts DEF CoveredNow
<1>4. t \in StateType /\ t.om = om' /\ t.ord = ord' /\ t.ledger = ledger'
  BY DEF IInv, Good, State
<1>5. ord' = WithNew(m, n) /\ om' = CancelEach(bound, S)
  BY <1>2 DEF Callback, WithNew
<1> HIDE DEF s, t
<1>6. /\ n \in Nat /\ n + Len(m.orders) <= Cardinality(OrderIds)
      /\ Used(ord) = 1 .. n /\ ord \in [OrderIds -> Order \cup {NoOrder}]
  <2>1. n = Cardinality(Used(ord)) /\ Room(m)
    BY <1>2
  <2> HIDE DEF n
  <2> QED BY <2>1, RoomLeft
<1> HIDE DEF n
<1>7. om'.plans = bound.plans
  <2>1. bound = LinkOrders(m, n)
    OBVIOUS
  <2> HIDE DEF bound
  <2>2. bound \in RegistryType
    BY <1>3, <1>6, <2>1, LinkOrdersProperties
  <2>3. CancelEach(bound, S).plans = bound.plans
    BY <2>2, CancelKeepsPlans
  <2> QED BY <1>5, <2>3
<1>8. Now \in Nat
  BY DEF IInv, FeedSound, FeedType, EventType, Now
<1>9. m.orders \in Seq(Order) /\ Len(m.orders) \in Nat /\ (m.exits # {} => Len(m.orders) = 1)
  BY MovesAssumption
<1>10. \A i \in OrderIds : IF i \in N THEN ord'[i] \in Order ELSE ord'[i] = ord[i]
  <2> DEFINE new == WithNew(m, n)
  <2>1. new = WithNew(m, n)
    OBVIOUS
  <2> HIDE DEF new
  <2>2. \A i \in OrderIds : IF i \in n + 1 .. n + Len(m.orders) THEN new[i] \in Order
                            ELSE new[i] = ord[i]
    BY <1>6, <1>8, <2>1, CallbackOrders
  <2> QED BY <1>5, <2>1, <2>2
<1>11. ASSUME NEW i \in N
       PROVE  i \in OrderIds /\ ord'[i].parent = 0 /\ s.ord[i] \notin Order
  <2>1. i \in OrderIds /\ i \in n + 1 .. n + Len(m.orders)
    OBVIOUS
  <2> DEFINE k == i - n
             x == m.orders[k]
             tw == IF m.oco THEN 2 * n + 3 - i ELSE 0
  <2>2. ord'[i] = [x EXCEPT !.created = Now, !.parent = 0, !.twin = tw]
    BY <1>5, <2>1 DEF WithNew
  <2>3. x \in Order
    <3>1. k \in 1 .. Len(m.orders)
      BY <1>6, <1>9, <2>1
    <3> HIDE DEF k
    <3> QED BY <1>9, <3>1
  <2> HIDE DEF x, tw
  <2>4. ord'[i].parent = 0
    BY <2>2, <2>3 DEF Order
  <2>5. i \notin 1 .. n
    BY <1>6, <1>9, <2>1
  <2>6. ord[i] = NoOrder
    BY <1>6, <2>1, <2>5 DEF Used
  <2> QED BY <1>3, <2>1, <2>4, <2>6, NoOrderAssumption
<1>12. ASSUME NEW i \in OrderIds \ N
       PROVE  om'.plans[i] = om.plans[i]
  <2>1. i # n + 1 \/ m.exits = {}
    <3> SUFFICES ASSUME i = n + 1, m.exits # {} PROVE FALSE
      OBVIOUS
    <3>1. Len(m.orders) = 1
      BY <1>9
    <3>2. i \in n + 1 .. n + Len(m.orders)
      BY <1>6, <3>1
    <3> QED BY <3>2
  <2> QED BY <1>3, <1>7, <2>1, PlansHandedOver
<1>13. ASSUME NEW i \in OrderIds, om'.plans[i] # {}
       PROVE  ord'[i] \in Order /\ ~ord'[i].resize
  <2>1. CASE i \in N
    <3>1. ord'[i] \in Order
      BY <1>10, <2>1
    <3>2. CASE i = n + 1 /\ m.exits # {}
      <4>1. i \in n + 1 .. n + Len(m.orders) /\ i - n = 1 /\ Len(m.orders) = 1
        <5>1. Len(m.orders) = 1 /\ i = n + 1
          BY <1>9, <3>2
        <5>2. n + 1 \in n + 1 .. n + 1 /\ (n + 1) - n = 1
          BY <1>6
        <5> QED BY <5>1, <5>2
      <4> DEFINE x == m.orders[1]
                 tw == IF m.oco THEN 2 * n + 3 - i ELSE 0
      <4>2. x \in Order /\ ~x.resize
        BY <1>9, <3>2, <4>1 DEF EntriesFixed
      <4>3. ord'[i] = [x EXCEPT !.created = Now, !.parent = 0, !.twin = tw]
        BY <1>5, <4>1 DEF WithNew
      <4> HIDE DEF x, tw
      <4>4. ord'[i].resize = x.resize
        BY <4>2, <4>3 DEF Order
      <4> QED BY <3>1, <4>2, <4>4
    <3>3. CASE i # n + 1 \/ m.exits = {}
      <4>1. bound.plans[i] = om.plans[i]
        BY <1>3, <3>3, PlansHandedOver
      <4>2. s.ord[i] \in Order
        BY <1>3, <1>7, <1>13, <4>1 DEF Covered, PlansFixed
      <4> QED BY <1>11, <2>1, <4>2
    <3> QED BY <3>2, <3>3
  <2>2. CASE i \notin N
    <3>1. om.plans[i] # {}
      BY <1>12, <1>13, <2>2
    <3>2. ord[i] \in Order /\ ~ord[i].resize
      BY <1>3, <3>1 DEF Covered, PlansFixed
    <3>3. ord'[i] = ord[i]
      BY <1>10, <2>2
    <3> QED BY <3>2, <3>3
  <2> QED BY <2>1, <2>2
<1> HIDE DEF bound
<1>14. \A i \in OrderIds : Traded(t, i) = Traded(s, i) /\ Traded(s, i) \in Nat
  <2>1. Conserved(s.ledger, t.ledger)
    BY <1>1, <1>3, <1>4, LedgerMoves
  <2>2. \A i \in OrderIds : Traded(t, i) = Traded(s, i)
    BY <2>1, ConservedTrades
  <2> QED BY <1>3, <2>2, Amounts
<1>15. N \in SUBSET OrderIds
  OBVIOUS
<1> HIDE DEF N
<1>16. \A i \in N : s.ord[i] \notin Order
  BY <1>11
<1>17. \A i \in OrderIds \ N : t.ord[i] = s.ord[i]
  BY <1>3, <1>4, <1>10
<1>18. \A i \in OrderIds : Traded(s, i) <= Traded(t, i)
  BY <1>14
<1>19. ASSUME NEW i \in OrderIds, t.ord[i] \in Order
       PROVE  Traded(t, i) <= t.ord[i].qty
  <2>1. CASE i \in N
    <3>1. Traded(t, i) = 0
      BY <1>3, <1>14, <1>16, <2>1, UntradedYet
    <3>2. t.ord[i].qty \in Nat
      BY <1>19 DEF Order
    <3> QED BY <3>1, <3>2
  <2>2. CASE i \notin N
    <3>1. t.ord[i] = s.ord[i]
      BY <1>17, <2>2
    <3>2. Traded(s, i) <= s.ord[i].qty
      BY <1>3, <1>19, <3>1 DEF Covered
    <3> QED BY <1>14, <3>1, <3>2
  <2> QED BY <2>1, <2>2
<1>20. \A i \in OrderIds \ N : t.om.plans[i] \subseteq s.om.plans[i]
  BY <1>3, <1>4, <1>12
<1>21. PlansFixed(t)
  BY <1>4, <1>13 DEF PlansFixed
<1>22. \A i \in N : t.ord[i].parent = 0
  BY <1>4, <1>11
<1>23. \A i \in N : t.ord[i].parent # 0 =>
          Covers(t, t.ord[i].parent, i) /\ s.om.plans[t.ord[i].parent] # {}
  BY <1>22
<1>24. \A i, j \in N : Siblings(t.ord, i, j) => t.ord[i].twin = j
  BY <1>22 DEF Siblings
<1>25. Covered(t)
  BY <1>3, <1>4, <1>15, <1>16, <1>17, <1>18, <1>19, <1>20, <1>21, <1>23, <1>24, CoveredDrawn
<1> QED BY <1>25 DEF CoveredNow, t


LEMMA StepCovered ==
    ASSUME Reckoned, EntriesFixed, IInv, IInv', EvenNow, CoveredNow, [Next]_vars
    PROVE  CoveredNow'
<1>1. CASE ChannelReceive
  BY <1>1, ReceiveStepCovered
<1>2. CASE ChannelTurn
  BY <1>2, TurnCovered
<1>3. CASE \/ \E sym \in Symbols, ts \in Times, traded \in BOOLEAN, session \in Sessions :
                 DataBar(sym, ts, traded, session)
           \/ \E session \in Sessions : DataTimer(session)
           \/ DataEnd
  BY <1>3, DataCovered
<1>4. CASE Strategy
  BY <1>4, StrategyCovered
<1>5. CASE ChannelLeave \/ Execute \/ CleanupStage \/ Finish \/ Returned \/ UNCHANGED vars
  BY <1>5, RestingCovered
<1> QED BY <1>1, <1>2, <1>3, <1>4, <1>5 DEF Next

\* Nothing is drawn at first.
LEMMA InitCovered == Init => CoveredNow
<1> SUFFICES ASSUME Init PROVE CoveredNow
  OBVIOUS
<1> DEFINE s == State(drain.suppressed)
<1>1. s.om = EmptyRegistry /\ s.ord = [i \in OrderIds |-> NoOrder]
  BY DEF Init, State
<1> HIDE DEF s
<1>2. \A i \in OrderIds : s.ord[i] \notin Order /\ s.om.plans[i] = {}
  BY <1>1, NoOrderAssumption DEF EmptyRegistry
<1>3. PlansFixed(s)
  BY <1>2 DEF PlansFixed
<1>4. Covered(s)
  BY <1>2, <1>3 DEF Covered, Siblings
<1> QED BY <1>4 DEF CoveredNow, s

\* AccountsInv, and the exits covered.
CoveredInv == AccountsInv /\ CoveredNow

\* Every exit of a bracket is for at most what its entry traded: order_manager.rs:163
\* draws the exits for what the entry shows as filled, which is what it traded
\* unless it was resized (simulated.rs:467 shortens the trade alone).
THEOREM CoveredSound == ASSUME EntriesFixed, Reckoned PROVE Spec => []CoveredInv
<1>1. Init => CoveredInv
  <2> SUFFICES ASSUME Init PROVE CoveredInv
    OBVIOUS
  <2>1. AccountsInv
    BY InitSound, InitEven, StageNames DEF AccountsInv, StageEven, Init, Stages
  <2> QED BY <2>1, InitCovered DEF CoveredInv
<1>2. CoveredInv /\ [Next]_vars => CoveredInv'
  <2> SUFFICES ASSUME CoveredInv, [Next]_vars PROVE CoveredInv'
    OBVIOUS
  <2>1. IInv /\ EvenNow /\ StageEven /\ CoveredNow /\ NoNextBarDay
    BY DEF CoveredInv, AccountsInv, Reckoned
  <2>2. IInv'
    BY <2>1, StepSound
  <2>3. EvenNow' /\ StageEven'
    BY <2>1, StepEven
  <2>4. CoveredNow'
    BY <2>1, <2>2, StepCovered
  <2> QED BY <2>2, <2>3, <2>4 DEF CoveredInv, AccountsInv
<1> QED BY <1>1, <1>2, PTL DEF Spec

\* What the orders X sold, and two of them.
SoldBy(l, X) ==
    LET Sold(i, n) == n + l.booked[i] + l.unbooked[i]
    IN  FoldSet(Sold, 0, X)

LEMMA SoldSum ==
    ASSUME NEW l, NEW b \in [OrderIds -> Nat], NEW u \in [OrderIds -> Nat],
           b = l.booked, u = l.unbooked, NEW i \in OrderIds, NEW j \in OrderIds, NEW X, X = {i, j}
    PROVE  SoldBy(l, X) = b[i] + u[i] + (IF i = j THEN 0 ELSE b[j] + u[j])
<1> DEFINE Sold(k, n) == n + l.booked[k] + l.unbooked[k]
           Some(s) == CHOOSE x \in s : TRUE
           Apply(G, s) == IF s = {} THEN 0 ELSE Sold(Some(s), G[s \ {Some(s)}])
           Iter(G) == G = [s \in SUBSET X |-> Apply(G, s)]
           F == CHOOSE G : Iter(G)
           First(s) == IF i \in s THEN b[i] + u[i] ELSE 0
           Other(s) == IF j \in s \ {i} THEN b[j] + u[j] ELSE 0
           H == [s \in SUBSET X |-> First(s) + Other(s)]
<1>1. SoldBy(l, X) = F[X]
  BY DEF SoldBy, FoldSet, MapThenFoldSet
<1>2. b[i] \in Nat /\ u[i] \in Nat /\ b[j] \in Nat /\ u[j] \in Nat
  OBVIOUS
<1>3. ASSUME NEW s \in SUBSET X, NEW G,
             s # {} => LET r == s \ {Some(s)} IN G[r] = First(r) + Other(r)
      PROVE  Apply(G, s) = First(s) + Other(s)
  <2>1. CASE s = {}
    BY <2>1
  <2>2. CASE s # {}
    <3> DEFINE x == Some(s)
               r == s \ {x}
    <3>1. x \in s /\ x \in {i, j}
      BY <2>2
    <3> HIDE DEF x
    <3>3. G[r] = First(r) + Other(r)
      BY <1>3, <2>2 DEF x
    <3>4. Apply(G, s) = G[r] + b[x] + u[x]
      BY <2>2 DEF x
    <3>5. CASE x = i
      <4>1. First(r) = 0 /\ First(s) = b[i] + u[i] /\ Other(r) = Other(s)
        BY <3>1, <3>5
      <4>2. Other(s) \in Nat
        BY <1>2
      <4> HIDE DEF First, Other, r
      <4> QED BY <1>2, <3>3, <3>4, <3>5, <4>1, <4>2
    <3>6. CASE x = j /\ j # i
      <4>1. First(r) = First(s) /\ Other(r) = 0 /\ Other(s) = b[j] + u[j]
        BY <3>1, <3>6
      <4>2. First(s) \in Nat
        BY <1>2
      <4> HIDE DEF First, Other, r
      <4> QED BY <1>2, <3>3, <3>4, <3>6, <4>1, <4>2
    <3> QED BY <3>1, <3>5, <3>6
  <2> QED BY <2>1, <2>2
<1> HIDE DEF Apply
<1>4. Iter(H)
  <2> HIDE DEF First, Other
  <2>1. \A r \in SUBSET X : H[r] = First(r) + Other(r)
    OBVIOUS
  <2>2. H = [s \in SUBSET X |-> H[s]]
    OBVIOUS
  <2> HIDE DEF H
  <2>3. ASSUME NEW s \in SUBSET X
        PROVE  Apply(H, s) = H[s]
    <3>1. s \ {Some(s)} \in SUBSET X
      OBVIOUS
    <3>2. Apply(H, s) = First(s) + Other(s)
      <4> HIDE DEF Some
      <4> QED BY <1>3, <2>1, <3>1
    <3> QED BY <2>1, <3>2
  <2> QED BY <2>2, <2>3
<1>5. Iter(F)
  <2> HIDE DEF Iter
  <2> QED BY <1>4
<1> HIDE DEF F
<1>6. \A s \in SUBSET X : F[s] = Apply(F, s)
  BY <1>5
<1>7. F[{}] = First({}) + Other({})
  <2> HIDE DEF First, Other
  <2> QED BY <1>3, <1>6
<1>8. ASSUME NEW k \in X
      PROVE  F[{k}] = First({k}) + Other({k})
  <2>1. {k} \in SUBSET X /\ {k} \ {Some({k})} = {}
    OBVIOUS
  <2> HIDE DEF First, Other, Some
  <2> QED BY <1>3, <1>6, <1>7, <2>1
<1>9. F[X] = First(X) + Other(X)
  <2> DEFINE r == X \ {Some(X)}
  <2>1. Some(X) \in X /\ X \in SUBSET X
    OBVIOUS
  <2>2. r = {} \/ \E k \in X : r = {k}
    <3> HIDE DEF Some
    <3> QED BY <2>1
  <2> HIDE DEF First, Other, Some
  <2>3. F[r] = First(r) + Other(r)
    BY <1>7, <1>8, <2>2
  <2> QED BY <1>3, <1>6, <2>1, <2>3
<1> QED BY <1>1, <1>2, <1>9


\* ExitsWithinEntry: the exits of a bracket never sell more than its entry bought.
\* Each exit is for at most what the entry traded, and of the two only one trades.
\* The accounts must balance, and no entry may be resized; what the pairs need is as
\* for OneOfTwoTrades.
THEOREM ExitsWithinEntryCorrect ==
    ASSUME NoParts, PairsAlike, EntriesFixed, Reckoned PROVE Spec => []ExitsWithinEntry
<1>0. 0 \notin OrderIds
  <2>1. 0 \notin 1 .. Cardinality(OrderIds)
    BY IdFacts
  <2> QED BY <2>1, OrderIdsAssumption
<1>1. CoveredInv /\ PairsInv => ExitsWithinEntry
  <2> SUFFICES ASSUME CoveredInv, PairsInv PROVE ExitsWithinEntry
    OBVIOUS
  <2> DEFINE b == ledger.booked
             u == ledger.unbooked
             s == State(drain.suppressed)
             Children(e) == {i \in Used(ord) : ord[i].parent = e}
  <2>1. /\ s.ord = ord /\ s.ledger = ledger /\ Covered(s) /\ s = State(drain.suppressed)
        /\ b \in [OrderIds -> Nat] /\ u \in [OrderIds -> Nat]
        /\ \A i \in Used(ord) : i \in OrderIds /\ ord[i] \in Order
    <3> HIDE DEF s
    <3>1. s = State(drain.suppressed)
      BY DEF s
    <3>2. s.ord = ord /\ s.ledger = ledger /\ s \in StateType /\ ledger \in LedgerType
      BY <3>1, NowFacts DEF CoveredInv, AccountsInv
    <3>3. \A i \in Used(ord) : i \in OrderIds /\ ord[i] \in Order
      BY <3>2 DEF Used, StateType
    <3>4. b \in [OrderIds -> Nat] /\ u \in [OrderIds -> Nat]
      BY <3>2 DEF LedgerType, Counts
    <3> QED BY <3>1, <3>2, <3>3, <3>4 DEF CoveredInv, CoveredNow
  <2>2. b = ledger.booked /\ u = ledger.unbooked
    OBVIOUS
  <2> HIDE DEF s
  <2>3. \A i \in OrderIds : Traded(s, i) = u[i] + b[i]
    BY <2>1 DEF Traded
  <2>4. ASSUME NEW e \in Used(ord), Children(e) # {}
        PROVE  SoldBy(ledger, Children(e)) <= b[e] + u[e]
    <3>1. e \in OrderIds /\ e # 0
      BY <1>0, <2>1
    <3>2. ASSUME NEW i \in Children(e)
          PROVE  /\ i \in OrderIds /\ ord[i] \in Order /\ ord[i].parent = e
                 /\ b[i] + u[i] <= b[e] + u[e]
      <4>1. i \in OrderIds /\ ord[i] \in Order /\ ord[i].parent = e
        BY <2>1
      <4>2. Traded(s, i) <= ord[i].qty /\ Covers(s, e, i)
        BY <2>1, <3>1, <4>1 DEF Covered
      <4>3. ord[i].qty <= Traded(s, e)
        BY <2>1, <4>2 DEF Covers
      <4>4. ord[i].qty \in Nat
        BY <4>1 DEF Order
      <4>5. u[i] + b[i] <= u[e] + b[e]
        <5>1. Traded(s, i) \in Nat /\ Traded(s, e) \in Nat
          BY <2>1, <2>3, <3>1, <4>1
        <5>2. Traded(s, i) <= Traded(s, e)
          BY <4>2, <4>3, <4>4, <5>1
        <5> QED BY <2>3, <3>1, <4>1, <5>2
      <4>6. b[i] \in Nat /\ u[i] \in Nat /\ b[e] \in Nat /\ u[e] \in Nat
        BY <2>1, <3>1, <4>1
      <4> HIDE DEF b, u
      <4> QED BY <4>1, <4>5, <4>6
    <3>3. ASSUME NEW i \in Children(e), NEW j \in Children(e), i # j
          PROVE  ord[i].twin = j /\ (b[i] + u[i] = 0 \/ b[j] + u[j] = 0)
      <4>1. /\ i \in OrderIds /\ ord[i] \in Order /\ ord[i].parent = e
            /\ j \in OrderIds /\ ord[j] \in Order /\ ord[j].parent = e
        BY <3>2, <3>3
      <4>2. ord[i].twin = j
        BY <2>1, <3>1, <3>3, <4>1 DEF Covered, Siblings
      <4>3. j # 0
        BY <1>0, <4>1
      <4>4. Split(s, drain.pending, {}, i, j)
        BY <2>1, <4>2, <4>3, PairNow
      <4>5. ~HasTraded(s, i) \/ ~HasTraded(s, j)
        BY <4>4 DEF Split, Lost
      <4>6. (b[i] = 0 /\ u[i] = 0) \/ (b[j] = 0 /\ u[j] = 0)
        BY <2>1, <4>5 DEF HasTraded
      <4> QED BY <4>2, <4>6
    <3> HIDE DEF b, u
    <3>4. PICK i \in Children(e) : TRUE
      BY <2>4
    <3>5. \E j \in Children(e) : Children(e) = {i, j}
      <4>1. CASE Children(e) = {i}
        BY <4>1
      <4>2. CASE Children(e) # {i}
        <5>1. PICK j \in Children(e) : j # i
          BY <3>4, <4>2
        <5>2. \A k \in Children(e) : k = i \/ k = j
          BY <3>3, <3>4, <5>1
        <5> HIDE DEF Children
        <5> QED BY <3>4, <5>1, <5>2
      <4> QED BY <4>1, <4>2
    <3>6. PICK j \in Children(e) : Children(e) = {i, j}
      BY <3>5
    <3>7. /\ i \in OrderIds /\ j \in OrderIds
          /\ b[i] + u[i] <= b[e] + u[e] /\ b[j] + u[j] <= b[e] + u[e]
          /\ i # j => b[i] + u[i] = 0 \/ b[j] + u[j] = 0
      BY <3>2, <3>3, <3>4, <3>6
    <3>8. SoldBy(ledger, Children(e)) = b[i] + u[i] + (IF i = j THEN 0 ELSE b[j] + u[j])
      <4> DEFINE X == Children(e)
      <4>1. X = {i, j}
        BY <3>6
      <4> HIDE DEF X
      <4>2. SoldBy(ledger, X) = b[i] + u[i] + (IF i = j THEN 0 ELSE b[j] + u[j])
        BY <2>1, <2>2, <3>7, <4>1, SoldSum
      <4> QED BY <4>2 DEF X
    <3>9. b[i] \in Nat /\ u[i] \in Nat /\ b[j] \in Nat /\ u[j] \in Nat
      BY <2>1, <3>7
    <3> HIDE DEF Children
    <3> QED BY <3>7, <3>8, <3>9
  <2> QED BY <2>4 DEF ExitsWithinEntry, SoldBy
<1> QED BY <1>1, CoveredSound, PairsSound, PTL

===============================================================================
