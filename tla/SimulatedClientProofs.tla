------------------------ MODULE SimulatedClientProofs ------------------------
(***************************************************************************)
(* What the simulated client's operations leave of a book: facts about     *)
(* sorted sequences and folds, then about one match, a sweep of the queue, *)
(* a sweep of the events, and the two calls that match.                    *)
(***************************************************************************)
EXTENDS SimulatedClient, FiniteSetTheorems, SequenceTheorems, NaturalsInduction,
        WellFoundedInduction, TLAPS

-----------------------------------------------------------------------------
(***************************************************************************)
(* Natural numbers.                                                        *)
(***************************************************************************)

LEMMA LeastElement ==
    ASSUME NEW T \in SUBSET Nat, T # {}
    PROVE  \E x \in T : \A y \in T : x <= y
<1>1. PICK x \in T : \A y \in T : ~ (<<y, x>> \in OpToRel(<, Nat))
  BY NatLessThanWellFounded, WFMin
<1>2. \A y \in T : ~ (y < x)
  BY <1>1 DEF OpToRel
<1> QED BY <1>2

\* Induction, on the set of the numbers that have the property.
LEMMA SetInduction ==
    ASSUME NEW S, 0 \in S, \A n \in Nat : n \in S => n + 1 \in S
    PROVE  Nat \subseteq S
<1> SUFFICES ASSUME Nat \ S # {} PROVE FALSE
  OBVIOUS
<1>1. PICK x \in Nat \ S : \A y \in Nat \ S : x <= y
  BY LeastElement
<1>2. x - 1 \in Nat /\ x - 1 \notin S => FALSE
  BY <1>1
<1> QED BY <1>1, <1>2

LEMMA Rising ==
    ASSUME NEW S, NEW n \in Nat, 0 \in S, \A k \in 0 .. n - 1 : k \in S => k + 1 \in S
    PROVE  \A k \in 0 .. n : k \in S
<1> DEFINE Big == {k \in Nat : k > n \/ k \in S}
<1>1. Nat \subseteq Big
  <2>1. \A k \in Nat : k \in Big => k + 1 \in Big
    OBVIOUS
  <2>2. 0 \in Big
    OBVIOUS
  <2> HIDE DEF Big
  <2> QED BY <2>1, <2>2, SetInduction
<1> QED BY <1>1

\* Of a finite set of numbers, every rank is the rank of one.
LEMMA NthProperties ==
    ASSUME NEW S \in SUBSET Nat, IsFiniteSet(S), NEW k \in 1 .. Cardinality(S)
    PROVE  Nth(S, k) \in S /\ Rank(S, Nth(S, k)) = k
<1> DEFINE n == Cardinality(S)
           rank == [x \in S |-> Rank(S, x)]
<1>1. n \in Nat
  BY FS_CardinalityType
<1>2. \A x \in S : Rank(S, x) \in 1 .. n
  <2> TAKE x \in S
  <2> DEFINE upTo == {y \in S : y <= x}
  <2>1. IsFiniteSet(upTo) /\ Cardinality(upTo) <= n
    BY FS_Subset
  <2>2. Cardinality(upTo) \in Nat /\ Cardinality(upTo) # 0
    BY <2>1, FS_CardinalityType, FS_EmptySet
  <2> QED BY <2>1, <2>2, <1>1 DEF Rank
<1>3. \A x, y \in S : x < y => Rank(S, x) < Rank(S, y)
  <2> SUFFICES ASSUME NEW x \in S, NEW y \in S, x < y
               PROVE  Rank(S, x) < Rank(S, y)
    OBVIOUS
  <2> DEFINE a == {z \in S : z <= x}
             b == {z \in S : z <= y}
  <2>1. IsFiniteSet(b)
    BY FS_Subset
  <2>2. a \in SUBSET b /\ a # b
    <3>1. x \in Nat /\ y \in Nat
      OBVIOUS
    <3>2. y \in b /\ y \notin a
      BY <3>1
    <3>3. \A z \in S : z <= x => z <= y
      BY <3>1
    <3> QED BY <3>2, <3>3
  <2>3. Cardinality(a) <= Cardinality(b) /\ Cardinality(a) # Cardinality(b)
    BY <2>1, <2>2, FS_Subset
  <2>4. Cardinality(a) \in Nat /\ Cardinality(b) \in Nat
    BY <2>1, <2>2, FS_Subset, FS_CardinalityType
  <2> QED BY <2>3, <2>4 DEF Rank
<1>4. rank \in Injection(S, 1 .. n)
  BY <1>2, <1>3 DEF Injection, IsInjective
<1>5. IsFiniteSet(1 .. n) /\ Cardinality(1 .. n) = n
  BY <1>1, FS_Interval, 1 \in Int
<1>6. rank \in Surjection(S, 1 .. n)
  BY <1>4, <1>5, FS_Injection
<1>7. \E x \in S : Rank(S, x) = k
  BY <1>6 DEF Surjection
<1> QED BY <1>7 DEF Nth

LEMMA AscendingProperties ==
    ASSUME NEW S \in SUBSET Nat, IsFiniteSet(S)
    PROVE  /\ Ascending(S) \in Seq(S)
           /\ \A a, b \in DOMAIN Ascending(S) : Ascending(S)[a] = Ascending(S)[b] => a = b
           /\ \A x \in S : \E k \in DOMAIN Ascending(S) : Ascending(S)[k] = x
<1> DEFINE n == Cardinality(S)
<1>1. n \in Nat
  BY FS_CardinalityType
<1>2. \A k \in 1 .. n : Nth(S, k) \in S /\ Rank(S, Nth(S, k)) = k
  BY NthProperties
<1>3. Ascending(S) \in [1 .. n -> S]
  BY <1>2 DEF Ascending
<1>4. Ascending(S) \in Injection(1 .. n, S)
  BY <1>2, <1>3 DEF Ascending, Injection, IsInjective
<1>5. Ascending(S) \in Surjection(1 .. n, S)
  BY <1>4, <1>1, FS_Injection, FS_Interval, 1 \in Int
<1> QED BY <1>1, <1>3, <1>4, <1>5 DEF Injection, IsInjective, Surjection

\* A filter keeps the chosen elements, at different places of the sequence.
LEMMA OnlyProperties ==
    ASSUME NEW T, NEW q \in Seq(T), NEW S
    PROVE  /\ Only(q, S) \in Seq(T \cap S)
           /\ \A a, b \in DOMAIN Only(q, S) :
                (\A x, y \in DOMAIN q : q[x] = q[y] => x = y)
                   /\ Only(q, S)[a] = Only(q, S)[b] => a = b
           /\ ToSet(Only(q, S)) = ToSet(q) \cap S
<1> DEFINE places == {p \in DOMAIN q : q[p] \in S}
           n == Cardinality(places)
<1>1. places \in SUBSET Nat /\ IsFiniteSet(places)
  <2>1. IsFiniteSet(1 .. Len(q))
    BY FS_Interval, 1 \in Int, Len(q) \in Int
  <2> QED BY <2>1, FS_Subset
<1>2. n \in Nat
  BY <1>1, FS_CardinalityType
<1> HIDE DEF places
<1>3. \A k \in 1 .. n : Nth(places, k) \in places /\ Rank(places, Nth(places, k)) = k
  BY <1>1, NthProperties
<1>4. Only(q, S) = [k \in 1 .. n |-> q[Nth(places, k)]]
  BY DEF Only, places
<1>5. \A k \in 1 .. n : q[Nth(places, k)] \in T \cap S
  BY <1>3 DEF places
<1>6. Only(q, S) \in Seq(T \cap S)
  BY <1>2, <1>4, <1>5
<1>7. \A p \in places : \E k \in 1 .. n : Nth(places, k) = p
  <2>1. \A p \in places : \E k \in DOMAIN Ascending(places) : Ascending(places)[k] = p
    BY <1>1, AscendingProperties
  <2> QED BY <2>1 DEF Ascending
<1>8. ASSUME NEW a \in 1 .. n, NEW b \in 1 .. n, q[Nth(places, a)] = q[Nth(places, b)],
             \A x, y \in DOMAIN q : q[x] = q[y] => x = y
      PROVE  a = b
  <2>1. Nth(places, a) = Nth(places, b)
    BY <1>8, <1>3 DEF places
  <2> QED BY <2>1, <1>3
<1>9. ToSet(Only(q, S)) = ToSet(q) \cap S
  <2>1. ToSet(Only(q, S)) = {q[Nth(places, k)] : k \in 1 .. n}
    BY <1>4 DEF ToSet
  <2>2. ToSet(q) \cap S = {q[p] : p \in places}
    BY DEF ToSet, places
  <2> QED BY <2>1, <2>2, <1>3, <1>7
<1> QED BY <1>4, <1>6, <1>8, <1>9

\* The greatest number of a set of numbers up to k.
LEMMA Greatest ==
    ASSUME NEW S, NEW k \in Nat, S \in SUBSET (1 .. k), S # {}
    PROVE  /\ Max(S) \in S
           /\ k \in S => Max(S) = k
<1> DEFINE below == {k - y : y \in S}
<1>1. below \in SUBSET Nat /\ below # {}
  <2>1. \A y \in S : k - y \in Nat
    OBVIOUS
  <2> QED BY <2>1
<1>2. PICK x \in below : \A y \in below : x <= y
  <2> HIDE DEF below
  <2> QED BY <1>1, LeastElement
<1>3. PICK m \in S : x = k - m
  OBVIOUS
<1>4. \A y \in S : m >= y
  <2> TAKE y \in S
  <2>1. k - y \in below
    OBVIOUS
  <2>2. k - m <= k - y
    BY <2>1, <1>2, <1>3
  <2>3. m \in Nat /\ y \in Nat
    OBVIOUS
  <2> QED BY <2>2, <2>3
<1>5. Max(S) \in S /\ \A y \in S : Max(S) >= y
  BY <1>4 DEF Max
<1>6. k \in S => Max(S) >= k /\ Max(S) \in 1 .. k
  BY <1>5
<1>7. k \in S => Max(S) = k
  BY <1>6
<1> QED BY <1>5, <1>7

-----------------------------------------------------------------------------
(***************************************************************************)
(* Folds.                                                                  *)
(***************************************************************************)

\* The loop over the queue: what holds of the accumulator before the first order
\* and is kept by each order holds after the last.  P is a set of pairs of a
\* place and an accumulator.
LEMMA SweepInduction ==
    ASSUME NEW acc, NEW ord, NEW event, NEW now, NEW priced, NEW wanted, NEW defer,
           NEW verdict, NEW T, NEW P, SortedQueue(acc.book, ord) \in Seq(T), <<0, acc>> \in P,
           \A k \in 1 .. Len(SortedQueue(acc.book, ord)) : \A a :
               <<k - 1, a>> \in P
                 => <<k, MatchOne(a, ord, SortedQueue(acc.book, ord)[k], event, now, priced,
                                  wanted, defer, verdict)>> \in P
    PROVE  <<Len(SortedQueue(acc.book, ord)),
             MatchEvent(acc, ord, event, now, priced, wanted, defer, verdict)>> \in P
<1> DEFINE q == SortedQueue(acc.book, ord)
           n == Len(q)
           Step(a, i) == MatchOne(a, ord, i, event, now, priced, wanted, defer, verdict)
           Next(G, s) == IF s = {} THEN acc ELSE Step(G[s \ {Max(s)}], q[Max(s)])
           Iter(k, G) == G = [s \in SUBSET (1 .. k) |-> Next(G, s)]
<1>1. n \in Nat /\ DOMAIN q = 1 .. n
  OBVIOUS
<1>2. MatchEvent(acc, ord, event, now, priced, wanted, defer, verdict)
        = (CHOOSE G : Iter(n, G))[1 .. n]
  BY <1>1 DEF MatchEvent, FoldLeft, MapThenFoldSet
<1>3. \A k \in 1 .. n : \A a : <<k - 1, a>> \in P => <<k, Step(a, q[k])>> \in P
  OBVIOUS
<1> HIDE DEF q, Step
<1>4. \E G : Iter(n, G)
  <2> DEFINE Has == {k \in Nat : \E G : Iter(k, G)}
  <2>1. 0 \in Has
    <3>1. Iter(0, [s \in SUBSET (1 .. 0) |-> acc])
      OBVIOUS
    <3> QED BY <3>1
  <2>2. ASSUME NEW k \in Nat, k \in Has
        PROVE  k + 1 \in Has
    <3>1. PICK G : Iter(k, G)
      BY <2>2
    <3> DEFINE H == [s \in SUBSET (1 .. k + 1) |->
                       IF s \in SUBSET (1 .. k) THEN G[s] ELSE Step(G[s \ {k + 1}], q[k + 1])]
    <3>2. ASSUME NEW s \in SUBSET (1 .. k + 1)
          PROVE  H[s] = Next(H, s)
      <4>1. CASE s = {}
        BY <4>1, <3>1
      <4>2. CASE s # {} /\ s \in SUBSET (1 .. k)
        <5>1. Max(s) \in s
          BY <4>2, Greatest
        <5>2. s \ {Max(s)} \in SUBSET (1 .. k) /\ s \ {Max(s)} \in SUBSET (1 .. k + 1)
          BY <4>2
        <5> QED BY <4>2, <5>2, <3>1
      <4>3. CASE s \notin SUBSET (1 .. k)
        <5>1. k + 1 \in s
          BY <4>3
        <5>2. Max(s) = k + 1
          BY <5>1, Greatest, k + 1 \in Nat
        <5>3. s \ {k + 1} \in SUBSET (1 .. k) /\ s \ {k + 1} \in SUBSET (1 .. k + 1)
          OBVIOUS
        <5> QED BY <4>3, <5>1, <5>2, <5>3
      <4> QED BY <4>1, <4>2, <4>3
    <3>3. Iter(k + 1, H)
      <4> HIDE DEF H
      <4>1. H = [s \in SUBSET (1 .. k + 1) |-> H[s]]
        BY DEF H
      <4> QED BY <4>1, <3>2
    <3> HIDE DEF Iter
    <3> QED BY <3>3
  <2> HIDE DEF Has
  <2>3. Nat \subseteq Has
    BY <2>1, <2>2, SetInduction
  <2> QED BY <2>3, <1>1 DEF Has
<1> DEFINE F == CHOOSE G : Iter(n, G)
<1>5. Iter(n, F)
  <2> HIDE DEF Iter
  <2> QED BY <1>4
<1> HIDE DEF F
<1> DEFINE Good == {k \in 0 .. n : <<k, F[1 .. k]>> \in P}
<1>6. 0 \in Good
  <2>1. 1 .. 0 = {} /\ {} \in SUBSET (1 .. n)
    OBVIOUS
  <2> QED BY <2>1, <1>5, <1>1
<1>7. ASSUME NEW k \in 0 .. n - 1, k \in Good
      PROVE  k + 1 \in Good
  <2>1. k + 1 \in 1 .. k + 1 /\ k + 1 \in Nat /\ 1 .. k + 1 \in SUBSET (1 .. n)
    BY <1>1
  <2>2. Max(1 .. k + 1) = k + 1
    BY <2>1, Greatest
  <2>3. (1 .. k + 1) \ {k + 1} = 1 .. k
    OBVIOUS
  <2>4. F[1 .. k + 1] = Step(F[1 .. k], q[k + 1])
    BY <2>1, <2>2, <2>3, <1>5
  <2>5. k + 1 \in 1 .. n /\ (k + 1) - 1 = k
    BY <1>1
  <2>6. <<k, F[1 .. k]>> \in P
    BY <1>7
  <2> QED BY <2>4, <2>5, <2>6, <1>3
<1>8. n \in Good
  <2> HIDE DEF Good
  <2>1. \A k \in 0 .. n : k \in Good
    BY <1>1, <1>6, <1>7, Rising
  <2> QED BY <2>1, <1>1
<1> QED BY <1>8, <1>2 DEF q, F

\* What match_with_events returns after its loops.
Cleaned(acc) == [acc EXCEPT !.book = DropFinished(@)]

\* The loop over the events, likewise.
LEMMA EventsInduction ==
    ASSUME NEW book, NEW ord, NEW events, NEW now, NEW priced, NEW wanted, NEW defer,
           NEW verdict, NEW T, NEW P, events \in Seq(T),
           <<0, [book |-> book, reports |-> <<>>]>> \in P,
           \A k \in 1 .. Len(events) : \A a :
               <<k - 1, a>> \in P
                 => <<k, MatchEvent(a, ord, events[k], now, priced, wanted, defer, verdict)>> \in P
    PROVE  \E a : /\ <<Len(events), a>> \in P
                 /\ MatchWithEvents(book, ord, events, now, priced, wanted, defer, verdict)
                      = Cleaned(a)
<1> DEFINE q == events
           acc == [book |-> book, reports |-> <<>>]
           n == Len(q)
           Step(a, event) == MatchEvent(a, ord, event, now, priced, wanted, defer, verdict)
           Next(G, s) == IF s = {} THEN acc ELSE Step(G[s \ {Max(s)}], q[Max(s)])
           Iter(k, G) == G = [s \in SUBSET (1 .. k) |-> Next(G, s)]
<1>1. n \in Nat /\ DOMAIN q = 1 .. n
  OBVIOUS
<1>2. MatchWithEvents(book, ord, events, now, priced, wanted, defer, verdict)
        = Cleaned((CHOOSE G : Iter(n, G))[1 .. n])
  BY <1>1 DEF MatchWithEvents, FoldLeft, MapThenFoldSet, Cleaned
<1>3. \A k \in 1 .. n : \A a : <<k - 1, a>> \in P => <<k, Step(a, q[k])>> \in P
  OBVIOUS
<1>0. <<0, acc>> \in P
  OBVIOUS
<1> HIDE DEF q, acc, Step
<1>4. \E G : Iter(n, G)
  <2> DEFINE Has == {k \in Nat : \E G : Iter(k, G)}
  <2>1. 0 \in Has
    <3>1. Iter(0, [s \in SUBSET (1 .. 0) |-> acc])
      OBVIOUS
    <3> QED BY <3>1
  <2>2. ASSUME NEW k \in Nat, k \in Has
        PROVE  k + 1 \in Has
    <3>1. PICK G : Iter(k, G)
      BY <2>2
    <3> DEFINE H == [s \in SUBSET (1 .. k + 1) |->
                       IF s \in SUBSET (1 .. k) THEN G[s] ELSE Step(G[s \ {k + 1}], q[k + 1])]
    <3>2. ASSUME NEW s \in SUBSET (1 .. k + 1)
          PROVE  H[s] = Next(H, s)
      <4>1. CASE s = {}
        BY <4>1, <3>1
      <4>2. CASE s # {} /\ s \in SUBSET (1 .. k)
        <5>1. Max(s) \in s
          BY <4>2, Greatest
        <5>2. s \ {Max(s)} \in SUBSET (1 .. k) /\ s \ {Max(s)} \in SUBSET (1 .. k + 1)
          BY <4>2
        <5> QED BY <4>2, <5>2, <3>1
      <4>3. CASE s \notin SUBSET (1 .. k)
        <5>1. k + 1 \in s
          BY <4>3
        <5>2. Max(s) = k + 1
          BY <5>1, Greatest, k + 1 \in Nat
        <5>3. s \ {k + 1} \in SUBSET (1 .. k) /\ s \ {k + 1} \in SUBSET (1 .. k + 1)
          OBVIOUS
        <5> QED BY <4>3, <5>1, <5>2, <5>3
      <4> QED BY <4>1, <4>2, <4>3
    <3>3. Iter(k + 1, H)
      <4> HIDE DEF H
      <4>1. H = [s \in SUBSET (1 .. k + 1) |-> H[s]]
        BY DEF H
      <4> QED BY <4>1, <3>2
    <3> HIDE DEF Iter
    <3> QED BY <3>3
  <2> HIDE DEF Has
  <2>3. Nat \subseteq Has
    BY <2>1, <2>2, SetInduction
  <2> QED BY <2>3, <1>1 DEF Has
<1> DEFINE F == CHOOSE G : Iter(n, G)
<1>5. Iter(n, F)
  <2> HIDE DEF Iter
  <2> QED BY <1>4
<1> HIDE DEF F
<1> DEFINE Good == {k \in 0 .. n : <<k, F[1 .. k]>> \in P}
<1>6. 0 \in Good
  <2>1. 1 .. 0 = {} /\ {} \in SUBSET (1 .. n)
    OBVIOUS
  <2> QED BY <2>1, <1>0, <1>5, <1>1
<1>7. ASSUME NEW k \in 0 .. n - 1, k \in Good
      PROVE  k + 1 \in Good
  <2>1. k + 1 \in 1 .. k + 1 /\ k + 1 \in Nat /\ 1 .. k + 1 \in SUBSET (1 .. n)
    BY <1>1
  <2>2. Max(1 .. k + 1) = k + 1
    BY <2>1, Greatest
  <2>3. (1 .. k + 1) \ {k + 1} = 1 .. k
    OBVIOUS
  <2>4. F[1 .. k + 1] = Step(F[1 .. k], q[k + 1])
    BY <2>1, <2>2, <2>3, <1>5
  <2>5. k + 1 \in 1 .. n /\ (k + 1) - 1 = k
    BY <1>1
  <2>6. <<k, F[1 .. k]>> \in P
    BY <1>7
  <2> QED BY <2>4, <2>5, <2>6, <1>3
<1>8. n \in Good
  <2> HIDE DEF Good
  <2>1. \A k \in 0 .. n : k \in Good
    BY <1>1, <1>6, <1>7, Rising
  <2> QED BY <2>1, <1>1
<1> QED BY <1>8, <1>2 DEF q, acc, F

-----------------------------------------------------------------------------
(***************************************************************************)
(* A match.                                                                *)
(***************************************************************************)

BookType == [status : [OrderIds -> Status \cup {Absent}], filled : [OrderIds -> Nat],
             queue : Seq(OrderIds), slice : Nat,
             attempted : SUBSET OrderIds, deferred : SUBSET OrderIds]

ReportType == [kind : {"Report"}, id : OrderIds, status : Status,
               filled : Nat, trade : Nat, at : Nat]

EventType == [kind : {"Bar", "Timer"}, sym : Nat, ts : Nat, traded : BOOLEAN]

AccType == [book : BookType, reports : Seq(ReportType)]

\* The client's working orders have something left to trade and are queued once.
BookSound(book, ord) ==
    /\ book \in BookType
    /\ IsInjective(book.queue)
    /\ \A i \in Active(book) : /\ ord[i] \in Order
                               /\ book.filled[i] < ord[i].qty
                               /\ i \in ToSet(book.queue)

Reported(R, i) == \E k \in DOMAIN R : R[k].id = i

\* A report r tells what became, in the book c, of an order that worked in the
\* book b.
Genuine(b, ord, c, r) ==
    /\ r.id \in Active(b)
    /\ r.status \in Finished \cup {"PartiallyFilled"}
    /\ r.status \in Finished => r.id \notin Active(c)
    /\ r.status = "PartiallyFilled" =>
          /\ r.id \in Active(c) /\ r.filled = c.filled[r.id]
          /\ r.trade > 0 /\ r.filled < ord[r.id].qty /\ "part" \in Verdicts
    /\ r.status = "Filled" => r.filled = ord[r.id].qty
    /\ r.status \in {"Filled", "PartiallyFilled"} =>
          /\ b.filled[r.id] + r.trade <= r.filled
          /\ ~ord[r.id].resize => b.filled[r.id] + r.trade = r.filled
    /\ r.status \in {"Cancelled", "Expired"} => r.trade = 0 /\ r.filled = b.filled[r.id]
    /\ r.status = "Rejected" => r.trade = 0 /\ r.filled = 0 /\ "unaffordable" \in Verdicts
    /\ r.trade > 0 /\ ord[r.id].offset = 1 => r.at > ord[r.id].created

\* What a match makes of the book b: no order starts to work; each report is the
\* only one of its order; an order that is not reported keeps its fills, and goes
\* on working unless its trade may vanish.
Outcome(b, ord, c, R) ==
    /\ \A k, l \in DOMAIN R : R[k].id = R[l].id => k = l
    /\ \A k \in DOMAIN R : Genuine(b, ord, c, R[k])
    /\ \A i \in Active(c) : i \in Active(b) /\ c.filled[i] < ord[i].qty
    /\ \A i \in OrderIds : ~Reported(R, i) =>
          /\ i \in Active(c) => c.filled[i] = b.filled[i]
          /\ "vanish" \notin Verdicts /\ i \in Active(b) => i \in Active(c)

LEMMA StatusFacts ==
    /\ Live \subseteq Status /\ Finished \subseteq Status
    /\ Live \cap Finished = {} /\ Absent \notin Status
    /\ "PartiallyFilled" \in Live /\ "Submitted" \in Live /\ "New" \in Live
    /\ \A s \in {"Filled", "Cancelled", "Expired", "Rejected"} : s \in Finished
BY DEF Live, Finished, Status, Absent

\* One more report, of an order that had none.
LEMMA OutcomeReport ==
    ASSUME NEW b, NEW ord, NEW acc \in AccType, Outcome(b, ord, acc.book, acc.reports),
           NEW r \in ReportType, r.id \in Active(acc.book), ~Reported(acc.reports, r.id),
           r.status = "PartiallyFilled" => r.filled < ord[r.id].qty,
           NEW c, Genuine(b, ord, c, r),
           c = [acc.book EXCEPT !.status[r.id] = r.status, !.filled[r.id] = r.filled]
    PROVE  /\ c \in BookType /\ Append(acc.reports, r) \in Seq(ReportType)
           /\ Outcome(b, ord, c, Append(acc.reports, r))
<1> DEFINE i == r.id
           R == Append(acc.reports, r)
<1>1. i \in OrderIds /\ acc.book \in BookType /\ acc.reports \in Seq(ReportType)
  BY DEF Active, AccType
<1>2. /\ c \in BookType
      /\ c.status = [acc.book.status EXCEPT ![i] = r.status]
      /\ c.filled = [acc.book.filled EXCEPT ![i] = r.filled]
  BY <1>1, StatusFacts DEF BookType, ReportType
<1>4. /\ R \in Seq(ReportType)
      /\ DOMAIN R = DOMAIN acc.reports \cup {Len(acc.reports) + 1}
      /\ R[Len(acc.reports) + 1] = r
      /\ \A k \in DOMAIN acc.reports : R[k] = acc.reports[k] /\ k # Len(acc.reports) + 1
  BY <1>1
<1> HIDE DEF i, R
<1>6. \A j \in OrderIds \ {i} : /\ c.status[j] = acc.book.status[j]
                                /\ c.filled[j] = acc.book.filled[j]
  BY <1>1, <1>2 DEF BookType
<1>7. c.status[i] = r.status /\ c.filled[i] = r.filled
  BY <1>1, <1>2 DEF BookType
<1>8. \A k \in DOMAIN acc.reports : acc.reports[k].id \in OrderIds \ {i}
  <2>1. \A k \in DOMAIN acc.reports : acc.reports[k] \in ReportType
    BY <1>1
  <2> QED BY <2>1 DEF Reported, ReportType, i
<1>9. \A k, l \in DOMAIN R : R[k].id = R[l].id => k = l
  BY <1>4, <1>8 DEF Outcome, i
<1>10. \A k \in DOMAIN R : Genuine(b, ord, c, R[k])
  <2>1. ASSUME NEW k \in DOMAIN acc.reports
        PROVE  Genuine(b, ord, c, acc.reports[k])
    BY <1>6, <1>8 DEF Outcome, Genuine, Active
  <2> QED BY <2>1, <1>4
<1>11. \A j \in Active(c) : j \in Active(b) /\ c.filled[j] < ord[j].qty
  BY <1>6, <1>7, StatusFacts DEF Outcome, Active, Genuine, i
<1>12. ASSUME NEW j \in OrderIds, ~Reported(R, j)
       PROVE  /\ j \in Active(c) => c.filled[j] = b.filled[j]
              /\ "vanish" \notin Verdicts /\ j \in Active(b) => j \in Active(c)
  <2>1. j # i
    BY <1>4, <1>12 DEF Reported, i
  <2>2. ~Reported(acc.reports, j)
    BY <1>4, <1>12 DEF Reported
  <2> QED BY <2>1, <2>2, <1>6 DEF Outcome, Active
<1> QED BY <1>2, <1>4, <1>9, <1>10, <1>11, <1>12 DEF Outcome, R

\* What the matcher makes of one order that it looks at.
LEMMA MatchedOutcome ==
    ASSUME NEW b, NEW ord, NEW acc \in AccType, BookSound(b, ord),
           Outcome(b, ord, acc.book, acc.reports),
           NEW i \in Active(acc.book), ~Reported(acc.reports, i),
           NEW event \in EventType, NEW priced, CanTrade(ord[i], event, priced),
           ~TooEarly(ord[i], event), NEW v \in Outcomes(b, ord[i], i, event)
    PROVE  LET done == Matched(acc, ord[i], i, event, v)
           IN  /\ done \in AccType
               /\ done.book.queue = acc.book.queue
               /\ Outcome(b, ord, done.book, done.reports)
               /\ \A k \in DOMAIN done.reports :
                     \/ \E l \in DOMAIN acc.reports : done.reports[k] = acc.reports[l]
                     \/ (done.reports[k].id = i /\ done.reports[k].at = event.ts)
<1> DEFINE o == ord[i]
           left == o.qty - acc.book.filled[i]
<1>1. /\ i \in OrderIds /\ i \in Active(b) /\ acc.book.filled[i] = b.filled[i]
      /\ acc.book.filled[i] < o.qty
  BY DEF Outcome, Active
<1>2. o \in Order
  BY <1>1 DEF BookSound
<1>3. /\ acc.book.filled[i] \in Nat /\ o.qty \in Nat /\ o.created \in Nat
      /\ event.ts \in Nat /\ o.offset \in {0, 1} /\ left \in Nat /\ left > 0
  BY SMTT(30), <1>1, <1>2 DEF AccType, BookType, Order, EventType
<1>4. o.offset = 1 => event.ts > o.created
  BY <1>3 DEF CanTrade, TooEarly
<1>5. /\ v = "none" \/ v = "cancel" \/ v \in Verdicts
      /\ v = "part" => left > 1
      /\ v = "cut" => o.resize /\ left > 1
      /\ v = "vanish" => o.resize
  BY <1>1 DEF Outcomes
<1> DEFINE done == Matched(acc, o, i, event, v)
           Good == /\ done \in AccType
                   /\ done.book.queue = acc.book.queue
                   /\ Outcome(b, ord, done.book, done.reports)
                   /\ \A k \in DOMAIN done.reports :
                         \/ \E l \in DOMAIN acc.reports : done.reports[k] = acc.reports[l]
                         \/ (done.reports[k].id = i /\ done.reports[k].at = event.ts)
           To(status, filled) == [acc.book EXCEPT !.status[i] = status, !.filled[i] = filled]
<1> SUFFICES Good
  OBVIOUS
<1>6. ASSUME NEW status \in Finished \cup {"PartiallyFilled"}, NEW filled \in Nat,
             NEW trade \in Nat,
             status = "PartiallyFilled" => filled < o.qty /\ trade > 0 /\ "part" \in Verdicts,
             status = "Filled" => filled = o.qty,
             status \in {"Filled", "PartiallyFilled"} =>
                 /\ b.filled[i] + trade <= filled
                 /\ ~o.resize => b.filled[i] + trade = filled,
             status \in {"Cancelled", "Expired"} => trade = 0 /\ filled = b.filled[i],
             status = "Rejected" => trade = 0 /\ filled = 0 /\ "unaffordable" \in Verdicts,
             done
               = [book |-> To(status, filled),
                  reports |-> Append(acc.reports, Report(i, status, filled, trade, event.ts))]
      PROVE  Good
  <2> DEFINE r == Report(i, status, filled, trade, event.ts)
             c == To(status, filled)
             R == Append(acc.reports, r)
  <2>1. c.status[i] = status /\ c.filled[i] = filled /\ c.queue = acc.book.queue
    BY <1>1 DEF AccType, BookType
  <2>2. Genuine(b, ord, c, r)
    <3> HIDE DEF c
    <3> QED BY <2>1, <1>1, <1>4, <1>6, StatusFacts DEF Genuine, Report, Active
  <2>3. [book |-> c, reports |-> R] \in AccType /\ Outcome(b, ord, c, R)
    <3>1. /\ r \in ReportType /\ r.id = i /\ r.status = status /\ r.filled = filled
      BY <1>1, <1>3, StatusFacts DEF Report, ReportType
    <3>2. r.status = "PartiallyFilled" => r.filled < ord[r.id].qty
      BY <1>6, <3>1
    <3>3. c = [acc.book EXCEPT !.status[r.id] = r.status, !.filled[r.id] = r.filled]
      BY <3>1
    <3>4. r.id \in Active(acc.book) /\ ~Reported(acc.reports, r.id)
      BY <3>1
    <3> HIDE DEF c, r, o, left, done, Good
    <3>5. /\ c \in BookType /\ R \in Seq(ReportType)
          /\ Outcome(b, ord, c, R)
      BY <3>1, <3>2, <3>3, <3>4, <2>2, OutcomeReport
    <3> QED BY <3>5 DEF AccType
  <2>4. \A k \in DOMAIN R : \/ \E l \in DOMAIN acc.reports : R[k] = acc.reports[l]
                           \/ (R[k].id = i /\ R[k].at = event.ts)
    <3>1. acc.reports \in Seq(ReportType) /\ r.id = i /\ r.at = event.ts
      BY DEF AccType, Report
    <3> HIDE DEF r, c, done, Good, To
    <3>2. /\ DOMAIN R = DOMAIN acc.reports \cup {Len(acc.reports) + 1}
          /\ \A k \in DOMAIN acc.reports : R[k] = acc.reports[k]
          /\ R[Len(acc.reports) + 1] = r
      BY <3>1
    <3> HIDE DEF R
    <3> QED BY <3>1, <3>2
  <2>5. done = [book |-> c, reports |-> R]
    BY <1>6
  <2> HIDE DEF c, r, R, done
  <2> QED BY <2>1, <2>3, <2>4, <2>5
<1>7. CASE v = "none"
  BY <1>7 DEF Matched
<1>8. CASE v = "cancel"
  <2>1. done
          = [book |-> To("Cancelled", acc.book.filled[i]),
             reports |-> Append(acc.reports,
                            Report(i, "Cancelled", acc.book.filled[i], 0, event.ts))]
    BY <1>8 DEF Matched
  <2> HIDE DEF To, o, done, Good
  <2> QED BY SMTT(30), <2>1, <1>1, <1>3, <1>6, StatusFacts
<1>9. CASE v = "fill"
  <2>1. done
          = [book |-> To("Filled", o.qty),
             reports |-> Append(acc.reports, Report(i, "Filled", o.qty, left, event.ts))]
    BY <1>9 DEF Matched
  <2>2. b.filled[i] + left = o.qty /\ b.filled[i] + left <= o.qty
    BY <1>1, <1>3
  <2>3. /\ "Filled" \in Finished /\ "Filled" \notin {"Cancelled", "Expired"}
        /\ "Filled" # "PartiallyFilled" /\ "Filled" # "Rejected"
    BY StatusFacts
  <2> HIDE DEF To, o, left, done, Good
  <2> QED BY <2>1, <2>2, <2>3, <1>3, <1>6
<1>10. CASE v = "part"
  <2> DEFINE q == o.qty - left + 1
  <2>1. done
          = [book |-> To("PartiallyFilled", q),
             reports |-> Append(acc.reports, Report(i, "PartiallyFilled", q, 1, event.ts))]
    BY <1>10 DEF Matched
  <2>2. /\ b.filled[i] + 1 = q /\ b.filled[i] + 1 <= q /\ q < o.qty /\ q \in Nat
        /\ 1 \in Nat /\ 1 > 0
    BY <1>1, <1>3, <1>5, <1>10
  <2>3. "part" \in Verdicts
    BY <1>5, <1>10
  <2>4. /\ "PartiallyFilled" \in Finished \cup {"PartiallyFilled"}
        /\ "PartiallyFilled" \notin {"Cancelled", "Expired"}
        /\ "PartiallyFilled" # "Filled" /\ "PartiallyFilled" # "Rejected"
    OBVIOUS
  <2> HIDE DEF To, o, left, done, Good, q
  <2> QED BY <2>1, <2>2, <2>3, <2>4, <1>6
<1>11. CASE v = "cut"
  <2>1. done
          = [book |-> To("Filled", o.qty),
             reports |-> Append(acc.reports, Report(i, "Filled", o.qty, left - 1, event.ts))]
    BY <1>11 DEF Matched
  <2>2. b.filled[i] + (left - 1) <= o.qty /\ left - 1 \in Nat
    BY <1>1, <1>3, <1>5, <1>11
  <2> HIDE DEF To, o, left, done, Good
  <2> QED BY SMTT(30), <2>1, <2>2, <1>1, <1>3, <1>5, <1>6, <1>11, StatusFacts
<1>12. CASE v = "unaffordable"
  <2>1. done
          = [book |-> To("Rejected", 0),
             reports |-> Append(acc.reports, Report(i, "Rejected", 0, 0, event.ts))]
    BY <1>12 DEF Matched
  <2> HIDE DEF To, o, done, Good
  <2> QED BY SMTT(30), <2>1, <1>1, <1>3, <1>5, <1>6, <1>12, StatusFacts
<1>13. CASE v = "vanish"
  <2> DEFINE c == To("Filled", o.qty)
  <2>1. done = [acc EXCEPT !.book = c]
    BY <1>13 DEF Matched
  <2>2. /\ c \in BookType /\ c.queue = acc.book.queue
        /\ c.status = [acc.book.status EXCEPT ![i] = "Filled"]
        /\ c.filled = [acc.book.filled EXCEPT ![i] = o.qty]
    BY <1>1, <1>3, StatusFacts DEF AccType, BookType
  <2> HIDE DEF c
  <2>3. /\ \A j \in OrderIds \ {i} : /\ c.status[j] = acc.book.status[j]
                                     /\ c.filled[j] = acc.book.filled[j]
        /\ i \notin Active(c)
    BY <2>2, <1>1, StatusFacts DEF AccType, BookType, Active
  <2>4. \A k \in DOMAIN acc.reports : acc.reports[k].id \in OrderIds \ {i}
    <3>1. \A k \in DOMAIN acc.reports : acc.reports[k] \in ReportType
      BY DEF AccType
    <3> QED BY <3>1 DEF Reported, ReportType
  <2>5. \A k \in DOMAIN acc.reports : Genuine(b, ord, c, acc.reports[k])
    BY <2>3, <2>4 DEF Outcome, Genuine, Active
  <2>6. "vanish" \in Verdicts
    BY <1>5, <1>13
  <2>7. \A j \in Active(c) : j \in Active(b) /\ c.filled[j] < ord[j].qty
    BY <2>3 DEF Outcome, Active
  <2>8. \A j \in OrderIds : ~Reported(acc.reports, j) /\ j \in Active(c)
            => c.filled[j] = b.filled[j]
    BY <2>3 DEF Outcome, Active
  <2>9. Outcome(b, ord, c, acc.reports)
    BY <2>5, <2>6, <2>7, <2>8 DEF Outcome
  <2>10. [acc EXCEPT !.book = c] = [book |-> c, reports |-> acc.reports]
    BY DEF AccType
  <2> QED BY <2>1, <2>2, <2>9, <2>10 DEF AccType
<1>14. v = "none" \/ v = "cancel" \/ v = "fill" \/ v = "part" \/ v = "cut" \/ v = "vanish"
          \/ v = "unaffordable"
  BY <1>5, VerdictsAssumption
<1> HIDE DEF Good, To
<1> QED BY <1>7, <1>8, <1>9, <1>10, <1>11, <1>12, <1>13, <1>14

\* Only the orders' states matter, not the marks of the slice.
LEMMA OutcomeMarks ==
    ASSUME NEW b, NEW ord, NEW c, NEW d, NEW R, Outcome(b, ord, c, R),
           d.status = c.status, d.filled = c.filled
    PROVE  Outcome(b, ord, d, R)
BY DEF Outcome, Genuine, Active

\* Half way through a match against events of the given times, which began with
\* the book b.
MatchSound(b, ord, times, acc) ==
    /\ acc \in AccType
    /\ acc.book.queue = b.queue
    /\ \A k \in DOMAIN acc.reports : acc.reports[k].at \in times
    /\ Outcome(b, ord, acc.book, acc.reports)

\* One order of the queue.
LEMMA MatchOneSound ==
    ASSUME NEW b, NEW ord, BookSound(b, ord), NEW acc, NEW times,
           MatchSound(b, ord, times, acc), NEW i \in OrderIds, NEW event \in EventType, event.ts \in times,
           NEW now, NEW priced, NEW wanted, NEW defer, NEW verdict,
           i \in Active(acc.book) \cap wanted /\ CanTrade(ord[i], event, priced)
             => ~Reported(acc.reports, i) /\ verdict[i] \in Outcomes(b, ord[i], i, event),
           NEW done, done = MatchOne(acc, ord, i, event, now, priced, wanted, defer, verdict)
    PROVE  /\ MatchSound(b, ord, times, done)
           /\ \A j : Reported(done.reports, j)
                       => Reported(acc.reports, j) \/ (j = i /\ CanTrade(ord[i], event, priced))
<1> DEFINE o == ord[i]
           Marked(bk) == /\ bk \in BookType /\ bk.queue = acc.book.queue
                         /\ bk.status = acc.book.status /\ bk.filled = acc.book.filled
<1>1. acc \in AccType /\ acc.book \in BookType
  BY DEF MatchSound, AccType
<1>2. ASSUME NEW a, NEW bk, Marked(bk), a = [acc EXCEPT !.book = bk]
      PROVE  MatchSound(b, ord, times, a) /\ a.reports = acc.reports /\ a.book = bk
  <2>1. a = [book |-> bk, reports |-> acc.reports]
    BY <1>1, <1>2 DEF AccType
  <2>2. Outcome(b, ord, bk, acc.reports)
    BY <1>2, OutcomeMarks DEF MatchSound
  <2> QED BY <2>1, <2>2, <1>1, <1>2 DEF MatchSound, AccType
<1>3. CASE i \notin Active(acc.book) \cap wanted \/ TooEarly(o, event)
  <2>1. done = acc
    BY <1>3 DEF MatchOne
  <2> QED BY <2>1
<1>4. CASE /\ ~(i \notin Active(acc.book) \cap wanted \/ TooEarly(o, event))
           /\ defer /\ ShouldDefer(acc.book, ord, i, event, now)
  <2> DEFINE bk == [acc.book EXCEPT !.deferred = @ \cup {i}, !.attempted = @ \cup {i}]
  <2>1. done = [acc EXCEPT !.book = bk]
    BY <1>1, <1>4 DEF MatchOne, AccType, BookType
  <2>2. Marked(bk)
    BY <1>1 DEF BookType
  <2> HIDE DEF bk, Marked
  <2> QED BY <2>1, <2>2, <1>2
<1>5. CASE ~(i \notin Active(acc.book) \cap wanted \/ TooEarly(o, event))
             /\ ~(defer /\ ShouldDefer(acc.book, ord, i, event, now))
  <2> DEFINE mark == /\ o.created = now /\ o.offset = 0
                     /\ event.kind = "Bar" /\ event.sym = o.sym
             tried == IF mark THEN [acc EXCEPT !.book.attempted = @ \cup {i}] ELSE acc
             bk == IF mark THEN [acc.book EXCEPT !.attempted = @ \cup {i}] ELSE acc.book
  <2>1. tried = [acc EXCEPT !.book = bk]
    BY <1>1 DEF AccType, BookType
  <2>2. Marked(bk)
    BY <1>1 DEF BookType
  <2>3. done = IF CanTrade(o, event, priced) THEN Matched(tried, o, i, event, verdict[i])
               ELSE tried
    BY <1>5 DEF MatchOne
  <2> HIDE DEF tried, bk
  <2>4. MatchSound(b, ord, times, tried) /\ tried.reports = acc.reports /\ tried.book = bk
    BY <2>1, <2>2, <1>2
  <2>5. CASE ~CanTrade(o, event, priced)
    BY <2>3, <2>4, <2>5
  <2>6. CASE CanTrade(o, event, priced)
    <3>1. /\ i \in Active(tried.book) /\ ~Reported(tried.reports, i)
          /\ verdict[i] \in Outcomes(b, ord[i], i, event)
          /\ ~TooEarly(ord[i], event)
      BY <2>2, <2>4, <2>6, <1>5 DEF Active
    <3>2. tried \in AccType /\ Outcome(b, ord, tried.book, tried.reports)
            /\ tried.book.queue = b.queue
      BY <2>4 DEF MatchSound
    <3>3. done = Matched(tried, ord[i], i, event, verdict[i])
      BY <2>3, <2>6
    <3> HIDE DEF o
    <3>4. /\ done \in AccType
          /\ done.book.queue = tried.book.queue
          /\ Outcome(b, ord, done.book, done.reports)
          /\ \A k \in DOMAIN done.reports :
                \/ \E l \in DOMAIN tried.reports : done.reports[k] = tried.reports[l]
                \/ (done.reports[k].id = i /\ done.reports[k].at = event.ts)
      BY <3>1, <3>2, <3>3, <2>6, MatchedOutcome DEF o
    <3>5. \A j : Reported(done.reports, j) => Reported(acc.reports, j) \/ j = i
      BY <3>4, <2>4 DEF Reported
    <3>6. \A k \in DOMAIN done.reports : done.reports[k].at \in times
      BY <3>4, <2>4 DEF MatchSound
    <3> QED BY <3>2, <3>4, <3>5, <3>6, <2>4, <2>6 DEF MatchSound, o
  <2> QED BY <2>5, <2>6
<1> QED BY <1>3, <1>4, <1>5

LEMMA SortedQueueProperties ==
    ASSUME NEW book, NEW ord, book.queue \in Seq(OrderIds)
    PROVE  /\ SortedQueue(book, ord) \in Seq(OrderIds)
           /\ IsInjective(book.queue) => IsInjective(SortedQueue(book, ord))
<1> DEFINE Of(side) == {i \in ToSet(book.queue) : ord[i].side = side}
           s == Only(book.queue, Of("Sell"))
           b == Only(book.queue, Of("Buy"))
<1>1. SortedQueue(book, ord) = s \o b
  BY DEF SortedQueue
<1>2. s \in Seq(OrderIds \cap Of("Sell")) /\ b \in Seq(OrderIds \cap Of("Buy"))
  <2> HIDE DEF Of
  <2> QED BY OnlyProperties
<1>3. IsInjective(book.queue) => IsInjective(s) /\ IsInjective(b)
  <2> HIDE DEF Of
  <2> QED BY OnlyProperties DEF IsInjective
<1>4. Of("Sell") \cap Of("Buy") = {}
  OBVIOUS
<1> HIDE DEF Of, s, b
<1>5. /\ s \in Seq(OrderIds) /\ b \in Seq(OrderIds)
      /\ \A k \in DOMAIN s : s[k] \in Of("Sell")
      /\ \A k \in DOMAIN b : b[k] \in Of("Buy")
  BY <1>2
<1>6. ASSUME IsInjective(s), IsInjective(b)
      PROVE  IsInjective(s \o b)
  <2> SUFFICES ASSUME NEW x \in DOMAIN (s \o b), NEW y \in DOMAIN (s \o b),
                      (s \o b)[x] = (s \o b)[y]
               PROVE  x = y
    BY DEF IsInjective
  <2>1. /\ x \in Nat /\ y \in Nat /\ Len(s) \in Nat
        /\ x <= Len(s) => x \in DOMAIN s /\ (s \o b)[x] = s[x]
        /\ x > Len(s) => x - Len(s) \in DOMAIN b /\ (s \o b)[x] = b[x - Len(s)]
        /\ y <= Len(s) => y \in DOMAIN s /\ (s \o b)[y] = s[y]
        /\ y > Len(s) => y - Len(s) \in DOMAIN b /\ (s \o b)[y] = b[y - Len(s)]
    BY <1>5
  <2>2. CASE x <= Len(s) /\ y <= Len(s)
    BY <2>1, <2>2, <1>6 DEF IsInjective
  <2>3. CASE x > Len(s) /\ y > Len(s)
    <3>1. x - Len(s) = y - Len(s)
      BY <2>1, <2>3, <1>6 DEF IsInjective
    <3> QED BY <3>1, <2>1
  <2>4. CASE (x <= Len(s)) # (y <= Len(s))
    BY <2>1, <2>4, <1>4, <1>5
  <2> QED BY <2>1, <2>2, <2>3, <2>4
<1> QED BY <1>1, <1>3, <1>5, <1>6

\* The whole queue for one event.
LEMMA MatchEventSound ==
    ASSUME NEW b, NEW ord, BookSound(b, ord), NEW acc, NEW times,
           MatchSound(b, ord, times, acc), NEW event \in EventType, event.ts \in times, NEW now, NEW priced, NEW wanted, NEW defer, NEW verdict,
           \A i \in Active(b) \cap wanted :
               CanTrade(ord[i], event, priced) => verdict[i] \in Outcomes(b, ord[i], i, event),
           \A i : Reported(acc.reports, i) => ~CanTrade(ord[i], event, priced),
           NEW done, done = MatchEvent(acc, ord, event, now, priced, wanted, defer, verdict)
    PROVE  /\ MatchSound(b, ord, times, done)
           /\ \A i : Reported(done.reports, i)
                       => Reported(acc.reports, i) \/ CanTrade(ord[i], event, priced)
<1> DEFINE q == SortedQueue(acc.book, ord)
           Seen(k, a) == /\ MatchSound(b, ord, times, a)
                         /\ \A i : Reported(a.reports, i) =>
                               \/ Reported(acc.reports, i)
                               \/ /\ CanTrade(ord[i], event, priced)
                                  /\ \E p \in 1 .. k : q[p] = i
           P == {x \in (0 .. Len(q)) \X AccType : Seen(x[1], x[2])}
<1>1. q \in Seq(OrderIds) /\ IsInjective(q)
  BY SortedQueueProperties DEF MatchSound, AccType, BookSound, BookType
<1>2. DOMAIN q = 1 .. Len(q) /\ Len(q) \in Nat /\ \A k \in 1 .. Len(q) : q[k] \in OrderIds
  BY <1>1
<1> HIDE DEF q
<1>3. <<0, acc>> \in P
  BY <1>2 DEF MatchSound
<1>4. ASSUME NEW k \in 1 .. Len(q), NEW a, <<k - 1, a>> \in P
      PROVE  <<k, MatchOne(a, ord, q[k], event, now, priced, wanted, defer, verdict)>> \in P
  <2> DEFINE i == q[k]
             next == MatchOne(a, ord, i, event, now, priced, wanted, defer, verdict)
  <2>1. Seen(k - 1, a)
    BY <1>4
  <2>2. i \in OrderIds
    BY <1>2
  <2>3. ASSUME i \in Active(a.book) \cap wanted, CanTrade(ord[i], event, priced)
        PROVE  ~Reported(a.reports, i) /\ verdict[i] \in Outcomes(b, ord[i], i, event)
    <3>1. i \in Active(b)
      BY <2>1, <2>3 DEF MatchSound, Outcome
    <3>2. \A p \in 1 .. k - 1 : q[p] # i
      BY <1>1, <1>2 DEF IsInjective
    <3> QED BY <3>1, <3>2, <2>1, <2>3
  <2> HIDE DEF i, next
  <2>4. /\ MatchSound(b, ord, times, next)
        /\ \A j : Reported(next.reports, j)
                    => Reported(a.reports, j) \/ (j = i /\ CanTrade(ord[i], event, priced))
    BY <2>1, <2>2, <2>3, MatchOneSound DEF next
  <2>5. Seen(k, next)
    <3>1. \A j : Reported(a.reports, j) =>
                     \/ Reported(acc.reports, j)
                     \/ (CanTrade(ord[j], event, priced) /\ \E p \in 1 .. k - 1 : q[p] = j)
      BY <2>1
    <3>2. 1 .. k - 1 \subseteq 1 .. k /\ k \in 1 .. k
      OBVIOUS
    <3> QED BY <3>1, <3>2, <2>4 DEF i
  <2>6. next \in AccType
    BY <2>4 DEF MatchSound
  <2> HIDE DEF Seen
  <2>7. <<k, next>> \in P
    BY <2>5, <2>6
  <2> QED BY <2>7 DEF next, i
<1> HIDE DEF P
<1>5. <<Len(q), done>> \in P
  BY <1>1, <1>3, <1>4, SweepInduction DEF q
<1>6. Seen(Len(q), done)
  BY <1>5 DEF P
<1> QED BY <1>6

\* A call of the client that turns the book b into done.book, with the reports it
\* returns.
CallSound(b, ord, times, done) ==
    /\ done = [book |-> done.book, reports |-> done.reports]
    /\ done.reports \in Seq(ReportType)
    /\ BookSound(done.book, ord)
    /\ ToSet(done.book.queue) \subseteq ToSet(b.queue)
    /\ Outcome(b, ord, done.book, done.reports)
    /\ \A k \in DOMAIN done.reports : done.reports[k].at \in times

LEMMA DropFinishedProperties ==
    ASSUME NEW book \in BookType
    PROVE  /\ DropFinished(book) \in BookType
           /\ IsInjective(book.queue) => IsInjective(DropFinished(book).queue)
           /\ ToSet(DropFinished(book).queue) = ToSet(book.queue) \cap Active(book)
           /\ Active(DropFinished(book)) = Active(book)
           /\ \A i \in Active(book) : DropFinished(book).filled[i] = book.filled[i]
<1> DEFINE d == DropFinished(book)
<1> DEFINE s == [i \in OrderIds |-> IF i \in Active(book) THEN book.status[i] ELSE Absent]
           f == [i \in OrderIds |-> IF i \in Active(book) THEN book.filled[i] ELSE 0]
           q == Only(book.queue, Active(book))
<1>0. d = [book EXCEPT !.status = s, !.filled = f, !.queue = q]
  BY DEF DropFinished
<1>1. d.status = s /\ d.filled = f /\ d.queue = q
  <2> HIDE DEF s, f, q, d
  <2> QED BY <1>0 DEF BookType
<1>2. /\ d.queue \in Seq(OrderIds \cap Active(book))
      /\ IsInjective(book.queue) => IsInjective(d.queue)
      /\ ToSet(d.queue) = ToSet(book.queue) \cap Active(book)
  <2>1. book.queue \in Seq(OrderIds)
    BY DEF BookType
  <2>2. d.queue = Only(book.queue, Active(book))
    BY <1>1
  <2> HIDE DEF d
  <2>3. /\ Only(book.queue, Active(book)) \in Seq(OrderIds \cap Active(book))
        /\ \A x, y \in DOMAIN Only(book.queue, Active(book)) :
              IsInjective(book.queue)
                 /\ Only(book.queue, Active(book))[x] = Only(book.queue, Active(book))[y] => x = y
        /\ ToSet(Only(book.queue, Active(book))) = ToSet(book.queue) \cap Active(book)
    BY <2>1, OnlyProperties DEF IsInjective
  <2> QED BY <2>2, <2>3 DEF IsInjective
<1> HIDE DEF d
<1>3. d.queue \in Seq(OrderIds)
  BY <1>2
<1>4. d.status \in [OrderIds -> Status \cup {Absent}] /\ d.filled \in [OrderIds -> Nat]
  BY <1>1 DEF BookType
<1>5. d \in BookType
  <2> HIDE DEF s, f, q
  <2> QED BY <1>0, <1>1, <1>3, <1>4 DEF BookType
<1>6. Active(d) = Active(book) /\ \A i \in Active(book) : d.filled[i] = book.filled[i]
  BY <1>1, StatusFacts DEF Active, Live, Absent
<1> QED BY <1>2, <1>5, <1>6 DEF d

\* The cleanup at the end of a match.
LEMMA DropFinishedSound ==
    ASSUME NEW b, NEW ord, BookSound(b, ord), NEW times, NEW acc, MatchSound(b, ord, times, acc),
           NEW done, done = Cleaned(acc)
    PROVE  CallSound(b, ord, times, done)
<1>1. acc.book \in BookType /\ acc.reports \in Seq(ReportType)
  BY DEF MatchSound, AccType
<1>2. done = [book |-> DropFinished(acc.book), reports |-> acc.reports]
  BY DEF MatchSound, AccType, Cleaned
<1> DEFINE d == DropFinished(acc.book)
<1>3. /\ d \in BookType /\ IsInjective(d.queue)
      /\ ToSet(d.queue) = ToSet(b.queue) \cap Active(acc.book)
      /\ Active(d) = Active(acc.book)
      /\ \A i \in Active(d) : d.filled[i] = acc.book.filled[i]
  BY <1>1, DropFinishedProperties DEF MatchSound, BookSound
<1> HIDE DEF d
<1>4. Outcome(b, ord, acc.book, acc.reports)
  BY DEF MatchSound
<1>5. \A i \in Active(d) : /\ i \in Active(b) /\ d.filled[i] < ord[i].qty
                           /\ ord[i] \in Order /\ i \in ToSet(d.queue)
  BY <1>3, <1>4 DEF Outcome, BookSound
<1>6. \A k \in DOMAIN acc.reports : Genuine(b, ord, d, acc.reports[k])
  <2> TAKE k \in DOMAIN acc.reports
  <2> DEFINE r == acc.reports[k]
  <2>1. Genuine(b, ord, acc.book, r)
    BY <1>4 DEF Outcome
  <2> QED BY <2>1, <1>3 DEF Genuine
<1>7. BookSound(d, ord)
  BY <1>3, <1>5 DEF BookSound
<1>8. \A i \in OrderIds : ~Reported(acc.reports, i) =>
          /\ i \in Active(d) => d.filled[i] = b.filled[i]
          /\ "vanish" \notin Verdicts /\ i \in Active(b) => i \in Active(d)
  BY <1>3, <1>4 DEF Outcome
<1>9. Outcome(b, ord, d, acc.reports)
  BY <1>4, <1>5, <1>6, <1>8 DEF Outcome
<1>10. done.book = d /\ done.reports = acc.reports
  BY <1>2 DEF d
<1> QED BY <1>1, <1>2, <1>3, <1>7, <1>9, <1>10 DEF CallSound, MatchSound

\* No order can trade on two events of the sequence: it holds one event, or bars of
\* different symbols.
OneChance(ord, events, priced) ==
    \A i \in OrderIds, x, y \in DOMAIN events :
        CanTrade(ord[i], events[x], priced) /\ CanTrade(ord[i], events[y], priced) => x = y

\* All events of a call.
LEMMA MatchWithEventsSound ==
    ASSUME NEW b, NEW ord, BookSound(b, ord), NEW times,
           NEW events \in Seq(EventType), \A x \in DOMAIN events : events[x].ts \in times,
           NEW now, NEW priced, NEW wanted, NEW defer, NEW verdict,
           OneChance(ord, events, priced),
           \A i \in Active(b) \cap wanted, x \in DOMAIN events :
               CanTrade(ord[i], events[x], priced)
                 => verdict[i] \in Outcomes(b, ord[i], i, events[x]),
           NEW done,
           done = MatchWithEvents(b, ord, events, now, priced, wanted, defer, verdict)
    PROVE  CallSound(b, ord, times, done)
<1> DEFINE acc0 == [book |-> b, reports |-> <<>>]
           Seen(k, a) == /\ MatchSound(b, ord, times, a)
                         /\ \A i : Reported(a.reports, i) =>
                               \E x \in 1 .. k : CanTrade(ord[i], events[x], priced)
           P == {x \in (0 .. Len(events)) \X AccType : Seen(x[1], x[2])}
<1>1. DOMAIN events = 1 .. Len(events) /\ Len(events) \in Nat
  OBVIOUS
<1>2. <<0, acc0>> \in P
  <2>1. acc0 \in AccType
    BY DEF AccType, BookSound
  <2>2. Outcome(b, ord, b, <<>>)
    BY DEF Outcome, Reported, BookSound
  <2> QED BY <2>1, <2>2, <1>1 DEF MatchSound, Reported
<1>3. ASSUME NEW k \in 1 .. Len(events), NEW a, <<k - 1, a>> \in P
      PROVE  <<k, MatchEvent(a, ord, events[k], now, priced, wanted, defer, verdict)>> \in P
  <2> DEFINE next == MatchEvent(a, ord, events[k], now, priced, wanted, defer, verdict)
  <2>1. Seen(k - 1, a)
    BY <1>3
  <2>2. events[k] \in EventType /\ events[k].ts \in times /\ k \in DOMAIN events
    BY <1>1
  <2>3. \A i : Reported(a.reports, i) => ~CanTrade(ord[i], events[k], priced)
    <3>1. \A i : Reported(a.reports, i) => i \in OrderIds
      <4>1. a.reports \in Seq(ReportType)
        BY <2>1 DEF MatchSound, AccType
      <4>2. \A l \in DOMAIN a.reports : a.reports[l] \in ReportType
        BY <4>1
      <4> QED BY <4>2 DEF Reported, ReportType
    <3>2. 1 .. k - 1 \subseteq DOMAIN events /\ k \notin 1 .. k - 1
      BY <1>1
    <3> QED BY <3>1, <3>2, <2>1, <2>2 DEF OneChance
  <2>4. \A i \in Active(b) \cap wanted :
            CanTrade(ord[i], events[k], priced) => verdict[i] \in Outcomes(b, ord[i], i, events[k])
    BY <2>2
  <2> HIDE DEF next
  <2>5. /\ MatchSound(b, ord, times, next)
        /\ \A i : Reported(next.reports, i)
                    => Reported(a.reports, i) \/ CanTrade(ord[i], events[k], priced)
    BY <2>1, <2>2, <2>3, <2>4, MatchEventSound DEF next
  <2>6. Seen(k, next)
    <3>1. 1 .. k - 1 \subseteq 1 .. k /\ k \in 1 .. k
      OBVIOUS
    <3> QED BY <3>1, <2>1, <2>5
  <2>7. next \in AccType
    BY <2>5 DEF MatchSound
  <2> HIDE DEF Seen
  <2>8. <<k, next>> \in P
    BY <2>6, <2>7
  <2> QED BY <2>8 DEF next
<1> HIDE DEF P
<1>4. PICK acc : /\ <<Len(events), acc>> \in P
                 /\ done = Cleaned(acc)
  <2>1. \A k \in 1 .. Len(events) : \A a :
            <<k - 1, a>> \in P
              => <<k, MatchEvent(a, ord, events[k], now, priced, wanted, defer, verdict)>> \in P
    BY <1>3
  <2>2. <<0, [book |-> b, reports |-> <<>>]>> \in P
    BY <1>2
  <2>3. \E a : /\ <<Len(events), a>> \in P
               /\ MatchWithEvents(b, ord, events, now, priced, wanted, defer, verdict)
                    = Cleaned(a)
    BY <2>1, <2>2, EventsInduction
  <2> QED BY <2>3
<1>5. MatchSound(b, ord, times, acc)
  BY <1>4 DEF P
<1> QED BY <1>4, <1>5, DropFinishedSound

\* What the choice of the verdicts promises.
LEMMA VerdictsOfProperties ==
    ASSUME NEW book, NEW ord, NEW events, NEW priced, NEW wanted,
           NEW v \in VerdictsOf(book, ord, events, priced, wanted),
           NEW i \in Active(book) \cap wanted, NEW e \in events, CanTrade(ord[i], e, priced)
    PROVE  \E d \in events : /\ CanTrade(ord[i], d, priced)
                             /\ v[i] \in Outcomes(book, ord[i], i, d)
<1> DEFINE Trading(j) == {d \in events : CanTrade(ord[j], d, priced)}
           met == {j \in Active(book) \cap wanted : Trading(j) # {}}
           Of(j) == UNION {Outcomes(book, ord[j], j, d) : d \in Trading(j)}
<1>1. i \in met
  OBVIOUS
<1>2. v[i] \in Of(i)
  <2>1. \A j \in met : v[j] \in Of(j)
    BY DEF VerdictsOf
  <2> QED BY <2>1, <1>1
<1> QED BY <1>2

\* A call sees a book through its orders and its queue.
LEMMA CallFrom ==
    ASSUME NEW b, NEW c, NEW ord, NEW times, NEW done, CallSound(c, ord, times, done),
           c.status = b.status, c.filled = b.filled, c.queue = b.queue
    PROVE  CallSound(b, ord, times, done)
BY DEF CallSound, Outcome, Genuine, Active

LEMMA SliceSound ==
    ASSUME NEW book, NEW ord, BookSound(book, ord), NEW now \in Nat,
           NEW c, c \in {PrepareSlice(book, now), ClearSlice(book)}
    PROVE  /\ BookSound(c, ord)
           /\ c.status = book.status /\ c.filled = book.filled /\ c.queue = book.queue
<1>1. /\ c \in BookType
      /\ c.status = book.status /\ c.filled = book.filled /\ c.queue = book.queue
  <2>1. book \in BookType
    BY DEF BookSound
  <2>2. ASSUME NEW t \in Nat, c = [book EXCEPT !.slice = t, !.attempted = {}, !.deferred = {}]
        PROVE  /\ c \in BookType
               /\ c.status = book.status /\ c.filled = book.filled /\ c.queue = book.queue
    BY <2>1, <2>2 DEF BookType
  <2> QED BY <2>1, <2>2 DEF PrepareSlice, ClearSlice
<1> QED BY <1>1 DEF BookSound, Active

\* What Only keeps of a sequence without repetition has none.
LEMMA OnlyInjective ==
    ASSUME NEW T, NEW q, q \in Seq(T), IsInjective(q), NEW S
    PROVE  /\ Only(q, S) \in Seq(T \cap S) /\ IsInjective(Only(q, S))
           /\ ToSet(Only(q, S)) = ToSet(q) \cap S
<1>1. \A x, y \in DOMAIN q : q[x] = q[y] => x = y
  BY DEF IsInjective
<1>2. /\ Only(q, S) \in Seq(T \cap S)
      /\ \A a, b \in DOMAIN Only(q, S) : Only(q, S)[a] = Only(q, S)[b] => a = b
      /\ ToSet(Only(q, S)) = ToSet(q) \cap S
  BY <1>1, OnlyProperties
<1> QED BY <1>2 DEF IsInjective

\* on_event, in and outside trading hours.
\* A call with one event, at whose time every trade is made.
EventSound(b, ord, event, done) ==
    /\ CallSound(b, ord, Nat, done)
    /\ \A k \in DOMAIN done.reports : done.reports[k].trade > 0 => done.reports[k].at = event.ts

LEMMA OnEventSound ==
    ASSUME NEW book, NEW ord, BookSound(book, ord), NEW event \in EventType, NEW now \in Nat,
           NEW session, NEW priced, NEW v \in VerdictsOf(book, ord, {event}, priced, OrderIds),
           NEW done, done = OnEvent(book, ord, event, now, session, priced, v)
    PROVE  EventSound(book, ord, event, done)
<1> DEFINE sliced == PrepareSlice(book, now)
           closing == ClosingOrders(book, ord)
           expired == [sliced EXCEPT !.status =
                         [i \in OrderIds |-> IF i \in closing THEN "Expired" ELSE @[i]]]
<1>1. /\ BookSound(sliced, ord) /\ sliced.status = book.status
      /\ sliced.filled = book.filled /\ sliced.queue = book.queue
  <2> HIDE DEF sliced
  <2>1. sliced \in {PrepareSlice(book, now), ClearSlice(book)}
    BY DEF sliced
  <2> QED BY <2>1, SliceSound
<1>2. Active(sliced) = Active(book)
  BY <1>1 DEF Active
<1> HIDE DEF sliced
<1>3. CASE session \notin Resting
  <2>1. done = MatchWithEvents(sliced, ord, <<event>>, now, priced, OrderIds, TRUE, v)
    <3> HIDE DEF closing, expired
    <3> DEFINE matched == MatchWithEvents(sliced, ord, <<event>>, now, priced, OrderIds, TRUE, v)
               rested == [book |-> DropFinished(expired), reports |-> ClosingReports(book, ord, event)]
               idle == [book |-> sliced, reports |-> <<>>]
    <3>1. done = CASE session \notin Resting -> matched
                   [] session = "Closed" -> rested
                   [] OTHER -> idle
      BY Zenon DEF OnEvent, sliced, expired, closing
    <3>2. session # "Closed"
      BY <1>3 DEF Resting
    <3> HIDE DEF matched, rested, idle
    <3>3. done = matched
      BY <1>3, <3>1, <3>2
    <3> QED BY <3>3 DEF matched
  <2>2. OneChance(ord, <<event>>, priced) /\ <<event>> \in Seq(EventType)
          /\ \A x \in DOMAIN <<event>> : <<event>>[x].ts \in {event.ts}
    BY DEF OneChance, EventType
  <2>3. \A i \in Active(sliced) \cap OrderIds, x \in DOMAIN <<event>> :
           CanTrade(ord[i], <<event>>[x], priced)
             => v[i] \in Outcomes(sliced, ord[i], i, <<event>>[x])
    <3>1. \A i \in Active(book) \cap OrderIds :
             CanTrade(ord[i], event, priced) => v[i] \in Outcomes(book, ord[i], i, event)
      BY VerdictsOfProperties
    <3> QED BY <3>1, <1>1, <1>2 DEF Outcomes
  <2>4. CallSound(sliced, ord, {event.ts}, done)
    BY <2>1, <2>2, <2>3, <1>1, MatchWithEventsSound
  <2>5. \A k \in DOMAIN done.reports : done.reports[k].at = event.ts
    BY <2>4 DEF CallSound
  <2>6. CallSound(sliced, ord, Nat, done)
    BY <2>4, <2>5 DEF CallSound, EventType
  <2> QED BY <2>5, <2>6, <1>1, CallFrom DEF EventSound
<1>4. CASE session = "Closed"
  <2> DEFINE ids == Only(book.queue, closing)
             at == IF event.kind = "Bar" THEN event.ts ELSE 0
             R == [k \in DOMAIN ids |-> Report(ids[k], "Expired", book.filled[ids[k]], 0, at)]
             d == DropFinished(expired)
  <2>1. done = [book |-> d, reports |-> R]
    BY <1>4 DEF OnEvent, ClosingReports, sliced, Resting
  <2>2. expired \in BookType /\ expired.queue = book.queue
          /\ expired.status = [i \in OrderIds |-> IF i \in closing THEN "Expired"
                                                  ELSE book.status[i]]
          /\ expired.filled = book.filled
    <3>1. sliced \in BookType /\ book \in BookType
      BY <1>1 DEF BookSound
    <3>2. [i \in OrderIds |-> IF i \in closing THEN "Expired" ELSE book.status[i]]
             \in [OrderIds -> Status \cup {Absent}]
      BY <3>1, StatusFacts DEF BookType
    <3> HIDE DEF closing
    <3> QED BY <3>1, <3>2, <1>1 DEF BookType
  <2>3. closing \subseteq Active(book) /\ closing \subseteq ToSet(book.queue)
          /\ closing \subseteq OrderIds
    BY DEF ClosingOrders, BookSound, Active
  <2> HIDE DEF expired, closing
  <2>4. Active(expired) = Active(book) \ closing
    BY <2>2, StatusFacts DEF Active
  <2>5. /\ d \in BookType /\ IsInjective(d.queue)
        /\ ToSet(d.queue) = ToSet(book.queue) \cap Active(expired)
        /\ Active(d) = Active(expired)
        /\ \A i \in Active(d) : d.filled[i] = book.filled[i]
    BY <2>2, DropFinishedProperties DEF BookSound
  <2>6. BookSound(d, ord)
    BY <2>4, <2>5 DEF BookSound
  <2>7. /\ ids \in Seq(OrderIds \cap closing) /\ IsInjective(ids)
        /\ ToSet(ids) = closing
    <3>1. book.queue \in Seq(OrderIds) /\ IsInjective(book.queue)
      BY DEF BookSound, BookType
    <3>2. /\ Only(book.queue, closing) \in Seq(OrderIds \cap closing)
          /\ IsInjective(Only(book.queue, closing))
          /\ ToSet(Only(book.queue, closing)) = ToSet(book.queue) \cap closing
      BY <3>1, OnlyInjective
    <3> QED BY <3>2, <2>3
  <2> HIDE DEF ids, d
  <2>8. DOMAIN ids = 1 .. Len(ids) /\ \A k \in DOMAIN ids : ids[k] \in closing
    BY <2>7
  <2>9. at \in Nat
    BY DEF EventType
  <2> HIDE DEF at
  <2>10. /\ DOMAIN R = DOMAIN ids
         /\ \A k \in DOMAIN R :
               /\ R[k] \in ReportType /\ R[k].id = ids[k] /\ R[k].status = "Expired"
               /\ R[k].filled = book.filled[ids[k]] /\ R[k].trade = 0 /\ R[k].at = at
    <3>1. \A k \in DOMAIN ids : book.filled[ids[k]] \in Nat
      BY <2>3, <2>8 DEF BookSound, BookType
    <3> QED BY <3>1, <2>3, <2>8, <2>9, StatusFacts DEF Report, ReportType
  <2> HIDE DEF R
  <2>11. R \in Seq(ReportType)
    <3>1. R = [k \in 1 .. Len(ids) |-> R[k]]
      BY <2>8, <2>10 DEF R
    <3>2. Len(ids) \in Nat
      BY <2>7
    <3> QED BY <3>1, <3>2, <2>8, <2>10
  <2>12. Outcome(book, ord, d, R)
    <3>1. \A k, l \in DOMAIN R : R[k].id = R[l].id => k = l
      BY <2>7, <2>10 DEF IsInjective
    <3>2. \A k \in DOMAIN R : Genuine(book, ord, d, R[k])
      BY <2>3, <2>4, <2>5, <2>8, <2>10, StatusFacts DEF Genuine
    <3>3. \A i \in closing : Reported(R, i)
      BY <2>7, <2>10 DEF Reported, ToSet
    <3> QED BY <3>1, <3>2, <3>3, <2>4, <2>5, <2>6 DEF Outcome, BookSound
  <2> QED BY <2>1, <2>5, <2>6, <2>9, <2>10, <2>11, <2>12 DEF CallSound, EventSound
<1>5. CASE session \in Resting /\ session # "Closed"
  <2>1. done = [book |-> sliced, reports |-> <<>>]
    BY <1>5 DEF OnEvent, sliced
  <2>2. Outcome(book, ord, sliced, <<>>)
    BY <1>1, <1>2 DEF Outcome, Reported, BookSound
  <2> QED BY <2>1, <2>2, <1>1 DEF CallSound, EventSound
<1> QED BY <1>3, <1>4, <1>5

\* The bars of a slice: one of each symbol.
BarsSound(bars, ts) ==
    /\ IsFiniteSet(bars)
    /\ \A e \in bars : e \in EventType /\ e.kind = "Bar" /\ e.ts = ts
    /\ \A d, e \in bars : d.sym = e.sym => d = e

LEMMA FinalizeEventsProperties ==
    ASSUME NEW book, NEW ord, NEW ts, NEW bars, BarsSound(bars, ts), NEW priced
    PROVE  /\ FinalizeEvents(book, ord, bars, ts) \in Seq(bars)
           /\ OneChance(ord, FinalizeEvents(book, ord, bars, ts), priced)
<1> DEFINE reduce == {ord[i].sym : i \in {j \in Active(book) :
                        ord[j].created = ts /\ ord[j].offset = 0 /\ ReduceFirst(ord[j])}}
           traded == {e.sym : e \in bars}
           first == Ascending(traded \cap reduce)
           last == Ascending(traded \ reduce)
           syms == first \o last
           bar == [k \in DOMAIN syms |-> CHOOSE e \in bars : e.sym = syms[k]]
<1>1. FinalizeEvents(book, ord, bars, ts) = bar
  BY DEF FinalizeEvents
<1> HIDE DEF reduce
<1>2. traded \in SUBSET Nat /\ IsFiniteSet(traded)
  <2>1. traded \in SUBSET Nat
    BY DEF BarsSound, EventType
  <2> DEFINE sym == [e \in bars |-> e.sym]
  <2>2. sym \in Surjection(bars, traded)
    BY DEF Surjection
  <2> QED BY <2>1, <2>2, FS_Surjection DEF BarsSound
<1>3. /\ traded \cap reduce \in SUBSET Nat /\ IsFiniteSet(traded \cap reduce)
      /\ traded \ reduce \in SUBSET Nat /\ IsFiniteSet(traded \ reduce)
  BY <1>2, FS_Subset
<1> HIDE DEF traded
<1>4. /\ first \in Seq(traded \cap reduce) /\ last \in Seq(traded \ reduce)
      /\ IsInjective(first) /\ IsInjective(last)
  BY <1>3, AscendingProperties DEF IsInjective
<1> HIDE DEF first, last
<1>5. syms \in Seq(traded) /\ IsInjective(syms)
  <2>1. /\ first \in Seq(traded) /\ last \in Seq(traded)
        /\ \A k \in DOMAIN first : first[k] \in reduce
        /\ \A k \in DOMAIN last : last[k] \notin reduce
    BY <1>4
  <2>2. SUFFICES ASSUME NEW x \in DOMAIN syms, NEW y \in DOMAIN syms, syms[x] = syms[y]
                 PROVE  x = y
    BY <2>1 DEF IsInjective
  <2>3. /\ x \in Nat /\ y \in Nat /\ Len(first) \in Nat
        /\ x <= Len(first) => x \in DOMAIN first /\ syms[x] = first[x]
        /\ x > Len(first) => x - Len(first) \in DOMAIN last /\ syms[x] = last[x - Len(first)]
        /\ y <= Len(first) => y \in DOMAIN first /\ syms[y] = first[y]
        /\ y > Len(first) => y - Len(first) \in DOMAIN last /\ syms[y] = last[y - Len(first)]
    BY <2>1
  <2>4. CASE x <= Len(first) /\ y <= Len(first)
    BY <2>2, <2>3, <2>4, <1>4 DEF IsInjective
  <2>5. CASE x > Len(first) /\ y > Len(first)
    <3>1. x - Len(first) = y - Len(first)
      BY <2>2, <2>3, <2>5, <1>4 DEF IsInjective
    <3> QED BY <3>1, <2>3
  <2>6. CASE (x <= Len(first)) # (y <= Len(first))
    BY <2>1, <2>2, <2>3, <2>6
  <2> QED BY <2>3, <2>4, <2>5, <2>6
<1> HIDE DEF syms
<1>6. \A k \in DOMAIN syms : bar[k] \in bars /\ bar[k].sym = syms[k]
  <2>1. \A k \in DOMAIN syms : \E e \in bars : e.sym = syms[k]
    BY <1>5 DEF traded
  <2> QED BY <2>1
<1>7. DOMAIN syms = 1 .. Len(syms) /\ Len(syms) \in Nat /\ DOMAIN bar = DOMAIN syms
  BY <1>5
<1>8. bar \in Seq(bars)
  <2>1. bar = [k \in 1 .. Len(syms) |-> bar[k]]
    BY <1>7
  <2> HIDE DEF bar
  <2> QED BY <2>1, <1>6, <1>7
<1> HIDE DEF bar
<1>9. ASSUME NEW i \in OrderIds, NEW x \in DOMAIN bar, NEW y \in DOMAIN bar,
             CanTrade(ord[i], bar[x], priced), CanTrade(ord[i], bar[y], priced)
      PROVE  x = y
  <2>1. bar[x].sym = bar[y].sym
    BY <1>6, <1>7, <1>9 DEF BarsSound, CanTrade
  <2> QED BY <2>1, <1>5, <1>6, <1>7 DEF IsInjective
<1> QED BY <1>1, <1>8, <1>9 DEF OneChance

\* finalize_timestamp with the bars of the slice it closes.
LEMMA FinalizeTimestampSound ==
    ASSUME NEW book, NEW ord, BookSound(book, ord), NEW ts \in Nat, NEW bars,
           BarsSound(bars, ts), bars # {}, NEW priced,
           NEW v \in VerdictsOf(book, ord, bars, priced,
                                ToFinalize(PrepareSlice(book, ts), ord, ts)),
           NEW done, done = FinalizeTimestamp(book, ord, bars, ts, priced, v)
    PROVE  CallSound(book, ord, {ts}, done)
<1> DEFINE sliced == PrepareSlice(book, ts)
           events == FinalizeEvents(sliced, ord, bars, ts)
           wanted == ToFinalize(sliced, ord, ts)
           mid == MatchWithEvents(sliced, ord, events, ts, priced, wanted, FALSE, v)
<1>1. /\ BookSound(sliced, ord) /\ sliced.status = book.status
      /\ sliced.filled = book.filled /\ sliced.queue = book.queue
  <2> HIDE DEF sliced
  <2>1. sliced \in {PrepareSlice(book, ts), ClearSlice(book)}
    BY DEF sliced
  <2> QED BY <2>1, SliceSound
<1>2. done = [mid EXCEPT !.book = ClearSlice(@)]
  BY DEF FinalizeTimestamp
<1> HIDE DEF sliced, mid
<1>3. /\ events \in Seq(bars) /\ OneChance(ord, events, priced)
  BY FinalizeEventsProperties
<1> HIDE DEF events
<1>4. /\ events \in Seq(EventType) /\ \A x \in DOMAIN events : events[x].ts \in {ts}
      /\ \A x \in DOMAIN events : events[x] \in bars
  <2>1. \A x \in DOMAIN events : events[x] \in bars
    BY <1>3
  <2>2. bars \subseteq EventType
    BY DEF BarsSound
  <2> QED BY <2>1, <2>2, <1>3 DEF BarsSound
<1>5. ASSUME NEW i \in Active(sliced) \cap wanted, NEW x \in DOMAIN events,
             CanTrade(ord[i], events[x], priced)
      PROVE  v[i] \in Outcomes(sliced, ord[i], i, events[x])
  <2>1. i \in Active(book) \cap wanted
    BY <1>1 DEF Active
  <2>2. PICK e \in bars : /\ CanTrade(ord[i], e, priced)
                          /\ v[i] \in Outcomes(book, ord[i], i, e)
    BY <2>1, <1>4, <1>5, VerdictsOfProperties DEF sliced
  <2>3. e.sym = events[x].sym
    BY <2>2, <1>4, <1>5 DEF BarsSound, CanTrade
  <2>4. e = events[x]
    BY <2>3, <1>4 DEF BarsSound
  <2> QED BY <2>2, <2>4, <1>1 DEF Outcomes
<1> HIDE DEF wanted
<1>6. CallSound(sliced, ord, {ts}, mid)
  BY <1>1, <1>3, <1>4, <1>5, MatchWithEventsSound DEF mid
<1>7. CallSound(book, ord, {ts}, mid)
  BY <1>6, <1>1, CallFrom
<1>8. done = [book |-> ClearSlice(mid.book), reports |-> mid.reports]
  BY <1>2, <1>7 DEF CallSound
<1> DEFINE c == ClearSlice(mid.book)
<1>9. /\ BookSound(c, ord) /\ c.status = mid.book.status
      /\ c.filled = mid.book.filled /\ c.queue = mid.book.queue
  <2> HIDE DEF c
  <2>1. c \in {PrepareSlice(mid.book, ts), ClearSlice(mid.book)}
    BY DEF c
  <2> QED BY <2>1, <1>7, SliceSound DEF CallSound
<1> HIDE DEF c
<1>10. Outcome(book, ord, c, mid.reports)
  BY <1>7, <1>9, OutcomeMarks DEF CallSound
<1>11. done.book = c /\ done.reports = mid.reports
  BY <1>8 DEF c
<1> QED BY <1>7, <1>8, <1>9, <1>10, <1>11 DEF CallSound
-----------------------------------------------------------------------------
(***************************************************************************)
(* What a match leaves untouched: whom it serves, whom it marks.           *)
(***************************************************************************)

\* Accumulators of a match, whatever the quantities of its reports.
LooseReport == [kind : {"Report"}, id : OrderIds, status : Status,
                filled : Nat, trade : Int, at : Nat]
LooseAcc == [book : BookType, reports : Seq(LooseReport)]

\* From the book b to the book c, by events that show bars of the symbols S: no
\* order starts to work or loses its fills, what was deferred stays so, and only
\* working orders of these symbols are marked.
Passed(b, c, ord, S) ==
    /\ c.slice = b.slice
    /\ b.deferred \subseteq c.deferred
    /\ \A i \in c.deferred \cup c.attempted :
          i \in b.deferred \cup b.attempted \/ (i \in Active(b) /\ ord[i].sym \in S)
    /\ \A i \in Active(c) : i \in Active(b) /\ (b.filled[i] > 0 => c.filled[i] > 0)

\* The symbol whose bar the event shows.
BarSymbol(event) == IF event.kind = "Bar" THEN {event.sym} ELSE {}

\* The order was served: it works no more, or it traded, or it is deferred to the
\* end of the slice.
Served(c, i, defer) == i \notin Active(c) \/ c.filled[i] > 0 \/ (defer /\ i \in c.deferred)

\* The event is a traded bar of the order's symbol, which has no price to meet.
Meets(o, event) == /\ event.kind = "Bar" /\ event.sym = o.sym /\ event.traded
                   /\ ~o.cond /\ ~TooEarly(o, event)

\* Verdicts of a match.
Results == {"none", "cancel", "fill", "part", "cut", "vanish", "unaffordable"}
Trades(o, v) == v \in Results /\ (~o.cond => v \notin {"none", "cancel"})

SameQueue(b, c) == c.queue = b.queue

LEMMA OutcomesTrade ==
    ASSUME NEW book, NEW o, NEW i, NEW event, NEW v \in Outcomes(book, o, i, event)
    PROVE  Trades(o, v)
BY VerdictsAssumption DEF Outcomes, Trades, Results

LEMMA PassedOn ==
    ASSUME NEW b, NEW c, NEW d, NEW ord, NEW S, NEW T, S \subseteq T,
           Passed(b, c, ord, S), Passed(c, d, ord, T)
    PROVE  Passed(b, d, ord, T)
BY DEF Passed

LEMMA ServedOn ==
    ASSUME NEW b, NEW c, NEW ord, NEW S, Passed(b, c, ord, S), NEW i, NEW defer,
           Served(b, i, defer)
    PROVE  Served(c, i, defer)
BY DEF Passed, Served

\* The matcher's result, with the slice's marks as they are.
LEMMA MatchedPasses ==
    ASSUME NEW acc \in LooseAcc, NEW o \in Order, NEW i \in OrderIds, NEW event \in EventType,
           NEW v, Trades(o, v), NEW ord, NEW S, i \in Active(acc.book),
           NEW done, done = Matched(acc, o, i, event, v)
    PROVE  /\ done \in LooseAcc /\ done.book.queue = acc.book.queue
           /\ Passed(acc.book, done.book, ord, S)
           /\ ~o.cond => i \notin Active(done.book) \/ done.book.filled[i] > 0
<1> DEFINE b == acc.book
           f == b.filled[i]
           left == o.qty - f
           To(status, filled) == [b EXCEPT !.status[i] = status, !.filled[i] = filled]
           Reported1(status, filled, trade) ==
              [book |-> To(status, filled),
               reports |-> Append(acc.reports, Report(i, status, filled, trade, event.ts))]
           Fine(d) == /\ d \in LooseAcc /\ d.book.queue = b.queue /\ Passed(b, d.book, ord, S)
<1>1. /\ b \in BookType /\ acc.reports \in Seq(LooseReport) /\ f \in Nat
      /\ o.qty \in Nat \ {0} /\ event.ts \in Nat /\ left \in Int
  BY DEF LooseAcc, BookType, Order, EventType
<1>2. ASSUME NEW st \in Status, NEW q \in Nat, f > 0 => q > 0 \/ st \notin Live
      PROVE  /\ To(st, q) \in BookType /\ To(st, q).queue = b.queue
             /\ Passed(b, To(st, q), ord, S)
             /\ i \in Active(To(st, q)) => st \in Live /\ To(st, q).filled[i] = q
  <2> DEFINE c == To(st, q)
  <2>1. c.status = [b.status EXCEPT ![i] = st] /\ c.filled = [b.filled EXCEPT ![i] = q]
        /\ c.queue = b.queue /\ c.slice = b.slice /\ c.attempted = b.attempted
        /\ c.deferred = b.deferred /\ c \in BookType
    BY <1>1 DEF BookType
  <2> HIDE DEF c
  <2>2. \A j \in OrderIds : /\ c.status[j] = IF j = i THEN st ELSE b.status[j]
                            /\ c.filled[j] = IF j = i THEN q ELSE b.filled[j]
    BY <1>1, <2>1 DEF BookType
  <2>3. \A j \in Active(c) : j \in Active(b) /\ (b.filled[j] > 0 => c.filled[j] > 0)
    BY <1>2, <2>2 DEF Active
  <2>4. i \in Active(c) => st \in Live /\ c.filled[i] = q
    BY <2>2 DEF Active
  <2>5. Passed(b, c, ord, S)
    BY <2>1, <2>3 DEF Passed
  <2> QED BY <2>1, <2>4, <2>5 DEF c
<1> HIDE DEF To, b, f, left
<1>3. ASSUME NEW st \in Status, NEW q \in Nat, NEW k \in Int, f > 0 => q > 0 \/ st \notin Live,
             done = Reported1(st, q, k)
      PROVE  Fine(done) /\ (i \in Active(done.book) => st \in Live /\ done.book.filled[i] = q)
  <2> DEFINE c == To(st, q)
             r == Report(i, st, q, k, event.ts)
  <2>1. /\ c \in BookType /\ c.queue = b.queue /\ Passed(b, c, ord, S)
        /\ i \in Active(c) => st \in Live /\ c.filled[i] = q
    BY <1>2, <1>3
  <2>2. r \in LooseReport
    BY <1>1 DEF Report, LooseReport
  <2>3. Append(acc.reports, r) \in Seq(LooseReport)
    BY <1>1, <2>2
  <2>4. done = [book |-> c, reports |-> Append(acc.reports, r)]
    BY <1>3
  <2> HIDE DEF c, r
  <2> QED BY <2>1, <2>3, <2>4 DEF LooseAcc
<1>4. \A st \in {"Filled", "Cancelled", "Expired", "Rejected"} : st \in Status /\ st \notin Live
  BY StatusFacts
<1>5. "PartiallyFilled" \in Status
  BY StatusFacts
<1> HIDE DEF Fine
<1>6. CASE v = "none"
  <2>1. done = acc /\ o.cond
    BY <1>6 DEF Matched, Trades
  <2>2. Fine(acc)
    BY DEF Fine, Passed, b
  <2> QED BY <2>1, <2>2 DEF Fine, b
<1>7. CASE v = "cancel"
  <2>1. done = Reported1("Cancelled", f, 0)
    BY <1>7 DEF Matched, To, b, f
  <2> HIDE DEF Reported1
  <2> QED BY <2>1, <1>1, <1>3, <1>4 DEF Fine, b
<1>8. CASE v = "fill"
  <2>1. done = Reported1("Filled", o.qty, left)
    BY <1>8 DEF Matched, To, b, left, f
  <2> HIDE DEF Reported1
  <2> QED BY <2>1, <1>1, <1>3, <1>4 DEF Fine, b
<1>9. CASE v = "part"
  <2>1. done = Reported1("PartiallyFilled", o.qty - left + 1, 1)
    BY <1>9 DEF Matched, To, b, left, f
  <2>2. o.qty - left + 1 = f + 1 /\ f + 1 \in Nat /\ f + 1 > 0
    BY <1>1 DEF left
  <2>3. done = Reported1("PartiallyFilled", f + 1, 1)
    BY <2>1, <2>2
  <2> HIDE DEF Reported1
  <2> QED BY <2>2, <2>3, <1>1, <1>3, <1>5 DEF Fine, b
<1>10. CASE v = "cut"
  <2>1. done = Reported1("Filled", o.qty, left - 1)
    BY <1>10 DEF Matched, To, b, left, f
  <2> HIDE DEF Reported1
  <2> QED BY <2>1, <1>1, <1>3, <1>4 DEF Fine, b
<1>11. CASE v = "vanish"
  <2>1. done = [acc EXCEPT !.book = To("Filled", o.qty)]
    BY <1>11 DEF Matched, To, b
  <2>2. /\ To("Filled", o.qty) \in BookType /\ To("Filled", o.qty).queue = b.queue
        /\ Passed(b, To("Filled", o.qty), ord, S) /\ i \notin Active(To("Filled", o.qty))
    BY <1>1, <1>2, <1>4
  <2>3. done.book = To("Filled", o.qty) /\ done \in LooseAcc
    BY <2>1, <2>2 DEF LooseAcc
  <2> QED BY <2>2, <2>3 DEF Fine, b
<1>12. CASE v = "unaffordable"
  <2>1. done = Reported1("Rejected", 0, 0)
    BY <1>12 DEF Matched, To, b
  <2> HIDE DEF Reported1
  <2> QED BY <2>1, <1>1, <1>3, <1>4 DEF Fine, b
<1>13. v \in Results
  BY DEF Trades
<1> QED BY <1>6, <1>7, <1>8, <1>9, <1>10, <1>11, <1>12, <1>13 DEF Results

\* One order of the queue.
LEMMA MatchOnePasses ==
    ASSUME NEW acc \in LooseAcc, NEW ord, NEW i \in OrderIds, NEW event \in EventType,
           NEW now, NEW priced, NEW wanted, NEW defer, NEW verdict,
           i \in Active(acc.book) => ord[i] \in Order,
           i \in Active(acc.book) \cap wanted /\ CanTrade(ord[i], event, priced)
             => Trades(ord[i], verdict[i]),
           NEW done, done = MatchOne(acc, ord, i, event, now, priced, wanted, defer, verdict)
    PROVE  /\ done \in LooseAcc /\ SameQueue(acc.book, done.book)
           /\ Passed(acc.book, done.book, ord, BarSymbol(event))
           /\ i \in wanted /\ Meets(ord[i], event) => Served(done.book, i, defer)
<1> USE DEF SameQueue
<1> DEFINE o == ord[i]
           b == acc.book
<1>1. acc.book \in BookType /\ acc = [book |-> acc.book, reports |-> acc.reports]
      /\ acc.reports \in Seq(LooseReport)
  BY DEF LooseAcc
<1>2. CASE i \notin Active(b) \cap wanted \/ TooEarly(o, event)
  <2>1. done = acc
    BY <1>2 DEF MatchOne
  <2>2. Passed(b, b, ord, BarSymbol(event))
    BY DEF Passed
  <2>3. i \in wanted /\ Meets(o, event) => i \notin Active(b)
    BY <1>2 DEF Meets
  <2> QED BY <2>1, <2>2, <2>3 DEF Served
<1>3. CASE /\ ~(i \notin Active(b) \cap wanted \/ TooEarly(o, event))
           /\ defer /\ ShouldDefer(b, ord, i, event, now)
  <2> DEFINE c == [b EXCEPT !.deferred = @ \cup {i}, !.attempted = @ \cup {i}]
  <2>1. done = [acc EXCEPT !.book = c]
    BY <1>1, <1>3 DEF MatchOne, BookType
  <2>2. /\ c \in BookType /\ c.queue = b.queue /\ c.slice = b.slice
        /\ c.status = b.status /\ c.filled = b.filled
        /\ c.deferred = b.deferred \cup {i} /\ c.attempted = b.attempted \cup {i}
    BY <1>1 DEF BookType
  <2> HIDE DEF c
  <2>3. ord[i].sym \in BarSymbol(event) /\ i \in Active(b)
    BY <1>3 DEF ShouldDefer, BarSymbol
  <2> HIDE DEF b
  <2>4. Active(c) = Active(b)
    BY <2>2 DEF Active
  <2>5. Passed(b, c, ord, BarSymbol(event))
    BY <2>2, <2>3, <2>4 DEF Passed
  <2>6. Served(c, i, defer)
    BY <1>3, <2>2 DEF Served
  <2>7. done.book = c /\ done \in LooseAcc
    BY <1>1, <2>1, <2>2 DEF LooseAcc
  <2> QED BY <2>2, <2>5, <2>6, <2>7 DEF b
<1>4. CASE ~(i \notin Active(b) \cap wanted \/ TooEarly(o, event))
             /\ ~(defer /\ ShouldDefer(b, ord, i, event, now))
  <2> DEFINE mark == /\ o.created = now /\ o.offset = 0
                     /\ event.kind = "Bar" /\ event.sym = o.sym
             tried == IF mark THEN [acc EXCEPT !.book.attempted = @ \cup {i}] ELSE acc
             c == IF mark THEN [b EXCEPT !.attempted = @ \cup {i}] ELSE b
  <2>1. tried = [acc EXCEPT !.book = c]
    BY <1>1 DEF BookType
  <2>2. /\ c \in BookType /\ c.queue = b.queue /\ c.slice = b.slice
        /\ c.status = b.status /\ c.filled = b.filled
        /\ c.deferred = b.deferred
        /\ \A j \in c.attempted : j \in b.attempted \/ (j = i /\ mark)
    BY <1>1 DEF BookType
  <2>3. done = IF CanTrade(o, event, priced) THEN Matched(tried, o, i, event, verdict[i])
               ELSE tried
    BY <1>4 DEF MatchOne
  <2>4. mark => ord[i].sym \in BarSymbol(event)
    BY DEF BarSymbol
  <2> HIDE DEF tried, c, mark
  <2>5. tried \in LooseAcc /\ tried.book = c
    BY <1>1, <2>1, <2>2 DEF LooseAcc
  <2>6. Active(c) = Active(b) /\ i \in Active(b)
    BY <1>4, <2>2 DEF Active
  <2>7. Passed(b, c, ord, BarSymbol(event))
    BY <2>2, <2>4, <2>6 DEF Passed
  <2>8. CASE ~CanTrade(o, event, priced)
    <3>1. ~Meets(o, event)
      BY <2>8 DEF Meets, CanTrade
    <3> QED BY <2>2, <2>3, <2>5, <2>7, <2>8, <3>1
  <2>9. CASE CanTrade(o, event, priced)
    <3>1. /\ Trades(o, verdict[i]) /\ i \in Active(tried.book) /\ o \in Order
          /\ done = Matched(tried, o, i, event, verdict[i])
      BY <1>4, <2>3, <2>5, <2>6, <2>9
    <3> HIDE DEF o, b
    <3>2. /\ done \in LooseAcc /\ done.book.queue = tried.book.queue
          /\ Passed(tried.book, done.book, ord, BarSymbol(event))
          /\ ~o.cond => i \notin Active(done.book) \/ done.book.filled[i] > 0
      BY <2>5, <3>1, MatchedPasses
    <3>3. Passed(b, done.book, ord, BarSymbol(event))
      BY <2>5, <2>7, <3>2, PassedOn
    <3>4. i \in wanted /\ Meets(o, event) => Served(done.book, i, defer)
      BY <3>2 DEF Meets, Served
    <3> QED BY <2>2, <2>5, <3>2, <3>3, <3>4 DEF b, o
  <2> QED BY <2>8, <2>9
<1> QED BY <1>2, <1>3, <1>4

\* The sweep visits every order of the queue that buys or sells.
LEMMA SortedQueueCovers ==
    ASSUME NEW book, NEW ord, book.queue \in Seq(OrderIds), NEW i \in ToSet(book.queue),
           ord[i] \in Order
    PROVE  \E k \in 1 .. Len(SortedQueue(book, ord)) : SortedQueue(book, ord)[k] = i
<1> DEFINE Of(side) == {j \in ToSet(book.queue) : ord[j].side = side}
           s == Only(book.queue, Of("Sell"))
           b == Only(book.queue, Of("Buy"))
<1>1. SortedQueue(book, ord) = s \o b
  BY DEF SortedQueue
<1>2. /\ s \in Seq(OrderIds \cap Of("Sell")) /\ ToSet(s) = ToSet(book.queue) \cap Of("Sell")
      /\ b \in Seq(OrderIds \cap Of("Buy")) /\ ToSet(b) = ToSet(book.queue) \cap Of("Buy")
  <2> HIDE DEF Of
  <2> QED BY OnlyProperties
<1>3. i \in ToSet(s) \/ i \in ToSet(b)
  BY <1>2 DEF Order
<1> HIDE DEF Of, s, b
<1>4. s \in Seq(OrderIds) /\ b \in Seq(OrderIds)
  BY <1>2
<1>5. CASE i \in ToSet(s)
  <2>1. PICK k \in DOMAIN s : s[k] = i
    BY <1>5 DEF ToSet
  <2>2. k \in 1 .. Len(s \o b) /\ (s \o b)[k] = s[k]
    BY <1>4
  <2> QED BY <1>1, <2>1, <2>2
<1>6. CASE i \in ToSet(b)
  <2>1. PICK k \in DOMAIN b : b[k] = i
    BY <1>6 DEF ToSet
  <2>2. /\ Len(s) + k \in 1 .. Len(s \o b) /\ Len(s) + k > Len(s)
        /\ (s \o b)[Len(s) + k] = b[Len(s) + k - Len(s)] /\ Len(s) + k - Len(s) = k
    BY <1>4
  <2> QED BY <1>1, <2>1, <2>2
<1> QED BY <1>3, <1>5, <1>6

\* The whole queue for one event: the working orders whose bar it is are served.
LEMMA MatchEventPasses ==
    ASSUME NEW acc \in LooseAcc, NEW ord, NEW event \in EventType,
           NEW now, NEW priced, NEW wanted, NEW defer, NEW verdict,
           \A i \in Active(acc.book) : ord[i] \in Order /\ i \in ToSet(acc.book.queue),
           \A i \in Active(acc.book) \cap wanted :
              CanTrade(ord[i], event, priced) => Trades(ord[i], verdict[i]),
           NEW done, done = MatchEvent(acc, ord, event, now, priced, wanted, defer, verdict)
    PROVE  /\ done \in LooseAcc /\ SameQueue(acc.book, done.book)
           /\ Passed(acc.book, done.book, ord, BarSymbol(event))
           /\ \A i \in Active(acc.book) \cap wanted :
                 Meets(ord[i], event) => Served(done.book, i, defer)
<1> DEFINE q == SortedQueue(acc.book, ord)
           Seen(k, a) == /\ a.book.queue = acc.book.queue
                         /\ Passed(acc.book, a.book, ord, BarSymbol(event))
                         /\ \A p \in 1 .. k : q[p] \in wanted /\ Meets(ord[q[p]], event)
                                                => Served(a.book, q[p], defer)
           P == {x \in (0 .. Len(q)) \X LooseAcc : Seen(x[1], x[2])}
<1>0. acc.book.queue \in Seq(OrderIds) /\ \A i \in Active(acc.book) : i \in OrderIds
  BY DEF LooseAcc, BookType, Active
<1>1. q \in Seq(OrderIds)
  BY <1>0, SortedQueueProperties
<1>2. DOMAIN q = 1 .. Len(q) /\ Len(q) \in Nat /\ \A k \in 1 .. Len(q) : q[k] \in OrderIds
  BY <1>1
<1>3. \A i \in Active(acc.book) : \E k \in 1 .. Len(q) : q[k] = i
  BY <1>0, SortedQueueCovers
<1> HIDE DEF q
<1>4. <<0, acc>> \in P
  <2>1. Passed(acc.book, acc.book, ord, BarSymbol(event))
    BY DEF Passed
  <2>2. 1 .. 0 = {}
    OBVIOUS
  <2> QED BY <1>2, <2>1, <2>2
<1>5. ASSUME NEW k \in 1 .. Len(q), NEW a, <<k - 1, a>> \in P
      PROVE  <<k, MatchOne(a, ord, q[k], event, now, priced, wanted, defer, verdict)>> \in P
  <2> DEFINE i == q[k]
             next == MatchOne(a, ord, i, event, now, priced, wanted, defer, verdict)
  <2>1. Seen(k - 1, a) /\ a \in LooseAcc
    <3> HIDE DEF Seen
    <3> QED BY <1>5
  <2>2. i \in OrderIds
    BY <1>2
  <2>3. i \in Active(a.book) => i \in Active(acc.book)
    BY <2>1 DEF Passed
  <2>4. /\ i \in Active(a.book) => ord[i] \in Order
        /\ i \in Active(a.book) \cap wanted /\ CanTrade(ord[i], event, priced)
             => Trades(ord[i], verdict[i])
    BY <2>3
  <2> HIDE DEF i, next
  <2>5. /\ next \in LooseAcc /\ next.book.queue = a.book.queue
        /\ Passed(a.book, next.book, ord, BarSymbol(event))
        /\ i \in wanted /\ Meets(ord[i], event) => Served(next.book, i, defer)
    <3> HIDE DEF Seen, P
    <3>1. next = MatchOne(a, ord, i, event, now, priced, wanted, defer, verdict) /\ a \in LooseAcc
      BY <2>1 DEF next
    <3>2. i \in OrderIds /\ (i \in Active(a.book) => ord[i] \in Order)
          /\ (i \in Active(a.book) \cap wanted /\ CanTrade(ord[i], event, priced)
             => Trades(ord[i], verdict[i]))
      BY <2>2, <2>4
    <3> HIDE DEF i, q, next
    <3>3. next \in LooseAcc
      BY <3>1, <3>2, MatchOnePasses
    <3>4. next.book.queue = a.book.queue
      <4> DEFINE b == a.book
                 c == next.book
      <4>1. SameQueue(b, c)
        BY <3>1, <3>2, MatchOnePasses
      <4> QED BY <4>1 DEF SameQueue
    <3>5. Passed(a.book, next.book, ord, BarSymbol(event))
      BY <3>1, <3>2, MatchOnePasses
    <3>6. i \in wanted /\ Meets(ord[i], event) => Served(next.book, i, defer)
      BY <3>1, <3>2, MatchOnePasses
    <3> QED BY <3>3, <3>4, <3>5, <3>6
  <2>6. Passed(acc.book, next.book, ord, BarSymbol(event))
    BY <2>1, <2>5, PassedOn
  <2>7. ASSUME NEW p \in 1 .. k, q[p] \in wanted, Meets(ord[q[p]], event)
        PROVE  Served(next.book, q[p], defer)
    <3>1. CASE p = k
      BY <3>1, <2>5, <2>7 DEF i
    <3>2. CASE p # k
      <4>1. p \in 1 .. k - 1
        BY <1>2, <3>2
      <4>2. Served(a.book, q[p], defer)
        BY <4>1, <2>1, <2>7
      <4> QED BY <4>2, <2>5, ServedOn
    <3> QED BY <3>1, <3>2
  <2>8. Seen(k, next)
    BY <2>1, <2>5, <2>6, <2>7
  <2> HIDE DEF Seen
  <2>9. <<k, next>> \in P
    BY <2>5, <2>8
  <2> QED BY <2>9 DEF next, i
<1> HIDE DEF P
<1>6. <<Len(q), done>> \in P
  BY <1>1, <1>4, <1>5, SweepInduction DEF q
<1>7. Seen(Len(q), done) /\ done \in LooseAcc
  <2> HIDE DEF Seen
  <2>1. \A x \in P : Seen(x[1], x[2]) /\ x[2] \in LooseAcc
    BY DEF P
  <2>2. <<Len(q), done>>[1] = Len(q) /\ <<Len(q), done>>[2] = done
    OBVIOUS
  <2> QED BY <1>6, <2>1, <2>2
<1>8. ASSUME NEW i \in Active(acc.book) \cap wanted, Meets(ord[i], event)
      PROVE  Served(done.book, i, defer)
  BY <1>3, <1>7, <1>8
<1> QED BY <1>7, <1>8 DEF SameQueue

\* The cleanup passes.
LEMMA DropFinishedPasses ==
    ASSUME NEW book \in BookType, NEW ord, NEW T
    PROVE  /\ Passed(book, DropFinished(book), ord, T)
           /\ \A i \in OrderIds : \A defer :
                 Served(book, i, defer) => Served(DropFinished(book), i, defer)
<1> DEFINE d == DropFinished(book)
           s == [i \in OrderIds |-> IF i \in Active(book) THEN book.status[i] ELSE Absent]
           f == [i \in OrderIds |-> IF i \in Active(book) THEN book.filled[i] ELSE 0]
           q == Only(book.queue, Active(book))
<1>1. d = [book EXCEPT !.status = s, !.filled = f, !.queue = q]
  BY DEF DropFinished
<1> HIDE DEF s, f, q, d
<1>2. d.slice = book.slice /\ d.deferred = book.deferred /\ d.attempted = book.attempted
  BY <1>1 DEF BookType
<1>3. Active(d) = Active(book) /\ \A i \in Active(book) : d.filled[i] = book.filled[i]
  BY DropFinishedProperties DEF d
<1>4. Passed(book, d, ord, T)
  BY <1>2, <1>3 DEF Passed
<1>5. \A i \in OrderIds : \A defer : Served(book, i, defer) => Served(d, i, defer)
  BY <1>2, <1>3 DEF Served
<1> QED BY <1>4, <1>5 DEF d

\* A result of the client.
Whole(done) == done.book \in BookType /\ done = [book |-> done.book, reports |-> done.reports]

ShowOnly(events, E) == \A x \in DOMAIN events : BarSymbol(events[x]) \subseteq E

\* All events of a call.
LEMMA MatchWithEventsPasses ==
    ASSUME NEW b, NEW ord, BookSound(b, ord), NEW events \in Seq(EventType),
           NEW now, NEW priced, NEW wanted, NEW defer, NEW verdict,
           \A i \in Active(b) \cap wanted, x \in DOMAIN events :
               CanTrade(ord[i], events[x], priced) => Trades(ord[i], verdict[i]),
           NEW E, ShowOnly(events, E),
           NEW done,
           done = MatchWithEvents(b, ord, events, now, priced, wanted, defer, verdict)
    PROVE  /\ Whole(done) /\ Passed(b, done.book, ord, E)
           /\ \A i \in Active(b) \cap wanted, x \in DOMAIN events :
                 Meets(ord[i], events[x]) => Served(done.book, i, defer)
<1> DEFINE acc0 == [book |-> b, reports |-> <<>>]
           Seen(k, a) == /\ a.book.queue = b.queue
                         /\ Passed(b, a.book, ord, E)
                         /\ \A i \in Active(b) \cap wanted, x \in 1 .. k :
                               Meets(ord[i], events[x]) => Served(a.book, i, defer)
           P == {x \in (0 .. Len(events)) \X LooseAcc : Seen(x[1], x[2])}
<1>1. DOMAIN events = 1 .. Len(events) /\ Len(events) \in Nat
  OBVIOUS
<1>2. <<0, acc0>> \in P
  <2>1. acc0 \in LooseAcc
    BY DEF LooseAcc, BookSound
  <2>2. Passed(b, b, ord, E)
    BY DEF Passed
  <2> QED BY <2>1, <2>2, <1>1
<1>3. ASSUME NEW k \in 1 .. Len(events), NEW a, <<k - 1, a>> \in P
      PROVE  <<k, MatchEvent(a, ord, events[k], now, priced, wanted, defer, verdict)>> \in P
  <2> DEFINE e == events[k]
             next == MatchEvent(a, ord, e, now, priced, wanted, defer, verdict)
  <2>1. Seen(k - 1, a) /\ a \in LooseAcc
    <3> HIDE DEF Seen
    <3> QED BY <1>3
  <2>2. e \in EventType /\ k \in DOMAIN events /\ BarSymbol(e) \subseteq E
    BY <1>1 DEF ShowOnly
  <2>3. \A i \in Active(a.book) : i \in Active(b)
    BY <2>1 DEF Passed
  <2>4. \A i \in Active(a.book) : ord[i] \in Order /\ i \in ToSet(a.book.queue)
    BY <2>1, <2>3 DEF BookSound
  <2>5. \A i \in Active(a.book) \cap wanted :
           CanTrade(ord[i], e, priced) => Trades(ord[i], verdict[i])
    BY <2>2, <2>3
  <2> HIDE DEF next, e, P
  <2>6. next = MatchEvent(a, ord, e, now, priced, wanted, defer, verdict) /\ a \in LooseAcc
    BY <2>1 DEF next
  <2>7. /\ next \in LooseAcc /\ next.book.queue = a.book.queue
        /\ Passed(a.book, next.book, ord, BarSymbol(e))
        /\ \A i \in Active(a.book) \cap wanted :
              Meets(ord[i], e) => Served(next.book, i, defer)
    <3> HIDE DEF Seen
    <3>1. next \in LooseAcc
      BY <2>2, <2>4, <2>5, <2>6, MatchEventPasses
    <3>2. SameQueue(a.book, next.book)
      BY <2>2, <2>4, <2>5, <2>6, MatchEventPasses
    <3>3. Passed(a.book, next.book, ord, BarSymbol(e))
      BY <2>2, <2>4, <2>5, <2>6, MatchEventPasses
    <3>4. \A i \in Active(a.book) \cap wanted : Meets(ord[i], e) => Served(next.book, i, defer)
      BY <2>2, <2>4, <2>5, <2>6, MatchEventPasses
    <3> QED BY <3>1, <3>2, <3>3, <3>4 DEF SameQueue
  <2>8. Passed(b, next.book, ord, E)
    <3>1. Passed(a.book, next.book, ord, E)
      BY <2>2, <2>7 DEF Passed
    <3> QED BY <2>1, <3>1, PassedOn
  <2>9. ASSUME NEW i \in Active(b) \cap wanted, NEW x \in 1 .. k, Meets(ord[i], events[x])
        PROVE  Served(next.book, i, defer)
    <3>1. CASE x = k
      <4>1. i \notin Active(a.book) => Served(a.book, i, defer)
        BY DEF Served
      <4> QED BY <3>1, <4>1, <2>7, <2>9, ServedOn DEF e
    <3>2. CASE x # k
      <4>1. x \in 1 .. k - 1
        BY <1>1, <3>2
      <4>2. Served(a.book, i, defer)
        BY <4>1, <2>1, <2>9
      <4> QED BY <4>2, <2>7, ServedOn
    <3> QED BY <3>1, <3>2
  <2>10. Seen(k, next)
    BY <2>1, <2>7, <2>8, <2>9
  <2> HIDE DEF Seen
  <2>11. <<k, next>> \in P
    BY <2>7, <2>10 DEF P
  <2> QED BY <2>11 DEF next, e
<1> HIDE DEF P
<1>4. PICK acc : <<Len(events), acc>> \in P /\ done = Cleaned(acc)
  <2>1. \A k \in 1 .. Len(events) : \A a :
            <<k - 1, a>> \in P
              => <<k, MatchEvent(a, ord, events[k], now, priced, wanted, defer, verdict)>> \in P
    BY <1>3
  <2>2. <<0, [book |-> b, reports |-> <<>>]>> \in P
    BY <1>2
  <2>3. \E a : /\ <<Len(events), a>> \in P
               /\ MatchWithEvents(b, ord, events, now, priced, wanted, defer, verdict)
                    = Cleaned(a)
    <3>1. events \in Seq(EventType)
      OBVIOUS
    <3> HIDE DEF Seen, acc0
    <3>2. \A X : <<0, [book |-> b, reports |-> <<>>]>> \in X /\
        (\A k \in 1 .. Len(events) : \A a :
            <<k - 1, a>> \in X
              => <<k, MatchEvent(a, ord, events[k], now, priced, wanted, defer, verdict)>> \in X) =>
         \E a : /\ <<Len(events), a>> \in X
               /\ MatchWithEvents(b, ord, events, now, priced, wanted, defer, verdict)
                    = Cleaned(a)
      BY <3>1, EventsInduction
    <3> QED BY <2>1, <2>2, <3>2
  <2> QED BY <2>3
<1>5. Seen(Len(events), acc) /\ acc \in LooseAcc
  <2> HIDE DEF Seen
  <2>1. \A x \in P : Seen(x[1], x[2]) /\ x[2] \in LooseAcc
    BY DEF P
  <2>2. <<Len(events), acc>>[1] = Len(events) /\ <<Len(events), acc>>[2] = acc
    OBVIOUS
  <2> QED BY <1>4, <2>1, <2>2
<1>6. /\ done = [book |-> DropFinished(acc.book), reports |-> acc.reports]
      /\ acc.book \in BookType /\ DropFinished(acc.book) \in BookType
  <2>1. acc.book \in BookType /\ done = [book |-> DropFinished(acc.book), reports |-> acc.reports]
    BY <1>4, <1>5 DEF Cleaned, LooseAcc
  <2> QED BY <2>1, DropFinishedProperties
<1>7. Passed(b, done.book, ord, E)
  <2>1. Passed(acc.book, done.book, ord, E)
    BY <1>6, DropFinishedPasses
  <2> QED BY <2>1, <1>5, PassedOn
<1>8. ASSUME NEW i \in Active(b) \cap wanted, NEW x \in DOMAIN events, Meets(ord[i], events[x])
      PROVE  Served(done.book, i, defer)
  <2>1. Served(acc.book, i, defer)
    BY <1>1, <1>5, <1>8
  <2>2. i \in OrderIds
    BY DEF Active
  <2> QED BY <1>6, <2>1, <2>2, DropFinishedPasses
<1>9. Whole(done)
  BY <1>6 DEF Whole
<1> QED BY <1>7, <1>8, <1>9

\* What prepares or clears the slice keeps the orders.
LEMMA SlicePasses ==
    ASSUME NEW book \in BookType, NEW now \in Nat
    PROVE  /\ PrepareSlice(book, now).slice = now
           /\ PrepareSlice(book, now).deferred = IF book.slice = now THEN book.deferred ELSE {}
           /\ PrepareSlice(book, now).attempted = IF book.slice = now THEN book.attempted ELSE {}
           /\ ClearSlice(book).deferred = {} /\ ClearSlice(book).attempted = {}
BY DEF PrepareSlice, ClearSlice, BookType

\* on_event: the marks of its slice go on, and in trading hours a working order
\* whose bar it is gets served.
LEMMA OnEventPasses ==
    ASSUME NEW book, NEW ord, BookSound(book, ord), NEW event \in EventType, NEW now \in Nat,
           NEW session, NEW priced, NEW v \in VerdictsOf(book, ord, {event}, priced, OrderIds),
           NEW done, done = OnEvent(book, ord, event, now, session, priced, v)
    PROVE  /\ Passed(PrepareSlice(book, now), done.book, ord, BarSymbol(event))
           /\ session \notin Resting =>
                 \A i \in Active(book) : Meets(ord[i], event) => Served(done.book, i, TRUE)
<1> DEFINE sliced == PrepareSlice(book, now)
           closing == ClosingOrders(book, ord)
           expired == [sliced EXCEPT !.status =
                         [i \in OrderIds |-> IF i \in closing THEN "Expired" ELSE @[i]]]
           matched == MatchWithEvents(sliced, ord, <<event>>, now, priced, OrderIds, TRUE, v)
           rested == [book |-> DropFinished(expired), reports |-> ClosingReports(book, ord, event)]
           idle == [book |-> sliced, reports |-> <<>>]
           S == BarSymbol(event)
<1>1. /\ BookSound(sliced, ord) /\ sliced.status = book.status
      /\ sliced.filled = book.filled /\ sliced.queue = book.queue
  <2> HIDE DEF sliced
  <2>1. sliced \in {PrepareSlice(book, now), ClearSlice(book)}
    BY DEF sliced
  <2> QED BY <2>1, SliceSound
<1>2. Active(sliced) = Active(book)
  BY <1>1 DEF Active
<1>3. done = CASE session \notin Resting -> matched
               [] session = "Closed" -> rested
               [] OTHER -> idle
  BY Zenon DEF OnEvent
<1> HIDE DEF sliced, matched, rested, idle
<1>4. "Closed" \in Resting
  BY DEF Resting
<1>5. CASE session \notin Resting
  <2>1. done = MatchWithEvents(sliced, ord, <<event>>, now, priced, OrderIds, TRUE, v)
    BY <1>3, <1>4, <1>5 DEF matched
  <2> DEFINE events == <<event>>
  <2>2. events \in Seq(EventType) /\ DOMAIN events = {1} /\ events[1] = event
    OBVIOUS
  <2> HIDE DEF events
  <2>3. \A i \in Active(sliced) \cap OrderIds, x \in DOMAIN events :
           CanTrade(ord[i], events[x], priced) => Trades(ord[i], v[i])
    <3>1. \A i \in Active(book) \cap OrderIds :
             CanTrade(ord[i], event, priced) => v[i] \in Outcomes(book, ord[i], i, event)
      BY VerdictsOfProperties
    <3> QED BY <3>1, <1>2, <2>2, OutcomesTrade
  <2>4. ShowOnly(events, S)
    BY <2>2 DEF ShowOnly
  <2>5. done = MatchWithEvents(sliced, ord, events, now, priced, OrderIds, TRUE, v)
    BY <2>1 DEF events
  <2> HIDE DEF S
  <2>6. Passed(sliced, done.book, ord, S)
    BY <1>1, <2>2, <2>3, <2>4, <2>5, MatchWithEventsPasses
  <2>7. \A i \in Active(sliced) \cap OrderIds, x \in DOMAIN events :
           Meets(ord[i], events[x]) => Served(done.book, i, TRUE)
    BY <1>1, <2>2, <2>3, <2>4, <2>5, MatchWithEventsPasses
  <2>8. \A i \in Active(book) : i \in OrderIds
    BY DEF Active
  <2> QED BY <1>2, <2>2, <2>6, <2>7, <2>8 DEF S, sliced
<1>6. CASE session = "Closed"
  <2>1. done = rested
    BY <1>3, <1>4, <1>6
  <2>2. /\ expired \in BookType /\ expired.slice = sliced.slice
        /\ expired.deferred = sliced.deferred /\ expired.attempted = sliced.attempted
        /\ expired.filled = sliced.filled
        /\ \A i \in OrderIds : expired.status[i] = IF i \in closing THEN "Expired"
                                                   ELSE sliced.status[i]
    <3>1. sliced \in BookType /\ book \in BookType
      BY <1>1 DEF BookSound
    <3>2. [i \in OrderIds |-> IF i \in closing THEN "Expired" ELSE sliced.status[i]]
             \in [OrderIds -> Status \cup {Absent}]
      BY <3>1, StatusFacts DEF BookType
    <3> HIDE DEF closing
    <3> QED BY <3>1, <3>2 DEF BookType
  <2> HIDE DEF expired, closing
  <2>3. Passed(sliced, expired, ord, S)
    BY <2>2, StatusFacts DEF Passed, Active
  <2>4. Passed(expired, DropFinished(expired), ord, S)
    BY <2>2, DropFinishedPasses
  <2>5. Passed(sliced, DropFinished(expired), ord, S)
    BY <2>3, <2>4, PassedOn
  <2>6. done.book = DropFinished(expired)
    BY <2>1 DEF rested
  <2> QED BY <1>4, <1>6, <2>5, <2>6 DEF sliced
<1>7. CASE session \in Resting /\ session # "Closed"
  <2>1. done.book = sliced
    BY <1>3, <1>7 DEF idle
  <2>2. Passed(sliced, sliced, ord, S)
    BY DEF Passed
  <2> QED BY <1>7, <2>1, <2>2 DEF sliced
<1> QED BY <1>5, <1>6, <1>7

\* Every bar of the slice is among the events of its finalization.
LEMMA FinalizeEventsCover ==
    ASSUME NEW book, NEW ord, NEW ts, NEW bars, BarsSound(bars, ts), NEW e \in bars
    PROVE  \E k \in DOMAIN FinalizeEvents(book, ord, bars, ts) :
              FinalizeEvents(book, ord, bars, ts)[k] = e
<1> DEFINE reduce == {ord[i].sym : i \in {j \in Active(book) :
                        ord[j].created = ts /\ ord[j].offset = 0 /\ ReduceFirst(ord[j])}}
           traded == {d.sym : d \in bars}
           first == Ascending(traded \cap reduce)
           last == Ascending(traded \ reduce)
           syms == first \o last
           bar == [k \in DOMAIN syms |-> CHOOSE d \in bars : d.sym = syms[k]]
<1>1. FinalizeEvents(book, ord, bars, ts) = bar
  BY DEF FinalizeEvents
<1> HIDE DEF reduce
<1>2. traded \in SUBSET Nat /\ IsFiniteSet(traded)
  <2>1. traded \in SUBSET Nat
    BY DEF BarsSound, EventType
  <2> DEFINE sym == [d \in bars |-> d.sym]
  <2>2. sym \in Surjection(bars, traded)
    BY DEF Surjection
  <2> QED BY <2>1, <2>2, FS_Surjection DEF BarsSound
<1>3. e.sym \in traded
  OBVIOUS
<1>4. /\ traded \cap reduce \in SUBSET Nat /\ IsFiniteSet(traded \cap reduce)
      /\ traded \ reduce \in SUBSET Nat /\ IsFiniteSet(traded \ reduce)
  BY <1>2, FS_Subset
<1> HIDE DEF traded
<1>5. /\ first \in Seq(traded \cap reduce) /\ last \in Seq(traded \ reduce)
      /\ e.sym \in reduce => \E k \in DOMAIN first : first[k] = e.sym
      /\ e.sym \notin reduce => \E k \in DOMAIN last : last[k] = e.sym
  BY <1>3, <1>4, AscendingProperties
<1> HIDE DEF first, last
<1>6. \E k \in DOMAIN syms : syms[k] = e.sym
  <2>1. first \in Seq(traded) /\ last \in Seq(traded)
    BY <1>5
  <2>2. CASE e.sym \in reduce
    <3>1. PICK k \in DOMAIN first : first[k] = e.sym
      BY <1>5, <2>2
    <3>2. k \in DOMAIN syms /\ syms[k] = first[k]
      BY <2>1
    <3> QED BY <3>1, <3>2
  <2>3. CASE e.sym \notin reduce
    <3>1. PICK k \in DOMAIN last : last[k] = e.sym
      BY <1>5, <2>3
    <3>2. /\ Len(first) + k \in DOMAIN syms
          /\ syms[Len(first) + k] = last[Len(first) + k - Len(first)]
          /\ Len(first) + k - Len(first) = k
      BY <2>1
    <3> QED BY <3>1, <3>2
  <2> QED BY <2>2, <2>3
<1> HIDE DEF syms
<1>7. PICK k \in DOMAIN syms : syms[k] = e.sym
  BY <1>6
<1>8. bar[k] = e
  <2>1. \A d \in bars : d.sym = e.sym => d = e
    BY DEF BarsSound
  <2>2. (CHOOSE d \in bars : d.sym = e.sym) = e
    BY <2>1
  <2> QED BY <1>7, <2>2
<1> QED BY <1>1, <1>8

\* finalize_timestamp: nothing is marked any more, and each wanted order whose bar
\* is in the slice is served.
LEMMA FinalizeTimestampPasses ==
    ASSUME NEW book, NEW ord, BookSound(book, ord), NEW ts \in Nat, NEW bars,
           BarsSound(bars, ts), bars # {}, NEW priced,
           NEW v \in VerdictsOf(book, ord, bars, priced,
                                ToFinalize(PrepareSlice(book, ts), ord, ts)),
           NEW done, done = FinalizeTimestamp(book, ord, bars, ts, priced, v)
    PROVE  /\ done.book.deferred = {} /\ done.book.attempted = {}
           /\ \A i \in Active(done.book) : /\ i \in Active(book)
                                           /\ book.filled[i] > 0 => done.book.filled[i] > 0
           /\ \A i \in ToFinalize(PrepareSlice(book, ts), ord, ts), e \in bars :
                 Meets(ord[i], e) => i \notin Active(done.book) \/ done.book.filled[i] > 0
<1> DEFINE sliced == PrepareSlice(book, ts)
           events == FinalizeEvents(sliced, ord, bars, ts)
           wanted == ToFinalize(sliced, ord, ts)
           mid == MatchWithEvents(sliced, ord, events, ts, priced, wanted, FALSE, v)
           E == UNION {BarSymbol(e) : e \in bars}
<1>1. /\ BookSound(sliced, ord) /\ sliced.status = book.status
      /\ sliced.filled = book.filled /\ sliced.queue = book.queue
  <2> HIDE DEF sliced
  <2>1. sliced \in {PrepareSlice(book, ts), ClearSlice(book)}
    BY DEF sliced
  <2> QED BY <2>1, SliceSound
<1>2. done = [mid EXCEPT !.book = ClearSlice(@)]
  BY DEF FinalizeTimestamp
<1>10. \A e \in bars : \E x \in DOMAIN events : events[x] = e
  <2> HIDE DEF sliced
  <2> QED BY FinalizeEventsCover
<1> HIDE DEF sliced, mid
<1>3. events \in Seq(bars)
  BY FinalizeEventsProperties
<1> HIDE DEF events
<1>4. events \in Seq(EventType) /\ \A x \in DOMAIN events : events[x] \in bars
  <2>1. \A x \in DOMAIN events : events[x] \in bars
    BY <1>3
  <2>2. bars \subseteq EventType
    BY DEF BarsSound
  <2> QED BY <2>1, <2>2, <1>3
<1>5. Active(sliced) = Active(book)
  BY <1>1 DEF Active
<1>6. \A i \in Active(sliced) \cap wanted, x \in DOMAIN events :
         CanTrade(ord[i], events[x], priced) => Trades(ord[i], v[i])
  <2> SUFFICES ASSUME NEW i \in Active(sliced) \cap wanted, NEW x \in DOMAIN events,
                      CanTrade(ord[i], events[x], priced)
               PROVE  Trades(ord[i], v[i])
    OBVIOUS
  <2>1. i \in Active(book) \cap wanted
    BY <1>5
  <2>2. PICK e \in bars : v[i] \in Outcomes(book, ord[i], i, e)
    BY <2>1, <1>4, VerdictsOfProperties DEF sliced
  <2> QED BY <2>2, OutcomesTrade
<1>7. ShowOnly(events, E)
  BY <1>4 DEF ShowOnly
<1>8. wanted \subseteq Active(sliced)
  BY DEF ToFinalize
<1> HIDE DEF wanted, E
<1>9. mid = MatchWithEvents(sliced, ord, events, ts, priced, wanted, FALSE, v)
  BY DEF mid
<1>11. Passed(sliced, mid.book, ord, E)
  BY <1>1, <1>4, <1>6, <1>7, <1>9, MatchWithEventsPasses
<1>12. \A i \in Active(sliced) \cap wanted, x \in DOMAIN events :
          Meets(ord[i], events[x]) => Served(mid.book, i, FALSE)
  BY <1>1, <1>4, <1>6, <1>7, <1>9, MatchWithEventsPasses
<1>13. Whole(mid)
  BY <1>1, <1>4, <1>6, <1>7, <1>9, MatchWithEventsPasses
<1>15. done.book = ClearSlice(mid.book)
  BY <1>2, <1>13 DEF Whole
<1>16. /\ done.book.deferred = {} /\ done.book.attempted = {}
       /\ done.book.status = mid.book.status /\ done.book.filled = mid.book.filled
  BY <1>13, <1>15 DEF Whole, ClearSlice, BookType
<1> QED BY <1>1, <1>5, <1>8, <1>10, <1>11, <1>12, <1>16 DEF Passed, Served, Active, sliced, wanted
==============================================================================
