------------------------------ MODULE LiveProofs ------------------------------
(***************************************************************************)
(* The live runner.                                                        *)
(*                                                                         *)
(* Trades, for any of them, any number of pushes and whatever callbacks    *)
(* read: a live session implements TradeFeed, and counts a trade once.     *)
(* The trades on their way are in the queue or in one thread's batch, once.*)
(*                                                                         *)
(* Brackets and their stops, for any brackets, threads and partial fills:  *)
(* a stop is sent at most once and never after its cancellation, none is   *)
(* lost, and the exits of a bracket are created once.                      *)
(*                                                                         *)
(* The legs of an order, for any quantities and any two answers of the     *)
(* broker: they make up the order, and a reversal opens after it closed.   *)
(* And the client order ids, under any order of placements and events: one *)
(* acknowledged working order each, and reusable once all of them ended.   *)
(*                                                                         *)
(* The signals, for any number of signals, threads, restarts and crashes:  *)
(* their dispatch, the queue they come from, and the stream they come      *)
(* from, each with an invariant of its own.                                *)
(***************************************************************************)
EXTENDS LiveEvents, LiveOrders, OrderSubmission, SignalDispatch, SignalQueue, SignalStream,
        FiniteSetTheorems, SequenceTheorems, TLAPS

-----------------------------------------------------------------------------
(* Trades: sequences of them *)

Elems(s) == {s[i] : i \in DOMAIN s}
NoTwice(s) == \A i, j \in DOMAIN s : s[i] = s[j] => i = j

LEMMA NothingInEmpty == Elems(<<>>) = {} /\ NoTwice(<<>>) /\ <<>> \in Seq(Trades)
BY DEF Elems, NoTwice

\* A trade that is not in the queue is put at its end.
LEMMA AppendTrade ==
    ASSUME NEW s \in Seq(Trades), NEW t \in Trades
    PROVE  /\ Append(s, t) \in Seq(Trades) /\ Append(s, t) # <<>>
           /\ Elems(Append(s, t)) = Elems(s) \cup {t}
           /\ NoTwice(s) /\ t \notin Elems(s) => NoTwice(Append(s, t))
<1> DEFINE a == Append(s, t)
<1>1. /\ a \in Seq(Trades) /\ Len(a) = Len(s) + 1 /\ a[Len(s) + 1] = t
      /\ \A i \in 1..Len(s) : a[i] = s[i]
  BY AppendProperties
<1>2. DOMAIN a = 1..Len(a) /\ DOMAIN s = 1..Len(s) /\ Len(s) \in Nat
  BY <1>1, LenProperties
<1> HIDE DEF a
<1>3. a # <<>>
  BY <1>1, <1>2
<1>4. Elems(a) = Elems(s) \cup {t}
  <2>1. ASSUME NEW x \in Elems(a) PROVE x \in Elems(s) \cup {t}
    <3>1. PICK i \in 1..Len(a) : x = a[i]
      BY <1>2 DEF Elems
    <3>2. CASE i = Len(s) + 1
      BY <1>1, <3>1, <3>2
    <3>3. CASE i \in 1..Len(s)
      BY <1>1, <1>2, <3>1, <3>3 DEF Elems
    <3> QED BY <1>1, <1>2, <3>2, <3>3
  <2>2. ASSUME NEW x \in Elems(s) PROVE x \in Elems(a)
    <3>1. PICK i \in 1..Len(s) : x = s[i]
      BY <1>2 DEF Elems
    <3>2. i \in 1..Len(a) /\ a[i] = x
      BY <1>1, <1>2, <3>1
    <3> QED BY <1>2, <3>2 DEF Elems
  <2>3. t \in Elems(a)
    <3>1. Len(s) + 1 \in DOMAIN a
      BY <1>1, <1>2
    <3> QED BY <1>1, <3>1 DEF Elems
  <2> QED BY <2>1, <2>2, <2>3
<1>5. ASSUME NoTwice(s), t \notin Elems(s) PROVE NoTwice(a)
  BY <1>1, <1>2, <1>5 DEF NoTwice, Elems
<1> QED BY <1>1, <1>3, <1>4, <1>5 DEF a

\* The first trade of a batch is gone through.
LEMMA TailTrade ==
    ASSUME NEW s \in Seq(Trades), s # <<>>, NoTwice(s)
    PROVE  /\ Head(s) \in Trades /\ Head(s) \in Elems(s)
           /\ Tail(s) \in Seq(Trades) /\ NoTwice(Tail(s))
           /\ Elems(Tail(s)) \subseteq Elems(s)
           /\ Head(s) \notin Elems(Tail(s))
<1> DEFINE b == Tail(s)
<1>1. /\ b \in Seq(Trades) /\ Len(b) = Len(s) - 1 /\ Len(s) \in Nat \ {0}
      /\ \A i \in 1..Len(b) : b[i] = s[i + 1]
      /\ Head(s) = s[1]
  BY HeadTailProperties
<1> HIDE DEF b
<1>2. DOMAIN b = 1..Len(b) /\ DOMAIN s = 1..Len(s)
  BY <1>1, LenProperties
<1>3. 1 \in DOMAIN s /\ s[1] \in Trades
  BY <1>1, <1>2
<1>4. \A i \in DOMAIN b : i + 1 \in DOMAIN s /\ b[i] = s[i + 1] /\ i + 1 # 1
  BY <1>1, <1>2
<1>5. NoTwice(b)
  BY <1>1, <1>2, <1>4 DEF NoTwice
<1>6. Elems(b) \subseteq Elems(s)
  BY <1>4 DEF Elems
<1>7. s[1] \notin Elems(b)
  BY <1>3, <1>4 DEF Elems, NoTwice
<1> QED BY <1>1, <1>3, <1>5, <1>6, <1>7 DEF Elems, b

-----------------------------------------------------------------------------
(* Trades: types *)

Drainer == [at : {"idle", "apply", "write", "tell", "ended"}, last : BOOLEAN,
            batch : Seq(Trades), copy : [Trades -> Nat]]
Reader == [at : {"none", "store"}, rows : SUBSET Trades]

TypedFlow ==
    /\ executed \subseteq Trades /\ seenIds \subseteq Trades
    /\ store \in Seq(Trades) /\ told \in [Trades -> Nat]
    /\ drainers \in [Drainers -> Drainer]
    /\ replay \subseteq executed /\ seenIds \subseteq executed

\* What is on its way is seen, in one place, and not told.
OnTheirWay ==
    /\ NoTwice(store) /\ \A d \in Drainers : NoTwice(drainers[d].batch)
    /\ \A d \in Drainers : Stored \cap Batch(d) = {}
    /\ \A d, e \in Drainers : d # e => Batch(d) \cap Batch(e) = {}
    /\ Stored \subseteq seenIds /\ \A d \in Drainers : Batch(d) \subseteq seenIds
    /\ \A t \in Trades : told[t] <= 1 /\ (told[t] > 0 => t \in seenIds)
    /\ \A t \in Stored : told[t] = 0
    /\ \A d \in Drainers : \A t \in Batch(d) : told[t] = 0
    /\ \A d \in Drainers :
          drainers[d].at \in {"apply", "write", "tell"} <=> drainers[d].batch # <<>>

FlowInv == TypedFlow /\ OnTheirWay

LEMMA StoredElems == Stored = Elems(store) /\ \A d : Batch(d) = Elems(drainers[d].batch)
BY DEF Stored, Batch, Elems

LEMMA InitFlow == EventsInit => FlowInv
<1> SUFFICES ASSUME EventsInit PROVE FlowInv
  OBVIOUS
<1>1. store = <<>> /\ \A d \in Drainers : drainers[d] = AtRest
  BY DEF EventsInit
<1>2. Stored = {} /\ \A d \in Drainers : Batch(d) = {}
  BY <1>1, StoredElems, NothingInEmpty DEF AtRest
<1>3. TypedFlow
  BY NothingInEmpty DEF EventsInit, TypedFlow, Drainer, AtRest
<1>4. NoTwice(store) /\ \A d \in Drainers : NoTwice(drainers[d].batch)
  BY <1>1, NothingInEmpty DEF AtRest
<1>5. \A t \in Trades : told[t] = 0
  BY DEF EventsInit
<1>6. \A d \in Drainers : drainers[d].at = "idle" /\ drainers[d].batch = <<>>
  BY <1>1 DEF AtRest
<1> QED BY <1>2, <1>3, <1>4, <1>5, <1>6 DEF FlowInv, OnTheirWay

\* A step that leaves the queue, the batches and on_trade alone.
LEMMA QuietFlow ==
    ASSUME FlowInv, UNCHANGED <<store, drainers, told>>,
           seenIds \subseteq seenIds', seenIds' \subseteq executed',
           executed' \subseteq Trades, replay' \subseteq executed'
    PROVE  FlowInv'
<1>1. Stored' = Stored /\ \A d \in Drainers : Batch(d)' = Batch(d)
  BY DEF Stored, Batch
<1>2. TypedFlow'
  BY DEF FlowInv, TypedFlow
<1>3. OnTheirWay'
  BY <1>1 DEF FlowInv, OnTheirWay
<1> QED BY <1>2, <1>3 DEF FlowInv

\* queue_event, from the gateway's thread or from the recovery cycle.
LEMMA QueueFlow ==
    ASSUME FlowInv, NEW t \in executed, store' = Queued(t), seenIds' = seenIds \cup {t},
           UNCHANGED <<executed, drainers, told>>, replay' \subseteq replay
    PROVE  FlowInv'
<1>0. t \in Trades
  BY DEF FlowInv, TypedFlow
<1>1. CASE t \in seenIds
  <2>1. store' = store /\ seenIds' = seenIds
    BY <1>1 DEF Queued, Fresh
  <2> QED BY <2>1, QuietFlow DEF FlowInv, TypedFlow
<1>2. CASE t \notin seenIds
  <2>1. store' = Append(store, t)
    BY <1>2 DEF Queued, Fresh
  <2>2. t \notin Stored /\ \A d \in Drainers : t \notin Batch(d)
    BY <1>2 DEF FlowInv, OnTheirWay
  <2>3. told[t] = 0
    BY <1>0, <1>2 DEF FlowInv, OnTheirWay, TypedFlow
  <2>4. store' \in Seq(Trades) /\ Stored' = Stored \cup {t} /\ NoTwice(store')
    <3>1. store \in Seq(Trades) /\ NoTwice(store)
      BY DEF FlowInv, OnTheirWay, TypedFlow
    <3>2. t \notin Elems(store)
      BY <2>2, StoredElems
    <3>3. Stored' = Elems(store')
      BY DEF Stored, Elems
    <3> QED BY <1>0, <2>1, <3>1, <3>2, <3>3, AppendTrade, StoredElems
  <2>5. \A d \in Drainers : Batch(d)' = Batch(d)
    BY DEF Batch
  <2>6. TypedFlow'
    BY <1>0, <2>4 DEF FlowInv, TypedFlow
  <2>7. OnTheirWay'
    BY <2>2, <2>3, <2>4, <2>5 DEF FlowInv, OnTheirWay
  <2> QED BY <2>6, <2>7 DEF FlowInv
<1> QED BY <1>1, <1>2

\* The base line drops what is queued.
LEMMA DiscardFlow ==
    ASSUME FlowInv, DiscardPendingTrades PROVE FlowInv'
<1>1. /\ store' = <<>> /\ seenIds' = seenIds \cup Stored
      /\ UNCHANGED <<executed, drainers, told, replay>>
  BY DEF DiscardPendingTrades, brokerVars, cycleVars
<1>2. Stored' = {} /\ NoTwice(store') /\ store' \in Seq(Trades)
  BY <1>1, NothingInEmpty DEF Stored, NoTwice
<1>3. \A d \in Drainers : Batch(d)' = Batch(d)
  BY <1>1 DEF Batch
<1>4. seenIds' = seenIds
  BY <1>1 DEF FlowInv, OnTheirWay
<1>5. TypedFlow'
  BY <1>1, <1>2, <1>4 DEF FlowInv, TypedFlow
<1>6. OnTheirWay'
  BY <1>1, <1>2, <1>3, <1>4 DEF FlowInv, OnTheirWay
<1> QED BY <1>5, <1>6 DEF FlowInv

\* A thread takes the whole queue.
LEMMA DrainFlow ==
    ASSUME FlowInv, NEW d \in Drainers, Drain(d)
    PROVE  /\ FlowInv' /\ Stored' \cup Batch(d)' = Stored \cup Batch(d)
           /\ drainers'[d].at # "write"
           /\ \A e \in Drainers \ {d} :
                 drainers'[e] = drainers[e] /\ Batch(e)' = Batch(e)
<1> DEFINE last == d = "dispatch" /\ phase = "stopped"
           new == [AtRest EXCEPT !.batch = store, !.last = last,
                       !.at = IF store = <<>> THEN Rest(last) ELSE "apply"]
<1>1. /\ drainers[d].at = "idle" /\ drainers' = [drainers EXCEPT ![d] = new]
      /\ store' = <<>> /\ UNCHANGED <<executed, seenIds, told, replay>>
  BY DEF Drain, brokerVars
<1>2. store \in Seq(Trades) /\ drainers \in [Drainers -> Drainer] /\ last \in BOOLEAN
  BY DEF FlowInv, TypedFlow
<1>3. /\ new.batch = store /\ new.at # "write" /\ new \in Drainer
      /\ new.at \in {"apply", "write", "tell"} <=> new.batch # <<>>
  BY <1>2 DEF AtRest, Rest, Drainer
<1> HIDE DEF new, last
<1>4. /\ drainers'[d] = new
      /\ \A e \in Drainers \ {d} : drainers'[e] = drainers[e]
      /\ drainers' \in [Drainers -> Drainer]
  BY <1>1, <1>2, <1>3
<1>5. Batch(d) = {} /\ Batch(d)' = Stored /\ Stored' = {}
  <2>1. drainers[d].batch = <<>>
    BY <1>1 DEF FlowInv, OnTheirWay
  <2>2. Batch(d) = {}
    BY <2>1, StoredElems, NothingInEmpty
  <2>3. Batch(d)' = Stored
    BY <1>3, <1>4 DEF Batch, Stored
  <2>4. Stored' = {}
    BY <1>1, NothingInEmpty DEF Stored, Elems
  <2> QED BY <2>2, <2>3, <2>4
<1>6. \A e \in Drainers \ {d} : Batch(e)' = Batch(e)
  BY <1>4 DEF Batch
<1>7. TypedFlow'
  BY <1>1, <1>4, NothingInEmpty DEF FlowInv, TypedFlow
<1>8. NoTwice(store') /\ \A e \in Drainers : NoTwice(drainers'[e].batch)
  BY <1>1, <1>3, <1>4, NothingInEmpty DEF FlowInv, OnTheirWay
<1>9. \A e \in Drainers :
         drainers'[e].at \in {"apply", "write", "tell"} <=> drainers'[e].batch # <<>>
  BY <1>3, <1>4 DEF FlowInv, OnTheirWay
<1>10. OnTheirWay'
  BY <1>1, <1>5, <1>6, <1>8, <1>9 DEF FlowInv, OnTheirWay
<1> QED BY <1>3, <1>4, <1>5, <1>6, <1>7, <1>10 DEF FlowInv

\* A thread works on the first trade of its batch.
LEMMA WorkFlow ==
    ASSUME FlowInv, NEW d \in Drainers, NEW at \in {"apply", "write", "tell"},
           NEW copy \in [Trades -> Nat],
           drainers[d].at \in {"apply", "write", "tell"},
           drainers' = [drainers EXCEPT ![d] = [@ EXCEPT !.at = at, !.copy = copy]],
           UNCHANGED <<executed, seenIds, store, told, replay>>
    PROVE  /\ FlowInv' /\ Stored' = Stored
           /\ drainers'[d].at = at /\ drainers'[d].copy = copy
           /\ \A e \in Drainers : drainers'[e].batch = drainers[e].batch
           /\ \A e \in Drainers : Batch(e)' = Batch(e)
           /\ \A e \in Drainers \ {d} : drainers'[e] = drainers[e]
<1>1. drainers \in [Drainers -> Drainer]
  BY DEF FlowInv, TypedFlow
<1>2. /\ drainers'[d].at = at /\ drainers'[d].copy = copy
      /\ drainers'[d].batch = drainers[d].batch
      /\ drainers'[d] \in Drainer
  BY <1>1 DEF Drainer
<1>3. \A e \in Drainers \ {d} : drainers'[e] = drainers[e]
  BY <1>1
<1>4. drainers' \in [Drainers -> Drainer]
  BY <1>1, <1>2, <1>3
<1>5. \A e \in Drainers : drainers'[e].batch = drainers[e].batch
  BY <1>2, <1>3
<1>6. Stored' = Stored /\ \A e \in Drainers : Batch(e)' = Batch(e)
  BY <1>5 DEF Stored, Batch
<1>7. TypedFlow'
  BY <1>4 DEF FlowInv, TypedFlow
<1>8. OnTheirWay'
  BY <1>2, <1>3, <1>5, <1>6 DEF FlowInv, OnTheirWay
<1> QED BY <1>2, <1>3, <1>5, <1>6, <1>7, <1>8 DEF FlowInv

\* on_trade of the first trade of a batch: the trade leaves it, told for the
\* first time.
LEMMA TellFlow ==
    ASSUME FlowInv, NEW d \in Drainers, OnTrade(d)
    PROVE  /\ FlowInv' /\ Stored' = Stored /\ drainers'[d].at # "write"
           /\ \A e \in Drainers \ {d} : drainers'[e] = drainers[e]
           /\ \A e \in Drainers : Batch(e)' \subseteq Batch(e)
           /\ Head(drainers[d].batch) \in executed
           /\ told[Head(drainers[d].batch)] = 0
           /\ told' = [told EXCEPT ![Head(drainers[d].batch)] = 1]
           /\ executed' = executed
<1> DEFINE b == drainers[d].batch
           t == Head(b)
           rest == Tail(b)
           new == [drainers[d] EXCEPT !.batch = rest,
                       !.at = IF rest = <<>> THEN Rest(drainers[d].last) ELSE "apply"]
<1>1. /\ drainers[d].at = "tell" /\ told' = [told EXCEPT ![t] = @ + 1]
      /\ drainers' = [drainers EXCEPT ![d] = new]
      /\ UNCHANGED <<executed, seenIds, store, replay>>
  BY DEF OnTrade, brokerVars
<1>2. /\ drainers \in [Drainers -> Drainer] /\ drainers[d] \in Drainer
      /\ b \in Seq(Trades) /\ b # <<>> /\ NoTwice(b) /\ told \in [Trades -> Nat]
  BY <1>1 DEF FlowInv, TypedFlow, OnTheirWay, Drainer
<1>3. /\ t \in Trades /\ t \in Elems(b) /\ rest \in Seq(Trades) /\ NoTwice(rest)
      /\ Elems(rest) \subseteq Elems(b) /\ t \notin Elems(rest)
  BY <1>2, TailTrade
<1>4. /\ new.batch = rest /\ new.at # "write" /\ new \in Drainer
      /\ new.at \in {"apply", "write", "tell"} <=> new.batch # <<>>
  BY <1>2, <1>3 DEF Rest, Drainer
<1>5. t \in Batch(d) /\ told[t] = 0 /\ t \in seenIds /\ t \in executed
  <2>1. t \in Batch(d)
    BY <1>3, StoredElems
  <2> QED BY <2>1 DEF FlowInv, OnTheirWay, TypedFlow
<1>6. told' = [told EXCEPT ![t] = 1]
  BY <1>1, <1>2, <1>3, <1>5
<1>7. Batch(d) = Elems(b)
  BY StoredElems
<1> HIDE DEF new, rest, t, b
<1>8. /\ drainers'[d] = new
      /\ \A e \in Drainers \ {d} : drainers'[e] = drainers[e]
      /\ drainers' \in [Drainers -> Drainer]
  BY <1>1, <1>2, <1>4
<1>9. /\ Stored' = Stored /\ Batch(d)' = Elems(rest)
      /\ \A e \in Drainers \ {d} : Batch(e)' = Batch(e)
  BY <1>1, <1>4, <1>8 DEF Stored, Batch, Elems
<1>10. Batch(d)' \subseteq Batch(d) /\ t \notin Batch(d)'
  BY <1>3, <1>7, <1>9
<1>11. \A e \in Drainers : Batch(e)' \subseteq Batch(e)
  BY <1>9, <1>10
<1>12. t \notin Stored /\ \A e \in Drainers : t \notin Batch(e)'
  BY <1>5, <1>9, <1>10 DEF FlowInv, OnTheirWay
<1>13. TypedFlow'
  BY <1>1, <1>2, <1>3, <1>6, <1>8 DEF FlowInv, TypedFlow
<1>14. \A x \in Trades : x # t => told'[x] = told[x]
  BY <1>2, <1>6
<1>15. told'[t] = 1
  BY <1>2, <1>3, <1>6
<1>16. OnTheirWay'
  <2>1. NoTwice(store') /\ \A e \in Drainers : NoTwice(drainers'[e].batch)
    BY <1>1, <1>3, <1>4, <1>8 DEF FlowInv, OnTheirWay
  <2>2. /\ \A e \in Drainers : Stored' \cap Batch(e)' = {}
        /\ \A e, f \in Drainers : e # f => Batch(e)' \cap Batch(f)' = {}
        /\ Stored' \subseteq seenIds' /\ \A e \in Drainers : Batch(e)' \subseteq seenIds'
    <3>1. /\ \A e \in Drainers : Stored \cap Batch(e) = {}
          /\ \A e, f \in Drainers : e # f => Batch(e) \cap Batch(f) = {}
          /\ Stored \subseteq seenIds /\ \A e \in Drainers : Batch(e) \subseteq seenIds
      BY DEF FlowInv, OnTheirWay
    <3> HIDE DEF FlowInv
    <3> QED BY <1>1, <1>9, <1>11, <3>1
  <2>3. \A x \in Trades : told'[x] <= 1 /\ (told'[x] > 0 => x \in seenIds')
    BY <1>1, <1>5, <1>14, <1>15 DEF FlowInv, OnTheirWay
  <2>4. \A x \in Stored' : told'[x] = 0
    <3>1. \A x \in Stored : x \in Trades /\ told[x] = 0
      BY DEF FlowInv, OnTheirWay, TypedFlow
    <3> QED BY <1>9, <1>12, <1>14, <3>1
  <2>5. ASSUME NEW e \in Drainers, NEW x \in Batch(e)' PROVE told'[x] = 0
    <3>1. x \in Batch(e) /\ x # t
      BY <1>11, <1>12, <2>5
    <3>2. x \in Trades /\ told[x] = 0
      BY <3>1 DEF FlowInv, OnTheirWay, TypedFlow
    <3> QED BY <1>14, <3>1, <3>2
  <2>6. \A e \in Drainers :
          drainers'[e].at \in {"apply", "write", "tell"} <=> drainers'[e].batch # <<>>
    BY <1>4, <1>8 DEF FlowInv, OnTheirWay
  <2> QED BY <2>1, <2>2, <2>3, <2>4, <2>5, <2>6 DEF OnTheirWay
<1> QED BY <1>1, <1>4, <1>5, <1>6, <1>8, <1>9, <1>11, <1>13, <1>16 DEF FlowInv, t, b

-----------------------------------------------------------------------------
(* Trades: each step of the session is a step of the feed, or none *)

\* Steps that only mark trades as seen, or nothing of the flow.
LEMMA OtherFlow ==
    ASSUME FlowInv,
           \/ \E t \in Trades : ExecuteTrade(t)
           \/ QueryPositions \/ StorePositions \/ MarkTradesSeen
           \/ StopSession \/ StopDispatch \/ ReadPositions \/ StoreRead
           \/ WakeUp \/ SkipTrades \/ SyncTodayTrades \/ ReplayDone
           \/ UNCHANGED eventVars
    PROVE  FlowInv' /\ UNCHANGED <<store, drainers, told>>
<1>1. /\ UNCHANGED <<store, drainers, told>>
      /\ executed \subseteq executed' /\ executed' \subseteq Trades
      /\ seenIds' = seenIds \/ seenIds' = seenIds \cup executed
      /\ replay' = replay \/ replay' = executed
  BY DEF FlowInv, TypedFlow, ExecuteTrade, QueryPositions, StorePositions,
         MarkTradesSeen, StopSession, StopDispatch, ReadPositions, StoreRead, WakeUp,
         SkipTrades, SyncTodayTrades, ReplayDone, Stage, eventVars, brokerVars,
         cycleVars, baseVars, positionVars
<1>2. seenIds \subseteq seenIds' /\ seenIds' \subseteq executed'
      /\ replay' \subseteq executed'
  BY <1>1 DEF FlowInv, TypedFlow
<1> QED BY <1>1, <1>2, QuietFlow

\* One trade is pushed, or replayed.
LEMMA PushFlow ==
    ASSUME FlowInv, NEW t \in Trades, PushTrade(t) \/ ReplayTrade(t)
    PROVE  FlowInv' /\ t \in executed /\ UNCHANGED <<executed, told, drainers>>
<1>1. /\ t \in executed /\ store' = Queued(t) /\ seenIds' = seenIds \cup {t}
      /\ UNCHANGED <<executed, told, drainers>> /\ replay' \subseteq replay
  BY DEF PushTrade, ReplayTrade, FlowInv, TypedFlow, brokerVars, cycleVars
<1> QED BY <1>1, QueueFlow

\* The two steps before on_trade.
LEMMA ApplyFlow ==
    ASSUME FlowInv, position \in [Trades -> Nat], NEW d \in Drainers,
           ReadPosition(d) \/ WritePosition(d)
    PROVE  /\ FlowInv' /\ Stored' = Stored /\ UNCHANGED <<executed, told, seenIds>>
           /\ \A e \in Drainers : drainers'[e].batch = drainers[e].batch
           /\ \A e \in Drainers : Batch(e)' = Batch(e)
           /\ \A e \in Drainers \ {d} : drainers'[e] = drainers[e]
           /\ \/ /\ drainers'[d].at = "write" /\ drainers'[d].copy = position
                 /\ Head(drainers[d].batch) \notin appliedIds
              \/ drainers'[d].at = "tell"
<1>1. drainers \in [Drainers -> Drainer] /\ drainers[d].copy \in [Trades -> Nat]
  BY DEF FlowInv, TypedFlow, Drainer
<1>2. UNCHANGED <<executed, seenIds, store, told, replay>>
  BY DEF ReadPosition, WritePosition, brokerVars, baseVars, cycleVars
<1>3. drainers[d].at \in {"apply", "write", "tell"}
  BY DEF ReadPosition, WritePosition
<1>4. \/ /\ drainers' = [drainers EXCEPT ![d] = [@ EXCEPT !.at = "write",
                                                       !.copy = position]]
         /\ Head(drainers[d].batch) \notin appliedIds
      \/ drainers' = [drainers EXCEPT ![d] = [@ EXCEPT !.at = "tell"]]
      \/ drainers' = [drainers EXCEPT ![d] = [@ EXCEPT !.at = "tell",
                                                      !.copy = AtRest.copy]]
  BY DEF ReadPosition, WritePosition, Move
<1>5. CASE /\ drainers' = [drainers EXCEPT ![d] = [@ EXCEPT !.at = "write",
                                                          !.copy = position]]
           /\ Head(drainers[d].batch) \notin appliedIds
  <2>1. "write" \in {"apply", "write", "tell"}
    OBVIOUS
  <2> QED BY <1>2, <1>3, <1>5, <2>1, WorkFlow
<1>6. CASE drainers' = [drainers EXCEPT ![d] = [@ EXCEPT !.at = "tell"]]
  <2>1. [drainers[d] EXCEPT !.at = "tell"] =
            [drainers[d] EXCEPT !.at = "tell", !.copy = drainers[d].copy]
    BY <1>1 DEF Drainer
  <2>2. drainers' = [drainers EXCEPT ![d] = [@ EXCEPT !.at = "tell",
                                                    !.copy = drainers[d].copy]]
    BY <1>6, <2>1
  <2>3. "tell" \in {"apply", "write", "tell"}
    OBVIOUS
  <2> QED BY <1>1, <1>2, <1>3, <2>2, <2>3, WorkFlow
<1>7. CASE drainers' = [drainers EXCEPT ![d] = [@ EXCEPT !.at = "tell",
                                                       !.copy = AtRest.copy]]
  <2>1. AtRest.copy \in [Trades -> Nat]
    BY DEF AtRest
  <2>2. "tell" \in {"apply", "write", "tell"}
    OBVIOUS
  <2> QED BY <1>2, <1>3, <1>7, <2>1, <2>2, WorkFlow
<1> QED BY <1>4, <1>5, <1>6, <1>7

-----------------------------------------------------------------------------
(* Trades: how often a position counts one *)

TypedCount ==
    /\ position \in [Trades -> Nat] /\ rows \subseteq executed
    /\ reader \in Reader /\ appliedIds \subseteq Trades
    /\ cycle = "replay" => phase \in {"done", "stopping", "stopped"}

\* t is counted by the position, or by what will be stored as the position.
Included(t) ==
    \/ position[t] > 0
    \/ \E d \in Drainers : drainers[d].at = "write" /\ drainers[d].copy[t] > 0
    \/ phase = "store" /\ t \in rows
    \/ reader.at = "store" /\ t \in reader.rows

\* No event of t is on its way, and none will be queued.
Blocked(t) ==
    /\ t \notin Stored /\ \A d \in Drainers : t \notin Batch(d)
    /\ t \in seenIds \/ (phase \in {"store", "mark"} /\ t \in rows)

AtMostOnce ==
    \A t \in Trades \ exposed :
        /\ position[t] <= 1
        /\ \A d \in Drainers : drainers[d].at = "write" => drainers[d].copy[t] <= 1

WritesUnapplied ==
    \A d \in Drainers :
        drainers[d].at = "write" => Head(drainers[d].batch) \notin appliedIds

IncludedIsBlocked ==
    \A t \in Trades \ (exposed \cup appliedIds) : Included(t) => Blocked(t)

CountInv == TypedCount /\ AtMostOnce /\ WritesUnapplied /\ IncludedIsBlocked

TradesInv == FlowInv /\ CountInv

LEMMA InitTrades == EventsInit => TradesInv
<1> SUFFICES ASSUME EventsInit PROVE TradesInv
  OBVIOUS
<1>1. \A d \in Drainers : drainers[d].at = "idle"
  BY DEF EventsInit, AtRest
<1>2. TypedCount
  BY DEF EventsInit, TypedCount, Reader, NoReader
<1>3. \A t \in Trades : position[t] = 0 /\ ~Included(t)
  BY <1>1 DEF EventsInit, Included, NoReader
<1> QED BY <1>1, <1>2, <1>3, InitFlow DEF TradesInv, CountInv, AtMostOnce, WritesUnapplied,
                                         IncludedIsBlocked

\* Steps that leave the position, its copies and the applied trades alone keep
\* the invariant if what is counted stays out of the way of its events.
LEMMA QuietCount ==
    ASSUME TradesInv, UNCHANGED <<position, drainers, appliedIds>>, TypedCount',
           exposed \subseteq exposed',
           \A t \in Trades \ (exposed' \cup appliedIds) : Included(t)' => Blocked(t)'
    PROVE  CountInv'
<1>1. AtMostOnce'
  BY DEF TradesInv, CountInv, AtMostOnce
<1>2. WritesUnapplied'
  BY DEF TradesInv, CountInv, WritesUnapplied
<1>3. IncludedIsBlocked'
  BY DEF IncludedIsBlocked
<1> QED BY <1>1, <1>2, <1>3 DEF CountInv

\* A trade that is pushed while positions are being read is exposed.
LEMMA PushCount ==
    ASSUME TradesInv, NEW p \in Trades, PushTrade(p) PROVE CountInv'
<1>1. /\ p \in executed /\ store' = Queued(p) /\ seenIds' = seenIds \cup {p}
      /\ exposed' = exposed \cup ExposedBy(p)
      /\ UNCHANGED <<executed, phase, rows, reader, position, appliedIds, drainers,
                     cycle>>
  BY DEF PushTrade, positionVars, cycleVars
<1>2. TypedCount'
  BY <1>1 DEF TradesInv, CountInv, TypedCount
<1>3. ASSUME NEW t \in Trades \ (exposed' \cup appliedIds), Included(t)'
      PROVE  Blocked(t)'
  <2>1. Included(t)
    BY <1>1, <1>3 DEF Included
  <2>2. Blocked(t)
    BY <1>1, <1>3, <2>1 DEF TradesInv, CountInv, IncludedIsBlocked
  <2>3. \A d \in Drainers : Batch(d)' = Batch(d)
    BY <1>1 DEF Batch
  <2>4. t \notin Stored'
    <3>1. CASE p \in seenIds
      BY <1>1, <2>2, <3>1 DEF Blocked, Queued, Fresh, Stored
    <3>2. CASE p \notin seenIds
      <4>1. store \in Seq(Trades) /\ store' = Append(store, p)
        BY <1>1, <3>2 DEF TradesInv, FlowInv, TypedFlow, Queued, Fresh
      <4>2. Stored' = Stored \cup {p}
        BY <4>1, AppendTrade DEF Stored, Elems
      <4>3. t # p
        BY <1>1, <1>3, <2>2, <3>2 DEF Blocked, ExposedBy, Fresh
      <4> QED BY <2>2, <4>2, <4>3 DEF Blocked
    <3> QED BY <3>1, <3>2
  <2> QED BY <1>1, <2>2, <2>3, <2>4 DEF Blocked
<1> QED BY <1>1, <1>2, <1>3, QuietCount

\* A replayed trade that is counted was seen.
LEMMA ReplayCount ==
    ASSUME TradesInv, NEW p \in Trades, ReplayTrade(p) PROVE CountInv'
<1>1. /\ cycle = "replay" /\ store' = Queued(p) /\ seenIds' = seenIds \cup {p}
      /\ UNCHANGED <<executed, phase, rows, reader, exposed, position, appliedIds,
                     drainers, cycle>>
  BY DEF ReplayTrade, brokerVars, baseVars, positionVars
<1>2. TypedCount' /\ phase \notin {"store", "mark"}
  BY <1>1 DEF TradesInv, CountInv, TypedCount
<1>3. ASSUME NEW t \in Trades \ (exposed' \cup appliedIds), Included(t)'
      PROVE  Blocked(t)'
  <2>1. Included(t)
    BY <1>1, <1>3 DEF Included
  <2>2. Blocked(t) /\ t \in seenIds
    BY <1>1, <1>2, <1>3, <2>1 DEF TradesInv, CountInv, IncludedIsBlocked, Blocked
  <2>3. \A d \in Drainers : Batch(d)' = Batch(d)
    BY <1>1 DEF Batch
  <2>4. t \notin Stored'
    <3>1. CASE p \in seenIds
      BY <1>1, <2>2, <3>1 DEF Blocked, Queued, Fresh, Stored
    <3>2. CASE p \notin seenIds
      <4>1. store \in Seq(Trades) /\ store' = Append(store, p)
        BY <1>1, <3>2 DEF TradesInv, FlowInv, TypedFlow, Queued, Fresh
      <4>2. Stored' = Stored \cup {p}
        BY <4>1, AppendTrade DEF Stored, Elems
      <4> QED BY <2>2, <3>2, <4>2 DEF Blocked
    <3> QED BY <3>1, <3>2
  <2> QED BY <1>1, <2>2, <2>3, <2>4 DEF Blocked
<1> QED BY <1>1, <1>2, <1>3, QuietCount

\* The base line: what it counts is out of the queue and becomes seen, or is
\* exposed.
LEMMA BaselineCount ==
    ASSUME TradesInv, BaselineStep PROVE CountInv'
<1>0. Batch("dispatch")' = Batch("dispatch") /\ UNCHANGED drainers
  BY DEF BaselineStep, DiscardPendingTrades, QueryPositions, StorePositions,
         MarkTradesSeen, Batch
<1>1. \A d \in Drainers : Batch(d)' = Batch(d)
  BY <1>0 DEF Batch
<1>2. CASE DiscardPendingTrades
  <2>1. /\ phase = "waiting" /\ phase' = "query" /\ seenIds \subseteq seenIds'
        /\ store' = <<>>
        /\ UNCHANGED <<executed, rows, reader, exposed, position, appliedIds, cycle>>
    BY <1>2 DEF DiscardPendingTrades, brokerVars, positionVars, cycleVars
  <2>2. Stored' = {}
    BY <2>1, NothingInEmpty DEF Stored, Elems
  <2>3. TypedCount'
    BY <2>1 DEF TradesInv, CountInv, TypedCount
  <2>4. ASSUME NEW t \in Trades \ (exposed' \cup appliedIds), Included(t)'
        PROVE  Blocked(t)'
    <3>1. Included(t)
      BY <1>0, <2>1, <2>4 DEF Included
    <3>2. Blocked(t) /\ t \in seenIds
      BY <2>1, <2>4, <3>1 DEF TradesInv, CountInv, IncludedIsBlocked, Blocked
    <3> QED BY <1>1, <2>1, <2>2, <3>2 DEF Blocked
  <2> QED BY <1>0, <2>1, <2>3, <2>4, QuietCount
<1>3. CASE QueryPositions
  <2>1. /\ phase = "query" /\ phase' \in {"store", "mark"} /\ exposed \subseteq exposed'
        /\ \/ phase' = "mark" /\ rows' = rows
           \/ /\ rows' = executed
              /\ exposed' = exposed \cup (executed \cap (Stored \cup InHand))
        /\ UNCHANGED <<executed, store, seenIds, reader, position, appliedIds, cycle>>
    BY <1>3 DEF QueryPositions, brokerVars, positionVars, cycleVars
  <2>2. Stored' = Stored /\ \A d \in Drainers : Batch(d) \subseteq InHand
    BY <2>1 DEF Stored, InHand
  <2>3. TypedCount'
    BY <2>1 DEF TradesInv, CountInv, TypedCount
  <2>4. ASSUME NEW t \in Trades \ (exposed' \cup appliedIds), Included(t)'
        PROVE  Blocked(t)'
    <3>1. CASE Included(t)
      <4>1. Blocked(t) /\ t \in seenIds
        BY <2>1, <2>4, <3>1 DEF TradesInv, CountInv, IncludedIsBlocked, Blocked
      <4> QED BY <1>1, <2>1, <2>2, <4>1 DEF Blocked
    <3>2. CASE ~Included(t)
      <4>1. phase' = "store" /\ t \in rows'
        BY <1>0, <2>1, <2>4, <3>2 DEF Included
      <4>2. t \notin Stored \cup InHand
        BY <2>1, <2>4, <4>1
      <4> QED BY <1>1, <2>2, <4>1, <4>2 DEF Blocked
    <3> QED BY <3>1, <3>2
  <2> QED BY <1>0, <2>1, <2>3, <2>4, QuietCount
<1>4. CASE StorePositions
  <2>1. /\ phase = "store" /\ phase' = "mark" /\ position' = Counted(rows)
        /\ UNCHANGED <<executed, store, seenIds, rows, reader, exposed, appliedIds, cycle>>
    BY <1>4 DEF StorePositions, brokerVars, cycleVars
  <2>2. Stored' = Stored
    BY <2>1 DEF Stored
  <2>3. /\ position' \in [Trades -> Nat]
        /\ \A t \in Trades : position'[t] <= 1 /\ (position'[t] > 0 <=> t \in rows)
    BY <2>1 DEF Counted
  <2>4. TypedCount'
    BY <2>1, <2>3 DEF TradesInv, CountInv, TypedCount
  <2>5. AtMostOnce'
    BY <1>0, <2>1, <2>3 DEF TradesInv, CountInv, AtMostOnce
  <2>6. WritesUnapplied'
    BY <1>0, <2>1 DEF TradesInv, CountInv, WritesUnapplied
  <2>7. ASSUME NEW t \in Trades \ (exposed' \cup appliedIds'), Included(t)'
        PROVE  Blocked(t)'
    <3>1. Included(t)
      BY <1>0, <2>1, <2>3, <2>7 DEF Included
    <3>2. Blocked(t)
      BY <2>1, <2>7, <3>1 DEF TradesInv, CountInv, IncludedIsBlocked
    <3> QED BY <1>1, <2>1, <2>2, <3>2 DEF Blocked
  <2> QED BY <2>4, <2>5, <2>6, <2>7 DEF CountInv, IncludedIsBlocked
<1>5. CASE MarkTradesSeen
  <2>1. /\ phase = "mark" /\ phase' = "done"
        /\ \/ seenIds' = seenIds \cup executed /\ exposed' = exposed
           \/ exposed' = exposed \cup Fresh(executed) /\ seenIds' = seenIds
        /\ rows' = {}
        /\ UNCHANGED <<executed, store, reader, position, appliedIds, cycle>>
    BY <1>5 DEF MarkTradesSeen, brokerVars, positionVars, cycleVars
  <2>2. Stored' = Stored
    BY <2>1 DEF Stored
  <2>3. TypedCount' /\ rows \subseteq executed
    BY <2>1 DEF TradesInv, CountInv, TypedCount
  <2>4. ASSUME NEW t \in Trades \ (exposed' \cup appliedIds), Included(t)'
        PROVE  Blocked(t)'
    <3>1. Included(t)
      BY <1>0, <2>1, <2>4 DEF Included
    <3>2. Blocked(t)
      BY <2>1, <2>4, <3>1 DEF TradesInv, CountInv, IncludedIsBlocked
    <3>3. t \in seenIds'
      BY <2>1, <2>3, <2>4, <3>2 DEF Blocked, Fresh
    <3> QED BY <1>1, <2>2, <3>2, <3>3 DEF Blocked
  <2> QED BY <1>0, <2>1, <2>3, <2>4, QuietCount
<1> QED BY <1>2, <1>3, <1>4, <1>5 DEF BaselineStep

\* A callback reads positions: what they count was applied, or is exposed.
LEMMA ReaderCount ==
    ASSUME TradesInv, ReadPositions \/ StoreRead PROVE CountInv'
<1>0. /\ UNCHANGED <<store, drainers, seenIds, phase, rows, executed, appliedIds, cycle>>
  BY DEF ReadPositions, StoreRead, brokerVars, positionVars, cycleVars
<1>1. Stored' = Stored /\ \A d \in Drainers : Batch(d)' = Batch(d)
  BY <1>0 DEF Stored, Batch
<1>2. CASE ReadPositions
  <2>1. /\ reader' = [at |-> "store", rows |-> executed]
        /\ exposed' = exposed \cup (executed \ appliedIds) /\ position' = position
    BY <1>2 DEF ReadPositions, positionVars
  <2>2. TypedCount'
    BY <1>0, <2>1 DEF TradesInv, FlowInv, TypedFlow, CountInv, TypedCount, Reader
  <2>3. ASSUME NEW t \in Trades \ (exposed' \cup appliedIds), Included(t)'
        PROVE  Blocked(t)'
    <3>1. t \notin executed
      BY <2>1, <2>3
    <3>2. Included(t)
      BY <1>0, <2>1, <2>3, <3>1 DEF Included
    <3>3. Blocked(t)
      BY <2>1, <2>3, <3>2 DEF TradesInv, CountInv, IncludedIsBlocked
    <3> QED BY <1>0, <1>1, <3>3 DEF Blocked
  <2> QED BY <1>0, <2>1, <2>2, <2>3, QuietCount
<1>3. CASE StoreRead
  <2>1. /\ reader.at = "store" /\ position' = Counted(reader.rows) /\ reader' = NoReader
        /\ exposed' = exposed
    BY <1>3 DEF StoreRead
  <2>2. /\ position' \in [Trades -> Nat]
        /\ \A t \in Trades :
              position'[t] <= 1 /\ (position'[t] > 0 <=> t \in reader.rows)
    BY <2>1 DEF Counted
  <2>3. TypedCount'
    BY <1>0, <2>1, <2>2 DEF TradesInv, CountInv, TypedCount, Reader, NoReader
  <2>4. AtMostOnce'
    BY <1>0, <2>1, <2>2 DEF TradesInv, CountInv, AtMostOnce
  <2>5. WritesUnapplied'
    BY <1>0 DEF TradesInv, CountInv, WritesUnapplied
  <2>6. ASSUME NEW t \in Trades \ (exposed' \cup appliedIds'), Included(t)'
        PROVE  Blocked(t)'
    <3>1. Included(t)
      BY <1>0, <2>1, <2>2, <2>6 DEF Included, NoReader
    <3>2. Blocked(t)
      BY <1>0, <2>1, <2>6, <3>1 DEF TradesInv, CountInv, IncludedIsBlocked
    <3> QED BY <1>0, <1>1, <3>2 DEF Blocked
  <2> QED BY <2>3, <2>4, <2>5, <2>6 DEF CountInv, IncludedIsBlocked
<1> QED BY <1>2, <1>3

\* Steps that move no event and no position.
LEMMA OtherCount ==
    ASSUME TradesInv,
           \/ \E t \in Trades : ExecuteTrade(t)
           \/ StopSession \/ StopDispatch
           \/ WakeUp \/ SkipTrades \/ SyncTodayTrades \/ ReplayDone
           \/ UNCHANGED eventVars
    PROVE  CountInv'
<1>1. /\ UNCHANGED <<store, drainers, seenIds, rows, reader, exposed, position, appliedIds>>
      /\ executed \subseteq executed'
      /\ \/ phase' = phase
         \/ phase = "done" /\ phase' = "stopping"
         \/ phase = "stopping" /\ phase' = "stopped"
      /\ cycle' = "replay" => phase' \in {"done", "stopping"} \/ cycle = "replay"
  BY DEF ExecuteTrade, StopSession, StopDispatch, WakeUp, SkipTrades, SyncTodayTrades,
         ReplayDone, Stage, eventVars, brokerVars, cycleVars, baseVars, positionVars
<1>2. Stored' = Stored /\ \A d \in Drainers : Batch(d)' = Batch(d)
  BY <1>1 DEF Stored, Batch
<1>3. TypedCount'
  BY <1>1 DEF TradesInv, CountInv, TypedCount
<1>4. ASSUME NEW t \in Trades \ (exposed' \cup appliedIds), Included(t)'
      PROVE  Blocked(t)'
  <2>1. Included(t)
    BY <1>1, <1>4 DEF Included
  <2>2. Blocked(t)
    BY <1>1, <1>4, <2>1 DEF TradesInv, CountInv, IncludedIsBlocked
  <2> QED BY <1>1, <1>2, <2>2 DEF Blocked
<1> QED BY <1>1, <1>3, <1>4, QuietCount

\* Taking the queue, or telling a trade, counts nothing.
LEMMA DrainCount ==
    ASSUME TradesInv, NEW d \in Drainers, Drain(d) \/ OnTrade(d) PROVE CountInv'
<1>1. /\ UNCHANGED <<executed, seenIds, phase, rows, reader, exposed, position,
                     appliedIds>>
      /\ cycle' = cycle \/ cycle' = "sleep"
  BY DEF Drain, OnTrade, brokerVars, baseVars, positionVars
<1>2. /\ drainers'[d].at # "write"
      /\ \A e \in Drainers \ {d} : drainers'[e] = drainers[e]
      /\ \A t : (t \notin Stored /\ \A e \in Drainers : t \notin Batch(e)) =>
                  t \notin Stored' /\ \A e \in Drainers : t \notin Batch(e)'
  <2>1. CASE Drain(d)
    BY <2>1, DrainFlow DEF TradesInv
  <2>2. CASE OnTrade(d)
    BY <2>2, TellFlow DEF TradesInv
  <2> QED BY <2>1, <2>2
<1>3. TypedCount'
  BY <1>1 DEF TradesInv, CountInv, TypedCount
<1>4. AtMostOnce'
  BY <1>1, <1>2 DEF TradesInv, CountInv, AtMostOnce
<1>5. WritesUnapplied'
  BY <1>1, <1>2 DEF TradesInv, CountInv, WritesUnapplied
<1>6. ASSUME NEW t \in Trades \ (exposed' \cup appliedIds'), Included(t)'
      PROVE  Blocked(t)'
  <2>1. Included(t)
    BY <1>1, <1>2, <1>6 DEF Included
  <2>2. Blocked(t)
    BY <1>1, <1>6, <2>1 DEF TradesInv, CountInv, IncludedIsBlocked
  <2> QED BY <1>1, <1>2, <2>2 DEF Blocked
<1> QED BY <1>3, <1>4, <1>5, <1>6 DEF CountInv, IncludedIsBlocked

\* The trade a thread works on is in no other thread's batch.
LEMMA HeadIsOwn ==
    ASSUME FlowInv, NEW d \in Drainers, drainers[d].at \in {"apply", "write", "tell"}
    PROVE  /\ Head(drainers[d].batch) \in Trades
           /\ Head(drainers[d].batch) \in Batch(d)
           /\ \A e \in Drainers \ {d} :
                 drainers[e].at \in {"apply", "write", "tell"} =>
                     Head(drainers[e].batch) # Head(drainers[d].batch)
<1>1. ASSUME NEW e \in Drainers, drainers[e].at \in {"apply", "write", "tell"}
      PROVE  Head(drainers[e].batch) \in Trades /\ Head(drainers[e].batch) \in Batch(e)
  <2>1. /\ drainers[e].batch \in Seq(Trades) /\ drainers[e].batch # <<>>
        /\ NoTwice(drainers[e].batch)
    BY <1>1 DEF FlowInv, TypedFlow, Drainer, OnTheirWay
  <2> QED BY <2>1, TailTrade, StoredElems
<1>2. \A e \in Drainers \ {d} : Batch(e) \cap Batch(d) = {}
  BY DEF FlowInv, OnTheirWay
<1> QED BY <1>1, <1>2

\* A thread applies a trade: nobody else will, and nothing counts it already.
LEMMA ApplyCount ==
    ASSUME TradesInv, NEW d \in Drainers, ReadPosition(d) \/ WritePosition(d)
    PROVE  CountInv'
<1> DEFINE t == Head(drainers[d].batch)
<1>1. /\ UNCHANGED <<executed, seenIds, phase, rows, reader, exposed, cycle>>
      /\ \/ position' = position
         \/ /\ drainers[d].at = "write"
            /\ position' = [drainers[d].copy EXCEPT ![t] = @ + 1]
            /\ appliedIds' = appliedIds \cup {t} /\ drainers'[d].at # "write"
      /\ appliedIds' = appliedIds \/ appliedIds' = appliedIds \cup {t}
      /\ drainers[d].at \in {"apply", "write", "tell"}
      /\ drainers'[d].at = "write" => appliedIds' = appliedIds
  <2>0. drainers \in [Drainers -> Drainer]
    BY DEF TradesInv, FlowInv, TypedFlow
  <2>1. CASE ReadPosition(d)
    BY <2>0, <2>1 DEF ReadPosition, Move, Drainer, brokerVars, baseVars, cycleVars
  <2>2. CASE WritePosition(d)
    BY <2>0, <2>2 DEF WritePosition, Drainer, brokerVars, baseVars, cycleVars
  <2> QED BY <2>1, <2>2
<1>2. /\ Stored' = Stored
      /\ \A e \in Drainers : drainers'[e].batch = drainers[e].batch
      /\ \A e \in Drainers : Batch(e)' = Batch(e)
      /\ \A e \in Drainers \ {d} : drainers'[e] = drainers[e]
      /\ \/ drainers'[d].at = "write" /\ drainers'[d].copy = position /\ t \notin appliedIds
         \/ drainers'[d].at = "tell"
  BY ApplyFlow DEF TradesInv, CountInv, TypedCount
<1>3. /\ t \in Trades /\ t \in Batch(d)
      /\ \A e \in Drainers \ {d} :
            drainers[e].at = "write" => Head(drainers[e].batch) # t
  BY <1>1, HeadIsOwn DEF TradesInv
<1>4. drainers[d].copy \in [Trades -> Nat] /\ position \in [Trades -> Nat]
  BY DEF TradesInv, FlowInv, TypedFlow, Drainer, CountInv, TypedCount
<1>6. drainers[d].at = "write" /\ t \notin exposed => drainers[d].copy[t] = 0
  <2> SUFFICES ASSUME drainers[d].at = "write", t \notin exposed
               PROVE  drainers[d].copy[t] = 0
    OBVIOUS
  <2>1. t \notin appliedIds
    BY DEF TradesInv, CountInv, WritesUnapplied
  <2>2. ~Blocked(t)
    BY <1>3 DEF Blocked
  <2>3. ~Included(t)
    BY <1>3, <2>1, <2>2 DEF TradesInv, CountInv, IncludedIsBlocked
  <2> QED BY <1>3, <1>4, <2>3 DEF Included
<1> HIDE DEF t
<1>7. \A u \in Trades : u # t => position'[u] = position[u] \/
                               (drainers[d].at = "write" /\ position'[u] = drainers[d].copy[u])
  BY <1>1, <1>4
<1>8. position' \in [Trades -> Nat]
  BY <1>1, <1>3, <1>4
<1>9. TypedCount'
  BY <1>1, <1>3, <1>8 DEF TradesInv, CountInv, TypedCount
<1>10. ASSUME NEW u \in Trades \ exposed
       PROVE  /\ position'[u] <= 1
              /\ \A e \in Drainers : drainers'[e].at = "write" => drainers'[e].copy[u] <= 1
  <2>1. /\ position[u] <= 1
        /\ \A e \in Drainers : drainers[e].at = "write" => drainers[e].copy[u] <= 1
    BY DEF TradesInv, CountInv, AtMostOnce
  <2>2. position'[u] <= 1
    <3>1. CASE u = t
      BY <1>1, <1>3, <1>4, <1>6, <2>1, <3>1
    <3>2. CASE u # t
      BY <1>7, <2>1, <3>2
    <3> QED BY <3>1, <3>2
  <2> QED BY <1>2, <2>1, <2>2
<1>11. AtMostOnce'
  BY <1>1, <1>10 DEF AtMostOnce
<1>12. WritesUnapplied'
  <2> SUFFICES ASSUME NEW e \in Drainers, drainers'[e].at = "write"
               PROVE  Head(drainers[e].batch) \notin appliedIds'
    BY <1>2 DEF WritesUnapplied
  <2>1. CASE e = d
    BY <1>1, <1>2, <2>1 DEF t
  <2>2. CASE e # d
    BY <1>1, <1>2, <1>3, <2>2 DEF TradesInv, CountInv, WritesUnapplied
  <2> QED BY <2>1, <2>2
<1>13. ASSUME NEW u \in Trades \ (exposed' \cup appliedIds'), Included(u)'
       PROVE  Blocked(u)'
  <2>1. u \notin exposed /\ u \notin appliedIds
    BY <1>1, <1>13
  <2>2. position' # position => u # t
    BY <1>1, <1>13
  <2>3. Included(u)
    <3>1. position'[u] > 0 => Included(u)
      BY <1>7, <2>2 DEF Included
    <3>2. ASSUME NEW e \in Drainers, drainers'[e].at = "write", drainers'[e].copy[u] > 0
          PROVE  Included(u)
      BY <1>2, <3>2 DEF Included
    <3>3. UNCHANGED <<phase, rows, reader>>
      BY <1>1
    <3> QED BY <1>13, <3>1, <3>2, <3>3 DEF Included
  <2>4. Blocked(u)
    BY <2>1, <2>3 DEF TradesInv, CountInv, IncludedIsBlocked
  <2> QED BY <1>1, <1>2, <2>4 DEF Blocked
<1> QED BY <1>9, <1>11, <1>12, <1>13 DEF CountInv, IncludedIsBlocked

\* Every step keeps both invariants, and is a step of the feed.
LEMMA StepTrades ==
    TradesInv /\ [EventsNext]_eventVars => TradesInv' /\ [Feed!FeedNext]_<<executed, told>>
<1> SUFFICES ASSUME TradesInv, [EventsNext]_eventVars
             PROVE  TradesInv' /\ [Feed!FeedNext]_<<executed, told>>
  OBVIOUS
<1>1. ASSUME NEW t \in Trades, ExecuteTrade(t)
      PROVE  TradesInv' /\ [Feed!FeedNext]_<<executed, told>>
  <2>1. Feed!ExecuteTrade(t)
    BY <1>1 DEF ExecuteTrade, Feed!ExecuteTrade
  <2> QED BY <1>1, <2>1, OtherFlow, OtherCount DEF TradesInv, Feed!FeedNext
<1>2. ASSUME NEW t \in Trades, PushTrade(t) \/ ReplayTrade(t)
      PROVE  TradesInv' /\ [Feed!FeedNext]_<<executed, told>>
  BY <1>2, PushFlow, PushCount, ReplayCount DEF TradesInv
<1>3. CASE BaselineStep
  <2>1. CountInv'
    BY <1>3, BaselineCount
  <2>2. FlowInv'
    BY <1>3, DiscardFlow, OtherFlow DEF BaselineStep, TradesInv
  <2>3. UNCHANGED <<executed, told>>
    BY <1>3 DEF BaselineStep, DiscardPendingTrades, QueryPositions, StorePositions,
                MarkTradesSeen, brokerVars
  <2> QED BY <2>1, <2>2, <2>3 DEF TradesInv
<1>4. CASE ReadPositions \/ StoreRead
  <2>1. UNCHANGED <<executed, told>>
    BY <1>4 DEF ReadPositions, StoreRead, brokerVars
  <2> QED BY <1>4, <2>1, OtherFlow, ReaderCount DEF TradesInv
<1>5. CASE \/ StopSession \/ StopDispatch \/ WakeUp \/ SkipTrades \/ SyncTodayTrades
           \/ ReplayDone \/ UNCHANGED eventVars
  <2>1. UNCHANGED <<executed, told>>
    BY <1>5 DEF StopSession, StopDispatch, WakeUp, SkipTrades, SyncTodayTrades,
                ReplayDone, Stage, eventVars, brokerVars
  <2> QED BY <1>5, <2>1, OtherFlow, OtherCount DEF TradesInv
<1>6. ASSUME NEW d \in Drainers, ReadPosition(d) \/ WritePosition(d)
      PROVE  TradesInv' /\ [Feed!FeedNext]_<<executed, told>>
  BY <1>6, ApplyFlow, ApplyCount DEF TradesInv, CountInv, TypedCount
<1>7. ASSUME NEW d \in Drainers, Drain(d)
      PROVE  TradesInv' /\ [Feed!FeedNext]_<<executed, told>>
  <2>1. UNCHANGED <<executed, told>>
    BY <1>7 DEF Drain, brokerVars
  <2> QED BY <1>7, <2>1, DrainFlow, DrainCount DEF TradesInv
<1>8. ASSUME NEW d \in Drainers, OnTrade(d)
      PROVE  TradesInv' /\ [Feed!FeedNext]_<<executed, told>>
  <2>1. \E t \in Trades : Feed!TellTrade(t)
    BY <1>8, TellFlow DEF TradesInv, FlowInv, TypedFlow, Feed!TellTrade
  <2> QED BY <1>8, <2>1, TellFlow, DrainCount DEF TradesInv, Feed!FeedNext
<1> QED BY <1>1, <1>2, <1>3, <1>4, <1>5, <1>6, <1>7, <1>8
        DEF EventsNext, DrainStep, CycleStep

\* on_trade is called at most once for a trade, for any trades and pushes: the
\* session implements TradeFeed (broker_event_bridge.py, queue_event).
THEOREM TradesToldOnceCorrect == EventsSpec => TradesToldOnce
<1>1. EventsInit => Feed!FeedInit
  BY DEF EventsInit, Feed!FeedInit
<1> QED BY <1>1, InitTrades, StepTrades, PTL DEF EventsSpec, TradesToldOnce, Feed!FeedSpec

\* The cached position never counts a trade twice, unless its event was on its way
\* when positions were read; nothing is said of a trade that it misses
\* (broker_state_cache.py, apply_fill).
THEOREM CountedAtMostOnceCorrect == EventsSpec => []CountedAtMostOnce
<1>1. TradesInv => CountedAtMostOnce
  BY DEF TradesInv, CountInv, AtMostOnce, CountedAtMostOnce
<1> QED BY <1>1, InitTrades, StepTrades, PTL DEF EventsSpec

-----------------------------------------------------------------------------
(* Brackets: types *)

HandlerPlaces == {"idle", "enter", "bracket", "take", "link", "oco"}
Trade == [order : VenueOrders \cup {Nobody}, n : Nat, matched : BOOLEAN]
VenueTrade == [order : VenueOrders, n : Nat]
Holding == {"bracket", "take", "link", "oco"}

MarketTyped(m) ==
    m \in [at : {"idle", "register", "submit", "remap"},
           batch : SUBSET Brackets, on : SUBSET Brackets]
HandlersTyped(hs) ==
    /\ hs \in [Handlers -> [at : HandlerPlaces, trade : Trade]]
    /\ \A d \in Handlers : hs[d].at # "idle" => hs[d].trade.order \in VenueOrders
    /\ \A d \in Handlers :
          hs[d].at \in {"take", "link"} => hs[d].trade.order[2] = "entry"

Typed ==
    /\ MarketTyped(market) /\ HandlersTyped(handlers)
    /\ called \subseteq Brackets /\ pending \subseteq Brackets
    /\ book \subseteq Brackets /\ cancelled \subseteq Brackets
    /\ attempts \in [Brackets -> Nat] /\ registered \in [Brackets -> Nat]
    /\ sent \in [VenueOrders -> Nat] /\ filled \in [VenueOrders -> Nat]
    /\ events \subseteq VenueTrade

\* What a draining thread goes on with has the types of a job.
LEMMA HandlerMoves ==
    ASSUME HandlersTyped(handlers), NEW d \in Handlers, NEW h,
           h \in [at : HandlerPlaces, trade : Trade],
           h.at # "idle" => h.trade.order \in VenueOrders,
           h.at \in {"take", "link"} => h.trade.order[2] = "entry",
           handlers' = [handlers EXCEPT ![d] = h]
    PROVE  HandlersTyped(handlers)'
BY DEF HandlersTyped

\* The same of one that keeps its trade.
LEMMA AdvanceTyped ==
    ASSUME HandlersTyped(handlers), NEW d \in Handlers,
           handlers[d].at # "idle", NEW at \in HandlerPlaces,
           at \in {"take", "link"} => handlers[d].trade.order[2] = "entry",
           Advance(d, at)
    PROVE  /\ HandlersTyped(handlers)'
           /\ handlers'[d].at = at /\ handlers'[d].trade = handlers[d].trade
           /\ \A c \in Handlers \ {d} : handlers'[c] = handlers[c]
<1> DEFINE h == [handlers[d] EXCEPT !.at = at]
<1>1. handlers[d] \in [at : HandlerPlaces, trade : Trade]
  BY DEF HandlersTyped
<1>2. /\ h \in [at : HandlerPlaces, trade : Trade]
      /\ h.at = at /\ h.trade = handlers[d].trade
  BY <1>1
<1>3. handlers' = [handlers EXCEPT ![d] = h]
  BY DEF Advance
<1> HIDE DEF h
<1>4. HandlersTyped(handlers)'
  BY <1>2, <1>3, HandlerMoves DEF HandlersTyped
<1> QED BY <1>2, <1>3, <1>4 DEF HandlersTyped

-----------------------------------------------------------------------------
(* Brackets: the inductive invariant *)

\* The market thread has a batch only while it submits it, and one stop
\* between its submission and its remapping.
MarketShape ==
    /\ market.at \in {"idle", "register"} => market.batch = {}
    /\ market.at = "remap" => \E b \in Brackets : market.on = {b}

Registering(b) == market.at = "register" /\ b \in market.on
Submitted(b) == market.at = "remap" /\ b \in market.on
StopSent(b) == sent[<<b, "stop">>]
TakeSent(b) == sent[<<b, "take">>]

\* A stop is in one place: unborn, in the book, in the batch, at the venue,
\* cancelled.
StopPlaces(b) ==
    /\ StopSent(b) <= 1
    /\ b \in book => StopSent(b) = 0 /\ b \notin market.batch \cup cancelled
    /\ b \in market.batch => b \notin cancelled /\ (StopSent(b) = 0 \/ Submitted(b))
    /\ b \in cancelled => StopSent(b) = 0
    /\ Submitted(b) => StopSent(b) = 1

\* Nothing of a bracket's exits exists before they are registered, and a
\* registered bracket does not wait for its entry any more.
Born(b) ==
    /\ registered[b] = 0 =>
          /\ StopSent(b) = 0 /\ TakeSent(b) = 0
          /\ b \notin book \cup market.batch \cup cancelled
    /\ registered[b] <= 1
    /\ b \in pending \/ Registering(b) => registered[b] = 0 /\ b \in called
    /\ b \in pending => ~Registering(b)
    /\ b \notin called => registered[b] = 0

\* The lock of the groups is held by the thread inside process_order_groups.
LockHeld == \A d \in Handlers : handlers[d].at \in Holding <=> lock = d

\* The take-profit is not sent before the thread that creates it sends it.
TakePlaces(b) ==
    /\ TakeSent(b) <= 1
    /\ \A d \in Handlers :
          handlers[d].at = "take" /\ handlers[d].trade.order[1] = b =>
              registered[b] = 1 /\ TakeSent(b) = 0

IInv ==
    /\ Typed /\ MarketShape /\ LockHeld /\ StopAccountedFor
    /\ \A b \in Brackets : StopPlaces(b) /\ Born(b) /\ TakePlaces(b)

\* The invariant holds before any bracket is placed.
LEMMA InitIInv == OrdersInit => IInv
<1> SUFFICES ASSUME OrdersInit PROVE IInv
  OBVIOUS
<1>1. MarketTyped(market)
  BY DEF OrdersInit, MarketTyped
<1>2. HandlersTyped(handlers)
  <2>1. NoTrade \in Trade
    BY DEF NoTrade, Trade
  <2>2. Resting \in [at : HandlerPlaces, trade : Trade] /\ Resting.at = "idle"
    BY <2>1 DEF Resting, HandlerPlaces
  <2> HIDE DEF Resting
  <2> QED BY <2>2 DEF OrdersInit, HandlersTyped
<1>3. Typed
  BY <1>1, <1>2 DEF OrdersInit, Typed
<1>4. MarketShape /\ LockHeld /\ StopAccountedFor
  <2>1. \A d \in Handlers : handlers[d].at = "idle"
    BY DEF OrdersInit, Resting
  <2> QED BY <2>1, NobodyHandles
          DEF OrdersInit, MarketShape, LockHeld, Holding, StopAccountedFor
<1>5. ASSUME NEW b \in Brackets PROVE StopPlaces(b) /\ Born(b) /\ TakePlaces(b)
  <2>1. \A d \in Handlers : handlers[d].at = "idle"
    BY DEF OrdersInit, Resting
  <2>2. StopSent(b) = 0 /\ TakeSent(b) = 0
    BY DEF OrdersInit, StopSent, TakeSent, VenueOrders, Kinds
  <2> QED BY <2>1, <2>2 DEF OrdersInit, StopPlaces, Born, TakePlaces,
                            Registering, Submitted
<1> QED BY <1>3, <1>4, <1>5 DEF IInv

-----------------------------------------------------------------------------
(* The market thread *)

\* What the venue has received after one more order of a bracket.
LEMMA SentCounts ==
    ASSUME Typed, NEW b \in Brackets, NEW k \in Kinds, Sent(<<b, k>>)
    PROVE  /\ sent' \in [VenueOrders -> Nat]
           /\ \A x \in Brackets :
                 /\ StopSent(x)' = IF k = "stop" /\ x = b
                                   THEN StopSent(x) + 1 ELSE StopSent(x)
                 /\ TakeSent(x)' = IF k = "take" /\ x = b
                                   THEN TakeSent(x) + 1 ELSE TakeSent(x)
                 /\ StopSent(x) \in Nat /\ TakeSent(x) \in Nat
BY DEF Typed, Sent, StopSent, TakeSent, VenueOrders, Kinds

\* Steps that leave the draining threads, their lock and the take-profits.
LEMMA OutsideGroups ==
    ASSUME IInv, UNCHANGED <<handlers, lock, registered>>,
           \A x \in Brackets : TakeSent(x)' = TakeSent(x)
    PROVE  HandlersTyped(handlers') /\ LockHeld' /\ \A x \in Brackets : TakePlaces(x)'
<1>1. HandlersTyped(handlers') /\ LockHeld'
  BY DEF IInv, Typed, LockHeld
<1>2. ASSUME NEW x \in Brackets PROVE TakePlaces(x)'
  BY DEF IInv, TakePlaces
<1> QED BY <1>1, <1>2

\* The entry is sent, or may have been; nothing of its exits exists yet.
LEMMA PlaceEntryStep ==
    ASSUME IInv, NEW b \in Brackets, PlaceEntry(b) \/ PlaceEntryFails(b)
    PROVE  IInv'
<1>1. /\ market.at = "idle" /\ b \notin called /\ called' = called \cup {b}
      /\ market' = [market EXCEPT !.at = "register", !.on = {b}] \/ market' = market
      /\ UNCHANGED <<handlers, lock, pending, book, cancelled, attempts, registered,
                     filled, events, gaveUp>>
  BY DEF PlaceEntry, PlaceEntryFails, groupVars, stopVars
<1>2. /\ sent' \in [VenueOrders -> Nat]
      /\ \A x \in Brackets : StopSent(x)' = StopSent(x) /\ TakeSent(x)' = TakeSent(x)
  <2>1. CASE Sent(<<b, "entry">>)
    BY <2>1, SentCounts DEF IInv, Kinds
  <2>2. CASE UNCHANGED sent
    BY <2>2 DEF IInv, Typed, StopSent, TakeSent
  <2> QED BY <2>1, <2>2 DEF PlaceEntry, PlaceEntryFails, MaybeSent
<1>3. HandlersTyped(handlers') /\ LockHeld' /\ \A x \in Brackets : TakePlaces(x)'
  BY <1>1, <1>2, OutsideGroups
<1>4. /\ MarketTyped(market') /\ MarketShape' /\ market'.batch = {} /\ market.batch = {}
      /\ market'.at = "idle" \/ (market'.at = "register" /\ market'.on = {b})
  <2>1. MarketTyped(market) /\ market.batch = {}
    BY <1>1 DEF IInv, Typed, MarketShape
  <2>2. CASE market' = market
    <3>1. MarketTyped(market') /\ market'.batch = {} /\ market'.at = "idle"
      BY <1>1, <2>1, <2>2
    <3> QED BY <2>1, <3>1 DEF MarketShape
  <2>3. CASE market' = [market EXCEPT !.at = "register", !.on = {b}]
    <3>1. MarketTyped(market') /\ market'.batch = {}
          /\ market'.at = "register" /\ market'.on = {b}
      BY <2>1, <2>3 DEF MarketTyped
    <3> QED BY <2>1, <3>1 DEF MarketShape
  <2> QED BY <1>1, <2>2, <2>3
<1>5. Typed'
  BY <1>1, <1>2, <1>3, <1>4 DEF IInv, Typed
<1>6. ASSUME NEW x \in Brackets PROVE StopPlaces(x)' /\ Born(x)'
  <2>1. /\ ~Submitted(x) /\ ~Submitted(x)' /\ ~Registering(x)
        /\ Registering(x)' => x = b
    BY <1>1, <1>4 DEF Submitted, Registering
  <2>2. StopPlaces(x)'
    BY <1>1, <1>2, <1>4, <2>1 DEF IInv, StopPlaces
  <2>3. Born(x)'
    BY <1>1, <1>2, <1>4, <2>1 DEF IInv, Born
  <2> QED BY <2>2, <2>3
<1>7. StopAccountedFor'
  BY <1>1, <1>2, <1>4 DEF IInv, StopAccountedFor, StopSent
<1> QED BY <1>3, <1>4, <1>5, <1>6, <1>7 DEF IInv

\* The bracket waits for its entry.
LEMMA RegisterStep ==
    ASSUME IInv, RegisterBracket PROVE IInv'
<1>1. /\ market.at = "register" /\ pending' = pending \cup market.on
      /\ market' = [market EXCEPT !.at = "idle", !.on = {}]
      /\ UNCHANGED <<called, handlers, lock, book, cancelled, attempts, registered,
                     sent, filled, events, gaveUp>>
  BY DEF RegisterBracket, venueVars, stopVars
<1>2. \A x \in Brackets : StopSent(x)' = StopSent(x) /\ TakeSent(x)' = TakeSent(x)
  BY <1>1 DEF StopSent, TakeSent
<1>3. HandlersTyped(handlers') /\ LockHeld' /\ \A x \in Brackets : TakePlaces(x)'
  BY <1>1, <1>2, OutsideGroups
<1>4. MarketTyped(market') /\ MarketShape' /\ market'.batch = {} /\ market.batch = {}
      /\ market.on \subseteq Brackets
  BY <1>1 DEF IInv, Typed, MarketTyped, MarketShape
<1>5. Typed'
  BY <1>1, <1>3, <1>4 DEF IInv, Typed
<1>6. ASSUME NEW x \in Brackets PROVE StopPlaces(x)' /\ Born(x)'
  <2>1. /\ ~Submitted(x) /\ ~Submitted(x)' /\ ~Registering(x)'
        /\ Registering(x) <=> x \in market.on
    BY <1>1 DEF Submitted, Registering, IInv, Typed, MarketTyped
  <2>2. StopPlaces(x)'
    BY <1>1, <1>2, <1>4, <2>1 DEF IInv, StopPlaces
  <2>3. Born(x)'
    BY <1>1, <1>2, <1>4, <2>1 DEF IInv, Born
  <2> QED BY <2>2, <2>3
<1>7. StopAccountedFor'
  BY <1>1, <1>2, <1>4 DEF IInv, StopAccountedFor, StopSent
<1> QED BY <1>3, <1>4, <1>5, <1>6, <1>7 DEF IInv

\* Triggered stops go from the book to the batch.
LEMMA CheckStep ==
    ASSUME IInv, Check PROVE IInv'
<1>1. PICK hit \in SUBSET book : /\ market.at = "idle" /\ book' = book \ hit
                                 /\ market' = [at |-> "submit", batch |-> hit, on |-> {}]
  BY DEF Check
<1>0. UNCHANGED <<called, handlers, lock, pending, cancelled, attempts, registered,
                  sent, filled, events, gaveUp>>
  BY DEF Check, calledVars, venueVars, groupVars
<1>2. \A x \in Brackets : StopSent(x)' = StopSent(x) /\ TakeSent(x)' = TakeSent(x)
  BY <1>0 DEF StopSent, TakeSent
<1>3. HandlersTyped(handlers') /\ LockHeld' /\ \A x \in Brackets : TakePlaces(x)'
  BY <1>0, <1>2, OutsideGroups
<1>4. /\ MarketTyped(market') /\ MarketShape' /\ market.batch = {}
      /\ market'.at = "submit" /\ market'.batch = hit /\ hit \subseteq book
  BY <1>1 DEF IInv, Typed, MarketTyped, MarketShape
<1>5. Typed'
  BY <1>0, <1>1, <1>3, <1>4 DEF IInv, Typed
<1>6. ASSUME NEW x \in Brackets PROVE StopPlaces(x)' /\ Born(x)'
  <2>1. ~Submitted(x) /\ ~Submitted(x)' /\ ~Registering(x) /\ ~Registering(x)'
    BY <1>1, <1>4 DEF Submitted, Registering
  <2>2. StopPlaces(x)'
    BY <1>0, <1>1, <1>2, <1>4, <2>1 DEF IInv, StopPlaces
  <2>3. Born(x)'
    BY <1>0, <1>1, <1>2, <1>4, <2>1 DEF IInv, Born
  <2> QED BY <2>2, <2>3
<1>7. StopAccountedFor'
  BY <1>0, <1>1, <1>2, <1>4 DEF IInv, StopAccountedFor, StopSent
<1> QED BY <1>3, <1>4, <1>5, <1>6, <1>7 DEF IInv

\* A stop of the batch is sent, for the first time.
LEMMA AcceptedStep ==
    ASSUME IInv, NEW b \in Brackets, StopAccepted(b) PROVE IInv'
<1>1. /\ market.at = "submit" /\ b \in market.batch
      /\ market' = [market EXCEPT !.at = "remap", !.on = {b}]
      /\ UNCHANGED <<called, handlers, lock, pending, book, cancelled, attempts,
                     registered, filled, events, gaveUp>>
  BY DEF StopAccepted, calledVars, groupVars, stopVars
<1>2. /\ sent' \in [VenueOrders -> Nat]
      /\ \A x \in Brackets : /\ StopSent(x)' = IF x = b THEN StopSent(x) + 1
                                               ELSE StopSent(x)
                             /\ TakeSent(x)' = TakeSent(x)
                             /\ StopSent(x) \in Nat
  BY SentCounts DEF IInv, Kinds, StopAccepted
<1>3. HandlersTyped(handlers') /\ LockHeld' /\ \A x \in Brackets : TakePlaces(x)'
  BY <1>1, <1>2, OutsideGroups
<1>4. /\ MarketTyped(market') /\ MarketShape' /\ market'.batch = market.batch
      /\ market'.at = "remap" /\ market'.on = {b}
  BY <1>1 DEF IInv, Typed, MarketTyped, MarketShape
<1>5. Typed'
  BY <1>1, <1>2, <1>3, <1>4 DEF IInv, Typed
<1>6. ASSUME NEW x \in Brackets PROVE StopPlaces(x)' /\ Born(x)'
  <2>1. /\ ~Submitted(x) /\ (Submitted(x)' <=> x = b)
        /\ ~Registering(x) /\ ~Registering(x)'
    BY <1>1, <1>4 DEF Submitted, Registering
  <2>2. StopPlaces(x)'
    BY <1>1, <1>2, <1>4, <2>1 DEF IInv, StopPlaces
  <2>3. Born(x)'
    BY <1>1, <1>2, <1>4, <2>1 DEF IInv, Born
  <2> QED BY <2>2, <2>3
<1>7. StopAccountedFor'
  BY <1>1, <1>2, <1>4 DEF IInv, StopAccountedFor, StopSent
<1> QED BY <1>3, <1>4, <1>5, <1>6, <1>7 DEF IInv
\* The batch and the market thread after it is done with one of its stops.
LEMMA DoneLeaves ==
    ASSUME MarketTyped(market), market.at \in {"submit", "remap"},
           NEW b \in market.batch, Done(b)
    PROVE  /\ MarketTyped(market') /\ MarketShape'
           /\ market'.at \in {"idle", "submit"} /\ market'.on = {}
           /\ market'.batch = market.batch \ {b}
BY DEF Done, MarketTyped, MarketShape

\* A sent stop leaves the batch.
LEMMA RemapStep ==
    ASSUME IInv, RecordStopRemap PROVE IInv'
<1>1. /\ market.at = "remap"
      /\ UNCHANGED <<called, handlers, lock, pending, book, cancelled, attempts,
                     registered, sent, filled, events, gaveUp>>
  BY DEF RecordStopRemap, calledVars, groupVars, venueVars
<1>2. \A x \in Brackets : StopSent(x)' = StopSent(x) /\ TakeSent(x)' = TakeSent(x)
  BY <1>1 DEF StopSent, TakeSent
<1>3. HandlersTyped(handlers') /\ LockHeld' /\ \A x \in Brackets : TakePlaces(x)'
  BY <1>1, <1>2, OutsideGroups
<1>4. PICK b \in Brackets : market.on = {b} /\ Done(b)
  BY <1>1 DEF IInv, MarketShape, RecordStopRemap
<1>5. \A x \in Brackets : Submitted(x) <=> x = b
  BY <1>1, <1>4 DEF Submitted
<1>6. StopSent(b) = 1
  BY <1>5 DEF IInv, StopPlaces
<1>7. /\ MarketTyped(market') /\ MarketShape'
      /\ market'.at \in {"idle", "submit"} /\ market'.on = {}
      /\ market'.batch = market.batch \ {b}
  <2>1. CASE b \in market.batch
    BY <1>1, <1>4, <2>1, DoneLeaves DEF IInv, Typed
  <2>2. CASE b \notin market.batch
    BY <1>1, <1>4, <2>2 DEF IInv, Typed, Done, MarketTyped, MarketShape
  <2> QED BY <2>1, <2>2
<1>8. Typed'
  BY <1>1, <1>3, <1>7 DEF IInv, Typed
<1>9. ASSUME NEW x \in Brackets PROVE StopPlaces(x)' /\ Born(x)'
  <2>1. ~Submitted(x)' /\ ~Registering(x) /\ ~Registering(x)'
    BY <1>1, <1>7 DEF Submitted, Registering
  <2>2. StopPlaces(x)'
    BY <1>1, <1>2, <1>5, <1>7, <2>1 DEF IInv, StopPlaces
  <2>3. Born(x)'
    BY <1>1, <1>2, <1>7, <2>1 DEF IInv, Born
  <2> QED BY <2>2, <2>3
<1>10. StopAccountedFor'
  <2>1. sent[<<b, "stop">>] > 0
    BY <1>6 DEF StopSent
  <2> QED BY <1>1, <1>7, <2>1 DEF IInv, StopAccountedFor
<1> QED BY <1>3, <1>7, <1>8, <1>9, <1>10 DEF IInv

\* A refused stop goes back into the book or is given up.
LEMMA RejectedStep ==
    ASSUME IInv, NEW b \in Brackets, StopRejected(b) PROVE IInv'
<1>1. /\ market.at = "submit" /\ b \in market.batch /\ Done(b)
      /\ attempts' = [attempts EXCEPT ![b] = @ + 1]
      /\ \/ book' = book \cup {b} /\ gaveUp' = gaveUp
         \/ book' = book /\ gaveUp' = gaveUp \cup {b}
      /\ UNCHANGED <<called, handlers, lock, pending, cancelled, registered, sent,
                     filled, events>>
  BY DEF StopRejected, calledVars, groupVars, venueVars
<1>2. \A x \in Brackets : StopSent(x)' = StopSent(x) /\ TakeSent(x)' = TakeSent(x)
  BY <1>1 DEF StopSent, TakeSent
<1>3. HandlersTyped(handlers') /\ LockHeld' /\ \A x \in Brackets : TakePlaces(x)'
  BY <1>1, <1>2, OutsideGroups
<1>4. /\ MarketTyped(market') /\ MarketShape'
      /\ market'.at \in {"idle", "submit"} /\ market'.on = {}
      /\ market'.batch = market.batch \ {b}
  BY <1>1, DoneLeaves DEF IInv, Typed
<1>5. Typed'
  BY <1>1, <1>3, <1>4 DEF IInv, Typed
<1>6. ASSUME NEW x \in Brackets PROVE StopPlaces(x)' /\ Born(x)'
  <2>1. /\ ~Submitted(x) /\ ~Submitted(x)' /\ ~Registering(x) /\ ~Registering(x)'
    BY <1>1, <1>4 DEF Submitted, Registering
  <2>2. StopPlaces(x)'
    BY <1>1, <1>2, <1>4, <2>1 DEF IInv, StopPlaces
  <2>3. Born(x)'
    BY <1>1, <1>2, <1>4, <2>1 DEF IInv, Born
  <2> QED BY <2>2, <2>3
<1>7. StopAccountedFor'
  BY <1>1, <1>4 DEF IInv, StopAccountedFor
<1> QED BY <1>3, <1>4, <1>5, <1>6, <1>7 DEF IInv

\* A stop whose submission is unknown is given up, sent or not.
LEMMA UnknownStep ==
    ASSUME IInv, NEW b \in Brackets, StopUnknown(b) PROVE IInv'
<1>1. /\ market.at = "submit" /\ b \in market.batch /\ Done(b)
      /\ attempts' = [attempts EXCEPT ![b] = @ + 1]
      /\ gaveUp' = gaveUp \cup {b}
      /\ UNCHANGED <<called, handlers, lock, pending, book, cancelled, registered,
                     filled, events>>
  BY DEF StopUnknown, calledVars, groupVars
<1>2. /\ sent' \in [VenueOrders -> Nat]
      /\ \A x \in Brackets : /\ StopSent(x) \in Nat /\ TakeSent(x)' = TakeSent(x)
                             /\ \/ StopSent(x)' = StopSent(x)
                                \/ x = b /\ StopSent(x)' = StopSent(x) + 1
  <2>1. CASE Sent(<<b, "stop">>)
    BY <2>1, SentCounts DEF IInv, Kinds
  <2>2. CASE UNCHANGED sent
    BY <2>2 DEF IInv, Typed, StopSent, TakeSent, VenueOrders, Kinds
  <2> QED BY <2>1, <2>2 DEF StopUnknown, MaybeSent
<1>3. HandlersTyped(handlers') /\ LockHeld' /\ \A x \in Brackets : TakePlaces(x)'
  BY <1>1, <1>2, OutsideGroups
<1>4. /\ MarketTyped(market') /\ MarketShape'
      /\ market'.at \in {"idle", "submit"} /\ market'.on = {}
      /\ market'.batch = market.batch \ {b}
  BY <1>1, DoneLeaves DEF IInv, Typed
<1>5. Typed'
  BY <1>1, <1>2, <1>3, <1>4 DEF IInv, Typed
<1>6. ASSUME NEW x \in Brackets PROVE StopPlaces(x)' /\ Born(x)'
  <2>1. /\ ~Submitted(x) /\ ~Submitted(x)' /\ ~Registering(x) /\ ~Registering(x)'
    BY <1>1, <1>4 DEF Submitted, Registering
  <2>2. StopPlaces(x)'
    BY <1>1, <1>2, <1>4, <2>1 DEF IInv, StopPlaces
  <2>3. Born(x)'
    BY <1>1, <1>2, <1>4, <2>1 DEF IInv, Born
  <2> QED BY <2>2, <2>3
<1>7. StopAccountedFor'
  <2>1. \A x \in Brackets : sent[<<x, "stop">>] > 0 => sent'[<<x, "stop">>] > 0
    BY <1>2 DEF StopSent
  <2> QED BY <1>1, <1>4, <2>1 DEF IInv, StopAccountedFor
<1> QED BY <1>3, <1>4, <1>5, <1>6, <1>7 DEF IInv

-----------------------------------------------------------------------------
(* Callbacks and the venue *)

\* A cancelled stop leaves the book, unsent.
LEMMA CancelStep ==
    ASSUME IInv, NEW b \in Brackets, CancelStop(b) PROVE IInv'
<1>1. /\ b \in book /\ book' = book \ {b} /\ cancelled' = cancelled \cup {b}
      /\ UNCHANGED <<market, called, handlers, lock, pending, attempts, registered,
                     sent, filled, events, gaveUp>>
  BY DEF CancelStop, calledVars, groupVars, venueVars
<1>2. \A x \in Brackets : StopSent(x)' = StopSent(x) /\ TakeSent(x)' = TakeSent(x)
  BY <1>1 DEF StopSent, TakeSent
<1>3. HandlersTyped(handlers') /\ LockHeld' /\ \A x \in Brackets : TakePlaces(x)'
  BY <1>1, <1>2, OutsideGroups
<1>4. Typed' /\ MarketShape'
  BY <1>1, <1>3 DEF IInv, Typed, MarketShape
<1>5. ASSUME NEW x \in Brackets PROVE StopPlaces(x)' /\ Born(x)'
  <2>1. (Submitted(x)' <=> Submitted(x)) /\ (Registering(x)' <=> Registering(x))
    BY <1>1 DEF Submitted, Registering
  <2>2. StopPlaces(x)'
    BY <1>1, <1>2, <2>1 DEF IInv, StopPlaces
  <2>3. Born(x)'
    BY <1>1, <1>2, <2>1 DEF IInv, Born
  <2> QED BY <2>2, <2>3
<1>6. StopAccountedFor'
  BY <1>1 DEF IInv, StopAccountedFor
<1> QED BY <1>3, <1>4, <1>5, <1>6 DEF IInv

\* What of the invariant rests on the stops, the market thread and the
\* brackets that wait.
LEMMA OutsideStops ==
    ASSUME IInv, UNCHANGED <<market, book, cancelled, gaveUp, registered, called,
                             pending>>,
           \A x \in Brackets : StopSent(x)' = StopSent(x),
           \A x \in Brackets : TakeSent(x)' = TakeSent(x) \/ registered[x] = 1
    PROVE  /\ MarketTyped(market') /\ MarketShape' /\ StopAccountedFor'
           /\ \A x \in Brackets : StopPlaces(x)' /\ Born(x)'
<1>1. MarketTyped(market') /\ MarketShape'
  BY DEF IInv, Typed, MarketShape
<1>2. StopAccountedFor'
  BY DEF IInv, StopAccountedFor, StopSent
<1>3. ASSUME NEW x \in Brackets PROVE StopPlaces(x)' /\ Born(x)'
  <2>1. (Submitted(x)' <=> Submitted(x)) /\ (Registering(x)' <=> Registering(x))
    BY DEF Submitted, Registering
  <2> QED BY <2>1 DEF IInv, StopPlaces, Born
<1> QED BY <1>1, <1>2, <1>3

\* A fill queues a trade and changes nothing of the brackets.
LEMMA FillStep ==
    ASSUME IInv, NEW o \in VenueOrders, Fill(o) PROVE IInv'
<1>1. /\ UNCHANGED <<market, called, handlers, lock, pending, book, cancelled,
                     attempts, registered, sent, gaveUp>>
      /\ filled' = [filled EXCEPT ![o] = @ + 1]
      /\ events' = events \cup {[order |-> o, n |-> filled[o] + 1]}
  BY DEF Fill, calledVars, groupVars, stopVars
<1>2. \A x \in Brackets : StopSent(x)' = StopSent(x) /\ TakeSent(x)' = TakeSent(x)
  BY <1>1 DEF StopSent, TakeSent
<1>3. HandlersTyped(handlers') /\ LockHeld' /\ \A x \in Brackets : TakePlaces(x)'
  BY <1>1, <1>2, OutsideGroups
<1>4. /\ MarketTyped(market') /\ MarketShape' /\ StopAccountedFor'
      /\ \A x \in Brackets : StopPlaces(x)' /\ Born(x)'
  BY <1>1, <1>2, OutsideStops
<1>5. filled' \in [VenueOrders -> Nat] /\ events' \subseteq VenueTrade
  BY <1>1 DEF IInv, Typed, VenueTrade
<1>6. Typed'
  BY <1>1, <1>3, <1>4, <1>5 DEF IInv, Typed
<1> QED BY <1>3, <1>4, <1>6 DEF IInv
-----------------------------------------------------------------------------
(* The draining threads *)

\* What a thread's move has to respect for the lock.
LEMMA LockMoves ==
    ASSUME Typed, LockHeld, NEW d \in Handlers,
           \A c \in Handlers \ {d} : handlers'[c] = handlers[c],
           \/ (handlers[d].at \in Holding <=> handlers'[d].at \in Holding)
                 /\ lock' = lock
           \/ handlers'[d].at \in Holding /\ lock = Nobody /\ lock' = d
           \/ handlers[d].at \in Holding /\ handlers'[d].at \notin Holding
                 /\ lock' = Nobody
    PROVE  LockHeld'
BY NobodyHandles DEF LockHeld

\* Moves that send and create nothing, and do not come to the take-profit.
LEMMA QuietMove ==
    ASSUME IInv, NEW d \in Handlers, HandlersTyped(handlers'), LockHeld',
           \A c \in Handlers \ {d} : handlers'[c] = handlers[c],
           handlers'[d].at # "take",
           UNCHANGED <<market, called, pending, book, cancelled, attempts,
                       registered, sent, filled, gaveUp>>,
           events' \subseteq events
    PROVE  IInv'
<1>1. \A x \in Brackets : StopSent(x)' = StopSent(x) /\ TakeSent(x)' = TakeSent(x)
  BY DEF StopSent, TakeSent
<1>2. /\ MarketTyped(market') /\ MarketShape' /\ StopAccountedFor'
      /\ \A x \in Brackets : StopPlaces(x)' /\ Born(x)'
  BY <1>1, OutsideStops
<1>3. Typed'
  BY <1>2 DEF IInv, Typed
<1>4. \A x \in Brackets : TakePlaces(x)'
  BY <1>1 DEF IInv, TakePlaces
<1> QED BY <1>2, <1>3, <1>4 DEF IInv

\* A drained trade waits for the lock.
LEMMA DrainingStep ==
    ASSUME IInv, NEW d \in Handlers, DrainTrade(d) PROVE IInv'
<1>1. PICK e \in events :
        /\ events' = events \ {e}
        /\ handlers' = [handlers EXCEPT ![d] =
               [at |-> "enter",
                trade |-> [order |-> e.order, n |-> e.n,
                           matched |-> e.order[2] = "stop" =>
                                           e.order[1] \in remapped]]]
  BY DEF DrainTrade
<1> DEFINE m == e.order[2] = "stop" => e.order[1] \in remapped
           h == [at |-> "enter", trade |-> [order |-> e.order, n |-> e.n, matched |-> m]]
<1>2. /\ handlers[d].at = "idle"
      /\ UNCHANGED <<market, called, lock, pending, book, cancelled, attempts,
                     registered, sent, filled, gaveUp>>
  BY DEF DrainTrade, calledVars, stopVars
<1>3. e \in VenueTrade
  BY DEF IInv, Typed
<1>4. m \in BOOLEAN
  OBVIOUS
<1>5. handlers' = [handlers EXCEPT ![d] = h]
  BY <1>1
<1> HIDE DEF m
<1>6. /\ h \in [at : HandlerPlaces, trade : Trade] /\ h.at = "enter"
      /\ h.trade.order \in VenueOrders
  BY <1>3, <1>4 DEF VenueTrade, HandlerPlaces, Trade
<1> HIDE DEF h
<1>7. HandlersTyped(handlers')
  BY <1>5, <1>6, HandlerMoves DEF IInv, Typed
<1>8. handlers'[d].at = "enter" /\ \A c \in Handlers \ {d} : handlers'[c] = handlers[c]
  BY <1>5, <1>6 DEF IInv, Typed, HandlersTyped
<1>9. LockHeld'
  BY <1>2, <1>8, LockMoves DEF IInv, Holding
<1> QED BY <1>1, <1>2, <1>7, <1>8, <1>9, QuietMove

\* A thread takes the free lock, or goes on with a trade of no bracket.
LEMMA AdvanceStep ==
    ASSUME IInv, NEW d \in Handlers, EnterLock(d) \/ NotABracket(d) \/ PlaceOco(d)
    PROVE  IInv'
<1>1. /\ UNCHANGED <<market, called, pending, book, cancelled, attempts,
                     registered, sent, filled, gaveUp, events>>
      /\ handlers[d].at \in {"enter", "bracket", "link"}
      /\ \/ handlers[d].at = "enter" /\ Advance(d, "bracket") /\ lock = Nobody
               /\ lock' = d
         \/ handlers[d].at \in Holding /\ Advance(d, "oco") /\ lock' = lock
  BY DEF EnterLock, NotABracket, PlaceOco, calledVars, venueVars, stopVars, Holding
<1>2. /\ HandlersTyped(handlers') /\ handlers'[d].at \in {"bracket", "oco"}
      /\ \A c \in Handlers \ {d} : handlers'[c] = handlers[c]
  BY <1>1, AdvanceTyped DEF IInv, Typed, HandlerPlaces
<1>3. LockHeld'
  BY <1>1, <1>2, LockMoves DEF IInv, Holding
<1> QED BY <1>1, <1>2, <1>3, QuietMove

\* The thread leaves with the lock when the take-profit raises.
LEMMA RaisesStep ==
    ASSUME IInv, NEW d \in Handlers, TakeRaises(d) PROVE IInv'
<1>1. /\ UNCHANGED <<market, called, pending, book, cancelled, attempts,
                     registered, sent, filled, gaveUp, events>>
      /\ handlers[d].at = "take" /\ lock' = Nobody
      /\ handlers' = [handlers EXCEPT ![d] = Resting]
  BY DEF TakeRaises, calledVars, venueVars, stopVars
<1>2. Resting \in [at : HandlerPlaces, trade : Trade] /\ Resting.at = "idle"
  BY DEF Resting, NoTrade, Trade, HandlerPlaces
<1> HIDE DEF Resting
<1>3. /\ HandlersTyped(handlers') /\ handlers'[d].at = "idle"
      /\ \A c \in Handlers \ {d} : handlers'[c] = handlers[c]
  BY <1>1, <1>2, HandlerMoves DEF IInv, Typed, HandlersTyped
<1>4. LockHeld'
  BY <1>1, <1>3, LockMoves DEF IInv, Holding
<1> QED BY <1>1, <1>3, <1>4, QuietMove

\* The stop of a waiting bracket is created, for the first time.
LEMMA PlaceStopStep ==
    ASSUME IInv, NEW d \in Handlers, NEW b \in Brackets, PlaceStop(d, b) PROVE IInv'
<1>1. /\ handlers[d].at = "bracket" /\ b \in pending /\ pending' = pending \ {b}
      /\ handlers[d].trade.order = <<b, "entry">>
      /\ book' = book \cup {b} /\ registered' = [registered EXCEPT ![b] = @ + 1]
      /\ Advance(d, "take")
      /\ UNCHANGED <<market, called, lock, cancelled, attempts, sent, filled, gaveUp,
                     events>>
  BY DEF PlaceStop, StartStop, IsEntryOf, calledVars, venueVars
<1>2. /\ HandlersTyped(handlers') /\ handlers'[d].at = "take"
      /\ handlers'[d].trade.order = <<b, "entry">>
      /\ \A c \in Handlers \ {d} : handlers'[c] = handlers[c]
  BY <1>1, AdvanceTyped DEF IInv, Typed, HandlerPlaces
<1>3. LockHeld' /\ lock = d
  BY <1>1, <1>2, LockMoves DEF IInv, LockHeld, Holding
<1>4. /\ registered[b] = 0 /\ registered' \in [Brackets -> Nat]
      /\ \A x \in Brackets : registered'[x] = IF x = b THEN 1 ELSE registered[x]
  BY <1>1 DEF IInv, Born, Typed
<1>5. \A x \in Brackets : /\ StopSent(x)' = StopSent(x) /\ TakeSent(x)' = TakeSent(x)
                          /\ (Submitted(x)' <=> Submitted(x))
                          /\ (Registering(x)' <=> Registering(x))
  BY <1>1 DEF StopSent, TakeSent, Submitted, Registering
<1>6. Typed' /\ MarketShape'
  BY <1>1, <1>2, <1>4 DEF IInv, Typed, MarketShape
<1>7. ASSUME NEW x \in Brackets PROVE StopPlaces(x)' /\ Born(x)' /\ TakePlaces(x)'
  <2>1. Born(x)'
    BY <1>1, <1>4, <1>5 DEF IInv, Born
  <2>2. StopPlaces(x)'
    BY <1>1, <1>4, <1>5 DEF IInv, StopPlaces, Born
  <2>3. \A c \in Handlers \ {d} : handlers'[c].at # "take"
    BY <1>2, <1>3 DEF IInv, LockHeld, Holding
  <2>4. TakePlaces(x)'
    BY <1>2, <1>4, <1>5, <2>3 DEF IInv, TakePlaces, Born
  <2> QED BY <2>1, <2>2, <2>4
<1>8. StopAccountedFor'
  BY <1>1, <1>4 DEF IInv, StopAccountedFor
<1> QED BY <1>3, <1>6, <1>7, <1>8 DEF IInv

\* The take-profit is sent by the thread that created its stop.
LEMMA PlaceTakeStep ==
    ASSUME IInv, NEW d \in Handlers, PlaceTake(d) \/ TakeEmpty(d) PROVE IInv'
<1> DEFINE b == handlers[d].trade.order[1]
<1>1. /\ handlers[d].at = "take"
      /\ Sent(<<b, "take">>) \/ UNCHANGED sent
      /\ Advance(d, "link") \/ Advance(d, "oco")
      /\ UNCHANGED <<market, called, lock, pending, book, cancelled, attempts,
                     registered, filled, gaveUp, events>>
  BY DEF PlaceTake, TakeEmpty, MaybeSent, calledVars, stopVars
<1>2. /\ handlers[d].trade.order \in VenueOrders
      /\ handlers[d].trade.order[2] = "entry" /\ b \in Brackets
  BY <1>1 DEF IInv, Typed, HandlersTyped, VenueOrders
<1>3. registered[b] = 1 /\ TakeSent(b) = 0
  BY <1>1, <1>2 DEF IInv, TakePlaces
<1>4. /\ HandlersTyped(handlers') /\ handlers'[d].at \in {"link", "oco"}
      /\ \A c \in Handlers \ {d} : handlers'[c] = handlers[c]
  BY <1>1, <1>2, AdvanceTyped DEF IInv, Typed, HandlerPlaces
<1>5. LockHeld' /\ lock = d
  BY <1>1, <1>4, LockMoves DEF IInv, LockHeld, Holding
<1>6. /\ sent' \in [VenueOrders -> Nat]
      /\ \A x \in Brackets :
            /\ StopSent(x)' = StopSent(x)
            /\ \/ TakeSent(x)' = TakeSent(x)
               \/ x = b /\ TakeSent(x)' = 1
  <2>1. CASE Sent(<<b, "take">>)
    <3>1. Typed /\ "take" \in Kinds
      BY DEF IInv, Kinds
    <3> HIDE DEF b
    <3>2. /\ sent' \in [VenueOrders -> Nat]
          /\ \A x \in Brackets :
                /\ StopSent(x)' = StopSent(x)
                /\ TakeSent(x)' = IF x = b THEN TakeSent(x) + 1 ELSE TakeSent(x)
      BY <1>2, <2>1, <3>1, SentCounts
    <3> QED BY <1>3, <3>2
  <2>2. CASE UNCHANGED sent
    BY <2>2 DEF IInv, Typed, StopSent, TakeSent
  <2> QED BY <1>1, <2>1, <2>2
<1> HIDE DEF b
<1>7. /\ MarketTyped(market') /\ MarketShape' /\ StopAccountedFor'
      /\ \A x \in Brackets : StopPlaces(x)' /\ Born(x)'
  BY <1>1, <1>3, <1>6, OutsideStops
<1>8. Typed'
  BY <1>1, <1>4, <1>6, <1>7 DEF IInv, Typed
<1>9. ASSUME NEW x \in Brackets PROVE TakePlaces(x)'
  <2>1. \A c \in Handlers : handlers'[c].at # "take"
    BY <1>4, <1>5 DEF IInv, LockHeld, Holding
  <2> QED BY <1>6, <2>1 DEF IInv, TakePlaces
<1> QED BY <1>5, <1>7, <1>8, <1>9 DEF IInv

\* A trade of a linked order takes the other one out of the book.
LEMMA ProcessOcoStep ==
    ASSUME IInv, NEW d \in Handlers, ProcessOco(d) PROVE IInv'
<1>1. /\ handlers[d].at = "oco" /\ lock' = Nobody
      /\ handlers' = [handlers EXCEPT ![d] = Resting]
      /\ UNCHANGED <<market, called, pending, attempts, registered, sent, filled,
                     gaveUp, events>>
  BY DEF ProcessOco, calledVars
<1>2. \E out \in SUBSET book :
         book' = book \ out /\ cancelled' = cancelled \cup out
  <2> DEFINE b == handlers[d].trade.order[1]
  <2>1. \/ book' = book /\ cancelled' = cancelled
        \/ book' = book \ {b} /\ cancelled' = cancelled \cup (book \cap {b})
    BY DEF ProcessOco, CancelPeer
  <2>2. CASE book' = book /\ cancelled' = cancelled
    <3>1. /\ book' = book \ {} /\ cancelled' = cancelled \cup {}
          /\ {} \in SUBSET book
      BY <2>2
    <3> QED BY <3>1
  <2>3. CASE book' = book \ {b} /\ cancelled' = cancelled \cup (book \cap {b})
    <3>1. book' = book \ (book \cap {b}) /\ book \cap {b} \in SUBSET book
      BY <2>3
    <3> QED BY <2>3, <3>1
  <2> QED BY <2>1, <2>2, <2>3
<1>3. PICK out \in SUBSET book : book' = book \ out /\ cancelled' = cancelled \cup out
  BY <1>2
<1>4. Resting \in [at : HandlerPlaces, trade : Trade] /\ Resting.at = "idle"
  BY DEF Resting, NoTrade, Trade, HandlerPlaces
<1> HIDE DEF Resting
<1>5. /\ HandlersTyped(handlers') /\ handlers'[d].at = "idle"
      /\ \A c \in Handlers \ {d} : handlers'[c] = handlers[c]
  BY <1>1, <1>4, HandlerMoves DEF IInv, Typed, HandlersTyped
<1>6. LockHeld'
  BY <1>1, <1>5, LockMoves DEF IInv, Holding
<1>7. \A x \in Brackets : /\ StopSent(x)' = StopSent(x) /\ TakeSent(x)' = TakeSent(x)
                          /\ (Submitted(x)' <=> Submitted(x))
                          /\ (Registering(x)' <=> Registering(x))
  BY <1>1 DEF StopSent, TakeSent, Submitted, Registering
<1>8. Typed' /\ MarketShape'
  BY <1>1, <1>3, <1>5 DEF IInv, Typed, MarketShape
<1>9. ASSUME NEW x \in Brackets PROVE StopPlaces(x)' /\ Born(x)' /\ TakePlaces(x)'
  <2>1. StopPlaces(x)'
    BY <1>1, <1>3, <1>7 DEF IInv, StopPlaces
  <2>2. Born(x)'
    BY <1>1, <1>3, <1>7 DEF IInv, Born
  <2>3. TakePlaces(x)'
    BY <1>1, <1>5, <1>7 DEF IInv, TakePlaces
  <2> QED BY <2>1, <2>2, <2>3
<1>10. StopAccountedFor'
  BY <1>1, <1>3 DEF IInv, StopAccountedFor
<1> QED BY <1>6, <1>8, <1>9, <1>10 DEF IInv

-----------------------------------------------------------------------------
(* Brackets: the theorems *)

\* Every step keeps the invariant.
LEMMA StepIInv == IInv /\ [OrdersNext]_orderVars => IInv'
<1> SUFFICES ASSUME IInv, [OrdersNext]_orderVars PROVE IInv'
  OBVIOUS
<1>1. CASE MarketStep
  BY <1>1, PlaceEntryStep, RegisterStep, CheckStep, AcceptedStep, RejectedStep,
     UnknownStep, RemapStep DEF MarketStep
<1>2. CASE \E d \in Handlers : GroupStep(d)
  BY <1>2, DrainingStep, AdvanceStep, RaisesStep, PlaceStopStep, PlaceTakeStep,
     ProcessOcoStep DEF GroupStep
<1>3. CASE UNCHANGED orderVars
  BY <1>3 DEF IInv, Typed, MarketShape, LockHeld, StopAccountedFor, StopPlaces, Born,
              TakePlaces, StopSent, TakeSent, Submitted, Registering,
              orderVars, calledVars, venueVars, groupVars, stopVars
<1> QED BY <1>1, <1>2, <1>3, CancelStep, FillStep DEF OrdersNext

\* The invariant holds in every reachable state.
LEMMA IInvCorrect == OrdersSpec => []IInv
  BY InitIInv, StepIInv, PTL DEF OrdersSpec

\* A stop reaches the venue at most once (broker_execution.py,
\* check_stop_triggers and _handle_stop_submit_failure).
THEOREM StopSentOnceCorrect == OrdersSpec => []StopSentOnce
<1>1. IInv => StopSentOnce
  BY DEF IInv, StopPlaces, StopSent, StopSentOnce
<1> QED BY <1>1, IInvCorrect, PTL

\* A stop cancelled out of the book is never sent (local_stop_book.py, cancel).
THEOREM CancelledNeverSentCorrect == OrdersSpec => []CancelledNeverSent
<1>1. IInv => CancelledNeverSent
  BY DEF IInv, Typed, StopPlaces, StopSent, CancelledNeverSent
<1> QED BY <1>1, IInvCorrect, PTL

\* The exits of a bracket are created once, whatever threads drain the trades
\* of its entry (strategy.py, _process_pending_bracket).
THEOREM ExitsPlacedOnceCorrect == OrdersSpec => []ExitsPlacedOnce
<1>1. IInv => ExitsPlacedOnce
  BY DEF IInv, Born, TakePlaces, TakeSent, ExitsPlacedOnce
<1> QED BY <1>1, IInvCorrect, PTL

\* No stop is lost when a submission fails (broker_execution.py).
THEOREM StopAccountedForCorrect == OrdersSpec => []StopAccountedFor
<1>1. IInv => StopAccountedFor
  BY DEF IInv
<1> QED BY <1>1, IInvCorrect, PTL
-----------------------------------------------------------------------------
(* Linked exits: a second invariant, on top of the first.                    *)

\* Trades are of orders the venue has received.
SentTrades ==
    /\ \A e \in events \cup processed : sent[e.order] > 0
    /\ \A d \in Handlers : handlers[d].at # "idle" => sent[handlers[d].trade.order] > 0

\* A drained trade of a take-profit carries the id its group knows.
TakesMatched ==
    \A d \in Handlers :
        handlers[d].at # "idle" /\ handlers[d].trade.order[2] = "take" =>
            handlers[d].trade.matched

\* No trade of a take-profit is processed before it is linked.
Linking ==
    \A d \in Handlers :
        handlers[d].at = "link" =>
            LET b == handlers[d].trade.order[1] IN
            registered[b] = 1 /\ \A e \in processed : e.order # <<b, "take">>

\* A link lasts until one of the two trades, or the stop has been triggered.
Linked ==
    \A b \in linked :
        registered[b] = 1 /\ (b \in groups \/ b \notin book \/ attempts[b] > 0)

LInv ==
    /\ IInv /\ processed \subseteq VenueTrade /\ linked \subseteq Brackets
    /\ SentTrades /\ TakesMatched /\ Linking /\ Linked /\ PeerStopWithdrawn

\* It holds before any bracket is placed.
LEMMA InitLInv == OrdersInit => LInv
<1> SUFFICES ASSUME OrdersInit PROVE LInv
  OBVIOUS
<1>1. \A d \in Handlers : handlers[d].at = "idle"
  BY DEF OrdersInit, Resting
<1> QED BY <1>1, InitIInv
        DEF OrdersInit, LInv, SentTrades, TakesMatched, Linking, Linked,
            PeerStopWithdrawn

\* Steps of the market thread, of callbacks and of the venue: a stop comes back
\* into the book with an attempt counted only.
LEMMA OutsideLinks ==
    ASSUME LInv, IInv',
           UNCHANGED <<handlers, groups, linked, processed, registered>>,
           \A o \in VenueOrders : sent[o] > 0 => sent'[o] > 0,
           \A e \in events' : sent'[e.order] > 0,
           \A b \in Brackets : attempts[b] > 0 => attempts'[b] > 0,
           \A b \in book' : b \in book \/ attempts'[b] > 0
    PROVE  LInv'
<1>1. SentTrades'
  <2>1. \A e \in processed : e.order \in VenueOrders
    BY DEF LInv, VenueTrade
  <2>2. \A d \in Handlers : handlers[d].at # "idle" =>
                                handlers[d].trade.order \in VenueOrders
    BY DEF LInv, IInv, Typed, HandlersTyped
  <2> QED BY <2>1, <2>2 DEF LInv, SentTrades
<1>2. Linking' /\ TakesMatched'
  BY DEF LInv, Linking, TakesMatched
<1>0. /\ attempts \in [Brackets -> Nat] /\ attempts' \in [Brackets -> Nat]
      /\ linked \subseteq Brackets
  BY DEF LInv, IInv, Typed
<1>3. Linked'
  BY <1>0 DEF LInv, Linked
<1>4. PeerStopWithdrawn'
  BY <1>0 DEF LInv, PeerStopWithdrawn
<1> QED BY <1>1, <1>2, <1>3, <1>4 DEF LInv

\* An order that was sent once stays sent.
LEMMA StaysSent ==
    ASSUME Typed, NEW o \in VenueOrders, Sent(o) \/ UNCHANGED sent
    PROVE  \A p \in VenueOrders : sent[p] > 0 => sent'[p] > 0
BY DEF Typed, Sent

\* The steps outside process_order_groups.
LEMMA OutsideStep ==
    ASSUME LInv, IInv', \/ MarketStep
                        \/ \E b \in Brackets : CancelStop(b)
                        \/ \E o \in VenueOrders : Fill(o)
    PROVE  LInv'
<1> DEFINE Grow == \A o \in VenueOrders : sent[o] > 0 => sent'[o] > 0
<1>0. /\ Typed /\ \A e \in events : e.order \in VenueOrders
      /\ \A e \in events : sent[e.order] > 0
  BY DEF LInv, IInv, Typed, VenueTrade, SentTrades
<1>1. ASSUME NEW b \in Brackets, PlaceEntry(b) \/ PlaceEntryFails(b) PROVE LInv'
  <2>1. /\ UNCHANGED <<handlers, groups, linked, processed, registered, events, book,
                       attempts>>
        /\ Sent(<<b, "entry">>) \/ UNCHANGED sent
    BY <1>1 DEF PlaceEntry, PlaceEntryFails, MaybeSent, groupVars, stopVars
  <2>2. Grow
    BY <1>0, <2>1, StaysSent DEF VenueOrders, Kinds
  <2> QED BY <1>0, <2>1, <2>2, OutsideLinks
<1>2. CASE RegisterBracket
  <2>1. UNCHANGED <<handlers, groups, linked, processed, registered, events, book,
                    attempts, sent>>
    BY <1>2 DEF RegisterBracket, venueVars, stopVars
  <2> QED BY <1>0, <2>1, OutsideLinks
<1>3. CASE Check
  <2>1. /\ UNCHANGED <<handlers, groups, linked, processed, registered, events,
                       attempts, sent>>
        /\ book' \subseteq book
    BY <1>3 DEF Check, venueVars, groupVars
  <2> QED BY <1>0, <2>1, OutsideLinks
<1>4. ASSUME NEW b \in Brackets, StopAccepted(b) PROVE LInv'
  <2>1. /\ UNCHANGED <<handlers, groups, linked, processed, registered, events, book,
                       attempts>>
        /\ Sent(<<b, "stop">>)
    BY <1>4 DEF StopAccepted, groupVars, stopVars
  <2>2. Grow
    BY <1>0, <2>1, StaysSent DEF VenueOrders, Kinds
  <2> QED BY <1>0, <2>1, <2>2, OutsideLinks
<1>5. ASSUME NEW b \in Brackets, StopRejected(b) \/ StopUnknown(b) PROVE LInv'
  <2>1. /\ UNCHANGED <<handlers, groups, linked, processed, registered, events>>
        /\ attempts' = [attempts EXCEPT ![b] = @ + 1]
        /\ book' \subseteq book \cup {b}
        /\ Sent(<<b, "stop">>) \/ UNCHANGED sent
    BY <1>5 DEF StopRejected, StopUnknown, MaybeSent, groupVars, venueVars
  <2>2. Grow
    BY <1>0, <2>1, StaysSent DEF VenueOrders, Kinds
  <2>3. /\ attempts'[b] > 0
        /\ \A x \in Brackets : attempts[x] > 0 => attempts'[x] > 0
    BY <1>0, <2>1 DEF Typed
  <2> QED BY <1>0, <2>1, <2>2, <2>3, OutsideLinks
<1>6. CASE RecordStopRemap
  <2>1. UNCHANGED <<handlers, groups, linked, processed, registered, events, book,
                    attempts, sent>>
    BY <1>6 DEF RecordStopRemap, venueVars, groupVars
  <2> QED BY <1>0, <2>1, OutsideLinks
<1>7. ASSUME NEW b \in Brackets, CancelStop(b) PROVE LInv'
  <2>1. /\ UNCHANGED <<handlers, groups, linked, processed, registered, events,
                       attempts, sent>>
        /\ book' \subseteq book
    BY <1>7 DEF CancelStop, venueVars, groupVars
  <2> QED BY <1>0, <2>1, OutsideLinks
<1>8. ASSUME NEW o \in VenueOrders, Fill(o) PROVE LInv'
  <2>1. /\ UNCHANGED <<handlers, groups, linked, processed, registered, book,
                       attempts, sent>>
        /\ \A e \in events' : sent[e.order] > 0
    BY <1>0, <1>8 DEF Fill, groupVars, stopVars
  <2> QED BY <2>1, OutsideLinks
<1> QED BY <1>1, <1>2, <1>3, <1>4, <1>5, <1>6, <1>7, <1>8 DEF MarketStep
\* A draining thread moves; what is linked, waits and was processed stays, and
\* a thread that comes to the link has processed no take-profit trade yet.
LEMMA ThreadMoves ==
    ASSUME LInv, IInv', NEW d \in Handlers,
           \A c \in Handlers \ {d} : handlers'[c] = handlers[c],
           UNCHANGED <<groups, linked, processed, registered, book, attempts>>,
           events' \subseteq events,
           \A o \in VenueOrders : sent[o] > 0 => sent'[o] > 0,
           handlers'[d].at # "idle" => sent'[handlers'[d].trade.order] > 0,
           handlers'[d].at # "idle" /\ handlers'[d].trade.order[2] = "take" =>
               handlers'[d].trade.matched,
           handlers'[d].at = "link" =>
               /\ handlers[d].at = "take"
               /\ handlers'[d].trade.order = handlers[d].trade.order
    PROVE  LInv'
<1>0. /\ \A e \in events \cup processed : e.order \in VenueOrders
      /\ \A c \in Handlers : handlers[c].at # "idle" =>
                                 handlers[c].trade.order \in VenueOrders
  BY DEF LInv, IInv, Typed, VenueTrade, HandlersTyped
<1>1. SentTrades'
  BY <1>0 DEF LInv, SentTrades
<1>2. Linking'
  <2>1. ASSUME handlers'[d].at = "link"
        PROVE  LET b == handlers'[d].trade.order[1] IN
               registered[b] = 1 /\ \A e \in processed : e.order # <<b, "take">>
    <3> DEFINE b == handlers[d].trade.order[1]
    <3>1. /\ handlers[d].at = "take" /\ handlers[d].trade.order \in VenueOrders
          /\ handlers'[d].trade.order = handlers[d].trade.order
      BY <1>0, <2>1
    <3>2. b \in Brackets
      BY <3>1 DEF VenueOrders
    <3>3. registered[b] = 1 /\ sent[<<b, "take">>] = 0
      BY <3>1, <3>2 DEF LInv, IInv, TakePlaces, TakeSent
    <3>4. \A e \in processed : e.order # <<b, "take">>
      BY <3>3 DEF LInv, SentTrades
    <3> QED BY <3>1, <3>3, <3>4
  <2>2. \A c \in Handlers \ {d} : handlers'[c] = handlers[c]
    OBVIOUS
  <2> QED BY <2>1, <2>2 DEF LInv, Linking
<1>3. Linked' /\ PeerStopWithdrawn'
  BY DEF LInv, Linked, PeerStopWithdrawn
<1>4. TakesMatched'
  BY DEF LInv, TakesMatched
<1> QED BY <1>1, <1>2, <1>3, <1>4 DEF LInv

\* The steps that process nothing and link nothing, the new stop aside.
LEMMA MoveStep ==
    ASSUME LInv, IInv', NEW d \in Handlers,
           \/ DrainTrade(d) \/ EnterLock(d) \/ NotABracket(d)
           \/ PlaceTake(d) \/ TakeEmpty(d)
    PROVE  LInv'
<1>0. /\ Typed /\ HandlersTyped(handlers) /\ handlers[d] \in [at : HandlerPlaces, trade : Trade]
      /\ \A e \in events : e.order \in VenueOrders /\ sent[e.order] > 0
      /\ handlers[d].at # "idle" => /\ handlers[d].trade.order \in VenueOrders
                                    /\ sent[handlers[d].trade.order] > 0
      /\ handlers[d].at # "idle" /\ handlers[d].trade.order[2] = "take" =>
             handlers[d].trade.matched
  BY DEF LInv, IInv, Typed, VenueTrade, HandlersTyped, SentTrades, TakesMatched
<1>1. CASE DrainTrade(d)
  <2>1. PICK e \in events :
          /\ events' = events \ {e}
          /\ handlers' = [handlers EXCEPT ![d] =
                 [at |-> "enter",
                  trade |-> [order |-> e.order, n |-> e.n,
                             matched |-> e.order[2] = "stop" =>
                                             e.order[1] \in remapped]]]
    BY <1>1 DEF DrainTrade
  <2>2. UNCHANGED <<groups, linked, processed, registered, book, attempts, sent>>
    BY <1>1 DEF DrainTrade, stopVars
  <2>3. /\ handlers'[d].at = "enter" /\ handlers'[d].trade.order = e.order
        /\ e.order[2] = "take" => handlers'[d].trade.matched
        /\ \A c \in Handlers \ {d} : handlers'[c] = handlers[c]
    BY <1>0, <2>1 DEF HandlersTyped
  <2> QED BY <1>0, <2>1, <2>2, <2>3, ThreadMoves
<1>2. CASE EnterLock(d) \/ NotABracket(d)
  <2>1. /\ UNCHANGED <<groups, linked, processed, registered, book, attempts, sent,
                       events>>
        /\ Advance(d, "bracket") \/ Advance(d, "oco")
        /\ handlers[d].at # "idle"
    BY <1>2 DEF EnterLock, NotABracket, venueVars, stopVars
  <2>2. /\ handlers'[d].at # "link"
        /\ handlers'[d].trade = handlers[d].trade
        /\ \A c \in Handlers \ {d} : handlers'[c] = handlers[c]
    BY <1>0, <2>1, AdvanceTyped DEF HandlerPlaces
  <2> QED BY <1>0, <2>1, <2>2, ThreadMoves
<1>3. CASE PlaceTake(d) \/ TakeEmpty(d)
  <2>1. /\ UNCHANGED <<groups, linked, processed, registered, book, attempts, events>>
        /\ Advance(d, "link") \/ Advance(d, "oco")
        /\ handlers[d].at = "take"
        /\ Sent(<<handlers[d].trade.order[1], "take">>) \/ UNCHANGED sent
    BY <1>3 DEF PlaceTake, TakeEmpty, MaybeSent, stopVars
  <2>2. handlers[d].trade.order[2] = "entry"
    BY <1>0, <2>1 DEF HandlersTyped
  <2>3. /\ handlers'[d].trade = handlers[d].trade
        /\ \A c \in Handlers \ {d} : handlers'[c] = handlers[c]
    BY <1>0, <2>1, <2>2, AdvanceTyped DEF HandlerPlaces
  <2>4. <<handlers[d].trade.order[1], "take">> \in VenueOrders
    BY <1>0, <2>1 DEF VenueOrders, Kinds
  <2>5. \A o \in VenueOrders : sent[o] > 0 => sent'[o] > 0
    BY <1>0, <2>1, <2>4, StaysSent
  <2> QED BY <1>0, <2>1, <2>3, <2>5, ThreadMoves
<1> QED BY <1>1, <1>2, <1>3

\* A stop that is created belongs to a bracket that was never linked.
LEMMA NewStopStep ==
    ASSUME LInv, IInv', NEW d \in Handlers, NEW b \in Brackets, PlaceStop(d, b)
    PROVE  LInv'
<1>1. /\ b \in pending /\ book' = book \cup {b} /\ Advance(d, "take")
      /\ handlers[d].at = "bracket"
      /\ registered' = [registered EXCEPT ![b] = @ + 1]
      /\ UNCHANGED <<groups, linked, processed, attempts, sent, events>>
  BY DEF PlaceStop, StartStop, venueVars
<1>2. registered[b] = 0 /\ registered \in [Brackets -> Nat]
  BY <1>1 DEF LInv, IInv, Born, Typed
<1>3. b \notin linked
  BY <1>2 DEF LInv, Linked
<1>4. /\ handlers'[d].at = "take" /\ handlers'[d].trade = handlers[d].trade
      /\ \A c \in Handlers \ {d} : handlers'[c] = handlers[c]
  BY <1>1, AdvanceTyped DEF LInv, IInv, Typed, HandlersTyped, StartStop, IsEntryOf,
                            PlaceStop, HandlerPlaces
<1>5. SentTrades' /\ TakesMatched'
  BY <1>1, <1>4 DEF LInv, SentTrades, TakesMatched
<1>6. Linking'
  <2>1. \A c \in Handlers : handlers'[c].at = "link" => handlers'[c] = handlers[c]
    BY <1>4
  <2>2. \A c \in Handlers : handlers[c].at = "link" =>
                               handlers[c].trade.order[1] \in Brackets
    BY DEF LInv, IInv, Typed, HandlersTyped, VenueOrders
  <2> QED BY <1>1, <1>2, <2>1, <2>2 DEF LInv, Linking
<1>7. Linked' /\ PeerStopWithdrawn'
  BY <1>1, <1>2, <1>3 DEF LInv, Linked, PeerStopWithdrawn
<1> QED BY <1>1, <1>5, <1>6, <1>7 DEF LInv

\* The exits are linked, before any trade of the take-profit is processed.
LEMMA LinkStep ==
    ASSUME LInv, IInv', NEW d \in Handlers, PlaceOco(d) PROVE LInv'
<1> DEFINE b == handlers[d].trade.order[1]
<1>1. /\ handlers[d].at = "link" /\ groups' = groups \cup {b}
      /\ linked' = linked \cup {b} /\ Advance(d, "oco")
      /\ UNCHANGED <<processed, registered, book, attempts, sent, events>>
  BY DEF PlaceOco, venueVars, stopVars
<1>2. /\ handlers[d].trade.order \in VenueOrders /\ b \in Brackets
  BY <1>1 DEF LInv, IInv, Typed, HandlersTyped, VenueOrders
<1>3. registered[b] = 1 /\ \A e \in processed : e.order # <<b, "take">>
  BY <1>1 DEF LInv, Linking
<1>4. /\ handlers'[d].at = "oco" /\ handlers'[d].trade = handlers[d].trade
      /\ \A c \in Handlers \ {d} : handlers'[c] = handlers[c]
  BY <1>1, AdvanceTyped DEF LInv, IInv, Typed, HandlerPlaces
<1> HIDE DEF b
<1>5. SentTrades' /\ TakesMatched'
  BY <1>1, <1>4 DEF LInv, SentTrades, TakesMatched
<1>6. Linking'
  BY <1>1, <1>4 DEF LInv, Linking
<1>7. Linked'
  BY <1>1, <1>3 DEF LInv, Linked
<1>8. PeerStopWithdrawn'
  <2> SUFFICES ASSUME NEW e \in processed, e.order[2] = "take",
                      e.order[1] \in linked', attempts[e.order[1]] = 0
               PROVE  e.order[1] \notin book
    BY <1>1 DEF PeerStopWithdrawn
  <2>1. e.order \in VenueOrders
    BY DEF LInv, VenueTrade
  <2>2. e.order[1] # b
    BY <1>3, <2>1 DEF VenueOrders
  <2> QED BY <1>1, <2>2 DEF LInv, PeerStopWithdrawn
<1> QED BY <1>1, <1>2, <1>5, <1>6, <1>7, <1>8 DEF LInv
\* A trade is processed: of an entry, when its take-profit raises, or of any
\* order, when what it is linked to has been withdrawn.
LEMMA ProcessedStep ==
    ASSUME LInv, IInv', NEW d \in Handlers, TakeRaises(d) \/ ProcessOco(d)
    PROVE  LInv'
<1> DEFINE t == handlers[d].trade
           b == t.order[1]
           new == [order |-> t.order, n |-> t.n]
<1>1. /\ handlers[d].at \in {"take", "oco"}
      /\ handlers' = [handlers EXCEPT ![d] = Resting]
      /\ processed' = processed \cup {new}
      /\ UNCHANGED <<linked, registered, attempts, sent, events>>
  BY DEF TakeRaises, ProcessOco, venueVars, stopVars
<1>2. /\ t \in Trade /\ t.order \in VenueOrders /\ b \in Brackets
      /\ sent[t.order] > 0
  BY <1>1 DEF LInv, IInv, Typed, HandlersTyped, SentTrades, VenueOrders
<1>3. new \in VenueTrade /\ new.order = t.order
  BY <1>2 DEF VenueTrade, Trade
<1>4. /\ handlers'[d].at = "idle"
      /\ \A c \in Handlers \ {d} : handlers'[c] = handlers[c]
  BY <1>1 DEF LInv, IInv, Typed, HandlersTyped, Resting
<1>5. lock = d
  BY <1>1 DEF LInv, IInv, LockHeld, Holding
<1>6. \A c \in Handlers : handlers'[c].at # "link"
  BY <1>4, <1>5 DEF LInv, IInv, LockHeld, Holding
<1>7. SentTrades' /\ TakesMatched' /\ Linking'
  BY <1>1, <1>2, <1>3, <1>4, <1>6 DEF LInv, SentTrades, TakesMatched, Linking
<1>8. /\ book' \subseteq book
      /\ \A x \in Brackets \ {b} : x \in groups => x \in groups'
      /\ b \in groups => \/ b \in groups'
                         \/ t.order[2] = "take" /\ b \notin book'
                         \/ t.order[2] = "stop"
      /\ t.order[2] = "take" => b \notin groups \/ b \notin book'
  <2>1. CASE TakeRaises(d)
    <3>1. t.order[2] = "entry" /\ UNCHANGED <<groups, book>>
      BY <2>1 DEF TakeRaises, stopVars, LInv, IInv, Typed, HandlersTyped
    <3> QED BY <3>1
  <2>2. CASE ProcessOco(d)
    <3>1. CASE t.order[2] # "entry" /\ t.matched /\ b \in groups
      <4>1. CancelPeer(t.order) /\ groups' = groups \ {b}
        BY <2>2, <3>1 DEF ProcessOco
      <4>2. t.order[2] \in {"stop", "take"}
        BY <1>2, <3>1 DEF VenueOrders, Kinds
      <4> QED BY <4>1, <4>2 DEF CancelPeer
    <3>2. CASE ~(t.order[2] # "entry" /\ t.matched /\ b \in groups)
      <4>1. UNCHANGED <<groups, book>>
        BY <2>2, <3>2 DEF ProcessOco
      <4>2. t.order[2] = "take" => t.matched
        BY <1>1, <2>2 DEF LInv, TakesMatched, ProcessOco
      <4> QED BY <3>2, <4>1, <4>2
    <3> QED BY <3>1, <3>2
  <2> QED BY <2>1, <2>2
<1>9. t.order[2] = "stop" => b \notin book
  <2>1. t.order = <<t.order[1], t.order[2]>>
    BY <1>2 DEF VenueOrders
  <2>2. t.order[2] = "stop" => StopSent(b) > 0
    BY <1>2, <2>1 DEF StopSent
  <2> QED BY <1>2, <2>2 DEF LInv, IInv, StopPlaces
<1>10. linked \subseteq Brackets
  BY DEF LInv
<1> HIDE DEF t, b, new
<1>11. Linked'
  BY <1>1, <1>8, <1>9, <1>10 DEF LInv, Linked
<1>12. PeerStopWithdrawn'
  <2> SUFFICES ASSUME NEW e \in processed', e.order[2] = "take",
                      e.order[1] \in linked, attempts[e.order[1]] = 0
               PROVE  e.order[1] \notin book'
    BY <1>1 DEF PeerStopWithdrawn
  <2>1. CASE e \in processed
    BY <1>8, <2>1 DEF LInv, PeerStopWithdrawn
  <2>2. CASE e = new
    <3>1. t.order[2] = "take" /\ e.order[1] = b
      BY <1>3, <2>2 DEF b
    <3> QED BY <1>8, <3>1 DEF LInv, Linked
  <2> QED BY <1>1, <2>1, <2>2
<1> QED BY <1>1, <1>3, <1>7, <1>10, <1>11, <1>12 DEF LInv

\* Every step keeps both invariants.
LEMMA StepLInv == LInv /\ [OrdersNext]_orderVars => LInv'
<1> SUFFICES ASSUME LInv, [OrdersNext]_orderVars PROVE LInv'
  OBVIOUS
<1>0. IInv'
  BY StepIInv DEF LInv
<1>1. CASE UNCHANGED orderVars
  BY <1>0, <1>1 DEF LInv, SentTrades, TakesMatched, Linking, Linked,
                    PeerStopWithdrawn, orderVars, venueVars, groupVars, stopVars
<1>2. CASE \E d \in Handlers : GroupStep(d)
  BY <1>0, <1>2, MoveStep, NewStopStep, LinkStep, ProcessedStep DEF GroupStep
<1> QED BY <1>0, <1>1, <1>2, OutsideStep DEF OrdersNext

\* Once a take-profit's trade was processed its stop waits no longer, unless it
\* had been triggered before (strategy.py, _order_group_lock).
THEOREM PeerStopWithdrawnCorrect == OrdersSpec => []PeerStopWithdrawn
<1>1. LInv => PeerStopWithdrawn
  BY DEF LInv
<1> QED BY <1>1, InitLInv, StepLInv, PTL DEF OrdersSpec

-----------------------------------------------------------------------------
(* The quantities of the legs *)

Legs == [asked : Nat, today : Nat, yesterday : Nat, close : Nat, open : Nat]
Answer == [known : BOOLEAN, held : Nat, tells : BOOLEAN, available : Nat,
           today : Nat, yesterday : Nat]

\* An order of one leg.
LEMMA SingleTotal ==
    ASSUME NEW q \in Nat
    PROVE  Single(q) \in Legs /\ Total(Single(q)) = q
BY DEF Single, NoLegs, Legs, Total

\* The split of a closing quantity, whatever the broker holds.
LEMMA CloseTotal ==
    ASSUME NEW c, NEW a \in Answer, NEW q \in Nat
    PROVE  /\ CloseLegs(c, a, q) \in Legs /\ Total(CloseLegs(c, a, q)) = q
           /\ CloseLegs(c, a, q).open = 0
<1>1. CASE ~c.details \/ ~c.splits \/ ~a.known
  BY <1>1 DEF CloseLegs, NoLegs, Legs, Total
<1>2. CASE ~(~c.details \/ ~c.splits \/ ~a.known)
  <2> DEFINE covered == Min2(q, a.today + a.yesterday)
             t == Min2(covered, a.today)
             y == Min2(covered - t, a.yesterday)
  <2>1. a.today \in Nat /\ a.yesterday \in Nat
    BY DEF Answer
  <2>2. covered \in Nat /\ covered <= q /\ covered <= a.today + a.yesterday
    BY <2>1 DEF Min2
  <2>3. t \in Nat /\ t <= covered /\ (t = covered \/ t = a.today)
    BY <2>1, <2>2 DEF Min2
  <2>4. y \in Nat /\ y = covered - t
    BY <2>1, <2>2, <2>3 DEF Min2
  <2>5. CloseLegs(c, a, q) =
            [NoLegs EXCEPT !.today = t, !.yesterday = y, !.close = q - covered]
    BY <1>2 DEF CloseLegs
  <2> HIDE DEF covered, t, y
  <2>6. q - covered \in Nat
    BY <2>2
  <2>7. CloseLegs(c, a, q) = [asked |-> 0, today |-> t, yesterday |-> y,
                              close |-> q - covered, open |-> 0]
    BY <2>5 DEF NoLegs
  <2> QED BY <2>2, <2>3, <2>4, <2>6, <2>7 DEF Legs, Total
<1> QED BY <1>1, <1>2

\* Every order is made up by its legs.
LEMMA OrderTotal ==
    ASSUME NEW c, NEW effect, NEW reduceOnly, NEW q \in Nat,
           NEW first \in Answer, NEW second \in Answer
    PROVE  LET legs == OrderLegs(c, effect, reduceOnly, q, first, second) IN
           legs \in Legs /\ Total(legs) = q
<1>1. Single(q) \in Legs /\ Total(Single(q)) = q
  BY SingleTotal
<1>2. CloseLegs(c, second, q) \in Legs /\ Total(CloseLegs(c, second, q)) = q
  BY CloseTotal
<1>3. ASSUME ~(Closable(first) = 0 \/ q <= Closable(first))
      PROVE  LET legs == [CloseLegs(c, second, Closable(first)) EXCEPT
                             !.open = q - Closable(first)] IN
             legs \in Legs /\ Total(legs) = q
  <2> DEFINE m == Closable(first)
             cl == CloseLegs(c, second, m)
             legs == [cl EXCEPT !.open = q - m]
  <2>1. m \in Nat
    BY DEF Closable, Answer
  <2>2. cl \in Legs /\ Total(cl) = m /\ cl.open = 0
    BY <2>1, CloseTotal
  <2>3. q - m \in Nat
    BY <1>3, <2>1
  <2> HIDE DEF m, cl
  <2>4. /\ legs \in Legs /\ legs.open = q - m
        /\ legs.asked = cl.asked /\ legs.today = cl.today
        /\ legs.yesterday = cl.yesterday /\ legs.close = cl.close
    BY <2>2, <2>3 DEF Legs
  <2>5. Total(legs) = q
    BY <2>1, <2>2, <2>3, <2>4 DEF Legs, Total
  <2> QED BY <2>4, <2>5 DEF m, cl
<1> QED BY <1>1, <1>2, <1>3 DEF OrderLegs

-----------------------------------------------------------------------------
(* Legs: the inductive invariant *)

LegPlaces == 1..5

\* Which legs were acknowledged: those before the next one, and that one
\* between its placement and its mapping.
Acknowledged ==
    \A i \in LegPlaces :
        LegOrder[i] \in call.acked <=>
            \/ i \in CallLegs /\ i < call.next
            \/ call.at = "map" /\ i = NextLeg

CallTyped ==
    /\ call.at \in {"idle", "validate", "place", "map"}
    /\ call.legs \in Legs /\ call.next \in 1..6
    /\ DOMAIN call = {"at", "id", "quantity", "legs", "next", "acked"}
    /\ call.at = "idle" => call = NoCall
    /\ call.at = "validate" => call.next = 1
    /\ call.at = "map" => LegsLeft # {}

SubmissionInv == CallTyped /\ LegsMakeUpOrder /\ Acknowledged

\* Of some legs left, one is the next.
LEMMA NextLegIsFirst ==
    ASSUME LegsLeft # {}
    PROVE  /\ NextLeg \in LegsLeft /\ NextLeg \in LegPlaces
           /\ \A j \in LegsLeft : NextLeg <= j
<1>1. LegsLeft \subseteq LegPlaces
  BY DEF LegsLeft, CallLegs, LegOrder, LegPlaces
<1>2. \E i \in LegsLeft : \A j \in LegsLeft : i <= j
  <2>1. CASE 1 \in LegsLeft
    BY <1>1, <2>1 DEF LegPlaces
  <2>2. CASE 1 \notin LegsLeft /\ 2 \in LegsLeft
    BY <1>1, <2>2 DEF LegPlaces
  <2>3. CASE 1 \notin LegsLeft /\ 2 \notin LegsLeft /\ 3 \in LegsLeft
    BY <1>1, <2>3 DEF LegPlaces
  <2>4. CASE 1 \notin LegsLeft /\ 2 \notin LegsLeft /\ 3 \notin LegsLeft
    <3>1. LegsLeft \subseteq {4, 5}
      BY <1>1, <2>4 DEF LegPlaces
    <3>2. CASE 4 \in LegsLeft
      BY <3>1, <3>2
    <3>3. CASE 4 \notin LegsLeft
      <4>1. LegsLeft = {5}
        BY <3>1, <3>3
      <4> QED BY <4>1
    <3> QED BY <3>2, <3>3
  <2> QED BY <2>1, <2>2, <2>3, <2>4
<1> QED BY <1>1, <1>2 DEF NextLeg

\* The invariant is what OpenAfterCloses needs.
LEMMA AckedInOrder == SubmissionInv => OpenAfterCloses
<1> SUFFICES ASSUME SubmissionInv, "open" \in call.acked,
                    NEW n \in {"today", "yesterday", "close"}, call.legs[n] > 0
             PROVE  n \in call.acked
  BY DEF OpenAfterCloses
<1>1. PICK i \in 2..4 : LegOrder[i] = n
  <2>1. LegOrder[2] = "today" /\ LegOrder[3] = "yesterday" /\ LegOrder[4] = "close"
    BY DEF LegOrder
  <2> QED BY <2>1
<1>2. i \in CallLegs /\ i \in LegPlaces /\ 5 \in LegPlaces /\ LegOrder[5] = "open"
  BY <1>1 DEF CallLegs, LegOrder, LegPlaces
<1>3. call.next \in 1..6
  BY DEF SubmissionInv, CallTyped
<1>4. \/ 5 < call.next
      \/ call.at = "map" /\ NextLeg = 5
  BY <1>2 DEF SubmissionInv, Acknowledged
<1>5. CASE 5 < call.next
  BY <1>1, <1>2, <1>3, <1>5 DEF SubmissionInv, Acknowledged
<1>6. CASE call.at = "map" /\ NextLeg = 5
  <2>1. \A j \in LegsLeft : 5 <= j
    BY <1>6, NextLegIsFirst DEF SubmissionInv, CallTyped
  <2>2. i \notin LegsLeft
    BY <1>1, <2>1
  <2>3. i < call.next
    BY <1>1, <1>2, <1>3, <2>2 DEF LegsLeft
  <2> QED BY <1>1, <1>2, <2>3 DEF SubmissionInv, Acknowledged
<1> QED BY <1>4, <1>5, <1>6

\* No call has legs at first, and none after the call.
LEMMA NoCallInv ==
    /\ call = NoCall => SubmissionInv
    /\ call' = NoCall => SubmissionInv'
<1>1. NoLegs \in Legs
  BY DEF NoLegs, Legs
<1>2. /\ NoCall.at = "idle" /\ NoCall.legs = NoLegs /\ NoCall.next = 1
      /\ NoCall.acked = {}
      /\ DOMAIN NoCall = {"at", "id", "quantity", "legs", "next", "acked"}
  BY DEF NoCall
<1> HIDE DEF NoCall
<1>3. ASSUME call = NoCall PROVE SubmissionInv
  <2>1. CallLegs \subseteq LegPlaces
    BY DEF CallLegs, LegOrder, LegPlaces
  <2> QED BY <1>1, <1>2, <1>3, <2>1
          DEF SubmissionInv, CallTyped, LegsMakeUpOrder, Acknowledged, LegPlaces
<1>4. ASSUME call' = NoCall PROVE SubmissionInv'
  <2>1. CallLegs' \subseteq LegPlaces
    BY DEF CallLegs, LegOrder, LegPlaces
  <2> QED BY <1>1, <1>2, <1>4, <2>1
          DEF SubmissionInv, CallTyped, LegsMakeUpOrder, Acknowledged, LegPlaces
<1> QED BY <1>3, <1>4
-----------------------------------------------------------------------------
(* Legs: one lemma per step of a call *)

\* A call starts with legs that make up its order, none acknowledged.
LEMMA ResolveStep ==
    ASSUME SubmissionInv, NEW id \in ClientIds, NEW effect, NEW reduceOnly,
           NEW q \in Quantities, NEW first \in Answers, NEW second \in Answers,
           Resolve(id, effect, reduceOnly, q, first, second)
    PROVE  SubmissionInv'
<1> DEFINE legs == OrderLegs(can, effect, reduceOnly, q, first, second)
<1>1. q \in Nat /\ first \in Answer /\ second \in Answer
  BY SubmissionBounds, AnswersType DEF Answer
<1>2. legs \in Legs /\ Total(legs) = q
  BY <1>1, OrderTotal
<1> HIDE DEF legs
<1>3. /\ call'.at = "validate" /\ call'.legs = legs /\ call'.next = 1
      /\ call'.quantity = q /\ call'.acked = {}
      /\ DOMAIN call' = {"at", "id", "quantity", "legs", "next", "acked"}
  BY DEF Resolve, NoCall, legs
<1>4. CallTyped' /\ LegsMakeUpOrder'
  BY <1>2, <1>3 DEF CallTyped, LegsMakeUpOrder
<1>5. CallLegs' \subseteq LegPlaces
  BY DEF CallLegs, LegOrder, LegPlaces
<1>6. Acknowledged'
  BY <1>3, <1>5 DEF Acknowledged, LegPlaces
<1> QED BY <1>4, <1>6 DEF SubmissionInv

\* A call that changes its place and its next leg keeps the legs.
LEMMA CallMoves ==
    ASSUME CallTyped, NEW at, NEW next, NEW names,
           call' = [call EXCEPT !.at = at, !.next = next, !.acked = names]
    PROVE  /\ call'.at = at /\ call'.next = next /\ call'.acked = names
           /\ call'.legs = call.legs /\ call'.quantity = call.quantity
           /\ call'.id = call.id /\ DOMAIN call' = DOMAIN call
           /\ CallLegs' = CallLegs
BY DEF CallTyped, CallLegs

\* The check of the client ids sends the call on, or ends it.
LEMMA ValidateStep ==
    ASSUME SubmissionInv, Validate PROVE SubmissionInv'
<1>1. CASE call' = NoCall
  BY <1>1, NoCallInv
<1>2. CASE call' = [call EXCEPT !.at = "place"]
  <2>1. call' = [call EXCEPT !.at = "place", !.next = call.next, !.acked = call.acked]
    BY <1>2 DEF SubmissionInv, CallTyped
  <2>2. /\ call'.at = "place" /\ call'.next = call.next /\ call'.acked = call.acked
        /\ call'.legs = call.legs /\ call'.quantity = call.quantity
        /\ DOMAIN call' = DOMAIN call /\ CallLegs' = CallLegs
    BY <2>1, CallMoves DEF SubmissionInv
  <2>3. call.at = "validate"
    BY DEF Validate
  <2>4. CallTyped' /\ LegsMakeUpOrder'
    BY <2>2, <2>3 DEF SubmissionInv, CallTyped, LegsMakeUpOrder
  <2>5. Acknowledged'
    BY <2>2, <2>3 DEF SubmissionInv, Acknowledged
  <2> QED BY <2>4, <2>5 DEF SubmissionInv
<1> QED BY <1>1, <1>2 DEF Validate

\* The next leg is placed and acknowledged.
LEMMA PlaceStep ==
    ASSUME SubmissionInv, PlaceOrder PROVE SubmissionInv'
<1> DEFINE k == NextLeg
<1>1. /\ call.at = "place" /\ LegsLeft # {}
      /\ call' = [call EXCEPT !.at = "map", !.acked = call.acked \cup {LegOrder[k]}]
  BY DEF PlaceOrder
<1>2. k \in LegPlaces /\ k \in LegsLeft
  BY <1>1, NextLegIsFirst
<1>3. call' = [call EXCEPT !.at = "map", !.next = call.next,
                           !.acked = call.acked \cup {LegOrder[k]}]
  BY <1>1 DEF SubmissionInv, CallTyped
<1>4. /\ call'.at = "map" /\ call'.next = call.next
      /\ call'.acked = call.acked \cup {LegOrder[k]}
      /\ call'.legs = call.legs /\ call'.quantity = call.quantity
      /\ DOMAIN call' = DOMAIN call /\ CallLegs' = CallLegs
  BY ZenonT(60), <1>3, CallMoves DEF SubmissionInv
<1>5. LegsLeft' = LegsLeft /\ NextLeg' = NextLeg
  BY <1>4 DEF LegsLeft, NextLeg
<1>6. CallTyped' /\ LegsMakeUpOrder'
  BY <1>1, <1>4, <1>5 DEF SubmissionInv, CallTyped, LegsMakeUpOrder
<1>7. Acknowledged'
  <2>1. \A i \in LegPlaces : LegOrder[i] = LegOrder[k] => i = k
    BY <1>2 DEF LegOrder, LegPlaces
  <2> HIDE DEF k
  <2>2. NextLeg' = k
    BY <1>5 DEF k
  <2> QED BY <1>1, <1>4, <2>1, <2>2 DEF SubmissionInv, Acknowledged
<1> QED BY <1>6, <1>7 DEF SubmissionInv

\* The placed leg is behind the call, or was its last.
LEMMA MapStep ==
    ASSUME SubmissionInv, MapOrder PROVE SubmissionInv'
<1> DEFINE k == NextLeg
<1>1. call.at = "map" /\ LegsLeft # {}
  BY DEF MapOrder, SubmissionInv, CallTyped
<1>2. k \in LegPlaces /\ k \in LegsLeft /\ \A j \in LegsLeft : k <= j
  BY <1>1, NextLegIsFirst
<1>3. CASE call' = NoCall
  BY <1>3, NoCallInv
<1>4. CASE call' = [call EXCEPT !.at = "place", !.next = k + 1]
  <2>1. call' = [call EXCEPT !.at = "place", !.next = k + 1, !.acked = call.acked]
    BY <1>4 DEF SubmissionInv, CallTyped
  <2>2. /\ call'.at = "place" /\ call'.next = k + 1 /\ call'.acked = call.acked
        /\ call'.legs = call.legs /\ call'.quantity = call.quantity
        /\ DOMAIN call' = DOMAIN call /\ CallLegs' = CallLegs
    <3>1. CallTyped
      BY DEF SubmissionInv
    <3>2. k + 1 \in Nat
      BY <1>2 DEF LegPlaces
    <3> HIDE DEF k
    <3> QED BY ZenonT(60), <2>1, <3>1, <3>2, CallMoves
  <2>3. k + 1 \in 1..6
    BY <1>2 DEF LegPlaces
  <2>4. CallTyped' /\ LegsMakeUpOrder'
    BY <1>1, <2>2, <2>3 DEF SubmissionInv, CallTyped, LegsMakeUpOrder
  <2>5. \A i \in LegPlaces : (i \in CallLegs /\ i < k + 1) <=>
                             (i \in CallLegs /\ i < call.next) \/ i = k
    <3> SUFFICES ASSUME NEW i \in LegPlaces
                 PROVE  (i \in CallLegs /\ i < k + 1) <=>
                           (i \in CallLegs /\ i < call.next) \/ i = k
      OBVIOUS
    <3>1. call.next \in 1..6
      BY DEF SubmissionInv, CallTyped
    <3>2. k \in CallLegs /\ k >= call.next
      BY <1>2 DEF LegsLeft
    <3>3. i \in CallLegs /\ i >= call.next => k <= i
      BY <1>2 DEF LegsLeft
    <3> HIDE DEF k
    <3>4. k \in 1..5 /\ i \in 1..5
      BY <1>2 DEF LegPlaces
    <3> QED BY <3>1, <3>2, <3>3, <3>4
  <2>6. Acknowledged'
    BY <1>1, <2>2, <2>5 DEF SubmissionInv, Acknowledged
  <2> QED BY <2>4, <2>6 DEF SubmissionInv
<1> QED BY <1>3, <1>4 DEF MapOrder

-----------------------------------------------------------------------------
(* Legs: the theorems *)

\* Every step of the submission and of the events keeps the invariant.
LEMMA StepSubmissionInv == SubmissionInv /\ [SubmissionNext]_submissionVars => SubmissionInv'
<1> SUFFICES ASSUME SubmissionInv, [SubmissionNext]_submissionVars PROVE SubmissionInv'
  OBVIOUS
<1>1. CASE UNCHANGED call
  BY <1>1 DEF SubmissionInv, CallTyped, LegsMakeUpOrder, Acknowledged, CallLegs, LegsLeft,
              NextLeg
<1>2. CASE PlaceFails
  BY <1>2, NoCallInv DEF PlaceFails
<1>3. ASSUME NEW o \in OrderIds, ReportOpen(o) \/ ReportFinal(o) PROVE UNCHANGED call
  BY <1>3 DEF ReportOpen, ReportFinal
<1>4. ASSUME NEW e \in reports, UpdateBrokerState(e) PROVE UNCHANGED call
  BY <1>4 DEF UpdateBrokerState
<1>5. CASE UNCHANGED submissionVars
  BY <1>1, <1>5 DEF submissionVars
<1> QED BY <1>1, <1>2, <1>3, <1>4, <1>5, ResolveStep, ValidateStep, PlaceStep, MapStep
        DEF SubmissionNext

\* The invariant holds in every reachable state.
LEMMA SubmissionInvCorrect == SubmissionSpec => []SubmissionInv
<1>1. SubmissionInit => SubmissionInv
  BY NoCallInv DEF SubmissionInit
<1> QED BY <1>1, StepSubmissionInv, PTL DEF SubmissionSpec

\* The legs of an order make up its quantity (order_submitter.py,
\* resolve_live_order_legs and _split_close_legs).
THEOREM LegsMakeUpOrderCorrect == SubmissionSpec => []LegsMakeUpOrder
<1>1. SubmissionInv => LegsMakeUpOrder
  BY DEF SubmissionInv
<1> QED BY <1>1, SubmissionInvCorrect, PTL

\* A reversal opens only after each of its closing legs was acknowledged
\* (order_submitter.py, the loop of submit_order).
THEOREM OpenAfterClosesCorrect == SubmissionSpec => []OpenAfterCloses
  BY AckedInOrder, SubmissionInvCorrect, PTL
-----------------------------------------------------------------------------
(* Client order ids: the invariant *)

\* The newest order of the venue.
Newest == Cardinality(OrderIds)

\* A call has the legs of one shape, asked alone or the other four.
CallShaped ==
    /\ call.at # "idle" => call.id \in ClientIds
    /\ 1 \in CallLegs => CallLegs = {1}

VenueTyped ==
    /\ OrderIds = 1..Newest /\ Newest \in Nat
    /\ venue \in [OrderIds -> [leg : LegIds, working : BOOLEAN]]
    /\ acked \subseteq OrderIds /\ closed \subseteq OrderIds
    /\ toBroker \in [LegIds -> Nat]
    /\ reports \subseteq [order : OrderIds, final : BOOLEAN]

\* What the maps and the events say of an order is true of it.
MapsTrue ==
    /\ \A l \in LegIds : toBroker[l] # 0 => toBroker[l] \in OrderIds /\ venue[toBroker[l]].leg = l
    /\ \A o \in closed : o \notin Working
    /\ \A e \in reports : e.final => e.order \notin Working

\* The venue told of every end, and the event was applied or is queued.
EndsTold ==
    \A o \in OrderIds \ Working :
        o \in closed \/ [order |-> o, final |-> TRUE] \in reports

\* The legs whose order the call has not placed yet.
Unplaced == IF call.at = "map" THEN LegsLeft \ {NextLeg} ELSE LegsLeft

\* Once the ids of a call are checked, no acknowledged order works under one of
\* those still to be placed.
PlacesFree ==
    call.at \in {"place", "map"} =>
        \A i \in Unplaced, o \in acked \cap Working :
            venue[o].leg = LegId(i) => LegId(i) \in stale

\* An acknowledged working order is the newest under its id, and mapped, or
\* the call is about to map it.
Mapped(o) ==
    /\ \A p \in OrderIds : p > o => venue[p].leg # venue[o].leg
    /\ \/ toBroker[venue[o].leg] = o
       \/ call.at = "map" /\ o = Newest
AcksMapped == \A o \in acked \cap Working : venue[o].leg \in stale \/ Mapped(o)

\* The order a placement was acknowledged for waits to be mapped.
PlacedWaits == call.at = "map" => Newest \in acked /\ venue[Newest].leg = LegId(NextLeg)

IdInv == /\ CallShaped /\ VenueTyped /\ MapsTrue /\ EndsTold
         /\ PlacesFree /\ AcksMapped /\ PlacedWaits

-----------------------------------------------------------------------------
(* Client order ids: lemmas *)

\* Up to each leg there is one leg of the call, and four at most.
LEMMA LegCount ==
    ASSUME CallShaped, NEW i \in CallLegs
    PROVE  Cardinality({j \in CallLegs : j <= i}) \in 1..4
<1> DEFINE upTo == {j \in CallLegs : j <= i}
<1>1. CallLegs \subseteq 1..5
  BY DEF CallLegs, LegOrder
<1>2. CASE 1 \in CallLegs
  <2>1. upTo = {1}
    BY <1>2 DEF CallShaped
  <2> QED BY <2>1, FS_Singleton
<1>3. CASE 1 \notin CallLegs
  <2>1. \A j \in upTo : j \in 2..5
    BY <1>1, <1>3
  <2>2. IsFiniteSet(2..5) /\ Cardinality(2..5) = 4
    <3>1. IsFiniteSet(2..5) /\ Cardinality(2..5) = IF 2 > 5 THEN 0 ELSE 5 - 2 + 1
      BY 2 \in Int, 5 \in Int, FS_Interval, Zenon
    <3> QED BY <3>1
  <2>3. IsFiniteSet(upTo) /\ Cardinality(upTo) <= 4
    BY <2>1, <2>2, FS_Subset
  <2>4. Cardinality(upTo) \in Nat /\ Cardinality(upTo) # 0
    <3>1. i \in upTo
      BY <1>1
    <3> QED BY <2>3, <3>1, FS_CardinalityType, FS_EmptySet
  <2> QED BY <2>3, <2>4
<1> QED BY <1>2, <1>3

\* A leg's id is one, and no other leg of the call has it.
LEMMA LegIdsDiffer ==
    ASSUME CallShaped, call.at # "idle", NEW i \in CallLegs, NEW k \in CallLegs
    PROVE  /\ LegId(i) \in LegIds
           /\ LegId(i) = LegId(k) => i = k
<1> DEFINE Count(m) == Cardinality({j \in CallLegs : j <= m})
<1>1. CallLegs \subseteq 1..5 /\ \A m \in CallLegs : LegOrder[m] \in LegNames
  BY DEF CallLegs, LegOrder, LegNames
<1>2. Count(i) \in 1..4 /\ Count(k) \in 1..4
  BY LegCount
<1>3. /\ LegId(i) = IF Count(i) = 1 THEN <<call.id, "first", 1>>
                    ELSE <<call.id, LegOrder[i], Count(i)>>
      /\ LegId(k) = IF Count(k) = 1 THEN <<call.id, "first", 1>>
                    ELSE <<call.id, LegOrder[k], Count(k)>>
  BY DEF LegId
<1>4. ASSUME Count(i) = 1, Count(k) = 1 PROVE i = k
  <2>1. IsFiniteSet({j \in CallLegs : j <= i}) /\ IsFiniteSet({j \in CallLegs : j <= k})
    <3>1. IsFiniteSet(1..5)
      BY 1 \in Int, 5 \in Int, FS_Interval, Zenon
    <3> QED BY <1>1, <3>1, FS_Subset
  <2>2. PICK x : {j \in CallLegs : j <= i} = {x}
    BY <1>4, <2>1, FS_Singleton
  <2>3. PICK y : {j \in CallLegs : j <= k} = {y}
    BY <1>4, <2>1, FS_Singleton
  <2>4. i \in {j \in CallLegs : j <= i} /\ k \in {j \in CallLegs : j <= k}
    BY <1>1
  <2>5. i = x /\ k = y
    BY <2>2, <2>3, <2>4
  <2>6. CASE i <= k
    <3>1. i \in {j \in CallLegs : j <= k}
      BY <2>6
    <3> QED BY <2>3, <2>5, <3>1
  <2>7. CASE k <= i
    <3>1. k \in {j \in CallLegs : j <= i}
      BY <2>7
    <3> QED BY <2>2, <2>5, <3>1
  <2> QED BY <1>1, <2>6, <2>7
<1> HIDE DEF Count
<1>5. LegId(i) \in LegIds
  BY <1>1, <1>2, <1>3 DEF LegIds, CallShaped
<1>6. LegId(i) = LegId(k) => i = k
  <2>1. \A m, o \in CallLegs : LegOrder[m] = LegOrder[o] => m = o
    BY <1>1 DEF LegOrder
  <2> QED BY <1>2, <1>3, <1>4, <2>1
<1> QED BY <1>5, <1>6

\* A call that keeps its order and its legs keeps their ids.
LEMMA LegIdsKept ==
    ASSUME call'.id = call.id, CallLegs' = CallLegs
    PROVE  \A i : LegId(i)' = LegId(i)
BY DEF LegId

\* A placement makes the newest order.
LEMMA PlacedIsNewest ==
    ASSUME VenueTyped, LegId(NextLeg) \in LegIds, venue' = AtVenue
    PROVE  /\ OrderIds' = 1..Newest' /\ Newest' = Newest + 1 /\ Newest \in Nat
           /\ Newest + 1 \notin OrderIds /\ OrderIds' = OrderIds \cup {Newest + 1}
           /\ venue' \in [OrderIds' -> [leg : LegIds, working : BOOLEAN]]
           /\ \A o \in OrderIds : venue'[o] = venue[o]
           /\ venue'[Newest + 1] = [leg |-> LegId(NextLeg), working |-> TRUE]
<1>1. OrderIds = 1..Newest /\ Newest \in Nat
  BY DEF VenueTyped
<1>2. OrderIds' = OrderIds \cup {Newest + 1}
  BY DEF AtVenue, NewOrder, OrderIds, Newest
<1>3. OrderIds' = 1..Newest + 1
  BY <1>1, <1>2
<1>4. Newest' = Newest + 1
  <2>1. Cardinality(1..Newest + 1) = Newest + 1
    BY <1>1, FS_Interval
  <2> QED BY <1>3, <2>1 DEF Newest
<1>5. venue' = [o \in OrderIds \cup {Newest + 1} |->
                   IF o = Newest + 1 THEN [leg |-> LegId(NextLeg), working |-> TRUE]
                   ELSE venue[o]]
  BY DEF AtVenue, NewOrder, Placed, Newest
<1>6. Newest + 1 \notin OrderIds
  BY <1>1
<1>7. \A o \in OrderIds : venue'[o] = venue[o]
  BY <1>5, <1>6
<1>8. venue'[Newest + 1] = [leg |-> LegId(NextLeg), working |-> TRUE]
  BY <1>5
<1>9. venue' \in [OrderIds' -> [leg : LegIds, working : BOOLEAN]]
  <2>1. \A o \in OrderIds : venue[o] \in [leg : LegIds, working : BOOLEAN]
    BY DEF VenueTyped
  <2> QED BY <1>2, <1>5, <2>1
<1> QED BY <1>1, <1>2, <1>3, <1>4, <1>6, <1>7, <1>8, <1>9

\* The legs of an order: one as asked, or none as asked.
LEMMA OrderShape ==
    ASSUME NEW c, NEW effect, NEW reduceOnly, NEW q \in Nat,
           NEW first \in Answer, NEW second \in Answer
    PROVE  LET legs == OrderLegs(c, effect, reduceOnly, q, first, second) IN
           \/ legs.asked = 0
           \/ legs.today = 0 /\ legs.yesterday = 0 /\ legs.close = 0 /\ legs.open = 0
<1>1. \A m : Single(m).today = 0 /\ Single(m).yesterday = 0 /\ Single(m).close = 0
              /\ Single(m).open = 0
  BY DEF Single, NoLegs
<1>2. \A m : CloseLegs(c, second, m).asked = 0
  BY DEF CloseLegs, NoLegs
<1>3. \A m, n : [CloseLegs(c, second, m) EXCEPT !.open = n].asked = 0
  BY DEF CloseLegs, NoLegs
<1> QED BY <1>1, <1>2, <1>3 DEF OrderLegs

\* What a step of the call alone leaves as it was.
LEMMA BookKept ==
    ASSUME IdInv, UNCHANGED <<venue, acked, toBroker, closed, reports, stale>>
    PROVE  /\ VenueTyped' /\ MapsTrue' /\ EndsTold'
           /\ OrderIds' = OrderIds /\ Working' = Working /\ Newest' = Newest
           /\ call.at # "map" => AcksMapped'
<1>1. OrderIds' = OrderIds /\ Working' = Working /\ Newest' = Newest
  BY DEF OrderIds, Working, Newest
<1>2. VenueTyped' /\ MapsTrue' /\ EndsTold'
  BY <1>1 DEF IdInv, VenueTyped, MapsTrue, EndsTold
<1>3. call.at # "map" => AcksMapped'
  BY <1>1 DEF IdInv, AcksMapped, Mapped
<1> QED BY <1>1, <1>2, <1>3

LEMMA ResolveIds ==
    ASSUME IdInv, NEW id \in ClientIds, NEW effect, NEW reduceOnly,
           NEW q \in Quantities, NEW first \in Answers, NEW second \in Answers,
           Resolve(id, effect, reduceOnly, q, first, second)
    PROVE  IdInv'
<1> DEFINE legs == OrderLegs(can, effect, reduceOnly, q, first, second)
<1>1. q \in Nat /\ first \in Answer /\ second \in Answer
  BY SubmissionBounds, AnswersType DEF Answer
<1>2. legs \in Legs
  BY <1>1, OrderTotal
<1>3. \/ legs.asked = 0
      \/ legs.today = 0 /\ legs.yesterday = 0 /\ legs.close = 0 /\ legs.open = 0
  BY <1>1, OrderShape
<1> HIDE DEF legs
<1>4. call'.at = "validate" /\ call'.id = id /\ call'.legs = legs
  BY DEF Resolve, NoCall, legs
<1>5. call.at = "idle" /\ UNCHANGED <<venue, acked, toBroker, closed, reports, stale>>
  BY DEF Resolve, bookVars, mapVars
<1>6. CallShaped'
  <2>1. CallLegs' = {i \in DOMAIN LegOrder : legs[LegOrder[i]] > 0}
    BY <1>4 DEF CallLegs
  <2>2. 1 \in CallLegs' => CallLegs' = {1}
    BY <1>2, <1>3, <2>1 DEF LegOrder, Legs
  <2> QED BY <1>4, <2>2 DEF CallShaped
<1>7. PlacesFree' /\ PlacedWaits'
  BY <1>4 DEF PlacesFree, PlacedWaits
<1> QED BY <1>5, <1>6, <1>7, BookKept DEF IdInv

\* Nothing is said of a call that is over.
LEMMA NoCallIds ==
    ASSUME SubmissionInv, call' = NoCall
    PROVE  CallShaped' /\ PlacesFree' /\ PlacedWaits'
<1>1. call'.at = "idle" /\ call'.legs = NoLegs
  BY DEF NoCall
<1>2. CallLegs' = {}
  BY <1>1 DEF CallLegs, LegOrder, NoLegs
<1> QED BY <1>1, <1>2 DEF CallShaped, PlacesFree, PlacedWaits

\* An id that may be submitted has no acknowledged working order.
LEMMA ValidateIds ==
    ASSUME SubmissionInv, IdInv, Validate
    PROVE  IdInv'
<1>1. call.at = "validate" /\ UNCHANGED <<venue, acked, toBroker, closed, reports, stale>>
  BY DEF Validate, bookVars, mapVars
<1>2. CASE call' = NoCall
  BY <1>1, <1>2, BookKept, NoCallIds DEF IdInv
<1>3. CASE (\A l \in CallLegIds : CanSubmit(l)) /\ call' = [call EXCEPT !.at = "place"]
  <2>1. call' = [call EXCEPT !.at = "place", !.next = call.next, !.acked = call.acked]
    BY <1>3 DEF SubmissionInv, CallTyped
  <2>2. /\ call'.at = "place" /\ call'.next = call.next
        /\ call'.id = call.id /\ CallLegs' = CallLegs
    BY <2>1, CallMoves DEF SubmissionInv
  <2>3. CallShaped' /\ PlacedWaits'
    BY <1>1, <2>2 DEF IdInv, CallShaped, PlacedWaits
  <2>4. \A i : LegId(i)' = LegId(i)
    BY <2>2, LegIdsKept
  <2>5. LegsLeft' \subseteq CallLegs /\ Unplaced' = LegsLeft'
    BY <2>2 DEF LegsLeft, Unplaced
  <2>6. Working' = Working
    BY <1>1, BookKept
  <2>7. PlacesFree'
    <3> SUFFICES ASSUME NEW i \in CallLegs, NEW o \in acked \cap Working,
                        venue[o].leg = LegId(i), LegId(i) \notin stale
                 PROVE  FALSE
      BY <1>1, <2>4, <2>5, <2>6 DEF PlacesFree
    <3>1. toBroker[LegId(i)] = o
      BY <1>1 DEF IdInv, AcksMapped, Mapped
    <3>2. o # 0 /\ o \notin closed
      BY DEF IdInv, VenueTyped, MapsTrue, Working
    <3>3. CanSubmit(LegId(i))
      BY <1>3 DEF CallLegIds
    <3> QED BY <3>1, <3>2, <3>3 DEF CanSubmit
  <2> QED BY <1>1, <2>3, <2>7, BookKept DEF IdInv
<1> QED BY <1>2, <1>3 DEF Validate

\* A new order at the venue, acknowledged or not: what does not depend on the call.
LEMMA NewOrderIds ==
    ASSUME SubmissionInv, IdInv, call.at = "place", LegsLeft # {}, venue' = AtVenue,
           acked' \in {acked, acked \cup {Newest + 1}},
           UNCHANGED <<toBroker, closed, reports, stale>>
    PROVE  /\ VenueTyped' /\ MapsTrue' /\ EndsTold'
           /\ Working' = Working \cup {Newest + 1}
           /\ \A o \in acked \cap Working :
                 \/ venue[o].leg \in stale
                 \/ /\ toBroker[venue[o].leg] = o
                    /\ \A p \in OrderIds' : p > o => venue'[p].leg # venue[o].leg
<1> DEFINE n == Newest
<1>1. NextLeg \in LegsLeft /\ NextLeg \in CallLegs
  BY NextLegIsFirst DEF LegsLeft
<1>2. LegId(NextLeg) \in LegIds
  BY <1>1, LegIdsDiffer DEF IdInv
<1>3. /\ OrderIds' = 1..Newest' /\ Newest' = n + 1 /\ n \in Nat
      /\ n + 1 \notin OrderIds /\ OrderIds' = OrderIds \cup {n + 1}
      /\ venue' \in [OrderIds' -> [leg : LegIds, working : BOOLEAN]]
      /\ \A o \in OrderIds : venue'[o] = venue[o]
      /\ venue'[n + 1] = [leg |-> LegId(NextLeg), working |-> TRUE]
  BY <1>2, PlacedIsNewest DEF IdInv
<1> HIDE DEF n
<1>4. Working' = Working \cup {n + 1}
  BY <1>3 DEF Working
<1>5. VenueTyped'
  BY <1>3 DEF IdInv, VenueTyped, n
<1>6. MapsTrue'
  <2>1. \A l \in LegIds : toBroker[l] # 0 => toBroker[l] \in OrderIds /\ venue[toBroker[l]].leg = l
    BY DEF IdInv, MapsTrue
  <2>2. \A o \in closed : o \in OrderIds /\ o \notin Working
    BY DEF IdInv, MapsTrue, VenueTyped
  <2>3. \A e \in reports : e.order \in OrderIds /\ (e.final => e.order \notin Working)
    BY DEF IdInv, MapsTrue, VenueTyped
  <2> QED BY <1>3, <1>4, <2>1, <2>2, <2>3 DEF MapsTrue
<1>7. EndsTold'
  BY <1>3, <1>4 DEF IdInv, EndsTold
<1>8. ASSUME NEW o \in acked \cap Working, venue[o].leg \notin stale
      PROVE  /\ toBroker[venue[o].leg] = o
             /\ \A p \in OrderIds' : p > o => venue'[p].leg # venue[o].leg
  <2>1. Mapped(o)
    BY <1>8 DEF IdInv, AcksMapped
  <2>2. venue[o].leg # LegId(NextLeg)
    BY <1>1, <1>8 DEF IdInv, PlacesFree, Unplaced
  <2> QED BY <1>3, <2>1, <2>2 DEF Mapped
<1> QED BY <1>4, <1>5, <1>6, <1>7, <1>8 DEF n

\* The order a call places is the only acknowledged working one under its id.
LEMMA PlaceIds ==
    ASSUME SubmissionInv, IdInv, PlaceOrder
    PROVE  IdInv'
<1> DEFINE k == NextLeg
           n == Newest
<1>1. /\ call.at = "place" /\ LegsLeft # {} /\ venue' = AtVenue
      /\ acked' = acked \cup {n + 1} /\ UNCHANGED <<toBroker, closed, reports, stale>>
      /\ call' = [call EXCEPT !.at = "map", !.acked = call.acked \cup {LegOrder[k]}]
  BY DEF PlaceOrder, NewOrder, Newest, mapVars
<1>2. call' = [call EXCEPT !.at = "map", !.next = call.next,
                           !.acked = call.acked \cup {LegOrder[k]}]
  BY <1>1 DEF SubmissionInv, CallTyped
<1>3. /\ call'.at = "map" /\ call'.next = call.next
      /\ call'.id = call.id /\ CallLegs' = CallLegs
  BY ZenonT(60), <1>2, CallMoves DEF SubmissionInv
<1>4. LegsLeft' = LegsLeft /\ NextLeg' = k /\ \A i : LegId(i)' = LegId(i)
  BY <1>3, LegIdsKept DEF LegsLeft, NextLeg
<1>5. k \in LegsLeft /\ LegsLeft \subseteq CallLegs
  BY <1>1, NextLegIsFirst DEF LegsLeft
<1>6. LegId(k) \in LegIds /\ \A i \in CallLegs : LegId(i) = LegId(k) => i = k
  BY <1>1, <1>5, LegIdsDiffer DEF IdInv
<1>7. /\ Newest' = n + 1 /\ n + 1 \notin OrderIds /\ n \in Nat
      /\ OrderIds' = 1..n + 1
      /\ \A o \in OrderIds : venue'[o] = venue[o]
      /\ venue'[n + 1] = [leg |-> LegId(k), working |-> TRUE]
  BY <1>1, <1>6, PlacedIsNewest DEF IdInv
<1>8. /\ VenueTyped' /\ MapsTrue' /\ EndsTold' /\ Working' = Working \cup {n + 1}
      /\ \A o \in acked \cap Working :
           \/ venue[o].leg \in stale
           \/ /\ toBroker[venue[o].leg] = o
              /\ \A p \in OrderIds' : p > o => venue'[p].leg # venue[o].leg
  BY <1>1, NewOrderIds
<1>9. acked \cap Working \subseteq OrderIds
  BY DEF IdInv, VenueTyped
<1> HIDE DEF k, n
<1>10. CallShaped' /\ PlacedWaits'
  BY <1>1, <1>3, <1>4, <1>7 DEF IdInv, CallShaped, PlacedWaits
<1>11. (acked \cap Working)' = (acked \cap Working) \cup {n + 1}
  <2>1. n + 1 \notin acked
    BY <1>7 DEF IdInv, VenueTyped
  <2> QED BY <1>1, <1>7, <1>8, <2>1 DEF IdInv, VenueTyped, Working
<1>12. PlacesFree'
  <2> SUFFICES ASSUME NEW i \in Unplaced', NEW o \in (acked \cap Working)',
                      venue'[o].leg = LegId(i), LegId(i) \notin stale
               PROVE  FALSE
    BY <1>1, <1>4 DEF PlacesFree
  <2>1. i \in LegsLeft /\ i \in CallLegs /\ i # k
    BY <1>3, <1>4, <1>5 DEF Unplaced
  <2>2. o # n + 1
    BY <1>6, <1>7, <2>1
  <2>3. o \in acked \cap Working /\ venue'[o] = venue[o]
    BY <1>7, <1>9, <1>11, <2>2
  <2> QED BY <1>1, <2>1, <2>3 DEF IdInv, PlacesFree, Unplaced
<1>13. AcksMapped'
  <2> SUFFICES ASSUME NEW o \in (acked \cap Working)', venue'[o].leg \notin stale
               PROVE  Mapped(o)'
    BY <1>1 DEF AcksMapped
  <2>1. CASE o = n + 1
    BY <1>3, <1>7, <2>1 DEF Mapped
  <2>2. CASE o # n + 1
    <3>1. o \in acked \cap Working /\ venue'[o] = venue[o]
      BY <1>7, <1>9, <1>11, <2>2
    <3> QED BY <1>1, <1>8, <3>1 DEF Mapped
  <2> QED BY <2>1, <2>2
<1> QED BY <1>8, <1>10, <1>12, <1>13 DEF IdInv

\* A placement that raises ends the call, with the order at the venue or not.
LEMMA PlaceFailsIds ==
    ASSUME SubmissionInv, IdInv, PlaceFails
    PROVE  IdInv'
<1>1. /\ call.at = "place" /\ LegsLeft # {} /\ venue' \in {venue, AtVenue}
      /\ call' = NoCall /\ UNCHANGED <<acked, toBroker, closed, reports, stale>>
  BY DEF PlaceFails, mapVars
<1>2. CallShaped' /\ PlacesFree' /\ PlacedWaits'
  BY <1>1, NoCallIds
<1>3. CASE venue' = venue
  BY <1>1, <1>2, <1>3, BookKept DEF IdInv
<1>4. CASE venue' = AtVenue
  <2>1. NextLeg \in CallLegs
    BY <1>1, NextLegIsFirst DEF LegsLeft
  <2>2. LegId(NextLeg) \in LegIds
    BY <1>1, <2>1, LegIdsDiffer DEF IdInv
  <2>3. /\ VenueTyped' /\ MapsTrue' /\ EndsTold' /\ Working' = Working \cup {Newest + 1}
        /\ \A o \in acked \cap Working :
             \/ venue[o].leg \in stale
             \/ /\ toBroker[venue[o].leg] = o
                /\ \A p \in OrderIds' : p > o => venue'[p].leg # venue[o].leg
    BY <1>1, <1>4, NewOrderIds
  <2>4. Newest + 1 \notin OrderIds /\ \A o \in OrderIds : venue'[o] = venue[o]
    BY <1>4, <2>2, PlacedIsNewest DEF IdInv
  <2>5. acked \subseteq OrderIds
    BY DEF IdInv, VenueTyped
  <2>6. AcksMapped'
    BY <1>1, <2>3, <2>4, <2>5 DEF AcksMapped, Mapped
  <2> QED BY <1>2, <2>3, <2>6 DEF IdInv
<1> QED BY <1>1, <1>3, <1>4

\* The mapping of the placed order: the newest under its id.
LEMMA MapIds ==
    ASSUME SubmissionInv, IdInv, MapOrder
    PROVE  IdInv'
<1> DEFINE k == NextLeg
           n == Newest
<1>1. /\ call.at = "map" /\ LegsLeft # {} /\ UNCHANGED <<venue, acked, closed, reports, stale>>
      /\ toBroker' = [toBroker EXCEPT ![LegId(k)] = n]
      /\ \/ call' = NoCall
         \/ call' = [call EXCEPT !.at = "place", !.next = k + 1]
  BY DEF MapOrder, Newest, bookVars, SubmissionInv, CallTyped
<1>2. k \in LegsLeft /\ k \in CallLegs /\ k \in 1..5 /\ \A j \in LegsLeft : k <= j
  BY <1>1, NextLegIsFirst DEF LegsLeft, LegPlaces
<1>3. LegId(k) \in LegIds
  BY <1>1, <1>2, LegIdsDiffer DEF IdInv
<1>4. n \in acked /\ venue[n].leg = LegId(k) /\ n \in OrderIds /\ n \in Nat
  BY <1>1 DEF IdInv, PlacedWaits, VenueTyped
<1>5. OrderIds' = OrderIds /\ Working' = Working /\ Newest' = n
  BY <1>1 DEF OrderIds, Working, Newest
<1> HIDE DEF n
<1>6. VenueTyped' /\ MapsTrue' /\ EndsTold'
  BY <1>1, <1>3, <1>4, <1>5 DEF IdInv, VenueTyped, MapsTrue, EndsTold, n
<1>7. AcksMapped'
  <2> SUFFICES ASSUME NEW o \in acked \cap Working, venue[o].leg \notin stale
               PROVE  Mapped(o)'
    BY <1>1, <1>5 DEF AcksMapped
  <2>1. Mapped(o) /\ o \in OrderIds /\ venue[o].leg \in LegIds
    BY DEF IdInv, AcksMapped, VenueTyped, Working
  <2>2. CASE venue[o].leg = LegId(k)
    <3>1. ~(n > o) /\ o \in 1..n
      BY <1>4, <2>1, <2>2 DEF Mapped, IdInv, VenueTyped, n
    <3>2. o = n
      BY <1>4, <3>1
    <3> QED BY <1>1, <1>3, <1>5, <2>1, <2>2, <3>2 DEF Mapped, IdInv, VenueTyped
  <2>3. CASE venue[o].leg # LegId(k)
    <3>1. o # n
      BY <1>4, <2>3
    <3>2. toBroker[venue[o].leg] = o
      BY <2>1, <3>1 DEF Mapped, n
    <3> QED BY <1>1, <1>3, <1>5, <2>1, <2>3, <3>2 DEF Mapped, IdInv, VenueTyped
  <2> QED BY <2>2, <2>3
<1>8. CASE call' = NoCall
  BY <1>6, <1>7, <1>8, NoCallIds DEF IdInv
<1>9. CASE call' = [call EXCEPT !.at = "place", !.next = k + 1]
  <2>1. call' = [call EXCEPT !.at = "place", !.next = k + 1, !.acked = call.acked]
    BY <1>9 DEF SubmissionInv, CallTyped
  <2>2. /\ call'.at = "place" /\ call'.next = k + 1
        /\ call'.id = call.id /\ CallLegs' = CallLegs
    BY <2>1, CallMoves DEF SubmissionInv
  <2>3. CallShaped' /\ PlacedWaits'
    BY <1>1, <2>2 DEF IdInv, CallShaped, PlacedWaits
  <2>4. Unplaced' \subseteq LegsLeft \ {k}
    <3>1. Unplaced' = {i \in CallLegs : i >= k + 1}
      BY <2>2 DEF Unplaced, LegsLeft
    <3>2. CallLegs \subseteq 1..5 /\ call.next \in 1..6
      BY DEF CallLegs, LegOrder, SubmissionInv, CallTyped
    <3>3. k >= call.next
      BY <1>2 DEF LegsLeft
    <3> HIDE DEF k
    <3>4. ASSUME NEW i \in CallLegs, i >= k + 1 PROVE i >= call.next /\ i # k
      BY <1>2, <3>2, <3>3, <3>4
    <3> QED BY <3>1, <3>4 DEF LegsLeft
  <2>5. PlacesFree'
    <3>1. \A i : LegId(i)' = LegId(i)
      BY <2>2, LegIdsKept
    <3> QED BY <1>1, <1>5, <2>4, <3>1 DEF IdInv, PlacesFree, Unplaced
  <2> QED BY <1>6, <1>7, <2>3, <2>5 DEF IdInv
<1> QED BY <1>1, <1>8, <1>9

\* What a step of the venue or of an event leaves as it was.
LEMMA CallKept ==
    ASSUME UNCHANGED call
    PROVE  /\ CallLegs' = CallLegs /\ LegsLeft' = LegsLeft /\ NextLeg' = NextLeg
           /\ Unplaced' = Unplaced /\ \A i : LegId(i)' = LegId(i)
BY DEF CallLegs, LegsLeft, NextLeg, Unplaced, LegId

LEMMA ReportIds ==
    ASSUME IdInv, NEW o \in OrderIds, ReportOpen(o) \/ ReportFinal(o)
    PROVE  IdInv'
<1>1. /\ o \in Working /\ UNCHANGED <<call, acked, toBroker, closed, stale>>
      /\ OrderIds' = OrderIds
      /\ \/ venue' = venue /\ reports' = reports \cup {[order |-> o, final |-> FALSE]}
         \/ /\ venue' = [venue EXCEPT ![o].working = FALSE]
            /\ reports' = reports \cup {[order |-> o, final |-> TRUE]}
  BY DEF ReportOpen, ReportFinal, mapVars, OrderIds
<1>2. /\ CallLegs' = CallLegs /\ LegsLeft' = LegsLeft /\ NextLeg' = NextLeg
      /\ Unplaced' = Unplaced /\ \A i : LegId(i)' = LegId(i)
  BY <1>1, CallKept
<1>3. /\ venue' \in [OrderIds -> [leg : LegIds, working : BOOLEAN]]
      /\ \A p \in OrderIds : venue'[p].leg = venue[p].leg
      /\ \A p \in OrderIds : p # o => venue'[p] = venue[p]
      /\ reports' = reports \cup {[order |-> o, final |-> ~venue'[o].working]}
  <2>1. venue \in [OrderIds -> [leg : LegIds, working : BOOLEAN]] /\ venue[o].working = TRUE
    BY <1>1 DEF IdInv, VenueTyped, Working
  <2>2. venue[o] \in [leg : LegIds, working : BOOLEAN]
    BY <2>1
  <2>3. CASE venue' = venue /\ reports' = reports \cup {[order |-> o, final |-> FALSE]}
    BY <2>1, <2>3
  <2>4. CASE /\ venue' = [venue EXCEPT ![o].working = FALSE]
             /\ reports' = reports \cup {[order |-> o, final |-> TRUE]}
    <3>1. venue'[o] = [leg |-> venue[o].leg, working |-> FALSE]
      BY <2>1, <2>2, <2>4
    <3> QED BY <2>1, <2>2, <2>4, <3>1
  <2> QED BY <1>1, <2>3, <2>4
<1>4. Working' \in {Working, Working \ {o}} /\ (o \in Working' <=> venue'[o].working)
  BY <1>1, <1>3 DEF Working
<1>5. VenueTyped'
  <2> DEFINE ended == ~venue'[o].working
  <2>1. [order |-> o, final |-> ended] \in [order : OrderIds, final : BOOLEAN]
    BY ended \in BOOLEAN
  <2>2. reports' \subseteq [order : OrderIds, final : BOOLEAN]
    BY <1>3, <2>1 DEF IdInv, VenueTyped
  <2>3. Newest' = Newest
    BY <1>1 DEF Newest
  <2> QED BY <1>1, <1>3, <2>2, <2>3 DEF IdInv, VenueTyped
<1>6. MapsTrue'
  BY <1>1, <1>3, <1>4 DEF IdInv, MapsTrue, VenueTyped
<1>7. EndsTold'
  BY <1>1, <1>3, <1>4 DEF IdInv, EndsTold
<1>8. CallShaped' /\ PlacesFree' /\ PlacedWaits'
  BY <1>1, <1>2, <1>3, <1>4
     DEF IdInv, CallShaped, PlacesFree, PlacedWaits, VenueTyped, Newest
<1>9. AcksMapped'
  BY <1>1, <1>3, <1>4 DEF IdInv, AcksMapped, Mapped, VenueTyped, Newest
<1> QED BY <1>5, <1>6, <1>7, <1>8, <1>9 DEF IdInv

\* An event of an older order makes the id stale; one of the newest maps it.
LEMMA UpdateIds ==
    ASSUME IdInv, NEW e \in reports, UpdateBrokerState(e)
    PROVE  IdInv'
<1> DEFINE o == e.order
           l == venue[o].leg
<1>1. /\ UNCHANGED <<call, venue, acked>> /\ reports' = reports \ {e}
      /\ toBroker' = [toBroker EXCEPT ![l] = IF e.final THEN 0 ELSE o]
      /\ closed' = IF e.final THEN closed \cup {o} ELSE closed
      /\ stale' = IF \E p \in OrderIds : p > o /\ venue[p].leg = l
                  THEN stale \cup {l} ELSE stale
  BY DEF UpdateBrokerState
<1>2. /\ e \in [order : OrderIds, final : BOOLEAN] /\ o \in OrderIds /\ l \in LegIds
      /\ e.final => o \notin Working
  BY DEF IdInv, VenueTyped, MapsTrue
<1>3. e = [order |-> o, final |-> e.final]
  BY <1>2
<1>4. /\ CallLegs' = CallLegs /\ LegsLeft' = LegsLeft /\ NextLeg' = NextLeg
      /\ Unplaced' = Unplaced /\ \A i : LegId(i)' = LegId(i)
  BY <1>1, CallKept
<1>5. OrderIds' = OrderIds /\ Working' = Working /\ Newest' = Newest
  BY <1>1 DEF OrderIds, Working, Newest
<1> HIDE DEF o, l
<1>6. VenueTyped'
  BY <1>1, <1>2, <1>5 DEF IdInv, VenueTyped
<1>7. MapsTrue'
  BY <1>1, <1>2, <1>5 DEF IdInv, MapsTrue, VenueTyped, l
<1>8. EndsTold'
  <2> SUFFICES ASSUME NEW p \in OrderIds \ Working
               PROVE  p \in closed' \/ [order |-> p, final |-> TRUE] \in reports'
    BY <1>5 DEF EndsTold
  <2>1. p \in closed \/ [order |-> p, final |-> TRUE] \in reports
    BY DEF IdInv, EndsTold
  <2>2. CASE [order |-> p, final |-> TRUE] = e
    <3>1. e.order = p /\ e.final = TRUE
      BY <2>2
    <3> QED BY <1>1, <3>1 DEF o
  <2>3. CASE [order |-> p, final |-> TRUE] # e
    BY <1>1, <2>1, <2>3
  <2> QED BY <2>2, <2>3
<1>9. CallShaped' /\ PlacesFree' /\ PlacedWaits'
  BY <1>1, <1>4, <1>5 DEF IdInv, CallShaped, PlacesFree, PlacedWaits
<1>10. AcksMapped'
  <2> SUFFICES ASSUME NEW p \in acked \cap Working, venue[p].leg \notin stale'
               PROVE  Mapped(p)'
    BY <1>1, <1>5 DEF AcksMapped
  <2>1. Mapped(p) /\ p \in OrderIds /\ venue[p].leg \in LegIds /\ venue[p].leg \notin stale
    BY <1>1 DEF IdInv, AcksMapped, VenueTyped, Working
  <2>2. CASE venue[p].leg # l
    BY <1>1, <1>2, <1>5, <2>1, <2>2 DEF Mapped, IdInv, VenueTyped
  <2>3. CASE venue[p].leg = l
    <3>1. ~(p > o)
      BY <1>1, <2>1, <2>3
    <3>2. ~(o > p)
      BY <1>2, <2>1, <2>3 DEF Mapped, l
    <3>3. p = o
      BY <1>2, <2>1, <3>1, <3>2 DEF IdInv, VenueTyped
    <3>4. ~e.final
      BY <1>2, <3>3
    <3> QED BY <1>1, <1>2, <1>5, <2>1, <2>3, <3>3, <3>4 DEF Mapped, IdInv, VenueTyped
  <2> QED BY <2>2, <2>3
<1> QED BY <1>6, <1>7, <1>8, <1>9, <1>10 DEF IdInv

LEMMA StepIdInv == SubmissionInv /\ IdInv /\ [SubmissionNext]_submissionVars => IdInv'
<1> SUFFICES ASSUME SubmissionInv, IdInv, [SubmissionNext]_submissionVars PROVE IdInv'
  OBVIOUS
<1>1. CASE UNCHANGED submissionVars
  BY <1>1, CallKept
     DEF submissionVars, IdInv, CallShaped, VenueTyped, MapsTrue, EndsTold, PlacesFree,
         AcksMapped, PlacedWaits, Mapped, OrderIds, Working, Newest
<1> QED BY <1>1, ResolveIds, ValidateIds, PlaceIds, PlaceFailsIds, MapIds, ReportIds, UpdateIds
        DEF SubmissionNext

LEMMA InitIdInv == SubmissionInit => IdInv
<1> SUFFICES ASSUME SubmissionInit PROVE IdInv
  OBVIOUS
<1>1. /\ call = NoCall /\ venue = [o \in {} |-> 0] /\ acked = {}
      /\ toBroker = [l \in LegIds |-> 0] /\ closed = {} /\ reports = {}
  BY DEF SubmissionInit
<1>2. OrderIds = {} /\ Newest = 0 /\ Working = {}
  BY <1>1, FS_EmptySet DEF OrderIds, Newest, Working
<1>3. call.at = "idle" /\ CallLegs = {}
  BY <1>1 DEF NoCall, CallLegs, NoLegs, LegOrder
<1>4. VenueTyped
  <2>1. 1..0 = {}
    OBVIOUS
  <2> QED BY <1>1, <1>2, <2>1 DEF VenueTyped, OrderIds
<1>5. MapsTrue /\ EndsTold /\ AcksMapped
  BY <1>1, <1>2 DEF MapsTrue, EndsTold, AcksMapped
<1>6. CallShaped /\ PlacesFree /\ PlacedWaits
  BY <1>3 DEF CallShaped, PlacesFree, PlacedWaits
<1> QED BY <1>4, <1>5, <1>6 DEF IdInv

LEMMA IdInvCorrect == SubmissionSpec => []IdInv
BY InitIdInv, SubmissionInvCorrect, StepIdInv, PTL DEF SubmissionSpec

\* Of two acknowledged working orders no two have one client order id, unless an
\* older order's event came late (order_submitter.py, validate_live_order_client_ids).
THEOREM OneOrderPerClientIdCorrect == SubmissionSpec => []OneOrderPerClientId
<1>1. IdInv => OneOrderPerClientId
  <2> SUFFICES ASSUME IdInv, NEW o \in acked \cap Working, NEW p \in acked \cap Working,
                      venue[o].leg = venue[p].leg, venue[o].leg \notin stale
               PROVE  o = p
    BY DEF OneOrderPerClientId
  <2>1. Mapped(o) /\ Mapped(p) /\ o \in OrderIds /\ p \in OrderIds
    BY DEF IdInv, AcksMapped, Working
  <2>2. ~(p > o) /\ ~(o > p)
    BY <2>1 DEF Mapped
  <2> QED BY <2>1, <2>2 DEF IdInv, VenueTyped
<1> QED BY <1>1, IdInvCorrect, PTL

\* An id whose orders all ended, and were reported so, may be used again
\* (live/_runner.py, can_submit_client_order).
THEOREM EndedIdReusableCorrect == SubmissionSpec => []EndedIdReusable
<1>1. IdInv => EndedIdReusable
  <2> SUFFICES ASSUME IdInv, NEW l \in LegIds, toBroker[l] # 0,
                      \A o \in OrderIds : venue[o].leg = l => o \in acked \ Working,
                      \A e \in reports : venue[e.order].leg # l
               PROVE  toBroker[l] \in closed
    BY DEF EndedIdReusable, CanSubmit
  <2>1. toBroker[l] \in OrderIds /\ venue[toBroker[l]].leg = l
    BY DEF IdInv, MapsTrue
  <2>2. toBroker[l] \notin Working /\ [order |-> toBroker[l], final |-> TRUE] \notin reports
    BY <2>1
  <2> QED BY <2>1, <2>2 DEF IdInv, EndsTold
<1> QED BY <1>1, IdInvCorrect, PTL

-----------------------------------------------------------------------------
(***************************************************************************)
(* Signals: the queue of seen ids.                                         *)
(***************************************************************************)

\* Taking an id out leaves the others, and an id that was there once is gone.
LEMMA WithoutRemovesOne ==
    ASSUME NEW q \in Seq(Signals), NEW s \in Signals, NoTwice(q)
    PROVE  /\ Without(q, s) \in Seq(Signals)
           /\ NoTwice(Without(q, s))
           /\ \A x \in Signals : Holds(Without(q, s), x) <=> x # s /\ Holds(q, x)
<1>1. CASE ~Holds(q, s)
  BY <1>1 DEF Without, Holds
<1>2. CASE Holds(q, s)
  <2> DEFINE k == CHOOSE i \in DOMAIN q : q[i] = s
             r == RemoveAt(q, k)
  <2>1. k \in 1..Len(q) /\ q[k] = s
    BY <1>2 DEF Holds
  <2>2. Without(q, s) = r
    BY <1>2 DEF Without
  <2> HIDE DEF k
  <2>3. /\ r \in Seq(Signals) /\ Len(r) = Len(q) - 1
        /\ \A i \in 1..(Len(q) - 1) : r[i] = IF i < k THEN q[i] ELSE q[i + 1]
    <3> DEFINE a == SubSeq(q, 1, k - 1)
               b == SubSeq(q, k + 1, Len(q))
    <3>1. /\ a \in Seq(Signals) /\ Len(a) = k - 1
          /\ \A i \in 1..(k - 1) : a[i] = q[i]
      BY <2>1, SubSeqProperties
    <3>2. /\ b \in Seq(Signals) /\ Len(b) = Len(q) - k
          /\ \A i \in 1..(Len(q) - k) : b[i] = q[k + i]
      BY <2>1, SubSeqProperties
    <3>3. r = a \o b
      BY DEF RemoveAt
    <3> HIDE DEF a, b, r
    <3>4. /\ a \o b \in Seq(Signals) /\ Len(a \o b) = Len(a) + Len(b)
          /\ \A i \in 1..(Len(a) + Len(b)) :
                (a \o b)[i] = IF i <= Len(a) THEN a[i] ELSE b[i - Len(a)]
      BY <3>1, <3>2, ConcatProperties
    <3>5. Len(r) = Len(q) - 1
      BY <2>1, <3>1, <3>2, <3>3, <3>4
    <3>6. ASSUME NEW i \in 1..(Len(q) - 1)
          PROVE  r[i] = IF i < k THEN q[i] ELSE q[i + 1]
      <4>1. r[i] = IF i <= k - 1 THEN a[i] ELSE b[i - (k - 1)]
        <5>1. i \in 1..(Len(a) + Len(b)) /\ Len(a) = k - 1
          BY <2>1, <3>1, <3>2
        <5>2. r[i] = IF i <= Len(a) THEN a[i] ELSE b[i - Len(a)]
          BY <3>3, <3>4, <5>1
        <5> QED BY <5>1, <5>2
      <4>2. CASE i < k
        BY <2>1, <3>1, <4>1, <4>2
      <4>3. CASE i >= k
        <5>1. i - (k - 1) \in 1..(Len(q) - k) /\ k + (i - (k - 1)) = i + 1
          BY <2>1, <4>3
        <5>2. b[i - (k - 1)] = q[i + 1]
          BY <3>2, <5>1
        <5>3. ~(i <= k - 1) /\ ~(i < k)
          BY <2>1, <4>3
        <5> QED BY <4>1, <5>2, <5>3
      <4> QED BY <2>1, <4>2, <4>3
    <3> QED BY <3>3, <3>4, <3>5, <3>6
  <2> HIDE DEF r
  <2>0. DOMAIN r = 1..(Len(q) - 1) /\ DOMAIN q = 1..Len(q) /\ Len(q) \in Nat
    BY <2>3, LenProperties
  <2>4. NoTwice(r)
    <3> SUFFICES ASSUME NEW i \in DOMAIN r, NEW j \in DOMAIN r, r[i] = r[j]
                 PROVE  i = j
      BY DEF NoTwice
    <3>1. \A m, n \in 1..Len(q) : q[m] = q[n] => m = n
      BY <2>0 DEF NoTwice
    <3> QED BY <2>0, <2>1, <2>3, <3>1
  <2>5. ASSUME NEW x \in Signals
        PROVE  Holds(r, x) <=> x # s /\ Holds(q, x)
    <3>1. ASSUME Holds(r, x) PROVE x # s /\ Holds(q, x)
      BY <2>1, <2>3, <3>1 DEF Holds, NoTwice
    <3>2. ASSUME x # s, Holds(q, x) PROVE Holds(r, x)
      <4>1. PICK i \in 1..Len(q) : q[i] = x
        BY <3>2 DEF Holds
      <4>2. CASE i < k
        BY <2>1, <2>3, <4>1, <4>2 DEF Holds
      <4>3. CASE i > k
        <5>1. i - 1 \in 1..(Len(q) - 1) /\ r[i - 1] = x
          BY <2>1, <2>3, <4>1, <4>3
        <5> QED BY <2>3, <5>1 DEF Holds
      <4> QED BY <2>1, <3>2, <4>1, <4>2, <4>3
    <3> QED BY <3>1, <3>2
  <2> QED BY <2>2, <2>3, <2>4, <2>5
<1> QED BY <1>1, <1>2

\* Taking an id out of a queue leaves a queue of ids.
LEMMA WithoutType ==
    ASSUME NEW q \in Seq(Signals), NEW s
    PROVE  Without(q, s) \in Seq(Signals)
<1> SUFFICES ASSUME Holds(q, s) PROVE Without(q, s) \in Seq(Signals)
  BY DEF Without
<1> DEFINE k == CHOOSE i \in DOMAIN q : q[i] = s
<1>1. k \in 1..Len(q)
  BY DEF Holds
<1> HIDE DEF k
<1>2. \A i \in 1..Len(q) : q[i] \in Signals
  OBVIOUS
<1>3. /\ SubSeq(q, 1, k - 1) \in Seq(Signals)
      /\ SubSeq(q, k + 1, Len(q)) \in Seq(Signals)
  BY <1>1, <1>2, SubSeqProperties
<1>4. SubSeq(q, 1, k - 1) \o SubSeq(q, k + 1, Len(q)) \in Seq(Signals)
  BY <1>3, ConcatProperties
<1> QED BY <1>4 DEF Without, RemoveAt, k

\* A new id at the end of the queue.
LEMMA AppendAddsOne ==
    ASSUME NEW q \in Seq(Signals), NEW s \in Signals, NoTwice(q), ~Holds(q, s)
    PROVE  /\ Append(q, s) \in Seq(Signals)
           /\ NoTwice(Append(q, s))
           /\ \A x \in Signals : Holds(Append(q, s), x) <=> x = s \/ Holds(q, x)
<1> DEFINE a == Append(q, s)
<1>1. /\ a \in Seq(Signals) /\ Len(a) = Len(q) + 1 /\ a[Len(q) + 1] = s
      /\ \A i \in 1..Len(q) : a[i] = q[i]
  BY AppendProperties
<1> HIDE DEF a
<1>2. NoTwice(a)
  BY <1>1 DEF NoTwice, Holds
<1>3. \A x \in Signals : Holds(a, x) <=> x = s \/ Holds(q, x)
  BY <1>1 DEF Holds
<1> QED BY <1>1, <1>2, <1>3 DEF a

\* The oldest id leaves the queue, and no other.
LEMMA TailDropsHead ==
    ASSUME NEW q \in Seq(Signals), q # <<>>, NoTwice(q)
    PROVE  /\ Tail(q) \in Seq(Signals) /\ NoTwice(Tail(q))
           /\ \A x \in Signals : Holds(Tail(q), x) => Holds(q, x)
           /\ \A x \in Signals : x # Head(q) /\ Holds(q, x) => Holds(Tail(q), x)
<1> DEFINE t == Tail(q)
<1>1. /\ t \in Seq(Signals) /\ Len(t) = Len(q) - 1 /\ Len(q) \in Nat \ {0}
      /\ \A i \in 1..Len(t) : t[i] = q[i + 1]
      /\ Head(q) = q[1]
  BY HeadTailProperties
<1> HIDE DEF t
<1>0. DOMAIN t = 1..Len(t) /\ DOMAIN q = 1..Len(q)
  BY <1>1, LenProperties
<1>2. NoTwice(t)
  BY SMTT(30), <1>0, <1>1 DEF NoTwice
<1>3. \A x \in Signals : Holds(t, x) => Holds(q, x)
  BY <1>1 DEF Holds
<1>4. ASSUME NEW x \in Signals, x # Head(q), Holds(q, x)
      PROVE  Holds(t, x)
  <2>1. PICK i \in 1..Len(q) : q[i] = x
    BY <1>4 DEF Holds
  <2>2. i - 1 \in 1..Len(t) /\ t[i - 1] = x
    BY <1>1, <1>4, <2>1
  <2> QED BY <1>1, <2>2 DEF Holds
<1> QED BY <1>1, <1>2, <1>3, <1>4 DEF t

-----------------------------------------------------------------------------
(* Types *)

Job == [at : Places, signal : Signals \cup {NoSignal}, result : Results, order : Nat]
JobsTyped(js) ==
    js \in [Workers -> Job] /\ \A w \in Workers : js[w].at # "idle" =>
                                                   js[w].signal \in Signals

\* A worker that goes on with its signal keeps the types.
LEMMA NextPlaceTyped ==
    ASSUME JobsTyped(jobs), NEW w \in Workers, jobs[w].at # "idle",
           NEW at \in Places, NEW result \in Results, NEW n \in Nat,
           jobs' = [jobs EXCEPT ![w] = [@ EXCEPT !.at = at, !.result = result,
                                                 !.order = n]]
    PROVE  JobsTyped(jobs')
<1>1. jobs[w] \in Job /\ jobs[w].signal \in Signals
  BY DEF JobsTyped
<1> DEFINE j == [jobs[w] EXCEPT !.at = at, !.result = result, !.order = n]
<1>2. j \in Job /\ j.signal = jobs[w].signal
  BY <1>1 DEF Job
<1>3. jobs' = [jobs EXCEPT ![w] = j]
  OBVIOUS
<1> HIDE DEF j
<1> QED BY <1>1, <1>2, <1>3 DEF JobsTyped

\* The same of a worker that keeps the order it holds.
LEMMA GotoTyped ==
    ASSUME JobsTyped(jobs), NEW w \in Workers, jobs[w].at # "idle",
           NEW at \in Places, NEW result \in Results, Goto(w, at, result)
    PROVE  JobsTyped(jobs')
<1>1. jobs[w] \in Job /\ jobs[w].signal \in Signals
  BY DEF JobsTyped
<1> DEFINE j == [jobs[w] EXCEPT !.at = at, !.result = result]
<1>2. j \in Job /\ j.signal = jobs[w].signal
  BY <1>1 DEF Job
<1>3. jobs' = [jobs EXCEPT ![w] = j]
  BY DEF Goto
<1> HIDE DEF j
<1> QED BY <1>1, <1>2, <1>3 DEF JobsTyped

\* Every step of a thread or of the engine keeps the types.
LEMMA TypeStep == DispatchTypeOK /\ [DispatchNext]_dispatchVars => DispatchTypeOK'
<1> SUFFICES ASSUME DispatchTypeOK, [DispatchNext]_dispatchVars
             PROVE  DispatchTypeOK'
  OBVIOUS
<1>0. JobsTyped(jobs)
  BY DEF DispatchTypeOK, JobsTyped, Job
<1>a. ASSUME JobsTyped(jobs'), seen' \in Seq(Signals), evicted' \in Nat,
             byOrder' \subseteq Signals \X Nat,
             refused' \subseteq Signals \X Nat,
             placed' \in [Signals -> Nat], sends' \in [Signals -> Nat],
             answers' \in [Signals -> SUBSET Results], sink' = sink
      PROVE  DispatchTypeOK'
  BY <1>a DEF DispatchTypeOK, JobsTyped, Job
<1>1. ASSUME NEW w \in Workers, NEW s \in Signals, Deliver(w, s)
      PROVE  DispatchTypeOK'
  <2>1. JobsTyped(jobs')
    BY <1>0, <1>1 DEF Deliver, JobsTyped, Job, Places, Results
  <2> QED BY <1>1, <1>a, <2>1 DEF Deliver, DispatchTypeOK
<1>2. ASSUME NEW w \in Workers, Duplicate(w) PROVE DispatchTypeOK'
  <2>1. jobs[w].signal \in Signals
    BY <1>0, <1>2 DEF Duplicate, JobsTyped
  <2>2. Without(seen, jobs[w].signal) \in Seq(Signals)
    BY <2>1, WithoutType DEF DispatchTypeOK
  <2>3. seen' \in Seq(Signals)
    BY <1>2, <2>1, <2>2, AppendProperties DEF Duplicate
  <2>4. JobsTyped(jobs')
    BY <1>0, <1>2, GotoTyped DEF Duplicate, Places, Results
  <2> QED BY <1>2, <1>a, <2>3, <2>4 DEF Duplicate, DispatchTypeOK
<1>3. ASSUME NEW w \in Workers, FirstSeen(w) PROVE DispatchTypeOK'
  <2>1. jobs[w].signal \in Signals
    BY <1>0, <1>3 DEF FirstSeen, JobsTyped
  <2>2. Append(seen, jobs[w].signal) \in Seq(Signals)
        /\ Append(seen, jobs[w].signal) # <<>>
    BY <2>1, AppendProperties DEF DispatchTypeOK
  <2>3. seen' \in Seq(Signals)
    BY <1>3, <2>2, HeadTailProperties DEF FirstSeen
  <2>4. JobsTyped(jobs')
    BY <1>0, <1>3, GotoTyped DEF FirstSeen, Places, Results
  <2>5. evicted' \in Nat
    BY <1>3 DEF FirstSeen, DispatchTypeOK
  <2>6. UNCHANGED <<sink, byOrder, placed, refused, answers, sends>>
    BY <1>3 DEF FirstSeen
  <2> QED BY <1>a, <2>3, <2>4, <2>5, <2>6 DEF DispatchTypeOK
<1>4. ASSUME NEW w \in Workers, SubmitAccepted(w) PROVE DispatchTypeOK'
  <2>1. jobs[w].signal \in Signals
    BY <1>0, <1>4 DEF SubmitAccepted, JobsTyped
  <2>2. placed' \in [Signals -> Nat] /\ placed[jobs[w].signal] + 1 \in Nat
    BY <1>4, <2>1 DEF SubmitAccepted, DispatchTypeOK
  <2>3. JobsTyped(jobs')
    BY <1>0, <1>4, <2>2, NextPlaceTyped DEF SubmitAccepted, Places, Results
  <2> QED BY <1>4, <1>a, <2>2, <2>3 DEF SubmitAccepted, DispatchTypeOK
<1>5. ASSUME NEW w \in Workers, SubmitEmpty(w) PROVE DispatchTypeOK'
  <2>1. placed' \in [Signals -> Nat]
    BY <1>5 DEF SubmitEmpty, DispatchTypeOK
  <2>2. JobsTyped(jobs')
    BY <1>0, <1>5, GotoTyped DEF SubmitEmpty, Places, Results
  <2> QED BY <1>5, <1>a, <2>1, <2>2 DEF SubmitEmpty, DispatchTypeOK
<1>6. ASSUME NEW w \in Workers, SubmitRaises(w) PROVE DispatchTypeOK'
  <2>1. JobsTyped(jobs')
    BY <1>0, <1>6, GotoTyped DEF SubmitRaises, Places, Results
  <2> QED BY <1>6, <1>a, <2>1 DEF SubmitRaises, DispatchTypeOK
<1>7. ASSUME NEW w \in Workers, Forget(w) PROVE DispatchTypeOK'
  <2>1. seen' \in Seq(Signals)
    BY <1>7, WithoutType DEF Forget, DispatchTypeOK
  <2>2. JobsTyped(jobs')
    BY <1>0, <1>7, GotoTyped DEF Forget, Places, Results
  <2> QED BY <1>7, <1>a, <2>1, <2>2 DEF Forget, DispatchTypeOK
<1>8. ASSUME NEW w \in Workers, StoreOrder(w) PROVE DispatchTypeOK'
  <2>1. jobs[w].signal \in Signals /\ jobs[w].order \in Nat
    BY <1>0, <1>8 DEF StoreOrder, JobsTyped, Job
  <2>2. JobsTyped(jobs')
    BY <1>0, <1>8, GotoTyped DEF StoreOrder, Places, Results
  <2>3. byOrder' \subseteq Signals \X Nat
    BY <1>8, <2>1 DEF StoreOrder, DispatchTypeOK
  <2> QED BY <1>8, <1>a, <2>2, <2>3 DEF StoreOrder, DispatchTypeOK
<1>9. ASSUME NEW w \in Workers, Finish(w) PROVE DispatchTypeOK'
  <2>1. jobs[w].signal \in Signals /\ jobs[w].result \in Results
    BY <1>0, <1>9 DEF Finish, JobsTyped, Job
  <2>2. JobsTyped(jobs')
    <3>1. Idle \in Job /\ Idle.at = "idle"
      BY DEF Idle, Job, Places, Results
    <3> QED BY <1>0, <1>9, <3>1 DEF Finish, JobsTyped
  <2>3. answers' \in [Signals -> SUBSET Results]
    BY <1>9, <2>1 DEF Finish, Tell, DispatchTypeOK
  <2> QED BY <1>9, <1>a, <2>2, <2>3 DEF Finish, DispatchTypeOK
<1>10. ASSUME NEW o \in Signals \X (1..MaxSends), HandleReject(o)
       PROVE  DispatchTypeOK'
  <2>1. o \in Signals \X Nat /\ SignalOf(o) \in Signals
    BY DispatchCapacity DEF SignalOf
  <2>2. refused' \subseteq Signals \X Nat
    BY <1>10, <2>1 DEF HandleReject, DispatchTypeOK
  <2>3. answers' \in [Signals -> SUBSET Results]
    BY <1>10, <2>1 DEF HandleReject, Tell, DispatchTypeOK, Results
  <2>4. JobsTyped(jobs')
    BY <1>0, <1>10 DEF HandleReject
  <2> QED BY <1>10, <1>a, <2>2, <2>3, <2>4 DEF HandleReject, DispatchTypeOK
<1>11. CASE UNCHANGED dispatchVars
  BY <1>11 DEF dispatchVars, DispatchTypeOK
<1> QED BY <1>1, <1>2, <1>3, <1>4, <1>5, <1>6, <1>7, <1>8, <1>9, <1>10, <1>11
        DEF DispatchNext, DispatchStep

\* State variables hold values of their types, for any signals and threads.
THEOREM TypeCorrect == DispatchSpec => []DispatchTypeOK
<1>1. DispatchInit => DispatchTypeOK
  BY DEF DispatchInit, DispatchTypeOK, Idle, Places, Results
<1> QED BY <1>1, TypeStep, PTL DEF DispatchSpec

-----------------------------------------------------------------------------
(* The workers between the mark and the order *)

BusyAt(j, s) == j.signal = s /\ j.at \in {"submit", "forget"}
Busy(s) == {w \in Workers : BusyAt(jobs[w], s)}
Count(s) == Cardinality(Busy(s))

\* A worker's step changes the workers busy with a signal by itself only.
LEMMA CountAfter ==
    ASSUME JobsTyped(jobs), NEW w \in Workers, NEW j,
           jobs' = [jobs EXCEPT ![w] = j], NEW s
    PROVE  /\ Count(s) \in Nat
           /\ BusyAt(jobs[w], s) => Count(s) > 0
           /\ Count(s)' = IF BusyAt(j, s)
                          THEN IF BusyAt(jobs[w], s) THEN Count(s) ELSE Count(s) + 1
                          ELSE IF BusyAt(jobs[w], s) THEN Count(s) - 1 ELSE Count(s)
<1>1. IsFiniteSet(Busy(s)) /\ Count(s) \in Nat
  BY DispatchWorkers, FS_Subset, FS_CardinalityType DEF Busy, Count
<1>2. Busy(s)' = IF BusyAt(j, s) THEN Busy(s) \cup {w} ELSE Busy(s) \ {w}
  <2>1. \A v \in Workers : jobs'[v] = IF v = w THEN j ELSE jobs[v]
    BY DEF JobsTyped
  <2> QED BY <2>1 DEF Busy
<1>3. w \in Busy(s) <=> BusyAt(jobs[w], s)
  BY DEF Busy
<1>4. BusyAt(jobs[w], s) => Count(s) > 0
  <2>1. Busy(s) # {} => Count(s) # 0
    BY <1>1, FS_EmptySet DEF Count
  <2> QED BY <1>1, <1>3, <2>1
<1>5. /\ Cardinality(Busy(s) \cup {w}) =
            IF w \in Busy(s) THEN Count(s) ELSE Count(s) + 1
      /\ Cardinality(Busy(s) \ {w}) =
            IF w \in Busy(s) THEN Count(s) - 1 ELSE Count(s)
  BY <1>1, FS_AddElement, FS_RemoveElement DEF Count
<1> QED BY <1>1, <1>2, <1>3, <1>4, <1>5 DEF Count

\* What Goto makes of a worker's job.
LEMMA GotoJob ==
    ASSUME JobsTyped(jobs), NEW w \in Workers, NEW at, NEW result,
           Goto(w, at, result)
    PROVE  \E j : /\ jobs' = [jobs EXCEPT ![w] = j]
                  /\ j.signal = jobs[w].signal /\ j.at = at /\ j.result = result
<1> DEFINE j == [jobs[w] EXCEPT !.at = at, !.result = result]
<1>1. jobs[w] \in Job
  BY DEF JobsTyped
<1>2. j.signal = jobs[w].signal /\ j.at = at /\ j.result = result
  BY <1>1 DEF Job
<1>3. jobs' = [jobs EXCEPT ![w] = j]
  BY DEF Goto
<1> QED BY <1>2, <1>3

-----------------------------------------------------------------------------
(* The inductive invariant: an order, or a worker that may still place one,  *)
(* is paid for by the mark in the queue or by an eviction; and a mark has    *)
(* its order, its refusal, or a worker that will see to it.                  *)

Marks(q, s) == IF Holds(q, s) THEN 1 ELSE 0
Owes(j, s) == IF BusyAt(j, s) THEN 1 ELSE 0
Paid == \A s \in Signals : placed[s] + Count(s) <= evicted + Marks(seen, s)

SeesTo(j, s) ==
    j.signal = s /\ (\/ j.at \in {"submit", "forget"}
                     \/ j.at = "finish" /\ j.result = "rejected")
Settled(s) == placed[s] > 0 \/ "rejected" \in answers[s]
Covered(s) == Settled(s) \/ \E w \in Workers : SeesTo(jobs[w], s)
MarksCovered == \A s \in Signals : Holds(seen, s) => Covered(s)

DispatchIInv ==
    /\ DispatchTypeOK /\ NoTwice(seen) /\ Paid /\ MarksCovered
    /\ RefusalReachesSource

\* The invariant holds before any signal has come.
LEMMA InitDispatchIInv == DispatchInit => DispatchIInv
<1> SUFFICES ASSUME DispatchInit PROVE DispatchIInv
  OBVIOUS
<1>1. DispatchTypeOK
  BY DEF DispatchInit, DispatchTypeOK, Idle, Places, Results
<1>2. NoTwice(seen) /\ MarksCovered /\ RefusalReachesSource
  BY DEF DispatchInit, NoTwice, MarksCovered, Holds, RefusalReachesSource
<1>3. Paid
  <2>1. \A s \in Signals : Busy(s) = {}
    BY DEF DispatchInit, Busy, BusyAt, Idle
  <2>2. \A s \in Signals : Count(s) = 0
    BY <2>1, FS_EmptySet DEF Count
  <2> QED BY <2>2 DEF Paid, DispatchInit, Marks
<1> QED BY <1>1, <1>2, <1>3 DEF DispatchIInv

\* What a worker's step has to respect, signal by signal: it pays for what it
\* owes or places, and leaves no mark uncovered.
Respects(w, j, s) ==
    /\ placed'[s] >= placed[s] /\ answers[s] \subseteq answers'[s]
    /\ placed'[s] + Owes(j, s) + evicted + Marks(seen, s) <=
           placed[s] + Owes(jobs[w], s) + evicted' + Marks(seen', s)
    /\ Holds(seen', s) =>
           \/ SeesTo(j, s) \/ Settled(s)'
           \/ Holds(seen, s) /\ ~SeesTo(jobs[w], s)

\* A worker's step that respects every signal keeps the invariant.
LEMMA WorkerStep ==
    ASSUME DispatchIInv, DispatchTypeOK', NEW w \in Workers, NEW j,
           jobs' = [jobs EXCEPT ![w] = j], refused' = refused,
           NoTwice(seen'), \A s \in Signals : Respects(w, j, s)
    PROVE  DispatchIInv'
<1>0. JobsTyped(jobs) /\ DispatchTypeOK
  BY DEF DispatchIInv, DispatchTypeOK, JobsTyped, Job
<1>1. RefusalReachesSource'
  <2>1. \A o \in refused : SignalOf(o) \in Signals
    BY <1>0 DEF DispatchTypeOK, SignalOf
  <2> QED BY <2>1 DEF DispatchIInv, RefusalReachesSource, Respects
<1>2. Paid'
  <2> SUFFICES ASSUME NEW s \in Signals
               PROVE  placed'[s] + Count(s)' <= evicted' + Marks(seen', s)
    BY DEF Paid
  <2>1. /\ placed[s] \in Nat /\ placed'[s] \in Nat
        /\ evicted \in Nat /\ evicted' \in Nat
        /\ Marks(seen, s) \in Nat /\ Marks(seen', s) \in Nat
        /\ Owes(j, s) \in Nat /\ Owes(jobs[w], s) \in Nat
    BY <1>0 DEF DispatchTypeOK, Marks, Owes
  <2>2. /\ Count(s) \in Nat
        /\ Count(s)' = Count(s) + Owes(j, s) - Owes(jobs[w], s)
    <3>1. /\ Count(s) \in Nat
          /\ Count(s)' = IF BusyAt(j, s)
                         THEN IF BusyAt(jobs[w], s) THEN Count(s) ELSE Count(s) + 1
                         ELSE IF BusyAt(jobs[w], s) THEN Count(s) - 1 ELSE Count(s)
      BY <1>0, CountAfter
    <3> QED BY <3>1 DEF Owes
  <2>3. placed[s] + Count(s) <= evicted + Marks(seen, s)
    BY DEF DispatchIInv, Paid
  <2>4. placed'[s] + Owes(j, s) + evicted + Marks(seen, s) <=
           placed[s] + Owes(jobs[w], s) + evicted' + Marks(seen', s)
    BY DEF Respects
  <2> HIDE DEF Marks, Owes
  <2> QED BY <2>1, <2>2, <2>3, <2>4
<1>3. MarksCovered'
  <2> SUFFICES ASSUME NEW s \in Signals, Holds(seen', s) PROVE Covered(s)'
    BY DEF MarksCovered
  <2>1. \A v \in Workers : jobs'[v] = IF v = w THEN j ELSE jobs[v]
    BY <1>0 DEF JobsTyped
  <2>2. CASE SeesTo(j, s)
    BY <2>1, <2>2 DEF Covered
  <2>3. CASE Settled(s)'
    BY <2>3 DEF Covered
  <2>4. CASE Holds(seen, s) /\ ~SeesTo(jobs[w], s)
    <3>1. CASE Settled(s)
      <4>1. /\ placed[s] \in Nat /\ placed'[s] \in Nat /\ placed'[s] >= placed[s]
            /\ answers[s] \subseteq answers'[s]
        BY <1>0 DEF DispatchTypeOK, Respects
      <4> QED BY <3>1, <4>1 DEF Covered, Settled
    <3>2. CASE \E v \in Workers : SeesTo(jobs[v], s)
      BY <2>1, <2>4, <3>2 DEF Covered
    <3> QED BY <2>4, <3>1, <3>2 DEF DispatchIInv, MarksCovered, Covered
  <2> QED BY <2>2, <2>3, <2>4 DEF Respects
<1> QED BY <1>1, <1>2, <1>3 DEF DispatchIInv

-----------------------------------------------------------------------------
(* One lemma per action *)

\* A step that leaves marks, evictions, orders and answers alone.
LEMMA DispatchQuietStep ==
    ASSUME DispatchIInv, DispatchTypeOK', NEW w \in Workers, NEW j,
           jobs' = [jobs EXCEPT ![w] = j],
           UNCHANGED <<seen, evicted, placed, refused, answers>>,
           \A s \in Signals : BusyAt(j, s) => BusyAt(jobs[w], s),
           \A s \in Signals : SeesTo(jobs[w], s) => SeesTo(j, s)
    PROVE  DispatchIInv'
<1>1. ASSUME NEW s \in Signals PROVE Respects(w, j, s)
  <2>1. /\ placed'[s] = placed[s] /\ placed[s] \in Nat
        /\ evicted' = evicted /\ evicted \in Nat
    BY DEF DispatchIInv, DispatchTypeOK
  <2>2. /\ Owes(j, s) <= Owes(jobs[w], s)
        /\ Owes(j, s) \in Nat /\ Owes(jobs[w], s) \in Nat
    BY DEF Owes
  <2>3. Marks(seen', s) = Marks(seen, s) /\ Marks(seen, s) \in Nat
    BY DEF Marks
  <2>4. placed'[s] + Owes(j, s) + evicted + Marks(seen, s) <=
           placed[s] + Owes(jobs[w], s) + evicted' + Marks(seen', s)
    BY <2>1, <2>2, <2>3
  <2> QED BY <2>1, <2>4 DEF Respects
<1> QED BY <1>1, WorkerStep DEF DispatchIInv

\* A repeated id changes its place in the queue only.
LEMMA DuplicateStep ==
    ASSUME DispatchIInv, DispatchTypeOK', NEW w \in Workers, Duplicate(w) PROVE DispatchIInv'
<1>0. JobsTyped(jobs) /\ DispatchTypeOK /\ NoTwice(seen)
  BY DEF DispatchIInv, DispatchTypeOK, JobsTyped, Job
<1> DEFINE s == jobs[w].signal
           q == Without(seen, s)
<1>1. s \in Signals /\ Holds(seen, s) /\ seen' = Append(q, s)
  BY <1>0 DEF Duplicate, JobsTyped
<1>2. /\ q \in Seq(Signals) /\ NoTwice(q)
      /\ \A x \in Signals : Holds(q, x) <=> x # s /\ Holds(seen, x)
  BY <1>0, <1>1, WithoutRemovesOne DEF DispatchTypeOK
<1> HIDE DEF q
<1>3. /\ NoTwice(seen') /\ \A x \in Signals : Holds(seen', x) <=> Holds(seen, x)
  BY <1>1, <1>2, AppendAddsOne
<1>4. PICK j : /\ jobs' = [jobs EXCEPT ![w] = j]
               /\ j.at = "finish" /\ j.result = "duplicate"
  BY <1>0, GotoJob DEF Duplicate
<1>5. UNCHANGED <<evicted, placed, refused, answers>> /\ jobs[w].at = "check"
  BY DEF Duplicate
<1>6. ASSUME NEW x \in Signals PROVE Respects(w, j, x)
  <2>1. placed[x] \in Nat /\ evicted \in Nat
    BY <1>0 DEF DispatchTypeOK
  <2>2. Owes(j, x) = 0 /\ Owes(jobs[w], x) = 0 /\ ~SeesTo(jobs[w], x)
    BY <1>4, <1>5 DEF Owes, BusyAt, SeesTo
  <2>3. Marks(seen', x) = Marks(seen, x) /\ Marks(seen, x) \in Nat
    BY <1>3 DEF Marks
  <2> QED BY <1>3, <1>5, <2>1, <2>2, <2>3 DEF Respects
<1> QED BY <1>3, <1>4, <1>5, <1>6, WorkerStep

\* A new id is marked, and its worker owes the order the mark stands for; the
\* id forgotten for it is paid for by the eviction.
LEMMA FirstSeenStep ==
    ASSUME DispatchIInv, DispatchTypeOK', NEW w \in Workers, FirstSeen(w) PROVE DispatchIInv'
<1>0. JobsTyped(jobs) /\ DispatchTypeOK /\ NoTwice(seen)
  BY DEF DispatchIInv, DispatchTypeOK, JobsTyped, Job
<1> DEFINE s == jobs[w].signal
           a == Append(seen, s)
           full == Capacity > 0 /\ Len(seen) >= Capacity
<1>1. s \in Signals /\ ~Holds(seen, s) /\ jobs[w].at = "check"
  BY <1>0 DEF FirstSeen, JobsTyped
<1>2. /\ a \in Seq(Signals) /\ NoTwice(a)
      /\ \A x \in Signals : Holds(a, x) <=> x = s \/ Holds(seen, x)
  BY <1>0, <1>1, AppendAddsOne DEF DispatchTypeOK
<1>3. full => Head(a) # s /\ Head(a) \in Signals /\ a # <<>>
  <2> SUFFICES ASSUME full PROVE Head(a) # s /\ Head(a) \in Signals /\ a # <<>>
    OBVIOUS
  <2>1. seen \in Seq(Signals) /\ Len(seen) \in Nat /\ Len(seen) > 0
    BY <1>0, DispatchCapacity, LenProperties DEF DispatchTypeOK
  <2>2. /\ Len(a) = Len(seen) + 1 /\ a[1] = seen[1] /\ a # <<>> /\ Head(a) = a[1]
    BY <1>1, <2>1, AppendProperties
  <2>3. seen[1] # s /\ seen[1] \in Signals
    BY <1>1, <2>1 DEF Holds
  <2> QED BY <2>2, <2>3
<1>4. /\ seen' = IF full THEN Tail(a) ELSE a
      /\ evicted' = IF full THEN evicted + 1 ELSE evicted
      /\ UNCHANGED <<placed, refused, answers>>
  BY DEF FirstSeen
<1>5. PICK j : /\ jobs' = [jobs EXCEPT ![w] = j]
               /\ j.signal = s /\ j.at = "submit"
  BY <1>0, GotoJob DEF FirstSeen
<1> HIDE DEF a, full
<1>6. /\ NoTwice(seen') /\ Holds(seen', s)
      /\ \A x \in Signals : Holds(seen', x) => x = s \/ Holds(seen, x)
      /\ \A x \in Signals : Holds(seen, x) => Holds(seen', x) \/ full
  <2>1. CASE full
    BY <1>1, <1>2, <1>3, <1>4, <2>1, TailDropsHead
  <2>2. CASE ~full
    BY <1>1, <1>2, <1>4, <2>2
  <2> QED BY <2>1, <2>2
<1>7. ASSUME NEW x \in Signals PROVE Respects(w, j, x)
  <2>1. placed[x] \in Nat /\ evicted \in Nat /\ evicted' \in Nat
    BY <1>0 DEF DispatchTypeOK
  <2>2. Owes(jobs[w], x) = 0 /\ ~SeesTo(jobs[w], x)
    BY <1>1 DEF Owes, BusyAt, SeesTo
  <2>3. /\ evicted' + Marks(seen', x) >= evicted + Marks(seen, x)
        /\ evicted' >= evicted
        /\ Marks(seen', x) \in Nat /\ Marks(seen, x) \in Nat
    BY <1>4, <1>6, <2>1 DEF Marks
  <2>4. CASE x = s
    <3>1. Owes(j, x) = 1 /\ SeesTo(j, x)
      BY <1>5, <2>4 DEF Owes, BusyAt, SeesTo
    <3>2. Marks(seen', x) = 1 /\ Marks(seen, x) = 0
      BY <1>1, <1>6, <2>4 DEF Marks
    <3> QED BY <1>4, <2>1, <2>2, <2>3, <3>1, <3>2 DEF Respects
  <2>5. CASE x # s
    <3>1. Owes(j, x) = 0
      BY <1>5, <2>5 DEF Owes, BusyAt
    <3>2. placed'[x] + Owes(j, x) + evicted + Marks(seen, x) <=
             placed[x] + Owes(jobs[w], x) + evicted' + Marks(seen', x)
      BY <1>4, <2>1, <2>2, <2>3, <3>1
    <3> QED BY <1>4, <1>6, <2>1, <2>2, <2>5, <3>2 DEF Respects
  <2> QED BY <2>4, <2>5
<1> QED BY <1>4, <1>5, <1>6, <1>7, WorkerStep

\* Submitting turns what the worker owes into the order, and leaves the signal
\* with an order or with the worker that will refuse it.
LEMMA SubmitStep ==
    ASSUME DispatchIInv, DispatchTypeOK', NEW w \in Workers,
           SubmitAccepted(w) \/ SubmitEmpty(w)
    PROVE  DispatchIInv'
<1>0. JobsTyped(jobs) /\ DispatchTypeOK
  BY DEF DispatchIInv, DispatchTypeOK, JobsTyped, Job
<1> DEFINE s == jobs[w].signal
<1>1. /\ s \in Signals /\ jobs[w].at = "submit" /\ jobs[w] \in Job
      /\ UNCHANGED <<seen, evicted, refused, answers>>
  BY <1>0 DEF SubmitAccepted, SubmitEmpty, JobsTyped
<1>2. PICK j : /\ jobs' = [jobs EXCEPT ![w] = j]
               /\ j.signal = s /\ j.at \in {"store", "finish"}
               /\ SeesTo(j, s) \/ placed' = [placed EXCEPT ![s] = @ + 1]
               /\ placed' \in {placed, [placed EXCEPT ![s] = @ + 1]}
  <2>1. CASE SubmitAccepted(w)
    <3> DEFINE j == [jobs[w] EXCEPT !.at = "store", !.result = "accepted",
                                    !.order = placed[s] + 1]
    <3>1. j.signal = s /\ j.at = "store"
      BY <1>1 DEF Job
    <3>2. /\ jobs' = [jobs EXCEPT ![w] = j]
          /\ placed' = [placed EXCEPT ![s] = @ + 1]
      BY <2>1 DEF SubmitAccepted
    <3> QED BY <3>1, <3>2
  <2>2. CASE SubmitEmpty(w)
    <3>1. PICK j : /\ jobs' = [jobs EXCEPT ![w] = j]
                   /\ j.signal = s /\ j.at = "finish" /\ j.result = "rejected"
      BY <1>0, <2>2, GotoJob DEF SubmitEmpty
    <3> QED BY <2>2, <3>1 DEF SubmitEmpty, SeesTo
  <2> QED BY <2>1, <2>2
<1>3. ASSUME NEW x \in Signals PROVE Respects(w, j, x)
  <2>1. placed[x] \in Nat /\ evicted \in Nat /\ placed \in [Signals -> Nat]
    BY <1>0 DEF DispatchTypeOK
  <2>2. Owes(j, x) = 0
    BY <1>2 DEF Owes, BusyAt
  <2>3. Marks(seen', x) = Marks(seen, x) /\ Marks(seen, x) \in Nat
    BY <1>1 DEF Marks
  <2>4. CASE x = s
    <3>1. Owes(jobs[w], x) = 1
      BY <1>1, <2>4 DEF Owes, BusyAt
    <3>2. /\ placed'[x] = placed[x] \/ placed'[x] = placed[x] + 1
          /\ SeesTo(j, x) \/ placed'[x] = placed[x] + 1
      BY <1>2, <2>1, <2>4
    <3>3. SeesTo(j, x) \/ Settled(x)'
      BY <2>1, <3>2 DEF Settled
    <3> QED BY <1>1, <2>1, <2>2, <2>3, <3>1, <3>2, <3>3 DEF Respects
  <2>5. CASE x # s
    <3>1. Owes(jobs[w], x) = 0 /\ ~SeesTo(jobs[w], x)
      BY <2>5 DEF Owes, BusyAt, SeesTo
    <3>2. placed'[x] = placed[x]
      BY <1>2, <2>1, <2>5
    <3> QED BY <1>1, <2>1, <2>2, <2>3, <3>1, <3>2 DEF Respects
  <2> QED BY <2>4, <2>5
<1> QED BY <1>1, <1>2, <1>3, WorkerStep DEF DispatchIInv, NoTwice

\* Forgetting takes the mark back with what the worker owed for it.
LEMMA ForgetStep ==
    ASSUME DispatchIInv, DispatchTypeOK', NEW w \in Workers, Forget(w) PROVE DispatchIInv'
<1>0. JobsTyped(jobs) /\ DispatchTypeOK /\ NoTwice(seen)
  BY DEF DispatchIInv, DispatchTypeOK, JobsTyped, Job
<1> DEFINE s == jobs[w].signal
<1>1. /\ s \in Signals /\ jobs[w].at = "forget" /\ seen' = Without(seen, s)
      /\ UNCHANGED <<evicted, placed, refused, answers>>
  BY <1>0 DEF Forget, JobsTyped
<1>2. /\ NoTwice(seen')
      /\ \A x \in Signals : Holds(seen', x) <=> x # s /\ Holds(seen, x)
  BY ZenonT(60), <1>0, <1>1, WithoutRemovesOne DEF DispatchTypeOK
<1>3. PICK j : jobs' = [jobs EXCEPT ![w] = j] /\ j.at = "finish"
  BY <1>0, GotoJob DEF Forget
<1>4. ASSUME NEW x \in Signals PROVE Respects(w, j, x)
  <2>1. placed[x] \in Nat /\ evicted \in Nat /\ Owes(j, x) = 0
    BY <1>0, <1>3 DEF DispatchTypeOK, Owes, BusyAt
  <2>2. CASE x = s
    <3>1. Owes(jobs[w], x) = 1 /\ Marks(seen', x) = 0 /\ ~Holds(seen', x)
          /\ Marks(seen, x) \in 0..1
      BY <1>1, <1>2, <2>2 DEF Owes, BusyAt, Marks
    <3> QED BY <1>1, <2>1, <3>1 DEF Respects
  <2>3. CASE x # s
    <3>1. Owes(jobs[w], x) = 0 /\ ~SeesTo(jobs[w], x)
      BY <2>3 DEF Owes, BusyAt, SeesTo
    <3>2. /\ Marks(seen', x) = Marks(seen, x) /\ Marks(seen, x) \in Nat
          /\ Holds(seen', x) => Holds(seen, x)
      BY <1>2, <2>3 DEF Marks
    <3> QED BY <1>1, <2>1, <3>1, <3>2 DEF Respects
  <2> QED BY <2>2, <2>3
<1> QED BY <1>1, <1>2, <1>3, <1>4, WorkerStep

\* Finishing tells the source what the worker was to see to.
LEMMA FinishStep ==
    ASSUME DispatchIInv, DispatchTypeOK', NEW w \in Workers, Finish(w) PROVE DispatchIInv'
<1>0. JobsTyped(jobs) /\ DispatchTypeOK /\ NoTwice(seen)
  BY DEF DispatchIInv, DispatchTypeOK, JobsTyped, Job
<1> DEFINE s == jobs[w].signal
           r == jobs[w].result
<1>1. /\ s \in Signals /\ jobs[w].at = "finish"
      /\ jobs' = [jobs EXCEPT ![w] = Idle]
      /\ UNCHANGED <<seen, evicted, placed, refused>>
      /\ answers' = [answers EXCEPT ![s] = @ \cup {r}]
      /\ answers \in [Signals -> SUBSET Results]
  BY <1>0 DEF Finish, Tell, JobsTyped, DispatchTypeOK
<1>2. ASSUME NEW x \in Signals PROVE Respects(w, Idle, x)
  <2>1. placed[x] \in Nat /\ evicted \in Nat
    BY <1>0 DEF DispatchTypeOK
  <2>2. Owes(Idle, x) = 0 /\ Owes(jobs[w], x) = 0
    BY <1>1 DEF Owes, BusyAt, Idle
  <2>3. Marks(seen', x) = Marks(seen, x) /\ Marks(seen, x) \in Nat
    BY <1>1 DEF Marks
  <2>4. answers[x] \subseteq answers'[x]
    BY <1>1
  <2>5. SeesTo(jobs[w], x) => Settled(x)'
    BY <1>1 DEF SeesTo, Settled
  <2> QED BY <1>1, <2>1, <2>2, <2>3, <2>4, <2>5 DEF Respects
<1> QED BY <1>0, <1>1, <1>2, WorkerStep

\* A refusal reaches the source, whose orders carry their signal's tag.
LEMMA RejectStep ==
    ASSUME DispatchIInv, DispatchTypeOK', NEW o \in Signals \X (1..MaxSends),
           HandleReject(o)
    PROVE  DispatchIInv'
<1>0. DispatchTypeOK /\ NoTwice(seen)
  BY DEF DispatchIInv
<1>1. /\ SignalOf(o) \in Signals /\ refused' = refused \cup {o}
      /\ answers' = [answers EXCEPT ![SignalOf(o)] = @ \cup {"rejected"}]
      /\ UNCHANGED <<seen, evicted, jobs, placed>>
      /\ answers \in [Signals -> SUBSET Results]
  BY <1>0 DEF HandleReject, SignalFound, SignalOf, Tell, DispatchTypeOK
<1>2. \A s \in Signals : answers[s] \subseteq answers'[s]
  BY <1>1
<1>3. RefusalReachesSource'
  <2>1. \A p \in refused : SignalOf(p) \in Signals
    BY <1>0 DEF DispatchTypeOK, SignalOf
  <2> QED BY <1>1, <1>2, <2>1 DEF DispatchIInv, RefusalReachesSource
<1>4. Paid'
  BY <1>1 DEF DispatchIInv, Paid, Count, Busy
<1>5. MarksCovered'
  BY <1>1, <1>2 DEF DispatchIInv, MarksCovered, Covered, Settled
<1> QED BY <1>0, <1>1, <1>3, <1>4, <1>5 DEF DispatchIInv

-----------------------------------------------------------------------------
(* The theorems *)

\* Every step keeps the invariant.
LEMMA StepDispatchIInv == DispatchIInv /\ [DispatchNext]_dispatchVars => DispatchIInv'
<1> SUFFICES ASSUME DispatchIInv, [DispatchNext]_dispatchVars PROVE DispatchIInv'
  OBVIOUS
<1>0. DispatchTypeOK' /\ JobsTyped(jobs)
  BY TypeStep DEF DispatchIInv, DispatchTypeOK, JobsTyped, Job
<1>1. ASSUME NEW w \in Workers, NEW s \in Signals, Deliver(w, s) PROVE DispatchIInv'
  <2> DEFINE j == [at |-> "check", signal |-> s, result |-> "error", order |-> 0]
  <2>1. jobs' = [jobs EXCEPT ![w] = j] /\ jobs[w].at = "idle"
    BY <1>1 DEF Deliver
  <2>2. \A x \in Signals : ~BusyAt(j, x) /\ ~SeesTo(jobs[w], x)
    BY <2>1 DEF BusyAt, SeesTo
  <2>3. UNCHANGED <<seen, evicted, placed, refused, answers>>
    BY <1>1 DEF Deliver
  <2> QED BY <1>0, <2>1, <2>2, <2>3, DispatchQuietStep
<1>2. ASSUME NEW w \in Workers, SubmitRaises(w) PROVE DispatchIInv'
  <2>1. PICK j : /\ jobs' = [jobs EXCEPT ![w] = j]
                 /\ j.signal = jobs[w].signal /\ j.at = "forget"
    BY <1>0, <1>2, GotoJob DEF SubmitRaises
  <2>2. jobs[w].at = "submit" /\ UNCHANGED <<seen, evicted, placed, refused, answers>>
    BY <1>2 DEF SubmitRaises
  <2>3. \A x \in Signals : /\ BusyAt(j, x) => BusyAt(jobs[w], x)
                           /\ SeesTo(jobs[w], x) => SeesTo(j, x)
    BY <2>1, <2>2 DEF BusyAt, SeesTo
  <2> QED BY <1>0, <2>1, <2>2, <2>3, DispatchQuietStep
<1>3. ASSUME NEW w \in Workers, StoreOrder(w) PROVE DispatchIInv'
  <2>1. PICK j : jobs' = [jobs EXCEPT ![w] = j] /\ j.at = "finish"
    BY <1>0, <1>3, GotoJob DEF StoreOrder
  <2>2. jobs[w].at = "store" /\ UNCHANGED <<seen, evicted, placed, refused, answers>>
    BY <1>3 DEF StoreOrder
  <2>3. \A x \in Signals : ~BusyAt(j, x) /\ ~SeesTo(jobs[w], x)
    BY <2>1, <2>2 DEF BusyAt, SeesTo
  <2> QED BY <1>0, <2>1, <2>2, <2>3, DispatchQuietStep
<1>4. CASE UNCHANGED dispatchVars
  BY <1>4 DEF DispatchIInv, DispatchTypeOK, NoTwice, Paid, MarksCovered, Covered, Settled,
              RefusalReachesSource, Count, Busy, dispatchVars
<1> QED BY <1>0, <1>1, <1>2, <1>3, <1>4, DuplicateStep, FirstSeenStep, SubmitStep,
           ForgetStep, FinishStep, RejectStep DEF DispatchNext, DispatchStep

\* The invariant holds in every reachable state.
LEMMA DispatchSound == DispatchSpec => []DispatchIInv
  BY InitDispatchIInv, StepDispatchIInv, PTL DEF DispatchSpec

\* A signal trades a second time only after the bounded set of seen ids has
\* forgotten one (dedup.py), for any signals, threads and capacity.
THEOREM OneOrderPerSignalCorrect == DispatchSpec => []OneOrderPerSignal
<1>1. DispatchIInv => OneOrderPerSignal
  <2> SUFFICES ASSUME DispatchIInv, NEW s \in Signals PROVE placed[s] <= evicted + 1
    BY DEF OneOrderPerSignal
  <2>1. placed[s] \in Nat /\ evicted \in Nat /\ Marks(seen, s) \in 0..1
    BY DEF DispatchIInv, DispatchTypeOK, Marks
  <2>2. Count(s) \in Nat
    BY DispatchWorkers, FS_Subset, FS_CardinalityType DEF Count, Busy
  <2>3. placed[s] + Count(s) <= evicted + Marks(seen, s)
    BY DEF DispatchIInv, Paid
  <2> QED BY <2>1, <2>2, <2>3
<1> QED BY <1>1, DispatchSound, PTL

\* A failed submission leaves no mark behind (dispatcher.py, dispatch).
THEOREM MarkedIsAnsweredCorrect == DispatchSpec => []MarkedIsAnswered
<1>1. DispatchIInv => MarkedIsAnswered
  BY DEF DispatchIInv, MarkedIsAnswered, MarksCovered, Covered, Settled, SeesTo
<1> QED BY <1>1, DispatchSound, PTL

\* The source of a refused order learns it (dispatcher.py, handle_reject).
THEOREM RefusalReachesSourceCorrect == DispatchSpec => []RefusalReachesSource
<1>1. DispatchIInv => RefusalReachesSource
  BY DEF DispatchIInv
<1> QED BY <1>1, DispatchSound, PTL

-----------------------------------------------------------------------------
(* The queue of signals: any queue sizes, starts and stops, also with        *)
(* several consumers alive.                                                  *)

QueueTypeOK ==
    /\ puts \in 0..MaxPuts
    /\ queue \in Seq(0..MaxPuts) /\ dispatched \in Seq(0..MaxPuts)
    /\ taken \in [Consumers -> 0..MaxPuts]
    /\ consumers \in [Consumers -> {"none", "test", "get", "dispatch", "exited"}]

\* Consumers are started in order, so that a start never takes one that runs.
StartedInOrder == \E k \in 0..MaxStarts : Started = 1..k

\* A consumer holds a signal exactly while it dispatches.
HoldsWhileDispatching == \A c \in Consumers : taken[c] # 0 <=> consumers[c] = "dispatch"

\* No signal is twice in the queue, or in two hands.
QueuedOnce ==
    \A i, j \in DOMAIN queue : queue[i] = queue[j] /\ queue[i] # Sentinel => i = j
TakenOnce ==
    \A c, d \in Consumers : taken[c] = taken[d] /\ taken[c] # 0 => c = d

QueueIInv ==
    /\ QueueTypeOK /\ StartedInOrder /\ HoldsWhileDispatching
    /\ QueuedOnce /\ TakenOnce /\ NoSignalLost

-----------------------------------------------------------------------------
(* Lemmas *)

\* The next consumer to start is the first that was not started.
LEMMA NextConsumer ==
    ASSUME StartedInOrder, Cardinality(Started) < MaxStarts
    PROVE  /\ Cardinality(Started) + 1 \in Consumers
           /\ consumers[Cardinality(Started) + 1] = "none"
           /\ Started = 1..Cardinality(Started)
<1>1. MaxStarts \in Nat
  BY QueueBounds
<1>2. PICK k \in 0..MaxStarts : Started = 1..k
  BY DEF StartedInOrder
<1>3. Cardinality(Started) = k
  BY <1>1, <1>2, FS_Interval
<1>4. k + 1 \in Consumers /\ k + 1 \notin Started
  BY <1>1, <1>2, <1>3 DEF Consumers
<1> QED BY <1>2, <1>3, <1>4 DEF Started

\* Appending x to a sequence of signals adds it to their set.
LEMMA AppendedSet ==
    ASSUME NEW S, NEW s \in Seq(S), NEW x \in S, NEW t, t = Append(s, x)
    PROVE  {t[i] : i \in DOMAIN t} = {s[i] : i \in DOMAIN s} \cup {x}
<1>1. /\ Append(s, x) \in Seq(S) /\ Len(Append(s, x)) = Len(s) + 1
      /\ DOMAIN s = 1..Len(s) /\ DOMAIN Append(s, x) = 1..(Len(s) + 1)
      /\ Len(s) \in Nat
      /\ \A i \in 1..Len(s) : Append(s, x)[i] = s[i]
      /\ Append(s, x)[Len(s) + 1] = x
  BY AppendProperties, LenProperties
<1>2. \A i \in 1..(Len(s) + 1) : i \in 1..Len(s) \/ i = Len(s) + 1
  BY <1>1
<1>3. 1..Len(s) \subseteq 1..(Len(s) + 1) /\ Len(s) + 1 \in 1..(Len(s) + 1)
  BY <1>1
<1> QED BY <1>1, <1>2, <1>3

\* So a dispatch adds the signal to those handed on.
LEMMA DispatchedSet ==
    ASSUME NEW x \in 0..MaxPuts, dispatched \in Seq(0..MaxPuts),
           dispatched' = Append(dispatched, x)
    PROVE  HandedOn' = HandedOn \cup {x}
<1>1. {dispatched'[i] : i \in DOMAIN dispatched'}
        = {dispatched[i] : i \in DOMAIN dispatched} \cup {x}
  BY AppendedSet
<1> QED BY <1>1 DEF HandedOn

\* The signals of a sequence are its head and those of its tail.
LEMMA HeadAndTail ==
    ASSUME NEW S, NEW s \in Seq(S), s # <<>>
    PROVE  /\ Head(s) = s[1] /\ 1 \in DOMAIN s /\ Tail(s) \in Seq(S)
           /\ \A i \in DOMAIN Tail(s) : i + 1 \in DOMAIN s /\ Tail(s)[i] = s[i + 1]
           /\ {s[i] : i \in DOMAIN s} = {Tail(s)[i] : i \in DOMAIN Tail(s)} \cup {Head(s)}
<1>1. /\ Len(s) \in Nat /\ Len(s) >= 1 /\ DOMAIN s = 1..Len(s)
  BY EmptySeq, LenProperties
<1>2. /\ Tail(s) \in Seq(S) /\ Len(Tail(s)) = Len(s) - 1 /\ DOMAIN Tail(s) = 1..(Len(s) - 1)
      /\ \A i \in 1..(Len(s) - 1) : Tail(s)[i] = s[i + 1]
      /\ Head(s) = s[1]
  BY <1>1, HeadTailProperties, LenProperties
<1>3. \A i \in DOMAIN Tail(s) : i + 1 \in DOMAIN s /\ Tail(s)[i] = s[i + 1]
  BY <1>1, <1>2
<1>4. \A i \in DOMAIN s : i = 1 \/ (i - 1 \in DOMAIN Tail(s) /\ Tail(s)[i - 1] = s[i])
  BY <1>1, <1>2
<1>5. 1 \in DOMAIN s
  BY <1>1
<1>6. {s[i] : i \in DOMAIN s} \subseteq {Tail(s)[i] : i \in DOMAIN Tail(s)} \cup {Head(s)}
  BY <1>2, <1>4
<1>7. {Tail(s)[i] : i \in DOMAIN Tail(s)} \cup {Head(s)} \subseteq {s[i] : i \in DOMAIN s}
  BY <1>2, <1>3, <1>5
<1> QED BY <1>2, <1>3, <1>5, <1>6, <1>7

-----------------------------------------------------------------------------
(* Steps *)

LEMMA InitQueueIInv == QueueInit => QueueIInv
<1> SUFFICES ASSUME QueueInit PROVE QueueIInv
  OBVIOUS
<1>1. /\ queue = <<>> /\ puts = 0 /\ dispatched = <<>>
      /\ consumers = [c \in Consumers |-> "none"] /\ taken = [c \in Consumers |-> 0]
  BY DEF QueueInit
<1>2. QueueTypeOK
  BY <1>1, QueueBounds, EmptySeq DEF QueueTypeOK
<1>3. StartedInOrder
  <2>1. Started = {}
    BY <1>1 DEF Started
  <2>2. 0 \in 0..MaxStarts /\ 1..0 = {}
    BY QueueBounds
  <2> QED BY <2>1, <2>2 DEF StartedInOrder
<1>4. HoldsWhileDispatching /\ QueuedOnce /\ TakenOnce
  BY <1>1 DEF HoldsWhileDispatching, QueuedOnce, TakenOnce
<1>5. NoSignalLost
  <2>1. QueuedSignals = {} /\ TakenSignals = {} /\ HandedOn = {}
    BY <1>1 DEF QueuedSignals, TakenSignals, HandedOn
  <2>2. Cardinality({}) = 0 /\ Len(<<>>) = 0 /\ 1..0 = {}
    BY FS_EmptySet
  <2> QED BY <1>1, <2>1, <2>2 DEF NoSignalLost
<1> QED BY <1>2, <1>3, <1>4, <1>5 DEF QueueIInv

\* While signals stay where they are, consumers may start, test and exit.
LEMMA ConsumerMoves ==
    ASSUME QueueIInv, UNCHANGED <<queue, taken, puts, dispatched>>,
           consumers' \in [Consumers -> {"none", "test", "get", "dispatch", "exited"}],
           StartedInOrder',
           \A c \in Consumers : consumers'[c] = "dispatch" <=> consumers[c] = "dispatch"
    PROVE  QueueIInv'
<1>1. QueueTypeOK' /\ HoldsWhileDispatching'
  BY DEF QueueIInv, QueueTypeOK, HoldsWhileDispatching
<1>2. QueuedOnce' /\ TakenOnce'
  BY DEF QueueIInv, QueuedOnce, TakenOnce
<1>3. NoSignalLost'
  BY SMTT(30) DEF QueueIInv, NoSignalLost, QueuedSignals, TakenSignals, HandedOn
<1> QED BY <1>1, <1>2, <1>3 DEF QueueIInv

LEMMA StartStep == ASSUME QueueIInv, StartQueue PROVE QueueIInv'
<1> DEFINE n == Cardinality(Started) + 1
<1>1. /\ n \in Consumers /\ consumers[n] = "none" /\ Started = 1..(n - 1)
      /\ consumers' = [consumers EXCEPT ![n] = "test"]
      /\ UNCHANGED <<queue, taken, puts, dispatched>>
  <2>1. Cardinality(Started) < MaxStarts /\ consumers' = [consumers EXCEPT ![n] = "test"]
        /\ UNCHANGED <<queue, taken, puts, dispatched>>
    BY DEF StartQueue
  <2>2. Cardinality(Started) + 1 \in Consumers
        /\ consumers[Cardinality(Started) + 1] = "none"
        /\ Started = 1..Cardinality(Started)
    BY <2>1, NextConsumer DEF QueueIInv
  <2>3. Cardinality(Started) \in Int
    <3>1. PICK k \in 0..MaxStarts : Started = 1..k
      BY DEF QueueIInv, StartedInOrder
    <3> QED BY <3>1, FS_Interval, QueueBounds
  <2>4. n - 1 = Cardinality(Started)
    BY <2>3
  <2> QED BY <2>1, <2>2, <2>4
<1> HIDE DEF n
<1>2. consumers \in [Consumers -> {"none", "test", "get", "dispatch", "exited"}]
  BY DEF QueueIInv, QueueTypeOK
<1>3. StartedInOrder'
  <2>1. Started' = Started \cup {n}
    BY <1>1, <1>2 DEF Started
  <2>2. n \in 1..MaxStarts /\ MaxStarts \in Nat
    BY <1>1, QueueBounds DEF Consumers
  <2>3. 1..n = 1..(n - 1) \cup {n} /\ n \in 0..MaxStarts
    BY <2>2
  <2> QED BY <1>1, <2>1, <2>3 DEF StartedInOrder
<1> QED BY <1>1, <1>2, <1>3, ConsumerMoves

LEMMA TestStep == ASSUME QueueIInv, NEW c \in Consumers, TestStopped(c) PROVE QueueIInv'
<1>1. /\ consumers[c] = "test"
      /\ consumers' = [consumers EXCEPT ![c] = IF stopped THEN "exited" ELSE "get"]
      /\ UNCHANGED <<queue, taken, puts, dispatched>>
  BY DEF TestStopped
<1>2. consumers \in [Consumers -> {"none", "test", "get", "dispatch", "exited"}]
  BY DEF QueueIInv, QueueTypeOK
<1>3. Started' = Started
  BY <1>1, <1>2 DEF Started
<1>4. StartedInOrder'
  BY <1>3 DEF QueueIInv, StartedInOrder
<1> QED BY <1>1, <1>2, <1>4, ConsumerMoves

\* Stop and join move no signal and no consumer.
LEMMA StopStep ==
    ASSUME QueueIInv, StopQueue \/ JoinConsumer \/ UNCHANGED queueVars PROVE QueueIInv'
<1>1. UNCHANGED <<queue, taken, puts, dispatched, consumers>>
  BY DEF StopQueue, JoinConsumer, queueVars
<1>2. StartedInOrder'
  BY <1>1 DEF QueueIInv, StartedInOrder, Started
<1>3. consumers' \in [Consumers -> {"none", "test", "get", "dispatch", "exited"}]
  BY <1>1 DEF QueueIInv, QueueTypeOK
<1> QED BY <1>1, <1>2, <1>3, ConsumerMoves

\* The sentinel or the next signal enters the queue.
LEMMA EnterStep ==
    ASSUME QueueIInv, NEW x \in 0..MaxPuts, queue' = Append(queue, x),
           UNCHANGED <<taken, dispatched, consumers>>,
           (x = Sentinel /\ puts' = puts) \/ (x = puts + 1 /\ puts' = puts + 1)
    PROVE  QueueIInv'
<1>1. /\ queue \in Seq(0..MaxPuts) /\ puts \in 0..MaxPuts /\ MaxPuts \in Nat
      /\ QueuedSignals \cup TakenSignals \cup HandedOn = 1..puts
  BY QueueBounds DEF QueueIInv, QueueTypeOK, NoSignalLost
<1>2. /\ queue' \in Seq(0..MaxPuts) /\ DOMAIN queue' = DOMAIN queue \cup {Len(queue) + 1}
      /\ \A i \in DOMAIN queue : queue'[i] = queue[i]
      /\ queue'[Len(queue) + 1] = x
  <2>1. /\ Append(queue, x) \in Seq(0..MaxPuts) /\ Len(Append(queue, x)) = Len(queue) + 1
        /\ \A i \in 1..Len(queue) : Append(queue, x)[i] = queue[i]
        /\ Append(queue, x)[Len(queue) + 1] = x
        /\ DOMAIN queue = 1..Len(queue) /\ Len(queue) \in Nat
        /\ DOMAIN Append(queue, x) = 1..(Len(queue) + 1)
    BY <1>1, AppendProperties, LenProperties
  <2>2. 1..(Len(queue) + 1) = 1..Len(queue) \cup {Len(queue) + 1}
    BY <2>1
  <2> QED BY <2>1, <2>2
<1>3. {queue'[i] : i \in DOMAIN queue'} = {queue[i] : i \in DOMAIN queue} \cup {x}
  BY SMTT(30), <1>1, AppendedSet
<1>4. QueuedSignals' = QueuedSignals \cup ({x} \ {Sentinel})
  BY <1>3 DEF QueuedSignals
<1>5. TakenSignals' = TakenSignals /\ HandedOn' = HandedOn
  BY DEF TakenSignals, HandedOn
<1>6. x # Sentinel => x \notin 1..puts /\ 1..puts' = 1..puts \cup {x}
  BY <1>1 DEF Sentinel
<1>7. QueueTypeOK' /\ HoldsWhileDispatching' /\ TakenOnce' /\ StartedInOrder'
  <2>1. puts' \in 0..MaxPuts
    BY <1>1
  <2> QED BY <1>2, <2>1 DEF QueueIInv, QueueTypeOK, HoldsWhileDispatching, TakenOnce,
             StartedInOrder, Started
<1>8. QueuedOnce'
  <2>1. \A i \in DOMAIN queue : queue[i] # Sentinel => queue[i] \in 1..puts
    BY <1>1 DEF QueuedSignals
  <2>2. ASSUME NEW i \in DOMAIN queue', NEW j \in DOMAIN queue',
               queue'[i] = queue'[j], queue'[i] # Sentinel
        PROVE  i = j
    <3>1. CASE i \in DOMAIN queue /\ j \in DOMAIN queue
      BY <1>2, <2>2, <3>1 DEF QueueIInv, QueuedOnce
    <3>2. CASE i = Len(queue) + 1 \/ j = Len(queue) + 1
      BY <1>2, <1>6, <2>1, <2>2, <3>2
    <3> QED BY <1>2, <2>2, <3>1, <3>2
  <2> QED BY <2>2 DEF QueuedOnce
<1>9. NoSignalLost'
  <2>1. CASE x = Sentinel
    <3>1. QueuedSignals' = QueuedSignals /\ puts' = puts /\ dispatched' = dispatched
      BY <1>1, <1>4, <2>1 DEF Sentinel
    <3> QED BY <1>5, <3>1 DEF QueueIInv, NoSignalLost
  <2>2. CASE x # Sentinel
    <3>1. QueuedSignals' = QueuedSignals \cup {x} /\ x \notin 1..puts
          /\ 1..puts' = 1..puts \cup {x}
      BY <1>4, <1>6, <2>2
    <3> QED BY <1>1, <1>5, <3>1 DEF QueueIInv, NoSignalLost
  <2> QED BY <2>1, <2>2
<1> QED BY <1>7, <1>8, <1>9 DEF QueueIInv

LEMMA PutStep == ASSUME QueueIInv, PutSignal \/ PutSentinel PROVE QueueIInv'
<1>1. puts \in 0..MaxPuts /\ MaxPuts \in Nat
  BY QueueBounds DEF QueueIInv, QueueTypeOK
<1>2. CASE PutSignal
  <2>1. /\ puts < MaxPuts /\ puts' = puts + 1 /\ queue' = Append(queue, puts + 1)
        /\ UNCHANGED <<taken, dispatched, consumers>>
    BY <1>2 DEF PutSignal
  <2>2. puts + 1 \in 0..MaxPuts
    BY <1>1, <2>1
  <2> QED BY <2>1, <2>2, EnterStep
<1>3. CASE PutSentinel
  <2>1. /\ queue' = Append(queue, Sentinel) /\ puts' = puts
        /\ UNCHANGED <<taken, dispatched, consumers>>
    BY <1>3 DEF PutSentinel
  <2>2. Sentinel \in 0..MaxPuts
    BY <1>1 DEF Sentinel
  <2> QED BY <2>1, <2>2, EnterStep
<1> QED BY <1>2, <1>3

\* The head of the queue goes into a hand that was empty.
LEMMA GetStep == ASSUME QueueIInv, NEW c \in Consumers, GetItem(c) PROVE QueueIInv'
<1>1. /\ consumers[c] = "get" /\ queue # <<>> /\ queue' = Tail(queue)
      /\ taken' = [taken EXCEPT ![c] = Head(queue)]
      /\ consumers' = [consumers EXCEPT
                          ![c] = IF Head(queue) = Sentinel THEN "exited" ELSE "dispatch"]
      /\ UNCHANGED <<puts, dispatched>>
  BY DEF GetItem
<1>2. /\ queue \in Seq(0..MaxPuts) /\ taken \in [Consumers -> 0..MaxPuts]
      /\ consumers \in [Consumers -> {"none", "test", "get", "dispatch", "exited"}]
      /\ taken[c] = 0
  BY <1>1 DEF QueueIInv, QueueTypeOK, HoldsWhileDispatching
<1>3. /\ Head(queue) = queue[1] /\ 1 \in DOMAIN queue /\ Tail(queue) \in Seq(0..MaxPuts)
      /\ \A i \in DOMAIN Tail(queue) : i + 1 \in DOMAIN queue /\ Tail(queue)[i] = queue[i + 1]
      /\ {queue[i] : i \in DOMAIN queue}
           = {Tail(queue)[i] : i \in DOMAIN Tail(queue)} \cup {Head(queue)}
  BY <1>1, <1>2, HeadAndTail
<1>4. \A i \in DOMAIN Tail(queue) : i \in Nat /\ i + 1 # 1
  BY <1>3, LenProperties
<1>5. Head(queue) \in 0..MaxPuts
  BY <1>1, <1>2, HeadTailProperties
<1>6. QueueTypeOK' /\ HoldsWhileDispatching'
  <2>1. QueueTypeOK'
    BY <1>1, <1>2, <1>3, <1>5 DEF QueueIInv, QueueTypeOK
  <2>2. HoldsWhileDispatching'
    BY <1>1, <1>2 DEF QueueIInv, HoldsWhileDispatching, Sentinel
  <2> QED BY <2>1, <2>2
<1>7. StartedInOrder'
  <2>1. Started' = Started
    BY <1>1, <1>2 DEF Started
  <2> QED BY <2>1 DEF QueueIInv, StartedInOrder
<1>8. QueuedOnce'
  <2>1. ASSUME NEW i \in DOMAIN Tail(queue), NEW j \in DOMAIN Tail(queue),
               Tail(queue)[i] = Tail(queue)[j], Tail(queue)[i] # Sentinel
        PROVE  i = j
    <3>1. queue[i + 1] = queue[j + 1] /\ queue[i + 1] # Sentinel
          /\ i + 1 \in DOMAIN queue /\ j + 1 \in DOMAIN queue
      BY <1>3, <2>1
    <3>2. i + 1 = j + 1
      BY <3>1 DEF QueueIInv, QueuedOnce
    <3> QED BY <1>4, <3>2
  <2> QED BY <1>1, <2>1 DEF QueuedOnce
<1>9. Head(queue) # Sentinel => Head(queue) \notin {Tail(queue)[i] : i \in DOMAIN Tail(queue)}
  <2>1. ASSUME NEW i \in DOMAIN Tail(queue), Tail(queue)[i] = Head(queue),
               Head(queue) # Sentinel
        PROVE  FALSE
    <3>1. queue[i + 1] = queue[1] /\ queue[1] # Sentinel /\ i + 1 \in DOMAIN queue
      BY <1>3, <2>1
    <3>2. i + 1 = 1
      BY <1>3, <3>1 DEF QueueIInv, QueuedOnce
    <3> QED BY <1>4, <3>2
  <2> QED BY <2>1
<1>10. QueuedSignals = QueuedSignals' \cup ({Head(queue)} \ {Sentinel})
  BY <1>1, <1>3 DEF QueuedSignals
<1>11. Head(queue) # Sentinel => Head(queue) \notin QueuedSignals'
  BY <1>1, <1>9 DEF QueuedSignals
<1>12. TakenSignals' = TakenSignals \cup ({Head(queue)} \ {Sentinel})
  <2>1. \A d \in Consumers : taken'[d] = IF d = c THEN Head(queue) ELSE taken[d]
    BY <1>1, <1>2
  <2> QED BY <1>2, <2>1 DEF TakenSignals, Sentinel
<1>13. TakenSignals \cap QueuedSignals = {}
  BY DEF QueueIInv, NoSignalLost
<1>14. TakenOnce'
  <2>1. \A d \in Consumers : taken[d] # 0 => taken[d] \in TakenSignals
    BY DEF TakenSignals
  <2>2. Head(queue) # 0 => Head(queue) \in QueuedSignals
    BY <1>10 DEF Sentinel
  <2>3. \A d \in Consumers : taken'[d] = IF d = c THEN Head(queue) ELSE taken[d]
    BY <1>1, <1>2
  <2> QED BY <1>13, <2>1, <2>2, <2>3 DEF QueueIInv, TakenOnce
<1>15. NoSignalLost'
  <2>1. HandedOn' = HandedOn /\ puts' = puts /\ dispatched' = dispatched
    BY <1>1 DEF HandedOn
  <2>2. CASE Head(queue) = Sentinel
    BY <1>10, <1>12, <2>1, <2>2 DEF QueueIInv, NoSignalLost
  <2>3. CASE Head(queue) # Sentinel
    BY <1>10, <1>11, <1>12, <2>1, <2>3 DEF QueueIInv, NoSignalLost
  <2> QED BY <2>2, <2>3
<1> QED BY <1>6, <1>7, <1>8, <1>14, <1>15 DEF QueueIInv

\* The signal in a hand is dispatched: it was in no other.
LEMMA QueueDispatchStep == ASSUME QueueIInv, NEW c \in Consumers, DispatchItem(c) PROVE QueueIInv'
<1>1. /\ consumers[c] = "dispatch" /\ dispatched' = Append(dispatched, taken[c])
      /\ taken' = [taken EXCEPT ![c] = 0]
      /\ consumers' = [consumers EXCEPT ![c] = "test"]
      /\ UNCHANGED <<puts, queue>>
  BY DEF DispatchItem
<1>2. /\ dispatched \in Seq(0..MaxPuts) /\ taken \in [Consumers -> 0..MaxPuts]
      /\ consumers \in [Consumers -> {"none", "test", "get", "dispatch", "exited"}]
      /\ taken[c] # 0 /\ puts \in 0..MaxPuts /\ MaxPuts \in Nat
  BY <1>1, QueueBounds DEF QueueIInv, QueueTypeOK, HoldsWhileDispatching
<1>3. taken[c] \in TakenSignals /\ taken[c] \in 1..MaxPuts
  BY <1>2 DEF TakenSignals
<1>4. /\ QueuedSignals' = QueuedSignals
      /\ HandedOn' = HandedOn \cup {taken[c]}
  <2>1. taken[c] \in 0..MaxPuts
    BY <1>2
  <2>2. HandedOn' = HandedOn \cup {taken[c]}
    BY <1>1, <1>2, <2>1, DispatchedSet
  <2> QED BY <1>1, <2>2 DEF QueuedSignals
<1>5. TakenSignals' = TakenSignals \ {taken[c]}
  <2>1. \A d \in Consumers : taken'[d] = IF d = c THEN 0 ELSE taken[d]
    BY <1>1, <1>2
  <2>2. \A d \in Consumers : d # c /\ taken[d] # 0 => taken[d] # taken[c]
    BY <1>2 DEF QueueIInv, TakenOnce
  <2> QED BY <2>1, <2>2 DEF TakenSignals
<1>6. QueueTypeOK'
  BY <1>1, <1>2, <1>3, AppendProperties DEF QueueIInv, QueueTypeOK
<1>7. HoldsWhileDispatching' /\ TakenOnce' /\ QueuedOnce'
  BY <1>1, <1>2 DEF QueueIInv, HoldsWhileDispatching, TakenOnce, QueuedOnce
<1>8. StartedInOrder'
  <2>1. Started' = Started
    BY <1>1, <1>2 DEF Started
  <2> QED BY <2>1 DEF QueueIInv, StartedInOrder
<1>9. Len(dispatched') = Cardinality(HandedOn')
  <2>1. taken[c] \notin HandedOn /\ HandedOn \subseteq 1..puts
        /\ Len(dispatched) = Cardinality(HandedOn)
    BY <1>3 DEF QueueIInv, NoSignalLost
  <2>2. IsFiniteSet(HandedOn)
    <3>1. IsFiniteSet(1..puts)
      BY <1>2, FS_Interval
    <3> QED BY <2>1, <3>1, FS_Subset
  <2>3. Cardinality(HandedOn \cup {taken[c]}) = Cardinality(HandedOn) + 1
    BY <2>1, <2>2, FS_AddElement
  <2>4. Len(dispatched') = Len(dispatched) + 1
    BY <1>1, <1>2, <1>3, AppendProperties
  <2> QED BY <1>4, <2>1, <2>3, <2>4
<1>10. NoSignalLost'
  BY <1>1, <1>3, <1>4, <1>5, <1>9 DEF QueueIInv, NoSignalLost
<1> QED BY <1>6, <1>7, <1>8, <1>10 DEF QueueIInv

LEMMA NextIInv == QueueIInv /\ [QueueNext]_queueVars => QueueIInv'
<1> SUFFICES ASSUME QueueIInv, [QueueNext]_queueVars PROVE QueueIInv'
  OBVIOUS
<1>1. CASE StartQueue BY <1>1, StartStep
<1>2. CASE StopQueue \/ JoinConsumer \/ UNCHANGED queueVars BY <1>2, StopStep
<1>3. CASE PutSignal \/ PutSentinel BY <1>3, PutStep
<1>4. ASSUME NEW c \in Consumers, ConsumerStep(c) PROVE QueueIInv'
  BY <1>4, TestStep, GetStep, QueueDispatchStep DEF ConsumerStep
<1> QED BY <1>1, <1>2, <1>3, <1>4 DEF QueueNext

\* A signal put into the queue is there, in one consumer's hand or dispatched, and
\* dispatched once, however often the source is stopped and started and however many
\* consumers outlive their stop (queue.py, stop and _consume).
THEOREM NoSignalLostCorrect == QueueSpec => []NoSignalLost
<1>1. QueueIInv => NoSignalLost
  BY DEF QueueIInv
<1> QED BY <1>1, InitQueueIInv, NextIInv, PTL DEF QueueSpec

-----------------------------------------------------------------------------
(* The stream of signals: any number of entries, crashes and stops.          *)

\* The batch in hand is the last entries delivered, in order.
LastDelivered(b, n) == \A i \in DOMAIN b : b[i] = n - Len(b) + i

StreamTypeOK ==
    /\ added \in Nat /\ delivered \in 0..added /\ added <= MaxEntries
    /\ batch \in Seq(Entries) /\ handled \in [Entries -> Nat]
    /\ toAck \in 0..delivered /\ Len(batch) <= delivered

\* Entries in hand are pending and not dispatched; the others delivered are
\* dispatched, or were lost in a crash and are pending; later ones are untouched.
Accounted ==
    /\ \A e \in 1..(delivered - Len(batch)) :
          \/ handled[e] = 1
          \/ handled[e] = 0 /\ e \in dropped /\ e \in pendingAcks
    /\ \A e \in (delivered - Len(batch) + 1)..delivered :
          handled[e] = 0 /\ e \in pendingAcks
    /\ \A e \in (delivered + 1)..MaxEntries : handled[e] = 0

AckIsHandled == toAck # 0 => handled[toAck] = 1
HandsEmpty == loop # "entries" => batch = <<>> /\ toAck = 0

StreamIInv ==
    /\ StreamTypeOK /\ LastDelivered(batch, delivered)
    /\ Accounted /\ AckIsHandled /\ HandsEmpty

\* What is in hand, in numbers.
LEMMA OneInHand ==
    ASSUME StreamTypeOK, LastDelivered(batch, delivered)
    PROVE  BatchEntries = (delivered - Len(batch) + 1)..delivered
<1>1. /\ DOMAIN batch = 1..Len(batch) /\ Len(batch) \in Nat
      /\ added \in Nat /\ delivered \in Nat /\ Len(batch) <= delivered
  BY DEF StreamTypeOK
<1>2. ASSUME NEW e \in BatchEntries PROVE e \in (delivered - Len(batch) + 1)..delivered
  <2>1. PICK i \in 1..Len(batch) : e = batch[i]
    BY <1>1, <1>2 DEF BatchEntries
  <2> QED BY <1>1, <2>1 DEF LastDelivered
<1>3. ASSUME NEW e \in (delivered - Len(batch) + 1)..delivered PROVE e \in BatchEntries
  <2>1. e - (delivered - Len(batch)) \in 1..Len(batch)
    BY <1>1, <1>3
  <2>2. batch[e - (delivered - Len(batch))] = e
    BY <1>1, <1>3, <2>1 DEF LastDelivered
  <2> QED BY <1>1, <2>1, <2>2 DEF BatchEntries
<1> QED BY <1>2, <1>3

LEMMA NothingInHand ==
    /\ <<>> \in Seq(Entries) /\ Len(<<>>) = 0
    /\ \A n : LastDelivered(<<>>, n)
BY DEF LastDelivered

LEMMA InitStreamIInv == StreamInit => StreamIInv
<1> SUFFICES ASSUME StreamInit PROVE StreamIInv
  OBVIOUS
<1>1. added = 0 /\ delivered = 0 /\ toAck = 0 /\ batch = <<>> /\ loop = "down"
      /\ handled = [e \in Entries |-> 0]
  BY DEF StreamInit
<1>2. MaxEntries \in Nat
  BY StreamBounds
<1>3. StreamTypeOK /\ LastDelivered(batch, delivered)
  BY <1>1, <1>2, NothingInHand DEF StreamTypeOK
<1>4. Accounted
  <2>1. \A e \in 1..MaxEntries : handled[e] = 0
    BY <1>1 DEF Entries
  <2> QED BY <1>1, <1>2, <2>1, NothingInHand DEF Accounted
<1> QED BY <1>1, <1>3, <1>4 DEF StreamIInv, AckIsHandled, HandsEmpty

-----------------------------------------------------------------------------
(* Steps *)

\* A new entry, a start, a stop, a test, an empty read: nothing in hand moves.
LEMMA StreamQuietStep ==
    ASSUME StreamIInv, AddEntry \/ StartStream \/ StopStream \/ TestFlag \/ ReadNothing
                 \/ UNCHANGED streamVars
    PROVE  StreamIInv'
<1>1. /\ UNCHANGED <<delivered, pendingAcks, batch, toAck, handled, dropped>>
      /\ added' = added \/ (added < MaxEntries /\ added' = added + 1)
      /\ loop' = loop \/ (loop # "entries" /\ loop' # "entries")
  BY DEF AddEntry, StartStream, StopStream, TestFlag, ReadNothing, streamVars
<1>2. StreamTypeOK'
  BY <1>1, StreamBounds DEF StreamIInv, StreamTypeOK
<1>3. LastDelivered(batch, delivered)' /\ Accounted' /\ AckIsHandled'
  BY <1>1 DEF StreamIInv, LastDelivered, Accounted, AckIsHandled
<1>4. HandsEmpty'
  BY <1>1 DEF StreamIInv, HandsEmpty
<1> QED BY <1>2, <1>3, <1>4 DEF StreamIInv

\* A batch is read: new entries, none of them handled, all pending.
LEMMA ReadStep ==
    ASSUME StreamIInv, ReadBatch PROVE StreamIInv'
<1>1. PICK n \in 1..BatchSize :
          /\ n <= added - delivered
          /\ batch' = [i \in 1..n |-> delivered + i]
          /\ delivered' = delivered + n
          /\ pendingAcks' = pendingAcks \cup ((delivered + 1)..(delivered + n))
  BY DEF ReadBatch
<1>2. /\ loop = "read" /\ loop' = "entries"
      /\ UNCHANGED <<added, toAck, handled, dropped>>
  BY DEF ReadBatch
<1>3. /\ added \in Nat /\ delivered \in Nat /\ added <= MaxEntries /\ MaxEntries \in Nat
      /\ n \in Nat /\ n >= 1 /\ delivered <= added
  BY StreamBounds DEF StreamIInv, StreamTypeOK
<1>4. batch = <<>> /\ toAck = 0 /\ Len(batch) = 0
  BY <1>2 DEF StreamIInv, HandsEmpty
<1>5. batch' \in Seq(Entries) /\ Len(batch') = n /\ DOMAIN batch' = 1..n
  <2>1. \A i \in 1..n : delivered + i \in Entries
    BY <1>1, <1>3 DEF Entries
  <2> QED BY <1>1, <1>3, <2>1
<1>6. StreamTypeOK'
  BY <1>1, <1>2, <1>3, <1>4, <1>5 DEF StreamIInv, StreamTypeOK
<1>7. LastDelivered(batch', delivered')
  BY <1>1, <1>3, <1>5 DEF LastDelivered
<1>8. Accounted'
  <2>1. delivered' - Len(batch') = delivered
    BY <1>1, <1>3, <1>5
  <2>2. /\ \A e \in 1..delivered :
              handled[e] = 1 \/ (handled[e] = 0 /\ e \in dropped /\ e \in pendingAcks)
        /\ \A e \in (delivered + 1)..MaxEntries : handled[e] = 0
    BY <1>3, <1>4 DEF StreamIInv, Accounted
  <2>3. \A e \in (delivered + 1)..delivered' : e \in (delivered + 1)..MaxEntries
    BY <1>1, <1>3
  <2>4. \A e \in (delivered' + 1)..MaxEntries : e \in (delivered + 1)..MaxEntries
    BY <1>1, <1>3
  <2> QED BY <1>1, <1>2, <2>1, <2>2, <2>3, <2>4 DEF Accounted
<1>9. AckIsHandled' /\ HandsEmpty'
  BY <1>2, <1>4 DEF AckIsHandled, HandsEmpty
<1> QED BY <1>6, <1>7, <1>8, <1>9 DEF StreamIInv

\* The first entry in hand is dispatched, for the first time.
LEMMA HandleStep ==
    ASSUME StreamIInv, HandleEntry PROVE StreamIInv'
<1> DEFINE h == Head(batch)
           first == delivered - Len(batch) + 1
<1>1. /\ loop = "entries" /\ batch # <<>> /\ toAck' = h /\ batch' = Tail(batch)
      /\ handled' = [handled EXCEPT ![h] = @ + 1]
      /\ UNCHANGED <<added, delivered, pendingAcks, loop, dropped>>
  BY DEF HandleEntry
<1>2. /\ batch \in Seq(Entries) /\ added \in Nat /\ delivered \in Nat
      /\ delivered <= added /\ added <= MaxEntries /\ MaxEntries \in Nat
      /\ Len(batch) \in Nat /\ Len(batch) <= delivered /\ handled \in [Entries -> Nat]
  BY StreamBounds DEF StreamIInv, StreamTypeOK
<1>3. /\ Tail(batch) \in Seq(Entries) /\ Len(Tail(batch)) = Len(batch) - 1
      /\ Len(batch) >= 1 /\ h = batch[1]
      /\ \A i \in 1..Len(Tail(batch)) : Tail(batch)[i] = batch[i + 1]
      /\ DOMAIN Tail(batch) = 1..(Len(batch) - 1) /\ DOMAIN batch = 1..Len(batch)
  <2>1. Len(batch) \in Nat \ {0}
    BY <1>1, <1>2, HeadTailProperties
  <2> QED BY <1>1, <1>2, <2>1, HeadTailProperties
<1>4. h = first /\ first \in 1..delivered /\ first \in Entries
  <2>1. h = first
    BY <1>2, <1>3 DEF StreamIInv, LastDelivered
  <2> QED BY <1>2, <1>3, <2>1 DEF Entries
<1>5. handled[first] = 0
  BY <1>2, <1>3, <1>4 DEF StreamIInv, Accounted
<1>6. /\ handled' \in [Entries -> Nat] /\ handled'[first] = 1
      /\ \A e \in Entries : e # first => handled'[e] = handled[e]
  BY <1>1, <1>2, <1>4, <1>5
<1>7. StreamTypeOK'
  BY <1>1, <1>2, <1>3, <1>4, <1>6 DEF StreamIInv, StreamTypeOK
<1>8. LastDelivered(batch', delivered')
  <2> SUFFICES ASSUME NEW i \in 1..(Len(batch) - 1)
               PROVE  Tail(batch)[i] = delivered - (Len(batch) - 1) + i
    BY <1>1, <1>3 DEF LastDelivered
  <2>1. i + 1 \in 1..Len(batch) /\ Tail(batch)[i] = batch[i + 1]
    BY <1>2, <1>3
  <2>2. batch[i + 1] = delivered - Len(batch) + (i + 1)
    BY <1>3, <2>1 DEF StreamIInv, LastDelivered
  <2> QED BY <1>2, <2>1, <2>2
<1>9. Accounted'
  <2>1. delivered' - Len(batch') = first
    BY <1>1, <1>2, <1>3
  <2>2. \A e \in 1..first : e = first \/ e \in 1..(delivered - Len(batch))
    BY <1>2, <1>3
  <2>3. \A e \in (first + 1)..delivered : e # first /\ e \in Entries
                                   /\ e \in (delivered - Len(batch) + 1)..delivered
    BY <1>2, <1>3 DEF Entries
  <2>4. \A e \in (delivered + 1)..MaxEntries : e # first /\ e \in Entries
    BY <1>2, <1>4 DEF Entries
  <2>5. \A e \in 1..(delivered - Len(batch)) : e # first /\ e \in Entries
    BY <1>2, <1>3 DEF Entries
  <2> HIDE DEF first, h
  <2>6. \A e \in 1..first :
            handled'[e] = 1 \/ (handled'[e] = 0 /\ e \in dropped /\ e \in pendingAcks)
    BY <1>6, <2>2, <2>5 DEF StreamIInv, Accounted
  <2>7. \A e \in (first + 1)..delivered : handled'[e] = 0 /\ e \in pendingAcks
    BY <1>6, <2>3 DEF StreamIInv, Accounted
  <2>8. \A e \in (delivered + 1)..MaxEntries : handled'[e] = 0
    BY <1>6, <2>4 DEF StreamIInv, Accounted
  <2> QED BY <1>1, <2>1, <2>6, <2>7, <2>8 DEF Accounted
<1>10. AckIsHandled' /\ HandsEmpty'
  BY <1>1, <1>4, <1>6 DEF AckIsHandled, HandsEmpty
<1> QED BY <1>7, <1>8, <1>9, <1>10 DEF StreamIInv

\* An entry that is acknowledged was dispatched: it may leave the pending ones.
LEMMA AckStep ==
    ASSUME StreamIInv, AckEntry PROVE StreamIInv'
<1>1. /\ toAck # 0 /\ toAck' = 0
      /\ pendingAcks' = pendingAcks \/ pendingAcks' = pendingAcks \ {toAck}
      /\ loop' = IF batch = <<>> THEN "test" ELSE "entries"
      /\ UNCHANGED <<added, delivered, batch, handled, dropped>>
  BY DEF AckEntry
<1>2. handled[toAck] = 1
  BY <1>1 DEF StreamIInv, AckIsHandled
<1>3. StreamTypeOK' /\ LastDelivered(batch', delivered')
  BY <1>1 DEF StreamIInv, StreamTypeOK, LastDelivered
<1>4. \A e : handled[e] = 0 /\ e \in pendingAcks => e \in pendingAcks'
  BY <1>1, <1>2
<1>5. Accounted'
  BY <1>1, <1>4 DEF StreamIInv, Accounted
<1>6. AckIsHandled' /\ HandsEmpty'
  BY <1>1 DEF AckIsHandled, HandsEmpty
<1> QED BY <1>3, <1>5, <1>6 DEF StreamIInv

\* What a crash takes is not dispatched, and pending.
LEMMA CrashStep ==
    ASSUME StreamIInv, CrashStream PROVE StreamIInv'
<1>1. /\ loop' = "down" /\ batch' = <<>> /\ toAck' = 0
      /\ dropped' = dropped \cup BatchEntries
      /\ UNCHANGED <<added, delivered, pendingAcks, handled>>
  BY DEF CrashStream
<1>2. BatchEntries = (delivered - Len(batch) + 1)..delivered
  BY OneInHand DEF StreamIInv
<1>3. added \in Nat /\ delivered \in Nat /\ Len(batch) \in Nat /\ Len(batch) <= delivered
  BY DEF StreamIInv, StreamTypeOK
<1>4. StreamTypeOK' /\ LastDelivered(batch', delivered')
  BY <1>1, <1>3, NothingInHand DEF StreamIInv, StreamTypeOK
<1>5. Accounted'
  <2>1. \A e \in 1..delivered : \/ e \in 1..(delivered - Len(batch))
                                \/ e \in (delivered - Len(batch) + 1)..delivered
    BY <1>3
  <2>2. \A e \in 1..delivered :
            handled[e] = 1 \/ (handled[e] = 0 /\ e \in dropped' /\ e \in pendingAcks)
    BY <1>1, <1>2, <2>1 DEF StreamIInv, Accounted
  <2>3. delivered' - Len(batch') = delivered
    BY <1>1, <1>3, NothingInHand
  <2>4. \A e \in (delivered + 1)..delivered : FALSE
    BY <1>3
  <2> QED BY <1>1, <2>2, <2>3, <2>4 DEF StreamIInv, Accounted
<1>6. AckIsHandled' /\ HandsEmpty'
  BY <1>1 DEF AckIsHandled, HandsEmpty
<1> QED BY <1>4, <1>5, <1>6 DEF StreamIInv

LEMMA StepStreamIInv == StreamIInv /\ [StreamNext]_streamVars => StreamIInv'
BY StreamQuietStep, ReadStep, HandleStep, AckStep, CrashStep DEF StreamNext, StreamStep

\* An entry delivered was dispatched once, is in hand, or was lost in a crash and
\* is pending at the server (redis_stream.py, _consume).
THEOREM HandledOnceOrPendingCorrect == StreamSpec => []HandledOnceOrPending
<1>1. StreamIInv => HandledOnceOrPending
  <2> SUFFICES ASSUME StreamIInv, NEW e \in 1..delivered
               PROVE  \/ handled[e] = 1
                      \/ handled[e] = 0 /\ e \in BatchEntries
                      \/ handled[e] = 0 /\ e \in dropped /\ e \in pendingAcks
    BY DEF HandledOnceOrPending
  <2>1. BatchEntries = (delivered - Len(batch) + 1)..delivered
    BY OneInHand DEF StreamIInv
  <2>2. added \in Nat /\ delivered \in Nat /\ Len(batch) \in Nat /\ Len(batch) <= delivered
    BY DEF StreamIInv, StreamTypeOK
  <2>3. \/ e \in 1..(delivered - Len(batch))
        \/ e \in (delivered - Len(batch) + 1)..delivered
    BY <2>2
  <2> QED BY <2>1, <2>3 DEF StreamIInv, Accounted
<1> QED BY <1>1, InitStreamIInv, StepStreamIInv, PTL DEF StreamSpec
=============================================================================
