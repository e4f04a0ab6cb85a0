--------------------------- MODULE SimulatedClient ---------------------------
(***************************************************************************)
(* The simulated execution client (execution/simulated.rs): the engine's   *)
(* own book of orders, matched against market events, as operators from    *)
(* one book to the next.  A price decides whether an order trades and at   *)
(* what cost; here the outcome of one match is a verdict, chosen by the    *)
(* caller among those the order and the event admit.                       *)
(*                                                                         *)
(* ord[i] holds what an order never changes after its request: symbol,     *)
(* side, position effect, bar_offset of its effective policy (0: the close *)
(* of the current bar, same cycle; 1: the next bar), time in force,        *)
(* whether a limit or trigger price conditions it, whether it may be       *)
(* resized, quantity, created_at, the filled entry that asked for it       *)
(* (parent_order_id, 0: none), and, for the properties, the order it was   *)
(* bound to one-cancels-the-other (0: none).                               *)
(***************************************************************************)
EXTENDS OrderRegistry, SequencesExt, SortedSequences

CONSTANTS Symbols,    \* numbered in the order of their names
          Verdicts,   \* outcomes of a match that trades, see Outcomes
          NoOrder     \* ord[i] of an id not drawn yet

ASSUME SymbolsAssumption == Symbols \subseteq Nat
ASSUME VerdictsAssumption ==
    Verdicts \subseteq {"fill", "part", "cut", "vanish", "unaffordable"}

Order == [sym : Symbols, side : {"Buy", "Sell"}, effect : {"Open", "Close", "Auto"},
          offset : {0, 1}, tif : {"GTC", "IOC", "FOK", "Day"}, cond : BOOLEAN,
          resize : BOOLEAN, qty : Nat \ {0}, created : Nat, parent : Nat, twin : Nat]

ASSUME NoOrderAssumption == NoOrder \notin Order

\* An execution report: the order as the client sees it and the quantity of its
\* trade, 0 when it carries none.
Report(i, status, filled, trade, at) ==
    [kind |-> "Report", id |-> i, status |-> status, filled |-> filled,
     trade |-> trade, at |-> at]

\* orders and order_queue, slice_tracking_timestamp (0: None) and the two sets
\* of the slice.
EmptyBook == [status |-> [i \in OrderIds |-> Absent],
              filled |-> [i \in OrderIds |-> 0],
              queue |-> <<>>, slice |-> 0, attempted |-> {}, deferred |-> {}]

-----------------------------------------------------------------------------
PrepareSlice(book, now) ==
    IF book.slice = now THEN book
    ELSE [book EXCEPT !.slice = now, !.attempted = {}, !.deferred = {}]

ClearSlice(book) == [book EXCEPT !.slice = 0, !.attempted = {}, !.deferred = {}]

Active(book) == {i \in OrderIds : book.status[i] \in Live}

\* is_reduce_first_order: it closes, or sells without saying what it does.
ReduceFirst(o) == o.effect = "Close" \/ (o.effect = "Auto" /\ o.side = "Sell")

\* fills_current_cycle
FillsThisCycle(o, now) == IF o.offset = 0 THEN o.created = now ELSE o.created < now

\* has_cosubmitted_cross_symbol_reduce_pending
CosubmittedReducePending(book, ord, i, now) ==
    \E j \in Active(book) :
        /\ ord[j].sym # ord[i].sym
        /\ ord[j].created = ord[i].created
        /\ FillsThisCycle(ord[j], now)
        /\ ReduceFirst(ord[j])

\* should_defer_order_on_current_event
ShouldDefer(book, ord, i, event, now) ==
    /\ FillsThisCycle(ord[i], now)
    /\ ~ReduceFirst(ord[i])
    /\ event.kind = "Bar" /\ event.sym = ord[i].sym
    /\ CosubmittedReducePending(book, ord, i, now)

\* should_finalize_order
ShouldFinalize(book, ord, i, now) ==
    /\ i \in Active(book)
    /\ \/ i \in book.deferred
       \/ /\ ord[i].created = now /\ ord[i].offset = 0
          /\ i \notin book.attempted

\* sorted_queue: sells first, otherwise in order of submission.
SortedQueue(book, ord) ==
    LET Of(side) == {i \in ToSet(book.queue) : ord[i].side = side}
    IN  Only(book.queue, Of("Sell")) \o Only(book.queue, Of("Buy"))

\* cleanup_finished_orders of the client.
DropFinished(book) ==
    [book EXCEPT !.status = [i \in OrderIds |-> IF i \in Active(book) THEN @[i] ELSE Absent],
                 !.filled = [i \in OrderIds |-> IF i \in Active(book) THEN @[i] ELSE 0],
                 !.queue = Only(@, Active(book))]

-----------------------------------------------------------------------------
(***************************************************************************)
(* Matching.  priced is the set of symbols with a last price.              *)
(***************************************************************************)

\* The matcher looks at the order: a traded bar of its symbol or, for an order
\* of the current close, a timer once its symbol has a price.
CanTrade(o, event, priced) ==
    IF event.kind = "Bar" THEN event.sym = o.sym /\ event.traded
    ELSE o.offset = 0 /\ o.sym \in priced

\* What the match of i may come to.  "none": its trigger or its price is not met
\* ("cancel" when the price of an IOC or FOK order is not).  "fill": the rest trades.
\* "part": the bar's volume allows less.  When the account cannot pay: "cut", the
\* trade is shortened but the order stays Filled; "vanish", it is shortened to
\* nothing and unreported; "unaffordable", the order is rejected.
Outcomes(book, o, i, event) ==
    LET left == o.qty - book.filled[i]
        trades == {v \in Verdicts :
                     /\ v = "part" => event.kind = "Bar" /\ left > 1
                     /\ v = "cut" => o.resize /\ left > 1
                     /\ v = "vanish" => o.resize
                     /\ v = "unaffordable" => ~o.resize}
        untraded == {"none"} \cup IF o.tif \in {"IOC", "FOK"} THEN {"cancel"} ELSE {}
    IN  trades \cup IF o.cond THEN untraded ELSE {}

\* One order that the matcher looks at, with the verdict v: the book's copy is
\* what match_order leaves and what sync_order_from_report copies back.
Matched(acc, o, i, event, v) ==
    LET left == o.qty - acc.book.filled[i]
        To(status, filled) ==
            [acc.book EXCEPT !.status[i] = status, !.filled[i] = filled]
        Reported(status, filled, trade) ==
            [book |-> To(status, filled),
             reports |-> Append(acc.reports, Report(i, status, filled, trade, event.ts))]
    IN  CASE v = "none"         -> acc
          [] v = "cancel"       -> Reported("Cancelled", acc.book.filled[i], 0)
          [] v = "fill"         -> Reported("Filled", o.qty, left)
          [] v = "part"         -> Reported("PartiallyFilled", o.qty - left + 1, 1)
          [] v = "cut"          -> Reported("Filled", o.qty, left - 1)
          [] v = "vanish"       -> [acc EXCEPT !.book = To("Filled", o.qty)]
          [] v = "unaffordable" -> Reported("Rejected", 0, 0)

\* A next-bar order must not trade on a bar at or before its creation; the first
\* one lets it trade on a bar of its creation time.
TooEarlyByOne(o, event) == o.offset = 1 /\ event.kind = "Bar" /\ event.ts < o.created
TooEarly(o, event) == o.offset = 1 /\ event.kind = "Bar" /\ event.ts <= o.created

\* The body of match_with_events for one event and one order of the queue.
MatchOne(acc, ord, i, event, now, priced, wanted, defer, verdict) ==
    LET o == ord[i]
        mark == /\ o.created = now /\ o.offset = 0
                /\ event.kind = "Bar" /\ event.sym = o.sym
        tried == IF mark THEN [acc EXCEPT !.book.attempted = @ \cup {i}] ELSE acc
    IN  IF i \notin Active(acc.book) \cap wanted \/ TooEarly(o, event) THEN acc
        ELSE IF defer /\ ShouldDefer(acc.book, ord, i, event, now)
        THEN [acc EXCEPT !.book.deferred = @ \cup {i}, !.book.attempted = @ \cup {i}]
        ELSE IF CanTrade(o, event, priced) THEN Matched(tried, o, i, event, verdict[i])
        ELSE tried

\* match_with_events: every event over the queue as it is when the event starts,
\* then the cleanup.
MatchEvent(acc, ord, event, now, priced, wanted, defer, verdict) ==
    LET Step(a, i) == MatchOne(a, ord, i, event, now, priced, wanted, defer, verdict)
    IN  FoldLeft(Step, acc, SortedQueue(acc.book, ord))

MatchWithEvents(book, ord, events, now, priced, wanted, defer, verdict) ==
    LET Step(a, event) == MatchEvent(a, ord, event, now, priced, wanted, defer, verdict)
        done == FoldLeft(Step, [book |-> book, reports |-> <<>>], events)
    IN  [done EXCEPT !.book = DropFinished(@)]

\* The verdicts a call of the client with the set events may meet: one for each
\* wanted order that an event may trade.  Bars of one call have different symbols.
VerdictsOf(book, ord, events, priced, wanted) ==
    LET Trading(i) == {e \in events : CanTrade(ord[i], e, priced)}
        met == {i \in Active(book) \cap wanted : Trading(i) # {}}
        Of(i) == UNION {Outcomes(book, ord[i], i, e) : e \in Trading(i)}
    IN  {v \in [met -> UNION {Of(i) : i \in met}] : \A i \in met : v[i] \in Of(i)}

-----------------------------------------------------------------------------
(***************************************************************************)
(* The ExecutionClient interface.                                          *)
(***************************************************************************)

OnOrder(book, i) ==
    [book EXCEPT !.status[i] = "Submitted", !.filled[i] = 0, !.queue = Append(@, i)]

\* A cancellation that takes a submitted order for beyond recall.
OnCancelUnsubmitted(book, S) ==
    [book EXCEPT !.status =
        [i \in OrderIds |-> IF i \in S /\ @[i] = "New" THEN "Cancelled" ELSE @[i]]]

OnCancel(book, S) ==
    [book EXCEPT !.status =
        [i \in OrderIds |-> IF i \in S /\ @[i] \in Live THEN "Cancelled" ELSE @[i]]]

Resting == {"Break", "Closed", "PreOpen", "PostClose"}

\* The Day orders a closed session expires, and their reports.
ClosingOrders(book, ord) == {i \in Active(book) : ord[i].tif = "Day"}
ClosingReports(book, ord, event) ==
    LET ids == Only(book.queue, ClosingOrders(book, ord))
        at == IF event.kind = "Bar" THEN event.ts ELSE 0
    IN  [k \in DOMAIN ids |-> Report(ids[k], "Expired", book.filled[ids[k]], 0, at)]

\* on_event: no match outside trading hours; every order is a candidate.
OnEvent(book, ord, event, now, session, priced, verdict) ==
    LET sliced == PrepareSlice(book, now)
        expired == [sliced EXCEPT !.status =
             [i \in OrderIds |-> IF i \in ClosingOrders(book, ord) THEN "Expired" ELSE @[i]]]
    IN  CASE session \notin Resting ->
                MatchWithEvents(sliced, ord, <<event>>, now, priced, OrderIds, TRUE, verdict)
          [] session = "Closed" ->
                [book |-> DropFinished(expired), reports |-> ClosingReports(book, ord, event)]
          [] OTHER -> [book |-> sliced, reports |-> <<>>]

\* The orders finalize_timestamp gives their last chance in the slice.
ToFinalize(book, ord, now) == {i \in Active(book) : ShouldFinalize(book, ord, i, now)}

\* The bars of the slice, those of symbols with a same-cycle reduce first.
FinalizeEvents(book, ord, bars, now) ==
    LET reduce == {ord[i].sym : i \in {j \in Active(book) :
                        ord[j].created = now /\ ord[j].offset = 0 /\ ReduceFirst(ord[j])}}
        traded == {e.sym : e \in bars}
        syms == Ascending(traded \cap reduce) \o Ascending(traded \ reduce)
    IN  [k \in DOMAIN syms |-> CHOOSE e \in bars : e.sym = syms[k]]

\* finalize_timestamp, with the slice's bars; nothing is deferred any more.
FinalizeTimestamp(book, ord, bars, now, priced, verdict) ==
    IF bars = {} THEN [book |-> ClearSlice(book), reports |-> <<>>]
    ELSE LET sliced == PrepareSlice(book, now)
             done == MatchWithEvents(sliced, ord, FinalizeEvents(sliced, ord, bars, now),
                         now, priced, ToFinalize(sliced, ord, now), FALSE, verdict)
         IN  [done EXCEPT !.book = ClearSlice(@)]
=============================================================================
