--------------------------- MODULE BacktestPipeline ---------------------------
(***************************************************************************)
(* The event loop of a backtest (pipeline/runner.rs, pipeline/stages/,     *)
(* Engine::run): market events go one by one through a fixed list of       *)
(* stages that share the order manager, the simulated client's book and    *)
(* one event channel.  An order lives in the channel, in the book and in   *)
(* the order manager at once, and each stage moves some of these copies.   *)
(*                                                                         *)
(* The environment is the feed (any bars in time order, and given timers), *)
(* one strategy that submits and cancels, the risk checks' verdict on a    *)
(* request and the outcome of each match.                                  *)
(***************************************************************************)
EXTENDS SimulatedClient

CONSTANTS
    Times,           \* timestamps of the feed; 0 is "none yet"
    DateOf,          \* trading date of a timestamp
    Timers,          \* timestamps of the timers the strategy scheduled at the start
    Sessions,        \* sessions the clock may show
    DefaultOffset,   \* bar_offset of the engine's default fill policy
    Moves,           \* what a callback may submit: [orders : Seq(template), oco, exits]
    RiskRejects,     \* TRUE: the risk checks may reject a request
    StrategyCancels  \* TRUE: the strategy may cancel its orders

ASSUME TimesAssumption == Times \subseteq Nat \ {0} /\ Timers \subseteq Times
ASSUME DateOfAssumption == DateOf \in [Times -> Nat \ {0}]
ASSUME OrderIdsAssumption == IsFiniteSet(OrderIds) /\ OrderIds = 1 .. Cardinality(OrderIds)
ASSUME GroupIdsAssumption == GroupIds = {"oco", "bracket"} \X OrderIds
ASSUME DefaultOffsetAssumption == DefaultOffset \in {0, 1}
ASSUME MovesAssumption ==
    \A m \in Moves :
        /\ m \in [orders : Seq(Order), oco : BOOLEAN, exits : SUBSET Exits]
        /\ m.oco => Len(m.orders) = 2 /\ m.exits = {}
        /\ m.exits # {} => Len(m.orders) = 1

VARIABLES
    pc,        \* the stage whose turn it is
    om,        \* the order manager
    book,      \* the simulated client
    ord,       \* what an order never changes (NoOrder: id not drawn yet)
    channel,   \* the event manager's queue
    drain,     \* locals of ChannelProcessor::process
    ledger,    \* quantities traded and rejections, by order, on their way to the strategy
    feed       \* DataProcessor, clock, timers, last prices, current event

vars == <<pc, om, book, ord, channel, drain, ledger, feed>>

\* Statistics, which only reads, has no step.
Stages == <<"Channel1", "Data", "PreExec", "Channel2", "Strategy",
            "Channel3", "PostExec", "Channel4", "Cleanup">>

Draining == pc \in {"Channel1", "Channel2", "Channel3", "Channel4"}

StageAfter(stage) ==
    LET k == CHOOSE n \in DOMAIN Stages : Stages[n] = stage
    IN  IF k = Len(Stages) THEN Stages[1] ELSE Stages[k + 1]

NoEvent == [kind |-> "Timer", sym |-> 0, ts |-> 0, traded |-> FALSE]
None == [i \in OrderIds |-> 0]
IdleDrain == [pending |-> <<>>, suppressed |-> {}, intermediate |-> FALSE, settle |-> FALSE]

\* unbooked: trades_to_process.  booked: trades of the order manager.  untold:
\* current_step_trades; told: what strategies got.  The same for rejections
\* (current_step_rejected_orders).
EmptyLedger == [unbooked |-> None, booked |-> None, untold |-> None, told |-> None,
                rejected |-> None, rejectsTold |-> None]

Init ==
    /\ pc = Stages[1]
    /\ om = EmptyRegistry
    /\ book = EmptyBook
    /\ ord = [i \in OrderIds |-> NoOrder]
    /\ channel = <<>>
    /\ drain = IdleDrain
    /\ ledger = EmptyLedger
    /\ feed = [last |-> 0, finalized |-> 0, date |-> 0, seen |-> {}, tradable |-> {},
               bars |-> {}, event |-> NoEvent, session |-> "Closed",
               timers |-> Timers, priced |-> {}]

Now == feed.event.ts                        \* context_timestamp
Used(o) == {i \in OrderIds : o[i] # NoOrder}

-----------------------------------------------------------------------------
(***************************************************************************)
(* shared.rs, on the parts of the state a report touches.                  *)
(***************************************************************************)

State(suppressed) == [om |-> om, book |-> book, ord |-> ord, channel |-> channel,
                      ledger |-> ledger, suppressed |-> suppressed]

Becomes(s) ==
    /\ om' = s.om /\ book' = s.book /\ ord' = s.ord
    /\ channel' = s.channel /\ ledger' = s.ledger

Plus(f, g) == [i \in OrderIds |-> f[i] + g[i]]

\* A flush that leaves the trades in place for the next one.
FlushKeeping(l) == [l EXCEPT !.booked = Plus(@, l.unbooked), !.untold = Plus(@, l.unbooked)]

\* flush_accumulated_trades: process_trades books them and queues them for the
\* strategy.
Flush(l) == [l EXCEPT !.unbooked = None,
                      !.booked = Plus(@, l.unbooked),
                      !.untold = Plus(@, l.unbooked)]

\* The orders of consume_bracket_activation_on_fill for the filled order i: the
\* exits of its plan under new ids, requested through the channel; place_bracket
\* gives the plan the time in force of the entry.
RequestExits(s, i, at) ==
    LET n == Cardinality(Used(s.ord))
        k == Cardinality(s.om.plans[i])
        filled == Snapshot(s.om, i).filled
        exit == [s.ord[i] EXCEPT !.side = "Sell", !.cond = TRUE,
                                 !.resize = FALSE, !.created = at, !.parent = i,
                                 !.qty = IF filled > 0 THEN filled ELSE @]
    IN  IF k = 0 THEN s
        ELSE [s EXCEPT !.om = ActivateBracket(@, i, <<"bracket", i>>, n + 1, n + k),
                       !.ord = [j \in OrderIds |->
                           IF j \in n + 1 .. n + k
                           THEN [exit EXCEPT !.twin = IF k = 2 THEN 2 * n + 3 - j ELSE 0]
                           ELSE @[j]],
                       !.channel = @ \o [j \in 1 .. k |-> [kind |-> "Request", id |-> n + j]]]

\* Two ways to do half of the next definition: the peers' fills still count, or
\* the order manager's copies go on.
CancelPeersUnsuppressed(s, i) ==
    [s EXCEPT !.book = OnCancel(@, Peers(s.om.oco, i)),
              !.om = CancelEach([s.om EXCEPT !.oco = ConsumePeers(@, i)],
                             Peers(s.om.oco, i))]
CancelPeersInBook(s, i) ==
    [s EXCEPT !.suppressed = @ \cup Peers(s.om.oco, i),
              !.book = OnCancel(@, Peers(s.om.oco, i)),
              !.om.oco = ConsumePeers(@, i)]

\* A fill cancels its one-cancels-the-other peers in both books, and their own
\* fills that are still on their way are dropped.
CancelPeers(s, i) ==
    LET peers == Peers(s.om.oco, i)
    IN  [s EXCEPT !.suppressed = @ \cup peers,
                  !.book = OnCancel(@, peers),
                  !.om = CancelEach([s.om EXCEPT !.oco = ConsumePeers(@, i)], peers)]

\* apply_execution_report
ApplyReport(s, r) ==
    LET i == r.id
        told == [s EXCEPT !.om = OnReport(@, i, r.status, r.filled)]
        known == told.om.history[i] # <<>> \/ told.om.status[i] # Absent
        noted == IF known /\ Snapshot(told.om, i).status = "Rejected"
                 THEN [told EXCEPT !.ledger.rejected[i] = @ + 1] ELSE told
        linked == IF r.status = "Filled" THEN RequestExits(CancelPeers(noted, i), i, r.at)
                  ELSE noted
    IN  IF r.status = "Filled" /\ i \in s.suppressed THEN s
        ELSE [linked EXCEPT !.ledger.unbooked[i] = @ + r.trade]

-----------------------------------------------------------------------------
(***************************************************************************)
(* ChannelProcessor.                                                       *)
(***************************************************************************)

\* One event taken from the channel.
ChannelReceive ==
    /\ Draining /\ channel # <<>>
    /\ LET m == Head(channel)
           s == [State(drain.suppressed) EXCEPT !.channel = Tail(@)]
           t == CASE m.kind = "Request"   -> s
                  [] m.kind = "Validated" -> [s EXCEPT !.book = OnOrder(@, m.id),
                                                       !.om = AddActive(@, m.id)]
                  [] m.kind = "Report"    -> ApplyReport(s, m)
       IN  /\ Becomes(t)
           /\ drain' = [drain EXCEPT
                  !.suppressed = t.suppressed,
                  !.pending = IF m.kind = "Request" THEN Append(@, m.id) ELSE @]
    /\ UNCHANGED <<pc, feed>>

\* What the strategy limits and the risk manager may make of a request: 0 when
\* they reject it, otherwise the quantity, reduced only for a resizable buy.
RiskVerdicts(o) ==
    {o.qty} \cup (IF RiskRejects THEN {0} ELSE {})
            \cup (IF o.resize /\ o.side = "Buy" THEN 1 .. o.qty ELSE {})

\* process_order_request of each id of the sequence ids.
ProcessRequests(ids, risk) ==
    /\ channel' = channel \o [k \in DOMAIN ids |->
           IF risk[ids[k]] = 0 THEN Report(ids[k], "Rejected", 0, 0, Now)
           ELSE [kind |-> "Validated", id |-> ids[k]]]
    /\ ord' = [i \in OrderIds |->
           IF i \in ToSet(ids) /\ risk[i] # 0 THEN [ord[i] EXCEPT !.qty = risk[i]]
           ELSE ord[i]]

\* has_orders_matching_phase: the policy of one of the orders of S, or with it the
\* engine's default, calls for matching in this phase.
PhaseFor(phase, offset) == IF phase = "PreExec" THEN offset = 1 ELSE offset = 0
PhaseOf(phase, S) == \E i \in S : PhaseFor(phase, ord[i].offset)

Reducing == {i \in ToSet(drain.pending) : ReduceFirst(ord[i])}
Reduces == Only(drain.pending, Reducing)
Increases == Only(drain.pending, ToSet(drain.pending) \ Reducing)

\* The match between the two phases: reports of the current event, to be settled
\* before the increases are checked.
IntermediateMatch ==
    \E v \in VerdictsOf(book, ord, {feed.event}, feed.priced, OrderIds) :
        LET done == OnEvent(book, ord, feed.event, Now, feed.session, feed.priced, v)
        IN  /\ book' = done.book
            /\ channel' = channel \o done.reports
            /\ drain' = [drain EXCEPT !.intermediate = FALSE, !.settle = TRUE]
            /\ UNCHANGED ord

\* Requests of both kinds are pending; a drain that never looks.
Unsorted == FALSE
Mixed == Reduces # <<>> /\ Increases # <<>>

\* The requests that wait for a later turn.
Waiting == IF Mixed THEN Increases ELSE <<>>

\* The requests whose turn it is: the reduces alone when there are increases too,
\* which then wait; a match comes in between when an order pending fills in the
\* current cycle.
RequestsTurn ==
    LET batch == IF Mixed THEN Reduces ELSE drain.pending
    IN  \E risk \in [ToSet(batch) -> Nat \cap UNION {RiskVerdicts(ord[i]) : i \in ToSet(batch)}] :
          /\ \A i \in ToSet(batch) : risk[i] \in RiskVerdicts(ord[i])
          /\ ProcessRequests(batch, risk)
          /\ drain' = [drain EXCEPT
                 !.pending = Waiting,
                 !.intermediate = Mixed /\ PhaseOf("PostExec", ToSet(drain.pending)),
                 !.settle = FALSE]
          /\ UNCHANGED book

\* A turn of the loop: the channel is empty, requests are pending.
ChannelTurn ==
    /\ Draining /\ channel = <<>> /\ drain.pending # <<>>
    /\ IF drain.intermediate THEN IntermediateMatch ELSE RequestsTurn
    /\ ledger' = IF drain.settle THEN Flush(ledger) ELSE ledger
    /\ UNCHANGED <<pc, om, feed>>

ChannelLeave ==
    /\ Draining /\ channel = <<>> /\ drain.pending = <<>>
    /\ ledger' = Flush(ledger)
    /\ drain' = IdleDrain
    /\ pc' = StageAfter(pc)
    /\ UNCHANGED <<om, book, ord, channel, feed>>

-----------------------------------------------------------------------------
(***************************************************************************)
(* DataProcessor.                                                          *)
(***************************************************************************)

\* finalize_current_timestamp has something to do.
SliceOpen == feed.last # 0 /\ feed.finalized # feed.last

FinalVerdicts ==
    IF SliceOpen
    THEN VerdictsOf(book, ord, feed.bars, feed.priced,
             ToFinalize(PrepareSlice(book, feed.last), ord, feed.last))
    ELSE {<<>>}

\* The client's last match of the slice, its reports applied and booked at once.
LastMatch(s, verdict) ==
    IF feed.bars = {} THEN s
    ELSE LET done == FinalizeTimestamp(s.book, s.ord, feed.bars, feed.last, feed.priced, verdict)
             applied == FoldLeft(ApplyReport, [s EXCEPT !.book = done.book], done.reports)
         IN  [applied EXCEPT !.ledger = Flush(@)]

\* The next-bar orders whose symbol had no tradable bar in the slice, and the
\* rejections they get through the channel.
MissingSymbol(s) == {i \in OrderIds : /\ s.om.status[i] \in {"New", "Submitted"}
                                      /\ s.ord[i].created <= feed.last
                                      /\ s.ord[i].sym \notin feed.tradable
                                      /\ s.ord[i].offset = 1}
MissingReports(s) ==
    LET ids == Ascending(MissingSymbol(s))
    IN  [k \in DOMAIN ids |-> Report(ids[k], "Rejected", s.om.filled[ids[k]], 0, feed.last)]

\* The rejection of missing symbols that forgets the client's book.
RejectMissingInOneBook(s) == [s EXCEPT !.channel = @ \o MissingReports(s)]

\* reject_missing_symbol_orders
RejectMissing(s) == [s EXCEPT !.book = OnCancel(@, MissingSymbol(s)),
                              !.channel = @ \o MissingReports(s)]

\* finalize_current_timestamp
Finalize(verdict) ==
    IF SliceOpen THEN RejectMissing(LastMatch(State({}), verdict)) ELSE State({})

FinalizedFeed == IF SliceOpen THEN [feed EXCEPT !.finalized = feed.last, !.bars = {}] ELSE feed

\* day_orders_awaiting_fill_slice: next-bar orders created on the date that ends;
\* without it, and without the test of the policy.
NoneAwaits(o) == FALSE
AwaitsAnyPolicy(o) == feed.date # 0 /\ DateOf[o.created] = feed.date
AwaitsSlice(o) == o.offset = 1 /\ feed.date # 0 /\ DateOf[o.created] = feed.date

ExpiredDayOrders(s) == {i \in OrderIds : /\ s.om.status[i] # Absent
                                         /\ s.ord[i].tif = "Day"
                                         /\ ~AwaitsSlice(s.ord[i])}

\* Day-order expiry of the daily settlement, and its pushes to the history.
SettleDay(s) == [s EXCEPT !.om = ExpireAtSettlement(@, ExpiredDayOrders(s)),
                          !.book = OnCancel(@, ExpiredDayOrders(s))]

\* A bar: a later timestamp first finalizes the slice it leaves.
DataBar(sym, ts, traded, session) ==
    /\ pc = "Data"
    /\ ts >= Now /\ \A t \in feed.timers : ts < t
    /\ ts = feed.last => sym \notin feed.seen
    /\ \E verdict \in IF ts > feed.last THEN FinalVerdicts ELSE {<<>>} :
         LET newSlice == feed.last # 0 /\ ts > feed.last
             f == IF newSlice
                  THEN [FinalizedFeed EXCEPT !.seen = {}, !.tradable = {}, !.bars = {}]
                  ELSE feed
             bar == [kind |-> "Bar", sym |-> sym, ts |-> ts, traded |-> traded]
             s == IF newSlice THEN Finalize(verdict) ELSE State({})
         IN  /\ Becomes(IF DateOf[ts] = feed.date THEN s ELSE SettleDay(s))
             /\ feed' = [f EXCEPT !.last = ts, !.date = DateOf[ts],
                                  !.seen = @ \cup {sym},
                                  !.tradable = IF traded THEN @ \cup {sym} ELSE @,
                                  !.bars = @ \cup {bar},
                                  !.event = bar, !.session = session]
    /\ pc' = StageAfter(pc)
    /\ UNCHANGED drain

\* The timer closes the slice it leaves; a timer that does not.
TimerNeverEndsSlice(t) == FALSE
TimerEndsSlice(t) == t > feed.last

\* The timers after t was taken; a look that does not take it.
TimersPeeked(t) == feed.timers
TimersPopped(t) == feed.timers \ {t}

\* The next timer: it comes before bars of its timestamp.
DataTimer(session) ==
    /\ pc = "Data" /\ feed.timers # {}
    /\ LET t == Min(feed.timers)
           ends == TimerEndsSlice(t)
       IN  \E verdict \in IF ends THEN FinalVerdicts ELSE {<<>>} :
             /\ Becomes(IF ends THEN Finalize(verdict) ELSE State({}))
             /\ feed' = [IF ends THEN FinalizedFeed ELSE feed EXCEPT
                    !.timers = TimersPopped(t), !.session = session,
                    !.event = [kind |-> "Timer", sym |-> 0, ts |-> t, traded |-> FALSE]]
    /\ pc' = StageAfter(pc)
    /\ UNCHANGED drain

\* The feed and the timers are exhausted: the loop breaks.
DataEnd ==
    /\ pc = "Data" /\ feed.timers = {}
    /\ \E verdict \in FinalVerdicts : Becomes(Finalize(verdict))
    /\ feed' = FinalizedFeed
    /\ pc' = "Finish"
    /\ UNCHANGED drain

-----------------------------------------------------------------------------
(***************************************************************************)
(* ExecutionProcessor, StrategyProcessor, CleanupProcessor, end of run.    *)
(***************************************************************************)

Execute ==
    /\ pc \in {"PreExec", "PostExec"}
    /\ IF \/ PhaseFor(pc, DefaultOffset)
          \/ PhaseOf(pc, {i \in OrderIds : om.status[i] # Absent})
       THEN \E v \in VerdictsOf(book, ord, {feed.event}, feed.priced, OrderIds) :
              LET done == OnEvent(book, ord, feed.event, Now, feed.session, feed.priced, v)
              IN  book' = done.book /\ channel' = channel \o done.reports
       ELSE UNCHANGED <<book, channel>>
    /\ pc' = StageAfter(pc)
    /\ UNCHANGED <<om, ord, drain, ledger, feed>>

\* The plans a callback hands over for its new orders, of which n is the last
\* id before them: an OCO pair, or the exits of a bracket.
LinkOrders(m, n) ==
    LET bound == IF m.oco
                 THEN [om EXCEPT !.oco = RegisterOco(@, <<"oco", n + 1>>, n + 1, n + 2)]
                 ELSE om
    IN  RegisterPlan(bound, n + 1, m.exits)

\* A step whose rejections are handed over but not forgotten.
TellAgain(l) == [l EXCEPT !.told = Plus(@, l.untold), !.untold = None,
                          !.rejectsTold = Plus(@, l.rejected)]

\* Trades and rejections of the step are handed over and forgotten.
Tell(l) == [l EXCEPT !.told = Plus(@, l.untold), !.untold = None,
                     !.rejectsTold = Plus(@, l.rejected), !.rejected = None]

\* Bound: ids for the orders of the move m and for the exits of pending brackets.
Planned(r) == {p \in OrderIds \X Exits : p[2] \in r.plans[p[1]]}
Room(m) == Cardinality(Used(ord)) + Len(m.orders) + Cardinality(Planned(om))
               + Cardinality(m.exits) <= Cardinality(OrderIds)

\* A callback submits m, whose requests enter the channel at once, and cancels
\* the orders of S; then the engine takes the plans and does the cancellations.
Callback(m, S) ==
    LET n == Cardinality(Used(ord))
        new == n + 1 .. n + Len(m.orders)
        ids == Ascending(S)
    IN  /\ ord' = [i \in OrderIds |->
                     IF i \in new
                     THEN [m.orders[i - n] EXCEPT !.created = Now, !.parent = 0,
                                                  !.twin = IF m.oco THEN 2 * n + 3 - i ELSE 0]
                     ELSE ord[i]]
        /\ om' = CancelEach(LinkOrders(m, n), S)
        /\ book' = OnCancel(book, S)
        /\ channel' = channel \o [k \in DOMAIN m.orders |-> [kind |-> "Request", id |-> n + k]]
                              \o [k \in DOMAIN ids |->
                                    Report(ids[k], "Cancelled", om.filled[ids[k]], 0, Now)]

Strategy ==
    /\ pc = "Strategy"
    /\ \E m \in Moves, S \in SUBSET {i \in OrderIds : om.status[i] \in Live} :
         /\ Room(m)
         /\ ~StrategyCancels => S = {}
         /\ Callback(m, S)
    /\ ledger' = Tell(ledger)
    /\ feed' = [feed EXCEPT !.priced = IF feed.event.kind = "Bar"
                                       THEN @ \cup {feed.event.sym} ELSE @]
    /\ pc' = StageAfter(pc)
    /\ UNCHANGED drain

CleanupStage ==
    /\ pc = "Cleanup"
    /\ om' = Cleanup(om)
    /\ pc' = StageAfter(pc)
    /\ UNCHANGED <<book, ord, channel, drain, ledger, feed>>

\* flush_terminal_pending_order_events, then the last cleanup.
Finish ==
    /\ pc = "Finish"
    /\ ledger' = Tell(ledger)
    /\ om' = Cleanup(om)
    /\ pc' = "Done"
    /\ UNCHANGED <<book, ord, channel, drain, feed>>

\* Engine::run has returned.
Returned == pc = "Done" /\ UNCHANGED vars

Next ==
    \/ ChannelReceive
    \/ ChannelTurn
    \/ ChannelLeave
    \/ \E sym \in Symbols, ts \in Times, traded \in BOOLEAN, session \in Sessions :
          DataBar(sym, ts, traded, session)
    \/ \E session \in Sessions : DataTimer(session)
    \/ DataEnd
    \/ Execute
    \/ Strategy
    \/ CleanupStage
    \/ Finish
    \/ Returned

\* The loop runs on one thread until it breaks: weak fairness of Next, which has
\* an enabled step in every state before "Done".
Fairness == []<><<Next>>_vars \/ <>[](pc = "Done")

Spec == Init /\ [][Next]_vars /\ Fairness

-----------------------------------------------------------------------------
(***************************************************************************)
(* Properties                                                              *)
(***************************************************************************)

Known(i) == om.history[i] # <<>> \/ om.status[i] # Absent
View(i) == Snapshot(om, i)

\* Between two events, the channel drained, the order manager and the client agree
\* on which orders are working and on how much of each is filled.
BookAgreement ==
    pc = "Data" =>
        \A i \in OrderIds :
            /\ om.status[i] \in Live <=> book.status[i] \in Live
            /\ book.status[i] \in Live => om.filled[i] = book.filled[i]

\* An order is moved to the history once: no report, expiry or cancellation
\* brings back an order that ended.
HistoryOnce == \A i \in OrderIds : Len(om.history[i]) + (IF om.status[i] = Absent THEN 0 ELSE 1) <= 1

\* At the end of a run every fill the orders show was booked and told to the
\* strategy, once: nothing is lost between the client's report, the trades
\* waiting in a stage, and the step's list.
TradesAccounted ==
    pc = "Done" =>
        \A i \in Used(ord) :
            /\ ledger.told[i] = ledger.booked[i] /\ ledger.unbooked[i] = 0
            /\ View(i).status # "Rejected" =>
                 IF ord[i].resize THEN ledger.booked[i] <= View(i).filled
                 ELSE ledger.booked[i] = View(i).filled

\* At the end of a run the order manager knows every order that was requested, and
\* on_reject was told each rejected one once, and no other.
RejectionsTold ==
    pc = "Done" =>
        \A i \in Used(ord) :
            /\ Known(i)
            /\ ledger.rejectsTold[i] = IF View(i).status = "Rejected" THEN 1 ELSE 0

\* A next-bar order trades only on a bar later than its creation, whatever the
\* symbol whose callback created it (issue #307).
NextBarWaits ==
    /\ [](\A k \in DOMAIN channel :
            LET m == channel[k]
            IN  m.kind = "Report" /\ m.trade > 0 /\ ord[m.id].offset = 1
                    => m.at > ord[m.id].created)
    /\ [][\A i \in OrderIds :
             pc = "Data" /\ ledger'.booked[i] > ledger.booked[i] /\ ord[i].offset = 1
                 => feed.last > ord[i].created]_vars

\* The order trades in the slice at ts whatever the prices, if its symbol trades.
Due(i, ts) ==
    /\ ord[i] # NoOrder /\ ~ord[i].cond
    /\ ord[i].sym \in feed.tradable
    /\ IF ord[i].offset = 0 THEN ord[i].created = ts ELSE ord[i].created < ts

\* When a slice is finalized no order due in it is left untouched: an order that
\* was deferred for its funding, or created after its symbol's bar, gets its
\* match (issue #329).
NothingStranded ==
    [][feed'.finalized # feed.finalized =>
         \A i \in OrderIds :
            Due(i, feed.last) /\ book'.status[i] \in Live => book'.filled[i] > 0]_vars

\* When the risk checks look at an order that increases a position, the orders
\* that reduce one are in the order manager, and what already traded is booked:
\* a buy is not rejected for cash that its batch's sell brings (issue #307).
ReducesFundIncreases ==
    [][\A i \in ToSet(drain.pending) \ ToSet(drain'.pending) :
         ~ReduceFirst(ord[i]) =>
            /\ \A j \in ToSet(drain.pending) : ~ReduceFirst(ord[j])
            /\ \A k \in DOMAIN channel : ~ReduceFirst(ord[channel[k].id])
            /\ ledger'.unbooked = None]_vars

\* Of two orders bound one-cancels-the-other, the peer of a filled one is not
\* working any more when the channel is drained.
FilledCancelsPeer ==
    pc = "Data" =>
        \A i \in Used(ord) :
            ord[i].twin # 0 /\ Known(i) /\ View(i).status = "Filled"
                => om.status[ord[i].twin] \notin Live

\* Two orders bound one-cancels-the-other never both trade.
OneOfTwoTrades ==
    \A i \in Used(ord) :
        ord[i].twin # 0 => ledger.booked[i] = 0 \/ ledger.booked[ord[i].twin] = 0

\* The exits of a bracket never sell more than its entry bought.
ExitsWithinEntry ==
    \A e \in Used(ord) :
        LET exits == {i \in Used(ord) : ord[i].parent = e}
            Sold(i, n) == n + ledger.booked[i] + ledger.unbooked[i]
        IN  exits # {} => FoldSet(Sold, 0, exits) <= ledger.booked[e] + ledger.unbooked[e]

\* A same-cycle Day order trades only on its own trading date.
DayTradesInItsDay ==
    \A k \in DOMAIN channel :
        LET m == channel[k]
        IN  m.kind = "Report" /\ m.trade > 0
                /\ ord[m.id].tif = "Day" /\ ord[m.id].offset = 0
              => DateOf[m.at] = DateOf[ord[m.id].created]

\* The settlement expires a next-bar Day order only after a slice in which it
\* could trade: "orders whose matchable slice has not yet arrived" are spared.
DayGetsItsSlice ==
    [][\A i \in Used(ord) :
         /\ pc = "Data" /\ ord[i].offset = 1
         /\ Len(om'.history[i]) > Len(om.history[i])
         => feed.last > ord[i].created]_vars

\* A run ends: no stage hands work round for ever.
Termination == <>(pc = "Done")

-----------------------------------------------------------------------------
\* What the order manager shows of each order is an order's lifecycle.
Lifecycle == INSTANCE OrderLifecycle
    WITH Orders <- OrderIds,
         status <- [i \in OrderIds |-> IF Known(i) THEN View(i).status ELSE "Unknown"],
         filled <- [i \in OrderIds |-> IF Known(i) THEN View(i).filled ELSE 0],
         quantity <- [i \in OrderIds |-> IF ord[i] = NoOrder THEN 0 ELSE ord[i].qty]

OrdersLiveOnce == Lifecycle!Spec
=============================================================================
