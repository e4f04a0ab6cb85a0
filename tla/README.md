# AKQuant: TLA+ verification project

AKQuant is a quantitative trading framework: an engine in Rust (`src/src`, 31k
lines) that runs backtests and drives live strategies, under a Python layer
(`src/python/akquant`, 44k lines) with the strategy API, the framework hooks, the
broker gateways, the signal input and the parameter search. This directory models
in TLA+ the parts of it whose state interacts, checks them with TLC on small
instances, and proves part of it with TLAPS for every instance.

Paths below are relative to the repository.

## 1. The system

### Parts, state and operations

| Part | Source | State | Operations |
|---|---|---|---|
| Order manager | `src/order_manager.rs` | history `orders`, `active_orders`, OCO groups with a reverse index, bracket plans, trades and rejections of the step | add, apply report, cancel, register and consume OCO groups and bracket plans, clean up, book trades |
| Simulated client | `src/execution/simulated.rs` | its own copy of each order, submission queue, slice tracking (attempted, deferred) | on_order, on_cancel, on_event, finalize_timestamp |
| Matching | `src/execution/common.rs` and one file per asset | none (changes the order it is given) | match an order against a bar, tick or timer |
| Pipeline | `src/pipeline/` | locals of each stage, last and finalized timestamp | the stages of section 2 |
| Engine | `src/engine/` | event channel, clock, timers, current event and date, last prices | run, flush at the end, snapshot |
| Settlement | `src/settlement/` | none | once a date: interest, forced liquidation, expiry of instruments and of Day orders |
| Portfolio, tracker, margin | `src/portfolio.rs`, `src/analysis/tracker.rs`, `src/margin/` | cash, positions, available positions, lots | adjust, value, margin |
| Risk | `src/risk/` | limits, budgets, peaks and baselines per strategy | check and reduce a request |
| Market models | `src/market/` | calendars, fees | session of a time, commission, T+1, corporate actions |
| Feed | `src/data/` | bars and ticks by time, live channel | next event or timer, aggregation |
| Strategy API | `src/context.rs`, `python/akquant/strategy*.py` | orders of the callback, group sequence numbers | submit, cancel, place_oco, place_bracket |
| Framework hooks, scheduler | `python/akquant/strategy_framework_hooks.py`, `strategy_events.py`, `strategy_scheduler.py` | the date each hook was last called for, timers waiting for a context | call the hooks of a date from timers, events and the stop; register timers |
| Order submission | `gateway/order_submitter.py`, `live/_runner.py` | maps between client and broker order ids, closed orders | split into legs, validate ids, place, map; update the maps from order events |
| Local stops, order groups | `gateway/local_stop_book.py`, `broker_execution.py`, `strategy.py` | stop book, attempts, pending brackets, OCO groups, a lock | place_bracket, check and submit stops, cancel, process a trade |
| Live events | `gateway/broker_event_bridge.py`, `broker_recovery.py`, `broker_state_cache.py` | event queue, seen trades, position cache, applied fills | queue, drain, replay the day, take the base line, stop |
| Signals | `python/akquant/signal/` | seen ids, order to signal map, queue and stream consumers | put, read, acknowledge, dispatch, reject, start, stop |
| Parameter search | `python/akquant/optimize.py` | table `optimization_results`, process pool, results of a call | run_grid_search, run_walk_forward |

Indicators, statistics, reports, data loading and the analysis of results compute on
what the above produce; they have no state that interacts.

### What is hard about it

A backtest is one thread, so its difficulty is not interleaving but *order*. An
order exists three times: as an event in the channel, as the client's copy and
as the order manager's copy (active, then historic). Ten stages move these
copies, and no stage sees all three. What can go wrong takes several stages:

* one copy ends and another goes on (rejections for missing symbols, settlement,
  OCO cancellation, cancellation by the strategy);
* both legs of a pair are filled by one batch of reports, before the first of
  them cancelled the other;
* a buy and the sell that funds it are checked, deferred, matched and settled in
  an order that decides whether the buy is affordable;
* the clock moves (a timer, the first bar of a date) while a slice still has
  work to do; a timer sits between a date's settlement and its bars;
* the hooks of a date are called by whichever comes first of a timer, the next
  event and the stop, and an exception may leave any of them half way.

A live session has threads as well: signal sources, the thread of the market data,
the gateway's callbacks, a dispatch and a recovery thread that both drain the
broker's events, and the main thread that starts and stops them.

* An event comes twice, late, or never, and a query overlaps with it.
* A placement fails without saying whether the order exists; a retry may double it.
* A cancel, a trigger and a trade of one stop meet; a trade of an order comes before
  whoever submitted it has written down what it is.
* A stop of a thread overlaps with its work, a crash with both.

A parameter search has worker processes and a file: each may die between a result
and its row. `PROJECT.json` lists each hazard at its line with the properties that
cover it, or the reason why none does.

### What makes each part correct

* Order manager: the two OCO maps agree, groups are pairs, cancel instructions
  are mutual, links of closed orders are gone.
* Client: it agrees with the order manager on what works; no order is stranded;
  no next-bar order trades on its own bar.
* Channel stage: reductions precede the increases they fund; the drain ends.
* Data stage and settlement: each slice is finalized before the clock leaves
  it; a Day order ends with its day, and not before its slice.
* Engine: every trade and every rejection reaches the strategy once; the run ends.
* Hooks: each is called once a date, around the date's bars; a timer of every
  trading day fires once on each.
* Signals: one order per signal id, no signal lost, the source learns a refusal.
* Submission: legs make up the order, a reversal opens only after it closed, a
  client order id names one working order.
* Brackets and stops: exits placed once, a stop sent at most once, never after its
  cancellation, never lost; one exit withdraws the other.
* Live events: a trade is told at most once and counted at most once, and reaches the strategy.
* Search: each combination is answered once; a resumed search repeats nothing it has.

## 2. Modules

    SortedSequences          sequences kept in an order
    OrderRegistry            data and operations of the order manager
      OrderManager           any caller, any order of calls        + MCOrderManager
        OrderManagerProofs
      SimulatedClient        data and operations of the simulated client
        SimulatedClientProofs
        BacktestPipeline     the event loop over both              + MCBacktestPipeline
          BacktestPipelineProofs     where each order is
            OrderAccountsProofs      what each part holds of it
              SliceProofs            slices and dates
            LinkedOrdersProofs       pairs of orders, brackets
    OrderLifecycle           abstract: what the engine promises of an order

    StrategyHooks            framework hooks and timers of a backtest   + MCComponents
      FrontEndProofs         the theorems about it and GridSearch

    SignalQueue              the queue source and its threads           + MCLive
    SignalStream             the Redis stream source, crash and restart + MCLive
    SignalDispatch           from a signal to its order and back        + MCComponents

    OrderSubmission          legs and client order ids                  + MCComponents
    LiveOrders               brackets, local stops, order groups        + MCComponents
    LiveEvents               trades from the broker to the strategy     + MCLive
      LiveProofs             the theorems about these three and the three of signals
    TradeFeed                abstract: what a session promises of trades

    GridSearch               a search, its pool and its table           + MCComponents
      FrontEndProofs         (see StrategyHooks)
      WalkForward            windows that search one after the other    + MCWalkForward

An indented module extends the one above it. BacktestPipeline implements OrderLifecycle
and LiveEvents implements TradeFeed, by INSTANCE with a refinement mapping.

### The backtest

**OrderRegistry** has one record for the `OrderManager` struct and one operator
per method. `active_orders` becomes a function of the id (an id has one element
there), `orders` a sequence of rows per id, because an id can be pushed twice.
`oco.members` is `oco_groups`, `oco.groupOf` is `oco_order_to_group`, `plans`
is `pending_bracket_plans`. `get_all_orders` and the scans of `shared.rs` look
in the history first: `Snapshot`.

**OrderManager** makes each method an action of an arbitrary caller. Group keys
are what callers pass; a bracket's key is derived from its entry.
`KeysAreFresh` says whether a caller may take a key in use. Ids of exits are
new uuids (`Fresh`).

**SimulatedClient** has one record for the client's book and slice tracking and
one operator per method of the `ExecutionClient` trait. `match_with_events` is
a fold over the events of the call and the sorted queue: deferral, marking and
the next-bar guard are as in the code. What prices, volumes and margin decide
is a *verdict*: nothing, cancel (IOC, FOK), fill, partial fill, cut, rejection.

**BacktestPipeline** has one action per stage, `pc` being the stage whose turn it is:

| Action | Code |
|---|---|
| `ChannelReceive`, `ChannelTurn`, `ChannelLeave` | `ChannelProcessor::process`: one event; one turn of the loop over pending requests with two-phase handling and the intermediate match; the final flush |
| `DataBar`, `DataTimer`, `DataEnd` | `DataProcessor::process`, with `finalize_current_timestamp`, `reject_missing_symbol_orders` and the settlement of Day orders |
| `Execute` | `ExecutionProcessor::process` before and after the strategy |
| `Strategy` | `StrategyProcessor::process`: callback, plans, cancellations, clearing of the step's lists |
| `CleanupStage` | `CleanupProcessor::process` |
| `Finish`, `Returned` | end of `Engine::run` |

The channel stage occurs four times in `build_pipeline`, and four times here.
The stages of one event are a sequence, so the only nondeterminism is the
environment's: the next bar (symbol, time, traded or suspended, session), what
the callback submits and cancels, the risk verdict, and the verdicts of matches.

**OrderLifecycle** is the abstract specification: an order becomes known once,
fills grow to at most its quantity, it ends once and never works again.
`OrdersLiveOnce` states that the pipeline implements it, the state of each
order being read from the order manager as `get_all_orders` would show it. It
checks the life as a strategy sees it through three copies and a settlement that
bypasses the order manager.

**StrategyHooks** has the hooks' fields of a strategy (`_framework_last_local_date` and
the four done dates) as `hooks`, the engine's heap as `timers`, and one action per entry
from the engine: `BarEvent` (`on_bar_event`), `TimerEvent` (`on_timer_event`) and `Stop`
(`_on_stop_internal`). An entry is a sequence of callbacks any of which may raise; what a
raise leaves undone, and whether the run goes on, is as in `call_user_callback` and
`error_mode`. `FrameworkTimers` are the timers primed from the data, `DailyTimers` those
`flush_pending_schedules` makes of a `schedule_daily` in `on_start`, with the
trading days or, where the front end knows none, by the wall clock.

### Signals

**SignalQueue** has one action per statement of `put`, `start`, `stop` and the consumer
thread that another thread can come between. `stop` may give up its join, so
`consumers` may be several. **SignalStream** has the consumer's loop (`TestFlag`,
`ReadBatch`, `HandleEntry`, `AckEntry`), the consumer group at the server
(`delivered`, `pendingAcks`), and `StopStream`, `CrashStream` and `StartStream` around it.

**SignalDispatch** splits `dispatch` where its lock is not held: check and mark, submit,
forget or store, finish; `jobs` says where each source thread is. `HandleReject` comes
from the engine's thread at any time after a submission. The seen set is the code's
ordered set with its eviction; both sinks are modelled, and only orders of the paper
sink, which the engine takes, are refused by it later.

### Orders of a live session

**OrderSubmission** computes the legs as `resolve_live_order_legs` does, from *two* answers
to the position query that need not agree, then validates, places and maps them leg by
leg. Each placement may fail before or after the venue has the order. Order events
are applied in any order and rewrite the maps as `_update_broker_state` does.

**LiveOrders** has the market thread (`place_bracket`, `check_stop_triggers` and the three
outcomes of a stop's submission with retry and remapping), the two draining threads in
`process_order_groups` (under `_order_group_lock`, which `place_bracket` takes only after
its entry is submitted), `cancel_order` from any callback, and the venue. An entry may be
filled by several trades. Both threads may hold a trade of one bracket at once.

**LiveEvents** follows trades: executed at the broker, pushed by the gateway's thread,
replayed by the recovery cycle, queued (`queue_event` drops a trade it has seen),
drained by either thread, added to the cached position (a read and a write that
nothing holds together), told to `on_trade`. The main thread takes the base line
(`DiscardPendingTrades`, `QueryPositions`, `StorePositions`, `MarkTradesSeen`) meanwhile and
later stops the threads; the dispatch thread drains once more when it is told to.
`exposed` is a history variable: the trades whose event was on its way while positions
were read, for which the code cannot know whether the positions hold them.

**TradeFeed** is the abstract specification of this: `on_trade` is called at most once for
a trade, and only for one that was executed.

### Searches

**GridSearch** has one action per step of `run_grid_search`: read the table, submit all
tasks, collect results in the order of completion, save each, return. Workers run
tasks; a worker's death breaks the pool; the main process may be killed anywhere;
the table may refuse to be read or written. `ran`, `unsaved` and `blind` are history
variables. **WalkForward** runs one search per window with the same database.

### Abstractions

In the backtest:

* One strategy. Strategies share the order manager: what this adds (colliding
  group keys) is in OrderManager.
* Bars only; a tick behaves like a bar without volume check. The symbol whitelist,
  warm start (`snapshot_time`, `is_active_timestamp`) and live mode (`Wait`) are left out
  of BacktestPipeline, and its timers exist when the run starts; the timers of the framework
  are in StrategyHooks.
* `created_at` is the timestamp of the event whose callback submits.
* A partial fill trades one unit; a partial fill that is also cut is left out.
* Verdict "vanish" (a trade cut to nothing, `simulated.rs:612`) is in the model
  but in no run: with it `BookAgreement` fails, see the hazards.
* A lot-size rejection by the matcher has the effect of "unaffordable", which the
  model gives only to orders that cannot be resized.
* A pair is of two orders of one callback; `place_oco` takes any two ids. A bracket is
  asked for with its entry, and its exits repeat the entry's time in force
  (`order_manager.rs:184`, `:219`), effect and offset.
* Rejections of missing symbols are reported in order of id; the code reports
  them in order of the active list.
* Forced liquidation, instrument expiry and corporate actions of the settlement
  do not happen. Sessions are chosen freely where a run asks about them;
  `force_session_continuous`, the default of backtests, is `Sessions = {"Continuous"}`.
* Bound, in the model: ids. A callback submits only while ids for its orders and
  for the exits of pending brackets are left (`Room`). OrderManager bounds the
  rows of one id in the history (`MaxRows`).
* StrategyHooks counts time in slots, `Width` to a date; the strategy overrides every
  hook, has no warm-up count, and asks for timers in `on_start` only. One
  callback of an event may raise. Portfolio updates and training are left out.

Elsewhere:

* A stream entry that cannot be parsed goes the same way as others, without a
  dispatch; a stopped stream thread ends within the three seconds `stop` waits.
  A result of `dispatch` is its kind. The sources and the dispatcher are checked apart:
  `DispatchItem` and `HandleEntry` stand for a whole `dispatch`, whose threads are
  those of SignalDispatch.
* Quantities of a submission are whole numbers. A request without a client order id gets
  a fresh one, which no other request has, and is left out. Price and risk checks come
  before the model begins; a request they refuse changes nothing.
* A bracket has both exit prices; which stops a bar triggers is open.
* LiveEvents has one symbol and trades of quantity one; a position is kept as how often it
  counts each trade, so that a lost update and a double count differ. Order and
  error events do not occur. The recovery thread ends within the second it is joined for.
* A backtest of a search ends, fails or times out with one kind of result; sorting and
  filtering of the answer are left out.

## 3. Runs

`tlc -config X.cfg M` for each row; the longest takes under two minutes on two cores.

| Run | Configuration (module) | Bounds | Shows |
|---|---|---|---|
| `order_manager` | `MCOrderManager.cfg` | 3 orders, one a bracket entry, 2 caller keys and 3 bracket keys, 1 row of history, symmetry; 42,960 states | `OcoIndex`, `BracketKeyUnused`, `CleanupUnbinds` |
| `backtest` | `MCBacktestPipeline.cfg` | 2 orders, 2 symbols, times 1..3, timers at 2 and 3, rotations, resizable and IOC limit orders, cancels, risk rejections, all verdicts but "vanish"; 762,251 states | `BookAgreement`, `HistoryOnce`, `TradesAccounted`, `RejectionsTold`, `NextBarWaits`, `NothingStranded`, `ReducesFundIncreases`, `OrdersLiveOnce`, `Termination` |
| `linked_orders` | `MCBacktestPipelineLinks.cfg` (`MCBacktestPipeline`) | 3 orders, OCO pairs of equal quantity on one symbol or two, brackets with one or two exits; 306,232 states | `FilledCancelsPeer`, `OneOfTwoTrades`, `ExitsWithinEntry` |
| `day_orders` | `MCBacktestPipelineDay.cfg` (`MCBacktestPipeline`) | 2 Day orders, times 1..4 on three dates, open and closed sessions; 522,599 states | `DayTradesInItsDay`, `DayGetsItsSlice` |
| `live` | `MCLive.cfg` | queue: sizes unbounded and 1, 3 signals, 2 starts; stream: 3 entries, batches of 2, 2 stops or crashes; events: 2 trades, each pushed at most once and replayed any number of times; 101,264 states | `NoSignalLost`, `StopEnds`, `HandledOnceOrPending`, `EntriesDispatched`, `CountedAtMostOnce`, `TradesToldOnce`, `TradesReachStrategy` |
| `components` | `MCComponents.cfg` | dispatch: 2 signals sent twice, 2 threads, room for 1 id; submission: 3 orders under one id, quantities 1 and 3, 3 answers; brackets: 1, its entry filled by 2 trades, 3 attempts, 2 draining threads; search: 3 combinations, 2 grids, 2 workers, 2 calls; hooks: feeds of one and two symbols over up to 3 dates, every setting, 4 starts, one raising callback per event, one daily timer; 266,119 states | `OneOrderPerSignal`, `MarkedIsAnswered`, `RefusalReachesSource`, `LegsMakeUpOrder`, `OneOrderPerClientId`, `EndedIdReusable`, `OpenAfterCloses`, `StopSentOnce`, `CancelledNeverSent`, `ExitsPlacedOnce`, `PeerStopWithdrawn`, `StopAccountedFor`, `AnsweredOnce`, `RunAgainOnlyIfUnsaved`, `PreOpenBeforeBars`, `DaysInOrder` |

The parts of MCLive and of MCComponents share no variable. The initial state chooses
which part runs, so that the states are the sum of the parts' states, not their product.

| Run that must be violated | Configuration (module) | Bounds | Violates |
|---|---|---|---|
| `shared_oco_keys` | `MCOrderManagerSharedKeys.cfg` (`MCOrderManager`) | 4 orders, keys may be shared | `PeersAreMutual` |
| `day_order_from_timer` | `MCBacktestPipelineDayTimer.cfg` (`MCBacktestPipeline`) | as `day_orders`, with a timer | `DayGetsItsSlice` |
| `uneven_oco_pair` | `MCBacktestPipelineUnevenPair.cfg` (`MCBacktestPipeline`) | a pair of quantities 1 and 2, partial fills | `FilledCancelsPeer` |
| `bracket_filled_early` | `MCComponentsBracket.cfg` (`MCComponents`) | the brackets of `components` | `FilledEntryProtected` |
| `walk_forward_database` | `MCWalkForward.cfg` | 2 windows, 2 combinations, a database | `TrainedOnItsWindow` |
| `daily_timer_unending` | `MCComponentsDaily.cfg` (`MCComponents`) | one bar, no known trading days | `DailyTimerOncePerDate` |

### Why the bounds are enough

* Three orders are enough for a pair and an outsider, who can take over a member
  or a key; the proofs cover the rest.
* Two symbols are needed for deferral, rotations and missing bars, and two orders for
  any of them; quantity 2 for a partial fill; three timestamps let an order be
  created, crossed by a slice, and traded or rejected in the next; the fourth
  timestamp of the Day run gives a date after the one the order waited for.
* Room for one seen id and two signals make every second signal evict; two
  deliveries and two threads make a duplicate overlap with the failure of the first.
* Two starts let an old consumer meet a new one and its sentinel; three signals
  leave one in the queue while each holds one. A queue of size 1 blocks `put`.
* A batch of two has an entry dispatched and one not, when the process dies.
* Three orders under one client id let an old one's event come after a new one
  and a third be asked for. Position answers of nothing, one of unknown day and one
  of each day reach every branch of the split, and pairs of them disagree.
* Two trades of an entry are what two draining threads can both hold; the attempts
  are those of the code.
* Two trades of a session are enough for a lost update between the two drains.
* Three combinations on two workers leave one queued when the pool breaks.
* The feeds have midnight bars, bars of two symbols at one time and at several, and
  dates with a gap; the starts fall before a date, on its first bar and inside it.

Deadlock is not checked where callers or producers may stop: the order manager's
callers, who may have nothing left to call, and the parts of MCLive, MCComponents and
WalkForward, whose bounds end what comes in. The backtest runs check it.

### Fairness

Of the backtest: `Fairness` is weak fairness of `Next`, written as
`[]<><<Next>>_vars \/ <>[](pc = "Done")`: every action changes the state, and in
every state before "Done" some action is enabled (TLC checks it as absence of
deadlock, "Done" alone has a stuttering step), so the formula equals
`WF_vars(Next)`; TLC evaluates it without ENABLED. The code justifies it: the
loop of `Engine::run` is `while runner.step(...)` on one thread, and nothing in
it waits in a backtest. `Termination` needs it. It says that the channel loop,
which requeues increases and emits new events, comes to an end with every feed.

Of the live session: weak fairness of each thread's steps, because each is a loop that
nothing but its own waiting stops (a `get` of an empty queue, a `put` into a full one,
which go on once they can). Two steps have strong fairness. `ReadBatch`: the loop reads
again and again, and a read that fails or finds nothing does so for a time only.
`SyncTodayTrades`: the recovery cycle asks every second, and the broker answers
again and again. `StartStream` is fair: somebody restarts the process, without which
nothing can be promised of entries. Nobody has to put a signal, start or stop a queue, crash,
execute or push a trade, or end the session.

* `StopEnds` holds of an unbounded queue only, the default. With a bound, the sentinel may
  wait for room in a queue nobody empties any more.
* `TradesReachStrategy` excepts what the broker never pushed and what no recovery cycle
  could replay before the session was stopped.

### What the violations say

1. *Shared keys.* `place_oco` numbers groups per strategy, the order manager is
   shared, and `register_oco_group` overwrites a group without unbinding its
   members: a fill of the first pair cancels the second pair.
2. *Day order from a timer.* The settlement spares next-bar Day orders created on
   the engine's previous date. A timer before a date's first bar creates them on the
   new date: they are expired before their slice. The trace shows the first date, before
   which no date is known and no order is spared. The framework's own `on_pre_open`
   is called by such a timer, one nanosecond before the first bar.
3. *Uneven pair.* Only `Filled` reports of a cancelled peer are dropped. A partial
   fill in the same batch revives it in the order manager, and nothing ends it.
4. *Bracket filled early.* `place_bracket` submits its entry before it registers the
   bracket. A trade processed in between passes as nobody's, and an entry filled by
   one trade stays without its exits.
5. *Walk-forward with a database.* Every window's search resumes from the rows of the
   strategy's name, whatever data they are of: the second window runs no backtest
   and is tested with the first window's parameters.
6. *Daily timer without trading days.* The timer registers itself again at the wall
   clock's next such time, which does not change while a backtest runs: the loop does
   not end.

Each is listed in `PROJECT.json` with its line and the sentence it contradicts.
The passing runs show that around these corners the design holds.

### What the runs leave open

* Run `backtest` has no Day orders, so that its `HistoryOnce`, `OrdersLiveOnce` and `BookAgreement`
  say nothing of the settlement. Run `day_orders` takes Day orders through it and asks when they
  trade and when they expire. That the settlement keeps `HistoryOnce` and `BookAgreement` for
  same-cycle Day orders is proved; of `OrdersLiveOnce` with Day orders it is not true (see the
  table of hypotheses).
* `day_orders` has suspended symbols as the others do. It does not check `HistoryOnce`, which a
  next-bar Day order of a suspended symbol violates (`data.rs:139`).
* `NoSignalLost` is conservation: each signal is in one place. A consumer that a stale sentinel
  ends loses nothing, and leaves the signals in the queue.
* `CountedAtMostOnce` bounds the count of a trade from above. A trade that the position misses,
  because two threads wrote at once or a load stored over it, does not violate it, and trades on
  their way while positions are read are left out (`exposed`).

## 4. Proofs

`tlapm M.tla` for each of the eight modules `*Proofs`. The theorems hold for every value of
the constants: any sets of orders, keys, signals, threads, trades, brackets and
combinations, any capacities and bounds.

**OrderManagerProofs.** `TypeCorrect`: `Spec => []TypeOK`. `IndexInvariant`: if callers never
take a key in use (`KeysAreFresh`), `Spec => []IndexInv`. `OcoIndex` alone is not
inductive: consuming a bracket plan registers the bracket's key, and whether that
overwrites a group depends on the history of the plan. `IndexInv` adds
`BracketKeyUnused` (the key of an entry is unused until its plan is consumed, and a plan
is registered once) and `TypeOK`. `OcoIndexCorrect`, `BracketKeysFree`, `PeersMutual` and
`CleanupUnbindsClosed` follow. `KeysAreFresh` is a hypothesis of the theorems, and run
`shared_oco_keys` shows that it is needed, and that the code does not ensure it.
`DetachKeepsIndex`, `RegisterKeepsIndex` and `ConsumeKeepsIndex` say that
the three operations on OCO maps keep the index exact and the groups pairs;
`RemainingOfPairs` reduces the cardinality test of `detach_oco_order` to "the group
dissolves". Then there is one step per action.

**SimulatedClientProofs.** The client is made of folds over the working orders and over
the reports. Their lemmas say what a whole pass leaves: `on_order`, `on_cancel` and a match
keep `BookSound` (the queue lists each working order once, and nothing that is done), a match
sends at most one report of an order, each report is `Genuine` (of an order that was
working, with the filled amount and the status that the client's copy now has), and a next-bar
order stays as it is at the bar that requested it. The folds run over a finite set or
sequence that a state holds, so induction over its size is first-order:
`SetInduction`, `ReportsInduction` and `EventsInduction` take the set of what has been
passed instead of an operator.

**BacktestPipelineProofs.** `PipelineSound`: `Spec => []IInv`, where `IInv` is
`Good /\ DrainType /\ FeedSound /\ StageSound`. The state is typed, but the types alone
are not inductive: that an order id drawn by a bracket is free needs the count of the plans
still to be consumed, and that a report finds an entry of its order needs to know where
orders may be. `Good` says so: an order that is on its way is in one place (the channel, the
pending requests of a drain, or the reports a stage has still to apply), the client's
working orders are queued once with something left to trade, a report that ends an order
finds it inactive at the client, one that trades comes at a bar the order may trade at.
`FeedSound` says that time goes on; `StageSound`, what each of the nine stages finds. There is a
lemma per operator of a stage, then one per stage. `NextBarWaitsCorrect` follows: a next-bar
order trades at no bar before its next one.

**OrderAccountsProofs.** Four parts hold something of an order: the order manager, the
client's book, the channel with the drain, and the ledger of what is to be booked and told.
`Account` says how they fit: the order is archived at most once and is not both active and
archived (`Kept`), what was traded is what it shows (`Balanced`), its rejection is noted once
(`Noted`), each report on its way continues what the manager has (`Continues`), and
who works with which fills. None of the checked properties is inductive by itself, because each
is about two of these parts at the end of a step or of a run, while every step takes something
from one part to another. `AccountsInv` is `IInv` with the account of every order and
`StageEven`: what the stages leave in the channel when the run ends. Its conjuncts hold each
under its own hypothesis on what the strategy submits and what the client answers, and
so do the theorems; run `backtest` satisfies all the hypotheses, so none is empty.

| Theorem | Hypotheses | What goes wrong without |
|---|---|---|
| `AccountsSound`, `HistoryOnceCorrect` | no next-bar Day order | rejected for its missing symbol, it is expired by the settlement with its report still in the channel, and archived twice (`data.rs:139`; run `day_orders`, where this happens, does not check `HistoryOnce`) |
| `BookAgreementCorrect` | the same; no pairs; no trade shortened to nothing | a peer suppressed in a drain and validated later in it works at the client alone; a trade shortened to nothing leaves an order done at the client alone (`simulated.rs:612`) |
| `TradesAccountedCorrect` | no next-bar Day order; no Day order or every trade affordable | a Day order refused for its funds is expired over its rejection |
| `RejectionsToldCorrect` | no Day orders; no brackets | as above, and the exits that the last finalization requests are never drained (`data.rs:228`) |
| `OrdersLiveOnceCorrect` | no Day orders; no pairs | a Day order filled by the last match of its date ends a second time, as Expired, in the settlement of the same call (`settlement/manager.rs:176`); a partial fill told after the peer's fill revives an order that was cancelled |
| `ReducesFundIncreasesCorrect` | no bracket whose entry says "Open" | its exits repeat the entry's effect (`order_manager.rs:196`) and are sells that do not count as reducing; one that a drain's fill requests waits in the channel |
| `PairsSound`, `OneOfTwoTradesCorrect`, `FilledCancelsPeerCorrect` | no match in parts; no pair of one order that reduces a position and one that increases it | a partial fill told after the peer's fill revives an order (run `uneven_oco_pair`); the increasing order of a mixed pair waits in the drain while the other fills, and is validated after the fill has cancelled it (`channel.rs:237`, `shared.rs:129`) |
| `CoveredSound`, `ExitsWithinEntryCorrect` | those of `AccountsSound` and `TradesAccountedCorrect`; no bracket whose entry may be resized; the second also those of `PairsSound` | the exits are for what the entry shows as filled (`order_manager.rs:163`), but the margin check shortens the trade of a resizable entry alone (`simulated.rs:467`). `place_bracket` submits no such entry (`strategy.py:2560`, `strategy_trading_api.py:384`), a caller of the engine's `register_bracket_plan` may; TLC then finds the property violated |
| `DayTradesInItsDayCorrect`, `DayGetsItsSliceCorrect` | no timers; no bracket whose entry is a Day order | a timer moves the clock, and with it the creation of orders, but not the date that the settlement compares (run `day_order_from_timer`); exits repeat the entry's time in force (`order_manager.rs:184`), and those of a Day entry filled by the last match of its date are in the channel during the settlement (`data.rs:228`), so that they may trade on the next date: TLC finds the first property violated with such a bracket among the moves |
| `NothingStrandedCorrect` | no session that does not trade | in a break or a closed session `on_event` returns early (`simulated.rs:736`): a next-bar order misses its bar, and the end of the slice does not look at it. TLC finds the property violated with sessions "Continuous" and "Closed" |

`ReducesFundIncreasesCorrect` needs an invariant of the drains, `FundNow`: the exits that wait
in the bracket plans reduce (`PlansReduce`), so that outside the strategy's own drain nothing
but requests that reduce is pending or on its way (`RequestsReduce`), and in that drain nothing
trades before it settles (`NothingTraded`). A batch is taken in phases, and
`TurnFunds` shows for each phase what it may leave to the next.

`OrdersLiveOnceCorrect` is the refinement of OrderLifecycle. `LifeStatus` and `LifeFilled`
are what it sees of an order, and `Lives` says of an operation what its `Next` says of a
step. One report is one such move because it continues what the manager holds (`ReportLives`);
a match applies many reports in one step, at most one for each order, and a callback at
most cancels, so that each of them composes moves of one order with rests
(`LivesOn`); the cleanup changes where an order is and not what it shows (`CleanupLives`).

**SliceProofs.** The two theorems on Day orders rest on `DayNow`. Neither property is inductive: a report
trades on its day because the settlement took the order out of the client's book, and the
settlement takes only what the order manager holds. So `ClientKnown` says that the client
works nothing the manager does not hold; `DayWorks` and `DayAsked`, that the same-cycle Day
orders that work or are asked for, in the channel and in the drain, are of one date, that of the
feed; `DayMade`, that none is from the future and none has exits to come; `FeedDay`, that from the first bar on the feed's
date is that of the clock. `DaysGoOn` is what every operation in between keeps of them for any
set of dates: a report, a match, an intermediate match, the answers of a drain. At the data stage
nothing is on its way (`DayRests`), so the settlement of a date leaves no Day order of it
(`SettleDays`) and the next date begins with none. Orders that the pipeline creates itself, the
exits of a bracket, have the time in force of their entry, and no entry that waits for its exits is
a Day order (`DayMade`, from the hypothesis `NoDayBrackets`), so that none of them is
(`SameDays`). `DataHistory` is the second
property: at the data stage only the settlement adds to a history, and an order whose date
is not the feed's, made no later than now, was made before the last bar.

`NothingStranded` speaks of the end of a slice, and no step before it says that the match
will come. `SliceNow` does. `FeedSlices` says what the feed has shown of the open slice.
`Attending` says of each order that works without a price to meet, whose symbol trades in the slice
and that has no trade (`Untouched`), who will match it (`Cared`): a same-cycle order of the slice is
deferred or was not attempted yet, either of which the end of the slice takes up; a next-bar order
from before is deferred, or the stage before the strategy is about to match its bar. `MarksSound` says that the
client's marks are those of the open slice, and `LateAsked` that no order on its way to the
client was due before. Most operations are `Idle`: no order starts to work and no mark changes.
Receiving a message and answering a drain are `Calm`: an order may start, marks stay. `MatchAttends` is
the match of an event, which matches an order or defers it, and `LastMatchRests` the end of the
slice: what was due is served (`DueServed`), and no mark is left (`Rested`). In a session that does
not trade the client looks at no order; hence `AlwaysTrading`.

**LinkedOrdersProofs.** A fill cancels the peers of its order when its report is applied, not when
it happens: at that moment the peer may be in the manager, at the client, in the channel or in the
drain, and its own fill may already wait behind. So neither property is inductive. `Tidy` says of
each pair that it is `Split`: the group holds exactly the two and neither traded, or one of them is
`Lost`, which means that it did not trade and nothing (`Hope`: a request, a validated order,
a copy at the client, an active row, a fill not suppressed) can make it trade. `Apart` adds
what the drain must ensure: the two requests are answered in one turn, and none waits while
the other fills. `Linked` is about the groups: the index is exact (`GroupsExact`), the keys
`oco` of orders to come and `bracket` of entries whose plan is still there are free, so
that no new pair joins an old group; and the client works nothing that the manager has
ended. `Ends` says that a report ends its order, which is where `NoParts` is used. There is a lemma per operation:
a report, with the cancels and the requests of exits it leads to (`ReportTidy`), a call of the
client (`CallTidy`), the answers of a turn (`AnsweredTurn`), the last match, the rejections and the
settlement of a slice (`FinalizeTidy`, `SettleTidy`), a callback (`SubmittedTidy`,
`CancelsTidy`) and the cleanup (`CleanedTidy`); then one per stage. Run `linked_orders`
satisfies both hypotheses.

`ExitsWithinEntryCorrect` joins the accounts and the pairs. `Covered` says that no order trades more
than its quantity, that the quantity of an exit was traded by its entry, that the entry has no other
exits to come, and that two exits of one entry are a pair. When the exits are requested (`FillCovered`), the
accounts give their quantity: the fill shows what the order traded. From then on trades only
grow and quantities only shrink (`Onward`, `CoveredOnward`), so every other operation keeps
`Covered`. Each exit alone is then within its entry, and as one of the two is `Lost` or neither has
traded, so is their sum; `SoldSum` evaluates the fold for two orders.

**LiveProofs.** *Brackets.* `StopPlaces`: the stop of a bracket is unborn, in the book, in
the batch of the market thread, at the venue, or cancelled, and `MarketShape` what the market
thread holds. `Born`: nothing of the exits exists before they are registered, which
happens at most once because a pending bracket has none. `TakePlaces` and `LockHeld`: the
take-profit is sent by the one thread that holds the lock. `StopSentOnce`,
`CancelledNeverSent`, `ExitsPlacedOnce` and `StopAccountedFor` follow. `PeerStopWithdrawn`
needs a second layer, `LInv`: trades are of orders sent (`SentTrades`), no trade of a
take-profit is processed before the link is made (`Linking`), and a link lasts until the
stop has left the book or was triggered (`Linked`).
*Submission.* `OrderTotal`: the legs of `resolve_live_order_legs` sum up to the
quantity for any two answers, by cases of the split. `Acknowledged` says that every
leg before the next one was acknowledged, from which `OpenAfterCloses` follows because
the opening leg is the last in the order. `IdInv` is about the client order ids: the maps of
the broker event loop name orders the venue has (`MapsTrue`), an order whose end was told
is in neither (`EndsTold`), the legs still to place have no working order
(`PlacesFree`), and the one just placed is the newest (`PlacedWaits`). `OneOrderPerClientId` and
`EndedIdReusable` follow.

*Trades.* `FlowInv`: a trade on its way is in the queue once or in one thread's
hands once, has been seen, and was not told; with it every step refines TradeFeed
(`TradesToldOnceCorrect`). `CountInv`: a position, a copy about to be written and rows
about to be stored each count a trade at most once (`AtMostOnce`), a write is of a
trade not yet applied (`WritesUnapplied`), and a trade the positions include but the drains
have not applied is one that no event will bring (`IncludedIsBlocked`), or exposed. So
`CountedAtMostOnceCorrect` bounds the count from above only.

*Signals, dispatch.* `OneOrderPerSignal` bounds a count by the evictions, so its
invariant counts: `Paid` says that the orders a signal has placed and the submissions
threads are about to make for it are no more than the evictions and its mark in the
seen set. Marks are distinct (`NoTwice`); a mark whose signal nobody works on
has been answered (`MarksCovered`). The lemmas on `Without` and on the eviction are
about sequences and rest on nothing of the model.
*Signals, queue.* A signal is in one place: `QueuedOnce` and `TakenOnce` make the three
places disjoint inside themselves, `HoldsWhileDispatching` ties what a consumer holds to
where it is, and `StartedInOrder` says that the next consumer to start is a new one.
*Signals, stream.* `LastDelivered` numbers the batch in hand up to the last entry
delivered, so that what a read returns was in nobody's hand; `Accounted` says the property
of each entry, `AckIsHandled` and `HandsEmpty` what the thread holds at each place.

**FrontEndProofs.** *Search.* `OneResult` ties the results of a combination to the place of its
task; `RunsAccounted` ties the runs of a combination, its row, the losses and the blind
searches, with what is on its way counted in. `RunAgainOnlyIfUnsaved` is stated and
proved for one strategy name per table; the hazards say why.
*Hooks.* One event makes up to three callbacks, each of which may raise, so the invariant is in
two layers. `Kept` holds of the strategy between two callbacks: the calls are `Ordered`, a
done date is one its hook was called for (`Marked`) and no returned call is of a later one
(`UpToDone`), and a date that ended ahead of the last begin is one that may never
begin (`EndedAhead`). `Permitted` says which call may come next, `KeptCalling` that such a call
keeps `Kept`, `BegunDates` that `dispatch_time_hooks` makes no other. `Going` holds between two
events: what is to come is not of an earlier date (`Upcoming`), a hook of a date has its timer to
come or was called (`Fired`, `Unfired`), a bar that is gone was told (`Seen`). It needs the
times of the timers to follow the dates of the data, which `TimersInOrder` derives from
`FeedsAssumption` by the arithmetic of slots. The stop is where `EndsToday` is for: with known
dates it ends only today. `DaysComplete` is part of the invariant, as what holds once stopped.

Assumptions: the named ASSUMEs of the modules. They give types and bounds
(`QuantitiesAssumption`, `MaxRowsAssumption`, `QueueBounds`, `StreamBounds`, `EventBounds`,
`OrderBounds`, `SubmissionBounds`, `AnswersType`, `CapabilitiesType`, `WorkersAssumption`
and the like), keep null values apart from others (`NoGroupAssumption`, `NobodyHandles`,
`DispatchNoSignal`, `NoRowAssumption`), and say that bracket keys are distinct for distinct
entries and used by no caller (`BracketGroupAssumption`, `BracketKeysAssumption`): they contain
the entry's uuid. `DispatchWorkers` says that there are finitely many threads. Three are
about the data of a run: bars are finitely many, and bars of two dates are more than two
nanoseconds apart (`FeedsAssumption`), since a date's last timer is one after its last bar
and the next date's first timer one before its first; a daily timer at midnight comes with no bar
in the last nanosecond of a date, and one without trading days is after all data
(`DailyAssumption`); times are not negative (`StartsAssumption`).

Only model-checked:

* Liveness (`Termination`, `StopEnds`, `EntriesDispatched`, `TradesReachStrategy`), because
  fairness and ENABLED are out of the prover's reach.
* WalkForward.

## 5. What remains

In the order of what it would add:

1. Order and error events of a live session, beside the trades of LiveEvents, and the order
   events the framework derives for a strategy (`strategy_order_events.py`).
2. `process_trades` with the FIFO lots of the trade tracker on whole amounts: agreement of
   tracker and portfolio. Matching with volumes on a small price grid.
3. Settlement with interest, forced liquidation and suspended symbols.
4. Snapshot: crash and resume between two events of BacktestPipeline.
5. Weekly and monthly timers, timers of later callbacks, the portfolio update.

## 6. Not modelled

* Decimal amounts: portfolio, lots, margin, fees, risk limits, corporate actions, interest.
  They are sequential sums of one call; a few prices in a model say less than the
  repository's reconciliation tests.
* Numeric series and their presentation: indicators, `talib`, factors, statistics, reports,
  plots. No control to speak of.
* Data loading, configuration, the conversions of the backtest front end and of the results:
  no state that outlives a call.
* Broker adapters, the HTTP and Redis servers, SQLite, the process pool: outside the
  repository, and modelled by how the code uses them where it depends on them.
* Logging, audit trail, stream events, hot reload and the supervision of the gateways.

Most of the Python code is of these kinds: of the repository's Python lines the definitions
here stand for about 3,400, beside about 2,600 lines of the engine in Rust.

### Observations without a run

Read or met in a model, and not checked by a property, because the part they concern is
left out or no document of the repository promises otherwise:

* The rejection of an order whose symbol has no bar in the last slice is queued after
  the last drain (`src/pipeline/stages/data.rs:228`): it is never told.
* A Day order filled by the last match of its date is still active when the settlement of
  the same call expires Day orders: it is shown as Expired, with its whole quantity
  filled (`src/settlement/manager.rs:176`).
* Exits of a bracket repeat the entry's time in force (`order_manager.rs:184`): the exits of a Day
  entry that the last match of a date fills are requested before the settlement and validated after
  it, and as Day orders work and may trade on the next date.
* A queue consumer that leaves its loop because of the stop flag leaves the sentinel in the queue
  (`signal/sources/queue.py:66`). The consumer of the next start takes it and exits at once,
  and the source is started without a consumer.
* Exits of a bracket repeat the entry's `position_effect` (`order_manager.rs:196`, `:231`): after an
  entry declared as "Open" its sells do not count as orders that reduce a position, and such
  a sell may be checked in one pass with the others.
* A same-cycle OCO pair of an order that reduces a position and one that increases it is answered in
  two turns of a drain (`channel.rs:237`) with a match between them. When the first fills there, the fill
  cancels a peer that is not validated yet (`shared.rs:129`); the peer is validated in the next turn and
  trades too. The proof attempt of `OneOfTwoTrades` met this, and TLC confirms it with such a
  pair among the moves; `PairsAlike` leaves it out.
* Exits of a live bracket have the size of the first partial trade of the entry
  (`strategy.py:2639`). The OCO peer of a stop that was already submitted is cancelled under
  its local id, which the venue does not know.
* `strategy_order_events.py` compares snapshots: an order partly filled and then ended may be
  told as Filled, and orders finalized by Expired or by OCO get no `on_order`.
* A date whose first bar is stamped with the start of the run gets no `on_pre_open`; daily
  bars at midnight put its timer on the calendar date before, for which
  `on_before_trading` and `on_after_trading` may then be called although it has no data.
* Daily timers earlier than the first event are registered in the past, and the clock goes
  back for them (`strategy_scheduler.py:59`, `src/data/feed.rs`).
* With enforced sessions `on_after_trading` is called at the first break of the session; this is why
  `DaysInOrder` asks for complete days only without them. When a later date of the data lies
  outside the session as a whole, its end-of-day timer overwrites
  `_framework_after_trading_done_date`, and the stop calls `on_after_trading` for the last date
  that began once more, stamped with the later date (`strategy_framework_hooks.py:782`), although
  the guard is to dedupe "against the lazy path" (`:52`). The proof attempt met this;
  `DaysInOrder` leaves out the end of such dates (`Followed`).
* A `return` at `strategy_framework_hooks.py:747` ends `on_portfolio_update` for good once
  `portfolio_update_eps` is above zero.
* `params_json` is UNIQUE across strategies while rows are read by strategy, with INSERT OR
  IGNORE: results of a second strategy are not stored. A broken pool makes `submit` raise
  and loses the results not yet collected (in GridSearch as `unsaved`). Rows outside
  the grid of a call are part of its answer.
