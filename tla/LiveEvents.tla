------------------------------ MODULE LiveEvents ------------------------------
(***************************************************************************)
(* Trades of a broker_live session: the broker pushes them, perhaps twice  *)
(* or never, the recovery cycle replays the day's trades every second, and *)
(* the dispatch thread and the recovery thread both drain the queue, add   *)
(* each trade to the cached position and call on_trade.  When the broker   *)
(* is ready, the main thread takes the positions as the base line.         *)
(* One symbol; a trade's quantity is one, and a position is kept as how    *)
(* often it counts each trade.  Every trade has an id.                     *)
(*   gateway/broker_event_bridge.py, broker_recovery.py,                   *)
(*   broker_state_cache.py, broker_strategy_api.py, live/_runner.py        *)
(***************************************************************************)
EXTENDS Naturals, Sequences, FiniteSets

CONSTANTS
    Trades,       \* trade ids
    MaxPushes,    \* bound: pushes of one trade
    ReadPhases    \* bound: phases in which a callback may read positions

Phases == {"waiting", "query", "store", "mark", "done", "stopping", "stopped"}

ASSUME EventBounds == MaxPushes \in Nat /\ ReadPhases \subseteq Phases

NoReader == [at |-> "none", rows |-> {}]
Drainers == {"dispatch", "recovery"}
AtRest == [at |-> "idle", last |-> FALSE, batch |-> <<>>,
         copy |-> [t \in Trades |-> 0]]

VARIABLES
    executed,     \* trades the broker has executed
    pushed,       \* how often each was pushed
    store,        \* _broker_events, trades only
    seenIds,      \* _seen_trade_ids
    phase,        \* where the session's main thread is
    rows,         \* the positions a query has returned, as a set of trades,
                  \* until the base line is complete
    loaded,       \* _total_loaded
    position,     \* _positions: how often it counts each trade
    reader,       \* a strategy callback inside positions(), and what it read
    appliedIds,   \* applied_fill_ids
    drainers,     \* what each draining thread is doing
    cycle,        \* the recovery thread's stage
    replay,       \* the day's trades it still has to pass to queue_event
    told,         \* how often on_trade was called for each trade
    late,         \* trades executed after the base line was complete
    exposed       \* trades whose event was on its way when positions were read

eventVars == <<executed, pushed, store, seenIds, phase, rows, loaded, position,
               reader, appliedIds, drainers, cycle, replay, told, late, exposed>>
brokerVars == <<executed, pushed, late>>
cycleVars == <<cycle, replay>>
baseVars == <<phase, rows, reader, exposed>>
positionVars == <<loaded, position, appliedIds>>

Stored == {store[i] : i \in DOMAIN store}
Batch(d) == {drainers[d].batch[i] : i \in DOMAIN drainers[d].batch}
InHand == UNION {Batch(d) : d \in Drainers}

EventsInit ==
    /\ executed = {} /\ pushed = [t \in Trades |-> 0]
    /\ store = <<>> /\ seenIds = {}
    /\ phase = "waiting" /\ rows = {}
    /\ loaded = FALSE /\ position = [t \in Trades |-> 0] /\ reader = NoReader
    /\ appliedIds = {}
    /\ drainers = [d \in Drainers |-> AtRest] /\ cycle = "sleep" /\ replay = {}
    /\ told = [t \in Trades |-> 0]
    /\ late = {} /\ exposed = {}

-----------------------------------------------------------------------------
(* The broker and queue_event *)

Counted(ts) == [t \in Trades |-> IF t \in ts THEN 1 ELSE 0]

ExecuteTrade(t) ==
    /\ t \notin executed
    /\ executed' = executed \cup {t}
    /\ late' = IF phase = "done" THEN late \cup {t} ELSE late
    /\ UNCHANGED <<pushed, store, seenIds, baseVars, positionVars, drainers,
                   cycleVars, told>>

\* A variant for checking: only the queue is looked at, not the session.
FreshInQueue(ts) == ts \ Stored

\* queue_event, under the lock: a trade seen in this session is dropped.
Fresh(ts) == ts \ seenIds
Queued(t) == IF Fresh({t}) = {} THEN store ELSE Append(store, t)

\* Positions were read without t's event, and t is in them.
ExposedBy(t) == IF phase \in {"store", "mark"} THEN Fresh({t}) \cap rows ELSE {}

\* The gateway's thread pushes a trade; a trade may be pushed again, or never.
PushTrade(t) ==
    /\ t \in executed /\ pushed[t] < MaxPushes
    /\ pushed' = [pushed EXCEPT ![t] = @ + 1]
    /\ store' = Queued(t) /\ seenIds' = seenIds \cup {t}
    /\ exposed' = exposed \cup ExposedBy(t)
    /\ UNCHANGED <<executed, late, phase, rows, reader, positionVars, drainers,
                   cycleVars, told>>

-----------------------------------------------------------------------------
(* The main thread: _await_broker_ready and _baseline_broker_state *)

\* heartbeat succeeds: the base line begins by discarding the trades queued.
DiscardPendingTrades ==
    /\ phase = "waiting"
    /\ seenIds' = seenIds \cup Stored /\ store' = <<>>
    /\ phase' = "query"
    /\ UNCHANGED <<brokerVars, rows, reader, exposed, positionVars, drainers,
                   cycleVars, told>>

\* positions() of an unloaded cache: ask the broker, or keep the old values.
QueryPositions ==
    /\ phase = "query"
    /\ IF loaded
       THEN phase' = "mark" /\ UNCHANGED <<rows, exposed>>
       ELSE \/ /\ rows' = executed /\ phase' = "store"
               /\ exposed' = exposed \cup (executed \cap (Stored \cup InHand))
            \/ phase' = "mark" /\ UNCHANGED <<rows, exposed>>
    /\ UNCHANGED <<brokerVars, store, seenIds, reader, positionVars, drainers,
                   cycleVars, told>>

StorePositions ==
    /\ phase = "store"
    /\ position' = Counted(rows) /\ loaded' = TRUE
    /\ phase' = "mark"
    /\ UNCHANGED <<brokerVars, store, seenIds, rows, reader, exposed, appliedIds,
                   drainers, cycleVars, told>>

\* A variant for checking: the base line ends without marking the trades.
MarkNothing ==
    /\ phase = "mark" /\ phase' = "done"
    /\ UNCHANGED <<brokerVars, store, seenIds, rows, reader, exposed, positionVars,
                   drainers, cycleVars, told>>

\* mark_trades_seen of the day's trades, unless the query fails.
MarkTradesSeen ==
    /\ phase = "mark"
    /\ \/ seenIds' = seenIds \cup executed /\ UNCHANGED exposed
       \/ exposed' = exposed \cup Fresh(executed) /\ UNCHANGED seenIds
    /\ phase' = "done" /\ rows' = {}
    /\ UNCHANGED <<brokerVars, store, reader, positionVars, drainers, cycleVars,
                   told>>

BaselineStep ==
    DiscardPendingTrades \/ QueryPositions \/ StorePositions \/ MarkTradesSeen

\* The session ends: _stop_broker_dispatcher stops the recovery thread and waits
\* for it (it is taken to end within the second of the join), then the other.
StopSession ==
    /\ phase = "done" /\ phase' = "stopping"
    /\ UNCHANGED <<brokerVars, store, seenIds, rows, reader, exposed, positionVars,
                   drainers, cycleVars, told>>

StopDispatch ==
    /\ phase = "stopping" /\ cycle = "sleep" /\ phase' = "stopped"
    /\ UNCHANGED <<brokerVars, store, seenIds, rows, reader, exposed, positionVars,
                   drainers, cycleVars, told>>

\* A callback reads positions() of a cache that is not loaded.
ReadPositions ==
    /\ phase \in ReadPhases /\ ~loaded /\ reader.at = "none"
    /\ reader' = [at |-> "store", rows |-> executed]
    /\ exposed' = exposed \cup (executed \ appliedIds)
    /\ UNCHANGED <<brokerVars, store, seenIds, phase, rows, positionVars, drainers,
                   cycleVars, told>>

StoreRead ==
    /\ reader.at = "store"
    /\ position' = Counted(reader.rows) /\ loaded' = TRUE /\ reader' = NoReader
    /\ UNCHANGED <<brokerVars, store, seenIds, phase, rows, exposed, appliedIds,
                   drainers, cycleVars, told>>

-----------------------------------------------------------------------------
(* drain_events, by the dispatch thread and by the recovery thread *)

Move(d, at) == drainers' = [drainers EXCEPT ![d] = [@ EXCEPT !.at = at]]

\* Where a thread is once its batch is gone through.
Rest(last) == IF last THEN "ended" ELSE "idle"

\* A variant for checking: the dispatch thread does not drain once more.
DrainNoLast(d) ==
    /\ drainers[d].at = "idle" /\ store # <<>>
    /\ IF d = "recovery" THEN cycle = "drain" ELSE phase # "stopped"
    /\ drainers' = [drainers EXCEPT ![d] = [AtRest EXCEPT !.batch = store,
                                                        !.at = "apply"]]
    /\ store' = <<>>
    /\ UNCHANGED <<brokerVars, seenIds, baseVars, positionVars, told, cycleVars>>

\* Under the lock: take the whole queue.  The dispatch thread drains once more
\* when it is told to stop.
Drain(d) ==
    /\ drainers[d].at = "idle"
    /\ d = "recovery" => cycle = "drain"
    /\ LET last == d = "dispatch" /\ phase = "stopped" IN
       drainers' = [drainers EXCEPT ![d] = [AtRest EXCEPT
                       !.batch = store, !.last = last,
                       !.at = IF store = <<>> THEN Rest(last) ELSE "apply"]]
    /\ store' = <<>>
    /\ cycle' = IF d = "recovery" /\ store = <<>> THEN "sleep" ELSE cycle
    /\ UNCHANGED <<brokerVars, seenIds, baseVars, positionVars, told, replay>>

\* The wrapped state update: a trade applied before changes nothing; apply_fill
\* of a loaded cache reads the position it is going to add to ...
ReadPosition(d) ==
    /\ drainers[d].at = "apply"
    /\ LET t == Head(drainers[d].batch) IN
       IF t \notin appliedIds /\ loaded
       THEN /\ drainers' = [drainers EXCEPT ![d] = [@ EXCEPT !.at = "write",
                                                             !.copy = position]]
            /\ UNCHANGED appliedIds
       ELSE Move(d, "tell") /\ appliedIds' = appliedIds \cup {t}
    /\ UNCHANGED <<brokerVars, store, seenIds, baseVars, loaded, position, cycleVars,
                   told>>

\* ... and stores the sum, whatever the other thread has stored meanwhile.
WritePosition(d) ==
    /\ drainers[d].at = "write"
    /\ LET t == Head(drainers[d].batch) IN
       /\ position' = [drainers[d].copy EXCEPT ![t] = @ + 1]
       /\ appliedIds' = appliedIds \cup {t}
    /\ drainers' = [drainers EXCEPT ![d] = [@ EXCEPT !.at = "tell",
                                                     !.copy = AtRest.copy]]
    /\ UNCHANGED <<brokerVars, store, seenIds, baseVars, loaded, cycleVars, told>>

\* on_trade, then the next event of the batch; an exception stays inside.
OnTrade(d) ==
    /\ drainers[d].at = "tell"
    /\ LET t == Head(drainers[d].batch)
           rest == Tail(drainers[d].batch) IN
       /\ told' = [told EXCEPT ![t] = @ + 1]
       /\ drainers' = [drainers EXCEPT ![d] = [@ EXCEPT !.batch = rest,
                           !.at = IF rest = <<>> THEN Rest(drainers[d].last)
                                  ELSE "apply"]]
       /\ cycle' = IF d = "recovery" /\ rest = <<>> THEN "sleep" ELSE cycle
    /\ UNCHANGED <<brokerVars, store, seenIds, baseVars, positionVars, replay>>

DrainStep(d) == Drain(d) \/ ReadPosition(d) \/ WritePosition(d) \/ OnTrade(d)

-----------------------------------------------------------------------------
(* The recovery thread's cycle: run_cycle *)

Stage(from, to) ==
    /\ cycle = from /\ cycle' = to
    /\ UNCHANGED <<brokerVars, store, seenIds, baseVars, positionVars, drainers,
                   told, replay>>

\* The second of sleep is over.
WakeUp == phase \notin {"stopping", "stopped"} /\ Stage("sleep", "trades")

\* sync_today_trades, once the base line is complete: every trade of the day
\* goes through queue_event.  Before that none does, nor when the heartbeat,
\* the reconnection or the query raises, nor, in strict mode, that of the open
\* orders.
SkipTrades == Stage("trades", "drain")

SyncTodayTrades ==
    /\ cycle = "trades" /\ phase \in {"done", "stopping"}
    /\ replay' = executed /\ cycle' = "replay"
    /\ UNCHANGED <<brokerVars, store, seenIds, baseVars, positionVars, drainers,
                   told>>

ReplayTrade(t) ==
    /\ cycle = "replay" /\ t \in replay
    /\ store' = Queued(t) /\ seenIds' = seenIds \cup {t}
    /\ replay' = replay \ {t}
    /\ UNCHANGED <<brokerVars, baseVars, positionVars, drainers, cycle, told>>

ReplayDone == replay = {} /\ Stage("replay", "drain")

CycleStep ==
    \/ WakeUp \/ SkipTrades \/ SyncTodayTrades
    \/ (\E t \in Trades : ReplayTrade(t)) \/ ReplayDone

EventsNext ==
    \/ \E t \in Trades : ExecuteTrade(t) \/ PushTrade(t)
    \/ BaselineStep \/ StopSession \/ StopDispatch
    \/ ReadPositions \/ StoreRead
    \/ \E d \in Drainers : DrainStep(d)
    \/ CycleStep

\* The threads run, and the broker answers each query again and again; trades
\* need not happen, need not be pushed, and no callback has to read positions.
EventsFairness ==
    /\ WF_eventVars(BaselineStep) /\ WF_eventVars(StopDispatch)
    /\ WF_eventVars(StoreRead)
    /\ \A d \in Drainers : WF_eventVars(DrainStep(d))
    /\ WF_eventVars(CycleStep)
    /\ SF_eventVars(SyncTodayTrades)

EventsSpec == EventsInit /\ [][EventsNext]_eventVars /\ EventsFairness

-----------------------------------------------------------------------------
(* Properties *)

\* The session implements TradeFeed: on_trade is called at most once for a
\* trade, whether it is pushed twice, pushed and replayed, or replayed in every
\* cycle, and whichever thread drains it (broker_event_bridge.py, queue_event).
Feed == INSTANCE TradeFeed
TradesToldOnce == Feed!FeedSpec

\* The cached position never counts a trade twice, by the positions read at the
\* start and by the trade's own event, except the trades whose event was on its
\* way when positions were read (live/_runner.py, _baseline_broker_state;
\* broker_state_cache.py, apply_fill).  It may miss a trade: what one thread adds
\* is lost when the other, or a load, stores over it.
CountedAtMostOnce == \A t \in Trades \ exposed : position[t] <= 1

\* A trade executed after the base line reaches the strategy in the end, also
\* when the broker never pushes it (broker_recovery.py, run_cycle), unless the
\* session is stopped; and a trade that is queued by then still reaches it
\* (live/_runner.py, _broker_dispatch_loop's last drain).
Unqueued(t) ==
    phase \in {"stopping", "stopped"} /\ t \notin Stored \cup InHand
TradesReachStrategy ==
    \A t \in Trades :
        (\/ t \in late /\ phase = "done"
         \/ t \in Stored /\ phase \in {"done", "stopping"}) ~>
            (told[t] = 1 \/ Unqueued(t))
=============================================================================
