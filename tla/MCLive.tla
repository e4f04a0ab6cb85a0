------------------------------- MODULE MCLive --------------------------------
(***************************************************************************)
(* What comes into a live session, on small instances: signals from a      *)
(* queue and from a stream, and the broker's trades.  The three parts      *)
(* share no variable, and a behaviour runs one of them, which the initial  *)
(* state chooses: the states are the sum of the parts' states.             *)
(***************************************************************************)
EXTENDS SignalQueue, SignalStream, LiveEvents

CONSTANTS t1, t2

MCTrades == {t1, t2}

VARIABLE part

vars == <<part, queueVars, streamVars, eventVars>>

Init ==
    /\ part \in {"queue", "stream", "events"}
    /\ QueueInit /\ StreamInit /\ EventsInit
    /\ part # "queue" => maxsize = 0

Runs(p) == part = p /\ UNCHANGED part

OnlyQueue == Runs("queue") /\ UNCHANGED <<streamVars, eventVars>>
OnlyStream == Runs("stream") /\ UNCHANGED <<queueVars, eventVars>>
OnlyEvents == Runs("events") /\ UNCHANGED <<queueVars, streamVars>>

Next ==
    \/ QueueNext /\ OnlyQueue
    \/ StreamNext /\ OnlyStream
    \/ EventsNext /\ OnlyEvents

\* The parts' own fairness; that of a part that does not run asks nothing.
Fairness ==
    /\ \A c \in Consumers : WF_vars(ConsumerStep(c) /\ OnlyQueue)
    /\ WF_vars(PutSentinel /\ OnlyQueue) /\ WF_vars(JoinConsumer /\ OnlyQueue)
    /\ WF_vars(StreamStep /\ OnlyStream) /\ SF_vars(ReadBatch /\ OnlyStream)
    /\ WF_vars(StartStream /\ OnlyStream)
    /\ WF_vars(BaselineStep /\ OnlyEvents) /\ WF_vars(StopDispatch /\ OnlyEvents)
    /\ WF_vars(StoreRead /\ OnlyEvents)
    /\ \A d \in Drainers : WF_vars(DrainStep(d) /\ OnlyEvents)
    /\ WF_vars(CycleStep /\ OnlyEvents)
    /\ SF_vars(SyncTodayTrades /\ OnlyEvents)

Spec == Init /\ [][Next]_vars /\ Fairness
=============================================================================
