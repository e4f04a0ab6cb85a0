----------------------------- MODULE SignalQueue ------------------------------
(***************************************************************************)
(* QueueSignalSource (signal/sources/queue.py): producers put signals in a *)
(* queue, one consumer thread takes and dispatches them, and the session   *)
(* starts and stops it.  stop waits 2 seconds for the consumer and goes on *)
(* without it, so that a consumer still inside dispatch outlives its stop  *)
(* and a later start runs a second one beside it.                          *)
(***************************************************************************)
EXTENDS Naturals, Sequences, FiniteSets

CONSTANTS
    QueueSizes,   \* values of the queue's maxsize; 0: unbounded
    MaxPuts,      \* bound: signals put, numbered 1..MaxPuts
    MaxStarts     \* bound: calls of start, one consumer thread each

ASSUME QueueBounds ==
    QueueSizes \subseteq Nat /\ MaxPuts \in Nat /\ MaxStarts \in Nat

VARIABLES
    maxsize,      \* what the source was built with
    queue,        \* _queue: signals, and Sentinel
    stopped,      \* _stopped
    thread,       \* _thread: the consumer start made last; 0: None
    consumers,    \* where each consumer is: "none" before it is started
    taken,        \* the signal each consumer is dispatching; 0: none
    caller,       \* where the session's call of start or stop is
    puts,         \* signals put so far
    dispatched    \* signals handed to dispatch, in order

queueVars == <<maxsize, queue, stopped, thread, consumers, taken, caller, puts,
               dispatched>>

Sentinel == 0
Consumers == 1..MaxStarts
Started == {c \in Consumers : consumers[c] # "none"}

QueueInit ==
    /\ maxsize \in QueueSizes
    /\ queue = <<>> /\ stopped = FALSE /\ thread = 0
    /\ consumers = [c \in Consumers |-> "none"]
    /\ taken = [c \in Consumers |-> 0]
    /\ caller = "idle" /\ puts = 0 /\ dispatched = <<>>

-----------------------------------------------------------------------------
HasRoom == maxsize = 0 \/ Len(queue) < maxsize

\* put: blocks while the queue is full.
PutSignal ==
    /\ puts < MaxPuts /\ HasRoom
    /\ puts' = puts + 1
    /\ queue' = Append(queue, puts')
    /\ UNCHANGED <<maxsize, stopped, thread, consumers, taken, caller, dispatched>>

\* A variant for checking: start makes a new queue.
StartQueueAfresh ==
    /\ caller = "idle" /\ thread = 0 /\ Cardinality(Started) < MaxStarts
    /\ stopped' = FALSE /\ queue' = <<>>
    /\ thread' = Cardinality(Started) + 1
    /\ consumers' = [consumers EXCEPT ![thread'] = "test"]
    /\ UNCHANGED <<maxsize, taken, caller, puts, dispatched>>

\* start: nothing while a thread is set, otherwise a new consumer.
StartQueue ==
    /\ caller = "idle" /\ thread = 0 /\ Cardinality(Started) < MaxStarts
    /\ stopped' = FALSE
    /\ thread' = Cardinality(Started) + 1
    /\ consumers' = [consumers EXCEPT ![thread'] = "test"]
    /\ UNCHANGED <<maxsize, queue, taken, caller, puts, dispatched>>

\* stop: set the flag ...
StopQueue ==
    /\ caller = "idle" /\ thread # 0
    /\ stopped' = TRUE /\ caller' = "sentinel"
    /\ UNCHANGED <<maxsize, queue, thread, consumers, taken, puts, dispatched>>

\* A variant for checking: stop wakes nobody.
JoinWithoutSentinel ==
    /\ caller = "sentinel" /\ caller' = "join"
    /\ UNCHANGED <<maxsize, queue, stopped, thread, consumers, taken, puts,
                   dispatched>>

\* ... put the sentinel that wakes a consumer waiting in get ...
PutSentinel ==
    /\ caller = "sentinel" /\ HasRoom
    /\ queue' = Append(queue, Sentinel) /\ caller' = "join"
    /\ UNCHANGED <<maxsize, stopped, thread, consumers, taken, puts, dispatched>>

\* ... and join it, or give up after 2 seconds.
JoinConsumer ==
    /\ caller = "join"
    /\ thread' = 0 /\ caller' = "idle"
    /\ UNCHANGED <<maxsize, queue, stopped, consumers, taken, puts, dispatched>>

\* The consumer's loop: test the flag, get an item, dispatch it.
TestStopped(c) ==
    /\ consumers[c] = "test"
    /\ consumers' = [consumers EXCEPT ![c] = IF stopped THEN "exited" ELSE "get"]
    /\ UNCHANGED <<maxsize, queue, stopped, thread, taken, caller, puts, dispatched>>

GetItem(c) ==
    /\ consumers[c] = "get" /\ queue # <<>>
    /\ queue' = Tail(queue)
    /\ taken' = [taken EXCEPT ![c] = Head(queue)]
    /\ consumers' = [consumers EXCEPT
                        ![c] = IF Head(queue) = Sentinel THEN "exited" ELSE "dispatch"]
    /\ UNCHANGED <<maxsize, stopped, thread, caller, puts, dispatched>>

DispatchItem(c) ==
    /\ consumers[c] = "dispatch"
    /\ dispatched' = Append(dispatched, taken[c])
    /\ taken' = [taken EXCEPT ![c] = 0]
    /\ consumers' = [consumers EXCEPT ![c] = "test"]
    /\ UNCHANGED <<maxsize, queue, stopped, thread, caller, puts>>

ConsumerStep(c) == TestStopped(c) \/ GetItem(c) \/ DispatchItem(c)

QueueNext ==
    \/ PutSignal \/ StartQueue \/ StopQueue \/ PutSentinel \/ JoinConsumer
    \/ \E c \in Consumers : ConsumerStep(c)

\* Threads run; a blocked put or get goes on once it can.  Nobody has to put a
\* signal, start or stop.
QueueFairness ==
    /\ \A c \in Consumers : WF_queueVars(ConsumerStep(c))
    /\ WF_queueVars(PutSentinel) /\ WF_queueVars(JoinConsumer)

QueueSpec == QueueInit /\ [][QueueNext]_queueVars /\ QueueFairness

-----------------------------------------------------------------------------
(* Properties *)

\* Signals in hand: taken from the queue and not yet dispatched.
TakenSignals == {taken[c] : c \in Consumers} \ {0}
QueuedSignals == {queue[i] : i \in DOMAIN queue} \ {Sentinel}
HandedOn == {dispatched[i] : i \in DOMAIN dispatched}

\* A signal put is in the queue, in one consumer's hand or dispatched, once:
\* stopping and starting again loses and repeats none (queue.py, _consume).
NoSignalLost ==
    /\ QueuedSignals \cup TakenSignals \cup HandedOn = 1..puts
    /\ Len(dispatched) = Cardinality(HandedOn)
    /\ QueuedSignals \cap HandedOn = {} /\ TakenSignals \cap (QueuedSignals \cup HandedOn) = {}

\* With an unbounded queue, the default, a stop returns, and once the source
\* stays stopped every consumer exits, also one that outlived an earlier stop:
\* each finds the flag or a sentinel (queue.py, stop and _consume).  A bounded
\* queue that is full when its consumer exits holds stop in put for ever.
StopEnds ==
    maxsize = 0 =>
        /\ caller # "idle" ~> caller = "idle"
        /\ <>[]stopped => <>[](\A c \in Started : consumers[c] = "exited")
=============================================================================
