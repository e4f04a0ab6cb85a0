---------------------------- MODULE SignalDispatch ----------------------------
(***************************************************************************)
(* External signals turned into orders (signal/dispatcher.py, dedup.py,    *)
(* sinks.py) while several source threads call dispatch at once, as the    *)
(* HTTP source's request threads do (sources/http.py).  A platform sends a *)
(* signal again when it was answered with an error, or when an answer was  *)
(* lost; the set of seen ids is bounded and forgets the oldest.            *)
(***************************************************************************)
EXTENDS Naturals, FiniteSets, SequencesExt

CONSTANTS
    Signals,      \* signal ids
    Workers,      \* threads that call dispatch
    NoSignal,     \* job of an idle worker
    Capacity,     \* SignalDedup's capacity; 0: unbounded
    MaxSends      \* bound: deliveries of one signal

ASSUME DispatchCapacity == Capacity \in Nat /\ MaxSends \in Nat
ASSUME DispatchNoSignal == NoSignal \notin Signals
ASSUME DispatchWorkers == IsFiniteSet(Workers)

VARIABLES
    sink,         \* "paper": PaperOrderSink, "broker": BrokerOrderSink
    seen,         \* SignalDedup._seen: ids, the one seen longest ago first
    evicted,      \* SignalDedup._evicted
    byOrder,      \* SignalDispatcher._by_order: orders whose signal is stored
    jobs,         \* what each worker is doing
    placed,       \* per signal, how many of its orders reached the venue
    refused,      \* orders the engine refused after it had taken them
    answers,      \* per signal, the results handed to on_result
    sends         \* per signal, its deliveries so far

dispatchVars == <<sink, seen, evicted, byOrder, jobs, placed, refused, answers,
                  sends>>

Results == {"accepted", "rejected", "duplicate", "error"}
Places == {"idle", "check", "submit", "store", "forget", "finish"}

\* order: which order of its signal the worker has placed.
Idle == [at |-> "idle", signal |-> NoSignal, result |-> "error", order |-> 0]

\* The n-th order of signal s is <<s, n>>; the engine gives it a fresh id.
Orders == {o \in Signals \X (1..MaxSends) : o[2] <= placed[o[1]]}
SignalOf(o) == o[1]

DispatchInit ==
    /\ sink \in {"paper", "broker"}
    /\ seen = <<>> /\ evicted = 0 /\ byOrder = {}
    /\ jobs = [w \in Workers |-> Idle]
    /\ placed = [s \in Signals |-> 0]
    /\ refused = {}
    /\ answers = [s \in Signals |-> {}]
    /\ sends = [s \in Signals |-> 0]

-----------------------------------------------------------------------------
Holds(q, s) == \E i \in DOMAIN q : q[i] = s
Without(q, s) ==
    IF Holds(q, s) THEN RemoveAt(q, CHOOSE i \in DOMAIN q : q[i] = s) ELSE q

\* A source thread receives a signal: a first delivery or a repeated one.
Deliver(w, s) ==
    /\ jobs[w].at = "idle" /\ sends[s] < MaxSends
    /\ sends' = [sends EXCEPT ![s] = @ + 1]
    /\ jobs' = [jobs EXCEPT ![w] = [at |-> "check", signal |-> s,
                                    result |-> "error", order |-> 0]]
    /\ UNCHANGED <<sink, seen, evicted, byOrder, placed, refused, answers>>

Goto(w, at, result) ==
    jobs' = [jobs EXCEPT ![w] = [@ EXCEPT !.at = at, !.result = result]]

\* check_and_mark of an id already seen: it becomes the newest.
Duplicate(w) ==
    LET s == jobs[w].signal IN
    /\ jobs[w].at = "check" /\ Holds(seen, s)
    /\ seen' = Append(Without(seen, s), s)
    /\ Goto(w, "finish", "duplicate")
    /\ UNCHANGED <<sink, evicted, byOrder, placed, refused, answers, sends>>

\* check_and_mark of a new id: mark it, and forget the oldest beyond capacity.
FirstSeen(w) ==
    LET s == jobs[w].signal
        full == Capacity > 0 /\ Len(seen) >= Capacity IN
    /\ jobs[w].at = "check" /\ ~Holds(seen, s)
    /\ seen' = IF full THEN Tail(Append(seen, s)) ELSE Append(seen, s)
    /\ evicted' = IF full THEN evicted + 1 ELSE evicted
    /\ Goto(w, "submit", "error")
    /\ UNCHANGED <<sink, byOrder, placed, refused, answers, sends>>

\* sink.submit returns an order id: the order is on its way.
SubmitAccepted(w) ==
    LET s == jobs[w].signal IN
    /\ jobs[w].at = "submit"
    /\ placed' = [placed EXCEPT ![s] = @ + 1]
    /\ jobs' = [jobs EXCEPT ![w] = [@ EXCEPT !.at = "store", !.result = "accepted",
                                             !.order = placed[s] + 1]]
    /\ UNCHANGED <<sink, seen, evicted, byOrder, refused, answers, sends>>

\* A variant for checking: an order without id takes the mark back.
SubmitEmptyForgetting(w) ==
    LET s == jobs[w].signal IN
    /\ jobs[w].at = "submit" /\ sink = "broker"
    /\ placed' \in {placed, [placed EXCEPT ![s] = @ + 1]}
    /\ seen' = Without(seen, s)
    /\ Goto(w, "finish", "rejected")
    /\ UNCHANGED <<sink, evicted, byOrder, refused, answers, sends>>

\* BrokerOrderSink.submit returns no id: the risk check or the venue refused
\* the order, or its state is unknown and it may have reached the venue.
SubmitEmpty(w) ==
    LET s == jobs[w].signal IN
    /\ jobs[w].at = "submit" /\ sink = "broker"
    /\ placed' \in {placed, [placed EXCEPT ![s] = @ + 1]}
    /\ Goto(w, "finish", "rejected")
    /\ UNCHANGED <<sink, seen, evicted, byOrder, refused, answers, sends>>

\* sink.submit raises, before anything is sent.
SubmitRaises(w) ==
    /\ jobs[w].at = "submit"
    /\ Goto(w, "forget", "error")
    /\ UNCHANGED <<sink, seen, evicted, byOrder, placed, refused, answers, sends>>

\* A variant for checking: the mark stays.
ForgetNothing(w) ==
    /\ jobs[w].at = "forget" /\ Goto(w, "finish", "error")
    /\ UNCHANGED <<sink, seen, evicted, byOrder, placed, refused, answers, sends>>

\* dispatch takes the mark back, so that the platform may send again.
Forget(w) ==
    /\ jobs[w].at = "forget"
    /\ seen' = Without(seen, jobs[w].signal)
    /\ Goto(w, "finish", "error")
    /\ UNCHANGED <<sink, evicted, byOrder, placed, refused, answers, sends>>

\* dispatch stores which signal the order came from, after the submission.
StoreOrder(w) ==
    /\ jobs[w].at = "store"
    /\ byOrder' = byOrder \cup {<<jobs[w].signal, jobs[w].order>>}
    /\ Goto(w, "finish", "accepted")
    /\ UNCHANGED <<sink, seen, evicted, placed, refused, answers, sends>>

Tell(s, result) == [answers EXCEPT ![s] = @ \cup {result}]

\* _finish hands the result to the source's on_result.
Finish(w) ==
    /\ jobs[w].at = "finish"
    /\ answers' = Tell(jobs[w].signal, jobs[w].result)
    /\ jobs' = [jobs EXCEPT ![w] = Idle]
    /\ UNCHANGED <<sink, seen, evicted, byOrder, placed, refused, sends>>

\* A variant for checking: handle_reject without the tag.
FoundById(o) == o \in byOrder

\* handle_reject finds an order's signal by its id, or by the tag it carries.
SignalFound(o) == o \in byOrder \/ sink = "paper"

\* The engine refuses an order it has taken and calls on_reject, which calls
\* handle_reject, on its own thread: before or after StoreOrder.
HandleReject(o) ==
    /\ sink = "paper" /\ o \in Orders \ refused
    /\ refused' = refused \cup {o}
    /\ answers' = IF SignalFound(o) THEN Tell(SignalOf(o), "rejected") ELSE answers
    /\ UNCHANGED <<sink, seen, evicted, byOrder, jobs, placed, sends>>

DispatchStep(w) ==
    \/ Duplicate(w) \/ FirstSeen(w)
    \/ SubmitAccepted(w) \/ SubmitEmpty(w) \/ SubmitRaises(w)
    \/ Forget(w) \/ StoreOrder(w) \/ Finish(w)

DispatchNext ==
    \/ \E w \in Workers, s \in Signals : Deliver(w, s)
    \/ \E w \in Workers : DispatchStep(w)
    \/ \E o \in Signals \X (1..MaxSends) : HandleReject(o)

\* Source threads keep running: dispatch never blocks.
DispatchFairness == \A w \in Workers : WF_dispatchVars(DispatchStep(w))

DispatchSpec == DispatchInit /\ [][DispatchNext]_dispatchVars /\ DispatchFairness

-----------------------------------------------------------------------------
(* Properties *)

\* State variables hold values of their types.
DispatchTypeOK ==
    /\ sink \in {"paper", "broker"}
    /\ seen \in Seq(Signals) /\ evicted \in Nat
    /\ byOrder \subseteq Signals \X Nat /\ refused \subseteq Signals \X Nat
    /\ jobs \in [Workers -> [at : Places, signal : Signals \cup {NoSignal},
                             result : Results, order : Nat]]
    /\ \A w \in Workers : jobs[w].at # "idle" => jobs[w].signal \in Signals
    /\ placed \in [Signals -> Nat] /\ sends \in [Signals -> Nat]
    /\ answers \in [Signals -> SUBSET Results]

\* A signal delivered again, by whatever thread and after whatever failure of
\* an earlier delivery, trades again only if the bounded set of seen ids has
\* forgotten an id meanwhile (dedup.py, check_and_mark and forget).
OneOrderPerSignal == \A s \in Signals : placed[s] <= evicted + 1

\* A signal the dedup would refuse, and that nobody works on, has an order or
\* was told rejected: a failed submission does not leave its mark behind
\* (dispatcher.py, the except branch of dispatch).
MarkedIsAnswered ==
    \A s \in Signals :
        (Holds(seen, s) /\ \A w \in Workers : jobs[w].signal # s) =>
            placed[s] > 0 \/ "rejected" \in answers[s]

\* The source of an order the engine refuses learns it, also when the refusal
\* comes before dispatch has stored whose order it is (dispatcher.py, line 88,
\* and handle_reject).
RefusalReachesSource == \A o \in refused : "rejected" \in answers[SignalOf(o)]
=============================================================================
