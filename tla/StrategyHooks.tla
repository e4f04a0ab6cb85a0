----------------------------- MODULE StrategyHooks -----------------------------
(***************************************************************************)
(* The framework hooks of a strategy in a backtest: on_pre_open,           *)
(* on_before_trading, on_cross_section and on_after_trading around the     *)
(* bars of each date (strategy_framework_hooks.py, strategy_events.py,     *)
(* strategy_scheduler.py).  Some are called by timers that the backtest    *)
(* derives from its data before the loop starts, some by whichever event   *)
(* comes next; fields that hold the date a hook was last called for keep   *)
(* one from being called by both.                                          *)
(*                                                                         *)
(* Time is counted in slots, Width of them to a date; the first slot of a  *)
(* date is its midnight.  The strategy overrides every hook, has no        *)
(* warm-up count, and asks for timers in on_start.                         *)
(***************************************************************************)
EXTENDS Naturals, Sequences, FiniteSets, FiniteSetsExt

CONSTANTS
    Width,        \* slots of a date
    OpenSlots,    \* slots of the regular session, where sessions are enforced
    Feeds,        \* sets of bars [at, symbol] a run may be given
    Starts,       \* active_start_time_ns: what precedes it only fills the history
    Settings,     \* configurations of a run, see SettingType
    DailyTimes,   \* sets of slots that on_start may pass to schedule_daily
    NextDaily,    \* where the wall clock puts a daily timer: after all data
    NoSymbol

SettingType ==
    [precise   : BOOLEAN,   \* enable_precise_day_boundary_hooks
     indexed   : BOOLEAN,   \* the data could be enumerated: days and bounds are known
     enforced  : BOOLEAN,   \* sessions of a calendar, not force_session_continuous
     continues : BOOLEAN]   \* error_mode "continue"

ASSUME WidthAssumption == Width \in Nat \ {0}
ASSUME SettingsAssumption == Settings \subseteq SettingType

VARIABLES
    feed, start, setting,   \* what the run was given
    ahead,      \* bars to come
    timers,     \* the engine's heap of timers
    asked,      \* daily timers of on_start that wait for a context
    now,        \* ctx.current_time of the last event
    hooks,      \* the _framework_ fields of the strategy
    told,       \* the callbacks so far
    stage       \* "run", "raised" or "stopped"

hooksVars == <<feed, start, setting, ahead, timers, asked, now, hooks, told,
               stage>>

DateOf(t) == t \div Width
NoDate == 0

\* Bars are finitely many, and those of different dates are further apart than the
\* two nanoseconds between the timer that follows a date and the one that precedes
\* the next.
ASSUME FeedsAssumption ==
    \A f \in Feeds :
        /\ IsFiniteSet(f)
        /\ \A b \in f : b.at \in Nat /\ DateOf(b.at) # NoDate
        /\ \A b, c \in f :
              b.at < c.at /\ DateOf(b.at) # DateOf(c.at) => b.at + 2 < c.at
ASSUME StartsAssumption == Starts \subseteq Nat

\* With a daily timer at midnight, no bar is the last nanosecond of its date.
ASSUME DailyAssumption ==
    /\ \A slots \in DailyTimes :
          /\ slots \subseteq 0 .. Width - 1
          /\ 0 \in slots =>
                \A f \in Feeds : \A b \in f : DateOf(b.at + 1) = DateOf(b.at)
    /\ NextDaily \in Nat
    /\ \A f \in Feeds : \A b \in f : b.at < NextDaily

Symbols == {b.symbol : b \in feed}
Dates == {DateOf(b.at) : b \in feed}
TimesOn(d) == {t \in {b.at : b \in feed} : DateOf(t) = d}
FirstBar(d) == Min(TimesOn(d))
LastBar(d) == Max(TimesOn(d))
Times(d, s) == {b.at : b \in {c \in feed : c.symbol = s /\ DateOf(c.at) = d}}

\* When every symbol that trades on d has had its first bar of d.
Slice(d) == Max({Min(Times(d, s)) : s \in {x \in Symbols : Times(d, x) # {}}})

Precise == setting.precise /\ setting.indexed
Normal(t) == setting.enforced => t % Width \in OpenSlots

Timer(t, h, d) == [at |-> t, hook |-> h, date |-> d]

\* A variant for checking: on_pre_open at the first bar's time.
FrameworkTimersLate ==
    {Timer(FirstBar(d), "pre_open", d) : d \in Dates}
    \cup {Timer(FirstBar(d), "before", d) : d \in IF Precise THEN Dates ELSE {}}
    \cup {Timer(LastBar(d) + 1, "after", d) : d \in Dates}
    \cup {Timer(Slice(d) + 1, "cross", d) : d \in Dates}

\* A variant for checking: no end-of-day timer by default.
FrameworkTimersLazy ==
    {Timer(FirstBar(d) - 1, "pre_open", d) : d \in Dates}
    \cup {Timer(FirstBar(d), "before", d) : d \in IF Precise THEN Dates ELSE {}}
    \cup {Timer(LastBar(d) + 1, "after", d) : d \in IF Precise THEN Dates ELSE {}}
    \cup {Timer(Slice(d) + 1, "cross", d) : d \in Dates}

\* The timers that are primed from the data before the loop starts.
FrameworkTimers ==
    {Timer(FirstBar(d) - 1, "pre_open", d) : d \in Dates}
    \cup {Timer(FirstBar(d), "before", d) : d \in IF Precise THEN Dates ELSE {}}
    \cup {Timer(LastBar(d) + 1, "after", d) : d \in Dates}
    \cup {Timer(Slice(d) + 1, "cross", d) : d \in Dates}

HooksInit ==
    /\ feed \in Feeds /\ start \in Starts /\ setting \in Settings
    /\ ahead = feed
    /\ timers = IF setting.indexed THEN FrameworkTimers ELSE {}
    /\ asked \in DailyTimes
    /\ hooks = [last |-> NoDate,
                done |-> [h \in {"pre_open", "before", "cross", "after"} |-> NoDate]]
    /\ now = 0 /\ told = <<>> /\ stage = "run"

-----------------------------------------------------------------------------
(* A strategy while it handles one event: its hook fields, its callbacks,  *)
(* the time it is told, the callback of this event that raises (0: none)   *)
(* and whether an exception left the handler.                              *)

Handling(t, n) == [hooks |-> hooks, told |-> told, now |-> t, raiseIn |-> n, failed |-> FALSE]

\* call_user_callback, and the mark that the callers of a hook leave after it.
\* An exception that is not passed on counts as a call that returned.
Calling(s, h, d, y) ==
    LET returns == s.raiseIn # 1 \/ setting.continues
    IN  IF s.failed THEN s
        ELSE [s EXCEPT
                !.told = Append(@, [hook |-> h, date |-> d, symbol |-> y, at |-> s.now,
                                    returned |-> returns]),
                !.hooks.done = [x \in DOMAIN @ |-> IF x = h /\ returns THEN d ELSE @[x]],
                !.raiseIn = IF @ > 0 THEN @ - 1 ELSE 0,
                !.failed = ~returns]

Hook(s, h, d) == IF s.hooks.done[h] = d THEN s ELSE Calling(s, h, d, NoSymbol)

\* Of a date that has begun and not ended: on_after_trading.
End(s, d) ==
    IF d # NoDate /\ s.hooks.done.before = d THEN Hook(s, "after", d) ELSE s

\* dispatch_time_hooks: the end of the last date, the begin and the end of this
\* one, unless boundary timers own them.
TimeHooks(s, t) ==
    LET d == DateOf(s.now)
        rolled == IF s.hooks.last \in {NoDate, d} THEN s ELSE End(s, s.hooks.last)
        passed == IF Precise THEN s
                  ELSE IF Normal(t) THEN Hook(rolled, "before", d)
                  ELSE End(rolled, d)
    IN  IF passed.failed THEN passed ELSE [passed EXCEPT !.hooks.last = d]

\* The handler of an event at time t leaves the strategy as s.
Handled(s) ==
    /\ now' = s.now /\ hooks' = s.hooks /\ told' = s.told
    /\ stage' = IF s.failed THEN "raised" ELSE "run"

\* Preload: the event is not shown to the strategy.
Unseen(t) ==
    /\ now' = t
    /\ UNCHANGED <<hooks, told, stage>>

\* flush_pending_schedules: a daily timer goes to each trading day, whatever the
\* time is, or to the wall clock's next one when no trading days are known.
DailyTimers(slots) ==
    IF setting.indexed THEN {Timer(d * Width + x, "timer", d) : d \in Dates, x \in slots}
    ELSE {Timer(NextDaily, "timer", DateOf(NextDaily)) : x \in slots}

\* Nothing is earlier than t: a timer goes before a bar of its time.
NoBarBefore(t) == \A b \in ahead : t <= b.at
NoTimerUpTo(t) == \A x \in timers : t < x.at

\* A bar, after flush_pending_schedules; bars of one time come in any order.
BarEvent(b, n) ==
    /\ stage = "run" /\ NoBarBefore(b.at) /\ NoTimerUpTo(b.at)
    /\ ahead' = ahead \ {b}
    /\ timers' = timers \cup DailyTimers(asked) /\ asked' = {}
    /\ IF b.at < start THEN n = 0 /\ Unseen(b.at)
       ELSE LET s == TimeHooks(Handling(b.at, n), b.at)
            IN  Handled(Calling(s, "bar", DateOf(b.at), b.symbol))
    /\ UNCHANGED <<feed, start, setting>>

\* context_timestamp: timers after a bar are shown the time of that bar.
TimeShown(x) == IF x.hook \in {"after", "cross"} THEN x.at - 1 ELSE x.at

\* on_timer of a daily timer without trading days registers the next one.
Again(x, s) ==
    IF x.hook = "timer" /\ ~setting.indexed /\ ~s.failed THEN {x} ELSE {}

TimerEvent(x, n) ==
    /\ stage = "run" /\ NoBarBefore(x.at) /\ \A y \in timers : x.at <= y.at
    /\ asked' = {}
    /\ IF TimeShown(x) < start
       THEN /\ n = 0 /\ Unseen(TimeShown(x))
            /\ timers' = (timers \ {x}) \cup DailyTimers(asked)
       ELSE LET s == TimeHooks(Handling(TimeShown(x), n), x.at)
                e == IF x.hook = "timer" THEN Calling(s, "timer", x.date, NoSymbol)
                     ELSE Hook(s, x.hook, x.date)
            IN  /\ Handled(e)
                /\ timers' = (timers \ {x}) \cup DailyTimers(asked) \cup Again(x, e)
    /\ UNCHANGED <<feed, start, setting, ahead>>

\* The loop ended or an exception left it: _on_stop_internal, which calls the end
\* of a date that has begun.
Stop(n) ==
    /\ \/ stage = "raised"
       \/ stage = "run" /\ ahead = {} /\ timers = {}
    /\ stage' = "stopped"
    /\ LET s == End(Handling(now, n), hooks.done.before)
       IN  hooks' = s.hooks /\ told' = s.told
    /\ UNCHANGED <<feed, start, setting, ahead, timers, asked, now>>

\* A handler calls three callbacks at most.
HooksNext == \E n \in 0..3 :
    \/ \E b \in ahead : BarEvent(b, n)
    \/ \E x \in timers : TimerEvent(x, n)
    \/ Stop(n)

HooksSpec == HooksInit /\ [][HooksNext]_hooksVars

-----------------------------------------------------------------------------
(* Properties *)

Is(i, h, d) == told[i].hook = h /\ told[i].date = d
Calls(h, d) == {i \in DOMAIN told : Is(i, h, d)}
Completed(h, d) == Cardinality({i \in Calls(h, d) : told[i].returned})
NothingRaised == \A i \in DOMAIN told : told[i].returned

\* Dates that begin in the active time of the run.
ActiveDates == {d \in Dates : FirstBar(d) >= start}

\* When the dates of the data are known, on_pre_open is called before the first
\* bar of a date, and at an earlier time, so that an order it submits is older than
\* the bar it is to be filled on (strategy_framework_hooks.py:235).  A date whose
\* first bar is stamped with the start of the run itself is left out: its timer
\* falls before the start.
PreOpenBeforeBars ==
    setting.indexed =>
        \A d \in ActiveDates, j \in DOMAIN told :
            Is(j, "bar", d) /\ FirstBar(d) > start =>
                \E i \in Calls("pre_open", d) : i < j /\ told[i].at < FirstBar(d)

\* No later date of the data lies outside the session as a whole.  After such a
\* one the stop calls on_after_trading again for the date before it
\* (strategy_framework_hooks.py:782): the end-of-day timer of a date that never
\* began has overwritten the only date the guard remembers.
InSession(d) == \E t \in TimesOn(d) : Normal(t)
Followed(d) == Precise \/ \A e \in Dates : e > d => InSession(e)

HooksOnce ==
    \A d \in ActiveDates : \A h \in DOMAIN hooks.done :
        (h = "after" => Followed(d)) => Completed(h, d) <= 1

BarsWithinDay ==
    \A d \in ActiveDates : \A j \in Calls("bar", d) :
        /\ \E i \in Calls("before", d) : i < j
        /\ \A i \in Calls("after", d) : j < i

CrossAfterSlice ==
    \A d \in ActiveDates : \A j \in Calls("cross", d) :
        \A s \in {x \in Symbols : Times(d, x) # {}} :
            \E i \in Calls("bar", d) : i < j /\ told[i].symbol = s

AfterOnItsDate ==
    setting.indexed =>
        \A d \in {x \in ActiveDates : Followed(x)} : \A i \in Calls("after", d) :
            DateOf(told[i].at) = d

DaysComplete ==
    stage = "stopped" /\ NothingRaised =>
        \A d \in ActiveDates :
            /\ Completed("before", d) = 1 /\ Completed("after", d) = 1
            /\ setting.indexed => Completed("cross", d) = 1

\* Timers, events and the stop call the hooks of a date: each of them once, also
\* when an exception ends the run; on_cross_section after the first bar of every
\* symbol; with sessions that are not enforced, all bars between on_before_trading
\* and on_after_trading, and none left out by a run that ends well; and
\* on_after_trading on its own date, where its orders are stamped with it, when
\* dates are known (strategy_framework_hooks.py:46).  A date with a later one
\* outside the session is left out of the last, and may end twice: see Followed.
DaysInOrder ==
    /\ HooksOnce /\ CrossAfterSlice /\ AfterOnItsDate
    /\ ~setting.enforced => BarsWithinDay /\ DaysComplete

\* "Register a daily timer task (fires every trading day)"
\* (docs/en/reference/api.md:960): it does not fire twice on one.
DailyTimerOncePerDate ==
    \A i, j \in DOMAIN told :
        told[i].hook = "timer" /\ Is(j, "timer", told[i].date) => i = j
=============================================================================
