----------------------------- MODULE MCComponents -----------------------------
(***************************************************************************)
(* Five components on small instances: the dispatch of signals, the legs   *)
(* and client order ids of a submission, the bracket orders, the grid      *)
(* search, and the framework hooks.  They share no variable, and a         *)
(* behaviour runs one of them, which the initial state chooses: the states *)
(* are the sum of the parts' states.                                       *)
(***************************************************************************)
EXTENDS SignalDispatch, OrderSubmission, LiveOrders, GridSearch, StrategyHooks

CONSTANTS none, s1, s2, w1, w2, c1, b1, h1, h2, p1, p2, p3, a1, a2

MCSignalIds == {s1, s2}
MCWorkers == {w1, w2}
MCHandlers == {h1, h2}

\* A broker that can split; positions: none, one of unknown day, one of each.
MCCapabilities == {[details |-> TRUE, splits |-> TRUE, opens |-> TRUE,
                    autoReverse |-> FALSE]}
Available(a, t, y) == [known |-> TRUE, held |-> 2, tells |-> TRUE,
                       available |-> a, today |-> t, yesterday |-> y]
MCAnswers == {[Available(0, 0, 0) EXCEPT !.known = FALSE],
              Available(1, 0, 0), Available(0, 1, 1)}

\* Three combinations, and a narrower grid of two of them.
MCCombos == {p1, p2, p3}
MCGrids == {{p1, p2}, MCCombos}
MCStrategies == {"strategy"}
MCDataSets == {1}
MCRequest == [strategy |-> "strategy", data |-> 1, grid |-> MCCombos, saves |-> TRUE]

\* Bars at one time or at several, of one symbol or two, on dates that follow
\* each other or not, at midnight (12, 24) or in the day, in the session (8, 9,
\* 11, 15) or not.
Bar(t, s) == [at |-> t, symbol |-> s]
MCFeeds == {{Bar(9, a1), Bar(9, a2), Bar(11, a1), Bar(16, a1)},
            {Bar(8, a1), Bar(12, a1), Bar(24, a1), Bar(24, a2)},
            {Bar(8, a1), Bar(10, a1), Bar(10, a2), Bar(15, a2)}}
MCSettings == SettingType
MCDailyTimes == {{}, {1}}

\* A list with ticks, or a DataFeed: the run does not enumerate its days.
MCOneFeed == {{Bar(9, a1)}}
MCUnknownDays == {s \in SettingType : ~s.indexed}

VARIABLE part

vars == <<part, dispatchVars, submissionVars, orderVars, searchVars, hooksVars>>

\* The hooks' variables in the behaviours of the other parts.
NoRun ==
    /\ feed = {} /\ start = 0 /\ setting = CHOOSE x \in MCSettings : TRUE
    /\ ahead = {} /\ timers = {} /\ asked = {} /\ now = 0
    /\ hooks = <<>> /\ told = <<>> /\ stage = "stopped"

Init ==
    /\ part \in {"dispatch", "submission", "brackets", "search", "hooks"}
    /\ DispatchInit /\ SubmissionInit /\ OrdersInit /\ SearchInit
    /\ part # "dispatch" => sink = "paper"
    /\ request = MCRequest
    /\ IF part = "hooks" THEN HooksInit ELSE NoRun

Runs(p) == part = p /\ UNCHANGED part

OnlyDispatch == Runs("dispatch") /\ UNCHANGED <<submissionVars, orderVars, searchVars, hooksVars>>
OnlySubmission == Runs("submission") /\ UNCHANGED <<dispatchVars, orderVars, searchVars, hooksVars>>
OnlyBrackets == Runs("brackets") /\ UNCHANGED <<dispatchVars, submissionVars, searchVars, hooksVars>>
OnlySearch == Runs("search") /\ UNCHANGED <<dispatchVars, submissionVars, orderVars, hooksVars>>
OnlyHooks == Runs("hooks") /\ UNCHANGED <<dispatchVars, submissionVars, orderVars, searchVars>>

Next ==
    \/ DispatchNext /\ OnlyDispatch
    \/ SubmissionNext /\ OnlySubmission
    \/ OrdersNext /\ OnlyBrackets
    \/ SearchNext /\ OnlySearch
    \/ HooksNext /\ OnlyHooks

\* Without trading days a daily timer fires without end: a run of its own.
InitDaysKnown == Init /\ (asked = {} \/ setting.indexed)
InitHooks == Init /\ part = "hooks"
InitBrackets == Init /\ part = "brackets"

Spec == InitDaysKnown /\ [][Next]_vars

UnknownDaysSpec == InitHooks /\ [][Next]_vars

BracketsSpec == InitBrackets /\ [][Next]_vars
=============================================================================
