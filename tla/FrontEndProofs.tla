----------------------------- MODULE FrontEndProofs -----------------------------
(***************************************************************************)
(* Two parts of the Python front end that share nothing.                   *)
(*                                                                         *)
(* Of GridSearch: a search that returns answers each combination once, and *)
(* a combination is backtested again only for a result that was lost, for  *)
(* every grid, number of workers, order of completion and number of        *)
(* failures.                                                               *)
(*                                                                         *)
(* Of StrategyHooks: the hooks of a date are called once and in order, for *)
(* all data, settings and starts, any daily timers and any callback that   *)
(* raises.                                                                 *)
(***************************************************************************)
EXTENDS GridSearch, StrategyHooks, FiniteSetTheorems, SequenceTheorems,
        NaturalsInduction, WellFoundedInduction, TLAPS

(***************************************************************************)
(* The search.                                                             *)
(***************************************************************************)

Phases == {"idle", "submit", "collect", "returned", "raised"}
Places == {"none", "todo", "queued", "running", "done", "broken", "taken", "answered"}

SearchTypeOK ==
    /\ db \in [Combos -> StoredRows \cup {NoRow}]
    /\ phase \in Phases
    /\ request \in Requests
    /\ existing \subseteq Combos
    /\ task \in [Combos -> Places]
    /\ results \in [Combos -> Nat]
    /\ ran \in [Combos -> Nat]
    /\ unsaved \in [Combos -> Nat]
    /\ blind \in Nat

\* Outside of a search nothing is under way, and while it submits its tasks no
\* result is taken.
AtRest ==
    \A c \in Combos :
        /\ phase \notin {"submit", "collect"} => task[c] \in {"none", "answered"}
        /\ phase = "submit" => task[c] # "taken"

\* A combination of the grid is a task unless the table answered it, and a task
\* has one result from the moment its future is taken.
OneResult ==
    phase \in {"submit", "collect", "returned"} =>
        \A c \in Combos :
            /\ c \in request.grid => (task[c] = "none" <=> c \in existing)
            /\ results[c] = IF task[c] \in {"taken", "answered"} THEN 1 ELSE 0

\* A run more than the stored and the lost results is a result on its way to the
\* table; a task whose row is there already belongs to a blind search, which has
\* its run in advance.
OneStrategy == \E s \in Strategies : Strategies = {s}

Ahead(c) == IF db[c] # NoRow /\ task[c] \in {"todo", "queued", "running"} THEN 1 ELSE 0
Row(c) == IF db[c] # NoRow THEN 1 ELSE 0
OnItsWay(c) == IF db[c] = NoRow /\ task[c] \in {"done", "taken"} THEN 1 ELSE 0

RunsAccounted ==
    OneStrategy => \A c \in Combos :
        ran[c] + Ahead(c) <= Row(c) + OnItsWay(c) + unsaved[c] + blind

SearchInv == SearchTypeOK /\ AtRest /\ OneResult /\ RunsAccounted

-----------------------------------------------------------------------------
\* What a combination's counter becomes.
LEMMA CountedOne ==
    ASSUME NEW f \in [Combos -> Nat], NEW S
    PROVE  /\ Counted(f, S) \in [Combos -> Nat]
           /\ \A c \in Combos : Counted(f, S)[c] = IF c \in S THEN f[c] + 1 ELSE f[c]
BY DEF Counted

\* In selects the combinations by the place of their task.
LEMMA InPlace ==
    ASSUME NEW c \in Combos, NEW states
    PROVE  c \in In(states) <=> task[c] \in states
BY DEF In

\* No search has run: nothing is counted.
LEMMA SearchInitIInv == SearchInit => SearchInv
<1> SUFFICES ASSUME SearchInit PROVE SearchInv OBVIOUS
<1> USE DEF SearchInit, Uncounted
<1>1. SearchTypeOK BY DEF SearchTypeOK, Phases, Places
<1>2. AtRest /\ OneResult BY DEF AtRest, OneResult
<1>3. RunsAccounted BY DEF RunsAccounted, Ahead, Row, OnItsWay
<1> QED BY <1>1, <1>2, <1>3 DEF SearchInv

-----------------------------------------------------------------------------
\* The call of run_grid_search, with or without the table.
LEMMA StartSearchIInv ==
    ASSUME SearchInv, NEW r \in Requests, StartSearch(r)
    PROVE  SearchInv'
<1> USE DEF SearchInv
<1> DEFINE Todo == [c \in Combos |-> IF c \in r.grid \ existing' THEN "todo" ELSE "none"]
<1>1. task' = Todo /\ request' = r /\ phase' = "submit" /\ results' = Uncounted
      /\ UNCHANGED <<db, ran, unsaved>>
  BY DEF StartSearch
<1>2. existing' \subseteq Combos /\ blind' \in Nat
  BY DEF StartSearch, RowsOf, SearchTypeOK
<1>3. SearchTypeOK'
  BY <1>1, <1>2 DEF SearchTypeOK, Phases, Places, Uncounted
<1>4. AtRest' /\ OneResult'
  BY <1>1, <1>2 DEF AtRest, OneResult, Uncounted
<1>5. ASSUME OneStrategy, NEW c \in Combos
      PROVE  ran'[c] + Ahead(c)' <= Row(c)' + OnItsWay(c)' + unsaved'[c] + blind'
  <2>1. task[c] \in {"none", "answered"} BY DEF StartSearch, AtRest
  <2>2. /\ ran[c] <= Row(c) + unsaved[c] + blind
        /\ ran[c] \in Nat /\ unsaved[c] \in Nat /\ blind \in Nat
    BY <1>5, <2>1 DEF RunsAccounted, Ahead, OnItsWay, Row, SearchTypeOK
  <2>3. OnItsWay(c)' = 0 /\ Row(c)' = Row(c) /\ Row(c) \in Nat
    BY <1>1 DEF OnItsWay, Row
  <2>4. Ahead(c)' = 0 \/ (Ahead(c)' = 1 /\ db[c] # NoRow /\ c \notin existing')
    BY <1>1 DEF Ahead
  <2>5. CASE r.saves /\ existing' = RowsOf(r.strategy) /\ UNCHANGED blind
    <3>1. db[c] # NoRow => c \in existing'
      <4> HAVE db[c] # NoRow
      <4>1. db[c] \in StoredRows BY DEF SearchTypeOK
      <4>2. db[c].strategy = r.strategy BY <1>5, <4>1 DEF OneStrategy, StoredRows, Requests
      <4> QED BY <2>5, <4>2 DEF RowsOf
    <3> QED BY <1>1, <2>2, <2>3, <2>4, <2>5, <3>1
  <2>6. CASE existing' = {} /\ blind' = blind + 1
    BY <1>1, <2>2, <2>3, <2>4, <2>6
  <2> QED BY <2>5, <2>6 DEF StartSearch
<1>6. RunsAccounted' BY <1>5 DEF RunsAccounted, OneStrategy
<1> QED BY <1>3, <1>4, <1>6

\* A step that moves one task, and counts neither a run nor a loss.
LEMMA TaskMoves ==
    ASSUME SearchInv, NEW c \in Combos, NEW p \in Places,
           task' = [task EXCEPT ![c] = p],
           \/ task[c] = "todo" /\ p \in {"queued", "running"}
           \/ task[c] = "queued" /\ p = "running",
           UNCHANGED <<db, phase, request, existing, results, ran, unsaved, blind>>
    PROVE  SearchInv'
<1> USE DEF SearchInv
<1>1. SearchTypeOK' BY DEF SearchTypeOK
<1>2. AtRest' /\ OneResult' BY DEF AtRest, OneResult, SearchTypeOK
<1>3. \A d \in Combos : Ahead(d)' = Ahead(d) /\ OnItsWay(d)' = OnItsWay(d) /\ Row(d)' = Row(d)
  BY DEF Ahead, OnItsWay, Row, SearchTypeOK
<1>4. RunsAccounted' BY <1>3 DEF RunsAccounted, OneStrategy
<1> QED BY <1>1, <1>2, <1>4

\* The backtest ends: the run that a blind search had in advance, or a result on
\* its way to the table.
LEMMA FinishTaskIInv ==
    ASSUME SearchInv, NEW c \in Combos, FinishTask(c)
    PROVE  SearchInv'
<1> USE DEF SearchInv
<1>0. /\ task[c] = "running" /\ task' = [task EXCEPT ![c] = "done"]
      /\ ran' = Counted(ran, {c})
      /\ UNCHANGED <<db, phase, request, existing, results, unsaved, blind>>
  BY DEF FinishTask
<1>a. /\ ran' \in [Combos -> Nat]
      /\ \A d \in Combos : ran'[d] = IF d = c THEN ran[d] + 1 ELSE ran[d]
  BY <1>0, CountedOne DEF SearchTypeOK
<1>1. SearchTypeOK' BY <1>0, <1>a DEF SearchTypeOK, Places
<1>2. AtRest' /\ OneResult' BY <1>0 DEF AtRest, OneResult, SearchTypeOK
<1>3. ASSUME OneStrategy, NEW d \in Combos
      PROVE  ran'[d] + Ahead(d)' <= Row(d)' + OnItsWay(d)' + unsaved'[d] + blind'
  <2>1. /\ ran[d] + Ahead(d) <= Row(d) + OnItsWay(d) + unsaved[d] + blind
        /\ ran[d] \in Nat /\ unsaved[d] \in Nat /\ blind \in Nat
    BY <1>3 DEF RunsAccounted, SearchTypeOK
  <2>2. CASE d = c
    BY <1>0, <1>a, <2>1, <2>2 DEF Ahead, Row, OnItsWay, SearchTypeOK
  <2>3. CASE d # c
    BY <1>0, <1>a, <2>1, <2>3 DEF Ahead, Row, OnItsWay, SearchTypeOK
  <2> QED BY <2>2, <2>3
<1>4. RunsAccounted' BY <1>3 DEF RunsAccounted, OneStrategy
<1> QED BY <1>1, <1>2, <1>4

\* The pool breaks: tasks that have not run lose what they had in advance.
LEMMA BreakPoolIInv ==
    ASSUME SearchInv, BreakPool
    PROVE  SearchInv'
<1> USE DEF SearchInv
<1>0. /\ task' = [d \in Combos |->
                    IF task[d] \in {"queued", "running"} THEN "broken" ELSE task[d]]
      /\ UNCHANGED <<db, phase, request, existing, results, ran, unsaved, blind>>
  BY DEF BreakPool
<1>1. SearchTypeOK' BY <1>0 DEF SearchTypeOK, Places
<1>2. AtRest' /\ OneResult' BY <1>0 DEF AtRest, OneResult, SearchTypeOK
<1>3. ASSUME OneStrategy, NEW d \in Combos
      PROVE  ran'[d] + Ahead(d)' <= Row(d)' + OnItsWay(d)' + unsaved'[d] + blind'
  <2>1. /\ ran[d] + Ahead(d) <= Row(d) + OnItsWay(d) + unsaved[d] + blind
        /\ ran[d] \in Nat /\ unsaved[d] \in Nat /\ blind \in Nat
    BY <1>3 DEF RunsAccounted, SearchTypeOK
  <2> QED BY <1>0, <2>1 DEF Ahead, Row, OnItsWay, SearchTypeOK
<1>4. RunsAccounted' BY <1>3 DEF RunsAccounted, OneStrategy
<1> QED BY <1>1, <1>2, <1>4

\* A result is taken: once, since its task is not taken again.
LEMMA CollectIInv ==
    ASSUME SearchInv, NEW c \in Combos, Collect(c)
    PROVE  SearchInv'
<1> USE DEF SearchInv
<1> DEFINE p == IF task[c] = "done" THEN "taken" ELSE "answered"
<1>0. /\ task[c] \in {"done", "broken"} /\ task' = [task EXCEPT ![c] = p]
      /\ results' = Counted(results, {c}) /\ phase = "collect"
      /\ UNCHANGED <<db, phase, request, existing, ran, unsaved, blind>>
  BY DEF Collect
<1>a. /\ results' \in [Combos -> Nat]
      /\ \A d \in Combos : results'[d] = IF d = c THEN results[d] + 1 ELSE results[d]
  BY <1>0, CountedOne DEF SearchTypeOK
<1>1. SearchTypeOK' BY <1>0, <1>a DEF SearchTypeOK, Places
<1>2. AtRest' BY <1>0 DEF AtRest
<1>3. ASSUME NEW d \in Combos
      PROVE  /\ d \in request'.grid => (task'[d] = "none" <=> d \in existing')
             /\ results'[d] = IF task'[d] \in {"taken", "answered"} THEN 1 ELSE 0
  <2>1. CASE d = c
    <3>1. results[c] = 0 /\ (c \in request.grid => c \notin existing)
      BY <1>0 DEF OneResult
    <3>2. task'[c] \in {"taken", "answered"} BY <1>0 DEF SearchTypeOK
    <3>3. results'[c] = 1 BY <1>a, <3>1
    <3> QED BY <1>0, <2>1, <3>1, <3>2, <3>3
  <2>2. CASE d # c BY <1>0, <1>a, <2>2 DEF OneResult, SearchTypeOK
  <2> QED BY <2>1, <2>2
<1>4. \A d \in Combos : Ahead(d)' = Ahead(d) /\ OnItsWay(d)' = OnItsWay(d) /\ Row(d)' = Row(d)
  BY <1>0 DEF Ahead, OnItsWay, Row, SearchTypeOK
<1>5. RunsAccounted' BY <1>0, <1>4 DEF RunsAccounted, OneStrategy
<1> QED BY <1>1, <1>2, <1>3, <1>5 DEF OneResult

\* The result reaches the table, or is lost.
LEMMA SaveIInv ==
    ASSUME SearchInv, NEW c \in Combos, Save(c)
    PROVE  SearchInv'
<1> USE DEF SearchInv
<1>0. /\ task[c] = "taken" /\ task' = [task EXCEPT ![c] = "answered"]
      /\ UNCHANGED <<phase, request, existing, results, ran, blind>>
  BY DEF Save
<1>a. \/ db' = Stored(c) /\ UNCHANGED unsaved
      \/ unsaved' = Counted(unsaved, {c}) /\ UNCHANGED db
  BY DEF Save
<1> DEFINE row == [strategy |-> request.strategy, data |-> request.data]
<1>b. row \in StoredRows /\ row # NoRow
  BY NoRowAssumption DEF SearchTypeOK, Requests, StoredRows
<1>c. CASE db' = Stored(c) /\ UNCHANGED unsaved
  <2>1. db' = [db EXCEPT ![c] = IF db[c] = NoRow THEN row ELSE db[c]]
    BY <1>c DEF Stored
  <2>2. db' \in [Combos -> StoredRows \cup {NoRow}] /\ db'[c] # NoRow
        /\ \A d \in Combos \ {c} : db'[d] = db[d]
    BY <1>b, <2>1 DEF SearchTypeOK
  <2>3. SearchTypeOK' BY <1>0, <1>c, <2>2 DEF SearchTypeOK, Places
  <2>4. AtRest' /\ OneResult' BY <1>0 DEF AtRest, OneResult, SearchTypeOK
  <2>5. ASSUME OneStrategy, NEW d \in Combos
        PROVE  ran'[d] + Ahead(d)' <= Row(d)' + OnItsWay(d)' + unsaved'[d] + blind'
    <3>1. /\ ran[d] + Ahead(d) <= Row(d) + OnItsWay(d) + unsaved[d] + blind
          /\ ran[d] \in Nat /\ unsaved[d] \in Nat /\ blind \in Nat
      BY <2>5 DEF RunsAccounted, SearchTypeOK
    <3>2. CASE d = c BY <1>0, <1>c, <2>2, <3>1, <3>2 DEF Ahead, Row, OnItsWay, SearchTypeOK
    <3>3. CASE d # c BY <1>0, <1>c, <2>2, <3>1, <3>3 DEF Ahead, Row, OnItsWay, SearchTypeOK
    <3> QED BY <3>2, <3>3
  <2>6. RunsAccounted' BY <2>5 DEF RunsAccounted, OneStrategy
  <2> QED BY <2>3, <2>4, <2>6
<1>d. CASE unsaved' = Counted(unsaved, {c}) /\ UNCHANGED db
  <2>2. /\ unsaved' \in [Combos -> Nat]
        /\ \A d \in Combos : unsaved'[d] = IF d = c THEN unsaved[d] + 1 ELSE unsaved[d]
    BY <1>d, CountedOne DEF SearchTypeOK
  <2>3. SearchTypeOK' BY <1>0, <1>d, <2>2 DEF SearchTypeOK, Places
  <2>4. AtRest' /\ OneResult' BY <1>0 DEF AtRest, OneResult, SearchTypeOK
  <2>5. ASSUME OneStrategy, NEW d \in Combos
        PROVE  ran'[d] + Ahead(d)' <= Row(d)' + OnItsWay(d)' + unsaved'[d] + blind'
    <3>1. /\ ran[d] + Ahead(d) <= Row(d) + OnItsWay(d) + unsaved[d] + blind
          /\ ran[d] \in Nat /\ unsaved[d] \in Nat /\ blind \in Nat
      BY <2>5 DEF RunsAccounted, SearchTypeOK
    <3>2. CASE d = c
      <4>1. ran[c] <= Row(c) + 1 + unsaved[c] + blind /\ Row(c) \in Nat
        BY <1>0, <3>1, <3>2 DEF Ahead, Row, OnItsWay
      <4>2. Ahead(c)' = 0 /\ Row(c)' = Row(c) /\ OnItsWay(c)' = 0
        BY <1>0, <1>d DEF Ahead, Row, OnItsWay, SearchTypeOK
      <4>3. unsaved'[c] = unsaved[c] + 1 /\ ran'[c] = ran[c] /\ blind' = blind
        BY <1>0, <2>2
      <4> QED BY <3>1, <3>2, <4>1, <4>2, <4>3
    <3>3. CASE d # c BY <1>0, <1>d, <2>2, <3>1, <3>3 DEF Ahead, Row, OnItsWay, SearchTypeOK
    <3> QED BY <3>2, <3>3
  <2>6. RunsAccounted' BY <2>5 DEF RunsAccounted, OneStrategy
  <2> QED BY <2>3, <2>4, <2>6
<1> QED BY <1>a, <1>c, <1>d

\* A search ends early: results that were not in the table are lost.
LEMMA AbandonIInv ==
    ASSUME SearchInv, NEW p \in Phases \ {"submit", "collect", "returned"}, phase' = p,
           task' = [d \in Combos |-> "none"],
           NEW lost, unsaved' = Counted(unsaved, lost),
           \A d \in Combos : task[d] \in {"done", "taken"} => d \in lost,
           UNCHANGED <<db, request, existing, results, ran, blind>>
    PROVE  SearchInv'
<1> USE DEF SearchInv
<1>a. /\ unsaved' \in [Combos -> Nat]
      /\ \A d \in Combos : unsaved'[d] = IF d \in lost THEN unsaved[d] + 1 ELSE unsaved[d]
  BY CountedOne DEF SearchTypeOK
<1>1. SearchTypeOK' BY <1>a DEF SearchTypeOK, Places
<1>2. AtRest' /\ OneResult' BY DEF AtRest, OneResult, Phases
<1>3. ASSUME OneStrategy, NEW d \in Combos
      PROVE  ran'[d] + Ahead(d)' <= Row(d)' + OnItsWay(d)' + unsaved'[d] + blind'
  <2>1. /\ ran[d] + Ahead(d) <= Row(d) + OnItsWay(d) + unsaved[d] + blind
        /\ ran[d] \in Nat /\ unsaved[d] \in Nat /\ blind \in Nat
    BY <1>3 DEF RunsAccounted, SearchTypeOK
  <2>2. CASE d \in lost
    BY <1>a, <2>1, <2>2 DEF Ahead, Row, OnItsWay, SearchTypeOK
  <2>3. CASE d \notin lost
    BY <1>a, <2>1, <2>3 DEF Ahead, Row, OnItsWay, SearchTypeOK
  <2> QED BY <2>2, <2>3
<1>4. RunsAccounted' BY <1>3 DEF RunsAccounted, OneStrategy
<1> QED BY <1>1, <1>2, <1>4

\* submit raises while no result is taken: what is done is lost.
LEMMA SubmitOnBrokenIInv ==
    ASSUME SearchInv, SubmitOnBroken
    PROVE  SearchInv'
<1>1. \A d \in Combos : task[d] \in {"done", "taken"} => d \in In({"done"})
  BY InPlace DEF SubmitOnBroken, SearchInv, AtRest
<1>2. "raised" \in Phases \ {"submit", "collect", "returned"} BY DEF Phases
<1> QED BY <1>1, <1>2, AbandonIInv DEF SubmitOnBroken

\* The main process dies.
LEMMA KillIInv ==
    ASSUME SearchInv, Kill
    PROVE  SearchInv'
<1>1. \A d \in Combos : task[d] \in {"done", "taken"} => d \in In({"done", "taken"})
  BY InPlace
<1>2. "idle" \in Phases \ {"submit", "collect", "returned"} BY DEF Phases
<1> QED BY <1>1, <1>2, AbandonIInv DEF Kill

\* Between submitting and collecting only the phase changes.
LEMMA AllSubmittedIInv ==
    ASSUME SearchInv, AllSubmitted
    PROVE  SearchInv'
<1> USE DEF SearchInv, AllSubmitted
<1>1. SearchTypeOK' BY DEF SearchTypeOK, Phases
<1>2. AtRest' /\ OneResult' BY DEF AtRest, OneResult
<1>3. RunsAccounted' BY DEF RunsAccounted, OneStrategy, Ahead, Row, OnItsWay
<1> QED BY <1>1, <1>2, <1>3

\* The search returns when each of its tasks is answered.
LEMMA ReturnIInv ==
    ASSUME SearchInv, Return
    PROVE  SearchInv'
<1> USE DEF SearchInv
<1>0. phase = "collect" /\ phase' = "returned" /\ Asked = In({"answered"})
      /\ UNCHANGED <<db, request, existing, task, results, ran, unsaved, blind>>
  BY DEF Return
<1>1. SearchTypeOK' BY <1>0 DEF SearchTypeOK, Phases
<1>2. \A c \in Combos : task[c] \in {"none", "answered"}
  BY <1>0, InPlace DEF Asked, SearchTypeOK
<1>3. AtRest' /\ OneResult' BY <1>0, <1>2 DEF AtRest, OneResult
<1>4. RunsAccounted' BY <1>0 DEF RunsAccounted, OneStrategy, Ahead, Row, OnItsWay
<1> QED BY <1>1, <1>3, <1>4

\* A step that changes nothing.
LEMMA StutterIInv == SearchInv /\ UNCHANGED searchVars => SearchInv'
<1> SUFFICES ASSUME SearchInv, UNCHANGED searchVars PROVE SearchInv' OBVIOUS
<1> USE DEF SearchInv, searchVars
<1>1. SearchTypeOK' BY DEF SearchTypeOK
<1>2. AtRest' /\ OneResult' BY DEF AtRest, OneResult
<1>3. RunsAccounted' BY DEF RunsAccounted, OneStrategy, Ahead, Row, OnItsWay
<1> QED BY <1>1, <1>2, <1>3

\* Every step keeps the invariant.
LEMMA SearchNextIInv == SearchInv /\ [SearchNext]_searchVars => SearchInv'
<1> SUFFICES ASSUME SearchInv, [SearchNext]_searchVars PROVE SearchInv' OBVIOUS
<1>1. ASSUME NEW c \in Combos, Submit(c) PROVE SearchInv'
  <2>1. "queued" \in Places BY DEF Places
  <2> QED BY <1>1, <2>1, TaskMoves DEF Submit
<1>2. ASSUME NEW c \in Combos, StartTask(c) PROVE SearchInv'
  <2>1. "running" \in Places BY DEF Places
  <2> QED BY <1>2, <2>1, TaskMoves DEF StartTask
<1>3. ASSUME NEW c \in Combos, FinishTask(c) PROVE SearchInv' BY <1>3, FinishTaskIInv
<1>4. ASSUME NEW c \in Combos, Collect(c) PROVE SearchInv' BY <1>4, CollectIInv
<1>5. ASSUME NEW c \in Combos, Save(c) PROVE SearchInv' BY <1>5, SaveIInv
<1>6. ASSUME NEW r \in Requests, StartSearch(r) PROVE SearchInv' BY <1>6, StartSearchIInv
<1>7. CASE AllSubmitted BY <1>7, AllSubmittedIInv
<1>8. CASE SubmitOnBroken BY <1>8, SubmitOnBrokenIInv
<1>9. CASE BreakPool BY <1>9, BreakPoolIInv
<1>10. CASE Return BY <1>10, ReturnIInv
<1>11. CASE Kill BY <1>11, KillIInv
<1>12. CASE UNCHANGED searchVars BY <1>12, StutterIInv
<1> QED
  BY <1>1, <1>2, <1>3, <1>4, <1>5, <1>6, <1>7, <1>8, <1>9, <1>10, <1>11, <1>12
  DEF SearchNext, SearchStep

\* The inductive invariant.
THEOREM SearchInvariant == SearchSpec => []SearchInv
<1>1. SearchInit => SearchInv BY SearchInitIInv
<1>2. SearchInv /\ [SearchNext]_searchVars => SearchInv' BY SearchNextIInv
<1> QED BY <1>1, <1>2, PTL DEF SearchSpec

-----------------------------------------------------------------------------
\* A search that returns answers each combination of its grid once, whatever
\* failed on the way (optimize.py, run_grid_search).
THEOREM AnsweredOnceCorrect == SearchSpec => []AnsweredOnce
<1>1. SearchInv => AnsweredOnce
  <2> SUFFICES ASSUME SearchInv, phase = "returned", NEW c \in request.grid
               PROVE  IF c \in existing THEN results[c] = 0 ELSE results[c] = 1
    BY DEF AnsweredOnce
  <2>1. c \in Combos
    BY GridsAssumption DEF SearchInv, SearchTypeOK, Requests
  <2>2. task[c] \in {"none", "answered"} BY <2>1 DEF SearchInv, AtRest
  <2> QED BY <2>1, <2>2 DEF SearchInv, OneResult
<1> QED BY <1>1, SearchInvariant, PTL

\* A combination is backtested once more only for a result that was lost or a
\* search without the table (optimize.py, run_grid_search, _save_result_to_db).
THEOREM RunAgainOnlyIfUnsavedCorrect == SearchSpec => []RunAgainOnlyIfUnsaved
<1>1. SearchInv => RunAgainOnlyIfUnsaved
  <2> SUFFICES ASSUME SearchInv, OneStrategy, NEW c \in Combos
               PROVE  ran[c] <= 1 + unsaved[c] + blind
    BY DEF RunAgainOnlyIfUnsaved, OneStrategy
  <2>1. ran[c] + Ahead(c) <= Row(c) + OnItsWay(c) + unsaved[c] + blind
    BY DEF SearchInv, RunsAccounted
  <2>2. ran[c] \in Nat /\ unsaved[c] \in Nat /\ blind \in Nat
    BY DEF SearchInv, SearchTypeOK
  <2> QED BY <2>1, <2>2 DEF Ahead, Row, OnItsWay
<1> QED BY <1>1, SearchInvariant, PTL

-----------------------------------------------------------------------------
(***************************************************************************)
(* The hooks: arithmetic of slots and dates, least and greatest elements.  *)
(***************************************************************************)

\* Slots are counted from 0, Width of them to a date.
LEMMA DivMod ==
    ASSUME NEW t \in Nat
    PROVE  /\ DateOf(t) \in Nat
           /\ t % Width \in 0 .. Width - 1
           /\ t = DateOf(t) * Width + (t % Width)
BY WidthAssumption DEF DateOf

\* A later date starts where an earlier one has ended.
LEMMA MultMono ==
    ASSUME NEW a \in Nat, NEW b \in Nat, a < b
    PROVE  a * Width + Width <= b * Width
BY WidthAssumption

LEMMA MultNat == ASSUME NEW a \in Nat PROVE a * Width \in Nat
BY WidthAssumption

\* A later slot is of no earlier date.
LEMMA DateOrder ==
    ASSUME NEW s \in Nat, NEW t \in Nat, s <= t
    PROVE  DateOf(s) <= DateOf(t)
<1> DEFINE x == DateOf(s) 
           y == DateOf(t)
<1>1. x \in Nat /\ y \in Nat
  BY DivMod
<1>2. CASE y < x
  <2>1. y * Width + Width <= x * Width
    BY <1>1, <1>2, MultMono
  <2>2. x * Width \in Nat /\ y * Width \in Nat
    BY <1>1, MultNat
  <2>3. /\ s = x * Width + (s % Width) /\ s % Width \in 0 .. Width - 1
        /\ t = y * Width + (t % Width) /\ t % Width \in 0 .. Width - 1
    BY DivMod
  <2> HIDE DEF x, y
  <2> QED BY <2>1, <2>2, <2>3, WidthAssumption
<1> QED BY <1>1, <1>2

\* The slots of a date are of that date.
LEMMA SlotOfDate ==
    ASSUME NEW d \in Nat, NEW x \in 0 .. Width - 1
    PROVE  d * Width + x \in Nat /\ DateOf(d * Width + x) = d
<1> DEFINE t == d * Width + x
           e == DateOf(t)
<1>1. d * Width \in Nat /\ t \in Nat
  BY MultNat, WidthAssumption
<1>2. e \in Nat /\ t = e * Width + (t % Width) /\ t % Width \in 0 .. Width - 1 /\ e * Width \in Nat
  BY <1>1, DivMod, MultNat
<1>3. ~ (d < e)
  <2> SUFFICES ASSUME d < e PROVE FALSE
    OBVIOUS
  <2>1. d * Width + Width <= e * Width
    BY <1>2, MultMono
  <2> QED BY <2>1, <1>1, <1>2, WidthAssumption
<1>4. ~ (e < d)
  <2> SUFFICES ASSUME e < d PROVE FALSE
    OBVIOUS
  <2>1. e * Width + Width <= d * Width
    BY <1>2, MultMono
  <2> QED BY <2>1, <1>1, <1>2, WidthAssumption
<1> QED BY <1>1, <1>2, <1>3, <1>4

\* A set of numbers has a least one, and a finite one has a greatest.
LEMMA LeastElement ==
    ASSUME NEW T \in SUBSET Nat, T # {}
    PROVE  \E x \in T : \A y \in T : x <= y
<1>1. PICK x \in T : \A y \in T : ~ (<<y, x>> \in OpToRel(<, Nat))
  BY NatLessThanWellFounded, WFMin
<1>2. \A y \in T : ~ (y < x)
  BY <1>1 DEF OpToRel
<1> QED BY <1>2

\* Induction as a fact about sets.
LEMMA SetInduction ==
    ASSUME NEW S, 0 \in S, \A n \in Nat : n \in S => n + 1 \in S
    PROVE  Nat \subseteq S
<1> SUFFICES ASSUME Nat \ S # {} PROVE FALSE
  OBVIOUS
<1>1. PICK x \in Nat \ S : \A y \in Nat \ S : x <= y
  BY LeastElement
<1>2. x - 1 \in Nat /\ x - 1 \notin S => FALSE
  BY <1>1
<1> QED BY <1>1, <1>2

LEMMA GreatestElement ==
    ASSUME NEW T \in SUBSET Nat, T # {}, IsFiniteSet(T)
    PROVE  \E x \in T : \A y \in T : x >= y
<1> DEFINE Bounded == {n \in Nat : \A S \in SUBSET Nat :
                           IsFiniteSet(S) /\ Cardinality(S) = n /\ S # {} =>
                               \E x \in S : \A y \in S : x >= y}
<1>1. 0 \in Bounded
  BY FS_EmptySet
<1>2. ASSUME NEW n \in Nat, n \in Bounded PROVE n + 1 \in Bounded
  <2> SUFFICES ASSUME NEW S \in SUBSET Nat, IsFiniteSet(S), Cardinality(S) = n + 1, S # {}
               PROVE  \E x \in S : \A y \in S : x >= y
    OBVIOUS
  <2> PICK z \in S : TRUE
    OBVIOUS
  <2> DEFINE R == S \ {z}
  <2>1. IsFiniteSet(R) /\ Cardinality(R) = n
    <3>1. IsFiniteSet(S \ {z}) /\ Cardinality(S \ {z}) = Cardinality(S) - 1
      BY FS_RemoveElement
    <3> QED BY <3>1
  <2>2. CASE R = {}
    BY <2>2
  <2>3. CASE R # {}
    <3>1. PICK x \in R : \A y \in R : x >= y
      BY <1>2, <2>1, <2>3
    <3> QED BY <3>1
  <2> QED BY <2>2, <2>3
<1>3. Nat \subseteq Bounded
  <2> HIDE DEF Bounded
  <2> QED BY <1>1, <1>2, SetInduction
<1>4. Cardinality(T) \in Nat
  BY FS_CardinalityType
<1> QED BY <1>3, <1>4

\* What Min and Max choose.
LEMMA MinMax ==
    ASSUME NEW T \in SUBSET Nat, T # {}, IsFiniteSet(T)
    PROVE  /\ Min(T) \in T /\ \A y \in T : Min(T) <= y
           /\ Max(T) \in T /\ \A y \in T : y <= Max(T)
<1>1. Min(T) \in T /\ \A y \in T : Min(T) <= y
  BY LeastElement DEF Min
<1>2. Max(T) \in T /\ \A y \in T : Max(T) >= y
  BY GreatestElement DEF Max
<1> QED BY <1>1, <1>2

\* The data of a run, and the times that its timers are derived from.
LEMMA DataOfDate ==
    ASSUME feed \in Feeds, NEW d \in Dates
    PROVE  /\ d \in Nat /\ d # NoDate
           /\ TimesOn(d) \subseteq Nat
           /\ \A t \in TimesOn(d) : DateOf(t) = d /\ FirstBar(d) <= t /\ t <= LastBar(d)
           /\ FirstBar(d) \in TimesOn(d) /\ LastBar(d) \in TimesOn(d)
           /\ FirstBar(d) >= 1
           /\ Slice(d) \in TimesOn(d)
           /\ \A s \in Symbols : Times(d, s) # {} =>
                 Min(Times(d, s)) \in Times(d, s) /\ Min(Times(d, s)) <= Slice(d)
<1>1. IsFiniteSet(feed) /\ \A b \in feed : b.at \in Nat /\ DateOf(b.at) # NoDate
  BY FeedsAssumption
<1>2. PICK c \in feed : DateOf(c.at) = d
  BY DEF Dates
<1> DEFINE ats == {b.at : b \in feed}
<1>3. IsFiniteSet(ats)
  <2> DEFINE at == [b \in feed |-> b.at]
  <2>1. at \in Surjection(feed, ats)
    BY DEF Surjection
  <2> HIDE DEF at
  <2> QED BY <1>1, <2>1, FS_Surjection
<1>4. TimesOn(d) \subseteq Nat /\ IsFiniteSet(TimesOn(d)) /\ c.at \in TimesOn(d)
  BY <1>1, <1>2, <1>3, FS_Subset DEF TimesOn
<1>5. \A t \in TimesOn(d) : DateOf(t) = d
  BY DEF TimesOn
<1>6. /\ FirstBar(d) \in TimesOn(d) /\ LastBar(d) \in TimesOn(d)
      /\ \A t \in TimesOn(d) : FirstBar(d) <= t /\ t <= LastBar(d)
  BY <1>4, MinMax DEF FirstBar, LastBar
<1>7. FirstBar(d) >= 1
  <2>1. DateOf(0) = 0
    BY WidthAssumption, SlotOfDate, 0 * Width = 0, 0 + 0 = 0
  <2>2. FirstBar(d) \in Nat /\ DateOf(FirstBar(d)) # 0
    BY <1>1, <1>2, <1>4, <1>5, <1>6 DEF NoDate
  <2> QED BY <2>1, <2>2
<1>8. \A s \in Symbols : Times(d, s) \subseteq TimesOn(d) /\ IsFiniteSet(Times(d, s))
  <2>1. \A s \in Symbols : Times(d, s) \subseteq TimesOn(d)
    BY DEF Times, TimesOn
  <2> QED BY <2>1, <1>4, FS_Subset
<1>9. \A s \in Symbols : Times(d, s) # {} => Min(Times(d, s)) \in Times(d, s)
  <2> TAKE s \in Symbols
  <2>1. Times(d, s) \subseteq Nat /\ IsFiniteSet(Times(d, s))
    BY <1>4, <1>8
  <2> QED BY <2>1, MinMax
<1> DEFINE firsts == {Min(Times(d, s)) : s \in {x \in Symbols : Times(d, x) # {}}}
<1>10. firsts \subseteq TimesOn(d) /\ IsFiniteSet(firsts)
  <2>1. firsts \subseteq TimesOn(d)
    BY <1>8, <1>9
  <2> QED BY <2>1, <1>4, FS_Subset
<1>11. c.symbol \in Symbols /\ Times(d, c.symbol) # {}
  BY <1>2 DEF Symbols, Times
<1>12. firsts # {} /\ firsts \subseteq Nat
  BY <1>4, <1>10, <1>11
<1>13. Max(firsts) \in firsts /\ \A y \in firsts : y <= Max(firsts)
  <2> HIDE DEF firsts
  <2> QED BY <1>10, <1>12, MinMax
<1>14. Slice(d) = Max(firsts)
  BY DEF Slice
<1>15. \A s \in Symbols : Times(d, s) # {} => Min(Times(d, s)) <= Slice(d)
  BY <1>13, <1>14
<1>16. d \in Nat /\ d # NoDate
  BY <1>1, <1>2, DivMod
<1> QED BY <1>4, <1>5, <1>6, <1>7, <1>9, <1>10, <1>13, <1>14, <1>15, <1>16

-----------------------------------------------------------------------------
(***************************************************************************)
(* The inductive invariant of the hooks.                                   *)
(***************************************************************************)

HookNames == {"pre_open", "before", "cross", "after"}
AllSymbols == {NoSymbol} \cup {b.symbol : b \in UNION Feeds}

CallType ==
    [hook : HookNames \cup {"bar", "timer"}, date : Nat, symbol : AllSymbols, at : Nat,
     returned : BOOLEAN]

FieldsType == [last : Nat, done : [HookNames -> Nat]]

HandlingType ==
    [hooks : FieldsType, told : Seq(CallType), now : Nat, raiseIn : Nat, failed : BOOLEAN]

HooksTypeOK ==
    /\ feed \in Feeds /\ start \in Starts /\ setting \in Settings
    /\ ahead \subseteq feed
    /\ timers \subseteq [at : Nat, hook : HookNames \cup {"timer"}, date : Nat]
    /\ asked \in DailyTimes \cup {{}}
    /\ now \in Nat /\ hooks \in FieldsType /\ told \in Seq(CallType)
    /\ stage \in {"run", "raised", "stopped"}

-----------------------------------------------------------------------------
(* The properties, of any list of callbacks q.                             *)

CallsIn(q, h, d) == {i \in DOMAIN q : q[i].hook = h /\ q[i].date = d}
Called(q, h, d) == CallsIn(q, h, d) # {}
PreOpened(q, d) == \E i \in CallsIn(q, "pre_open", d) : q[i].at < FirstBar(d)
BarTold(q, d, y) == \E i \in CallsIn(q, "bar", d) : q[i].symbol = y
Traded(d) == {s \in Symbols : Times(d, s) # {}}

OnceIn(q) ==
    \A d \in ActiveDates : \A h \in HookNames :
        (h = "after" => Followed(d)) =>
            \A i, j \in CallsIn(q, h, d) : q[i].returned /\ q[j].returned => i = j

SliceIn(q) ==
    \A d \in ActiveDates : \A j \in CallsIn(q, "cross", d) : \A s \in Traded(d) :
        \E i \in CallsIn(q, "bar", d) : i < j /\ q[i].symbol = s

AfterIn(q) ==
    setting.indexed =>
        \A d \in ActiveDates : Followed(d) =>
            \A i \in CallsIn(q, "after", d) : DateOf(q[i].at) = d

BarsIn(q) ==
    ~setting.enforced =>
        \A d \in ActiveDates : \A j \in CallsIn(q, "bar", d) :
            /\ \E i \in CallsIn(q, "before", d) : i < j
            /\ \A i \in CallsIn(q, "after", d) : j < i

PreOpenIn(q) ==
    setting.indexed =>
        \A d \in ActiveDates : FirstBar(d) > start =>
            \A j \in CallsIn(q, "bar", d) :
                \E i \in CallsIn(q, "pre_open", d) : i < j /\ q[i].at < FirstBar(d)

Ordered(q) == OnceIn(q) /\ SliceIn(q) /\ AfterIn(q) /\ BarsIn(q) /\ PreOpenIn(q)

-----------------------------------------------------------------------------
(* The strategy, between two callbacks.                                    *)

\* A date that on_after_trading may be called for without on_before_trading.
NeverBegan(d) ==
    d \in Dates /\ (FirstBar(d) < start \/ (~Precise /\ ~InSession(d)))

Marked(k) == \A h \in HookNames : k.hooks.done[h] # NoDate => Called(k.told, h, k.hooks.done[h])

UpToDone(k) ==
    \A i \in DOMAIN k.told :
        k.told[i].hook \in {"before", "after"} /\ k.told[i].returned =>
            k.told[i].date <= k.hooks.done[k.told[i].hook]

EndedAhead(k) ==
    k.hooks.done.after > k.hooks.done.before => NeverBegan(k.hooks.done.after)

\* The date that the stop would end is today, has ended, or is none of the run's.
EndsToday(k) ==
    setting.indexed =>
        \/ k.hooks.done.before = DateOf(k.now)
        \/ k.hooks.done.before <= k.hooks.done.after
        \/ k.hooks.done.before \notin ActiveDates

NotLater(k) ==
    /\ k.hooks.done.before <= DateOf(k.now) /\ k.hooks.done.after <= DateOf(k.now)

FailedIn(k) == k.failed <=> \E i \in DOMAIN k.told : ~k.told[i].returned

Kept(k) ==
    /\ k \in HandlingType /\ Ordered(k.told) /\ Marked(k) /\ UpToDone(k)
    /\ EndedAhead(k) /\ EndsToday(k) /\ NotLater(k) /\ FailedIn(k)

\* Every date that began ended, but for the last.
BeginsEnd(k) ==
    \A i \in DOMAIN k.told : k.told[i].hook = "before" =>
        /\ k.told[i].date # NoDate
        /\ \/ k.told[i].date = k.hooks.done.before
           \/ Called(k.told, "after", k.told[i].date)

-----------------------------------------------------------------------------
(* The run, between two events.                                            *)

Current ==
    [hooks |-> hooks, told |-> told, now |-> now, raiseIn |-> 0, failed |-> stage = "raised"]

Upcoming ==
    /\ \A b \in ahead : hooks.last <= DateOf(b.at)
    /\ \A x \in timers : hooks.last <= DateOf(TimeShown(x))
    /\ hooks.done.before <= hooks.last /\ hooks.done.after <= hooks.last

AllTimers ==
    (IF setting.indexed THEN FrameworkTimers ELSE {})
        \cup UNION {DailyTimers(slots) : slots \in DailyTimes}

Sources ==
    /\ timers \subseteq AllTimers
    /\ asked # {} => ahead = feed

\* A timer that is gone was handled; one of two hooks that is not was not called.
Fired ==
    setting.indexed => \A d \in ActiveDates :
        /\ Timer(Slice(d) + 1, "cross", d) \in timers \/ Called(told, "cross", d)
        /\ \/ Timer(LastBar(d) + 1, "after", d) \in timers
           \/ Called(told, "after", d) /\ d <= hooks.done.after
        /\ Precise => \/ Timer(FirstBar(d), "before", d) \in timers
                      \/ Called(told, "before", d) /\ d <= hooks.done.before
        /\ FirstBar(d) > start => \/ Timer(FirstBar(d) - 1, "pre_open", d) \in timers
                                  \/ PreOpened(told, d)

Unfired ==
    \A x \in timers : x.hook \in {"pre_open", "cross"} => ~Called(told, x.hook, x.date)

Seen ==
    \A b \in feed \ ahead : b.at >= start =>
        /\ BarTold(told, DateOf(b.at), b.symbol)
        /\ ~Precise /\ Normal(b.at) => DateOf(b.at) <= hooks.done.before

\* Where every bar is in the session.
Continuous ==
    ~setting.enforced =>
        /\ \A b \in ahead : ~Called(told, "after", DateOf(b.at))
        /\ ~Precise => hooks.last = hooks.done.before
        /\ ~setting.indexed => BeginsEnd(Current)

Going == Upcoming /\ Sources /\ Fired /\ Unfired /\ Seen /\ Continuous
         /\ \A i \in DOMAIN told : told[i].returned

Underway ==
    /\ Ordered(told) /\ Marked(Current) /\ UpToDone(Current) /\ EndedAhead(Current)
    /\ stage = "raised" => EndsToday(Current) /\ FailedIn(Current)
    /\ stage = "run" => Going

HooksInv ==
    /\ HooksTypeOK
    /\ Ordered(told)
    /\ stage # "stopped" => Underway
    /\ stage = "stopped" /\ ~setting.enforced => DaysComplete

-----------------------------------------------------------------------------
(***************************************************************************)
(* One callback.                                                           *)
(***************************************************************************)

\* A callback c may follow those of q.
May(q, c) ==
    /\ c.hook \in HookNames /\ c.date \in ActiveDates /\ (c.hook = "after" => Followed(c.date))
          => \A i \in CallsIn(q, c.hook, c.date) : ~q[i].returned
    /\ c.date \in ActiveDates =>
          /\ c.hook = "cross" => \A s \in Traded(c.date) : BarTold(q, c.date, s)
          /\ c.hook = "after" /\ setting.indexed /\ Followed(c.date) => DateOf(c.at) = c.date
          /\ c.hook = "bar" =>
                /\ ~setting.enforced =>
                      Called(q, "before", c.date) /\ ~Called(q, "after", c.date)
                /\ setting.indexed /\ FirstBar(c.date) > start => PreOpened(q, c.date)

\* A list of callbacks, one longer.
LEMMA AppendFacts ==
    ASSUME NEW q \in Seq(CallType), NEW c \in CallType
    PROVE  /\ Append(q, c) \in Seq(CallType)
           /\ DOMAIN Append(q, c) = DOMAIN q \cup {Len(q) + 1}
           /\ \A i \in DOMAIN q : i < Len(q) + 1 /\ Append(q, c)[i] = q[i] /\ i \in Nat
           /\ Append(q, c)[Len(q) + 1] = c
           /\ Len(q) \in Nat /\ Len(q) + 1 \notin DOMAIN q
<1>1. DOMAIN q = 1 .. Len(q) /\ Len(q) \in Nat
  OBVIOUS
<1>2. Len(Append(q, c)) = Len(q) + 1 /\ Append(q, c) \in Seq(CallType)
  OBVIOUS
<1>3. DOMAIN Append(q, c) = 1 .. Len(q) + 1
  BY <1>2
<1> QED BY <1>1, <1>2, <1>3

LEMMA CallsAppended ==
    ASSUME NEW q \in Seq(CallType), NEW c \in CallType, NEW h, NEW d
    PROVE  /\ CallsIn(q, h, d) \subseteq CallsIn(Append(q, c), h, d)
           /\ \A i \in CallsIn(Append(q, c), h, d) :
                 \/ i \in CallsIn(q, h, d) /\ Append(q, c)[i] = q[i] /\ i < Len(q) + 1 /\ i \in Nat
                 \/ i = Len(q) + 1 /\ c.hook = h /\ c.date = d
           /\ \A i \in CallsIn(q, h, d) :
                 Append(q, c)[i] = q[i] /\ i < Len(q) + 1 /\ i \in Nat
<1> DEFINE u == Append(q, c)
<1>1. /\ DOMAIN u = DOMAIN q \cup {Len(q) + 1}
      /\ \A i \in DOMAIN q : i < Len(q) + 1 /\ u[i] = q[i] /\ i \in Nat
      /\ u[Len(q) + 1] = c
  BY AppendFacts
<1> HIDE DEF u
<1>2. CallsIn(q, h, d) \subseteq CallsIn(u, h, d)
  BY <1>1 DEF CallsIn
<1>3. \A i \in CallsIn(u, h, d) :
         \/ i \in CallsIn(q, h, d) /\ u[i] = q[i] /\ i < Len(q) + 1 /\ i \in Nat
         \/ i = Len(q) + 1 /\ c.hook = h /\ c.date = d
  BY <1>1 DEF CallsIn
<1>4. \A i \in CallsIn(q, h, d) : u[i] = q[i] /\ i < Len(q) + 1 /\ i \in Nat
  BY <1>1 DEF CallsIn
<1> QED BY <1>2, <1>3, <1>4 DEF u

\* A permitted callback keeps the order of the others.
LEMMA OrderedAppend ==
    ASSUME NEW q \in Seq(CallType), NEW c \in CallType, Ordered(q), May(q, c)
    PROVE  Ordered(Append(q, c))
<1> DEFINE u == Append(q, c)
           n == Len(q) + 1
<1>0. n \in Nat /\ u[n] = c
  BY AppendFacts
<1>1. \A h, d : CallsIn(q, h, d) \subseteq CallsIn(u, h, d)
  BY CallsAppended
<1>2. \A h, d : \A i \in CallsIn(u, h, d) :
         \/ i \in CallsIn(q, h, d) /\ u[i] = q[i] /\ i < n /\ i \in Nat
         \/ i = n /\ c.hook = h /\ c.date = d
  BY CallsAppended
<1>3. \A h, d : \A i \in CallsIn(q, h, d) : u[i] = q[i] /\ i < n /\ i \in Nat
  BY CallsAppended
<1> HIDE DEF u, n
<1>4. OnceIn(u)
  <2> SUFFICES ASSUME NEW d \in ActiveDates, NEW h \in HookNames, h = "after" => Followed(d),
                      NEW i \in CallsIn(u, h, d), NEW j \in CallsIn(u, h, d),
                      u[i].returned, u[j].returned
               PROVE  i = j
    BY DEF OnceIn
  <2>1. CASE i = n
    <3>1. c.hook = h /\ c.date = d
      BY <2>1, <1>2, <1>3
    <3>2. \A k \in CallsIn(q, h, d) : ~q[k].returned
      BY <3>1 DEF May
    <3> QED BY <2>1, <3>2, <1>2
  <2>2. CASE j = n
    <3>1. c.hook = h /\ c.date = d
      BY <2>2, <1>2, <1>3
    <3>2. \A k \in CallsIn(q, h, d) : ~q[k].returned
      BY <3>1 DEF May
    <3> QED BY <2>2, <3>2, <1>2
  <2>3. CASE i # n /\ j # n
    <3>1. i \in CallsIn(q, h, d) /\ j \in CallsIn(q, h, d) /\ q[i].returned /\ q[j].returned
      BY <2>3, <1>2
    <3> QED BY <3>1 DEF Ordered, OnceIn
  <2> QED BY <2>1, <2>2, <2>3
<1>5. SliceIn(u)
  <2> SUFFICES ASSUME NEW d \in ActiveDates, NEW j \in CallsIn(u, "cross", d), NEW s \in Traded(d)
               PROVE  \E i \in CallsIn(u, "bar", d) : i < j /\ u[i].symbol = s
    BY DEF SliceIn
  <2>1. CASE j \in CallsIn(q, "cross", d)
    <3>1. PICK i \in CallsIn(q, "bar", d) : i < j /\ q[i].symbol = s
      BY <2>1 DEF Ordered, SliceIn
    <3> QED BY <3>1, <1>1, <1>3
  <2>2. CASE j = n /\ c.hook = "cross" /\ c.date = d
    <3>1. PICK i \in CallsIn(q, "bar", d) : q[i].symbol = s
      BY <2>2 DEF May, BarTold
    <3> QED BY <3>1, <2>2, <1>1, <1>3
  <2> QED BY <2>1, <2>2, <1>2
<1>6. AfterIn(u)
  <2> SUFFICES ASSUME setting.indexed, NEW d \in ActiveDates, Followed(d),
                      NEW i \in CallsIn(u, "after", d)
               PROVE  DateOf(u[i].at) = d
    BY DEF AfterIn
  <2>1. CASE i \in CallsIn(q, "after", d)
    BY <2>1, <1>3 DEF Ordered, AfterIn
  <2>2. CASE i = n /\ c.hook = "after" /\ c.date = d
    BY <2>2, <1>0 DEF May
  <2> QED BY <2>1, <2>2, <1>2
<1>7. BarsIn(u)
  <2> SUFFICES ASSUME ~setting.enforced, NEW d \in ActiveDates, NEW j \in CallsIn(u, "bar", d)
               PROVE  /\ \E i \in CallsIn(u, "before", d) : i < j
                      /\ \A i \in CallsIn(u, "after", d) : j < i
    BY DEF BarsIn
  <2>1. CASE j \in CallsIn(q, "bar", d)
    <3>1. /\ \E i \in CallsIn(q, "before", d) : i < j
          /\ \A i \in CallsIn(q, "after", d) : j < i
      BY <2>1 DEF Ordered, BarsIn
    <3>2. j < n
      BY <2>1, <1>3
    <3> QED BY <3>1, <3>2, <1>1, <1>2
  <2>2. CASE j = n /\ c.hook = "bar" /\ c.date = d
    <3>1. (\E i \in CallsIn(q, "before", d) : TRUE) /\ CallsIn(q, "after", d) = {}
      BY <2>2 DEF May, Called
    <3>2. CallsIn(u, "after", d) = {}
      BY <3>1, <1>2, <2>2
    <3> QED BY <3>1, <3>2, <2>2, <1>1, <1>3
  <2> QED BY <2>1, <2>2, <1>2
<1>8. PreOpenIn(u)
  <2> SUFFICES ASSUME setting.indexed, NEW d \in ActiveDates, FirstBar(d) > start,
                      NEW j \in CallsIn(u, "bar", d)
               PROVE  \E i \in CallsIn(u, "pre_open", d) : i < j /\ u[i].at < FirstBar(d)
    BY DEF PreOpenIn
  <2>1. CASE j \in CallsIn(q, "bar", d)
    <3>1. PICK i \in CallsIn(q, "pre_open", d) : i < j /\ q[i].at < FirstBar(d)
      BY <2>1 DEF Ordered, PreOpenIn
    <3> QED BY <3>1, <1>1, <1>3
  <2>2. CASE j = n /\ c.hook = "bar" /\ c.date = d
    <3>1. PICK i \in CallsIn(q, "pre_open", d) : q[i].at < FirstBar(d)
      BY <2>2 DEF May, PreOpened
    <3> QED BY <3>1, <2>2, <1>1, <1>3
  <2> QED BY <2>1, <2>2, <1>2
<1> QED BY <1>4, <1>5, <1>6, <1>7, <1>8 DEF Ordered, u

\* A callback that the invariant allows next.
Permitted(k, h, d) ==
    /\ h \in {"before", "after"} => k.hooks.done[h] < d /\ d <= DateOf(k.now)
    /\ h \in {"pre_open", "cross"} => ~Called(k.told, h, d)
    /\ h = "before" => d = DateOf(k.now)
    /\ h = "after" => /\ setting.indexed /\ d \in ActiveDates => d = DateOf(k.now)
                      /\ d > k.hooks.done.before => NeverBegan(d)
    /\ d \in ActiveDates =>
          /\ h = "cross" => \A s \in Traded(d) : BarTold(k.told, d, s)
          /\ h = "bar" =>
                /\ ~setting.enforced => Called(k.told, "before", d) /\ ~Called(k.told, "after", d)
                /\ setting.indexed /\ FirstBar(d) > start => PreOpened(k.told, d)

\* What the call tells, and whether it returns.
Told(k, h, d, y) ==
    [hook |-> h, date |-> d, symbol |-> y, at |-> k.now,
     returned |-> k.raiseIn # 1 \/ setting.continues]

\* The call c of hook h took the strategy from k to u.
Recorded(k, h, d, y, c, u) ==
    /\ c \in CallType /\ u \in HandlingType
    /\ c.hook = h /\ c.date = d /\ c.symbol = y /\ c.at = k.now
    /\ u.told = Append(k.told, c) /\ u.now = k.now
    /\ u.hooks.last = k.hooks.last
    /\ \A x \in HookNames :
          u.hooks.done[x] = IF x = h /\ c.returned THEN d ELSE k.hooks.done[x]
    /\ u.failed <=> ~c.returned

\* What Calling does when nothing has failed.
LEMMA CallingFacts ==
    ASSUME NEW k \in HandlingType, NEW h \in HookNames \cup {"bar", "timer"}, NEW d \in Nat,
           NEW y \in AllSymbols, ~k.failed,
           setting \in SettingType
    PROVE  Recorded(k, h, d, y, Told(k, h, d, y), Calling(k, h, d, y))
<1> DEFINE c == Told(k, h, d, y)
           u == Calling(k, h, d, y)
           r == k.raiseIn # 1 \/ setting.continues
           f == [x \in HookNames |-> IF x = h /\ r THEN d ELSE k.hooks.done[x]]
           left == IF k.raiseIn > 0 THEN k.raiseIn - 1 ELSE 0
<1>1. /\ k.hooks \in FieldsType /\ k.told \in Seq(CallType) /\ k.now \in Nat /\ k.raiseIn \in Nat
      /\ k.hooks.last \in Nat /\ k.hooks.done \in [HookNames -> Nat]
      /\ DOMAIN k.hooks.done = HookNames
  BY DEF HandlingType, FieldsType
<1>2. r \in BOOLEAN
  BY <1>1 DEF SettingType
<1>3. c \in CallType /\ c.hook = h /\ c.date = d /\ c.symbol = y /\ c.at = k.now /\ c.returned = r
  BY <1>1, <1>2 DEF CallType, Told
<1>4. u = [k EXCEPT !.told = Append(k.told, c), !.hooks.done = f, !.raiseIn = left,
                    !.failed = ~r]
  BY <1>1 DEF Calling, Told
<1>5. f \in [HookNames -> Nat] /\ left \in Nat
  BY <1>1, <1>2
<1>6. Append(k.told, c) \in Seq(CallType)
  BY <1>1, <1>3
<1> DEFINE g == [last |-> k.hooks.last, done |-> f]
<1>7. g \in FieldsType /\ g.last = k.hooks.last /\ g.done = f
  BY <1>1, <1>5 DEF FieldsType
<1>8. [k.hooks EXCEPT !.done = f] = g
  <2>1. k.hooks = [last |-> k.hooks.last, done |-> k.hooks.done]
    BY <1>1 DEF FieldsType
  <2> HIDE DEF f
  <2> QED BY <2>1
<1> HIDE DEF c, r, f, left, g
<1>9. u = [hooks |-> g, told |-> Append(k.told, c), now |-> k.now,
           raiseIn |-> left, failed |-> ~r]
  BY <1>4, <1>8 DEF HandlingType
<1> HIDE DEF u
<1>10. /\ u.hooks = g /\ u.told = Append(k.told, c) /\ u.now = k.now
       /\ u.raiseIn = left /\ u.failed = ~r
  BY <1>9
<1>11. u \in HandlingType
  BY <1>1, <1>2, <1>5, <1>6, <1>7, <1>9 DEF HandlingType
<1>12. \A x \in HookNames :
          u.hooks.done[x] = IF x = h /\ c.returned THEN d ELSE k.hooks.done[x]
  BY <1>3, <1>7, <1>10 DEF f
<1>13. u.hooks.last = k.hooks.last
  BY <1>7, <1>10
<1>14. u.failed <=> ~c.returned
  BY <1>3, <1>10
<1> QED BY <1>3, <1>10, <1>11, <1>12, <1>13, <1>14 DEF u, c, Recorded

\* A permitted callback keeps what holds of the strategy, whether or not it raises.
LEMMA KeptCalling ==
    ASSUME NEW k, NEW h \in HookNames \cup {"bar", "timer"}, NEW d \in Nat, NEW y \in AllSymbols,
           Kept(k), ~k.failed, Permitted(k, h, d), setting \in SettingType
    PROVE  Kept(Calling(k, h, d, y))
<1> DEFINE c == Told(k, h, d, y)
           u == Calling(k, h, d, y)
           n == Len(k.told) + 1
<1>0. k \in HandlingType /\ k.told \in Seq(CallType) /\ k.hooks.done \in [HookNames -> Nat]
      /\ k.now \in Nat /\ DateOf(k.now) \in Nat
  BY DivMod DEF Kept, HandlingType, FieldsType
<1>1. /\ c \in CallType /\ u \in HandlingType
      /\ c.hook = h /\ c.date = d /\ c.symbol = y /\ c.at = k.now
      /\ u.told = Append(k.told, c) /\ u.now = k.now
      /\ \A x \in HookNames :
            u.hooks.done[x] = IF x = h /\ c.returned THEN d ELSE k.hooks.done[x]
      /\ u.failed <=> ~c.returned
  <2>1. Recorded(k, h, d, y, c, u)
    BY <1>0, CallingFacts
  <2> QED BY <2>1 DEF Recorded
<1>2. /\ DOMAIN u.told = DOMAIN k.told \cup {n} /\ n \notin DOMAIN k.told
      /\ \A i \in DOMAIN k.told : u.told[i] = k.told[i]
      /\ u.told[n] = c
  BY <1>0, <1>1, AppendFacts
<1>3. \A x, e : CallsIn(k.told, x, e) \subseteq CallsIn(u.told, x, e)
  BY <1>0, <1>1, CallsAppended
<1>4. u.hooks.done \in [HookNames -> Nat]
  BY <1>1 DEF HandlingType, FieldsType
<1> HIDE DEF u, c, n
<1> USE DEF HookNames
<1>5. Ordered(u.told)
  <2>1. May(k.told, c)
    <3>1. c.hook \in HookNames => \A i \in CallsIn(k.told, c.hook, c.date) : ~k.told[i].returned
      <4> SUFFICES ASSUME h \in HookNames, NEW i \in CallsIn(k.told, h, d), k.told[i].returned
                   PROVE  FALSE
        BY <1>1
      <4>1. CASE h \in {"pre_open", "cross"}
        BY <4>1 DEF Permitted, Called
      <4>2. CASE h \in {"before", "after"}
        <5>1. d <= k.hooks.done[h]
          BY <4>2 DEF Kept, UpToDone, CallsIn
        <5>2. k.hooks.done[h] < d /\ k.hooks.done[h] \in Nat
          BY <4>2, <1>0 DEF Permitted
        <5> QED BY <5>1, <5>2
      <4> QED BY <4>1, <4>2
    <3>2. c.date \in ActiveDates =>
             /\ c.hook = "cross" => \A s \in Traded(c.date) : BarTold(k.told, c.date, s)
             /\ c.hook = "after" /\ setting.indexed /\ Followed(c.date) => DateOf(c.at) = c.date
             /\ c.hook = "bar" =>
                   /\ ~setting.enforced =>
                         Called(k.told, "before", c.date) /\ ~Called(k.told, "after", c.date)
                   /\ setting.indexed /\ FirstBar(c.date) > start => PreOpened(k.told, c.date)
      BY <1>1 DEF Permitted
    <3> QED BY <3>1, <3>2 DEF May
  <2>2. Ordered(k.told)
    BY DEF Kept
  <2> QED BY <1>0, <1>1, <2>1, <2>2, OrderedAppend
<1>6. Marked(u)
  <2> SUFFICES ASSUME NEW x \in HookNames, u.hooks.done[x] # NoDate
               PROVE  Called(u.told, x, u.hooks.done[x])
    BY DEF Marked
  <2>1. CASE x = h /\ c.returned
    <3>1. u.hooks.done[x] = d /\ n \in CallsIn(u.told, x, d)
      BY <2>1, <1>1, <1>2 DEF CallsIn
    <3> QED BY <3>1 DEF Called
  <2>2. CASE ~ (x = h /\ c.returned)
    <3>1. Called(k.told, x, k.hooks.done[x]) /\ u.hooks.done[x] = k.hooks.done[x]
      BY <2>2, <1>1 DEF Kept, Marked
    <3> QED BY <3>1, <1>3 DEF Called
  <2> QED BY <2>1, <2>2
<1>7. UpToDone(u)
  <2> SUFFICES ASSUME NEW i \in DOMAIN u.told, u.told[i].hook \in {"before", "after"},
                      u.told[i].returned
               PROVE  u.told[i].date <= u.hooks.done[u.told[i].hook]
    BY DEF UpToDone
  <2>1. CASE i = n
    BY <2>1, <1>1, <1>2
  <2>2. CASE i \in DOMAIN k.told
    <3> DEFINE x == k.told[i].hook
    <3>0. k.told[i] \in CallType /\ u.told[i] = k.told[i]
      BY <2>2, <1>0, <1>2
    <3>1. x \in {"before", "after"} /\ k.told[i].date <= k.hooks.done[x] /\ k.told[i].date \in Nat
      BY <2>2, <3>0 DEF Kept, UpToDone, CallType
    <3>2. k.hooks.done[x] \in Nat /\ u.hooks.done[x] \in Nat
      BY <3>1, <1>0, <1>4
    <3>3. k.hooks.done[x] <= u.hooks.done[x]
      <4> HIDE DEF x
      <4>1. u.hooks.done[x] = IF x = h /\ c.returned THEN d ELSE k.hooks.done[x]
        BY <3>1, <1>1
      <4>2. x = h => k.hooks.done[x] < d
        BY <3>1 DEF Permitted
      <4> QED BY <4>1, <4>2, <3>2
    <3> QED BY <2>2, <3>1, <3>2, <3>3, <1>2
  <2> QED BY <2>1, <2>2, <1>2
<1>8. EndedAhead(u)
  <2> SUFFICES ASSUME u.hooks.done.after > u.hooks.done.before
               PROVE  NeverBegan(u.hooks.done.after)
    BY DEF EndedAhead
  <2>1. CASE h = "after" /\ c.returned
    BY <2>1, <1>1 DEF Permitted
  <2>2. CASE h = "before" /\ c.returned
    <3>1. u.hooks.done.before = d /\ u.hooks.done.after = k.hooks.done.after
          /\ k.hooks.done.before < d
      BY <2>2, <1>1 DEF Permitted
    <3> QED BY <3>1, <1>0 DEF Kept, EndedAhead
  <2>3. CASE ~ (h \in {"before", "after"} /\ c.returned)
    <3>1. u.hooks.done.before = k.hooks.done.before /\ u.hooks.done.after = k.hooks.done.after
      BY <2>3, <1>1
    <3> QED BY <3>1 DEF Kept, EndedAhead
  <2> QED BY <2>1, <2>2, <2>3
<1>9. EndsToday(u)
  <2> SUFFICES ASSUME setting.indexed
               PROVE  \/ u.hooks.done.before = DateOf(u.now)
                      \/ u.hooks.done.before <= u.hooks.done.after
                      \/ u.hooks.done.before \notin ActiveDates
    BY DEF EndsToday
  <2>1. CASE h = "before" /\ c.returned
    BY <2>1, <1>1 DEF Permitted
  <2>2. CASE ~ (h = "before" /\ c.returned)
    <3>1. u.hooks.done.before = k.hooks.done.before
      BY <2>2, <1>1
    <3>2. k.hooks.done.after <= u.hooks.done.after
      BY <1>0, <1>1 DEF Permitted
    <3>3. u.hooks.done.after \in Nat /\ k.hooks.done.after \in Nat /\ k.hooks.done.before \in Nat
      BY <1>0, <1>4
    <3>4. \/ k.hooks.done.before = DateOf(k.now)
          \/ k.hooks.done.before <= k.hooks.done.after
          \/ k.hooks.done.before \notin ActiveDates
      BY DEF Kept, EndsToday
    <3>5. u.now = k.now
      BY <1>1
    <3> QED BY <3>1, <3>2, <3>3, <3>4, <3>5
  <2> QED BY <2>1, <2>2
<1>10. NotLater(u)
  BY <1>0, <1>1 DEF Kept, NotLater, Permitted
<1>11. FailedIn(u)
  <2>1. \A i \in DOMAIN k.told : u.told[i].returned
    BY <1>2 DEF Kept, FailedIn
  <2> QED BY <2>1, <1>1, <1>2 DEF FailedIn
<1> QED BY <1>1, <1>5, <1>6, <1>7, <1>8, <1>9, <1>10, <1>11 DEF Kept, u

-----------------------------------------------------------------------------
(***************************************************************************)
(* The callbacks of one event.                                             *)
(***************************************************************************)

New(s, u) == DOMAIN u.told \ DOMAIN s.told

\* From s to u nothing was called but what hook h of date d may be called as.
Did(s, u, h, d) ==
    /\ u.now = s.now /\ u.hooks.last = s.hooks.last
    /\ DOMAIN s.told \subseteq DOMAIN u.told
    /\ \A i \in DOMAIN s.told : u.told[i] = s.told[i]
    /\ \A i \in New(s, u) : u.told[i].hook = h /\ u.told[i].date = d
    /\ \A x \in HookNames : x # h => u.hooks.done[x] = s.hooks.done[x]
    /\ s.hooks.done.before <= u.hooks.done.before
    /\ s.hooks.done.after <= u.hooks.done.after

\* The types of the fields, one by one.
LEMMA DoneTyped ==
    ASSUME NEW k, Kept(k)
    PROVE  /\ \A x \in HookNames : k.hooks.done[x] \in Nat
           /\ k.hooks.done.before \in Nat /\ k.hooks.done.after \in Nat
           /\ k.hooks.last \in Nat /\ k.now \in Nat /\ DateOf(k.now) \in Nat
           /\ k.failed \in BOOLEAN /\ k.told \in Seq(CallType)
BY DivMod DEF Kept, HandlingType, FieldsType, HookNames

LEMMA DidNothing ==
    ASSUME NEW k, Kept(k), NEW h, NEW d
    PROVE  Did(k, k, h, d)
BY DoneTyped DEF Did, New

\* Calling, Hook and End as far as they may call what is permitted.
LEMMA DidCalling ==
    ASSUME NEW s, NEW h \in HookNames \cup {"bar", "timer"}, NEW d \in Nat, NEW y \in AllSymbols,
           Kept(s), ~s.failed, Permitted(s, h, d), setting \in SettingType
    PROVE  /\ Kept(Calling(s, h, d, y)) /\ Did(s, Calling(s, h, d, y), h, d)
           /\ ~Calling(s, h, d, y).failed /\ h \in HookNames =>
                 Calling(s, h, d, y).hooks.done[h] = d
           /\ \E i \in CallsIn(Calling(s, h, d, y).told, h, d) :
                 /\ i \notin DOMAIN s.told
                 /\ Calling(s, h, d, y).told[i].symbol = y
                 /\ Calling(s, h, d, y).told[i].at = s.now
<1> DEFINE c == Told(s, h, d, y)
           u == Calling(s, h, d, y)
           n == Len(s.told) + 1
<1>0. s \in HandlingType /\ s.told \in Seq(CallType)
  BY DEF Kept, HandlingType
<1>1. Recorded(s, h, d, y, c, u)
  BY <1>0, CallingFacts
<1>2. Kept(u)
  BY KeptCalling
<1> HIDE DEF c, u, n
<1>3. c \in CallType /\ u.told = Append(s.told, c)
  BY <1>1 DEF Recorded
<1>4. /\ DOMAIN u.told = DOMAIN s.told \cup {n} /\ n \notin DOMAIN s.told
      /\ \A i \in DOMAIN s.told : u.told[i] = s.told[i]
      /\ u.told[n] = c
  BY <1>0, <1>3, AppendFacts DEF n
<1>5. c.hook = h /\ c.date = d /\ c.symbol = y /\ c.at = s.now /\ u.now = s.now
      /\ u.hooks.last = s.hooks.last
  BY <1>1 DEF Recorded
<1>6. \A x \in HookNames : u.hooks.done[x] = IF x = h /\ c.returned THEN d ELSE s.hooks.done[x]
  BY <1>1 DEF Recorded
<1>7. \A x \in {"before", "after"} : s.hooks.done[x] <= u.hooks.done[x]
  <2> TAKE x \in {"before", "after"}
  <2>1. u.hooks.done[x] = IF x = h /\ c.returned THEN d ELSE s.hooks.done[x]
    BY <1>6 DEF HookNames
  <2>2. x = h => s.hooks.done[x] < d
    BY DEF Permitted
  <2>3. s.hooks.done[x] \in Nat
    BY DoneTyped DEF HookNames
  <2> QED BY <2>1, <2>2, <2>3
<1>8. Did(s, u, h, d)
  BY <1>4, <1>5, <1>6, <1>7 DEF Did, New
<1>9. ~u.failed /\ h \in HookNames => u.hooks.done[h] = d
  <2>1. ~u.failed => c.returned
    BY <1>1 DEF Recorded
  <2> QED BY <2>1, <1>6
<1>10. n \in CallsIn(u.told, h, d) /\ u.told[n].symbol = y /\ u.told[n].at = s.now
  BY <1>4, <1>5 DEF CallsIn
<1> QED BY <1>2, <1>4, <1>8, <1>9, <1>10 DEF u

LEMMA DidHook ==
    ASSUME NEW s, NEW h \in HookNames, NEW d \in Nat, Kept(s), setting \in SettingType,
           ~s.failed /\ s.hooks.done[h] # d => Permitted(s, h, d)
    PROVE  LET u == Hook(s, h, d)
           IN  /\ Kept(u) /\ Did(s, u, h, d)
               /\ ~u.failed => ~s.failed /\ u.hooks.done[h] = d
               /\ s.failed \/ s.hooks.done[h] = d => u = s
               /\ ~s.failed /\ s.hooks.done[h] # d =>
                     \E i \in CallsIn(u.told, h, d) : u.told[i].at = s.now
<1> DEFINE u == Hook(s, h, d)
<1>1. CASE s.failed \/ s.hooks.done[h] = d
  <2>1. u = s
    BY <1>1 DEF Hook, Calling
  <2> HIDE DEF u
  <2>2. Did(s, u, h, d)
    BY <2>1, DidNothing
  <2> QED BY <1>1, <2>1, <2>2 DEF u
<1>2. CASE ~s.failed /\ s.hooks.done[h] # d
  <2>1. u = Calling(s, h, d, NoSymbol)
    BY <1>2 DEF Hook
  <2>2. NoSymbol \in AllSymbols /\ Permitted(s, h, d)
    BY <1>2 DEF AllSymbols
  <2> HIDE DEF u
  <2>3. /\ Kept(u) /\ Did(s, u, h, d)
        /\ ~u.failed => u.hooks.done[h] = d
        /\ \E i \in CallsIn(u.told, h, d) : u.told[i].at = s.now
    BY <1>2, <2>1, <2>2, DidCalling
  <2> QED BY <1>2, <2>3 DEF u
<1> QED BY <1>1, <1>2

LEMMA DidEnd ==
    ASSUME NEW s, NEW d \in Nat, Kept(s), setting \in SettingType,
           ~s.failed /\ d # NoDate /\ s.hooks.done.before = d /\ s.hooks.done.after # d =>
               Permitted(s, "after", d)
    PROVE  LET u == End(s, d)
           IN  /\ Kept(u) /\ Did(s, u, "after", d)
               /\ s.failed => u = s
               /\ ~u.failed => ~s.failed
               /\ ~u.failed /\ d # NoDate /\ s.hooks.done.before = d => u.hooks.done.after = d
               /\ ~(d # NoDate /\ s.hooks.done.before = d) => u = s
               /\ s.hooks.done.after = d => u = s
<1>1. CASE d # NoDate /\ s.hooks.done.before = d
  <2>1. End(s, d) = Hook(s, "after", d)
    BY <1>1 DEF End
  <2>2. ~s.failed /\ s.hooks.done["after"] # d => Permitted(s, "after", d)
    BY <1>1
  <2>3. "after" \in HookNames
    BY DEF HookNames
  <2> DEFINE u == Hook(s, "after", d)
  <2>4. /\ Kept(u) /\ Did(s, u, "after", d)
        /\ ~u.failed => ~s.failed /\ u.hooks.done["after"] = d
        /\ s.failed \/ s.hooks.done["after"] = d => u = s
    BY <2>2, <2>3, DidHook
  <2> HIDE DEF u
  <2> QED BY <1>1, <2>1, <2>4 DEF u
<1>2. CASE ~(d # NoDate /\ s.hooks.done.before = d)
  <2>1. End(s, d) = s
    BY <1>2 DEF End
  <2> QED BY <1>2, <2>1, DidNothing
<1> QED BY <1>1, <1>2

\* What the begin and the end of dates leave of a strategy s, whose event is at
\* time t.
Began(s, u, t) ==
    /\ Kept(u) /\ u.now = s.now
    /\ DOMAIN s.told \subseteq DOMAIN u.told
    /\ \A i \in DOMAIN s.told : u.told[i] = s.told[i]
    /\ \A i \in New(s, u) :
          /\ u.told[i].hook \in {"before", "after"}
          /\ ~setting.enforced /\ u.told[i].hook = "after" => u.told[i].date < DateOf(s.now)
    /\ s.hooks.done.before <= u.hooks.done.before
    /\ s.hooks.done.after <= u.hooks.done.after
    /\ ~u.failed =>
          /\ u.hooks.last = DateOf(s.now)
          /\ ~Precise /\ Normal(t) => u.hooks.done.before = DateOf(s.now)
          /\ ~Precise /\ ~setting.enforced /\ BeginsEnd(s) => BeginsEnd(u)

\* What was called stays called.
LEMMA CalledGrows ==
    ASSUME NEW s, NEW u, DOMAIN s.told \subseteq DOMAIN u.told,
           \A i \in DOMAIN s.told : u.told[i] = s.told[i]
    PROVE  \A h, d : /\ CallsIn(s.told, h, d) \subseteq CallsIn(u.told, h, d)
                     /\ Called(s.told, h, d) => Called(u.told, h, d)
BY DEF CallsIn, Called

\* TimeHooks ends the last date and begins this one where both are due.
LEMMA BegunDates ==
    ASSUME NEW s, NEW t \in Nat, Kept(s), ~s.failed, setting \in SettingType,
           s.hooks.last <= DateOf(s.now),
           s.hooks.done.before <= s.hooks.last, s.hooks.done.after <= s.hooks.last,
           setting.indexed =>
               \A d \in ActiveDates : d < DateOf(s.now) => d <= s.hooks.done.after,
           ~setting.enforced /\ ~Precise => s.hooks.last = s.hooks.done.before
    PROVE  Began(s, TimeHooks(s, t), t)
<1> DEFINE d == DateOf(s.now)
           l == s.hooks.last
           rolled == IF l \in {NoDate, d} THEN s ELSE End(s, l)
           passed == IF Precise THEN s
                     ELSE IF Normal(t) THEN Hook(rolled, "before", d)
                     ELSE End(rolled, d)
           u == IF passed.failed THEN passed ELSE [passed EXCEPT !.hooks.last = d]
<1>1. TimeHooks(s, t) = u
  BY DEF TimeHooks
<1>2. /\ d \in Nat /\ l \in Nat /\ s.hooks.done.before \in Nat /\ s.hooks.done.after \in Nat
      /\ l <= d
  BY DoneTyped
<1> HIDE DEF d
<1>3. /\ Kept(rolled) /\ Did(s, rolled, "after", l)
      /\ (~rolled.failed) => ~s.failed
      /\ l \in {NoDate, d} => rolled = s
      /\ (~rolled.failed) /\ l \notin {NoDate, d} /\ s.hooks.done.before = l =>
            rolled.hooks.done.after = l
  <2>1. CASE l \in {NoDate, d}
    <3>1. rolled = s
      BY <2>1
    <3> HIDE DEF rolled
    <3> QED BY <2>1, <3>1, DidNothing
  <2>2. CASE l \notin {NoDate, d}
    <3>1. rolled = End(s, l)
      BY <2>2
    <3> HIDE DEF rolled
    <3>2. ASSUME s.hooks.done.before = l, s.hooks.done.after # l
          PROVE  Permitted(s, "after", l)
      <4>1. l < d /\ s.hooks.done.after < l
        BY <2>2, <3>2, <1>2
      <4>2. ~ (setting.indexed /\ l \in ActiveDates)
        BY <4>1, <1>2 DEF d
      <4>3. ~ (l > s.hooks.done.before)
        BY <3>2, <1>2
      <4> QED BY <4>1, <4>2, <4>3 DEF Permitted, d
    <3> HIDE DEF l
    <3> QED BY <2>2, <3>1, <3>2, <1>2, DidEnd
  <2> QED BY <2>1, <2>2
<1> HIDE DEF rolled
<1>4. /\ rolled.now = s.now
      /\ \A x \in {"before", "after"} : rolled.hooks.done[x] \in Nat
      /\ rolled.hooks.done.before \in Nat /\ rolled.hooks.done.after \in Nat
      /\ rolled.hooks.done.before <= d /\ rolled.hooks.done.after <= d
      /\ rolled.hooks.done.before = s.hooks.done.before
  <2>1. rolled.now = s.now /\ rolled.hooks.done.before = s.hooks.done.before
    BY <1>3 DEF Did, HookNames
  <2>2. NotLater(rolled)
    BY <1>3 DEF Kept
  <2> QED BY <1>3, <2>1, <2>2, DoneTyped DEF HookNames, NotLater, d
<1>5. ~Precise /\ Normal(t) =>
          /\ Kept(passed) /\ Did(rolled, passed, "before", d)
          /\ (~passed.failed) => (~rolled.failed) /\ passed.hooks.done.before = d
          /\ rolled.hooks.done.before = d => passed = rolled
  <2> SUFFICES ASSUME ~Precise, Normal(t)
               PROVE  /\ Kept(passed) /\ Did(rolled, passed, "before", d)
                      /\ (~passed.failed) => (~rolled.failed) /\ passed.hooks.done.before = d
                      /\ rolled.hooks.done.before = d => passed = rolled
    OBVIOUS
  <2>1. passed = Hook(rolled, "before", d)
    OBVIOUS
  <2> HIDE DEF passed
  <2>2. ASSUME rolled.hooks.done["before"] # d
        PROVE  Permitted(rolled, "before", d)
    BY <2>2, <1>2, <1>4 DEF Permitted, d
  <2>3. "before" \in HookNames
    BY DEF HookNames
  <2> QED BY <1>2, <1>3, <2>1, <2>2, <2>3, DidHook
<1>6. ~Precise /\ ~Normal(t) =>
          /\ Kept(passed) /\ Did(rolled, passed, "after", d)
          /\ (~passed.failed) => ~rolled.failed
  <2> SUFFICES ASSUME ~Precise, ~Normal(t)
               PROVE  /\ Kept(passed) /\ Did(rolled, passed, "after", d)
                      /\ (~passed.failed) => ~rolled.failed
    OBVIOUS
  <2>1. passed = End(rolled, d)
    OBVIOUS
  <2> HIDE DEF passed
  <2>2. ASSUME rolled.hooks.done.before = d, rolled.hooks.done.after # d
        PROVE  Permitted(rolled, "after", d)
    BY <2>2, <1>2, <1>4 DEF Permitted, d
  <2> QED BY <1>2, <1>3, <2>1, <2>2, DidEnd
<1>7. Precise => passed = s
  OBVIOUS
<1> HIDE DEF passed
<1>8. /\ Kept(passed) /\ passed.now = s.now
      /\ DOMAIN s.told \subseteq DOMAIN passed.told
      /\ \A i \in DOMAIN s.told : passed.told[i] = s.told[i]
      /\ \A i \in New(s, passed) :
            /\ passed.told[i].hook \in {"before", "after"}
            /\ ~setting.enforced /\ passed.told[i].hook = "after" => passed.told[i].date < d
      /\ s.hooks.done.before <= passed.hooks.done.before
      /\ s.hooks.done.after <= passed.hooks.done.after
      /\ (~passed.failed) /\ ~Precise /\ Normal(t) => passed.hooks.done.before = d
  <2>1. CASE Precise
    BY <2>1, <1>7, <1>2 DEF New
  <2>2. CASE ~Precise
    <3>1. PICK h \in {"before", "after"} :
             /\ Kept(passed) /\ Did(rolled, passed, h, d)
             /\ Normal(t) => h = "before"
      BY <2>2, <1>5, <1>6
    <3>2. \A i \in New(s, rolled) : /\ rolled.told[i].hook = "after" /\ rolled.told[i].date = l
                                    /\ l < d
      <4>1. l \in {NoDate, d} => New(s, rolled) = {}
        BY <1>3 DEF New
      <4> QED BY <4>1, <1>2, <1>3 DEF Did
    <3>3. \A i \in New(s, passed) :
             \/ i \in New(rolled, passed)
             \/ i \in New(s, rolled) /\ passed.told[i] = rolled.told[i]
      BY <3>1 DEF New, Did
    <3>4. \A i \in New(rolled, passed) : passed.told[i].hook = h
      BY <3>1 DEF Did
    <3>5. ~setting.enforced => Normal(t)
      BY DEF Normal
    <3>6. \A i \in New(s, passed) :
             /\ passed.told[i].hook \in {"before", "after"}
             /\ ~setting.enforced /\ passed.told[i].hook = "after" => passed.told[i].date < d
      BY <3>1, <3>2, <3>3, <3>4, <3>5
    <3>7. /\ passed.now = s.now
          /\ DOMAIN s.told \subseteq DOMAIN passed.told
          /\ \A i \in DOMAIN s.told : passed.told[i] = s.told[i]
      BY <3>1, <1>3, <1>4 DEF Did
    <3>8. /\ s.hooks.done.before <= passed.hooks.done.before
          /\ s.hooks.done.after <= passed.hooks.done.after
      <4>1. passed.hooks.done.before \in Nat /\ passed.hooks.done.after \in Nat
        BY <3>1, DoneTyped
      <4>2. rolled.hooks.done.before <= passed.hooks.done.before
            /\ rolled.hooks.done.after <= passed.hooks.done.after
            /\ s.hooks.done.after <= rolled.hooks.done.after
        BY <3>1, <1>3 DEF Did
      <4> QED BY <4>1, <4>2, <1>2, <1>4
    <3> QED BY <3>1, <3>6, <3>7, <3>8, <2>2, <1>5
  <2> QED BY <2>1, <2>2
<1>9. (~passed.failed) /\ ~Precise /\ ~setting.enforced /\ BeginsEnd(s) => BeginsEnd(passed)
  <2> SUFFICES ASSUME ~passed.failed, ~Precise, ~setting.enforced, BeginsEnd(s),
                      NEW i \in DOMAIN passed.told, passed.told[i].hook = "before"
               PROVE  /\ passed.told[i].date # NoDate
                      /\ \/ passed.told[i].date = passed.hooks.done.before
                         \/ Called(passed.told, "after", passed.told[i].date)
    BY DEF BeginsEnd
  <2>1. Normal(t) /\ l = s.hooks.done.before
    BY DEF Normal
  <2>2. /\ Did(rolled, passed, "before", d) /\ ~rolled.failed /\ passed.hooks.done.before = d
        /\ rolled.hooks.done.before = d => passed = rolled
    BY <2>1, <1>5
  <2>3. CASE i \in New(rolled, passed)
    <3>1. passed.told[i].date = d
      BY <2>2, <2>3 DEF Did
    <3>2. d # NoDate
      <4>1. rolled.hooks.done.before # d
        BY <2>2, <2>3 DEF New
      <4> QED BY <4>1, <1>2, <1>4 DEF NoDate
    <3> QED BY <3>1, <3>2, <2>2
  <2>4. CASE i \in DOMAIN s.told
    <3>1. passed.told[i] = s.told[i]
      BY <2>4, <1>8
    <3>2. /\ s.told[i].date # NoDate
          /\ s.told[i].date = l \/ Called(s.told, "after", s.told[i].date)
      BY <2>1, <2>4, <3>1 DEF BeginsEnd
    <3>3. \A e : Called(s.told, "after", e) => Called(passed.told, "after", e)
      BY <1>8, CalledGrows
    <3>4. CASE s.told[i].date = l /\ l # d
      <4>1. rolled.hooks.done.after = l /\ l # NoDate
        BY <3>2, <3>4, <2>1, <2>2, <1>3
      <4>2. Called(rolled.told, "after", l)
        BY <4>1, <1>3 DEF Kept, Marked, HookNames
      <4>3. Called(passed.told, "after", l)
        BY <4>2, <2>2, CalledGrows DEF Did
      <4> QED BY <3>1, <3>2, <3>4, <4>3
    <3> QED BY <3>1, <3>2, <3>3, <3>4, <2>2
  <2>5. CASE i \in New(s, rolled) /\ i \notin New(rolled, passed)
    <3>1. passed.told[i] = rolled.told[i] /\ rolled.told[i].hook = "after"
      BY <2>2, <2>5, <1>3 DEF Did, New
    <3> QED BY <3>1
  <2> QED BY <2>3, <2>4, <2>5 DEF New
<1>10. Kept(u) /\ u.now = passed.now /\ u.told = passed.told /\ u.failed = passed.failed
       /\ u.hooks.done = passed.hooks.done /\ ((~u.failed) => u.hooks.last = d)
  <2>1. CASE passed.failed
    BY <2>1, <1>8
  <2>2. CASE ~passed.failed
    <3>1. passed \in HandlingType
      BY <1>8 DEF Kept
    <3>2. u = [passed EXCEPT !.hooks.last = d]
      BY <2>2
    <3> HIDE DEF u
    <3>3. /\ u \in HandlingType /\ u.now = passed.now /\ u.told = passed.told
          /\ u.failed = passed.failed /\ u.hooks.done = passed.hooks.done /\ u.hooks.last = d
      BY <3>1, <3>2, <1>2 DEF HandlingType, FieldsType
    <3>4. Marked(u) /\ UpToDone(u) /\ EndedAhead(u) /\ EndsToday(u) /\ NotLater(u)
          /\ FailedIn(u) /\ Ordered(u.told)
      BY <3>3, <1>8
         DEF Kept, Marked, UpToDone, EndedAhead, EndsToday, NotLater, FailedIn
    <3> QED BY <3>3, <3>4 DEF Kept
  <2> QED BY <2>1, <2>2
<1> HIDE DEF u
<1>11. Began(s, u, t)
  <2>1. New(s, u) = New(s, passed)
    BY <1>10 DEF New
  <2>2. BeginsEnd(passed) => BeginsEnd(u)
    BY <1>10 DEF BeginsEnd
  <2> QED BY <2>1, <2>2, <1>8, <1>9, <1>10 DEF Began, d
<1> QED BY <1>1, <1>11

-----------------------------------------------------------------------------
(***************************************************************************)
(* The order of events.                                                    *)
(***************************************************************************)

\* Where a timer that a bar of its date is the reason of lies.
LEMMA FrameworkShape ==
    ASSUME feed \in Feeds, NEW x \in FrameworkTimers
    PROVE  /\ x.date \in Dates
           /\ \/ x.hook = "pre_open" /\ x.at = FirstBar(x.date) - 1
              \/ x.hook = "before" /\ x.at = FirstBar(x.date) /\ Precise
              \/ x.hook = "after" /\ x.at = LastBar(x.date) + 1
              \/ x.hook = "cross" /\ x.at = Slice(x.date) + 1
           /\ x = Timer(x.at, x.hook, x.date)
BY DEF FrameworkTimers, Timer

\* Where a daily timer lies.
LEMMA DailyShape ==
    ASSUME feed \in Feeds, NEW slots \in DailyTimes, NEW x \in DailyTimers(slots)
    PROVE  /\ x.hook = "timer" /\ x.at \in Nat /\ x.date \in Nat
           /\ setting.indexed =>
                 /\ x.date \in Dates
                 /\ \E y \in slots : /\ y \in 0 .. Width - 1
                                     /\ x.at = x.date * Width + y /\ DateOf(x.at) = x.date
           /\ ~setting.indexed => x.at = NextDaily
<1>0. slots \subseteq 0 .. Width - 1 /\ NextDaily \in Nat
  BY DailyAssumption
<1>1. CASE setting.indexed
  <2>1. PICK d \in Dates, y \in slots : x = Timer(d * Width + y, "timer", d)
    BY <1>1 DEF DailyTimers
  <2>2. d \in Nat /\ y \in 0 .. Width - 1
    BY <1>0, DataOfDate
  <2>3. d * Width + y \in Nat /\ DateOf(d * Width + y) = d
    BY <2>2, SlotOfDate
  <2>4. x.hook = "timer" /\ x.at = d * Width + y /\ x.date = d
    BY <2>1 DEF Timer
  <2> QED BY <1>1, <2>2, <2>3, <2>4
<1>2. CASE ~setting.indexed
  <2>1. x = Timer(NextDaily, "timer", DateOf(NextDaily))
    BY <1>2 DEF DailyTimers
  <2>2. x.hook = "timer" /\ x.at = NextDaily /\ x.date = DateOf(NextDaily)
    BY <2>1 DEF Timer
  <2> QED BY <1>0, <1>2, <2>2, DivMod
<1> QED BY <1>1, <1>2

\* The time that a timer shows, and the bar that a timer after a bar comes after.
LEMMA TimeShownOf ==
    ASSUME feed \in Feeds, NEW x \in AllTimers
    PROVE  /\ x \in [at : Nat, hook : HookNames \cup {"timer"}, date : Nat]
           /\ TimeShown(x) \in Nat
           /\ x.hook \notin {"after", "cross"} => TimeShown(x) = x.at
           /\ x.hook \in {"after", "cross"} =>
                 /\ setting.indexed /\ x.date \in Dates
                 /\ TimeShown(x) = x.at - 1 /\ TimeShown(x) \in TimesOn(x.date)
                 /\ DateOf(TimeShown(x)) = x.date
           /\ x.hook = "before" => x.at = FirstBar(x.date) /\ DateOf(x.at) = x.date
           /\ x.hook # "timer" => x \in FrameworkTimers /\ setting.indexed
           /\ x.hook = "timer" => \E slots \in DailyTimes : x \in DailyTimers(slots)
<1>1. CASE x \in FrameworkTimers /\ setting.indexed
  <2>1. /\ x.date \in Dates
        /\ \/ x.hook = "pre_open" /\ x.at = FirstBar(x.date) - 1
           \/ x.hook = "before" /\ x.at = FirstBar(x.date) /\ Precise
           \/ x.hook = "after" /\ x.at = LastBar(x.date) + 1
           \/ x.hook = "cross" /\ x.at = Slice(x.date) + 1
        /\ x = Timer(x.at, x.hook, x.date)
    BY <1>1, FrameworkShape
  <2>2. /\ x.date \in Nat
        /\ TimesOn(x.date) \subseteq Nat
        /\ \A t \in TimesOn(x.date) : DateOf(t) = x.date
        /\ FirstBar(x.date) \in TimesOn(x.date) /\ LastBar(x.date) \in TimesOn(x.date)
        /\ FirstBar(x.date) >= 1 /\ Slice(x.date) \in TimesOn(x.date)
    BY <2>1, DataOfDate
  <2>3. FirstBar(x.date) \in Nat /\ LastBar(x.date) \in Nat /\ Slice(x.date) \in Nat
    BY <2>2
  <2>4. x.at \in Nat /\ x.hook \in HookNames
    BY <2>1, <2>2, <2>3 DEF HookNames
  <2>5. x \in [at : Nat, hook : HookNames \cup {"timer"}, date : Nat]
    BY <2>1, <2>2, <2>4 DEF Timer
  <2>6. TimeShown(x) \in Nat /\ (x.hook \notin {"after", "cross"} => TimeShown(x) = x.at)
    BY <2>1, <2>3, <2>4 DEF TimeShown
  <2>7. x.hook \in {"after", "cross"} =>
            TimeShown(x) = x.at - 1 /\ TimeShown(x) \in TimesOn(x.date)
    BY <2>1, <2>2, <2>3 DEF TimeShown
  <2>8. x.hook = "before" => x.at = FirstBar(x.date) /\ DateOf(x.at) = x.date
    BY <2>1, <2>2
  <2>9. x.hook # "timer"
    BY <2>1
  <2> QED BY <1>1, <2>1, <2>2, <2>5, <2>6, <2>7, <2>8, <2>9
<1>2. CASE \E slots \in DailyTimes : x \in DailyTimers(slots)
  <2>1. PICK slots \in DailyTimes : x \in DailyTimers(slots)
    BY <1>2
  <2>2. x.hook = "timer" /\ x.at \in Nat /\ x.date \in Nat
    BY <2>1, DailyShape
  <2>3. \E a, h, e : x = Timer(a, h, e)
    BY <2>1 DEF DailyTimers
  <2>4. x \in [at : Nat, hook : HookNames \cup {"timer"}, date : Nat]
    BY <2>2, <2>3 DEF Timer
  <2>5. TimeShown(x) = x.at
    BY <2>2 DEF TimeShown
  <2> QED BY <1>2, <2>2, <2>4, <2>5
<1> QED BY <1>1, <1>2 DEF AllTimers

\* Two slots of one date, or of two dates that the data sets apart.
LEMMA AcrossDates ==
    ASSUME feed \in Feeds, NEW d \in Dates, NEW e \in Dates, NEW s \in TimesOn(d),
           NEW t \in TimesOn(e), s < t, t <= s + 2
    PROVE  d = e /\ DateOf(s + 1) = d
<1>1. PICK b \in feed, c \in feed : b.at = s /\ c.at = t /\ DateOf(s) = d /\ DateOf(t) = e
  BY DEF TimesOn
<1>2. s \in Nat /\ t \in Nat
  BY <1>1, FeedsAssumption
<1>3. d = e
  <2>1. d # e => s + 2 < t
    BY <1>1, FeedsAssumption
  <2> QED BY <2>1, <1>2
<1>4. DateOf(s) <= DateOf(s + 1) /\ DateOf(s + 1) <= DateOf(t)
  BY <1>2, DateOrder
<1>5. DateOf(s + 1) \in Nat /\ d \in Nat
  BY <1>2, DataOfDate, DivMod
<1> QED BY <1>1, <1>3, <1>4, <1>5

\* Timers in the order of their times show dates in their order.
LEMMA TimersInOrder ==
    ASSUME feed \in Feeds, NEW x \in AllTimers, NEW y \in AllTimers, x.at <= y.at
    PROVE  DateOf(TimeShown(x)) <= DateOf(TimeShown(y))
<1>1. TimeShown(x) \in Nat /\ TimeShown(y) \in Nat /\ x.at \in Nat /\ y.at \in Nat
  BY TimeShownOf
<1>2. CASE TimeShown(x) <= TimeShown(y)
  BY <1>1, <1>2, DateOrder
<1>3. CASE ~ (TimeShown(x) <= TimeShown(y))
  <2> DEFINE m == TimeShown(y)
             e == y.date
  <2>1. /\ x.hook \notin {"after", "cross"} /\ y.hook \in {"after", "cross"}
        /\ TimeShown(x) = x.at /\ m = y.at - 1 /\ x.at = y.at
    BY <1>1, <1>3, TimeShownOf
  <2>2. setting.indexed /\ e \in Dates /\ m \in TimesOn(e) /\ DateOf(m) = e /\ m \in Nat
    BY <1>1, <2>1, TimeShownOf
  <2>3. x.at = m + 1
    BY <1>1, <2>1
  <2> HIDE DEF m, e
  <2>4. DateOf(m + 1) = e
    <3>1. CASE x.hook = "timer"
      <4>1. PICK slots \in DailyTimes : x \in DailyTimers(slots)
        BY <3>1, TimeShownOf
      <4>2. PICK k \in slots : /\ k \in 0 .. Width - 1
                               /\ x.at = x.date * Width + k /\ DateOf(x.at) = x.date
        BY <2>2, <4>1, DailyShape
      <4>3. x.date \in Nat /\ x.date * Width \in Nat
        BY <4>1, DailyShape, MultNat
      <4>4. CASE k = 0
        <5>1. PICK b \in feed : b.at = m
          BY <2>2 DEF TimesOn
        <5> QED BY <4>4, <4>2, <5>1, <2>2, DailyAssumption
      <4>5. CASE k # 0
        <5>1. k - 1 \in 0 .. Width - 1 /\ m = x.date * Width + (k - 1)
          BY <4>2, <4>3, <4>5, <2>2, <2>3, WidthAssumption
        <5>2. DateOf(m) = x.date
          BY <5>1, <4>3, SlotOfDate
        <5> QED BY <5>2, <4>2, <2>2, <2>3
      <4> QED BY <4>4, <4>5
    <3>2. CASE x.hook # "timer"
      <4>1. x \in FrameworkTimers
        BY <3>2, TimeShownOf
      <4>2. /\ x.date \in Dates
            /\ \/ x.at = FirstBar(x.date) - 1
               \/ x.at = FirstBar(x.date)
        BY <4>1, <2>1, FrameworkShape
      <4>3. FirstBar(x.date) \in TimesOn(x.date) /\ FirstBar(x.date) \in Nat
        BY <4>2, DataOfDate
      <4>4. m < FirstBar(x.date) /\ FirstBar(x.date) <= m + 2
        BY <4>2, <4>3, <2>2, <2>3
      <4> QED BY <4>2, <4>3, <4>4, <2>2, AcrossDates
    <3> QED BY <3>1, <3>2
  <2>5. DateOf(TimeShown(x)) = e
    BY <2>1, <2>3, <2>4
  <2>6. e \in Nat
    BY <2>2, DataOfDate
  <2> QED BY <2>2, <2>5, <2>6 DEF m
<1> QED BY <1>2, <1>3

\* The events that come are on the date of this one or later.
Onward(d) ==
    /\ \A c \in ahead : d <= DateOf(c.at)
    /\ \A y \in timers \cup DailyTimers(asked) :
          y \in AllTimers /\ d <= DateOf(TimeShown(y))

\* The daily timers that wait for a context, before the first bar.
LEMMA Flushed ==
    ASSUME HooksTypeOK, Sources
    PROVE  /\ DailyTimers(asked) \subseteq AllTimers
           /\ asked = {} => DailyTimers(asked) = {}
           /\ asked # {} => asked \in DailyTimes /\ ahead = feed
<1>1. asked = {} => DailyTimers(asked) = {}
  BY DEF DailyTimers
<1>2. asked # {} => asked \in DailyTimes /\ ahead = feed
  BY DEF HooksTypeOK, Sources
<1> QED BY <1>1, <1>2 DEF AllTimers

\* A daily timer is on the date of a bar, or after all bars.
LEMMA FlushedLater ==
    ASSUME HooksTypeOK, Sources, NEW t \in Nat, NEW y \in DailyTimers(asked),
           \A c \in ahead : t <= c.at, ~setting.indexed => t <= NextDaily
    PROVE  DateOf(t) <= DateOf(TimeShown(y))
<1>1. asked \in DailyTimes /\ ahead = feed /\ feed \in Feeds
  BY Flushed DEF HooksTypeOK
<1>2. y \in AllTimers
  BY Flushed
<1>3. TimeShown(y) = y.at /\ y.at \in Nat
  BY <1>1, <1>2, DailyShape, TimeShownOf
<1>4. CASE setting.indexed
  <2>1. y.date \in Dates /\ DateOf(y.at) = y.date
    BY <1>1, <1>4, DailyShape
  <2>2. PICK c \in feed : DateOf(c.at) = y.date
    BY <2>1 DEF Dates
  <2>3. t <= c.at /\ c.at \in Nat
    BY <1>1, FeedsAssumption
  <2> QED BY <1>3, <2>1, <2>2, <2>3, DateOrder
<1>5. CASE ~setting.indexed
  BY <1>1, <1>3, <1>5, DailyShape, DateOrder
<1> QED BY <1>4, <1>5

\* The date of the event that is next is not later than any to come.
LEMMA BarOnward ==
    ASSUME HooksTypeOK, Sources, NEW b \in ahead, NoBarBefore(b.at), NoTimerUpTo(b.at)
    PROVE  b.at \in Nat /\ DateOf(b.at) \in Dates /\ Onward(DateOf(b.at))
<1>1. b \in feed /\ feed \in Feeds /\ b.at \in Nat /\ \A c \in feed : c.at \in Nat
  BY FeedsAssumption DEF HooksTypeOK
<1>2. \A c \in ahead : b.at <= c.at /\ c.at \in Nat
  BY <1>1 DEF NoBarBefore, HooksTypeOK
<1>3. \A c \in ahead : DateOf(b.at) <= DateOf(c.at)
  BY <1>1, <1>2, DateOrder
<1>4. ASSUME NEW y \in timers
      PROVE  y \in AllTimers /\ DateOf(b.at) <= DateOf(TimeShown(y))
  <2>1. y \in AllTimers /\ b.at < y.at
    BY <1>4 DEF Sources, NoTimerUpTo
  <2>2. y.at \in Nat /\ TimeShown(y) \in Nat /\ (TimeShown(y) = y.at \/ TimeShown(y) = y.at - 1)
    BY <1>1, <2>1, TimeShownOf
  <2>3. b.at <= TimeShown(y)
    BY <1>1, <2>1, <2>2
  <2> QED BY <1>1, <2>1, <2>2, <2>3, DateOrder
<1>5. ASSUME NEW y \in DailyTimers(asked)
      PROVE  y \in AllTimers /\ DateOf(b.at) <= DateOf(TimeShown(y))
  <2>1. b.at <= NextDaily
    BY <1>1, DailyAssumption
  <2> QED BY <1>1, <1>2, <2>1, Flushed, FlushedLater
<1>6. DateOf(b.at) \in Dates
  BY <1>1 DEF Dates
<1> QED BY <1>1, <1>3, <1>4, <1>5, <1>6 DEF Onward

LEMMA TimerOnward ==
    ASSUME HooksTypeOK, Sources, NEW x \in timers, NoBarBefore(x.at),
           \A y \in timers : x.at <= y.at
    PROVE  /\ x \in AllTimers /\ TimeShown(x) \in Nat /\ Onward(DateOf(TimeShown(x)))
<1>1. /\ feed \in Feeds /\ x \in AllTimers /\ TimeShown(x) \in Nat /\ x.at \in Nat
      /\ TimeShown(x) <= x.at
  <2>1. feed \in Feeds /\ x \in AllTimers
    BY DEF HooksTypeOK, Sources
  <2>2. x.at \in Nat /\ TimeShown(x) \in Nat /\ (TimeShown(x) = x.at \/ TimeShown(x) = x.at - 1)
    BY <2>1, TimeShownOf
  <2> QED BY <2>1, <2>2
<1>2. \A c \in ahead : TimeShown(x) <= c.at /\ c.at \in Nat
  <2>1. \A c \in ahead : x.at <= c.at /\ c.at \in Nat
    BY FeedsAssumption DEF NoBarBefore, HooksTypeOK
  <2> QED BY <1>1, <2>1
<1>3. \A c \in ahead : DateOf(TimeShown(x)) <= DateOf(c.at)
  BY <1>1, <1>2, DateOrder
<1>4. ASSUME NEW y \in timers
      PROVE  y \in AllTimers /\ DateOf(TimeShown(x)) <= DateOf(TimeShown(y))
  <2>1. y \in AllTimers /\ x.at <= y.at
    BY <1>4 DEF Sources
  <2> QED BY <1>1, <2>1, TimersInOrder
<1>5. ASSUME NEW y \in DailyTimers(asked)
      PROVE  y \in AllTimers /\ DateOf(TimeShown(x)) <= DateOf(TimeShown(y))
  <2>1. ~setting.indexed => TimeShown(x) <= NextDaily
    <3> SUFFICES ASSUME ~setting.indexed PROVE TimeShown(x) <= NextDaily
      OBVIOUS
    <3>1. x.hook = "timer" /\ \E slots \in DailyTimes : x \in DailyTimers(slots)
      BY <1>1, TimeShownOf
    <3>2. x.at = NextDaily
      BY <1>1, <3>1, DailyShape
    <3> QED BY <1>1, <3>2
  <2>2. y \in AllTimers
    BY Flushed
  <2>3. DateOf(TimeShown(x)) <= DateOf(TimeShown(y))
    BY <1>1, <1>2, <2>1, FlushedLater
  <2> QED BY <2>2, <2>3
<1> QED BY <1>1, <1>3, <1>4, <1>5 DEF Onward

\* A strategy that starts to handle an event at time t.
LEMMA KeptHandling ==
    ASSUME HooksTypeOK, Underway, stage = "run", NEW t \in Nat, NEW n \in 0 .. 3,
           Onward(DateOf(t)), hooks.last <= DateOf(t)
    PROVE  LET s == Handling(t, n)
           IN  /\ Kept(s) /\ ~s.failed /\ s.hooks = hooks /\ s.told = told /\ s.now = t
               /\ s.hooks.done.before <= s.hooks.last /\ s.hooks.done.after <= s.hooks.last
               /\ setting.indexed =>
                     \A d \in ActiveDates : d < DateOf(t) => d <= s.hooks.done.after
<1> DEFINE s == Handling(t, n)
<1>1. /\ s.hooks = hooks /\ s.told = told /\ s.now = t /\ s.failed = FALSE
      /\ s \in HandlingType
  BY DEF Handling, HooksTypeOK, HandlingType
<1> HIDE DEF s
<1>2. /\ hooks.done.before <= hooks.last /\ hooks.done.after <= hooks.last
      /\ hooks.done.before \in Nat /\ hooks.done.after \in Nat /\ hooks.last \in Nat
      /\ DateOf(t) \in Nat
  BY DivMod DEF Underway, Going, Upcoming, HooksTypeOK, FieldsType, HookNames
<1>3. ASSUME setting.indexed, NEW d \in ActiveDates, d < DateOf(t)
      PROVE  d <= hooks.done.after
  <2> DEFINE x == Timer(LastBar(d) + 1, "after", d)
  <2>1. x \in timers \/ d <= hooks.done.after
    BY <1>3 DEF Underway, Going, Fired
  <2>2. ASSUME x \in timers PROVE FALSE
    <3>1. x \in AllTimers /\ DateOf(t) <= DateOf(TimeShown(x))
      BY <2>2 DEF Onward
    <3>2. x.hook = "after" /\ x.date = d
      BY DEF Timer
    <3> HIDE DEF x
    <3>3. DateOf(TimeShown(x)) = d
      BY <3>1, <3>2, TimeShownOf DEF HooksTypeOK
    <3>4. d \in Nat
      BY DataOfDate DEF ActiveDates, HooksTypeOK
    <3> QED BY <3>1, <3>3, <3>4, <1>2, <1>3
  <2> QED BY <2>1, <2>2
<1>4. Ordered(s.told) /\ Marked(s) /\ UpToDone(s) /\ EndedAhead(s)
  BY <1>1 DEF Underway, Current, Marked, UpToDone, EndedAhead
<1>5. NotLater(s)
  BY <1>1, <1>2 DEF NotLater
<1>6. EndsToday(s)
  <2> SUFFICES ASSUME setting.indexed, s.hooks.done.before \in ActiveDates
               PROVE  \/ s.hooks.done.before = DateOf(s.now)
                      \/ s.hooks.done.before <= s.hooks.done.after
    BY DEF EndsToday
  <2> QED BY <1>1, <1>2, <1>3
<1>7. FailedIn(s)
  BY <1>1 DEF FailedIn, Underway, Going
<1> QED BY <1>1, <1>2, <1>3, <1>4, <1>5, <1>6, <1>7 DEF Kept, s

-----------------------------------------------------------------------------
(***************************************************************************)
(* The steps.                                                              *)
(***************************************************************************)

LEMMA SameData ==
    ASSUME UNCHANGED <<feed, start, setting>>
    PROVE  /\ Dates' = Dates /\ ActiveDates' = ActiveDates /\ Symbols' = Symbols
           /\ Precise' = Precise /\ AllTimers' = AllTimers
           /\ \A d : /\ FirstBar(d)' = FirstBar(d) /\ LastBar(d)' = LastBar(d)
                     /\ Slice(d)' = Slice(d) /\ Traded(d)' = Traded(d)
                     /\ InSession(d)' = InSession(d) /\ Followed(d)' = Followed(d)
                     /\ NeverBegan(d)' = NeverBegan(d)
           /\ \A t : Normal(t)' = Normal(t)
           /\ \A slots : DailyTimers(slots)' = DailyTimers(slots)
<1>1. Dates' = Dates /\ Symbols' = Symbols /\ Precise' = Precise
  BY DEF Dates, Symbols, Precise
<1>2. \A d : TimesOn(d)' = TimesOn(d) /\ \A y : Times(d, y)' = Times(d, y)
  BY DEF TimesOn, Times
<1>3. \A d : FirstBar(d)' = FirstBar(d) /\ LastBar(d)' = LastBar(d)
  BY <1>2 DEF FirstBar, LastBar
<1>4. \A d : Traded(d)' = Traded(d)
  BY <1>1, <1>2 DEF Traded
<1>5. \A d : Slice(d)' = Slice(d)
  BY <1>1, <1>2 DEF Slice
<1>6. ActiveDates' = ActiveDates
  BY <1>1, <1>3 DEF ActiveDates
<1>7. \A t : Normal(t)' = Normal(t)
  BY DEF Normal
<1>8. \A d : InSession(d)' = InSession(d)
  BY <1>2, <1>7 DEF InSession
<1>9. \A d : Followed(d)' = Followed(d)
  BY <1>1, <1>8 DEF Followed
<1>10. \A d : NeverBegan(d)' = NeverBegan(d)
  BY <1>1, <1>3, <1>8 DEF NeverBegan
<1>11. \A slots : DailyTimers(slots)' = DailyTimers(slots)
  BY <1>1 DEF DailyTimers
<1>12. FrameworkTimers' = FrameworkTimers
  BY <1>1, <1>3, <1>5 DEF FrameworkTimers
<1>13. AllTimers' = AllTimers
  BY <1>11, <1>12 DEF AllTimers
<1> QED BY <1>1, <1>3, <1>4, <1>5, <1>6, <1>7, <1>8, <1>9, <1>10, <1>11, <1>13

\* The same for the order of a list of callbacks.
LEMMA SameOrder ==
    ASSUME UNCHANGED <<feed, start, setting>>, NEW q, told' = q, Ordered(q)
    PROVE  Ordered(told)'
<1>1. \A h, d : CallsIn(told, h, d)' = CallsIn(q, h, d)
  BY DEF CallsIn
<1>2. /\ ActiveDates' = ActiveDates
      /\ \A d : Traded(d)' = Traded(d) /\ Followed(d)' = Followed(d) /\ FirstBar(d)' = FirstBar(d)
  BY SameData
<1>3. OnceIn(told)'
  BY <1>1, <1>2 DEF Ordered, OnceIn
<1>4. SliceIn(told)'
  BY <1>1, <1>2 DEF Ordered, SliceIn
<1>5. AfterIn(told)'
  BY <1>1, <1>2 DEF Ordered, AfterIn
<1>6. BarsIn(told)'
  BY <1>1, <1>2 DEF Ordered, BarsIn
<1>7. PreOpenIn(told)'
  BY <1>1, <1>2 DEF Ordered, PreOpenIn
<1> QED BY <1>3, <1>4, <1>5, <1>6, <1>7 DEF Ordered

\* A handler leaves the strategy as e: what holds of e holds of the run.
LEMMA HandledKept ==
    ASSUME UNCHANGED <<feed, start, setting>>, NEW e, Kept(e), Handled(e), stage = "run"
    PROVE  /\ Ordered(told)' /\ Marked(Current)' /\ UpToDone(Current)' /\ EndedAhead(Current)'
           /\ EndsToday(Current)' /\ FailedIn(Current)'
           /\ now' \in Nat /\ hooks' \in FieldsType /\ told' \in Seq(CallType)
           /\ stage' \in {"run", "raised"} /\ (stage' = "run" <=> ~e.failed)
           /\ ~e.failed => \A i \in DOMAIN told' : told'[i].returned
<1>1. /\ hooks' = e.hooks /\ told' = e.told /\ now' = e.now
      /\ stage' \in {"run", "raised"} /\ (stage' = "run" <=> ~e.failed)
      /\ (stage' = "raised" <=> e.failed)
  BY DEF Handled
<1>2. e \in HandlingType
  BY DEF Kept
<1>3. now' \in Nat /\ hooks' \in FieldsType /\ told' \in Seq(CallType)
  BY <1>1, <1>2 DEF HandlingType
<1>4. Ordered(told)'
  BY <1>1, SameOrder DEF Kept
<1>5. ActiveDates' = ActiveDates /\ \A d : NeverBegan(d)' = NeverBegan(d)
  BY SameData
<1>6. Marked(Current)' /\ UpToDone(Current)' /\ FailedIn(Current)'
  BY <1>1 DEF Kept, Marked, UpToDone, FailedIn, Current, Called, CallsIn
<1>7. EndedAhead(Current)'
  BY <1>1, <1>5 DEF Kept, EndedAhead, Current
<1>8. EndsToday(Current)'
  BY <1>1, <1>5 DEF Kept, EndsToday, Current, DateOf
<1>9. ~e.failed => \A i \in DOMAIN told' : told'[i].returned
  BY <1>1 DEF Kept, FailedIn
<1> QED BY <1>1, <1>3, <1>4, <1>6, <1>7, <1>8, <1>9

\* What an event of date d keeps of the run: its callbacks came after the others,
\* those it began and ended dates with, and one of hook h for date e.
Carried(d, h, e) ==
    /\ \A x, y : CallsIn(told, x, y) \subseteq CallsIn(told', x, y)
    /\ \A i \in DOMAIN told : told'[i] = told[i]
    /\ \A i \in DOMAIN told' \ DOMAIN told :
          \/ told'[i].hook = "before"
          \/ told'[i].hook = "after" /\ (~setting.enforced => told'[i].date < d)
          \/ told'[i].hook = h /\ told'[i].date = e
    /\ hooks.done.before <= hooks'.done.before
    /\ hooks.done.after <= hooks'.done.after
    /\ hooks'.done.before <= d /\ hooks'.done.after <= d

\* Which hooks an event may have called.
LEMMA CarriedCalls ==
    ASSUME NEW d, NEW h, NEW e, Carried(d, h, e)
    PROVE  /\ \A x, y : Called(told, x, y) => Called(told', x, y)
           /\ \A y : PreOpened(told, y) => \E i \in CallsIn(told', "pre_open", y) :
                                              told'[i].at < FirstBar(y)
           /\ \A y, z : BarTold(told, y, z) => BarTold(told', y, z)
           /\ \A x, y : x \notin {"before", "after"} /\ ~(x = h /\ y = e) /\ Called(told', x, y)
                 => Called(told, x, y)
           /\ \A y : ~setting.enforced /\ ~(h = "after" /\ e = y) /\ ~(y < d)
                         /\ Called(told', "after", y) => Called(told, "after", y)
<1>1. \A x, y : CallsIn(told, x, y) \subseteq CallsIn(told', x, y)
  BY DEF Carried
<1>2. \A x, y : \A i \in CallsIn(told, x, y) : told'[i] = told[i]
  BY DEF Carried, CallsIn
<1>3. \A x, y : Called(told, x, y) => Called(told', x, y)
  BY <1>1 DEF Called
<1>4. \A y : PreOpened(told, y) => \E i \in CallsIn(told', "pre_open", y) :
                                      told'[i].at < FirstBar(y)
  BY <1>1, <1>2 DEF PreOpened
<1>5. \A y, z : BarTold(told, y, z) => BarTold(told', y, z)
  BY <1>1, <1>2 DEF BarTold
<1>6. ASSUME NEW x, NEW y, x \notin {"before", "after"}, ~(x = h /\ y = e), Called(told', x, y)
      PROVE  Called(told, x, y)
  <2>1. PICK i \in DOMAIN told' : told'[i].hook = x /\ told'[i].date = y
    BY <1>6 DEF Called, CallsIn
  <2>2. i \in DOMAIN told
    BY <1>6, <2>1 DEF Carried
  <2>3. told[i].hook = x /\ told[i].date = y
    BY <2>1, <2>2 DEF Carried
  <2> QED BY <2>2, <2>3 DEF Called, CallsIn
<1>7. ASSUME NEW y, ~setting.enforced, ~(h = "after" /\ e = y), ~(y < d), Called(told', "after", y)
      PROVE  Called(told, "after", y)
  <2>1. PICK i \in DOMAIN told' : told'[i].hook = "after" /\ told'[i].date = y
    BY <1>7 DEF Called, CallsIn
  <2>2. i \in DOMAIN told
    BY <1>7, <2>1 DEF Carried
  <2>3. told[i].hook = "after" /\ told[i].date = y
    BY <2>1, <2>2 DEF Carried
  <2> QED BY <2>2, <2>3 DEF Called, CallsIn
<1> QED BY <1>3, <1>4, <1>5, <1>6, <1>7

\* The begin and end of dates, then one callback of hook h for date e.
LEMMA CarriedBy ==
    ASSUME NEW k, NEW s, NEW u, NEW t, NEW h, NEW e,
           k.told = told, k.hooks = hooks, told' = u.told, hooks' = u.hooks,
           Kept(k), Began(k, s, t), Kept(u), Did(s, u, h, e)
    PROVE  Carried(DateOf(k.now), h, e)
<1>1. /\ DOMAIN told \subseteq DOMAIN told'
      /\ \A i \in DOMAIN told : told'[i] = told[i]
  BY DEF Began, Did
<1>2. \A x, y : CallsIn(told, x, y) \subseteq CallsIn(told', x, y)
  BY <1>1 DEF CallsIn
<1>3. ASSUME NEW i \in DOMAIN told' \ DOMAIN told
      PROVE  \/ told'[i].hook = "before"
             \/ told'[i].hook = "after" /\ (~setting.enforced => told'[i].date < DateOf(k.now))
             \/ told'[i].hook = h /\ told'[i].date = e
  <2>1. CASE i \in DOMAIN s.told
    <3>1. i \in New(k, s) /\ told'[i] = s.told[i]
      BY <2>1, <1>3 DEF New, Did
    <3> QED BY <3>1 DEF Began
  <2>2. CASE i \notin DOMAIN s.told
    <3>1. i \in New(s, u)
      BY <2>2, <1>3 DEF New
    <3> QED BY <3>1 DEF Did
  <2> QED BY <2>1, <2>2
<1>4. /\ k.hooks.done.before <= u.hooks.done.before /\ k.hooks.done.after <= u.hooks.done.after
  <2>1. /\ k.hooks.done.before <= s.hooks.done.before /\ s.hooks.done.before <= u.hooks.done.before
        /\ k.hooks.done.after <= s.hooks.done.after /\ s.hooks.done.after <= u.hooks.done.after
    BY DEF Began, Did
  <2>2. /\ k.hooks.done.before \in Nat /\ k.hooks.done.after \in Nat
        /\ s.hooks.done.before \in Nat /\ s.hooks.done.after \in Nat
        /\ u.hooks.done.before \in Nat /\ u.hooks.done.after \in Nat
    BY DoneTyped DEF Began
  <2> QED BY <2>1, <2>2
<1>5. u.hooks.done.before <= DateOf(k.now) /\ u.hooks.done.after <= DateOf(k.now)
  <2>1. u.now = k.now
    BY DEF Did, Began
  <2> QED BY <2>1 DEF Kept, NotLater
<1> QED BY <1>1, <1>2, <1>3, <1>4, <1>5 DEF Carried

\* The types of the variables that an event changes.
LEMMA EventTypes ==
    ASSUME HooksTypeOK, Underway, stage = "run", UNCHANGED <<feed, start, setting>>, NEW d,
           Onward(d), ahead' \subseteq ahead, asked' = {},
           timers' \subseteq timers \cup DailyTimers(asked), now' \in Nat,
           hooks' \in FieldsType, told' \in Seq(CallType), stage' \in {"run", "raised"}
    PROVE  HooksTypeOK' /\ Sources'
<1>1. \A y \in timers \cup DailyTimers(asked) : y \in AllTimers
  BY DEF Onward
<1>2. AllTimers' = AllTimers
  BY SameData
<1>3. timers' \subseteq [at : Nat, hook : HookNames \cup {"timer"}, date : Nat]
  <2>1. feed \in Feeds
    BY DEF HooksTypeOK
  <2> QED BY <1>1, <2>1, TimeShownOf
<1>4. HooksTypeOK'
  BY <1>3 DEF HooksTypeOK
<1>5. Sources'
  BY <1>1, <1>2 DEF Sources
<1> QED BY <1>4, <1>5

\* Preload: an event before the start leaves the strategy alone.
LEMMA UnseenBar ==
    ASSUME HooksTypeOK, Underway, stage = "run", NEW b \in ahead, NEW n \in 0 .. 3,
           BarEvent(b, n), b.at < start
    PROVE  HooksTypeOK' /\ Underway' /\ Ordered(told)'
<1> DEFINE d == DateOf(b.at)
<1>1. /\ NoBarBefore(b.at) /\ NoTimerUpTo(b.at)
      /\ ahead' = ahead \ {b} /\ timers' = timers \cup DailyTimers(asked) /\ asked' = {}
      /\ now' = b.at /\ UNCHANGED <<hooks, told, stage, feed, start, setting>>
  BY DEF BarEvent, Unseen
<1>2. /\ Upcoming /\ Sources /\ Fired /\ Unfired /\ Seen /\ Continuous
      /\ Ordered(told) /\ \A i \in DOMAIN told : told[i].returned
  BY DEF Underway, Going
<1>3. b.at \in Nat /\ Onward(d)
  BY <1>1, <1>2, BarOnward
<1>4. HooksTypeOK' /\ Sources'
  <2>1. now' \in Nat /\ hooks' \in FieldsType /\ told' \in Seq(CallType) /\ stage' \in {"run", "raised"}
    BY <1>1, <1>3 DEF HooksTypeOK
  <2> QED BY <1>1, <1>3, <2>1, EventTypes
<1>5. Ordered(told)'
  BY <1>1, <1>2, SameOrder
<1>6. /\ ActiveDates' = ActiveDates /\ Precise' = Precise
      /\ \A e : /\ FirstBar(e)' = FirstBar(e) /\ LastBar(e)' = LastBar(e) /\ Slice(e)' = Slice(e)
                /\ NeverBegan(e)' = NeverBegan(e)
      /\ \A t : Normal(t)' = Normal(t)
  BY <1>1, SameData
<1>7. Marked(Current)' /\ UpToDone(Current)' /\ EndedAhead(Current)'
  BY <1>1, <1>6 DEF Underway, Current, Marked, UpToDone, EndedAhead, Called, CallsIn
<1>8. Upcoming'
  <2>1. hooks.last <= d /\ hooks.last \in Nat /\ d \in Nat
    BY <1>2, <1>3, DivMod DEF Upcoming, HooksTypeOK, FieldsType
  <2>2. \A x \in timers' : d <= DateOf(TimeShown(x)) /\ DateOf(TimeShown(x)) \in Nat
    <3>1. feed \in Feeds
      BY DEF HooksTypeOK
    <3> QED BY <1>1, <1>3, <3>1, TimeShownOf, DivMod DEF Onward
  <2>3. \A x \in timers' : hooks.last <= DateOf(TimeShown(x))
    BY <2>1, <2>2
  <2> HIDE DEF d
  <2> QED BY <1>1, <1>2, <2>3 DEF Upcoming, DateOf, TimeShown
<1>9. Fired'
  BY <1>1, <1>2, <1>6 DEF Fired, Called, CallsIn, PreOpened, Timer
<1>10. Unfired'
  <2>1. \A x \in DailyTimers(asked) : x.hook = "timer"
    BY DEF DailyTimers, Timer
  <2> QED BY <1>1, <1>2, <2>1 DEF Unfired, Called, CallsIn
<1>11. Seen'
  <2>1. \A c \in feed \ ahead' : c.at >= start => c \in feed \ ahead
    <3>1. start \in Nat /\ b.at \in Nat
      BY <1>3, StartsAssumption DEF HooksTypeOK
    <3> QED BY <1>1, <3>1
  <2> HIDE DEF d
  <2> QED BY <1>1, <1>2, <1>6, <2>1 DEF Seen, BarTold, CallsIn, DateOf
<1>12. Continuous'
  BY <1>1, <1>2, <1>6 DEF Continuous, Called, CallsIn, BeginsEnd, Current, DateOf
<1>13. Underway'
  BY <1>1, <1>2, <1>4, <1>5, <1>7, <1>8, <1>9, <1>10, <1>11, <1>12, stage' # "raised"
     DEF Underway, Going
<1> QED BY <1>4, <1>5, <1>13

\* A bar of the active time keeps the invariant.
LEMMA SeenBar ==
    ASSUME HooksTypeOK, Underway, stage = "run", NEW b \in ahead, NEW n \in 0 .. 3,
           BarEvent(b, n), ~(b.at < start)
    PROVE  HooksTypeOK' /\ Underway' /\ Ordered(told)' /\ stage' # "stopped"
<1> DEFINE d == DateOf(b.at)
           k == Handling(b.at, n)
           s == TimeHooks(k, b.at)
           u == Calling(s, "bar", d, b.symbol)
<1>1. /\ NoBarBefore(b.at) /\ NoTimerUpTo(b.at)
      /\ ahead' = ahead \ {b} /\ timers' = timers \cup DailyTimers(asked) /\ asked' = {}
      /\ Handled(u) /\ UNCHANGED <<feed, start, setting>>
  BY DEF BarEvent
<1>2. /\ Upcoming /\ Sources /\ Fired /\ Unfired /\ Seen /\ Continuous
      /\ Ordered(told) /\ \A i \in DOMAIN told : told[i].returned
  BY DEF Underway, Going
<1>3. b.at \in Nat /\ d \in Dates /\ Onward(d)
  BY <1>1, <1>2, BarOnward
<1>4. /\ feed \in Feeds /\ setting \in SettingType /\ b \in feed /\ start \in Nat
  BY SettingsAssumption, StartsAssumption DEF HooksTypeOK
<1>5. d \in Nat /\ d # NoDate /\ b.at \in TimesOn(d) /\ FirstBar(d) <= b.at /\ FirstBar(d) \in Nat
  <2>1. b.at \in TimesOn(d)
    BY <1>4 DEF TimesOn
  <2> HIDE DEF d
  <2>2. /\ d \in Nat /\ d # NoDate /\ FirstBar(d) <= b.at
        /\ TimesOn(d) \subseteq Nat /\ FirstBar(d) \in TimesOn(d)
    BY <2>1, <1>3, <1>4, DataOfDate
  <2> QED BY <2>1, <2>2
<1>6. hooks.last <= d
  BY <1>2 DEF Upcoming
<1>7. /\ Kept(k) /\ ~k.failed /\ k.hooks = hooks /\ k.told = told /\ k.now = b.at
      /\ k.hooks.done.before <= k.hooks.last /\ k.hooks.done.after <= k.hooks.last
      /\ setting.indexed =>
            \A e \in ActiveDates : e < d => e <= k.hooks.done.after
  BY <1>3, <1>6, KeptHandling
<1> HIDE DEF k
<1>8. Began(k, s, b.at) /\ s.now = b.at
  <2>1. ~setting.enforced /\ ~Precise => k.hooks.last = k.hooks.done.before
    BY <1>2, <1>7 DEF Continuous
  <2>2. Began(k, s, b.at)
    BY <1>3, <1>4, <1>6, <1>7, <2>1, BegunDates
  <2> QED BY <2>2, <1>7 DEF Began
<1> HIDE DEF s
<1>9. Kept(s) /\ (~s.failed => s.hooks.last = d)
  BY <1>7, <1>8 DEF Began
<1>10. /\ \A x, y : Called(told, x, y) => Called(s.told, x, y)
       /\ \A y : PreOpened(told, y) => PreOpened(s.told, y)
       /\ ~setting.enforced /\ Called(s.told, "after", d) => Called(told, "after", d)
  <2>1. Did(s, s, "bar", d)
    BY <1>9, DidNothing
  <2>2. /\ DOMAIN told \subseteq DOMAIN s.told
        /\ \A i \in DOMAIN told : s.told[i] = told[i]
    BY <1>7, <1>8 DEF Began
  <2>3. \A x, y : CallsIn(told, x, y) \subseteq CallsIn(s.told, x, y)
    BY <2>2 DEF CallsIn
  <2>4. ASSUME ~setting.enforced, Called(s.told, "after", d) PROVE Called(told, "after", d)
    <3>1. PICK i \in DOMAIN s.told : s.told[i].hook = "after" /\ s.told[i].date = d
      BY <2>4 DEF Called, CallsIn
    <3>2. i \in DOMAIN told
      <4>1. i \in DOMAIN k.told \/ i \in New(k, s)
        BY DEF New
      <4>2. i \in New(k, s) => s.told[i].date < d
        BY <2>4, <3>1, <1>7, <1>8 DEF Began
      <4> HIDE DEF d
      <4> QED BY <4>1, <4>2, <3>1, <1>5, <1>7
    <3> QED BY <2>2, <3>1, <3>2 DEF Called, CallsIn
  <2> QED BY <2>2, <2>3, <2>4 DEF Called, PreOpened, CallsIn
<1>11. ASSUME ~s.failed, d \in ActiveDates
       PROVE  /\ ~setting.enforced => Called(s.told, "before", d) /\ ~Called(s.told, "after", d)
              /\ setting.indexed /\ FirstBar(d) > start => PreOpened(s.told, d)
  <2>1. ASSUME setting.indexed, FirstBar(d) > start PROVE PreOpened(told, d)
    <3>1. Timer(FirstBar(d) - 1, "pre_open", d) \in timers => FALSE
      <4>1. Timer(FirstBar(d) - 1, "pre_open", d) \in timers => b.at < FirstBar(d) - 1
        BY <1>1 DEF NoTimerUpTo, Timer
      <4> QED BY <4>1, <1>3, <1>5
    <3> QED BY <3>1, <2>1, <1>2, <1>11 DEF Fired
  <2>2. ASSUME ~setting.enforced PROVE ~Called(s.told, "after", d)
    BY <2>2, <1>2, <1>10 DEF Continuous
  <2>3. ASSUME ~setting.enforced PROVE Called(s.told, "before", d)
    <3>1. CASE Precise
      <4>1. Timer(FirstBar(d), "before", d) \in timers => FALSE
        <5>1. Timer(FirstBar(d), "before", d) \in timers => b.at < FirstBar(d)
          BY <1>1 DEF NoTimerUpTo, Timer
        <5> QED BY <5>1, <1>3, <1>5
      <4>2. Called(told, "before", d)
        BY <3>1, <4>1, <1>2, <1>11 DEF Fired, Precise
      <4> QED BY <4>2, <1>10
    <3>2. CASE ~Precise
      <4>1. s.hooks.done.before = d
        BY <2>3, <3>2, <1>7, <1>8, <1>11 DEF Began, Normal
      <4> HIDE DEF d
      <4> QED BY <4>1, <1>5, <1>9 DEF Kept, Marked, HookNames
    <3> QED BY <3>1, <3>2
  <2> QED BY <2>1, <2>2, <2>3, <1>10
<1>12. /\ Kept(u) /\ Did(s, u, "bar", d) /\ u.now = b.at
       /\ (~u.failed) => (~s.failed) /\ BarTold(u.told, d, b.symbol)
  <2>1. CASE s.failed
    <3>1. u = s
      BY <2>1 DEF Calling
    <3> HIDE DEF u
    <3> QED BY <2>1, <3>1, <1>8, <1>9, DidNothing
  <2>2. CASE ~s.failed
    <3>1. Permitted(s, "bar", d)
      BY <2>2, <1>11 DEF Permitted
    <3>2. b.symbol \in AllSymbols
      BY <1>4 DEF AllSymbols
    <3>3. "bar" \in HookNames \cup {"bar", "timer"}
      OBVIOUS
    <3> HIDE DEF d
    <3>4. /\ Kept(u) /\ Did(s, u, "bar", d)
          /\ \E i \in CallsIn(u.told, "bar", d) : u.told[i].symbol = b.symbol
      BY <2>2, <3>1, <3>2, <3>3, <1>4, <1>5, <1>9, DidCalling
    <3> HIDE DEF u
    <3> QED BY <2>2, <3>4, <1>8 DEF BarTold, Did
  <2> QED BY <2>1, <2>2
<1> HIDE DEF u
<1>13. /\ Ordered(told)' /\ Marked(Current)' /\ UpToDone(Current)' /\ EndedAhead(Current)'
       /\ EndsToday(Current)' /\ FailedIn(Current)'
       /\ now' \in Nat /\ hooks' \in FieldsType /\ told' \in Seq(CallType)
       /\ stage' \in {"run", "raised"} /\ (stage' = "run" <=> ~u.failed)
       /\ ~u.failed => \A i \in DOMAIN told' : told'[i].returned
  BY <1>1, <1>12, HandledKept
<1>14. HooksTypeOK' /\ Sources'
  BY <1>1, <1>3, <1>13, EventTypes
<1>15. ASSUME stage' = "run" PROVE Going'
  <2>1. ~u.failed /\ ~s.failed /\ hooks' = u.hooks /\ told' = u.told
    BY <1>1, <1>12, <1>13, <1>15 DEF Handled
  <2>2. Carried(d, "bar", d)
    BY <2>1, <1>7, <1>8, <1>12, CarriedBy
  <2>3. /\ \A x, y : Called(told, x, y) => Called(told', x, y)
        /\ \A y : PreOpened(told, y) => \E i \in CallsIn(told', "pre_open", y) :
                                           told'[i].at < FirstBar(y)
        /\ \A y, z : BarTold(told, y, z) => BarTold(told', y, z)
        /\ \A x, y : x \notin {"before", "after"} /\ ~(x = "bar" /\ y = d) /\ Called(told', x, y)
              => Called(told, x, y)
        /\ \A y : ~setting.enforced /\ ~(y < d) /\ Called(told', "after", y)
              => Called(told, "after", y)
    BY <2>2, CarriedCalls
  <2>4. hooks'.last = d
    BY <2>1, <1>9, <1>12 DEF Did
  <2>5. /\ ActiveDates' = ActiveDates /\ Precise' = Precise
        /\ \A e : FirstBar(e)' = FirstBar(e) /\ LastBar(e)' = LastBar(e) /\ Slice(e)' = Slice(e)
        /\ \A t : Normal(t)' = Normal(t)
    BY <1>1, SameData
  <2>6. /\ hooks.done.before <= hooks'.done.before /\ hooks.done.after <= hooks'.done.after
        /\ hooks'.done.before <= d /\ hooks'.done.after <= d
        /\ hooks.done.before \in Nat /\ hooks'.done.before \in Nat
        /\ hooks.done.after \in Nat /\ hooks'.done.after \in Nat
    BY <2>2, <1>13 DEF Carried, HooksTypeOK, FieldsType, HookNames
  <2> HIDE DEF d
  <2>7. Upcoming'
    <3>1. \A x \in timers' : d <= DateOf(TimeShown(x))
      BY <1>1, <1>3 DEF Onward
    <3>2. \A c \in ahead' : d <= DateOf(c.at)
      BY <1>1, <1>3 DEF Onward
    <3> QED BY <2>4, <2>6, <3>1, <3>2 DEF Upcoming, DateOf, TimeShown
  <2>8. Fired'
    <3> SUFFICES ASSUME setting.indexed, NEW e \in ActiveDates
                 PROVE  /\ Timer(Slice(e) + 1, "cross", e) \in timers' \/ Called(told', "cross", e)
                        /\ \/ Timer(LastBar(e) + 1, "after", e) \in timers'
                           \/ Called(told', "after", e) /\ e <= hooks'.done.after
                        /\ Precise => \/ Timer(FirstBar(e), "before", e) \in timers'
                                      \/ Called(told', "before", e) /\ e <= hooks'.done.before
                        /\ FirstBar(e) > start =>
                              \/ Timer(FirstBar(e) - 1, "pre_open", e) \in timers'
                              \/ \E i \in CallsIn(told', "pre_open", e) :
                                    told'[i].at < FirstBar(e)
      BY <1>1, <2>5 DEF Fired, Called, CallsIn, PreOpened, Timer
    <3>1. e \in Nat
      BY <1>4, DataOfDate DEF ActiveDates
    <3>2. timers \subseteq timers'
      BY <1>1
    <3> QED BY <3>1, <3>2, <1>2, <2>3, <2>6 DEF Fired
  <2>9. Unfired'
    <3>1. \A x \in DailyTimers(asked) : x.hook = "timer"
      BY DEF DailyTimers, Timer
    <3> SUFFICES ASSUME NEW x \in timers, x.hook \in {"pre_open", "cross"},
                        Called(told', x.hook, x.date)
                 PROVE  FALSE
      BY <1>1, <3>1 DEF Unfired, Called, CallsIn
    <3> QED BY <1>2, <2>3 DEF Unfired
  <2>10. Seen'
    <3>1. ASSUME NEW c \in feed \ ahead', c.at >= start
          PROVE  /\ BarTold(told', DateOf(c.at), c.symbol)
                 /\ ~Precise /\ Normal(c.at) => DateOf(c.at) <= hooks'.done.before
      <4>1. CASE c = b
        <5>1. BarTold(told', d, b.symbol)
          BY <2>1, <1>12
        <5>2. ~Precise /\ Normal(b.at) => s.hooks.done.before = DateOf(k.now)
          BY <2>1, <1>8 DEF Began
        <5>3. s.hooks.done.before <= u.hooks.done.before
          BY <1>12 DEF Did
        <5> QED BY <4>1, <5>1, <5>2, <5>3, <2>1, <1>7 DEF d
      <4>2. CASE c # b
        <5>1. c \in feed \ ahead /\ DateOf(c.at) \in Nat
          BY <4>2, <1>1, <1>4, <3>1, FeedsAssumption, DivMod
        <5> QED BY <5>1, <3>1, <1>2, <2>3, <2>6 DEF Seen
      <4> QED BY <4>1, <4>2
    <3> QED BY <1>1, <2>5, <3>1 DEF Seen, BarTold, CallsIn, DateOf
  <2>11. Continuous'
    <3> SUFFICES ASSUME ~setting.enforced
                 PROVE  /\ \A c \in ahead' : ~Called(told', "after", DateOf(c.at))
                        /\ ~Precise => hooks'.last = hooks'.done.before
                        /\ ~setting.indexed => BeginsEnd(u)
      BY <1>1, <2>1, <2>5 DEF Continuous, Called, CallsIn, BeginsEnd, Current, DateOf
    <3>1. \A c \in ahead' : ~Called(told', "after", DateOf(c.at))
      <4> SUFFICES ASSUME NEW c \in ahead', Called(told', "after", DateOf(c.at))
                   PROVE  FALSE
        OBVIOUS
      <4>1. c \in ahead /\ d <= DateOf(c.at) /\ DateOf(c.at) \in Nat
        BY <1>1, <1>3, FeedsAssumption, DivMod DEF Onward, HooksTypeOK
      <4>2. Called(told, "after", DateOf(c.at))
        BY <4>1, <2>3, <1>5
      <4> QED BY <4>1, <4>2, <1>2 DEF Continuous
    <3>2. ~Precise => s.hooks.done.before = d
      BY <2>1, <1>7, <1>8 DEF Began, Normal, d
    <3>3. u.hooks.done.before = s.hooks.done.before
      BY <1>12 DEF Did, HookNames
    <3>4. ~Precise /\ BeginsEnd(k) => BeginsEnd(s)
      BY <2>1, <1>8 DEF Began
    <3>5. ASSUME ~setting.indexed PROVE BeginsEnd(u)
      <4>1. BeginsEnd(k) /\ ~Precise
        BY <3>5, <1>2, <1>7 DEF Continuous, BeginsEnd, Current, Precise
      <4>2. BeginsEnd(s)
        BY <3>4, <4>1
      <4>3. \A x, y : Called(s.told, x, y) => Called(u.told, x, y)
        BY <1>12, CalledGrows DEF Did
      <4>4. \A i \in DOMAIN u.told : u.told[i].hook = "before" =>
               i \in DOMAIN s.told /\ u.told[i] = s.told[i]
        BY <1>12 DEF Did, New
      <4> QED BY <3>3, <4>2, <4>3, <4>4 DEF BeginsEnd
    <3> QED BY <2>1, <2>4, <3>1, <3>2, <3>3, <3>5
  <2>12. \A i \in DOMAIN told' : told'[i].returned
    BY <2>1, <1>13
  <2> QED BY <2>7, <2>8, <2>9, <2>10, <2>11, <2>12, <1>14 DEF Going
<1>16. Underway'
  BY <1>13, <1>15 DEF Underway
<1> QED BY <1>13, <1>14, <1>16

\* A timer before the active time keeps the invariant.
LEMMA UnseenTimer ==
    ASSUME HooksTypeOK, Underway, stage = "run", NEW x \in timers, NEW n \in 0 .. 3,
           TimerEvent(x, n), TimeShown(x) < start
    PROVE  HooksTypeOK' /\ Underway' /\ Ordered(told)'
<1> DEFINE t == TimeShown(x)
           d == DateOf(t)
<1>1. /\ NoBarBefore(x.at) /\ \A y \in timers : x.at <= y.at
      /\ ahead' = ahead /\ timers' = (timers \ {x}) \cup DailyTimers(asked) /\ asked' = {}
      /\ now' = t /\ UNCHANGED <<hooks, told, stage, feed, start, setting>>
  BY DEF TimerEvent, Unseen
<1>2. /\ Upcoming /\ Sources /\ Fired /\ Unfired /\ Seen /\ Continuous
      /\ Ordered(told) /\ \A i \in DOMAIN told : told[i].returned
  BY DEF Underway, Going
<1>3. x \in AllTimers /\ t \in Nat /\ Onward(d)
  BY <1>1, <1>2, TimerOnward
<1>4. HooksTypeOK' /\ Sources'
  <2>1. now' \in Nat /\ hooks' \in FieldsType /\ told' \in Seq(CallType) /\ stage' \in {"run", "raised"}
    BY <1>1, <1>3 DEF HooksTypeOK
  <2> HIDE DEF d
  <2> QED BY <1>1, <1>3, <2>1, EventTypes
<1>5. Ordered(told)'
  BY <1>1, <1>2, SameOrder
<1>6. /\ ActiveDates' = ActiveDates /\ Precise' = Precise
      /\ \A e : /\ FirstBar(e)' = FirstBar(e) /\ LastBar(e)' = LastBar(e) /\ Slice(e)' = Slice(e)
                /\ NeverBegan(e)' = NeverBegan(e)
      /\ \A y : Normal(y)' = Normal(y)
  BY <1>1, SameData
<1>7. Marked(Current)' /\ UpToDone(Current)' /\ EndedAhead(Current)'
  BY <1>1, <1>6 DEF Underway, Current, Marked, UpToDone, EndedAhead, Called, CallsIn
<1>8. Upcoming'
  <2>1. hooks.last <= d /\ hooks.last \in Nat /\ d \in Nat
    BY <1>2, <1>3, DivMod DEF Upcoming, HooksTypeOK, FieldsType
  <2>2. \A y \in timers' : d <= DateOf(TimeShown(y)) /\ DateOf(TimeShown(y)) \in Nat
    <3>1. feed \in Feeds
      BY DEF HooksTypeOK
    <3> HIDE DEF d
    <3> QED BY <1>1, <1>3, <3>1, TimeShownOf, DivMod DEF Onward
  <2>3. \A y \in timers' : hooks.last <= DateOf(TimeShown(y))
    BY <2>1, <2>2
  <2> HIDE DEF d, t
  <2> QED BY <1>1, <1>2, <2>3 DEF Upcoming, DateOf, TimeShown
<1>9. Fired'
  <2> SUFFICES ASSUME setting.indexed, NEW e \in ActiveDates
               PROVE  /\ Timer(Slice(e) + 1, "cross", e) # x
                      /\ Timer(LastBar(e) + 1, "after", e) # x
                      /\ Timer(FirstBar(e), "before", e) # x
                      /\ FirstBar(e) > start => Timer(FirstBar(e) - 1, "pre_open", e) # x
    BY <1>1, <1>2, <1>6 DEF Fired, Called, CallsIn, PreOpened, Timer
  <2>1. /\ feed \in Feeds /\ e \in Dates /\ start \in Nat /\ FirstBar(e) >= start
    BY StartsAssumption DEF HooksTypeOK, ActiveDates
  <2>2. /\ TimesOn(e) \subseteq Nat
        /\ \A y \in TimesOn(e) : FirstBar(e) <= y
        /\ FirstBar(e) \in TimesOn(e) /\ LastBar(e) \in TimesOn(e) /\ Slice(e) \in TimesOn(e)
    BY <2>1, DataOfDate
  <2>3. /\ FirstBar(e) \in Nat /\ LastBar(e) \in Nat /\ Slice(e) \in Nat
        /\ start <= LastBar(e) /\ start <= Slice(e)
    BY <2>1, <2>2
  <2>4. /\ TimeShown(Timer(Slice(e) + 1, "cross", e)) = Slice(e)
        /\ TimeShown(Timer(LastBar(e) + 1, "after", e)) = LastBar(e)
        /\ TimeShown(Timer(FirstBar(e), "before", e)) = FirstBar(e)
        /\ TimeShown(Timer(FirstBar(e) - 1, "pre_open", e)) = FirstBar(e) - 1
    BY <2>3 DEF TimeShown, Timer
  <2> HIDE DEF d
  <2>5. FirstBar(e) > start => ~ (FirstBar(e) - 1 < start)
    BY <2>1, <2>3
  <2>6. ~ (Slice(e) < start) /\ ~ (LastBar(e) < start) /\ ~ (FirstBar(e) < start)
    BY <2>1, <2>3
  <2> QED BY <2>4, <2>5, <2>6
<1>10. Unfired'
  <2>1. \A y \in DailyTimers(asked) : y.hook = "timer"
    BY DEF DailyTimers, Timer
  <2> QED BY <1>1, <1>2, <2>1 DEF Unfired, Called, CallsIn
<1>11. Seen'
  <2> HIDE DEF d, t
  <2> QED BY <1>1, <1>2, <1>6 DEF Seen, BarTold, CallsIn, DateOf
<1>12. Continuous'
  <2> HIDE DEF d, t
  <2> QED BY <1>1, <1>2, <1>6 DEF Continuous, Called, CallsIn, BeginsEnd, Current, DateOf
<1>13. Underway'
  BY <1>1, <1>2, <1>4, <1>5, <1>7, <1>8, <1>9, <1>10, <1>11, <1>12, stage' # "raised"
     DEF Underway, Going
<1> QED BY <1>4, <1>5, <1>13

\* A hook's timer, when the dates up to its time have begun and ended as s.
LEMMA TimerPermitted ==
    ASSUME HooksTypeOK, Underway, stage = "run", NEW x \in timers, x.hook # "timer",
           NoBarBefore(x.at), \A y \in timers : x.at <= y.at,
           NEW n, NEW s, Began(Handling(TimeShown(x), n), s, x.at), ~s.failed,
           Kept(Handling(TimeShown(x), n)), ~ (TimeShown(x) < start),
           s.hooks.done[x.hook] # x.date
    PROVE  Permitted(s, x.hook, x.date)
<1> DEFINE d == x.date
           k == Handling(TimeShown(x), n)
<1>1. /\ Upcoming /\ Sources /\ Fired /\ Unfired /\ Seen /\ Continuous
  BY DEF Underway, Going
<1>2. k.hooks = hooks /\ k.told = told /\ k.now = TimeShown(x)
  BY DEF Handling
<1>3. /\ feed \in Feeds /\ start \in Nat /\ x \in AllTimers
  BY <1>1, StartsAssumption DEF HooksTypeOK, Sources
<1>4. x \in FrameworkTimers /\ setting.indexed
  BY <1>3, TimeShownOf
<1>5. /\ d \in Dates
      /\ \/ x.hook = "pre_open" /\ x.at = FirstBar(d) - 1
         \/ x.hook = "before" /\ x.at = FirstBar(d) /\ Precise
         \/ x.hook = "after" /\ x.at = LastBar(d) + 1
         \/ x.hook = "cross" /\ x.at = Slice(d) + 1
      /\ x = Timer(x.at, x.hook, d)
  BY <1>3, <1>4, FrameworkShape
<1>6. /\ TimeShown(x) \in Nat
      /\ x.hook \in {"after", "cross", "before"} => DateOf(TimeShown(x)) = d
  BY <1>3, TimeShownOf
<1>7. /\ d \in Nat /\ d # NoDate
      /\ TimesOn(d) \subseteq Nat
      /\ \A t \in TimesOn(d) : DateOf(t) = d /\ FirstBar(d) <= t /\ t <= LastBar(d)
      /\ FirstBar(d) \in TimesOn(d) /\ LastBar(d) \in TimesOn(d) /\ Slice(d) \in TimesOn(d)
      /\ \A y \in Symbols : Times(d, y) # {} =>
            Min(Times(d, y)) \in Times(d, y) /\ Min(Times(d, y)) <= Slice(d)
  BY <1>3, <1>5, DataOfDate
<1> HIDE DEF k, d
<1>8. /\ Kept(s) /\ s.now = TimeShown(x)
      /\ DOMAIN told \subseteq DOMAIN s.told /\ \A i \in DOMAIN told : s.told[i] = told[i]
      /\ \A i \in New(k, s) : s.told[i].hook \in {"before", "after"}
      /\ hooks.done.before <= s.hooks.done.before /\ hooks.done.after <= s.hooks.done.after
  BY <1>2 DEF Began, k
<1>9. /\ \A h \in HookNames : s.hooks.done[h] \in Nat
      /\ s.hooks.done.before \in Nat /\ s.hooks.done.after \in Nat
      /\ hooks.done.before \in Nat /\ hooks.done.after \in Nat
      /\ s.hooks.done.before <= DateOf(TimeShown(x)) /\ s.hooks.done.after <= DateOf(TimeShown(x))
  BY <1>8, DoneTyped DEF Kept, NotLater, HooksTypeOK, FieldsType, HookNames
<1>10. \A b \in feed : b.at < x.at /\ b.at >= start => b \in feed \ ahead
  <2>1. x.at \in Nat
    BY <1>3, TimeShownOf
  <2>2. \A b \in ahead : x.at <= b.at /\ b.at \in Nat
    BY <1>3, FeedsAssumption DEF NoBarBefore, HooksTypeOK
  <2> QED BY <2>1, <2>2
<1>11. CASE x.hook \in {"pre_open", "cross"}
  <2>1. ~Called(told, x.hook, d)
    BY <1>1, <1>11 DEF Unfired, d
  <2>2. ~Called(s.told, x.hook, d)
    <3> SUFFICES ASSUME NEW i \in DOMAIN s.told, s.told[i].hook = x.hook, s.told[i].date = d
                 PROVE  FALSE
      BY DEF Called, CallsIn
    <3>1. i \in DOMAIN told
      BY <1>2, <1>8, <1>11 DEF New
    <3> QED BY <3>1, <2>1, <1>8 DEF Called, CallsIn
  <2>3. ASSUME x.hook = "cross", d \in ActiveDates, NEW y \in Traded(d)
        PROVE  BarTold(s.told, d, y)
    <3>1. y \in Symbols /\ Times(d, y) # {}
      BY <2>3 DEF Traded
    <3>2. Min(Times(d, y)) \in Times(d, y) /\ Min(Times(d, y)) <= Slice(d)
      BY <3>1, <1>7
    <3>3. PICK b \in feed : b.at = Min(Times(d, y)) /\ b.symbol = y /\ DateOf(b.at) = d
      BY <3>2 DEF Times
    <3>4. b.at \in TimesOn(d)
      BY <3>3 DEF TimesOn
    <3>5. b.at \in Nat /\ Slice(d) \in Nat /\ FirstBar(d) \in Nat /\ FirstBar(d) <= b.at
          /\ FirstBar(d) >= start
      BY <2>3, <3>4, <1>7 DEF ActiveDates
    <3>6. b.at < x.at /\ b.at >= start
      BY <3>2, <3>3, <3>5, <2>3, <1>3, <1>5
    <3>7. BarTold(told, d, y)
      BY <3>3, <3>6, <1>1, <1>10 DEF Seen
    <3> QED BY <3>7, <1>8 DEF BarTold, CallsIn
  <2> QED BY <1>11, <2>2, <2>3 DEF Permitted, d
<1>12. CASE x.hook = "before"
  <2>1. s.hooks.done["before"] < d
    BY <1>6, <1>7, <1>9, <1>12 DEF d
  <2>2. DateOf(s.now) = d
    BY <1>6, <1>8, <1>12
  <2> QED BY <1>7, <1>12, <2>1, <2>2 DEF Permitted, d
<1>13. CASE x.hook = "after"
  <2>1. s.hooks.done["after"] < d
    BY <1>6, <1>7, <1>9, <1>13 DEF d
  <2>2. DateOf(s.now) = d
    BY <1>6, <1>8, <1>13
  <2>3. ASSUME d > s.hooks.done.before, ~NeverBegan(d) PROVE FALSE
    <3>1. d \in ActiveDates
      <4>1. ~ (FirstBar(d) < start) /\ FirstBar(d) \in Nat
        BY <2>3, <1>5, <1>7 DEF NeverBegan
      <4> QED BY <4>1, <1>3, <1>5 DEF ActiveDates
    <3>2. ~ (d <= hooks.done.before)
      BY <2>3, <1>7, <1>8, <1>9
    <3>3. CASE Precise
      <4>1. Timer(FirstBar(d), "before", d) \in timers
        BY <3>1, <3>2, <3>3, <1>1, <1>4 DEF Fired
      <4>2. x.at <= FirstBar(d)
        BY <4>1 DEF Timer
      <4> QED BY <4>2, <1>5, <1>7, <1>13
    <3>4. CASE ~Precise
      <4>1. PICK t \in TimesOn(d) : Normal(t)
        BY <2>3, <3>4, <1>5 DEF NeverBegan, InSession
      <4>2. PICK b \in feed : b.at = t /\ DateOf(b.at) = d
        BY DEF TimesOn
      <4>3. b.at \in Nat /\ b.at <= LastBar(d) /\ LastBar(d) \in Nat /\ FirstBar(d) <= b.at
            /\ FirstBar(d) \in Nat /\ FirstBar(d) >= start
        BY <4>2, <3>1, <1>7 DEF ActiveDates
      <4>4. b.at < x.at /\ b.at >= start
        BY <4>3, <1>3, <1>5, <1>13
      <4>5. d <= hooks.done.before
        BY <4>1, <4>2, <4>4, <3>4, <1>1, <1>10 DEF Seen
      <4> QED BY <4>5, <3>2
    <3> QED BY <3>3, <3>4
  <2> QED BY <1>7, <1>13, <2>1, <2>2, <2>3 DEF Permitted, d
<1> QED BY <1>5, <1>11, <1>12, <1>13

\* A timer of the active time keeps the invariant.
LEMMA SeenTimer ==
    ASSUME HooksTypeOK, Underway, stage = "run", NEW x \in timers, NEW n \in 0 .. 3,
           TimerEvent(x, n), ~ (TimeShown(x) < start)
    PROVE  HooksTypeOK' /\ Underway' /\ Ordered(told)' /\ stage' # "stopped"
<1> DEFINE t == TimeShown(x)
           d == DateOf(t)
           k == Handling(t, n)
           s == TimeHooks(k, x.at)
           u == IF x.hook = "timer" THEN Calling(s, "timer", x.date, NoSymbol)
                ELSE Hook(s, x.hook, x.date)
<1>1. /\ NoBarBefore(x.at) /\ \A y \in timers : x.at <= y.at
      /\ ahead' = ahead /\ asked' = {}
      /\ timers' = (timers \ {x}) \cup DailyTimers(asked) \cup Again(x, u)
      /\ Handled(u) /\ UNCHANGED <<feed, start, setting>>
  BY DEF TimerEvent
<1>2. /\ Upcoming /\ Sources /\ Fired /\ Unfired /\ Seen /\ Continuous
      /\ Ordered(told) /\ \A i \in DOMAIN told : told[i].returned
  BY DEF Underway, Going
<1>3. x \in AllTimers /\ t \in Nat /\ Onward(d) /\ d \in Nat
  BY <1>1, <1>2, TimerOnward, DivMod
<1>4. /\ feed \in Feeds /\ setting \in SettingType /\ start \in Nat
  BY SettingsAssumption, StartsAssumption DEF HooksTypeOK
<1>5. /\ x.at \in Nat /\ x.hook \in HookNames \cup {"timer"} /\ x.date \in Nat
  BY <1>3, <1>4, TimeShownOf
<1>6. hooks.last <= d
  BY <1>2 DEF Upcoming
<1>7. /\ Kept(k) /\ ~k.failed /\ k.hooks = hooks /\ k.told = told /\ k.now = t
      /\ k.hooks.done.before <= k.hooks.last /\ k.hooks.done.after <= k.hooks.last
      /\ setting.indexed =>
            \A e \in ActiveDates : e < d => e <= k.hooks.done.after
  <2> HIDE DEF t
  <2> QED BY <1>3, <1>6, KeptHandling
<1>8. Began(k, s, x.at) /\ s.now = t
  <2> HIDE DEF k, t
  <2>1. ~setting.enforced /\ ~Precise => k.hooks.last = k.hooks.done.before
    BY <1>2, <1>7 DEF Continuous
  <2>2. Began(k, s, x.at)
    BY <1>4, <1>5, <1>6, <1>7, <2>1, BegunDates
  <2> QED BY <2>2, <1>7 DEF Began
<1> HIDE DEF s
<1>9. Kept(s) /\ (~s.failed => s.hooks.last = d)
  <2> HIDE DEF k, t
  <2> QED BY <1>7, <1>8 DEF Began
<1>10. x.hook # "timer" /\ ~s.failed /\ s.hooks.done[x.hook] # x.date =>
           Permitted(s, x.hook, x.date)
  BY <1>1, <1>7, <1>8, TimerPermitted
<1> HIDE DEF k
<1>11. /\ Kept(u) /\ Did(s, u, x.hook, x.date) /\ u.now = t
       /\ (~u.failed) => ~s.failed
       /\ (~u.failed) /\ x.hook # "timer" =>
             /\ u.hooks.done[x.hook] = x.date
             /\ s.hooks.done[x.hook] # x.date =>
                   \E i \in CallsIn(u.told, x.hook, x.date) : u.told[i].at = t
  <2> HIDE DEF t
  <2>1. CASE x.hook = "timer" /\ s.failed
    <3>1. u = s
      BY <2>1 DEF Calling
    <3> HIDE DEF u
    <3> QED BY <2>1, <3>1, <1>8, <1>9, DidNothing
  <2>2. CASE x.hook = "timer" /\ ~s.failed
    <3>1. u = Calling(s, "timer", x.date, NoSymbol)
      BY <2>2
    <3>2. Permitted(s, "timer", x.date)
      BY DEF Permitted
    <3>3. NoSymbol \in AllSymbols /\ "timer" \in HookNames \cup {"bar", "timer"}
      BY DEF AllSymbols
    <3> HIDE DEF u
    <3>4. Kept(u) /\ Did(s, u, "timer", x.date)
      BY <2>2, <3>1, <3>2, <3>3, <1>4, <1>5, <1>9, DidCalling
    <3> QED BY <2>2, <3>4, <1>8 DEF Did
  <2>3. CASE x.hook # "timer"
    <3>1. u = Hook(s, x.hook, x.date) /\ x.hook \in HookNames
      BY <2>3, <1>5
    <3> HIDE DEF u
    <3> DEFINE h == x.hook
               e == x.date
    <3>2. /\ Kept(u) /\ Did(s, u, h, e)
          /\ (~u.failed) => (~s.failed) /\ u.hooks.done[h] = e
          /\ (~s.failed) /\ s.hooks.done[h] # e =>
                \E i \in CallsIn(u.told, h, e) : u.told[i].at = s.now
      <4>1. (~s.failed) /\ s.hooks.done[h] # e => Permitted(s, h, e)
        BY <2>3, <1>10
      <4>2. h \in HookNames /\ e \in Nat /\ u = Hook(s, h, e)
        BY <3>1, <1>5
      <4> HIDE DEF h, e, d, t
      <4> QED BY <4>1, <4>2, <1>4, <1>9, DidHook
    <3>3. u.now = t
      BY <3>2, <1>8 DEF Did
    <3>4. s.now = t
      BY <1>8
    <3> QED BY <2>3, <3>2, <3>3, <3>4
  <2> QED BY <2>1, <2>2, <2>3
<1>12. timers' \subseteq timers \cup DailyTimers(asked)
  BY <1>1 DEF Again
<1>13. timers \ {x} \subseteq timers'
  BY <1>1
<1>14. \A y \in timers' : (y \in timers /\ y # x) \/ y.hook = "timer"
  <2>1. \A y \in DailyTimers(asked) : y.hook = "timer"
    BY DEF DailyTimers, Timer
  <2>2. \A y \in Again(x, u) : y.hook = "timer"
    BY DEF Again
  <2> QED BY <2>1, <2>2, <1>1
<1> HIDE DEF u
<1>15. /\ Ordered(told)' /\ Marked(Current)' /\ UpToDone(Current)' /\ EndedAhead(Current)'
       /\ EndsToday(Current)' /\ FailedIn(Current)'
       /\ now' \in Nat /\ hooks' \in FieldsType /\ told' \in Seq(CallType)
       /\ stage' \in {"run", "raised"} /\ (stage' = "run" <=> ~u.failed)
       /\ ~u.failed => \A i \in DOMAIN told' : told'[i].returned
  BY <1>1, <1>11, HandledKept
<1>16. HooksTypeOK' /\ Sources'
  <2> HIDE DEF d
  <2> QED BY <1>1, <1>3, <1>12, <1>15, EventTypes
<1>17. ASSUME stage' = "run" PROVE Going'
  <2>1. ~u.failed /\ ~s.failed /\ hooks' = u.hooks /\ told' = u.told
    BY <1>1, <1>11, <1>15, <1>17 DEF Handled
  <2>2. Carried(d, x.hook, x.date)
    <3>1. Carried(DateOf(k.now), x.hook, x.date)
      BY <2>1, <1>7, <1>8, <1>11, CarriedBy
    <3> QED BY <3>1, <1>7
  <2>3. /\ \A a, y : Called(told, a, y) => Called(told', a, y)
        /\ \A y : PreOpened(told, y) => \E i \in CallsIn(told', "pre_open", y) :
                                           told'[i].at < FirstBar(y)
        /\ \A y, z : BarTold(told, y, z) => BarTold(told', y, z)
        /\ \A a, y : a \notin {"before", "after"} /\ ~(a = x.hook /\ y = x.date)
                         /\ Called(told', a, y) => Called(told, a, y)
        /\ \A y : ~setting.enforced /\ ~(x.hook = "after" /\ x.date = y) /\ ~(y < d)
                      /\ Called(told', "after", y) => Called(told, "after", y)
    BY <2>2, CarriedCalls
  <2>4. hooks'.last = d
    BY <2>1, <1>9, <1>11 DEF Did
  <2>5. /\ ActiveDates' = ActiveDates /\ Precise' = Precise
        /\ \A e : FirstBar(e)' = FirstBar(e) /\ LastBar(e)' = LastBar(e) /\ Slice(e)' = Slice(e)
        /\ \A y : Normal(y)' = Normal(y)
    BY <1>1, SameData
  <2>6. /\ hooks.done.before <= hooks'.done.before /\ hooks.done.after <= hooks'.done.after
        /\ hooks'.done.before <= d /\ hooks'.done.after <= d
        /\ hooks.done.before \in Nat /\ hooks'.done.before \in Nat
        /\ hooks.done.after \in Nat /\ hooks'.done.after \in Nat
    BY <2>2, <1>15 DEF Carried, HooksTypeOK, FieldsType, HookNames
  <2> HIDE DEF d
  <2>7. Upcoming'
    <3>1. \A y \in timers' : d <= DateOf(TimeShown(y))
      BY <1>3, <1>12 DEF Onward
    <3>2. \A c \in ahead' : d <= DateOf(c.at)
      BY <1>1, <1>3 DEF Onward
    <3> HIDE DEF t
    <3> QED BY <2>4, <2>6, <3>1, <3>2 DEF Upcoming, DateOf, TimeShown
  <2>8. Fired'
    <3> SUFFICES ASSUME setting.indexed, NEW e \in ActiveDates
                 PROVE  /\ Timer(Slice(e) + 1, "cross", e) \in timers' \/ Called(told', "cross", e)
                        /\ \/ Timer(LastBar(e) + 1, "after", e) \in timers'
                           \/ Called(told', "after", e) /\ e <= hooks'.done.after
                        /\ Precise => \/ Timer(FirstBar(e), "before", e) \in timers'
                                      \/ Called(told', "before", e) /\ e <= hooks'.done.before
                        /\ FirstBar(e) > start =>
                              \/ Timer(FirstBar(e) - 1, "pre_open", e) \in timers'
                              \/ \E i \in CallsIn(told', "pre_open", e) :
                                    told'[i].at < FirstBar(e)
      BY <1>1, <2>5 DEF Fired, Called, CallsIn, PreOpened, Timer
    <3>1. e \in Nat /\ e # NoDate /\ FirstBar(e) \in Nat
      <4>1. e \in Nat /\ e # NoDate /\ FirstBar(e) \in TimesOn(e) /\ TimesOn(e) \subseteq Nat
        BY <1>4, DataOfDate DEF ActiveDates
      <4> QED BY <4>1
    <3>2. ASSUME x.date = e, x.hook # "timer"
          PROVE  Called(told', x.hook, e) /\ hooks'.done[x.hook] = e
      <4>1. u.hooks.done[x.hook] = e /\ x.hook \in HookNames
        BY <3>2, <2>1, <1>5, <1>11
      <4> QED BY <4>1, <3>1, <2>1, <1>11 DEF Kept, Marked
    <3>3. Timer(Slice(e) + 1, "cross", e) \in timers' \/ Called(told', "cross", e)
      <4>1. CASE x = Timer(Slice(e) + 1, "cross", e)
        BY <4>1, <3>2 DEF Timer
      <4> QED BY <4>1, <1>2, <1>13, <2>3 DEF Fired
    <3>4. \/ Timer(LastBar(e) + 1, "after", e) \in timers'
          \/ Called(told', "after", e) /\ e <= hooks'.done.after
      <4>1. CASE x = Timer(LastBar(e) + 1, "after", e)
        BY <4>1, <3>1, <3>2 DEF Timer
      <4>2. CASE x # Timer(LastBar(e) + 1, "after", e)
        <5>1. \/ Timer(LastBar(e) + 1, "after", e) \in timers
              \/ Called(told, "after", e) /\ e <= hooks.done.after
          BY <1>2 DEF Fired
        <5> QED BY <4>2, <5>1, <3>1, <1>13, <2>3, <2>6
      <4> QED BY <4>1, <4>2
    <3>5. Precise => \/ Timer(FirstBar(e), "before", e) \in timers'
                     \/ Called(told', "before", e) /\ e <= hooks'.done.before
      <4>1. CASE x = Timer(FirstBar(e), "before", e)
        BY <4>1, <3>1, <3>2 DEF Timer
      <4>2. CASE x # Timer(FirstBar(e), "before", e)
        <5>1. Precise => \/ Timer(FirstBar(e), "before", e) \in timers
                         \/ Called(told, "before", e) /\ e <= hooks.done.before
          BY <1>2 DEF Fired
        <5> QED BY <4>2, <5>1, <3>1, <1>13, <2>3, <2>6
      <4> QED BY <4>1, <4>2
    <3>6. FirstBar(e) > start =>
             \/ Timer(FirstBar(e) - 1, "pre_open", e) \in timers'
             \/ \E i \in CallsIn(told', "pre_open", e) : told'[i].at < FirstBar(e)
      <4> SUFFICES ASSUME FirstBar(e) > start
                   PROVE  \/ Timer(FirstBar(e) - 1, "pre_open", e) \in timers'
                          \/ \E i \in CallsIn(told', "pre_open", e) : told'[i].at < FirstBar(e)
        OBVIOUS
      <4>1. CASE x = Timer(FirstBar(e) - 1, "pre_open", e)
        <5>1. x.hook = "pre_open" /\ x.date = e /\ t = FirstBar(e) - 1
          BY <4>1 DEF Timer, TimeShown
        <5>2. s.hooks.done[x.hook] # x.date
          <6>1. ~Called(told, "pre_open", e)
            BY <5>1, <1>2 DEF Unfired
          <6>2. ~Called(s.told, "pre_open", e)
            <7>1. \A i \in DOMAIN s.told : i \in DOMAIN told \/ i \in New(k, s)
              BY <1>7 DEF New
            <7>2. \A i \in New(k, s) : s.told[i].hook \in {"before", "after"}
              BY <1>8 DEF Began
            <7>3. \A i \in DOMAIN told : s.told[i] = told[i]
              BY <1>7, <1>8 DEF Began
            <7> QED BY <6>1, <7>1, <7>2, <7>3 DEF Called, CallsIn
          <6> QED BY <5>1, <6>2, <3>1, <1>9 DEF Kept, Marked, HookNames
        <5>3. \E i \in CallsIn(told', "pre_open", e) : told'[i].at = t
          BY <5>1, <5>2, <2>1, <1>11
        <5> HIDE DEF t
        <5> QED BY <5>1, <5>3, <3>1
      <4>2. CASE x # Timer(FirstBar(e) - 1, "pre_open", e)
        BY <4>2, <1>2, <1>13, <2>3 DEF Fired
      <4> QED BY <4>1, <4>2
    <3> QED BY <3>3, <3>4, <3>5, <3>6
  <2>9. Unfired'
    <3> SUFFICES ASSUME NEW y \in timers', y.hook \in {"pre_open", "cross"},
                        Called(told', y.hook, y.date)
                 PROVE  FALSE
      BY DEF Unfired, Called, CallsIn
    <3>1. y \in timers /\ y # x
      BY <1>14
    <3>2. ~ (y.hook = x.hook /\ y.date = x.date)
      <4> SUFFICES ASSUME y.hook = x.hook, y.date = x.date PROVE FALSE
        OBVIOUS
      <4>1. x \in FrameworkTimers /\ y \in FrameworkTimers
        BY <3>1, <1>2, <1>4, TimeShownOf DEF Sources
      <4>2. x = Timer(x.at, x.hook, x.date) /\ y = Timer(y.at, y.hook, y.date) /\ x.at = y.at
        BY <4>1, <1>4, FrameworkShape
      <4> QED BY <4>2, <3>1
    <3> QED BY <3>1, <3>2, <1>2, <2>3 DEF Unfired
  <2>10. Seen'
    <3>1. ASSUME NEW c \in feed \ ahead, c.at >= start
          PROVE  /\ BarTold(told', DateOf(c.at), c.symbol)
                 /\ ~Precise /\ Normal(c.at) => DateOf(c.at) <= hooks'.done.before
      <4>1. DateOf(c.at) \in Nat
        BY <1>4, FeedsAssumption, DivMod
      <4> QED BY <4>1, <3>1, <1>2, <2>3, <2>6 DEF Seen
    <3> HIDE DEF t
    <3> QED BY <1>1, <2>5, <3>1 DEF Seen, BarTold, CallsIn, DateOf
  <2>11. Continuous'
    <3> SUFFICES ASSUME ~setting.enforced
                 PROVE  /\ \A c \in ahead' : ~Called(told', "after", DateOf(c.at))
                        /\ ~Precise => hooks'.last = hooks'.done.before
                        /\ ~setting.indexed => BeginsEnd(u)
      BY <1>1, <2>1, <2>5 DEF Continuous, Called, CallsIn, BeginsEnd, Current, DateOf
    <3>1. \A c \in ahead' : ~Called(told', "after", DateOf(c.at))
      <4> SUFFICES ASSUME NEW c \in ahead', Called(told', "after", DateOf(c.at))
                   PROVE  FALSE
        OBVIOUS
      <4>1. c \in ahead /\ c \in feed /\ d <= DateOf(c.at) /\ DateOf(c.at) \in Nat /\ c.at \in Nat
        BY <1>1, <1>3, <1>4, FeedsAssumption, DivMod DEF Onward, HooksTypeOK
      <4>2. ~ (x.hook = "after" /\ x.date = DateOf(c.at))
        <5> SUFFICES ASSUME x.hook = "after", x.date = DateOf(c.at) PROVE FALSE
          OBVIOUS
        <5>1. x.at = LastBar(x.date) + 1 /\ x.date \in Dates
          BY <1>3, <1>4, FrameworkShape, TimeShownOf
        <5>2. c.at \in TimesOn(x.date)
          BY <4>1 DEF TimesOn
        <5>3. c.at <= LastBar(x.date) /\ LastBar(x.date) \in TimesOn(x.date)
              /\ TimesOn(x.date) \subseteq Nat
          BY <5>1, <5>2, <1>4, DataOfDate
        <5>4. x.at <= c.at
          BY <4>1, <1>1 DEF NoBarBefore
        <5> QED BY <4>1, <5>1, <5>3, <5>4
      <4>3. Called(told, "after", DateOf(c.at))
        BY <4>1, <4>2, <2>3, <1>3
      <4> QED BY <4>1, <4>3, <1>2 DEF Continuous
    <3>2. ~Precise => s.hooks.done.before = d
      BY <2>1, <1>7, <1>8 DEF Began, Normal, d
    <3>3. ~Precise => x.hook # "before"
      <4> SUFFICES ASSUME x.hook = "before" PROVE Precise
        OBVIOUS
      <4> QED BY <1>3, <1>4, FrameworkShape, TimeShownOf
    <3>4. ~Precise => u.hooks.done.before = s.hooks.done.before
      BY <3>3, <1>11 DEF Did, HookNames
    <3>5. ASSUME ~setting.indexed PROVE BeginsEnd(u)
      <4>1. BeginsEnd(k) /\ ~Precise
        BY <3>5, <1>2, <1>7 DEF Continuous, BeginsEnd, Current, Precise
      <4>2. BeginsEnd(s)
        BY <2>1, <4>1, <1>8 DEF Began
      <4>3. \A a, y : Called(s.told, a, y) => Called(u.told, a, y)
        BY <1>11, CalledGrows DEF Did
      <4>4. \A i \in DOMAIN u.told : u.told[i].hook = "before" =>
               i \in DOMAIN s.told /\ u.told[i] = s.told[i]
        BY <3>3, <4>1, <1>11 DEF Did, New
      <4> QED BY <3>4, <4>1, <4>2, <4>3, <4>4 DEF BeginsEnd
    <3> QED BY <2>1, <2>4, <3>1, <3>2, <3>4, <3>5
  <2>12. \A i \in DOMAIN told' : told'[i].returned
    BY <2>1, <1>15
  <2> QED BY <2>7, <2>8, <2>9, <2>10, <2>11, <2>12, <1>16 DEF Going
<1>18. Underway'
  BY <1>15, <1>17 DEF Underway
<1> QED BY <1>15, <1>16, <1>18

-----------------------------------------------------------------------------
(***************************************************************************)
(* The stop.                                                               *)
(***************************************************************************)

Returned(q, h, d) == {i \in CallsIn(q, h, d) : q[i].returned}

\* A hook that returned once completed once.
LEMMA OneReturned ==
    ASSUME NEW q, NEW h, NEW d, \A i, j \in Returned(q, h, d) : i = j
    PROVE  /\ Cardinality(Returned(q, h, d)) <= 1
           /\ Returned(q, h, d) # {} => Cardinality(Returned(q, h, d)) = 1
<1>1. CASE Returned(q, h, d) = {}
  BY <1>1, FS_EmptySet
<1>2. CASE Returned(q, h, d) # {}
  <2>1. PICK i : i \in Returned(q, h, d)
    BY <1>2
  <2>2. Returned(q, h, d) = {i}
    BY <2>1
  <2>3. Cardinality(Returned(q, h, d)) = 1
    BY <2>2, FS_Singleton
  <2> QED BY <2>3
<1> QED BY <1>1, <1>2

\* A date that on_after_trading was called for after the last begin comes before
\* no date that began and is followed by none outside the session.
LEMMA EndsInOrder ==
    ASSUME HooksTypeOK, EndedAhead(Current), hooks.done.before \in ActiveDates,
           Followed(hooks.done.before)
    PROVE  hooks.done.after <= hooks.done.before
<1> DEFINE b == hooks.done.before
           e == hooks.done.after
<1>1. b \in Nat /\ e \in Nat /\ feed \in Feeds /\ start \in Nat
  BY StartsAssumption DEF HooksTypeOK, FieldsType, HookNames
<1> SUFFICES ASSUME e > b PROVE FALSE
  BY <1>1
<1>2. NeverBegan(e)
  BY DEF EndedAhead, Current
<1>3. e \in Dates /\ b \in Dates /\ FirstBar(b) >= start
  BY <1>2 DEF NeverBegan, ActiveDates
<1>4. /\ FirstBar(e) \in TimesOn(e) /\ FirstBar(b) \in TimesOn(b)
      /\ TimesOn(e) \subseteq Nat /\ TimesOn(b) \subseteq Nat
      /\ DateOf(FirstBar(e)) = e /\ DateOf(FirstBar(b)) = b
  BY <1>1, <1>3, DataOfDate
<1>5. Precise \/ InSession(e)
  BY <1>3 DEF Followed
<1>6. FirstBar(e) < start
  BY <1>2, <1>5 DEF NeverBegan
<1> HIDE DEF b, e
<1>7. FirstBar(e) <= FirstBar(b) /\ FirstBar(e) \in Nat /\ FirstBar(b) \in Nat
  BY <1>1, <1>3, <1>4, <1>6
<1>8. e <= b
  BY <1>4, <1>7, DateOrder
<1> QED BY <1>1, <1>8

\* The end of the last date that began, if it has not ended, is all that the stop
\* calls.
LEMMA StopEnds ==
    ASSUME HooksTypeOK, Underway, stage # "stopped", NEW n \in 0 .. 3, Stop(n)
    PROVE  /\ stage' = "stopped" /\ UNCHANGED <<feed, start, setting, ahead, timers, asked, now>>
           /\ hooks' \in FieldsType /\ told' \in Seq(CallType) /\ Ordered(told')
           /\ DOMAIN told \subseteq DOMAIN told'
           /\ \A i \in DOMAIN told : told'[i] = told[i]
           /\ hooks.done.before # NoDate => Called(told', "after", hooks.done.before)
<1> DEFINE b == hooks.done.before
           k == Handling(now, n)
           u == End(k, b)
           c == Told(k, "after", b, NoSymbol)
<1>1. /\ stage' = "stopped" /\ hooks' = u.hooks /\ told' = u.told
      /\ UNCHANGED <<feed, start, setting, ahead, timers, asked, now>>
      /\ stage = "raised" \/ (stage = "run" /\ timers = {})
  BY DEF Stop
<1>2. /\ k.hooks = hooks /\ k.told = told /\ k.now = now /\ k.failed = FALSE
      /\ k \in HandlingType
  BY DEF Handling, HooksTypeOK, HandlingType
<1>3. /\ b \in Nat /\ hooks.done.after \in Nat /\ setting \in SettingType
      /\ told \in Seq(CallType) /\ hooks \in FieldsType
      /\ DOMAIN hooks.done = HookNames
  BY SettingsAssumption DEF HooksTypeOK, FieldsType, HookNames
<1>4. Ordered(told) /\ Marked(Current) /\ UpToDone(Current) /\ EndedAhead(Current)
  BY DEF Underway
<1>5. setting.indexed =>
         b = DateOf(now) \/ b <= hooks.done.after \/ b \notin ActiveDates
  <2>1. CASE stage = "raised"
    BY <2>1 DEF Underway, EndsToday, Current
  <2>2. CASE stage = "run" /\ timers = {}
    BY <2>2 DEF Underway, Going, Fired
  <2> QED BY <1>1, <2>1, <2>2
<1>6. hooks.done.after = b /\ b # NoDate => Called(told, "after", b)
  BY <1>4 DEF Marked, Current, HookNames
<1>7. b = NoDate \/ hooks.done.after = b => u = k
  BY <1>2 DEF End, Hook
<1>8. ~ (b = NoDate \/ hooks.done.after = b) => u = Calling(k, "after", b, NoSymbol)
  BY <1>2 DEF End, Hook
<1> HIDE DEF u, k
<1>9. CASE b = NoDate \/ hooks.done.after = b
  BY <1>1, <1>2, <1>3, <1>4, <1>6, <1>7, <1>9
<1>10. CASE ~ (b = NoDate \/ hooks.done.after = b)
  <2>1. Recorded(k, "after", b, NoSymbol, c, u)
    <3>1. NoSymbol \in AllSymbols /\ "after" \in HookNames \cup {"bar", "timer"}
      BY DEF AllSymbols, HookNames
    <3> HIDE DEF b
    <3> QED BY <3>1, <1>2, <1>3, <1>8, <1>10, CallingFacts
  <2> HIDE DEF c
  <2>2. /\ c \in CallType /\ c.hook = "after" /\ c.date = b /\ c.at = now
        /\ u \in HandlingType /\ u.told = Append(told, c)
    BY <2>1, <1>2 DEF Recorded
  <2>3. u.hooks \in FieldsType
    BY <2>2 DEF HandlingType
  <2>4. /\ Append(told, c) \in Seq(CallType)
        /\ DOMAIN Append(told, c) = DOMAIN told \cup {Len(told) + 1}
        /\ \A i \in DOMAIN told : Append(told, c)[i] = told[i]
        /\ Append(told, c)[Len(told) + 1] = c
    BY <1>3, <2>2, AppendFacts
  <2>5. Called(Append(told, c), "after", b)
    BY <2>2, <2>4 DEF Called, CallsIn
  <2>6. b \in ActiveDates /\ Followed(b) => ~ (b <= hooks.done.after)
    <3>1. b \in ActiveDates /\ Followed(b) => hooks.done.after <= b
      BY <1>4, EndsInOrder
    <3> QED BY <3>1, <1>3, <1>10
  <2>7. May(told, c)
    <3>1. ASSUME b \in ActiveDates, Followed(b), NEW i \in CallsIn(told, "after", b)
          PROVE  ~told[i].returned
      <4>1. told[i].returned => b <= hooks.done.after
        BY <3>1, <1>4 DEF UpToDone, Current, CallsIn
      <4> QED BY <4>1, <3>1, <2>6
    <3>2. setting.indexed /\ b \in ActiveDates /\ Followed(b) => DateOf(now) = b
      BY <1>5, <2>6
    <3> HIDE DEF b
    <3> QED BY <2>2, <3>1, <3>2 DEF May
  <2>8. Ordered(Append(told, c))
    BY <1>3, <1>4, <2>2, <2>7, OrderedAppend
  <2> HIDE DEF b
  <2> QED BY <1>1, <2>2, <2>3, <2>4, <2>5, <2>8 DEF b
<1> QED BY <1>9, <1>10

\* A run whose loop ended has called what its dates need.
LEMMA RunEnds ==
    ASSUME HooksTypeOK, Underway, stage = "run", ahead = {}, timers = {}, ~setting.enforced,
           NEW d \in ActiveDates
    PROVE  /\ Called(told, "before", d)
           /\ Called(told, "after", d) \/ (d = hooks.done.before /\ d # NoDate)
           /\ setting.indexed => Called(told, "cross", d)
<1>1. Fired /\ Seen /\ Continuous /\ Ordered(told) /\ feed \in Feeds
  BY DEF Underway, Going, HooksTypeOK
<1>2. d \in Dates /\ FirstBar(d) >= start
  BY DEF ActiveDates
<1>3. PICK c \in feed : c.at = FirstBar(d) /\ DateOf(c.at) = d
  <2>1. FirstBar(d) \in TimesOn(d)
    BY <1>1, <1>2, DataOfDate
  <2> QED BY <2>1 DEF TimesOn
<1>4. BarTold(told, d, c.symbol)
  BY <1>1, <1>2, <1>3 DEF Seen
<1>5. Called(told, "before", d)
  BY <1>1, <1>4 DEF BarTold, Called, Ordered, BarsIn
<1>6. setting.indexed => Called(told, "after", d) /\ Called(told, "cross", d)
  BY <1>1 DEF Fired
<1>7. ~setting.indexed => Called(told, "after", d) \/ (d = hooks.done.before /\ d # NoDate)
  <2> SUFFICES ASSUME ~setting.indexed
               PROVE  Called(told, "after", d) \/ (d = hooks.done.before /\ d # NoDate)
    OBVIOUS
  <2>1. BeginsEnd(Current)
    BY <1>1 DEF Continuous
  <2>2. PICK i \in DOMAIN told : told[i].hook = "before" /\ told[i].date = d
    BY <1>5 DEF Called, CallsIn
  <2> QED BY <2>1, <2>2 DEF BeginsEnd, Current
<1> QED BY <1>5, <1>6, <1>7

\* The stop keeps the invariant, and leaves no date incomplete.
LEMMA Stopping ==
    ASSUME HooksTypeOK, Underway, stage # "stopped", NEW n \in 0 .. 3, Stop(n)
    PROVE  /\ HooksTypeOK' /\ Ordered(told)' /\ stage' = "stopped"
           /\ ~setting.enforced => DaysComplete'
<1>1. /\ stage' = "stopped" /\ UNCHANGED <<feed, start, setting, ahead, timers, asked, now>>
      /\ hooks' \in FieldsType /\ told' \in Seq(CallType) /\ Ordered(told')
      /\ DOMAIN told \subseteq DOMAIN told'
      /\ \A i \in DOMAIN told : told'[i] = told[i]
      /\ hooks.done.before # NoDate => Called(told', "after", hooks.done.before)
  BY StopEnds
<1>2. HooksTypeOK'
  BY <1>1 DEF HooksTypeOK, CallType, AllSymbols, FieldsType, HookNames
<1>3. Ordered(told)'
  <2> DEFINE q == told'
  <2>1. told' = q /\ Ordered(q)
    BY <1>1
  <2> HIDE DEF q
  <2> QED BY <1>1, <2>1, SameOrder
<1>4. ASSUME ~setting.enforced, NothingRaised', NEW d \in ActiveDates
      PROVE  /\ Completed("before", d)' = 1 /\ Completed("after", d)' = 1
             /\ setting.indexed => Completed("cross", d)' = 1
  <2>1. \A i \in DOMAIN told' : told'[i].returned
    BY <1>4 DEF NothingRaised
  <2>2. stage = "run" /\ ahead = {} /\ timers = {}
    <3>1. stage # "raised"
      <4> SUFFICES ASSUME stage = "raised" PROVE FALSE
        OBVIOUS
      <4>1. \E i \in DOMAIN told : ~told[i].returned
        BY DEF Underway, FailedIn, Current
      <4> QED BY <4>1, <1>1, <2>1
    <3> QED BY <3>1 DEF Stop
  <2>3. /\ Called(told, "before", d)
        /\ Called(told, "after", d) \/ (d = hooks.done.before /\ d # NoDate)
        /\ setting.indexed => Called(told, "cross", d)
    BY <1>4, <2>2, RunEnds
  <2>4. \A h : Called(told, h, d) => Called(told', h, d)
    BY <1>1 DEF Called, CallsIn
  <2>5. Followed(d)
    <3>1. \A e \in Dates : InSession(e)
      <4> SUFFICES ASSUME NEW e \in Dates PROVE InSession(e)
        OBVIOUS
      <4>1. FirstBar(e) \in TimesOn(e)
        BY DataOfDate DEF HooksTypeOK
      <4> QED BY <4>1, <1>4 DEF InSession, Normal
    <3> QED BY <3>1 DEF Followed
  <2>6. ASSUME NEW h \in HookNames, Called(told', h, d)
        PROVE  Completed(h, d)' = 1
    <3>1. \A i, j \in Returned(told', h, d) : i = j
      BY <1>1, <1>4, <2>5 DEF Ordered, OnceIn, Returned
    <3>2. Returned(told', h, d) # {}
      BY <2>1, <2>6 DEF Returned, Called, CallsIn
    <3>3. Cardinality(Returned(told', h, d)) = 1
      BY <3>1, <3>2, OneReturned
    <3> QED BY <3>3 DEF Completed, Calls, Is, Returned, CallsIn
  <2> QED BY <1>1, <2>3, <2>4, <2>6 DEF HookNames
<1>5. ~setting.enforced => DaysComplete'
  <2>1. ActiveDates' = ActiveDates
    BY <1>1, SameData
  <2> QED BY <1>1, <1>4, <2>1 DEF DaysComplete
<1> QED BY <1>1, <1>2, <1>3, <1>5

-----------------------------------------------------------------------------
(***************************************************************************)
(* The invariant, and the properties of the runs.                          *)
(***************************************************************************)

\* The invariant holds at first.
LEMMA HooksStart == HooksInit => HooksInv
<1> SUFFICES ASSUME HooksInit PROVE HooksInv
  OBVIOUS
<1>1. /\ feed \in Feeds /\ start \in Starts /\ setting \in Settings
      /\ ahead = feed /\ asked \in DailyTimes /\ now = 0 /\ told = <<>> /\ stage = "run"
      /\ timers = IF setting.indexed THEN FrameworkTimers ELSE {}
      /\ hooks.last = NoDate /\ hooks.done = [h \in HookNames |-> NoDate]
      /\ hooks = [last |-> NoDate, done |-> [h \in HookNames |-> NoDate]]
  BY DEF HooksInit, HookNames
<1>2. DOMAIN told = {} /\ told \in Seq(CallType)
  <2>1. told = <<>>
    BY <1>1
  <2>2. <<>> \in Seq(CallType) /\ DOMAIN <<>> = {}
    OBVIOUS
  <2> QED BY <2>1, <2>2
<1>3. /\ \A h \in HookNames : hooks.done[h] = NoDate
      /\ hooks.done.before = NoDate /\ hooks.done.after = NoDate
  BY <1>1 DEF HookNames
<1>4. hooks \in FieldsType
  BY <1>1 DEF FieldsType, NoDate
<1>5. timers \subseteq AllTimers
  BY <1>1 DEF AllTimers
<1>6. \A x \in timers : /\ x \in [at : Nat, hook : HookNames \cup {"timer"}, date : Nat]
                        /\ TimeShown(x) \in Nat
  BY <1>1, <1>5, TimeShownOf
<1>7. HooksTypeOK
  BY <1>1, <1>2, <1>4, <1>6 DEF HooksTypeOK
<1>8. \A h, d : CallsIn(told, h, d) = {}
  BY <1>2 DEF CallsIn
<1>9. Ordered(told)
  BY <1>8 DEF Ordered, OnceIn, SliceIn, AfterIn, BarsIn, PreOpenIn
<1>10. Marked(Current) /\ UpToDone(Current) /\ EndedAhead(Current)
  BY <1>2, <1>3 DEF Marked, UpToDone, EndedAhead, Current, NoDate
<1>11. Upcoming
  <2>1. \A b \in ahead : DateOf(b.at) \in Nat
    BY <1>1, FeedsAssumption, DivMod
  <2>2. \A x \in timers : DateOf(TimeShown(x)) \in Nat
    BY <1>6, DivMod
  <2> QED BY <2>1, <2>2, <1>1, <1>3 DEF Upcoming, NoDate
<1>12. Fired
  BY <1>1 DEF Fired, FrameworkTimers, ActiveDates
<1>13. Sources /\ Unfired /\ Seen
  BY <1>1, <1>5, <1>8 DEF Sources, Unfired, Seen, Called
<1>14. Continuous
  BY <1>1, <1>2, <1>3, <1>8 DEF Continuous, Called, BeginsEnd, Current
<1> QED BY <1>1, <1>2, <1>7, <1>9, <1>10, <1>11, <1>12, <1>13, <1>14
        DEF HooksInv, Underway, Going

\* Every step keeps the invariant.
LEMMA HooksStep == HooksInv /\ [HooksNext]_hooksVars => HooksInv'
<1> SUFFICES ASSUME HooksInv, [HooksNext]_hooksVars PROVE HooksInv'
  OBVIOUS
<1>1. HooksTypeOK /\ Ordered(told) /\ (stage # "stopped" => Underway)
  BY DEF HooksInv
<1>2. ASSUME NEW n \in 0 .. 3, NEW b \in ahead, BarEvent(b, n) PROVE HooksInv'
  <2>1. stage = "run"
    BY <1>2 DEF BarEvent
  <2>2. HooksTypeOK' /\ Underway' /\ Ordered(told)' /\ stage' # "stopped"
    <3>1. CASE b.at < start
      <4>1. stage' = stage
        BY <1>2, <3>1 DEF BarEvent, Unseen
      <4> QED BY <1>1, <1>2, <2>1, <3>1, <4>1, UnseenBar
    <3>2. CASE ~ (b.at < start)
      BY <1>1, <1>2, <2>1, <3>2, SeenBar
    <3> QED BY <3>1, <3>2
  <2> QED BY <2>2 DEF HooksInv
<1>3. ASSUME NEW n \in 0 .. 3, NEW x \in timers, TimerEvent(x, n) PROVE HooksInv'
  <2>1. stage = "run"
    BY <1>3 DEF TimerEvent
  <2>2. HooksTypeOK' /\ Underway' /\ Ordered(told)' /\ stage' # "stopped"
    <3>1. CASE TimeShown(x) < start
      <4>1. stage' = stage
        BY <1>3, <3>1 DEF TimerEvent, Unseen
      <4> QED BY <1>1, <1>3, <2>1, <3>1, <4>1, UnseenTimer
    <3>2. CASE ~ (TimeShown(x) < start)
      BY <1>1, <1>3, <2>1, <3>2, SeenTimer
    <3> QED BY <3>1, <3>2
  <2> QED BY <2>2 DEF HooksInv
<1>4. ASSUME NEW n \in 0 .. 3, Stop(n) PROVE HooksInv'
  <2>1. stage # "stopped" /\ setting' = setting
    BY <1>4 DEF Stop
  <2>2. /\ HooksTypeOK' /\ Ordered(told)' /\ stage' = "stopped"
        /\ ~setting.enforced => DaysComplete'
    BY <1>1, <1>4, <2>1, Stopping
  <2> QED BY <2>1, <2>2 DEF HooksInv
<1>5. CASE UNCHANGED hooksVars
  <2>1. UNCHANGED <<feed, start, setting, ahead, timers, asked, now, hooks, told, stage>>
    BY <1>5 DEF hooksVars
  <2>2. HooksTypeOK'
    BY <1>1, <2>1 DEF HooksTypeOK, CallType, AllSymbols
  <2>3. Ordered(told)'
    BY <1>1, <2>1, SameOrder
  <2>4. /\ ActiveDates' = ActiveDates /\ Precise' = Precise /\ AllTimers' = AllTimers
        /\ \A d : /\ FirstBar(d)' = FirstBar(d) /\ LastBar(d)' = LastBar(d)
                  /\ Slice(d)' = Slice(d) /\ NeverBegan(d)' = NeverBegan(d)
        /\ \A t : Normal(t)' = Normal(t)
    BY <2>1, SameData
  <2>5. ASSUME Underway PROVE Underway'
    <3>1. /\ Marked(Current)' /\ UpToDone(Current)' /\ EndedAhead(Current)'
      BY <2>1, <2>4, <2>5
         DEF Underway, Marked, UpToDone, EndedAhead, Current, Called, CallsIn
    <3>2. stage' = "raised" => EndsToday(Current)' /\ FailedIn(Current)'
      BY <2>1, <2>4, <2>5 DEF Underway, EndsToday, FailedIn, Current, DateOf
    <3>3. ASSUME stage = "run" PROVE Going'
      <4>1. Going
        BY <2>5, <3>3 DEF Underway
      <4>2. Upcoming' /\ Sources'
        BY <2>1, <2>4, <4>1 DEF Going, Upcoming, Sources, DateOf, TimeShown
      <4>3. Fired'
        BY <2>1, <2>4, <4>1 DEF Going, Fired, Timer, Called, CallsIn, PreOpened
      <4>4. Unfired' /\ Seen'
        BY <2>1, <2>4, <4>1 DEF Going, Unfired, Seen, Called, CallsIn, BarTold, DateOf
      <4>5. Continuous'
        BY <2>1, <2>4, <4>1 DEF Going, Continuous, Called, CallsIn, BeginsEnd, Current, DateOf
      <4> QED BY <2>1, <4>1, <4>2, <4>3, <4>4, <4>5 DEF Going
    <3> QED BY <2>1, <2>3, <3>1, <3>2, <3>3 DEF Underway
  <2>6. DaysComplete => DaysComplete'
    <3>1. \A h, d : Completed(h, d)' = Completed(h, d)
      BY <2>1 DEF Completed, Calls, Is
    <3>2. NothingRaised' = NothingRaised
      BY <2>1 DEF NothingRaised
    <3> QED BY <2>1, <2>4, <3>1, <3>2 DEF DaysComplete
  <2> QED BY <1>1, <2>1, <2>2, <2>3, <2>5, <2>6 DEF HooksInv
<1> QED BY <1>2, <1>3, <1>4, <1>5 DEF HooksNext

\* The invariant of the hooks: what was called is in order, the fields that guard a
\* hook say what it was called for, and a hook of a date that was not called yet has
\* a timer or an event to come.
THEOREM HooksSound == HooksSpec => []HooksInv
BY HooksStart, HooksStep, PTL DEF HooksSpec

\* on_pre_open is called before the first bar of its date, and at an earlier time:
\* its timer is before every bar of the date, and the fields keep no timer from
\* calling it (strategy_framework_hooks.py:235).
THEOREM PreOpenBeforeBarsCorrect == HooksSpec => []PreOpenBeforeBars
<1>1. HooksInv => PreOpenBeforeBars
  BY DEF HooksInv, Ordered, PreOpenIn, PreOpenBeforeBars, CallsIn, Calls, Is
<1> QED BY <1>1, HooksSound, PTL

\* Timers, events and the stop call each hook of a date once, in the order of the
\* date, on it, and, where sessions are not enforced, leave none out in a run that
\* ends well (strategy_framework_hooks.py:46, 782).
THEOREM DaysInOrderCorrect == HooksSpec => []DaysInOrder
<1>1. HooksInv => DaysInOrder
  <2> SUFFICES ASSUME HooksInv PROVE DaysInOrder
    OBVIOUS
  <2>1. HooksTypeOK /\ Ordered(told)
    BY DEF HooksInv
  <2>2. HooksOnce
    <3> SUFFICES ASSUME NEW d \in ActiveDates, NEW h \in HookNames, h = "after" => Followed(d)
                 PROVE  Completed(h, d) <= 1
      BY <2>1 DEF HooksOnce, HooksTypeOK, FieldsType
    <3>1. \A i, j \in Returned(told, h, d) : i = j
      BY <2>1 DEF Ordered, OnceIn, Returned
    <3>2. Cardinality(Returned(told, h, d)) <= 1
      BY <3>1, OneReturned
    <3> QED BY <3>2 DEF Completed, Calls, Is, Returned, CallsIn
  <2>3. CrossAfterSlice
    BY <2>1 DEF Ordered, SliceIn, CrossAfterSlice, Traded, CallsIn, Calls, Is
  <2>4. AfterOnItsDate
    BY <2>1 DEF Ordered, AfterIn, AfterOnItsDate, CallsIn, Calls, Is
  <2>5. ~setting.enforced => BarsWithinDay
    BY <2>1 DEF Ordered, BarsIn, BarsWithinDay, CallsIn, Calls, Is
  <2>6. ~setting.enforced => DaysComplete
    BY DEF HooksInv, DaysComplete
  <2> QED BY <2>2, <2>3, <2>4, <2>5, <2>6 DEF DaysInOrder
<1> QED BY <1>1, HooksSound, PTL
================================================================================
