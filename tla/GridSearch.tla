------------------------------ MODULE GridSearch ------------------------------
(***************************************************************************)
(* run_grid_search (optimize.py): one backtest for each combination of a   *)
(* parameter grid, by a pool of worker processes or one after the other.   *)
(* Results go into a SQLite table from which a later search, or the same   *)
(* one after a crash, resumes.  Workers, the main process, the table's     *)
(* file and a backtest may each fail.                                      *)
(*                                                                         *)
(* A result that reports an error or a timeout is kept like any other, so  *)
(* results differ only in whose they are and what data they are of.        *)
(* Parameters are values that JSON can encode; the sorting and filtering   *)
(* of the answer are left out.                                             *)
(***************************************************************************)
EXTENDS Naturals, FiniteSets

CONSTANTS
    Combos,       \* combinations of parameter values
    Grids,        \* the grids searches ask for, constraint applied
    Strategies,   \* strategy names
    DataSets,     \* what run_backtest may be given as data
    Databases,    \* {TRUE}: with a db_path; {FALSE}: without
    MaxWorkers,   \* max_workers
    MaxSearches,  \* bound: calls of run_grid_search
    NoRow

ASSUME GridsAssumption == Grids \subseteq SUBSET Combos
ASSUME DatabasesAssumption == Databases \subseteq BOOLEAN
ASSUME WorkersAssumption == MaxWorkers \in Nat \ {0}
ASSUME NoRowAssumption == NoRow \notin [strategy : Strategies, data : DataSets]

VARIABLES
    db,        \* optimization_results by params_json, which is UNIQUE in it
    phase,     \* where the call of run_grid_search is; "idle": there is none
    request,   \* its arguments
    existing,  \* combinations of existing_results
    task,      \* where the backtest of each combination is; "none": not asked for
    results,   \* how often each combination is in new_results
    broken,    \* the process pool is broken
    searches,  \* calls so far
    ran,       \* how often the backtest of each combination ran to its end
    unsaved,   \* how often its result was not stored
    blind      \* searches that did not read the table

searchVars == <<db, phase, request, existing, task, results, broken, searches,
                ran, unsaved, blind>>

StoredRows == [strategy : Strategies, data : DataSets]
Requests == [strategy : Strategies, data : DataSets, grid : Grids, saves : Databases]

In(states) == {c \in Combos : task[c] \in states}
Asked == {c \in Combos : task[c] # "none"}

\* One worker, or one task, needs no pool.
Serial == MaxWorkers = 1 \/ Cardinality(Asked) = 1

\* Counters of combinations.
Uncounted == [c \in Combos |-> 0]
Counted(f, S) == [c \in Combos |-> IF c \in S THEN f[c] + 1 ELSE f[c]]

SearchInit ==
    /\ db = [c \in Combos |-> NoRow]
    /\ phase = "idle" /\ request \in Requests
    /\ existing = {} /\ task = [c \in Combos |-> "none"]
    /\ results = Uncounted /\ broken = FALSE /\ searches = 0
    /\ ran = Uncounted /\ unsaved = Uncounted /\ blind = 0

-----------------------------------------------------------------------------
\* The rows of a strategy, whatever the data they are of.
RowsOf(s) == {c \in Combos : db[c] # NoRow /\ db[c].strategy = s}

\* The call: read the rows of the strategy, keep the combinations of the grid
\* that have none.  When the table cannot be read the search goes on without.
StartSearch(r) ==
    /\ phase \in {"idle", "returned", "raised"} /\ searches < MaxSearches
    /\ searches' = searches + 1
    /\ request' = r
    /\ \/ /\ r.saves
          /\ existing' = RowsOf(r.strategy) /\ UNCHANGED blind
       \/ existing' = {} /\ blind' = blind + 1
    /\ task' = [c \in Combos |-> IF c \in r.grid \ existing' THEN "todo" ELSE "none"]
    /\ results' = Uncounted /\ broken' = FALSE
    /\ phase' = "submit"
    /\ UNCHANGED <<db, ran, unsaved>>

\* Every task is submitted before the first result is looked at.
Submit(c) ==
    /\ phase = "submit" /\ ~Serial /\ ~broken
    /\ task[c] = "todo" /\ task' = [task EXCEPT ![c] = "queued"]
    /\ UNCHANGED <<db, phase, request, existing, results, broken, searches, ran,
                   unsaved, blind>>

AllSubmitted ==
    /\ phase = "submit" /\ (Serial \/ In({"todo"}) = {})
    /\ phase' = "collect"
    /\ UNCHANGED <<db, request, existing, task, results, broken, searches, ran,
                   unsaved, blind>>

\* submit on a broken pool raises, out of run_grid_search.
SubmitOnBroken ==
    /\ phase = "submit" /\ broken /\ In({"todo"}) # {}
    /\ phase' = "raised"
    /\ task' = [c \in Combos |-> "none"]
    /\ unsaved' = Counted(unsaved, In({"done"}))
    /\ UNCHANGED <<db, request, existing, results, broken, searches, ran, blind>>

\* A worker, or the main process itself, takes a task; in any order.
StartTask(c) ==
    /\ \/ /\ Serial /\ phase = "collect" /\ task[c] = "todo"
          /\ In({"running", "done", "taken"}) = {}
       \/ /\ ~Serial /\ task[c] = "queued"
          /\ Cardinality(In({"running"})) < MaxWorkers
    /\ task' = [task EXCEPT ![c] = "running"]
    /\ UNCHANGED <<db, phase, request, existing, results, broken, searches, ran,
                   unsaved, blind>>

\* The backtest ends, raises, or exceeds the timeout: there is a result.
FinishTask(c) ==
    /\ task[c] = "running" /\ task' = [task EXCEPT ![c] = "done"]
    /\ ran' = Counted(ran, {c})
    /\ UNCHANGED <<db, phase, request, existing, results, broken, searches, unsaved,
                   blind>>

\* A worker dies: the pool fails every task that has no result yet.
BreakPool ==
    /\ ~Serial /\ In({"running"}) # {}
    /\ broken' = TRUE
    /\ task' = [c \in Combos |->
                   IF task[c] \in {"queued", "running"} THEN "broken" ELSE task[c]]
    /\ UNCHANGED <<db, phase, request, existing, results, searches, ran, unsaved, blind>>

\* A variant for checking: a task the pool lost gets no result.
CollectSurvivors(c) ==
    /\ phase = "collect" /\ In({"taken"}) = {}
    /\ task[c] \in {"done", "broken"}
    /\ results' = IF task[c] = "done" THEN Counted(results, {c}) ELSE results
    /\ task' = [task EXCEPT ![c] = IF @ = "done" THEN "taken" ELSE "answered"]
    /\ UNCHANGED <<db, phase, request, existing, broken, searches, ran, unsaved, blind>>

\* A result, in the order of completion, or a failure for a task the pool lost;
\* the failure is not stored.
Collect(c) ==
    /\ phase = "collect" /\ In({"taken"}) = {}
    /\ task[c] \in {"done", "broken"}
    /\ results' = Counted(results, {c})
    /\ task' = [task EXCEPT ![c] = IF @ = "done" THEN "taken" ELSE "answered"]
    /\ UNCHANGED <<db, phase, request, existing, broken, searches, ran, unsaved, blind>>

Stored(c) ==
    [db EXCEPT ![c] = IF @ = NoRow THEN [strategy |-> request.strategy, data |-> request.data]
                      ELSE @]

\* A variant for checking: the transaction is not committed.
SaveUncommitted(c) ==
    /\ task[c] = "taken" /\ task' = [task EXCEPT ![c] = "answered"]
    /\ \/ request.saves /\ UNCHANGED <<db, unsaved>>
       \/ unsaved' = Counted(unsaved, {c}) /\ UNCHANGED db
    /\ UNCHANGED <<phase, request, existing, results, broken, searches, ran, blind>>

\* INSERT OR IGNORE: a row of the same parameters stays; a failure is logged.
Save(c) ==
    /\ task[c] = "taken" /\ task' = [task EXCEPT ![c] = "answered"]
    /\ \/ request.saves /\ db' = Stored(c) /\ UNCHANGED unsaved
       \/ unsaved' = Counted(unsaved, {c}) /\ UNCHANGED db
    /\ UNCHANGED <<phase, request, existing, results, broken, searches, ran, blind>>

\* existing_results + new_results is the answer.
Return ==
    /\ phase = "collect" /\ Asked = In({"answered"})
    /\ phase' = "returned"
    /\ UNCHANGED <<db, request, existing, task, results, broken, searches, ran,
                   unsaved, blind>>

\* The main process dies, and its workers with it; the table stays.
Kill ==
    /\ phase \in {"submit", "collect"}
    /\ phase' = "idle"
    /\ task' = [c \in Combos |-> "none"]
    /\ unsaved' = Counted(unsaved, In({"done", "taken"}))
    /\ UNCHANGED <<db, request, existing, results, broken, searches, ran, blind>>

SearchStep ==
    \/ AllSubmitted \/ SubmitOnBroken \/ BreakPool \/ Return
    \/ \E c \in Combos : Submit(c) \/ StartTask(c) \/ FinishTask(c) \/ Collect(c) \/ Save(c)

SearchNext == SearchStep \/ Kill \/ \E r \in Requests : StartSearch(r)

SearchSpec == SearchInit /\ [][SearchNext]_searchVars

-----------------------------------------------------------------------------
(* Properties *)

\* A search that returns results each combination of its grid once, from the
\* table or with a result of its own, also when workers died on the way, the
\* search was resumed, or the table failed (optimize.py, run_grid_search).
AnsweredOnce ==
    phase = "returned" =>
        \A c \in request.grid :
            IF c \in existing THEN results[c] = 0 ELSE results[c] = 1

\* Resuming: a combination is backtested again only for a result that was not
\* stored, or by a search that did not read the table; when one strategy uses it
\* (optimize.py, run_grid_search and _save_result_to_db).
RunAgainOnlyIfUnsaved ==
    (\E s \in Strategies : Strategies = {s}) =>
        \A c \in Combos : ran[c] <= 1 + unsaved[c] + blind
=============================================================================
