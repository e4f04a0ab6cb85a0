----------------------------- MODULE WalkForward ------------------------------
(***************************************************************************)
(* run_walk_forward (optimize.py): windows of training and test data one   *)
(* after the other; each window's grid search runs on its training data,   *)
(* and the best result's parameters are tested on the data that follow.    *)
(* All searches get the same keyword arguments, db_path among them.        *)
(***************************************************************************)
EXTENDS GridSearch

CONSTANT Windows   \* number of windows; window w trains on data set w, of 1..Windows

VARIABLES
    window,   \* the window whose turn it is
    chosen    \* the data set of the result each window took its parameters from

walkVars == <<searchVars, window, chosen>>

WalkInit ==
    /\ SearchInit /\ request.data = 1
    /\ window = 1 /\ chosen = [w \in 1..Windows |-> 0]

\* run_grid_search on the window's training data.
TrainWindow ==
    /\ phase = "idle" /\ window <= Windows
    /\ StartSearch([request EXCEPT !.data = window])
    /\ UNCHANGED <<window, chosen>>

\* The data set a result of the search is of.
ResultData(c) == IF c \in existing THEN db[c].data ELSE request.data

\* The first row of the sorted answer, any result here; none: skip the window.
TestWindow ==
    /\ phase = "returned"
    /\ LET answer == existing \cup {c \in Combos : results[c] > 0}
       IN  \/ \E c \in answer : chosen' = [chosen EXCEPT ![window] = ResultData(c)]
           \/ answer = {} /\ UNCHANGED chosen
    /\ window' = window + 1 /\ phase' = "idle"
    /\ UNCHANGED <<db, request, existing, task, results, broken, searches, ran,
                   unsaved, blind>>

WalkNext ==
    \/ TrainWindow \/ TestWindow
    \/ SearchStep /\ UNCHANGED <<window, chosen>>

WalkSpec == WalkInit /\ [][WalkNext]_walkVars

-----------------------------------------------------------------------------
\* A window is tested with parameters that its own training data chose: "re-run
\* Grid Search to find optimal parameter B" (docs/en/guide/optimization.md:268).
TrainedOnItsWindow == \A w \in 1..Windows : chosen[w] \in {0, w}
=============================================================================
