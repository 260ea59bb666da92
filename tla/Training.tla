------------------------------ MODULE Training ------------------------------
(***************************************************************************)
(* How a direction model is trained (ai/training.py): labels look Horizon  *)
(* bars ahead, walk-forward folds (backtesting/walk_forward.py) give       *)
(* out-of-sample predictions, which are replayed against prices; then the  *)
(* model is fitted on everything, tried on a holdout, and registered as a  *)
(* challenger when all gates pass.  A row is a symbol and a day; every bar *)
(* is a day's.                                                             *)
(***************************************************************************)
EXTENDS Integers, Sequences, SequencesExt, FiniteSetsExt

CONSTANTS
  Universe,    \* the symbols, sorted
  Calendars,   \* days a symbol may have bars on
  Geometries   \* [warm, horizon, splits, train, test, embargo, holdout, samples]

VARIABLES
  geometry,
  bars,        \* symbol to the days of its bars
  priced,      \* aligned_prices: the labelled rows, sorted
  clean,       \* of these the rows with all features, sorted
  dates,       \* unique_dates of clean
  fold,        \* next fold
  folds,       \* [train, test] of the folds evaluated
  oos,         \* rows of the out-of-sample predictions, in their order
  prices,      \* rows whose prices they are replayed against
  fitted,      \* rows the registered model was fitted on
  shadow,      \* rows of the holdout
  status       \* "folds", then "refit", then "CHALLENGER", "CANDIDATE" or "raised"

data == <<geometry, bars, priced, clean, dates>>
vars == <<data, fold, folds, oos, prices, fitted, shadow, status>>

Symbols == Range(Universe)

-----------------------------------------------------------------------------
(* Rows of the feature frame.                                              *)

Rank(s, d) == Cardinality({e \in bars[s] : e <= d})
Rows == {r \in Symbols \X UNION Range(bars) : r[2] \in bars[r[1]]}

\* direction_labels and drop_unlabeled: the last Horizon bars of a symbol have no label.
LabelledRows == {r \in Rows : Rank(r[1], r[2]) + geometry.horizon <= Cardinality(bars[r[1]])}

\* Rows in which some feature is not yet defined are dropped.
CleanRows == {r \in LabelledRows : Rank(r[1], r[2]) > geometry.warm}

Place(s) == SelectInSeq(Universe, LAMBDA u : u = s)
Before(q, r) == Place(q[1]) < Place(r[1]) \/ (q[1] = r[1] /\ q[2] < r[2])
Sorted(set, Less(_, _)) ==
  [i \in 1..Cardinality(set) |-> CHOOSE r \in set : Cardinality({q \in set : Less(q, r)}) = i - 1]
InOrder(rows) == Sorted(rows, Before)

\* The label of a row is made of the bars after it, the last of them this one.
LabelEnd(r) == CHOOSE d \in bars[r[1]] : Rank(r[1], d) = Rank(r[1], r[2]) + geometry.horizon

-----------------------------------------------------------------------------
(* WalkForwardValidator.split, expanding                                   *)

Clean == Range(clean)
Required == geometry.train + geometry.embargo + geometry.test

\* Days from a fold to the next.
Step ==
  IF geometry.splits = 1 THEN geometry.test
  ELSE Max({1, (Len(dates) - Required) \div (geometry.splits - 1)})

TrainEnd(i) == geometry.train + i * Step
TestStart(i) == TrainEnd(i) + geometry.embargo + 1
TestEnd(i) == Min({TestStart(i) + geometry.test - 1, Len(dates)})

TestRows(i) == {r \in Clean : r[2] >= dates[TestStart(i)] /\ r[2] <= dates[TestEnd(i)]}

\* Rows of a symbol before its first test row, and whether a row is far enough from
\* that for its label.  Mutant: the row at the boundary stays.
Prior(s, test) == {r \in Clean : r[1] = s /\ \A t \in test : t[1] = s => r[2] < t[2]}

KeptForTraining_Boundary(r, test) ==
  LET prior == Prior(r[1], test)
  IN Cardinality({q \in prior : q[2] >= r[2]}) >= geometry.horizon

KeptForTraining(r, test) ==
  LET prior == Prior(r[1], test)
  IN Cardinality({q \in prior : q[2] >= r[2]}) > geometry.horizon

\* Symbols that are not tested are not trained on.
TrainRows(i) ==
  LET test == TestRows(i)
  IN {r \in Clean : /\ r[2] <= dates[TrainEnd(i)]
                    /\ \E t \in test : t[1] = r[1]
                    /\ KeptForTraining(r, test)}

-----------------------------------------------------------------------------
Init ==
  /\ geometry \in Geometries
  /\ bars \in [Symbols -> Calendars]
  /\ priced = InOrder(LabelledRows) /\ clean = InOrder(CleanRows)
  /\ dates = Sorted({r[2] : r \in CleanRows}, LAMBDA d, e : d < e)
  /\ fold = 0 /\ folds = <<>> /\ oos = <<>> /\ prices = <<>>
  /\ fitted = {} /\ shadow = {} /\ status = "folds"

\* Too few rows or days raise.
Enough == Len(clean) >= geometry.samples /\ Len(dates) >= Required

Raise ==
  /\ status = "folds" /\ ~Enough
  /\ status' = "raised"
  /\ UNCHANGED <<data, fold, folds, oos, prices, fitted, shadow>>

\* A fold: a new model is fitted and tested; without rows on either side it is skipped.
HasFold == Enough /\ fold < geometry.splits /\ TestStart(fold) <= TestEnd(fold)

\* The predictions are replayed against the labelled rows at their positions
\* among the clean rows.
Replayed(test) ==
  [i \in DOMAIN test |-> priced[SelectInSeq(clean, LAMBDA r : r = test[i])]]

Fold ==
  /\ status = "folds" /\ HasFold
  /\ LET train == TrainRows(fold) test == TestRows(fold)
     IN IF train = {} \/ test = {} THEN UNCHANGED <<folds, oos, prices>>
        ELSE /\ folds' = Append(folds, [train |-> train, test |-> test])
             /\ oos' = oos \o InOrder(test)
             /\ prices' = prices \o Replayed(InOrder(test))
  /\ fold' = fold + 1
  /\ UNCHANGED <<data, fitted, shadow, status>>

\* The registered model is fitted on all rows; the holdout is the last of them.
Refit ==
  /\ status = "folds" /\ Enough /\ ~HasFold
  /\ fitted' = Clean
  /\ shadow' = {clean[i] : i \in (Len(clean) - geometry.holdout + 1)..Len(clean)}
  /\ status' = "refit"
  /\ UNCHANGED <<data, fold, folds, oos, prices>>

\* Gates on the number of predictions and on what they are worth, then the
\* degradation on the holdout.
Register(worth, degraded) ==
  /\ status = "refit" /\ (degraded => shadow # {})
  /\ status' = IF Len(oos) >= geometry.samples /\ oos # <<>> /\ worth /\ ~degraded THEN "CHALLENGER" ELSE "CANDIDATE"
  /\ UNCHANGED <<data, fold, folds, oos, prices, fitted, shadow>>

Next == Raise \/ Fold \/ Refit \/ \E worth, degraded \in BOOLEAN : Register(worth, degraded)

Spec == Init /\ [][Next]_vars

-----------------------------------------------------------------------------
(* Properties *)

\* "every training sample whose label could overlap with the first test sample
\* must be dropped": no label a fold trains on reaches a test row of its symbol,
\* whatever bars are missing, and days between are left out.
NoLabelLeak ==
  \A i \in DOMAIN folds : \A r \in folds[i].train, t \in folds[i].test :
    /\ r[1] = t[1] => LabelEnd(r) < t[2]
    /\ Cardinality({d \in Range(dates) : r[2] < d /\ d < t[2]}) >= geometry.embargo

\* "the aggregated OOS score computed ONCE": with days enough for folds a test
\* period apart, no row is predicted, scored and counted by the gates twice.
TestedOnce ==
  Len(dates) >= Required + (geometry.splits - 1) * geometry.test => Cardinality(Range(oos)) = Len(oos)

\* The folds tell what the model is worth: no training label reaches into a test,
\* and no row is counted twice.
FoldsSound == NoLabelLeak /\ TestedOnce

\* "indexed to match the probability stream": every out-of-sample prediction is
\* replayed against the prices of its own row.
PricesAligned == prices = oos

\* "shadow metrics measure the deployed artifact on untouched data".
HoldoutUntouched == shadow \cap fitted = {}

=============================================================================
