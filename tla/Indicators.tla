----------------------------- MODULE Indicators -----------------------------
(***************************************************************************)
(* pyrobot/indicators.py over pyrobot/stock_frame.py: indicators add       *)
(* columns to a frame of prices, bars are added to the frame, refresh      *)
(* computes all columns again, and signals compare the columns' last rows. *)
(* A column is what its last row knows: the revision of the frame it was   *)
(* computed from, 0 when there is no such column.                          *)
(***************************************************************************)
EXTENDS Naturals, Sequences, SequencesExt, FiniteSets

CONSTANTS
  Catalogue,              \* indicators a program may add: [kind, key]
  Ruled,                  \* columns its rules are about
  MaxRevisions, MaxRules, MaxIndicators  \* bounds of the model

VARIABLES
  revision,    \* of the rows of the frame
  columns,     \* column to revision
  registered,  \* _current_indicators, in the order they were added
  rules,       \* set_indicator_signal(_compare): [left, right, buys, sells]
  phase,       \* "adding" indicators, bars "added", columns "refreshed"
  checked      \* history: columns of the last check with their revisions, and what came out

vars == <<revision, columns, registered, rules, phase, checked>>

-----------------------------------------------------------------------------
(* The columns an indicator leaves.  Some have the name it was given, some  *)
(* a fixed one; scratch columns are dropped before it returns.             *)

Keys == {i.key : i \in Catalogue}
Fixed == {"change_in_price", "rsi", "band_upper", "band_lower", "average_true_range", "stochastic_oscillator",
          "macd", "macd_diff", "mass_index", "ease_of_movement"}

\* Columns named after the key of an indicator.
Signal(key) == key \o "_signal"
Lines(key) == {key \o "_tenkan", key \o "_kijun", key \o "_senkou_a", key \o "_senkou_b", key \o "_chikou"}

Named(kind) == {i.key : i \in {j \in Catalogue : j.kind = kind}}
Columns == Keys \cup Fixed \cup {Signal(key) : key \in Named("kst_oscillator")}
             \cup UNION {Lines(key) : key \in Named("ichimoku_cloud")}

Put(cols, names) == [c \in Columns |-> IF c \in names THEN revision ELSE cols[c]]

OwnColumn(cols, key)       == Put(cols, {key})
BollingerBands(cols)       == Put(cols, {"band_upper", "band_lower"})
AverageTrueRange(cols)     == Put(cols, {"average_true_range"})
StochasticOscillator(cols) == Put(cols, {"stochastic_oscillator"})
Macd(cols)                 == Put(cols, {"macd", "macd_diff"})
MassIndex(cols)            == Put(cols, {"mass_index"})
EaseOfMovement(cols)       == Put(cols, {"ease_of_movement"})
KstOscillator(cols, key)   == Put(cols, {key, Signal(key)})
IchimokuCloud(cols, key)   == Put(cols, Lines(key))
ChangeInPrice(cols)        == Put(cols, {"change_in_price"})

\* rsi uses the column of price changes when there is one, and drops it.
Rsi(cols) ==
  [cols EXCEPT !["rsi"] = IF cols["change_in_price"] # 0 THEN cols["change_in_price"] ELSE revision,
               !["change_in_price"] = 0]

Computed(cols, i) ==
  CASE i.kind = "own"                -> OwnColumn(cols, i.key)
    [] i.kind = "bollinger_bands"    -> BollingerBands(cols)
    [] i.kind = "average_true_range" -> AverageTrueRange(cols)
    [] i.kind = "stochastic_oscillator" -> StochasticOscillator(cols)
    [] i.kind = "macd"               -> Macd(cols)
    [] i.kind = "mass_index"         -> MassIndex(cols)
    [] i.kind = "ease_of_movement"   -> EaseOfMovement(cols)
    [] i.kind = "kst_oscillator"     -> KstOscillator(cols, i.key)
    [] i.kind = "ichimoku_cloud"     -> IchimokuCloud(cols, i.key)
    [] i.kind = "change_in_price"    -> ChangeInPrice(cols)
    [] i.kind = "rsi"                -> Rsi(cols)

\* An indicator is noted under its key, in the place of an older one with the key.
\* rsi without price changes adds that indicator after itself.
Note(seq, i) ==
  IF \E j \in DOMAIN seq : seq[j].key = i.key
  THEN [j \in DOMAIN seq |-> IF seq[j].key = i.key THEN i ELSE seq[j]] ELSE Append(seq, i)

Noted(i) ==
  LET own == Note(registered, i)
  IN IF i.kind = "rsi" /\ columns["change_in_price"] = 0
     THEN Note(own, [kind |-> "change_in_price", key |-> "change_in_price"]) ELSE own

-----------------------------------------------------------------------------
Nothing == [used |-> [c \in {} |-> 0], outcome |-> "none"]

Init ==
  /\ revision = 1
  /\ columns = [c \in Columns |-> 0]
  /\ registered = <<>> /\ rules = <<>>
  /\ phase = "adding" /\ checked = Nothing

AddIndicator(i) ==
  /\ phase = "adding" /\ Len(registered) < MaxIndicators
  /\ columns' = Computed(columns, i)
  /\ registered' = Noted(i)
  /\ UNCHANGED <<revision, rules, phase, checked>>

\* A rule on a column (right is "none") or on two; the maximum of a rule is kept
\* and never looked at.  A comparison may lack one of its operators.
SetIndicatorSignal(left, right, buys, sells) ==
  /\ phase = "adding" /\ Len(rules) < MaxRules
  /\ right = "none" => buys /\ sells
  /\ rules' = Append(rules, [left |-> left, right |-> right, buys |-> buys, sells |-> sells])
  /\ UNCHANGED <<revision, columns, registered, phase, checked>>

\* add_rows, once before each refresh as the loops of the samples do: columns
\* that are there have no value in the new row.
AddRows ==
  /\ phase # "added" /\ revision < MaxRevisions
  /\ revision' = revision + 1
  /\ phase' = "added"
  /\ UNCHANGED <<columns, registered, rules, checked>>

\* Mutant of Replayed: the indicators in the order of the latest first.
Replayed_LatestFirst == FoldSeq(LAMBDA i, cols : Computed(cols, i), columns, registered)
Replayed == FoldLeft(Computed, columns, registered)

Refresh ==
  /\ phase = "added"
  /\ columns' = Replayed
  /\ phase' = "refreshed"
  /\ UNCHANGED <<revision, registered, rules, checked>>

\* do_indicator_exist raises for a column that is missing, the thresholds' first.
Compared(r) == {r.left} \cup IF r.right = "none" THEN {} ELSE {r.right}
Thresholds == SelectSeq(rules, LAMBDA r : r.right = "none")
Comparisons == SelectSeq(rules, LAMBDA r : r.right # "none")
InOrder == Thresholds \o Comparisons

\* _check_signals: every rule replaces what the one before it found; which rules
\* hold depends on the prices.
CheckSignals(holds) ==
  /\ phase = "refreshed"
  /\ LET used == UNION {Compared(rules[j]) : j \in DOMAIN rules}
         buying == SelectSeq(InOrder, LAMBDA r : r.buys)
     IN checked' = [used |-> [c \in used |-> columns[c]],
                    outcome |-> CASE \E c \in used : columns[c] = 0 -> "KeyError"
                                  [] buying # <<>> /\ Last(buying) \in holds -> "buys"
                                  [] OTHER -> "none"]
  /\ UNCHANGED <<revision, columns, registered, rules, phase>>

Next ==
  \/ \E i \in Catalogue : AddIndicator(i)
  \/ \E left \in Ruled, right \in Ruled \cup {"none"}, buys, sells \in BOOLEAN :
       SetIndicatorSignal(left, right, buys, sells)
  \/ AddRows \/ Refresh
  \/ \E holds \in SUBSET {rules[j] : j \in DOMAIN rules} : CheckSignals(holds)

Spec == Init /\ [][Next]_vars

-----------------------------------------------------------------------------
(* Properties *)

Index(kind) == {j \in DOMAIN registered : registered[j].kind = kind}

\* Whether price changes are computed just before they are used.
ChangesFirst == \E j \in Index("change_in_price") : \A k \in Index("rsi") : j < k

\* "Updates the Indicator columns after adding the new rows": what refresh leaves
\* is of the current rows, every column but rsi, and rsi too
\* where a single one was added after the price changes; otherwise the relative
\* strength may miss the latest bar, and never more than that.
RefreshedColumns ==
  phase = "refreshed" => \A c \in Columns : columns[c] # 0 =>
    /\ c # "rsi" => columns[c] = revision
    /\ c = "rsi" => columns[c] + 1 >= revision
    /\ c = "rsi" /\ ChangesFirst /\ Cardinality(Index("rsi")) = 1 => columns[c] = revision

=============================================================================
