---------------------------- MODULE SignalReplay ----------------------------
(***************************************************************************)
(* The ensemble signal engine (ai/ensemble.py) and the gate that replays   *)
(* out-of-sample probabilities through the backtester as the engine would  *)
(* trade them (ai/economic_gate.py): first the signals of the whole stream *)
(* are reconstructed, then BacktestEngine runs with them.  A probability   *)
(* of a rise is one of five levels, split by the entry thresholds 0.80 and *)
(* 0.20 and the exit thresholds 0.55 and 0.45.                             *)
(***************************************************************************)
EXTENDS Integers, Sequences, SequencesExt, FiniteSets

CONSTANTS
  Symbols,
  MaxRows      \* bound of the model: rows replayed

Levels == {"low", "below", "mid", "above", "high"}
Regimes == {"BULL", "SIDEWAYS", "BEAR", "HIGH_VOLATILITY", "CRISIS"}

VARIABLES
  stream,      \* rows so far, of one fold, sorted by symbol: [sym, day, signal, after]
  position,    \* the gate's: 1 long, -1 short, 0 flat
  net,         \* the engine's account, per symbol
  gated,       \* history: a regime kept the engine from an entry, or halted it
  answers,     \* history: what gate and engine did at the last row
  bar,         \* days the backtester has run
  held,        \* symbols it holds; it has no short positions
  pending,     \* its orders for the next open of each symbol, in order
  cut,         \* history: symbols with a purchase in part, its remainder pending or what it bought held
  lost         \* history: symbols not held of which a purchase was forgotten

gate == <<stream, position, net, gated, answers>>
backtester == <<bar, held, pending, cut, lost>>
vars == <<gate, backtester>>

Seen == {stream[i].sym : i \in DOMAIN stream}

-----------------------------------------------------------------------------
(* EnsembleSignalEngine.generate_signal: a crisis halts, exits come before  *)
(* entries, and the regime decides which entries there are.                *)

Permits(regime, action) ==
  CASE action = "BUY"        -> regime \in {"BULL", "SIDEWAYS"}
    [] action = "SELL_SHORT" -> regime \in {"BEAR", "HIGH_VOLATILITY"}

Exit(p, quantity) ==
  CASE quantity > 0 /\ p \in {"low", "below"}  -> "SELL"
    [] quantity < 0 /\ p \in {"above", "high"} -> "BUY_TO_COVER"
    [] OTHER                                   -> "none"

Entry(p) == CASE p = "high" -> "BUY" [] p = "low" -> "SELL_SHORT" [] OTHER -> "none"

GenerateSignal(p, regime, quantity) ==
  CASE regime = "CRISIS"                                          -> "none"
    [] regime # "CRISIS" /\ Exit(p, quantity) # "none"            -> Exit(p, quantity)
    [] regime # "CRISIS" /\ Exit(p, quantity) = "none" /\ Entry(p) # "none" ->
         IF Permits(regime, Entry(p)) THEN Entry(p) ELSE "none"
    [] OTHER                                                      -> "none"

Regulated(p, regime, quantity) ==
  regime = "CRISIS" \/ (Exit(p, quantity) = "none" /\ Entry(p) # "none" /\ ~Permits(regime, Entry(p)))

After(action, quantity) ==
  CASE action = "BUY" -> 1 [] action = "SELL_SHORT" -> -1
    [] action \in {"SELL", "BUY_TO_COVER"} -> 0 [] OTHER -> quantity

-----------------------------------------------------------------------------
(* evaluate_oos_economics: one position for the whole stream.               *)

\* Mutant of Reconstructed: entries come before exits.
Reconstructed_EntryFirst(p) ==
  CASE p = "high"                      -> [signal |-> "buy", position |-> 1]
    [] p = "low"                       -> [signal |-> "sell", position |-> -1]
    [] position = 1 /\ p = "below"     -> [signal |-> "sell", position |-> 0]
    [] position = -1 /\ p = "above"    -> [signal |-> "buy", position |-> 0]
    [] OTHER                           -> [signal |-> "none", position |-> position]

Reconstructed(p) ==
  CASE position = 1 /\ p \in {"low", "below"}   -> [signal |-> "sell", position |-> 0]
    [] position = -1 /\ p \in {"above", "high"} -> [signal |-> "buy", position |-> 0]
    [] position # 1 /\ p = "low"                -> [signal |-> "sell", position |-> -1]
    [] position # -1 /\ p = "high"              -> [signal |-> "buy", position |-> 1]
    [] OTHER                                    -> [signal |-> "none", position |-> position]

-----------------------------------------------------------------------------
Init ==
  /\ stream = <<>>
  /\ position = 0 /\ net = [s \in Symbols |-> 0]
  /\ gated = FALSE /\ answers = [gate |-> "none", engine |-> "none"]
  /\ bar = 0 /\ held = {} /\ pending = [s \in Symbols |-> <<>>]
  /\ cut = {} /\ lost = {}

\* Every symbol has bars on the days from the first.
Day(s) == Cardinality({i \in DOMAIN stream : stream[i].sym = s}) + 1

Row(s, p, regime) ==
  LET action == GenerateSignal(p, regime, net[s])
      replay == Reconstructed(p)
  IN /\ bar = 0 /\ Len(stream) < MaxRows
     /\ s \in Seen => s = Last(stream).sym
     /\ stream' = Append(stream, [sym |-> s, day |-> Day(s), signal |-> replay.signal, after |-> replay.position])
     /\ position' = replay.position
     /\ net' = [net EXCEPT ![s] = After(action, @)]
     /\ gated' = (gated \/ Regulated(p, regime, net[s]))
     /\ answers' = [gate |-> replay.signal, engine |-> action]
     /\ UNCHANGED backtester

-----------------------------------------------------------------------------
(* BacktestEngine.run: orders fill at the open of the next bar of their     *)
(* symbol, then the strategy is asked once for the whole day.               *)

HasBar(s, d) == \E i \in DOMAIN stream : stream[i].sym = s /\ stream[i].day = d

\* The strategy counts its calls: day d gets the signal of the d-th row.
Strategy(d) == stream[d].signal

\* A buy is for every symbol that is not held, a sale for every one that is.
Ordered(s, signal, holding) ==
  CASE signal = "buy" /\ s \in Seen \ holding -> <<"BUY">>
    [] signal = "sell" /\ s \in holding       -> <<"SELL">>
    [] OTHER                                  -> <<>>

\* The orders of s that the bar of the day fills.
Due(s) == IF HasBar(s, bar + 1) THEN DOMAIN pending[s] ELSE {}
Purchases == UNION {{<<s, i>> : i \in {j \in Due(s) : pending[s][j] = "BUY"}} : s \in Seen}

\* A purchase takes a tenth of the volume and what the cash affords, and is
\* forgotten when that is nothing.
Fills == {"whole", "part", "none"}
Cut(s, fill) == {i \in Due(s) : pending[s][i] = "BUY" /\ fill[<<s, i>>] = "part"}
Forgotten(s, fill) == {i \in Due(s) : pending[s][i] = "BUY" /\ fill[<<s, i>>] = "none"}

\* A sale deletes the position; what is bought after it opens another.
HeldAfter(s, fill) ==
  \/ s \in held /\ \A i \in Due(s) : pending[s][i] = "BUY"
  \/ \E i \in Due(s) \ Forgotten(s, fill) : \A j \in Due(s) : j >= i => pending[s][j] = "BUY"

\* The remainder of a purchase is an order again.
Requeued(s, fill) ==
  IF HasBar(s, bar + 1) THEN [i \in 1..Cardinality(Cut(s, fill)) |-> "BUY"] ELSE pending[s]

ReplayBar ==
  /\ \E s \in Seen : HasBar(s, bar + 1)
  /\ bar' = bar + 1
  /\ \E fill \in [Purchases -> Fills] :
       /\ held' = {s \in Seen : HeldAfter(s, fill)}
       /\ pending' = [s \in Symbols |-> Requeued(s, fill) \o Ordered(s, Strategy(bar + 1), held')]
       /\ cut' = {s \in Symbols : Cut(s, fill) # {} \/ (s \in cut /\ s \in held')}
       /\ lost' = {s \in Symbols \ held' : Forgotten(s, fill) # {} \/ s \in lost}
  /\ UNCHANGED gate

Next == (\E s \in Symbols, p \in Levels, regime \in Regimes : Row(s, p, regime)) \/ ReplayBar

Spec == Init /\ [][Next]_vars

-----------------------------------------------------------------------------
(* Properties *)

Single == Cardinality(Seen) = 1

\* "Reconstructs the trading signal sequence the deployed engine would have
\* produced": for the stream of one symbol, until a regime stops an entry, gate and
\* engine buy and sell at the same rows and hold the same side.  While that is never
\* short, the backtester holds what the row before says, but for a purchase that was
\* forgotten, and for one in part, whose remainder may reopen what was sold.
ReplayMirrors ==
  Single => LET s == Last(stream).sym IN
    /\ ~gated => /\ position = net[s]
                 /\ answers.gate = CASE answers.engine \in {"BUY", "BUY_TO_COVER"} -> "buy"
                                     [] answers.engine \in {"SELL", "SELL_SHORT"}  -> "sell"
                                     [] OTHER                                      -> "none"
    /\ bar > 1 /\ (\A i \in DOMAIN stream : stream[i].after # -1) =>
         IF stream[bar - 1].after = 1 THEN s \in held \cup lost ELSE s \in held => s \in cut

\* "replays those signals through BacktestEngine": the replay of one symbol's
\* signals, its purchases filled whole, is long only where the sequence is; the
\* purchase that covers a short opens nothing.
LongWhereSignalled ==
  Single /\ bar > 1 /\ cut = {} /\ held # {} => stream[bar - 1].after = 1

=============================================================================
