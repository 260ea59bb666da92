----------------------------- MODULE DeskProofs -----------------------------
(***************************************************************************)
(* What holds of the parts of the desk, for any number of sessions, days,  *)
(* requests, models, orders and symbols: each part has an invariant of its *)
(* own, kept by its steps while the other parts are off.                   *)
(***************************************************************************)
EXTENDS Desk, SetProofs

-----------------------------------------------------------------------------
(* Only its own steps change a component.                                   *)
LEMMA ReplayAlone ==
  /\ DeskInit /\ part = "replay" => Replay!Init
  /\ [DeskNext]_desk /\ part' = "replay" => part = "replay" /\ [Replay!Next]_(Replay!vars)
<1>1. DeskInit /\ part = "replay" => Replay!Init
  BY DEF DeskInit, PartInit
<1>2. ASSUME DeskNext, part' = "replay" PROVE part = "replay" /\ Replay!Next
  BY <1>2 DEF DeskNext, SessionRuns, ConsoleRuns, RegistryRuns, TradeRuns, RobotRuns, IndicatorsRun, TrainingRuns, ReplayRuns
<1>3. ASSUME UNCHANGED desk, part' = "replay" PROVE part = "replay" /\ UNCHANGED Replay!vars
  BY <1>3 DEF desk, replay, Replay!vars, Replay!gate, Replay!backtester
<1> QED
  BY <1>1, <1>2, <1>3

-----------------------------------------------------------------------------
(* The replay of signals: the gate, the engine and the backtester.          *)

Signals == {"buy", "sell", "none"}
Holdings == {-1, 0, 1}

ReplayRow == [sym : Tickers, day : Nat, signal : Signals, after : Holdings]

\* The gate's position before a row.
Prior(i) == IF i = 1 THEN 0 ELSE stream[i - 1].after

\* What a signal says of the positions before and after it.
Linked(b, w) ==
  /\ w.signal = "buy" => w.after = 1 \/ (b = -1 /\ w.after = 0)
  /\ w.signal = "sell" => w.after = -1 \/ (b = 1 /\ w.after = 0)
  /\ w.signal = "none" => w.after = b

StreamInv ==
  /\ stream \in Seq(ReplayRow)
  /\ position = Prior(Len(stream) + 1)
  /\ \A i \in 1..Len(stream) : Linked(Prior(i), stream[i])

\* The rows of a single symbol are its days.
Only(s) == \A i \in 1..Len(stream) : stream[i].sym = s
DaysCount == \A s \in Tickers : Only(s) => \A i \in 1..Len(stream) : stream[i].day = i

\* The side the engine's action is.
SideOf(action) ==
  CASE action \in {"BUY", "BUY_TO_COVER"} -> "buy"
    [] action \in {"SELL", "SELL_SHORT"}  -> "sell"
    [] OTHER                              -> "none"

EngineAgrees ==
  /\ net \in [Tickers -> Holdings]
  /\ stream = <<>> => \A s \in Tickers : net[s] = 0
  /\ \A s \in Tickers : Only(s) /\ stream # <<>> /\ ~gated => position = net[s] /\ answers.gate = SideOf(answers.engine)

\* The backtester holds what the row before says, and orders what the row says,
\* as long as the sequence of a single symbol is never short.
NeverShort == \A i \in 1..Len(stream) : stream[i].after # -1

\* A sale is pending only where the row sells what is held, and then it is the last
\* order; the others are purchases, of a remainder unless the row buys.
\* The orders of a symbol, when it is held or not, and bought in part or not.
Orders(queue, signal, holds, parts) ==
  /\ queue \in Seq({"BUY", "SELL"})
  /\ signal = "sell" /\ holds => Len(queue) > 0 /\ queue[Len(queue)] = "SELL"
  /\ ~(signal = "sell" /\ holds) => \A i \in 1..Len(queue) : queue[i] = "BUY"
  /\ signal = "buy" /\ ~holds => Len(queue) > 0
  /\ signal # "buy" /\ ~(signal = "sell" /\ holds) /\ Len(queue) > 0 => parts

Queued(s, signal) == Orders(pending[s], signal, s \in held, s \in cut)

Carried(s, before) == IF before = 1 THEN s \in held \cup lost ELSE s \in held => s \in cut

Mirrored ==
  /\ bar \in Nat
  /\ bar = 0 => held = {} /\ pending = [s \in Tickers |-> <<>>]
  /\ \A s \in Tickers : Only(s) /\ bar > 0 =>
       /\ bar <= Len(stream)
       /\ NeverShort => Carried(s, Prior(bar)) /\ Queued(s, stream[bar].signal)

ReplayInv == StreamInv /\ DaysCount /\ EngineAgrees /\ Mirrored

(* A stream that shows one symbol.                                          *)
LEMMA SingleIsOnly ==
  ASSUME StreamInv, Replay!Single
  PROVE  \E s \in Tickers : Only(s) /\ stream # <<>> /\ Replay!Seen = {s} /\ Replay!Last(stream).sym = s
<1>1. Replay!Cardinality(Replay!Seen) = Cardinality(Replay!Seen)
  BY DEF Replay!Cardinality, Cardinality
<1>2. DOMAIN stream = 1..Len(stream) /\ Len(stream) \in Nat
  BY LenProperties DEF StreamInv
<1>3. IsFiniteSet(Replay!Seen)
  <2>1. IsFiniteSet(1..Len(stream))
    BY <1>2, FS_Interval
  <2> DEFINE f == [i \in 1..Len(stream) |-> stream[i].sym]
  <2>2. f \in Surjection(1..Len(stream), Replay!Seen)
    BY <1>2 DEF Surjection, Replay!Seen
  <2> QED
    BY <2>1, <2>2, FS_Surjection
<1>4. PICK s : Replay!Seen = {s}
  BY <1>1, <1>3, FS_Singleton DEF Replay!Single
<1>5. \A i \in 1..Len(stream) : stream[i].sym = s
  BY <1>2, <1>4 DEF Replay!Seen
<1>6. Len(stream) # 0
  BY <1>2, <1>4 DEF Replay!Seen
<1>7. stream[Len(stream)] \in ReplayRow
  BY <1>2, <1>6, ElementOfSeq DEF StreamInv
<1> QED
  BY <1>2, <1>4, <1>5, <1>6, <1>7, EmptySeq DEF Replay!Last, ReplayRow, Only

(* The invariant is what the run checks.                                    *)
LEMMA ReplayIsMirrored ==
  ASSUME ReplayInv
  PROVE  Replay!ReplayMirrors
<1> DEFINE t == Replay!Last(stream).sym
<1> SUFFICES ASSUME Replay!Single PROVE
      /\ ~gated => position = net[t] /\ answers.gate = SideOf(answers.engine)
      /\ bar > 1 /\ (\A i \in DOMAIN stream : stream[i].after # -1) => Carried(t, stream[bar - 1].after)
  BY DEF Replay!ReplayMirrors, SideOf, Carried
<1>1. PICK s \in Tickers : Only(s) /\ stream # <<>> /\ t = s
  BY SingleIsOnly DEF ReplayInv
<1> HIDE DEF t
<1>2. ~gated => position = net[t] /\ answers.gate = SideOf(answers.engine)
  BY <1>1 DEF ReplayInv, EngineAgrees
<1>3. ASSUME bar > 1, \A i \in DOMAIN stream : stream[i].after # -1
      PROVE  Carried(t, stream[bar - 1].after)
  <2>1. NeverShort
    BY <1>3, LenProperties DEF NeverShort, ReplayInv, StreamInv
  <2>2. bar \in Nat /\ Carried(s, Prior(bar))
    BY <1>1, <1>3, <2>1 DEF ReplayInv, Mirrored
  <2>3. Prior(bar) = stream[bar - 1].after
    BY <1>3, <2>2 DEF Prior
  <2> QED
    BY <1>1, <2>2, <2>3
<1> QED
  BY <1>2, <1>3

(* Neither signals nor rows at the start.                                   *)
LEMMA ReplayBegins ==
  ASSUME Replay!Init
  PROVE  ReplayInv
<1>1. stream = <<>> /\ Len(stream) = 0 /\ stream \in Seq(ReplayRow)
  BY EmptySeq DEF Replay!Init
<1> QED
  BY <1>1 DEF Replay!Init, ReplayInv, StreamInv, DaysCount, EngineAgrees, Mirrored, Prior, Holdings

(* What the gate reconstructs, and what the engine does of the same side.   *)
LEMMA Reconstruction ==
  ASSUME position \in Holdings, NEW p \in Replay!Levels, NEW r, r = Replay!Reconstructed(p)
  PROVE  /\ r.signal \in Signals /\ r.position \in Holdings
         /\ r.signal = "buy" => r.position = 1 \/ (position = -1 /\ r.position = 0)
         /\ r.signal = "sell" => r.position = -1 \/ (position = 1 /\ r.position = 0)
         /\ r.signal = "none" => r.position = position
BY DEF Replay!Reconstructed, Replay!Levels, Holdings, Signals

(* The engine's answer leaves it flat, long or short.                       *)
LEMMA EngineAnswer ==
  ASSUME NEW q \in Holdings, NEW p \in Replay!Levels, NEW z \in Replay!Regimes,
         NEW a, a = Replay!GenerateSignal(p, z, q)
  PROVE  /\ Replay!After(a, q) \in Holdings
         /\ ~Replay!Regulated(p, z, q) /\ q = position =>
              /\ Replay!After(a, q) = Replay!Reconstructed(p).position
              /\ Replay!Reconstructed(p).signal = SideOf(a)
<1>1. a \in {"BUY", "SELL", "SELL_SHORT", "BUY_TO_COVER", "none"}
  BY DEF Replay!GenerateSignal, Replay!Exit, Replay!Entry
<1>2. Replay!After(a, q) \in Holdings
  BY <1>1 DEF Replay!After, Holdings
<1>3. ASSUME ~Replay!Regulated(p, z, q), q = position
      PROVE  /\ Replay!After(a, q) = Replay!Reconstructed(p).position
             /\ Replay!Reconstructed(p).signal = SideOf(a)
  <2>1. CASE q = 1
    BY <1>3, <2>1 DEF Replay!Regulated, Replay!GenerateSignal, Replay!Exit, Replay!Entry, Replay!After, Replay!Reconstructed, SideOf, Replay!Levels
  <2>2. CASE q = -1
    BY <1>3, <2>2 DEF Replay!Regulated, Replay!GenerateSignal, Replay!Exit, Replay!Entry, Replay!After, Replay!Reconstructed, SideOf, Replay!Levels
  <2>3. CASE q = 0
    BY <1>3, <2>3 DEF Replay!Regulated, Replay!GenerateSignal, Replay!Exit, Replay!Entry, Replay!After, Replay!Reconstructed, SideOf, Replay!Levels
  <2> QED
    BY <2>1, <2>2, <2>3 DEF Holdings
<1> QED
  BY <1>2, <1>3

(* A row of the stream: gate and engine answer.                             *)
LEMMA ReplayRowKeeps ==
  ASSUME ReplayInv, NEW s \in Tickers, NEW p \in Replay!Levels, NEW z \in Replay!Regimes, Replay!Row(s, p, z)
  PROVE  ReplayInv'
<1> DEFINE n == Len(stream)
           r == Replay!Reconstructed(p)
           a == Replay!GenerateSignal(p, z, net[s])
           d == Replay!Day(s)
           w == [sym |-> s, day |-> d, signal |-> r.signal, after |-> r.position]
<1>1. /\ bar = 0 /\ stream' = Append(stream, w) /\ position' = r.position
      /\ net' = [net EXCEPT ![s] = Replay!After(a, net[s])]
      /\ gated' = (gated \/ Replay!Regulated(p, z, net[s]))
      /\ answers' = [gate |-> r.signal, engine |-> a]
      /\ UNCHANGED <<bar, held, pending, cut, lost>>
  BY DEF Replay!Row, Replay!backtester
<1>2. /\ stream \in Seq(ReplayRow) /\ n \in Nat /\ DOMAIN stream = 1..n
      /\ \A i \in 1..n : stream[i] \in ReplayRow
  BY LenProperties, ElementOfSeq DEF ReplayInv, StreamInv
<1>3. position \in Holdings
  <2>1. CASE n = 0
    BY <2>1 DEF ReplayInv, StreamInv, Prior, Holdings
  <2>2. CASE n # 0
    <3>1. n + 1 # 1 /\ (n + 1) - 1 = n /\ n \in 1..n
      BY <1>2, <2>2
    <3> QED
      BY <1>2, <3>1 DEF ReplayInv, StreamInv, Prior, ReplayRow
  <2> QED
    BY <2>1, <2>2
<1>4. /\ r.signal \in Signals /\ r.position \in Holdings /\ Linked(position, w)
  BY <1>3, Reconstruction DEF Linked
<1>5. d \in Nat /\ (Only(s) => d = n + 1)
  <2> DEFINE T == {i \in DOMAIN stream : stream[i].sym = s}
  <2>1. d = Cardinality(T) + 1
    BY DEF Replay!Day, Replay!Cardinality, Cardinality
  <2>2. IsFiniteSet(1..n) /\ Cardinality(1..n) = n
    <3>1. 1 \in Int /\ n \in Int
      BY <1>2
    <3>2. IsFiniteSet(1..n) /\ Cardinality(1..n) = (IF 1 > n THEN 0 ELSE (n - 1) + 1)
      BY <3>1, FS_Interval
    <3> QED
      BY <1>2, <3>2
  <2>3. T \subseteq 1..n
    BY <1>2
  <2>4. Cardinality(T) \in Nat
    BY <2>2, <2>3, FS_Subset, FS_CardinalityType
  <2>5. Only(s) => T = 1..n
    BY <1>2 DEF Only
  <2> HIDE DEF T, d
  <2> QED
    BY <2>1, <2>2, <2>4, <2>5
<1>6. w \in ReplayRow
  BY <1>4, <1>5 DEF ReplayRow
<1> HIDE DEF w, d, r
<1>7. /\ stream' \in Seq(ReplayRow) /\ Len(stream') = n + 1 /\ stream'[n + 1] = w
      /\ \A i \in 1..n : stream'[i] = stream[i]
  BY <1>1, <1>2, <1>6, AppendProperties
<1>8. w.sym = s /\ w.day = d /\ w.signal = r.signal /\ w.after = r.position
  BY DEF w, r
<1>9. \A i \in 1..(n + 1) : Prior(i)' = Prior(i)
  <2> SUFFICES ASSUME NEW i \in 1..(n + 1) PROVE Prior(i)' = Prior(i)
    OBVIOUS
  <2>1. i # 1 => i - 1 \in 1..n
    BY <1>2
  <2> QED
    BY <1>7, <2>1 DEF Prior
<1>10. StreamInv'
  <2>1. \A i : i = n + 2 => Prior(i)' = r.position
    <3>1. n + 2 # 1 /\ (n + 2) - 1 = n + 1
      BY <1>2
    <3> QED
      BY <1>7, <1>8, <3>1 DEF Prior
  <2>2. position' = Prior(Len(stream) + 1)'
    <3>1. Len(stream') + 1 = n + 2
      BY <1>2, <1>7
    <3> QED
      BY <1>1, <2>1, <3>1
  <2>3. ASSUME NEW i \in 1..(n + 1) PROVE Linked(Prior(i)', stream'[i])
    <3>1. CASE i = n + 1
      <4>1. Prior(i)' = position
        BY <1>9, <3>1 DEF ReplayInv, StreamInv
      <4> QED
        BY <1>4, <1>7, <3>1, <4>1
    <3>2. CASE i # n + 1
      <4>1. i \in 1..n
        BY <1>2, <3>2
      <4>2. Linked(Prior(i), stream[i])
        BY <4>1 DEF ReplayInv, StreamInv
      <4> QED
        BY <1>7, <1>9, <4>1, <4>2
    <3> QED
      BY <3>1, <3>2
  <2> QED
    BY <1>7, <2>2, <2>3 DEF StreamInv
<1>11. \A u \in Tickers : Only(u)' => Only(u) /\ u = s
  BY <1>2, <1>7, <1>8 DEF Only
<1>12. DaysCount'
  <2> SUFFICES ASSUME NEW u \in Tickers, Only(u)', NEW i \in 1..(n + 1) PROVE stream'[i].day = i
    BY <1>7 DEF DaysCount
  <2>1. Only(s) /\ u = s
    BY <1>11
  <2>2. CASE i = n + 1
    BY <1>5, <1>7, <1>8, <2>1, <2>2
  <2>3. CASE i # n + 1
    <3>1. i \in 1..n
      BY <1>2, <2>3
    <3>2. stream[i].day = i
      BY <2>1, <3>1 DEF ReplayInv, DaysCount
    <3> QED
      BY <1>7, <3>1, <3>2
  <2> QED
    BY <2>2, <2>3
<1>13. EngineAgrees'
  <2>1. net[s] \in Holdings
    BY DEF ReplayInv, EngineAgrees
  <2>2. Replay!After(a, net[s]) \in Holdings
    BY <2>1, EngineAnswer
  <2>3. net' \in [Tickers -> Holdings] /\ net'[s] = Replay!After(a, net[s])
    BY <1>1, <2>2 DEF ReplayInv, EngineAgrees
  <2>4. stream' # <<>>
    BY <1>2, <1>7, EmptySeq
  <2>5. ASSUME NEW u \in Tickers, Only(u)', ~gated'
        PROVE  position' = net'[u] /\ answers'.gate = SideOf(answers'.engine)
    <3>1. Only(s) /\ u = s
      BY <1>11, <2>5
    <3>2. ~gated /\ ~Replay!Regulated(p, z, net[s])
      BY <1>1, <2>5
    <3>3. position = net[s]
      <4>1. CASE stream = <<>>
        <5>1. n = 0
          BY <4>1, EmptySeq
        <5> QED
          BY <4>1, <5>1 DEF ReplayInv, EngineAgrees, StreamInv, Prior
      <4>2. CASE stream # <<>>
        BY <3>1, <3>2, <4>2 DEF ReplayInv, EngineAgrees
      <4> QED
        BY <4>1, <4>2
    <3>4. Replay!After(a, net[s]) = r.position /\ r.signal = SideOf(a)
      BY <2>1, <3>2, <3>3, EngineAnswer DEF r
    <3> QED
      BY <1>1, <2>3, <3>1, <3>4
  <2> QED
    BY <2>3, <2>4, <2>5 DEF EngineAgrees
<1>14. Mirrored'
  BY <1>1 DEF ReplayInv, Mirrored
<1> QED
  BY <1>10, <1>12, <1>13, <1>14 DEF ReplayInv

(* A remainder is a list of purchases.                                       *)
LEMMA RemaindersArePurchases ==
  ASSUME NEW s, NEW fill, pending[s] \in Seq({"BUY", "SELL"}), Replay!HasBar(s, bar + 1)
  PROVE  /\ Replay!Requeued(s, fill) \in Seq({"BUY", "SELL"})
         /\ \A i \in 1..Len(Replay!Requeued(s, fill)) : Replay!Requeued(s, fill)[i] = "BUY"
         /\ Len(Replay!Requeued(s, fill)) > 0 => Replay!Cut(s, fill) # {}
<1> DEFINE C == Replay!Cut(s, fill)
           n == Replay!Cardinality(C)
           q == [i \in 1..n |-> "BUY"]
<1>1. DOMAIN pending[s] = 1..Len(pending[s]) /\ Len(pending[s]) \in Nat
  BY LenProperties
<1>2. IsFiniteSet(1..Len(pending[s]))
  BY <1>1, FS_Interval
<1>3. C \subseteq 1..Len(pending[s])
  BY <1>1 DEF Replay!Cut, Replay!Due
<1>4. n = Cardinality(C) /\ IsFiniteSet(C)
  BY <1>2, <1>3, FS_Subset DEF Replay!Cardinality, Cardinality
<1>5. n \in Nat /\ (n > 0 => C # {})
  BY <1>4, FS_CardinalityType, FS_EmptySet
<1>6. Replay!Requeued(s, fill) = q
  BY DEF Replay!Requeued
<1> HIDE DEF C, n
<1>7. q \in Seq({"BUY", "SELL"}) /\ Len(q) = n /\ \A i \in 1..n : q[i] = "BUY"
  BY <1>5
<1> QED
  BY <1>5, <1>6, <1>7 DEF C

(* What is ordered follows the remainders.                                   *)
LEMMA OrderedLast ==
  ASSUME NEW q \in Seq({"BUY", "SELL"}), NEW x \in {"BUY", "SELL"}
  PROVE  /\ q \o <<x>> \in Seq({"BUY", "SELL"}) /\ Len(q \o <<x>>) = Len(q) + 1
         /\ \A i \in 1..Len(q) : (q \o <<x>>)[i] = q[i]
         /\ (q \o <<x>>)[Len(q) + 1] = x
         /\ q \o <<>> = q
  OBVIOUS

(* What a day's fills leave of a symbol: it is held where the row is long,   *)
(* unless a purchase was forgotten, and elsewhere only from a remainder.     *)
LEMMA FillsCarry ==
  ASSUME NEW s \in Tickers, NEW signal \in Signals, NEW before, NEW after, NEW fill,
         Queued(s, signal), Carried(s, before), Replay!HasBar(s, bar + 1), s \in Replay!Seen,
         signal = "buy" => after = 1, signal = "sell" => before = 1 /\ after = 0, signal = "none" => after = before,
         held' = {u \in Replay!Seen : Replay!HeldAfter(u, fill)},
         cut' = {u \in Tickers : Replay!Cut(u, fill) # {} \/ (u \in cut /\ u \in held')},
         lost' = {u \in Tickers \ held' : Replay!Forgotten(u, fill) # {} \/ u \in lost}
  PROVE  IF after = 1 THEN s \in held' \cup lost' ELSE s \in held' => s \in cut'
<1> DEFINE queue == pending[s]
           m == Len(queue)
           gone == Replay!Forgotten(s, fill)
<1>1. queue \in Seq({"BUY", "SELL"}) /\ m \in Nat /\ DOMAIN queue = 1..m
  BY LenProperties DEF Queued, Orders
<1>2. Replay!Due(s) = 1..m
  BY <1>1 DEF Replay!Due
<1>3. s \in held' <=> \/ s \in held /\ \A i \in 1..m : queue[i] = "BUY"
                      \/ \E i \in (1..m) \ gone : \A j \in 1..m : j >= i => queue[j] = "BUY"
  BY <1>2 DEF Replay!HeldAfter
<1>4. gone \subseteq 1..m
  BY <1>2 DEF Replay!Forgotten
<1>5. /\ s \in cut /\ s \in held' => s \in cut'
      /\ s \notin held' /\ (gone # {} \/ s \in lost) => s \in lost'
  OBVIOUS
<1>6. /\ signal = "sell" /\ s \in held => m > 0 /\ queue[m] = "SELL"
      /\ ~(signal = "sell" /\ s \in held) => \A i \in 1..m : queue[i] = "BUY"
      /\ signal = "buy" /\ s \notin held => m > 0
      /\ signal # "buy" /\ ~(signal = "sell" /\ s \in held) /\ m > 0 => s \in cut
  BY DEF Queued, Orders
<1> HIDE DEF gone, m, queue
<1>7. CASE signal = "sell" /\ s \in held
  <2>1. m \in 1..m /\ queue[m] # "BUY"
    BY <1>1, <1>6, <1>7
  <2>2. s \notin held'
    BY <1>3, <2>1
  <2> QED
    BY <1>7, <2>2
<1>8. CASE ~(signal = "sell" /\ s \in held)
  <2>1. \A i \in 1..m : queue[i] = "BUY"
    BY <1>6, <1>8
  <2>2. s \in held' <=> s \in held \/ (1..m) \ gone # {}
    BY <1>3, <2>1
  <2>3. CASE after = 1
    <3>1. signal # "sell"
      BY <2>3
    <3>2. CASE s \in held
      BY <2>2, <2>3, <3>2
    <3>3. CASE s \notin held
      <4>1. CASE signal = "buy"
        <5>1. 1 \in 1..m
          BY <1>1, <1>6, <3>3, <4>1
        <5> QED
          BY <1>5, <2>2, <2>3, <5>1
      <4>2. CASE signal = "none"
        BY <1>5, <2>3, <3>3, <4>2 DEF Carried
      <4> QED
        BY <3>1, <4>1, <4>2 DEF Signals
    <3> QED
      BY <3>2, <3>3
  <2>4. CASE after # 1
    <3>1. signal # "buy"
      BY <2>4
    <3>2. ASSUME s \in held' PROVE s \in cut
      <4>1. CASE m > 0
        BY <1>6, <1>8, <3>1, <4>1
      <4>2. CASE ~(m > 0)
        <5>1. s \in held
          BY <1>1, <2>2, <3>2, <4>2
        <5>2. signal = "none" /\ before # 1
          BY <1>8, <2>4, <3>1, <5>1 DEF Signals
        <5> QED
          BY <5>1, <5>2 DEF Carried
      <4> QED
        BY <4>1, <4>2
    <3> QED
      BY <1>5, <2>4, <3>2
  <2> QED
    BY <2>3, <2>4
<1> QED
  BY <1>7, <1>8

(* What the day's row orders, after the remainders.                         *)
LEMMA FillsQueue ==
  ASSUME NEW s \in Tickers, NEW next \in Signals, NEW fill,
         pending[s] \in Seq({"BUY", "SELL"}), Replay!HasBar(s, bar + 1), s \in Replay!Seen,
         Replay!Cut(s, fill) # {} => s \in cut'
  PROVE  Orders(Replay!Requeued(s, fill) \o Replay!Ordered(s, next, held'), next, s \in held', s \in cut')
<1> DEFINE q == Replay!Requeued(s, fill)
           t == Replay!Ordered(s, next, held')
           queue == q \o t
<1>1. /\ q \in Seq({"BUY", "SELL"}) /\ \A i \in 1..Len(q) : q[i] = "BUY"
      /\ Len(q) > 0 => Replay!Cut(s, fill) # {}
  BY RemaindersArePurchases
<1>2. t = IF next = "buy" /\ s \notin held' THEN <<"BUY">>
          ELSE IF next = "sell" /\ s \in held' THEN <<"SELL">> ELSE <<>>
  BY DEF Replay!Ordered
<1>3. queue = q \o t
  OBVIOUS
<1>4. Len(q) > 0 => s \in cut'
  BY <1>1
<1> HIDE DEF q, t, queue
<1>5. Len(q) \in Nat
  BY <1>1, LenProperties
<1> SUFFICES Orders(queue, next, s \in held', s \in cut')
  BY DEF q, t, queue
<1>6. CASE next = "sell" /\ s \in held'
  <2>1. queue = q \o <<"SELL">>
    BY <1>2, <1>3, <1>6
  <2>2. queue \in Seq({"BUY", "SELL"}) /\ Len(queue) = Len(q) + 1 /\ queue[Len(q) + 1] = "SELL"
    BY <1>1, <2>1, OrderedLast
  <2>3. Len(queue) > 0 /\ queue[Len(queue)] = "SELL"
    BY <1>5, <2>2
  <2> QED
    BY <1>6, <2>2, <2>3 DEF Orders
<1>7. CASE next = "buy" /\ s \notin held'
  <2>1. queue = q \o <<"BUY">>
    BY <1>2, <1>3, <1>7
  <2>2. /\ queue \in Seq({"BUY", "SELL"}) /\ Len(queue) = Len(q) + 1 /\ queue[Len(q) + 1] = "BUY"
        /\ \A i \in 1..Len(q) : queue[i] = q[i]
    <3>1. \A i \in 1..Len(q) : (q \o <<"BUY">>)[i] = q[i]
      BY <1>1, OrderedLast
    <3>2. q \o <<"BUY">> \in Seq({"BUY", "SELL"}) /\ Len(q \o <<"BUY">>) = Len(q) + 1 /\ (q \o <<"BUY">>)[Len(q) + 1] = "BUY"
      BY <1>1, OrderedLast
    <3> QED
      BY <2>1, <3>1, <3>2
  <2>3. ASSUME NEW i \in 1..Len(queue) PROVE queue[i] = "BUY"
    <3>1. i \in 1..Len(q) \/ i = Len(q) + 1
      BY <1>5, <2>2
    <3> QED
      BY <1>1, <2>2, <3>1
  <2>4. Len(queue) > 0
    BY <1>5, <2>2
  <2> QED
    BY <1>7, <2>2, <2>3, <2>4 DEF Orders
<1>8. CASE ~(next = "sell" /\ s \in held') /\ ~(next = "buy" /\ s \notin held')
  <2>1. t = <<>>
    BY <1>2, <1>8
  <2>2. queue = q
    BY <1>1, <1>3, <2>1, OrderedLast
  <2> QED
    BY <1>1, <1>4, <1>8, <2>2 DEF Orders
<1> QED
  BY <1>6, <1>7, <1>8

(* A day of the backtester.                                                 *)
LEMMA ReplayBarKeeps ==
  ASSUME ReplayInv, Replay!ReplayBar
  PROVE  ReplayInv'
<1> DEFINE n == Len(stream)
<1>1. PICK fill \in [Replay!Purchases -> Replay!Fills] :
      /\ held' = {s \in Replay!Seen : Replay!HeldAfter(s, fill)}
      /\ pending' = [s \in Tickers |-> Replay!Requeued(s, fill) \o Replay!Ordered(s, Replay!Strategy(bar + 1), held')]
      /\ cut' = {s \in Tickers : Replay!Cut(s, fill) # {} \/ (s \in cut /\ s \in held')}
      /\ lost' = {s \in Tickers \ held' : Replay!Forgotten(s, fill) # {} \/ s \in lost}
  BY DEF Replay!ReplayBar
<1>2. /\ \E s \in Replay!Seen : Replay!HasBar(s, bar + 1)
      /\ bar' = bar + 1
      /\ UNCHANGED <<stream, position, net, gated, answers>>
  BY DEF Replay!ReplayBar, Replay!gate
<1>3. StreamInv' /\ DaysCount' /\ EngineAgrees'
  BY <1>2 DEF ReplayInv, StreamInv, DaysCount, EngineAgrees, Prior, Only
<1>4. /\ stream \in Seq(ReplayRow) /\ n \in Nat /\ DOMAIN stream = 1..n
      /\ bar \in Nat /\ bar' \in Nat /\ bar' # 0
      /\ \A i \in 1..n : stream[i].signal \in Signals
  <2>1. stream \in Seq(ReplayRow)
    BY DEF ReplayInv, StreamInv
  <2>2. \A i \in 1..n : stream[i] \in ReplayRow
    BY <2>1, ElementOfSeq
  <2> QED
    BY <1>2, <2>1, <2>2, LenProperties DEF ReplayInv, Mirrored, ReplayRow
<1>5. ASSUME NEW s \in Tickers, Only(s)
      PROVE  bar + 1 \in 1..n /\ Replay!HasBar(s, bar + 1) /\ s \in Replay!Seen
  <2>1. \A i \in 1..n : stream[i].sym = s /\ stream[i].day = i
    BY <1>5 DEF ReplayInv, DaysCount, Only
  <2>2. \A u : Replay!HasBar(u, bar + 1) => bar + 1 \in 1..n
    BY <1>4, <2>1 DEF Replay!HasBar
  <2>3. bar + 1 \in 1..n
    BY <1>2, <2>2
  <2> QED
    BY <1>4, <2>1, <2>3 DEF Replay!HasBar, Replay!Seen
<1>6. ASSUME NEW s \in Tickers, Only(s), NeverShort
      PROVE  Carried(s, Prior(bar))' /\ Queued(s, stream[bar].signal)'
  <2> DEFINE signal == IF bar = 0 THEN "none" ELSE stream[bar].signal
             before == IF bar = 0 THEN 0 ELSE Prior(bar)
             after  == Prior(bar + 1)
             next   == stream[bar + 1].signal
  <2>1. bar + 1 \in 1..n /\ Replay!HasBar(s, bar + 1) /\ s \in Replay!Seen
    BY <1>5, <1>6
  <2>2. next \in Signals /\ Replay!Strategy(bar + 1) = next
    BY <1>4, <2>1 DEF Replay!Strategy
  <2>3. /\ signal \in Signals /\ Queued(s, signal) /\ Carried(s, before)
        /\ signal = "buy" => after = 1
        /\ signal = "sell" => before = 1 /\ after = 0
        /\ signal = "none" => after = before
    <3>1. CASE bar = 0
      <4>1. held = {} /\ pending[s] = <<>>
        BY <3>1 DEF ReplayInv, Mirrored
      <4>2. Len(<<>>) = 0 /\ <<>> \in Seq({"BUY", "SELL"})
        OBVIOUS
      <4> QED
        BY <3>1, <4>1, <4>2 DEF Queued, Orders, Carried, Prior, Signals
    <3>2. CASE bar # 0
      <4>1. bar > 0 /\ bar \in 1..n
        BY <1>4, <2>1, <3>2
      <4>2. Carried(s, Prior(bar)) /\ Queued(s, stream[bar].signal)
        BY <1>6, <4>1 DEF ReplayInv, Mirrored
      <4>3. Linked(Prior(bar), stream[bar]) /\ stream[bar].after # -1
        BY <1>6, <4>1 DEF ReplayInv, StreamInv, NeverShort
      <4>4. stream[bar].signal \in Signals
        BY <1>4, <4>1
      <4>5. Prior(bar) # -1
        <5>1. bar # 1 => bar - 1 \in 1..n
          BY <1>4, <4>1
        <5> QED
          BY <1>6, <5>1 DEF Prior, NeverShort
      <4>6. after = stream[bar].after
        BY <1>4, <4>1 DEF Prior
      <4>7. signal = stream[bar].signal /\ before = Prior(bar)
        BY <3>2
      <4> HIDE DEF signal, before, after
      <4> QED
        BY <4>2, <4>3, <4>4, <4>5, <4>6, <4>7 DEF Linked
    <3> QED
      BY <3>1, <3>2
  <2> HIDE DEF signal, before, after, next
  <2>4. IF after = 1 THEN s \in held' \cup lost' ELSE s \in held' => s \in cut'
    BY <1>1, <2>1, <2>3, FillsCarry
  <2>5. Orders(pending'[s], next, s \in held', s \in cut')
    <3>1. pending[s] \in Seq({"BUY", "SELL"})
      BY <2>3 DEF Queued, Orders
    <3>2. Replay!Cut(s, fill) # {} => s \in cut'
      BY <1>1
    <3>3. Orders(Replay!Requeued(s, fill) \o Replay!Ordered(s, next, held'), next, s \in held', s \in cut')
      BY <2>1, <2>2, <3>1, <3>2, FillsQueue
    <3>4. pending'[s] = Replay!Requeued(s, fill) \o Replay!Ordered(s, next, held')
      BY <1>1, <2>2
    <3> QED
      BY <3>3, <3>4
  <2>6. Prior(bar)' = after /\ stream'[bar'].signal = next
    BY <1>2 DEF Prior, after, next
  <2> QED
    BY <2>4, <2>5, <2>6 DEF Carried, Queued, Orders
<1>7. Mirrored'
  <2>1. \A s \in Tickers : Only(s)' => Only(s) /\ bar' <= Len(stream')
    BY <1>2, <1>4, <1>5 DEF Only
  <2>2. NeverShort' => NeverShort
    BY <1>2 DEF NeverShort
  <2> QED
    BY <1>4, <1>6, <2>1, <2>2 DEF Mirrored
<1> QED
  BY <1>3, <1>7 DEF ReplayInv

(* Nothing changes.                                                         *)
LEMMA ReplayStays ==
  ASSUME ReplayInv, UNCHANGED Replay!vars
  PROVE  ReplayInv'
BY DEF ReplayInv, StreamInv, DaysCount, EngineAgrees, Mirrored, Carried, Queued, Orders, NeverShort, Only, Prior, Replay!vars,
       Replay!gate, Replay!backtester

(* SignalReplay, for any number of rows: as long as no regime intervenes,   *)
(* gate and engine answer every row of a symbol alike; while the sequence is *)
(* never short the backtester is long where it is, unless a purchase was    *)
(* forgotten, and elsewhere only from the remainder of a purchase in part.  *)
THEOREM GateIsMirrored == DeskSpec => []ReplayMirrors
<1> DEFINE Inv == part = "replay" => ReplayInv
<1>1. DeskInit => Inv
  BY ReplayAlone, ReplayBegins
<1>2. ASSUME ReplayInv, Replay!Next PROVE ReplayInv'
  BY <1>2, ReplayRowKeeps, ReplayBarKeeps DEF Replay!Next
<1>3. Inv /\ [DeskNext]_desk => Inv'
  BY <1>2, ReplayAlone, ReplayStays
<1>4. Inv => ReplayMirrors
  BY ReplayIsMirrored DEF ReplayMirrors
<1> QED
  BY <1>1, <1>3, <1>4, PTL DEF DeskSpec

-----------------------------------------------------------------------------
(* Sequences and sets.                                                      *)

(* What the robot makes of a set of symbols is a list of them.              *)
LEMMA SignalsAreSeq ==
  ASSUME NEW S, IsFiniteSet(S), NEW side, NEW e, e = [i \in 1..OldRobot!Cardinality(S) |-> <<OldRobot!SetToSeq(S)[i], side>>]
  PROVE  e \in Seq(S \X {side})
<1> DEFINE n == Cardinality(S)
<1>1. n \in Nat /\ ExistsBijection(1..n, S) /\ OldRobot!Cardinality(S) = n
  BY FS_CardinalityType DEF OldRobot!Cardinality, Cardinality
<1>2. \E f \in [1..n -> S] : OldRobot!IsInjective(f)
  BY <1>1 DEF ExistsBijection, Bijection, Injection, IsInjective, OldRobot!IsInjective
<1>3. OldRobot!SetToSeq(S) \in [1..n -> S]
  <2>1. OldRobot!SetToSeq(S) = CHOOSE f \in [1..n -> S] : OldRobot!IsInjective(f)
    BY DEF OldRobot!SetToSeq, OldRobot!Cardinality, Cardinality
  <2> HIDE DEF n
  <2> QED
    BY <1>2, <2>1, Zenon
<1>4. e \in [1..n -> S \X {side}]
  <2> HIDE DEF n
  <2> QED
    BY <1>1, <1>3
<1> QED
  BY <1>1, <1>4, FunctionIsSeq

-----------------------------------------------------------------------------
(* The older robot: what is placed, reported and written.                   *)

Sides == {"BUY", "SELL"}
Ticket == Tickers \X Sides
PlacedOrder == Tickers \X Sides \X Nat
Owner == {"absent", "owned", "listed"}

RobotTypes ==
  /\ positions \in [Tickers -> Owner]
  /\ touched \subseteq {s \in Tickers : positions[s] # "absent"}
  /\ todo \in Seq(Ticket)
  /\ broker \in Seq(PlacedOrder) /\ responses \in Seq(PlacedOrder) /\ reported \in Seq(PlacedOrder)
  /\ orderFile.orders \in Seq(PlacedOrder)

\* The broker's orders are numbered, the responses are the last of them, and
\* what was reported came before, in order; without trouble it is all of them.
Records ==
  /\ \A i \in 1..Len(broker) : broker[i][3] = i
  /\ Len(responses) <= Len(broker)
  /\ \A i \in 1..Len(responses) : responses[i] = broker[Len(broker) - Len(responses) + i]
  /\ \A i, j \in 1..Len(reported) : i < j => reported[i][3] < reported[j][3]
  /\ \A i \in 1..Len(reported) : reported[i][3] <= Len(broker) - Len(responses)
  /\ ~trouble => /\ Len(reported) + Len(responses) = Len(broker)
                 /\ \A i \in 1..Len(reported) : reported[i] = broker[i]

\* The file holds what was reported, unless it is torn, which it is not while
\* it is written.
OnFile ==
  /\ orderFile.state \in {"none", "torn", "whole"}
  /\ orderFile.state = "whole" => orderFile.orders = reported
  /\ orderFile.state = "none" => orderFile.orders = <<>> /\ reported = <<>>
  /\ saving => orderFile.state # "torn"

Owners == ~trouble => \A s \in touched : (positions[s] = "owned") <=> OldRobot!LastWasBuy(s)

RobotInv == RobotTypes /\ Records /\ OnFile /\ Owners

(* Only its own steps change a component.                                   *)
LEMMA RobotAlone ==
  /\ DeskInit /\ part = "robot" => OldRobot!Init
  /\ [DeskNext]_desk /\ part' = "robot" => part = "robot" /\ [OldRobot!Next]_(OldRobot!vars)
<1>1. DeskInit /\ part = "robot" => OldRobot!Init
  BY DEF DeskInit, PartInit
<1>2. ASSUME DeskNext, part' = "robot" PROVE part = "robot" /\ OldRobot!Next
  BY <1>2 DEF DeskNext, SessionRuns, ConsoleRuns, RegistryRuns, TradeRuns, RobotRuns, IndicatorsRun, TrainingRuns, ReplayRuns
<1>3. ASSUME UNCHANGED desk, part' = "robot" PROVE part = "robot" /\ UNCHANGED OldRobot!vars
  BY <1>3 DEF desk, shared, robot, OldRobot!vars
<1> QED
  BY <1>1, <1>2, <1>3

(* The lengths, and what the sequences hold.                                *)
LEMMA RobotSizes ==
  ASSUME RobotTypes
  PROVE  /\ Len(broker) \in Nat /\ DOMAIN broker = 1..Len(broker)
         /\ Len(responses) \in Nat /\ DOMAIN responses = 1..Len(responses)
         /\ Len(reported) \in Nat /\ DOMAIN reported = 1..Len(reported)
         /\ \A i \in 1..Len(broker) : broker[i] \in PlacedOrder
         /\ \A i \in 1..Len(reported) : reported[i] \in PlacedOrder
BY LenProperties, ElementOfSeq DEF RobotTypes

(* The invariant is what the run checks.                                    *)
LEMMA RobotKeepsRecords ==
  ASSUME RobotInv
  PROVE  OldRobot!RecordsKept
<1>1. DOMAIN reported = 1..Len(reported) /\ Len(reported) \in Nat /\ Len(broker) \in Nat
  BY RobotSizes DEF RobotInv
<1>2. ASSUME OldRobot!Idle, ~trouble PROVE reported = broker
  <2>1. Len(responses) = 0
    BY <1>2, EmptySeq DEF OldRobot!Idle
  <2>2. Len(reported) = Len(broker) /\ \A i \in 1..Len(reported) : reported[i] = broker[i]
    BY <1>1, <1>2, <2>1 DEF RobotInv, Records
  <2>3. reported \in Seq(PlacedOrder) /\ broker \in Seq(PlacedOrder)
    BY DEF RobotInv, RobotTypes
  <2> QED
    BY <2>2, <2>3, SeqEqual
<1>3. \A i, j \in DOMAIN reported : i < j => reported[i][3] < reported[j][3]
  BY <1>1 DEF RobotInv, Records
<1> QED
  BY <1>2, <1>3 DEF RobotInv, OnFile, Owners, OldRobot!RecordsKept

(* Nothing placed, nothing written.                                         *)
LEMMA RobotBegins ==
  ASSUME OldRobot!Init
  PROVE  RobotInv
<1>1. <<>> \in Seq(Ticket) /\ <<>> \in Seq(PlacedOrder) /\ Len(<<>>) = 0
  BY EmptySeq
<1>2. positions \in [Tickers -> Owner] /\ touched = {}
  BY DEF OldRobot!Init, Owner
<1>3. orderFile.state = "none" /\ orderFile.orders = <<>>
  BY DEF OldRobot!Init
<1>4. RobotTypes
  BY <1>1, <1>2, <1>3 DEF OldRobot!Init, RobotTypes
<1>5. Records
  BY <1>1 DEF OldRobot!Init, Records
<1>6. OnFile
  BY <1>3 DEF OldRobot!Init, OnFile
<1>7. Owners
  BY <1>2 DEF Owners
<1> QED
  BY <1>4, <1>5, <1>6, <1>7 DEF RobotInv

(* What a step of the portfolio leaves alone.                               *)
LEMMA PortfolioOnly ==
  ASSUME RobotInv, UNCHANGED OldRobot!orders,
         positions' \in [Tickers -> Owner],
         touched' \subseteq touched,
         \A s \in touched' : positions'[s] = positions[s]
  PROVE  RobotInv'
<1>1. UNCHANGED <<orderFile, todo, responses, saving, broker, reported, trouble>>
  BY DEF OldRobot!orders
<1>2. RobotTypes'
  BY <1>1 DEF RobotInv, RobotTypes
<1>3. Records' /\ OnFile'
  BY <1>1 DEF RobotInv, Records, OnFile
<1>4. Owners'
  BY <1>1 DEF RobotInv, Owners, OldRobot!LastWasBuy
<1> QED
  BY <1>2, <1>3, <1>4 DEF RobotInv

(* Positions are added, replaced and removed.                               *)
LEMMA PositionsAdded ==
  ASSUME RobotInv, NEW some \in SUBSET Tickers, NEW days \in [some -> BOOLEAN], OldRobot!AddPositions(days)
  PROVE  RobotInv'
<1>1. positions' = [s \in Tickers |-> IF s \in some THEN OldRobot!AddPosition(days[s]) ELSE positions[s]]
  BY DEF OldRobot!AddPositions
<1>2. positions' \in [Tickers -> Owner]
  BY <1>1 DEF OldRobot!AddPosition, Owner, RobotInv, RobotTypes
<1>3. touched' = touched \ some /\ UNCHANGED OldRobot!orders
  BY DEF OldRobot!AddPositions
<1>4. \A s \in touched' : positions'[s] = positions[s]
  BY <1>1, <1>3 DEF RobotInv, RobotTypes
<1> QED
  BY <1>2, <1>3, <1>4, PortfolioOnly

(* A symbol that is sold is taken out of the positions.                     *)
LEMMA PositionRemoved ==
  ASSUME RobotInv, NEW s \in Tickers, OldRobot!RemovePosition(s)
  PROVE  RobotInv'
<1>1. /\ positions' = [positions EXCEPT ![s] = "absent"] /\ touched' = touched \ {s} /\ UNCHANGED OldRobot!orders
  BY DEF OldRobot!RemovePosition
<1>2. positions' \in [Tickers -> Owner]
  BY <1>1 DEF Owner, RobotInv, RobotTypes
<1>3. \A u \in touched' : positions'[u] = positions[u]
  BY <1>1 DEF RobotInv, RobotTypes
<1> QED
  BY <1>1, <1>2, <1>3, PortfolioOnly

(* A call begins with its signals.                                          *)
LEMMA SignalsCome ==
  ASSUME RobotConstants, RobotInv, NEW buys \in SUBSET Tickers, NEW sells \in SUBSET Tickers, OldRobot!ExecuteSignals(buys, sells)
  PROVE  RobotInv'
<1> DEFINE b == [i \in 1..OldRobot!Cardinality(buys) |-> <<OldRobot!SetToSeq(buys)[i], "BUY">>]
           c == [i \in 1..OldRobot!Cardinality(sells) |-> <<OldRobot!SetToSeq(sells)[i], "SELL">>]
<1>1. /\ todo' = b \o c
      /\ UNCHANGED <<positions, touched, orderFile, responses, saving, broker, reported, trouble>>
  BY DEF OldRobot!ExecuteSignals, OldRobot!portfolio
<1>2. IsFiniteSet(buys) /\ IsFiniteSet(sells)
  BY FS_Subset DEF RobotConstants
<1>3. b \in Seq(buys \X {"BUY"}) /\ c \in Seq(sells \X {"SELL"})
  BY <1>2, SignalsAreSeq
<1> HIDE DEF b, c
<1>4. b \in Seq(Ticket) /\ c \in Seq(Ticket)
  <2>1. buys \X {"BUY"} \in SUBSET Ticket /\ sells \X {"SELL"} \in SUBSET Ticket
    BY DEF Ticket, Sides
  <2>2. \A T \in SUBSET Ticket : \A e \in Seq(T) : e \in Seq(Ticket)
    OBVIOUS
  <2> QED
    BY <1>3, <2>1, <2>2
<1>5. todo' \in Seq(Ticket)
  BY <1>1, <1>4, ConcatProperties
<1>6. RobotTypes'
  BY <1>1, <1>5 DEF RobotInv, RobotTypes
<1>7. Records' /\ OnFile' /\ Owners'
  BY <1>1 DEF RobotInv, Records, OnFile, Owners, OldRobot!LastWasBuy
<1> QED
  BY <1>6, <1>7 DEF RobotInv

(* The owner of a position is marked.                                       *)
LEMMA MarksTyped ==
  ASSUME RobotTypes, NEW s \in Tickers, NEW side \in Sides, OldRobot!Marks(s, side)
  PROVE  /\ positions' \in [Tickers -> Owner]
         /\ touched' \subseteq {u \in Tickers : positions'[u] # "absent"}
         /\ \A u \in touched' : u # s => u \in touched /\ positions'[u] = positions[u]
         /\ s \in touched' => (positions'[s] = "owned") <=> (side = "BUY")
<1>1. CASE positions[s] = "absent"
  BY <1>1 DEF RobotTypes, OldRobot!Marks, OldRobot!InPortfolio
<1>2. CASE positions[s] # "absent"
  <2>1. positions' = [positions EXCEPT ![s] = IF side = "BUY" THEN "owned" ELSE "listed"] /\ touched' = touched \cup {s}
    BY <1>2 DEF OldRobot!Marks, OldRobot!InPortfolio
  <2> QED
    BY <2>1 DEF RobotTypes, Owner, Sides
<1> QED
  BY <1>1, <1>2

(* The first of the signals to come, and the rest.                          *)
LEMMA NextTicket ==
  ASSUME RobotTypes, todo # <<>>
  PROVE  /\ Head(todo) \in Ticket /\ Head(todo)[1] \in Tickers /\ Head(todo)[2] \in Sides
         /\ Tail(todo) \in Seq(Ticket)
<1>1. Head(todo) \in Ticket /\ Tail(todo) \in Seq(Ticket)
  BY HeadTailProperties DEF RobotTypes
<1> QED
  BY <1>1 DEF Ticket

(* A signal with the number of its order.                                   *)
LEMMA NumberedTicket ==
  ASSUME NEW h \in Ticket, NEW k \in Nat
  PROVE  /\ h \o <<k>> \in PlacedOrder
         /\ (h \o <<k>>)[1] = h[1] /\ (h \o <<k>>)[2] = h[2] /\ (h \o <<k>>)[3] = k
<1>1. PICK s \in Tickers, side \in Sides : h = <<s, side>>
  BY DEF Ticket
<1> DEFINE S == Tickers \cup Sides \cup Nat
           e == <<s, side>> \o <<k>>
<1>2. <<s, side>> \in Seq(S) /\ Len(<<s, side>>) = 2 /\ <<k>> \in Seq(S) /\ Len(<<k>>) = 1
  OBVIOUS
<1>3. e \in Seq(S) /\ Len(e) = 3 /\ e[1] = s /\ e[2] = side /\ e[3] = k
  <2>1. /\ e \in Seq(S) /\ Len(e) = 2 + 1
        /\ \A i \in 1..(2 + 1) : e[i] = IF i <= 2 THEN <<s, side>>[i] ELSE <<k>>[i - 2]
    <3> HIDE DEF S
    <3> QED
      BY <1>2, ConcatProperties
  <2>2. 1 \in 1..(2 + 1) /\ 2 \in 1..(2 + 1) /\ 3 \in 1..(2 + 1) /\ 3 - 2 = 1
    OBVIOUS
  <2> HIDE DEF e, S
  <2> QED
    BY <2>1, <2>2
<1>4. e = <<s, side, k>>
  <2>1. <<s, side, k>> \in Seq(S) /\ Len(<<s, side, k>>) = 3
    OBVIOUS
  <2>2. \A i \in 1..3 : e[i] = <<s, side, k>>[i]
    <3> HIDE DEF e
    <3> QED
      BY <1>3
  <2> HIDE DEF e, S
  <2> QED
    BY <1>3, <2>1, <2>2, SeqEqual
<1> QED
  BY <1>1, <1>4 DEF PlacedOrder

(* An order is placed.                                                      *)
LEMMA OrderPlaced ==
  ASSUME RobotInv, OldRobot!Submit
  PROVE  RobotInv'
<1> DEFINE h == Head(todo)
           n == Len(broker)
           o == h \o <<n + 1>>
<1>1. /\ todo # <<>> /\ OldRobot!Marks(o[1], o[2])
      /\ broker' = Append(broker, o) /\ responses' = Append(responses, o) /\ todo' = Tail(todo)
      /\ UNCHANGED <<orderFile, saving, reported, trouble>>
  BY DEF OldRobot!Submit
<1>2. RobotTypes
  BY DEF RobotInv
<1>3. h \in Ticket /\ h[1] \in Tickers /\ h[2] \in Sides /\ Tail(todo) \in Seq(Ticket)
  BY <1>1, <1>2, NextTicket
<1>4. /\ n \in Nat /\ DOMAIN broker = 1..n
      /\ Len(responses) \in Nat /\ Len(reported) \in Nat
      /\ \A i \in 1..n : broker[i] \in PlacedOrder
  BY <1>2, RobotSizes
<1>5. o \in PlacedOrder /\ o[1] = h[1] /\ o[2] = h[2] /\ o[3] = n + 1
  <2>1. n + 1 \in Nat
    BY <1>4
  <2> HIDE DEF h, n
  <2> QED
    BY <1>3, <2>1, NumberedTicket
<1> HIDE DEF o, h
<1>6. /\ broker' \in Seq(PlacedOrder) /\ Len(broker') = n + 1 /\ broker'[n + 1] = o
      /\ \A i \in 1..n : broker'[i] = broker[i]
  BY <1>1, <1>2, <1>5, AppendProperties DEF RobotTypes
<1>7. /\ responses' \in Seq(PlacedOrder) /\ Len(responses') = Len(responses) + 1 /\ responses'[Len(responses) + 1] = o
      /\ \A i \in 1..Len(responses) : responses'[i] = responses[i]
  BY <1>1, <1>2, <1>5, AppendProperties DEF RobotTypes
<1>8. /\ positions' \in [Tickers -> Owner]
      /\ touched' \subseteq {u \in Tickers : positions'[u] # "absent"}
      /\ \A u \in touched' : u # h[1] => u \in touched /\ positions'[u] = positions[u]
      /\ h[1] \in touched' => (positions'[h[1]] = "owned") <=> (h[2] = "BUY")
  BY <1>1, <1>2, <1>3, <1>5, MarksTyped
<1>9. RobotTypes'
  BY <1>1, <1>2, <1>3, <1>6, <1>7, <1>8 DEF RobotTypes, h
<1>10. Records'
  <2> DEFINE r == Len(responses)
             p == Len(reported)
  <2>1. \A i \in 1..(n + 1) : broker'[i][3] = i
    <3> SUFFICES ASSUME NEW i \in 1..(n + 1) PROVE broker'[i][3] = i
      OBVIOUS
    <3>1. i = n + 1 \/ i \in 1..n
      BY <1>4
    <3> QED
      BY <1>5, <1>6, <3>1 DEF RobotInv, Records
  <2>2. r <= n /\ \A i \in 1..r : responses[i] = broker[n - r + i]
    BY DEF RobotInv, Records
  <2>3. r + 1 <= n + 1 /\ (n + 1) - (r + 1) = n - r
    BY <1>4, <2>2
  <2>4. ASSUME NEW i \in 1..(r + 1) PROVE responses'[i] = broker'[(n + 1) - (r + 1) + i]
    <3>1. CASE i = r + 1
      <4>1. (n + 1) - (r + 1) + i = n + 1
        BY <1>4, <3>1
      <4> QED
        BY <1>6, <1>7, <3>1, <4>1
    <3>2. CASE i # r + 1
      <4>1. i \in 1..r /\ n - r + i \in 1..n
        BY <1>4, <2>2, <3>2
      <4> QED
        BY <1>6, <1>7, <2>2, <2>3, <4>1
    <3> QED
      BY <3>1, <3>2
  <2>5. \A i, j \in 1..p : i < j => reported[i][3] < reported[j][3]
    BY DEF RobotInv, Records
  <2>6. \A i \in 1..p : reported[i][3] <= (n + 1) - (r + 1)
    BY <2>3 DEF RobotInv, Records
  <2>7. ~trouble => p + (r + 1) = n + 1 /\ \A i \in 1..p : reported[i] = broker'[i]
    <3> SUFFICES ASSUME ~trouble PROVE p + (r + 1) = n + 1 /\ \A i \in 1..p : reported[i] = broker'[i]
      OBVIOUS
    <3>1. p + r = n /\ \A i \in 1..p : reported[i] = broker[i]
      BY DEF RobotInv, Records
    <3> QED
      BY <1>4, <1>6, <3>1
  <2>8. /\ Len(broker') = n + 1 /\ Len(responses') = r + 1 /\ reported' = reported /\ trouble' = trouble
    BY <1>1, <1>6, <1>7
  <2> HIDE DEF n, r, p
  <2> QED
    BY <2>1, <2>3, <2>4, <2>5, <2>6, <2>7, <2>8 DEF Records, n, r, p
<1>11. OnFile'
  BY <1>1 DEF RobotInv, OnFile
<1>12. Owners'
  <2> SUFFICES ASSUME ~trouble, NEW u \in touched' PROVE (positions'[u] = "owned") <=> OldRobot!LastWasBuy(u)'
    BY <1>1 DEF Owners
  <2>1. DOMAIN broker' = 1..(n + 1)
    BY <1>6, LenProperties
  <2>2. CASE u = h[1]
    <3>1. OldRobot!LastWasBuy(u)' <=> h[2] = "BUY"
      <4>1. ASSUME h[2] = "BUY" PROVE OldRobot!LastWasBuy(u)'
        <5>1. n + 1 \in 1..(n + 1) /\ \A j \in 1..(n + 1) : ~(j > n + 1)
          BY <1>4
        <5> QED
          BY <1>5, <1>6, <2>1, <2>2, <4>1, <5>1 DEF OldRobot!LastWasBuy
      <4>2. ASSUME OldRobot!LastWasBuy(u)' PROVE h[2] = "BUY"
        <5>1. PICK i \in 1..(n + 1) : broker'[i][2] = "BUY" /\ \A j \in 1..(n + 1) : j > i => broker'[j][1] # u
          BY <2>1, <4>2 DEF OldRobot!LastWasBuy
        <5>2. i = n + 1
          <6>1. n + 1 \in 1..(n + 1)
            BY <1>4
          <6>2. ~(n + 1 > i)
            BY <1>5, <1>6, <2>2, <5>1, <6>1
          <6> QED
            BY <1>4, <6>2
        <5> QED
          BY <1>5, <1>6, <5>1, <5>2
      <4> QED
        BY <4>1, <4>2
    <3> QED
      BY <1>8, <2>2, <3>1
  <2>3. CASE u # h[1]
    <3>1. OldRobot!LastWasBuy(u)' <=> OldRobot!LastWasBuy(u)
      <4>1. broker'[n + 1][1] # u
        BY <1>5, <1>6, <2>3
      <4>2. ASSUME OldRobot!LastWasBuy(u)' PROVE OldRobot!LastWasBuy(u)
        <5>1. PICK i \in 1..(n + 1) : broker'[i][1] = u /\ broker'[i][2] = "BUY" /\ \A j \in 1..(n + 1) : j > i => broker'[j][1] # u
          BY <2>1, <4>2 DEF OldRobot!LastWasBuy
        <5>2. i \in 1..n
          BY <1>4, <4>1, <5>1
        <5>3. broker[i][1] = u /\ broker[i][2] = "BUY" /\ \A j \in 1..n : j > i => broker[j][1] # u
          BY <1>4, <1>6, <5>1, <5>2
        <5> QED
          BY <1>4, <5>2, <5>3 DEF OldRobot!LastWasBuy
      <4>3. ASSUME OldRobot!LastWasBuy(u) PROVE OldRobot!LastWasBuy(u)'
        <5>1. PICK i \in 1..n : broker[i][1] = u /\ broker[i][2] = "BUY" /\ \A j \in 1..n : j > i => broker[j][1] # u
          BY <1>4, <4>3 DEF OldRobot!LastWasBuy
        <5>2. i \in 1..(n + 1) /\ broker'[i][1] = u /\ broker'[i][2] = "BUY"
          BY <1>4, <1>6, <5>1
        <5>3. ASSUME NEW j \in 1..(n + 1), j > i PROVE broker'[j][1] # u
          <6>1. CASE j = n + 1
            BY <4>1, <6>1
          <6>2. CASE j # n + 1
            BY <1>4, <1>6, <5>1, <5>3, <6>2
          <6> QED
            BY <6>1, <6>2
        <5> QED
          BY <2>1, <5>2, <5>3 DEF OldRobot!LastWasBuy
      <4> QED
        BY <4>2, <4>3
    <3> QED
      BY <1>8, <2>3, <3>1 DEF RobotInv, Owners
  <2> QED
    BY <2>2, <2>3
<1> QED
  BY <1>9, <1>10, <1>11, <1>12 DEF RobotInv

(* A call ends without its orders being written: what was placed in it is    *)
(* not reported, and there was trouble.                                     *)
LEMMA CallBreaks ==
  ASSUME RobotInv, trouble', responses' = <<>>, todo' = <<>>,
         UNCHANGED <<broker, reported>>,
         positions' \in [Tickers -> Owner],
         touched' \subseteq {u \in Tickers : positions'[u] # "absent"},
         orderFile'.orders \in Seq(PlacedOrder), OnFile'
  PROVE  RobotInv'
<1>1. <<>> \in Seq(Ticket) /\ <<>> \in Seq(PlacedOrder) /\ Len(<<>>) = 0
  BY EmptySeq
<1>2. RobotTypes'
  BY <1>1 DEF RobotInv, RobotTypes
<1>3. Len(broker) \in Nat /\ Len(responses) \in Nat /\ Len(reported) \in Nat
      /\ \A i \in 1..Len(reported) : reported[i] \in PlacedOrder
  BY RobotSizes DEF RobotInv
<1>4. \A i \in 1..Len(reported) : reported[i][3] <= Len(broker) - 0
  <2> SUFFICES ASSUME NEW i \in 1..Len(reported) PROVE reported[i][3] <= Len(broker) - 0
    OBVIOUS
  <2>1. reported[i][3] <= Len(broker) - Len(responses) /\ reported[i][3] \in Nat
    BY <1>3 DEF RobotInv, Records, PlacedOrder
  <2> QED
    BY <1>3, <2>1
<1>5. Records'
  BY <1>1, <1>3, <1>4 DEF RobotInv, Records
<1>6. Owners'
  BY DEF Owners
<1> QED
  BY <1>2, <1>5, <1>6 DEF RobotInv

(* A placement that fails leaves the files as they are.                     *)
LEMMA SubmissionRaises ==
  ASSUME RobotInv, OldRobot!SubmitRaises
  PROVE  RobotInv'
<1>1. /\ todo # <<>> /\ OldRobot!Marks(Head(todo)[1], Head(todo)[2])
      /\ todo' = <<>> /\ responses' = <<>> /\ trouble' = TRUE
      /\ UNCHANGED <<orderFile, saving, broker, reported>>
  BY DEF OldRobot!SubmitRaises
<1>2. /\ positions' \in [Tickers -> Owner] /\ touched' \subseteq {u \in Tickers : positions'[u] # "absent"}
  BY <1>1, NextTicket, MarksTyped DEF RobotInv
<1>3. OnFile' /\ orderFile'.orders \in Seq(PlacedOrder)
  BY <1>1 DEF RobotInv, OnFile, RobotTypes
<1> QED
  BY <1>1, <1>2, <1>3, CallBreaks

(* A save that fails leaves what it had written.                            *)
LEMMA SavingRaises ==
  ASSUME RobotInv, OldRobot!SaveRaises
  PROVE  RobotInv'
<1>1. /\ todo = <<>> /\ responses' = <<>> /\ trouble' = TRUE
      /\ UNCHANGED <<positions, touched, orderFile, todo, saving, broker, reported>>
  BY DEF OldRobot!SaveRaises, OldRobot!portfolio
<1>2. OnFile' /\ orderFile'.orders \in Seq(PlacedOrder)
  BY <1>1 DEF RobotInv, OnFile, RobotTypes
<1>3. positions' \in [Tickers -> Owner] /\ touched' \subseteq {u \in Tickers : positions'[u] # "absent"}
  BY <1>1 DEF RobotInv, RobotTypes
<1> QED
  BY <1>1, <1>2, <1>3, CallBreaks

(* The process dies: a file that was being written is torn.                   *)
LEMMA RobotCrashes ==
  ASSUME RobotInv, OldRobot!Crash
  PROVE  RobotInv'
<1>1. /\ positions' = [s \in Tickers |-> "absent"] /\ touched' = {}
      /\ orderFile' = (IF saving THEN [state |-> "torn", orders |-> <<>>] ELSE orderFile)
      /\ todo' = <<>> /\ responses' = <<>> /\ saving' = FALSE /\ trouble' = TRUE
      /\ UNCHANGED <<broker, reported>>
  BY DEF OldRobot!Crash
<1>2. positions' \in [Tickers -> Owner] /\ touched' \subseteq {u \in Tickers : positions'[u] # "absent"}
  BY <1>1 DEF Owner
<1>3. OnFile' /\ orderFile'.orders \in Seq(PlacedOrder)
  <2>1. CASE saving
    <3>1. orderFile'.state = "torn" /\ orderFile'.orders = <<>>
      BY <1>1, <2>1
    <3> QED
      BY <1>1, <3>1, EmptySeq DEF OnFile
  <2>2. CASE ~saving
    BY <1>1, <2>2 DEF RobotInv, OnFile, RobotTypes
  <2> QED
    BY <2>1, <2>2
<1> QED
  BY <1>1, <1>2, <1>3, CallBreaks

(* The file is opened.                                                      *)
LEMMA FileOpened ==
  ASSUME RobotInv, OldRobot!OpenOrders
  PROVE  RobotInv'
<1>1. /\ orderFile.state # "torn"
      /\ UNCHANGED <<positions, touched, orderFile, todo, responses, broker, reported, trouble>>
  BY DEF OldRobot!OpenOrders, OldRobot!portfolio
<1> QED
  BY <1>1 DEF RobotInv, RobotTypes, Records, OnFile, Owners, OldRobot!LastWasBuy

(* The orders are written and the call returns.                             *)
LEMMA FileWritten ==
  ASSUME RobotInv, OldRobot!DumpOrders
  PROVE  RobotInv'
<1> DEFINE n == Len(broker)
           r == Len(responses)
           p == Len(reported)
           both == reported \o responses
<1>1. /\ saving /\ orderFile' = [state |-> "whole", orders |-> orderFile.orders \o responses]
      /\ reported' = both /\ responses' = <<>> /\ saving' = FALSE
      /\ UNCHANGED <<positions, touched, todo, broker, trouble>>
  BY DEF OldRobot!DumpOrders, OldRobot!Written, OldRobot!portfolio
<1>2. orderFile.orders = reported
  BY <1>1 DEF RobotInv, OnFile
<1>3. orderFile'.state = "whole" /\ orderFile'.orders = both
  BY <1>1, <1>2
<1>4. /\ n \in Nat /\ r \in Nat /\ p \in Nat
      /\ \A i \in 1..n : broker[i] \in PlacedOrder
      /\ reported \in Seq(PlacedOrder) /\ responses \in Seq(PlacedOrder)
  BY RobotSizes DEF RobotInv, RobotTypes
<1>5. /\ both \in Seq(PlacedOrder) /\ Len(both) = p + r
      /\ \A i \in 1..(p + r) : both[i] = IF i <= p THEN reported[i] ELSE responses[i - p]
  BY <1>4, ConcatProperties
<1> HIDE DEF n, r, p, both
<1>6. /\ \A i \in 1..n : broker[i][3] = i
      /\ r <= n /\ \A i \in 1..r : responses[i] = broker[n - r + i]
      /\ \A i, j \in 1..p : i < j => reported[i][3] < reported[j][3]
      /\ \A i \in 1..p : reported[i][3] <= n - r
      /\ ~trouble => p + r = n /\ \A i \in 1..p : reported[i] = broker[i]
  BY DEF RobotInv, Records, n, r, p
<1>7. \A i \in 1..r : n - r + i \in 1..n
  BY <1>4, <1>6
<1>8. \A i \in 1..p : both[i] = reported[i]
  BY <1>4, <1>5
<1>9. ASSUME NEW i \in 1..(p + r), ~(i <= p)
      PROVE  i - p \in 1..r /\ both[i] = broker[n - r + (i - p)] /\ both[i][3] = n - r + (i - p)
  <2>1. i - p \in 1..r
    BY <1>4, <1>9
  <2>2. both[i] = responses[i - p]
    BY <1>5, <1>9
  <2> QED
    BY <1>6, <1>7, <2>1, <2>2
<1>10. ASSUME NEW i \in 1..p PROVE reported[i][3] \in Nat
  BY <1>4, <1>10, ElementOfSeq DEF PlacedOrder, p
<1>11. ASSUME NEW i \in 1..(p + r), NEW j \in 1..(p + r), i < j PROVE both[i][3] < both[j][3]
  <2>1. CASE j <= p
    <3>1. i \in 1..p /\ j \in 1..p
      BY <1>4, <1>11, <2>1
    <3> QED
      BY <1>6, <1>8, <1>11, <3>1
  <2>2. CASE ~(j <= p) /\ i <= p
    <3>1. i \in 1..p
      BY <1>4, <1>11, <2>2
    <3>2. both[i][3] <= n - r /\ both[i][3] \in Nat
      BY <1>6, <1>8, <1>10, <3>1
    <3>3. j - p \in 1..r /\ both[j][3] = n - r + (j - p)
      BY <1>9, <2>2
    <3> QED
      BY <1>4, <3>2, <3>3
  <2>3. CASE ~(j <= p) /\ ~(i <= p)
    <3>1. both[i][3] = n - r + (i - p) /\ both[j][3] = n - r + (j - p)
      BY <1>9, <2>3
    <3> QED
      BY <1>4, <1>11, <3>1
  <2> QED
    BY <2>1, <2>2, <2>3
<1>12. ASSUME NEW i \in 1..(p + r) PROVE both[i][3] <= n - 0
  <2>1. CASE i <= p
    <3>1. i \in 1..p
      BY <1>4, <1>12, <2>1
    <3>2. both[i][3] <= n - r /\ both[i][3] \in Nat
      BY <1>6, <1>8, <1>10, <3>1
    <3> QED
      BY <1>4, <3>2
  <2>2. CASE ~(i <= p)
    <3>1. i - p \in 1..r /\ both[i][3] = n - r + (i - p)
      BY <1>9, <2>2
    <3> QED
      BY <1>4, <3>1
  <2> QED
    BY <2>1, <2>2
<1>13. ASSUME ~trouble, NEW i \in 1..(p + r) PROVE both[i] = broker[i]
  <2>1. p + r = n
    BY <1>6, <1>13
  <2>2. CASE i <= p
    <3>1. i \in 1..p
      BY <1>4, <1>13, <2>2
    <3> QED
      BY <1>6, <1>8, <1>13, <3>1
  <2>3. CASE ~(i <= p)
    <3>1. n - r + (i - p) = i
      BY <1>4, <1>13, <2>1
    <3> QED
      BY <1>9, <2>3, <3>1
  <2> QED
    BY <2>2, <2>3
<1>14. responses' \in Seq(PlacedOrder) /\ Len(responses') = 0
  BY <1>1, EmptySeq
<1>15. Records'
  <2>1. \A i \in 1..0 : FALSE
    OBVIOUS
  <2>2. n >= 0 /\ (~trouble => (p + r) + 0 = n)
    BY <1>4, <1>6
  <2>3. /\ broker' = broker /\ Len(broker) = n /\ Len(reported') = p + r /\ reported' = both /\ trouble' = trouble
    BY <1>1, <1>5 DEF n
  <2> QED
    BY <1>6, <1>11, <1>12, <1>13, <1>14, <2>1, <2>2, <2>3 DEF Records
<1>16. RobotTypes'
  BY <1>1, <1>3, <1>5, <1>14 DEF RobotInv, RobotTypes
<1>17. OnFile'
  BY <1>1, <1>3 DEF OnFile
<1>18. Owners'
  BY <1>1 DEF RobotInv, Owners, OldRobot!LastWasBuy
<1> QED
  BY <1>15, <1>16, <1>17, <1>18 DEF RobotInv

(* Every step of the robot keeps its invariant.                             *)
LEMMA RobotSteps ==
  ASSUME RobotConstants, RobotInv, OldRobot!Next
  PROVE  RobotInv'
<1>1. ASSUME NEW some \in SUBSET Tickers \ {{}}, NEW days \in [some -> BOOLEAN], OldRobot!AddPositions(days)
      PROVE  RobotInv'
  BY <1>1, PositionsAdded
<1> QED
  BY <1>1, PositionRemoved, SignalsCome, OrderPlaced, SubmissionRaises, SavingRaises, RobotCrashes, FileOpened, FileWritten
  DEF OldRobot!Next

(* Nothing changes.                                                         *)
LEMMA RobotStays ==
  ASSUME RobotInv, UNCHANGED OldRobot!vars
  PROVE  RobotInv'
<1>1. UNCHANGED <<positions, touched, orderFile, todo, responses, saving, broker, reported, trouble>>
  BY DEF OldRobot!vars
<1>2. RobotTypes' /\ Records' /\ OnFile'
  BY <1>1 DEF RobotInv, RobotTypes, Records, OnFile
<1>3. Owners'
  BY <1>1 DEF RobotInv, Owners, OldRobot!LastWasBuy
<1> QED
  BY <1>2, <1>3 DEF RobotInv

(* Robot, for any symbols, signals and edits of the portfolio: a readable   *)
(* orders.json holds the orders of every call that returned, each once and  *)
(* as they were placed, whatever calls raised or crashed between; without   *)
(* either it holds all the broker took, and the owner of a position is the  *)
(* side of its last order.                                                  *)
THEOREM RobotRecords == DeskSpec => []RecordsKept
<1> DEFINE Inv == part = "robot" => RobotInv
<1>1. DeskInit => Inv
  BY RobotAlone, RobotBegins
<1>2. Inv /\ [DeskNext]_desk => Inv'
  BY RobotAlone, RobotSteps, RobotStays, RobotConstants
<1>3. Inv => RecordsKept
  BY RobotKeepsRecords DEF RecordsKept
<1> QED
  BY <1>1, <1>2, <1>3, PTL DEF DeskSpec

-----------------------------------------------------------------------------
(* The order template: its children and its answers.                        *)

Ways == {"enter", "exit"}
Longs == {"long", "short"}
Instructions == {"BUY", "SELL", "SELL_SHORT", "BUY_TO_COVER"}
ChildOrder ==
  [kind : {"STOP", "STOP_LIMIT", "LIMIT"}, price : Int, limit : Int, instruction : Instructions,
   quantity : Nat, group : Nat, basis : Nat]

\* The children that fit a trade of this way, side and size after these changes.
Suited(way, side, q, changed) ==
  {c \in ChildOrder :
     /\ c.instruction = Template!Instruction(Template!Opposite(way), side)
     /\ "size" \notin changed => c.quantity = q
     /\ "price" \notin changed => IF c.kind = "LIMIT" THEN c.price >= c.basis ELSE c.price <= c.basis}

TemplateTypes ==
  /\ trade \in [type : {"mkt", "lmt", "stop", "stop_lmt"}, side : Longs, way : Ways, price : Prices]
  /\ order \in [instruction : Instructions, quantity : Nat, price : Nat, stopPrice : Nat]
  /\ size \in Nat /\ quote \in Prices

Fits == children \in Seq(Suited(trade.way, trade.side, size, altered))

Follows ==
  /\ order.quantity = size
  /\ "side" \notin altered => order.instruction = Template!Instruction(trade.way, trade.side)

\* What was copied and answered is behind the broker, but not about a final status.
FinalStays ==
  /\ status \in Final => venue = status
  /\ view \in Final => venue = view
  /\ answer \in Final => venue = answer

TemplateInv == TemplateTypes /\ Fits /\ Follows /\ FinalStays

(* Only its own steps change a component.                                   *)
LEMMA TradeAlone ==
  /\ DeskInit /\ part = "trade" => Template!Init
  /\ [DeskNext]_desk /\ part' = "trade" => part = "trade" /\ [Template!Next]_(Template!vars)
<1>1. DeskInit /\ part = "trade" => Template!Init
  BY DEF DeskInit, PartInit
<1>2. ASSUME DeskNext, part' = "trade" PROVE part = "trade" /\ Template!Next
  BY <1>2 DEF DeskNext, SessionRuns, ConsoleRuns, RegistryRuns, TradeRuns, RobotRuns, IndicatorsRun, TrainingRuns, ReplayRuns
<1>3. ASSUME UNCHANGED desk, part' = "trade" PROVE part = "trade" /\ UNCHANGED Template!vars
  BY <1>3 DEF desk, shared, template, Template!vars
<1> QED
  BY <1>1, <1>2, <1>3

(* Every way and side has an instruction.                                   *)
LEMMA InstructionNames ==
  ASSUME NEW way \in Ways, NEW side \in Longs
  PROVE  /\ Template!Instruction(way, side) \in Instructions
         /\ Template!Opposite(way) \in Ways /\ Template!OtherSide(side) \in Longs
<1>1. Template!Instruction(way, side) \in Instructions
  BY DEF Ways, Longs, Instructions, Template!Instruction
<1>2. Template!Opposite(way) \in Ways /\ Template!OtherSide(side) \in Longs
  BY DEF Ways, Longs, Template!Opposite, Template!OtherSide
<1> QED
  BY <1>1, <1>2

(* A child that fits a long or short entry closes it.                       *)
LEMMA TemplateIsSound ==
  ASSUME TemplateInv
  PROVE  Template!TradeSound
<1>1. SUFFICES ASSUME trade.way = "enter", NEW i \in DOMAIN children
               PROVE  /\ "side" \notin altered => <<order.instruction, children[i].instruction>> \in {<<"BUY", "SELL">>, <<"SELL_SHORT", "BUY_TO_COVER">>}
                      /\ "size" \notin altered => children[i].quantity = order.quantity
                      /\ trade.side = "long" /\ "price" \notin altered =>
                           IF children[i].kind = "LIMIT" THEN children[i].price >= children[i].basis ELSE children[i].price <= children[i].basis
  BY DEF TemplateInv, FinalStays, Template!TradeSound, Template!ChildrenExit, Template!FinalAnswersHold
<1>2. children[i] \in Suited("enter", trade.side, size, altered)
  BY <1>1, ElementOfSeq, LenProperties DEF TemplateInv, Fits
<1>3. trade.side \in {"long", "short"}
  BY DEF TemplateInv, TemplateTypes, Longs
<1>4. children[i].instruction = Template!Instruction("exit", trade.side)
  BY <1>2 DEF Suited, Template!Opposite
<1>5. "side" \notin altered => order.instruction = Template!Instruction("enter", trade.side)
  BY <1>1 DEF TemplateInv, Follows
<1>6. order.quantity = size
  BY DEF TemplateInv, Follows
<1>7. "side" \notin altered => <<order.instruction, children[i].instruction>> \in {<<"BUY", "SELL">>, <<"SELL_SHORT", "BUY_TO_COVER">>}
  BY <1>3, <1>4, <1>5 DEF Template!Instruction
<1> QED
  BY <1>2, <1>6, <1>7 DEF Suited

(* A new trade has no children.                                             *)
LEMMA TemplateBegins ==
  ASSUME Template!Init
  PROVE  TemplateInv
<1>1. trade \in [type : {"mkt", "lmt", "stop", "stop_lmt"}, side : Longs, way : Ways, price : Prices]
  BY DEF Template!Init, Longs, Ways
<1>2. PICK limit \in Prices : 
        order = [instruction |-> Template!Instruction(trade.way, trade.side), quantity |-> 0,
                 price |-> Template!Priced(trade.type, trade.price, limit).price,
                 stopPrice |-> Template!Priced(trade.type, trade.price, limit).stopPrice]
  BY DEF Template!Init
<1>3. /\ Template!Priced(trade.type, trade.price, limit).price \in Nat
      /\ Template!Priced(trade.type, trade.price, limit).stopPrice \in Nat
  BY <1>1, TradeConstants DEF Template!Priced
<1>4. Template!Instruction(trade.way, trade.side) \in Instructions
  BY <1>1, InstructionNames
<1>5. TemplateTypes
  BY <1>1, <1>2, <1>3, <1>4 DEF TemplateTypes, Template!Init
<1>6. children = <<>>
  BY DEF Template!Init
<1>7. Fits
  BY <1>6, EmptySeq DEF Fits
<1>8. Follows
  BY <1>2 DEF Follows, Template!Init
<1>9. FinalStays
  BY TradeConstants DEF FinalStays, Template!Init
<1> QED
  BY <1>5, <1>7, <1>8, <1>9 DEF TemplateInv

(* Growing and fitting sequences.                                           *)
LEMMA WiderSeq ==
  ASSUME NEW S, NEW T, S \subseteq T, NEW e \in Seq(S)
  PROVE  e \in Seq(T)
<1>1. Len(e) \in Nat /\ DOMAIN e = 1..Len(e) /\ \A i \in 1..Len(e) : e[i] \in T
  BY ElementOfSeq, LenProperties
<1>2. e \in [1..Len(e) -> S]
  BY LenProperties
<1>3. e \in [1..Len(e) -> T]
  BY <1>1, <1>2
<1> QED
  BY <1>1, <1>3, FunctionIsSeq

(* More changes, fewer conditions.                                          *)
LEMMA MoreChanges ==
  ASSUME NEW way, NEW side, NEW q, NEW before, NEW after, before \subseteq after
  PROVE  Suited(way, side, q, before) \subseteq Suited(way, side, q, after)
BY DEF Suited

(* An order that is built, not placed, keeps what the broker knows.         *)
LEMMA AskingKeeps ==
  ASSUME TemplateInv, UNCHANGED Template!asking
  PROVE  FinalStays'
BY DEF TemplateInv, FinalStays, Template!asking

(* The instrument.                                                          *)
LEMMA InstrumentKeeps ==
  ASSUME TemplateInv, NEW q \in Quantities, Template!Instrument(q)
  PROVE  TemplateInv'
<1>1. /\ order' = [order EXCEPT !.quantity = q] /\ size' = q
      /\ UNCHANGED <<trade, triggered, children, quote, Template!asking>>
      /\ altered' = IF children = <<>> THEN altered ELSE altered \cup {"size"}
  BY DEF Template!Instrument, Template!Alters
<1>2. q \in Nat
  BY TradeConstants
<1>3. TemplateTypes'
  BY <1>1, <1>2 DEF TemplateInv, TemplateTypes
<1>4. Fits'
  <2>1. CASE children = <<>>
    BY <1>1, <2>1, EmptySeq DEF Fits
  <2>2. CASE children # <<>>
    <3> DEFINE S == Suited(trade.way, trade.side, size, altered)
               T == Suited(trade.way, trade.side, q, altered')
    <3>1. S \subseteq T
      BY <1>1, <2>2 DEF Suited
    <3>2. children \in Seq(S)
      BY DEF TemplateInv, Fits
    <3> HIDE DEF S, T
    <3>3. children \in Seq(T)
      BY <3>1, <3>2, WiderSeq
    <3> QED
      BY <1>1, <3>3 DEF Fits, T
  <2> QED
    BY <2>1, <2>2
<1>5. Follows'
  BY <1>1 DEF TemplateInv, TemplateTypes, Follows
<1>6. FinalStays'
  BY <1>1, AskingKeeps
<1> QED
  BY <1>3, <1>4, <1>5, <1>6 DEF TemplateInv

(* The side, and the price, of the order itself.                            *)
LEMMA SideKeeps ==
  ASSUME TemplateInv, NEW given \in {"none", "BUY", "SELL"}, Template!ModifySide(given)
  PROVE  TemplateInv'
<1> DEFINE new == IF given = "none" THEN Template!Instruction(trade.way, Template!OtherSide(trade.side)) ELSE given
<1>1. /\ order' = [order EXCEPT !.instruction = new] /\ altered' = altered \cup {"side"}
      /\ UNCHANGED <<trade, size, triggered, children, quote, Template!asking>>
  BY DEF Template!ModifySide
<1>2. new \in Instructions
  <2>1. trade.way \in Ways /\ trade.side \in Longs
    BY DEF TemplateInv, TemplateTypes
  <2>2. Template!Instruction(trade.way, Template!OtherSide(trade.side)) \in Instructions
    BY <2>1, InstructionNames
  <2> QED
    BY <2>2 DEF Instructions
<1> HIDE DEF new
<1>3. TemplateTypes'
  BY <1>1, <1>2 DEF TemplateInv, TemplateTypes
<1>4. Fits'
  BY <1>1, MoreChanges, WiderSeq DEF TemplateInv, Fits
<1>5. Follows'
  BY <1>1 DEF TemplateInv, TemplateTypes, Follows
<1>6. FinalStays'
  BY <1>1, AskingKeeps
<1> QED
  BY <1>3, <1>4, <1>5, <1>6 DEF TemplateInv

(* A new price keeps what fits.                                             *)
LEMMA PriceKeeps ==
  ASSUME TemplateInv, NEW which, NEW p \in Prices, Template!ModifyPrice(which, p)
  PROVE  TemplateInv'
<1>1. /\ order' \in {order, [order EXCEPT !.price = p], [order EXCEPT !.stopPrice = p]}
      /\ trade' \in {trade, [trade EXCEPT !.price = p]}
      /\ UNCHANGED <<size, triggered, children, quote, Template!asking, altered>>
  BY DEF Template!ModifyPrice
<1>2. p \in Nat
  BY TradeConstants
<1>3. /\ order' \in [instruction : Instructions, quantity : Nat, price : Nat, stopPrice : Nat]
      /\ order'.instruction = order.instruction /\ order'.quantity = order.quantity
  BY <1>1, <1>2 DEF TemplateInv, TemplateTypes
<1>4. /\ trade' \in [type : {"mkt", "lmt", "stop", "stop_lmt"}, side : Longs, way : Ways, price : Prices]
      /\ trade'.way = trade.way /\ trade'.side = trade.side
  BY <1>1 DEF TemplateInv, TemplateTypes
<1>5. TemplateTypes'
  BY <1>1, <1>3, <1>4 DEF TemplateInv, TemplateTypes
<1>6. Fits' /\ Follows'
  BY <1>1, <1>3, <1>4 DEF TemplateInv, Fits, Follows
<1>7. FinalStays'
  BY <1>1, AskingKeeps
<1> QED
  BY <1>5, <1>6, <1>7 DEF TemplateInv

-----------------------------------------------------------------------------
(* Children. *)

(* Where a stop and a target lie.                                           *)
LEMMA PercentSides ==
  ASSUME NEW x \in Nat, NEW a \in Nat
  PROVE  /\ (x * (100 - a)) \div 100 <= x /\ (x * (100 - a)) \div 100 \in Int
         /\ (x * (100 + a)) \div 100 >= x /\ (x * (100 + a)) \div 100 \in Int
<1>1. x * (100 - a) = 100 * x - x * a /\ x * (100 + a) = 100 * x + x * a /\ x * a \in Nat
  OBVIOUS
<1>2. ASSUME NEW y \in Nat PROVE (100 * x - y) \div 100 <= x /\ (100 * x + y) \div 100 >= x
  BY <1>2
<1> QED
  BY <1>1, <1>2

(* A child priced from the quote lies on its side of it.                    *)
LEMMA PriceSides ==
  ASSUME NEW from \in Nat, NEW a \in Nat, NEW percent \in BOOLEAN
  PROVE  /\ Template!NewPrice(from, -1, a, percent) \in Int /\ Template!NewPrice(from, -1, a, percent) <= from
         /\ Template!NewPrice(from, 1, a, percent) \in Int /\ Template!NewPrice(from, 1, a, percent) >= from
<1>1. 100 + (-1) * a = 100 - a /\ 100 + 1 * a = 100 + a /\ from + (-1) * a = from - a /\ from + 1 * a = from + a
  OBVIOUS
<1>2. CASE percent
  BY <1>1, <1>2, PercentSides DEF Template!NewPrice
<1>3. CASE ~percent
  BY <1>1, <1>3 DEF Template!NewPrice
<1> QED
  BY <1>2, <1>3

Fresh == Suited(trade.way, trade.side, size, {})

(* Every new child fits the trade, whatever changed before.                 *)
LEMMA NewChildren ==
  ASSUME TemplateInv, NEW a \in Sizes, NEW l \in Sizes, NEW percent \in BOOLEAN
  PROVE  /\ Template!StopLoss(a, percent) \in Fresh
         /\ Template!StopLimit(a, l, percent) \in Fresh
         /\ Template!TakeProfit(a, percent) \in Fresh
<1>1. trade.way \in Ways /\ trade.side \in Longs /\ size \in Nat
  BY DEF TemplateInv, TemplateTypes
<1>2. a \in Nat /\ l \in Nat /\ Template!Basis \in Nat
  BY TradeConstants DEF TemplateInv, TemplateTypes, Template!Basis
<1>3. /\ Template!ChildInstruction = Template!Instruction(Template!Opposite(trade.way), trade.side)
      /\ Template!ChildInstruction \in Instructions
  BY <1>1, InstructionNames DEF Template!ChildInstruction
<1>4. ASSUME NEW kind \in {"STOP", "STOP_LIMIT", "LIMIT"}, NEW price \in Int, NEW limit \in Int,
             IF kind = "LIMIT" THEN price >= Template!Basis ELSE price <= Template!Basis
      PROVE  Template!Child(kind, price, limit) \in Fresh
  BY <1>1, <1>2, <1>3, <1>4 DEF Template!Child, Fresh, Suited, ChildOrder
<1>5. /\ Template!NewPrice(Template!Basis, -1, a, percent) \in Int
      /\ Template!NewPrice(Template!Basis, -1, a, percent) <= Template!Basis
      /\ Template!NewPrice(Template!Basis, 1, a, percent) \in Int
      /\ Template!NewPrice(Template!Basis, 1, a, percent) >= Template!Basis
      /\ Template!NewPrice(Template!Basis, -1, l, percent) \in Int
  BY <1>2, PriceSides
<1> QED
  BY <1>4, <1>5 DEF Template!StopLoss, Template!StopLimit, Template!TakeProfit

(* Children that fit join those that do.                                    *)
LEMMA ChildrenJoin ==
  ASSUME TemplateInv, NEW new \in Seq(Fresh), Template!Adds(new),
         children' \in Seq(Suited(trade.way, trade.side, size, altered))
  PROVE  TemplateInv'
<1>1. UNCHANGED <<trade, order, size, quote, Template!asking, altered>>
  BY DEF Template!Adds
<1>2. TemplateTypes' /\ Follows'
  BY <1>1 DEF TemplateInv, TemplateTypes, Follows
<1>3. Fits'
  BY <1>1 DEF Fits
<1>4. FinalStays'
  BY <1>1, AskingKeeps
<1> QED
  BY <1>2, <1>3, <1>4 DEF TemplateInv

(* One more group around a child changes nothing else of it.                *)
LEMMA GroupedFit ==
  ASSUME NEW way, NEW side, NEW q, NEW changed, NEW kids \in Seq(Suited(way, side, q, changed))
  PROVE  Template!Grouped(kids) \in Seq(Suited(way, side, q, changed))
<1> DEFINE S == Suited(way, side, q, changed)
<1>1. Len(kids) \in Nat /\ DOMAIN kids = 1..Len(kids) /\ \A i \in 1..Len(kids) : kids[i] \in S
  BY ElementOfSeq, LenProperties
<1>2. ASSUME NEW c \in S PROVE [c EXCEPT !.group = @ + 1] \in S
  <2>1. c \in ChildOrder /\ c.group \in Nat
    BY <1>2 DEF Suited, ChildOrder
  <2>2. [c EXCEPT !.group = @ + 1] \in ChildOrder
    BY <2>1 DEF ChildOrder
  <2>3. ASSUME NEW e, e = [c EXCEPT !.group = @ + 1]
        PROVE  e.instruction = c.instruction /\ e.quantity = c.quantity /\ e.price = c.price /\ e.kind = c.kind /\ e.basis = c.basis
    BY <2>1, <2>3 DEF ChildOrder
  <2> QED
    BY <2>1, <2>2, <2>3 DEF Suited
<1> HIDE DEF S
<1>3. Template!Grouped(kids) \in [1..Len(kids) -> S]
  BY <1>1, <1>2 DEF Template!Grouped
<1> QED
  BY <1>1, <1>3, FunctionIsSeq DEF S

(* Where the new children go.                                               *)
LEMMA Joined ==
  ASSUME TemplateInv, NEW new \in Seq(Fresh)
  PROVE  children \o new \in Seq(Suited(trade.way, trade.side, size, altered))
<1> DEFINE S == Suited(trade.way, trade.side, size, altered)
<1>1. Fresh \subseteq S
  BY MoreChanges DEF Fresh
<1>2. new \in Seq(S)
  BY <1>1, WiderSeq
<1>3. children \in Seq(S)
  BY DEF TemplateInv, Fits
<1> HIDE DEF S
<1>4. children \o new \in Seq(S)
  BY <1>2, <1>3, ConcatProperties
<1> QED
  BY <1>4 DEF S

(* A stop, a stop limit, a target.                                          *)
LEMMA OneChild ==
  ASSUME TemplateInv, NEW a \in Sizes, NEW percent \in BOOLEAN,
         \/ Template!AddStopLoss(a, percent) \/ Template!AddTakeProfit(a, percent)
         \/ \E l \in Sizes : Template!AddStopLimit(a, l, percent)
  PROVE  TemplateInv'
<1>1. PICK c \in Fresh : Template!Adds(<<c>>) /\ children' = children \o <<c>>
  BY NewChildren DEF Template!AddStopLoss, Template!AddTakeProfit, Template!AddStopLimit
<1>2. <<c>> \in Seq(Fresh)
  OBVIOUS
<1> QED
  BY <1>1, <1>2, Joined, ChildrenJoin

(* A box of two children.                                                   *)
LEMMA BoxOfChildren ==
  ASSUME TemplateInv, NEW profit \in Sizes, NEW stop \in Sizes, NEW limit \in Sizes, NEW sl \in BOOLEAN, NEW oco \in BOOLEAN,
         Template!AddBoxRange(profit, stop, limit, sl, oco)
  PROVE  TemplateInv'
<1>1. PICK c \in Fresh, d \in Fresh :
        /\ Template!Adds(<<c, d>>)
        /\ children' = IF oco THEN Template!Grouped(children \o <<c, d>>) ELSE children \o <<c, d>>
  BY NewChildren DEF Template!AddBoxRange
<1>2. <<c, d>> \in Seq(Fresh)
  OBVIOUS
<1>3. children \o <<c, d>> \in Seq(Suited(trade.way, trade.side, size, altered))
  BY <1>2, Joined
<1>4. children' \in Seq(Suited(trade.way, trade.side, size, altered))
  BY <1>1, <1>3, GroupedFit
<1> QED
  BY <1>1, <1>2, <1>4, ChildrenJoin

(* Groups and prices of the children change.                                *)
LEMMA ChildrenGrouped ==
  ASSUME TemplateInv, Template!AddOneCancelsOther
  PROVE  TemplateInv'
<1>1. /\ children' = Template!Grouped(children)
      /\ UNCHANGED <<trade, order, size, triggered, quote, Template!asking, altered>>
  BY DEF Template!AddOneCancelsOther
<1>2. TemplateTypes' /\ Follows'
  BY <1>1 DEF TemplateInv, TemplateTypes, Follows
<1>3. Fits'
  BY <1>1, GroupedFit DEF TemplateInv, Fits
<1>4. FinalStays'
  BY <1>1, AskingKeeps
<1> QED
  BY <1>2, <1>3, <1>4 DEF TemplateInv

(* A child that is priced anew fits.                                        *)
LEMMA ChildrenPriced ==
  ASSUME TemplateInv, Template!UpdateChildren
  PROVE  TemplateInv'
<1>1. /\ children # <<>>
      /\ children' = [i \in DOMAIN children |->
                       IF children[i].group = 1 /\ children[i].kind \in {"STOP", "LIMIT"}
                       THEN [children[i] EXCEPT !.price = @ + quote] ELSE children[i]]
      /\ altered' = altered \cup {"price"}
      /\ UNCHANGED <<trade, order, size, triggered, quote, Template!asking>>
  BY DEF Template!UpdateChildren, Template!Alters
<1>2. quote \in Nat
  BY TradeConstants DEF TemplateInv, TemplateTypes
<1> DEFINE S == Suited(trade.way, trade.side, size, altered)
           T == Suited(trade.way, trade.side, size, altered')
<1>3. Len(children) \in Nat /\ DOMAIN children = 1..Len(children) /\ \A i \in 1..Len(children) : children[i] \in S
  BY ElementOfSeq, LenProperties DEF TemplateInv, Fits
<1>4. S \subseteq T
  BY <1>1, MoreChanges
<1>5. ASSUME NEW c \in S PROVE [c EXCEPT !.price = @ + quote] \in T
  <2>1. c \in ChildOrder /\ c.price \in Int
    BY <1>5 DEF Suited, ChildOrder
  <2>2. [c EXCEPT !.price = @ + quote] \in ChildOrder
    BY <1>2, <2>1 DEF ChildOrder
  <2>3. ASSUME NEW e, e = [c EXCEPT !.price = @ + quote]
        PROVE  e.instruction = c.instruction /\ e.quantity = c.quantity
    BY <2>1, <2>3 DEF ChildOrder
  <2> QED
    BY <1>1, <2>1, <2>2, <2>3 DEF Suited
<1>6. Fits'
  <2> HIDE DEF S, T
  <2>1. children' \in [1..Len(children) -> T]
    BY <1>1, <1>3, <1>4, <1>5
  <2>2. children' \in Seq(T)
    BY <1>3, <2>1, FunctionIsSeq
  <2> QED
    BY <1>1, <2>2 DEF Fits, T
<1>7. TemplateTypes' /\ Follows'
  BY <1>1 DEF TemplateInv, TemplateTypes, Follows
<1>8. FinalStays'
  BY <1>1, AskingKeeps
<1> QED
  BY <1>6, <1>7, <1>8 DEF TemplateInv

(* The quote moves, and what the broker does and tells.                     *)
LEMMA BrokerTells ==
  ASSUME TemplateInv,
         \/ \E p \in Prices : Template!QuoteMoves(p)
         \/ \E s \in Venue : Template!Place(s) \/ Template!VenueMoves(s)
         \/ Template!CheckStatus \/ Template!Ask
  PROVE  TemplateInv'
<1>1. UNCHANGED <<trade, order, size, children, altered>> /\ quote' \in Prices
  BY DEF TemplateInv, TemplateTypes, Template!QuoteMoves, Template!Place, Template!VenueMoves, Template!CheckStatus, Template!Ask
<1>2. TemplateTypes' /\ Fits' /\ Follows'
  BY <1>1 DEF TemplateInv, TemplateTypes, Fits, Follows
<1>3. FinalStays'
  <2>1. ASSUME NEW p \in Prices, Template!QuoteMoves(p) PROVE FinalStays'
    BY <2>1, AskingKeeps DEF Template!QuoteMoves
  <2>2. ASSUME NEW s \in Venue, Template!Place(s) PROVE FinalStays'
    BY <2>2, TradeConstants DEF TemplateInv, FinalStays, Template!Place, Template!Queued
  <2>3. ASSUME NEW s \in Venue, Template!VenueMoves(s) PROVE FinalStays'
    BY <2>3, TradeConstants DEF TemplateInv, FinalStays, Template!VenueMoves
  <2>4. ASSUME Template!CheckStatus PROVE FinalStays'
    BY <2>4 DEF TemplateInv, FinalStays, Template!CheckStatus
  <2>5. ASSUME Template!Ask PROVE FinalStays'
    BY <2>5, TradeConstants DEF TemplateInv, FinalStays, Template!Ask
  <2> QED
    BY <2>1, <2>2, <2>3, <2>4, <2>5
<1> QED
  BY <1>2, <1>3 DEF TemplateInv

(* Every step of the template.                                              *)
LEMMA TemplateStays ==
  ASSUME TemplateInv, [Template!Next]_(Template!vars)
  PROVE  TemplateInv'
<1>1. CASE UNCHANGED Template!vars
  <2>1. UNCHANGED <<trade, order, size, children, altered, quote, Template!asking>>
    BY <1>1 DEF Template!vars, Template!asking
  <2>2. TemplateTypes' /\ Fits' /\ Follows'
    BY <2>1 DEF TemplateInv, TemplateTypes, Fits, Follows
  <2> QED
    BY <2>1, <2>2, AskingKeeps DEF TemplateInv
<1>2. CASE Template!Next
  BY <1>2, InstrumentKeeps, SideKeeps, PriceKeeps, OneChild, BoxOfChildren, ChildrenGrouped, ChildrenPriced, BrokerTells
     DEF Template!Next
<1> QED
  BY <1>1, <1>2

\* Trade: the children of an entry close it, all of it, with a long's stop below
\* and its target above the price they were measured from, until the side, the
\* size or the prices are changed after them; an answer about a final status is
\* the order's status.
THEOREM ChildrenClose == DeskSpec => []TradeSound
<1>1. DeskInit => (part = "trade" => TemplateInv)
  BY TradeAlone, TemplateBegins
<1>2. (part = "trade" => TemplateInv) /\ [DeskNext]_desk => (part = "trade" => TemplateInv)'
  BY TradeAlone, TemplateStays
<1>3. (part = "trade" => TemplateInv) => TradeSound
  BY TemplateIsSound DEF TradeSound
<1> QED
  BY <1>1, <1>2, <1>3, PTL DEF DeskSpec

-----------------------------------------------------------------------------
(* The model registry: champions, and a directory that can be loaded.       *)

Entry == [status : Registry!Statuses, good : BOOLEAN, sha : Nat]
OnDisk(k) == Registry!Loaded(disk)[k]

RegistryTypes ==
  /\ models \in [Models -> Entry \cup {Registry!NoMeta}]
  /\ disk \in [Registry!Files -> {Registry!NoFile} \cup [key : Models, meta : Entry]]
  /\ artifacts \in [Registry!Files -> Nat]
  /\ fits \in Nat

\* What an operation on one model still has to write.
Registers(k) ==
  \E s \in Registry!Given : \/ todo = <<Registry!Artifact(k), Registry!Metadata(k, s)>>
                            \/ todo = <<Registry!Metadata(k, s)>>
Challenges(k) == todo = <<Registry!Metadata(k, "CHALLENGER")>>
Crowns(k) == todo = <<Registry!Metadata(k, "CHAMPION")>> /\ Registry!Champions \subseteq {k}
Replaces(c, k) ==
  /\ c # k /\ Registry!Champions = {c} /\ models[c] \in Entry
  /\ todo = <<Registry!Metadata(c, "ARCHIVED"), Registry!Metadata(k, "CHAMPION")>>

Planned ==
  \/ todo = <<>>
  \/ \E k \in Models :
       /\ models[k] \in Entry
       /\ Registers(k) \/ Challenges(k) \/ Crowns(k) \/ \E c \in Models : Replaces(c, k)

\* One champion in memory, one on disk, which memory knows, unless it is being
\* registered again.
OneKnown == \A j, k \in Models : models[j].status = "CHAMPION" /\ models[k].status = "CHAMPION" => j = k
OneEach ==
  /\ OneKnown
  /\ \A j, k \in Models : OnDisk(j).status = "CHAMPION" /\ OnDisk(k).status = "CHAMPION" => j = k
  /\ \A k \in Models : OnDisk(k).status = "CHAMPION" => models[k].status = "CHAMPION" \/ Registers(k)

\* Memory and disk agree on what is not about to be written.
Pending(k) == \E i \in 1..Len(todo) : todo[i].file = "metadata" /\ todo[i].key = k
Agreed == \A k \in Models : Registry!Alone(k) => Pending(k) \/ OnDisk(k) = models[k]

\* The next champion could be promoted from what is on disk.
Backed ==
  \A k \in Models : Registry!Alone(k) /\ (Crowns(k) \/ \E c \in Models : Replaces(c, k)) =>
    OnDisk(k).good /\ Registry!Intact(k, OnDisk(k))

RegistryInv == ~failed => RegistryTypes /\ Planned /\ OneEach /\ Agreed /\ Backed

\* What failed writes leave of it, until the process dies.
MemoryInv ==
  ~restarted => /\ models \in [Models -> Entry \cup {Registry!NoMeta}] /\ fits \in Nat
                /\ Planned /\ OneKnown

(* Only its own steps change a component.                                   *)
LEMMA RegistryAlone ==
  /\ DeskInit /\ part = "registry" => Registry!Init
  /\ [DeskNext]_desk /\ part' = "registry" => part = "registry" /\ [Registry!Next]_(Registry!vars)
<1>1. DeskInit /\ part = "registry" => Registry!Init
  BY DEF DeskInit, PartInit
<1>2. ASSUME DeskNext, part' = "registry" PROVE part = "registry" /\ Registry!Next
  BY <1>2 DEF DeskNext, SessionRuns, ConsoleRuns, RegistryRuns, TradeRuns, RobotRuns, IndicatorsRun, TrainingRuns, ReplayRuns
<1>3. ASSUME UNCHANGED desk, part' = "registry" PROVE part = "registry" /\ UNCHANGED Registry!vars
  BY <1>3 DEF desk, shared, registry, Registry!vars
<1> QED
  BY <1>1, <1>2, <1>3

(* A set whose members are all the same has at most one.                    *)
LEMMA AtMostOne ==
  ASSUME NEW S, \A x, y \in S : x = y
  PROVE  Registry!Cardinality(S) <= 1
<1>1. Registry!Cardinality(S) = Cardinality(S)
  BY DEF Registry!Cardinality, Cardinality
<1>2. CASE S = {}
  BY <1>1, <1>2, FS_EmptySet
<1>3. CASE S # {}
  <2>1. PICK x : S = {x}
    BY <1>3
  <2>2. Cardinality({x}) = 1
    BY FS_Singleton
  <2> QED
    BY <1>1, <2>1, <2>2
<1> QED
  BY <1>2, <1>3

(* The list of a single member, and of none.                                *)
LEMMA ListOfOne ==
  ASSUME NEW x
  PROVE  Registry!Cardinality({x}) = 1 /\ Registry!SetToSeq({x})[1] = x
<1>1. Registry!Cardinality({x}) = 1
  BY FS_Singleton DEF Registry!Cardinality, Cardinality
<1>2. Registry!SetToSeq({x}) = CHOOSE f \in [1..1 -> {x}] : Registry!IsInjective(f)
  BY <1>1 DEF Registry!SetToSeq
<1>3. \E f \in [1..1 -> {x}] : Registry!IsInjective(f)
  <2>1. [i \in 1..1 |-> x] \in [1..1 -> {x}]
    OBVIOUS
  <2>2. Registry!IsInjective([i \in 1..1 |-> x])
    BY DEF Registry!IsInjective
  <2> QED
    BY <2>1, <2>2
<1>4. Registry!SetToSeq({x}) \in [1..1 -> {x}]
  BY <1>2, <1>3, Zenon
<1> QED
  BY <1>1, <1>4

(* No champions, no names of champions.                                     *)
LEMMA ListOfNone == Registry!Cardinality({}) = 0
BY FS_EmptySet DEF Registry!Cardinality, Cardinality

(* What is written to, and read from, a file.                               *)
LEMMA LoadedTypes ==
  ASSUME RegistryTypes, NEW k \in Models
  PROVE  /\ OnDisk(k) \in Entry \cup {Registry!NoMeta}
         /\ OnDisk(k) = IF disk[FileOf[k]].key = k THEN disk[FileOf[k]].meta ELSE Registry!NoMeta
<1>1. FileOf[k] \in Registry!Files
  BY DEF Registry!Files
<1>2. disk[FileOf[k]] \in {Registry!NoFile} \cup [key : Models, meta : Entry]
  BY <1>1 DEF RegistryTypes
<1>3. OnDisk(k) = IF disk[FileOf[k]].key = k THEN disk[FileOf[k]].meta ELSE Registry!NoMeta
  BY DEF OnDisk, Registry!Loaded
<1> QED
  BY <1>2, <1>3 DEF Registry!NoFile

(* What the writes of a plan are.                                           *)
LEMMA PlanReads ==
  ASSUME NEW k
  PROVE  /\ Registers(k) => Pending(k) /\ todo # <<>> /\ Registry!Last(todo).status # "CHAMPION"
                            /\ Registry!Last(todo).key = k
         /\ Challenges(k) => Pending(k) /\ todo # <<>> /\ Registry!Last(todo).status = "CHALLENGER"
                             /\ Registry!Last(todo).key = k
         /\ Crowns(k) => Pending(k) /\ todo # <<>> /\ Registry!Last(todo).key = k
         /\ \A c : Replaces(c, k) => Pending(k) /\ todo # <<>> /\ Registry!Last(todo).key = k
BY DEF Registers, Registry!Given, Challenges, Crowns, Replaces, Pending, Registry!Last, Registry!Metadata, Registry!Artifact

(* The invariant is what the run checks.                                    *)
LEMMA RegistryIsSound ==
  ASSUME RegistryInv, MemoryInv
  PROVE  Registry!RegistrySound
<1>1. ~restarted => Registry!Cardinality(Registry!Champions) <= 1
  BY AtMostOne DEF MemoryInv, OneKnown, Registry!Champions
<1> SUFFICES ASSUME ~failed
             PROVE  /\ Registry!Cardinality({k \in Models : OnDisk(k).status = "CHAMPION"}) <= 1
                    /\ todo # <<>> /\ Registry!Last(todo).status = "CHAMPION" /\ Registry!Alone(Registry!Last(todo).key) =>
                         OnDisk(Registry!Last(todo).key).good
                         /\ Registry!Intact(Registry!Last(todo).key, OnDisk(Registry!Last(todo).key))
                    /\ todo = <<>> => \A k \in Models : Registry!Alone(k) => OnDisk(k) = models[k]
  BY <1>1 DEF OnDisk, Registry!RegistrySound, Registry!OneChampion, Registry!PromotionRepeatable, Registry!DiskAgrees
<1> USE DEF RegistryInv
<1>2. \A j, k \in {i \in Models : OnDisk(i).status = "CHAMPION"} : j = k
  BY DEF OneEach, OneKnown
<1>3. ASSUME todo # <<>>, Registry!Last(todo).status = "CHAMPION", Registry!Alone(Registry!Last(todo).key)
      PROVE  OnDisk(Registry!Last(todo).key).good
             /\ Registry!Intact(Registry!Last(todo).key, OnDisk(Registry!Last(todo).key))
  <2>1. PICK k \in Models : Registers(k) \/ Challenges(k) \/ Crowns(k) \/ \E c \in Models : Replaces(c, k)
    BY <1>3 DEF Planned
  <2>2. Registry!Last(todo).key = k
    BY <2>1, PlanReads
  <2>3. ~Registers(k) /\ ~Challenges(k)
    BY <1>3, PlanReads
  <2> QED
    BY <1>3, <2>1, <2>2, <2>3 DEF Backed
<1>4. ASSUME todo = <<>> PROVE \A k \in Models : Registry!Alone(k) => OnDisk(k) = models[k]
  BY <1>4, EmptySeq DEF Agreed, Pending
<1> QED
  BY <1>2, <1>3, <1>4, AtMostOne

(* An empty directory.                                                      *)
LEMMA RegistryBegins ==
  ASSUME Registry!Init
  PROVE  RegistryInv
<1>1. /\ models = [k \in Models |-> Registry!NoMeta] /\ disk = [f \in Registry!Files |-> Registry!NoFile]
      /\ artifacts = [f \in Registry!Files |-> 0] /\ todo = <<>> /\ fits = 0
  BY DEF Registry!Init
<1>2. RegistryTypes
  BY <1>1 DEF RegistryTypes
<1>3. ASSUME NEW k \in Models PROVE OnDisk(k) = Registry!NoMeta /\ models[k] = Registry!NoMeta
  <2>1. FileOf[k] \in Registry!Files
    BY DEF Registry!Files
  <2> QED
    BY <1>1, <1>2, <2>1, LoadedTypes DEF Registry!NoFile
<1>4. Registry!NoMeta.status # "CHAMPION"
  BY DEF Registry!NoMeta
<1>5. OneEach /\ Agreed
  BY <1>3, <1>4 DEF OneEach, OneKnown, Agreed
<1>6. Planned
  BY <1>1 DEF Planned
<1>7. Backed
  BY <1>1, PlanReads DEF Backed
<1> QED
  BY <1>2, <1>5, <1>6, <1>7 DEF RegistryInv

-----------------------------------------------------------------------------
(* Operations begin. *)

(* A model is registered: memory knows it at once.                          *)
LEMMA RegisterKeeps ==
  ASSUME RegistryInv, ~failed, NEW k \in Models, NEW given \in Registry!Given, NEW good \in BOOLEAN,
         NEW trained \in BOOLEAN, Registry!Register(k, given, good, trained)
  PROVE  RegistryInv'
<1> DEFINE new == [status |-> given, good |-> good, sha |-> 0]
<1> USE DEF RegistryInv
<1>1. /\ todo = <<>> /\ models' = [models EXCEPT ![k] = new]
      /\ disk' = disk /\ artifacts' = artifacts /\ fits' = fits /\ failed' = failed
      /\ todo' = (IF trained THEN <<Registry!Artifact(k)>> ELSE <<>>) \o <<Registry!Metadata(k, given)>>
  BY DEF Registry!Register, Registry!Begins
<1>2. Registers(k)'
  BY <1>1, TwoWrites DEF Registers
<1>3. new \in Entry /\ new.status # "CHAMPION"
  BY DEF Entry, Registry!Statuses, Registry!Given
<1> HIDE DEF new
<1>4. /\ models' \in [Models -> Entry \cup {Registry!NoMeta}] /\ models'[k] = new
      /\ \A j \in Models \ {k} : models'[j] = models[j]
  BY <1>1, <1>3 DEF RegistryTypes
<1>5. RegistryTypes'
  BY <1>1, <1>4 DEF RegistryTypes
<1>6. Planned'
  BY <1>2, <1>3, <1>4 DEF Planned
<1>7. \A j : OnDisk(j)' = OnDisk(j)
  BY <1>1 DEF OnDisk, Registry!Loaded
<1>8. \A j : ~Registers(j)
  BY <1>1, PlanReads
<1>9. OneEach'
  BY <1>2, <1>3, <1>4, <1>7, <1>8 DEF OneEach, OneKnown
<1>10. Agreed'
  <2>1. Pending(k)'
    BY <1>2 DEF Registers, Pending, Registry!Metadata, Registry!Artifact
  <2>2. \A j : ~Pending(j)
    BY <1>1, EmptySeq DEF Pending
  <2> QED
    BY <1>4, <1>7, <2>1, <2>2 DEF Agreed, Registry!Alone
<1>11. \A j, c : ~Crowns(j)' /\ ~Replaces(c, j)'
  BY <1>2 DEF Registers, Registry!Given, Crowns, Replaces, Registry!Metadata, Registry!Artifact
<1>12. Backed'
  BY <1>11 DEF Backed
<1> QED
  BY <1>5, <1>6, <1>9, <1>10, <1>12

(* A plan whose memory and files are those before it.                       *)
LEMMA PlanOnly ==
  ASSUME RegistryInv, ~failed, todo = <<>>,
         UNCHANGED <<models, disk, artifacts, fits, failed>>
  PROVE  /\ RegistryTypes' /\ OneEach' /\ Agreed'
         /\ \A j : OnDisk(j)' = OnDisk(j)
         /\ Registry!Champions' = Registry!Champions
<1> USE DEF RegistryInv
<1>1. RegistryTypes'
  BY DEF RegistryTypes
<1>2. \A j : OnDisk(j)' = OnDisk(j)
  BY DEF OnDisk, Registry!Loaded
<1>3. \A j : ~Registers(j) /\ ~Pending(j)
  BY PlanReads, EmptySeq DEF Pending
<1>4. OneEach'
  BY <1>2, <1>3 DEF OneEach, OneKnown
<1>5. Agreed'
  BY <1>2, <1>3 DEF Agreed, Registry!Alone
<1> QED
  BY <1>1, <1>2, <1>4, <1>5 DEF Registry!Champions

(* What a promotion writes when there is one champion at most.              *)
LEMMA PromotionWrites ==
  ASSUME OneKnown, NEW k \in Models
  PROVE  \/ Registry!Champions \subseteq {k} /\ Registry!Promotion(k) = <<Registry!Metadata(k, "CHAMPION")>>
         \/ \E c \in Models : /\ c # k /\ Registry!Champions = {c}
                            /\ Registry!Promotion(k) = <<Registry!Metadata(c, "ARCHIVED"), Registry!Metadata(k, "CHAMPION")>>
<1> DEFINE others == Registry!Champions \ {k}
           w == Registry!Metadata(k, "CHAMPION")
           archived == [i \in 1..Registry!Cardinality(others) |-> Registry!Metadata(Registry!SetToSeq(others)[i], "ARCHIVED")]
<1>1. \A i, j \in Registry!Champions : i = j
  BY DEF OneKnown, Registry!Champions
<1>2. Registry!Promotion(k) = archived \o <<w>>
  BY DEF Registry!Promotion
<1>3. CASE others = {}
  <2>1. Registry!Champions \subseteq {k}
    BY <1>3
  <2>2. archived = <<>>
    <3>1. archived = [i \in 1..0 |-> Registry!Metadata(Registry!SetToSeq({})[i], "ARCHIVED")]
      BY <1>3, ListOfNone
    <3>2. 1..0 = {}
      OBVIOUS
    <3>3. archived \in [1..0 -> {w}]
      BY <3>1, <3>2
    <3>4. archived \in Seq({w}) /\ Len(archived) = 0
      BY <3>3, FunctionIsSeq
    <3> QED
      BY <3>4, EmptySeq
  <2>3. archived \o <<w>> = <<w>>
    BY <2>2, TwoWrites
  <2> QED
    BY <1>2, <2>1, <2>3
<1>4. CASE others # {}
  <2>1. PICK c \in Models : c # k /\ Registry!Champions = {c} /\ others = {c}
    BY <1>1, <1>4 DEF Registry!Champions
  <2> DEFINE a == Registry!Metadata(c, "ARCHIVED")
  <2>2. Registry!Cardinality(others) = 1 /\ Registry!SetToSeq(others)[1] = c
    BY <2>1, ListOfOne
  <2>3. archived = [i \in 1..1 |-> Registry!Metadata(Registry!SetToSeq(others)[i], "ARCHIVED")]
    BY <2>2
  <2>4. archived \in [1..1 -> {a}]
    BY <2>2, <2>3
  <2>5. archived \in Seq({a}) /\ Len(archived) = 1
    BY <2>4, FunctionIsSeq
  <2> HIDE DEF archived, a
  <2>6. <<a>> \in Seq({a}) /\ Len(<<a>>) = 1
    OBVIOUS
  <2>7. archived = <<a>>
    BY <2>4, <2>5, <2>6, SeqEqual
  <2>8. archived \o <<w>> = <<a, w>>
    BY <2>7, TwoWrites
  <2> QED
    BY <1>2, <2>1, <2>8 DEF a
<1> QED
  BY <1>3, <1>4

(* A champion is promoted from what memory and disk agree on.               *)
LEMMA ChampionKeeps ==
  ASSUME RegistryInv, ~failed, NEW k \in Models, Registry!PromoteToChampion(k)
  PROVE  RegistryInv'
<1> USE DEF RegistryInv
<1>1. /\ todo = <<>> /\ todo' = Registry!Promotion(k) /\ Registry!Valid(k)
      /\ UNCHANGED <<models, disk, artifacts, fits, failed>>
  BY DEF Registry!PromoteToChampion, Registry!Begins
<1>2. /\ RegistryTypes' /\ OneEach' /\ Agreed'
      /\ \A j : OnDisk(j)' = OnDisk(j)
      /\ Registry!Champions' = Registry!Champions
  BY <1>1, PlanOnly
<1>3. Crowns(k)' \/ \E c \in Models : Replaces(c, k)'
  <2>1. \A c \in Models : Registry!Champions = {c} => models[c] \in Entry
    BY DEF Registry!Champions, RegistryTypes, Registry!NoMeta
  <2> QED
    BY <1>1, <1>2, <2>1, PromotionWrites DEF Crowns, Replaces, OneEach
<1>4. models'[k] \in Entry
  BY <1>1 DEF Registry!Valid, Registry!Known, RegistryTypes
<1>5. Planned'
  BY <1>3, <1>4 DEF Planned
<1>6. ASSUME NEW j \in Models, Crowns(j)' \/ \E c \in Models : Replaces(c, j)' PROVE j = k
  BY <1>3, <1>6 DEF Crowns, Replaces, Registry!Metadata
<1>7. Registry!Alone(k) => OnDisk(k) = models[k]
  BY <1>1, EmptySeq DEF Agreed, Pending
<1>8. Backed'
  BY <1>1, <1>2, <1>6, <1>7 DEF Backed, Registry!Valid, Registry!Intact, Registry!Alone
<1> QED
  BY <1>2, <1>5, <1>8

(* A challenger is promoted.                                                *)
LEMMA ChallengerKeeps ==
  ASSUME RegistryInv, ~failed, NEW k \in Models, Registry!PromoteToChallenger(k)
  PROVE  RegistryInv'
<1> USE DEF RegistryInv
<1>1. /\ todo = <<>> /\ todo' = <<Registry!Metadata(k, "CHALLENGER")>> /\ Registry!Known(k)
      /\ UNCHANGED <<models, disk, artifacts, fits, failed>>
  BY DEF Registry!PromoteToChallenger, Registry!Begins
<1>2. RegistryTypes' /\ OneEach' /\ Agreed'
  BY <1>1, PlanOnly
<1>3. Challenges(k)' /\ models'[k] \in Entry
  BY <1>1 DEF Challenges, Registry!Known, RegistryTypes
<1>4. Planned'
  BY <1>3 DEF Planned
<1>5. Backed'
  BY <1>3 DEF Backed, Challenges, Crowns, Replaces, Registry!Metadata
<1> QED
  BY <1>2, <1>4, <1>5

-----------------------------------------------------------------------------
(* Writes. *)

(* The first of one and of two writes.                                      *)
LEMMA FirstOf ==
  ASSUME NEW a, NEW b
  PROVE  /\ Head(<<a>>) = a /\ Tail(<<a>>) = <<>> /\ <<a>> # <<>>
         /\ Head(<<a, b>>) = a /\ Tail(<<a, b>>) = <<b>> /\ <<a, b>> # <<>>
OBVIOUS

(* An artifact is written: its model is still to be.                        *)
LEMMA ArtifactKeeps ==
  ASSUME RegistryInv, ~failed, Registry!WriteArtifact
  PROVE  RegistryInv'
<1> USE DEF RegistryInv
<1>1. PICK k \in Models, s \in Registry!Given :
        models[k] \in Entry /\ todo = <<Registry!Artifact(k), Registry!Metadata(k, s)>>
  <2>1. PICK k \in Models : models[k] \in Entry /\ (Registers(k) \/ Challenges(k) \/ Crowns(k) \/ \E c \in Models : Replaces(c, k))
    BY DEF Planned, Registry!WriteArtifact
  <2>2. Head(todo).file = "artifact"
    BY DEF Registry!WriteArtifact
  <2>3. \A s : todo # <<Registry!Metadata(k, s)>>
    BY <2>2, FirstOf DEF Registry!Metadata
  <2>4. \A c, b : todo # <<Registry!Metadata(c, "ARCHIVED"), b>>
    BY <2>2, FirstOf DEF Registry!Metadata
  <2> QED
    BY <2>1, <2>3, <2>4 DEF Registers, Challenges, Crowns, Replaces
<1>2. Head(todo).key = k /\ Tail(todo) = <<Registry!Metadata(k, s)>>
  BY <1>1, FirstOf DEF Registry!Artifact
<1>3. /\ fits' = fits + 1 /\ artifacts' = [artifacts EXCEPT ![FileOf[k]] = fits']
      /\ models' = [models EXCEPT ![k].sha = fits'] /\ todo' = <<Registry!Metadata(k, s)>>
      /\ disk' = disk /\ failed' = failed
  BY <1>2 DEF Registry!WriteArtifact
<1>4. Registers(k)' /\ Registers(k)
  BY <1>1, <1>3 DEF Registers
<1> DEFINE new == [models[k] EXCEPT !.sha = fits']
<1>5. new \in Entry /\ new.status = models[k].status
  BY <1>1, <1>3 DEF Entry, RegistryTypes
<1>6. models' = [models EXCEPT ![k] = new]
  BY <1>3
<1> HIDE DEF new
<1>7. /\ models' \in [Models -> Entry \cup {Registry!NoMeta}] /\ models'[k] = new
      /\ \A j \in Models : models'[j].status = models[j].status
      /\ \A j \in Models \ {k} : models'[j] = models[j]
  BY <1>5, <1>6 DEF RegistryTypes
<1>8. RegistryTypes'
  <2>1. fits' \in Nat
    BY <1>3 DEF RegistryTypes
  <2>4. artifacts' \in [Registry!Files -> Nat]
    BY <1>3, <2>1 DEF RegistryTypes
  <2>2. models' \in [Models -> Entry \cup {Registry!NoMeta}]
    BY <1>7
  <2>3. disk' \in [Registry!Files -> {Registry!NoFile} \cup [key : Models, meta : Entry]]
    BY <1>3 DEF RegistryTypes
  <2> QED
    BY <2>1, <2>2, <2>3, <2>4 DEF RegistryTypes
<1>9. Planned'
  BY <1>4, <1>5, <1>7 DEF Planned
<1>10. \A j : OnDisk(j)' = OnDisk(j)
  BY <1>3 DEF OnDisk, Registry!Loaded
<1>11. \A j : Registers(j) => j = k
  BY <1>1 DEF Registers, Registry!Metadata, Registry!Artifact
<1>12. OneEach'
  BY <1>4, <1>7, <1>10, <1>11 DEF OneEach, OneKnown
<1>13. Pending(k)' /\ \A j : Pending(j) => j = k
  <2>1. Len(todo) = 2 /\ todo[1].file = "artifact" /\ todo[2].key = k
    BY <1>1 DEF Registry!Metadata, Registry!Artifact
  <2> QED
    BY <1>3, <2>1 DEF Pending, Registry!Metadata
<1>14. Agreed'
  BY <1>7, <1>10, <1>13 DEF Agreed, Registry!Alone
<1>15. Backed'
  BY <1>3 DEF Backed, Crowns, Replaces, Registry!Metadata, Registry!Given
<1> QED
  BY <1>8, <1>9, <1>12, <1>14, <1>15

(* What a metadata write does: memory and file have the new status.         *)
LEMMA MetadataWritten ==
  ASSUME RegistryTypes, NEW k \in Models, models[k] \in Entry, NEW s \in Registry!Statuses,
         Head(todo) = Registry!Metadata(k, s), Registry!WriteMetadata
  PROVE  /\ RegistryTypes'
         /\ models'[k] \in Entry /\ models'[k].status = s
         /\ \A j \in Models \ {k} : models'[j] = models[j]
         /\ OnDisk(k)' = models'[k]
         /\ \A j \in Models \ {k} : OnDisk(j)' \in {OnDisk(j), Registry!NoMeta}
         /\ \A j \in Models \ {k} : FileOf[j] # FileOf[k] => OnDisk(j)' = OnDisk(j)
         /\ todo' = Tail(todo) /\ failed' = failed /\ artifacts' = artifacts
<1>1. Head(todo).key = k /\ Head(todo).status = s
  BY DEF Registry!Metadata
<1> DEFINE new == [models[k] EXCEPT !.status = s]
<1>2. /\ models' = [models EXCEPT ![k] = new]
      /\ disk' = [disk EXCEPT ![FileOf[k]] = [key |-> k, meta |-> models'[k]]]
      /\ todo' = Tail(todo) /\ artifacts' = artifacts /\ fits' = fits /\ failed' = failed
  BY <1>1 DEF Registry!WriteMetadata, Registry!SetStatus
<1>3. new \in Entry /\ new.status = s
  BY DEF Entry
<1> HIDE DEF new
<1>4. /\ models' \in [Models -> Entry \cup {Registry!NoMeta}] /\ models'[k] = new
      /\ \A j \in Models \ {k} : models'[j] = models[j]
  BY <1>2, <1>3 DEF RegistryTypes
<1>5. FileOf[k] \in Registry!Files /\ [key |-> k, meta |-> new] \in [key : Models, meta : Entry]
  BY <1>3 DEF Registry!Files
<1>6. RegistryTypes'
  BY <1>2, <1>4, <1>5 DEF RegistryTypes
<1>7. disk'[FileOf[k]].key = k /\ disk'[FileOf[k]].meta = new
  BY <1>2, <1>4, <1>5 DEF RegistryTypes
<1>8. \A j \in Models : FileOf[j] # FileOf[k] => disk'[FileOf[j]] = disk[FileOf[j]]
  <2>1. \A j \in Models : FileOf[j] \in Registry!Files
    BY DEF Registry!Files
  <2> QED
    BY <1>2, <2>1 DEF RegistryTypes
<1>9. \A j \in Models : OnDisk(j)' = IF disk'[FileOf[j]].key = j THEN disk'[FileOf[j]].meta ELSE Registry!NoMeta
  BY DEF OnDisk, Registry!Loaded, Registry!NoMeta
<1>10. \A j \in Models : OnDisk(j) = IF disk[FileOf[j]].key = j THEN disk[FileOf[j]].meta ELSE Registry!NoMeta
  BY LoadedTypes
<1>11. ASSUME NEW j \in Models \ {k}
       PROVE  /\ OnDisk(j)' \in {OnDisk(j), Registry!NoMeta}
              /\ FileOf[j] # FileOf[k] => OnDisk(j)' = OnDisk(j)
  <2>1. CASE FileOf[j] = FileOf[k]
    BY <1>7, <1>9, <2>1
  <2>2. CASE FileOf[j] # FileOf[k]
    BY <1>8, <1>9, <1>10, <2>2
  <2> QED
    BY <2>1, <2>2
<1>12. OnDisk(k)' = new
  BY <1>7, <1>9
<1> QED
  BY <1>2, <1>3, <1>4, <1>6, <1>11, <1>12

(* The last write of an operation that names no champion.                   *)
LEMMA LowerStatusKeeps ==
  ASSUME RegistryInv, ~failed, NEW k \in Models, models[k] \in Entry,
         NEW s \in {"CANDIDATE", "CHALLENGER"}, todo = <<Registry!Metadata(k, s)>>, Registry!WriteMetadata
  PROVE  RegistryInv'
<1> USE DEF RegistryInv
<1>1. /\ RegistryTypes'
      /\ models'[k] \in Entry /\ models'[k].status = s
      /\ \A j \in Models \ {k} : models'[j] = models[j]
      /\ OnDisk(k)' = models'[k]
      /\ \A j \in Models \ {k} : OnDisk(j)' \in {OnDisk(j), Registry!NoMeta}
      /\ \A j \in Models \ {k} : FileOf[j] # FileOf[k] => OnDisk(j)' = OnDisk(j)
      /\ todo' = <<>> /\ failed' = failed
  BY MetadataWritten, FirstOf DEF Registry!Statuses
<1>2. \A j : Registers(j) => j = k
  BY DEF Registers, Registry!Metadata, Registry!Artifact
<1>3. Registry!NoMeta.status # "CHAMPION" /\ s # "CHAMPION"
  BY DEF Registry!NoMeta
<1>4. OneEach'
  BY <1>1, <1>2, <1>3 DEF OneEach, OneKnown
<1>5. \A j : Pending(j) => j = k
  BY DEF Pending, Registry!Metadata
<1>6. Agreed'
  BY <1>1, <1>5 DEF Agreed, Registry!Alone
<1>7. Planned'
  BY <1>1 DEF Planned
<1>8. Backed'
  BY <1>1, PlanReads DEF Backed, Crowns, Replaces
<1> QED
  BY <1>1, <1>4, <1>6, <1>7, <1>8

(* The new champion is written when nobody else is one.                     *)
LEMMA CrownKeeps ==
  ASSUME RegistryInv, ~failed, NEW k \in Models, models[k] \in Entry, Crowns(k), Registry!WriteMetadata
  PROVE  RegistryInv'
<1> USE DEF RegistryInv
<1>1. todo = <<Registry!Metadata(k, "CHAMPION")>> /\ Registry!Champions \subseteq {k}
  BY DEF Crowns
<1>2. /\ RegistryTypes'
      /\ models'[k] \in Entry /\ models'[k].status = "CHAMPION"
      /\ \A j \in Models \ {k} : models'[j] = models[j]
      /\ OnDisk(k)' = models'[k]
      /\ \A j \in Models \ {k} : OnDisk(j)' \in {OnDisk(j), Registry!NoMeta}
      /\ \A j \in Models \ {k} : FileOf[j] # FileOf[k] => OnDisk(j)' = OnDisk(j)
      /\ todo' = <<>> /\ failed' = failed
  BY <1>1, MetadataWritten, FirstOf DEF Registry!Statuses
<1>3. \A j : ~Registers(j)
  BY <1>1 DEF Registers, Registry!Given, Registry!Metadata, Registry!Artifact
<1>4. \A j \in Models \ {k} : models[j].status # "CHAMPION" /\ OnDisk(j).status # "CHAMPION"
  BY <1>1, <1>3 DEF OneEach, OneKnown, Registry!Champions
<1>5. OneEach'
  BY <1>2, <1>4 DEF OneEach, OneKnown, Registry!NoMeta
<1>6. \A j : Pending(j) => j = k
  BY <1>1 DEF Pending, Registry!Metadata
<1>7. Agreed'
  BY <1>2, <1>6 DEF Agreed, Registry!Alone
<1>8. Planned'
  BY <1>2 DEF Planned
<1>9. Backed'
  BY <1>2, PlanReads DEF Backed, Crowns, Replaces
<1> QED
  BY <1>2, <1>5, <1>7, <1>8, <1>9

(* The old champion is archived; the new one is next.                       *)
LEMMA ArchiveKeeps ==
  ASSUME RegistryInv, ~failed, NEW k \in Models, models[k] \in Entry, NEW c \in Models, Replaces(c, k), Registry!WriteMetadata
  PROVE  RegistryInv'
<1> USE DEF RegistryInv
<1>1. /\ c # k /\ Registry!Champions = {c} /\ models[c] \in Entry
      /\ todo = <<Registry!Metadata(c, "ARCHIVED"), Registry!Metadata(k, "CHAMPION")>>
  BY DEF Replaces
<1>2. /\ RegistryTypes'
      /\ models'[c] \in Entry /\ models'[c].status = "ARCHIVED"
      /\ \A j \in Models \ {c} : models'[j] = models[j]
      /\ OnDisk(c)' = models'[c]
      /\ \A j \in Models \ {c} : OnDisk(j)' \in {OnDisk(j), Registry!NoMeta}
      /\ \A j \in Models \ {c} : FileOf[j] # FileOf[c] => OnDisk(j)' = OnDisk(j)
      /\ todo' = <<Registry!Metadata(k, "CHAMPION")>> /\ failed' = failed /\ artifacts' = artifacts
  BY <1>1, MetadataWritten, FirstOf DEF Registry!Statuses
<1>3. \A j : ~Registers(j)
  BY <1>1 DEF Registers, Registry!Given, Registry!Metadata, Registry!Artifact
<1>4. \A j \in Models \ {c} : models[j].status # "CHAMPION" /\ OnDisk(j).status # "CHAMPION"
  BY <1>1, <1>3 DEF OneEach, OneKnown, Registry!Champions
<1>5. \A j \in Models : models'[j].status # "CHAMPION" /\ OnDisk(j)'.status # "CHAMPION"
  BY <1>2, <1>4 DEF Registry!NoMeta
<1>6. OneEach'
  BY <1>5 DEF OneEach, OneKnown
<1>7. Crowns(k)'
  BY <1>2, <1>5 DEF Crowns, Registry!Champions
<1>8. Planned'
  BY <1>1, <1>2, <1>7 DEF Planned
<1>9. Pending(k)' /\ \A j : Pending(j) => j \in {c, k}
  <2>1. Len(todo) = 2 /\ todo[1].key = c /\ todo[2].key = k
    BY <1>1 DEF Registry!Metadata
  <2> QED
    BY <1>2, <2>1 DEF Pending, Registry!Metadata
<1>10. Agreed'
  BY <1>2, <1>9 DEF Agreed, Registry!Alone
<1>11. ASSUME NEW j \in Models, Crowns(j)' \/ \E d \in Models : Replaces(d, j)' PROVE j = k
  BY <1>2, <1>11 DEF Crowns, Replaces, Registry!Metadata
<1>12. Registry!Alone(k) => OnDisk(k).good /\ Registry!Intact(k, OnDisk(k)) /\ OnDisk(k)' = OnDisk(k)
  BY <1>1, <1>2 DEF Backed, Registry!Alone
<1>13. Backed'
  BY <1>2, <1>11, <1>12 DEF Backed, Registry!Intact, Registry!Alone
<1> QED
  BY <1>2, <1>6, <1>8, <1>10, <1>13

(* The process dies and reads the directory: memory is the disk.            *)
LEMMA RegistryReloads ==
  ASSUME RegistryInv, ~failed, NEW torn \in BOOLEAN, Registry!Crash(torn)
  PROVE  RegistryInv'
<1> USE DEF RegistryInv
<1>1. /\ \/ disk' = disk
         \/ \E f : disk' = [disk EXCEPT ![f] = Registry!NoFile]
      /\ \/ artifacts' = artifacts
         \/ \E f : artifacts' = [artifacts EXCEPT ![f] = 0]
      /\ models' = Registry!Loaded(disk') /\ todo' = <<>> /\ fits' = fits /\ failed' = failed
  BY DEF Registry!Crash
<1>2. artifacts' \in [Registry!Files -> Nat]
  BY <1>1 DEF RegistryTypes
<1>3. /\ disk' \in [Registry!Files -> {Registry!NoFile} \cup [key : Models, meta : Entry]]
      /\ \A f \in Registry!Files : disk'[f] \in {disk[f], Registry!NoFile}
  BY <1>1 DEF RegistryTypes
<1>4. \A j \in Models : FileOf[j] \in Registry!Files
  BY DEF Registry!Files
<1>5. ASSUME NEW j \in Models
      PROVE  /\ models'[j] = OnDisk(j)' /\ OnDisk(j)' \in {OnDisk(j), Registry!NoMeta}
             /\ OnDisk(j)' \in Entry \cup {Registry!NoMeta}
  <2>1. models'[j] = OnDisk(j)'
    BY <1>1 DEF OnDisk
  <2>2. OnDisk(j)' = IF disk'[FileOf[j]].key = j THEN disk'[FileOf[j]].meta ELSE Registry!NoMeta
    BY DEF OnDisk, Registry!Loaded, Registry!NoMeta
  <2>3. /\ OnDisk(j) = IF disk[FileOf[j]].key = j THEN disk[FileOf[j]].meta ELSE Registry!NoMeta
        /\ OnDisk(j) \in Entry \cup {Registry!NoMeta}
    BY LoadedTypes
  <2>4. Registry!NoFile.meta = Registry!NoMeta
    BY DEF Registry!NoFile
  <2> QED
    BY <1>3, <1>4, <2>1, <2>2, <2>3, <2>4
<1>6. models' \in [Models -> Entry \cup {Registry!NoMeta}]
  <2>1. models' = [k \in Models |-> OnDisk(k)']
    BY <1>1 DEF OnDisk, Registry!Loaded, Registry!NoMeta
  <2> QED
    BY <1>5, <2>1
<1>7. RegistryTypes'
  BY <1>1, <1>2, <1>3, <1>6 DEF RegistryTypes
<1>8. OneEach'
  BY <1>5 DEF OneEach, OneKnown, Registry!NoMeta
<1>9. Agreed'
  BY <1>5 DEF Agreed
<1>10. Planned'
  BY <1>1 DEF Planned
<1>11. Backed'
  BY <1>1, PlanReads DEF Backed, Crowns, Replaces
<1> QED
  BY <1>7, <1>8, <1>9, <1>10, <1>11

(* Every step of the registry.                                              *)
LEMMA RegistryStays ==
  ASSUME RegistryInv, [Registry!Next]_(Registry!vars)
  PROVE  RegistryInv'
<1>1. CASE UNCHANGED Registry!vars
  BY <1>1 DEF Registry!vars, RegistryInv, RegistryTypes, Planned, OneEach, OneKnown, Agreed, Backed, Registers, Challenges, Crowns, Replaces,
     Pending, OnDisk, Registry!Loaded, Registry!Champions, Registry!Alone, Registry!Intact
<1>2. CASE failed /\ Registry!Next
  BY <1>2 DEF RegistryInv, Registry!Next, Registry!Register, Registry!RegisterUnfitted, Registry!PromoteToChampion,
     Registry!PromoteToChallenger, Registry!WriteArtifact, Registry!WriteMetadata, Registry!WriteFails, Registry!Crash
<1>3. ASSUME ~failed, Registry!WriteMetadata PROVE RegistryInv'
  <2>1. PICK k \in Models : models[k] \in Entry /\ (Registers(k) \/ Challenges(k) \/ Crowns(k) \/ \E c \in Models : Replaces(c, k))
    BY <1>3 DEF RegistryInv, Planned, Registry!WriteMetadata
  <2>2. Head(todo).file = "metadata"
    BY <1>3 DEF Registry!WriteMetadata
  <2>3. \A b : todo # <<Registry!Artifact(k), b>>
    BY <2>2, FirstOf DEF Registry!Artifact
  <2> QED
    BY <1>3, <2>1, <2>3, LowerStatusKeeps, CrownKeeps, ArchiveKeeps DEF Registers, Registry!Given, Challenges
<1>4. CASE ~failed /\ Registry!Next
  <2>1. ASSUME NEW k \in Models, NEW given \in Registry!Given, NEW good \in BOOLEAN,
               Registry!RegisterUnfitted(k, given, good)
        PROVE  RegistryInv'
    BY <2>1 DEF Registry!RegisterUnfitted, RegistryInv
  <2>2. ASSUME NEW torn \in BOOLEAN, Registry!WriteFails(torn) PROVE RegistryInv'
    BY <2>2 DEF Registry!WriteFails, RegistryInv
  <2> QED
    BY <1>3, <1>4, <2>1, <2>2, RegisterKeeps, ChampionKeeps, ChallengerKeeps, ArtifactKeeps, RegistryReloads DEF Registry!Next
<1> QED
  BY <1>1, <1>2, <1>4

-----------------------------------------------------------------------------
(* What memory keeps through failed writes. *)

(* A status is set: the model at the head of the plan changes.              *)
LEMMA StatusSet ==
  ASSUME models \in [Models -> Entry \cup {Registry!NoMeta}], NEW k \in Models, models[k] \in Entry,
         NEW s \in Registry!Statuses, models' = [models EXCEPT ![k].status = s],
         OneKnown, s = "CHAMPION" => Registry!Champions \subseteq {k}
  PROVE  /\ models' \in [Models -> Entry \cup {Registry!NoMeta}] /\ OneKnown'
         /\ \A j \in Models : models[j] \in Entry => models'[j] \in Entry
         /\ models'[k].status = s /\ \A j \in Models \ {k} : models'[j] = models[j]
<1> DEFINE new == [models[k] EXCEPT !.status = s]
<1>1. new \in Entry /\ new.status = s
  BY DEF Entry
<1>2. models' = [models EXCEPT ![k] = new]
  OBVIOUS
<1> HIDE DEF new
<1>3. models'[k] = new /\ \A j \in Models \ {k} : models'[j] = models[j]
  BY <1>2
<1>4. OneKnown'
  BY <1>1, <1>3 DEF OneKnown, Registry!Champions
<1> QED
  BY <1>1, <1>2, <1>3, <1>4

(* The status at the head of a plan is set, written or not; what is left of *)
(* the plan, when it goes on, is a plan.                                    *)
LEMMA PlanAdvances ==
  ASSUME models \in [Models -> Entry \cup {Registry!NoMeta}], Planned, OneKnown,
         todo # <<>>, Head(todo).file = "metadata", Registry!SetStatus(Head(todo))
  PROVE  /\ models' \in [Models -> Entry \cup {Registry!NoMeta}] /\ OneKnown'
         /\ todo' = Tail(todo) => Planned'
<1>1. PICK k \in Models : models[k] \in Entry /\ (Registers(k) \/ Challenges(k) \/ Crowns(k) \/ \E c \in Models : Replaces(c, k))
  BY DEF Planned
<1>2. \A b : todo # <<Registry!Artifact(k), b>>
  BY FirstOf DEF Registry!Artifact
<1>3. CASE \E s \in {"CANDIDATE", "CHALLENGER"} : todo = <<Registry!Metadata(k, s)>>
  <2>1. PICK s \in {"CANDIDATE", "CHALLENGER"} : todo = <<Registry!Metadata(k, s)>>
    BY <1>3
  <2>2. Head(todo).key = k /\ Head(todo).status = s /\ Tail(todo) = <<>>
    BY <2>1, FirstOf DEF Registry!Metadata
  <2>3. models' = [models EXCEPT ![k].status = s] /\ s \in Registry!Statuses
    BY <2>2 DEF Registry!SetStatus, Registry!Statuses
  <2> QED
    BY <1>1, <2>2, <2>3, StatusSet DEF Planned
<1>4. CASE Crowns(k)
  <2>1. Head(todo).key = k /\ Head(todo).status = "CHAMPION" /\ Tail(todo) = <<>>
    BY <1>4, FirstOf DEF Crowns, Registry!Metadata
  <2>2. models' = [models EXCEPT ![k].status = "CHAMPION"] /\ "CHAMPION" \in Registry!Statuses
    BY <2>1 DEF Registry!SetStatus, Registry!Statuses
  <2>3. Registry!Champions \subseteq {k}
    BY <1>4 DEF Crowns
  <2> QED
    BY <1>1, <2>1, <2>2, <2>3, StatusSet DEF Planned
<1>5. CASE \E c \in Models : Replaces(c, k)
  <2>1. PICK c \in Models : /\ c # k /\ Registry!Champions = {c} /\ models[c] \in Entry
                           /\ todo = <<Registry!Metadata(c, "ARCHIVED"), Registry!Metadata(k, "CHAMPION")>>
    BY <1>5 DEF Replaces
  <2>2. Head(todo).key = c /\ Head(todo).status = "ARCHIVED" /\ Tail(todo) = <<Registry!Metadata(k, "CHAMPION")>>
    BY <2>1, FirstOf DEF Registry!Metadata
  <2>3. models' = [models EXCEPT ![c].status = "ARCHIVED"] /\ "ARCHIVED" \in Registry!Statuses
    BY <2>2 DEF Registry!SetStatus, Registry!Statuses
  <2>4. /\ models' \in [Models -> Entry \cup {Registry!NoMeta}] /\ OneKnown'
        /\ models'[k] \in Entry
        /\ models'[c].status = "ARCHIVED" /\ \A j \in Models \ {c} : models'[j] = models[j]
    BY <1>1, <2>1, <2>3, StatusSet
  <2>5. Registry!Champions' = {}
    BY <2>1, <2>4 DEF Registry!Champions
  <2>6. todo' = Tail(todo) => Crowns(k)'
    BY <2>2, <2>5 DEF Crowns
  <2> QED
    BY <2>4, <2>6 DEF Planned
<1> QED
  BY <1>1, <1>2, <1>3, <1>4, <1>5 DEF Registers, Registry!Given, Challenges

(* The head of a plan is a write.                                           *)
LEMMA HeadIsWrite ==
  ASSUME Planned, todo # <<>>
  PROVE  Head(todo).file \in {"artifact", "metadata"}
<1>1. PICK k \in Models : Registers(k) \/ Challenges(k) \/ Crowns(k) \/ \E c \in Models : Replaces(c, k)
  BY DEF Planned
<1>2. \A s, b : /\ Head(<<Registry!Artifact(k), b>>).file = "artifact"
              /\ Head(<<Registry!Metadata(k, s)>>).file = "metadata"
  BY FirstOf DEF Registry!Artifact, Registry!Metadata
<1>3. \A c, b : Head(<<Registry!Metadata(c, "ARCHIVED"), b>>).file = "metadata"
  BY FirstOf DEF Registry!Metadata
<1> QED
  BY <1>1, <1>2, <1>3 DEF Registers, Challenges, Crowns, Replaces

(* A model is registered in memory, with what is to be written, or nothing. *)
LEMMA KnownAtOnce ==
  ASSUME models \in [Models -> Entry \cup {Registry!NoMeta}], OneKnown, NEW k \in Models, NEW good \in BOOLEAN,
         NEW given \in Registry!Given, models' = [models EXCEPT ![k] = [status |-> given, good |-> good, sha |-> 0]]
  PROVE  models' \in [Models -> Entry \cup {Registry!NoMeta}] /\ OneKnown' /\ models'[k] \in Entry
<1> DEFINE new == [status |-> given, good |-> good, sha |-> 0]
<1>1. new \in Entry /\ new.status # "CHAMPION"
  BY DEF Entry, Registry!Statuses, Registry!Given
<1> HIDE DEF new
<1>2. models'[k] = new /\ \A j \in Models \ {k} : models'[j] = models[j]
  BY DEF new
<1> QED
  BY <1>1, <1>2 DEF OneKnown, new

(* An operation begins on a memory that does not change yet.                *)
LEMMA PlanBegins ==
  ASSUME MemoryInv, ~restarted, NEW k \in Models, Registry!PromoteToChampion(k) \/ Registry!PromoteToChallenger(k)
  PROVE  MemoryInv'
<1>1. UNCHANGED <<models, fits, restarted>>
  BY DEF Registry!PromoteToChampion, Registry!PromoteToChallenger
<1>2. models'[k] \in Entry /\ Registry!Champions' = Registry!Champions
  BY <1>1 DEF MemoryInv, Registry!PromoteToChampion, Registry!PromoteToChallenger, Registry!Valid, Registry!Known, Registry!Champions
<1>3. OneKnown'
  BY <1>1 DEF MemoryInv, OneKnown
<1>4. Challenges(k)' \/ Crowns(k)' \/ \E c \in Models : Replaces(c, k)'
  <2>1. CASE Registry!PromoteToChampion(k)
    <3>1. todo' = Registry!Promotion(k)
      BY <2>1 DEF Registry!PromoteToChampion, Registry!Begins
    <3>2. \A c \in Models : Registry!Champions = {c} => models[c] \in Entry
      BY DEF MemoryInv, Registry!Champions, Registry!NoMeta
    <3> QED
      BY <1>1, <1>2, <3>1, <3>2, PromotionWrites DEF MemoryInv, Crowns, Replaces
  <2>2. CASE Registry!PromoteToChallenger(k)
    BY <2>2 DEF Registry!PromoteToChallenger, Registry!Begins, Challenges
  <2> QED
    BY <2>1, <2>2
<1>5. Planned'
  BY <1>2, <1>4 DEF Planned
<1> QED
  BY <1>1, <1>3, <1>5 DEF MemoryInv

(* An artifact is written: only a checksum is new.                          *)
LEMMA ChecksumKnown ==
  ASSUME MemoryInv, ~restarted, Registry!WriteArtifact
  PROVE  MemoryInv'
<1>1. PICK k \in Models, s \in Registry!Given :
        models[k] \in Entry /\ todo = <<Registry!Artifact(k), Registry!Metadata(k, s)>>
  <2>1. PICK k \in Models : models[k] \in Entry /\ (Registers(k) \/ Challenges(k) \/ Crowns(k) \/ \E c \in Models : Replaces(c, k))
    BY DEF MemoryInv, Planned, Registry!WriteArtifact
  <2>2. Head(todo).file = "artifact"
    BY DEF Registry!WriteArtifact
  <2>3. \A s : todo # <<Registry!Metadata(k, s)>>
    BY <2>2, FirstOf DEF Registry!Metadata
  <2>4. \A c, b : todo # <<Registry!Metadata(c, "ARCHIVED"), b>>
    BY <2>2, FirstOf DEF Registry!Metadata
  <2> QED
    BY <2>1, <2>3, <2>4 DEF Registers, Challenges, Crowns, Replaces
<1>2. Head(todo).key = k /\ Tail(todo) = <<Registry!Metadata(k, s)>>
  BY <1>1, FirstOf DEF Registry!Artifact
<1>3. fits' = fits + 1 /\ models' = [models EXCEPT ![k].sha = fits'] /\ todo' = Tail(todo) /\ restarted' = restarted
  BY <1>2 DEF Registry!WriteArtifact
<1> DEFINE new == [models[k] EXCEPT !.sha = fits']
<1>4. fits' \in Nat
  BY <1>3 DEF MemoryInv
<1>5. new \in Entry /\ new.status = models[k].status
  BY <1>1, <1>4 DEF Entry
<1>6. models' = [models EXCEPT ![k] = new]
  BY <1>3
<1> HIDE DEF new
<1>7. /\ models' \in [Models -> Entry \cup {Registry!NoMeta}] /\ models'[k] \in Entry
      /\ \A j \in Models : models'[j].status = models[j].status
  BY <1>5, <1>6 DEF MemoryInv
<1>8. Registers(k)'
  BY <1>2, <1>3 DEF Registers
<1>9. OneKnown' /\ Planned'
  BY <1>7, <1>8 DEF MemoryInv, OneKnown, Planned
<1> QED
  BY <1>3, <1>4, <1>7, <1>9 DEF MemoryInv

(* Every step keeps memory's part, until the process dies after a failure.  *)
LEMMA MemoryStays ==
  ASSUME MemoryInv, RegistryInv', [Registry!Next]_(Registry!vars)
  PROVE  MemoryInv'
<1>1. CASE ~failed'
  BY <1>1 DEF RegistryInv, MemoryInv, RegistryTypes, OneEach
<1>2. CASE UNCHANGED Registry!vars
  BY <1>2 DEF Registry!vars, MemoryInv, Planned, OneKnown, Registers, Challenges, Crowns, Replaces, Registry!Champions
<1>3. CASE restarted'
  BY <1>3 DEF MemoryInv
<1>4. CASE failed' /\ ~restarted' /\ Registry!Next
  <2>1. \A torn \in BOOLEAN : ~Registry!Crash(torn)
    <3>1. ASSUME NEW torn \in BOOLEAN, Registry!Crash(torn) PROVE failed' = failed /\ restarted' = (restarted \/ failed)
      BY <3>1 DEF Registry!Crash
    <3> QED
      BY <1>4, <3>1, Zenon
  <2>2. ~restarted
    BY <1>4, <2>1 DEF Registry!Next, Registry!Register, Registry!RegisterUnfitted, Registry!PromoteToChampion,
       Registry!PromoteToChallenger, Registry!WriteArtifact, Registry!WriteMetadata, Registry!WriteFails
  <2>3. models \in [Models -> Entry \cup {Registry!NoMeta}] /\ fits \in Nat /\ Planned /\ OneKnown
    BY <2>2 DEF MemoryInv
  <2>4. ASSUME NEW k \in Models, NEW given \in Registry!Given, NEW good \in BOOLEAN, NEW trained \in BOOLEAN,
               Registry!Register(k, given, good, trained)
        PROVE  MemoryInv'
    <3>1. /\ models' = [models EXCEPT ![k] = [status |-> given, good |-> good, sha |-> 0]] /\ fits' = fits
          /\ todo' = (IF trained THEN <<Registry!Artifact(k)>> ELSE <<>>) \o <<Registry!Metadata(k, given)>>
      BY <2>4 DEF Registry!Register, Registry!Begins
    <3>2. Registers(k)'
      BY <3>1, TwoWrites DEF Registers
    <3> QED
      BY <2>3, <3>1, <3>2, KnownAtOnce DEF MemoryInv, Planned
  <2>5. ASSUME NEW k \in Models, NEW given \in Registry!Given, NEW good \in BOOLEAN,
               Registry!RegisterUnfitted(k, given, good)
        PROVE  MemoryInv'
    <3>1. /\ models' = [models EXCEPT ![k] = [status |-> given, good |-> good, sha |-> 0]] /\ fits' = fits
          /\ todo' = <<>>
      BY <2>5 DEF Registry!RegisterUnfitted, Registry!Begins
    <3> QED
      BY <2>3, <3>1, KnownAtOnce DEF MemoryInv, Planned
  <2>6. ASSUME Registry!WriteMetadata PROVE MemoryInv'
    BY <2>3, <2>6, PlanAdvances DEF Registry!WriteMetadata, MemoryInv
  <2>7. ASSUME NEW torn \in BOOLEAN, Registry!WriteFails(torn) PROVE MemoryInv'
    <3>1. todo # <<>> /\ todo' = <<>> /\ fits' = fits
      BY <2>7 DEF Registry!WriteFails
    <3>2. models' = models \/ (Head(todo).file = "metadata" /\ Registry!SetStatus(Head(todo)))
      <4>1. Head(todo).file \in {"artifact", "metadata"}
        BY <2>3, <3>1, HeadIsWrite
      <4> QED
        BY <2>7, <4>1 DEF Registry!WriteFails
    <3>3. CASE models' = models
      BY <2>3, <3>1, <3>3 DEF MemoryInv, Planned, OneKnown
    <3>4. CASE Head(todo).file = "metadata" /\ Registry!SetStatus(Head(todo))
      BY <2>3, <3>1, <3>4, PlanAdvances DEF MemoryInv, Planned
    <3> QED
      BY <3>2, <3>3, <3>4
  <2> QED
    BY <1>4, <2>1, <2>2, <2>4, <2>5, <2>6, <2>7, PlanBegins, ChecksumKnown DEF Registry!Next
<1> QED
  BY <1>1, <1>2, <1>3, <1>4

(* ModelRegistry: memory has one champion at most, wherever the process     *)
(* dies and whatever write fails, until it dies after a failed write; until *)
(* a write has failed, so has the directory, a promotion that is cut short  *)
(* can be repeated from it, and between operations it is the memory, but    *)
(* for models whose names map to one file.                                  *)
THEOREM RegistryGoverned == DeskSpec => []RegistrySound
<1> DEFINE Inv == part = "registry" => RegistryInv /\ MemoryInv
<1>1. DeskInit => Inv
  <2>1. ASSUME Registry!Init PROVE MemoryInv
    BY <2>1 DEF Registry!Init, MemoryInv, Planned, OneKnown, Registry!NoMeta
  <2> QED
    BY <2>1, RegistryAlone, RegistryBegins
<1>2. Inv /\ [DeskNext]_desk => Inv'
  BY RegistryAlone, RegistryStays, MemoryStays
<1>3. Inv => RegistrySound
  BY RegistryIsSound DEF RegistrySound
<1> QED
  BY <1>1, <1>2, <1>3, PTL DEF DeskSpec

-----------------------------------------------------------------------------
(* The daily sessions: what an account holds and what is known of it.       *)

Directions == {"flat", "long", "short"}
Belief == [holding : BOOLEAN, dir : Directions, age : Int, entry : Int,
           high : Int, low : Int, floor : Int, ceiling : Int]

\* The strategy believes what the account holds.
Knows(b, qty) ==
  /\ b.holding <=> qty # 0
  /\ b.holding => (Session!Long(market.profile, b) <=> qty > 0)

Lowest == IF market.profile.shorts THEN -Lot ELSE 0

SessionTypes ==
  /\ market \in Markets
  /\ account \in Int /\ saved \in Int /\ book \in Int /\ late \in Int /\ carried \in Int
  /\ working \in [BUY : Nat, SELL : Nat]
  /\ belief \in Belief
  /\ feed \in Seq(Closes)
  /\ stage \in {"off", "synced", "processed"}
  /\ ~market.alpaca => working = Session!NoOrders

\* With what still works, the account stays within one entry, and so does the file.
OneEntry ==
  /\ ~overlap => account + working.BUY <= Lot /\ account - working.SELL >= Lowest
  /\ ~market.alpaca => saved <= Lot /\ saved >= Lowest /\ ~overlap

\* Before the bar nothing works and the strategy knows the account.
BeforeBar ==
  stage = "synced" /\ ~overlap => working = Session!NoOrders /\ late = 0 /\ Knows(belief, account)

\* After it only the session's own order works, so late fills are of one side.
AfterBar ==
  stage = "processed" /\ ~overlap =>
    /\ working.BUY = 0 \/ working.SELL = 0
    /\ late > 0 => working.SELL = 0
    /\ late < 0 => working.BUY = 0
    /\ late = 0 /\ ~(verdict.partly /\ verdict.action = "SELL") => Knows(belief, account)

BookKept == stage # "off" => book = account - carried - late

SessionInv == SessionTypes /\ OneEntry /\ BeforeBar /\ AfterBar /\ BookKept

(* Only its own steps change a component.                                   *)
LEMMA SessionAlone ==
  /\ DeskInit /\ part = "session" => Session!Init
  /\ [DeskNext]_desk /\ part' = "session" => part = "session" /\ [Session!Next]_(Session!vars)
<1>1. DeskInit /\ part = "session" => Session!Init
  BY DEF DeskInit, PartInit
<1>2. ASSUME DeskNext, part' = "session" PROVE part = "session" /\ Session!Next
  BY <1>2 DEF DeskNext, SessionRuns, ConsoleRuns, RegistryRuns, TradeRuns, RobotRuns, IndicatorsRun, TrainingRuns, ReplayRuns
<1>3. ASSUME UNCHANGED desk, part' = "session" PROVE part = "session" /\ UNCHANGED Session!vars
  BY <1>3 DEF desk, session, Session!vars, Session!session
<1> QED
  BY <1>1, <1>2, <1>3

(* The invariant is what the run checks.                                    *)
LEMMA SessionIsSound ==
  ASSUME SessionInv
  PROVE  Session!OnePosition /\ Session!SessionKnows
<1> USE DEF SessionInv
<1>1. Session!OnePosition
  BY DEF OneEntry, Lowest, Session!OnePosition
<1>2. ASSUME stage # "off", ~overlap, late = 0, ~(verdict.partly /\ verdict.action = "SELL")
      PROVE  /\ belief.holding = (account # 0)
             /\ belief.holding => Session!Long(market.profile, belief) = (account > 0)
  <2>1. Knows(belief, account)
    BY <1>2 DEF SessionTypes, BeforeBar, AfterBar
  <2>2. belief.holding \in BOOLEAN /\ account \in Int
    BY DEF SessionTypes, Belief
  <2>3. Session!Long(market.profile, belief) \in BOOLEAN
    BY DEF Session!Long
  <2> QED
    BY <2>1, <2>2, <2>3 DEF Knows
<1> QED
  BY <1>1, <1>2 DEF BookKept, Session!SessionKnows

(* An empty account.                                                        *)
LEMMA SessionBegins ==
  ASSUME Session!Init
  PROVE  SessionInv
<1>1. /\ market \in Markets /\ feed = <<>> /\ stage = "off" /\ account = 0 /\ saved = 0 /\ working = Session!NoOrders
      /\ belief = Session!NoBelief /\ book = 0 /\ overlap = FALSE /\ late = 0 /\ carried = 0
  BY DEF Session!Init
<1>2. belief \in Belief
  BY <1>1, SessionConstants DEF Belief, Directions, Session!NoBelief
<1>3. working \in [BUY : Nat, SELL : Nat] /\ working.BUY = 0 /\ working.SELL = 0
  BY <1>1 DEF Session!NoOrders
<1>4. SessionTypes
  BY <1>1, <1>2, <1>3, EmptySeq DEF SessionTypes
<1>5. OneEntry
  BY <1>1, <1>3, SessionConstants DEF OneEntry, Lowest
<1> QED
  BY <1>1, <1>4, <1>5 DEF SessionInv, BeforeBar, AfterBar, BookKept

-----------------------------------------------------------------------------
(* What a strategy makes of a belief. *)


\* The same position in another belief.
Same(b, c) == c \in Belief /\ c.holding = b.holding /\ c.dir = b.dir

(* A price or an age changes neither what is held nor the direction.        *)
LEMMA BeliefField ==
  ASSUME NEW b \in Belief, NEW x \in Int, NEW y \in Int
  PROVE  /\ Same(b, [b EXCEPT !.age = x]) /\ Same(b, [b EXCEPT !.entry = x])
         /\ Same(b, [b EXCEPT !.high = x]) /\ Same(b, [b EXCEPT !.low = x])
         /\ Same(b, [b EXCEPT !.high = x, !.floor = y]) /\ Same(b, [b EXCEPT !.low = x, !.ceiling = y])
<1>1. /\ Same(b, [b EXCEPT !.age = x]) /\ Same(b, [b EXCEPT !.entry = x])
  BY DEF Belief, Same
<1>2. Same(b, [b EXCEPT !.high = x]) /\ Same(b, [b EXCEPT !.low = x])
  BY DEF Belief, Same
<1>3. Same(b, [b EXCEPT !.high = x, !.floor = y])
  BY DEF Belief, Same
<1>4. Same(b, [b EXCEPT !.low = x, !.ceiling = y])
  BY DEF Belief, Same
<1> QED
  BY <1>1, <1>2, <1>3, <1>4

(* Following the market keeps the position.                                 *)
LEMMA TrackedSame ==
  ASSUME NEW p, p.width \in Int, NEW b \in Belief, NEW close \in Int
  PROVE  Same(b, Session!Tracked(p, b, close, Atr))
<1>1. Same(b, b)
  BY DEF Same
<1>2. b.high \in Int /\ b.low \in Int /\ b.entry \in Int /\ b.floor \in Int /\ b.ceiling \in Int
  BY DEF Belief
<1>3. Same(b, Session!Trailed(p, b, close))
  BY <1>2, BeliefField DEF Session!Trailed, Session!Higher, Session!Lower
<1>4. Same(b, Session!Ratcheted(p, b, close, Atr))
  <2> DEFINE high == IF b.high = 0 THEN Session!Higher(Session!Anchor(b, close), close) ELSE Session!Higher(b.high, close)
             low == IF b.low = Far THEN Session!Lower(Session!Anchor(b, close), close) ELSE Session!Lower(b.low, close)
             span == p.width * Atr
  <2>1. high \in Int /\ low \in Int /\ span \in Int
    BY <1>2, SessionConstants DEF Session!Anchor, Session!Higher, Session!Lower
  <2>2. Session!Ratcheted(p, b, close, Atr) =
          IF Session!Long(p, b)
          THEN [b EXCEPT !.high = high, !.floor = Session!Higher(@, high - span)]
          ELSE [b EXCEPT !.low = low, !.ceiling = Session!Lower(@, low + span)]
    BY DEF Session!Ratcheted
  <2> HIDE DEF high, low, span
  <2>3. Session!Higher(b.floor, high - span) \in Int /\ Session!Lower(b.ceiling, low + span) \in Int
    BY <1>2, <2>1 DEF Session!Higher, Session!Lower
  <2> DEFINE raised == Session!Higher(b.floor, high - span)
             lowered == Session!Lower(b.ceiling, low + span)
  <2>4. Session!Ratcheted(p, b, close, Atr) =
          IF Session!Long(p, b) THEN [b EXCEPT !.high = high, !.floor = raised] ELSE [b EXCEPT !.low = low, !.ceiling = lowered]
    BY <2>2 DEF Belief
  <2> HIDE DEF raised, lowered
  <2>5. Same(b, [b EXCEPT !.high = high, !.floor = raised]) /\ Same(b, [b EXCEPT !.low = low, !.ceiling = lowered])
    BY <2>1, <2>3, BeliefField DEF raised, lowered
  <2> QED
    BY <2>4, <2>5
<1> QED
  BY <1>1, <1>3, <1>4 DEF Session!Tracked

(* The ways a belief is rewritten.                                          *)
Reopened(b, d, i) == [b EXCEPT !.holding = TRUE, !.dir = d, !.age = i]
Rewound(b, i, j) == [b EXCEPT !.high = i, !.low = j, !.floor = i, !.ceiling = j]
Turned(b, d) == [b EXCEPT !.dir = d]
Costed(b, d, i) == [b EXCEPT !.dir = d, !.entry = i]
Raised(b, d, i) == [b EXCEPT !.dir = d, !.high = i]
Lowered(b, d, i) == [b EXCEPT !.dir = d, !.low = i]

(* Opened or turned it is a belief, ...                                     *)
LEMMA RewrittenIs ==
  ASSUME NEW b \in Belief, NEW d \in Directions, NEW i \in Int
  PROVE  /\ Reopened(b, d, i) \in Belief /\ Reopened(b, d, i).holding /\ Reopened(b, d, i).dir = d
         /\ Turned(b, d) \in Belief /\ Turned(b, d).holding = b.holding
         /\ Costed(b, d, i) \in Belief /\ Costed(b, d, i).holding = b.holding
         /\ Raised(b, d, i) \in Belief /\ Raised(b, d, i).holding = b.holding
         /\ Lowered(b, d, i) \in Belief /\ Lowered(b, d, i).holding = b.holding
<1>1. Reopened(b, d, i) \in Belief /\ Reopened(b, d, i).holding /\ Reopened(b, d, i).dir = d
  BY DEF Belief, Reopened
<1>2. /\ Turned(b, d) \in Belief /\ Turned(b, d).holding = b.holding
      /\ Costed(b, d, i) \in Belief /\ Costed(b, d, i).holding = b.holding
      /\ Raised(b, d, i) \in Belief /\ Raised(b, d, i).holding = b.holding
      /\ Lowered(b, d, i) \in Belief /\ Lowered(b, d, i).holding = b.holding
  BY DEF Belief, Turned, Costed, Raised, Lowered
<1> QED
  BY <1>1, <1>2

(* ... and so it is when its extremes are forgotten.                        *)
LEMMA ForgottenIs ==
  ASSUME NEW b \in Belief, NEW i \in Int, NEW j \in Int
  PROVE  Same(b, Rewound(b, i, j))
BY DEF Belief, Rewound, Same

(* The beliefs a strategy makes of an account that is held.                 *)
LEMMA HeldIs ==
  ASSUME NEW b \in Belief, NEW i \in Int, NEW j \in Int
  PROVE  \A c \in {Rewound(b, i, j), [b EXCEPT !.high = i], [b EXCEPT !.low = j], b} : Same(b, c)
<1>1. Same(b, Rewound(b, i, j))
  BY ForgottenIs
<1>2. Same(b, [b EXCEPT !.high = i]) /\ Same(b, [b EXCEPT !.low = j])
  BY BeliefField
<1>3. Same(b, b)
  BY DEF Same
<1> QED
  BY <1>1, <1>2, <1>3

(* What a bar makes of a belief: an entry is signalled when nothing is held *)
(* and the exit of what is held otherwise.                                  *)
LEMMA BarAnswers ==
  ASSUME NEW p, p.width \in Int, NEW b \in Belief, NEW close \in Int, NEW sight,
         NEW a, a = Session!OnBar(p, b, close, Atr, sight)
  PROVE  /\ a.belief \in Belief /\ a.belief.holding = b.holding
         /\ b.holding => a.belief.dir = b.dir /\ a.action \in {"HOLD", Session!Closing(p, b)}
         /\ ~b.holding => \/ a.action \in {"HOLD", "BUY"}
                          \/ a.action = "SELL_SHORT" /\ p.shorts
<1>1. CASE b.holding
  <2> DEFINE aged == [b EXCEPT !.age = IF p.clock THEN @ + 1 ELSE 0]
             now == Session!Tracked(p, aged, close, Atr)
  <2>1. Same(b, aged)
    <3>1. (IF p.clock THEN b.age + 1 ELSE 0) \in Int
      BY DEF Belief
    <3> QED
      BY <3>1, BeliefField
  <2>2. a = Session!Answer(now, IF Session!Expired(p, now) \/ Session!StopHit(p, now, close) \/ (p.leaves /\ sight = "out")
                                THEN Session!Closing(p, now) ELSE "HOLD")
    BY <1>1 DEF Session!OnBar
  <2> HIDE DEF aged
  <2>3. now \in Belief /\ now.holding = b.holding /\ now.dir = b.dir
    BY <2>1, TrackedSame DEF Same
  <2> HIDE DEF now
  <2>4. a.belief = now /\ a.action \in {"HOLD", Session!Closing(p, now)}
    BY <2>2 DEF Session!Answer
  <2> QED
    BY <1>1, <2>3, <2>4 DEF Session!Closing, Session!Long
<1>2. CASE ~b.holding
  <2> DEFINE N(dir) == Session!Noted(p, b, dir, close)
  <2>1. ASSUME NEW dir \in {"long", "short"} PROVE N(dir) \in Belief /\ N(dir).holding = b.holding
    <3>1. \/ N(dir) = Costed(b, dir, close) \/ N(dir) = Raised(b, dir, close)
          \/ N(dir) = Lowered(b, dir, close) \/ N(dir) = Turned(b, dir)
      BY <2>1 DEF Session!Noted, Costed, Raised, Lowered, Turned
    <3> HIDE DEF N
    <3> QED
      BY <2>1, <3>1, RewrittenIs DEF Directions
  <2> HIDE DEF N
  <2>2. a = CASE sight = "up" -> Session!Answer(N("long"), "BUY")
              [] sight = "down" /\ p.shorts -> Session!Answer(N("short"), "SELL_SHORT")
              [] OTHER -> Session!Answer(b, "HOLD")
    BY <1>2 DEF Session!OnBar, N
  <2>3. CASE sight = "up"
    <3>1. a = Session!Answer(N("long"), "BUY")
      BY <2>2, <2>3
    <3> QED
      BY <1>2, <2>1, <3>1 DEF Session!Answer
  <2>4. CASE sight = "down" /\ p.shorts
    <3>1. a = Session!Answer(N("short"), "SELL_SHORT")
      BY <2>2, <2>4
    <3> QED
      BY <1>2, <2>1, <2>4, <3>1 DEF Session!Answer
  <2>5. CASE sight # "up" /\ ~(sight = "down" /\ p.shorts)
    <3>1. a = Session!Answer(b, "HOLD")
      BY <2>2, <2>5
    <3> QED
      BY <1>2, <3>1 DEF Session!Answer
  <2> QED
    BY <2>3, <2>4, <2>5
<1> QED
  BY <1>1, <1>2 DEF Belief

(* What a fill makes of it.                                                 *)
LEMMA FillBelieved ==
  ASSUME NEW p, NEW b \in Belief, NEW close \in Int,
         NEW side \in {"BUY", "SELL", "SELL_SHORT", "BUY_TO_COVER"},
         NEW c, c = Session!OnOrderFill(p, b, side, close)
  PROVE  /\ c \in Belief
         /\ side = "BUY" => c.holding /\ c.dir = "long"
         /\ side = "SELL_SHORT" /\ p.shorts => c.holding /\ c.dir = "short"
         /\ side = "SELL" \/ (side = "BUY_TO_COVER" /\ p.shorts) => ~c.holding
<1> DEFINE d == Session!Direction(side, b.dir)
           o == Reopened(b, d, 0)
           e == IF close > 0 THEN close ELSE o.entry
           n == [o EXCEPT !.entry = e]
           u == Rewound(n, 0, Far)
<1>1. c = Session!NoBelief \/ c = Session!Entered(p, b, side, close)
  BY DEF Session!OnOrderFill, Session!Flattened
<1>2. /\ side \in {"BUY", "SELL_SHORT"} /\ (side = "SELL_SHORT" => p.shorts) => c = Session!Entered(p, b, side, close)
      /\ side = "SELL" \/ (side = "BUY_TO_COVER" /\ p.shorts) => c = Session!NoBelief
  BY DEF Session!OnOrderFill, Session!Flattened, Session!Entries
<1>3. Session!NoBelief \in Belief /\ ~Session!NoBelief.holding
  BY SessionConstants DEF Session!NoBelief, Belief, Directions
<1>4. d \in Directions /\ (side = "BUY" => d = "long") /\ (side = "SELL_SHORT" => d = "short")
  BY DEF Belief, Directions, Session!Direction
<1>5. o = Session!Opened(b, side) /\ n = Session!Anchored(o, close) /\ u = Session!Unratcheted(n)
  BY DEF Reopened, Rewound, Session!Opened, Session!Anchored, Session!Unratcheted
<1>6. Session!Entered(p, b, side, close) \in {u, n, o}
  BY <1>5 DEF Session!Entered
<1> HIDE DEF d
<1>7. o \in Belief /\ o.holding /\ o.dir = d
  BY <1>4, RewrittenIs
<1> HIDE DEF o
<1>8. e \in Int
  BY <1>7 DEF Belief
<1> HIDE DEF e
<1>9. n \in Belief /\ n.holding /\ n.dir = d
  BY <1>7, <1>8, BeliefField DEF Same
<1> HIDE DEF n
<1>10. u \in Belief /\ u.holding /\ u.dir = d
  <2>1. 0 \in Int /\ Far \in Int
    BY SessionConstants
  <2>2. Same(n, u)
    BY <1>9, <2>1, ForgottenIs
  <2> HIDE DEF u
  <2> QED
    BY <1>9, <2>2 DEF Same
<1> QED
  BY <1>1, <1>2, <1>3, <1>4, <1>6, <1>7, <1>9, <1>10

-----------------------------------------------------------------------------
(* Steps of a session. *)

(* What the strategy is told of an account that is within its bounds.       *)
LEMMA ToldKnows ==
  ASSUME SessionTypes, account >= Lowest, NEW b, b = Session!Told(account)
  PROVE  b \in Belief /\ Knows(b, account)
<1> DEFINE d == IF account > 0 THEN "long" ELSE "short"
           taken == Reopened(Session!NoBelief, d, 0)
<1>1. Session!NoBelief \in Belief /\ ~Session!NoBelief.holding
  BY SessionConstants DEF Session!NoBelief, Belief, Directions
<1>2. account \in Int /\ (~market.profile.shorts => account >= 0)
  BY DEF SessionTypes, Lowest
<1>3. \/ account = 0 /\ b = Session!NoBelief
      \/ account # 0 /\ b \in {Rewound(taken, 0, Far), [taken EXCEPT !.high = 0], [taken EXCEPT !.low = Far], taken}
  BY <1>2 DEF Session!Told, Session!Synced, Session!Flattened, Session!Unratcheted, Reopened, Rewound
<1>4. d \in Directions
  BY DEF Directions
<1> HIDE DEF d
<1>5. taken \in Belief /\ taken.holding /\ taken.dir = d
  BY <1>1, <1>4, RewrittenIs
<1> HIDE DEF taken
<1>6. account # 0 => b \in Belief /\ b.holding /\ b.dir = d
  <2>1. 0 \in Int /\ Far \in Int
    BY SessionConstants
  <2>2. \A c \in {Rewound(taken, 0, Far), [taken EXCEPT !.high = 0], [taken EXCEPT !.low = Far], taken} : Same(taken, c)
    BY <1>5, <2>1, HeldIs
  <2>3. account # 0 => Same(taken, b)
    BY <1>3, <2>2
  <2> QED
    BY <1>5, <2>3 DEF Same
<1> QED
  BY <1>1, <1>2, <1>3, <1>6 DEF d, Knows, Session!Long

(* What is neither account nor belief.                                      *)
LEMMA DayPasses ==
  ASSUME SessionInv, NEW c \in Closes, Session!NewDay(c)
  PROVE  SessionInv'
<1>1. /\ feed' = Append(feed, c)
      /\ UNCHANGED <<market, stage, account, saved, working, belief, book, verdict, overlap, late, carried>>
  BY DEF Session!NewDay, Session!session
<1>2. feed' \in Seq(Closes)
  BY <1>1, AppendProperties DEF SessionInv, SessionTypes
<1>3. SessionTypes'
  BY <1>1, <1>2 DEF SessionInv, SessionTypes
<1>4. OneEntry' /\ BeforeBar' /\ BookKept'
  BY <1>1 DEF SessionInv, OneEntry, BeforeBar, BookKept, Lowest, Knows
<1>5. AfterBar'
  BY <1>1 DEF SessionInv, AfterBar, Knows
<1> QED
  BY <1>3, <1>4, <1>5 DEF SessionInv

(* A working order is filled, whether or not the session learns of it.      *)
LEMMA VenueFills ==
  ASSUME SessionInv, NEW side \in {"BUY", "SELL"}, NEW n \in 1..Lot, Session!VenueFill(side, n)
  PROVE  SessionInv'
<1> USE DEF SessionInv
<1>1. /\ n \in 1..working[side]
      /\ working' = [working EXCEPT ![side] = @ - n]
      /\ account' = account + Session!Signed(side, n) /\ late' = late + Session!Signed(side, n)
      /\ UNCHANGED <<market, feed, stage, saved, belief, book, verdict, overlap, carried>>
  BY DEF Session!VenueFill, Session!session
<1>2. /\ working \in [BUY : Nat, SELL : Nat] /\ working.BUY \in Nat /\ working.SELL \in Nat /\ n \in Nat /\ n > 0
      /\ account \in Int /\ late \in Int /\ book \in Int /\ carried \in Int
  BY SessionConstants DEF SessionTypes
<1>3. market.alpaca
  BY <1>1 DEF SessionTypes, Session!NoOrders
<1>4. \/ /\ working.BUY >= n /\ working' = [working EXCEPT !.BUY = working.BUY - n]
         /\ working'.BUY = working.BUY - n /\ working'.SELL = working.SELL
         /\ account' = account + n /\ late' = late + n
      \/ /\ working.SELL >= n /\ working' = [working EXCEPT !.SELL = working.SELL - n]
         /\ working'.SELL = working.SELL - n /\ working'.BUY = working.BUY
         /\ account' = account - n /\ late' = late - n
  <2>1. CASE side = "BUY"
    <3>1. Session!Signed(side, n) = n
      BY <2>1 DEF Session!Signed
    <3>4. n \in 1..working["BUY"] /\ working' = [working EXCEPT !["BUY"] = @ - n]
      BY <1>1, <2>1
    <3>5. working["BUY"] = working.BUY
      BY <1>2
    <3>6. working' = [working EXCEPT !.BUY = working.BUY - n]
      BY <3>4, <3>5
    <3>7. n \in 1..working.BUY
      BY <1>1, <2>1, <3>5
    <3>2. working' = [working EXCEPT !.BUY = working.BUY - n] /\ n <= working.BUY
      BY <1>2, <3>6, <3>7
    <3>3. working'.BUY = working.BUY - n /\ working'.SELL = working.SELL
      BY <1>2, <3>2
    <3> QED
      BY <1>1, <3>1, <3>2, <3>3
  <2>2. CASE side = "SELL"
    <3>1. Session!Signed(side, n) = -n
      BY <2>2 DEF Session!Signed
    <3>4. n \in 1..working["SELL"] /\ working' = [working EXCEPT !["SELL"] = @ - n]
      BY <1>1, <2>2
    <3>5. working["SELL"] = working.SELL
      BY <1>2
    <3>6. working' = [working EXCEPT !.SELL = working.SELL - n]
      BY <3>4, <3>5
    <3>7. n \in 1..working.SELL
      BY <1>1, <2>2, <3>5
    <3>2. working' = [working EXCEPT !.SELL = working.SELL - n] /\ n <= working.SELL
      BY <1>2, <3>6, <3>7
    <3>3. working'.SELL = working.SELL - n /\ working'.BUY = working.BUY
      BY <1>2, <3>2
    <3> QED
      BY <1>1, <1>2, <3>1, <3>2, <3>3
  <2> QED
    BY <2>1, <2>2
<1>5. working' \in [BUY : Nat, SELL : Nat]
  BY <1>2, <1>4
<1>6. SessionTypes'
  BY <1>1, <1>2, <1>3, <1>4, <1>5 DEF SessionTypes
<1>11. Lowest' = Lowest /\ Lowest \in Int
  BY <1>1, SessionConstants DEF Lowest
<1>7. OneEntry'
  BY <1>1, <1>2, <1>3, <1>4, <1>11, SessionConstants DEF OneEntry
<1>8. BeforeBar'
  BY <1>1, <1>2, <1>4 DEF BeforeBar, Session!NoOrders
<1>9. AfterBar'
  BY <1>1, <1>2, <1>4 DEF AfterBar
<1>10. BookKept'
  BY <1>1, <1>2, <1>4 DEF BookKept
<1> QED
  BY <1>6, <1>7, <1>8, <1>9, <1>10

(* ... or dropped.                                                          *)
LEMMA VenueForgets ==
  ASSUME SessionInv, NEW side \in {"BUY", "SELL"}, Session!VenueDrops(side)
  PROVE  SessionInv'
<1> USE DEF SessionInv
<1>1. /\ working[side] > 0 /\ working' = [working EXCEPT ![side] = 0]
      /\ UNCHANGED <<market, feed, stage, account, saved, belief, book, verdict, overlap, late, carried>>
  BY DEF Session!VenueDrops, Session!session
<1>2. /\ working \in [BUY : Nat, SELL : Nat] /\ working.BUY \in Nat /\ working.SELL \in Nat
      /\ account \in Int /\ late \in Int
  BY DEF SessionTypes
<1>3. \/ working.BUY > 0 /\ working' = [working EXCEPT !.BUY = 0] /\ working'.BUY = 0 /\ working'.SELL = working.SELL
      \/ working.SELL > 0 /\ working' = [working EXCEPT !.SELL = 0] /\ working'.SELL = 0 /\ working'.BUY = working.BUY
  <2>1. CASE side = "BUY"
    BY <1>1, <1>2, <2>1
  <2>2. CASE side = "SELL"
    BY <1>1, <1>2, <2>2
  <2> QED
    BY <2>1, <2>2
<1>4. working # Session!NoOrders
  BY <1>2, <1>3 DEF Session!NoOrders
<1>5. working' \in [BUY : Nat, SELL : Nat]
  BY <1>2, <1>3
<1>6. SessionTypes'
  BY <1>1, <1>4, <1>5 DEF SessionTypes
<1>11. Lowest' = Lowest /\ Lowest \in Int
  BY <1>1, SessionConstants DEF Lowest
<1>7. OneEntry'
  BY <1>1, <1>2, <1>3, <1>11, SessionConstants DEF OneEntry
<1>8. BeforeBar'
  BY <1>1, <1>4 DEF BeforeBar
<1>9. AfterBar'
  BY <1>1, <1>2, <1>3 DEF AfterBar, Knows
<1>10. BookKept'
  BY <1>1 DEF BookKept
<1> QED
  BY <1>6, <1>7, <1>8, <1>9, <1>10

(* A session begins: unless an order works the strategy is told the account. *)
LEMMA SessionStarts ==
  ASSUME SessionInv, NEW d \in BOOLEAN, Session!BeginUS(d) \/ Session!BeginRestored(d)
  PROVE  SessionInv'
<1> USE DEF SessionInv
<1>1. /\ stage' = "synced" /\ belief' = Session!Told(account) /\ carried' = account - book'
      /\ overlap' = (overlap \/ working # Session!NoOrders) /\ late' = 0
      /\ book' \in {account, 0} /\ UNCHANGED <<market, feed, account, saved, working>>
  BY DEF Session!BeginUS, Session!BeginRestored, Session!Begins
<1>2. account \in Int /\ working \in [BUY : Nat, SELL : Nat]
  BY DEF SessionTypes
<1>3. belief' \in Belief
  <2> DEFINE taken(dir) == Reopened(Session!NoBelief, dir, 0)
  <2>1. Session!NoBelief \in Belief
    BY SessionConstants DEF Session!NoBelief, Belief, Directions
  <2>2. \E dir \in {"long", "short"} :
          belief' \in {Session!NoBelief, Rewound(taken(dir), 0, Far), [taken(dir) EXCEPT !.high = 0], [taken(dir) EXCEPT !.low = Far], taken(dir)}
    BY <1>1 DEF Session!Told, Session!Synced, Session!Flattened, Session!Unratcheted, Reopened, Rewound
  <2>3. PICK dir \in {"long", "short"} :
          belief' \in {Session!NoBelief, Rewound(taken(dir), 0, Far), [taken(dir) EXCEPT !.high = 0], [taken(dir) EXCEPT !.low = Far], taken(dir)}
    BY <2>2
  <2>4. dir \in Directions /\ 0 \in Int /\ Far \in Int
    BY SessionConstants DEF Directions
  <2>5. taken(dir) \in Belief
    BY <2>1, <2>4, RewrittenIs
  <2> HIDE DEF taken
  <2>6. \A c \in {Rewound(taken(dir), 0, Far), [taken(dir) EXCEPT !.high = 0], [taken(dir) EXCEPT !.low = Far], taken(dir)} : Same(taken(dir), c)
    BY <2>4, <2>5, HeldIs
  <2> QED
    BY <2>1, <2>3, <2>6 DEF Same
<1>4. SessionTypes'
  BY <1>1, <1>2, <1>3 DEF SessionTypes
<1>5. OneEntry'
  BY <1>1 DEF OneEntry, SessionTypes, Lowest
<1>6. BeforeBar'
  <2> SUFFICES ASSUME ~overlap' PROVE (working = Session!NoOrders /\ late = 0 /\ Knows(belief, account))'
    BY DEF BeforeBar
  <2>1. ~overlap /\ working = Session!NoOrders
    BY <1>1
  <2>2. account >= Lowest
    BY <1>2, <2>1 DEF OneEntry, Session!NoOrders
  <2>3. Knows(Session!Told(account), account)
    BY <2>2, ToldKnows
  <2> QED
    BY <1>1, <2>1, <2>3 DEF Knows
<1>7. AfterBar'
  BY <1>1 DEF AfterBar
<1>8. BookKept'
  <2>1. book' \in Int /\ carried' = account - book' /\ account' = account /\ late' = 0
    BY <1>1, <1>2
  <2>2. ASSUME NEW a \in Int, NEW k \in Int PROVE k = a - (a - k) - 0
    OBVIOUS
  <2>3. book' = account' - carried' - late'
    BY <1>2, <2>1, <2>2
  <2> QED
    BY <2>3 DEF BookKept
<1> QED
  BY <1>4, <1>5, <1>6, <1>7, <1>8

(* A session that ends leaves account and orders to the next.               *)
LEMMA SessionEnds ==
  ASSUME SessionInv,
         Session!NoBarToday \/ Session!NoData \/ Session!FinishUS \/ Session!FinishRestored
  PROVE  SessionInv'
<1> USE DEF SessionInv
<1>1. /\ stage' = "off" /\ UNCHANGED <<market, feed, account, working, belief, book, overlap, late, carried>>
      /\ saved' = saved \/ (saved' = account /\ ~market.alpaca)
  BY DEF Session!NoBarToday, Session!NoData, Session!FinishUS, Session!FinishRestored, Session!SettleActiveOrders, Session!Ends
<1>2. SessionTypes'
  BY <1>1 DEF SessionTypes
<1>3. Lowest' = Lowest
  BY <1>1 DEF Lowest
<1>4. ~market.alpaca => account <= Lot /\ account >= Lowest
  BY SessionConstants DEF SessionTypes, OneEntry, Session!NoOrders
<1>5. OneEntry'
  BY <1>1, <1>3, <1>4 DEF OneEntry
<1>6. BeforeBar' /\ AfterBar' /\ BookKept'
  BY <1>1 DEF BeforeBar, AfterBar, BookKept
<1> QED
  BY <1>2, <1>5, <1>6

(* The process dies: the PaperBroker's account is that of its file.         *)
LEMMA SessionCrashes ==
  ASSUME SessionInv, NEW torn \in BOOLEAN, Session!Crash(torn)
  PROVE  SessionInv'
<1> USE DEF SessionInv
<1>1. /\ stage' = "off" /\ saved' \in {saved, 0} /\ (market.alpaca => saved' = saved)
      /\ account' = IF market.alpaca THEN account ELSE saved'
      /\ UNCHANGED <<market, feed, working, belief, book, overlap, late, carried>>
  BY DEF Session!Crash
<1>2. SessionTypes'
  BY <1>1 DEF SessionTypes
<1>3. Lowest' = Lowest /\ Lowest <= 0 /\ Lot \in Nat
  BY <1>1, SessionConstants DEF Lowest
<1>4. ~market.alpaca => working.BUY = 0 /\ working.SELL = 0
  BY DEF SessionTypes, Session!NoOrders
<1>5. saved' \in Int /\ (~market.alpaca => saved' <= Lot /\ saved' >= Lowest)
  BY <1>1, <1>3 DEF SessionTypes, OneEntry
<1>6. OneEntry'
  <2>1. CASE market.alpaca
    BY <1>1, <1>3, <2>1 DEF OneEntry
  <2>2. CASE ~market.alpaca
    <3>1. account' = saved' /\ market' = market /\ overlap' = overlap /\ working' = working
      BY <1>1, <2>2
    <3>2. account' + 0 <= Lot /\ account' - 0 >= Lowest
      BY <1>5, <2>2, <3>1
    <3> QED
      BY <1>3, <1>4, <1>5, <2>2, <3>1, <3>2 DEF OneEntry
  <2> QED
    BY <2>1, <2>2
<1>7. BeforeBar' /\ AfterBar' /\ BookKept'
  BY <1>1 DEF BeforeBar, AfterBar, BookKept
<1> QED
  BY <1>2, <1>6, <1>7

-----------------------------------------------------------------------------
(* The bar. *)

(* The fill's belief itself.                                                *)
LEMMA FillIs ==
  ASSUME NEW p, NEW b \in Belief, NEW close \in Int,
         NEW side \in {"BUY", "SELL", "SELL_SHORT", "BUY_TO_COVER"}
  PROVE  /\ Session!OnOrderFill(p, b, side, close) \in Belief
         /\ side = "BUY" => Session!OnOrderFill(p, b, side, close).holding
                            /\ Session!OnOrderFill(p, b, side, close).dir = "long"
         /\ side = "SELL_SHORT" /\ p.shorts => Session!OnOrderFill(p, b, side, close).holding
                                              /\ Session!OnOrderFill(p, b, side, close).dir = "short"
         /\ side = "SELL" \/ (side = "BUY_TO_COVER" /\ p.shorts) => ~Session!OnOrderFill(p, b, side, close).holding
BY FillBelieved

(* What the bar's answer asks for.                                          *)
LEMMA AnswerAsks ==
  ASSUME SessionTypes, NEW close \in Int, NEW sight,
         NEW a, a = Session!OnBar(market.profile, belief, close, Atr, sight)
  PROVE  /\ a.belief \in Belief
         /\ a.action \in {"HOLD", "BUY", "SELL", "SELL_SHORT", "BUY_TO_COVER"}
         /\ a.action \in {"SELL_SHORT", "BUY_TO_COVER"} => market.profile.shorts /\ ~market.alpaca
         /\ \A qty \in Int : Knows(belief, qty) =>
              /\ Knows(a.belief, qty)
              /\ a.action \in {"BUY", "SELL_SHORT"} => qty = 0
              /\ a.action = "SELL" => qty > 0
              /\ a.action = "BUY_TO_COVER" => qty < 0
<1>1. market.profile.width \in Int /\ (market.alpaca => ~market.profile.shorts) /\ belief \in Belief
  BY SessionConstants DEF SessionTypes
<1>2. /\ a.belief \in Belief /\ a.belief.holding = belief.holding
      /\ belief.holding => a.belief.dir = belief.dir /\ a.action \in {"HOLD", Session!Closing(market.profile, belief)}
      /\ ~belief.holding => \/ a.action \in {"HOLD", "BUY"}
                            \/ a.action = "SELL_SHORT" /\ market.profile.shorts
  BY <1>1, BarAnswers
<1>3. /\ Session!Closing(market.profile, belief) \in {"SELL", "BUY_TO_COVER"}
      /\ Session!Closing(market.profile, belief) = "SELL" <=> Session!Long(market.profile, belief)
      /\ Session!Closing(market.profile, belief) = "BUY_TO_COVER" => market.profile.shorts
  BY DEF Session!Closing, Session!Long
<1>4. belief.holding \in BOOLEAN
  BY <1>1 DEF Belief
<1>5. ASSUME NEW qty \in Int, Knows(belief, qty)
      PROVE  /\ Knows(a.belief, qty)
             /\ a.action \in {"BUY", "SELL_SHORT"} => qty = 0
             /\ a.action = "SELL" => qty > 0
             /\ a.action = "BUY_TO_COVER" => qty < 0
  <2>1. Knows(a.belief, qty)
    BY <1>2, <1>5 DEF Knows, Session!Long
  <2>2. CASE belief.holding
    BY <1>2, <1>3, <1>5, <2>1, <2>2 DEF Knows
  <2>3. CASE ~belief.holding
    BY <1>2, <1>5, <2>1, <2>3 DEF Knows
  <2> QED
    BY <1>4, <2>2, <2>3
<1> QED
  BY <1>1, <1>2, <1>3, <1>4, <1>5

(* One bar: the order it leads to, and what is known of it.                 *)
LEMMA BarProcessed ==
  ASSUME SessionInv, NEW sight \in Session!Views, NEW busy \in BOOLEAN, NEW filled, NEW rest,
         Session!Process(sight, busy, filled, rest)
  PROVE  SessionInv'
<1> USE DEF SessionInv
<1> DEFINE close == Session!Last(feed)
           a == Session!OnBar(market.profile, belief, close, Atr, Session!Seen(sight, busy))
           q == Session!Quantity(a.action)
<1>1. close \in Int
  <2>1. feed \in Seq(Closes) /\ feed # <<>>
    BY DEF Session!Process, SessionTypes
  <2>2. Len(feed) \in Nat /\ Len(feed) # 0
    BY <2>1, LenProperties, EmptySeq
  <2>3. feed[Len(feed)] \in Closes
    BY <2>1, <2>2, ElementOfSeq
  <2> QED
    BY <2>3, SessionConstants DEF Session!Last
<1>2. /\ stage = "synced" /\ stage' = "processed"
      /\ Session!Placed(a.action, q, filled, rest)
      /\ belief' = Session!Reported(a.belief, a.action, filled)
      /\ verdict'.action = a.action /\ verdict'.partly = (filled \in 1..(q - 1))
      /\ UNCHANGED <<market, feed, saved, overlap, late, carried>>
  BY DEF Session!Process
<1>3. /\ a.belief \in Belief
      /\ a.action \in {"HOLD", "BUY", "SELL", "SELL_SHORT", "BUY_TO_COVER"}
      /\ a.action \in {"SELL_SHORT", "BUY_TO_COVER"} => market.profile.shorts /\ ~market.alpaca
      /\ Knows(belief, account) =>
           /\ Knows(a.belief, account)
           /\ a.action \in {"BUY", "SELL_SHORT"} => account = 0
           /\ a.action = "SELL" => account > 0
           /\ a.action = "BUY_TO_COVER" => account < 0
  <2> HIDE DEF close
  <2>1. account \in Int
    BY DEF SessionTypes
  <2> QED
    BY <1>1, <2>1, AnswerAsks
<1> HIDE DEF a
<1>4. /\ account \in Int /\ book \in Int /\ saved \in Int /\ late \in Int /\ carried \in Int /\ Lot \in Nat
      /\ working \in [BUY : Nat, SELL : Nat] /\ (~market.alpaca => working = Session!NoOrders)
  BY SessionConstants DEF SessionTypes
<1>5. /\ a.action \in {"BUY", "SELL_SHORT"} => q = Lot
      /\ a.action = "SELL" => q = Session!Abs(account)
      /\ a.action = "BUY_TO_COVER" => q = Session!Abs(account)
      /\ a.action = "HOLD" => q = 0
  BY DEF Session!Quantity
<1>6. q \in Nat
  BY <1>3, <1>4, <1>5 DEF Session!Abs
<1> HIDE DEF q
<1>7. /\ filled \in Nat /\ rest \in Nat /\ filled + rest <= q
      /\ ~market.alpaca => filled \in {0, q} /\ rest = 0
      /\ account' = account + Session!Signed(a.action, filled)
      /\ book' = book + Session!Signed(a.action, filled)
      /\ working' = IF rest > 0 THEN [working EXCEPT ![a.action] = @ + rest] ELSE working
  BY <1>2, <1>6 DEF Session!Placed
<1>8. /\ a.action \in {"BUY", "BUY_TO_COVER"} => Session!Signed(a.action, filled) = filled
      /\ a.action \in {"SELL", "SELL_SHORT"} => Session!Signed(a.action, filled) = -filled
      /\ a.action = "HOLD" => filled = 0 /\ rest = 0 /\ Session!Signed(a.action, filled) = 0
  BY <1>5, <1>7 DEF Session!Signed
<1>9. Session!Signed(a.action, filled) \in Int
  BY <1>3, <1>7, <1>8
<1>10. /\ working' \in [BUY : Nat, SELL : Nat]
       /\ working'.BUY = IF a.action = "BUY" THEN working.BUY + rest ELSE working.BUY
       /\ working'.SELL = IF a.action = "SELL" THEN working.SELL + rest ELSE working.SELL
  <2>1. CASE rest = 0
    BY <1>4, <1>7, <2>1
  <2>2. CASE rest # 0 /\ a.action = "BUY"
    <3>1. working' = [working EXCEPT !["BUY"] = @ + rest]
      BY <1>7, <2>2
    <3> QED
      BY <1>4, <1>7, <2>2, <3>1
  <2>3. CASE rest # 0 /\ a.action = "SELL"
    <3>1. working' = [working EXCEPT !["SELL"] = @ + rest]
      BY <1>7, <2>3
    <3> QED
      BY <1>4, <1>7, <2>3, <3>1
  <2>4. CASE a.action \notin {"BUY", "SELL"}
    BY <1>3, <1>7, <1>8, <2>1, <2>4
  <2> QED
    BY <2>1, <2>2, <2>3, <2>4
<1>11. /\ belief' \in Belief
       /\ filled = 0 => belief' = a.belief
       /\ filled # 0 /\ a.action = "BUY" => belief'.holding /\ belief'.dir = "long"
       /\ filled # 0 /\ a.action = "SELL_SHORT" => belief'.holding /\ belief'.dir = "short"
       /\ filled # 0 /\ a.action \in {"SELL", "BUY_TO_COVER"} => ~belief'.holding
  <2>1. CASE filled = 0
    BY <1>2, <1>3, <2>1 DEF Session!Reported
  <2>2. CASE filled # 0
    <3>1. a.action \in {"BUY", "SELL", "SELL_SHORT", "BUY_TO_COVER"}
      BY <1>3, <1>8, <2>2
    <3>2. belief' = Session!OnOrderFill(market.profile, a.belief, a.action, close)
      BY <1>2, <2>2 DEF Session!Reported
    <3> HIDE DEF close
    <3>3. a.belief \in Belief /\ close \in Int
      BY <1>1, <1>3
    <3> DEFINE c == Session!OnOrderFill(market.profile, a.belief, a.action, close)
    <3>4. c \in Belief
      BY <3>1, <3>3, FillIs
    <3>5. a.action = "BUY" => c.holding /\ c.dir = "long"
      BY <3>1, <3>3, FillIs
    <3>6. a.action = "SELL_SHORT" => c.holding /\ c.dir = "short"
      BY <1>3, <3>1, <3>3, FillIs
    <3>7. a.action \in {"SELL", "BUY_TO_COVER"} => ~c.holding
      BY <1>3, <3>1, <3>3, FillIs
    <3> QED
      BY <2>2, <3>2, <3>4, <3>5, <3>6, <3>7
  <2> QED
    BY <2>1, <2>2
<1>12. SessionTypes'
  <2>1. account' \in Int /\ book' \in Int
    BY <1>4, <1>7, <1>9
  <2>2. ~market.alpaca => working' = working
    BY <1>7
  <2> QED
    BY <1>2, <1>4, <1>10, <1>11, <2>1, <2>2 DEF SessionTypes
<1>13. BookKept'
  <2>1. book = account - carried - late
    BY <1>2 DEF BookKept
  <2>2. ASSUME NEW x \in Int PROVE book + x = account + x - carried - late
    BY <1>4, <2>1
  <2> DEFINE x == Session!Signed(a.action, filled)
  <2>3. x \in Int /\ account' = account + x /\ book' = book + x /\ carried' = carried /\ late' = late
    BY <1>2, <1>7, <1>9
  <2> HIDE DEF x
  <2>4. book + x = account + x - carried - late
    BY <2>2, <2>3
  <2>5. book' = account' - carried' - late'
    BY <1>4, <2>3, <2>4
  <2> QED
    BY <2>5 DEF BookKept
<1>14. ~overlap => /\ Knows(belief, account) /\ working.BUY = 0 /\ working.SELL = 0 /\ late = 0
                   /\ account <= Lot /\ account >= Lowest
  BY <1>2, <1>4 DEF BeforeBar, OneEntry, Session!NoOrders
<1>15. Lowest \in Int /\ Lowest' = Lowest /\ Lowest <= 0 /\ (market.profile.shorts => Lowest = -Lot)
  BY <1>2, <1>4 DEF Lowest
<1>16. OneEntry'
  <2>1. ~overlap => account' + working'.BUY <= Lot /\ account' - working'.SELL >= Lowest
    <3> SUFFICES ASSUME ~overlap PROVE account' + working'.BUY <= Lot /\ account' - working'.SELL >= Lowest
      OBVIOUS
    <3>1. CASE a.action = "HOLD"
      BY <1>4, <1>7, <1>8, <1>10, <1>14, <1>15, <3>1
    <3>2. CASE a.action = "BUY"
      BY <1>3, <1>4, <1>5, <1>7, <1>8, <1>10, <1>14, <1>15, <3>2
    <3>3. CASE a.action = "SELL_SHORT"
      BY <1>3, <1>4, <1>5, <1>7, <1>8, <1>10, <1>14, <1>15, <3>3
    <3>4. CASE a.action = "SELL"
      BY <1>3, <1>4, <1>5, <1>7, <1>8, <1>10, <1>14, <1>15, <3>4 DEF Session!Abs
    <3>5. CASE a.action = "BUY_TO_COVER"
      BY <1>3, <1>4, <1>5, <1>7, <1>8, <1>10, <1>14, <1>15, <3>5 DEF Session!Abs
    <3> QED
      BY <1>3, <3>1, <3>2, <3>3, <3>4, <3>5
  <2> QED
    BY <1>2, <1>15, <2>1 DEF OneEntry
<1>17. BeforeBar'
  BY <1>2 DEF BeforeBar
<1>18. AfterBar'
  <2> SUFFICES ASSUME ~overlap
               PROVE  /\ working'.BUY = 0 \/ working'.SELL = 0
                      /\ late' = 0
                      /\ ~(verdict'.partly /\ verdict'.action = "SELL") => Knows(belief, account)'
    BY <1>2 DEF AfterBar
  <2>1. working'.BUY = 0 \/ working'.SELL = 0
    BY <1>4, <1>10, <1>14
  <2>2. ASSUME ~(verdict'.partly /\ verdict'.action = "SELL") PROVE Knows(belief, account)'
    <3>1. CASE filled = 0
      <4>1. account' = account
        BY <1>3, <1>4, <1>7, <1>8, <3>1
      <4> QED
        BY <1>2, <1>3, <1>11, <1>14, <3>1, <4>1 DEF Knows
    <3>2. CASE filled # 0 /\ a.action = "BUY"
      <4>1. account' > 0
        BY <1>3, <1>7, <1>8, <1>14, <3>2
      <4> QED
        BY <1>2, <1>11, <3>2, <4>1 DEF Knows, Session!Long
    <3>3. CASE filled # 0 /\ a.action = "SELL_SHORT"
      <4>1. account = 0 /\ market.profile.shorts
        BY <1>3, <1>14, <3>3
      <4>2. account' = account + (-filled)
        BY <1>7, <1>8, <3>3
      <4>3. account' < 0
        BY <1>7, <3>3, <4>1, <4>2
      <4>4. account' # 0 /\ ~(account' > 0) /\ market' = market
        BY <1>2, <1>7, <3>3, <4>1, <4>2
      <4>5. belief'.holding /\ belief'.dir = "short"
        BY <1>11, <3>3
      <4>6. ~Session!Long(market.profile, belief)'
        BY <4>1, <4>4, <4>5 DEF Session!Long
      <4> QED
        BY <4>4, <4>5, <4>6 DEF Knows
    <3>4. CASE filled # 0 /\ a.action \in {"SELL", "BUY_TO_COVER"}
      <4>1. q = Session!Abs(account) /\ account \in Int
        BY <1>4, <1>5, <3>4
      <4>2. filled = q
        <5>1. CASE a.action = "SELL"
          <6>1. filled \notin 1..(q - 1)
            BY <1>2, <2>2, <5>1
          <6> QED
            BY <1>6, <1>7, <3>4, <6>1
        <5>2. CASE a.action = "BUY_TO_COVER"
          BY <1>3, <1>7, <3>4, <5>2
        <5> QED
          BY <3>4, <5>1, <5>2
      <4>3. account' = 0
        BY <1>3, <1>7, <1>8, <1>14, <3>4, <4>1, <4>2 DEF Session!Abs
      <4> QED
        BY <1>11, <3>4, <4>3 DEF Knows
    <3> QED
      BY <1>3, <1>8, <3>1, <3>2, <3>3, <3>4
  <2> QED
    BY <1>2, <1>14, <2>1, <2>2
<1> QED
  BY <1>12, <1>13, <1>16, <1>17, <1>18

(* Every step of the sessions.                                              *)
LEMMA SessionStays ==
  ASSUME SessionInv, [Session!Next]_(Session!vars)
  PROVE  SessionInv'
<1>1. CASE UNCHANGED Session!vars
  <2>1. UNCHANGED <<market, feed, stage, account, saved, working, belief, book, verdict, overlap, late, carried>>
    BY <1>1 DEF Session!vars, Session!session
  <2>2. SessionTypes' /\ OneEntry' /\ BookKept'
    BY <2>1 DEF SessionInv, SessionTypes, OneEntry, BookKept, Lowest
  <2>3. BeforeBar' /\ AfterBar'
    BY <2>1 DEF SessionInv, BeforeBar, AfterBar, Knows
  <2> QED
    BY <2>2, <2>3 DEF SessionInv
<1>2. CASE Session!Next
  BY <1>2, DayPasses, VenueFills, VenueForgets, SessionStarts, SessionEnds, SessionCrashes, BarProcessed DEF Session!Next
<1> QED
  BY <1>1, <1>2

\* PaperSession: unless a session began while an order of an earlier one worked,
\* the account holds one entry at most, with what still works counted in.
THEOREM OneEntryIsHeld == DeskSpec => []OnePosition
<1>1. DeskInit => (part = "session" => SessionInv)
  BY SessionAlone, SessionBegins
<1>2. (part = "session" => SessionInv) /\ [DeskNext]_desk => (part = "session" => SessionInv)'
  BY SessionAlone, SessionStays
<1>3. (part = "session" => SessionInv) => OnePosition
  BY SessionIsSound DEF OnePosition
<1> QED
  BY <1>1, <1>2, <1>3, PTL DEF DeskSpec

\* PaperSession: the risk book differs from the account by what it was not told,
\* and the strategy believes what the account holds, but for late and partial fills.
THEOREM SessionIsInStep == DeskSpec => []SessionKnows
<1>1. DeskInit => (part = "session" => SessionInv)
  BY SessionAlone, SessionBegins
<1>2. (part = "session" => SessionInv) /\ [DeskNext]_desk => (part = "session" => SessionInv)'
  BY SessionAlone, SessionStays
<1>3. (part = "session" => SessionInv) => SessionKnows
  BY SessionIsSound DEF SessionKnows
<1> QED
  BY <1>1, <1>2, <1>3, PTL DEF DeskSpec

-----------------------------------------------------------------------------
(* The indicators: what a refresh leaves of the columns.                    *)

\* The columns an indicator writes.
Written(i) ==
  CASE i.kind = "own"                -> {i.key}
    [] i.kind = "bollinger_bands"    -> {"band_upper", "band_lower"}
    [] i.kind = "average_true_range" -> {"average_true_range"}
    [] i.kind = "stochastic_oscillator" -> {"stochastic_oscillator"}
    [] i.kind = "macd"               -> {"macd", "macd_diff"}
    [] i.kind = "mass_index"         -> {"mass_index"}
    [] i.kind = "ease_of_movement"   -> {"ease_of_movement"}
    [] i.kind = "kst_oscillator"     -> {i.key, Frame!Signal(i.key)}
    [] i.kind = "ichimoku_cloud"     -> Frame!Lines(i.key)
    [] i.kind = "change_in_price"    -> {"change_in_price"}
    [] i.kind = "rsi"                -> {"rsi"}

Frames == [Frame!Columns -> Nat]

(* Two of the columns.                                                      *)
LEMMA ColumnNames == "rsi" \in Frame!Columns /\ "change_in_price" \in Frame!Columns
BY DEF Frame!Columns, Frame!Fixed

(* What one indicator makes of the columns.                                 *)
LEMMA ComputedIs ==
  ASSUME NEW cols \in Frames, revision \in Nat, NEW i, i.kind \in IndicatorKinds, NEW d, d = Frame!Computed(cols, i)
  PROVE  /\ d \in Frames
         /\ i.kind # "rsi" => \A c \in Frame!Columns : d[c] = IF c \in Written(i) THEN revision ELSE cols[c]
         /\ i.kind = "rsi" =>
              /\ d["rsi"] = IF cols["change_in_price"] # 0 THEN cols["change_in_price"] ELSE revision
              /\ d["change_in_price"] = 0
              /\ \A c \in Frame!Columns \ {"rsi", "change_in_price"} : d[c] = cols[c]
<1>1. CASE i.kind # "rsi"
  <2>1. d = Frame!Put(cols, Written(i))
    BY <1>1 DEF IndicatorKinds, Written, Frame!Computed, Frame!OwnColumn, Frame!BollingerBands, Frame!AverageTrueRange,
       Frame!StochasticOscillator, Frame!Macd, Frame!MassIndex, Frame!EaseOfMovement, Frame!KstOscillator,
       Frame!IchimokuCloud, Frame!ChangeInPrice
  <2>2. d = [c \in Frame!Columns |-> IF c \in Written(i) THEN revision ELSE cols[c]]
    BY <2>1 DEF Frame!Put
  <2> QED
    BY <1>1, <2>2 DEF Frames
<1>2. CASE i.kind = "rsi"
  <2> DEFINE v == IF cols["change_in_price"] # 0 THEN cols["change_in_price"] ELSE revision
  <2>1. d = [cols EXCEPT !["rsi"] = v, !["change_in_price"] = 0]
    BY <1>2 DEF Frame!Computed, Frame!Rsi
  <2>2. v \in Nat
    BY ColumnNames DEF Frames
  <2> HIDE DEF v
  <2> DEFINE e == [cols EXCEPT !["rsi"] = v]
  <2>3. e \in Frames /\ e["rsi"] = v /\ \A c \in Frame!Columns \ {"rsi"} : e[c] = cols[c]
    BY <2>2, ColumnNames DEF Frames
  <2>4. d = [e EXCEPT !["change_in_price"] = 0]
    BY <2>1
  <2> HIDE DEF e
  <2>5. d \in Frames /\ d["change_in_price"] = 0 /\ \A c \in Frame!Columns \ {"change_in_price"} : d[c] = e[c]
    BY <2>3, <2>4, ColumnNames DEF Frames
  <2> QED
    BY <1>2, <2>3, <2>5, ColumnNames DEF v
<1> QED
  BY <1>1, <1>2

-----------------------------------------------------------------------------
(* The indicators one after the other. *)

\* g is what the indicators at the places of a set leave, for each part of D.
IsPass(g, D, cols, seq) ==
  g = [T \in SUBSET D |-> IF T = {} THEN cols ELSE Frame!Computed(g[T \ {Latest(T)}], seq[Latest(T)])]

(* The definition behind a refresh.                                         *)
LEMMA ReplayedIs ==
  Frame!Replayed = (CHOOSE g : IsPass(g, DOMAIN registered, columns, registered))[DOMAIN registered]
BY DEF Frame!Replayed, Frame!FoldLeft, Frame!MapThenFoldSet, IsPass, Latest, Frame!Max

(* Two passes agree where both are defined.                                 *)
LEMMA PassesAgree ==
  ASSUME NEW cols, NEW seq, NEW D, NEW E, Numbers(D),
         NEW g, NEW h, IsPass(g, D, cols, seq), IsPass(h, E, cols, seq),
         NEW T \in SUBSET D, T \in SUBSET E
  PROVE  g[T] = h[T]
<1> DEFINE Good == {U \in SUBSET T : g[U] = h[U]}
<1>1. IsFiniteSet(T) /\ Numbers(T)
  BY NumbersPart DEF Numbers
<1>2. ASSUME NEW U \in SUBSET T, \A V \in SUBSET U : V # U => V \in Good
      PROVE  U \in Good
  <2>1. U \in SUBSET D /\ U \in SUBSET E /\ Numbers(U)
    BY <1>1, NumbersPart
  <2>2. /\ g[U] = IF U = {} THEN cols ELSE Frame!Computed(g[U \ {Latest(U)}], seq[Latest(U)])
        /\ h[U] = IF U = {} THEN cols ELSE Frame!Computed(h[U \ {Latest(U)}], seq[Latest(U)])
    BY <2>1 DEF IsPass
  <2>3. U # {} => g[U \ {Latest(U)}] = h[U \ {Latest(U)}]
    <3>1. U # {} => U \ {Latest(U)} \in SUBSET U /\ U \ {Latest(U)} # U
      BY <2>1, LatestIn
    <3> QED
      BY <1>2, <3>1
  <2> QED
    BY <2>2, <2>3
<1> HIDE DEF Good
<1>3. Good \in SUBSET (SUBSET T)
  BY DEF Good
<1>4. Good = SUBSET T
  BY <1>1, <1>2, <1>3, SubsetInduction
<1> QED
  BY <1>4 DEF Good

(* There is a pass over any list of indicators.                             *)
LEMMA PassExists ==
  ASSUME NEW cols, NEW seq, NEW D, Numbers(D)
  PROVE  \E g : IsPass(g, D, cols, seq)
<1> DEFINE Good == {T \in SUBSET D : \E g : IsPass(g, T, cols, seq)}
<1>1. ASSUME NEW T \in SUBSET D, \A U \in SUBSET T : U # T => U \in Good
      PROVE  T \in Good
  <2> DEFINE h(U) == CHOOSE g : IsPass(g, U, cols, seq)
             G == [U \in SUBSET T |->
                     IF U = {} THEN cols ELSE Frame!Computed(h(U \ {Latest(U)})[U \ {Latest(U)}], seq[Latest(U)])]
  <2>1. ASSUME NEW U \in SUBSET T, U # T
        PROVE  IsPass(h(U), U, cols, seq)
    BY <1>1, <2>1
  <2>2. ASSUME NEW U \in SUBSET T PROVE Numbers(U) /\ (U # {} => Latest(U) \in U)
    BY NumbersPart, LatestIn
  <2>3. ASSUME NEW V \in SUBSET T, V # T
        PROVE  G[V] = h(V)[V]
    <3>1. IsPass(h(V), V, cols, seq)
      BY <2>1, <2>3
    <3>2. h(V)[V] = IF V = {} THEN cols ELSE Frame!Computed(h(V)[V \ {Latest(V)}], seq[Latest(V)])
      BY <3>1 DEF IsPass
    <3>3. ASSUME V # {} PROVE h(V)[V \ {Latest(V)}] = h(V \ {Latest(V)})[V \ {Latest(V)}]
      <4> DEFINE W == V \ {Latest(V)}
      <4>1. W \in SUBSET V /\ W # V /\ W # T /\ W \in SUBSET T
        BY <2>2, <2>3, <3>3
      <4>2. IsPass(h(W), W, cols, seq) /\ Numbers(V)
        BY <2>1, <2>2, <4>1
      <4> HIDE DEF W, h
      <4> DEFINE p == h(V)
                 q == h(W)
      <4>3. /\ Numbers(V) /\ W \in SUBSET V /\ W \in SUBSET W
            /\ IsPass(p, V, cols, seq) /\ IsPass(q, W, cols, seq)
        BY <3>1, <4>1, <4>2
      <4> HIDE DEF p, q
      <4>4. p[W] = q[W]
        BY <4>3, PassesAgree
      <4> QED
        BY <4>4 DEF W, p, q
    <3> HIDE DEF h
    <3> QED
      BY <3>2, <3>3
  <2>4. G = [U \in SUBSET T |-> IF U = {} THEN cols ELSE Frame!Computed(G[U \ {Latest(U)}], seq[Latest(U)])]
    <3>1. ASSUME NEW U \in SUBSET T, U # {}
          PROVE  U \ {Latest(U)} \in SUBSET T /\ U \ {Latest(U)} # T
      BY <2>2, <3>1
    <3>2. ASSUME NEW U \in SUBSET T, U # {}
          PROVE  G[U \ {Latest(U)}] = h(U \ {Latest(U)})[U \ {Latest(U)}]
      BY <2>3, <3>1, <3>2
    <3> HIDE DEF h
    <3> QED
      BY <3>2
  <2> QED
    BY <2>4 DEF IsPass
<1> HIDE DEF Good
<1>2. Good \in SUBSET (SUBSET D) /\ IsFiniteSet(D)
  BY DEF Good, Numbers
<1>3. Good = SUBSET D
  BY <1>1, <1>2, SubsetInduction
<1> QED
  BY <1>3 DEF Good

(* So a refresh computes the indicators in the order they were added.       *)
LEMMA RefreshIs ==
  ASSUME NEW S, registered \in Seq(S)
  PROVE  \E w : /\ w[0] = columns /\ w[Len(registered)] = Frame!Replayed
                /\ \A n \in 1..Len(registered) : w[n] = Frame!Computed(w[n - 1], registered[n])
<1> DEFINE N == Len(registered)
           D == 1..N
           g == CHOOSE g : IsPass(g, D, columns, registered)
           w == [n \in 0..N |-> g[1..n]]
<1>1. N \in Nat /\ DOMAIN registered = D
  BY LenProperties
<1>2. Numbers(D)
  BY <1>1, FS_Interval DEF Numbers
<1>3. IsPass(g, D, columns, registered)
  <2> HIDE DEF D
  <2> QED
    BY <1>2, PassExists
<1>4. Frame!Replayed = g[D]
  BY <1>1, ReplayedIs
<1> HIDE DEF g
<1>5. \A T \in SUBSET D : g[T] = IF T = {} THEN columns ELSE Frame!Computed(g[T \ {Latest(T)}], registered[Latest(T)])
  BY <1>3 DEF IsPass
<1>6. w[0] = columns
  <2>1. 1..0 = {} /\ 0 \in 0..N
    BY <1>1
  <2> QED
    BY <1>5, <2>1
<1>7. w[N] = Frame!Replayed
  BY <1>1, <1>4
<1>8. ASSUME NEW n \in 1..N PROVE w[n] = Frame!Computed(w[n - 1], registered[n])
  <2>1. n \in Nat /\ n # 0 /\ n \in 0..N /\ n - 1 \in 0..N /\ 1..n \in SUBSET D /\ n \in 1..n
    BY <1>1
  <2>2. Latest(1..n) = n /\ (1..n) \ {n} = 1..(n - 1)
    BY <2>1, LatestOfFirst
  <2>3. g[1..n] = Frame!Computed(g[1..(n - 1)], registered[n])
    BY <1>5, <2>1, <2>2
  <2> QED
    BY <2>1, <2>3
<1> QED
  BY <1>6, <1>7, <1>8

-----------------------------------------------------------------------------
(* What a refresh leaves. *)

Indicators == Catalogue \cup {PriceChanges}

\* An indicator of the list writes the column.
Covered(c) == \E j \in DOMAIN registered : c \in Written(registered[j])

\* A single rsi stands behind the price changes, at these places.
InPlace(j, r) ==
  /\ j \in DOMAIN registered /\ r \in DOMAIN registered /\ j < r
  /\ registered[j].kind = "change_in_price" /\ registered[r].kind = "rsi"
  /\ \A m \in DOMAIN registered : registered[m].kind = "rsi" => m = r

FrameTypes ==
  /\ revision \in Nat \ {0}
  /\ columns \in Frames
  /\ registered \in Seq(Indicators)
  /\ phase \in {"adding", "added", "refreshed"}
  /\ \A c \in Frame!Columns : columns[c] # 0 => Covered(c)

\* How old the columns are: before the first bar, after a bar, after a refresh.
Dated ==
  /\ phase = "adding" => revision = 1 /\ \A c \in Frame!Columns : columns[c] \in {0, 1}
  /\ phase = "added" => \A c \in Frame!Columns \ {"rsi"} : columns[c] \in {0, revision - 1}
  /\ phase = "refreshed" =>
       /\ \A c \in Frame!Columns \ {"rsi"} : columns[c] \in {0, revision}
       /\ columns["rsi"] \in {0, revision - 1, revision}
       /\ (\E j, r \in DOMAIN registered : InPlace(j, r)) => columns["rsi"] = revision

FrameInv == FrameTypes /\ Dated

\* The columns after the first n indicators of a refresh.
Passed(cols, n) ==
  /\ cols \in Frames
  /\ \A c \in Frame!Columns : cols[c] # 0 => columns[c] # 0 \/ Covered(c)
  /\ \A c \in Frame!Columns \ {"rsi"} :
       cols[c] \in {0, revision} \/ (cols[c] = columns[c] /\ \A j \in 1..n : c \notin Written(registered[j]))
  /\ \/ cols["rsi"] \in {revision, revision - 1}
     \/ cols["rsi"] = columns["rsi"] /\ \A j \in 1..n : "rsi" \notin Written(registered[j])

\* Behind the price changes and before the rsi, the price changes are current.
InTime(cols, n) ==
  \A j, r \in DOMAIN registered : InPlace(j, r) =>
    /\ j <= n /\ n < r => cols["change_in_price"] = revision
    /\ n >= r => cols["rsi"] = revision

(* One indicator of a refresh.                                              *)
LEMMA PassSteps ==
  ASSUME FrameInv, phase = "added", NEW n \in 1..Len(registered), NEW cols, Passed(cols, n - 1), InTime(cols, n - 1),
         NEW d, d = Frame!Computed(cols, registered[n])
  PROVE  Passed(d, n) /\ InTime(d, n)
<1> DEFINE i == registered[n]
<1>1. /\ registered \in Seq(Indicators) /\ Len(registered) \in Nat /\ DOMAIN registered = 1..Len(registered)
      /\ n \in Nat /\ n - 1 \in Nat
  BY LenProperties DEF FrameInv, FrameTypes
<1>2. i \in Indicators /\ i.kind \in IndicatorKinds
  BY <1>1, ElementOfSeq, IndicatorConstants DEF Indicators, PriceChanges, IndicatorKinds
<1>3. revision \in Nat /\ revision # 0 /\ columns \in Frames /\ cols \in Frames
  BY DEF FrameInv, FrameTypes, Passed
<1>4. /\ d \in Frames
      /\ i.kind # "rsi" => \A c \in Frame!Columns : d[c] = IF c \in Written(i) THEN revision ELSE cols[c]
      /\ i.kind = "rsi" =>
           /\ d["rsi"] = IF cols["change_in_price"] # 0 THEN cols["change_in_price"] ELSE revision
           /\ d["change_in_price"] = 0
           /\ \A c \in Frame!Columns \ {"rsi", "change_in_price"} : d[c] = cols[c]
  BY <1>2, <1>3, ComputedIs
<1>5. /\ i.kind = "rsi" => Written(i) = {"rsi"}
      /\ i.kind = "change_in_price" => Written(i) = {"change_in_price"}
  BY DEF Written
<1>6. \A c \in Written(i) : Covered(c)
  BY <1>1 DEF Covered
<1> DEFINE Left(c, m) == \A j \in 1..m : c \notin Written(registered[j])
<1>7. ASSUME NEW c, Left(c, n - 1), c \notin Written(i) PROVE Left(c, n)
  BY <1>1, <1>7
<1> HIDE DEF i
<1>8. columns["change_in_price"] \in {0, revision - 1} /\ cols["change_in_price"] \in {0, revision - 1, revision}
  BY ColumnNames DEF FrameInv, Dated, Passed
<1>9. Passed(d, n)
  <2>1. \A c \in Frame!Columns : d[c] # 0 => columns[c] # 0 \/ Covered(c)
    <3>1. ASSUME NEW c \in Frame!Columns, d[c] # 0, c \notin Written(i) PROVE cols[c] # 0
      BY <1>2, <1>4, <1>5, <3>1
    <3> QED
      BY <1>6, <3>1 DEF Passed
  <2>2. ASSUME NEW c \in Frame!Columns \ {"rsi"}
        PROVE  d[c] \in {0, revision} \/ (d[c] = columns[c] /\ Left(c, n))
    <3>1. cols[c] \in {0, revision} \/ (cols[c] = columns[c] /\ Left(c, n - 1))
      BY DEF Passed
    <3> HIDE DEF Left
    <3>2. CASE c \in Written(i)
      BY <1>4, <1>5, <3>2
    <3>3. CASE c \notin Written(i)
      <4>1. d[c] = cols[c] \/ d[c] = 0
        BY <1>4, <1>5, <3>3
      <4> QED
        BY <1>7, <3>1, <3>3, <4>1
    <3> QED
      BY <3>2, <3>3
  <2>3. d["rsi"] \in {revision, revision - 1} \/ (d["rsi"] = columns["rsi"] /\ Left("rsi", n))
    <3>1. cols["rsi"] \in {revision, revision - 1} \/ (cols["rsi"] = columns["rsi"] /\ Left("rsi", n - 1))
      BY DEF Passed
    <3> HIDE DEF Left
    <3>2. CASE i.kind = "rsi"
      BY <1>4, <1>8, <3>2
    <3>3. CASE i.kind # "rsi"
      <4>1. d["rsi"] = IF "rsi" \in Written(i) THEN revision ELSE cols["rsi"]
        BY <1>4, <3>3, ColumnNames
      <4> QED
        BY <1>7, <3>1, <4>1
    <3> QED
      BY <3>2, <3>3
  <2> QED
    BY <1>4, <2>1, <2>2, <2>3 DEF Passed
<1>10. InTime(d, n)
  <2> SUFFICES ASSUME NEW j \in DOMAIN registered, NEW r \in DOMAIN registered, InPlace(j, r)
               PROVE  /\ j <= n /\ n < r => d["change_in_price"] = revision
                      /\ n >= r => d["rsi"] = revision
    BY DEF InTime
  <2>1. /\ j \in Nat /\ r \in Nat /\ j < r
        /\ j = n => i.kind = "change_in_price"
        /\ r = n <=> i.kind = "rsi"
    BY <1>1 DEF InPlace, i
  <2>2. /\ j <= n - 1 /\ n - 1 < r => cols["change_in_price"] = revision
        /\ n - 1 >= r => cols["rsi"] = revision
    BY DEF InTime
  <2>3. ASSUME j <= n, n < r PROVE d["change_in_price"] = revision
    <3>1. i.kind # "rsi" /\ d["change_in_price"] = IF "change_in_price" \in Written(i) THEN revision ELSE cols["change_in_price"]
      BY <1>1, <1>4, <2>1, <2>3, ColumnNames
    <3>2. CASE j = n
      BY <1>5, <2>1, <3>1, <3>2
    <3>3. CASE j # n
      BY <1>1, <2>1, <2>2, <2>3, <3>1, <3>3
    <3> QED
      BY <3>2, <3>3
  <2>4. ASSUME n >= r PROVE d["rsi"] = revision
    <3>1. CASE n = r
      <4>1. cols["change_in_price"] = revision
        BY <1>1, <2>1, <2>2, <3>1
      <4> QED
        BY <1>3, <1>4, <2>1, <3>1, <4>1
    <3>2. CASE n # r
      <4>1. cols["rsi"] = revision
        BY <1>1, <2>1, <2>2, <2>4, <3>2
      <4> QED
        BY <1>4, <2>1, <3>2, <4>1, ColumnNames
    <3> QED
      BY <3>1, <3>2
  <2> QED
    BY <2>3, <2>4
<1> QED
  BY <1>9, <1>10

(* A refresh leaves the columns of the bar that was added.                  *)
LEMMA FrameRefreshed ==
  ASSUME FrameInv, Frame!Refresh
  PROVE  FrameInv'
<1> DEFINE N == Len(registered)
<1>1. /\ phase = "added" /\ columns' = Frame!Replayed /\ phase' = "refreshed"
      /\ UNCHANGED <<revision, registered>>
  BY DEF Frame!Refresh
<1>2. /\ registered \in Seq(Indicators) /\ N \in Nat /\ DOMAIN registered = 1..N
      /\ columns \in Frames /\ revision \in Nat \ {0}
      /\ \A c \in Frame!Columns : columns[c] # 0 => Covered(c)
  BY LenProperties DEF FrameInv, FrameTypes
<1>3. PICK w : /\ w[0] = columns /\ w[N] = Frame!Replayed
               /\ \A n \in 1..N : w[n] = Frame!Computed(w[n - 1], registered[n])
  BY <1>2, RefreshIs
<1> DEFINE Good == {n \in 0..N : Passed(w[n], n) /\ InTime(w[n], n)}
<1>4. 0 \in Good
  <2>1. InTime(columns, 0)
    BY <1>2 DEF InTime, InPlace
  <2>2. Passed(columns, 0)
    BY <1>2 DEF Passed
  <2> QED
    BY <1>2, <1>3, <2>1, <2>2
<1>5. ASSUME NEW n \in 1..N, n - 1 \in Good PROVE n \in Good
  <2>1. Passed(w[n - 1], n - 1) /\ InTime(w[n - 1], n - 1) /\ w[n] = Frame!Computed(w[n - 1], registered[n])
    BY <1>3, <1>5
  <2>2. Passed(w[n], n) /\ InTime(w[n], n)
    BY <1>1, <2>1, PassSteps
  <2> QED
    BY <1>2, <2>2
<1>6. N \in Good
  <2> HIDE DEF Good
  <2>1. Good \in SUBSET (0..N)
    BY DEF Good
  <2>2. \A n \in 1..N : n - 1 \in Good => n \in Good
    BY <1>5
  <2> HIDE DEF N
  <2>3. \A n \in 0..N : n \in Good
    BY <1>2, <1>4, <2>1, <2>2, IntervalInduction
  <2> QED
    BY <1>2, <2>3
<1> DEFINE after == w[N]
<1>7. Passed(after, N) /\ InTime(after, N) /\ columns' = after
  BY <1>1, <1>3, <1>6
<1> HIDE DEF Good, after
<1>8. \A c \in Frame!Columns : (\A j \in 1..N : c \notin Written(registered[j])) => columns[c] = 0
  BY <1>2 DEF Covered
<1>9. \A c \in Frame!Columns : after[c] # 0 => Covered(c)
  BY <1>2, <1>7 DEF Passed
<1>10. FrameTypes'
  BY <1>1, <1>2, <1>7, <1>9 DEF FrameTypes, Covered, Passed
<1>11. \A c \in Frame!Columns \ {"rsi"} : after[c] \in {0, revision}
  BY <1>7, <1>8 DEF Passed
<1>12. after["rsi"] \in {0, revision - 1, revision}
  BY <1>7, <1>8, ColumnNames DEF Passed
<1>13. (\E j, r \in DOMAIN registered : InPlace(j, r)) => after["rsi"] = revision
  BY <1>2, <1>7 DEF InTime
<1> QED
  BY <1>1, <1>7, <1>10, <1>11, <1>12, <1>13 DEF FrameInv, Dated, InPlace

(* An indicator with its key is noted; the others stay.                     *)
LEMMA NoteIs ==
  ASSUME KeysDiffer, NEW seq \in Seq(Indicators), NEW i \in Indicators
  PROVE  /\ Frame!Note(seq, i) \in Seq(Indicators)
         /\ \E k \in DOMAIN Frame!Note(seq, i) : Frame!Note(seq, i)[k] = i
         /\ \A j \in DOMAIN seq : \E k \in DOMAIN Frame!Note(seq, i) : Frame!Note(seq, i)[k] = seq[j]
<1> DEFINE t == Frame!Note(seq, i)
<1>1. Len(seq) \in Nat /\ DOMAIN seq = 1..Len(seq) /\ \A j \in DOMAIN seq : seq[j] \in Indicators
  BY LenProperties, ElementOfSeq
<1>2. CASE \E j \in DOMAIN seq : seq[j].key = i.key
  <2>1. \A j \in DOMAIN seq : seq[j].key = i.key => seq[j] = i
    BY <1>1 DEF KeysDiffer, Indicators
  <2>2. t = [j \in DOMAIN seq |-> IF seq[j].key = i.key THEN i ELSE seq[j]]
    BY <1>2 DEF Frame!Note
  <2>3. t = [j \in DOMAIN seq |-> seq[j]]
    BY <2>1, <2>2
  <2>4. t = seq
    BY <1>1, <2>3
  <2> QED
    BY <1>2, <2>1, <2>4
<1>3. CASE ~\E j \in DOMAIN seq : seq[j].key = i.key
  <2>1. t = Append(seq, i)
    BY <1>3 DEF Frame!Note
  <2>2. t \in Seq(Indicators) /\ Len(t) = Len(seq) + 1 /\ t[Len(seq) + 1] = i /\ \A j \in 1..Len(seq) : t[j] = seq[j]
    BY <2>1, AppendProperties
  <2>3. DOMAIN t = 1..(Len(seq) + 1)
    BY <2>2, LenProperties
  <2> QED
    BY <1>1, <2>2, <2>3
<1> QED
  BY <1>2, <1>3

(* An indicator that is added covers the columns it writes.                 *)
LEMMA IndicatorAdded ==
  ASSUME KeysDiffer, FrameInv, NEW i \in Catalogue, Frame!AddIndicator(i)
  PROVE  FrameInv'
<1>1. /\ phase = "adding" /\ columns' = Frame!Computed(columns, i) /\ registered' = Frame!Noted(i)
      /\ UNCHANGED <<revision, phase>>
  BY DEF Frame!AddIndicator
<1>2. /\ registered \in Seq(Indicators) /\ columns \in Frames /\ revision = 1
      /\ \A c \in Frame!Columns : columns[c] \in {0, 1}
      /\ \A c \in Frame!Columns : columns[c] # 0 => Covered(c)
  BY <1>1 DEF FrameInv, FrameTypes, Dated
<1>3. i \in Indicators /\ PriceChanges \in Indicators /\ i.kind \in IndicatorKinds
  BY IndicatorConstants DEF Indicators
<1> DEFINE own == Frame!Note(registered, i)
           both == Frame!Note(own, PriceChanges)
<1>4. /\ own \in Seq(Indicators)
      /\ \E k \in DOMAIN own : own[k] = i
      /\ \A j \in DOMAIN registered : \E k \in DOMAIN own : own[k] = registered[j]
  BY <1>2, <1>3, NoteIs
<1>5. registered' = own \/ registered' = both
  BY <1>1 DEF Frame!Noted, PriceChanges
<1> HIDE DEF own
<1>6. both \in Seq(Indicators) /\ \A j \in DOMAIN own : \E k \in DOMAIN both : both[k] = own[j]
  BY <1>3, <1>4, NoteIs
<1> HIDE DEF both
<1>7. /\ registered' \in Seq(Indicators)
      /\ \E k \in DOMAIN registered' : registered'[k] = i
      /\ \A j \in DOMAIN registered : \E k \in DOMAIN registered' : registered'[k] = registered[j]
  BY <1>4, <1>5, <1>6
<1> DEFINE d == Frame!Computed(columns, i)
<1>8. /\ d \in Frames
      /\ i.kind # "rsi" => \A c \in Frame!Columns : d[c] = IF c \in Written(i) THEN revision ELSE columns[c]
      /\ i.kind = "rsi" =>
           /\ d["rsi"] = IF columns["change_in_price"] # 0 THEN columns["change_in_price"] ELSE revision
           /\ d["change_in_price"] = 0
           /\ \A c \in Frame!Columns \ {"rsi", "change_in_price"} : d[c] = columns[c]
  BY <1>2, <1>3, ComputedIs
<1> HIDE DEF d
<1>9. i.kind = "rsi" => Written(i) = {"rsi"}
  BY DEF Written
<1>10. \A c \in Frame!Columns : d[c] \in {0, 1}
  BY <1>2, <1>8, ColumnNames
<1>11. \A c \in Frame!Columns : d[c] # 0 => columns[c] # 0 \/ c \in Written(i)
  BY <1>8, <1>9
<1>12. \A c \in Frame!Columns : d[c] # 0 => Covered(c)'
  BY <1>2, <1>7, <1>11 DEF Covered
<1>13. FrameTypes'
  BY <1>1, <1>2, <1>7, <1>8, <1>12 DEF FrameTypes, d
<1> QED
  BY <1>1, <1>2, <1>10, <1>13 DEF FrameInv, Dated, d

(* What changes no column keeps them.                                       *)
LEMMA FrameUntouched ==
  ASSUME FrameInv, UNCHANGED <<revision, columns, registered, phase>>
  PROVE  FrameInv'
BY DEF FrameInv, FrameTypes, Dated, Covered, InPlace

(* Every step of the indicators.                                            *)
LEMMA FrameStays ==
  ASSUME KeysDiffer, FrameInv, [Frame!Next]_(Frame!vars)
  PROVE  FrameInv'
<1>1. ASSUME NEW left \in Ruled, NEW right \in Ruled \cup {"none"}, NEW buys \in BOOLEAN, NEW sells \in BOOLEAN,
             Frame!SetIndicatorSignal(left, right, buys, sells)
      PROVE  FrameInv'
  BY <1>1, FrameUntouched DEF Frame!SetIndicatorSignal
<1>2. CASE Frame!AddRows
  <2>1. /\ phase \in {"adding", "refreshed"} /\ revision' = revision + 1 /\ phase' = "added"
        /\ UNCHANGED <<columns, registered>>
    BY <1>2 DEF Frame!AddRows, FrameInv, FrameTypes
  <2>2. revision \in Nat /\ revision # 0 /\ revision' - 1 = revision /\ revision' \in Nat \ {0}
    BY <2>1 DEF FrameInv, FrameTypes
  <2>3. FrameTypes'
    BY <2>1, <2>2 DEF FrameInv, FrameTypes, Covered
  <2>4. \A c \in Frame!Columns \ {"rsi"} : columns[c] \in {0, revision}
    BY <2>1 DEF FrameInv, Dated
  <2> QED
    BY <2>1, <2>2, <2>3, <2>4 DEF FrameInv, Dated
<1>3. ASSUME NEW holds, Frame!CheckSignals(holds) PROVE FrameInv'
  BY <1>3, FrameUntouched DEF Frame!CheckSignals
<1>4. CASE UNCHANGED Frame!vars
  BY <1>4, FrameUntouched DEF Frame!vars
<1> QED
  BY <1>1, <1>2, <1>3, <1>4, IndicatorAdded, FrameRefreshed DEF Frame!Next

(* Only its own steps change a component.                                   *)
LEMMA IndicatorsAlone ==
  /\ DeskInit /\ part = "indicators" => Frame!Init
  /\ [DeskNext]_desk /\ part' = "indicators" => part = "indicators" /\ [Frame!Next]_(Frame!vars)
<1>1. DeskInit /\ part = "indicators" => Frame!Init
  BY DEF DeskInit, PartInit
<1>2. ASSUME DeskNext, part' = "indicators" PROVE part = "indicators" /\ Frame!Next
  BY <1>2 DEF DeskNext, SessionRuns, ConsoleRuns, RegistryRuns, TradeRuns, RobotRuns, IndicatorsRun, TrainingRuns, ReplayRuns
<1>3. ASSUME UNCHANGED desk, part' = "indicators" PROVE part = "indicators" /\ UNCHANGED Frame!vars
  BY <1>3 DEF desk, frame, Frame!vars
<1> QED
  BY <1>1, <1>2, <1>3

(* The invariant gives what the run checks.                                 *)
LEMMA ColumnsAreDated ==
  ASSUME FrameInv
  PROVE  Frame!RefreshedColumns
<1> SUFFICES ASSUME phase = "refreshed", NEW c \in Frame!Columns, columns[c] # 0
             PROVE  /\ c # "rsi" => columns[c] = revision
                    /\ c = "rsi" => columns[c] + 1 >= revision
                    /\ c = "rsi" /\ Frame!ChangesFirst /\ Frame!Cardinality(Frame!Index("rsi")) = 1 => columns[c] = revision
  BY DEF Frame!RefreshedColumns
<1>1. /\ revision \in Nat \ {0} /\ registered \in Seq(Indicators)
      /\ c # "rsi" => columns[c] \in {0, revision}
      /\ c = "rsi" => columns[c] \in {0, revision - 1, revision}
      /\ (\E j, r \in DOMAIN registered : InPlace(j, r)) => columns["rsi"] = revision
  BY DEF FrameInv, FrameTypes, Dated
<1>2. ASSUME Frame!ChangesFirst, Frame!Cardinality(Frame!Index("rsi")) = 1
      PROVE  \E j, r \in DOMAIN registered : InPlace(j, r)
  <2>1. Frame!Cardinality(Frame!Index("rsi")) = Cardinality(Frame!Index("rsi"))
    BY DEF Frame!Cardinality, Cardinality
  <2>2. IsFiniteSet(Frame!Index("rsi"))
    <3>1. DOMAIN registered = 1..Len(registered) /\ Len(registered) \in Nat
      BY <1>1, LenProperties
    <3>2. Frame!Index("rsi") \subseteq 1..Len(registered)
      BY <3>1 DEF Frame!Index
    <3>3. IsFiniteSet(1..Len(registered))
      <4>1. 1 \in Int /\ Len(registered) \in Int
        BY <3>1
      <4> QED
        BY <4>1, FS_Interval
    <3> HIDE DEF Frame!Index
    <3> QED
      BY <3>2, <3>3, FS_Subset
  <2>3. PICK r : Frame!Index("rsi") = {r}
    BY <1>2, <2>1, <2>2, FS_Singleton
  <2>4. PICK j \in Frame!Index("change_in_price") : \A k \in Frame!Index("rsi") : j < k
    BY <1>2 DEF Frame!ChangesFirst
  <2>5. InPlace(j, r) /\ j \in DOMAIN registered /\ r \in DOMAIN registered
    BY <2>3, <2>4 DEF InPlace, Frame!Index
  <2> QED
    BY <2>5
<1> QED
  BY <1>1, <1>2

\* Indicators: where every indicator has a key of its own, a refresh leaves every
\* column of the current rows but rsi, which misses at most the latest bar.
THEOREM ColumnsAreRefreshed == KeysDiffer => (DeskSpec => []RefreshedColumns)
<1> SUFFICES ASSUME KeysDiffer PROVE DeskSpec => []RefreshedColumns
  OBVIOUS
<1>1. Frame!Init => FrameInv
  <2> SUFFICES ASSUME Frame!Init PROVE FrameInv
    OBVIOUS
  <2>1. /\ revision = 1 /\ columns = [c \in Frame!Columns |-> 0] /\ registered = <<>> /\ phase = "adding"
    BY DEF Frame!Init
  <2>2. columns \in Frames /\ (\A c \in Frame!Columns : columns[c] = 0) /\ registered \in Seq(Indicators)
    BY <2>1, EmptySeq DEF Frames
  <2> QED
    BY <2>1, <2>2 DEF FrameInv, FrameTypes, Dated
<1>2. DeskInit => (part = "indicators" => FrameInv)
  BY <1>1, IndicatorsAlone
<1>3. (part = "indicators" => FrameInv) /\ [DeskNext]_desk => (part = "indicators" => FrameInv)'
  BY IndicatorsAlone, FrameStays
<1>4. (part = "indicators" => FrameInv) => RefreshedColumns
  BY ColumnsAreDated DEF RefreshedColumns
<1> QED
  BY <1>2, <1>3, <1>4, PTL DEF DeskSpec

-----------------------------------------------------------------------------
(* Training: the rows and the days of a table. *)

(* The place of a symbol.                                                   *)
LEMMA PlaceIs ==
  ASSUME NEW s \in Fitting!Symbols
  PROVE  Fitting!Place(s) \in Nat /\ Universe[Fitting!Place(s)] = s
<1> DEFINE I == {i \in 1..Len(Universe) : Universe[i] = s}
           R == {p \in Nat \X Nat : p[2] < p[1]}
<1>1. Len(Universe) \in Nat /\ DOMAIN Universe = 1..Len(Universe)
  BY TrainingConstants, LenProperties
<1>2. I # {}
  BY <1>1 DEF Fitting!Symbols, Fitting!Range
<1>3. IsFiniteSet(1..Len(Universe))
  <2>1. 1 \in Int /\ Len(Universe) \in Int
    BY <1>1
  <2> QED
    BY <2>1, FS_Interval
<1>4. IsFiniteSet(I)
  BY <1>3, FS_Subset
<1>5. \A x, y \in I : x \in Nat /\ y \in Nat /\ (<<x, y>> \in R <=> y < x)
  BY <1>1
<1>6. Ordered(I, R)
  <2> HIDE DEF I, R
  <2> QED
    BY <1>4, <1>5 DEF Ordered
<1>7. PICK m \in I : \A x \in I : x = m \/ <<x, m>> \in R
  <2> HIDE DEF I, R
  <2> QED
    BY <1>2, <1>6, LastExists
<1>8. \A x \in I : m <= x
  <2> HIDE DEF I, R
  <2> TAKE x \in I
  <2>1. x \in Nat /\ m \in Nat /\ (<<x, m>> \in R <=> m < x)
    BY <1>5
  <2>2. x = m \/ <<x, m>> \in R
    BY <1>7
  <2> QED
    BY <2>1, <2>2
<1>9. Fitting!Place(s) = Fitting!Min(I)
  BY <1>2 DEF Fitting!Place, Fitting!SelectInSeq
<1>10. Fitting!Min(I) \in I
  BY <1>8 DEF Fitting!Min
<1> QED
  BY <1>1, <1>9, <1>10

\* The days of the clean rows, and the order of the rows.
CleanDays == {r[2] : r \in Fitting!CleanRows}
RowOrder == {p \in Fitting!Rows \X Fitting!Rows : Fitting!Before(p[1], p[2])}

(* The bars of a symbol are finitely many days, ...                         *)
LEMMA RowIs ==
  ASSUME bars \in [Fitting!Symbols -> Calendars], NEW r \in Fitting!Rows
  PROVE  /\ r[1] \in Fitting!Symbols /\ r[2] \in bars[r[1]] /\ r = <<r[1], r[2]>>
         /\ IsFiniteSet(bars[r[1]]) /\ bars[r[1]] \subseteq Nat
BY TrainingConstants DEF Fitting!Rows

(* ... so the rows are finitely many, ...                                   *)
LEMMA RowsFinite ==
  ASSUME bars \in [Fitting!Symbols -> Calendars]
  PROVE  IsFiniteSet(Fitting!Rows)
<1>1. IsFiniteSet(Fitting!Symbols)
  <2>1. Len(Universe) \in Nat /\ DOMAIN Universe = 1..Len(Universe)
    BY TrainingConstants, LenProperties
  <2>2. IsFiniteSet(DOMAIN Universe)
    <3>1. 1 \in Int /\ Len(Universe) \in Int
      BY <2>1
    <3> QED
      BY <2>1, <3>1, FS_Interval
  <2>3. Universe \in [DOMAIN Universe -> Fitting!Symbols]
    BY <2>1, TrainingConstants
  <2>4. Universe \in Surjection(DOMAIN Universe, Fitting!Symbols)
    BY <2>3 DEF Surjection, Fitting!Symbols, Fitting!Range
  <2> QED
    BY <2>2, <2>4, FS_Surjection
<1> DEFINE Used == Fitting!Range(bars)
<1>2. bars \in Surjection(Fitting!Symbols, Used)
  BY DEF Surjection, Fitting!Range
<1>3. IsFiniteSet(Used)
  BY <1>1, <1>2, FS_Surjection
<1>4. \A c \in Used : IsFiniteSet(c)
  BY TrainingConstants DEF Fitting!Range
<1>5. IsFiniteSet(UNION Used)
  BY <1>3, <1>4, FS_UNION
<1>6. IsFiniteSet(Fitting!Symbols \X UNION Used)
  BY <1>1, <1>5, FS_Product
<1>7. Fitting!Rows \in SUBSET (Fitting!Symbols \X UNION Used)
  BY DEF Fitting!Rows
<1> QED
  BY <1>6, <1>7, FS_Subset

(* ... and in order.                                                        *)
LEMMA RowsOrdered ==
  ASSUME bars \in [Fitting!Symbols -> Calendars]
  PROVE  Ordered(Fitting!Rows, RowOrder)
<1> DEFINE P(r) == Fitting!Place(r[1])
<1>1. ASSUME NEW r \in Fitting!Rows
      PROVE  /\ P(r) \in Nat /\ Universe[P(r)] = r[1] /\ r[2] \in Nat /\ r = <<r[1], r[2]>>
  BY RowIs, PlaceIs
<1>2. ASSUME NEW q \in Fitting!Rows, NEW r \in Fitting!Rows
      PROVE  <<q, r>> \in RowOrder <=> P(q) < P(r) \/ (q[1] = r[1] /\ q[2] < r[2])
  BY DEF RowOrder, Fitting!Before
<1>3. ASSUME NEW q \in Fitting!Rows, NEW r \in Fitting!Rows
      PROVE  q[1] = r[1] <=> P(q) = P(r)
  BY <1>1
<1> HIDE DEF P
<1>4. ASSUME NEW x \in Fitting!Rows, NEW y \in Fitting!Rows, x # y
      PROVE  <<x, y>> \in RowOrder \/ <<y, x>> \in RowOrder
  <2>1. x[1] # y[1] \/ x[2] # y[2]
    BY <1>1, <1>4
  <2> QED
    BY <1>1, <1>2, <1>3, <2>1
<1>5. ASSUME NEW x \in Fitting!Rows, NEW y \in Fitting!Rows, <<x, y>> \in RowOrder
      PROVE  <<y, x>> \notin RowOrder
  BY <1>1, <1>2, <1>3, <1>5
<1>6. ASSUME NEW x \in Fitting!Rows, NEW y \in Fitting!Rows, NEW z \in Fitting!Rows,
             <<x, y>> \in RowOrder, <<y, z>> \in RowOrder
      PROVE  <<x, z>> \in RowOrder
  BY <1>1, <1>2, <1>3, <1>6
<1> QED
  BY <1>4, <1>5, <1>6, RowsFinite DEF Ordered

(* Rows are written in this order.                                          *)
LEMMA InOrderIs ==
  ASSUME NEW rows \in SUBSET Fitting!Rows
  PROVE  Fitting!InOrder(rows) = Ranked(rows, RowOrder)
<1>1. \A r \in rows : Below(rows, RowOrder, r) = {q \in rows : Fitting!Before(q, r)}
  BY DEF Below, RowOrder
<1>2. Fitting!InOrder(rows) = [i \in 1..Cardinality(rows) |->
                                 CHOOSE r \in rows : Cardinality({q \in rows : Fitting!Before(q, r)}) = i - 1]
  BY DEF Fitting!InOrder, Fitting!Sorted, Fitting!Cardinality, Cardinality
<1>3. ASSUME NEW i
      PROVE  (CHOOSE r \in rows : Cardinality({q \in rows : Fitting!Before(q, r)}) = i - 1)
             = (CHOOSE r \in rows : Cardinality(Below(rows, RowOrder, r)) = i - 1)
  BY <1>1
<1> QED
  BY <1>2, <1>3 DEF Ranked

\* What a training is about, none of which changes.
TrainData ==
  /\ geometry \in Geometries
  /\ bars \in [Fitting!Symbols -> Calendars]
  /\ clean = Ranked(Fitting!CleanRows, RowOrder)
  /\ dates = Ranked(CleanDays, Smaller)

\* The rows have a label, and their days are in order.
TableSound ==
  /\ Fitting!Clean = Fitting!CleanRows /\ Fitting!CleanRows \subseteq Fitting!LabelledRows
  /\ IsFiniteSet(Fitting!CleanRows)
  /\ dates \in Seq(CleanDays) /\ Len(dates) \in Nat /\ DOMAIN dates = 1..Len(dates) /\ CleanDays \subseteq Nat
  /\ \A i \in DOMAIN dates : dates[i] \in Nat
  /\ \A i, j \in DOMAIN dates : i < j => dates[i] < dates[j]

(* Which they are.                                                          *)
LEMMA TableIsSound ==
  ASSUME TrainData
  PROVE  TableSound
<1> DEFINE C == Fitting!CleanRows
<1>1. bars \in [Fitting!Symbols -> Calendars] /\ clean = Ranked(C, RowOrder) /\ dates = Ranked(CleanDays, Smaller)
  BY DEF TrainData
<1>2. C \in SUBSET Fitting!Rows /\ C \subseteq Fitting!LabelledRows
  BY DEF Fitting!CleanRows, Fitting!LabelledRows
<1>3. Ordered(C, RowOrder) /\ IsFiniteSet(C)
  BY <1>1, <1>2, RowsOrdered, OrderedPart DEF Ordered
<1>4. CleanDays \subseteq Nat
  <2>1. \A r \in C : r[2] \in Nat
    BY <1>1, <1>2, RowIs
  <2> QED
    BY <2>1 DEF CleanDays
<1>5. IsFiniteSet(CleanDays)
  <2> DEFINE f == [r \in C |-> r[2]]
  <2>1. f \in Surjection(C, CleanDays)
    BY DEF Surjection, CleanDays
  <2> QED
    BY <1>3, <2>1, FS_Surjection
<1> HIDE DEF C
<1>6. Fitting!Clean = C
  <2>1. DOMAIN clean = 1..Cardinality(C) /\ (\A x \in C : \E i \in DOMAIN clean : clean[i] = x)
        /\ \A i \in DOMAIN clean : clean[i] \in C
    BY <1>1, <1>3, RankedIs
  <2> QED
    BY <2>1 DEF Fitting!Clean, Fitting!Range
<1>7. /\ dates \in Seq(CleanDays) /\ Len(dates) \in Nat /\ DOMAIN dates = 1..Len(dates)
      /\ \A i \in DOMAIN dates : dates[i] \in CleanDays
      /\ \A i, j \in DOMAIN dates : i < j => <<dates[i], dates[j]>> \in Smaller
  <2>1. Ordered(CleanDays, Smaller)
    BY <1>4, <1>5, NumbersOrdered
  <2> DEFINE N == Cardinality(CleanDays)
             s == Ranked(CleanDays, Smaller)
  <2>2. /\ s \in Seq(CleanDays) /\ Len(s) = N /\ N \in Nat /\ DOMAIN s = 1..N
        /\ \A i \in 1..N : s[i] \in CleanDays
        /\ \A i, j \in 1..N : i < j => <<s[i], s[j]>> \in Smaller
    BY <2>1, RankedIs
  <2>3. dates = s
    BY <1>1
  <2> HIDE DEF s, N
  <2> QED
    BY <2>2, <2>3
<1>8. \A i, j \in DOMAIN dates : i < j => dates[i] < dates[j]
  BY <1>7 DEF Smaller
<1> QED
  BY <1>2, <1>3, <1>4, <1>6, <1>7, <1>8 DEF TableSound, C

-----------------------------------------------------------------------------
(* Folds. *)

\* A fold there is.
FoldAt(n) == Fitting!Enough /\ n < geometry.splits /\ Fitting!TestStart(n) <= Fitting!TestEnd(n)

(* The days from a fold to the next.                                        *)
LEMMA StepIs ==
  ASSUME TrainData, 0 < geometry.splits
  PROVE  /\ Fitting!Step \in Nat
         /\ geometry.splits # 1 =>
              Fitting!Step >= 1 /\ Fitting!Step >= (Len(dates) - Fitting!Required) \div (geometry.splits - 1)
<1>1. /\ geometry.splits \in Nat /\ geometry.train \in Nat /\ geometry.test \in Nat /\ geometry.embargo \in Nat
      /\ Len(dates) \in Nat
  BY TrainingConstants, TableIsSound DEF TrainData, TableSound
<1>2. CASE geometry.splits = 1
  BY <1>1, <1>2 DEF Fitting!Step
<1>3. CASE geometry.splits # 1
  <2> DEFINE a == Len(dates) - Fitting!Required
             b == geometry.splits - 1
             q == a \div b
  <2>1. a \in Int /\ b \in Nat \ {0}
    BY <1>1, <1>3 DEF Fitting!Required
  <2> HIDE DEF a, b
  <2>2. q \in Int
    BY <2>1
  <2>3. Fitting!Step = Fitting!Max({1, q})
    BY <1>3 DEF Fitting!Step, a, b
  <2> HIDE DEF q
  <2>4. \E x \in {1, q} : \A y \in {1, q} : x >= y
    BY <2>2
  <2>5. Fitting!Max({1, q}) \in {1, q} /\ \A y \in {1, q} : Fitting!Max({1, q}) >= y
    BY <2>4 DEF Fitting!Max
  <2> QED
    BY <1>3, <2>2, <2>3, <2>5 DEF a, b, q
<1> QED
  BY <1>2, <1>3

(* The bounds of a fold.                                                    *)
LEMMA FoldIs ==
  ASSUME TrainData, NEW n \in Nat, FoldAt(n)
  PROVE  /\ Fitting!TrainEnd(n) \in Nat \ {0} /\ geometry.embargo \in Nat /\ geometry.test \in Nat
         /\ Fitting!TrainEnd(n) = geometry.train + n * Fitting!Step
         /\ Fitting!TestStart(n) = Fitting!TrainEnd(n) + geometry.embargo + 1
         /\ Fitting!TestEnd(n) \in Nat /\ Fitting!TestStart(n) <= Fitting!TestEnd(n)
         /\ Fitting!TestEnd(n) <= Fitting!TestStart(n) + geometry.test - 1
         /\ Fitting!TestEnd(n) <= Len(dates)
<1>1. /\ geometry.splits \in Nat /\ geometry.train \in Nat \ {0} /\ geometry.test \in Nat /\ geometry.embargo \in Nat
      /\ Len(dates) \in Nat
  BY TrainingConstants, TableIsSound DEF TrainData, TableSound
<1>2. n < geometry.splits /\ Fitting!TestStart(n) <= Fitting!TestEnd(n)
  BY DEF FoldAt
<1>3. Fitting!Step \in Nat
  BY <1>1, <1>2, StepIs
<1>4. n * Fitting!Step \in Nat
  BY <1>3
<1>5. /\ Fitting!TrainEnd(n) = geometry.train + n * Fitting!Step
      /\ Fitting!TestStart(n) = Fitting!TrainEnd(n) + geometry.embargo + 1
  BY DEF Fitting!TrainEnd, Fitting!TestStart
<1> DEFINE u == Fitting!TestStart(n) + geometry.test - 1
           v == Len(dates)
<1>6. Fitting!TrainEnd(n) \in Nat \ {0} /\ Fitting!TestStart(n) \in Nat /\ u \in Nat /\ v \in Nat
  <2> HIDE DEF v
  <2>1. Fitting!TrainEnd(n) \in Nat \ {0}
    BY <1>1, <1>4, <1>5
  <2> QED
    BY <1>1, <1>5, <2>1 DEF v
<1>7. Fitting!TestEnd(n) = Fitting!Min({u, v})
  BY DEF Fitting!TestEnd
<1> HIDE DEF u, v
<1>8. \E x \in {u, v} : \A y \in {u, v} : x <= y
  BY <1>6
<1>9. Fitting!Min({u, v}) \in {u, v} /\ \A y \in {u, v} : Fitting!Min({u, v}) <= y
  BY <1>8 DEF Fitting!Min
<1> QED
  BY <1>1, <1>2, <1>5, <1>6, <1>7, <1>9 DEF u, v

(* No training label of a fold reaches into its test, and days between are  *)
(* left out.                                                                *)
LEMMA FoldIsClosed ==
  ASSUME TrainData, NEW n \in Nat, FoldAt(n), NEW r \in Fitting!TrainRows(n), NEW t \in Fitting!TestRows(n)
  PROVE  /\ r[1] = t[1] => Fitting!LabelEnd(r) < t[2]
         /\ Fitting!Cardinality({d \in Fitting!Range(dates) : r[2] < d /\ d < t[2]}) >= geometry.embargo
<1> DEFINE test == Fitting!TestRows(n)
<1>1. TableSound
  BY TableIsSound
<1>2. /\ r \in Fitting!CleanRows /\ r[2] <= dates[Fitting!TrainEnd(n)] /\ Fitting!KeptForTraining(r, test)
  BY <1>1 DEF Fitting!TrainRows, TableSound
<1>3. t \in Fitting!CleanRows /\ t[2] >= dates[Fitting!TestStart(n)]
  BY <1>1 DEF Fitting!TestRows, TableSound
<1>4. bars \in [Fitting!Symbols -> Calendars] /\ geometry.horizon \in Nat
  BY TrainingConstants DEF TrainData
<1>5. /\ r \in Fitting!Rows /\ t \in Fitting!Rows
      /\ Fitting!Rank(r[1], r[2]) + geometry.horizon <= Fitting!Cardinality(bars[r[1]])
  BY <1>2, <1>3 DEF Fitting!CleanRows, Fitting!LabelledRows
<1>6. ASSUME r[1] = t[1] PROVE Fitting!LabelEnd(r) < t[2]
  <2> DEFINE s == r[1]
             T == bars[s]
             h == geometry.horizon
             e == Fitting!LabelEnd(r)
             Upto(d) == {b \in T : b <= d}
             P == {q \in Fitting!Prior(s, test) : q[2] >= r[2]}
             D == {d \in T : r[2] <= d /\ d < t[2]}
  <2>1. s \in Fitting!Symbols /\ T \subseteq Nat /\ IsFiniteSet(T) /\ r[2] \in T /\ t[2] \in T
    BY <1>4, <1>5, <1>6, RowIs
  <2>2. \A d : Fitting!Rank(s, d) = Cardinality(Upto(d))
    BY DEF Fitting!Rank, Fitting!Cardinality, Cardinality
  <2>3. Cardinality(P) > h
    BY <1>2 DEF Fitting!KeptForTraining, Fitting!Cardinality, Cardinality
  <2>4. \A q \in P : q = <<s, q[2]>> /\ q[2] \in D
    <3> SUFFICES ASSUME NEW q \in P PROVE q = <<s, q[2]>> /\ q[2] \in D
      OBVIOUS
    <3>1. q \in Fitting!CleanRows /\ q[1] = s /\ q[2] < t[2] /\ q[2] >= r[2]
      BY <1>1, <1>6 DEF Fitting!Prior, TableSound
    <3>2. q = <<q[1], q[2]>> /\ q[2] \in bars[q[1]]
      BY <1>4, <3>1, RowIs DEF Fitting!CleanRows, Fitting!LabelledRows
    <3> QED
      BY <2>1, <3>1, <3>2
  <2>5. Cardinality(D) >= Cardinality(P) /\ IsFiniteSet(D) /\ D \in SUBSET T /\ Cardinality(D) \in Nat /\ Cardinality(P) \in Nat
    <3>1. IsFiniteSet(D) /\ D \in SUBSET T
      BY <2>1, FS_Subset
    <3> DEFINE f == [q \in P |-> q[2]]
    <3> HIDE DEF P, D
    <3>2. f \in Injection(P, D)
      BY <2>4 DEF Injection, IsInjective
    <3>3. IsFiniteSet(P) /\ Cardinality(P) <= Cardinality(D)
      BY <3>1, <3>2, FS_Injection
    <3>4. Cardinality(D) \in Nat /\ Cardinality(P) \in Nat
      BY <3>1, <3>3, FS_CardinalityType
    <3> QED
      BY <3>1, <3>3, <3>4
  <2>6. e \in T /\ Cardinality(Upto(e)) = Cardinality(Upto(r[2])) + h
    <3> DEFINE k == Cardinality(Upto(r[2])) + h
    <3>1. Cardinality(Upto(r[2])) \in Nat /\ Cardinality(Upto(r[2])) # 0 /\ Cardinality(T) \in Nat
      <4>1. Upto(r[2]) \in SUBSET T /\ r[2] \in Upto(r[2])
        BY <2>1
      <4> HIDE DEF Upto, T
      <4>2. IsFiniteSet(Upto(r[2]))
        BY <2>1, <4>1, FS_Subset
      <4> QED
        BY <2>1, <4>1, <4>2, FS_CardinalityType, FS_EmptySet
    <3>2. k <= Cardinality(T)
      BY <1>5, <2>2 DEF Fitting!Cardinality, Cardinality
    <3>3. k \in 1..Cardinality(T)
      <4> HIDE DEF Upto, T, h
      <4> QED
        BY <1>4, <3>1, <3>2 DEF h
    <3>4. \E d \in T : Cardinality(Upto(d)) = k
      <4> HIDE DEF T, k
      <4> QED
        BY <2>1, <3>3, NumberOfRank
    <3>5. e = CHOOSE d \in T : Fitting!Rank(s, d) = Fitting!Rank(s, r[2]) + h
      BY DEF Fitting!LabelEnd
    <3>6. \A d : Fitting!Rank(s, d) = Fitting!Rank(s, r[2]) + h <=> Cardinality(Upto(d)) = k
      BY <2>2
    <3> HIDE DEF T, Upto, k, e, h
    <3>7. e \in T /\ Fitting!Rank(s, e) = Fitting!Rank(s, r[2]) + h
      BY <3>4, <3>5, <3>6
    <3> QED
      BY <3>6, <3>7 DEF k
  <2>7. Cardinality(D) > h /\ h \in Nat
    <3> HIDE DEF P, D, h
    <3> QED
      BY <1>4, <2>3, <2>5 DEF h
  <2>8. \A d \in D : r[2] <= d /\ d < t[2]
    OBVIOUS
  <2> HIDE DEF T, h, e, D
  <2> QED
    BY <2>1, <2>5, <2>6, <2>7, <2>8, RankedBefore DEF e
<1>7. Fitting!Cardinality({d \in Fitting!Range(dates) : r[2] < d /\ d < t[2]}) >= geometry.embargo
  <2> DEFINE a == Fitting!TrainEnd(n) + 1
             b == Fitting!TrainEnd(n) + geometry.embargo
             Gap == {d \in Fitting!Range(dates) : r[2] < d /\ d < t[2]}
             f == [i \in a..b |-> dates[i]]
  <2>1. /\ a \in Nat /\ b \in Nat /\ Fitting!TrainEnd(n) \in DOMAIN dates /\ Fitting!TestStart(n) \in DOMAIN dates
        /\ \A i \in a..b : i \in DOMAIN dates /\ Fitting!TrainEnd(n) < i /\ i < Fitting!TestStart(n)
        /\ b - a + 1 = geometry.embargo /\ geometry.embargo \in Nat /\ Len(dates) \in Nat /\ DOMAIN dates = 1..Len(dates)
    <3>1. Len(dates) \in Nat /\ DOMAIN dates = 1..Len(dates)
      BY <1>1 DEF TableSound
    <3> QED
      BY <3>1, FoldIs
  <2>2. /\ \A i \in DOMAIN dates : dates[i] \in Nat
        /\ \A i, j \in DOMAIN dates : i < j => dates[i] < dates[j]
    BY <1>1 DEF TableSound
  <2>3. r[2] \in Nat /\ t[2] \in Nat
    BY <1>4, <1>5, RowIs
  <2> HIDE DEF a, b
  <2>4. \A i \in a..b : dates[i] \in Gap
    <3> SUFFICES ASSUME NEW i \in a..b PROVE dates[i] \in Gap
      OBVIOUS
    <3>1. /\ dates[i] \in Nat /\ dates[Fitting!TrainEnd(n)] \in Nat /\ dates[Fitting!TestStart(n)] \in Nat
          /\ dates[Fitting!TrainEnd(n)] < dates[i] /\ dates[i] < dates[Fitting!TestStart(n)]
      BY <2>1, <2>2
    <3>2. r[2] < dates[i] /\ dates[i] < t[2]
      BY <1>2, <1>3, <2>3, <3>1
    <3>3. dates[i] \in Fitting!Range(dates)
      BY <2>1 DEF Fitting!Range
    <3> QED
      BY <3>2, <3>3
  <2>5. \A i, j \in a..b : i # j => dates[i] # dates[j]
    BY <2>1, <2>2
  <2>6. f \in Injection(a..b, Gap)
    <3> HIDE DEF Gap
    <3> QED
      BY <2>4, <2>5 DEF Injection, IsInjective
  <2>7. IsFiniteSet(Gap)
    <3>1. dates \in Surjection(DOMAIN dates, Fitting!Range(dates))
      BY <1>1 DEF Surjection, Fitting!Range, TableSound
    <3>2. IsFiniteSet(DOMAIN dates)
      <4>1. 1 \in Int /\ Len(dates) \in Int
        BY <2>1
      <4> QED
        BY <2>1, <4>1, FS_Interval
    <3>3. IsFiniteSet(Fitting!Range(dates))
      BY <3>1, <3>2, FS_Surjection
    <3> QED
      BY <3>3, FS_Subset
  <2> HIDE DEF Gap, f
  <2>8. Cardinality(a..b) <= Cardinality(Gap)
    BY <2>6, <2>7, FS_Injection
  <2>9. Cardinality(a..b) = geometry.embargo
    <3>1. a \in Int /\ b \in Int
      BY <2>1
    <3>2. Cardinality(a..b) = IF a > b THEN 0 ELSE b - a + 1
      BY <3>1, FS_Interval
    <3> QED
      BY <2>1, <3>2
  <2>10. Fitting!Cardinality(Gap) = Cardinality(Gap)
    BY DEF Fitting!Cardinality, Cardinality
  <2>11. Cardinality(Gap) \in Nat
    BY <2>7, FS_CardinalityType
  <2> QED
    BY <2>1, <2>8, <2>9, <2>10, <2>11 DEF Gap
<1> QED
  BY <1>6, <1>7

\* The days are enough for folds a test period apart.
Long == Len(dates) >= Fitting!Required + (geometry.splits - 1) * geometry.test

(* Then a test ends before the next begins.                                 *)
LEMMA FoldsApart ==
  ASSUME TrainData, Long, NEW n \in Nat, NEW m \in Nat, n < m, FoldAt(n), FoldAt(m)
  PROVE  Fitting!TestEnd(n) < Fitting!TestStart(m)
<1> DEFINE b == geometry.splits - 1
           a == Len(dates) - Fitting!Required
           step == Fitting!Step
           test == geometry.test
<1>1. /\ geometry.splits \in Nat /\ geometry.train \in Nat /\ test \in Nat /\ geometry.embargo \in Nat
      /\ Len(dates) \in Nat /\ m < geometry.splits /\ 0 < geometry.splits /\ geometry.splits # 1
  <2>1. m < geometry.splits
    BY DEF FoldAt
  <2>2. geometry.splits \in Nat /\ geometry.train \in Nat /\ test \in Nat /\ geometry.embargo \in Nat /\ Len(dates) \in Nat
    BY TrainingConstants, TableIsSound DEF TrainData, TableSound
  <2> QED
    BY <2>1, <2>2
<1>2. b \in Nat \ {0} /\ a \in Int /\ b * test \in Nat /\ a >= b * test
  <2>1. b \in Nat \ {0} /\ a \in Int
    BY <1>1 DEF Fitting!Required
  <2>2. Len(dates) >= Fitting!Required + b * test
    BY DEF Long
  <2>3. Fitting!Required \in Nat
    BY <1>1 DEF Fitting!Required
  <2>4. b * test \in Nat
    BY <1>1, <2>1
  <2> HIDE DEF b, test
  <2> QED
    BY <1>1, <2>1, <2>2, <2>3, <2>4
<1>3. step \in Nat /\ step >= a \div b
  BY <1>1, StepIs
<1> HIDE DEF b, a, step, test
<1>4. step >= test
  <2> DEFINE q == a \div b
  <2>1. a \in Nat /\ q \in Nat
    BY <1>1, <1>2
  <2>2. a < b * (q + 1)
    BY <1>2, <2>1
  <2> HIDE DEF q
  <2>3. ASSUME q + 1 <= test PROVE FALSE
    <3>1. (q + 1) * b <= test * b
      BY <1>1, <1>2, <2>1, <2>3, ProductGrows
    <3>2. (q + 1) * b = b * (q + 1) /\ test * b = b * test
      BY <1>1, <1>2, <2>1
    <3>3. (q + 1) * b \in Nat /\ test * b \in Nat
      BY <1>1, <1>2, <2>1
    <3> QED
      BY <1>2, <2>1, <2>2, <3>1, <3>2, <3>3
  <2> QED
    BY <1>1, <1>3, <2>1, <2>3 DEF q
<1>5. (n + 1) * step <= m * step /\ (n + 1) * step = n * step + step /\ n * step \in Nat /\ m * step \in Nat
  BY <1>3, ProductGrows
<1>6. /\ Fitting!TestStart(m) = geometry.train + m * step + geometry.embargo + 1
      /\ Fitting!TestStart(n) = geometry.train + n * step + geometry.embargo + 1
      /\ Fitting!TestEnd(n) \in Nat /\ Fitting!TestEnd(n) <= Fitting!TestStart(n) + test - 1
  BY FoldIs DEF step, test
<1> DEFINE p == (n + 1) * step
           x == n * step
           y == m * step
           end == Fitting!TestEnd(n)
           first == Fitting!TestStart(n)
           next == Fitting!TestStart(m)
<1>7. /\ p <= y /\ p = x + step /\ x \in Nat /\ y \in Nat
      /\ next = geometry.train + y + geometry.embargo + 1 /\ first = geometry.train + x + geometry.embargo + 1
      /\ end \in Nat /\ end <= first + test - 1
      /\ geometry.train \in Nat /\ geometry.embargo \in Nat /\ test \in Nat /\ step \in Nat /\ step >= test
  BY <1>1, <1>3, <1>4, <1>5, <1>6
<1> HIDE DEF p, x, y, end, first, next
<1>8. end < next
  BY <1>7
<1> QED
  BY <1>8 DEF end, next

(* So no row is in both.                                                    *)
LEMMA TestsApart ==
  ASSUME TrainData, Long, NEW n \in Nat, NEW m \in Nat, n < m, FoldAt(n), FoldAt(m)
  PROVE  Fitting!TestRows(n) \cap Fitting!TestRows(m) = {}
<1> SUFFICES ASSUME NEW r \in Fitting!TestRows(n) \cap Fitting!TestRows(m) PROVE FALSE
  OBVIOUS
<1>1. TableSound
  BY TableIsSound
<1>2. r[2] <= dates[Fitting!TestEnd(n)] /\ r[2] >= dates[Fitting!TestStart(m)] /\ r \in Fitting!CleanRows
  BY <1>1 DEF Fitting!TestRows, TableSound
<1>3. r[2] \in Nat
  BY <1>1, <1>2 DEF TableSound, CleanDays
<1>4. Fitting!TestEnd(n) \in DOMAIN dates /\ Fitting!TestStart(m) \in DOMAIN dates
  <2>1. DOMAIN dates = 1..Len(dates) /\ Len(dates) \in Nat
    BY <1>1 DEF TableSound
  <2> QED
    BY <2>1, FoldIs
<1>5. /\ dates[Fitting!TestEnd(n)] \in Nat /\ dates[Fitting!TestStart(m)] \in Nat
      /\ dates[Fitting!TestEnd(n)] < dates[Fitting!TestStart(m)]
  BY <1>1, <1>4, FoldsApart DEF TableSound
<1> QED
  BY <1>2, <1>3, <1>5

-----------------------------------------------------------------------------
(* What is kept of the folds. *)

\* The folds evaluated are some of those before the next one, each once.
Evaluated ==
  /\ fold \in Nat
  /\ folds \in Seq([train : SUBSET Fitting!Rows, test : SUBSET Fitting!Rows])
  /\ \A i \in DOMAIN folds :
       \E n \in Nat : FoldAt(n) /\ folds[i].train = Fitting!TrainRows(n) /\ folds[i].test = Fitting!TestRows(n)

\* A prediction is of a row that one of them tests; no row has two.
Predicted ==
  /\ oos \in Seq(Fitting!Rows)
  /\ \A i \in DOMAIN oos : \E n \in Nat : n < fold /\ FoldAt(n) /\ oos[i] \in Fitting!TestRows(n)
  /\ Long => \A i, j \in DOMAIN oos : i # j => oos[i] # oos[j]

TrainInv == TrainData /\ Evaluated /\ Predicted

(* A fold is evaluated.                                                     *)
LEMMA FoldStays ==
  ASSUME TrainInv, Fitting!Fold
  PROVE  TrainInv'
<1> DEFINE train == Fitting!TrainRows(fold)
           test == Fitting!TestRows(fold)
           F == [train : SUBSET Fitting!Rows, test : SUBSET Fitting!Rows]
<1>1. TrainData /\ TableSound /\ fold \in Nat
  BY TableIsSound DEF TrainInv, Evaluated
<1>2. /\ UNCHANGED <<geometry, bars, priced, clean, dates>> /\ fold' = fold + 1
      /\ UNCHANGED <<folds, oos>> \/ (folds' = Append(folds, [train |-> train, test |-> test])
                                       /\ oos' = oos \o Fitting!InOrder(test))
  BY DEF Fitting!Fold, Fitting!data
<1>3. FoldAt(fold)
  BY DEF FoldAt, Fitting!Fold, Fitting!HasFold
<1>4. /\ TrainData' /\ (Long' <=> Long) /\ Fitting!Rows' = Fitting!Rows
      /\ \A n : (FoldAt(n)' <=> FoldAt(n)) /\ Fitting!TrainRows(n)' = Fitting!TrainRows(n)
                /\ Fitting!TestRows(n)' = Fitting!TestRows(n)
  <2>1. TrainData' /\ (Long' <=> Long) /\ Fitting!Rows' = Fitting!Rows
    BY <1>1, <1>2
       DEF TrainData, Long, CleanDays, RowOrder, Fitting!Rows, Fitting!Required, Fitting!CleanRows,
           Fitting!LabelledRows, Fitting!Rank, Fitting!Before
  <2>2. ASSUME NEW n
        PROVE  /\ FoldAt(n)' <=> FoldAt(n)
               /\ Fitting!TrainRows(n)' = Fitting!TrainRows(n) /\ Fitting!TestRows(n)' = Fitting!TestRows(n)
    BY <1>2
       DEF FoldAt, Fitting!Enough, Fitting!Required, Fitting!TestStart, Fitting!TestEnd, Fitting!TrainEnd, Fitting!Step,
           Fitting!TrainRows, Fitting!TestRows, Fitting!Clean, Fitting!KeptForTraining, Fitting!Prior
  <2> QED
    BY <2>1, <2>2
<1>5. test \in SUBSET Fitting!Rows /\ train \in SUBSET Fitting!Rows
  BY <1>1 DEF TableSound, Fitting!TestRows, Fitting!TrainRows, Fitting!LabelledRows
<1>6. Ordered(test, RowOrder)
  BY <1>1, <1>5, RowsOrdered, OrderedPart DEF TrainData
<1> DEFINE more == Fitting!InOrder(test)
<1>7. more = Ranked(test, RowOrder)
  BY <1>5, InOrderIs
<1>8. /\ more \in Seq(Fitting!Rows) /\ Len(more) \in Nat /\ DOMAIN more = 1..Len(more)
      /\ \A i \in DOMAIN more : more[i] \in test
      /\ \A i, j \in DOMAIN more : i # j => more[i] # more[j]
  <2> DEFINE N == Cardinality(test)
             s == Ranked(test, RowOrder)
  <2>1. /\ s \in Seq(test) /\ Len(s) = N /\ N \in Nat /\ DOMAIN s = 1..N
        /\ \A i \in 1..N : s[i] \in test
        /\ \A i, j \in 1..N : i < j => <<s[i], s[j]>> \in RowOrder
    BY <1>6, RankedIs
  <2>2. \A x \in test : <<x, x>> \notin RowOrder
    BY <1>6 DEF Ordered
  <2> HIDE DEF s, N, test
  <2>3. \A i, j \in 1..N : i < j => s[i] # s[j]
    BY <2>1, <2>2
  <2>4. \A i, j \in 1..N : i # j => i < j \/ j < i
    BY <2>1
  <2>5. s \in Seq(Fitting!Rows)
    BY <1>5, <2>1
  <2>6. \A i, j \in 1..N : i # j => s[i] # s[j]
    BY <2>3, <2>4
  <2>7. more = s
    BY <1>7 DEF s
  <2> HIDE DEF more
  <2> QED
    BY <2>1, <2>5, <2>6, <2>7
<1> HIDE DEF train, test, more
<1>9. Evaluated'
  <2>1. /\ folds \in Seq(F) /\ fold' \in Nat
        /\ \A i \in DOMAIN folds :
             \E n \in Nat : FoldAt(n) /\ folds[i].train = Fitting!TrainRows(n) /\ folds[i].test = Fitting!TestRows(n)
    BY <1>1, <1>2 DEF TrainInv, Evaluated
  <2> DEFINE rec == [train |-> train, test |-> test]
  <2>2. rec \in F /\ rec.train = Fitting!TrainRows(fold) /\ rec.test = Fitting!TestRows(fold)
    BY <1>5 DEF train, test
  <2>3. folds' = folds \/ folds' = Append(folds, rec)
    BY <1>2 DEF more
  <2> HIDE DEF rec, F
  <2>4. folds' \in Seq(F)
    BY <2>1, <2>2, <2>3, AppendProperties
  <2>5. ASSUME NEW i \in DOMAIN folds'
        PROVE  \E n \in Nat : FoldAt(n) /\ folds'[i].train = Fitting!TrainRows(n) /\ folds'[i].test = Fitting!TestRows(n)
    <3>1. CASE folds' = folds
      BY <2>1, <3>1
    <3>2. CASE folds' = Append(folds, rec)
      <4>1. /\ Len(folds) \in Nat /\ DOMAIN folds = 1..Len(folds) /\ DOMAIN folds' = 1..(Len(folds) + 1)
            /\ folds'[Len(folds) + 1] = rec /\ \A k \in 1..Len(folds) : folds'[k] = folds[k]
        BY <2>1, <2>2, <2>4, <3>2, AppendProperties, LenProperties
      <4>2. CASE i = Len(folds) + 1
        BY <1>1, <1>3, <2>2, <4>1, <4>2
      <4>3. CASE i # Len(folds) + 1
        <5>1. i \in DOMAIN folds /\ folds'[i] = folds[i]
          BY <4>1, <4>3
        <5> QED
          BY <2>1, <5>1
      <4> QED
        BY <4>2, <4>3
    <3> QED
      BY <2>3, <3>1, <3>2
  <2> QED
    BY <1>4, <2>1, <2>4, <2>5 DEF Evaluated, F
<1>10. Predicted'
  <2>1. /\ oos \in Seq(Fitting!Rows)
        /\ \A i \in DOMAIN oos : \E n \in Nat : n < fold /\ FoldAt(n) /\ oos[i] \in Fitting!TestRows(n)
        /\ Long => \A i, j \in DOMAIN oos : i # j => oos[i] # oos[j]
    BY DEF TrainInv, Predicted
  <2>2. CASE oos' = oos
    <3>1. \A n \in Nat : n < fold => n < fold'
      BY <1>1, <1>2
    <3> QED
      BY <1>4, <2>1, <2>2, <3>1 DEF Predicted
  <2>3. CASE oos' = oos \o more
    <3> DEFINE L == Len(oos)
    <3>1. /\ L \in Nat /\ DOMAIN oos = 1..L /\ oos' \in Seq(Fitting!Rows) /\ DOMAIN oos' = 1..(L + Len(more))
          /\ \A i \in DOMAIN oos' : oos'[i] = IF i <= L THEN oos[i] ELSE more[i - L]
      <4>1. /\ oos' \in Seq(Fitting!Rows) /\ Len(oos') = L + Len(more)
            /\ \A i \in 1..(L + Len(more)) : oos'[i] = IF i <= L THEN oos[i] ELSE more[i - L]
        BY <1>8, <2>1, <2>3, ConcatProperties
      <4> QED
        BY <2>1, <4>1, LenProperties
    <3> HIDE DEF L
    <3>2. ASSUME NEW i \in DOMAIN oos'
          PROVE  \/ i \in DOMAIN oos /\ oos'[i] = oos[i]
                 \/ i > L /\ i - L \in DOMAIN more /\ oos'[i] = more[i - L]
      BY <1>8, <3>1
    <3>3. ASSUME NEW i \in DOMAIN oos'
          PROVE  \E n \in Nat : n < fold' /\ FoldAt(n) /\ oos'[i] \in Fitting!TestRows(n)
      <4>1. CASE i \in DOMAIN oos /\ oos'[i] = oos[i]
        <5>1. PICK n \in Nat : n < fold /\ FoldAt(n) /\ oos[i] \in Fitting!TestRows(n)
          BY <2>1, <4>1
        <5> QED
          BY <1>1, <1>2, <4>1, <5>1
      <4>2. CASE i - L \in DOMAIN more /\ oos'[i] = more[i - L]
        <5>1. oos'[i] \in Fitting!TestRows(fold) /\ fold < fold'
          BY <1>1, <1>2, <1>8, <4>2 DEF test
        <5> QED
          BY <1>1, <1>3, <5>1
      <4> QED
        BY <3>2, <4>1, <4>2
    <3>4. ASSUME Long, NEW i \in DOMAIN oos', NEW j \in DOMAIN oos', i # j
          PROVE  oos'[i] # oos'[j]
      <4>1. ASSUME NEW k \in DOMAIN oos PROVE oos[k] \notin test
        <5>1. PICK n \in Nat : n < fold /\ FoldAt(n) /\ oos[k] \in Fitting!TestRows(n)
          BY <2>1, <4>1
        <5> QED
          BY <1>1, <1>3, <3>4, <5>1, TestsApart DEF test
      <4>2. i \in Int /\ j \in Int
        BY <3>1
      <4>3. CASE i \in DOMAIN oos /\ oos'[i] = oos[i] /\ j \in DOMAIN oos /\ oos'[j] = oos[j]
        BY <2>1, <3>4, <4>3
      <4>4. CASE i \in DOMAIN oos /\ oos'[i] = oos[i] /\ j - L \in DOMAIN more /\ oos'[j] = more[j - L]
        BY <1>8, <4>1, <4>4
      <4>5. CASE j \in DOMAIN oos /\ oos'[j] = oos[j] /\ i - L \in DOMAIN more /\ oos'[i] = more[i - L]
        BY <1>8, <4>1, <4>5
      <4>6. CASE i - L \in DOMAIN more /\ oos'[i] = more[i - L] /\ j - L \in DOMAIN more /\ oos'[j] = more[j - L]
        <5>1. i - L # j - L
          BY <3>1, <3>4, <4>2
        <5> QED
          BY <1>8, <4>6, <5>1
      <4> QED
        BY <3>2, <4>3, <4>4, <4>5, <4>6
    <3> QED
      BY <1>4, <3>1, <3>3, <3>4 DEF Predicted
  <2> QED
    BY <1>2, <2>2, <2>3 DEF more, test
<1> QED
  BY <1>4, <1>9, <1>10 DEF TrainInv

(* Every step of the training.                                              *)
LEMMA TrainStays ==
  ASSUME TrainInv, [Fitting!Next]_(Fitting!vars)
  PROVE  TrainInv'
<1>1. ASSUME UNCHANGED <<geometry, bars, priced, clean, dates, fold, folds, oos>> PROVE TrainInv'
  <2>1. TrainData' /\ (Long' <=> Long) /\ Fitting!Rows' = Fitting!Rows
    BY <1>1
       DEF TrainInv, TrainData, Long, CleanDays, RowOrder, Fitting!Rows, Fitting!Required, Fitting!CleanRows,
           Fitting!LabelledRows, Fitting!Rank, Fitting!Before
  <2>2. ASSUME NEW n
        PROVE  /\ FoldAt(n)' <=> FoldAt(n)
               /\ Fitting!TrainRows(n)' = Fitting!TrainRows(n) /\ Fitting!TestRows(n)' = Fitting!TestRows(n)
    BY <1>1
       DEF FoldAt, Fitting!Enough, Fitting!Required, Fitting!TestStart, Fitting!TestEnd, Fitting!TrainEnd, Fitting!Step,
           Fitting!TrainRows, Fitting!TestRows, Fitting!Clean, Fitting!KeptForTraining, Fitting!Prior
  <2>3. Evaluated'
    BY <1>1, <2>1, <2>2 DEF TrainInv, Evaluated
  <2>4. Predicted'
    BY <1>1, <2>1, <2>2 DEF TrainInv, Predicted
  <2> QED
    BY <2>1, <2>3, <2>4 DEF TrainInv
<1>2. CASE Fitting!Raise
  BY <1>1, <1>2 DEF Fitting!Raise, Fitting!data
<1>3. CASE Fitting!Refit
  BY <1>1, <1>3 DEF Fitting!Refit, Fitting!data
<1>4. ASSUME NEW worth \in BOOLEAN, NEW degraded \in BOOLEAN, Fitting!Register(worth, degraded) PROVE TrainInv'
  BY <1>1, <1>4 DEF Fitting!Register, Fitting!data
<1>5. CASE UNCHANGED Fitting!vars
  BY <1>1, <1>5 DEF Fitting!vars, Fitting!data
<1> QED
  BY <1>2, <1>3, <1>4, <1>5, FoldStays DEF Fitting!Next

(* The table is made in order.                                              *)
LEMMA TrainStarts ==
  ASSUME Fitting!Init
  PROVE  TrainInv
<1>1. /\ geometry \in Geometries /\ bars \in [Fitting!Symbols -> Calendars]
      /\ clean = Fitting!InOrder(Fitting!CleanRows) /\ fold = 0 /\ folds = <<>> /\ oos = <<>>
  BY DEF Fitting!Init
<1>2. Fitting!CleanRows \in SUBSET Fitting!Rows
  BY DEF Fitting!CleanRows, Fitting!LabelledRows
<1>3. clean = Ranked(Fitting!CleanRows, RowOrder)
  BY <1>1, <1>2, InOrderIs
<1>4. dates = Ranked(CleanDays, Smaller)
  <2>1. dates = [i \in 1..Cardinality(CleanDays) |->
                   CHOOSE r \in CleanDays : Cardinality({q \in CleanDays : q < r}) = i - 1]
    BY DEF Fitting!Init, Fitting!Sorted, CleanDays, Fitting!Cardinality, Cardinality
  <2>2. CleanDays \subseteq Nat
    <3>1. \A r \in Fitting!CleanRows : r[2] \in Nat
      BY <1>1, <1>2, RowIs
    <3> QED
      BY <3>1 DEF CleanDays
  <2>3. \A r \in CleanDays : Below(CleanDays, Smaller, r) = {q \in CleanDays : q < r}
    BY <2>2 DEF Below, Smaller
  <2> DEFINE Counted(i) == CHOOSE r \in CleanDays : Cardinality({q \in CleanDays : q < r}) = i - 1
             Placed(i) == CHOOSE r \in CleanDays : Cardinality(Below(CleanDays, Smaller, r)) = i - 1
  <2>4. ASSUME NEW i PROVE Counted(i) = Placed(i)
    BY <2>3
  <2>5. dates = [i \in 1..Cardinality(CleanDays) |-> Counted(i)]
    BY <2>1
  <2>6. Ranked(CleanDays, Smaller) = [i \in 1..Cardinality(CleanDays) |-> Placed(i)]
    BY DEF Ranked
  <2> HIDE DEF Counted, Placed
  <2> QED
    BY <2>4, <2>5, <2>6
<1>5. TrainData
  BY <1>1, <1>3, <1>4 DEF TrainData
<1>6. Evaluated
  <2>1. <<>> \in Seq([train : SUBSET Fitting!Rows, test : SUBSET Fitting!Rows]) /\ DOMAIN <<>> = {}
    BY EmptySeq
  <2> QED
    BY <1>1, <2>1 DEF Evaluated
<1>7. Predicted
  <2>1. <<>> \in Seq(Fitting!Rows) /\ DOMAIN <<>> = {}
    BY EmptySeq
  <2> QED
    BY <1>1, <2>1 DEF Predicted
<1> QED
  BY <1>5, <1>6, <1>7 DEF TrainInv

(* The invariant gives what the run checks.                                 *)
LEMMA FoldsAreClosed ==
  ASSUME TrainInv
  PROVE  Fitting!FoldsSound
<1>1. Fitting!NoLabelLeak
  <2> SUFFICES ASSUME NEW i \in DOMAIN folds, NEW r \in folds[i].train, NEW t \in folds[i].test
               PROVE  /\ r[1] = t[1] => Fitting!LabelEnd(r) < t[2]
                      /\ Fitting!Cardinality({d \in Fitting!Range(dates) : r[2] < d /\ d < t[2]}) >= geometry.embargo
    BY DEF Fitting!NoLabelLeak
  <2>1. PICK n \in Nat : FoldAt(n) /\ folds[i].train = Fitting!TrainRows(n) /\ folds[i].test = Fitting!TestRows(n)
    BY DEF TrainInv, Evaluated
  <2>2. TrainData /\ r \in Fitting!TrainRows(n) /\ t \in Fitting!TestRows(n)
    BY <2>1 DEF TrainInv
  <2> QED
    BY <2>1, <2>2, FoldIsClosed
<1>2. Fitting!TestedOnce
  <2> SUFFICES ASSUME Long PROVE Fitting!Cardinality(Fitting!Range(oos)) = Len(oos)
    BY DEF Fitting!TestedOnce, Long
  <2>1. /\ Len(oos) \in Nat /\ DOMAIN oos = 1..Len(oos) /\ oos \in [1..Len(oos) -> Fitting!Rows]
        /\ \A i, j \in 1..Len(oos) : i # j => oos[i] # oos[j]
    BY LenProperties DEF TrainInv, Predicted
  <2> DEFINE N == Len(oos)
             T == Fitting!Range(oos)
  <2>2. oos \in Bijection(1..N, T)
    BY <2>1 DEF Bijection, Injection, Surjection, IsInjective, Fitting!Range
  <2>3. IsFiniteSet(1..N) /\ Cardinality(1..N) = N
    <3>1. 1 \in Int /\ N \in Int
      BY <2>1
    <3>2. IsFiniteSet(1..N) /\ Cardinality(1..N) = IF 1 > N THEN 0 ELSE N - 1 + 1
      BY <3>1, FS_Interval
    <3> QED
      BY <2>1, <3>2
  <2> HIDE DEF N, T
  <2>4. Cardinality(T) = N
    BY <2>2, <2>3, FS_Bijection DEF ExistsBijection
  <2> QED
    BY <2>4 DEF N, T, Fitting!Cardinality, Cardinality
<1> QED
  BY <1>1, <1>2 DEF Fitting!FoldsSound

(* Only its own steps change a component.                                   *)
LEMMA TrainingAlone ==
  /\ DeskInit /\ part = "training" => Fitting!Init
  /\ [DeskNext]_desk /\ part' = "training" => part = "training" /\ [Fitting!Next]_(Fitting!vars)
<1>1. DeskInit /\ part = "training" => Fitting!Init
  BY DEF DeskInit, PartInit
<1>2. ASSUME DeskNext, part' = "training" PROVE part = "training" /\ Fitting!Next
  BY <1>2 DEF DeskNext, SessionRuns, ConsoleRuns, RegistryRuns, TradeRuns, RobotRuns, IndicatorsRun, TrainingRuns, ReplayRuns
<1>3. ASSUME UNCHANGED desk, part' = "training" PROVE part = "training" /\ UNCHANGED Fitting!vars
  BY <1>3 DEF desk, shared, training, Fitting!vars, Fitting!data
<1> QED
  BY <1>1, <1>2, <1>3

\* Training: for every calendar of bars and every shape of folds, no label a fold is
\* trained on reaches into its test, and no row is predicted twice.
THEOREM FoldsAreSound == DeskSpec => []FoldsSound
<1>1. DeskInit => (part = "training" => TrainInv)
  BY TrainStarts, TrainingAlone
<1>2. (part = "training" => TrainInv) /\ [DeskNext]_desk => (part = "training" => TrainInv)'
  BY TrainingAlone, TrainStays
<1>3. (part = "training" => TrainInv) => FoldsSound
  BY FoldsAreClosed DEF FoldsSound
<1> QED
  BY <1>1, <1>2, <1>3, PTL DEF DeskSpec

-----------------------------------------------------------------------------
(* The console: what an operator may rely on, for any number of requests in *)
(* the air, of fields and of starts.                                        *)

Steps == {"idle", "config", "merged", "dumped", "activate", "reset"}
Request == [step : Steps, dict : Given, held : Nat]
PipelineObject == [killed : BOOLEAN, limits : Given, loop : BOOLEAN]

PipelineTypes ==
  /\ pipelines \in Seq(PipelineObject)
  /\ running \in BOOLEAN
  /\ halted \subseteq 1..Len(pipelines)
  /\ limitWanted \in Given

EditTypes ==
  /\ config \in Given /\ settings \in Given /\ file \in Given
  /\ caller \in [Callers -> Request]
  /\ wanted \in [config : Given, settings : Given]

\* What was answered is in force: a halted pipeline is switched and nobody is about
\* to reset it, and a request that no start has crossed holds the newest pipeline.
InForce ==
  /\ \A i \in halted : pipelines[i].killed /\ \A c \in Callers : caller[c].step = "reset" => caller[c].held # i
  /\ \A c \in Callers : caller[c].step \in Switching =>
       /\ caller[c].held \in 1..Len(pipelines)
       /\ c \notin crossed => caller[c].held = Newest
  /\ Newest > 0 => pipelines[Newest].limits = limitWanted

\* The one request that is between its read and its write carries what is wanted.
ConfigCarried ==
  "config" \notin overlapped =>
    /\ \A c \in Callers : caller[c].step = "config" =>
         /\ caller[c].dict = wanted.config
         /\ \A d \in Callers : caller[d].step = "config" => d = c
    /\ (\A c \in Callers : caller[c].step # "config") => config = wanted.config

SettingsCarried ==
  "settings" \notin overlapped =>
    /\ \A c \in Callers : caller[c].step \in {"merged", "dumped"} =>
         /\ caller[c].dict = wanted.settings
         /\ caller[c].step = "dumped" => settings = wanted.settings
         /\ \A d \in Callers : caller[d].step \in {"merged", "dumped"} => d = c
    /\ (\A c \in Callers : caller[c].step \notin {"merged", "dumped"}) =>
         settings = wanted.settings /\ file = settings

\* The defaults are a dictionary.
LEMMA NothingIsGiven == Nothing \in Given
  BY DEF Nothing, Given

\* A merge of a field keeps a dictionary a dictionary.
LEMMA MergedIsGiven ==
  ASSUME NEW old \in Given, NEW f \in Fields, NEW v \in Values
  PROVE  Merged(old, f, v) \in Given
  BY DEF Merged, Given

\* Before the first start there is no pipeline.
LEMMA NoPipelines == <<>> \in Seq(PipelineObject) /\ Len(<<>>) = 0
  OBVIOUS

\* Replacing the pipeline at one place.
LEMMA ChangeOne ==
  ASSUME NEW s \in Seq(PipelineObject), NEW i \in 1..Len(s), NEW p \in PipelineObject,
         NEW t, t = [s EXCEPT ![i] = p]
  PROVE  /\ t \in Seq(PipelineObject) /\ Len(t) = Len(s)
         /\ \A j \in 1..Len(s) : t[j] = IF j = i THEN p ELSE s[j]
  OBVIOUS

-----------------------------------------------------------------------------
(* Pipelines *)

\* The kill switch requests are a part of what callers do.
Requests == /\ caller \in [Callers -> Request]
PipelineInv == PipelineTypes /\ Requests /\ InForce

\* A start leaves a newest pipeline that nobody has asked anything of.
LEMMA BuildsFresh ==
  ASSUME PipelineInv, NEW loop \in BOOLEAN, Builds(loop),
         caller' \in [Callers -> Request],
         \A c \in Callers : caller'[c].step \in Switching => caller'[c] = caller[c]
  PROVE  PipelineInv'
<1> DEFINE n == Len(pipelines)
           fresh == Pipeline(loop)
<1>1. fresh \in PipelineObject /\ fresh.limits = Nothing
  BY NothingIsGiven DEF Pipeline, PipelineObject
<1>2. /\ pipelines \in Seq(PipelineObject) /\ n \in Nat
      /\ pipelines' = Append(pipelines, fresh) /\ running' = loop
      /\ crossed' = crossed \cup {c \in Callers : caller[c].step \in Switching}
      /\ limitWanted' = Nothing /\ halted' = halted
  BY DEF PipelineInv, PipelineTypes, Builds
<1> HIDE DEF fresh
<1>3. /\ pipelines' \in Seq(PipelineObject) /\ Len(pipelines') = n + 1 /\ pipelines'[n + 1] = fresh
      /\ \A i \in 1..n : pipelines'[i] = pipelines[i]
  BY <1>1, <1>2, AppendProperties
<1>4. halted \subseteq 1..n
  BY DEF PipelineInv, PipelineTypes
<1>5. PipelineTypes'
  BY <1>2, <1>3, <1>4, NothingIsGiven DEF PipelineTypes
<1>6. ASSUME NEW i \in halted'
      PROVE  pipelines'[i].killed /\ \A c \in Callers : caller'[c].step = "reset" => caller'[c].held # i
  <2>1. i \in halted /\ i \in 1..n
    BY <1>2, <1>4, <1>6
  <2>2. pipelines[i].killed /\ \A c \in Callers : caller[c].step = "reset" => caller[c].held # i
    BY <2>1 DEF PipelineInv, InForce
  <2> QED BY <1>3, <2>1, <2>2 DEF Switching
<1>7. ASSUME NEW c \in Callers, caller'[c].step \in Switching
      PROVE  caller'[c].held \in 1..Len(pipelines') /\ c \in crossed'
  <2>1. caller'[c] = caller[c] /\ caller[c].step \in Switching
    BY <1>7
  <2>2. caller[c].held \in 1..n
    BY <2>1 DEF PipelineInv, InForce
  <2> QED BY <1>2, <1>3, <2>1, <2>2
<1>8. Newest' = n + 1
  BY <1>3 DEF Newest
<1>9. InForce'
  BY <1>1, <1>2, <1>3, <1>6, <1>7, <1>8 DEF InForce
<1> QED BY <1>5, <1>9 DEF PipelineInv, Requests

\* A change of one pipeline that is not its limits, and of its switch only as asked.
LEMMA ChangesOne ==
  ASSUME PipelineInv, NEW i \in 1..Len(pipelines), NEW p \in PipelineObject,
         p.limits = pipelines[i].limits, pipelines' = [pipelines EXCEPT ![i] = p]
  PROVE  /\ pipelines' \in Seq(PipelineObject) /\ Len(pipelines') = Len(pipelines) /\ Newest' = Newest
         /\ \A j \in 1..Len(pipelines) : /\ pipelines'[j] = IF j = i THEN p ELSE pipelines[j]
                                        /\ pipelines'[j].limits = pipelines[j].limits
<1>1. pipelines \in Seq(PipelineObject)
  BY DEF PipelineInv, PipelineTypes
<1>2. /\ pipelines' \in Seq(PipelineObject) /\ Len(pipelines') = Len(pipelines)
      /\ \A j \in 1..Len(pipelines) : pipelines'[j] = IF j = i THEN p ELSE pipelines[j]
  BY <1>1, ChangeOne
<1> QED BY <1>2 DEF Newest

\* A step that leaves the pipelines and the kill switch requests alone.
LEMMA PipelinesRest ==
  ASSUME PipelineInv, pipelines' = pipelines, halted' = halted, crossed' = crossed, limitWanted' = limitWanted,
         running' \in BOOLEAN, caller' \in [Callers -> Request],
         \A c \in Callers : caller'[c].step \in Switching => caller'[c] = caller[c]
  PROVE  PipelineInv'
<1>1. PipelineTypes' /\ Requests'
  BY DEF PipelineInv, PipelineTypes, Requests
<1>2. Newest' = Newest
  BY DEF Newest
<1>3. ASSUME NEW i \in halted, NEW c \in Callers, caller'[c].step = "reset" PROVE caller'[c].held # i
  <2>1. caller'[c] = caller[c] /\ caller[c].step = "reset"
    BY <1>3 DEF Switching
  <2> QED BY <2>1 DEF PipelineInv, InForce
<1>4. \A i \in halted : pipelines[i].killed
  BY DEF PipelineInv, InForce
<1>5. ASSUME NEW c \in Callers, caller'[c].step \in Switching
      PROVE  caller'[c].held \in 1..Len(pipelines) /\ (c \notin crossed => caller'[c].held = Newest)
  <2>1. caller'[c] = caller[c]
    BY <1>5
  <2> QED BY <1>5, <2>1 DEF PipelineInv, InForce
<1>6. Newest > 0 => pipelines[Newest].limits = limitWanted
  BY DEF PipelineInv, InForce
<1>7. InForce'
  BY <1>2, <1>3, <1>4, <1>5, <1>6 DEF InForce
<1> QED BY <1>1, <1>7 DEF PipelineInv

\* A caller at a step of an edit is not in a kill switch request.
LEMMA DoesEdit ==
  ASSUME PipelineInv, NEW c \in Callers, NEW step \in Steps \ Switching, NEW dict \in Given, Does(c, step, dict)
  PROVE  /\ caller' \in [Callers -> Request]
         /\ \A d \in Callers : caller'[d].step \in Switching => caller'[d] = caller[d]
<1> DEFINE w == [step |-> step, dict |-> dict, held |-> 0]
<1>1. w \in Request /\ w.step \notin Switching
  BY DEF Request
<1>2. caller' = [caller EXCEPT ![c] = w] /\ caller \in [Callers -> Request]
  BY DEF Does, PipelineInv, Requests
<1> HIDE DEF w
<1> QED BY <1>1, <1>2

\* A kill switch request reads the newest pipeline.
LEMMA ReadPipelineKeeps ==
  ASSUME PipelineInv, NEW c \in Callers, NEW request \in Switching, ReadPipeline(c, request)
  PROVE  PipelineInv'
<1> DEFINE w == [step |-> request, dict |-> Nothing, held |-> Newest]
<1>1. /\ caller \in [Callers -> Request] /\ pipelines \in Seq(PipelineObject) /\ halted \subseteq 1..Len(pipelines)
  BY DEF PipelineInv, PipelineTypes, Requests
<1>2. /\ caller' = [caller EXCEPT ![c] = w] /\ pipelines # <<>> /\ caller[c] = Idle
      /\ halted' = IF request = "reset" THEN halted \ {Newest} ELSE halted
      /\ pipelines' = pipelines /\ running' = running /\ crossed' = crossed /\ limitWanted' = limitWanted
  BY DEF ReadPipeline, Acted
<1>3. Newest \in 1..Len(pipelines) /\ Newest' = Newest
  BY <1>1, <1>2 DEF Newest
<1>4. Newest \in Nat /\ request \in Steps
  BY <1>1, <1>3 DEF Steps, Switching
<1>5. w \in Request /\ w.step = request /\ w.held = Newest
  BY <1>4, NothingIsGiven DEF Request
<1> HIDE DEF w
<1>6. /\ caller' \in [Callers -> Request] /\ caller'[c] = w
      /\ \A d \in Callers : d # c => caller'[d] = caller[d]
  BY <1>1, <1>2, <1>5
<1>7. PipelineTypes' /\ Requests'
  BY <1>1, <1>2, <1>6 DEF PipelineInv, PipelineTypes, Requests
<1>8. ASSUME NEW i \in halted', NEW d \in Callers, caller'[d].step = "reset" PROVE caller'[d].held # i
  <2>1. i \in halted
    BY <1>2
  <2>2. CASE d = c
    BY <1>2, <1>5, <1>6, <1>8, <2>2
  <2>3. CASE d # c
    BY <1>6, <1>8, <2>1, <2>3 DEF PipelineInv, InForce
  <2> QED BY <2>2, <2>3
<1>9. ASSUME NEW d \in Callers, caller'[d].step \in Switching
      PROVE  caller'[d].held \in 1..Len(pipelines) /\ (d \notin crossed => caller'[d].held = Newest)
  <2>1. CASE d = c
    BY <1>3, <1>5, <1>6, <2>1
  <2>2. CASE d # c
    BY <1>6, <1>9, <2>2 DEF PipelineInv, InForce
  <2> QED BY <2>1, <2>2
<1>10. InForce'
  <2>1. \A i \in halted' : pipelines[i].killed
    BY <1>2 DEF PipelineInv, InForce
  <2>2. Newest > 0 => pipelines[Newest].limits = limitWanted
    BY DEF PipelineInv, InForce
  <2> QED BY <1>2, <1>3, <1>8, <1>9, <2>1, <2>2 DEF InForce
<1> QED BY <1>7, <1>10 DEF PipelineInv

\* The pipeline that was read is switched: it is halted only when it still is the
\* newest and no reset can follow that was asked for before.
LEMMA SetKillSwitchKeeps ==
  ASSUME PipelineInv, NEW c \in Callers, SetKillSwitch(c)
  PROVE  PipelineInv'
<1> DEFINE h == caller[c].held
           on == Killed(caller[c].step)
           p == [pipelines[h] EXCEPT !.killed = on]
<1>1. /\ caller \in [Callers -> Request] /\ pipelines \in Seq(PipelineObject) /\ halted \subseteq 1..Len(pipelines)
      /\ caller[c].step \in Switching /\ caller' = [caller EXCEPT ![c] = Idle]
      /\ halted' = IF caller[c].step = "activate" /\ c \notin crossed /\ \A d \in Callers : caller[d].step # "reset"
                   THEN halted \cup {Newest} ELSE halted
      /\ crossed' = crossed \ {c} /\ running' = running /\ limitWanted' = limitWanted
      /\ pipelines' = [pipelines EXCEPT ![h].killed = on]
  BY DEF SetKillSwitch, PipelineInv, PipelineTypes, Requests
<1>2. h \in 1..Len(pipelines) /\ (c \notin crossed => h = Newest)
  BY <1>1 DEF PipelineInv, InForce
<1>3. pipelines[h] \in PipelineObject
  BY <1>1, <1>2, ElementOfSeq
<1>4. on \in BOOLEAN /\ (on <=> caller[c].step = "activate")
  BY DEF Killed
<1>5. p \in PipelineObject /\ p.limits = pipelines[h].limits /\ p.killed = on
  BY <1>3, <1>4 DEF PipelineObject
<1>6. pipelines' = [pipelines EXCEPT ![h] = p]
  BY <1>1
<1> HIDE DEF p, on, h
<1>7. /\ pipelines' \in Seq(PipelineObject) /\ Len(pipelines') = Len(pipelines) /\ Newest' = Newest
      /\ \A j \in 1..Len(pipelines) : /\ pipelines'[j] = IF j = h THEN p ELSE pipelines[j]
                                     /\ pipelines'[j].limits = pipelines[j].limits
  BY <1>2, <1>5, <1>6, ChangesOne
<1>8. Idle \in Request /\ Idle.step = "idle"
  BY NothingIsGiven DEF Idle, Request, Steps
<1>9. /\ caller' \in [Callers -> Request] /\ caller'[c].step = "idle"
      /\ \A d \in Callers : d # c => caller'[d] = caller[d]
  BY <1>1, <1>8
<1>10. \A i \in halted' : i \in halted \/ (i = h /\ on /\ \A d \in Callers : caller[d].step # "reset")
  BY <1>1, <1>2, <1>4
<1>11. halted' \subseteq 1..Len(pipelines)
  BY <1>1, <1>2, <1>10
<1>12. PipelineTypes' /\ Requests'
  BY <1>1, <1>7, <1>9, <1>11 DEF PipelineInv, PipelineTypes, Requests
<1>13. ASSUME NEW i \in halted' PROVE pipelines'[i].killed
  <2>1. i \in 1..Len(pipelines)
    BY <1>11
  <2>2. CASE i = h
    <3>1. on
      <4>1. CASE i \in halted
        <5>1. caller[c].step # "reset"
          BY <2>2, <4>1 DEF PipelineInv, InForce, h
        <5> QED BY <1>1, <1>4, <5>1 DEF Switching
      <4>2. CASE i \notin halted
        BY <1>10, <4>2
      <4> QED BY <4>1, <4>2
    <3> QED BY <1>5, <1>7, <2>1, <2>2, <3>1
  <2>3. CASE i # h
    <3>1. i \in halted
      BY <1>10, <2>3
    <3>2. pipelines[i].killed
      BY <3>1 DEF PipelineInv, InForce
    <3> QED BY <1>7, <2>1, <2>3, <3>2
  <2> QED BY <2>2, <2>3
<1>14. ASSUME NEW i \in halted', NEW d \in Callers, caller'[d].step = "reset" PROVE caller'[d].held # i
  <2>1. d # c /\ caller'[d] = caller[d]
    BY <1>9, <1>14
  <2>2. i \in halted
    BY <1>10, <1>14, <2>1
  <2> QED BY <1>14, <2>1, <2>2 DEF PipelineInv, InForce
<1>15. ASSUME NEW d \in Callers, caller'[d].step \in Switching
       PROVE  caller'[d].held \in 1..Len(pipelines) /\ (d \notin crossed' => caller'[d].held = Newest)
  <2>1. d # c /\ caller'[d] = caller[d]
    BY <1>9, <1>15 DEF Switching
  <2>2. d \notin crossed' => d \notin crossed
    BY <1>1, <2>1
  <2> QED BY <1>15, <2>1, <2>2 DEF PipelineInv, InForce
<1>16. Newest > 0 => pipelines'[Newest].limits = limitWanted
  <2>1. Newest > 0 => Newest \in 1..Len(pipelines)
    BY <1>1 DEF Newest
  <2> QED BY <1>7, <2>1 DEF PipelineInv, InForce
<1>17. InForce'
  BY <1>1, <1>7, <1>13, <1>14, <1>15, <1>16 DEF InForce
<1> QED BY <1>12, <1>17 DEF PipelineInv

\* Every request and every step of a loop keeps what was answered in force.
LEMMA PipelineStep ==
  ASSUME PipelineInv, EditTypes, EditTypes', [Next]_vars
  PROVE  PipelineInv'
<1>0. caller \in [Callers -> Request] /\ caller' \in [Callers -> Request] /\ running \in BOOLEAN
  BY DEF EditTypes, PipelineInv, PipelineTypes
<1>1. CASE Start
  BY <1>0, <1>1, BuildsFresh DEF Start, kept
<1>2. CASE Stop
  BY <1>0, <1>2, PipelinesRest DEF Stop, asked, kept
<1>3. CASE Restart
  <2>1. /\ pipelines' = <<>> /\ running' = FALSE /\ halted' = {} /\ crossed' = {} /\ limitWanted' = Nothing
        /\ caller' = [c \in Callers |-> Idle]
    BY <1>3 DEF Restart
  <2>2. PipelineTypes'
    BY <2>1, NothingIsGiven, NoPipelines DEF PipelineTypes
  <2>3. Newest' = 0
    BY <2>1, NoPipelines DEF Newest
  <2>4. \A c \in Callers : caller'[c].step = "idle"
    BY <2>1 DEF Idle
  <2> QED BY <1>0, <2>1, <2>2, <2>3, <2>4 DEF PipelineInv, Requests, InForce, Switching
<1>4. ASSUME NEW i \in 1..MaxStarts, LoopEnds(i) PROVE PipelineInv'
  <2>1. /\ pipelines \in Seq(PipelineObject) /\ i \in 1..Len(pipelines)
        /\ pipelines' = [pipelines EXCEPT ![i].loop = FALSE]
        /\ halted' = halted /\ crossed' = crossed /\ limitWanted' = limitWanted /\ caller' = caller
        /\ running' \in BOOLEAN
    BY <1>4 DEF LoopEnds, PipelineInv, PipelineTypes, asked, kept
  <2> DEFINE p == [pipelines[i] EXCEPT !.loop = FALSE]
  <2>2. pipelines[i] \in PipelineObject
    BY <2>1, ElementOfSeq
  <2>3. /\ p \in PipelineObject /\ p.limits = pipelines[i].limits /\ p.killed = pipelines[i].killed
    BY <2>2 DEF PipelineObject
  <2>4. pipelines' = [pipelines EXCEPT ![i] = p]
    BY <2>1
  <2> HIDE DEF p
  <2>5. /\ pipelines' \in Seq(PipelineObject) /\ Len(pipelines') = Len(pipelines) /\ Newest' = Newest
        /\ \A j \in 1..Len(pipelines) : /\ pipelines'[j] = IF j = i THEN p ELSE pipelines[j]
                                       /\ pipelines'[j].limits = pipelines[j].limits
    BY <2>1, <2>3, <2>4, ChangesOne
  <2>6. \A j \in 1..Len(pipelines) : pipelines'[j].killed = pipelines[j].killed
    BY <2>3, <2>5
  <2>7. halted \subseteq 1..Len(pipelines) /\ (Newest > 0 => Newest \in 1..Len(pipelines))
    BY <2>1 DEF PipelineInv, PipelineTypes, Newest
  <2>8. PipelineTypes' /\ Requests'
    BY <2>1, <2>5, <2>7 DEF PipelineInv, PipelineTypes, Requests
  <2>9. InForce'
    BY <2>1, <2>5, <2>6, <2>7 DEF PipelineInv, InForce
  <2> QED BY <2>8, <2>9 DEF PipelineInv
<1>5. ASSUME NEW c \in Callers, SetKillSwitch(c) PROVE PipelineInv'
  BY <1>5, SetKillSwitchKeeps
<1>6. ASSUME NEW f \in Fields, NEW v \in Values, PatchRiskLimits(f, v) PROVE PipelineInv'
  <2>1. running' = running /\ halted' = halted /\ crossed' = crossed /\ caller' = caller
    BY <1>6 DEF PatchRiskLimits, kept
  <2>2. CASE pipelines = <<>>
    BY <1>0, <1>6, <2>1, <2>2, PipelinesRest DEF PatchRiskLimits
  <2>3. CASE pipelines # <<>>
    <3>1. /\ pipelines \in Seq(PipelineObject) /\ Newest \in 1..Len(pipelines)
          /\ pipelines' = [pipelines EXCEPT ![Newest].limits[f] = v]
          /\ limitWanted' = [limitWanted EXCEPT ![f] = v]
          /\ limitWanted' \in Given
      BY <1>6, <2>3 DEF PatchRiskLimits, Acted, Newest, PipelineInv, PipelineTypes, Given
    <3> DEFINE patched == [pipelines[Newest] EXCEPT !.limits = [pipelines[Newest].limits EXCEPT ![f] = v]]
    <3>2. pipelines' = [pipelines EXCEPT ![Newest] = patched]
      BY <3>1
    <3>3. pipelines[Newest] \in PipelineObject /\ pipelines[Newest].limits = limitWanted
      BY <3>1 DEF InForce, PipelineInv
    <3>4. patched \in PipelineObject /\ patched.limits = limitWanted' /\ patched.killed = pipelines[Newest].killed
      BY <3>1, <3>3 DEF PipelineObject
    <3> HIDE DEF patched
    <3>5. pipelines \in Seq(PipelineObject) /\ Newest \in 1..Len(pipelines) /\ patched \in PipelineObject
      BY <3>1, <3>4
    <3>6. /\ pipelines' \in Seq(PipelineObject) /\ Len(pipelines') = Len(pipelines)
          /\ \A j \in 1..Len(pipelines) : pipelines'[j] = IF j = Newest THEN patched ELSE pipelines[j]
      BY <3>2, <3>5, ChangeOne
    <3>7. /\ Newest' = Newest /\ pipelines'[Newest] = patched
          /\ \A j \in 1..Len(pipelines) : pipelines'[j].killed = pipelines[j].killed
      BY <3>1, <3>4, <3>6 DEF Newest
    <3>8. halted \subseteq 1..Len(pipelines)
      BY DEF PipelineInv, PipelineTypes
    <3>9. PipelineTypes' /\ Requests'
      BY <2>1, <3>1, <3>6, <3>8 DEF PipelineInv, PipelineTypes, Requests
    <3>10. InForce'
      BY <2>1, <3>4, <3>6, <3>7, <3>8 DEF PipelineInv, InForce
    <3> QED BY <3>9, <3>10 DEF PipelineInv
  <2> QED BY <2>2, <2>3
<1>7. ASSUME NEW c \in Callers, ApplyConfig(c) PROVE PipelineInv'
  <2>1. Does(c, "idle", Nothing) /\ "idle" \in Steps \ Switching
    BY <1>7 DEF ApplyConfig, Steps, Switching
  <2>2. \A d \in Callers : caller'[d].step \in Switching => caller'[d] = caller[d]
    BY <2>1, NothingIsGiven, DoesEdit
  <2>3. CASE \E loop \in BOOLEAN : Builds(loop)
    BY <1>0, <2>2, <2>3, BuildsFresh
  <2>4. CASE UNCHANGED <<pipelines, running, asked>>
    BY <1>0, <2>2, <2>4, PipelinesRest DEF asked
  <2>5. CASE running' = FALSE /\ UNCHANGED <<pipelines, asked>>
    BY <1>0, <2>2, <2>5, PipelinesRest DEF asked
  <2> QED BY <1>7, <2>3, <2>4, <2>5 DEF ApplyConfig
<1>8. ASSUME UNCHANGED <<pipelines, running, asked>>, NEW c \in Callers, NEW step \in {"config", "merged", "dumped", "idle"},
             NEW dict \in Given, Does(c, step, dict)
      PROVE  PipelineInv'
  <2>1. step \in Steps \ Switching
    BY DEF Steps, Switching
  <2>2. \A d \in Callers : caller'[d].step \in Switching => caller'[d] = caller[d]
    BY <1>8, <2>1, DoesEdit
  <2> QED BY <1>0, <1>8, <2>2, PipelinesRest DEF asked
<1>9. ASSUME NEW c \in Callers, ResetSettings(c) \/ PutSettings(c) \/ WriteSettings(c) PROVE PipelineInv'
  <2>1. caller[c].dict \in Given
    BY <1>0 DEF Request
  <2> QED BY <1>8, <1>9, <2>1, NothingIsGiven DEF ResetSettings, PutSettings, WriteSettings
<1>10. ASSUME NEW c \in Callers, NEW f \in Fields, NEW v \in Values, ReadConfig(c, f, v) \/ ReadSettings(c, f, v)
       PROVE PipelineInv'
  <2>1. Merged(config, f, v) \in Given /\ Merged(settings, f, v) \in Given
    BY MergedIsGiven DEF EditTypes
  <2> QED BY <1>8, <1>10, <2>1 DEF ReadConfig, ReadSettings
<1>11. ASSUME NEW f \in Fields, NEW v \in Values, NEW phrase \in BOOLEAN, NEW second \in BOOLEAN,
              LiveUnlock(f, v, phrase, second)
       PROVE PipelineInv'
  BY <1>0, <1>11, PipelinesRest DEF LiveUnlock, asked
<1>12. CASE UNCHANGED vars
  BY <1>0, <1>12, PipelinesRest DEF vars
<1>13. ASSUME NEW c \in Callers, NEW request \in Switching, ReadPipeline(c, request) PROVE PipelineInv'
  BY <1>13, ReadPipelineKeeps
<1> QED
  BY <1>1, <1>2, <1>3, <1>4, <1>5, <1>6, <1>7, <1>9, <1>10, <1>11, <1>12, <1>13 DEF Next

-----------------------------------------------------------------------------
(* Edits *)

EditInv == EditTypes /\ ConfigCarried /\ SettingsCarried

\* What a move of one request leaves.
LEMMA DoesShape ==
  ASSUME EditTypes, NEW c \in Callers, NEW step \in Steps, NEW dict \in Given, Does(c, step, dict)
  PROVE  /\ caller' \in [Callers -> Request]
         /\ caller'[c] = [step |-> step, dict |-> dict, held |-> 0]
         /\ caller'[c].step = step /\ caller'[c].dict = dict
         /\ \A d \in Callers : d # c => caller'[d] = caller[d]
<1>1. [step |-> step, dict |-> dict, held |-> 0] \in Request
  BY DEF Request
<1> QED BY <1>1 DEF EditTypes, Does

\* An overlap of the other kind changes nothing for a kind.
LEMMA OverlapsShape ==
  ASSUME NEW kind, NEW steps, Overlaps(kind, steps)
  PROVE  /\ \A other : other # kind => (other \in overlapped' <=> other \in overlapped)
         /\ kind \notin overlapped' =>
              kind \notin overlapped /\ \A d \in Callers : caller[d].step \notin steps
  BY DEF Overlaps

\* An edit of the configuration that is merged and not yet applied.
LEMMA ReadConfigKeeps ==
  ASSUME EditInv, NEW c \in Callers, NEW f \in Fields, NEW v \in Values, ReadConfig(c, f, v)
  PROVE  EditInv'
<1> USE DEF EditInv
<1>1. config \in Given /\ wanted \in [config : Given, settings : Given]
  BY DEF EditTypes
<1> DEFINE dict == Merged(config, f, v)
<1>2. dict \in Given
  BY <1>1, MergedIsGiven
<1>3. /\ caller[c].step = "idle" /\ Does(c, "config", dict) /\ Overlaps("config", {"config"})
      /\ wanted' = [wanted EXCEPT !.config = [wanted.config EXCEPT ![f] = v]]
      /\ config' = config /\ settings' = settings /\ file' = file
  BY DEF ReadConfig, Idle
<1> HIDE DEF dict
<1>4. "config" \in Steps
  BY DEF Steps
<1>5. /\ caller' \in [Callers -> Request]
      /\ caller'[c].step = "config" /\ caller'[c].dict = dict
      /\ \A d \in Callers : d # c => caller'[d] = caller[d]
  BY <1>2, <1>3, <1>4, DoesShape
<1>6. wanted'.settings = wanted.settings /\ wanted'.config = Merged(wanted.config, f, v)
  BY <1>1, <1>3 DEF Merged
<1>7. wanted.config \in Given /\ Merged(wanted.config, f, v) \in Given
  BY <1>1, MergedIsGiven
<1>8. wanted' \in [config : Given, settings : Given]
  BY <1>1, <1>3, <1>7 DEF Merged
<1>9. EditTypes'
  BY <1>3, <1>5, <1>8 DEF EditTypes
<1>10. ConfigCarried'
  <2> SUFFICES ASSUME "config" \notin overlapped'
               PROVE  /\ \A d \in Callers : caller'[d].step = "config" =>
                           /\ caller'[d].dict = wanted'.config
                           /\ \A e \in Callers : caller'[e].step = "config" => e = d
                      /\ (\A d \in Callers : caller'[d].step # "config") => config' = wanted'.config
    BY DEF ConfigCarried
  <2>1. "config" \notin overlapped /\ \A d \in Callers : caller[d].step # "config"
    BY <1>3, OverlapsShape
  <2>2. config = wanted.config
    BY <2>1 DEF ConfigCarried
  <2>3. dict = wanted'.config
    BY <1>6, <2>2 DEF dict
  <2> QED BY <1>5, <2>1, <2>3
<1>11. SettingsCarried'
  <2>1. "settings" \in overlapped' <=> "settings" \in overlapped
    BY <1>3, OverlapsShape
  <2>2. \A d \in Callers : /\ caller'[d].step \in {"merged", "dumped"} <=> caller[d].step \in {"merged", "dumped"}
                           /\ caller[d].step \in {"merged", "dumped"} => caller'[d] = caller[d]
    BY <1>3, <1>5
  <2> QED BY <1>3, <1>6, <2>1, <2>2 DEF SettingsCarried
<1> QED BY <1>9, <1>10, <1>11

\* The merged configuration is applied, whether the start succeeds or not.
LEMMA ApplyConfigKeeps ==
  ASSUME EditInv, NEW c \in Callers, ApplyConfig(c)
  PROVE  EditInv'
<1> USE DEF EditInv
<1>1. caller[c] \in Request /\ caller[c].dict \in Given
  BY DEF EditTypes, Request
<1>2. /\ caller[c].step = "config" /\ config' = caller[c].dict /\ Does(c, "idle", Nothing)
      /\ settings' = settings /\ file' = file /\ wanted' = wanted /\ overlapped' = overlapped
  BY DEF ApplyConfig
<1>3. "idle" \in Steps
  BY DEF Steps
<1>4. /\ caller' \in [Callers -> Request]
      /\ caller'[c].step = "idle"
      /\ \A d \in Callers : d # c => caller'[d] = caller[d]
  BY <1>2, <1>3, NothingIsGiven, DoesShape
<1>5. EditTypes'
  BY <1>1, <1>2, <1>4 DEF EditTypes
<1>6. ConfigCarried'
  BY <1>2, <1>4 DEF ConfigCarried
<1>7. SettingsCarried'
  BY <1>2, <1>4 DEF SettingsCarried
<1> QED BY <1>5, <1>6, <1>7

\* allow_live_trading is set in place: nobody is between read and write, or the
\* edits overlapped.
LEMMA LiveUnlockKeeps ==
  ASSUME EditInv, NEW f \in Fields, NEW v \in Values, NEW phrase, NEW second, LiveUnlock(f, v, phrase, second)
  PROVE  EditInv'
<1> USE DEF EditInv
<1>1. config \in Given /\ wanted \in [config : Given, settings : Given]
  BY DEF EditTypes
<1>2. /\ config' = [config EXCEPT ![f] = v] /\ Overlaps("config", {"config"})
      /\ wanted' = [wanted EXCEPT !.config = [wanted.config EXCEPT ![f] = v]]
      /\ settings' = settings /\ file' = file /\ caller' = caller
  BY DEF LiveUnlock
<1>3. config' \in Given /\ [wanted.config EXCEPT ![f] = v] \in Given
  BY <1>1, <1>2 DEF Given
<1>4. /\ wanted' \in [config : Given, settings : Given]
      /\ wanted'.settings = wanted.settings /\ wanted'.config = [wanted.config EXCEPT ![f] = v]
  BY <1>1, <1>2, <1>3
<1>5. EditTypes'
  BY <1>2, <1>3, <1>4 DEF EditTypes
<1>6. ConfigCarried'
  <2>1. "config" \notin overlapped' => "config" \notin overlapped /\ \A d \in Callers : caller[d].step # "config"
    BY <1>2, OverlapsShape
  <2> QED BY <1>2, <1>4, <2>1 DEF ConfigCarried
<1>7. SettingsCarried'
  <2>1. "settings" \in overlapped' <=> "settings" \in overlapped
    BY <1>2, OverlapsShape
  <2> QED BY <1>2, <1>4, <2>1 DEF SettingsCarried
<1> QED BY <1>5, <1>6, <1>7

\* An edit of the settings that is merged, or starts from the defaults.
LEMMA MergeKeeps ==
  ASSUME EditInv, NEW c \in Callers, NEW dict \in Given, caller[c].step = "idle",
         Does(c, "merged", dict), Overlaps("settings", {"merged", "dumped"}),
         wanted' \in [config : Given, settings : Given], wanted'.config = wanted.config,
         settings = wanted.settings => dict = wanted'.settings,
         config' = config, settings' = settings, file' = file
  PROVE  EditInv'
<1> USE DEF EditInv
<1>1. "merged" \in Steps
  BY DEF Steps
<1>2. /\ caller' \in [Callers -> Request]
      /\ caller'[c].step = "merged" /\ caller'[c].dict = dict
      /\ \A d \in Callers : d # c => caller'[d] = caller[d]
  BY <1>1, DoesShape
<1>3. EditTypes'
  BY <1>2 DEF EditTypes
<1>4. SettingsCarried'
  <2> SUFFICES ASSUME "settings" \notin overlapped'
               PROVE  /\ \A d \in Callers : caller'[d].step \in {"merged", "dumped"} =>
                           /\ caller'[d].dict = wanted'.settings
                           /\ caller'[d].step = "dumped" => settings' = wanted'.settings
                           /\ \A e \in Callers : caller'[e].step \in {"merged", "dumped"} => e = d
                      /\ (\A d \in Callers : caller'[d].step \notin {"merged", "dumped"}) =>
                           settings' = wanted'.settings /\ file' = settings'
    BY DEF SettingsCarried
  <2>1. "settings" \notin overlapped /\ \A d \in Callers : caller[d].step \notin {"merged", "dumped"}
    BY OverlapsShape
  <2>2. settings = wanted.settings
    BY <2>1 DEF SettingsCarried
  <2> QED BY <1>2, <2>1, <2>2
<1>5. ConfigCarried'
  <2>1. "config" \in overlapped' <=> "config" \in overlapped
    BY OverlapsShape
  <2>2. \A d \in Callers : /\ caller'[d].step = "config" <=> caller[d].step = "config"
                           /\ caller[d].step = "config" => caller'[d] = caller[d]
    BY <1>2
  <2> QED BY <2>1, <2>2 DEF ConfigCarried
<1> QED BY <1>3, <1>4, <1>5

\* The merged settings are put in place.
LEMMA PutSettingsKeeps ==
  ASSUME EditInv, NEW c \in Callers, PutSettings(c)
  PROVE  EditInv'
<1> USE DEF EditInv
<1>1. caller[c] \in Request /\ caller[c].dict \in Given /\ "dumped" \in Steps
  BY DEF EditTypes, Request, Steps
<1>2. /\ caller[c].step = "merged" /\ settings' = caller[c].dict /\ Does(c, "dumped", caller[c].dict)
      /\ config' = config /\ file' = file /\ wanted' = wanted /\ overlapped' = overlapped
  BY DEF PutSettings
<1>3. /\ caller' \in [Callers -> Request]
      /\ caller'[c].step = "dumped" /\ caller'[c].dict = caller[c].dict
      /\ \A d \in Callers : d # c => caller'[d] = caller[d]
  BY <1>1, <1>2, DoesShape
<1>4. EditTypes'
  BY <1>1, <1>2, <1>3 DEF EditTypes
<1>5. ConfigCarried'
  BY <1>2, <1>3 DEF ConfigCarried
<1>6. SettingsCarried'
  BY <1>2, <1>3 DEF SettingsCarried
<1> QED BY <1>4, <1>5, <1>6

\* The dumped settings reach the file.
LEMMA WriteSettingsKeeps ==
  ASSUME EditInv, NEW c \in Callers, WriteSettings(c)
  PROVE  EditInv'
<1> USE DEF EditInv
<1>1. caller[c] \in Request /\ caller[c].dict \in Given /\ "idle" \in Steps
  BY DEF EditTypes, Request, Steps
<1>2. /\ caller[c].step = "dumped" /\ file' = caller[c].dict /\ Does(c, "idle", Nothing)
      /\ config' = config /\ settings' = settings /\ wanted' = wanted /\ overlapped' = overlapped
  BY DEF WriteSettings
<1>3. /\ caller' \in [Callers -> Request]
      /\ caller'[c].step = "idle"
      /\ \A d \in Callers : d # c => caller'[d] = caller[d]
  BY <1>1, <1>2, NothingIsGiven, DoesShape
<1>4. EditTypes'
  BY <1>1, <1>2, <1>3 DEF EditTypes
<1>5. ConfigCarried'
  BY <1>2, <1>3 DEF ConfigCarried
<1>6. SettingsCarried'
  BY <1>2, <1>3 DEF SettingsCarried
<1> QED BY <1>4, <1>5, <1>6

\* A new process: nobody is in the middle of a request, and settings are the file.
LEMMA RestartKeeps ==
  ASSUME EditTypes, Restart
  PROVE  EditInv'
<1>1. PICK found \in {file} \cup {Nothing : c \in {d \in Callers : caller[d].step = "dumped"}} :
        settings' = found /\ file' = found
  BY DEF Restart
<1>2. found \in Given
  BY <1>1, NothingIsGiven DEF EditTypes
<1>3. /\ config' = Nothing /\ wanted' = [config |-> Nothing, settings |-> settings']
      /\ caller' = [c \in Callers |-> Idle]
  BY DEF Restart
<1>4. Idle \in Request /\ Idle.step = "idle"
  BY NothingIsGiven DEF Idle, Request, Steps
<1>5. EditTypes'
  BY <1>1, <1>2, <1>3, <1>4, NothingIsGiven DEF EditTypes
<1>6. ConfigCarried' /\ SettingsCarried'
  BY <1>1, <1>3, <1>4 DEF ConfigCarried, SettingsCarried
<1> QED BY <1>5, <1>6 DEF EditInv

\* A kill switch request reads its pipeline, or ends.
LEMMA SwitchKeepsEdits ==
  ASSUME EditInv, PipelineTypes, NEW c \in Callers,
         SetKillSwitch(c) \/ \E request \in Switching : ReadPipeline(c, request)
  PROVE  EditInv'
<1>1. caller \in [Callers -> Request] /\ Idle \in Request /\ Idle.step = "idle"
  BY NothingIsGiven DEF EditInv, EditTypes, Idle, Request, Steps
<1>2. /\ config' = config /\ settings' = settings /\ file' = file /\ wanted' = wanted /\ overlapped' = overlapped
  BY DEF SetKillSwitch, ReadPipeline
<1> DEFINE quiet == {"idle", "activate", "reset"}
<1>3. PICK w \in Request : caller' = [caller EXCEPT ![c] = w] /\ w.step \in quiet /\ caller[c].step \in quiet
  <2>1. CASE SetKillSwitch(c)
    BY <1>1, <2>1 DEF SetKillSwitch, Switching
  <2>2. ASSUME NEW request \in Switching, ReadPipeline(c, request)
        PROVE  \E w \in Request : caller' = [caller EXCEPT ![c] = w] /\ w.step \in quiet /\ caller[c].step \in quiet
    <3> DEFINE v == [step |-> request, dict |-> Nothing, held |-> Acted]
    <3>1. request \in Steps
      BY DEF Steps, Switching
    <3>2. Acted \in Nat
      BY <2>2, LenProperties DEF Acted, Newest, PipelineInv, PipelineTypes
    <3>3. v \in Request /\ v.step = request
      BY <3>1, <3>2, NothingIsGiven DEF Request
    <3>4. caller' = [caller EXCEPT ![c] = v] /\ caller[c].step = "idle"
      BY <1>1, <2>2 DEF ReadPipeline
    <3> HIDE DEF v
    <3> QED BY <3>3, <3>4 DEF Switching
  <2> QED BY <2>1, <2>2
<1>4. /\ caller' \in [Callers -> Request] /\ caller'[c].step \in quiet
      /\ \A d \in Callers : d # c => caller'[d] = caller[d]
  BY <1>1, <1>3
<1>5. \A d \in Callers : \A step \in {"config", "merged", "dumped"} :
        /\ caller'[d].step = step <=> caller[d].step = step
        /\ caller'[d].step = step => caller'[d] = caller[d]
  BY <1>3, <1>4
<1>6. EditTypes'
  BY <1>2, <1>4 DEF EditInv, EditTypes
<1>7. ConfigCarried'
  BY <1>2, <1>5 DEF EditInv, ConfigCarried
<1>8. SettingsCarried'
  BY <1>2, <1>5 DEF EditInv, SettingsCarried
<1> QED BY <1>6, <1>7, <1>8 DEF EditInv

\* Every step keeps the edits.
LEMMA EditStep ==
  ASSUME EditInv, PipelineTypes, [Next]_vars
  PROVE  EditInv'
<1> USE DEF EditInv
<1>1. CASE UNCHANGED kept
  BY <1>1 DEF kept, EditTypes, ConfigCarried, SettingsCarried
<1>2. CASE Start \/ Stop
  BY <1>1, <1>2 DEF Start, Stop
<1>3. CASE Restart
  BY <1>3, RestartKeeps
<1>4. ASSUME NEW i \in 1..MaxStarts, LoopEnds(i) PROVE EditInv'
  BY <1>1, <1>4 DEF LoopEnds
<1>5. ASSUME NEW c \in Callers, SetKillSwitch(c) \/ \E request \in Switching : ReadPipeline(c, request)
      PROVE  EditInv'
  BY <1>5, SwitchKeepsEdits
<1>6. ASSUME NEW f \in Fields, NEW v \in Values, PatchRiskLimits(f, v) PROVE EditInv'
  BY <1>1, <1>6 DEF PatchRiskLimits
<1>7. ASSUME NEW f \in Fields, NEW v \in Values, NEW phrase \in BOOLEAN, NEW second \in BOOLEAN,
             LiveUnlock(f, v, phrase, second)
      PROVE EditInv'
  BY <1>7, LiveUnlockKeeps
<1>8. ASSUME NEW c \in Callers, ApplyConfig(c) PROVE EditInv'
  BY <1>8, ApplyConfigKeeps
<1>9. ASSUME NEW c \in Callers, NEW f \in Fields, NEW v \in Values, ReadConfig(c, f, v) PROVE EditInv'
  BY <1>9, ReadConfigKeeps
<1>10. ASSUME NEW c \in Callers, NEW f \in Fields, NEW v \in Values, ReadSettings(c, f, v) PROVE EditInv'
  <2>1. settings \in Given /\ wanted \in [config : Given, settings : Given]
    BY DEF EditTypes
  <2>2. wanted.settings \in Given /\ Merged(settings, f, v) \in Given /\ Merged(wanted.settings, f, v) \in Given
    BY <2>1, MergedIsGiven
  <2>3. /\ caller[c].step = "idle" /\ Does(c, "merged", Merged(settings, f, v))
        /\ wanted' = [wanted EXCEPT !.settings = [wanted.settings EXCEPT ![f] = v]]
        /\ Overlaps("settings", {"merged", "dumped"})
        /\ config' = config /\ settings' = settings /\ file' = file
    BY <1>10 DEF ReadSettings, Idle
  <2>4. /\ wanted' \in [config : Given, settings : Given] /\ wanted'.config = wanted.config
        /\ wanted'.settings = Merged(wanted.settings, f, v)
    BY <2>1, <2>2, <2>3 DEF Merged
  <2> QED BY <2>2, <2>3, <2>4, MergeKeeps
<1>11. ASSUME NEW c \in Callers, ResetSettings(c) PROVE EditInv'
  <2>1. wanted \in [config : Given, settings : Given]
    BY DEF EditTypes
  <2>2. /\ caller[c].step = "idle" /\ Does(c, "merged", Nothing)
        /\ wanted' = [wanted EXCEPT !.settings = Nothing]
        /\ Overlaps("settings", {"merged", "dumped"})
        /\ config' = config /\ settings' = settings /\ file' = file
    BY <1>11 DEF ResetSettings, Idle
  <2>3. /\ wanted' \in [config : Given, settings : Given] /\ wanted'.config = wanted.config
        /\ wanted'.settings = Nothing
    BY <2>1, <2>2, NothingIsGiven
  <2> QED BY <2>2, <2>3, NothingIsGiven, MergeKeeps
<1>12. ASSUME NEW c \in Callers, PutSettings(c) PROVE EditInv'
  BY <1>12, PutSettingsKeeps
<1>13. ASSUME NEW c \in Callers, WriteSettings(c) PROVE EditInv'
  BY <1>13, WriteSettingsKeeps
<1>14. CASE UNCHANGED vars
  BY <1>1, <1>14 DEF vars, kept
<1> QED
  BY <1>2, <1>3, <1>4, <1>5, <1>6, <1>7, <1>8, <1>9, <1>10, <1>11, <1>12, <1>13, <1>14 DEF Next

\* Nobody has asked anything, and there is no pipeline.
LEMMA ConsoleStarts ==
  ASSUME Init
  PROVE  PipelineInv /\ EditInv
<1>1. /\ pipelines = <<>> /\ running = FALSE /\ halted = {} /\ crossed = {} /\ limitWanted = Nothing
      /\ config = Nothing /\ settings = Nothing /\ file = Nothing
      /\ caller = [c \in Callers |-> Idle] /\ wanted = [config |-> Nothing, settings |-> Nothing]
  BY DEF Init
<1>2. Newest = 0
  BY <1>1, NoPipelines DEF Newest
<1>3. PipelineTypes
  BY <1>1, NothingIsGiven, NoPipelines DEF PipelineTypes
<1>4. Idle \in Request /\ Idle.step = "idle"
  BY NothingIsGiven DEF Idle, Request, Steps
<1>5. EditTypes
  BY <1>1, <1>4, NothingIsGiven DEF EditTypes
<1>6. InForce /\ ConfigCarried /\ SettingsCarried
  BY <1>1, <1>2, <1>4 DEF InForce, Switching, ConfigCarried, SettingsCarried
<1> QED BY <1>1, <1>3, <1>4, <1>5, <1>6 DEF PipelineInv, Requests, EditInv

ConsoleInv == PipelineInv /\ EditInv

\* Both kinds of request keep both parts.
LEMMA ConsoleStep ==
  ASSUME ConsoleInv, [Next]_vars
  PROVE  ConsoleInv'
<1>1. EditInv'
  BY EditStep DEF ConsoleInv, PipelineInv
<1>2. PipelineInv'
  BY <1>1, PipelineStep DEF ConsoleInv, EditInv
<1> QED BY <1>1, <1>2 DEF ConsoleInv

\* An activation answered "ok", that no start crossed and no reset in the air could
\* undo, keeps that pipeline from trading until a reset is asked for while it is the
\* newest, whatever is stopped and started; the newest pipeline trades within the
\* limits last answered "ok".
THEOREM OperatorIsHeeded == Spec => []OperatorHeeded
<1>1. Init => ConsoleInv
  BY ConsoleStarts DEF ConsoleInv
<1>2. ConsoleInv /\ [Next]_vars => ConsoleInv'
  BY ConsoleStep
<1>3. ASSUME ConsoleInv PROVE OperatorHeeded
  <2>1. pipelines \in Seq(PipelineObject) /\ DOMAIN pipelines = 1..Len(pipelines)
    BY <1>3, LenProperties DEF ConsoleInv, PipelineInv, PipelineTypes
  <2>2. \A i \in halted : pipelines[i].killed
    BY <1>3 DEF ConsoleInv, PipelineInv, InForce
  <2>3. \A i \in DOMAIN pipelines : i = Newest => pipelines[i].limits = limitWanted
    BY <1>3, <2>1 DEF ConsoleInv, PipelineInv, InForce, Newest
  <2> QED BY <2>2, <2>3 DEF OperatorHeeded, MayTrade
<1> QED BY <1>1, <1>2, <1>3, PTL DEF Spec

\* Edits of the configuration and of the settings that do not overlap in time are
\* all in force once answered, and the settings file agrees.
THEOREM EditsAreKept == Spec => []EditsKept
<1>1. Init => ConsoleInv
  BY ConsoleStarts DEF ConsoleInv
<1>2. ConsoleInv /\ [Next]_vars => ConsoleInv'
  BY ConsoleStep
<1>3. ConsoleInv => EditsKept
  BY DEF ConsoleInv, EditInv, ConfigCarried, SettingsCarried, EditsKept
<1> QED BY <1>1, <1>2, <1>3, PTL DEF Spec

(* Only its own steps change the console, which starts with the desk.       *)
THEOREM DeskHasConsole == DeskSpec => Spec
<1>1. DeskInit => Init
  BY DEF DeskInit
<1>2. ASSUME DeskNext PROVE [Next]_vars
  BY <1>2 DEF DeskNext, SessionRuns, ConsoleRuns, RegistryRuns, TradeRuns, RobotRuns, IndicatorsRun, TrainingRuns, ReplayRuns
<1>3. UNCHANGED desk => UNCHANGED vars
  BY DEF desk
<1> QED
  BY <1>1, <1>2, <1>3, PTL DEF DeskSpec, Spec

=============================================================================
