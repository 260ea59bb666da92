----------------------------- MODULE BooksProofs ----------------------------
(***************************************************************************)
(* Proofs about Books: the backtest engine, the exposure monitor, the      *)
(* paper broker and the honest runner, one after another.  Each has an     *)
(* inductive invariant of its own (BackInv, RiskInv, PaperInv, RunnerInv   *)
(* and InStep), one lemma per action, and then its theorems; most of them  *)
(* are about sums over symbols or orders (SetProofs).                      *)
(***************************************************************************)
EXTENDS Books, SetProofs

-----------------------------------------------------------------------------
(* The backtest engine: types.                                              *)

BackOrder ==
  [sym : Symbols, side : {"BUY"}, qty : Nat] \cup [sym : Symbols, side : {"SELL"}, qty : Nat \ {0}]

BackPosition == [qty : Nat, paid : Nat, fees : Nat, entry : Nat]

BackTyping ==
  /\ bar \in Nat /\ phase \in {"open", "exits", "decide"}
  /\ market \in Markets
  /\ queue \in Seq(BackOrder) /\ pending \in Seq(BackOrder)
  /\ unchecked \in SUBSET Symbols
  /\ cash \in Int /\ profit \in Int /\ dropped \in Int
  /\ position \in [Symbols -> BackPosition]

(* What is held, at cost, and the equation of the report.                   *)
Cost == [s \in Symbols |-> position[s].paid + position[s].fees]

Explained == cash + dropped + SumFunctionOnSet(Cost, Symbols) = InitialBalance + profit

(* Once the exits of a bar begin, what is held and no longer to be tested   *)
(* did not touch its stop; when they end, nothing is left to be tested.     *)
Tested ==
  /\ phase # "open" =>
       \A s \in Back!Held \ unchecked : market[s] # Back!NoRow => ~Back!StopHit(s)
  /\ phase = "exits" => unchecked \subseteq Back!Exposed
  /\ phase = "decide" => unchecked = {}

BackInv == BackTyping /\ Explained /\ Tested

(* The image of a finite set is finite.                                     *)
LEMMA FiniteImage ==
  ASSUME NEW S, IsFiniteSet(S), NEW f, DOMAIN f = S
  PROVE  IsFiniteSet({f[x] : x \in S})
<1> DEFINE T == {f[x] : x \in S}
           g == [x \in S |-> f[x]]
<1>1. g \in [S -> T] /\ \A t \in T : \E x \in S : g[x] = t
  OBVIOUS
<1>2. g \in Surjection(S, T)
  BY <1>1 DEF Surjection
<1> HIDE DEF g, T
<1>3. IsFiniteSet(T)
  BY <1>2, FS_Surjection
<1> QED
  BY <1>3 DEF T

(* A set of orders has a sequence.                                          *)
LEMMA SetToSeqIsSeq ==
  ASSUME NEW S, IsFiniteSet(S)
  PROVE  Back!SetToSeq(S) \in Seq(S)
<1> DEFINE n == Cardinality(S)
<1>1. n \in Nat /\ ExistsBijection(1..n, S)
  BY FS_CardinalityType
<1>2. \E f \in [1..n -> S] : Back!IsInjective(f)
  BY <1>1 DEF ExistsBijection, Bijection, Injection, IsInjective, Back!IsInjective
<1>3. Back!SetToSeq(S) \in [1..n -> S]
  <2>1. Back!SetToSeq(S) = CHOOSE f \in [1..n -> S] : Back!IsInjective(f)
    BY DEF Back!SetToSeq, Back!Cardinality, Cardinality
  <2> HIDE DEF n
  <2> QED
    BY <1>2, <2>1, Zenon
<1> QED
  BY <1>1, <1>3, FunctionIsSeq

(* The sum the module states is the one the lemmas about sums are about.    *)
LEMMA BackSum ==
  ASSUME NEW f PROVE Back!SumFunction(f) = SumFunctionOnSet(f, DOMAIN f)
BY DEF Back!SumFunction, Back!SumFunctionOnSet, Back!FoldFunctionOnSet, Back!MapThenFoldSet, Back!FoldFunction,
   SumFunctionOnSet, FoldFunctionOnSet, MapThenFoldSet

(* The equation kept by induction is the one the report promises.           *)
LEMMA ExplainedIsTheReport == Explained <=> Back!TradesExplainCash
<1>1. Cost = [s \in Symbols |-> position[s].paid + position[s].fees] /\ DOMAIN Cost = Symbols
  BY DEF Cost
<1>2. Back!SumFunction(Cost) = SumFunctionOnSet(Cost, Symbols)
  BY <1>1, BackSum
<1> QED
  BY <1>1, <1>2 DEF Explained, Back!TradesExplainCash

(* A row that is there is a row of the data.                                *)
LEMMA RowOfMarket ==
  ASSUME market \in Markets, NEW s \in Symbols, market[s] # Back!NoRow
  PROVE  market[s] \in BacktestRow
BY BacktestConstants

(* A division by a positive number, of a natural number to one.             *)
LEMMA Quotient ==
  ASSUME NEW a \in Int, NEW b \in Int, b > 0
  PROVE  a \div b \in Int /\ (a >= 0 => a \div b \in Nat)
OBVIOUS

(* The equation survives a change of one position, when the money fits.     *)
LEMMA ExplainedMoves ==
  ASSUME BackTyping, Explained, cash' \in Int, profit' \in Int, dropped' \in Int, NEW s \in Symbols,
         NEW p \in BackPosition, position' = [position EXCEPT ![s] = p],
         cash' + dropped' + (p.paid + p.fees) - profit'
           = cash + dropped + (position[s].paid + position[s].fees) - profit
  PROVE  Explained'
<1> DEFINE f == Cost
           g == Cost'
<1>1. f = [t \in Symbols |-> position[t].paid + position[t].fees]
      /\ g = [t \in Symbols |-> position'[t].paid + position'[t].fees]
  BY DEF Cost
<1>2. position \in [Symbols -> BackPosition] /\ IsFiniteSet(Symbols)
  BY BacktestConstants DEF BackTyping
<1>3. \A t \in Symbols : position[t].paid \in Nat /\ position[t].fees \in Nat
  BY <1>2 DEF BackPosition
<1>4. p.paid \in Nat /\ p.fees \in Nat
  BY DEF BackPosition
<1>5. position'[s] = p /\ \A t \in Symbols : t # s => position'[t] = position[t]
  BY <1>2
<1>6. \A t \in Symbols : f[t] \in Int
  BY <1>1, <1>3
<1>7. g[s] = p.paid + p.fees /\ f[s] = position[s].paid + position[s].fees
  BY <1>1, <1>5
<1>8. \A t \in Symbols : t # s => g[t] = f[t]
  BY <1>1, <1>5
<1>9. g[s] \in Int
  BY <1>4, <1>7
<1>10. SumFunctionOnSet(g, Symbols) = SumFunctionOnSet(f, Symbols) + (g[s] - f[s])
       /\ SumFunctionOnSet(f, Symbols) \in Int
  <2> HIDE DEF f, g
  <2> QED
    BY <1>2, <1>6, <1>8, <1>9, SumMoves, SumTakes
<1>11. InitialBalance \in Int /\ cash \in Int /\ dropped \in Int /\ profit \in Int
  BY BacktestConstants DEF BackTyping
<1> DEFINE a == SumFunctionOnSet(f, Symbols)
           b == SumFunctionOnSet(g, Symbols)
<1>12. cash + dropped + a = InitialBalance + profit
  BY DEF Explained
<1>13. b = a + ((p.paid + p.fees) - (position[s].paid + position[s].fees)) /\ a \in Int
  BY <1>7, <1>10
<1>14. cash' + dropped' + b = InitialBalance + profit'
  <2> HIDE DEF a, b
  <2>1. position[s].paid \in Int /\ position[s].fees \in Int /\ p.paid \in Int /\ p.fees \in Int
    BY <1>3, <1>4
  <2> QED
    BY <1>11, <1>12, <1>13, <2>1
<1> QED
  BY <1>14 DEF Explained

(* A sale of part or all of a position deletes it, and explains itself.     *)
LEMMA SaleStep ==
  ASSUME BackTyping, NEW s \in Symbols, NEW qty \in Nat, position[s].qty > 0,
         NEW proceeds \in Int, Back!Closes(s, qty, proceeds)
  PROVE  /\ cash' = cash + proceeds - Fee
         /\ cash' \in Int /\ profit' \in Int /\ dropped' \in Int
         /\ Back!NoPosition \in BackPosition
         /\ position' = [position EXCEPT ![s] = Back!NoPosition]
         /\ Explained => Explained'
<1> DEFINE p == position[s]
           cost == (p.paid * qty) \div p.qty
<1>1. position \in [Symbols -> BackPosition] /\ cash \in Int /\ profit \in Int /\ dropped \in Int /\ Fee \in Int
  BY BacktestConstants DEF BackTyping
<1>2. p.paid \in Nat /\ p.qty \in Nat /\ p.fees \in Nat /\ p.qty > 0
  BY <1>1 DEF BackPosition
<1>3. cost \in Int
  <2>1. p.paid * qty \in Int
    BY <1>2
  <2> QED
    BY <1>2, <2>1, Quotient
<1>4. /\ cash' = cash + proceeds - Fee
      /\ profit' = profit + proceeds - cost - Fee - p.fees
      /\ dropped' = dropped + p.paid - cost
      /\ position' = [position EXCEPT ![s] = Back!NoPosition]
  BY DEF Back!Closes
<1>5. Back!NoPosition \in BackPosition /\ Back!NoPosition.paid = 0 /\ Back!NoPosition.fees = 0
  BY DEF Back!NoPosition, BackPosition
<1> HIDE DEF cost
<1>6. cash' \in Int /\ profit' \in Int /\ dropped' \in Int
  BY <1>1, <1>2, <1>3, <1>4
<1>7. cash' + dropped' + (Back!NoPosition.paid + Back!NoPosition.fees) - profit'
        = cash + dropped + (position[s].paid + position[s].fees) - profit
  BY <1>1, <1>2, <1>3, <1>4, <1>5
<1>8. Explained => Explained'
  BY <1>4, <1>5, <1>6, <1>7, ExplainedMoves
<1> QED
  BY <1>4, <1>5, <1>6, <1>8

(* A purchase that is made adds its shares at their price.                  *)
LEMMA PurchaseStep ==
  ASSUME BackTyping, NEW o \in BackOrder, NEW row \in BacktestRow,
         Back!FillsBuy(o, row), UNCHANGED <<profit, dropped>>
  PROVE  \/ UNCHANGED <<cash, position, pending>>
         \/ \E qty \in Nat \ {0} :
              LET each == row.open + Spread
                  p == position[o.sym]
                  q == [qty |-> p.qty + qty, paid |-> p.paid + qty * each, fees |-> p.fees + Fee,
                        entry |-> IF p.qty = 0 THEN bar ELSE p.entry]
              IN /\ qty * each + Fee <= cash \/ qty * each < cash
                 /\ cash' = cash - qty * each - Fee
                 /\ q \in BackPosition
                 /\ position' = [position EXCEPT ![o.sym] = q]
                 /\ pending' \in Seq(BackOrder)
<1> DEFINE want == Back!Wanted(o, row)
           each == row.open + Spread
           qty == IF want <= 0 THEN 0 ELSE Back!Afforded(Back!Fillable(want, row), each)
<1>1. o.sym \in Symbols /\ o.qty \in Nat
  BY DEF BackOrder
<1>2. row.open \in Nat /\ row.open > 0 /\ row.cap \in Nat /\ Spread \in Nat /\ Fee \in Nat /\ Fraction \in Nat
  BY BacktestConstants DEF BacktestRow
<1>3. position \in [Symbols -> BackPosition] /\ cash \in Int /\ bar \in Nat /\ pending \in Seq(BackOrder)
  BY DEF BackTyping
<1>4. each \in Nat /\ each > 0
  BY <1>2
<1>5. want \in Int
  <2> DEFINE f == [s \in Symbols |-> position[s].paid]
             invested == Back!SumFunction(f)
  <2>1. invested \in Int
    <3>1. \A s \in Symbols : f[s] \in Int
      BY <1>3 DEF BackPosition
    <3>2. DOMAIN f = Symbols
      OBVIOUS
    <3> HIDE DEF f
    <3>3. invested = SumFunctionOnSet(f, Symbols)
      BY <3>2, BackSum
    <3> QED
      BY <3>1, <3>3, BacktestConstants, SumTakes
  <2>2. want = IF o.qty > 0 THEN o.qty ELSE ((cash + invested) * Fraction) \div (100 * row.open)
    BY DEF Back!Wanted
  <2> HIDE DEF invested, want
  <2>3. (cash + invested) * Fraction \in Int /\ 100 * row.open \in Int /\ 100 * row.open > 0
    BY <1>2, <1>3, <2>1
  <2>4. ((cash + invested) * Fraction) \div (100 * row.open) \in Int
    BY <2>3, Quotient
  <2> QED
    BY <1>1, <2>2, <2>4
<1>6. ASSUME want > 0 PROVE Back!Fillable(want, row) \in Nat
  BY <1>2, <1>5, <1>6 DEF Back!Fillable, Back!AtMost, Back!AtLeast
<1>7. ASSUME NEW full \in Nat
      PROVE  /\ Back!Afforded(full, each) \in Int
             /\ \A n : n = Back!Afforded(full, each) /\ n > 0 => n * each + Fee <= cash \/ n * each < cash
  <2> DEFINE n == Back!Afforded(full, each)
  <2>1. n = IF full * each + Fee <= cash THEN full ELSE IF cash <= 0 THEN 0 ELSE (cash - 1) \div each
    BY DEF Back!Afforded
  <2>2. (cash - 1) \div each \in Int /\ ((cash - 1) \div each) * each <= cash - 1
    BY <1>3, <1>4
  <2> HIDE DEF n, each
  <2>3. n \in Int
    BY <2>1, <2>2
  <2> DEFINE Covered == n > 0 => n * each + Fee <= cash \/ n * each < cash
  <2>4. ASSUME full * each + Fee <= cash PROVE Covered
    <3>1. n = full
      BY <2>1, <2>4
    <3> QED
      BY <2>4, <3>1
  <2>5. ASSUME ~(full * each + Fee <= cash), cash <= 0 PROVE Covered
    <3>1. n = 0
      BY <2>1, <2>5
    <3> QED
      BY <3>1
  <2>6. ASSUME ~(full * each + Fee <= cash), ~(cash <= 0) PROVE Covered
    <3>1. n = (cash - 1) \div each
      BY <2>1, <2>6
    <3>2. n * each <= cash - 1
      BY <2>2, <3>1
    <3>3. n * each \in Int
      BY <1>4, <2>3 DEF each
    <3> QED
      BY <1>3, <3>2, <3>3
  <2>7. n > 0 => n * each + Fee <= cash \/ n * each < cash
    BY <2>4, <2>5, <2>6 DEF Covered
  <2> QED
    BY <2>3, <2>7 DEF n
<1>8. CASE qty <= 0
  BY <1>8 DEF Back!FillsBuy
<1>9. CASE ~(qty <= 0)
  <2>1. want > 0 /\ qty = Back!Afforded(Back!Fillable(want, row), each)
    <3>1. CASE want <= 0
      BY <1>9, <3>1
    <3> QED
      BY <1>5, <3>1
  <2>2. qty \in Int /\ (qty > 0 => qty * each + Fee <= cash \/ qty * each < cash)
    BY <1>6, <1>7, <2>1
  <2>3. qty \in Nat \ {0} /\ (qty * each + Fee <= cash \/ qty * each < cash)
    <3> HIDE DEF qty, each
    <3> QED
      BY <1>9, <2>2
  <2> DEFINE p == position[o.sym]
             q == [qty |-> p.qty + qty, paid |-> p.paid + qty * each, fees |-> p.fees + Fee,
                   entry |-> IF p.qty = 0 THEN bar ELSE p.entry]
  <2>4. /\ cash' = cash - qty * each - Fee
        /\ position' = [position EXCEPT ![o.sym] = q]
        /\ pending' = pending \o Back!Remainder(o, want - qty)
    BY <1>9 DEF Back!FillsBuy, Back!Bought
  <2>5. q \in BackPosition
    <3> HIDE DEF qty, each
    <3>1. p.qty \in Nat /\ p.paid \in Nat /\ p.fees \in Nat /\ p.entry \in Nat
      BY <1>1, <1>3 DEF BackPosition
    <3>2. p.qty + qty \in Nat /\ p.paid + qty * each \in Nat /\ p.fees + Fee \in Nat
      BY <1>2, <1>4, <2>3, <3>1
    <3> QED
      BY <1>3, <3>1, <3>2 DEF BackPosition
  <2>6. pending' \in Seq(BackOrder)
    <3> HIDE DEF qty
    <3>1. Back!Remainder(o, want - qty) \in Seq(BackOrder)
      <4>1. ASSUME want - qty > 0
            PROVE  Back!Buy(o.sym, want - qty) \in BackOrder
        BY <1>1, <1>5, <2>3, <4>1 DEF Back!Buy, BackOrder
      <4> QED
        BY <4>1 DEF Back!Remainder
    <3> QED
      BY <1>3, <2>4, <3>1, ConcatProperties
  <2> HIDE DEF qty
  <2> QED
    BY <2>3, <2>4, <2>5, <2>6
<1> QED
  BY <1>8, <1>9

(* The run begins with the whole balance in cash.                           *)
LEMMA BackBegins ==
  ASSUME Back!Init
  PROVE  BackInv
<1>1. /\ bar = 1 /\ phase = "open" /\ market \in Markets /\ queue = <<>> /\ pending = <<>> /\ unchecked = {}
      /\ cash = InitialBalance /\ profit = 0 /\ dropped = 0
      /\ position = [s \in Symbols |-> Back!NoPosition]
  BY DEF Back!Init
<1>2. Back!NoPosition \in BackPosition /\ Back!NoPosition.paid = 0 /\ Back!NoPosition.fees = 0
  BY DEF Back!NoPosition, BackPosition
<1>3. BackTyping
  <2>1. queue \in Seq(BackOrder) /\ pending \in Seq(BackOrder)
    BY <1>1, EmptySeq
  <2>2. position \in [Symbols -> BackPosition]
    BY <1>1, <1>2
  <2> QED
    BY <1>1, <2>1, <2>2, BacktestConstants DEF BackTyping
<1>4. Explained
  <2>1. \A s \in Symbols : Cost[s] = 0
    BY <1>1, <1>2 DEF Cost
  <2>2. SumFunctionOnSet(Cost, Symbols) = 0
    BY <2>1, SumOfZeros, BacktestConstants
  <2> QED
    BY <1>1, <2>2, BacktestConstants DEF Explained
<1>5. Tested
  BY <1>1 DEF Tested
<1> QED
  BY <1>3, <1>4, <1>5 DEF BackInv

(* An order fills, in part or not at all, at the open: BUY from cash, SELL  *)
(* of what is held.                                                         *)
LEMMA BackFills ==
  ASSUME BackInv, Back!Fill
  PROVE  BackInv'
<1> DEFINE o == Head(queue)
           row == market[o.sym]
<1>1. /\ phase = "open" /\ queue # <<>> /\ queue' = Tail(queue)
      /\ bar' = bar /\ phase' = phase /\ market' = market /\ unchecked' = unchecked
  BY DEF Back!Fill
<1>2. BackTyping /\ Explained
  BY DEF BackInv
<1>3. queue \in Seq(BackOrder) /\ pending \in Seq(BackOrder) /\ position \in [Symbols -> BackPosition]
      /\ cash \in Int /\ profit \in Int /\ dropped \in Int /\ market \in Markets
  BY <1>2 DEF BackTyping
<1>4. o \in BackOrder /\ queue' \in Seq(BackOrder)
  BY <1>1, <1>3, HeadTailProperties
<1>5. o.sym \in Symbols /\ o.qty \in Nat /\ (o.side = "SELL" => o.qty > 0)
  BY <1>4 DEF BackOrder
<1>6. Tested'
  BY <1>1 DEF Tested
<1> SUFFICES /\ cash' \in Int /\ profit' \in Int /\ dropped' \in Int
             /\ position' \in [Symbols -> BackPosition] /\ pending' \in Seq(BackOrder) /\ Explained'
  <2>1. bar' \in Nat /\ phase' \in {"open", "exits", "decide"} /\ market' \in Markets /\ unchecked' \in SUBSET Symbols
    BY <1>1, <1>2 DEF BackTyping
  <2> QED
    BY <1>4, <1>6, <2>1 DEF BackInv, BackTyping
<1>7. ASSUME row = Back!NoRow, pending' = Append(pending, o), UNCHANGED <<cash, position, profit, dropped>>
      PROVE  /\ cash' \in Int /\ profit' \in Int /\ dropped' \in Int
             /\ position' \in [Symbols -> BackPosition] /\ pending' \in Seq(BackOrder) /\ Explained'
  <2>1. pending' \in Seq(BackOrder)
    BY <1>3, <1>4, <1>7, AppendProperties
  <2>2. Explained'
    BY <1>2, <1>7 DEF Explained, Cost
  <2> QED
    BY <1>3, <1>7, <2>1, <2>2
<1>8. ASSUME row # Back!NoRow, o.side = "BUY", Back!FillsBuy(o, row), UNCHANGED <<profit, dropped>>
      PROVE  /\ cash' \in Int /\ profit' \in Int /\ dropped' \in Int
             /\ position' \in [Symbols -> BackPosition] /\ pending' \in Seq(BackOrder) /\ Explained'
  <2>1. row \in BacktestRow
    BY <1>3, <1>5, <1>8, RowOfMarket
  <2>2. CASE UNCHANGED <<cash, position, pending>>
    <3>1. Explained'
      BY <1>2, <1>8, <2>2 DEF Explained, Cost
    <3> QED
      BY <1>3, <1>8, <2>2, <3>1
  <2>3. ASSUME NEW qty \in Nat \ {0}, NEW q \in BackPosition,
               q.paid = position[o.sym].paid + qty * (row.open + Spread),
               q.fees = position[o.sym].fees + Fee,
               cash' = cash - qty * (row.open + Spread) - Fee,
               position' = [position EXCEPT ![o.sym] = q],
               pending' \in Seq(BackOrder)
        PROVE  /\ cash' \in Int /\ profit' \in Int /\ dropped' \in Int
               /\ position' \in [Symbols -> BackPosition] /\ pending' \in Seq(BackOrder) /\ Explained'
    <3> DEFINE spent == qty * (row.open + Spread)
    <3>1. spent \in Int /\ Fee \in Int
      BY <2>1, BacktestConstants DEF BacktestRow
    <3>2. position[o.sym].paid \in Int /\ position[o.sym].fees \in Int
      BY <1>3, <1>5 DEF BackPosition
    <3> HIDE DEF spent
    <3>3. cash' = cash - spent - Fee /\ q.paid = position[o.sym].paid + spent
      BY <2>3 DEF spent
    <3>4. cash' \in Int /\ profit' \in Int /\ dropped' \in Int
      BY <1>3, <1>8, <3>1, <3>3
    <3>5. profit' = profit /\ dropped' = dropped
      BY <1>8
    <3>6. cash' + dropped' + (q.paid + q.fees) - profit'
            = cash + dropped + (position[o.sym].paid + position[o.sym].fees) - profit
      <4>1. q.fees = position[o.sym].fees + Fee
        BY <2>3
      <4>2. cash \in Int /\ dropped \in Int /\ profit \in Int
        BY <1>3
      <4> QED
        BY <3>1, <3>2, <3>3, <3>5, <4>1, <4>2
    <3>7. Explained'
      BY <1>2, <1>5, <2>3, <3>4, <3>6, ExplainedMoves
    <3>8. position' \in [Symbols -> BackPosition]
      BY <1>3, <2>3
    <3> QED
      BY <2>3, <3>4, <3>7, <3>8
  <2> QED
    <3> DEFINE each == row.open + Spread
               p == position[o.sym]
               q(n) == [qty |-> p.qty + n, paid |-> p.paid + n * each, fees |-> p.fees + Fee,
                        entry |-> IF p.qty = 0 THEN bar ELSE p.entry]
    <3>1. \/ UNCHANGED <<cash, position, pending>>
          \/ \E qty \in Nat \ {0} :
               /\ cash' = cash - qty * each - Fee
               /\ q(qty) \in BackPosition
               /\ position' = [position EXCEPT ![o.sym] = q(qty)]
               /\ pending' \in Seq(BackOrder)
      BY <1>2, <1>4, <1>8, <2>1, PurchaseStep
    <3>2. \A n : q(n).paid = p.paid + n * each /\ q(n).fees = p.fees + Fee
      OBVIOUS
    <3> HIDE DEF q
    <3> QED
      BY <2>2, <2>3, <3>1, <3>2
<1>9. ASSUME row # Back!NoRow, o.side = "SELL", Back!FillsSell(o, row)
      PROVE  /\ cash' \in Int /\ profit' \in Int /\ dropped' \in Int
             /\ position' \in [Symbols -> BackPosition] /\ pending' \in Seq(BackOrder) /\ Explained'
  <2>1. pending' = pending
    BY <1>9 DEF Back!FillsSell
  <2>2. CASE o.sym \notin Back!Held
    <3>1. UNCHANGED <<cash, position, profit, dropped>>
      BY <1>9, <2>2 DEF Back!FillsSell
    <3>2. Explained'
      BY <1>2, <3>1 DEF Explained, Cost
    <3> QED
      BY <1>3, <2>1, <3>1, <3>2
  <2>3. CASE o.sym \in Back!Held
    <3> DEFINE qty == Back!AtMost(o.qty, position[o.sym].qty)
               proceeds == qty * Back!AtLeast(row.open - Spread, 0)
    <3>1. row \in BacktestRow
      BY <1>3, <1>5, <1>9, RowOfMarket
    <3>2. position[o.sym].qty > 0 /\ position[o.sym].qty \in Nat
      BY <1>3, <1>5, <2>3 DEF Back!Held, BackPosition
    <3>3. qty \in Nat
      BY <1>5, <3>2 DEF Back!AtMost
    <3>4. proceeds \in Int
      BY <3>1, <3>3, BacktestConstants DEF Back!AtLeast, BacktestRow
    <3>5. Back!Closes(o.sym, qty, proceeds)
      BY <1>9, <2>3 DEF Back!FillsSell
    <3> HIDE DEF qty, proceeds
    <3>6. /\ cash' \in Int /\ profit' \in Int /\ dropped' \in Int
          /\ Back!NoPosition \in BackPosition
          /\ position' = [position EXCEPT ![o.sym] = Back!NoPosition]
          /\ Explained => Explained'
      BY <1>2, <1>5, <3>2, <3>3, <3>4, <3>5, SaleStep
    <3> QED
      BY <1>2, <1>3, <2>1, <3>6
  <2> QED
    BY <2>2, <2>3
<1> QED
  BY <1>7, <1>8, <1>9 DEF Back!Fill

(* What a barrier fetches is a number.                                      *)
LEMMA BarrierType ==
  ASSUME BackTyping, NEW s \in Symbols, market[s] # Back!NoRow
  PROVE  /\ Back!AtStop(s) \in Int /\ Back!AtTarget(s) \in Int
         /\ \A v \in Int : Back!AtLeast(v - Spread * position[s].qty, 0) \in Int
<1>1. position[s] \in BackPosition /\ market[s] \in BacktestRow
  BY RowOfMarket DEF BackTyping
<1>2. /\ position[s].paid \in Int /\ position[s].qty \in Int /\ market[s].open \in Int
      /\ Stop \in Int /\ Target \in Int /\ Spread \in Int
  BY <1>1, BacktestConstants DEF BackPosition, BacktestRow
<1>3. /\ (position[s].paid * (100 - Stop)) \div 100 \in Int
      /\ (position[s].paid * (100 + Target)) \div 100 \in Int
      /\ market[s].open * position[s].qty \in Int
      /\ Spread * position[s].qty \in Int
  BY <1>2
<1>4. Back!AtStop(s) \in Int /\ Back!AtTarget(s) \in Int
  BY <1>3 DEF Back!AtStop, Back!AtTarget, Back!AtMost, Back!AtLeast
<1> QED
  BY <1>3, <1>4 DEF Back!AtLeast

(* A position is tested against its stop and its target, and closed or      *)
(* kept.                                                                    *)
LEMMA BackExits ==
  ASSUME BackInv, NEW s \in Symbols, Back!CheckExit(s)
  PROVE  BackInv'
<1>1. /\ phase = "exits" /\ s \in unchecked /\ unchecked' = unchecked \ {s}
      /\ bar' = bar /\ phase' = phase /\ market' = market /\ queue' = queue /\ pending' = pending
  BY DEF Back!CheckExit
<1>2. BackTyping /\ Explained /\ Tested
  BY DEF BackInv
<1>3. position \in [Symbols -> BackPosition] /\ cash \in Int /\ profit \in Int /\ dropped \in Int
  BY <1>2 DEF BackTyping
<1> DEFINE Kept == /\ cash' \in Int /\ profit' \in Int /\ dropped' \in Int
                   /\ position' \in [Symbols -> BackPosition] /\ Explained'
                   /\ \A t \in Symbols : t # s => position'[t] = position[t]
                   /\ s \in Back!Held' /\ market[s] # Back!NoRow => position' = position /\ ~Back!StopHit(s)
<1>4. ASSUME s \in Back!Held, market[s] # Back!NoRow, NEW v \in Int, Back!Leaves(s, v)
      PROVE  Kept
  <2> DEFINE proceeds == Back!AtLeast(v - Spread * position[s].qty, 0)
  <2>1. position[s].qty > 0 /\ position[s].qty \in Nat
    BY <1>3, <1>4 DEF Back!Held, BackPosition
  <2>2. proceeds \in Int
    BY <1>2, <1>4, BarrierType
  <2>3. Back!Closes(s, position[s].qty, proceeds)
    BY <1>4 DEF Back!Leaves
  <2> HIDE DEF proceeds
  <2>4. /\ cash' \in Int /\ profit' \in Int /\ dropped' \in Int
        /\ Back!NoPosition \in BackPosition
        /\ position' = [position EXCEPT ![s] = Back!NoPosition]
        /\ Explained => Explained'
    BY <1>2, <2>1, <2>2, <2>3, SaleStep
  <2>5. position' \in [Symbols -> BackPosition] /\ \A t \in Symbols : t # s => position'[t] = position[t]
    BY <1>3, <2>4
  <2>6. s \notin Back!Held'
    <3>1. position'[s] = Back!NoPosition
      BY <1>3, <2>4
    <3> QED
      BY <3>1 DEF Back!Held, Back!NoPosition
  <2> QED
    BY <1>2, <2>4, <2>5, <2>6
<1>5. ASSUME ~Back!StopHit(s), UNCHANGED <<cash, position, profit, dropped>>
      PROVE  Kept
  <2>1. Explained'
    BY <1>2, <1>5 DEF Explained, Cost
  <2> QED
    BY <1>3, <1>5, <2>1
<1>6. CASE s \in Back!Held /\ market[s] # Back!NoRow
  <2>1. Back!AtStop(s) \in Int /\ Back!AtTarget(s) \in Int
    BY <1>2, <1>6, BarrierType
  <2>2. Kept
    <3> HIDE DEF Kept
    <3> QED
      BY <1>4, <1>5, <1>6, <2>1 DEF Back!CheckExit
  <2>3. BackTyping'
    BY <1>1, <1>2, <2>2 DEF BackTyping
  <2>4. Tested'
    <3>1. ASSUME NEW t \in Symbols, t \in Back!Held', t \notin unchecked', market'[t] # Back!NoRow
          PROVE  ~Back!StopHit(t)'
      <4>1. CASE t = s
        BY <1>1, <2>2, <3>1, <4>1 DEF Back!StopHit
      <4>2. CASE t # s
        <5>1. position'[t] = position[t] /\ market'[t] = market[t]
          BY <1>1, <2>2, <4>2
        <5>2. t \in Back!Held /\ t \notin unchecked
          BY <1>1, <3>1, <4>2, <5>1 DEF Back!Held
        <5>3. ~Back!StopHit(t)
          BY <1>1, <1>2, <3>1, <5>1, <5>2 DEF Tested
        <5> QED
          BY <5>1, <5>3 DEF Back!StopHit
      <4> QED
        BY <4>1, <4>2
    <3>2. unchecked' \subseteq Back!Exposed'
      <4> SUFFICES ASSUME NEW t \in Symbols, t # s, t \in Back!Exposed
                   PROVE  t \in Back!Exposed'
        BY <1>1, <1>2 DEF Tested, BackTyping
      <4>1. position'[t] = position[t] /\ market' = market
        BY <1>1, <2>2
      <4> QED
        BY <4>1 DEF Back!Exposed, Back!Held
    <3> QED
      BY <1>1, <3>1, <3>2 DEF Tested, Back!Held
  <2> QED
    BY <2>2, <2>3, <2>4 DEF BackInv
<1> QED
  BY <1>1, <1>2, <1>6 DEF Tested, Back!Exposed

(* The bar turns from fills to exits, and from exits to decisions.          *)
LEMMA BackTurns ==
  ASSUME BackInv, Back!BeginExits \/ Back!EndExits
  PROVE  BackInv'
<1>1. BackTyping /\ Explained /\ Tested
  BY DEF BackInv
<1>2. BackTyping'
  BY <1>1 DEF BackTyping, Back!BeginExits, Back!EndExits, Back!Exposed, Back!Held
<1>3. Explained'
  <2>1. UNCHANGED <<cash, position, profit, dropped>>
    BY DEF Back!BeginExits, Back!EndExits
  <2> QED
    BY <1>1, <2>1 DEF Explained, Cost
<1>4. ASSUME Back!BeginExits PROVE Tested'
  <2>1. phase' = "exits" /\ unchecked' = Back!Exposed /\ market' = market /\ position' = position
    BY <1>4 DEF Back!BeginExits
  <2>2. Back!Held' = Back!Held /\ Back!Exposed' = Back!Exposed
    BY <2>1 DEF Back!Exposed, Back!Held
  <2>3. Back!Held' \ unchecked' = {t \in Back!Held : market[t] = Back!NoRow}
    BY <2>1, <2>2 DEF Back!Exposed
  <2>4. ASSUME NEW s \in Back!Held', s \notin unchecked', market'[s] # Back!NoRow
        PROVE  FALSE
    BY <2>1, <2>3, <2>4
  <2>5. unchecked' \subseteq Back!Exposed'
    BY <2>1, <2>2
  <2> QED
    BY <2>1, <2>4, <2>5 DEF Tested
<1>5. ASSUME Back!EndExits PROVE Tested'
  <2>1. phase = "exits" /\ phase' = "decide" /\ unchecked = {} /\ unchecked' = {} /\ market' = market /\ position' = position
    BY <1>5 DEF Back!EndExits
  <2>2. Back!Held' = Back!Held /\ \A t : Back!StopHit(t)' = Back!StopHit(t)
    BY <2>1 DEF Back!Held, Back!StopHit
  <2>3. \A s \in Back!Held : market[s] # Back!NoRow => ~Back!StopHit(s)
    BY <1>1, <2>1 DEF Tested
  <2>4. \A s \in Back!Held' : market'[s] # Back!NoRow => ~Back!StopHit(s)'
    BY <2>1, <2>2, <2>3
  <2> QED
    BY <2>1, <2>4 DEF Tested
<1> QED
  BY <1>2, <1>3, <1>4, <1>5 DEF BackInv

(* The strategy decides and the next bar comes.                             *)
LEMMA BackDecides ==
  ASSUME BackInv, NEW signal \in {"buy", "sell", "none"}, NEW data \in Markets, Back!Decide(signal, data)
  PROVE  BackInv'
<1>1. BackTyping /\ Explained
  BY DEF BackInv
<1>2. /\ queue' = pending \o Back!SetToSeq(Back!Decided(signal))
      /\ bar' = bar + 1 /\ phase' = "open" /\ market' = data /\ pending' = <<>>
      /\ UNCHANGED <<unchecked, cash, position, profit, dropped>>
  BY DEF Back!Decide
<1>3. Back!Held \in SUBSET Symbols /\ position \in [Symbols -> BackPosition]
  BY <1>1 DEF Back!Held, BackTyping
<1>4. Back!Decided(signal) \in SUBSET BackOrder /\ IsFiniteSet(Back!Decided(signal))
  <2>1. CASE signal = "buy"
    <3>1. Back!Decided(signal) = {Back!Buy(s, 0) : s \in Symbols \ Back!Held}
      BY <2>1 DEF Back!Decided
    <3>2. IsFiniteSet(Symbols \ Back!Held)
      BY BacktestConstants, FS_Subset
    <3>3. IsFiniteSet({Back!Buy(s, 0) : s \in Symbols \ Back!Held})
      <4> DEFINE f == [s \in Symbols \ Back!Held |-> Back!Buy(s, 0)]
      <4>1. DOMAIN f = Symbols \ Back!Held /\ {Back!Buy(s, 0) : s \in Symbols \ Back!Held} = {f[s] : s \in Symbols \ Back!Held}
        OBVIOUS
      <4> HIDE DEF f
      <4>2. IsFiniteSet({f[s] : s \in Symbols \ Back!Held})
        BY <3>2, <4>1, FiniteImage
      <4> QED
        BY <4>1, <4>2
    <3> QED
      BY <3>1, <3>3 DEF Back!Buy, BackOrder
  <2>2. CASE signal = "sell"
    <3>1. Back!Decided(signal) = {Back!Sell(s) : s \in Back!Held}
      BY <2>2 DEF Back!Decided
    <3>2. IsFiniteSet(Back!Held)
      BY <1>3, BacktestConstants, FS_Subset
    <3>3. IsFiniteSet({Back!Sell(s) : s \in Back!Held})
      <4> DEFINE f == [s \in Back!Held |-> Back!Sell(s)]
      <4>1. DOMAIN f = Back!Held /\ {Back!Sell(s) : s \in Back!Held} = {f[s] : s \in Back!Held}
        OBVIOUS
      <4> HIDE DEF f
      <4>2. IsFiniteSet({f[s] : s \in Back!Held})
        BY <3>2, <4>1, FiniteImage
      <4> QED
        BY <4>1, <4>2
    <3>4. \A s \in Back!Held : position[s].qty \in Nat \ {0}
      BY <1>3 DEF Back!Held, BackPosition
    <3> QED
      BY <1>3, <3>1, <3>3, <3>4 DEF Back!Sell, BackOrder
  <2>3. CASE signal = "none"
    <3>1. Back!Decided(signal) = {}
      BY <2>3 DEF Back!Decided
    <3> QED
      BY <3>1, FS_EmptySet
  <2> QED
    BY <2>1, <2>2, <2>3
<1>5. queue' \in Seq(BackOrder)
  <2> DEFINE D == Back!Decided(signal)
  <2>1. Back!SetToSeq(D) \in Seq(D)
    <3> HIDE DEF D
    <3> QED
      BY <1>4, SetToSeqIsSeq DEF D
  <2>2. Back!SetToSeq(D) \in Seq(BackOrder)
    <3> HIDE DEF D
    <3>1. \A e : e \in Seq(D) /\ D \in SUBSET BackOrder => e \in Seq(BackOrder)
      OBVIOUS
    <3> QED
      BY <1>4, <2>1, <3>1 DEF D
  <2>3. pending \in Seq(BackOrder)
    BY <1>1 DEF BackTyping
  <2> QED
    BY <1>2, <2>2, <2>3, ConcatProperties
<1>6. BackTyping'
  BY <1>1, <1>2, <1>5, EmptySeq DEF BackTyping
<1>7. Explained'
  BY <1>1, <1>2 DEF Explained, Cost
<1> QED
  BY <1>2, <1>6, <1>7 DEF BackInv, Tested

(* Nothing changes.                                                         *)
LEMMA BackStays ==
  ASSUME BackInv, UNCHANGED Back!vars
  PROVE  BackInv'
BY DEF BackInv, BackTyping, Explained, Cost, Tested, Back!Held, Back!Exposed, Back!StopHit, Back!vars

(* Every step of the backtest keeps its invariant.                          *)
LEMMA BackSteps ==
  ASSUME BackInv, Back!Next
  PROVE  BackInv'
BY BackFills, BackExits, BackTurns, BackDecides DEF Back!Next

-----------------------------------------------------------------------------
(* Only its own steps change a component.                                   *)
LEMMA BackRuns ==
  /\ BooksInit /\ part = "backtest" => Back!Init
  /\ [BooksNext]_books /\ part' = "backtest" => part = "backtest" /\ [Back!Next]_(Back!vars)
<1>1. BooksInit /\ part = "backtest" => Back!Init
  BY DEF BooksInit
<1>2. ASSUME BooksNext, part' = "backtest" PROVE part = "backtest" /\ Back!Next
  BY <1>2 DEF BooksNext, LedgerRuns, PaperRuns, BacktestRuns, RunnerRuns, ExposureRuns
<1>3. ASSUME UNCHANGED books, part' = "backtest" PROVE part = "backtest" /\ UNCHANGED Back!vars
  BY <1>3 DEF books, shared, back, Back!vars
<1> QED
  BY <1>1, <1>2, <1>3

(* Backtest, for every data set, account, cost and barrier: when the        *)
(* strategy decides, nothing is held whose bar touched its stop, entries of *)
(* this bar and positions the data skipped for a while included.            *)
THEOREM StopsAreHit == BooksSpec => []StopProtects
<1> DEFINE Inv == part = "backtest" => BackInv
<1>1. BooksInit => Inv
  BY BackRuns, BackBegins
<1>2. Inv /\ [BooksNext]_books => Inv'
  BY BackRuns, BackSteps, BackStays
<1>3. Inv => StopProtects
  BY DEF StopProtects, Back!StopProtects, BackInv, Tested
<1> QED
  BY <1>1, <1>2, <1>3, PTL DEF BooksSpec

-----------------------------------------------------------------------------
(* The backtest engine: the cash.                                           *)

(* What is held is worth its sale at the stop, at the price paid for it.    *)
Worth(p) == p.paid * (100 - Stop) >= p.qty * (100 * (Spread + Fee))

Funded ==
  /\ cash >= -Fee
  /\ \A s \in Symbols : Worth(position[s])

(* What is worth its fees per share stays so when shares are added that     *)
(* are.                                                                     *)
LEMMA Products ==
  ASSUME NEW a \in Nat, NEW b \in Nat, NEW n \in Nat, NEW e \in Nat, NEW r \in Nat, NEW k \in Nat,
         a * r >= b * k, e * r >= k
  PROVE  (a + n * e) * r >= (b + n) * k
<1>1. (a + n * e) * r = a * r + n * (e * r) /\ (b + n) * k = b * k + n * k
  OBVIOUS
<1> DEFINE x == e * r
<1>2. x \in Nat /\ x >= k
  OBVIOUS
<1> HIDE DEF x
<1>3. n * x >= n * k
  BY <1>2
<1>4. n * x \in Nat /\ n * k \in Nat /\ a * r \in Nat /\ b * k \in Nat
  BY <1>2
<1> QED
  BY <1>1, <1>3, <1>4 DEF x

(* An integer quotient keeps a lower bound.                                 *)
LEMMA QuotientBound ==
  ASSUME NEW a \in Int, NEW k \in Int, a >= 100 * k
  PROVE  a \div 100 >= k
OBVIOUS

(* Every sale the engine makes brings its fee.                              *)
LEMMA ShareFetches ==
  ASSUME NEW n \in Nat, n > 0, NEW each \in Int, each >= Fee
  PROVE  n * each >= Fee
<1>1. Fee \in Nat
  BY BacktestConstants
<1> QED
  BY <1>1

(* A position sold at its stop or its target brings spread and fee.         *)
LEMMA BarrierFetches ==
  ASSUME SalesPayTheFee, BackTyping, NEW s \in Symbols, s \in Back!Held, market[s] # Back!NoRow, Worth(position[s]),
         NEW v \in {Back!AtStop(s), Back!AtTarget(s)}
  PROVE  Back!AtLeast(v - Spread * position[s].qty, 0) >= Fee
<1> DEFINE q == position[s].qty
           p == position[s].paid
           o == market[s].open
<1>1. position[s] \in BackPosition /\ market[s] \in BacktestRow /\ q > 0
  BY RowOfMarket DEF BackTyping, Back!Held
<1>2. q \in Nat /\ p \in Nat /\ o \in Nat /\ Spread \in Nat /\ Fee \in Nat /\ Stop \in 0..100 /\ Target \in Nat
  BY <1>1, BacktestConstants DEF BackPosition, BacktestRow
<1>3. p * (100 - Stop) >= q * (100 * (Spread + Fee))
  BY DEF Worth
<1>4. o >= Spread + Fee
  BY DEF SalesPayTheFee, BackTyping
<1> HIDE DEF q, p, o
<1> DEFINE k == q * (Spread + Fee)
<1>5. k \in Nat /\ q * (100 * (Spread + Fee)) = 100 * k /\ k = q * Spread + q * Fee
  BY <1>2
<1>6. q * Fee >= Fee /\ q * Fee \in Nat /\ q * Spread \in Nat /\ Spread * q = q * Spread
  BY <1>1, <1>2 DEF q
<1>7. p * (100 - Stop) \in Int /\ p * (100 + Target) \in Int /\ p * (100 + Target) >= p * (100 - Stop)
  <2>1. p * Stop \in Nat /\ p * Target \in Nat /\ p * (100 - Stop) = p * 100 - p * Stop
        /\ p * (100 + Target) = p * 100 + p * Target
    BY <1>2
  <2> QED
    BY <1>2, <2>1
<1>8. (p * (100 - Stop)) \div 100 >= k /\ (p * (100 + Target)) \div 100 >= k
      /\ (p * (100 - Stop)) \div 100 \in Int /\ (p * (100 + Target)) \div 100 \in Int
  <2> HIDE DEF k
  <2> QED
    BY <1>3, <1>5, <1>7, QuotientBound
<1>9. o * q >= k /\ o * q \in Nat
  <2>1. o * q = q * o
    BY <1>2
  <2> QED
    BY <1>2, <1>4, <2>1
<1>10. v >= k /\ v \in Int
  <2> HIDE DEF k
  <2>1. Back!AtStop(s) >= k /\ Back!AtStop(s) \in Int
    BY <1>8, <1>9, <1>5 DEF Back!AtStop, Back!AtMost, p, q, o
  <2>2. Back!AtTarget(s) >= k /\ Back!AtTarget(s) \in Int
    BY <1>8, <1>9, <1>5 DEF Back!AtTarget, Back!AtLeast, p, q, o
  <2> QED
    BY <2>1, <2>2
<1>11. v - Spread * q >= Fee /\ v - Spread * q \in Int
  <2> HIDE DEF k
  <2>1. Spread * q \in Nat /\ k = Spread * q + q * Fee
    BY <1>5, <1>6
  <2> QED
    BY <1>2, <1>5, <1>6, <1>10, <2>1
<1> QED
  BY <1>2, <1>11 DEF Back!AtLeast, q

(* A sale that brings its fee does not touch what the cash owes.            *)
LEMMA SaleFunds ==
  ASSUME BackTyping, Funded, NEW s \in Symbols, NEW qty \in Nat, position[s].qty > 0,
         NEW proceeds \in Int, proceeds >= Fee, Back!Closes(s, qty, proceeds)
  PROVE  Funded'
<1>1. cash' = cash + proceeds - Fee /\ position' = [position EXCEPT ![s] = Back!NoPosition]
  BY DEF Back!Closes
<1>2. cash \in Int /\ Fee \in Nat /\ position \in [Symbols -> BackPosition]
  BY BacktestConstants DEF BackTyping
<1>3. cash' >= -Fee
  BY <1>1, <1>2 DEF Funded
<1>4. Worth(Back!NoPosition)
  BY BacktestConstants DEF Worth, Back!NoPosition
<1>5. \A t \in Symbols : position'[t] = IF t = s THEN Back!NoPosition ELSE position[t]
  BY <1>1, <1>2
<1>6. \A t \in Symbols : Worth(position'[t])
  BY <1>4, <1>5 DEF Funded
<1> QED
  BY <1>3, <1>6 DEF Funded, Worth

(* The cash stays within one fee of zero.                                   *)
LEMMA BackFunds ==
  ASSUME SalesPayTheFee, BackInv, Funded, Back!Next
  PROVE  Funded'
<1>1. BackTyping /\ Tested
  BY DEF BackInv
<1>2. position \in [Symbols -> BackPosition] /\ cash \in Int /\ Fee \in Nat /\ Spread \in Nat /\ market \in Markets
  BY <1>1, BacktestConstants DEF BackTyping
<1>3. ASSUME UNCHANGED <<cash, position>> PROVE Funded'
  BY <1>3 DEF Funded, Worth
<1>4. ASSUME Back!Fill PROVE Funded'
  <2> DEFINE o == Head(queue)
             row == market[o.sym]
  <2>1. o \in BackOrder
    BY <1>1, <1>4, HeadTailProperties DEF Back!Fill, BackTyping
  <2>2. o.sym \in Symbols /\ o.qty \in Nat /\ (o.side = "SELL" => o.qty > 0)
    BY <2>1 DEF BackOrder
  <2>3. ASSUME row # Back!NoRow
        PROVE  /\ row \in BacktestRow /\ row.open >= Spread + Fee /\ row.open \in Nat
               /\ (row.open + Spread) * (100 - Stop) >= 100 * (Spread + Fee)
    <3>1. row \in BacktestRow
      BY <1>2, <2>2, <2>3, RowOfMarket
    <3> QED
      BY <1>2, <2>2, <2>3, <3>1 DEF SalesPayTheFee, BacktestRow
  <2>4. ASSUME row = Back!NoRow, UNCHANGED <<cash, position, profit, dropped>> PROVE Funded'
    BY <1>3, <2>4
  <2>5. ASSUME row # Back!NoRow, Back!FillsBuy(o, row), UNCHANGED <<profit, dropped>> PROVE Funded'
    <3> DEFINE each == row.open + Spread
               p == position[o.sym]
               q(n) == [qty |-> p.qty + n, paid |-> p.paid + n * each, fees |-> p.fees + Fee,
                        entry |-> IF p.qty = 0 THEN bar ELSE p.entry]
    <3>1. \/ UNCHANGED <<cash, position, pending>>
          \/ \E qty \in Nat \ {0} :
               /\ qty * each + Fee <= cash \/ qty * each < cash
               /\ cash' = cash - qty * each - Fee
               /\ position' = [position EXCEPT ![o.sym] = q(qty)]
      BY <1>1, <2>1, <2>3, <2>5, PurchaseStep
    <3>2. ASSUME NEW qty \in Nat \ {0},
                 qty * each + Fee <= cash \/ qty * each < cash,
                 cash' = cash - qty * each - Fee,
                 position' = [position EXCEPT ![o.sym] = q(qty)]
          PROVE  Funded'
      <4>1. cash' >= -Fee
        <5> DEFINE spent == qty * each
        <5>1. spent \in Nat
          BY <1>2, <2>3, <2>5
        <5>2. (spent + Fee <= cash \/ spent < cash) /\ cash' = cash - spent - Fee
          BY <3>2
        <5> HIDE DEF spent
        <5> QED
          BY <1>2, <5>1, <5>2
      <4>2. Worth(q(qty))
        <5> DEFINE r == 100 - Stop
                   k == 100 * (Spread + Fee)
        <5>1. p.paid \in Nat /\ p.qty \in Nat
          BY <1>2, <2>2 DEF BackPosition
        <5>2. each \in Nat /\ each * r >= k
          BY <1>2, <2>3, <2>5
        <5>3. p.paid * r >= p.qty * k
          BY <2>2 DEF Funded, Worth
        <5>4. r \in Nat /\ k \in Nat
          BY <1>2, BacktestConstants
        <5>5. q(qty).paid = p.paid + qty * each /\ q(qty).qty = p.qty + qty
          OBVIOUS
        <5> HIDE DEF each, r, k, p, q
        <5>6. (p.paid + qty * each) * r >= (p.qty + qty) * k
          BY <5>1, <5>2, <5>3, <5>4, Products
        <5> QED
          BY <5>5, <5>6 DEF Worth, r, k
      <4>3. \A t \in Symbols : position'[t] = IF t = o.sym THEN q(qty) ELSE position[t]
        BY <1>2, <3>2
      <4> HIDE DEF q
      <4>4. \A t \in Symbols : Worth(position'[t])
        BY <4>2, <4>3 DEF Funded
      <4> QED
        BY <4>1, <4>4 DEF Funded, Worth
    <3> HIDE DEF q
    <3> QED
      BY <1>3, <3>1, <3>2
  <2>6. ASSUME row # Back!NoRow, o.side = "SELL", Back!FillsSell(o, row) PROVE Funded'
    <3>1. CASE o.sym \notin Back!Held
      BY <1>3, <2>6, <3>1 DEF Back!FillsSell
    <3>2. CASE o.sym \in Back!Held
      <4> DEFINE qty == Back!AtMost(o.qty, position[o.sym].qty)
                 each == Back!AtLeast(row.open - Spread, 0)
      <4>1. position[o.sym].qty > 0 /\ position[o.sym].qty \in Nat
        BY <1>2, <2>2, <3>2 DEF Back!Held, BackPosition
      <4>2. qty \in Nat /\ qty > 0
        BY <2>2, <2>6, <4>1 DEF Back!AtMost
      <4>3. each \in Int /\ each >= Fee
        BY <1>2, <2>3, <2>6 DEF Back!AtLeast
      <4>4. Back!Closes(o.sym, qty, qty * each)
        BY <2>6, <3>2 DEF Back!FillsSell
      <4> HIDE DEF qty, each
      <4>5. qty * each \in Int /\ qty * each >= Fee
        BY <4>2, <4>3, ShareFetches
      <4> QED
        BY <1>1, <2>2, <4>1, <4>2, <4>4, <4>5, SaleFunds
    <3> QED
      BY <3>1, <3>2
  <2> QED
    BY <1>4, <2>4, <2>5, <2>6 DEF Back!Fill
<1>5. ASSUME NEW s \in Symbols, Back!CheckExit(s) PROVE Funded'
  <2>1. s \in Back!Held /\ market[s] # Back!NoRow
    BY <1>1, <1>5 DEF Back!CheckExit, Tested, Back!Exposed
  <2>2. ASSUME NEW v \in {Back!AtStop(s), Back!AtTarget(s)}, Back!Leaves(s, v) PROVE Funded'
    <3> DEFINE proceeds == Back!AtLeast(v - Spread * position[s].qty, 0)
    <3>1. proceeds \in Int /\ proceeds >= Fee
      <4>1. v \in Int
        BY <1>1, <2>1, BarrierType
      <4> QED
        BY <1>1, <2>1, <4>1, BarrierType, BarrierFetches DEF Funded
    <3>2. position[s].qty > 0 /\ position[s].qty \in Nat
      BY <1>2, <2>1 DEF Back!Held, BackPosition
    <3>3. Back!Closes(s, position[s].qty, proceeds)
      BY <2>2 DEF Back!Leaves
    <3> HIDE DEF proceeds
    <3> QED
      BY <1>1, <3>1, <3>2, <3>3, SaleFunds
  <2> QED
    BY <1>3, <1>5, <2>2 DEF Back!CheckExit
<1>6. ASSUME Back!BeginExits \/ Back!EndExits PROVE Funded'
  BY <1>3, <1>6 DEF Back!BeginExits, Back!EndExits
<1>7. ASSUME NEW signal \in {"buy", "sell", "none"}, NEW data \in Markets, Back!Decide(signal, data) PROVE Funded'
  BY <1>3, <1>7 DEF Back!Decide
<1> QED
  BY <1>4, <1>5, <1>6, <1>7 DEF Back!Next

(* Backtest, for every data set in which a share pays for its sale: the     *)
(* recorded trades and the cost of what is held explain the cash, whatever  *)
(* remainders, partial sales and barriers did to it, and the account never  *)
(* owes more than the fee of one fill.                                      *)
THEOREM CashExplained ==
  ASSUME SalesPayTheFee
  PROVE  BooksSpec => []CashIsExplained
<1> DEFINE Inv == part = "backtest" => BackInv /\ Funded
<1>1. BooksInit => Inv
  <2>1. Back!Init => Funded
    BY BacktestConstants DEF Back!Init, Funded, Worth, Back!NoPosition
  <2> QED
    BY <2>1, BackRuns, BackBegins
<1>2. Inv /\ [BooksNext]_books => Inv'
  <2>1. Funded /\ UNCHANGED Back!vars => Funded'
    BY DEF Funded, Worth, Back!vars
  <2> QED
    BY <2>1, BackRuns, BackSteps, BackStays, BackFunds
<1>3. Inv => CashIsExplained
  BY ExplainedIsTheReport DEF CashIsExplained, Back!CashIsExplained, Back!OverdraftIsOneFee, BackInv, Funded
<1> QED
  BY <1>1, <1>2, <1>3, PTL DEF BooksSpec

-----------------------------------------------------------------------------
(* Exposure: values of positions.                                           *)

(* The sum the module states is the one the lemmas about sums are about.    *)
LEMMA RiskSum ==
  ASSUME NEW f
  PROVE  Risk!SumFunction(f) = SumFunctionOnSet(f, DOMAIN f)
BY DEF Risk!SumFunction, Risk!SumFunctionOnSet, Risk!FoldFunctionOnSet, Risk!MapThenFoldSet, Risk!FoldFunction,
       SumFunctionOnSet, FoldFunctionOnSet, MapThenFoldSet

Positions == [Symbols -> Int]

Priced == price \in [Symbols -> Nat]

(* What the positions of some symbols are worth, of every symbol.           *)
Values(positions, some) ==
  [t \in Symbols |-> IF t \in some THEN Risk!Abs(positions[t]) * price[t] ELSE 0]

(* The value of some symbols is a sum over all of them.                     *)
LEMMA ValueIsSum ==
  ASSUME Priced, NEW positions \in Positions, NEW some \in SUBSET Symbols
  PROVE  /\ Risk!ValueOf(positions, some) = SumFunctionOnSet(Values(positions, some), Symbols)
         /\ \A t \in Symbols : Values(positions, some)[t] \in Nat
         /\ Risk!ValueOf(positions, some) \in Nat
<1> DEFINE f == [t \in some |-> Risk!Abs(positions[t]) * price[t]]
           h == Values(positions, some)
<1>1. \A t \in Symbols : Risk!Abs(positions[t]) \in Nat /\ price[t] \in Nat
  BY DEF Risk!Abs, Positions, Priced
<1>2. \A t \in Symbols : Risk!Abs(positions[t]) * price[t] \in Nat
  BY <1>1
<1>3. /\ \A t \in some : f[t] \in Int /\ h[t] = f[t]
      /\ \A t \in Symbols \ some : h[t] = 0
      /\ \A t \in Symbols : h[t] \in Nat
      /\ DOMAIN f = some
  BY <1>2 DEF Values
<1>4. Risk!ValueOf(positions, some) = Risk!SumFunction(f)
  BY DEF Risk!ValueOf
<1> HIDE DEF f, h
<1>5. SumFunctionOnSet(f, some) = SumFunctionOnSet(h, Symbols) /\ SumFunctionOnSet(h, Symbols) \in Nat
  BY <1>3, SumWithin, SumIsNat, BacktestConstants
<1> QED
  BY <1>3, <1>4, <1>5, RiskSum DEF h

(* When one position changes, or joins or leaves the part, its value does.  *)
LEMMA ValueMoves ==
  ASSUME Priced, NEW positions \in Positions, NEW after \in Positions,
         NEW some \in SUBSET Symbols, NEW others \in SUBSET Symbols, NEW s \in Symbols,
         \A t \in Symbols : t # s => after[t] = positions[t] /\ (t \in others <=> t \in some)
  PROVE  Risk!ValueOf(after, others) =
           Risk!ValueOf(positions, some) + ((IF s \in others THEN Risk!Abs(after[s]) * price[s] ELSE 0)
                                            - (IF s \in some THEN Risk!Abs(positions[s]) * price[s] ELSE 0))
<1> DEFINE f == Values(positions, some)
           g == Values(after, others)
<1>1. \A t \in Symbols : t # s => g[t] = f[t]
  BY DEF Values
<1>2. \A t \in Symbols : f[t] \in Nat /\ g[t] \in Nat
  BY ValueIsSum
<1>3. /\ f[s] = IF s \in some THEN Risk!Abs(positions[s]) * price[s] ELSE 0
      /\ g[s] = IF s \in others THEN Risk!Abs(after[s]) * price[s] ELSE 0
  BY DEF Values
<1>4. /\ Risk!ValueOf(positions, some) = SumFunctionOnSet(f, Symbols)
      /\ Risk!ValueOf(after, others) = SumFunctionOnSet(g, Symbols)
  BY ValueIsSum
<1> HIDE DEF f, g
<1>5. SumFunctionOnSet(g, Symbols) = SumFunctionOnSet(f, Symbols) + (g[s] - f[s])
  BY <1>1, <1>2, SumMoves, BacktestConstants
<1> QED
  BY <1>3, <1>4, <1>5

RiskOrder == [sym : Symbols, side : {"BUY", "SELL", "SELL_SHORT", "BUY_TO_COVER"}, qty : Nat]

Closes(positions, o) == Risk!Closed(positions, o) * price[o.sym]
Opens(positions, o) == o.qty * price[o.sym] - Closes(positions, o)

(* An order closes no more than its quantity.                               *)
LEMMA ClosedType ==
  ASSUME NEW positions \in Positions, NEW o \in RiskOrder
  PROVE  Risk!Closed(positions, o) \in Nat /\ Risk!Closed(positions, o) <= o.qty
<1>1. positions[o.sym] \in Int /\ o.qty \in Nat
  BY DEF Positions, RiskOrder
<1> QED
  BY <1>1 DEF Risk!Closed, Risk!AtMost, Risk!AtLeast

(* What an order closes and opens, and its notional, are natural numbers.   *)
LEMMA PartsType ==
  ASSUME Priced, NEW positions \in Positions, NEW o \in RiskOrder
  PROVE  Closes(positions, o) \in Nat /\ Opens(positions, o) \in Nat /\ o.qty * price[o.sym] \in Nat
<1>1. price[o.sym] \in Nat /\ o.qty \in Nat
  BY DEF Priced, RiskOrder
<1> DEFINE c == Risk!Closed(positions, o)
<1>2. c \in Nat /\ c <= o.qty
  BY ClosedType
<1> HIDE DEF c
<1>3. c * price[o.sym] \in Nat /\ o.qty * price[o.sym] \in Nat
  BY <1>1, <1>2
<1>4. o.qty * price[o.sym] - c * price[o.sym] = (o.qty - c) * price[o.sym]
  BY <1>1, <1>2
<1>5. (o.qty - c) * price[o.sym] \in Nat
  BY <1>1, <1>2
<1> QED
  BY <1>3, <1>4, <1>5 DEF Closes, Opens, c

(* The long and the short side of a quantity.                               *)
Up(z) == IF z > 0 THEN z ELSE 0
Down(z) == IF z < 0 THEN -z ELSE 0

(* A signed quantity is long or short, never both.                          *)
LEMMA Sides ==
  ASSUME NEW z \in Int
  PROVE  /\ Up(z) \in Nat /\ Down(z) \in Nat
         /\ Risk!Abs(z) = Up(z) + Down(z)
         /\ z > 0 => Up(z) = Risk!Abs(z)
         /\ ~(z > 0) => Up(z) = 0
         /\ z < 0 => Down(z) = Risk!Abs(z)
         /\ ~(z < 0) => Down(z) = 0
BY DEF Up, Down, Risk!Abs

(* A purchase first closes the short side, then opens the long one; a sale  *)
(* the other way round.                                                     *)
LEMMA SidesMove ==
  ASSUME NEW positions \in Positions, NEW o \in RiskOrder,
         NEW x \in Int, x = positions[o.sym], NEW q \in Nat, q = o.qty
  PROVE  LET c == Risk!Closed(positions, o)
         IN /\ Risk!IsBuy(o) => Up(x + q) = Up(x) + (q - c) /\ Down(x + q) = Down(x) - c
            /\ ~Risk!IsBuy(o) => Down(x - q) = Down(x) + (q - c) /\ Up(x - q) = Up(x) - c
<1>1. ASSUME Risk!IsBuy(o)
      PROVE  /\ Up(x + q) = Up(x) + (q - Risk!Closed(positions, o))
             /\ Down(x + q) = Down(x) - Risk!Closed(positions, o)
  <2>1. Risk!Closed(positions, o) = Risk!AtMost(q, Risk!AtLeast(-x, 0))
    BY <1>1 DEF Risk!Closed
  <2>2. Risk!Closed(positions, o) = IF q > Down(x) THEN Down(x) ELSE q
    BY <2>1 DEF Risk!AtMost, Risk!AtLeast, Down
  <2> QED
    BY <2>2 DEF Up, Down
<1>2. ASSUME ~Risk!IsBuy(o)
      PROVE  /\ Down(x - q) = Down(x) + (q - Risk!Closed(positions, o))
             /\ Up(x - q) = Up(x) - Risk!Closed(positions, o)
  <2>1. Risk!Closed(positions, o) = Risk!AtMost(q, Risk!AtLeast(x, 0))
    BY <1>2 DEF Risk!Closed
  <2>2. Risk!Closed(positions, o) = IF q > Up(x) THEN Up(x) ELSE q
    BY <2>1 DEF Risk!AtMost, Risk!AtLeast, Up
  <2> QED
    BY <2>2 DEF Up, Down
<1> QED
  BY <1>1, <1>2

(* Shares that move, moved with their price.                                *)
LEMMA Scaled ==
  ASSUME NEW a \in Int, NEW b \in Int, NEW q \in Int, NEW c \in Int, NEW p \in Int
  PROVE  /\ b = a + (q - c) => b * p = a * p + (q * p - c * p)
         /\ b = a - c => b * p = a * p - c * p
         /\ (a + b) * p = a * p + b * p
         /\ a * p \in Int
OBVIOUS

(* The value of one position before and after an order.                     *)
LEMMA OnePositionMoves ==
  ASSUME Priced, NEW positions \in Positions, NEW o \in RiskOrder,
         NEW x \in Int, x = positions[o.sym], NEW y \in Int,
         y = IF Risk!IsBuy(o) THEN x + o.qty ELSE x - o.qty,
         NEW p, p = price[o.sym]
  PROVE  /\ Risk!IsBuy(o) => /\ Up(y) * p = Up(x) * p + Opens(positions, o)
                             /\ Down(y) * p = Down(x) * p - Closes(positions, o)
         /\ ~Risk!IsBuy(o) => /\ Down(y) * p = Down(x) * p + Opens(positions, o)
                              /\ Up(y) * p = Up(x) * p - Closes(positions, o)
         /\ \A z \in {x, y} : /\ Risk!Abs(z) * p = Up(z) * p + Down(z) * p
                              /\ Up(z) * p \in Nat /\ Down(z) * p \in Nat
<1> DEFINE c == Risk!Closed(positions, o)
           q == o.qty
<1>1. p \in Nat /\ q \in Nat /\ c \in Nat
  BY ClosedType DEF Positions, Priced, RiskOrder
<1>2. Closes(positions, o) = c * p /\ Opens(positions, o) = q * p - c * p
  BY DEF Closes, Opens
<1>3. /\ Risk!IsBuy(o) => Up(y) = Up(x) + (q - c) /\ Down(y) = Down(x) - c
      /\ ~Risk!IsBuy(o) => Down(y) = Down(x) + (q - c) /\ Up(y) = Up(x) - c
  <2>1. Risk!IsBuy(o) => y = x + q
    OBVIOUS
  <2>2. ~Risk!IsBuy(o) => y = x - q
    OBVIOUS
  <2> QED
    BY <1>1, <2>1, <2>2, SidesMove
<1> HIDE DEF c, q
<1>4. \A z \in {x, y} : Up(z) \in Nat /\ Down(z) \in Nat /\ Risk!Abs(z) = Up(z) + Down(z)
  BY Sides
<1>5. \A z \in {x, y} : Risk!Abs(z) * p = Up(z) * p + Down(z) * p /\ Up(z) * p \in Nat /\ Down(z) * p \in Nat
  BY <1>1, <1>4, Scaled
<1>6. Risk!IsBuy(o) => /\ Up(y) * p = Up(x) * p + (q * p - c * p)
                       /\ Down(y) * p = Down(x) * p - c * p
  BY <1>1, <1>3, <1>4, Scaled
<1>7. ~Risk!IsBuy(o) => /\ Down(y) * p = Down(x) * p + (q * p - c * p)
                        /\ Up(y) * p = Up(x) * p - c * p
  BY <1>1, <1>3, <1>4, Scaled
<1> QED
  BY <1>2, <1>5, <1>6, <1>7

(* The exposure of positions, and after an order.                           *)
LongValue(positions) == Risk!ValueOf(positions, {t \in Symbols : positions[t] > 0})
ShortValue(positions) == Risk!ValueOf(positions, {t \in Symbols : positions[t] < 0})
SectorValue(positions, c) == Risk!ValueOf(positions, {t \in Symbols : monitor.sector[t] = c})

(* The exposure the monitor reports, as the sums used here.                 *)
LEMMA ExposureIs ==
  ASSUME NEW positions, NEW s \in Symbols
  PROVE  /\ Risk!CalculateExposure(positions).long = LongValue(positions)
         /\ Risk!CalculateExposure(positions).short = ShortValue(positions)
         /\ Risk!CalculateExposure(positions).sector[monitor.sector[s]] = SectorValue(positions, monitor.sector[s])
BY DEF Risk!CalculateExposure, LongValue, ShortValue, SectorValue

(* Exposures are natural numbers.                                           *)
LEMMA ValueTypes ==
  ASSUME Priced, NEW positions \in Positions
  PROVE  /\ LongValue(positions) \in Nat /\ ShortValue(positions) \in Nat
         /\ \A c : SectorValue(positions, c) \in Nat
BY ValueIsSum DEF LongValue, ShortValue, SectorValue

(* Executing an order moves the exposures by what it opens and closes.      *)
LEMMA OrderMoves ==
  ASSUME Priced, NEW positions \in Positions, NEW o \in RiskOrder,
         NEW after, after = Risk!Executed(positions, o)
  PROVE  /\ after \in Positions
         /\ Risk!IsBuy(o) => /\ LongValue(after) = LongValue(positions) + Opens(positions, o)
                             /\ ShortValue(after) = ShortValue(positions) - Closes(positions, o)
         /\ ~Risk!IsBuy(o) => /\ ShortValue(after) = ShortValue(positions) + Opens(positions, o)
                              /\ LongValue(after) = LongValue(positions) - Closes(positions, o)
         /\ SectorValue(after, monitor.sector[o.sym])
              = SectorValue(positions, monitor.sector[o.sym]) + (Opens(positions, o) - Closes(positions, o))
<1> DEFINE s == o.sym
           x == positions[s]
           y == after[s]
           p == price[s]
<1>1. s \in Symbols /\ o.qty \in Nat /\ positions \in [Symbols -> Int] /\ p \in Nat
  BY DEF RiskOrder, Positions, Priced
<1>2. /\ after \in Positions
      /\ y = IF Risk!IsBuy(o) THEN x + o.qty ELSE x - o.qty
      /\ \A t \in Symbols : t # s => after[t] = positions[t]
  BY <1>1 DEF Risk!Executed, Positions
<1>3. x \in Int /\ y \in Int
  BY <1>1, <1>2 DEF Positions
<1> DEFINE open1 == Opens(positions, o)
           close1 == Closes(positions, o)
<1>4. /\ Risk!IsBuy(o) => Up(y) * p = Up(x) * p + open1 /\ Down(y) * p = Down(x) * p - close1
      /\ ~Risk!IsBuy(o) => Down(y) * p = Down(x) * p + open1 /\ Up(y) * p = Up(x) * p - close1
      /\ \A z \in {x, y} : /\ Risk!Abs(z) * p = Up(z) * p + Down(z) * p
                           /\ Up(z) * p \in Nat /\ Down(z) * p \in Nat
  <2> HIDE DEF x, y
  <2> QED
    BY <1>2, <1>3, OnePositionMoves DEF x
<1>5. open1 \in Nat /\ close1 \in Nat
  BY PartsType
<1>6. /\ LongValue(positions) \in Nat /\ ShortValue(positions) \in Nat
      /\ SectorValue(positions, monitor.sector[s]) \in Nat
  BY ValueTypes
<1>7. 0 * p = 0
  BY <1>1
<1>8. LongValue(after) = LongValue(positions) + (Up(y) * p - Up(x) * p)
  <2>1. Risk!ValueOf(after, {t \in Symbols : after[t] > 0})
          = Risk!ValueOf(positions, {t \in Symbols : positions[t] > 0})
              + ((IF s \in {t \in Symbols : after[t] > 0} THEN Risk!Abs(after[s]) * price[s] ELSE 0)
                 - (IF s \in {t \in Symbols : positions[t] > 0} THEN Risk!Abs(positions[s]) * price[s] ELSE 0))
    BY <1>1, <1>2, ValueMoves
  <2>2. /\ (IF s \in {t \in Symbols : after[t] > 0} THEN Risk!Abs(after[s]) * price[s] ELSE 0) = Up(y) * p
        /\ (IF s \in {t \in Symbols : positions[t] > 0} THEN Risk!Abs(positions[s]) * price[s] ELSE 0) = Up(x) * p
    BY <1>1, <1>3, <1>7, Sides
  <2> QED
    BY <2>1, <2>2 DEF LongValue
<1>9. ShortValue(after) = ShortValue(positions) + (Down(y) * p - Down(x) * p)
  <2>1. Risk!ValueOf(after, {t \in Symbols : after[t] < 0})
          = Risk!ValueOf(positions, {t \in Symbols : positions[t] < 0})
              + ((IF s \in {t \in Symbols : after[t] < 0} THEN Risk!Abs(after[s]) * price[s] ELSE 0)
                 - (IF s \in {t \in Symbols : positions[t] < 0} THEN Risk!Abs(positions[s]) * price[s] ELSE 0))
    BY <1>1, <1>2, ValueMoves
  <2>2. /\ (IF s \in {t \in Symbols : after[t] < 0} THEN Risk!Abs(after[s]) * price[s] ELSE 0) = Down(y) * p
        /\ (IF s \in {t \in Symbols : positions[t] < 0} THEN Risk!Abs(positions[s]) * price[s] ELSE 0) = Down(x) * p
    BY <1>1, <1>3, <1>7, Sides
  <2> QED
    BY <2>1, <2>2 DEF ShortValue
<1>10. SectorValue(after, monitor.sector[s])
         = SectorValue(positions, monitor.sector[s]) + (Risk!Abs(y) * p - Risk!Abs(x) * p)
  <2> DEFINE some == {t \in Symbols : monitor.sector[t] = monitor.sector[s]}
  <2>1. some \in SUBSET Symbols /\ s \in some
    BY <1>1
  <2> HIDE DEF some
  <2>2. Risk!ValueOf(after, some) = Risk!ValueOf(positions, some) + (Risk!Abs(after[s]) * price[s] - Risk!Abs(positions[s]) * price[s])
    BY <1>1, <1>2, <2>1, ValueMoves
  <2> QED
    BY <2>2 DEF SectorValue, some
<1> HIDE DEF open1, close1
<1> DEFINE ux == Up(x) * p
           uy == Up(y) * p
           dx == Down(x) * p
           dy == Down(y) * p
<1>11. ux \in Nat /\ uy \in Nat /\ dx \in Nat /\ dy \in Nat
       /\ Risk!Abs(x) * p = ux + dx /\ Risk!Abs(y) * p = uy + dy
  BY <1>4
<1>12. /\ Risk!IsBuy(o) => uy = ux + open1 /\ dy = dx - close1
       /\ ~Risk!IsBuy(o) => dy = dx + open1 /\ uy = ux - close1
  BY <1>4
<1>13. /\ LongValue(after) = LongValue(positions) + (uy - ux)
       /\ ShortValue(after) = ShortValue(positions) + (dy - dx)
       /\ SectorValue(after, monitor.sector[s]) = SectorValue(positions, monitor.sector[s]) + ((uy + dy) - (ux + dx))
  BY <1>8, <1>9, <1>10, <1>11
<1> HIDE DEF ux, uy, dx, dy
<1>14. /\ Risk!IsBuy(o) => uy - ux = open1 /\ dy - dx = 0 - close1
       /\ ~Risk!IsBuy(o) => dy - dx = open1 /\ uy - ux = 0 - close1
       /\ (uy + dy) - (ux + dx) = open1 - close1
  BY <1>5, <1>11, <1>12
<1> QED
  BY <1>2, <1>5, <1>6, <1>13, <1>14 DEF open1, close1

(* The projection is the exposure of the positions after the order.         *)
LEMMA Projected ==
  ASSUME Priced, NEW positions \in Positions, NEW o \in RiskOrder
  PROVE  LET p == Risk!ProjectOrder(Risk!CalculateExposure(positions), positions, o)
             after == Risk!Executed(positions, o)
         IN /\ p.long = LongValue(after) /\ p.short = ShortValue(after)
            /\ p.delta = Opens(positions, o) - Closes(positions, o)
            /\ p.increase = Opens(positions, o)
<1> DEFINE e == Risk!CalculateExposure(positions)
           p == Risk!ProjectOrder(e, positions, o)
           after == Risk!Executed(positions, o)
           less == Closes(positions, o)
           more == Opens(positions, o)
<1>1. o.sym \in Symbols
  BY DEF RiskOrder
<1>2. e.long = LongValue(positions) /\ e.short = ShortValue(positions)
  BY <1>1, ExposureIs
<1>3. /\ p.long = IF Risk!IsBuy(o) THEN e.long + more ELSE Risk!AtLeast(e.long - less, 0)
      /\ p.short = IF Risk!IsBuy(o) THEN Risk!AtLeast(e.short - less, 0) ELSE e.short + more
      /\ p.delta = more - less /\ p.increase = more
  BY DEF Risk!ProjectOrder, Opens, Closes
<1>4. /\ after \in Positions
      /\ Risk!IsBuy(o) => LongValue(after) = LongValue(positions) + more /\ ShortValue(after) = ShortValue(positions) - less
      /\ ~Risk!IsBuy(o) => ShortValue(after) = ShortValue(positions) + more /\ LongValue(after) = LongValue(positions) - less
  BY OrderMoves
<1>5. LongValue(after) \in Nat /\ ShortValue(after) \in Nat
  BY <1>4, ValueTypes
<1> HIDE DEF e, p, after, less, more
<1>6. p.long = LongValue(after) /\ p.short = ShortValue(after)
  BY <1>2, <1>3, <1>4, <1>5 DEF Risk!AtLeast
<1> QED
  BY <1>3, <1>6 DEF e, p, after, less, more

(* What the monitor projects for an order is what its execution gives.      *)
LEMMA ProjectionExact ==
  ASSUME Priced, held \in Positions
  PROVE  Risk!ProjectionIsExact
<1> SUFFICES ASSUME NEW s \in Symbols, NEW side \in {"BUY", "SELL_SHORT"}, NEW q \in 1..3
             PROVE  LET o == [sym |-> s, side |-> side, qty |-> q]
                        before == Risk!CalculateExposure(held)
                        p == Risk!ProjectOrder(before, held, o)
                        after == Risk!CalculateExposure(Risk!Executed(held, o))
                    IN /\ p.long = after.long /\ p.short = after.short
                       /\ before.sector[monitor.sector[s]] + p.delta = after.sector[monitor.sector[s]]
  BY DEF Risk!ProjectionIsExact
<1> DEFINE o == [sym |-> s, side |-> side, qty |-> q]
           before == Risk!CalculateExposure(held)
           p == Risk!ProjectOrder(before, held, o)
           gone == Risk!Executed(held, o)
           after == Risk!CalculateExposure(gone)
           c == monitor.sector[s]
<1>1. o \in RiskOrder /\ o.sym = s
  BY DEF RiskOrder
<1>2. /\ before.sector[c] = SectorValue(held, c)
      /\ after.long = LongValue(gone) /\ after.short = ShortValue(gone) /\ after.sector[c] = SectorValue(gone, c)
  <2> HIDE DEF gone
  <2> QED
    BY ExposureIs
<1> HIDE DEF o
<1>3. p.long = LongValue(gone) /\ p.short = ShortValue(gone) /\ p.delta = Opens(held, o) - Closes(held, o)
  BY <1>1, Projected
<1>4. SectorValue(gone, c) = SectorValue(held, c) + (Opens(held, o) - Closes(held, o))
  BY <1>1, OrderMoves
<1> HIDE DEF before, p, gone, after, c
<1> QED
  BY <1>2, <1>3, <1>4 DEF before, p, gone, after, c, o

-----------------------------------------------------------------------------
(* Exposure: types, and what an order may not break.                        *)

RiskTyping ==
  /\ Priced /\ held \in Positions /\ cash \in Int
  /\ snapshot \in [held : Positions, equity : Int]
  /\ todo \in SUBSET Symbols
  /\ \A s \in todo : price[s] > 0 /\ held[s] = snapshot.held[s]
  /\ increases \in Nat

Base == Risk!AtLeast(snapshot.equity, 1)

(* A quotient rounded down, and what is at most it.                         *)
LEMMA Division ==
  ASSUME NEW a \in Int, NEW b \in Nat, b > 0
  PROVE  /\ a \div b \in Int
         /\ (a \div b) * b <= a
         /\ a >= 0 => a \div b >= 0
         /\ \A q \in Int : q <= a \div b => q * b <= a
<1>1. a \div b \in Int /\ (a \div b) * b <= a /\ (a >= 0 => a \div b >= 0)
  OBVIOUS
<1> DEFINE d == a \div b
<1>2. ASSUME NEW q \in Int, q <= d PROVE q * b <= a
  <2>1. d \in Int /\ d * b <= a /\ d * b \in Int
    BY <1>1
  <2> HIDE DEF d
  <2>2. d * b = q * b + (d - q) * b /\ d - q \in Nat
    BY <1>2, <2>1
  <2>3. (d - q) * b \in Nat /\ q * b \in Int
    BY <1>2, <2>1, <2>2
  <2> QED
    BY <2>1, <2>2, <2>3
<1> QED
  BY <1>1, <1>2

(* The size of an entry keeps it within the limits on a position and on the *)
(* value of one order.                                                      *)
LEMMA EntryFits ==
  ASSUME RiskTyping, NEW s \in todo, NEW confidence \in Confidences, NEW scale \in Scales
  PROVE  LET q == Risk!EntrySize(s, confidence, scale)
         IN /\ q \in Int
            /\ q > 0 => /\ snapshot.equity > 0
                        /\ (q * price[s]) * 100 <= Limits.position * snapshot.equity
                        /\ Limits.order > 0 => q * price[s] <= Limits.order
<1> DEFINE q == Risk!EntrySize(s, confidence, scale)
           e == snapshot.equity
           p == price[s]
           c == Risk!AtLeast(confidence, 5)
           ff == Risk!FixedFraction(e, p, c)
           room == (e * Limits.position) \div (100 * p)
           risked == (e * RiskPct * c) \div (100 * p * StopPct)
           cap == Limits.order \div p
<1>1. /\ e \in Int /\ p \in Nat /\ p > 0 /\ confidence \in Nat /\ scale \in 0..100 /\ RiskPct \in Nat
      /\ StopPct \in Nat /\ StopPct > 0 /\ Limits.position \in Nat /\ Limits.order \in Nat
  BY RiskConstants DEF RiskTyping, Priced
<1>2. c \in Nat
  BY <1>1 DEF Risk!AtLeast
<1>3. q = Risk!AtMost((ff * scale) \div 100, Risk!AtLeast(room, 0))
  BY DEF Risk!EntrySize, Risk!Capped
<1>4. ff = IF e <= 0 THEN 0 ELSE Risk!AtMost(risked, IF Limits.order > 0 THEN cap ELSE risked)
  BY DEF Risk!FixedFraction
<1>5. room \in Int /\ \A n \in Int : n <= room => n * (100 * p) <= e * Limits.position
  <2>1. e * Limits.position \in Int /\ 100 * p \in Nat /\ 100 * p > 0
    BY <1>1
  <2> QED
    BY <2>1, Division
<1>6. risked \in Int /\ (e > 0 => risked >= 0)
  <2> DEFINE a == e * RiskPct * c
             b == 100 * p * StopPct
  <2>1. a \in Int /\ (e > 0 => a >= 0)
    <3>1. e * RiskPct \in Int /\ (e > 0 => e * RiskPct >= 0)
      BY <1>1
    <3> QED
      BY <1>2, <3>1
  <2>2. b \in Nat /\ b > 0
    <3>1. 100 * p \in Nat /\ 100 * p > 0
      BY <1>1
    <3> QED
      BY <1>1, <3>1
  <2> HIDE DEF a, b
  <2>3. a \div b \in Int /\ (a >= 0 => a \div b >= 0)
    BY <2>1, <2>2, Division
  <2> QED
    BY <2>1, <2>3 DEF a, b
<1>7. cap \in Int /\ cap >= 0 /\ cap * p <= Limits.order
  BY <1>1, Division
<1> HIDE DEF q, e, p, c, ff, room, risked, cap
<1>8. ff \in Int /\ ff >= 0 /\ (e <= 0 => ff = 0) /\ (Limits.order > 0 => ff <= cap)
  BY <1>1, <1>4, <1>6, <1>7 DEF Risk!AtMost
<1> DEFINE scaled == (ff * scale) \div 100
<1>9. scaled \in Int /\ scaled <= ff
  <2>1. ff * scale \in Int /\ ff * scale <= 100 * ff
    <3>1. ff * (100 - scale) \in Nat /\ ff * scale = ff * 100 - ff * (100 - scale)
      BY <1>1, <1>8
    <3> QED
      BY <1>8, <3>1
  <2>2. \A v \in Int : v <= 100 * ff => v \div 100 \in Int /\ v \div 100 <= ff
    BY <1>8
  <2> QED
    BY <2>1, <2>2
<1> HIDE DEF scaled
<1>10. q \in Int /\ (q > 0 => q <= scaled /\ q <= room)
  BY <1>3, <1>5, <1>9 DEF Risk!AtMost, Risk!AtLeast, scaled
<1>11. ASSUME q > 0
       PROVE  /\ e > 0
              /\ (q * p) * 100 <= Limits.position * e
              /\ Limits.order > 0 => q * p <= Limits.order
  <2>1. q <= ff /\ q <= room /\ q \in Int
    BY <1>8, <1>9, <1>10, <1>11
  <2>2. e > 0
    BY <1>1, <1>8, <1>11, <2>1
  <2>3. (q * p) * 100 = q * (100 * p) /\ Limits.position * e = e * Limits.position
    BY <1>1, <2>1
  <2>4. (q * p) * 100 <= Limits.position * e
    BY <1>5, <2>1, <2>3
  <2>5. ASSUME Limits.order > 0 PROVE q * p <= Limits.order
    <3>1. q <= cap
      BY <1>7, <1>8, <2>1, <2>5
    <3>2. cap * p = q * p + (cap - q) * p /\ (cap - q) * p \in Nat /\ q * p \in Int
      BY <1>1, <1>7, <2>1, <3>1
    <3> QED
      BY <1>1, <1>7, <3>2
  <2> QED
    BY <2>2, <2>4, <2>5
<1> QED
  BY <1>10, <1>11 DEF q, e, p

(* The orders of the bar: gross exposure, and short exposure.               *)
Gross(positions) == LongValue(positions) + ShortValue(positions)

Overshoot ==
  /\ IF increases = 0 THEN Gross(held) <= Gross(snapshot.held)
     ELSE Gross(held) * 100 <= (Limits.gross + (increases - 1) * Limits.position) * Base
  /\ \/ ShortValue(held) <= ShortValue(snapshot.held)
     \/ /\ increases > 0
        /\ ShortValue(held) * 100 <= (Limits.short + (increases - 1) * Limits.position) * Base

RiskInv == RiskTyping /\ Overshoot /\ Risk!OrdersPass

(* The equity that limits are compared with is at least 1.                  *)
LEMMA BaseType ==
  ASSUME RiskTyping
  PROVE  Base \in Nat /\ Base >= 1 /\ (snapshot.equity > 0 => Base = snapshot.equity)
BY DEF RiskTyping, Base, Risk!AtLeast

(* Over a limit, by the value in the order of the code.                     *)
LEMMA NotBroken ==
  ASSUME NEW positions, NEW equity, NEW o, Risk!Breaks(positions, equity, o) = {}
  PROVE  LET p == Risk!ProjectOrder(Risk!CalculateExposure(positions), positions, o)
             base == Risk!AtLeast(equity, 1)
         IN /\ ~((p.long + p.short) * 100 > Limits.gross * base)
            /\ ~(p.short * 100 > Limits.short * base)
            /\ ~(p.increase * 100 > Limits.position * base)
<1> DEFINE p == Risk!ProjectOrder(Risk!CalculateExposure(positions), positions, o)
           base == Risk!AtLeast(equity, 1)
<1>1. ASSUME (p.long + p.short) * 100 > Limits.gross * base PROVE "gross" \in Risk!Breaks(positions, equity, o)
  BY <1>1 DEF Risk!Breaks
<1>2. ASSUME p.short * 100 > Limits.short * base PROVE "short" \in Risk!Breaks(positions, equity, o)
  BY <1>2 DEF Risk!Breaks
<1>3. ASSUME p.increase * 100 > Limits.position * base PROVE "position" \in Risk!Breaks(positions, equity, o)
  BY <1>3 DEF Risk!Breaks
<1> HIDE DEF p, base
<1>4. /\ ~((p.long + p.short) * 100 > Limits.gross * base)
      /\ ~(p.short * 100 > Limits.short * base)
      /\ ~(p.increase * 100 > Limits.position * base)
  BY <1>1, <1>2, <1>3
<1> QED
  BY <1>4 DEF p, base

(* A limit the monitor reports is one that the projection passes.           *)
LEMMA Broken ==
  ASSUME NEW positions, NEW equity, NEW o
  PROVE  LET b == Risk!Breaks(positions, equity, o)
             e == Risk!CalculateExposure(positions)
             p == Risk!ProjectOrder(e, positions, o)
             base == Risk!AtLeast(equity, 1)
         IN /\ "gross" \in b => (p.long + p.short) * 100 > Limits.gross * base
            /\ "long" \in b => p.long * 100 > Limits.long * base
            /\ "short" \in b => p.short * 100 > Limits.short * base
            /\ "count" \in b => p.count > Limits.count
            /\ "position" \in b => p.increase * 100 > Limits.position * base
            /\ "sector" \in b => Risk!AtLeast(e.sector[monitor.sector[o.sym]] + p.delta, 0) * 100 > Limits.sector * base
            /\ "order" \in b => Limits.order > 0 /\ o.qty * price[o.sym] > Limits.order
BY DEF Risk!Breaks

(* What an approved order does to the exposure, when it fills.              *)
LEMMA FillsExecute ==
  ASSUME held \in Positions, cash \in Int, Priced, NEW o \in RiskOrder, Risk!Fills(o)
  PROVE  /\ UNCHANGED <<cash, held>> \/ held' = Risk!Executed(held, o)
         /\ cash' \in Int /\ held' \in Positions
         /\ \A t \in Symbols : t # o.sym => held'[t] = held[t]
<1>1. o.sym \in Symbols /\ o.qty \in Nat /\ held \in [Symbols -> Int] /\ price[o.sym] \in Nat
  BY DEF RiskOrder, Positions, Priced
<1>2. CASE Risk!IsBuy(o)
  <2>1. UNCHANGED <<cash, held>> \/ (/\ held' = [held EXCEPT ![o.sym] = @ + 1 * o.qty]
                                     /\ cash' = cash - 1 * o.qty * price[o.sym])
    BY <1>2 DEF Risk!Fills
  <2>2. Risk!Executed(held, o) = [held EXCEPT ![o.sym] = @ + o.qty]
    BY <1>2 DEF Risk!Executed
  <2>3. [held EXCEPT ![o.sym] = @ + 1 * o.qty] = [held EXCEPT ![o.sym] = @ + o.qty]
    <3>1. 1 * o.qty = o.qty
      BY <1>1
    <3> QED
      BY <3>1, Zenon
  <2>4. cash' \in Int
    BY <1>1, <2>1
  <2> QED
    BY <1>1, <2>1, <2>2, <2>3, <2>4 DEF Positions
<1>3. CASE ~Risk!IsBuy(o)
  <2>1. held' = [held EXCEPT ![o.sym] = @ + (-1) * o.qty] /\ cash' = cash - (-1) * o.qty * price[o.sym]
    BY <1>3 DEF Risk!Fills
  <2>2. Risk!Executed(held, o) = [held EXCEPT ![o.sym] = @ - o.qty]
    BY <1>3 DEF Risk!Executed
  <2>3. [held EXCEPT ![o.sym] = @ + (-1) * o.qty] = [held EXCEPT ![o.sym] = @ - o.qty]
    <3>1. held[o.sym] + (-1) * o.qty = held[o.sym] - o.qty
      BY <1>1
    <3> QED
      BY <3>1, Zenon
  <2>4. cash' \in Int
    BY <1>1, <2>1
  <2> QED
    BY <1>1, <2>1, <2>2, <2>3, <2>4 DEF Positions
<1> QED
  BY <1>2, <1>3

(* The size of an order is an integer.                                      *)
LEMMA QuantityType ==
  ASSUME RiskTyping, NEW s \in todo, NEW side \in {"BUY", "SELL", "SELL_SHORT", "BUY_TO_COVER"},
         NEW confidence \in Confidences, NEW scale \in Scales
  PROVE  Risk!Quantity(s, side, confidence, scale) \in Int
<1>1. Risk!EntrySize(s, confidence, scale) \in Int
  BY EntryFits
<1>2. Risk!Abs(snapshot.held[s]) \in Int
  BY DEF RiskTyping, Positions, Risk!Abs
<1> QED
  BY <1>1, <1>2 DEF Risk!Quantity

(* Exposures depend on prices, sectors and positions only.                  *)
LEMMA SameValues ==
  ASSUME price' = price, monitor' = monitor
  PROVE  /\ Gross(held)' = Gross(held') /\ ShortValue(held)' = ShortValue(held')
         /\ snapshot' = snapshot => Gross(snapshot.held)' = Gross(snapshot.held)
                                    /\ ShortValue(snapshot.held)' = ShortValue(snapshot.held)
BY DEF Gross, LongValue, ShortValue, Risk!ValueOf

(* One more order may go one more position beyond the limit.                *)
LEMMA Allowance ==
  ASSUME NEW limit \in Nat, NEW n \in Nat, NEW each \in Nat, NEW base \in Nat
  PROVE  /\ (limit + ((n + 1) - 1) * each) * base = (limit + (n - 1) * each) * base + each * base
         /\ n = 0 => (limit + ((n + 1) - 1) * each) * base = limit * base
         /\ (limit + n * each) * base >= limit * base
         /\ (limit + (n - 1) * each) * base \in Int /\ limit * base \in Nat /\ each * base \in Nat
<1>1. (n - 1) * each \in Int /\ n * each = (n - 1) * each + each /\ n * each \in Nat
  BY Scaled
<1> DEFINE m == (n - 1) * each
<1>2. m \in Int /\ n * each = m + each
  BY <1>1
<1> HIDE DEF m
<1>3. (limit + (m + each)) * base = (limit + m) * base + each * base
  BY <1>2, Scaled
<1>4. (n + 1) - 1 = n
  OBVIOUS
<1>5. (limit + ((n + 1) - 1) * each) * base = (limit + (n - 1) * each) * base + each * base
  BY <1>2, <1>3, <1>4 DEF m
<1>6. n = 0 => (limit + ((n + 1) - 1) * each) * base = limit * base
  OBVIOUS
<1>7. (limit + n * each) * base = limit * base + (n * each) * base /\ (n * each) * base \in Nat /\ limit * base \in Nat
  BY <1>1, Scaled
<1>8. (limit + (n - 1) * each) * base \in Int /\ each * base \in Nat
  BY <1>1
<1> QED
  BY <1>5, <1>6, <1>7, <1>8

(* The exposure of the account moves as that of the book the bar has read.  *)
LEMMA SamePosition ==
  ASSUME RiskTyping, NEW o \in RiskOrder, o.sym \in todo
  PROVE  /\ Closes(snapshot.held, o) = Closes(held, o) /\ Opens(snapshot.held, o) = Opens(held, o)
         /\ Risk!Closed(snapshot.held, o) = o.qty => Opens(held, o) = 0
<1>1. held[o.sym] = snapshot.held[o.sym]
  BY DEF RiskTyping
<1>2. Risk!Closed(snapshot.held, o) = Risk!Closed(held, o)
  BY <1>1 DEF Risk!Closed
<1>3. o.qty * price[o.sym] \in Int
  BY PartsType DEF RiskTyping
<1> QED
  BY <1>2, <1>3 DEF Closes, Opens

(* An approved order that fills adds one position limit to the overshoot at *)
(* most.                                                                    *)
LEMMA FillOvershoots ==
  ASSUME RiskInv, NEW o \in RiskOrder, o.sym \in todo, o.qty > 0,
         Risk!Breaks(snapshot.held, snapshot.equity, o) = {},
         held' = Risk!Executed(held, o), UNCHANGED <<price, monitor, snapshot>>,
         increases' = IF Risk!Closed(snapshot.held, o) < o.qty THEN increases + 1 ELSE increases
  PROVE  Overshoot'
<1>1. RiskTyping /\ Overshoot
  BY DEF RiskInv
<1>2. Priced /\ held \in Positions /\ snapshot.held \in Positions /\ increases \in Nat
  BY <1>1 DEF RiskTyping
<1> DEFINE m == Opens(held, o)
           l == Closes(held, o)
           after == Risk!Executed(snapshot.held, o)
           g == Gross(held)
           gs == Gross(snapshot.held)
           g1 == Gross(held')
           gp == Gross(after)
           sh == ShortValue(held)
           ss == ShortValue(snapshot.held)
           sh1 == ShortValue(held')
           sp == ShortValue(after)
           lp == Limits.position
           buys == Risk!IsBuy(o)
<1>3. m \in Nat /\ l \in Nat
  BY <1>2, PartsType
<1>4. g \in Nat /\ gs \in Nat /\ sh \in Nat /\ ss \in Nat
  BY <1>2, ValueTypes DEF Gross
<1>5. g1 = g + (m - l) /\ sh1 = IF buys THEN sh - l ELSE sh + m
  <2>1. /\ Risk!IsBuy(o) => LongValue(held') = LongValue(held) + m /\ ShortValue(held') = ShortValue(held) - l
        /\ ~Risk!IsBuy(o) => ShortValue(held') = ShortValue(held) + m /\ LongValue(held') = LongValue(held) - l
    BY <1>2, OrderMoves
  <2>2. LongValue(held) \in Int /\ ShortValue(held) \in Int
    BY <1>2, ValueTypes
  <2> HIDE DEF m, l
  <2> QED
    BY <1>3, <2>1, <2>2 DEF Gross
<1>6. gp = gs + (m - l) /\ sp = (IF buys THEN ss - l ELSE ss + m) /\ after \in Positions
  <2>1. m = Opens(snapshot.held, o) /\ l = Closes(snapshot.held, o)
    BY <1>1, SamePosition
  <2>2. /\ Risk!IsBuy(o) => LongValue(after) = LongValue(snapshot.held) + m /\ ShortValue(after) = ShortValue(snapshot.held) - l
        /\ ~Risk!IsBuy(o) => ShortValue(after) = ShortValue(snapshot.held) + m /\ LongValue(after) = LongValue(snapshot.held) - l
        /\ after \in Positions
    BY <1>2, <2>1, OrderMoves
  <2>3. LongValue(snapshot.held) \in Int /\ ShortValue(snapshot.held) \in Int
    BY <1>2, ValueTypes
  <2> HIDE DEF m, l, after
  <2> QED
    BY <1>3, <2>2, <2>3 DEF Gross
<1>7. gp \in Nat /\ sp \in Nat
  BY <1>6, ValueTypes, <1>2 DEF Gross
<1>8. /\ gp * 100 <= Limits.gross * Base
      /\ sp * 100 <= Limits.short * Base
      /\ m * 100 <= lp * Base
  <2> DEFINE p == Risk!ProjectOrder(Risk!CalculateExposure(snapshot.held), snapshot.held, o)
  <2>1. /\ p.long = LongValue(after) /\ p.short = ShortValue(after) /\ p.increase = Opens(snapshot.held, o)
    BY <1>2, Projected
  <2>2. /\ ~((p.long + p.short) * 100 > Limits.gross * Base)
        /\ ~(p.short * 100 > Limits.short * Base)
        /\ ~(p.increase * 100 > lp * Base)
    BY NotBroken DEF Base
  <2>3. p.increase = m /\ p.long + p.short = gp /\ p.short = sp
    BY <1>1, <2>1, SamePosition DEF Gross
  <2>4. Limits.gross * Base \in Int /\ Limits.short * Base \in Int /\ lp * Base \in Int
    BY <1>1, BaseType, RiskConstants
  <2> HIDE DEF p, m, gp, sp, lp, after
  <2> QED
    BY <1>3, <1>7, <2>2, <2>3, <2>4
<1>9. Base \in Nat /\ lp \in Nat /\ Limits.gross \in Nat /\ Limits.short \in Nat
  BY <1>1, BaseType, RiskConstants
<1>10. Base' = Base /\ g1 = Gross(held)' /\ sh1 = ShortValue(held)' /\ gs = Gross(snapshot.held)' /\ ss = ShortValue(snapshot.held)'
  BY SameValues DEF Base
<1>11. /\ IF increases = 0 THEN g <= gs ELSE g * 100 <= (Limits.gross + (increases - 1) * lp) * Base
       /\ sh <= ss \/ (increases > 0 /\ sh * 100 <= (Limits.short + (increases - 1) * lp) * Base)
  BY <1>1 DEF Overshoot
<1>12. (increases' = increases /\ m = 0) \/ increases' = increases + 1
  <2>1. Risk!Closed(snapshot.held, o) \in Nat /\ Risk!Closed(snapshot.held, o) <= o.qty /\ o.qty \in Nat
    BY <1>2, ClosedType DEF RiskOrder
  <2>2. ~(Risk!Closed(snapshot.held, o) < o.qty) => Risk!Closed(snapshot.held, o) = o.qty
    BY <2>1
  <2> QED
    BY <1>1, <2>2, SamePosition
<1> DEFINE n == increases
           bg(k) == (Limits.gross + (k - 1) * lp) * Base
           bs(k) == (Limits.short + (k - 1) * lp) * Base
<1>13. /\ bg(n + 1) = bg(n) + lp * Base /\ bs(n + 1) = bs(n) + lp * Base
       /\ bg(n) \in Int /\ bs(n) \in Int /\ lp * Base \in Nat
       /\ n = 0 => bg(n + 1) = Limits.gross * Base
       /\ bs(n + 1) >= Limits.short * Base /\ Limits.short * Base \in Int /\ Limits.gross * Base \in Int
  <2>1. (n + 1) - 1 = n
    BY <1>2
  <2> HIDE DEF lp
  <2> QED
    BY <1>2, <1>9, <2>1, Allowance
<1>14. /\ IF n = 0 THEN g <= gs ELSE g * 100 <= bg(n)
       /\ sh <= ss \/ (n > 0 /\ sh * 100 <= bs(n))
  BY <1>11
<1> HIDE DEF m, l, after, g, gs, g1, gp, sh, ss, sh1, sp, lp, buys, bg, bs
<1>15. IF increases' = 0 THEN g1 <= gs ELSE g1 * 100 <= bg(increases')
  <2>1. CASE increases' = n /\ m = 0
    BY <1>2, <1>3, <1>4, <1>5, <1>13, <1>14, <2>1 DEF n
  <2>2. CASE increases' = n + 1
    <3>1. increases' # 0 /\ bg(increases') = bg(n) + lp * Base
      BY <1>2, <1>13, <2>2 DEF n
    <3>2. CASE n = 0
      <4>1. g1 <= gp
        BY <1>3, <1>4, <1>5, <1>6, <1>14, <3>2
      <4>2. bg(increases') = Limits.gross * Base
        BY <1>13, <2>2, <3>2
      <4> QED
        BY <1>3, <1>4, <1>5, <1>7, <1>8, <1>13, <3>1, <4>1, <4>2
    <3>3. CASE n # 0
      <4>1. g * 100 <= bg(n)
        BY <1>14, <3>3
      <4> QED
        BY <1>3, <1>4, <1>5, <1>8, <1>13, <3>1, <4>1
    <3> QED
      BY <3>2, <3>3
  <2> QED
    BY <1>12, <2>1, <2>2 DEF n
<1>16. sh1 <= ss \/ (increases' > 0 /\ sh1 * 100 <= bs(increases'))
  <2>1. CASE increases' = n /\ m = 0
    <3>1. sh1 <= sh /\ sh1 \in Int
      BY <1>3, <1>4, <1>5, <2>1
    <3> QED
      BY <1>2, <1>4, <1>13, <1>14, <2>1, <3>1 DEF n
  <2>2. CASE increases' = n + 1
    <3>1. increases' > 0 /\ bs(increases') = bs(n) + lp * Base /\ bs(increases') >= Limits.short * Base
      BY <1>2, <1>13, <2>2 DEF n
    <3>2. sh1 \in Int
      BY <1>3, <1>4, <1>5
    <3>3. CASE sh <= ss
      <4>1. CASE buys
        BY <1>3, <1>4, <1>5, <3>3, <4>1
      <4>2. CASE ~buys
        <5>1. sh1 <= sp
          BY <1>3, <1>4, <1>5, <1>6, <3>3, <4>2
        <5> QED
          BY <1>7, <1>8, <1>13, <3>1, <3>2, <5>1
      <4> QED
        BY <4>1, <4>2
    <3>4. CASE n > 0 /\ sh * 100 <= bs(n)
      <4>1. sh1 <= sh + m
        BY <1>3, <1>4, <1>5
      <4>2. sh1 * 100 <= bs(n) + lp * Base
        BY <1>3, <1>4, <1>8, <1>13, <3>2, <3>4, <4>1
      <4> QED
        BY <3>1, <4>2
    <3> QED
      BY <1>14, <3>3, <3>4
  <2> QED
    BY <1>12, <2>1, <2>2 DEF n
<1> QED
  BY <1>10, <1>15, <1>16 DEF Overshoot, bg, bs, lp

(* OrdersPass of any order and refusal.                                     *)
PassFor(o, b) ==
  LET e == Risk!CalculateExposure(snapshot.held)
      base == Risk!AtLeast(snapshot.equity, 1)
  IN /\ Risk!Closed(snapshot.held, o) = o.qty =>
          /\ "gross" \in b => (e.long + e.short) * 100 > Limits.gross * base
          /\ "long" \in b => e.long * 100 > Limits.long * base
          /\ "short" \in b => e.short * 100 > Limits.short * base
          /\ "sector" \in b => e.sector[monitor.sector[o.sym]] * 100 > Limits.sector * base
          /\ "count" \in b => e.count > Limits.count
          /\ "position" \notin b
     /\ o.side \in {"BUY", "SELL_SHORT"} => b \cap {"position", "order"} = {}

(* An order that only closes is refused for no reason that it adds to; an   *)
(* entry never for its own size.                                            *)
LEMMA PassesOnSize ==
  ASSUME RiskTyping, NEW s \in todo, NEW side \in {"BUY", "SELL", "SELL_SHORT", "BUY_TO_COVER"},
         NEW confidence \in Confidences, NEW scale \in Scales,
         NEW o, o = [sym |-> s, side |-> side, qty |-> Risk!Quantity(s, side, confidence, scale)], o.qty > 0
  PROVE  PassFor(o, Risk!Breaks(snapshot.held, snapshot.equity, o))
<1> DEFINE e == Risk!CalculateExposure(snapshot.held)
           p == Risk!ProjectOrder(e, snapshot.held, o)
           b == Risk!Breaks(snapshot.held, snapshot.equity, o)
           m == Opens(snapshot.held, o)
           l == Closes(snapshot.held, o)
           after == Risk!Executed(snapshot.held, o)
           c == monitor.sector[o.sym]
<1>1. o \in RiskOrder /\ o.sym = s /\ o.sym \in Symbols /\ o.qty \in Nat /\ o.side = side
  BY QuantityType DEF RiskOrder, RiskTyping
<1>2. Priced /\ snapshot.held \in Positions /\ price[s] \in Nat /\ price[s] > 0 /\ snapshot.equity \in Int
  BY DEF RiskTyping, Priced
<1>3. Base = Risk!AtLeast(snapshot.equity, 1) /\ Base \in Nat /\ Base >= 1
      /\ (snapshot.equity > 0 => Base = snapshot.equity)
  BY BaseType DEF Base
<1>4. /\ "gross" \in b => (p.long + p.short) * 100 > Limits.gross * Base
      /\ "long" \in b => p.long * 100 > Limits.long * Base
      /\ "short" \in b => p.short * 100 > Limits.short * Base
      /\ "count" \in b => p.count > Limits.count
      /\ "position" \in b => p.increase * 100 > Limits.position * Base
      /\ "sector" \in b => Risk!AtLeast(e.sector[c] + p.delta, 0) * 100 > Limits.sector * Base
      /\ "order" \in b => Limits.order > 0 /\ o.qty * price[o.sym] > Limits.order
  BY <1>3, Broken
<1>5. /\ p.long = LongValue(after) /\ p.short = ShortValue(after) /\ p.delta = m - l /\ p.increase = m
  BY <1>1, <1>2, Projected
<1>6. e.long = LongValue(snapshot.held) /\ e.short = ShortValue(snapshot.held) /\ e.sector[c] = SectorValue(snapshot.held, c)
      /\ e.long \in Nat /\ e.short \in Nat /\ e.sector[c] \in Nat
  BY <1>1, <1>2, ExposureIs, ValueTypes
<1>7. m \in Nat /\ l \in Nat /\ o.qty * price[o.sym] \in Nat /\ m = o.qty * price[o.sym] - l
  BY <1>1, <1>2, PartsType DEF Opens
<1>8. Limits.gross * Base \in Int /\ Limits.long * Base \in Int /\ Limits.short * Base \in Int
      /\ Limits.sector * Base \in Int /\ Limits.position * Base \in Nat
  BY <1>3, RiskConstants
<1>9. ASSUME Risk!Closed(snapshot.held, o) = o.qty
      PROVE  /\ "gross" \in b => (e.long + e.short) * 100 > Limits.gross * Base
             /\ "long" \in b => e.long * 100 > Limits.long * Base
             /\ "short" \in b => e.short * 100 > Limits.short * Base
             /\ "sector" \in b => e.sector[c] * 100 > Limits.sector * Base
             /\ "count" \in b => e.count > Limits.count
             /\ "position" \notin b
  <2>1. m = 0
    BY <1>1, <1>7, <1>9 DEF Closes
  <2>2. p.count = e.count + 0 /\ e.count \in Int
    <3>1. p.count = e.count + 0
      <4>1. ~(o.qty * price[o.sym] - Risk!Closed(snapshot.held, o) * price[o.sym] > 0)
        BY <2>1 DEF Opens, Closes
      <4> QED
        BY <4>1 DEF Risk!ProjectOrder
    <3>2. e.count = Risk!Cardinality({t \in Symbols : snapshot.held[t] # 0})
      BY DEF Risk!CalculateExposure
    <3>3. Risk!Cardinality({t \in Symbols : snapshot.held[t] # 0}) \in Nat
      <4> DEFINE T == {t \in Symbols : snapshot.held[t] # 0}
      <4>1. IsFiniteSet(T)
        BY BacktestConstants, FS_Subset
      <4> HIDE DEF T
      <4>2. Cardinality(T) \in Nat
        BY <4>1, FS_CardinalityType
      <4>3. Risk!Cardinality(T) = Cardinality(T)
        BY DEF Risk!Cardinality, Cardinality
      <4> QED
        BY <4>2, <4>3 DEF T
    <3> QED
      BY <3>1, <3>2, <3>3
  <2>3. p.long <= e.long /\ p.short <= e.short /\ p.long \in Nat /\ p.short \in Nat
    <3>1. /\ Risk!IsBuy(o) => LongValue(after) = LongValue(snapshot.held) + m /\ ShortValue(after) = ShortValue(snapshot.held) - l
          /\ ~Risk!IsBuy(o) => ShortValue(after) = ShortValue(snapshot.held) + m /\ LongValue(after) = LongValue(snapshot.held) - l
          /\ after \in Positions
      BY <1>1, <1>2, OrderMoves
    <3>2. LongValue(after) \in Nat /\ ShortValue(after) \in Nat
      BY <1>2, <3>1, ValueTypes
    <3> HIDE DEF e, p, m, l, after
    <3> QED
      BY <1>5, <1>6, <1>7, <2>1, <3>1, <3>2
  <2> DEFINE sector == e.sector[c]
             moved == Risk!AtLeast(sector + p.delta, 0)
  <2>4. sector \in Nat /\ moved \in Nat /\ moved <= sector
    <3>1. sector \in Nat /\ p.delta = 0 - l
      BY <1>5, <1>6, <2>1
    <3> HIDE DEF sector, p
    <3> QED
      BY <1>7, <3>1 DEF Risk!AtLeast
  <2>5. /\ "sector" \in b => moved * 100 > Limits.sector * Base
        /\ "position" \in b => m * 100 > Limits.position * Base
    BY <1>4, <1>5
  <2> HIDE DEF e, p, m, l, after, b, c, moved
  <2>6. "sector" \in b => sector * 100 > Limits.sector * Base
    BY <1>8, <2>4, <2>5
  <2>7. "position" \notin b
    BY <1>8, <2>1, <2>5
  <2> QED
    BY <1>4, <1>6, <1>8, <2>2, <2>3, <2>6, <2>7
<1>10. ASSUME o.side \in {"BUY", "SELL_SHORT"}
       PROVE  b \cap {"position", "order"} = {}
  <2>1. o.qty = Risk!EntrySize(s, confidence, scale)
    BY <1>1, <1>10 DEF Risk!Quantity
  <2>2. /\ snapshot.equity > 0
        /\ (o.qty * price[s]) * 100 <= Limits.position * snapshot.equity
        /\ Limits.order > 0 => o.qty * price[s] <= Limits.order
    BY <2>1, EntryFits
  <2> DEFINE v == o.qty * price[s]
  <2>3. v \in Nat /\ v * 100 <= Limits.position * Base /\ m <= v
    BY <1>1, <1>3, <1>7, <2>2
  <2>4. ~(m * 100 > Limits.position * Base)
    <3> HIDE DEF v, m
    <3> QED
      BY <1>7, <1>8, <2>3
  <2>5. ~(Limits.order > 0 /\ o.qty * price[o.sym] > Limits.order)
    BY <1>1, <1>7, <2>2, RiskConstants
  <2> HIDE DEF b, m
  <2> QED
    BY <1>4, <1>5, <2>4, <2>5
<1>11. Risk!AtLeast(snapshot.equity, 1) = Base
  BY <1>3
<1> HIDE DEF e, b, c
<1> QED
  BY <1>9, <1>10, <1>11 DEF PassFor, e, b, c

(* A signal is sized, checked and, if approved, filled.                     *)
LEMMA RiskSignals ==
  ASSUME RiskInv, NEW s \in Symbols, NEW side \in {"BUY", "SELL", "SELL_SHORT", "BUY_TO_COVER"},
         NEW confidence \in Confidences, NEW scale \in Scales, Risk!Signal(s, side, confidence, scale)
  PROVE  RiskInv'
<1> DEFINE o == [sym |-> s, side |-> side, qty |-> Risk!Quantity(s, side, confidence, scale)]
           breaks == Risk!Breaks(snapshot.held, snapshot.equity, o)
           approved == s \notin lately /\ breaks = {}
           adds == Risk!Closed(snapshot.held, o) < o.qty
<1>1. /\ s \in todo /\ o.qty > 0 /\ todo' = todo \ {s}
      /\ verdict' = [order |-> o, breaks |-> breaks, throttled |-> s \in lately]
      /\ IF approved THEN Risk!Fills(o) ELSE UNCHANGED <<cash, held>>
      /\ increases' = IF adds /\ held' # held THEN increases + 1 ELSE increases
      /\ UNCHANGED <<monitor, bar, price, snapshot>>
  BY DEF Risk!Signal
<1>2. RiskTyping /\ Overshoot
  BY DEF RiskInv
<1>3. Priced /\ held \in Positions /\ cash \in Int /\ increases \in Nat
      /\ \A t \in todo : price[t] > 0 /\ held[t] = snapshot.held[t]
  BY <1>2 DEF RiskTyping
<1>4. o \in RiskOrder /\ o.sym = s
  BY <1>1, <1>2, QuantityType DEF RiskOrder
<1> HIDE DEF o, breaks, adds
<1>5. /\ UNCHANGED <<cash, held>> \/ (approved /\ held' = Risk!Executed(held, o))
      /\ cash' \in Int /\ held' \in Positions
      /\ \A t \in Symbols : t # s => held'[t] = held[t]
  <2>1. CASE approved
    BY <1>1, <1>3, <1>4, <2>1, FillsExecute
  <2>2. CASE ~approved
    BY <1>1, <1>3, <2>2
  <2> QED
    BY <2>1, <2>2
<1>6. RiskTyping'
  <2>1. \A t \in todo' : price'[t] > 0 /\ held'[t] = snapshot'.held[t]
    BY <1>1, <1>2, <1>3, <1>5 DEF RiskTyping
  <2>2. increases' \in Nat
    BY <1>1, <1>3
  <2> QED
    BY <1>1, <1>2, <1>5, <2>1, <2>2 DEF RiskTyping, Priced
<1>7. Overshoot'
  <2>1. CASE held' = held
    <3>1. increases' = increases
      BY <1>1, <2>1
    <3> QED
      BY <1>1, <1>2, <2>1, <3>1 DEF Overshoot, Gross, LongValue, ShortValue, Risk!ValueOf, Base
  <2>2. CASE held' # held
    <3>1. approved /\ held' = Risk!Executed(held, o)
      BY <1>5, <2>2
    <3>2. increases' = IF adds THEN increases + 1 ELSE increases
      BY <1>1, <2>2
    <3> QED
      BY <1>1, <1>4, <3>1, <3>2, FillOvershoots DEF breaks, adds
  <2> QED
    BY <2>1, <2>2
<1>8. Risk!OrdersPass'
  <2>1. PassFor(o, breaks)
    BY <1>1, <1>2, PassesOnSize DEF o, breaks
  <2>2. Risk!CalculateExposure(snapshot.held)' = Risk!CalculateExposure(snapshot.held)
    BY <1>1 DEF Risk!CalculateExposure, Risk!ValueOf
  <2>3. /\ verdict'.order = o /\ verdict'.breaks = breaks
        /\ snapshot' = snapshot /\ monitor' = monitor
    BY <1>1
  <2> QED
    BY <2>1, <2>2, <2>3 DEF PassFor, Risk!OrdersPass, Risk!Closes, Risk!Closed
<1> QED
  BY <1>6, <1>7, <1>8 DEF RiskInv

(* Exposures are natural numbers in every typed state ...                   *)
LEMMA ValueTypesNow ==
  Priced => \A positions \in Positions : Gross(positions) \in Nat /\ ShortValue(positions) \in Nat
BY ValueTypes DEF Gross

(* ... and in the next one.                                                 *)
LEMMA ValueTypesNext ==
  (Priced => \A positions \in Positions : Gross(positions) \in Nat /\ ShortValue(positions) \in Nat)'
BY ValueTypesNow, PTL

(* Without a verdict nothing is claimed of one.                             *)
LEMMA NothingOrdered ==
  ASSUME verdict = Risk!NoVerdict
  PROVE  Risk!OrdersPass
BY DEF Risk!OrdersPass, Risk!NoVerdict

(* The run begins flat.                                                     *)
LEMMA RiskBegins ==
  ASSUME Risk!Init
  PROVE  RiskInv
<1>1. /\ price = [s \in Symbols |-> 0] /\ cash = RiskCash /\ held = [s \in Symbols |-> 0]
      /\ snapshot = [held |-> held, equity |-> RiskCash]
      /\ todo = {} /\ increases = 0 /\ verdict = Risk!NoVerdict
  BY DEF Risk!Init
<1>2. RiskTyping
  BY <1>1, RiskConstants DEF RiskTyping, Priced, Positions
<1>3. Gross(held) \in Nat /\ ShortValue(held) \in Nat /\ snapshot.held = held
  BY <1>1, <1>2, ValueTypesNow DEF RiskTyping
<1>4. Overshoot
  BY <1>1, <1>3 DEF Overshoot
<1> QED
  BY <1>1, <1>2, <1>4, NothingOrdered DEF RiskInv

(* A bar begins with a snapshot of what is held.                            *)
LEMMA RiskBarBegins ==
  ASSUME RiskInv, NEW here \in SUBSET Symbols, NEW fast \in BOOLEAN, NEW p \in [here -> Prices],
         Risk!BeginBar(here, p, fast)
  PROVE  RiskInv'
<1> DEFINE f == [s \in Symbols |-> held[s] * price'[s]]
<1>1. /\ price' = [s \in Symbols |-> IF s \in here THEN p[s] ELSE price[s]]
      /\ snapshot' = [held |-> held, equity |-> cash + Risk!SumFunction(f)]
      /\ todo' = here /\ increases' = 0 /\ verdict' = Risk!NoVerdict
      /\ UNCHANGED <<monitor, cash, held>>
  BY DEF Risk!BeginBar, Risk!Seen
<1>2. Priced /\ held \in Positions /\ cash \in Int
  BY DEF RiskInv, RiskTyping
<1>3. price' \in [Symbols -> Nat] /\ \A s \in here : price'[s] > 0
  <2>1. \A s \in here : p[s] \in Nat \ {0}
    BY RiskConstants
  <2>2. \A s \in Symbols : price[s] \in Nat
    BY <1>2 DEF Priced
  <2>3. \A s \in Symbols : price'[s] = IF s \in here THEN p[s] ELSE price[s]
    BY <1>1
  <2>4. \A s \in Symbols : price'[s] \in Nat
    BY <2>1, <2>2, <2>3
  <2>5. \A s \in here : price'[s] > 0
    BY <2>1, <2>3
  <2> QED
    BY <1>1, <2>4, <2>5
<1>4. Risk!SumFunction(f) \in Int
  <2>1. DOMAIN f = Symbols /\ \A s \in Symbols : f[s] \in Int
    BY <1>2, <1>3 DEF Positions
  <2> HIDE DEF f
  <2> QED
    BY <2>1, RiskSum, SumTakes, BacktestConstants
<1> HIDE DEF f
<1>5. RiskTyping'
  BY <1>1, <1>2, <1>3, <1>4 DEF RiskTyping, Priced
<1>6. Overshoot'
  <2>1. /\ Gross(held)' \in Nat /\ ShortValue(held)' \in Nat
        /\ Gross(snapshot.held)' = Gross(held)' /\ ShortValue(snapshot.held)' = ShortValue(held)'
    <3>1. snapshot'.held = held'
      BY <1>1
    <3>2. Gross(snapshot.held)' = Gross(held)' /\ ShortValue(snapshot.held)' = ShortValue(held)'
      BY <3>1 DEF Gross, LongValue, ShortValue, Risk!ValueOf
    <3>3. Gross(held)' \in Nat /\ ShortValue(held)' \in Nat
      BY <1>5, ValueTypesNext DEF RiskTyping
    <3> QED
      BY <3>2, <3>3
  <2> QED
    BY <1>1, <2>1 DEF Overshoot
<1>7. Risk!OrdersPass'
  BY <1>1 DEF Risk!OrdersPass, Risk!NoVerdict
<1> QED
  BY <1>5, <1>6, <1>7 DEF RiskInv

(* A symbol without a signal is passed over.                                *)
LEMMA RiskPasses ==
  ASSUME RiskInv, NEW s \in Symbols, Risk!NoSignal(s)
  PROVE  RiskInv'
<1>1. /\ todo' = todo \ {s} /\ verdict' = Risk!NoVerdict
      /\ UNCHANGED <<monitor, price, cash, held, snapshot, increases>>
  BY DEF Risk!NoSignal
<1>2. RiskTyping'
  BY <1>1 DEF RiskInv, RiskTyping, Priced
<1>3. Overshoot'
  BY <1>1 DEF RiskInv, Overshoot, Gross, LongValue, ShortValue, Risk!ValueOf, Base
<1>4. Risk!OrdersPass'
  BY <1>1 DEF Risk!OrdersPass, Risk!NoVerdict
<1> QED
  BY <1>2, <1>3, <1>4 DEF RiskInv

(* Nothing changes.                                                         *)
LEMMA RiskStays ==
  ASSUME RiskInv, UNCHANGED Risk!vars
  PROVE  RiskInv'
<1>1. UNCHANGED <<monitor, price, cash, held, snapshot, todo, increases, verdict>>
  BY DEF Risk!vars
<1>2. RiskTyping'
  BY <1>1 DEF RiskInv, RiskTyping, Priced
<1>3. Overshoot'
  BY <1>1 DEF RiskInv, Overshoot, Gross, LongValue, ShortValue, Risk!ValueOf, Base
<1>4. Risk!OrdersPass'
  <2>1. Risk!CalculateExposure(snapshot.held)' = Risk!CalculateExposure(snapshot.held)
    BY <1>1 DEF Risk!CalculateExposure, Risk!ValueOf
  <2>2. Risk!OrdersPass
    BY DEF RiskInv
  <2> QED
    BY <1>1, <2>1, <2>2 DEF Risk!OrdersPass, Risk!Closes, Risk!Closed
<1> QED
  BY <1>2, <1>3, <1>4 DEF RiskInv

(* Every step of a bar keeps the invariant.                                 *)
LEMMA RiskSteps ==
  ASSUME RiskInv, Risk!Next
  PROVE  RiskInv'
BY RiskSignals, RiskBarBegins, RiskPasses DEF Risk!Next

(* Only its own steps change a component.                                   *)
LEMMA RiskRuns ==
  /\ BooksInit /\ part = "exposure" => Risk!Init
  /\ [BooksNext]_books /\ part' = "exposure" => part = "exposure" /\ [Risk!Next]_(Risk!vars)
<1>1. BooksInit /\ part = "exposure" => Risk!Init
  BY DEF BooksInit
<1>2. ASSUME BooksNext, part' = "exposure" PROVE part = "exposure" /\ Risk!Next
  BY <1>2 DEF BooksNext, LedgerRuns, PaperRuns, BacktestRuns, RunnerRuns, ExposureRuns
<1>3. ASSUME UNCHANGED books, part' = "exposure" PROVE part = "exposure" /\ UNCHANGED Risk!vars
  BY <1>3 DEF books, shared, exposed, Risk!vars
<1> QED
  BY <1>1, <1>2, <1>3

(* The invariant holds in every behaviour of the exposure part.             *)
LEMMA RiskAlways == BooksSpec => [](part = "exposure" => RiskInv)
<1> DEFINE Inv == part = "exposure" => RiskInv
<1>1. BooksInit => Inv
  BY RiskRuns, RiskBegins
<1>2. Inv /\ [BooksNext]_books => Inv'
  BY RiskRuns, RiskSteps, RiskStays
<1> QED
  BY <1>1, <1>2, PTL DEF BooksSpec

(* Exposure, for every set of symbols, limits and sizes: the projection of  *)
(* an order is the exposure after it, an order that only closes is refused  *)
(* for nothing that it adds, and an entry never for its own size.           *)
THEOREM OrdersAreChecked == BooksSpec => []OrderChecked
<1>1. (part = "exposure" => RiskInv) => OrderChecked
  BY ProjectionExact DEF OrderChecked, Risk!OrderChecked, RiskInv, RiskTyping
<1> QED
  BY <1>1, RiskAlways, PTL

(* Exposure: orders checked against one snapshot pass the gross and the     *)
(* short limit by at most one position for each entry after the first,      *)
(* however many signals a bar has and whatever the broker refuses.          *)
THEOREM OvershootIsBounded == BooksSpec => []OvershootBounded
<1>1. (part = "exposure" => RiskInv) => OvershootBounded
  <2> SUFFICES ASSUME RiskInv PROVE Risk!OvershootBounded
    BY DEF OvershootBounded
  <2> DEFINE now == Risk!CalculateExposure(held)
             before == Risk!CalculateExposure(snapshot.held)
  <2>1. RiskTyping /\ Overshoot
    BY DEF RiskInv
  <2>2. /\ now.long = LongValue(held) /\ now.short = ShortValue(held)
        /\ before.long = LongValue(snapshot.held) /\ before.short = ShortValue(snapshot.held)
    BY DEF Risk!CalculateExposure, LongValue, ShortValue
  <2>3. Gross(held) \in Nat /\ Gross(snapshot.held) \in Nat
        /\ now.long + now.short = Gross(held) /\ before.long + before.short = Gross(snapshot.held)
    BY <2>1, <2>2, ValueTypesNow DEF Gross, RiskTyping
  <2> HIDE DEF now, before
  <2>4. Risk!Within(now.long + now.short, before.long + before.short, Limits.gross)
    BY <2>1, <2>3 DEF Risk!Within, Overshoot, Base
  <2>5. increases > 0 => now.short <= before.short \/ Risk!Within(now.short, before.short, Limits.short)
    BY <2>1, <2>2 DEF Risk!Within, Overshoot, Base, RiskTyping
  <2> QED
    BY <2>4, <2>5 DEF Risk!OvershootBounded, now, before
<1> QED
  BY <1>1, RiskAlways, PTL


-----------------------------------------------------------------------------
(* The paper broker: types.                                                 *)

AccountType == [cash : Int, long : [PaperSymbols -> Nat], short : [PaperSymbols -> Nat]]

OrderType == [req : Requests, status : {"OPEN", "FILLED", "REJECTED", "CANCELLED"}]

In == {"BUY", "BUY_TO_COVER"}
Out == {"SELL", "SELL_SHORT"}

(* What one order moved of a symbol on some of the sides, and what the      *)
(* orders of a sequence moved.                                              *)
Moved(o, s, sides) ==
  IF o.req.sym = s /\ o.status = "FILLED" /\ o.req.side \in sides THEN o.req.qty ELSE 0

Moves(pl, s, sides) == [i \in DOMAIN pl |-> Moved(pl[i], s, sides)]

Flow(pl, s, sides) == SumFunctionOnSet(Moves(pl, s, sides), DOMAIN pl)

(* An account is that of its orders.                                        *)
Squared(a, pl) == \A s \in PaperSymbols : a.long[s] - a.short[s] = Flow(pl, s, In) - Flow(pl, s, Out)

(* The sum the module states is the one the lemmas about sums are about.    *)
LEMMA PaperSum ==
  ASSUME NEW f PROVE Paper!SumFunction(f) = SumFunctionOnSet(f, DOMAIN f)
BY DEF Paper!SumFunction, Paper!SumFunctionOnSet, Paper!FoldFunctionOnSet, Paper!MapThenFoldSet, Paper!FoldFunction,
   SumFunctionOnSet, FoldFunctionOnSet, MapThenFoldSet

(* The same for the number of elements.                                     *)
LEMMA PaperCardinality ==
  ASSUME NEW S PROVE Paper!Cardinality(S) = Cardinality(S)
BY DEF Paper!Cardinality, Cardinality

-----------------------------------------------------------------------------
(* The sequence of a recursion is the one its definition describes. *)

Run(g, a, pl, prices, N) ==
  g = [n \in 0..N |-> IF n = 0 THEN [acc |-> a, placed |-> pl] ELSE Paper!Evaluate(g[n - 1], n, prices)]

(* An evaluation of all orders, one after another, exists.                  *)
LEMMA RunExists ==
  ASSUME NEW a, NEW pl, NEW prices, NEW N \in Nat
  PROVE  \E g : Run(g, a, pl, prices, N)
<1> DEFINE Good == {k \in 0..N : \E g : Run(g, a, pl, prices, k)}
<1>1. 0 \in Good
  <2> DEFINE G == [n \in 0..0 |-> [acc |-> a, placed |-> pl]]
  <2>1. G = [n \in 0..0 |-> IF n = 0 THEN [acc |-> a, placed |-> pl] ELSE Paper!Evaluate(G[n - 1], n, prices)]
    OBVIOUS
  <2> HIDE DEF G
  <2>2. Run(G, a, pl, prices, 0) /\ 0 \in 0..N
    BY <2>1 DEF Run
  <2> QED
    BY <2>2
<1>2. ASSUME NEW k \in 1..N, k - 1 \in Good PROVE k \in Good
  <2>1. PICK g : Run(g, a, pl, prices, k - 1)
    BY <1>2
  <2> DEFINE G == [n \in 0..k |-> IF n = k THEN Paper!Evaluate(g[k - 1], k, prices) ELSE g[n]]
  <2>2. \A n \in 0..(k - 1) : G[n] = g[n]
    OBVIOUS
  <2>3. ASSUME NEW n \in 0..k
        PROVE  G[n] = IF n = 0 THEN [acc |-> a, placed |-> pl] ELSE Paper!Evaluate(G[n - 1], n, prices)
    <3>1. CASE n = k
      <4>1. G[n] = Paper!Evaluate(g[k - 1], k, prices) /\ n # 0 /\ G[n - 1] = g[k - 1]
        BY <2>2, <3>1
      <4> HIDE DEF G
      <4> QED
        BY <3>1, <4>1
    <3>2. CASE n # k
      <4>1. n \in 0..(k - 1)
        BY <3>2
      <4>2. g[n] = IF n = 0 THEN [acc |-> a, placed |-> pl] ELSE Paper!Evaluate(g[n - 1], n, prices)
        BY <2>1, <4>1 DEF Run
      <4>3. G[n] = g[n] /\ (n # 0 => G[n - 1] = g[n - 1])
        BY <2>2, <4>1
      <4> HIDE DEF G
      <4> QED
        BY <4>2, <4>3
    <3> QED
      BY <3>1, <3>2
  <2>4. Run(G, a, pl, prices, k)
    <3>1. DOMAIN G = 0..k /\ G = [n \in 0..k |-> G[n]]
      OBVIOUS
    <3> HIDE DEF G
    <3> QED
      BY <2>3, <3>1 DEF Run
  <2> QED
    BY <2>4
<1> HIDE DEF Good
<1>3. Good \in SUBSET (0..N)
  BY DEF Good
<1>4. N \in Good
  BY <1>1, <1>2, <1>3, IntervalInduction
<1> QED
  BY <1>4 DEF Good

(* ... and it is what the broker computes.                                  *)
LEMMA ProcessedUnfolds ==
  ASSUME NEW prices, Len(placed) \in Nat
  PROVE  Run(Paper!Processed(prices), Paper!Account, placed, prices, Len(placed))
<1>1. \E g : Run(g, Paper!Account, placed, prices, Len(placed))
  BY RunExists
<1>2. Paper!Processed(prices) = CHOOSE g : Run(g, Paper!Account, placed, prices, Len(placed))
  BY DEF Paper!Processed, Run
<1> QED
  BY <1>1, <1>2, Zenon

-----------------------------------------------------------------------------
(* The flow of the orders. *)

(* The parts of a request.                                                  *)
LEMMA RequestIs ==
  ASSUME PaperConstants, NEW r \in Requests
  PROVE  /\ r.sym \in PaperSymbols /\ r.qty \in Nat \ {0} /\ r.limit \in Nat
         /\ r.side \in {"BUY", "SELL", "SELL_SHORT", "BUY_TO_COVER"}
BY DEF PaperConstants, Paper!Request, Paper!Sides

(* What an order moves is a natural number.                                 *)
LEMMA MovedType ==
  ASSUME PaperConstants, NEW o \in OrderType, NEW s, NEW sides
  PROVE  Moved(o, s, sides) \in Nat
<1>1. o.req.qty \in Nat
  BY RequestIs DEF OrderType
<1> QED
  BY <1>1 DEF Moved

(* What a sequence of orders moves is an integer, order by order.           *)
LEMMA FlowType ==
  ASSUME PaperConstants, NEW pl \in Seq(OrderType), NEW s, NEW sides
  PROVE  /\ DOMAIN pl = 1..Len(pl) /\ IsFiniteSet(DOMAIN pl)
         /\ \A i \in DOMAIN pl : Moves(pl, s, sides)[i] = Moved(pl[i], s, sides) /\ Moved(pl[i], s, sides) \in Nat
         /\ Flow(pl, s, sides) \in Int
<1>1. DOMAIN pl = 1..Len(pl) /\ Len(pl) \in Nat /\ \A i \in 1..Len(pl) : pl[i] \in OrderType
  BY ElementOfSeq, LenProperties
<1>2. IsFiniteSet(1..Len(pl))
  BY <1>1, FS_Interval
<1>3. \A i \in DOMAIN pl : Moves(pl, s, sides)[i] = Moved(pl[i], s, sides) /\ Moved(pl[i], s, sides) \in Nat
  BY <1>1, MovedType DEF Moves
<1>4. Flow(pl, s, sides) \in Int
  BY <1>1, <1>2, <1>3, SumTakes DEF Flow
<1> QED
  BY <1>1, <1>2, <1>3, <1>4

(* An order that changes moves the flow by what it moves now and did not.   *)
LEMMA FlowMoves ==
  ASSUME PaperConstants, NEW pl \in Seq(OrderType), NEW ql \in Seq(OrderType), Len(ql) = Len(pl),
         NEW i \in 1..Len(pl), \A j \in 1..Len(pl) : j # i => ql[j] = pl[j], NEW s, NEW sides
  PROVE  Flow(ql, s, sides) = Flow(pl, s, sides) + (Moved(ql[i], s, sides) - Moved(pl[i], s, sides))
<1> DEFINE D == 1..Len(pl)
           f == Moves(pl, s, sides)
           g == Moves(ql, s, sides)
<1>1. /\ DOMAIN pl = D /\ DOMAIN ql = D /\ IsFiniteSet(D) /\ i \in D
      /\ \A j \in D : f[j] = Moved(pl[j], s, sides) /\ f[j] \in Int /\ g[j] = Moved(ql[j], s, sides) /\ g[j] \in Int
  BY FlowType
<1>2. \A j \in D : j # i => g[j] = f[j]
  BY <1>1
<1>3. Flow(ql, s, sides) = SumFunctionOnSet(g, D) /\ Flow(pl, s, sides) = SumFunctionOnSet(f, D)
  BY <1>1 DEF Flow
<1> HIDE DEF f, g, D
<1>4. SumFunctionOnSet(g, D) = SumFunctionOnSet(f, D) + (g[i] - f[i])
  BY <1>1, <1>2, SumMoves
<1> QED
  BY <1>1, <1>3, <1>4

(* One more order moves what it moves.                                      *)
LEMMA FlowAppends ==
  ASSUME PaperConstants, NEW pl \in Seq(OrderType), NEW o \in OrderType, NEW s, NEW sides
  PROVE  Flow(Append(pl, o), s, sides) = Flow(pl, s, sides) + Moved(o, s, sides)
<1> DEFINE ql == Append(pl, o)
           D == 1..Len(pl)
           n == Len(pl) + 1
           f == Moves(pl, s, sides)
           g == Moves(ql, s, sides)
<1>1. /\ ql \in Seq(OrderType) /\ Len(ql) = n /\ ql[n] = o /\ Len(pl) \in Nat
      /\ \A i \in D : ql[i] = pl[i]
  BY AppendProperties, LenProperties
<1>2. /\ DOMAIN pl = D /\ IsFiniteSet(D)
      /\ \A i \in D : f[i] = Moved(pl[i], s, sides) /\ f[i] \in Int
  BY FlowType
<1> HIDE DEF ql
<1>3. /\ DOMAIN ql = 1..n
      /\ \A i \in 1..n : g[i] = Moved(ql[i], s, sides) /\ g[i] \in Int
  BY <1>1, FlowType
<1>4. 1..n = D \cup {n} /\ n \notin D
  BY <1>1
<1>5. \A i \in D : g[i] = f[i] /\ f[i] \in Int /\ g[i] \in Int
  BY <1>1, <1>2, <1>3, <1>4
<1>6. g[n] \in Int /\ g[n] = Moved(o, s, sides)
  BY <1>1, <1>3, <1>4
<1> HIDE DEF f, g, n, D
<1>7. SumFunctionOnSet(g, D \cup {n}) = g[n] + SumFunctionOnSet(g, D)
  BY <1>2, <1>4, <1>5, <1>6, SumAdds
<1>8. SumFunctionOnSet(g, D) = SumFunctionOnSet(f, D) /\ SumFunctionOnSet(f, D) \in Int
  BY <1>2, <1>5, SumSame, SumTakes
<1>9. Flow(ql, s, sides) = SumFunctionOnSet(g, D \cup {n}) /\ Flow(pl, s, sides) = SumFunctionOnSet(f, D)
  BY <1>2, <1>3, <1>4 DEF Flow, f, g
<1> USE DEF ql
<1> QED
  BY <1>6, <1>7, <1>8, <1>9

(* The quantities the property compares are that flow.                      *)
LEMMA QuantityIsFlow ==
  ASSUME PaperConstants, placed \in Seq(OrderType), NEW s, NEW sides
  PROVE  Paper!Quantity(Paper!FilledOf(s, sides)) = Flow(placed, s, sides)
<1> DEFINE P == Paper!FilledOf(s, sides)
           f == [i \in P |-> placed[i].req.qty]
           h == Moves(placed, s, sides)
<1>1. /\ IsFiniteSet(DOMAIN placed)
      /\ \A i \in DOMAIN placed : h[i] = Moved(placed[i], s, sides) /\ h[i] \in Int
  BY FlowType
<1>2. P \in SUBSET (DOMAIN placed)
  BY DEF Paper!FilledOf
<1>3. /\ \A i \in P : h[i] \in Int /\ h[i] = placed[i].req.qty
      /\ \A i \in (DOMAIN placed) \ P : h[i] = 0
  BY <1>1 DEF Paper!FilledOf, Moved
<1>4. Paper!Quantity(P) = SumFunctionOnSet(f, P)
  BY PaperSum DEF Paper!Quantity
<1>5. \A i \in P : f[i] \in Int /\ h[i] = f[i]
  BY <1>3
<1> DEFINE D == DOMAIN placed
<1>6. /\ IsFiniteSet(D) /\ P \in SUBSET D
      /\ \A i \in P : f[i] \in Int /\ h[i] = f[i]
      /\ \A i \in D \ P : h[i] = 0
  BY <1>1, <1>2, <1>3, <1>5
<1> HIDE DEF f, h, P, D
<1>7. SumFunctionOnSet(f, P) = SumFunctionOnSet(h, D)
  BY <1>6, SumWithin
<1> QED
  BY <1>4, <1>7 DEF Flow, h, P, D

-----------------------------------------------------------------------------
(* One order and the account. *)

(* The parts of an account.                                                 *)
LEMMA AccountIs ==
  ASSUME NEW a \in AccountType, NEW s \in PaperSymbols
  PROVE  a.cash \in Int /\ a.long[s] \in Nat /\ a.short[s] \in Nat
BY DEF AccountType

(* A fill that is not refused moves cash and position by what it says, and  *)
(* never overdraws.                                                         *)
LEMMA FillMoves ==
  ASSUME PaperConstants, NEW a \in AccountType, NEW r \in Requests, NEW p \in Nat,
         ~Paper!Refused(a, r, p), NEW b, b = Paper!ApplyFill(a, r, p)
  PROVE  /\ b \in AccountType
         /\ \A s \in PaperSymbols \ {r.sym} : b.long[s] = a.long[s] /\ b.short[s] = a.short[s]
         /\ r.side \in In =>
              /\ b.cash = a.cash - (p * r.qty + Commission) /\ b.cash >= 0
              /\ b.long[r.sym] - b.short[r.sym] = a.long[r.sym] - a.short[r.sym] + r.qty
         /\ r.side \in Out =>
              /\ b.cash = a.cash + p * r.qty - Commission
              /\ b.long[r.sym] - b.short[r.sym] = a.long[r.sym] - a.short[r.sym] - r.qty
<1> DEFINE x == r.sym
           l == a.long
           h == a.short
           c == a.cash
           q == r.qty
           v == p * r.qty
<1>1. /\ x \in PaperSymbols /\ q \in Nat /\ v \in Nat /\ Commission \in Nat /\ c \in Int
      /\ l \in [PaperSymbols -> Nat] /\ h \in [PaperSymbols -> Nat]
      /\ r.side \in {"BUY", "SELL", "SELL_SHORT", "BUY_TO_COVER"}
  <2>1. x \in PaperSymbols /\ q \in Nat /\ r.side \in {"BUY", "SELL", "SELL_SHORT", "BUY_TO_COVER"}
    BY RequestIs
  <2>2. v \in Nat
    BY <2>1
  <2> QED
    BY <2>1, <2>2 DEF PaperConstants, AccountType
<1>2. l[x] \in Nat /\ h[x] \in Nat
  BY <1>1
<1>3. CASE r.side = "BUY"
  <2>1. b = [cash |-> c - (v + Commission), long |-> [l EXCEPT ![x] = @ + q], short |-> h]
    BY <1>3 DEF Paper!ApplyFill
  <2>2. v + Commission <= c
    BY <1>1, <1>3 DEF Paper!Refused
  <2>3. b.cash = c - (v + Commission) /\ b.long = [l EXCEPT ![x] = @ + q] /\ b.short = h
    BY <2>1
  <2>4. b.long \in [PaperSymbols -> Nat] /\ b.long[x] = l[x] + q /\ b.short[x] = h[x]
        /\ \A s \in PaperSymbols \ {x} : b.long[s] = l[s] /\ b.short[s] = h[s]
    BY <1>1, <1>2, <2>3
  <2>5. b \in AccountType
    BY <1>1, <2>1, <2>3, <2>4 DEF AccountType
  <2> HIDE DEF x, l, h, c, q, v
  <2>6. b.cash >= 0 /\ b.long[x] - b.short[x] = l[x] - h[x] + q
    BY <1>1, <1>2, <2>2, <2>3, <2>4
  <2> QED
    BY <1>3, <2>3, <2>4, <2>5, <2>6 DEF x, l, h, c, q, v, In, Out
<1>4. CASE r.side = "BUY_TO_COVER"
  <2>1. b = [cash |-> c - (v + Commission), long |-> l, short |-> [h EXCEPT ![x] = @ - q]]
    BY <1>4 DEF Paper!ApplyFill
  <2>2. v + Commission <= c /\ q <= h[x]
    BY <1>1, <1>2, <1>4 DEF Paper!Refused
  <2>3. b.cash = c - (v + Commission) /\ b.long = l /\ b.short = [h EXCEPT ![x] = @ - q]
    BY <2>1
  <2>4. b.short \in [PaperSymbols -> Nat] /\ b.long[x] = l[x] /\ b.short[x] = h[x] - q
        /\ \A s \in PaperSymbols \ {x} : b.long[s] = l[s] /\ b.short[s] = h[s]
    BY <1>1, <1>2, <2>2, <2>3
  <2>5. b \in AccountType
    BY <1>1, <2>1, <2>3, <2>4 DEF AccountType
  <2> HIDE DEF x, l, h, c, q, v
  <2>6. b.cash >= 0 /\ b.long[x] - b.short[x] = l[x] - h[x] + q
    BY <1>1, <1>2, <2>2, <2>3, <2>4
  <2> QED
    BY <1>4, <2>3, <2>4, <2>5, <2>6 DEF x, l, h, c, q, v, In, Out
<1>5. CASE r.side \in Out
  <2> DEFINE k == Paper!Closed(a, r)
  <2>1. k \in Nat /\ k <= q /\ k <= l[x]
    BY <1>1, <1>2 DEF Paper!Closed
  <2>2. b = [cash |-> c + v - Commission, long |-> [l EXCEPT ![x] = @ - k], short |-> [h EXCEPT ![x] = @ + (q - k)]]
    BY <1>5 DEF Paper!ApplyFill, Out
  <2> HIDE DEF k
  <2>3. b.cash = c + v - Commission /\ b.long = [l EXCEPT ![x] = @ - k] /\ b.short = [h EXCEPT ![x] = @ + (q - k)]
    BY <2>2
  <2> HIDE DEF x, l, h, c, q, v
  <2>4. l[x] - k \in Nat /\ h[x] + (q - k) \in Nat
    BY <1>1, <1>2, <2>1
  <2>5. b.long \in [PaperSymbols -> Nat] /\ b.short \in [PaperSymbols -> Nat] /\ b.long[x] = l[x] - k /\ b.short[x] = h[x] + (q - k)
        /\ \A s \in PaperSymbols \ {x} : b.long[s] = l[s] /\ b.short[s] = h[s]
    BY <1>1, <2>3, <2>4
  <2>6. b.cash \in Int
    BY <1>1, <2>3
  <2>7. b \in AccountType
    BY <2>2, <2>3, <2>5, <2>6 DEF AccountType
  <2>8. b.long[x] - b.short[x] = l[x] - h[x] - q
    BY <1>1, <1>2, <2>1, <2>5
  <2> QED
    BY <1>5, <2>3, <2>5, <2>7, <2>8 DEF x, l, h, c, q, v, In, Out
<1> QED
  BY <1>1, <1>3, <1>4, <1>5 DEF Out

(* Some shares are worth at least one.                                      *)
LEMMA WholeShares ==
  ASSUME NEW p \in Nat, NEW q \in Nat \ {0}
  PROVE  p * q \in Nat /\ p * q >= p
<1>1. p * q = p + p * (q - 1) /\ q - 1 \in Nat
  OBVIOUS
<1>2. p * (q - 1) \in Nat
  BY <1>1
<1> QED
  BY <1>1, <1>2

Effect(a, r, quote, b, o) ==
  /\ b \in AccountType /\ o \in OrderType /\ o.req = r
  /\ o.status = "OPEN" => ~Paper!Triggered(r, quote)
  /\ o.status # "FILLED" => b = a
  /\ \A s \in PaperSymbols : b.long[s] - b.short[s] = a.long[s] - a.short[s] + Moved(o, s, In) - Moved(o, s, Out)
  /\ CommissionIsCovered /\ a.cash >= 0 => b.cash >= 0

(* What one order does at a price: a fill moves the book by what the order  *)
(* counts for and never overdraws the account, any other outcome leaves it. *)
LEMMA OrderEffect ==
  ASSUME PaperConstants, NEW a \in AccountType, NEW r \in Requests, NEW quote \in PaperPrices,
         NEW b, b = Paper!After(a, r, quote), NEW o, o = Paper!Order(r, Paper!Outcome(a, r, quote))
  PROVE  Effect(a, r, quote, b, o)
<1> DEFINE p == Paper!FillPrice(r, quote)
<1>1. o = [req |-> r, status |-> Paper!Outcome(a, r, quote)]
  BY DEF Paper!Order
<1>2. Paper!Outcome(a, r, quote) \in {"OPEN", "FILLED", "REJECTED"}
  BY DEF Paper!Outcome
<1>3. o \in OrderType /\ o.req = r /\ o.status = Paper!Outcome(a, r, quote)
  BY <1>1, <1>2 DEF OrderType
<1>4. o.status = "OPEN" => ~Paper!Triggered(r, quote)
  BY <1>3 DEF Paper!Outcome
<1>5. o.status # "FILLED" => b = a
  BY <1>3 DEF Paper!After
<1>6. r.sym \in PaperSymbols /\ r.qty \in Nat \ {0} /\ r.side \in In \cup Out /\ p \in Nat
  BY RequestIs DEF In, Out, Paper!FillPrice, PaperConstants
<1>7. ASSUME NEW s \in PaperSymbols
      PROVE  a.long[s] \in Nat /\ a.short[s] \in Nat /\ a.cash \in Int
  BY AccountIs
<1>8. CASE o.status # "FILLED"
  <2>1. \A s : Moved(o, s, In) = 0 /\ Moved(o, s, Out) = 0
    BY <1>8 DEF Moved
  <2>2. \A s \in PaperSymbols : a.long[s] - a.short[s] = a.long[s] - a.short[s] + 0 - 0
    BY <1>7
  <2> QED
    BY <1>3, <1>4, <1>5, <1>8, <2>1, <2>2 DEF Effect
<1>9. CASE o.status = "FILLED"
  <2>1. b = Paper!ApplyFill(a, r, p) /\ ~Paper!Refused(a, r, p)
    BY <1>3, <1>9 DEF Paper!After, Paper!Outcome
  <2> HIDE DEF p
  <2>2. /\ b \in AccountType
        /\ \A s \in PaperSymbols \ {r.sym} : b.long[s] = a.long[s] /\ b.short[s] = a.short[s]
        /\ r.side \in In =>
             /\ b.cash = a.cash - (p * r.qty + Commission) /\ b.cash >= 0
             /\ b.long[r.sym] - b.short[r.sym] = a.long[r.sym] - a.short[r.sym] + r.qty
        /\ r.side \in Out =>
             /\ b.cash = a.cash + p * r.qty - Commission
             /\ b.long[r.sym] - b.short[r.sym] = a.long[r.sym] - a.short[r.sym] - r.qty
    BY <1>6, <2>1, FillMoves
  <2>3. ASSUME NEW s \in PaperSymbols
        PROVE  b.long[s] - b.short[s] = a.long[s] - a.short[s] + Moved(o, s, In) - Moved(o, s, Out)
    <3>1. CASE s # r.sym
      <4>1. Moved(o, s, In) = 0 /\ Moved(o, s, Out) = 0
        BY <1>3, <3>1 DEF Moved
      <4>2. b.long[s] = a.long[s] /\ b.short[s] = a.short[s]
        BY <2>2, <3>1
      <4> QED
        BY <1>7, <4>1, <4>2
    <3>2. CASE s = r.sym /\ r.side \in In
      <4>1. Moved(o, s, In) = r.qty /\ Moved(o, s, Out) = 0
        BY <1>3, <1>9, <3>2 DEF Moved, In, Out
      <4>2. b.long[s] - b.short[s] = a.long[s] - a.short[s] + r.qty
        BY <2>2, <3>2
      <4> QED
        BY <1>6, <1>7, <4>1, <4>2
    <3>3. CASE s = r.sym /\ r.side \in Out
      <4>1. Moved(o, s, Out) = r.qty /\ Moved(o, s, In) = 0
        BY <1>3, <1>9, <3>3 DEF Moved, In, Out
      <4>2. b.long[s] - b.short[s] = a.long[s] - a.short[s] - r.qty
        BY <2>2, <3>3
      <4> QED
        BY <1>6, <1>7, <4>1, <4>2
    <3> QED
      BY <1>6, <3>1, <3>2, <3>3
  <2>4. ASSUME CommissionIsCovered, a.cash >= 0, r.side \in Out
        PROVE  b.cash >= 0
    <3>1. Commission <= p /\ Commission \in Nat
      BY <2>4 DEF CommissionIsCovered, p, Paper!FillPrice, PaperConstants
    <3>2. p * r.qty \in Nat /\ p * r.qty >= p
      BY <1>6, WholeShares
    <3> DEFINE v == p * r.qty
    <3>3. b.cash = a.cash + v - Commission /\ a.cash \in Int
      BY <1>6, <1>7, <2>2, <2>4
    <3> HIDE DEF v
    <3>4. v \in Nat /\ v >= p
      BY <3>2 DEF v
    <3> QED
      BY <1>6, <2>4, <3>1, <3>3, <3>4
  <2> QED
    BY <1>3, <1>4, <1>6, <1>9, <2>2, <2>3, <2>4 DEF Effect
<1> QED
  BY <1>8, <1>9

-----------------------------------------------------------------------------
(* The worth of an account. *)

Position(a, prices) == [s \in PaperSymbols |-> (a.long[s] - a.short[s]) * prices[s]]

Value(a, prices) == Paper!Worth(a.cash, a.long, a.short, prices)

(* The value of an account as a sum over its symbols.                       *)
LEMMA ValueIs ==
  ASSUME NEW a, NEW prices
  PROVE  Value(a, prices) = a.cash + SumFunctionOnSet(Position(a, prices), PaperSymbols)
<1>1. DOMAIN Position(a, prices) = PaperSymbols
  BY DEF Position
<1>2. Paper!SumFunction(Position(a, prices)) = SumFunctionOnSet(Position(a, prices), PaperSymbols)
  BY <1>1, PaperSum
<1> QED
  BY <1>2 DEF Value, Paper!Worth, Position

(* Shares added to a position, at a price.                                  *)
LEMMA Distributed ==
  ASSUME NEW n \in Int, NEW q \in Int, NEW p \in Int
  PROVE  (n + q) * p - n * p = p * q /\ (n - q) * p - n * p = -(p * q)
OBVIOUS

(* A fill at the last price costs the commission and nothing else.          *)
LEMMA FillKeepsValue ==
  ASSUME PaperConstants, NEW a \in AccountType, NEW r \in Requests, NEW prices \in [PaperSymbols -> Nat],
         prices[r.sym] \in PaperPrices, r.type # "STOP_LIMIT",
         NEW b, b = Paper!After(a, r, prices[r.sym]), Paper!Outcome(a, r, prices[r.sym]) = "FILLED"
  PROVE  Value(b, prices) = Value(a, prices) - Commission
<1> DEFINE x == r.sym
           p == prices[x]
           f == Position(a, prices)
           g == Position(b, prices)
           n == a.long[x] - a.short[x]
           m == b.long[x] - b.short[x]
           q == r.qty
<1>1. x \in PaperSymbols /\ q \in Nat /\ r.side \in In \cup Out /\ p \in Nat /\ Commission \in Nat /\ IsFiniteSet(PaperSymbols)
  BY RequestIs DEF In, Out, PaperConstants
<1>2. b = Paper!ApplyFill(a, r, p) /\ ~Paper!Refused(a, r, p)
  BY DEF Paper!After, Paper!Outcome, Paper!FillPrice
<1>3. /\ b \in AccountType
      /\ \A s \in PaperSymbols \ {x} : b.long[s] = a.long[s] /\ b.short[s] = a.short[s]
      /\ r.side \in In => b.cash = a.cash - (p * q + Commission) /\ m = n + q
      /\ r.side \in Out => b.cash = a.cash + p * q - Commission /\ m = n - q
  <2> HIDE DEF p
  <2> QED
    BY <1>1, <1>2, FillMoves
<1>4. ASSUME NEW s \in PaperSymbols
      PROVE  /\ f[s] = (a.long[s] - a.short[s]) * prices[s] /\ f[s] \in Int
             /\ g[s] = (b.long[s] - b.short[s]) * prices[s] /\ g[s] \in Int
  <2>1. a.long[s] - a.short[s] \in Int /\ b.long[s] - b.short[s] \in Int /\ prices[s] \in Int
    BY <1>3, AccountIs
  <2> QED
    BY <2>1 DEF Position
<1>5. \A s \in PaperSymbols : s # x => g[s] = f[s]
  BY <1>3, <1>4
<1>6. n \in Int /\ m \in Int /\ a.cash \in Int /\ b.cash \in Int /\ f[x] = n * p /\ g[x] = m * p /\ f[x] \in Int /\ g[x] \in Int
  BY <1>1, <1>3, <1>4, AccountIs
<1> HIDE DEF f, g
<1>7. SumFunctionOnSet(g, PaperSymbols) = SumFunctionOnSet(f, PaperSymbols) + (g[x] - f[x])
      /\ SumFunctionOnSet(f, PaperSymbols) \in Int
  BY <1>1, <1>4, <1>5, <1>6, SumMoves, SumTakes
<1>8. Value(a, prices) = a.cash + SumFunctionOnSet(f, PaperSymbols) /\ Value(b, prices) = b.cash + SumFunctionOnSet(g, PaperSymbols)
  BY ValueIs DEF f, g
<1> DEFINE F == SumFunctionOnSet(f, PaperSymbols)
           G == SumFunctionOnSet(g, PaperSymbols)
           v == p * q
<1>9. v \in Int
  BY <1>1
<1>10. (r.side \in In => g[x] - f[x] = v) /\ (r.side \in Out => g[x] - f[x] = -v)
  <2> HIDE DEF x, n, m, p, q
  <2> QED
    BY <1>1, <1>3, <1>6, Distributed DEF v
<1> HIDE DEF F, G, v, n, m, p, q, x
<1>11. CASE r.side \in In
  <2>1. b.cash = a.cash - (v + Commission) /\ G = F + v
    BY <1>3, <1>7, <1>10, <1>11 DEF v, F, G
  <2> QED
    BY <1>1, <1>6, <1>7, <1>8, <1>9, <2>1 DEF F, G
<1>12. CASE r.side \in Out
  <2>1. b.cash = a.cash + v - Commission /\ G = F + (-v)
    BY <1>3, <1>7, <1>10, <1>12 DEF v, F, G
  <2> QED
    BY <1>1, <1>6, <1>7, <1>8, <1>9, <2>1 DEF F, G
<1> QED
  BY <1>1, <1>11, <1>12

-----------------------------------------------------------------------------
(* The resting orders against new prices, one after the other. *)

(* The account a and the orders pl when the prices came, b once the first n *)
(* orders have been looked at.                                              *)
Filled(b, n, pl) == {i \in 1..n : b.placed[i].status = "FILLED" /\ pl[i].status # "FILLED"}

BookKept(b, pl) ==
  /\ b.acc \in AccountType /\ b.placed \in Seq(OrderType) /\ Len(b.placed) = Len(pl)
  /\ Squared(b.acc, b.placed)
  /\ CommissionIsCovered => b.acc.cash >= 0

OrdersKept(b, n, pl, prices) ==
  /\ \A i \in 1..Len(pl) : b.placed[i].req = pl[i].req
  /\ \A i \in (n + 1)..Len(pl) : b.placed[i] = pl[i]
  /\ \A i \in 1..n : b.placed[i].status = "OPEN" /\ prices[b.placed[i].req.sym] # 0
       => ~Paper!Triggered(b.placed[i].req, prices[b.placed[i].req.sym])

ValueKept(b, n, a, pl, prices) ==
  (\A i \in Filled(b, n, pl) : pl[i].req.type # "STOP_LIMIT")
    => Value(b.acc, prices) = Value(a, prices) - Commission * Cardinality(Filled(b, n, pl))

Stage(b, n, a, pl, prices) == BookKept(b, pl) /\ OrdersKept(b, n, pl, prices) /\ ValueKept(b, n, a, pl, prices)

(* The orders an update fills are finitely many.                            *)
LEMMA FilledIsFinite ==
  ASSUME NEW b, NEW n \in Nat, NEW pl
  PROVE  IsFiniteSet(Filled(b, n, pl)) /\ Cardinality(Filled(b, n, pl)) \in Nat
<1>1. Filled(b, n, pl) \subseteq 1..n
  BY DEF Filled
<1>2. IsFiniteSet(1..n)
  BY FS_Interval
<1>3. IsFiniteSet(Filled(b, n, pl))
  BY <1>1, <1>2, FS_Subset
<1> QED
  BY <1>3, FS_CardinalityType

(* The value of an account is an integer.                                   *)
LEMMA ValueType ==
  ASSUME PaperConstants, NEW a \in AccountType, NEW prices \in [PaperSymbols -> Nat]
  PROVE  Value(a, prices) \in Int
<1> DEFINE f == Position(a, prices)
<1>1. IsFiniteSet(PaperSymbols) /\ \A s \in PaperSymbols : f[s] \in Int
  <2>1. ASSUME NEW s \in PaperSymbols PROVE f[s] \in Int
    BY AccountIs DEF Position
  <2> QED
    BY <2>1 DEF PaperConstants
<1> HIDE DEF f
<1>2. SumFunctionOnSet(f, PaperSymbols) \in Int
  BY <1>1, SumTakes
<1>3. a.cash \in Int
  BY DEF AccountType
<1> QED
  BY <1>2, <1>3, ValueIs DEF f

(* One more open order of an update is evaluated over the account the       *)
(* others left.                                                             *)
LEMMA StageSteps ==
  ASSUME PaperConstants, NEW a \in AccountType, NEW pl \in Seq(OrderType),
         NEW prices \in [PaperSymbols -> PaperPrices \cup {0}], NEW n \in 1..Len(pl), NEW b, Stage(b, n - 1, a, pl, prices),
         NEW c, c = Paper!Evaluate(b, n, prices)
  PROVE  Stage(c, n, a, pl, prices)
<1> DEFINE r == b.placed[n].req
           x == r.sym
<1>1. /\ b.acc \in AccountType /\ b.placed \in Seq(OrderType) /\ Len(b.placed) = Len(pl) /\ Len(pl) \in Nat
      /\ b.placed[n] = pl[n] /\ b.placed[n] \in OrderType /\ r \in Requests /\ x \in PaperSymbols /\ n \in Nat /\ n - 1 \in Nat
      /\ prices \in [PaperSymbols -> Nat]
  <2>1. Len(pl) \in Nat /\ n \in 1..Len(pl) /\ n \in Nat /\ n - 1 \in Nat /\ n \in ((n - 1) + 1)..Len(pl)
    BY LenProperties
  <2>2. b.acc \in AccountType /\ b.placed \in Seq(OrderType) /\ Len(b.placed) = Len(pl) /\ b.placed[n] = pl[n]
    BY <2>1 DEF Stage, BookKept, OrdersKept
  <2>3. b.placed[n] \in OrderType
    BY <2>2, ElementOfSeq
  <2>4. r \in Requests
    BY <2>3 DEF OrderType
  <2>5. x \in PaperSymbols
    BY <2>4, RequestIs
  <2>6. prices \in [PaperSymbols -> Nat]
    <3>1. \A p \in PaperPrices \cup {0} : p \in Nat
      BY DEF PaperConstants
    <3> QED
      BY <3>1
  <2> QED
    BY <2>1, <2>2, <2>3, <2>4, <2>5, <2>6
<1>2. Stage(b, n - 1, a, pl, prices)
  OBVIOUS
<1>3. CASE b.placed[n].status # "OPEN" \/ prices[x] = 0
  <2>1. c = b
    BY <1>3 DEF Paper!Evaluate
  <2>2. OrdersKept(b, n, pl, prices)
    <3>1. \A i \in (n + 1)..Len(pl) : i \in ((n - 1) + 1)..Len(pl)
      BY <1>1
    <3>2. \A i \in 1..n : i = n \/ i \in 1..(n - 1)
      BY <1>1
    <3> QED
      BY <1>2, <1>3, <3>1, <3>2 DEF Stage, OrdersKept
  <2>3. Filled(b, n, pl) = Filled(b, n - 1, pl)
    <3>1. \A i : i \in 1..n <=> i = n \/ i \in 1..(n - 1)
      BY <1>1
    <3> QED
      BY <1>1, <3>1 DEF Filled
  <2> QED
    BY <1>2, <2>1, <2>2, <2>3 DEF Stage, ValueKept
<1>4. CASE b.placed[n].status = "OPEN" /\ prices[x] # 0
  <2> DEFINE quote == prices[x]
             d == Paper!After(b.acc, r, quote)
             o == Paper!Order(r, Paper!Outcome(b.acc, r, quote))
             ql == [b.placed EXCEPT ![n] = o]
  <2>1. c = [acc |-> d, placed |-> ql]
    BY <1>4 DEF Paper!Evaluate
  <2>2. quote \in PaperPrices
    BY <1>1, <1>4
  <2> HIDE DEF x
  <2>3. /\ d \in AccountType /\ o \in OrderType /\ o.req = r
        /\ o.status = "OPEN" => ~Paper!Triggered(r, quote)
        /\ o.status # "FILLED" => d = b.acc
        /\ \A s \in PaperSymbols : d.long[s] - d.short[s] = b.acc.long[s] - b.acc.short[s] + Moved(o, s, In) - Moved(o, s, Out)
        /\ CommissionIsCovered /\ b.acc.cash >= 0 => d.cash >= 0
    <3>1. /\ b.acc \in AccountType /\ r \in Requests /\ quote \in PaperPrices
          /\ d = Paper!After(b.acc, r, quote) /\ o = Paper!Order(r, Paper!Outcome(b.acc, r, quote))
      BY <1>1, <2>2
    <3> HIDE DEF r, quote, d, o
    <3>2. Effect(b.acc, r, quote, d, o)
      BY <3>1, OrderEffect
    <3> QED
      BY <3>2 DEF Effect
  <2>4. /\ ql \in Seq(OrderType) /\ Len(ql) = Len(pl) /\ ql[n] = o
        /\ \A i \in 1..Len(pl) : i # n => ql[i] = b.placed[i]
    <3> HIDE DEF o
    <3> QED
      BY <1>1, <2>3, ExceptSeq
  <2>5. c.acc = d /\ c.placed = ql
    BY <2>1
  <2>6. o.status = "FILLED" <=> Paper!Outcome(b.acc, r, quote) = "FILLED"
    BY DEF Paper!Order
  <2> HIDE DEF o, ql, d
  <2>7. BookKept(c, pl)
    <3>1. ASSUME NEW s \in PaperSymbols
          PROVE  c.acc.long[s] - c.acc.short[s] = Flow(c.placed, s, In) - Flow(c.placed, s, Out)
      <4>1. /\ Flow(ql, s, In) = Flow(b.placed, s, In) + (Moved(o, s, In) - Moved(b.placed[n], s, In))
            /\ Flow(ql, s, Out) = Flow(b.placed, s, Out) + (Moved(o, s, Out) - Moved(b.placed[n], s, Out))
        <5>1. /\ b.placed \in Seq(OrderType) /\ Len(ql) = Len(b.placed) /\ n \in 1..Len(b.placed)
              /\ \A j \in 1..Len(b.placed) : j # n => ql[j] = b.placed[j]
          BY <1>1, <2>4
        <5>2. ql[n] = o /\ ql \in Seq(OrderType)
          BY <2>4
        <5> DEFINE bl == b.placed
        <5>3. bl \in Seq(OrderType) /\ Len(ql) = Len(bl) /\ n \in 1..Len(bl) /\ \A j \in 1..Len(bl) : j # n => ql[j] = bl[j]
          BY <5>1
        <5> HIDE DEF bl
        <5>4. ASSUME NEW sides
              PROVE  Flow(ql, s, sides) = Flow(bl, s, sides) + (Moved(ql[n], s, sides) - Moved(bl[n], s, sides))
          BY <5>2, <5>3, FlowMoves
        <5> QED
          BY <5>2, <5>4 DEF bl
      <4>2. Moved(b.placed[n], s, In) = 0 /\ Moved(b.placed[n], s, Out) = 0
        BY <1>4 DEF Moved
      <4>3. /\ Flow(b.placed, s, In) \in Int /\ Flow(b.placed, s, Out) \in Int
            /\ Moved(o, s, In) \in Nat /\ Moved(o, s, Out) \in Nat
        BY <1>1, <2>3, FlowType, MovedType
      <4>4. b.acc.long[s] - b.acc.short[s] = Flow(b.placed, s, In) - Flow(b.placed, s, Out)
        BY <1>2 DEF Stage, BookKept, Squared
      <4>5. d.long[s] - d.short[s] = b.acc.long[s] - b.acc.short[s] + Moved(o, s, In) - Moved(o, s, Out)
        BY <2>3
      <4>6. b.acc.long[s] \in Nat /\ b.acc.short[s] \in Nat
        BY <1>1, AccountIs
      <4> QED
        BY <2>5, <4>1, <4>2, <4>3, <4>4, <4>5, <4>6
    <3>2. CommissionIsCovered => c.acc.cash >= 0
      BY <1>2, <2>3, <2>5 DEF Stage, BookKept
    <3> QED
      BY <2>3, <2>4, <2>5, <3>1, <3>2 DEF BookKept, Squared
  <2>8. OrdersKept(c, n, pl, prices)
    <3>1. \A i \in (n + 1)..Len(pl) : i \in ((n - 1) + 1)..Len(pl) /\ i \in 1..Len(pl) /\ i # n
      BY <1>1
    <3>2. \A i \in 1..n : i = n \/ (i \in 1..(n - 1) /\ i \in 1..Len(pl) /\ i # n)
      BY <1>1
    <3>3. \A i \in 1..Len(pl) : c.placed[i].req = pl[i].req
      BY <1>1, <1>2, <2>3, <2>4, <2>5 DEF Stage, OrdersKept
    <3>4. \A i \in (n + 1)..Len(pl) : c.placed[i] = pl[i]
      BY <1>2, <2>4, <2>5, <3>1 DEF Stage, OrdersKept
    <3>5. ASSUME NEW i \in 1..n, c.placed[i].status = "OPEN", prices[c.placed[i].req.sym] # 0
          PROVE  ~Paper!Triggered(c.placed[i].req, prices[c.placed[i].req.sym])
      <4>1. CASE i = n
        BY <2>3, <2>4, <2>5, <3>5, <4>1 DEF x
      <4>2. CASE i # n
        <5>1. c.placed[i] = b.placed[i] /\ i \in 1..(n - 1)
          BY <2>4, <2>5, <3>2, <4>2
        <5> QED
          BY <1>2, <3>5, <5>1 DEF Stage, OrdersKept
      <4> QED
        BY <4>1, <4>2
    <3> QED
      BY <3>3, <3>4, <3>5 DEF OrdersKept
  <2>9. ValueKept(c, n, a, pl, prices)
    <3> DEFINE F == Filled(b, n - 1, pl)
               H == Filled(c, n, pl)
    <3>1. n \notin F /\ IsFiniteSet(F) /\ Cardinality(F) \in Nat
      <4>1. n - 1 \in Nat /\ n \notin 1..(n - 1)
        BY <1>1
      <4>2. n \notin F
        BY <4>1 DEF Filled
      <4> HIDE DEF F
      <4>3. IsFiniteSet(F) /\ Cardinality(F) \in Nat
        BY <4>1, FilledIsFinite DEF F
      <4> QED
        BY <4>2, <4>3
    <3>2. ASSUME NEW i \in 1..(n - 1) PROVE i \in F <=> i \in H
      <4>1. i \in 1..n /\ i \in 1..Len(pl) /\ i # n
        BY <1>1
      <4>2. c.placed[i] = b.placed[i]
        BY <2>4, <2>5, <4>1
      <4> QED
        BY <4>1, <4>2 DEF Filled
    <3>3. n \in H <=> o.status = "FILLED"
      BY <1>1, <1>4, <2>4, <2>5 DEF Filled
    <3>4. F \subseteq 1..(n - 1) /\ H \subseteq 1..n /\ (\A i \in 1..n : i = n \/ i \in 1..(n - 1))
      BY <1>1 DEF Filled
    <3> HIDE DEF F, H
    <3>5. H = IF o.status = "FILLED" THEN F \cup {n} ELSE F
      <4>1. \A i \in F : i \in H
        BY <3>2, <3>4
      <4>2. \A i \in H : i \in F \/ i = n
        BY <3>2, <3>4
      <4>3. CASE o.status = "FILLED"
        <5>1. H = F \cup {n}
          BY <3>3, <4>1, <4>2, <4>3
        <5> QED
          BY <4>3, <5>1
      <4>4. CASE o.status # "FILLED"
        <5>1. H = F
          BY <3>3, <4>1, <4>2, <4>4
        <5> QED
          BY <4>4, <5>1
      <4> QED
        BY <4>3, <4>4
    <3>6. (\A i \in F : pl[i].req.type # "STOP_LIMIT") => Value(b.acc, prices) = Value(a, prices) - Commission * Cardinality(F)
      BY <1>2 DEF Stage, ValueKept, F
    <3>7. CASE o.status # "FILLED"
      <4>1. H = F /\ c.acc = b.acc
        BY <2>3, <2>5, <3>5, <3>7
      <4> QED
        BY <3>6, <4>1 DEF ValueKept, H
    <3>8. CASE o.status = "FILLED"
      <4>1. H = F \cup {n}
        BY <3>5, <3>8
      <4>2. Cardinality(H) = Cardinality(F) + 1
        BY <3>1, <4>1, FS_AddElement
      <4>3. SUFFICES ASSUME \A i \in H : pl[i].req.type # "STOP_LIMIT"
                     PROVE  Value(c.acc, prices) = Value(a, prices) - Commission * Cardinality(H)
        BY DEF ValueKept, H
      <4>4. Value(b.acc, prices) = Value(a, prices) - Commission * Cardinality(F)
        BY <3>6, <4>1, <4>3
      <4>5. r.type # "STOP_LIMIT"
        BY <1>1, <4>1, <4>3
      <4>6. d = Paper!After(b.acc, r, prices[r.sym]) /\ prices[r.sym] \in PaperPrices
            /\ Paper!Outcome(b.acc, r, prices[r.sym]) = "FILLED"
        BY <2>2, <2>6, <3>8 DEF d, x
      <4>7. Value(d, prices) = Value(b.acc, prices) - Commission
        <5> HIDE DEF r, d
        <5> QED
          BY <1>1, <4>5, <4>6, FillKeepsValue
      <4>8. Value(a, prices) \in Int /\ Commission \in Nat
        BY <1>1, ValueType DEF PaperConstants
      <4> DEFINE k == Cardinality(F)
                 v == Commission * k
      <4>9. v \in Int /\ Commission * (k + 1) = v + Commission
        BY <3>1, <4>8
      <4> HIDE DEF v
      <4>10. Value(c.acc, prices) = Value(a, prices) - (v + Commission)
        BY <2>5, <4>4, <4>7, <4>8, <4>9 DEF v
      <4> QED
        BY <4>2, <4>9, <4>10
    <3> QED
      BY <3>7, <3>8
  <2> QED
    BY <2>7, <2>8, <2>9 DEF Stage
<1> QED
  BY <1>3, <1>4

Sound(a, pl) ==
  /\ a \in AccountType /\ pl \in Seq(OrderType)
  /\ Squared(a, pl)
  /\ CommissionIsCovered => a.cash >= 0

(* ... so all of them are.                                                  *)
LEMMA StagesHold ==
  ASSUME PaperConstants, NEW a, NEW pl, Sound(a, pl), NEW prices \in [PaperSymbols -> PaperPrices \cup {0}],
         NEW g, Run(g, a, pl, prices, Len(pl))
  PROVE  Stage(g[Len(pl)], Len(pl), a, pl, prices)
<1> DEFINE N == Len(pl)
           Good == {n \in 0..N : Stage(g[n], n, a, pl, prices)}
<1>1. N \in Nat /\ pl \in Seq(OrderType) /\ a \in AccountType
  BY LenProperties DEF Sound
<1>2. \A n \in 0..N : g[n] = IF n = 0 THEN [acc |-> a, placed |-> pl] ELSE Paper!Evaluate(g[n - 1], n, prices)
  BY DEF Run
<1>3. 0 \in Good
  <2> DEFINE b == g[0]
  <2>1. b = [acc |-> a, placed |-> pl] /\ 0 \in 0..N
    BY <1>1, <1>2
  <2>2. b.acc = a /\ b.placed = pl
    BY <2>1
  <2> HIDE DEF b
  <2>3. Filled(b, 0, pl) = {}
    BY DEF Filled
  <2>4. Value(a, prices) \in Int /\ Commission \in Nat
    <3>1. prices \in [PaperSymbols -> Nat]
      <4>1. \A p \in PaperPrices \cup {0} : p \in Nat
        BY DEF PaperConstants
      <4> QED
        BY <4>1
    <3> QED
      BY <1>1, <3>1, ValueType DEF PaperConstants
  <2>5. Value(b.acc, prices) = Value(a, prices) - Commission * Cardinality(Filled(b, 0, pl))
    <3>1. Cardinality(Filled(b, 0, pl)) = 0
      BY <2>3, FS_EmptySet
    <3> QED
      BY <2>2, <2>4, <3>1
  <2>6. ValueKept(b, 0, a, pl, prices)
    BY <2>5 DEF ValueKept
  <2>7. BookKept(b, pl) /\ OrdersKept(b, 0, pl, prices)
    BY <1>1, <2>2 DEF BookKept, OrdersKept, Sound
  <2> QED
    BY <2>1, <2>6, <2>7 DEF Stage, b
<1>4. ASSUME NEW n \in 1..N, n - 1 \in Good PROVE n \in Good
  <2>1. n \in 0..N /\ g[n] = Paper!Evaluate(g[n - 1], n, prices)
    BY <1>1, <1>2
  <2>2. Stage(g[n - 1], n - 1, a, pl, prices)
    BY <1>4
  <2>3. Stage(g[n], n, a, pl, prices)
    BY <1>1, <2>1, <2>2, StageSteps
  <2> QED
    BY <2>1, <2>3
<1> HIDE DEF Good
<1>5. Good \in SUBSET (0..N)
  BY DEF Good
<1>6. \A n \in 1..N : n - 1 \in Good => n \in Good
  BY <1>4
<1> HIDE DEF N
<1>7. N \in Nat
  BY <1>1
<1>8. \A n \in 0..N : n \in Good
  BY <1>3, <1>5, <1>6, <1>7, IntervalInduction
<1>9. N \in Good
  BY <1>7, <1>8
<1> QED
  BY <1>9 DEF Good, N

-----------------------------------------------------------------------------
(* The paper broker: the invariant. *)

PaperInv ==
  /\ Sound(Paper!Account, placed)
  /\ Sound(Paper!Restored, saved.placed)
  /\ price \in [PaperSymbols -> PaperPrices \cup {0}]
  /\ Paper!RestsUntriggered

(* The invariant gives what the run checks.                                 *)
LEMMA PaperIsSound ==
  ASSUME PaperConstants, PaperInv, CommissionIsCovered
  PROVE  Paper!AccountSound
<1>1. placed \in Seq(OrderType) /\ Paper!Account \in AccountType /\ Paper!Account.cash >= 0 /\ Squared(Paper!Account, placed)
  BY DEF PaperInv, Sound
<1>2. Paper!Account.cash = cash /\ Paper!Account.long = long /\ Paper!Account.short = short
  BY DEF Paper!Account
<1>3. Paper!NeverOverdrawn
  BY <1>1, <1>2, AccountIs DEF Paper!NeverOverdrawn
<1>4. Paper!PositionsAreFills
  <2>1. ASSUME NEW s \in PaperSymbols
        PROVE  long[s] - short[s] =
                 Paper!Quantity(Paper!FilledOf(s, {"BUY", "BUY_TO_COVER"})) - Paper!Quantity(Paper!FilledOf(s, {"SELL", "SELL_SHORT"}))
    <3>1. /\ Paper!Quantity(Paper!FilledOf(s, In)) = Flow(placed, s, In)
          /\ Paper!Quantity(Paper!FilledOf(s, Out)) = Flow(placed, s, Out)
      BY <1>1, QuantityIsFlow
    <3>2. long[s] - short[s] = Flow(placed, s, In) - Flow(placed, s, Out)
      BY <1>1, <1>2 DEF Squared
    <3> QED
      BY <3>1, <3>2 DEF In, Out
  <2> QED
    BY <2>1 DEF Paper!PositionsAreFills
<1> QED
  BY <1>3, <1>4 DEF Paper!AccountSound, PaperInv

(* The account begins with its cash, and a state file that says so.         *)
LEMMA PaperBegins ==
  ASSUME PaperConstants, Paper!Init
  PROVE  PaperInv
<1> DEFINE z == [s \in PaperSymbols |-> 0]
           a == [cash |-> PaperCash, long |-> z, short |-> z]
           pl == <<>>
<1>1. Paper!Account = a /\ placed = <<>> /\ price = z
  BY DEF Paper!Init, Paper!Account, Paper!NoPositions
<1>2. Paper!Restored = a /\ saved.placed = <<>>
  <2>1. saved = [cash |-> PaperCash, long |-> z, short |-> z, placed |-> <<>>]
    BY DEF Paper!Init, Paper!NoPositions
  <2>2. saved.cash = PaperCash /\ saved.long = z /\ saved.short = z /\ saved.placed = <<>>
    BY <2>1
  <2> QED
    BY <2>2 DEF Paper!Restored
<1>3. Sound(a, pl)
  <2>1. a \in AccountType /\ pl \in Seq(OrderType) /\ a.cash >= 0
    BY DEF AccountType, PaperConstants
  <2>2. ASSUME NEW s, NEW sides PROVE Flow(pl, s, sides) = 0
    <3>1. DOMAIN pl = {}
      OBVIOUS
    <3> HIDE DEF pl
    <3> QED
      BY <3>1, SumEmpty DEF Flow
  <2>3. \A s \in PaperSymbols : a.long[s] - a.short[s] = 0
    OBVIOUS
  <2>4. Squared(a, pl)
    <3> HIDE DEF a, pl
    <3> QED
      BY <2>2, <2>3 DEF Squared
  <2> QED
    BY <2>1, <2>4 DEF Sound
<1>4. price \in [PaperSymbols -> PaperPrices \cup {0}]
  BY <1>1
<1>5. Paper!RestsUntriggered
  <2>1. DOMAIN placed = {}
    BY <1>1
  <2> QED
    BY <2>1 DEF Paper!RestsUntriggered
<1> HIDE DEF a
<1> QED
  BY <1>1, <1>2, <1>3, <1>4, <1>5 DEF PaperInv

-----------------------------------------------------------------------------
(* The paper broker: its steps. *)

(* The account of the next state is the record the action says it becomes.  *)
LEMMA Becoming ==
  ASSUME NEW a \in AccountType, Paper!Becomes(a)
  PROVE  Paper!Account' = a
<1>1. a = [cash |-> a.cash, long |-> a.long, short |-> a.short]
  BY DEF AccountType
<1>2. cash' = a.cash /\ long' = a.long /\ short' = a.short
  BY DEF Paper!Becomes
<1> QED
  BY <1>1, <1>2 DEF Paper!Account

(* A state file that is not written still restores a sound account.         *)
LEMMA SavedStays ==
  ASSUME PaperInv, UNCHANGED saved
  PROVE  Sound(Paper!Restored', saved'.placed)
BY DEF PaperInv, Paper!Restored

(* An order is placed, and filled, refused or left resting.                 *)
LEMMA PaperPlaces ==
  ASSUME PaperConstants, PaperInv, NEW r \in Requests, Paper!PlaceOrder(r)
  PROVE  PaperInv' /\ Paper!Neutral
<1> DEFINE a == Paper!Account
           quote == price[r.sym]
           b == Paper!After(a, r, quote)
           o == Paper!Order(r, Paper!Outcome(a, r, quote))
           N == Len(placed)
<1>1. /\ a \in AccountType /\ placed \in Seq(OrderType) /\ Squared(a, placed) /\ (CommissionIsCovered => a.cash >= 0)
      /\ price \in [PaperSymbols -> PaperPrices \cup {0}]
  BY DEF PaperInv, Sound
<1>2. /\ price[r.sym] # 0 /\ placed' = Append(placed, o) /\ Paper!Becomes(b) /\ price' = price /\ saved' = saved
      /\ known' = known \cup {N + 1}
  BY DEF Paper!PlaceOrder
<1>3. quote \in PaperPrices /\ r.sym \in PaperSymbols
  BY <1>1, <1>2, RequestIs
<1>4. Effect(a, r, quote, b, o)
  <2>1. b = Paper!After(a, r, quote) /\ o = Paper!Order(r, Paper!Outcome(a, r, quote))
    OBVIOUS
  <2> HIDE DEF a, b, o, quote
  <2> QED
    BY <1>1, <1>3, <2>1, OrderEffect
<1>5. o.status = "FILLED" <=> Paper!Outcome(a, r, quote) = "FILLED"
  BY DEF Paper!Order
<1> HIDE DEF b, o, N, a, quote
<1>6. /\ b \in AccountType /\ o \in OrderType /\ o.req = r
      /\ o.status = "OPEN" => ~Paper!Triggered(r, quote)
      /\ o.status # "FILLED" => b = a
      /\ \A s \in PaperSymbols : b.long[s] - b.short[s] = a.long[s] - a.short[s] + Moved(o, s, In) - Moved(o, s, Out)
      /\ CommissionIsCovered /\ a.cash >= 0 => b.cash >= 0
  BY <1>4 DEF Effect
<1>7. Paper!Account' = b
  BY <1>2, <1>6, Becoming
<1>8. /\ placed' \in Seq(OrderType) /\ Len(placed') = N + 1 /\ placed'[N + 1] = o /\ N \in Nat
      /\ (\A i \in 1..N : placed'[i] = placed[i])
      /\ DOMAIN placed = 1..N /\ DOMAIN placed' = 1..(N + 1)
  BY <1>1, <1>2, <1>6, AppendProperties, LenProperties DEF N
<1>9. Sound(b, placed')
  <2>1. ASSUME NEW s \in PaperSymbols
        PROVE  b.long[s] - b.short[s] = Flow(placed', s, In) - Flow(placed', s, Out)
    <3>1. /\ Flow(Append(placed, o), s, In) = Flow(placed, s, In) + Moved(o, s, In)
          /\ Flow(Append(placed, o), s, Out) = Flow(placed, s, Out) + Moved(o, s, Out)
      BY <1>1, <1>6, FlowAppends
    <3>2. /\ Flow(placed, s, In) \in Int /\ Flow(placed, s, Out) \in Int
          /\ Moved(o, s, In) \in Nat /\ Moved(o, s, Out) \in Nat
      BY <1>1, <1>6, FlowType, MovedType
    <3>3. a.long[s] - a.short[s] = Flow(placed, s, In) - Flow(placed, s, Out)
      BY <1>1 DEF Squared
    <3>4. b.long[s] - b.short[s] = a.long[s] - a.short[s] + Moved(o, s, In) - Moved(o, s, Out)
      BY <1>6
    <3> QED
      BY <1>2, <3>1, <3>2, <3>3, <3>4
  <2> QED
    BY <1>1, <1>6, <1>8, <2>1 DEF Sound, Squared
<1>10. Sound(Paper!Restored', saved'.placed)
  BY <1>2, SavedStays
<1>11. Paper!RestsUntriggered'
  <2>1. ASSUME NEW i \in 1..(N + 1), placed'[i].status = "OPEN", price[placed'[i].req.sym] # 0
        PROVE  ~Paper!Triggered(placed'[i].req, price[placed'[i].req.sym])
    <3>1. CASE i = N + 1
      BY <1>6, <1>8, <2>1, <3>1 DEF quote
    <3>2. CASE i # N + 1
      <4>1. i \in 1..N /\ placed'[i] = placed[i]
        BY <1>8, <3>2
      <4> QED
        BY <1>8, <2>1, <4>1 DEF PaperInv, Paper!RestsUntriggered
    <3> QED
      BY <3>1, <3>2
  <2> QED
    BY <1>2, <1>8, <2>1 DEF Paper!RestsUntriggered
<1>12. PaperInv'
  BY <1>1, <1>2, <1>7, <1>9, <1>10, <1>11 DEF PaperInv
<1>13. Paper!Neutral
  <2> DEFINE new == {i \in DOMAIN placed' : placed'[i].status = "FILLED" /\ (i \in DOMAIN placed => placed[i].status # "FILLED")}
  <2>1. SUFFICES ASSUME \A i \in new : placed'[i].req.type # "STOP_LIMIT"
                 PROVE  Value(b, price) = Value(a, price) - Commission * Cardinality(new)
    <3>1. b.cash = cash' /\ b.long = long' /\ b.short = short'
      BY <1>2 DEF Paper!Becomes
    <3>2. a.cash = cash /\ a.long = long /\ a.short = short
      BY DEF a, Paper!Account
    <3> QED
      BY <1>2, <3>1, <3>2, PaperCardinality DEF Paper!Neutral, Value
  <2>2. Value(a, price) \in Int /\ Commission \in Nat /\ price \in [PaperSymbols -> Nat]
    <3>1. price \in [PaperSymbols -> Nat]
      <4>1. \A p \in PaperPrices \cup {0} : p \in Nat
        BY DEF PaperConstants
      <4> QED
        BY <1>1, <4>1
    <3> QED
      BY <1>1, <3>1, ValueType DEF PaperConstants
  <2>3. \A i \in 1..N : i \notin new
    BY <1>8
  <2>4. N + 1 \in new <=> o.status = "FILLED"
    BY <1>8
  <2>5. \A i \in new : i \in 1..N \/ i = N + 1
    BY <1>8
  <2>6. CASE o.status # "FILLED"
    <3>1. new = {}
      <4> HIDE DEF new
      <4> QED
        BY <2>3, <2>4, <2>5, <2>6
    <3> HIDE DEF new
    <3>2. Cardinality(new) = 0 /\ b = a
      BY <1>6, <2>6, <3>1, FS_EmptySet
    <3> QED
      BY <2>2, <3>2
  <2>7. CASE o.status = "FILLED"
    <3>1. new = {N + 1} /\ placed'[N + 1].req = r
      <4>1. placed'[N + 1].req = r
        BY <1>6, <1>8
      <4> HIDE DEF new
      <4> QED
        BY <2>3, <2>4, <2>5, <2>7, <4>1
    <3> HIDE DEF new
    <3>2. Cardinality(new) = 1 /\ r.type # "STOP_LIMIT"
      BY <2>1, <3>1, FS_Singleton
    <3>3. b = Paper!After(a, r, price[r.sym]) /\ price[r.sym] \in PaperPrices /\ Paper!Outcome(a, r, price[r.sym]) = "FILLED"
      BY <1>3, <1>5, <2>7 DEF b, quote
    <3>4. Value(b, price) = Value(a, price) - Commission
      BY <1>1, <2>2, <3>2, <3>3, FillKeepsValue
    <3> QED
      BY <2>2, <3>2, <3>4
  <2> QED
    BY <2>6, <2>7
<1> QED
  BY <1>12, <1>13

(* Prices are natural numbers.                                              *)
LEMMA PricesType ==
  ASSUME PaperConstants, NEW q \in [PaperSymbols -> PaperPrices \cup {0}]
  PROVE  q \in [PaperSymbols -> Nat]
<1>1. \A p \in PaperPrices \cup {0} : p \in Nat
  BY DEF PaperConstants
<1> QED
  BY <1>1

(* A price comes and the open orders are evaluated.                         *)
LEMMA PaperUpdates ==
  ASSUME PaperConstants, PaperInv, NEW quoted \in SUBSET PaperSymbols, NEW quotes \in [quoted -> PaperPrices],
         Paper!UpdatePrices(quotes)
  PROVE  PaperInv' /\ Paper!Neutral
<1> DEFINE a == Paper!Account
           prices == Paper!EvaluatedAt(quotes)
           N == Len(placed)
           b == Paper!Processed(prices)[N]
<1>1. /\ a \in AccountType /\ placed \in Seq(OrderType) /\ Sound(a, placed) /\ N \in Nat
      /\ price \in [PaperSymbols -> PaperPrices \cup {0}]
  BY LenProperties DEF PaperInv, Sound
<1>2. prices \in [PaperSymbols -> PaperPrices \cup {0}] /\ prices \in [PaperSymbols -> Nat]
  <2>1. prices \in [PaperSymbols -> PaperPrices \cup {0}]
    BY <1>1 DEF Paper!EvaluatedAt
  <2> HIDE DEF prices
  <2> QED
    BY <2>1, PricesType
<1>3. price' = prices /\ Paper!Becomes(b.acc) /\ placed' = b.placed /\ saved' = saved
  BY DEF Paper!UpdatePrices, Paper!EvaluatedAt
<1>4. Stage(b, N, a, placed, prices)
  <2> DEFINE g == Paper!Processed(prices)
  <2> HIDE DEF prices
  <2>1. Run(g, a, placed, prices, N)
    BY <1>1, ProcessedUnfolds
  <2> HIDE DEF g, a
  <2>2. Stage(g[N], N, a, placed, prices)
    BY <1>1, <1>2, <2>1, StagesHold
  <2> QED
    BY <2>2 DEF g, a
<1> HIDE DEF b, prices, N, a
<1>5. /\ b.acc \in AccountType /\ b.placed \in Seq(OrderType) /\ Len(b.placed) = N
      /\ Squared(b.acc, b.placed) /\ (CommissionIsCovered => b.acc.cash >= 0)
      /\ \A i \in 1..N : b.placed[i].req = placed[i].req
      /\ \A i \in 1..N : b.placed[i].status = "OPEN" /\ prices[b.placed[i].req.sym] # 0
           => ~Paper!Triggered(b.placed[i].req, prices[b.placed[i].req.sym])
  BY <1>4 DEF Stage, BookKept, OrdersKept, N
<1>6. Paper!Account' = b.acc
  BY <1>3, <1>5, Becoming
<1>7. Sound(Paper!Account', placed')
  BY <1>3, <1>5, <1>6 DEF Sound
<1>8. Sound(Paper!Restored', saved'.placed)
  BY <1>3, SavedStays
<1>9. DOMAIN placed' = 1..N /\ DOMAIN placed = 1..N
  BY <1>1, <1>3, <1>5, LenProperties DEF N
<1>10. Paper!RestsUntriggered'
  BY <1>3, <1>5, <1>9 DEF Paper!RestsUntriggered
<1>11. PaperInv'
  BY <1>2, <1>3, <1>7, <1>8, <1>10 DEF PaperInv
<1>12. Paper!Neutral
  <2> DEFINE new == {i \in DOMAIN placed' : placed'[i].status = "FILLED" /\ (i \in DOMAIN placed => placed[i].status # "FILLED")}
  <2>1. new = Filled(b, N, placed)
    BY <1>3, <1>9 DEF Filled
  <2>2. SUFFICES ASSUME \A i \in new : placed'[i].req.type # "STOP_LIMIT"
                 PROVE  Value(b.acc, prices) = Value(a, prices) - Commission * Cardinality(new)
    <3>1. b.acc.cash = cash' /\ b.acc.long = long' /\ b.acc.short = short'
      BY <1>3 DEF Paper!Becomes
    <3>2. a.cash = cash /\ a.long = long /\ a.short = short
      BY DEF a, Paper!Account
    <3> QED
      BY <1>3, <3>1, <3>2, PaperCardinality DEF Paper!Neutral, Value
  <2>3. ASSUME NEW i \in new PROVE placed[i].req.type # "STOP_LIMIT"
    BY <1>3, <1>5, <1>9, <2>2
  <2> HIDE DEF new
  <2> QED
    BY <1>4, <2>1, <2>3 DEF Stage, ValueKept
<1> QED
  BY <1>11, <1>12

(* An open order is cancelled.                                              *)
LEMMA PaperCancels ==
  ASSUME PaperConstants, PaperInv, NEW i \in 1..Len(placed), Paper!CancelOrder(i)
  PROVE  PaperInv' /\ Paper!Neutral
<1> DEFINE o == Paper!Order(placed[i].req, "CANCELLED")
           N == Len(placed)
           a == Paper!Account
<1>1. /\ placed \in Seq(OrderType) /\ a \in AccountType /\ Squared(a, placed) /\ (CommissionIsCovered => a.cash >= 0)
      /\ price \in [PaperSymbols -> PaperPrices \cup {0}]
  BY DEF PaperInv, Sound
<1>2. /\ placed[i].status = "OPEN" /\ placed' = [placed EXCEPT ![i] = o]
      /\ cash' = cash /\ long' = long /\ short' = short /\ price' = price /\ saved' = saved
  BY DEF Paper!CancelOrder, Paper!account
<1>3. o \in OrderType /\ o.status = "CANCELLED"
  <2>1. placed[i] \in OrderType
    BY <1>1, ElementOfSeq
  <2> QED
    BY <2>1 DEF OrderType, Paper!Order
<1> HIDE DEF o
<1>4. /\ placed' \in Seq(OrderType) /\ Len(placed') = N /\ placed'[i] = o /\ (\A j \in 1..N : j # i => placed'[j] = placed[j])
      /\ DOMAIN placed = 1..N /\ DOMAIN placed' = 1..N
  BY <1>1, <1>2, <1>3, ExceptSeq, LenProperties
<1>5. Paper!Account' = a
  BY <1>2 DEF Paper!Account
<1> HIDE DEF a
<1>6. ASSUME NEW s, NEW sides PROVE Flow(placed', s, sides) = Flow(placed, s, sides)
  <2>1. Flow(placed', s, sides) = Flow(placed, s, sides) + (Moved(placed'[i], s, sides) - Moved(placed[i], s, sides))
    BY <1>1, <1>4, FlowMoves
  <2>2. Moved(placed'[i], s, sides) = 0 /\ Moved(placed[i], s, sides) = 0
    BY <1>2, <1>3, <1>4 DEF Moved
  <2>3. Flow(placed, s, sides) \in Int
    BY <1>1, FlowType
  <2> QED
    BY <2>1, <2>2, <2>3
<1>7. Sound(a, placed')
  BY <1>1, <1>4, <1>6 DEF Sound, Squared
<1>8. Sound(Paper!Restored', saved'.placed)
  BY <1>2, SavedStays
<1>9. Paper!RestsUntriggered'
  BY <1>2, <1>3, <1>4 DEF PaperInv, Paper!RestsUntriggered
<1>10. PaperInv'
  BY <1>1, <1>2, <1>5, <1>7, <1>8, <1>9 DEF PaperInv
<1>11. Paper!Neutral
  <2> DEFINE new == {j \in DOMAIN placed' : placed'[j].status = "FILLED" /\ (j \in DOMAIN placed => placed[j].status # "FILLED")}
  <2>1. new = {}
    BY <1>3, <1>4
  <2> HIDE DEF new
  <2>2. Cardinality(new) = 0
    BY <2>1, FS_EmptySet
  <2>3. Value(a, price) \in Int /\ Commission \in Nat
    BY <1>1, PricesType, ValueType DEF PaperConstants
  <2>4. Value(a, price) = Value(a, price) - Commission * Cardinality(new)
    BY <2>2, <2>3
  <2>5. a.cash = cash /\ a.long = long /\ a.short = short
    BY DEF a, Paper!Account
  <2> QED
    BY <1>2, <2>4, <2>5, PaperCardinality DEF Paper!Neutral, Value, new
<1> QED
  BY <1>10, <1>11

(* The account is written to the state file.                                *)
LEMMA PaperSaves ==
  ASSUME PaperConstants, PaperInv, Paper!SaveState
  PROVE  PaperInv' /\ Paper!Neutral
<1> DEFINE a == Paper!Account
<1>1. /\ saved' = [cash |-> cash, long |-> long, short |-> short, placed |-> placed]
      /\ cash' = cash /\ long' = long /\ short' = short /\ price' = price /\ placed' = placed
  BY DEF Paper!SaveState, Paper!account
<1>2. saved'.cash = cash /\ saved'.long = long /\ saved'.short = short /\ saved'.placed = placed
  BY <1>1
<1>3. Paper!Restored' = a /\ Paper!Account' = a
  BY <1>1, <1>2 DEF Paper!Account, Paper!Restored
<1>4. /\ Sound(a, placed) /\ a \in AccountType /\ price \in [PaperSymbols -> PaperPrices \cup {0}] /\ Paper!RestsUntriggered
  BY DEF PaperInv, Sound
<1>5. Paper!RestsUntriggered'
  BY <1>1, <1>4 DEF Paper!RestsUntriggered
<1>6. PaperInv'
  BY <1>1, <1>2, <1>3, <1>4, <1>5 DEF PaperInv
<1>7. Paper!Neutral
  <2> DEFINE new == {j \in DOMAIN placed' : placed'[j].status = "FILLED" /\ (j \in DOMAIN placed => placed[j].status # "FILLED")}
  <2>1. new = {}
    BY <1>1
  <2> HIDE DEF new, a
  <2>2. Cardinality(new) = 0
    BY <2>1, FS_EmptySet
  <2>3. Value(a, price) \in Int /\ Commission \in Nat
    BY <1>4, PricesType, ValueType DEF PaperConstants
  <2>4. Value(a, price) = Value(a, price) - Commission * Cardinality(new)
    BY <2>2, <2>3
  <2>5. a.cash = cash /\ a.long = long /\ a.short = short
    BY DEF a, Paper!Account
  <2> QED
    BY <1>1, <2>4, <2>5, PaperCardinality DEF Paper!Neutral, Value, new
<1> QED
  BY <1>6, <1>7

(* The account is read from the state file.                                 *)
LEMMA PaperLoads ==
  ASSUME PaperConstants, PaperInv, Paper!LoadState
  PROVE  PaperInv' /\ Paper!Neutral
<1> DEFINE a == Paper!Restored
<1>1. /\ Paper!Becomes(a) /\ placed' = saved.placed /\ saved' = saved /\ known' = {}
      /\ price' = [s \in PaperSymbols |-> 0]
  BY DEF Paper!LoadState, Paper!NoPositions
<1>2. Sound(a, saved.placed) /\ a \in AccountType
  BY DEF PaperInv, Sound
<1> HIDE DEF a
<1>3. Paper!Account' = a
  BY <1>1, <1>2, Becoming
<1>4. Sound(Paper!Restored', saved'.placed)
  BY <1>1, SavedStays
<1>5. Paper!RestsUntriggered'
  <2>1. saved.placed \in Seq(OrderType) /\ \A i \in DOMAIN saved.placed : saved.placed[i].req.sym \in PaperSymbols
    <3>1. saved.placed \in Seq(OrderType)
      BY <1>2 DEF Sound
    <3>2. ASSUME NEW i \in DOMAIN saved.placed PROVE saved.placed[i].req.sym \in PaperSymbols
      <4>1. saved.placed[i] \in OrderType
        BY <3>1, ElementOfSeq, LenProperties
      <4>2. saved.placed[i].req \in Requests
        BY <4>1 DEF OrderType
      <4> QED
        BY <4>2, RequestIs
    <3> QED
      BY <3>1, <3>2
  <2>2. \A s \in PaperSymbols : price'[s] = 0
    BY <1>1
  <2> QED
    BY <1>1, <2>1, <2>2 DEF Paper!RestsUntriggered
<1>6. price' \in [PaperSymbols -> PaperPrices \cup {0}]
  BY <1>1
<1>7. PaperInv'
  BY <1>1, <1>2, <1>3, <1>4, <1>5, <1>6 DEF PaperInv
<1>8. Paper!Neutral
  BY <1>1 DEF Paper!Neutral
<1> QED
  BY <1>7, <1>8

(* Nothing changes.                                                         *)
LEMMA PaperStays ==
  ASSUME PaperInv, UNCHANGED Paper!vars
  PROVE  PaperInv'
<1>1. cash' = cash /\ long' = long /\ short' = short /\ price' = price /\ placed' = placed /\ saved' = saved
  BY DEF Paper!vars, Paper!account
<1>2. Paper!Account' = Paper!Account /\ Paper!Restored' = Paper!Restored
  BY <1>1 DEF Paper!Account, Paper!Restored
<1> QED
  BY <1>1, <1>2 DEF PaperInv, Paper!RestsUntriggered

(* Every step keeps the invariant, and creates no value.                    *)
LEMMA PaperSteps ==
  ASSUME PaperConstants, PaperInv, Paper!Next
  PROVE  PaperInv' /\ Paper!Neutral
BY PaperPlaces, PaperUpdates, PaperCancels, PaperSaves, PaperLoads DEF Paper!Next

(* A behaviour of the paper part is one of the paper broker.                *)
LEMMA OnlyPaperRuns ==
  /\ BooksInit /\ part = "paper" => Paper!Init
  /\ [BooksNext]_books /\ part' = "paper" => part = "paper" /\ [Paper!Next]_(Paper!vars)
  /\ BooksNext /\ part = "paper" => Paper!Next
<1>1. BooksInit /\ part = "paper" => Paper!Init
  BY DEF BooksInit
<1>2. ASSUME BooksNext, part' = "paper" \/ part = "paper" PROVE part = "paper" /\ Paper!Next
  BY <1>2 DEF BooksNext, LedgerRuns, PaperRuns, BacktestRuns, RunnerRuns, ExposureRuns
<1>3. ASSUME UNCHANGED books, part' = "paper" PROVE part = "paper" /\ UNCHANGED Paper!vars
  BY <1>3 DEF books, shared, paper, Paper!vars, Paper!account
<1> QED
  BY <1>1, <1>2, <1>3

(* The invariant holds in every behaviour of the paper part.                *)
LEMMA PaperAlways == BooksSpec => [](part = "paper" => PaperInv)
<1>1. BooksInit => (part = "paper" => PaperInv)
  BY OnlyPaperRuns, PaperBegins, PaperConstants
<1>2. (part = "paper" => PaperInv) /\ [BooksNext]_books => (part = "paper" => PaperInv)'
  BY OnlyPaperRuns, PaperSteps, PaperStays, PaperConstants
<1> QED
  BY <1>1, <1>2, PTL DEF BooksSpec

(* PaperBroker, whatever is ordered and wherever prices go, where a share   *)
(* sold brings its commission: the account is never overdrawn nor a book    *)
(* negative, the books are what the filled orders bought and sold, and no   *)
(* order rests that the last price fills, through any crash and restore.    *)
THEOREM AccountIsSound ==
  ASSUME CommissionIsCovered
  PROVE  BooksSpec => []AccountSound
<1>1. (part = "paper" => PaperInv) => AccountSound
  BY PaperIsSound, PaperConstants DEF AccountSound
<1> QED
  BY <1>1, PaperAlways, PTL

(* PaperBroker: what an order fills at a price moves value between the cash *)
(* and the books and costs the commission, however many orders one price    *)
(* fills.                                                                   *)
THEOREM NoFillCreatesValue == BooksSpec => FillsAreNeutral
<1>1. (part = "paper" => PaperInv) /\ [BooksNext]_books => [part = "paper" => Paper!Neutral]_books
  BY OnlyPaperRuns, PaperSteps, PaperConstants
<1> QED
  BY <1>1, PaperAlways, PTL DEF BooksSpec, FillsAreNeutral


-----------------------------------------------------------------------------
(* The honest runner: types. *)

Exit(o) == o.side \in {"SELL", "BUY_TO_COVER"}

RunnerOrder ==
  [sym : RunnerSymbols, side : {"BUY", "SELL_SHORT"}, qty : Nat \ {0}]
    \cup [sym : RunnerSymbols, side : {"SELL", "BUY_TO_COVER"}, qty : Int]

RunnerPosition == [qty : Int, value : Int, fees : Int]

RunnerTyping ==
  /\ setup \in Setups /\ phase \in {"open", "decide"}
  /\ rows \in [RunnerSymbols -> Rows \cup {Runner!NoRow}]
  /\ queue \in Seq(RunnerOrder) /\ pending \in Seq(RunnerOrder)
  /\ (phase = "decide" => queue = <<>>) /\ (phase = "open" => undecided = {})
  /\ \A s \in undecided : s \in RunnerSymbols /\ rows[s] # Runner!NoRow /\ close[s] # 0
  /\ cash \in Int /\ profit \in Int /\ borrowed \in Int /\ miscounted \in Int
  /\ position \in [RunnerSymbols -> RunnerPosition]
  /\ close \in [RunnerSymbols -> Nat]

(* What waits and what is held.  An entry is of the direction held; an exit *)
(* closes part of what is held, unless it is of the other direction; no two *)
(* orders of a symbol are both exits, or entries of two directions.         *)
Fits(o, q) ==
  /\ o.side = "BUY" => q >= 0
  /\ o.side = "SELL_SHORT" => q <= 0
  /\ Exit(o) => q # 0
  /\ o.side = "SELL" /\ q > 0 => o.qty >= 1 /\ o.qty <= q
  /\ o.side = "BUY_TO_COVER" /\ q < 0 => o.qty >= 1 /\ o.qty <= -q

Apart(o, w) == o.sym = w.sym => (Exit(o) <=> ~Exit(w)) \/ (~Exit(o) /\ o.side = w.side)

(* Where the bar has a row and the strategy has not decided, only remainders *)
(* wait for the next bar, of positions that an exit still to come leaves    *)
(* shares of.                                                               *)
Settled(s) == rows[s] # Runner!NoRow /\ (phase = "open" \/ s \in undecided)

Spares(o, q) ==
  /\ o.side = "SELL" /\ q > 0 => o.qty < q
  /\ o.side = "BUY_TO_COVER" /\ q < 0 => o.qty < -q

Shares(s) == position[s].qty

RunnerOrders ==
  /\ \A i \in DOMAIN queue : Fits(queue[i], Shares(queue[i].sym))
  /\ \A i \in DOMAIN pending : Fits(pending[i], Shares(pending[i].sym))
  /\ \A i, j \in DOMAIN queue : i # j => Apart(queue[i], queue[j])
  /\ \A i, j \in DOMAIN pending : i # j => Apart(pending[i], pending[j])
  /\ \A i \in DOMAIN queue, j \in DOMAIN pending : Apart(queue[i], pending[j])
  /\ \A j \in DOMAIN pending : Settled(pending[j].sym) =>
       /\ ~Exit(pending[j]) /\ Shares(pending[j].sym) # 0
       /\ \A i \in DOMAIN queue : queue[i].sym = pending[j].sym => Spares(queue[i], Shares(queue[i].sym))

(* The parts of an order of the runner.                                     *)
LEMMA OrderIs ==
  ASSUME NEW o \in RunnerOrder
  PROVE  /\ o.sym \in RunnerSymbols /\ o.qty \in Int
         /\ o.side \in {"BUY", "SELL_SHORT", "SELL", "BUY_TO_COVER"}
         /\ ~Exit(o) <=> Runner!Entry(o.side)
         /\ ~Exit(o) => o.qty \in Nat \ {0} /\ o.side \in {"BUY", "SELL_SHORT"}
         /\ o = [sym |-> o.sym, side |-> o.side, qty |-> o.qty]
BY DEF RunnerOrder, Exit, Runner!Entry

(* The parts of a position.                                                 *)
LEMMA PositionIs ==
  ASSUME RunnerTyping, NEW s \in RunnerSymbols
  PROVE  /\ position[s] \in RunnerPosition
         /\ position[s].qty \in Int /\ position[s].value \in Int /\ position[s].fees \in Int
BY DEF RunnerTyping, RunnerPosition

(* The parts of a row that is there.                                        *)
LEMMA RowIs ==
  ASSUME RunnerConstants, RunnerTyping, NEW s \in RunnerSymbols, rows[s] # Runner!NoRow
  PROVE  /\ rows[s] \in Rows /\ rows[s].open \in Nat \ {0} /\ rows[s].close \in Nat \ {0}
         /\ rows[s].cap \in Nat /\ rows[s].atr \in Nat
<1>1. rows[s] \in Rows
  BY DEF RunnerTyping
<1> QED
  BY <1>1 DEF RunnerConstants

(* A division by a positive number.                                         *)
LEMMA Quotients ==
  ASSUME NEW a \in Int, NEW b \in Nat \ {0}
  PROVE  a \div b \in Int
OBVIOUS

(* What the cash pays for is an integer.                                    *)
LEMMA PaidType ==
  ASSUME NEW q \in Nat, NEW p \in Nat \ {0}, cash \in Int, Fee \in Nat
  PROVE  Runner!Paid(q, p) \in Int
BY Quotients DEF Runner!Paid

(* What one order does at an open.                                          *)
LEMMA FillSplits ==
  ASSUME BacktestConstants, RunnerConstants, RunnerTyping, RunnerOrders, Runner!Fill, NEW o, o = Head(queue)
  PROVE  /\ queue # <<>> /\ o \in RunnerOrder /\ Fits(o, Shares(o.sym)) /\ phase = "open" /\ queue' = Tail(queue)
         /\ UNCHANGED <<setup, bar, phase, rows, undecided, close, borrowed>>
         /\ \/ /\ rows[o.sym] = Runner!NoRow /\ pending' = Append(pending, o)
               /\ UNCHANGED <<cash, position, profit, miscounted, belief, stray>>
            \/ rows[o.sym] # Runner!NoRow /\ UNCHANGED <<cash, position, profit, miscounted, pending, belief, stray>>
            \/ /\ rows[o.sym] # Runner!NoRow /\ ~Exit(o)
               /\ \E k \in Nat \ {0}, p \in Nat : Runner!Adds(o, k, p)
            \/ /\ rows[o.sym] # Runner!NoRow
               /\ (o.side = "SELL" /\ position[o.sym].qty > 0) \/ (o.side = "BUY_TO_COVER" /\ position[o.sym].qty < 0)
               /\ \E p \in Nat : Runner!Closes(o, p, Runner!Sold(o))
<1> DEFINE s == o.sym
           row == rows[s]
           q == position[s].qty
           p == Runner!FillPrice(o.side, row)
<1>1. /\ phase = "open" /\ queue # <<>> /\ queue' = Tail(queue)
      /\ UNCHANGED <<setup, bar, phase, rows, undecided, close, borrowed>>
      /\ \/ row = Runner!NoRow /\ pending' = Append(pending, o) /\ UNCHANGED <<Runner!books, belief, stray>>
         \/ row # Runner!NoRow /\ Runner!Entry(o.side) /\ Runner!FillEntry(o, row)
         \/ row # Runner!NoRow /\ ~Runner!Entry(o.side) /\ Runner!FillExit(o, row)
  BY DEF Runner!Fill
<1>2. queue \in Seq(RunnerOrder)
  BY DEF RunnerTyping
<1>3. o \in RunnerOrder /\ 1 \in DOMAIN queue /\ o = queue[1]
  <2>1. Len(queue) \in Nat /\ Len(queue) # 0 /\ DOMAIN queue = 1..Len(queue)
    BY <1>1, <1>2, EmptySeq, LenProperties
  <2> QED
    BY <1>1, <1>2, <2>1, HeadTailProperties
<1>4. Fits(o, q)
  BY <1>3 DEF RunnerOrders, Shares
<1>5. /\ s \in RunnerSymbols /\ q \in Int /\ o.side \in {"BUY", "SELL_SHORT", "SELL", "BUY_TO_COVER"}
      /\ ~Exit(o) <=> Runner!Entry(o.side)
      /\ ~Exit(o) => o.qty \in Nat \ {0} /\ o.side \in {"BUY", "SELL_SHORT"}
  BY <1>3, OrderIs, PositionIs
<1>6. ASSUME row # Runner!NoRow PROVE p \in Nat /\ (o.side = "BUY" => p \in Nat \ {0})
  <2>1. row.open \in Nat \ {0} /\ Spread \in Nat
    BY <1>5, <1>6, RowIs DEF BacktestConstants
  <2> QED
    BY <2>1 DEF Runner!FillPrice, Runner!Higher
<1>7. ASSUME row # Runner!NoRow, Runner!Entry(o.side), Runner!FillEntry(o, row)
      PROVE  \/ UNCHANGED <<cash, position, profit, miscounted, pending, belief, stray>>
             \/ \E k \in Nat \ {0}, z \in Nat : Runner!Adds(o, k, z)
  <2> DEFINE f == Runner!Filled(o, row)
             k == IF o.side = "BUY" THEN Runner!Paid(f, p) ELSE f
  <2>1. f \in Nat
    <3>1. row.cap \in Nat /\ o.qty \in Nat
      BY <1>5, <1>7, RowIs
    <3> QED
      BY <3>1 DEF Runner!Filled, Runner!Lower, Runner!Higher
  <2>2. k \in Int
    <3>1. cash \in Int /\ Fee \in Nat
      BY DEF RunnerTyping, BacktestConstants
    <3> HIDE DEF f, p
    <3> QED
      BY <1>6, <1>7, <2>1, <3>1, PaidType
  <2>3. IF k <= 0 \/ (o.side = "SELL_SHORT" /\ q > 0) THEN Runner!Skips
        ELSE IF o.side = "BUY" /\ q < 0 THEN Runner!Closes([o EXCEPT !.qty = k], p, k)
        ELSE Runner!Adds(o, k, p)
    BY <1>7 DEF Runner!FillEntry
  <2> HIDE DEF k, f, p
  <2>4. ~(o.side = "BUY" /\ q < 0)
    BY <1>4, <1>5 DEF Fits
  <2>5. CASE k <= 0 \/ (o.side = "SELL_SHORT" /\ q > 0)
    BY <2>3, <2>5 DEF Runner!Skips, Runner!books
  <2>6. CASE ~(k <= 0 \/ (o.side = "SELL_SHORT" /\ q > 0))
    <3>1. k \in Nat \ {0} /\ Runner!Adds(o, k, p)
      BY <2>2, <2>3, <2>4, <2>6
    <3> QED
      BY <1>6, <1>7, <3>1
  <2> QED
    BY <2>5, <2>6
<1>8. ASSUME row # Runner!NoRow, ~Runner!Entry(o.side), Runner!FillExit(o, row)
      PROVE  \/ UNCHANGED <<cash, position, profit, miscounted, pending, belief, stray>>
             \/ /\ (o.side = "SELL" /\ q > 0) \/ (o.side = "BUY_TO_COVER" /\ q < 0)
                /\ \E z \in Nat : Runner!Closes(o, z, Runner!Sold(o))
  <2>1. IF (o.side = "SELL" /\ q > 0) \/ (o.side = "BUY_TO_COVER" /\ q < 0)
        THEN Runner!Closes(o, p, Runner!Sold(o)) ELSE Runner!Skips
    BY <1>8 DEF Runner!FillExit
  <2> DEFINE Right == (o.side = "SELL" /\ q > 0) \/ (o.side = "BUY_TO_COVER" /\ q < 0)
  <2> HIDE DEF p, Right
  <2>2. CASE Right
    <3>1. p \in Nat /\ Runner!Closes(o, p, Runner!Sold(o))
      BY <1>6, <1>8, <2>1, <2>2 DEF Right
    <3> QED
      BY <2>2, <3>1 DEF Right
  <2>3. CASE ~Right
    BY <2>1, <2>3 DEF Right, Runner!Skips, Runner!books
  <2> QED
    BY <2>2, <2>3
<1> HIDE DEF p
<1> QED
  BY <1>1, <1>3, <1>4, <1>5, <1>7, <1>8 DEF Runner!books, Shares

(* How a fill of o may change the shares held.                              *)
Change(o, q, r) ==
  \/ r = q
  \/ o.side = "BUY" /\ q >= 0 /\ r > q
  \/ o.side = "SELL_SHORT" /\ q <= 0 /\ r < q
  \/ o.side = "SELL" /\ q > 0 /\ r = q - o.qty
  \/ o.side = "BUY_TO_COVER" /\ q < 0 /\ r = q + o.qty

(* An order that may stand next to the one that fills still fits            *)
(* afterwards.                                                              *)
LEMMA StillFits ==
  ASSUME NEW o \in RunnerOrder, NEW w \in RunnerOrder, o.sym = w.sym, Apart(o, w), NEW q \in Int, NEW r \in Int,
         Fits(o, q), Fits(w, q), Change(o, q, r)
  PROVE  Fits(w, r)
BY OrderIs DEF Fits, Change, Apart, Exit

(* An exit leaves shares when it spares some, and no other exit; an entry   *)
(* leaves more than any exit that fits takes.                               *)
LEMMA StillSpares ==
  ASSUME NEW o \in RunnerOrder, NEW w \in RunnerOrder, o.sym = w.sym, Apart(o, w), NEW q \in Int, NEW r \in Int,
         Fits(o, q), Fits(w, q), Change(o, q, r), r # q \/ Spares(w, q)
  PROVE  Spares(w, r)
BY OrderIs DEF Fits, Change, Apart, Exit, Spares

(* An exit that spares shares leaves some.                                  *)
LEMMA StillHeld ==
  ASSUME NEW o \in RunnerOrder, NEW q \in Int, NEW r \in Int, Change(o, q, r), Fits(o, q), q # 0, Spares(o, q)
  PROVE  r # 0
BY OrderIs DEF Change, Fits, Spares

(* The first order leaves the queue, and may wait for the next bar.         *)
Waits(o) ==
  \/ pending' = pending
  \/ \E w \in RunnerOrder : w.sym = o.sym /\ w.side = o.side /\ pending' = Append(pending, w)

(* The queue moves up by one.                                               *)
LEMMA QueueIs ==
  ASSUME RunnerTyping, queue # <<>>, queue' = Tail(queue), NEW o, o = Head(queue)
  PROVE  /\ 1 \in DOMAIN queue /\ o = queue[1] /\ queue' \in Seq(RunnerOrder)
         /\ \A i \in DOMAIN queue' : i \in Nat \ {0} /\ i + 1 \in DOMAIN queue /\ queue'[i] = queue[i + 1]
         /\ \A i \in DOMAIN queue : queue[i] \in RunnerOrder
         /\ \A i \in DOMAIN pending : pending[i] \in RunnerOrder
<1>1. queue \in Seq(RunnerOrder) /\ pending \in Seq(RunnerOrder)
  BY DEF RunnerTyping
<1>2. Len(queue) \in Nat /\ Len(queue) # 0 /\ DOMAIN queue = 1..Len(queue)
  BY <1>1, EmptySeq, LenProperties
<1>3. queue' \in Seq(RunnerOrder) /\ Len(queue') = Len(queue) - 1 /\ \A i \in 1..Len(queue') : queue'[i] = queue[i + 1]
  BY <1>1, HeadTailProperties
<1>4. DOMAIN queue' = 1..(Len(queue) - 1)
  BY <1>3, LenProperties
<1>5. (\A i \in DOMAIN queue : queue[i] \in RunnerOrder) /\ \A i \in DOMAIN pending : pending[i] \in RunnerOrder
  BY <1>1, ElementOfSeq, LenProperties
<1> QED
  BY <1>1, <1>2, <1>3, <1>4, <1>5

(* What waits is what waited, and at most a remainder behind it.            *)
LEMMA PendingIs ==
  ASSUME RunnerTyping, NEW o, Waits(o)
  PROVE  /\ pending' \in Seq(RunnerOrder)
         /\ \A i \in DOMAIN pending' :
              \/ i \in DOMAIN pending /\ pending'[i] = pending[i]
              \/ /\ i \notin DOMAIN pending /\ i = Len(pending) + 1 /\ pending' # pending
                 /\ pending'[i] \in RunnerOrder /\ pending'[i].sym = o.sym /\ pending'[i].side = o.side
<1>1. pending \in Seq(RunnerOrder) /\ Len(pending) \in Nat /\ DOMAIN pending = 1..Len(pending)
  BY LenProperties DEF RunnerTyping
<1>2. CASE pending' = pending
  BY <1>1, <1>2
<1>3. ASSUME NEW w \in RunnerOrder, w.sym = o.sym, w.side = o.side, pending' = Append(pending, w)
      PROVE  /\ pending' \in Seq(RunnerOrder)
             /\ \A i \in DOMAIN pending' :
                  \/ i \in DOMAIN pending /\ pending'[i] = pending[i]
                  \/ /\ i \notin DOMAIN pending /\ i = Len(pending) + 1 /\ pending' # pending
                     /\ pending'[i] \in RunnerOrder /\ pending'[i].sym = o.sym /\ pending'[i].side = o.side
  <2>1. /\ pending' \in Seq(RunnerOrder) /\ Len(pending') = Len(pending) + 1
        /\ \A i \in 1..Len(pending) : pending'[i] = pending[i]
        /\ pending'[Len(pending) + 1] = w
    BY <1>1, <1>3, AppendProperties
  <2>2. DOMAIN pending' = 1..(Len(pending) + 1) /\ pending' # pending
    BY <1>1, <2>1, LenProperties
  <2>3. \A i \in 1..(Len(pending) + 1) : i \in 1..Len(pending) \/ (i = Len(pending) + 1 /\ i \notin 1..Len(pending))
    BY <1>1
  <2> QED
    BY <1>1, <1>3, <2>1, <2>2, <2>3
<1> QED
  BY <1>2, <1>3 DEF Waits

(* Orders that may stand next to each other still do.                       *)
LEMMA OrdersMoveUp ==
  ASSUME RunnerTyping, RunnerOrders, queue # <<>>, queue' = Tail(queue), NEW o, o = Head(queue), Waits(o)
  PROVE  /\ \A i, j \in DOMAIN queue' : i # j => Apart(queue'[i], queue'[j])
         /\ \A i, j \in DOMAIN pending' : i # j => Apart(pending'[i], pending'[j])
         /\ \A i \in DOMAIN queue', j \in DOMAIN pending' : Apart(queue'[i], pending'[j])
<1>1. /\ 1 \in DOMAIN queue /\ o = queue[1]
      /\ \A i \in DOMAIN queue' : i \in Nat \ {0} /\ i + 1 \in DOMAIN queue /\ queue'[i] = queue[i + 1]
  BY QueueIs
<1>2. \A i \in DOMAIN pending' :
        \/ i \in DOMAIN pending /\ pending'[i] = pending[i]
        \/ i = Len(pending) + 1 /\ pending'[i].sym = o.sym /\ pending'[i].side = o.side
  BY PendingIs
<1>3. /\ \A i, j \in DOMAIN queue : i # j => Apart(queue[i], queue[j])
      /\ \A i, j \in DOMAIN pending : i # j => Apart(pending[i], pending[j])
      /\ \A i \in DOMAIN queue, j \in DOMAIN pending : Apart(queue[i], pending[j])
  BY DEF RunnerOrders
<1>4. \A v, w, x : w.sym = x.sym /\ w.side = x.side => (Apart(v, w) <=> Apart(v, x)) /\ (Apart(w, v) <=> Apart(x, v))
  BY DEF Apart, Exit
<1>5. \A v, w : Apart(v, w) <=> Apart(w, v)
  BY DEF Apart, Exit
<1>6. \A i, j \in DOMAIN queue' : i # j => Apart(queue'[i], queue'[j])
  <2>1. ASSUME NEW i \in DOMAIN queue', NEW j \in DOMAIN queue', i # j PROVE Apart(queue'[i], queue'[j])
    <3>1. i + 1 \in DOMAIN queue /\ j + 1 \in DOMAIN queue /\ i + 1 # j + 1 /\ queue'[i] = queue[i + 1] /\ queue'[j] = queue[j + 1]
      BY <1>1, <2>1
    <3> QED
      BY <1>3, <3>1
  <2> QED
    BY <2>1
<1>7. \A i, j \in DOMAIN pending' : i # j => Apart(pending'[i], pending'[j])
  BY <1>1, <1>2, <1>3, <1>4, <1>5
<1>8. \A i \in DOMAIN queue', j \in DOMAIN pending' : Apart(queue'[i], pending'[j])
  <2>1. ASSUME NEW i \in DOMAIN queue', NEW j \in DOMAIN pending' PROVE Apart(queue'[i], pending'[j])
    <3>1. i + 1 \in DOMAIN queue /\ i + 1 # 1 /\ queue'[i] = queue[i + 1]
      BY <1>1
    <3>2. Apart(queue[i + 1], o)
      BY <1>1, <1>3, <3>1
    <3> QED
      BY <1>2, <1>3, <1>4, <3>1, <3>2
  <2> QED
    BY <2>1
<1> QED
  BY <1>6, <1>7, <1>8

(* A fill keeps the orders: what it does to the shares of its symbol, and   *)
(* what waits.                                                              *)
LEMMA FillOrders ==
  ASSUME RunnerTyping, RunnerOrders, queue # <<>>, queue' = Tail(queue), NEW o, o = Head(queue), Waits(o),
         position' \in [RunnerSymbols -> RunnerPosition], phase = "open", UNCHANGED <<phase, rows, undecided>>,
         \A y \in RunnerSymbols \ {o.sym} : position'[y] = position[y],
         Change(o, Shares(o.sym), Shares(o.sym)'),
         pending' # pending => \/ Shares(o.sym)' = Shares(o.sym) /\ rows[o.sym] = Runner!NoRow
                               \/ ~Exit(o) /\ Shares(o.sym)' # Shares(o.sym),
         Shares(o.sym)' # Shares(o.sym) => rows[o.sym] # Runner!NoRow,
         pending' # pending => \A i \in DOMAIN pending' : i \notin DOMAIN pending =>
            Fits(pending'[i], Shares(o.sym)')
  PROVE  RunnerOrders'
<1> DEFINE s == o.sym
           q == Shares(s)
           r == Shares(s)'
<1>1. /\ 1 \in DOMAIN queue /\ o = queue[1] /\ o \in RunnerOrder /\ s \in RunnerSymbols /\ q \in Int /\ r \in Int
      /\ Fits(o, q)
      /\ \A i \in DOMAIN queue' :
           /\ i \in Nat \ {0} /\ i + 1 \in DOMAIN queue /\ i + 1 # 1 /\ queue'[i] = queue[i + 1] /\ queue'[i] \in RunnerOrder
           /\ Fits(queue'[i], Shares(queue'[i].sym)) /\ Apart(o, queue'[i])
  <2>1. /\ 1 \in DOMAIN queue /\ o = queue[1] /\ o \in RunnerOrder
        /\ \A i \in DOMAIN queue' : i \in Nat \ {0} /\ i + 1 \in DOMAIN queue /\ i + 1 # 1 /\ queue'[i] = queue[i + 1] /\ queue'[i] \in RunnerOrder
    BY QueueIs
  <2>2. s \in RunnerSymbols
    BY <2>1, OrderIs
  <2>3. q \in Int /\ r \in Int
    BY <2>2, PositionIs DEF Shares, RunnerPosition
  <2>4. Fits(o, q)
    BY <2>1 DEF RunnerOrders
  <2>5. \A i \in DOMAIN queue' : Fits(queue'[i], Shares(queue'[i].sym)) /\ Apart(o, queue'[i])
    BY <2>1 DEF RunnerOrders
  <2> QED
    BY <2>1, <2>2, <2>3, <2>4, <2>5
<1>2. \A i \in DOMAIN pending' :
        \/ /\ i \in DOMAIN pending /\ pending'[i] = pending[i] /\ pending'[i] \in RunnerOrder
           /\ Fits(pending'[i], Shares(pending'[i].sym)) /\ Apart(o, pending'[i])
        \/ /\ i \notin DOMAIN pending /\ pending' # pending
           /\ pending'[i] \in RunnerOrder /\ pending'[i].sym = s /\ pending'[i].side = o.side
  <2>1. \A i \in DOMAIN pending : pending[i] \in RunnerOrder /\ Fits(pending[i], Shares(pending[i].sym)) /\ Apart(o, pending[i])
    BY <1>1, QueueIs DEF RunnerOrders
  <2> QED
    BY <2>1, PendingIs
<1>3. \A y \in RunnerSymbols : y # s => Shares(y)' = Shares(y)
  BY DEF Shares
<1>4. ASSUME NEW w \in RunnerOrder, Fits(w, Shares(w.sym)), Apart(o, w)
      PROVE  Fits(w, position'[w.sym].qty)
  <2>1. w.sym \in RunnerSymbols
    BY OrderIs
  <2>2. CASE w.sym # s
    BY <1>3, <1>4, <2>1, <2>2 DEF Shares
  <2>3. CASE w.sym = s
    <3>1. Fits(w, q) /\ o.sym = w.sym
      BY <1>4, <2>3
    <3>2. Fits(w, r)
      <4> HIDE DEF q, r
      <4> QED
        BY <1>1, <1>4, <3>1, StillFits DEF q, r
    <3> QED
      BY <2>3, <3>2 DEF Shares
  <2> QED
    BY <2>2, <2>3
<1>5. \A i \in DOMAIN queue' : Fits(queue'[i], position'[queue'[i].sym].qty)
  BY <1>1, <1>4 DEF Shares
<1>6. \A i \in DOMAIN pending' : Fits(pending'[i], position'[pending'[i].sym].qty)
  BY <1>2, <1>4 DEF Shares
<1>7. ASSUME NEW j \in DOMAIN pending',
             rows'[pending'[j].sym] # Runner!NoRow /\ (phase' = "open" \/ pending'[j].sym \in undecided')
      PROVE  /\ ~Exit(pending'[j]) /\ position'[pending'[j].sym].qty # 0
             /\ \A i \in DOMAIN queue' : queue'[i].sym = pending'[j].sym => Spares(queue'[i], position'[queue'[i].sym].qty)
  <2> DEFINE y == pending'[j].sym
  <2>1. rows[y] # Runner!NoRow /\ Settled(y)
    BY <1>7 DEF Settled
  <2>2. y \in RunnerSymbols
    BY <1>2, OrderIs
  <2>3. CASE j \in DOMAIN pending /\ pending'[j] = pending[j]
    <3>1. /\ ~Exit(pending'[j]) /\ Shares(y) # 0
          /\ \A i \in DOMAIN queue : queue[i].sym = y => Spares(queue[i], Shares(y))
      BY <2>1, <2>3 DEF RunnerOrders
    <3>2. CASE y # s
      <4>1. position'[y].qty = Shares(y)
        BY <2>2, <3>2 DEF Shares
      <4>2. \A i \in DOMAIN queue' : queue'[i].sym = y => Spares(queue'[i], position'[y].qty)
        BY <1>1, <3>1, <4>1
      <4> QED
        BY <3>1, <4>1, <4>2
    <3>3. CASE y = s
      <4>1. Spares(o, q) /\ q # 0
        BY <1>1, <3>1, <3>3
      <4>2. r # 0
        <5> HIDE DEF q, r
        <5> QED
          BY <1>1, <4>1, StillHeld DEF q, r
      <4>3. ASSUME NEW i \in DOMAIN queue', queue'[i].sym = s PROVE Spares(queue'[i], r)
        <5> DEFINE w == queue'[i]
        <5>1. w \in RunnerOrder /\ o.sym = w.sym /\ Apart(o, w) /\ Fits(w, q) /\ Spares(w, q)
          BY <1>1, <3>1, <3>3, <4>3
        <5> HIDE DEF w, q, r
        <5>2. Spares(w, r)
          BY <1>1, <5>1, StillSpares DEF q, r
        <5> QED
          BY <5>2 DEF w
      <4> QED
        BY <3>1, <3>3, <4>2, <4>3 DEF Shares
    <3> QED
      BY <3>2, <3>3
  <2>4. CASE j \notin DOMAIN pending /\ pending' # pending /\ y = s /\ pending'[j].side = o.side
    <3>1. ~Exit(o) /\ r # q
      BY <2>1, <2>4
    <3>2. ~Exit(pending'[j])
      BY <2>4, <3>1 DEF Exit
    <3>3. r # 0
      BY <1>1, <3>1, OrderIs DEF Change, Exit
    <3>4. ASSUME NEW i \in DOMAIN queue', queue'[i].sym = s PROVE Spares(queue'[i], r)
      <4> DEFINE w == queue'[i]
      <4>1. w \in RunnerOrder /\ o.sym = w.sym /\ Apart(o, w) /\ Fits(w, q)
        BY <1>1, <3>4
      <4> HIDE DEF w, q, r
      <4>2. Spares(w, r)
        BY <1>1, <3>1, <4>1, StillSpares DEF q, r
      <4> QED
        BY <4>2 DEF w
    <3> QED
      BY <2>4, <3>2, <3>3, <3>4 DEF Shares
  <2> QED
    BY <1>2, <2>3, <2>4
<1>8. /\ \A i, j \in DOMAIN queue' : i # j => Apart(queue'[i], queue'[j])
      /\ \A i, j \in DOMAIN pending' : i # j => Apart(pending'[i], pending'[j])
      /\ \A i \in DOMAIN queue', j \in DOMAIN pending' : Apart(queue'[i], pending'[j])
  BY OrdersMoveUp
<1> QED
  BY <1>5, <1>6, <1>7, <1>8 DEF RunnerOrders, Shares, Settled

-----------------------------------------------------------------------------
(* The honest runner: the account. *)

(* What a position counts for in the balance.                               *)
Counts(p) == (IF p.qty < 0 THEN -p.value ELSE p.value) + p.fees

Booked == [s \in RunnerSymbols |-> Counts(position[s])]

Balanced ==
  /\ cash + SumFunctionOnSet(Booked, RunnerSymbols) = InitialBalance + profit - borrowed + miscounted
  /\ \A s \in RunnerSymbols : position[s].qty = 0 => position[s].value = 0 /\ position[s].fees = 0

(* The sum the module states is the one the lemmas about sums are about.    *)
LEMMA RunnerSum ==
  ASSUME NEW f PROVE Runner!SumFunction(f) = SumFunctionOnSet(f, DOMAIN f)
BY DEF Runner!SumFunction, Runner!SumFunctionOnSet, Runner!FoldFunctionOnSet, Runner!MapThenFoldSet, Runner!FoldFunction,
   SumFunctionOnSet, FoldFunctionOnSet, MapThenFoldSet

(* The equation kept by induction is the one the report promises.           *)
LEMMA BalancedIsTheReport == Balanced => Runner!TradesExplainCash
<1>1. Booked = [s \in RunnerSymbols |-> (IF position[s].qty < 0 THEN -position[s].value ELSE position[s].value)
                                          + position[s].fees]
  BY DEF Booked, Counts
<1>2. Runner!SumFunction(Booked) = SumFunctionOnSet(Booked, RunnerSymbols)
  <2>1. DOMAIN Booked = RunnerSymbols
    BY DEF Booked
  <2> QED
    BY <2>1, RunnerSum
<1> QED
  BY <1>1, <1>2 DEF Balanced, Runner!TradesExplainCash

(* What a position counts for is an integer.                                *)
LEMMA CountsType ==
  ASSUME NEW p \in RunnerPosition PROVE Counts(p) \in Int
BY DEF RunnerPosition, Counts

(* One position changes: the balance holds when the cash and the trades     *)
(* account for the change.                                                  *)
LEMMA BalanceMoves ==
  ASSUME BacktestConstants, RunnerConstants, RunnerTyping, Balanced, NEW s \in RunnerSymbols, NEW p \in RunnerPosition,
         position' = [position EXCEPT ![s] = p], p.qty = 0 => p.value = 0 /\ p.fees = 0,
         cash' \in Int, profit' \in Int, miscounted' \in Int, borrowed' = borrowed,
         cash' - cash + Counts(p) - Counts(position[s]) = profit' - profit + (miscounted' - miscounted)
  PROVE  Balanced'
<1> DEFINE f == Booked
           g == [y \in RunnerSymbols |-> Counts(position'[y])]
           S == RunnerSymbols
<1>1. position \in [S -> RunnerPosition] /\ position' \in [S -> RunnerPosition] /\ IsFiniteSet(S)
  BY DEF RunnerTyping, RunnerConstants
<1>2. position'[s] = p /\ \A y \in S : y # s => position'[y] = position[y]
  BY <1>1
<1>3. \A y \in S : f[y] = Counts(position[y]) /\ g[y] = Counts(position'[y]) /\ f[y] \in Int /\ g[y] \in Int
  BY <1>1, CountsType DEF Booked
<1>4. \A y \in S : y # s => g[y] = f[y]
  BY <1>2, <1>3
<1>5. s \in S /\ g[s] \in Int /\ f[s] \in Int /\ f[s] = Counts(position[s]) /\ g[s] = Counts(p)
  BY <1>2, <1>3
<1> HIDE DEF f, g, S
<1>6. SumFunctionOnSet(g, S) = SumFunctionOnSet(f, S) + (g[s] - f[s]) /\ SumFunctionOnSet(f, S) \in Int
  BY <1>1, <1>3, <1>4, <1>5, SumMoves, SumTakes
<1>7. cash \in Int /\ profit \in Int /\ miscounted \in Int /\ borrowed \in Int /\ InitialBalance \in Int
  BY DEF RunnerTyping, BacktestConstants
<1>8. cash + SumFunctionOnSet(f, S) = InitialBalance + profit - borrowed + miscounted
  BY DEF Balanced, f, S
<1> DEFINE F == SumFunctionOnSet(f, S)
           G == SumFunctionOnSet(g, S)
<1>9. G = F + (g[s] - f[s]) /\ F \in Int /\ cash + F = InitialBalance + profit - borrowed + miscounted
  BY <1>6, <1>8
<1> HIDE DEF F, G
<1>10. cash' + G = InitialBalance + profit' - borrowed' + miscounted'
  BY <1>5, <1>7, <1>9
<1>11. \A y \in S : position'[y].qty = 0 => position'[y].value = 0 /\ position'[y].fees = 0
  <2>1. \A y \in S : position[y].qty = 0 => position[y].value = 0 /\ position[y].fees = 0
    BY DEF Balanced, S
  <2> QED
    BY <1>2, <2>1
<1> QED
  BY <1>10, <1>11 DEF Balanced, Booked, G, g, S

(* What an entry does.                                                      *)
LEMMA EntryStep ==
  ASSUME BacktestConstants, RunnerConstants, RunnerTyping, Balanced, NEW o \in RunnerOrder, ~Exit(o),
         Fits(o, Shares(o.sym)), NEW k \in Nat \ {0}, NEW p \in Nat, Runner!Adds(o, k, p), borrowed' = borrowed
  PROVE  /\ cash' \in Int /\ profit' \in Int /\ miscounted' \in Int /\ Balanced'
         /\ position' \in [RunnerSymbols -> RunnerPosition]
         /\ \A y \in RunnerSymbols \ {o.sym} : position'[y] = position[y]
         /\ Change(o, Shares(o.sym), Shares(o.sym)') /\ Shares(o.sym)' # Shares(o.sym) /\ Shares(o.sym)' # 0
         /\ (o.side = "BUY" <=> Shares(o.sym)' > 0) /\ Fits(o, Shares(o.sym)')
         /\ Waits(o)
<1> DEFINE s == o.sym
           old == position[s]
           q == old.qty
           sign == IF o.side = "BUY" THEN 1 ELSE -1
           v == k * p
           counted == IF setup.multi \/ q = 0 THEN Fee ELSE 0
           new == [qty |-> q + sign * k, value |-> old.value + v, fees |-> old.fees + counted]
<1>1. /\ s \in RunnerSymbols /\ q \in Int /\ old.value \in Int /\ old.fees \in Int /\ old \in RunnerPosition
      /\ o.qty \in Nat \ {0} /\ o.side \in {"BUY", "SELL_SHORT"}
  BY OrderIs, PositionIs
<1>2. Fee \in Nat /\ counted \in Nat /\ v \in Nat /\ sign \in {1, -1} /\ sign * k \in Int
      /\ cash \in Int /\ profit \in Int /\ miscounted \in Int
  BY DEF BacktestConstants, RunnerTyping
<1>3. /\ cash' = cash - sign * k * p - Fee /\ position' = [position EXCEPT ![s] = new]
      /\ miscounted' = miscounted - (Fee - counted) /\ profit' = profit
      /\ pending' = IF k < o.qty THEN Append(pending, Runner!Order(s, o.side, o.qty - k)) ELSE pending
  <2>1. position \in [RunnerSymbols -> RunnerPosition]
    BY DEF RunnerTyping
  <2> QED
    BY <2>1 DEF Runner!Adds, Runner!FeesAfter
<1>4. (o.side = "BUY" => q >= 0) /\ (o.side = "SELL_SHORT" => q <= 0)
  BY DEF Fits, Shares
<1>5. (o.side = "BUY" => sign * k = k) /\ (o.side = "SELL_SHORT" => sign * k = -k)
  OBVIOUS
<1>6. sign * k * p = IF o.side = "BUY" THEN v ELSE -v
  BY <1>1
<1>7. q = 0 => old.value = 0 /\ old.fees = 0
  BY <1>1 DEF Balanced
<1> HIDE DEF v, counted, sign
<1>8. /\ new \in RunnerPosition /\ new.qty = q + sign * k /\ new.value = old.value + v /\ new.fees = old.fees + counted
  BY <1>1, <1>2 DEF RunnerPosition
<1>9. (o.side = "BUY" => new.qty = q + k) /\ (o.side = "SELL_SHORT" => new.qty = q - k)
  BY <1>1, <1>2, <1>5, <1>8
<1> HIDE DEF new, old, q
<1>10. q \in Int /\ new.qty # 0 /\ new.qty # q /\ (o.side = "BUY" <=> new.qty > 0) /\ Change(o, q, new.qty) /\ Fits(o, new.qty)
  <2>1. q \in Int /\ new.qty # 0 /\ new.qty # q /\ (o.side = "BUY" <=> new.qty > 0)
        /\ (o.side = "BUY" => new.qty > q) /\ (o.side = "SELL_SHORT" => new.qty < q)
    BY <1>1, <1>4, <1>9 DEF q
  <2>2. Change(o, q, new.qty)
    BY <1>1, <1>4, <2>1 DEF Change
  <2>3. Fits(o, new.qty)
    BY <1>1, <1>4, <1>9, <2>1 DEF Fits, Exit
  <2> QED
    BY <2>1, <2>2, <2>3
<1>11. Counts(new) - Counts(old) = (IF o.side = "BUY" THEN v ELSE -v) + counted
       /\ Counts(new) \in Int /\ Counts(old) \in Int
  <2>1. CASE o.side = "BUY"
    <3>1. Counts(new) = old.value + v + (old.fees + counted) /\ Counts(old) = old.value + old.fees
      BY <1>1, <1>2, <1>4, <1>8, <1>10, <2>1 DEF Counts, q
    <3> QED
      BY <1>1, <1>2, <2>1, <3>1
  <2>2. CASE o.side = "SELL_SHORT"
    <3>1. Counts(new) = -(old.value + v) + (old.fees + counted)
      BY <1>1, <1>2, <1>8, <1>9, <1>10, <2>2 DEF Counts, q
    <3>2. Counts(old) = -old.value + old.fees
      <4>1. CASE q = 0
        BY <1>1, <1>7, <4>1 DEF Counts, q
      <4>2. CASE q # 0
        <5>1. q < 0
          BY <1>1, <1>4, <2>2, <4>2
        <5> QED
          BY <5>1 DEF Counts, q
      <4> QED
        BY <4>1, <4>2
    <3> QED
      BY <1>1, <1>2, <2>2, <3>1, <3>2
  <2> QED
    BY <1>1, <2>1, <2>2
<1>12. cash' \in Int /\ profit' \in Int /\ miscounted' \in Int
       /\ cash' - cash + Counts(new) - Counts(old) = profit' - profit + (miscounted' - miscounted)
  <2>1. cash' = cash - (IF o.side = "BUY" THEN v ELSE -v) - Fee
    BY <1>3, <1>6
  <2>2. CASE o.side = "BUY"
    BY <1>2, <1>3, <1>11, <2>1, <2>2
  <2>3. CASE o.side = "SELL_SHORT"
    <3>1. cash' = cash + v - Fee /\ Counts(new) - Counts(old) = -v + counted
      BY <1>2, <1>11, <2>1, <2>3
    <3> QED
      BY <1>2, <1>3, <1>11, <3>1
  <2> QED
    BY <1>1, <2>2, <2>3
<1>13. Balanced'
  BY <1>1, <1>3, <1>8, <1>10, <1>12, BalanceMoves DEF old
<1>14. /\ position' \in [RunnerSymbols -> RunnerPosition] /\ position'[s] = new
       /\ \A y \in RunnerSymbols \ {s} : position'[y] = position[y]
  BY <1>1, <1>3, <1>8 DEF RunnerTyping
<1>15. Waits(o)
  <2>1. CASE k < o.qty
    <3>1. Runner!Order(s, o.side, o.qty - k) \in RunnerOrder
      BY <1>1, <2>1 DEF Runner!Order, RunnerOrder
    <3>2. Runner!Order(s, o.side, o.qty - k).sym = s /\ Runner!Order(s, o.side, o.qty - k).side = o.side
      BY DEF Runner!Order
    <3> QED
      BY <1>3, <2>1, <3>1, <3>2 DEF Waits
  <2>2. CASE ~(k < o.qty)
    BY <1>3, <2>2 DEF Waits
  <2> QED
    BY <2>1, <2>2
<1> QED
  BY <1>10, <1>12, <1>13, <1>14, <1>15 DEF Shares, q, old

(* A product divided by its factor.                                         *)
LEMMA WholeDivision ==
  ASSUME NEW a \in Int, NEW b \in Nat \ {0}
  PROVE  (a * b) \div b = a
OBVIOUS

(* What an exit of the side that is held does.                              *)
LEMMA ExitStep ==
  ASSUME BacktestConstants, RunnerConstants, RunnerTyping, Balanced, NEW o \in RunnerOrder, Fits(o, Shares(o.sym)),
         (o.side = "SELL" /\ Shares(o.sym) > 0) \/ (o.side = "BUY_TO_COVER" /\ Shares(o.sym) < 0),
         NEW p \in Nat, Runner!Closes(o, p, Runner!Sold(o)), borrowed' = borrowed
  PROVE  /\ cash' \in Int /\ profit' \in Int /\ miscounted' \in Int /\ Balanced'
         /\ position' \in [RunnerSymbols -> RunnerPosition]
         /\ \A y \in RunnerSymbols \ {o.sym} : position'[y] = position[y]
         /\ Change(o, Shares(o.sym), Shares(o.sym)') /\ Shares(o.sym)' # Shares(o.sym)
         /\ (Shares(o.sym) > 0 => Shares(o.sym)' >= 0) /\ (Shares(o.sym) < 0 => Shares(o.sym)' <= 0)
         /\ (Shares(o.sym)' # 0 <=> Runner!Abs(Shares(o.sym)) - Runner!Sold(o) > 0)
         /\ pending' = pending
<1> DEFINE s == o.sym
           old == position[s]
           q == old.qty
           n == o.qty
           size == Runner!Abs(q)
           isLong == q > 0
           m == n * p
           value == (old.value * n) \div size
           left == size - n
           new == IF left <= 0 THEN Runner!NoPosition
                  ELSE [qty |-> IF isLong THEN left ELSE -left, value |-> old.value - value, fees |-> old.fees]
<1>1. /\ s \in RunnerSymbols /\ q \in Int /\ old.value \in Int /\ old.fees \in Int /\ old \in RunnerPosition
      /\ o.side \in {"SELL", "BUY_TO_COVER"} /\ Shares(s) = q /\ q # 0
      /\ (isLong <=> o.side = "SELL") /\ (~isLong => q < 0)
  <2>1. /\ s \in RunnerSymbols /\ q \in Int /\ old.value \in Int /\ old.fees \in Int /\ old \in RunnerPosition
    BY OrderIs, PositionIs
  <2>2. Shares(s) = q
    BY DEF Shares
  <2> HIDE DEF q
  <2> QED
    BY <2>1, <2>2
<1>2. size \in Nat \ {0} /\ n \in Nat \ {0} /\ n <= size /\ size = IF isLong THEN q ELSE -q
  <2>1. n \in Int
    BY OrderIs
  <2>2. Fits(o, q)
    BY <1>1
  <2> HIDE DEF q, n
  <2>3. size \in Nat \ {0} /\ size = IF isLong THEN q ELSE -q
    BY <1>1 DEF Runner!Abs
  <2>4. n >= 1 /\ n <= size
    BY <1>1, <2>2, <2>3 DEF Fits, n
  <2> QED
    BY <2>1, <2>3, <2>4
<1>3. Runner!Sold(o) = n
  <2>1. Runner!Sold(o) = IF n < size THEN n ELSE size
    BY DEF Runner!Sold, Runner!Lower
  <2> HIDE DEF n, size
  <2> QED
    BY <1>2, <2>1
<1>4. /\ Fee \in Nat /\ m \in Nat /\ cash \in Int /\ profit \in Int /\ miscounted \in Int /\ value \in Int /\ left \in Nat
      /\ (left = 0 => value = old.value)
  <2>1. Fee \in Nat /\ cash \in Int /\ profit \in Int /\ miscounted \in Int /\ position \in [RunnerSymbols -> RunnerPosition]
    BY DEF BacktestConstants, RunnerTyping
  <2>2. m \in Nat
    BY <1>2
  <2> HIDE DEF n, size, old, q
  <2>3. old.value * n \in Int
    BY <1>1, <1>2
  <2>4. value \in Int
    BY <1>2, <2>3, Quotients
  <2>5. left \in Nat /\ (left = 0 => n = size)
    BY <1>2
  <2>6. left = 0 => value = old.value
    BY <1>1, <1>2, <2>5, WholeDivision
  <2> QED
    BY <2>1, <2>2, <2>4, <2>5, <2>6
<1>5. /\ cash' = cash + (IF isLong THEN n * p ELSE -n * p) - Fee
      /\ profit' = profit + (IF isLong THEN n * p - value ELSE value - n * p) - Fee - old.fees
      /\ position' = [position EXCEPT ![s] = new]
      /\ miscounted' = miscounted + (IF left > 0 THEN old.fees ELSE 0)
      /\ pending' = pending
  <2>1. position \in [RunnerSymbols -> RunnerPosition]
    BY DEF RunnerTyping
  <2> QED
    BY <1>3, <2>1 DEF Runner!Closes
<1>6. -n * p = -m
  BY <1>2
<1>7. cash' = cash + (IF isLong THEN m ELSE -m) - Fee /\ profit' = profit + (IF isLong THEN m - value ELSE value - m) - Fee - old.fees
  <2>1. n * p = m
    OBVIOUS
  <2> HIDE DEF m, n, value, isLong
  <2> QED
    BY <1>5, <1>6, <2>1
<1> DEFINE r == IF left <= 0 THEN 0 ELSE IF isLong THEN left ELSE -left
<1> HIDE DEF m, value, n, size, left
<1>8. /\ new \in RunnerPosition /\ new.qty = r
      /\ (left = 0 => new.value = 0 /\ new.fees = 0) /\ (left # 0 => new.value = old.value - value /\ new.fees = old.fees)
  BY <1>1, <1>4 DEF RunnerPosition, Runner!NoPosition
<1> HIDE DEF new, old, q, isLong
<1>9. /\ r \in Int /\ (r = 0 <=> left = 0) /\ (isLong => r >= 0) /\ (~isLong => r <= 0)
      /\ r = IF isLong THEN q - n ELSE q + n
  BY <1>1, <1>2, <1>4 DEF left
<1>10. Counts(old) = (IF isLong THEN old.value ELSE -old.value) + old.fees
  BY <1>1 DEF Counts, isLong, q
<1>11. ASSUME left = 0
       PROVE  /\ cash' \in Int /\ profit' \in Int /\ miscounted' \in Int
             /\ cash' - cash + Counts(new) - Counts(old) = profit' - profit + (miscounted' - miscounted)
  <2>1. Counts(new) = 0
    BY <1>8, <1>9, <1>11 DEF Counts
  <2>2. value = old.value /\ miscounted' = miscounted
    BY <1>4, <1>5, <1>11
  <2>3. cash' \in Int /\ profit' \in Int /\ miscounted' \in Int
        /\ cash' - cash + Counts(new) - Counts(old) = profit' - profit + (miscounted' - miscounted)
    <3>1. CASE isLong
      BY <1>1, <1>4, <1>7, <1>10, <2>1, <2>2, <3>1
    <3>2. CASE ~isLong
      BY <1>1, <1>4, <1>7, <1>10, <2>1, <2>2, <3>2
    <3> QED
      BY <3>1, <3>2
  <2> QED
    BY <2>3
<1>12. ASSUME left # 0
       PROVE  /\ cash' \in Int /\ profit' \in Int /\ miscounted' \in Int
             /\ cash' - cash + Counts(new) - Counts(old) = profit' - profit + (miscounted' - miscounted)
  <2>1. Counts(new) = (IF isLong THEN old.value - value ELSE -(old.value - value)) + old.fees
    BY <1>8, <1>9, <1>12 DEF Counts
  <2>2. miscounted' = miscounted + old.fees
    BY <1>4, <1>5, <1>12
  <2>3. cash' \in Int /\ profit' \in Int /\ miscounted' \in Int
        /\ cash' - cash + Counts(new) - Counts(old) = profit' - profit + (miscounted' - miscounted)
    <3>1. CASE isLong
      BY <1>1, <1>4, <1>7, <1>10, <2>1, <2>2, <3>1
    <3>2. CASE ~isLong
      BY <1>1, <1>4, <1>7, <1>10, <2>1, <2>2, <3>2
    <3> QED
      BY <3>1, <3>2
  <2> QED
    BY <2>3
<1>13. /\ cash' \in Int /\ profit' \in Int /\ miscounted' \in Int
       /\ cash' - cash + Counts(new) - Counts(position[s]) = profit' - profit + (miscounted' - miscounted)
  BY <1>11, <1>12 DEF old
<1>14. new.qty = 0 => new.value = 0 /\ new.fees = 0
  BY <1>8, <1>9
<1>15. Balanced'
  BY <1>1, <1>5, <1>8, <1>13, <1>14, BalanceMoves
<1>16. /\ position' \in [RunnerSymbols -> RunnerPosition] /\ position'[s] = new
       /\ \A y \in RunnerSymbols \ {s} : position'[y] = position[y]
  BY <1>1, <1>5, <1>8 DEF RunnerTyping
<1>17. Shares(s)' = r
  BY <1>8, <1>16 DEF Shares
<1>18. Change(o, q, r) /\ r # q
  BY <1>1, <1>2, <1>9 DEF Change, n, isLong
<1>19. r # 0 <=> Runner!Abs(q) - Runner!Sold(o) > 0
  BY <1>2, <1>3, <1>4, <1>9 DEF left, size
<1>20. (q > 0 => r >= 0) /\ (q < 0 => r <= 0)
  BY <1>1, <1>9 DEF isLong
<1> HIDE DEF r
<1> QED
  BY <1>1, <1>5, <1>13, <1>15, <1>16, <1>17, <1>18, <1>19, <1>20

-----------------------------------------------------------------------------
(* The honest runner: its steps. *)

RunnerInv == RunnerTyping /\ RunnerOrders /\ Balanced

(* An order fills at the open, in part, or waits.                           *)
LEMMA RunnerFills ==
  ASSUME BacktestConstants, RunnerConstants, RunnerInv, Runner!Fill
  PROVE  RunnerInv'
<1> PICK o : o = Head(queue)
  OBVIOUS
<1> DEFINE s == o.sym
           q == Shares(s)
<1>1. /\ queue # <<>> /\ o \in RunnerOrder /\ Fits(o, q) /\ phase = "open" /\ queue' = Tail(queue)
      /\ UNCHANGED <<setup, bar, phase, rows, undecided, close, borrowed>>
      /\ \/ /\ rows[s] = Runner!NoRow /\ pending' = Append(pending, o)
            /\ UNCHANGED <<cash, position, profit, miscounted, belief, stray>>
         \/ rows[s] # Runner!NoRow /\ UNCHANGED <<cash, position, profit, miscounted, pending, belief, stray>>
         \/ /\ rows[s] # Runner!NoRow /\ ~Exit(o)
            /\ \E k \in Nat \ {0}, p \in Nat : Runner!Adds(o, k, p)
         \/ /\ rows[s] # Runner!NoRow
            /\ (o.side = "SELL" /\ position[s].qty > 0) \/ (o.side = "BUY_TO_COVER" /\ position[s].qty < 0)
            /\ \E p \in Nat : Runner!Closes(o, p, Runner!Sold(o))
  BY FillSplits DEF RunnerInv
<1>2. RunnerTyping /\ RunnerOrders /\ Balanced
  BY DEF RunnerInv
<1>3. queue' \in Seq(RunnerOrder) /\ s \in RunnerSymbols /\ q = position[s].qty
  BY <1>1, <1>2, QueueIs, OrderIs DEF Shares
<1>4. SUFFICES /\ cash' \in Int /\ profit' \in Int /\ miscounted' \in Int /\ Balanced'
               /\ position' \in [RunnerSymbols -> RunnerPosition]
               /\ \A y \in RunnerSymbols \ {s} : position'[y] = position[y]
               /\ Change(o, q, Shares(s)') /\ Waits(o)
               /\ pending' # pending => \/ Shares(s)' = q /\ rows[s] = Runner!NoRow
                                        \/ ~Exit(o) /\ Shares(s)' # q
               /\ Shares(s)' # q => rows[s] # Runner!NoRow
               /\ pending' # pending => \A i \in DOMAIN pending' : i \notin DOMAIN pending =>
                    Fits(pending'[i], Shares(s)')
  <2>1. pending' \in Seq(RunnerOrder)
    BY <1>2, <1>4, PendingIs
  <2>2. RunnerTyping'
    BY <1>1, <1>2, <1>3, <1>4, <2>1 DEF RunnerTyping
  <2>3. RunnerOrders'
    BY <1>1, <1>2, <1>4, FillOrders
  <2> QED
    BY <1>4, <2>2, <2>3 DEF RunnerInv
<1> HIDE DEF s, q
<1>5. CASE rows[s] = Runner!NoRow /\ pending' = Append(pending, o) /\ UNCHANGED <<cash, position, profit, miscounted, belief, stray>>
  <2>1. Waits(o) /\ Shares(s)' = q /\ Change(o, q, Shares(s)')
    BY <1>1, <1>5 DEF Waits, Shares, q, Change, s
  <2>2. \A i \in DOMAIN pending' : i \notin DOMAIN pending => pending'[i] = o
    <3>1. /\ pending \in Seq(RunnerOrder) /\ Len(pending) \in Nat /\ DOMAIN pending = 1..Len(pending)
      BY <1>2, LenProperties DEF RunnerTyping
    <3>2. pending' \in Seq(RunnerOrder) /\ Len(pending') = Len(pending) + 1 /\ pending'[Len(pending) + 1] = o
      BY <1>1, <1>5, <3>1, AppendProperties
    <3>3. DOMAIN pending' = 1..(Len(pending) + 1)
      BY <3>2, LenProperties
    <3>4. \A i \in 1..(Len(pending) + 1) : i \notin 1..Len(pending) => i = Len(pending) + 1
      BY <3>1
    <3> QED
      BY <3>1, <3>2, <3>3, <3>4
  <2>3. Balanced'
    BY <1>1, <1>2, <1>5 DEF Balanced, Booked
  <2>4. cash' \in Int /\ profit' \in Int /\ miscounted' \in Int /\ position' = position /\ position \in [RunnerSymbols -> RunnerPosition]
    BY <1>2, <1>5 DEF RunnerTyping
  <2> QED
    BY <1>1, <1>5, <2>1, <2>2, <2>3, <2>4
<1>6. CASE rows[s] # Runner!NoRow /\ UNCHANGED <<cash, position, profit, miscounted, pending, belief, stray>>
  <2>1. Waits(o) /\ Shares(s)' = q /\ Change(o, q, Shares(s)')
    BY <1>6 DEF Waits, Shares, q, Change, s
  <2>2. Balanced'
    BY <1>1, <1>2, <1>6 DEF Balanced, Booked
  <2>3. cash' \in Int /\ profit' \in Int /\ miscounted' \in Int /\ position' = position /\ position \in [RunnerSymbols -> RunnerPosition]
    BY <1>2, <1>6 DEF RunnerTyping
  <2> QED
    BY <1>6, <2>1, <2>2, <2>3
<1>7. ASSUME rows[s] # Runner!NoRow, ~Exit(o), NEW k \in Nat \ {0}, NEW p \in Nat, Runner!Adds(o, k, p)
      PROVE  /\ cash' \in Int /\ profit' \in Int /\ miscounted' \in Int /\ Balanced'
             /\ position' \in [RunnerSymbols -> RunnerPosition]
             /\ \A y \in RunnerSymbols \ {s} : position'[y] = position[y]
             /\ Change(o, q, Shares(s)') /\ Waits(o)
             /\ Shares(s)' # q
             /\ \A i \in DOMAIN pending' : i \notin DOMAIN pending => Fits(pending'[i], Shares(s)')
  <2>1. /\ cash' \in Int /\ profit' \in Int /\ miscounted' \in Int /\ Balanced'
        /\ position' \in [RunnerSymbols -> RunnerPosition]
        /\ \A y \in RunnerSymbols \ {o.sym} : position'[y] = position[y]
        /\ Change(o, Shares(o.sym), Shares(o.sym)') /\ Shares(o.sym)' # Shares(o.sym) /\ Fits(o, Shares(o.sym)') /\ Waits(o)
    BY <1>1, <1>2, <1>7, EntryStep DEF q, s
  <2>2. ASSUME NEW i \in DOMAIN pending', i \notin DOMAIN pending PROVE Fits(pending'[i], Shares(s)')
    <3>1. pending'[i].side = o.side /\ ~Exit(pending'[i])
      BY <1>2, <1>7, <2>1, <2>2, PendingIs DEF Exit
    <3> QED
      BY <1>7, <2>1, <3>1 DEF Fits, Exit, s
  <2> QED
    BY <2>1, <2>2 DEF s, q
<1>8. ASSUME rows[s] # Runner!NoRow,
             (o.side = "SELL" /\ position[s].qty > 0) \/ (o.side = "BUY_TO_COVER" /\ position[s].qty < 0),
             NEW p \in Nat, Runner!Closes(o, p, Runner!Sold(o))
      PROVE  /\ cash' \in Int /\ profit' \in Int /\ miscounted' \in Int /\ Balanced'
             /\ position' \in [RunnerSymbols -> RunnerPosition]
             /\ \A y \in RunnerSymbols \ {s} : position'[y] = position[y]
             /\ Change(o, q, Shares(s)') /\ Waits(o) /\ pending' = pending
  <2>1. /\ cash' \in Int /\ profit' \in Int /\ miscounted' \in Int /\ Balanced'
        /\ position' \in [RunnerSymbols -> RunnerPosition]
        /\ \A y \in RunnerSymbols \ {o.sym} : position'[y] = position[y]
        /\ Change(o, Shares(o.sym), Shares(o.sym)') /\ pending' = pending
    <3>1. (o.side = "SELL" /\ Shares(o.sym) > 0) \/ (o.side = "BUY_TO_COVER" /\ Shares(o.sym) < 0)
      BY <1>8 DEF Shares, s
    <3> QED
      BY <1>1, <1>2, <1>8, <3>1, ExitStep DEF q, s
  <2> QED
    BY <2>1 DEF Waits, s, q
<1> QED
  BY <1>1, <1>5, <1>6, <1>7, <1>8

(* The bar ends: shorts pay borrow, the closes are noted.                   *)
LEMMA RunnerMarks ==
  ASSUME BacktestConstants, RunnerConstants, RunnerInv, Runner!Mark
  PROVE  RunnerInv'
<1> DEFINE marks == [s \in RunnerSymbols |-> IF rows[s] = Runner!NoRow THEN close[s] ELSE rows[s].close]
           carry == IF setup.multi THEN Runner!Carry(marks) ELSE 0
           f == [s \in RunnerSymbols |-> IF position[s].qty < 0 THEN (Runner!Notional(s, marks) * Borrow) \div 100 ELSE 0]
<1>1. /\ phase = "open" /\ queue = <<>> /\ phase' = "decide" /\ close' = marks /\ cash' = cash - carry /\ borrowed' = borrowed + carry
      /\ undecided' = {s \in RunnerSymbols : rows[s] # Runner!NoRow}
      /\ UNCHANGED <<setup, bar, rows, queue, pending, position, belief, profit, stray, miscounted>>
  BY DEF Runner!Mark
<1>2. RunnerTyping /\ RunnerOrders /\ Balanced
  BY DEF RunnerInv
<1>3. ASSUME NEW s \in RunnerSymbols
      PROVE  marks[s] \in Nat /\ (rows[s] # Runner!NoRow => marks[s] # 0)
  <2>1. CASE rows[s] = Runner!NoRow
    BY <1>2, <2>1 DEF RunnerTyping
  <2>2. CASE rows[s] # Runner!NoRow
    BY <1>2, <2>2, RowIs
  <2> QED
    BY <2>1, <2>2
<1>4. marks \in [RunnerSymbols -> Nat]
  BY <1>3
<1>5. \A s \in RunnerSymbols : f[s] \in Int
  <2>1. ASSUME NEW s \in RunnerSymbols PROVE f[s] \in Int
    <3>1. position[s].qty \in Int /\ marks[s] \in Nat /\ Borrow \in Nat
      BY <1>2, <1>3, PositionIs DEF RunnerConstants
    <3> HIDE DEF marks
    <3>2. Runner!Abs(position[s].qty) \in Int
      BY <3>1 DEF Runner!Abs
    <3>3. Runner!Notional(s, marks) * Borrow \in Int
      BY <3>1, <3>2 DEF Runner!Notional
    <3>4. (Runner!Notional(s, marks) * Borrow) \div 100 \in Int
      BY <3>3, Quotients
    <3> QED
      BY <3>4
  <2> QED
    BY <2>1
<1>6. carry \in Int
  <2>1. Runner!Carry(marks) = SumFunctionOnSet(f, RunnerSymbols)
    BY RunnerSum DEF Runner!Carry
  <2>2. IsFiniteSet(RunnerSymbols)
    BY DEF RunnerConstants
  <2> HIDE DEF f, marks
  <2>3. Runner!Carry(marks) \in Int
    BY <1>5, <2>1, <2>2, SumTakes
  <2> QED
    BY <2>3
<1> HIDE DEF carry, marks
<1>7. RunnerTyping'
  <2>1. cash' \in Int /\ borrowed' \in Int
    BY <1>1, <1>2, <1>6 DEF RunnerTyping
  <2>2. \A s \in undecided' : s \in RunnerSymbols /\ rows'[s] # Runner!NoRow /\ close'[s] # 0
    BY <1>1, <1>3
  <2> QED
    BY <1>1, <1>2, <1>4, <2>1, <2>2 DEF RunnerTyping
<1>8. RunnerOrders'
  BY <1>1, <1>2 DEF RunnerOrders, Settled, Shares
<1>9. Balanced'
  <2> DEFINE F == SumFunctionOnSet(Booked, RunnerSymbols)
  <2>1. Booked' = Booked /\ \A s \in RunnerSymbols : position'[s] = position[s]
    BY <1>1 DEF Booked
  <2>2. F \in Int
    <3>1. \A s \in RunnerSymbols : Booked[s] \in Int
      BY <1>2, CountsType DEF RunnerTyping, Booked
    <3>2. IsFiniteSet(RunnerSymbols)
      BY DEF RunnerConstants
    <3> QED
      BY <3>1, <3>2, SumTakes
  <2>3. cash + F = InitialBalance + profit - borrowed + miscounted
    BY <1>2 DEF Balanced
  <2>4. cash \in Int /\ InitialBalance \in Int /\ profit \in Int /\ borrowed \in Int /\ miscounted \in Int
    BY <1>2 DEF RunnerTyping, BacktestConstants
  <2> HIDE DEF F
  <2>5. cash' + F = InitialBalance + profit' - borrowed' + miscounted'
    BY <1>1, <1>6, <2>2, <2>3, <2>4
  <2> QED
    BY <1>1, <1>2, <2>1, <2>5 DEF Balanced, F
<1> QED
  BY <1>7, <1>8, <1>9 DEF RunnerInv

(* The equity is an integer.                                                *)
LEMMA EquityType ==
  ASSUME RunnerConstants, RunnerTyping
  PROVE  Runner!Equity \in Int
<1> DEFINE f == [s \in RunnerSymbols |-> position[s].qty * close[s]]
<1>1. \A s \in RunnerSymbols : f[s] \in Int
  <2>1. ASSUME NEW s \in RunnerSymbols PROVE f[s] \in Int
    <3>1. position[s].qty \in Int /\ close[s] \in Nat
      BY PositionIs DEF RunnerTyping
    <3> QED
      BY <3>1
  <2> QED
    BY <2>1
<1>2. IsFiniteSet(RunnerSymbols) /\ cash \in Int
  BY DEF RunnerConstants, RunnerTyping
<1>3. Runner!SumFunction(f) = SumFunctionOnSet(f, RunnerSymbols)
  BY RunnerSum
<1>4. Runner!Equity = cash + SumFunctionOnSet(f, RunnerSymbols)
  BY <1>3 DEF Runner!Equity
<1> HIDE DEF f
<1> QED
  BY <1>1, <1>2, <1>4, SumTakes

(* What a signal orders.                                                    *)
LEMMA OrderedIs ==
  ASSUME BacktestConstants, RunnerConstants, RunnerTyping, NEW s \in undecided, NEW action
  PROVE  \/ Runner!Ordered(s, action) = <<>>
         \/ \E w \in RunnerOrder :
              /\ Runner!Ordered(s, action) = <<w>> /\ w.sym = s /\ Fits(w, Shares(s))
              /\ ~Exit(w) => Shares(s) = 0
<1> DEFINE q == Shares(s)
<1>1. s \in RunnerSymbols /\ q \in Int /\ close[s] \in Nat /\ close[s] # 0
  BY PositionIs DEF RunnerTyping, Shares
<1>2. Runner!Quantity(s) \in Int
  <2>1. Runner!Equity \in Int /\ RunnerFraction \in Nat
    BY EquityType DEF RunnerConstants
  <2>2. Runner!Equity * RunnerFraction \in Int /\ 100 * close[s] \in Nat \ {0}
    BY <1>1, <2>1
  <2> QED
    BY <2>2, Quotients DEF Runner!Quantity
<1>3. CASE Runner!Entry(action) /\ position[s].qty = 0 /\ Runner!Quantity(s) > 0
  <2> DEFINE w == Runner!Order(s, action, Runner!Quantity(s))
  <2>1. action \notin {"SELL", "BUY_TO_COVER"}
    BY <1>3 DEF Runner!Entry
  <2>2. Runner!Ordered(s, action) = <<w>>
    BY <1>3, <2>1 DEF Runner!Ordered
  <2>3. w \in RunnerOrder /\ w.sym = s /\ w.side = action /\ ~Exit(w) /\ q = 0
    BY <1>1, <1>2, <1>3 DEF Runner!Order, RunnerOrder, Runner!Entry, Exit, Shares
  <2>4. Fits(w, q)
    BY <2>3 DEF Fits, Exit
  <2> QED
    BY <2>2, <2>3, <2>4
<1>4. CASE action \in {"SELL", "BUY_TO_COVER"} /\ position[s].qty # 0
  <2> DEFINE n == IF action = "SELL" THEN position[s].qty ELSE Runner!Abs(position[s].qty)
             w == Runner!Order(s, action, n)
  <2>1. ~Runner!Entry(action)
    BY <1>4 DEF Runner!Entry
  <2>2. Runner!Ordered(s, action) = <<w>>
    BY <1>4, <2>1 DEF Runner!Ordered
  <2>3. q = position[s].qty /\ n = (IF action = "SELL" THEN q ELSE IF q < 0 THEN -q ELSE q) /\ n \in Int
    BY <1>1 DEF Shares, Runner!Abs
  <2> HIDE DEF n, q
  <2>4. w \in RunnerOrder /\ w.sym = s /\ w.side = action /\ Exit(w) /\ w.qty = n
    BY <1>1, <1>4, <2>3 DEF Runner!Order, RunnerOrder, Exit
  <2>5. Fits(w, q)
    BY <1>1, <1>4, <2>3, <2>4 DEF Fits, Exit
  <2> QED
    BY <2>2, <2>4, <2>5 DEF q
<1>5. CASE /\ ~(Runner!Entry(action) /\ position[s].qty = 0 /\ Runner!Quantity(s) > 0)
           /\ ~(action \in {"SELL", "BUY_TO_COVER"} /\ position[s].qty # 0)
  <2>1. Runner!Ordered(s, action) = <<>>
    BY <1>5 DEF Runner!Ordered
  <2> QED
    BY <2>1
<1> QED
  BY <1>3, <1>4, <1>5

(* The strategy sees a bar, and its signal may become an order.             *)
LEMMA RunnerDecides ==
  ASSUME BacktestConstants, RunnerConstants, RunnerInv, NEW s \in RunnerSymbols, NEW view, Runner!Decide(s, view)
  PROVE  RunnerInv'
<1> DEFINE answer == Runner!OnBar(setup.profile, belief[s], rows[s].close, rows[s].atr, view)
           x == Runner!Ordered(s, answer.action)
<1>1. /\ phase = "decide" /\ s \in undecided /\ pending' = pending \o x /\ undecided' = undecided \ {s}
      /\ UNCHANGED <<setup, bar, phase, rows, queue, cash, position, profit, miscounted, close, borrowed, stray>>
  BY DEF Runner!Decide, Runner!books
<1>2. RunnerTyping /\ RunnerOrders /\ Balanced
  BY DEF RunnerInv
<1>3. queue = <<>> /\ DOMAIN queue = {} /\ Settled(s)
  BY <1>1, <1>2 DEF RunnerTyping, Settled
<1>4. \/ x = <<>>
      \/ \E w \in RunnerOrder : x = <<w>> /\ w.sym = s /\ Fits(w, Shares(s)) /\ (~Exit(w) => Shares(s) = 0)
  BY <1>1, <1>2, OrderedIs
<1> HIDE DEF x
<1>5. pending \in Seq(RunnerOrder)
  BY <1>2 DEF RunnerTyping
<1>6. Balanced'
  BY <1>1, <1>2 DEF Balanced, Booked
<1>7. CASE x = <<>>
  <2>1. pending' = pending
    BY <1>1, <1>5, <1>7, ConcatEmptySeq
  <2>2. RunnerTyping'
    BY <1>1, <1>2, <2>1 DEF RunnerTyping
  <2>3. RunnerOrders'
    BY <1>1, <1>2, <2>1 DEF RunnerOrders, Settled, Shares
  <2> QED
    BY <1>6, <2>2, <2>3 DEF RunnerInv
<1>8. ASSUME NEW w \in RunnerOrder, x = <<w>>, w.sym = s, Fits(w, Shares(s)), ~Exit(w) => Shares(s) = 0
      PROVE  RunnerInv'
  <2>1. pending' = Append(pending, w)
    BY <1>1, <1>5, <1>8, AppendIsConcat
  <2>2. /\ pending' \in Seq(RunnerOrder) /\ Len(pending') = Len(pending) + 1 /\ pending'[Len(pending) + 1] = w
        /\ (\A i \in 1..Len(pending) : pending'[i] = pending[i]) /\ Len(pending) \in Nat /\ DOMAIN pending = 1..Len(pending)
    BY <1>5, <1>8, <2>1, AppendProperties, LenProperties
  <2>3. DOMAIN pending' = 1..(Len(pending) + 1)
    BY <2>2, LenProperties
  <2>4. \A i \in DOMAIN pending' :
          \/ i \in DOMAIN pending /\ pending'[i] = pending[i]
          \/ i = Len(pending) + 1 /\ pending'[i] = w
    <3>1. \A i \in 1..(Len(pending) + 1) : i \in 1..Len(pending) \/ i = Len(pending) + 1
      BY <2>2
    <3> QED
      BY <2>2, <2>3, <3>1
  <2>5. RunnerTyping'
    BY <1>1, <1>2, <2>2 DEF RunnerTyping
  <2>6. \A i \in DOMAIN pending : Apart(pending[i], w) /\ Apart(w, pending[i])
    <3>1. ASSUME NEW i \in DOMAIN pending, pending[i].sym = s PROVE Exit(w) /\ ~Exit(pending[i])
      BY <1>2, <1>3, <1>8, <3>1 DEF RunnerOrders
    <3> QED
      BY <1>8, <3>1 DEF Apart
  <2>7. \A i, j \in DOMAIN pending' : i # j => Apart(pending'[i], pending'[j])
    BY <1>2, <2>4, <2>6 DEF RunnerOrders
  <2>8. \A i \in DOMAIN pending' : Fits(pending'[i], position'[pending'[i].sym].qty)
    BY <1>1, <1>2, <1>8, <2>4 DEF RunnerOrders, Shares
  <2>9. ASSUME NEW j \in DOMAIN pending', rows'[pending'[j].sym] # Runner!NoRow,
               phase' = "open" \/ pending'[j].sym \in undecided'
        PROVE  ~Exit(pending'[j]) /\ position'[pending'[j].sym].qty # 0
    <3>1. pending'[j].sym \in undecided /\ pending'[j].sym # s
      BY <1>1, <2>9
    <3>2. pending'[j] = pending[j] /\ j \in DOMAIN pending
      BY <1>8, <2>4, <3>1
    <3> QED
      BY <1>1, <1>2, <2>9, <3>1, <3>2 DEF RunnerOrders, Settled, Shares
  <2>10. RunnerOrders'
    <3>1. DOMAIN queue' = {}
      BY <1>1, <1>3
    <3> QED
      BY <2>7, <2>8, <2>9, <3>1 DEF RunnerOrders, Settled, Shares
  <2> QED
    BY <1>6, <2>5, <2>10 DEF RunnerInv
<1> QED
  BY <1>4, <1>7, <1>8

(* The next bar comes and what waited is tried.                             *)
LEMMA RunnerTurns ==
  ASSUME BacktestConstants, RunnerConstants, RunnerInv,
         NEW r \in [RunnerSymbols -> Rows \cup {Runner!NoRow}], Runner!NextBar(r)
  PROVE  RunnerInv'
<1>1. /\ phase = "decide" /\ undecided = {} /\ phase' = "open" /\ rows' = r /\ queue' = pending /\ pending' = <<>>
      /\ UNCHANGED <<setup, undecided, cash, position, profit, miscounted, close, belief, borrowed, stray>>
  BY DEF Runner!NextBar, Runner!books
<1>2. RunnerTyping /\ RunnerOrders /\ Balanced
  BY DEF RunnerInv
<1>3. pending' \in Seq(RunnerOrder) /\ DOMAIN pending' = {}
  BY <1>1
<1>4. RunnerTyping'
  BY <1>1, <1>2, <1>3 DEF RunnerTyping
<1>5. RunnerOrders'
  BY <1>1, <1>2, <1>3 DEF RunnerOrders, Shares
<1>6. Balanced'
  BY <1>1, <1>2 DEF Balanced, Booked
<1> QED
  BY <1>4, <1>5, <1>6 DEF RunnerInv

(* The run begins with the whole balance in cash.                           *)
LEMMA RunnerBegins ==
  ASSUME BacktestConstants, RunnerConstants, Runner!Init
  PROVE  RunnerInv
<1>1. /\ setup \in Setups /\ phase = "open" /\ rows \in [RunnerSymbols -> Rows] /\ queue = <<>> /\ pending = <<>> /\ undecided = {}
      /\ cash = InitialBalance /\ position = [s \in RunnerSymbols |-> Runner!NoPosition] /\ close = [s \in RunnerSymbols |-> 0]
      /\ profit = 0 /\ borrowed = 0 /\ miscounted = 0
  BY DEF Runner!Init
<1>2. Runner!NoPosition \in RunnerPosition /\ Counts(Runner!NoPosition) = 0
      /\ Runner!NoPosition.qty = 0 /\ Runner!NoPosition.value = 0 /\ Runner!NoPosition.fees = 0
  BY DEF Runner!NoPosition, RunnerPosition, Counts
<1>3. RunnerTyping
  <2>1. queue \in Seq(RunnerOrder) /\ pending \in Seq(RunnerOrder)
    BY <1>1
  <2>2. position \in [RunnerSymbols -> RunnerPosition] /\ close \in [RunnerSymbols -> Nat]
    BY <1>1, <1>2
  <2>3. rows \in [RunnerSymbols -> Rows \cup {Runner!NoRow}]
    BY <1>1
  <2>4. cash \in Int
    BY <1>1 DEF BacktestConstants
  <2> QED
    BY <1>1, <2>1, <2>2, <2>3, <2>4 DEF RunnerTyping
<1>4. RunnerOrders
  <2>1. DOMAIN queue = {} /\ DOMAIN pending = {}
    BY <1>1
  <2> QED
    BY <2>1 DEF RunnerOrders
<1>5. Balanced
  <2>1. \A s \in RunnerSymbols : Booked[s] = 0 /\ position[s] = Runner!NoPosition
    BY <1>1, <1>2 DEF Booked
  <2>2. SumFunctionOnSet(Booked, RunnerSymbols) = 0
    BY <2>1, SumOfZeros DEF RunnerConstants
  <2>3. InitialBalance \in Int
    BY DEF BacktestConstants
  <2> QED
    BY <1>1, <1>2, <2>1, <2>2, <2>3 DEF Balanced
<1> QED
  BY <1>3, <1>4, <1>5 DEF RunnerInv

(* Nothing changes.                                                         *)
LEMMA RunnerStays ==
  ASSUME RunnerInv, UNCHANGED Runner!vars
  PROVE  RunnerInv'
BY DEF RunnerInv, RunnerTyping, RunnerOrders, Settled, Shares, Balanced, Booked, Runner!vars

(* Every step of the runner keeps the invariant.                            *)
LEMMA RunnerSteps ==
  ASSUME BacktestConstants, RunnerConstants, RunnerInv, Runner!Next
  PROVE  RunnerInv'
BY RunnerFills, RunnerMarks, RunnerDecides, RunnerTurns DEF Runner!Next

(* A behaviour of the runner part is one of the runner.                     *)
LEMMA OnlyRunnerRuns ==
  /\ BooksInit /\ part = "runner" => Runner!Init
  /\ [BooksNext]_books /\ part' = "runner" => part = "runner" /\ [Runner!Next]_(Runner!vars)
<1>1. BooksInit /\ part = "runner" => Runner!Init
  BY DEF BooksInit
<1>2. ASSUME BooksNext, part' = "runner" PROVE part = "runner" /\ Runner!Next
  BY <1>2 DEF BooksNext, LedgerRuns, PaperRuns, BacktestRuns, RunnerRuns, ExposureRuns
<1>3. ASSUME UNCHANGED books, part' = "runner" PROVE part = "runner" /\ UNCHANGED Runner!vars
  BY <1>3 DEF books, shared, runner, Runner!vars
<1> QED
  BY <1>1, <1>2, <1>3

(* The invariant holds in every behaviour of the runner part.               *)
LEMMA RunnerAlways == BooksSpec => [](part = "runner" => RunnerInv)
<1>1. BooksInit => (part = "runner" => RunnerInv)
  BY OnlyRunnerRuns, RunnerBegins, BacktestConstants, RunnerConstants
<1>2. (part = "runner" => RunnerInv) /\ [BooksNext]_books => (part = "runner" => RunnerInv)'
  BY OnlyRunnerRuns, RunnerSteps, RunnerStays, BacktestConstants, RunnerConstants
<1> QED
  BY <1>1, <1>2, PTL DEF BooksSpec

(* HonestRunner, for every strategy, data set and cost: the recorded trades, *)
(* the borrow and what is open account for the cash, and no entry meets a   *)
(* position of the other direction, however remainders, exits and missing   *)
(* rows interleave.                                                         *)
THEOREM BalanceExplained == BooksSpec => []BalanceIsExplained
<1>1. (part = "runner" => RunnerInv) => BalanceIsExplained
  <2>1. RunnerOrders => Runner!NeverFlips
    BY DEF RunnerOrders, Runner!NeverFlips, Fits, Shares
  <2> QED
    BY <2>1, BalancedIsTheReport DEF BalanceIsExplained, Runner!BalanceIsExplained, RunnerInv
<1> QED
  BY <1>1, RunnerAlways, PTL

-----------------------------------------------------------------------------
(* The honest runner: what the strategy believes. *)

Directions == {"flat", "long", "short"}
Belief == [holding : BOOLEAN, dir : Directions, age : Int, entry : Int,
           high : Int, low : Int, floor : Int, ceiling : Int]

(* A belief b about q shares; x: the symbol is stray.                       *)
Match(b, q, x) ==
  /\ b.holding /\ q # 0 => (Runner!Long(setup.profile, b) <=> q > 0)
  /\ setup.multi /\ x => ~b.holding
  /\ setup.multi /\ ~x => (b.holding <=> q # 0)
  /\ ~setup.multi => (x <=> ~(b.holding <=> q # 0))

(* A strategy that sells nothing short holds nothing short.                 *)
LongOnly ==
  ~setup.profile.shorts =>
    /\ \A i \in DOMAIN queue : queue[i].side # "SELL_SHORT"
    /\ \A i \in DOMAIN pending : pending[i].side # "SELL_SHORT"
    /\ \A s \in RunnerSymbols : Shares(s) >= 0

InStep ==
  /\ RunnerInv
  /\ belief \in [RunnerSymbols -> Belief]
  /\ LongOnly
  /\ \A s \in RunnerSymbols : Match(belief[s], Shares(s), s \in stray)
  /\ Runner!BreachIsSold

(* The parts of a setup.                                                    *)
LEMMA SetupIs ==
  ASSUME RunnerConstants, RunnerTyping
  PROVE  /\ setup.profile \in Profile /\ setup.multi \in BOOLEAN
         /\ setup.profile.shorts \in BOOLEAN /\ setup.profile.width \in Nat /\ setup.profile.clock \in BOOLEAN
         /\ setup.profile.rule \in {"trail", "peak", "ratchet", "fixed"} /\ setup.profile.leaves \in BOOLEAN
         /\ ~setup.multi => ~setup.profile.shorts
<1>1. setup \in [profile : Profile, multi : BOOLEAN] /\ (~setup.multi => ~setup.profile.shorts)
  BY DEF RunnerConstants, RunnerTyping
<1>2. setup.profile \in Profile /\ setup.multi \in BOOLEAN
  BY <1>1
<1> QED
  BY <1>1, <1>2 DEF Profile

(* The ways a belief is rewritten.                                          *)
Reopened(b, d, i) == [b EXCEPT !.holding = TRUE, !.dir = d, !.age = i]
Rewound(b, i, j) == [b EXCEPT !.high = i, !.low = j, !.floor = i, !.ceiling = j]
Turned(b, d) == [b EXCEPT !.dir = d]
Costed(b, d, i) == [b EXCEPT !.dir = d, !.entry = i]
Raised(b, d, i) == [b EXCEPT !.dir = d, !.high = i]
Lowered(b, d, i) == [b EXCEPT !.dir = d, !.low = i]

(* A belief that is opened,                                                 *)
LEMMA ReopenedIs ==
  ASSUME NEW b \in Belief, NEW d \in Directions, NEW i \in Int
  PROVE  Reopened(b, d, i) \in Belief /\ Reopened(b, d, i).holding /\ Reopened(b, d, i).dir = d
BY DEF Belief, Reopened

(* ... whose extremes are forgotten,                                        *)
LEMMA RewoundIs ==
  ASSUME NEW b \in Belief, NEW i \in Int, NEW j \in Int
  PROVE  Rewound(b, i, j) \in Belief /\ Rewound(b, i, j).holding = b.holding /\ Rewound(b, i, j).dir = b.dir
BY DEF Belief, Rewound

(* ... or that notes a signal, is a belief.                                 *)
LEMMA TurnedIs ==
  ASSUME NEW b \in Belief, NEW d \in Directions, NEW i \in Int
  PROVE  /\ Turned(b, d) \in Belief /\ Turned(b, d).holding = b.holding
         /\ Costed(b, d, i) \in Belief /\ Costed(b, d, i).holding = b.holding
         /\ Raised(b, d, i) \in Belief /\ Raised(b, d, i).holding = b.holding
         /\ Lowered(b, d, i) \in Belief /\ Lowered(b, d, i).holding = b.holding
BY DEF Belief, Turned, Costed, Raised, Lowered

(* A fill that enters is believed, one that does not empties the belief.    *)
LEMMA FillBelief ==
  ASSUME RunnerConstants, NEW p \in Profile, NEW b \in Belief, NEW cost \in Nat, NEW side,
         NEW c, c = Runner!OnOrderFill(p, b, side, cost)
  PROVE  /\ c \in Belief
         /\ c.holding <=> side \in Runner!Entries(p) \/ (side = "none" /\ ~b.holding)
         /\ c.holding => c.dir = Runner!Direction(side, b.dir)
<1> DEFINE enters == side \in Runner!Entries(p) \/ (side = "none" /\ ~b.holding)
           d == Runner!Direction(side, b.dir)
           o == [b EXCEPT !.holding = TRUE, !.dir = d, !.age = 0]
           e == IF cost > 0 THEN cost ELSE o.entry
           a == [o EXCEPT !.entry = e]
           u == [a EXCEPT !.high = 0, !.low = Far, !.floor = 0, !.ceiling = Far]
<1>1. CASE ~enters
  <2>1. c = Runner!NoBelief
    BY <1>1 DEF Runner!OnOrderFill, Runner!Flattened
  <2>2. Far \in Int
    BY DEF RunnerConstants
  <2> QED
    BY <1>1, <2>1, <2>2 DEF Runner!NoBelief, Belief, Directions
<1>2. CASE enters
  <2>1. Far \in Int
    BY DEF RunnerConstants
  <2>2. d \in Directions
    BY DEF Belief, Directions, Runner!Direction
  <2>4. o = Runner!Opened(b, side)
    BY DEF Runner!Opened
  <2> HIDE DEF d
  <2>3. o \in Belief /\ o.holding /\ o.dir = d
    <3>1. o = Reopened(b, d, 0)
      BY DEF Reopened
    <3> HIDE DEF o
    <3> QED
      BY <2>2, <3>1, ReopenedIs
  <2>6. a = Runner!Anchored(o, cost)
    BY DEF Runner!Anchored
  <2> HIDE DEF o
  <2>11. e \in Int
    BY <2>3 DEF Belief
  <2> HIDE DEF e
  <2>5. a \in Belief /\ a.holding /\ a.dir = d
    BY <2>3, <2>11 DEF Belief
  <2> HIDE DEF a
  <2>7. u \in Belief /\ u.holding /\ u.dir = d
    <3>1. u = Rewound(a, 0, Far)
      BY DEF Rewound
    <3> HIDE DEF u
    <3> QED
      BY <2>1, <2>5, <3>1, RewoundIs
  <2>8. u = Runner!Unratcheted(a)
    BY DEF Runner!Unratcheted
  <2> HIDE DEF u
  <2>9. c = Runner!Entered(p, b, side, cost)
    BY <1>2 DEF Runner!OnOrderFill
  <2>10. c = u \/ c = a \/ c = o
    BY <2>4, <2>6, <2>8, <2>9 DEF Runner!Entered
  <2> QED
    BY <1>2, <2>3, <2>5, <2>7, <2>10 DEF d
<1> QED
  BY <1>1, <1>2

(* A bar leaves what is held and its direction alone, and answers a breach  *)
(* with the exit; a short sale is only signalled by a strategy that sells   *)
(* short.                                                                   *)
LEMMA BarBelief ==
  ASSUME RunnerConstants, NEW p \in Profile, NEW b \in Belief, NEW cost \in Nat, NEW atr \in Nat, NEW view,
         NEW a, a = Runner!OnBar(p, b, cost, atr, view)
  PROVE  /\ a.belief \in Belief /\ a.belief.holding = b.holding
         /\ b.holding => /\ a.belief.dir = b.dir
                         /\ Runner!Expired(p, a.belief) \/ Runner!StopHit(p, a.belief, cost)
                              => a.action = Runner!Closing(p, a.belief)
         /\ a.action = "SELL_SHORT" => p.shorts
<1>1. CASE b.holding
  <2> DEFINE aged == [b EXCEPT !.age = IF p.clock THEN @ + 1 ELSE 0]
             now == Runner!Tracked(p, aged, cost, atr)
  <2>1. aged \in Belief /\ aged.holding = b.holding /\ aged.dir = b.dir
    BY DEF Belief
  <2> HIDE DEF aged
  <2>2. Runner!Trailed(p, aged, cost) \in Belief /\ Runner!Trailed(p, aged, cost).holding = b.holding
        /\ Runner!Trailed(p, aged, cost).dir = b.dir
    BY <2>1 DEF Runner!Trailed, Runner!Higher, Runner!Lower, Belief
  <2>3. Runner!Ratcheted(p, aged, cost, atr) \in Belief /\ Runner!Ratcheted(p, aged, cost, atr).holding = b.holding
        /\ Runner!Ratcheted(p, aged, cost, atr).dir = b.dir
    <3> DEFINE high == IF aged.high = 0 THEN Runner!Higher(Runner!Anchor(aged, cost), cost) ELSE Runner!Higher(aged.high, cost)
               low == IF aged.low = Far THEN Runner!Lower(Runner!Anchor(aged, cost), cost) ELSE Runner!Lower(aged.low, cost)
               span == p.width * atr
    <3>1. aged.high \in Int /\ aged.low \in Int /\ aged.entry \in Int /\ aged.floor \in Int /\ aged.ceiling \in Int
      BY <2>1 DEF Belief
    <3>2. high \in Int /\ low \in Int
      BY <3>1 DEF Runner!Anchor, Runner!Higher, Runner!Lower
    <3>3. span \in Int
      <4>1. p.width \in Nat
        BY DEF Profile
      <4> QED
        BY <4>1
    <3>4. Runner!Ratcheted(p, aged, cost, atr) =
            IF Runner!Long(p, aged)
            THEN [aged EXCEPT !.high = high, !.floor = Runner!Higher(@, high - span)]
            ELSE [aged EXCEPT !.low = low, !.ceiling = Runner!Lower(@, low + span)]
      BY DEF Runner!Ratcheted
    <3> HIDE DEF high, low, span
    <3>5. Runner!Higher(aged.floor, high - span) \in Int /\ Runner!Lower(aged.ceiling, low + span) \in Int
      BY <3>1, <3>2, <3>3 DEF Runner!Higher, Runner!Lower
    <3> QED
      BY <2>1, <3>2, <3>4, <3>5 DEF Belief
  <2>4. now \in Belief /\ now.holding = b.holding /\ now.dir = b.dir
    BY <2>1, <2>2, <2>3 DEF Runner!Tracked
  <2>5. a = Runner!Answer(now, IF Runner!Expired(p, now) \/ Runner!StopHit(p, now, cost) \/ (p.leaves /\ view = "out")
                               THEN Runner!Closing(p, now) ELSE "HOLD")
    BY <1>1 DEF Runner!OnBar, aged
  <2> HIDE DEF now
  <2>6. a.belief = now /\ a.action = IF Runner!Expired(p, now) \/ Runner!StopHit(p, now, cost) \/ (p.leaves /\ view = "out")
                                     THEN Runner!Closing(p, now) ELSE "HOLD"
    BY <2>5 DEF Runner!Answer
  <2>7. a.action # "SELL_SHORT"
    BY <2>6 DEF Runner!Closing
  <2> QED
    BY <2>4, <2>6, <2>7
<1>2. CASE ~b.holding
  <2> DEFINE N(dir) == Runner!Noted(p, b, dir, cost)
  <2>1. ASSUME NEW dir \in {"long", "short"} PROVE N(dir) \in Belief /\ N(dir).holding = b.holding
    <3>1. \/ N(dir) = Costed(b, dir, cost) \/ N(dir) = Raised(b, dir, cost)
          \/ N(dir) = Lowered(b, dir, cost) \/ N(dir) = Turned(b, dir)
      BY <2>1 DEF Runner!Noted, Costed, Raised, Lowered, Turned
    <3> HIDE DEF N
    <3> QED
      BY <2>1, <3>1, TurnedIs DEF Directions
  <2> HIDE DEF N
  <2>2. a = CASE view = "up" -> Runner!Answer(N("long"), "BUY")
              [] view = "down" /\ p.shorts -> Runner!Answer(N("short"), "SELL_SHORT")
              [] OTHER -> Runner!Answer(b, "HOLD")
    BY <1>2 DEF Runner!OnBar, N
  <2>3. CASE view = "up"
    <3>1. a = Runner!Answer(N("long"), "BUY")
      BY <2>2, <2>3
    <3> QED
      BY <1>2, <2>1, <3>1 DEF Runner!Answer
  <2>4. CASE view = "down" /\ p.shorts
    <3>1. a = Runner!Answer(N("short"), "SELL_SHORT")
      BY <2>2, <2>4
    <3> QED
      BY <1>2, <2>1, <2>4, <3>1 DEF Runner!Answer
  <2>5. CASE view # "up" /\ ~(view = "down" /\ p.shorts)
    <3>1. a = Runner!Answer(b, "HOLD")
      BY <2>2, <2>5
    <3> QED
      BY <1>2, <3>1 DEF Runner!Answer
  <2> QED
    BY <2>3, <2>4, <2>5
<1> QED
  BY <1>1, <1>2 DEF Belief

(* A strategy told of a fill: with its side it follows it, without one it   *)
(* turns round.                                                             *)
LEMMA ToldIs ==
  ASSUME RunnerTyping, RunnerConstants, belief \in [RunnerSymbols -> Belief], NEW s \in RunnerSymbols,
         NEW side \in {"BUY", "SELL_SHORT", "SELL", "BUY_TO_COVER"}, NEW cost \in Nat, Runner!Tell(s, side, cost)
  PROVE  /\ belief' \in [RunnerSymbols -> Belief] /\ \A y \in RunnerSymbols \ {s} : belief'[y] = belief[y]
         /\ setup.multi => /\ belief'[s].holding <=> side \in Runner!Entries(setup.profile)
                           /\ belief'[s].holding => belief'[s].dir = Runner!Direction(side, belief[s].dir)
         /\ ~setup.multi => (belief'[s].holding <=> ~belief[s].holding)
<1> DEFINE b == belief[s]
           told == Runner!OnOrderFill(setup.profile, b, side, cost)
           blind == Runner!OnOrderFill(setup.profile, b, "none", 0)
           c == IF setup.multi THEN told ELSE blind
<1>1. b \in Belief /\ setup.profile \in Profile
  BY SetupIs
<1>2. /\ told \in Belief
      /\ told.holding <=> side \in Runner!Entries(setup.profile)
      /\ told.holding => told.dir = Runner!Direction(side, b.dir)
  <2> HIDE DEF b
  <2> QED
    BY <1>1, FillBelief
<1>3. blind \in Belief /\ (blind.holding <=> ~b.holding)
  <2> HIDE DEF b
  <2>1. blind \in Belief /\ (blind.holding <=> "none" \in Runner!Entries(setup.profile) \/ ("none" = "none" /\ ~b.holding))
    BY <1>1, FillBelief
  <2>2. "none" \notin Runner!Entries(setup.profile)
    BY DEF Runner!Entries
  <2> QED
    BY <2>1, <2>2
<1>4. belief' = [belief EXCEPT ![s] = c]
  BY DEF Runner!Tell
<1> HIDE DEF told, blind, b
<1>5. c \in Belief
  BY <1>2, <1>3
<1>6. belief' \in [RunnerSymbols -> Belief] /\ belief'[s] = c /\ \A y \in RunnerSymbols \ {s} : belief'[y] = belief[y]
  BY <1>4, <1>5
<1> QED
  BY <1>2, <1>3, <1>6 DEF b

(* An entry fill: told with its side, the strategy holds what the account   *)
(* holds; told without, belief and account drift apart or together, which   *)
(* stray records.                                                           *)
LEMMA EntryMatches ==
  ASSUME RunnerTyping, RunnerConstants, belief \in [RunnerSymbols -> Belief], NEW s \in RunnerSymbols,
         NEW side \in {"BUY", "SELL_SHORT"}, ~setup.profile.shorts => side # "SELL_SHORT",
         NEW cost \in Nat, Runner!Tell(s, side, cost), NEW q \in Int, NEW r \in Int,
         Match(belief[s], q, s \in stray), stray' = Runner!Misled(s, FALSE, q # 0),
         r # 0, side = "BUY" <=> r > 0
  PROVE  Match(belief'[s], r, s \in stray') /\ \A y : y # s => (y \in stray' <=> y \in stray)
<1>1. /\ setup.multi => /\ belief'[s].holding <=> side \in Runner!Entries(setup.profile)
                        /\ belief'[s].holding => belief'[s].dir = Runner!Direction(side, belief[s].dir)
      /\ ~setup.multi => (belief'[s].holding <=> ~belief[s].holding)
  BY ToldIs
<1>2. setup.multi \in BOOLEAN /\ setup.profile.shorts \in BOOLEAN /\ (~setup.multi => ~setup.profile.shorts)
  BY SetupIs
<1>3. CASE setup.multi
  <2>1. stray' = stray \ {s}
    BY <1>3 DEF Runner!Misled
  <2>2. belief'[s].holding /\ belief'[s].dir = IF side = "BUY" THEN "long" ELSE "short"
    BY <1>1, <1>2, <1>3 DEF Runner!Entries, Runner!Direction
  <2>3. Runner!Long(setup.profile, belief'[s]) <=> r > 0
    BY <1>2, <2>2 DEF Runner!Long
  <2> QED
    BY <1>3, <2>1, <2>2, <2>3 DEF Match
<1>4. CASE ~setup.multi
  <2>1. side = "BUY" /\ r > 0 /\ Runner!Long(setup.profile, belief'[s])
    BY <1>2, <1>4 DEF Runner!Long
  <2>2. stray' = IF q # 0 THEN (stray \ {s}) \cup ({s} \ stray) ELSE stray
    BY <1>4 DEF Runner!Misled, Runner!SymDiff
  <2>3. (s \in stray' <=> ~(s \in stray <=> q # 0)) /\ \A y : y # s => (y \in stray' <=> y \in stray)
    BY <2>2
  <2> QED
    BY <1>1, <1>4, <2>1, <2>3 DEF Match
<1> QED
  BY <1>3, <1>4

(* An exit fill empties the belief, also when it leaves shares.             *)
LEMMA ExitMatches ==
  ASSUME RunnerTyping, RunnerConstants, belief \in [RunnerSymbols -> Belief], NEW s \in RunnerSymbols,
         NEW cost \in Nat, NEW q \in Int, NEW r \in Int, q # 0, ~setup.profile.shorts => q > 0,
         NEW side, side = IF q > 0 THEN "SELL" ELSE "BUY_TO_COVER", Runner!Tell(s, side, cost),
         Match(belief[s], q, s \in stray), stray' = Runner!Misled(s, TRUE, r # 0), q > 0 => r >= 0
  PROVE  Match(belief'[s], r, s \in stray') /\ \A y : y # s => (y \in stray' <=> y \in stray)
<1>1. /\ setup.multi => (belief'[s].holding <=> side \in Runner!Entries(setup.profile))
      /\ ~setup.multi => (belief'[s].holding <=> ~belief[s].holding)
  BY ToldIs
<1>2. setup.multi \in BOOLEAN /\ setup.profile.shorts \in BOOLEAN /\ (~setup.multi => ~setup.profile.shorts)
  BY SetupIs
<1>3. CASE setup.multi
  <2>1. stray' = IF r # 0 THEN stray \cup {s} ELSE stray \ {s}
    BY <1>3 DEF Runner!Misled
  <2>2. ~belief'[s].holding
    BY <1>1, <1>2, <1>3 DEF Runner!Entries
  <2>3. (s \in stray' <=> r # 0) /\ \A y : y # s => (y \in stray' <=> y \in stray)
    BY <2>1
  <2> QED
    BY <1>3, <2>2, <2>3 DEF Match
<1>4. CASE ~setup.multi
  <2>1. q > 0 /\ r >= 0 /\ Runner!Long(setup.profile, belief'[s])
    BY <1>2, <1>4 DEF Runner!Long
  <2>2. stray' = IF r # 0 THEN (stray \ {s}) \cup ({s} \ stray) ELSE stray
    BY <1>4 DEF Runner!Misled, Runner!SymDiff
  <2>3. (s \in stray' <=> ~(s \in stray <=> r # 0)) /\ \A y : y # s => (y \in stray' <=> y \in stray)
    BY <2>2
  <2>4. s \in stray <=> ~belief[s].holding
    BY <1>4 DEF Match
  <2>5. s \in stray' <=> ~(belief'[s].holding <=> r # 0)
    BY <1>1, <1>4, <2>3, <2>4
  <2>6. r # 0 => r > 0
    BY <2>1
  <2> QED
    BY <1>4, <2>1, <2>3, <2>5, <2>6 DEF Match
<1> QED
  BY <1>3, <1>4

(* A fill keeps strategy and account together, as far as it is told.        *)
LEMMA FillsStayInStep ==
  ASSUME BacktestConstants, RunnerConstants, InStep, Runner!Fill
  PROVE  InStep'
<1> PICK o : o = Head(queue)
  OBVIOUS
<1> DEFINE s == o.sym
           q == Shares(s)
<1>1. /\ queue # <<>> /\ o \in RunnerOrder /\ Fits(o, q) /\ phase = "open" /\ queue' = Tail(queue)
      /\ UNCHANGED <<setup, bar, phase, rows, undecided, close, borrowed>>
      /\ \/ /\ rows[s] = Runner!NoRow /\ pending' = Append(pending, o)
            /\ UNCHANGED <<cash, position, profit, miscounted, belief, stray>>
         \/ rows[s] # Runner!NoRow /\ UNCHANGED <<cash, position, profit, miscounted, pending, belief, stray>>
         \/ /\ rows[s] # Runner!NoRow /\ ~Exit(o)
            /\ \E k \in Nat \ {0}, p \in Nat : Runner!Adds(o, k, p)
         \/ /\ rows[s] # Runner!NoRow
            /\ (o.side = "SELL" /\ position[s].qty > 0) \/ (o.side = "BUY_TO_COVER" /\ position[s].qty < 0)
            /\ \E p \in Nat : Runner!Closes(o, p, Runner!Sold(o))
  BY FillSplits DEF RunnerInv, InStep
<1>2. /\ RunnerTyping /\ RunnerOrders /\ Balanced /\ belief \in [RunnerSymbols -> Belief] /\ LongOnly
      /\ \A y \in RunnerSymbols : Match(belief[y], Shares(y), y \in stray)
  BY DEF InStep, RunnerInv
<1>3. RunnerInv'
  BY RunnerFills DEF InStep
<1>4. s \in RunnerSymbols /\ q \in Int /\ q = position[s].qty
  BY <1>1, <1>2, OrderIs, PositionIs DEF Shares
<1>5. ~setup.profile.shorts => o.side # "SELL_SHORT" /\ q >= 0
  <2>1. 1 \in DOMAIN queue /\ o = queue[1]
    BY <1>1, <1>2, QueueIs
  <2> QED
    BY <1>2, <1>4, <2>1 DEF LongOnly
<1>6. SUFFICES /\ Waits(o) /\ belief' \in [RunnerSymbols -> Belief]
               /\ ~setup.profile.shorts => \A y \in RunnerSymbols : position'[y].qty >= 0
               /\ \A y \in RunnerSymbols : Match(belief'[y], position'[y].qty, y \in stray')
  <2>1. /\ \A i \in DOMAIN queue' : i + 1 \in DOMAIN queue /\ queue'[i] = queue[i + 1]
        /\ \A i \in DOMAIN pending' : (i \in DOMAIN pending /\ pending'[i] = pending[i]) \/ pending'[i].side = o.side
    BY <1>1, <1>2, <1>6, QueueIs, PendingIs
  <2>2. LongOnly'
    BY <1>1, <1>2, <1>5, <1>6, <2>1 DEF LongOnly, Shares
  <2>3. Runner!BreachIsSold'
    BY <1>1 DEF Runner!BreachIsSold
  <2>4. \A y \in RunnerSymbols : Match(belief[y], Shares(y), y \in stray)'
    BY <1>1, <1>6 DEF Match, Shares
  <2> QED
    BY <1>3, <1>6, <2>2, <2>3, <2>4 DEF InStep
<1> HIDE DEF s, q
<1>7. ASSUME UNCHANGED <<position, belief, stray>>
      PROVE  /\ belief' \in [RunnerSymbols -> Belief]
             /\ ~setup.profile.shorts => \A y \in RunnerSymbols : position'[y].qty >= 0
             /\ \A y \in RunnerSymbols : Match(belief'[y], position'[y].qty, y \in stray')
  BY <1>2, <1>7 DEF LongOnly, Shares
<1>8. ASSUME ~Exit(o), NEW k \in Nat \ {0}, NEW p \in Nat, Runner!Adds(o, k, p)
      PROVE  /\ Waits(o) /\ belief' \in [RunnerSymbols -> Belief]
             /\ ~setup.profile.shorts => \A y \in RunnerSymbols : position'[y].qty >= 0
             /\ \A y \in RunnerSymbols : Match(belief'[y], position'[y].qty, y \in stray')
  <2> DEFINE r == position'[s].qty
  <2>1. /\ \A y \in RunnerSymbols \ {s} : position'[y] = position[y]
        /\ r # 0 /\ (o.side = "BUY" <=> r > 0) /\ Waits(o) /\ position' \in [RunnerSymbols -> RunnerPosition]
    BY <1>1, <1>2, <1>8, EntryStep DEF q, s, Shares
  <2>2. r \in Int
    BY <1>4, <2>1 DEF RunnerPosition
  <2>3. Runner!Tell(s, o.side, p) /\ stray' = Runner!Misled(s, FALSE, q # 0)
    BY <1>4, <1>8 DEF Runner!Adds, s
  <2>4. o.side \in {"BUY", "SELL_SHORT"}
    BY <1>1, <1>8, OrderIs
  <2>5. Match(belief[s], q, s \in stray)
    BY <1>2, <1>4 DEF q
  <2> HIDE DEF r
  <2>6. Match(belief'[s], r, s \in stray') /\ \A y : y # s => (y \in stray' <=> y \in stray)
    BY <1>2, <1>4, <1>5, <2>1, <2>2, <2>3, <2>4, <2>5, EntryMatches
  <2>7. belief' \in [RunnerSymbols -> Belief] /\ \A y \in RunnerSymbols \ {s} : belief'[y] = belief[y]
    BY <1>2, <1>4, <2>3, <2>4, ToldIs
  <2>8. \A y \in RunnerSymbols \ {s} : Match(belief'[y], position'[y].qty, y \in stray')
    BY <1>2, <2>1, <2>6, <2>7 DEF Match, Shares
  <2>9. ~setup.profile.shorts => r >= 0
    BY <1>5, <2>1, <2>2, <2>4
  <2>10. ~setup.profile.shorts => \A y \in RunnerSymbols : position'[y].qty >= 0
    BY <1>2, <2>1, <2>9 DEF LongOnly, Shares, r
  <2> QED
    BY <2>1, <2>6, <2>7, <2>8, <2>10 DEF r
<1>9. ASSUME (o.side = "SELL" /\ position[s].qty > 0) \/ (o.side = "BUY_TO_COVER" /\ position[s].qty < 0),
             NEW p \in Nat, Runner!Closes(o, p, Runner!Sold(o))
      PROVE  /\ Waits(o) /\ belief' \in [RunnerSymbols -> Belief]
             /\ ~setup.profile.shorts => \A y \in RunnerSymbols : position'[y].qty >= 0
             /\ \A y \in RunnerSymbols : Match(belief'[y], position'[y].qty, y \in stray')
  <2> DEFINE r == position'[s].qty
             side == IF q > 0 THEN "SELL" ELSE "BUY_TO_COVER"
  <2>1. /\ \A y \in RunnerSymbols \ {s} : position'[y] = position[y]
        /\ (q > 0 => r >= 0) /\ (r # 0 <=> Runner!Abs(q) - Runner!Sold(o) > 0)
        /\ pending' = pending /\ position' \in [RunnerSymbols -> RunnerPosition]
    <3>1. (o.side = "SELL" /\ Shares(o.sym) > 0) \/ (o.side = "BUY_TO_COVER" /\ Shares(o.sym) < 0)
      BY <1>4, <1>9 DEF q, s
    <3> QED
      BY <1>1, <1>2, <1>9, <3>1, ExitStep DEF q, s, Shares
  <2>2. r \in Int /\ q # 0
    BY <1>4, <1>9, <2>1 DEF RunnerPosition
  <2>3. Runner!Tell(s, side, p) /\ stray' = Runner!Misled(s, TRUE, r # 0)
    <3>1. Runner!Tell(s, side, p) /\ stray' = Runner!Misled(s, TRUE, Runner!Abs(q) - Runner!Sold(o) > 0)
      BY <1>4, <1>9 DEF Runner!Closes, s
    <3>2. (Runner!Abs(q) - Runner!Sold(o) > 0) = (r # 0)
      BY <2>1
    <3> QED
      BY <3>1, <3>2
  <2>4. Match(belief[s], q, s \in stray)
    BY <1>2, <1>4 DEF q
  <2>5. ~setup.profile.shorts => q > 0
    BY <1>4, <1>5, <2>2
  <2>6. side \in {"SELL", "BUY_TO_COVER"}
    OBVIOUS
  <2>7. PICK told : told = side
    OBVIOUS
  <2> HIDE DEF r
  <2>8. Match(belief'[s], r, s \in stray') /\ \A y : y # s => (y \in stray' <=> y \in stray)
    BY <1>2, <1>4, <2>1, <2>2, <2>3, <2>4, <2>5, <2>7, ExitMatches
  <2>9. belief' \in [RunnerSymbols -> Belief] /\ \A y \in RunnerSymbols \ {s} : belief'[y] = belief[y]
    BY <1>2, <1>4, <2>3, <2>6, <2>7, ToldIs
  <2>10. \A y \in RunnerSymbols \ {s} : Match(belief'[y], position'[y].qty, y \in stray')
    BY <1>2, <2>1, <2>8, <2>9 DEF Match, Shares
  <2>11. ~setup.profile.shorts => \A y \in RunnerSymbols : position'[y].qty >= 0
    BY <1>2, <2>1, <2>5 DEF LongOnly, Shares, r
  <2> QED
    BY <2>1, <2>8, <2>9, <2>10, <2>11 DEF r, Waits
<1>10. rows[s] = Runner!NoRow /\ pending' = Append(pending, o) => Waits(o)
  BY <1>1 DEF Waits
<1>11. pending' = pending => Waits(o)
  BY DEF Waits
<1> QED
  BY <1>1, <1>7, <1>8, <1>9, <1>10, <1>11

(* What a signal orders has the side of the signal.                         *)
LEMMA OrderedSide ==
  ASSUME NEW s, NEW action
  PROVE  \/ Runner!Ordered(s, action) = <<>>
         \/ \E w : Runner!Ordered(s, action) = <<w>> /\ w.side = action
BY DEF Runner!Ordered, Runner!Order

(* A decision answers a breach with an order for all shares, which waits    *)
(* with the others.                                                         *)
LEMMA DecisionsStayInStep ==
  ASSUME BacktestConstants, RunnerConstants, InStep, NEW s \in RunnerSymbols, NEW view, Runner!Decide(s, view)
  PROVE  InStep'
<1> DEFINE b == belief[s]
           a == Runner!OnBar(setup.profile, b, rows[s].close, rows[s].atr, view)
           x == Runner!Ordered(s, a.action)
           q == Shares(s)
<1>1. /\ phase = "decide" /\ s \in undecided /\ pending' = pending \o x /\ undecided' = undecided \ {s}
      /\ belief' = [belief EXCEPT ![s] = a.belief]
      /\ UNCHANGED <<setup, bar, phase, rows, queue, cash, position, profit, miscounted, close, borrowed, stray>>
  BY DEF Runner!Decide, Runner!books
<1>2. /\ RunnerTyping /\ RunnerInv /\ belief \in [RunnerSymbols -> Belief] /\ LongOnly
      /\ \A y \in RunnerSymbols : Match(belief[y], Shares(y), y \in stray)
      /\ Runner!BreachIsSold /\ pending \in Seq(RunnerOrder)
  BY DEF InStep, RunnerInv, RunnerTyping
<1>3. RunnerInv'
  BY <1>2, RunnerDecides
<1>4. /\ a.belief \in Belief /\ a.belief.holding = b.holding
      /\ b.holding => /\ a.belief.dir = b.dir
                      /\ Runner!Expired(setup.profile, a.belief) \/ Runner!StopHit(setup.profile, a.belief, rows[s].close)
                           => a.action = Runner!Closing(setup.profile, a.belief)
      /\ a.action = "SELL_SHORT" => setup.profile.shorts
  <2>1. setup.profile \in Profile /\ b \in Belief
    BY <1>2, SetupIs
  <2>2. rows[s].close \in Nat /\ rows[s].atr \in Nat
    BY <1>1, <1>2, RowIs DEF RunnerTyping
  <2> HIDE DEF b
  <2> QED
    BY <2>1, <2>2, BarBelief
<1>5. x = <<>> \/ \E w \in RunnerOrder : x = <<w>>
  BY <1>1, <1>2, OrderedIs
<1>6. x = <<>> \/ \E w : x = <<w>> /\ w.side = a.action
  BY OrderedSide
<1>7. belief' \in [RunnerSymbols -> Belief] /\ belief'[s] = a.belief /\ \A y \in RunnerSymbols \ {s} : belief'[y] = belief[y]
  BY <1>1, <1>2, <1>4
<1>8. q \in Int /\ q = position[s].qty
  BY <1>2, PositionIs DEF Shares
<1> HIDE DEF a, x, b
<1>9. /\ pending' \in Seq(RunnerOrder)
      /\ \A i \in DOMAIN pending' : (i \in DOMAIN pending /\ pending'[i] = pending[i]) \/ pending'[i].side = a.action
      /\ \A w : Runner!Contains(pending, w) \/ x = <<w>> => Runner!Contains(pending', w)
  <2>1. CASE x = <<>>
    <3>1. pending' = pending
      BY <1>1, <1>2, <2>1, ConcatEmptySeq
    <3> QED
      BY <1>2, <2>1, <3>1
  <2>2. ASSUME NEW w \in RunnerOrder, x = <<w>>
        PROVE  /\ pending' \in Seq(RunnerOrder)
               /\ \A i \in DOMAIN pending' : (i \in DOMAIN pending /\ pending'[i] = pending[i]) \/ pending'[i].side = a.action
               /\ \A v : Runner!Contains(pending, v) \/ x = <<v>> => Runner!Contains(pending', v)
    <3>1. pending' = Append(pending, w) /\ w.side = a.action
      <4>1. w.side = a.action
        BY <1>6, <2>2
      <4> QED
        BY <1>1, <1>2, <2>2, <4>1, AppendIsConcat
    <3>2. /\ pending' \in Seq(RunnerOrder) /\ Len(pending') = Len(pending) + 1 /\ pending'[Len(pending) + 1] = w
          /\ (\A i \in 1..Len(pending) : pending'[i] = pending[i]) /\ Len(pending) \in Nat /\ DOMAIN pending = 1..Len(pending)
      BY <1>2, <2>2, <3>1, AppendProperties, LenProperties
    <3>3. DOMAIN pending' = 1..(Len(pending) + 1)
      BY <3>2, LenProperties
    <3>4. \A i \in 1..(Len(pending) + 1) : i \in 1..Len(pending) \/ i = Len(pending) + 1
      BY <3>2
    <3>5. \A i \in 1..Len(pending) : i \in 1..(Len(pending) + 1)
      BY <3>2
    <3>6. ASSUME NEW v, Runner!Contains(pending, v) PROVE Runner!Contains(pending', v)
      <4>1. PICK i \in 1..Len(pending) : pending[i] = v
        BY <3>6 DEF Runner!Contains
      <4>2. i \in 1..Len(pending') /\ pending'[i] = v
        BY <3>2, <3>5, <4>1
      <4> QED
        BY <4>2 DEF Runner!Contains
    <3>7. Runner!Contains(pending', w)
      <4>1. Len(pending) + 1 \in 1..Len(pending')
        BY <3>2
      <4> QED
        BY <3>2, <4>1 DEF Runner!Contains
    <3>8. \A v : x = <<v>> => v = w
      BY <2>2
    <3> QED
      BY <3>1, <3>2, <3>3, <3>4, <3>6, <3>7, <3>8
  <2> QED
    BY <1>5, <2>1, <2>2
<1>10. LongOnly'
  BY <1>1, <1>2, <1>4, <1>9 DEF LongOnly, Shares
<1>11. \A y \in RunnerSymbols : Match(belief'[y], Shares(y), y \in stray)
  <2>1. Match(belief'[s], Shares(s), s \in stray)
    BY <1>2, <1>4, <1>7 DEF Match, b, Runner!Long
  <2> QED
    BY <1>2, <1>7, <2>1
<1>12. \A y \in RunnerSymbols : Match(belief[y], Shares(y), y \in stray)'
  BY <1>1, <1>11 DEF Match, Shares
<1>13. ASSUME NEW y \in RunnerSymbols, rows'[y] # Runner!NoRow, y \notin undecided', belief'[y].holding, position'[y].qty # 0,
              Runner!StopHit(setup.profile, belief'[y], rows[y].close) \/ Runner!Expired(setup.profile, belief'[y])
       PROVE  Runner!Contains(pending', Runner!Order(y, IF position'[y].qty > 0 THEN "SELL" ELSE "BUY_TO_COVER",
                                                      Runner!Abs(position'[y].qty)))
  <2>1. CASE y # s
    <3>1. y \notin undecided /\ belief'[y] = belief[y] /\ position'[y] = position[y] /\ rows'[y] = rows[y]
      BY <1>1, <1>7, <2>1, <1>13
    <3>2. Runner!Contains(pending, Runner!Order(y, IF position[y].qty > 0 THEN "SELL" ELSE "BUY_TO_COVER",
                                                  Runner!Abs(position[y].qty)))
      BY <1>1, <1>2, <1>13, <3>1 DEF Runner!BreachIsSold
    <3> QED
      BY <1>9, <3>1, <3>2
  <2>2. CASE y = s
    <3>1. b.holding /\ a.action = Runner!Closing(setup.profile, a.belief) /\ q # 0
      BY <1>1, <1>4, <1>7, <1>8, <1>13, <2>2
    <3>2. Runner!Long(setup.profile, a.belief) <=> q > 0
      BY <1>4, <1>7, <1>11, <3>1 DEF Match
    <3>3. a.action = IF q > 0 THEN "SELL" ELSE "BUY_TO_COVER"
      BY <3>1, <3>2 DEF Runner!Closing
    <3>4. x = <<Runner!Order(s, a.action, IF a.action = "SELL" THEN position[s].qty ELSE Runner!Abs(position[s].qty))>>
      BY <1>8, <3>1, <3>3 DEF x, Runner!Ordered, Runner!Entry
    <3>5. (IF a.action = "SELL" THEN q ELSE Runner!Abs(q)) = Runner!Abs(q)
      BY <1>8, <3>3 DEF Runner!Abs
    <3>6. x = <<Runner!Order(s, IF q > 0 THEN "SELL" ELSE "BUY_TO_COVER", Runner!Abs(q))>>
      BY <1>8, <3>3, <3>4, <3>5
    <3> QED
      BY <1>1, <1>8, <1>9, <2>2, <3>6
  <2> QED
    BY <2>1, <2>2
<1>14. Runner!BreachIsSold'
  BY <1>1, <1>13 DEF Runner!BreachIsSold, Runner!StopHit, Runner!Expired, Runner!Long
<1> QED
  BY <1>3, <1>7, <1>10, <1>12, <1>14 DEF InStep

(* The end of a bar changes neither belief nor position.                    *)
LEMMA MarksStayInStep ==
  ASSUME BacktestConstants, RunnerConstants, InStep, Runner!Mark
  PROVE  InStep'
<1>1. /\ undecided' = {s \in RunnerSymbols : rows[s] # Runner!NoRow}
      /\ UNCHANGED <<setup, bar, rows, queue, pending, position, belief, profit, stray, miscounted>>
  BY DEF Runner!Mark
<1>2. RunnerInv'
  BY RunnerMarks DEF InStep
<1>3. Runner!BreachIsSold'
  BY <1>1 DEF Runner!BreachIsSold
<1> QED
  BY <1>1, <1>2, <1>3 DEF InStep, LongOnly, Match, Shares

(* Nor does the next bar.                                                   *)
LEMMA TurnsStayInStep ==
  ASSUME BacktestConstants, RunnerConstants, InStep,
         NEW r \in [RunnerSymbols -> Rows \cup {Runner!NoRow}], Runner!NextBar(r)
  PROVE  InStep'
<1>1. /\ phase' = "open" /\ queue' = pending /\ pending' = <<>> /\ DOMAIN pending' = {}
      /\ UNCHANGED <<setup, undecided, cash, position, profit, miscounted, close, belief, borrowed, stray>>
  BY DEF Runner!NextBar, Runner!books
<1>2. RunnerInv'
  BY RunnerTurns DEF InStep
<1>3. Runner!BreachIsSold'
  BY <1>1 DEF Runner!BreachIsSold
<1> QED
  BY <1>1, <1>2, <1>3 DEF InStep, LongOnly, Match, Shares

(* At the beginning nothing is held or believed held.                       *)
LEMMA BeginsInStep ==
  ASSUME BacktestConstants, RunnerConstants, Runner!Init
  PROVE  InStep
<1>1. /\ phase = "open" /\ queue = <<>> /\ pending = <<>> /\ stray = {}
      /\ position = [s \in RunnerSymbols |-> Runner!NoPosition] /\ belief = [s \in RunnerSymbols |-> Runner!NoBelief]
  BY DEF Runner!Init
<1>2. Runner!NoBelief \in Belief /\ ~Runner!NoBelief.holding /\ Runner!NoPosition.qty = 0
  BY DEF RunnerConstants, Belief, Directions, Runner!NoBelief, Runner!NoPosition
<1>3. DOMAIN queue = {} /\ DOMAIN pending = {}
  BY <1>1
<1>4. \A s \in RunnerSymbols : Shares(s) = 0 /\ belief[s] = Runner!NoBelief
  BY <1>1, <1>2 DEF Shares
<1>5. Runner!BreachIsSold
  BY <1>1 DEF Runner!BreachIsSold
<1> QED
  BY <1>1, <1>2, <1>3, <1>4, <1>5, RunnerBegins DEF InStep, LongOnly, Match

(* Nothing changes.                                                         *)
LEMMA StaysInStep ==
  ASSUME InStep, UNCHANGED Runner!vars
  PROVE  InStep'
<1>1. RunnerInv'
  BY RunnerStays DEF InStep
<1>2. UNCHANGED <<setup, bar, phase, rows, queue, pending, undecided, cash, position, close, belief, profit, borrowed, stray, miscounted>>
  BY DEF Runner!vars
<1>3. Runner!BreachIsSold'
  BY <1>2 DEF InStep, Runner!BreachIsSold, Runner!StopHit, Runner!Expired, Runner!Long
<1> QED
  BY <1>1, <1>2, <1>3 DEF InStep, LongOnly, Match, Shares

(* Every step of the runner keeps strategy and account together.            *)
LEMMA StepsStayInStep ==
  ASSUME BacktestConstants, RunnerConstants, InStep, Runner!Next
  PROVE  InStep'
BY FillsStayInStep, MarksStayInStep, DecisionsStayInStep, TurnsStayInStep DEF Runner!Next

(* HonestRunner, for every strategy, script and data set: where no sale was *)
(* overtaken by a remainder, the strategy's belief is the account's         *)
(* position, and a position beyond its stop or past its time is on its way  *)
(* out as soon as the bar was seen.                                         *)
THEOREM StrategyKnows == BooksSpec => []StrategyInStep
<1>1. BooksInit => (part = "runner" => InStep)
  BY OnlyRunnerRuns, BeginsInStep, BacktestConstants, RunnerConstants
<1>2. (part = "runner" => InStep) /\ [BooksNext]_books => (part = "runner" => InStep)'
  BY OnlyRunnerRuns, StepsStayInStep, StaysInStep, BacktestConstants, RunnerConstants
<1>3. (part = "runner" => InStep) => StrategyInStep
  <2>1. ASSUME InStep, NEW s \in RunnerSymbols, s \notin stray
        PROVE  /\ belief[s].holding = (position[s].qty # 0)
               /\ belief[s].holding => (Runner!Long(setup.profile, belief[s]) = (position[s].qty > 0))
    <3>1. Match(belief[s], Shares(s), s \in stray) /\ belief[s] \in Belief
      BY <2>1 DEF InStep
    <3>2. setup.multi \in BOOLEAN
      BY <2>1, SetupIs, RunnerConstants DEF InStep, RunnerInv
    <3>3. belief[s].holding \in BOOLEAN
      BY <3>1 DEF Belief
    <3>4. belief[s].holding <=> position[s].qty # 0
      BY <2>1, <3>1, <3>2 DEF Match, Shares
    <3>5. belief[s].holding => (Runner!Long(setup.profile, belief[s]) <=> position[s].qty > 0)
      BY <3>1, <3>4 DEF Match, Shares
    <3>6. Runner!Long(setup.profile, belief[s]) \in BOOLEAN
      BY DEF Runner!Long
    <3> QED
      BY <3>3, <3>4, <3>5, <3>6
  <2>2. InStep => Runner!BeliefMatches
    BY <2>1 DEF Runner!BeliefMatches
  <2> QED
    BY <2>2 DEF StrategyInStep, Runner!StrategyInStep, InStep
<1> QED
  BY <1>1, <1>2, <1>3, PTL DEF BooksSpec

=============================================================================
