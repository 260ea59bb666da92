------------------------ MODULE TradingPipelineProofs -----------------------
(***************************************************************************)
(* Proofs about TradingPipeline: the types, that the reconciler raises no  *)
(* alarm without a cause, and that a long-only strategy goes short only    *)
(* through overlapping orders.  All three are about sums over the orders   *)
(* of a symbol (SetProofs) while the broker changes them at any time.      *)
(***************************************************************************)
EXTENDS TradingPipeline, SetProofs

USE PipelineConstants

-----------------------------------------------------------------------------
(* Three ways to weigh an order: what the broker has filled of it, what the *)
(* risk book has recorded of it, and the least it can come to, when every   *)
(* sale that works is filled and no purchase that works is.                 *)

Kinds == {"filled", "recorded", "down"}

Weight(k, o) ==
  CASE k = "filled" -> Signed(o, o.filled)
    [] k = "recorded" -> Signed(o, o.recorded)
    [] k = "down" -> IF o.side \in Buys THEN o.filled ELSE IF o.live THEN -o.qty ELSE -o.filled

Weights(k) == [i \in DOMAIN orders |-> Weight(k, orders[i])]

Total(k, s) == SumFunctionOnSet(Weights(k), OrdersOf(s))

(* The order that is settled is the last one, and has nothing recorded.     *)
Settling == pc = "settle" => Len(orders) > 0 /\ last.recorded = 0

(* The book is the sum of what was recorded; and while the reconciler       *)
(* compares, what it read still holds unless a fill has not been recorded.  *)
BookInv ==
  /\ \A s \in Symbols : book[s] = Total("recorded", s)
  /\ pc = "compare" /\ Missed = {} => seen = Positions

(* The symbols that the bar may still send an order for.                    *)
Pending ==
  IF pc \in {"reconcile", "compare", "signals"} THEN Symbols
  ELSE IF pc \in {"execute", "settle"} THEN {sig.sym : sig \in todo} ELSE {}

(* A symbol without overlapping orders cannot come below zero; what the bar *)
(* read of a symbol it may still trade is the position, or nothing, as long *)
(* as no order of it works; and the bar has one signal for a symbol.        *)
ShortInv ==
  /\ \A s \in Symbols : s \notin overlapped => Total("down", s) >= 0
  /\ \A s \in Pending : s \notin working => s \notin LiveSymbols /\ held[s] \in {Position(s), 0}
  /\ \A u, v \in todo : u.sym = v.sym => u = v

-----------------------------------------------------------------------------
(* The sums *)

(* What an order counts for is an integer.                                  *)
LEMMA WeightType ==
  ASSUME NEW k \in Kinds, NEW o \in OrderType
  PROVE  Weight(k, o) \in Int
<1>1. o.qty \in Int /\ o.filled \in Int /\ o.recorded \in Int
  BY DEF OrderType
<1> QED
  BY <1>1 DEF Weight, Signed, Kinds

(* The weights of a history, one per order.                                 *)
LEMMA WeightsType ==
  ASSUME orders \in Seq(OrderType), NEW k \in Kinds
  PROVE  /\ DOMAIN orders = 1..Len(orders) /\ Len(orders) \in Nat
         /\ \A i \in DOMAIN orders : orders[i] \in OrderType
         /\ \A i \in DOMAIN orders : Weights(k)[i] = Weight(k, orders[i]) /\ Weights(k)[i] \in Int
         /\ \A s : IsFiniteSet(OrdersOf(s)) /\ OrdersOf(s) \subseteq DOMAIN orders
<1>1. DOMAIN orders = 1..Len(orders) /\ Len(orders) \in Nat
  BY LenProperties
<1>2. \A i \in DOMAIN orders : orders[i] \in OrderType
  BY <1>1, ElementOfSeq
<1>3. \A i \in DOMAIN orders : Weights(k)[i] = Weight(k, orders[i]) /\ Weights(k)[i] \in Int
  BY <1>2, WeightType DEF Weights
<1>4. IsFiniteSet(DOMAIN orders)
  BY <1>1, FS_Interval
<1>5. \A s : IsFiniteSet(OrdersOf(s)) /\ OrdersOf(s) \subseteq DOMAIN orders
  BY <1>4, FS_Subset DEF OrdersOf
<1> QED
  BY <1>1, <1>2, <1>3, <1>5

(* A sum of weights is an integer.                                          *)
LEMMA TotalType ==
  ASSUME orders \in Seq(OrderType), NEW k \in Kinds, NEW s
  PROVE  Total(k, s) \in Int
<1>1. IsFiniteSet(OrdersOf(s)) /\ \A i \in OrdersOf(s) : Weights(k)[i] \in Int
  BY WeightsType
<1> QED
  BY <1>1, SumTakes DEF Total

(* The position of the account is the sum of what filled,                   *)
LEMMA PositionIsTotal ==
  ASSUME NEW s
  PROVE  Position(s) = Total("filled", s)
<1>1. Weights("filled") = [i \in DOMAIN orders |-> Signed(orders[i], orders[i].filled)]
  BY DEF Weights, Weight
<1> QED
  BY <1>1 DEF Position, Total

(* ... also after a step.                                                   *)
LEMMA NextPositionIsTotal == \A s : Position(s)' = Total("filled", s)'
<1>1. \A s : Position(s) = Total("filled", s)
  BY PositionIsTotal
<1>2. (\A s : Position(s) = Total("filled", s))'
  BY <1>1, PTL
<1> QED
  BY <1>2

(* A position is an integer.                                                *)
LEMMA PositionType ==
  ASSUME orders \in Seq(OrderType)
  PROVE  Positions \in [Symbols -> Int] /\ \A s \in Symbols : Positions[s] = Total("filled", s)
BY TotalType, PositionIsTotal DEF Positions, Kinds

(* One order changes, of the same symbol: so do the totals of that symbol.  *)
LEMMA OrderChanges ==
  ASSUME orders \in Seq(OrderType), NEW i \in DOMAIN orders, NEW o \in OrderType,
         o.sym = orders[i].sym, orders' = [orders EXCEPT ![i] = o]
  PROVE  /\ orders' \in Seq(OrderType) /\ Len(orders') = Len(orders) /\ DOMAIN orders' = DOMAIN orders
         /\ orders'[i] = o /\ \A j \in DOMAIN orders : j # i => orders'[j] = orders[j]
         /\ \A s : OrdersOf(s)' = OrdersOf(s)
         /\ \A k \in Kinds : \A s : Total(k, s)' =
              IF s = o.sym THEN Total(k, s) + (Weight(k, o) - Weight(k, orders[i])) ELSE Total(k, s)
<1>1. /\ orders' \in Seq(OrderType) /\ Len(orders') = Len(orders) /\ DOMAIN orders' = DOMAIN orders
      /\ orders'[i] = o /\ \A j \in DOMAIN orders : j # i => orders'[j] = orders[j]
  BY ExceptSeq
<1>2. \A s : OrdersOf(s)' = OrdersOf(s)
  BY <1>1 DEF OrdersOf
<1>3. ASSUME NEW k \in Kinds, NEW s
      PROVE  Total(k, s)' =
              IF s = o.sym THEN Total(k, s) + (Weight(k, o) - Weight(k, orders[i])) ELSE Total(k, s)
  <2> DEFINE f == Weights(k)
             g == Weights(k)'
             S == OrdersOf(s)
  <2>1. /\ IsFiniteSet(S) /\ S \subseteq DOMAIN orders
        /\ \A j \in DOMAIN orders : f[j] = Weight(k, orders[j]) /\ f[j] \in Int
    BY WeightsType
  <2>2. g = [j \in DOMAIN orders |-> Weight(k, orders'[j])]
    BY <1>1 DEF Weights, Weight, Signed
  <2>3. g[i] = Weight(k, o) /\ \A j \in DOMAIN orders : j # i => g[j] = f[j]
    BY <1>1, <2>1, <2>2
  <2>4. Weight(k, o) \in Int
    BY WeightType
  <2>5. Total(k, s) = SumFunctionOnSet(f, S) /\ Total(k, s)' = SumFunctionOnSet(g, S)
    BY <1>2 DEF Total
  <2>6. i \in S <=> s = o.sym
    BY DEF OrdersOf
  <2> HIDE DEF f, g, S
  <2>7. CASE s = o.sym
    <3>1. i \in S /\ (\A j \in S : f[j] \in Int) /\ \A j \in S : j # i => g[j] = f[j]
      BY <2>1, <2>3, <2>6, <2>7
    <3>2. SumFunctionOnSet(g, S) = SumFunctionOnSet(f, S) + (g[i] - f[i])
      BY <2>1, <2>3, <2>4, <3>1, SumMoves
    <3> QED
      BY <2>1, <2>3, <2>5, <2>7, <3>2
  <2>8. CASE s # o.sym
    <3>1. \A j \in S : f[j] \in Int /\ g[j] = f[j]
      BY <2>1, <2>3, <2>6, <2>8
    <3>2. SumFunctionOnSet(g, S) = SumFunctionOnSet(f, S)
      BY <2>1, <3>1, SumSame
    <3> QED
      BY <2>5, <2>8, <3>2
  <2> QED
    BY <2>7, <2>8
<1> QED
  BY <1>1, <1>2, <1>3

(* An order is added: the totals of its symbol grow by its weight.          *)
LEMMA OrderAdded ==
  ASSUME orders \in Seq(OrderType), NEW o \in OrderType, orders' = Append(orders, o)
  PROVE  /\ orders' \in Seq(OrderType) /\ Len(orders') = Len(orders) + 1
         /\ DOMAIN orders' = DOMAIN orders \cup {Len(orders')} /\ Len(orders') \notin DOMAIN orders
         /\ orders'[Len(orders')] = o /\ \A j \in DOMAIN orders : orders'[j] = orders[j]
         /\ \A k \in Kinds : \A s : Total(k, s)' =
              IF s = o.sym THEN Total(k, s) + Weight(k, o) ELSE Total(k, s)
<1> DEFINE n == Len(orders')
<1>0. DOMAIN orders = 1..Len(orders) /\ Len(orders) \in Nat
  BY WeightsType DEF Kinds
<1>1. /\ orders' \in Seq(OrderType) /\ n = Len(orders) + 1
      /\ orders'[n] = o /\ \A j \in 1..Len(orders) : orders'[j] = orders[j]
  BY AppendProperties
<1>2. DOMAIN orders' = DOMAIN orders \cup {n} /\ n \notin DOMAIN orders
  <2>1. DOMAIN orders' = 1..n
    BY <1>1, LenProperties
  <2> QED
    BY <1>0, <1>1, <2>1
<1>3. \A j \in DOMAIN orders : orders'[j] = orders[j]
  BY <1>0, <1>1
<1>4. ASSUME NEW k \in Kinds, NEW s
      PROVE  Total(k, s)' = IF s = o.sym THEN Total(k, s) + Weight(k, o) ELSE Total(k, s)
  <2> DEFINE f == Weights(k)
             g == Weights(k)'
             S == OrdersOf(s)
  <2>1. /\ IsFiniteSet(S) /\ S \subseteq DOMAIN orders
        /\ \A j \in DOMAIN orders : f[j] = Weight(k, orders[j]) /\ f[j] \in Int
    BY WeightsType
  <2>2. g = [j \in DOMAIN orders \cup {n} |-> Weight(k, orders'[j])]
    BY <1>2 DEF Weights, Weight, Signed
  <2>3. g[n] = Weight(k, o) /\ \A j \in DOMAIN orders : g[j] = f[j]
    BY <1>1, <1>3, <2>1, <2>2
  <2>4. Weight(k, o) \in Int
    BY WeightType
  <2>5. OrdersOf(s)' = IF s = o.sym THEN S \cup {n} ELSE S
    BY <1>1, <1>2, <1>3 DEF OrdersOf
  <2>6. Total(k, s) = SumFunctionOnSet(f, S) /\ Total(k, s)' = SumFunctionOnSet(g, OrdersOf(s)')
    BY DEF Total
  <2>7. n \notin S
    BY <1>2, <2>1
  <2> HIDE DEF f, g, S, n
  <2>8. \A j \in S : f[j] \in Int /\ g[j] = f[j]
    BY <2>1, <2>3
  <2>9. SumFunctionOnSet(g, S) = SumFunctionOnSet(f, S)
    BY <2>1, <2>8, SumSame
  <2>10. CASE s = o.sym
    <3>1. SumFunctionOnSet(g, S \cup {n}) = g[n] + SumFunctionOnSet(g, S)
      BY <2>1, <2>3, <2>4, <2>7, <2>8, SumAdds
    <3>2. SumFunctionOnSet(f, S) \in Int
      BY <2>1, <2>8, SumTakes
    <3> QED
      BY <2>3, <2>4, <2>5, <2>6, <2>9, <2>10, <3>1, <3>2
  <2>11. CASE s # o.sym
    BY <2>5, <2>6, <2>9, <2>11
  <2> QED
    BY <2>10, <2>11
<1> QED
  BY <1>1, <1>2, <1>3, <1>4

-----------------------------------------------------------------------------
(* Types *)

(* No shares either way.                                                    *)
LEMMA MinusZero == -0 = 0
<1>1. \A x \in Int : -x = 0 - x
  OBVIOUS
<1>2. 0 - 0 = 0 /\ 0 \in Int
  OBVIOUS
<1> QED
  BY <1>1, <1>2, Zenon

(* An order placed is an order.                                             *)
LEMMA OrderTyped ==
  ASSUME NEW sym \in Symbols, NEW side \in Actions, NEW qty \in Nat, qty > 0,
         NEW status \in Statuses \ {"FILLED"}
  PROVE  Order(sym, side, qty, status) \in OrderType /\ OrderOK(Order(sym, side, qty, status))
BY DEF Order, OrderType, OrderOK

(* The size of an order is an integer.                                      *)
LEMMA QuantityType ==
  ASSUME TypeOK, NEW sig \in todo, NEW qty \in Quantities(sig)
  PROVE  qty \in Nat /\ qty > 0
<1>1. held[sig.sym] \in Int
  BY DEF TypeOK
<1>2. AbsOf(held[sig.sym]) \in Nat
  BY <1>1 DEF AbsOf
<1> QED
  BY <1>2 DEF Quantities

(* What each of the broker's steps and the poll make of an order.           *)
LEMMA FillTyped ==
  ASSUME NEW o \in OrderType, OrderOK(o), NEW qty \in 1..o.qty, o.live, o.filled < qty
  PROVE  LET n == [o EXCEPT !.filled = qty, !.live = qty < o.qty]
         IN  /\ n \in OrderType /\ OrderOK(n)
             /\ n.sym = o.sym /\ n.side = o.side /\ n.qty = o.qty /\ n.recorded = o.recorded
             /\ n.status = o.status /\ n.filled = qty /\ n.live = (qty < o.qty)
<1> DEFINE n == [o EXCEPT !.filled = qty, !.live = qty < o.qty]
<1>1. /\ n.sym = o.sym /\ n.side = o.side /\ n.qty = o.qty /\ n.recorded = o.recorded
      /\ n.status = o.status /\ n.filled = qty /\ n.live = (qty < o.qty)
  BY DEF OrderType
<1>2. qty \in Nat /\ qty <= o.qty /\ o.qty \in Nat /\ o.recorded \in Nat /\ o.filled \in Nat
  BY DEF OrderType
<1>3. n \in OrderType
  <2>1. \A b \in BOOLEAN : [o EXCEPT !.filled = qty, !.live = b] \in OrderType
    BY <1>2 DEF OrderType
  <2>2. (qty < o.qty) \in BOOLEAN
    OBVIOUS
  <2> QED
    BY <2>1, <2>2, Zenon
<1>4. OrderOK(n)
  <2> HIDE DEF n
  <2>1. n.recorded <= n.filled /\ n.filled <= n.qty
    BY <1>1, <1>2 DEF OrderOK
  <2>2. n.live => n.filled < n.qty
    BY <1>1
  <2>3. n.status = "FILLED" => FALSE
    BY <1>1, <1>2 DEF OrderOK
  <2> QED
    BY <2>1, <2>2, <2>3 DEF OrderOK
<1> QED
  BY <1>1, <1>3, <1>4

(* The end of a bar keeps the types.                                        *)
LEMMA EndTyped ==
  ASSUME NEW o \in OrderType, OrderOK(o)
  PROVE  LET n == [o EXCEPT !.live = FALSE]
         IN  /\ n \in OrderType /\ OrderOK(n)
             /\ n.sym = o.sym /\ n.side = o.side /\ n.qty = o.qty /\ n.recorded = o.recorded
             /\ n.status = o.status /\ n.filled = o.filled /\ n.live = FALSE
<1> DEFINE n == [o EXCEPT !.live = FALSE]
<1>1. /\ n.sym = o.sym /\ n.side = o.side /\ n.qty = o.qty /\ n.recorded = o.recorded
      /\ n.status = o.status /\ n.filled = o.filled /\ n.live = FALSE
  BY DEF OrderType
<1>2. n \in OrderType
  BY DEF OrderType
<1>3. OrderOK(n)
  <2> HIDE DEF n
  <2> QED
    BY <1>1 DEF OrderOK
<1> QED
  BY <1>1, <1>2, <1>3

(* The poll of an order keeps the types.                                    *)
LEMMA SettleTyped ==
  ASSUME NEW o \in OrderType, OrderOK(o)
  PROVE  LET n == [o EXCEPT !.status = Polled(o), !.recorded = o.filled]
         IN  /\ n \in OrderType /\ OrderOK(n)
             /\ n.sym = o.sym /\ n.side = o.side /\ n.qty = o.qty /\ n.live = o.live
             /\ n.filled = o.filled /\ n.recorded = o.filled
<1> DEFINE n == [o EXCEPT !.status = Polled(o), !.recorded = o.filled]
<1>1. /\ n.sym = o.sym /\ n.side = o.side /\ n.qty = o.qty /\ n.live = o.live
      /\ n.filled = o.filled /\ n.recorded = o.filled /\ n.status = Polled(o)
  BY DEF OrderType
<1>2. o.filled \in Nat /\ o.qty \in Nat
  BY DEF OrderType
<1>3. Polled(o) \in Statuses /\ (Polled(o) = "FILLED" => o.filled = o.qty)
  BY <1>2 DEF Polled, Statuses
<1>4. n \in OrderType
  BY <1>2, <1>3 DEF OrderType
<1>5. OrderOK(n)
  <2> HIDE DEF n
  <2> QED
    BY <1>1, <1>2, <1>3 DEF OrderOK
<1> QED
  BY <1>1, <1>4, <1>5

(* A new pipeline keeps the types.                                          *)
LEMMA ForgetTyped ==
  ASSUME NEW o \in OrderType, OrderOK(o)
  PROVE  LET n == [o EXCEPT !.status = "FORGOTTEN", !.recorded = 0]
         IN  /\ n \in OrderType /\ OrderOK(n)
             /\ n.sym = o.sym /\ n.side = o.side /\ n.qty = o.qty /\ n.live = o.live
             /\ n.filled = o.filled /\ n.recorded = 0
<1> DEFINE n == [o EXCEPT !.status = "FORGOTTEN", !.recorded = 0]
<1>1. /\ n.sym = o.sym /\ n.side = o.side /\ n.qty = o.qty /\ n.live = o.live
      /\ n.filled = o.filled /\ n.recorded = 0 /\ n.status = "FORGOTTEN"
  BY DEF OrderType
<1>2. o.filled \in Nat /\ o.qty \in Nat
  BY DEF OrderType
<1>3. n \in OrderType
  BY <1>2 DEF OrderType, Statuses
<1>4. OrderOK(n)
  <2> HIDE DEF n
  <2> QED
    BY <1>1, <1>2 DEF OrderOK
<1> QED
  BY <1>1, <1>3, <1>4

(* A new pipeline forgets what was recorded, and nothing else that counts.  *)
LEMMA OrdersForgotten ==
  ASSUME TypeOK,
         orders' = [i \in DOMAIN orders |-> [orders[i] EXCEPT !.status = "FORGOTTEN", !.recorded = 0]]
  PROVE  /\ orders' \in Seq(OrderType) /\ DOMAIN orders' = DOMAIN orders
         /\ \A i \in DOMAIN orders :
              /\ OrderOK(orders'[i]) /\ orders'[i].sym = orders[i].sym /\ orders'[i].side = orders[i].side
              /\ orders'[i].live = orders[i].live /\ orders'[i].filled = orders[i].filled
              /\ orders'[i].recorded = 0
         /\ \A s : Total("recorded", s)' = 0
         /\ \A s : Total("down", s)' = Total("down", s) /\ Total("filled", s)' = Total("filled", s)
<1>1. orders \in Seq(OrderType) /\ \A i \in DOMAIN orders : OrderOK(orders[i])
  BY DEF TypeOK
<1>2. DOMAIN orders = 1..Len(orders) /\ Len(orders) \in Nat /\ \A i \in DOMAIN orders : orders[i] \in OrderType
  BY <1>1, WeightsType DEF Kinds
<1>3. DOMAIN orders' = DOMAIN orders
  OBVIOUS
<1>4. ASSUME NEW i \in DOMAIN orders
      PROVE  /\ orders'[i] \in OrderType
             /\ OrderOK(orders'[i]) /\ orders'[i].sym = orders[i].sym /\ orders'[i].side = orders[i].side
             /\ orders'[i].live = orders[i].live /\ orders'[i].filled = orders[i].filled
             /\ orders'[i].recorded = 0 /\ orders'[i].qty = orders[i].qty
  <2>1. orders'[i] = [orders[i] EXCEPT !.status = "FORGOTTEN", !.recorded = 0]
    OBVIOUS
  <2>2. orders[i] \in OrderType /\ OrderOK(orders[i])
    BY <1>1, <1>2
  <2> QED
    BY <2>1, <2>2, ForgetTyped
<1>5. orders' \in Seq(OrderType)
  <2>1. orders' \in [1..Len(orders) -> OrderType]
    BY <1>2, <1>4
  <2> QED
    BY <1>2, <2>1, FunctionIsSeq
<1>6. \A s : OrdersOf(s)' = OrdersOf(s)
  BY <1>3, <1>4 DEF OrdersOf
<1>7. ASSUME NEW s PROVE Total("recorded", s)' = 0
  <2> DEFINE g == Weights("recorded")'
  <2>1. \A i \in DOMAIN orders : g[i] = 0
    <3>1. g = [i \in DOMAIN orders |-> Weight("recorded", orders'[i])]
      BY <1>3 DEF Weights, Weight, Signed
    <3>2. ASSUME NEW n, n.recorded = 0 PROVE Weight("recorded", n) = 0
      <4>1. Weight("recorded", n) = Signed(n, 0)
        BY <3>2 DEF Weight
      <4> QED
        BY <4>1, MinusZero, Zenon DEF Signed
    <3> QED
      BY <1>4, <3>1, <3>2
  <2>2. IsFiniteSet(OrdersOf(s)) /\ OrdersOf(s) \subseteq DOMAIN orders
    BY <1>1, WeightsType DEF Kinds
  <2>3. Total("recorded", s)' = SumFunctionOnSet(g, OrdersOf(s))
    BY <1>6 DEF Total
  <2> HIDE DEF g
  <2> QED
    BY <2>1, <2>2, <2>3, SumOfZeros
<1>8. ASSUME NEW s, NEW k \in {"down", "filled"} PROVE Total(k, s)' = Total(k, s)
  <2> DEFINE f == Weights(k)
             g == Weights(k)'
  <2>1. \A i \in DOMAIN orders : f[i] = Weight(k, orders[i]) /\ f[i] \in Int
    BY <1>1, WeightsType DEF Kinds
  <2>2. g = [i \in DOMAIN orders |-> Weight(k, orders'[i])]
    BY <1>3 DEF Weights, Weight, Signed
  <2>3. \A i \in DOMAIN orders : Weight(k, orders'[i]) = Weight(k, orders[i])
    <3>1. ASSUME NEW o, NEW n, n.side = o.side, n.live = o.live, n.filled = o.filled, n.qty = o.qty
          PROVE  Weight(k, n) = Weight(k, o)
      BY <3>1 DEF Weight, Signed
    <3> QED
      BY <1>4, <3>1
  <2>4. IsFiniteSet(OrdersOf(s)) /\ OrdersOf(s) \subseteq DOMAIN orders
    BY <1>1, WeightsType DEF Kinds
  <2>5. Total(k, s) = SumFunctionOnSet(f, OrdersOf(s)) /\ Total(k, s)' = SumFunctionOnSet(g, OrdersOf(s))
    BY <1>6 DEF Total
  <2>6. \A i \in OrdersOf(s) : f[i] \in Int /\ g[i] = f[i]
    BY <2>1, <2>2, <2>3, <2>4
  <2> HIDE DEF f, g
  <2> QED
    BY <2>4, <2>5, <2>6, SumSame
<1> QED
  BY <1>3, <1>4, <1>5, <1>7, <1>8

-----------------------------------------------------------------------------
(* The steps that change an order *)

Same(n, o) == n.sym = o.sym /\ n.side = o.side /\ n.qty = o.qty

(* The broker moves one live order: a fill of it grows, or it ends.         *)
LEMMA BrokerMoves ==
  ASSUME TypeOK, Broker
  PROVE  /\ UNCHANGED <<loopVars, book, killActive, history>>
         /\ \E i \in DOMAIN orders : \E n \in OrderType :
              /\ orders' = [orders EXCEPT ![i] = n] /\ OrderOK(n)
              /\ orders[i] \in OrderType /\ OrderOK(orders[i]) /\ orders[i].live
              /\ Same(n, orders[i]) /\ n.recorded = orders[i].recorded /\ n.status = orders[i].status
              /\ \/ n.filled > orders[i].filled /\ n.live = (n.filled < n.qty)
                 \/ n.filled = orders[i].filled /\ ~n.live
<1>1. PICK i \in DOMAIN orders : BrokerEnds(i) \/ \E qty \in 1..orders[i].qty : BrokerFills(i, qty)
  BY DEF Broker
<1> DEFINE o == orders[i]
<1>2. o \in OrderType /\ OrderOK(o)
  BY WeightsType DEF TypeOK, Kinds
<1>3. CASE BrokerEnds(i)
  <2> DEFINE n == [o EXCEPT !.live = FALSE]
  <2>1. o.live /\ orders' = [orders EXCEPT ![i] = n] /\ UNCHANGED <<loopVars, book, killActive, history>>
    BY <1>3 DEF BrokerEnds
  <2>2. /\ n \in OrderType /\ OrderOK(n) /\ n.recorded = o.recorded
        /\ n.sym = o.sym /\ n.side = o.side /\ n.qty = o.qty
        /\ n.status = o.status /\ n.filled = o.filled /\ ~n.live
    BY <1>2, EndTyped
  <2> HIDE DEF n
  <2> QED
    BY <1>2, <2>1, <2>2 DEF Same
<1>4. ASSUME NEW qty \in 1..o.qty, BrokerFills(i, qty)
      PROVE  /\ UNCHANGED <<loopVars, book, killActive, history>>
             /\ \E n \in OrderType :
                  /\ orders' = [orders EXCEPT ![i] = n] /\ OrderOK(n)
                  /\ Same(n, o) /\ n.recorded = o.recorded /\ n.status = o.status /\ o.live
                  /\ n.filled > o.filled /\ n.live = (n.filled < n.qty)
  <2> DEFINE n == [o EXCEPT !.filled = qty, !.live = qty < o.qty]
  <2>1. /\ o.live /\ o.filled < qty
        /\ orders' = [orders EXCEPT ![i] = n] /\ UNCHANGED <<loopVars, book, killActive, history>>
    BY <1>4 DEF BrokerFills
  <2>2. /\ n \in OrderType /\ OrderOK(n) /\ n.recorded = o.recorded
        /\ n.sym = o.sym /\ n.side = o.side /\ n.qty = o.qty
        /\ n.status = o.status /\ n.filled = qty /\ n.live = (qty < o.qty)
    BY <1>2, <2>1, FillTyped
  <2>3. n.filled > o.filled
    BY <1>2, <2>1, <2>2 DEF OrderType
  <2> HIDE DEF n
  <2> QED
    BY <2>1, <2>2, <2>3 DEF Same
<1>5. CASE \E qty \in 1..o.qty : BrokerFills(i, qty)
  BY <1>2, <1>4, <1>5
<1> QED
  BY <1>1, <1>3, <1>5

(* The poll records what the broker has filled of the last order.           *)
LEMMA Settles ==
  ASSUME TypeOK, Settling, Settle
  PROVE  /\ last \in OrderType /\ OrderOK(last) /\ last.recorded = 0
         /\ Len(orders) \in DOMAIN orders
         /\ \E n \in OrderType :
              /\ orders' = [orders EXCEPT ![Len(orders)] = n] /\ OrderOK(n)
              /\ Same(n, last) /\ n.live = last.live /\ n.filled = last.filled /\ n.recorded = last.filled
<1> DEFINE n == [last EXCEPT !.status = Polled(last), !.recorded = last.filled]
<1>1. Len(orders) > 0 /\ last.recorded = 0 /\ orders' = [orders EXCEPT ![Len(orders)] = n]
  BY DEF Settle, Settling
<1>2. orders \in Seq(OrderType) /\ \A i \in DOMAIN orders : OrderOK(orders[i])
  BY DEF TypeOK
<1>3. DOMAIN orders = 1..Len(orders) /\ Len(orders) \in Nat /\ \A i \in DOMAIN orders : orders[i] \in OrderType
  BY <1>2, WeightsType DEF Kinds
<1>4. Len(orders) \in DOMAIN orders
  BY <1>1, <1>3
<1>5. last \in OrderType /\ OrderOK(last)
  BY <1>2, <1>3, <1>4 DEF last
<1>6. /\ n \in OrderType /\ OrderOK(n) /\ n.live = last.live
      /\ n.sym = last.sym /\ n.side = last.side /\ n.qty = last.qty
      /\ n.filled = last.filled /\ n.recorded = last.filled
  BY <1>5, SettleTyped
<1> HIDE DEF n
<1> QED
  BY <1>1, <1>4, <1>5, <1>6 DEF Same

(* An order is placed: live, with nothing filled.                           *)
LEMMA Places ==
  ASSUME TypeOK, NEW sig \in todo, NEW qty \in Quantities(sig),
         NEW status \in {"SUBMITTED", "REJECTED"}, Placed(sig, qty, status)
  PROVE  LET o == Order(sig.sym, sig.action, qty, status)
         IN  /\ o \in OrderType /\ OrderOK(o) /\ orders' = Append(orders, o)
             /\ o.sym = sig.sym /\ o.side = sig.action /\ o.qty = qty /\ o.live
             /\ o.filled = 0 /\ o.recorded = 0 /\ o.status = status
             /\ qty \in Nat /\ qty > 0
<1> DEFINE o == Order(sig.sym, sig.action, qty, status)
<1>1. sig.sym \in Symbols /\ sig.action \in Actions
  BY DEF TypeOK
<1>2. qty \in Nat /\ qty > 0
  BY QuantityType
<1>3. o \in OrderType /\ OrderOK(o)
  BY <1>1, <1>2, OrderTyped DEF Statuses
<1>4. /\ o.sym = sig.sym /\ o.side = sig.action /\ o.qty = qty /\ o.live
      /\ o.filled = 0 /\ o.recorded = 0 /\ o.status = status
  BY DEF Order
<1> QED
  BY <1>2, <1>3, <1>4 DEF Placed

-----------------------------------------------------------------------------
(* Types *)

(* Types and settling hold at the beginning.                                *)
LEMMA TypeInit == Init => TypeOK /\ Settling
<1> SUFFICES ASSUME Init PROVE TypeOK /\ Settling
  OBVIOUS
<1>1. PICK s \in Symbols, filled \in {0, Lot} : orders = Before(s, filled)
  BY DEF Init
<1> DEFINE o == [Order(s, "BUY", Lot, "FORGOTTEN") EXCEPT !.live = FALSE, !.filled = filled]
<1>2. /\ o.sym = s /\ o.side = "BUY" /\ o.qty = Lot /\ o.status = "FORGOTTEN" /\ o.live = FALSE
      /\ o.filled = filled /\ o.recorded = 0
  BY DEF Order
<1>3. o \in OrderType
  <2>1. filled \in Nat /\ Lot \in Nat
    OBVIOUS
  <2> QED
    BY <2>1 DEF Order, OrderType, Statuses
<1>4. OrderOK(o)
  <2> HIDE DEF o
  <2>1. filled \in Nat /\ Lot \in Nat /\ filled <= Lot
    OBVIOUS
  <2> QED
    BY <1>2, <2>1 DEF OrderOK
<1>5. orders = <<o>>
  BY <1>1 DEF Before
<1> HIDE DEF o
<1>6. orders \in Seq(OrderType) /\ \A i \in DOMAIN orders : OrderOK(orders[i])
  BY <1>3, <1>4, <1>5
<1>7. /\ pc = "idle" /\ bar = 0 /\ held = Flat /\ todo = {} /\ seen = Flat /\ book = Flat
      /\ killActive = FALSE /\ triggered = FALSE /\ alarm = FALSE /\ working = {} /\ overlapped = {}
  BY DEF Init
<1>8. 0 \in 0..(Interval - 1) /\ Flat \in [Symbols -> Int]
  BY DEF Flat
<1> QED
  BY <1>6, <1>7, <1>8 DEF TypeOK, Settling

(* Every step keeps types and settling.                                     *)
LEMMA TypeStep ==
  ASSUME TypeOK, Settling, [Next]_vars
  PROVE  TypeOK' /\ Settling'
<1>0. orders \in Seq(OrderType) /\ \A i \in DOMAIN orders : OrderOK(orders[i])
  BY DEF TypeOK
<1>1. ASSUME UNCHANGED orders, pc' # "settle" \/ pc' = pc
      PROVE  Settling' /\ orders' \in Seq(OrderType) /\ \A i \in DOMAIN orders' : OrderOK(orders'[i])
  BY <1>0, <1>1 DEF Settling, last
<1>2. Positions \in [Symbols -> Int] /\ Flat \in [Symbols -> Int]
  BY <1>0, PositionType DEF Flat
<1>3. CASE BeginBar
  <2>1. bar' \in 0..(Interval - 1)
    BY <1>3 DEF BeginBar, TypeOK
  <2>2. held' \in [Symbols -> Int]
    BY <1>2, <1>3 DEF BeginBar
  <2>3. working' \subseteq Symbols
    BY <1>0, <1>3, WeightsType DEF BeginBar, LiveSymbols, LiveOrders, OrderType, Kinds
  <2>4. pc' \in {"reconcile", "signals"} /\ UNCHANGED <<todo, seen, triggered, alarm, bookVars, killActive, overlapped>>
    BY <1>3 DEF BeginBar
  <2> QED
    BY <1>1, <2>1, <2>2, <2>3, <2>4 DEF TypeOK, bookVars
<1>4. CASE ReadPositions
  BY <1>1, <1>2, <1>4 DEF ReadPositions, BrokerPositions, TypeOK, bookVars, history
<1>5. CASE Compare
  BY <1>1, <1>2, <1>5 DEF Compare, TypeOK, bookVars, history
<1>6. CASE ReconcileFails
  BY <1>1, <1>2, <1>6 DEF ReconcileFails, TypeOK, bookVars, history
<1>7. CASE Generate
  <2>1. todo' \subseteq [sym : Symbols, action : Actions]
    BY <1>7 DEF Generate
  <2> QED
    BY <1>1, <1>7, <2>1 DEF Generate, TypeOK, bookVars, history
<1>8. ASSUME NEW sig \in todo, Dropped(sig)
      PROVE  TypeOK' /\ Settling'
  BY <1>1, <1>8 DEF Dropped, Executes, TypeOK, bookVars, history
<1>9. ASSUME NEW sig \in todo, Halts(sig)
      PROVE  TypeOK' /\ Settling'
  BY <1>1, <1>9 DEF Halts, Executes, TypeOK, bookVars, history
<1>10. ASSUME NEW sig \in todo, NEW qty \in Quantities(sig), NEW status \in {"SUBMITTED", "REJECTED"},
              Placed(sig, qty, status)
       PROVE  TypeOK' /\ Settling'
  <2> DEFINE o == Order(sig.sym, sig.action, qty, status)
  <2>1. o \in OrderType /\ OrderOK(o) /\ orders' = Append(orders, o) /\ o.recorded = 0
    BY <1>10, Places
  <2> HIDE DEF o
  <2>2. /\ orders' \in Seq(OrderType) /\ Len(orders') = Len(orders) + 1
        /\ DOMAIN orders' = DOMAIN orders \cup {Len(orders')}
        /\ orders'[Len(orders')] = o /\ \A j \in DOMAIN orders : orders'[j] = orders[j]
    BY <1>0, <2>1, OrderAdded
  <2>3. \A i \in DOMAIN orders' : OrderOK(orders'[i])
    BY <1>0, <2>1, <2>2
  <2>4. Len(orders') > 0 /\ last'.recorded = 0
    BY <1>0, <2>1, <2>2, LenProperties DEF last
  <2>5. /\ todo' \subseteq todo /\ pc' \in {"settle", "execute"} /\ sig.sym \in Symbols
        /\ overlapped' \in {overlapped, overlapped \cup {sig.sym}}
        /\ UNCHANGED <<bar, held, seen, triggered, alarm, book, killActive, working>>
    BY <1>10 DEF Placed, Executes, TypeOK
  <2> QED
    BY <2>2, <2>3, <2>4, <2>5 DEF TypeOK, Settling
<1>11. CASE Settle
  <2>0. last \in OrderType /\ Len(orders) \in DOMAIN orders
    BY <1>11, Settles
  <2>1. PICK n \in OrderType : /\ orders' = [orders EXCEPT ![Len(orders)] = n] /\ OrderOK(n)
                               /\ n.sym = last.sym
    BY <1>11, Settles DEF Same
  <2>2. /\ orders' \in Seq(OrderType) /\ DOMAIN orders' = DOMAIN orders
        /\ orders'[Len(orders)] = n /\ \A j \in DOMAIN orders : j # Len(orders) => orders'[j] = orders[j]
    BY <1>0, <2>0, <2>1, OrderChanges DEF last
  <2>3. \A i \in DOMAIN orders' : OrderOK(orders'[i])
    BY <1>0, <2>1, <2>2
  <2>4. book' \in [Symbols -> Int]
    <3>1. last.filled \in Int /\ last.sym \in Symbols
      BY <2>0 DEF OrderType
    <3>2. Signed(last, last.filled) \in Int
      BY <3>1 DEF Signed
    <3> QED
      BY <1>11, <3>1, <3>2 DEF Settle, TypeOK
  <2>5. pc' = "execute" /\ UNCHANGED <<bar, held, todo, seen, triggered, alarm, killActive, history>>
    BY <1>11 DEF Settle
  <2> QED
    BY <2>2, <2>3, <2>4, <2>5 DEF TypeOK, Settling, history
<1>12. CASE SettleFails
  BY <1>1, <1>12 DEF SettleFails, TypeOK, bookVars, history
<1>13. CASE EndBar
  BY <1>1, <1>2, <1>13 DEF EndBar, TypeOK, bookVars
<1>14. CASE EndLoop
  BY <1>1, <1>14 DEF EndLoop, TypeOK, bookVars, history
<1>15. CASE Broker
  <2>1. PICK i \in DOMAIN orders, n \in OrderType :
           /\ orders' = [orders EXCEPT ![i] = n] /\ OrderOK(n) /\ n.sym = orders[i].sym
           /\ n.recorded = orders[i].recorded
    BY <1>15, BrokerMoves DEF Same
  <2>2. /\ orders' \in Seq(OrderType) /\ Len(orders') = Len(orders) /\ DOMAIN orders' = DOMAIN orders
        /\ orders'[i] = n /\ \A j \in DOMAIN orders : j # i => orders'[j] = orders[j]
    BY <1>0, <2>1, OrderChanges
  <2>3. \A j \in DOMAIN orders' : OrderOK(orders'[j])
    BY <1>0, <2>1, <2>2
  <2>4. UNCHANGED <<loopVars, book, killActive, history>>
    BY <1>15, BrokerMoves
  <2>5. Settling'
    <3>1. DOMAIN orders = 1..Len(orders) /\ Len(orders) \in Nat
      BY <1>0, WeightsType DEF Kinds
    <3> QED
      BY <2>1, <2>2, <2>4, <3>1 DEF Settling, last, loopVars
  <2> QED
    BY <2>2, <2>3, <2>4, <2>5 DEF TypeOK, loopVars, history
<1>16. CASE Activate \/ Reset
  BY <1>1, <1>16 DEF Activate, Reset, TypeOK, loopVars, bookVars, history
<1>17. CASE Restart
  <2>1. orders' \in Seq(OrderType) /\ \A i \in DOMAIN orders' : OrderOK(orders'[i])
    BY <1>17, OrdersForgotten DEF Restart
  <2>2. 0 \in 0..(Interval - 1)
    OBVIOUS
  <2> QED
    BY <1>2, <1>17, <2>1, <2>2 DEF Restart, TypeOK, Settling, history
<1>18. CASE UNCHANGED vars
  BY <1>1, <1>18 DEF vars, TypeOK, loopVars, bookVars, history
<1>19. CASE BarRaises
  <2>1. bar' \in 0..(Interval - 1)
    BY <1>19 DEF BarRaises, TypeOK
  <2>2. /\ pc' = "idle" /\ held' = Flat /\ alarm' = FALSE /\ working' = {}
        /\ UNCHANGED <<todo, seen, triggered, bookVars, killActive, overlapped>>
    BY <1>19 DEF BarRaises
  <2> QED
    BY <1>1, <1>2, <2>1, <2>2 DEF TypeOK, bookVars
<1>20. CASE \E sig \in todo : Execute(sig)
  BY <1>8, <1>9, <1>10, <1>20 DEF Execute
<1> QED
  BY <1>3, <1>4, <1>5, <1>6, <1>7, <1>11, <1>12, <1>13, <1>14, <1>15, <1>16, <1>17, <1>18, <1>19, <1>20
  DEF Next, LoopStep

(* Every reachable state is typed, and an order that settles is the last    *)
(* one.                                                                     *)
THEOREM Typing == Spec => [](TypeOK /\ Settling)
<1>1. TypeOK /\ Settling /\ [Next]_vars => (TypeOK /\ Settling)'
  BY TypeStep
<1> QED
  BY TypeInit, <1>1, PTL DEF Spec

-----------------------------------------------------------------------------
(* The book and the alarm *)

(* At the beginning nothing is recorded and nothing is filled.              *)
LEMMA NothingRecorded ==
  ASSUME NEW o, o.recorded = 0
  PROVE  Weight("recorded", o) = 0
<1>1. Weight("recorded", o) = Signed(o, 0)
  BY DEF Weight
<1> QED
  BY <1>1, MinusZero, Zenon DEF Signed

(* As long as the orders stay, so does everything that is counted of them.  *)
LEMMA OrdersStay ==
  ASSUME UNCHANGED orders
  PROVE  /\ \A k, s : Total(k, s)' = Total(k, s)
         /\ Positions' = Positions /\ Missed' = Missed /\ LiveSymbols' = LiveSymbols
         /\ \A s : Position(s)' = Position(s)
<1>1. \A k, s : Total(k, s)' = Total(k, s)
  BY DEF Total, Weights, Weight, Signed, OrdersOf
<1>2. \A s : Position(s)' = Position(s)
  BY DEF Position, Signed, OrdersOf
<1> QED
  BY <1>1, <1>2 DEF Positions, Missed, LiveSymbols, LiveOrders

(* The book begins flat.                                                    *)
LEMMA BookInit == Init => BookInv
<1> SUFFICES ASSUME Init PROVE BookInv
  OBVIOUS
<1>1. orders \in Seq(OrderType)
  BY TypeInit DEF TypeOK
<1>2. \A i \in DOMAIN orders : orders[i].recorded = 0
  <2>1. PICK s \in Symbols, filled \in {0, Lot} : orders = Before(s, filled)
    BY DEF Init
  <2> DEFINE o == [Order(s, "BUY", Lot, "FORGOTTEN") EXCEPT !.live = FALSE, !.filled = filled]
  <2>2. o.recorded = 0
    BY DEF Order
  <2>3. orders = <<o>>
    BY <2>1 DEF Before
  <2> HIDE DEF o
  <2> QED
    BY <2>2, <2>3
<1>3. ASSUME NEW s \in Symbols PROVE Total("recorded", s) = 0
  <2> DEFINE f == Weights("recorded")
  <2>1. /\ IsFiniteSet(OrdersOf(s)) /\ OrdersOf(s) \subseteq DOMAIN orders
        /\ \A i \in DOMAIN orders : f[i] = Weight("recorded", orders[i])
    BY <1>1, WeightsType DEF Kinds
  <2>2. \A i \in OrdersOf(s) : f[i] = 0
    BY <1>2, <2>1, NothingRecorded
  <2> HIDE DEF f
  <2>3. SumFunctionOnSet(f, OrdersOf(s)) = 0
    BY <2>1, <2>2, SumOfZeros
  <2> QED
    BY <2>3 DEF Total, f
<1>4. pc = "idle" /\ book = Flat
  BY DEF Init
<1> QED
  BY <1>3, <1>4 DEF BookInv, Flat

(* When every fill is recorded, the book holds the account's positions.     *)
LEMMA RecordedIsHeld ==
  ASSUME TypeOK, BookInv, Missed = {}
  PROVE  book = Positions
<1>1. orders \in Seq(OrderType)
  BY DEF TypeOK
<1>2. ASSUME NEW s \in Symbols
      PROVE  Total("filled", s) = Total("recorded", s)
  <2> DEFINE f == Weights("recorded")
             g == Weights("filled")
  <2>1. /\ IsFiniteSet(OrdersOf(s)) /\ OrdersOf(s) \subseteq DOMAIN orders
        /\ \A i \in DOMAIN orders : f[i] = Weight("recorded", orders[i]) /\ f[i] \in Int
        /\ \A i \in DOMAIN orders : g[i] = Weight("filled", orders[i])
    BY <1>1, WeightsType DEF Kinds
  <2>2. \A i \in DOMAIN orders : orders[i].filled = orders[i].recorded
    BY DEF Missed
  <2>3. \A i \in OrdersOf(s) : f[i] \in Int /\ g[i] = f[i]
    BY <2>1, <2>2 DEF Weight
  <2> HIDE DEF f, g
  <2>4. SumFunctionOnSet(g, OrdersOf(s)) = SumFunctionOnSet(f, OrdersOf(s))
    BY <2>1, <2>3, SumSame
  <2> QED
    BY <2>4 DEF Total, f, g
<1>3. \A s \in Symbols : Positions[s] = book[s]
  BY <1>1, <1>2, PositionType DEF BookInv
<1>4. book \in [Symbols -> Int] /\ Positions \in [Symbols -> Int]
  BY <1>1, PositionType DEF TypeOK
<1> QED
  BY <1>3, <1>4

(* Every step keeps the book what was recorded.                             *)
LEMMA BookStep ==
  ASSUME TypeOK, Settling, BookInv, [Next]_vars
  PROVE  BookInv'
<1>0. orders \in Seq(OrderType)
  BY DEF TypeOK
<1>1. ASSUME UNCHANGED bookVars, pc' # "compare" \/ (pc' = pc /\ seen' = seen) \/ seen' = Positions
      PROVE  BookInv'
  BY <1>1, OrdersStay DEF BookInv, bookVars
<1>2. CASE BeginBar \/ BarRaises \/ Compare \/ ReconcileFails \/ Generate \/ SettleFails \/ EndBar \/ EndLoop
  BY <1>1, <1>2 DEF BeginBar, BarRaises, Compare, ReconcileFails, Generate, SettleFails, EndBar, EndLoop
<1>3. CASE ReadPositions
  BY <1>1, <1>3 DEF ReadPositions, BrokerPositions
<1>4. ASSUME NEW sig \in todo, Dropped(sig) \/ Halts(sig)
      PROVE  BookInv'
  BY <1>1, <1>4 DEF Dropped, Halts
<1>5. ASSUME NEW sig \in todo, NEW qty \in Quantities(sig), NEW status \in {"SUBMITTED", "REJECTED"},
             Placed(sig, qty, status)
      PROVE  BookInv'
  <2> DEFINE o == Order(sig.sym, sig.action, qty, status)
  <2>1. o \in OrderType /\ orders' = Append(orders, o) /\ o.recorded = 0
    BY <1>5, Places
  <2>2. book' = book /\ pc' # "compare"
    BY <1>5 DEF Placed
  <2> HIDE DEF o
  <2>3. Weight("recorded", o) = 0
    BY <2>1, NothingRecorded
  <2>4. \A s : Total("recorded", s)' = IF s = o.sym THEN Total("recorded", s) + 0 ELSE Total("recorded", s)
    BY <1>0, <2>1, <2>3, OrderAdded DEF Kinds
  <2>5. \A s : Total("recorded", s) \in Int
    BY <1>0, TotalType DEF Kinds
  <2>6. \A s : Total("recorded", s)' = Total("recorded", s)
    BY <2>4, <2>5
  <2> QED
    BY <2>2, <2>6 DEF BookInv
<1>6. CASE Settle
  <2>0. last \in OrderType /\ last.recorded = 0 /\ Len(orders) \in DOMAIN orders
    BY <1>6, Settles
  <2>1. PICK n \in OrderType : /\ orders' = [orders EXCEPT ![Len(orders)] = n]
                               /\ n.sym = last.sym /\ n.side = last.side /\ n.recorded = last.filled
    BY <1>6, Settles DEF Same
  <2>2. Weight("recorded", last) = 0 /\ Weight("recorded", n) = Signed(last, last.filled)
    BY <2>0, <2>1, NothingRecorded DEF Weight, Signed
  <2>3. Signed(last, last.filled) \in Int
    BY <2>0 DEF OrderType, Signed
  <2>4. \A s : Total("recorded", s)' =
          IF s = last.sym THEN Total("recorded", s) + (Signed(last, last.filled) - 0) ELSE Total("recorded", s)
    <3> DEFINE m == Len(orders)
               W(k) == Weight(k, n) - Weight(k, orders[m])
    <3>1. m \in DOMAIN orders /\ n.sym = orders[m].sym /\ orders' = [orders EXCEPT ![m] = n]
      BY <2>0, <2>1 DEF last
    <3>2. \A k \in Kinds : \A s : Total(k, s)' = IF s = n.sym THEN Total(k, s) + W(k) ELSE Total(k, s)
      <4> HIDE DEF m
      <4> QED
        BY <1>0, <3>1, OrderChanges
    <3>3. W("recorded") = Signed(last, last.filled) - 0
      BY <2>2 DEF last
    <3> HIDE DEF W
    <3> QED
      BY <2>1, <3>2, <3>3 DEF Kinds
  <2>5. \A s : Total("recorded", s) \in Int
    BY <1>0, TotalType DEF Kinds
  <2>6. book' = [book EXCEPT ![last.sym] = @ + Signed(last, last.filled)] /\ pc' # "compare"
    BY <1>6 DEF Settle
  <2>7. ASSUME NEW s \in Symbols PROVE book'[s] = Total("recorded", s)'
    <3>1. book \in [Symbols -> Int] /\ book[s] = Total("recorded", s)
      BY DEF TypeOK, BookInv
    <3>2. book'[s] = IF s = last.sym THEN book[s] + Signed(last, last.filled) ELSE book[s]
      BY <2>6, <3>1
    <3> QED
      BY <2>3, <2>4, <2>5, <3>1, <3>2
  <2> QED
    BY <2>6, <2>7 DEF BookInv
<1>7. CASE Broker
  <2>1. PICK i \in DOMAIN orders, n \in OrderType :
           /\ orders' = [orders EXCEPT ![i] = n] /\ OrderOK(n) /\ OrderOK(orders[i])
           /\ n.sym = orders[i].sym /\ n.side = orders[i].side /\ n.recorded = orders[i].recorded
           /\ orders[i] \in OrderType /\ (n.filled > orders[i].filled \/ n.filled = orders[i].filled)
    BY <1>7, BrokerMoves DEF Same
  <2>2. UNCHANGED <<pc, book, seen>>
    BY <1>7, BrokerMoves DEF loopVars
  <2>3. /\ DOMAIN orders' = DOMAIN orders /\ orders'[i] = n
        /\ \A j \in DOMAIN orders : j # i => orders'[j] = orders[j]
    BY <1>0, <2>1, OrderChanges
  <2> DEFINE W(k) == Weight(k, n) - Weight(k, orders[i])
  <2>4. \A k \in Kinds : \A s : Total(k, s)' = IF s = n.sym THEN Total(k, s) + W(k) ELSE Total(k, s)
    BY <1>0, <2>1, OrderChanges
  <2>5. \A k \in Kinds : Weight(k, orders[i]) \in Int
    BY <2>1, WeightType
  <2>6. W("recorded") = 0 /\ (n.filled = orders[i].filled => W("filled") = 0)
    <3>1. Weight("recorded", n) = Weight("recorded", orders[i])
      BY <2>1 DEF Weight, Signed
    <3>2. n.filled = orders[i].filled => Weight("filled", n) = Weight("filled", orders[i])
      BY <2>1 DEF Weight, Signed
    <3> QED
      BY <2>5, <3>1, <3>2 DEF Kinds
  <2>7. \A k \in Kinds : \A s : Total(k, s) \in Int
    BY <1>0, TotalType
  <2> HIDE DEF W
  <2>8. \A s : Total("recorded", s)' = Total("recorded", s)
    BY <2>4, <2>6, <2>7 DEF Kinds
  <2>9. ASSUME pc = "compare", Missed' = {} PROVE seen = Positions'
    <3>1. n.filled = n.recorded
      BY <2>3, <2>9 DEF Missed
    <3>2. n.filled = orders[i].filled
      BY <2>1, <3>1 DEF OrderOK, OrderType
    <3>3. Missed = {}
      BY <2>1, <2>3, <2>9, <3>2 DEF Missed
    <3>4. \A s : Total("filled", s)' = Total("filled", s)
      BY <2>4, <2>6, <2>7, <3>2 DEF Kinds
    <3>5. \A s : Position(s)' = Position(s)
      <4>1. \A s : Position(s) = Total("filled", s)
        BY PositionIsTotal
      <4>2. \A s : Position(s)' = Total("filled", s)'
        BY NextPositionIsTotal
      <4> QED
        BY <3>4, <4>1, <4>2
    <3>6. Positions' = Positions
      BY <3>5 DEF Positions
    <3> QED
      BY <2>9, <3>3, <3>6 DEF BookInv
  <2> QED
    BY <2>2, <2>8, <2>9 DEF BookInv
<1>8. CASE Activate \/ Reset
  BY <1>1, <1>8 DEF Activate, Reset, loopVars
<1>9. CASE Restart
  <2>1. book' = Flat /\ pc' # "compare" /\ \A s : Total("recorded", s)' = 0
    BY <1>9, OrdersForgotten DEF Restart
  <2> QED
    BY <2>1 DEF BookInv, Flat
<1>10. CASE UNCHANGED vars
  BY <1>1, <1>10 DEF vars, loopVars
<1>11. CASE \E sig \in todo : Execute(sig)
  BY <1>4, <1>5, <1>11 DEF Execute
<1> QED
  BY <1>2, <1>3, <1>6, <1>7, <1>8, <1>9, <1>10, <1>11 DEF Next, LoopStep

(* record_fill: the book of the risk manager is the sum of what was         *)
(* recorded of the orders, and what the reconciler read still holds while   *)
(* it compares, unless a fill was not recorded.                             *)
THEOREM BookIsRecorded == Spec => []BookInv
<1>1. TypeOK /\ Settling /\ BookInv /\ [Next]_vars => BookInv'
  BY BookStep
<1> QED
  BY BookInit, Typing, <1>1, PTL DEF Spec

(* The reconciler raises no false alarm.                                     *)
THEOREM NoFalseAlarm == Spec => AlarmHasCause
<1>1. ASSUME TypeOK, BookInv, [Next]_vars, ~alarm, alarm'
      PROVE  Missed # {} \/ Stray # {}
  <2>1. Compare
    <3>1. UNCHANGED alarm \/ alarm' = FALSE \/ Compare
      <4>1. CASE Broker
        BY <1>1, <4>1, BrokerMoves DEF loopVars
      <4>2. CASE ~Broker
        BY <1>1, <4>2 DEF Next, LoopStep, BeginBar, BarRaises, ReadPositions, ReconcileFails, Generate, Execute, Dropped,
             Halts, Placed, Settle, SettleFails, EndBar, EndLoop, Activate, Reset, Restart, vars, loopVars
      <4> QED
        BY <4>1, <4>2
    <3> QED
      BY <1>1, <3>1
  <2>2. ASSUME Missed = {} PROVE Mismatched = {}
    <3>1. seen = book
      BY <1>1, <2>1, <2>2, RecordedIsHeld DEF Compare, BookInv
    <3> QED
      BY <3>1 DEF Mismatched
  <2> QED
    BY <1>1, <2>1, <2>2 DEF Compare
<1>2. TypeOK /\ BookInv /\ [Next]_vars => [~alarm /\ alarm' => Missed # {} \/ Stray # {}]_vars
  BY <1>1
<1> QED
  BY Typing, BookIsRecorded, <1>2, PTL DEF Spec, AlarmHasCause

-----------------------------------------------------------------------------
(* No short position without overlapping orders *)

(* The least an order can come to is no more than what is filled of it.     *)
LEMMA DownIsLess ==
  ASSUME NEW o \in OrderType, OrderOK(o)
  PROVE  /\ Weight("down", o) <= Weight("filled", o)
         /\ ~o.live => Weight("down", o) = Weight("filled", o)
<1>1. o.qty \in Nat /\ o.filled \in Nat /\ o.filled <= o.qty
  BY DEF OrderType, OrderOK
<1>2. /\ Weight("down", o) = IF o.side \in Buys THEN o.filled ELSE IF o.live THEN -o.qty ELSE -o.filled
      /\ Weight("filled", o) = IF o.side \in Buys THEN o.filled ELSE -o.filled
  BY DEF Weight, Signed
<1> QED
  BY <1>1, <1>2

(* What sells lower the position by is no more than what they sell.         *)
LEMMA DownIsBelow ==
  ASSUME TypeOK, NEW s
  PROVE  /\ Total("down", s) <= Position(s)
         /\ s \notin LiveSymbols => Total("down", s) = Position(s)
<1> DEFINE f == Weights("down")
           g == Weights("filled")
           S == OrdersOf(s)
<1>1. orders \in Seq(OrderType) /\ \A i \in DOMAIN orders : OrderOK(orders[i])
  BY DEF TypeOK
<1>2. /\ \A i \in DOMAIN orders : orders[i] \in OrderType
      /\ \A i \in DOMAIN orders : f[i] = Weight("down", orders[i]) /\ f[i] \in Int
      /\ \A i \in DOMAIN orders : g[i] = Weight("filled", orders[i]) /\ g[i] \in Int
      /\ IsFiniteSet(S) /\ S \subseteq DOMAIN orders
  BY <1>1, WeightsType DEF Kinds
<1>3. \A i \in S : f[i] \in Int /\ g[i] \in Int /\ f[i] <= g[i]
  BY <1>1, <1>2, DownIsLess
<1>4. s \notin LiveSymbols => \A i \in S : g[i] = f[i]
  <2>1. s \notin LiveSymbols => \A i \in S : ~orders[i].live
    BY DEF LiveSymbols, LiveOrders, OrdersOf
  <2> QED
    BY <1>1, <1>2, <2>1, DownIsLess
<1>5. Total("down", s) = SumFunctionOnSet(f, S) /\ Position(s) = SumFunctionOnSet(g, S)
  BY PositionIsTotal DEF Total
<1> HIDE DEF f, g, S
<1>6. SumFunctionOnSet(f, S) <= SumFunctionOnSet(g, S)
  BY <1>2, <1>3, SumGrows
<1>7. s \notin LiveSymbols => SumFunctionOnSet(g, S) = SumFunctionOnSet(f, S)
  BY <1>2, <1>3, <1>4, SumSame
<1> QED
  BY <1>5, <1>6, <1>7

(* The account begins without a short.                                      *)
LEMMA ShortInit == Init => ShortInv
<1> SUFFICES ASSUME Init PROVE ShortInv
  OBVIOUS
<1>1. PICK sym \in Symbols, filled \in {0, Lot} : orders = Before(sym, filled)
  BY DEF Init
<1> DEFINE o == [Order(sym, "BUY", Lot, "FORGOTTEN") EXCEPT !.live = FALSE, !.filled = filled]
<1>2. o.side = "BUY" /\ o.filled = filled
  BY DEF Order
<1>3. orders = <<o>>
  BY <1>1 DEF Before
<1>4. filled >= 0
  OBVIOUS
<1> HIDE DEF o
<1>5. \A i \in DOMAIN orders : Weight("down", orders[i]) >= 0
  BY <1>2, <1>3, <1>4 DEF Weight, Buys
<1>6. ASSUME NEW s \in Symbols PROVE Total("down", s) >= 0
  <2> DEFINE f == Weights("down")
             S == OrdersOf(s)
             z == [i \in DOMAIN orders |-> 0]
  <2>1. /\ \A i \in DOMAIN orders : f[i] = Weight("down", orders[i]) /\ f[i] \in Int
        /\ IsFiniteSet(S) /\ S \subseteq DOMAIN orders
    BY TypeInit, WeightsType DEF Kinds, TypeOK
  <2>2. \A i \in S : z[i] \in Int /\ f[i] \in Int /\ z[i] <= f[i] /\ z[i] = 0
    BY <1>5, <2>1
  <2>3. Total("down", s) = SumFunctionOnSet(f, S)
    BY DEF Total
  <2> HIDE DEF f, S, z
  <2>4. SumFunctionOnSet(z, S) <= SumFunctionOnSet(f, S) /\ SumFunctionOnSet(z, S) = 0
    BY <2>1, <2>2, SumGrows, SumOfZeros
  <2>5. SumFunctionOnSet(f, S) \in Int
    BY <2>1, <2>2, SumTakes
  <2> QED
    BY <2>3, <2>4, <2>5
<1>7. pc = "idle" /\ todo = {}
  BY DEF Init
<1> QED
  BY <1>6, <1>7 DEF ShortInv, Pending

(* The orders stay and the bar has no more to send than before.             *)
LEMMA ShortStays ==
  ASSUME ShortInv, UNCHANGED <<orders, held, working, overlapped>>, todo' \subseteq todo,
         Pending' \subseteq Pending
  PROVE  ShortInv'
BY OrdersStay DEF ShortInv

(* An order is placed over an account that covers it, or over working       *)
(* orders.                                                                  *)
LEMMA ShortPlaced ==
  ASSUME "SELL_SHORT" \notin Actions, TypeOK, ShortInv,
         NEW sig \in todo, NEW qty \in Quantities(sig), NEW status \in {"SUBMITTED", "REJECTED"},
         pc = "execute", Placed(sig, qty, status)
  PROVE  ShortInv'
<1> DEFINE o == Order(sig.sym, sig.action, qty, status)
<1>1. /\ o \in OrderType /\ OrderOK(o) /\ orders' = Append(orders, o)
      /\ o.sym = sig.sym /\ o.side = sig.action /\ o.qty = qty /\ o.live /\ o.filled = 0
      /\ qty \in Nat /\ qty > 0
  BY Places
<1>2. orders \in Seq(OrderType) /\ sig.sym \in Symbols /\ sig.action \in Actions
  BY DEF TypeOK
<1>3. /\ todo' = todo \ {sig} /\ UNCHANGED <<held, working>> /\ pc' \in {"settle", "execute"}
      /\ overlapped' = IF sig.sym \in working \cup LiveSymbols THEN overlapped \cup {sig.sym} ELSE overlapped
  BY DEF Placed, Executes
<1> HIDE DEF o
<1>4. /\ DOMAIN orders' = DOMAIN orders \cup {Len(orders')}
      /\ orders'[Len(orders')] = o /\ \A j \in DOMAIN orders : orders'[j] = orders[j]
  BY <1>1, <1>2, OrderAdded
<1>5. \A k \in Kinds : \A s : Total(k, s)' = IF s = sig.sym THEN Total(k, s) + Weight(k, o) ELSE Total(k, s)
  BY <1>1, <1>2, OrderAdded
<1>6. LiveSymbols' \subseteq LiveSymbols \cup {sig.sym}
  BY <1>1, <1>4 DEF LiveSymbols, LiveOrders
<1>7. ASSUME NEW s \in Symbols, s \notin overlapped' PROVE Total("down", s)' >= 0
  <2>1. Total("down", s) >= 0 /\ s \notin overlapped
    BY <1>3, <1>7 DEF ShortInv
  <2>2. CASE s # sig.sym
    BY <1>5, <2>1, <2>2 DEF Kinds
  <2>3. CASE s = sig.sym
    <3>1. s \notin working /\ s \notin LiveSymbols
      BY <1>3, <1>7, <2>3
    <3>2. s \in Pending
      BY <2>3 DEF Pending
    <3>3. held[s] \in {Position(s), 0}
      BY <3>1, <3>2 DEF ShortInv
    <3>4. Position(s) = Total("down", s) /\ Total("down", s) \in Int
      BY <1>2, <3>1, DownIsBelow, TotalType DEF Kinds
    <3>5. Total("down", s)' = Total("down", s) + Weight("down", o)
      BY <1>5, <2>3 DEF Kinds
    <3>6. CASE sig.action \in Buys
      <4>1. Weight("down", o) = 0
        BY <1>1, <3>6 DEF Weight
      <4> QED
        BY <2>1, <3>4, <3>5, <4>1
    <3>7. CASE sig.action = "SELL"
      <4>1. Weight("down", o) = -qty
        BY <1>1, <3>7 DEF Weight, Buys
      <4>2. qty = AbsOf(held[s])
        BY <2>3, <3>7 DEF Quantities, Exits
      <4>3. qty = Total("down", s)
        BY <1>1, <2>1, <3>3, <3>4, <4>2 DEF AbsOf
      <4> QED
        BY <3>4, <3>5, <4>1, <4>3
    <3> QED
      BY <1>2, <3>6, <3>7, PipelineConstants
  <2> QED
    BY <2>2, <2>3
<1>8. ASSUME NEW s \in Pending', s \notin working'
      PROVE  s \notin LiveSymbols' /\ held'[s] \in {Position(s)', 0}
  <2>1. PICK sg \in todo : sg # sig /\ s = sg.sym
    BY <1>3, <1>8 DEF Pending
  <2>2. s # sig.sym
    BY <2>1 DEF ShortInv
  <2>3. s \in Pending /\ s \notin working
    BY <1>3, <1>8, <2>1 DEF Pending
  <2>4. s \notin LiveSymbols /\ held[s] \in {Position(s), 0}
    BY <2>3 DEF ShortInv
  <2>5. Position(s)' = Position(s)
    BY <1>5, <2>2, PositionIsTotal, NextPositionIsTotal DEF Kinds
  <2> QED
    BY <1>3, <1>6, <2>2, <2>4, <2>5
<1>9. \A u, v \in todo' : u.sym = v.sym => u = v
  BY <1>3 DEF ShortInv
<1> QED
  BY <1>7, <1>8, <1>9 DEF ShortInv

(* The broker fills or ends an order.                                       *)
LEMMA ShortBroker ==
  ASSUME TypeOK, ShortInv, Broker
  PROVE  ShortInv'
<1>0. orders \in Seq(OrderType)
  BY DEF TypeOK
<1>1. PICK i \in DOMAIN orders, n \in OrderType :
         /\ orders' = [orders EXCEPT ![i] = n] /\ OrderOK(n)
         /\ orders[i] \in OrderType /\ OrderOK(orders[i]) /\ orders[i].live
         /\ n.sym = orders[i].sym /\ n.side = orders[i].side /\ n.qty = orders[i].qty
         /\ \/ n.filled > orders[i].filled /\ n.live = (n.filled < n.qty)
            \/ n.filled = orders[i].filled /\ ~n.live
  BY BrokerMoves DEF Same
<1>2. UNCHANGED <<pc, held, todo, working, overlapped>>
  BY BrokerMoves DEF loopVars, history
<1>3. /\ DOMAIN orders' = DOMAIN orders /\ orders'[i] = n
      /\ \A j \in DOMAIN orders : j # i => orders'[j] = orders[j]
  BY <1>0, <1>1, OrderChanges
<1> DEFINE W(k) == Weight(k, n) - Weight(k, orders[i])
<1>4. \A k \in Kinds : \A s : Total(k, s)' = IF s = n.sym THEN Total(k, s) + W(k) ELSE Total(k, s)
  BY <1>0, <1>1, OrderChanges
<1>5. W("down") \in Int /\ W("down") >= 0
  <2> DEFINE o == orders[i]
  <2>1. /\ n.filled \in Nat /\ n.qty \in Nat /\ o.filled \in Nat /\ o.qty \in Nat
        /\ n.filled <= n.qty
    BY <1>1 DEF OrderType, OrderOK
  <2>2. /\ Weight("down", n) = IF n.side \in Buys THEN n.filled ELSE IF n.live THEN -n.qty ELSE -n.filled
        /\ Weight("down", o) = IF o.side \in Buys THEN o.filled ELSE IF o.live THEN -o.qty ELSE -o.filled
    BY DEF Weight
  <2>3. n.side = o.side /\ n.qty = o.qty /\ o.live /\ o.filled <= n.filled
    BY <1>1, <2>1
  <2> HIDE DEF o
  <2>4. CASE n.side \in Buys
    BY <2>1, <2>2, <2>3, <2>4 DEF o
  <2>5. CASE n.side \notin Buys /\ n.live
    BY <2>1, <2>2, <2>3, <2>5 DEF o
  <2>6. CASE n.side \notin Buys /\ ~n.live
    BY <2>1, <2>2, <2>3, <2>6 DEF o
  <2> QED
    BY <2>4, <2>5, <2>6
<1> HIDE DEF W
<1>6. \A s : Total("down", s)' >= Total("down", s) /\ Total("down", s) \in Int /\ Total("down", s)' \in Int
  BY <1>0, <1>4, <1>5, TotalType DEF Kinds
<1>7. \A s \in Symbols : s \notin overlapped' => Total("down", s)' >= 0
  BY <1>2, <1>6 DEF ShortInv
<1>8. LiveSymbols' \subseteq LiveSymbols /\ n.sym \in LiveSymbols
  BY <1>1, <1>3 DEF LiveSymbols, LiveOrders
<1>9. \A s : s \notin LiveSymbols => Position(s)' = Position(s)
  BY <1>4, <1>8, PositionIsTotal, NextPositionIsTotal DEF Kinds
<1>10. Pending' = Pending
  BY <1>2 DEF Pending
<1> QED
  BY <1>2, <1>7, <1>8, <1>9, <1>10 DEF ShortInv

(* Every step keeps the account from being short without an overlap.        *)
LEMMA ShortStep ==
  ASSUME "SELL_SHORT" \notin Actions, TypeOK, Settling, ShortInv, [Next]_vars
  PROVE  ShortInv'
<1>0. orders \in Seq(OrderType)
  BY DEF TypeOK
<1>1. CASE BeginBar
  <2>1. orders' = orders /\ held' \in {Positions, Flat} /\ working' = LiveSymbols
        /\ overlapped' = overlapped /\ todo' = todo
    BY <1>1 DEF BeginBar, bookVars
  <2>2. Pending' \subseteq Symbols
    BY <1>1 DEF BeginBar, Pending
  <2>3. ASSUME NEW s \in Symbols, s \notin working'
        PROVE  s \notin LiveSymbols' /\ held'[s] \in {Position(s)', 0}
    BY <2>1, <2>3, OrdersStay DEF Positions, Flat
  <2> QED
    BY <2>1, <2>2, <2>3, OrdersStay DEF ShortInv
<1>2. CASE ReadPositions \/ Compare \/ ReconcileFails
  BY <1>2, ShortStays DEF ReadPositions, Compare, ReconcileFails, Pending, bookVars, history
<1>3. CASE Generate
  <2>1. PICK traded \in SUBSET Symbols : \E act \in [traded -> Actions] :
          todo' = {[sym |-> s, action |-> act[s]] : s \in traded}
    BY <1>3 DEF Generate
  <2>2. PICK act \in [traded -> Actions] : todo' = {[sym |-> s, action |-> act[s]] : s \in traded}
    BY <2>1
  <2>3. \A u, v \in todo' : u.sym = v.sym => u = v
    <3>1. \A u \in todo' : u = [sym |-> u.sym, action |-> act[u.sym]]
      BY <2>2
    <3> QED
      BY <3>1
  <2>4. Pending = Symbols /\ Pending' \subseteq Pending
    BY <1>3, <2>2 DEF Generate, Pending
  <2>5. UNCHANGED <<orders, held, working, overlapped>>
    BY <1>3 DEF Generate, bookVars, history
  <2> QED
    BY <2>3, <2>4, <2>5, OrdersStay DEF ShortInv
<1>4. ASSUME NEW sig \in todo, Dropped(sig) \/ Halts(sig)
      PROVE  ShortInv'
  <2>1. todo' \subseteq todo /\ pc' = pc /\ pc = "execute" /\ UNCHANGED <<orders, held, working, overlapped>>
    BY <1>4 DEF Dropped, Halts, Executes, bookVars, history
  <2>2. Pending' \subseteq Pending
    BY <2>1 DEF Pending
  <2> QED
    BY <2>1, <2>2, ShortStays
<1>5. ASSUME NEW sig \in todo, NEW qty \in Quantities(sig), NEW status \in {"SUBMITTED", "REJECTED"},
             Placed(sig, qty, status)
      PROVE  ShortInv'
  BY <1>5, ShortPlaced DEF Placed, Executes
<1>6. CASE Settle
  <2>0. last \in OrderType /\ Len(orders) \in DOMAIN orders
    BY <1>6, Settles
  <2>1. PICK n \in OrderType : /\ orders' = [orders EXCEPT ![Len(orders)] = n] /\ n.sym = last.sym
                               /\ n.side = last.side /\ n.qty = last.qty
                               /\ n.live = last.live /\ n.filled = last.filled
    BY <1>6, Settles DEF Same
  <2> DEFINE m == Len(orders)
             W(k) == Weight(k, n) - Weight(k, orders[m])
  <2>2. m \in DOMAIN orders /\ orders' = [orders EXCEPT ![m] = n] /\ n.sym = orders[m].sym
        /\ n.live = orders[m].live /\ orders[m] = last
    BY <2>0, <2>1 DEF last
  <2> HIDE DEF m
  <2>3. \A k \in Kinds : \A s : Total(k, s)' = IF s = n.sym THEN Total(k, s) + W(k) ELSE Total(k, s)
    BY <1>0, <2>2, OrderChanges
  <2>4. /\ DOMAIN orders' = DOMAIN orders /\ orders'[m] = n
        /\ \A j \in DOMAIN orders : j # m => orders'[j] = orders[j]
    BY <1>0, <2>2, OrderChanges
  <2>5. W("down") = 0 /\ W("filled") = 0
    <3>1. Weight("down", n) = Weight("down", last) /\ Weight("filled", n) = Weight("filled", last)
      BY <2>1 DEF Weight, Signed
    <3>2. Weight("down", last) \in Int /\ Weight("filled", last) \in Int
      BY <2>0, WeightType DEF Kinds
    <3> QED
      BY <2>2, <3>1, <3>2
  <2> HIDE DEF W
  <2>6. \A s : Total("down", s)' = Total("down", s) /\ Total("filled", s)' = Total("filled", s)
    BY <1>0, <2>3, <2>5, TotalType DEF Kinds
  <2>7. \A s : Position(s)' = Position(s)
    BY <2>6, PositionIsTotal, NextPositionIsTotal
  <2>8. LiveSymbols' = LiveSymbols
    BY <2>2, <2>4 DEF LiveSymbols, LiveOrders
  <2>9. pc = "settle" /\ pc' = "execute" /\ UNCHANGED <<held, todo, working, overlapped>>
    BY <1>6 DEF Settle, history
  <2>10. Pending' = Pending
    BY <2>9 DEF Pending
  <2> QED
    BY <2>6, <2>7, <2>8, <2>9, <2>10 DEF ShortInv
<1>7. CASE SettleFails
  BY <1>7, ShortStays DEF SettleFails, Pending, bookVars, history
<1>8. CASE EndBar
  <2>1. Pending' = {} /\ todo' = todo /\ UNCHANGED <<orders, overlapped>>
    BY <1>8 DEF EndBar, Pending, bookVars
  <2> QED
    BY <2>1, OrdersStay DEF ShortInv
<1>9. CASE EndLoop
  BY <1>9, ShortStays DEF EndLoop, Pending, bookVars, history
<1>10. CASE Broker
  BY <1>10, ShortBroker
<1>11. CASE Activate \/ Reset
  BY <1>11, ShortStays DEF Activate, Reset, Pending, loopVars, bookVars, history
<1>12. CASE Restart
  <2>1. Pending' = {} /\ todo' = todo /\ overlapped' = overlapped
    BY <1>12 DEF Restart, Pending, history
  <2>2. \A s : Total("down", s)' = Total("down", s)
    BY <1>12, OrdersForgotten DEF Restart
  <2> QED
    BY <2>1, <2>2 DEF ShortInv
<1>13. CASE UNCHANGED vars
  BY <1>13, ShortStays DEF vars, loopVars, bookVars, history, Pending
<1>14. CASE BarRaises
  <2>1. Pending' = {} /\ todo' = todo /\ UNCHANGED <<orders, overlapped>>
    BY <1>14 DEF BarRaises, Pending, bookVars
  <2> QED
    BY <2>1, OrdersStay DEF ShortInv
<1>15. CASE \E sig \in todo : Execute(sig)
  BY <1>4, <1>5, <1>15 DEF Execute
<1> QED
  BY <1>1, <1>2, <1>3, <1>6, <1>7, <1>8, <1>9, <1>10, <1>11, <1>12, <1>13, <1>14, <1>15 DEF Next, LoopStep

(* A strategy that does not sell short has no short position in a symbol    *)
(* that it never traded while an order of that symbol was working.          *)
THEOREM ShortsAreOverlaps ==
  ASSUME "SELL_SHORT" \notin Actions
  PROVE  Spec => []ShortsNeedOverlap
<1>1. TypeOK /\ Settling /\ ShortInv /\ [Next]_vars => ShortInv'
  BY ShortStep
<1>2. TypeOK /\ ShortInv => ShortsNeedOverlap
  <2> SUFFICES ASSUME TypeOK, ShortInv, NEW s \in Symbols, Position(s) < 0 PROVE s \in overlapped
    BY DEF ShortsNeedOverlap
  <2>1. Total("down", s) <= Position(s)
    BY DownIsBelow
  <2>2. Total("down", s) \in Int /\ Position(s) \in Int
    BY TotalType, PositionIsTotal DEF TypeOK, Kinds
  <2> QED
    BY <2>1, <2>2 DEF ShortInv
<1> QED
  BY ShortInit, Typing, <1>1, <1>2, PTL DEF Spec

=============================================================================
