--------------------------- MODULE TradingPipeline --------------------------
(***************************************************************************)
(* pyrobot/runtime/pipeline.py over a live broker account (build_alpaca_   *)
(* pipeline), inside TradingLoop.run, with the AccountReconciler of        *)
(* pyrobot/execution/reconciliation.py.  One thread takes the bars; the    *)
(* broker fills, ends and loses orders between any two of its calls, and   *)
(* an operator works the kill switch and starts a new pipeline when the    *)
(* loop is over.  ExecutionEngine has the inside of submit and poll_status *)
(* and RiskGate that of the risk decision: here they are their outcomes.   *)
(***************************************************************************)
EXTENDS OrderManager, Integers, Sequences, Functions

CONSTANTS
  Symbols,
  Actions,      \* signal actions the strategy uses
  Lot,          \* size the sizer gives an entry
  Interval,     \* reconciliation_interval
  MaxPlaced     \* bound of the model: orders at the broker

Buys == {"BUY", "BUY_TO_COVER"}
Exits == {"SELL", "BUY_TO_COVER"}

ASSUME PipelineConstants ==
  /\ Actions \subseteq Buys \cup {"SELL", "SELL_SHORT"}
  /\ Lot \in Nat \ {0} /\ Interval \in Nat \ {0} /\ MaxPlaced \in Nat

VARIABLES
  pc,           \* where process_bar is; "halted" when the loop is over
  bar,          \* _bars_processed modulo Interval
  held,         \* positions: what the bar read when it began
  todo,         \* the bar's signals that are still to be executed
  orders,       \* orders that reached the broker
  book,         \* the risk manager's _positions
  seen,         \* the positions the reconciler has read
  killActive,   \* KillSwitch._active
  triggered,    \* kill_switch_triggered
  alarm,        \* the reconciler's report, until signals are generated: not ok
  working,      \* history: symbols with a live order when the bar began
  overlapped    \* history: symbols traded while an order of theirs was live

loopVars == <<pc, bar, held, todo, seen, triggered, alarm>>
bookVars == <<book, orders>>
history == <<working, overlapped>>
vars == <<loopVars, bookVars, killActive, history>>

-----------------------------------------------------------------------------
AbsOf(n) == IF n < 0 THEN -n ELSE n
Signed(o, qty) == IF o.side \in Buys THEN qty ELSE -qty

\* "FORGOTTEN": the order of an earlier pipeline.
Statuses == {"SUBMITTED", "PARTIALLY_FILLED", "FILLED", "CANCELLED", "REJECTED", "FORGOTTEN"}

\* status: what the order manager says.  live, filled: what the broker knows.
\* recorded: the quantity record_fill was called with.
Order(sym, side, qty, status) ==
  [sym |-> sym, side |-> side, qty |-> qty, status |-> status, live |-> TRUE, filled |-> 0, recorded |-> 0]

OrderType ==
  [sym : Symbols, side : Actions \cup {"BUY"}, qty : Nat,
   status : Statuses, live : BOOLEAN, filled : Nat, recorded : Nat]

LiveOrders == {i \in DOMAIN orders : orders[i].live}
LiveSymbols == {orders[i].sym : i \in LiveOrders}

\* The account's positions: all that the broker has filled.
OrdersOf(s) == {i \in DOMAIN orders : orders[i].sym = s}
Position(s) == SumFunctionOnSet([i \in DOMAIN orders |-> Signed(orders[i], orders[i].filled)], OrdersOf(s))
Positions == [s \in Symbols |-> Position(s)]

Flat == [s \in Symbols |-> 0]

\* An account that an earlier pipeline left with a lot of s, or with nothing.
Before(s, filled) == <<[Order(s, "BUY", Lot, "FORGOTTEN") EXCEPT !.live = FALSE, !.filled = filled]>>

Init ==
  /\ pc = "idle" /\ bar = 0 /\ held = Flat /\ todo = {} /\ seen = Flat
  /\ \E s \in Symbols, filled \in {0, Lot} : orders = Before(s, filled)
  /\ book = Flat
  /\ killActive = FALSE /\ triggered = FALSE /\ alarm = FALSE
  /\ working = {} /\ overlapped = {}

-----------------------------------------------------------------------------
(* process_bar *)

\* _broker_positions is {} when the request fails.
BeginBar ==
  /\ pc = "idle"
  /\ bar' = (bar + 1) % Interval
  /\ held' \in {Positions, Flat}
  /\ working' = LiveSymbols
  /\ pc' = IF bar' = 0 THEN "reconcile" ELSE "signals"
  /\ UNCHANGED <<todo, seen, triggered, alarm, bookVars, killActive, overlapped>>

\* The answer of the account that does not parse, or a record of the audit ledger,
\* raises out of process_bar: the loop logs it and goes on with the next bar.
BarRaises ==
  /\ pc \in {"idle", "signals"}
  /\ bar' = IF pc = "idle" THEN (bar + 1) % Interval ELSE bar
  /\ pc' = "idle" /\ held' = Flat /\ alarm' = FALSE /\ working' = {}
  /\ UNCHANGED <<todo, seen, triggered, bookVars, killActive, overlapped>>

\* Mutant of BrokerPositions: the reconciler takes what the bar has read.
BrokerPositions_OfBar == held
BrokerPositions == Positions

\* AccountReconciler.reconcile reads the positions and then the open orders.
ReadPositions ==
  /\ pc = "reconcile"
  /\ seen' = BrokerPositions
  /\ pc' = "compare"
  /\ UNCHANGED <<bar, held, todo, triggered, alarm, bookVars, killActive, history>>

\* Mutant of Mismatched: only symbols of the risk book are compared.
Mismatched_OfBook == {s \in Symbols : book[s] # 0 /\ seen[s] # book[s]}

\* Symbols of either side whose quantities differ.
Mismatched == {s \in Symbols : seen[s] # book[s]}

\* Open orders whose id is not that of an active order of the manager.
Stray == {i \in LiveOrders : orders[i].status \notin ActiveStates}

Compare ==
  /\ pc = "compare"
  /\ alarm' = (Mismatched # {} \/ Stray # {})
  /\ killActive' = (killActive \/ alarm')
  /\ pc' = "signals" /\ seen' = Flat
  /\ UNCHANGED <<bar, held, todo, triggered, bookVars, history>>

\* One of its requests raises: SYSTEM_HEALTH_FAILURE.
ReconcileFails ==
  /\ pc \in {"reconcile", "compare"}
  /\ killActive' = TRUE
  /\ pc' = "signals" /\ seen' = Flat
  /\ UNCHANGED <<bar, held, todo, triggered, alarm, bookVars, history>>

\* _generate_signals: at most one signal for each symbol, before any of them is
\* executed.
Generate ==
  /\ pc = "signals"
  /\ \E traded \in SUBSET Symbols : \E act \in [traded -> Actions] :
       todo' = {[sym |-> s, action |-> act[s]] : s \in traded}
  /\ pc' = "execute" /\ alarm' = FALSE
  /\ UNCHANGED <<bar, held, seen, triggered, bookVars, killActive, history>>

-----------------------------------------------------------------------------
(* _execute_signal *)

\* Mutant of Quantities: an exit sells a fixed lot.
Quantities_Lot(sig) == {Lot}

\* An exit is for what the bar read as held, an entry for what the sizer says.
Quantities(sig) ==
  IF sig.action \in Exits THEN {AbsOf(held[sig.sym])} \ {0} ELSE {Lot}

Executes(sig) == pc = "execute" /\ sig \in todo /\ todo' = todo \ {sig}

\* Nothing held, size zero, a risk refusal, a rejection: no order at the broker.
Dropped(sig) ==
  /\ Executes(sig)
  /\ UNCHANGED <<pc, bar, held, seen, triggered, alarm, bookVars, killActive, history>>

\* KillSwitchError, of the guard or of a limit the risk manager finds breached.
Halts(sig) ==
  /\ Executes(sig)
  /\ Quantities(sig) # {}
  /\ killActive' = TRUE
  /\ triggered' = TRUE
  /\ UNCHANGED <<pc, bar, held, seen, alarm, bookVars, history>>

\* The order reaches the broker.  A rejection that the adapter made of a lost
\* answer leaves it live there, and is not polled.
Placed(sig, qty, status) ==
  /\ Executes(sig)
  /\ ~killActive
  /\ Len(orders) < MaxPlaced
  /\ orders' = Append(orders, Order(sig.sym, sig.action, qty, status))
  /\ overlapped' = IF sig.sym \in working \cup LiveSymbols THEN overlapped \cup {sig.sym} ELSE overlapped
  /\ pc' = IF status = "SUBMITTED" THEN "settle" ELSE "execute"
  /\ UNCHANGED <<bar, held, seen, triggered, alarm, book, killActive, working>>

last == orders[Len(orders)]

\* What poll_status makes of the state of a SUBMITTED order at the broker.
Polled(o) ==
  CASE o.filled = o.qty -> "FILLED"
    [] o.filled < o.qty /\ ~o.live -> "CANCELLED"
    [] o.filled = 0 /\ o.live -> "SUBMITTED"
    [] OTHER -> "PARTIALLY_FILLED"

\* _settle_order: the only poll of the order, and record_fill of what it saw.
Settle ==
  /\ pc = "settle"
  /\ orders' = [orders EXCEPT ![Len(orders)] = [last EXCEPT !.status = Polled(last), !.recorded = last.filled]]
  /\ book' = [book EXCEPT ![last.sym] = @ + Signed(last, last.filled)]
  /\ pc' = "execute"
  /\ UNCHANGED <<bar, held, todo, seen, triggered, alarm, killActive, history>>

\* The audit record after submit, or the poll, raises.
SettleFails ==
  /\ pc = "settle"
  /\ pc' = "execute"
  /\ UNCHANGED <<bar, held, todo, seen, triggered, alarm, bookVars, killActive, history>>

\* TradingLoop.run with exit_on_kill_switch.  What the bar has read is dropped.
EndBar ==
  /\ pc = "execute" /\ todo = {}
  /\ pc' = IF triggered THEN "halted" ELSE "idle"
  /\ held' = Flat /\ working' = {}
  /\ UNCHANGED <<bar, todo, seen, triggered, alarm, bookVars, killActive, overlapped>>

\* No more bars or a stop request; stale data also activates the switch.
EndLoop ==
  /\ pc = "idle"
  /\ pc' = "halted"
  /\ killActive' \in {killActive, TRUE}
  /\ UNCHANGED <<bar, held, todo, seen, triggered, alarm, bookVars, history>>

-----------------------------------------------------------------------------
(* The broker, the operator, and a new pipeline on the same account. *)

BrokerFills(i, qty) ==
  /\ orders[i].live
  /\ orders[i].filled < qty /\ qty <= orders[i].qty
  /\ orders' = [orders EXCEPT ![i] = [orders[i] EXCEPT !.filled = qty, !.live = qty < orders[i].qty]]
  /\ UNCHANGED <<loopVars, book, killActive, history>>

BrokerEnds(i) ==
  /\ orders[i].live
  /\ orders' = [orders EXCEPT ![i] = [orders[i] EXCEPT !.live = FALSE]]
  /\ UNCHANGED <<loopVars, book, killActive, history>>

Activate ==
  /\ ~killActive
  /\ killActive' = TRUE
  /\ UNCHANGED <<loopVars, bookVars, history>>

Reset ==
  /\ killActive
  /\ killActive' = FALSE
  /\ UNCHANGED <<loopVars, bookVars, history>>

\* RuntimeSupervisor.start: a new kill switch, order manager and risk book; the
\* positions of the account are not read into the book.
Restart ==
  /\ pc = "halted"
  /\ pc' = "idle" /\ bar' = 0
  /\ orders' = [i \in DOMAIN orders |-> [orders[i] EXCEPT !.status = "FORGOTTEN", !.recorded = 0]]
  /\ book' = Flat
  /\ killActive' = FALSE /\ triggered' = FALSE
  /\ UNCHANGED <<held, todo, seen, alarm, history>>

-----------------------------------------------------------------------------
Execute(sig) ==
  \/ Dropped(sig)
  \/ Halts(sig)
  \/ \E qty \in Quantities(sig), status \in {"SUBMITTED", "REJECTED"} : Placed(sig, qty, status)

LoopStep ==
  \/ BeginBar \/ BarRaises \/ ReadPositions \/ Compare \/ ReconcileFails \/ Generate
  \/ \E sig \in todo : Execute(sig)
  \/ Settle \/ SettleFails \/ EndBar

Broker == \E i \in DOMAIN orders : BrokerEnds(i) \/ \E qty \in 1..orders[i].qty : BrokerFills(i, qty)

Next == LoopStep \/ EndLoop \/ Broker \/ Activate \/ Reset \/ Restart

Spec == Init /\ [][Next]_vars

\* The loop thread goes on, and not every bar that would reconcile raises before it
\* does; nothing is assumed of the broker or the operator.
Reconciles == BeginBar /\ bar' = 0
FairSpec == Spec /\ WF_vars(LoopStep) /\ SF_vars(Reconciles)

-----------------------------------------------------------------------------
(* Properties *)

\* Types; what is recorded of an order never exceeds what the broker filled of
\* it, and an order the manager believes filled was recorded in full.
OrderOK(o) ==
  /\ o.recorded <= o.filled /\ o.filled <= o.qty
  /\ o.live => o.filled < o.qty
  /\ o.status = "FILLED" => o.recorded = o.qty

TypeOK ==
  /\ pc \in {"idle", "reconcile", "compare", "signals", "execute", "settle", "halted"}
  /\ bar \in 0..(Interval - 1)
  /\ held \in [Symbols -> Int] /\ seen \in [Symbols -> Int] /\ book \in [Symbols -> Int]
  /\ todo \subseteq [sym : Symbols, action : Actions]
  /\ killActive \in BOOLEAN /\ triggered \in BOOLEAN /\ alarm \in BOOLEAN
  /\ working \subseteq Symbols /\ overlapped \subseteq Symbols
  /\ orders \in Seq(OrderType)
  /\ \A i \in DOMAIN orders : OrderOK(orders[i])

Missed == {i \in DOMAIN orders : orders[i].filled # orders[i].recorded}

\* The reconciler raises no false alarm: when it finds a mismatch, a fill has
\* really not reached the risk book, or an order works that the manager gave up,
\* whatever the broker does between its two requests and the bar's own reads.
AlarmHasCause == [][~alarm /\ alarm' => Missed # {} \/ Stray # {}]_vars

Diverged == Positions # book \/ Stray # {}

\* It misses nothing for long: an account that has left the platform's books (a
\* late fill, a lost answer, positions from before a restart) stops trading by
\* the kill switch, unless the loop ends or the books agree again.
DivergenceIsCaught == Diverged ~> ~Diverged \/ killActive \/ pc = "halted"

\* An exit is sized by a position read at the start of the bar.  A strategy that
\* only buys and sells goes short through it only in a symbol that it traded
\* while an order of that symbol was working.
ShortsNeedOverlap == \A s \in Symbols : Position(s) < 0 => s \in overlapped

=============================================================================
