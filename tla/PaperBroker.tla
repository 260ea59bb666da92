----------------------------- MODULE PaperBroker ----------------------------
(***************************************************************************)
(* pyrobot/brokers/paper_broker.py: the simulated broker behind the replay *)
(* and paper sessions.  One thread calls it; every call is one step, with  *)
(* all the resting orders a price update fills.  A session saves the state *)
(* when it ends, and a new session restores the last saved state.          *)
(* Average prices and realised profit, which no decision reads, are left   *)
(* out.                                                                    *)
(***************************************************************************)
EXTENDS Integers, Sequences, SequencesExt

CONSTANTS
  Symbols,
  Prices,       \* prices a bar may close at
  Requests,     \* orders the platform may place
  InitialCash,  \* initial_balance
  Commission,   \* commission_per_trade, not above a price
  MaxPlaced     \* bound of the model: orders recorded

Sides == {"BUY", "SELL", "SELL_SHORT", "BUY_TO_COVER"}

\* "MARKET" stands for every type without a trigger.  A trigger 0 is not given.
Types == {"MARKET", "LIMIT", "STOP", "STOP_LIMIT"}

Request == [sym : Symbols, side : Sides, type : Types, qty : Nat \ {0},
            limit : Nat, stop : Nat]

VARIABLES
  cash,         \* _cash_balance
  long,         \* quantities of _positions
  short,        \* quantities of _short_positions
  price,        \* _current_prices, 0 for a symbol without one
  placed,       \* the orders recorded, with their status
  known,        \* indices of placed that are in _order_history
  saved         \* the state file

account == <<cash, long, short>>
vars == <<account, price, placed, known, saved>>

Account == [cash |-> cash, long |-> long, short |-> short]

-----------------------------------------------------------------------------
(* _try_execute *)

Buys(r) == r.side \in {"BUY", "BUY_TO_COVER"}

\* A missing trigger is the last price.
Given(trigger, last) == IF trigger = 0 THEN last ELSE trigger

\* The condition of the order is met at the last price.
Triggered(r, last) ==
  CASE r.type = "LIMIT" -> IF Buys(r) THEN last <= Given(r.limit, last) ELSE last >= Given(r.limit, last)
    [] r.type \in {"STOP", "STOP_LIMIT"} -> IF Buys(r) THEN last >= Given(r.stop, last) ELSE last <= Given(r.stop, last)
    [] OTHER -> TRUE

\* Mutant of FillPrice: a stop fills at its own price through a gap.
FillPrice_NoGap(r, last) ==
  IF r.type = "STOP_LIMIT" /\ r.limit # 0 THEN r.limit
  ELSE IF r.type = "STOP" THEN Given(r.stop, last) ELSE last

\* The better of limit and last, or the worse of stop and last: for a triggered
\* order both are the last price.  A stop-limit fills at its limit.
FillPrice(r, last) == IF r.type = "STOP_LIMIT" /\ r.limit # 0 THEN r.limit ELSE last

-----------------------------------------------------------------------------
(* _apply_fill *)

\* Funds are checked for buys and covers, the short position for covers.
Refused(a, r, p) ==
  CASE r.side = "BUY" -> p * r.qty + Commission > a.cash
    [] r.side = "BUY_TO_COVER" -> r.qty > a.short[r.sym] \/ p * r.qty + Commission > a.cash
    [] OTHER -> FALSE

\* How much of a sale closes the long position; the rest opens a short one.
Closed(a, r) ==
  IF r.side # "SELL" THEN 0 ELSE IF r.qty < a.long[r.sym] THEN r.qty ELSE a.long[r.sym]

ApplyFill(a, r, p) ==
  CASE r.side = "BUY" ->
         [cash |-> a.cash - (p * r.qty + Commission),
          long |-> [a.long EXCEPT ![r.sym] = @ + r.qty],
          short |-> a.short]
    [] r.side = "BUY_TO_COVER" ->
         [cash |-> a.cash - (p * r.qty + Commission),
          long |-> a.long,
          short |-> [a.short EXCEPT ![r.sym] = @ - r.qty]]
    [] OTHER ->
         [cash |-> a.cash + p * r.qty - Commission,
          long |-> [a.long EXCEPT ![r.sym] = @ - Closed(a, r)],
          short |-> [a.short EXCEPT ![r.sym] = @ + (r.qty - Closed(a, r))]]

\* The outcome of one order against the last price.
Outcome(a, r, last) ==
  IF ~Triggered(r, last) THEN "OPEN"
  ELSE IF Refused(a, r, FillPrice(r, last)) THEN "REJECTED" ELSE "FILLED"

After(a, r, last) ==
  IF Outcome(a, r, last) = "FILLED" THEN ApplyFill(a, r, FillPrice(r, last)) ELSE a

-----------------------------------------------------------------------------
NoPositions == [s \in Symbols |-> 0]

Init ==
  /\ cash = InitialCash
  /\ long = NoPositions /\ short = NoPositions
  /\ price = NoPositions
  /\ placed = <<>>
  /\ known = {}
  /\ saved = [cash |-> InitialCash, long |-> NoPositions, short |-> NoPositions, placed |-> <<>>]

Becomes(a) == cash' = a.cash /\ long' = a.long /\ short' = a.short

Order(r, status) == [req |-> r, status |-> status]

\* place_order.  Without a price it answers REJECTED and records nothing.
PlaceOrder(r) ==
  /\ price[r.sym] # 0
  /\ Len(placed) < MaxPlaced
  /\ placed' = Append(placed, Order(r, Outcome(Account, r, price[r.sym])))
  /\ known' = known \cup {Len(placed) + 1}
  /\ Becomes(After(Account, r, price[r.sym]))
  /\ UNCHANGED <<price, saved>>

\* One resting order against the new prices; b is the broker so far.
Evaluate(b, i, prices) ==
  LET r == b.placed[i].req
  IN IF b.placed[i].status # "OPEN" \/ prices[r.sym] = 0 THEN b
     ELSE [acc |-> After(b.acc, r, prices[r.sym]),
           placed |-> [b.placed EXCEPT ![i] = Order(r, Outcome(b.acc, r, prices[r.sym]))]]

\* _current_prices with the new quotes: what _process_open_orders works with.
EvaluatedAt(quotes) == [s \in Symbols |-> IF s \in DOMAIN quotes THEN quotes[s] ELSE price[s]]

\* _process_open_orders: the broker once the first n orders have been looked at,
\* in the order of placement.
Processed(prices) ==
  LET b[n \in 0..Len(placed)] ==
        IF n = 0 THEN [acc |-> Account, placed |-> placed] ELSE Evaluate(b[n - 1], n, prices)
  IN b

\* update_prices with the bars of some symbols, and all the resting orders it fills.
UpdatePrices(quotes) ==
  LET b == Processed(EvaluatedAt(quotes))[Len(placed)]
  IN /\ price' = EvaluatedAt(quotes)
     /\ Becomes(b.acc)
     /\ placed' = b.placed
     /\ UNCHANGED <<known, saved>>

\* cancel_order of a resting order.
CancelOrder(i) ==
  /\ placed[i].status = "OPEN"
  /\ placed' = [placed EXCEPT ![i] = Order(@.req, "CANCELLED")]
  /\ UNCHANGED <<account, price, known, saved>>

\* save_state at the end of a session.
SaveState ==
  /\ saved' = [cash |-> cash, long |-> long, short |-> short, placed |-> placed]
  /\ UNCHANGED <<account, price, placed, known>>

\* Mutant of Restored: the cash is restored and the books are not.
Restored_CashOnly == [cash |-> saved.cash, long |-> NoPositions, short |-> NoPositions]
Restored == [cash |-> saved.cash, long |-> saved.long, short |-> saved.short]

\* A new session, after a crash as well: a fresh broker and load_state.  Prices
\* and _order_history are not in the file.
LoadState ==
  /\ Becomes(Restored)
  /\ placed' = saved.placed
  /\ price' = NoPositions
  /\ known' = {}
  /\ UNCHANGED saved

Next ==
  \/ \E r \in Requests : PlaceOrder(r)
  \/ \E quoted \in SUBSET Symbols : \E quotes \in [quoted -> Prices] : UpdatePrices(quotes)
  \/ \E i \in 1..Len(placed) : CancelOrder(i)
  \/ SaveState
  \/ LoadState

Spec == Init /\ [][Next]_vars

-----------------------------------------------------------------------------
(* Properties *)

\* Short sales bring in cash and their commission is covered by it; buys and
\* covers are checked: whatever orders one price update fills, one after the
\* other from the same cash, the account is never overdrawn and no book negative.
NeverOverdrawn == cash >= 0 /\ \A s \in Symbols : long[s] >= 0 /\ short[s] >= 0

FilledOf(s, sides) == {i \in DOMAIN placed : placed[i].req.sym = s /\ placed[i].status = "FILLED"
                                               /\ placed[i].req.side \in sides}
Quantity(ids) == SumFunction([i \in ids |-> placed[i].req.qty])

\* The two books together are what the filled orders bought and sold, through
\* sales that close and reopen and through save, crash and restore.
PositionsAreFills ==
  \A s \in Symbols : long[s] - short[s] =
    Quantity(FilledOf(s, {"BUY", "BUY_TO_COVER"})) - Quantity(FilledOf(s, {"SELL", "SELL_SHORT"}))

\* "otherwise they rest as open orders ... re-evaluated every time update_prices is
\* called" (PaperBroker): no order rests whose condition the last price meets.
RestsUntriggered ==
  \A i \in DOMAIN placed : placed[i].status = "OPEN" /\ price[placed[i].req.sym] # 0
    => ~Triggered(placed[i].req, price[placed[i].req.sym])

\* The account is that of its orders.
AccountSound == NeverOverdrawn /\ PositionsAreFills /\ RestsUntriggered

Worth(c, l, sh, prices) ==
  c + SumFunction([s \in Symbols |-> (l[s] - sh[s]) * prices[s]])

\* A fill moves value between cash and the two books and costs the commission;
\* it creates none: the equity get_account_info reports changes by prices and
\* commissions alone.  (A stop-limit fills at its limit, whatever the market.)
Neutral ==
  LET new == {i \in DOMAIN placed' : placed'[i].status = "FILLED"
                /\ (i \in DOMAIN placed => placed[i].status # "FILLED")}
  IN (known' # {} /\ known \subseteq known' /\ \A i \in new : placed'[i].req.type # "STOP_LIMIT")
       => Worth(cash', long', short', price')
            = Worth(cash, long, short, price') - Commission * Cardinality(new)

FillsAreNeutral == [][Neutral]_vars

=============================================================================
