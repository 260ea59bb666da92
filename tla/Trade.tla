-------------------------------- MODULE Trade --------------------------------
(***************************************************************************)
(* pyrobot/trades.py and order_status.py: a Trade is an order template     *)
(* that is built call by call: an instrument, child orders that protect    *)
(* it, one-cancels-other groups around them, changes of price and side.    *)
(* Then a broker has it and its status is asked for.  Prices are integers  *)
(* and percentages whole; rounding to cents is left out.                   *)
(***************************************************************************)
EXTENDS Integers, Sequences

CONSTANTS
  Prices,      \* prices of orders and quotes
  Sizes,       \* sizes of stops and targets, in money or percent
  Quantities,
  Venue,       \* statuses an order can have at the broker
  Final,       \* those that never change again
  MaxChildren, MaxCalls   \* bounds of the model

VARIABLES
  trade,       \* what new_trade notes: [type, side, way, price]
  order,       \* [instruction, quantity, price, stopPrice]
  size,        \* order_size, 0 before instrument
  triggered,   \* _triggered_added
  children,    \* child orders: [kind, price, limit, instruction, quantity, group, basis]
  quote,       \* the broker's last price
  calls,       \* calls so far
  status,      \* order_status
  venue,       \* the order's status at the broker
  view,        \* order_status of the last OrderStatus object
  answer,      \* history: the status a view last answered TRUE for
  altered      \* history: what changed after children were added: "side", "size", "price"

vars == <<trade, order, size, triggered, children, quote, calls, status, venue, view, answer, altered>>
asking == <<status, venue, view, answer>>

-----------------------------------------------------------------------------
(* new_trade *)

Instruction(way, side) ==
  CASE way = "enter" /\ side = "long"  -> "BUY"
    [] way = "enter" /\ side = "short" -> "SELL_SHORT"
    [] way = "exit"  /\ side = "long"  -> "SELL"
    [] way = "exit"  /\ side = "short" -> "BUY_TO_COVER"

Opposite(way) == IF way = "enter" THEN "exit" ELSE "enter"
OtherSide(side) == IF side = "long" THEN "short" ELSE "long"

\* Which prices of the order new_trade fills in.
Priced(type, price, limit) ==
  [price     |-> CASE type = "lmt" -> price [] type = "stop_lmt" -> limit [] OTHER -> 0,
   stopPrice |-> IF type \in {"stop", "stop_lmt"} THEN price ELSE 0]

Init ==
  /\ trade \in [type : {"mkt", "lmt", "stop", "stop_lmt"}, side : {"long", "short"},
                way : {"enter", "exit"}, price : Prices]
  /\ \E limit \in Prices :
       LET p == Priced(trade.type, trade.price, limit)
       IN order = [instruction |-> Instruction(trade.way, trade.side), quantity |-> 0,
                   price |-> p.price, stopPrice |-> p.stopPrice]
  /\ size = 0 /\ triggered = FALSE /\ children = <<>>
  /\ quote \in Prices /\ calls = 0
  /\ status = "NOT_PLACED" /\ venue = "none" /\ view = "none" /\ answer = "none"
  /\ altered = {}

Calls == calls < MaxCalls /\ calls' = calls + 1
Alters(what) == altered' = IF children = <<>> THEN altered ELSE altered \cup {what}

-----------------------------------------------------------------------------
(* Building the order. *)

\* The children keep the quantity they were given.
Instrument(q) ==
  /\ Calls
  /\ order' = [order EXCEPT !.quantity = q]
  /\ size' = q
  /\ Alters("size")
  /\ UNCHANGED <<trade, triggered, children, quote, asking>>

\* Without an argument the instruction is that of the other side; the trade's
\* side, which the children follow, stays.
ModifySide(given) ==
  /\ Calls
  /\ order' = [order EXCEPT !.instruction =
                 IF given = "none" THEN Instruction(trade.way, OtherSide(trade.side)) ELSE given]
  /\ altered' = altered \cup {"side"}
  /\ UNCHANGED <<trade, size, triggered, children, quote, asking>>

\* modify_price: a stop-limit order is "stop_lmt" and is looked for as "stop-lmt".
ModifyPrice(which, p) ==
  /\ Calls
  /\ CASE which = "price" -> order' = [order EXCEPT !.price = p] /\ UNCHANGED trade
       [] which = "stop-price" /\ trade.type = "stop" -> order' = [order EXCEPT !.stopPrice = p] /\ UNCHANGED trade
       [] which = "limit-price" /\ trade.type = "lmt" ->
            order' = [order EXCEPT !.price = p] /\ trade' = [trade EXCEPT !.price = p]
       [] OTHER -> UNCHANGED <<order, trade>>
  /\ UNCHANGED <<size, triggered, children, quote, asking, altered>>

\* grab_price: what children are measured from.
Basis == IF trade.type = "lmt" THEN trade.price ELSE quote

\* _calculate_new_price, sign -1 for a stop and 1 for a target.
NewPrice(from, sign, amount, percent) ==
  IF percent THEN (from * (100 + sign * amount)) \div 100 ELSE from + sign * amount

\* The instruction of a child.  Mutant: the parent's own.
ChildInstruction_Parent == Instruction(trade.way, trade.side)
ChildInstruction == Instruction(Opposite(trade.way), trade.side)

Child(kind, price, limit) ==
  [kind |-> kind, price |-> price, limit |-> limit, instruction |-> ChildInstruction,
   quantity |-> size, group |-> 0, basis |-> Basis]

StopLoss(amount, percent) == Child("STOP", NewPrice(Basis, -1, amount, percent), 0)

\* The limit is measured from the same price as the stop.
StopLimit(amount, limit, percent) ==
  Child("STOP_LIMIT", NewPrice(Basis, -1, amount, percent), NewPrice(Basis, -1, limit, percent))

TakeProfit(amount, percent) == Child("LIMIT", NewPrice(Basis, 1, amount, percent), 0)

\* Each of these makes the order a trigger first; they need the instrument.
Adds(new) ==
  /\ Calls
  /\ size > 0 /\ Len(children) + Len(new) <= MaxChildren
  /\ triggered' = TRUE
  /\ UNCHANGED <<trade, order, size, quote, asking, altered>>

AddStopLoss(amount, percent) ==
  LET new == <<StopLoss(amount, percent)>> IN Adds(new) /\ children' = children \o new

AddStopLimit(amount, limit, percent) ==
  LET new == <<StopLimit(amount, limit, percent)>> IN Adds(new) /\ children' = children \o new

AddTakeProfit(amount, percent) ==
  LET new == <<TakeProfit(amount, percent)>> IN Adds(new) /\ children' = children \o new

\* add_one_cancels_other puts one more group around all children.
Grouped(kids) == [i \in DOMAIN kids |-> [kids[i] EXCEPT !.group = @ + 1]]

\* add_box_range: the stop takes the size of the profit; stop_size is not used.
AddBoxRange(profit, stop, limit, stopLimit, oneCancels) ==
  LET new == <<TakeProfit(profit, FALSE),
               IF stopLimit THEN StopLimit(profit, limit, FALSE) ELSE StopLoss(profit, FALSE)>>
  IN /\ Adds(new)
     /\ children' = IF oneCancels THEN Grouped(children \o new) ELSE children \o new

AddOneCancelsOther ==
  /\ Calls /\ triggered
  /\ children' = Grouped(children)
  /\ UNCHANGED <<trade, order, size, triggered, quote, asking, altered>>

\* update_children: only the children of a single group can be read, and the last
\* price is added to their own.
UpdateChildren ==
  /\ Calls
  /\ children # <<>> /\ children[1].group = 1
  /\ children' = [i \in DOMAIN children |->
                    IF children[i].group = 1 /\ children[i].kind \in {"STOP", "LIMIT"}
                    THEN [children[i] EXCEPT !.price = @ + quote] ELSE children[i]]
  /\ Alters("price")
  /\ UNCHANGED <<trade, order, size, triggered, quote, asking>>

QuoteMoves(p) ==
  /\ quote' = p
  /\ UNCHANGED <<trade, order, size, triggered, children, calls, asking, altered>>

-----------------------------------------------------------------------------
(* Placed, the order has a status at the broker. *)

\* _process_order_response.
Queued == "QUEUED"

Place(s) ==
  /\ venue = "none" /\ size > 0
  /\ venue' = s /\ status' = Queued
  /\ UNCHANGED <<trade, order, size, triggered, children, quote, calls, view, answer, altered>>

VenueMoves(s) ==
  /\ venue \notin Final \cup {"none"}
  /\ venue' = s
  /\ UNCHANGED <<trade, order, size, triggered, children, quote, calls, status, view, answer, altered>>

\* check_status: an OrderStatus copies the status.
CheckStatus ==
  /\ view' = status
  /\ UNCHANGED <<trade, order, size, triggered, children, quote, calls, status, venue, answer, altered>>

\* The statuses OrderStatus has a question for; FILLED has none.
Ended == {"CANCELLED", "REJECTED", "EXPIRED", "REPLACED"}
Working == {"WORKING", "PENDING_ACTIVATION", "PENDING_CANCEL", "PENDING_REPLACE", "QUEUED"}
Waiting == {"ACCEPTED", "AWAITING_PARENT_ORDER", "AWAITING_CONDITION"}

\* Every question refreshes the trade and answers from the copy.
Ask ==
  /\ view # "none"
  /\ status' = IF venue = "none" THEN status ELSE venue
  /\ answer' = IF view \in Ended \cup Working \cup Waiting THEN view ELSE "none"
  /\ UNCHANGED <<trade, order, size, triggered, children, quote, calls, venue, view, altered>>

Next ==
  \/ \E q \in Quantities : Instrument(q)
  \/ \E side \in {"none", "BUY", "SELL"} : ModifySide(side)
  \/ \E which \in {"price", "stop-price", "limit-price", "stop-limit-limit-price"}, p \in Prices : ModifyPrice(which, p)
  \/ \E a \in Sizes, percent \in BOOLEAN :
       AddStopLoss(a, percent) \/ AddTakeProfit(a, percent) \/ \E l \in Sizes : AddStopLimit(a, l, percent)
  \/ \E profit, stop, limit \in Sizes, sl, oco \in BOOLEAN : AddBoxRange(profit, stop, limit, sl, oco)
  \/ AddOneCancelsOther \/ UpdateChildren
  \/ \E p \in Prices : QuoteMoves(p)
  \/ \E s \in Venue : Place(s) \/ VenueMoves(s)
  \/ CheckStatus \/ Ask

Spec == Init /\ [][Next]_vars

-----------------------------------------------------------------------------
(* Properties *)

\* "exit the position when a certain loss is reached": every child of an entry
\* closes what the entry opens, all of it, as long as neither side nor size is
\* changed after; a long's stop lies below the price it was measured from and
\* its target above, until update_children is called.
ChildrenExit ==
  trade.way = "enter" => \A i \in DOMAIN children :
    LET c == children[i]
    IN /\ "side" \notin altered => <<order.instruction, c.instruction>> \in {<<"BUY", "SELL">>, <<"SELL_SHORT", "BUY_TO_COVER">>}
       /\ "size" \notin altered => c.quantity = order.quantity
       /\ trade.side = "long" /\ "price" \notin altered =>
            IF c.kind = "LIMIT" THEN c.price >= c.basis ELSE c.price <= c.basis

\* Answers are a refresh behind, but one about a final status is right.
FinalAnswersHold == answer \in Final => venue = answer

TradeSound == ChildrenExit /\ FinalAnswersHold

=============================================================================
