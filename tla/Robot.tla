-------------------------------- MODULE Robot --------------------------------
(***************************************************************************)
(* pyrobot/robot.py with pyrobot/portfolio.py: execute_signals places one  *)
(* order per signal with the broker, marks who owns what, and appends what *)
(* was placed to data/orders.json, which is read and written whole.        *)
(***************************************************************************)
EXTENDS Naturals, Sequences, SequencesExt, FiniteSets

CONSTANTS
  Symbols,
  MaxCalls, MaxEdits  \* bounds of the model

VARIABLES
  positions,   \* Portfolio.positions: symbol to "absent", "owned" or "listed"
  file,        \* orders.json: [state : "none", "torn" or "whole", orders]
  todo,        \* signals of the current call still to come, <<symbol, side>>
  responses,   \* its order_responses
  saving,      \* save_orders has truncated the file
  broker,      \* history: orders the broker took, <<symbol, side, number>>
  reported,    \* history: orders of the calls that returned
  trouble,     \* history: a call raised or the process ended
  touched,     \* history: symbols with an order since they were added
  calls, edits

vars == <<positions, file, todo, responses, saving, broker, reported, trouble, touched, calls, edits>>
portfolio == <<positions, edits, touched>>
orders == <<file, todo, responses, saving, broker, reported, trouble, calls>>

-----------------------------------------------------------------------------
InPortfolio(s) == positions[s] # "absent"

Init ==
  /\ positions = [s \in Symbols |-> "absent"]
  /\ file = [state |-> "none", orders |-> <<>>]
  /\ todo = <<>> /\ responses = <<>> /\ saving = FALSE
  /\ broker = <<>> /\ reported = <<>> /\ trouble = FALSE
  /\ calls = 0 /\ edits = 0 /\ touched = {}

-----------------------------------------------------------------------------
(* Portfolio *)

\* A position is replaced; one with a purchase date is owned.
AddPosition(dated) == IF dated THEN "owned" ELSE "listed"

\* One position or a list of them, one after the other; an entry without its keys
\* ends the list.
AddPositions(dates) ==
  /\ edits < MaxEdits /\ edits' = edits + 1
  /\ positions' = [s \in Symbols |-> IF s \in DOMAIN dates THEN AddPosition(dates[s]) ELSE positions[s]]
  /\ touched' = touched \ DOMAIN dates
  /\ UNCHANGED orders

RemovePosition(s) ==
  /\ edits < MaxEdits /\ edits' = edits + 1
  /\ InPortfolio(s)
  /\ positions' = [positions EXCEPT ![s] = "absent"]
  /\ touched' = touched \ {s}
  /\ UNCHANGED orders

\* The ownership of a symbol that is not in the portfolio is left alone; the
\* quantity of a position is never changed by an order.
Marks(s, side) ==
  /\ positions' = IF InPortfolio(s) THEN [positions EXCEPT ![s] = IF side = "BUY" THEN "owned" ELSE "listed"]
                  ELSE positions
  /\ touched' = IF InPortfolio(s) THEN touched \cup {s} ELSE touched

-----------------------------------------------------------------------------
(* execute_signals *)

Idle == todo = <<>> /\ responses = <<>> /\ ~saving

\* The buys, then the sells; nothing looks at has_executed, so a signal that comes
\* again is executed again.
ExecuteSignals(buys, sells) ==
  /\ Idle /\ calls < MaxCalls /\ buys \cup sells # {}
  /\ calls' = calls + 1
  /\ todo' = [i \in 1..Cardinality(buys) |-> <<SetToSeq(buys)[i], "BUY">>]
               \o [i \in 1..Cardinality(sells) |-> <<SetToSeq(sells)[i], "SELL">>]
  /\ UNCHANGED <<portfolio, file, responses, saving, broker, reported, trouble>>

\* The owner is set first, then the order is placed.
Submit ==
  /\ todo # <<>>
  /\ LET o == Head(todo) \o <<Len(broker) + 1>>
     IN /\ Marks(o[1], o[2])
        /\ broker' = Append(broker, o)
        /\ responses' = Append(responses, o)
  /\ todo' = Tail(todo)
  /\ UNCHANGED <<edits, file, saving, reported, trouble, calls>>

\* place_order raises, and so does execute_signals: what it placed is not saved.
SubmitRaises ==
  /\ todo # <<>>
  /\ Marks(Head(todo)[1], Head(todo)[2])
  /\ todo' = <<>> /\ responses' = <<>> /\ trouble' = TRUE
  /\ UNCHANGED <<edits, file, saving, broker, reported, calls>>

\* save_orders cannot read a torn file.
SaveRaises ==
  /\ todo = <<>> /\ responses # <<>> /\ ~saving /\ file.state = "torn"
  /\ responses' = <<>> /\ trouble' = TRUE
  /\ UNCHANGED <<portfolio, file, todo, saving, broker, reported, calls>>

\* What is written: the list that was read and the new orders.  Mutant: these only.
Written_NewOnly == responses
Written == file.orders \o responses

\* The file is opened, which truncates it, ...
OpenOrders ==
  /\ todo = <<>> /\ responses # <<>> /\ ~saving /\ file.state # "torn"
  /\ saving' = TRUE
  /\ UNCHANGED <<portfolio, file, todo, responses, broker, reported, trouble, calls>>

\* ... and the list is dumped.
DumpOrders ==
  /\ saving
  /\ file' = [state |-> "whole", orders |-> Written]
  /\ reported' = reported \o responses
  /\ responses' = <<>> /\ saving' = FALSE
  /\ UNCHANGED <<portfolio, todo, broker, trouble, calls>>

\* The process ends; the portfolio is built anew.
Crash ==
  /\ ~Idle
  /\ positions' = [s \in Symbols |-> "absent"] /\ touched' = {}
  /\ file' = IF saving THEN [state |-> "torn", orders |-> <<>>] ELSE file
  /\ todo' = <<>> /\ responses' = <<>> /\ saving' = FALSE
  /\ trouble' = TRUE
  /\ UNCHANGED <<edits, broker, reported, calls>>

Next ==
  \/ \E s \in Symbols : RemovePosition(s)
  \/ \E some \in SUBSET Symbols \ {{}} : \E dates \in [some -> BOOLEAN] : AddPositions(dates)
  \/ \E buys, sells \in SUBSET Symbols : ExecuteSignals(buys, sells)
  \/ Submit \/ SubmitRaises \/ SaveRaises \/ OpenOrders \/ DumpOrders \/ Crash

Spec == Init /\ [][Next]_vars

-----------------------------------------------------------------------------
(* Properties *)

\* The last order the broker took of a symbol is a purchase.
LastWasBuy(s) ==
  \E i \in DOMAIN broker :
    /\ broker[i][1] = s /\ broker[i][2] = "BUY"
    /\ \A j \in DOMAIN broker : j > i => broker[j][1] # s

\* orders.json is "for further review": a file that can be read holds the orders
\* of all calls that returned, in the order they were placed, and as long as no
\* call raised and no process ended, every order the broker took; the portfolio
\* then says owned of a symbol whose last order was a purchase.
RecordsKept ==
  /\ file.state = "whole" => file.orders = reported
  /\ Idle /\ ~trouble => reported = broker
  /\ \A i, j \in DOMAIN reported : i < j => reported[i][3] < reported[j][3]
  /\ Idle /\ ~trouble => \A s \in touched : (positions[s] = "owned") <=> LastWasBuy(s)

=============================================================================
