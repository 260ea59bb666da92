--------------------------- MODULE OrderLifecycle ---------------------------
(***************************************************************************)
(* What the execution layer promises of every order, whatever threads and  *)
(* the broker do: an order is registered once, within the limit of open    *)
(* orders, only moves to a later stage, never leaves a terminal state, and *)
(* its completed fill is reported once.                                    *)
(* ExecutionEngine implements this specification.                          *)
(***************************************************************************)
EXTENDS Naturals, FiniteSets

CONSTANTS
  Orders,
  MaxOrders    \* how many orders may be open at once, 0 for no limit

VARIABLES
  status,      \* the state of each order
  fullFills    \* completed-fill reports of each order

vars == <<status, fullFills>>

\* How far an order has come.  UNKNOWN is a dead end of its own: an order in
\* it needs reconciliation and makes no move by itself.
Stage(s) ==
  CASE s = "ABSENT"           -> 0
    [] s = "NEW"              -> 1
    [] s = "SUBMITTED"        -> 2
    [] s = "ACKNOWLEDGED"     -> 3
    [] s = "PARTIALLY_FILLED" -> 4
    [] s = "CANCEL_PENDING"   -> 5
    [] OTHER                  -> 6

Init ==
  /\ status = [o \in Orders |-> "ABSENT"]
  /\ fullFills = [o \in Orders |-> 0]

\* An open order has neither ended nor been left to a cancellation.
Open == {o \in Orders : Stage(status[o]) \in 1..4}

Register(o) ==
  /\ status[o] = "ABSENT"
  /\ MaxOrders = 0 \/ Cardinality(Open) < MaxOrders
  /\ status' = [status EXCEPT ![o] = "NEW"]
  /\ UNCHANGED fullFills

Advance(o) ==
  /\ status[o] # "ABSENT"
  /\ \E s \in {"SUBMITTED", "ACKNOWLEDGED", "PARTIALLY_FILLED", "CANCEL_PENDING",
               "FILLED", "CANCELLED", "REJECTED", "UNKNOWN"} :
       /\ Stage(status[o]) < Stage(s)
       /\ status' = [status EXCEPT ![o] = s]
  /\ UNCHANGED fullFills

ReportFill(o) ==
  /\ status[o] = "FILLED"
  /\ fullFills[o] = 0
  /\ fullFills' = [fullFills EXCEPT ![o] = 1]
  /\ UNCHANGED status

Next == \E o \in Orders : Register(o) \/ Advance(o) \/ ReportFill(o)

Spec == Init /\ [][Next]_vars

=============================================================================
