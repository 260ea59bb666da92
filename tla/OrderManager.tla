---------------------------- MODULE OrderManager ----------------------------
(***************************************************************************)
(* The order registry of pyrobot/execution/order_manager.py as data: the   *)
(* states of an order, the table of transitions OrderManager validates     *)
(* under its lock, and the state tests of pyrobot/models/order.py.         *)
(* The modules that own an order table apply these operators to it.        *)
(***************************************************************************)
EXTENDS Naturals, FiniteSets

Terminal == {"FILLED", "CANCELLED", "REJECTED", "EXPIRED"}

OrderState == Terminal \cup
  {"NEW", "SUBMITTED", "ACKNOWLEDGED", "PARTIALLY_FILLED", "CANCEL_PENDING", "UNKNOWN"}

\* An order the manager has not registered has no state in the code.
Slot == OrderState \cup {"ABSENT"}

\* _RECONCILABLE_STATES: where resolve_unknown may move an UNKNOWN order.
Reconcilable == Terminal \cup {"SUBMITTED", "PARTIALLY_FILLED"}

\* _VALID_TRANSITIONS, as the set of <<from, to>> pairs.  Every state but
\* UNKNOWN itself may move to UNKNOWN.
ValidTransitions ==
  ({"NEW"} \X {"SUBMITTED", "REJECTED", "CANCELLED"})
  \cup ({"SUBMITTED"} \X
        {"ACKNOWLEDGED", "REJECTED", "CANCELLED", "CANCEL_PENDING", "PARTIALLY_FILLED", "FILLED"})
  \cup ({"ACKNOWLEDGED"} \X
        {"PARTIALLY_FILLED", "FILLED", "CANCEL_PENDING", "CANCELLED", "REJECTED", "EXPIRED"})
  \cup ({"PARTIALLY_FILLED"} \X {"FILLED", "CANCEL_PENDING", "CANCELLED"})
  \cup ({"CANCEL_PENDING"} \X {"CANCELLED", "FILLED"})
  \cup ({"UNKNOWN"} \X Reconcilable)
  \cup ((OrderState \ {"UNKNOWN"}) \X {"UNKNOWN"})

\* Mutant of CanMove: the table is not consulted.
CanMove_Any(from, to) == from # to

\* _transition: the mark_* methods raise OrderStateError when this is false.
CanMove(from, to) == <<from, to>> \in ValidTransitions

\* Order.is_active: what counts against max_orders and what active_orders()
\* returns.  CANCEL_PENDING and UNKNOWN are in neither set.
ActiveStates == {"NEW", "SUBMITTED", "ACKNOWLEDGED", "PARTIALLY_FILLED"}

ActiveOrders(status) == {o \in DOMAIN status : status[o] \in ActiveStates}

\* Mutant of MayRegister: the limit is compared off by one.
MayRegister_OffByOne(status, o, maxOrders) ==
  status[o] = "ABSENT" /\ Cardinality(ActiveOrders(status)) <= maxOrders

\* _register: the id is new and max_orders (0 disables it) is not reached.
MayRegister(status, o, maxOrders) ==
  /\ status[o] = "ABSENT"
  /\ \/ maxOrders = 0
     \/ Cardinality(ActiveOrders(status)) < maxOrders

=============================================================================
