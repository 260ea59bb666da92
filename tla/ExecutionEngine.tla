--------------------------- MODULE ExecutionEngine --------------------------
(***************************************************************************)
(* pyrobot/execution/engine.py over OrderManager, one broker adapter and   *)
(* the kill switch.  Every thread runs at most one engine call at a time;  *)
(* a call is cut where it leaves the manager's lock for a broker request,  *)
(* a back-off sleep or an audit record, so calls of several threads        *)
(* interleave there.  Only the trading loop (Loop) submits, as in          *)
(* TradingPipeline; any thread may poll or cancel.                         *)
(*                                                                         *)
(* An early return or exception that changes no state is a stuttering step.*)
(***************************************************************************)
EXTENDS OrderManager, Integers, Sequences

CONSTANTS
  Orders,           \* client order ids
  Threads,          \* threads that call the engine
  Loop,             \* the trading-loop thread
  Qty,              \* ordered quantity of every order
  MaxRetries,       \* max_retries of the engine
  MaxOrders,        \* max_orders of the manager, 0 for no limit
  PassesTransient,  \* the adapter lets time-outs through, as submit's retry supposes; the
                    \* adapters of pyrobot/brokers wrap every failure as a rejection
  CancelIsFinal     \* a True from cancel_order means the order is dead (paper broker)

ASSUME ConstantsOK ==
  /\ Loop \in Threads
  /\ Orders # {}
  /\ Qty \in Nat \ {0}
  /\ MaxRetries \in Nat
  /\ MaxOrders \in Nat
  /\ PassesTransient \in BOOLEAN
  /\ CancelIsFinal \in BOOLEAN

VARIABLES
  status,       \* Order.status, "ABSENT" before registration
  brokerId,     \* Order.broker_order_id as a position of book, 0 for None and ""
  filled,       \* Order.filled_quantity
  idMap,        \* _broker_id_map as pairs <<broker id, client order id>>
  book,         \* external: what the broker knows of each id it has issued
  killActive,   \* KillSwitch._active
  afterKill,    \* history: requests that reached the broker since the last activation
  fullFills,    \* audit: ORDER_FILLED events with partial=False, per order
  partFills,    \* audit: ORDER_FILLED events with partial=True, per order
  confirmed,    \* history: orders whose cancellation the broker answered with True
  call          \* per thread: the engine call it is in and what it holds

orderVars == <<status, brokerId, filled, idMap>>
auditVars == <<fullFills, partFills, confirmed>>
killVars == <<killActive, afterKill>>
vars == <<orderVars, book, killVars, auditVars, call>>

-----------------------------------------------------------------------------
(* The broker, as the adapters' get_order_status shows it: Alpaca passes its *)
(* own strings on, Schwab and IBKR theirs, PaperBroker OPEN or the outcome.  *)

\* "open" stands for every string of an open order that poll_status has no branch
\* for: new, submitted, pending_new and pending_cancel, and those the map does not
\* list (OPEN, QUEUED, PreSubmitted).
Live == {"open", "accepted", "partially_filled"}

\* "canceled" stands for cancelled and replaced too.
Dead == {"filled", "canceled", "rejected", "expired", "done_for_day"}

\* "unrecorded": UNKNOWN is reported, because the broker keeps no order for the id
\* (PaperBroker's unpriced REJECTED answer, the dry-run id) or no longer shows it,
\* or a string of an end that the map does not list (Inactive, suspended).
BrokerStatus == Live \cup Dead \cup {"unrecorded"}

\* Mutant of Canonical: a partial fill taken for a complete one.
Canonical_PartialIsFilled(s) ==
  IF s \in {"partially_filled", "filled"} THEN "FILLED" ELSE "UNKNOWN"

\* _BROKER_STATUS_MAP.  An "open" string is NEW, SUBMITTED, CANCEL_PENDING or
\* UNKNOWN by the map, and UNKNOWN stands for the four.
Canonical(s) ==
  CASE s = "accepted"                   -> "ACKNOWLEDGED"
    [] s = "partially_filled"           -> "PARTIALLY_FILLED"
    [] s \in {"filled", "done_for_day"} -> "FILLED"
    [] s = "canceled"                   -> "CANCELLED"
    [] s = "rejected"                   -> "REJECTED"
    [] s = "expired"                    -> "EXPIRED"
    [] OTHER                            -> "UNKNOWN"

BrokerOrder == [order : Orders, st : BrokerStatus, qty : 0..Qty]

Becomes(i, s, q) == book' = [book EXCEPT ![i] = [order |-> @.order, st |-> s, qty |-> q]]

\* A live order at the broker moves by itself: it is accepted or worked, filled in
\* part or whole, cancelled, replaced, rejected or expired, or no longer shown.
BrokerMoves(i, s, q) ==
  /\ book[i].st \in Live
  /\ CASE s = "open"              -> book[i].qty <= q /\ q < Qty
       [] s = "partially_filled"  -> book[i].qty < q /\ q < Qty
       [] s = "filled"            -> q = Qty
       [] s \in {"accepted", "rejected"} -> book[i].qty = 0 /\ q = 0
       [] OTHER                   -> q = book[i].qty
  /\ Becomes(i, s, q)
  /\ UNCHANGED <<orderVars, killVars, auditVars, call>>

-----------------------------------------------------------------------------
(* The calls in progress: the step a thread is at, the order, the attempt of *)
(* _submit_with_retry and the broker's answer it holds.                      *)

Steps == {"idle", "place", "record", "apply", "auditFull", "auditPart", "cancel", "cancelled"}

Call == [step : Steps, order : Orders, try : 0..MaxRetries, id : 0..Len(book), st : BrokerStatus, qty : 0..Qty]

Answered(step, o, id, s, q) ==
  [step |-> step, order |-> o, try |-> 0, id |-> id, st |-> s, qty |-> q]

Begin(step, o) == Answered(step, o, 0, "unrecorded", 0)

Idle == Begin("idle", CHOOSE o \in Orders : TRUE)

At(t, step) == call[t].step = step
Continue(t, c) == call' = [call EXCEPT ![t] = c]
Return(t) == Continue(t, Idle)

Init ==
  /\ status = [o \in Orders |-> "ABSENT"]
  /\ brokerId = [o \in Orders |-> 0]
  /\ filled = [o \in Orders |-> 0]
  /\ idMap = {}
  /\ book = <<>>
  /\ killActive = FALSE
  /\ afterKill = 0
  /\ fullFills = [o \in Orders |-> 0]
  /\ partFills = [o \in Orders |-> 0]
  /\ confirmed = {}
  /\ call = [t \in Threads |-> Idle]

\* OrderManager.create / create_from_signal by the trading loop.
Create(o) ==
  /\ At(Loop, "idle")
  /\ MayRegister(status, o, MaxOrders)
  /\ status' = [status EXCEPT ![o] = "NEW"]
  /\ UNCHANGED <<brokerId, filled, idMap, book, killVars, auditVars, call>>

-----------------------------------------------------------------------------
(* ExecutionEngine.submit *)

\* Mutant of MaySubmit: the state test loosened.
MaySubmit_AnyState(o) == At(Loop, "idle") /\ ~killActive /\ status[o] \in {"NEW", "SUBMITTED"}

\* The kill switch guard and the state test of steps 1 and 2.
MaySubmit(o) ==
  /\ At(Loop, "idle")
  /\ ~killActive
  /\ status[o] = "NEW"

\* Steps 3 and 4 pass: field validation, and a positive risk decision.
SubmitApproved(o) ==
  /\ MaySubmit(o)
  /\ Continue(Loop, Begin("place", o))
  /\ UNCHANGED <<orderVars, book, killVars, auditVars>>

\* Step 4 refuses: no price for the symbol, or the risk decision is negative.
SubmitRefused(o) ==
  /\ MaySubmit(o)
  /\ status' = [status EXCEPT ![o] = "REJECTED"]
  /\ UNCHANGED <<brokerId, filled, idMap, book, killVars, auditVars, call>>

\* Step 4 finds a breached loss limit: the risk manager activates the kill
\* switch and raises, and the order keeps its state NEW.
SubmitBreaches(o) ==
  /\ MaySubmit(o)
  /\ killActive' = TRUE
  /\ afterKill' = 0
  /\ UNCHANGED <<orderVars, book, auditVars, call>>

\* The id of the next order.
NextId == Len(book) + 1

\* The request reaches the broker, which issues the next id.
Arrives(s) ==
  /\ book' = Append(book, [order |-> call[Loop].order, st |-> s, qty |-> 0])
  /\ afterKill' = IF killActive THEN afterKill + 1 ELSE afterKill
  /\ UNCHANGED killActive

Lost == UNCHANGED <<book, killVars>>

\* place_order returns: with the id of the new order, with an id the broker
\* keeps no order for, or (no Location header) with an empty id.
PlaceReturns ==
  /\ At(Loop, "place")
  /\ \E s \in {"open", "unrecorded"}, id \in {0, NextId} :
       /\ s = "unrecorded" => id # 0
       /\ Arrives(s)
       /\ Continue(Loop, Answered("record", call[Loop].order, id, s, 0))
  /\ UNCHANGED <<orderVars, auditVars>>

\* A non-retryable exception: the broker refused, or the adapter wrapped the
\* lost answer to an order that did arrive into an OrderRejectedError.
PlaceRejected ==
  /\ At(Loop, "place")
  /\ Lost \/ (~PassesTransient /\ Arrives("open"))
  /\ status' = [status EXCEPT ![call[Loop].order] = "REJECTED"]
  /\ Return(Loop)
  /\ UNCHANGED <<brokerId, filled, idMap, auditVars>>

\* The range of _submit_with_retry's loop.  Mutant: one attempt too many.
AttemptsLeft_OffByOne == call[Loop].try <= MaxRetries
AttemptsLeft == call[Loop].try < MaxRetries

\* A transient exception, before or after the order arrived: sleep and try
\* again, without looking at the kill switch.
PlaceRetries ==
  /\ At(Loop, "place")
  /\ PassesTransient
  /\ AttemptsLeft
  /\ Lost \/ Arrives("open")
  /\ Continue(Loop, [call[Loop] EXCEPT !.try = @ + 1])
  /\ UNCHANGED <<orderVars, auditVars>>

\* Retries are exhausted, or the text of the exception stops them early:
\* mark_unknown, and no broker id is recorded.
PlaceUnknown ==
  /\ At(Loop, "place")
  /\ PassesTransient
  /\ Lost \/ Arrives("open")
  /\ status' = [status EXCEPT ![call[Loop].order] = "UNKNOWN"]
  /\ Return(Loop)
  /\ UNCHANGED <<brokerId, filled, idMap, auditVars>>

\* Step 6, mark_submitted: state, broker id and id map in one locked section.
RecordSubmitted ==
  LET o == call[Loop].order
      id == call[Loop].id
  IN /\ At(Loop, "record")
     /\ CanMove(status[o], "SUBMITTED")
     /\ status' = [status EXCEPT ![o] = "SUBMITTED"]
     /\ brokerId' = [brokerId EXCEPT ![o] = id]
     /\ idMap' = {p \in idMap : p[1] # id} \cup {<<id, o>>}
     /\ Return(Loop)
     /\ UNCHANGED <<filled, book, killVars, auditVars>>

-----------------------------------------------------------------------------
(* ExecutionEngine.poll_status *)

\* get_order_status: the answer may be old by the time it is applied.
PollQuery(t, o) ==
  /\ At(t, "idle")
  /\ brokerId[o] # 0
  /\ LET b == book[brokerId[o]]
     IN Continue(t, Answered("apply", o, brokerId[o], b.st, b.qty))
  /\ UNCHANGED <<orderVars, book, killVars, auditVars>>

\* Mutant of Polled: the branch for a cancelled order is missing.
Polled_NoCancelled == {"FILLED", "PARTIALLY_FILLED", "REJECTED", "ACKNOWLEDGED"}

\* The states poll_status applies; it has no branch for the others.
Polled == {"FILLED", "PARTIALLY_FILLED", "CANCELLED", "REJECTED", "ACKNOWLEDGED"}

\* Mutant of Applies: the state is set without asking for the transition.
Applies_Unchecked(from, s) == s \in Polled

\* What an answer s does to an order in state from: the branch is taken and
\* the manager's transition check passes.
Applies(from, s) ==
  /\ s \in Polled \ {from}
  /\ s = "ACKNOWLEDGED" => from = "SUBMITTED"
  /\ CanMove(from, s)

PollApplies(t) ==
  LET o == call[t].order
      s == Canonical(call[t].st)
      step == CASE s = "FILLED" -> "auditFull" [] s = "PARTIALLY_FILLED" -> "auditPart" [] OTHER -> "idle"
  IN /\ At(t, "apply")
     /\ Applies(status[o], s)
     /\ status' = [status EXCEPT ![o] = s]
     /\ filled' = IF step = "idle" THEN filled ELSE [filled EXCEPT ![o] = call[t].qty]
     /\ IF step = "idle" THEN Return(t) ELSE Continue(t, Begin(step, o))
     /\ UNCHANGED <<brokerId, idMap, book, killVars, auditVars>>

\* No branch, no change, or OrderStateError: the call ends.
PollIgnored(t) ==
  /\ At(t, "apply")
  /\ ~Applies(status[call[t].order], Canonical(call[t].st))
  /\ Return(t)
  /\ UNCHANGED <<orderVars, book, killVars, auditVars>>

\* _record_fill, after the manager's lock is released.
AuditFill(t) ==
  /\ \/ /\ At(t, "auditFull")
        /\ fullFills' = [fullFills EXCEPT ![call[t].order] = @ + 1]
        /\ UNCHANGED partFills
     \/ /\ At(t, "auditPart")
        /\ partFills' = [partFills EXCEPT ![call[t].order] = @ + 1]
        /\ UNCHANGED fullFills
  /\ Return(t)
  /\ UNCHANGED <<orderVars, book, killVars, confirmed>>

-----------------------------------------------------------------------------
(* ExecutionEngine.cancel_order *)

Cancellable == {"SUBMITTED", "ACKNOWLEDGED", "PARTIALLY_FILLED", "CANCEL_PENDING"}

CancelBegins(t, o) ==
  /\ At(t, "idle")
  /\ status[o] \in Cancellable
  /\ brokerId[o] # 0
  /\ status' = [status EXCEPT ![o] = "CANCEL_PENDING"]
  /\ Continue(t, Begin("cancel", o))
  /\ UNCHANGED <<brokerId, filled, idMap, book, killVars, auditVars>>

\* What a confirmed cancellation does to the broker's order: PaperBroker has
\* removed it; the other adapters have only had their request accepted.
Confirms(o) ==
  LET i == brokerId[o]
  IN /\ book[i].st \in Live
     /\ Becomes(i, "canceled", book[i].qty) \/ (~CancelIsFinal /\ UNCHANGED book)
     /\ confirmed' = confirmed \cup {o}

\* Mutant of CancelAccepted: a False of the broker is not looked at.
CancelAccepted_IgnoresRefusal(t) ==
  /\ At(t, "cancel")
  /\ \/ Confirms(call[t].order)
     \/ book[brokerId[call[t].order]].st \notin Live /\ UNCHANGED <<book, confirmed>>
  /\ Continue(t, Begin("cancelled", call[t].order))
  /\ UNCHANGED <<orderVars, killVars, fullFills, partFills>>

\* cancel_order returns True.
CancelAccepted(t) ==
  /\ At(t, "cancel")
  /\ Confirms(call[t].order)
  /\ Continue(t, Begin("cancelled", call[t].order))
  /\ UNCHANGED <<orderVars, killVars, fullFills, partFills>>

\* It returns False or raises: the order is no longer open, or the request
\* failed.  The order stays CANCEL_PENDING.
CancelFails(t) ==
  /\ At(t, "cancel")
  /\ book[brokerId[call[t].order]].st \notin Live \/ ~CancelIsFinal
  /\ Return(t)
  /\ UNCHANGED <<orderVars, book, killVars, auditVars>>

\* mark_cancelled, or OrderStateError when a poll has moved the order on.
RecordCancelled(t) ==
  LET o == call[t].order
  IN /\ At(t, "cancelled")
     /\ status' = IF CanMove(status[o], "CANCELLED")
                  THEN [status EXCEPT ![o] = "CANCELLED"] ELSE status
     /\ Return(t)
     /\ UNCHANGED <<brokerId, filled, idMap, book, killVars, auditVars>>

-----------------------------------------------------------------------------
(* KillSwitch.activate and reset from any other part of the system.  An     *)
(* activation of an active switch only adds to its history.                 *)

KillActivate ==
  /\ ~killActive
  /\ killActive' = TRUE
  /\ afterKill' = 0
  /\ UNCHANGED <<orderVars, book, auditVars, call>>

KillReset ==
  /\ killActive
  /\ killActive' = FALSE
  /\ UNCHANGED <<orderVars, book, afterKill, auditVars, call>>

-----------------------------------------------------------------------------
Submit(o) == SubmitApproved(o) \/ SubmitRefused(o) \/ SubmitBreaches(o)
Place == PlaceReturns \/ PlaceRejected \/ PlaceRetries \/ PlaceUnknown
Poll(t) == (\E o \in Orders : PollQuery(t, o)) \/ PollApplies(t) \/ PollIgnored(t) \/ AuditFill(t)
Cancel(t) == (\E o \in Orders : CancelBegins(t, o))
             \/ CancelAccepted(t) \/ CancelFails(t) \/ RecordCancelled(t)
Broker == \E i \in 1..Len(book), s \in BrokerStatus, q \in 0..Qty :
            BrokerMoves(i, s, q)

Next ==
  \/ \E o \in Orders : Create(o) \/ Submit(o)
  \/ Place
  \/ RecordSubmitted
  \/ \E t \in Threads : Poll(t) \/ Cancel(t)
  \/ Broker
  \/ KillActivate
  \/ KillReset

Spec == Init /\ [][Next]_vars

-----------------------------------------------------------------------------
(* Properties *)

\* Every variable has its type; an attempt number stays below the limit of
\* _submit_with_retry and every id in use was issued by the broker.
TypeOK ==
  /\ status \in [Orders -> Slot]
  /\ brokerId \in [Orders -> 0..Len(book)]
  /\ filled \in [Orders -> 0..Qty]
  /\ idMap \subseteq (0..Len(book)) \X Orders
  /\ book \in Seq(BrokerOrder)
  /\ killActive \in BOOLEAN
  /\ afterKill \in Nat
  /\ fullFills \in [Orders -> Nat]
  /\ partFills \in [Orders -> Nat]
  /\ confirmed \subseteq Orders
  /\ call \in [Threads -> Call]

\* However polls of several threads interleave, a completed fill is written to
\* the audit ledger exactly once: an order is FILLED if and only if its event is
\* in the ledger or exactly one thread is about to write it (poll_status
\* tests the state, marks it under the lock and records after the lock).
FillReportedOnce ==
  \A o \in Orders :
    LET writers == {t \in Threads : At(t, "auditFull") /\ call[t].order = o}
    IN /\ status[o] = "FILLED" => fullFills[o] + Cardinality(writers) = 1
       /\ status[o] # "FILLED" => fullFills[o] = 0 /\ writers = {}

\* Racing polls with old answers never run ahead of the broker: a fill the
\* platform records has happened, and a FILLED order is finished there with
\* the same filled quantity.
FillsAreReal ==
  \A o \in Orders :
    /\ filled[o] > 0 => brokerId[o] # 0 /\ filled[o] <= book[brokerId[o]].qty
    /\ status[o] = "FILLED" =>
         book[brokerId[o]].st \in {"filled", "done_for_day"} /\ filled[o] = book[brokerId[o]].qty

\* max_orders holds at every moment: no later step of submit, poll or cancel
\* brings an order back among the active ones that _register counted.
ActiveBudget ==
  MaxOrders > 0 => Cardinality(ActiveOrders(status)) <= MaxOrders

\* The id an order carries leads back to it in _broker_id_map, and at the
\* broker to an order placed for it.
IdsAgree ==
  \A o \in Orders : brokerId[o] # 0 =>
    /\ {p[2] : p \in {q \in idMap : q[1] = brokerId[o]}} = {o}
    /\ book[brokerId[o]].order = o

\* Nothing is placed twice or under another order's name: an order reaches the
\* broker once, or at most once per attempt when the adapter lets time-outs
\* through (submit's state test and retry bound), and the id that came back
\* identifies it on both sides.
PlacedOnce ==
  /\ \A o \in Orders :
       Cardinality({i \in 1..Len(book) : book[i].order = o})
         <= IF PassesTransient THEN MaxRetries + 1 ELSE 1
  /\ IdsAgree

\* Once activated, the kill switch lets no order through to the broker until it
\* is reset: the submission past its guard is not excepted (kill_switch.py says
\* so, and submit does not look again before it calls the broker).
NoneAfterKill == killActive => afterKill = 0

\* An order that carries an id and has ended on the platform has ended as the
\* broker said, whatever polls with old answers, cancellations of several threads
\* and fills race for it: CANCELLED only if the broker cancelled or replaced it or
\* confirmed a cancellation (which is final at PaperBroker), FILLED or REJECTED only
\* if it is so there.
EndsAsTold ==
  \A o \in Orders : brokerId[o] # 0 =>
    LET st == book[brokerId[o]].st
    IN /\ status[o] = "CANCELLED" =>
            st = "canceled" \/ (~CancelIsFinal /\ o \in confirmed)
       /\ status[o] = "FILLED" => st \in {"filled", "done_for_day"}
       /\ status[o] = "REJECTED" => st = "rejected"

\* A poll that brings the news of a fill, a cancellation or a replacement leaves
\* the order ended, whatever other calls did to it since the broker was asked:
\* every state a polled order can be in takes those ends (poll_status has no branch
\* for an expiry, and a rejection after a partial fill is refused).
NewsIsKept ==
  [][\A t \in Threads :
       /\ At(t, "apply")
       /\ call'[t] # call[t]
       /\ Canonical(call[t].st) \in {"FILLED", "CANCELLED"}
       => status'[call[t].order] \in Terminal]_vars

\* ExecutionEngine implements OrderLifecycle: orders are registered within the
\* limit, stages only advance, terminal states last, the completed fill is reported
\* once.
Abstract == INSTANCE OrderLifecycle
Lifecycle == Abstract!Spec

=============================================================================
