------------------------ MODULE ExecutionEngineProofs -----------------------
(***************************************************************************)
(* Theorems about ExecutionEngine, for any sets of orders and threads, any *)
(* quantity, retry limit and adapter.                                      *)
(***************************************************************************)
EXTENDS ExecutionEngine, SequenceTheorems, FiniteSetTheorems, TLAPS

USE ConstantsOK

(* What a request that reaches the broker does to its book: one more entry. *)
LEMMA BookAppended ==
  ASSUME TypeOK, NEW s \in BrokerStatus, Arrives(s)
  PROVE  /\ book' \in Seq(BrokerOrder)
         /\ Len(book') = Len(book) + 1
         /\ \A i \in 1..Len(book) : book'[i] = book[i]
         /\ book'[Len(book) + 1] = [order |-> call[Loop].order, st |-> s, qty |-> 0]
<1>1. [order |-> call[Loop].order, st |-> s, qty |-> 0] \in BrokerOrder
  BY DEF TypeOK, Call, BrokerOrder
<1> QED
  BY <1>1, AppendProperties DEF Arrives, TypeOK

(* What a move of the broker, or an accepted cancellation, does to it. *)
LEMMA BookUpdated ==
  ASSUME TypeOK, NEW i \in 1..Len(book), NEW s \in BrokerStatus, NEW q \in 0..Qty,
         Becomes(i, s, q)
  PROVE  /\ book' \in Seq(BrokerOrder)
         /\ Len(book') = Len(book)
         /\ \A j \in 1..Len(book) :
              book'[j] = IF j = i THEN [order |-> book[i].order, st |-> s, qty |-> q] ELSE book[j]
<1>1. book[i] \in BrokerOrder
  BY ElementOfSeq DEF TypeOK
<1>2. [order |-> book[i].order, st |-> s, qty |-> q] \in BrokerOrder
  BY <1>1 DEF BrokerOrder
<1> QED
  BY <1>2, ExceptSeq DEF TypeOK, Becomes

(* The idle call, and a call that begins, are well formed. *)
LEMMA BeginType ==
  ASSUME TypeOK, NEW o \in Orders, NEW step \in Steps
  PROVE  Begin(step, o) \in Call
BY LenProperties DEF Begin, Answered, Call, BrokerStatus, TypeOK

(* A thread at rest is typed.                                               *)
LEMMA IdleType ==
  ASSUME TypeOK
  PROVE  Idle \in Call
<1>1. (CHOOSE o \in Orders : TRUE) \in Orders
  OBVIOUS
<1> QED
  BY <1>1, BeginType DEF Idle, Steps

(* Every id in use stays in range when the book grows. *)
LEMMA CallMonotone ==
  ASSUME TypeOK, Len(book') \in Nat, Len(book) <= Len(book')
  PROVE  /\ Call \subseteq Call'
         /\ 0..Len(book) \subseteq 0..Len(book')
<1>1. Len(book) \in Nat
  BY LenProperties DEF TypeOK
<1>2. 0..Len(book) \subseteq 0..Len(book')
  BY <1>1
<1> QED
  BY <1>2 DEF Call

-----------------------------------------------------------------------------
(* What holds of the variables when an action does not touch the book. *)
LEMMA SameBook ==
  ASSUME TypeOK, UNCHANGED book
  PROVE  /\ Call' = Call
         /\ book' \in Seq(BrokerOrder)
         /\ Len(book') = Len(book)
BY DEF TypeOK, Call

(* TypeOK is inductive by itself. *)
LEMMA TypeInit == Init => TypeOK
<1> SUFFICES ASSUME Init PROVE TypeOK
  OBVIOUS
<1>1. book = <<>> /\ book \in Seq(BrokerOrder) /\ Len(book) = 0
  BY EmptySeq DEF Init
<1>2. Idle \in Call
  BY <1>1 DEF Idle, Begin, Answered, Call, Steps, BrokerStatus
<1>3. status \in [Orders -> Slot] /\ killActive \in BOOLEAN /\ afterKill \in Nat
  BY DEF Init, Slot
<1>4. /\ brokerId \in [Orders -> 0..0] /\ filled \in [Orders -> 0..Qty]
      /\ fullFills \in [Orders -> Nat] /\ partFills \in [Orders -> Nat] /\ confirmed \subseteq Orders
  BY DEF Init
<1>5. idMap = {} /\ call \in [Threads -> Call]
  BY <1>2 DEF Init
<1> QED
  BY <1>1, <1>3, <1>4, <1>5 DEF TypeOK

(* Every step keeps the types.                                              *)
LEMMA TypeStep == TypeOK /\ [Next]_vars => TypeOK'
<1> SUFFICES ASSUME TypeOK, [Next]_vars PROVE TypeOK'
  OBVIOUS
<1> USE DEF TypeOK
<1>0. Len(book) \in Nat
  BY LenProperties
<1>a. call[Loop] \in Call /\ call[Loop].order \in Orders
  BY DEF Call
<1>1. ASSUME NEW o \in Orders, Create(o) PROVE TypeOK'
  BY <1>1, SameBook DEF Create, Slot, OrderState, killVars, auditVars
<1>2. ASSUME NEW o \in Orders, Submit(o) PROVE TypeOK'
  <2>1. CASE SubmitApproved(o)
    <3>1. Begin("place", o) \in Call
      BY BeginType DEF Steps
    <3> QED
      BY <2>1, <3>1, SameBook DEF SubmitApproved, Continue, orderVars, killVars, auditVars
  <2>2. CASE SubmitRefused(o)
    BY <2>2, SameBook DEF SubmitRefused, Slot, OrderState, Terminal, killVars, auditVars
  <2>3. CASE SubmitBreaches(o)
    BY <2>3, SameBook DEF SubmitBreaches, orderVars, auditVars
  <2> QED
    BY <1>2, <2>1, <2>2, <2>3 DEF Submit
<1>3. ASSUME NEW s \in {"open", "unrecorded"}, Arrives(s)
      PROVE  /\ book' \in Seq(BrokerOrder)
             /\ Len(book') = Len(book) + 1
             /\ afterKill' \in Nat
             /\ killActive' \in BOOLEAN
             /\ Call \subseteq Call'
             /\ 0..Len(book) \subseteq 0..Len(book')
  <2>1. s \in BrokerStatus
    BY DEF BrokerStatus, Live
  <2>2. book' \in Seq(BrokerOrder) /\ Len(book') = Len(book) + 1
    BY <1>3, <2>1, BookAppended
  <2>3. Call \subseteq Call' /\ 0..Len(book) \subseteq 0..Len(book')
    BY <1>0, <2>2, CallMonotone
  <2> QED
    BY <1>3, <2>2, <2>3 DEF Arrives
<1>4. ASSUME Lost
      PROVE  /\ book' \in Seq(BrokerOrder)
             /\ Len(book') = Len(book)
             /\ afterKill' \in Nat
             /\ killActive' \in BOOLEAN
             /\ Call \subseteq Call'
             /\ 0..Len(book) \subseteq 0..Len(book')
  BY <1>4, SameBook DEF Lost, killVars
<1>5. CASE Place
  <2>0. Idle \in Call
    BY IdleType
  <2>1. CASE PlaceReturns
    <3>1. PICK s \in {"open", "unrecorded"}, id \in {0, NextId} :
            Arrives(s) /\ Continue(Loop, Answered("record", call[Loop].order, id, s, 0))
      BY <2>1 DEF PlaceReturns
    <3>2. id \in 0..Len(book')
      BY <1>0, <1>3, <3>1 DEF NextId
    <3>3. Answered("record", call[Loop].order, id, s, 0) \in Call'
      BY <1>a, <3>2 DEF Answered, Call, Steps, BrokerStatus, Live
    <3> QED
      BY <2>1, <1>3, <3>1, <3>3 DEF PlaceReturns, Continue, orderVars, auditVars
  <2>2. CASE PlaceRejected
    BY <2>0, <2>2, <1>3, <1>4, <1>a
    DEF PlaceRejected, Return, Continue, auditVars, Slot, OrderState, Terminal
  <2>3. CASE PlaceRetries
    <3>0. ASSUME NEW c \in Call, c.try < MaxRetries
          PROVE  [c EXCEPT !.try = @ + 1] \in Call
      <4>1. c.try \in 0..MaxRetries
        BY DEF Call
      <4>2. c.try + 1 \in 0..MaxRetries
        BY <4>1, <3>0
      <4> QED
        BY <4>2 DEF Call
    <3>1. [call[Loop] EXCEPT !.try = @ + 1] \in Call
      BY <2>3, <1>a, <3>0 DEF PlaceRetries, AttemptsLeft
    <3> QED
      BY <2>3, <1>3, <1>4, <3>1 DEF PlaceRetries, Continue, orderVars, auditVars
  <2>4. CASE PlaceUnknown
    BY <2>0, <2>4, <1>3, <1>4, <1>a
    DEF PlaceUnknown, Return, Continue, auditVars, Slot, OrderState
  <2> QED
    BY <1>5, <2>1, <2>2, <2>3, <2>4 DEF Place
<1>6. CASE RecordSubmitted
  <2>1. call[Loop].id \in 0..Len(book)
    BY <1>a DEF Call
  <2>2. status' \in [Orders -> Slot] /\ brokerId' \in [Orders -> 0..Len(book)]
    BY <1>6, <1>a, <2>1 DEF RecordSubmitted, Slot, OrderState
  <2>3. idMap' \subseteq (0..Len(book)) \X Orders
    BY <1>6, <1>a, <2>1 DEF RecordSubmitted
  <2>4. call' \in [Threads -> Call]
    BY <1>6, IdleType DEF RecordSubmitted, Return, Continue
  <2> QED
    BY <1>6, <2>2, <2>3, <2>4, SameBook DEF RecordSubmitted, killVars, auditVars
<1>7. ASSUME NEW t \in Threads, Poll(t) PROVE TypeOK'
  <2>0. call[t] \in Call /\ call[t].order \in Orders
    BY DEF Call
  <2>1. ASSUME NEW o \in Orders, PollQuery(t, o) PROVE TypeOK'
    <3>1. brokerId[o] \in 1..Len(book)
      BY <1>0, <2>1 DEF PollQuery
    <3>2. book[brokerId[o]] \in BrokerOrder
      BY <3>1, ElementOfSeq
    <3>0. ASSUME NEW r \in BrokerOrder, NEW i \in 0..Len(book)
          PROVE  Answered("apply", o, i, r.st, r.qty) \in Call
      BY DEF Answered, Call, Steps, BrokerOrder
    <3>3. Answered("apply", o, brokerId[o], book[brokerId[o]].st, book[brokerId[o]].qty) \in Call
      BY <3>0, <3>2
    <3>4. call' = [call EXCEPT ![t] = Answered("apply", o, brokerId[o], book[brokerId[o]].st,
                                               book[brokerId[o]].qty)]
      BY <2>1 DEF PollQuery, Continue
    <3>5. call' \in [Threads -> Call]
      BY <3>3, <3>4
    <3> QED
      BY <2>1, <3>5, SameBook DEF PollQuery, orderVars, killVars, auditVars
  <2>2. CASE PollApplies(t)
    <3> DEFINE s == Canonical(call[t].st)
               step == CASE s = "FILLED" -> "auditFull" [] s = "PARTIALLY_FILLED" -> "auditPart" [] OTHER -> "idle"
    <3>1. step \in Steps /\ s \in Slot
      BY <2>2 DEF PollApplies, Applies, Polled, Steps, Slot, OrderState, Terminal
    <3>2. Begin(step, call[t].order) \in Call
      BY <3>1, <2>0, BeginType
    <3>3. call[t].qty \in 0..Qty
      BY <2>0 DEF Call
    <3>4. status' \in [Orders -> Slot] /\ filled' \in [Orders -> 0..Qty] /\ call' \in [Threads -> Call]
      BY <2>2, <2>0, <3>1, <3>2, <3>3, IdleType DEF PollApplies, Return, Continue
    <3> QED
      BY <2>2, <3>4, SameBook DEF PollApplies, killVars, auditVars
  <2>3. CASE PollIgnored(t)
    BY <2>3, IdleType, SameBook DEF PollIgnored, Return, Continue, orderVars, killVars, auditVars
  <2>4. CASE AuditFill(t)
    <3>0. ASSUME NEW f \in [Orders -> Nat], NEW o \in Orders
          PROVE  [f EXCEPT ![o] = @ + 1] \in [Orders -> Nat]
      OBVIOUS
    <3>2. [fullFills EXCEPT ![call[t].order] = @ + 1] \in [Orders -> Nat]
      BY <2>0, <3>0
    <3>3. [partFills EXCEPT ![call[t].order] = @ + 1] \in [Orders -> Nat]
      BY <2>0, <3>0
    <3>1. fullFills' \in [Orders -> Nat] /\ partFills' \in [Orders -> Nat]
      BY <2>4, <3>2, <3>3 DEF AuditFill
    <3> QED
      BY <2>4, <3>1, IdleType, SameBook DEF AuditFill, Return, Continue, orderVars, killVars
  <2> QED
    BY <1>7, <2>1, <2>2, <2>3, <2>4 DEF Poll
<1>8. ASSUME NEW t \in Threads, Cancel(t) PROVE TypeOK'
  <2>0. call[t] \in Call /\ call[t].order \in Orders
    BY DEF Call
  <2>1. ASSUME NEW o \in Orders, CancelBegins(t, o) PROVE TypeOK'
    <3>1. Begin("cancel", o) \in Call
      BY BeginType DEF Steps
    <3> QED
      BY <2>1, <3>1, SameBook DEF CancelBegins, Continue, Slot, OrderState, killVars, auditVars
  <2>2. CASE CancelAccepted(t)
    <3>1. Begin("cancelled", call[t].order) \in Call
      BY <2>0, BeginType DEF Steps
    <3>2. book' \in Seq(BrokerOrder) /\ Len(book') = Len(book)
      <4> DEFINE i == brokerId[call[t].order]
      <4>1. CASE Becomes(i, "canceled", book[i].qty) /\ i \in 1..Len(book)
        <5>1. book[i] \in BrokerOrder
          BY <4>1, ElementOfSeq
        <5>2. book[i].qty \in 0..Qty /\ "canceled" \in BrokerStatus
          BY <5>1 DEF BrokerOrder, BrokerStatus, Dead
        <5> QED
          BY <4>1, <5>2, BookUpdated
      <4>2. CASE Becomes(i, "canceled", book[i].qty) /\ i = 0
        <5>1. book \in [1..Len(book) -> BrokerOrder] /\ i \notin 1..Len(book)
          BY <4>2, <1>0, LenProperties
        <5>2. book' = book
          BY <4>2, <5>1 DEF Becomes
        <5> QED
          BY <5>2
      <4>3. CASE UNCHANGED book
        BY <4>3
      <4> QED
        BY <2>2, <2>0, <1>0, <4>1, <4>2, <4>3 DEF CancelAccepted, Confirms
    <3>3. Call' = Call
      BY <3>2 DEF Call
    <3> QED
      BY <2>2, <2>0, <3>1, <3>2, <3>3 DEF CancelAccepted, Confirms, Continue, orderVars, killVars
  <2>3. CASE CancelFails(t)
    BY <2>3, IdleType, SameBook DEF CancelFails, Return, Continue, orderVars, killVars, auditVars
  <2>4. CASE RecordCancelled(t)
    BY <2>4, <2>0, IdleType, SameBook
    DEF RecordCancelled, Return, Continue, Slot, OrderState, Terminal, killVars, auditVars
  <2> QED
    BY <1>8, <2>1, <2>2, <2>3, <2>4 DEF Cancel
<1>9. CASE Broker
  <2>1. PICK i \in 1..Len(book), s \in BrokerStatus, q \in 0..Qty : BrokerMoves(i, s, q)
    BY <1>9 DEF Broker
  <2>2. book' \in Seq(BrokerOrder) /\ Len(book') = Len(book)
    BY <2>1, BookUpdated DEF BrokerMoves
  <2>3. Call' = Call
    BY <2>2 DEF Call
  <2> QED
    BY <2>1, <2>2, <2>3 DEF BrokerMoves, orderVars, killVars, auditVars
<1>10. CASE KillActivate
  BY <1>10, SameBook DEF KillActivate, orderVars, auditVars
<1>11. CASE KillReset
  BY <1>11, SameBook DEF KillReset, orderVars, auditVars
<1>12. CASE UNCHANGED vars
  BY <1>12, SameBook DEF vars, orderVars, killVars, auditVars
<1> QED
  BY <1>1, <1>2, <1>5, <1>6, <1>7, <1>8, <1>9, <1>10, <1>11, <1>12 DEF Next

(* The type invariant of the engine, for every value of the constants. *)
THEOREM TypeCorrect == Spec => []TypeOK
BY TypeInit, TypeStep, PTL DEF Spec

-----------------------------------------------------------------------------
(* The kill switch: what has reached the broker since the activation plus   *)
(* the attempts the submission in flight still has never exceeds one        *)
(* submission's attempts.                                                   *)

\* After an activation of the kill switch only the submission that was already
\* past its guard can still reach the broker, once per attempt it has left.
KillSwitchLeakBounded ==
  killActive => afterKill <= IF PassesTransient THEN MaxRetries + 1 ELSE 1

AttemptLimit == IF PassesTransient THEN MaxRetries + 1 ELSE 1

AttemptsAhead ==
  IF ~At(Loop, "place") THEN 0
  ELSE IF PassesTransient THEN MaxRetries + 1 - call[Loop].try ELSE 1

LeakInv == killActive => afterKill + AttemptsAhead <= AttemptLimit

(* No step of a poll or a cancellation leads its thread to a submission.    *)
LEMMA PollCall ==
  ASSUME NEW t \in Threads, Poll(t)
  PROVE  \E c : call' = [call EXCEPT ![t] = c] /\ c.step # "place"
<1>1. ASSUME NEW step, NEW o, NEW id, NEW s, NEW q, step # "place"
      PROVE  Answered(step, o, id, s, q).step # "place"
  BY <1>1 DEF Answered
<1>2. CASE \E o \in Orders : PollQuery(t, o)
  BY <1>1, <1>2 DEF PollQuery, Continue
<1>3. CASE PollApplies(t)
  <2> DEFINE s == Canonical(call[t].st)
             step == CASE s = "FILLED" -> "auditFull" [] s = "PARTIALLY_FILLED" -> "auditPart" [] OTHER -> "idle"
  <2>1. step # "place"
    OBVIOUS
  <2>2. Continue(t, Idle) \/ Continue(t, Begin(step, call[t].order))
    BY <1>3 DEF PollApplies, Return
  <2> HIDE DEF step, s
  <2> QED
    BY <1>1, <2>1, <2>2 DEF Continue, Begin, Idle
<1>4. CASE PollIgnored(t) \/ AuditFill(t)
  BY <1>1, <1>4 DEF PollIgnored, AuditFill, Return, Continue, Begin, Idle
<1> QED
  BY <1>2, <1>3, <1>4 DEF Poll

(* A cancellation never stands where an order is sent.                      *)
LEMMA CancelCall ==
  ASSUME NEW t \in Threads, Cancel(t)
  PROVE  \E c : call' = [call EXCEPT ![t] = c] /\ c.step # "place"
<1>1. ASSUME NEW step, NEW o, step # "place"
      PROVE  Begin(step, o).step # "place"
  BY <1>1 DEF Begin, Answered
<1>2. CASE \E o \in Orders : CancelBegins(t, o)
  BY <1>1, <1>2 DEF CancelBegins, Continue
<1>3. CASE CancelAccepted(t)
  BY <1>1, <1>3 DEF CancelAccepted, Continue
<1>4. CASE CancelFails(t) \/ RecordCancelled(t)
  BY <1>1, <1>4 DEF CancelFails, RecordCancelled, Return, Continue, Idle
<1> QED
  BY <1>2, <1>3, <1>4 DEF Cancel

(* Every step keeps the bound on requests after an activation.              *)
LEMMA LeakStep == TypeOK /\ LeakInv /\ [Next]_vars => LeakInv'
<1> SUFFICES ASSUME TypeOK, LeakInv, [Next]_vars PROVE LeakInv'
  OBVIOUS
<1>0. /\ afterKill \in Nat /\ call \in [Threads -> Call]
      /\ call[Loop].try \in 0..MaxRetries /\ killActive \in BOOLEAN
  BY DEF TypeOK, Call
<1>a. Begin("idle", CHOOSE o \in Orders : TRUE).step = "idle"
  BY DEF Begin, Answered
<1>1. CASE UNCHANGED <<killVars, call[Loop].step, call[Loop].try>>
  BY <1>1, <1>0 DEF LeakInv, AttemptsAhead, AttemptLimit, At, killVars
<1>2. ASSUME NEW o \in Orders, Create(o) \/ Submit(o) PROVE LeakInv'
  <2>1. CASE SubmitApproved(o)
    BY <2>1 DEF SubmitApproved, MaySubmit, LeakInv, killVars
  <2>2. CASE SubmitBreaches(o)
    BY <2>2, <1>0 DEF SubmitBreaches, LeakInv, AttemptsAhead, AttemptLimit, At, MaySubmit
  <2>3. CASE Create(o) \/ SubmitRefused(o)
    BY <2>3, <1>1 DEF Create, SubmitRefused
  <2> QED
    BY <1>2, <2>1, <2>2, <2>3 DEF Submit
<1>3. CASE Place
  <2>1. ASSUME killActive PROVE afterKill + AttemptsAhead <= AttemptLimit /\ At(Loop, "place")
    BY <1>3, <2>1 DEF LeakInv, Place, PlaceReturns, PlaceRejected, PlaceRetries, PlaceUnknown
  <2>2. killActive' = killActive /\ afterKill' \in Nat /\ (killActive => afterKill' <= afterKill + 1)
    BY <1>3, <1>0 DEF Place, PlaceReturns, PlaceRejected, PlaceRetries, PlaceUnknown, Arrives, Lost, killVars
  <2>3. CASE PlaceRetries
    <3>1. call'[Loop].step = "place" /\ call'[Loop].try = call[Loop].try + 1
      BY <2>3, <1>0 DEF PlaceRetries, Continue, At, Call
    <3> QED
      BY <2>1, <2>2, <2>3, <3>1, <1>0 DEF LeakInv, AttemptsAhead, AttemptLimit, At, PlaceRetries
  <2>4. CASE call'[Loop].step # "place"
    <3>1. killActive => AttemptsAhead \in Nat /\ AttemptsAhead >= 1
      BY <2>1, <1>0 DEF AttemptsAhead
    <3>2. AttemptsAhead' = 0
      BY <2>4 DEF AttemptsAhead, At
    <3>3. AttemptLimit' = AttemptLimit
      BY DEF AttemptLimit
    <3>4. AttemptLimit \in Nat
      BY DEF AttemptLimit
    <3>5. ASSUME NEW a \in Nat, NEW b \in Nat, NEW n \in Nat, NEW l \in Nat,
                 a + n <= l, n >= 1, b <= a + 1
          PROVE  b + 0 <= l
      BY <3>5
    <3>6. killActive => afterKill' + 0 <= AttemptLimit
      BY <2>1, <2>2, <3>1, <3>4, <3>5, <1>0
    <3> QED
      BY <2>2, <3>2, <3>3, <3>6 DEF LeakInv
  <2>5. PlaceRetries \/ call'[Loop].step # "place"
    BY <1>3, <1>0, <1>a
    DEF Place, PlaceReturns, PlaceRejected, PlaceUnknown, Return, Continue, Idle, Begin, Answered
  <2> QED
    BY <2>3, <2>4, <2>5
<1>4. CASE RecordSubmitted
  <2>1. ~At(Loop, "place") /\ ~At(Loop, "place")' /\ UNCHANGED killVars
    BY <1>4, <1>0, <1>a DEF RecordSubmitted, Return, Continue, Idle, At
  <2> QED
    BY <2>1 DEF LeakInv, AttemptsAhead, killVars, AttemptLimit
<1>5. ASSUME NEW t \in Threads, Poll(t) \/ Cancel(t) PROVE LeakInv'
  <2>1. call[t].step # "place" /\ UNCHANGED killVars
    BY <1>5 DEF Poll, PollQuery, PollApplies, PollIgnored, AuditFill, Cancel, CancelBegins,
                CancelAccepted, CancelFails, RecordCancelled, At
  <2>0. \E c : call' = [call EXCEPT ![t] = c] /\ c.step # "place"
    <3>1. CASE Poll(t)
      BY <3>1, PollCall
    <3>2. CASE Cancel(t)
      BY <3>2, CancelCall
    <3> QED
      BY <1>5, <3>1, <3>2
  <2>2. PICK c : call' = [call EXCEPT ![t] = c] /\ c.step # "place"
    BY <2>0
  <2>3. CASE t = Loop
    BY <2>1, <2>2, <2>3, <1>0 DEF LeakInv, AttemptsAhead, AttemptLimit, At, killVars
  <2>4. CASE t # Loop
    BY <2>1, <2>2, <2>4, <1>0, <1>1
  <2> QED
    BY <2>3, <2>4
<1>6. CASE Broker
  BY <1>6, <1>1 DEF Broker, BrokerMoves
<1>7. CASE KillActivate
  BY <1>7, <1>0 DEF KillActivate, LeakInv, AttemptsAhead, AttemptLimit, At
<1>8. CASE KillReset
  BY <1>8 DEF KillReset, LeakInv
<1>9. CASE UNCHANGED vars
  BY <1>9, <1>1 DEF vars
<1> QED
  BY <1>2, <1>3, <1>4, <1>5, <1>6, <1>7, <1>8, <1>9 DEF Next

(* After an activation at most the one submission already past its guard    *)
(* reaches the broker, once per attempt left to it.                         *)
THEOREM LeakBounded == Spec => []KillSwitchLeakBounded
<1>1. Init => LeakInv
  BY DEF Init, LeakInv
<1>2. TypeOK /\ LeakInv => KillSwitchLeakBounded
  BY DEF TypeOK, Call, LeakInv, AttemptsAhead, AttemptLimit, KillSwitchLeakBounded
<1> QED
  BY <1>1, <1>2, LeakStep, TypeCorrect, PTL DEF Spec

-----------------------------------------------------------------------------
(* The completed fill: which order a thread in a call may still change, and *)
(* who owes the ledger its event.                                           *)

\* Only the loop submits, and nothing else touches the order meanwhile.
Placing ==
  \A t \in Threads : call[t].step \in {"place", "record"} =>
    t = Loop /\ status[call[t].order] = "NEW"

\* Without a broker id there is nothing to poll or to cancel.
Unplaced ==
  /\ \A o \in Orders : status[o] \in {"ABSENT", "NEW", "UNKNOWN"} => brokerId[o] = 0
  /\ \A t \in Threads : call[t].step \in {"apply", "cancel", "cancelled"} => brokerId[call[t].order] # 0

Reported ==
  /\ \A o \in Orders : fullFills[o] = 0 \/ (fullFills[o] = 1 /\ status[o] = "FILLED")
  /\ \A o \in Orders : status[o] = "FILLED" =>
       fullFills[o] = 1 \/ \E t \in Threads : At(t, "auditFull") /\ call[t].order = o

OneWriter ==
  \A t \in Threads : At(t, "auditFull") =>
    /\ status[call[t].order] = "FILLED"
    /\ fullFills[call[t].order] = 0
    /\ \A u \in Threads : At(u, "auditFull") /\ call[u].order = call[t].order => u = t

FillInv == Placing /\ Unplaced /\ Reported /\ OneWriter

\* Thread t moves to c while order o moves to state s and carries the id b.
Moves(t, c, o, s, b) ==
  /\ call' = [call EXCEPT ![t] = c]
  /\ status' = [status EXCEPT ![o] = s]
  /\ brokerId' = [brokerId EXCEPT ![o] = b]
  /\ fullFills' = fullFills

(* A move that neither completes an order nor writes a completed fill keeps *)
(* the invariant if it respects the submission in flight and the ids.       *)
LEMMA MoveKeeps ==
  ASSUME TypeOK, FillInv, NEW t \in Threads, NEW c, NEW o \in Orders, NEW s, NEW b,
         Moves(t, c, o, s, b),
         call[t].step # "auditFull", c.step # "auditFull",
         s = "FILLED" <=> status[o] = "FILLED",
         s = status[o] \/ status[o] # "NEW" \/ t = Loop,
         s \in {"ABSENT", "NEW", "UNKNOWN"} => b = 0,
         b = brokerId[o] \/ brokerId[o] = 0,
         c.step \in {"apply", "cancel", "cancelled"} => c.order \in Orders /\ brokerId[c.order] # 0,
         c.step \in {"place", "record"} => t = Loop /\ c.order \in Orders /\ status'[c.order] = "NEW"
  PROVE  FillInv'
<1> USE DEF Moves
<1>0. /\ call \in [Threads -> Call] /\ status \in [Orders -> Slot]
      /\ brokerId \in [Orders -> 0..Len(book)] /\ fullFills \in [Orders -> Nat]
      /\ \A u \in Threads : call[u].order \in Orders
  BY DEF TypeOK, Call
<1>1. Placing'
  BY <1>0 DEF FillInv, Placing
<1>2. Unplaced'
  BY <1>0 DEF FillInv, Unplaced
<1>a. \A u \in Threads : At(u, "auditFull")' <=> At(u, "auditFull")
  BY <1>0 DEF At
<1>b. \A u \in Threads : At(u, "auditFull") => call'[u] = call[u]
  BY <1>0 DEF At
<1>c. \A p \in Orders : status'[p] = "FILLED" <=> status[p] = "FILLED"
  BY <1>0
<1>3. Reported'
  <2>1. \A p \in Orders : fullFills'[p] = 0 \/ (fullFills'[p] = 1 /\ status'[p] = "FILLED")
    BY <1>c DEF FillInv, Reported
  <2>2. \A p \in Orders : status'[p] = "FILLED" =>
          fullFills'[p] = 1 \/ \E u \in Threads : At(u, "auditFull")' /\ call'[u].order = p
    BY <1>a, <1>b, <1>c DEF FillInv, Reported
  <2> QED
    BY <2>1, <2>2 DEF Reported
<1>4. OneWriter'
  <2> SUFFICES ASSUME NEW u \in Threads, At(u, "auditFull")'
               PROVE  /\ status'[call'[u].order] = "FILLED"
                      /\ fullFills'[call'[u].order] = 0
                      /\ \A v \in Threads :
                           At(v, "auditFull")' /\ call'[v].order = call'[u].order => v = u
    BY DEF OneWriter
  <2> QED
    BY <1>0, <1>a, <1>b, <1>c DEF FillInv, OneWriter
<1> QED
  BY <1>1, <1>2, <1>3, <1>4 DEF FillInv

(* Nothing the invariant speaks of changes. *)
LEMMA StutterKeeps ==
  ASSUME FillInv, UNCHANGED <<status, brokerId, fullFills, call>>
  PROVE  FillInv'
BY DEF FillInv, Placing, Unplaced, Reported, OneWriter, At

(* Every step keeps the count of fill events.                               *)
LEMMA FillStep == TypeOK /\ FillInv /\ [Next]_vars => FillInv'
<1> SUFFICES ASSUME TypeOK, FillInv, [Next]_vars PROVE FillInv'
  OBVIOUS
<1>0. /\ call \in [Threads -> Call] /\ status \in [Orders -> Slot]
      /\ brokerId \in [Orders -> 0..Len(book)] /\ fullFills \in [Orders -> Nat]
      /\ \A t \in Threads : call[t].order \in Orders
  BY DEF TypeOK, Call
<1>a. ASSUME NEW step, NEW o, NEW id, NEW q, NEW st
      PROVE  Answered(step, o, id, st, q).step = step /\ Answered(step, o, id, st, q).order = o
  BY DEF Answered
<1>b. /\ Idle.step = "idle"
      /\ \A step, o : Begin(step, o).step = step /\ Begin(step, o).order = o
  BY <1>a DEF Idle, Begin
<1>c. \A o \in Orders : status[o] \in {"ABSENT", "NEW", "UNKNOWN"} => brokerId[o] = 0
  BY DEF FillInv, Unplaced
<1>1. ASSUME NEW o \in Orders, Create(o) PROVE FillInv'
  <2>1. Moves(Loop, call[Loop], o, "NEW", 0) /\ status[o] = "ABSENT" /\ At(Loop, "idle")
    BY <1>1, <1>0, <1>c DEF Create, MayRegister, Moves, auditVars
  <2> QED
    BY <2>1, <1>c, MoveKeeps DEF At
<1>2. ASSUME NEW o \in Orders, Submit(o) PROVE FillInv'
  <2>0. At(Loop, "idle") /\ status[o] = "NEW" /\ brokerId[o] = 0
    BY <1>2, <1>c DEF Submit, SubmitApproved, SubmitRefused, SubmitBreaches, MaySubmit
  <2>1. CASE SubmitApproved(o)
    <3>1. Moves(Loop, Begin("place", o), o, "NEW", 0) /\ status'[o] = "NEW"
      BY <2>0, <2>1, <1>0 DEF SubmitApproved, Moves, Continue, orderVars, auditVars
    <3> QED
      BY <2>0, <3>1, <1>b, MoveKeeps DEF At
  <2>2. CASE SubmitRefused(o)
    <3>1. Moves(Loop, call[Loop], o, "REJECTED", 0)
      BY <2>0, <2>2, <1>0 DEF SubmitRefused, Moves, auditVars
    <3> QED
      BY <2>0, <3>1, MoveKeeps DEF At
  <2>3. CASE SubmitBreaches(o)
    BY <2>3, StutterKeeps DEF SubmitBreaches, orderVars, auditVars
  <2> QED
    BY <1>2, <2>1, <2>2, <2>3 DEF Submit
<1>3. CASE Place
  <2> DEFINE o == call[Loop].order
  <2>0. o \in Orders /\ At(Loop, "place") /\ status[o] = "NEW" /\ brokerId[o] = 0
    BY <1>3, <1>0, <1>c
    DEF Place, PlaceReturns, PlaceRejected, PlaceRetries, PlaceUnknown, At, FillInv, Placing
  <2>1. CASE PlaceReturns
    <3>1. PICK st, id : Continue(Loop, Answered("record", o, id, st, 0))
      BY <2>1 DEF PlaceReturns
    <3>2. Moves(Loop, Answered("record", o, id, st, 0), o, "NEW", 0) /\ status'[o] = "NEW"
      BY <2>0, <2>1, <3>1, <1>0 DEF PlaceReturns, Moves, Continue, orderVars, auditVars
    <3> QED
      BY <2>0, <3>2, <1>a, MoveKeeps DEF At
  <2>2. CASE PlaceRejected
    <3>1. Moves(Loop, Idle, o, "REJECTED", 0)
      BY <2>0, <2>2, <1>0 DEF PlaceRejected, Moves, Return, Continue, auditVars
    <3> HIDE DEF o
    <3> QED
      BY <2>0, <3>1, <1>b, MoveKeeps DEF At
  <2>3. CASE PlaceRetries
    <3> DEFINE c == [call[Loop] EXCEPT !.try = @ + 1]
    <3>1. c.step = "place" /\ c.order = o
      BY <2>0, <1>0 DEF At, Call
    <3>2. Moves(Loop, c, o, "NEW", 0) /\ status'[o] = "NEW"
      BY <2>0, <2>3, <1>0 DEF PlaceRetries, Moves, Continue, orderVars, auditVars
    <3> HIDE DEF c
    <3> QED
      BY <2>0, <3>1, <3>2, MoveKeeps DEF At
  <2>4. CASE PlaceUnknown
    <3>1. Moves(Loop, Idle, o, "UNKNOWN", 0)
      BY <2>0, <2>4, <1>0 DEF PlaceUnknown, Moves, Return, Continue, auditVars
    <3> HIDE DEF o
    <3> QED
      BY <2>0, <3>1, <1>b, MoveKeeps DEF At
  <2> QED
    BY <1>3, <2>1, <2>2, <2>3, <2>4 DEF Place
<1>4. CASE RecordSubmitted
  <2> DEFINE o == call[Loop].order
  <2>0. o \in Orders /\ At(Loop, "record") /\ status[o] = "NEW" /\ brokerId[o] = 0
    BY <1>4, <1>0, <1>c DEF RecordSubmitted, At, FillInv, Placing
  <2>1. Moves(Loop, Idle, o, "SUBMITTED", call[Loop].id)
    BY <1>4 DEF RecordSubmitted, Moves, Return, Continue, auditVars
  <2>2. Idle.step \notin {"auditFull", "apply", "cancel", "cancelled", "place", "record"}
    BY <1>b
  <2>3. Loop \in Threads /\ call[Loop].step # "auditFull"
    BY <2>0 DEF At
  <2> HIDE DEF o
  <2> QED
    BY <2>0, <2>1, <2>2, <2>3, MoveKeeps
<1>5. ASSUME NEW t \in Threads, Poll(t) PROVE FillInv'
  <2> DEFINE o == call[t].order
  <2>0. o \in Orders
    BY <1>0
  <2>1. ASSUME NEW p \in Orders, PollQuery(t, p) PROVE FillInv'
    <3>1. PICK id, st, q : Continue(t, Answered("apply", p, id, st, q))
      BY <2>1 DEF PollQuery
    <3>2. Moves(t, Answered("apply", p, id, st, q), p, status[p], brokerId[p]) /\ brokerId[p] # 0
      BY <2>1, <3>1, <1>0 DEF PollQuery, Moves, Continue, orderVars, auditVars
    <3> QED
      BY <2>1, <3>2, <1>a, <1>c, MoveKeeps DEF At, PollQuery
  <2>2. CASE PollApplies(t)
    <3> DEFINE s == Canonical(call[t].st)
               step == CASE s = "FILLED" -> "auditFull" [] s = "PARTIALLY_FILLED" -> "auditPart" [] OTHER -> "idle"
    <3>0. /\ brokerId[o] # 0 /\ At(t, "apply") /\ s \in Polled \ {status[o]} /\ CanMove(status[o], s)
          /\ s \notin {"ABSENT", "NEW", "UNKNOWN"} /\ status[o] \notin {"NEW", "ABSENT", "UNKNOWN"}
      BY <2>2, <2>0 DEF PollApplies, Applies, Polled, FillInv, Unplaced, At
    <3>1. status' = [status EXCEPT ![o] = s] /\ brokerId' = brokerId /\ fullFills' = fullFills
      BY <2>2 DEF PollApplies, auditVars
    <3>2. CASE s = "FILLED"
      <4>1. call' = [call EXCEPT ![t] = Begin("auditFull", o)]
        BY <2>2, <3>2 DEF PollApplies, Return, Continue
      <4>2. status[o] # "FILLED" /\ fullFills[o] = 0 /\ \A u \in Threads : ~(At(u, "auditFull") /\ call[u].order = o)
        BY <3>0, <3>2, <2>0 DEF FillInv, Reported, OneWriter
      <4>3. Placing'
        BY <1>0, <1>b, <2>0, <3>0, <3>1, <4>1 DEF FillInv, Placing
      <4>4. Unplaced'
        BY <1>0, <1>b, <2>0, <3>1, <3>2, <4>1 DEF FillInv, Unplaced
      <4>5. Reported'
        <5>1. \A p \in Orders : p # o => status'[p] = status[p]
          BY <1>0, <3>1
        <5>2. status'[o] = "FILLED" /\ At(t, "auditFull")' /\ call'[t].order = o
          BY <1>0, <1>b, <2>0, <3>1, <3>2, <4>1 DEF At
        <5>3. \A u \in Threads : At(u, "auditFull") => At(u, "auditFull")' /\ call'[u] = call[u]
          BY <1>0, <3>0, <4>1 DEF At
        <5> QED
          BY <2>0, <3>1, <4>2, <5>1, <5>2, <5>3 DEF FillInv, Reported
      <4>6. OneWriter'
        BY <1>0, <1>b, <2>0, <3>1, <3>2, <4>1, <4>2 DEF FillInv, OneWriter, At
      <4> QED
        BY <4>3, <4>4, <4>5, <4>6 DEF FillInv
    <3>3. CASE s # "FILLED"
      <4>1. status[o] # "FILLED"
        BY <3>0, <3>3 DEF CanMove, ValidTransitions, OrderState, Terminal, Polled, Reconcilable
      <4>2. step # "auditFull" /\ step \in {"auditPart", "idle"}
        BY <3>3
      <4>3. PICK c \in {Idle, Begin(step, o)} : Continue(t, c)
        BY <2>2 DEF PollApplies, Return
      <4>4. Moves(t, c, o, s, brokerId[o])
        BY <3>1, <4>3, <1>0 DEF Moves, Continue
      <4>5. c.step \in {"auditPart", "idle"}
        BY <4>2, <4>3, <1>b
      <4> HIDE DEF step, s
      <4> QED
        BY <2>0, <3>0, <3>3, <4>1, <4>4, <4>5, MoveKeeps DEF At
    <3> QED
      BY <3>2, <3>3
  <2>3. CASE PollIgnored(t)
    <3>1. Moves(t, Idle, o, status[o], brokerId[o]) /\ At(t, "apply")
      BY <2>3, <1>0 DEF PollIgnored, Moves, Return, Continue, orderVars, auditVars
    <3> QED
      BY <2>0, <3>1, <1>b, <1>c, MoveKeeps DEF At
  <2>4. CASE AuditFill(t) /\ At(t, "auditPart")
    <3>1. Moves(t, Idle, o, status[o], brokerId[o])
      BY <2>4, <1>0 DEF AuditFill, Moves, Return, Continue, orderVars, At
    <3> QED
      BY <2>0, <2>4, <3>1, <1>b, <1>c, MoveKeeps DEF At
  <2>5. CASE AuditFill(t) /\ At(t, "auditFull")
    <3>1. /\ call' = [call EXCEPT ![t] = Idle] /\ status' = status /\ brokerId' = brokerId
          /\ fullFills' = [fullFills EXCEPT ![o] = @ + 1]
      BY <2>5 DEF AuditFill, Return, Continue, orderVars, At
    <3>2. /\ status[o] = "FILLED" /\ fullFills[o] = 0
          /\ \A u \in Threads : At(u, "auditFull") /\ call[u].order = o => u = t
      BY <2>5 DEF FillInv, OneWriter
    <3>3. Placing'
      BY <1>0, <1>b, <3>1 DEF FillInv, Placing
    <3>4. Unplaced'
      BY <1>0, <1>b, <3>1 DEF FillInv, Unplaced
    <3>5. Reported'
      BY <1>0, <1>b, <2>0, <2>5, <3>1, <3>2 DEF FillInv, Reported, At
    <3>6. OneWriter'
      BY <1>0, <1>b, <2>0, <3>1, <3>2 DEF FillInv, OneWriter, At
    <3> QED
      BY <3>3, <3>4, <3>5, <3>6 DEF FillInv
  <2> QED
    BY <1>5, <2>1, <2>2, <2>3, <2>4, <2>5 DEF Poll, AuditFill
<1>6. ASSUME NEW t \in Threads, Cancel(t) PROVE FillInv'
  <2> DEFINE o == call[t].order
  <2>0. o \in Orders
    BY <1>0
  <2>1. ASSUME NEW p \in Orders, CancelBegins(t, p) PROVE FillInv'
    <3>1. Moves(t, Begin("cancel", p), p, "CANCEL_PENDING", brokerId[p])
      BY <2>1, <1>0 DEF CancelBegins, Moves, Continue, auditVars
    <3> QED
      BY <2>1, <3>1, <1>b, MoveKeeps DEF At, CancelBegins, Cancellable
  <2>2. CASE CancelAccepted(t)
    <3>1. Moves(t, Begin("cancelled", o), o, status[o], brokerId[o]) /\ brokerId[o] # 0 /\ At(t, "cancel")
      BY <2>2, <1>0 DEF CancelAccepted, Moves, Continue, orderVars, auditVars, At, FillInv, Unplaced
    <3> QED
      BY <2>0, <3>1, <1>b, <1>c, MoveKeeps DEF At
  <2>3. CASE CancelFails(t)
    <3>1. Moves(t, Idle, o, status[o], brokerId[o]) /\ At(t, "cancel")
      BY <2>3, <1>0 DEF CancelFails, Moves, Return, Continue, orderVars, auditVars
    <3> QED
      BY <2>0, <3>1, <1>b, <1>c, MoveKeeps DEF At
  <2>4. CASE RecordCancelled(t)
    <3>0. At(t, "cancelled") /\ brokerId[o] # 0 /\ status[o] \notin {"ABSENT", "NEW", "UNKNOWN"}
      BY <2>4, <2>0 DEF RecordCancelled, At, FillInv, Unplaced
    <3>1. CASE CanMove(status[o], "CANCELLED")
      <4>1. status[o] # "FILLED"
        BY <3>1 DEF CanMove, ValidTransitions, OrderState, Terminal, Reconcilable
      <4>2. Moves(t, Idle, o, "CANCELLED", brokerId[o])
        BY <2>4, <3>1, <1>0 DEF RecordCancelled, Moves, Return, Continue, auditVars
      <4> QED
        BY <2>0, <3>0, <4>1, <4>2, <1>b, MoveKeeps DEF At
    <3>2. CASE ~CanMove(status[o], "CANCELLED")
      <4>1. Moves(t, Idle, o, status[o], brokerId[o])
        BY <2>4, <3>2, <1>0 DEF RecordCancelled, Moves, Return, Continue, auditVars
      <4> QED
        BY <2>0, <3>0, <4>1, <1>b, <1>c, MoveKeeps DEF At
    <3> QED
      BY <3>1, <3>2
  <2> QED
    BY <1>6, <2>1, <2>2, <2>3, <2>4 DEF Cancel
<1>7. CASE Broker \/ KillActivate \/ KillReset \/ UNCHANGED vars
  BY <1>7, StutterKeeps DEF Broker, BrokerMoves, KillActivate, KillReset, vars, orderVars, auditVars
<1> QED
  BY <1>1, <1>2, <1>3, <1>4, <1>5, <1>6, <1>7 DEF Next

(* No order is filled at the beginning.                                     *)
LEMMA FillInit == Init => FillInv
<1>1. Idle.step = "idle"
  BY DEF Idle, Begin, Answered
<1> QED
  BY <1>1 DEF Init, FillInv, Placing, Unplaced, Reported, OneWriter, At

(* The strengthening is an invariant of the engine.                         *)
THEOREM FillInvariant == Spec => []FillInv
BY FillInit, FillStep, TypeCorrect, PTL DEF Spec

(* A completed fill reaches the audit ledger exactly once, whatever polls    *)
(* of whatever threads interleave.                                          *)
THEOREM FillsReportedOnce == Spec => []FillReportedOnce
<1>1. TypeOK /\ FillInv => FillReportedOnce
  <2> SUFFICES ASSUME TypeOK, FillInv, NEW o \in Orders
               PROVE  LET writers == {t \in Threads : At(t, "auditFull") /\ call[t].order = o}
                      IN /\ status[o] = "FILLED" => fullFills[o] + Cardinality(writers) = 1
                         /\ status[o] # "FILLED" => fullFills[o] = 0 /\ writers = {}
    BY DEF FillReportedOnce
  <2> DEFINE writers == {t \in Threads : At(t, "auditFull") /\ call[t].order = o}
  <2>1. CASE \E t \in Threads : At(t, "auditFull") /\ call[t].order = o
    <3>1. PICK t \in Threads : At(t, "auditFull") /\ call[t].order = o
      BY <2>1
    <3>2. writers = {t} /\ status[o] = "FILLED" /\ fullFills[o] = 0
      BY <3>1 DEF FillInv, OneWriter
    <3>3. Cardinality({t}) = 1
      BY FS_Singleton
    <3>4. Cardinality(writers) = 1
      BY <3>2, <3>3
    <3> HIDE DEF writers
    <3>5. fullFills[o] + Cardinality(writers) = 1
      BY <3>2, <3>4
    <3> USE DEF writers
    <3> QED
      BY <3>2, <3>5
  <2>2. CASE ~\E t \in Threads : At(t, "auditFull") /\ call[t].order = o
    <3>1. writers = {} /\ Cardinality({}) = 0
      BY <2>2, FS_EmptySet
    <3>2. /\ status[o] = "FILLED" => fullFills[o] = 1
          /\ status[o] # "FILLED" => fullFills[o] = 0
      BY <2>2 DEF FillInv, Reported
    <3>4. Cardinality(writers) = 0
      BY <3>1
    <3> HIDE DEF writers
    <3>5. status[o] = "FILLED" => fullFills[o] + Cardinality(writers) = 1
      BY <3>2, <3>4
    <3> USE DEF writers
    <3> QED
      BY <3>1, <3>2, <3>5
  <2> QED
    BY <2>1, <2>2
<1> QED
  BY <1>1, TypeCorrect, FillInvariant, PTL

-----------------------------------------------------------------------------
(* The refinement: an engine step is a step of OrderLifecycle or leaves its  *)
(* variables alone.  The invariant is needed because the table also lets     *)
(* FILLED move to UNKNOWN and UNKNOWN move on: no engine call does that.     *)
LEMMA LifecycleStep ==
  TypeOK /\ FillInv /\ [Next]_vars => [Abstract!Next]_<<status, fullFills>>
<1> SUFFICES ASSUME TypeOK, FillInv, Next PROVE Abstract!Next \/ UNCHANGED <<status, fullFills>>
  BY DEF vars, orderVars, auditVars
<1>0. /\ status \in [Orders -> Slot] /\ fullFills \in [Orders -> Nat]
      /\ \A t \in Threads : call[t].order \in Orders
  BY DEF TypeOK, Call
<1> DEFINE Later == {"SUBMITTED", "ACKNOWLEDGED", "PARTIALLY_FILLED", "CANCEL_PENDING",
                     "FILLED", "CANCELLED", "REJECTED", "UNKNOWN"}
<1>1. ASSUME NEW o \in Orders, NEW s \in Later, status' = [status EXCEPT ![o] = s],
             status[o] # "ABSENT", Abstract!Stage(status[o]) < Abstract!Stage(s),
             UNCHANGED fullFills
      PROVE  Abstract!Next
  BY <1>1 DEF Abstract!Next, Abstract!Advance
<1>2. ASSUME NEW from, NEW s, CanMove(from, s),
             from \notin {"ABSENT", "NEW", "UNKNOWN"}, s \in Polled \cup {"CANCELLED"}
      PROVE  s \in Later /\ from # "ABSENT" /\ Abstract!Stage(from) < Abstract!Stage(s)
  BY <1>2 DEF CanMove, ValidTransitions, OrderState, Terminal, Reconcilable, Polled, Abstract!Stage
<1>3. ASSUME NEW o \in Orders, Create(o) \/ Submit(o)
      PROVE  Abstract!Next \/ UNCHANGED <<status, fullFills>>
  <2>1. CASE Create(o)
    <3>1. Abstract!Open = ActiveOrders(status)
      <4>1. \A s \in Slot : Abstract!Stage(s) \in 1..4 <=> s \in ActiveStates
        BY DEF Slot, OrderState, Terminal, ActiveStates, Abstract!Stage
      <4> QED
        BY <4>1, <1>0 DEF Abstract!Open, ActiveOrders
    <3>2. Abstract!Register(o)
      <4>1. Abstract!Cardinality(ActiveOrders(status)) = Cardinality(ActiveOrders(status))
        BY DEF Abstract!Cardinality, Cardinality
      <4> QED
        BY <2>1, <3>1, <4>1 DEF Create, MayRegister, auditVars, Abstract!Register
    <3> QED
      BY <3>2 DEF Abstract!Next
  <2>2. CASE SubmitRefused(o)
    <3>1. status[o] = "NEW" /\ Abstract!Stage("NEW") < Abstract!Stage("REJECTED")
      BY <2>2 DEF SubmitRefused, MaySubmit, Abstract!Stage
    <3> QED
      BY <2>2, <3>1, <1>1 DEF SubmitRefused, auditVars
  <2>3. CASE SubmitApproved(o) \/ SubmitBreaches(o)
    BY <2>3 DEF SubmitApproved, SubmitBreaches, orderVars, auditVars
  <2> QED
    BY <1>3, <2>1, <2>2, <2>3 DEF Submit
<1>4. CASE Place
  <2> DEFINE o == call[Loop].order
  <2>0. o \in Orders /\ status[o] = "NEW"
    BY <1>4, <1>0
    DEF Place, PlaceReturns, PlaceRejected, PlaceRetries, PlaceUnknown, At, FillInv, Placing
  <2>1. CASE PlaceRejected \/ PlaceUnknown
    <3>1. PICK s \in {"REJECTED", "UNKNOWN"} : status' = [status EXCEPT ![o] = s] /\ UNCHANGED fullFills
      BY <2>1 DEF PlaceRejected, PlaceUnknown, auditVars
    <3>2. Abstract!Stage(status[o]) < Abstract!Stage(s)
      BY <2>0 DEF Abstract!Stage
    <3> QED
      BY <2>0, <3>1, <3>2, <1>1
  <2>2. CASE PlaceReturns \/ PlaceRetries
    BY <2>2 DEF PlaceReturns, PlaceRetries, orderVars, auditVars
  <2> QED
    BY <1>4, <2>1, <2>2 DEF Place
<1>5. CASE RecordSubmitted
  <2>0. status[call[Loop].order] = "NEW"
    BY <1>5 DEF RecordSubmitted, At, FillInv, Placing
  <2>1. Abstract!Stage("NEW") < Abstract!Stage("SUBMITTED")
    BY DEF Abstract!Stage
  <2> QED
    BY <1>0, <1>1, <1>5, <2>0, <2>1 DEF RecordSubmitted, auditVars
<1>6. ASSUME NEW t \in Threads, Poll(t) \/ Cancel(t)
      PROVE  Abstract!Next \/ UNCHANGED <<status, fullFills>>
  <2> DEFINE o == call[t].order
  <2>0. o \in Orders
    BY <1>0
  <2>a. call[t].step \in {"apply", "cancelled"} => status[o] \notin {"ABSENT", "NEW", "UNKNOWN"}
    BY <2>0 DEF FillInv, Unplaced
  <2>1. CASE PollApplies(t)
    <3> DEFINE s == Canonical(call[t].st)
    <3>1. status' = [status EXCEPT ![o] = s] /\ UNCHANGED fullFills
      BY <2>1 DEF PollApplies, auditVars
    <3>2. CanMove(status[o], s) /\ s \in Polled /\ call[t].step = "apply"
      BY <2>1 DEF PollApplies, Applies, At
    <3> HIDE DEF s
    <3>3. s \in Later /\ status[o] # "ABSENT" /\ Abstract!Stage(status[o]) < Abstract!Stage(s)
      BY <2>a, <3>2, <1>2
    <3> HIDE DEF o
    <3> QED
      BY <2>0, <3>1, <3>3, <1>1
  <2>2. CASE AuditFill(t) /\ At(t, "auditFull")
    <3>1. status[o] = "FILLED" /\ fullFills[o] = 0
      BY <2>2 DEF FillInv, OneWriter
    <3>2. status' = status /\ fullFills' = [fullFills EXCEPT ![o] = 1]
      BY <2>2, <3>1 DEF AuditFill, orderVars, At
    <3> QED
      BY <2>0, <3>1, <3>2 DEF Abstract!Next, Abstract!ReportFill
  <2>3. CASE AuditFill(t) /\ At(t, "auditPart")
    BY <2>3 DEF AuditFill, orderVars, At
  <2>4. ASSUME NEW p \in Orders, CancelBegins(t, p) PROVE Abstract!Next \/ UNCHANGED <<status, fullFills>>
    <3>1. CASE status[p] = "CANCEL_PENDING"
      BY <2>4, <3>1, <1>0 DEF CancelBegins, auditVars
    <3>2. CASE status[p] # "CANCEL_PENDING"
      <4>1. status[p] # "ABSENT" /\ Abstract!Stage(status[p]) < Abstract!Stage("CANCEL_PENDING")
        BY <2>4, <3>2 DEF CancelBegins, Cancellable, Abstract!Stage
      <4> QED
        BY <2>4, <4>1, <1>1 DEF CancelBegins, auditVars
    <3> QED
      BY <3>1, <3>2
  <2>5. CASE RecordCancelled(t)
    BY <2>0, <2>a, <2>5, <1>1, <1>2 DEF RecordCancelled, At, auditVars
  <2>6. CASE (\E p \in Orders : PollQuery(t, p)) \/ PollIgnored(t) \/ CancelAccepted(t) \/ CancelFails(t)
    BY <2>6 DEF PollQuery, PollIgnored, CancelAccepted, CancelFails, orderVars, auditVars
  <2> QED
    BY <1>6, <2>1, <2>2, <2>3, <2>4, <2>5, <2>6 DEF Poll, Cancel, AuditFill
<1>7. CASE Broker \/ KillActivate \/ KillReset
  BY <1>7 DEF Broker, BrokerMoves, KillActivate, KillReset, orderVars, auditVars
<1> QED
  BY <1>3, <1>4, <1>5, <1>6, <1>7 DEF Next

(* The engine implements OrderLifecycle: its orders only advance and report  *)
(* a completed fill once.                                                    *)
THEOREM ImplementsLifecycle == Spec => Lifecycle
<1>1. Init => Abstract!Init
  BY DEF Init, Abstract!Init
<1>2. TypeOK /\ FillInv /\ [Next]_vars => [Abstract!Next]_(Abstract!vars)
  BY LifecycleStep DEF Abstract!vars
<1> QED
  BY <1>1, <1>2, TypeCorrect, FillInvariant, PTL DEF Spec, Lifecycle, Abstract!Spec

-----------------------------------------------------------------------------
(* What the broker's book may do in a step: an entry never changes its      *)
(* order, never gives back what has filled, and once it is not live it      *)
(* stays as it is.                                                          *)
Follows(new, old) ==
  /\ new.order = old.order
  /\ old.qty <= new.qty
  /\ old.st \notin Live => new = old

BookGrows ==
  /\ Len(book) <= Len(book')
  /\ \A i \in 1..Len(book) : Follows(book'[i], book[i])

\* An answer a poll holds is one the broker's order really gave, and has not
\* taken back.
HeldIsPast ==
  \A t \in Threads : At(t, "apply") =>
    LET b == book[brokerId[call[t].order]]
    IN /\ call[t].qty <= b.qty
       /\ call[t].st \in Dead => b.st = call[t].st /\ b.qty = call[t].qty

\* The broker has confirmed the cancellation, and made it final if it does so.
CancelledIsOver ==
  \A t \in Threads : At(t, "cancelled") =>
    /\ call[t].order \in confirmed
    /\ CancelIsFinal => book[brokerId[call[t].order]].st = "canceled"

\* Fills are learned from polls, and polls need an id.
FilledHasId == \A o \in Orders : status[o] = "FILLED" => brokerId[o] # 0

PastInv == HeldIsPast /\ FilledHasId /\ FillsAreReal

EndInv == CancelledIsOver /\ EndsAsTold

(* An entry of the book is a broker's order. *)
LEMMA EntryType ==
  ASSUME TypeOK
  PROVE  /\ Len(book) \in Nat
         /\ \A i \in 1..Len(book) :
              book[i] \in BrokerOrder /\ book[i].order \in Orders /\ book[i].qty \in 0..Qty
<1>1. \A i \in 1..Len(book) : book[i] \in BrokerOrder
  BY ElementOfSeq DEF TypeOK
<1>2. \A b \in BrokerOrder : b.order \in Orders /\ b.qty \in 0..Qty
  BY DEF BrokerOrder
<1> QED
  BY <1>1, <1>2, LenProperties DEF TypeOK

(* What happens to the book: nothing, one more order, or a live order moves *)
(* on.  In each case the entries only advance.                              *)
LEMMA BookMovesOn ==
  ASSUME TypeOK,
         \/ UNCHANGED book
         \/ \E s \in {"open", "unrecorded"} : Arrives(s)
         \/ \E i \in 1..Len(book), s \in BrokerStatus, q \in 0..Qty :
              Becomes(i, s, q) /\ book[i].st \in Live /\ book[i].qty <= q
  PROVE  BookGrows
<1>0. Len(book) \in Nat /\ \A i \in 1..Len(book) : book[i] \in BrokerOrder /\ book[i].qty \in 0..Qty
  BY EntryType
<1>1. CASE UNCHANGED book
  BY <1>0, <1>1 DEF BookGrows, Follows
<1>2. ASSUME NEW s \in {"open", "unrecorded"}, Arrives(s)
      PROVE  BookGrows
  <2>1. /\ Len(book') = Len(book) + 1
        /\ \A i \in 1..Len(book) : book'[i] = book[i]
        /\ book'[Len(book) + 1] = [order |-> call[Loop].order, st |-> s, qty |-> 0]
    BY <1>2, BookAppended DEF BrokerStatus, Live
  <2>2. \A i \in 1..Len(book) : Follows(book'[i], book[i])
    BY <1>0, <2>1 DEF Follows
  <2> QED
    BY <1>0, <2>1, <2>2 DEF BookGrows
<1>3. ASSUME NEW i \in 1..Len(book), NEW s \in BrokerStatus, NEW q \in 0..Qty,
             Becomes(i, s, q), book[i].st \in Live, book[i].qty <= q
      PROVE  BookGrows
  <2>1. /\ Len(book') = Len(book)
        /\ \A j \in 1..Len(book) :
             book'[j] = IF j = i THEN [order |-> book[i].order, st |-> s, qty |-> q] ELSE book[j]
    BY <1>3, BookUpdated
  <2>2. ASSUME NEW j \in 1..Len(book) PROVE Follows(book'[j], book[j])
    BY <1>0, <1>3, <2>1 DEF Follows
  <2> QED
    BY <1>0, <2>1, <2>2 DEF BookGrows
<1> QED
  BY <1>1, <1>2, <1>3

(* No action does anything else to it.                                      *)
LEMMA BookCases ==
  ASSUME TypeOK, FillInv, [Next]_vars
  PROVE  \/ UNCHANGED book
         \/ Place /\ \E s \in {"open", "unrecorded"} : Arrives(s)
         \/ \E i \in 1..Len(book), s \in BrokerStatus, q \in 0..Qty :
              Becomes(i, s, q) /\ book[i].st \in Live /\ book[i].qty <= q
<1>0. \A i \in 1..Len(book) : book[i] \in BrokerOrder /\ book[i].qty \in 0..Qty
  BY EntryType
<1>1. CASE Place
  BY <1>1 DEF Place, PlaceReturns, PlaceRejected, PlaceRetries, PlaceUnknown, Lost
<1>2. ASSUME NEW t \in Threads, CancelAccepted(t), ~UNCHANGED book
      PROVE  \E i \in 1..Len(book), s \in BrokerStatus, q \in 0..Qty :
               Becomes(i, s, q) /\ book[i].st \in Live /\ book[i].qty <= q
  <2> DEFINE i == brokerId[call[t].order]
  <2>1. Becomes(i, "canceled", book[i].qty) /\ book[i].st \in Live /\ At(t, "cancel")
    BY <1>2 DEF CancelAccepted, Confirms
  <2>2. i \in 1..Len(book)
    <3>1. i # 0 /\ call[t].order \in Orders
      BY <2>1 DEF At, FillInv, Unplaced, TypeOK, Call
    <3>2. i \in 0..Len(book) /\ Len(book) \in Nat
      BY <3>1, LenProperties DEF TypeOK
    <3> QED
      BY <3>1, <3>2
  <2>3. "canceled" \in BrokerStatus
    BY DEF BrokerStatus, Dead
  <2>4. book[i].qty \in 0..Qty /\ book[i].qty <= book[i].qty
    BY <1>0, <2>2
  <2> HIDE DEF i
  <2> QED
    BY <2>1, <2>2, <2>3, <2>4
<1>3. CASE Broker
  <2>1. PICK i \in 1..Len(book), s \in BrokerStatus, q \in 0..Qty : BrokerMoves(i, s, q)
    BY <1>3 DEF Broker
  <2>2. book[i].qty \in 0..Qty
    BY <1>0
  <2>3. book[i].qty <= q
    BY <2>1, <2>2 DEF BrokerMoves
  <2> QED
    BY <2>1, <2>3 DEF BrokerMoves
<1>4. ASSUME NEW t \in Threads, Poll(t) PROVE UNCHANGED book
  BY <1>4 DEF Poll, PollQuery, PollApplies, PollIgnored, AuditFill
<1>5. ASSUME NEW t \in Threads, Cancel(t), ~CancelAccepted(t) PROVE UNCHANGED book
  BY <1>5 DEF Cancel, CancelBegins, CancelFails, RecordCancelled
<1>6. ASSUME NEW o \in Orders, Create(o) \/ Submit(o) PROVE UNCHANGED book
  BY <1>6 DEF Create, Submit, SubmitApproved, SubmitRefused, SubmitBreaches
<1>7. CASE RecordSubmitted \/ KillActivate \/ KillReset \/ UNCHANGED vars
  BY <1>7 DEF RecordSubmitted, KillActivate, KillReset, vars
<1> QED
  BY <1>1, <1>2, <1>3, <1>4, <1>5, <1>6, <1>7 DEF Next, Cancel

(* Every step keeps the agreement of local and broker quantities.           *)
LEMMA BookStep ==
  TypeOK /\ FillInv /\ [Next]_vars => BookGrows
BY BookCases, BookMovesOn

(* An order that has an id keeps it.                                        *)
LEMMA IdsStay ==
  TypeOK /\ FillInv /\ [Next]_vars => \A o \in Orders : brokerId[o] # 0 => brokerId'[o] = brokerId[o]
<1> SUFFICES ASSUME TypeOK, FillInv, [Next]_vars, NEW o \in Orders, brokerId[o] # 0
             PROVE  brokerId'[o] = brokerId[o]
  OBVIOUS
<1>1. CASE RecordSubmitted
  <2>1. status[call[Loop].order] = "NEW" /\ call[Loop].order \in Orders
    BY <1>1 DEF RecordSubmitted, At, FillInv, Placing, TypeOK, Call
  <2>2. call[Loop].order # o
    BY <2>1 DEF FillInv, Unplaced
  <2> QED
    BY <1>1, <2>2 DEF RecordSubmitted, TypeOK
<1>2. ASSUME NEW p \in Orders, Create(p) \/ Submit(p) PROVE UNCHANGED brokerId
  BY <1>2 DEF Create, Submit, SubmitApproved, SubmitRefused, SubmitBreaches, orderVars
<1>3. CASE Place
  BY <1>3 DEF Place, PlaceReturns, PlaceRejected, PlaceRetries, PlaceUnknown, orderVars
<1>4. ASSUME NEW t \in Threads, Poll(t) \/ Cancel(t) PROVE UNCHANGED brokerId
  BY <1>4 DEF Poll, PollQuery, PollApplies, PollIgnored, AuditFill, Cancel, CancelBegins, CancelAccepted,
              CancelFails, RecordCancelled, orderVars
<1>5. CASE Broker \/ KillActivate \/ KillReset \/ UNCHANGED vars
  BY <1>5 DEF Broker, BrokerMoves, KillActivate, KillReset, vars, orderVars
<1> QED
  BY <1>1, <1>2, <1>3, <1>4, <1>5 DEF Next

(* How a thread comes to hold an answer, a confirmed cancellation, a        *)
(* submission or a returned id: it held it already, or the call that brings *)
(* it there took the step.                                                  *)
LEMMA Entering ==
  ASSUME TypeOK, [Next]_vars, NEW t \in Threads, call'[t] # call[t]
  PROVE  /\ At(t, "apply")' => \E o \in Orders : PollQuery(t, o)
         /\ At(t, "cancelled")' => CancelAccepted(t)
         /\ At(t, "place")' => (\E o \in Orders : SubmitApproved(o)) \/ PlaceRetries
         /\ At(t, "record")' => PlaceReturns
<1>0. call \in [Threads -> Call]
  BY DEF TypeOK
<1>a. \A step, o, id, s, q : Answered(step, o, id, s, q).step = step
  BY DEF Answered
<1>b. Idle.step = "idle" /\ \A step, o : Begin(step, o).step = step
  BY <1>a DEF Idle, Begin
<1>1. ASSUME NEW u \in Threads, NEW c, Continue(u, c)
      PROVE  u = t /\ call'[t] = c
  BY <1>0, <1>1 DEF Continue
<1>2. ASSUME NEW u \in Threads, Return(u)
      PROVE  u = t /\ At(t, "idle")'
  BY <1>1, <1>2, <1>b DEF Return, At
<1>c. ASSUME NEW o, PollQuery(t, o)
      PROVE  call'[t].step = "apply"
  BY <1>0, <1>a, <1>c DEF PollQuery, Continue
<1>d. CancelAccepted(t) => call'[t].step = "cancelled"
  BY <1>0, <1>b DEF CancelAccepted, Continue
<1>3. ASSUME NEW o \in Orders, Create(o) \/ Submit(o)
      PROVE  SubmitApproved(o)
  BY <1>3 DEF Create, Submit, SubmitRefused, SubmitBreaches
<1>4. ASSUME NEW o \in Orders, SubmitApproved(o) PROVE At(t, "place")'
  BY <1>1, <1>4, <1>b DEF SubmitApproved, At
<1>5. CASE Place
  <2>1. CASE PlaceReturns
    BY <2>1, <1>1, <1>a DEF PlaceReturns, At
  <2>2. CASE PlaceRejected \/ PlaceUnknown
    BY <2>2, <1>2 DEF PlaceRejected, PlaceUnknown, At
  <2>3. CASE PlaceRetries
    <3>1. call'[t] = [call[Loop] EXCEPT !.try = @ + 1]
      BY <2>3, <1>1 DEF PlaceRetries
    <3>2. call'[t].step = "place"
      BY <2>3, <3>1, <1>0 DEF PlaceRetries, At, Call
    <3> QED
      BY <2>3, <3>2 DEF At
  <2> QED
    BY <1>5, <2>1, <2>2, <2>3 DEF Place
<1>6. ASSUME NEW u \in Threads, Poll(u)
      PROVE  \/ u = t /\ \E o \in Orders : PollQuery(u, o)
             \/ call'[t].step \in {"idle", "auditFull", "auditPart"}
  <2>1. CASE \E o \in Orders : PollQuery(u, o)
    BY <2>1, <1>1 DEF PollQuery
  <2>2. CASE PollApplies(u)
    <3> DEFINE s == Canonical(call[u].st)
               step == CASE s = "FILLED" -> "auditFull" [] s = "PARTIALLY_FILLED" -> "auditPart" [] OTHER -> "idle"
    <3>1. step \in {"idle", "auditFull", "auditPart"}
      OBVIOUS
    <3>2. Return(u) \/ Continue(u, Begin(step, call[u].order))
      BY <2>2 DEF PollApplies
    <3> HIDE DEF step, s
    <3> QED
      BY <3>1, <3>2, <1>1, <1>2, <1>b DEF At
  <2>3. CASE PollIgnored(u) \/ AuditFill(u)
    BY <2>3, <1>2 DEF PollIgnored, AuditFill, At
  <2> QED
    BY <1>6, <2>1, <2>2, <2>3 DEF Poll
<1>7. ASSUME NEW u \in Threads, Cancel(u)
      PROVE  \/ u = t /\ CancelAccepted(u)
             \/ call'[t].step \in {"idle", "cancel"}
  <2>1. CASE \E o \in Orders : CancelBegins(u, o)
    BY <2>1, <1>1, <1>b DEF CancelBegins
  <2>2. CASE CancelAccepted(u)
    BY <2>2, <1>1 DEF CancelAccepted
  <2>3. CASE CancelFails(u) \/ RecordCancelled(u)
    BY <2>3, <1>2 DEF CancelFails, RecordCancelled, At
  <2> QED
    BY <1>7, <2>1, <2>2, <2>3 DEF Cancel
<1>8. CASE RecordSubmitted
  BY <1>8, <1>2 DEF RecordSubmitted, At
<1>9. CASE Broker \/ KillActivate \/ KillReset \/ UNCHANGED vars
  BY <1>9 DEF Broker, BrokerMoves, KillActivate, KillReset, vars
<1>10. CASE \E o \in Orders : Create(o) \/ Submit(o)
  BY <1>3, <1>4, <1>10 DEF At
<1>11. CASE \E u \in Threads : Poll(u)
  <2>1. (\E o \in Orders : PollQuery(t, o)) \/ call'[t].step \in {"idle", "auditFull", "auditPart"}
    BY <1>6, <1>11
  <2> QED
    BY <2>1, <1>c DEF At
<1>12. CASE \E u \in Threads : Cancel(u)
  <2>1. CancelAccepted(t) \/ call'[t].step \in {"idle", "cancel"}
    BY <1>7, <1>12
  <2> QED
    BY <2>1, <1>d DEF At
<1> QED
  BY <1>5, <1>8, <1>9, <1>10, <1>11, <1>12 DEF Next

(* Only an applied answer fills an order.                                    *)
LEMMA FillsByPoll ==
  ASSUME TypeOK, [Next]_vars, ~\E t \in Threads : PollApplies(t), NEW o \in Orders
  PROVE  filled'[o] = filled[o] /\ (status'[o] = "FILLED" => status[o] = "FILLED")
<1>0. status \in [Orders -> Slot]
  BY DEF TypeOK
<1>1. ASSUME NEW p, NEW s, status' = [status EXCEPT ![p] = s], s # "FILLED"
      PROVE  status'[o] = "FILLED" => status[o] = "FILLED"
  BY <1>0, <1>1
<1>2. ASSUME NEW p \in Orders, Create(p) \/ Submit(p)
      PROVE  filled' = filled /\ (status'[o] = "FILLED" => status[o] = "FILLED")
  BY <1>1, <1>2 DEF Create, Submit, SubmitApproved, SubmitRefused, SubmitBreaches, orderVars
<1>3. CASE Place
  BY <1>1, <1>3 DEF Place, PlaceReturns, PlaceRejected, PlaceRetries, PlaceUnknown, orderVars
<1>4. CASE RecordSubmitted
  BY <1>1, <1>4 DEF RecordSubmitted
<1>5. ASSUME NEW t \in Threads, Poll(t) PROVE filled' = filled /\ status' = status
  BY <1>5 DEF Poll, PollQuery, PollIgnored, AuditFill, orderVars
<1>6. ASSUME NEW t \in Threads, Cancel(t)
      PROVE  filled' = filled /\ (status'[o] = "FILLED" => status[o] = "FILLED")
  BY <1>1, <1>6 DEF Cancel, CancelBegins, CancelAccepted, CancelFails, RecordCancelled, orderVars
<1>7. CASE Broker \/ KillActivate \/ KillReset \/ UNCHANGED vars
  BY <1>7 DEF Broker, BrokerMoves, KillActivate, KillReset, vars, orderVars
<1> QED
  BY <1>2, <1>3, <1>4, <1>5, <1>6, <1>7 DEF Next

(* Every step keeps what is known of orders past their placement.           *)
LEMMA PastStep == TypeOK /\ FillInv /\ PastInv /\ [Next]_vars => PastInv'
<1> SUFFICES ASSUME TypeOK, FillInv, PastInv, [Next]_vars PROVE PastInv'
  OBVIOUS
<1>0. BookGrows
  BY BookStep DEF PastInv
<1>a. ASSUME NEW o \in Orders, brokerId[o] # 0
      PROVE  /\ brokerId'[o] = brokerId[o]
             /\ Follows(book'[brokerId[o]], book[brokerId[o]])
             /\ book[brokerId[o]].qty \in 0..Qty
             /\ book'[brokerId[o]].qty \in 0..Qty
  <2>1. brokerId[o] \in 1..Len(book)
    <3>1. brokerId[o] \in 0..Len(book)
      BY DEF TypeOK
    <3> QED
      BY <1>a, <3>1, EntryType
  <2>2. book' \in Seq(BrokerOrder) /\ brokerId[o] \in 1..Len(book')
    <3>1. book' \in Seq(BrokerOrder) /\ Len(book') \in Nat
      BY TypeStep, LenProperties DEF TypeOK
    <3> QED
      BY <2>1, <3>1, <1>0, EntryType DEF BookGrows
  <2>3. book'[brokerId[o]] \in BrokerOrder
    BY <2>2, ElementOfSeq
  <2> QED
    BY <1>a, <2>1, <2>3, <1>0, IdsStay, EntryType DEF BookGrows, BrokerOrder
<1>b. \A t \in Threads : call[t].order \in Orders /\ call[t].qty \in 0..Qty
  BY DEF TypeOK, Call
<1>1. HeldIsPast'
  <2> SUFFICES ASSUME NEW t \in Threads, At(t, "apply")'
               PROVE  LET b == book'[brokerId'[call'[t].order]]
                      IN /\ call'[t].qty <= b.qty
                         /\ call'[t].st \in Dead => b.st = call'[t].st /\ b.qty = call'[t].qty
    BY DEF HeldIsPast
  <2>1. CASE call'[t] = call[t]
    <3> DEFINE b == book[brokerId[call[t].order]]
               n == book'[brokerId'[call[t].order]]
    <3>1. At(t, "apply") /\ brokerId[call[t].order] # 0
      BY <2>1, <1>b DEF At, FillInv, Unplaced
    <3>2. call[t].qty <= b.qty /\ (call[t].st \in Dead => b.st = call[t].st /\ b.qty = call[t].qty)
      BY <3>1 DEF PastInv, HeldIsPast
    <3>3. Follows(n, b) /\ b.qty \in 0..Qty /\ n.qty \in 0..Qty
      BY <3>1, <1>a, <1>b
    <3> HIDE DEF b, n
    <3>4. call[t].qty <= n.qty /\ (call[t].st \in Dead => n.st = call[t].st /\ n.qty = call[t].qty)
      <4>1. CASE b.st \in Live
        BY <1>b, <3>2, <3>3, <4>1 DEF Follows, Live, Dead
      <4>2. CASE b.st \notin Live
        BY <3>2, <3>3, <4>2 DEF Follows
      <4> QED
        BY <4>1, <4>2
    <3> QED
      BY <2>1, <3>4 DEF n
  <2>2. CASE call'[t] # call[t]
    <3>1. PICK o \in Orders : PollQuery(t, o)
      BY <2>2, Entering
    <3> DEFINE b == book[brokerId[o]]
    <3>2. call'[t] = Answered("apply", o, brokerId[o], b.st, b.qty) /\ brokerId'[o] = brokerId[o] /\ book' = book
      BY <3>1 DEF PollQuery, Continue, TypeOK, orderVars
    <3>3. call'[t].order = o /\ call'[t].st = b.st /\ call'[t].qty = b.qty
      BY <3>2 DEF Answered
    <3>4. b.qty \in 0..Qty
      BY <3>1, <1>a DEF PollQuery
    <3> QED
      BY <3>2, <3>3, <3>4
  <2> QED
    BY <2>1, <2>2
<1>2. FilledHasId' /\ FillsAreReal'
  <2> SUFFICES ASSUME NEW o \in Orders
               PROVE  /\ status'[o] = "FILLED" => brokerId'[o] # 0
                      /\ filled'[o] > 0 => brokerId'[o] # 0 /\ filled'[o] <= book'[brokerId'[o]].qty
                      /\ status'[o] = "FILLED" =>
                           /\ book'[brokerId'[o]].st \in {"filled", "done_for_day"}
                           /\ filled'[o] = book'[brokerId'[o]].qty
    BY DEF FilledHasId, FillsAreReal
  <2> DEFINE b == book[brokerId[o]]
             n == book'[brokerId[o]]
  <2>0. /\ status \in [Orders -> Slot] /\ filled \in [Orders -> 0..Qty] /\ filled[o] \in 0..Qty
        /\ status[o] = "FILLED" => brokerId[o] # 0
        /\ filled[o] > 0 => brokerId[o] # 0 /\ filled[o] <= b.qty
        /\ status[o] = "FILLED" => b.st \in {"filled", "done_for_day"} /\ filled[o] = b.qty
    BY DEF TypeOK, PastInv, FilledHasId, FillsAreReal
  <2>1. CASE filled'[o] = filled[o] /\ (status'[o] = "FILLED" => status[o] = "FILLED")
    <3>1. CASE brokerId[o] = 0
      BY <2>0, <2>1, <3>1
    <3>2. CASE brokerId[o] # 0
      <4>1. /\ brokerId'[o] = brokerId[o] /\ Follows(n, b) /\ b.qty \in 0..Qty /\ n.qty \in 0..Qty
        BY <3>2, <1>a
      <4> HIDE DEF b, n
      <4>2. status'[o] = "FILLED" => n.st \in {"filled", "done_for_day"} /\ filled'[o] = n.qty
        BY <2>0, <2>1, <4>1 DEF Follows, Live
      <4>3. filled'[o] > 0 => filled'[o] <= n.qty
        BY <2>0, <2>1, <4>1 DEF Follows
      <4>4. n = book'[brokerId'[o]]
        BY <4>1 DEF n
      <4> QED
        BY <3>2, <4>1, <4>2, <4>3, <4>4
    <3> QED
      BY <3>1, <3>2
  <2>2. ASSUME NEW t \in Threads, PollApplies(t), call[t].order = o
        PROVE  /\ brokerId'[o] = brokerId[o] /\ brokerId[o] # 0 /\ book' = book
               /\ filled'[o] = filled[o] \/ filled'[o] <= b.qty
               /\ status'[o] = "FILLED" => b.st \in {"filled", "done_for_day"} /\ filled'[o] = b.qty
    <3> DEFINE s == Canonical(call[t].st)
    <3>1. brokerId' = brokerId /\ book' = book /\ At(t, "apply")
      BY <2>2 DEF PollApplies
    <3>2. brokerId[o] # 0
      BY <2>2, <3>1 DEF At, FillInv, Unplaced
    <3>3. call[t].qty <= b.qty /\ (call[t].st \in Dead => b.st = call[t].st /\ b.qty = call[t].qty)
      BY <2>2, <3>1 DEF PastInv, HeldIsPast
    <3>4. status'[o] = s
      BY <2>2, <2>0 DEF PollApplies
    <3>5. /\ s \in {"FILLED", "PARTIALLY_FILLED"} => filled'[o] = call[t].qty
          /\ s \notin {"FILLED", "PARTIALLY_FILLED"} => filled'[o] = filled[o]
      BY <2>2, <2>0 DEF PollApplies
    <3>6. s = "FILLED" => call[t].st \in {"filled", "done_for_day"}
      BY DEF Canonical
    <3> HIDE DEF s, b
    <3> QED
      BY <3>1, <3>2, <3>3, <3>4, <3>5, <3>6 DEF Dead
  <2>3. ASSUME NEW t \in Threads, PollApplies(t), call[t].order # o
        PROVE  filled'[o] = filled[o] /\ status'[o] = status[o]
    BY <2>3, <2>0 DEF PollApplies
  <2>4. CASE \E t \in Threads : PollApplies(t) /\ call[t].order = o
    BY <2>0, <2>2, <2>4
  <2> QED
    BY <2>1, <2>3, <2>4, FillsByPoll
<1> QED
  BY <1>0, <1>1, <1>2 DEF PastInv

(* No order is past its placement at the beginning.                         *)
LEMMA PastInit == Init => PastInv
<1> SUFFICES ASSUME Init PROVE PastInv
  OBVIOUS
<1>1. book = <<>> /\ Len(book) = 0
  BY EmptySeq DEF Init
<1>2. \A o \in Orders : status[o] = "ABSENT" /\ filled[o] = 0
  BY DEF Init
<1>3. \A t \in Threads : ~At(t, "apply")
  BY DEF Init, Idle, Begin, Answered, At
<1> QED
  BY <1>1, <1>2, <1>3 DEF PastInv, HeldIsPast, FilledHasId, FillsAreReal

(* Racing polls with old answers never run ahead of the broker.             *)
THEOREM RealFills == Spec => []FillsAreReal
<1>1. PastInv => FillsAreReal
  BY DEF PastInv
<1> QED
  BY <1>1, PastInit, PastStep, TypeCorrect, FillInvariant, PTL DEF Spec

(* What is known of orders past their placement always holds.               *)
LEMMA PastInvariant == Spec => []PastInv
BY PastInit, PastStep, TypeCorrect, FillInvariant, PTL DEF Spec

-----------------------------------------------------------------------------
(* The ends of orders. *)

(* Only an applied answer or a confirmed cancellation ends an order that    *)
(* has an id.                                                               *)
LEMMA EndsByAnswer ==
  ASSUME TypeOK, FillInv, [Next]_vars, ~\E t \in Threads : PollApplies(t) \/ RecordCancelled(t),
         NEW o \in Orders, status'[o] \in Terminal
  PROVE  brokerId'[o] = 0 \/ (brokerId'[o] = brokerId[o] /\ status'[o] = status[o])
<1>0. status \in [Orders -> Slot] /\ \A t \in Threads : call[t].order \in Orders
  BY DEF TypeOK, Call
<1>a. status[o] = "NEW" => brokerId[o] = 0
  BY DEF FillInv, Unplaced
<1>1. ASSUME NEW p \in Orders, Create(p) \/ Submit(p)
      PROVE  brokerId' = brokerId /\ (status'[o] = status[o] \/ status[o] = "NEW")
  BY <1>0, <1>1 DEF Create, Submit, SubmitApproved, SubmitRefused, SubmitBreaches, MaySubmit, orderVars, Terminal
<1>2. CASE Place
  <2>1. brokerId' = brokerId /\ status[call[Loop].order] = "NEW"
    BY <1>2 DEF Place, PlaceReturns, PlaceRejected, PlaceRetries, PlaceUnknown, orderVars, At, FillInv, Placing
  <2>2. status'[o] = status[o] \/ o = call[Loop].order
    BY <1>0, <1>2 DEF Place, PlaceReturns, PlaceRejected, PlaceRetries, PlaceUnknown, orderVars
  <2> QED
    BY <2>1, <2>2, <1>a
<1>3. CASE RecordSubmitted
  <2>1. o # call[Loop].order
    BY <1>0, <1>3 DEF RecordSubmitted, Terminal
  <2> QED
    BY <2>1, <1>3 DEF RecordSubmitted, TypeOK
<1>4. ASSUME NEW t \in Threads, Poll(t) PROVE UNCHANGED <<status, brokerId>>
  BY <1>4 DEF Poll, PollQuery, PollIgnored, AuditFill, orderVars
<1>5. ASSUME NEW t \in Threads, Cancel(t) PROVE brokerId' = brokerId /\ status'[o] = status[o]
  BY <1>0, <1>5 DEF Cancel, CancelBegins, CancelAccepted, CancelFails, orderVars, Terminal
<1>6. CASE Broker \/ KillActivate \/ KillReset \/ UNCHANGED vars
  BY <1>6 DEF Broker, BrokerMoves, KillActivate, KillReset, vars, orderVars
<1> QED
  BY <1>1, <1>2, <1>3, <1>4, <1>5, <1>6, <1>a DEF Next

\* What the platform's end s says of the broker's state st, if c tells that a
\* cancellation that need not be final was confirmed.
Told(s, st, c) ==
  /\ s = "CANCELLED" => st = "canceled" \/ c
  /\ s = "FILLED" => st \in {"filled", "done_for_day"}
  /\ s = "REJECTED" => st = "rejected"

Unsure(o) == ~CancelIsFinal /\ o \in confirmed

LEMMA EndsTold ==
  EndsAsTold <=> \A o \in Orders : brokerId[o] # 0 => Told(status[o], book[brokerId[o]].st, Unsure(o))
BY DEF EndsAsTold, Told, Unsure

(* A confirmation is never taken back.                                      *)
LEMMA ConfirmedStays == [Next]_vars => confirmed \subseteq confirmed'
<1> SUFFICES ASSUME [Next]_vars PROVE confirmed \subseteq confirmed'
  OBVIOUS
<1>1. CASE \E t \in Threads : CancelAccepted(t)
  BY <1>1 DEF CancelAccepted, Confirms
<1>2. CASE ~\E t \in Threads : CancelAccepted(t)
  BY <1>2 DEF Next, Create, Submit, SubmitApproved, SubmitRefused, SubmitBreaches, Place, PlaceReturns,
              PlaceRejected, PlaceRetries, PlaceUnknown, RecordSubmitted, Poll, PollQuery, PollApplies,
              PollIgnored, AuditFill, Cancel, CancelBegins, CancelFails, RecordCancelled, Broker,
              BrokerMoves, KillActivate, KillReset, vars, auditVars
<1> QED
  BY <1>1, <1>2

(* Every step keeps the agreement of ended orders with the broker.          *)
LEMMA EndStep == TypeOK /\ FillInv /\ PastInv /\ EndInv /\ [Next]_vars => EndInv'
<1> SUFFICES ASSUME TypeOK, FillInv, PastInv, CancelledIsOver, EndsAsTold, [Next]_vars
             PROVE  CancelledIsOver' /\ EndsAsTold'
  BY DEF EndInv
<1>0. /\ call \in [Threads -> Call] /\ status \in [Orders -> Slot] /\ BookGrows
      /\ \A t \in Threads : call[t].order \in Orders
  BY BookStep DEF TypeOK, Call, PastInv
<1>a. ASSUME NEW o \in Orders, brokerId[o] # 0
      PROVE  /\ brokerId'[o] = brokerId[o] /\ brokerId[o] \in 1..Len(book)
             /\ Follows(book'[brokerId[o]], book[brokerId[o]])
  <2>1. brokerId[o] \in 1..Len(book)
    <3>1. brokerId[o] \in 0..Len(book)
      BY DEF TypeOK
    <3> QED
      BY <1>a, <3>1, EntryType
  <2> QED
    BY <1>0, <1>a, <2>1, IdsStay DEF BookGrows
<1>1. CancelledIsOver'
  <2> SUFFICES ASSUME NEW t \in Threads, At(t, "cancelled")'
               PROVE  /\ call'[t].order \in confirmed'
                      /\ CancelIsFinal => book'[brokerId'[call'[t].order]].st = "canceled"
    BY DEF CancelledIsOver
  <2>1. CASE call'[t] = call[t]
    <3>1. /\ brokerId[call[t].order] # 0 /\ call[t].order \in confirmed
          /\ CancelIsFinal => book[brokerId[call[t].order]].st = "canceled"
      BY <2>1, <1>0 DEF At, FillInv, Unplaced, CancelledIsOver
    <3> QED
      BY <2>1, <3>1, <1>0, <1>a, ConfirmedStays DEF Follows, Live
  <2>2. CASE call'[t] # call[t]
    <3> DEFINE o == call[t].order
               i == brokerId[o]
    <3>1. CancelAccepted(t) /\ o \in Orders
      BY <2>2, <1>0, Entering
    <3>2. /\ CancelIsFinal => Becomes(i, "canceled", book[i].qty)
          /\ call'[t].order = o /\ i # 0 /\ brokerId'[o] = i /\ o \in confirmed'
      <4>1. i # 0
        BY <3>1 DEF CancelAccepted, At, FillInv, Unplaced
      <4> QED
        BY <3>1, <4>1, <1>0, <1>a DEF CancelAccepted, Confirms, Continue, Begin, Answered
    <3>3. i \in 1..Len(book) /\ book[i].qty \in 0..Qty /\ "canceled" \in BrokerStatus
      BY <3>1, <3>2, <1>a, EntryType DEF BrokerStatus, Dead
    <3> HIDE DEF i
    <3>4. ASSUME CancelIsFinal
          PROVE  book'[i] = [order |-> book[i].order, st |-> "canceled", qty |-> book[i].qty]
      <4> DEFINE q == book[i].qty
      <4>1. q \in 0..Qty /\ Becomes(i, "canceled", q)
        BY <3>2, <3>3, <3>4
      <4> HIDE DEF q
      <4>2. book'[i] = [order |-> book[i].order, st |-> "canceled", qty |-> q]
        BY <3>3, <4>1, BookUpdated
      <4> QED
        BY <4>2 DEF q
    <3> QED
      BY <3>2, <3>4
  <2> QED
    BY <2>1, <2>2
<1>2. ASSUME NEW o \in Orders, brokerId'[o] # 0
      PROVE  Told(status'[o], book'[brokerId'[o]].st, Unsure(o)')
  <2>0. Unsure(o) => Unsure(o)'
    BY ConfirmedStays DEF Unsure
  <2>1. CASE brokerId'[o] = brokerId[o] /\ status'[o] = status[o]
    <3>1. Told(status[o], book[brokerId[o]].st, Unsure(o)) /\ brokerId[o] # 0
      BY <1>2, <2>1, EndsTold
    <3>2. Follows(book'[brokerId[o]], book[brokerId[o]])
      BY <3>1, <1>a
    <3> QED
      BY <2>0, <2>1, <3>1, <3>2 DEF Told, Follows, Live
  <2>2. ASSUME NEW t \in Threads, PollApplies(t), call[t].order = o, status'[o] # status[o]
        PROVE  Told(status'[o], book'[brokerId'[o]].st, Unsure(o)')
    <3>1. brokerId' = brokerId /\ book' = book /\ At(t, "apply")
      BY <2>2 DEF PollApplies
    <3>2. call[t].st \in Dead => book[brokerId[o]].st = call[t].st
      BY <2>2, <3>1 DEF PastInv, HeldIsPast
    <3>3. status'[o] = Canonical(call[t].st)
      BY <2>2, <1>0 DEF PollApplies
    <3>4. /\ Canonical(call[t].st) = "REJECTED" => call[t].st = "rejected"
          /\ Canonical(call[t].st) = "CANCELLED" => call[t].st = "canceled"
          /\ Canonical(call[t].st) = "FILLED" => call[t].st \in {"filled", "done_for_day"}
      BY DEF Canonical
    <3> QED
      BY <3>1, <3>2, <3>3, <3>4 DEF Told, Dead
  <2>3. ASSUME NEW t \in Threads, RecordCancelled(t), call[t].order = o, status'[o] # status[o]
        PROVE  Told(status'[o], book'[brokerId'[o]].st, Unsure(o)')
    <3>1. /\ brokerId' = brokerId /\ book' = book /\ At(t, "cancelled") /\ status'[o] = "CANCELLED"
          /\ confirmed' = confirmed
      BY <2>3, <1>0 DEF RecordCancelled, auditVars
    <3>2. o \in confirmed /\ (CancelIsFinal => book[brokerId[o]].st = "canceled")
      BY <2>3, <3>1 DEF CancelledIsOver
    <3> QED
      BY <3>1, <3>2 DEF Told, Unsure
  <2>4. ASSUME NEW t \in Threads, PollApplies(t) \/ RecordCancelled(t), call[t].order # o
        PROVE  brokerId'[o] = brokerId[o] /\ status'[o] = status[o]
    BY <2>4, <1>0 DEF PollApplies, RecordCancelled
  <2>5. ASSUME NEW t \in Threads, PollApplies(t) \/ RecordCancelled(t)
        PROVE  brokerId'[o] = brokerId[o]
    BY <2>5 DEF PollApplies, RecordCancelled
  <2>6. CASE status'[o] \notin Terminal
    BY <2>6 DEF Told, Terminal
  <2> QED
    BY <1>2, <2>1, <2>2, <2>3, <2>4, <2>5, <2>6, EndsByAnswer
<1> QED
  BY <1>1, <1>2 DEF EndsAsTold, Told, Unsure

(* An order that has an id and has ended on the platform has ended as the    *)
(* broker said, for any number of threads that poll and cancel it.           *)
THEOREM EndsAgree == Spec => []EndsAsTold
<1>1. Init => EndInv
  <2>1. \A t \in Threads : Init => ~At(t, "cancelled")
    BY DEF Init, Idle, Begin, Answered, At
  <2>2. \A o \in Orders : Init => status[o] \notin Terminal
    BY DEF Init, Terminal
  <2> QED
    BY <2>1, <2>2 DEF EndInv, CancelledIsOver, EndsAsTold, Terminal
<1>2. EndInv => EndsAsTold
  BY DEF EndInv
<1> QED
  BY <1>1, <1>2, EndStep, TypeCorrect, FillInvariant, PastInvariant, PTL DEF Spec

(* A thread that holds an answer does nothing but apply it or leave it.     *)
LEMMA AnswerLeaves ==
  ASSUME TypeOK, [Next]_vars, NEW t \in Threads, At(t, "apply"), call'[t] # call[t]
  PROVE  PollApplies(t) \/ PollIgnored(t)
<1>0. call \in [Threads -> Call]
  BY DEF TypeOK
<1>1. ASSUME NEW u \in Threads, NEW c, Continue(u, c) PROVE u = t
  BY <1>0, <1>1 DEF Continue
<1>2. ASSUME NEW o \in Orders, Create(o) \/ Submit(o) PROVE FALSE
  BY <1>1, <1>2 DEF Create, Submit, SubmitApproved, SubmitRefused, SubmitBreaches, MaySubmit, At
<1>3. ~Place /\ ~RecordSubmitted
  BY <1>1 DEF Place, PlaceReturns, PlaceRejected, PlaceRetries, PlaceUnknown, RecordSubmitted, Return, At
<1>4. ASSUME NEW u \in Threads, Poll(u) PROVE PollApplies(t) \/ PollIgnored(t)
  <2>1. u = t
    BY <1>1, <1>4, PollCall DEF Continue
  <2> QED
    BY <1>4, <2>1 DEF Poll, PollQuery, AuditFill, At
<1>5. ASSUME NEW u \in Threads, Cancel(u) PROVE FALSE
  <2>1. u = t
    BY <1>1, <1>5, CancelCall DEF Continue
  <2> QED
    BY <1>5, <2>1 DEF Cancel, CancelBegins, CancelAccepted, CancelFails, RecordCancelled, At
<1>6. ~(Broker \/ KillActivate \/ KillReset \/ UNCHANGED vars)
  BY DEF Broker, BrokerMoves, KillActivate, KillReset, vars
<1> QED
  BY <1>2, <1>3, <1>4, <1>5, <1>6 DEF Next

(* The news of a fill or a cancellation leaves the order ended, for any     *)
(* number of threads: from every state of an order that has an id the table *)
(* leads to both ends, or the order has ended already.                      *)
THEOREM NewsKept == Spec => NewsIsKept
<1> DEFINE A == \A t \in Threads :
                  /\ At(t, "apply")
                  /\ call'[t] # call[t]
                  /\ Canonical(call[t].st) \in {"FILLED", "CANCELLED"}
                  => status'[call[t].order] \in Terminal
<1>1. ASSUME TypeOK, FillInv, [Next]_vars PROVE A
  <2> SUFFICES ASSUME NEW t \in Threads, At(t, "apply"), call'[t] # call[t],
                      Canonical(call[t].st) \in {"FILLED", "CANCELLED"}
               PROVE  status'[call[t].order] \in Terminal
    OBVIOUS
  <2> DEFINE o == call[t].order
             s == Canonical(call[t].st)
  <2>0. o \in Orders /\ status \in [Orders -> Slot]
    BY <1>1 DEF TypeOK, Call
  <2>1. status[o] \in Slot \ {"ABSENT", "NEW", "UNKNOWN"}
    BY <1>1, <2>0 DEF FillInv, Unplaced, At
  <2>2. CASE PollApplies(t)
    <3>1. status'[o] = s
      BY <2>0, <2>2 DEF PollApplies
    <3> QED
      BY <3>1 DEF Terminal
  <2>3. CASE PollIgnored(t)
    <3>1. status' = status /\ ~Applies(status[o], s)
      BY <2>3 DEF PollIgnored, orderVars
    <3>2. s \in {"FILLED", "CANCELLED"}
      OBVIOUS
    <3> HIDE DEF s
    <3>3. status[o] = s \/ ~CanMove(status[o], s)
      BY <3>1, <3>2 DEF Applies, Polled
    <3>4. status[o] \in Terminal
      BY <2>1, <3>2, <3>3 DEF CanMove, ValidTransitions, Slot, OrderState, Terminal
    <3> QED
      BY <3>1, <3>4
  <2> QED
    BY <1>1, <2>2, <2>3, AnswerLeaves
<1>2. TypeOK /\ FillInv /\ [Next]_vars => [A]_vars
  BY <1>1
<1> QED
  BY <1>2, TypeCorrect, FillInvariant, PTL DEF Spec, NewsIsKept

-----------------------------------------------------------------------------
(* One submission, its attempts, and the id that comes back. *)

Entries(o) == {i \in 1..Len(book) : book[i].order = o}

\* The attempts of an order's submission that are over.
Spent(o) ==
  IF At(Loop, "place") /\ call[Loop].order = o THEN call[Loop].try
  ELSE IF status[o] \in {"ABSENT", "NEW"} /\ ~(At(Loop, "record") /\ call[Loop].order = o) THEN 0
  ELSE AttemptLimit

OncePerAttempt == \A o \in Orders : Cardinality(Entries(o)) <= Spent(o)

\* Without retries there is one attempt.
OneAttempt == At(Loop, "place") /\ ~PassesTransient => call[Loop].try = 0

\* The id that place_order returned is that of the order it was called for.
ReturnedId ==
  At(Loop, "record") /\ call[Loop].id # 0 => book[call[Loop].id].order = call[Loop].order

PlaceInv == OncePerAttempt /\ OneAttempt /\ ReturnedId /\ IdsAgree

(* A step leaves an order's entries alone, or an attempt adds one.          *)
LEMMA EntriesStep ==
  ASSUME TypeOK, FillInv, [Next]_vars, NEW o \in Orders
  PROVE  /\ IsFiniteSet(Entries(o)) /\ Cardinality(Entries(o)) \in Nat
         /\ \/ Entries(o)' = Entries(o)
            \/ /\ Place /\ call[Loop].order = o
               /\ Cardinality(Entries(o)') = Cardinality(Entries(o)) + 1
<1>0. Len(book) \in Nat /\ \A i \in 1..Len(book) : book[i] \in BrokerOrder
  BY EntryType
<1>1. IsFiniteSet(Entries(o)) /\ Cardinality(Entries(o)) \in Nat
  <2>1. IsFiniteSet(1..Len(book))
    BY <1>0, FS_Interval
  <2>2. Entries(o) \in SUBSET (1..Len(book))
    BY DEF Entries
  <2> QED
    BY <2>1, <2>2, FS_Subset, FS_CardinalityType
<1>2. CASE UNCHANGED book
  BY <1>1, <1>2 DEF Entries
<1>3. ASSUME Place, NEW s \in {"open", "unrecorded"}, Arrives(s)
      PROVE  \/ Entries(o)' = Entries(o)
             \/ /\ Place /\ call[Loop].order = o
                /\ Cardinality(Entries(o)') = Cardinality(Entries(o)) + 1
  <2>1. /\ Len(book') = Len(book) + 1
        /\ \A i \in 1..Len(book) : book'[i] = book[i]
        /\ book'[Len(book) + 1].order = call[Loop].order
    <3>1. /\ Len(book') = Len(book) + 1
          /\ \A i \in 1..Len(book) : book'[i] = book[i]
          /\ book'[Len(book) + 1] = [order |-> call[Loop].order, st |-> s, qty |-> 0]
      BY <1>3, BookAppended DEF BrokerStatus, Live
    <3> QED
      BY <3>1
  <2>2. 1..Len(book') = (1..Len(book)) \cup {Len(book) + 1} /\ Len(book) + 1 \notin 1..Len(book)
    BY <1>0, <2>1
  <2>3. CASE call[Loop].order # o
    BY <2>1, <2>2, <2>3 DEF Entries
  <2>4. CASE call[Loop].order = o
    <3>1. Entries(o)' = Entries(o) \cup {Len(book) + 1} /\ Len(book) + 1 \notin Entries(o)
      BY <2>1, <2>2, <2>4 DEF Entries
    <3>2. Cardinality(Entries(o) \cup {Len(book) + 1}) = Cardinality(Entries(o)) + 1
      BY <1>1, <3>1, FS_AddElement
    <3> QED
      BY <1>3, <2>4, <3>1, <3>2
  <2> QED
    BY <2>3, <2>4
<1>4. ASSUME NEW i \in 1..Len(book), NEW s \in BrokerStatus, NEW q \in 0..Qty, Becomes(i, s, q)
      PROVE  Entries(o)' = Entries(o)
  <2>1. /\ Len(book') = Len(book)
        /\ \A j \in 1..Len(book) :
             book'[j] = IF j = i THEN [order |-> book[i].order, st |-> s, qty |-> q] ELSE book[j]
    BY <1>4, BookUpdated
  <2>2. ASSUME NEW j \in 1..Len(book) PROVE book'[j].order = book[j].order
    BY <2>1
  <2> QED
    BY <2>1, <2>2 DEF Entries
<1> QED
  BY <1>1, <1>2, <1>3, <1>4, BookCases

(* A submission leaves the broker's request, and its answer the record, in  *)
(* no other way.                                                            *)
LEMMA Leaving ==
  ASSUME TypeOK, FillInv, [Next]_vars, call'[Loop] # call[Loop]
  PROVE  (At(Loop, "place") => Place) /\ (At(Loop, "record") => RecordSubmitted)
<1>0. call \in [Threads -> Call]
  BY DEF TypeOK
<1>1. ASSUME NEW u \in Threads, NEW c, Continue(u, c) PROVE u = Loop
  BY <1>0, <1>1 DEF Continue
<1>2. ASSUME NEW o \in Orders, Create(o) \/ Submit(o) PROVE At(Loop, "idle")
  BY <1>2 DEF Create, Submit, SubmitApproved, SubmitRefused, SubmitBreaches, MaySubmit
<1>3. Place => At(Loop, "place")
  BY DEF Place, PlaceReturns, PlaceRejected, PlaceRetries, PlaceUnknown
<1>4. ASSUME NEW u \in Threads, Poll(u)
      PROVE  u = Loop /\ call[Loop].step \in {"idle", "apply", "auditFull", "auditPart"}
  <2>1. \E c : Continue(u, c)
    BY <1>4, PollCall DEF Continue
  <2>2. u = Loop
    BY <2>1, <1>1
  <2> QED
    BY <1>4, <2>2 DEF Poll, PollQuery, PollApplies, PollIgnored, AuditFill, At
<1>5. ASSUME NEW u \in Threads, Cancel(u)
      PROVE  u = Loop /\ call[Loop].step \in {"idle", "cancel", "cancelled"}
  <2>1. \E c : Continue(u, c)
    BY <1>5, CancelCall DEF Continue
  <2>2. u = Loop
    BY <2>1, <1>1
  <2> QED
    BY <1>5, <2>2 DEF Cancel, CancelBegins, CancelAccepted, CancelFails, RecordCancelled, At
<1>6. CASE Broker \/ KillActivate \/ KillReset \/ UNCHANGED vars
  BY <1>6 DEF Broker, BrokerMoves, KillActivate, KillReset, vars
<1> QED
  BY <1>2, <1>3, <1>4, <1>5, <1>6 DEF Next, At, RecordSubmitted

(* No step brings an order back to where it can be submitted.               *)
LEMMA SubmittedStays ==
  ASSUME TypeOK, FillInv, [Next]_vars, NEW o \in Orders, status'[o] \in {"ABSENT", "NEW"}
  PROVE  status[o] \in {"ABSENT", "NEW"}
<1>0. status \in [Orders -> Slot]
  BY DEF TypeOK
<1>1. ASSUME NEW p, NEW s, status' = [status EXCEPT ![p] = s], s \notin {"ABSENT", "NEW"}
      PROVE  status[o] \in {"ABSENT", "NEW"}
  BY <1>0, <1>1
<1>2. ASSUME NEW p \in Orders, Create(p) \/ Submit(p) PROVE status[o] \in {"ABSENT", "NEW"}
  BY <1>0, <1>1, <1>2
  DEF Create, Submit, SubmitApproved, SubmitRefused, SubmitBreaches, MayRegister, orderVars
<1>3. CASE Place
  BY <1>1, <1>3 DEF Place, PlaceReturns, PlaceRejected, PlaceRetries, PlaceUnknown, orderVars
<1>4. CASE RecordSubmitted
  BY <1>1, <1>4 DEF RecordSubmitted
<1>5. ASSUME NEW t \in Threads, Poll(t) PROVE status[o] \in {"ABSENT", "NEW"}
  BY <1>1, <1>5 DEF Poll, PollQuery, PollApplies, Applies, Polled, PollIgnored, AuditFill, orderVars
<1>6. ASSUME NEW t \in Threads, Cancel(t) PROVE status[o] \in {"ABSENT", "NEW"}
  BY <1>1, <1>6 DEF Cancel, CancelBegins, CancelAccepted, CancelFails, RecordCancelled, orderVars
<1>7. CASE Broker \/ KillActivate \/ KillReset \/ UNCHANGED vars
  BY <1>7 DEF Broker, BrokerMoves, KillActivate, KillReset, vars, orderVars
<1> QED
  BY <1>2, <1>3, <1>4, <1>5, <1>6, <1>7 DEF Next


(* Every step keeps the count of placements.                                *)
LEMMA PlaceStep == TypeOK /\ FillInv /\ PastInv /\ PlaceInv /\ [Next]_vars => PlaceInv'
<1> SUFFICES ASSUME TypeOK, FillInv, PastInv, PlaceInv, [Next]_vars PROVE PlaceInv'
  OBVIOUS
<1> USE DEF PlaceInv
<1>0. /\ call \in [Threads -> Call] /\ status \in [Orders -> Slot] /\ BookGrows
      /\ \A t \in Threads : call[t].order \in Orders /\ call[t].try \in 0..MaxRetries /\ call[t].id \in 0..Len(book)
      /\ Loop \in Threads /\ Len(book) \in Nat
  BY BookStep, EntryType DEF TypeOK, Call, PastInv
<1>a. AttemptLimit \in Nat /\ AttemptLimit' = AttemptLimit /\ AttemptLimit >= 1
  BY DEF AttemptLimit
<1>b. \A i \in 1..Len(book) : i \in 1..Len(book') /\ book'[i].order = book[i].order
  <2>1. Len(book') \in Nat
    BY TypeStep, LenProperties DEF TypeOK
  <2> QED
    BY <1>0, <2>1 DEF BookGrows, Follows
<1>c. ASSUME NEW o \in Orders, SubmitApproved(o)
      PROVE  /\ call'[Loop].step = "place" /\ call'[Loop].order = o /\ call'[Loop].try = 0
             /\ call[Loop].step = "idle" /\ status[o] = "NEW"
  BY <1>c, <1>0 DEF SubmitApproved, MaySubmit, Continue, Begin, Answered, At
<1>d. PlaceRetries => /\ call'[Loop].step = "place" /\ call'[Loop].order = call[Loop].order
                      /\ call'[Loop].try = call[Loop].try + 1
                      /\ call[Loop].step = "place" /\ call[Loop].try < MaxRetries /\ PassesTransient
  BY <1>0 DEF PlaceRetries, AttemptsLeft, Continue, At, Call
<1>1. OneAttempt'
  <2>1. CASE call'[Loop] = call[Loop]
    BY <2>1 DEF OneAttempt, At
  <2>2. CASE call'[Loop] # call[Loop]
    BY <2>2, <1>c, <1>d, Entering DEF OneAttempt, At
  <2> QED
    BY <2>1, <2>2
<1>2. ReturnedId'
  <2> SUFFICES ASSUME At(Loop, "record")', call'[Loop].id # 0
               PROVE  book'[call'[Loop].id].order = call'[Loop].order
    BY DEF ReturnedId
  <2>1. CASE call'[Loop] = call[Loop]
    <3>1. At(Loop, "record") /\ call[Loop].id \in 1..Len(book)
      BY <2>1, <1>0 DEF At
    <3> QED
      BY <2>1, <3>1, <1>b DEF ReturnedId
  <2>2. CASE call'[Loop] # call[Loop]
    <3>1. PlaceReturns
      BY <2>2, Entering
    <3>2. PICK s \in {"open", "unrecorded"}, id \in {0, NextId} :
            Arrives(s) /\ Continue(Loop, Answered("record", call[Loop].order, id, s, 0))
      BY <3>1 DEF PlaceReturns
    <3>3. call'[Loop].id = id /\ call'[Loop].order = call[Loop].order
      BY <3>2, <1>0 DEF Continue, Answered
    <3>4. book'[Len(book) + 1] = [order |-> call[Loop].order, st |-> s, qty |-> 0]
      BY <3>2, BookAppended DEF BrokerStatus, Live
    <3>5. book'[Len(book) + 1].order = call[Loop].order
      BY <3>4
    <3> QED
      BY <3>3, <3>5 DEF NextId
  <2> QED
    BY <2>1, <2>2
<1>3. IdsAgree'
  <2> SUFFICES ASSUME NEW o \in Orders, brokerId'[o] # 0
               PROVE  /\ {p[2] : p \in {q \in idMap' : q[1] = brokerId'[o]}} = {o}
                      /\ book'[brokerId'[o]].order = o
    BY DEF IdsAgree
  <2>0. brokerId \in [Orders -> 0..Len(book)] /\ idMap \subseteq (0..Len(book)) \X Orders
    BY DEF TypeOK
  <2>1. brokerId[o] # 0 => /\ brokerId[o] \in 1..Len(book) /\ book[brokerId[o]].order = o
                           /\ {p[2] : p \in {q \in idMap : q[1] = brokerId[o]}} = {o}
    <3>1. brokerId[o] # 0 => brokerId[o] \in 1..Len(book)
      BY <1>0, <2>0
    <3> QED
      BY <3>1 DEF IdsAgree
  <2>2. CASE RecordSubmitted
    <3> DEFINE p == call[Loop].order
               id == call[Loop].id
    <3>1. /\ brokerId' = [brokerId EXCEPT ![p] = id] /\ book' = book
          /\ idMap' = {q \in idMap : q[1] # id} \cup {<<id, p>>}
          /\ p \in Orders /\ id \in 0..Len(book) /\ At(Loop, "record")
      BY <2>2, <1>0 DEF RecordSubmitted
    <3>2. id # 0 => book[id].order = p
      BY <3>1 DEF ReturnedId
    <3> HIDE DEF p, id
    <3>3. CASE o = p
      <4>1. brokerId'[o] = id
        BY <2>0, <3>1, <3>3
      <4>2. {q \in idMap' : q[1] = id} = {<<id, p>>}
        BY <3>1
      <4>3. {q[2] : q \in {<<id, p>>}} = {p}
        OBVIOUS
      <4>4. {r[2] : r \in {q \in idMap' : q[1] = brokerId'[o]}} = {o}
        BY <3>3, <4>1, <4>2, <4>3
      <4> QED
        BY <3>1, <3>2, <3>3, <4>1, <4>4
    <3>4. CASE o # p
      <4>1. brokerId'[o] = brokerId[o] /\ brokerId[o] # id
        BY <2>0, <2>1, <3>1, <3>2, <3>4
      <4>2. {q \in idMap' : q[1] = brokerId[o]} = {q \in idMap : q[1] = brokerId[o]}
        BY <3>1, <4>1
      <4> QED
        BY <2>1, <3>1, <4>1, <4>2
    <3> QED
      BY <3>3, <3>4
  <2>3. CASE UNCHANGED <<brokerId, idMap>>
    BY <2>1, <2>3, <1>b
  <2>4. UNCHANGED <<brokerId, idMap>> \/ RecordSubmitted
    BY DEF Next, Create, Submit, SubmitApproved, SubmitRefused, SubmitBreaches, Place, PlaceReturns,
           PlaceRejected, PlaceRetries, PlaceUnknown, Poll, PollQuery, PollApplies, PollIgnored, AuditFill,
           Cancel, CancelBegins, CancelAccepted, CancelFails, RecordCancelled, Broker, BrokerMoves,
           KillActivate, KillReset, vars, orderVars
  <2> QED
    BY <2>2, <2>3, <2>4
<1>4. OncePerAttempt'
  <2> SUFFICES ASSUME NEW o \in Orders PROVE Cardinality(Entries(o)') <= Spent(o)'
    BY DEF OncePerAttempt
  <2> DEFINE n == Cardinality(Entries(o))
             m == Cardinality(Entries(o)')
  <2>0. /\ n \in Nat /\ n <= Spent(o)
        /\ m = n \/ (Place /\ call[Loop].order = o /\ m = n + 1)
    BY <1>0, EntriesStep DEF OncePerAttempt
  <2>a. Spent(o) \in Nat
    BY <1>0, <1>a DEF Spent
  <2>1. CASE Place /\ call[Loop].order = o
    <3>1. At(Loop, "place") /\ Spent(o) = call[Loop].try /\ m <= call[Loop].try + 1
      BY <2>0, <2>1, <1>0
      DEF Place, PlaceReturns, PlaceRejected, PlaceRetries, PlaceUnknown, Spent
    <3>2. call[Loop].try + 1 <= AttemptLimit
      BY <1>0, <3>1 DEF OneAttempt, AttemptLimit
    <3>3. CASE PlaceRetries
      <4>1. Spent(o)' = call[Loop].try + 1
        BY <2>1, <3>3, <1>d DEF Spent, At
      <4> QED
        BY <3>1, <4>1
    <3>4. CASE PlaceReturns
      <4>1. PICK s, id : Continue(Loop, Answered("record", call[Loop].order, id, s, 0))
        BY <3>4 DEF PlaceReturns
      <4>2. call'[Loop].step = "record" /\ call'[Loop].order = o
        BY <2>1, <4>1, <1>0 DEF Continue, Answered
      <4>3. Spent(o)' = AttemptLimit
        BY <4>2, <1>a DEF Spent, At
      <4> QED
        BY <3>1, <3>2, <4>3, <1>0, <1>a, <2>0
    <3>5. CASE PlaceRejected \/ PlaceUnknown
      <4>1. status'[o] \in {"REJECTED", "UNKNOWN"} /\ call'[Loop].step = "idle"
        BY <2>1, <3>5, <1>0 DEF PlaceRejected, PlaceUnknown, Return, Continue, Idle, Begin, Answered
      <4>2. Spent(o)' = AttemptLimit
        BY <4>1, <1>a DEF Spent, At
      <4> QED
        BY <3>1, <3>2, <4>2, <1>0, <1>a, <2>0
    <3> QED
      BY <2>1, <3>3, <3>4, <3>5 DEF Place
  <2>2. CASE ~(Place /\ call[Loop].order = o)
    <3>1. m = n
      BY <2>0, <2>2
    <3>2. Spent(o) <= Spent(o)'
      <4>1. status'[o] \in {"ABSENT", "NEW"} => status[o] \in {"ABSENT", "NEW"}
        BY SubmittedStays
      <4>2. CASE call'[Loop] = call[Loop]
        BY <4>1, <4>2, <1>0, <1>a DEF Spent, At
      <4>3. CASE call'[Loop] # call[Loop]
        <5>1. ~(At(Loop, "place") /\ call[Loop].order = o)
          BY <2>2, <4>3, Leaving
        <5>2. At(Loop, "place")' /\ call'[Loop].order = o => Spent(o) = 0 /\ call'[Loop].try \in Nat
          <6>1. ASSUME At(Loop, "place")', call'[Loop].order = o
                PROVE  SubmitApproved(o)
            BY <2>2, <4>3, <6>1, <1>c, <1>d, Entering DEF Place
          <6> QED
            BY <6>1, <1>c DEF Spent, At
        <5>3. At(Loop, "record") /\ call[Loop].order = o => status'[o] = "SUBMITTED"
          BY <4>3, <1>0, Leaving DEF RecordSubmitted
        <5> QED
          BY <4>1, <5>1, <5>2, <5>3, <1>a DEF Spent
      <4> QED
        BY <4>2, <4>3
    <3>3. Spent(o)' \in Nat
      <4>1. call'[Loop].try \in 0..MaxRetries
        BY TypeStep DEF TypeOK, Call
      <4> QED
        BY <1>a, <4>1 DEF Spent
    <3> QED
      BY <2>0, <2>a, <3>1, <3>2, <3>3
  <2> QED
    BY <2>1, <2>2
<1> QED
  BY <1>1, <1>2, <1>3, <1>4

(* Nothing is placed twice or under another order's name, whatever is lost   *)
(* or answered late.                                                         *)
THEOREM PlacedAtMostOnce == Spec => []PlacedOnce
<1>1. Init => PlaceInv
  <2> SUFFICES ASSUME Init PROVE PlaceInv
    OBVIOUS
  <2>1. Len(book) = 0 /\ ~At(Loop, "place") /\ ~At(Loop, "record")
    BY EmptySeq DEF Init, Idle, Begin, Answered, At
  <2>2. ASSUME NEW o \in Orders PROVE Cardinality(Entries(o)) <= Spent(o)
    <3>1. Entries(o) = {} /\ status[o] = "ABSENT"
      BY <2>1 DEF Entries, Init
    <3>2. Cardinality({}) = 0
      BY FS_EmptySet
    <3>3. Spent(o) = 0
      BY <2>1, <3>1 DEF Spent
    <3> QED
      BY <3>1, <3>2, <3>3
  <2>3. IdsAgree
    BY DEF Init, IdsAgree
  <2> QED
    BY <2>1, <2>2, <2>3 DEF PlaceInv, OncePerAttempt, OneAttempt, ReturnedId
<1>2. TypeOK /\ FillInv /\ PastInv /\ PlaceInv => PlacedOnce
  <2> SUFFICES ASSUME TypeOK, FillInv, PastInv, PlaceInv, NEW o \in Orders
               PROVE  Cardinality(Entries(o)) <= AttemptLimit
    BY DEF PlaceInv, PlacedOnce, Entries, AttemptLimit
  <2>1. Cardinality(Entries(o)) <= Spent(o)
    BY DEF PlaceInv, OncePerAttempt
  <2>2. call[Loop].try \in 0..MaxRetries
    BY DEF TypeOK, Call
  <2>3. Spent(o) \in Nat /\ AttemptLimit \in Nat /\ Spent(o) <= AttemptLimit
    BY <2>2 DEF Spent, AttemptLimit, PlaceInv, OneAttempt
  <2>4. Cardinality(Entries(o)) \in Nat
    <3>1. Entries(o) \in SUBSET (1..Len(book)) /\ IsFiniteSet(1..Len(book))
      BY EntryType, FS_Interval DEF Entries
    <3> QED
      BY <3>1, FS_Subset, FS_CardinalityType
  <2> QED
    BY <2>1, <2>3, <2>4
<1> QED
  BY <1>1, <1>2, PlaceStep, TypeCorrect, FillInvariant, PastInvariant, PTL DEF Spec

-----------------------------------------------------------------------------
(* The order budget. *)

(* No step but a registration brings an order among the active ones: the    *)
(* table would let UNKNOWN orders back in, but without an id none is polled. *)
LEMMA NoneReturns ==
  ASSUME TypeOK, FillInv, [Next]_vars, NEW o \in Orders, ~Create(o), status'[o] \in ActiveStates
  PROVE  status[o] \in ActiveStates
<1>0. status \in [Orders -> Slot] /\ \A t \in Threads : call[t].order \in Orders
  BY DEF TypeOK, Call
<1>1. ASSUME NEW p, NEW s, status' = [status EXCEPT ![p] = s],
             p = o => s \notin ActiveStates \/ status[o] \in ActiveStates
      PROVE  status[o] \in ActiveStates
  BY <1>0, <1>1
<1>2. ASSUME NEW p \in Orders, Create(p) \/ Submit(p) PROVE status[o] \in ActiveStates
  BY <1>0, <1>1, <1>2
  DEF Create, Submit, SubmitApproved, SubmitRefused, SubmitBreaches, orderVars, ActiveStates
<1>3. CASE Place
  BY <1>1, <1>3
  DEF Place, PlaceReturns, PlaceRejected, PlaceRetries, PlaceUnknown, orderVars, ActiveStates
<1>4. CASE RecordSubmitted
  <2>1. status[call[Loop].order] = "NEW"
    BY <1>4 DEF RecordSubmitted, At, FillInv, Placing
  <2> QED
    BY <2>1, <1>1, <1>4 DEF RecordSubmitted, ActiveStates
<1>5. ASSUME NEW t \in Threads, Poll(t) PROVE status[o] \in ActiveStates
  <2>1. CASE PollApplies(t)
    <3> DEFINE p == call[t].order
               s == Canonical(call[t].st)
    <3>1. status[p] \notin {"ABSENT", "NEW", "UNKNOWN"}
      BY <2>1, <1>0 DEF PollApplies, At, FillInv, Unplaced
    <3>2. status' = [status EXCEPT ![p] = s] /\ s \in Polled /\ CanMove(status[p], s)
      BY <2>1 DEF PollApplies, Applies
    <3>3. s \notin ActiveStates \/ status[p] \in ActiveStates
      BY <3>1, <3>2
      DEF CanMove, ValidTransitions, OrderState, Terminal, Reconcilable, Polled, ActiveStates
    <3> HIDE DEF s, p
    <3> QED
      BY <3>2, <3>3, <1>1
  <2>2. CASE ~PollApplies(t)
    BY <1>5, <2>2 DEF Poll, PollQuery, PollIgnored, AuditFill, orderVars
  <2> QED
    BY <2>1, <2>2
<1>6. ASSUME NEW t \in Threads, Cancel(t) PROVE status[o] \in ActiveStates
  BY <1>1, <1>6
  DEF Cancel, CancelBegins, CancelAccepted, CancelFails, RecordCancelled, orderVars, ActiveStates
<1>7. CASE Broker \/ KillActivate \/ KillReset \/ UNCHANGED vars
  BY <1>7 DEF Broker, BrokerMoves, KillActivate, KillReset, vars, orderVars
<1> QED
  BY <1>2, <1>3, <1>4, <1>5, <1>6, <1>7 DEF Next

\* With a limit, the active orders are finitely many.
BudgetInv ==
  MaxOrders > 0 => IsFiniteSet(ActiveOrders(status)) /\ Cardinality(ActiveOrders(status)) <= MaxOrders

(* Every step keeps the count of active orders.                             *)
LEMMA BudgetStep == TypeOK /\ FillInv /\ BudgetInv /\ [Next]_vars => BudgetInv'
<1> SUFFICES ASSUME TypeOK, FillInv, BudgetInv, [Next]_vars, MaxOrders > 0
             PROVE  IsFiniteSet(ActiveOrders(status')) /\ Cardinality(ActiveOrders(status')) <= MaxOrders
  BY DEF BudgetInv
<1> DEFINE old == ActiveOrders(status)
           new == ActiveOrders(status')
<1>0. /\ IsFiniteSet(old) /\ Cardinality(old) \in Nat /\ Cardinality(old) <= MaxOrders
      /\ status \in [Orders -> Slot] /\ status' \in [Orders -> Slot] /\ MaxOrders \in Nat
  BY FS_CardinalityType, TypeStep DEF BudgetInv, TypeOK
<1>1. CASE \E o \in Orders : Create(o)
  <2>1. PICK o \in Orders : Create(o)
    BY <1>1
  <2>2. Cardinality(old) < MaxOrders
    BY <2>1 DEF Create, MayRegister
  <2>3. new \subseteq old \cup {o}
    BY <1>0, <2>1 DEF Create, ActiveOrders
  <2>4. IsFiniteSet(old \cup {o}) /\ Cardinality(old \cup {o}) <= Cardinality(old) + 1
    <3> HIDE DEF old
    <3>1. /\ IsFiniteSet(old \cup {o})
          /\ Cardinality(old \cup {o}) = IF o \in old THEN Cardinality(old) ELSE Cardinality(old) + 1
      BY <1>0, FS_AddElement
    <3> QED
      BY <1>0, <3>1
  <2> HIDE DEF old, new
  <2>5. /\ IsFiniteSet(new) /\ Cardinality(new) <= Cardinality(old \cup {o})
        /\ Cardinality(new) \in Nat /\ Cardinality(old \cup {o}) \in Nat
    BY <2>3, <2>4, FS_Subset, FS_CardinalityType
  <2>6. Cardinality(new) <= MaxOrders
    BY <1>0, <2>2, <2>4, <2>5
  <2> QED
    BY <2>5, <2>6 DEF new
<1>2. CASE ~\E o \in Orders : Create(o)
  <2>1. new \in SUBSET old
    BY <1>0, <1>2, NoneReturns DEF ActiveOrders
  <2> HIDE DEF old, new
  <2>2. IsFiniteSet(new) /\ Cardinality(new) <= Cardinality(old)
    BY <1>0, <2>1, FS_Subset
  <2>3. Cardinality(new) \in Nat
    BY <2>2, FS_CardinalityType
  <2>4. Cardinality(new) <= MaxOrders
    BY <1>0, <2>2, <2>3
  <2> QED
    BY <2>2, <2>4 DEF new
<1> QED
  BY <1>1, <1>2

(* max_orders holds at every moment: no later step of submit, poll or       *)
(* cancel brings an order back among the active ones.                       *)
THEOREM BudgetHolds == Spec => []ActiveBudget
<1>1. Init => BudgetInv
  <2> SUFFICES ASSUME Init PROVE BudgetInv
    OBVIOUS
  <2>1. ActiveOrders(status) = {}
    BY DEF Init, ActiveOrders, ActiveStates
  <2>2. IsFiniteSet({}) /\ Cardinality({}) = 0
    BY FS_EmptySet
  <2> QED
    BY <2>1, <2>2 DEF BudgetInv
<1>2. BudgetInv => ActiveBudget
  BY DEF BudgetInv, ActiveBudget
<1> QED
  BY <1>1, <1>2, BudgetStep, TypeCorrect, FillInvariant, PTL DEF Spec

=============================================================================
