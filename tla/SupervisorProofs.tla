-------------------------- MODULE SupervisorProofs --------------------------
(***************************************************************************)
(* What the state of the supervisor says of its loops, for any number of   *)
(* console requests and of starts: RUNNING and PAUSED are never said of a  *)
(* loop that is over, and a loop that is PAUSED begins no bar.             *)
(***************************************************************************)
EXTENDS Supervisor, TLAPS

\* What a start leaves: one loop and one thread more, and the old ones.
LEMMA LaunchShape ==
  ASSUME TypeOK, Launch
  PROVE  /\ Len(loops') = Len(loops) + 1 /\ Len(threads') = Len(threads) + 1
         /\ loops' \in Seq(LoopObject)
         /\ \A i \in 1..Len(threads) : threads'[i] = threads[i]
         /\ threads'[Len(threads) + 1] = [phase |-> "launched", loop |-> 0]
         /\ state' \in {"RUNNING", "ERROR"}
<1>1. [stop |-> FALSE, pause |-> FALSE] \in LoopObject
  BY DEF LoopObject
<1>2. [phase |-> "launched", loop |-> 0] \in Thread
  BY DEF Thread, Phases, TypeOK
<1>3. loops \in Seq(LoopObject) /\ threads \in Seq(Thread)
  BY DEF TypeOK
<1>4. /\ loops' = Append(loops, [stop |-> FALSE, pause |-> FALSE])
      /\ threads' = Append(threads, [phase |-> "launched", loop |-> 0])
      /\ state' \in {"RUNNING", "ERROR"}
  BY DEF Launch
<1>5. loops' \in Seq(LoopObject) /\ Len(loops') = Len(loops) + 1
  BY <1>1, <1>3, <1>4
<1>6. /\ Len(threads') = Len(threads) + 1
      /\ \A i \in 1..Len(threads) : threads'[i] = threads[i]
      /\ threads'[Len(threads) + 1] = [phase |-> "launched", loop |-> 0]
  BY <1>2, <1>3, <1>4
<1> QED BY <1>4, <1>5, <1>6

\* What a step of a loop thread leaves: the phase of one thread.
LEMMA MovesShape ==
  ASSUME TypeOK, NEW i \in 1..Len(threads), NEW phase \in Phases, Moves(i, phase)
  PROVE  /\ threads' \in Seq(Thread) /\ Len(threads') = Len(threads)
         /\ \A j \in 1..Len(threads) :
              threads'[j] = IF j = i THEN [phase |-> phase, loop |-> threads[i].loop] ELSE threads[j]
<1>1. threads \in Seq(Thread) /\ threads[i] \in Thread
  BY DEF TypeOK
<1>2. [phase |-> phase, loop |-> threads[i].loop] \in Thread
  BY <1>1 DEF Thread
<1>3. threads' = [threads EXCEPT ![i] = [phase |-> phase, loop |-> threads[i].loop]]
  BY DEF Moves
<1> QED BY <1>1, <1>2, <1>3 DEF Moves

-----------------------------------------------------------------------------
(* Types *)

\* The conjuncts of TypeOK on the requests, after Goes.
LEMMA GoesTypes ==
  ASSUME TypeOK, NEW c \in Callers, NEW r \in Request, Goes(c, r), UNCHANGED threads
  PROVE  caller' \in [Callers -> Request']
<1>1. caller' \in [Callers -> Request]
  BY DEF TypeOK, Goes
<1>2. Request' = Request
  BY DEF Request
<1> QED BY <1>1, <1>2

LEMMA LaunchTypes ==
  ASSUME TypeOK, Launch, UNCHANGED caller \/ \E c \in Callers : Goes(c, NoRequest)
  PROVE  TypeOK'
<1>1. Len(loops) \in Nat /\ Len(threads) = Len(loops) /\ threads \in Seq(Thread)
  BY DEF TypeOK
<1>2. state' \in States
  BY LaunchShape DEF States
<1>3. Thread \subseteq Thread'
  BY <1>1, LaunchShape DEF Thread
<1>4. [phase |-> "launched", loop |-> 0] \in Thread'
  BY <1>1, LaunchShape DEF Thread, Phases
<1>5. threads' \in Seq(Thread')
  <2>1. threads \in Seq(Thread')
    BY <1>1, <1>3
  <2>2. threads' = Append(threads, [phase |-> "launched", loop |-> 0])
    BY DEF Launch
  <2> QED BY <1>4, <2>1, <2>2
<1>6. \A i \in 1..Len(threads') : threads'[i].phase # "launched" => threads'[i].loop # 0
  BY <1>1, LaunchShape DEF TypeOK
<1>7. caller' \in [Callers -> Request']
  <2>1. Request \subseteq Request' /\ NoRequest \in Request'
    BY <1>1, LaunchShape DEF Request, NoRequest, CallSteps
  <2>2. caller \in [Callers -> Request']
    BY <2>1 DEF TypeOK
  <2> QED BY <2>1, <2>2 DEF Goes
<1> QED BY <1>1, <1>2, <1>5, <1>6, <1>7, LaunchShape DEF TypeOK

\* An event of the current loop is set or cleared.
LEMMA EventTypes ==
  ASSUME TypeOK, NEW l \in LoopObject, loops # <<>>, loops' = [loops EXCEPT ![cur] = l]
  PROVE  loops' \in Seq(LoopObject) /\ Len(loops') = Len(loops) /\ cur \in 1..Len(loops) /\ loops'[cur] = l
<1>1. loops \in Seq(LoopObject) /\ cur \in 1..Len(loops)
  BY DEF TypeOK, cur
<1> QED BY <1>1

LEMMA LoopStepTypes ==
  ASSUME TypeOK, NEW i \in 1..Len(threads), LoopStep(i)
  PROVE  TypeOK'
<1>1. loops' = loops /\ caller' = caller /\ Thread' = Thread
  BY DEF LoopStep, ReadsLoop, BeginsBar, EndsBar, Leaves, Fails, Finishes, Moves, Thread
<1>2. threads \in Seq(Thread) /\ threads[i] \in Thread /\ Len(threads) = Len(loops) /\ Len(threads) \in Nat
  BY DEF TypeOK
<1>3. state' \in States
  BY DEF LoopStep, ReadsLoop, BeginsBar, EndsBar, Leaves, Fails, Finishes, AfterRun, States, TypeOK
<1>4. /\ threads' \in Seq(Thread) /\ Len(threads') = Len(threads)
      /\ \A j \in 1..Len(threads) : threads'[j].phase # "launched" => threads'[j].loop # 0
  <2>1. CASE ReadsLoop(i)
    <3>1. threads' = [threads EXCEPT ![i] = [phase |-> "check", loop |-> cur]]
      BY <2>1 DEF ReadsLoop
    <3>2. [phase |-> "check", loop |-> cur] \in Thread /\ cur # 0
      BY <1>2 DEF Thread, Phases, cur
    <3> QED BY <1>2, <3>1, <3>2 DEF TypeOK
  <2>2. CASE \E phase \in Phases : Moves(i, phase) /\ threads[i].phase # "launched"
    <3>1. PICK phase \in Phases : Moves(i, phase) /\ threads[i].phase # "launched"
      BY <2>2
    <3>2. /\ threads' \in Seq(Thread) /\ Len(threads') = Len(threads)
          /\ \A j \in 1..Len(threads) :
               threads'[j] = IF j = i THEN [phase |-> phase, loop |-> threads[i].loop] ELSE threads[j]
      BY <3>1, MovesShape
    <3>3. \A j \in 1..Len(threads) : threads'[j].phase # "launched" => threads'[j].loop # 0
      BY <3>1, <3>2 DEF TypeOK
    <3> QED BY <3>2, <3>3
  <2>3. BeginsBar(i) \/ EndsBar(i) \/ Leaves(i) \/ Fails(i) \/ Finishes(i)
        => \E phase \in Phases : Moves(i, phase) /\ threads[i].phase # "launched"
    BY DEF BeginsBar, EndsBar, Leaves, Fails, Finishes, Phases
  <2> QED BY <2>1, <2>2, <2>3 DEF LoopStep
<1>5. Request' = Request
  BY <1>4 DEF Request
<1> QED BY <1>1, <1>2, <1>3, <1>4, <1>5 DEF TypeOK

LEMMA TypeInductive ==
  ASSUME TypeOK, [Next]_vars
  PROVE  TypeOK'
<1>0. Len(threads) \in Nat /\ Len(threads) = Len(loops)
  BY DEF TypeOK
<1>F. ASSUME UNCHANGED <<loops, threads>>, state' \in States, caller' \in [Callers -> Request'] PROVE TypeOK'
  BY <1>F DEF TypeOK, Thread
<1>1. ASSUME NEW c \in Callers, Start(c) PROVE TypeOK'
  <2>1. CASE Launch
    BY <1>1, <2>1, LaunchTypes DEF Start
  <2>2. CASE LaunchFails
    BY <1>1, <2>2 DEF Start, LaunchFails, TypeOK, States, Thread, Request
  <2> QED BY <1>1, <2>1, <2>2 DEF Start, Starts
<1>2. ASSUME NEW c \in Callers, ApplyBegins(c) PROVE TypeOK'
  <2>1. [step |-> "restart", after |-> "idle", thread |-> 0] \in Request
    BY <1>0 DEF Request, CallSteps
  <2> QED BY <1>2, <1>F, <2>1, GoesTypes DEF ApplyBegins, TypeOK
<1>3. ASSUME NEW c \in Callers, Pause(c) \/ Resume(c) PROVE TypeOK'
  <2>1. loops # <<>> /\ loops[cur] \in LoopObject
    BY <1>3, <1>0 DEF Pause, Resume, TypeOK, cur
  <2>2. \E l \in LoopObject : loops' = [loops EXCEPT ![cur] = l]
    BY <1>3, <2>1, Zenon DEF Pause, Resume, LoopObject
  <2>3. loops' \in Seq(LoopObject) /\ Len(loops') = Len(loops)
    BY <2>1, <2>2, EventTypes
  <2> QED BY <1>3, <2>3 DEF Pause, Resume, TypeOK, States, Thread, Request
<1>4. ASSUME NEW c \in Callers, StopReadsThread(c) PROVE TypeOK'
  <2>1. caller[c] \in Request
    BY DEF TypeOK
  <2>2. [step |-> "joining", after |-> caller[c].after, thread |-> Len(threads)] \in Request
    BY <1>0, <2>1 DEF Request, CallSteps
  <2> QED BY <1>4, <1>F, <2>2, GoesTypes DEF StopReadsThread, TypeOK
<1>5. ASSUME NEW c \in Callers, StopEnds(c) PROVE TypeOK'
  <2>1. caller[c] \in Request
    BY DEF TypeOK
  <2>2. PICK step \in {caller[c].after, "idle"} : Goes(c, [step |-> step, after |-> "idle", thread |-> 0])
    BY <1>5 DEF StopEnds
  <2>3. [step |-> step, after |-> "idle", thread |-> 0] \in Request
    BY <1>0, <2>1 DEF Request, CallSteps
  <2> QED BY <1>5, <1>F, <2>2, <2>3, GoesTypes DEF StopEnds, States
<1>6. ASSUME NEW c \in Callers, Restarts(c) PROVE TypeOK'
  <2>1. CASE Launch
    BY <1>6, <2>1, LaunchTypes DEF Restarts
  <2>2. CASE ~Launch
    <3>1. NoRequest \in Request
      BY <1>0 DEF NoRequest, Request, CallSteps
    <3>2. UNCHANGED <<loops, threads>> /\ state' \in States
      BY <1>6, <2>2 DEF Restarts, Starts, LaunchFails, States, TypeOK
    <3> QED BY <1>6, <1>F, <3>1, <3>2, GoesTypes DEF Restarts
  <2> QED BY <2>1, <2>2
<1>7. ASSUME NEW c \in Callers, NEW after \in {"idle", "restart"}, StopBegins(c, after) PROVE TypeOK'
  <2>1. loops' \in Seq(LoopObject) /\ Len(loops') = Len(loops)
    <3>1. CASE loops = <<>>
      BY <1>7, <3>1 DEF StopBegins, TypeOK
    <3>2. CASE loops # <<>>
      <4>1. loops[cur] \in LoopObject
        BY <3>2, <1>0 DEF TypeOK, cur
      <4>2. \E l \in LoopObject : loops' = [loops EXCEPT ![cur] = l]
        BY <1>7, <3>2, <4>1, Zenon DEF StopBegins, LoopObject
      <4> QED BY <3>2, <4>2, EventTypes
    <3> QED BY <3>1, <3>2
  <2>2. [step |-> "stopping", after |-> after, thread |-> 0] \in Request
    BY <1>0 DEF Request, CallSteps
  <2>3. caller' \in [Callers -> Request']
    BY <1>7, <2>2, GoesTypes DEF StopBegins
  <2> QED BY <1>7, <2>1, <2>3 DEF StopBegins, TypeOK, States, Thread
<1>8. ASSUME NEW i \in 1..Len(threads), LoopStep(i) PROVE TypeOK'
  BY <1>8, LoopStepTypes
<1>9. CASE UNCHANGED vars
  BY <1>9 DEF vars, TypeOK, Thread, Request
<1> QED BY <1>1, <1>2, <1>3, <1>4, <1>5, <1>6, <1>7, <1>8, <1>9 DEF Next, CallStep

\* Every thread past its start knows a loop that exists, each start leaves one
\* loop and one thread, and a request joins a thread that exists.
THEOREM TypeCorrect == Spec => []TypeOK
<1>1. Init => TypeOK
  BY DEF Init, TypeOK, States, LoopObject, Thread, NoRequest, Request, CallSteps
<1> QED BY <1>1, TypeInductive, PTL DEF Spec

-----------------------------------------------------------------------------
(* The state and the loop it speaks of *)

\* While the state says PAUSED the current loop has its pause event set.
PausedIsSet == state = "PAUSED" => loops # <<>> /\ loops[cur].pause

StateInv == RunningIsLive /\ PausedIsSet

\* A state that claims no loop needs nothing.
LEMMA NothingClaimed ==
  ASSUME state' \notin {"RUNNING", "PAUSED"}
  PROVE  StateInv'
BY DEF StateInv, RunningIsLive, PausedIsSet

\* Neither the state nor what it speaks of has changed.
LEMMA StateFrame ==
  ASSUME StateInv, UNCHANGED <<state, loops, threads>>
  PROVE  StateInv'
BY DEF StateInv, RunningIsLive, PausedIsSet, cur

\* The newest thread of a start is before its first step.
LEMMA LaunchKeeps ==
  ASSUME TypeOK, Launch
  PROVE  StateInv'
<1>1. threads' # <<>> /\ threads'[Len(threads')].phase = "launched"
  <2>1. Len(threads) \in Nat
    BY DEF TypeOK
  <2> QED BY <2>1, LaunchShape
<1>2. state' # "PAUSED"
  BY LaunchShape
<1> QED BY <1>1, <1>2 DEF StateInv, RunningIsLive, PausedIsSet

LEMMA StartsKeep ==
  ASSUME TypeOK, Starts
  PROVE  StateInv'
BY LaunchKeeps, NothingClaimed DEF Starts, LaunchFails

\* A step that leaves the state alone moves no thread to "done".
LEMMA LoopStepKeeps ==
  ASSUME TypeOK, StateInv, NEW i \in 1..Len(threads), LoopStep(i)
  PROVE  StateInv'
<1>1. CASE Fails(i) \/ Finishes(i)
  BY <1>1, NothingClaimed DEF Fails, Finishes, AfterRun, TypeOK, States
<1>2. CASE ReadsLoop(i) \/ BeginsBar(i) \/ EndsBar(i) \/ Leaves(i)
  <2>1. UNCHANGED <<state, loops>>
    BY <1>2 DEF ReadsLoop, BeginsBar, EndsBar, Leaves, Moves
  <2>2. Len(threads) \in Nat /\ threads \in Seq(Thread)
    BY DEF TypeOK
  <2>3. \E phase \in {"check", "bar", "ended"} : \E loop :
          threads' = [threads EXCEPT ![i] = [phase |-> phase, loop |-> loop]]
    BY <1>2 DEF ReadsLoop, BeginsBar, EndsBar, Leaves, Moves
  <2>4. /\ Len(threads') = Len(threads)
        /\ \A j \in 1..Len(threads) : threads'[j].phase = "done" => threads[j].phase = "done"
    BY <2>2, <2>3
  <2>5. threads' # <<>>
    BY <2>2, <2>3
  <2> QED BY <2>1, <2>2, <2>4, <2>5 DEF StateInv, RunningIsLive, PausedIsSet, cur
<1> QED BY <1>1, <1>2 DEF LoopStep

LEMMA StateInductive ==
  ASSUME TypeOK, StateInv, [Next]_vars
  PROVE  StateInv'
<1>1. ASSUME NEW c \in Callers, Start(c) PROVE StateInv'
  BY <1>1, StartsKeep DEF Start
<1>2. ASSUME NEW c \in Callers, ApplyBegins(c) \/ StopReadsThread(c) PROVE StateInv'
  BY <1>2, StateFrame DEF ApplyBegins, StopReadsThread
<1>3. ASSUME NEW c \in Callers, Pause(c) \/ Resume(c) PROVE StateInv'
  <2>1. loops \in Seq(LoopObject) /\ Len(loops) \in Nat /\ loops # <<>>
    BY <1>3 DEF TypeOK, Pause, Resume
  <2>2. state \in {"RUNNING", "PAUSED"} /\ UNCHANGED threads
    BY <1>3 DEF Pause, Resume
  <2>3. RunningIsLive'
    BY <2>2 DEF StateInv, RunningIsLive
  <2>4. PausedIsSet'
    <3>1. CASE Pause(c)
      <4>1. loops' = [loops EXCEPT ![cur] = [stop |-> loops[cur].stop, pause |-> TRUE]]
        BY <3>1 DEF Pause
      <4>2. loops' # <<>> /\ cur' = cur /\ cur \in 1..Len(loops)
        BY <2>1, <4>1 DEF cur
      <4> QED BY <2>1, <4>1, <4>2 DEF PausedIsSet
    <3>2. CASE Resume(c)
      BY <3>2 DEF Resume, PausedIsSet
    <3> QED BY <1>3, <3>1, <3>2
  <2> QED BY <2>3, <2>4 DEF StateInv
<1>4. ASSUME NEW c \in Callers, StopEnds(c) PROVE StateInv'
  BY <1>4, NothingClaimed DEF StopEnds
<1>5. ASSUME NEW c \in Callers, Restarts(c) PROVE StateInv'
  BY <1>5, StartsKeep, StateFrame DEF Restarts
<1>6. ASSUME NEW c \in Callers, NEW after \in {"idle", "restart"}, StopBegins(c, after) PROVE StateInv'
  BY <1>6, NothingClaimed DEF StopBegins
<1>7. ASSUME NEW i \in 1..Len(threads), LoopStep(i) PROVE StateInv'
  BY <1>7, LoopStepKeeps
<1>8. CASE UNCHANGED vars
  BY <1>8, StateFrame DEF vars
<1> QED BY <1>1, <1>2, <1>3, <1>4, <1>5, <1>6, <1>7, <1>8 DEF Next, CallStep

LEMMA StateAlways == Spec => []StateInv
<1>1. Init => StateInv
  BY DEF Init, StateInv, RunningIsLive, PausedIsSet
<1> QED BY <1>1, StateInductive, TypeCorrect, PTL DEF Spec

\* RUNNING and PAUSED are never said of a loop whose thread has run its finally,
\* for any overlap of starts, stops with expired joins and old threads: the
\* finally of any thread leaves a state that claims nothing.
THEOREM NeverClaimsDeadLoop == Spec => []RunningIsLive
<1>1. StateInv => RunningIsLive
  BY DEF StateInv
<1> QED BY <1>1, StateAlways, PTL

\* Only BeginsBar leads into a bar, and a set pause event disables it.
LEMMA PausedBeginsNoBar ==
  ASSUME TypeOK, StateInv, [Next]_vars, state = "PAUSED", state' = "PAUSED",
         NEW i \in 1..Len(threads), threads[i].phase = "check", threads[i].loop = cur
  PROVE  threads'[i].phase # "bar"
<1>1. loops[cur].pause
  BY DEF StateInv, PausedIsSet
<1>2. threads \in Seq(Thread) /\ Len(threads) \in Nat
  BY DEF TypeOK
<1>3. ASSUME NEW j \in 1..Len(threads), LoopStep(j) PROVE threads'[i].phase # "bar"
  <2>1. CASE j = i
    <3>1. ~BeginsBar(i) /\ ~EndsBar(i) /\ ~ReadsLoop(i)
      BY <1>1 DEF BeginsBar, EndsBar, ReadsLoop, PauseHolds
    <3>2. \E phase \in {"ended", "failed", "done"} : Moves(i, phase)
      BY <1>3, <2>1, <3>1 DEF LoopStep, Leaves, Fails, Finishes
    <3> QED BY <1>2, <3>2 DEF Moves
  <2>2. CASE j # i
    <3>1. \E r : threads' = [threads EXCEPT ![j] = r]
      BY <1>3 DEF LoopStep, ReadsLoop, BeginsBar, EndsBar, Leaves, Fails, Finishes, Moves
    <3> QED BY <1>2, <2>2, <3>1
  <2> QED BY <2>1, <2>2
<1>4. ASSUME ~\E j \in 1..Len(threads) : LoopStep(j) PROVE UNCHANGED threads
  <2>1. ~Starts
    BY DEF Starts, Launch, LaunchFails, MayStart
  <2> QED
    BY <1>4, <2>1 DEF Next, CallStep, Start, ApplyBegins, Pause, Resume, StopReadsThread, StopEnds,
                      Restarts, StopBegins, vars
<1> QED BY <1>3, <1>4

\* While the supervisor says PAUSED, no thread that runs the current loop begins
\* a bar: neither an old thread nor a stop or a start that overlaps undoes it.
THEOREM PausedLoopsAreQuiet == Spec => PausedIsQuiet
<1>1. TypeOK /\ StateInv /\ [Next]_vars =>
        [state = "PAUSED" /\ state' = "PAUSED" =>
           \A i \in 1..Len(threads) :
             threads[i].phase = "check" /\ threads[i].loop = cur => threads'[i].phase # "bar"]_vars
  BY PausedBeginsNoBar
<1> QED BY <1>1, TypeCorrect, StateAlways, PTL DEF Spec, PausedIsQuiet

=============================================================================
