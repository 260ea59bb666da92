----------------------------- MODULE Supervisor -----------------------------
(***************************************************************************)
(* pyrobot/console/supervisor.py over pyrobot/runtime/loop.py.  Console    *)
(* requests run start, stop, pause, resume and apply_config in threads of  *)
(* their own; each start builds a new TradingLoop and a new loop thread.   *)
(* Every section under the supervisor's lock is one step; stop joins the   *)
(* loop thread between two such sections, and the loop thread takes the    *)
(* lock again for each change it makes to the state.                       *)
(***************************************************************************)
EXTENDS Naturals, Sequences

CONSTANTS
  Callers,      \* threads that serve console requests
  MaxLoops      \* bound of the model: loops started

ASSUME SupervisorConstants == MaxLoops \in Nat

VARIABLES
  state,        \* RuntimeSupervisor._state, as seen outside the lock
  loops,        \* the TradingLoop objects built so far; the last is _loop
  threads,      \* the loop threads started so far; the last is _thread
  caller        \* per caller: the call it is in the middle of

vars == <<state, loops, threads, caller>>

\* _state is STARTING only while start holds the lock.
States == {"STOPPED", "RUNNING", "PAUSED", "STOPPING", "ERROR"}

\* The two events of a TradingLoop.
LoopObject == [stop : BOOLEAN, pause : BOOLEAN]

\* "launched": the wrapper has not read _loop yet.  "check": at the tests of
\* the two events.  "bar": past them, in bar_provider or process_bar.
\* "ended": run is over.  "failed": the wrapper has written ERROR.
Phases == {"launched", "check", "bar", "ended", "failed", "done"}

Thread == [phase : Phases, loop : 0..Len(loops)]

\* after: what follows stop, the end of the request or apply_config's start.
CallSteps == {"idle", "stopping", "joining", "restart"}
Request == [step : CallSteps, after : {"idle", "restart"}, thread : 0..Len(threads)]

NoRequest == [step |-> "idle", after |-> "idle", thread |-> 0]

Init ==
  /\ state = "STOPPED"
  /\ loops = <<>>
  /\ threads = <<>>
  /\ caller = [c \in Callers |-> NoRequest]

cur == Len(loops)

Goes(c, r) == caller' = [caller EXCEPT ![c] = r]

-----------------------------------------------------------------------------
(* start *)

MayStart == state \notin {"RUNNING", "PAUSED"}

\* The pipeline, the loop and its thread are created.  The record in the audit
\* ledger comes last; when it raises, the state is ERROR and the thread runs.
Launch ==
  /\ MayStart
  /\ Len(loops) < MaxLoops
  /\ loops' = Append(loops, [stop |-> FALSE, pause |-> FALSE])
  /\ threads' = Append(threads, [phase |-> "launched", loop |-> 0])
  /\ state' \in {"RUNNING", "ERROR"}

\* An unknown profile, no cached data, a missing directory.
LaunchFails ==
  /\ MayStart
  /\ state' = "ERROR"
  /\ UNCHANGED <<loops, threads>>

Starts == Launch \/ LaunchFails

Start(c) ==
  /\ caller[c] = NoRequest
  /\ Starts
  /\ UNCHANGED caller

-----------------------------------------------------------------------------
(* stop and apply_config *)

\* The first locked section.  In STOPPED or STOPPING it returns at once.
StopBegins(c, after) ==
  /\ caller[c] = NoRequest
  /\ state \notin {"STOPPED", "STOPPING"}
  /\ state' = "STOPPING"
  /\ loops' = IF loops = <<>> THEN loops ELSE [loops EXCEPT ![cur] = [stop |-> TRUE, pause |-> @.pause]]
  /\ Goes(c, [step |-> "stopping", after |-> after, thread |-> 0])
  /\ UNCHANGED threads

\* apply_config of a supervisor that is not running goes straight to start.
ApplyBegins(c) ==
  /\ caller[c] = NoRequest
  /\ state \in {"STOPPED", "STOPPING"}
  /\ Goes(c, [step |-> "restart", after |-> "idle", thread |-> 0])
  /\ UNCHANGED <<state, loops, threads>>

\* _thread is read outside the lock: a start may have replaced it.
StopReadsThread(c) ==
  /\ caller[c].step = "stopping"
  /\ Goes(c, [step |-> "joining", after |-> caller[c].after, thread |-> Len(threads)])
  /\ UNCHANGED <<state, loops, threads>>

\* Mutant of StopEnds: join has no time-out.
StopEnds_NoTimeout(c) ==
  /\ caller[c].step = "joining"
  /\ caller[c].thread # 0 => threads[caller[c].thread].phase = "done"
  /\ state' = "STOPPED"
  /\ \E step \in {caller[c].after, "idle"} : Goes(c, [step |-> step, after |-> "idle", thread |-> 0])
  /\ UNCHANGED <<loops, threads>>

\* join returns when the thread is done, or after its time-out; then the second
\* locked section.  Its audit record may raise, which also ends apply_config.
StopEnds(c) ==
  /\ caller[c].step = "joining"
  /\ state' = "STOPPED"
  /\ \E step \in {caller[c].after, "idle"} : Goes(c, [step |-> step, after |-> "idle", thread |-> 0])
  /\ UNCHANGED <<loops, threads>>

\* apply_config's start, which may be refused.
Restarts(c) ==
  /\ caller[c].step = "restart"
  /\ Starts \/ (~MayStart /\ UNCHANGED <<state, loops, threads>>)
  /\ Goes(c, NoRequest)

-----------------------------------------------------------------------------
(* pause and resume *)

Pause(c) ==
  /\ caller[c] = NoRequest
  /\ state = "RUNNING" /\ loops # <<>>
  /\ state' = "PAUSED"
  /\ loops' = [loops EXCEPT ![cur] = [stop |-> @.stop, pause |-> TRUE]]
  /\ UNCHANGED <<threads, caller>>

Resume(c) ==
  /\ caller[c] = NoRequest
  /\ state = "PAUSED" /\ loops # <<>>
  /\ state' = "RUNNING"
  /\ loops' = [loops EXCEPT ![cur] = [stop |-> @.stop, pause |-> FALSE]]
  /\ UNCHANGED <<threads, caller>>

-----------------------------------------------------------------------------
(* The loop thread: TradingLoop.run inside _run_loop_wrapper. *)

Moves(i, phase) ==
  /\ threads' = [threads EXCEPT ![i] = [phase |-> phase, loop |-> @.loop]]
  /\ UNCHANGED <<loops, caller>>

\* self._loop is read without the lock: a new start may have replaced it.
ReadsLoop(i) ==
  /\ threads[i].phase = "launched"
  /\ threads' = [threads EXCEPT ![i] = [phase |-> "check", loop |-> cur]]
  /\ UNCHANGED <<state, loops, caller>>

\* Mutants of PauseHolds: the wait does not look for a stop, or is not there.
PauseHolds_IgnoresStop(l) == l.pause
PauseHolds_Never(l) == FALSE

\* The inner wait of run.
PauseHolds(l) == l.pause /\ ~l.stop

\* A bar begins; the provider has one.
BeginsBar(i) ==
  /\ threads[i].phase = "check"
  /\ ~PauseHolds(loops[threads[i].loop])
  /\ ~loops[threads[i].loop].stop
  /\ Moves(i, "bar")
  /\ UNCHANGED state

\* The loop goes on, or it ends on the kill switch or on stale data.
EndsBar(i) ==
  /\ threads[i].phase = "bar"
  /\ \E phase \in {"check", "ended"} : Moves(i, phase)
  /\ UNCHANGED state

\* Stop is seen, also in the pause wait; or there are no more bars.
Leaves(i) ==
  /\ threads[i].phase = "check"
  /\ ~PauseHolds(loops[threads[i].loop])
  /\ Moves(i, "ended")
  /\ UNCHANGED state

\* The end of run or reading its last record raises.
Fails(i) ==
  /\ threads[i].phase = "ended"
  /\ state' = "ERROR"
  /\ Moves(i, "failed")

\* Mutant of AfterRun: the end of a paused loop goes unnoticed.
AfterRun_KeepsPaused == IF state \in {"ERROR", "STOPPED", "PAUSED"} THEN state ELSE "STOPPED"

\* The wrapper's finally.
AfterRun == IF state \in {"ERROR", "STOPPED"} THEN state ELSE "STOPPED"

Finishes(i) ==
  /\ threads[i].phase \in {"ended", "failed"}
  /\ state' = AfterRun
  /\ Moves(i, "done")

-----------------------------------------------------------------------------
LoopStep(i) == ReadsLoop(i) \/ BeginsBar(i) \/ EndsBar(i) \/ Leaves(i) \/ Fails(i) \/ Finishes(i)

CallStep(c) == StopReadsThread(c) \/ StopEnds(c) \/ Restarts(c)

Next ==
  \/ \E c \in Callers :
       \/ Start(c) \/ ApplyBegins(c) \/ Pause(c) \/ Resume(c) \/ CallStep(c)
       \/ \E after \in {"idle", "restart"} : StopBegins(c, after)
  \/ \E i \in 1..Len(threads) : LoopStep(i)

Spec == Init /\ [][Next]_vars

\* Threads make progress: requests complete and a loop goes from test to test.
FairSpec ==
  /\ Spec
  /\ \A c \in Callers : WF_vars(CallStep(c))
  /\ \A i \in 1..MaxLoops : WF_vars(i <= Len(threads) /\ LoopStep(i))

-----------------------------------------------------------------------------
(* Properties *)

Live(i) == threads[i].phase \in {"launched", "check", "bar"}

\* Types; a thread past its start has a loop, and there is one thread per loop.
TypeOK ==
  /\ state \in States
  /\ loops \in Seq(LoopObject)
  /\ threads \in Seq(Thread)
  /\ Len(threads) = Len(loops)
  /\ \A i \in 1..Len(threads) : threads[i].phase # "launched" => threads[i].loop # 0
  /\ caller \in [Callers -> Request]

\* The state never claims a loop that is over: while it says RUNNING or PAUSED
\* the newest loop thread has not run its finally, however starts, stops whose
\* join expired, failures and old threads overlap.
RunningIsLive ==
  state \in {"RUNNING", "PAUSED"} => threads # <<>> /\ threads[Len(threads)].phase # "done"

\* PAUSED is true of the current loop: while the state says so, no thread that
\* runs it begins a bar.
PausedIsQuiet ==
  [][state = "PAUSED" /\ state' = "PAUSED" =>
       \A i \in 1..Len(threads) :
         threads[i].phase = "check" /\ threads[i].loop = cur => threads'[i].phase # "bar"]_vars

\* A loop that was asked to stop ends, also when it is paused before or after.
StopEndsLoop ==
  \A l \in 1..MaxLoops :
    (l <= Len(loops) /\ loops[l].stop)
      ~> \A i \in 1..Len(threads) : threads[i].loop = l => ~Live(i)

\* Every stop and apply_config returns, also when a start replaced the thread
\* between the two sections of stop and the join waits for a loop nobody stops.
RequestsEnd == \A c \in Callers : caller[c] # NoRequest ~> caller[c] = NoRequest

=============================================================================
