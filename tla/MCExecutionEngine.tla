-------------------------- MODULE MCExecutionEngine -------------------------
(* ExecutionEngine for TLC.  The .cfg files give the constants: orders and  *)
(* threads are model values, quantities and limits the smallest that allow  *)
(* a partial fill, a retry and a full order budget.                         *)
EXTENDS ExecutionEngine, TLC

\* The threads other than the loop do the same.
Operators == Permutations(Threads \ {Loop})

\* Where the exploration goes: all threads at work while one request has reached
\* the broker, the loop alone while two have.
Focus == Len(book) <= 1 \/ (Len(book) = 2 /\ \A t \in Threads \ {Loop} : At(t, "idle"))

=============================================================================
