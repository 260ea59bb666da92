----------------------------- MODULE AuditLedger ----------------------------
(***************************************************************************)
(* pyrobot/audit/ledger.py: a hash chain of events in a JSONL file.  Every *)
(* AuditLedger object holds a copy of the chain and appends to the file    *)
(* under its own lock; each start of the trading loop and each new process *)
(* opens the path anew.  A record is one step with the append it makes;    *)
(* the append may raise, a crash may leave half a line, and a loss of      *)
(* power the lines that were flushed and not synced (sync is never set).   *)
(***************************************************************************)
EXTENDS Naturals, Sequences, SequencesExt

CONSTANTS
  Ledgers,        \* AuditLedger objects on the path
  Actions,        \* what an event records: action, time stamp and details
  Hash(_, _, _),  \* SHA-256 of an event's id, content and prev_checksum
  Genesis,        \* "GENESIS"
  MaxEvents       \* bound of the model: events of a chain

VARIABLES
  file,           \* lines of the JSONL file
  open,           \* ledgers that are in use
  events,         \* _events of each ledger
  last,           \* _last_checksum of each ledger
  acked,          \* history: events whose record returned, on the disk for all we know
  harmed          \* history: an append failed or was torn, or two ledgers overlapped

vars == <<file, open, events, last, acked, harmed>>

\* A line that does not parse, as an event that no ledger writes.
Torn == [id |-> 0, action |-> "torn", prev |-> Genesis, sum |-> Genesis]

-----------------------------------------------------------------------------
(* _verify_chain *)

Checksum(e) == Hash(e.id, e.action, e.prev)

\* The checksum that event i of es has to link to.
Link(es, i) == IF i = 1 THEN Genesis ELSE es[i - 1].sum

VerifyChain(es) ==
  \A i \in 1..Len(es) :
    /\ es[i].id = i
    /\ es[i].prev = Link(es, i)
    /\ es[i].sum = Checksum(es[i])

\* Mutant of Verifies: lines that do not parse are skipped.
Verifies_SkipsTorn(f) == VerifyChain(SelectSeq(f, LAMBDA line : line # Torn))

\* verify_file_integrity; _load_from_file raises AuditIntegrityError otherwise.
Verifies(f) == (\A i \in 1..Len(f) : f[i] # Torn) /\ VerifyChain(f)

LastSum(es) == IF es = <<>> THEN Genesis ELSE es[Len(es)].sum

-----------------------------------------------------------------------------
Init ==
  /\ file = <<>>
  /\ open = {}
  /\ events = [l \in Ledgers |-> <<>>]
  /\ last = [l \in Ledgers |-> Genesis]
  /\ acked = {}
  /\ harmed = FALSE

\* Mutant of Resumed: a ledger that loads a file starts a chain of its own.
Resumed_Genesis == Genesis
\* The checksum the next event of a ledger that loads the file links to.
Resumed == LastSum(file)

\* __init__ and _load_from_file.
Open(l) ==
  /\ l \notin open
  /\ Verifies(file)
  /\ open' = open \cup {l}
  /\ events' = [events EXCEPT ![l] = file]
  /\ last' = [last EXCEPT ![l] = Resumed]
  /\ harmed' = (harmed \/ open # {})
  /\ UNCHANGED <<file, acked>>

\* The loop it belongs to is over, and nobody records with it any more.
Close(l) ==
  /\ l \in open
  /\ open' = open \ {l}
  /\ UNCHANGED <<file, events, last, acked, harmed>>

NextEvent(l, a) ==
  LET id == IF events[l] = <<>> THEN 1 ELSE events[l][Len(events[l])].id + 1
  IN [id |-> id, action |-> a, prev |-> last[l], sum |-> Hash(id, a, last[l])]

\* The part of record before the append: the chain in memory has grown.
Chained(l, e) ==
  /\ events' = [events EXCEPT ![l] = Append(@, e)]
  /\ last' = [last EXCEPT ![l] = e.sum]

\* Half a line has no line end: what is appended to it is part of that line.
EndsTorn(f) == f # <<>> /\ f[Len(f)] = Torn
Appended(f, line) == IF EndsTorn(f) THEN f ELSE Append(f, line)

Record(l, a) ==
  LET e == NextEvent(l, a)
  IN /\ l \in open
     /\ Len(events[l]) < MaxEvents /\ Len(file) < MaxEvents
     /\ Chained(l, e)
     /\ file' = Appended(file, e)
     /\ acked' = acked \cup {e}
     /\ UNCHANGED <<open, harmed>>

\* The append raises (no space, no permission), before or within the line.
RecordFails(l, a) ==
  /\ l \in open
  /\ Len(events[l]) < MaxEvents /\ Len(file) < MaxEvents
  /\ Chained(l, NextEvent(l, a))
  /\ file' \in {file, Appended(file, Torn)}
  /\ harmed' = TRUE
  /\ UNCHANGED <<open, acked>>

\* The process ends, maybe within a line it writes.
Crash ==
  /\ open' = {}
  /\ \/ UNCHANGED <<file, harmed>>
     \/ /\ open # {} /\ Len(file) < MaxEvents
        /\ file' = Appended(file, Torn)
        /\ harmed' = TRUE
  /\ UNCHANGED <<events, last, acked>>

\* So does the machine: the lines after the first n are lost, or cut in half.
PowerLoss(n) ==
  LET kept == SubSeq(file, 1, n)
  IN /\ n < Len(file)
     /\ open' = {}
     /\ \/ file' = kept /\ UNCHANGED harmed
        \/ file' = Appended(kept, Torn) /\ harmed' = TRUE
     /\ acked' = acked \cap {file[i] : i \in 1..n}
     /\ UNCHANGED <<events, last>>

Next ==
  \/ \E l \in Ledgers :
       \/ Open(l) \/ Close(l)
       \/ \E a \in Actions : Record(l, a) \/ RecordFails(l, a)
  \/ Crash
  \/ \E n \in 0..MaxEvents : PowerLoss(n)

Spec == Init /\ [][Next]_vars

-----------------------------------------------------------------------------
(* Properties *)

\* verify_integrity: every ledger's own chain is intact, also after it was
\* loaded from the file, after its appends failed and while others write.
MemoryVerifies ==
  \A l \in Ledgers : VerifyChain(events[l]) /\ last[l] = LastSum(events[l])

\* "a verifiable SHA-256 hash chain that survives restarts" (README): with one
\* ledger at a time and no append that failed or was torn, the file verifies
\* and the next start accepts it, whatever tail a loss of power has taken.
IntactUnlessHarmed == ~harmed => Verifies(file)

\* A file that verifies is a complete trail: no event whose record returned is
\* missing from it, whatever was torn, failed, or written by a stale ledger.
NothingMissing == Verifies(file) => acked \subseteq {file[i] : i \in 1..Len(file)}

=============================================================================
