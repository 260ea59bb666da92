-------------------------- MODULE AuditLedgerProofs -------------------------
(***************************************************************************)
(* The chain of AuditLedger for every set of ledgers, every content and    *)
(* every hash function: none of the three properties needs the hash to be  *)
(* injective.  Nothing is known of the values Hash returns, so a chain is  *)
(* only known to be a sequence of something (IsSeq), and the lemmas on     *)
(* Append and SubSeq are stated for such sequences.                        *)
(***************************************************************************)
EXTENDS AuditLedger, TLAPS

IsSeq(s) == \E S : s \in Seq(S)

Lines(f) == {f[i] : i \in 1..Len(f)}

\* The empty sequence is the one without elements.
LEMMA SeqLength ==
  ASSUME NEW s, IsSeq(s)
  PROVE  Len(s) \in Nat /\ (s = <<>> <=> Len(s) = 0)
<1>1. PICK S : s \in Seq(S)
  BY DEF IsSeq
<1> QED
  BY <1>1

\* What an append gives, element by element.
LEMMA AppendSeq ==
  ASSUME NEW s, IsSeq(s), NEW e
  PROVE  /\ IsSeq(Append(s, e))
         /\ Len(s) \in Nat
         /\ Len(Append(s, e)) = Len(s) + 1
         /\ \A i \in 1..Len(s) : Append(s, e)[i] = s[i]
         /\ Append(s, e)[Len(s) + 1] = e
         /\ Append(s, e) # <<>>
<1>1. PICK S : s \in Seq(S)
  BY DEF IsSeq
<1>2. s \in Seq(S \cup {e}) /\ e \in S \cup {e}
  BY <1>1
<1>3. Append(s, e) \in Seq(S \cup {e})
  BY <1>2
<1> HIDE DEF IsSeq
<1>4. IsSeq(Append(s, e))
  BY <1>3 DEF IsSeq
<1> QED
  BY <1>2, <1>3, <1>4

\* A prefix, element by element.
LEMMA PrefixSeq ==
  ASSUME NEW s, IsSeq(s), NEW n \in Nat, n < Len(s)
  PROVE  /\ IsSeq(SubSeq(s, 1, n))
         /\ Len(SubSeq(s, 1, n)) = n
         /\ \A i \in 1..n : SubSeq(s, 1, n)[i] = s[i]
<1>1. PICK S : s \in Seq(S)
  BY DEF IsSeq
<1>2. SubSeq(s, 1, n) \in Seq(S)
  BY <1>1
<1>3. IsSeq(SubSeq(s, 1, n))
  BY <1>2 DEF IsSeq
<1> QED
  BY <1>1, <1>2, <1>3

LEMMA EmptyIsSeq == IsSeq(<<>>)
<1>1. <<>> \in Seq({})
  OBVIOUS
<1> QED
  BY <1>1, Zenon DEF IsSeq

-----------------------------------------------------------------------------
\* A verified chain stays one when the event NextEvent builds is appended.
LEMMA ChainGrows ==
  ASSUME NEW es, IsSeq(es), VerifyChain(es), NEW a,
         NEW e, e = [id |-> Len(es) + 1, action |-> a, prev |-> LastSum(es),
                     sum |-> Hash(Len(es) + 1, a, LastSum(es))]
  PROVE  VerifyChain(Append(es, e)) /\ LastSum(Append(es, e)) = e.sum
<1> DEFINE new == Append(es, e)
<1>1. /\ Len(es) \in Nat /\ Len(new) = Len(es) + 1 /\ new # <<>>
      /\ \A i \in 1..Len(es) : new[i] = es[i]
      /\ new[Len(es) + 1] = e
  BY AppendSeq
<1>2. e.id = Len(es) + 1 /\ e.prev = LastSum(es) /\ e.sum = Hash(e.id, e.action, e.prev)
  OBVIOUS
<1>3. Len(es) = 0 <=> es = <<>>
  BY SeqLength
<1> HIDE DEF new
<1>4. ASSUME NEW i \in 1..Len(new)
      PROVE  new[i].id = i /\ new[i].prev = Link(new, i) /\ new[i].sum = Checksum(new[i])
  <2>1. CASE i \in 1..Len(es)
    <3>1. new[i] = es[i] /\ (i # 1 => new[i - 1] = es[i - 1])
      BY <1>1, <2>1
    <3>2. Link(new, i) = Link(es, i)
      BY <3>1 DEF Link
    <3> QED
      BY <2>1, <3>1, <3>2 DEF VerifyChain
  <2>2. CASE i = Len(es) + 1
    <3>1. new[i] = e
      BY <1>1, <2>2
    <3>2. Link(new, i) = LastSum(es)
      <4>1. CASE Len(es) = 0
        BY <1>3, <2>2, <4>1 DEF Link, LastSum
      <4>2. CASE Len(es) # 0
        <5>1. new[i - 1] = es[Len(es)] /\ i # 1
          BY <1>1, <2>2, <4>2
        <5> QED
          BY <1>3, <4>2, <5>1 DEF Link, LastSum
      <4> QED
        BY <4>1, <4>2
    <3> QED
      BY <1>2, <2>2, <3>1, <3>2 DEF Checksum
  <2> QED
    BY <1>1, <2>1, <2>2
<1>5. VerifyChain(new)
  BY <1>4 DEF VerifyChain
<1>6. LastSum(new) = e.sum
  BY <1>1 DEF LastSum
<1> QED
  BY <1>5, <1>6 DEF new

\* A prefix of a verified chain is one.
LEMMA ChainCut ==
  ASSUME NEW es, IsSeq(es), Verifies(es), NEW n \in Nat, n < Len(es)
  PROVE  Verifies(SubSeq(es, 1, n))
<1> DEFINE kept == SubSeq(es, 1, n)
<1>1. Len(kept) = n /\ \A i \in 1..n : kept[i] = es[i]
  BY PrefixSeq
<1>2. Len(es) \in Nat
  BY SeqLength
<1> HIDE DEF kept
<1>3. \A i \in 1..n : i \in 1..Len(es) /\ Link(kept, i) = Link(es, i)
  BY <1>1, <1>2 DEF Link
<1>4. VerifyChain(kept)
  BY <1>1, <1>3 DEF VerifyChain, Verifies
<1>5. \A i \in 1..Len(kept) : kept[i] # Torn
  BY <1>1, <1>3 DEF Verifies
<1> QED
  BY <1>4, <1>5 DEF Verifies, kept

-----------------------------------------------------------------------------
Sequences == IsSeq(file) /\ \A l \in Ledgers : IsSeq(events[l])

\* Unharmed, at most one ledger is open and the file is what it holds.
InStep ==
  ~harmed => /\ Verifies(file)
             /\ \A l \in open : events[l] = file
             /\ \A l, k \in open : l = k

\* What has no torn line holds all that was acknowledged.
Complete == Torn \notin Lines(file) => acked \subseteq Lines(file)

LedgerInv ==
  /\ Sequences
  /\ open \subseteq Ledgers
  /\ events \in [Ledgers -> {events[l] : l \in Ledgers}]
  /\ last \in [Ledgers -> {last[l] : l \in Ledgers}]
  /\ MemoryVerifies
  /\ InStep
  /\ Complete

\* The chain in memory after record, whether the append succeeds or not.
LEMMA RecordChains ==
  ASSUME LedgerInv, NEW l \in Ledgers, NEW a, Chained(l, NextEvent(l, a))
  PROVE  /\ events' = [events EXCEPT ![l] = Append(events[l], NextEvent(l, a))]
         /\ \A k \in Ledgers : IsSeq(events'[k])
         /\ events' \in [Ledgers -> {events'[k] : k \in Ledgers}]
         /\ last' \in [Ledgers -> {last'[k] : k \in Ledgers}]
         /\ MemoryVerifies'
<1> DEFINE e == NextEvent(l, a)
           es == events[l]
<1>1. IsSeq(es) /\ VerifyChain(es) /\ last[l] = LastSum(es)
  BY DEF LedgerInv, Sequences, MemoryVerifies
<1>2. Len(es) \in Nat /\ (es = <<>> <=> Len(es) = 0)
  BY <1>1, SeqLength
<1>3. es # <<>> => es[Len(es)].id = Len(es)
  BY <1>1, <1>2 DEF VerifyChain
<1>4. e = [id |-> Len(es) + 1, action |-> a, prev |-> LastSum(es), sum |-> Hash(Len(es) + 1, a, LastSum(es))]
  BY <1>1, <1>2, <1>3 DEF NextEvent
<1>5. events' = [events EXCEPT ![l] = Append(es, e)] /\ last' = [last EXCEPT ![l] = e.sum]
  BY DEF Chained
<1> HIDE DEF e, es
<1>6. IsSeq(Append(es, e))
  BY <1>1, AppendSeq
<1>7. VerifyChain(Append(es, e)) /\ LastSum(Append(es, e)) = e.sum
  BY <1>1, <1>4, ChainGrows
<1>8. DOMAIN events = Ledgers /\ DOMAIN last = Ledgers
  BY DEF LedgerInv
<1>9. /\ events'[l] = Append(es, e) /\ last'[l] = e.sum
      /\ \A k \in Ledgers \ {l} : events'[k] = events[k] /\ last'[k] = last[k]
  BY <1>5, <1>8
<1>10. \A k \in Ledgers : IsSeq(events'[k])
  BY <1>6, <1>9 DEF LedgerInv, Sequences
<1>11. events' \in [Ledgers -> {events'[k] : k \in Ledgers}] /\ last' \in [Ledgers -> {last'[k] : k \in Ledgers}]
  BY <1>5, <1>8
<1>12. MemoryVerifies'
  BY <1>7, <1>9 DEF LedgerInv, MemoryVerifies
<1> QED
  BY <1>5, <1>10, <1>11, <1>12 DEF e, es

\* What an append does to the lines.
LEMMA AppendedLines ==
  ASSUME NEW f, IsSeq(f), NEW e
  PROVE  /\ IsSeq(Appended(f, e))
         /\ Lines(f) \subseteq Lines(Appended(f, e))
         /\ Torn \notin Lines(Appended(f, e)) => e \in Lines(Appended(f, e))
         /\ Torn \in Lines(Appended(f, Torn))
<1>1. Len(f) \in Nat /\ (f # <<>> => Len(f) \in 1..Len(f))
  BY SeqLength
<1>2. ASSUME NEW x
      PROVE  /\ IsSeq(Append(f, x))
             /\ Lines(f) \subseteq Lines(Append(f, x))
             /\ x \in Lines(Append(f, x))
  <2>1. /\ IsSeq(Append(f, x)) /\ Len(Append(f, x)) = Len(f) + 1
        /\ \A i \in 1..Len(f) : Append(f, x)[i] = f[i]
        /\ Append(f, x)[Len(f) + 1] = x
    BY AppendSeq
  <2> QED
    BY <1>1, <2>1 DEF Lines
<1>3. EndsTorn(f) => Torn \in Lines(f)
  BY <1>1 DEF EndsTorn, Lines
<1> QED
  BY <1>2, <1>3 DEF Appended

-----------------------------------------------------------------------------
\* Init and each action.

LEMMA InitLedger == Init => LedgerInv
<1> SUFFICES ASSUME Init PROVE LedgerInv
  OBVIOUS
<1> DEFINE none == <<>>
<1>1. IsSeq(none) /\ Len(none) = 0
  BY EmptyIsSeq, SeqLength
<1>2. file = none /\ events = [l \in Ledgers |-> none] /\ last = [l \in Ledgers |-> Genesis]
      /\ open = {} /\ acked = {} /\ LastSum(none) = Genesis
  BY DEF Init, LastSum
<1> HIDE DEF none
<1>3. VerifyChain(none) /\ Verifies(none)
  BY <1>1 DEF VerifyChain, Verifies
<1>4. Sequences /\ open \subseteq Ledgers
  BY <1>1, <1>2 DEF Sequences
<1>5. events \in [Ledgers -> {events[l] : l \in Ledgers}] /\ last \in [Ledgers -> {last[l] : l \in Ledgers}]
  BY <1>2
<1>6. MemoryVerifies
  BY <1>2, <1>3 DEF MemoryVerifies
<1>7. InStep /\ Complete
  BY <1>2, <1>3 DEF InStep, Complete
<1> QED
  BY <1>4, <1>5, <1>6, <1>7 DEF LedgerInv

\* A ledger that opens takes over a chain that verifies.
LEMMA OpenKeeps ==
  ASSUME LedgerInv, NEW l \in Ledgers, Open(l)
  PROVE  LedgerInv'
<1>1. /\ l \notin open /\ Verifies(file) /\ open' = open \cup {l}
      /\ events' = [events EXCEPT ![l] = file] /\ last' = [last EXCEPT ![l] = LastSum(file)]
      /\ harmed' = (harmed \/ open # {}) /\ file' = file /\ acked' = acked
  BY DEF Open, Resumed
<1>2. DOMAIN events = Ledgers /\ DOMAIN last = Ledgers
  BY DEF LedgerInv
<1>3. /\ events'[l] = file /\ last'[l] = LastSum(file)
      /\ \A k \in Ledgers \ {l} : events'[k] = events[k] /\ last'[k] = last[k]
  BY <1>1, <1>2
<1>4. Sequences'
  BY <1>1, <1>3 DEF LedgerInv, Sequences
<1>5. events' \in [Ledgers -> {events'[k] : k \in Ledgers}] /\ last' \in [Ledgers -> {last'[k] : k \in Ledgers}]
  BY <1>1, <1>2
<1>6. MemoryVerifies'
  BY <1>1, <1>3 DEF LedgerInv, MemoryVerifies, Verifies
<1>7. InStep'
  BY <1>1, <1>3 DEF LedgerInv, InStep
<1>8. Complete'
  BY <1>1 DEF LedgerInv, Complete
<1> QED
  BY <1>1, <1>4, <1>5, <1>6, <1>7, <1>8 DEF LedgerInv

\* The append of a ledger that is alone and in step keeps the file a chain;
\* whatever else is in the file, an acknowledged event is lost on a torn line only.
LEMMA RecordKeeps ==
  ASSUME LedgerInv, NEW l \in Ledgers, NEW a, Record(l, a)
  PROVE  LedgerInv'
<1> DEFINE e == NextEvent(l, a)
<1>1. /\ l \in open /\ Chained(l, e) /\ file' = Appended(file, e)
      /\ acked' = acked \cup {e} /\ open' = open /\ harmed' = harmed
  BY DEF Record
<1> HIDE DEF e
<1>2. /\ events' = [events EXCEPT ![l] = Append(events[l], e)]
      /\ \A k \in Ledgers : IsSeq(events'[k])
      /\ events' \in [Ledgers -> {events'[k] : k \in Ledgers}]
      /\ last' \in [Ledgers -> {last'[k] : k \in Ledgers}]
      /\ MemoryVerifies'
  BY <1>1, RecordChains DEF e
<1>3. IsSeq(file) /\ IsSeq(events[l]) /\ l \in DOMAIN events
  BY DEF LedgerInv, Sequences
<1>4. /\ IsSeq(file') /\ Lines(file) \subseteq Lines(file')
      /\ Torn \notin Lines(file') => e \in Lines(file')
  BY <1>1, <1>3, AppendedLines
<1>5. Complete'
  BY <1>1, <1>4 DEF LedgerInv, Complete
<1>6. InStep'
  <2> SUFFICES ASSUME ~harmed
               PROVE  Verifies(file') /\ \A k \in open : events'[k] = file' /\ k = l
    BY <1>1 DEF InStep
  <2>1. Verifies(file) /\ events[l] = file /\ \A k \in open : k = l
    BY <1>1 DEF LedgerInv, InStep
  <2>2. ~EndsTorn(file)
    BY <1>3, <2>1, SeqLength DEF EndsTorn, Verifies
  <2>3. file' = Append(file, e) /\ events'[l] = file'
    BY <1>1, <1>2, <1>3, <2>1, <2>2 DEF Appended
  <2>4. VerifyChain(file')
    BY <1>2, <2>3 DEF MemoryVerifies
  <2>5. \A i \in 1..Len(file') : file'[i] # Torn
    <3>1. \A i \in 1..Len(file') : file'[i].id # 0
      BY <1>3, <2>3, <2>4, AppendSeq DEF VerifyChain
    <3>2. Torn.id = 0
      BY DEF Torn
    <3> QED
      BY <3>1, <3>2
  <2> QED
    BY <2>1, <2>3, <2>4, <2>5 DEF Verifies
<1>7. Sequences'
  BY <1>2, <1>4 DEF Sequences
<1> QED
  BY <1>1, <1>2, <1>5, <1>6, <1>7 DEF LedgerInv

\* An append that fails leaves the file as it was or with a torn line.
LEMMA RecordFailsKeeps ==
  ASSUME LedgerInv, NEW l \in Ledgers, NEW a, RecordFails(l, a)
  PROVE  LedgerInv'
<1>1. /\ Chained(l, NextEvent(l, a)) /\ file' \in {file, Appended(file, Torn)}
      /\ harmed' = TRUE /\ open' = open /\ acked' = acked
  BY DEF RecordFails
<1>2. /\ \A k \in Ledgers : IsSeq(events'[k])
      /\ events' \in [Ledgers -> {events'[k] : k \in Ledgers}]
      /\ last' \in [Ledgers -> {last'[k] : k \in Ledgers}]
      /\ MemoryVerifies'
  BY <1>1, RecordChains
<1>3. IsSeq(file)
  BY DEF LedgerInv, Sequences
<1>4. IsSeq(file') /\ (file' = file \/ Torn \in Lines(file'))
  BY <1>1, <1>3, AppendedLines
<1>5. Complete' /\ InStep' /\ Sequences'
  BY <1>1, <1>2, <1>4 DEF LedgerInv, Complete, InStep, Sequences
<1> QED
  BY <1>1, <1>2, <1>5 DEF LedgerInv

\* A crash closes every ledger; a torn line it leaves hides nothing.
LEMMA CrashKeeps ==
  ASSUME LedgerInv, Crash
  PROVE  LedgerInv'
<1>1. /\ open' = {} /\ UNCHANGED <<events, last, acked>>
      /\ \/ UNCHANGED <<file, harmed>>
         \/ file' = Appended(file, Torn) /\ harmed' = TRUE
  BY DEF Crash
<1>2. IsSeq(file)
  BY DEF LedgerInv, Sequences
<1>3. IsSeq(file') /\ (file' = file \/ Torn \in Lines(file'))
  BY <1>1, <1>2, AppendedLines
<1>4. MemoryVerifies'
  BY <1>1 DEF LedgerInv, MemoryVerifies
<1>5. Complete' /\ InStep' /\ Sequences'
  BY <1>1, <1>3 DEF LedgerInv, Complete, InStep, Sequences
<1> QED
  BY <1>1, <1>4, <1>5 DEF LedgerInv

\* What is left of a chain is a chain, and holds what is still acknowledged.
LEMMA PowerLossKeeps ==
  ASSUME LedgerInv, NEW n \in Nat, PowerLoss(n)
  PROVE  LedgerInv'
<1> DEFINE kept == SubSeq(file, 1, n)
<1>1. /\ n < Len(file) /\ open' = {} /\ UNCHANGED <<events, last>>
      /\ \/ file' = kept /\ harmed' = harmed
         \/ file' = Appended(kept, Torn) /\ harmed' = TRUE
      /\ acked' = acked \cap {file[i] : i \in 1..n}
  BY DEF PowerLoss
<1>2. IsSeq(file)
  BY DEF LedgerInv, Sequences
<1>3. IsSeq(kept) /\ Lines(kept) = {file[i] : i \in 1..n}
  BY <1>1, <1>2, PrefixSeq DEF Lines
<1>4. ~harmed => Verifies(kept)
  BY <1>1, <1>2, ChainCut DEF LedgerInv, InStep
<1> HIDE DEF kept
<1>5. IsSeq(file') /\ Lines(kept) \subseteq Lines(file')
  BY <1>1, <1>3, AppendedLines
<1>6. MemoryVerifies'
  BY <1>1 DEF LedgerInv, MemoryVerifies
<1>7. Complete'
  BY <1>1, <1>3, <1>5 DEF Complete
<1>8. InStep' /\ Sequences'
  BY <1>1, <1>4, <1>5 DEF LedgerInv, InStep, Sequences
<1> QED
  BY <1>1, <1>6, <1>7, <1>8 DEF LedgerInv

LEMMA LedgerStep == LedgerInv /\ [Next]_vars => LedgerInv'
<1> SUFFICES ASSUME LedgerInv, [Next]_vars PROVE LedgerInv'
  OBVIOUS
<1>1. ASSUME NEW l \in Ledgers, Close(l) PROVE LedgerInv'
  BY <1>1 DEF Close, LedgerInv, Sequences, MemoryVerifies, InStep, Complete
<1>2. CASE UNCHANGED vars
  BY <1>2 DEF vars, LedgerInv, Sequences, MemoryVerifies, InStep, Complete
<1>3. \A n \in 0..MaxEvents : n \in Nat
  OBVIOUS
<1> QED
  BY <1>1, <1>2, <1>3, OpenKeeps, RecordKeeps, RecordFailsKeeps, CrashKeeps, PowerLossKeeps DEF Next

THEOREM LedgerInvariant == Spec => []LedgerInv
  BY InitLedger, LedgerStep, PTL DEF Spec

-----------------------------------------------------------------------------
\* verify_integrity holds of every ledger in memory, for every hash function.
THEOREM MemoryAlwaysVerifies == Spec => []MemoryVerifies
<1>1. LedgerInv => MemoryVerifies
  BY DEF LedgerInv
<1> QED
  BY <1>1, LedgerInvariant, PTL

\* One ledger at a time and no append that failed or was torn: every restart
\* finds a file that verifies, whatever tail the power losses in between took.
THEOREM SurvivesRestarts == Spec => []IntactUnlessHarmed
<1>1. LedgerInv => IntactUnlessHarmed
  BY DEF LedgerInv, InStep, IntactUnlessHarmed
<1> QED
  BY <1>1, LedgerInvariant, PTL

\* A file that verifies holds every event whose record returned.
THEOREM TrailIsComplete == Spec => []NothingMissing
<1>1. LedgerInv => NothingMissing
  BY DEF LedgerInv, Complete, NothingMissing, Verifies, Lines
<1> QED
  BY <1>1, LedgerInvariant, PTL

=============================================================================
