------------------------- MODULE ShmRecoveryProofs -------------------------
(***************************************************************************)
(* Proofs about ShmRecovery, for every set of producers, every ring size   *)
(* and every number of crashes, from lap freedom.  Compared with the       *)
(* proofs of the ring, the marks say less: a slot that was published may   *)
(* be unmarked when the process died between ClearMark and FreeSlot, and   *)
(* one that is marked ready may never have been written.  So the text of a *)
(* slot is followed by itself (TextInv), from the author's steps and from  *)
(* the places at which authors died.                                       *)
(***************************************************************************)
EXTENDS ShmRecovery, RingChannelProofs, FiniteSetTheorems

-----------------------------------------------------------------------------
(* The inductive invariant *)

(* A free slot is unmarked.                                                *)
FreeInv == \A n \in hold .. read + BUFFER_LEN - 1 : mark[Idx(n)] = "INVALID"

(* The consumer is in step with the ring unless the ring is being          *)
(* attached; then nobody runs.  A channel that was attached and does not   *)
(* run yet has nothing unpublished.                                        *)
LifeInv ==
  /\ process = "running" => ConsumerInv
  /\ process = "attaching" => cpc = "take" /\ \A p \in Producers : pc[p] = "idle"
  /\ state \in {"NULL", "RUNNING"}
  /\ cpc = "poll" => state = "RUNNING"
  /\ process = "running" /\ state = "NULL" => write = hold /\ \A p \in Producers : pc[p] = "idle"

RingInv == ShmTypeOK /\ IndexOrder /\ OwnerInv /\ SnapshotInv /\ FreeInv /\ LifeInv

(* An orphan was published by the recovery, or will be.                    *)
OrphanInv ==
  /\ \A n \in recovered : n < write
  /\ \A n \in orphans.unbegun \cup orphans.unfinished :
       n < hold /\ (n \in recovered \/ (process = "attaching" /\ write <= n))

(* Claims whose author has not begun, or not completed, the text.          *)
Unbegun == orphans.unbegun \cup ClaimsAt({"hold_mark", "init"})
Unfinished == orphans.unfinished \cup ClaimsAt({"push", "ready"})

(* The slot of n holds what it delivered last, or nothing.                 *)
OldText(n) ==
  IF n < BUFFER_LEN THEN log[Idx(n)].id = -1
  ELSE \E j \in 1 .. Len(dispatched) : dispatched[j] = n - BUFFER_LEN /\ delivered[j] = log[Idx(n)]

(* A slot holds the text of its claim as far as its author came.           *)
TextInv ==
  /\ \A n \in read .. hold - 1 :
       IF n \in Unbegun THEN OldText(n)
       ELSE log[Idx(n)].id = n /\ (n \notin Unfinished => log[Idx(n)].complete)
  /\ \A n \in hold .. read + BUFFER_LEN - 1 : OldText(n)

LastLog == dispatched[Len(dispatched)]
Distinct == IF dispatched = <<>> THEN 0 ELSE LastLog + 1

(* The logs dispatched are 0 .. LastLog, and LastLog is the one whose slot *)
(* is to be returned next, or the one before.                              *)
DispatchInv ==
  /\ Len(delivered) = Len(dispatched)
  /\ \A k \in 1 .. Len(dispatched) : dispatched[k] < write
  /\ dispatched = <<>> => read = 0 /\ cpc \notin {"clear", "free"}
  /\ dispatched # <<>> => LastLog \in {read - 1, read}
  /\ cpc \in {"clear", "free"} =>
       LastLog = proc - 1 /\ (LastLog = read => delivered[Len(dispatched)] = log[Idx(read)])
  /\ Dispatched = 0 .. Distinct - 1

(* The last log will come again: a crash that is not used up yet.          *)
Again == dispatched # <<>> /\ LastLog = read /\ cpc \notin {"clear", "free"}
RepeatInv ==
  /\ Len(dispatched) <= Distinct + crashes
  /\ Again => Len(dispatched) + 1 <= Distinct + crashes

TraceInv == /\ OrphanInv /\ TextInv /\ DispatchInv /\ RepeatInv
            /\ NothingSkipped /\ PublishedIntact /\ RecoveredText

ShmInv == RingInv /\ TraceInv

-----------------------------------------------------------------------------
(* Consequences of the invariant that the steps below rest on *)

(* The counts are natural numbers in the order of the ring.                *)
LEMMA ShmCounts ==
  ASSUME RingInv
  PROVE  /\ BUFFER_LEN \in Nat /\ BUFFER_LEN > 1
         /\ hold \in Nat /\ write \in Nat /\ proc \in Nat /\ read \in Nat
         /\ read <= proc /\ proc <= write /\ write <= hold /\ hold < read + BUFFER_LEN
         /\ mark \in [Slot -> Mark] /\ log \in [Slot -> LogContent]
BY BufferAssumption DEF RingInv, ShmTypeOK, TypeOK, IndexOrder

(* Different counts of the window have different slots.                    *)
LEMMA Window ==
  ASSUME RingInv
  PROVE  \A a, b \in Nat : /\ read <= a /\ a < read + BUFFER_LEN
                           /\ read <= b /\ b < read + BUFFER_LEN /\ a # b
                           => Idx(a) # Idx(b)
<1> SUFFICES ASSUME NEW a \in Nat, NEW b \in Nat, read <= a, a < read + BUFFER_LEN,
                    read <= b, b < read + BUFFER_LEN, a # b
             PROVE  Idx(a) # Idx(b)
  OBVIOUS
<1>1. a < b + BUFFER_LEN /\ b < a + BUFFER_LEN BY ShmCounts
<1> QED BY <1>1, IdxInjective

(* The slot a producer owns is claimed and not published.                  *)
LEMMA ShmOwned ==
  ASSUME RingInv, NEW p \in Producers, Owns(p)
  PROVE  /\ claim[p] \in Nat /\ Idx(claim[p]) \in Slot
         /\ write <= claim[p] /\ claim[p] < hold /\ mark[Idx(claim[p])] # "READY"
         /\ read <= claim[p] /\ claim[p] < read + BUFFER_LEN
<1>1. claim[p] \in Nat /\ Idx(claim[p]) \in Slot BY IdxInSlot DEF RingInv, ShmTypeOK, TypeOK
<1>2. write <= claim[p] /\ claim[p] < hold /\ mark[Idx(claim[p])] # "READY"
  BY DEF RingInv, OwnerInv
<1> QED BY <1>1, <1>2, ShmCounts

(* Two producers own different claims.                                     *)
LEMMA OneOwner ==
  ASSUME RingInv, NEW p \in Producers, NEW q \in Producers, Owns(p), Owns(q), p # q
  PROVE  claim[p] # claim[q]
BY DEF RingInv, OwnerInv

(* A compare-exchange on hold_idx_ that succeeds finds room, one on        *)
(* write_idx_ a claimed log that is marked.                                *)
LEMMA ShmHoldCas ==
  ASSUME RingInv, NEW p \in Producers, pc[p] = "hold_cas", Idx(hold) = Idx(old[p])
  PROVE  old[p] = hold /\ hold + 1 < read + BUFFER_LEN
<1>1. old[p] \in Nat /\ old[p] <= hold /\ hold < old[p] + BUFFER_LEN
  BY DEF RingInv, ShmTypeOK, TypeOK, SnapshotInv
<1>2. hold < old[p] + BUFFER_LEN /\ old[p] < hold + BUFFER_LEN BY <1>1, ShmCounts
<1>3. old[p] = hold BY <1>1, <1>2, ShmCounts, IdxInjective
<1> QED BY <1>3 DEF RingInv, SnapshotInv

LEMMA ShmWriteCas ==
  ASSUME RingInv, NEW p \in Producers, pc[p] = "write_cas", Idx(write) = Idx(old[p])
  PROVE  old[p] = write /\ write < hold /\ mark[Idx(write)] = "READY"
<1>1. old[p] \in Nat /\ old[p] <= write /\ write < old[p] + BUFFER_LEN
  BY DEF RingInv, ShmTypeOK, TypeOK, SnapshotInv
<1>2. write < old[p] + BUFFER_LEN /\ old[p] < write + BUFFER_LEN BY <1>1, ShmCounts
<1>3. old[p] = write BY <1>1, <1>2, ShmCounts, IdxInjective
<1> QED BY <1>3 DEF RingInv, SnapshotInv

(* The indices of two counts of the ring agree only if the counts do.      *)
LEMMA ShmCompare ==
  ASSUME RingInv
  PROVE  /\ Idx(write) = Idx(hold) <=> write = hold
         /\ Idx(proc) = Idx(write) <=> proc = write
         /\ Idx(read) = Idx(proc) <=> read = proc
<1>1. write < hold + BUFFER_LEN /\ hold < write + BUFFER_LEN BY ShmCounts
<1>2. proc < write + BUFFER_LEN /\ write < proc + BUFFER_LEN BY ShmCounts
<1>3. read < proc + BUFFER_LEN /\ proc < read + BUFFER_LEN BY ShmCounts
<1> QED BY <1>1, <1>2, <1>3, ShmCounts, IdxInjective

(* While a process runs, an orphan is a published log.                     *)
LEMMA OrphansPublished ==
  ASSUME TraceInv, process = "running"
  PROVE  \A n \in orphans.unbegun \cup orphans.unfinished : n < write /\ n \in recovered
BY DEF TraceInv, OrphanInv

(* Steps that dispatch nothing and return no slot keep what is said of the *)
(* logs dispatched so far.                                                 *)
LEMMA DispatchKept ==
  ASSUME RingInv, TraceInv, write' \in Nat, write' >= write,
         UNCHANGED <<read, delivered, dispatched, crashes, recovered, orphans>>,
         cpc' \in {"clear", "free"} <=> cpc \in {"clear", "free"},
         cpc \in {"clear", "free"} => proc' = proc,
         cpc \in {"clear", "free"} /\ read < proc => log'[Idx(read)] = log[Idx(read)]
  PROVE  DispatchInv' /\ RepeatInv' /\ NothingSkipped' /\ PublishedIntact' /\ RecoveredText'
<1>0. /\ dispatched \in Seq(Nat) /\ Len(dispatched) \in Nat
      /\ \A k \in 1 .. Len(dispatched) : dispatched[k] \in Nat
      /\ write \in Nat /\ read \in Nat /\ proc \in Nat
  BY DEF RingInv, ShmTypeOK, TypeOK
<1>1. DispatchInv'
  <2>1. \A k \in 1 .. Len(dispatched) : dispatched[k] < write'
    BY <1>0 DEF TraceInv, DispatchInv
  <2>2. cpc \in {"clear", "free"} =>
          LastLog = proc - 1 /\ (LastLog = read => delivered[Len(dispatched)] = log'[Idx(read)])
    BY <1>0 DEF TraceInv, DispatchInv
  <2>3. LastLog' = LastLog /\ Distinct' = Distinct /\ Dispatched' = Dispatched
    BY DEF LastLog, Distinct, Dispatched
  <2> QED BY <2>1, <2>2, <2>3 DEF TraceInv, DispatchInv
<1>2. RepeatInv' BY DEF TraceInv, RepeatInv, Again, Distinct, LastLog
<1>3. NothingSkipped' BY DEF TraceInv, NothingSkipped
<1>4. PublishedIntact' BY DEF TraceInv, PublishedIntact
<1>5. RecoveredText' BY DEF TraceInv, RecoveredText
<1> QED BY <1>1, <1>2, <1>3, <1>4, <1>5

(* Steps that leave counts and texts alone: the trace is about the texts   *)
(* and not about the marks.                                                *)
LEMMA TraceKept ==
  ASSUME RingInv, TraceInv,
         UNCHANGED <<hold, write, read, log, delivered, shm, dispatched>>,
         Unbegun' = Unbegun, Unfinished' = Unfinished,
         cpc' \in {"clear", "free"} <=> cpc \in {"clear", "free"},
         cpc \in {"clear", "free"} => proc' = proc
  PROVE  TraceInv'
<1>1. UNCHANGED <<process, crashes, recovered, orphans>> BY DEF shm
<1>2. OrphanInv' BY <1>1 DEF TraceInv, OrphanInv
<1>3. \A n : OldText(n)' <=> OldText(n) BY DEF OldText
<1>4. TextInv' BY <1>3 DEF TraceInv, TextInv
<1>5. write' \in Nat /\ write' >= write BY ShmCounts
<1>6. DispatchInv' /\ RepeatInv' /\ NothingSkipped' /\ PublishedIntact' /\ RecoveredText'
  BY <1>1, <1>5, DispatchKept
<1> QED BY <1>2, <1>4, <1>6 DEF TraceInv

-----------------------------------------------------------------------------
(* Steps of a producer that touch its own place and snapshot only *)

(* The steps after which every slot has the owner it had.                  *)
Quiet(p) ==
  \/ BeginLog(p) \/ HoldState(p) \/ HoldLoad(p) \/ HoldFull(p)
  \/ HoldCas(p) /\ Idx(hold) # Idx(old[p])
  \/ PushState(p) \/ WriteLoad(p) \/ WriteHold(p) \/ WriteMark(p)
  \/ WriteCas(p) /\ Idx(write) # Idx(old[p])
  \/ WriteCount(p) \/ WriteAgain(p)

(* Whoever is inside HoldChannel or PushChannel finds the channel running: *)
(* in this module nobody stops it.                                         *)
LEMMA InsideIsRunning ==
  ASSUME RingInv, process = "running", NEW p \in Producers, pc[p] # "idle"
  PROVE  state = "RUNNING"
BY DEF RingInv, LifeInv

LEMMA QuietEffect ==
  ASSUME RingInv, process = "running", NEW p \in Producers, Quiet(p)
  PROVE  /\ UNCHANGED <<hold, write, proc, read, mark, log, state, claim, cpc, delivered, stopAt>>
         /\ state = "RUNNING"
         /\ pc' = [pc EXCEPT ![p] = pc'[p]] /\ pc'[p] \in ProducerPc
         /\ old' \in [Producers -> Nat] /\ \A q \in Producers : q # p => old'[q] = old[q]
         /\ count' \in [hold : Nat, push : Nat, processed : Nat]
         /\ pc'[p] \in {"hold_mark", "init"} <=> pc[p] \in {"hold_mark", "init"}
         /\ pc'[p] \in {"push", "ready"} <=> pc[p] \in {"push", "ready"}
<1> USE DEF idx, slots, hist, Goto, ProducerPc
<1>0. /\ pc \in [Producers -> ProducerPc] /\ old \in [Producers -> Nat]
      /\ count \in [hold : Nat, push : Nat, processed : Nat] /\ hold \in Nat /\ write \in Nat
  BY DEF RingInv, ShmTypeOK, TypeOK
<1>1. CASE BeginLog(p) BY <1>0, <1>1 DEF BeginLog
<1>2. CASE HoldState(p) BY <1>0, <1>2, InsideIsRunning DEF HoldState
<1>3. CASE HoldLoad(p) BY <1>0, <1>3, InsideIsRunning DEF HoldLoad
<1>4. CASE HoldFull(p) BY <1>0, <1>4, InsideIsRunning DEF HoldFull
<1>5. CASE HoldCas(p) /\ Idx(hold) # Idx(old[p]) BY <1>0, <1>5, InsideIsRunning DEF HoldCas
<1>6. CASE PushState(p) BY <1>0, <1>6, InsideIsRunning DEF PushState
<1>7. CASE WriteLoad(p) BY <1>0, <1>7, InsideIsRunning DEF WriteLoad
<1>8. CASE WriteHold(p) BY <1>0, <1>8, InsideIsRunning DEF WriteHold
<1>9. CASE WriteMark(p) BY <1>0, <1>9, InsideIsRunning DEF WriteMark
<1>10. CASE WriteCas(p) /\ Idx(write) # Idx(old[p]) BY <1>0, <1>10, InsideIsRunning DEF WriteCas
<1>11. CASE WriteCount(p) BY <1>0, <1>11, InsideIsRunning, CounterType DEF WriteCount
<1>12. CASE WriteAgain(p) BY <1>0, <1>12, InsideIsRunning DEF WriteAgain
<1> QED BY <1>1, <1>2, <1>3, <1>4, <1>5, <1>6, <1>7, <1>8, <1>9, <1>10, <1>11, <1>12 DEF Quiet

(* What a producer knows from its snapshot after a step of its own.        *)
LEMMA QuietSnapshot ==
  ASSUME RingInv, process = "running", NEW p \in Producers, Quiet(p)
  PROVE  SnapshotInv'
<1> USE DEF idx, slots, hist, Goto
<1>0. /\ pc \in [Producers -> ProducerPc] /\ old \in [Producers -> Nat] /\ SnapshotInv
      /\ hold \in Nat /\ write \in Nat /\ BUFFER_LEN \in Nat /\ BUFFER_LEN > 1
  BY ShmCounts DEF RingInv, ShmTypeOK, TypeOK
<1>1. CASE BeginLog(p) BY <1>0, <1>1 DEF BeginLog, SnapshotInv
<1>2. CASE HoldState(p) BY <1>0, <1>2 DEF HoldState, SnapshotInv
<1>3. CASE HoldLoad(p) BY <1>0, <1>3 DEF HoldLoad, SnapshotInv
<1>4. CASE HoldFull(p)
  <2>1. ASSUME old[p] = hold, Idx(old[p] + 1) # Idx(read)
        PROVE  hold + 1 < read + BUFFER_LEN
    <3>1. hold + 1 # read + BUFFER_LEN BY <2>1, ShmCounts, IdxWraps
    <3> QED BY <3>1, ShmCounts
  <2>2. ASSUME NEW q \in Producers, q # p PROVE pc'[q] = pc[q]
    BY <1>0, <1>4, <2>2 DEF HoldFull
  <2>3. pc'[p] \in {"hold", "hold_cas"} /\ (pc'[p] = "hold_cas" => Idx(old[p] + 1) # Idx(read))
    BY <1>0, <1>4 DEF HoldFull
  <2>4. pc[p] = "hold_full" /\ UNCHANGED <<idx, mark, old>> BY <1>4 DEF HoldFull
  <2> QED BY <1>0, <2>1, <2>2, <2>3, <2>4 DEF SnapshotInv
<1>5. CASE HoldCas(p) /\ Idx(hold) # Idx(old[p]) BY <1>0, <1>5 DEF HoldCas, SnapshotInv
<1>6. CASE PushState(p) BY <1>0, <1>6 DEF PushState, SnapshotInv
<1>7. CASE WriteLoad(p) BY <1>0, <1>7 DEF WriteLoad, SnapshotInv
<1>8. CASE WriteHold(p)
  <2>1. old[p] = write /\ Idx(old[p]) # Idx(hold) => write < hold BY ShmCounts, IdxInjective
  <2> QED BY <1>0, <1>8, <2>1 DEF WriteHold, SnapshotInv
<1>9. CASE WriteMark(p) BY <1>0, <1>9 DEF WriteMark, SnapshotInv
<1>10. CASE WriteCas(p) /\ Idx(write) # Idx(old[p]) BY <1>0, <1>10 DEF WriteCas, SnapshotInv
<1>11. CASE WriteCount(p) BY <1>0, <1>11 DEF WriteCount, SnapshotInv
<1>12. CASE WriteAgain(p) BY <1>0, <1>12 DEF WriteAgain, SnapshotInv
<1> QED BY <1>1, <1>2, <1>3, <1>4, <1>5, <1>6, <1>7, <1>8, <1>9, <1>10, <1>11, <1>12 DEF Quiet

LEMMA QuietStep ==
  ASSUME ShmInv, process = "running", NEW p \in Producers, Quiet(p),
         UNCHANGED <<shm, dispatched>>
  PROVE  ShmInv'
<1>0. RingInv /\ TraceInv BY DEF ShmInv
<1>1. /\ UNCHANGED <<hold, write, proc, read, mark, log, state, claim, cpc, delivered, stopAt>>
      /\ state = "RUNNING"
      /\ pc' = [pc EXCEPT ![p] = pc'[p]] /\ pc'[p] \in ProducerPc
      /\ old' \in [Producers -> Nat]
      /\ count' \in [hold : Nat, push : Nat, processed : Nat]
      /\ pc'[p] \in {"hold_mark", "init"} <=> pc[p] \in {"hold_mark", "init"}
      /\ pc'[p] \in {"push", "ready"} <=> pc[p] \in {"push", "ready"}
  BY <1>0, QuietEffect
<1>2. pc \in [Producers -> ProducerPc] BY <1>0 DEF RingInv, ShmTypeOK, TypeOK
<1>3. UNCHANGED <<process, crashes, recovered, orphans>> BY DEF shm
<1>4. \A q \in Producers : /\ pc'[q] \in {"hold_mark", "init"} <=> pc[q] \in {"hold_mark", "init"}
                           /\ pc'[q] \in {"push", "ready"} <=> pc[q] \in {"push", "ready"}
  BY <1>1, <1>2
<1>5. ShmTypeOK'
  <2>1. TypeOK' BY <1>0, <1>1, <1>2 DEF RingInv, ShmTypeOK, TypeOK
  <2> QED BY <1>0, <1>3, <2>1 DEF RingInv, ShmTypeOK
<1>6. OwnerInv'
  <2>1. \A q \in Producers : Owns(q)' <=> Owns(q) BY <1>4 DEF Owns
  <2> QED BY <1>0, <1>1, <2>1 DEF RingInv, OwnerInv
<1>7. SnapshotInv' BY <1>0, QuietSnapshot
<1>8. IndexOrder' /\ FreeInv' BY <1>0, <1>1 DEF RingInv, IndexOrder, FreeInv
<1>9. LifeInv'
  <2>1. ConsumerInv' BY <1>0, <1>1 DEF RingInv, LifeInv, ConsumerInv
  <2> QED BY <1>0, <1>1, <1>3, <2>1 DEF RingInv, LifeInv
<1>10. Unbegun' = Unbegun /\ Unfinished' = Unfinished
  BY <1>1, <1>3, <1>4 DEF Unbegun, Unfinished, ClaimsAt
<1>11. TraceInv' BY <1>0, <1>1, <1>10, TraceKept
<1> QED BY <1>5, <1>6, <1>7, <1>8, <1>9, <1>11 DEF ShmInv, RingInv

-----------------------------------------------------------------------------
(* Steps of a producer at its slot *)

LEMMA ClaimStep ==
  ASSUME ShmInv, NoLap', process = "running", NEW p \in Producers,
         HoldCas(p), Idx(hold) = Idx(old[p]), UNCHANGED <<shm, dispatched>>
  PROVE  ShmInv'
<1>0. RingInv /\ TraceInv BY DEF ShmInv
<1>1. /\ hold' = hold + 1 /\ hold + 1 < read + BUFFER_LEN
      /\ claim' = [claim EXCEPT ![p] = hold]
      /\ pc' = [pc EXCEPT ![p] = "hold_mark"] /\ pc[p] = "hold_cas"
      /\ UNCHANGED <<write, proc, read, mark, log, count, state, old, cpc, delivered, stopAt>>
  BY <1>0, ShmHoldCas DEF HoldCas, Goto, slots, hist
<1>2. UNCHANGED <<process, crashes, recovered, orphans>> BY DEF shm
<1>3. /\ pc \in [Producers -> ProducerPc] /\ claim \in [Producers -> Nat]
      /\ old \in [Producers -> Nat] /\ hold \in Nat
  BY <1>0 DEF RingInv, ShmTypeOK, TypeOK
<1>4. state = "RUNNING" BY <1>0, <1>1, InsideIsRunning
<1>5. mark[Idx(hold)] = "INVALID" BY <1>0, ShmCounts DEF RingInv, FreeInv
<1>6. /\ pc'[p] = "hold_mark" /\ claim'[p] = hold
      /\ \A q \in Producers : q # p => pc'[q] = pc[q] /\ claim'[q] = claim[q]
  BY <1>1, <1>3
<1>7. ShmTypeOK'
  <2>1. TypeOK' BY <1>0, <1>1, <1>3 DEF RingInv, ShmTypeOK, TypeOK, ProducerPc
  <2> QED BY <1>0, <1>2, <2>1 DEF RingInv, ShmTypeOK
<1>8. IndexOrder' BY <1>0, <1>1, ShmCounts DEF IndexOrder
<1>9. OwnerInv'
  <2>1. \A q \in Producers : Owns(q) => claim[q] < hold BY <1>0 DEF RingInv, OwnerInv
  <2>2. ~Owns(p) /\ Owns(p)' BY <1>1, <1>6 DEF Owns
  <2>3. \A q \in Producers : q # p => (Owns(q)' <=> Owns(q)) BY <1>6 DEF Owns
  <2> QED BY <1>0, <1>1, <1>3, <1>5, <1>6, <2>1, <2>2, <2>3, ShmCounts DEF RingInv, OwnerInv
<1>10. SnapshotInv'
  <2>1. \A q \in Producers : pc'[q] \in {"hold_full", "hold_cas"} => hold' < old'[q] + BUFFER_LEN
    BY <1>0, <1>1, <1>3, ShmCounts DEF NoLap, HoldSnapshot
  <2> QED BY <1>0, <1>1, <1>3, <1>6, <2>1, ShmCounts DEF RingInv, SnapshotInv
<1>11. FreeInv' BY <1>0, <1>1, ShmCounts DEF RingInv, FreeInv
<1>12. LifeInv'
  <2>1. ConsumerInv' BY <1>0, <1>1 DEF RingInv, LifeInv, ConsumerInv
  <2> QED BY <1>0, <1>1, <1>2, <1>4, <2>1 DEF RingInv, LifeInv
<1>13. Unbegun' = Unbegun \cup {hold} /\ Unfinished' = Unfinished
  BY <1>1, <1>2, <1>3, <1>6 DEF Unbegun, Unfinished, ClaimsAt
<1>14. OrphanInv'
  <2>1. orphans.unbegun \cup orphans.unfinished \subseteq Nat BY <1>0 DEF RingInv, ShmTypeOK
  <2> QED BY <1>0, <1>1, <1>2, <1>3, <2>1 DEF TraceInv, OrphanInv
<1>15. TextInv'
  <2>1. \A n : OldText(n)' <=> OldText(n) BY <1>1 DEF OldText
  <2>2. ASSUME NEW n \in read .. hold
        PROVE  IF n \in Unbegun' THEN OldText(n)
               ELSE log[Idx(n)].id = n /\ (n \notin Unfinished => log[Idx(n)].complete)
    <3>1. CASE n = hold BY <1>0, <1>3, <1>13, <3>1, ShmCounts DEF TraceInv, TextInv
    <3>2. CASE n # hold
      <4>1. n \in read .. hold - 1 BY <1>0, <3>2, ShmCounts
      <4>2. n \in Unbegun' <=> n \in Unbegun BY <1>13, <3>2
      <4> QED BY <1>0, <4>1, <4>2 DEF TraceInv, TextInv
    <3> QED BY <3>1, <3>2
  <2>3. \A n \in hold + 1 .. read + BUFFER_LEN - 1 : OldText(n)
    BY <1>0, ShmCounts DEF TraceInv, TextInv
  <2>4. hold' - 1 = hold BY <1>1, <1>3
  <2> QED BY <1>1, <1>13, <2>1, <2>2, <2>3, <2>4 DEF TextInv
<1>16. DispatchInv' /\ RepeatInv' /\ NothingSkipped' /\ PublishedIntact' /\ RecoveredText'
  <2>1. write' \in Nat /\ write' >= write BY <1>0, <1>1, ShmCounts
  <2> QED BY <1>0, <1>1, <1>2, <2>1, DispatchKept
<1> QED BY <1>7, <1>8, <1>9, <1>10, <1>11, <1>12, <1>14, <1>15, <1>16 DEF ShmInv, RingInv, TraceInv

LEMMA MarkHeldStep ==
  ASSUME ShmInv, process = "running", NEW p \in Producers,
         HoldMark(p), UNCHANGED <<shm, dispatched>>
  PROVE  ShmInv'
<1>0. RingInv /\ TraceInv BY DEF ShmInv
<1>1. /\ pc' = [pc EXCEPT ![p] = "init"] /\ pc[p] = "hold_mark" /\ Owns(p)
      /\ mark' = [mark EXCEPT ![Idx(claim[p])] = "HOLD"]
      /\ count' = [count EXCEPT !.hold = @ + 1]
      /\ UNCHANGED <<hold, write, proc, read, log, state, old, claim, cpc, delivered, stopAt>>
  BY DEF HoldMark, Goto, idx, hist, Owns
<1>2. UNCHANGED <<process, crashes, recovered, orphans>> BY DEF shm
<1>3. pc \in [Producers -> ProducerPc] BY <1>0 DEF RingInv, ShmTypeOK, TypeOK
<1>4. state = "RUNNING" BY <1>0, <1>1, InsideIsRunning
<1>5. /\ pc'[p] = "init" /\ \A q \in Producers : q # p => pc'[q] = pc[q]
      /\ \A q \in Producers : Owns(q)' <=> Owns(q)
  BY <1>1, <1>3 DEF Owns
<1>6. /\ claim[p] \in Nat /\ write <= claim[p] /\ claim[p] < hold /\ Idx(claim[p]) \in Slot
      /\ mark[Idx(claim[p])] # "READY" /\ read <= claim[p] /\ claim[p] < read + BUFFER_LEN
  BY <1>0, <1>1, ShmOwned
<1>7. \A n \in Nat : read <= n /\ n < read + BUFFER_LEN /\ n # claim[p] => mark'[Idx(n)] = mark[Idx(n)]
  BY <1>0, <1>1, <1>6, Window, IdxInSlot, ShmCounts
<1>8. ShmTypeOK'
  <2>1. mark' \in [Slot -> Mark] BY <1>0, <1>1, <1>6, ShmCounts DEF Mark
  <2>2. count' \in [hold : Nat, push : Nat, processed : Nat]
    BY <1>0, <1>1, CounterType DEF RingInv, ShmTypeOK, TypeOK
  <2>3. pc' \in [Producers -> ProducerPc] BY <1>1, <1>3 DEF ProducerPc
  <2>4. TypeOK' BY <1>0, <1>1, <2>1, <2>2, <2>3 DEF RingInv, ShmTypeOK, TypeOK
  <2> QED BY <1>0, <1>2, <2>4 DEF RingInv, ShmTypeOK
<1>9. IndexOrder' BY <1>0, <1>1 DEF RingInv, IndexOrder
<1>10. OwnerInv'
  <2>1. ASSUME NEW q \in Producers, Owns(q) PROVE mark'[Idx(claim[q])] # "READY"
    <3>1. CASE claim[q] = claim[p] BY <1>0, <1>1, <1>6, <3>1, ShmCounts
    <3>2. CASE claim[q] # claim[p] BY <1>0, <1>7, <2>1, <3>2, ShmOwned
    <3> QED BY <3>1, <3>2
  <2> QED BY <1>0, <1>1, <1>5, <2>1 DEF RingInv, OwnerInv
<1>11. SnapshotInv'
  <2>1. mark[Idx(write)] = "READY" /\ write < hold => mark'[Idx(write)] = "READY"
    BY <1>0, <1>6, <1>7, ShmCounts
  <2> QED BY <1>0, <1>1, <1>5, <2>1 DEF RingInv, SnapshotInv
<1>12. FreeInv'
  <2>1. ASSUME NEW n \in hold .. read + BUFFER_LEN - 1 PROVE mark'[Idx(n)] = mark[Idx(n)]
    BY <1>0, <1>6, <1>7, ShmCounts
  <2> QED BY <1>0, <1>1, <2>1 DEF RingInv, FreeInv
<1>13. LifeInv'
  <2>1. read < proc => mark'[Idx(read)] = mark[Idx(read)] BY <1>0, <1>6, <1>7, ShmCounts
  <2>2. read + 1 = proc => read < proc BY <1>0, ShmCounts
  <2>3. ConsumerInv' BY <1>0, <1>1, <2>1, <2>2 DEF RingInv, LifeInv, ConsumerInv
  <2> QED BY <1>0, <1>1, <1>2, <1>4, <2>3 DEF RingInv, LifeInv
<1>14. Unbegun' = Unbegun /\ Unfinished' = Unfinished
  <2>1. \A q \in Producers : /\ pc'[q] \in {"hold_mark", "init"} <=> pc[q] \in {"hold_mark", "init"}
                             /\ pc'[q] \in {"push", "ready"} <=> pc[q] \in {"push", "ready"}
    BY <1>1, <1>5
  <2> QED BY <1>1, <1>2, <2>1 DEF Unbegun, Unfinished, ClaimsAt
<1>15. TraceInv' BY <1>0, <1>1, <1>14, TraceKept
<1> QED BY <1>8, <1>9, <1>10, <1>11, <1>12, <1>13, <1>15 DEF ShmInv, RingInv

(* What a producer writes into its slot disturbs no other slot of the      *)
(* window, and nothing that was published or is free.                      *)
LEMMA OwnWrite ==
  ASSUME RingInv, NEW p \in Producers, Owns(p), NEW text,
         log' = [log EXCEPT ![Idx(claim[p])] = text]
  PROVE  /\ log'[Idx(claim[p])] = text
         /\ \A n \in Nat : read <= n /\ n < read + BUFFER_LEN /\ n # claim[p]
              => log'[Idx(n)] = log[Idx(n)]
         /\ read < proc => log'[Idx(read)] = log[Idx(read)]
<1>1. /\ claim[p] \in Nat /\ write <= claim[p] /\ claim[p] < hold /\ Idx(claim[p]) \in Slot
      /\ read <= claim[p] /\ claim[p] < read + BUFFER_LEN
  BY ShmOwned
<1>2. \A n \in Nat : read <= n /\ n < read + BUFFER_LEN /\ n # claim[p]
        => log'[Idx(n)] = log[Idx(n)]
  BY <1>1, Window, IdxInSlot, ShmCounts
<1> QED BY <1>1, <1>2, ShmCounts

LEMMA BeginTextStep ==
  ASSUME ShmInv, process = "running", NEW p \in Producers,
         InitLogData(p), UNCHANGED <<shm, dispatched>>
  PROVE  ShmInv'
<1>0. RingInv /\ TraceInv BY DEF ShmInv
<1> DEFINE text == [id |-> claim[p], complete |-> FALSE]
<1>1. /\ pc' = [pc EXCEPT ![p] = "push"] /\ pc[p] = "init" /\ Owns(p)
      /\ log' = [log EXCEPT ![Idx(claim[p])] = text]
      /\ UNCHANGED <<hold, write, proc, read, mark, count, state, old, claim, cpc, delivered, stopAt>>
  BY DEF InitLogData, Goto, idx, hist, Owns
<1>2. UNCHANGED <<process, crashes, recovered, orphans>> BY DEF shm
<1>3. pc \in [Producers -> ProducerPc] BY <1>0 DEF RingInv, ShmTypeOK, TypeOK
<1>4. state = "RUNNING" BY <1>0, <1>1, InsideIsRunning
<1>5. /\ pc'[p] = "push" /\ \A q \in Producers : q # p => pc'[q] = pc[q]
      /\ \A q \in Producers : Owns(q)' <=> Owns(q)
  BY <1>1, <1>3 DEF Owns
<1>6. /\ claim[p] \in Nat /\ write <= claim[p] /\ claim[p] < hold /\ Idx(claim[p]) \in Slot
      /\ read <= claim[p] /\ claim[p] < read + BUFFER_LEN
  BY <1>0, <1>1, ShmOwned
<1> HIDE DEF text
<1>7. /\ log'[Idx(claim[p])] = text
      /\ \A n \in Nat : read <= n /\ n < read + BUFFER_LEN /\ n # claim[p]
           => log'[Idx(n)] = log[Idx(n)]
      /\ read < proc => log'[Idx(read)] = log[Idx(read)]
  BY <1>0, <1>1, OwnWrite
<1>8. ShmTypeOK'
  <2>1. log' \in [Slot -> LogContent] BY <1>0, <1>1, <1>6, ShmCounts DEF LogContent, text
  <2>2. pc' \in [Producers -> ProducerPc] BY <1>1, <1>3 DEF ProducerPc
  <2>3. TypeOK' BY <1>0, <1>1, <2>1, <2>2 DEF RingInv, ShmTypeOK, TypeOK
  <2> QED BY <1>0, <1>2, <2>3 DEF RingInv, ShmTypeOK
<1>9. IndexOrder' /\ FreeInv' BY <1>0, <1>1 DEF RingInv, IndexOrder, FreeInv
<1>10. OwnerInv' BY <1>0, <1>1, <1>5 DEF RingInv, OwnerInv
<1>11. SnapshotInv' BY <1>0, <1>1, <1>5 DEF RingInv, SnapshotInv
<1>12. LifeInv'
  <2>1. ConsumerInv' BY <1>0, <1>1 DEF RingInv, LifeInv, ConsumerInv
  <2> QED BY <1>0, <1>1, <1>2, <1>4, <2>1 DEF RingInv, LifeInv
<1>13. /\ Unbegun' \subseteq Unbegun
       /\ \A n \in Unbegun : n # claim[p] => n \in Unbegun'
       /\ claim[p] \notin Unbegun' /\ claim[p] \in Unfinished'
       /\ Unfinished \subseteq Unfinished'
  <2>1. claim[p] \notin orphans.unbegun BY <1>0, <1>6, OrphansPublished, ShmCounts
  <2>2. \A q \in Producers : q # p /\ Owns(q) => claim[q] # claim[p] BY <1>0, <1>1, OneOwner
  <2> QED BY <1>1, <1>2, <1>5, <2>1, <2>2 DEF Unbegun, Unfinished, ClaimsAt, Owns
<1>14. OrphanInv' BY <1>0, <1>1, <1>2 DEF TraceInv, OrphanInv
<1>15. TextInv'
  <2>1. ASSUME NEW n \in read .. read + BUFFER_LEN - 1, n # claim[p]
        PROVE  log'[Idx(n)] = log[Idx(n)] /\ (OldText(n)' <=> OldText(n))
    <3>1. log'[Idx(n)] = log[Idx(n)] BY <1>0, <1>7, <2>1, ShmCounts
    <3> QED BY <1>1, <3>1 DEF OldText
  <2>2. ASSUME NEW n \in read .. hold - 1
        PROVE  IF n \in Unbegun' THEN OldText(n)'
               ELSE log'[Idx(n)].id = n /\ (n \notin Unfinished' => log'[Idx(n)].complete)
    <3>1. CASE n = claim[p] BY <1>7, <1>13, <3>1 DEF text
    <3>2. CASE n # claim[p]
      <4>1. n \in read .. read + BUFFER_LEN - 1 BY <1>0, ShmCounts
      <4>2. n \in Unbegun' <=> n \in Unbegun BY <1>13, <3>2
      <4>3. n \notin Unfinished' => n \notin Unfinished BY <1>13
      <4> QED BY <1>0, <2>1, <3>2, <4>1, <4>2, <4>3 DEF TraceInv, TextInv
    <3> QED BY <3>1, <3>2
  <2>3. ASSUME NEW n \in hold .. read + BUFFER_LEN - 1 PROVE OldText(n)'
    <3>1. n \in read .. read + BUFFER_LEN - 1 /\ n # claim[p] BY <1>0, <1>6, ShmCounts
    <3> QED BY <1>0, <2>1, <3>1 DEF TraceInv, TextInv
  <2> QED BY <1>1, <2>2, <2>3 DEF TextInv
<1>16. DispatchInv' /\ RepeatInv' /\ NothingSkipped' /\ PublishedIntact' /\ RecoveredText'
  <2>1. write' \in Nat /\ write' >= write BY <1>0, <1>1, ShmCounts
  <2> QED BY <1>0, <1>1, <1>2, <1>7, <2>1, DispatchKept
<1> QED BY <1>8, <1>9, <1>10, <1>11, <1>12, <1>14, <1>15, <1>16 DEF ShmInv, RingInv, TraceInv

LEMMA MarkReadyStep ==
  ASSUME ShmInv, process = "running", NEW p \in Producers,
         PushReady(p), UNCHANGED <<shm, dispatched>>
  PROVE  ShmInv'
<1>0. RingInv /\ TraceInv BY DEF ShmInv
<1> DEFINE text == [log[Idx(claim[p])] EXCEPT !.complete = TRUE]
<1>1. /\ pc' = [pc EXCEPT ![p] = "write_load"] /\ pc[p] = "ready" /\ Owns(p)
      /\ log' = [log EXCEPT ![Idx(claim[p])] = text]
      /\ mark' = [mark EXCEPT ![Idx(claim[p])] = "READY"]
      /\ UNCHANGED <<hold, write, proc, read, count, state, old, claim, cpc, delivered, stopAt>>
  BY DEF PushReady, Goto, idx, hist, Owns
<1>2. UNCHANGED <<process, crashes, recovered, orphans>> BY DEF shm
<1>3. pc \in [Producers -> ProducerPc] BY <1>0 DEF RingInv, ShmTypeOK, TypeOK
<1>4. state = "RUNNING" BY <1>0, <1>1, InsideIsRunning
<1>5. /\ pc'[p] = "write_load" /\ \A q \in Producers : q # p => pc'[q] = pc[q]
      /\ \A q \in Producers : Owns(q)' <=> (Owns(q) /\ q # p)
  BY <1>1, <1>3 DEF Owns
<1>6. /\ claim[p] \in Nat /\ write <= claim[p] /\ claim[p] < hold /\ Idx(claim[p]) \in Slot
      /\ read <= claim[p] /\ claim[p] < read + BUFFER_LEN
  BY <1>0, <1>1, ShmOwned
<1>7. log[Idx(claim[p])] \in LogContent BY <1>0, <1>6, ShmCounts
<1>8. text \in LogContent /\ text.id = log[Idx(claim[p])].id /\ text.complete = TRUE
  BY <1>7 DEF LogContent
<1> HIDE DEF text
<1>9. /\ log'[Idx(claim[p])] = text
      /\ \A n \in Nat : read <= n /\ n < read + BUFFER_LEN /\ n # claim[p]
           => log'[Idx(n)] = log[Idx(n)]
      /\ read < proc => log'[Idx(read)] = log[Idx(read)]
  BY <1>0, <1>1, OwnWrite
<1>10. \A n \in Nat : read <= n /\ n < read + BUFFER_LEN /\ n # claim[p] => mark'[Idx(n)] = mark[Idx(n)]
  BY <1>0, <1>1, <1>6, Window, IdxInSlot, ShmCounts
<1>11. ShmTypeOK'
  <2>1. log' \in [Slot -> LogContent] BY <1>0, <1>1, <1>6, <1>8, ShmCounts
  <2>2. pc' \in [Producers -> ProducerPc] BY <1>1, <1>3 DEF ProducerPc
  <2>3. mark' \in [Slot -> Mark] BY <1>0, <1>1, <1>6, ShmCounts DEF Mark
  <2>4. TypeOK' BY <1>0, <1>1, <2>1, <2>2, <2>3 DEF RingInv, ShmTypeOK, TypeOK
  <2> QED BY <1>0, <1>2, <2>4 DEF RingInv, ShmTypeOK
<1>12. IndexOrder' BY <1>0, <1>1 DEF RingInv, IndexOrder
<1>13. OwnerInv'
  <2>1. ASSUME NEW q \in Producers, Owns(q), q # p PROVE mark'[Idx(claim[q])] # "READY"
    <3>1. claim[q] # claim[p] BY <1>0, <1>1, <2>1, OneOwner
    <3> QED BY <1>0, <1>10, <2>1, <3>1, ShmOwned
  <2> QED BY <1>0, <1>1, <1>5, <2>1 DEF RingInv, OwnerInv
<1>14. SnapshotInv'
  <2>1. mark[Idx(write)] = "READY" /\ write < hold => mark'[Idx(write)] = "READY"
    <3>1. CASE write = claim[p] BY <1>0, <1>1, <1>6, <3>1, ShmCounts
    <3>2. CASE write # claim[p] BY <1>0, <1>6, <1>10, <3>2, ShmCounts
    <3> QED BY <3>1, <3>2
  <2> QED BY <1>0, <1>1, <1>5, <2>1 DEF RingInv, SnapshotInv
<1>15. FreeInv'
  <2>1. ASSUME NEW n \in hold .. read + BUFFER_LEN - 1 PROVE mark'[Idx(n)] = mark[Idx(n)]
    BY <1>0, <1>6, <1>10, ShmCounts
  <2> QED BY <1>0, <1>1, <2>1 DEF RingInv, FreeInv
<1>16. LifeInv'
  <2>1. read < proc => mark'[Idx(read)] = mark[Idx(read)] BY <1>0, <1>6, <1>10, ShmCounts
  <2>2. read + 1 = proc => read < proc BY <1>0, ShmCounts
  <2>3. ConsumerInv' BY <1>0, <1>1, <2>1, <2>2 DEF RingInv, LifeInv, ConsumerInv
  <2> QED BY <1>0, <1>1, <1>2, <1>4, <2>3 DEF RingInv, LifeInv
<1>17. /\ Unbegun' = Unbegun /\ claim[p] \notin Unbegun
       /\ \A n : n # claim[p] => (n \in Unfinished' <=> n \in Unfinished)
  <2>1. claim[p] \notin orphans.unbegun BY <1>0, <1>6, OrphansPublished, ShmCounts
  <2>2. \A q \in Producers : q # p /\ Owns(q) => claim[q] # claim[p] BY <1>0, <1>1, OneOwner
  <2>3. Unbegun' = Unbegun BY <1>1, <1>2, <1>5 DEF Unbegun, ClaimsAt
  <2>4. claim[p] \notin Unbegun BY <1>1, <2>1, <2>2 DEF Unbegun, ClaimsAt, Owns
  <2>5. ASSUME NEW n, n # claim[p] PROVE n \in Unfinished' <=> n \in Unfinished
    BY <1>1, <1>2, <1>5, <2>5 DEF Unfinished, ClaimsAt
  <2> QED BY <2>3, <2>4, <2>5
<1>18. OrphanInv' BY <1>0, <1>1, <1>2 DEF TraceInv, OrphanInv
<1>19. TextInv'
  <2>1. ASSUME NEW n \in read .. read + BUFFER_LEN - 1, n # claim[p]
        PROVE  log'[Idx(n)] = log[Idx(n)] /\ (OldText(n)' <=> OldText(n))
    <3>1. log'[Idx(n)] = log[Idx(n)] BY <1>0, <1>9, <2>1, ShmCounts
    <3> QED BY <1>1, <3>1 DEF OldText
  <2>2. ASSUME NEW n \in read .. hold - 1
        PROVE  IF n \in Unbegun' THEN OldText(n)'
               ELSE log'[Idx(n)].id = n /\ (n \notin Unfinished' => log'[Idx(n)].complete)
    <3>1. CASE n = claim[p]
      <4>1. log[Idx(n)].id = n BY <1>0, <1>17, <3>1 DEF TraceInv, TextInv
      <4> QED BY <1>8, <1>9, <1>17, <3>1, <4>1
    <3>2. CASE n # claim[p]
      <4>1. n \in read .. read + BUFFER_LEN - 1 BY <1>0, ShmCounts
      <4> QED BY <1>0, <1>17, <2>1, <3>2, <4>1 DEF TraceInv, TextInv
    <3> QED BY <3>1, <3>2
  <2>3. ASSUME NEW n \in hold .. read + BUFFER_LEN - 1 PROVE OldText(n)'
    <3>1. n \in read .. read + BUFFER_LEN - 1 /\ n # claim[p] BY <1>0, <1>6, ShmCounts
    <3> QED BY <1>0, <2>1, <3>1 DEF TraceInv, TextInv
  <2> QED BY <1>1, <2>2, <2>3 DEF TextInv
<1>20. DispatchInv' /\ RepeatInv' /\ NothingSkipped' /\ PublishedIntact' /\ RecoveredText'
  <2>1. write' \in Nat /\ write' >= write BY <1>0, <1>1, ShmCounts
  <2> QED BY <1>0, <1>1, <1>2, <1>9, <2>1, DispatchKept
<1> QED BY <1>11, <1>12, <1>13, <1>14, <1>15, <1>16, <1>18, <1>19, <1>20
      DEF ShmInv, RingInv, TraceInv

LEMMA PublishStep ==
  ASSUME ShmInv, NoLap', process = "running", NEW p \in Producers,
         WriteCas(p), Idx(write) = Idx(old[p]), UNCHANGED <<shm, dispatched>>
  PROVE  ShmInv'
<1>0. RingInv /\ TraceInv BY DEF ShmInv
<1>1. /\ write' = write + 1 /\ write < hold /\ mark[Idx(write)] = "READY"
      /\ pc' = [pc EXCEPT ![p] = "write_count"] /\ pc[p] = "write_cas"
      /\ UNCHANGED <<hold, proc, read, mark, log, count, state, old, claim, cpc, delivered, stopAt>>
  BY <1>0, ShmWriteCas DEF WriteCas, Goto, slots, hist
<1>2. UNCHANGED <<process, crashes, recovered, orphans>> BY DEF shm
<1>3. /\ pc \in [Producers -> ProducerPc] /\ claim \in [Producers -> Nat]
      /\ old \in [Producers -> Nat] /\ write \in Nat
  BY <1>0 DEF RingInv, ShmTypeOK, TypeOK
<1>4. state = "RUNNING" BY <1>0, <1>1, InsideIsRunning
<1>5. /\ pc'[p] = "write_count" /\ \A q \in Producers : q # p => pc'[q] = pc[q]
      /\ \A q \in Producers : Owns(q)' <=> Owns(q)
  BY <1>1, <1>3 DEF Owns
<1>6. ShmTypeOK'
  <2>1. TypeOK' BY <1>0, <1>1, <1>3 DEF RingInv, ShmTypeOK, TypeOK, ProducerPc
  <2> QED BY <1>0, <1>2, <2>1 DEF RingInv, ShmTypeOK
<1>7. IndexOrder' BY <1>0, <1>1, ShmCounts DEF IndexOrder
<1>8. OwnerInv'
  <2>1. ASSUME NEW q \in Producers, Owns(q) PROVE write + 1 <= claim[q]
    <3>1. write <= claim[q] /\ mark[Idx(claim[q])] # "READY" BY <1>0, <2>1, ShmOwned
    <3> QED BY <1>1, <1>3, <3>1
  <2> QED BY <1>0, <1>1, <1>5, <2>1 DEF RingInv, OwnerInv
<1>9. SnapshotInv'
  <2>1. \A q \in Producers : pc'[q] \in {"write_hold", "write_mark", "write_cas"}
          => write' < old'[q] + BUFFER_LEN
    BY <1>0, <1>1, <1>3, ShmCounts DEF NoLap, WriteSnapshot
  <2>2. \A q \in Producers : pc'[q] \in {"write_hold", "write_mark", "write_cas"}
          => old[q] <= write /\ old[q] # write'
    BY <1>0, <1>1, <1>3, <1>5 DEF RingInv, SnapshotInv
  <2> QED BY <1>0, <1>1, <1>3, <1>5, <2>1, <2>2 DEF RingInv, SnapshotInv
<1>10. FreeInv' BY <1>0, <1>1 DEF RingInv, FreeInv
<1>11. LifeInv'
  <2>1. ConsumerInv' BY <1>0, <1>1 DEF RingInv, LifeInv, ConsumerInv
  <2> QED BY <1>0, <1>1, <1>2, <1>4, <2>1 DEF RingInv, LifeInv
<1>12. Unbegun' = Unbegun /\ Unfinished' = Unfinished
  BY <1>1, <1>2, <1>5 DEF Unbegun, Unfinished, ClaimsAt
<1>13. OrphanInv'
  <2>1. recovered \subseteq Nat BY <1>0 DEF RingInv, ShmTypeOK
  <2>2. ASSUME NEW n \in recovered PROVE n < write'
    <3>1. n \in Nat /\ n < write BY <1>0, <2>1 DEF TraceInv, OrphanInv
    <3> QED BY <1>1, <1>3, <3>1
  <2>3. \A n \in orphans.unbegun \cup orphans.unfinished : n < hold /\ n \in recovered
    BY <1>0 DEF TraceInv, OrphanInv
  <2> QED BY <1>1, <1>2, <2>2, <2>3 DEF OrphanInv
<1>14. TextInv'
  <2>1. \A n : OldText(n)' <=> OldText(n) BY <1>1 DEF OldText
  <2> QED BY <1>0, <1>1, <1>12, <2>1 DEF TraceInv, TextInv
<1>15. DispatchInv' /\ RepeatInv' /\ NothingSkipped' /\ PublishedIntact' /\ RecoveredText'
  <2>1. write' \in Nat /\ write' >= write BY <1>1, <1>3
  <2> QED BY <1>0, <1>1, <1>2, <2>1, DispatchKept
<1> QED BY <1>6, <1>7, <1>8, <1>9, <1>10, <1>11, <1>13, <1>14, <1>15 DEF ShmInv, RingInv, TraceInv

-----------------------------------------------------------------------------
(* Steps of the channel's thread *)

(* The logs dispatched are a sequence of counts.                           *)
LEMMA DispatchedType ==
  ASSUME RingInv
  PROVE  /\ dispatched \in Seq(Nat) /\ Len(dispatched) \in Nat
         /\ \A k \in 1 .. Len(dispatched) : dispatched[k] \in Nat
         /\ dispatched # <<>> <=> Len(dispatched) > 0
         /\ delivered \in Seq(LogContent) /\ crashes \in Nat
BY CrashAssumption DEF RingInv, ShmTypeOK, TypeOK

LEMMA ConsumerTakes ==
  ASSUME ShmInv, process = "running", Take, UNCHANGED <<shm, dispatched>>
  PROVE  ShmInv'
<1>0. RingInv /\ TraceInv BY DEF ShmInv
<1>1. /\ UNCHANGED <<hold, write, read, mark, log, count, state, pc, old, claim, delivered, stopAt>>
      /\ cpc = "take"
      /\ \/ cpc' = "settle" /\ proc' = proc
         \/ cpc' = "dispatch" /\ proc' = proc + 1 /\ Idx(proc) # Idx(write)
  BY DEF Take, slots, prod, hist
<1>2. UNCHANGED <<process, crashes, recovered, orphans>> BY DEF shm
<1>3. read = proc BY <1>0, <1>1 DEF RingInv, LifeInv, ConsumerInv
<1>4. proc' \in Nat /\ read <= proc' /\ proc' <= write BY <1>0, <1>1, ShmCounts
<1>5. ShmTypeOK'
  <2>1. TypeOK' BY <1>0, <1>1, <1>4 DEF RingInv, ShmTypeOK, TypeOK, ConsumerPc
  <2> QED BY <1>0, <1>2, <2>1 DEF RingInv, ShmTypeOK
<1>6. IndexOrder' BY <1>0, <1>1, <1>4 DEF RingInv, IndexOrder
<1>7. OwnerInv' BY <1>0, <1>1 DEF RingInv, OwnerInv, Owns
<1>8. SnapshotInv' /\ FreeInv' BY <1>0, <1>1 DEF RingInv, SnapshotInv, FreeInv
<1>9. LifeInv'
  <2>1. ConsumerInv' BY <1>0, <1>1, <1>3 DEF ConsumerInv
  <2> QED BY <1>0, <1>1, <1>2, <2>1 DEF RingInv, LifeInv
<1>10. Unbegun' = Unbegun /\ Unfinished' = Unfinished
  BY <1>1, <1>2 DEF Unbegun, Unfinished, ClaimsAt
<1>11. TraceInv' BY <1>0, <1>1, <1>10, TraceKept
<1> QED BY <1>5, <1>6, <1>7, <1>8, <1>9, <1>11 DEF ShmInv, RingInv

(* What the consumer is about to dispatch: the text of the published slot  *)
(* that is returned next.                                                  *)
LEMMA NextText ==
  ASSUME RingInv, TraceInv, process = "running", cpc = "dispatch"
  PROVE  /\ proc - 1 = read /\ read < write /\ log[Idx(read)] \in LogContent
         /\ read \in orphans.unbegun => OldText(read)
         /\ read \notin orphans.unbegun => log[Idx(read)].id = read
         /\ read \notin orphans.unbegun /\ read \notin orphans.unfinished => log[Idx(read)].complete
<1>1. proc - 1 = read /\ read < write BY ShmCounts DEF RingInv, LifeInv, ConsumerInv
<1>2. log[Idx(read)] \in LogContent BY ShmCounts, IdxInSlot
<1>3. \A q \in Producers : Owns(q) => claim[q] # read BY <1>1, ShmOwned, ShmCounts
<1>4. read \in Unbegun <=> read \in orphans.unbegun BY <1>3 DEF Unbegun, ClaimsAt, Owns
<1>5. read \in Unfinished <=> read \in orphans.unfinished
  BY <1>3 DEF Unfinished, ClaimsAt, Owns
<1>6. read \in read .. hold - 1 BY <1>1, ShmCounts
<1>7. IF read \in Unbegun THEN OldText(read)
      ELSE log[Idx(read)].id = read /\ (read \notin Unfinished => log[Idx(read)].complete)
  BY <1>6 DEF TraceInv, TextInv
<1> QED BY <1>1, <1>2, <1>4, <1>5, <1>7

LEMMA ConsumerDispatches ==
  ASSUME ShmInv, process = "running", DispatchLog, UNCHANGED shm,
         dispatched' = Append(dispatched, proc - 1)
  PROVE  ShmInv'
<1>0. RingInv /\ TraceInv BY DEF ShmInv
<1> DEFINE L == Len(dispatched)
<1> DEFINE text == log[Idx(read)]
<1>1. /\ UNCHANGED <<hold, write, proc, read, mark, log, count, state, pc, old, claim, stopAt>>
      /\ cpc = "dispatch" /\ cpc' = "clear"
      /\ delivered' = Append(delivered, log[Idx(proc - 1)])
  BY DEF DispatchLog, idx, slots, prod
<1>2. UNCHANGED <<process, crashes, recovered, orphans>> BY DEF shm
<1>3. /\ proc - 1 = read /\ read < write /\ text \in LogContent
      /\ read \in orphans.unbegun => OldText(read)
      /\ read \notin orphans.unbegun => text.id = read
      /\ read \notin orphans.unbegun /\ read \notin orphans.unfinished => text.complete
  BY <1>0, <1>1, NextText
<1>4. /\ L \in Nat /\ Len(delivered) = L /\ dispatched \in Seq(Nat) /\ delivered \in Seq(LogContent)
      /\ \A k \in 1 .. L : dispatched[k] \in Nat
      /\ dispatched = <<>> <=> L = 0
  BY <1>0, DispatchedType DEF TraceInv, DispatchInv
<1>5. /\ read \in Nat /\ write \in Nat /\ proc \in Nat /\ BUFFER_LEN \in Nat /\ BUFFER_LEN > 1
      /\ crashes \in Nat
  BY <1>0, ShmCounts, DispatchedType
<1>6. /\ Len(dispatched') = L + 1 /\ Len(delivered') = L + 1
      /\ dispatched'[L + 1] = read /\ delivered'[L + 1] = text
      /\ \A k \in 1 .. L : dispatched'[k] = dispatched[k] /\ delivered'[k] = delivered[k]
      /\ dispatched' \in Seq(Nat) /\ delivered' \in Seq(LogContent)
  BY <1>1, <1>3, <1>4, <1>5
<1>7. /\ L = 0 => read = 0
      /\ L > 0 => dispatched[L] \in {read - 1, read}
  BY <1>0, <1>4 DEF TraceInv, DispatchInv, LastLog
<1> HIDE DEF L, text
<1>8. ShmTypeOK'
  <2>1. TypeOK' BY <1>0, <1>1, <1>6 DEF RingInv, ShmTypeOK, TypeOK, ConsumerPc
  <2> QED BY <1>0, <1>2, <1>6, <2>1 DEF RingInv, ShmTypeOK
<1>9. IndexOrder' /\ SnapshotInv' /\ FreeInv'
  BY <1>0, <1>1 DEF RingInv, IndexOrder, SnapshotInv, FreeInv
<1>10. OwnerInv' BY <1>0, <1>1 DEF RingInv, OwnerInv, Owns
<1>11. LifeInv'
  <2>1. ConsumerInv' BY <1>0, <1>1 DEF RingInv, LifeInv, ConsumerInv
  <2> QED BY <1>0, <1>1, <1>2, <2>1 DEF RingInv, LifeInv
<1>12. Unbegun' = Unbegun /\ Unfinished' = Unfinished
  BY <1>1, <1>2 DEF Unbegun, Unfinished, ClaimsAt
<1>13. OrphanInv' BY <1>0, <1>1, <1>2 DEF TraceInv, OrphanInv
<1>14. TextInv'
  <2>1. ASSUME NEW n, OldText(n) PROVE OldText(n)'
    <3>1. CASE n < BUFFER_LEN BY <1>1, <2>1, <3>1 DEF OldText
    <3>2. CASE ~(n < BUFFER_LEN)
      <4>1. PICK j \in 1 .. L : dispatched[j] = n - BUFFER_LEN /\ delivered[j] = log[Idx(n)]
        BY <2>1, <3>2 DEF OldText, L
      <4>2. j \in 1 .. L + 1 /\ dispatched'[j] = n - BUFFER_LEN /\ delivered'[j] = log'[Idx(n)]
        BY <1>1, <1>4, <1>6, <4>1
      <4> QED BY <1>6, <3>2, <4>2 DEF OldText
    <3> QED BY <3>1, <3>2
  <2> QED BY <1>0, <1>1, <1>12, <2>1 DEF TraceInv, TextInv
<1>15. LastLog' = read /\ Distinct' = read + 1
  BY <1>4, <1>6 DEF LastLog, Distinct
<1>16. Distinct \in {read, read + 1}
  BY <1>4, <1>5, <1>7 DEF Distinct, LastLog, L
<1>17. DispatchInv'
  <2>1. \A k \in 1 .. L + 1 : dispatched'[k] < write
    BY <1>0, <1>3, <1>4, <1>6 DEF TraceInv, DispatchInv, L
  <2>2. Dispatched' = 0 .. Distinct' - 1
    <3>1. Dispatched' = Dispatched \cup {read}
      <4>1. Dispatched' = {dispatched'[k] : k \in 1 .. L + 1} BY <1>6 DEF Dispatched
      <4>2. Dispatched = {dispatched[k] : k \in 1 .. L} BY DEF Dispatched, L
      <4>3. \A k \in 1 .. L + 1 : k \in 1 .. L \/ k = L + 1 BY <1>4
      <4>4. L + 1 \in 1 .. L + 1 /\ \A k \in 1 .. L : k \in 1 .. L + 1 BY <1>4
      <4>5. ASSUME NEW x \in Dispatched' PROVE x \in Dispatched \cup {read}
        <5>1. PICK k \in 1 .. L + 1 : x = dispatched'[k] BY <4>1, <4>5
        <5> QED BY <1>6, <4>2, <4>3, <5>1
      <4>6. ASSUME NEW x \in Dispatched PROVE x \in Dispatched'
        <5>1. PICK k \in 1 .. L : x = dispatched[k] BY <4>2, <4>6
        <5> QED BY <1>6, <4>1, <4>4, <5>1
      <4>7. read \in Dispatched' BY <1>6, <4>1, <4>4
      <4> QED BY <4>5, <4>6, <4>7
    <3>2. Dispatched = 0 .. Distinct - 1 BY <1>0 DEF TraceInv, DispatchInv
    <3> QED BY <1>5, <1>15, <1>16, <3>1, <3>2
  <2>3. dispatched' # <<>> BY <1>4, <1>6
  <2>4. LastLog' = proc' - 1 /\ delivered'[Len(dispatched')] = log'[Idx(read')]
    BY <1>1, <1>3, <1>6, <1>15 DEF text
  <2> QED BY <1>1, <1>6, <1>15, <2>1, <2>2, <2>3, <2>4 DEF DispatchInv
<1>18. RepeatInv'
  <2>1. L + 1 <= read + 1 + crashes
    <3>1. CASE L > 0 /\ dispatched[L] = read
      <4>1. Again BY <1>1, <1>4, <3>1 DEF Again, LastLog, L
      <4>2. Distinct = read + 1 BY <1>4, <3>1 DEF Distinct, LastLog, L
      <4> QED BY <1>0, <1>5, <4>1, <4>2 DEF TraceInv, RepeatInv, L
    <3>2. CASE ~(L > 0 /\ dispatched[L] = read)
      <4>1. Distinct = read BY <1>4, <1>5, <1>7, <3>2 DEF Distinct, LastLog, L
      <4>2. L <= Distinct + crashes BY <1>0 DEF TraceInv, RepeatInv, L
      <4> QED BY <1>4, <1>5, <4>1, <4>2
    <3> QED BY <3>1, <3>2
  <2> QED BY <1>1, <1>2, <1>6, <1>15, <2>1 DEF RepeatInv, Again
<1>19. NothingSkipped'
  <2>1. ASSUME NEW k \in 1 .. L + 1
        PROVE  dispatched'[k] \in IF k = 1 THEN {0} ELSE {dispatched'[k-1], dispatched'[k-1] + 1}
    <3>1. CASE k = L + 1
      <4>1. CASE L = 0 BY <1>6, <1>7, <3>1, <4>1
      <4>2. CASE L > 0
        <5>1. k # 1 /\ k - 1 = L /\ L \in 1 .. L BY <1>4, <3>1, <4>2
        <5>2. dispatched'[k - 1] = dispatched[L] BY <1>6, <5>1
        <5> QED BY <1>4, <1>5, <1>6, <1>7, <3>1, <4>2, <5>1, <5>2
      <4>3. L = 0 \/ L > 0 BY <1>4
      <4> QED BY <4>1, <4>2, <4>3
    <3>2. CASE k # L + 1
      <4>1. k \in 1 .. L BY <1>4, <3>2
      <4>2. dispatched[k] \in IF k = 1 THEN {0} ELSE {dispatched[k-1], dispatched[k-1] + 1}
        BY <1>0, <4>1 DEF TraceInv, NothingSkipped, L
      <4>3. k # 1 => k - 1 \in 1 .. L BY <1>4, <4>1
      <4> QED BY <1>6, <4>1, <4>2, <4>3
    <3> QED BY <3>1, <3>2
  <2> QED BY <1>6, <2>1 DEF NothingSkipped
<1>20. PublishedIntact'
  <2>1. ASSUME NEW k \in 1 .. L + 1, dispatched'[k] \notin recovered
        PROVE  delivered'[k] = [id |-> dispatched'[k], complete |-> TRUE]
    <3>1. CASE k = L + 1
      <4>1. read \notin orphans.unbegun /\ read \notin orphans.unfinished
        BY <1>0, <1>6, <2>1, <3>1, OrphansPublished
      <4> QED BY <1>3, <1>6, <3>1, <4>1 DEF LogContent
    <3>2. CASE k # L + 1
      <4>1. k \in 1 .. L BY <1>4, <3>2
      <4> QED BY <1>0, <1>6, <2>1, <4>1 DEF TraceInv, PublishedIntact, L
    <3> QED BY <3>1, <3>2
  <2> QED BY <1>2, <1>6, <2>1 DEF PublishedIntact
<1>21. RecoveredText'
  <2>1. ASSUME NEW k \in 1 .. L + 1
        PROVE  IF dispatched'[k] \notin orphans.unbegun
               THEN /\ delivered'[k].id = dispatched'[k]
                    /\ dispatched'[k] \notin orphans.unfinished => delivered'[k].complete
               ELSE IF dispatched'[k] < BUFFER_LEN THEN delivered'[k].id = -1
               ELSE \E j \in 1 .. k - 1 : /\ dispatched'[j] = dispatched'[k] - BUFFER_LEN
                                          /\ delivered'[k] = delivered'[j]
    <3>1. CASE k = L + 1
      <4>1. CASE read \notin orphans.unbegun BY <1>3, <1>6, <3>1, <4>1
      <4>2. CASE read \in orphans.unbegun /\ read < BUFFER_LEN
        BY <1>3, <1>6, <3>1, <4>2 DEF OldText, text
      <4>3. CASE read \in orphans.unbegun /\ ~(read < BUFFER_LEN)
        <5>1. PICK j \in 1 .. L : dispatched[j] = read - BUFFER_LEN /\ delivered[j] = text
          BY <1>3, <4>3 DEF OldText, text, L
        <5>2. j \in 1 .. k - 1 BY <1>4, <3>1
        <5> QED BY <1>6, <3>1, <4>3, <5>1, <5>2
      <4> QED BY <4>1, <4>2, <4>3
    <3>2. CASE k # L + 1
      <4>1. k \in 1 .. L BY <1>4, <3>2
      <4>2. IF dispatched[k] \notin orphans.unbegun
            THEN /\ delivered[k].id = dispatched[k]
                 /\ dispatched[k] \notin orphans.unfinished => delivered[k].complete
            ELSE IF dispatched[k] < BUFFER_LEN THEN delivered[k].id = -1
            ELSE \E j \in 1 .. k - 1 : /\ dispatched[j] = dispatched[k] - BUFFER_LEN
                                       /\ delivered[k] = delivered[j]
        BY <1>0, <4>1 DEF TraceInv, RecoveredText, L
      <4>3. \A j \in 1 .. k - 1 : j \in 1 .. L BY <1>4, <4>1
      <4> QED BY <1>6, <4>1, <4>2, <4>3
    <3> QED BY <3>1, <3>2
  <2> QED BY <1>1, <1>2, <1>6, <2>1 DEF RecoveredText
<1> QED BY <1>8, <1>9, <1>10, <1>11, <1>13, <1>14, <1>17, <1>18, <1>19, <1>20, <1>21
      DEF ShmInv, RingInv, TraceInv

LEMMA ConsumerClears ==
  ASSUME ShmInv, process = "running", ClearMark, UNCHANGED <<shm, dispatched>>
  PROVE  ShmInv'
<1>0. RingInv /\ TraceInv BY DEF ShmInv
<1>1. /\ UNCHANGED <<hold, write, proc, read, log, state, pc, old, claim, delivered, stopAt>>
      /\ cpc = "clear" /\ cpc' = "free"
      /\ mark' = [mark EXCEPT ![Idx(proc - 1)] = "INVALID"]
      /\ count' = [count EXCEPT !.processed = @ + 1]
  BY DEF ClearMark, idx, prod, hist
<1>2. UNCHANGED <<process, crashes, recovered, orphans>> BY DEF shm
<1>3. proc - 1 = read /\ read + 1 = proc /\ read < write
  BY <1>0, <1>1, ShmCounts DEF RingInv, LifeInv, ConsumerInv
<1>4. mark'[Idx(read)] = "INVALID" /\ mark' \in [Slot -> Mark]
  BY <1>0, <1>1, <1>3, IdxInSlot, ShmCounts DEF Mark
<1>5. \A n \in Nat : read < n /\ n < read + BUFFER_LEN => mark'[Idx(n)] = mark[Idx(n)]
  BY <1>0, <1>1, <1>3, Window, IdxInSlot, ShmCounts
<1>6. ShmTypeOK'
  <2>1. count' \in [hold : Nat, push : Nat, processed : Nat]
    BY <1>0, <1>1, CounterType DEF RingInv, ShmTypeOK, TypeOK
  <2>2. TypeOK' BY <1>0, <1>1, <1>4, <2>1 DEF RingInv, ShmTypeOK, TypeOK, ConsumerPc
  <2> QED BY <1>0, <1>2, <2>2 DEF RingInv, ShmTypeOK
<1>7. IndexOrder' BY <1>0, <1>1 DEF RingInv, IndexOrder
<1>8. OwnerInv'
  <2>1. ASSUME NEW q \in Producers, Owns(q) PROVE mark'[Idx(claim[q])] # "READY"
    <3>1. /\ claim[q] \in Nat /\ write <= claim[q] /\ claim[q] < read + BUFFER_LEN
          /\ mark[Idx(claim[q])] # "READY"
      BY <1>0, <2>1, ShmOwned
    <3>2. read < claim[q] BY <1>0, <1>3, <3>1, ShmCounts
    <3> QED BY <1>5, <3>1, <3>2
  <2>2. \A q \in Producers : Owns(q)' <=> Owns(q) BY <1>1 DEF Owns
  <2> QED BY <1>0, <1>1, <2>1, <2>2 DEF RingInv, OwnerInv
<1>9. SnapshotInv'
  <2>1. mark'[Idx(write)] = mark[Idx(write)] \/ ~(write < hold)
    BY <1>0, <1>3, <1>5, ShmCounts
  <2> QED BY <1>0, <1>1, <2>1 DEF RingInv, SnapshotInv
<1>10. FreeInv'
  <2>1. ASSUME NEW n \in hold .. read + BUFFER_LEN - 1 PROVE mark'[Idx(n)] = mark[Idx(n)]
    BY <1>0, <1>3, <1>5, ShmCounts
  <2> QED BY <1>0, <1>1, <2>1 DEF RingInv, FreeInv
<1>11. LifeInv'
  <2>1. ConsumerInv' BY <1>1, <1>3, <1>4 DEF ConsumerInv
  <2> QED BY <1>0, <1>1, <1>2, <2>1 DEF RingInv, LifeInv
<1>12. Unbegun' = Unbegun /\ Unfinished' = Unfinished
  BY <1>1, <1>2 DEF Unbegun, Unfinished, ClaimsAt
<1>13. TraceInv' BY <1>0, <1>1, <1>12, TraceKept
<1> QED BY <1>6, <1>7, <1>8, <1>9, <1>10, <1>11, <1>13 DEF ShmInv, RingInv

(* The slot is returned: it is free, with the text it delivered.           *)
LEMMA ConsumerReturns ==
  ASSUME ShmInv, process = "running", FreeSlot, Idx(read) # Idx(proc), mark[Idx(read)] = "INVALID",
         UNCHANGED <<shm, dispatched>>
  PROVE  ShmInv'
<1>0. RingInv /\ TraceInv BY DEF ShmInv
<1>1. /\ UNCHANGED <<hold, write, proc, mark, log, count, state, pc, old, claim, delivered, stopAt>>
      /\ cpc = "free" /\ cpc' = "free" /\ read' = read + 1
  BY DEF FreeSlot, slots, prod, hist
<1>2. UNCHANGED <<process, crashes, recovered, orphans>> BY DEF shm
<1>3. read + 1 = proc BY <1>0, <1>1, ShmCompare DEF RingInv, LifeInv, ConsumerInv
<1>4. /\ read \in Nat /\ hold \in Nat /\ write \in Nat /\ proc \in Nat /\ BUFFER_LEN \in Nat
      /\ BUFFER_LEN > 1 /\ read + BUFFER_LEN \in Nat
  BY <1>0, ShmCounts
<1>5. Idx(read + BUFFER_LEN) = Idx(read) BY <1>4, IdxWraps
<1>6. ShmTypeOK'
  <2>1. TypeOK' BY <1>0, <1>1, <1>4 DEF RingInv, ShmTypeOK, TypeOK
  <2> QED BY <1>0, <1>2, <2>1 DEF RingInv, ShmTypeOK
<1>7. IndexOrder' BY <1>0, <1>1, <1>3, <1>4, ShmCounts DEF IndexOrder
<1>8. OwnerInv' BY <1>0, <1>1 DEF RingInv, OwnerInv, Owns
<1>9. SnapshotInv' BY <1>0, <1>1, <1>4 DEF RingInv, SnapshotInv
<1>10. FreeInv'
  <2>1. ASSUME NEW n \in hold .. read' + BUFFER_LEN - 1 PROVE mark[Idx(n)] = "INVALID"
    <3>1. CASE n = read + BUFFER_LEN BY <1>5, <3>1
    <3>2. CASE n # read + BUFFER_LEN
      <4>1. n \in hold .. read + BUFFER_LEN - 1 BY <1>1, <1>4, <3>2
      <4> QED BY <1>0, <4>1 DEF RingInv, FreeInv
    <3> QED BY <3>1, <3>2
  <2> QED BY <1>1, <2>1 DEF FreeInv
<1>11. LifeInv'
  <2>1. ConsumerInv' BY <1>1, <1>3 DEF ConsumerInv
  <2> QED BY <1>0, <1>1, <1>2, <2>1 DEF RingInv, LifeInv
<1>12. Unbegun' = Unbegun /\ Unfinished' = Unfinished
  BY <1>1, <1>2 DEF Unbegun, Unfinished, ClaimsAt
<1>13. OrphanInv' BY <1>0, <1>1, <1>2 DEF TraceInv, OrphanInv
<1>14. /\ LastLog = read /\ dispatched # <<>> /\ Len(dispatched) \in Nat /\ Len(dispatched) > 0
       /\ delivered[Len(dispatched)] = log[Idx(read)]
  <2>1. dispatched # <<>> BY <1>0, <1>1 DEF TraceInv, DispatchInv
  <2>2. Len(dispatched) \in Nat /\ Len(dispatched) > 0 BY <1>0, <2>1, DispatchedType
  <2>3. LastLog = proc - 1 BY <1>0, <1>1 DEF TraceInv, DispatchInv
  <2>4. LastLog = read BY <1>3, <1>4, <2>3
  <2>5. delivered[Len(dispatched)] = log[Idx(read)]
    BY <1>0, <1>1, <2>4 DEF TraceInv, DispatchInv
  <2> QED BY <2>1, <2>2, <2>4, <2>5
<1>15. TextInv'
  <2>1. \A n : OldText(n)' <=> OldText(n) BY <1>1 DEF OldText
  <2>2. OldText(read + BUFFER_LEN)
    <3>1. ~(read + BUFFER_LEN < BUFFER_LEN) /\ (read + BUFFER_LEN) - BUFFER_LEN = read BY <1>4
    <3>2. Len(dispatched) \in 1 .. Len(dispatched) /\ dispatched[Len(dispatched)] = read
      BY <1>14 DEF LastLog
    <3> QED BY <1>5, <1>14, <3>1, <3>2 DEF OldText
  <2>3. ASSUME NEW n \in hold .. read' + BUFFER_LEN - 1 PROVE OldText(n)
    <3>1. CASE n = read + BUFFER_LEN BY <2>2, <3>1
    <3>2. CASE n # read + BUFFER_LEN
      <4>1. n \in hold .. read + BUFFER_LEN - 1 BY <1>1, <1>4, <3>2
      <4> QED BY <1>0, <4>1 DEF TraceInv, TextInv
    <3> QED BY <3>1, <3>2
  <2>4. \A n \in read' .. hold - 1 : n \in read .. hold - 1 BY <1>1, <1>4
  <2> QED BY <1>0, <1>1, <1>12, <2>1, <2>3, <2>4 DEF TraceInv, TextInv
<1>16. read = read' - 1 /\ read # read' BY <1>1, <1>4
<1>17. LastLog' = read /\ Distinct' = Distinct /\ Dispatched' = Dispatched
  BY <1>14 DEF LastLog, Distinct, Dispatched
<1>18. DispatchInv'
  <2>1. LastLog' \in {read' - 1, read'} /\ LastLog' # read' BY <1>16, <1>17
  <2>2. LastLog' = proc' - 1 BY <1>1, <1>3, <1>4, <1>17
  <2>3. /\ Len(delivered) = Len(dispatched) /\ \A k \in 1 .. Len(dispatched) : dispatched[k] < write
        /\ Dispatched = 0 .. Distinct - 1
    BY <1>0 DEF TraceInv, DispatchInv
  <2> QED BY <1>1, <1>14, <1>17, <2>1, <2>2, <2>3 DEF DispatchInv
<1>19. RepeatInv' BY <1>0, <1>1, <1>2, <1>17 DEF TraceInv, RepeatInv, Again
<1>20. NothingSkipped' BY <1>0 DEF TraceInv, NothingSkipped
<1>21. PublishedIntact' BY <1>0, <1>1, <1>2 DEF TraceInv, PublishedIntact
<1>22. RecoveredText' BY <1>0, <1>1, <1>2 DEF TraceInv, RecoveredText
<1> QED BY <1>6, <1>7, <1>8, <1>9, <1>10, <1>11, <1>13, <1>15, <1>18, <1>19, <1>20, <1>21, <1>22
      DEF ShmInv, RingInv, TraceInv

(* Every slot taken was returned: the consumer goes on.                    *)
LEMMA ConsumerGoesOn ==
  ASSUME ShmInv, process = "running", FreeSlot,
         ~(Idx(read) # Idx(proc) /\ mark[Idx(read)] = "INVALID"), UNCHANGED <<shm, dispatched>>
  PROVE  ShmInv'
<1>0. RingInv /\ TraceInv BY DEF ShmInv
<1>1. /\ UNCHANGED <<hold, write, proc, read, mark, log, count, state, pc, old, claim, delivered, stopAt>>
      /\ cpc = "free" /\ cpc' = "take"
  BY DEF FreeSlot, slots, prod, hist
<1>2. UNCHANGED <<process, crashes, recovered, orphans>> BY DEF shm
<1>3. read = proc
  <2>1. read = proc \/ (read + 1 = proc /\ mark[Idx(read)] = "INVALID")
    BY <1>0, <1>1 DEF RingInv, LifeInv, ConsumerInv
  <2>2. read + 1 = proc => Idx(read) # Idx(proc) BY <1>0, ShmCounts, ShmCompare
  <2> QED BY <2>1, <2>2
<1>4. ShmTypeOK'
  <2>1. TypeOK' BY <1>0, <1>1 DEF RingInv, ShmTypeOK, TypeOK, ConsumerPc
  <2> QED BY <1>0, <1>2, <2>1 DEF RingInv, ShmTypeOK
<1>5. IndexOrder' /\ SnapshotInv' /\ FreeInv'
  BY <1>0, <1>1 DEF RingInv, IndexOrder, SnapshotInv, FreeInv
<1>6. OwnerInv' BY <1>0, <1>1 DEF RingInv, OwnerInv, Owns
<1>7. LifeInv'
  <2>1. ConsumerInv' BY <1>1, <1>3 DEF ConsumerInv
  <2> QED BY <1>0, <1>1, <1>2, <2>1 DEF RingInv, LifeInv
<1>8. Unbegun' = Unbegun /\ Unfinished' = Unfinished
  BY <1>1, <1>2 DEF Unbegun, Unfinished, ClaimsAt
<1>9. OrphanInv' BY <1>0, <1>1, <1>2 DEF TraceInv, OrphanInv
<1>10. TextInv'
  <2>1. \A n : OldText(n)' <=> OldText(n) BY <1>1 DEF OldText
  <2> QED BY <1>0, <1>1, <1>8, <2>1 DEF TraceInv, TextInv
<1>11. LastLog' = LastLog /\ Distinct' = Distinct /\ Dispatched' = Dispatched
  BY DEF LastLog, Distinct, Dispatched
<1>12. DispatchInv' BY <1>0, <1>1, <1>11 DEF TraceInv, DispatchInv
<1>13. RepeatInv'
  <2>1. LastLog = proc - 1 BY <1>0, <1>1 DEF TraceInv, DispatchInv
  <2>2. LastLog # read BY <1>0, <1>3, <2>1, ShmCounts
  <2> QED BY <1>0, <1>1, <1>2, <1>11, <2>2 DEF TraceInv, RepeatInv, Again
<1>14. NothingSkipped' BY <1>0 DEF TraceInv, NothingSkipped
<1>15. PublishedIntact' BY <1>0, <1>1, <1>2 DEF TraceInv, PublishedIntact
<1>16. RecoveredText' BY <1>0, <1>1, <1>2 DEF TraceInv, RecoveredText
<1> QED BY <1>4, <1>5, <1>6, <1>7, <1>9, <1>10, <1>12, <1>13, <1>14, <1>15, <1>16
      DEF ShmInv, RingInv, TraceInv

LEMMA ConsumerSettles ==
  ASSUME ShmInv, process = "running", Settle \/ Poll, UNCHANGED <<shm, dispatched>>
  PROVE  ShmInv'
<1>0. RingInv /\ TraceInv BY DEF ShmInv
<1>1. /\ UNCHANGED <<hold, write, proc, read, mark, log, count, pc, old, claim, delivered, stopAt>>
      /\ \/ cpc = "settle" /\ cpc' = "poll" /\ state' = "RUNNING"
         \/ cpc = "poll" /\ cpc' = "take" /\ state' = state /\ state = "RUNNING"
  BY <1>0 DEF Settle, Poll, idx, slots, prod, hist, RingInv, LifeInv
<1>2. UNCHANGED <<process, crashes, recovered, orphans>> BY DEF shm
<1>3. ShmTypeOK'
  <2>1. TypeOK' BY <1>0, <1>1 DEF RingInv, ShmTypeOK, TypeOK, ConsumerPc, ChannelState
  <2> QED BY <1>0, <1>2, <2>1 DEF RingInv, ShmTypeOK
<1>4. IndexOrder' /\ SnapshotInv' /\ FreeInv'
  BY <1>0, <1>1 DEF RingInv, IndexOrder, SnapshotInv, FreeInv
<1>5. OwnerInv' BY <1>0, <1>1 DEF RingInv, OwnerInv, Owns
<1>6. LifeInv'
  <2>1. ConsumerInv' BY <1>0, <1>1 DEF RingInv, LifeInv, ConsumerInv
  <2> QED BY <1>0, <1>1, <1>2, <2>1 DEF RingInv, LifeInv
<1>7. Unbegun' = Unbegun /\ Unfinished' = Unfinished
  BY <1>1, <1>2 DEF Unbegun, Unfinished, ClaimsAt
<1>8. TraceInv' BY <1>0, <1>1, <1>7, TraceKept
<1> QED BY <1>3, <1>4, <1>5, <1>6, <1>8 DEF ShmInv, RingInv

-----------------------------------------------------------------------------
(* Crashes and the recovery *)

(* The claims of the dead become orphans.                                  *)
LEMMA CrashStep ==
  ASSUME ShmInv, Crash
  PROVE  ShmInv'
<1>0. RingInv /\ TraceInv BY DEF ShmInv
<1>1. /\ UNCHANGED <<hold, write, proc, read, mark, log, count, state, delivered, stopAt,
                     recovered, dispatched>>
      /\ crashes' = crashes + 1 /\ crashes < MaxCrashes /\ process' = "attaching"
      /\ orphans' = [unbegun    |-> orphans.unbegun \cup ClaimsAt({"hold_mark", "init"}),
                     unfinished |-> orphans.unfinished \cup ClaimsAt({"push", "ready"})]
      /\ pc' = [p \in Producers |-> "idle"] /\ old' = [p \in Producers |-> 0]
      /\ claim' = [p \in Producers |-> 0] /\ cpc' = "take"
  BY DEF Crash, idx, slots, hist
<1>2. orphans'.unbegun = Unbegun /\ orphans'.unfinished = Unfinished
  BY <1>1 DEF Unbegun, Unfinished
<1>3. ASSUME NEW n \in ClaimsAt({"hold_mark", "init"}) \cup ClaimsAt({"push", "ready"})
      PROVE  n \in Nat /\ write <= n /\ n < hold
  <2>1. PICK p \in Producers : Owns(p) /\ n = claim[p] BY <1>3 DEF ClaimsAt, Owns
  <2> QED BY <1>0, <2>1, ShmOwned
<1>4. ShmTypeOK'
  <2>1. TypeOK' BY <1>0, <1>1 DEF RingInv, ShmTypeOK, TypeOK, ProducerPc, ConsumerPc
  <2>2. Unbegun \subseteq Nat /\ Unfinished \subseteq Nat
    BY <1>0, <1>3 DEF RingInv, ShmTypeOK, Unbegun, Unfinished
  <2>3. crashes' \in 0 .. MaxCrashes
    BY <1>0, <1>1, CrashAssumption DEF RingInv, ShmTypeOK
  <2> QED BY <1>0, <1>1, <1>2, <2>1, <2>2, <2>3 DEF RingInv, ShmTypeOK
<1>5. IndexOrder' /\ FreeInv' BY <1>0, <1>1 DEF RingInv, IndexOrder, FreeInv
<1>6. OwnerInv' /\ SnapshotInv' BY <1>1 DEF OwnerInv, Owns, SnapshotInv
<1>7. LifeInv' BY <1>0, <1>1 DEF RingInv, LifeInv
<1>8. Unbegun' = Unbegun /\ Unfinished' = Unfinished
  <2>1. \A q \in Producers : pc'[q] = "idle" BY <1>1
  <2> QED BY <1>2, <2>1 DEF Unbegun, Unfinished, ClaimsAt
<1>9. OrphanInv'
  <2>1. ASSUME NEW n \in Unbegun \cup Unfinished
        PROVE  n < hold /\ (n \in recovered \/ write <= n)
    BY <1>0, <1>3, <2>1 DEF TraceInv, OrphanInv, Unbegun, Unfinished
  <2> QED BY <1>0, <1>1, <1>2, <2>1 DEF TraceInv, OrphanInv
<1>10. TextInv'
  <2>1. \A n : OldText(n)' <=> OldText(n) BY <1>1 DEF OldText
  <2> QED BY <1>0, <1>1, <1>8, <2>1 DEF TraceInv, TextInv
<1>11. LastLog' = LastLog /\ Distinct' = Distinct /\ Dispatched' = Dispatched
  BY <1>1 DEF LastLog, Distinct, Dispatched
<1>12. DispatchInv' BY <1>0, <1>1, <1>11 DEF TraceInv, DispatchInv
<1>13. RepeatInv'
  <2>1. Len(dispatched) <= Distinct + crashes /\ Len(dispatched) \in Nat /\ crashes \in Nat
    BY <1>0, DispatchedType DEF TraceInv, RepeatInv
  <2>2. Distinct \in Int
    <3>1. CASE dispatched = <<>> BY <3>1 DEF Distinct
    <3>2. CASE dispatched # <<>>
      <4>1. LastLog \in Nat BY <1>0, <3>2, DispatchedType DEF LastLog
      <4> QED BY <3>2, <4>1 DEF Distinct
    <3> QED BY <3>1, <3>2
  <2>3. Len(dispatched) + 1 <= Distinct + crashes' BY <1>1, <2>1, <2>2
  <2>4. Len(dispatched) <= Distinct + crashes' BY <2>1, <2>2, <2>3, <1>1
  <2> QED BY <1>1, <1>11, <2>3, <2>4 DEF RepeatInv
<1>14. NothingSkipped' BY <1>0, <1>1 DEF TraceInv, NothingSkipped
<1>15. PublishedIntact' BY <1>0, <1>1 DEF TraceInv, PublishedIntact
<1>16. RecoveredText'
  <2>1. ASSUME NEW k \in 1 .. Len(dispatched)
        PROVE  /\ dispatched[k] \in orphans'.unbegun <=> dispatched[k] \in orphans.unbegun
               /\ dispatched[k] \in orphans'.unfinished <=> dispatched[k] \in orphans.unfinished
    <3>1. dispatched[k] \in Nat /\ dispatched[k] < write
      BY <1>0, DispatchedType DEF TraceInv, DispatchInv
    <3>2. dispatched[k] \notin ClaimsAt({"hold_mark", "init"}) \cup ClaimsAt({"push", "ready"})
      BY <1>0, <1>3, <3>1, ShmCounts
    <3> QED BY <1>1, <3>2
  <2> QED BY <1>0, <1>1, <2>1 DEF TraceInv, RecoveredText
<1> QED BY <1>4, <1>5, <1>6, <1>7, <1>9, <1>10, <1>12, <1>13, <1>14, <1>15, <1>16
      DEF ShmInv, RingInv, TraceInv

LEMMA RecoverStep ==
  ASSUME ShmInv, RecoverSlot
  PROVE  ShmInv'
<1>0. RingInv /\ TraceInv BY DEF ShmInv
<1>1. /\ UNCHANGED <<hold, proc, read, log, count, state, pc, old, claim, cpc, delivered, stopAt,
                     process, crashes, orphans, dispatched>>
      /\ process = "attaching" /\ write' = write + 1 /\ recovered' = recovered \cup {write}
      /\ mark' = [mark EXCEPT ![Idx(write)] = "READY"] /\ Idx(write) # Idx(hold)
  BY DEF RecoverSlot, prod, hist
<1>2. write \in Nat /\ write < hold /\ write' \in Nat /\ Idx(write) \in Slot
  BY <1>0, <1>1, ShmCounts, IdxInSlot
<1>3. cpc = "take" /\ \A p \in Producers : pc[p] = "idle" BY <1>0, <1>1 DEF RingInv, LifeInv
<1>4. ShmTypeOK'
  <2>1. mark' \in [Slot -> Mark] BY <1>0, <1>1, <1>2, ShmCounts DEF Mark
  <2>2. TypeOK' BY <1>0, <1>1, <1>2, <2>1 DEF RingInv, ShmTypeOK, TypeOK
  <2> QED BY <1>0, <1>1, <1>2, <2>2 DEF RingInv, ShmTypeOK
<1>5. IndexOrder' BY <1>0, <1>1, <1>2, ShmCounts DEF IndexOrder
<1>6. OwnerInv' /\ SnapshotInv' BY <1>1, <1>3 DEF OwnerInv, Owns, SnapshotInv
<1>7. FreeInv'
  <2>1. ASSUME NEW n \in hold .. read + BUFFER_LEN - 1 PROVE mark'[Idx(n)] = mark[Idx(n)]
    <3>1. n \in Nat /\ read <= n /\ n < read + BUFFER_LEN /\ n # write
      BY <1>0, <1>2, ShmCounts
    <3>2. Idx(n) # Idx(write) BY <1>0, <1>2, <3>1, Window, ShmCounts
    <3> QED BY <1>0, <1>1, <3>1, <3>2, IdxInSlot, ShmCounts
  <2> QED BY <1>0, <1>1, <2>1 DEF RingInv, FreeInv
<1>8. LifeInv' BY <1>0, <1>1, <1>3 DEF RingInv, LifeInv
<1>9. Unbegun' = Unbegun /\ Unfinished' = Unfinished
  BY <1>1 DEF Unbegun, Unfinished, ClaimsAt
<1>10. OrphanInv'
  <2>1. ASSUME NEW n \in recovered' PROVE n < write'
    <3>1. n \in Nat /\ (n < write \/ n = write)
      BY <1>0, <1>1, <1>2, <2>1 DEF TraceInv, OrphanInv, RingInv, ShmTypeOK
    <3> QED BY <1>1, <1>2, <3>1
  <2>2. ASSUME NEW n \in orphans.unbegun \cup orphans.unfinished
        PROVE  n < hold /\ (n \in recovered' \/ write' <= n)
    <3>1. n \in Nat BY <1>0, <2>2 DEF RingInv, ShmTypeOK
    <3>2. n < hold /\ (n \in recovered \/ write <= n) BY <1>0, <2>2 DEF TraceInv, OrphanInv
    <3>3. write <= n => n = write \/ write + 1 <= n BY <1>2, <3>1
    <3> QED BY <1>1, <3>2, <3>3
  <2> QED BY <1>1, <2>1, <2>2 DEF OrphanInv
<1>11. TextInv'
  <2>1. \A n : OldText(n)' <=> OldText(n) BY <1>1 DEF OldText
  <2> QED BY <1>0, <1>1, <1>9, <2>1 DEF TraceInv, TextInv
<1>12. LastLog' = LastLog /\ Distinct' = Distinct /\ Dispatched' = Dispatched
  BY <1>1 DEF LastLog, Distinct, Dispatched
<1>13. DispatchInv'
  <2>1. \A k \in 1 .. Len(dispatched) : dispatched[k] < write'
    <3>1. ASSUME NEW k \in 1 .. Len(dispatched) PROVE dispatched[k] < write'
      <4>1. dispatched[k] \in Nat /\ dispatched[k] < write
        BY <1>0, DispatchedType DEF TraceInv, DispatchInv
      <4> QED BY <1>1, <1>2, <4>1
    <3> QED BY <3>1
  <2> QED BY <1>0, <1>1, <1>12, <2>1 DEF TraceInv, DispatchInv
<1>14. RepeatInv' BY <1>0, <1>1, <1>12 DEF TraceInv, RepeatInv, Again
<1>15. NothingSkipped' BY <1>0, <1>1 DEF TraceInv, NothingSkipped
<1>16. PublishedIntact' BY <1>0, <1>1 DEF TraceInv, PublishedIntact
<1>17. RecoveredText' BY <1>0, <1>1 DEF TraceInv, RecoveredText
<1> QED BY <1>4, <1>5, <1>6, <1>7, <1>8, <1>10, <1>11, <1>13, <1>14, <1>15, <1>16, <1>17
      DEF ShmInv, RingInv, TraceInv

LEMMA AttachStep ==
  ASSUME ShmInv, Attach
  PROVE  ShmInv'
<1>0. RingInv /\ TraceInv BY DEF ShmInv
<1>1. /\ UNCHANGED <<hold, write, read, mark, log, count, pc, old, claim, cpc, delivered, stopAt,
                     crashes, recovered, orphans, dispatched>>
      /\ process = "attaching" /\ Idx(write) = Idx(hold)
      /\ proc' = read /\ state' = "NULL" /\ process' = "running"
  BY DEF Attach, slots, prod, hist
<1>2. write = hold BY <1>0, <1>1, ShmCompare
<1>3. cpc = "take" /\ \A p \in Producers : pc[p] = "idle" BY <1>0, <1>1 DEF RingInv, LifeInv
<1>4. ShmTypeOK'
  <2>1. TypeOK' BY <1>0, <1>1 DEF RingInv, ShmTypeOK, TypeOK, ChannelState
  <2> QED BY <1>0, <1>1, <2>1 DEF RingInv, ShmTypeOK
<1>5. IndexOrder' BY <1>0, <1>1, ShmCounts DEF IndexOrder
<1>6. OwnerInv' /\ SnapshotInv' BY <1>1, <1>3 DEF OwnerInv, Owns, SnapshotInv
<1>7. FreeInv' BY <1>0, <1>1 DEF RingInv, FreeInv
<1>8. LifeInv'
  <2>1. ConsumerInv' BY <1>1, <1>3 DEF ConsumerInv
  <2> QED BY <1>1, <1>2, <1>3, <2>1 DEF LifeInv
<1>9. Unbegun' = Unbegun /\ Unfinished' = Unfinished
  BY <1>1 DEF Unbegun, Unfinished, ClaimsAt
<1>10. OrphanInv'
  <2>1. ASSUME NEW n \in orphans.unbegun \cup orphans.unfinished PROVE n < hold /\ n \in recovered
    <3>1. n \in Nat BY <1>0, <2>1 DEF RingInv, ShmTypeOK
    <3>2. n < hold /\ (n \in recovered \/ write <= n) BY <1>0, <2>1 DEF TraceInv, OrphanInv
    <3> QED BY <1>0, <1>2, <3>1, <3>2, ShmCounts
  <2> QED BY <1>0, <1>1, <2>1 DEF TraceInv, OrphanInv
<1>11. TextInv'
  <2>1. \A n : OldText(n)' <=> OldText(n) BY <1>1 DEF OldText
  <2> QED BY <1>0, <1>1, <1>9, <2>1 DEF TraceInv, TextInv
<1>12. DispatchInv' /\ RepeatInv' /\ NothingSkipped' /\ PublishedIntact' /\ RecoveredText'
  <2>1. write' \in Nat /\ write' >= write BY <1>0, <1>1, ShmCounts
  <2> QED BY <1>0, <1>1, <1>3, <2>1, DispatchKept
<1> QED BY <1>4, <1>5, <1>6, <1>7, <1>8, <1>10, <1>11, <1>12 DEF ShmInv, RingInv, TraceInv

-----------------------------------------------------------------------------
(* The invariant holds *)

LEMMA RecoveryInit == ShmInit => ShmInv
<1> SUFFICES ASSUME ShmInit PROVE ShmInv OBVIOUS
<1>1. /\ hold = 0 /\ write = 0 /\ proc = 0 /\ read = 0
      /\ mark = [s \in Slot |-> "INVALID"]
      /\ log = [s \in Slot |-> [id |-> -1, complete |-> FALSE]]
      /\ count = [hold |-> 0, push |-> 0, processed |-> 0] /\ state = "NULL"
      /\ pc = [p \in Producers |-> "idle"] /\ old = [p \in Producers |-> 0]
      /\ claim = [p \in Producers |-> 0] /\ cpc = "take" /\ delivered = <<>> /\ stopAt = 0
      /\ process = "running" /\ crashes = 0 /\ recovered = {} /\ dispatched = <<>>
      /\ orphans = [unbegun |-> {}, unfinished |-> {}]
  BY DEF ShmInit, Init
<1>2. BUFFER_LEN \in Nat /\ BUFFER_LEN > 1 BY BufferAssumption
<1>3. \A n \in 0 .. BUFFER_LEN - 1 : Idx(n) \in Slot BY <1>2, IdxInSlot
<1>4. Len(dispatched) = 0 /\ Len(delivered) = 0 BY <1>1
<1>5. ShmTypeOK
  <2>1. TypeOK
    BY <1>1 DEF TypeOK, Mark, LogContent, ChannelState, ProducerPc, ConsumerPc
  <2> QED BY <1>1, <2>1, CrashAssumption DEF ShmTypeOK
<1>6. IndexOrder BY <1>1, <1>2 DEF IndexOrder
<1>7. OwnerInv /\ SnapshotInv BY <1>1 DEF OwnerInv, Owns, SnapshotInv
<1>8. FreeInv BY <1>1, <1>2, <1>3 DEF FreeInv
<1>9. LifeInv BY <1>1 DEF LifeInv, ConsumerInv
<1>10. OrphanInv BY <1>1 DEF OrphanInv
<1>11. TextInv
  <2>1. ASSUME NEW n \in 0 .. BUFFER_LEN - 1 PROVE OldText(n)
    BY <1>1, <1>2, <1>3 DEF OldText
  <2> QED BY <1>1, <1>2, <2>1 DEF TextInv
<1>12. DispatchInv
  <2>1. Distinct = 0 /\ Dispatched = 0 .. Distinct - 1
    BY <1>1, <1>4 DEF Distinct, Dispatched
  <2> QED BY <1>1, <1>4, <2>1 DEF DispatchInv
<1>13. RepeatInv BY <1>1, <1>4 DEF RepeatInv, Again, Distinct
<1>14. NothingSkipped /\ PublishedIntact /\ RecoveredText
  BY <1>4 DEF NothingSkipped, PublishedIntact, RecoveredText
<1> QED BY <1>5, <1>6, <1>7, <1>8, <1>9, <1>10, <1>11, <1>12, <1>13, <1>14
      DEF ShmInv, RingInv, TraceInv

(* The program's steps: only DispatchLog delivers.                         *)
LEMMA ProducerRuns ==
  ASSUME ShmInv, NoLap', process = "running", NEW p \in Producers, Hold(p) \/ Push(p),
         dispatched' = IF delivered' = delivered THEN dispatched ELSE Append(dispatched, proc - 1),
         UNCHANGED shm
  PROVE  ShmInv'
<1>1. delivered' = delivered
  BY DEF Hold, Push, BeginLog, HoldState, HoldLoad, HoldFull, HoldCas, HoldMark, InitLogData,
    PushState, PushReady, WriteLoad, WriteHold, WriteMark, WriteCas, WriteCount, WriteAgain, hist
<1>2. UNCHANGED <<shm, dispatched>> BY <1>1
<1>3. CASE Quiet(p) BY <1>2, <1>3, QuietStep
<1>4. CASE HoldCas(p) /\ Idx(hold) = Idx(old[p]) BY <1>2, <1>4, ClaimStep
<1>5. CASE HoldMark(p) BY <1>2, <1>5, MarkHeldStep
<1>6. CASE InitLogData(p) BY <1>2, <1>6, BeginTextStep
<1>7. CASE PushReady(p) BY <1>2, <1>7, MarkReadyStep
<1>8. CASE WriteCas(p) /\ Idx(write) = Idx(old[p]) BY <1>2, <1>8, PublishStep
<1> QED BY <1>3, <1>4, <1>5, <1>6, <1>7, <1>8 DEF Hold, Push, Quiet

LEMMA ConsumerRuns ==
  ASSUME ShmInv, process = "running", Consumer,
         dispatched' = IF delivered' = delivered THEN dispatched ELSE Append(dispatched, proc - 1),
         UNCHANGED shm
  PROVE  ShmInv'
<1>1. CASE DispatchLog
  <2>1. delivered \in Seq(LogContent) BY DispatchedType DEF ShmInv
  <2>2. delivered' = Append(delivered, log[Idx(proc - 1)]) BY <1>1 DEF DispatchLog
  <2>3. Len(delivered') = Len(delivered) + 1 /\ Len(delivered) \in Nat BY <2>1, <2>2
  <2>4. delivered' # delivered BY <2>3
  <2>5. dispatched' = Append(dispatched, proc - 1) BY <2>4
  <2> QED BY <1>1, <2>5, ConsumerDispatches
<1>2. CASE ~DispatchLog
  <2>1. delivered' = delivered
    BY <1>2 DEF Consumer, Take, ClearMark, FreeSlot, Settle, Poll, hist
  <2>2. UNCHANGED <<shm, dispatched>> BY <2>1
  <2>3. CASE Take BY <2>2, <2>3, ConsumerTakes
  <2>4. CASE ClearMark BY <2>2, <2>4, ConsumerClears
  <2>5. CASE FreeSlot BY <2>2, <2>5, ConsumerReturns, ConsumerGoesOn
  <2>6. CASE Settle \/ Poll BY <2>2, <2>6, ConsumerSettles
  <2> QED BY <1>2, <2>3, <2>4, <2>5, <2>6 DEF Consumer
<1> QED BY <1>1, <1>2

LEMMA IdleStep ==
  ASSUME ShmInv, UNCHANGED shmVars
  PROVE  ShmInv'
<1>0. RingInv /\ TraceInv BY DEF ShmInv
<1>1. /\ UNCHANGED <<hold, write, proc, read, mark, log, count, state, pc, old, claim, cpc,
                     delivered, stopAt, process, crashes, recovered, orphans, dispatched>>
      /\ UNCHANGED shm
  BY DEF shmVars, vars, idx, slots, prod, hist, shm
<1>2. ShmTypeOK' /\ IndexOrder'
  BY <1>0, <1>1 DEF RingInv, ShmTypeOK, TypeOK, IndexOrder
<1>3. OwnerInv' /\ SnapshotInv' /\ FreeInv'
  BY <1>0, <1>1 DEF RingInv, OwnerInv, Owns, SnapshotInv, FreeInv
<1>4. LifeInv' BY <1>0, <1>1 DEF RingInv, LifeInv, ConsumerInv
<1>5. Unbegun' = Unbegun /\ Unfinished' = Unfinished BY <1>1 DEF Unbegun, Unfinished, ClaimsAt
<1>6. TraceInv' BY <1>0, <1>1, <1>5, TraceKept
<1> QED BY <1>2, <1>3, <1>4, <1>6 DEF ShmInv, RingInv

(* The inductive invariant holds whenever processes die and start, and     *)
(* threads interleave, as long as nobody is lapped.                        *)
THEOREM RecoveryInvariant == ShmSpec => []ShmInv
<1>1. ShmInit => ShmInv BY RecoveryInit
<1>2. ShmInv /\ [ShmNext /\ NoLap']_shmVars => ShmInv'
  <2> SUFFICES ASSUME ShmInv, [ShmNext /\ NoLap']_shmVars PROVE ShmInv' OBVIOUS
  <2>1. CASE Run /\ NoLap'
    <3>1. /\ process = "running" /\ UNCHANGED shm
          /\ dispatched' = IF delivered' = delivered THEN dispatched ELSE Append(dispatched, proc - 1)
      BY <2>1 DEF Run
    <3>2. ASSUME NEW p \in Producers, Hold(p) \/ Push(p) PROVE ShmInv'
      BY <2>1, <3>1, <3>2, ProducerRuns
    <3>3. CASE Consumer BY <3>1, <3>3, ConsumerRuns
    <3> QED BY <2>1, <3>2, <3>3 DEF Run
  <2>2. CASE Crash BY <2>2, CrashStep
  <2>3. CASE RecoverSlot BY <2>3, RecoverStep
  <2>4. CASE Attach BY <2>4, AttachStep
  <2>5. CASE UNCHANGED shmVars BY <2>5, IdleStep
  <2> QED BY <2>1, <2>2, <2>3, <2>4, <2>5 DEF ShmNext
<1> QED BY <1>1, <1>2, PTL DEF ShmSpec

-----------------------------------------------------------------------------
(* Its consequences *)

(* The variables of the channel and of its recovery keep their types.      *)
THEOREM RecoveryTypeCorrect == ShmSpec => []ShmTypeOK
<1>1. ShmInv => ShmTypeOK BY DEF ShmInv, RingInv
<1> QED BY <1>1, RecoveryInvariant, PTL

(* LoadSharedMemory leaves a ring in order, with everything published that *)
(* was claimed, at whatever step the process before it died.               *)
THEOREM RecoveryKeepsOrder == ShmSpec => []RecoveredOrder
<1>1. ShmInv => RecoveredOrder BY DEF ShmInv, RingInv, LifeInv, RecoveredOrder
<1> QED BY <1>1, RecoveryInvariant, PTL

(* No log claimed is skipped by the devices, whatever crashes happen       *)
(* between its claim and the return of its slot.                           *)
THEOREM RecoverySkipsNothing == ShmSpec => []NothingSkipped
<1>1. ShmInv => NothingSkipped BY DEF ShmInv, TraceInv
<1> QED BY <1>1, RecoveryInvariant, PTL

(* The logs dispatched are 0 .. LastLog, so what was dispatched more often *)
(* is the difference of two numbers; each of them is paid by a crash.      *)
THEOREM CrashesPayRepeats == ShmSpec => []RepeatsBounded
<1>1. ASSUME ShmInv PROVE RepeatsBounded
  <2>1. /\ Dispatched = 0 .. Distinct - 1 /\ Len(dispatched) <= Distinct + crashes
        /\ Len(dispatched) \in Nat /\ crashes \in Nat
    BY <1>1, DispatchedType DEF ShmInv, TraceInv, DispatchInv, RepeatInv
  <2>2. Distinct \in Nat
    <3>1. CASE dispatched = <<>> BY <3>1 DEF Distinct
    <3>2. CASE dispatched # <<>>
      <4>1. LastLog \in Nat BY <1>1, <3>2, DispatchedType DEF LastLog, ShmInv
      <4> QED BY <3>2, <4>1 DEF Distinct
    <3> QED BY <3>1, <3>2
  <2>3. Cardinality(0 .. Distinct - 1) = Distinct
    <3>1. Cardinality(0 .. Distinct - 1) = IF 0 > Distinct - 1 THEN 0 ELSE (Distinct - 1) - 0 + 1
      BY <2>2, FS_Interval
    <3> QED BY <2>2, <3>1
  <2> QED BY <2>1, <2>2, <2>3 DEF RepeatsBounded
<1> QED BY <1>1, RecoveryInvariant, PTL

(* What its author published is dispatched as its author wrote it, before  *)
(* and after crashes, and each time it is repeated.                        *)
THEOREM RecoveryKeepsText == ShmSpec => []PublishedIntact
<1>1. ShmInv => PublishedIntact BY DEF ShmInv, TraceInv
<1> QED BY <1>1, RecoveryInvariant, PTL

(* A recovered slot delivers its author's text as far as the author came,  *)
(* and otherwise what the slot delivered before.                           *)
THEOREM RecoveryExplainsText == ShmSpec => []RecoveredText
<1>1. ShmInv => RecoveredText BY DEF ShmInv, TraceInv
<1> QED BY <1>1, RecoveryInvariant, PTL

(* After a crash, too, a slot has one user at a time.                      *)
THEOREM RecoveredSlotHasOneUser == ShmSpec => []SlotExclusive
<1>1. ASSUME ShmInv PROVE SlotExclusive
  <2>0. RingInv BY <1>1 DEF ShmInv
  <2>1. ASSUME NEW p \in Producers, NEW q \in Producers, p # q, Owns(p), Owns(q)
        PROVE  Idx(claim[p]) # Idx(claim[q])
    <3>1. claim[p] # claim[q] BY <2>0, <2>1, OneOwner
    <3> QED BY <2>0, <2>1, <3>1, ShmOwned, Window
  <2>2. ASSUME cpc \in {"dispatch", "clear"}, NEW p \in Producers, Owns(p)
        PROVE  Idx(claim[p]) # Idx(proc - 1)
    <3>0. process = "running" BY <2>0, <2>2 DEF RingInv, LifeInv, ShmTypeOK
    <3>1. proc - 1 = read /\ read < write
      BY <2>0, <2>2, <3>0, ShmCounts DEF RingInv, LifeInv, ConsumerInv
    <3>2. claim[p] # read BY <2>0, <2>2, <3>1, ShmOwned, ShmCounts
    <3> QED BY <2>0, <2>2, <3>1, <3>2, ShmOwned, ShmCounts, Window
  <2> QED BY <2>1, <2>2 DEF SlotExclusive
<1> QED BY <1>1, RecoveryInvariant, PTL

-----------------------------------------------------------------------------
(* The ring in shared memory implements the queue that may repeat a log *)

(* A step that leaves counts and trace alone, and no log more or less      *)
(* ready, is invisible.                                                    *)
LEMMA Invisible ==
  ASSUME UNCHANGED <<hold, write, read, process, dispatched>>,
         ReadyLogs' = ReadyLogs, NextLog' = NextLog
  PROVE  UNCHANGED Recoverable!vars
BY DEF Recoverable!vars

(* No mark between write_idx_ and hold_idx_ changes.                       *)
LEMMA SameReady ==
  ASSUME UNCHANGED <<hold, write>>,
         \A n \in write .. hold - 1 : mark'[Idx(n)] = "READY" <=> mark[Idx(n)] = "READY"
  PROVE  ReadyLogs' = ReadyLogs
BY DEF ReadyLogs

LEMMA QuietInvisible ==
  ASSUME RingInv, process = "running", NEW p \in Producers, Quiet(p),
         UNCHANGED <<shm, dispatched>>
  PROVE  UNCHANGED Recoverable!vars
<1>1. UNCHANGED <<hold, write, proc, read, mark, cpc>> BY QuietEffect
<1>2. process' = process BY DEF shm
<1>3. ReadyLogs' = ReadyLogs /\ NextLog' = NextLog BY <1>1, <1>2 DEF ReadyLogs, NextLog
<1> QED BY <1>1, <1>2, <1>3, Invisible

(* Setting MARK_HOLD and writing the text are invisible: the log was not   *)
(* ready before and is not yet.                                            *)
LEMMA TextInvisible ==
  ASSUME RingInv, process = "running", NEW p \in Producers, HoldMark(p) \/ InitLogData(p),
         UNCHANGED <<shm, dispatched>>
  PROVE  UNCHANGED Recoverable!vars
<1>1. /\ UNCHANGED <<hold, write, proc, read, cpc>> /\ Owns(p)
      /\ mark' = mark \/ mark' = [mark EXCEPT ![Idx(claim[p])] = "HOLD"]
  BY DEF HoldMark, InitLogData, Goto, idx, Owns
<1>2. process' = process BY DEF shm
<1>3. ASSUME NEW n \in write .. hold - 1
      PROVE  mark'[Idx(n)] = "READY" <=> mark[Idx(n)] = "READY"
  <2>1. n \in Nat /\ Idx(n) \in Slot BY <1>3, ShmCounts, IdxInSlot
  <2> QED BY <1>1, <2>1, ShmOwned, ShmCounts
<1>4. ReadyLogs' = ReadyLogs BY <1>1, <1>3, SameReady
<1>5. NextLog' = NextLog BY <1>1, <1>2 DEF NextLog
<1> QED BY <1>1, <1>2, <1>4, <1>5, Invisible

LEMMA ClaimClaims ==
  ASSUME RingInv, process = "running", NEW p \in Producers,
         HoldCas(p), Idx(hold) = Idx(old[p]), UNCHANGED <<shm, dispatched>>
  PROVE  Recoverable!Claim
<1>1. /\ hold' = hold + 1 /\ hold + 1 < read + BUFFER_LEN
      /\ UNCHANGED <<write, proc, read, mark, cpc>>
  BY ShmHoldCas DEF HoldCas, Goto, slots, hist
<1>2. process' = process BY DEF shm
<1>3. mark[Idx(hold)] = "INVALID" BY ShmCounts DEF RingInv, FreeInv
<1>4. ReadyLogs' = ReadyLogs BY <1>1, <1>3, ShmCounts DEF ReadyLogs
<1>5. NextLog' = NextLog BY <1>1, <1>2 DEF NextLog
<1>6. hold - read < BUFFER_LEN - 1 BY <1>1, ShmCounts
<1> QED BY <1>1, <1>2, <1>4, <1>5, <1>6 DEF Recoverable!Claim

LEMMA ReadyCompletes ==
  ASSUME RingInv, process = "running", NEW p \in Producers,
         PushReady(p), UNCHANGED <<shm, dispatched>>
  PROVE  Recoverable!Complete
<1> DEFINE c == claim[p]
<1>1. /\ UNCHANGED <<hold, write, proc, read, cpc>> /\ Owns(p)
      /\ mark' = [mark EXCEPT ![Idx(c)] = "READY"]
  BY DEF PushReady, Goto, idx, Owns
<1>2. process' = process BY DEF shm
<1>3. /\ c \in Nat /\ Idx(c) \in Slot /\ read <= c /\ c < read + BUFFER_LEN
      /\ write <= c /\ c < hold /\ mark[Idx(c)] # "READY"
  BY <1>1, ShmOwned
<1> HIDE DEF c
<1>4. c \in (write .. hold - 1) \ ReadyLogs BY <1>3, ShmCounts DEF ReadyLogs
<1>5. ASSUME NEW n \in write .. hold - 1
      PROVE  mark'[Idx(n)] = "READY" <=> n = c \/ mark[Idx(n)] = "READY"
  <2>1. n \in Nat /\ Idx(n) \in Slot /\ read <= n /\ n < read + BUFFER_LEN
    BY <1>5, ShmCounts, IdxInSlot
  <2>2. CASE n = c BY <1>1, <1>3, <2>2, ShmCounts
  <2>3. CASE n # c BY <1>1, <1>3, <2>1, <2>3, Window, ShmCounts
  <2> QED BY <2>2, <2>3
<1>6. ReadyLogs' = ReadyLogs \cup {c} BY <1>1, <1>4, <1>5 DEF ReadyLogs
<1>7. NextLog' = NextLog BY <1>1, <1>2 DEF NextLog
<1> QED BY <1>1, <1>2, <1>4, <1>6, <1>7 DEF Recoverable!Complete

LEMMA CasPublishes ==
  ASSUME RingInv, process = "running", NEW p \in Producers,
         WriteCas(p), Idx(write) = Idx(old[p]), UNCHANGED <<shm, dispatched>>
  PROVE  Recoverable!Publish
<1>1. /\ write' = write + 1 /\ write < hold /\ mark[Idx(write)] = "READY"
      /\ UNCHANGED <<hold, proc, read, mark, cpc>>
  BY ShmWriteCas DEF WriteCas, Goto, slots, hist
<1>2. process' = process BY DEF shm
<1>3. write \in ReadyLogs BY <1>1, ShmCounts DEF ReadyLogs
<1>4. ReadyLogs' = ReadyLogs \ {write} BY <1>1, ShmCounts DEF ReadyLogs
<1>5. NextLog' = NextLog BY <1>1, <1>2 DEF NextLog
<1> QED BY <1>1, <1>2, <1>3, <1>4, <1>5 DEF Recoverable!Publish, Recoverable!PublishOldest

(* Taking a slot is invisible: the log taken is the one to be delivered.   *)
LEMMA TakeInvisible ==
  ASSUME RingInv, process = "running", Take \/ Settle \/ Poll, UNCHANGED <<shm, dispatched>>
  PROVE  UNCHANGED Recoverable!vars
<1>1. UNCHANGED <<hold, write, read, mark>> BY DEF Take, Settle, Poll, idx, slots
<1>2. process' = process BY DEF shm
<1>3. /\ cpc # "dispatch"
      /\ \/ cpc' # "dispatch" /\ proc' = proc
         \/ cpc' = "dispatch" /\ proc' = proc + 1
  BY DEF Take, Settle, Poll, idx
<1>4. NextLog' = NextLog BY <1>2, <1>3, ShmCounts DEF NextLog
<1>5. ReadyLogs' = ReadyLogs BY <1>1 DEF ReadyLogs
<1> QED BY <1>1, <1>2, <1>4, <1>5, Invisible

LEMMA DispatchDelivers ==
  ASSUME RingInv, process = "running", DispatchLog, UNCHANGED shm,
         dispatched' = Append(dispatched, proc - 1)
  PROVE  Recoverable!Deliver
<1>1. UNCHANGED <<hold, write, proc, read, mark>> /\ cpc = "dispatch" /\ cpc' = "clear"
  BY DEF DispatchLog, idx, slots
<1>2. process' = process BY DEF shm
<1>3. proc - 1 = read /\ read < write
  BY <1>1, ShmCounts DEF RingInv, LifeInv, ConsumerInv
<1>4. NextLog = read /\ NextLog' = read + 1 BY <1>1, <1>2, <1>3, ShmCounts DEF NextLog
<1>5. ReadyLogs' = ReadyLogs BY <1>1 DEF ReadyLogs
<1> QED BY <1>1, <1>2, <1>3, <1>4, <1>5 DEF Recoverable!Deliver

(* Clearing the mark of a delivered log is invisible.                      *)
LEMMA ClearInvisible ==
  ASSUME RingInv, process = "running", ClearMark, UNCHANGED <<shm, dispatched>>
  PROVE  UNCHANGED Recoverable!vars
<1>1. /\ UNCHANGED <<hold, write, proc, read>> /\ cpc = "clear" /\ cpc' = "free"
      /\ mark' = [mark EXCEPT ![Idx(proc - 1)] = "INVALID"]
  BY DEF ClearMark, idx
<1>2. process' = process BY DEF shm
<1>3. proc - 1 = read /\ read < write
  BY <1>1, ShmCounts DEF RingInv, LifeInv, ConsumerInv
<1>4. ASSUME NEW n \in write .. hold - 1
      PROVE  mark'[Idx(n)] = "READY" <=> mark[Idx(n)] = "READY"
  <2>1. n \in Nat /\ Idx(n) \in Slot /\ read < n /\ n < read + BUFFER_LEN
    BY <1>3, <1>4, ShmCounts, IdxInSlot
  <2>2. Idx(n) # Idx(read) BY <2>1, Window, ShmCounts
  <2> QED BY <1>1, <1>3, <2>1, <2>2, ShmCounts
<1>5. ReadyLogs' = ReadyLogs BY <1>1, <1>4, SameReady
<1>6. NextLog' = NextLog BY <1>1, <1>2 DEF NextLog
<1> QED BY <1>1, <1>2, <1>5, <1>6, Invisible

LEMMA FreeFrees ==
  ASSUME RingInv, process = "running", FreeSlot, UNCHANGED <<shm, dispatched>>
  PROVE  Recoverable!Free \/ UNCHANGED Recoverable!vars
<1>1. UNCHANGED <<hold, write, proc, mark>> /\ cpc = "free" /\ cpc' \in {"free", "take"}
  BY DEF FreeSlot, slots
<1>2. process' = process BY DEF shm
<1>3. ReadyLogs' = ReadyLogs BY <1>1 DEF ReadyLogs
<1>4. NextLog = proc /\ NextLog' = proc BY <1>1, <1>2 DEF NextLog
<1>5. CASE Idx(read) # Idx(proc) /\ mark[Idx(read)] = "INVALID"
  <2>1. read' = read + 1 BY <1>5 DEF FreeSlot
  <2>2. read < proc BY <1>5, ShmCounts, ShmCompare
  <2> QED BY <1>1, <1>2, <1>3, <1>4, <2>1, <2>2 DEF Recoverable!Free
<1>6. CASE ~(Idx(read) # Idx(proc) /\ mark[Idx(read)] = "INVALID")
  <2>1. read' = read BY <1>6 DEF FreeSlot
  <2> QED BY <1>1, <1>2, <1>3, <1>4, <2>1, Invisible
<1> QED BY <1>5, <1>6

(* The death of the process takes back what was taken and not returned.    *)
LEMMA CrashCrashes ==
  ASSUME Crash
  PROVE  Recoverable!Crash
<1>1. UNCHANGED <<hold, write, read, mark, dispatched>> /\ process' = "attaching"
  BY DEF Crash, idx, slots
<1>2. ReadyLogs' = ReadyLogs /\ NextLog' = read BY <1>1 DEF ReadyLogs, NextLog
<1>3. process' # "running" BY <1>1
<1> QED BY <1>1, <1>2, <1>3 DEF Recoverable!Crash

LEMMA RecoverRecovers ==
  ASSUME RingInv, RecoverSlot
  PROVE  Recoverable!Recover
<1>1. /\ UNCHANGED <<hold, proc, read, cpc, process, dispatched>> /\ write' = write + 1
      /\ mark' = [mark EXCEPT ![Idx(write)] = "READY"]
      /\ process = "attaching" /\ Idx(write) # Idx(hold)
  BY DEF RecoverSlot
<1>2. write < hold BY <1>1, ShmCounts, ShmCompare
<1>3. ASSUME NEW n \in write + 1 .. hold - 1 PROVE mark'[Idx(n)] = mark[Idx(n)]
  <2>1. n \in Nat /\ Idx(n) \in Slot /\ read <= n /\ n < read + BUFFER_LEN /\ n # write
    BY <1>3, ShmCounts, IdxInSlot
  <2>2. Idx(n) # Idx(write) BY <1>2, <2>1, Window, ShmCounts
  <2> QED BY <1>1, <2>1, <2>2, ShmCounts
<1>4. ReadyLogs' = ReadyLogs \ {write} BY <1>1, <1>2, <1>3, ShmCounts DEF ReadyLogs
<1>5. NextLog' = NextLog BY <1>1 DEF NextLog
<1>6. process # "running" BY <1>1
<1> QED BY <1>1, <1>2, <1>4, <1>5, <1>6 DEF Recoverable!Recover, Recoverable!PublishOldest

LEMMA AttachRestarts ==
  ASSUME RingInv, Attach
  PROVE  Recoverable!Restart
<1>1. /\ UNCHANGED <<hold, write, read, mark, cpc, dispatched>>
      /\ process = "attaching" /\ Idx(write) = Idx(hold) /\ proc' = read /\ process' = "running"
  BY DEF Attach, slots, prod
<1>2. write = hold BY <1>1, ShmCompare
<1>3. cpc = "take" BY <1>1 DEF RingInv, LifeInv
<1>4. NextLog = read /\ NextLog' = read BY <1>1, <1>3 DEF NextLog
<1>5. ReadyLogs' = ReadyLogs BY <1>1 DEF ReadyLogs
<1>6. process # "running" /\ process' = "running" BY <1>1
<1> QED BY <1>1, <1>2, <1>4, <1>5, <1>6 DEF Recoverable!Restart

LEMMA RecoverableInit == ShmInit => Recoverable!Init
<1> SUFFICES ASSUME ShmInit PROVE Recoverable!Init OBVIOUS
<1>1. /\ hold = 0 /\ write = 0 /\ proc = 0 /\ read = 0 /\ cpc = "take"
      /\ process = "running" /\ dispatched = <<>>
  BY DEF ShmInit, Init
<1>2. ReadyLogs = {} /\ NextLog = 0 BY <1>1 DEF ReadyLogs, NextLog
<1> QED BY <1>1, <1>2 DEF Recoverable!Init

(* The program's steps: only DispatchLog delivers.                         *)
LEMMA RunRefines ==
  ASSUME ShmInv, Run
  PROVE  Recoverable!Next \/ UNCHANGED Recoverable!vars
<1>0. /\ RingInv /\ process = "running" /\ UNCHANGED shm
      /\ dispatched' = IF delivered' = delivered THEN dispatched ELSE Append(dispatched, proc - 1)
  BY DEF ShmInv, Run
<1>1. ASSUME NEW p \in Producers, Hold(p) \/ Push(p)
      PROVE  Recoverable!Next \/ UNCHANGED Recoverable!vars
  <2>1. delivered' = delivered
    BY <1>1 DEF Hold, Push, BeginLog, HoldState, HoldLoad, HoldFull, HoldCas, HoldMark, InitLogData,
      PushState, PushReady, WriteLoad, WriteHold, WriteMark, WriteCas, WriteCount, WriteAgain, hist
  <2>2. UNCHANGED <<shm, dispatched>> BY <1>0, <2>1
  <2>3. CASE Quiet(p) BY <1>0, <2>2, <2>3, QuietInvisible
  <2>4. CASE HoldCas(p) /\ Idx(hold) = Idx(old[p])
    BY <1>0, <2>2, <2>4, ClaimClaims DEF Recoverable!Next
  <2>5. CASE HoldMark(p) \/ InitLogData(p) BY <1>0, <2>2, <2>5, TextInvisible
  <2>6. CASE PushReady(p) BY <1>0, <2>2, <2>6, ReadyCompletes DEF Recoverable!Next
  <2>7. CASE WriteCas(p) /\ Idx(write) = Idx(old[p])
    BY <1>0, <2>2, <2>7, CasPublishes DEF Recoverable!Next
  <2> QED BY <1>1, <2>3, <2>4, <2>5, <2>6, <2>7 DEF Hold, Push, Quiet
<1>2. CASE DispatchLog
  <2>1. delivered \in Seq(LogContent) BY <1>0, DispatchedType
  <2>2. delivered' = Append(delivered, log[Idx(proc - 1)]) BY <1>2 DEF DispatchLog
  <2>3. Len(delivered') = Len(delivered) + 1 /\ Len(delivered) \in Nat BY <2>1, <2>2
  <2>4. dispatched' = Append(dispatched, proc - 1) BY <1>0, <2>3
  <2> QED BY <1>0, <1>2, <2>4, DispatchDelivers DEF Recoverable!Next
<1>3. CASE Consumer /\ ~DispatchLog
  <2>1. delivered' = delivered
    BY <1>3 DEF Consumer, Take, ClearMark, FreeSlot, Settle, Poll, hist
  <2>2. UNCHANGED <<shm, dispatched>> BY <1>0, <2>1
  <2>3. CASE Take \/ Settle \/ Poll BY <1>0, <2>2, <2>3, TakeInvisible
  <2>4. CASE ClearMark BY <1>0, <2>2, <2>4, ClearInvisible
  <2>5. CASE FreeSlot BY <1>0, <2>2, <2>5, FreeFrees DEF Recoverable!Next
  <2> QED BY <1>3, <2>3, <2>4, <2>5 DEF Consumer
<1> QED BY <1>1, <1>2, <1>3 DEF Run

LEMMA RecoveryStepRefines ==
  ShmInv /\ [ShmNext /\ NoLap']_shmVars => [Recoverable!Next]_(Recoverable!vars)
<1> SUFFICES ASSUME ShmInv, [ShmNext /\ NoLap']_shmVars
             PROVE  Recoverable!Next \/ UNCHANGED Recoverable!vars
  OBVIOUS
<1>0. RingInv BY DEF ShmInv
<1>1. CASE Run BY <1>1, RunRefines
<1>2. CASE Crash BY <1>2, CrashCrashes DEF Recoverable!Next
<1>3. CASE RecoverSlot BY <1>0, <1>3, RecoverRecovers DEF Recoverable!Next
<1>4. CASE Attach BY <1>0, <1>4, AttachRestarts DEF Recoverable!Next
<1>5. CASE UNCHANGED shmVars
  <2>1. UNCHANGED <<hold, write, proc, read, mark, cpc, process, dispatched>>
    BY <1>5 DEF shmVars, vars, idx, slots, shm
  <2>2. ReadyLogs' = ReadyLogs /\ NextLog' = NextLog BY <2>1 DEF ReadyLogs, NextLog
  <2> QED BY <2>1, <2>2, Invisible
<1> QED BY <1>1, <1>2, <1>3, <1>4, <1>5 DEF ShmNext

(* Whatever dies at whatever step, the ring in shared memory is a bounded  *)
(* first-in first-out queue: it loses nothing that was claimed, keeps the  *)
(* order, and delivers a log again only if the process that had delivered  *)
(* it died before it returned the slot.                                    *)
THEOREM RecoveryImplementsQueue == ShmSpec => ImplementsRecoverable
<1> QED BY RecoverableInit, RecoveryStepRefines, RecoveryInvariant, PTL
        DEF ShmSpec, ImplementsRecoverable, Recoverable!Spec

=============================================================================
