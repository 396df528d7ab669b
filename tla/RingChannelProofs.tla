------------------------- MODULE RingChannelProofs -------------------------
(***************************************************************************)
(* Proofs about RingChannel, for every set of producers, every ring size   *)
(* and every bound, from lap freedom (LapFreeSpec).  The argument: within  *)
(* BUFFER_LEN consecutive counts the index determines the count, so while  *)
(* nobody is lapped every comparison of indices decides as a comparison of *)
(* the unwrapped counts would, and a snapshot that passes its              *)
(* compare-exchange is the current value.                                  *)
(***************************************************************************)
EXTENDS RingChannel, FiniteSetTheorems, FunctionTheorems, TLAPS

-----------------------------------------------------------------------------
(* Indices *)

(* A larger quotient is larger by at least the divisor.                    *)
LEMMA ProductGap ==
  ASSUME NEW N \in Nat \ {0}, NEW a \in Int, NEW b \in Int, a < b
  PROVE  N * b >= N * a + N
<1>1. N * (b - a - 1) \in Nat
  <2>1. b - a - 1 \in Nat OBVIOUS
  <2> QED BY <2>1, SMT
<1>2. N * b = N * a + N + N * (b - a - 1) BY SMT
<1> QED BY <1>1, <1>2

LEMMA Division ==
  ASSUME NEW N \in Nat \ {0}, NEW a \in Nat
  PROVE  /\ a % N \in 0 .. N - 1
         /\ a \div N \in Nat
         /\ a = N * (a \div N) + (a % N)
         /\ N * (a \div N) \in Nat
BY SMT

(* Every index of the code is the index of a slot.                         *)
LEMMA IdxInSlot == \A n \in Nat : Idx(n) \in Slot
BY Division, BufferAssumption DEF Idx, Slot

(* Counts less than BUFFER_LEN apart with the same index are equal.        *)
LEMMA IdxInjective ==
  \A a, b \in Nat : a < b + BUFFER_LEN /\ b < a + BUFFER_LEN /\ Idx(a) = Idx(b) => a = b
<1> SUFFICES ASSUME NEW a \in Nat, NEW b \in Nat,
                    a < b + BUFFER_LEN, b < a + BUFFER_LEN, Idx(a) = Idx(b)
             PROVE  a = b
  OBVIOUS
<1> DEFINE N == BUFFER_LEN
<1> DEFINE qa == a \div N
<1> DEFINE qb == b \div N
<1>0. N \in Nat \ {0} BY BufferAssumption
<1>1. /\ a = N * qa + (a % N) /\ b = N * qb + (b % N)
      /\ qa \in Nat /\ qb \in Nat /\ a % N \in 0 .. N - 1
      /\ N * qa \in Nat /\ N * qb \in Nat
  BY <1>0, Division
<1>2. a % N = b % N BY DEF Idx
<1> HIDE DEF N, qa, qb
<1>3. ~ qa < qb BY <1>0, <1>1, <1>2, ProductGap DEF N
<1>4. ~ qb < qa BY <1>0, <1>1, <1>2, ProductGap DEF N
<1>5. qa = qb BY <1>1, <1>3, <1>4
<1> QED BY <1>1, <1>2, <1>5

(* Once round the ring is the same slot.                                   *)
LEMMA IdxWraps == \A n \in Nat : Idx(n + BUFFER_LEN) = Idx(n)
<1> SUFFICES ASSUME NEW a \in Nat PROVE Idx(a + BUFFER_LEN) = Idx(a)
  OBVIOUS
<1> DEFINE N == BUFFER_LEN
<1> DEFINE b == a + N
<1> DEFINE qa == a \div N
<1> DEFINE qb == b \div N
<1>0. N \in Nat \ {0} /\ b \in Nat BY BufferAssumption
<1>1. /\ a = N * qa + (a % N) /\ b = N * qb + (b % N)
      /\ qa \in Nat /\ qb \in Nat /\ a % N \in 0 .. N - 1 /\ b % N \in 0 .. N - 1
      /\ N * qa \in Nat /\ N * qb \in Nat
  BY <1>0, Division
<1>2. b = a + N OBVIOUS
<1>3. N * (qa + 1) = N * qa + N BY <1>0, <1>1, SMT
<1> HIDE DEF N, b, qa, qb
<1>4. ~ qb < qa + 1
  <2> SUFFICES ASSUME qb < qa + 1 PROVE FALSE OBVIOUS
  <2>1. N * (qa + 1) >= N * qb + N BY <1>0, <1>1, ProductGap
  <2> QED BY <1>0, <1>1, <1>2, <1>3, <2>1
<1>5. ~ qa + 1 < qb
  <2> SUFFICES ASSUME qa + 1 < qb PROVE FALSE OBVIOUS
  <2>1. N * qb >= N * (qa + 1) + N BY <1>0, <1>1, ProductGap
  <2> QED BY <1>0, <1>1, <1>2, <1>3, <2>1
<1>6. qb = qa + 1 BY <1>1, <1>4, <1>5
<1>7. b % N = a % N BY <1>0, <1>1, <1>2, <1>3, <1>6
<1> QED BY <1>7 DEF Idx, b, N

-----------------------------------------------------------------------------
(* The inductive invariant *)

(* The consumer frees the slot it took before it takes another.            *)
ConsumerInv ==
  /\ cpc \in {"take", "settle", "poll", "done"} => read = proc
  /\ cpc \in {"dispatch", "clear"} => read + 1 = proc
  /\ cpc = "free" => \/ read = proc
                     \/ read + 1 = proc /\ mark[Idx(read)] = "INVALID"

(* A claimed slot is unpublished, not ready, and has one owner.            *)
OwnerInv ==
  /\ \A p \in Producers : Owns(p) =>
       write <= claim[p] /\ claim[p] < hold /\ mark[Idx(claim[p])] # "READY"
  /\ \A p, q \in Producers : Owns(p) /\ Owns(q) /\ claim[p] = claim[q] => p = q

(* What a producer knows from its snapshot, if it is still current.        *)
SnapshotInv ==
  \A p \in Producers :
    /\ pc[p] \in {"hold_full", "hold_cas"} =>
         old[p] <= hold /\ hold < old[p] + BUFFER_LEN
    /\ pc[p] = "hold_cas" /\ old[p] = hold => hold + 1 < read + BUFFER_LEN
    /\ pc[p] \in {"write_hold", "write_mark", "write_cas"} =>
         old[p] <= write /\ write < old[p] + BUFFER_LEN
    /\ pc[p] \in {"write_mark", "write_cas"} /\ old[p] = write => write < hold
    /\ pc[p] = "write_cas" /\ old[p] = write => mark[Idx(write)] = "READY"

(* Published slots that were not taken are ready, free ones are cleared,   *)
(* and the mark of every claimed slot is what its author last wrote.       *)
MarkInv ==
  /\ \A n \in Nat : proc <= n /\ n < write => mark[Idx(n)] = "READY"
  /\ \A n \in Nat : hold <= n /\ n < read + BUFFER_LEN => mark[Idx(n)] = "INVALID"

(* A ready log is complete and sits in the slot of its own claim, from its *)
(* publication until it is dispatched.                                     *)
ContentInv ==
  /\ \A n \in Nat : read <= n /\ n < hold /\ mark[Idx(n)] = "READY" =>
       log[Idx(n)] = [id |-> n, complete |-> TRUE]
  /\ \A p \in Producers : pc[p] \in {"push", "ready"} => log[Idx(claim[p])].id = claim[p]
  /\ cpc = "dispatch" => mark[Idx(proc - 1)] = "READY"

(* What was delivered is exactly what was taken.                           *)
DeliveryInv ==
  /\ DeliveredInOrder
  /\ Len(delivered) = IF cpc = "dispatch" THEN proc - 1 ELSE proc

IInv == /\ TypeOK /\ IndexOrder /\ ConsumerInv /\ OwnerInv
        /\ SnapshotInv /\ MarkInv /\ ContentInv /\ DeliveryInv

-----------------------------------------------------------------------------
(* Consequences of the invariant that the steps below rest on *)

(* The counts are natural numbers and so is the size of the ring.          *)
LEMMA Counts ==
  ASSUME IInv
  PROVE  /\ BUFFER_LEN \in Nat /\ BUFFER_LEN > 1
         /\ hold \in Nat /\ write \in Nat /\ proc \in Nat /\ read \in Nat
         /\ read <= proc /\ proc <= write /\ write <= hold /\ hold < read + BUFFER_LEN
BY BufferAssumption DEF IInv, TypeOK, IndexOrder

(* A producer whose compare-exchange on hold_idx_ succeeds found the ring  *)
(* with room for its claim.                                                *)
LEMMA HoldCasIsCurrent ==
  ASSUME IInv, NEW p \in Producers, pc[p] = "hold_cas", Idx(hold) = Idx(old[p])
  PROVE  old[p] = hold /\ hold + 1 < read + BUFFER_LEN
<1>1. old[p] \in Nat /\ old[p] <= hold /\ hold < old[p] + BUFFER_LEN
  BY DEF IInv, TypeOK, SnapshotInv
<1>2. hold < old[p] + BUFFER_LEN /\ old[p] < hold + BUFFER_LEN BY <1>1, Counts
<1>3. old[p] = hold BY <1>1, <1>2, Counts, IdxInjective
<1> QED BY <1>3 DEF IInv, SnapshotInv

(* A producer whose compare-exchange on write_idx_ succeeds publishes a    *)
(* claimed log that is ready.                                              *)
LEMMA WriteCasIsCurrent ==
  ASSUME IInv, NEW p \in Producers, pc[p] = "write_cas", Idx(write) = Idx(old[p])
  PROVE  old[p] = write /\ write < hold /\ mark[Idx(write)] = "READY"
<1>1. old[p] \in Nat /\ old[p] <= write /\ write < old[p] + BUFFER_LEN
  BY DEF IInv, TypeOK, SnapshotInv
<1>2. write < old[p] + BUFFER_LEN /\ old[p] < write + BUFFER_LEN BY <1>1, Counts
<1>3. old[p] = write BY <1>1, <1>2, Counts, IdxInjective
<1> QED BY <1>3 DEF IInv, SnapshotInv

(* The slot a producer owns is the slot of no other count of the window.   *)
LEMMA OwnedSlot ==
  ASSUME IInv, NEW p \in Producers, Owns(p)
  PROVE  /\ claim[p] \in Nat /\ Idx(claim[p]) \in Slot
         /\ write <= claim[p] /\ claim[p] < hold
         /\ mark[Idx(claim[p])] # "READY"
         /\ \A n \in Nat : read <= n /\ n < read + BUFFER_LEN /\ n # claim[p]
              => Idx(n) # Idx(claim[p])
<1>1. claim[p] \in Nat /\ Idx(claim[p]) \in Slot BY IdxInSlot DEF IInv, TypeOK
<1>2. write <= claim[p] /\ claim[p] < hold /\ mark[Idx(claim[p])] # "READY"
  BY DEF IInv, OwnerInv
<1>3. ASSUME NEW n \in Nat, read <= n, n < read + BUFFER_LEN, n # claim[p]
      PROVE  Idx(n) # Idx(claim[p])
  <2>1. n < claim[p] + BUFFER_LEN /\ claim[p] < n + BUFFER_LEN
    BY <1>1, <1>2, <1>3, Counts
  <2> QED BY <1>1, <1>3, <2>1, IdxInjective
<1> QED BY <1>1, <1>2, <1>3

(* The slot the consumer took is the slot of no other count of the window. *)
LEMMA TakenSlot ==
  ASSUME IInv, cpc \in {"dispatch", "clear"}
  PROVE  /\ proc - 1 = read /\ Idx(read) \in Slot
         /\ \A n \in Nat : read < n /\ n < read + BUFFER_LEN => Idx(n) # Idx(read)
<1>1. proc - 1 = read /\ Idx(read) \in Slot BY Counts, IdxInSlot DEF IInv, ConsumerInv
<1>2. ASSUME NEW n \in Nat, read < n, n < read + BUFFER_LEN
      PROVE  Idx(n) # Idx(read)
  <2>1. n < read + BUFFER_LEN /\ read < n + BUFFER_LEN BY <1>2, Counts
  <2> QED BY <1>2, <2>1, Counts, IdxInjective
<1> QED BY <1>1, <1>2

(* The marks are a function on the slots.                                  *)
LEMMA MarkType == ASSUME IInv PROVE mark \in [Slot -> Mark] /\ log \in [Slot -> LogContent]
BY DEF IInv, TypeOK

(* Counting keeps the counters natural numbers.                            *)
LEMMA CounterType ==
  ASSUME NEW c \in [hold : Nat, push : Nat, processed : Nat]
  PROVE  /\ [c EXCEPT !.hold = @ + 1] \in [hold : Nat, push : Nat, processed : Nat]
         /\ [c EXCEPT !.push = @ + 1] \in [hold : Nat, push : Nat, processed : Nat]
         /\ [c EXCEPT !.processed = @ + 1] \in [hold : Nat, push : Nat, processed : Nat]
OBVIOUS

-----------------------------------------------------------------------------
(* One lemma per action: it preserves the invariant *)

LEMMA BeginLogStep ==
  ASSUME IInv, NoLap', NEW p \in Producers, BeginLog(p)
  PROVE  IInv'
<1>1. TypeOK'
  BY DEF IInv, TypeOK, ProducerPc, ConsumerPc, BeginLog, Goto, idx, slots,
    hist
<1>2. OwnerInv'
  BY DEF IInv, OwnerInv, Owns, TypeOK, BeginLog, Goto, idx, slots, hist
<1>3. SnapshotInv'
  BY DEF IInv, SnapshotInv, TypeOK, BeginLog, Goto, idx, slots, hist
<1>4. ContentInv'
  BY DEF IInv, ContentInv, TypeOK, BeginLog, Goto, idx, slots, hist
<1>5. IndexOrder' /\ ConsumerInv' /\ MarkInv' /\ DeliveryInv'
  BY DEF IInv, IndexOrder, ConsumerInv, MarkInv, DeliveryInv,
    DeliveredInOrder, BeginLog, idx, slots, hist
<1> QED BY <1>1, <1>2, <1>3, <1>4, <1>5 DEF IInv

LEMMA HoldStateStep ==
  ASSUME IInv, NoLap', NEW p \in Producers, HoldState(p)
  PROVE  IInv'
<1>1. TypeOK'
  BY DEF IInv, TypeOK, ProducerPc, ConsumerPc, HoldState, Goto, idx, slots,
    hist
<1>2. OwnerInv'
  BY DEF IInv, OwnerInv, Owns, TypeOK, HoldState, Goto, idx, slots, hist
<1>3. SnapshotInv'
  BY DEF IInv, SnapshotInv, TypeOK, HoldState, Goto, idx, slots, hist
<1>4. ContentInv'
  BY DEF IInv, ContentInv, TypeOK, HoldState, Goto, idx, slots, hist
<1>5. IndexOrder' /\ ConsumerInv' /\ MarkInv' /\ DeliveryInv'
  BY DEF IInv, IndexOrder, ConsumerInv, MarkInv, DeliveryInv,
    DeliveredInOrder, HoldState, idx, slots, hist
<1> QED BY <1>1, <1>2, <1>3, <1>4, <1>5 DEF IInv

LEMMA HoldLoadStep ==
  ASSUME IInv, NoLap', NEW p \in Producers, HoldLoad(p)
  PROVE  IInv'
<1>1. TypeOK'
  BY DEF IInv, TypeOK, ProducerPc, ConsumerPc, HoldLoad, Goto, idx, slots,
    hist
<1>2. OwnerInv'
  BY DEF IInv, OwnerInv, Owns, TypeOK, HoldLoad, Goto, idx, slots, hist
<1>3. SnapshotInv'
  BY BufferAssumption DEF IInv, SnapshotInv, TypeOK, HoldLoad, Goto, idx,
    slots, hist
<1>4. ContentInv'
  BY DEF IInv, ContentInv, TypeOK, HoldLoad, Goto, idx, slots, hist
<1>5. IndexOrder' /\ ConsumerInv' /\ MarkInv' /\ DeliveryInv'
  BY DEF IInv, IndexOrder, ConsumerInv, MarkInv, DeliveryInv,
    DeliveredInOrder, HoldLoad, idx, slots, hist
<1> QED BY <1>1, <1>2, <1>3, <1>4, <1>5 DEF IInv

LEMMA HoldFullStep ==
  ASSUME IInv, NoLap', NEW p \in Producers, HoldFull(p)
  PROVE  IInv'
<1>1. TypeOK'
  BY DEF IInv, TypeOK, ProducerPc, ConsumerPc, HoldFull, Goto, idx, slots,
    hist
<1>2. OwnerInv'
  BY DEF IInv, OwnerInv, Owns, TypeOK, HoldFull, Goto, idx, slots, hist
<1>3. SnapshotInv'
  <2>1. ASSUME old[p] = hold, Idx(old[p] + 1) # Idx(read)
        PROVE  hold + 1 < read + BUFFER_LEN
    <3>1. hold + 1 # read + BUFFER_LEN BY <2>1, Counts, IdxWraps
    <3> QED BY <3>1, Counts
  <2>2. ASSUME NEW q \in Producers, q # p PROVE pc'[q] = pc[q]
    BY <2>2 DEF IInv, TypeOK, HoldFull, Goto
  <2>3. pc'[p] \in {"hold", "hold_cas"} /\ (pc'[p] = "hold_cas" => Idx(old[p] + 1) # Idx(read))
    BY DEF IInv, TypeOK, HoldFull, Goto
  <2>4. pc[p] = "hold_full" /\ UNCHANGED <<idx, mark, old>>
    BY DEF HoldFull, Goto, slots
  <2> QED BY <2>1, <2>2, <2>3, <2>4 DEF IInv, SnapshotInv, idx
<1>4. ContentInv'
  BY DEF IInv, ContentInv, TypeOK, HoldFull, Goto, idx, slots, hist
<1>5. IndexOrder' /\ ConsumerInv' /\ MarkInv' /\ DeliveryInv'
  BY DEF IInv, IndexOrder, ConsumerInv, MarkInv, DeliveryInv,
    DeliveredInOrder, HoldFull, idx, slots, hist
<1> QED BY <1>1, <1>2, <1>3, <1>4, <1>5 DEF IInv

LEMMA HoldCasStep ==
  ASSUME IInv, NoLap', NEW p \in Producers, HoldCas(p)
  PROVE  IInv'
<1>1. CASE Idx(hold) = Idx(old[p])
  <2>1. /\ hold' = hold + 1 /\ hold + 1 < read + BUFFER_LEN
        /\ claim' = [claim EXCEPT ![p] = hold]
        /\ pc' = [pc EXCEPT ![p] = "hold_mark"] /\ pc[p] = "hold_cas"
        /\ UNCHANGED <<write, proc, read, mark, log, count, state, old, cpc, delivered, stopAt>>
    BY <1>1, HoldCasIsCurrent DEF HoldCas, Goto, slots, hist
  <2>2. mark[Idx(hold)] = "INVALID" BY Counts DEF IInv, MarkInv
  <2>3. TypeOK' BY <2>1, Counts DEF IInv, TypeOK, ProducerPc
  <2>4. IndexOrder' BY <2>1, Counts DEF IndexOrder
  <2>5. ConsumerInv' BY <2>1 DEF IInv, ConsumerInv
  <2>6. OwnerInv' 
    <3>1. \A q \in Producers : Owns(q) => claim[q] < hold BY DEF IInv, OwnerInv
    <3>2. ~Owns(p) /\ Owns(p)' /\ claim'[p] = hold BY <2>1 DEF IInv, TypeOK, Owns
    <3>3. \A q \in Producers : q # p => (Owns(q)' <=> Owns(q)) /\ claim'[q] = claim[q]
      BY <2>1 DEF IInv, TypeOK, Owns
    <3> QED BY <2>1, <2>2, <3>1, <3>2, <3>3, Counts DEF IInv, TypeOK, OwnerInv
  <2>7. SnapshotInv' 
    <3>1. \A q \in Producers : pc'[q] \in {"hold_full", "hold_cas"} => hold' < old'[q] + BUFFER_LEN
      BY <2>1, <2>3, Counts DEF NoLap, HoldSnapshot, TypeOK
    <3>2. pc'[p] = "hold_mark" /\ \A q \in Producers : q # p => pc'[q] = pc[q]
      BY <2>1 DEF IInv, TypeOK
    <3>3. \A q \in Producers : old[q] \in Nat BY DEF IInv, TypeOK
    <3> QED BY <2>1, <3>1, <3>2, <3>3, Counts DEF IInv, SnapshotInv
  <2>8. MarkInv' BY <2>1, Counts DEF IInv, MarkInv
  <2>9. ContentInv' BY <2>1, <2>2, Counts DEF IInv, TypeOK, ContentInv
  <2>10. DeliveryInv' BY <2>1 DEF IInv, DeliveryInv, DeliveredInOrder
  <2> QED BY <2>3, <2>4, <2>5, <2>6, <2>7, <2>8, <2>9, <2>10 DEF IInv
<1>2. CASE Idx(hold) # Idx(old[p])
  <2>1. /\ pc' = [pc EXCEPT ![p] = "hold"] /\ pc[p] = "hold_cas"
        /\ UNCHANGED <<hold, write, proc, read, mark, log, count, state, old, claim, cpc, delivered, stopAt>>
    BY <1>2 DEF HoldCas, Goto, slots, hist
  <2>3. TypeOK' BY <2>1 DEF IInv, TypeOK, ProducerPc
  <2>4. IndexOrder' /\ ConsumerInv' /\ MarkInv' /\ DeliveryInv'
     BY <2>1 DEF IInv, IndexOrder, ConsumerInv, MarkInv, DeliveryInv, DeliveredInOrder
  <2>5. OwnerInv' BY <2>1 DEF IInv, TypeOK, OwnerInv, Owns
  <2>6. SnapshotInv' BY <2>1 DEF IInv, TypeOK, SnapshotInv
  <2>7. ContentInv' BY <2>1 DEF IInv, TypeOK, ContentInv
  <2> QED BY <2>3, <2>4, <2>5, <2>6, <2>7 DEF IInv
<1> QED BY <1>1, <1>2

LEMMA HoldMarkStep ==
  ASSUME IInv, NoLap', NEW p \in Producers, HoldMark(p)
  PROVE  IInv'
<1> Owns(p) BY DEF HoldMark, Goto, Owns
<1>a. /\ pc' = [pc EXCEPT ![p] = "init"] /\ pc[p] = "hold_mark"
      /\ mark' = [mark EXCEPT ![Idx(claim[p])] = "HOLD"]
      /\ UNCHANGED <<hold, write, proc, read, log, state, old, claim, cpc, delivered, stopAt>>
  BY DEF HoldMark, Goto, idx, hist
<1>b. \A n \in Nat : read <= n /\ n < read + BUFFER_LEN /\ n # claim[p] => mark'[Idx(n)] = mark[Idx(n)]
  BY <1>a, OwnedSlot, IdxInSlot, MarkType
<1>1. TypeOK'
  <2>1. mark' \in [Slot -> Mark] BY <1>a, OwnedSlot, MarkType DEF Mark
  <2>2. count' \in [hold : Nat, push : Nat, processed : Nat]
    BY CounterType DEF IInv, TypeOK, HoldMark
  <2>3. pc' \in [Producers -> ProducerPc] BY <1>a DEF IInv, TypeOK, ProducerPc
  <2> QED BY <1>a, <2>1, <2>2, <2>3 DEF IInv, TypeOK
<1>2. ConsumerInv' BY <1>a, <1>b, OwnedSlot, Counts DEF IInv, ConsumerInv
<1>3. OwnerInv'
  BY IdxInSlot, IdxInjective DEF IInv, OwnerInv, Owns, TypeOK, IndexOrder,
    Mark, HoldMark, Goto, idx, hist
<1>4. SnapshotInv'
  BY IdxInSlot, IdxInjective DEF IInv, SnapshotInv, TypeOK, IndexOrder, Mark,
    OwnerInv, Owns, HoldMark, Goto, idx, hist
<1>5. MarkInv' BY <1>a, <1>b, OwnedSlot, Counts DEF IInv, MarkInv
<1>6. ContentInv'
  BY IdxInSlot, IdxInjective DEF IInv, ContentInv, TypeOK, IndexOrder,
    OwnerInv, Owns, ConsumerInv, HoldMark, Goto, idx, hist
<1>7. IndexOrder' /\ DeliveryInv'
  BY DEF IInv, IndexOrder, DeliveryInv, DeliveredInOrder, HoldMark, idx, hist
<1> QED BY <1>1, <1>2, <1>3, <1>4, <1>5, <1>6, <1>7 DEF IInv

LEMMA InitLogDataStep ==
  ASSUME IInv, NoLap', NEW p \in Producers, InitLogData(p)
  PROVE  IInv'
<1> Owns(p) BY DEF InitLogData, Goto, Owns
<1>1. TypeOK'
  BY IdxInSlot DEF IInv, TypeOK, ProducerPc, ConsumerPc, LogContent,
    InitLogData, Goto, idx, hist
<1>2. OwnerInv'
  BY DEF IInv, OwnerInv, Owns, TypeOK, InitLogData, Goto, idx, hist
<1>3. SnapshotInv'
  BY DEF IInv, SnapshotInv, TypeOK, InitLogData, Goto, idx, hist
<1>4. ContentInv'
  <2>1. /\ pc' = [pc EXCEPT ![p] = "push"] /\ pc[p] = "init"
        /\ log' = [log EXCEPT ![Idx(claim[p])] = [id |-> claim[p], complete |-> FALSE]]
        /\ UNCHANGED <<hold, write, proc, read, mark, claim, cpc>>
    BY DEF InitLogData, Goto, idx
  <2>2. \A n \in Nat : read <= n /\ n < read + BUFFER_LEN /\ n # claim[p] => log'[Idx(n)] = log[Idx(n)]
    BY <2>1, OwnedSlot, IdxInSlot, MarkType
  <2>3. \A n \in Nat : read <= n /\ n < hold /\ mark[Idx(n)] = "READY" => log'[Idx(n)] = log[Idx(n)]
    BY <2>2, OwnedSlot, Counts
  <2>4. ASSUME NEW q \in Producers, pc'[q] \in {"push", "ready"} PROVE log'[Idx(claim[q])].id = claim[q]
    <3>1. CASE q = p BY <2>1, <3>1, OwnedSlot, MarkType
    <3>2. CASE q # p
      <4>1. pc[q] \in {"push", "ready"} BY <2>1, <2>4, <3>2 DEF IInv, TypeOK
      <4>2. Owns(q) /\ claim[q] # claim[p] BY <3>2, <4>1 DEF IInv, OwnerInv, Owns
      <4>3. log'[Idx(claim[q])] = log[Idx(claim[q])]
        BY <2>2, <4>2, OwnedSlot, Counts
      <4> QED BY <4>1, <4>3 DEF IInv, ContentInv
    <3> QED BY <3>1, <3>2
  <2> QED BY <2>1, <2>3, <2>4 DEF IInv, ContentInv
<1>5. IndexOrder' /\ ConsumerInv' /\ MarkInv' /\ DeliveryInv'
  BY DEF IInv, IndexOrder, ConsumerInv, MarkInv, DeliveryInv,
    DeliveredInOrder, InitLogData, idx, hist
<1> QED BY <1>1, <1>2, <1>3, <1>4, <1>5 DEF IInv

LEMMA PushStateStep ==
  ASSUME IInv, NoLap', NEW p \in Producers, PushState(p)
  PROVE  IInv'
<1>1. TypeOK'
  BY DEF IInv, TypeOK, ProducerPc, ConsumerPc, PushState, Goto, idx, slots,
    hist
<1>2. OwnerInv'
  BY DEF IInv, OwnerInv, Owns, TypeOK, PushState, Goto, idx, slots, hist
<1>3. SnapshotInv'
  BY DEF IInv, SnapshotInv, TypeOK, PushState, Goto, idx, slots, hist
<1>4. ContentInv'
  BY DEF IInv, ContentInv, TypeOK, PushState, Goto, idx, slots, hist
<1>5. IndexOrder' /\ ConsumerInv' /\ MarkInv' /\ DeliveryInv'
  BY DEF IInv, IndexOrder, ConsumerInv, MarkInv, DeliveryInv,
    DeliveredInOrder, PushState, idx, slots, hist
<1> QED BY <1>1, <1>2, <1>3, <1>4, <1>5 DEF IInv

LEMMA PushReadyStep ==
  ASSUME IInv, NoLap', NEW p \in Producers, PushReady(p)
  PROVE  IInv'
<1> Owns(p) BY DEF PushReady, Goto, Owns
<1>a. /\ pc' = [pc EXCEPT ![p] = "write_load"] /\ pc[p] = "ready"
      /\ mark' = [mark EXCEPT ![Idx(claim[p])] = "READY"]
      /\ log' = [log EXCEPT ![Idx(claim[p])].complete = TRUE]
      /\ UNCHANGED <<hold, write, proc, read, count, state, old, claim, cpc, delivered, stopAt>>
  BY DEF PushReady, Goto, idx, hist
<1>b. \A n \in Nat : read <= n /\ n < read + BUFFER_LEN /\ n # claim[p] =>
        mark'[Idx(n)] = mark[Idx(n)] /\ log'[Idx(n)] = log[Idx(n)]
  BY <1>a, OwnedSlot, IdxInSlot, MarkType
<1>1. TypeOK'
  BY IdxInSlot DEF IInv, TypeOK, ProducerPc, ConsumerPc, Mark, LogContent,
    PushReady, Goto, idx, hist
<1>2. ConsumerInv' BY <1>a, <1>b, OwnedSlot, Counts DEF IInv, ConsumerInv
<1>3. OwnerInv'
  <2>1. ~Owns(p)' /\ \A q \in Producers : Owns(q)' => q # p /\ Owns(q)
    BY <1>a DEF IInv, TypeOK, Owns
  <2>2. ASSUME NEW q \in Producers, Owns(q)' PROVE mark'[Idx(claim[q])] # "READY"
    <3>1. Owns(q) /\ claim[q] # claim[p] BY <2>1, <2>2 DEF IInv, OwnerInv
    <3>2. mark'[Idx(claim[q])] = mark[Idx(claim[q])] BY <1>b, <3>1, OwnedSlot, Counts
    <3> QED BY <3>1, <3>2, OwnedSlot
  <2> QED BY <1>a, <2>1, <2>2 DEF IInv, OwnerInv
<1>4. SnapshotInv'
  BY IdxInSlot DEF IInv, SnapshotInv, TypeOK, PushReady, Goto, idx, hist
<1>5. MarkInv' BY <1>a, <1>b, OwnedSlot, Counts DEF IInv, MarkInv
<1>6. ContentInv'
  <2>1. mark'[Idx(claim[p])] = "READY" /\ log'[Idx(claim[p])] = [id |-> claim[p], complete |-> TRUE]
    <3>1. log[Idx(claim[p])] \in LogContent /\ log[Idx(claim[p])].id = claim[p]
      BY <1>a, OwnedSlot, MarkType DEF IInv, ContentInv
    <3>2. log'[Idx(claim[p])] = [log[Idx(claim[p])] EXCEPT !.complete = TRUE]
      BY <1>a, OwnedSlot, MarkType
    <3>3. mark'[Idx(claim[p])] = "READY" BY <1>a, OwnedSlot, MarkType
    <3> QED BY <3>1, <3>2, <3>3 DEF LogContent
  <2>2. \A n \in Nat : read <= n /\ n < hold /\ mark'[Idx(n)] = "READY" =>
          log'[Idx(n)] = [id |-> n, complete |-> TRUE]
    <3> SUFFICES ASSUME NEW n \in Nat, read <= n, n < hold, mark'[Idx(n)] = "READY"
                 PROVE  log'[Idx(n)] = [id |-> n, complete |-> TRUE]
      OBVIOUS
    <3>1. CASE n = claim[p] BY <2>1, <3>1
    <3>2. CASE n # claim[p] BY <1>b, <3>2, Counts DEF IInv, ContentInv
    <3> QED BY <3>1, <3>2
  <2>3. ASSUME NEW q \in Producers, pc'[q] \in {"push", "ready"} PROVE log'[Idx(claim[q])].id = claim[q]
    <3>1. pc[q] \in {"push", "ready"} /\ q # p BY <1>a, <2>3 DEF IInv, TypeOK
    <3>2. Owns(q) /\ claim[q] # claim[p] BY <3>1 DEF IInv, OwnerInv, Owns
    <3>3. log'[Idx(claim[q])] = log[Idx(claim[q])] BY <1>b, <3>2, OwnedSlot, Counts
    <3> QED BY <3>1, <3>3 DEF IInv, ContentInv
  <2>4. cpc = "dispatch" => mark'[Idx(proc - 1)] = "READY"
    BY <1>b, OwnedSlot, TakenSlot, Counts DEF IInv, ContentInv
  <2> QED BY <1>a, <2>2, <2>3, <2>4 DEF ContentInv
<1>7. IndexOrder' /\ DeliveryInv'
  BY DEF IInv, IndexOrder, DeliveryInv, DeliveredInOrder, PushReady, idx, hist
<1> QED BY <1>1, <1>2, <1>3, <1>4, <1>5, <1>6, <1>7 DEF IInv

LEMMA WriteLoadStep ==
  ASSUME IInv, NoLap', NEW p \in Producers, WriteLoad(p)
  PROVE  IInv'
<1>1. TypeOK'
  BY DEF IInv, TypeOK, ProducerPc, ConsumerPc, WriteLoad, Goto, idx, slots,
    hist
<1>2. OwnerInv'
  BY DEF IInv, OwnerInv, Owns, TypeOK, WriteLoad, Goto, idx, slots, hist
<1>3. SnapshotInv'
  BY BufferAssumption DEF IInv, SnapshotInv, TypeOK, WriteLoad, Goto, idx,
    slots, hist
<1>4. ContentInv'
  BY DEF IInv, ContentInv, TypeOK, WriteLoad, Goto, idx, slots, hist
<1>5. IndexOrder' /\ ConsumerInv' /\ MarkInv' /\ DeliveryInv'
  BY DEF IInv, IndexOrder, ConsumerInv, MarkInv, DeliveryInv,
    DeliveredInOrder, WriteLoad, idx, slots, hist
<1> QED BY <1>1, <1>2, <1>3, <1>4, <1>5 DEF IInv

LEMMA WriteHoldStep ==
  ASSUME IInv, NoLap', NEW p \in Producers, WriteHold(p)
  PROVE  IInv'
<1>1. TypeOK'
  BY DEF IInv, TypeOK, ProducerPc, ConsumerPc, WriteHold, Goto, idx, slots,
    hist
<1>2. OwnerInv'
  BY DEF IInv, OwnerInv, Owns, TypeOK, WriteHold, Goto, idx, slots, hist
<1>3. SnapshotInv'
  <2>1. ASSUME NEW q \in Producers, q # p PROVE pc'[q] = pc[q]
    BY <2>1 DEF IInv, TypeOK, WriteHold, Goto
  <2>2. pc'[p] \in {"idle", "write_mark"} /\ (pc'[p] = "write_mark" => Idx(old[p]) # Idx(hold))
    BY DEF IInv, TypeOK, WriteHold, Goto
  <2>3. pc'[p] = "write_mark" /\ old[p] = write => write < hold
    BY <2>2, Counts
  <2>4. pc[p] = "write_hold" /\ UNCHANGED <<hold, write, proc, read, mark, old>>
    BY DEF WriteHold, Goto, idx, slots
  <2> QED BY <2>1, <2>2, <2>3, <2>4 DEF IInv, SnapshotInv
<1>4. ContentInv'
  BY DEF IInv, ContentInv, TypeOK, WriteHold, Goto, idx, slots, hist
<1>5. IndexOrder' /\ ConsumerInv' /\ MarkInv' /\ DeliveryInv'
  BY DEF IInv, IndexOrder, ConsumerInv, MarkInv, DeliveryInv,
    DeliveredInOrder, WriteHold, idx, slots, hist
<1> QED BY <1>1, <1>2, <1>3, <1>4, <1>5 DEF IInv

LEMMA WriteMarkStep ==
  ASSUME IInv, NoLap', NEW p \in Producers, WriteMark(p)
  PROVE  IInv'
<1>1. TypeOK'
  BY DEF IInv, TypeOK, ProducerPc, ConsumerPc, WriteMark, Goto, idx, slots,
    hist
<1>2. OwnerInv'
  BY DEF IInv, OwnerInv, Owns, TypeOK, WriteMark, Goto, idx, slots, hist
<1>3. SnapshotInv'
  BY DEF IInv, SnapshotInv, TypeOK, WriteMark, Goto, idx, slots, hist
<1>4. ContentInv'
  BY DEF IInv, ContentInv, TypeOK, WriteMark, Goto, idx, slots, hist
<1>5. IndexOrder' /\ ConsumerInv' /\ MarkInv' /\ DeliveryInv'
  BY DEF IInv, IndexOrder, ConsumerInv, MarkInv, DeliveryInv,
    DeliveredInOrder, WriteMark, idx, slots, hist
<1> QED BY <1>1, <1>2, <1>3, <1>4, <1>5 DEF IInv

LEMMA WriteCasStep ==
  ASSUME IInv, NoLap', NEW p \in Producers, WriteCas(p)
  PROVE  IInv'
<1>1. CASE Idx(write) = Idx(old[p])
  <2>1. /\ write' = write + 1 /\ write < hold /\ mark[Idx(write)] = "READY"
        /\ pc' = [pc EXCEPT ![p] = "write_count"] /\ pc[p] = "write_cas"
        /\ UNCHANGED <<hold, proc, read, mark, log, count, state, old, claim, cpc, delivered, stopAt>>
    BY <1>1, WriteCasIsCurrent DEF WriteCas, Goto, slots, hist
  <2>2. TypeOK' BY <2>1, Counts DEF IInv, TypeOK, ProducerPc
  <2>3. IndexOrder' BY <2>1, Counts DEF IndexOrder
  <2>4. ConsumerInv' BY <2>1 DEF IInv, ConsumerInv
  <2>5. OwnerInv'
    <3>1. \A q \in Producers : Owns(q)' <=> Owns(q) BY <2>1 DEF IInv, TypeOK, Owns
    <3>2. \A q \in Producers : Owns(q) => claim[q] # write BY <2>1 DEF IInv, OwnerInv
    <3>3. \A q \in Producers : claim[q] \in Nat BY DEF IInv, TypeOK
    <3> QED BY <2>1, <3>1, <3>2, <3>3, Counts DEF IInv, OwnerInv
  <2>6. SnapshotInv'
    <3>1. \A q \in Producers : pc'[q] \in {"write_hold", "write_mark", "write_cas"} =>
             write' < old'[q] + BUFFER_LEN
      BY <2>1, <2>2, Counts DEF NoLap, WriteSnapshot, TypeOK
    <3>2. pc'[p] = "write_count" /\ \A q \in Producers : q # p => pc'[q] = pc[q]
      BY <2>1 DEF IInv, TypeOK
    <3>3. \A q \in Producers : old[q] \in Nat BY DEF IInv, TypeOK
    <3> QED BY <2>1, <3>1, <3>2, <3>3, Counts DEF IInv, SnapshotInv
  <2>7. MarkInv' BY <2>1, Counts DEF IInv, MarkInv
  <2>8. ContentInv' BY <2>1, Counts DEF IInv, TypeOK, ContentInv
  <2>9. DeliveryInv' BY <2>1 DEF IInv, DeliveryInv, DeliveredInOrder
  <2> QED BY <2>2, <2>3, <2>4, <2>5, <2>6, <2>7, <2>8, <2>9 DEF IInv
<1>2. CASE Idx(write) # Idx(old[p])
  <2>1. /\ pc' = [pc EXCEPT ![p] = "write_again"] /\ pc[p] = "write_cas"
        /\ UNCHANGED <<hold, write, proc, read, mark, log, count, state, old, claim, cpc, delivered, stopAt>>
    BY <1>2 DEF WriteCas, Goto, slots, hist
  <2>2. TypeOK' BY <2>1 DEF IInv, TypeOK, ProducerPc
  <2>3. IndexOrder' /\ ConsumerInv' /\ MarkInv' /\ DeliveryInv'
    BY <2>1 DEF IInv, IndexOrder, ConsumerInv, MarkInv, DeliveryInv, DeliveredInOrder
  <2>4. OwnerInv' BY <2>1 DEF IInv, TypeOK, OwnerInv, Owns
  <2>5. SnapshotInv' BY <2>1 DEF IInv, TypeOK, SnapshotInv
  <2>6. ContentInv' BY <2>1 DEF IInv, TypeOK, ContentInv
  <2> QED BY <2>2, <2>3, <2>4, <2>5, <2>6 DEF IInv
<1> QED BY <1>1, <1>2

LEMMA WriteCountStep ==
  ASSUME IInv, NoLap', NEW p \in Producers, WriteCount(p)
  PROVE  IInv'
<1>1. TypeOK'
  <2>1. count' \in [hold : Nat, push : Nat, processed : Nat]
    BY CounterType DEF IInv, TypeOK, WriteCount
  <2>2. pc' \in [Producers -> ProducerPc] BY DEF IInv, TypeOK, ProducerPc, WriteCount, Goto
  <2> QED BY <2>1, <2>2 DEF IInv, TypeOK, WriteCount, idx, slots, hist
<1>2. OwnerInv'
  BY DEF IInv, OwnerInv, Owns, TypeOK, WriteCount, Goto, idx, slots, hist
<1>3. SnapshotInv'
  BY DEF IInv, SnapshotInv, TypeOK, WriteCount, Goto, idx, slots, hist
<1>4. ContentInv'
  BY DEF IInv, ContentInv, TypeOK, WriteCount, Goto, idx, slots, hist
<1>5. IndexOrder' /\ ConsumerInv' /\ MarkInv' /\ DeliveryInv'
  BY DEF IInv, IndexOrder, ConsumerInv, MarkInv, DeliveryInv,
    DeliveredInOrder, WriteCount, idx, slots, hist
<1> QED BY <1>1, <1>2, <1>3, <1>4, <1>5 DEF IInv

LEMMA WriteAgainStep ==
  ASSUME IInv, NoLap', NEW p \in Producers, WriteAgain(p)
  PROVE  IInv'
<1>1. TypeOK'
  BY DEF IInv, TypeOK, ProducerPc, ConsumerPc, WriteAgain, Goto, idx, slots,
    hist
<1>2. OwnerInv'
  BY DEF IInv, OwnerInv, Owns, TypeOK, WriteAgain, Goto, idx, slots, hist
<1>3. SnapshotInv'
  BY DEF IInv, SnapshotInv, TypeOK, WriteAgain, Goto, idx, slots, hist
<1>4. ContentInv'
  BY DEF IInv, ContentInv, TypeOK, WriteAgain, Goto, idx, slots, hist
<1>5. IndexOrder' /\ ConsumerInv' /\ MarkInv' /\ DeliveryInv'
  BY DEF IInv, IndexOrder, ConsumerInv, MarkInv, DeliveryInv,
    DeliveredInOrder, WriteAgain, idx, slots, hist
<1> QED BY <1>1, <1>2, <1>3, <1>4, <1>5 DEF IInv

LEMMA TakeStep ==
  ASSUME IInv, NoLap', Take
  PROVE  IInv'
<1>1. TypeOK'
  BY DEF IInv, TypeOK, ProducerPc, ConsumerPc, Take, slots, prod, hist
<1>2. IndexOrder'
  BY DEF IInv, IndexOrder, ConsumerInv, TypeOK, Take, slots, prod, hist
<1>3. ConsumerInv'
  BY DEF IInv, ConsumerInv, TypeOK, Take, slots, prod, hist
<1>4. MarkInv'
  BY DEF IInv, MarkInv, TypeOK, Take, slots, prod, hist
<1>5. ContentInv'
  BY DEF IInv, ContentInv, TypeOK, MarkInv, IndexOrder, Take, slots, prod,
    hist
<1>6. DeliveryInv'
  <2>1. UNCHANGED delivered BY DEF Take, hist
  <2>2. DeliveredInOrder' BY <2>1 DEF IInv, DeliveryInv, DeliveredInOrder
  <2>3. Len(delivered) = proc BY DEF IInv, DeliveryInv, Take
  <2>4. \/ cpc' = "dispatch" /\ proc' = proc + 1
        \/ cpc' = "settle" /\ proc' = proc
    BY DEF Take
  <2> QED BY <2>1, <2>2, <2>3, <2>4, Counts DEF DeliveryInv
<1>7. OwnerInv' /\ SnapshotInv'
  BY DEF IInv, OwnerInv, Owns, SnapshotInv, Take, slots, prod, hist
<1> QED BY <1>1, <1>2, <1>3, <1>4, <1>5, <1>6, <1>7 DEF IInv

LEMMA DispatchLogStep ==
  ASSUME IInv, NoLap', DispatchLog
  PROVE  IInv'
<1>1. TypeOK'
  BY IdxInSlot DEF IInv, TypeOK, ProducerPc, ConsumerPc, ConsumerInv,
    IndexOrder, DispatchLog, idx, slots, prod
<1>2. ConsumerInv'
  BY DEF IInv, ConsumerInv, DispatchLog, idx, slots, prod
<1>3. ContentInv'
  BY DEF IInv, ContentInv, DispatchLog, idx, slots, prod
<1>4. DeliveryInv'
  BY DEF IInv, DeliveryInv, DeliveredInOrder, TypeOK, ContentInv, ConsumerInv,
    IndexOrder, DispatchLog, idx, slots, prod
<1>5. IndexOrder' /\ OwnerInv' /\ SnapshotInv' /\ MarkInv'
  BY DEF IInv, IndexOrder, OwnerInv, Owns, SnapshotInv, MarkInv, DispatchLog,
    idx, slots, prod
<1> QED BY <1>1, <1>2, <1>3, <1>4, <1>5 DEF IInv

LEMMA ClearMarkStep ==
  ASSUME IInv, NoLap', ClearMark
  PROVE  IInv'
<1>a. /\ mark' = [mark EXCEPT ![Idx(read)] = "INVALID"]
      /\ cpc = "clear" /\ cpc' = "free"
      /\ UNCHANGED <<hold, write, proc, read, log, state, pc, old, claim, delivered, stopAt>>
  BY TakenSlot DEF ClearMark, idx, prod, hist
<1>b. \A n \in Nat : read < n /\ n < read + BUFFER_LEN => mark'[Idx(n)] = mark[Idx(n)]
  BY <1>a, TakenSlot, IdxInSlot, MarkType
<1>1. TypeOK'
  <2>1. mark' \in [Slot -> Mark] BY <1>a, TakenSlot, MarkType DEF Mark
  <2>2. count' \in [hold : Nat, push : Nat, processed : Nat]
    BY CounterType DEF IInv, TypeOK, ClearMark
  <2> QED BY <1>a, <2>1, <2>2 DEF IInv, TypeOK, ConsumerPc
<1>2. ConsumerInv'
  BY IdxInSlot DEF IInv, ConsumerInv, TypeOK, ClearMark, idx, prod, hist
<1>3. OwnerInv'
  BY IdxInSlot DEF IInv, OwnerInv, Owns, TypeOK, ClearMark, idx, prod, hist
<1>4. SnapshotInv'
  <2>1. read + 1 = proc BY <1>a DEF IInv, ConsumerInv
  <2>2. mark'[Idx(write)] = mark[Idx(write)] BY <1>b, <2>1, Counts
  <2> QED BY <1>a, <2>2 DEF IInv, SnapshotInv
<1>5. MarkInv'
  <2>1. read + 1 = proc BY <1>a DEF IInv, ConsumerInv
  <2> QED BY <1>a, <1>b, <2>1, Counts DEF IInv, MarkInv
<1>6. ContentInv'
  BY IdxInSlot DEF IInv, ContentInv, TypeOK, ClearMark, idx, prod, hist
<1>7. DeliveryInv'
  BY DEF IInv, DeliveryInv, DeliveredInOrder, ClearMark, idx, prod, hist
<1>8. IndexOrder'
  BY DEF IInv, IndexOrder, ClearMark, idx, prod, hist
<1> QED BY <1>1, <1>2, <1>3, <1>4, <1>5, <1>6, <1>7, <1>8 DEF IInv

LEMMA FreeSlotStep ==
  ASSUME IInv, NoLap', FreeSlot
  PROVE  IInv'
<1>1. CASE Idx(read) # Idx(proc) /\ mark[Idx(read)] = "INVALID"
  <2>1. /\ read' = read + 1 /\ read + 1 = proc /\ mark[Idx(read)] = "INVALID" /\ cpc = "free"
        /\ UNCHANGED <<hold, write, proc, mark, log, count, state, pc, old, claim, cpc, delivered, stopAt>>
    BY <1>1 DEF IInv, ConsumerInv, FreeSlot, slots, prod, hist
  <2>2. TypeOK' BY <2>1, Counts DEF IInv, TypeOK
  <2>3. IndexOrder' BY <2>1, Counts DEF IndexOrder
  <2>4. ConsumerInv' BY <2>1 DEF ConsumerInv
  <2>5. OwnerInv' BY <2>1 DEF IInv, OwnerInv, Owns
  <2>6. SnapshotInv' BY <2>1, Counts DEF IInv, SnapshotInv
  <2>7. MarkInv'
    <3>1. mark[Idx(read + BUFFER_LEN)] = "INVALID" BY <2>1, Counts, IdxWraps
    <3> QED BY <2>1, <3>1, Counts DEF IInv, MarkInv
  <2>8. ContentInv' BY <2>1, Counts DEF IInv, ContentInv
  <2>9. DeliveryInv' BY <2>1 DEF IInv, DeliveryInv, DeliveredInOrder
  <2> QED BY <2>2, <2>3, <2>4, <2>5, <2>6, <2>7, <2>8, <2>9 DEF IInv
<1>2. CASE ~(Idx(read) # Idx(proc) /\ mark[Idx(read)] = "INVALID")
  <2>1. /\ cpc = "free" /\ cpc' = "take" /\ read = proc
        /\ UNCHANGED <<hold, write, proc, read, mark, log, count, state, pc, old, claim, delivered, stopAt>>
    <3>1. read = proc
      <4>1. CASE Idx(read) = Idx(proc)
        <5>1. BUFFER_LEN > 1 /\ proc < read + BUFFER_LEN /\ read < proc + BUFFER_LEN BY Counts
        <5> QED BY <4>1, <5>1, Counts, IdxInjective
      <4> QED BY <1>2, <4>1 DEF IInv, ConsumerInv, FreeSlot
    <3> QED BY <1>2, <3>1 DEF FreeSlot, slots, prod, hist
  <2>2. TypeOK' BY <2>1 DEF IInv, TypeOK, ConsumerPc
  <2>3. IndexOrder' /\ MarkInv' BY <2>1 DEF IInv, IndexOrder, MarkInv
  <2>4. ConsumerInv' BY <2>1 DEF ConsumerInv
  <2>5. OwnerInv' /\ SnapshotInv' BY <2>1 DEF IInv, OwnerInv, Owns, SnapshotInv
  <2>6. ContentInv' BY <2>1 DEF IInv, ContentInv
  <2>7. DeliveryInv' BY <2>1 DEF IInv, DeliveryInv, DeliveredInOrder
  <2> QED BY <2>2, <2>3, <2>4, <2>5, <2>6, <2>7 DEF IInv
<1> QED BY <1>1, <1>2

LEMMA SettleStep ==
  ASSUME IInv, NoLap', Settle
  PROVE  IInv'
<1>1. TypeOK'
  BY DEF IInv, TypeOK, ProducerPc, ConsumerPc, ChannelState, Settle, idx,
    slots, prod, hist
<1>2. ConsumerInv'
  BY DEF IInv, ConsumerInv, Settle, idx, slots, prod, hist
<1>3. ContentInv'
  BY DEF IInv, ContentInv, Settle, idx, slots, prod, hist
<1>4. DeliveryInv'
  BY DEF IInv, DeliveryInv, DeliveredInOrder, Settle, idx, slots, prod, hist
<1>5. IndexOrder' /\ OwnerInv' /\ SnapshotInv' /\ MarkInv'
  BY DEF IInv, IndexOrder, OwnerInv, Owns, SnapshotInv, MarkInv, Settle, idx,
    slots, prod, hist
<1> QED BY <1>1, <1>2, <1>3, <1>4, <1>5 DEF IInv

LEMMA PollStep ==
  ASSUME IInv, NoLap', Poll
  PROVE  IInv'
<1>1. TypeOK'
  BY DEF IInv, TypeOK, ProducerPc, ConsumerPc, ChannelState, Poll, idx, slots,
    prod, hist
<1>2. ConsumerInv'
  BY DEF IInv, ConsumerInv, Poll, idx, slots, prod, hist
<1>3. ContentInv'
  BY DEF IInv, ContentInv, Poll, idx, slots, prod, hist
<1>4. DeliveryInv'
  BY DEF IInv, DeliveryInv, DeliveredInOrder, Poll, idx, slots, prod, hist
<1>5. IndexOrder' /\ OwnerInv' /\ SnapshotInv' /\ MarkInv'
  BY DEF IInv, IndexOrder, OwnerInv, Owns, SnapshotInv, MarkInv, Poll, idx,
    slots, prod, hist
<1> QED BY <1>1, <1>2, <1>3, <1>4, <1>5 DEF IInv

LEMMA StopChannelStep ==
  ASSUME IInv, NoLap', StopChannel
  PROVE  IInv'
<1>1. TypeOK'
  BY DEF IInv, TypeOK, ProducerPc, ConsumerPc, ChannelState, StopChannel, idx,
    slots, prod
<1>2. IndexOrder' /\ ConsumerInv' /\ OwnerInv' /\ SnapshotInv' /\ MarkInv' /\ ContentInv' /\ DeliveryInv'
  BY DEF IInv, IndexOrder, ConsumerInv, OwnerInv, Owns, SnapshotInv, MarkInv,
    ContentInv, DeliveryInv, DeliveredInOrder, StopChannel, idx, slots, prod
<1> QED BY <1>1, <1>2 DEF IInv

-----------------------------------------------------------------------------
(* The invariant holds *)

LEMMA InitInv == Init => IInv
<1> SUFFICES ASSUME Init PROVE IInv OBVIOUS
<1>1. TypeOK
  BY IdxInSlot DEF Init, TypeOK, Mark, LogContent, ChannelState, ProducerPc, ConsumerPc
<1>2. IndexOrder /\ ConsumerInv BY BufferAssumption DEF Init, IndexOrder, ConsumerInv
<1>3. OwnerInv /\ SnapshotInv BY DEF Init, OwnerInv, Owns, SnapshotInv
<1>4. MarkInv BY IdxInSlot, BufferAssumption DEF Init, MarkInv
<1>5. ContentInv BY IdxInSlot, BufferAssumption DEF Init, ContentInv
<1>6. DeliveryInv BY DEF Init, DeliveryInv, DeliveredInOrder
<1> QED BY <1>1, <1>2, <1>3, <1>4, <1>5, <1>6 DEF IInv

LEMMA NextInv == IInv /\ [LapFreeNext]_vars => IInv'
<1> SUFFICES ASSUME IInv, [LapFreeNext]_vars PROVE IInv' OBVIOUS
<1>1. ASSUME NoLap', NEW p \in Producers, Hold(p) PROVE IInv'
  BY <1>1, BeginLogStep, HoldStateStep, HoldLoadStep, HoldFullStep, HoldCasStep,
     HoldMarkStep DEF Hold
<1>2. ASSUME NoLap', NEW p \in Producers, Push(p) PROVE IInv'
  BY <1>2, InitLogDataStep, PushStateStep, PushReadyStep, WriteLoadStep, WriteHoldStep,
     WriteMarkStep, WriteCasStep, WriteCountStep, WriteAgainStep DEF Push
<1>3. ASSUME NoLap', Consumer PROVE IInv'
  BY <1>3, TakeStep, DispatchLogStep, ClearMarkStep, FreeSlotStep, SettleStep, PollStep
     DEF Consumer
<1>4. CASE UNCHANGED vars
  BY <1>4 DEF IInv, TypeOK, IndexOrder, ConsumerInv, OwnerInv, Owns, SnapshotInv, MarkInv,
     ContentInv, DeliveryInv, DeliveredInOrder, vars, idx, slots, prod, hist
<1> QED BY <1>1, <1>2, <1>3, <1>4, StopChannelStep DEF LapFreeNext, Next, Terminated

(* The inductive invariant holds in every behaviour without laps.          *)
THEOREM InvariantHolds == LapFreeSpec => []IInv
BY InitInv, NextInv, PTL DEF LapFreeSpec

(* Every variable keeps its type: no index goes negative, no slot holds    *)
(* anything but a log.                                                     *)
THEOREM TypeCorrect == LapFreeSpec => []TypeOK
<1>1. IInv => TypeOK BY DEF IInv
<1> QED BY <1>1, InvariantHolds, PTL

(* No claim reaches a slot that the consumer has not given back, and no    *)
(* index overtakes another.                                                *)
THEOREM RingNeverOverfull == LapFreeSpec => []IndexOrder
<1>1. IInv => IndexOrder BY DEF IInv
<1> QED BY <1>1, InvariantHolds, PTL

(* The text of a slot has one user at a time, although nothing locks it.   *)
THEOREM SlotHasOneUser == LapFreeSpec => []SlotExclusive
<1>1. IInv => SlotExclusive
  <2> SUFFICES ASSUME IInv PROVE SlotExclusive OBVIOUS
  <2>1. ASSUME NEW p \in Producers, NEW q \in Producers, p # q, Owns(p), Owns(q)
        PROVE  Idx(claim[p]) # Idx(claim[q])
    <3>1. claim[p] # claim[q] BY <2>1 DEF IInv, OwnerInv
    <3> QED BY <2>1, <3>1, OwnedSlot, Counts
  <2>2. ASSUME cpc \in {"dispatch", "clear"}, NEW p \in Producers, Owns(p)
        PROVE  Idx(claim[p]) # Idx(proc - 1)
    BY <2>2, OwnedSlot, TakenSlot, Counts
  <2> QED BY <2>1, <2>2 DEF SlotExclusive
<1> QED BY <1>1, InvariantHolds, PTL

(* The devices get every log exactly once, complete and in claim order.    *)
THEOREM DeliveryCorrect == LapFreeSpec => []DeliveredInOrder
<1>1. IInv => DeliveredInOrder BY DEF IInv, DeliveryInv
<1> QED BY <1>1, InvariantHolds, PTL

-----------------------------------------------------------------------------
(* The ring implements the queue *)

LEMMA InitRefines == Init => Queue!Init
<1> SUFFICES ASSUME Init PROVE Queue!Init OBVIOUS
<1>1. ReadyLogs = {} BY DEF Init, ReadyLogs
<1>2. DeliveredIds = <<>> BY DEF Init, DeliveredIds
<1> QED BY <1>1, <1>2 DEF Init, Queue!Init

(* A step that touches no index, no mark and not the history is invisible. *)
LEMMA StutterRefines ==
  ASSUME UNCHANGED <<idx, mark, delivered>>
  PROVE  UNCHANGED Queue!vars
BY DEF idx, ReadyLogs, DeliveredIds, Queue!vars

LEMMA HoldCasRefines ==
  ASSUME IInv, NEW p \in Producers, HoldCas(p)
  PROVE  Queue!Claim \/ UNCHANGED Queue!vars
<1>1. CASE Idx(hold) = Idx(old[p])
  <2>1. hold' = hold + 1 /\ hold + 1 < read + BUFFER_LEN /\ mark' = mark
        /\ UNCHANGED <<write, read, delivered>>
    BY <1>1, HoldCasIsCurrent DEF HoldCas, Goto, slots, hist
  <2>2. mark[Idx(hold)] = "INVALID" BY Counts DEF IInv, MarkInv
  <2>3. ReadyLogs' = ReadyLogs BY <2>1, <2>2, Counts DEF ReadyLogs
  <2>4. DeliveredIds' = DeliveredIds BY <2>1 DEF DeliveredIds
  <2> QED BY <2>1, <2>3, <2>4, Counts DEF Queue!Claim
<1>2. CASE Idx(hold) # Idx(old[p])
  BY <1>2, StutterRefines DEF HoldCas, idx, slots, hist
<1> QED BY <1>1, <1>2

LEMMA HoldMarkRefines ==
  ASSUME IInv, NEW p \in Producers, HoldMark(p)
  PROVE  UNCHANGED Queue!vars
<1> Owns(p) BY DEF HoldMark, Goto, Owns
<1>1. mark' = [mark EXCEPT ![Idx(claim[p])] = "HOLD"] /\ UNCHANGED <<idx, delivered>>
  BY DEF HoldMark, hist
<1>2. ASSUME NEW n \in write .. hold - 1
      PROVE  mark'[Idx(n)] = "READY" <=> mark[Idx(n)] = "READY"
  <2>1. n \in Nat /\ Idx(n) \in Slot BY <1>2, Counts, IdxInSlot
  <2> QED BY <1>1, <2>1, OwnedSlot, MarkType
<1>3. ReadyLogs' = ReadyLogs BY <1>1, <1>2 DEF ReadyLogs, idx
<1> QED BY <1>1, <1>3 DEF Queue!vars, DeliveredIds, idx

LEMMA PushReadyRefines ==
  ASSUME IInv, NEW p \in Producers, PushReady(p)
  PROVE  Queue!Complete
<1> Owns(p) BY DEF PushReady, Goto, Owns
<1> DEFINE c == claim[p]
<1>1. mark' = [mark EXCEPT ![Idx(c)] = "READY"] /\ UNCHANGED <<idx, delivered>>
  BY DEF PushReady, hist
<1>2. c \in (write .. hold - 1) \ ReadyLogs BY OwnedSlot, Counts DEF ReadyLogs
<1>3. ASSUME NEW n \in write .. hold - 1
      PROVE  mark'[Idx(n)] = "READY" <=> n = c \/ mark[Idx(n)] = "READY"
  <2>1. n \in Nat /\ Idx(n) \in Slot /\ read <= n /\ n < read + BUFFER_LEN
    BY <1>3, Counts, IdxInSlot
  <2>2. CASE n = c BY <1>1, <2>2, OwnedSlot, MarkType
  <2>3. CASE n # c BY <1>1, <2>1, <2>3, OwnedSlot, MarkType
  <2> QED BY <2>2, <2>3
<1>4. ReadyLogs' = ReadyLogs \cup {c} BY <1>1, <1>2, <1>3 DEF ReadyLogs, idx
<1>5. UNCHANGED <<hold, write, read, DeliveredIds>> BY <1>1 DEF DeliveredIds, idx
<1> HIDE DEF c
<1> QED BY <1>2, <1>4, <1>5 DEF Queue!Complete

LEMMA WriteCasRefines ==
  ASSUME IInv, NEW p \in Producers, WriteCas(p)
  PROVE  Queue!Publish \/ UNCHANGED Queue!vars
<1>1. CASE Idx(write) = Idx(old[p])
  <2>1. write' = write + 1 /\ write < hold /\ mark[Idx(write)] = "READY" /\ mark' = mark
        /\ UNCHANGED <<hold, read, delivered>>
    BY <1>1, WriteCasIsCurrent DEF WriteCas, Goto, slots, hist
  <2>2. write \in ReadyLogs BY <2>1, Counts DEF ReadyLogs
  <2>3. ReadyLogs' = ReadyLogs \ {write} BY <2>1, Counts DEF ReadyLogs
  <2>4. DeliveredIds' = DeliveredIds BY <2>1 DEF DeliveredIds
  <2> QED BY <2>1, <2>2, <2>3, <2>4 DEF Queue!Publish
<1>2. CASE Idx(write) # Idx(old[p])
  BY <1>2, StutterRefines DEF WriteCas, idx, slots, hist
<1> QED BY <1>1, <1>2

LEMMA DispatchLogRefines ==
  ASSUME IInv, DispatchLog
  PROVE  Queue!Deliver
<1>1. /\ cpc = "dispatch" /\ UNCHANGED <<idx, mark>>
      /\ delivered' = Append(delivered, log[Idx(proc - 1)])
  BY DEF DispatchLog, slots
<1>2. log[Idx(proc - 1)] = [id |-> read, complete |-> TRUE] /\ proc - 1 = read
  BY <1>1, TakenSlot, Counts DEF IInv, ContentInv
<1>3. Len(delivered) = read /\ read < write BY <1>1, <1>2, Counts DEF IInv, DeliveryInv
<1>4. delivered \in Seq(LogContent) /\ log[Idx(proc - 1)] \in LogContent
  BY <1>2, Counts DEF IInv, TypeOK, LogContent
<1>5. Len(DeliveredIds) = read /\ DeliveredIds \in Seq(Nat \cup {-1})
  <2>1. \A k \in 1 .. read : delivered[k].id \in Nat \cup {-1}
    <3> SUFFICES ASSUME NEW k \in 1 .. read PROVE delivered[k].id \in Nat \cup {-1}
      OBVIOUS
    <3>1. delivered[k] = [id |-> k - 1, complete |-> TRUE]
      BY <1>3 DEF IInv, DeliveryInv, DeliveredInOrder
    <3>2. delivered[k].id = k - 1 BY <3>1
    <3> QED BY <3>2, Counts
  <2>2. DeliveredIds \in [1 .. read -> Nat \cup {-1}]
    BY <1>3, <2>1 DEF DeliveredIds
  <2> QED BY <2>2, Counts
<1>6. DeliveredIds' = Append(DeliveredIds, Len(DeliveredIds))
  <2>1. Len(delivered') = read + 1 BY <1>1, <1>3, <1>4
  <2>2. \A k \in 1 .. read : delivered'[k] = delivered[k] BY <1>1, <1>3, <1>4
  <2>3. delivered'[read + 1].id = read BY <1>1, <1>2, <1>3, <1>4
  <2>4. DeliveredIds' = [k \in 1 .. read + 1 |-> IF k <= read THEN delivered[k].id ELSE read]
    BY <2>1, <2>2, <2>3, Counts DEF DeliveredIds
  <2>5. Append(DeliveredIds, read)
          = [k \in 1 .. read + 1 |-> IF k <= read THEN delivered[k].id ELSE read]
    BY <1>3, <1>5, Counts DEF DeliveredIds
  <2> QED BY <1>5, <2>4, <2>5
<1>7. ReadyLogs' = ReadyLogs BY <1>1 DEF ReadyLogs, idx
<1> QED BY <1>1, <1>3, <1>5, <1>6, <1>7 DEF Queue!Deliver, idx

LEMMA ClearMarkRefines ==
  ASSUME IInv, ClearMark
  PROVE  UNCHANGED Queue!vars
<1>1. mark' = [mark EXCEPT ![Idx(read)] = "INVALID"] /\ UNCHANGED <<idx, delivered>>
      /\ cpc = "clear" /\ read < write
  <2>1. cpc = "clear" BY DEF ClearMark
  <2>2. proc - 1 = read /\ read < write BY <2>1, TakenSlot, Counts
  <2> QED BY <2>1, <2>2 DEF ClearMark, hist
<1>2. ASSUME NEW n \in write .. hold - 1 PROVE mark'[Idx(n)] = mark[Idx(n)]
  <2>1. n \in Nat /\ Idx(n) \in Slot /\ read < n /\ n < read + BUFFER_LEN
    BY <1>1, <1>2, Counts, IdxInSlot
  <2> QED BY <1>1, <2>1, TakenSlot, MarkType
<1>3. ReadyLogs' = ReadyLogs BY <1>1, <1>2 DEF ReadyLogs, idx
<1> QED BY <1>1, <1>3 DEF Queue!vars, DeliveredIds, idx

LEMMA FreeSlotRefines ==
  ASSUME IInv, FreeSlot
  PROVE  Queue!Free \/ UNCHANGED Queue!vars
<1>1. CASE Idx(read) # Idx(proc) /\ mark[Idx(read)] = "INVALID"
  <2>1. read' = read + 1 /\ read + 1 = proc /\ cpc = "free"
        /\ UNCHANGED <<hold, write, mark, delivered>>
    BY <1>1 DEF IInv, ConsumerInv, FreeSlot, slots, hist
  <2>2. Len(delivered) = proc BY <2>1 DEF IInv, DeliveryInv
  <2>3. Len(DeliveredIds) = proc BY <2>2, Counts DEF DeliveredIds
  <2>4. UNCHANGED <<ReadyLogs, DeliveredIds>> BY <2>1 DEF ReadyLogs, DeliveredIds
  <2> QED BY <2>1, <2>3, <2>4, Counts DEF Queue!Free
<1>2. CASE ~(Idx(read) # Idx(proc) /\ mark[Idx(read)] = "INVALID")
  BY <1>2, StutterRefines DEF FreeSlot, idx, slots, hist
<1> QED BY <1>1, <1>2

LEMMA TakeRefines ==
  ASSUME Take
  PROVE  UNCHANGED Queue!vars
BY DEF Take, slots, hist, ReadyLogs, DeliveredIds, Queue!vars

LEMMA NextRefines == IInv /\ [LapFreeNext]_vars => [Queue!Next]_(Queue!vars)
<1> SUFFICES ASSUME IInv, [LapFreeNext]_vars PROVE Queue!Next \/ UNCHANGED Queue!vars
  OBVIOUS
<1>1. ASSUME NEW p \in Producers, Hold(p) PROVE Queue!Claim \/ UNCHANGED Queue!vars
  <2>1. CASE HoldCas(p) BY <2>1, HoldCasRefines
  <2>2. CASE HoldMark(p) BY <2>2, HoldMarkRefines
  <2>3. CASE BeginLog(p) \/ HoldState(p) \/ HoldLoad(p) \/ HoldFull(p)
    BY <2>3, StutterRefines DEF BeginLog, HoldState, HoldLoad, HoldFull, slots, hist
  <2> QED BY <1>1, <2>1, <2>2, <2>3 DEF Hold
<1>2. ASSUME NEW p \in Producers, Push(p)
      PROVE  Queue!Complete \/ Queue!Publish \/ UNCHANGED Queue!vars
  <2>1. CASE PushReady(p) BY <2>1, PushReadyRefines
  <2>2. CASE WriteCas(p) BY <2>2, WriteCasRefines
  <2>3. CASE InitLogData(p) \/ PushState(p) \/ WriteLoad(p) \/ WriteHold(p) \/ WriteMark(p)
             \/ WriteCount(p) \/ WriteAgain(p)
    BY <2>3, StutterRefines DEF InitLogData, PushState, WriteLoad, WriteHold, WriteMark,
       WriteCount, WriteAgain, slots, hist
  <2> QED BY <1>2, <2>1, <2>2, <2>3 DEF Push
<1>3. ASSUME Consumer PROVE Queue!Deliver \/ Queue!Free \/ UNCHANGED Queue!vars
  <2>1. CASE Settle \/ Poll BY <2>1, StutterRefines DEF Settle, Poll, slots, hist
  <2> QED BY <1>3, <2>1, TakeRefines, DispatchLogRefines, ClearMarkRefines,
             FreeSlotRefines DEF Consumer
<1>4. CASE StopChannel BY <1>4, StutterRefines DEF StopChannel, slots
<1>5. CASE UNCHANGED vars BY <1>5, StutterRefines DEF vars, slots, hist
<1> QED BY <1>1, <1>2, <1>3, <1>4, <1>5 DEF LapFreeNext, Next, Terminated, Queue!Next

(* The lock-free ring is a bounded first-in first-out queue of BUFFER_LEN  *)
(* - 1 places: every step of HoldChannel, PushChannel and EnterProcChannel *)
(* is one step of the queue, or invisible.                                 *)
THEOREM RingImplementsQueue == LapFreeSpec => ImplementsQueue
<1> QED BY InitRefines, NextRefines, InvariantHolds, PTL
        DEF LapFreeSpec, ImplementsQueue, Queue!Spec

-----------------------------------------------------------------------------
(* The hand-over of slots: no ready log is left behind by producers that   *)
(* each trust another to publish it, and the channel's thread ends only    *)
(* when it has delivered what was published when it was asked to finish.   *)
(* HandoffInv is inductive beside IInv.                                    *)

(* Nothing was logged before the channel runs.                             *)
FreshInv == state = "NULL" => hold = 0 /\ \A p \in Producers : pc[p] = "idle"

(* What was published when the stop came lies before write_idx_, and the   *)
(* thread that ended has taken it.                                         *)
StopInv ==
  /\ stopAt <= write
  /\ cpc = "done" => state = "FINISH" /\ stopAt <= proc

HandoffInv == IInv /\ FreshInv /\ StopInv /\ NoStrandedLog

-----------------------------------------------------------------------------
(* Nothing is stranded *)

(* A step that leaves the oldest unpublished log as it is, and whoever     *)
(* will publish it where it is, strands nothing.                           *)
LEMMA StaysNoticed ==
  ASSUME NoStrandedLog,
         write' = write,
         state' = "RUNNING" /\ write' < hold' /\ mark'[Idx(write')] = "READY"
           => state = "RUNNING" /\ write < hold /\ mark[Idx(write)] = "READY",
         \A q \in Producers : WillPublish(q) => WillPublish(q)'
  PROVE  NoStrandedLog'
BY DEF NoStrandedLog

(* Producers outside the publishing loop: the log that one of them marks   *)
(* ready it will publish itself.                                           *)
LEMMA HoldStranded ==
  ASSUME IInv, NoStrandedLog, NEW p \in Producers, Hold(p)
  PROVE  NoStrandedLog'
<1>1. \A q \in Producers : WillPublish(q) => WillPublish(q)'
  BY DEF IInv, TypeOK, WillPublish, Hold, BeginLog, HoldState, HoldLoad, HoldFull, HoldCas,
     HoldMark, Goto, idx
<1>2. write' = write /\ state' = state
  BY DEF Hold, BeginLog, HoldState, HoldLoad, HoldFull, HoldCas, HoldMark, idx
<1>3. CASE HoldCas(p)
  <2>1. hold' \in {hold, hold + 1} /\ mark' = mark BY <1>3 DEF HoldCas, slots
  <2>2. write = hold => mark[Idx(write)] = "INVALID" BY Counts DEF IInv, MarkInv
  <2> QED BY <1>1, <1>2, <2>1, <2>2, Counts, StaysNoticed
<1>4. CASE HoldMark(p)
  <2>1. hold' = hold /\ mark' = [mark EXCEPT ![Idx(claim[p])] = "HOLD"]
    BY <1>4 DEF HoldMark, idx
  <2>2. mark'[Idx(write)] = "READY" => mark[Idx(write)] = "READY"
    BY <2>1, Counts, IdxInSlot, MarkType
  <2> QED BY <1>1, <1>2, <2>1, <2>2, StaysNoticed
<1>5. CASE BeginLog(p) \/ HoldState(p) \/ HoldLoad(p) \/ HoldFull(p)
  BY <1>1, <1>2, <1>5, StaysNoticed
     DEF BeginLog, HoldState, HoldLoad, HoldFull, idx, slots
<1> QED BY <1>3, <1>4, <1>5 DEF Hold

(* Inside the loop: who finds the oldest log not ready, or nothing claimed *)
(* behind it, has seen the current write_idx_ or leaves it to the one      *)
(* whose compare-exchange came first.                                      *)
LEMMA PushStranded ==
  ASSUME IInv, NoStrandedLog, NEW p \in Producers, Push(p)
  PROVE  NoStrandedLog'
<1>1. CASE InitLogData(p) \/ PushState(p)
  BY <1>1, StaysNoticed DEF IInv, TypeOK, WillPublish, InitLogData, PushState, Goto, idx, slots
<1>2. CASE PushReady(p) \/ WriteCount(p)
  BY <1>2 DEF IInv, TypeOK, NoStrandedLog, WillPublish, PushReady, WriteCount, Goto
<1>3. CASE WriteLoad(p)
  BY <1>3, StaysNoticed DEF IInv, TypeOK, WillPublish, WriteLoad, Goto, idx, slots
<1>4. CASE WriteHold(p)
  <2>1. old[p] = write /\ Idx(old[p]) = Idx(hold) => write = hold
    <3>1. write < hold + BUFFER_LEN /\ hold < write + BUFFER_LEN BY Counts
    <3> QED BY <3>1, Counts, IdxInjective
  <2>2. UNCHANGED <<hold, write, mark, state, old>> BY <1>4 DEF WriteHold, idx, slots
  <2>3. CASE write < hold
    <3>1. \A q \in Producers : WillPublish(q) => WillPublish(q)'
      BY <1>4, <2>1, <2>2, <2>3, Counts DEF IInv, TypeOK, WillPublish, WriteHold, Goto
    <3> QED BY <2>2, <3>1, StaysNoticed
  <2> QED BY <2>2, <2>3 DEF NoStrandedLog
<1>5. CASE WriteMark(p)
  <2>1. UNCHANGED <<hold, write, mark, state, old>> BY <1>5 DEF WriteMark, idx, slots
  <2>2. CASE mark[Idx(write)] = "READY"
    <3>1. \A q \in Producers : WillPublish(q) => WillPublish(q)'
      BY <1>5, <2>1, <2>2 DEF IInv, TypeOK, WillPublish, WriteMark, Goto
    <3> QED BY <2>1, <3>1, StaysNoticed
  <2> QED BY <2>1, <2>2 DEF NoStrandedLog
<1>6. CASE WriteCas(p)
  BY <1>6 DEF IInv, TypeOK, NoStrandedLog, WillPublish, WriteCas, Goto
<1>7. CASE WriteAgain(p)
  <2>1. UNCHANGED <<hold, write, mark, state, old>> BY <1>7 DEF WriteAgain, idx, slots
  <2>2. CASE state = "RUNNING"
    <3>1. \A q \in Producers : WillPublish(q) => WillPublish(q)'
      BY <1>7, <2>1, <2>2 DEF IInv, TypeOK, WillPublish, WriteAgain, Goto
    <3> QED BY <2>1, <3>1, StaysNoticed
  <2> QED BY <2>1, <2>2 DEF NoStrandedLog
<1> QED BY <1>1, <1>2, <1>3, <1>4, <1>5, <1>6, <1>7 DEF Push

(* The consumer marks no log ready, and sets the channel running only when *)
(* nothing was logged yet.                                                 *)
LEMMA ConsumerStranded ==
  ASSUME IInv, FreshInv, NoStrandedLog, Consumer
  PROVE  NoStrandedLog'
<1>1. \A q \in Producers : WillPublish(q) => WillPublish(q)'
  BY DEF WillPublish, Consumer, Take, DispatchLog, ClearMark, FreeSlot, Settle, Poll, prod, idx
<1>2. hold' = hold /\ write' = write
  BY DEF Consumer, Take, DispatchLog, ClearMark, FreeSlot, Settle, Poll, idx
<1>3. mark'[Idx(write)] = "READY" => mark[Idx(write)] = "READY"
  <2>1. CASE ClearMark
    BY <2>1, TakenSlot, Counts, IdxInSlot, MarkType DEF ClearMark
  <2>2. CASE UNCHANGED mark BY <2>2
  <2> QED BY <2>1, <2>2 DEF Consumer, Take, DispatchLog, FreeSlot, Settle, Poll, slots
<1>4. state' = "RUNNING" /\ write < hold => state = "RUNNING"
  BY Counts DEF FreshInv, Consumer, Take, DispatchLog, ClearMark, FreeSlot, Settle, Poll
<1> QED BY <1>1, <1>2, <1>3, <1>4, StaysNoticed

-----------------------------------------------------------------------------
(* What the thread has delivered when it ends *)

LEMMA FreshStep ==
  ASSUME IInv, FreshInv, [Next]_vars
  PROVE  FreshInv'
<1>1. ASSUME NEW p \in Producers, Hold(p) \/ Push(p) PROVE FreshInv'
  <2>1. state # "NULL"
    BY <1>1 DEF FreshInv, Hold, Push, Goto, BeginLog, HoldState, HoldLoad, HoldFull, HoldCas,
       HoldMark, InitLogData, PushState, PushReady, WriteLoad, WriteHold, WriteMark, WriteCas,
       WriteCount, WriteAgain
  <2>2. state' = state
    BY <1>1 DEF Hold, Push, BeginLog, HoldState, HoldLoad, HoldFull, HoldCas,
       HoldMark, InitLogData, PushState, PushReady, WriteLoad, WriteHold, WriteMark, WriteCas,
       WriteCount, WriteAgain
  <2> QED BY <2>1, <2>2 DEF FreshInv
<1>2. CASE Consumer
  BY <1>2 DEF FreshInv, Consumer, Take, DispatchLog, ClearMark, FreeSlot, Settle, Poll, prod, idx
<1>3. CASE StopChannel BY <1>3 DEF FreshInv, StopChannel
<1>4. CASE UNCHANGED vars BY <1>4 DEF FreshInv, vars, idx, prod
<1> QED BY <1>1, <1>2, <1>3, <1>4 DEF Next, Terminated

LEMMA StopStep ==
  ASSUME IInv, StopInv, [Next]_vars
  PROVE  StopInv'
<1>1. ASSUME NEW p \in Producers, Hold(p) \/ Push(p) PROVE StopInv'
  <2>1. UNCHANGED <<stopAt, cpc, state, proc>> /\ write' \in {write, write + 1}
    BY <1>1 DEF Hold, Push, BeginLog, HoldState, HoldLoad, HoldFull, HoldCas,
       HoldMark, InitLogData, PushState, PushReady, WriteLoad, WriteHold, WriteMark, WriteCas,
       WriteCount, WriteAgain, idx, hist
  <2> QED BY <2>1, Counts DEF IInv, TypeOK, StopInv
<1>2. CASE Poll
  <2>1. read = proc BY <1>2 DEF Poll, IInv, ConsumerInv
  <2>2. Idx(write) = Idx(read) => write = read
    <3>1. write < read + BUFFER_LEN /\ read < write + BUFFER_LEN BY Counts
    <3> QED BY <3>1, Counts, IdxInjective
  <2> QED BY <1>2, <2>1, <2>2 DEF StopInv, Poll, idx, hist
<1>3. CASE Take \/ DispatchLog \/ ClearMark \/ FreeSlot \/ Settle
  BY <1>3, Counts DEF StopInv, Take, DispatchLog, ClearMark, FreeSlot, Settle, idx, hist
<1>4. CASE StopChannel BY <1>4, Counts DEF StopInv, StopChannel, idx
<1>5. CASE UNCHANGED vars BY <1>5 DEF StopInv, vars, idx, hist
<1> QED BY <1>1, <1>2, <1>3, <1>4, <1>5 DEF Next, Consumer, Terminated

-----------------------------------------------------------------------------
LEMMA HandoffInit == Init => HandoffInv
<1> SUFFICES ASSUME Init PROVE HandoffInv OBVIOUS
<1>1. IInv BY InitInv
<1>2. FreshInv /\ StopInv /\ NoStrandedLog BY DEF Init, FreshInv, StopInv, NoStrandedLog
<1> QED BY <1>1, <1>2 DEF HandoffInv

LEMMA HandoffNext == HandoffInv /\ [LapFreeNext]_vars => HandoffInv'
<1> SUFFICES ASSUME HandoffInv, [LapFreeNext]_vars PROVE HandoffInv' OBVIOUS
<1>1. IInv' BY NextInv DEF HandoffInv
<1>2. FreshInv' /\ StopInv' BY FreshStep, StopStep DEF HandoffInv, LapFreeNext
<1>3. NoStrandedLog'
  <2>1. CASE StopChannel BY <2>1 DEF StopChannel, NoStrandedLog
  <2>2. CASE UNCHANGED vars
    BY <2>2 DEF HandoffInv, NoStrandedLog, WillPublish, vars, idx, slots, prod
  <2> QED BY <2>1, <2>2, HoldStranded, PushStranded, ConsumerStranded
          DEF HandoffInv, LapFreeNext, Next, Terminated
<1> QED BY <1>1, <1>2, <1>3 DEF HandoffInv

LEMMA HandoffHolds == LapFreeSpec => []HandoffInv
<1> QED BY HandoffInit, HandoffNext, PTL DEF LapFreeSpec

(* While the channel runs, a ready log that is next to be published always *)
(* has a producer inside PushChannel that will see it: the early exits of  *)
(* the loop (fn_channel.cpp:306-309) never all rely on one another.        *)
THEOREM NothingStranded == LapFreeSpec => []NoStrandedLog
<1>1. HandoffInv => NoStrandedLog BY DEF HandoffInv
<1> QED BY <1>1, HandoffHolds, PTL

(* A stop loses nothing that was published before it.                      *)
THEOREM StopDelivers == LapFreeSpec => []StopDrains
<1>1. HandoffInv => StopDrains
  BY Counts DEF HandoffInv, StopInv, IInv, TypeOK, ConsumerInv, DeliveryInv, StopDrains
<1> QED BY <1>1, HandoffHolds, PTL

-----------------------------------------------------------------------------
(* The counters never run ahead of the claims and match the ring when it   *)
(* is quiet: a counter lags behind its index by the number of threads      *)
(* between the compare-exchange and the increment.                         *)

Marking == {p \in Producers : pc[p] = "hold_mark"}
Counting == {p \in Producers : pc[p] = "write_count"}

HoldCountInv == IsFiniteSet(Marking) /\ count.hold + Cardinality(Marking) = hold
PushCountInv == IsFiniteSet(Counting) /\ count.push + Cardinality(Counting) = write
ProcessedInv == count.processed = IF cpc \in {"dispatch", "clear"} THEN proc - 1 ELSE proc

CountInv == IInv /\ HoldCountInv /\ PushCountInv /\ ProcessedInv

-----------------------------------------------------------------------------
(* A set with one element more or less.                                    *)
LEMMA OneMore ==
  ASSUME NEW S, IsFiniteSet(S), NEW x, x \notin S
  PROVE  /\ Cardinality(S) \in Nat
         /\ IsFiniteSet(S \cup {x}) /\ Cardinality(S \cup {x}) = Cardinality(S) + 1
BY FS_AddElement, FS_CardinalityType

LEMMA OneLess ==
  ASSUME NEW S, IsFiniteSet(S), NEW x \in S
  PROVE  /\ Cardinality(S) \in Nat
         /\ IsFiniteSet(S \ {x}) /\ Cardinality(S \ {x}) = Cardinality(S) - 1
BY FS_RemoveElement, FS_CardinalityType

(* Each thread that is about to count its claim owns a slot of its own     *)
(* behind write_idx_.                                                      *)
LEMMA MarkingFits ==
  ASSUME IInv, IsFiniteSet(Marking)
  PROVE  Cardinality(Marking) \in Nat /\ Cardinality(Marking) <= hold - write
<1> DEFINE f == [p \in Marking |-> claim[p]]
<1> DEFINE T == write .. hold - 1
<1>1. f \in Injection(Marking, T)
  <2>1. ASSUME NEW p \in Marking PROVE claim[p] \in T
    <3>1. claim[p] \in Nat BY DEF IInv, TypeOK, Marking
    <3>2. write <= claim[p] /\ claim[p] < hold BY DEF IInv, OwnerInv, Owns, Marking
    <3> QED BY <3>1, <3>2, Counts
  <2>2. \A p, q \in Marking : claim[p] = claim[q] => p = q
    BY DEF IInv, OwnerInv, Owns, Marking
  <2> QED BY <2>1, <2>2, Fun_IsInj
<1>2. IsFiniteSet(T) /\ Cardinality(T) = hold - write
  <2>1. write \in Int /\ hold - 1 \in Int /\ write <= hold BY Counts
  <2>2. /\ IsFiniteSet(write .. hold - 1)
        /\ Cardinality(write .. hold - 1) = IF write > hold - 1 THEN 0 ELSE hold - 1 - write + 1
    BY <2>1, FS_Interval
  <2>3. hold \in Int BY Counts
  <2> QED BY <2>1, <2>2, <2>3
<1>3. Cardinality(Marking) <= Cardinality(T) BY <1>1, <1>2, FS_Injection
<1> QED BY <1>2, <1>3, FS_CardinalityType

-----------------------------------------------------------------------------
(* Claims are counted in HoldChannel.                                      *)
LEMMA HoldCountStep ==
  ASSUME IInv, HoldCountInv, [Next]_vars
  PROVE  HoldCountInv'
<1>1. CASE Marking' = Marking /\ UNCHANGED hold /\ count'.hold = count.hold
  BY <1>1 DEF HoldCountInv
<1>2. ASSUME NEW p \in Producers, HoldCas(p), Idx(hold) = Idx(old[p]) PROVE HoldCountInv'
  <2>1. hold' = hold + 1 /\ count' = count /\ p \notin Marking /\ Marking' = Marking \cup {p}
    BY <1>2 DEF IInv, TypeOK, HoldCas, Goto, Marking
  <2>2. IsFiniteSet(Marking) /\ count.hold \in Nat /\ count.hold + Cardinality(Marking) = hold
    BY DEF HoldCountInv, IInv, TypeOK
  <2>3. /\ Cardinality(Marking) \in Nat /\ IsFiniteSet(Marking')
        /\ Cardinality(Marking') = Cardinality(Marking) + 1
    BY <2>1, <2>2, OneMore
  <2> QED BY <2>1, <2>2, <2>3, Counts DEF HoldCountInv
<1>3. ASSUME NEW p \in Producers, HoldMark(p) PROVE HoldCountInv'
  <2>1. hold' = hold /\ count'.hold = count.hold + 1 /\ p \in Marking /\ Marking' = Marking \ {p}
    BY <1>3 DEF IInv, TypeOK, HoldMark, Goto, Marking, idx
  <2>2. IsFiniteSet(Marking) /\ count.hold \in Nat /\ count.hold + Cardinality(Marking) = hold
    BY DEF HoldCountInv, IInv, TypeOK
  <2>3. /\ Cardinality(Marking) \in Nat /\ IsFiniteSet(Marking')
        /\ Cardinality(Marking') = Cardinality(Marking) - 1
    BY <2>1, <2>2, OneLess
  <2> QED BY <2>1, <2>2, <2>3, Counts DEF HoldCountInv
<1>4. ASSUME NEW p \in Producers, Hold(p), ~HoldMark(p), ~(HoldCas(p) /\ Idx(hold) = Idx(old[p]))
      PROVE  HoldCountInv'
  BY <1>1, <1>4 DEF IInv, TypeOK, Marking, Hold, BeginLog, HoldState, HoldLoad, HoldFull,
     HoldCas, Goto, idx
<1>5. ASSUME NEW p \in Producers, Push(p) PROVE HoldCountInv'
  BY <1>1, <1>5 DEF IInv, TypeOK, Marking, Push, InitLogData, PushState, PushReady, WriteLoad,
     WriteHold, WriteMark, WriteCas, WriteCount, WriteAgain, Goto, idx
<1>6. CASE Consumer \/ StopChannel
  BY <1>1, <1>6 DEF IInv, TypeOK, Marking, Consumer, Take, DispatchLog, ClearMark, FreeSlot,
     Settle, Poll, StopChannel, prod, idx
<1>7. CASE UNCHANGED vars BY <1>1, <1>7 DEF Marking, vars, prod, idx
<1> QED BY <1>2, <1>3, <1>4, <1>5, <1>6, <1>7 DEF Next, Terminated

(* Publications are counted in PushChannel.                                *)
LEMMA PushCountStep ==
  ASSUME IInv, PushCountInv, [Next]_vars
  PROVE  PushCountInv'
<1>1. CASE Counting' = Counting /\ UNCHANGED write /\ count'.push = count.push
  BY <1>1 DEF PushCountInv
<1>2. ASSUME NEW p \in Producers, WriteCas(p), Idx(write) = Idx(old[p]) PROVE PushCountInv'
  <2>1. write' = write + 1 /\ count' = count /\ p \notin Counting /\ Counting' = Counting \cup {p}
    BY <1>2 DEF IInv, TypeOK, WriteCas, Goto, Counting
  <2>2. IsFiniteSet(Counting) /\ count.push \in Nat /\ count.push + Cardinality(Counting) = write
    BY DEF PushCountInv, IInv, TypeOK
  <2>3. /\ Cardinality(Counting) \in Nat /\ IsFiniteSet(Counting')
        /\ Cardinality(Counting') = Cardinality(Counting) + 1
    BY <2>1, <2>2, OneMore
  <2> QED BY <2>1, <2>2, <2>3, Counts DEF PushCountInv
<1>3. ASSUME NEW p \in Producers, WriteCount(p) PROVE PushCountInv'
  <2>1. write' = write /\ count'.push = count.push + 1 /\ p \in Counting
        /\ Counting' = Counting \ {p}
    BY <1>3 DEF IInv, TypeOK, WriteCount, Goto, Counting, idx
  <2>2. IsFiniteSet(Counting) /\ count.push \in Nat /\ count.push + Cardinality(Counting) = write
    BY DEF PushCountInv, IInv, TypeOK
  <2>3. /\ Cardinality(Counting) \in Nat /\ IsFiniteSet(Counting')
        /\ Cardinality(Counting') = Cardinality(Counting) - 1
    BY <2>1, <2>2, OneLess
  <2> QED BY <2>1, <2>2, <2>3, Counts DEF PushCountInv
<1>4. ASSUME NEW p \in Producers, Push(p), ~WriteCount(p), ~(WriteCas(p) /\ Idx(write) = Idx(old[p]))
      PROVE  PushCountInv'
  BY <1>1, <1>4 DEF IInv, TypeOK, Counting, Push, InitLogData, PushState, PushReady, WriteLoad,
     WriteHold, WriteMark, WriteCas, WriteAgain, Goto, idx
<1>5. ASSUME NEW p \in Producers, Hold(p) PROVE PushCountInv'
  BY <1>1, <1>5 DEF IInv, TypeOK, Counting, Hold, BeginLog, HoldState, HoldLoad, HoldFull,
     HoldCas, HoldMark, Goto, idx
<1>6. CASE Consumer \/ StopChannel
  BY <1>1, <1>6 DEF IInv, TypeOK, Counting, Consumer, Take, DispatchLog, ClearMark, FreeSlot,
     Settle, Poll, StopChannel, prod, idx
<1>7. CASE UNCHANGED vars BY <1>1, <1>7 DEF Counting, vars, prod, idx
<1> QED BY <1>2, <1>3, <1>4, <1>5, <1>6, <1>7 DEF Next, Terminated

(* Deliveries are counted in EnterProcChannel.                             *)
LEMMA ProcessedStep ==
  ASSUME IInv, ProcessedInv, [Next]_vars
  PROVE  ProcessedInv'
<1>1. ASSUME NEW p \in Producers, Hold(p) \/ Push(p) PROVE ProcessedInv'
  <2>1. UNCHANGED <<proc, cpc>> /\ count'.processed = count.processed
    BY <1>1 DEF IInv, TypeOK, Hold, Push, BeginLog, HoldState, HoldLoad, HoldFull, HoldCas,
       HoldMark, InitLogData, PushState, PushReady, WriteLoad, WriteHold, WriteMark, WriteCas,
       WriteCount, WriteAgain, idx
  <2> QED BY <2>1 DEF ProcessedInv
<1>2. CASE Consumer
  BY <1>2, Counts DEF IInv, TypeOK, ProcessedInv, Consumer, Take, DispatchLog, ClearMark,
     FreeSlot, Settle, Poll, idx
<1>3. CASE StopChannel \/ UNCHANGED vars BY <1>3 DEF ProcessedInv, StopChannel, vars, idx
<1> QED BY <1>1, <1>2, <1>3 DEF Next, Terminated

-----------------------------------------------------------------------------
LEMMA CountInit == Init => CountInv
<1> SUFFICES ASSUME Init PROVE CountInv OBVIOUS
<1>1. Marking = {} /\ Counting = {} BY DEF Init, Marking, Counting
<1>2. HoldCountInv /\ PushCountInv BY <1>1, FS_EmptySet DEF Init, HoldCountInv, PushCountInv
<1> QED BY <1>2, InitInv DEF Init, CountInv, ProcessedInv

LEMMA CountNext == CountInv /\ [LapFreeNext]_vars => CountInv'
BY NextInv, HoldCountStep, PushCountStep, ProcessedStep DEF CountInv, LapFreeNext

LEMMA CountImplies == CountInv => CountersAgree
<1> SUFFICES ASSUME CountInv PROVE CountersAgree OBVIOUS
<1>1. /\ count \in [hold : Nat, push : Nat, processed : Nat]
      /\ Cardinality(Marking) \in Nat /\ Cardinality(Marking) <= hold - write
      /\ Cardinality(Counting) \in Nat
  BY MarkingFits, FS_CardinalityType DEF CountInv, HoldCountInv, PushCountInv, IInv, TypeOK
<1>2. /\ count.hold = hold - Cardinality(Marking)
      /\ count.push = write - Cardinality(Counting)
  BY <1>1, Counts DEF CountInv, HoldCountInv, PushCountInv
<1>3. count.push <= count.hold /\ count.processed <= count.hold
  BY <1>1, <1>2, Counts DEF CountInv, ProcessedInv
<1>4. ASSUME cpc \notin {"clear"}, \A p \in Producers : pc[p] = "idle"
      PROVE  count = [hold |-> hold, push |-> write,
                      processed |-> IF cpc = "dispatch" THEN proc - 1 ELSE proc]
  <2>1. Marking = {} /\ Counting = {} BY <1>4 DEF Marking, Counting
  <2>2. Cardinality(Marking) = 0 /\ Cardinality(Counting) = 0 BY <2>1, FS_EmptySet
  <2>3. count.hold = hold /\ count.push = write BY <1>2, <2>2, Counts DEF CountInv
  <2> QED BY <1>1, <1>4, <2>3 DEF CountInv, ProcessedInv
<1> QED BY <1>3, <1>4 DEF CountersAgree

(* The counters a program reads from a running channel are never ahead of  *)
(* one another, and are exact when nobody is inside: although each is      *)
(* incremented some time after the compare-exchange it counts.             *)
THEOREM CountersCorrect == LapFreeSpec => []CountersAgree
<1> QED BY CountInit, CountNext, CountImplies, PTL DEF LapFreeSpec

=============================================================================
