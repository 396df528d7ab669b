---------------------------- MODULE RingChannel ----------------------------
(***************************************************************************)
(* One CHANNEL_ASYNC channel of fn_log: the lock-free ring buffer of       *)
(* fn_logger.h shared by the threads that write logs (HoldChannel, then    *)
(* InitLogData, then PushChannel of fn_channel.cpp) and by the channel's   *)
(* own thread (EnterProcChannel).  Every load, store and compare-exchange  *)
(* of a shared variable that another thread can notice is a step.          *)
(*                                                                         *)
(* The four indices of the ring are unwrapped here: hold, write, proc and  *)
(* read count the claims, publications, ... ever made, and the code's      *)
(* index is the count modulo BUFFER_LEN (Idx).  The code sees only the     *)
(* index, so every comparison and compare-exchange below compares indices. *)
(* A thread asleep between a load and its compare-exchange while the       *)
(* others go all the way round therefore succeeds where it should fail,    *)
(* as in the program.  Lap freedom (NoLap) excludes just that.             *)
(***************************************************************************)
EXTENDS Integers, Sequences

CONSTANTS
  Producers,   \* the threads that write logs to the channel
  BUFFER_LEN,  \* RingBuffer::BUFFER_LEN, the number of slots
  MaxLogs      \* bound: no thread starts a log once MaxLogs are claimed

ASSUME BufferAssumption == BUFFER_LEN \in Nat \ {0, 1}
ASSUME BoundAssumption == MaxLogs \in Nat

VARIABLES
  hold,       \* hold_idx_: slots before it are claimed
  write,      \* write_idx_: slots before it are published
  proc,       \* proc_idx_: slots before it were taken by the consumer
  read,       \* read_idx_: slots before it may be claimed again
  mark,       \* data_mark_ of each slot
  log,        \* contents of each slot: whose log it is, and if it is complete
  count,      \* the channel's counters CHANNEL_LOG_HOLD, _PUSH, _PROCESSED
  state,      \* channel_state_
  pc,         \* where each producer is
  old,        \* old_idx of HoldChannel or of PushChannel, unwrapped
  claim,      \* what HoldChannel returned, unwrapped
  cpc,        \* where the consumer is
  delivered,  \* history: the contents handed to DispatchLog
  stopAt      \* history: write when StopChannels asked the thread to finish

idx == <<hold, write, proc, read>>
slots == <<mark, log>>
prod == <<pc, old, claim>>
hist == <<delivered, stopAt>>
vars == <<idx, slots, count, state, prod, cpc, hist>>

Slot == 0 .. BUFFER_LEN - 1
Idx(n) == n % BUFFER_LEN

Mark == {"INVALID", "HOLD", "READY"}
LogContent == [id : Nat \cup {-1}, complete : BOOLEAN]
ChannelState == {"NULL", "RUNNING", "WAITING_FINISH", "FINISH"}
ProducerPc == {"idle", "hold", "hold_load", "hold_full", "hold_cas", "hold_mark",
               "init", "push", "ready",
               "write_load", "write_hold", "write_mark", "write_cas",
               "write_count", "write_again"}
ConsumerPc == {"take", "dispatch", "clear", "free", "settle", "poll", "done"}

(* LoadSharedMemory clears the shared memory; StartChannels spawns the     *)
(* thread with the channel still in CHANNEL_STATE_NULL.                    *)
Init ==
  /\ hold = 0 /\ write = 0 /\ proc = 0 /\ read = 0
  /\ mark = [s \in Slot |-> "INVALID"]
  /\ log = [s \in Slot |-> [id |-> -1, complete |-> FALSE]]
  /\ count = [hold |-> 0, push |-> 0, processed |-> 0]
  /\ state = "NULL"
  /\ pc = [p \in Producers |-> "idle"]
  /\ old = [p \in Producers |-> 0]
  /\ claim = [p \in Producers |-> 0]
  /\ cpc = "take"
  /\ delivered = <<>>
  /\ stopAt = 0

-----------------------------------------------------------------------------
(* HoldChannel *)

Goto(p, from, to) == pc[p] = from /\ pc' = [pc EXCEPT ![p] = to]

(* BlockInput lets the log through: the channel runs and a device wants it.*)
BeginLog(p) ==
  /\ state = "RUNNING" /\ hold < MaxLogs
  /\ Goto(p, "idle", "hold")
  /\ UNCHANGED <<idx, slots, count, state, old, claim, cpc, hist>>

(* Top of the retry loop; a channel that no longer runs gives up (-11).    *)
HoldState(p) ==
  /\ Goto(p, "hold", IF state = "RUNNING" THEN "hold_load" ELSE "idle")
  /\ UNCHANGED <<idx, slots, count, state, old, claim, cpc, hist>>

HoldLoad(p) ==
  /\ Goto(p, "hold_load", "hold_full")
  /\ old' = [old EXCEPT ![p] = hold]
  /\ UNCHANGED <<idx, slots, count, state, claim, cpc, hist>>

(* "Slip" marks a defect that a change to the code could bring in.  Next   *)
(* uses none; each shows that some property would notice it.               *)
(* Slip: the test for a full ring is left out.                             *)
HoldFullUntested(p) ==
  /\ Goto(p, "hold_full", "hold_cas")
  /\ UNCHANGED <<idx, slots, count, state, old, claim, cpc, hist>>

(* One slot always stays empty; a full ring sleeps and tries again.        *)
HoldFull(p) ==
  /\ Goto(p, "hold_full", IF Idx(old[p] + 1) = Idx(read) THEN "hold" ELSE "hold_cas")
  /\ UNCHANGED <<idx, slots, count, state, old, claim, cpc, hist>>

(* Slip: a store in place of the compare-exchange.                         *)
HoldStore(p) ==
  /\ Goto(p, "hold_cas", "hold_mark")
  /\ hold' = old[p] + 1
  /\ claim' = [claim EXCEPT ![p] = old[p]]
  /\ UNCHANGED <<write, proc, read, slots, count, state, old, cpc, hist>>

(* Slip: the caller is given the slot before the one it claimed.           *)
HoldCasOffByOne(p) ==
  /\ IF Idx(hold) = Idx(old[p])
     THEN /\ Goto(p, "hold_cas", "hold_mark")
          /\ hold' = hold + 1
          /\ claim' = [claim EXCEPT ![p] = hold - 1]
     ELSE /\ Goto(p, "hold_cas", "hold")
          /\ UNCHANGED <<hold, claim>>
  /\ UNCHANGED <<write, proc, read, slots, count, state, old, cpc, hist>>

HoldCas(p) ==
  /\ IF Idx(hold) = Idx(old[p])
     THEN /\ Goto(p, "hold_cas", "hold_mark")
          /\ hold' = hold + 1
          /\ claim' = [claim EXCEPT ![p] = hold]
     ELSE /\ Goto(p, "hold_cas", "hold")
          /\ UNCHANGED <<hold, claim>>
  /\ UNCHANGED <<write, proc, read, slots, count, state, old, cpc, hist>>

HoldMark(p) ==
  /\ Goto(p, "hold_mark", "init")
  /\ count' = [count EXCEPT !.hold = @ + 1]
  /\ mark' = [mark EXCEPT ![Idx(claim[p])] = "HOLD"]
  /\ UNCHANGED <<idx, log, state, old, claim, cpc, hist>>

-----------------------------------------------------------------------------
(* LogStream and PushChannel *)

(* InitLogData starts the log; LogStream then appends to it.               *)
InitLogData(p) ==
  /\ Goto(p, "init", "push")
  /\ log' = [log EXCEPT ![Idx(claim[p])] = [id |-> claim[p], complete |-> FALSE]]
  /\ UNCHANGED <<idx, mark, count, state, old, claim, cpc, hist>>

(* A channel that stopped meanwhile abandons the slot, still MARK_HOLD.    *)
PushState(p) ==
  /\ Goto(p, "push", IF state = "RUNNING" THEN "ready" ELSE "idle")
  /\ UNCHANGED <<idx, slots, count, state, old, claim, cpc, hist>>

(* The newline and the terminator complete the text, then the mark is set. *)
PushReady(p) ==
  /\ Goto(p, "ready", "write_load")
  /\ log' = [log EXCEPT ![Idx(claim[p])].complete = TRUE]
  /\ mark' = [mark EXCEPT ![Idx(claim[p])] = "READY"]
  /\ UNCHANGED <<idx, count, state, old, claim, cpc, hist>>

WriteLoad(p) ==
  /\ Goto(p, "write_load", "write_hold")
  /\ old' = [old EXCEPT ![p] = write]
  /\ UNCHANGED <<idx, slots, count, state, claim, cpc, hist>>

(* Nothing is claimed beyond write_idx_: done.                             *)
WriteHold(p) ==
  /\ Goto(p, "write_hold", IF Idx(old[p]) = Idx(hold) THEN "idle" ELSE "write_mark")
  /\ UNCHANGED <<idx, slots, count, state, old, claim, cpc, hist>>

(* Slip: whatever is claimed is published, ready or not.                   *)
WriteMarkUntested(p) ==
  /\ Goto(p, "write_mark", "write_cas")
  /\ UNCHANGED <<idx, slots, count, state, old, claim, cpc, hist>>

(* The oldest unpublished log is not ready: its author will publish.       *)
WriteMark(p) ==
  /\ Goto(p, "write_mark", IF mark[Idx(old[p])] = "READY" THEN "write_cas" ELSE "idle")
  /\ UNCHANGED <<idx, slots, count, state, old, claim, cpc, hist>>

(* Slip: a lost race is counted as a publication.                          *)
WriteCasCountsLoss(p) ==
  /\ Goto(p, "write_cas", "write_count")
  /\ write' = IF Idx(write) = Idx(old[p]) THEN write + 1 ELSE write
  /\ UNCHANGED <<hold, proc, read, slots, count, state, old, claim, cpc, hist>>

WriteCas(p) ==
  /\ IF Idx(write) = Idx(old[p])
     THEN Goto(p, "write_cas", "write_count") /\ write' = write + 1
     ELSE Goto(p, "write_cas", "write_again") /\ UNCHANGED write
  /\ UNCHANGED <<hold, proc, read, slots, count, state, old, claim, cpc, hist>>

(* Slip: a thread publishes one log and leaves.                            *)
WriteCountLeaves(p) ==
  /\ Goto(p, "write_count", "idle")
  /\ count' = [count EXCEPT !.push = @ + 1]
  /\ UNCHANGED <<idx, slots, state, old, claim, cpc, hist>>

WriteCount(p) ==
  /\ Goto(p, "write_count", "write_again")
  /\ count' = [count EXCEPT !.push = @ + 1]
  /\ UNCHANGED <<idx, slots, state, old, claim, cpc, hist>>

(* The loop condition of PushChannel.                                      *)
WriteAgain(p) ==
  /\ Goto(p, "write_again", IF state = "RUNNING" THEN "write_load" ELSE "idle")
  /\ UNCHANGED <<idx, slots, count, state, old, claim, cpc, hist>>

-----------------------------------------------------------------------------
(* EnterProcChannel, run by the channel's thread *)

(* Slip: the consumer follows hold_idx_ instead of write_idx_.             *)
TakeClaimed ==
  /\ cpc = "take"
  /\ IF Idx(proc) = Idx(hold)
     THEN cpc' = "settle" /\ UNCHANGED proc
     ELSE cpc' = "dispatch" /\ proc' = proc + 1
  /\ UNCHANGED <<hold, write, read, slots, count, state, prod, hist>>

(* proc_idx_ has one writer in an asynchronous channel, so its load, the   *)
(* test against write_idx_ and the compare-exchange are one step.          *)
Take ==
  /\ cpc = "take"
  /\ IF Idx(proc) = Idx(write)
     THEN cpc' = "settle" /\ UNCHANGED proc
     ELSE cpc' = "dispatch" /\ proc' = proc + 1
  /\ UNCHANGED <<hold, write, read, slots, count, state, prod, hist>>

DispatchLog ==
  /\ cpc = "dispatch" /\ cpc' = "clear"
  /\ delivered' = Append(delivered, log[Idx(proc - 1)])
  /\ UNCHANGED <<idx, slots, count, state, prod, stopAt>>

ClearMark ==
  /\ cpc = "clear" /\ cpc' = "free"
  /\ mark' = [mark EXCEPT ![Idx(proc - 1)] = "INVALID"]
  /\ count' = [count EXCEPT !.processed = @ + 1]
  /\ UNCHANGED <<idx, log, state, prod, hist>>

(* read_idx_ follows proc_idx_ over the cleared slots.                     *)
FreeSlot ==
  /\ cpc = "free"
  /\ IF Idx(read) # Idx(proc) /\ mark[Idx(read)] = "INVALID"
     THEN read' = read + 1 /\ UNCHANGED cpc
     ELSE cpc' = "take" /\ UNCHANGED read
  /\ UNCHANGED <<hold, write, proc, slots, count, state, prod, hist>>

(* The ring is empty: a starting channel declares itself running, files    *)
(* are flushed, HotUpdateLogger runs, the thread sleeps.                   *)
Settle ==
  /\ cpc = "settle" /\ cpc' = "poll"
  /\ state' = IF state = "NULL" THEN "RUNNING" ELSE state
  /\ UNCHANGED <<idx, slots, count, prod, hist>>

(* Slip: asked to finish, the thread leaves what is still published.       *)
PollImpatient ==
  /\ cpc = "poll"
  /\ IF state = "RUNNING"
     THEN cpc' = "take" /\ UNCHANGED state
     ELSE cpc' = "done" /\ state' = "FINISH"
  /\ UNCHANGED <<idx, slots, count, prod, hist>>

(* Slip: it waits for claimed logs, abandoned ones included.               *)
PollPatient ==
  /\ cpc = "poll"
  /\ IF state = "RUNNING" \/ Idx(hold) # Idx(read)
     THEN cpc' = "take" /\ UNCHANGED state
     ELSE cpc' = "done" /\ state' = "FINISH"
  /\ UNCHANGED <<idx, slots, count, prod, hist>>

(* The thread ends when it was asked to and nothing published is left.     *)
Poll ==
  /\ cpc = "poll"
  /\ IF state = "RUNNING" \/ Idx(write) # Idx(read)
     THEN cpc' = "take" /\ UNCHANGED state
     ELSE cpc' = "done" /\ state' = "FINISH"
  /\ UNCHANGED <<idx, slots, count, prod, hist>>

-----------------------------------------------------------------------------
(* StopChannels asks a running channel's thread to finish, then joins it.  *)
StopChannel ==
  /\ state = "RUNNING" /\ state' = "WAITING_FINISH"
  /\ stopAt' = write
  /\ UNCHANGED <<idx, slots, count, prod, cpc, delivered>>

Terminated ==
  /\ cpc = "done" /\ \A p \in Producers : pc[p] = "idle"
  /\ UNCHANGED vars

Hold(p) == \/ BeginLog(p) \/ HoldState(p) \/ HoldLoad(p) \/ HoldFull(p)
           \/ HoldCas(p) \/ HoldMark(p)
Push(p) == \/ InitLogData(p) \/ PushState(p) \/ PushReady(p)
           \/ WriteLoad(p) \/ WriteHold(p) \/ WriteMark(p) \/ WriteCas(p)
           \/ WriteCount(p) \/ WriteAgain(p)
Consumer == Take \/ DispatchLog \/ ClearMark \/ FreeSlot \/ Settle \/ Poll

Next == \/ \E p \in Producers : Hold(p) \/ Push(p)
        \/ Consumer
        \/ StopChannel
        \/ Terminated

Spec == Init /\ [][Next]_vars

-----------------------------------------------------------------------------
(* The timing assumption under which the ring is correct: while a thread   *)
(* is between the load of an index and its compare-exchange, the others    *)
(* do not take that index all the way round.                               *)
HoldSnapshot == {p \in Producers : pc[p] \in {"hold_full", "hold_cas"}}
WriteSnapshot == {p \in Producers : pc[p] \in {"write_hold", "write_mark", "write_cas"}}

NoLap ==
  /\ \A p \in HoldSnapshot : hold - old[p] < BUFFER_LEN
  /\ \A p \in WriteSnapshot : write - old[p] < BUFFER_LEN

LapFreeNext == Next /\ NoLap'
LapFreeSpec == Init /\ [][LapFreeNext]_vars

(* A thread inside HoldChannel or PushChannel, and the channel's thread,   *)
(* are run by the system's scheduler; nobody has to start or stop a log.   *)
Finishing(p) == (Hold(p) \/ Push(p)) /\ pc[p] # "idle"
Fairness ==
  /\ \A p \in Producers : WF_vars(Finishing(p) /\ NoLap')
  /\ WF_vars(Consumer)
FairSpec == LapFreeSpec /\ Fairness

-----------------------------------------------------------------------------
TypeOK ==
  /\ hold \in Nat /\ write \in Nat /\ proc \in Nat /\ read \in Nat
  /\ mark \in [Slot -> Mark]
  /\ log \in [Slot -> LogContent]
  /\ count \in [hold : Nat, push : Nat, processed : Nat]
  /\ state \in ChannelState
  /\ pc \in [Producers -> ProducerPc]
  /\ old \in [Producers -> Nat]
  /\ claim \in [Producers -> Nat]
  /\ cpc \in ConsumerPc
  /\ delivered \in Seq(LogContent)
  /\ stopAt \in Nat

(* The ring is never overfull and no index overtakes another: no claim     *)
(* reaches a slot whose log was not yet given back by the consumer.        *)
IndexOrder ==
  read <= proc /\ proc <= write /\ write <= hold /\ hold < read + BUFFER_LEN

(* A producer between the return of HoldChannel and MARK_READY.            *)
Owns(p) == pc[p] \in {"hold_mark", "init", "push", "ready"}

(* The text of a slot has one user at a time: no two producers fill the    *)
(* same slot, and none fills the slot that the consumer is dispatching.    *)
SlotExclusive ==
  /\ \A p, q \in Producers :
       p # q /\ Owns(p) /\ Owns(q) => Idx(claim[p]) # Idx(claim[q])
  /\ cpc \in {"dispatch", "clear"} =>
       \A p \in Producers : Owns(p) => Idx(claim[p]) # Idx(proc - 1)

(* The devices get every log exactly once, complete, in the order in which *)
(* the slots were claimed.                                                 *)
DeliveredInOrder ==
  \A k \in 1 .. Len(delivered) : delivered[k] = [id |-> k - 1, complete |-> TRUE]

(* While the channel runs, a ready log at write_idx_ always has a producer *)
(* in PushChannel that will notice it, whoever leaves the loop early.      *)
WillPublish(p) ==
  \/ pc[p] \in {"write_load", "write_count", "write_again", "write_cas"}
  \/ pc[p] \in {"write_hold", "write_mark"} /\ old[p] = write
NoStrandedLog ==
  state = "RUNNING" /\ write < hold /\ mark[Idx(write)] = "READY"
    => \E p \in Producers : WillPublish(p)

(* The thread ends only after delivering all that was published when it    *)
(* was asked to finish.                                                    *)
StopDrains == cpc = "done" => Len(delivered) >= stopAt /\ read = proc

(* The counters never show more logs pushed or processed than claimed, and *)
(* agree with the ring when every thread is out of it.                     *)
CountersAgree ==
  /\ count.push <= count.hold /\ count.processed <= count.hold
  /\ (cpc \notin {"clear"} /\ \A p \in Producers : pc[p] = "idle") =>
       count = [hold |-> hold, push |-> write,
                processed |-> IF cpc = "dispatch" THEN proc - 1 ELSE proc]

-----------------------------------------------------------------------------
(* The channel implements LogQueue: a ring of BUFFER_LEN slots is a queue  *)
(* of capacity BUFFER_LEN - 1.                                             *)
ReadyLogs == {n \in write .. hold - 1 : mark[Idx(n)] = "READY"}
DeliveredIds == [k \in 1 .. Len(delivered) |-> delivered[k].id]

Queue == INSTANCE LogQueue WITH
  Capacity <- BUFFER_LEN - 1,
  claimed <- hold,
  complete <- ReadyLogs,
  published <- write,
  delivered <- DeliveredIds,
  freed <- read

ImplementsQueue == Queue!Spec

(* While the channel runs, every claimed log reaches the devices: no       *)
(* ready log waits for ever behind write_idx_, no published one behind     *)
(* proc_idx_.                                                              *)
ClaimedIsDelivered ==
  \A n \in 0 .. MaxLogs :
    (hold > n) ~> (Len(delivered) > n \/ state # "RUNNING")

(* StopChannels' join returns: the thread asked to finish does finish.     *)
StopTerminates == (state = "WAITING_FINISH") ~> (state = "FINISH")

=============================================================================
