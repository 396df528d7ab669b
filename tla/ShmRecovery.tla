---------------------------- MODULE ShmRecovery ----------------------------
(***************************************************************************)
(* A channel whose ring lives in SYSV shared memory (shm_key_ > 0): the    *)
(* process dies at any step, the segment stays, and the next process       *)
(* attaches it.  LoadSharedMemory (fn_load.cpp) then publishes everything  *)
(* claimed and not yet published, ready or not, with "!!!core recover!!!"  *)
(* appended, and winds proc_idx_ back to read_idx_; InitFromYMAL replaces  *)
(* the channels' configuration and state but keeps their counters.         *)
(***************************************************************************)
EXTENDS RingChannel, FiniteSets

CONSTANT MaxCrashes   \* bound: the process dies at most that often

ASSUME CrashAssumption == MaxCrashes \in Nat

VARIABLES
  process,     \* "running", or "attaching" after a crash
  crashes,     \* history: how often the process died
  recovered,   \* history: the logs LoadSharedMemory published
  orphans,     \* history: the logs whose author died before it had begun or completed the text
  dispatched   \* history: which logs DispatchLog was given, in order

shm == <<process, crashes, recovered, orphans>>
shmVars == <<vars, shm, dispatched>>

ShmInit ==
  /\ Init
  /\ process = "running" /\ crashes = 0
  /\ recovered = {} /\ dispatched = <<>>
  /\ orphans = [unbegun |-> {}, unfinished |-> {}]

(* A step of the program; dispatched says which slot DispatchLog was given.*)
Run ==
  /\ process = "running"
  /\ \/ \E p \in Producers : Hold(p) \/ Push(p)
     \/ Consumer
  /\ dispatched' = IF delivered' = delivered THEN dispatched
                   ELSE Append(dispatched, proc - 1)
  /\ UNCHANGED shm

ClaimsAt(places) == {claim[p] : p \in {q \in Producers : pc[q] \in places}}

(* The process dies: every thread is gone, the segment is as it was.       *)
Crash ==
  /\ crashes < MaxCrashes /\ crashes' = crashes + 1
  /\ process' = "attaching"
  /\ orphans' = [unbegun    |-> orphans.unbegun \cup ClaimsAt({"hold_mark", "init"}),
                 unfinished |-> orphans.unfinished \cup ClaimsAt({"push", "ready"})]
  /\ pc' = [p \in Producers |-> "idle"]
  /\ old' = [p \in Producers |-> 0]
  /\ claim' = [p \in Producers |-> 0]
  /\ cpc' = "take"
  /\ UNCHANGED <<idx, slots, count, state, hist, recovered, dispatched>>

(* Slip: the text of the slot is thrown away.                              *)
RecoverSlotBlank ==
  /\ process = "attaching" /\ Idx(write) # Idx(hold)
  /\ mark' = [mark EXCEPT ![Idx(write)] = "READY"]
  /\ log' = [log EXCEPT ![Idx(write)] = [id |-> -1, complete |-> FALSE]]
  /\ recovered' = recovered \cup {write}
  /\ write' = write + 1
  /\ UNCHANGED <<hold, proc, read, count, state, prod, cpc, hist, process, crashes, orphans, dispatched>>

(* One round of the recovery loop of LoadSharedMemory.                     *)
RecoverSlot ==
  /\ process = "attaching" /\ Idx(write) # Idx(hold)
  /\ mark' = [mark EXCEPT ![Idx(write)] = "READY"]
  /\ recovered' = recovered \cup {write}
  /\ write' = write + 1
  /\ UNCHANGED <<hold, proc, read, log, count, state, prod, cpc, hist, process, crashes, orphans, dispatched>>

(* Slips: proc_idx_ is left alone, one too low, or one slot too far back;  *)
(* the recovery loop is skipped, or unpublished logs are thrown away.      *)
AttachKeepsProc ==
  /\ process = "attaching" /\ Idx(write) = Idx(hold)
  /\ proc' = proc
  /\ state' = "NULL"
  /\ process' = "running"
  /\ UNCHANGED <<hold, write, read, slots, count, prod, cpc, hist, crashes, recovered, orphans, dispatched>>

AttachOffByOne ==
  /\ process = "attaching" /\ Idx(write) = Idx(hold)
  /\ proc' = read - 1
  /\ state' = "NULL"
  /\ process' = "running"
  /\ UNCHANGED <<hold, write, read, slots, count, prod, cpc, hist, crashes, recovered, orphans, dispatched>>

AttachTooFar ==
  /\ process = "attaching" /\ Idx(write) = Idx(hold)
  /\ proc' = IF read = 0 THEN 0 ELSE read - 1
  /\ state' = "NULL"
  /\ process' = "running"
  /\ UNCHANGED <<hold, write, read, slots, count, prod, cpc, hist, crashes, recovered, orphans, dispatched>>

AttachUnrecovered ==
  /\ process = "attaching"
  /\ proc' = read
  /\ state' = "NULL"
  /\ process' = "running"
  /\ UNCHANGED <<hold, write, read, slots, count, prod, cpc, hist, crashes, recovered, orphans, dispatched>>

AttachDiscards ==
  /\ process = "attaching"
  /\ hold' = write
  /\ proc' = read
  /\ state' = "NULL"
  /\ process' = "running"
  /\ UNCHANGED <<write, read, slots, count, prod, cpc, hist, crashes, recovered, orphans, dispatched>>

(* The rest of LoadSharedMemory, InitFromYMAL, and StartChannels.          *)
Attach ==
  /\ process = "attaching" /\ Idx(write) = Idx(hold)
  /\ proc' = read
  /\ state' = "NULL"
  /\ process' = "running"
  /\ UNCHANGED <<hold, write, read, slots, count, prod, cpc, hist, crashes, recovered, orphans, dispatched>>

ShmNext == Run \/ Crash \/ RecoverSlot \/ Attach

(* Laps are excluded as in RingChannel; a crashed program is restarted.    *)
ShmSpec == ShmInit /\ [][ShmNext /\ NoLap']_shmVars

ShmFairSpec ==
  /\ ShmSpec
  /\ \A p \in Producers : WF_shmVars(Run /\ Finishing(p) /\ NoLap')
  /\ WF_shmVars(Run /\ Consumer)
  /\ WF_shmVars(RecoverSlot \/ Attach)

-----------------------------------------------------------------------------
ShmTypeOK ==
  /\ TypeOK
  /\ process \in {"running", "attaching"}
  /\ crashes \in 0 .. MaxCrashes
  /\ recovered \subseteq Nat
  /\ \A field \in {"unbegun", "unfinished"} : orphans[field] \subseteq Nat
  /\ dispatched \in Seq(Nat)

Dispatched == {dispatched[k] : k \in 1 .. Len(dispatched)}

(* No log is skipped, whatever crashes happen between the claim of a slot  *)
(* and its return: the devices get 0, 1, 2, ... where a log may come again *)
(* only directly after itself.                                             *)
NothingSkipped ==
  \A k \in 1 .. Len(dispatched) :
    dispatched[k] \in IF k = 1 THEN {0} ELSE {dispatched[k-1], dispatched[k-1] + 1}

(* Each crash repeats at most one log.                                     *)
RepeatsBounded == Len(dispatched) - Cardinality(Dispatched) <= crashes

(* A log that was published by its author reaches the devices as the       *)
(* author wrote it, also after crashes and also when it is repeated.       *)
PublishedIntact ==
  \A k \in 1 .. Len(dispatched) :
    dispatched[k] \notin recovered =>
      delivered[k] = [id |-> dispatched[k], complete |-> TRUE]

(* What a recovered slot holds.  A log that its author had begun is        *)
(* delivered with its own text, whole if the author had completed it.  One *)
(* that was claimed only is delivered with what its slot delivered before, *)
(* or with the zeros of a new segment: the text of an older log a second   *)
(* time, and of no log but that.                                           *)
RecoveredText ==
  \A k \in 1 .. Len(dispatched) :
    LET n == dispatched[k]
        SlotBefore == {j \in 1 .. k - 1 : dispatched[j] = n - BUFFER_LEN}
    IN  IF n \notin orphans.unbegun
        THEN /\ delivered[k].id = n
             /\ n \notin orphans.unfinished => delivered[k].complete
        ELSE IF n < BUFFER_LEN THEN delivered[k].id = -1
        ELSE \E j \in SlotBefore : delivered[k] = delivered[j]

(* The ring is in order also while it is being attached.                   *)
RecoveredOrder ==
  /\ IndexOrder
  /\ process = "running" /\ state = "NULL" /\ pc = [p \in Producers |-> "idle"]
       => write = hold

(* Every claimed log reaches the devices, even if its author died.         *)
ClaimedSurvivesCrash ==
  \A n \in 0 .. MaxLogs : (hold > n) ~> (n \in Dispatched)

(* The ring in shared memory as a queue: a log is to be delivered next from *)
(* the moment its slot is taken, and again if the process dies before its  *)
(* slot is returned.                                                       *)
NextLog ==
  IF process = "attaching" THEN read
  ELSE IF cpc = "dispatch" THEN proc - 1 ELSE proc

Recoverable == INSTANCE RecoverableQueue WITH
  Capacity  <- BUFFER_LEN - 1,
  claimed   <- hold,
  complete  <- ReadyLogs,
  published <- write,
  next      <- NextLog,
  given     <- dispatched,
  freed     <- read,
  up        <- process = "running"

(* Over any crashes the ring stays a bounded first-in first-out queue that *)
(* delivers each log at least once: HoldChannel, PushChannel and           *)
(* EnterProcChannel, a crash between any two of their steps and each step  *)
(* of LoadSharedMemory are steps of RecoverableQueue, or invisible.        *)
ImplementsRecoverable == Recoverable!Spec

=============================================================================
