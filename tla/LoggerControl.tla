---------------------------- MODULE LoggerControl ----------------------------
(***************************************************************************)
(* The life cycle of a Logger: threads of the application start, reload    *)
(* and stop it (fn_startlog.cpp, fn_core.cpp, ~Logger).  Each asynchronous *)
(* channel has a thread in EnterProcChannel; a synchronous channel has     *)
(* none, there the application's thread that writes a log runs             *)
(* EnterProcChannel once itself (one writer per such channel, as           *)
(* README.old asks).  Both may call HotUpdateLogger (fn_load.cpp).  All    *)
(* meet in logger_state_, in each channel_state_ and in state_lock.  What  *)
(* they do to the ring is RingChannel's matter; here they only drain it.   *)
(* A reload does not change which channels are synchronous.                *)
(***************************************************************************)
EXTENDS Integers, FiniteSets

CONSTANTS
  Callers,       \* application threads
  LastChannel,   \* channels are 0 .. LastChannel
  MaxCalls,      \* bound: calls of start, load and stop together
  NoOne          \* state_lock is free

Channel == 0 .. LastChannel

ASSUME ChannelAssumption == LastChannel \in Nat
ASSUME LockAssumption == NoOne \notin Callers \cup Channel /\ Callers \cap Channel = {}
ASSUME CallAssumption == MaxCalls \in Nat
ASSUME CallersAssumption == Cardinality(Callers) >= 2   \* so that Home is sound

VARIABLES
  logger_state,   \* logger_state_
  channel_state,  \* channel_state_ of each channel
  state_lock,     \* who holds the recursive mutex: a caller, a channel's thread, NoOne
  pc,             \* where each caller is
  at,             \* channel_id in the loops of StartChannels and StopChannels
  thread,         \* where the thread of each asynchronous channel is, "none" if not
                  \* joinable; where the writer of each synchronous one is
  sync,           \* the channels configured with sync: sync
  config,         \* version of the configuration each channel runs with
  loaded,         \* InitFromYMAL has succeeded once: shm_ is not null
  calls,          \* history: calls made
  cleaned         \* history: slots and handles are being reset by this caller

vars == <<logger_state, channel_state, state_lock, pc, at, thread, sync, config, loaded,
          calls, cleaned>>

settings == <<sync, config>>
book == <<loaded, calls, cleaned>>
ring == <<channel_state, at, thread, settings>>

Init ==
  /\ logger_state = "UNINIT"
  /\ channel_state = [c \in Channel |-> "NULL"]
  /\ state_lock = NoOne
  /\ pc = [t \in Callers |-> "idle"]
  /\ at = [t \in Callers |-> 0]
  /\ thread = [c \in Channel |-> "none"]
  /\ sync \in SUBSET Channel
  /\ config = [c \in Channel |-> 0]
  /\ loaded = FALSE
  /\ calls = 0
  /\ cleaned = NoOne

Goto(t, from, to) == pc[t] = from /\ pc' = [pc EXCEPT ![t] = to]

-----------------------------------------------------------------------------
(* Calls: each tests logger_state_ first without the lock *)

Call(t, state, to) ==
  /\ calls < MaxCalls /\ calls' = calls + 1
  /\ logger_state = state
  /\ Goto(t, "idle", to)
  /\ UNCHANGED <<logger_state, state_lock, ring, loaded, cleaned>>

(* ParseAndStartLogger and LoadAndStartLogger.                             *)
CallLoad(t) == Call(t, "UNINIT", "load")
CallStart(t) == loaded /\ Call(t, "UNINIT", "start")
CallStop(t) == Call(t, "RUNNING", "stop")

(* ~Logger repeats StopLogger until it finds the logger UNINIT; nobody     *)
(* else uses the logger any more.                                          *)
CallDestroy(t) ==
  /\ \A u \in Callers : pc[u] = "idle"
  /\ \A c \in sync : thread[c] = "none"
  /\ pc' = [u \in Callers |-> IF u = t THEN "destroy" ELSE "gone"]
  /\ UNCHANGED <<logger_state, state_lock, ring, book>>

Destroy(t) ==
  /\ pc[t] = "destroy"
  /\ pc' = [pc EXCEPT ![t] = IF logger_state = "UNINIT" THEN "gone" ELSE "stop"]
  /\ UNCHANGED <<logger_state, state_lock, ring, book>>

(* Where a call returns to: ~Logger's loop, or the application.            *)
Home(t) == IF \E u \in Callers \ {t} : pc[u] = "gone" THEN "destroy" ELSE "idle"

(* Taking state_lock and testing logger_state_ again.                      *)
Refused(t, from, state) ==
  /\ state_lock = NoOne /\ logger_state # state
  /\ Goto(t, from, Home(t))
  /\ UNCHANGED <<logger_state, state_lock, ring, book>>

Admitted(t, from, state, to, next) ==
  /\ state_lock = NoOne /\ logger_state = state
  /\ state_lock' = t
  /\ logger_state' = next
  /\ Goto(t, from, to)
  /\ at' = [at EXCEPT ![t] = 0]

(* InitFromYMAL copies the parsed channels over the old ones; StartLogger  *)
(* follows under the same lock.                                            *)
Load(t) ==
  \/ Refused(t, "load", "UNINIT")
  \/ /\ state_lock = NoOne /\ logger_state = "UNINIT"
     /\ Goto(t, "load", Home(t))   \* the text does not parse
     /\ UNCHANGED <<logger_state, state_lock, ring, book>>
  \/ /\ Admitted(t, "load", "UNINIT", "spawn", "INITING")
     /\ channel_state' = [c \in Channel |-> "NULL"]
     /\ config' = [c \in Channel |-> 0]
     /\ loaded' = TRUE
     /\ UNCHANGED <<thread, sync, calls, cleaned>>

Start(t) ==
  \/ Refused(t, "start", "UNINIT")
  \/ /\ Admitted(t, "start", "UNINIT", "spawn", "INITING")
     /\ UNCHANGED <<channel_state, thread, settings, book>>

Stop(t) ==
  \/ Refused(t, "stop", "RUNNING")
  \/ /\ Admitted(t, "stop", "RUNNING", "ask", "CLOSING")
     /\ UNCHANGED <<channel_state, thread, settings, book>>

-----------------------------------------------------------------------------
(* StartChannels *)

(* The next channel of a loop, or what follows the loop.                   *)
Advance(t, again, after) ==
  /\ at' = [at EXCEPT ![t] = @ + 1]
  /\ pc' = [pc EXCEPT ![t] = IF at[t] = LastChannel THEN after ELSE again]

Spawn(t) ==
  /\ pc[t] = "spawn"
  /\ LET c == at[t] IN
       IF c \in sync
       THEN /\ channel_state' = [channel_state EXCEPT ![c] = "RUNNING"]
            /\ Advance(t, "spawn", "started")
            /\ UNCHANGED thread
       ELSE /\ thread' = [thread EXCEPT ![c] = "drain"]
            /\ Goto(t, "spawn", "await")
            /\ UNCHANGED <<channel_state, at>>
  /\ UNCHANGED <<logger_state, state_lock, settings, book>>

(* Slip: the channel's state is not looked at.                             *)
AwaitUntested(t) ==
  /\ pc[t] = "await"
  /\ Advance(t, "spawn", "started")
  /\ UNCHANGED <<logger_state, channel_state, state_lock, thread, settings, book>>

(* The thread has declared the channel running.                            *)
Await(t) ==
  /\ pc[t] = "await" /\ channel_state[at[t]] = "RUNNING"
  /\ Advance(t, "spawn", "started")
  /\ UNCHANGED <<logger_state, channel_state, state_lock, thread, settings, book>>

(* After 100 sleeps the thread still has not: StartLogger calls            *)
(* StopChannels.  Nothing bounds how late the thread is.                   *)
AwaitTimeout(t) ==
  /\ Goto(t, "await", "ask") /\ channel_state[at[t]] = "NULL"
  /\ at' = [at EXCEPT ![t] = 0]
  /\ UNCHANGED <<logger_state, channel_state, state_lock, thread, settings, book>>

(* Still under state_lock.                                                 *)
Started(t) ==
  /\ Goto(t, "started", Home(t))
  /\ logger_state' = "RUNNING"
  /\ state_lock' = NoOne
  /\ UNCHANGED <<ring, book>>

-----------------------------------------------------------------------------
(* StopChannels, from StopLogger (CLOSING) and from a failed start (INITING) *)

(* Slip: the threads are asked to finish and not joined.                   *)
AskUnjoined(t) ==
  /\ pc[t] = "ask"
  /\ channel_state' = [channel_state EXCEPT ![at[t]] =
        IF thread[at[t]] # "none" /\ @ = "RUNNING" THEN "WAITING_FINISH" ELSE "NULL"]
  /\ Advance(t, "ask", "stopped")
  /\ UNCHANGED <<logger_state, state_lock, thread, settings, book>>

Ask(t) ==
  /\ pc[t] = "ask"
  /\ LET c == at[t] IN
       IF c \in sync \/ thread[c] = "none"
       THEN /\ channel_state' = [channel_state EXCEPT ![c] = "NULL"]
            /\ Advance(t, "ask", "stopped")
       ELSE /\ channel_state' = [channel_state EXCEPT
                 ![c] = IF @ = "RUNNING" THEN "WAITING_FINISH" ELSE @]
            /\ Goto(t, "ask", "join")
            /\ UNCHANGED at
  /\ UNCHANGED <<logger_state, state_lock, thread, settings, book>>

(* Slip: the channel keeps the state its thread left.                      *)
JoinKeepsState(t) ==
  /\ pc[t] = "join" /\ thread[at[t]] = "done"
  /\ thread' = [thread EXCEPT ![at[t]] = "none"]
  /\ Advance(t, "ask", "stopped")
  /\ UNCHANGED <<logger_state, channel_state, state_lock, settings, book>>

(* Slip: the thread is detached instead of joined.                         *)
Detach(t) ==
  /\ pc[t] = "join"
  /\ thread' = [thread EXCEPT ![at[t]] = "none"]
  /\ channel_state' = [channel_state EXCEPT ![at[t]] = "NULL"]
  /\ Advance(t, "ask", "stopped")
  /\ UNCHANGED <<logger_state, state_lock, settings, book>>

Join(t) ==
  /\ pc[t] = "join" /\ thread[at[t]] = "done"
  /\ thread' = [thread EXCEPT ![at[t]] = "none"]
  /\ channel_state' = [channel_state EXCEPT ![at[t]] = "NULL"]
  /\ Advance(t, "ask", "stopped")
  /\ UNCHANGED <<logger_state, state_lock, settings, book>>

(* StopLogger goes on to CleanChannels and closes the devices' handles; a  *)
(* failed start only resets the state.                                     *)
Clean(t) ==
  /\ logger_state = "CLOSING" /\ cleaned = NoOne
  /\ pc[t] = "stopped" /\ cleaned' = t
  /\ UNCHANGED <<logger_state, state_lock, pc, ring, loaded, calls>>

Stopped(t) ==
  /\ logger_state = "CLOSING" => cleaned = t
  /\ Goto(t, "stopped", Home(t))
  /\ logger_state' = "UNINIT"
  /\ state_lock' = NoOne
  /\ cleaned' = NoOne
  /\ UNCHANGED <<ring, loaded, calls>>

-----------------------------------------------------------------------------
(* EnterProcChannel on channel c, with the ring drained: the channel's     *)
(* thread, or the writer of a synchronous channel                          *)

Thread(c, from, to) == thread[c] = from /\ thread' = [thread EXCEPT ![c] = to]

(* BlockInput lets a log to a synchronous channel through.                 *)
BeginSyncLog(c) ==
  /\ c \in sync /\ \A t \in Callers : pc[t] # "gone"
  /\ logger_state = "RUNNING" /\ channel_state[c] = "RUNNING"
  /\ Thread(c, "none", "log")
  /\ UNCHANGED <<logger_state, channel_state, state_lock, pc, at, settings, book>>

(* The end of PushChannel: the writer drains the ring itself.              *)
PushSyncLog(c) ==
  /\ Thread(c, "log", IF channel_state[c] = "RUNNING" THEN "drain" ELSE "none")
  /\ UNCHANGED <<logger_state, channel_state, state_lock, pc, at, settings, book>>

Settle(c) ==
  /\ Thread(c, "drain", "hot")
  /\ channel_state' = [channel_state EXCEPT ![c] = IF @ = "NULL" THEN "RUNNING" ELSE @]
  /\ UNCHANGED <<logger_state, state_lock, pc, at, settings, book>>

(* HotUpdateLogger: off, or too soon, or the file is unchanged; else lock. *)
HotCheck(c) ==
  /\ \/ Thread(c, "hot", "poll")
     \/ Thread(c, "hot", "lock")
  /\ UNCHANGED <<logger_state, channel_state, state_lock, pc, at, settings, book>>

(* Slip: the update does not take state_lock.                              *)
HotUnlocked(c) ==
  /\ IF logger_state = "RUNNING"
     THEN Thread(c, "lock", "update") /\ state_lock' = c
     ELSE Thread(c, "lock", "poll") /\ UNCHANGED state_lock
  /\ UNCHANGED <<logger_state, channel_state, pc, at, settings, book>>

HotLock(c) ==
  /\ state_lock = NoOne
  /\ IF logger_state = "RUNNING"
     THEN Thread(c, "lock", "update") /\ state_lock' = c
     ELSE Thread(c, "lock", "poll") /\ UNCHANGED state_lock
  /\ UNCHANGED <<logger_state, channel_state, pc, at, settings, book>>

(* Slip: a new configuration is added to the old one.                      *)
HotUpdateAdds(c) ==
  /\ Thread(c, "update", "poll")
  /\ config' \in {config, [config EXCEPT ![c] = @ + 1]}
  /\ state_lock' = NoOne
  /\ UNCHANGED <<logger_state, channel_state, pc, at, sync, book>>

(* The file parses, or it does not and the configuration stays.            *)
HotUpdate(c) ==
  /\ Thread(c, "update", "poll")
  /\ config' \in {config, [config EXCEPT ![c] = 1]}
  /\ state_lock' = NoOne
  /\ UNCHANGED <<logger_state, channel_state, pc, at, sync, book>>

(* Slip: the thread does not notice that it was asked to finish.           *)
PollDeaf(c) ==
  /\ Thread(c, "poll", IF c \in sync THEN "none" ELSE "drain")
  /\ UNCHANGED <<logger_state, channel_state, state_lock, pc, at, settings, book>>

(* A writer returns; a thread goes on while the channel runs.              *)
Poll(c) ==
  /\ IF c \in sync \/ channel_state[c] = "RUNNING"
     THEN /\ Thread(c, "poll", IF c \in sync THEN "none" ELSE "drain")
          /\ UNCHANGED channel_state
     ELSE /\ Thread(c, "poll", "done")
          /\ channel_state' = [channel_state EXCEPT ![c] = "FINISH"]
  /\ UNCHANGED <<logger_state, state_lock, pc, at, settings, book>>

-----------------------------------------------------------------------------
Begin(t) == CallLoad(t) \/ CallStart(t) \/ CallStop(t) \/ CallDestroy(t)
Work(t) == \/ Load(t) \/ Start(t) \/ Stop(t) \/ Destroy(t)
           \/ Spawn(t) \/ Await(t) \/ AwaitTimeout(t) \/ Started(t)
           \/ Ask(t) \/ Join(t) \/ Clean(t) \/ Stopped(t)
ThreadStep(c) == PushSyncLog(c) \/ Settle(c) \/ HotCheck(c) \/ HotLock(c) \/ HotUpdate(c) \/ Poll(c)

Next == \/ \E t \in Callers : Begin(t) \/ Work(t)
        \/ \E c \in Channel : BeginSyncLog(c) \/ ThreadStep(c)

Spec == Init /\ [][Next]_vars

(* The scheduler runs every thread, and the mutex is granted in the end to *)
(* a thread that keeps asking while others take and release it.            *)
Fairness ==
  /\ \A t \in Callers : SF_vars(Work(t))
  /\ \A c \in Channel : SF_vars(ThreadStep(c))
FairSpec == Spec /\ Fairness

-----------------------------------------------------------------------------
TypeOK ==
  /\ logger_state \in {"UNINIT", "INITING", "RUNNING", "CLOSING"}
  /\ channel_state \in [Channel -> {"NULL", "RUNNING", "WAITING_FINISH", "FINISH"}]
  /\ state_lock \in Callers \cup Channel \cup {NoOne}
  /\ pc \in [Callers -> {"idle", "load", "start", "stop", "destroy", "gone", "spawn", "await",
                         "started", "ask", "join", "stopped"}]
  /\ at \in [Callers -> 0 .. LastChannel + 1]
  /\ thread \in [Channel -> {"none", "log", "drain", "hot", "lock", "update", "poll", "done"}]
  /\ sync \subseteq Channel
  /\ config \in [Channel -> {0, 1}]
  /\ loaded \in BOOLEAN
  /\ calls \in 0 .. MaxCalls
  /\ cleaned \in Callers \cup {NoOne}

(* A logger that says it is running has every channel running, each        *)
(* asynchronous one with its thread.                                       *)
RunningMeansChannels ==
  logger_state = "RUNNING" => \A c \in Channel :
    /\ channel_state[c] = "RUNNING"
    /\ c \notin sync => thread[c] \notin {"none", "done"}

Asynchronous == Channel \ sync

(* A logger that says it is not initialised has left nothing behind: no    *)
(* thread, no lock, every asynchronous channel at rest.                    *)
UninitMeansRest ==
  logger_state = "UNINIT" =>
    /\ state_lock = NoOne /\ cleaned = NoOne
    /\ \A c \in Asynchronous : channel_state[c] = "NULL" /\ thread[c] = "none"

(* CleanChannels and the closing of files and sockets touch what only a    *)
(* channel's thread may touch: none is alive then.                         *)
CleanIsAlone ==
  cleaned # NoOne => \A c \in Asynchronous : thread[c] = "none"

(* A configuration is never changed while the logger starts or stops.      *)
UpdateIsExclusive ==
  \A c \in Channel : thread[c] = "update" =>
    /\ state_lock = c /\ logger_state = "RUNNING"
    /\ \A d \in Channel \ {c} : thread[d] # "update"
    /\ \A t \in Callers : pc[t] \notin {"spawn", "await", "started", "ask", "join", "stopped"}

(* A thread is never replaced by another before it was joined, and none is *)
(* joined before it finished (std::terminate otherwise).                   *)
ThreadLifeCycle ==
  [][\A c \in Asynchronous :
       /\ thread[c] # "none" /\ thread'[c] = "none" => thread[c] = "done"
       /\ thread[c] # thread'[c] /\ thread'[c] = "drain" => thread[c] \in {"none", "poll"}]_vars

(* The two ways in which StopChannels waits for ever for a thread it       *)
(* joins: the thread waits for state_lock, which the joiner holds; or a    *)
(* start timed out, and the thread it gave up, which was not asked to      *)
(* finish, came up late.                                                   *)
Joining(t, c) == pc[t] = "join" /\ at[t] = c
JoinHoldsLock == \E t \in Callers, c \in Channel : Joining(t, c) /\ thread[c] = "lock"
JoinMissedStop == \E t \in Callers, c \in Channel :
                    Joining(t, c) /\ channel_state[c] = "RUNNING"

(* Nothing else keeps a call from returning.                               *)
CallsReturn ==
  \A t \in Callers :
    (pc[t] # "idle") ~> (pc[t] \in {"idle", "gone"} \/ JoinHoldsLock \/ JoinMissedStop)

(* Threads may stop the logger at any time (README.old), so StopLogger     *)
(* never joins a thread that waits for the lock StopLogger holds.          *)
StopNeverWaitsForLock == ~(JoinHoldsLock /\ logger_state = "CLOSING")

(* A start that gives up because a thread is late ("start async log thread *)
(* timeout.", then -5) gets that thread to finish before it joins it.      *)
TimedOutStartReturns == ~(JoinMissedStop /\ logger_state = "INITING")

(* Threads may write while another stops the logger (README.old): once     *)
(* StopLogger is done every channel has stopped, the synchronous ones too. *)
StoppedStaysStopped ==
  logger_state = "UNINIT" => \A c \in Channel : channel_state[c] = "NULL"

=============================================================================
