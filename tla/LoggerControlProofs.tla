------------------------ MODULE LoggerControlProofs ------------------------
(***************************************************************************)
(* Proofs about LoggerControl, for every set of callers, every number of   *)
(* channels, every choice of the synchronous ones and every bound.  The    *)
(* argument: whoever is inside StartChannels or StopChannels holds         *)
(* state_lock, so only one caller is there, and a hot update is not; that  *)
(* caller's loop index divides the channels into those it has finished     *)
(* with and those it has not touched; and the state of an asynchronous     *)
(* channel and the place of its thread determine each other closely enough *)
(* to be carried through both loops.                                       *)
(***************************************************************************)
EXTENDS LoggerControl, TLAPS

-----------------------------------------------------------------------------
(* The inductive invariant *)

Starting == {"spawn", "await", "started"}
Stopping == {"ask", "join", "stopped"}

(* state_lock is held exactly by the caller that starts or stops the       *)
(* channels, or by the thread whose hot update is under way.               *)
LockInv ==
  /\ \A t \in Callers : pc[t] \in Starting \cup Stopping <=> state_lock = t
  /\ \A c \in Channel : thread[c] = "update" <=> state_lock = c

(* The logger is in transition exactly while a caller holds the lock.      *)
StateInv ==
  /\ logger_state \in {"INITING", "CLOSING"} <=> state_lock \in Callers
  /\ \A t \in Callers : pc[t] \in Starting => logger_state = "INITING"
  /\ \A c \in Channel : thread[c] = "update" => logger_state = "RUNNING"
  /\ cleaned # NoOne => pc[cleaned] = "stopped" /\ logger_state = "CLOSING"

(* The state of a channel and the place of its thread.                     *)
SyncInv ==
  \A c \in sync : channel_state[c] \in {"NULL", "RUNNING"} /\ thread[c] # "done"

Joined(c) == \E t \in Callers : pc[t] = "join" /\ at[t] = c
AsyncInv ==
  \A c \in Asynchronous :
    /\ thread[c] # "log"
    /\ thread[c] = "none" => channel_state[c] = "NULL"
    /\ thread[c] = "done" <=> channel_state[c] = "FINISH"
    /\ thread[c] \in {"hot", "lock", "update", "poll"} =>
         channel_state[c] \in {"RUNNING", "WAITING_FINISH"}
    /\ channel_state[c] \in {"WAITING_FINISH", "FINISH"} => Joined(c)

(* What the loops have done so far.                                        *)
Up(c) == channel_state[c] = "RUNNING" /\ (c \in Asynchronous => thread[c] # "none")
Down(c) == c \in Asynchronous => thread[c] = "none"

LoopInv ==
  \A t \in Callers :
    /\ pc[t] \in {"spawn", "await", "ask", "join"} => at[t] \in Channel
    /\ pc[t] \in {"started", "stopped"} => at[t] = LastChannel + 1
    /\ pc[t] \in Starting =>
         /\ \A c \in Channel : c < at[t] => Up(c)
         /\ \A c \in Channel : c > at[t] => Down(c)
    /\ pc[t] = "spawn" => Down(at[t])
    /\ pc[t] \in Stopping => \A c \in Channel : c < at[t] => Down(c)
    /\ pc[t] \in {"await", "join"} => at[t] \in Asynchronous /\ thread[at[t]] # "none"

(* What they leave behind.                                                 *)
RestInv ==
  /\ logger_state = "RUNNING" => \A c \in Channel : Up(c)
  /\ logger_state = "UNINIT" => \A c \in Channel : Down(c)

IInv == TypeOK /\ LockInv /\ StateInv /\ SyncInv /\ AsyncInv /\ LoopInv /\ RestInv

-----------------------------------------------------------------------------
(* One lemma per action: it preserves the invariant *)

LEMMA CallLoadStep ==
  ASSUME IInv, NEW t \in Callers, CallLoad(t)
  PROVE  IInv'
<1>1. TypeOK'
  BY CallAssumption DEF IInv, TypeOK, CallLoad, Call, Goto, ring, settings
<1>2. LockInv'
  BY DEF IInv, TypeOK, LockInv, Starting, Stopping, CallLoad, Call, Goto,
    ring, settings
<1>3. StateInv'
  BY DEF IInv, TypeOK, StateInv, Starting, CallLoad, Call, Goto, ring,
    settings
<1>4. SyncInv'
  BY DEF IInv, TypeOK, SyncInv, CallLoad, Call, Goto, ring, settings
<1>5. AsyncInv'
  BY DEF IInv, TypeOK, AsyncInv, Joined, Asynchronous, CallLoad, Call, Goto,
    ring, settings
<1>6. LoopInv'
  BY DEF IInv, TypeOK, LoopInv, Up, Down, Asynchronous, Starting, Stopping,
    CallLoad, Call, Goto, ring, settings
<1>7. RestInv'
  BY DEF IInv, TypeOK, RestInv, Up, Down, Asynchronous, CallLoad, Call,
    Goto, ring, settings
<1> QED BY <1>1, <1>2, <1>3, <1>4, <1>5, <1>6, <1>7 DEF IInv

LEMMA CallStartStep ==
  ASSUME IInv, NEW t \in Callers, CallStart(t)
  PROVE  IInv'
<1>1. TypeOK'
  BY CallAssumption DEF IInv, TypeOK, CallStart, Call, Goto, ring, settings
<1>2. LockInv'
  BY DEF IInv, TypeOK, LockInv, Starting, Stopping, CallStart, Call, Goto,
    ring, settings
<1>3. StateInv'
  BY DEF IInv, TypeOK, StateInv, Starting, CallStart, Call, Goto, ring,
    settings
<1>4. SyncInv'
  BY DEF IInv, TypeOK, SyncInv, CallStart, Call, Goto, ring, settings
<1>5. AsyncInv'
  BY DEF IInv, TypeOK, AsyncInv, Joined, Asynchronous, CallStart, Call,
    Goto, ring, settings
<1>6. LoopInv'
  BY DEF IInv, TypeOK, LoopInv, Up, Down, Asynchronous, Starting, Stopping,
    CallStart, Call, Goto, ring, settings
<1>7. RestInv'
  BY DEF IInv, TypeOK, RestInv, Up, Down, Asynchronous, CallStart, Call,
    Goto, ring, settings
<1> QED BY <1>1, <1>2, <1>3, <1>4, <1>5, <1>6, <1>7 DEF IInv

LEMMA CallStopStep ==
  ASSUME IInv, NEW t \in Callers, CallStop(t)
  PROVE  IInv'
<1>1. TypeOK'
  BY CallAssumption DEF IInv, TypeOK, CallStop, Call, Goto, ring, settings
<1>2. LockInv'
  BY DEF IInv, TypeOK, LockInv, Starting, Stopping, CallStop, Call, Goto,
    ring, settings
<1>3. StateInv'
  BY DEF IInv, TypeOK, StateInv, Starting, CallStop, Call, Goto, ring,
    settings
<1>4. SyncInv'
  BY DEF IInv, TypeOK, SyncInv, CallStop, Call, Goto, ring, settings
<1>5. AsyncInv'
  BY DEF IInv, TypeOK, AsyncInv, Joined, Asynchronous, CallStop, Call, Goto,
    ring, settings
<1>6. LoopInv'
  BY DEF IInv, TypeOK, LoopInv, Up, Down, Asynchronous, Starting, Stopping,
    CallStop, Call, Goto, ring, settings
<1>7. RestInv'
  BY DEF IInv, TypeOK, RestInv, Up, Down, Asynchronous, CallStop, Call,
    Goto, ring, settings
<1> QED BY <1>1, <1>2, <1>3, <1>4, <1>5, <1>6, <1>7 DEF IInv

LEMMA CallDestroyStep ==
  ASSUME IInv, NEW t \in Callers, CallDestroy(t)
  PROVE  IInv'
<1>1. TypeOK'
  BY DEF IInv, TypeOK, CallDestroy, ring, book, settings
<1>2. LockInv'
  BY DEF IInv, TypeOK, LockInv, Starting, Stopping, CallDestroy, ring, book,
    settings
<1>3. StateInv'
  BY DEF IInv, TypeOK, StateInv, Starting, CallDestroy, ring, book, settings
<1>4. SyncInv'
  BY DEF IInv, TypeOK, SyncInv, CallDestroy, ring, book, settings
<1>5. AsyncInv'
  BY DEF IInv, TypeOK, AsyncInv, Joined, Asynchronous, CallDestroy, ring,
    book, settings
<1>6. LoopInv'
  BY DEF IInv, TypeOK, LoopInv, Up, Down, Asynchronous, Starting, Stopping,
    CallDestroy, ring, book, settings
<1>7. RestInv'
  BY DEF IInv, TypeOK, RestInv, Up, Down, Asynchronous, CallDestroy, ring,
    book, settings
<1> QED BY <1>1, <1>2, <1>3, <1>4, <1>5, <1>6, <1>7 DEF IInv

LEMMA DestroyStep ==
  ASSUME IInv, NEW t \in Callers, Destroy(t)
  PROVE  IInv'
<1>1. TypeOK'
  BY DEF IInv, TypeOK, Destroy, ring, book, settings
<1>2. LockInv'
  BY DEF IInv, TypeOK, LockInv, Starting, Stopping, Destroy, ring, book,
    settings
<1>3. StateInv'
  BY DEF IInv, TypeOK, StateInv, Starting, Destroy, ring, book, settings
<1>4. SyncInv'
  BY DEF IInv, TypeOK, SyncInv, Destroy, ring, book, settings
<1>5. AsyncInv'
  BY DEF IInv, TypeOK, AsyncInv, Joined, Asynchronous, Destroy, ring, book,
    settings
<1>6. LoopInv'
  BY DEF IInv, TypeOK, LoopInv, Up, Down, Asynchronous, Starting, Stopping,
    Destroy, ring, book, settings
<1>7. RestInv'
  BY DEF IInv, TypeOK, RestInv, Up, Down, Asynchronous, Destroy, ring, book,
    settings
<1> QED BY <1>1, <1>2, <1>3, <1>4, <1>5, <1>6, <1>7 DEF IInv

LEMMA LoadStep ==
  ASSUME IInv, NEW t \in Callers, Load(t)
  PROVE  IInv'
<1>1. TypeOK'
  <2>1. Home(t) \in {"destroy", "idle"} BY DEF Home
  <2>2. CASE UNCHANGED <<logger_state, state_lock, ring, book>> /\ Goto(t, "load", Home(t))
    BY <2>1, <2>2 DEF IInv, TypeOK, Goto, ring, settings, book
  <2>3. CASE Admitted(t, "load", "UNINIT", "spawn", "INITING")
    BY <2>3, ChannelAssumption DEF IInv, TypeOK, Load, Refused, Admitted, Goto, settings, book
  <2> QED BY <2>2, <2>3 DEF Load, Refused
<1>2. LockInv'
  BY LockAssumption DEF IInv, TypeOK, LockInv, Starting, Stopping, Load,
    Refused, Admitted, Goto, Home, ring, book, settings
<1>3. StateInv'
  BY DEF IInv, TypeOK, StateInv, Starting, Load, Refused, Admitted, Goto,
    Home, ring, book, settings
<1>4. SyncInv'
  BY DEF IInv, TypeOK, SyncInv, Load, Refused, Admitted, Goto, Home, ring,
    book, settings
<1>5. AsyncInv'
  BY LockAssumption, ChannelAssumption DEF IInv, TypeOK, AsyncInv, Joined,
    Asynchronous, LockInv, StateInv, LoopInv, SyncInv, RestInv, Starting,
    Stopping, Down, Up, Channel, Load, Refused, Admitted, Goto, Home, ring,
    book, settings
<1>6. LoopInv'
  BY LockAssumption, ChannelAssumption DEF IInv, TypeOK, LoopInv, Up, Down,
    Asynchronous, Starting, Stopping, LockInv, StateInv, AsyncInv, SyncInv,
    RestInv, Channel, Load, Refused, Admitted, Goto, Home, ring, book,
    settings
<1>7. RestInv'
  BY DEF IInv, TypeOK, RestInv, Up, Down, Asynchronous, Load, Refused,
    Admitted, Goto, Home, ring, book, settings
<1> QED BY <1>1, <1>2, <1>3, <1>4, <1>5, <1>6, <1>7 DEF IInv

LEMMA StartStep ==
  ASSUME IInv, NEW t \in Callers, Start(t)
  PROVE  IInv'
<1>1. TypeOK'
  <2>1. Home(t) \in {"destroy", "idle"} BY DEF Home
  <2>2. CASE UNCHANGED <<logger_state, state_lock, ring, book>> /\ Goto(t, "start", Home(t))
    BY <2>1, <2>2 DEF IInv, TypeOK, Goto, ring, settings, book
  <2>3. CASE Admitted(t, "start", "UNINIT", "spawn", "INITING")
    BY <2>3, ChannelAssumption DEF IInv, TypeOK, Start, Refused, Admitted, Goto, settings, book
  <2> QED BY <2>2, <2>3 DEF Start, Refused
<1>2. LockInv'
  BY LockAssumption DEF IInv, TypeOK, LockInv, Starting, Stopping, Start,
    Refused, Admitted, Goto, Home, ring, settings, book
<1>3. StateInv'
  BY DEF IInv, TypeOK, StateInv, Starting, Start, Refused, Admitted, Goto,
    Home, ring, settings, book
<1>4. SyncInv'
  BY DEF IInv, TypeOK, SyncInv, Start, Refused, Admitted, Goto, Home, ring,
    settings, book
<1>5. AsyncInv'
  BY DEF IInv, TypeOK, AsyncInv, Joined, Asynchronous, Start, Refused,
    Admitted, Goto, Home, ring, settings, book
<1>6. LoopInv'
  BY LockAssumption, ChannelAssumption DEF IInv, TypeOK, LoopInv, Up, Down,
    Asynchronous, Starting, Stopping, LockInv, StateInv, AsyncInv, SyncInv,
    RestInv, Channel, Start, Refused, Admitted, Goto, Home, ring, settings,
    book
<1>7. RestInv'
  BY DEF IInv, TypeOK, RestInv, Up, Down, Asynchronous, Start, Refused,
    Admitted, Goto, Home, ring, settings, book
<1> QED BY <1>1, <1>2, <1>3, <1>4, <1>5, <1>6, <1>7 DEF IInv

LEMMA StopStep ==
  ASSUME IInv, NEW t \in Callers, Stop(t)
  PROVE  IInv'
<1>1. TypeOK'
  <2>1. Home(t) \in {"destroy", "idle"} BY DEF Home
  <2>2. CASE UNCHANGED <<logger_state, state_lock, ring, book>> /\ Goto(t, "stop", Home(t))
    BY <2>1, <2>2 DEF IInv, TypeOK, Goto, ring, settings, book
  <2>3. CASE Admitted(t, "stop", "RUNNING", "ask", "CLOSING")
    BY <2>3, ChannelAssumption DEF IInv, TypeOK, Stop, Refused, Admitted, Goto, settings, book
  <2> QED BY <2>2, <2>3 DEF Stop, Refused
<1>2. LockInv'
  BY LockAssumption DEF IInv, TypeOK, LockInv, Starting, Stopping, Stop,
    Refused, Admitted, Goto, Home, ring, settings, book
<1>3. StateInv'
  BY LockAssumption DEF IInv, TypeOK, StateInv, Starting, LockInv, Stopping,
    Stop, Refused, Admitted, Goto, Home, ring, settings, book
<1>4. SyncInv'
  BY DEF IInv, TypeOK, SyncInv, Stop, Refused, Admitted, Goto, Home, ring,
    settings, book
<1>5. AsyncInv'
  BY DEF IInv, TypeOK, AsyncInv, Joined, Asynchronous, Stop, Refused,
    Admitted, Goto, Home, ring, settings, book
<1>6. LoopInv'
  BY LockAssumption, ChannelAssumption DEF IInv, TypeOK, LoopInv, Up, Down,
    Asynchronous, Starting, Stopping, LockInv, StateInv, Channel, Stop,
    Refused, Admitted, Goto, Home, ring, settings, book
<1>7. RestInv'
  BY DEF IInv, TypeOK, RestInv, Up, Down, Asynchronous, Stop, Refused,
    Admitted, Goto, Home, ring, settings, book
<1> QED BY <1>1, <1>2, <1>3, <1>4, <1>5, <1>6, <1>7 DEF IInv

LEMMA SpawnStep ==
  ASSUME IInv, NEW t \in Callers, Spawn(t)
  PROVE  IInv'
<1>1. TypeOK'
  <2>1. at[t] \in Channel BY DEF IInv, LoopInv, Spawn
  <2>2. at[t] + 1 \in 0 .. LastChannel + 1 BY <2>1, ChannelAssumption DEF Channel
  <2> QED BY <2>1, <2>2 DEF IInv, TypeOK, Spawn, Advance, Goto, settings, book
<1>2. LockInv'
  BY LockAssumption DEF IInv, TypeOK, LockInv, Starting, Stopping, Spawn,
    Advance, Goto, settings, book
<1>3. StateInv'
  BY DEF IInv, TypeOK, StateInv, Starting, Spawn, Advance, Goto, settings,
    book
<1>4. SyncInv'
  BY DEF IInv, TypeOK, SyncInv, Spawn, Advance, Goto, settings, book
<1>5. AsyncInv'
  BY LockAssumption DEF IInv, TypeOK, AsyncInv, Joined, Asynchronous,
    LockInv, Starting, Stopping, Spawn, Advance, Goto, settings, book
<1>6. LoopInv'
  BY LockAssumption, ChannelAssumption DEF IInv, TypeOK, LoopInv, Up, Down,
    Asynchronous, Starting, Stopping, LockInv, StateInv, Channel, Spawn,
    Advance, Goto, settings, book
<1>7. RestInv'
  BY LockAssumption DEF IInv, TypeOK, RestInv, Up, Down, Asynchronous,
    LockInv, StateInv, Starting, Stopping, Spawn, Advance, Goto, settings,
    book
<1> QED BY <1>1, <1>2, <1>3, <1>4, <1>5, <1>6, <1>7 DEF IInv

LEMMA AwaitStep ==
  ASSUME IInv, NEW t \in Callers, Await(t)
  PROVE  IInv'
<1>1. TypeOK'
  BY LockAssumption, ChannelAssumption DEF IInv, TypeOK, LockInv, StateInv,
    LoopInv, Starting, Stopping, Down, Up, Asynchronous, Channel, Await,
    Advance, settings, book
<1>2. LockInv'
  BY DEF IInv, TypeOK, LockInv, Starting, Stopping, Await, Advance,
    settings, book
<1>3. StateInv'
  BY DEF IInv, TypeOK, StateInv, Starting, Await, Advance, settings, book
<1>4. SyncInv'
  BY DEF IInv, TypeOK, SyncInv, Await, Advance, settings, book
<1>5. AsyncInv'
  BY DEF IInv, TypeOK, AsyncInv, Joined, Asynchronous, Await, Advance,
    settings, book
<1>6. LoopInv'
  BY LockAssumption, ChannelAssumption DEF IInv, TypeOK, LoopInv, Up, Down,
    Asynchronous, Starting, Stopping, LockInv, StateInv, Channel, Await,
    Advance, settings, book
<1>7. RestInv'
  BY DEF IInv, TypeOK, RestInv, Up, Down, Asynchronous, Await, Advance,
    settings, book
<1> QED BY <1>1, <1>2, <1>3, <1>4, <1>5, <1>6, <1>7 DEF IInv

LEMMA AwaitTimeoutStep ==
  ASSUME IInv, NEW t \in Callers, AwaitTimeout(t)
  PROVE  IInv'
<1>1. TypeOK'
  BY LockAssumption, ChannelAssumption DEF IInv, TypeOK, LockInv, StateInv,
    LoopInv, Starting, Stopping, Down, Up, Asynchronous, Channel,
    AwaitTimeout, Goto, settings, book
<1>2. LockInv'
  BY DEF IInv, TypeOK, LockInv, Starting, Stopping, AwaitTimeout, Goto,
    settings, book
<1>3. StateInv'
  BY DEF IInv, TypeOK, StateInv, Starting, AwaitTimeout, Goto, settings,
    book
<1>4. SyncInv'
  BY DEF IInv, TypeOK, SyncInv, AwaitTimeout, Goto, settings, book
<1>5. AsyncInv'
  BY DEF IInv, TypeOK, AsyncInv, Joined, Asynchronous, AwaitTimeout, Goto,
    settings, book
<1>6. LoopInv'
  BY LockAssumption, ChannelAssumption DEF IInv, TypeOK, LoopInv, Up, Down,
    Asynchronous, Starting, Stopping, LockInv, StateInv, Channel,
    AwaitTimeout, Goto, settings, book
<1>7. RestInv'
  BY DEF IInv, TypeOK, RestInv, Up, Down, Asynchronous, AwaitTimeout, Goto,
    settings, book
<1> QED BY <1>1, <1>2, <1>3, <1>4, <1>5, <1>6, <1>7 DEF IInv

LEMMA StartedStep ==
  ASSUME IInv, NEW t \in Callers, Started(t)
  PROVE  IInv'
<1>1. TypeOK'
  BY DEF IInv, TypeOK, Started, Goto, Home, ring, book, settings
<1>2. LockInv'
  BY LockAssumption DEF IInv, TypeOK, LockInv, Starting, Stopping, Started,
    Goto, Home, ring, book, settings
<1>3. StateInv'
  BY LockAssumption DEF IInv, TypeOK, StateInv, Starting, LockInv, Stopping,
    Started, Goto, Home, ring, book, settings
<1>4. SyncInv'
  BY DEF IInv, TypeOK, SyncInv, Started, Goto, Home, ring, book, settings
<1>5. AsyncInv'
  BY DEF IInv, TypeOK, AsyncInv, Joined, Asynchronous, Started, Goto, Home,
    ring, book, settings
<1>6. LoopInv'
  BY DEF IInv, TypeOK, LoopInv, Up, Down, Asynchronous, Starting, Stopping,
    Started, Goto, Home, ring, book, settings
<1>7. RestInv'
  BY LockAssumption, ChannelAssumption DEF IInv, TypeOK, RestInv, Up, Down,
    Asynchronous, LockInv, StateInv, LoopInv, Starting, Stopping, Channel,
    Started, Goto, Home, ring, book, settings
<1> QED BY <1>1, <1>2, <1>3, <1>4, <1>5, <1>6, <1>7 DEF IInv

LEMMA AskStep ==
  ASSUME IInv, NEW t \in Callers, Ask(t)
  PROVE  IInv'
<1>1. TypeOK'
  <2>1. at[t] \in Channel BY DEF IInv, LoopInv, Ask
  <2>2. at[t] + 1 \in 0 .. LastChannel + 1 BY <2>1, ChannelAssumption DEF Channel
  <2> QED BY <2>1, <2>2 DEF IInv, TypeOK, Ask, Advance, Goto, settings, book
<1>2. LockInv'
  BY DEF IInv, TypeOK, LockInv, Starting, Stopping, Ask, Advance, Goto,
    settings, book
<1>3. StateInv'
  BY DEF IInv, TypeOK, StateInv, Starting, Ask, Advance, Goto, settings,
    book
<1>4. SyncInv'
  BY DEF IInv, TypeOK, SyncInv, Ask, Advance, Goto, settings, book
<1>5. AsyncInv'
  BY DEF IInv, TypeOK, AsyncInv, Joined, Asynchronous, Ask, Advance, Goto,
    settings, book
<1>6. LoopInv'
  BY LockAssumption, ChannelAssumption DEF IInv, TypeOK, LoopInv, Up, Down,
    Asynchronous, Starting, Stopping, LockInv, StateInv, Channel, Ask,
    Advance, Goto, settings, book
<1>7. RestInv'
  BY LockAssumption DEF IInv, TypeOK, RestInv, Up, Down, Asynchronous,
    LockInv, StateInv, Starting, Stopping, Ask, Advance, Goto, settings,
    book
<1> QED BY <1>1, <1>2, <1>3, <1>4, <1>5, <1>6, <1>7 DEF IInv

LEMMA JoinStep ==
  ASSUME IInv, NEW t \in Callers, Join(t)
  PROVE  IInv'
<1>1. TypeOK'
  BY LockAssumption, ChannelAssumption DEF IInv, TypeOK, LockInv, StateInv,
    LoopInv, Starting, Stopping, Down, Up, Asynchronous, Channel, Join,
    Advance, settings, book
<1>2. LockInv'
  BY DEF IInv, TypeOK, LockInv, Starting, Stopping, Join, Advance, settings,
    book
<1>3. StateInv'
  BY DEF IInv, TypeOK, StateInv, Starting, Join, Advance, settings, book
<1>4. SyncInv'
  BY DEF IInv, TypeOK, SyncInv, Join, Advance, settings, book
<1>5. AsyncInv'
  BY DEF IInv, TypeOK, AsyncInv, Joined, Asynchronous, Join, Advance,
    settings, book
<1>6. LoopInv'
  BY LockAssumption, ChannelAssumption DEF IInv, TypeOK, LoopInv, Up, Down,
    Asynchronous, Starting, Stopping, LockInv, StateInv, Channel, Join,
    Advance, settings, book
<1>7. RestInv'
  BY LockAssumption DEF IInv, TypeOK, RestInv, Up, Down, Asynchronous,
    LockInv, StateInv, Starting, Stopping, Join, Advance, settings, book
<1> QED BY <1>1, <1>2, <1>3, <1>4, <1>5, <1>6, <1>7 DEF IInv

LEMMA CleanStep ==
  ASSUME IInv, NEW t \in Callers, Clean(t)
  PROVE  IInv'
<1>1. TypeOK'
  BY DEF IInv, TypeOK, Clean, ring, settings
<1>2. LockInv'
  BY DEF IInv, TypeOK, LockInv, Starting, Stopping, Clean, ring, settings
<1>3. StateInv'
  BY DEF IInv, TypeOK, StateInv, Starting, Clean, ring, settings
<1>4. SyncInv'
  BY DEF IInv, TypeOK, SyncInv, Clean, ring, settings
<1>5. AsyncInv'
  BY DEF IInv, TypeOK, AsyncInv, Joined, Asynchronous, Clean, ring, settings
<1>6. LoopInv'
  BY DEF IInv, TypeOK, LoopInv, Up, Down, Asynchronous, Starting, Stopping,
    Clean, ring, settings
<1>7. RestInv'
  BY DEF IInv, TypeOK, RestInv, Up, Down, Asynchronous, Clean, ring,
    settings
<1> QED BY <1>1, <1>2, <1>3, <1>4, <1>5, <1>6, <1>7 DEF IInv

LEMMA StoppedStep ==
  ASSUME IInv, NEW t \in Callers, Stopped(t)
  PROVE  IInv'
<1>1. TypeOK'
  BY DEF IInv, TypeOK, Stopped, Goto, Home, ring, settings
<1>2. LockInv'
  BY LockAssumption DEF IInv, TypeOK, LockInv, Starting, Stopping, Stopped,
    Goto, Home, ring, settings
<1>3. StateInv'
  BY LockAssumption DEF IInv, TypeOK, StateInv, Starting, LockInv, Stopping,
    Stopped, Goto, Home, ring, settings
<1>4. SyncInv'
  BY DEF IInv, TypeOK, SyncInv, Stopped, Goto, Home, ring, settings
<1>5. AsyncInv'
  BY DEF IInv, TypeOK, AsyncInv, Joined, Asynchronous, Stopped, Goto, Home,
    ring, settings
<1>6. LoopInv'
  BY DEF IInv, TypeOK, LoopInv, Up, Down, Asynchronous, Starting, Stopping,
    Stopped, Goto, Home, ring, settings
<1>7. RestInv'
  BY LockAssumption, ChannelAssumption DEF IInv, TypeOK, RestInv, Up, Down,
    Asynchronous, LockInv, StateInv, LoopInv, Starting, Stopping, Channel,
    Stopped, Goto, Home, ring, settings
<1> QED BY <1>1, <1>2, <1>3, <1>4, <1>5, <1>6, <1>7 DEF IInv

LEMMA BeginSyncLogStep ==
  ASSUME IInv, NEW c \in Channel, BeginSyncLog(c)
  PROVE  IInv'
<1>1. TypeOK'
  BY DEF IInv, TypeOK, BeginSyncLog, Thread, settings, book
<1>2. LockInv'
  BY DEF IInv, TypeOK, LockInv, Starting, Stopping, BeginSyncLog, Thread,
    settings, book
<1>3. StateInv'
  BY DEF IInv, TypeOK, StateInv, Starting, BeginSyncLog, Thread, settings,
    book
<1>4. SyncInv'
  BY DEF IInv, TypeOK, SyncInv, BeginSyncLog, Thread, settings, book
<1>5. AsyncInv'
  BY DEF IInv, TypeOK, AsyncInv, Joined, Asynchronous, BeginSyncLog, Thread,
    settings, book
<1>6. LoopInv'
  BY DEF IInv, TypeOK, LoopInv, Up, Down, Asynchronous, Starting, Stopping,
    BeginSyncLog, Thread, settings, book
<1>7. RestInv'
  BY DEF IInv, TypeOK, RestInv, Up, Down, Asynchronous, BeginSyncLog,
    Thread, settings, book
<1> QED BY <1>1, <1>2, <1>3, <1>4, <1>5, <1>6, <1>7 DEF IInv

LEMMA PushSyncLogStep ==
  ASSUME IInv, NEW c \in Channel, PushSyncLog(c)
  PROVE  IInv'
<1>1. TypeOK'
  BY DEF IInv, TypeOK, PushSyncLog, Thread, settings, book
<1>2. LockInv'
  BY DEF IInv, TypeOK, LockInv, Starting, Stopping, PushSyncLog, Thread,
    settings, book
<1>3. StateInv'
  BY DEF IInv, TypeOK, StateInv, Starting, PushSyncLog, Thread, settings,
    book
<1>4. SyncInv'
  BY DEF IInv, TypeOK, SyncInv, PushSyncLog, Thread, settings, book
<1>5. AsyncInv'
  BY DEF IInv, TypeOK, AsyncInv, Joined, Asynchronous, PushSyncLog, Thread,
    settings, book
<1>6. LoopInv'
  BY LockAssumption, ChannelAssumption DEF IInv, TypeOK, LoopInv, Up, Down,
    Asynchronous, Starting, Stopping, LockInv, StateInv, AsyncInv, SyncInv,
    RestInv, Channel, PushSyncLog, Thread, settings, book
<1>7. RestInv'
  BY DEF IInv, TypeOK, RestInv, Up, Down, Asynchronous, PushSyncLog, Thread,
    settings, book
<1> QED BY <1>1, <1>2, <1>3, <1>4, <1>5, <1>6, <1>7 DEF IInv

LEMMA SettleStep ==
  ASSUME IInv, NEW c \in Channel, Settle(c)
  PROVE  IInv'
<1>1. TypeOK'
  BY DEF IInv, TypeOK, Settle, Thread, settings, book
<1>2. LockInv'
  BY DEF IInv, TypeOK, LockInv, Starting, Stopping, Settle, Thread,
    settings, book
<1>3. StateInv'
  BY DEF IInv, TypeOK, StateInv, Starting, Settle, Thread, settings, book
<1>4. SyncInv'
  BY DEF IInv, TypeOK, SyncInv, Settle, Thread, settings, book
<1>5. AsyncInv'
  BY DEF IInv, TypeOK, AsyncInv, Joined, Asynchronous, Settle, Thread,
    settings, book
<1>6. LoopInv'
  BY DEF IInv, TypeOK, LoopInv, Up, Down, Asynchronous, Starting, Stopping,
    Settle, Thread, settings, book
<1>7. RestInv'
  BY DEF IInv, TypeOK, RestInv, Up, Down, Asynchronous, Settle, Thread,
    settings, book
<1> QED BY <1>1, <1>2, <1>3, <1>4, <1>5, <1>6, <1>7 DEF IInv

LEMMA HotCheckStep ==
  ASSUME IInv, NEW c \in Channel, HotCheck(c)
  PROVE  IInv'
<1>1. TypeOK'
  BY DEF IInv, TypeOK, HotCheck, Thread, settings, book
<1>2. LockInv'
  BY DEF IInv, TypeOK, LockInv, Starting, Stopping, HotCheck, Thread,
    settings, book
<1>3. StateInv'
  BY DEF IInv, TypeOK, StateInv, Starting, HotCheck, Thread, settings, book
<1>4. SyncInv'
  BY DEF IInv, TypeOK, SyncInv, HotCheck, Thread, settings, book
<1>5. AsyncInv'
  BY DEF IInv, TypeOK, AsyncInv, Joined, Asynchronous, HotCheck, Thread,
    settings, book
<1>6. LoopInv'
  BY DEF IInv, TypeOK, LoopInv, Up, Down, Asynchronous, Starting, Stopping,
    HotCheck, Thread, settings, book
<1>7. RestInv'
  BY DEF IInv, TypeOK, RestInv, Up, Down, Asynchronous, HotCheck, Thread,
    settings, book
<1> QED BY <1>1, <1>2, <1>3, <1>4, <1>5, <1>6, <1>7 DEF IInv

LEMMA HotLockStep ==
  ASSUME IInv, NEW c \in Channel, HotLock(c)
  PROVE  IInv'
<1>1. TypeOK'
  BY DEF IInv, TypeOK, HotLock, Thread, settings, book
<1>2. LockInv'
  BY LockAssumption DEF IInv, TypeOK, LockInv, Starting, Stopping, HotLock,
    Thread, settings, book
<1>3. StateInv'
  BY LockAssumption DEF IInv, TypeOK, StateInv, Starting, HotLock, Thread,
    settings, book
<1>4. SyncInv'
  BY DEF IInv, TypeOK, SyncInv, HotLock, Thread, settings, book
<1>5. AsyncInv'
  BY DEF IInv, TypeOK, AsyncInv, Joined, Asynchronous, HotLock, Thread,
    settings, book
<1>6. LoopInv'
  BY DEF IInv, TypeOK, LoopInv, Up, Down, Asynchronous, Starting, Stopping,
    HotLock, Thread, settings, book
<1>7. RestInv'
  BY DEF IInv, TypeOK, RestInv, Up, Down, Asynchronous, HotLock, Thread,
    settings, book
<1> QED BY <1>1, <1>2, <1>3, <1>4, <1>5, <1>6, <1>7 DEF IInv

LEMMA HotUpdateStep ==
  ASSUME IInv, NEW c \in Channel, HotUpdate(c)
  PROVE  IInv'
<1>1. TypeOK'
  BY DEF IInv, TypeOK, HotUpdate, Thread, book
<1>2. LockInv'
  BY LockAssumption DEF IInv, TypeOK, LockInv, Starting, Stopping,
    HotUpdate, Thread, book
<1>3. StateInv'
  BY LockAssumption DEF IInv, TypeOK, StateInv, Starting, HotUpdate, Thread,
    book
<1>4. SyncInv'
  BY DEF IInv, TypeOK, SyncInv, HotUpdate, Thread, book
<1>5. AsyncInv'
  BY DEF IInv, TypeOK, AsyncInv, Joined, Asynchronous, HotUpdate, Thread,
    book
<1>6. LoopInv'
  BY DEF IInv, TypeOK, LoopInv, Up, Down, Asynchronous, Starting, Stopping,
    HotUpdate, Thread, book
<1>7. RestInv'
  BY DEF IInv, TypeOK, RestInv, Up, Down, Asynchronous, HotUpdate, Thread,
    book
<1> QED BY <1>1, <1>2, <1>3, <1>4, <1>5, <1>6, <1>7 DEF IInv

LEMMA PollStep ==
  ASSUME IInv, NEW c \in Channel, Poll(c)
  PROVE  IInv'
<1>1. TypeOK'
  BY DEF IInv, TypeOK, Poll, Thread, settings, book
<1>2. LockInv'
  BY DEF IInv, TypeOK, LockInv, Starting, Stopping, Poll, Thread, settings,
    book
<1>3. StateInv'
  BY DEF IInv, TypeOK, StateInv, Starting, Poll, Thread, settings, book
<1>4. SyncInv'
  BY DEF IInv, TypeOK, SyncInv, Poll, Thread, settings, book
<1>5. AsyncInv'
  BY DEF IInv, TypeOK, AsyncInv, Joined, Asynchronous, Poll, Thread,
    settings, book
<1>6. LoopInv'
  BY DEF IInv, TypeOK, LoopInv, Up, Down, Asynchronous, Starting, Stopping,
    Poll, Thread, settings, book
<1>7. RestInv'
  BY DEF IInv, TypeOK, RestInv, Up, Down, Asynchronous, Poll, Thread,
    settings, book
<1> QED BY <1>1, <1>2, <1>3, <1>4, <1>5, <1>6, <1>7 DEF IInv

-----------------------------------------------------------------------------
(* The invariant holds *)

LEMMA InitInv == Init => IInv
<1> SUFFICES ASSUME Init PROVE IInv OBVIOUS
<1>1. TypeOK
  <2>1. at \in [Callers -> 0 .. LastChannel + 1] /\ calls \in 0 .. MaxCalls
    BY ChannelAssumption, CallAssumption DEF Init
  <2>2. loaded \in BOOLEAN BY DEF Init
  <2> QED BY <2>1, <2>2 DEF Init, TypeOK
<1>2. LockInv BY LockAssumption DEF Init, LockInv, Starting, Stopping
<1>3. StateInv BY LockAssumption DEF Init, StateInv, Starting
<1>4. SyncInv /\ AsyncInv BY DEF Init, SyncInv, AsyncInv, Asynchronous
<1>5. LoopInv BY DEF Init, LoopInv, Starting, Stopping
<1>6. RestInv BY DEF Init, RestInv, Down
<1> QED BY <1>1, <1>2, <1>3, <1>4, <1>5, <1>6 DEF IInv

LEMMA NextInv == IInv /\ [Next]_vars => IInv'
<1> SUFFICES ASSUME IInv, [Next]_vars PROVE IInv' OBVIOUS
<1>1. ASSUME NEW t \in Callers, Begin(t) PROVE IInv'
  BY <1>1, CallLoadStep, CallStartStep, CallStopStep, CallDestroyStep DEF Begin
<1>2. ASSUME NEW t \in Callers, Work(t) PROVE IInv'
  BY <1>2, LoadStep, StartStep, StopStep, DestroyStep, SpawnStep, AwaitStep,
     AwaitTimeoutStep, StartedStep, AskStep, JoinStep, CleanStep, StoppedStep DEF Work
<1>3. ASSUME NEW c \in Channel, BeginSyncLog(c) \/ ThreadStep(c) PROVE IInv'
  BY <1>3, BeginSyncLogStep, PushSyncLogStep, SettleStep, HotCheckStep, HotLockStep,
     HotUpdateStep, PollStep DEF ThreadStep
<1>4. CASE UNCHANGED vars
  <2>1. TypeOK' /\ LockInv' /\ StateInv' /\ SyncInv'
    BY <1>4 DEF vars, IInv, TypeOK, LockInv, StateInv, SyncInv
  <2>2. AsyncInv' /\ LoopInv' /\ RestInv'
    BY <1>4 DEF vars, IInv, AsyncInv, Asynchronous, Joined, LoopInv, RestInv, Up, Down
  <2> QED BY <2>1, <2>2 DEF IInv
<1> QED BY <1>1, <1>2, <1>3, <1>4 DEF Next

(* The inductive invariant of starting, stopping and updating a logger.    *)
THEOREM InvariantHolds == Spec => []IInv
<1> QED BY InitInv, NextInv, PTL DEF Spec

-----------------------------------------------------------------------------
(* What follows from it *)

(* Every variable of the life cycle keeps its type.                        *)
THEOREM TypeCorrect == Spec => []TypeOK
<1>1. IInv => TypeOK BY DEF IInv
<1> QED BY <1>1, InvariantHolds, PTL

(* A logger that says it is running has every channel running, each        *)
(* asynchronous one with its thread: StartLogger declares it only after    *)
(* each thread has declared its channel, and StopLogger takes it back      *)
(* before it asks the first thread to finish.                              *)
THEOREM RunningIsComplete == Spec => []RunningMeansChannels
<1>1. IInv => RunningMeansChannels
  BY DEF IInv, RestInv, Up, AsyncInv, Asynchronous, RunningMeansChannels
<1> QED BY <1>1, InvariantHolds, PTL

(* A logger that says it is not initialised holds no lock and has no       *)
(* asynchronous thread or channel left, after a stop and after a failed    *)
(* start alike.                                                            *)
THEOREM UninitIsAtRest == Spec => []UninitMeansRest
<1>1. ASSUME IInv, logger_state = "UNINIT" PROVE state_lock = NoOne /\ cleaned = NoOne
  <2>1. state_lock \notin Callers BY <1>1 DEF IInv, StateInv
  <2>2. \A c \in Channel : state_lock # c BY <1>1 DEF IInv, LockInv, StateInv
  <2> QED BY <1>1, <2>1, <2>2 DEF IInv, TypeOK, StateInv
<1>2. ASSUME IInv, logger_state = "UNINIT", NEW c \in Asynchronous
      PROVE  channel_state[c] = "NULL" /\ thread[c] = "none"
  BY <1>2 DEF IInv, RestInv, AsyncInv, Down, Asynchronous
<1>3. IInv => UninitMeansRest BY <1>1, <1>2 DEF UninitMeansRest
<1> QED BY <1>3, InvariantHolds, PTL

(* CleanChannels and the closing of the devices' handles run when every    *)
(* thread of the logger has been joined.                                   *)
THEOREM CleaningIsAlone == Spec => []CleanIsAlone
<1>1. ASSUME IInv, cleaned # NoOne, NEW c \in Asynchronous PROVE thread[c] = "none"
  <2>1. cleaned \in Callers /\ pc[cleaned] = "stopped" BY <1>1 DEF IInv, TypeOK, StateInv
  <2>2. c < at[cleaned]
    BY <1>1, <2>1, ChannelAssumption DEF IInv, LoopInv, Asynchronous, Channel
  <2> QED BY <1>1, <2>1, <2>2 DEF IInv, LoopInv, Stopping, Down, Asynchronous
<1>2. IInv => CleanIsAlone BY <1>1 DEF CleanIsAlone
<1> QED BY <1>2, InvariantHolds, PTL

(* A hot update runs alone: no other update and no start, stop or reload   *)
(* is under way.                                                           *)
THEOREM UpdateRunsAlone == Spec => []UpdateIsExclusive
<1>1. IInv => UpdateIsExclusive
  BY LockAssumption
     DEF IInv, LockInv, StateInv, Starting, Stopping, UpdateIsExclusive
<1> QED BY <1>1, InvariantHolds, PTL

(* No std::thread is assigned or joined in the wrong state, in whatever    *)
(* order starts, failed starts and stops follow each other.                *)
THEOREM ThreadsLiveOnce == Spec => ThreadLifeCycle
<1> DEFINE Kept(c) ==
      /\ thread[c] # "none" /\ thread'[c] = "none" => thread[c] = "done"
      /\ thread[c] # thread'[c] /\ thread'[c] = "drain" => thread[c] \in {"none", "poll"}
<1>1. ASSUME IInv, [Next]_vars, NEW c \in Asynchronous PROVE Kept(c)
  <2>1. c \in Channel /\ c \notin sync /\ thread[c] # "log"
    BY <1>1 DEF IInv, AsyncInv, Asynchronous
  <2>2. CASE UNCHANGED thread BY <2>2
  <2>3. ASSUME NEW t \in Callers, Begin(t) PROVE UNCHANGED thread
    BY <2>3 DEF Begin, CallLoad, CallStart, CallStop, Call, CallDestroy, ring
  <2>4. ASSUME NEW t \in Callers, Work(t) PROVE Kept(c)
    <3>1. CASE Spawn(t)
      BY <1>1, <2>1, <3>1 DEF Spawn, IInv, TypeOK, LoopInv, Down, Asynchronous
    <3>2. CASE Join(t) BY <1>1, <2>1, <3>2 DEF Join, IInv, TypeOK
    <3>3. CASE ~Spawn(t) /\ ~Join(t)
      BY <2>2, <2>4, <3>3 DEF Work, Load, Start, Stop, Refused, Destroy, Await, AwaitTimeout,
         Started, Ask, Clean, Stopped, ring
    <3> QED BY <3>1, <3>2, <3>3
  <2>5. ASSUME NEW d \in Channel, BeginSyncLog(d) \/ ThreadStep(d) PROVE Kept(c)
    BY <1>1, <2>1, <2>5 DEF IInv, TypeOK, BeginSyncLog, ThreadStep, PushSyncLog, Settle,
       HotCheck, HotLock, HotUpdate, Poll, Thread
  <2> QED BY <1>1, <2>2, <2>3, <2>4, <2>5 DEF Next, vars
<1>2. IInv /\ [Next]_vars => [\A c \in Asynchronous : Kept(c)]_vars BY <1>1
<1> QED BY <1>2, InvariantHolds, PTL DEF Spec, ThreadLifeCycle

=============================================================================
