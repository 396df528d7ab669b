--------------------------- MODULE ChannelRestart ---------------------------
(***************************************************************************)
(* A channel that is stopped and started again.  StopLogger joins the      *)
(* channel's thread and calls CleanChannels (fn_core.cpp), which resets    *)
(* the four indices and clears the marks of the slots from read_idx_ to    *)
(* write_idx_; StartLogger then spawns a new thread.  Here every producer  *)
(* has returned from PushChannel before CleanChannels runs, so whatever    *)
(* goes wrong is not the fault of a caller that kept a slot too long.      *)
(***************************************************************************)
EXTENDS RingChannel

CONSTANT MaxRestarts   \* bound: the channel is started again that often

VARIABLE restarts      \* history: how often the channel was started again

restartVars == <<vars, restarts>>

RestartInit == Init /\ restarts = 0

(* CleanChannels: only published slots that were not returned are cleared. *)
CleanedMarks ==
  [s \in Slot |-> IF \E n \in read .. write - 1 : Idx(n) = s THEN "INVALID" ELSE mark[s]]

(* The end of StopChannels, CleanChannels, and the next StartChannels.     *)
Restart ==
  /\ restarts < MaxRestarts /\ restarts' = restarts + 1
  /\ cpc = "done" /\ \A p \in Producers : pc[p] = "idle"
  /\ mark' = CleanedMarks
  /\ hold' = 0 /\ write' = 0 /\ proc' = 0 /\ read' = 0
  /\ state' = "NULL" /\ cpc' = "take"
  /\ delivered' = <<>> /\ stopAt' = 0
  /\ UNCHANGED <<log, count, prod>>

RestartNext == (Next /\ UNCHANGED restarts) \/ Restart

RestartSpec == RestartInit /\ [][RestartNext /\ NoLap']_restartVars

=============================================================================
