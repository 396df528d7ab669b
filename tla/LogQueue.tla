------------------------------ MODULE LogQueue ------------------------------
(***************************************************************************)
(* What one channel of fn_log promises to its callers, without saying how: *)
(* a bounded first-in first-out queue of log records.  A log is claimed    *)
(* (fn_channel.cpp, HoldChannel), completed by its author, published in    *)
(* claim order (PushChannel), delivered to the devices in that order, and  *)
(* its place is given back (EnterProcChannel).  RingChannel implements it. *)
(***************************************************************************)
EXTENDS Naturals, Sequences

CONSTANT Capacity   \* places that can be claimed and not yet given back

VARIABLES
  claimed,    \* logs claimed so far; log n is the (n+1)th claim
  complete,   \* claimed, unpublished logs whose author has finished them
  published,  \* logs 0 .. published-1 may be delivered
  delivered,  \* the logs handed to the devices, in order
  freed       \* logs whose place was given back

vars == <<claimed, complete, published, delivered, freed>>

Init ==
  /\ claimed = 0
  /\ complete = {}
  /\ published = 0
  /\ delivered = <<>>
  /\ freed = 0

(* An author is given the next log, if fewer than Capacity are in flight.  *)
Claim ==
  /\ claimed - freed < Capacity
  /\ claimed' = claimed + 1
  /\ UNCHANGED <<complete, published, delivered, freed>>

(* The author of a claimed log finishes it; authors finish in any order.   *)
Complete ==
  /\ \E n \in (published .. claimed - 1) \ complete : complete' = complete \cup {n}
  /\ UNCHANGED <<claimed, published, delivered, freed>>

(* Only the oldest unpublished log can be published, once it is complete.  *)
Publish ==
  /\ published \in complete
  /\ complete' = complete \ {published}
  /\ published' = published + 1
  /\ UNCHANGED <<claimed, delivered, freed>>

(* The next published log is handed to the devices: exactly once, in order.*)
Deliver ==
  /\ Len(delivered) < published
  /\ delivered' = Append(delivered, Len(delivered))
  /\ UNCHANGED <<claimed, complete, published, freed>>

(* The place of the oldest delivered log can be claimed again.             *)
Free ==
  /\ freed < Len(delivered)
  /\ freed' = freed + 1
  /\ UNCHANGED <<claimed, complete, published, delivered>>

Next == Claim \/ Complete \/ Publish \/ Deliver \/ Free

Spec == Init /\ [][Next]_vars

=============================================================================
