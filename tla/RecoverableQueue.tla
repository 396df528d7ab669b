-------------------------- MODULE RecoverableQueue --------------------------
(***************************************************************************)
(* What a channel in shared memory promises to its callers: LogQueue, but  *)
(* its users may all die at any moment.  The queue survives, no log of it  *)
(* is lost, and the order stays; what has no living author is published as *)
(* it is, and a log whose place was not yet given back is delivered again. *)
(* ShmRecovery implements it.                                              *)
(***************************************************************************)
EXTENDS Naturals, Sequences

CONSTANT Capacity   \* places that can be claimed and not yet given back

VARIABLES
  claimed,    \* logs claimed so far; log n is the (n+1)th claim
  complete,   \* claimed, unpublished logs whose author has finished them
  published,  \* logs 0 .. published-1 may be delivered
  next,       \* the log to be delivered next
  given,      \* the logs handed to the devices, in order, repetitions included
  freed,      \* logs whose place was given back
  up          \* the users are alive

vars == <<claimed, complete, published, next, given, freed, up>>

Init ==
  /\ claimed = 0 /\ complete = {} /\ published = 0
  /\ next = 0 /\ given = <<>> /\ freed = 0
  /\ up = TRUE

(* An author is given the next log, if fewer than Capacity are in flight.  *)
Claim ==
  /\ up /\ claimed - freed < Capacity
  /\ claimed' = claimed + 1
  /\ UNCHANGED <<complete, published, next, given, freed, up>>

(* The author of a claimed log finishes it; authors finish in any order.   *)
Complete ==
  /\ up
  /\ \E n \in (published .. claimed - 1) \ complete : complete' = complete \cup {n}
  /\ UNCHANGED <<claimed, published, next, given, freed, up>>

PublishOldest ==
  /\ complete' = complete \ {published}
  /\ published' = published + 1
  /\ UNCHANGED <<claimed, next, given, freed, up>>

(* The living publish the oldest unpublished log, once it is complete; the *)
(* recovery publishes it complete or not.                                  *)
Publish == up /\ published \in complete /\ PublishOldest
Recover == ~up /\ published < claimed /\ PublishOldest

(* The next published log is handed to the devices, once the place of the  *)
(* one before was given back: a crash makes one log come again at most.    *)
Deliver ==
  /\ up /\ next = freed /\ next < published
  /\ given' = Append(given, next)
  /\ next' = next + 1
  /\ UNCHANGED <<claimed, complete, published, freed, up>>

(* The place of the delivered log can be claimed again.                    *)
Free ==
  /\ up /\ freed < next
  /\ freed' = freed + 1
  /\ UNCHANGED <<claimed, complete, published, next, given, up>>

(* All users die; a log that was delivered and not given back comes again. *)
Crash ==
  /\ up' = FALSE
  /\ next' = freed
  /\ UNCHANGED <<claimed, complete, published, given, freed>>

(* New users find nothing unpublished.                                     *)
Restart ==
  /\ ~up /\ published = claimed
  /\ up' = TRUE
  /\ UNCHANGED <<claimed, complete, published, next, given, freed>>

Next == Claim \/ Complete \/ Publish \/ Recover \/ Deliver \/ Free \/ Crash \/ Restart

Spec == Init /\ [][Next]_vars

=============================================================================
