--------------------------- MODULE LoggerControlMC ---------------------------
(* LoggerControl on a small instance, with each choice of the synchronous  *)
(* channels.                                                               *)
EXTENDS LoggerControl

=============================================================================
