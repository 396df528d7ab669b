---------------------------- MODULE FileDeviceMC ----------------------------
(* FileDevice on a small instance: every combination of the options.       *)
EXTENDS FileDevice

=============================================================================
