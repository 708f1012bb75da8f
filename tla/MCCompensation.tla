--------------------------- MODULE MCCompensation ---------------------------
(* Small instances of Compensation for TLC, with the contents of
   MCLifecycleStore. *)
EXTENDS Compensation, MCLifecycleStore
=============================================================================
