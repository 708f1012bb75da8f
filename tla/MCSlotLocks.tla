---------------------------- MODULE MCSlotLocks ----------------------------
(* Small instances of SlotLocks for TLC. *)
EXTENDS SlotLocks
=============================================================================
