--------------------------- MODULE EvidenceLedger ---------------------------
(* What the memory write path promises of one slot: an event is recorded at
   most once, and whether it counts as evidence is settled in that same step.
   A recorded event is never counted later, counted twice or forgotten. *)
CONSTANT Events
VARIABLES recorded, counted

LedgerVars == <<recorded, counted>>

LedgerInit == recorded = {} /\ counted = {}

Record(e) ==
    /\ e \notin recorded
    /\ recorded' = recorded \cup {e}
    /\ \/ counted' = counted \cup {e}
       \/ UNCHANGED counted

LedgerNext == \E e \in Events : Record(e)

LedgerSpec == LedgerInit /\ [][LedgerNext]_LedgerVars
=============================================================================
