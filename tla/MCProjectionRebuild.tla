------------------------ MODULE MCProjectionRebuild ------------------------
(* Small instances of ProjectionRebuild for TLC: the constants are numbers,
   given in the configurations. *)
EXTENDS ProjectionRebuild, TLC
=============================================================================
