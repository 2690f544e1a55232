----------------------------- MODULE MCSharedBus -----------------------------
(* SharedBus on small instances: the constants are model values and sets   *)
(* given in the .cfg files.                                                *)
EXTENDS SharedBus
=============================================================================
