---------------------------- MODULE MCPendingCall ----------------------------
(* PendingCall on small instances: the calls are model values, given in    *)
(* the .cfg files.                                                         *)
EXTENDS PendingCall
=============================================================================
