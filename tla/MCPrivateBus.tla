---------------------------- MODULE MCPrivateBus ----------------------------
(* PrivateBus on small instances: the watches, timeouts and users are      *)
(* model values, given in the .cfg files.                                  *)
EXTENDS PrivateBus
=============================================================================
