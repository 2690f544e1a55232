----------------------------- MODULE MCMessages -----------------------------
(* Messages on small instances: integers of 2, 3 and 4 bits, and samples   *)
(* that some of them have and others have not.                             *)
EXTENDS Messages

MCSamples == {-2, 0, 5}
=============================================================================
