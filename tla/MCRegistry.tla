------------------------------ MODULE MCRegistry ------------------------------
(* Registry on a small instance: two spellings of one interface name, one  *)
(* other interface.                                                        *)
EXTENDS Registry

MCNames  == {"login1", "LOGIN1", "timedate"}
MCTopics == {"SessionNew", "SessionRemoved"}
MCFold == [x \in MCNames \union MCTopics |-> IF x = "LOGIN1" THEN "login1" ELSE x]
=============================================================================
