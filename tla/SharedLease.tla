----------------------------- MODULE SharedLease -----------------------------
(***************************************************************************)
(* What the three shared buses promise to the objects on them, whatever    *)
(* counts references and in whatever order: one connection at a time,      *)
(* every object that holds a connection holds that one, and a connection   *)
(* is gone, for good, only when no object holds it.                        *)
(***************************************************************************)
CONSTANTS Buses, Conns, Null

VARIABLES
    current,    \* the connection the next object gets, or Null
    holding,    \* holding[b]: the connection object b holds, or Null
    life        \* life[c]: "unused", "open" or "gone"

vars == <<current, holding, life>>

Init ==
    /\ current = Null
    /\ holding = [b \in Buses |-> Null]
    /\ life = [c \in Conns |-> "unused"]

(* A new connection, for object b or for none yet. *)
Open(c) ==
    /\ current = Null
    /\ life[c] = "unused"
    /\ current' = c
    /\ life' = [life EXCEPT ![c] = "open"]
    /\ \/ UNCHANGED holding
       \/ \E b \in Buses : holding' = [holding EXCEPT ![b] = c]

Take(b) ==
    /\ current # Null
    /\ holding[b] = Null
    /\ holding' = [holding EXCEPT ![b] = current]
    /\ UNCHANGED <<current, life>>

Give(b) ==
    /\ holding[b] # Null
    /\ holding' = [holding EXCEPT ![b] = Null]
    /\ UNCHANGED <<current, life>>

NoHolder(c, hold) == \A b \in Buses : hold[b] # c

(* The connection goes, with its last holder or after it. *)
Close(c) ==
    /\ current = c
    /\ life[c] = "open"
    /\ \/ UNCHANGED holding
       \/ \E b \in Buses : holding[b] = c /\ holding' = [holding EXCEPT ![b] = Null]
    /\ NoHolder(c, holding')
    /\ current' = Null
    /\ life' = [life EXCEPT ![c] = "gone"]

Next ==
    \/ \E c \in Conns : Open(c) \/ Close(c)
    \/ \E b \in Buses : Take(b) \/ Give(b)

Spec == Init /\ [][Next]_vars
=============================================================================
