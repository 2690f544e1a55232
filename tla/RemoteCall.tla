----------------------------- MODULE RemoteCall -----------------------------
(***************************************************************************)
(* What a caller of a service may rely on: a call is served at most once,  *)
(* and one that succeeds was served.  A call that fails may have been      *)
(* served, or may still be; one that is refused, before it is sent, never  *)
(* is.  Nobody waits for what is posted.                                   *)
(***************************************************************************)
CONSTANT Calls

VARIABLES
    state,  \* state[k]: "idle", "waiting", "posted", "refused", "ok", "failed"
    served  \* served[k]: the service has done what the call asks for

vars == <<state, served>>

Init ==
    /\ state  = [k \in Calls |-> "idle"]
    /\ served = [k \in Calls |-> FALSE]

Move(k, from, to) ==
    /\ state[k] = from
    /\ state' = [state EXCEPT ![k] = to]
    /\ UNCHANGED served

Begin(k) ==
    Move(k, "idle", "waiting") \/ Move(k, "idle", "posted") \/ Move(k, "idle", "refused")

Serve(k) ==
    /\ state[k] \in {"waiting", "posted", "failed"}
    /\ ~served[k]
    /\ served' = [served EXCEPT ![k] = TRUE]
    /\ UNCHANGED state

Succeed(k) == served[k] /\ Move(k, "waiting", "ok")

Fail(k) == Move(k, "waiting", "failed")

Next == \E k \in Calls : Begin(k) \/ Serve(k) \/ Succeed(k) \/ Fail(k)

Spec == Init /\ [][Next]_vars
=============================================================================
