------------------------------ MODULE AsyncCall ------------------------------
(***************************************************************************)
(* What the caller of Connection::call with a callback may rely on,        *)
(* whatever order its thread and the main loop come in: the callback is    *)
(* called once at most, with what it captured still there, and never if    *)
(* call() throws.  What it captured is released when call() is over, or    *)
(* with it, and after that the callback is not called any more.  That it   *)
(* is called at all is not promised: see PendingCall!EveryCallAnswered.    *)
(***************************************************************************)
CONSTANT Calls

VARIABLES
    state,     \* state[k]: "idle", "asking", "accepted" or "refused"
    heard,     \* the calls whose callback was called
    released   \* those for which what it captured is deleted

vars == <<state, heard, released>>

Init ==
    /\ state = [k \in Calls |-> "idle"]
    /\ heard = {} /\ released = {}

Move(k, from, to) == state[k] = from /\ state' = [state EXCEPT ![k] = to]

MayRelease(k) ==
    UNCHANGED released \/ (k \notin released /\ released' = released \union {k})

(* call() is entered, perhaps for nothing.  *)
Begin(k) ==
    /\ Move(k, "idle", "asking") \/ Move(k, "idle", "refused")
    /\ UNCHANGED <<heard, released>>

Accept(k) == Move(k, "asking", "accepted") /\ MayRelease(k) /\ UNCHANGED heard

Refuse(k) ==
    /\ k \notin heard
    /\ Move(k, "asking", "refused") /\ MayRelease(k) /\ UNCHANGED heard

(* The reply may be handled before call() returns. *)
Hear(k) ==
    /\ state[k] \in {"asking", "accepted"}
    /\ k \notin heard \union released
    /\ heard' = heard \union {k}
    /\ state[k] = "asking" => UNCHANGED released
    /\ MayRelease(k) /\ UNCHANGED state

(* The reply was missed. *)
Release(k) ==
    /\ state[k] = "accepted"
    /\ k \notin heard \union released
    /\ released' = released \union {k}
    /\ UNCHANGED <<state, heard>>

Next == \E k \in Calls : Begin(k) \/ Accept(k) \/ Refuse(k) \/ Hear(k) \/ Release(k)

Spec == Init /\ [][Next]_vars
=============================================================================
