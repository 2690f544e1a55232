---------------------------- MODULE SignalRouter ----------------------------
(***************************************************************************)
(* What a connection promises its subscribers, without lists, rules or a   *)
(* mutex: a message is delivered to every subscription that matched it     *)
(* when it arrived, to no subscription that does not match it, and to none *)
(* that has been taken back: while a message is being delivered nobody can *)
(* take a subscription back, and afterwards it is never called.            *)
(***************************************************************************)
CONSTANTS
    Subs, Messages, Null,
    Matches(_, _),  \* Matches(x, m): message m is what x asks for
    Throws          \* whether a subscriber's callback may throw

VARIABLES
    topic,   \* topic[s]: what s subscribes to, Null if s is no subscription
    msg,     \* the message in delivery, or Null
    due,     \* subscriptions that matched it when it arrived
    called   \* subscriptions it was delivered to so far

vars == <<topic, msg, due, called>>

Init ==
    /\ topic = [s \in Subs |-> Null]
    /\ msg = Null
    /\ due = {}
    /\ called = {}

Active == {s \in Subs : topic[s] # Null}

Hits(m) == {s \in Active : Matches(topic[s], m)}

Subscribe ==
    /\ \A s \in Active : topic'[s] = topic[s]
    /\ UNCHANGED <<msg, due, called>>

Unsubscribe ==
    /\ msg = Null
    /\ \A s \in Subs : topic'[s] \in {topic[s], Null}
    /\ UNCHANGED <<msg, due, called>>

Arrive(m) ==
    /\ msg = Null
    /\ msg' = m
    /\ due' = Hits(m)
    /\ called' = {}
    /\ UNCHANGED topic

Call(s) ==
    /\ msg # Null
    /\ s \in Hits(msg) \ called
    /\ called' = called \union {s}
    /\ UNCHANGED <<topic, msg, due>>

(* The last subscriber was called, or one of them threw an exception. *)
Finish ==
    /\ msg # Null
    /\ ~Throws => due \subseteq called
    /\ msg' = Null
    /\ due' = {}
    /\ called' = {}
    /\ UNCHANGED topic

Next ==
    \/ Subscribe
    \/ Unsubscribe
    \/ \E m \in Messages : Arrive(m)
    \/ \E s \in Subs : Call(s)
    \/ Finish

Spec == Init /\ [][Next]_vars
=============================================================================
