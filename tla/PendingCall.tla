----------------------------- MODULE PendingCall -----------------------------
(***************************************************************************)
(* Asynchronous method calls: DBus::Connection::call with a callback.      *)
(*                                                                         *)
(* A thread sends the message, makes the CallParameters that hold the      *)
(* callback, stores them in the pending call's data slot, registers        *)
(* dbus_call_reply and drops its reference of the pending call.  No mutex  *)
(* is held: the main loop's thread may complete the pending call (with the *)
(* reply or with the timeout's error) between any two of these steps.      *)
(*                                                                         *)
(* Of libdbus the model has the reference counts of the pending call and   *)
(* of the message, the data slot whose free function deletes the           *)
(* parameters, and that a notify function set after the completion is      *)
(* called in that completion or never.  A reply, or the error of the       *)
(* timeout, is only queued when it comes: the pending call is completed    *)
(* when the main loop dispatches, as it does after events of the socket    *)
(* and at no other time.                                                   *)
(***************************************************************************)
EXTENDS Integers, FiniteSets

CONSTANTS
    Calls,   \* calls that are made
    OnMain,  \* those made by the main loop's thread
    Null,
    Faults,  \* "send", "slot", "set_data", "set_notify": what may fail in
             \* call(), and "memory": there is none to dispatch with
    MaxFaults \* bound: as often may call() fail, in all calls together

ASSUME CallsAssumption == OnMain \subseteq Calls /\ Null \notin Calls

ASSUME FaultsAssumption ==
    /\ Faults \subseteq {"send", "slot", "set_data", "set_notify", "memory"}
    /\ MaxFaults \in Nat

VARIABLES
    at,          \* at[k]: how far the caller is
    pending,     \* pending[k]: the DBusPendingCall
    refs,        \* refs[k]: its references
    notify,      \* notify[k]: dbus_call_reply is registered
    stored,      \* stored[k]: the data slot has the parameters
    params,      \* params[k]: the CallParameters
    deletes,     \* deletes[k]: how often they were deleted
    slot,        \* the data slot, shared by all calls, is allocated
    message,     \* message[k]: references of the DBusMessage
    queued,      \* queued[k]: libdbus has still to write the message
    dispatching, \* handle_event is in its loop
    delivering,  \* the pending call the main loop completes, or Null
    answered,    \* answered[k]: how often the callback was called
    failed       \* history: the faults each call has met

callerVars  == <<at, message>>
pendingVars == <<pending, refs, notify, stored>>
paramsVars  == <<params, deletes, slot>>
loopVars    == <<queued, dispatching, delivering, answered>>
vars == <<callerVars, pendingVars, paramsVars, loopVars, failed>>

Init ==
    /\ at = [k \in Calls |-> "idle"]
    /\ pending  = [k \in Calls |-> "none"]
    /\ refs     = [k \in Calls |-> 0]
    /\ notify   = [k \in Calls |-> FALSE]
    /\ stored   = [k \in Calls |-> FALSE]
    /\ params   = [k \in Calls |-> "none"]
    /\ deletes  = [k \in Calls |-> 0]
    /\ slot = FALSE
    /\ message  = [k \in Calls |-> 0]
    /\ queued   = [k \in Calls |-> FALSE]
    /\ dispatching = FALSE
    /\ delivering = Null
    /\ answered = [k \in Calls |-> 0]
    /\ failed   = [k \in Calls |-> {}]

-----------------------------------------------------------------------------

Goto(k, label) == at' = [at EXCEPT ![k] = label]

(* One failure more is within the bound. *)
MayFail == Cardinality(UNION {{k} \X failed[k] : k \in Calls}) < MaxFaults

Fails(k, fault) ==
    /\ fault \in Faults
    /\ MayFail
    /\ failed' = [failed EXCEPT ![k] = @ \union {fault}]

Delete(k, times) ==
    /\ params'  = [params  EXCEPT ![k] = IF times > 0 THEN "deleted" ELSE @]
    /\ deletes' = [deletes EXCEPT ![k] = @ + times]
    /\ UNCHANGED slot

One(p) == IF p THEN 1 ELSE 0

(* dbus_pending_call_unref, followed by n deletes of the parameters; the   *)
(* last reference finalises the call, and free_parameters deletes what the *)
(* slot holds.                                                             *)
UnrefAndDelete(k, n) ==
    /\ refs' = [refs EXCEPT ![k] = @ - 1]
    /\ pending' = [pending EXCEPT ![k] = IF refs[k] = 1 THEN "finalised" ELSE @]
    /\ Delete(k, n + One(refs[k] = 1 /\ stored[k]))

(* The main loop's thread is in no call(). *)
LoopRuns == \A k \in OnMain : at[k] \in {"idle", "returned", "thrown"}

(* The connection has the pending call, with a reply in the queue or not.  *)
Awaited(k) == pending[k] \in {"waiting", "due"}

(* The caller is free to make it: one call at a time on the main loop's, a thread *)
(* of its own for each other call.                                         *)
Begins(k) == at[k] = "idle" /\ (k \in OnMain => LoopRuns)

DropMessage(k, n) == message' = [message EXCEPT ![k] = @ - n]

-----------------------------------------------------------------------------
(* The caller *)

(* The message is made and sent: one reference of it is the caller's, one  *)
(* the queue's; one of the pending call is the caller's, one the           *)
(* connection's.                                                           *)
Send(k) ==
    /\ Begins(k)
    /\ message' = [message EXCEPT ![k] = 2]
    /\ queued'  = [queued EXCEPT ![k] = TRUE]
    /\ pending' = [pending EXCEPT ![k] = "waiting"]
    /\ refs'    = [refs EXCEPT ![k] = 2]
    /\ Goto(k, "sent")
    /\ UNCHANGED <<notify, stored, paramsVars, dispatching, delivering, answered,
                   failed>>

(* No connection, no memory, or no pending call because the bus is closed. *)
SendFails(k) ==
    /\ Begins(k)
    /\ Fails(k, "send")
    /\ Goto(k, "thrown")
    /\ UNCHANGED <<message, pendingVars, paramsVars, loopVars>>

(* The slot is allocated once.  Two threads may both find it missing:     *)
(* libdbus then counts the second allocation.                              *)
NewParameters(k) ==
    /\ at[k] = "sent"
    /\ params' = [params EXCEPT ![k] = "live"]
    /\ slot' = TRUE
    /\ Goto(k, "made")
    /\ UNCHANGED <<message, pendingVars, deletes, loopVars, failed>>

(* No data slot: parameters and pending call are left to themselves, the  *)
(* overload that made the message drops it.                                *)
SlotFails(k) ==
    /\ at[k] = "sent"
    /\ ~slot
    /\ Fails(k, "slot")
    /\ params' = [params EXCEPT ![k] = "live"]
    /\ DropMessage(k, 1)
    /\ Goto(k, "thrown")
    /\ UNCHANGED <<pendingVars, deletes, slot, loopVars>>

SetData(k) ==
    /\ at[k] = "made"
    /\ stored' = [stored EXCEPT ![k] = TRUE]
    /\ Goto(k, "filed")
    /\ UNCHANGED <<message, pending, refs, notify, paramsVars, loopVars, failed>>

(* The result of dbus_pending_call_set_data is not looked at. *)
SetDataFails(k) ==
    /\ at[k] = "made"
    /\ Fails(k, "set_data")
    /\ Goto(k, "filed")
    /\ UNCHANGED <<message, pendingVars, paramsVars, loopVars>>

(* Mutant: whether set_notify has failed is not looked at. *)
SetNotifyIgnored(k) ==
    /\ at[k] = "filed"
    /\ notify' = [notify EXCEPT ![k] = "set_notify" \notin Faults]
    /\ Goto(k, "armed")
    /\ UNCHANGED <<message, pending, refs, stored, paramsVars, loopVars, failed>>

(* Registered after the completion, the function may still be called if the *)
(* main loop has not looked for one yet; later it is not.                   *)
SetNotify(k) ==
    /\ at[k] = "filed"
    /\ \E inTime \in BOOLEAN :
        /\ Awaited(k) => inTime
        /\ inTime => Awaited(k) \/ delivering = k
        /\ notify' = [notify EXCEPT ![k] = inTime]
    /\ Goto(k, "armed")
    /\ UNCHANGED <<message, pending, refs, stored, paramsVars, loopVars, failed>>

(* Mutant: set_notify has worked when it is taken to have failed.          *)
NotifyFailsArmed(k) ==
    /\ at[k] = "filed"
    /\ Fails(k, "set_notify")
    /\ notify' = [notify EXCEPT ![k] = TRUE]
    /\ UnrefAndDelete(k, 1)
    /\ DropMessage(k, 2)
    /\ Goto(k, "thrown")
    /\ UNCHANGED <<stored, loopVars>>

(* set_notify fails: unref, drop the message, delete the parameters, and   *)
(* the overload that made the message drops it too.                        *)
NotifyFails(k) ==
    /\ at[k] = "filed"
    /\ Fails(k, "set_notify")
    /\ UnrefAndDelete(k, 1)
    /\ DropMessage(k, 2)
    /\ Goto(k, "thrown")
    /\ UNCHANGED <<notify, stored, loopVars>>

(* Mutants: the pending call is not given back; the parameters are deleted *)
(* with it.                                                                *)
ReturnHolding(k) ==
    /\ at[k] = "armed"
    /\ DropMessage(k, 1)
    /\ Goto(k, "returned")
    /\ UNCHANGED <<pendingVars, paramsVars, loopVars, failed>>

ReturnDeleting(k) ==
    /\ at[k] = "armed"
    /\ UnrefAndDelete(k, 1)
    /\ DropMessage(k, 1)
    /\ Goto(k, "returned")
    /\ UNCHANGED <<notify, stored, loopVars, failed>>

Return(k) ==
    /\ at[k] = "armed"
    /\ UnrefAndDelete(k, 0)
    /\ DropMessage(k, 1)
    /\ Goto(k, "returned")
    /\ UNCHANGED <<notify, stored, loopVars, failed>>

-----------------------------------------------------------------------------
(* The main loop's thread *)

(* The message is on the wire. *)
Write(k) ==
    /\ queued[k]
    /\ queued' = [queued EXCEPT ![k] = FALSE]
    /\ DropMessage(k, 1)
    /\ UNCHANGED <<at, pendingVars, paramsVars, dispatching, delivering, answered,
                   failed>>

(* libdbus queues the reply, which the main loop or a blocking call of any *)
(* thread has read, or the error of the timeout.                           *)
Arrive(k) ==
    /\ pending[k] = "waiting"
    /\ pending' = [pending EXCEPT ![k] = "due"]
    /\ UNCHANGED <<callerVars, refs, notify, stored, paramsVars, loopVars, failed>>

(* handle_event, with whatever has happened at the socket, comes to the    *)
(* loop over the queue, ...                                                *)
Activity ==
    /\ LoopRuns
    /\ ~dispatching
    /\ dispatching' = TRUE
    /\ UNCHANGED <<callerVars, pendingVars, paramsVars, queued, delivering, answered,
                   failed>>

(* ... and leaves it when the queue is empty, or there is no memory.       *)
DispatchEnds ==
    /\ LoopRuns
    /\ dispatching /\ delivering = Null
    /\ (\A k \in Calls : pending[k] # "due") \/ "memory" \in Faults
    /\ dispatching' = FALSE
    /\ UNCHANGED <<callerVars, pendingVars, paramsVars, queued, delivering, answered,
                   failed>>

(* The reply is dispatched, or the error of the timeout. *)
Complete(k) ==
    /\ LoopRuns
    /\ dispatching /\ delivering = Null
    /\ pending[k] = "due"
    /\ pending' = [pending EXCEPT ![k] = "completed"]
    /\ delivering' = k
    /\ UNCHANGED <<callerVars, refs, notify, stored, paramsVars, queued, dispatching,
                   answered, failed>>

(* Mutant: dbus_call_reply drops a reference of the pending call too. *)
DeliverUnreffing(k) ==
    /\ LoopRuns
    /\ delivering = k
    /\ delivering' = Null
    /\ answered' = [answered EXCEPT ![k] = @ + One(notify[k])]
    /\ refs' = [refs EXCEPT ![k] = @ - 1 - One(notify[k])]
    /\ pending' = [pending EXCEPT ![k] = IF refs[k] = 1 THEN "finalised" ELSE @]
    /\ Delete(k, One(refs[k] = 1 /\ stored[k]))
    /\ UNCHANGED <<callerVars, notify, stored, queued, dispatching, failed>>

(* dbus_call_reply, if it is registered: the callback is called in each of *)
(* its branches, and its exceptions are caught.  The connection drops its  *)
(* reference.                                                              *)
Deliver(k) ==
    /\ LoopRuns
    /\ delivering = k
    /\ delivering' = Null
    /\ answered' = [answered EXCEPT ![k] = @ + One(notify[k])]
    /\ UnrefAndDelete(k, 0)
    /\ UNCHANGED <<callerVars, notify, stored, queued, dispatching, failed>>

-----------------------------------------------------------------------------

(* The caller is out of call, and libdbus has done with what it sent. *)
Over(k) ==
    /\ at[k] \in {"returned", "thrown"}
    /\ ~Awaited(k)
    /\ delivering # k
    /\ ~queued[k]

(* What a caller goes on with once it has begun. *)
Step(k) ==
    \/ NewParameters(k)
    \/ SlotFails(k)
    \/ SetData(k)
    \/ SetDataFails(k)
    \/ SetNotify(k)
    \/ NotifyFails(k)
    \/ Return(k)

Loop(k) == Arrive(k) \/ Complete(k) \/ Deliver(k)

Next ==
    \/ \E k \in Calls : Send(k) \/ SendFails(k) \/ Step(k) \/ Write(k) \/ Loop(k)
    \/ Activity
    \/ DispatchEnds

Spec == Init /\ [][Next]_vars

MainStep == \E k \in OnMain : Step(k)

CallbackReturns == \E k \in Calls : Deliver(k)

(* The main loop's thread goes on with a call() it is in, and its callbacks *)
(* return, whatever calls they make; each pending call has a timeout if it *)
(* gets no reply.  The queue is in order: a reply in it is dispatched when *)
(* the loop over the queue is run again and again, and memory does not     *)
(* fail each time.  That it is run is not assumed, nor anything of other   *)
(* threads.                                                                *)
GoesOn == WF_vars(MainStep)

Returns == SF_vars(CallbackReturns)

Expires(k) == WF_vars(Arrive(k))

Comes(k) == SF_vars(Complete(k))

FairSpec ==
    /\ Spec
    /\ GoesOn /\ Returns
    /\ \A k \in OnMain : Expires(k) /\ Comes(k)

-----------------------------------------------------------------------------
(* Properties *)

TypeOK ==
    /\ at \in [Calls ->
                 {"idle", "sent", "made", "filed", "armed", "returned", "thrown"}]
    /\ pending \in [Calls -> {"none", "waiting", "due", "completed", "finalised"}]
    /\ refs \in [Calls -> Nat]
    /\ notify \in [Calls -> BOOLEAN]
    /\ stored \in [Calls -> BOOLEAN]
    /\ params \in [Calls -> {"none", "live", "deleted"}]
    /\ deletes \in [Calls -> Nat]
    /\ slot \in BOOLEAN
    /\ message \in [Calls -> Int]
    /\ queued \in [Calls -> BOOLEAN]
    /\ dispatching \in BOOLEAN
    /\ delivering \in Calls \union {Null}
    /\ answered \in [Calls -> Nat]
    /\ failed \in [Calls -> SUBSET Faults]

(* dbus_call_reply finds the parameters it was registered with: whatever   *)
(* order caller and main loop come in, they are there until the callback   *)
(* has run.                                                                *)
ReplyFindsParameters ==
    \A k \in Calls : delivering = k /\ notify[k] => params[k] = "live"

(* Once a call is over, its parameters (the callback and a reference of    *)
(* the connection) have been deleted, exactly once, by whichever thread    *)
(* dropped the pending call last.  call() leaves them behind when there is *)
(* no slot or set_data fails, and deletes them itself when set_notify      *)
(* fails.                                                                  *)
ParametersFreedOnce ==
    \A k \in Calls :
        /\ failed[k] \subseteq {"send"} => deletes[k] <= 1
        /\ Over(k) /\ failed[k] = {} => deletes[k] = 1 /\ refs[k] = 0

(* The message outlives the queue that writes it and the call that made    *)
(* it, and no longer than both.  Not so when set_notify fails: call() and  *)
(* the overload that made the message both drop it.                        *)
MessageBalanced ==
    \A k \in Calls :
        "set_notify" \notin failed[k] =>
            /\ queued[k] => message[k] > 0
            /\ Over(k) => message[k] = 0

(* What a call() makes is there as long as a thread needs it, and is freed *)
(* once, by the last.                                                      *)
MemoryKept == ReplyFindsParameters /\ ParametersFreedOnce /\ MessageBalanced

(* A call made by the main loop's thread hears of its reply: no reply is   *)
(* dispatched before call() has set the notify function.                   *)
MainAnswered ==
    \A k \in OnMain :
        at[k] = "returned" /\ Over(k) => answered[k] = 1

(* A callback is called once, and only if its notify function was set: not  *)
(* by a call() that throws, and not once more by the timeout.  When the    *)
(* call is over, a function that was set has been called; for a call that  *)
(* the main loop's thread made it was set.                                 *)
CallbackOnce ==
    /\ \A k \in Calls :
        /\ answered[k] <= One(notify[k] /\ at[k] # "thrown")
        /\ Over(k) => answered[k] = One(notify[k])
    /\ MainAnswered

InCall(k) == at[k] \in {"sent", "made", "filed", "armed"}

(* The next step of either thread finds what it needs.  The main loop's    *)
(* thread is in one call() at a time.  As long as a caller is in call() the *)
(* pending call is not finalised under it, though the main loop may have   *)
(* completed and dropped it; while it waits for its reply, and while the   *)
(* main loop completes it, the connection has a reference of it.           *)
StepsReady ==
    /\ \A j, k \in OnMain : InCall(j) /\ InCall(k) => j = k
    /\ \A k \in Calls :
        /\ InCall(k) => pending[k] # "finalised" /\ refs[k] > 0
        /\ Awaited(k) => refs[k] > 0
    /\ delivering # Null =>
         dispatching /\ pending[delivering] = "completed" /\ refs[delivering] > 0

(* Nobody holds the main loop's thread up: it can go on wherever it is in   *)
(* call(), a callback can return once the calls it made are over, each of  *)
(* its pending calls can get its reply or time out, and then be completed  *)
(* whenever the loop dispatches, whatever the other threads do with theirs. *)
StepsEnabled ==
    /\ ENABLED <<MainStep>>_vars <=> ~LoopRuns
    /\ ENABLED <<CallbackReturns>>_vars <=> LoopRuns /\ delivering # Null
    /\ \A k \in OnMain :
        /\ ENABLED <<Arrive(k)>>_vars <=> pending[k] = "waiting"
        /\ ENABLED <<Complete(k)>>_vars <=>
               LoopRuns /\ dispatching /\ delivering = Null /\ pending[k] = "due"

(* A call of the main loop's thread is answered (with the reply, or with   *)
(* the error of the timeout), or call() throws, unless the loop dispatches *)
(* no more.  That exception is real: no dispatch status function is set,   *)
(* so the error of the timeout, and a reply that a blocking call has read, *)
(* wait for the next event of the socket.                                  *)
Hears(k) ==
    at[k] # "idle" ~> answered[k] = 1 \/ at[k] = "thrown" \/ []~dispatching

(* All of them are, and the loop can do what StepsEnabled says meanwhile.  *)
MainHears == []StepsEnabled /\ \A k \in OnMain : Hears(k)

(* What "Call method (async)" promises: the callback of a call() that      *)
(* returned is called, whichever thread made it.                           *)
EveryCallAnswered ==
    \A k \in Calls :
        at[k] = "returned" /\ Over(k) => answered[k] = 1

CallState ==
    [k \in Calls |-> CASE at[k] \in {"sent", "made", "filed", "armed"} -> "asking"
                       [] at[k] = "returned" -> "accepted"
                       [] at[k] = "thrown" -> "refused"
                       [] OTHER -> "idle"]

Heard == {k \in Calls : answered[k] > 0}

Released == {k \in Calls : deletes[k] > 0}

Async == INSTANCE AsyncCall WITH state <- CallState, heard <- Heard, released <- Released

(* Whatever order the two threads come in, and whatever fails in call(),   *)
(* the callback and what it captured go the way of AsyncCall.              *)
AsyncSpec == Async!Spec
=============================================================================
