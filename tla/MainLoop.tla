------------------------------- MODULE MainLoop -------------------------------
(***************************************************************************)
(* A connection in the main loop (watch.cc, timeout.cc): the handler that  *)
(* is the data of each watch of libdbus, the timer that is the data of     *)
(* each timeout, and Context::handle_event, step by step.                  *)
(*                                                                         *)
(* This module has one action per function and per step; who attaches and  *)
(* detaches the connection, and when, is the module that extends it.       *)
(*                                                                         *)
(* Of libdbus it has the references, the filter, the socket with what has  *)
(* arrived at it, the queue of read messages, and the watches and timeouts *)
(* with their enabled flags.  Watches go, through remove_watch, when       *)
(* libdbus finds the socket closed: in dbus_watch_handle, or in a blocking *)
(* call of another thread.                                                 *)
(***************************************************************************)
EXTENDS Naturals

CONSTANTS
    Watches,   \* the watches of the socket
    Reader,    \* the one for reading
    Timeouts,  \* timeouts of libdbus (one per pending call)
    MaxQueue,  \* queue counts to here: so many messages, or more
    Null

ASSUME WatchesAssumption == Reader \in Watches /\ Null \notin Watches

ASSUME QueueAssumption == MaxQueue \in Nat \ {0}

VARIABLES
    refs,      \* references of the connection
    socket,    \* "none", "open", "closed"
    filter,    \* on_message is a filter
    arrived,   \* there is data to read
    hungup,    \* the peer has closed its end
    queue,     \* messages that are read and not dispatched
    watched,   \* the functions of watch.cc are set
    wanted,    \* wanted[w]: dbus_watch_get_enabled
    context,   \* context[w]: the Context made for the watch
    missed,    \* history: watches disabled after libdbus enabled them
    timed,     \* the functions of timeout.cc are set
    timeout,   \* timeout[t]: "none", "on", "off"
    timer,     \* timer[t]: the TimeoutContext made for the timeout
    handling,  \* the watch whose handle_event runs, or Null
    step       \* how far it is

linkVars    == <<refs, socket, filter>>
trafficVars == <<arrived, hungup, queue>>
watchVars   == <<watched, wanted, context, missed>>
timeVars    == <<timed, timeout, timer>>
eventVars   == <<handling, step>>
loopVars    == <<linkVars, trafficVars, watchVars, timeVars, eventVars>>

LoopInit ==
    /\ refs = 0 /\ socket = "none" /\ filter = FALSE
    /\ arrived = FALSE /\ hungup = FALSE /\ queue = 0
    /\ watched = FALSE /\ missed = {}
    /\ wanted  = [w \in Watches |-> w = Reader]
    /\ context = [w \in Watches |-> "none"]
    /\ timed = FALSE
    /\ timeout = [t \in Timeouts |-> "none"]
    /\ timer   = [t \in Timeouts |-> "none"]
    /\ handling = Null /\ step = "idle"

-----------------------------------------------------------------------------
(* Functions that libdbus calls *)

Live == {"enabled", "disabled"}

OnOff(b) == IF b THEN "enabled" ELSE "disabled"

(* delete of every object there is. *)
AllDeleted(f) == [x \in DOMAIN f |-> IF f[x] \in Live THEN "deleted" ELSE f[x]]

Enqueued == IF queue < MaxQueue THEN queue + 1 ELSE queue

(* Mutants: toggle_watch only disables; it deletes what it disables. *)
ToggleOff(w) ==
    /\ socket = "open" /\ refs > 0
    /\ w # Reader
    /\ wanted' = [wanted EXCEPT ![w] = ~@]
    /\ context' = IF context[w] \in Live /\ watched /\ wanted[w]
                    THEN [context EXCEPT ![w] = "disabled"]
                    ELSE context
    /\ missed' = missed \ {w}
    /\ UNCHANGED <<watched, linkVars, trafficVars, timeVars, eventVars>>

ToggleDeletes(w) ==
    /\ socket = "open" /\ refs > 0
    /\ w # Reader
    /\ wanted' = [wanted EXCEPT ![w] = ~@]
    /\ context' = IF context[w] \in Live /\ watched
                    THEN [context EXCEPT ![w] = IF wanted[w] THEN "deleted" ELSE "enabled"]
                    ELSE context
    /\ missed' = missed \ {w}
    /\ UNCHANGED <<watched, linkVars, trafficVars, timeVars, eventVars>>

(* toggle_watch, on whichever thread sends or reads.  The read watch stays *)
(* enabled: libdbus disables it for many megabytes of messages only.       *)
Toggle(w) ==
    /\ socket = "open" /\ refs > 0
    /\ w # Reader
    /\ wanted' = [wanted EXCEPT ![w] = ~@]
    /\ context' = IF context[w] \in Live /\ watched
                    THEN [context EXCEPT ![w] = OnOff(~wanted[w])]
                    ELSE context
    /\ missed' = missed \ {w}
    /\ UNCHANGED <<watched, linkVars, trafficVars, timeVars, eventVars>>

(* add_timeout: the timer is made enabled, as the timeout is. *)
AddTimeout(t) ==
    /\ socket = "open" /\ refs > 0
    /\ timeout[t] = "none"
    /\ timeout' = [timeout EXCEPT ![t] = "on"]
    /\ timer' = IF timed THEN [timer EXCEPT ![t] = "enabled"] ELSE timer
    /\ UNCHANGED <<timed, linkVars, trafficVars, watchVars, eventVars>>

(* toggle_timeout *)
ToggleTimeout(t) ==
    /\ refs > 0
    /\ timeout[t] # "none"
    /\ timeout' = [timeout EXCEPT ![t] = IF @ = "on" THEN "off" ELSE "on"]
    /\ timer' = IF timed THEN [timer EXCEPT ![t] = OnOff(timeout[t] = "off")] ELSE timer
    /\ UNCHANGED <<timed, linkVars, trafficVars, watchVars, eventVars>>

TimerRemoved(t) == IF timed THEN [timer EXCEPT ![t] = "deleted"] ELSE timer

(* remove_timeout: the pending call is completed or cancelled. *)
RemoveTimeout(t) ==
    /\ refs > 0
    /\ timeout[t] # "none"
    /\ timeout' = [timeout EXCEPT ![t] = "none"]
    /\ timer' = TimerRemoved(t)
    /\ UNCHANGED <<timed, linkVars, trafficVars, watchVars, eventVars>>

(* TimeoutContext::on_timer: dbus_timeout_handle queues an error as the    *)
(* reply and removes the timeout, and with it the timer that calls it.     *)
Fire(t) ==
    /\ step = "idle"
    /\ timer[t] = "enabled"
    /\ timeout' = [timeout EXCEPT ![t] = "none"]
    /\ timer' = TimerRemoved(t)
    /\ queue' = Enqueued
    /\ UNCHANGED <<timed, arrived, hungup, linkVars, watchVars, eventVars>>

(* add_watch and remove_watch, for every watch there is. *)
AddWatches == IF socket = "open" THEN [w \in Watches |-> "enabled"] ELSE context

RemoveWatches == IF watched THEN AllDeleted(context) ELSE context

(* libdbus has done with the socket: the watches go, and Disconnected is   *)
(* queued.                                                                 *)
Disconnect ==
    /\ socket' = "closed"
    /\ arrived' = FALSE
    /\ queue' = Enqueued
    /\ context' = RemoveWatches

(* Reading the socket: data first, then the end of it. *)
ReadSocket ==
    \/ /\ arrived
       /\ arrived' = FALSE
       /\ queue' = Enqueued
       /\ UNCHANGED <<socket, context>>
    \/ /\ ~arrived /\ hungup /\ socket = "open"
       /\ Disconnect
    \/ /\ ~arrived /\ ~(hungup /\ socket = "open")
       /\ UNCHANGED <<socket, context, arrived, queue>>

-----------------------------------------------------------------------------
(* The rest of the world *)

Arrive ==
    /\ socket = "open" /\ ~hungup /\ ~arrived
    /\ arrived' = TRUE
    /\ UNCHANGED <<hungup, queue, linkVars, watchVars, timeVars, eventVars>>

HangUp ==
    /\ socket = "open" /\ ~hungup
    /\ hungup' = TRUE
    /\ UNCHANGED <<arrived, queue, linkVars, watchVars, timeVars, eventVars>>

(* A blocking call of another thread reads what the main loop would have:  *)
(* messages that are no reply to it stay in the queue.                     *)
ReadByCall ==
    /\ socket = "open" /\ refs > 0
    /\ arrived \/ hungup
    /\ ReadSocket
    /\ UNCHANGED <<refs, filter, hungup, watched, wanted, missed, timeVars, eventVars>>

-----------------------------------------------------------------------------
(* Context::handle_event *)

(* It can read its own members; if not, what it does is undefined. *)
Alive == context[handling] # "deleted"

Goto(label) ==
    /\ step' = label
    /\ handling' = IF label = "idle" THEN Null ELSE handling

(* The main loop has an event for an enabled handler. *)
Poll(w) ==
    /\ step = "idle"
    /\ context[w] = "enabled"
    /\ w = Reader => arrived \/ hungup
    /\ handling' = w
    /\ step' = "check"
    /\ UNCHANGED <<linkVars, trafficVars, watchVars, timeVars>>

Check ==
    /\ step = "check" /\ Alive
    /\ Goto(IF wanted[handling] THEN "handle" ELSE "disable")
    /\ UNCHANGED <<linkVars, trafficVars, watchVars, timeVars>>

(* Another thread may have enabled the watch since Check. *)
Disable ==
    /\ step = "disable" /\ Alive
    /\ context' = [context EXCEPT ![handling] = "disabled"]
    /\ missed' = IF wanted[handling] THEN missed \union {handling} ELSE missed
    /\ Goto("idle")
    /\ UNCHANGED <<watched, wanted, linkVars, trafficVars, timeVars>>

(* dbus_watch_handle *)
Handle ==
    /\ step = "handle" /\ Alive
    /\ IF handling = Reader
         THEN ReadSocket
         ELSE UNCHANGED <<socket, context, arrived, queue>>
    /\ Goto("ref")
    /\ UNCHANGED <<refs, filter, hungup, watched, wanted, missed, timeVars>>

(* dbus_watch_handle has no memory. *)
HandleFails ==
    /\ step = "handle" /\ Alive
    /\ Goto("idle")
    /\ UNCHANGED <<linkVars, trafficVars, watchVars, timeVars>>

Ref ==
    /\ step = "ref" /\ Alive
    /\ refs' = refs + 1
    /\ Goto("dispatch")
    /\ UNCHANGED <<socket, filter, trafficVars, watchVars, timeVars>>

(* dbus_connection_unref; the last one, of a connection that was closed,   *)
(* finalises it with its filters, messages, watches and timeouts.  An open *)
(* connection stays as it is: libdbus calls that a bug of the application, *)
(* and stops the process unless it is told not to.                         *)
Unref ==
    /\ refs' = refs - 1
    /\ IF refs = 1 /\ socket = "closed"
         THEN /\ filter' = FALSE
              /\ queue' = 0
              /\ timeout' = [t \in Timeouts |-> "none"]
              /\ timer' = IF timed THEN AllDeleted(timer) ELSE timer
         ELSE UNCHANGED <<filter, queue, timeout, timer>>

(* Mutant: one message is dispatched, and no more. *)
DispatchOne ==
    /\ step = "dispatch" /\ Alive
    /\ queue > 0 /\ refs > 1
    /\ queue' = queue - 1
    /\ refs' = refs - 1
    /\ Goto("idle")
    /\ UNCHANGED <<arrived, hungup, socket, filter, watchVars, timeVars>>

Dispatch ==
    /\ step = "dispatch" /\ Alive
    /\ queue > 0
    /\ queue' = queue - 1
    /\ UNCHANGED <<arrived, hungup, linkVars, watchVars, timeVars, eventVars>>

QuitLoop ==
    /\ step = "dispatch" /\ Alive
    /\ Unref
    /\ Goto("idle")
    /\ UNCHANGED <<socket, arrived, hungup, watchVars, timed>>

Done == queue = 0 /\ QuitLoop

(* The dispatch status is NEED_MEMORY: what is queued waits for the next   *)
(* event.                                                                  *)
NoMemory == queue > 0 /\ QuitLoop

-----------------------------------------------------------------------------

(* What handle_event goes on with. *)
EventStep == Check \/ Disable \/ Handle \/ HandleFails \/ Ref \/ Dispatch \/ Done \/ NoMemory

(* What the main loop's thread does. *)
LoopStep == EventStep \/ (\E w \in Watches : Poll(w)) \/ (\E t \in Timeouts : Fire(t))

(* What happens on any thread, or outside of the process. *)
WorldStep ==
    \/ Arrive \/ HangUp
    \/ \E w \in Watches : Toggle(w)
    \/ \E t \in Timeouts : ToggleTimeout(t) \/ RemoveTimeout(t)

(* What callers of the connection cause. *)
CallStep == ReadByCall \/ \E t \in Timeouts : AddTimeout(t)

LoopTypeOK ==
    /\ refs \in Nat
    /\ socket \in {"none", "open", "closed"}
    /\ filter \in BOOLEAN /\ arrived \in BOOLEAN /\ hungup \in BOOLEAN
    /\ queue \in 0 .. MaxQueue
    /\ watched \in BOOLEAN /\ timed \in BOOLEAN
    /\ wanted \in [Watches -> BOOLEAN]
    /\ context \in [Watches -> {"none", "deleted"} \union Live]
    /\ missed \subseteq Watches
    /\ timeout \in [Timeouts -> {"none", "on", "off"}]
    /\ timer \in [Timeouts -> {"none", "deleted"} \union Live]
    /\ handling \in Watches \union {Null}
    /\ step \in {"idle", "check", "disable", "handle", "ref", "dispatch"}
=============================================================================
