------------------------------ MODULE PrivateBus ------------------------------
(***************************************************************************)
(* A private connection: DBus::NamedBus and DBus::UserBus, from the        *)
(* constructor to the destructor, over the main loop that handles its      *)
(* events meanwhile.                                                       *)
(*                                                                         *)
(* The thread that makes and destroys the object is at a label.  Between   *)
(* any two of its steps the main loop's thread takes steps of its own,     *)
(* unless the destructor was called by a callback of the main loop (nested):*)
(* then the loop waits for it.  Such a callback is one that runs without   *)
(* the guard, which clear() locks: the callback of an asynchronous call.   *)
(***************************************************************************)
EXTENDS MainLoop, EffectiveUser

CONSTANTS
    Bus,     \* the user of the UserBus
    Faults   \* what may fail, by the label of the step

ASSUME BusAssumption == Bus \in Users

ASSUME FaultsAssumption ==
    Faults \subseteq {"scan", "switch", "restore", "open", "filter", "watches",
                      "timeouts", "register", "again"}

VARIABLES
    at,      \* where the object's thread is
    user,    \* the object is a UserBus
    nested,  \* its destructor runs in a callback of the main loop
    fault    \* history: what made the constructor throw, or Null

busVars == <<at, user, nested, fault>>
vars == <<loopVars, userVars, busVars>>

Init ==
    /\ LoopInit /\ UserInit
    /\ at = "none" /\ user = FALSE /\ nested = FALSE /\ fault = Null

-----------------------------------------------------------------------------
(* One step of the object's thread: from label to label. *)

Trans(from, to) ==
    /\ at = from
    /\ at' = to
    /\ UNCHANGED <<user, nested, fault>>

Throws(from, what) ==
    /\ at = from
    /\ what \in Faults
    /\ at' = "thrown"
    /\ fault' = what
    /\ UNCHANGED <<user, nested>>

(* A connection of its own, in no main loop. *)
Connect ==
    /\ socket' = "open"
    /\ refs' = 1
    /\ UNCHANGED filter

Idle == UNCHANGED <<loopVars, userVars>>

-----------------------------------------------------------------------------
(* Opening *)

(* NamedConnectionFactory *)
OpenNamed ==
    /\ Trans("none", "opened")
    /\ Connect
    /\ UNCHANGED <<trafficVars, watchVars, timeVars, eventVars, userVars>>

(* No address, or nobody there. *)
OpenNamedFails == Throws("none", "open") /\ Idle

(* busname: look for the user's session, as the user. *)
Scan ==
    /\ at = "none"
    /\ at' = "scanning"
    /\ user' = TRUE
    /\ Enter(Bus)
    /\ UNCHANGED <<nested, fault, loopVars>>

ScanEnds == Trans("scanning", "scanned") /\ Leave(Bus) /\ UNCHANGED loopVars

(* Mutant: exec is left by an exception with its mutex locked. *)
ScanFailsLocked == Throws("scanning", "scan") /\ Idle

(* /proc is not to be read, or no process of the user has a session. *)
ScanFails == Throws("scanning", "scan") /\ Leave(Bus) /\ UNCHANGED loopVars

OpenUser == Trans("scanned", "opening") /\ Enter(Bus) /\ UNCHANGED loopVars

(* Opened, and registered with its bus. *)
OpenUserEnds ==
    /\ Trans("opening", "opened")
    /\ Leave(Bus)
    /\ Connect
    /\ UNCHANGED <<trafficVars, watchVars, timeVars, eventVars>>

OpenUserFails == Throws("opening", "open") /\ Leave(Bus) /\ UNCHANGED loopVars

(* exec cannot become the user. *)
SwitchFails ==
    /\ Throws("none", "switch") \/ Throws("scanned", "switch")
    /\ EnterFails(Bus)
    /\ UNCHANGED loopVars

(* exec cannot become itself again: it throws, and the connection that its *)
(* function has opened is nobody's.                                        *)
RestoreFails ==
    /\ LeaveStranded(Bus)
    /\ \/ Throws("scanning", "restore") /\ UNCHANGED loopVars
       \/ /\ Throws("opening", "restore")
          /\ Connect
          /\ UNCHANGED <<trafficVars, watchVars, timeVars, eventVars>>

-----------------------------------------------------------------------------
(* Constructing *)

(* Connection::Connection *)
Construct ==
    /\ Trans("opened", "filtered")
    /\ filter' = TRUE
    /\ UNCHANGED <<refs, socket, trafficVars, watchVars, timeVars, eventVars, userVars>>

(* ~Connection, and its own error path: the reference goes, and nothing else. *)
Release == Unref /\ UNCHANGED <<socket, arrived, hungup, watchVars, timed, eventVars, userVars>>

ConstructFails == Throws("opened", "filter") /\ Release

(* mainloop_add: libdbus gives the watches it has to add_watch, ... *)
AttachWatches ==
    /\ Trans("filtered", "watching")
    /\ watched' = TRUE
    /\ context' = AddWatches
    /\ UNCHANGED <<wanted, missed, linkVars, trafficVars, timeVars, eventVars, userVars>>

(* ... and its timeouts to add_timeout. *)
AttachTimeouts ==
    /\ Trans("watching", "attached")
    /\ timed' = TRUE
    /\ timer' = [t \in Timeouts |->
                   IF timeout[t] = "none" THEN timer[t] ELSE OnOff(timeout[t] = "on")]
    /\ UNCHANGED <<timeout, linkVars, trafficVars, watchVars, eventVars, userVars>>

(* mainloop_add throws in NamedBus: the base class is destroyed. *)
WatchesFail  == Throws("filtered", "watches") /\ Release
TimeoutsFail == Throws("watching", "timeouts") /\ Release

(* bus_register of NamedBus; a user's connection is registered already. *)
Register ==
    /\ at = "attached"
    /\ at' = IF user THEN "registered" ELSE "live"
    /\ UNCHANGED <<user, nested, fault>>
    /\ Idle

(* The bus refuses, or is none. *)
RegisterFails == ~user /\ Throws("attached", "register") /\ Release

(* bus_register of UserBus has nothing to do, unless it has no memory. *)
RegisterAgain == Trans("registered", "live") /\ Idle

(* dbus_connection_close: the watches go, through remove_watch if it is    *)
(* still set; the timeouts stay.                                           *)
Close == IF socket = "open" THEN Disconnect ELSE UNCHANGED <<socket, arrived, queue, context>>

(* The error path of UserBus: closed, then unref.  ~NamedBus finds no      *)
(* connection any more, and libdbus takes its null pointers for mistakes.  *)
(* Mutant: conn is kept, and ~Connection drops it once more.               *)
CloseAgain ==
    /\ at = "registered" /\ "again" \in Faults
    /\ at' = "closing"
    /\ fault' = "again"
    /\ Close
    /\ UNCHANGED <<user, nested, refs, filter, hungup, watched, wanted, missed, timeVars,
                   eventVars, userVars>>

RegisterAgainFailsTwice ==
    /\ Trans("closing", "thrown")
    /\ refs' = refs - 2
    /\ UNCHANGED <<socket, filter, trafficVars, watchVars, timeVars, eventVars, userVars>>

RegisterAgainFails ==
    /\ Trans("closing", "thrown")
    /\ Release

-----------------------------------------------------------------------------
(* Destroying *)

Clearing ==
    /\ at = "live"
    /\ at' = "cleared"
    /\ nested' \in {FALSE, step = "dispatch"}
    /\ UNCHANGED <<user, fault>>

(* Mutant: clear() forgets the filter. *)
ClearKeepsFilter == Clearing /\ Idle

Clear ==
    /\ Clearing
    /\ filter' = FALSE
    /\ UNCHANGED <<refs, socket, trafficVars, watchVars, timeVars, eventVars, userVars>>

(* mainloop_remove: remove_watch and remove_timeout for all there are. *)
Detach ==
    /\ Trans("cleared", "detached")
    /\ watched' = FALSE
    /\ context' = RemoveWatches
    /\ timed' = FALSE
    /\ timer' = AllDeleted(timer)
    /\ UNCHANGED <<wanted, missed, timeout, linkVars, trafficVars, eventVars, userVars>>

CloseBus ==
    /\ Trans("detached", "closed")
    /\ Close
    /\ UNCHANGED <<refs, filter, hungup, watched, wanted, missed, timeVars, eventVars, userVars>>

Destroy ==
    /\ at = "closed"
    /\ at' = "gone"
    /\ nested' = FALSE
    /\ UNCHANGED <<user, fault>>
    /\ Release

-----------------------------------------------------------------------------

ObjectStep ==
    \/ OpenNamed \/ OpenNamedFails
    \/ Scan \/ ScanEnds \/ ScanFails
    \/ OpenUser \/ OpenUserEnds \/ OpenUserFails
    \/ SwitchFails \/ RestoreFails
    \/ Construct \/ ConstructFails
    \/ AttachWatches \/ WatchesFail \/ AttachTimeouts \/ TimeoutsFail
    \/ Register \/ RegisterFails \/ RegisterAgain \/ CloseAgain \/ RegisterAgainFails
    \/ Clear \/ Detach \/ CloseBus \/ Destroy

(* The loop's thread is in no destructor. *)
LoopFree == ~nested

Loop(step_) == LoopFree /\ step_ /\ UNCHANGED <<userVars, busVars>>

(* Calls are made of an object that is there. *)
Called == at = "live" /\ CallStep /\ UNCHANGED <<userVars, busVars>>

World == WorldStep /\ UNCHANGED <<userVars, busVars>>

(* Other callers of exec. *)
OtherUser ==
    /\ \E u \in Users \ {Bus} :
        \/ Enter(u)
        \/ Leave(u)
        \/ "restore" \in Faults /\ LeaveStranded(u)
    /\ UNCHANGED <<loopVars, busVars>>

(* What handle_event uses is gone: undefined from here on. *)
UsesDeleted == step # "idle" /\ ~Alive

Rest == (at \in {"gone", "thrown"} \/ UsesDeleted) /\ UNCHANGED vars

Next == ObjectStep \/ Loop(LoopStep) \/ Called \/ World \/ OtherUser \/ Rest

Spec == Init /\ [][Next]_vars

(* The loop goes on with an event; it comes to a handler whose socket has  *)
(* something for it, even if another thread takes that meanwhile; memory   *)
(* does not fail for ever, neither when libdbus reads nor when it          *)
(* dispatches.                                                             *)
GoesOn == WF_vars(Loop(EventStep))

Comes == SF_vars(Loop(Poll(Reader)))

Succeeds == SF_vars(Loop(Handle))

Remembers == <>[][~Loop(NoMemory)]_vars

FairSpec == Spec /\ GoesOn /\ Comes /\ Succeeds /\ Remembers

-----------------------------------------------------------------------------
(* Properties *)

TypeOK ==
    /\ LoopTypeOK /\ UserTypeOK
    /\ at \in {"none", "scanning", "scanned", "opening", "opened", "filtered", "watching",
               "attached", "registered", "live", "cleared", "detached", "closed", "gone",
               "closing", "thrown"}
    /\ user \in BOOLEAN /\ nested \in BOOLEAN
    /\ fault \in Faults \union {Null}

(* While handle_event runs, on the main loop's thread, nobody deletes the  *)
(* context it runs in (toggles, timers, failing constructors), but for two *)
(* that do: libdbus, when it finds that the peer has hung up, and the      *)
(* destructor of the bus.                                                  *)
HandlerAlive ==
    UsesDeleted => socket = "closed" \/ at = "detached"

(* The main loop follows libdbus: while the connection is attached, each   *)
(* watch that libdbus wants is polled, unless it was toggled between the   *)
(* two lines of handle_event that find it disabled and disable it; and a   *)
(* timer runs exactly for each timeout that is on.                         *)
LoopFollows ==
    /\ \A w \in Watches :
        watched /\ socket = "open" /\ wanted[w] /\ w \notin missed =>
            context[w] = "enabled"
    /\ \A t \in Timeouts :
        /\ timer[t] = "enabled" => timeout[t] = "on"
        /\ timed /\ timeout[t] = "on" => timer[t] = "enabled"

(* The connection of an object that is no more: out of the loop, closed,   *)
(* without the object's filter, and unreferenced but by handle_event.      *)
Clean ==
    /\ socket # "open" /\ ~filter
    /\ \A w \in Watches : context[w] \notin Live
    /\ \A t \in Timeouts : timer[t] \notin Live
    /\ refs = IF step = "dispatch" THEN 1 ELSE 0

(* A destructor leaves nothing of the connection behind, and neither does  *)
(* a constructor that throws before it has opened one.  Those that throw   *)
(* later do (the filter, mainloop_add, the bus, or the id of the process   *)
(* that is not restored): they drop the reference of an open connection.   *)
(* Only the error path of UserBus closes; until the main loop drops its    *)
(* reference too, the filter of the dead object is there.                  *)
LeavesNothing ==
    /\ at = "gone" => Clean
    /\ at = "thrown" /\ fault \in {"scan", "switch", "open"} => Clean
    /\ at = "thrown" /\ fault = "again" /\ step # "dispatch" => Clean

(* Nobody waits for what never comes.  exec's mutex is held by one caller, *)
(* and by the thread of this object exactly while a function of its runs:  *)
(* not when it asks for it, and not after the function has failed.  A main *)
(* loop that waits for a destructor does so inside of dispatch, and only   *)
(* for the steps that need neither the mutex nor the loop.  An event that  *)
(* has been taken from the loop has a handler, and the connection whose    *)
(* messages it dispatches has a reference left to be dropped.              *)
StepsReady ==
    /\ Bus \in inside <=> at \in {"scanning", "opening"}
    /\ \A u, v \in inside : u = v
    /\ ~LoopFree => step = "dispatch" /\ at \in {"cleared", "detached", "closed"}
    /\ step # "idle" => handling \in Watches
    /\ step = "dispatch" => refs > 0

(* The main loop is never stuck in an event whose handler is there,        *)
(* whatever constructors, destructors and other threads do to watches and  *)
(* references meanwhile, and it is polled both for data and for the end.   *)
StepsEnabled ==
    /\ ENABLED <<Loop(EventStep)>>_vars <=> LoopFree /\ step # "idle" /\ Alive
    /\ ENABLED <<Loop(Poll(Reader))>>_vars <=>
           /\ LoopFree /\ step = "idle"
           /\ context[Reader] = "enabled"
           /\ arrived \/ hungup
    /\ ENABLED <<Loop(Handle)>>_vars <=> LoopFree /\ step = "handle" /\ Alive

(* A message that libdbus has queued is dispatched, unless the connection  *)
(* goes, or nothing arrives any more while the main loop waits for it.  That *)
(* exception is real: a message which a blocking call has read, and the    *)
(* error of a timeout, wait for the next event of a socket.  All the while *)
(* the loop can do what StepsEnabled says.                                 *)
QueueDispatched ==
    /\ []StepsEnabled
    /\ (at = "live" /\ queue > 0) ~> \/ queue = 0
                                     \/ at # "live"
                                     \/ socket # "open"
                                     \/ []~(arrived /\ step = "idle")

(* "Keep running if d-bus disconnect": when libdbus has handled the event  *)
(* of a bus object that is there, handle_event still has a context to read *)
(* the connection from.                                                    *)
KeepsRunning == at = "live" /\ step \in {"ref", "dispatch"} => Alive
=============================================================================
