------------------------------ MODULE SharedBus ------------------------------
(***************************************************************************)
(* The bus connection that every SystemBus (SessionBus, StarterBus) object *)
(* of the process shares.                                                  *)
(*                                                                         *)
(* Each of system.cc, session.cc and starter.cc keeps two file statics,    *)
(* connct and refcount, and the three files differ in the name of the bus  *)
(* only; the model is of one of them.  A thread that constructs a bus runs *)
(* ConnectionFactory under the guard mutex (FactoryEnter, then Share or    *)
(* Open), then the constructor of Connection under the guard again         *)
(* (Construct).  A thread that destroys one runs clear() under the guard   *)
(* (Clear), drops refcount under the guard (Detach) and at last drops its  *)
(* libdbus reference outside of it (Release).  The main loop's thread      *)
(* dispatches what a connection received to the filters registered on it.  *)
(*                                                                         *)
(* Of libdbus the model has the reference count of a connection (libdbus   *)
(* owns one reference of a connection of dbus_bus_get until it dispatched  *)
(* the Disconnected message), the list of filters and the data slot whose  *)
(* free function clears connct when the connection is finalised.           *)
(***************************************************************************)
EXTENDS Integers, FiniteSets

CONSTANTS
    Threads,        \* threads that construct and destroy bus objects
    MainThread,     \* the one that runs the main loop and its callbacks
    Buses,          \* addresses of bus objects
    Conns,          \* the DBusConnection objects libdbus may hand out
    Null,           \* the null pointer
    Faults,         \* which library calls may fail
    MayDisconnect,  \* whether the bus daemon may close the connection
    MaxRefcount     \* bound on refcount (it leaks when a constructor fails)

ASSUME ThreadsAssumption ==
    /\ MainThread \in Threads
    /\ Null \notin Threads \union Conns \union Buses

ASSUME FiniteAssumption == IsFiniteSet(Buses)

ASSUME EnvironmentAssumption ==
    /\ Faults \subseteq {"bus_get", "watch", "filter"}
    /\ MayDisconnect \in BOOLEAN
    /\ MaxRefcount \in Nat

VARIABLES
    guard,      \* the thread that holds DBus::Connection::guard, or Null
    at,         \* at[t]: the point of the code thread t has reached
    arg,        \* arg[t]: the bus object (or filter) t is working on
    ptr,        \* ptr[t]: the connection t has in hand
    todo,       \* filters the dispatch in progress has still to call
    connct,     \* static DBusConnection *connct
    refcount,   \* static size_t refcount
    bus,        \* bus[b]: life cycle of the object at address b
    conn,       \* conn[b]: Connection::conn of that object
    link,       \* link[c]: the connection's socket and memory
    refs,       \* refs[c]: libdbus reference count
    owned,      \* owned[c]: libdbus still owns its own reference
    attached,   \* attached[c]: the main loop's watch functions are set
    filters     \* filters[c]: objects whose on_message is a filter of c

threadVars == <<guard, at, arg, ptr, todo>>
staticVars == <<connct, refcount>>
busVars    == <<bus, conn>>
connVars   == <<link, refs, owned, attached, filters>>
vars == <<threadVars, staticVars, busVars, connVars>>

Labels    == {"idle", "share", "open", "construct", "detach", "release",
              "dispatch", "callback"}
BusStates == {"absent", "making", "live", "dying", "detached"}

Init ==
    /\ guard = Null
    /\ at  = [t \in Threads |-> "idle"]
    /\ arg = [t \in Threads |-> Null]
    /\ ptr = [t \in Threads |-> Null]
    /\ todo = {}
    /\ connct = Null
    /\ refcount = 0
    /\ bus  = [b \in Buses |-> "absent"]
    /\ conn = [b \in Buses |-> Null]
    /\ link = [c \in Conns |-> "unused"]
    /\ refs = [c \in Conns |-> 0]
    /\ owned    = [c \in Conns |-> FALSE]
    /\ attached = [c \in Conns |-> FALSE]
    /\ filters  = [c \in Conns |-> {}]

-----------------------------------------------------------------------------
(* A thread's position. *)

Goto(t, label, b, c) ==
    /\ at'  = [at  EXCEPT ![t] = label]
    /\ arg' = [arg EXCEPT ![t] = b]
    /\ ptr' = [ptr EXCEPT ![t] = c]

(* dbus_connection_unref, k times: the last one finalises the connection,  *)
(* and the data slot's free function, trace_connection_free, resets connct *)
(* without taking the guard.  A factory that tests connct in the midst of  *)
(* this meets the same end as one that has tested it before.               *)
Unref(c, k) ==
    /\ refs' = [refs EXCEPT ![c] = @ - k]
    /\ IF refs[c] = k
       THEN /\ link'     = [link EXCEPT ![c] = "freed"]
            /\ attached' = [attached EXCEPT ![c] = FALSE]
            /\ connct'   = Null
       ELSE UNCHANGED <<link, attached, connct>>

-----------------------------------------------------------------------------
(* ConnectionFactory *)

(* Mutant: the factory does not take the guard. *)
FactoryEnterUnguarded(t, b) ==
    /\ at[t] = "idle"
    /\ bus[b] = "absent"
    /\ refcount < MaxRefcount
    /\ \/ connct # Null /\ Goto(t, "share", b, connct)
       \/ connct = Null /\ \E c \in Conns :
            link[c] = "unused" /\ Goto(t, "open", b, c)
    /\ guard' = t
    /\ bus' = [bus EXCEPT ![b] = "making"]
    /\ UNCHANGED <<todo, staticVars, conn, connVars>>

(* lock_guard, and the test of connct.  The bounds: refcount, and a        *)
(* connection that was never used when a new one is called for.            *)
FactoryEnter(t, b) ==
    /\ at[t] = "idle"
    /\ guard = Null
    /\ bus[b] = "absent"
    /\ refcount < MaxRefcount
    /\ \/ connct # Null /\ Goto(t, "share", b, connct)
       \/ connct = Null /\ \E c \in Conns :
            link[c] = "unused" /\ Goto(t, "open", b, c)
    /\ guard' = t
    /\ bus' = [bus EXCEPT ![b] = "making"]
    /\ UNCHANGED <<todo, staticVars, conn, connVars>>

(* Mutant: dbus_connection_ref is forgotten. *)
ShareUnreferenced(t) ==
    /\ at[t] = "share"
    /\ link[ptr[t]] # "freed"
    /\ refcount' = refcount + 1
    /\ conn' = [conn EXCEPT ![arg[t]] = ptr[t]]
    /\ guard' = Null
    /\ Goto(t, "construct", arg[t], ptr[t])
    /\ UNCHANGED <<todo, connct, bus, link, refs, owned, attached, filters>>

(* refcount++, dbus_connection_ref(connct), return connct: mainloop_add is *)
(* not called here.                                                        *)
Share(t) ==
    /\ at[t] = "share"
    /\ link[ptr[t]] # "freed"
    /\ refcount' = refcount + 1
    /\ refs' = [refs EXCEPT ![ptr[t]] = @ + 1]
    /\ conn' = [conn EXCEPT ![arg[t]] = ptr[t]]
    /\ guard' = Null
    /\ Goto(t, "construct", arg[t], ptr[t])
    /\ UNCHANGED <<todo, connct, bus, link, owned, attached, filters>>

(* Mutant: the error path keeps the guard. *)
OpenFailsLocked(t) ==
    /\ "bus_get" \in Faults
    /\ at[t] = "open"
    /\ bus' = [bus EXCEPT ![arg[t]] = "absent"]
    /\ Goto(t, "idle", Null, Null)
    /\ UNCHANGED <<guard, todo, staticVars, conn, connVars>>

(* dbus_bus_get reports an error: the factory throws. *)
OpenFails(t) ==
    /\ "bus_get" \in Faults
    /\ at[t] = "open"
    /\ guard' = Null
    /\ bus' = [bus EXCEPT ![arg[t]] = "absent"]
    /\ Goto(t, "idle", Null, Null)
    /\ UNCHANGED <<todo, staticVars, conn, connVars>>

(* dbus_bus_get succeeds: a connection with libdbus' own reference and the *)
(* caller's.                                                               *)
BusGet(c) ==
    /\ connct' = c
    /\ link'  = [link  EXCEPT ![c] = "up"]
    /\ refs'  = [refs  EXCEPT ![c] = 2]
    /\ owned' = [owned EXCEPT ![c] = TRUE]

(* mainloop_add throws, having set the watch functions or not: connct      *)
(* stays set, refcount is not raised, nobody drops the caller's reference. *)
OpenUnattached(t) ==
    /\ "watch" \in Faults
    /\ at[t] = "open"
    /\ BusGet(ptr[t])
    /\ \E set \in BOOLEAN : attached' = [attached EXCEPT ![ptr[t]] = set]
    /\ guard' = Null
    /\ bus' = [bus EXCEPT ![arg[t]] = "absent"]
    /\ Goto(t, "idle", Null, Null)
    /\ UNCHANGED <<todo, refcount, conn, filters>>

Open(t) ==
    /\ at[t] = "open"
    /\ BusGet(ptr[t])
    /\ attached' = [attached EXCEPT ![ptr[t]] = TRUE]
    /\ refcount' = refcount + 1
    /\ conn' = [conn EXCEPT ![arg[t]] = ptr[t]]
    /\ guard' = Null
    /\ Goto(t, "construct", arg[t], ptr[t])
    /\ UNCHANGED <<todo, bus, filters>>

-----------------------------------------------------------------------------
(* The constructor of Connection *)

Construct(t) ==
    /\ at[t] = "construct"
    /\ guard = Null
    /\ filters' = [filters EXCEPT ![ptr[t]] = @ \union {arg[t]}]
    /\ bus' = [bus EXCEPT ![arg[t]] = "live"]
    /\ Goto(t, "idle", Null, Null)
    /\ UNCHANGED <<guard, todo, staticVars, conn, link, refs, owned, attached>>

(* Mutant: the base class drops the reference as well. *)
ConstructFailsTwice(t) ==
    /\ "filter" \in Faults
    /\ at[t] = "construct"
    /\ guard = Null
    /\ Unref(ptr[t], 2)
    /\ conn' = [conn EXCEPT ![arg[t]] = Null]
    /\ bus' = [bus EXCEPT ![arg[t]] = "absent"]
    /\ Goto(t, "idle", Null, Null)
    /\ UNCHANGED <<guard, todo, refcount, owned, filters>>

(* dbus_connection_add_filter fails: the reference is dropped, refcount is *)
(* not.                                                                    *)
ConstructFails(t) ==
    /\ "filter" \in Faults
    /\ at[t] = "construct"
    /\ guard = Null
    /\ Unref(ptr[t], 1)
    /\ conn' = [conn EXCEPT ![arg[t]] = Null]
    /\ bus' = [bus EXCEPT ![arg[t]] = "absent"]
    /\ Goto(t, "idle", Null, Null)
    /\ UNCHANGED <<guard, todo, refcount, owned, filters>>

-----------------------------------------------------------------------------
(* The destructors: ~SystemBus, then ~Connection *)

(* Mutant: the filter is not removed. *)
ClearKeepsFilter(t, b) ==
    /\ at[t] = "idle"
    /\ guard = Null
    /\ bus[b] = "live"
    /\ bus' = [bus EXCEPT ![b] = "dying"]
    /\ Goto(t, "detach", b, conn[b])
    /\ UNCHANGED <<guard, todo, staticVars, conn, connVars>>

(* clear(): a filter that is removed is not called any more, by a dispatch *)
(* in progress either.                                                     *)
Clear(t, b) ==
    /\ at[t] = "idle"
    /\ guard = Null
    /\ bus[b] = "live"
    /\ filters' = [filters EXCEPT ![conn[b]] = @ \ {b}]
    /\ todo' = todo \ {b}
    /\ bus' = [bus EXCEPT ![b] = "dying"]
    /\ Goto(t, "detach", b, conn[b])
    /\ UNCHANGED <<guard, staticVars, conn, link, refs, owned, attached>>

(* Mutant: mainloop_remove(connct) in every destructor. *)
DetachAlways(t) ==
    /\ at[t] = "detach"
    /\ guard = Null
    /\ refcount' = refcount - 1
    /\ attached' = [attached EXCEPT ![connct] = FALSE]
    /\ bus' = [bus EXCEPT ![arg[t]] = "detached"]
    /\ Goto(t, "release", arg[t], ptr[t])
    /\ UNCHANGED <<guard, todo, connct, conn, link, refs, owned, filters>>

(* refcount--, and mainloop_remove(connct) for the last one. *)
Detach(t) ==
    /\ at[t] = "detach"
    /\ guard = Null
    /\ refcount' = refcount - 1
    /\ attached' = IF refcount = 1
                   THEN [attached EXCEPT ![connct] = FALSE]
                   ELSE attached
    /\ bus' = [bus EXCEPT ![arg[t]] = "detached"]
    /\ Goto(t, "release", arg[t], ptr[t])
    /\ UNCHANGED <<guard, todo, connct, conn, link, refs, owned, filters>>

(* ~Connection: the guard is not taken. *)
Release(t) ==
    /\ at[t] = "release"
    /\ Unref(ptr[t], 1)
    /\ conn' = [conn EXCEPT ![arg[t]] = Null]
    /\ bus' = [bus EXCEPT ![arg[t]] = "absent"]
    /\ Goto(t, "idle", Null, Null)
    /\ UNCHANGED <<guard, todo, refcount, owned, filters>>

-----------------------------------------------------------------------------
(* The main loop: handle_event takes a reference of its own and dispatches *)

DispatchBegin(c) ==
    /\ at[MainThread] = "idle"
    /\ attached[c] /\ owned[c]
    /\ refs' = [refs EXCEPT ![c] = @ + 1]
    /\ todo' = filters[c]
    /\ Goto(MainThread, "dispatch", Null, c)
    /\ UNCHANGED <<guard, staticVars, busVars, link, owned, attached, filters>>

(* libdbus takes the next filter of its copy of the list and calls         *)
(* on_message, ...                                                         *)
DispatchFilter ==
    /\ at[MainThread] = "dispatch"
    /\ \E b \in todo :
         /\ todo' = todo \ {b}
         /\ Goto(MainThread, "callback", b, ptr[MainThread])
    /\ UNCHANGED <<guard, staticVars, busVars, connVars>>

(* ... which locks the guard before it reads the object. *)
Constructed(b) == bus[b] \in {"live", "dying", "detached"}

RunFilter ==
    /\ at[MainThread] = "callback"
    /\ guard = Null
    /\ Constructed(arg[MainThread])
    /\ Goto(MainThread, "dispatch", Null, ptr[MainThread])
    /\ UNCHANGED <<guard, todo, staticVars, busVars, connVars>>

DispatchEnd ==
    /\ at[MainThread] = "dispatch"
    /\ todo = {}
    /\ Unref(ptr[MainThread], 1)
    /\ Goto(MainThread, "idle", Null, Null)
    /\ UNCHANGED <<guard, todo, refcount, busVars, owned, filters>>

(* The message was Disconnected: libdbus drops its own reference as well.  *)
DispatchDisconnected ==
    LET c == ptr[MainThread] IN
    /\ at[MainThread] = "dispatch"
    /\ todo = {}
    /\ link[c] = "down" /\ owned[c]
    /\ Unref(c, 2)
    /\ owned' = [owned EXCEPT ![c] = FALSE]
    /\ Goto(MainThread, "idle", Null, Null)
    /\ UNCHANGED <<guard, todo, refcount, busVars, filters>>

(* The daemon closes the socket. *)
Disconnect(c) ==
    /\ MayDisconnect
    /\ link[c] = "up"
    /\ link' = [link EXCEPT ![c] = "down"]
    /\ UNCHANGED <<threadVars, staticVars, busVars, refs, owned, attached,
                   filters>>

-----------------------------------------------------------------------------
(* The code uses an object that is gone: connct has become null between    *)
(* the test and its use, or is finalised meanwhile, or a filter is called  *)
(* for an object that is destroyed.  What the process does then is not     *)
(* modelled: that thread stops.                                            *)

UsesFreedConnection(t) == at[t] = "share" /\ link[ptr[t]] = "freed"

UsesDeadBus == at[MainThread] = "callback" /\ ~Constructed(arg[MainThread])

Crashed == UsesDeadBus \/ \E t \in Threads : UsesFreedConnection(t)

Halt == Crashed /\ UNCHANGED vars

(* No thread is inside the library: the only other place to stop at. *)
Rest == (\A t \in Threads : at[t] = "idle") /\ UNCHANGED vars

(* What a thread goes on with once it has begun. *)
Step(t) ==
    \/ Share(t)
    \/ OpenFails(t)
    \/ OpenUnattached(t)
    \/ Open(t)
    \/ Construct(t)
    \/ ConstructFails(t)
    \/ Detach(t)
    \/ Release(t)

Dispatch ==
    \/ DispatchFilter
    \/ RunFilter
    \/ DispatchEnd
    \/ DispatchDisconnected

Next ==
    \/ \E t \in Threads, b \in Buses : FactoryEnter(t, b) \/ Clear(t, b)
    \/ \E t \in Threads : Step(t)
    \/ \E c \in Conns : DispatchBegin(c) \/ Disconnect(c)
    \/ Dispatch
    \/ Halt
    \/ Rest

Spec == Init /\ [][Next]_vars

(* A thread inside the library goes on when it can. *)
GoesOn(t) == WF_vars(Step(t))

FairSpec == Spec /\ \A t \in Threads : GoesOn(t)

-----------------------------------------------------------------------------
(* Properties *)

(* Every variable has its type: counters do not become negative, a pointer *)
(* is null or one of the objects of its kind.                              *)
TypeOK ==
    /\ guard \in Threads \union {Null}
    /\ at  \in [Threads -> Labels]
    /\ arg \in [Threads -> Buses \union {Null}]
    /\ ptr \in [Threads -> Conns \union {Null}]
    /\ todo \subseteq Buses
    /\ connct \in Conns \union {Null}
    /\ refcount \in 0 .. MaxRefcount
    /\ bus  \in [Buses -> BusStates]
    /\ conn \in [Buses -> Conns \union {Null}]
    /\ link \in [Conns -> {"unused", "up", "down", "freed"}]
    /\ refs \in [Conns -> Nat]
    /\ owned    \in [Conns -> BOOLEAN]
    /\ attached \in [Conns -> BOOLEAN]
    /\ filters  \in [Conns -> SUBSET Buses]

Holders(c) == {b \in Buses : conn[b] = c}

Dispatching(c) == at[MainThread] \in {"dispatch", "callback"} /\ ptr[MainThread] = c

One(p) == IF p THEN 1 ELSE 0

Accounted(c) == Cardinality(Holders(c)) + One(owned[c]) + One(Dispatching(c))

(* No reference is dropped twice and none is lost but the one mainloop_add *)
(* may strand: libdbus counts exactly the objects that hold a connection,  *)
(* libdbus' own hold and the dispatch in progress.                         *)
RefsBalanced ==
    \A c \in Conns :
        /\ Accounted(c) <= refs[c]
        /\ refs[c] <= Accounted(c) + One("watch" \in Faults)
        /\ link[c] \in {"unused", "freed"} => refs[c] = 0

(* Objects that have not run refcount-- yet. *)
Registered == {b \in Buses : conn[b] # Null /\ bus[b] # "detached"}

(* The count that decides which destructor takes the connection from the   *)
(* main loop is never below the objects that still need it (a constructor  *)
(* that failed may have left it above).                                    *)
RefcountCovers ==
    /\ Cardinality(Registered) <= refcount
    /\ Faults = {} => refcount = Cardinality(Registered)

(* However constructions, destructions and disconnections interleave, all  *)
(* the objects that hold a connection hold the same one, connct, and its   *)
(* memory is there.                                                        *)
OneConnection ==
    \A b \in Buses : conn[b] # Null =>
        conn[b] = connct /\ link[connct] \in {"up", "down"}

(* The connection that objects hold is one, there, and counted, by libdbus *)
(* and by the factory, as they hold it.                                    *)
HoldCounted == OneConnection /\ RefsBalanced /\ RefcountCovers

(* on_message is registered for an object exactly while the object is      *)
(* live: never for one whose destructor or failed constructor is past it.  *)
FiltersExact ==
    \A c \in Conns :
        filters[c] = {b \in Buses : bus[b] = "live" /\ conn[b] = c}

(* ~SystemBus of one object never takes the connection from the main loop  *)
(* while another object is on it.                                          *)
DetachKeepsOthers ==
    [][\A c \in Conns : attached[c] /\ ~attached'[c] =>
         {b \in Buses : conn'[b] = c /\ bus'[b] # "detached"} = {}]_vars

(* Where a thread can go on from: it waits for nothing but the guard, not   *)
(* for that in the factory, which has it, nor for the last unref, which    *)
(* does without.                                                           *)
Ready(t) ==
    \/ at[t] = "share" /\ ~UsesFreedConnection(t)
    \/ at[t] \in {"construct", "detach"} /\ guard = Null
    \/ at[t] \in {"open", "release"}

DispatchReady ==
    \/ at[MainThread] = "dispatch"
    \/ at[MainThread] = "callback" /\ guard = Null /\ ~UsesDeadBus

CanGoOn(t) == Ready(t) \/ (t = MainThread /\ DispatchReady)

(* Nobody is stuck: a thread that is inside the library, or in a callback, *)
(* can go on, or waits for the guard; and whoever has the guard can go on, *)
(* because no path leaves with it and its holder waits for nothing.        *)
StepsReady ==
    Crashed \/
        /\ \A t \in Threads : at[t] = "idle" \/ CanGoOn(t) \/ guard \notin {t, Null}
        /\ guard # Null => CanGoOn(guard)

(* What Ready and DispatchReady say is what the steps make of it. *)
StepsEnabled ==
    /\ \A t \in Threads : ENABLED <<Step(t)>>_vars <=> Ready(t)
    /\ ENABLED <<Dispatch>>_vars <=> DispatchReady

(* The guard is free again whatever the factory met, a failed dbus_bus_get *)
(* or mainloop_add included, unless it used a freed connection.            *)
GivesBack(t) == guard = t ~> (guard # t \/ Crashed)

GuardReleased == []StepsEnabled /\ \A t \in Threads : GivesBack(t)

(* The buses keep the promise of SharedLease: one connection at a time,    *)
(* and its memory outlives every object that holds it.                     *)
Lease == INSTANCE SharedLease WITH
    current <- connct,
    holding <- conn,
    life <- [c \in Conns |-> CASE link[c] = "unused" -> "unused"
                                [] link[c] = "freed"  -> "gone"
                                [] OTHER              -> "open"]

LeaseSpec == Lease!Spec

(* "Mutex for serialization" (connection.h:68): the factory never hands    *)
(* out a connection whose memory is gone.  The last unref is outside the   *)
(* mutex, and this fails once the daemon may close the connection.         *)
SafeShare == \A t \in Threads : ~UsesFreedConnection(t)

(* A bus object that is live receives what it subscribed to: the main loop *)
(* watches its connection.                                                 *)
BusAttached ==
    \A b \in Buses : bus[b] = "live" => attached[conn[b]]

(* "Remove filter" (abstract.cc:161), under the "Mutex for serialization"  *)
(* (connection.h:68): once it is removed no message reaches the object.    *)
(* libdbus may be past its own check of the filter, though, with on_message *)
(* waiting for the mutex while another thread destroys the object.         *)
CallbackAlive == ~UsesDeadBus
=============================================================================
