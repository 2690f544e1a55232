--------------------------- MODULE SharedBusProofs ---------------------------
(***************************************************************************)
(* Proofs about SharedBus, for any number of threads, bus objects and      *)
(* connections, and any choice of faults.                                  *)
(*                                                                         *)
(* None of the invariants of SharedBus is inductive as it stands: whether  *)
(* the reference a thread drops is one that was counted depends on where   *)
(* each thread is.  IInv says what every position of a thread means for    *)
(* the object it works on, that the guard is held at two positions only,   *)
(* that the connection in use is connct, and what each count counts.       *)
(***************************************************************************)
EXTENDS SharedBus, FiniteSetTheorems, TLAPS

Linked(c) == link[c] \in {"up", "down"}

(* The positions at which a thread works on a bus object. *)
Building   == {"share", "open", "construct"}
Destroying == {"detach", "release"}
Working    == Building \union Destroying

Types ==
    /\ guard \in Threads \union {Null}
    /\ at  \in [Threads -> Labels]
    /\ arg \in [Threads -> Buses \union {Null}]
    /\ ptr \in [Threads -> Conns \union {Null}]
    /\ todo \subseteq Buses
    /\ connct \in Conns \union {Null}
    /\ refcount \in Int
    /\ bus  \in [Buses -> BusStates]
    /\ conn \in [Buses -> Conns \union {Null}]
    /\ link \in [Conns -> {"unused", "up", "down", "freed"}]
    /\ refs \in [Conns -> Int]
    /\ owned    \in [Conns -> BOOLEAN]
    /\ attached \in [Conns -> BOOLEAN]
    /\ filters  \in [Conns -> SUBSET Buses]

(* The guard is held by the thread in the factory, and by no other. *)
GuardInv == \A t \in Threads : guard = t <=> at[t] \in {"share", "open"}

(* What a thread has in hand at each position. *)
HandInv ==
    \A t \in Threads :
        /\ at[t] \in Working => arg[t] \in Buses
        /\ at[t] # "idle" => ptr[t] \in Conns
        /\ at[t] \in Building => bus[arg[t]] = "making"
        /\ at[t] \in {"share", "open"} =>
             conn[arg[t]] = Null /\ refcount < MaxRefcount
        /\ at[t] = "share" => ptr[t] = connct \/ link[ptr[t]] = "freed"
        /\ at[t] = "open" => connct = Null /\ link[ptr[t]] = "unused"
        /\ at[t] \in {"construct", "detach", "release"} => conn[arg[t]] = ptr[t]
        /\ at[t] = "detach" => bus[arg[t]] = "dying"
        /\ at[t] = "release" => bus[arg[t]] = "detached"
        /\ at[t] \in {"dispatch", "callback"} => t = MainThread
        /\ at[t] = "callback" => arg[t] \in Buses

(* Two threads do not work on the same object. *)
ApartInv ==
    \A t, u \in Threads :
        t # u /\ at[t] \in Working /\ at[u] \in Working => arg[t] # arg[u]

(* An object that is not there, and has not begun to be made, holds        *)
(* nothing; one that was constructed holds the one connection in use.      *)
ObjectInv ==
    \A b \in Buses :
        /\ bus[b] = "absent" => conn[b] = Null
        /\ bus[b] \in {"live", "dying", "detached"} => conn[b] # Null
        /\ conn[b] # Null => conn[b] = connct

LinkInv ==
    /\ connct # Null => Linked(connct)
    /\ \A c \in Conns : Linked(c) => c = connct
    /\ \A c \in Conns : ~Linked(c) =>
         refs[c] = 0 /\ ~owned[c] /\ ~attached[c] /\ filters[c] = {}
    /\ \A c \in Conns : Dispatching(c) => Linked(c)

(* What the two counts count. *)
RefsInv ==
    \A c \in Conns :
        /\ Accounted(c) <= refs[c]
        /\ refs[c] <= Accounted(c) + One("watch" \in Faults)
        /\ Linked(c) => refs[c] > 0

CountInv ==
    /\ Cardinality(Registered) <= refcount
    /\ Faults = {} => refcount = Cardinality(Registered)
    /\ refcount <= MaxRefcount

IInv ==
    /\ Types
    /\ GuardInv
    /\ HandInv
    /\ ApartInv
    /\ ObjectInv
    /\ LinkInv
    /\ RefsInv
    /\ CountInv
    /\ FiltersExact

-----------------------------------------------------------------------------
(* Counting *)

(* One is a number, 0 or 1. *)
LEMMA OneType == ASSUME NEW p \in BOOLEAN PROVE One(p) \in {0, 1}
  BY DEF One

(* The objects a function maps to c: Holders(c), of any such function.     *)
MappedTo(f, c) == {b \in Buses : f[b] = c}

(* Holders(c) is the set of objects that conn maps to c. *)
LEMMA HoldersMapped ==
  ASSUME NEW c
  PROVE  Holders(c) = MappedTo(conn, c) /\ Holders(c)' = MappedTo(conn', c)
  BY DEF Holders, MappedTo

(* How the count changes when one object is mapped elsewhere. *)
LEMMA CountUpdate ==
  ASSUME NEW f, NEW g, NEW b \in Buses, NEW c,
         \A a \in Buses \ {b} : g[a] = f[a]
  PROVE  Cardinality(MappedTo(g, c))
           = Cardinality(MappedTo(f, c)) + One(g[b] = c) - One(f[b] = c)
<1> DEFINE Others == {a \in Buses \ {b} : f[a] = c}
<1>1. IsFiniteSet(Others)
  BY FiniteAssumption, FS_Subset
<1>2. b \notin Others
  OBVIOUS
<1>3. MappedTo(f, c) = IF f[b] = c THEN Others \union {b} ELSE Others
  BY DEF MappedTo
<1>4. MappedTo(g, c) = IF g[b] = c THEN Others \union {b} ELSE Others
  BY DEF MappedTo
<1> HIDE DEF Others
<1>5. Cardinality(Others \union {b}) = Cardinality(Others) + 1
  BY <1>1, <1>2, FS_AddElement
<1>6. Cardinality(Others) \in Nat
  BY <1>1, FS_CardinalityType
<1> QED BY <1>3, <1>4, <1>5, <1>6 DEF One

(* No object holds a connection that none is counted for. *)
LEMMA HoldersCount ==
  ASSUME NEW f, NEW c
  PROVE  /\ Cardinality(MappedTo(f, c)) \in Nat
         /\ Cardinality(MappedTo(f, c)) <= 0 => MappedTo(f, c) = {}
<1>1. IsFiniteSet(MappedTo(f, c))
  BY FiniteAssumption, FS_Subset DEF MappedTo
<1> QED BY <1>1, FS_CardinalityType, FS_EmptySet

(* An object takes or drops a connection: what Holders counts afterwards.  *)
LEMMA HoldersUpdate ==
  ASSUME NEW b \in Buses, \A a \in Buses \ {b} : conn'[a] = conn[a]
  PROVE  \A c \in Conns :
           /\ Cardinality(Holders(c)) \in Nat
           /\ Cardinality(Holders(c)') \in Nat
           /\ Cardinality(Holders(c)')
                = Cardinality(Holders(c)) + One(conn'[b] = c) - One(conn[b] = c)
<1> TAKE c \in Conns
<1> DEFINE g == conn'
<1>1. Holders(c) = MappedTo(conn, c) /\ Holders(c)' = MappedTo(g, c)
  BY HoldersMapped
<1> HIDE DEF g
<1>2. Cardinality(MappedTo(g, c))
        = Cardinality(MappedTo(conn, c)) + One(g[b] = c) - One(conn[b] = c)
  BY CountUpdate DEF g
<1> QED BY <1>1, <1>2, HoldersCount DEF g

(* k references go, and with them k of the holds that are counted: the     *)
(* connection was referenced that often, and if it is freed nothing holds  *)
(* it.                                                                     *)
LEMMA UnrefStep ==
  ASSUME Types, RefsInv, NEW c \in Conns, NEW k \in {1, 2},
         Linked(c), Unref(c, k),
         conn' \in [Buses -> Conns \union {Null}],
         \A d \in Conns : Accounted(d) \in Int,
         \A d \in Conns : Accounted(d)' = Accounted(d) - (IF d = c THEN k ELSE 0)
  PROVE  /\ RefsInv'
         /\ refs' \in [Conns -> Int]
         /\ refs[c] = k => refs'[c] = 0
         /\ refs[c] = k => Holders(c)' = {} /\ ~owned'[c] /\ ~Dispatching(c)'
<1>1. /\ Cardinality(Holders(c)') \in Nat
      /\ Cardinality(Holders(c)') <= 0 => Holders(c)' = {}
  BY HoldersCount, HoldersMapped
<1>2. /\ One(owned'[c]) \in {0, 1}
      /\ One(Dispatching(c)') \in {0, 1}
  BY DEF One
<1>3. Accounted(c)' = Cardinality(Holders(c)') + One(owned'[c]) + One(Dispatching(c)')
  BY DEF Accounted
<1>4. Accounted(c)' >= 0
  BY <1>1, <1>2, <1>3
<1>5. Accounted(c) >= k
  BY <1>4
<1>6. /\ refs[c] \in Int
      /\ refs[c] >= k
      /\ refs' = [refs EXCEPT ![c] = @ - k]
  BY <1>5 DEF RefsInv, Types, Unref
<1>7. ASSUME refs[c] = k
      PROVE  Holders(c)' = {} /\ ~owned'[c] /\ ~Dispatching(c)'
  <2>1. Accounted(c) <= k
    BY <1>7 DEF RefsInv
  <2>2. Accounted(c)' <= 0
    BY <2>1
  <2>3. /\ Cardinality(Holders(c)') <= 0
        /\ One(owned'[c]) = 0 /\ One(Dispatching(c)') = 0
    BY <1>1, <1>2, <1>3, <2>2
  <2> QED BY <1>1, <2>3 DEF One
<1>8. RefsInv'
  <2> SUFFICES ASSUME NEW d \in Conns
               PROVE  (/\ Accounted(d) <= refs[d]
                       /\ refs[d] <= Accounted(d) + One("watch" \in Faults)
                       /\ Linked(d) => refs[d] > 0)'
    BY DEF RefsInv
  <2>1. /\ Accounted(d) <= refs[d]
        /\ refs[d] <= Accounted(d) + One("watch" \in Faults)
        /\ Linked(d) => refs[d] > 0
    BY DEF RefsInv
  <2>2. One("watch" \in Faults) \in {0, 1}
    BY DEF One
  <2>3. CASE d = c
    <3>1. Linked(c)' => refs[c] # k
      BY DEF Unref, Linked, Types
    <3> QED BY <1>5, <1>6, <2>1, <2>2, <2>3, <3>1 DEF Types
  <2>4. CASE d # c
    <3>1. Linked(d)' = Linked(d)
      BY <2>4 DEF Unref, Linked, Types
    <3> QED BY <1>6, <2>1, <2>4, <3>1 DEF Types
  <2> QED BY <2>3, <2>4
<1> QED BY <1>6, <1>7, <1>8 DEF Types

(* The objects that have not detached are finitely many. *)
LEMMA RegisteredFinite ==
  IsFiniteSet(Registered) /\ Cardinality(Registered) \in Nat
  BY FiniteAssumption, FS_Subset, FS_CardinalityType DEF Registered

(* One more object that has not detached is one more to count. *)
LEMMA RegisteredAdd ==
  ASSUME NEW b, b \notin Registered
  PROVE  /\ Cardinality(Registered \union {b}) = Cardinality(Registered) + 1
         /\ Cardinality(Registered) \in Nat
  BY RegisteredFinite, FS_AddElement

(* An object that detaches is one less to count. *)
LEMMA RegisteredRemove ==
  ASSUME NEW b \in Registered
  PROVE  /\ Cardinality(Registered \ {b}) = Cardinality(Registered) - 1
         /\ Cardinality(Registered) \in Nat
  BY RegisteredFinite, FS_RemoveElement

-----------------------------------------------------------------------------
(* The initial states *)

(* The invariant holds before any bus object is made. *)
LEMMA InitInv == Init => IInv
<1> SUFFICES ASSUME Init PROVE IInv
  OBVIOUS
<1> USE DEF Init
<1>1. Types
  BY ThreadsAssumption DEF Types, Labels, BusStates
<1>2. GuardInv /\ HandInv /\ ApartInv
  BY ThreadsAssumption
  DEF GuardInv, HandInv, ApartInv, Working, Building, Destroying
<1>3. ObjectInv /\ LinkInv /\ FiltersExact
  BY ThreadsAssumption DEF ObjectInv, LinkInv, FiltersExact, Linked, Dispatching
<1>4. RefsInv
  <2> SUFFICES ASSUME NEW c \in Conns
               PROVE  /\ Accounted(c) = 0 /\ refs[c] = 0 /\ ~Linked(c)
                      /\ One("watch" \in Faults) \in {0, 1}
    BY DEF RefsInv
  <2>1. Holders(c) = {}
    BY ThreadsAssumption DEF Holders
  <2>2. Accounted(c) = 0
    BY <2>1, ThreadsAssumption, FS_EmptySet DEF Accounted, One, Dispatching
  <2> QED BY <2>2 DEF Linked, One
<1>5. CountInv
  <2>1. Registered = {}
    BY DEF Registered
  <2> QED BY <2>1, FS_EmptySet, EnvironmentAssumption DEF CountInv
<1> QED BY <1>1, <1>2, <1>3, <1>4, <1>5 DEF IInv

-----------------------------------------------------------------------------
(* The steps of the factory *)

(* ConnectionFactory takes the guard and tests connct. *)
LEMMA FactoryEnterStep ==
  ASSUME IInv, NEW t \in Threads, NEW b \in Buses, FactoryEnter(t, b)
  PROVE  IInv'
<1> USE DEF IInv, FactoryEnter, Goto, staticVars, connVars
<1>1. Types'
  BY DEF Types, Labels, BusStates
<1>2. GuardInv' /\ ApartInv'
  <2>1. GuardInv'
    BY ThreadsAssumption DEF GuardInv, Types
  <2>2. \A u \in Threads : at[u] \in Working => arg[u] # b
    BY DEF HandInv, ObjectInv, Working, Building, Destroying, Types, GuardInv
  <2>3. ApartInv'
    BY <2>2 DEF ApartInv, Types
  <2> QED BY <2>1, <2>3
<1>3. HandInv'
  BY ThreadsAssumption DEF HandInv, GuardInv, ObjectInv, LinkInv, Types, Linked, Working, Building, Destroying
<1>4. \A c \in Conns : Dispatching(c)' = Dispatching(c)
  BY ThreadsAssumption DEF Dispatching, Types
<1>5. ObjectInv' /\ LinkInv'
  BY <1>4 DEF ObjectInv, LinkInv, Linked, Types
<1>6. FiltersExact'
  BY DEF FiltersExact, Types
<1>7. RefsInv' /\ CountInv'
  <2>1. \A c \in Conns : Accounted(c)' = Accounted(c)
    BY <1>4 DEF Accounted, Holders
  <2>2. Registered' = Registered
    BY DEF Registered, ObjectInv, Types
  <2> QED BY <2>1, <2>2 DEF RefsInv, CountInv, Linked
<1> QED BY <1>1, <1>2, <1>3, <1>5, <1>6, <1>7

(* What is counted for a connection is a natural number. *)
LEMMA AccountedType ==
  ASSUME NEW c PROVE Accounted(c) \in Int
  BY HoldersCount, HoldersMapped DEF Accounted, One

(* refcount++ and dbus_connection_ref of the shared connection. *)
LEMMA ShareStep ==
  ASSUME IInv, NEW t \in Threads, Share(t)
  PROVE  IInv'
<1> USE DEF IInv, Share, Goto
<1>1. /\ arg[t] \in Buses /\ ptr[t] \in Conns
      /\ conn[arg[t]] = Null /\ bus[arg[t]] = "making"
      /\ ptr[t] = connct /\ Linked(ptr[t])
      /\ guard = t /\ refcount < MaxRefcount
      /\ \A d \in Conns : d # Null
  BY ThreadsAssumption DEF HandInv, GuardInv, LinkInv, Working, Building, Linked
<1>2. Types'
  BY <1>1 DEF Types, Labels
<1>3. GuardInv' /\ ApartInv'
  BY <1>1, ThreadsAssumption
  DEF GuardInv, ApartInv, Types, Working, Building, Destroying
<1>4. HandInv'
  BY <1>1 DEF HandInv, ApartInv, GuardInv, Types, Working, Building, Destroying
<1>5. \A c \in Conns : Dispatching(c)' = Dispatching(c)
  BY ThreadsAssumption DEF Dispatching, Types
<1>6. ObjectInv' /\ LinkInv'
  BY <1>1, <1>5 DEF ObjectInv, LinkInv, Linked, Types
<1>7. FiltersExact'
  BY <1>1 DEF FiltersExact, Types
<1>8. RefsInv'
  <2>1. \A c \in Conns : Accounted(c)' = Accounted(c) + (IF c = ptr[t] THEN 1 ELSE 0)
    <3>1. \A c \in Conns :
            /\ Cardinality(Holders(c)) \in Nat /\ Cardinality(Holders(c)') \in Nat
            /\ Cardinality(Holders(c)') = Cardinality(Holders(c))
                 + One(ptr[t] = c) - One(conn[arg[t]] = c)
      <4>1. conn'[arg[t]] = ptr[t] /\ \A a \in Buses \ {arg[t]} : conn'[a] = conn[a]
        BY <1>1 DEF Types
      <4> QED BY <1>1, <4>1, HoldersUpdate
    <3> QED BY <1>1, <1>5, <3>1 DEF Accounted, One
  <2>2. \A c \in Conns : refs'[c] = refs[c] + (IF c = ptr[t] THEN 1 ELSE 0)
    BY DEF Types
  <2>3. One("watch" \in Faults) \in {0, 1}
    BY DEF One
  <2> QED BY <1>1, <2>1, <2>2, <2>3, AccountedType DEF RefsInv, Linked, Types
<1>9. CountInv'
  <2>1. Registered' = Registered \union {arg[t]} /\ arg[t] \notin Registered
    BY <1>1 DEF Registered, Types
  <2> QED BY <1>1, <2>1, RegisteredAdd, EnvironmentAssumption DEF CountInv, Types
<1> QED BY <1>2, <1>3, <1>4, <1>6, <1>7, <1>8, <1>9

(* dbus_bus_get fails: the factory leaves everything as it was. *)
LEMMA OpenFailsStep ==
  ASSUME IInv, NEW t \in Threads, OpenFails(t)
  PROVE  IInv'
<1> USE DEF IInv, OpenFails, Goto, staticVars, connVars
<1>1. arg[t] \in Buses /\ conn[arg[t]] = Null /\ bus[arg[t]] = "making" /\ guard = t
  BY DEF HandInv, GuardInv, Working, Building
<1>2. Types'
  BY DEF Types, Labels, BusStates
<1>3. GuardInv' /\ ApartInv'
  BY <1>1, ThreadsAssumption
  DEF GuardInv, ApartInv, Types, Working, Building, Destroying
<1>4. HandInv'
  BY <1>1 DEF HandInv, ApartInv, GuardInv, Types, Working, Building, Destroying
<1>5. \A c \in Conns : Dispatching(c)' = Dispatching(c)
  BY ThreadsAssumption DEF Dispatching, Types
<1>6. ObjectInv' /\ LinkInv'
  BY <1>1, <1>5 DEF ObjectInv, LinkInv, Linked, Types
<1>7. FiltersExact'
  BY <1>1 DEF FiltersExact, Types
<1>8. RefsInv' /\ CountInv'
  <2>1. \A c \in Conns : Accounted(c)' = Accounted(c)
    BY <1>5 DEF Accounted, Holders
  <2>2. Registered' = Registered
    BY <1>1 DEF Registered, Types
  <2> QED BY <2>1, <2>2 DEF RefsInv, CountInv, Linked
<1> QED BY <1>2, <1>3, <1>4, <1>6, <1>7, <1>8

(* What dbus_bus_get finds: no connection is linked, and nothing counts    *)
(* for the one it is going to hand out.                                    *)
LEMMA BeforeOpen ==
  ASSUME IInv, NEW t \in Threads, at[t] = "open"
  PROVE  /\ arg[t] \in Buses /\ ptr[t] \in Conns
         /\ conn[arg[t]] = Null /\ bus[arg[t]] = "making"
         /\ guard = t /\ refcount < MaxRefcount
         /\ connct = Null /\ \A c \in Conns : ~Linked(c) /\ c # Null
         /\ \A b \in Buses : conn[b] = Null
         /\ \A c \in Conns : Accounted(c) = 0 /\ ~Dispatching(c) /\ ~owned[c]
<1> USE DEF IInv
<1>1. /\ arg[t] \in Buses /\ ptr[t] \in Conns
      /\ conn[arg[t]] = Null /\ bus[arg[t]] = "making"
      /\ guard = t /\ refcount < MaxRefcount /\ connct = Null
  BY DEF HandInv, GuardInv, Working, Building
<1>2. \A c \in Conns : ~Linked(c) /\ c # Null
  BY <1>1, ThreadsAssumption DEF LinkInv
<1>3. \A b \in Buses : conn[b] = Null
  BY <1>1 DEF ObjectInv
<1>4. \A c \in Conns : ~Dispatching(c) /\ ~owned[c]
  BY <1>2 DEF LinkInv
<1>5. \A c \in Conns : Accounted(c) = 0
  <2> TAKE c \in Conns
  <2>1. Holders(c) = {}
    BY <1>2, <1>3 DEF Holders
  <2> QED BY <1>4, <2>1, FS_EmptySet DEF Accounted, One
<1> QED BY <1>1, <1>2, <1>3, <1>4, <1>5

(* mainloop_add throws: one reference is stranded, and no more. *)
LEMMA OpenUnattachedStep ==
  ASSUME IInv, NEW t \in Threads, OpenUnattached(t)
  PROVE  IInv'
<1> USE DEF IInv, OpenUnattached, BusGet, Goto
<1>1. /\ arg[t] \in Buses /\ ptr[t] \in Conns
      /\ conn[arg[t]] = Null /\ bus[arg[t]] = "making"
      /\ guard = t
      /\ connct = Null /\ \A c \in Conns : ~Linked(c) /\ c # Null
      /\ \A b \in Buses : conn[b] = Null
      /\ \A c \in Conns : Accounted(c) = 0 /\ ~Dispatching(c) /\ ~owned[c]
  BY BeforeOpen
<1>2. Types'
  BY <1>1 DEF Types, Labels, BusStates
<1>3. GuardInv' /\ ApartInv'
  BY <1>1, ThreadsAssumption
  DEF GuardInv, ApartInv, Types, Working, Building, Destroying
<1>4. HandInv'
  BY <1>1 DEF HandInv, ApartInv, GuardInv, Types, Working, Building, Destroying
<1>5. \A c \in Conns : ~Dispatching(c)'
  BY <1>1, ThreadsAssumption DEF Dispatching, Types
<1>6. ObjectInv' /\ LinkInv'
  BY <1>1, <1>5 DEF ObjectInv, LinkInv, Linked, Types
<1>7. FiltersExact'
  BY <1>1 DEF FiltersExact, Types
<1>8. RefsInv' /\ CountInv'
  <2>1. \A c \in Conns : Accounted(c)' = One(c = ptr[t])
    <3> TAKE c \in Conns
    <3>1. Holders(c)' = {}
      BY <1>1 DEF Holders
    <3> QED BY <1>1, <1>5, <3>1, FS_EmptySet DEF Accounted, One, Types
  <2>2. Registered' = Registered
    BY <1>1 DEF Registered, Types
  <2>3. \A c \in Conns : refs'[c] = IF c = ptr[t] THEN 2 ELSE 0
    BY <1>1 DEF LinkInv, Types
  <2>4. One("watch" \in Faults) = 1
    BY DEF One
  <2> QED BY <1>1, <2>1, <2>2, <2>3, <2>4 DEF RefsInv, CountInv, Linked, One, Types
<1> QED BY <1>2, <1>3, <1>4, <1>6, <1>7, <1>8

(* dbus_bus_get succeeds and the connection becomes the shared one. *)
LEMMA OpenStep ==
  ASSUME IInv, NEW t \in Threads, Open(t)
  PROVE  IInv'
<1> USE DEF IInv, Open, BusGet, Goto
<1>1. /\ arg[t] \in Buses /\ ptr[t] \in Conns
      /\ conn[arg[t]] = Null /\ bus[arg[t]] = "making"
      /\ guard = t /\ refcount < MaxRefcount
      /\ connct = Null /\ \A c \in Conns : ~Linked(c) /\ c # Null
      /\ \A b \in Buses : conn[b] = Null
      /\ \A c \in Conns : Accounted(c) = 0 /\ ~Dispatching(c) /\ ~owned[c]
  BY BeforeOpen
<1>2. Types'
  BY <1>1 DEF Types, Labels, BusStates
<1>3. GuardInv' /\ ApartInv'
  BY <1>1, ThreadsAssumption
  DEF GuardInv, ApartInv, Types, Working, Building, Destroying
<1>4. HandInv'
  BY <1>1 DEF HandInv, ApartInv, GuardInv, Types, Working, Building, Destroying
<1>5. \A c \in Conns : ~Dispatching(c)'
  BY <1>1, ThreadsAssumption DEF Dispatching, Types
<1>6. ObjectInv' /\ LinkInv'
  BY <1>1, <1>5 DEF ObjectInv, LinkInv, Linked, Types
<1>7. FiltersExact'
  BY <1>1 DEF FiltersExact, Types
<1>8. RefsInv'
  <2>1. \A c \in Conns : Accounted(c)' = IF c = ptr[t] THEN 2 ELSE 0
    <3>1. \A c \in Conns :
            /\ Cardinality(Holders(c)) \in Nat /\ Cardinality(Holders(c)') \in Nat
            /\ Cardinality(Holders(c)') = Cardinality(Holders(c))
                 + One(ptr[t] = c) - One(conn[arg[t]] = c)
      <4>1. conn'[arg[t]] = ptr[t] /\ \A a \in Buses \ {arg[t]} : conn'[a] = conn[a]
        BY <1>1 DEF Types
      <4> QED BY <1>1, <4>1, HoldersUpdate
    <3>2. \A c \in Conns : owned'[c] <=> c = ptr[t]
      BY <1>1 DEF Types
    <3>3. \A c \in Conns : Accounted(c) = Cardinality(Holders(c))
      BY <1>1, <3>1 DEF Accounted, One
    <3>4. \A c \in Conns : Accounted(c)' = Cardinality(Holders(c)') + One(c = ptr[t])
      BY <1>1, <1>5, <3>1, <3>2 DEF Accounted, One
    <3> QED BY <1>1, <3>1, <3>3, <3>4 DEF One
  <2>2. \A c \in Conns : refs'[c] = IF c = ptr[t] THEN 2 ELSE 0
    BY <1>1 DEF LinkInv, Types
  <2> QED BY <1>1, <2>1, <2>2 DEF RefsInv, Linked, One, Types
<1>9. CountInv'
  <2>1. Registered' = Registered \union {arg[t]} /\ arg[t] \notin Registered
    BY <1>1 DEF Registered, Types
  <2> QED BY <1>1, <2>1, RegisteredAdd, EnvironmentAssumption DEF CountInv, Types
<1> QED BY <1>2, <1>3, <1>4, <1>6, <1>7, <1>8, <1>9
-----------------------------------------------------------------------------
(* The steps of the constructor and the destructors *)

(* The constructor registers its filter and the object is live. *)
LEMMA ConstructStep ==
  ASSUME IInv, NEW t \in Threads, Construct(t)
  PROVE  IInv'
<1> USE DEF IInv, Construct, Goto, staticVars
<1>1. /\ arg[t] \in Buses /\ ptr[t] \in Conns
      /\ conn[arg[t]] = ptr[t] /\ bus[arg[t]] = "making"
      /\ ptr[t] = connct /\ Linked(ptr[t]) /\ ptr[t] # Null
  BY ThreadsAssumption
  DEF HandInv, ObjectInv, LinkInv, Working, Building
<1>2. Types'
  BY <1>1 DEF Types, Labels, BusStates
<1>3. GuardInv' /\ ApartInv'
  BY <1>1, ThreadsAssumption
  DEF GuardInv, ApartInv, Types, Working, Building, Destroying
<1>4. HandInv'
  BY <1>1 DEF HandInv, ApartInv, GuardInv, Types, Working, Building, Destroying
<1>5. \A c \in Conns : Dispatching(c)' = Dispatching(c)
  BY ThreadsAssumption DEF Dispatching, Types
<1>6. ObjectInv' /\ LinkInv'
  BY <1>1, <1>5 DEF ObjectInv, LinkInv, Linked, Types
<1>7. FiltersExact'
  BY <1>1 DEF FiltersExact, Types
<1>8. RefsInv' /\ CountInv'
  <2>1. \A c \in Conns : Accounted(c)' = Accounted(c)
    BY <1>5 DEF Accounted, Holders
  <2>2. Registered' = Registered
    BY <1>1 DEF Registered, Types
  <2> QED BY <2>1, <2>2 DEF RefsInv, CountInv, Linked
<1> QED BY <1>2, <1>3, <1>4, <1>6, <1>7, <1>8

(* An object drops its connection, in the failed constructor or in the     *)
(* last step of the destructor.                                            *)
LEMMA DropStep ==
  ASSUME IInv, NEW t \in Threads, NEW c \in Conns, c = ptr[t],
         at[t] \in {"construct", "release"},
         Unref(c, 1),
         conn' = [conn EXCEPT ![arg[t]] = Null],
         bus' = [bus EXCEPT ![arg[t]] = "absent"],
         Goto(t, "idle", Null, Null),
         at[t] = "construct" => Faults # {},
         UNCHANGED <<guard, todo, refcount, owned, filters>>
  PROVE  IInv'
<1> USE DEF IInv, Goto
<1>1. /\ arg[t] \in Buses
      /\ conn[arg[t]] = c /\ bus[arg[t]] \in {"making", "detached"}
      /\ at[t] = "release" => bus[arg[t]] = "detached"
      /\ c = connct /\ Linked(c) /\ \A d \in Conns : d # Null
  BY ThreadsAssumption
  DEF HandInv, ObjectInv, LinkInv, Working, Building, Destroying
<1>2. \A d \in Conns : Dispatching(d)' = Dispatching(d)
  BY ThreadsAssumption DEF Dispatching, Types
<1>3. \A d \in Conns : Accounted(d)' = Accounted(d) - (IF d = c THEN 1 ELSE 0)
  <2>1. conn'[arg[t]] = Null /\ \A a \in Buses \ {arg[t]} : conn'[a] = conn[a]
    BY <1>1 DEF Types
  <2>2. \A d \in Conns :
          /\ Cardinality(Holders(d)) \in Nat /\ Cardinality(Holders(d)') \in Nat
          /\ Cardinality(Holders(d)') = Cardinality(Holders(d))
               + One(Null = d) - One(conn[arg[t]] = d)
    BY <1>1, <2>1, HoldersUpdate
  <2> QED BY <1>1, <1>2, <2>2 DEF Accounted, One
<1>4. conn' \in [Buses -> Conns \union {Null}]
  BY DEF Types
<1>5. /\ RefsInv'
      /\ refs' \in [Conns -> Int]
      /\ refs[c] = 1 => refs'[c] = 0
      /\ refs[c] = 1 => /\ Holders(c)' = {}
                             /\ ~owned'[c] /\ ~Dispatching(c)'
  <2>1. \A d \in Conns : Accounted(d) \in Int
    BY AccountedType
  <2>2. Types /\ RefsInv /\ Linked(c) /\ 1 \in {1, 2}
    BY <1>1
  <2> QED BY <1>3, <1>4, <2>1, <2>2, UnrefStep, Zenon
<1>6. /\ link' = IF refs[c] = 1 THEN [link EXCEPT ![c] = "freed"] ELSE link
      /\ attached' = IF refs[c] = 1 THEN [attached EXCEPT ![c] = FALSE] ELSE attached
      /\ connct' = IF refs[c] = 1 THEN Null ELSE connct
      /\ refs' = [refs EXCEPT ![c] = @ - 1]
  BY DEF Unref
<1>7. Types'
  BY <1>1, <1>5, <1>6 DEF Types, Labels, BusStates
<1>8. GuardInv' /\ ApartInv'
  BY <1>1, ThreadsAssumption
  DEF GuardInv, ApartInv, Types, Working, Building, Destroying
<1>9. HandInv'
  BY <1>1, <1>6 DEF HandInv, ApartInv, GuardInv, Types, Working, Building, Destroying
<1>10. ObjectInv'
  BY <1>1, <1>5, <1>6 DEF ObjectInv, Holders, Types
<1>11. FiltersExact'
  BY <1>1 DEF FiltersExact, Types
<1>12. LinkInv'
  <2>1. ASSUME refs[c] = 1 PROVE filters[c] = {}
    <3>1. \A b \in Buses : conn[b] = c => b = arg[t]
      BY <1>5, <2>1 DEF Holders, Types
    <3> QED BY <1>1, <3>1 DEF FiltersExact
  <2>2. CASE refs[c] = 1
    BY <1>1, <1>2, <1>5, <1>6, <2>1, <2>2 DEF LinkInv, Linked, Types
  <2>3. CASE refs[c] # 1
    BY <1>1, <1>2, <1>6, <2>3 DEF LinkInv, Linked, Types
  <2> QED BY <2>2, <2>3
<1>13. CountInv'
  <2>1. CASE at[t] = "release"
    <3>1. Registered' = Registered
      BY <1>1, <2>1 DEF Registered, Types
    <3> QED BY <3>1 DEF CountInv
  <2>2. CASE at[t] = "construct"
    <3>1. Registered' = Registered \ {arg[t]} /\ arg[t] \in Registered
      BY <1>1, <2>2 DEF Registered, HandInv, Building, Types
    <3> QED BY <2>2, <3>1, RegisteredRemove DEF CountInv, Types
  <2> QED BY <2>1, <2>2
<1> QED BY <1>5, <1>7, <1>8, <1>9, <1>10, <1>11, <1>12, <1>13

(* The constructor cannot add its filter and drops its reference. *)
LEMMA ConstructFailsStep ==
  ASSUME IInv, NEW t \in Threads, ConstructFails(t)
  PROVE  IInv'
<1>1. ptr[t] \in Conns
  BY DEF IInv, HandInv, ConstructFails
<1> QED BY <1>1, DropStep DEF ConstructFails

(* ~Connection drops the object's reference. *)
LEMMA ReleaseStep ==
  ASSUME IInv, NEW t \in Threads, Release(t)
  PROVE  IInv'
<1>1. ptr[t] \in Conns
  BY DEF IInv, HandInv, Release
<1> QED BY <1>1, DropStep DEF Release

(* clear() removes the object's filter. *)
LEMMA ClearStep ==
  ASSUME IInv, NEW t \in Threads, NEW b \in Buses, Clear(t, b)
  PROVE  IInv'
<1> USE DEF IInv, Clear, Goto, staticVars
<1>1. conn[b] \in Conns /\ Linked(conn[b]) /\ conn[b] # Null
  BY DEF ObjectInv, LinkInv, Types
<1>2. Types'
  BY <1>1 DEF Types, Labels, BusStates
<1>3. \A u \in Threads : at[u] \in Working => arg[u] # b
  BY DEF HandInv, Working, Building, Destroying, Types
<1>4. GuardInv' /\ ApartInv'
  BY <1>3, ThreadsAssumption
  DEF GuardInv, ApartInv, Types, Working, Building, Destroying
<1>5. HandInv'
  BY <1>1, <1>3 DEF HandInv, GuardInv, Types, Working, Building, Destroying
<1>6. \A c \in Conns : Dispatching(c)' = Dispatching(c)
  BY ThreadsAssumption DEF Dispatching, Types
<1>7. ObjectInv' /\ LinkInv'
  BY <1>1, <1>6 DEF ObjectInv, LinkInv, Linked, Types
<1>8. FiltersExact'
  BY <1>1 DEF FiltersExact, Types
<1>9. RefsInv' /\ CountInv'
  <2>1. \A c \in Conns : Accounted(c)' = Accounted(c)
    BY <1>6 DEF Accounted, Holders
  <2>2. Registered' = Registered
    BY <1>1 DEF Registered, Types
  <2> QED BY <2>1, <2>2 DEF RefsInv, CountInv, Linked
<1> QED BY <1>2, <1>4, <1>5, <1>7, <1>8, <1>9

(* ~SystemBus counts its object off. *)
LEMMA DetachStep ==
  ASSUME IInv, NEW t \in Threads, Detach(t)
  PROVE  IInv'
<1> USE DEF IInv, Detach, Goto
<1>1. /\ arg[t] \in Buses /\ ptr[t] \in Conns
      /\ conn[arg[t]] = ptr[t] /\ bus[arg[t]] = "dying"
      /\ ptr[t] = connct /\ Linked(connct) /\ \A c \in Conns : c # Null
  BY ThreadsAssumption
  DEF HandInv, ObjectInv, LinkInv, Working, Destroying
<1>2. Types'
  BY <1>1 DEF Types, Labels, BusStates
<1>3. GuardInv' /\ ApartInv'
  BY <1>1, ThreadsAssumption
  DEF GuardInv, ApartInv, Types, Working, Building, Destroying
<1>4. HandInv'
  BY <1>1, ThreadsAssumption DEF HandInv, ApartInv, GuardInv, Types, Working, Building, Destroying
<1>5. \A c \in Conns : Dispatching(c)' = Dispatching(c)
  BY ThreadsAssumption DEF Dispatching, Types
<1>6. ObjectInv' /\ LinkInv'
  BY <1>1, <1>5 DEF ObjectInv, LinkInv, Linked, Types
<1>7. FiltersExact'
  BY <1>1 DEF FiltersExact, Types
<1>8. RefsInv'
  <2>1. \A c \in Conns : Accounted(c)' = Accounted(c)
    BY <1>5 DEF Accounted, Holders
  <2> QED BY <2>1 DEF RefsInv, Linked
<1>9. CountInv'
  <2>1. Registered' = Registered \ {arg[t]} /\ arg[t] \in Registered
    BY <1>1 DEF Registered, Types
  <2> QED BY <2>1, RegisteredRemove, EnvironmentAssumption DEF CountInv, Types
<1> QED BY <1>2, <1>3, <1>4, <1>6, <1>7, <1>8, <1>9
-----------------------------------------------------------------------------
(* The steps of the main loop *)

(* handle_event takes a reference of its own. *)
LEMMA DispatchBeginStep ==
  ASSUME IInv, NEW c \in Conns, DispatchBegin(c)
  PROVE  IInv'
<1> USE ThreadsAssumption DEF IInv, DispatchBegin, Goto, staticVars, busVars
<1>1. Linked(c) /\ \A d \in Conns : ~Dispatching(d)
  BY DEF LinkInv, Dispatching
<1>2. Types'
  BY <1>1 DEF Types, Labels, BusStates
<1>3. GuardInv' /\ ApartInv' /\ HandInv'
  BY DEF GuardInv, ApartInv, HandInv, Types, Working, Building, Destroying
<1>4. \A d \in Conns : Dispatching(d)' <=> d = c
  BY DEF Dispatching, Types
<1>5. ObjectInv' /\ LinkInv'
  BY <1>1, <1>4 DEF ObjectInv, LinkInv, Linked, Types
<1>6. FiltersExact'
  BY DEF FiltersExact
<1>7. RefsInv'
  <2>1. \A d \in Conns : Accounted(d)' = Accounted(d) + (IF d = c THEN 1 ELSE 0)
    <3> TAKE d \in Conns
    <3>1. Holders(d)' = Holders(d) /\ Cardinality(Holders(d)) \in Nat
      BY HoldersCount, HoldersMapped DEF Holders
    <3> QED BY <1>1, <1>4, <3>1 DEF Accounted, One
  <2>2. \A d \in Conns : refs'[d] = refs[d] + (IF d = c THEN 1 ELSE 0)
    BY DEF Types
  <2>3. One("watch" \in Faults) \in {0, 1}
    BY DEF One
  <2> QED BY <1>1, <2>1, <2>2, <2>3, AccountedType DEF RefsInv, Linked, Types
<1>8. CountInv'
  BY DEF CountInv, Registered
<1> QED BY <1>2, <1>3, <1>5, <1>6, <1>7, <1>8

(* libdbus calls the next filter, and on_message returns. *)
LEMMA FilterStep ==
  ASSUME IInv, DispatchFilter \/ RunFilter
  PROVE  IInv'
<1> USE ThreadsAssumption DEF IInv, staticVars, busVars, connVars
<1>1. /\ at[MainThread] \in {"dispatch", "callback"}
      /\ UNCHANGED <<guard, staticVars, busVars, connVars>>
      /\ todo' \subseteq Buses
      /\ \E b \in Buses \union {Null} :
           \/ Goto(MainThread, "callback", b, ptr[MainThread]) /\ b \in Buses
           \/ Goto(MainThread, "dispatch", b, ptr[MainThread])
  BY DEF DispatchFilter, RunFilter, Types
<1>2. Types'
  BY <1>1 DEF Types, Labels, Goto
<1>3. GuardInv' /\ ApartInv' /\ HandInv'
  BY <1>1
  DEF GuardInv, ApartInv, HandInv, Types, Working, Building, Destroying, Goto
<1>4. \A d \in Conns : Dispatching(d)' = Dispatching(d)
  BY <1>1 DEF Dispatching, Types, Goto
<1>5. ObjectInv' /\ LinkInv'
  BY <1>1, <1>4 DEF ObjectInv, LinkInv, Linked
<1>6. FiltersExact' /\ CountInv'
  BY <1>1 DEF FiltersExact, CountInv, Registered
<1>7. RefsInv'
  <2>1. \A d \in Conns : Accounted(d)' = Accounted(d)
    BY <1>1, <1>4 DEF Accounted, Holders
  <2> QED BY <1>1, <2>1 DEF RefsInv, Linked
<1> QED BY <1>2, <1>3, <1>5, <1>6, <1>7

(* The dispatch ends: its reference goes, and libdbus' own with it when    *)
(* the connection is gone.                                                 *)
LEMMA DispatchDropStep ==
  ASSUME IInv, NEW c \in Conns, c = ptr[MainThread], NEW k \in {1, 2},
         at[MainThread] = "dispatch",
         Unref(c, k),
         \/ k = 1 /\ owned' = owned
         \/ k = 2 /\ owned[c] /\ owned' = [owned EXCEPT ![c] = FALSE],
         Goto(MainThread, "idle", Null, Null),
         UNCHANGED <<guard, todo, refcount, busVars, filters>>
  PROVE  IInv'
<1> USE ThreadsAssumption DEF IInv, Goto, busVars
<1>1. Dispatching(c) /\ Linked(c) /\ c = connct /\ \A d \in Conns : d # Null
  BY DEF LinkInv, Dispatching
<1>2. \A d \in Conns : ~Dispatching(d)' /\ (Dispatching(d) <=> d = c)
  BY DEF Dispatching, Types
<1>3. \A d \in Conns : Accounted(d)' = Accounted(d) - (IF d = c THEN k ELSE 0)
  <2> TAKE d \in Conns
  <2>1. Holders(d)' = Holders(d) /\ Cardinality(Holders(d)) \in Nat
    BY HoldersCount, HoldersMapped DEF Holders
  <2>2. /\ k = 1 => (owned'[d] <=> owned[d])
        /\ k = 2 => (owned'[d] <=> owned[d] /\ d # c)
        /\ k = 2 => owned[c]
    BY DEF Types
  <2>3. Accounted(d)' = Cardinality(Holders(d)) + One(owned'[d])
    BY <1>2, <2>1 DEF Accounted, One
  <2>4. Accounted(d) = Cardinality(Holders(d)) + One(owned[d]) + One(d = c)
    BY <1>2, <2>1 DEF Accounted, One
  <2> QED BY <2>1, <2>2, <2>3, <2>4 DEF One
<1>4. /\ RefsInv'
      /\ refs' \in [Conns -> Int]
      /\ refs[c] = k => refs'[c] = 0
      /\ refs[c] = k => Holders(c)' = {} /\ ~owned'[c] /\ ~Dispatching(c)'
  <2>1. \A d \in Conns : Accounted(d) \in Int
    BY AccountedType
  <2>2. Types /\ RefsInv /\ Linked(c)
    BY <1>1
  <2>3. conn' \in [Buses -> Conns \union {Null}]
    BY DEF Types
  <2> QED BY <1>3, <2>1, <2>2, <2>3, UnrefStep, Zenon
<1>5. /\ link' = IF refs[c] = k THEN [link EXCEPT ![c] = "freed"] ELSE link
      /\ attached' = IF refs[c] = k THEN [attached EXCEPT ![c] = FALSE] ELSE attached
      /\ connct' = IF refs[c] = k THEN Null ELSE connct
      /\ refs' = [refs EXCEPT ![c] = @ - k]
  BY DEF Unref
<1>6. refs[c] = k => \A b \in Buses : conn[b] # c
  BY <1>4 DEF Holders
<1>7. Types'
  <2>1. owned' \in [Conns -> BOOLEAN]
    BY DEF Types
  <2>2. /\ link' \in [Conns -> {"unused", "up", "down", "freed"}]
        /\ attached' \in [Conns -> BOOLEAN]
        /\ connct' \in Conns \union {Null}
    BY <1>5 DEF Types
  <2> QED BY <1>4, <2>1, <2>2 DEF Types, Labels
<1>8. GuardInv' /\ ApartInv' /\ HandInv'
  BY <1>1, <1>5
  DEF GuardInv, ApartInv, HandInv, Types, Working, Building, Destroying
<1>9. ObjectInv'
  BY <1>1, <1>5, <1>6 DEF ObjectInv, Types
<1>10. FiltersExact' /\ CountInv'
  BY DEF FiltersExact, CountInv, Registered
<1>11. LinkInv'
  <2>1. refs[c] = k => filters[c] = {}
    BY <1>6 DEF FiltersExact
  <2>2. \A d \in Conns : owned'[d] => owned[d]
    BY DEF Types
  <2>3. CASE refs[c] = k
    BY <1>1, <1>2, <1>4, <1>5, <2>1, <2>2, <2>3 DEF LinkInv, Linked, Types
  <2>4. CASE refs[c] # k
    BY <1>1, <1>2, <1>5, <2>2, <2>4 DEF LinkInv, Linked, Types
  <2> QED BY <2>3, <2>4
<1> QED BY <1>4, <1>7, <1>8, <1>9, <1>10, <1>11

(* handle_event drops the reference it took. *)
LEMMA DispatchEndStep ==
  ASSUME IInv, DispatchEnd \/ DispatchDisconnected
  PROVE  IInv'
<1>1. MainThread \in Threads /\ ptr[MainThread] \in Conns
  BY ThreadsAssumption DEF IInv, HandInv, DispatchEnd, DispatchDisconnected
<1>2. CASE DispatchEnd
  BY <1>1, <1>2, DispatchDropStep DEF DispatchEnd
<1>3. CASE DispatchDisconnected
  BY <1>1, <1>3, DispatchDropStep DEF DispatchDisconnected
<1> QED BY <1>2, <1>3

(* The daemon closes the socket: no count changes. *)
LEMMA DisconnectStep ==
  ASSUME IInv, NEW c \in Conns, Disconnect(c)
  PROVE  IInv'
<1> USE DEF IInv, Disconnect, threadVars, staticVars, busVars
<1>1. Types'
  BY DEF Types
<1>2. \A d \in Conns : Linked(d)' = Linked(d) /\ (link'[d] = "freed" <=> link[d] = "freed")
                       /\ (link'[d] = "unused" <=> link[d] = "unused")
  BY DEF Linked, Types
<1>3. GuardInv' /\ ApartInv' /\ HandInv'
  BY <1>2 DEF GuardInv, ApartInv, HandInv
<1>4. ObjectInv' /\ FiltersExact' /\ CountInv'
  BY DEF ObjectInv, FiltersExact, CountInv, Registered
<1>5. \A d \in Conns : Dispatching(d)' = Dispatching(d) /\ Accounted(d)' = Accounted(d)
  BY DEF Dispatching, Accounted, Holders
<1>6. LinkInv' /\ RefsInv'
  BY <1>2, <1>5 DEF LinkInv, RefsInv, Linked, Types
<1> QED BY <1>1, <1>3, <1>4, <1>6

(* A step that changes nothing keeps the invariant. *)
LEMMA StutterStep ==
  ASSUME IInv, UNCHANGED vars
  PROVE  IInv'
<1> USE DEF IInv, vars, threadVars, staticVars, busVars, connVars
<1>1. Types' /\ GuardInv' /\ HandInv' /\ ApartInv' /\ ObjectInv' /\ FiltersExact'
  BY DEF Types, GuardInv, HandInv, ApartInv, ObjectInv, FiltersExact
<1>2. LinkInv' /\ CountInv'
  BY DEF LinkInv, CountInv, Linked, Dispatching, Registered
<1>3. RefsInv'
  BY DEF RefsInv, Linked, Dispatching, Accounted, Holders
<1> QED BY <1>1, <1>2, <1>3

-----------------------------------------------------------------------------
(* The invariant *)

(* Every step keeps the invariant. *)
LEMMA NextInv == IInv /\ [Next]_vars => IInv'
<1> SUFFICES ASSUME IInv, [Next]_vars PROVE IInv'
  OBVIOUS
<1>1. ASSUME NEW t \in Threads, NEW b \in Buses, FactoryEnter(t, b) PROVE IInv'
  BY <1>1, FactoryEnterStep
<1>2. ASSUME NEW t \in Threads, NEW b \in Buses, Clear(t, b) PROVE IInv'
  BY <1>2, ClearStep
<1>3. ASSUME NEW t \in Threads, Step(t) PROVE IInv'
  BY <1>3, ShareStep, OpenFailsStep, OpenUnattachedStep, OpenStep,
     ConstructStep, ConstructFailsStep, DetachStep, ReleaseStep DEF Step
<1>4. ASSUME NEW c \in Conns, DispatchBegin(c) \/ Disconnect(c) PROVE IInv'
  BY <1>4, DispatchBeginStep, DisconnectStep
<1>5. ASSUME Dispatch PROVE IInv'
  BY <1>5, FilterStep, DispatchEndStep DEF Dispatch
<1>6. ASSUME Halt \/ Rest \/ UNCHANGED vars PROVE IInv'
  BY <1>6, StutterStep DEF Halt, Rest
<1> QED BY <1>1, <1>2, <1>3, <1>4, <1>5, <1>6 DEF Next

(* IInv holds in every reachable state. *)
THEOREM Invariance == Spec => []IInv
<1> QED BY InitInv, NextInv, PTL DEF Spec
-----------------------------------------------------------------------------
(* What follows from it *)

(* Every variable has its type, whatever fails: refcount and the reference *)
(* counts of libdbus do not become negative.                               *)
THEOREM TypeCorrect == Spec => []TypeOK
<1>1. IInv => TypeOK
  <2> SUFFICES ASSUME IInv PROVE TypeOK
    OBVIOUS
  <2>1. refcount \in 0 .. MaxRefcount
    BY RegisteredFinite, EnvironmentAssumption DEF IInv, CountInv, Types
  <2>2. \A c \in Conns : refs[c] \in Nat
    <3> TAKE c \in Conns
    <3>1. Accounted(c) >= 0 /\ Accounted(c) \in Int
      BY HoldersCount, HoldersMapped DEF Accounted, One
    <3> QED BY <3>1 DEF IInv, RefsInv, Types
  <2>3. refs \in [Conns -> Nat]
    BY <2>2 DEF IInv, Types
  <2> QED BY <2>1, <2>3 DEF IInv, Types, TypeOK
<1> QED BY <1>1, Invariance, PTL

(* libdbus counts exactly the holds there are, and at most the reference   *)
(* that a failed mainloop_add strands besides.                             *)
THEOREM ReferencesBalanced == Spec => []RefsBalanced
<1>1. IInv => RefsBalanced
  BY DEF IInv, RefsInv, LinkInv, RefsBalanced, Linked, Types
<1> QED BY <1>1, Invariance, PTL

(* refcount covers the objects that have not detached. *)
THEOREM RefcountCorrect == Spec => []RefcountCovers
<1>1. IInv => RefcountCovers
  BY DEF IInv, CountInv, RefcountCovers
<1> QED BY <1>1, Invariance, PTL

(* All objects are on the one connection, connct, and its memory is there. *)
THEOREM SingleConnection == Spec => []OneConnection
<1>1. IInv => OneConnection
  BY DEF IInv, ObjectInv, LinkInv, OneConnection, Linked
<1> QED BY <1>1, Invariance, PTL

(* One connection at most, each of its references held by somebody, and a  *)
(* use count that covers every object with the shared bus.                 *)
THEOREM HoldCorrect == Spec => []HoldCounted
BY SingleConnection, ReferencesBalanced, RefcountCorrect, PTL DEF HoldCounted

(* on_message is a filter of a connection exactly for its live objects. *)
THEOREM FiltersCorrect == Spec => []FiltersExact
<1>1. IInv => FiltersExact
  BY DEF IInv
<1> QED BY <1>1, Invariance, PTL

-----------------------------------------------------------------------------
(* What a step may not do *)

(* A finite set that counts nothing is empty. *)
LEMMA EmptySubset ==
  ASSUME NEW S, S \subseteq Buses, Cardinality(S) <= 0
  PROVE  S = {}
<1>1. IsFiniteSet(S)
  BY FiniteAssumption, FS_Subset
<1> QED BY <1>1, FS_CardinalityType, FS_EmptySet

(* The main loop keeps the connection as long as an object is on it.       *)
THEOREM DetachCorrect == Spec => DetachKeepsOthers
<1> DEFINE Kept == \A c \in Conns : attached[c] /\ ~attached'[c] =>
                     {b \in Buses : conn'[b] = c /\ bus'[b] # "detached"} = {}
<1>1. IInv /\ IInv' /\ [Next]_vars => [Kept]_vars
  <2> SUFFICES ASSUME IInv, IInv', Next, NEW c \in Conns,
                      attached[c], ~attached'[c]
               PROVE  {b \in Buses : conn'[b] = c /\ bus'[b] # "detached"} = {}
    OBVIOUS
  <2>1. refcount' = 0 \/ link'[c] = "freed"
    <3>1. ASSUME NEW t \in Threads, Step(t) PROVE refcount' = 0 \/ link'[c] = "freed"
      <4>1. Linked(c) /\ c = connct
        BY DEF IInv, LinkInv
      <4>2. CASE Share(t) \/ OpenFails(t) \/ Construct(t)
        BY <4>2 DEF Share, OpenFails, Construct, connVars
      <4>3. CASE OpenUnattached(t) \/ Open(t)
        BY <4>1, <4>3, BeforeOpen DEF OpenUnattached, Open
      <4>4. CASE ConstructFails(t) \/ Release(t)
        BY <4>4 DEF ConstructFails, Release, Unref, IInv, Types
      <4>5. CASE Detach(t)
        BY <4>5 DEF Detach, IInv, Types
      <4> QED BY <3>1, <4>2, <4>3, <4>4, <4>5 DEF Step
    <3>2. ASSUME Dispatch PROVE link'[c] = "freed"
      BY <3>2 DEF Dispatch, DispatchFilter, RunFilter, DispatchEnd,
         DispatchDisconnected, Unref, connVars, IInv, Types
    <3>3. \A t \in Threads, b \in Buses : ~FactoryEnter(t, b) /\ ~Clear(t, b)
      BY DEF FactoryEnter, Clear, connVars
    <3>4. \A d \in Conns : ~DispatchBegin(d) /\ ~Disconnect(d)
      BY DEF DispatchBegin, Disconnect
    <3>5. ~Halt /\ ~Rest
      BY DEF Halt, Rest, vars, connVars
    <3> QED BY <3>1, <3>2, <3>3, <3>4, <3>5 DEF Next
  <2>2. CASE refcount' = 0
    <3>1. Registered' = {}
      <4> DEFINE R == Registered'
      <4>1. R \subseteq Buses /\ Cardinality(R) <= 0
        BY <2>2 DEF IInv, CountInv, Registered
      <4> HIDE DEF R
      <4>2. R = {}
        BY <4>1, EmptySubset
      <4> QED BY <4>2 DEF R
    <3> QED BY <3>1, ThreadsAssumption DEF Registered
  <2>3. CASE link'[c] = "freed"
    BY <2>3, ThreadsAssumption DEF IInv, ObjectInv, LinkInv, Linked
  <2> QED BY <2>1, <2>2, <2>3
<1>2. Spec => [][Kept]_vars
  BY <1>1, Invariance, PTL DEF Spec
<1> QED BY <1>2, PTL DEF DetachKeepsOthers
-----------------------------------------------------------------------------
(* What holds under an assumption on the program or its environment *)

(* The filters that the dispatch in progress has still to call, and the    *)
(* one it is about to call, are of live objects.                           *)
CallbackInv ==
    at[MainThread] \in {"dispatch", "callback"} =>
        /\ \A b \in todo : bus[b] = "live"
        /\ at[MainThread] = "callback" => bus[arg[MainThread]] = "live"

(* A destructor runs clear() when libdbus has picked the object's filter    *)
(* and on_message has not locked the guard yet.                            *)
ClearsPicked ==
    /\ at[MainThread] = "callback"
    /\ \E t \in Threads : Clear(t, arg[MainThread])

(* But for that, a filter that libdbus has picked stays that of a live     *)
(* object.                                                                 *)
LEMMA CallbackStep ==
  ASSUME IInv, CallbackInv, [Next]_vars, [~ClearsPicked]_vars
  PROVE  CallbackInv'
<1> USE ThreadsAssumption
<1>1. ASSUME NEW t \in Threads, Step(t) PROVE CallbackInv'
  <2>1. t # MainThread \/ at[MainThread] \notin {"dispatch", "callback"}
    BY <1>1 DEF Step, Share, OpenFails, OpenUnattached, Open, Construct,
       ConstructFails, Detach, Release
  <2>2. /\ at[t] \in Working /\ arg[t] \in Buses /\ bus[arg[t]] # "live"
        /\ at' \in [Threads -> Labels]
        /\ at'[t] \notin {"dispatch", "callback"}
        /\ \A u \in Threads \ {t} : at'[u] = at[u] /\ arg'[u] = arg[u]
        /\ todo' = todo
    BY <1>1 DEF Step, Share, OpenFails, OpenUnattached, Open, Construct,
       ConstructFails, Detach, Release, Goto, IInv, HandInv, Types, Labels,
       Working, Building, Destroying
  <2>3. \A b \in Buses : bus[b] = "live" => bus'[b] = "live"
    BY <1>1, <2>2 DEF Step, Share, OpenFails, OpenUnattached, Open, Construct,
       ConstructFails, Detach, Release, IInv, Types
  <2> QED BY <2>1, <2>2, <2>3 DEF CallbackInv, IInv, Types, HandInv
<1>2. ASSUME NEW t \in Threads, NEW b \in Buses, FactoryEnter(t, b)
      PROVE  CallbackInv'
  BY <1>2 DEF FactoryEnter, Goto, CallbackInv, IInv, Types, HandInv
<1>3. ASSUME NEW t \in Threads, NEW b \in Buses, Clear(t, b)
      PROVE  CallbackInv'
  <2>1. vars' # vars
    BY <1>3 DEF Clear, vars, busVars, IInv, Types
  <2>2. ~(at[MainThread] = "callback" /\ b = arg[MainThread])
    BY <1>3, <2>1 DEF ClearsPicked
  <2> QED BY <1>3, <2>2 DEF Clear, Goto, CallbackInv, IInv, Types
<1>4. ASSUME NEW c \in Conns, DispatchBegin(c) \/ Disconnect(c)
      PROVE  CallbackInv'
  BY <1>4 DEF DispatchBegin, Disconnect, Goto, CallbackInv, IInv, Types,
     FiltersExact, busVars, threadVars
<1>5. ASSUME Dispatch PROVE CallbackInv'
  BY <1>5 DEF Dispatch, DispatchFilter, RunFilter, DispatchEnd,
     DispatchDisconnected, Goto, CallbackInv, IInv, Types, busVars
<1>6. ASSUME Halt \/ Rest \/ UNCHANGED vars PROVE CallbackInv'
  BY <1>6 DEF Halt, Rest, vars, threadVars, busVars, CallbackInv
<1> QED BY <1>1, <1>2, <1>3, <1>4, <1>5, <1>6 DEF Next

(* Of all that threads, the daemon and failing calls do, only a clear() that *)
(* comes between libdbus' choice of a filter and the lock in on_message makes *)
(* a message reach an object that is gone: no other order of destructors,  *)
(* dispatches and constructions at the same address does.                  *)
THEOREM DeadByLateClearOnly == Spec /\ [][~ClearsPicked]_vars => []CallbackAlive
<1>1. Init => CallbackInv
  BY ThreadsAssumption DEF Init, CallbackInv
<1>2. IInv /\ CallbackInv /\ [Next]_vars /\ [~ClearsPicked]_vars => CallbackInv'
  BY CallbackStep
<1>3. CallbackInv => CallbackAlive
  BY DEF CallbackInv, CallbackAlive, UsesDeadBus, Constructed
<1> QED BY <1>1, <1>2, <1>3, Invariance, PTL DEF Spec

(* While the daemon keeps the connection, libdbus' own reference keeps its *)
(* memory.                                                                 *)
ConnectedInv ==
    \A c \in Conns : link[c] = "unused" \/ (link[c] = "up" /\ owned[c])

(* While the daemon does not close a connection, libdbus keeps its own      *)
(* reference of it.                                                         *)
LEMMA ConnectedStep ==
  ASSUME ~MayDisconnect, IInv, IInv', ConnectedInv, [Next]_vars
  PROVE  ConnectedInv'
<1> DEFINE Freed(c) == Linked(c) /\ link' = [link EXCEPT ![c] = "freed"]
<1>1. \/ \E t \in Threads : OpenUnattached(t) \/ Open(t)
      \/ UNCHANGED <<link, owned>>
      \/ UNCHANGED owned /\ \E c \in Conns : Freed(c)
  <2>1. ASSUME NEW t \in Threads, Step(t), ~OpenUnattached(t), ~Open(t)
        PROVE  \/ UNCHANGED <<link, owned>>
               \/ UNCHANGED owned /\ \E c \in Conns : Freed(c)
    BY <2>1 DEF Step, Share, OpenFails, Construct, ConstructFails, Detach,
       Release, Unref, connVars, IInv, HandInv, ObjectInv, LinkInv
  <2>2. ASSUME Dispatch
        PROVE  \/ UNCHANGED <<link, owned>>
               \/ UNCHANGED owned /\ \E c \in Conns : Freed(c)
    <3>1. at[MainThread] = "dispatch" =>
            ptr[MainThread] \in Conns /\ Linked(ptr[MainThread])
      BY ThreadsAssumption DEF IInv, HandInv, LinkInv, Dispatching
    <3> QED BY <2>2, <3>1
        DEF Dispatch, DispatchFilter, RunFilter, DispatchEnd,
            DispatchDisconnected, Unref, connVars, Linked, ConnectedInv
  <2>3. ASSUME NEW t \in Threads, NEW b \in Buses, FactoryEnter(t, b) \/ Clear(t, b)
        PROVE  UNCHANGED <<link, owned>>
    BY <2>3 DEF FactoryEnter, Clear, connVars
  <2>4. ASSUME NEW c \in Conns, DispatchBegin(c) \/ Disconnect(c)
        PROVE  UNCHANGED <<link, owned>>
    BY <2>4 DEF DispatchBegin, Disconnect
  <2>5. ASSUME Halt \/ Rest \/ UNCHANGED vars PROVE UNCHANGED <<link, owned>>
    BY <2>5 DEF Halt, Rest, vars, connVars
  <2> QED BY <2>1, <2>2, <2>3, <2>4, <2>5 DEF Next
<1>2. ASSUME NEW t \in Threads, OpenUnattached(t) \/ Open(t) PROVE ConnectedInv'
  BY <1>2 DEF OpenUnattached, Open, BusGet, ConnectedInv, IInv, Types, HandInv
<1>3. CASE UNCHANGED <<link, owned>>
  BY <1>3 DEF ConnectedInv
<1>4. CASE UNCHANGED owned /\ \E c \in Conns : Freed(c)
  <2>1. PICK c \in Conns : Freed(c)
    BY <1>4
  <2>2. ~owned[c]
    BY <1>4, <2>1 DEF IInv, LinkInv, Linked, Types
  <2> QED BY <2>1, <2>2 DEF ConnectedInv, Linked
<1> QED BY <1>1, <1>2, <1>3, <1>4

(* The factory never uses a freed connection, if the daemon never closes   *)
(* one.                                                                    *)
THEOREM ShareSafe ==
  ASSUME ~MayDisconnect
  PROVE  Spec => []SafeShare
<1>1. Init => ConnectedInv
  BY DEF Init, ConnectedInv
<1>2. IInv /\ IInv' /\ ConnectedInv /\ [Next]_vars => ConnectedInv'
  BY ConnectedStep
<1>3. IInv /\ ConnectedInv => SafeShare
  BY DEF IInv, HandInv, ConnectedInv, SafeShare, UsesFreedConnection
<1> QED BY <1>1, <1>2, <1>3, Invariance, PTL DEF Spec
-----------------------------------------------------------------------------
(* The shared buses implement SharedLease *)

Life == [c \in Conns |-> CASE link[c] = "unused" -> "unused"
                           [] link[c] = "freed"  -> "gone"
                           [] OTHER              -> "open"]

(* A connection is freed: the abstract one is closed. *)
LEMMA CloseStep ==
  ASSUME IInv, IInv', NEW c \in Conns, NEW k \in {1, 2}, Unref(c, k),
         refs[c] = k, Linked(c),
         \/ conn' = conn
         \/ \E b \in Buses : conn[b] = c /\ conn' = [conn EXCEPT ![b] = Null]
  PROVE  Lease!Close(c)
<1>1. c = connct /\ connct' = Null /\ c # Null
  BY ThreadsAssumption DEF IInv, LinkInv, Unref
<1>2. \A b \in Buses : conn'[b] # c
  BY <1>1 DEF IInv, ObjectInv
<1>3. Life[c] = "open" /\ Life' = [Life EXCEPT ![c] = "gone"]
  <2>1. link \in [Conns -> {"unused", "up", "down", "freed"}]
    BY DEF IInv, Types
  <2>2. link' = [link EXCEPT ![c] = "freed"] /\ link[c] \in {"up", "down"}
    BY DEF Unref, Linked
  <2> QED BY <2>1, <2>2 DEF Life
<1> QED BY <1>1, <1>2, <1>3 DEF Lease!Close, Lease!NoHolder, Life

(* A connection loses references but stays. *)
LEMMA KeepStep ==
  ASSUME NEW c \in Conns, NEW k \in {1, 2}, Unref(c, k), refs[c] # k
  PROVE  connct' = connct /\ link' = link
  BY DEF Unref

(* Every step of the buses is one of SharedLease, or leaves it alone. *)
LEMMA LeaseStep ==
  ASSUME IInv, IInv', [Next]_vars
  PROVE  [Lease!Next]_(Lease!vars)
<1> DEFINE Same == UNCHANGED <<connct, conn, link>>
<1>0. Same => UNCHANGED Lease!vars
  BY DEF Lease!vars
<1>1. ASSUME NEW t \in Threads, Share(t) PROVE Lease!Next
  <2>1. /\ arg[t] \in Buses /\ ptr[t] = connct
        /\ conn[arg[t]] = Null /\ connct # Null
    BY <1>1, ThreadsAssumption
    DEF Share, IInv, HandInv, Types, Working, Building
  <2>2. Lease!Take(arg[t])
    BY <1>1, <2>1 DEF Share, Lease!Take
  <2> QED BY <2>1, <2>2 DEF Lease!Next
<1>2. ASSUME NEW t \in Threads, OpenUnattached(t) \/ Open(t)
      PROVE  Lease!Next
  <2>1. PICK c \in Conns, b \in Buses :
          /\ c = ptr[t] /\ b = arg[t] /\ connct = Null
          /\ link[c] = "unused" /\ link' = [link EXCEPT ![c] = "up"]
          /\ connct' = c
    BY <1>2 DEF OpenUnattached, Open, BusGet, IInv, HandInv, Working, Building
  <2>2. Life[c] = "unused" /\ Life' = [Life EXCEPT ![c] = "open"]
    BY <2>1 DEF Life, IInv, Types
  <2>3. conn' = conn \/ conn' = [conn EXCEPT ![b] = c]
    BY <1>2, <2>1 DEF OpenUnattached, Open
  <2>4. Lease!Open(c)
    BY <2>1, <2>2, <2>3 DEF Lease!Open, Life
  <2> QED BY <2>4 DEF Lease!Next
<1>3. ASSUME NEW t \in Threads, ConstructFails(t) \/ Release(t)
      PROVE  Lease!Next
  <2>1. PICK c \in Conns, b \in Buses :
          c = ptr[t] /\ b = arg[t] /\ conn[b] = c /\ c # Null /\ Linked(c)
    BY <1>3, ThreadsAssumption
    DEF ConstructFails, Release, IInv, HandInv, ObjectInv, LinkInv,
        Working, Building, Destroying
  <2>2. Unref(c, 1) /\ conn' = [conn EXCEPT ![b] = Null]
    BY <1>3, <2>1 DEF ConstructFails, Release
  <2>3. CASE refs[c] = 1
    <3>1. Lease!Close(c)
      BY <2>1, <2>2, <2>3, CloseStep
    <3> QED BY <3>1 DEF Lease!Next
  <2>4. CASE refs[c] # 1
    <3>1. connct' = connct /\ link' = link
      BY <2>2, <2>4, KeepStep
    <3>2. Lease!Give(b)
      BY <2>1, <2>2, <3>1 DEF Lease!Give
    <3> QED BY <3>2 DEF Lease!Next
  <2> QED BY <2>3, <2>4
<1>4. ASSUME DispatchEnd \/ DispatchDisconnected
      PROVE  Same \/ Lease!Next
  <2>1. PICK c \in Conns : c = ptr[MainThread] /\ Linked(c) /\ conn' = conn
    BY <1>4, ThreadsAssumption
    DEF DispatchEnd, DispatchDisconnected, IInv, HandInv, LinkInv, Dispatching,
        busVars
  <2>2. PICK k \in {1, 2} : Unref(c, k)
    BY <1>4, <2>1 DEF DispatchEnd, DispatchDisconnected
  <2>3. CASE refs[c] = k
    <3>1. Lease!Close(c)
      BY <2>1, <2>2, <2>3, CloseStep
    <3> QED BY <3>1 DEF Lease!Next
  <2>4. CASE refs[c] # k
    BY <2>1, <2>2, <2>4, KeepStep
  <2> QED BY <2>3, <2>4
<1>5. ASSUME NEW t \in Threads, OpenFails(t) \/ Construct(t) \/ Detach(t)
      PROVE  Same
  BY <1>5 DEF OpenFails, Construct, Detach, staticVars, connVars
<1>6. ASSUME NEW t \in Threads, NEW b \in Buses, FactoryEnter(t, b) \/ Clear(t, b)
      PROVE  Same
  BY <1>6 DEF FactoryEnter, Clear, staticVars, connVars
<1>7. ASSUME NEW c \in Conns, DispatchBegin(c) PROVE Same
  BY <1>7 DEF DispatchBegin, staticVars, busVars
<1>8. ASSUME DispatchFilter \/ RunFilter PROVE Same
  BY <1>8 DEF DispatchFilter, RunFilter, staticVars, busVars, connVars
<1>9. ASSUME NEW c \in Conns, Disconnect(c) PROVE UNCHANGED Lease!vars
  <2>1. Life' = Life
    BY <1>9 DEF Disconnect, Life, IInv, Types
  <2> QED BY <1>9, <2>1 DEF Disconnect, Lease!vars, Life, staticVars, busVars
<1>10. ASSUME Halt \/ Rest \/ UNCHANGED vars PROVE Same
  BY <1>10 DEF Halt, Rest, vars, staticVars, busVars, connVars
<1>11. ASSUME NEW t \in Threads, Step(t) PROVE Same \/ Lease!Next
  BY <1>1, <1>2, <1>3, <1>5, <1>11 DEF Step
<1>12. ASSUME Dispatch PROVE Same \/ Lease!Next
  BY <1>4, <1>8, <1>12 DEF Dispatch
<1> HIDE DEF Same
<1> QED BY <1>0, <1>6, <1>7, <1>9, <1>10, <1>11, <1>12 DEF Next

(* One connection at a time, which outlives every object that holds it:    *)
(* every behaviour of the buses is one of SharedLease.                     *)
THEOREM LeaseKept == Spec => LeaseSpec
<1>1. Init => Lease!Init
  BY DEF Init, Lease!Init
<1>2. IInv /\ IInv' /\ [Next]_vars => [Lease!Next]_(Lease!vars)
  BY LeaseStep
<1> QED BY <1>1, <1>2, Invariance, PTL DEF Spec, LeaseSpec, Lease!Spec

-----------------------------------------------------------------------------
(* Why a live object is out of the main loop *)

(* A destructor takes the connection, which stays in connct, out of the    *)
(* main loop.                                                              *)
LastDetach == \E t \in Threads : Detach(t) /\ refcount = 1

AttachedInv == connct # Null => attached[connct]

(* Only the last destructor, and a mainloop_add that fails, leave connct    *)
(* outside of the main loop for the objects to come.                       *)
THEOREM DetachedByLastOnly ==
  ASSUME "watch" \notin Faults
  PROVE  Spec /\ [][~LastDetach]_vars => []BusAttached
<1>1. Init => AttachedInv
  BY DEF Init, AttachedInv
<1>2. IInv /\ IInv' /\ AttachedInv /\ [Next]_vars /\ [~LastDetach]_vars => AttachedInv'
  <2> SUFFICES ASSUME IInv, IInv', AttachedInv, [Next]_vars, [~LastDetach]_vars
               PROVE  AttachedInv'
    OBVIOUS
  <2> USE DEF AttachedInv
  <2>1. CASE UNCHANGED <<connct, attached>>
    BY <2>1
  <2>2. ASSUME NEW c \in Conns, NEW k \in {1, 2}, Unref(c, k) PROVE AttachedInv'
    BY <2>2, <2>1 DEF Unref
  <2>3. ASSUME NEW t \in Threads, Step(t) PROVE AttachedInv'
    <3>1. CASE Share(t) \/ OpenFails(t) \/ Construct(t)
      BY <2>1, <3>1 DEF Share, OpenFails, Construct, staticVars, connVars
    <3>2. ~OpenUnattached(t)
      BY DEF OpenUnattached
    <3>3. CASE Open(t)
      <4>1. ptr[t] \in Conns
        BY <3>3 DEF Open, IInv, HandInv
      <4> QED BY <3>3, <4>1 DEF Open, BusGet, IInv, Types
    <3>4. CASE ConstructFails(t) \/ Release(t)
      BY <2>2, <3>4 DEF ConstructFails, Release, IInv, HandInv
    <3>5. CASE Detach(t)
      <4>1. CASE vars' = vars
        BY <2>1, <4>1 DEF vars, staticVars, connVars
      <4>2. CASE refcount # 1
        BY <2>1, <3>5, <4>2 DEF Detach
      <4> QED BY <3>5, <4>1, <4>2 DEF LastDetach
    <3> QED BY <2>3, <3>1, <3>2, <3>3, <3>4, <3>5 DEF Step
  <2>4. CASE Dispatch
    <3>1. CASE DispatchFilter \/ RunFilter
      BY <2>1, <3>1 DEF DispatchFilter, RunFilter, staticVars, connVars
    <3>2. CASE DispatchEnd \/ DispatchDisconnected
      BY <2>2, <3>2, ThreadsAssumption DEF DispatchEnd, DispatchDisconnected, IInv, HandInv
    <3> QED BY <2>4, <3>1, <3>2 DEF Dispatch
  <2>5. CASE \E t \in Threads, b \in Buses : FactoryEnter(t, b) \/ Clear(t, b)
    BY <2>1, <2>5 DEF FactoryEnter, Clear, staticVars, connVars
  <2>6. CASE \E c \in Conns : DispatchBegin(c) \/ Disconnect(c)
    BY <2>1, <2>6 DEF DispatchBegin, Disconnect, staticVars
  <2>7. CASE Halt \/ Rest \/ UNCHANGED vars
    BY <2>1, <2>7 DEF Halt, Rest, vars, staticVars, connVars
  <2> QED BY <2>3, <2>4, <2>5, <2>6, <2>7 DEF Next
<1>3. IInv /\ AttachedInv => BusAttached
  BY DEF IInv, ObjectInv, AttachedInv, BusAttached
<1> QED BY <1>1, <1>2, <1>3, Invariance, PTL DEF Spec

-----------------------------------------------------------------------------
(* Liveness *)

(* The step that it goes on with gives the guard back.                     *)
LEMMA GuardStep ==
  ASSUME NEW t \in Threads, IInv, guard = t, Step(t)
  PROVE  guard' # t
<1>1. at[t] \in {"share", "open"} /\ t # Null
  BY ThreadsAssumption DEF IInv, GuardInv
<1>2. ~Construct(t) /\ ~ConstructFails(t) /\ ~Detach(t) /\ ~Release(t)
  BY <1>1 DEF Construct, ConstructFails, Detach, Release
<1> QED BY <1>1, <1>2 DEF Step, Share, OpenFails, OpenUnattached, Open

(* It is ready for that, unless the connection in hand is freed.           *)
LEMMA GuardReady ==
  ASSUME NEW t \in Threads, IInv, guard = t, ~Crashed
  PROVE  Ready(t)
BY DEF IInv, GuardInv, Ready, Crashed

(* Nobody is stuck, in any number of threads: whoever has the guard is in   *)
(* the factory, and there it waits for nothing.                            *)
THEOREM NobodyStuck == Spec => []StepsReady
<1>1. IInv => StepsReady
  <2> SUFFICES ASSUME IInv, ~Crashed PROVE StepsReady
    BY DEF StepsReady
  <2>1. guard # Null => CanGoOn(guard)
    BY GuardReady DEF CanGoOn, IInv, Types
  <2>2. ASSUME NEW t \in Threads, at[t] # "idle", ~CanGoOn(t)
        PROVE  guard \notin {t, Null}
    <3>1. at[t] \in {"construct", "detach", "callback"} /\ guard # Null
      BY <2>2 DEF IInv, Types, Labels, HandInv, CanGoOn, Ready, DispatchReady, Crashed
    <3> QED BY <3>1 DEF IInv, GuardInv
  <2> QED BY <2>1, <2>2 DEF StepsReady
<1> QED BY <1>1, Invariance, PTL

(* The guard is given back by each thread that takes it, under the         *)
(* fairness of FairSpec, if the steps are possible where Ready says so     *)
(* (StepsEnabled, which TLC checks with GuardReleased).                    *)
THEOREM GuardGivenBack == FairSpec /\ []StepsEnabled => GuardReleased
<1>1. ASSUME NEW t \in Threads PROVE FairSpec /\ []StepsEnabled => GivesBack(t)
  <2>1. FairSpec => Spec /\ GoesOn(t)
    BY DEF FairSpec
  <2>2. StepsEnabled => (Ready(t) => ENABLED <<Step(t)>>_vars)
    BY DEF StepsEnabled
  <2>3. IInv /\ guard = t /\ ~Crashed => Ready(t)
    BY GuardReady
  <2>4. IInv /\ guard = t /\ <<Step(t)>>_vars => (guard # t)'
    BY GuardStep
  <2>5. guard = t \/ guard # t
    OBVIOUS
  <2> QED BY <2>1, <2>2, <2>3, <2>4, <2>5, Invariance, PTL
          DEF Spec, GoesOn, GivesBack
<1> QED BY <1>1 DEF GuardReleased
=============================================================================
