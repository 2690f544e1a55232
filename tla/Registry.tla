------------------------------- MODULE Registry -------------------------------
(***************************************************************************)
(* The interfaces and members that one DBus::Connection object watches,    *)
(* and the delivery of a message to them.                                  *)
(*                                                                         *)
(* A connection keeps a list of Interface nodes, an interface a list of    *)
(* Member nodes.  The list is used under the guard mutex, the member list  *)
(* of an interface is not: subscribe() finds or inserts the interface      *)
(* under the guard (Watch) and appends the member after it let the guard   *)
(* go (Append).  The bus daemon keeps the match rules this connection      *)
(* added: a signal arrives only if its interface has a rule.               *)
(*                                                                         *)
(* Interface and member names are compared without case here (Fold), and   *)
(* with case in match rules and in remove(Interface).  The order of the    *)
(* lists is left out: no property depends on it.                           *)
(***************************************************************************)
EXTENDS Integers, FiniteSets, Functions

CONSTANTS
    Threads,     \* threads of the process
    MainThread,  \* the one that dispatches messages
    Clients,     \* the threads that subscribe and unsubscribe
    Ifaces,      \* addresses of Interface nodes
    Subs,        \* addresses of Member nodes
    Names,       \* interface names, with their case
    Topics,      \* what a member asks for: message type and member name
    Fold,        \* Fold[x]: x without case
    Null,
    Faults,      \* what may fail: "add_match", "throw" (a callback)
    MaxRules     \* the bus daemon's limit of rules for one connection

ASSUME ThreadsAssumption ==
    /\ MainThread \in Threads
    /\ Clients \subseteq Threads

ASSUME NullAssumption ==
    /\ Null \notin Threads \union Ifaces \union Subs \union Names \union Topics
    /\ Null \notin Names \X Topics

ASSUME FiniteAssumption == IsFiniteSet(Ifaces) /\ IsFiniteSet(Subs)

ASSUME DataAssumption ==
    /\ DOMAIN Fold = Names \union Topics
    /\ MaxRules \in Nat
    /\ Faults \subseteq {"add_match", "throw"}

VARIABLES
    guard,     \* the thread that holds DBus::Connection::guard, or Null
    at,        \* at[t]: the point of the code thread t has reached
    arg,       \* arg[t]: the Interface & thread t has in hand
    open,      \* the destructor has not run clear() yet
    listed,    \* nodes of std::list<Interface> interfaces
    spelling,  \* spelling[i]: the interface's name
    members,   \* members[i]: nodes of std::list<Member> members
    topic,     \* topic[s]: what the member asks for
    rules,     \* rules[n]: match rules for interface n at the bus daemon
    msg,       \* the message in delivery, or Null
    toVisit,   \* interfaces filter() has not reached
    seen,      \* members filter() has passed
    called,    \* members whose callback was called for msg
    due,       \* history: members that matched msg when it arrived
    lost,      \* members that subscribe() returned and no list has
    loose,     \* interfaces at the end of whose list a node may get lost
    failed     \* history: listed nodes whose dbus_bus_add_match failed

threadVars   == <<guard, at, arg>>
raceVars     == <<lost, loose>>
registryVars == <<open, listed, spelling, members, topic, failed, raceVars>>
walkVars     == <<msg, toVisit, seen, called, due>>
vars == <<threadVars, registryVars, rules, walkVars>>

Messages == Names \X Topics

Init ==
    /\ guard = Null
    /\ at  = [t \in Threads |-> "idle"]
    /\ arg = [t \in Threads |-> Null]
    /\ open = TRUE
    /\ listed = {}
    /\ spelling = [i \in Ifaces |-> Null]
    /\ members  = [i \in Ifaces |-> {}]
    /\ topic = [s \in Subs |-> Null]
    /\ rules = [n \in Names |-> 0]
    /\ msg = Null
    /\ toVisit = {}
    /\ seen = {}
    /\ called = {}
    /\ due = {}
    /\ lost = {} /\ loose = {}
    /\ failed = {}

-----------------------------------------------------------------------------

Same(x, y) == Fold[x] = Fold[y]

Fresh == {s \in Subs : topic[s] = Null}

Registered == UNION {members[i] : i \in listed}

Goto(t, label, i) ==
    /\ at'  = [at  EXCEPT ![t] = label]
    /\ arg' = [arg EXCEPT ![t] = i]

(* A thread that is idle takes the guard for one step. *)
Client(t) == t \in Clients /\ at[t] = "idle" /\ guard = Null /\ open

(* interfaces.emplace_back / push_back: a new node with these members. *)
NewNode(i, n, S) ==
    /\ i \in Ifaces \ listed
    /\ listed'   = listed \union {i}
    /\ spelling' = [spelling EXCEPT ![i] = n]
    /\ members'  = [members  EXCEPT ![i] = S]

(* Thread t goes on to append to the list of i. *)
AppendsTo(t, i) == at[t] = "append" /\ arg[t] = i

(* Interfaces that stay, and lose a member: where the end of the list is   *)
(* loose this may mend it, and where a thread appends it may make it loose. *)
Touched(Gone, Taken) ==
    {i \in listed \ Gone :
        /\ members[i] \intersect Taken # {}
        /\ i \in loose \/ \E t \in Threads : AppendsTo(t, i)}

(* Nodes in Gone are erased, and the members Taken with or before them. *)
Erase(Gone, Taken) ==
    /\ listed'   = listed \ Gone
    /\ spelling' = [i \in Ifaces |-> IF i \in Gone THEN Null ELSE spelling[i]]
    /\ members'  = [i \in Ifaces |-> members[i] \ Taken]
    /\ topic'    = [s \in Subs |-> IF s \in Taken THEN Null ELSE topic[s]]
    /\ failed'   = failed \ Gone
    /\ \E torn \in SUBSET Touched(Gone, Taken) :
         loose' = (loose \ (Gone \union Touched(Gone, Taken))) \union torn
    /\ UNCHANGED lost

(* insert(interface): dbus_bus_add_match, which the daemon refuses at its  *)
(* limit.                                                                  *)
AtLimit == FoldFunction(+, 0, rules) >= MaxRules

AddRule(n) ==
    /\ ~AtLimit
    /\ rules' = [rules EXCEPT ![n] = @ + 1]

-----------------------------------------------------------------------------
(* Connection::emplace_back(name), the first half of subscribe *)

(* "Already watching" *)
WatchListed(t, n) ==
    /\ Client(t)
    /\ \E i \in listed : Same(spelling[i], n) /\ Goto(t, "append", i)
    /\ UNCHANGED <<guard, registryVars, rules, walkVars>>

Watch(t, n) ==
    /\ Client(t)
    /\ \A i \in listed : ~Same(spelling[i], n)
    /\ \E i \in Ifaces : NewNode(i, n, {}) /\ Goto(t, "append", i)
    /\ AddRule(n)
    /\ UNCHANGED <<guard, open, topic, failed, raceVars, walkVars>>

(* Mutant: the failure is undone with a remove_match. *)
WatchFailsUndone(t, n) ==
    /\ AtLimit \/ "add_match" \in Faults
    /\ Client(t)
    /\ \A i \in listed : ~Same(spelling[i], n)
    /\ \E i \in Ifaces : NewNode(i, n, {}) /\ failed' = failed \union {i}
    /\ rules' = [rules EXCEPT ![n] = @ - 1]
    /\ UNCHANGED <<threadVars, open, topic, raceVars, walkVars>>

(* add_match fails: the exception leaves the node in the list. *)
WatchFails(t, n) ==
    /\ AtLimit \/ "add_match" \in Faults
    /\ Client(t)
    /\ \A i \in listed : ~Same(spelling[i], n)
    /\ \E i \in Ifaces : NewNode(i, n, {}) /\ failed' = failed \union {i}
    /\ UNCHANGED <<threadVars, open, topic, raceVars, rules, walkVars>>

(* Interface::emplace_back(member), the second half: no mutex is taken.    *)
(* Another thread that appends to the list has this one link behind a node *)
(* which is not its last any more: what is appended then, there or at the  *)
(* list's end that is left loose, no walk of the list finds.               *)
NewMember(t) ==
    /\ at[t] = "append"
    /\ \E s \in Fresh, m \in Topics : topic' = [topic EXCEPT ![s] = m]
    /\ Goto(t, "idle", Null)
    /\ UNCHANGED <<guard, open, listed, spelling, failed, rules, walkVars>>

Added == {s \in Fresh : topic'[s] # Null}

AppendRaces(t) == \E u \in Threads \ {t} : AppendsTo(u, arg[t])

Append(t) ==
    /\ NewMember(t)
    /\ arg[t] \in listed \ loose
    /\ members' = [members EXCEPT ![arg[t]] = @ \union Added]
    /\ \/ UNCHANGED loose
       \/ AppendRaces(t) /\ loose' = loose \union {arg[t]}
    /\ UNCHANGED lost

(* subscribe() returns the member, and no list has it. *)
AppendLost(t) ==
    /\ NewMember(t)
    /\ AppendRaces(t) \/ arg[t] \in loose \/ arg[t] \notin listed
    /\ lost' = lost \union Added
    /\ \/ loose' = loose \ {arg[t]}
       \/ loose' = loose \union ({arg[t]} \intersect listed)
    /\ UNCHANGED members

-----------------------------------------------------------------------------
(* The other operations, one critical section each *)

(* Mutants: the list gets the members of a listed interface, not copies;   *)
(* no rule is added for a name that is listed.                             *)
PushBackAliases(t, n) ==
    /\ Client(t)
    /\ AddRule(n)
    /\ \E i \in Ifaces, j \in listed : NewNode(i, n, members[j])
    /\ UNCHANGED <<threadVars, open, topic, failed, raceVars, walkVars>>

PushBackUnruled(t, n) ==
    /\ Client(t)
    /\ \E i \in listed : spelling[i] = n
    /\ \E i \in Ifaces : NewNode(i, n, {})
    /\ UNCHANGED <<threadVars, open, topic, rules, failed, raceVars, walkVars>>

(* push_back(Interface &): the rule first, then a copy of an interface     *)
(* without members or with one; no test for a name that is listed.  When   *)
(* add_match fails nothing has changed.                                    *)
PushBack(t, n) ==
    /\ Client(t)
    /\ AddRule(n)
    /\ \E i \in Ifaces :
         \/ NewNode(i, n, {}) /\ UNCHANGED topic
         \/ \E s \in Fresh, m \in Topics :
              NewNode(i, n, {s}) /\ topic' = [topic EXCEPT ![s] = m]
    /\ UNCHANGED <<threadVars, open, failed, raceVars, walkVars>>

(* Mutants: Interface::remove alone, without the guard; members are        *)
(* compared by name.                                                       *)
RemoveUnguarded(t, s) ==
    /\ t \in Clients /\ at[t] = "idle" /\ open
    /\ s \in Registered
    /\ Erase({}, {s})
    /\ UNCHANGED <<threadVars, open, rules, walkVars>>

RemoveByName(t, s) ==
    LET Taken == {r \in Registered : Same(topic[r], topic[s])} IN
    /\ Client(t)
    /\ s \in Registered
    /\ Erase({i \in listed : members[i] \subseteq Taken}, Taken)
    /\ UNCHANGED <<threadVars, open, rules, walkVars>>

(* remove(Member): the node goes if a list has it, and so does every       *)
(* interface that is empty then.  The match rules stay.                    *)
RemoveMember(t, s) ==
    /\ Client(t)
    /\ Erase({i \in listed : members[i] \subseteq {s}}, {s} \intersect Registered)
    /\ UNCHANGED <<threadVars, open, rules, walkVars>>

(* remove(Interface): std::list::remove of every interface with this name, *)
(* case and all.                                                           *)
RemoveInterface(t, n) ==
    LET Gone == {i \in listed : spelling[i] = n} IN
    /\ Client(t)
    /\ Gone # {}
    /\ Erase(Gone, UNION {members[i] : i \in Gone})
    /\ UNCHANGED <<threadVars, open, rules, walkVars>>

(* clear(), from the destructor: the filter is removed as well. *)
Clear(t) ==
    /\ Client(t)
    /\ open' = FALSE
    /\ Erase(listed, Registered)
    /\ UNCHANGED <<threadVars, rules, walkVars>>

-----------------------------------------------------------------------------
(* on_message: the guard is held until the last callback has returned *)

Receive(n, m) ==
    /\ at[MainThread] = "idle"
    /\ guard = Null /\ open
    /\ rules[n] > 0
    /\ guard' = MainThread
    /\ msg' = <<n, m>>
    /\ toVisit' = listed
    /\ due' = {s \in Registered : \E i \in listed :
                 s \in members[i] /\ Same(spelling[i], n) /\ Same(topic[s], m)}
    /\ Goto(MainThread, "walk", Null)
    /\ UNCHANGED <<registryVars, rules, seen, called>>

(* Connection::filter goes to the next interface *)
EnterInterface ==
    /\ at[MainThread] = "walk"
    /\ \E i \in toVisit :
         /\ toVisit' = toVisit \ {i}
         /\ IF Same(spelling[i], msg[1])
            THEN Goto(MainThread, "visit", i)
            ELSE UNCHANGED <<at, arg>>
    /\ UNCHANGED <<guard, registryVars, rules, msg, seen, called, due>>

(* Interface::filter goes to the next member *)
NextMember(s) ==
    /\ at[MainThread] = "visit"
    /\ s \in members[arg[MainThread]] \ seen

VisitMember(s) ==
    /\ NextMember(s)
    /\ seen' = seen \union {s}
    /\ called' = IF Same(topic[s], msg[2]) THEN called \union {s} ELSE called
    /\ UNCHANGED <<threadVars, registryVars, rules, msg, toVisit, due>>

(* Mutant: the first member that was called ends the interface. *)
LeaveAfterFirst ==
    /\ at[MainThread] = "visit"
    /\ members[arg[MainThread]] \subseteq seen \/ called # {}
    /\ Goto(MainThread, "walk", Null)
    /\ UNCHANGED <<guard, registryVars, rules, walkVars>>

LeaveInterface ==
    /\ at[MainThread] = "visit"
    /\ members[arg[MainThread]] \subseteq seen
    /\ Goto(MainThread, "walk", Null)
    /\ UNCHANGED <<guard, registryVars, rules, walkVars>>

WalkOver ==
    /\ guard' = Null
    /\ Goto(MainThread, "idle", Null)
    /\ msg' = Null
    /\ toVisit' = {} /\ seen' = {} /\ called' = {} /\ due' = {}
    /\ UNCHANGED <<registryVars, rules>>

WalkEnd == at[MainThread] = "walk" /\ toVisit = {} /\ WalkOver

(* Mutant: the exception leaves on_message without giving the guard back.  *)
CallThrowsLocked(s) ==
    /\ "throw" \in Faults
    /\ NextMember(s)
    /\ Same(topic[s], msg[2])
    /\ Goto(MainThread, "idle", Null)
    /\ msg' = Null
    /\ toVisit' = {} /\ seen' = {} /\ called' = {} /\ due' = {}
    /\ UNCHANGED <<guard, registryVars, rules>>

(* A callback throws: on_message catches it and goes to no other member. *)
CallThrows(s) ==
    /\ "throw" \in Faults
    /\ NextMember(s)
    /\ Same(topic[s], msg[2])
    /\ WalkOver

-----------------------------------------------------------------------------
(* Undefined behaviour: the Interface & that emplace_back returned is of a *)
(* node that another thread has erased.  That thread stops here, or goes   *)
(* on with a member that is lost.                                          *)
UsesErasedInterface(t) == at[t] = "append" /\ arg[t] \notin listed

Halt == (\E t \in Threads : UsesErasedInterface(t)) /\ UNCHANGED vars

(* No thread is inside the library, or there is no address for a node. *)
Rest ==
    /\ \A t \in Threads : at[t] = "idle" \/ (at[t] = "append" /\ Fresh = {})
    /\ UNCHANGED vars

Walk ==
    \/ EnterInterface
    \/ LeaveInterface
    \/ WalkEnd
    \/ \E s \in Subs : VisitMember(s) \/ CallThrows(s)

ClientStep(t) ==
    \/ \E s \in Subs : RemoveMember(t, s)
    \/ \E n \in Names :
         \/ WatchListed(t, n)
         \/ Watch(t, n)
         \/ WatchFails(t, n)
         \/ PushBack(t, n)
         \/ RemoveInterface(t, n)
    \/ Append(t)
    \/ AppendLost(t)
    \/ Clear(t)

Next ==
    \/ \E t \in Threads : ClientStep(t)
    \/ \E n \in Names, m \in Topics : Receive(n, m)
    \/ Walk
    \/ Halt
    \/ Rest

Spec == Init /\ [][Next]_vars

(* The main loop's thread goes on with a message it has begun to deliver. *)
FairSpec == Spec /\ WF_vars(Walk)

-----------------------------------------------------------------------------
(* Properties *)

(* Every variable has its type; the guard is only ever left locked by the  *)
(* thread that delivers, and failed nodes are listed.                      *)
TypeOK ==
    /\ guard \in {MainThread, Null}
    /\ at  \in [Threads -> {"idle", "append", "walk", "visit"}]
    /\ arg \in [Threads -> Ifaces \union {Null}]
    /\ open \in BOOLEAN
    /\ listed \subseteq Ifaces
    /\ spelling \in [Ifaces -> Names \union {Null}]
    /\ members  \in [Ifaces -> SUBSET Subs]
    /\ topic \in [Subs -> Topics \union {Null}]
    /\ rules \in [Names -> Nat]
    /\ msg \in Messages \union {Null}
    /\ toVisit \subseteq Ifaces
    /\ failed \subseteq listed
    /\ lost \subseteq Subs /\ loose \subseteq listed
    /\ seen \subseteq Subs
    /\ called \subseteq Subs
    /\ due \subseteq Subs

(* No operation leaves a member in two interfaces, or in one that is not   *)
(* listed, or listed twice under the erased name: a Member & a client got  *)
(* from subscribe is a node of exactly one listed interface until it is    *)
(* taken back, unless its append met another thread in the list (lost):    *)
(* then it is a node of none, and never becomes one.                       *)
NodesConsistent ==
    /\ \A i \in Ifaces : i \in listed <=> spelling[i] # Null
    /\ \A i \in Ifaces \ listed : members[i] = {}
    /\ \A i, j \in listed : i # j => members[i] \intersect members[j] = {}
    /\ \A s \in Subs : topic[s] # Null <=> s \in Registered \union lost
    /\ lost \intersect Registered = {}

(* filter() reaches every member that matched the message when it arrived, *)
(* whatever is appended meanwhile: with no interface left to go to, all of *)
(* them have been called.                                                  *)
DeliveryComplete ==
    at[MainThread] = "walk" /\ toVisit = {} => due \subseteq called

(* A callback in progress or over is of a member that is still registered: *)
(* remove(member) waits for the delivery, and once it returned the member  *)
(* is never called.  Nor is a member that does not match.                  *)
NoCallAfterRemove ==
    \A s \in called :
        /\ s \in Registered
        /\ Same(topic[s], msg[2])
        /\ \E i \in listed : s \in members[i] /\ Same(spelling[i], msg[1])

(* A message is delivered to those it is for, and to nobody else.          *)
DeliveryExact == DeliveryComplete /\ NoCallAfterRemove

SpelledLike(n) == {i \in listed : spelling[i] = n}

(* Every listed interface has a match rule of its own at the bus daemon,   *)
(* but those whose add_match has failed: no order of subscriptions,        *)
(* removals and failures takes a rule from an interface that had one.      *)
RuleKept ==
    \A n \in Names : Cardinality(SpelledLike(n) \ failed) <= rules[n]

(* subscribe() goes on to append its member only where a signal can arrive *)
(* from: "Already watching" (abstract.cc:296) is what it says of an        *)
(* interface it finds in the list.                                         *)
WatchedHasRule ==
    \A t \in Threads : at[t] = "append" /\ arg[t] \in listed =>
        rules[spelling[arg[t]]] > 0

(* Whoever unsubscribes takes nothing from anybody else: what is gone      *)
(* after a step is at most one member, or the members of one interface     *)
(* name, or everything because the connection is closed.                   *)
OthersKept ==
    [][LET Taken == {s \in Registered : topic'[s] = Null} IN
         \/ \A r, s \in Taken : r = s
         \/ \E n \in Names : Taken = UNION {members[i] : i \in SpelledLike(n)}
         \/ ~open']_vars

(* Wherever the main loop's thread is in a delivery it can go on: no       *)
(* removal takes an interface or a member from under the walk.             *)
WalkReady == ENABLED <<Walk>>_vars <=> at[MainThread] \in {"walk", "visit"}

(* The guard is given back: a delivery ends, with an exception or without, *)
(* and is never stuck before it does.                                      *)
WalkEnds == []WalkReady /\ (guard = MainThread ~> guard = Null)

(* The connection keeps the promise of SignalRouter to its subscribers.    *)
Matches(x, m) == Same(x[1], m[1]) /\ Same(x[2], m[2])

InterfaceOf(s) == CHOOSE i \in listed : s \in members[i]

Router == INSTANCE SignalRouter WITH
    topic <- [s \in Subs |-> IF s \in Registered
                             THEN <<spelling[InterfaceOf(s)], topic[s]>>
                             ELSE Null],
    Throws <- "throw" \in Faults

RouterSpec == Router!Spec
=============================================================================
