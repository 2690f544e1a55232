# libudjatdbus: a TLA+ model

libudjatdbus puts D-Bus under the udjat library: connections to a bus that
objects of one process share, subscriptions to signals, method calls, a
service that exports methods, and the alerts and actions built on them. This
directory holds TLA+ modules that model its concurrent core, the
configurations that check them with TLC, and proofs for TLAPS.

Source paths below are relative to the repository.

## 1. The system

| component | source | state | operations |
|---|---|---|---|
| shared buses | `src/library/connection/{system,session,starter}.cc`, constructor, `clear` and destructor in `abstract.cc` | file statics `connct`, `refcount`; `conn` of each object; filters, watches, references and data slot in libdbus | `ConnectionFactory`, constructor, destructor |
| signal registry | `connection/abstract.cc`, `interface.cc`, `member.cc` | `interfaces`, each with its `members`; match rules at the bus daemon | `subscribe`, `emplace_back`, `push_back`, `remove` (member, interface), `clear`, `on_message`, `filter` |
| main loop integration | `connection/watch.cc`, `timeout.cc` | a `Context` or `TimeoutContext` as data of each watch and timeout | `mainloop_add`, `mainloop_remove`, `handle_event`, add / remove / toggle |
| method calls | `connection/call.cc` | pending calls with their `CallParameters` | three forms of `call`, `call_and_wait`, `get`, `dbus_call_reply` |
| private buses | `connection/named.cc`, `user.cc` | a connection of their own; effective user id of the process | constructors, destructors, `exec` |
| service | `service/main.cc`, `service/interface.cc` | connection, filter, exported interfaces | `on_message`, `call`, `start`, `stop` |
| message values | `message/message.cc` | message iterator with its `valid` flag | `pop`, `push_back`, conversions |
| actions, alerts, signals | `action.cc`, `alert.cc`, `signal.cc`, `argument.cc` | description of a message | build a message and hand it to a connection |
| exceptions, module, test program | `exception.cc`, `module.cc`, `module/init.cc`, `testprogram.cc` | none that matters here | |

How they interact. Bus objects are made and destroyed by any thread. All
objects of a bus type share one `DBusConnection`; `DBus::Connection::guard`, a
static mutex, covers `ConnectionFactory`, the constructor, `clear`, the last
part of the destructor and every delivery, each as a critical section of its
own. libdbus calls back: into `watch.cc` and `timeout.cc` when its watches
change, into `on_message` for each message and each object's filter, into
`trace_connection_free` when the last reference goes. The main loop's thread
calls `handle_event`, which dispatches.

What is hard: the guard is let go between the steps of one construction or
destruction; the last reference goes outside the guard; libdbus keeps a
reference of its own until the daemon disconnects; the subscriber's callback
runs with the guard locked; `subscribe` uses a list node after it let the guard
go; match rules live in another process; a constructor may fail in each of its
steps. `PROJECT.json` lists these hazards at their lines.

What makes each component correct: for the buses, that references and counts
are neither lost nor dropped twice, that an object is called only while it
exists and stays in the main loop while it exists; for the registry, that a
message reaches exactly the subscribers it should, that a member is never
called after it was removed, and that the daemon's rules match the list; for
the calls, one callback per call, and parameters freed once; for the main loop,
no context used after it is deleted and no message left undispatched; for
private buses, that a failed constructor leaves nothing behind; for the
service, one reply per request; for the values, no read past the last argument.

## 2. The modules

| module | what it is |
|---|---|
| `SharedBus` | the shared buses, with the part of the main loop that dispatches |
| `SharedLease` | what the buses promise: one open connection, held by the objects, that outlives every hold |
| `SharedBusProofs` | inductive invariant, theorems |
| `Registry` | interfaces, members, rules, and the delivery of a message |
| `SignalRouter` | what a connection promises its subscribers |
| `RegistryProofs` | inductive invariant, theorems |
| `PendingCall` | asynchronous method calls, from `call()` to the callback |
| `AsyncCall` | what `call()` promises its caller of a callback and of what it captured |
| `PendingCallProofs` | inductive invariant, theorems |
| `MainLoop` | the handlers and timers of a connection, and `handle_event` |
| `EffectiveUser` | `UserBus::exec`: a function runs as a user |
| `PrivateBus` | `NamedBus` and `UserBus`, over `MainLoop` and `EffectiveUser` |
| `PrivateBusProofs` | inductive invariant, theorems |
| `Values` | what a value on the wire is, and what becomes of a number |
| `ValuesProofs` | lemmas on the widths of numbers |
| `Messages` | arguments of a message, written and read |
| `MessagesProofs` | inductive invariant, theorems |
| `RemoteCall` | what a caller of a service may rely on |
| `Service` | callers, the bus, and `DBus::Service` |
| `ServiceProofs` | inductive invariant, theorems |
| `MCSharedBus`, `MCRegistry`, `MCPendingCall`, `MCPrivateBus`, `MCMessages`, `MCService` | the instances for TLC |

### SharedBus

The three files differ in the name of the bus only; the model is of one.

A thread is at a label (`at[t]`), with the object (`arg[t]`) and the connection
(`ptr[t]`) it has in hand. Constructing an object is `FactoryEnter` (lock,
test `connct`), then `Share` (`system.cc:52-55`) or `Open`, `OpenFails`,
`OpenUnattached` (`system.cc:62-77`: success, `dbus_bus_get` fails,
`mainloop_add` throws), and `Construct` or `ConstructFails` under a second lock
(`abstract.cc:111-150`). Test and use of `connct` are two steps, since
`trace_connection_free` resets it without the guard. Destroying an object is
`Clear` (`abstract.cc:152-164`), `Detach` (`system.cc:90-99`) and `Release`
(`abstract.cc:166-169`), each of which other threads may come between. The main
loop's thread runs `DispatchBegin`, and then for each filter `DispatchFilter`
(libdbus has chosen it) and `RunFilter` (`on_message` has the guard), and
`DispatchEnd` or `DispatchDisconnected`. `Disconnect` is the daemon's.

`on_message` is one step here: what it does inside the guard is the Registry's.

libdbus is modelled from how the code uses it: a connection of `dbus_bus_get`
has one reference of libdbus' own beside the caller's, which goes with the
dispatch of `Disconnected`; a filter that is removed is not called any more,
unless libdbus is past its own check of it; the data slot's free function runs
when the connection is finalised. A constructed connection is not used again
once it is freed, so `Conns` bounds how often a new one is opened.

Any thread may destroy any object, as no line of the code restricts it: also
between `DispatchFilter` and `RunFilter`, while `on_message` waits for the guard.

Undefined behaviour (a freed connection or a dead object is used) is the end
of the story for that thread: `Halt` lets the others go on. Both kinds happen, as
the runs for `SafeShare` and `CallbackAlive` show; section 4 says from which causes.

`SharedLease` is implemented by the mapping `current <- connct`,
`holding <- conn`, `life <- link` with `up` and `down` as one state.

### Registry

One connection object, its list of interfaces and their lists of members as
sets of node addresses (`listed`, `members[i]`), and the number of match rules
the daemon has for each name (`rules[n]`). Orders are left out, as no property
depends on one; the match rule itself is its interface's name.

`subscribe` is `WatchListed`, `Watch` or `WatchFails` under the guard
(`abstract.cc:286-310`), and then `Append` or `AppendLost` without it
(`abstract.cc:318`, `interface.cc:101-108`). `PushBack`, `RemoveMember`,
`RemoveInterface` and `Clear` are one critical section each; `RemoveMember` erases
every interface that is without members when the loop (`abstract.cc:329-338`)
comes to it, also where the member is in none of them, or in a later one. A delivery is `Receive` (lock), one
`EnterInterface` for each interface and one `VisitMember` for each member, and
`WalkEnd` (unlock) or `CallThrows` (`abstract.cc:187`), so that an append, which
takes no guard, can come between any two of them.

Names are compared as the code does in each place: without case in
`emplace_back` and `filter`, with case in match rules and `remove(Interface)`.
`due` and `failed` are history: the members that matched a message when it
arrived, and the nodes whose `add_match` failed.

What the races of `Append` leave behind is state. `subscribe` returns its
`Member &` in any case: `lost` are the members that it returned and no list has,
and they stay so. A member gets lost when another thread appends to the same
list, when the interface was erased between the two halves, or when the end of
the list is already `loose`: an append, or a removal beside an append, may leave
a last node that the list does not lead to, so that later appends are lost too,
until one or a removal mends it. A walk sees a new node or does not. A thread
whose interface was erased goes on with a lost member, or stops (`Halt`).

Callbacks do not call the connection here. One that did would lock the guard
a second time in its own thread.

`SignalRouter` has four steps (a subscription comes or goes, a message arrives,
a subscriber is called, the delivery ends); `Registry` implements it with
`topic[s]` the pair of interface and member a registered node asks for.

### PendingCall

One call is `Send` (`call.cc:327`, `254`), `NewParameters` (`263-270`),
`SetData` (`272`), `SetNotify` (`274`) and `Return` (`281`, and the overload
that drops the message, `339`), each with the way it may fail: `SendFails`,
`SlotFails`, `SetDataFails` (whose result the code does not look at) and
`NotifyFails`. No mutex is held, so every step is one action, and the main
loop's thread comes between any two. libdbus queues the reply, or the error of
the timeout (`Arrive`); dispatching it is another matter, as `timeout.cc:38` does
not and the library sets no dispatch status function: `handle_event` must come to
its loop over the queue (`Activity`, `watch.cc:184-186`), where the pending call is
completed (`Complete`) and `dbus_call_reply` called with the callback, if it is
registered (`Deliver`). The loop ends (`DispatchEnds`) with the queue empty, or for
want of memory before. A call of the main loop's own thread lets no
completion come between (`LoopRuns`), but may be made from a callback, while
`delivering` is another call. `call_and_wait` and the blocking `call` are in
`Service`, with what they call; `get` differs in its arguments only.

libdbus is modelled from how the code uses it: the pending call has a reference
of the caller and one of the connection until it is completed; its data slot is
freed with the last of them; the message has a reference of the queue until it
is written; a notify function set after the completion has looked for one is
never called.

`AsyncCall` is what a caller may rely on: a call is refused or accepted, its
callback is called at most once, never for a call that is refused, and not after
what it captured was released. `PendingCall` implements it with
`state <- CallState`, `heard` the calls whose callback was called and `released`
those whose parameters were deleted.

### MainLoop, EffectiveUser, PrivateBus

`MainLoop` is `watch.cc` and `timeout.cc`: `context[w]` is the `Context` of a
watch ("none", "enabled", "disabled", "deleted"), `timer[t]` the
`TimeoutContext` of a timeout, `wanted` and `timeout` are libdbus' own flags.
`handle_event` is one action per line that another thread may come before:
`Check` (`watch.cc:137`), `Disable` (141), `Handle` (179), `Ref` (184),
`Dispatch`, and `Done` or `NoMemory` (185-187: the loop ends when the queue is
empty, or the dispatch status is `DBUS_DISPATCH_NEED_MEMORY`, which leaves messages
there). `Toggle`, `AddTimeout`, `ToggleTimeout` and
`RemoveTimeout` are the functions libdbus calls, on whichever thread sends,
reads or waits. A socket that is closed takes its watches with it, through
`remove_watch`, inside `Handle` or inside a blocking call (`ReadByCall`). The
handler's members are used after they are deleted in these cases; from there on
what the program does is undefined (`UsesDeleted`), and the loop stops.

`EffectiveUser` is `exec` (`user.cc:235-272`), under its static mutex, with
other callers of it. `Enter` fails without a trace, `LeaveStranded` is the
second `seteuid` refused.

`PrivateBus` is one `NamedBus` or `UserBus`, its thread at a label: opening
(`OpenNamed`, or `Scan` and `OpenUser` as the user), `Construct`
(`abstract.cc:111-150`), `AttachWatches` and `AttachTimeouts`
(`mainloop_add`), `Register` and `RegisterAgain` (`bus_register`, which
`UserBus` does twice), `Clear`, `Detach`, `CloseBus`, `Destroy`. Each
constructor step has its failure; what the C++ rules then destroy is the base
class only (`Release`). The main loop's steps, calls and other users of `exec`
come between any two of these, unless the destructor was called from a callback
of the loop (`nested`).

### Values, Messages

A value is a record of its type and its data, a text the number its digits say
(or `NoNumber`): the conversions of `message.cc` are modelled by what they do
to numbers, modulo `Short`, `Word` and `Long` (2^16, 2^32, 2^64).
`Messages` writes a message with each `push_back` of `Message` and `Signal`, from
a template (`MessageFactory` reads every number through `atoi`), or as another
program may; and reads it with each `pop`, `next`, `to_string` and `for_each`, in
any order. `pos` is the iterator, `valid` the flag the code keeps beside it,
which some operations forget to update. `pushed`, `matched` and `careful` are
history.

### RemoteCall, Service

`Service` has callers (an action in code, an action from XML, a `Message` given to
`call_and_wait`, another program), the bus daemon by what it does with a
message for a name, and the service: the object's life and its name, and
`on_message` branch by branch (`main.cc:156-296`, `interface.cc:261-376`).
`Introspect`, `Properties`, `NotHandled`, `NoMember` and `ImportFails` answer at
once; `Run` imports the input and starts the handler, which ends with
`HandlerReturns` or `HandlerFails`. The handler may itself be a caller: those in
`OnLoop` are on the main loop's thread, which dispatches nothing while one of
them waits (`LoopFree`). A template never sets a destination (`action.cc:41-60`),
so a call from XML reaches no service and times out.

What arrives is in the inbox (`stage[k] = "inbox"`), and is dispatched in a loop
over it that begins with `Activity` of the socket and ends with `DispatchEnds`, as
in `PendingCall`.

`~Service` leaves its filter where it is (`life` "gone"), and so does a constructor
that throws at the registration (`main.cc:84-97`, `life` "left"): a call for the
service that is dispatched after it is `DispatchDead`, any other message of the
connection, which may be shared, is `Stray`, and what follows is undefined (`dead`).

`RemoteCall` is what is promised: a call is served at most once, and one that
succeeds was served. `Service` implements it with `state <- CallState` (what the
caller has heard) and `served <- done`.

## 3. What TLC checks

| run | specification and bounds | result |
|---|---|---|
| `shared_bus` | 3 threads, each of which destroys, 3 objects, 2 connections, all faults, disconnection | holds, 281,490 states |
| `shared_bus_race` | 2 threads, 2 objects, disconnection | `SafeShare` fails |
| `shared_bus_detached` | 2 threads, 2 objects, no faults | `BusAttached` fails |
| `shared_bus_callback` | 2 threads, 1 object, no faults, no disconnection | `CallbackAlive` fails |
| `registry` | 2 threads, 2 nodes of each kind, 3 names (2 of them one name in other case), 2 topics, failures and exceptions | holds, 1,080,309 states |
| `registry_add_match` | 1 thread, no injected failure | `WatchedHasRule` fails |
| `pending_call` | 3 calls, 2 of them of the main loop's thread, all faults, 2 of them at most in one behaviour | holds, 343,650 states |
| `pending_call_lost` | 1 call of each kind, no faults | `EveryCallAnswered` fails |
| `private_bus` | 2 watches, 1 timeout, 2 users, queue of 2, all faults | holds, 96,068 states |
| `private_bus_hangup` | 1 watch, no faults | `KeepsRunning` fails |
| `messages` | 2 arguments, integers of 2, 3 and 4 bits, 3 samples | holds, 773,811 states |
| `service` | 2 calls, 1 of them of the loop's thread; methods with and without input, 2 types of output | holds, 675,552 states |

`shared_bus`: `HoldCounted` (its parts: `RefsBalanced`, libdbus counts what there
is; `RefcountCovers`, `refcount` is never too low; `OneConnection`), `FiltersExact`,
`DetachKeepsOthers` (no destructor takes the main loop away
from another object), `GuardReleased` (every path gives the guard back),
`StepsReady` (no deadlock: a thread inside goes on or waits for the guard, and the
guard's holder waits for nothing) and `LeaseSpec` (refinement). Three objects let one be made, one destroyed and one
stand by; two connections let a first one be lost and a second one opened while
a thread still has the first in hand.

`registry`: `NodesConsistent` (a member that `subscribe` returned is in one listed
interface, or lost and in none), `DeliveryExact` (its parts: `DeliveryComplete`,
nobody who was subscribed is left out, whatever is appended meanwhile;
`NoCallAfterRemove`), `RuleKept`,
`OthersKept` (unsubscribing takes nothing from others), `WalkEnds` (a delivery
can always go on, and ends) and `RouterSpec` (refinement). Two nodes of each kind let one interface have two
members, or two interfaces of one folded name have one each; `MaxRules` 2 is the
daemon's limit, reached after two subscriptions.

`pending_call`: `MemoryKept` (its parts: `ReplyFindsParameters`, the callback's
parameters are there when the reply comes; `ParametersFreedOnce`;
`MessageBalanced`), `CallbackOnce` (no callback twice, none for a `call()` that
throws, none forgotten that was registered; its part `MainAnswered`: none of the
main loop's thread is unregistered), `MainHears` (liveness: a call of the main loop's
thread is answered, or throws, unless the loop over the queue is not run any more),
`StepsReady` (the pending call that caller, timeout
or completion goes on with is not finalised under it) and `AsyncSpec` (refinement). Two
calls on the main loop's thread let one be made from the callback of the other;
the third is on a thread of its own. `ParametersFreedOnce` and
`MessageBalanced` name the paths they do not hold on: a missing slot or a
failed `set_data` leaves the parameters behind, a failed `set_notify` deletes
them twice and drops the message once too often.

`private_bus`: `HandlerAlive` (who may delete the context that `handle_event`
runs in), `LoopFollows` (handlers and timers are as libdbus wants them, but for
the watches in `missed`), `LeavesNothing` (which constructor failures clean up,
and that the destructor does), `RunsAsUser`, `QueueDispatched` (liveness) and
`StepsReady` (the mutex of `exec` is left with every function, and the loop waits
only for a destructor that needs neither it nor the mutex).
Two watches let one be toggled while the other is handled; two users let another
`exec` come between the two of one constructor.

`messages`: `IteratorKnown` (when `valid` can be trusted), `SameBack` (what is
pushed is read back), `NumbersKept` (widths, against the plain definition of
modular arithmetic) and `ErrorsThrow`. Two arguments are enough for every state
of the iterator (before an argument, before the last, behind it); three widths
that differ, with samples that are negative, zero and too large for the smallest
but not for the largest, meet each cut.

`service`: `AnsweredOnce`, `ResultWhole` (the caller gets the handler's whole
output, the handler the caller's argument), `OwnCallFails` (a call of the main
loop's thread to its own service cannot succeed), `RequestAnswered` (liveness: what is
in the inbox is answered, unless the loop over it is not run any more, or the
service was destroyed), `StepsReady` (a caller waits only for a message that is on its way, in the running
handler, or will time out) and `RpcSpec` (refinement). One call on the main loop's thread and one on another
let the handler of one wait for the other.

`StepsReady` of each module is about states: nobody waits for what never comes.
Each liveness property has a second part, `StepsEnabled` (in `Registry`
`WalkReady`): the actions that fairness is about are possible exactly in the states
it names, so that the fairness is neither empty nor asks for a step that another
thread can hold up.

Bounds: `MaxQueue` is where the count of queued messages stops: from there it
means "so many or more", and a message that is dispatched from there is one of
them. `MaxRefcount` bounds `refcount`, which leaks when a constructor fails;
`Conns` the connections opened; `MaxFaults` the failures that `call` meets in all
calls of a behaviour: two are one path of the longest kind (`set_data`, then
`set_notify`), or one of each of two calls; `MaxRules` is a limit the daemon has too, only
larger.

In `messages` and `service` the widths are those of small integers; the proofs are
for any.

The violations are disagreements between the code and what it says:

- `SafeShare`: the guard is "Mutex for serialization" (`connection.h:68`), and
  the last unref is outside of it. It takes a connection that the daemon has
  closed; `ShareSafe` proves that nothing else can do it.
- `BusAttached`: after the last object is gone the connection is out of the main
  loop and still shared. The next object receives nothing.
- `CallbackAlive`: `clear` says "Remove filter" (`abstract.cc:161`) under the "Mutex
  for serialization", but libdbus may have picked the filter already. `on_message`
  waits for the guard, which is static and outlives the object, until `clear` and
  the destructor are over, and then goes through the `interfaces` of an object that
  is gone (`abstract.cc:181-187`).
- `WatchedHasRule`: an interface stays in the list when its `add_match` failed,
  and is "Already watching" for the next subscriber. The run gets there without
  an injected fault, through the daemon's limit.
- `EveryCallAnswered`: `call` is "Call method (async)" (`connection.h:170`), but
  a reply that is dispatched between `call.cc:254` and `call.cc:274` finds no
  notify function, and nobody looks for it later.
- `KeepsRunning`: "Keep running if d-bus disconnect" (`abstract.cc:117`), but
  `handle_event` reads `connection` of a `Context` that `remove_watch` has deleted
  when the peer hung up (`watch.cc:179-187`).

Fairness: `FairSpec` of `SharedBus` has weak fairness for the steps of a thread
that is inside the library (`Step(t)`): a thread that runs goes on. None is
assumed of the caller, of the daemon or of the main loop. No strong fairness for
the mutex is needed, as `GuardReleased` is about a thread that has it. `FairSpec`
of `Registry` has weak fairness for the delivery (`Walk`): the main loop's thread
goes on with a message, and callbacks return. An endless stream of appends
could keep it in one interface's list, but node addresses are finite.
`FairSpec` of `PendingCall` has weak fairness for the main loop's thread inside
`call()` and for what ends the wait of its pending calls (`Expires`: one has its
reply, or the default timeout of an attached connection), and strong fairness for
the return of callbacks (which make calls of their own) and for `Complete`. The
last says: if the loop over the queue is run again and again, it comes to every
message of the queue, which is in order; memory does not fail each time before.
That the loop is run is not assumed. Nothing is assumed of other threads. `FairSpec` of
`Service` has in the same way strong fairness for dispatching each message and for
the end of the handler that runs (the loop's thread is not free while it calls),
and weak fairness for the timeout of the call that the loop's thread is in; none
for other callers. `FairSpec` of `PrivateBus` has weak fairness for the next
step of an event that is being handled, strong fairness for polling the read
watch, as another thread may take what the socket has before the loop comes to
it, and for `dbus_watch_handle` not running out of memory for ever, and
`Remembers`: nor does dispatching.

A socket that is quiet ends all this. The library sets no dispatch status function
(`mainloop.h` declares `handle_dispatch_status`, nothing defines it), so the error
of a timeout, and messages that a blocking call has read, wait in the queue for
the next event of a socket. The three liveness properties name it as an exception:
`QueueDispatched`, unless nothing arrives any more; `MainHears` and
`RequestAnswered`, unless the loop over the queue is not run any more
(`[]~dispatching`). They say so that nothing else keeps a caller waiting.

`Rest` and `Halt` are stuttering steps that say where the system may stop, so
that deadlock is checked everywhere else. `PendingCall` and `Service` have none,
as the main loop may always come back to its queue; that no caller is stuck is
what `StepsReady` says there.

## 4. What is proved

`SharedBusProofs` proves for any number of threads, objects and connections and
any set of faults, from the assumptions that `SharedBus` names
(`ThreadsAssumption`, `FiniteAssumption`, `EnvironmentAssumption`):

| theorem | says |
|---|---|
| `TypeCorrect` | `TypeOK`: in particular `refcount` and `refs` do not become negative |
| `ReferencesBalanced` | `RefsBalanced` |
| `RefcountCorrect` | `RefcountCovers` |
| `SingleConnection` | `OneConnection` |
| `HoldCorrect` | `HoldCounted`: the three before it together |
| `FiltersCorrect` | `FiltersExact` |
| `DetachCorrect` | the action property `DetachKeepsOthers` |
| `DeadByLateClearOnly` | `CallbackAlive`, if no `clear` comes between libdbus' choice of a filter and its call |
| `ShareSafe` | `SafeShare`, if the daemon does not close connections |
| `LeaseKept` | `LeaseSpec`: every behaviour is one of `SharedLease` |
| `DetachedByLastOnly` | `BusAttached`, if `mainloop_add` does not fail and no destructor takes itself for the last |
| `NobodyStuck` | `StepsReady` |
| `GuardGivenBack` | `GuardReleased`, from `FairSpec` and `[]StepsEnabled` |

The argument. `RefsBalanced` is not inductive: that `Release` drops a reference
which was counted follows from where the thread is, not from the counts.
`IInv` adds what each label means for the object and connection in hand
(`HandInv`), that two threads never work on one object (`ApartInv`), that the
guard is held exactly in the factory (`GuardInv`), that a constructed object
holds `connct` (`ObjectInv`) and that what is not linked has no reference, hold
or filter (`LinkInv`). There is one lemma per action, and three about
cardinalities: an object that takes or drops a connection changes `Holders` of
that connection by one. `NextInv` collects them, `Invariance` is the induction,
and each theorem follows from `IInv`. `DetachCorrect` and `LeaseKept` are about
steps: `IInv` holds before each. `DeadByLateClearOnly`, `ShareSafe` and
`DetachedByLastOnly` add a conjunct each, inductive relative to `IInv`. For
`NobodyStuck`, `GuardInv` says where a thread has the guard, and none of these
places is one where it would wait for it.

`RegistryProofs` proves for any number of threads, nodes, names and rules, and
any set of faults, from `ThreadsAssumption`, `NullAssumption` and
`FiniteAssumption` of `Registry`:

| theorem | says |
|---|---|
| `TypeCorrect` | `TypeOK` |
| `NodesCorrect` | `NodesConsistent` |
| `DeliveryCorrect` | `DeliveryComplete` |
| `RemovedNotCalled` | `NoCallAfterRemove` |
| `DeliveredExactly` | `DeliveryExact`: the two before it together |
| `RulesCorrect` | `RuleKept` |
| `OthersCorrect` | the action property `OthersKept` |
| `RuleMissedByFault` | `WatchedHasRule`, as long as no listed interface has a failed `add_match` |
| `StaleByErasureOnly` | every rule is for a name in the list (`RuleIsListed`), as long as no interface is erased |
| `LostByOverlapOnly` | `SubscribeAdds`, and no member is lost, as long as no two threads append to one interface at a time and nothing is taken from an interface that one appends to |
| `WalkAdvances` | an action property: each step of a delivery ends it or lessens `Left`, a natural number, and no other step changes `Left` or takes the guard |
| `WalkGoesDown` | a delivery with `Left = n` ends or comes below n, for each n, from `FairSpec` and `[]WalkReady` |
| `RouterKept` | `RouterSpec`: every behaviour is one of `SignalRouter` |

The argument. `DeliveryComplete` depends on where the walk is. `IInv` adds that
the guard is held exactly during a walk (`GuardInv`), that the interface in hand
is listed and has the message's name (`HandInv`), that what the walk has passed
is registered and was called if it matches (`SeenInv`), and that each member that
is due was called or is ahead of the walk (`DueInv`). Everything that erases
nodes needs the guard, and so finds no walk (`NoWalk`): one lemma covers the
three operations that erase (`EraseStep`), one those that add a node
(`NodeStep`). An append takes no guard; it is shown to leave behind and ahead of
the walk what was there (`AppendStep`). `Left` counts the interfaces and the node
addresses that a walk has not passed, so that it is not changed by what is appended. For `RouterKept`, `SubscriptionsValue`
says what the refinement mapping is of a member, which needs that lists are
disjoint; an operation that only adds is `Subscribe`, one that erases is
`Unsubscribe`, and a delivery is `Arrive`, `Call` and `Finish`. Lost members have no topic there:
nobody delivers to them. For `LostByOverlapOnly`, no list is ever loose
(`EraseLeavesTight`).

`PendingCallProofs` proves for any calls, on any threads, and any set of faults,
from `CallsAssumption` and `FaultsAssumption` of `PendingCall`:

| theorem | says |
|---|---|
| `TypeCorrect` | `TypeOK` |
| `ReplyCorrect` | `ReplyFindsParameters` |
| `ParametersCorrect` | `ParametersFreedOnce` |
| `MessageCorrect` | `MessageBalanced` |
| `MemoryCorrect` | `MemoryKept`: the three before it together |
| `MainCorrect` | `MainAnswered` |
| `CallbackCorrect` | `CallbackOnce`, of which `MainAnswered` is a part |
| `LostByRaceOnly` | `EveryCallAnswered`, if each notify function was set in time (`NotifyInTime`) |
| `AsyncKept` | `AsyncSpec`: every behaviour is one of `AsyncCall` |
| `NobodyStuck` | `StepsReady` |
| `MainCallsHear` | `MainHears`, from `FairSpec` and `[]StepsEnabled` |

The argument. The steps of one call change nothing of another (`Frame`), so the
invariant is one of a single call, and each action has one lemma. `CallInv` says
who holds the pending call and how often it is counted (`PendingInv`), what the
faults met say of where `call()` was left (`FaultInv`), that parameters are
deleted by the slot, once it has them, and by the error path of `set_notify`
(`StoredInv`, `ParametersInv`), who holds the message (`MessageInv`), and that
a call of the main loop's thread waits until it is armed (`MainInv`), and that a
callback with a notify function is called when libdbus has done with the call
(`HeardInv`). For `MainCallsHear`, the main loop's thread is in one `call()` at a
time (`AloneInv`, which `NobodyStuck` needs too), leaves it (`CallEnds`), and leaves its callbacks
(`CallbackEnds`), so that a loop over the queue that is run again and again is free
again and again to complete what has arrived; what is sent does arrive (`Expires`).

`PrivateBusProofs` proves for any watches, timeouts, users, queue and set of
faults, from `WatchesAssumption`, `QueueAssumption`, `AppAssumption`,
`BusAssumption` and `FaultsAssumption`:

| theorem | says |
|---|---|
| `TypeCorrect` | `TypeOK` |
| `HandlerCorrect` | `HandlerAlive` |
| `LoopCorrect` | `LoopFollows` |
| `LeftoverCorrect` | `LeavesNothing` |
| `UserCorrect` | `RunsAsUser` |
| `RunsUntilHangUp` | `KeepsRunning`, as long as the peer has not hung up |
| `NobodyStuck` | `StepsReady` |
| `QueueServed` | `QueueDispatched`, from `FairSpec` and `[]StepsEnabled` |

The argument. Two invariants, as no step relates them. `UserInv` is about the
user ids: one caller at a time is inside, and has saved the process's own id;
`ExecInv`, on top of it, says when this object's thread is that caller, and is
what `NobodyStuck` adds to `IInv`.
`IInv` says what the label means for the socket and for the functions that are
set (`SocketInv`, `FunctionsInv`), that the references are the object's and
`handle_event`'s (`RefsInv`: this is what makes `LeavesNothing` inductive, since
the loop may be the last to let go), that there is nothing before the connection
is opened (`NothingYet`), and what handlers and timers are (`WatchInv`: one is
there exactly while the connection is attached and open; `TimerInv`, `EventInv`).
`UnrefParts` and `DisconnectParts` say once what the last reference and a closed
socket take with them. `QueueServed` needs no induction on the queue: `handle_event`
that is past `dbus_watch_handle` ends with an empty queue, or without memory
(`QuitLoopStep`, `WaitsStep`), which `Remembers` has come to an end, and
the exception that the property makes says that it ends.

`MessagesProofs` proves for messages of any length, any samples, and any widths
with `WidthAssumption` (even moduli, each at least twice the one before):

| theorem | says |
|---|---|
| `TypeCorrect` | `TypeOK` |
| `IteratorCorrect` | `IteratorKnown` |
| `RoundTrip` | `SameBack` |
| `NumbersCorrect` | `NumbersKept` |
| `ErrorsCorrect` | `ErrorsThrow` |

The argument. `WireInv` says of each argument what it was made of, `IterInv` that
`valid` is never false before the end (so that a pop for what was pushed cannot
throw), `OutInv` what the last outcome is of the argument it was read from. Lemmas
of `ValuesProofs` say that a number which has its place in a signed or unsigned
integer is kept, and one that has not is kept modulo 2^w; `ConvertedSame` and
`TemplateMade` apply them to each pop and each template type.

`ServiceProofs` proves for any calls, arguments, types and widths:

| theorem | says |
|---|---|
| `TypeCorrect` | `TypeOK` |
| `AnswersCorrect` | `AnsweredOnce` |
| `OwnCallsFail` | `OwnCallFails` |
| `ResultsCorrect` | `ResultWhole` |
| `RpcKept` | `RpcSpec`: every behaviour is one of `RemoteCall` |
| `NobodyStuck` | `StepsReady` |
| `CallsAnswered` | `RequestAnswered`, from `FairSpec` and `[]StepsEnabled` |

The argument. A step of one call changes nothing of another (`Frame`), so the
invariant is one of a single call: where the message is tells whether it was
answered (`StageInv`), what the answer is tells what was done and what the
caller made of it (`AnswerInv`), and nobody serves a caller of the main loop's
thread while it waits (`OwnInv`). `ExportedWhole` says that what `export_value`
makes, `for_each` can read. What the handler got is an invariant on top
(`SeenInv`), and so is that a call which waits is still somewhere that it can be
answered from (`AwaitInv`, for `NobodyStuck`). For `CallsAnswered`, one caller on the
loop's thread waits at a time (`WaitInv`), so that the thread is again and again in no call (`WaitsEnd`) and in no
handler (`LoopComes`). If it dispatches again and again, it does so when it is free
(`DispatchGoesOn`: nothing but the loop itself leaves the loop), and a message goes from the inbox to the handler to its
answer and nowhere else (`AskedStep`).

Theorems about the violations. Each of `DeadByLateClearOnly`, `ShareSafe`,
`DetachedByLastOnly`, `RuleMissedByFault`, `LostByRaceOnly` and `RunsUntilHangUp`
proves a property that some run finds violated, under the hypothesis that the cause
given in section 3 does not occur: that cause is the only one. `LostByOverlapOnly`
and `StaleByErasureOnly` are the like for two things that the registry does wrong
without a run of their own (section 5): their properties, `SubscribeAdds` and
`RuleIsListed`, are in `RegistryProofs`.

Liveness. The prover has no rule for `ENABLED`. The four liveness theorems have
`[]StepsEnabled` as a hypothesis, where `StepsEnabled` says of each action that
fairness is about in which states it is possible; the runs check it as a part of
the property that the theorem concludes. From there on the temporal logic of the
fairness is propositional: the action lemmas say what each step makes of a few
state predicates, and the last step of each lemma is `PTL`. What is proved so for
any number of threads, calls and messages is that the fairness is enough, given
that no action is blocked in a state where `StepsEnabled` says it is not.

Only model-checked: `StepsEnabled` of each module and `WalkReady` (`ENABLED`); and,
of `WalkEnds`, the step from `WalkGoesDown` to its conclusion. `WalkGoesDown` says
for each natural number n that a delivery with n steps left ends or comes to fewer,
and `WalkAdvances` that nothing gives it more: by the lattice rule (a descent in
the natural numbers ends) it ends. That rule is an induction whose hypothesis is
a temporal formula, which the provers cannot instantiate. Every other property of
a passing run is stated by a theorem.

## 5. Not modelled

Left out of the components above:

- A `DBusConnection` that two bus types share: the starter bus may be the system
  or session bus (`system.cc:73`). `SharedBus` is of one type.
- Callbacks that call the connection: one that subscribes or signals locks the
  guard a second time in its own thread (`abstract.cc:181`), and waits for itself
  in every order of steps.
- Messages without an interface name (`abstract.cc:218`), which only a peer can
  send.
- A constructor's XML, and how it makes a service's interfaces (`main.cc`,
  `interface.cc`) or an action's arguments: they are made before the service is
  started, and `Service` has them from the start.
- The message that an alert keeps from its activation and sends again
  (`alert.cc`). When the factory throws, it keeps the one before.
- The factory's reference of a `Service` that is made from its name: it takes its
  connection from `StarterBus::ConnectionFactory` (`main.cc:107-109`), whose
  reference and whose `refcount` `~Service` never drops. In `SharedBus` every hold is
  an object's, and `Service` has no count: there such a service is a bus object
  that is never destroyed.
- What other threads of the process do while `exec` has changed the user id:
  they run as the user too, as `user.cc:237` says.
- Which bus `UserBus` connects to: `user.cc:168` opens `DBUS_BUS_SESSION`, not
  the address that `busname` found. An address is data here.

Whole parts: `exception.cc` (wraps a string), `module.cc` and `init.cc`
(registration at load time), `push_back.cc` (commented out), `emitter.h` (no
implementation) and the test program.

What the model has, and what no run checks a property against: of two threads that
subscribe to one interface at a time, one may get a `Member &` that no list has and
no message reaches (`abstract.cc:318`; `lost`); `remove` takes no match rule back
(`abstract.cc:329`; nothing calls the function with `dbus_bus_remove_match`). Nor does
one forbid these, as no line of the repository says that it should not be: a `NamedBus` that throws leaves its filter and an open
connection behind; so does a connection whose `exec` could not restore the id;
`~Service` leaves its filter, and its name if it was not stopped, and a `Service`
constructor that fails at the registration leaves its filter too; a signal that
names a member of a service is answered as a call is; `push_back` of a double, an
unsigned 16 bit or a 64 bit number makes a message that `for_each` cannot read,
and a service refuses such an input.

## 6. Running

    tlc -config shared_bus.cfg MCSharedBus
    tlc -config registry.cfg MCRegistry
    tlc -config pending_call.cfg MCPendingCall
    tlc -config private_bus.cfg MCPrivateBus
    tlc -config messages.cfg MCMessages
    tlc -config service.cfg MCService
    tlapm SharedBusProofs.tla
    tlapm RegistryProofs.tla
    tlapm PendingCallProofs.tla
    tlapm PrivateBusProofs.tla
    tlapm ValuesProofs.tla
    tlapm MessagesProofs.tla
    tlapm ServiceProofs.tla

The other configurations go with the module of their name's first words
(`shared_bus_race.cfg` with `MCSharedBus`), and are expected to fail as the table
says.
