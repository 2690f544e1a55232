--------------------------- MODULE PrivateBusProofs ---------------------------
(***************************************************************************)
(* Theorems about PrivateBus, for any watches, timeouts, users and faults. *)
(***************************************************************************)
EXTENDS PrivateBus, TLAPS

USE DEF loopVars, linkVars, trafficVars, watchVars, timeVars, eventVars, userVars, busVars

-----------------------------------------------------------------------------
(* The inductive invariant *)

Unopened == {"none", "scanning", "scanned", "opening"}

Watching == {"watching", "attached", "registered", "live", "cleared", "closing"}

Holding == {"opened", "filtered", "detached", "closed"} \union Watching

BusTypes ==
    /\ at \in Unopened \union Holding \union {"gone", "thrown"}
    /\ user \in BOOLEAN /\ nested \in BOOLEAN
    /\ fault \in Faults \union {Null}

(* What the label, and the fault that ended the constructor, say of the    *)
(* connection. *)
SocketInv ==
    /\ at \in Unopened => socket = "none"
    /\ at \in {"opened", "filtered"} => socket = "open"
    /\ at \in Watching \union {"detached"} => socket \in {"open", "closed"}
    /\ at \in {"closed", "gone", "closing"} => socket = "closed"
    /\ at = "thrown" /\ fault \in {"scan", "switch", "open"} => socket = "none"
    /\ at = "thrown" /\ fault = "again" => socket = "closed"
    /\ at = "closing" => fault = "again"

FunctionsInv ==
    /\ watched <=> at \in Watching \/ (at = "thrown" /\ fault \in {"timeouts", "register", "again"})
    /\ timed <=> \/ at \in Watching \ {"watching"}
                 \/ at = "thrown" /\ fault \in {"register", "again"}
    /\ at \in {"cleared", "detached", "closed", "gone"} => ~filter
    /\ nested => step = "dispatch"
    /\ nested => at \in {"cleared", "detached", "closed"}

(* The object has a reference, and handle_event has one. *)
Holds == IF at \in Holding \/ (at = "thrown" /\ fault = "restore" /\ socket = "open")
           THEN 1 ELSE 0

Uses == IF step = "dispatch" THEN 1 ELSE 0

RefsInv ==
    /\ refs = Holds + Uses
    /\ at = "thrown" /\ fault = "again" /\ refs = 0 =>
        ~filter /\ \A t \in Timeouts : timer[t] \notin Live
    /\ at = "thrown" /\ fault = "restore" => socket # "closed"

(* Before the connection is opened there is nothing. *)
NothingYet ==
    socket = "none" =>
        /\ ~filter /\ step = "idle" /\ refs = 0
        /\ \A w \in Watches : context[w] = "none"
        /\ \A t \in Timeouts : timer[t] = "none" /\ timeout[t] = "none"

WatchInv ==
    \A w \in Watches :
        /\ context[w] \in Live <=> watched /\ socket = "open"
        /\ context[w] = "deleted" => socket = "closed" \/ at = "detached"
        /\ watched /\ socket = "open" /\ wanted[w] /\ w \notin missed => context[w] = "enabled"

TimerInv ==
    \A t \in Timeouts :
        /\ timer[t] \in Live => timed
        /\ timer[t] = "enabled" => timeout[t] = "on"
        /\ timed /\ timeout[t] = "on" => timer[t] = "enabled"

EventInv ==
    /\ step = "idle" <=> handling = Null
    /\ step # "idle" => handling \in Watches /\ context[handling] # "none"

IInv ==
    /\ LoopTypeOK /\ BusTypes
    /\ SocketInv /\ FunctionsInv
    /\ RefsInv /\ NothingYet
    /\ WatchInv /\ TimerInv /\ EventInv

-----------------------------------------------------------------------------
(* Steps of the object *)

LEMMA InitInv == Init => IInv
<1> SUFFICES ASSUME Init PROVE IInv
  OBVIOUS
<1> USE DEF Init, LoopInit
<1>1. LoopTypeOK
  <2>1. wanted \in [Watches -> BOOLEAN]
    OBVIOUS
  <2>2. /\ context \in [Watches -> {"none", "deleted"} \union Live]
        /\ timeout \in [Timeouts -> {"none", "on", "off"}]
        /\ timer \in [Timeouts -> {"none", "deleted"} \union Live]
    BY DEF Live
  <2>3. queue \in 0 .. MaxQueue /\ missed \subseteq Watches /\ refs \in Nat
    BY QueueAssumption
  <2> QED BY <2>1, <2>2, <2>3 DEF LoopTypeOK
<1>2. BusTypes
  BY DEF BusTypes, Unopened
<1>3. SocketInv /\ FunctionsInv /\ RefsInv /\ NothingYet
  BY DEF SocketInv, FunctionsInv, RefsInv, NothingYet, Unopened, Watching, Holding, Holds, Uses
<1>4. WatchInv /\ TimerInv /\ EventInv
  BY DEF WatchInv, TimerInv, EventInv, Live
<1> QED BY <1>1, <1>2, <1>3, <1>4 DEF IInv

(* Those that do nothing to the connection. *)
LEMMA IdleStep ==
  ASSUME IInv, UNCHANGED loopVars,
         \/ OpenNamedFails \/ Scan \/ ScanEnds \/ ScanFails \/ OpenUser \/ OpenUserFails
         \/ SwitchFails \/ RestoreFails \/ Register \/ RegisterAgain
  PROVE  IInv'
<1> USE DEF Unopened, Watching, Holding
<1>1. \/ at \in Unopened /\ at' \in Unopened /\ UNCHANGED fault
      \/ /\ at \in Unopened /\ at' = "thrown"
         /\ fault' \in Faults /\ fault' \in {"open", "scan", "switch", "restore"}
      \/ /\ at = "attached" /\ at' \in {"registered", "live"} /\ UNCHANGED fault
      \/ at = "registered" /\ at' = "live" /\ UNCHANGED fault
  BY DEF OpenNamedFails, Scan, ScanEnds, ScanFails, OpenUser, OpenUserFails, SwitchFails,
         RestoreFails, Register, RegisterAgain, Trans, Throws, Connect, IInv, RefsInv,
         NothingYet, SocketInv
<1>2. user' \in BOOLEAN /\ nested' = nested
  BY DEF OpenNamedFails, Scan, ScanEnds, ScanFails, OpenUser, OpenUserFails, SwitchFails,
         RestoreFails, Register, RegisterAgain, Trans, Throws, IInv, BusTypes
<1> HIDE DEF OpenNamedFails, Scan, ScanEnds, ScanFails, OpenUser, OpenUserFails, SwitchFails,
         RestoreFails, Register, RegisterAgain
<1>3. LoopTypeOK' /\ NothingYet' /\ TimerInv' /\ EventInv'
  BY DEF IInv, LoopTypeOK, NothingYet, TimerInv, EventInv
<1>4. BusTypes'
  BY <1>1, <1>2 DEF IInv, BusTypes
<1>5. SocketInv'
  BY <1>1 DEF IInv, SocketInv
<1>6. FunctionsInv'
  BY <1>1, <1>2 DEF IInv, FunctionsInv
<1>7. RefsInv'
  BY <1>1 DEF IInv, RefsInv, Holds, Uses, SocketInv
<1>8. WatchInv'
  BY <1>1 DEF IInv, WatchInv, SocketInv
<1> QED BY <1>3, <1>4, <1>5, <1>6, <1>7, <1>8 DEF IInv

(* Those that open the connection. *)
LEMMA ConnectStep ==
  ASSUME IInv, Connect, UNCHANGED <<trafficVars, watchVars, timeVars, eventVars>>,
         OpenNamed \/ OpenUserEnds \/ RestoreFails
  PROVE  IInv'
<1> USE DEF Unopened, Watching, Holding
<1>1. /\ at \in Unopened
      /\ \/ at' = "opened" /\ UNCHANGED fault
         \/ at' = "thrown" /\ fault' = "restore" /\ fault' \in Faults
      /\ UNCHANGED <<user, nested>>
  BY DEF OpenNamed, OpenUserEnds, RestoreFails, Trans, Throws
<1>2. /\ socket = "none" /\ socket' = "open" /\ refs' = 1 /\ ~filter'
      /\ step = "idle" /\ ~watched /\ ~timed /\ ~nested
  BY <1>1 DEF Connect, IInv, SocketInv, NothingYet, FunctionsInv
<1>3. LoopTypeOK'
  BY <1>2 DEF IInv, LoopTypeOK, Connect
<1>4. BusTypes'
  BY <1>1 DEF IInv, BusTypes
<1>5. SocketInv' /\ FunctionsInv' /\ NothingYet'
  BY <1>1, <1>2 DEF IInv, SocketInv, FunctionsInv, NothingYet
<1>6. RefsInv'
  BY <1>1, <1>2 DEF IInv, RefsInv, Holds, Uses
<1>7. WatchInv' /\ TimerInv' /\ EventInv'
  BY <1>2 DEF IInv, WatchInv, TimerInv, EventInv, NothingYet, Live
<1> QED BY <1>3, <1>4, <1>5, <1>6, <1>7 DEF IInv

(* The filter is there. *)
LEMMA ConstructStep ==
  ASSUME IInv, Construct
  PROVE  IInv'
<1> USE DEF Construct, Trans, Unopened, Watching, Holding
<1>1. LoopTypeOK' /\ BusTypes' /\ TimerInv' /\ EventInv'
  BY DEF IInv, LoopTypeOK, BusTypes, TimerInv, EventInv
<1>2. SocketInv' /\ FunctionsInv'
  BY DEF IInv, SocketInv, FunctionsInv
<1>3. RefsInv' /\ NothingYet'
  BY DEF IInv, RefsInv, Holds, Uses, SocketInv, NothingYet
<1>4. WatchInv'
  BY DEF IInv, WatchInv
<1> QED BY <1>1, <1>2, <1>3, <1>4 DEF IInv

LEMMA WatchesStep ==
  ASSUME IInv, AttachWatches
  PROVE  IInv'
<1> USE DEF AttachWatches, Trans, Unopened, Watching, Holding
<1>1. /\ socket = "open" /\ context' = [w \in Watches |-> "enabled"]
      /\ at = "filtered" /\ at' = "watching" /\ watched' = TRUE
  BY DEF AddWatches, IInv, SocketInv
<1>2. LoopTypeOK' /\ BusTypes' /\ TimerInv'
  BY <1>1 DEF IInv, LoopTypeOK, BusTypes, TimerInv, Live
<1>3. SocketInv' /\ FunctionsInv'
  BY <1>1 DEF IInv, SocketInv, FunctionsInv
<1>4. RefsInv' /\ NothingYet'
  BY <1>1 DEF IInv, RefsInv, Holds, Uses, NothingYet
<1>5. WatchInv' /\ EventInv'
  BY <1>1 DEF IInv, WatchInv, EventInv, Live
<1> QED BY <1>2, <1>3, <1>4, <1>5 DEF IInv

LEMMA TimeoutsStep ==
  ASSUME IInv, AttachTimeouts
  PROVE  IInv'
<1> USE DEF AttachTimeouts, Trans, Unopened, Watching, Holding
<1>1. at = "watching" /\ at' = "attached" /\ timed' = TRUE /\ ~timed
  BY DEF IInv, FunctionsInv
<1>2. LoopTypeOK'
  BY DEF IInv, LoopTypeOK, Live, OnOff
<1>3. BusTypes' /\ SocketInv' /\ FunctionsInv' /\ EventInv'
  BY <1>1 DEF IInv, BusTypes, SocketInv, FunctionsInv, EventInv
<1>4. RefsInv' /\ NothingYet'
  BY <1>1 DEF IInv, RefsInv, Holds, Uses, NothingYet, SocketInv
<1>5. WatchInv'
  BY <1>1 DEF IInv, WatchInv
<1>6. TimerInv'
  BY <1>1 DEF IInv, TimerInv, LoopTypeOK, Live, OnOff
<1> QED BY <1>2, <1>3, <1>4, <1>5, <1>6 DEF IInv

(* What the last reference takes with it. *)
LEMMA UnrefParts ==
  ASSUME IInv, Unref, refs > 0
  PROVE  /\ refs' \in Nat /\ refs' = refs - 1 /\ filter' \in BOOLEAN /\ queue' \in 0 .. MaxQueue
         /\ timeout' \in [Timeouts -> {"none", "on", "off"}]
         /\ timer' \in [Timeouts -> {"none", "deleted"} \union Live]
         /\ filter' => filter
         /\ \A t \in Timeouts :
             /\ timer'[t] \in Live => timed /\ timer'[t] = timer[t] /\ timeout'[t] = timeout[t]
             /\ timed /\ timeout'[t] = "on" => timer'[t] = "enabled"
             /\ timer[t] = "none" => timer'[t] = "none"
             /\ timeout[t] = "none" => timeout'[t] = "none"
         /\ refs = 1 /\ socket = "closed" =>
              ~filter' /\ \A t \in Timeouts : timer'[t] \notin Live
<1>1. CASE refs = 1 /\ socket = "closed"
  <2>1. /\ refs' = 0 /\ filter' = FALSE /\ queue' = 0
        /\ timeout' = [t \in Timeouts |-> "none"]
        /\ timer' = IF timed THEN AllDeleted(timer) ELSE timer
    BY <1>1 DEF Unref
  <2>2. timer' \in [Timeouts -> {"none", "deleted"} \union Live]
        /\ \A t \in Timeouts : timer'[t] \notin Live /\ (timer[t] = "none" => timer'[t] = "none")
    <3>1. CASE timed
      BY <2>1, <3>1 DEF IInv, LoopTypeOK, AllDeleted, Live
    <3>2. CASE ~timed
      BY <2>1, <3>2 DEF IInv, LoopTypeOK, TimerInv
    <3> QED BY <3>1, <3>2
  <2>3. refs' = refs - 1 /\ refs' \in Nat /\ queue' \in 0 .. MaxQueue
    BY <1>1, <2>1, QueueAssumption
  <2>4. /\ timeout' \in [Timeouts -> {"none", "on", "off"}]
        /\ \A t \in Timeouts : timeout'[t] = "none"
    BY <2>1
  <2>5. filter' = FALSE
    BY <2>1
  <2> QED BY <2>2, <2>3, <2>4, <2>5
<1>2. CASE ~(refs = 1 /\ socket = "closed")
  BY <1>2 DEF Unref, IInv, LoopTypeOK, TimerInv
<1> QED BY <1>1, <1>2

(* The constructor throws after it has opened, and drops the reference. *)
LEMMA ThrowStep ==
  ASSUME IInv, ConstructFails \/ WatchesFail \/ TimeoutsFail \/ RegisterFails
  PROVE  IInv'
<1> USE DEF Unopened, Watching, Holding
<1>1. /\ Release /\ UNCHANGED <<user, nested>>
      /\ at' = "thrown" /\ fault' \in Faults
      /\ \/ at = "opened" /\ fault' = "filter"
         \/ at = "filtered" /\ fault' = "watches"
         \/ at = "watching" /\ fault' = "timeouts"
         \/ at = "attached" /\ fault' = "register"
  BY DEF ConstructFails, WatchesFail, TimeoutsFail, RegisterFails, Throws
<1>2. refs > 0
  BY <1>1 DEF IInv, RefsInv, Holds, Uses
<1>3. Unref /\ UNCHANGED <<socket, arrived, hungup, watchVars, timed, eventVars>>
  BY <1>1 DEF Release
<1>4. LoopTypeOK' /\ BusTypes'
  BY <1>1, <1>2, <1>3, UnrefParts DEF IInv, LoopTypeOK, BusTypes
<1>5. SocketInv' /\ FunctionsInv' /\ WatchInv' /\ EventInv'
  BY <1>1, <1>3 DEF IInv, SocketInv, FunctionsInv, WatchInv, EventInv
<1>6. RefsInv'
  BY <1>1, <1>2, <1>3, UnrefParts DEF IInv, RefsInv, Holds, Uses
<1>7. NothingYet' /\ TimerInv'
  BY <1>1, <1>2, <1>3, UnrefParts DEF IInv, SocketInv, NothingYet, TimerInv, LoopTypeOK
<1> QED BY <1>4, <1>5, <1>6, <1>7 DEF IInv

(* libdbus is done with the socket. *)
LEMMA DisconnectParts ==
  ASSUME IInv, Disconnect, socket = "open"
  PROVE  /\ socket' = "closed" /\ arrived' = FALSE /\ queue' \in 0 .. MaxQueue
         /\ context' \in [Watches -> {"none", "deleted"} \union Live]
         /\ \A w \in Watches : context'[w] \notin Live /\ (context[w] # "none" => context'[w] # "none")
<1>1. queue' \in 0 .. MaxQueue
  BY QueueAssumption DEF Disconnect, Enqueued, IInv, LoopTypeOK
<1>2. CASE watched
  BY <1>1, <1>2 DEF Disconnect, RemoveWatches, AllDeleted, IInv, LoopTypeOK, Live
<1>3. CASE ~watched
  BY <1>1, <1>3 DEF Disconnect, RemoveWatches, IInv, LoopTypeOK, WatchInv
<1> QED BY <1>2, <1>3

LEMMA CloseParts ==
  ASSUME IInv, Close, socket # "none"
  PROVE  /\ socket' = "closed" /\ arrived' \in BOOLEAN /\ queue' \in 0 .. MaxQueue
         /\ context' \in [Watches -> {"none", "deleted"} \union Live]
         /\ \A w \in Watches : context'[w] \notin Live /\ (context[w] # "none" => context'[w] # "none")
<1>1. CASE socket = "open"
  BY <1>1, DisconnectParts DEF Close
<1>2. CASE socket = "closed"
  BY <1>2 DEF Close, IInv, LoopTypeOK, WatchInv
<1> QED BY <1>1, <1>2 DEF IInv, LoopTypeOK

LEMMA CloseStep ==
  ASSUME IInv, CloseAgain \/ CloseBus
  PROVE  IInv'
<1> USE DEF Unopened, Watching, Holding
<1>1. /\ Close /\ UNCHANGED <<refs, filter, hungup, watched, wanted, missed, timeVars, eventVars,
                              user, nested>>
      /\ \/ at = "registered" /\ at' = "closing" /\ fault' = "again" /\ fault' \in Faults
         \/ at = "detached" /\ at' = "closed" /\ UNCHANGED fault
  BY DEF CloseAgain, CloseBus, Trans
<1>2. /\ socket # "none"
      /\ socket' = "closed" /\ arrived' \in BOOLEAN /\ queue' \in 0 .. MaxQueue
      /\ context' \in [Watches -> {"none", "deleted"} \union Live]
      /\ \A w \in Watches : context'[w] \notin Live /\ (context[w] # "none" => context'[w] # "none")
  BY <1>1, CloseParts DEF IInv, SocketInv
<1>3. LoopTypeOK' /\ BusTypes'
  BY <1>1, <1>2 DEF IInv, LoopTypeOK, BusTypes
<1>4. SocketInv' /\ FunctionsInv' /\ TimerInv' /\ EventInv' /\ NothingYet'
  BY <1>1, <1>2 DEF IInv, SocketInv, FunctionsInv, TimerInv, EventInv, NothingYet
<1>5. RefsInv'
  BY <1>1, <1>2 DEF IInv, RefsInv, Holds, Uses
<1>6. WatchInv'
  BY <1>1, <1>2 DEF IInv, WatchInv
<1> QED BY <1>3, <1>4, <1>5, <1>6 DEF IInv

LEMMA ReleaseStep ==
  ASSUME IInv, RegisterAgainFails \/ Destroy
  PROVE  IInv'
<1> USE DEF Unopened, Watching, Holding
<1>1. /\ Release /\ nested' \in {FALSE, nested} /\ UNCHANGED <<user, fault>>
      /\ \/ at = "closing" /\ at' = "thrown" /\ fault = "again" /\ nested' = nested
         \/ at = "closed" /\ at' = "gone" /\ nested' = FALSE
  BY DEF RegisterAgainFails, Destroy, Trans, IInv, SocketInv
<1>2. refs > 0 /\ socket = "closed"
  BY <1>1 DEF IInv, RefsInv, Holds, Uses, SocketInv
<1>3. Unref /\ UNCHANGED <<socket, arrived, hungup, watchVars, timed, eventVars>>
  BY <1>1 DEF Release
<1>4. LoopTypeOK' /\ BusTypes'
  <2>1. LoopTypeOK'
    BY <1>2, <1>3, UnrefParts DEF IInv, LoopTypeOK
  <2>2. BusTypes'
    BY <1>1 DEF IInv, BusTypes
  <2> QED BY <2>1, <2>2
<1>5. SocketInv' /\ FunctionsInv' /\ WatchInv' /\ EventInv'
  BY <1>1, <1>2, <1>3, UnrefParts DEF IInv, SocketInv, FunctionsInv, WatchInv, EventInv
<1>6. RefsInv'
  BY <1>1, <1>2, <1>3, UnrefParts DEF IInv, RefsInv, Holds, Uses, LoopTypeOK
<1>7. NothingYet' /\ TimerInv'
  BY <1>1, <1>2, <1>3, UnrefParts DEF IInv, NothingYet, TimerInv, LoopTypeOK
<1> QED BY <1>4, <1>5, <1>6, <1>7 DEF IInv

LEMMA ClearStep ==
  ASSUME IInv, Clear
  PROVE  IInv'
<1> USE DEF Clear, Clearing, Unopened, Watching, Holding
<1>1. LoopTypeOK' /\ BusTypes' /\ TimerInv' /\ EventInv'
  BY DEF IInv, LoopTypeOK, BusTypes, TimerInv, EventInv
<1>2. SocketInv' /\ FunctionsInv'
  BY DEF IInv, SocketInv, FunctionsInv
<1>3. RefsInv' /\ NothingYet'
  BY DEF IInv, RefsInv, Holds, Uses, NothingYet
<1>4. WatchInv'
  BY DEF IInv, WatchInv
<1> QED BY <1>1, <1>2, <1>3, <1>4 DEF IInv

LEMMA DetachStep ==
  ASSUME IInv, Detach
  PROVE  IInv'
<1> USE DEF Detach, Trans, Unopened, Watching, Holding
<1>1. at = "cleared" /\ at' = "detached" /\ watched /\ ~watched' /\ ~timed' /\ socket # "none"
  BY DEF IInv, FunctionsInv, SocketInv
<1>2. /\ context' \in [Watches -> {"none", "deleted"} \union Live]
      /\ \A w \in Watches : context'[w] \notin Live /\ (context[w] # "none" => context'[w] # "none")
  BY <1>1 DEF RemoveWatches, AllDeleted, IInv, LoopTypeOK, Live
<1>3. /\ timer' \in [Timeouts -> {"none", "deleted"} \union Live]
      /\ \A t \in Timeouts : timer'[t] \notin Live
  BY DEF AllDeleted, IInv, LoopTypeOK, Live
<1>4. LoopTypeOK' /\ BusTypes'
  BY <1>1, <1>2, <1>3 DEF IInv, LoopTypeOK, BusTypes
<1>5. SocketInv' /\ FunctionsInv' /\ NothingYet' /\ EventInv'
  BY <1>1, <1>2 DEF IInv, SocketInv, FunctionsInv, NothingYet, EventInv
<1>6. RefsInv'
  BY <1>1 DEF IInv, RefsInv, Holds, Uses
<1>7. WatchInv' /\ TimerInv'
  BY <1>1, <1>2, <1>3 DEF WatchInv, TimerInv, Live
<1> QED BY <1>4, <1>5, <1>6, <1>7 DEF IInv

LEMMA ObjectInv ==
  ASSUME IInv, ObjectStep
  PROVE  IInv'
<1>1. CASE \/ OpenNamedFails \/ Scan \/ ScanEnds \/ ScanFails \/ OpenUser \/ OpenUserFails
           \/ SwitchFails \/ Register \/ RegisterAgain
  <2>1. UNCHANGED loopVars
    BY <1>1 DEF OpenNamedFails, Scan, ScanEnds, ScanFails, OpenUser, OpenUserFails, SwitchFails,
                Register, RegisterAgain, Idle
  <2> QED BY <1>1, <2>1, IdleStep
<1>2. CASE OpenNamed \/ OpenUserEnds \/ RestoreFails
  <2>1. \/ UNCHANGED loopVars /\ RestoreFails
        \/ Connect /\ UNCHANGED <<trafficVars, watchVars, timeVars, eventVars>>
    BY <1>2 DEF OpenNamed, OpenUserEnds, RestoreFails
  <2> QED BY <1>2, <2>1, IdleStep, ConnectStep
<1> QED BY <1>1, <1>2, ConstructStep, WatchesStep, TimeoutsStep, ThrowStep, CloseStep,
           ReleaseStep, ClearStep, DetachStep
    DEF ObjectStep

-----------------------------------------------------------------------------
(* Steps of the main loop *)

(* A step that leaves the connection's parts alone keeps what is said of   *)
(* them. *)
LEMMA StepFrame ==
  ASSUME IInv, UNCHANGED busVars, ~nested, UNCHANGED <<linkVars, watched, timed, timer, timeout>>,
         step' \in {"idle", "check", "disable", "handle", "ref"}, step # "dispatch",
         socket # "none"
  PROVE  BusTypes' /\ SocketInv' /\ FunctionsInv' /\ RefsInv' /\ NothingYet' /\ TimerInv'
<1>1. BusTypes' /\ SocketInv' /\ FunctionsInv' /\ NothingYet' /\ TimerInv'
  BY DEF IInv, BusTypes, SocketInv, FunctionsInv, NothingYet, TimerInv
<1>2. RefsInv'
  BY DEF IInv, RefsInv, Holds, Uses
<1> QED BY <1>1, <1>2

LEMMA PollStep ==
  ASSUME IInv, NEW w \in Watches, Poll(w), UNCHANGED busVars, ~nested
  PROVE  IInv'
<1> USE DEF Poll
<1>1. context[w] # "none" /\ socket # "none" /\ w # Null
  BY WatchesAssumption DEF IInv, NothingYet
<1>2. LoopTypeOK' /\ WatchInv' /\ EventInv'
  BY <1>1 DEF IInv, LoopTypeOK, WatchInv, EventInv
<1> QED BY <1>1, <1>2, StepFrame DEF IInv

LEMMA HandlingParts ==
  ASSUME IInv, step # "idle"
  PROVE  /\ handling \in Watches /\ handling # Null /\ socket # "none"
         /\ Alive => /\ context[handling] \in Live
                     /\ watched /\ socket = "open"
                     /\ \/ at \in Watching
                        \/ at = "thrown" /\ fault \in {"timeouts", "register", "again"}
  BY WatchesAssumption
  DEF IInv, EventInv, NothingYet, Alive, LoopTypeOK, WatchInv, FunctionsInv

LEMMA CheckStep ==
  ASSUME IInv, Check \/ HandleFails, UNCHANGED busVars, ~nested
  PROVE  IInv'
<1>1. /\ step \in {"check", "handle"} /\ step' \in {"idle", "disable", "handle"}
      /\ handling' = (IF step' = "idle" THEN Null ELSE handling)
      /\ UNCHANGED <<linkVars, trafficVars, watchVars, timeVars>>
  BY DEF Check, HandleFails, Goto
<1>2. LoopTypeOK' /\ WatchInv' /\ EventInv'
  BY <1>1, HandlingParts DEF IInv, LoopTypeOK, WatchInv, EventInv
<1> QED BY <1>1, <1>2, HandlingParts, StepFrame DEF IInv

LEMMA DisableStep ==
  ASSUME IInv, Disable, UNCHANGED busVars, ~nested
  PROVE  IInv'
<1>1. /\ step = "disable" /\ Alive /\ step' = "idle" /\ handling' = Null
      /\ context' = [context EXCEPT ![handling] = "disabled"]
      /\ missed' = (IF wanted[handling] THEN missed \union {handling} ELSE missed)
      /\ UNCHANGED <<watched, wanted, linkVars, trafficVars, timeVars>>
  BY DEF Disable, Goto
<1>2. handling \in Watches /\ watched /\ socket = "open"
  BY <1>1, HandlingParts
<1>3. LoopTypeOK'
  BY <1>1, <1>2 DEF IInv, LoopTypeOK, Live
<1>4. WatchInv' /\ EventInv'
  BY <1>1, <1>2 DEF IInv, LoopTypeOK, WatchInv, EventInv, Live
<1> QED BY <1>1, <1>2, <1>3, <1>4, StepFrame DEF IInv

(* The socket is read: it may turn out to be closed. *)
LEMMA ReadParts ==
  ASSUME IInv, ReadSocket, socket = "open"
  PROVE  /\ arrived' \in BOOLEAN /\ queue' \in 0 .. MaxQueue
         /\ context' \in [Watches -> {"none", "deleted"} \union Live]
         /\ socket' \in {"open", "closed"}
         /\ \A w \in Watches : context[w] # "none" => context'[w] # "none"
         /\ socket' = "open" => context' = context
         /\ socket' = "closed" => \A w \in Watches : context'[w] \notin Live
<1>1. Enqueued \in 0 .. MaxQueue
  BY QueueAssumption DEF Enqueued, IInv, LoopTypeOK
<1>2. CASE Disconnect
  BY <1>2, DisconnectParts
<1>3. CASE ~Disconnect
  BY <1>1, <1>3 DEF ReadSocket, IInv, LoopTypeOK
<1> QED BY <1>2, <1>3

LEMMA ReadFrame ==
  ASSUME IInv, ReadSocket, socket = "open", UNCHANGED busVars,
         UNCHANGED <<refs, filter, watched, wanted, missed, timeVars>>,
         step' = step \/ (step # "dispatch" /\ step' # "dispatch" /\ ~nested),
         \/ at \in Watching
         \/ at = "thrown" /\ fault \in {"timeouts", "register", "again"}
  PROVE  BusTypes' /\ SocketInv' /\ FunctionsInv' /\ RefsInv' /\ NothingYet' /\ WatchInv' /\ TimerInv'
<1> USE DEF Unopened, Watching, Holding
<1>1. BusTypes' /\ FunctionsInv' /\ TimerInv'
  BY DEF IInv, BusTypes, FunctionsInv, TimerInv
<1>2. SocketInv' /\ NothingYet' /\ RefsInv'
  BY ReadParts DEF IInv, SocketInv, NothingYet, RefsInv, Holds, Uses
<1>3. WatchInv'
  BY ReadParts DEF IInv, WatchInv
<1> QED BY <1>1, <1>2, <1>3

LEMMA HandleStep ==
  ASSUME IInv, Handle, UNCHANGED busVars, ~nested
  PROVE  IInv'
<1>1. /\ step = "handle" /\ Alive /\ step' = "ref" /\ handling' = handling
      /\ UNCHANGED <<refs, filter, hungup, watched, wanted, missed, timeVars>>
  BY DEF Handle, Goto
<1>2. handling \in Watches /\ socket = "open"
      /\ \/ at \in Watching
         \/ at = "thrown" /\ fault \in {"timeouts", "register", "again"}
  BY <1>1, HandlingParts
<1>3. CASE ReadSocket
  <2>1. LoopTypeOK' /\ EventInv'
    BY <1>1, <1>2, <1>3, ReadParts, WatchesAssumption DEF IInv, LoopTypeOK, EventInv
  <2> QED BY <1>1, <1>2, <1>3, <2>1, ReadFrame DEF IInv
<1>4. CASE UNCHANGED <<socket, context, arrived, queue>>
  <2>1. LoopTypeOK' /\ WatchInv' /\ EventInv'
    BY <1>1, <1>2, <1>4, WatchesAssumption DEF IInv, LoopTypeOK, WatchInv, EventInv
  <2> QED BY <1>1, <1>2, <1>4, <2>1, StepFrame DEF IInv
<1> QED BY <1>3, <1>4 DEF Handle

LEMMA RefStep ==
  ASSUME IInv, Ref, UNCHANGED busVars, ~nested
  PROVE  IInv'
<1>1. /\ step = "ref" /\ Alive /\ step' = "dispatch" /\ handling' = handling /\ refs' = refs + 1
      /\ UNCHANGED <<socket, filter, trafficVars, watchVars, timeVars>>
  BY DEF Ref, Goto
<1>2. socket = "open"
  BY <1>1, HandlingParts
<1>3. LoopTypeOK' /\ EventInv'
  BY <1>1, HandlingParts DEF IInv, LoopTypeOK, EventInv
<1>4. BusTypes' /\ SocketInv' /\ FunctionsInv' /\ NothingYet' /\ WatchInv' /\ TimerInv'
  BY <1>1, <1>2 DEF IInv, BusTypes, SocketInv, FunctionsInv, NothingYet, WatchInv, TimerInv
<1>5. RefsInv'
  BY <1>1, <1>2 DEF IInv, RefsInv, Holds, Uses, LoopTypeOK
<1> QED BY <1>3, <1>4, <1>5 DEF IInv

LEMMA DispatchStep ==
  ASSUME IInv, Dispatch, UNCHANGED busVars
  PROVE  IInv'
<1> USE DEF Dispatch
<1>1. LoopTypeOK'
  BY QueueAssumption DEF IInv, LoopTypeOK
<1>2. BusTypes' /\ SocketInv' /\ FunctionsInv' /\ NothingYet' /\ WatchInv' /\ TimerInv' /\ EventInv'
  BY DEF IInv, BusTypes, SocketInv, FunctionsInv, NothingYet, WatchInv, TimerInv, EventInv
<1>3. RefsInv'
  BY DEF IInv, RefsInv, Holds, Uses
<1> QED BY <1>1, <1>2, <1>3 DEF IInv

LEMMA QuitLoopStep ==
  ASSUME IInv, QuitLoop, UNCHANGED busVars, ~nested
  PROVE  IInv'
<1>1. /\ step = "dispatch" /\ Alive /\ step' = "idle" /\ handling' = Null /\ Unref
      /\ UNCHANGED <<socket, arrived, hungup, watchVars, timed>>
  BY DEF QuitLoop, Goto
<1>2. refs > 0
  BY <1>1 DEF IInv, RefsInv, Holds, Uses
<1>3. LoopTypeOK' /\ EventInv'
  BY <1>1, <1>2, UnrefParts DEF IInv, LoopTypeOK, EventInv
<1>4. BusTypes' /\ SocketInv' /\ WatchInv'
  BY <1>1 DEF IInv, BusTypes, SocketInv, WatchInv
<1>5. FunctionsInv' /\ NothingYet' /\ TimerInv'
  BY <1>1, <1>2, UnrefParts DEF IInv, FunctionsInv, NothingYet, TimerInv, LoopTypeOK
<1>6. RefsInv'
  BY <1>1, <1>2, UnrefParts DEF IInv, RefsInv, Holds, Uses, SocketInv
<1> QED BY <1>3, <1>4, <1>5, <1>6 DEF IInv

(* Steps that concern timers and traffic only. *)
LEMMA TimerFrame ==
  ASSUME IInv, UNCHANGED busVars, UNCHANGED <<linkVars, watchVars, timed, eventVars, hungup>>,
         socket # "none", arrived' \in BOOLEAN, queue' \in 0 .. MaxQueue,
         timeout' \in [Timeouts -> {"none", "on", "off"}],
         timer' \in [Timeouts -> {"none", "deleted"} \union Live],
         TimerInv',
         refs = 0 => \A t \in Timeouts : timer'[t] \in Live => timer[t] \in Live
  PROVE  IInv'
<1>1. LoopTypeOK'
  BY DEF IInv, LoopTypeOK
<1>2. BusTypes' /\ SocketInv' /\ FunctionsInv' /\ NothingYet' /\ WatchInv' /\ EventInv'
  BY DEF IInv, BusTypes, SocketInv, FunctionsInv, NothingYet, WatchInv, EventInv
<1>3. RefsInv'
  BY DEF IInv, RefsInv, Holds, Uses
<1> QED BY <1>1, <1>2, <1>3 DEF IInv

LEMMA FireStep ==
  ASSUME IInv, NEW t \in Timeouts, Fire(t), UNCHANGED busVars
  PROVE  IInv'
<1>1. /\ timer[t] = "enabled" /\ timeout' = [timeout EXCEPT ![t] = "none"]
      /\ timer' = TimerRemoved(t) /\ queue' = Enqueued
      /\ UNCHANGED <<timed, arrived, hungup, linkVars, watchVars, eventVars>>
  BY DEF Fire
<1>2. timed /\ socket # "none" /\ timer' = [timer EXCEPT ![t] = "deleted"]
  BY <1>1 DEF IInv, TimerInv, NothingYet, TimerRemoved, Live
<1>3. queue' \in 0 .. MaxQueue
  BY <1>1, QueueAssumption DEF Enqueued, IInv, LoopTypeOK
<1>4. TimerInv'
  BY <1>1, <1>2 DEF IInv, TimerInv, LoopTypeOK, Live
<1> QED BY <1>1, <1>2, <1>3, <1>4, TimerFrame DEF IInv, LoopTypeOK, Live

LEMMA TimeoutStep ==
  ASSUME IInv, NEW t \in Timeouts, AddTimeout(t) \/ ToggleTimeout(t) \/ RemoveTimeout(t),
         UNCHANGED busVars
  PROVE  IInv'
<1>1. refs > 0 /\ socket # "none" /\ UNCHANGED <<linkVars, trafficVars, watchVars, timed, eventVars>>
  BY DEF AddTimeout, ToggleTimeout, RemoveTimeout, IInv, NothingYet
<1>2. \E on \in {"none", "on", "off"} :
        /\ timeout' = [timeout EXCEPT ![t] = on]
        /\ \/ ~timed /\ timer' = timer
           \/ /\ timed
              /\ timer' = [timer EXCEPT ![t] = CASE on = "none" -> "deleted"
                                                 [] on = "on" -> "enabled"
                                                 [] on = "off" -> "disabled"]
  <2>1. CASE AddTimeout(t)
    BY <2>1 DEF AddTimeout
  <2>2. CASE RemoveTimeout(t)
    BY <2>2 DEF RemoveTimeout, TimerRemoved
  <2>3. CASE ToggleTimeout(t)
    BY <2>3 DEF ToggleTimeout, OnOff, IInv, LoopTypeOK
  <2> QED BY <2>1, <2>2, <2>3
<1>3. /\ timeout' \in [Timeouts -> {"none", "on", "off"}]
      /\ timer' \in [Timeouts -> {"none", "deleted"} \union Live]
  BY <1>2 DEF IInv, LoopTypeOK, Live
<1>4. TimerInv'
  BY <1>1, <1>2 DEF IInv, TimerInv, LoopTypeOK, Live
<1> QED BY <1>1, <1>3, <1>4, TimerFrame DEF IInv, LoopTypeOK

-----------------------------------------------------------------------------
(* Steps of the world *)

LEMMA TrafficStep ==
  ASSUME IInv, Arrive \/ HangUp, UNCHANGED busVars
  PROVE  IInv'
<1> USE DEF Arrive, HangUp
<1>1. LoopTypeOK'
  BY DEF IInv, LoopTypeOK
<1>2. BusTypes' /\ SocketInv' /\ FunctionsInv' /\ NothingYet' /\ WatchInv' /\ TimerInv' /\ EventInv'
  BY DEF IInv, BusTypes, SocketInv, FunctionsInv, NothingYet, WatchInv, TimerInv, EventInv
<1>3. RefsInv'
  BY DEF IInv, RefsInv, Holds, Uses
<1> QED BY <1>1, <1>2, <1>3 DEF IInv

LEMMA ToggleStep ==
  ASSUME IInv, NEW w \in Watches, Toggle(w), UNCHANGED busVars
  PROVE  IInv'
<1>1. /\ socket = "open" /\ wanted' = [wanted EXCEPT ![w] = ~@]
      /\ context' = (IF context[w] \in Live /\ watched
                       THEN [context EXCEPT ![w] = OnOff(~wanted[w])]
                       ELSE context)
      /\ missed' = missed \ {w}
      /\ UNCHANGED <<watched, linkVars, trafficVars, timeVars, eventVars>>
  BY DEF Toggle
<1>2. /\ context' \in [Watches -> {"none", "deleted"} \union Live]
      /\ wanted' \in [Watches -> BOOLEAN]
  BY <1>1 DEF IInv, LoopTypeOK, Live, OnOff
<1>3. LoopTypeOK'
  BY <1>1, <1>2 DEF IInv, LoopTypeOK
<1>4. WatchInv' /\ EventInv'
  BY <1>1 DEF IInv, WatchInv, EventInv, LoopTypeOK, Live, OnOff
<1>5. BusTypes' /\ SocketInv' /\ FunctionsInv' /\ NothingYet' /\ TimerInv'
  BY <1>1 DEF IInv, BusTypes, SocketInv, FunctionsInv, NothingYet, TimerInv
<1>6. RefsInv'
  BY <1>1 DEF IInv, RefsInv, Holds, Uses
<1> QED BY <1>3, <1>4, <1>5, <1>6 DEF IInv

LEMMA ReadByCallStep ==
  ASSUME IInv, ReadByCall, at = "live", UNCHANGED busVars
  PROVE  IInv'
<1>1. /\ socket = "open" /\ ReadSocket
      /\ UNCHANGED <<refs, filter, hungup, watched, wanted, missed, timeVars, eventVars>>
  BY DEF ReadByCall
<1>2. LoopTypeOK' /\ EventInv'
  BY <1>1, ReadParts DEF IInv, LoopTypeOK, EventInv
<1>3. at \in Watching
  BY DEF Watching
<1> QED BY <1>1, <1>2, <1>3, ReadFrame DEF IInv

LEMMA NextInv == IInv /\ [Next]_vars => IInv'
<1> SUFFICES ASSUME IInv, [Next]_vars PROVE IInv'
  OBVIOUS
<1>1. CASE UNCHANGED <<loopVars, busVars>>
  <2>1. LoopTypeOK' /\ BusTypes' /\ SocketInv' /\ FunctionsInv'
    BY <1>1 DEF IInv, LoopTypeOK, BusTypes, SocketInv, FunctionsInv
  <2>2. RefsInv' /\ NothingYet' /\ WatchInv' /\ TimerInv' /\ EventInv'
    BY <1>1 DEF IInv, RefsInv, Holds, Uses, NothingYet, WatchInv, TimerInv, EventInv
  <2> QED BY <2>1, <2>2 DEF IInv
<1>2. CASE Loop(LoopStep)
  <2>1. ~nested /\ UNCHANGED busVars /\ LoopStep
    BY <1>2 DEF Loop, LoopFree
  <2> QED BY <2>1, PollStep, CheckStep, DisableStep, HandleStep, RefStep, DispatchStep,
             QuitLoopStep, FireStep
      DEF LoopStep, EventStep, Done, NoMemory
<1>3. CASE Called
  <2>1. at = "live" /\ CallStep /\ UNCHANGED busVars
    BY <1>3 DEF Called
  <2> QED BY <2>1, ReadByCallStep, TimeoutStep DEF CallStep
<1>4. CASE World
  <2>1. WorldStep /\ UNCHANGED busVars
    BY <1>4 DEF World
  <2> QED BY <2>1, TrafficStep, ToggleStep, TimeoutStep DEF WorldStep
<1>5. CASE OtherUser \/ Rest \/ UNCHANGED vars
  <2>1. UNCHANGED <<loopVars, busVars>>
    BY <1>5 DEF OtherUser, Rest, vars
  <2> QED BY <2>1, <1>1
<1> QED BY <1>2, <1>3, <1>4, <1>5, ObjectInv DEF Next

LEMMA Invariance == Spec => []IInv
<1> QED BY InitInv, NextInv, PTL DEF Spec

-----------------------------------------------------------------------------
(* The effective user id *)

(* One caller of exec at a time; until an id is not restored, it has saved *)
(* the process's own. *)
UserInv ==
    /\ UserTypeOK
    /\ \A u, v \in inside : u = v
    /\ \A u \in inside : euid = u
    /\ ~stranded => \A u \in inside : saved[u] = App
    /\ ~stranded /\ inside = {} => euid = App

(* What a step does to the id is one of four, or nothing. *)
LEMMA UserSteps ==
  ASSUME [Next]_vars
  PROVE  \/ UNCHANGED userVars
         \/ \E u \in Users : Enter(u) \/ Leave(u) \/ LeaveStranded(u)
<1>1. CASE ObjectStep
  <2> USE BusAssumption
  <2>1. CASE Scan \/ ScanEnds \/ ScanFails \/ OpenUser \/ OpenUserEnds \/ OpenUserFails
    BY <2>1 DEF Scan, ScanEnds, ScanFails, OpenUser, OpenUserEnds, OpenUserFails
  <2>2. CASE SwitchFails \/ RestoreFails
    BY <2>2 DEF SwitchFails, RestoreFails, EnterFails
  <2>3. CASE OpenNamed \/ OpenNamedFails \/ Construct \/ AttachWatches \/ AttachTimeouts
    BY <2>3 DEF OpenNamed, OpenNamedFails, Construct, AttachWatches, AttachTimeouts, Idle
  <2>4. CASE ConstructFails \/ WatchesFail \/ TimeoutsFail \/ RegisterFails
    BY <2>4 DEF ConstructFails, WatchesFail, TimeoutsFail, RegisterFails, Release
  <2>5. CASE Register \/ RegisterAgain \/ CloseAgain \/ RegisterAgainFails
    BY <2>5 DEF Register, RegisterAgain, CloseAgain, RegisterAgainFails, Release, Idle
  <2>6. CASE Clear \/ Detach \/ CloseBus \/ Destroy
    BY <2>6 DEF Clear, Detach, CloseBus, Destroy, Release
  <2> QED BY <1>1, <2>1, <2>2, <2>3, <2>4, <2>5, <2>6 DEF ObjectStep
<1>2. CASE Loop(LoopStep) \/ Called \/ World \/ Rest \/ UNCHANGED vars
  BY <1>2 DEF Loop, Called, World, Rest, vars
<1>3. CASE OtherUser
  BY <1>3 DEF OtherUser
<1> QED BY <1>1, <1>2, <1>3 DEF Next

LEMMA UserInvariance == Spec => []UserInv
<1>1. Init => UserInv
  BY DEF Init, UserInit, UserInv, UserTypeOK
<1>2. UserInv /\ [Next]_vars => UserInv'
  <2> SUFFICES ASSUME UserInv, [Next]_vars PROVE UserInv'
    OBVIOUS
  <2>1. CASE UNCHANGED userVars
    BY <2>1 DEF UserInv, UserTypeOK
  <2>2. ASSUME NEW u \in Users, Enter(u) PROVE UserInv'
    BY <2>2 DEF Enter, UserInv, UserTypeOK
  <2>3. ASSUME NEW u \in Users, Leave(u) PROVE UserInv'
    BY <2>3 DEF Leave, UserInv, UserTypeOK
  <2>4. ASSUME NEW u \in Users, LeaveStranded(u) PROVE UserInv'
    BY <2>4 DEF LeaveStranded, UserInv, UserTypeOK
  <2> QED BY <2>1, <2>2, <2>3, <2>4, UserSteps
<1> QED BY <1>1, <1>2, PTL DEF Spec

(* The object's own thread takes exec's mutex and gives it back. *)
ExecInv == Bus \in inside <=> at \in {"scanning", "opening"}

LEMMA ExecStep ==
  ASSUME ObjectStep, ExecInv, UserInv
  PROVE  ExecInv'
<1> USE BusAssumption
<1>1. CASE Scan \/ OpenUser
  BY <1>1 DEF Scan, OpenUser, Enter, Trans, ExecInv
<1>2. CASE ScanEnds \/ ScanFails \/ OpenUserEnds \/ OpenUserFails
  BY <1>2 DEF ScanEnds, ScanFails, OpenUserEnds, OpenUserFails, Leave, Trans, Throws, ExecInv
<1>3. CASE SwitchFails \/ RestoreFails
  BY <1>3 DEF SwitchFails, RestoreFails, EnterFails, LeaveStranded, Throws, ExecInv
<1>4. CASE OpenNamed \/ OpenNamedFails \/ Construct \/ AttachWatches \/ AttachTimeouts
  BY <1>4 DEF OpenNamed, OpenNamedFails, Construct, AttachWatches, AttachTimeouts, Idle, Trans,
       Throws, ExecInv
<1>5. CASE ConstructFails \/ WatchesFail \/ TimeoutsFail \/ RegisterFails
  BY <1>5 DEF ConstructFails, WatchesFail, TimeoutsFail, RegisterFails, Release, Throws, ExecInv
<1>6. CASE Register \/ RegisterAgain \/ CloseAgain \/ RegisterAgainFails
  BY <1>6 DEF Register, RegisterAgain, CloseAgain, RegisterAgainFails, Release, Idle, Trans,
       ExecInv
<1>7. CASE Clear \/ Detach \/ CloseBus \/ Destroy
  BY <1>7 DEF Clear, Clearing, Detach, CloseBus, Destroy, Release, Trans, ExecInv
<1> QED BY <1>1, <1>2, <1>3, <1>4, <1>5, <1>6, <1>7 DEF ObjectStep

LEMMA ExecInvariance == Spec => []ExecInv
<1>1. Init => ExecInv
  BY DEF Init, UserInit, ExecInv
<1>2. ExecInv /\ UserInv /\ [Next]_vars => ExecInv'
  <2> SUFFICES ASSUME ExecInv, UserInv, [Next]_vars PROVE ExecInv'
    OBVIOUS
  <2>1. CASE ObjectStep
    BY <2>1, ExecStep
  <2>2. CASE Loop(LoopStep) \/ Called \/ World \/ Rest \/ UNCHANGED vars
    BY <2>2 DEF Loop, Called, World, Rest, vars, ExecInv
  <2>3. ASSUME NEW u \in Users \ {Bus}, Enter(u) \/ Leave(u) \/ LeaveStranded(u), UNCHANGED at
        PROVE  ExecInv'
    BY <2>3 DEF Enter, Leave, LeaveStranded, ExecInv
  <2>4. CASE OtherUser
    BY <2>3, <2>4 DEF OtherUser
  <2> QED BY <2>1, <2>2, <2>3, <2>4 DEF Next
<1> QED BY <1>1, <1>2, UserInvariance, PTL DEF Spec

-----------------------------------------------------------------------------
(* Theorems *)

(* Every variable stays in its range: references are never dropped twice. *)
THEOREM TypeCorrect == Spec => []TypeOK
<1>1. IInv /\ UserInv => TypeOK
  BY DEF IInv, UserInv, BusTypes, TypeOK, Unopened, Holding, Watching
<1> QED BY <1>1, Invariance, UserInvariance, PTL

(* Only a peer that hangs up and the destructor delete the context that    *)
(* handle_event runs in. *)
THEOREM HandlerCorrect == Spec => []HandlerAlive
<1>1. IInv => HandlerAlive
  BY DEF IInv, EventInv, WatchInv, HandlerAlive, UsesDeleted, Alive
<1> QED BY <1>1, Invariance, PTL

(* The main loop's handlers and timers follow libdbus' watches and         *)
(* timeouts, but for a watch that is enabled while handle_event disables. *)
THEOREM LoopCorrect == Spec => []LoopFollows
<1>1. IInv => LoopFollows
  BY DEF IInv, WatchInv, TimerInv, LoopFollows
<1> QED BY <1>1, Invariance, PTL

(* Nothing of a connection is left after the destructor, nor after a       *)
(* constructor that throws before it is open or because of UserBus' second *)
(* registration. *)
THEOREM LeftoverCorrect == Spec => []LeavesNothing
<1>1. IInv => LeavesNothing
  <2> SUFFICES ASSUME IInv PROVE LeavesNothing
    OBVIOUS
  <2> USE DEF Watching, Holding, Unopened
  <2>1. ASSUME at = "gone" PROVE Clean
    BY <2>1 DEF IInv, SocketInv, FunctionsInv, RefsInv, Holds, Uses, WatchInv, TimerInv, Clean
  <2>2. ASSUME at = "thrown", fault \in {"scan", "switch", "open"} PROVE Clean
    BY <2>2 DEF IInv, SocketInv, NothingYet, Clean, Live
  <2>3. ASSUME at = "thrown", fault = "again", step # "dispatch" PROVE Clean
    <3>1. socket = "closed" /\ refs = 0
      BY <2>3 DEF IInv, SocketInv, RefsInv, Holds, Uses
    <3> QED BY <2>3, <3>1 DEF IInv, RefsInv, WatchInv, Clean
  <2> QED BY <2>1, <2>2, <2>3 DEF LeavesNothing
<1> QED BY <1>1, Invariance, PTL

(* A function that UserBus runs as a user runs as that user. *)
THEOREM UserCorrect == Spec => []RunsAsUser
<1>1. UserInv => RunsAsUser
  BY DEF UserInv, RunsAsUser
<1> QED BY <1>1, UserInvariance, PTL

(* Nobody waits for what never comes: exec's mutex is given back on every  *)
(* way out of the functions that the constructor runs, a destructor in a   *)
(* callback meets the loop in dispatch, and no reference that handle_event *)
(* has taken is dropped by another.                                        *)
THEOREM NobodyStuck == Spec => []StepsReady
<1>1. IInv /\ UserInv /\ ExecInv => StepsReady
  <2> SUFFICES ASSUME IInv, UserInv, ExecInv PROVE StepsReady
    OBVIOUS
  <2>1. ~LoopFree => step = "dispatch" /\ at \in {"cleared", "detached", "closed"}
    BY DEF IInv, FunctionsInv, LoopFree
  <2>2. step = "dispatch" => refs > 0
    BY DEF IInv, RefsInv, Uses, Holds
  <2> QED BY <2>1, <2>2 DEF IInv, EventInv, UserInv, ExecInv, StepsReady
<1> QED BY <1>1, Invariance, UserInvariance, ExecInvariance, PTL


(* Until the peer hangs up, the connection of an object that is not being  *)
(* destroyed is open.                                                      *)
OpenInv == at \in Holding \ {"detached", "closed", "closing"} /\ ~hungup => socket = "open"

LEMMA OpenStep == IInv /\ OpenInv /\ [Next]_vars => OpenInv'
<1> SUFFICES ASSUME IInv, OpenInv, [Next]_vars PROVE OpenInv'
  OBVIOUS
<1> USE DEF Holding, Watching, OpenInv
<1>1. CASE ObjectStep
  <2>1. CASE \/ OpenNamed \/ OpenNamedFails \/ Scan \/ ScanEnds \/ ScanFails
            \/ OpenUser \/ OpenUserEnds \/ OpenUserFails \/ SwitchFails \/ RestoreFails
    BY <2>1 DEF OpenNamed, OpenNamedFails, Scan, ScanEnds, ScanFails, OpenUser,
         OpenUserEnds, OpenUserFails, SwitchFails, RestoreFails, Trans, Throws, Connect, Idle
  <2>2. CASE \/ Construct \/ ConstructFails \/ AttachWatches \/ WatchesFail
            \/ AttachTimeouts \/ TimeoutsFail
    BY <2>2 DEF Construct, ConstructFails, AttachWatches, WatchesFail, AttachTimeouts,
         TimeoutsFail, Trans, Throws, Release
  <2>3. CASE \/ Register \/ RegisterFails \/ RegisterAgain \/ CloseAgain \/ RegisterAgainFails
            \/ Clear \/ Detach \/ CloseBus \/ Destroy
    BY <2>3 DEF Register, RegisterFails, RegisterAgain, CloseAgain, RegisterAgainFails,
         Clear, Clearing, Detach, CloseBus, Destroy, Trans, Throws, Release, Idle
  <2> QED BY <1>1, <2>1, <2>2, <2>3 DEF ObjectStep
<1>2. ASSUME ReadSocket \/ UNCHANGED socket, hungup' = hungup \/ hungup', UNCHANGED busVars
      PROVE  OpenInv'
  BY <1>2 DEF ReadSocket, Disconnect
<1>3. CASE Loop(LoopStep) \/ Called \/ World
  <2>1. /\ ReadSocket \/ UNCHANGED socket
        /\ hungup' = hungup \/ hungup'
        /\ UNCHANGED busVars
    <3>1. CASE Loop(LoopStep)
      BY <3>1 DEF Loop, LoopStep, EventStep, Poll, Fire, Check, Disable, Handle, HandleFails,
           Ref, Dispatch, Done, NoMemory, QuitLoop
    <3>2. CASE Called
      BY <3>2 DEF Called, CallStep, ReadByCall, AddTimeout
    <3>3. CASE World
      BY <3>3 DEF World, WorldStep, Arrive, HangUp, Toggle, ToggleTimeout, RemoveTimeout
    <3> QED BY <1>3, <3>1, <3>2, <3>3
  <2> QED BY <1>2, <2>1
<1>4. CASE OtherUser \/ Rest \/ UNCHANGED vars
  BY <1>4 DEF OtherUser, Rest, vars
<1> QED BY <1>1, <1>3, <1>4 DEF Next

(* A peer that hangs up is all that makes handle_event read a context that *)
(* is not there any more while the bus object lives.                       *)
THEOREM RunsUntilHangUp == Spec => [](~hungup => KeepsRunning)
<1>1. Init => OpenInv
  BY DEF Init, OpenInv, Holding, Watching
<1>2. IInv /\ OpenInv => (~hungup => KeepsRunning)
  BY DEF IInv, OpenInv, Holding, Watching, EventInv, WatchInv, KeepsRunning, Alive
<1> QED BY <1>1, <1>2, OpenStep, Invariance, PTL DEF Spec

-----------------------------------------------------------------------------
(* Liveness *)

(* The read watch is always wanted, so that handle_event never disables it. *)
ReaderInv ==
    /\ wanted[Reader] /\ Reader \notin missed
    /\ step = "disable" => handling # Reader

LEMMA ReaderStep == IInv /\ ReaderInv /\ [Next]_vars => ReaderInv'
<1> SUFFICES ASSUME IInv, ReaderInv, [Next]_vars PROVE ReaderInv'
  OBVIOUS
<1>1. CASE UNCHANGED <<wanted, missed, eventVars>>
  BY <1>1 DEF ReaderInv
<1>2. CASE ObjectStep
  <2>1. CASE \/ OpenNamed \/ OpenNamedFails \/ Scan \/ ScanEnds \/ ScanFails
            \/ OpenUser \/ OpenUserEnds \/ OpenUserFails \/ SwitchFails \/ RestoreFails
    BY <1>1, <2>1 DEF OpenNamed, OpenNamedFails, Scan, ScanEnds, ScanFails, OpenUser,
         OpenUserEnds, OpenUserFails, SwitchFails, RestoreFails, Idle
  <2>2. CASE \/ Construct \/ ConstructFails \/ AttachWatches \/ WatchesFail
            \/ AttachTimeouts \/ TimeoutsFail
    BY <1>1, <2>2 DEF Construct, ConstructFails, AttachWatches, WatchesFail, AttachTimeouts,
         TimeoutsFail, Release
  <2>3. CASE \/ Register \/ RegisterFails \/ RegisterAgain \/ CloseAgain \/ RegisterAgainFails
            \/ Clear \/ Detach \/ CloseBus \/ Destroy
    BY <1>1, <2>3 DEF Register, RegisterFails, RegisterAgain, CloseAgain, RegisterAgainFails,
         Clear, Detach, CloseBus, Destroy, Release, Idle
  <2> QED BY <1>2, <2>1, <2>2, <2>3 DEF ObjectStep
<1>3. CASE Loop(LoopStep)
  <2>1. CASE (\E w \in Watches : Poll(w)) \/ Handle \/ HandleFails \/ Ref \/ Dispatch
            \/ QuitLoop
    BY <2>1 DEF ReaderInv, Poll, Handle, HandleFails, Ref, Dispatch, QuitLoop, Goto
  <2>2. CASE Check
    BY <2>2 DEF ReaderInv, Check, Goto
  <2>3. CASE Disable
    BY <2>3 DEF ReaderInv, Disable, Goto
  <2>4. CASE \E t \in Timeouts : Fire(t)
    BY <2>4, <1>1 DEF Fire
  <2> QED BY <1>3, <2>1, <2>2, <2>3, <2>4 DEF Loop, LoopStep, EventStep, Done, NoMemory
<1>4. CASE Called
  BY <1>1, <1>4 DEF Called, CallStep, ReadByCall, AddTimeout
<1>5. CASE World
  <2>1. ASSUME NEW w \in Watches, Toggle(w) PROVE ReaderInv'
    BY <2>1, WatchesAssumption DEF ReaderInv, Toggle, IInv, LoopTypeOK
  <2>2. CASE Arrive \/ HangUp \/ \E t \in Timeouts : ToggleTimeout(t) \/ RemoveTimeout(t)
    BY <1>1, <2>2 DEF Arrive, HangUp, ToggleTimeout, RemoveTimeout
  <2> QED BY <1>5, <2>1, <2>2 DEF World, WorldStep
<1>6. CASE OtherUser \/ Rest \/ UNCHANGED vars
  BY <1>1, <1>6 DEF OtherUser, Rest, vars
<1> QED BY <1>2, <1>3, <1>4, <1>5, <1>6 DEF Next

LEMMA ReaderInvariance == Spec => []ReaderInv
<1>1. Init => ReaderInv
  BY WatchesAssumption DEF Init, LoopInit, ReaderInv
<1> QED BY <1>1, ReaderStep, Invariance, PTL DEF Spec

(* A message waits for the main loop, of an object that is there. *)
Waits == at = "live" /\ queue > 0 /\ socket = "open"

ReaderChecked == step = "check" /\ handling = Reader

Past == step \in {"ref", "dispatch"}

(* Then the main loop's thread is free for its handlers, which are there.  *)
LEMMA WaitsReady ==
  ASSUME IInv, ReaderInv, Waits
  PROVE  /\ LoopFree
         /\ step # "idle" => Alive
         /\ context[Reader] = "enabled"
BY WatchesAssumption
DEF IInv, ReaderInv, Waits, LoopFree, FunctionsInv, WatchInv, EventInv, Alive, Watching

(* What becomes of an event meanwhile: handle_event goes on, and it does   *)
(* not end, once it is past dbus_watch_handle, before the queue is empty,  *)
(* if there is memory.                                                     *)
LEMMA WaitsStep ==
  ASSUME IInv, ReaderInv, [Next]_vars, Waits
  PROVE  /\ Past => Past' \/ Loop(NoMemory)
         /\ ReaderChecked => ReaderChecked' \/ step' = "handle"
         /\ ReaderChecked /\ Loop(EventStep) => step' = "handle"
         /\ Loop(Handle) => Past'
         /\ Loop(Poll(Reader)) => ReaderChecked'
<1>1. CASE UNCHANGED eventVars
  <2>1. ~Loop(Handle) /\ ~Loop(Poll(Reader)) /\ (ReaderChecked => ~Loop(EventStep))
    BY <1>1, WatchesAssumption
    DEF Loop, Handle, Poll, EventStep, Check, Disable, HandleFails, Ref, Dispatch, Done,
        NoMemory, QuitLoop, Goto, ReaderChecked
  <2> QED BY <1>1, <2>1 DEF Past, ReaderChecked
<1>2. CASE Loop(EventStep)
  <2>1. CASE Check
    BY <2>1, WatchesAssumption
    DEF Check, Goto, ReaderInv, Past, ReaderChecked, Loop, Handle, Poll
  <2>2. CASE Disable \/ Handle \/ HandleFails \/ Ref
    BY <2>2 DEF Disable, Handle, HandleFails, Ref, Goto, Past, ReaderChecked, Loop, Poll
  <2>3. CASE Dispatch
    BY <1>1, <2>3 DEF Dispatch
  <2>4. ~Done
    BY DEF Done, Waits, IInv, LoopTypeOK
  <2>5. CASE NoMemory
    <3>1. Loop(NoMemory) /\ ~ReaderChecked /\ ~Handle /\ ~Poll(Reader)
      BY <1>2, <2>5 DEF Loop, NoMemory, QuitLoop, Goto, ReaderChecked, Handle, Poll
    <3> QED BY <3>1 DEF Loop
  <2> QED BY <1>2, <2>1, <2>2, <2>3, <2>4, <2>5 DEF Loop, EventStep
<1>3. ASSUME NEW w \in Watches, Loop(Poll(w)) PROVE ~Past /\ ~ReaderChecked /\ step' = "check"
  BY <1>3 DEF Loop, Poll, Past, ReaderChecked
<1>4. \/ UNCHANGED eventVars \/ Loop(EventStep)
      \/ \E w \in Watches : Loop(Poll(w))
  <2>1. CASE Loop(LoopStep)
    BY <2>1 DEF Loop, LoopStep, Fire
  <2>2. CASE Called \/ World \/ OtherUser \/ Rest \/ UNCHANGED vars
    BY <2>2 DEF Called, CallStep, ReadByCall, AddTimeout, World, WorldStep, Arrive, HangUp,
         Toggle, ToggleTimeout, RemoveTimeout, OtherUser, Rest, vars
  <2>3. CASE ObjectStep
    <3>1. Clear
      BY <2>3 DEF ObjectStep, Waits, OpenNamed, OpenNamedFails, Scan, ScanEnds, ScanFails,
           OpenUser, OpenUserEnds, OpenUserFails, SwitchFails, RestoreFails, Construct,
           ConstructFails, AttachWatches, WatchesFail, AttachTimeouts, TimeoutsFail, Register,
           RegisterFails, RegisterAgain, CloseAgain, RegisterAgainFails, Detach, CloseBus,
           Destroy, Trans, Throws
    <3> QED BY <3>1 DEF Clear
  <2> QED BY <2>1, <2>2, <2>3 DEF Next
<1>5. CASE \E w \in Watches : Loop(Poll(w))
  BY <1>3, <1>5 DEF Loop, Handle, EventStep, Check, Disable, HandleFails, Ref, Dispatch, Done,
       NoMemory, QuitLoop, Poll, ReaderChecked, Past
<1> QED BY <1>1, <1>2, <1>4, <1>5

(* A queued message is dispatched, with the exception that QueueDispatched *)
(* names, under the fairness of FairSpec, if each of the steps that it is  *)
(* about is possible when StepsEnabled says so (the one thing that only    *)
(* the run shows: a formula with ENABLED).                                 *)
THEOREM QueueServed == FairSpec /\ []StepsEnabled => QueueDispatched
<1>1. StepsEnabled =>
        /\ LoopFree /\ step # "idle" /\ Alive => ENABLED <<Loop(EventStep)>>_vars
        /\ LoopFree /\ step = "handle" /\ Alive => ENABLED <<Loop(Handle)>>_vars
        /\ LoopFree /\ step = "idle" /\ context[Reader] = "enabled" /\ arrived =>
             ENABLED <<Loop(Poll(Reader))>>_vars
  BY DEF StepsEnabled
<1>2. IInv /\ ReaderInv /\ Waits =>
        /\ LoopFree
        /\ step # "idle" => Alive
        /\ context[Reader] = "enabled"
  BY WaitsReady
<1>3. IInv /\ ReaderInv /\ [Next]_vars /\ Waits =>
        /\ [~Loop(NoMemory)]_vars /\ Past => Past'
        /\ ReaderChecked => ReaderChecked' \/ (step = "handle")'
        /\ ReaderChecked /\ <<Loop(EventStep)>>_vars => (step = "handle")'
        /\ <<Loop(Handle)>>_vars => Past'
        /\ <<Loop(Poll(Reader))>>_vars => ReaderChecked'
  <2>1. UNCHANGED vars => (Past => Past')
    BY DEF vars, Past
  <2> QED BY <2>1, WaitsStep
<1>4. /\ ReaderChecked => step # "idle"
      /\ step = "handle" => step # "idle"
      /\ Past => ~(step = "idle")
  BY DEF ReaderChecked, Past
<1>5. IInv => (at = "live" /\ queue > 0 => Waits \/ socket # "open")
  BY DEF Waits
<1>6. IInv => (~Waits => queue = 0 \/ at # "live" \/ socket # "open")
  BY DEF Waits, IInv, LoopTypeOK
<1>7. FairSpec => Spec /\ GoesOn /\ Comes /\ Succeeds /\ Remembers
  BY DEF FairSpec
<1> QED
  BY <1>1, <1>2, <1>3, <1>4, <1>5, <1>6, <1>7, Invariance, ReaderInvariance, PTL
  DEF Spec, GoesOn, Comes, Succeeds, Remembers, QueueDispatched
=============================================================================
