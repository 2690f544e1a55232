-------------------------- MODULE PendingCallProofs --------------------------
(***************************************************************************)
(* Theorems about PendingCall, for any calls on any threads and any set of *)
(* faults.  The steps of one call change nothing of another (Frame), so    *)
(* the invariant is one of a single call: CallInv(k).                      *)
(***************************************************************************)
EXTENDS PendingCall, TLAPS

USE DEF One, Awaited, callerVars, pendingVars, paramsVars, loopVars

-----------------------------------------------------------------------------
(* The inductive invariant *)

(* The caller's reference of the pending call; without a slot it is never  *)
(* given back.                                                             *)
CallerHolds(k) == InCall(k) \/ "slot" \in failed[k]

LoopHolds(k) == Awaited(k) \/ delivering = k

(* What libdbus knows of the call, and who holds it.                       *)
PendingInv(k) ==
    /\ pending[k] = "none" <=> at[k] = "idle" \/ "send" \in failed[k]
    /\ delivering = k => pending[k] = "completed"
    /\ refs[k] = One(CallerHolds(k)) + One(LoopHolds(k))
    /\ pending[k] = "finalised" <=> pending[k] # "none" /\ refs[k] = 0

(* The faults tell where call() was left.                                  *)
FaultInv(k) ==
    /\ failed[k] \subseteq {"send", "slot", "set_data", "set_notify"}
    /\ at[k] = "thrown" <=> failed[k] \cap {"send", "slot", "set_notify"} # {}
    /\ "send" \in failed[k] => failed[k] = {"send"}
    /\ "slot" \in failed[k] => failed[k] = {"slot"}
    /\ at[k] \in {"idle", "sent", "made"} => failed[k] = {}

(* The slot has the parameters once set_data has put them there.           *)
StoredInv(k) ==
    stored[k] <=>
        /\ at[k] \in {"filed", "armed", "returned"} \/ "set_notify" \in failed[k]
        /\ "set_data" \notin failed[k]

(* The parameters are deleted with the pending call, and by the error path *)
(* of set_notify.                                                          *)
ParametersInv(k) ==
    /\ params[k] = "none" <=> at[k] \in {"idle", "sent"} \/ "send" \in failed[k]
    /\ deletes[k] = One(stored[k] /\ pending[k] = "finalised")
                        + One("set_notify" \in failed[k])
    /\ params[k] = "deleted" <=> deletes[k] > 0

(* A notify function is set at the end of call().                          *)
NotifyInv(k) == notify[k] => at[k] \in {"armed", "returned"}

MessageInv(k) ==
    /\ message[k] = One(InCall(k)) + One(queued[k])
                     - One("set_notify" \in failed[k])
    /\ queued[k] => pending[k] # "none"

(* A callback whose notify function is set is called when libdbus has done *)
(* with the call.                                                          *)
HeardInv(k) == answered[k] = One(notify[k] /\ ~LoopHolds(k))

(* While the main loop's thread is in call(), nothing completes; the       *)
(* notify function is set in time.                                         *)
MainInv(k) ==
    k \in OnMain =>
        /\ InCall(k) => Awaited(k)
        /\ at[k] \in {"armed", "returned"} => notify[k]

CallInv(k) ==
    /\ PendingInv(k)
    /\ FaultInv(k)
    /\ StoredInv(k)
    /\ ParametersInv(k)
    /\ NotifyInv(k)
    /\ MessageInv(k)
    /\ HeardInv(k)
    /\ MainInv(k)

(* A pending call is completed in the loop of handle_event. *)
LoopInv == delivering # Null => dispatching

(* The inductive invariant. *)
IInv == TypeOK /\ LoopInv /\ (\A k \in Calls : CallInv(k))

(* What a step leaves alone of a call. *)
Same(j) ==
    /\ at'[j] = at[j]
    /\ pending'[j] = pending[j]
    /\ refs'[j] = refs[j]
    /\ notify'[j] = notify[j]
    /\ stored'[j] = stored[j]
    /\ params'[j] = params[j]
    /\ deletes'[j] = deletes[j]
    /\ message'[j] = message[j]
    /\ queued'[j] = queued[j]
    /\ answered'[j] = answered[j]
    /\ failed'[j] = failed[j]
    /\ delivering' = j <=> delivering = j

CallStep(k) == Send(k) \/ SendFails(k) \/ Step(k) \/ Write(k) \/ Loop(k)

-----------------------------------------------------------------------------
(* One action at a time *)

(* Caller and library get a reference each, of pending call and message. *)
LEMMA SendStep ==
    ASSUME IInv, NEW k \in Calls, Send(k)
    PROVE  CallInv(k)'
<1> USE CallsAssumption, FaultsAssumption
<1>1. TypeOK /\ CallInv(k)
  BY DEF IInv
<1>2. PendingInv(k)' /\ FaultInv(k)'
  BY <1>1 DEF TypeOK, Send, Begins, Goto, CallInv, PendingInv, FaultInv, InCall,
       CallerHolds, LoopHolds
<1>3. StoredInv(k)' /\ ParametersInv(k)'
  BY <1>1 DEF TypeOK, Send, Begins, Goto, CallInv, PendingInv, FaultInv,
       StoredInv, ParametersInv, InCall, CallerHolds, LoopHolds
<1>4. NotifyInv(k)' /\ MessageInv(k)' /\ HeardInv(k)' /\ MainInv(k)'
  BY <1>1 DEF TypeOK, Send, Begins, Goto, CallInv, PendingInv, FaultInv,
       NotifyInv, MessageInv, HeardInv, MainInv, InCall, CallerHolds, LoopHolds
<1> QED
  BY <1>2, <1>3, <1>4 DEF CallInv

(* Nothing was made. *)
LEMMA SendFailsStep ==
    ASSUME IInv, NEW k \in Calls, SendFails(k)
    PROVE  CallInv(k)'
<1> USE CallsAssumption, FaultsAssumption
<1>1. TypeOK /\ CallInv(k)
  BY DEF IInv
<1>2. PendingInv(k)' /\ FaultInv(k)'
  BY <1>1 DEF TypeOK, SendFails, Begins, Fails, Goto, CallInv, PendingInv,
       FaultInv, InCall, CallerHolds, LoopHolds
<1>3. StoredInv(k)' /\ ParametersInv(k)'
  BY <1>1 DEF TypeOK, SendFails, Begins, Fails, Goto, CallInv, PendingInv,
       FaultInv, StoredInv, ParametersInv, InCall, CallerHolds, LoopHolds
<1>4. NotifyInv(k)' /\ MessageInv(k)' /\ HeardInv(k)' /\ MainInv(k)'
  BY <1>1 DEF TypeOK, SendFails, Begins, Fails, Goto, CallInv, PendingInv,
       FaultInv, NotifyInv, MessageInv, HeardInv, MainInv, InCall, CallerHolds,
       LoopHolds
<1> QED
  BY <1>2, <1>3, <1>4 DEF CallInv

(* The parameters are live. *)
LEMMA NewParametersStep ==
    ASSUME IInv, NEW k \in Calls, NewParameters(k)
    PROVE  CallInv(k)'
<1> USE CallsAssumption, FaultsAssumption
<1>1. TypeOK /\ CallInv(k)
  BY DEF IInv
<1>2. PendingInv(k)' /\ FaultInv(k)'
  BY <1>1 DEF TypeOK, NewParameters, Goto, CallInv, PendingInv, FaultInv,
       InCall, CallerHolds, LoopHolds
<1>3. StoredInv(k)' /\ ParametersInv(k)'
  BY <1>1 DEF TypeOK, NewParameters, Goto, CallInv, PendingInv, FaultInv,
       StoredInv, ParametersInv, InCall, CallerHolds, LoopHolds
<1>4. NotifyInv(k)' /\ MessageInv(k)' /\ HeardInv(k)' /\ MainInv(k)'
  BY <1>1 DEF TypeOK, NewParameters, Goto, CallInv, PendingInv, FaultInv,
       NotifyInv, MessageInv, HeardInv, MainInv, InCall, CallerHolds, LoopHolds
<1> QED
  BY <1>2, <1>3, <1>4 DEF CallInv

(* The caller's reference is stranded. *)
LEMMA SlotFailsStep ==
    ASSUME IInv, NEW k \in Calls, SlotFails(k)
    PROVE  CallInv(k)'
<1> USE CallsAssumption, FaultsAssumption
<1>1. TypeOK /\ CallInv(k)
  BY DEF IInv
<1>2. PendingInv(k)' /\ FaultInv(k)'
  BY <1>1 DEF TypeOK, SlotFails, Fails, Goto, DropMessage, CallInv, PendingInv,
       FaultInv, InCall, CallerHolds, LoopHolds
<1>3. StoredInv(k)' /\ ParametersInv(k)'
  BY <1>1 DEF TypeOK, SlotFails, Fails, Goto, DropMessage, CallInv, PendingInv,
       FaultInv, StoredInv, ParametersInv, InCall, CallerHolds, LoopHolds
<1>4. NotifyInv(k)' /\ MessageInv(k)' /\ HeardInv(k)' /\ MainInv(k)'
  BY <1>1 DEF TypeOK, SlotFails, Fails, Goto, DropMessage, CallInv, PendingInv,
       FaultInv, NotifyInv, MessageInv, HeardInv, MainInv, InCall, CallerHolds,
       LoopHolds
<1> QED
  BY <1>2, <1>3, <1>4 DEF CallInv

(* The slot is filled. *)
LEMMA SetDataStep ==
    ASSUME IInv, NEW k \in Calls, SetData(k)
    PROVE  CallInv(k)'
<1> USE CallsAssumption, FaultsAssumption
<1>1. TypeOK /\ CallInv(k)
  BY DEF IInv
<1>2. PendingInv(k)' /\ FaultInv(k)'
  BY <1>1 DEF TypeOK, SetData, Goto, CallInv, PendingInv, FaultInv, InCall,
       CallerHolds, LoopHolds
<1>3. StoredInv(k)' /\ ParametersInv(k)'
  BY <1>1 DEF TypeOK, SetData, Goto, CallInv, PendingInv, FaultInv, StoredInv,
       ParametersInv, InCall, CallerHolds, LoopHolds
<1>4. NotifyInv(k)' /\ MessageInv(k)' /\ HeardInv(k)' /\ MainInv(k)'
  BY <1>1 DEF TypeOK, SetData, Goto, CallInv, PendingInv, FaultInv, NotifyInv,
       MessageInv, HeardInv, MainInv, InCall, CallerHolds, LoopHolds
<1> QED
  BY <1>2, <1>3, <1>4 DEF CallInv

(* The slot stays empty. *)
LEMMA SetDataFailsStep ==
    ASSUME IInv, NEW k \in Calls, SetDataFails(k)
    PROVE  CallInv(k)'
<1> USE CallsAssumption, FaultsAssumption
<1>1. TypeOK /\ CallInv(k)
  BY DEF IInv
<1>2. PendingInv(k)' /\ FaultInv(k)'
  BY <1>1 DEF TypeOK, SetDataFails, Fails, Goto, CallInv, PendingInv, FaultInv,
       InCall, CallerHolds, LoopHolds
<1>3. StoredInv(k)' /\ ParametersInv(k)'
  BY <1>1 DEF TypeOK, SetDataFails, Fails, Goto, CallInv, PendingInv, FaultInv,
       StoredInv, ParametersInv, InCall, CallerHolds, LoopHolds
<1>4. NotifyInv(k)' /\ MessageInv(k)' /\ HeardInv(k)' /\ MainInv(k)'
  BY <1>1 DEF TypeOK, SetDataFails, Fails, Goto, CallInv, PendingInv, FaultInv,
       NotifyInv, MessageInv, HeardInv, MainInv, InCall, CallerHolds, LoopHolds
<1> QED
  BY <1>2, <1>3, <1>4 DEF CallInv

(* In time, on the main loop's thread. *)
LEMMA SetNotifyStep ==
    ASSUME IInv, NEW k \in Calls, SetNotify(k)
    PROVE  CallInv(k)'
<1> USE CallsAssumption, FaultsAssumption
<1>1. TypeOK /\ CallInv(k)
  BY DEF IInv
<1>2. PendingInv(k)' /\ FaultInv(k)'
  BY <1>1 DEF TypeOK, SetNotify, Goto, CallInv, PendingInv, FaultInv, InCall,
       CallerHolds, LoopHolds
<1>3. StoredInv(k)' /\ ParametersInv(k)'
  BY <1>1 DEF TypeOK, SetNotify, Goto, CallInv, PendingInv, FaultInv, StoredInv,
       ParametersInv, InCall, CallerHolds, LoopHolds
<1>4. NotifyInv(k)' /\ MessageInv(k)' /\ HeardInv(k)' /\ MainInv(k)'
  BY <1>1 DEF TypeOK, SetNotify, Goto, CallInv, PendingInv, FaultInv, NotifyInv,
       MessageInv, HeardInv, MainInv, InCall, CallerHolds, LoopHolds
<1> QED
  BY <1>2, <1>3, <1>4 DEF CallInv

(* The parameters are deleted here, and with the pending call. *)
LEMMA NotifyFailsStep ==
    ASSUME IInv, NEW k \in Calls, NotifyFails(k)
    PROVE  CallInv(k)'
<1> USE CallsAssumption, FaultsAssumption
<1>1. TypeOK /\ CallInv(k)
  BY DEF IInv
<1>2. PendingInv(k)' /\ FaultInv(k)'
  <2>1. PendingInv(k) /\ FaultInv(k)
    BY <1>1 DEF CallInv
  <2>2. PendingInv(k)'
    BY <1>1, <2>1 DEF TypeOK, NotifyFails, Fails, Goto, UnrefAndDelete, Delete,
         PendingInv, FaultInv, InCall, CallerHolds, LoopHolds
  <2> QED BY <1>1, <2>1, <2>2 DEF TypeOK, NotifyFails, Fails, Goto, FaultInv
<1>3. StoredInv(k)' /\ ParametersInv(k)'
  BY <1>1 DEF TypeOK, NotifyFails, Fails, Goto, UnrefAndDelete, Delete,
       DropMessage, CallInv, PendingInv, FaultInv, StoredInv, ParametersInv,
       InCall, CallerHolds, LoopHolds
<1>4. NotifyInv(k)' /\ MessageInv(k)' /\ HeardInv(k)' /\ MainInv(k)'
  BY <1>1 DEF TypeOK, NotifyFails, Fails, Goto, UnrefAndDelete, Delete,
       DropMessage, CallInv, PendingInv, FaultInv, NotifyInv, MessageInv,
       HeardInv, MainInv, InCall, CallerHolds, LoopHolds
<1> QED
  BY <1>2, <1>3, <1>4 DEF CallInv

(* The caller's reference goes, perhaps the last. *)
LEMMA ReturnStep ==
    ASSUME IInv, NEW k \in Calls, Return(k)
    PROVE  CallInv(k)'
<1> USE CallsAssumption, FaultsAssumption
<1>1. TypeOK /\ CallInv(k)
  BY DEF IInv
<1>2. PendingInv(k)' /\ FaultInv(k)'
  BY <1>1 DEF TypeOK, Return, Goto, UnrefAndDelete, Delete, DropMessage,
       CallInv, PendingInv, FaultInv, InCall, CallerHolds, LoopHolds
<1>3. StoredInv(k)' /\ ParametersInv(k)'
  BY <1>1 DEF TypeOK, Return, Goto, UnrefAndDelete, Delete, DropMessage,
       CallInv, PendingInv, FaultInv, StoredInv, ParametersInv, InCall,
       CallerHolds, LoopHolds
<1>4. NotifyInv(k)' /\ MessageInv(k)' /\ HeardInv(k)' /\ MainInv(k)'
  BY <1>1 DEF TypeOK, Return, Goto, UnrefAndDelete, Delete, DropMessage,
       CallInv, PendingInv, FaultInv, NotifyInv, MessageInv, HeardInv, MainInv,
       InCall, CallerHolds, LoopHolds
<1> QED
  BY <1>2, <1>3, <1>4 DEF CallInv

(* The queue's reference of the message goes. *)
LEMMA WriteStep ==
    ASSUME IInv, NEW k \in Calls, Write(k)
    PROVE  CallInv(k)'
<1> USE CallsAssumption, FaultsAssumption
<1>1. TypeOK /\ CallInv(k)
  BY DEF IInv
<1>2. PendingInv(k)' /\ FaultInv(k)'
  BY <1>1 DEF TypeOK, Write, DropMessage, CallInv, PendingInv, FaultInv, InCall,
       CallerHolds, LoopHolds
<1>3. StoredInv(k)' /\ ParametersInv(k)'
  BY <1>1 DEF TypeOK, Write, DropMessage, CallInv, PendingInv, FaultInv,
       StoredInv, ParametersInv, InCall, CallerHolds, LoopHolds
<1>4. NotifyInv(k)' /\ MessageInv(k)' /\ HeardInv(k)' /\ MainInv(k)'
  BY <1>1 DEF TypeOK, Write, DropMessage, CallInv, PendingInv, FaultInv,
       NotifyInv, MessageInv, HeardInv, MainInv, InCall, CallerHolds, LoopHolds
<1> QED
  BY <1>2, <1>3, <1>4 DEF CallInv

(* The reply is queued, and nobody learns of it. *)
LEMMA ArriveStep ==
    ASSUME IInv, NEW k \in Calls, Arrive(k)
    PROVE  CallInv(k)'
<1> USE CallsAssumption, FaultsAssumption
<1>1. TypeOK /\ CallInv(k)
  BY DEF IInv
<1>2. PendingInv(k)' /\ FaultInv(k)'
  BY <1>1 DEF TypeOK, Arrive, CallInv, PendingInv, FaultInv, InCall, CallerHolds,
       LoopHolds
<1>3. StoredInv(k)' /\ ParametersInv(k)'
  BY <1>1 DEF TypeOK, Arrive, CallInv, PendingInv, FaultInv, StoredInv,
       ParametersInv, InCall, CallerHolds, LoopHolds
<1>4. NotifyInv(k)' /\ MessageInv(k)' /\ HeardInv(k)' /\ MainInv(k)'
  BY <1>1 DEF TypeOK, Arrive, CallInv, PendingInv, FaultInv, NotifyInv, MessageInv,
       HeardInv, MainInv, InCall, CallerHolds, LoopHolds
<1> QED
  BY <1>2, <1>3, <1>4 DEF CallInv

(* No call of the main loop's thread is under way. *)
LEMMA CompleteStep ==
    ASSUME IInv, NEW k \in Calls, Complete(k)
    PROVE  CallInv(k)'
<1> USE CallsAssumption, FaultsAssumption
<1>1. TypeOK /\ CallInv(k)
  BY DEF IInv
<1>2. PendingInv(k)' /\ FaultInv(k)'
  BY <1>1 DEF TypeOK, Complete, LoopRuns, CallInv, PendingInv, FaultInv, InCall,
       CallerHolds, LoopHolds
<1>3. StoredInv(k)' /\ ParametersInv(k)'
  BY <1>1 DEF TypeOK, Complete, LoopRuns, CallInv, PendingInv, FaultInv,
       StoredInv, ParametersInv, InCall, CallerHolds, LoopHolds
<1>4. NotifyInv(k)' /\ MessageInv(k)' /\ HeardInv(k)' /\ MainInv(k)'
  BY <1>1 DEF TypeOK, Complete, LoopRuns, CallInv, PendingInv, FaultInv,
       NotifyInv, MessageInv, HeardInv, MainInv, InCall, CallerHolds, LoopHolds
<1> QED
  BY <1>2, <1>3, <1>4 DEF CallInv

(* The library's reference goes, perhaps the last. *)
LEMMA DeliverStep ==
    ASSUME IInv, NEW k \in Calls, Deliver(k)
    PROVE  CallInv(k)'
<1> USE CallsAssumption, FaultsAssumption
<1>1. TypeOK /\ CallInv(k)
  BY DEF IInv
<1>2. PendingInv(k)' /\ FaultInv(k)'
  BY <1>1 DEF TypeOK, Deliver, UnrefAndDelete, Delete, LoopRuns, CallInv,
       PendingInv, FaultInv, InCall, CallerHolds, LoopHolds
<1>3. StoredInv(k)' /\ ParametersInv(k)'
  BY <1>1 DEF TypeOK, Deliver, UnrefAndDelete, Delete, LoopRuns, CallInv,
       PendingInv, FaultInv, StoredInv, ParametersInv, InCall, CallerHolds,
       LoopHolds
<1>4. NotifyInv(k)' /\ MessageInv(k)' /\ HeardInv(k)' /\ MainInv(k)'
  BY <1>1 DEF TypeOK, Deliver, UnrefAndDelete, Delete, LoopRuns, CallInv,
       PendingInv, FaultInv, NotifyInv, MessageInv, HeardInv, MainInv, InCall,
       CallerHolds, LoopHolds
<1> QED
  BY <1>2, <1>3, <1>4 DEF CallInv

-----------------------------------------------------------------------------
(* All actions *)

(* Every variable keeps its type; the counts do as no reference is dropped *)
(* that CallInv does not know of.                                          *)
LEMMA TypeStep ==
    ASSUME IInv, NEW k \in Calls, CallStep(k)
    PROVE  TypeOK'
<1> USE CallsAssumption, FaultsAssumption
<1>1. TypeOK /\ CallInv(k)
  BY DEF IInv
<1>2. CASE Send(k)
  BY <1>1, <1>2 DEF TypeOK, Send, Begins, Goto, CallInv, PendingInv, InCall,
       CallerHolds, LoopHolds
<1>3. CASE SendFails(k)
  BY <1>1, <1>3 DEF TypeOK, SendFails, Begins, Fails, Goto, CallInv, PendingInv,
       InCall, CallerHolds, LoopHolds
<1>4. CASE NewParameters(k)
  BY <1>1, <1>4 DEF TypeOK, NewParameters, Goto, CallInv, PendingInv, InCall,
       CallerHolds, LoopHolds
<1>5. CASE SlotFails(k)
  BY <1>1, <1>5 DEF TypeOK, SlotFails, Fails, Goto, DropMessage, CallInv,
       PendingInv, InCall, CallerHolds, LoopHolds
<1>6. CASE SetData(k)
  BY <1>1, <1>6 DEF TypeOK, SetData, Goto, CallInv, PendingInv, InCall,
       CallerHolds, LoopHolds
<1>7. CASE SetDataFails(k)
  BY <1>1, <1>7 DEF TypeOK, SetDataFails, Fails, Goto, CallInv, PendingInv,
       InCall, CallerHolds, LoopHolds
<1>8. CASE SetNotify(k)
  BY <1>1, <1>8 DEF TypeOK, SetNotify, Goto, CallInv, PendingInv, InCall,
       CallerHolds, LoopHolds
<1>9. CASE NotifyFails(k)
  BY <1>1, <1>9 DEF TypeOK, NotifyFails, Fails, Goto, UnrefAndDelete, Delete,
       DropMessage, CallInv, PendingInv, InCall, CallerHolds, LoopHolds
<1>10. CASE Return(k)
  BY <1>1, <1>10 DEF TypeOK, Return, Goto, UnrefAndDelete, Delete, DropMessage,
       CallInv, PendingInv, InCall, CallerHolds, LoopHolds
<1>11. CASE Write(k)
  BY <1>1, <1>11 DEF TypeOK, Write, DropMessage, CallInv, PendingInv, InCall,
       CallerHolds, LoopHolds
<1>12. CASE Complete(k)
  BY <1>1, <1>12 DEF TypeOK, Complete, LoopRuns, CallInv, PendingInv, InCall,
       CallerHolds, LoopHolds
<1>13. CASE Deliver(k)
  BY <1>1, <1>13 DEF TypeOK, Deliver, UnrefAndDelete, Delete, LoopRuns, CallInv,
       PendingInv, InCall, CallerHolds, LoopHolds
<1>14. CASE Arrive(k)
  BY <1>1, <1>14 DEF TypeOK, Arrive
<1> QED
  BY <1>2, <1>3, <1>4, <1>5, <1>6, <1>7, <1>8, <1>9, <1>10, <1>11, <1>12, <1>13,
     <1>14 DEF CallStep, Step, Loop

(* A step of one call leaves every other call as it was. *)
LEMMA Frame ==
    ASSUME TypeOK, NEW k \in Calls, NEW j \in Calls \ {k}, CallStep(k)
    PROVE  Same(j)
<1> USE CallsAssumption
<1>1. CASE Send(k)
  BY <1>1 DEF TypeOK, Send, Begins, Goto, Same
<1>2. CASE SendFails(k)
  BY <1>2 DEF TypeOK, SendFails, Begins, Fails, Goto, Same
<1>3. CASE NewParameters(k)
  BY <1>3 DEF TypeOK, NewParameters, Goto, Same
<1>4. CASE SlotFails(k)
  BY <1>4 DEF TypeOK, SlotFails, Fails, Goto, DropMessage, Same
<1>5. CASE SetData(k)
  BY <1>5 DEF TypeOK, SetData, Goto, Same
<1>6. CASE SetDataFails(k)
  BY <1>6 DEF TypeOK, SetDataFails, Fails, Goto, Same
<1>7. CASE SetNotify(k)
  BY <1>7 DEF TypeOK, SetNotify, Goto, Same
<1>8. CASE NotifyFails(k)
  BY <1>8 DEF TypeOK, NotifyFails, Fails, Goto, UnrefAndDelete, Delete,
       DropMessage, Same
<1>9. CASE Return(k)
  BY <1>9 DEF TypeOK, Return, Goto, UnrefAndDelete, Delete, DropMessage, Same
<1>10. CASE Write(k)
  BY <1>10 DEF TypeOK, Write, DropMessage, Same
<1>11. CASE Complete(k)
  BY <1>11 DEF TypeOK, Complete, LoopRuns, Same
<1>12. CASE Deliver(k)
  BY <1>12 DEF TypeOK, Deliver, UnrefAndDelete, Delete, LoopRuns, Same
<1>13. CASE Arrive(k)
  BY <1>13 DEF TypeOK, Arrive, Same
<1> QED
  BY <1>1, <1>2, <1>3, <1>4, <1>5, <1>6, <1>7, <1>8, <1>9, <1>10, <1>11, <1>12,
     <1>13 DEF CallStep, Step, Loop

LEMMA SameKeeps ==
    ASSUME NEW j \in Calls, CallInv(j), Same(j)
    PROVE  CallInv(j)'
BY DEF Same, CallInv, PendingInv, FaultInv, StoredInv, ParametersInv, NotifyInv,
     MessageInv, HeardInv, MainInv, InCall, CallerHolds, LoopHolds

LEMMA StepInv ==
    ASSUME IInv, NEW k \in Calls, CallStep(k)
    PROVE  IInv'
<1>1. TypeOK'
  BY TypeStep
<1>2. CallInv(k)'
  BY SendStep, SendFailsStep, NewParametersStep, SlotFailsStep, SetDataStep,
       SetDataFailsStep, SetNotifyStep, NotifyFailsStep, ReturnStep, WriteStep,
       ArriveStep, CompleteStep, DeliverStep DEF CallStep, Step, Loop
<1>3. ASSUME NEW j \in Calls \ {k}
      PROVE  CallInv(j)'
  <2>1. TypeOK /\ CallInv(j)
    BY DEF IInv
  <2>2. Same(j)
    BY <2>1, Frame
  <2> QED
    BY <2>1, <2>2, SameKeeps
<1>4. LoopInv'
  <2>1. CASE Complete(k) \/ Deliver(k)
    BY <2>1 DEF Complete, Deliver, LoopInv
  <2>2. CASE Send(k) \/ SendFails(k) \/ Step(k) \/ Write(k) \/ Arrive(k)
    <3>1. UNCHANGED <<dispatching, delivering>>
      BY <2>2 DEF Send, SendFails, Write, Arrive, Step, NewParameters, SlotFails,
           SetData, SetDataFails, SetNotify, NotifyFails, Return
    <3> QED BY <3>1 DEF IInv, LoopInv
  <2> QED BY <2>1, <2>2 DEF CallStep, Loop
<1> QED
  BY <1>1, <1>2, <1>3, <1>4 DEF IInv

LEMMA InitInv == Init => IInv
<1> SUFFICES ASSUME Init PROVE IInv
  OBVIOUS
<1>1. TypeOK
  <2>1. \A k \in Calls : failed[k] \in SUBSET Faults
    BY DEF Init
  <2>2. failed \in [Calls -> SUBSET Faults]
    BY <2>1 DEF Init
  <2>3. /\ refs \in [Calls -> Nat]
        /\ deletes \in [Calls -> Nat]
        /\ answered \in [Calls -> Nat]
        /\ message \in [Calls -> Int]
    BY DEF Init
  <2> QED
    BY <2>2, <2>3 DEF Init, TypeOK
<1>2. ASSUME NEW k \in Calls PROVE CallInv(k)
  BY CallsAssumption DEF Init, CallInv, PendingInv, FaultInv, StoredInv,
       ParametersInv, NotifyInv, MessageInv, HeardInv, MainInv, InCall, CallerHolds,
       LoopHolds
<1>3. LoopInv
  BY DEF Init, LoopInv
<1> QED
  BY <1>1, <1>2, <1>3 DEF IInv

LEMMA NextInv == IInv /\ [Next]_vars => IInv'
<1> SUFFICES ASSUME IInv, [Next]_vars PROVE IInv'
  OBVIOUS
<1>1. CASE UNCHANGED vars \/ Activity \/ DispatchEnds
  <2>1. TypeOK' /\ LoopInv' /\ \A k \in Calls : Same(k)
    BY <1>1 DEF IInv, TypeOK, LoopInv, Same, vars, Activity, DispatchEnds
  <2> QED
    BY <2>1, SameKeeps DEF IInv
<1>2. CASE \E k \in Calls : CallStep(k)
  BY <1>2, StepInv
<1> QED
  BY <1>1, <1>2 DEF Next, CallStep

-----------------------------------------------------------------------------
(* Theorems *)

(* The inductive invariant holds in every reachable state. *)
THEOREM Invariance == Spec => []IInv
BY InitInv, NextInv, PTL DEF Spec

(* Every variable has its type: no reference count and no count of deletes *)
(* becomes negative, whatever fails in call().                             *)
THEOREM TypeCorrect == Spec => []TypeOK
<1>1. IInv => TypeOK
  BY DEF IInv
<1> QED
  BY Invariance, <1>1, PTL

(* dbus_call_reply never runs with parameters that were deleted, not even  *)
(* when call() failed after it had stored them.                            *)
THEOREM ReplyCorrect == Spec => []ReplyFindsParameters
<1>1. IInv => ReplyFindsParameters
  <2> SUFFICES ASSUME IInv, NEW k \in Calls, delivering = k, notify[k]
               PROVE  params[k] = "live"
    BY DEF ReplyFindsParameters
  <2> QED
    BY FaultsAssumption DEF IInv, TypeOK, CallInv, PendingInv, FaultInv,
         StoredInv, ParametersInv, NotifyInv, MessageInv, HeardInv, MainInv, InCall,
         CallerHolds, LoopHolds
<1> QED
  BY Invariance, <1>1, PTL

(* The parameters of a call without a fault are deleted exactly once, when *)
(* it is over, whichever of caller and main loop is the last.              *)
THEOREM ParametersCorrect == Spec => []ParametersFreedOnce
<1>1. IInv => ParametersFreedOnce
  <2> SUFFICES ASSUME IInv, NEW k \in Calls
               PROVE  /\ failed[k] \subseteq {"send"} => deletes[k] <= 1
                      /\ Over(k) /\ failed[k] = {} => deletes[k] = 1 /\ refs[k] = 0
    BY DEF ParametersFreedOnce
  <2> QED
    BY FaultsAssumption DEF IInv, TypeOK, Over, CallInv, PendingInv, FaultInv,
         StoredInv, ParametersInv, NotifyInv, MessageInv, HeardInv, MainInv, InCall,
         CallerHolds, LoopHolds
<1> QED
  BY Invariance, <1>1, PTL

(* The message lives as long as the queue needs it and is gone at the end, *)
(* in every path of call() but that of a failed set_notify.                *)
THEOREM MessageCorrect == Spec => []MessageBalanced
<1>1. IInv => MessageBalanced
  <2> SUFFICES ASSUME IInv, NEW k \in Calls, "set_notify" \notin failed[k]
               PROVE  /\ queued[k] => message[k] > 0
                      /\ Over(k) => message[k] = 0
    BY DEF MessageBalanced
  <2> QED
    BY FaultsAssumption DEF IInv, TypeOK, Over, CallInv, PendingInv, FaultInv,
         StoredInv, ParametersInv, NotifyInv, MessageInv, HeardInv, MainInv, InCall,
         CallerHolds, LoopHolds
<1> QED
  BY Invariance, <1>1, PTL

(* What a call allocates lasts until its last use and is given back once.  *)
THEOREM MemoryCorrect == Spec => []MemoryKept
BY ReplyCorrect, ParametersCorrect, MessageCorrect, PTL DEF MemoryKept

(* The callback of a call made by the main loop's thread has been called   *)
(* exactly once when the call is over: it cannot miss its reply.           *)
THEOREM MainCorrect == Spec => []MainAnswered
<1>1. IInv => MainAnswered
  <2> SUFFICES ASSUME IInv, NEW k \in OnMain, at[k] = "returned", Over(k)
               PROVE  answered[k] = 1
    BY DEF MainAnswered
  <2> QED
    BY CallsAssumption DEF IInv, TypeOK, Over, CallInv, PendingInv, FaultInv,
         StoredInv, ParametersInv, NotifyInv, MessageInv, HeardInv, MainInv, InCall,
         CallerHolds, LoopHolds
<1> QED
  BY Invariance, <1>1, PTL

(* A callback is called once at most, never after call() has thrown, and   *)
(* exactly once when the call is over if its notify function was set.      *)
THEOREM CallbackCorrect == Spec => []CallbackOnce
<1> DEFINE AtMostOnce == \A k \in Calls :
               /\ answered[k] <= One(notify[k] /\ at[k] # "thrown")
               /\ Over(k) => answered[k] = One(notify[k])
<1>1. IInv => AtMostOnce
  <2> SUFFICES ASSUME IInv, NEW k \in Calls
               PROVE  /\ answered[k] <= One(notify[k] /\ at[k] # "thrown")
                      /\ Over(k) => answered[k] = One(notify[k])
    OBVIOUS
  <2>1. HeardInv(k) /\ NotifyInv(k)
    BY DEF IInv, CallInv
  <2> QED
    BY <2>1 DEF IInv, TypeOK, Over, HeardInv, NotifyInv, LoopHolds
<1>2. AtMostOnce /\ MainAnswered => CallbackOnce
  BY DEF CallbackOnce
<1> HIDE DEF AtMostOnce
<1> QED
  BY Invariance, MainCorrect, <1>1, <1>2, PTL

(* set_notify was in time for every call() that has returned.              *)
NotifyInTime == \A k \in Calls : at[k] = "returned" => notify[k]

(* The reply that overtakes set_notify is all that stands between call()   *)
(* and what "Call method (async)" promises: no fault, and no other order   *)
(* of the two threads, makes it lose a callback.                           *)
THEOREM LostByRaceOnly == Spec => [](NotifyInTime => EveryCallAnswered)
<1>1. CallbackOnce /\ NotifyInTime => EveryCallAnswered
  BY DEF CallbackOnce, NotifyInTime, EveryCallAnswered
<1> QED
  BY CallbackCorrect, <1>1, PTL

-----------------------------------------------------------------------------
(* AsyncCall *)

(* What AsyncCall sees of call k.                                          *)
Seen(k) == <<CallState[k], k \in Heard, k \in Released>>

(* A step that AsyncCall does not see.                                     *)
LEMMA Unseen ==
    ASSUME NEW k \in Calls, Seen(k)' = Seen(k), \A j \in Calls \ {k} : Same(j)
    PROVE  UNCHANGED Async!vars
<1>1. \A j \in Calls : Seen(j)' = Seen(j)
  BY DEF Same, Seen, CallState, Heard, Released
<1> QED
  BY <1>1 DEF Seen, CallState, Heard, Released, Async!vars

(* How the three functions of AsyncCall follow those of PendingCall.       *)
LEMMA SeenState ==
    ASSUME NEW k \in Calls, \A j \in Calls \ {k} : Same(j)
    PROVE  CallState' = [CallState EXCEPT ![k] = CallState'[k]]
BY DEF Same, CallState

LEMMA SeenHeard ==
    ASSUME NEW k \in Calls, k \in Heard', \A j \in Calls \ {k} : Same(j)
    PROVE  Heard' = Heard \union {k}
BY DEF Same, Heard

LEMMA SeenReleased ==
    ASSUME NEW k \in Calls, \A j \in Calls \ {k} : Same(j)
    PROVE  /\ k \in Released' => Released' = Released \union {k}
           /\ (k \in Released <=> k \in Released') => UNCHANGED Released
BY DEF Same, Released

(* The counts of a call of which nothing is deleted yet, and nothing heard. *)
LEMMA Untouched ==
    ASSUME IInv, NEW k \in Calls, InCall(k)
    PROVE  /\ deletes[k] = 0
           /\ answered[k] = One(notify[k] /\ ~LoopHolds(k))
           /\ notify[k] => at[k] = "armed"
<1>1. refs[k] >= 1
  BY DEF IInv, TypeOK, CallInv, PendingInv, CallerHolds
<1>2. pending[k] # "finalised" /\ "set_notify" \notin failed[k]
  BY <1>1, FaultsAssumption DEF IInv, TypeOK, CallInv, PendingInv, FaultInv, InCall
<1> QED
  BY <1>2 DEF IInv, CallInv, ParametersInv, HeardInv, NotifyInv, InCall

(* call() is entered.                                                      *)
LEMMA BeginSeen ==
    ASSUME IInv, NEW k \in Calls, Send(k) \/ SendFails(k),
           \A j \in Calls \ {k} : Same(j)
    PROVE  Async!Begin(k)
<1>1. CallState[k] = "idle"
  BY DEF Send, SendFails, Begins, CallState
<1>2. UNCHANGED <<Heard, Released>>
  BY DEF Send, SendFails, Heard, Released
<1>3. CallState'[k] \in {"asking", "refused"}
  BY DEF IInv, TypeOK, Send, SendFails, Goto, CallState
<1> QED BY <1>1, <1>2, <1>3, SeenState DEF Async!Begin, Async!Move

(* It throws: the callback was not called, and is not registered.          *)
LEMMA RefuseSeen ==
    ASSUME IInv, NEW k \in Calls, SlotFails(k) \/ NotifyFails(k),
           \A j \in Calls \ {k} : Same(j)
    PROVE  Async!Refuse(k)
<1>1. InCall(k) /\ at[k] # "armed"
  BY DEF SlotFails, NotifyFails, InCall
<1>2. CallState[k] = "asking" /\ k \notin Heard \union Released
  BY <1>1, Untouched DEF InCall, CallState, Heard, Released
<1>3. CallState'[k] = "refused" /\ UNCHANGED Heard
  BY DEF IInv, TypeOK, SlotFails, NotifyFails, Goto, CallState, Heard
<1>4. UNCHANGED Released \/ k \in Released'
  BY DEF IInv, TypeOK, SlotFails, NotifyFails, UnrefAndDelete, Delete, Released
<1> QED
  BY <1>2, <1>3, <1>4, SeenState, SeenReleased
     DEF Async!Refuse, Async!Move, Async!MayRelease

(* It returns, perhaps as the last who holds the pending call.             *)
LEMMA AcceptSeen ==
    ASSUME IInv, NEW k \in Calls, Return(k),
           \A j \in Calls \ {k} : Same(j)
    PROVE  Async!Accept(k)
<1>1. CallState[k] = "asking" /\ k \notin Released
  BY Untouched DEF Return, InCall, CallState, Released
<1>2. CallState'[k] = "accepted" /\ UNCHANGED Heard
  BY DEF IInv, TypeOK, Return, Goto, CallState, Heard
<1>3. UNCHANGED Released \/ k \in Released'
  BY DEF IInv, TypeOK, Return, UnrefAndDelete, Delete, Released
<1> QED
  BY <1>1, <1>2, <1>3, SeenState, SeenReleased
     DEF Async!Accept, Async!Move, Async!MayRelease

(* The main loop has the reply, or the error of the timeout.               *)
LEMMA DeliverSeen ==
    ASSUME IInv, NEW k \in Calls, Deliver(k),
           \A j \in Calls \ {k} : Same(j)
    PROVE  Async!Hear(k) \/ Async!Release(k) \/ UNCHANGED Async!vars
<1>1. /\ CallInv(k) /\ answered[k] = 0 /\ delivering = k
      /\ pending[k] = "completed"
  BY DEF IInv, CallInv, PendingInv, HeardInv, LoopHolds, Deliver
<1>2. k \notin Heard /\ UNCHANGED CallState
  BY <1>1 DEF Heard, CallState, Deliver
<1>3. deletes[k] = One("set_notify" \in failed[k])
  BY <1>1 DEF CallInv, ParametersInv
<1>4. deletes'[k] = deletes[k] + One(refs[k] = 1 /\ stored[k])
  BY DEF IInv, TypeOK, Deliver, UnrefAndDelete, Delete
<1>5. UNCHANGED Released \/ k \in Released'
  BY DEF IInv, TypeOK, Deliver, UnrefAndDelete, Delete, Released
<1>6. InCall(k) => refs[k] = 2
  BY <1>1 DEF CallInv, PendingInv, CallerHolds, LoopHolds
<1>7. CASE notify[k]
  <2>1. at[k] \in {"armed", "returned"}
    BY <1>1, <1>7 DEF CallInv, NotifyInv
  <2>2. CallState[k] \in {"asking", "accepted"}
    BY <2>1 DEF CallState
  <2>3. k \notin Released
    BY <1>1, <1>3, <2>1, FaultsAssumption
       DEF CallInv, FaultInv, IInv, TypeOK, Released
  <2>4. k \in Heard'
    BY <1>1, <1>7 DEF IInv, TypeOK, Deliver, Heard
  <2>5. CallState[k] = "asking" => (k \in Released' <=> k \in Released)
    BY <1>4, <1>6, <2>1 DEF CallState, InCall, Released, IInv, TypeOK
  <2> HIDE <1>4, <1>6
  <2>6. CallState[k] = "asking" => UNCHANGED Released
    BY <1>5, <2>3, <2>5
  <2> QED
    BY <1>2, <1>5, <2>2, <2>3, <2>4, <2>6, SeenHeard, SeenReleased
       DEF Async!Hear, Async!MayRelease
<1>8. CASE ~notify[k]
  <2>1. UNCHANGED Heard
    BY <1>1, <1>8 DEF IInv, TypeOK, Deliver, Heard
  <2>2. CASE (k \in Released' <=> k \in Released)
    BY <1>2, <2>1, <2>2, Unseen DEF Seen
  <2>3. CASE ~(k \in Released' <=> k \in Released)
    <3>1. k \notin Released /\ k \in Released'
      BY <1>5, <2>3 DEF Released
    <3>2. "set_notify" \notin failed[k] /\ refs[k] = 1
      BY <1>3, <1>4, <2>3, <3>1 DEF Released, IInv, TypeOK
    <3>3. failed[k] \cap {"send", "slot", "set_notify"} = {} /\ ~InCall(k)
      BY <1>1, <1>6, <3>2
         DEF CallInv, PendingInv, FaultInv, CallerHolds, LoopHolds
    <3>4. CallState[k] = "accepted"
      BY <1>1, <3>3
         DEF IInv, TypeOK, CallInv, PendingInv, FaultInv, InCall, CallState
    <3> QED
      BY <1>2, <2>1, <3>1, <3>4, SeenReleased DEF Async!Release
  <2> QED BY <2>2, <2>3
<1> QED BY <1>7, <1>8

(* Each step of a call is one of AsyncCall's, or a stutter.                *)
LEMMA AsyncStep ==
    ASSUME IInv, NEW k \in Calls, CallStep(k)
    PROVE  [Async!Next]_(Async!vars)
<1>1. \A j \in Calls \ {k} : Same(j)
  BY Frame DEF IInv
<1>2. CASE \/ NewParameters(k) \/ SetData(k) \/ SetDataFails(k)
          \/ SetNotify(k) \/ Write(k) \/ Arrive(k) \/ Complete(k)
  <2>1. Seen(k)' = Seen(k)
    BY <1>2 DEF IInv, TypeOK, Seen, CallState, Heard, Released, Goto, NewParameters, SetData, SetDataFails,
         SetNotify, Write, Arrive, Complete
  <2> QED BY <1>1, <2>1, Unseen
<1>3. CASE Send(k) \/ SendFails(k)
  BY <1>1, <1>3, BeginSeen DEF Async!Next
<1>4. CASE SlotFails(k) \/ NotifyFails(k)
  BY <1>1, <1>4, RefuseSeen DEF Async!Next
<1>5. CASE Return(k)
  BY <1>1, <1>5, AcceptSeen DEF Async!Next
<1>6. CASE Deliver(k)
  BY <1>1, <1>6, DeliverSeen DEF Async!Next
<1> QED
  BY <1>2, <1>3, <1>4, <1>5, <1>6 DEF CallStep, Step, Loop

(* Every behaviour of PendingCall is one of AsyncCall.                     *)
THEOREM AsyncKept == Spec => AsyncSpec
<1>1. Init => Async!Init
  BY DEF Init, Async!Init, CallState, Heard, Released
<1>2. IInv /\ [Next]_vars => [Async!Next]_(Async!vars)
  <2>1. CASE IInv /\ (UNCHANGED vars \/ Activity \/ DispatchEnds)
    BY <2>1 DEF vars, Activity, DispatchEnds, Async!vars, CallState, Heard, Released
  <2>2. CASE IInv /\ \E k \in Calls : CallStep(k)
    BY <2>2, AsyncStep
  <2> QED BY <2>1, <2>2 DEF Next, CallStep
<1> QED
  BY <1>1, <1>2, Invariance, PTL DEF Spec, AsyncSpec, Async!Spec

-----------------------------------------------------------------------------
(* Who is in call() *)

(* The main loop's thread is in one call() at a time. *)
AloneInv == \A j, k \in OnMain : InCall(j) /\ InCall(k) => j = k

(* What a step makes of where a caller is. *)
Onward(k) ==
    \/ at[k] = "sent"  /\ at'[k] \in {"made", "thrown"}
    \/ at[k] = "made"  /\ at'[k] = "filed"
    \/ at[k] = "filed" /\ at'[k] \in {"armed", "thrown"}
    \/ at[k] = "armed" /\ at'[k] = "returned"

LEMMA StepOnward ==
    ASSUME IInv, NEW k \in Calls, Step(k)
    PROVE  Onward(k) /\ delivering' = delivering
BY DEF IInv, TypeOK, Step, Onward, NewParameters, SlotFails, SetData, SetDataFails,
   SetNotify, NotifyFails, Return, Goto

(* One caller at a time begins or goes on, and leaves the others alone.    *)
LEMMA CallerStep ==
    ASSUME IInv, [Next]_vars
    PROVE  \/ at' = at
           \/ \E k \in Calls :
                /\ Begins(k) \/ Step(k)
                /\ Begins(k) => at'[k] \in {"sent", "thrown"}
                /\ Step(k) => Onward(k)
                /\ \A j \in Calls \ {k} : at'[j] = at[j]
                /\ delivering' = delivering
<1>1. ASSUME NEW k \in Calls, Send(k) \/ SendFails(k)
      PROVE  Begins(k) /\ at'[k] \in {"sent", "thrown"} /\ delivering' = delivering
  BY <1>1 DEF IInv, TypeOK, Send, SendFails, Goto
<1>2. ASSUME NEW k \in Calls, Step(k)
      PROVE  ~Begins(k)
  BY <1>2, StepOnward DEF Onward, Begins
<1>3. ASSUME NEW k \in Calls, Begins(k) PROVE ~Step(k)
  BY <1>2, <1>3
<1>4. ASSUME NEW k \in Calls, CallStep(k), NEW j \in Calls \ {k} PROVE at'[j] = at[j]
  BY <1>4, Frame DEF IInv, Same
<1>5. ASSUME NEW k \in Calls, Write(k) \/ Loop(k) PROVE at' = at
  BY <1>5 DEF Write, Loop, Arrive, Complete, Deliver
<1>6. CASE UNCHANGED vars \/ Activity \/ DispatchEnds
  BY <1>6 DEF vars, Activity, DispatchEnds
<1>7. ASSUME NEW k \in Calls, Send(k) \/ SendFails(k)
      PROVE  \A j \in Calls \ {k} : at'[j] = at[j]
  BY <1>4, <1>7 DEF CallStep
<1>8. ASSUME NEW k \in Calls, Step(k)
      PROVE  \A j \in Calls \ {k} : at'[j] = at[j]
  BY <1>4, <1>8 DEF CallStep
<1> QED
  BY <1>1, <1>2, <1>3, <1>5, <1>6, <1>7, <1>8, StepOnward DEF Next

LEMMA AloneInvariance == Spec => []AloneInv
<1>1. Init => AloneInv
  BY CallsAssumption DEF Init, AloneInv, InCall
<1>2. IInv /\ AloneInv /\ [Next]_vars => AloneInv'
  BY CallerStep, CallsAssumption DEF AloneInv, InCall, Begins, LoopRuns, Onward
<1> QED
  BY <1>1, <1>2, Invariance, PTL DEF Spec

(* Neither thread finds the pending call gone that its next step uses: the *)
(* caller until it drops its reference, the main loop until the callback   *)
(* has run; and the main loop's thread makes one call() at a time.         *)
THEOREM NobodyStuck == Spec => []StepsReady
<1>1. IInv /\ AloneInv => StepsReady
  <2> SUFFICES ASSUME IInv, AloneInv PROVE StepsReady
    OBVIOUS
  <2>1. ASSUME NEW k \in Calls, InCall(k) PROVE pending[k] # "finalised" /\ refs[k] > 0
    BY <2>1 DEF IInv, CallInv, PendingInv, CallerHolds
  <2>2. ASSUME NEW k \in Calls, LoopHolds(k) PROVE refs[k] > 0
    BY <2>2 DEF IInv, CallInv, PendingInv
  <2>3. delivering # Null => delivering \in Calls /\ pending[delivering] = "completed"
    BY DEF IInv, TypeOK, CallInv, PendingInv
  <2>4. \A k \in Calls : Awaited(k) => refs[k] > 0
    BY <2>2 DEF LoopHolds
  <2>5. delivering # Null => refs[delivering] > 0
    BY <2>2, <2>3 DEF LoopHolds
  <2> QED BY <2>1, <2>3, <2>4, <2>5 DEF AloneInv, StepsReady, IInv, LoopInv
<1> QED BY <1>1, Invariance, AloneInvariance, PTL

-----------------------------------------------------------------------------
(* Liveness *)

(* How far the main loop's thread is in its call(). *)
Stage(label) == \E k \in OnMain : at[k] = label

LEMMA StageStep ==
    ASSUME IInv, IInv', AloneInv, [Next]_vars
    PROVE  /\ ~LoopRuns <=>
                Stage("sent") \/ Stage("made") \/ Stage("filed") \/ Stage("armed")
           /\ Stage("sent") => Stage("sent")' \/ Stage("made")' \/ LoopRuns'
           /\ Stage("made") => Stage("made")' \/ Stage("filed")' \/ LoopRuns'
           /\ Stage("filed") => Stage("filed")' \/ Stage("armed")' \/ LoopRuns'
           /\ Stage("armed") => Stage("armed")' \/ LoopRuns'
<1>1. ~LoopRuns <=> \E k \in OnMain : InCall(k)
  BY CallsAssumption DEF LoopRuns, InCall, IInv, TypeOK
<1>2. ~LoopRuns' <=> \E k \in OnMain : InCall(k)'
  BY CallsAssumption DEF LoopRuns, InCall, IInv, TypeOK
<1>3. ASSUME NEW k \in OnMain, InCall(k), NEW j \in OnMain, j # k
      PROVE  ~InCall(j)'
  <2>1. ~InCall(j)
    BY <1>3 DEF AloneInv
  <2> QED BY <1>1, <1>3, <2>1, CallerStep, CallsAssumption DEF InCall, Begins, Onward
<1>4. ASSUME NEW k \in OnMain, InCall(k)
      PROVE  at'[k] = at[k] \/ Onward(k)
  BY <1>4, CallerStep, CallsAssumption DEF InCall, Begins
<1>5. ASSUME NEW k \in OnMain, InCall(k)
      PROVE  InCall(k)' \/ LoopRuns'
  BY <1>2, <1>3, <1>5
<1> QED
  BY <1>1, <1>4, <1>5 DEF Stage, InCall, Onward

LEMMA StageEnds ==
    ASSUME IInv, IInv', AloneInv, [Next]_vars, <<MainStep>>_vars
    PROVE  /\ Stage("sent") => Stage("made")' \/ LoopRuns'
           /\ Stage("made") => Stage("filed")' \/ LoopRuns'
           /\ Stage("filed") => Stage("armed")' \/ LoopRuns'
           /\ Stage("armed") => LoopRuns'
<1>1. PICK k \in OnMain : Step(k)
  BY DEF MainStep
<1>2. Onward(k) /\ InCall(k)
  BY <1>1, StepOnward, CallsAssumption DEF Onward, InCall
<1>3. \A j \in OnMain : InCall(j) => j = k
  BY <1>2 DEF AloneInv
<1>4. ASSUME NEW j \in OnMain, j # k PROVE at'[j] = at[j] /\ ~InCall(j)'
  <2>1. Same(j)
    BY <1>1, <1>4, Frame, CallsAssumption DEF IInv, CallStep
  <2> QED BY <1>3, <1>4, <2>1 DEF Same, InCall
<1>5. InCall(k)' \/ LoopRuns'
  BY <1>4, CallsAssumption DEF InCall, LoopRuns, IInv, TypeOK
<1> QED
  BY <1>2, <1>3, <1>5 DEF Stage, InCall, Onward

Fair == Spec /\ GoesOn /\ Returns /\ []StepsEnabled

(* The main loop's thread is again and again in no call(), ...             *)
LEMMA CallEnds == Fair => []<>LoopRuns
<1>1. StepsEnabled => (~LoopRuns => ENABLED <<MainStep>>_vars)
  BY DEF StepsEnabled
<1>2. IInv /\ IInv' /\ AloneInv /\ [Next]_vars =>
          /\ ~LoopRuns =>
                Stage("sent") \/ Stage("made") \/ Stage("filed") \/ Stage("armed")
          /\ Stage("sent") \/ Stage("made") \/ Stage("filed") \/ Stage("armed") => ~LoopRuns
          /\ Stage("sent") => Stage("sent")' \/ Stage("made")' \/ LoopRuns'
          /\ Stage("made") => Stage("made")' \/ Stage("filed")' \/ LoopRuns'
          /\ Stage("filed") => Stage("filed")' \/ Stage("armed")' \/ LoopRuns'
          /\ Stage("armed") => Stage("armed")' \/ LoopRuns'
  BY StageStep
<1>3. IInv /\ IInv' /\ AloneInv /\ [Next]_vars /\ <<MainStep>>_vars =>
          /\ Stage("sent") => Stage("made")' \/ LoopRuns'
          /\ Stage("made") => Stage("filed")' \/ LoopRuns'
          /\ Stage("filed") => Stage("armed")' \/ LoopRuns'
          /\ Stage("armed") => LoopRuns'
  BY StageEnds
<1> QED
  BY <1>1, <1>2, <1>3, Invariance, AloneInvariance, PTL DEF Fair, Spec, GoesOn

(* The loop can dispatch the next message. *)
Free == LoopRuns /\ delivering = Null

(* What a step makes of the completion in hand, and of the loop over the   *)
(* queue: it is left only where it could go on.                            *)
LEMMA LoopStep ==
    ASSUME IInv, [Next]_vars
    PROVE  /\ delivering = Null /\ ~LoopRuns => delivering' = Null
           /\ <<CallbackReturns>>_vars => LoopRuns' /\ delivering' = Null
           /\ dispatching /\ ~Free => dispatching'
<1>1. ASSUME NEW k \in Calls, Deliver(k)
      PROVE  LoopRuns' /\ delivering' = Null /\ dispatching' = dispatching
  BY <1>1 DEF Deliver, LoopRuns
<1>2. ASSUME NEW k \in Calls, Complete(k) PROVE Free
  BY <1>2 DEF Complete, Free
<1>3. ASSUME NEW k \in Calls,
             Send(k) \/ SendFails(k) \/ Step(k) \/ Write(k) \/ Arrive(k)
      PROVE  UNCHANGED <<dispatching, delivering>>
  BY <1>3 DEF Send, SendFails, Write, Arrive, Step, NewParameters, SlotFails,
       SetData, SetDataFails, SetNotify, NotifyFails, Return
<1>4. CASE Activity
  BY <1>4 DEF Activity, CallbackReturns, Deliver
<1>5. CASE DispatchEnds
  BY <1>5 DEF DispatchEnds, CallbackReturns, Deliver, Free
<1>6. CASE UNCHANGED vars
  BY <1>6 DEF vars
<1> QED
  BY <1>1, <1>2, <1>3, <1>4, <1>5, <1>6, CallsAssumption
     DEF Next, Loop, CallbackReturns, Free

(* ... and in no callback either.                                          *)
LEMMA CallbackEnds == Fair => []<>Free
<1>1. StepsEnabled => (LoopRuns /\ delivering # Null => ENABLED <<CallbackReturns>>_vars)
  BY DEF StepsEnabled
<1>2. IInv /\ [Next]_vars =>
          /\ delivering = Null /\ ~LoopRuns => (delivering = Null)'
          /\ <<CallbackReturns>>_vars => LoopRuns' /\ (delivering = Null)'
  BY LoopStep
<1>3. delivering = Null \/ delivering # Null
  OBVIOUS
<1>4. Free <=> LoopRuns /\ delivering = Null
  BY DEF Free
<1> QED
  BY <1>1, <1>2, <1>3, <1>4, Invariance, CallEnds, PTL DEF Fair, Spec, Returns

(* A loop over the queue comes to where it can dispatch the next message.  *)
LEMMA DispatchGoesOn == Fair => [](<>dispatching => <>(dispatching /\ Free))
<1>1. IInv /\ [Next]_vars => (dispatching /\ ~Free => dispatching')
  BY LoopStep
<1> QED
  BY <1>1, Invariance, CallbackEnds, PTL DEF Fair, Spec

(* What becomes of a call that was begun. *)
LEMMA CalledStep ==
    ASSUME IInv, IInv', [Next]_vars, NEW k \in OnMain
    PROVE  /\ InCall(k) => InCall(k)' \/ (at[k] = "returned")' \/ (at[k] = "thrown")'
           /\ InCall(k) => ~LoopRuns
           /\ at[k] = "returned" => (at[k] = "returned")'
           /\ at[k] = "returned" => Awaited(k) \/ delivering = k \/ answered[k] = 1
           /\ Arrive(k) => (pending[k] = "due")'
           /\ Complete(k) => (~Awaited(k))'
           /\ at[k] = "returned" /\ ~Awaited(k) => (~Awaited(k))'
           /\ at[k] = "returned" /\ pending[k] = "due" => (pending[k] # "waiting")'
<1>1. at'[k] = at[k] \/ Begins(k) \/ Onward(k)
  BY CallerStep, CallsAssumption
<1>2. /\ InCall(k) => InCall(k)' \/ (at[k] = "returned")' \/ (at[k] = "thrown")'
      /\ at[k] = "returned" => (at[k] = "returned")'
  BY <1>1 DEF InCall, Begins, Onward
<1>3. InCall(k) => ~LoopRuns
  BY DEF InCall, LoopRuns
<1>4. at[k] = "returned" => Awaited(k) \/ delivering = k \/ answered[k] = 1
  BY CallsAssumption DEF IInv, CallInv, HeardInv, MainInv, LoopHolds
<1>5. /\ Arrive(k) => (pending[k] = "due")'
      /\ Complete(k) => (~Awaited(k))'
  BY CallsAssumption DEF Arrive, Complete, IInv, TypeOK
<1>6. ASSUME at[k] = "returned", pending[k] # "waiting"
      PROVE  /\ (pending[k] # "waiting")'
             /\ ~Awaited(k) => (~Awaited(k))'
  <2>1. CASE UNCHANGED vars \/ Activity \/ DispatchEnds
    BY <1>6, <2>1 DEF vars, Activity, DispatchEnds
  <2>2. ASSUME NEW j \in Calls, CallStep(j), j # k PROVE pending'[k] = pending[k]
    BY <2>2, Frame, CallsAssumption DEF IInv, Same
  <2>3. CASE CallStep(k)
    <3>1. ~Send(k) /\ ~SendFails(k) /\ ~Step(k) /\ ~Arrive(k)
      BY <1>6, StepOnward, CallsAssumption DEF Send, SendFails, Begins, Onward, Arrive
    <3>2. Write(k) \/ Complete(k) \/ Deliver(k)
      BY <2>3, <3>1 DEF CallStep, Loop
    <3> QED
      BY <1>6, <3>2, CallsAssumption
         DEF Write, Complete, Deliver, UnrefAndDelete, IInv, TypeOK
  <2> QED BY <1>6, <2>1, <2>2, <2>3 DEF Next, CallStep
<1> QED BY <1>2, <1>3, <1>4, <1>5, <1>6, CallsAssumption

(* A call of the main loop's thread is answered, or throws, if the loop    *)
(* dispatches again and again, under the fairness of FairSpec, and if each *)
(* of the steps that this is about is possible when StepsEnabled says so   *)
(* (the one thing that only the run shows: a formula with ENABLED).        *)
THEOREM MainCallsHear == FairSpec /\ []StepsEnabled => MainHears
<1>1. FairSpec /\ []StepsEnabled => Fair
  BY DEF FairSpec, Fair
<1>2. ASSUME NEW k \in OnMain PROVE FairSpec /\ []StepsEnabled => Hears(k)
  <2>1. FairSpec => Expires(k) /\ Comes(k)
    BY CallsAssumption DEF FairSpec
  <2>2. StepsEnabled =>
          /\ pending[k] = "waiting" => ENABLED <<Arrive(k)>>_vars
          /\ Free /\ dispatching /\ pending[k] = "due" => ENABLED <<Complete(k)>>_vars
    BY CallsAssumption DEF StepsEnabled, Free
  <2>3. IInv /\ IInv' /\ [Next]_vars =>
          /\ InCall(k) => InCall(k)' \/ (at[k] = "returned")' \/ (at[k] = "thrown")'
          /\ InCall(k) => ~LoopRuns
          /\ at[k] = "returned" => (at[k] = "returned")'
          /\ at[k] = "returned" => Awaited(k) \/ delivering = k \/ answered[k] = 1
          /\ <<Arrive(k)>>_vars => (pending[k] = "due")'
          /\ <<Complete(k)>>_vars => (~Awaited(k))'
          /\ at[k] = "returned" /\ ~Awaited(k) => (~Awaited(k))'
          /\ at[k] = "returned" /\ pending[k] = "due" => (pending[k] # "waiting")'
    BY CalledStep
  <2>4. IInv => (at[k] # "idle" => InCall(k) \/ at[k] = "returned" \/ at[k] = "thrown")
    BY CallsAssumption DEF IInv, TypeOK, InCall
  <2>5. Free => ~(delivering = k)
    BY CallsAssumption DEF Free
  <2>6. Fair => [](InCall(k) => <>(at[k] = "returned" \/ at[k] = "thrown"))
    BY <2>3, Invariance, CallEnds, PTL DEF Fair, Spec
  <2>7. /\ pending[k] # "waiting" <=> ~(pending[k] = "waiting")
        /\ Awaited(k) <=> pending[k] = "waiting" \/ pending[k] = "due"
    OBVIOUS
  <2>8. Fair /\ Expires(k) =>
          [](at[k] = "returned" => <>(at[k] = "returned" /\ pending[k] # "waiting"))
    BY <2>2, <2>3, <2>7, Invariance, PTL DEF Fair, Spec, Expires
  <2>9. Fair /\ Comes(k) =>
          [](at[k] = "returned" /\ pending[k] # "waiting" =>
               <>(answered[k] = 1 \/ []~dispatching))
    BY <2>2, <2>3, <2>5, <2>7, Invariance, CallbackEnds, DispatchGoesOn, PTL
       DEF Fair, Spec, Comes
  <2>10. Fair /\ Expires(k) /\ Comes(k) => Hears(k)
    BY <2>4, <2>6, <2>8, <2>9, Invariance, PTL DEF Fair, Spec, Hears
  <2> QED BY <1>1, <2>1, <2>10
<1> QED BY <1>2 DEF MainHears
=============================================================================
