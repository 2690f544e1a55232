---------------------------- MODULE ServiceProofs ----------------------------
(***************************************************************************)
(* Theorems about Service, for any calls, arguments, types and widths.     *)
(* A step of one call changes nothing of another (Frame), so the invariant *)
(* is one of a single call.                                                *)
(***************************************************************************)
EXTENDS Service, ValuesProofs, SequenceTheorems

USE DEF lifeVars, callerVars, answerVars, serveVars, LoopWaits

-----------------------------------------------------------------------------
(* The inductive invariant *)

Types ==
    /\ life \in {"none", "built", "started", "gone", "thrown", "left"}
    /\ name \in {"none", "queued", "owner"}
    /\ dead \in BOOLEAN /\ dispatching \in BOOLEAN
    /\ input \in Inputs /\ output \in Outputs
    /\ request \in [Calls -> Requests \union {NoRequest}]
    /\ client \in [Calls -> {"idle", "waiting", "posted", "refused", "ok", "emitted",
                             "failed", "late"}]
    /\ response \in [Calls -> Seq(Int \union {NoNumber})]
    /\ stage \in [Calls -> {"none", "lost", "inbox", "running", "handled", "undefined"}]
    /\ answer \in [Calls -> [kind : {"none", "return", "error"}, args : Seq(WireValues)]]
    /\ answers \in [Calls -> Nat]
    /\ running \in Calls \union {Null}
    /\ DOMAIN seen = Calls
    /\ done \in [Calls -> BOOLEAN]
    /\ result \in [Calls -> Seq(Int \union {NoNumber})]

(* Where the message is tells what its caller can have seen, and whether   *)
(* it was answered.                                                        *)
StageInv(k) ==
    /\ client[k] \in {"idle", "refused"} => stage[k] = "none"
    /\ stage[k] \in {"none", "inbox", "running"} => answers[k] = 0
    /\ answers[k] <= 1
    /\ stage[k] \in {"inbox", "running"} => client[k] \in {"waiting", "posted", "late"}
    /\ stage[k] # "handled" => ~done[k]
    /\ stage[k] = "handled" /\ IsCall(k) => answers[k] = 1
    /\ stage[k] = "running" <=> running = k

(* What the answer is, and what its caller makes of it. *)
AnswerInv(k) ==
    /\ answers[k] > 0 => answer[k].kind \in {"return", "error"}
    /\ answers[k] > 0 /\ answer[k].kind = "return" =>
        /\ done[k]
        /\ Readable(answer[k].args)
        /\ request[k].to = "member" => Contents(answer[k].args) = result[k]
    /\ client[k] \in {"ok", "emitted"} => answers[k] > 0 /\ answer[k].kind = "return"
    /\ client[k] = "ok" /\ request[k].to = "member" => response[k] = result[k]
    /\ client[k] = "failed" => answers[k] > 0 /\ answer[k].kind = "error"

(* While a caller on the loop's thread waits nobody serves it. *)
OwnInv(k) ==
    k \in OnLoop /\ IsCall(k) =>
        /\ client[k] \notin {"ok", "emitted"}
        /\ client[k] = "waiting" =>
            /\ stage[k] \in {"lost", "inbox"}
            /\ answers[k] > 0 => answer[k].kind = "error"

CallInv(k) == StageInv(k) /\ AnswerInv(k) /\ OwnInv(k)

IInv == Types /\ \A k \in Calls : CallInv(k)

-----------------------------------------------------------------------------
(* Values *)

LEMMA ExportedWhole ==
  ASSUME output \in Outputs, output # "Real", NEW res \in Results
  PROVE  /\ Exports(res) \in Seq(WireValues)
         /\ Readable(Exports(res))
         /\ Contents(Exports(res)) = res
         /\ res \in Seq(Int \union {NoNumber})
<1>1. CASE output = "none"
  <2>1. res = <<>>
    BY <1>1 DEF Results
  <2>2. Exports(<<>>) = <<>>
    BY DEF Exports
  <2>3. Contents(<<>>) = <<>>
    BY DEF Contents
  <2>4. Readable(<<>>)
    BY DEF Readable
  <2>5. <<>> \in Seq(WireValues) /\ <<>> \in Seq(Int \union {NoNumber})
    BY EmptySeq
  <2> QED BY <2>1, <2>2, <2>3, <2>4, <2>5
<1>2. CASE output # "none"
  <2>1. PICK d \in OutputData : res = <<d>>
    BY <1>2 DEF Results
  <2>2. output \in {"String", "Signed", "Unsigned", "Boolean"}
    BY <1>2, TypesAssumption
  <2>3. d \in Int
    BY <2>2, SamplesAssumption DEF OutputData
  <2>4. Exported(d).data = d /\ Exported(d).type \in ValueTypes \ {"variant"}
    BY <2>2 DEF Exported, Value, ValueTypes
  <2>5. Exported(d) \in WireValues
    <3>1. CASE output = "String"
      BY <3>1, <2>3 DEF Exported, Value, WireValues
    <3>2. CASE output = "Signed"
      <4>1. d \in TypeRange("int32")
        BY <3>2 DEF OutputData, TypeRange
      <4> QED BY <3>2, <4>1, <2>3 DEF Exported, Value, WireValues, NumberTypes
    <3>3. CASE output = "Unsigned"
      <4>1. d \in TypeRange("uint32")
        BY <3>3 DEF OutputData, TypeRange
      <4> QED BY <3>3, <4>1, <2>3 DEF Exported, Value, WireValues, NumberTypes
    <3>4. CASE output = "Boolean"
      <4>1. d \in TypeRange("boolean")
        BY <3>4 DEF OutputData, TypeRange
      <4> QED BY <3>4, <4>1, <2>3 DEF Exported, Value, WireValues, NumberTypes
    <3> QED BY <2>2, <3>1, <3>2, <3>3, <3>4
  <2>6. Exports(res) = <<Exported(d)>>
    BY <2>1 DEF Exports
  <2>7. Contents(<<Exported(d)>>) = <<d>>
    BY <2>4 DEF Contents
  <2>8. Readable(<<Exported(d)>>)
    BY <2>4 DEF Readable, Plain
  <2>9. <<Exported(d)>> \in Seq(WireValues) /\ <<d>> \in Seq(Int \union {NoNumber})
    BY <2>3, <2>5
  <2> QED BY <2>1, <2>6, <2>7, <2>8, <2>9
<1> QED BY <1>1, <1>2
-----------------------------------------------------------------------------
(* The invariant is inductive *)

LEMMA InitInv == Init => IInv
<1> SUFFICES ASSUME Init PROVE IInv
  OBVIOUS
<1>1. <<>> \in Seq(WireValues) /\ <<>> \in Seq(Int \union {NoNumber})
  BY EmptySeq
<1>2. Types
  BY <1>1 DEF Init, Types, NoRequest
<1>3. ASSUME NEW k \in Calls PROVE CallInv(k)
  BY <1>3, CallsAssumption
  DEF Init, CallInv, StageInv, AnswerInv, OwnInv, IsCall, NoRequest
<1> QED BY <1>2, <1>3 DEF IInv

(* What a step leaves alone when it is not about call c. *)
Same(c) ==
    /\ request'[c] = request[c] /\ client'[c] = client[c] /\ response'[c] = response[c]
    /\ stage'[c] = stage[c] /\ answer'[c] = answer[c] /\ answers'[c] = answers[c]
    /\ done'[c] = done[c] /\ result'[c] = result[c]
    /\ running' = c <=> running = c

LEMMA Frame ==
  ASSUME NEW c \in Calls, CallInv(c), Same(c)
  PROVE  CallInv(c)'
  BY DEF CallInv, StageInv, AnswerInv, OwnInv, IsCall, Same

(* A step of the object, or of the loop between two messages. *)
LEMMA ObjectLeaves ==
  ASSUME Object \/ Loop \/ UNCHANGED vars
  PROVE  UNCHANGED <<callerVars, stage, answerVars, serveVars>>
<1>1. CASE Object
  BY <1>1 DEF Object, Unserved, Construct, ConstructFails, Start, Inherit, Stop, Destroy
<1>2. CASE Loop
  BY <1>2 DEF Loop, Activity, DispatchEnds, Stray
<1> QED BY <1>1, <1>2 DEF vars

LEMMA ObjectStep ==
  ASSUME IInv, Object \/ Loop \/ UNCHANGED vars
  PROVE  IInv'
<1>1. Types' /\ UNCHANGED <<callerVars, stage, answerVars, serveVars>>
  <2>1. UNCHANGED <<callerVars, stage, answerVars, serveVars>>
    BY ObjectLeaves
  <2>2. CASE Object
    BY <2>1, <2>2 DEF IInv, Types, Object, Unserved, Construct, ConstructFails, Start,
                     Inherit, Stop, Destroy
  <2>3. CASE Loop
    BY <2>1, <2>3 DEF IInv, Types, Loop, Activity, DispatchEnds, Stray
  <2> QED BY <2>1, <2>2, <2>3 DEF IInv, Types, vars
<1>2. ASSUME NEW c \in Calls PROVE CallInv(c)'
  <2>1. Same(c)
    BY <1>1 DEF Same
  <2> QED BY <2>1, Frame DEF IInv
<1> QED BY <1>1, <1>2 DEF IInv

(* A step of call k keeps the invariant if it keeps the types and that of  *)
(* k, and leaves the others alone.                                         *)
LEMMA CallStep ==
  ASSUME IInv, NEW k \in Calls, Types', CallInv(k)',
         \A c \in Calls \ {k} : Same(c)
  PROVE  IInv'
<1>1. ASSUME NEW c \in Calls PROVE CallInv(c)'
  <2>1. CASE c = k
    BY <2>1
  <2>2. CASE c # k
    BY <2>2, Frame DEF IInv
  <2> QED BY <2>1, <2>2
<1> QED BY <1>1 DEF IInv

(* An answer of the right type, or none, leaves answers of the right type. *)
Answers == [kind : {"none", "return", "error"}, args : Seq(WireValues)]

LEMMA ErrorType == Error \in Answers /\ Error.kind = "error"
  BY EmptySeq DEF Error, Answers

LEMMA AnswerTypes ==
  ASSUME Types, NEW k \in Calls, NEW a \in Answers,
         Answer(k, a) \/ UNCHANGED answerVars
  PROVE  answer' \in [Calls -> Answers] /\ answers' \in [Calls -> Nat]
<1>1. answer \in [Calls -> Answers] /\ answers \in [Calls -> Nat]
  BY DEF Types, Answers
<1>2. CASE Answer(k, a)
  BY <1>1, <1>2 DEF Answer
<1>3. CASE UNCHANGED answerVars
  BY <1>1, <1>3
<1> QED BY <1>2, <1>3

LEMMA SendStep ==
  ASSUME IInv, NEW k \in Calls, NEW r \in Requests, Send(k, r)
  PROVE  IInv'
<1> USE DEF IInv, Types, Send, Begins
<1>1. answer' \in [Calls -> Answers] /\ answers' \in [Calls -> Nat]
  BY ErrorType, AnswerTypes
<1>2. Types'
  <2>1. request' \in [Calls -> Requests \union {NoRequest}]
    OBVIOUS
  <2>2. client' \in [Calls -> {"idle", "waiting", "posted", "refused", "ok", "emitted",
                               "failed", "late"}]
    OBVIOUS
  <2>3. stage' \in [Calls -> {"none", "lost", "inbox", "running", "handled", "undefined"}]
    OBVIOUS
  <2> QED BY <1>1, <2>1, <2>2, <2>3 DEF Answers
<1>4. StageInv(k)'
  BY CallsAssumption DEF CallInv, StageInv, Answer, IsCall
<1>5. AnswerInv(k)'
  BY ErrorType DEF CallInv, StageInv, AnswerInv, Answer
<1>6. OwnInv(k)'
  BY ErrorType DEF CallInv, StageInv, OwnInv, Answer, IsCall
<1>7. ASSUME NEW c \in Calls \ {k} PROVE Same(c)
  BY <1>7 DEF Same, Answer
<1> HIDE DEF IInv, Types, Send
<1> QED BY <1>2, <1>4, <1>5, <1>6, <1>7, CallStep DEF CallInv

(* Steps of the caller. *)
LEMMA RefuseStep ==
  ASSUME IInv, NEW k \in Calls, Refuse(k)
  PROVE  IInv'
<1> USE DEF IInv, Types, Refuse, Begins
<1>1. Types'
  OBVIOUS
<1>2. CallInv(k)'
  BY DEF CallInv, StageInv, AnswerInv, OwnInv, IsCall
<1>3. ASSUME NEW c \in Calls \ {k} PROVE Same(c)
  BY <1>3 DEF Same
<1> HIDE DEF IInv, Types, Refuse
<1> QED BY <1>1, <1>2, <1>3, CallStep

LEMMA TimeoutStep ==
  ASSUME IInv, NEW k \in Calls, Timeout(k)
  PROVE  IInv'
<1> USE DEF IInv, Types, Timeout
<1>1. Types'
  OBVIOUS
<1>2. CallInv(k)'
  BY DEF CallInv, StageInv, AnswerInv, OwnInv, IsCall
<1>3. ASSUME NEW c \in Calls \ {k} PROVE Same(c)
  BY <1>3 DEF Same
<1> HIDE DEF IInv, Types, Timeout
<1> QED BY <1>1, <1>2, <1>3, CallStep

LEMMA EmittedStep ==
  ASSUME IInv, NEW k \in Calls, Emitted(k)
  PROVE  IInv'
<1> USE DEF IInv, Types, Emitted, Awaited
<1>1. Types'
  OBVIOUS
<1>2. CallInv(k)'
  BY DEF CallInv, StageInv, AnswerInv, OwnInv, IsCall
<1>3. ASSUME NEW c \in Calls \ {k} PROVE Same(c)
  BY <1>3 DEF Same
<1> HIDE DEF IInv, Types, Emitted
<1> QED BY <1>1, <1>2, <1>3, CallStep

LEMMA ContentsType ==
  ASSUME NEW args \in Seq(WireValues)
  PROVE  Contents(args) \in Seq(Int \union {NoNumber})
<1>1. \A v \in WireValues : v.data \in Int \union {NoNumber}
  BY DEF WireValues
<1>2. \A i \in 1 .. Len(args) : args[i] \in WireValues
  OBVIOUS
<1>3. Len(args) \in Nat
  OBVIOUS
<1> QED BY <1>1, <1>2, <1>3, IsASeq DEF Contents

LEMMA ReceiveStep ==
  ASSUME IInv, NEW k \in Calls, Receive(k)
  PROVE  IInv'
<1> USE DEF IInv, Types, Receive, Awaited
<1>1. answer[k].args \in Seq(WireValues)
  OBVIOUS
<1>2. Types'
  <2>1. Contents(answer[k].args) \in Seq(Int \union {NoNumber})
    BY <1>1, ContentsType
  <2> QED BY <2>1
<1>3. CallInv(k)'
  BY DEF CallInv, StageInv, AnswerInv, OwnInv, IsCall
<1>4. ASSUME NEW c \in Calls \ {k} PROVE Same(c)
  BY <1>4 DEF Same
<1> HIDE DEF IInv, Types, Receive
<1> QED BY <1>2, <1>3, <1>4, CallStep

(* Steps of the service.  One that answers with an error, or with what it  *)
(* has done, and one that drops a signal. *)
LEMMA ServesStep ==
  ASSUME IInv, NEW k \in Calls, Serves(k), NEW a \in Answers,
         Answer(k, a) \/ (~IsCall(k) /\ UNCHANGED answerVars),
         \/ a.kind = "error" /\ UNCHANGED done
         \/ /\ a.kind = "return" /\ Readable(a.args) /\ request[k].to # "member"
            /\ Answer(k, a)
            /\ done' = [done EXCEPT ![k] = TRUE]
  PROVE  IInv'
<1> USE DEF IInv, Types, Serves, Dispatches, Handled, LoopFree
<1>1. answer' \in [Calls -> Answers] /\ answers' \in [Calls -> Nat]
  BY AnswerTypes
<1>2. Types'
  BY <1>1 DEF Answers
<1>3. StageInv(k)'
  BY DEF CallInv, StageInv, Answer, IsCall
<1>4. AnswerInv(k)'
  BY DEF CallInv, StageInv, AnswerInv, Answer, IsCall
<1>5. OwnInv(k)'
  BY DEF CallInv, StageInv, OwnInv, Answer, IsCall
<1>6. ASSUME NEW c \in Calls \ {k} PROVE Same(c)
  BY <1>6 DEF Same, Answer
<1> HIDE DEF IInv, Types, Serves
<1> QED BY <1>2, <1>3, <1>4, <1>5, <1>6, CallStep DEF CallInv

LEMMA IntrospectStep ==
  ASSUME IInv, NEW k \in Calls, Introspect(k)
  PROVE  IInv'
<1> DEFINE text == Value("string", NoNumber)
           a == Return(<<text>>)
<1>1. text \in WireValues /\ text.type = "string"
  BY DEF Value, WireValues
<1>2. a \in Answers
  BY <1>1 DEF Return, Answers
<1>3. a.kind = "return" /\ Readable(a.args)
  BY <1>1 DEF Return, Readable, Plain, ValueTypes
<1>4. Answer(k, a) /\ Serves(k) /\ request[k].to # "member"
      /\ done' = [done EXCEPT ![k] = TRUE]
  BY DEF Introspect
<1> HIDE DEF a
<1> QED BY <1>2, <1>3, <1>4, ServesStep

LEMMA ErrorStep ==
  ASSUME IInv, NEW k \in Calls,
         Properties(k) \/ NotHandled(k) \/ NoMember(k) \/ ImportFails(k)
  PROVE  IInv'
<1>1. /\ Serves(k) /\ UNCHANGED done
      /\ Answer(k, Error) \/ (~IsCall(k) /\ UNCHANGED answerVars)
  BY DEF Properties, NotHandled, NoMember, ImportFails
<1> QED BY <1>1, ErrorType, ServesStep

LEMMA DispatchDeadStep ==
  ASSUME IInv, NEW k \in Calls, DispatchDead(k)
  PROVE  IInv'
<1> USE DEF IInv, Types, DispatchDead, LoopFree
<1>1. Types'
  OBVIOUS
<1>2. CallInv(k)'
  BY DEF CallInv, StageInv, AnswerInv, OwnInv, IsCall
<1>3. ASSUME NEW c \in Calls \ {k} PROVE Same(c)
  BY <1>3 DEF Same
<1> HIDE DEF IInv, Types, DispatchDead
<1> QED BY <1>1, <1>2, <1>3, CallStep

LEMMA RunStep ==
  ASSUME IInv, NEW k \in Calls, Run(k)
  PROVE  IInv'
<1> USE DEF IInv, Types, Run, Dispatches, LoopFree
<1>1. Types'
  OBVIOUS
<1>2. CallInv(k)'
  BY CallsAssumption DEF CallInv, StageInv, AnswerInv, OwnInv, IsCall
<1>3. ASSUME NEW c \in Calls \ {k} PROVE Same(c)
  BY <1>3, CallsAssumption DEF Same
<1> HIDE DEF IInv, Types, Run
<1> QED BY <1>1, <1>2, <1>3, CallStep

(* A handler's end: with an error, or with what it put out. *)
LEMMA HandlerEndsStep ==
  ASSUME IInv, NEW k \in Calls, HandlerEnds(k), NEW a \in Answers, Answer(k, a),
         NEW res \in Seq(Int \union {NoNumber}),
         \/ a.kind = "error"
         \/ a.kind = "return" /\ done'[k] /\ Readable(a.args) /\ Contents(a.args) = res,
         \/ UNCHANGED <<done, result>>
         \/ done' = [done EXCEPT ![k] = TRUE] /\ result' = [result EXCEPT ![k] = res],
         a.kind = "return" => result' = [result EXCEPT ![k] = res]
  PROVE  IInv'
<1> USE DEF IInv, Types, HandlerEnds, HandlerRuns, Handled
<1>1. answer' \in [Calls -> Answers] /\ answers' \in [Calls -> Nat]
  BY AnswerTypes
<1>2. Types'
  <2>1. done' \in [Calls -> BOOLEAN]
    OBVIOUS
  <2>3. result' \in [Calls -> Seq(Int \union {NoNumber})]
    OBVIOUS
  <2>2. stage' \in [Calls -> {"none", "lost", "inbox", "running", "handled", "undefined"}]
    OBVIOUS
  <2> QED BY <1>1, <2>1, <2>2, <2>3 DEF Answers
<1>3. StageInv(k)'
  BY CallsAssumption DEF CallInv, StageInv, Answer, IsCall
<1>4. AnswerInv(k)'
  BY DEF CallInv, StageInv, AnswerInv, Answer, IsCall
<1>5. OwnInv(k)'
  BY DEF CallInv, StageInv, OwnInv, Answer, IsCall
<1>6. ASSUME NEW c \in Calls \ {k} PROVE Same(c)
  BY <1>6, CallsAssumption DEF Same, Answer
<1> HIDE DEF IInv, Types, HandlerEnds
<1> QED BY <1>2, <1>3, <1>4, <1>5, <1>6, CallStep DEF CallInv

LEMMA HandlerReturnsStep ==
  ASSUME IInv, NEW k \in Calls, HandlerReturns(k)
  PROVE  IInv'
<1>1. PICK res \in Results :
        /\ result' = [result EXCEPT ![k] = res]
        /\ IF output = "Real" THEN Answer(k, Error) ELSE Answer(k, Return(Exports(res)))
  BY DEF HandlerReturns
<1>2. HandlerEnds(k) /\ done' = [done EXCEPT ![k] = TRUE] /\ done'[k]
  BY DEF HandlerReturns, IInv, Types
<1>3. output \in Outputs
  BY DEF IInv, Types
<1>4. CASE output = "Real"
  <2>1. res \in Seq(Int \union {NoNumber})
    <3>1. PICK d \in Samples : res = <<d>>
      BY <1>4 DEF Results, OutputData
    <3> QED BY <3>1, SamplesAssumption
  <2>2. Error.kind # "return"
    BY ErrorType
  <2> QED BY <1>1, <1>2, <1>4, <2>1, <2>2, ErrorType, HandlerEndsStep
<1>5. CASE output # "Real"
  <2> DEFINE a == Return(Exports(res))
  <2>1. a \in Answers /\ a.kind = "return" /\ a.args = Exports(res)
    BY <1>3, <1>5, ExportedWhole DEF Return, Answers
  <2>2. Readable(a.args) /\ Contents(a.args) = res /\ res \in Seq(Int \union {NoNumber})
    BY <1>3, <1>5, <2>1, ExportedWhole
  <2>3. Answer(k, a)
    BY <1>1, <1>5
  <2> HIDE DEF a
  <2> QED BY <1>1, <1>2, <2>1, <2>2, <2>3, HandlerEndsStep
<1> QED BY <1>4, <1>5

LEMMA HandlerFailsStep ==
  ASSUME IInv, NEW k \in Calls, HandlerFails(k)
  PROVE  IInv'
<1>1. HandlerEnds(k) /\ Answer(k, Error) /\ UNCHANGED <<done, result>>
  BY DEF HandlerFails
<1>2. <<>> \in Seq(Int \union {NoNumber})
  BY EmptySeq
<1>3. Error.kind # "return"
  BY ErrorType
<1> QED BY <1>1, <1>2, <1>3, ErrorType, HandlerEndsStep

LEMMA NextInv == IInv /\ [Next]_vars => IInv'
<1> SUFFICES ASSUME IInv, [Next]_vars PROVE IInv'
  OBVIOUS
<1>1. CASE Object \/ Loop \/ UNCHANGED vars
  BY <1>1, ObjectStep
<1>2. ASSUME NEW k \in Calls, Caller(k) PROVE IInv'
  BY <1>2, SendStep, RefuseStep, ReceiveStep, EmittedStep, TimeoutStep DEF Caller
<1>3. ASSUME NEW k \in Calls, Filter(k) PROVE IInv'
  BY <1>3, DispatchDeadStep, IntrospectStep, ErrorStep, RunStep DEF Filter
<1>4. ASSUME NEW k \in Calls, Handler(k) PROVE IInv'
  BY <1>4, HandlerReturnsStep, HandlerFailsStep DEF Handler
<1> QED BY <1>1, <1>2, <1>3, <1>4 DEF Next

(* The inductive invariant holds of every state. *)
LEMMA Invariance == Spec => []IInv
<1> QED BY InitInv, NextInv, PTL DEF Spec

-----------------------------------------------------------------------------
(* Theorems *)

(* Every variable stays in its range; what is answered is what libdbus can *)
(* append to a message. *)
THEOREM TypeCorrect == Spec => []TypeOK
<1>1. IInv => TypeOK
  <2> SUFFICES ASSUME IInv PROVE TypeOK
    OBVIOUS
  <2>1. ASSUME NEW k \in Calls
        PROVE  /\ answer[k].kind \in {"none", "return", "error"}
               /\ \A i \in 1 .. Len(answer[k].args) : answer[k].args[i] \in WireValues
    <3>1. answer[k] \in [kind : {"none", "return", "error"}, args : Seq(WireValues)]
      BY DEF IInv, Types
    <3>2. answer[k].args \in Seq(WireValues)
      BY <3>1
    <3> QED BY <3>1, <3>2
  <2> QED BY <2>1 DEF IInv, Types, TypeOK
<1> QED BY <1>1, Invariance, PTL

(* on_message answers every method call once, whatever it asks for and     *)
(* however its handler ends; nothing is answered twice. *)
THEOREM AnswersCorrect == Spec => []AnsweredOnce
<1>1. IInv => AnsweredOnce
  BY DEF IInv, Types, CallInv, StageInv, AnsweredOnce
<1> QED BY <1>1, Invariance, PTL

(* A call that the main loop's thread makes to its own service fails. *)
THEOREM OwnCallsFail == Spec => []OwnCallFails
<1>1. IInv => OwnCallFails
  BY CallsAssumption DEF IInv, CallInv, OwnInv, OwnCallFails
<1> QED BY <1>1, Invariance, PTL

-----------------------------------------------------------------------------
(* What the handler gets *)

SeenInv(k) ==
    /\ seen[k] # Null => stage[k] \in {"running", "handled"}
    /\ seen[k] # Null /\ (request[k].arg.type = "int64" =>
                           request[k].arg.data \in SignedRange(Word)) =>
        seen[k] = request[k].arg.data

(* A call's input is set by Run only, its request by Send only. *)
LEMMA SeenStep ==
  ASSUME IInv, [Next]_vars, NEW k \in Calls
  PROVE  \/ Run(k)
         \/ /\ seen'[k] = seen[k]
            /\ client[k] = "idle" \/ request'[k] = request[k]
            /\ stage[k] \in {"running", "handled"} => stage'[k] \in {"running", "handled"}
<1> DEFINE Kept ==
      /\ seen'[k] = seen[k]
      /\ client[k] = "idle" \/ request'[k] = request[k]
      /\ stage[k] \in {"running", "handled"} => stage'[k] \in {"running", "handled"}
<1>1. CASE Object \/ Loop \/ UNCHANGED vars
  BY <1>1, ObjectLeaves
<1>2. ASSUME NEW c \in Calls, Caller(c) PROVE Kept
  <2>1. ASSUME NEW r \in Requests, Send(c, r) PROVE Kept
    BY <2>1 DEF Send, Begins, IInv, Types, CallInv, StageInv
  <2>2. CASE Refuse(c) \/ Receive(c) \/ Emitted(c) \/ Timeout(c)
    BY <2>2 DEF Refuse, Receive, Emitted, Awaited, Timeout
  <2> QED BY <1>2, <2>1, <2>2 DEF Caller
<1>3. ASSUME NEW c \in Calls, Filter(c), ~Run(c) PROVE Kept
  <2>1. stage' \in [Calls -> {"none", "lost", "inbox", "running", "handled", "undefined"}]
        /\ stage[c] = "inbox" /\ (\E to \in {"handled", "undefined"} : stage' = [stage EXCEPT ![c] = to])
    BY <1>3 DEF Filter, DispatchDead, Introspect, Properties, NotHandled, NoMember,
                ImportFails, Serves, Dispatches, Handled, IInv, Types
  <2>2. UNCHANGED <<seen, request>>
    BY <1>3 DEF Filter, DispatchDead, Introspect, Properties, NotHandled, NoMember,
                ImportFails, Serves
  <2> QED BY <2>1, <2>2 DEF IInv, Types
<1>4. ASSUME NEW c \in Calls, Run(c) PROVE Run(k) \/ Kept
  BY <1>4 DEF Run, IInv, Types
<1>5. ASSUME NEW c \in Calls, Handler(c) PROVE Kept
  BY <1>5 DEF Handler, HandlerReturns, HandlerFails, HandlerEnds, Handled, IInv, Types
<1> QED BY <1>1, <1>2, <1>3, <1>4, <1>5 DEF Next

Seen == \A k \in Calls : SeenInv(k)

LEMMA SeenInvariance == Spec => []Seen
<1>1. Init => Seen
  BY DEF Init, Seen, SeenInv
<1>2. IInv /\ Seen /\ [Next]_vars => Seen'
  <2> SUFFICES ASSUME IInv, Seen, [Next]_vars, NEW k \in Calls PROVE SeenInv(k)'
    BY DEF Seen
  <2>1. CASE Run(k)
    <3>1. stage'[k] = "running" /\ request' = request
      BY <2>1 DEF Run, IInv, Types
    <3>2. seen'[k] = IF input = "none" THEN Null ELSE Imported(request[k].arg)
      BY <2>1 DEF Run, IInv, Types
    <3>3. CASE request[k].arg.type = "int64" /\ request[k].arg.data \in SignedRange(Word)
      <4>1. Signed(Word, request[k].arg.data) = request[k].arg.data
        BY <3>3, WidthAssumption, SignedWhole
      <4> QED BY <3>1, <3>2, <4>1 DEF SeenInv, Imported
    <3>4. CASE request[k].arg.type # "int64"
      BY <3>1, <3>2, <3>4 DEF SeenInv, Imported
    <3> QED BY <3>1, <3>3, <3>4 DEF SeenInv
  <2>2. CASE /\ seen'[k] = seen[k]
             /\ client[k] = "idle" \/ request'[k] = request[k]
             /\ stage[k] \in {"running", "handled"} => stage'[k] \in {"running", "handled"}
    BY <2>2 DEF Seen, SeenInv, IInv, CallInv, StageInv
  <2> QED BY <2>1, <2>2, SeenStep
<1> QED BY <1>1, <1>2, Invariance, PTL DEF Spec

(* A caller that succeeds has what the handler of its call put out, one    *)
(* fails on an error only, and the handler got the argument of the call,   *)
(* if an int can have it: for any moduli. *)
THEOREM ResultsCorrect == Spec => []ResultWhole
<1>1. IInv /\ Seen => ResultWhole
  BY DEF IInv, Types, CallInv, AnswerInv, Seen, SeenInv, ResultWhole
<1> QED BY <1>1, Invariance, SeenInvariance, PTL

-----------------------------------------------------------------------------
(* Refinement *)

Heard(c) == CASE c = "late" -> "failed" [] c = "emitted" -> "ok" [] OTHER -> c

(* The mapping changes where client does. *)
LEMMA HeardStep ==
  ASSUME IInv, NEW k \in Calls, NEW to, client' = [client EXCEPT ![k] = to]
  PROVE  CallState' = [CallState EXCEPT ![k] = Heard(to)]
<1>1. \A c \in Calls : client'[c] = IF c = k THEN to ELSE client[c]
  BY DEF IInv, Types
<1> QED BY <1>1 DEF CallState, Heard

LEMMA HeardOf == \A k \in Calls : CallState[k] = Heard(client[k])
  BY DEF CallState, Heard

(* Callers and service together implement RemoteCall, with what a caller   *)
(* has heard of its call (CallState) and what the service has done. *)
THEOREM RpcKept == Spec => RpcSpec
<1>1. Init => Rpc!Init
  BY DEF Init, Rpc!Init, CallState
<1>2. IInv /\ [Next]_vars => [Rpc!Next]_(Rpc!vars)
  <2> SUFFICES ASSUME IInv, [Next]_vars PROVE [Rpc!Next]_(Rpc!vars)
    OBVIOUS
  <2>1. ASSUME UNCHANGED <<client, done>> PROVE UNCHANGED Rpc!vars
    BY <2>1 DEF CallState, Rpc!vars
  <2>2. CASE Object \/ Loop \/ UNCHANGED vars
    <3>1. UNCHANGED <<client, done>>
      BY <2>2, ObjectLeaves
    <3> QED BY <3>1, <2>1
  <2>3. ASSUME NEW k \in Calls, Caller(k) PROVE [Rpc!Next]_(Rpc!vars)
    <3>1. CASE (\E r \in Requests : Send(k, r)) \/ Refuse(k)
      <4>1. PICK to \in {"waiting", "posted", "refused"} : client' = [client EXCEPT ![k] = to]
        BY <3>1 DEF Send, Refuse
      <4>2. client[k] = "idle" /\ UNCHANGED done
        BY <3>1 DEF Send, Refuse, Begins
      <4>3. CallState[k] = "idle" /\ Heard(to) = to
        BY <4>1, <4>2, HeardOf DEF Heard
      <4>4. CallState' = [CallState EXCEPT ![k] = to]
        BY <4>1, <4>3, HeardStep
      <4>5. Rpc!Begin(k)
        BY <4>1, <4>2, <4>3, <4>4 DEF Rpc!Begin, Rpc!Move
      <4> QED BY <4>5 DEF Rpc!Next
    <3>2. CASE Receive(k) \/ Emitted(k) \/ Timeout(k)
      <4>1. client[k] = "waiting" /\ UNCHANGED done
        BY <3>2 DEF Receive, Emitted, Awaited, Timeout
      <4>2. CallState[k] = "waiting"
        BY <4>1, HeardOf DEF Heard
      <4>3. PICK to \in {"ok", "emitted", "failed", "late"} :
                /\ client' = [client EXCEPT ![k] = to]
                /\ to \in {"ok", "emitted"} => answers[k] > 0 /\ answer[k].kind # "error"
        BY <3>2 DEF Receive, Emitted, Awaited, Timeout
      <4>4. CallState' = [CallState EXCEPT ![k] = Heard(to)]
        BY <4>3, HeardStep
      <4>5. CASE to \in {"ok", "emitted"}
        <5>1. done[k]
          BY <4>3, <4>5 DEF IInv, CallInv, AnswerInv
        <5>2. Heard(to) = "ok"
          BY <4>5 DEF Heard
        <5>3. Rpc!Succeed(k)
          BY <4>1, <4>2, <4>4, <5>1, <5>2 DEF Rpc!Succeed, Rpc!Move
        <5> QED BY <5>3 DEF Rpc!Next
      <4>6. CASE to \in {"failed", "late"}
        <5>1. Heard(to) = "failed"
          BY <4>6 DEF Heard
        <5>2. Rpc!Fail(k)
          BY <4>1, <4>2, <4>4, <5>1 DEF Rpc!Fail, Rpc!Move
        <5> QED BY <5>2 DEF Rpc!Next
      <4> QED BY <4>3, <4>5, <4>6
    <3> QED BY <2>3, <3>1, <3>2 DEF Caller
  <2>4. ASSUME NEW k \in Calls, Introspect(k) \/ HandlerReturns(k)
        PROVE  [Rpc!Next]_(Rpc!vars)
    <3>1. stage[k] \in {"inbox", "running"} /\ UNCHANGED client
          /\ done' = [done EXCEPT ![k] = TRUE]
      BY <2>4 DEF Introspect, Serves, Dispatches, HandlerReturns, HandlerEnds, HandlerRuns,
                  IInv, CallInv, StageInv
    <3>2. ~done[k] /\ client[k] \in {"waiting", "posted", "late"}
      BY <3>1 DEF IInv, CallInv, StageInv
    <3>3. CallState[k] \in {"waiting", "posted", "failed"}
      BY <3>2, HeardOf DEF Heard
    <3>4. UNCHANGED CallState
      BY <3>1 DEF CallState
    <3>5. Rpc!Serve(k)
      BY <3>1, <3>2, <3>3, <3>4 DEF Rpc!Serve
    <3> QED BY <3>5 DEF Rpc!Next
  <2>5. ASSUME NEW k \in Calls,
               \/ DispatchDead(k) \/ Properties(k) \/ NotHandled(k) \/ NoMember(k)
               \/ ImportFails(k) \/ Run(k) \/ HandlerFails(k)
        PROVE  UNCHANGED <<client, done>>
    BY <2>5 DEF DispatchDead, Properties, NotHandled, NoMember, ImportFails, Run,
                HandlerFails, HandlerEnds, Serves
  <2> QED BY <2>1, <2>2, <2>3, <2>4, <2>5 DEF Next, Filter, Handler
<1> QED BY <1>1, <1>2, Invariance, PTL DEF Spec, RpcSpec, Rpc!Spec

-----------------------------------------------------------------------------
(* Who waits for whom *)

(* One caller in OnLoop waits at a time: they share their thread.          *)
WaitInv == \A c, d \in OnLoop : client[c] = "waiting" /\ client[d] = "waiting" => c = d

(* What becomes of callers and of the handler in a step.                   *)
LEMMA ThreadStep ==
  ASSUME IInv, [Next]_vars
  PROVE  \/ client' = client /\ running' = running
         \/ \E k \in Calls :
              /\ Begins(k) /\ running' = running
              /\ \E to \in {"waiting", "posted", "refused"} : client' = [client EXCEPT ![k] = to]
         \/ \E k \in Calls :
              /\ client[k] = "waiting" /\ running' = running
              /\ \E to \in {"ok", "failed", "emitted", "late"} : client' = [client EXCEPT ![k] = to]
         \/ LoopFree /\ client' = client /\ \E k \in Calls : running' = k
         \/ \E k \in Calls : HandlerRuns(k) /\ client' = client /\ running' = Null
<1>1. CASE Object \/ Loop \/ UNCHANGED vars
  BY <1>1, ObjectLeaves
<1>2. ASSUME NEW k \in Calls, (\E r \in Requests : Send(k, r)) \/ Refuse(k)
      PROVE  /\ Begins(k) /\ running' = running
             /\ \E to \in {"waiting", "posted", "refused"} : client' = [client EXCEPT ![k] = to]
  BY <1>2 DEF Send, Refuse
<1>3. ASSUME NEW k \in Calls, Receive(k) \/ Emitted(k) \/ Timeout(k)
      PROVE  /\ client[k] = "waiting" /\ running' = running
             /\ \E to \in {"ok", "failed", "emitted", "late"} : client' = [client EXCEPT ![k] = to]
  BY <1>3 DEF Receive, Emitted, Awaited, Timeout
<1>4. ASSUME NEW k \in Calls, Filter(k), ~Run(k)
      PROVE  client' = client /\ running' = running
  BY <1>4 DEF Filter, DispatchDead, Introspect, Properties, NotHandled, NoMember,
              ImportFails, Serves
<1>5. ASSUME NEW k \in Calls, Run(k)
      PROVE  LoopFree /\ client' = client /\ running' = k
  BY <1>5 DEF Run, Dispatches
<1>6. ASSUME NEW k \in Calls, Handler(k)
      PROVE  HandlerRuns(k) /\ client' = client /\ running' = Null
  BY <1>6 DEF Handler, HandlerReturns, HandlerFails, HandlerEnds
<1> QED BY <1>1, <1>2, <1>3, <1>4, <1>5, <1>6 DEF Next, Caller

LEMMA WaitInvariance == Spec => []WaitInv
<1>1. Init => WaitInv
  BY CallsAssumption DEF Init, WaitInv
<1>2. IInv /\ WaitInv /\ [Next]_vars => WaitInv'
  <2> SUFFICES ASSUME IInv, WaitInv, [Next]_vars,
                      NEW c \in OnLoop, NEW d \in OnLoop,
                      client'[c] = "waiting", client'[d] = "waiting"
               PROVE  c = d
    BY DEF WaitInv
  <2>1. CASE client' = client
    BY <2>1 DEF WaitInv
  <2>2. CASE \E k \in Calls :
               /\ Begins(k)
               /\ \E to \in {"waiting", "posted", "refused"} : client' = [client EXCEPT ![k] = to]
    BY <2>2, CallsAssumption DEF Begins, WaitInv, IInv, Types
  <2>3. CASE \E k \in Calls :
               \E to \in {"ok", "failed", "emitted", "late"} : client' = [client EXCEPT ![k] = to]
    BY <2>3, CallsAssumption DEF WaitInv, IInv, Types
  <2> QED BY <2>1, <2>2, <2>3, ThreadStep
<1> QED BY <1>1, <1>2, Invariance, PTL DEF Spec

(* What a caller waits for.                                                *)
AwaitInv ==
    \A k \in Calls : client[k] = "waiting" =>
        /\ IsCall(k)
        /\ answers[k] = 0 =>
            stage[k] \in {"inbox", "running", "undefined"} \/ ~request[k].addressed

LEMMA AwaitInvariance == Spec => []AwaitInv
<1>1. Init => AwaitInv
  BY DEF Init, AwaitInv
<1>2. IInv /\ IInv' /\ AwaitInv /\ [Next]_vars => AwaitInv'
  <2> SUFFICES ASSUME IInv, IInv', AwaitInv, [Next]_vars, NEW k \in Calls,
                      client'[k] = "waiting"
               PROVE  /\ IsCall(k)'
                      /\ answers'[k] = 0 =>
                           \/ stage'[k] \in {"inbox", "running", "undefined"}
                           \/ ~request'[k].addressed
    BY DEF AwaitInv
  <2>1. /\ stage'[k] = "handled" /\ IsCall(k)' => answers'[k] = 1
        /\ answers[k] \in Nat
    BY DEF IInv, Types, CallInv, StageInv
  <2>2. ASSUME client[k] = "waiting", request'[k] = request[k],
               answers'[k] = 0 => answers[k] = 0,
               stage'[k] \in {stage[k], "running", "handled", "undefined"}
        PROVE  /\ IsCall(k)'
               /\ answers'[k] = 0 =>
                    \/ stage'[k] \in {"inbox", "running", "undefined"}
                    \/ ~request'[k].addressed
    BY <2>1, <2>2 DEF AwaitInv, IsCall
  <2>3. CASE Object \/ Loop \/ UNCHANGED vars
    <3>1. UNCHANGED <<client, request, answers, stage>>
      BY <2>3, ObjectLeaves
    <3> QED BY <3>1, <2>2
  <2>4. ASSUME NEW c \in Calls, NEW r \in Requests, Send(c, r)
        PROVE  /\ IsCall(k)'
               /\ answers'[k] = 0 =>
                    \/ stage'[k] \in {"inbox", "running", "undefined"}
                    \/ ~request'[k].addressed
    <3>1. CASE c = k
      <4>1. r.type = "method" /\ request'[k] = r
        BY <2>4, <3>1 DEF Send, IInv, Types
      <4>2. CASE r.addressed /\ name # "owner"
        <5>1. Answer(k, Error)
          BY <2>4, <3>1, <4>1, <4>2 DEF Send
        <5>2. answers'[k] = answers[k] + 1
          BY <5>1 DEF Answer, IInv, Types
        <5> QED BY <4>1, <5>2, <2>1 DEF IsCall
      <4>3. CASE r.addressed /\ name = "owner"
        <5>1. stage'[k] = "inbox"
          BY <2>4, <3>1, <4>3 DEF Send, IInv, Types
        <5> QED BY <4>1, <5>1 DEF IsCall
      <4>4. CASE ~r.addressed
        BY <4>1, <4>4 DEF IsCall
      <4> QED BY <4>2, <4>3, <4>4
    <3>2. CASE c # k
      <4>1. UNCHANGED <<client[k], request[k], stage[k], answers[k]>>
        BY <2>4, <3>2 DEF Send, Answer, IInv, Types
      <4> QED BY <4>1, <2>2
    <3> QED BY <3>1, <3>2
  <2>5. ASSUME NEW c \in Calls, Refuse(c) \/ Receive(c) \/ Emitted(c) \/ Timeout(c)
        PROVE  client[k] = "waiting" /\ UNCHANGED <<request, stage, answers>>
    BY <2>5 DEF Refuse, Receive, Emitted, Awaited, Timeout, IInv, Types
  <2>6. ASSUME NEW c \in Calls, Filter(c) \/ Handler(c)
        PROVE  /\ client' = client /\ request' = request
               /\ \E to \in {"handled", "running", "undefined"} :
                    stage' = [stage EXCEPT ![c] = to]
               /\ \/ answers' = answers
                  \/ answers' = [answers EXCEPT ![c] = @ + 1]
    BY <2>6 DEF Filter, DispatchDead, Introspect, Properties, NotHandled, NoMember,
                ImportFails, Run, Serves, Dispatches, Handled, Handler, HandlerReturns,
                HandlerFails, HandlerEnds, Answer
  <2>7. ASSUME NEW c \in Calls, Filter(c) \/ Handler(c)
        PROVE  /\ client[k] = "waiting" /\ request'[k] = request[k]
               /\ answers'[k] = 0 => answers[k] = 0
               /\ stage'[k] \in {stage[k], "running", "handled", "undefined"}
    <3>1. stage \in [Calls -> {"none", "lost", "inbox", "running", "handled", "undefined"}]
      BY DEF IInv, Types
    <3>2. answers \in [Calls -> Nat]
      BY DEF IInv, Types
    <3>3. answers'[k] = answers[k] \/ answers'[k] = answers[k] + 1
      BY <2>6, <2>7, <3>2
    <3>4. stage'[k] \in {stage[k], "running", "handled", "undefined"}
      BY <2>6, <2>7, <3>1
    <3> QED BY <2>6, <2>7, <3>2, <3>3, <3>4
  <2> QED BY <2>2, <2>3, <2>4, <2>5, <2>7 DEF Next, Caller
<1> QED BY <1>1, <1>2, Invariance, PTL DEF Spec

(* No caller waits for what nobody does, nor in a circle, with any calls.  *)
THEOREM NobodyStuck == Spec => []StepsReady
<1>1. IInv /\ WaitInv /\ AwaitInv => StepsReady
  BY DEF IInv, CallInv, StageInv, WaitInv, AwaitInv, StepsReady
<1> QED BY <1>1, Invariance, WaitInvariance, AwaitInvariance, PTL

-----------------------------------------------------------------------------
(* Liveness *)

(* A caller that does not wait any more leaves its thread to the loop, as  *)
(* no other began meanwhile.                                               *)
LEMMA WaitOver ==
  ASSUME IInv, WaitInv, [Next]_vars, NEW c \in OnLoop,
         client[c] = "waiting", client'[c] # "waiting"
  PROVE  ~LoopWaits'
<1>1. PICK k \in Calls :
        /\ client[k] = "waiting"
        /\ \E to \in {"ok", "failed", "emitted", "late"} : client' = [client EXCEPT ![k] = to]
  BY ThreadStep, CallsAssumption DEF Begins, IInv, Types
<1>2. k = c
  BY <1>1, CallsAssumption DEF IInv, Types
<1> QED BY <1>1, <1>2, CallsAssumption DEF WaitInv, LoopWaits, IInv, Types

(* The handler runs until it ends, which it does with nobody waiting; none *)
(* begins while somebody does.                                             *)
LEMMA RunningStep ==
  ASSUME IInv, [Next]_vars
  PROVE  /\ \A k \in Calls : running = k => running' = k \/ LoopFree'
         /\ running = Null /\ ~LoopFree => running' = Null
         /\ LoopFree <=> running = Null /\ ~LoopWaits
         /\ LoopFree' <=> running' = Null /\ ~LoopWaits'
<1>1. /\ LoopFree <=> running = Null /\ ~LoopWaits
      /\ LoopFree' <=> running' = Null /\ ~LoopWaits'
  BY DEF LoopFree, LoopWaits
<1>2. \A k \in Calls : HandlerRuns(k) => running = k /\ ~LoopWaits
  BY DEF HandlerRuns, LoopWaits
<1>3. client' = client => (LoopWaits' <=> LoopWaits)
  BY DEF LoopWaits
<1> QED BY <1>1, <1>2, <1>3, ThreadStep, CallsAssumption DEF LoopFree

(* The steps that the fairness is about.                                   *)
LEMMA TimeoutEnds ==
  ASSUME IInv, WaitInv, [Next]_vars, <<LoopTimeout>>_vars
  PROVE  ~LoopWaits'
<1>1. PICK c \in OnLoop : Timeout(c)
  BY DEF LoopTimeout
<1>2. client[c] = "waiting" /\ client'[c] # "waiting"
  BY <1>1, CallsAssumption DEF Timeout, IInv, Types
<1> QED BY <1>2, WaitOver

LEMMA HandlerIsOver ==
  ASSUME <<RunningHandler>>_vars
  PROVE  LoopFree'
<1>1. PICK k \in Calls : Handler(k)
  BY DEF RunningHandler
<1>2. running' = Null /\ client' = client /\ HandlerRuns(k)
  BY <1>1 DEF Handler, HandlerReturns, HandlerFails, HandlerEnds
<1> QED BY <1>2 DEF HandlerRuns, LoopFree

Fair == Spec /\ Returns /\ TimesOut /\ []StepsEnabled

(* The main loop's thread is again and again in no call, ...               *)
LEMMA WaitsEnd == Fair => []<>~LoopWaits
<1> HIDE DEF LoopWaits
<1>1. StepsEnabled => (LoopWaits => ENABLED <<LoopTimeout>>_vars)
  BY DEF StepsEnabled
<1>2. IInv /\ WaitInv /\ [Next]_vars /\ <<LoopTimeout>>_vars => ~LoopWaits'
  BY TimeoutEnds
<1> QED BY <1>1, <1>2, Invariance, WaitInvariance, PTL DEF Fair, Spec, TimesOut

(* ... and in no handler either.                                           *)
LEMMA LoopComes == Fair => []<>LoopFree
<1> HIDE DEF LoopWaits
<1>1. StepsEnabled => (running # Null /\ ~LoopWaits => ENABLED <<RunningHandler>>_vars)
  BY DEF StepsEnabled
<1>2. IInv => running = Null \/ \E k \in Calls : running = k
  BY DEF IInv, Types
<1>3. IInv /\ [Next]_vars /\ running # Null => (running # Null)' \/ LoopFree'
  BY <1>2, RunningStep, CallsAssumption
<1>4. IInv /\ [Next]_vars /\ running = Null /\ ~LoopFree => (running = Null)'
  BY RunningStep
<1>5. LoopFree <=> running = Null /\ ~LoopWaits
  BY DEF LoopFree
<1>6. <<RunningHandler>>_vars => LoopFree'
  BY HandlerIsOver
<1>7. running = Null \/ running # Null
  OBVIOUS
<1> QED BY <1>1, <1>3, <1>4, <1>5, <1>6, <1>7, Invariance, WaitsEnd, PTL DEF Fair, Spec, Returns

(* The loop over the inbox is left where it could go on only, ...          *)
LEMMA LoopStep ==
  ASSUME [Next]_vars
  PROVE  dispatching /\ ~LoopFree => dispatching'
<1>1. CASE Object \/ UNCHANGED vars
  BY <1>1 DEF Object, vars, Unserved, Construct, ConstructFails, Start, Inherit, Stop, Destroy
<1>2. CASE Loop
  BY <1>2 DEF Loop, Activity, DispatchEnds, Stray
<1>3. ASSUME NEW k \in Calls, Caller(k) PROVE dispatching' = dispatching
  BY <1>3 DEF Caller, Send, Refuse, Receive, Emitted, Awaited, Timeout
<1>4. ASSUME NEW k \in Calls, Filter(k) PROVE dispatching' = dispatching
  BY <1>4 DEF Filter, DispatchDead, Introspect, Properties, NotHandled, NoMember,
              ImportFails, Run, Serves
<1>5. ASSUME NEW k \in Calls, Handler(k) PROVE dispatching' = dispatching
  BY <1>5 DEF Handler, HandlerReturns, HandlerFails, HandlerEnds
<1> QED BY <1>1, <1>2, <1>3, <1>4, <1>5 DEF Next

(* ... and comes to where it can dispatch the next message.                *)
LEMMA DispatchGoesOn == Fair => [](<>dispatching => <>(dispatching /\ LoopFree))
<1>1. [Next]_vars => (dispatching /\ ~LoopFree => dispatching')
  BY LoopStep
<1> QED BY <1>1, LoopComes, PTL DEF Fair, Spec

(* Where the message of a call can go from the filter, and from its handler. *)
Asked(k) == stage[k] = "inbox" /\ IsCall(k)

InHand(k) == running = k /\ IsCall(k)

Settled(k) == answers[k] > 0 \/ dead

(* Where a message goes in a step.                                         *)
LEMMA MessageStep ==
  ASSUME IInv, [Next]_vars, NEW k \in Calls
  PROVE  \/ stage[k] = "none"
         \/ stage'[k] = stage[k] /\ request'[k] = request[k]
         \/ /\ stage[k] = "inbox" /\ request'[k] = request[k]
            /\ stage'[k] \in {"running", "handled"} \/ dead'
         \/ stage[k] = "running" /\ stage'[k] = "handled" /\ request'[k] = request[k]
<1>1. CASE Object \/ Loop \/ UNCHANGED vars
  BY <1>1, ObjectLeaves
<1>2. ASSUME NEW c \in Calls, Caller(c)
      PROVE  stage[k] = "none" \/ (stage'[k] = stage[k] /\ request'[k] = request[k])
  <2>1. ASSUME NEW r \in Requests, Send(c, r)
        PROVE  stage[k] = "none" \/ (stage'[k] = stage[k] /\ request'[k] = request[k])
    BY <2>1 DEF Send, Begins, IInv, Types, CallInv, StageInv
  <2>2. CASE Refuse(c) \/ Receive(c) \/ Emitted(c) \/ Timeout(c)
    BY <2>2 DEF Refuse, Receive, Emitted, Awaited, Timeout
  <2> QED BY <1>2, <2>1, <2>2 DEF Caller
<1>3. ASSUME NEW c \in Calls, Filter(c)
      PROVE  /\ request' = request /\ stage[c] = "inbox"
             /\ \E to \in {"handled", "running", "undefined"} :
                  /\ stage' = [stage EXCEPT ![c] = to]
                  /\ to = "undefined" => dead'
  BY <1>3 DEF Filter, DispatchDead, Introspect, Properties, NotHandled, NoMember,
              ImportFails, Run, Serves, Dispatches, Handled
<1>4. ASSUME NEW c \in Calls, Handler(c)
      PROVE  request' = request /\ running = c /\ stage' = [stage EXCEPT ![c] = "handled"]
  BY <1>4 DEF Handler, HandlerReturns, HandlerFails, HandlerEnds, HandlerRuns, Handled
<1>5. \A c \in Calls : stage[c] = "running" <=> running = c
  BY DEF IInv, CallInv, StageInv
<1> QED BY <1>1, <1>2, <1>3, <1>4, <1>5 DEF Next, IInv, Types

LEMMA AskedStep ==
  ASSUME IInv, IInv', [Next]_vars, NEW k \in Calls
  PROVE  /\ Asked(k) => Asked(k)' \/ InHand(k)' \/ Settled(k)'
         /\ InHand(k) => InHand(k)' \/ Settled(k)'
         /\ Asked(k) /\ <<Filter(k)>>_vars => ~Asked(k)'
         /\ InHand(k) /\ <<RunningHandler>>_vars => Settled(k)'
<1>1. /\ stage[k] = "running" <=> running = k
      /\ (stage[k] = "running")' <=> (running = k)'
      /\ stage'[k] = "handled" /\ IsCall(k)' => answers'[k] = 1
  BY DEF IInv, CallInv, StageInv
<1>2. request'[k] = request[k] => (IsCall(k)' <=> IsCall(k))
  BY DEF IsCall
<1>3. /\ Asked(k) => Asked(k)' \/ InHand(k)' \/ Settled(k)'
      /\ InHand(k) => InHand(k)' \/ Settled(k)'
  BY <1>1, <1>2, MessageStep DEF Asked, InHand, Settled
<1>4. Asked(k) /\ Filter(k) => ~Asked(k)'
  BY DEF Asked, Filter, DispatchDead, Introspect, Properties, NotHandled, NoMember,
         ImportFails, Run, Serves, Dispatches, Handled, IInv, Types
<1>5. ASSUME InHand(k), <<RunningHandler>>_vars PROVE Settled(k)'
  <2>1. running' = Null
    BY <1>5, HandlerIsOver DEF LoopFree
  <2> QED BY <2>1, <1>3, <1>5, CallsAssumption DEF InHand
<1> QED BY <1>3, <1>4, <1>5

(* A call that has reached the service is answered if the loop dispatches  *)
(* again and again, unless the service was destroyed: under the fairness   *)
(* of FairSpec, and if each of the steps that this is about is possible    *)
(* where StepsEnabled says so (which TLC checks with RequestAnswered).     *)
THEOREM CallsAnswered == FairSpec /\ []StepsEnabled => RequestAnswered
<1> HIDE DEF LoopWaits
<1>1. FairSpec /\ []StepsEnabled => Fair
  BY DEF FairSpec, Fair
<1>2. ASSUME NEW k \in Calls PROVE FairSpec /\ []StepsEnabled => Answered(k)
  <2>1. FairSpec => Comes(k)
    BY DEF FairSpec
  <2>2. StepsEnabled =>
          (Asked(k) /\ dispatching /\ LoopFree /\ ~Settled(k) => ENABLED <<Filter(k)>>_vars)
    BY DEF StepsEnabled, Asked, Settled
  <2>3. StepsEnabled => (InHand(k) /\ ~LoopWaits => ENABLED <<RunningHandler>>_vars)
    BY CallsAssumption DEF StepsEnabled, InHand
  <2>4. /\ IInv /\ IInv' /\ [Next]_vars /\ Asked(k) => Asked(k)' \/ InHand(k)' \/ Settled(k)'
        /\ IInv /\ IInv' /\ [Next]_vars /\ InHand(k) => InHand(k)' \/ Settled(k)'
        /\ IInv /\ IInv' /\ [Next]_vars /\ Asked(k) /\ <<Filter(k)>>_vars => ~Asked(k)'
        /\ IInv /\ IInv' /\ [Next]_vars /\ InHand(k) /\ <<RunningHandler>>_vars => Settled(k)'
    BY AskedStep
  <2>5. Fair => [](InHand(k) => <>Settled(k))
    BY <2>3, <2>4, Invariance, WaitsEnd, PTL DEF Fair, Spec, Returns
  <2>6. Fair /\ Comes(k) => [](Asked(k) => <>(Settled(k) \/ []~dispatching))
    BY <2>2, <2>4, <2>5, Invariance, DispatchGoesOn, PTL DEF Fair, Spec, Comes
  <2>7. Answered(k) <=> [](Asked(k) => <>(Settled(k) \/ []~dispatching))
    BY PTL DEF Answered, Asked, Settled
  <2> QED BY <1>1, <2>1, <2>6, <2>7
<1> QED BY <1>2 DEF RequestAnswered
=============================================================================
