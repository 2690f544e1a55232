------------------------------- MODULE Service -------------------------------
(***************************************************************************)
(* Method calls, from the caller over the bus to DBus::Service and back.   *)
(*                                                                         *)
(* The callers are DBus::Action (made in code, or from XML), a DBus::Message*)
(* given to Connection::call_and_wait, and other programs.  All of them    *)
(* block until the answer or the timeout.  A caller in OnLoop blocks the   *)
(* very thread whose main loop dispatches to the service: from a timer, or *)
(* from a handler of the service.                                          *)
(*                                                                         *)
(* The service exports one interface with one method, which has an input   *)
(* and an output, or none.  The library's dispatch is modelled branch by   *)
(* branch; the bus daemon by what it does with a message for a name.       *)
(***************************************************************************)
EXTENDS Values, Sequences

CONSTANTS
    Calls,
    OnLoop,   \* the callers on the main loop's thread
    Pushed,   \* arguments that Message::push_back makes
    Foreign,  \* arguments that only other programs send
    Samples,  \* the numbers that a handler puts out
    Inputs,   \* declared types of the input, "none" for a method without one
    Outputs,  \* declared types of the output
    Null

ASSUME CallsAssumption == OnLoop \subseteq Calls /\ Null \notin Calls

ASSUME SamplesAssumption == Samples \subseteq Int

ASSUME TypesAssumption ==
    /\ Inputs \subseteq {"none", "String", "Signed", "Unsigned", "Boolean"}
    /\ Outputs \subseteq {"none", "String", "Signed", "Unsigned", "Boolean", "Real"}

VARIABLES
    life,      \* the Service object
    name,      \* "none", "queued", "owner" of the well-known name
    dead,      \* on_message has run for an object that is not there
    dispatching, \* handle_event is in its loop over the inbox
    input,     \* declared types of the method
    output,
    request,   \* request[k]: the message
    client,    \* client[k]: the caller
    stage,     \* stage[k]: where the message is
    answer,    \* answer[k]: the first answer to it
    answers,   \* answers[k]: how many there were
    running,   \* the call whose handler runs, or Null
    seen,      \* seen[k]: the input the handler got
    done,      \* done[k]: the service did what was asked
    result,    \* result[k]: what the handler put out
    response   \* response[k]: what the caller got out of the answer

lifeVars   == <<life, name, dead, dispatching, input, output>>
callerVars == <<request, client, response>>
answerVars == <<answer, answers>>
serveVars  == <<running, seen, done, result>>
vars == <<lifeVars, callerVars, stage, answerVars, serveVars>>

NoArg == [type |-> "none", data |-> Null]

NoRequest == [type |-> "none", to |-> "none", arg |-> NoArg, addressed |-> FALSE]

Init ==
    /\ life = "none" /\ name = "none" /\ dead = FALSE /\ dispatching = FALSE
    /\ input \in Inputs /\ output \in Outputs
    /\ request  = [k \in Calls |-> NoRequest]
    /\ client   = [k \in Calls |-> "idle"]
    /\ response = [k \in Calls |-> <<>>]
    /\ stage    = [k \in Calls |-> "none"]
    /\ answer   = [k \in Calls |-> [kind |-> "none", args |-> <<>>]]
    /\ answers  = [k \in Calls |-> 0]
    /\ running = Null
    /\ seen   = [k \in Calls |-> Null]
    /\ done   = [k \in Calls |-> FALSE]
    /\ result = [k \in Calls |-> <<>>]

-----------------------------------------------------------------------------
(* The object *)

Unserved ==
    UNCHANGED <<dispatching, input, output, callerVars, stage, answerVars, serveVars>>

(* The main loop's thread is in a call. *)
LoopWaits == \E c \in OnLoop : client[c] = "waiting"

(* It is in none, nor in the service. *)
LoopFree == running = Null /\ ~LoopWaits

(* The filter is added, the connection registered. *)
Construct ==
    /\ life = "none"
    /\ life' = "built"
    /\ UNCHANGED <<name, dead>> /\ Unserved

(* add_filter or the registration fails.  In the second case the filter    *)
(* is left on the connection.                                              *)
ConstructFails ==
    /\ life = "none"
    /\ life' \in {"thrown", "left"}
    /\ UNCHANGED <<name, dead>> /\ Unserved

(* That the name is another program's, and this one the next, is no error. *)
Start ==
    /\ life = "built"
    /\ life' = "started"
    /\ name' \in {"queued", "owner"}
    /\ UNCHANGED dead /\ Unserved

Inherit ==
    /\ name = "queued"
    /\ name' = "owner"
    /\ UNCHANGED <<life, dead>> /\ Unserved

Stop ==
    /\ life = "started" /\ LoopFree
    /\ life' = "built"
    /\ name' = "none"
    /\ UNCHANGED dead /\ Unserved

(* ~Service drops its reference of the connection: the filter stays, and   *)
(* the name if the service was not stopped.                                *)
Destroy ==
    /\ life \in {"built", "started"} /\ LoopFree
    /\ life' = "gone"
    /\ UNCHANGED <<name, dead>> /\ Unserved

-----------------------------------------------------------------------------
(* The caller *)

Targets == {"member", "no_member", "no_interface", "Introspect", "Properties"}

Request(type, to, arg, addressed) ==
    [type |-> type, to |-> to, arg |-> arg, addressed |-> addressed]

(* A Message of the library's: a destination and arguments. *)
MessageRequests == {Request("method", "member", arg, TRUE) : arg \in Pushed}

(* An Action from XML: arguments and no destination, whatever its XML says. *)
XmlRequests == {Request(type, "member", NoArg, FALSE) : type \in {"method", "signal"}}

(* An Action made in code: a destination and no arguments. *)
ActionRequests == {Request(type, to, NoArg, TRUE) : type \in {"method", "signal"}, to \in Targets}

PeerRequests == {Request(type, "member", arg, TRUE) : type \in {"method", "signal"}, arg \in Foreign}

Requests == MessageRequests \union XmlRequests \union ActionRequests \union PeerRequests

IsCall(k) == request[k].type = "method"

Return(args) == [kind |-> "return", args |-> args]

Error == [kind |-> "error", args |-> <<>>]

(* An answer; only the first is anybody's. *)
Answer(k, a) ==
    /\ answers' = [answers EXCEPT ![k] = @ + 1]
    /\ answer'  = [answer EXCEPT ![k] = IF answers[k] = 0 THEN a ELSE @]

Begins(k) == client[k] = "idle" /\ (k \in OnLoop => ~LoopWaits)

(* Action::call, Connection::call and call_and_wait: the message is sent,  *)
(* and the caller waits unless it is a signal.  Without a destination it   *)
(* reaches no service; while the name is nobody's the daemon answers, and  *)
(* while it is another program's, that one does, which cannot serve it.    *)
Send(k, r) ==
    /\ Begins(k)
    /\ request' = [request EXCEPT ![k] = r]
    /\ client' = [client EXCEPT ![k] = IF r.type = "method" THEN "waiting" ELSE "posted"]
    /\ stage' = [stage EXCEPT ![k] = IF r.addressed /\ name = "owner" THEN "inbox" ELSE "lost"]
    /\ IF r.addressed /\ name # "owner" /\ r.type = "method"
         THEN Answer(k, Error)
         ELSE UNCHANGED answerVars
    /\ UNCHANGED <<lifeVars, response, serveVars>>

(* An argument of an unsupported type, an empty name: nothing is sent. *)
Refuse(k) ==
    /\ Begins(k)
    /\ client' = [client EXCEPT ![k] = "refused"]
    /\ UNCHANGED <<lifeVars, request, response, stage, answerVars, serveVars>>

Readable(args) == \A i \in 1 .. Len(args) : Plain(args[i]).type \in ValueTypes

Contents(args) == [i \in 1 .. Len(args) |-> args[i].data]

Awaited(k) ==
    /\ client[k] = "waiting"
    /\ answers[k] > 0
    /\ UNCHANGED <<lifeVars, request, stage, answerVars, serveVars>>

(* Action::call(request, response): an error is one, and so is a value     *)
(* that for_each does not know.                                            *)
Receive(k) ==
    /\ Awaited(k)
    /\ IF answer[k].kind = "return" /\ Readable(answer[k].args)
         THEN /\ client' = [client EXCEPT ![k] = "ok"]
              /\ response' = [response EXCEPT ![k] = Contents(answer[k].args)]
         ELSE /\ client' = [client EXCEPT ![k] = "failed"]
              /\ UNCHANGED response

(* Action::call(except) and an alert's emit: only an error is looked at.   *)
Emitted(k) ==
    /\ Awaited(k)
    /\ client' = [client EXCEPT ![k] = IF answer[k].kind = "error" THEN "failed" ELSE "emitted"]
    /\ UNCHANGED response

(* No answer in time: whatever comes later is dropped. *)
Timeout(k) ==
    /\ client[k] = "waiting"
    /\ client' = [client EXCEPT ![k] = "late"]
    /\ UNCHANGED <<lifeVars, request, response, stage, answerVars, serveVars>>

-----------------------------------------------------------------------------
(* Service::on_message *)

(* handle_event, with whatever has happened at the socket, comes to its    *)
(* loop over the inbox.  What a blocking call has read stays there until   *)
(* then.                                                                   *)
Activity ==
    /\ LoopFree /\ ~dispatching
    /\ dispatching' = TRUE
    /\ UNCHANGED <<life, name, dead, input, output, callerVars, stage, answerVars, serveVars>>

(* It leaves the loop when the inbox is empty, or without memory before.   *)
DispatchEnds ==
    /\ LoopFree /\ dispatching
    /\ dispatching' = FALSE
    /\ UNCHANGED <<life, name, dead, input, output, callerVars, stage, answerVars, serveVars>>

(* Mutant: the main loop dispatches while a call of its thread waits. *)
DispatchesAnytime(k) == stage[k] = "inbox" /\ running = Null /\ ~dead /\ life # "gone"

(* The main loop has dispatched the message to the filter. *)
Dispatches(k) == stage[k] = "inbox" /\ LoopFree /\ dispatching /\ ~dead /\ life # "gone"

Handled(k) == stage' = [stage EXCEPT ![k] = "handled"]

(* To the filter of an object that is gone; what that does is undefined. *)
DispatchDead(k) ==
    /\ stage[k] = "inbox" /\ LoopFree /\ dispatching /\ ~dead
    /\ life = "gone"
    /\ dead' = TRUE
    /\ stage' = [stage EXCEPT ![k] = "undefined"]
    /\ UNCHANGED <<life, name, dispatching, input, output, callerVars, answerVars, serveVars>>

(* So does any other message of the connection, which may be shared: the   *)
(* filter reads its object's name before it knows whom the message is for. *)
Stray ==
    /\ life \in {"gone", "left"}
    /\ LoopFree /\ dispatching /\ ~dead
    /\ dead' = TRUE
    /\ UNCHANGED <<life, name, dispatching, input, output, callerVars, stage, answerVars,
                   serveVars>>

Serves(k) ==
    /\ Dispatches(k)
    /\ Handled(k)
    /\ UNCHANGED <<lifeVars, callerVars, running, seen, result>>

(* org.freedesktop.DBus.Introspectable *)
Introspect(k) ==
    /\ IsCall(k) /\ request[k].to = "Introspect"
    /\ Serves(k)
    /\ Answer(k, Return(<<Value("string", NoNumber)>>))
    /\ done' = [done EXCEPT ![k] = TRUE]

(* org.freedesktop.DBus.Properties: there are none.  With arguments it     *)
(* cannot read, or another interface, it throws, and libdbus answers.      *)
Properties(k) ==
    /\ IsCall(k) /\ request[k].to = "Properties"
    /\ Serves(k)
    /\ Answer(k, Error)
    /\ UNCHANGED done

(* Mutant: the exception is answered here, and by libdbus. *)
NotHandledTwice(k) ==
    /\ request[k].to = "no_interface" \/ (~IsCall(k) /\ request[k].to \notin {"member", "no_member"})
    /\ Serves(k)
    /\ answers' = [answers EXCEPT ![k] = @ + 2]
    /\ answer' = [answer EXCEPT ![k] = Error]
    /\ UNCHANGED done

(* The interface is not found: the exception is logged, the message not    *)
(* handled, and libdbus answers a call.                                    *)
NotHandled(k) ==
    /\ request[k].to = "no_interface"
         \/ (~IsCall(k) /\ request[k].to \notin {"member", "no_member"})
    /\ Serves(k)
    /\ IF IsCall(k) THEN Answer(k, Error) ELSE UNCHANGED answerVars
    /\ UNCHANGED done

(* Interface::on_message does not find the member.  A signal is answered   *)
(* as a call is, here and below.                                           *)
NoMember(k) ==
    /\ request[k].to = "no_member"
    /\ Serves(k)
    /\ Answer(k, Error)
    /\ UNCHANGED done

(* import_value *)
Imports(v) ==
    v.type \in {"string", "boolean", "int16", "int32", "int64", "uint16", "uint32"}

Imported(v) == IF v.type = "int64" THEN Signed(Word, v.data) ELSE v.data

ImportFails(k) ==
    /\ request[k].to = "member"
    /\ input # "none" /\ ~Imports(request[k].arg)
    /\ Serves(k)
    /\ Answer(k, Error)
    /\ UNCHANGED done

Run(k) ==
    /\ request[k].to = "member"
    /\ input = "none" \/ Imports(request[k].arg)
    /\ Dispatches(k)
    /\ running' = k
    /\ stage' = [stage EXCEPT ![k] = "running"]
    /\ seen' = [seen EXCEPT ![k] = IF input = "none" THEN Null ELSE Imported(request[k].arg)]
    /\ UNCHANGED <<lifeVars, callerVars, answerVars, done, result>>

(* Its thread is not in a call of its own. *)
HandlerRuns(k) == running = k /\ ~LoopWaits

(* What a handler may put out. *)
OutputData ==
    CASE output = "none" -> {}
      [] output = "Signed" -> Samples \cap SignedRange(Word)
      [] output = "Unsigned" -> Samples \cap UnsignedRange(Word)
      [] output = "Boolean" -> {0, 1}
      [] output \in {"String", "Real"} -> Samples

Results == IF output = "none" THEN {<<>>} ELSE {<<d>> : d \in OutputData}

(* Mutants: unsigned numbers are exported as signed ones, or as 64 bit     *)
(* numbers.                                                                *)
ExportedSigned(d) ==
    CASE output = "String"   -> Value("string", d)
      [] output = "Signed"   -> Value("int32", d)
      [] output = "Unsigned" -> Value("int32", d)
      [] output = "Boolean"  -> Value("boolean", d)

ExportedWide(d) ==
    CASE output = "String"   -> Value("string", d)
      [] output = "Signed"   -> Value("int32", d)
      [] output = "Unsigned" -> Value("uint64", d)
      [] output = "Boolean"  -> Value("boolean", d)

(* export_value *)
Exported(d) ==
    CASE output = "String"   -> Value("string", d)
      [] output = "Signed"   -> Value("int32", d)
      [] output = "Unsigned" -> Value("uint32", d)
      [] output = "Boolean"  -> Value("boolean", d)

Exports(res) == [i \in 1 .. Len(res) |-> Exported(res[i])]

HandlerEnds(k) ==
    /\ HandlerRuns(k)
    /\ running' = Null
    /\ Handled(k)
    /\ UNCHANGED <<lifeVars, callerVars, seen>>

(* Mutant: an output that cannot be exported leaves the call unanswered. *)
HandlerReturnsSilent(k) ==
    /\ HandlerEnds(k)
    /\ done' = [done EXCEPT ![k] = TRUE]
    /\ \E res \in Results :
        /\ result' = [result EXCEPT ![k] = res]
        /\ IF output = "Real"
             THEN UNCHANGED answerVars
             ELSE Answer(k, Return(Exports(res)))

(* The handler returns 0: its output is exported, if its type can be.      *)
HandlerReturns(k) ==
    /\ HandlerEnds(k)
    /\ done' = [done EXCEPT ![k] = TRUE]
    /\ \E res \in Results :
        /\ result' = [result EXCEPT ![k] = res]
        /\ IF output = "Real"
             THEN Answer(k, Error)
             ELSE Answer(k, Return(Exports(res)))

(* It returns something else, or throws.  Mutant: it is answered as if it  *)
(* had returned.                                                           *)
HandlerFailsQuietly(k) ==
    /\ HandlerEnds(k)
    /\ Answer(k, Return(<<>>))
    /\ UNCHANGED <<done, result>>

HandlerFails(k) ==
    /\ HandlerEnds(k)
    /\ Answer(k, Error)
    /\ UNCHANGED <<done, result>>

-----------------------------------------------------------------------------

Filter(k) ==
    \/ DispatchDead(k)
    \/ Introspect(k) \/ Properties(k)
    \/ NotHandled(k) \/ NoMember(k)
    \/ ImportFails(k) \/ Run(k)

Handler(k) == HandlerReturns(k) \/ HandlerFails(k)

Caller(k) ==
    \/ \E r \in Requests : Send(k, r)
    \/ Refuse(k)
    \/ Receive(k) \/ Emitted(k) \/ Timeout(k)

Object == Construct \/ ConstructFails \/ Start \/ Inherit \/ Stop \/ Destroy

Loop == Activity \/ DispatchEnds \/ Stray

Next == Object \/ Loop \/ \E k \in Calls : Caller(k) \/ Filter(k) \/ Handler(k)

Spec == Init /\ [][Next]_vars

RunningHandler == \E k \in Calls : Handler(k)

LoopTimeout == \E c \in OnLoop : Timeout(c)

(* The handler that runs returns, and the call that its thread is in times *)
(* out if it is not answered.  The inbox is in order: a message in it is   *)
(* dispatched when the loop over it is run again and again, and memory     *)
(* does not fail each time.  That it is run is not assumed.                *)
Comes(k) == SF_vars(Filter(k))

Returns == SF_vars(RunningHandler)

TimesOut == WF_vars(LoopTimeout)

FairSpec ==
    /\ Spec
    /\ \A k \in Calls : Comes(k)
    /\ Returns /\ TimesOut

-----------------------------------------------------------------------------
(* Properties *)

WireValues ==
    {v \in [type : NumberTypes \union {"boolean"}, data : Int] : v.data \in TypeRange(v.type)}
      \union [type : {"string"}, data : Int \union {NoNumber}]

TypeOK ==
    /\ life \in {"none", "built", "started", "gone", "thrown", "left"}
    /\ name \in {"none", "queued", "owner"}
    /\ dead \in BOOLEAN /\ dispatching \in BOOLEAN
    /\ input \in Inputs /\ output \in Outputs
    /\ request \in [Calls -> Requests \union {NoRequest}]
    /\ client \in [Calls -> {"idle", "waiting", "posted", "refused", "ok", "emitted",
                            "failed", "late"}]
    /\ stage \in [Calls -> {"none", "lost", "inbox", "running", "handled", "undefined"}]
    /\ DOMAIN answer = Calls /\ answers \in [Calls -> Nat]
    /\ \A k \in Calls :
        /\ answer[k].kind \in {"none", "return", "error"}
        /\ \A i \in 1 .. Len(answer[k].args) : answer[k].args[i] \in WireValues
    /\ running \in Calls \union {Null}
    /\ done \in [Calls -> BOOLEAN]

(* Whatever a message asks for, and however the handler ends, nothing is   *)
(* answered twice, and a method call that on_message is through with was   *)
(* answered: by the result, an error, or libdbus.                          *)
AnsweredOnce ==
    \A k \in Calls :
        /\ answers[k] <= 1
        /\ stage[k] = "handled" /\ IsCall(k) => answers[k] = 1

(* A caller that succeeds gets what the handler of its call put out, and   *)
(* all of it: export_value makes only what for_each on the other side can  *)
(* read, so a caller fails on an error only.  The handler got the argument *)
(* of the call, if an int can have it.                                     *)
ResultWhole ==
    \A k \in Calls :
        /\ client[k] = "ok" /\ request[k].to = "member" =>
            done[k] /\ response[k] = result[k]
        /\ client[k] = "failed" => answer[k].kind = "error"
        /\ seen[k] # Null /\ (request[k].arg.type = "int64" =>
                               request[k].arg.data \in SignedRange(Word)) =>
            seen[k] = request[k].arg.data

(* A call that the main loop's own thread makes to a service of its own    *)
(* process (an action in a handler, an alert of a timer) never succeeds:   *)
(* its thread waits, and cannot serve it.                                  *)
OwnCallFails ==
    \A k \in OnLoop : IsCall(k) => client[k] \notin {"ok", "emitted"}

(* No caller waits for what nobody does, and nobody waits in a circle: a   *)
(* call without an answer is in the inbox or in the hands of the handler   *)
(* that runs (unless it has gone to no service, or to one that is gone),   *)
(* and the main loop's thread, which may have to come out of a call before *)
(* it serves, is in one call only.                                         *)
StepsReady ==
    /\ \A k \in Calls : stage[k] = "running" <=> running = k
    /\ \A k \in Calls : client[k] = "waiting" /\ answers[k] = 0 =>
        stage[k] \in {"inbox", "running", "undefined"} \/ ~request[k].addressed
    /\ \A c, d \in OnLoop :
        client[c] = "waiting" /\ client[d] = "waiting" => c = d

(* on_message has a branch for every message, whatever it asks for, and    *)
(* waits for nothing but the loop over the inbox and its thread, which is  *)
(* the handler's and that of the callers in OnLoop; so does a handler.     *)
(* The call that this thread is in can always time out.                    *)
StepsEnabled ==
    /\ \A k \in Calls :
        ENABLED <<Filter(k)>>_vars <=>
            stage[k] = "inbox" /\ LoopFree /\ dispatching /\ ~dead
    /\ ENABLED <<RunningHandler>>_vars <=> running # Null /\ ~LoopWaits
    /\ ENABLED <<LoopTimeout>>_vars <=> LoopWaits

(* A call that has reached the service is answered if the main loop        *)
(* dispatches again and again: a call that a blocking call of the loop's   *)
(* thread has read waits for the next activity of the socket, and nothing  *)
(* else wakes the loop.  It is not answered either when the service was    *)
(* destroyed before and on_message used what was not there any more.       *)
Answered(k) ==
    stage[k] = "inbox" /\ IsCall(k) ~> answers[k] > 0 \/ dead \/ []~dispatching

RequestAnswered == []StepsEnabled /\ \A k \in Calls : Answered(k)

(* What the caller has seen of its call; not in time is failed for it. *)
CallState ==
    [k \in Calls |-> CASE client[k] = "late" -> "failed"
                       [] client[k] = "emitted" -> "ok"
                       [] OTHER -> client[k]]

Rpc == INSTANCE RemoteCall WITH state <- CallState, served <- done

(* Callers and service together keep to RemoteCall: what is asked is done  *)
(* once at most, and whoever hears of success can rely on it.              *)
RpcSpec == Rpc!Spec
=============================================================================
