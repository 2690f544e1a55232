------------------------------ MODULE Messages ------------------------------
(***************************************************************************)
(* DBus::Message and DBus::Signal: arguments are appended with push_back,  *)
(* the message goes to its receiver, and a Message made of what arrives is *)
(* read with pop, next, to_string and for_each.                            *)
(*                                                                         *)
(* A message may also be another program's, with arguments of any type, or *)
(* an error.  What libdbus does when it is asked for a value that is not   *)
(* there is undefined: it stops the process, unless it is told not to.     *)
(***************************************************************************)
EXTENDS Values, Sequences

CONSTANTS
    MaxArgs,  \* arguments of a message
    Samples   \* the numbers that values are made of

ASSUME ArgsAssumption == MaxArgs \in Nat

ASSUME SamplesAssumption == Samples \subseteq Int

VARIABLES
    phase,   \* "writing", "reading", "broken"
    wire,    \* the arguments of the message
    pushed,  \* history: what push_back was given, argument by argument
    pos,     \* where the iterator is
    valid,   \* message.valid
    failed,  \* err.valid
    out,     \* what the last operation did
    matched, \* history: each argument was read as what it was pushed
    careful  \* history: only pops for numbers, and no variant

vars == <<phase, wire, pushed, pos, valid, failed, out, matched, careful>>

historyVars == <<matched, careful>>

readVars == <<wire, pushed, failed>>

(* What push_back takes, and the type it appends: *)
MessageKinds ==
    [text |-> "string", bool |-> "boolean", int |-> "int32", unsigned |-> "uint32",
     double |-> "double"]

SignalKinds ==
    [text |-> "string", bool |-> "boolean", int16 |-> "int16", uint16 |-> "uint16",
     int32 |-> "int32", uint32 |-> "uint32", int64 |-> "int64", uint64 |-> "uint64"]

(* The pop that reads it back; none reads 64 bits. *)
PopOf ==
    [text |-> "string", bool |-> "bool", int |-> "int", unsigned |-> "unsigned",
     double |-> "double", int16 |-> "int", uint16 |-> "unsigned", int32 |-> "int",
     uint32 |-> "unsigned", int64 |-> "none", uint64 |-> "none", template |-> "none",
     peer |-> "none"]

(* Data of each type, from the samples. *)
DataOf(type) ==
    CASE type \in NumberTypes \union {"boolean"} -> Samples \cap TypeRange(type)
      [] type \in {"string", "double"} -> Samples \union {NoNumber}
      [] type = "object_path" -> {NoNumber}
      [] type = "array" -> {Nothing}

PlainTypes == NumberTypes \union {"boolean", "string", "double", "object_path", "array"}

PlainValues == UNION {{Value(t, d) : d \in DataOf(t)} : t \in PlainTypes}

WireValues == PlainValues \union {Value("variant", v) : v \in PlainValues}

Outcome(op, res, data) == [op |-> op, res |-> res, data |-> data]

Init ==
    /\ phase = "writing"
    /\ wire = <<>> /\ pushed = <<>>
    /\ pos = 1 /\ valid = FALSE /\ failed = FALSE
    /\ out = Outcome("none", "none", Nothing)
    /\ matched = TRUE /\ careful = TRUE

-----------------------------------------------------------------------------
(* Writing *)

Room == phase = "writing" /\ Len(wire) < MaxArgs

AppendArg(v, kind, data) ==
    /\ Room
    /\ wire' = Append(wire, v)
    /\ pushed' = Append(pushed, [kind |-> kind, data |-> data])
    /\ UNCHANGED <<phase, pos, valid, failed, out, historyVars>>

(* Mutant: an unsigned number is appended as a 16 bit one. *)
PushShort(kind) ==
    \E d \in DataOf(MessageKinds[kind]) :
        AppendArg(IF kind = "unsigned" THEN Value("uint16", Unsigned(Short, d))
                                       ELSE Value(MessageKinds[kind], d), kind, d)

(* Message::push_back, one for each kind; the rest of the arguments are    *)
(* given to the constructor.                                               *)
Push(kind) ==
    \E d \in DataOf(MessageKinds[kind]) :
        AppendArg(Value(MessageKinds[kind], d), kind, d)

(* Mutant: a number is not cut to the width of its type. *)
PushSignalWide(kind) ==
    \E d \in Samples : AppendArg(Value(SignalKinds[kind], d), kind, d)

(* Signal::push_back *)
PushSignal(kind) ==
    \E d \in DataOf(SignalKinds[kind]) :
        AppendArg(Value(SignalKinds[kind], d), kind, d)

(* The types an <argument> may have that MessageFactory can append: it     *)
(* throws for an object path.                                              *)
TemplateTypes == {"string", "int16", "uint16", "int32", "uint32", "boolean", "double"}

(* MessageFactory turns the expanded template into a value of the type. *)
FromText(type, text) ==
    LET n == Signed(Word, Digits(text))
    IN  CASE type = "int16"   -> Signed(Short, n)
          [] type = "uint16"  -> Unsigned(Short, n)
          [] type = "int32"   -> n
          [] type = "uint32"  -> Unsigned(Word, n)
          [] type = "boolean" -> Truth(n # 0)
          [] type = "double"  -> Digits(text)
          [] type = "string"  -> text

(* Action::MessageFactory, for one argument. *)
PushTemplate(type) ==
    \E text \in Samples \union {NoNumber} :
        AppendArg(Value(type, FromText(type, text)), "template", text)

(* Another program's argument. *)
PushPeer == \E v \in WireValues : AppendArg(v, "peer", v.data)

-----------------------------------------------------------------------------
(* Reading *)

(* Message(DBusMessage): the iterator  is valid if there is an argument. *)
Open ==
    /\ phase = "writing"
    /\ phase' = "reading"
    /\ valid' = (wire # <<>>)
    /\ UNCHANGED <<readVars, pos, out, historyVars>>

(* The message, or the DBusError, is an error. *)
OpenError ==
    /\ phase = "writing"
    /\ phase' = "reading"
    /\ failed' = TRUE
    /\ UNCHANGED <<wire, pushed, pos, valid, out, historyVars>>

Here == wire[pos]

AtEnd == pos > Len(wire)

Readable == ~AtEnd /\ Basic(Here)

(* dbus_message_iter_next *)
Advance == pos' = IF AtEnd THEN pos ELSE pos + 1

Stay == UNCHANGED <<pos, valid>>

Match(op) ==
    matched' = (matched /\ ~AtEnd /\ ~failed /\ op = PopOf[pushed[pos].kind])

Return(op, data) == out' = Outcome(op, "value", data) /\ UNCHANGED phase

Throw(op) == out' = Outcome(op, "throw", Nothing) /\ UNCHANGED phase

(* libdbus is asked for a value that is not there. *)
Break(op) ==
    /\ out' = Outcome(op, "undefined", Nothing)
    /\ phase' = "broken"
    /\ Stay

(* What the pops for numbers accept, and what they make of it. *)
Accepts(op) ==
    IF op = "double"
      THEN {"string", "double"}
      ELSE {"string", "boolean", "int16", "int32", "uint16", "uint32"}

(* Mutant: 32 bit values are cut to 16. *)
ToIntShort(v) == Signed(Short, Number(v))

ToInt(v) == Signed(Word, Number(v))

ToUnsigned(v) == Unsigned(Word, Number(v))

(* A text's truth is up to Udjat::String::as_bool. *)
ToBool(v) == IF v.type = "string" THEN {0, 1} ELSE {Truth(v.data # 0)}

ToDouble(v) == Number(v)

Converted(op, v) ==
    CASE op = "int" -> {ToInt(v)}
      [] op = "unsigned" -> {ToUnsigned(v)}
      [] op = "bool" -> ToBool(v)
      [] op = "double" -> {ToDouble(v)}

(* Mutant: what dbus_message_iter_next says is not kept. *)
GetUnkept == valid

(* Message::get keeps whether there is another argument, but not after a   *)
(* variant.                                                                *)
GetValid == IF Here.type = "variant" THEN valid ELSE pos < Len(wire)

(* Message::get, and pop for int, unsigned, bool or double: the argument   *)
(* is passed, whether its type is accepted or not.                         *)
PopNumber(op) ==
    /\ phase = "reading"
    /\ Match(op)
    /\ careful' = (careful /\ (AtEnd \/ Here.type # "variant"))
    /\ UNCHANGED readVars
    /\ \/ ~valid /\ Throw(op) /\ Stay
       \/ valid /\ ~Readable /\ Break(op)
       \/ /\ valid /\ Readable
          /\ Advance
          /\ valid' = GetValid
          /\ IF Plain(Here).type \in Accepts(op)
               THEN \E d \in Converted(op, Plain(Here)) : Return(op, d)
               ELSE Throw(op)

Textual == {"string", "object_path"}

(* pop(std::string): a text is passed, any other argument is not; that     *)
(* there is no other is not kept.                                          *)
PopString ==
    /\ phase = "reading"
    /\ Match("string")
    /\ careful' = FALSE
    /\ UNCHANGED <<readVars, valid>>
    /\ IF valid /\ ~AtEnd /\ Plain(Here).type \in Textual
         THEN Advance /\ Return("string", Plain(Here).data)
         ELSE Throw("string") /\ UNCHANGED pos

(* to_string: the text is not passed. *)
ToString ==
    /\ phase = "reading"
    /\ UNCHANGED <<readVars, historyVars>>
    /\ Stay
    /\ \/ ~valid /\ Return("to_string", NoNumber)
       \/ /\ valid
          /\ IF ~AtEnd /\ Plain(Here).type \in Textual
               THEN Return("to_string", Plain(Here).data)
               ELSE Throw("to_string")

(* Mutant: the error is not looked at first. *)
PopValueUnchecked ==
    /\ phase = "reading"
    /\ UNCHANGED <<readVars, historyVars>>
    /\ Stay
    /\ IF ~AtEnd /\ Plain(Here).type \in ValueTypes
         THEN Return("value", Plain(Here).data)
         ELSE Throw("value")

(* pop(Udjat::Value): the argument is not passed; next() is for that. *)
PopValue ==
    /\ phase = "reading"
    /\ UNCHANGED <<readVars, historyVars>>
    /\ Stay
    /\ IF ~failed /\ ~AtEnd /\ Plain(Here).type \in ValueTypes
         THEN Return("value", Plain(Here).data)
         ELSE Throw("value")

(* next() does not keep whether there is an argument either. *)
NextArgument ==
    /\ phase = "reading"
    /\ careful' = FALSE
    /\ UNCHANGED <<readVars, matched, valid>>
    /\ \/ failed /\ Throw("next") /\ UNCHANGED pos
       \/ ~failed /\ ~valid /\ Return("next", 0) /\ UNCHANGED pos
       \/ ~failed /\ valid /\ Advance /\ Return("next", Truth(pos < Len(wire)))

(* for_each has an iterator of its own: it reads up to the first argument  *)
(* that to_value does not know.  An error has no message to iterate.       *)
Unknown == {i \in 1 .. Len(wire) : Plain(wire[i]).type \notin ValueTypes}

ForEach ==
    /\ phase = "reading"
    /\ UNCHANGED <<readVars, historyVars>>
    /\ \/ failed /\ Break("for_each")
       \/ ~failed /\ Unknown # {} /\ Throw("for_each") /\ Stay
       \/ ~failed /\ Unknown = {} /\ Return("for_each", Len(wire)) /\ Stay

-----------------------------------------------------------------------------

Reading == PopString \/ ToString \/ PopValue \/ NextArgument \/ ForEach
             \/ \E op \in {"int", "unsigned", "bool", "double"} : PopNumber(op)

Writing ==
    \/ \E kind \in DOMAIN MessageKinds : Push(kind)
    \/ \E kind \in DOMAIN SignalKinds : PushSignal(kind)
    \/ \E type \in TemplateTypes : PushTemplate(type)
    \/ PushPeer

(* A reader may stop at any time. *)
Rest == phase = "broken" /\ UNCHANGED vars

Next == Writing \/ Open \/ OpenError \/ Reading \/ Rest

Spec == Init /\ [][Next]_vars
-----------------------------------------------------------------------------
(* Properties *)

Kinds == DOMAIN PopOf

TypeOK ==
    /\ phase \in {"writing", "reading", "broken"}
    /\ Len(wire) = Len(pushed) /\ Len(wire) <= MaxArgs
    /\ \A i \in 1 .. Len(wire) :
        /\ pushed[i].kind \in Kinds
        /\ wire[i].type \in NumberTypes => wire[i].data \in TypeRange(wire[i].type)
    /\ pos \in 1 .. Len(wire) + 1
    /\ valid \in BOOLEAN /\ failed \in BOOLEAN
    /\ matched \in BOOLEAN /\ careful \in BOOLEAN
    /\ out.res \in {"none", "value", "throw", "undefined"}

Pops == {"int", "unsigned", "bool", "double", "string"}

(* "True if the iter is valid": a reader that uses the pops for numbers    *)
(* finds the message empty exactly when there is no argument left, whether *)
(* they threw or not, so a loop on it never asks libdbus for an argument   *)
(* that is not there.  After a pop(std::string), a next() or a variant     *)
(* valid may say that there is one when there is none.                     *)
IteratorKnown ==
    careful /\ phase # "writing" /\ ~failed => (valid <=> ~AtEnd)

(* What is pushed comes back: arguments that are read in order, each by    *)
(* the pop for what was pushed, are what was pushed, and none throws.  By  *)
(* for_each a message can be read unless it has a double, an unsigned 16   *)
(* bit or a 64 bit number, which push_back appends and to_value rejects.   *)
SameBack ==
    /\ matched /\ out.op \in Pops =>
        pos > 1 /\ out = Outcome(out.op, "value", pushed[pos - 1].data)
    /\ out.op = "for_each" /\ out.res = "throw" =>
        \E i \in 1 .. Len(wire) :
            pushed[i].kind \in {"double", "uint16", "int64", "uint64", "template", "peer"}

(* Numbers keep their value on every way, if the type at its end has it:   *)
(* a pop into an integer, of whatever type the argument is, gives its      *)
(* number, and otherwise the number modulo 2^32; a template's digits become*)
(* an argument of their number, though all go through a signed int.        *)
NumbersKept ==
    /\ out.op \in {"int", "unsigned"} /\ out.res = "value" =>
        LET n == Number(Plain(wire[pos - 1]))
            range == IF out.op = "int" THEN SignedRange(Word) ELSE UnsignedRange(Word)
        IN  /\ n \in range => out.data = n
            /\ out.data \in range /\ (out.data - n) % Word = 0
    /\ \A i \in 1 .. Len(wire) :
        /\ pushed[i].kind = "template" /\ wire[i].type \in NumberTypes
        /\ Digits(pushed[i].data) \in TypeRange(wire[i].type)
        => wire[i].data = Digits(pushed[i].data)

(* An error is never taken for an answer: no operation gets a value out of *)
(* it (to_string makes it an empty text).                                  *)
ErrorsThrow ==
    failed /\ out.op \notin {"none", "to_string"} => out.res \in {"throw", "undefined"}
=============================================================================
