---------------------------- MODULE MessagesProofs ----------------------------
(***************************************************************************)
(* Theorems about Messages, for messages of any length, any samples and any*)
(* widths that WidthAssumption allows.                                     *)
(***************************************************************************)
EXTENDS Messages, ValuesProofs, SequenceTheorems

USE DEF historyVars, readVars

-----------------------------------------------------------------------------
(* The inductive invariant *)

Data == Int \union {NoNumber, Nothing}

Plains == [type : PlainTypes, data : Data]

Args == Plains \union [type : {"variant"}, data : Plains]

Pushes == [kind : Kinds, data : Data \union Plains]

(* A plain value is one that its type can have. *)
Proper(v) ==
    /\ v.type \in NumberTypes \union {"boolean"} => v.data \in TypeRange(v.type)
    /\ v.type \in {"string", "double"} => v.data \in Int \union {NoNumber}

Outcomes ==
    [op : {"none", "int", "unsigned", "bool", "double", "string", "to_string", "value", "next",
           "for_each"},
     res : {"none", "value", "throw", "undefined"}, data : Data]

Types ==
    /\ phase \in {"writing", "reading", "broken"}
    /\ wire \in Seq(Args)
    /\ pushed \in Seq(Pushes)
    /\ Len(pushed) = Len(wire) /\ Len(wire) <= MaxArgs
    /\ pos \in 1 .. Len(wire) + 1
    /\ valid \in BOOLEAN /\ failed \in BOOLEAN
    /\ matched \in BOOLEAN /\ careful \in BOOLEAN
    /\ out \in Outcomes

(* The type that push_back appends for what it is given. *)
KindType ==
    [text |-> "string", bool |-> "boolean", int |-> "int32", unsigned |-> "uint32",
     double |-> "double", int16 |-> "int16", uint16 |-> "uint16", int32 |-> "int32",
     uint32 |-> "uint32", int64 |-> "int64", uint64 |-> "uint64"]

(* Argument v is what push_back makes of p. *)
Made(v, p) ==
    /\ Proper(Plain(v))
    /\ p.kind \in DOMAIN KindType =>
        v.type = KindType[p.kind] /\ p.data = v.data
    /\ p.kind = "template" /\ v.type \in NumberTypes /\ Digits(p.data) \in TypeRange(v.type) =>
        v.data = Digits(p.data)

WireInv == \A i \in 1 .. Len(wire) : Made(wire[i], pushed[i])

(* Nothing is read before the message is there; valid is never false too   *)
(* early, and an error is not iterated. *)
IterInv ==
    /\ phase = "writing" => pos = 1 /\ ~valid /\ ~failed /\ out.op = "none"
    /\ failed => ~valid
    /\ phase # "writing" /\ ~failed /\ ~AtEnd => valid
    /\ phase # "writing" /\ ~failed /\ careful => (valid <=> ~AtEnd)

(* What the last operation was given back. *)
OutInv ==
    /\ matched /\ out.op \in Pops =>
        pos > 1 /\ out.res = "value" /\ out.data = pushed[pos - 1].data
    /\ out.op = "for_each" /\ out.res = "throw" =>
        \E i \in 1 .. Len(wire) : Plain(wire[i]).type \notin ValueTypes
    /\ out.op \in {"int", "unsigned"} /\ out.res = "value" =>
        /\ pos > 1
        /\ LET n == Number(Plain(wire[pos - 1]))
           IN  /\ n \in Int
               /\ out.data = IF out.op = "int" THEN Signed(Word, n) ELSE Unsigned(Word, n)
    /\ failed /\ out.op \notin {"none", "to_string"} => out.res \in {"throw", "undefined"}

IInv == Types /\ WireInv /\ IterInv /\ OutInv

-----------------------------------------------------------------------------
(* Values *)

LEMMA Moduli ==
  /\ Short \in Nat /\ Short > 0 /\ Short % 2 = 0
  /\ Word \in Nat /\ Word > 0 /\ Word % 2 = 0
  /\ Long \in Nat /\ Long > 0 /\ Long % 2 = 0
  /\ Short \div 2 \in Nat /\ Word \div 2 \in Nat
  /\ Short <= Word \div 2 /\ Short \div 2 <= Short
  BY WidthAssumption

LEMMA SampleData ==
  ASSUME NEW type \in PlainTypes, NEW d \in DataOf(type)
  PROVE  Value(type, d) \in Plains /\ Proper(Value(type, d))
         /\ Value(type, d).type = type /\ Value(type, d).data = d
<1>1. CASE type \in NumberTypes \union {"boolean"}
  BY <1>1, SamplesAssumption DEF DataOf, Value, Plains, Proper, Data, NumberTypes
<1>2. CASE type \in {"string", "double"}
  BY <1>2, SamplesAssumption DEF DataOf, Value, Plains, Proper, Data, NumberTypes
<1>3. CASE type \in {"object_path", "array"}
  BY <1>3 DEF DataOf, Value, Plains, Proper, Data, NumberTypes
<1> QED BY <1>1, <1>2, <1>3 DEF PlainTypes

LEMMA PlainMade ==
  ASSUME NEW v \in Plains
  PROVE  Plain(v) = v /\ v \in Args /\ v.type # "variant"
  BY DEF Plains, Plain, Args, PlainTypes, NumberTypes

(* A template's number is of its argument's type, and kept if it can be. *)
LEMMA TemplateMade ==
  ASSUME NEW type \in TemplateTypes, NEW text \in Samples \union {NoNumber}
  PROVE  LET v == Value(type, FromText(type, text))
         IN  /\ v \in Plains /\ Proper(v) /\ v.type = type
             /\ type \in NumberTypes /\ Digits(text) \in TypeRange(type) =>
                  v.data = Digits(text)
<1> DEFINE D == Digits(text)
           n == Signed(Word, D)
           v == Value(type, FromText(type, text))
<1>1. D \in Int /\ text \in Int \union {NoNumber}
  BY SamplesAssumption DEF Digits
<1>2. n \in Int /\ n \in SignedRange(Word)
  BY <1>1, Moduli, SignedType
<1> HIDE DEF D
<1>3. CASE type = "int16"
  <2>1. FromText(type, text) = Signed(Short, n)
    BY <1>3 DEF FromText, D
  <2>2. Signed(Short, n) \in SignedRange(Short) /\ Signed(Short, n) \in Int
    BY <1>2, Moduli, SignedType
  <2>3. ASSUME D \in SignedRange(Short) PROVE Signed(Short, n) = D
    <3>1. D \in SignedRange(Word)
      BY <2>3, Moduli DEF SignedRange
    <3>2. n = D
      BY <3>1, Moduli, SignedWhole
    <3> QED BY <2>3, <3>2, Moduli, SignedWhole
  <2> QED BY <1>3, <2>1, <2>2, <2>3
      DEF Value, Plains, Proper, Data, PlainTypes, NumberTypes, TypeRange, D
<1>4. CASE type = "uint16"
  <2>1. FromText(type, text) = Unsigned(Short, n)
    BY <1>4 DEF FromText, D
  <2>2. Unsigned(Short, n) \in UnsignedRange(Short) /\ Unsigned(Short, n) \in Int
    BY <1>2, Moduli, UnsignedType
  <2>3. ASSUME D \in UnsignedRange(Short) PROVE Unsigned(Short, n) = D
    <3>1. D \in SignedRange(Word)
      BY <2>3, Moduli DEF SignedRange, UnsignedRange
    <3>2. n = D
      BY <3>1, Moduli, SignedWhole
    <3> QED BY <2>3, <3>2, Moduli, UnsignedWhole
  <2> QED BY <1>4, <2>1, <2>2, <2>3
      DEF Value, Plains, Proper, Data, PlainTypes, NumberTypes, TypeRange, D
<1>5. CASE type = "int32"
  <2>1. FromText(type, text) = n
    BY <1>5 DEF FromText, D
  <2>2. D \in SignedRange(Word) => n = D
    BY Moduli, SignedWhole
  <2> QED BY <1>2, <1>5, <2>1, <2>2
      DEF Value, Plains, Proper, Data, PlainTypes, NumberTypes, TypeRange, D
<1>6. CASE type = "uint32"
  <2>1. FromText(type, text) = Unsigned(Word, n)
    BY <1>6 DEF FromText, D
  <2>2. Unsigned(Word, n) \in UnsignedRange(Word) /\ Unsigned(Word, n) \in Int
    BY <1>2, Moduli, UnsignedType
  <2>3. D \in UnsignedRange(Word) => Unsigned(Word, n) = D
    BY Moduli, UnsignedOfSigned
  <2> QED BY <1>6, <2>1, <2>2, <2>3
      DEF Value, Plains, Proper, Data, PlainTypes, NumberTypes, TypeRange, D
<1>7. CASE type = "boolean"
  <2>1. FromText(type, text) \in 0 .. 1
    BY <1>7 DEF FromText, Truth
  <2> QED BY <1>7, <2>1
      DEF Value, Plains, Proper, Data, PlainTypes, NumberTypes, TypeRange
<1>8. CASE type \in {"double", "string"}
  <2>1. FromText(type, text) \in Int \union {NoNumber}
    BY <1>1, <1>8 DEF FromText, D
  <2> QED BY <1>8, <2>1 DEF Value, Plains, Proper, Data, PlainTypes, NumberTypes
<1> QED BY <1>3, <1>4, <1>5, <1>6, <1>7, <1>8 DEF TemplateTypes, D

-----------------------------------------------------------------------------
(* Writing *)

LEMMA InitInv == Init => IInv
<1> SUFFICES ASSUME Init PROVE IInv
  OBVIOUS
<1>1. <<>> \in Seq(Args) /\ <<>> \in Seq(Pushes)
  BY EmptySeq
<1>2. Types
  <2>1. Len(<<>>) = 0 /\ 1 \in 1 .. 0 + 1
    OBVIOUS
  <2>2. out \in Outcomes
    BY DEF Init, Outcome, Outcomes, Data
  <2>3. Len(wire) = 0 /\ Len(pushed) = 0 /\ 0 <= MaxArgs
    BY <2>1, ArgsAssumption DEF Init
  <2>4. wire \in Seq(Args) /\ pushed \in Seq(Pushes)
    BY <1>1 DEF Init
  <2>5. pos \in 1 .. Len(wire) + 1
    BY <2>1, <2>3 DEF Init
  <2> QED BY <2>2, <2>3, <2>4, <2>5 DEF Init, Types
<1>3. WireInv /\ IterInv /\ OutInv
  BY DEF Init, WireInv, IterInv, OutInv, Outcome, Pops
<1> QED BY <1>2, <1>3 DEF IInv

LEMMA AppendStep ==
  ASSUME IInv, NEW v \in Args, NEW kind \in Kinds, NEW data \in Data \union Plains,
         Made(v, [kind |-> kind, data |-> data]), AppendArg(v, kind, data)
  PROVE  IInv'
<1> DEFINE p == [kind |-> kind, data |-> data]
<1>1. p \in Pushes
  BY DEF Pushes
<1>2. wire' = Append(wire, v) /\ pushed' = Append(pushed, p)
      /\ phase = "writing" /\ Len(wire) < MaxArgs
      /\ UNCHANGED <<phase, pos, valid, failed, out, matched, careful>>
  BY DEF AppendArg, Room
<1> HIDE DEF p
<1>3. Len(wire) \in Nat /\ Len(wire') = Len(wire) + 1 /\ Len(pushed') = Len(wire) + 1
  BY <1>1, <1>2 DEF IInv, Types
<1>4. Types'
  <2>1. wire' \in Seq(Args) /\ pushed' \in Seq(Pushes)
    BY <1>1, <1>2 DEF IInv, Types
  <2>2. pos' \in 1 .. Len(wire') + 1
    BY <1>2, <1>3 DEF IInv, Types
  <2>3. Len(wire') <= MaxArgs
    BY <1>2, <1>3, ArgsAssumption
  <2> QED BY <1>2, <1>3, <2>1, <2>2, <2>3 DEF IInv, Types
<1>5. WireInv'
  <2> SUFFICES ASSUME NEW i \in 1 .. Len(wire') PROVE Made(wire'[i], pushed'[i])
    BY DEF WireInv, Made, Proper
  <2>1. CASE i = Len(wire) + 1
    <3>1. wire'[i] = v /\ pushed'[i] = p
      BY <1>1, <1>2, <2>1 DEF IInv, Types
    <3> QED BY <3>1 DEF p
  <2>2. CASE i \in 1 .. Len(wire)
    <3>1. wire'[i] = wire[i] /\ pushed'[i] = pushed[i]
      BY <1>1, <1>2, <2>2 DEF IInv, Types
    <3> QED BY <2>2, <3>1 DEF IInv, WireInv
  <2> QED BY <1>3, <2>1, <2>2
<1>6. IterInv' /\ OutInv'
  BY <1>2 DEF IInv, IterInv, OutInv, Pops
<1> QED BY <1>4, <1>5, <1>6 DEF IInv

LEMMA KindTypes ==
  /\ \A kind \in DOMAIN MessageKinds :
        /\ kind \in Kinds /\ MessageKinds[kind] \in PlainTypes
        /\ kind \in DOMAIN KindType /\ KindType[kind] = MessageKinds[kind]
        /\ kind # "template"
  /\ \A kind \in DOMAIN SignalKinds :
        /\ kind \in Kinds /\ SignalKinds[kind] \in PlainTypes
        /\ kind \in DOMAIN KindType /\ KindType[kind] = SignalKinds[kind]
        /\ kind # "template"
  /\ "template" \in Kinds /\ "template" \notin DOMAIN KindType
  /\ "peer" \in Kinds /\ "peer" \notin DOMAIN KindType
<1> USE DEF MessageKinds, SignalKinds, Kinds, PopOf, KindType, PlainTypes, NumberTypes
<1>1. DOMAIN MessageKinds = {"text", "bool", "int", "unsigned", "double"}
  OBVIOUS
<1>2. DOMAIN SignalKinds = {"text", "bool", "int16", "uint16", "int32", "uint32", "int64",
                            "uint64"}
  OBVIOUS
<1> QED BY <1>1, <1>2

LEMMA PushStep ==
  ASSUME IInv, NEW kind \in Kinds, NEW type \in PlainTypes, NEW d \in DataOf(type),
         kind \in DOMAIN KindType, KindType[kind] = type, kind # "template",
         AppendArg(Value(type, d), kind, d)
  PROVE  IInv'
<1> DEFINE v == Value(type, d)
<1>1. v \in Plains /\ Proper(v) /\ v.type = type /\ v.data = d
  BY SampleData
<1> HIDE DEF v
<1>2. v \in Args /\ Plain(v) = v /\ d \in Data \union Plains
  BY <1>1, PlainMade DEF Plains
<1>3. Made(v, [kind |-> kind, data |-> d])
  BY <1>1, <1>2 DEF Made
<1> QED BY <1>2, <1>3, AppendStep DEF v

LEMMA TemplateStep ==
  ASSUME IInv, NEW type \in TemplateTypes, PushTemplate(type)
  PROVE  IInv'
<1>1. PICK text \in Samples \union {NoNumber} :
          AppendArg(Value(type, FromText(type, text)), "template", text)
  BY DEF PushTemplate
<1> DEFINE v == Value(type, FromText(type, text))
<1>2. /\ v \in Plains /\ Proper(v) /\ v.type = type
      /\ type \in NumberTypes /\ Digits(text) \in TypeRange(type) => v.data = Digits(text)
  BY TemplateMade
<1> HIDE DEF v
<1>3. v \in Args /\ Plain(v) = v /\ text \in Data \union Plains
  BY <1>2, PlainMade, SamplesAssumption DEF Data
<1>4. Made(v, [kind |-> "template", data |-> text])
  BY <1>2, <1>3, KindTypes DEF Made
<1> QED BY <1>1, <1>3, <1>4, KindTypes, AppendStep DEF v

LEMMA PeerStep ==
  ASSUME IInv, PushPeer
  PROVE  IInv'
<1>1. PICK v \in WireValues : AppendArg(v, "peer", v.data)
  BY DEF PushPeer
<1>2. ASSUME NEW w \in PlainValues PROVE w \in Plains /\ Proper(w)
  <2>1. PICK t \in PlainTypes : \E d \in DataOf(t) : w = Value(t, d)
    BY <1>2 DEF PlainValues
  <2> QED BY <2>1, SampleData
<1>3. v \in Args /\ Proper(Plain(v)) /\ v.data \in Data \union Plains
  <2>1. CASE v \in PlainValues
    BY <1>2, <2>1, PlainMade DEF Plains
  <2>2. CASE v \notin PlainValues
    <3>1. PICK w \in PlainValues : v = Value("variant", w)
      BY <2>2 DEF WireValues
    <3> QED BY <1>2, <3>1 DEF Value, Plain, Args
  <2> QED BY <2>1, <2>2
<1>4. Made(v, [kind |-> "peer", data |-> v.data])
  BY <1>3, KindTypes DEF Made
<1> QED BY <1>1, <1>3, <1>4, KindTypes, AppendStep

LEMMA WritingStep ==
  ASSUME IInv, Writing
  PROVE  IInv'
<1>1. ASSUME NEW kind \in DOMAIN MessageKinds, Push(kind) PROVE IInv'
  BY <1>1, KindTypes, PushStep DEF Push
<1>2. ASSUME NEW kind \in DOMAIN SignalKinds, PushSignal(kind) PROVE IInv'
  BY <1>2, KindTypes, PushStep DEF PushSignal
<1> QED BY <1>1, <1>2, TemplateStep, PeerStep DEF Writing

-----------------------------------------------------------------------------
(* Reading *)

NumberOps == {"int", "unsigned", "bool", "double"}

LEMMA NumberType ==
  ASSUME NEW v \in Plains, Proper(v),
         v.type \in {"string", "boolean", "int16", "int32", "uint16", "uint32"}
  PROVE  Number(v) \in Int
<1>1. CASE v.type = "string"
  BY <1>1 DEF Proper, Number, Digits
<1>2. CASE v.type # "string"
  BY <1>2, Moduli DEF Proper, Number, NumberTypes, TypeRange, SignedRange, UnsignedRange
<1> QED BY <1>1, <1>2

(* What a pop makes of an argument that it accepts. *)
LEMMA ConvertedType ==
  ASSUME NEW op \in NumberOps, NEW v \in Plains, Proper(v), v.type \in Accepts(op),
         NEW d \in Converted(op, v)
  PROVE  /\ d \in Data
         /\ op \in {"int", "unsigned"} =>
              /\ Number(v) \in Int
              /\ d = IF op = "int" THEN Signed(Word, Number(v)) ELSE Unsigned(Word, Number(v))
<1>1. CASE op \in {"int", "unsigned"}
  <2>1. Number(v) \in Int
    BY <1>1, NumberType DEF Accepts
  <2>2. Signed(Word, Number(v)) \in Int /\ Unsigned(Word, Number(v)) \in Int
    BY <2>1, Moduli, SignedType, UnsignedType
  <2> QED BY <1>1, <2>1, <2>2 DEF Converted, ToInt, ToUnsigned, Data
<1>2. CASE op = "bool"
  BY <1>2 DEF Converted, ToBool, Truth, Data
<1>3. CASE op = "double"
  BY <1>3 DEF Converted, ToDouble, Accepts, Number, Digits, Proper, Data
<1> QED BY <1>1, <1>2, <1>3 DEF NumberOps

(* The pop for what was pushed accepts it, and gives it back. *)
LEMMA ConvertedSame ==
  ASSUME NEW v \in Args, NEW p, p.kind \in Kinds, Made(v, p),
         NEW op \in NumberOps, op = PopOf[p.kind]
  PROVE  v \in Plains /\ v.type \in Accepts(op) /\ Converted(op, v) = {p.data}
         /\ Plain(v) = v
<1>1. p.kind \in {"bool", "int", "unsigned", "double", "int16", "uint16", "int32", "uint32"}
  BY DEF Kinds, PopOf, NumberOps
<1>2. v.type = KindType[p.kind] /\ p.data = v.data /\ p.kind \in DOMAIN KindType
  BY <1>1 DEF Made, KindType
<1>3. v \in Plains /\ Plain(v) = v /\ Proper(v)
  BY <1>1, <1>2 DEF Args, Plain, KindType, Made
<1>4. CASE p.kind \in {"int", "int32"}
  <2>1. v.type = "int32" /\ op = "int" /\ v.data \in SignedRange(Word)
    BY <1>2, <1>3, <1>4 DEF KindType, PopOf, Proper, NumberTypes, TypeRange
  <2>2. Signed(Word, v.data) = v.data
    BY <2>1, Moduli, SignedWhole
  <2> QED BY <1>2, <1>3, <2>1, <2>2 DEF Accepts, Converted, ToInt, Number
<1>5. CASE p.kind = "int16"
  <2>1. v.type = "int16" /\ op = "int" /\ v.data \in SignedRange(Short)
    BY <1>2, <1>3, <1>5 DEF KindType, PopOf, Proper, NumberTypes, TypeRange
  <2>2. v.data \in SignedRange(Word)
    BY <2>1, Moduli DEF SignedRange
  <2>3. Signed(Word, v.data) = v.data
    BY <2>2, Moduli, SignedWhole
  <2> QED BY <1>2, <1>3, <2>1, <2>3 DEF Accepts, Converted, ToInt, Number
<1>6. CASE p.kind \in {"unsigned", "uint32"}
  <2>1. v.type = "uint32" /\ op = "unsigned" /\ v.data \in UnsignedRange(Word)
    BY <1>2, <1>3, <1>6 DEF KindType, PopOf, Proper, NumberTypes, TypeRange
  <2>2. Unsigned(Word, v.data) = v.data
    BY <2>1, Moduli, UnsignedWhole
  <2> QED BY <1>2, <1>3, <2>1, <2>2 DEF Accepts, Converted, ToUnsigned, Number
<1>7. CASE p.kind = "uint16"
  <2>1. v.type = "uint16" /\ op = "unsigned" /\ v.data \in UnsignedRange(Short)
    BY <1>2, <1>3, <1>7 DEF KindType, PopOf, Proper, NumberTypes, TypeRange
  <2>2. v.data \in UnsignedRange(Word)
    BY <2>1, Moduli, WidthAssumption DEF UnsignedRange
  <2>3. Unsigned(Word, v.data) = v.data
    BY <2>2, Moduli, UnsignedWhole
  <2> QED BY <1>2, <1>3, <2>1, <2>3 DEF Accepts, Converted, ToUnsigned, Number
<1>8. CASE p.kind = "bool"
  <2>1. v.type = "boolean" /\ op = "bool" /\ v.data \in 0 .. 1
    BY <1>2, <1>3, <1>8 DEF KindType, PopOf, Proper, TypeRange
  <2> QED BY <1>2, <1>3, <2>1 DEF Accepts, Converted, ToBool, Truth
<1>9. CASE p.kind = "double"
  <2>1. v.type = "double" /\ op = "double"
    BY <1>2, <1>9 DEF KindType, PopOf
  <2> QED BY <1>2, <1>3, <2>1 DEF Accepts, Converted, ToDouble, Number
<1> QED BY <1>1, <1>4, <1>5, <1>6, <1>7, <1>8, <1>9

LEMMA OpenStep ==
  ASSUME IInv, Open \/ OpenError
  PROVE  IInv'
<1>1. wire # <<>> <=> ~(1 > Len(wire))
  BY EmptySeq DEF IInv, Types
<1>2. Types' /\ WireInv'
  BY DEF IInv, Types, WireInv, Open, OpenError, Made, Proper
<1>3. IterInv'
  <2>1. phase = "writing" /\ pos = 1 /\ ~valid /\ ~failed /\ wire' = wire /\ pos' = pos
        /\ phase' = "reading"
    BY DEF IInv, IterInv, Open, OpenError
  <2>2. CASE Open
    BY <1>1, <2>1, <2>2 DEF IterInv, Open, AtEnd
  <2>3. CASE OpenError
    BY <2>1, <2>3 DEF IterInv, OpenError
  <2> QED BY <2>2, <2>3
<1>4. OutInv'
  BY DEF IInv, IterInv, OutInv, Open, OpenError, Pops
<1> QED BY <1>2, <1>3, <1>4 DEF IInv

(* An operation that reads: the message stays, and what is to be shown is  *)
(* about the iterator and the outcome. *)
LEMMA ReadStep ==
  ASSUME IInv, UNCHANGED readVars, phase' \in {"reading", "broken"},
         pos' \in 1 .. Len(wire) + 1, valid' \in BOOLEAN, out' \in Outcomes,
         matched' \in BOOLEAN, careful' \in BOOLEAN, IterInv', OutInv'
  PROVE  IInv'
<1>1. Types' /\ WireInv'
  BY DEF IInv, Types, WireInv, Made, Proper
<1> QED BY <1>1 DEF IInv

LEMMA HereType ==
  ASSUME IInv, ~AtEnd
  PROVE  /\ pos \in 1 .. Len(wire) /\ pos < Len(wire) + 1 /\ Len(wire) \in Nat
         /\ Here \in Args /\ Plain(Here) \in Plains /\ Proper(Plain(Here))
         /\ Made(Here, pushed[pos]) /\ pushed[pos].kind \in Kinds
         /\ Here.type = "variant" => Plain(Here) = Here.data
<1>1. pos \in 1 .. Len(wire) /\ pos < Len(wire) + 1 /\ Len(wire) \in Nat
  BY DEF IInv, Types, AtEnd
<1>2. Here \in Args /\ pushed[pos] \in Pushes
  <2>1. wire \in Seq(Args) /\ pushed \in Seq(Pushes) /\ Len(pushed) = Len(wire)
    BY DEF IInv, Types
  <2> QED BY <1>1, <2>1 DEF Here
<1>3. Plain(Here) \in Plains
  <2>1. CASE Here \in Plains
    BY <2>1, PlainMade
  <2>2. CASE Here \notin Plains
    BY <1>2, <2>2 DEF Args, Plain
  <2> QED BY <2>1, <2>2
<1>4. Made(Here, pushed[pos])
  BY <1>1 DEF IInv, WireInv, Here
<1> QED BY <1>1, <1>2, <1>3, <1>4 DEF Made, Plain, Pushes

(* The outcome of a throw, and of what is undefined, says nothing. *)
LEMMA NumberStep ==
  ASSUME IInv, NEW op \in NumberOps, PopNumber(op)
  PROVE  IInv'
<1> USE DEF NumberOps
<1>0. /\ phase = "reading" /\ Match(op) /\ UNCHANGED <<wire, pushed, failed>>
      /\ careful' = (careful /\ (AtEnd \/ Here.type # "variant"))
      /\ pos \in 1 .. Len(wire) + 1 /\ Len(wire) \in Nat
      /\ matched \in BOOLEAN /\ careful \in BOOLEAN /\ valid \in BOOLEAN /\ failed \in BOOLEAN
  BY DEF PopNumber, IInv, Types
<1>1. matched' \in BOOLEAN /\ careful' \in BOOLEAN
  BY <1>0 DEF Match
<1>2. matched' => /\ ~AtEnd /\ ~failed /\ op = PopOf[pushed[pos].kind]
  BY <1>0 DEF Match
<1>3. CASE ~valid /\ Throw(op) /\ Stay
  <2>1. out' = Outcome(op, "throw", Nothing) /\ UNCHANGED <<phase, pos, valid>>
    BY <1>3 DEF Throw, Stay
  <2>2. ~matched'
    BY <1>0, <1>2, <1>3 DEF IInv, IterInv
  <2>3. out' \in Outcomes
    BY <2>1 DEF Outcome, Outcomes, Data
  <2>4. IterInv'
    BY <1>0, <1>3, <2>1 DEF IInv, IterInv, AtEnd
  <2>5. OutInv'
    BY <2>1, <2>2 DEF OutInv, Outcome
  <2> QED BY <1>0, <1>1, <2>1, <2>3, <2>4, <2>5, ReadStep
<1>4. CASE valid /\ ~Readable /\ Break(op)
  <2>1. out' = Outcome(op, "undefined", Nothing) /\ UNCHANGED <<pos, valid>>
        /\ phase' = "broken"
    BY <1>4 DEF Break, Stay
  <2>2. ~matched'
    <3> SUFFICES ASSUME matched' PROVE FALSE
      OBVIOUS
    <3>1. ~AtEnd /\ op = PopOf[pushed[pos].kind]
      BY <1>2
    <3>2. Plain(Here).type \in Accepts(op)
      BY <3>1, HereType, ConvertedSame
    <3>3. Plain(Here).type # "array"
      BY <3>2 DEF Accepts
    <3> QED BY <1>4, <3>1, <3>3 DEF Readable, Basic
  <2>3. out' \in Outcomes
    BY <2>1 DEF Outcome, Outcomes, Data
  <2>4. IterInv'
    BY <1>0, <1>4, <2>1 DEF IInv, IterInv, AtEnd
  <2>5. OutInv'
    BY <2>1, <2>2 DEF OutInv, Outcome
  <2> QED BY <1>0, <1>1, <2>1, <2>3, <2>4, <2>5, ReadStep
<1>5. CASE /\ valid /\ Readable /\ Advance
           /\ valid' = GetValid
           /\ IF Plain(Here).type \in Accepts(op)
                THEN \E d \in Converted(op, Plain(Here)) : Return(op, d)
                ELSE Throw(op)
  <2>1. ~AtEnd /\ pos' = pos + 1 /\ pos \in 1 .. Len(wire) /\ phase' = "reading" /\ ~failed
    BY <1>0, <1>5, HereType DEF Readable, Advance, Return, Throw, IInv, IterInv
  <2>2. pos' \in 1 .. Len(wire) + 1 /\ valid' \in BOOLEAN
    <3>1. pos' \in 1 .. Len(wire) + 1
      BY <1>0, <2>1
    <3>2. (pos < Len(wire)) \in BOOLEAN
      BY <1>0
    <3> QED BY <1>0, <1>5, <3>1, <3>2 DEF GetValid
  <2>3. IterInv'
    <3>1. AtEnd' <=> ~(pos < Len(wire))
      BY <1>0, <2>1 DEF AtEnd
    <3>2. (AtEnd \/ Here.type # "variant") => (valid' <=> ~AtEnd')
      BY <1>5, <2>1, <3>1 DEF GetValid
    <3>3. ~AtEnd' => valid'
      BY <1>5, <3>1 DEF GetValid
    <3> QED BY <1>0, <2>1, <3>2, <3>3 DEF IterInv
  <2>4. pos' - 1 = pos /\ pos' > 1
    BY <1>0, <2>1
  <2>5. CASE Plain(Here).type \in Accepts(op)
    <3>1. PICK d \in Converted(op, Plain(Here)) : out' = Outcome(op, "value", d)
      BY <1>5, <2>5 DEF Return
    <3>2. /\ d \in Data
          /\ op \in {"int", "unsigned"} =>
               /\ Number(Plain(Here)) \in Int
               /\ d = IF op = "int" THEN Signed(Word, Number(Plain(Here)))
                                    ELSE Unsigned(Word, Number(Plain(Here)))
      BY <2>1, <2>5, HereType, ConvertedType
    <3>3. matched' => d = pushed[pos].data
      BY <1>2, <3>1, HereType, ConvertedSame
    <3>4. out' \in Outcomes /\ out'.op = op /\ out'.res = "value" /\ out'.data = d
      BY <3>1, <3>2 DEF Outcome, Outcomes
    <3>5. OutInv'
      BY <1>0, <2>1, <2>4, <3>2, <3>3, <3>4 DEF OutInv, Here
    <3> QED BY <1>0, <1>1, <2>1, <2>2, <2>3, <3>4, <3>5, ReadStep
  <2>6. CASE Plain(Here).type \notin Accepts(op)
    <3>1. out' = Outcome(op, "throw", Nothing)
      BY <1>5, <2>6 DEF Throw
    <3>2. ~matched'
      BY <1>2, <2>6, HereType, ConvertedSame
    <3>3. out' \in Outcomes
      BY <3>1 DEF Outcome, Outcomes, Data
    <3>4. OutInv'
      BY <3>1, <3>2 DEF OutInv, Outcome
    <3> QED BY <1>0, <1>1, <2>1, <2>2, <2>3, <3>3, <3>4, ReadStep
  <2> QED BY <2>5, <2>6
<1> QED BY <1>3, <1>4, <1>5 DEF PopNumber

LEMMA StringStep ==
  ASSUME IInv, PopString
  PROVE  IInv'
<1>0. /\ phase = "reading" /\ UNCHANGED <<wire, pushed, failed, valid>> /\ careful' = FALSE
      /\ phase' = phase
      /\ pos \in 1 .. Len(wire) + 1 /\ Len(wire) \in Nat /\ valid \in BOOLEAN
      /\ matched' \in BOOLEAN
  <2>1. phase' = phase
    BY DEF PopString, Return, Throw
  <2>2. matched' \in BOOLEAN
    BY DEF PopString, Match
  <2> QED BY <2>1, <2>2 DEF PopString, IInv, Types
<1>1. matched' => ~AtEnd /\ ~failed /\ "string" = PopOf[pushed[pos].kind]
  BY DEF PopString, Match
<1>2. CASE valid /\ ~AtEnd /\ Plain(Here).type \in Textual
  <2>1. out' = Outcome("string", "value", Plain(Here).data) /\ pos' = pos + 1
    BY <1>2 DEF PopString, Advance, Return
  <2>2. pos' \in 1 .. Len(wire) + 1 /\ pos' > 1 /\ pos' - 1 = pos
    BY <1>0, <1>2, <2>1, HereType
  <2>3. Plain(Here).data \in Data
    BY <1>2, HereType DEF Plains
  <2>4. IterInv'
    BY <1>0, <1>2 DEF IInv, IterInv
  <2>5. matched' => Plain(Here).data = pushed[pos].data
    <3> SUFFICES ASSUME matched' PROVE Plain(Here).data = pushed[pos].data
      OBVIOUS
    <3>1. pushed[pos].kind = "text"
      BY <1>1, HereType DEF Kinds, PopOf
    <3>2. Here.type = "string" /\ pushed[pos].data = Here.data
      BY <1>2, <3>1, HereType DEF Made, KindType
    <3> QED BY <3>2 DEF Plain
  <2>6. ~failed
    BY <1>2 DEF IInv, IterInv
  <2>7. out' \in Outcomes /\ OutInv'
    BY <1>0, <2>1, <2>2, <2>3, <2>5, <2>6 DEF OutInv, Outcome, Outcomes
  <2> QED BY <1>0, <2>2, <2>4, <2>7, ReadStep
<1>3. CASE ~(valid /\ ~AtEnd /\ Plain(Here).type \in Textual)
  <2>1. out' = Outcome("string", "throw", Nothing) /\ UNCHANGED pos
    BY <1>3 DEF PopString, Throw
  <2>2. ~matched'
    <3> SUFFICES ASSUME matched' PROVE FALSE
      OBVIOUS
    <3>1. ~AtEnd /\ ~failed /\ valid
      BY <1>0, <1>1 DEF IInv, IterInv
    <3>2. pushed[pos].kind = "text"
      BY <1>1, HereType DEF Kinds, PopOf
    <3>3. Here.type = "string"
      BY <3>1, <3>2, HereType DEF Made, KindType
    <3> QED BY <1>3, <3>1, <3>3 DEF Plain, Textual
  <2>3. IterInv'
    BY <1>0, <2>1 DEF IInv, IterInv, AtEnd
  <2>4. out' \in Outcomes /\ OutInv'
    BY <2>1, <2>2 DEF OutInv, Outcome, Outcomes, Data
  <2> QED BY <1>0, <2>1, <2>3, <2>4, ReadStep
<1> QED BY <1>2, <1>3

(* to_string, pop(Udjat::Value) and for_each leave the iterator alone. *)
LEMMA LookStep ==
  ASSUME IInv, ToString \/ PopValue \/ ForEach
  PROVE  IInv'
<1>0. /\ phase = "reading"
      /\ UNCHANGED <<wire, pushed, failed, pos, valid, matched, careful>>
      /\ pos \in 1 .. Len(wire) + 1 /\ Len(wire) \in Nat /\ phase' \in {"reading", "broken"}
      /\ valid \in BOOLEAN /\ careful \in BOOLEAN /\ matched \in BOOLEAN
  BY DEF ToString, PopValue, ForEach, Return, Throw, Break, Stay, IInv, Types
<1>1. IterInv'
  BY <1>0 DEF IInv, IterInv, AtEnd
<1>2. CASE ToString
  <2>1. \E res \in {"value", "throw"}, d \in Data : out' = Outcome("to_string", res, d)
    <3>1. ~AtEnd => Plain(Here).data \in Data
      BY HereType DEF Plains
    <3> QED BY <1>2, <3>1 DEF ToString, Return, Throw, Data
  <2>2. out' \in Outcomes /\ OutInv'
    BY <2>1 DEF OutInv, Outcome, Outcomes, Pops
  <2> QED BY <1>0, <1>1, <2>2, ReadStep
<1>3. CASE PopValue
  <2>1. \/ ~failed /\ \E d \in Data : out' = Outcome("value", "value", d)
        \/ out' = Outcome("value", "throw", Nothing)
    <3>1. ~AtEnd => Plain(Here).data \in Data
      BY HereType DEF Plains
    <3> QED BY <1>3, <3>1 DEF PopValue, Return, Throw
  <2>2. out' \in Outcomes /\ OutInv'
    BY <1>0, <2>1 DEF OutInv, Outcome, Outcomes, Pops, Data
  <2> QED BY <1>0, <1>1, <2>2, ReadStep
<1>4. CASE ForEach
  <2>1. \/ failed /\ out' = Outcome("for_each", "undefined", Nothing)
        \/ ~failed /\ Unknown # {} /\ out' = Outcome("for_each", "throw", Nothing)
        \/ ~failed /\ out' = Outcome("for_each", "value", Len(wire))
    BY <1>4 DEF ForEach, Return, Throw, Break
  <2>2. out' \in Outcomes
    BY <1>0, <2>1 DEF Outcome, Outcomes, Data
  <2>3. OutInv'
    BY <1>0, <2>1 DEF OutInv, Outcome, Pops, Unknown
  <2> QED BY <1>0, <1>1, <2>2, <2>3, ReadStep
<1> QED BY <1>2, <1>3, <1>4

LEMMA NextArgumentStep ==
  ASSUME IInv, NextArgument
  PROVE  IInv'
<1>0. /\ phase = "reading" /\ phase' = phase
      /\ UNCHANGED <<wire, pushed, failed, valid, matched>> /\ careful' = FALSE
      /\ pos \in 1 .. Len(wire) + 1 /\ Len(wire) \in Nat
      /\ valid \in BOOLEAN /\ matched \in BOOLEAN
  <2>1. phase' = phase
    BY DEF NextArgument, Return, Throw
  <2> QED BY <2>1 DEF NextArgument, IInv, Types
<1>1. pos' \in 1 .. Len(wire) + 1 /\ (pos' = pos \/ valid)
  BY <1>0 DEF NextArgument, Advance, AtEnd
<1>2. IterInv'
  BY <1>0, <1>1 DEF IInv, IterInv, AtEnd
<1>3. \/ failed /\ out' = Outcome("next", "throw", Nothing)
      \/ ~failed /\ \E d \in {0, 1} : out' = Outcome("next", "value", d)
  BY DEF NextArgument, Return, Throw, Truth
<1>4. out' \in Outcomes /\ OutInv'
  BY <1>0, <1>3 DEF OutInv, Outcome, Outcomes, Pops, Data
<1> QED BY <1>0, <1>1, <1>2, <1>4, ReadStep

LEMMA NextInv == IInv /\ [Next]_vars => IInv'
<1> SUFFICES ASSUME IInv, [Next]_vars PROVE IInv'
  OBVIOUS
<1>1. CASE UNCHANGED vars
  BY <1>1 DEF vars, IInv, Types, WireInv, Made, Proper, IterInv, AtEnd, OutInv
<1>2. CASE Next
  BY <1>1, <1>2, WritingStep, OpenStep, NumberStep, StringStep, LookStep, NextArgumentStep
  DEF Next, Reading, Rest, NumberOps
<1> QED BY <1>1, <1>2

LEMMA Invariance == Spec => []IInv
<1> QED BY InitInv, NextInv, PTL DEF Spec

-----------------------------------------------------------------------------
(* Theorems *)

(* The iterator stays in the message or just behind it, and what is        *)
(* appended as a number is one that its type has. *)
THEOREM TypeCorrect == Spec => []TypeOK
<1>1. IInv => TypeOK
  <2> SUFFICES ASSUME IInv PROVE TypeOK
    OBVIOUS
  <2>1. ASSUME NEW i \in 1 .. Len(wire)
        PROVE  /\ pushed[i].kind \in Kinds
               /\ wire[i].type \in NumberTypes => wire[i].data \in TypeRange(wire[i].type)
    <3>1. pushed[i] \in Pushes
      <4>1. pushed \in Seq(Pushes) /\ Len(pushed) = Len(wire)
        BY DEF IInv, Types
      <4> QED BY <2>1, <4>1
    <3>2. Proper(Plain(wire[i]))
      BY <2>1 DEF IInv, WireInv, Made
    <3> QED BY <3>1, <3>2 DEF Pushes, Plain, Proper, NumberTypes
  <2> QED BY <2>1 DEF IInv, Types, TypeOK, Outcomes
<1> QED BY <1>1, Invariance, PTL

(* Message.valid says whether there is another argument, for readers that  *)
(* use the pops for numbers only and meet no variant. *)
THEOREM IteratorCorrect == Spec => []IteratorKnown
<1>1. IInv => IteratorKnown
  BY DEF IInv, Types, IterInv, IteratorKnown
<1> QED BY <1>1, Invariance, PTL

(* What push_back appends, of each type and width, comes back from the pop *)
(* for it; only for the types named does for_each throw. *)
THEOREM RoundTrip == Spec => []SameBack
<1>1. IInv => SameBack
  <2> SUFFICES ASSUME IInv PROVE SameBack
    OBVIOUS
  <2>1. out = [op |-> out.op, res |-> out.res, data |-> out.data]
    BY DEF IInv, Types, Outcomes
  <2>2. ASSUME NEW i \in 1 .. Len(wire), Plain(wire[i]).type \notin ValueTypes
        PROVE  pushed[i].kind \in {"double", "uint16", "int64", "uint64", "template", "peer"}
    <3>1. pushed[i].kind \in Kinds
      <4>1. pushed \in Seq(Pushes) /\ Len(pushed) = Len(wire)
        BY DEF IInv, Types
      <4>2. pushed[i] \in Pushes
        BY <2>2, <4>1
      <4> QED BY <4>2 DEF Pushes
    <3>2. Made(wire[i], pushed[i])
      BY <2>2 DEF IInv, WireInv
    <3> QED BY <2>2, <3>1, <3>2 DEF Made, Plain, KindType, Kinds, PopOf, ValueTypes
  <2> QED BY <2>1, <2>2 DEF IInv, OutInv, SameBack, Outcome
<1> QED BY <1>1, Invariance, PTL

(* No conversion changes a number that its result can have, and one that   *)
(* it cannot is kept modulo 2^32: for any widths. *)
THEOREM NumbersCorrect == Spec => []NumbersKept
<1>1. IInv => NumbersKept
  <2> SUFFICES ASSUME IInv PROVE NumbersKept
    OBVIOUS
  <2>1. ASSUME out.op \in {"int", "unsigned"}, out.res = "value"
        PROVE  LET n == Number(Plain(wire[pos - 1]))
                   range == IF out.op = "int" THEN SignedRange(Word) ELSE UnsignedRange(Word)
               IN  /\ n \in range => out.data = n
                   /\ out.data \in range /\ (out.data - n) % Word = 0
    <3> DEFINE n == Number(Plain(wire[pos - 1]))
    <3>1. n \in Int
          /\ out.data = IF out.op = "int" THEN Signed(Word, n) ELSE Unsigned(Word, n)
      BY <2>1 DEF IInv, OutInv
    <3> HIDE DEF n
    <3>2. /\ n \in SignedRange(Word) => Signed(Word, n) = n
          /\ Signed(Word, n) \in SignedRange(Word)
          /\ (Signed(Word, n) - n) % Word = 0
      BY <3>1, Moduli, SignedWhole, SignedType, SignedCongruent
    <3>3. /\ n \in UnsignedRange(Word) => Unsigned(Word, n) = n
          /\ Unsigned(Word, n) \in UnsignedRange(Word)
          /\ (Unsigned(Word, n) - n) % Word = 0
      BY <3>1, Moduli, UnsignedWhole, UnsignedType, UnsignedCongruent
    <3>4. /\ n \in (IF out.op = "int" THEN SignedRange(Word) ELSE UnsignedRange(Word)) =>
               out.data = n
          /\ out.data \in (IF out.op = "int" THEN SignedRange(Word) ELSE UnsignedRange(Word))
          /\ (out.data - n) % Word = 0
      BY <2>1, <3>1, <3>2, <3>3
    <3> QED BY <3>4 DEF n
  <2>2. ASSUME NEW i \in 1 .. Len(wire), pushed[i].kind = "template",
               wire[i].type \in NumberTypes,
               Digits(pushed[i].data) \in TypeRange(wire[i].type)
        PROVE  wire[i].data = Digits(pushed[i].data)
    BY <2>2 DEF IInv, WireInv, Made
  <2> QED BY <2>1, <2>2 DEF NumbersKept
<1> QED BY <1>1, Invariance, PTL

(* Nothing gets a value out of an error. *)
THEOREM ErrorsCorrect == Spec => []ErrorsThrow
<1>1. IInv => ErrorsThrow
  BY DEF IInv, OutInv, ErrorsThrow
<1> QED BY <1>1, Invariance, PTL
=============================================================================
