------------------------------ MODULE HelloWire ------------------------------
(***************************************************************************)
(* src/helloworld.pb.cc: the bytes of a HelloReply or HelloRequest, and    *)
(* what the generated code reads from and writes to them.  The two classes *)
(* have the same code for their one field, message_ or name_, called text  *)
(* here.                                                                   *)
(*                                                                         *)
(* A message is its text and its unknown fields: fields of another version *)
(* of the program, which are kept in order and sent on.  The value of a    *)
(* varint is in varint, the payload of the other wire types in bytes.      *)
(*                                                                         *)
(* Left out of the inputs: groups (wire type 3), and numbers wider than    *)
(* the 32 bits of a tag and a length or the 64 bits of a varint.           *)
(***************************************************************************)
EXTENDS Integers, Sequences, FiniteSets, FiniteSetsExt, SequencesExt

CONSTANTS
  Texts,     \* what programs put into a message
  Samples,   \* fields on the wire: [wire |-> their bytes, field |-> the field]
  Broken,    \* byte strings no field starts with
  Inputs     \* any byte strings

Field == [tag : Nat, varint : Nat, bytes : Seq(Nat)]

Empty == [text |-> <<>>, unknown |-> <<>>]

\* VerifyUTF8, for text without multi-byte characters.
IsValidUTF8(s) == \A i \in DOMAIN s : s[i] < 128
-----------------------------------------------------------------------------
(* Varints: seven bits in a byte, the least significant first; only the    *)
(* last byte is below 128.                                                 *)

\* The size of the varint w starts with; 0 if it is cut off or too long.
VarintSize(w, max) ==
  LET ends == {n \in DOMAIN w : n <= max /\ w[n] < 128}
  IN  IF ends = {} THEN 0 ELSE Min(ends)

ReadVarint[b \in Seq(Nat)] ==
  IF b = <<>> THEN 0 ELSE (Head(b) % 128) + 128 * ReadVarint[Tail(b)]

Varint(w, size) == ReadVarint[SubSeq(w, 1, size)]

WriteVarint[n \in Nat] ==
  IF n < 128 THEN <<n>> ELSE <<128 + (n % 128)>> \o WriteVarint[n \div 128]
-----------------------------------------------------------------------------
(* Parsing. *)

Tag(number, type) == 8 * number + type

\* The size of the payload p starts with; 0 if there is none: p ends too early,
\* or the tag has field number 0 or an undefined wire type.
PayloadSize(tag, p) ==
  LET fixed(n) == IF Len(p) < n THEN 0 ELSE n
      prefix == VarintSize(p, 5)
  IN  IF tag < 8 THEN 0
      ELSE CASE tag % 8 = 0 -> VarintSize(p, 10)
             [] tag % 8 = 1 -> fixed(8)
             [] tag % 8 = 2 ->
                  IF prefix = 0 THEN 0 ELSE fixed(prefix + Varint(p, prefix))
             [] tag % 8 = 5 -> fixed(4)
             [] OTHER -> 0

\* The field with this tag whose payload starts p.
Payload(tag, p) ==
  LET size == PayloadSize(tag, p)
      start == IF tag % 8 = 2 THEN VarintSize(p, 5) + 1 ELSE 1
  IN  [size |-> size,
       field |-> [tag |-> tag,
                  varint |-> IF tag % 8 = 0 THEN Varint(p, size) ELSE 0,
                  bytes |-> IF tag % 8 = 0 THEN <<>> ELSE SubSeq(p, start, size)]]

M_IsText(tag) == tag \div 8 = 1
\* case 1 of the switch, with the wire type of a string.
IsText(tag) == tag \div 8 = 1 /\ tag % 256 = 10

\* The cases of the switch: the text is replaced, any other field is kept.
AddField(m, f) ==
  IF IsText(f.tag) THEN [m EXCEPT !.text = f.bytes]
                   ELSE [m EXCEPT !.unknown = Append(@, f)]

\* The loop's body.  done: the loop was left by a tag that ends a message;
\* mutable: mutable_message() was called.  What a failed field has put into the
\* message by then is left out: it is read past the end of the input.
ParseField(s) ==
  LET k == VarintSize(s.rest, 5)
      tag == Varint(s.rest, k)
      p == Payload(tag, SubSeq(s.rest, k + 1, Len(s.rest)))
      good == p.size # 0 /\ (IsText(tag) => IsValidUTF8(p.field.bytes))
      called == s.mutable \/ IsText(tag)
  IN  CASE k # 0 /\ ~IsText(tag) /\ (tag = 0 \/ tag % 8 = 4) ->
             [s EXCEPT !.status = "done"]
        [] k # 0 /\ good ->
             [status |-> "ok", rest |-> SubSeq(s.rest, k + p.size + 1, Len(s.rest)),
              mutable |-> called, msg |-> AddField(s.msg, p.field)]
        [] OTHER -> [s EXCEPT !.status = "failure", !.mutable = called]

ParseState ==
  [status : {"ok", "done", "failure"}, rest : Seq(Nat), mutable : BOOLEAN,
   msg : [text : Seq(Nat), unknown : Seq(Field)]]

\* The loop.  An iteration takes at least one byte, or is the last.
_InternalParse[s \in ParseState] ==
  IF s.status # "ok" \/ s.rest = <<>> THEN s ELSE _InternalParse[ParseField(s)]

\* MessageLite::ParseFromString(), after its Clear(): the input has to end
\* where the message does.
Parse(w) ==
  _InternalParse[[status |-> "ok", rest |-> w, mutable |-> FALSE, msg |-> Empty]]
-----------------------------------------------------------------------------
(* Serialising and merging. *)

WriteField(f) ==
  WriteVarint[f.tag] \o
    CASE f.tag % 8 = 0 -> WriteVarint[f.varint]
      [] f.tag % 8 = 2 -> WriteVarint[Len(f.bytes)] \o f.bytes
      [] OTHER -> f.bytes

TextField(t) == [tag |-> Tag(1, 2), varint |-> 0, bytes |-> t]

M_InternalSerialize(m) == IF m.text = <<>> THEN <<>> ELSE WriteField(TextField(m.text))
\* Text that is not valid is reported in the log and written all the same.
_InternalSerialize(m) ==
  (IF m.text = <<>> THEN <<>> ELSE WriteField(TextField(m.text)))
    \o FlattenSeq([i \in DOMAIN m.unknown |-> WriteField(m.unknown[i])])

\* VarintSize32, VarintSize64: the bytes an unsigned number takes.
NumberSize[n \in Nat] == IF n < 128 THEN 1 ELSE 1 + NumberSize[n \div 128]

FieldSize(f) ==
  NumberSize[f.tag] +
    CASE f.tag % 8 = 0 -> NumberSize[f.varint]
      [] f.tag % 8 = 2 -> NumberSize[Len(f.bytes)] + Len(f.bytes)
      [] OTHER -> Len(f.bytes)

FieldsSize[fs \in Seq(Field)] ==
  IF fs = <<>> THEN 0 ELSE FieldsSize[Front(fs)] + FieldSize(Last(fs))

ByteSizeLong(m) ==
  (IF m.text = <<>> THEN 0 ELSE 1 + NumberSize[Len(m.text)] + Len(m.text))
    + FieldsSize[m.unknown]

M_MergeFrom(to, from) ==
  [text |-> from.text, unknown |-> to.unknown \o from.unknown]
\* An empty text says nothing.
MergeFrom(to, from) ==
  [text |-> IF from.text = <<>> THEN to.text ELSE from.text,
   unknown |-> to.unknown \o from.unknown]
-----------------------------------------------------------------------------
(* What the wire format says, and what the code makes of it. *)

IsVarint(b, n, max) ==
  /\ Len(b) \in 1..max /\ Last(b) < 128
  /\ \A i \in 1..(Len(b) - 1) : b[i] >= 128
  /\ ReadVarint[b] = n

\* The bytes w, all of them, are the field f: its tag, then a varint, eight or
\* four bytes, or a length and that many bytes.
Encodes(w, f) ==
  /\ f.tag >= 8
  /\ \E k \in DOMAIN w :
       LET p == SubSeq(w, k + 1, Len(w))
       IN  /\ IsVarint(SubSeq(w, 1, k), f.tag, 5)
           /\ \/ f.tag % 8 = 0 /\ IsVarint(p, f.varint, 10) /\ f.bytes = <<>>
              \/ f.tag % 8 = 1 /\ f.varint = 0 /\ f.bytes = p /\ Len(p) = 8
              \/ /\ f.tag % 8 = 2 /\ f.varint = 0
                 /\ \E j \in DOMAIN p :
                      /\ IsVarint(SubSeq(p, 1, j), Len(f.bytes), 5)
                      /\ f.bytes = SubSeq(p, j + 1, Len(p))
              \/ f.tag % 8 = 5 /\ f.varint = 0 /\ f.bytes = p /\ Len(p) = 4

\* The fields made of parts of w: no others can be what w encodes.
Readings(w) ==
  [tag : {Varint(w, k) : k \in DOMAIN w},
   varint : {0} \cup {ReadVarint[SubSeq(w, k, Len(w))] : k \in DOMAIN w},
   bytes : {SubSeq(w, k, Len(w)) : k \in 1..(Len(w) + 1)}]

\* A protobuf message is smaller than this: INT_MAX - kSlopBytes.
MaxSize == 2147483631

ASSUME WireAssumption ==
  /\ Samples \subseteq [wire : Seq(Nat), field : Field]
  /\ \A s \in Samples : Encodes(s.wire, s.field)
  /\ Broken \subseteq Seq(Nat)
  /\ \A e \in Broken :
       /\ e # <<>> /\ Varint(e, VarintSize(e, 5)) % 8 # 3
       /\ \A n \in DOMAIN e :
            LET w == SubSeq(e, 1, n) IN \A f \in Readings(w) : ~Encodes(w, f)
  /\ Texts \subseteq Seq(Nat) /\ \A t \in Texts : Len(t) < MaxSize
  /\ Inputs \subseteq Seq(Nat)

\* Up to three fields, one after the other.
FieldSeqs == BoundedSeq(Samples, 3)

Wire(fs) == FlattenSeq([i \in DOMAIN fs |-> fs[i].wire])

IsTextSample(s) == s.field.tag = 10

\* What a sequence of fields means: the last text counts, also an empty one,
\* and everything else is kept in its order.
Meaning(fs) ==
  LET texts == {i \in DOMAIN fs : IsTextSample(fs[i])}
  IN  [text |-> IF texts = {} THEN <<>> ELSE fs[Max(texts)].field.bytes,
       unknown |-> FlattenSeq([i \in DOMAIN fs |->
                     IF i \in texts THEN <<>> ELSE <<fs[i].field>>])]

\* _InternalParse accepts every sequence of fields whose texts are valid, in any
\* order, with repeated and unknown fields and padded varints, and reads from it
\* what it means.  It accepts none that goes on with something broken.
ParsesFields ==
  \A fs \in FieldSeqs :
    /\ LET r == Parse(Wire(fs))
           valid == \A i \in DOMAIN fs :
                      IsTextSample(fs[i]) => IsValidUTF8(fs[i].field.bytes)
       IN  IF valid THEN r.status = "ok" /\ r.msg = Meaning(fs)
                    ELSE r.status = "failure"
    /\ \A e \in Broken : Parse(Wire(fs) \o e).status # "ok"

\* What the program can have in a message: what it read, and what it set.
Messages ==
  {Empty} \cup {Parse(w).msg : w \in {v \in Inputs : Parse(v).status = "ok"}}
    \cup {[text |-> t, unknown |-> <<s.field>>] :
            t \in Texts, s \in {x \in Samples : ~IsTextSample(x)}}
    \cup {[text |-> t, unknown |-> <<>>] : t \in Texts}

\* _InternalSerialize writes as many bytes as ByteSizeLong says, the size its
\* buffer has, and the peer reads the same message from them, fields it does
\* not know included; a text that is not valid is written and the peer then
\* refuses the message.
RoundTrip ==
  \A m \in Messages :
    LET w == _InternalSerialize(m)
        r == Parse(w)
    IN  /\ Len(w) = ByteSizeLong(m)
        /\ IF IsValidUTF8(m.text) THEN r.status = "ok" /\ r.msg = m
                                  ELSE r.status = "failure"

\* MergeFrom does what reading the two messages' bytes one after the other
\* does: bytes appended to a message's bytes merge into it.
MergeIsConcatenation ==
  \A v \in Inputs, m \in Messages :
    Parse(v).status = "ok" /\ IsValidUTF8(m.text) =>
      Parse(v \o _InternalSerialize(m)).msg = MergeFrom(Parse(v).msg, m)
=============================================================================
