---------------------------- MODULE HelloMessage ----------------------------
(***************************************************************************)
(* HelloRequest of include/helloworld.pb.h and src/helloworld.pb.cc as an  *)
(* object in memory: who owns the string behind name_ while messages are   *)
(* created on the heap and on arenas, copied, moved, swapped, merged,      *)
(* parsed and destroyed, and strings go to and fro between messages and    *)
(* their users.  HelloReply has the same code with the field message_.     *)
(*                                                                         *)
(* name_ is a pointer to a string or to the shared empty string, Default.  *)
(* What the generated code calls of protobuf (ArenaStringPtr, Arena,       *)
(* InternalMetadata, GenericSwap) is external.  An operator here takes the *)
(* memory M and gives the memory after the call.                           *)
(***************************************************************************)
EXTENDS HelloWire

CONSTANTS
  Objs,        \* addresses of messages
  Arenas,
  Cells,       \* addresses of strings, a bound
  Names,       \* texts users set
  Wires,       \* byte strings that messages are parsed from
  MaxUnknown,  \* bound: unknown fields of a message
  Heap,        \* no arena
  Default,     \* the shared empty string
  None

Owner == {Heap} \cup Arenas
Message == [home : Owner, arena : Owner, name : Cells \cup {Default},
            unknown : Seq(Field)]
String == [by : Owner \cup {None}, val : Seq(Nat)]

ASSUME HelloAssumption ==
  /\ MaxUnknown \in Nat
  /\ Heap \notin Arenas /\ Default \notin Cells
  /\ None \notin Cells /\ None \notin Owner /\ None \notin Message
  /\ Names \subseteq Seq(Nat)

\* The wires are byte strings with unknown fields within the bound.
ASSUME WiresAssumption ==
  /\ Wires \subseteq Seq(Nat)
  /\ \A w \in Wires : Len(Parse(w).msg.unknown) <= MaxUnknown

VARIABLE
  mem   \* msg:  per message: where it lives (home), the arena its metadata
        \*       names, name_ and its unknown fields; None if it does not exist
        \* str:  per string: who destroys it (by: None if it does not exist,
        \*       Heap: whoever owns the pointer, or an arena), and its text
        \* held: the strings that users own

NoString == [by |-> None, val |-> <<>>]

Init == mem = [msg |-> [o \in Objs |-> None],
               str |-> [c \in Cells |-> NoString],
               held |-> {}]

Live(o) == mem.msg[o] # None

\* _internal_name()
Name(M, o) ==
  IF M.msg[o].name = Default THEN <<>> ELSE M.str[M.msg[o].name].val

Value(M, o) == [text |-> Name(M, o), unknown |-> M.msg[o].unknown]
-----------------------------------------------------------------------------
(* ArenaStringPtr and Arena. *)

FreeCells(M) == {c \in Cells : M.str[c].by = None}
Fresh(M) == CHOOSE c \in FreeCells(M) : TRUE

\* Arena::Create<std::string>(arena, v), at Fresh(M).
Create(M, arena, v) == [M EXCEPT !.str[Fresh(M)] = [by |-> arena, val |-> v]]

Destroy(M, c) == IF c = Default THEN M ELSE [M EXCEPT !.str[c] = NoString]

\* Set() and Mutable(), with the text assigned.
Set(M, o, v) ==
  IF M.msg[o].name = Default
    THEN [Create(M, M.msg[o].arena, v) EXCEPT !.msg[o].name = Fresh(M)]
    ELSE [M EXCEPT !.str[M.msg[o].name].val = v]

\* ClearToEmpty() keeps the string for the next use.
ClearToEmpty(M, o) == IF M.msg[o].name = Default THEN M ELSE Set(M, o, <<>>)

M_Release(M, o) ==
  LET c == M.msg[o].name IN
  IF c = Default THEN M
  ELSE [M EXCEPT !.held = @ \cup {c}, !.msg[o].name = Default]
\* Release(): a string of an arena cannot be handed out, its text can.
Release(M, o) ==
  LET c == M.msg[o].name IN
  CASE c = Default -> M
    [] c # Default /\ M.msg[o].arena = Heap ->
         [M EXCEPT !.held = @ \cup {c}, !.msg[o].name = Default]
    [] OTHER ->
         [Create(M, Heap, M.str[c].val) EXCEPT
            !.str[c].val = <<>>, !.held = @ \cup {Fresh(M)}, !.msg[o].name = Default]

\* SetAllocated(), of a string the user owns or of no string.
SetAllocated(M, o, c) ==
  LET a == M.msg[o].arena
      D == IF a = Heap THEN Destroy(M, M.msg[o].name) ELSE M
  IN  IF c = None THEN [D EXCEPT !.msg[o].name = Default]
      ELSE [D EXCEPT !.msg[o].name = c, !.held = @ \ {c}, !.str[c].by = a]
-----------------------------------------------------------------------------
(* The generated code. *)

Construct(M, o, home) ==
  [M EXCEPT !.msg[o] = [home |-> home, arena |-> home, name |-> Default,
                        unknown |-> <<>>]]

\* ~HelloRequest() and SharedDtor()
Destruct(M, o) ==
  LET D == IF M.msg[o].arena # Heap THEN M ELSE Destroy(M, M.msg[o].name)
  IN  [D EXCEPT !.msg[o] = None]

M_ClearKeepsText(M, o) == [M EXCEPT !.msg[o].unknown = <<>>]
M_ClearKeepsUnknown(M, o) == ClearToEmpty(M, o)
Clear(M, o) == [ClearToEmpty(M, o) EXCEPT !.msg[o].unknown = <<>>]

M_Merge(M, to, from) ==
  [Set(M, to, Name(M, from)) EXCEPT !.msg[to].unknown = @ \o M.msg[from].unknown]
Merge(M, to, from) ==
  LET S == IF Name(M, from) = <<>> THEN M ELSE Set(M, to, Name(M, from))
  IN  [S EXCEPT !.msg[to].unknown = @ \o M.msg[from].unknown]

Copy(M, to, from) == IF to = from THEN M ELSE Merge(Clear(M, to), to, from)

\* The two metadata hold the arenas too.
InternalSwap(M, a, b) ==
  [M EXCEPT !.msg[a] = [M.msg[b] EXCEPT !.home = M.msg[a].home],
            !.msg[b] = [M.msg[a] EXCEPT !.home = M.msg[b].home]]

\* GenericSwap(): rhs is a message on an arena.  A copy of the other one is made
\* on that arena and takes its place.
GenericSwap(M, x, y) ==
  LET rhs == IF M.msg[y].arena # Heap THEN y ELSE x
      lhs == IF M.msg[y].arena # Heap THEN x ELSE y
      v == Value(M, lhs)
      T == IF v.text = <<>> THEN M ELSE Create(M, M.msg[rhs].arena, v.text)
  IN  [Copy(T, lhs, rhs) EXCEPT
         !.msg[rhs].name = IF v.text = <<>> THEN Default ELSE Fresh(M),
         !.msg[rhs].unknown = v.unknown]

M_SameArena(M, a, b) == TRUE
\* GetOwningArena() == other->GetOwningArena()
SameArena(M, a, b) == M.msg[a].arena = M.msg[b].arena

Exchange(M, a, b) ==
  CASE a = b -> M
    [] a # b /\ SameArena(M, a, b) -> InternalSwap(M, a, b)
    [] OTHER -> GenericSwap(M, a, b)

\* operator=(HelloRequest&&)
Move(M, to, from) ==
  IF to # from /\ SameArena(M, to, from) THEN InternalSwap(M, to, from)
  ELSE Copy(M, to, from)
-----------------------------------------------------------------------------
(* What users do.  Every call needs at most two new strings. *)

Room == \E c, d \in FreeCells(mem) : c # d

New(o, home) == ~Live(o) /\ mem' = Construct(mem, o, home)

CopyConstruct(o, from) ==
  ~Live(o) /\ Live(from) /\ Room /\ mem' = Merge(Construct(mem, o, Heap), o, from)

MoveConstruct(o, from) ==
  ~Live(o) /\ Live(from) /\ Room /\ mem' = Move(Construct(mem, o, Heap), o, from)

\* A message on an arena is not deleted.
Delete(o) == Live(o) /\ mem.msg[o].home = Heap /\ mem' = Destruct(mem, o)

set_name(o, v) == Live(o) /\ Room /\ mem' = Set(mem, o, v)

clear_name(o) == Live(o) /\ mem' = ClearToEmpty(mem, o)

release_name(o) == Live(o) /\ Room /\ mem' = Release(mem, o)

set_allocated_name(o, c) == Live(o) /\ mem' = SetAllocated(mem, o, c)

ClearMessage(o) == Live(o) /\ mem' = Clear(mem, o)

\* GOOGLE_DCHECK_NE(&from, this)
MergeMessage(to, from) ==
  /\ Live(to) /\ Live(from) /\ to # from /\ Room
  /\ Len(mem.msg[to].unknown \o mem.msg[from].unknown) <= MaxUnknown
  /\ mem' = Merge(mem, to, from)

CopyMessage(to, from) ==
  Live(to) /\ Live(from) /\ Room /\ mem' = Copy(mem, to, from)

MoveMessage(to, from) ==
  Live(to) /\ Live(from) /\ Room /\ mem' = Move(mem, to, from)

Swap(a, b) == Live(a) /\ Live(b) /\ Room /\ mem' = Exchange(mem, a, b)

UnsafeArenaSwap(a, b) ==
  /\ Live(a) /\ Live(b) /\ SameArena(mem, a, b)
  /\ mem' = IF a = b THEN mem ELSE InternalSwap(mem, a, b)

\* Clear() and _InternalParse(), which calls mutable_name() for a name.
ParseFromString(o, w) ==
  /\ Live(o) /\ Room
  /\ LET r == Parse(w)
         C == Clear(mem, o)
         S == IF r.mutable THEN Set(C, o, r.msg.text) ELSE C
     IN  mem' = [S EXCEPT !.msg[o].unknown = r.msg.unknown]

\* The user deletes a string that is its own.
DeleteString(c) ==
  mem' = [Destroy(mem, c) EXCEPT !.held = @ \ {c}]

\* ~Arena(): its messages need no destructor.
DeleteArena(a) ==
  mem' = [mem EXCEPT
            !.msg = [o \in Objs |-> IF Live(o) /\ @[o].home = a THEN None ELSE @[o]],
            !.str = [c \in Cells |-> IF @[c].by = a THEN NoString ELSE @[c]]]

Next ==
  \/ \E o \in Objs, a \in Arenas \cup {Heap} : New(o, a)
  \/ \E o, p \in Objs : CopyConstruct(o, p)
  \/ \E o, p \in Objs : MoveConstruct(o, p)
  \/ \E o \in Objs : Delete(o)
  \/ \E o \in Objs, v \in Names : set_name(o, v)
  \/ \E o \in Objs : clear_name(o)
  \/ \E o \in Objs : release_name(o)
  \/ \E o \in Objs, c \in mem.held \cup {None} : set_allocated_name(o, c)
  \/ \E o \in Objs : ClearMessage(o)
  \/ \E o, p \in Objs : MergeMessage(o, p)
  \/ \E o, p \in Objs : CopyMessage(o, p)
  \/ \E o, p \in Objs : MoveMessage(o, p)
  \/ \E o, p \in Objs : Swap(o, p)
  \/ \E o, p \in Objs : UnsafeArenaSwap(o, p)
  \/ \E o \in Objs, w \in Wires : ParseFromString(o, w)
  \/ \E c \in mem.held : DeleteString(c)
  \/ \E a \in Arenas : DeleteArena(a)

Spec == Init /\ [][Next]_mem
-----------------------------------------------------------------------------
Memory == [msg : [Objs -> Message \cup {None}], str : [Cells -> String],
           held : SUBSET Cells]

TypeOK ==
  /\ mem \in Memory
  /\ \A o \in Objs : Live(o) => Len(mem.msg[o].unknown) <= MaxUnknown

\* The messages whose name_ points to a string.
Pointing(c) == {o \in Objs : Live(o) /\ mem.msg[o].name = c}

\* A string on the heap has exactly one owner, a message or a user, so it is
\* destroyed once and not lost; one that is gone has none; one that goes with
\* its arena is in no user's hands and in at most one message.
SoleOwner ==
  \A c \in Cells :
    LET users == Cardinality(mem.held \cap {c})
        n == Cardinality(Pointing(c))
    IN  CASE mem.str[c].by = None -> users + n = 0
          [] mem.str[c].by = Heap -> users + n = 1
          [] OTHER -> users = 0 /\ n <= 1

\* A message's string lives as long as the message: name_ never points into an
\* arena the message is not on, and the metadata always names the arena it is
\* on, by which ~HelloRequest() decides whether to free anything.
StaysHome ==
  \A o \in Objs : Live(o) =>
    /\ mem.msg[o].arena = mem.msg[o].home
    /\ mem.msg[o].name # Default => mem.str[mem.msg[o].name].by = mem.msg[o].home

V(o) == Value(mem, o)
Bystanders(S) == \A o \in Objs \ S : Live(o) => V(o)' = V(o)
Housed(h) == {o \in Objs : Live(o) /\ mem.msg[o].home = h}

\* Messages behave as values wherever they live: a swap exchanges them, a move
\* and a copy give the target what the source had, a copy leaves the source as
\* it was, a merge is the merge of what they say, strings released and given
\* carry the text along; and no call changes a message it is not given, an
\* arena's end those of another home.  (ParseReplaces says it of parsing.)
ValueSemantics ==
  [][\A a, b \in Objs :
       /\ Swap(a, b) => V(a)' = V(b) /\ V(b)' = V(a) /\ Bystanders({a, b})
       /\ UnsafeArenaSwap(a, b) => V(a)' = V(b) /\ V(b)' = V(a) /\ Bystanders({a, b})
       /\ MoveMessage(a, b) => V(a)' = V(b) /\ Bystanders({a, b})
       /\ MoveConstruct(a, b) => V(a)' = V(b) /\ Bystanders({a, b})
       /\ CopyMessage(a, b) => V(a)' = V(b) /\ Bystanders({a})
       /\ CopyConstruct(a, b) => V(a)' = V(b) /\ Bystanders({a})
       /\ MergeMessage(a, b) => V(a)' = MergeFrom(V(a), V(b)) /\ Bystanders({a})
       /\ release_name(a) =>
            /\ V(a)' = [V(a) EXCEPT !.text = <<>>] /\ Bystanders({a})
            /\ \A c \in mem'.held \ mem.held : mem'.str[c].val = V(a).text
       /\ \A c \in mem.held : set_allocated_name(a, c) =>
            V(a)' = [V(a) EXCEPT !.text = mem.str[c].val] /\ Bystanders({a})
       /\ set_allocated_name(a, None) \/ clear_name(a) =>
            V(a)' = [V(a) EXCEPT !.text = <<>>] /\ Bystanders({a})
       /\ \A v \in Names : set_name(a, v) =>
            V(a)' = [V(a) EXCEPT !.text = v] /\ Bystanders({a})
       /\ ClearMessage(a) =>
            V(a)' = [text |-> <<>>, unknown |-> <<>>] /\ Bystanders({a})
       /\ \A h \in Arenas \cup {Heap} : New(a, h) =>
            V(a)' = [text |-> <<>>, unknown |-> <<>>] /\ Bystanders({a})
       /\ Delete(a) => Bystanders({a})
       /\ \A h \in Arenas : DeleteArena(h) => Bystanders(Housed(h))
       /\ \A c \in mem.held : DeleteString(c) => Bystanders({})
    ]_mem

\* A message that is used again says what it was parsed from, whatever it and
\* the string it keeps held before.
ParseReplaces ==
  [][\A o \in Objs, w \in Wires :
       ParseFromString(o, w) /\ Parse(w).status = "ok" =>
         V(o)' = Parse(w).msg /\ Bystanders({o})
    ]_mem
-----------------------------------------------------------------------------
(* What HelloWire says of bytes does not depend on the state.  It is       *)
(* evaluated in the states in which nothing exists.                        *)

Unused == mem.msg = [o \in Objs |-> None] /\ FreeCells(mem) = Cells

\* _InternalParse reads from any fields what they mean: ParsesFields.
WireParses == Unused => ParsesFields

\* _InternalSerialize, ByteSizeLong and _InternalParse agree: RoundTrip.
WireRoundTrip == Unused => RoundTrip

\* MergeFrom is concatenation on the wire: MergeIsConcatenation.
WireMerges == Unused => MergeIsConcatenation
=============================================================================
