------------------------- MODULE HelloMessageProofs -------------------------
(***************************************************************************)
(* Proofs about HelloMessage for any number of messages, arenas, strings   *)
(* and texts: who owns a string, and that messages behave as values.       *)
(*                                                                         *)
(* There is a lemma for each operation of the generated code, which says   *)
(* of any memory M in which ownership is in order that it is after the     *)
(* call too, what the message then says, and that no other message says    *)
(* anything else than before.                                              *)
(***************************************************************************)
EXTENDS HelloMessage, HelloWireProofs

Exists(M, o) == M.msg[o] # None

\* Strings are where their messages are.
AtHome(M) ==
  \A o \in Objs : Exists(M, o) =>
    /\ M.msg[o].arena = M.msg[o].home
    /\ M.msg[o].name # Default => M.str[M.msg[o].name].by = M.msg[o].home

\* No string is the name of two messages.
Unshared(M) ==
  \A o, p \in Objs :
    Exists(M, o) /\ Exists(M, p) /\ M.msg[o].name = M.msg[p].name
      /\ M.msg[o].name # Default => o = p

\* A user's string exists, on the heap, and is no message's name.
HeldApart(M) ==
  \A c \in M.held :
    /\ M.str[c].by = Heap
    /\ \A o \in Objs : Exists(M, o) => M.msg[o].name # c

\* A string on the heap is a user's or a message's.
NoneLost(M) ==
  \A c \in Cells :
    M.str[c].by = Heap =>
      c \in M.held \/ \E o \in Objs : Exists(M, o) /\ M.msg[o].name = c

Bounded(M) ==
  \A o \in Objs : Exists(M, o) => Len(M.msg[o].unknown) <= MaxUnknown

\* The inductive invariant, as a predicate of a memory and of mem.
Good(M) ==
  /\ M \in Memory
  /\ AtHome(M)
  /\ Unshared(M)
  /\ HeldApart(M)
  /\ NoneLost(M)
  /\ Bounded(M)

Ownership == Good(mem)

\* What a message that exists and is not in S says is what it said before.
Same(M, N, S) ==
  \A p \in Objs \ S : Exists(M, p) => Exists(N, p) /\ Value(N, p) = Value(M, p)

\* Of what exists, a call for o touches o and its string only, and it leaves the
\* string where it is; o may get a new one.
Local(M, N, o) ==
  /\ N.held = M.held
  /\ N.msg[o].home = M.msg[o].home
  /\ \A p \in Objs \ {o} : N.msg[p] = M.msg[p]
  /\ N.msg[o].name # M.msg[o].name => N.msg[o].name \in FreeCells(M)
  /\ \A d \in Cells : M.str[d].by # None =>
       /\ N.str[d].by = M.str[d].by
       /\ d # M.msg[o].name => N.str[d] = M.str[d]
-----------------------------------------------------------------------------
\* Fresh() finds an address when there is one.
LEMMA FreshIsFree ==
  ASSUME NEW M, FreeCells(M) # {}
  PROVE  Fresh(M) \in Cells /\ M.str[Fresh(M)].by = None
BY DEF Fresh, FreeCells

\* The parts of a memory and of a message in it.
LEMMA Parts ==
  ASSUME NEW M \in Memory
  PROVE  /\ M.msg \in [Objs -> Message \cup {None}]
         /\ M.str \in [Cells -> String]
         /\ M.held \subseteq Cells
         /\ \A o \in Objs : Exists(M, o) => M.msg[o] \in Message
BY DEF Memory, Exists

\* Where a message's string is: never at a free address.
LEMMA NameFacts ==
  ASSUME NEW M, Good(M), NEW o \in Objs, Exists(M, o)
  PROVE  /\ M.msg[o] \in Message
         /\ M.msg[o].home \in Owner /\ M.msg[o].arena = M.msg[o].home
         /\ M.msg[o].unknown \in Seq(Field)
         /\ M.msg[o].name # Default =>
              /\ M.msg[o].name \in Cells
              /\ M.str[M.msg[o].name] \in String
              /\ M.str[M.msg[o].name].by = M.msg[o].home
              /\ M.str[M.msg[o].name].by # None
         /\ Name(M, o) \in Seq(Nat)
<1>1. M \in Memory /\ M.msg[o] \in Message
  BY Parts DEF Good
<1>2. M.msg[o].home \in Owner /\ M.msg[o].arena = M.msg[o].home
  BY <1>1 DEF Good, AtHome, Message
<1>3. M.msg[o].unknown \in Seq(Field) /\ M.msg[o].name \in Cells \cup {Default}
  BY <1>1 DEF Message
<1>4. ASSUME M.msg[o].name # Default
      PROVE  /\ M.msg[o].name \in Cells
             /\ M.str[M.msg[o].name] \in String
             /\ M.str[M.msg[o].name].by = M.msg[o].home
             /\ M.str[M.msg[o].name].by # None
  <2>1. M.msg[o].name \in Cells
    BY <1>3, <1>4
  <2>2. M.str[M.msg[o].name] \in String
    BY <1>1, <2>1, Parts
  <2>3. M.str[M.msg[o].name].by = M.msg[o].home
    BY <1>4 DEF Good, AtHome
  <2>4. QED
    BY <1>2, <2>1, <2>2, <2>3, HelloAssumption
<1>5. Name(M, o) \in Seq(Nat)
  BY <1>4 DEF Name, String
<1>6. QED
  BY <1>1, <1>2, <1>3, <1>4, <1>5
-----------------------------------------------------------------------------
\* A call that leaves every string's owner and every name_ alone keeps ownership
\* in order.
LEMMA SameOwners ==
  ASSUME NEW M, Good(M), NEW N, N \in Memory, N.held = M.held,
         \A c \in Cells : N.str[c].by = M.str[c].by,
         \A p \in Objs : (Exists(N, p) <=> Exists(M, p)),
         \A p \in Objs : Exists(M, p) =>
           /\ N.msg[p].home = M.msg[p].home
           /\ N.msg[p].arena = M.msg[p].arena
           /\ N.msg[p].name = M.msg[p].name
           /\ Len(N.msg[p].unknown) <= MaxUnknown
  PROVE  Good(N)
<1>1. AtHome(N)
  BY NameFacts DEF AtHome
<1>2. Unshared(N)
  BY DEF Good, Unshared
<1>3. HeldApart(N)
  BY Parts DEF Good, HeldApart
<1>4. NoneLost(N)
  BY DEF Good, NoneLost
<1>5. Bounded(N)
  BY DEF Bounded
<1>6. QED
  BY <1>1, <1>2, <1>3, <1>4, <1>5 DEF Good

\* What Set() does to the memory.
LEMMA SetFacts ==
  ASSUME NEW M, Good(M), NEW o \in Objs, Exists(M, o), NEW v \in Seq(Nat),
         M.msg[o].name = Default => FreeCells(M) # {}
  PROVE  LET N == Set(M, o, v)
             c == IF M.msg[o].name = Default THEN Fresh(M) ELSE M.msg[o].name
         IN  /\ N \in Memory /\ N.held = M.held
             /\ c \in Cells
             /\ N.msg = [M.msg EXCEPT ![o] = [M.msg[o] EXCEPT !.name = c]]
             /\ N.str = [M.str EXCEPT ![c] = [by |-> M.msg[o].home, val |-> v]]
             /\ M.msg[o].name = Default => M.str[c].by = None
<1> DEFINE N == Set(M, o, v)
           c == IF M.msg[o].name = Default THEN Fresh(M) ELSE M.msg[o].name
<1>1. /\ M \in Memory /\ M.msg[o] \in Message
      /\ M.msg[o].home \in Owner /\ M.msg[o].arena = M.msg[o].home
  BY NameFacts DEF Good
<1>2. c \in Cells /\ (M.msg[o].name = Default => M.str[c].by = None)
  BY FreshIsFree, NameFacts
<1>3. M.str[c] \in String
  BY <1>1, <1>2, Parts
<1>4. N.held = M.held
  BY <1>1 DEF Set, Create, Memory
<1>5. N.msg = [M.msg EXCEPT ![o] = [M.msg[o] EXCEPT !.name = c]]
  <2>1. CASE M.msg[o].name = Default
    BY <1>1, <2>1 DEF Set, Create, Memory
  <2>2. CASE M.msg[o].name # Default
    <3>1. N.msg = M.msg
      BY <1>1, <2>2 DEF Set, Memory
    <3>2. [M.msg[o] EXCEPT !.name = c] = M.msg[o]
      BY <1>1, <2>2 DEF Message
    <3>3. QED
      BY <1>1, <3>1, <3>2, Parts
  <2>3. QED
    BY <2>1, <2>2
<1>6. N.str = [M.str EXCEPT ![c] = [by |-> M.msg[o].home, val |-> v]]
  <2>1. CASE M.msg[o].name = Default
    BY <1>1, <2>1 DEF Set, Create, Memory
  <2>2. CASE M.msg[o].name # Default
    <3>1. N.str = [M.str EXCEPT ![c] = [M.str[c] EXCEPT !.val = v]]
      BY <1>1, <2>2 DEF Set, Memory
    <3>2. M.str[c].by = M.msg[o].home
      BY <2>2, NameFacts
    <3>3. [M.str[c] EXCEPT !.val = v] = [by |-> M.msg[o].home, val |-> v]
      BY <1>3, <3>2, SMTT(40) DEF String
    <3>4. QED
      BY <3>1, <3>3
  <2>3. QED
    BY <2>1, <2>2
<1>7. N \in Memory
  <2>1. [M.msg[o] EXCEPT !.name = c] \in Message
    BY <1>1, <1>2 DEF Message
  <2>2. [by |-> M.msg[o].home, val |-> v] \in String
    BY <1>1 DEF String
  <2>3. N.msg \in [Objs -> Message \cup {None}] /\ N.str \in [Cells -> String]
    <3> HIDE DEF N, c
    <3>1. M.msg \in [Objs -> Message \cup {None}] /\ M.str \in [Cells -> String]
      BY <1>1, Parts
    <3>2. QED
      BY <1>5, <1>6, <2>1, <2>2, <3>1
  <2>4. N = [msg |-> N.msg, str |-> N.str, held |-> N.held]
    <3>1. CASE M.msg[o].name = Default
      BY <1>1, <3>1 DEF Set, Create, Memory
    <3>2. CASE M.msg[o].name # Default
      BY <1>1, <3>2 DEF Set, Memory
    <3>3. QED
      BY <3>1, <3>2
  <2>5. QED
    BY <1>1, <1>4, <2>3, <2>4, Parts DEF Memory
<1>8. QED
  BY <1>2, <1>4, <1>5, <1>6, <1>7

\* set_name() and mutable_name(): the message gets the text, in its own string.
LEMMA SetCorrect ==
  ASSUME NEW M, Good(M), NEW o \in Objs, Exists(M, o), NEW v \in Seq(Nat),
         M.msg[o].name = Default => FreeCells(M) # {}
  PROVE  LET N == Set(M, o, v)
         IN  /\ Good(N) /\ Exists(N, o) /\ Same(M, N, {o}) /\ Local(M, N, o)
             /\ Value(N, o) = [text |-> v, unknown |-> M.msg[o].unknown]
             /\ M.msg[o].name # Default => FreeCells(M) \subseteq FreeCells(N)
<1> DEFINE N == Set(M, o, v)
           c == IF M.msg[o].name = Default THEN Fresh(M) ELSE M.msg[o].name
<1>1. /\ N \in Memory /\ N.held = M.held
      /\ c \in Cells
      /\ N.msg = [M.msg EXCEPT ![o] = [M.msg[o] EXCEPT !.name = c]]
      /\ N.str = [M.str EXCEPT ![c] = [by |-> M.msg[o].home, val |-> v]]
      /\ M.msg[o].name = Default => M.str[c].by = None
  BY SetFacts, ZenonT(60)
<1>2. M.msg[o].name # Default => c = M.msg[o].name /\ M.str[c].by = M.msg[o].home
  BY NameFacts
<1>3. M \in Memory /\ M.msg[o] \in Message
  BY Parts DEF Good
<1>4. M.msg \in [Objs -> Message \cup {None}] /\ M.str \in [Cells -> String]
  BY <1>3, Parts
<1> HIDE DEF N, c
<1>5. /\ N.msg[o] \in Message /\ N.msg[o].name = c
      /\ N.msg[o].home = M.msg[o].home /\ N.msg[o].arena = M.msg[o].arena
      /\ N.msg[o].unknown = M.msg[o].unknown
      /\ N.str[c] = [by |-> M.msg[o].home, val |-> v]
  BY <1>1, <1>3, <1>4, ZenonT(60) DEF Message
<1>6. Exists(N, o)
  BY <1>5, HelloAssumption DEF Exists
<1>7. /\ \A p \in Objs : p # o => N.msg[p] = M.msg[p]
      /\ \A d \in Cells : d # c => N.str[d] = M.str[d]
  BY <1>1, <1>4
<1>8. \A p \in Objs : p # o /\ Exists(M, p) => M.msg[p].name # c
  <2> SUFFICES ASSUME NEW p \in Objs, p # o, Exists(M, p), M.msg[p].name = c
               PROVE  FALSE
    OBVIOUS
  <2>1. c # Default
    BY <1>1, HelloAssumption
  <2>2. M.str[c].by # None
    BY <2>1, NameFacts
  <2>3. M.msg[o].name = c
    BY <1>1, <1>2, <2>2
  <2>4. QED
    BY <2>1, <2>3 DEF Good, Unshared
<1>9. Good(N)
  <2>1. AtHome(N)
    <3> SUFFICES ASSUME NEW p \in Objs, Exists(N, p)
                 PROVE  /\ N.msg[p].arena = N.msg[p].home
                        /\ N.msg[p].name # Default =>
                             N.str[N.msg[p].name].by = N.msg[p].home
      BY DEF AtHome
    <3>1. CASE p = o
      BY <1>5, <3>1, NameFacts, SMTT(40)
    <3>2. CASE p # o
      <4>1. Exists(M, p) /\ N.msg[p] = M.msg[p]
        BY <1>7, <3>2 DEF Exists
      <4>2. QED
        BY <1>7, <1>8, <3>2, <4>1, NameFacts, SMTT(40)
    <3>3. QED
      BY <3>1, <3>2
  <2>2. Unshared(N)
    BY <1>5, <1>7, <1>8 DEF Good, Unshared, Exists
  <2>3. HeldApart(N)
    <3> SUFFICES ASSUME NEW d \in N.held
                 PROVE  /\ N.str[d].by = Heap
                        /\ \A p \in Objs : Exists(N, p) => N.msg[p].name # d
      BY DEF HeldApart
    <3>1. d \in Cells /\ M.str[d].by = Heap
      BY <1>1, <1>3, Parts DEF Good, HeldApart
    <3>2. \A p \in Objs : Exists(M, p) => M.msg[p].name # d
      BY <1>1 DEF Good, HeldApart
    <3>3. d # c
      BY <1>1, <1>2, <3>1, <3>2, HelloAssumption DEF Owner
    <3>4. QED
      BY <1>5, <1>7, <3>1, <3>2, <3>3 DEF Exists
  <2>4. NoneLost(N)
    <3> SUFFICES ASSUME NEW d \in Cells, N.str[d].by = Heap, d \notin N.held
                 PROVE  \E p \in Objs : Exists(N, p) /\ N.msg[p].name = d
      BY DEF NoneLost
    <3>1. CASE d = c
      BY <1>5, <1>6, <3>1
    <3>2. CASE d # c
      <4>1. PICK p \in Objs : Exists(M, p) /\ M.msg[p].name = d
        BY <1>1, <1>7, <3>2 DEF Good, NoneLost
      <4>2. p # o
        BY <1>2, <3>2, <4>1, HelloAssumption
      <4>3. QED
        BY <1>7, <4>1, <4>2 DEF Exists
    <3>3. QED
      BY <3>1, <3>2
  <2>5. Bounded(N)
    BY <1>5, <1>7 DEF Good, Bounded, Exists
  <2>6. QED
    BY <1>1, <2>1, <2>2, <2>3, <2>4, <2>5 DEF Good
<1>10. Same(M, N, {o})
  <2> SUFFICES ASSUME NEW p \in Objs, p # o, Exists(M, p)
               PROVE  Exists(N, p) /\ Value(N, p) = Value(M, p)
    BY DEF Same
  <2>1. N.msg[p] = M.msg[p] /\ M.msg[p].name # c
    BY <1>7, <1>8
  <2>2. Name(N, p) = Name(M, p)
    BY <1>7, <2>1, NameFacts DEF Name
  <2>3. QED
    BY <2>1, <2>2 DEF Exists, Value
<1>11. Value(N, o) = [text |-> v, unknown |-> M.msg[o].unknown]
  BY <1>1, <1>5, HelloAssumption DEF Value, Name
<1>12. Local(M, N, o)
  <2>1. \A d \in Cells : M.str[d].by # None =>
          N.str[d].by = M.str[d].by /\ (d # M.msg[o].name => N.str[d] = M.str[d])
    BY <1>1, <1>2, <1>5, <1>7
  <2>2. N.msg[o].name # M.msg[o].name => N.msg[o].name \in FreeCells(M)
    BY <1>1, <1>2, <1>5 DEF FreeCells
  <2>3. QED
    BY <1>1, <1>5, <1>7, <2>1, <2>2 DEF Local
<1>13. M.msg[o].name # Default => FreeCells(M) \subseteq FreeCells(N)
  BY <1>2, <1>7, NameFacts DEF FreeCells
<1>14. QED
  BY <1>6, <1>9, <1>10, <1>11, <1>12, <1>13 DEF N

\* The unknown fields of a message are its own.
LEMMA UnknownCorrect ==
  ASSUME NEW M, Good(M), NEW o \in Objs, Exists(M, o),
         NEW u \in Seq(Field), Len(u) <= MaxUnknown
  PROVE  LET N == [M EXCEPT !.msg[o].unknown = u]
         IN  /\ Good(N) /\ Exists(N, o) /\ Same(M, N, {o}) /\ Local(M, N, o)
             /\ Value(N, o) = [text |-> Name(M, o), unknown |-> u]
             /\ N.str = M.str /\ N.msg[o].name = M.msg[o].name
<1> DEFINE N == [M EXCEPT !.msg[o].unknown = u]
<1>1. M \in Memory /\ M.msg[o] \in Message
  BY Parts DEF Good
<1>2. M.msg \in [Objs -> Message \cup {None}] /\ M.str \in [Cells -> String]
  BY <1>1, Parts
<1>3. /\ N.str = M.str /\ N.held = M.held
      /\ N.msg = [M.msg EXCEPT ![o] = [M.msg[o] EXCEPT !.unknown = u]]
      /\ N = [msg |-> N.msg, str |-> N.str, held |-> N.held]
  BY <1>1 DEF Memory
<1> HIDE DEF N
<1>4. /\ N.msg[o] \in Message /\ N.msg[o].name = M.msg[o].name
      /\ N.msg[o].home = M.msg[o].home /\ N.msg[o].arena = M.msg[o].arena
      /\ N.msg[o].unknown = u
  BY <1>1, <1>2, <1>3 DEF Message
<1>5. Exists(N, o)
  BY <1>4, HelloAssumption DEF Exists
<1>6. \A p \in Objs : p # o => N.msg[p] = M.msg[p]
  BY <1>2, <1>3
<1>7. N \in Memory
  <2>1. N.msg \in [Objs -> Message \cup {None}]
    BY <1>2, <1>3, <1>4, <1>6
  <2>2. QED
    BY <1>1, <1>2, <1>3, <2>1, Parts DEF Memory
<1>8. \A p \in Objs : (Exists(N, p) <=> Exists(M, p))
  BY <1>5, <1>6 DEF Exists
<1>9. \A p \in Objs : Exists(M, p) =>
           /\ N.msg[p].home = M.msg[p].home
           /\ N.msg[p].arena = M.msg[p].arena
           /\ N.msg[p].name = M.msg[p].name
           /\ Len(N.msg[p].unknown) <= MaxUnknown
  BY <1>4, <1>6 DEF Good, Bounded
<1>10. Good(N)
  BY <1>3, <1>7, <1>8, <1>9, SameOwners
<1>11. \A p \in Objs : Exists(M, p) => Name(N, p) = Name(M, p)
  BY <1>3, <1>9 DEF Name
<1>12. Same(M, N, {o})
  BY <1>6, <1>8, <1>11 DEF Same, Value
<1>13. Value(N, o) = [text |-> Name(M, o), unknown |-> u]
  BY <1>4, <1>11 DEF Value
<1>14. Local(M, N, o)
  BY <1>3, <1>4, <1>6 DEF Local
<1>15. QED
  BY <1>3, <1>4, <1>5, <1>10, <1>12, <1>13, <1>14 DEF N

\* Two calls for o, one after the other.
LEMMA LocalTwice ==
  ASSUME NEW M, NEW N, NEW P, NEW o \in Objs, Local(M, N, o), Local(N, P, o)
  PROVE  Local(M, P, o)
<1>1. P.msg[o].name # M.msg[o].name => P.msg[o].name \in FreeCells(M)
  BY DEF Local, FreeCells
<1>2. ASSUME NEW d \in Cells, M.str[d].by # None
      PROVE  /\ P.str[d].by = M.str[d].by
             /\ d # M.msg[o].name => P.str[d] = M.str[d]
  BY <1>2 DEF Local, FreeCells
<1>3. QED
  BY <1>1, <1>2 DEF Local

\* Two calls, one after the other, that leave alone what messages not in S say.
LEMMA SameTwice ==
  ASSUME NEW M, NEW N, NEW P, NEW S, Same(M, N, S), Same(N, P, S)
  PROVE  Same(M, P, S)
BY DEF Same

\* clear_name(): the text is empty, the string is kept.
LEMMA ClearToEmptyCorrect ==
  ASSUME NEW M, Good(M), NEW o \in Objs, Exists(M, o)
  PROVE  LET N == ClearToEmpty(M, o)
         IN  /\ Good(N) /\ Exists(N, o) /\ Same(M, N, {o}) /\ Local(M, N, o)
             /\ Value(N, o) = [text |-> << >>, unknown |-> M.msg[o].unknown]
             /\ FreeCells(M) \subseteq FreeCells(N)
<1>1. CASE M.msg[o].name = Default
  <2>1. ClearToEmpty(M, o) = M
    BY <1>1 DEF ClearToEmpty
  <2>2. Value(M, o) = [text |-> << >>, unknown |-> M.msg[o].unknown]
    BY <1>1 DEF Value, Name
  <2>3. QED
    BY <2>1, <2>2 DEF Same, Local
<1>2. CASE M.msg[o].name # Default
  <2> DEFINE N == Set(M, o, << >>)
  <2>1. ClearToEmpty(M, o) = N
    BY <1>2 DEF ClearToEmpty
  <2>2. << >> \in Seq(Nat)
    OBVIOUS
  <2>3. /\ Good(N) /\ Exists(N, o) /\ Same(M, N, {o}) /\ Local(M, N, o)
        /\ Value(N, o) = [text |-> << >>, unknown |-> M.msg[o].unknown]
        /\ M.msg[o].name # Default => FreeCells(M) \subseteq FreeCells(N)
    BY <1>2, <2>2, SetCorrect
  <2>4. QED
    BY <1>2, <2>1, <2>3
<1>3. QED
  BY <1>1, <1>2

\* Clear() leaves an empty message.
LEMMA ClearCorrect ==
  ASSUME NEW M, Good(M), NEW o \in Objs, Exists(M, o)
  PROVE  LET N == Clear(M, o)
         IN  /\ Good(N) /\ Exists(N, o) /\ Same(M, N, {o}) /\ Local(M, N, o)
             /\ Value(N, o) = [text |-> << >>, unknown |-> << >>]
             /\ FreeCells(M) \subseteq FreeCells(N)
<1> DEFINE C == ClearToEmpty(M, o)
           N == [C EXCEPT !.msg[o].unknown = << >>]
<1>1. /\ Good(C) /\ Exists(C, o) /\ Same(M, C, {o}) /\ Local(M, C, o)
      /\ Value(C, o) = [text |-> << >>, unknown |-> M.msg[o].unknown]
      /\ FreeCells(M) \subseteq FreeCells(C)
  BY ClearToEmptyCorrect
<1>2. << >> \in Seq(Field) /\ Len(<< >>) <= MaxUnknown
  BY HelloAssumption
<1>3. Clear(M, o) = N
  BY DEF Clear
<1> HIDE DEF C
<1>4. /\ Good(N) /\ Exists(N, o) /\ Same(C, N, {o}) /\ Local(C, N, o)
      /\ Value(N, o) = [text |-> Name(C, o), unknown |-> << >>]
      /\ N.str = C.str
  BY <1>1, <1>2, UnknownCorrect
<1> HIDE DEF N
<1>5. Name(C, o) = << >>
  BY <1>1 DEF Value
<1>6. Same(M, N, {o}) /\ Local(M, N, o)
  BY <1>1, <1>4, SameTwice, LocalTwice
<1>7. FreeCells(M) \subseteq FreeCells(N)
  BY <1>1, <1>4 DEF FreeCells
<1>8. QED
  BY <1>3, <1>4, <1>5, <1>6, <1>7

\* MergeFrom() of another message merges what the two say.
LEMMA MergeCorrect ==
  ASSUME NEW M, Good(M), NEW to \in Objs, Exists(M, to),
         NEW from \in Objs, Exists(M, from), FreeCells(M) # {},
         Len(M.msg[to].unknown \o M.msg[from].unknown) <= MaxUnknown
  PROVE  LET N == Merge(M, to, from)
         IN  /\ Good(N) /\ Exists(N, to) /\ Same(M, N, {to}) /\ Local(M, N, to)
             /\ Value(N, to) = MergeFrom(Value(M, to), Value(M, from))
<1> DEFINE u == M.msg[to].unknown \o M.msg[from].unknown
           S == IF Name(M, from) = << >> THEN M ELSE Set(M, to, Name(M, from))
           N == [S EXCEPT !.msg[to].unknown = u]
           text == IF Name(M, from) = << >> THEN Name(M, to) ELSE Name(M, from)
<1>1. /\ M.msg[to].unknown \in Seq(Field) /\ M.msg[from].unknown \in Seq(Field)
      /\ Name(M, from) \in Seq(Nat)
  BY NameFacts
<1>2. u \in Seq(Field) /\ Len(u) <= MaxUnknown
  <2>1. u \in Seq(Field)
    BY <1>1, ConcatProperties
  <2>2. QED
    BY <2>1
<1>3. /\ Good(S) /\ Exists(S, to) /\ Same(M, S, {to}) /\ Local(M, S, to)
      /\ Value(S, to) = [text |-> text, unknown |-> M.msg[to].unknown]
  <2>1. CASE Name(M, from) = << >>
    BY <2>1 DEF Same, Local, Value
  <2>2. CASE Name(M, from) # << >>
    BY <1>1, <2>2, SetCorrect
  <2>3. QED
    BY <2>1, <2>2
<1>4. Name(S, to) = text /\ S.msg[to].unknown = M.msg[to].unknown
  BY <1>3 DEF Value
<1>5. Merge(M, to, from) = N
  BY <1>4 DEF Merge
<1> HIDE DEF u, S, text
<1>6. /\ Good(N) /\ Exists(N, to) /\ Same(S, N, {to}) /\ Local(S, N, to)
      /\ Value(N, to) = [text |-> Name(S, to), unknown |-> u]
  BY <1>2, <1>3, UnknownCorrect
<1> HIDE DEF N
<1>7. Same(M, N, {to}) /\ Local(M, N, to)
  BY <1>3, <1>6, SameTwice, LocalTwice
<1>8. Value(N, to) = MergeFrom(Value(M, to), Value(M, from))
  BY <1>4, <1>6 DEF MergeFrom, Value, u, text
<1>9. QED
  BY <1>5, <1>6, <1>7, <1>8

\* CopyFrom() gives the target what the source says.
LEMMA CopyCorrect ==
  ASSUME NEW M, Good(M), NEW to \in Objs, Exists(M, to),
         NEW from \in Objs, Exists(M, from), FreeCells(M) # {}
  PROVE  LET N == Copy(M, to, from)
         IN  /\ Good(N) /\ Exists(N, to) /\ Same(M, N, {to}) /\ Local(M, N, to)
             /\ Value(N, to) = Value(M, from)
<1>1. CASE to = from
  <2>1. Copy(M, to, from) = M
    BY <1>1 DEF Copy
  <2>2. QED
    BY <1>1, <2>1 DEF Same, Local
<1>2. CASE to # from
  <2> DEFINE C == Clear(M, to)
             N == Merge(C, to, from)
  <2>1. /\ Good(C) /\ Exists(C, to) /\ Same(M, C, {to}) /\ Local(M, C, to)
        /\ Value(C, to) = [text |-> << >>, unknown |-> << >>]
        /\ FreeCells(C) # {}
    BY ClearCorrect
  <2>2. Copy(M, to, from) = N
    BY <1>2 DEF Copy
  <2> HIDE DEF C
  <2>3. Exists(C, from) /\ Value(C, from) = Value(M, from)
    BY <1>2, <2>1 DEF Same
  <2>4. C.msg[to].unknown = << >> /\ Name(C, to) = << >>
    BY <2>1 DEF Value
  <2>5. C.msg[from].unknown \in Seq(Field) /\ Len(C.msg[from].unknown) <= MaxUnknown
    BY <2>1, <2>3, NameFacts DEF Good, Bounded
  <2>6. C.msg[to].unknown \o C.msg[from].unknown = C.msg[from].unknown
    BY <2>4, <2>5
  <2>7. /\ Good(N) /\ Exists(N, to) /\ Same(C, N, {to}) /\ Local(C, N, to)
        /\ Value(N, to) = MergeFrom(Value(C, to), Value(C, from))
    BY <2>1, <2>3, <2>5, <2>6, MergeCorrect
  <2> HIDE DEF N
  <2>8. MergeFrom(Value(C, to), Value(C, from)) = Value(C, from)
    BY <2>4, <2>6 DEF MergeFrom, Value
  <2>9. Same(M, N, {to}) /\ Local(M, N, to)
    BY <2>1, <2>7, SameTwice, LocalTwice
  <2>10. QED
    BY <2>2, <2>3, <2>7, <2>8, <2>9
<1>3. QED
  BY <1>1, <1>2
-----------------------------------------------------------------------------
\* A constructor makes an empty message and touches no other.
LEMMA ConstructCorrect ==
  ASSUME NEW M, Good(M), NEW o \in Objs, ~Exists(M, o), NEW home \in Owner
  PROVE  LET N == Construct(M, o, home)
         IN  /\ Good(N) /\ Exists(N, o) /\ Same(M, N, {})
             /\ Value(N, o) = [text |-> << >>, unknown |-> << >>]
             /\ FreeCells(N) = FreeCells(M)
<1> DEFINE N == Construct(M, o, home)
           m == [home |-> home, arena |-> home, name |-> Default, unknown |-> << >>]
<1>1. M \in Memory /\ m \in Message
  BY DEF Good, Message
<1>2. /\ M.msg \in [Objs -> Message \cup {None}] /\ M.str \in [Cells -> String]
      /\ M.held \subseteq Cells
  BY <1>1, Parts
<1>3. /\ N.msg = [M.msg EXCEPT ![o] = m] /\ N.str = M.str /\ N.held = M.held
      /\ N = [msg |-> N.msg, str |-> N.str, held |-> N.held]
  BY <1>1 DEF Construct, Memory
<1> HIDE DEF N
<1>4. N.msg[o] = m /\ \A p \in Objs : p # o => N.msg[p] = M.msg[p]
  BY <1>2, <1>3
<1>5. Exists(N, o) /\ \A p \in Objs : p # o => (Exists(N, p) <=> Exists(M, p))
  BY <1>1, <1>4, HelloAssumption DEF Exists
<1>6. N \in Memory
  BY <1>1, <1>2, <1>3 DEF Memory
<1>7. AtHome(N)
  BY <1>3, <1>4, <1>5 DEF Good, AtHome
<1>8. Unshared(N)
  BY <1>4, <1>5 DEF Good, Unshared
<1>9. HeldApart(N)
  BY <1>2, <1>3, <1>4, <1>5, HelloAssumption DEF Good, HeldApart
<1>10. NoneLost(N)
  BY <1>3, <1>4, <1>5 DEF Good, NoneLost
<1>11. Bounded(N)
  BY <1>4, <1>5, HelloAssumption DEF Good, Bounded
<1>12. Good(N)
  BY <1>6, <1>7, <1>8, <1>9, <1>10, <1>11 DEF Good
<1>13. Same(M, N, {})
  BY <1>3, <1>4, <1>5 DEF Same, Value, Name
<1>14. Value(N, o) = [text |-> << >>, unknown |-> << >>]
  BY <1>4 DEF Value, Name
<1>15. QED
  BY <1>3, <1>5, <1>12, <1>13, <1>14 DEF N, FreeCells

\* ~HelloRequest() of a message on the heap destroys its string, and no other.
LEMMA DestructCorrect ==
  ASSUME NEW M, Good(M), NEW o \in Objs, Exists(M, o), M.msg[o].home = Heap
  PROVE  Good(Destruct(M, o)) /\ Same(M, Destruct(M, o), {o})
<1> DEFINE N == Destruct(M, o)
           c == M.msg[o].name
<1>1. M \in Memory /\ M.msg[o].arena = Heap
  BY NameFacts DEF Good
<1>2. /\ M.msg \in [Objs -> Message \cup {None}] /\ M.str \in [Cells -> String]
      /\ M.held \subseteq Cells
  BY <1>1, Parts
<1>3. /\ N.msg = [M.msg EXCEPT ![o] = None] /\ N.held = M.held
      /\ N.str = IF c = Default THEN M.str ELSE [M.str EXCEPT ![c] = NoString]
      /\ N = [msg |-> N.msg, str |-> N.str, held |-> N.held]
  <2>1. CASE c = Default
    BY <1>1, <2>1 DEF Destruct, Destroy, Memory
  <2>2. CASE c # Default
    <3>1. N = [[M EXCEPT !.str[c] = NoString] EXCEPT !.msg[o] = None]
      BY <1>1, <2>2 DEF Destruct, Destroy
    <3> HIDE DEF N, c
    <3>2. QED
      BY <1>1, <2>2, <3>1 DEF Memory
  <2>3. QED
    BY <2>1, <2>2
<1>4. NoString \in String
  BY DEF NoString, String
<1>5. c # Default => c \in Cells
  BY NameFacts
<1>6. \A p \in Objs : p # o /\ Exists(M, p) => M.msg[p].name # c \/ c = Default
  BY DEF Good, Unshared
<1> HIDE DEF N, c
<1>7. ~Exists(N, o) /\ \A p \in Objs : p # o => N.msg[p] = M.msg[p]
  BY <1>2, <1>3 DEF Exists
<1>8. \A p \in Objs : Exists(N, p) => p # o /\ Exists(M, p) /\ N.msg[p] = M.msg[p]
  BY <1>7 DEF Exists
<1>9. \A d \in Cells : d # c => N.str[d] = M.str[d]
  BY <1>2, <1>3
<1>10. c # Default => N.str[c].by = None
  BY <1>2, <1>3, <1>5 DEF NoString
<1>11. N \in Memory
  <2>1. N.msg \in [Objs -> Message \cup {None}]
    BY <1>2, <1>3
  <2>2. N.str \in [Cells -> String]
    BY <1>2, <1>3, <1>4
  <2>3. QED
    BY <1>2, <1>3, <2>1, <2>2 DEF Memory
<1>12. AtHome(N)
  BY <1>6, <1>8, <1>9, NameFacts, SMTT(40) DEF AtHome
<1>13. Unshared(N)
  BY <1>8 DEF Good, Unshared
<1>14. HeldApart(N)
  <2> SUFFICES ASSUME NEW d \in N.held
               PROVE  /\ N.str[d].by = Heap
                      /\ \A p \in Objs : Exists(N, p) => N.msg[p].name # d
    BY DEF HeldApart
  <2>1. /\ d \in Cells /\ M.str[d].by = Heap
        /\ \A p \in Objs : Exists(M, p) => M.msg[p].name # d
    BY <1>2, <1>3 DEF Good, HeldApart
  <2>2. d # c
    BY <2>1 DEF c
  <2>3. QED
    BY <1>8, <1>9, <2>1, <2>2
<1>15. NoneLost(N)
  <2> SUFFICES ASSUME NEW d \in Cells, N.str[d].by = Heap, d \notin N.held
               PROVE  \E p \in Objs : Exists(N, p) /\ N.msg[p].name = d
    BY DEF NoneLost
  <2>1. d # c
    BY <1>10, HelloAssumption DEF Owner
  <2>2. PICK p \in Objs : Exists(M, p) /\ M.msg[p].name = d
    BY <1>3, <1>9, <2>1 DEF Good, NoneLost
  <2>3. p # o
    BY <2>1, <2>2 DEF c
  <2>4. QED
    BY <1>7, <2>2, <2>3 DEF Exists
<1>16. Bounded(N)
  BY <1>8 DEF Good, Bounded
<1>17. Good(N)
  BY <1>11, <1>12, <1>13, <1>14, <1>15, <1>16 DEF Good
<1>18. Same(M, N, {o})
  <2> SUFFICES ASSUME NEW p \in Objs, p # o, Exists(M, p)
               PROVE  Exists(N, p) /\ Value(N, p) = Value(M, p)
    BY DEF Same
  <2>1. N.msg[p] = M.msg[p]
    BY <1>7
  <2>2. Name(N, p) = Name(M, p)
    BY <1>6, <1>9, <2>1, NameFacts DEF Name
  <2>3. QED
    BY <2>1, <2>2 DEF Exists, Value
<1>19. QED
  BY <1>17, <1>18 DEF N

\* release_name(): the user gets a string on the heap with the message's text,
\* the message's own or, of a message on an arena, a copy.
LEMMA ReleaseCorrect ==
  ASSUME NEW M, Good(M), NEW o \in Objs, Exists(M, o), FreeCells(M) # {}
  PROVE  LET N == Release(M, o)
         IN  /\ Good(N) /\ Same(M, N, {o})
             /\ Value(N, o) = [text |-> << >>, unknown |-> M.msg[o].unknown]
             /\ \A d \in N.held \ M.held : N.str[d].val = Name(M, o)
<1> DEFINE N == Release(M, o)
           c == M.msg[o].name
           f == Fresh(M)
           m == [M.msg[o] EXCEPT !.name = Default]
<1>1. CASE c = Default
  <2>1. N = M
    BY <1>1 DEF Release
  <2>2. Value(M, o) = [text |-> << >>, unknown |-> M.msg[o].unknown]
    BY <1>1 DEF Value, Name
  <2>3. QED
    BY <2>1, <2>2 DEF Same
<1>2. CASE c # Default
  <2> DEFINE given == IF M.msg[o].home = Heap THEN c ELSE f
  <2>1. /\ M \in Memory /\ M.msg[o] \in Message /\ M.msg[o].arena = M.msg[o].home
        /\ M.msg[o].home \in Owner
        /\ c \in Cells /\ M.str[c] \in String /\ M.str[c].by = M.msg[o].home
        /\ M.str[c].by # None /\ Name(M, o) = M.str[c].val
        /\ f \in Cells /\ M.str[f].by = None
    BY <1>2, NameFacts, FreshIsFree DEF Good, Name
  <2>2. /\ M.msg \in [Objs -> Message \cup {None}] /\ M.str \in [Cells -> String]
        /\ M.held \subseteq Cells
    BY <2>1, Parts
  <2>3. /\ N.msg = [M.msg EXCEPT ![o] = m] /\ N.held = M.held \cup {given}
        /\ N = [msg |-> N.msg, str |-> N.str, held |-> N.held]
        /\ N.str = IF M.msg[o].home = Heap THEN M.str
                   ELSE [[M.str EXCEPT ![f] = [by |-> Heap, val |-> M.str[c].val]]
                           EXCEPT ![c] = [M.str[c] EXCEPT !.val = << >>]]
    <3>1. CASE M.msg[o].home = Heap
      <4>1. N = [M EXCEPT !.held = @ \cup {c}, !.msg[o].name = Default]
        BY <1>2, <2>1, <3>1 DEF Release
      <4> HIDE DEF N, c
      <4>2. QED
        BY <2>1, <3>1, <4>1 DEF Memory
    <3>2. CASE M.msg[o].home # Heap
      <4> DEFINE C == [M EXCEPT !.str[f] = [by |-> Heap, val |-> M.str[c].val]]
      <4>1. N = [C EXCEPT !.str[c].val = << >>, !.held = @ \cup {f},
                          !.msg[o].name = Default]
        BY <1>2, <2>1, <3>2 DEF Release, Create
      <4>2. /\ C.msg = M.msg /\ C.held = M.held
            /\ C.str = [M.str EXCEPT ![f] = [by |-> Heap, val |-> M.str[c].val]]
            /\ C = [msg |-> C.msg, str |-> C.str, held |-> C.held]
        BY <2>1 DEF Memory
      <4>3. C.str[c] = M.str[c]
        BY <2>1, <2>2, <4>2
      <4> HIDE DEF N, c, f, C
      <4>4. /\ N.msg = [C.msg EXCEPT ![o] = [C.msg[o] EXCEPT !.name = Default]]
            /\ N.held = C.held \cup {f}
            /\ N.str = [C.str EXCEPT ![c] = [C.str[c] EXCEPT !.val = << >>]]
            /\ N = [msg |-> N.msg, str |-> N.str, held |-> N.held]
        BY <4>1, <4>2
      <4>5. QED
        BY <3>2, <4>2, <4>3, <4>4
    <3>3. QED
      BY <3>1, <3>2
  <2>4. /\ m \in Message /\ m.name = Default /\ m.home = M.msg[o].home
        /\ m.arena = M.msg[o].arena /\ m.unknown = M.msg[o].unknown
    BY <2>1 DEF Message
  <2>5. given \in Cells /\ f # c
    BY <2>1
  <2>6. \A p \in Objs : p # o /\ Exists(M, p) => M.msg[p].name # c
    BY <1>2 DEF Good, Unshared
  <2>7. \A p \in Objs : Exists(M, p) => M.msg[p].name # f
    BY <2>1, NameFacts, HelloAssumption
  <2>8. \A p \in Objs : p # o /\ Exists(M, p) => M.msg[p].name # given
    BY <2>6, <2>7
  <2>9. /\ N.str[given].by = Heap /\ N.str[given].val = M.str[c].val
        /\ given # c => N.str[c].by = M.str[c].by /\ M.str[c].by # Heap
        /\ \A d \in Cells : d \notin {c, given} => N.str[d] = M.str[d]
        /\ N.str \in [Cells -> String]
    <3> HIDE DEF N, c, f, m
    <3>1. CASE M.msg[o].home = Heap
      BY <2>1, <2>2, <2>3, <3>1
    <3>2. CASE M.msg[o].home # Heap
      <4>1. [by |-> Heap, val |-> M.str[c].val] \in String
        BY <2>1 DEF String, Owner
      <4>2. [M.str[c] EXCEPT !.val = << >>] \in String
        <5>1. << >> \in Seq(Nat)
          OBVIOUS
        <5>2. PICK e \in Seq(Nat) : e = << >>
          BY <5>1, Zenon
        <5>3. [M.str[c] EXCEPT !.val = e] \in String
          BY <2>1 DEF String
        <5>4. QED
          BY <5>2, <5>3
      <4>3. [M.str[c] EXCEPT !.val = << >>].by = M.str[c].by
        BY <2>1 DEF String
      <4>4. QED
        BY <2>1, <2>2, <2>3, <2>5, <3>2, <4>1, <4>2, <4>3
    <3>3. QED
      BY <3>1, <3>2
  <2> HIDE DEF N, c, f, m, given
  <2>10. N.msg[o] = m /\ \A p \in Objs : p # o => N.msg[p] = M.msg[p]
    BY <2>2, <2>3
  <2>11. \A p \in Objs : Exists(N, p) <=> Exists(M, p)
    BY <2>4, <2>10, HelloAssumption DEF Exists
  <2>12. N \in Memory
    <3>1. N.msg \in [Objs -> Message \cup {None}]
      BY <2>2, <2>3, <2>4
    <3>2. QED
      BY <2>2, <2>3, <2>5, <2>9, <3>1 DEF Memory
  <2>13. AtHome(N)
    BY <2>1, <2>4, <2>6, <2>8, <2>9, <2>10, <2>11, NameFacts DEF AtHome
  <2>14. Unshared(N)
    BY <2>4, <2>10, <2>11 DEF Good, Unshared
  <2>15. HeldApart(N)
    <3> SUFFICES ASSUME NEW d \in N.held
                 PROVE  /\ N.str[d].by = Heap
                        /\ \A p \in Objs : Exists(N, p) => N.msg[p].name # d
      BY DEF HeldApart
    <3>1. CASE d = given
      BY <2>4, <2>5, <2>8, <2>9, <2>10, <2>11, <3>1, HelloAssumption
    <3>2. CASE d # given
      <4>1. /\ d \in M.held /\ d \in Cells /\ M.str[d].by = Heap
            /\ \A p \in Objs : Exists(M, p) => M.msg[p].name # d
        BY <2>2, <2>3, <3>2 DEF Good, HeldApart
      <4>2. d # c
        BY <4>1 DEF c
      <4>3. QED
        BY <2>4, <2>9, <2>10, <2>11, <3>2, <4>1, <4>2, HelloAssumption
    <3>3. QED
      BY <3>1, <3>2
  <2>16. NoneLost(N)
    <3> SUFFICES ASSUME NEW d \in Cells, N.str[d].by = Heap, d \notin N.held
                 PROVE  \E p \in Objs : Exists(N, p) /\ N.msg[p].name = d
      BY DEF NoneLost
    <3>1. d # given
      BY <2>3
    <3>2. d # c
      BY <2>9, <3>1
    <3>3. PICK p \in Objs : Exists(M, p) /\ M.msg[p].name = d
      BY <2>3, <2>9, <3>1, <3>2 DEF Good, NoneLost
    <3>4. p # o
      BY <3>2, <3>3 DEF c
    <3>5. QED
      BY <2>10, <2>11, <3>3, <3>4
  <2>17. Bounded(N)
    BY <2>4, <2>10, <2>11 DEF Good, Bounded
  <2>18. Good(N)
    BY <2>12, <2>13, <2>14, <2>15, <2>16, <2>17 DEF Good
  <2>19. Same(M, N, {o})
    <3> SUFFICES ASSUME NEW p \in Objs, p # o, Exists(M, p)
                 PROVE  Exists(N, p) /\ Value(N, p) = Value(M, p)
      BY DEF Same
    <3>1. N.msg[p] = M.msg[p]
      BY <2>10
    <3>2. Name(N, p) = Name(M, p)
      BY <2>6, <2>8, <2>9, <3>1, NameFacts DEF Name
    <3>3. QED
      BY <2>11, <3>1, <3>2 DEF Value
  <2>20. Value(N, o) = [text |-> << >>, unknown |-> M.msg[o].unknown]
    BY <2>4, <2>10 DEF Value, Name
  <2>21. \A d \in N.held \ M.held : N.str[d].val = Name(M, o)
    BY <2>1, <2>3, <2>9
  <2>22. QED
    BY <2>18, <2>19, <2>20, <2>21 DEF N
<1>3. QED
  BY <1>1, <1>2

\* set_allocated_name(): the message takes over the user's string, or none, in
\* place of its own.
LEMMA SetAllocatedCorrect ==
  ASSUME NEW M, Good(M), NEW o \in Objs, Exists(M, o), NEW c \in M.held \cup {None}
  PROVE  LET N == SetAllocated(M, o, c)
         IN  /\ Good(N) /\ Same(M, N, {o})
             /\ Value(N, o) = [text |-> IF c = None THEN << >> ELSE M.str[c].val,
                               unknown |-> M.msg[o].unknown]
<1> DEFINE N == SetAllocated(M, o, c)
           a == M.msg[o].home
           old == M.msg[o].name
           name == IF c = None THEN Default ELSE c
           m == [M.msg[o] EXCEPT !.name = name]
           D == IF a = Heap THEN Destroy(M, old) ELSE M
<1>1. /\ M \in Memory /\ M.msg[o] \in Message /\ M.msg[o].arena = a /\ a \in Owner
      /\ old # Default => old \in Cells /\ M.str[old].by = a
  BY NameFacts DEF Good
<1>2. /\ M.msg \in [Objs -> Message \cup {None}] /\ M.str \in [Cells -> String]
      /\ M.held \subseteq Cells
  BY <1>1, Parts
<1>3. /\ c # None => /\ c \in Cells /\ c \in M.held /\ M.str[c].by = Heap
                     /\ \A p \in Objs : Exists(M, p) => M.msg[p].name # c
      /\ name \in Cells \cup {Default}
  BY <1>2 DEF Good, HeldApart
<1>4. /\ D.msg = M.msg /\ D.held = M.held
      /\ D.str = IF a = Heap /\ old # Default THEN [M.str EXCEPT ![old] = NoString]
                 ELSE M.str
      /\ D = [msg |-> D.msg, str |-> D.str, held |-> D.held]
  BY <1>1 DEF Destroy, Memory
<1>5. /\ N.msg = [M.msg EXCEPT ![o] = m] /\ N.held = M.held \ {c}
      /\ N.str = IF c = None THEN D.str
                 ELSE [D.str EXCEPT ![c] = [D.str[c] EXCEPT !.by = a]]
      /\ N = [msg |-> N.msg, str |-> N.str, held |-> N.held]
  <2>1. CASE c = None
    <3>1. N = [D EXCEPT !.msg[o].name = Default]
      BY <1>1, <2>1 DEF SetAllocated
    <3>2. M.held \ {None} = M.held
      BY <1>2, HelloAssumption
    <3> HIDE DEF N, D
    <3>3. QED
      BY <1>4, <2>1, <3>1, <3>2
  <2>2. CASE c # None
    <3>1. N = [D EXCEPT !.msg[o].name = c, !.held = @ \ {c}, !.str[c].by = a]
      BY <1>1, <2>2 DEF SetAllocated
    <3> HIDE DEF N, D, a
    <3>2. QED
      BY <1>4, <2>2, <3>1
  <2>3. QED
    BY <2>1, <2>2
<1>6. /\ m \in Message /\ m.name = name /\ m.home = a /\ m.arena = a
      /\ m.unknown = M.msg[o].unknown
  BY <1>1, <1>3 DEF Message
<1>7. \A p \in Objs : p # o /\ Exists(M, p) /\ old # Default => M.msg[p].name # old
  BY DEF Good, Unshared
<1>8. c # None => c # old
  BY <1>1, <1>3, HelloAssumption
<1> HIDE DEF N, D, m, a, old, name
<1>9. /\ D.str \in [Cells -> String]
      /\ \A d \in Cells : d # old => D.str[d] = M.str[d]
      /\ a = Heap /\ old # Default => D.str[old].by = None
      /\ a # Heap /\ old # Default => D.str[old].by = a
  <2>1. NoString \in String /\ NoString.by = None
    BY DEF NoString, String
  <2>2. QED
    BY <1>1, <1>2, <1>4, <2>1
<1>10. /\ N.str \in [Cells -> String]
       /\ \A d \in Cells : d # c => N.str[d] = D.str[d]
       /\ c # None => N.str[c].by = a /\ N.str[c].val = M.str[c].val
  <2>1. CASE c = None
    BY <1>5, <1>9, <2>1
  <2>2. CASE c # None
    <3>1. D.str[c] = M.str[c] /\ M.str[c] \in String
      BY <1>2, <1>3, <1>8, <1>9, <2>2
    <3>2. /\ [D.str[c] EXCEPT !.by = a] \in String
          /\ [D.str[c] EXCEPT !.by = a].by = a
          /\ [D.str[c] EXCEPT !.by = a].val = M.str[c].val
      BY <1>1, <3>1 DEF String
    <3>3. QED
      BY <1>3, <1>5, <1>9, <2>2, <3>2
  <2>3. QED
    BY <2>1, <2>2
<1>11. N.msg[o] = m /\ \A p \in Objs : p # o => N.msg[p] = M.msg[p]
  BY <1>2, <1>5
<1>12. \A p \in Objs : Exists(N, p) <=> Exists(M, p)
  BY <1>6, <1>11, HelloAssumption DEF Exists
<1>13. \A p \in Objs : p # o /\ Exists(M, p) /\ M.msg[p].name # Default =>
         /\ M.msg[p].name \in Cells
         /\ N.str[M.msg[p].name] = M.str[M.msg[p].name]
  <2> SUFFICES ASSUME NEW p \in Objs, p # o, Exists(M, p), M.msg[p].name # Default
               PROVE  /\ M.msg[p].name \in Cells
                      /\ N.str[M.msg[p].name] = M.str[M.msg[p].name]
    OBVIOUS
  <2>1. M.msg[p].name \in Cells
    BY NameFacts
  <2>2. M.msg[p].name # c
    BY <1>3, <2>1, HelloAssumption
  <2>3. M.msg[p].name # old
    BY <1>7
  <2>4. QED
    BY <1>9, <1>10, <2>1, <2>2, <2>3
<1>14. N \in Memory
  <2>1. N.msg \in [Objs -> Message \cup {None}]
    BY <1>2, <1>5, <1>6
  <2>2. QED
    BY <1>2, <1>5, <1>10, <2>1 DEF Memory
<1>15. AtHome(N)
  <2> SUFFICES ASSUME NEW p \in Objs, Exists(N, p)
               PROVE  /\ N.msg[p].arena = N.msg[p].home
                      /\ N.msg[p].name # Default =>
                           N.str[N.msg[p].name].by = N.msg[p].home
    BY DEF AtHome
  <2>1. CASE p = o
    BY <1>6, <1>10, <1>11, <2>1 DEF name
  <2>2. CASE p # o
    BY <1>11, <1>12, <1>13, <2>2, NameFacts, SMTT(40)
  <2>3. QED
    BY <2>1, <2>2
<1>16. Unshared(N)
  BY <1>3, <1>6, <1>11, <1>12 DEF Good, Unshared, name
<1>17. HeldApart(N)
  <2> SUFFICES ASSUME NEW d \in N.held
               PROVE  /\ N.str[d].by = Heap
                      /\ \A p \in Objs : Exists(N, p) => N.msg[p].name # d
    BY DEF HeldApart
  <2>1. /\ d # c /\ d \in Cells /\ M.str[d].by = Heap
        /\ \A p \in Objs : Exists(M, p) => M.msg[p].name # d
    BY <1>2, <1>5 DEF Good, HeldApart
  <2>2. d # old /\ d # name
    BY <2>1, HelloAssumption DEF old, name
  <2>3. QED
    BY <1>6, <1>9, <1>10, <1>11, <1>12, <2>1, <2>2
<1>18. NoneLost(N)
  <2> SUFFICES ASSUME NEW d \in Cells, N.str[d].by = Heap, d \notin N.held
               PROVE  \E p \in Objs : Exists(N, p) /\ N.msg[p].name = d
    BY DEF NoneLost
  <2>1. CASE d = c
    BY <1>6, <1>11, <1>12, <2>1, HelloAssumption DEF name
  <2>2. CASE d # c
    <3>1. d # old
      BY <1>9, <1>10, <2>2, HelloAssumption DEF Owner
    <3>2. PICK p \in Objs : Exists(M, p) /\ M.msg[p].name = d
      BY <1>5, <1>9, <1>10, <2>2, <3>1 DEF Good, NoneLost
    <3>3. p # o
      BY <3>1, <3>2 DEF old
    <3>4. QED
      BY <1>11, <1>12, <3>2, <3>3
  <2>3. QED
    BY <2>1, <2>2
<1>19. Bounded(N)
  BY <1>6, <1>11, <1>12 DEF Good, Bounded
<1>20. Good(N)
  BY <1>14, <1>15, <1>16, <1>17, <1>18, <1>19 DEF Good
<1>21. Same(M, N, {o})
  <2> SUFFICES ASSUME NEW p \in Objs, p # o, Exists(M, p)
               PROVE  Exists(N, p) /\ Value(N, p) = Value(M, p)
    BY DEF Same
  <2>1. N.msg[p] = M.msg[p] /\ Exists(N, p)
    BY <1>11, <1>12
  <2>2. Name(N, p) = Name(M, p)
    BY <1>13, <2>1 DEF Name
  <2>3. QED
    BY <2>1, <2>2 DEF Value
<1>22. Value(N, o) = [text |-> IF c = None THEN << >> ELSE M.str[c].val,
                      unknown |-> M.msg[o].unknown]
  <2>1. c # None => c # Default
    BY <1>3, HelloAssumption
  <2>2. QED
    BY <1>6, <1>10, <1>11, <2>1 DEF Value, Name, name
<1>23. QED
  BY <1>20, <1>21, <1>22 DEF N
-----------------------------------------------------------------------------
\* InternalSwap() of two messages that live in the same place exchanges what
\* they say, with the strings.
LEMMA InternalSwapCorrect ==
  ASSUME NEW M, Good(M), NEW a \in Objs, Exists(M, a), NEW b \in Objs, Exists(M, b),
         a # b, SameArena(M, a, b)
  PROVE  LET N == InternalSwap(M, a, b)
         IN  /\ Good(N) /\ Same(M, N, {a, b})
             /\ Value(N, a) = Value(M, b) /\ Value(N, b) = Value(M, a)
<1> DEFINE N == InternalSwap(M, a, b)
<1>1. /\ M \in Memory /\ M.msg[a] \in Message /\ M.msg[b] \in Message
      /\ M.msg[a].home = M.msg[b].home
  BY NameFacts DEF Good, SameArena
<1>2. /\ M.msg \in [Objs -> Message \cup {None}] /\ M.str \in [Cells -> String]
      /\ M.held \subseteq Cells
  BY <1>1, Parts
<1>3. /\ [M.msg[b] EXCEPT !.home = M.msg[a].home] = M.msg[b]
      /\ [M.msg[a] EXCEPT !.home = M.msg[b].home] = M.msg[a]
  BY <1>1 DEF Message
<1>4. N = [M EXCEPT !.msg[a] = M.msg[b], !.msg[b] = M.msg[a]]
  BY <1>3 DEF InternalSwap
<1> HIDE DEF N
<1>5. /\ N.msg = [[M.msg EXCEPT ![a] = M.msg[b]] EXCEPT ![b] = M.msg[a]]
      /\ N.str = M.str /\ N.held = M.held
      /\ N = [msg |-> N.msg, str |-> N.str, held |-> N.held]
  BY <1>1, <1>4 DEF Memory
<1>6. /\ N.msg[a] = M.msg[b] /\ N.msg[b] = M.msg[a]
      /\ \A p \in Objs : p \notin {a, b} => N.msg[p] = M.msg[p]
  BY <1>2, <1>5
<1>7. \A p \in Objs : Exists(N, p) <=> Exists(M, p)
  BY <1>6 DEF Exists
<1>8. N \in Memory
  <2>1. N.msg \in [Objs -> Message \cup {None}]
    BY <1>1, <1>2, <1>5
  <2>2. QED
    BY <1>2, <1>5, <2>1 DEF Memory
<1>9. AtHome(N)
  BY <1>5, <1>6, <1>7 DEF Good, AtHome
<1>10. Unshared(N)
  BY <1>6, <1>7 DEF Good, Unshared
<1>11. HeldApart(N)
  BY <1>5, <1>6, <1>7 DEF Good, HeldApart
<1>12. NoneLost(N)
  BY <1>5, <1>6, <1>7 DEF Good, NoneLost
<1>13. Bounded(N)
  BY <1>6, <1>7 DEF Good, Bounded
<1>14. Good(N)
  BY <1>8, <1>9, <1>10, <1>11, <1>12, <1>13 DEF Good
<1>15. Same(M, N, {a, b})
  BY <1>5, <1>6, <1>7 DEF Same, Value, Name
<1>16. Value(N, a) = Value(M, b) /\ Value(N, b) = Value(M, a)
  BY <1>5, <1>6 DEF Value, Name
<1>17. QED
  BY <1>14, <1>15, <1>16 DEF N

\* A string made on an arena keeps ownership in order before any message names
\* it.
LEMMA CreateCorrect ==
  ASSUME NEW M, Good(M), FreeCells(M) # {}, NEW a \in Arenas, NEW v \in Seq(Nat)
  PROVE  LET N == Create(M, a, v)
         IN  /\ Good(N) /\ Same(M, N, {}) /\ N.msg = M.msg /\ N.held = M.held
             /\ N.str[Fresh(M)] = [by |-> a, val |-> v]
             /\ FreeCells(N) = FreeCells(M) \ {Fresh(M)}
<1> DEFINE N == Create(M, a, v)
           f == Fresh(M)
<1>1. M \in Memory /\ f \in Cells /\ M.str[f].by = None
  BY FreshIsFree DEF Good
<1>2. /\ M.msg \in [Objs -> Message \cup {None}] /\ M.str \in [Cells -> String]
      /\ M.held \subseteq Cells
  BY <1>1, Parts
<1>3. /\ N.msg = M.msg /\ N.held = M.held
      /\ N.str = [M.str EXCEPT ![f] = [by |-> a, val |-> v]]
      /\ N = [msg |-> N.msg, str |-> N.str, held |-> N.held]
  <2>1. N = [M EXCEPT !.str[f] = [by |-> a, val |-> v]]
    BY DEF Create
  <2> HIDE DEF N, f
  <2>2. QED
    BY <1>1, <2>1 DEF Memory
<1>4. [by |-> a, val |-> v] \in String /\ a # Heap /\ a # None /\ Heap # None
  BY HelloAssumption DEF String, Owner
<1> HIDE DEF N, f
<1>5. /\ N.str[f] = [by |-> a, val |-> v]
      /\ \A d \in Cells : d # f => N.str[d] = M.str[d]
  BY <1>1, <1>2, <1>3
<1>6. \A p \in Objs : Exists(M, p) => M.msg[p].name # f
  BY <1>1, NameFacts, HelloAssumption
<1>7. \A p \in Objs : Exists(N, p) <=> Exists(M, p)
  BY <1>3 DEF Exists
<1>8. N \in Memory
  <2>1. N.str \in [Cells -> String]
    BY <1>1, <1>2, <1>3, <1>4
  <2>2. QED
    BY <1>2, <1>3, <2>1 DEF Memory
<1>9. AtHome(N)
  BY <1>3, <1>5, <1>6, <1>7, NameFacts DEF AtHome
<1>10. Unshared(N)
  BY <1>3, <1>7 DEF Good, Unshared
<1>11. HeldApart(N)
  BY <1>1, <1>2, <1>3, <1>4, <1>5, <1>7 DEF Good, HeldApart
<1>12. NoneLost(N)
  BY <1>3, <1>4, <1>5, <1>7 DEF Good, NoneLost
<1>13. Bounded(N)
  BY <1>3, <1>7 DEF Good, Bounded
<1>14. Good(N)
  BY <1>8, <1>9, <1>10, <1>11, <1>12, <1>13 DEF Good
<1>15. Same(M, N, {})
  <2> SUFFICES ASSUME NEW p \in Objs, Exists(M, p)
               PROVE  Exists(N, p) /\ Value(N, p) = Value(M, p)
    BY DEF Same
  <2>1. Name(N, p) = Name(M, p)
    BY <1>3, <1>5, <1>6, NameFacts DEF Name
  <2>2. QED
    BY <1>3, <1>7, <2>1 DEF Value
<1>16. FreeCells(N) = FreeCells(M) \ {f}
  BY <1>1, <1>4, <1>5 DEF FreeCells
<1>17. QED
  BY <1>3, <1>5, <1>14, <1>15, <1>16 DEF N, f

\* What becomes of rhs at the end of GenericSwap().
Adopt(M, o, c, u) == [M EXCEPT !.msg[o].name = c, !.msg[o].unknown = u]

\* A message on an arena takes over a string made there that is nobody's, or
\* none; its own is left to the arena.
LEMMA AdoptCorrect ==
  ASSUME NEW M, Good(M), NEW o \in Objs, Exists(M, o), M.msg[o].home # Heap,
         NEW c \in Cells \cup {Default},
         c # Default => M.str[c].by = M.msg[o].home,
         \A p \in Objs : p # o /\ Exists(M, p) => M.msg[p].name # c \/ c = Default,
         NEW u \in Seq(Field), Len(u) <= MaxUnknown
  PROVE  LET N == Adopt(M, o, c, u)
         IN  /\ Good(N) /\ Same(M, N, {o})
             /\ Value(N, o) = [text |-> IF c = Default THEN << >> ELSE M.str[c].val,
                               unknown |-> u]
<1> DEFINE N == Adopt(M, o, c, u)
           m == [[M.msg[o] EXCEPT !.name = c] EXCEPT !.unknown = u]
<1>1. /\ M \in Memory /\ M.msg[o] \in Message /\ M.msg[o].arena = M.msg[o].home
      /\ M.msg[o].name # Default => M.str[M.msg[o].name].by # Heap
  BY NameFacts DEF Good
<1>2. /\ M.msg \in [Objs -> Message \cup {None}] /\ M.str \in [Cells -> String]
      /\ M.held \subseteq Cells
  BY <1>1, Parts
<1>3. /\ N.msg = [M.msg EXCEPT ![o] = m] /\ N.str = M.str /\ N.held = M.held
      /\ N = [msg |-> N.msg, str |-> N.str, held |-> N.held]
  <2> DEFINE E == [M EXCEPT !.msg[o].name = c]
  <2>1. /\ E.msg = [M.msg EXCEPT ![o] = [M.msg[o] EXCEPT !.name = c]]
        /\ E.str = M.str /\ E.held = M.held
        /\ E = [msg |-> E.msg, str |-> E.str, held |-> E.held]
    BY <1>1 DEF Memory
  <2>2. E.msg[o] = [M.msg[o] EXCEPT !.name = c]
    BY <1>2, <2>1
  <2>3. N = [E EXCEPT !.msg[o].unknown = u]
    BY DEF Adopt
  <2> HIDE DEF E, N
  <2>4. /\ N.msg = [E.msg EXCEPT ![o] = [E.msg[o] EXCEPT !.unknown = u]]
        /\ N.str = E.str /\ N.held = E.held
        /\ N = [msg |-> N.msg, str |-> N.str, held |-> N.held]
    BY <2>1, <2>3
  <2>5. N.msg = [M.msg EXCEPT ![o] = m]
    BY <1>2, <2>1, <2>2, <2>4
  <2>6. QED
    BY <2>1, <2>4, <2>5
<1>4. /\ m \in Message /\ m.name = c /\ m.home = M.msg[o].home
      /\ m.arena = m.home /\ m.unknown = u
  BY <1>1 DEF Message
<1> HIDE DEF N, m
<1>5. N.msg[o] = m /\ \A p \in Objs : p # o => N.msg[p] = M.msg[p]
  BY <1>2, <1>3
<1>6. \A p \in Objs : Exists(N, p) <=> Exists(M, p)
  BY <1>4, <1>5, HelloAssumption DEF Exists
<1>7. N \in Memory
  <2>1. N.msg \in [Objs -> Message \cup {None}]
    BY <1>2, <1>3, <1>4
  <2>2. QED
    BY <1>2, <1>3, <2>1 DEF Memory
<1>8. AtHome(N)
  BY <1>3, <1>4, <1>5, <1>6 DEF Good, AtHome
<1>9. Unshared(N)
  BY <1>4, <1>5, <1>6 DEF Good, Unshared
<1>10. HeldApart(N)
  BY <1>2, <1>3, <1>4, <1>5, <1>6, HelloAssumption DEF Good, HeldApart
<1>11. NoneLost(N)
  <2> SUFFICES ASSUME NEW d \in Cells, N.str[d].by = Heap, d \notin N.held
               PROVE  \E p \in Objs : Exists(N, p) /\ N.msg[p].name = d
    BY DEF NoneLost
  <2>1. PICK p \in Objs : Exists(M, p) /\ M.msg[p].name = d
    BY <1>3 DEF Good, NoneLost
  <2>2. p # o
    BY <1>1, <1>3, <2>1, HelloAssumption
  <2>3. QED
    BY <1>5, <1>6, <2>1, <2>2
<1>12. Bounded(N)
  BY <1>4, <1>5, <1>6 DEF Good, Bounded
<1>13. Good(N)
  BY <1>7, <1>8, <1>9, <1>10, <1>11, <1>12 DEF Good
<1>14. Same(M, N, {o})
  BY <1>3, <1>5, <1>6 DEF Same, Value, Name
<1>15. Value(N, o) = [text |-> IF c = Default THEN << >> ELSE M.str[c].val,
                      unknown |-> u]
  BY <1>3, <1>4, <1>5 DEF Value, Name
<1>16. QED
  BY <1>13, <1>14, <1>15 DEF N

\* GenericSwap() of two messages that live in different places exchanges what
\* they say, and each keeps its strings at home.
LEMMA GenericSwapCorrect ==
  ASSUME NEW M, Good(M), NEW x \in Objs, Exists(M, x), NEW y \in Objs, Exists(M, y),
         x # y, ~SameArena(M, x, y),
         NEW c1 \in FreeCells(M), NEW c2 \in FreeCells(M), c1 # c2
  PROVE  LET N == GenericSwap(M, x, y)
         IN  /\ Good(N) /\ Same(M, N, {x, y})
             /\ Value(N, x) = Value(M, y) /\ Value(N, y) = Value(M, x)
<1> DEFINE rhs == IF M.msg[y].arena # Heap THEN y ELSE x
           lhs == IF M.msg[y].arena # Heap THEN x ELSE y
           v == Value(M, lhs)
           T == IF v.text = << >> THEN M ELSE Create(M, M.msg[rhs].arena, v.text)
           n == IF v.text = << >> THEN Default ELSE Fresh(M)
           C == Copy(T, lhs, rhs)
           u == v.unknown
           N == Adopt(C, rhs, n, u)
<1>1. GenericSwap(M, x, y) = N
  BY DEF GenericSwap, Adopt
<1>2. /\ rhs \in Objs /\ lhs \in Objs /\ rhs # lhs /\ {rhs, lhs} = {x, y}
      /\ Exists(M, rhs) /\ Exists(M, lhs)
      /\ (rhs = x /\ lhs = y) \/ (rhs = y /\ lhs = x)
  OBVIOUS
<1>3. M.msg[rhs].arena # Heap
  BY DEF SameArena
<1> HIDE DEF rhs, lhs
<1>4. /\ v.text = Name(M, lhs) /\ v.unknown = M.msg[lhs].unknown
      /\ v = [text |-> v.text, unknown |-> v.unknown]
  BY DEF Value
<1>5. /\ v.text \in Seq(Nat) /\ v.unknown \in Seq(Field)
      /\ Len(v.unknown) <= MaxUnknown
      /\ M.msg[rhs].arena = M.msg[rhs].home /\ M.msg[rhs].arena \in Arenas
  <2>1. /\ Name(M, lhs) \in Seq(Nat) /\ M.msg[lhs].unknown \in Seq(Field)
        /\ M.msg[rhs].arena = M.msg[rhs].home /\ M.msg[rhs].home \in Owner
    BY <1>2, NameFacts
  <2>2. Len(M.msg[lhs].unknown) <= MaxUnknown
    BY <1>2 DEF Good, Bounded
  <2>3. M.msg[rhs].arena \in Arenas
    BY <1>3, <2>1 DEF Owner
  <2>4. QED
    BY <1>4, <2>1, <2>2, <2>3
<1> HIDE DEF v
<1>6. /\ Fresh(M) \in FreeCells(M) /\ Fresh(M) \in Cells /\ Fresh(M) # Default
      /\ M.str[Fresh(M)].by = None
  BY FreshIsFree, HelloAssumption DEF FreeCells
<1>7. \A p \in Objs : Exists(M, p) => M.msg[p].name # Fresh(M)
  BY <1>6, NameFacts, HelloAssumption
<1>8. /\ Good(T) /\ Same(M, T, {}) /\ T.msg = M.msg /\ FreeCells(T) # {}
      /\ v.text # << >> =>
           /\ T.str[Fresh(M)] = [by |-> M.msg[rhs].home, val |-> v.text]
           /\ Fresh(M) \notin FreeCells(T)
  <2>1. CASE v.text = << >>
    BY <2>1 DEF Same
  <2>2. CASE v.text # << >>
    <3> DEFINE a == M.msg[rhs].arena
    <3>1. /\ Good(Create(M, a, v.text)) /\ Same(M, Create(M, a, v.text), {})
          /\ Create(M, a, v.text).msg = M.msg
          /\ Create(M, a, v.text).str[Fresh(M)] = [by |-> a, val |-> v.text]
          /\ FreeCells(Create(M, a, v.text)) = FreeCells(M) \ {Fresh(M)}
      BY <1>5, CreateCorrect
    <3>2. T = Create(M, a, v.text)
      BY <2>2
    <3> HIDE DEF T
    <3>3. QED
      BY <1>5, <3>1, <3>2
  <2>3. QED
    BY <2>1, <2>2
<1> HIDE DEF T
<1>9. \A p \in Objs : Exists(T, p) <=> Exists(M, p)
  BY <1>8 DEF Exists
<1>10. Value(T, rhs) = Value(M, rhs)
  BY <1>2, <1>8 DEF Same
<1>11. /\ Good(C) /\ Exists(C, lhs) /\ Same(T, C, {lhs}) /\ Local(T, C, lhs)
       /\ Value(C, lhs) = Value(T, rhs)
  BY <1>2, <1>8, <1>9, CopyCorrect
<1> HIDE DEF C
<1>12. /\ \A p \in Objs : p # lhs => C.msg[p] = M.msg[p]
       /\ \A p \in Objs : Exists(C, p) <=> Exists(M, p)
  BY <1>2, <1>8, <1>11 DEF Local, Exists
<1>13. v.text # << >> =>
         /\ C.str[Fresh(M)] = [by |-> M.msg[rhs].home, val |-> v.text]
         /\ C.msg[lhs].name # Fresh(M)
  <2> SUFFICES ASSUME v.text # << >>
               PROVE  /\ C.str[Fresh(M)] = [by |-> M.msg[rhs].home, val |-> v.text]
                      /\ C.msg[lhs].name # Fresh(M)
    OBVIOUS
  <2>1. T.str[Fresh(M)].by # None
    BY <1>6, <1>8 DEF FreeCells
  <2>2. T.msg[lhs].name # Fresh(M)
    BY <1>2, <1>7, <1>8
  <2>3. QED
    BY <1>6, <1>8, <1>11, <2>1, <2>2 DEF Local
<1>14. /\ n \in Cells \cup {Default}
       /\ n # Default => C.str[n].by = C.msg[rhs].home /\ C.str[n].val = v.text
       /\ n = Default => v.text = << >>
       /\ C.msg[rhs].home # Heap
       /\ \A p \in Objs : p # rhs /\ Exists(C, p) => C.msg[p].name # n \/ n = Default
  BY <1>2, <1>3, <1>5, <1>6, <1>7, <1>12, <1>13
<1>15. /\ Good(N) /\ Same(C, N, {rhs})
       /\ Value(N, rhs) = [text |-> IF n = Default THEN << >> ELSE C.str[n].val,
                           unknown |-> u]
  <2>1. u \in Seq(Field) /\ Len(u) <= MaxUnknown
    BY <1>5
  <2>2. rhs \in Objs /\ Exists(C, rhs)
    BY <1>2, <1>12
  <2>3. n # Default => C.str[n].by = C.msg[rhs].home
    BY <1>14
  <2> HIDE DEF n, u
  <2>4. QED
    BY <1>11, <1>14, <2>1, <2>2, <2>3, AdoptCorrect, ZenonT(60)
<1> HIDE DEF n
<1> HIDE DEF N
<1>16. Value(N, rhs) = Value(M, lhs)
  <2>1. Value(N, rhs) = v
    BY <1>4, <1>14, <1>15
  <2>2. QED
    BY <2>1 DEF v
<1>17. Value(N, lhs) = Value(M, rhs)
  BY <1>2, <1>10, <1>11, <1>15 DEF Same
<1>18. Same(M, N, {x, y})
  BY <1>2, <1>8, <1>11, <1>15 DEF Same
<1>19. QED
  BY <1>1, <1>2, <1>15, <1>16, <1>17, <1>18

\* Swap() exchanges what two messages say, wherever they live.
LEMMA ExchangeCorrect ==
  ASSUME NEW M, Good(M), NEW a \in Objs, Exists(M, a), NEW b \in Objs, Exists(M, b),
         NEW c1 \in FreeCells(M), NEW c2 \in FreeCells(M), c1 # c2
  PROVE  LET N == Exchange(M, a, b)
         IN  /\ Good(N) /\ Same(M, N, {a, b})
             /\ Value(N, a) = Value(M, b) /\ Value(N, b) = Value(M, a)
<1>1. CASE a = b
  <2>1. Exchange(M, a, b) = M
    BY <1>1 DEF Exchange
  <2>2. QED
    BY <1>1, <2>1 DEF Same
<1>2. CASE a # b /\ SameArena(M, a, b)
  <2>1. Exchange(M, a, b) = InternalSwap(M, a, b)
    BY <1>2 DEF Exchange
  <2>2. QED
    BY <1>2, <2>1, InternalSwapCorrect
<1>3. CASE a # b /\ ~SameArena(M, a, b)
  <2>1. Exchange(M, a, b) = GenericSwap(M, a, b)
    BY <1>3 DEF Exchange
  <2>2. QED
    BY <1>3, <2>1, GenericSwapCorrect
<1>4. QED
  BY <1>1, <1>2, <1>3

\* operator=(HelloRequest&&) gives the target what the source said.
LEMMA MoveCorrect ==
  ASSUME NEW M, Good(M), NEW to \in Objs, Exists(M, to),
         NEW from \in Objs, Exists(M, from), FreeCells(M) # {}
  PROVE  LET N == Move(M, to, from)
         IN  /\ Good(N) /\ Same(M, N, {to, from}) /\ Exists(N, to)
             /\ Value(N, to) = Value(M, from)
<1>1. CASE to # from /\ SameArena(M, to, from)
  <2> DEFINE N == InternalSwap(M, to, from)
  <2>1. Move(M, to, from) = N
    BY <1>1 DEF Move
  <2>2. /\ Good(N) /\ Same(M, N, {to, from})
        /\ Value(N, to) = Value(M, from) /\ Value(N, from) = Value(M, to)
    BY <1>1, InternalSwapCorrect
  <2>3. Exists(N, to)
    <3>1. M \in Memory /\ M.msg[from] \in Message
      BY Parts DEF Good
    <3>2. N.msg[to] = [M.msg[from] EXCEPT !.home = M.msg[to].home]
      BY <1>1, <3>1 DEF InternalSwap, Memory
    <3>3. N.msg[to] \in Message
      BY <3>1, <3>2, NameFacts DEF Message
    <3>4. QED
      BY <3>3, HelloAssumption DEF Exists
  <2>4. QED
    BY <2>1, <2>2, <2>3
<1>2. CASE ~(to # from /\ SameArena(M, to, from))
  <2> DEFINE N == Copy(M, to, from)
  <2>1. Move(M, to, from) = N
    BY <1>2 DEF Move
  <2>2. /\ Good(N) /\ Exists(N, to) /\ Same(M, N, {to})
        /\ Value(N, to) = Value(M, from)
    BY CopyCorrect
  <2> HIDE DEF N
  <2>3. Same(M, N, {to, from})
    BY <2>2 DEF Same
  <2>4. QED
    BY <2>1, <2>2, <2>3
<1>3. QED
  BY <1>1, <1>2
-----------------------------------------------------------------------------
\* The memory after ParseFromString().
Parsed(M, o, w) ==
  LET C == Clear(M, o)
      S == IF Parse(w).mutable THEN Set(C, o, Parse(w).msg.text) ELSE C
  IN  [S EXCEPT !.msg[o].unknown = Parse(w).msg.unknown]

\* ParseFromString() leaves in the message what was read and nothing of what it
\* said before.
LEMMA ParsedCorrect ==
  ASSUME NEW M, Good(M), NEW o \in Objs, Exists(M, o), FreeCells(M) # {},
         NEW w \in Wires
  PROVE  LET N == Parsed(M, o, w)
         IN  Good(N) /\ Same(M, N, {o}) /\ Value(N, o) = Parse(w).msg
<1> DEFINE r == Parse(w)
           C == Clear(M, o)
           S == IF r.mutable THEN Set(C, o, r.msg.text) ELSE C
           u == r.msg.unknown
           N == [S EXCEPT !.msg[o].unknown = u]
<1>1. Parsed(M, o, w) = N
  BY DEF Parsed
<1>2. /\ r.msg.text \in Seq(Nat) /\ u \in Seq(Field) /\ Len(u) <= MaxUnknown
      /\ ~r.mutable => r.msg.text = << >>
      /\ r.msg = [text |-> r.msg.text, unknown |-> u]
  <2>1. /\ r \in ParseState /\ Len(u) <= MaxUnknown
        /\ ~r.mutable => r.msg.text = << >>
    BY WiresAssumption, ParseKeeps
  <2> HIDE DEF r
  <2>2. QED
    BY <2>1 DEF ParseState
<1> HIDE DEF r, u
<1>3. /\ Good(C) /\ Exists(C, o) /\ Same(M, C, {o})
      /\ Value(C, o) = [text |-> << >>, unknown |-> << >>]
      /\ FreeCells(M) \subseteq FreeCells(C)
  BY ClearCorrect
<1> HIDE DEF C
<1>4. Good(S) /\ Exists(S, o) /\ Same(C, S, {o}) /\ Name(S, o) = r.msg.text
  <2>1. CASE r.mutable
    <3> DEFINE t == r.msg.text
    <3>1. FreeCells(C) # {}
      BY <1>3
    <3>2. t \in Seq(Nat)
      BY <1>2
    <3> HIDE DEF t
    <3>3. /\ Good(Set(C, o, t)) /\ Exists(Set(C, o, t), o) /\ Same(C, Set(C, o, t), {o})
          /\ Value(Set(C, o, t), o) = [text |-> t, unknown |-> C.msg[o].unknown]
      BY <1>3, <3>1, <3>2, SetCorrect
    <3>4. S = Set(C, o, t)
      BY <2>1 DEF t
    <3> HIDE DEF S
    <3>5. Name(S, o) = t
      BY <3>3, <3>4 DEF Value
    <3>6. QED
      BY <3>3, <3>4, <3>5 DEF t
  <2>2. CASE ~r.mutable
    <3>1. S = C
      BY <2>2
    <3> HIDE DEF S
    <3>2. Name(C, o) = << >>
      BY <1>3 DEF Value
    <3>3. QED
      BY <1>2, <1>3, <2>2, <3>1, <3>2 DEF Same
  <2>3. QED
    BY <2>1, <2>2
<1> HIDE DEF S
<1>5. /\ Good(N) /\ Same(S, N, {o})
      /\ Value(N, o) = [text |-> Name(S, o), unknown |-> u]
  BY <1>2, <1>4, UnknownCorrect
<1> HIDE DEF N
<1>6. Same(M, N, {o})
  BY <1>3, <1>4, <1>5, SameTwice
<1>7. QED
  BY <1>1, <1>2, <1>4, <1>5, <1>6 DEF r

\* A user who deletes a string of its own takes it from no message.
LEMMA DeleteStringCorrect ==
  ASSUME NEW M, Good(M), NEW c \in M.held
  PROVE  LET N == [Destroy(M, c) EXCEPT !.held = @ \ {c}]
         IN  Good(N) /\ Same(M, N, {})
<1> DEFINE N == [Destroy(M, c) EXCEPT !.held = @ \ {c}]
<1>1. /\ M \in Memory /\ c \in Cells
      /\ \A p \in Objs : Exists(M, p) => M.msg[p].name # c
  BY Parts DEF Good, HeldApart
<1>2. /\ M.msg \in [Objs -> Message \cup {None}] /\ M.str \in [Cells -> String]
      /\ M.held \subseteq Cells
  BY <1>1, Parts
<1>3. N = [[M EXCEPT !.str[c] = NoString] EXCEPT !.held = @ \ {c}]
  BY <1>1, HelloAssumption DEF Destroy
<1> HIDE DEF N
<1>4. /\ N.msg = M.msg /\ N.str = [M.str EXCEPT ![c] = NoString]
      /\ N.held = M.held \ {c}
      /\ N = [msg |-> N.msg, str |-> N.str, held |-> N.held]
  BY <1>1, <1>3 DEF Memory
<1>5. NoString \in String /\ NoString.by = None /\ None # Heap
  BY HelloAssumption DEF NoString, String, Owner
<1>6. N.str[c].by = None /\ \A d \in Cells : d # c => N.str[d] = M.str[d]
  BY <1>1, <1>2, <1>4, <1>5
<1>7. \A p \in Objs : Exists(N, p) <=> Exists(M, p)
  BY <1>4 DEF Exists
<1>8. N \in Memory
  <2>1. N.str \in [Cells -> String]
    BY <1>2, <1>4, <1>5
  <2>2. QED
    BY <1>2, <1>4, <2>1 DEF Memory
<1>9. AtHome(N)
  BY <1>1, <1>4, <1>6, <1>7, NameFacts DEF AtHome
<1>10. Unshared(N)
  BY <1>4, <1>7 DEF Good, Unshared
<1>11. HeldApart(N)
  BY <1>2, <1>4, <1>6, <1>7 DEF Good, HeldApart
<1>12. NoneLost(N)
  BY <1>4, <1>5, <1>6, <1>7 DEF Good, NoneLost
<1>13. Bounded(N)
  BY <1>4, <1>7 DEF Good, Bounded
<1>14. Good(N)
  BY <1>8, <1>9, <1>10, <1>11, <1>12, <1>13 DEF Good
<1>15. Same(M, N, {})
  BY <1>1, <1>4, <1>6, <1>7, NameFacts DEF Same, Value, Name
<1>16. QED
  BY <1>14, <1>15 DEF N

\* ~Arena() takes its messages and their strings along, and no other.
LEMMA DeleteArenaCorrect ==
  ASSUME Good(mem), NEW a \in Arenas, DeleteArena(a)
  PROVE  Good(mem') /\ Same(mem, mem', Housed(a))
<1>1. mem \in Memory /\ a # Heap /\ a # None
  BY HelloAssumption DEF Good, Owner
<1>2. /\ mem.msg \in [Objs -> Message \cup {None}] /\ mem.str \in [Cells -> String]
      /\ mem.held \subseteq Cells
  BY <1>1, Parts
<1>3. /\ mem'.msg = [o \in Objs |-> IF mem.msg[o] # None /\ mem.msg[o].home = a
                                      THEN None ELSE mem.msg[o]]
      /\ mem'.str = [c \in Cells |-> IF mem.str[c].by = a THEN NoString ELSE mem.str[c]]
      /\ mem'.held = mem.held
      /\ mem' = [msg |-> mem'.msg, str |-> mem'.str, held |-> mem'.held]
  BY <1>1 DEF DeleteArena, Memory, Live
<1>4. NoString \in String /\ NoString.by = None /\ None # Heap
  BY HelloAssumption DEF NoString, String, Owner
<1> DEFINE N == mem'
<1> HIDE DEF N
<1>5. \A o \in Objs : Exists(N, o) =>
        Exists(mem, o) /\ N.msg[o] = mem.msg[o] /\ mem.msg[o].home # a
  BY <1>3 DEF N, Exists
<1>6. \A o \in Objs : Exists(mem, o) /\ mem.msg[o].home # a =>
        Exists(N, o) /\ N.msg[o] = mem.msg[o]
  BY <1>3 DEF N, Exists
<1>7. \A c \in Cells : IF mem.str[c].by = a THEN N.str[c].by = None
                       ELSE N.str[c] = mem.str[c]
  BY <1>3, <1>4 DEF N
<1>8. N.held = mem.held
  BY <1>3 DEF N
<1>9. N \in Memory
  <2>1. mem'.msg \in [Objs -> Message \cup {None}]
    BY <1>2, <1>3
  <2>2. mem'.str \in [Cells -> String]
    BY <1>2, <1>3, <1>4
  <2>3. QED
    BY <1>2, <1>3, <2>1, <2>2 DEF Memory, N
<1>10. AtHome(N)
  BY <1>5, <1>7, NameFacts, SMTT(40) DEF AtHome
<1>11. Unshared(N)
  BY <1>5 DEF Good, Unshared
<1>12. HeldApart(N)
  BY <1>1, <1>2, <1>5, <1>7, <1>8 DEF Good, HeldApart
<1>13. NoneLost(N)
  <2> SUFFICES ASSUME NEW d \in Cells, N.str[d].by = Heap, d \notin N.held
               PROVE  \E p \in Objs : Exists(N, p) /\ N.msg[p].name = d
    BY DEF NoneLost
  <2>1. mem.str[d].by = Heap
    BY <1>4, <1>7
  <2>2. PICK p \in Objs : Exists(mem, p) /\ mem.msg[p].name = d
    BY <1>8, <2>1 DEF Good, NoneLost
  <2>3. mem.msg[p].home # a
    BY <1>1, <2>1, <2>2, NameFacts, HelloAssumption
  <2>4. QED
    BY <1>6, <2>2, <2>3
<1>14. Bounded(N)
  BY <1>5 DEF Good, Bounded
<1>15. Good(N)
  BY <1>9, <1>10, <1>11, <1>12, <1>13, <1>14 DEF Good
<1>16. Same(mem, N, Housed(a))
  <2> SUFFICES ASSUME NEW p \in Objs \ Housed(a), Exists(mem, p)
               PROVE  Exists(N, p) /\ Value(N, p) = Value(mem, p)
    BY DEF Same
  <2>1. mem.msg[p].home # a
    BY DEF Housed, Exists, Live
  <2>2. Exists(N, p) /\ N.msg[p] = mem.msg[p]
    BY <1>6, <2>1
  <2>3. mem.msg[p].name # Default => N.str[mem.msg[p].name] = mem.str[mem.msg[p].name]
    BY <1>7, <2>1, NameFacts
  <2>4. QED
    BY <2>2, <2>3 DEF Value, Name
<1>17. QED
  BY <1>15, <1>16 DEF N
-----------------------------------------------------------------------------
\* Room is what the calls need.
LEMMA RoomFacts ==
  ASSUME Room
  PROVE  /\ FreeCells(mem) # {}
         /\ \E c1, c2 \in FreeCells(mem) : c1 # c2
BY DEF Room

\* What a copy constructor and a move constructor do.
LEMMA ConstructFromCorrect ==
  ASSUME NEW M, Good(M), NEW o \in Objs, ~Exists(M, o),
         NEW from \in Objs, Exists(M, from), FreeCells(M) # {}
  PROVE  LET C == Merge(Construct(M, o, Heap), o, from)
             D == Move(Construct(M, o, Heap), o, from)
         IN  /\ Good(C) /\ Same(M, C, {o}) /\ Value(C, o) = Value(M, from)
             /\ Good(D) /\ Same(M, D, {o, from}) /\ Value(D, o) = Value(M, from)
<1> DEFINE N == Construct(M, o, Heap)
<1>1. Heap \in Owner
  BY DEF Owner
<1>2. /\ Good(N) /\ Exists(N, o) /\ Same(M, N, {}) /\ FreeCells(N) = FreeCells(M)
      /\ Value(N, o) = [text |-> << >>, unknown |-> << >>]
  BY <1>1, ConstructCorrect
<1> HIDE DEF N
<1>3. Exists(N, from) /\ Value(N, from) = Value(M, from)
  BY <1>2 DEF Same
<1>4. N.msg[o].unknown = << >> /\ Name(N, o) = << >>
  BY <1>2 DEF Value
<1>5. N.msg[from].unknown \in Seq(Field) /\ Len(N.msg[from].unknown) <= MaxUnknown
  BY <1>2, <1>3, NameFacts DEF Good, Bounded
<1>6. N.msg[o].unknown \o N.msg[from].unknown = N.msg[from].unknown
  BY <1>4, <1>5
<1>7. /\ Good(Merge(N, o, from)) /\ Same(N, Merge(N, o, from), {o})
      /\ Value(Merge(N, o, from), o) = MergeFrom(Value(N, o), Value(N, from))
  BY <1>2, <1>3, <1>5, <1>6, MergeCorrect
<1>8. MergeFrom(Value(N, o), Value(N, from)) = Value(N, from)
  BY <1>4, <1>6 DEF MergeFrom, Value
<1>9. /\ Good(Move(N, o, from)) /\ Same(N, Move(N, o, from), {o, from})
      /\ Value(Move(N, o, from), o) = Value(N, from)
  BY <1>2, <1>3, MoveCorrect
<1>10. Same(M, Merge(N, o, from), {o}) /\ Same(M, Move(N, o, from), {o, from})
  BY <1>2, <1>7, <1>9 DEF Same
<1>11. QED
  BY <1>3, <1>7, <1>8, <1>9, <1>10 DEF N

\* Nothing exists at first.
LEMMA InitGood == Init => Good(mem)
<1> SUFFICES ASSUME Init PROVE Good(mem)
  OBVIOUS
<1>1. NoString \in String /\ NoString.by = None /\ None # Heap
  BY HelloAssumption DEF NoString, String, Owner
<1>2. /\ mem.msg = [o \in Objs |-> None] /\ mem.str = [c \in Cells |-> NoString]
      /\ mem.held = {}
  BY DEF Init
<1>3. mem \in Memory
  BY <1>1 DEF Init, Memory
<1>4. \A o \in Objs : ~Exists(mem, o)
  BY <1>2 DEF Exists
<1>5. QED
  BY <1>1, <1>2, <1>3, <1>4
  DEF Good, AtHome, Unshared, HeldApart, NoneLost, Bounded

\* Every call keeps ownership in order.
LEMMA NextGood == Good(mem) /\ [Next]_mem => Good(mem')
<1> SUFFICES ASSUME Good(mem), [Next]_mem PROVE Good(mem')
  OBVIOUS
<1> USE DEF Live, Exists
<1>1. ASSUME NEW o \in Objs, NEW a \in Arenas \cup {Heap}, New(o, a)
      PROVE  Good(mem')
  <2>1. a \in Owner
    BY DEF Owner
  <2>2. QED
    BY <1>1, <2>1, ConstructCorrect DEF New
<1>2. ASSUME NEW o \in Objs, NEW p \in Objs, CopyConstruct(o, p) PROVE Good(mem')
  BY <1>2, RoomFacts, ConstructFromCorrect DEF CopyConstruct
<1>3. ASSUME NEW o \in Objs, NEW p \in Objs, MoveConstruct(o, p) PROVE Good(mem')
  BY <1>3, RoomFacts, ConstructFromCorrect DEF MoveConstruct
<1>4. ASSUME NEW o \in Objs, Delete(o) PROVE Good(mem')
  BY <1>4, DestructCorrect DEF Delete
<1>5. ASSUME NEW o \in Objs, NEW v \in Names, set_name(o, v) PROVE Good(mem')
  <2>1. v \in Seq(Nat)
    BY HelloAssumption
  <2>2. QED
    BY <1>5, <2>1, RoomFacts, SetCorrect DEF set_name
<1>6. ASSUME NEW o \in Objs, clear_name(o) PROVE Good(mem')
  BY <1>6, ClearToEmptyCorrect DEF clear_name
<1>7. ASSUME NEW o \in Objs, release_name(o) PROVE Good(mem')
  BY <1>7, RoomFacts, ReleaseCorrect DEF release_name
<1>8. ASSUME NEW o \in Objs, NEW c \in mem.held \cup {None}, set_allocated_name(o, c)
      PROVE  Good(mem')
  BY <1>8, SetAllocatedCorrect DEF set_allocated_name
<1>9. ASSUME NEW o \in Objs, ClearMessage(o) PROVE Good(mem')
  BY <1>9, ClearCorrect DEF ClearMessage
<1>10. ASSUME NEW o \in Objs, NEW p \in Objs, MergeMessage(o, p) PROVE Good(mem')
  BY <1>10, RoomFacts, MergeCorrect DEF MergeMessage
<1>11. ASSUME NEW o \in Objs, NEW p \in Objs, CopyMessage(o, p) PROVE Good(mem')
  BY <1>11, RoomFacts, CopyCorrect DEF CopyMessage
<1>12. ASSUME NEW o \in Objs, NEW p \in Objs, MoveMessage(o, p) PROVE Good(mem')
  BY <1>12, RoomFacts, MoveCorrect DEF MoveMessage
<1>13. ASSUME NEW o \in Objs, NEW p \in Objs, Swap(o, p) PROVE Good(mem')
  BY <1>13, RoomFacts, ExchangeCorrect DEF Swap
<1>14. ASSUME NEW o \in Objs, NEW p \in Objs, UnsafeArenaSwap(o, p)
       PROVE  Good(mem')
  BY <1>14, InternalSwapCorrect DEF UnsafeArenaSwap
<1>15. ASSUME NEW o \in Objs, NEW w \in Wires, ParseFromString(o, w)
       PROVE  Good(mem')
  BY <1>15, RoomFacts, ParsedCorrect DEF ParseFromString, Parsed
<1>16. ASSUME NEW c \in mem.held, DeleteString(c) PROVE Good(mem')
  BY <1>16, DeleteStringCorrect DEF DeleteString
<1>17. ASSUME NEW a \in Arenas, DeleteArena(a) PROVE Good(mem')
  BY <1>17, DeleteArenaCorrect
<1>18. CASE UNCHANGED mem
  BY <1>18
<1>19. QED
  BY <1>1, <1>2, <1>3, <1>4, <1>5, <1>6, <1>7, <1>8, <1>9, <1>10, <1>11, <1>12,
     <1>13, <1>14, <1>15, <1>16, <1>17, <1>18
  DEF Next

\* Ownership is always in order.
LEMMA Invariance == Spec => []Ownership
<1>1. Init => Ownership
  BY InitGood DEF Ownership
<1>2. Ownership /\ [Next]_mem => Ownership'
  BY NextGood DEF Ownership
<1>3. QED
  BY <1>1, <1>2, PTL DEF Spec

\* The type invariant.
THEOREM TypeCorrect == Spec => []TypeOK
<1>1. Ownership => TypeOK
  BY DEF Ownership, Good, Bounded, Exists, TypeOK, Live
<1>2. QED
  BY <1>1, Invariance, PTL

\* Whatever is created, copied, moved, swapped, released and destroyed, a string
\* on the heap has exactly one owner, and one of an arena is in no user's hands.
THEOREM StringsHaveOneOwner == Spec => []SoleOwner
<1>1. Ownership => SoleOwner
  <2> SUFFICES ASSUME Good(mem), NEW c \in Cells
               PROVE  LET users == Cardinality(mem.held \cap {c})
                          n == Cardinality(Pointing(c))
                      IN  CASE mem.str[c].by = None -> users + n = 0
                            [] mem.str[c].by = Heap -> users + n = 1
                            [] OTHER -> users = 0 /\ n <= 1
    BY DEF Ownership, SoleOwner
  <2> DEFINE users == Cardinality(mem.held \cap {c})
             n == Cardinality(Pointing(c))
  <2>1. c # Default /\ None # Heap
    BY HelloAssumption DEF Owner
  <2>2. /\ c \in mem.held => users = 1
        /\ c \notin mem.held => users = 0
    <3>1. c \in mem.held => mem.held \cap {c} = {c}
      OBVIOUS
    <3>2. c \notin mem.held => mem.held \cap {c} = {}
      OBVIOUS
    <3>3. QED
      BY <3>1, <3>2, FS_Singleton, FS_EmptySet
  <2>3. Pointing(c) = {} => n = 0
    BY FS_EmptySet
  <2>4. ASSUME NEW o \in Pointing(c)
        PROVE  n = 1 /\ mem.str[c].by = mem.msg[o].home /\ mem.str[c].by # None
               /\ c \notin mem.held
    <3>1. o \in Objs /\ Exists(mem, o) /\ mem.msg[o].name = c
      BY DEF Pointing, Live, Exists
    <3>2. Pointing(c) = {o}
      BY <2>1, <3>1 DEF Pointing, Live, Exists, Good, Unshared
    <3>3. n = 1
      BY <3>2, FS_Singleton
    <3>4. mem.str[c].by = mem.msg[o].home /\ mem.str[c].by # None
      BY <2>1, <3>1, NameFacts
    <3>5. c \notin mem.held
      BY <3>1 DEF Good, HeldApart
    <3>6. QED
      BY <3>3, <3>4, <3>5
  <2>5. c \in mem.held => mem.str[c].by = Heap
    BY DEF Good, HeldApart
  <2>6. mem.str[c].by = Heap => c \in mem.held \/ Pointing(c) # {}
    BY DEF Good, NoneLost, Pointing, Live, Exists
  <2> HIDE DEF users, n
  <2>7. CASE mem.str[c].by = None
    <3>1. users = 0 /\ n = 0
      BY <2>1, <2>2, <2>3, <2>4, <2>5, <2>7
    <3>2. QED
      BY <2>1, <2>7, <3>1 DEF users, n
  <2>8. CASE mem.str[c].by = Heap
    <3>1. (users = 1 /\ n = 0) \/ (users = 0 /\ n = 1)
      BY <2>2, <2>3, <2>4, <2>6, <2>8
    <3>2. users + n = 1
      BY <3>1
    <3>3. QED
      BY <2>1, <2>8, <3>2 DEF users, n
  <2>9. CASE mem.str[c].by # None /\ mem.str[c].by # Heap
    <3>1. users = 0 /\ n \in {0, 1}
      BY <2>2, <2>3, <2>4, <2>5, <2>9
    <3>2. QED
      BY <2>9, <3>1 DEF users, n
  <2>10. QED
    BY <2>7, <2>8, <2>9
<1>2. QED
  BY <1>1, Invariance, PTL

\* No name_ points into an arena its message is not on, and no metadata names
\* another arena than the message's.
THEOREM StringsStayHome == Spec => []StaysHome
<1>1. Ownership => StaysHome
  BY DEF Ownership, Good, AtHome, Exists, StaysHome, Live
<1>2. QED
  BY <1>1, Invariance, PTL

\* No other message notices.
LEMMA SameIsBystanders ==
  ASSUME NEW S, Same(mem, mem', S)
  PROVE  Bystanders(S)
BY DEF Same, Exists, Bystanders, Live, V

\* Messages behave as values: every call gives its messages what it says it
\* does, and changes no other, on the heap and on any arenas.
THEOREM MessagesAreValues == Spec => ValueSemantics
<1> DEFINE Values(a, b) ==
       /\ Swap(a, b) => V(a)' = V(b) /\ V(b)' = V(a) /\ Bystanders({a, b})
       /\ UnsafeArenaSwap(a, b) => V(a)' = V(b) /\ V(b)' = V(a) /\ Bystanders({a, b})
       /\ MoveMessage(a, b) => V(a)' = V(b) /\ Bystanders({a, b})
       /\ MoveConstruct(a, b) => V(a)' = V(b) /\ Bystanders({a, b})
       /\ CopyMessage(a, b) => V(a)' = V(b) /\ Bystanders({a})
       /\ CopyConstruct(a, b) => V(a)' = V(b) /\ Bystanders({a})
       /\ MergeMessage(a, b) => V(a)' = MergeFrom(V(a), V(b)) /\ Bystanders({a})
       /\ release_name(a) =>
            /\ V(a)' = [V(a) EXCEPT !.text = <<>>] /\ Bystanders({a})
            /\ \A c \in mem'.held \ mem.held : mem'.str[c].val = V(a).text
       /\ \A c \in mem.held : set_allocated_name(a, c) =>
            V(a)' = [V(a) EXCEPT !.text = mem.str[c].val] /\ Bystanders({a})
       /\ set_allocated_name(a, None) \/ clear_name(a) =>
            V(a)' = [V(a) EXCEPT !.text = <<>>] /\ Bystanders({a})
       /\ \A v \in Names : set_name(a, v) =>
            V(a)' = [V(a) EXCEPT !.text = v] /\ Bystanders({a})
       /\ ClearMessage(a) =>
            V(a)' = [text |-> <<>>, unknown |-> <<>>] /\ Bystanders({a})
       /\ \A h \in Arenas \cup {Heap} : New(a, h) =>
            V(a)' = [text |-> <<>>, unknown |-> <<>>] /\ Bystanders({a})
       /\ Delete(a) => Bystanders({a})
       /\ \A h \in Arenas : DeleteArena(h) => Bystanders(Housed(h))
       /\ \A c \in mem.held : DeleteString(c) => Bystanders({})
<1>1. ASSUME Good(mem), NEW a \in Objs, NEW b \in Objs
      PROVE  Values(a, b)
  <2> USE DEF Live, Exists
  <2>1. Swap(a, b) => V(a)' = V(b) /\ V(b)' = V(a) /\ Bystanders({a, b})
    BY <1>1, RoomFacts, ExchangeCorrect, SameIsBystanders DEF Swap, V
  <2>2. MoveMessage(a, b) => V(a)' = V(b) /\ Bystanders({a, b})
    BY <1>1, RoomFacts, MoveCorrect, SameIsBystanders DEF MoveMessage, V
  <2>3. MoveConstruct(a, b) => V(a)' = V(b) /\ Bystanders({a, b})
    BY <1>1, RoomFacts, ConstructFromCorrect, SameIsBystanders, ZenonT(60)
    DEF MoveConstruct, V
  <2>4. CopyMessage(a, b) => V(a)' = V(b) /\ Bystanders({a})
    BY <1>1, RoomFacts, CopyCorrect, SameIsBystanders DEF CopyMessage, V
  <2>5. CopyConstruct(a, b) => V(a)' = V(b) /\ Bystanders({a})
    BY <1>1, RoomFacts, ConstructFromCorrect, SameIsBystanders, ZenonT(60)
    DEF CopyConstruct, V
  <2>6. MergeMessage(a, b) => V(a)' = MergeFrom(V(a), V(b)) /\ Bystanders({a})
    BY <1>1, RoomFacts, MergeCorrect, SameIsBystanders DEF MergeMessage, V
  <2>7. release_name(a) =>
          /\ V(a)' = [V(a) EXCEPT !.text = <<>>] /\ Bystanders({a})
          /\ \A c \in mem'.held \ mem.held : mem'.str[c].val = V(a).text
    <3> SUFFICES ASSUME release_name(a)
                 PROVE  /\ V(a)' = [V(a) EXCEPT !.text = <<>>] /\ Bystanders({a})
                        /\ \A c \in mem'.held \ mem.held : mem'.str[c].val = V(a).text
      OBVIOUS
    <3>1. /\ Same(mem, mem', {a})
          /\ Value(mem', a) = [text |-> << >>, unknown |-> mem.msg[a].unknown]
          /\ \A c \in mem'.held \ mem.held : mem'.str[c].val = Name(mem, a)
      BY <1>1, RoomFacts, ReleaseCorrect DEF release_name
    <3>2. QED
      BY <3>1, SameIsBystanders DEF V, Value
  <2>8. ASSUME NEW c \in mem.held, set_allocated_name(a, c)
        PROVE  V(a)' = [V(a) EXCEPT !.text = mem.str[c].val] /\ Bystanders({a})
    <3>1. c # None
      BY <1>1, Parts, HelloAssumption DEF Good
    <3>2. /\ Same(mem, mem', {a})
          /\ Value(mem', a) = [text |-> IF c = None THEN << >> ELSE mem.str[c].val,
                               unknown |-> mem.msg[a].unknown]
      BY <1>1, <2>8, SetAllocatedCorrect DEF set_allocated_name
    <3>3. QED
      BY <3>1, <3>2, SameIsBystanders DEF V, Value
  <2>9. ASSUME set_allocated_name(a, None) \/ clear_name(a)
        PROVE  V(a)' = [V(a) EXCEPT !.text = <<>>] /\ Bystanders({a})
    <3>1. /\ Same(mem, mem', {a})
          /\ Value(mem', a) = [text |-> << >>, unknown |-> mem.msg[a].unknown]
      <4>1. CASE set_allocated_name(a, None)
        BY <1>1, <4>1, SetAllocatedCorrect DEF set_allocated_name
      <4>2. CASE clear_name(a)
        BY <1>1, <4>2, ClearToEmptyCorrect DEF clear_name
      <4>3. QED
        BY <2>9, <4>1, <4>2
    <3>2. QED
      BY <3>1, SameIsBystanders DEF V, Value
  <2>10. ASSUME NEW v \in Names, set_name(a, v)
         PROVE  V(a)' = [V(a) EXCEPT !.text = v] /\ Bystanders({a})
    <3>1. v \in Seq(Nat)
      BY HelloAssumption
    <3>2. /\ Same(mem, mem', {a})
          /\ Value(mem', a) = [text |-> v, unknown |-> mem.msg[a].unknown]
      BY <1>1, <2>10, <3>1, RoomFacts, SetCorrect DEF set_name
    <3>3. QED
      BY <3>2, SameIsBystanders DEF V, Value
  <2>11. ClearMessage(a) => V(a)' = [text |-> <<>>, unknown |-> <<>>] /\ Bystanders({a})
    BY <1>1, ClearCorrect, SameIsBystanders DEF ClearMessage, V
  <2>12. ASSUME NEW h \in Arenas \cup {Heap}, New(a, h)
         PROVE  V(a)' = [text |-> <<>>, unknown |-> <<>>] /\ Bystanders({a})
    <3>1. h \in Owner
      BY DEF Owner
    <3>2. /\ Same(mem, mem', {})
          /\ Value(mem', a) = [text |-> << >>, unknown |-> << >>]
      BY <1>1, <2>12, <3>1, ConstructCorrect DEF New
    <3>3. Same(mem, mem', {a})
      BY <3>2 DEF Same
    <3>4. QED
      BY <3>2, <3>3, SameIsBystanders DEF V
  <2>13. Delete(a) => Bystanders({a})
    BY <1>1, DestructCorrect, SameIsBystanders DEF Delete
  <2>14. \A h \in Arenas : DeleteArena(h) => Bystanders(Housed(h))
    BY <1>1, DeleteArenaCorrect, SameIsBystanders
  <2>15. \A c \in mem.held : DeleteString(c) => Bystanders({})
    BY <1>1, DeleteStringCorrect, SameIsBystanders DEF DeleteString
  <2>16. UnsafeArenaSwap(a, b) => V(a)' = V(b) /\ V(b)' = V(a) /\ Bystanders({a, b})
    <3> SUFFICES ASSUME UnsafeArenaSwap(a, b)
                 PROVE  V(a)' = V(b) /\ V(b)' = V(a) /\ Bystanders({a, b})
      OBVIOUS
    <3>1. CASE a = b
      BY <3>1 DEF UnsafeArenaSwap, V, Bystanders
    <3>2. CASE a # b
      BY <1>1, <3>2, InternalSwapCorrect, SameIsBystanders DEF UnsafeArenaSwap, V
    <3>3. QED
      BY <3>1, <3>2
  <2>17. QED
    BY <2>1, <2>2, <2>3, <2>4, <2>5, <2>6, <2>7, <2>8, <2>9, <2>10, <2>11, <2>12,
       <2>13, <2>14, <2>15, <2>16
<1>2. Ownership => [\A a, b \in Objs : Values(a, b)]_mem
  BY <1>1 DEF Ownership
<1>3. QED
  BY <1>2, Invariance, PTL DEF ValueSemantics

\* A message that is used again for parsing says what was read, nothing more.
THEOREM ParsingReplaces == Spec => ParseReplaces
<1>1. Ownership => [\A o \in Objs, w \in Wires :
        ParseFromString(o, w) /\ Parse(w).status = "ok" =>
          V(o)' = Parse(w).msg /\ Bystanders({o})]_mem
  <2> SUFFICES ASSUME Good(mem), NEW o \in Objs, NEW w \in Wires,
                      ParseFromString(o, w)
               PROVE  V(o)' = Parse(w).msg /\ Bystanders({o})
    BY DEF Ownership
  <2>1. Exists(mem, o) /\ Room /\ mem' = Parsed(mem, o, w)
    BY DEF ParseFromString, Parsed, Live, Exists
  <2>2. Same(mem, mem', {o}) /\ Value(mem', o) = Parse(w).msg
    BY <2>1, RoomFacts, ParsedCorrect
  <2>3. QED
    BY <2>2, SameIsBystanders DEF V
<1>2. QED
  BY <1>1, Invariance, PTL DEF ParseReplaces

\* In every state the wire format and the code of src/helloworld.pb.cc agree on
\* what the sequences of fields mean and on what is no field.
THEOREM WireIsParsed == Spec => []WireParses
<1>1. WireParses
  BY ParsesFieldsHolds DEF WireParses
<1>2. QED
  BY <1>1, PTL

\* In every state a message is read back as it was written, and has the size that
\* ByteSizeLong says.
THEOREM WireReturns == Spec => []WireRoundTrip
<1>1. WireRoundTrip
  BY RoundTripHolds DEF WireRoundTrip
<1>2. QED
  BY <1>1, PTL

\* In every state MergeFrom is concatenation on the wire.
THEOREM WireConcatenates == Spec => []WireMerges
<1>1. WireMerges
  BY MergeIsConcatenationHolds DEF WireMerges
<1>2. QED
  BY <1>1, PTL
=============================================================================
