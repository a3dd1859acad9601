------------------------------ MODULE MCHello ------------------------------
(***************************************************************************)
(* HelloMessage and HelloWire for TLC.                                     *)
(***************************************************************************)
EXTENDS HelloMessage, TLC

Text(n) == [i \in 1..n |-> 97]

\* One letter, a byte that is not UTF-8, and the sizes around 128, where the
\* length of the text takes a second byte.
MCTexts == {<<>>, Text(1), <<97, 200>>, Text(127), Text(128)}

Sample(w, t, v, b) == [wire |-> w, field |-> [tag |-> t, varint |-> v, bytes |-> b]]

\* Texts, with padded lengths and tags; field 1 with other types; field 2.
MCSamples ==
  {Sample(<<10, 1, 97>>, 10, 0, <<97>>),
   Sample(<<10, 130, 0, 98, 98>>, 10, 0, <<98, 98>>),
   Sample(<<138, 0, 0>>, 10, 0, <<>>),
   Sample(<<10, 1, 200>>, 10, 0, <<200>>),
   Sample(<<8, 1>>, 8, 1, <<>>),
   Sample(<<13, 1, 0, 2, 3>>, 13, 0, <<1, 0, 2, 3>>),
   Sample(<<16, 172, 2>>, 16, 300, <<>>),
   Sample(<<18, 2, 8, 1>>, 18, 0, <<8, 1>>),
   Sample(<<17, 0, 0, 0, 0, 0, 0, 0, 9>>, 17, 0, <<0, 0, 0, 0, 0, 0, 0, 9>>)}

\* Cut off in the tag, the length and the payload; a tag that ends a group, tag
\* 0, field number 0, an undefined wire type, a tag of six bytes.
MCBroken ==
  {<<128>>, <<10>>, <<10, 128>>, <<10, 2, 97>>, <<18, 1>>, <<8>>, <<13, 0, 0, 0>>,
   <<12>>, <<0>>, <<2, 0>>, <<14, 0>>, <<128, 128, 128, 128, 128, 0>>}

MCInputs == BoundedSeq({0, 1, 8, 10, 97, 138}, 4)

MCNames == {<<>>, Text(1)}

\* A name, an empty name, an unknown field, a name cut off.
MCWires == {<<10, 1, 98>>, <<10, 0>>, <<8, 1>>, <<10, 2, 98>>}

Symmetry == Permutations(Objs) \cup Permutations(Arenas)
=============================================================================
