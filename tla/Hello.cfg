SPECIFICATION Spec
CONSTANTS
  Texts <- MCTexts
  Samples <- MCSamples
  Broken <- MCBroken
  Inputs <- MCInputs
  Names <- MCNames
  Wires <- MCWires
  Objs = {m1, m2}
  Arenas = {a1, a2}
  Cells = {1, 2, 3, 4}
  MaxUnknown = 1
  Heap = heap
  Default = default
  None = none
SYMMETRY Symmetry
INVARIANTS
  TypeOK
  SoleOwner
  StaysHome
  WireParses
  WireRoundTrip
  WireMerges
PROPERTIES
  ValueSemantics
  ParseReplaces
