\* Two sessions create entries and look up paths.
CONSTANTS
  c1 = c1
  c2 = c2
  c3 = c3
  a = a
  ab = ab
  h = h
  dot = dot
  dotdot = dotdot
  none = none
  Clients = {c1, c2}
  Dot = dot
  DotDot = dotdot
  Empty = none
  NewNames = {ab}
  Names <- MCNames
  Prefix <- MCPrefix
  Paths <- WalkPaths
  Ops = {"MKD", "STOR", "CWD", "CDUP"}
  Garbage = {}
  MaxIds = 2
SYMMETRY Symmetry
SPECIFICATION Spec
INVARIANTS
  ParentBelowChild
  HeldDirsExist
  CwdParentFresh
  FoundIfCommitted
PROPERTIES
  ResolutionStable
  TreeSpec
