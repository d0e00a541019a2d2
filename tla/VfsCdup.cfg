\* A session sends CDUP at the root.
CONSTANTS
  c1 = c1
  c2 = c2
  c3 = c3
  a = a
  ab = ab
  h = h
  dot = dot
  dotdot = dotdot
  none = none
  Clients = {c1}
  Dot = dot
  DotDot = dotdot
  Empty = none
  NewNames = {a}
  Names <- MCNames
  Prefix <- MCPrefix
  Paths = {}
  Ops = {"CDUP"}
  Garbage = {0, 1}
  MaxIds = 1
SPECIFICATION Spec
INVARIANT CwdExists
