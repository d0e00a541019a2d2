\* Two sessions make directories in different directories at the same time.
CONSTANTS
  c1 = c1
  c2 = c2
  c3 = c3
  a = a
  ab = ab
  h = h
  dot = dot
  dotdot = dotdot
  none = none
  Clients = {c1, c2}
  Dot = dot
  DotDot = dotdot
  Empty = none
  NewNames = {a}
  Names <- MCNames
  Prefix <- MCPrefix
  Paths <- OnePath
  Ops = {"MKD", "CWD"}
  Garbage = {}
  MaxIds = 3
SPECIFICATION Spec
INVARIANT ParentIsContainer
