\* Three sessions create entries and list the root, and die in the middle.
CONSTANTS
  c1 = c1
  c2 = c2
  c3 = c3
  a = a
  ab = ab
  h = h
  dot = dot
  dotdot = dotdot
  none = none
  Clients = {c1, c2, c3}
  Dot = dot
  DotDot = dotdot
  Empty = none
  NewNames = {a}
  Names <- MCNames
  Prefix <- MCPrefix
  Paths = {}
  Ops = {"MKD", "STOR", "LIST"}
  Garbage = {}
  MaxIds = 2
SYMMETRY Symmetry
SPECIFICATION Spec
INVARIANTS
  CountAboveIds
  EntryConsistent
  ListingComplete
PROPERTIES
  EntriesKept
