\* One session at a time uses every command, on a Redis server that is empty at
\* first, and dies anywhere.
CONSTANTS
  c1 = c1
  c2 = c2
  c3 = c3
  a = a
  ab = ab
  h = h
  dot = dot
  dotdot = dotdot
  none = none
  Clients = {c1}
  Dot = dot
  DotDot = dotdot
  Empty = none
  NewNames = {a, ab}
  Names <- MCNames
  Prefix <- MCPrefix
  Paths <- DotPaths
  Ops = {"MKD", "STOR", "CREATE", "CWD", "SIZE", "CDUP", "RETR", "GETATTR", "DELE", "MV", "PWD", "LIST"}
  Garbage = {1}
  MaxIds = 2
SPECIFICATION ColdFairSpec
INVARIANTS
  TypeOK
  BuiltWhenCreated
PROPERTIES
  CreateAddsNewName
  RequestsEnd
