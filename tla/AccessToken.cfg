\* The two servers of one directory, and two grants of the user.
CONSTANTS
  Servers = {ftp, http}
  Grants = {g1, g2}
  NoToken = none
  Absent = absent
  Empty = empty
SPECIFICATION Spec
INVARIANTS
  TypeOK
  InitPromise
  EmptyOnlyByKill
