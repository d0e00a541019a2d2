\* Every way to cut files of up to four blocks, uploaded, downloaded and read in
\* parts.
CONSTANTS
  BlockSize = 4
  ReadMax = 6
  MaxSize = 13
SPECIFICATION RangeSpec
INVARIANTS
  TypeOK
  StoredInOrder
  SentInOrder
  RoundTrip
  RangeTypeOK
  OnlyRange
  ReadWhole
  BlocksSafe
CHECK_DEADLOCK FALSE
