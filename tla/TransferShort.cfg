\* A part of the upload that completes no block.
CONSTANTS
  BlockSize = 3
  ReadMax = 4
  MaxSize = 4
SPECIFICATION RangeSpec
INVARIANT StoredWhole
CHECK_DEADLOCK FALSE
