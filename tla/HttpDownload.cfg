\* Every segmentation of responses of each framing, and servers that close
\* anywhere.
CONSTANTS
  Data = {"x", "y", "z", "0", "1", "CR", "LF"}
  Responses <- MCResponses
  Stale = {}
  BufferMax = 4
SPECIFICATION Spec
INVARIANTS
  TypeOK
  EndIsWhole
  OneBytePast
PROPERTIES
  ZeroIsFinal
  StreamSpec
  CallsReturn
  FileArrives
CHECK_DEADLOCK FALSE
