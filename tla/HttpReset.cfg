\* A server that resets the connection.
CONSTANTS
  Data = {"x", "y", "z", "0", "1", "CR", "LF"}
  Responses <- ResetResponses
  Stale <- MCStale
  BufferMax = 4
SPECIFICATION ResetSpec
INVARIANTS
  OnlyFileData
CHECK_DEADLOCK FALSE
