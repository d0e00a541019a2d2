\* A client that waits for its replies, one name of which has an accent, and a
\* session that is short of descriptors in the end.
CONSTANTS
  Commands <- MCCommands
  Letters = {"p", "q", "accent"}
  Unprintable = {"accent"}
  ValidUser <- Short
  ValidPass <- Long
  ParamSize = 3
  MaxFd = 9
  MaxWire = 1
  MaxData = 2
  Synchronous = TRUE
  WholeLines = TRUE
SPECIFICATION Spec
INVARIANTS
  TypeOK
  AsSent
  DataFdIsData
  NoDescriptorLeak
  ControlKept
  UploadWhole
PROPERTIES
  CommandAnswered
