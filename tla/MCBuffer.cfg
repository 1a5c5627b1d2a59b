CONSTANTS
  Buffers = {b1, b2}
  Bytes = {x}
  NUL = NUL
  RAW = RAW
  RESERVED_SIZE = 1
  VarintRoom = 3
  VarintMax = 2
  MaxLen = 2
SPECIFICATION Spec
INVARIANTS TypeOK Terminated
PROPERTIES AppendBufferExact DumpIntExact
