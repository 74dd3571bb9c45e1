\* A register that holds the number of another.
CONSTANTS
  ImmBits = 6
  UpperShift = 2
  BitAnd <- ByteAnd
  BitOr <- ByteOr
  BitXor <- ByteXor
  Fields <- MCFields
  Region = 64
  MemSize = 40
  TextBound = 23
  GlobalData = 24
  StackTop = 39
  Programs <- CollidingPrograms
  Presets <- CollidingPresets
  Inputs = {}
  Lines = {}
  Descriptors = {}
  ByteBits = 4
  HalfwordBits = 6
SPECIFICATION BothSpec
INVARIANT Conforms
\* The system stops when the program halts.
CHECK_DEADLOCK FALSE
