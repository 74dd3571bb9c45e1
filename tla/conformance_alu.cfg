\* Straight-line arithmetic on both engines.
CONSTANTS
  ImmBits = 6
  UpperShift = 2
  BitAnd <- ByteAnd
  BitOr <- ByteOr
  BitXor <- ByteXor
  Fields <- MCFields
  Region = 64
  MemSize = 40
  TextBound = 23
  GlobalData = 24
  StackTop = 39
  Programs <- AluPrograms
  Presets <- MCPresets
  Inputs = {}
  Lines = {}
  Descriptors = {}
  ByteBits = 4
  HalfwordBits = 6
SPECIFICATION BothSpec
INVARIANTS Conforms NumbersApart
PROPERTY BothHalt
\* The system stops when the program halts.
CHECK_DEADLOCK FALSE
