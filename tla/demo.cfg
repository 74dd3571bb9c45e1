\* The programs of demo.cpp and refused texts, from their text to the end of the run.
CONSTANTS
  ImmBits = 6
  UpperShift = 2
  BitAnd <- ByteAnd
  BitOr <- ByteOr
  BitXor <- ByteXor
  Fields <- MCFields
  Region = 64
  MemSize = 40
  TextBound = 23
  GlobalData = 24
  StackTop = 39
  Programs <- NoProgram
  Presets <- NoPresets
  Inputs = {}
  Lines = {}
  Descriptors = {}
  ByteBits = 4
  HalfwordBits = 6
  Texts <- MCTexts
  WordCode <- MCCode
SPECIFICATION DemoSpec
INVARIANTS
  Expected
  RightMessage
  StoresAgree
  ZeroStaysZero
  RefusedNeverHalts
PROPERTY RunEnds
\* The system stops when the program halts.
CHECK_DEADLOCK FALSE
