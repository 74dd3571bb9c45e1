\* Programs with loops and calls, for many operands.
CONSTANTS
  ImmBits = 6
  UpperShift = 2
  BitAnd <- ByteAnd
  BitOr <- ByteOr
  BitXor <- ByteXor
  Fields <- MCFields
  Region = 64
  MemSize = 40
  TextBound = 23
  GlobalData = 24
  StackTop = 39
  Programs <- AllWords
  Presets <- Pairs
  Inputs = {}
  Lines = {}
  Descriptors = {}
  ByteBits = 4
  HalfwordBits = 6
SPECIFICATION Spec
INVARIANTS
  GcdComputed
  ProductComputed
  CallReturns
  StackBalanced
  ByteKept
PROPERTY Halts
\* The system stops when the program halts or faults.
CHECK_DEADLOCK FALSE
