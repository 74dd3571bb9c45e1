\* Every short program on the engine without a pipeline.
CONSTANTS
  ImmBits = 6
  UpperShift = 2
  BitAnd <- ByteAnd
  BitOr <- ByteOr
  BitXor <- ByteXor
  Fields <- MCFields
  Region = 64
  MemSize = 40
  TextBound = 23
  GlobalData = 24
  StackTop = 39
  Programs <- ShortPrograms
  Presets <- MCPresets
  Inputs = {3}
  Lines <- MCLines
  Descriptors = {3, 4}
  ByteBits = 4
  HalfwordBits = 6
SPECIFICATION Spec
INVARIANTS
  TypeOK
  PcMirrored
PROPERTIES
  SyscallsSpareText
  LinesKept
\* The system stops when the program halts or faults.
CHECK_DEADLOCK FALSE
