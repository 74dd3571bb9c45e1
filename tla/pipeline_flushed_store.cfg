\* Stores in the instructions a jump flushes.
CONSTANTS
  ImmBits = 6
  UpperShift = 2
  BitAnd <- ByteAnd
  BitOr <- ByteOr
  BitXor <- ByteXor
  Fields <- MCFields
  Region = 64
  MemSize = 40
  TextBound = 23
  GlobalData = 24
  StackTop = 39
  Programs <- JumpPrograms
  Presets <- MCPresets
  Inputs = {3}
  Lines <- MCLines
  Descriptors = {3, 4}
SPECIFICATION Spec
PROPERTY StoresOnly
\* The system stops when the program halts or faults.
CHECK_DEADLOCK FALSE
