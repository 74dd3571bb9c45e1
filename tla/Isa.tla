--------------------------------- MODULE Isa ---------------------------------
(***************************************************************************)
(* The instruction set: opcodes.h, registers.h, syscalls.h, and the bit    *)
(* fields decode() and decodeExecute() cut out of an instruction word.     *)
(***************************************************************************)
EXTENDS Words

(* enum Registers: the numbers the code uses by name *)
Reg == 0 .. 31
V0 == 2
A0 == 4
A1 == 5
A2 == 6
A3 == 7
T0 == 8
GP == 28
SP == 29
RA == 31

(* enum Opcode: function codes of R_TYPE words, and opcodes *)
Functions  == {"ADD", "SUB", "MULT", "DIV", "MFHI", "MFLO", "AND", "OR", "XOR",
               "NOR", "SLL", "SRL", "JALR"}
AluImm     == {"ADDI", "ANDI", "ORI", "XORI", "LUI", "LI"}
Loads      == {"LW", "LB", "LH"}
Stores     == {"SW", "SB", "SH"}
Branches   == {"BEQ", "BNE", "BGEZ", "BGTZ", "BLEZ", "BLTZ"}
Jumps      == {"J", "JAL"}
(* The opcode field may name no instruction.  decode() takes such a word   *)
(* for an I-type and execute() has no case for it, but the code compares   *)
(* opcodes with function codes: setControlSignals takes those of Misread   *)
(* for R-types, and WB() looks for ADD among loads.  All other numbers are *)
(* "UNDEFINED".                                                            *)
Misread    == {"SRL", "MFHI", "MFLO", "MULT", "DIV"}
Undefined  == Misread \cup {"ADD", "UNDEFINED"}
Immediates == AluImm \cup Loads \cup Stores \cup Branches \cup Undefined
Opcodes    == {"R_TYPE", "SYSCALL"} \cup Jumps \cup Immediates

Instruction == [op : Opcodes, rs : Reg, rt : Reg, rd : Reg, shamt : 0 .. 63,
                fn : Functions \cup {"UNDEFINED"}, imm : Imm, target : Word]

(* enum Syscall *)
PRINT_INT        == 1
PRINT_STRING     == 4
READ_INT         == 5
READ_STRING      == 8
EXIT             == 9
EXIT_STATUS      == 10
OPEN_FILE        == 13
READ_FILE        == 14
WRITE_FILE       == 15
CLOSE_FILE       == 16
EXIT_WITH_STATUS == 17

CONSTANTS
  Fields,   \* the fields the shifts and masks of decode() cut out of a word
  Region    \* words a jump cannot leave: utils::jumpOffset keeps the top 4 bits of pc

(* The word 0 is what flushed latches and untouched memory hold: it is     *)
(* SLL $zero, $zero, 0.                                                    *)
ASSUME FieldsAssumption ==
  /\ Fields \in [Word -> Instruction]
  /\ Fields[0].op = "R_TYPE"
ASSUME RegionAssumption == Region \in Nat \ {0}

(* utils::jumpOffset and jumpOffsetPipeline: upper bits of base, then the target *)
JumpOffset(base, target) == Wrap((base \div Region) * Region + target)

(* results both execution engines compute with the same expression *)
RegisterResult(fn, a, b, shamt) ==
  CASE fn = "ADD"  -> Add(a, b)
    [] fn = "SUB"  -> Sub(a, b)
    [] fn = "MULT" -> Mult(a, b)
    [] fn = "AND"  -> BitAnd(a, b)
    [] fn = "OR"   -> BitOr(a, b)
    [] fn = "XOR"  -> BitXor(a, b)
    [] fn = "NOR"  -> BitNot(BitOr(a, b))
    [] fn = "SLL"  -> ShiftLeft(b, shamt)
    [] fn = "SRL"  -> ShiftRight(b, shamt)
Computed == Functions \ {"DIV", "MFHI", "MFLO", "JALR"}

ImmediateResult(op, a, imm) ==
  CASE op = "ADDI" -> Add(a, imm)
    [] op = "ANDI" -> BitAnd(a, imm)
    [] op = "ORI"  -> BitOr(a, imm)
    [] op = "XORI" -> BitXor(a, imm)
    [] op = "LUI"  -> ShiftLeft(imm, UpperShift)
    [] op = "LI"   -> imm

(* An instruction that leaves $zero alone: its result has another register *)
(* for a destination, or it is the empty one a flushed latch holds, which  *)
(* shifts $zero into itself.  It jumps nowhere.  (A misread word, whose    *)
(* destination is the contents of rt, also needs a place: see ZeroProgram.) *)
SparesZero(i) ==
  \/ i.op = "R_TYPE" /\ i.fn # "JALR" /\ i.rd # 0
  \/ i.op = "R_TYPE" /\ i.fn = "SLL" /\ i.rs = 0 /\ i.rt = 0 /\ i.rd = 0
  \/ i.op \in AluImm \cup Undefined /\ i.rt # 0
  \/ i.op = "SYSCALL"
==============================================================================
