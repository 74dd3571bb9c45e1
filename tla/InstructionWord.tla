--------------------------- MODULE InstructionWord ---------------------------
(***************************************************************************)
(* An instruction word of 32 bits, as the assembler puts it together and   *)
(* as decode() and decodeExecute() cut it up again.  It is kept as the     *)
(* number in its six opcode bits and the number in the other 26.           *)
(***************************************************************************)
EXTENDS Integers

(* where the fields begin; below rt lie 16 bits, below the opcode 26 *)
ShamtAt == 64                        \* bit 6
RdAt    == 2048                      \* bit 11
RtAt    == 65536                     \* bit 16
RsAt    == 2097152                   \* bit 21
LowSize == 67108864                  \* bit 26

BinaryWord == [opcode : 0 .. 63, low : 0 .. LowSize - 1]

(* the strings of bits rType, iType and jType concatenate *)
RWord(rs, rt, rd, shamt, fn) ==
  [opcode |-> 0, low |-> rs * RsAt + rt * RtAt + rd * RdAt + shamt * ShamtAt + fn]
IWord(opcode, rs, rt, imm) ==
  [opcode |-> opcode, low |-> rs * RsAt + rt * RtAt + imm]
JWord(opcode, target) == [opcode |-> opcode, low |-> target]

(* the shifts and masks of both engines: the shift amount is cut with 0x3F, *)
(* six bits, the lowest bit of rd among them                                *)
RsOf(w)     == (w.low \div RsAt) % 32
RtOf(w)     == (w.low \div RtAt) % 32
RdOf(w)     == (w.low \div RdAt) % 32
ShamtOf(w)  == (w.low \div ShamtAt) % 64
FnOf(w)     == w.low % 64
ImmOf(w)    == w.low % RtAt
TargetOf(w) == w.low

(* enum Opcode: opcodes, and the function codes of R_TYPE *)
Code ==
  [ADD |-> 32, SUB |-> 34, MULT |-> 24, DIV |-> 26, MFHI |-> 16, MFLO |-> 18,
   AND |-> 36, OR |-> 37, XOR |-> 38, NOR |-> 39, SLL |-> 0, SRL |-> 2, JALR |-> 9,
   JR |-> 11,
   ADDI |-> 8, ANDI |-> 12, ORI |-> 13, XORI |-> 14, LW |-> 35, SW |-> 43, LB |-> 17,
   LH |-> 33, SB |-> 40, SH |-> 41, BEQ |-> 4, BNE |-> 5, BGEZ |-> 1, BGTZ |-> 7,
   BLEZ |-> 6, BLTZ |-> 60, LUI |-> 15, LI |-> 57, J |-> 51, JAL |-> 3,
   SYSCALL |-> 63]
FunctionCodes == {"ADD", "SUB", "MULT", "DIV", "MFHI", "MFLO", "AND", "OR", "XOR", "NOR",
                  "SLL", "SRL", "JALR", "JR"}
==============================================================================
