------------------------------ MODULE Encoding -------------------------------
(***************************************************************************)
(* Instruction words for model checking.  The words of an instance are     *)
(* eight bits wide, too narrow for the real encoding, so a vocabulary of   *)
(* instructions is numbered from FirstCode on; a word below it keeps the   *)
(* fields its low bits really have (an R-type on $zero).                   *)
(***************************************************************************)
EXTENDS Integers, Sequences, FiniteSets, TLC, Bitwise

ByteAnd(x, y) == x & y
ByteOr(x, y)  == x | y
ByteXor(x, y) == x ^^ y

FirstCode == 160
ImmCodes  == 64                  \* six bits of immediate

(* the shift amount is read from six bits, the lowest bit of rd among them *)
RType(fn, rd, rs, rt, shamt) ==
  [op |-> "R_TYPE", rs |-> rs, rt |-> rt, rd |-> rd, shamt |-> shamt + 32 * (rd % 2),
   fn |-> fn, imm |-> 0, target |-> 0]
IType(op, rt, rs, imm) ==
  [op |-> op, rs |-> rs, rt |-> rt, rd |-> 0, shamt |-> 0, fn |-> "SLL",
   imm |-> imm % ImmCodes, target |-> 0]
JType(op, target) ==
  [op |-> op, rs |-> 0, rt |-> 0, rd |-> 0, shamt |-> 0, fn |-> "SLL",
   imm |-> 0, target |-> target]
SyscallWord == JType("SYSCALL", 0)
ExitCall    == IType("LI", 2, 0, 9)       \* li $v0, 9

FunctionCode ==
  (0 :> "SLL" @@ 2 :> "SRL" @@ 9 :> "JALR" @@ 16 :> "MFHI" @@ 18 :> "MFLO" @@
   24 :> "MULT" @@ 26 :> "DIV" @@ 32 :> "ADD" @@ 34 :> "SUB" @@ 36 :> "AND" @@
   37 :> "OR" @@ 38 :> "XOR" @@ 39 :> "NOR")
LowWord(w) ==
  [op |-> "R_TYPE", rs |-> 0, rt |-> 0, rd |-> 0, shamt |-> w \div 64,
   fn |-> IF w % 64 \in DOMAIN FunctionCode THEN FunctionCode[w % 64] ELSE "UNDEFINED",
   imm |-> 0, target |-> 0]

(* the decoding of bytes under a vocabulary, a sequence of instructions *)
FieldsOf(vocabulary) ==
  [w \in 0 .. 255 |-> IF w - FirstCode + 1 \in DOMAIN vocabulary
                        THEN vocabulary[w - FirstCode + 1] ELSE LowWord(w)]
(* the words of the instructions numbered by a set or a sequence *)
WordOf(i) == FirstCode + i - 1
WordsOf(s) == [i \in DOMAIN s |-> WordOf(s[i])]
==============================================================================
