---------------------------- MODULE KnownPrograms -----------------------------
(***************************************************************************)
(* Programs whose result is known, on the engine without a pipeline.  A    *)
(* program is given by the fields of its instructions, so that it is the   *)
(* same for every encoding and every width of a word; its operands are     *)
(* what the embedding program has left in $s0 and $s1.                     *)
(***************************************************************************)
EXTENDS Interpreter

T(k) == 8 + k                             \* $t0 .. $t3
S0 == 16
S1 == 17
AT == 1

(* what stands at an address *)
RTypeAt(a, fn, rd, rs, rt) ==
  LET i == Fields[memory[a]] IN
  i.op = "R_TYPE" /\ i.fn = fn /\ i.rd = rd /\ i.rs = rs /\ i.rt = rt
ITypeAt(a, op, rt, rs, n) ==
  LET i == Fields[memory[a]] IN
  i.op = op /\ i.rt = rt /\ i.rs = rs /\ SignExtend(i.imm) = Wrap(n)
JTypeAt(a, op, target) ==
  Fields[memory[a]].op = op /\ Fields[memory[a]].target = target
ExitAt(a) == ITypeAt(a, "LI", V0, 0, EXIT) /\ Fields[memory[a + 1]].op = "SYSCALL"

(* the operands, copied to $t0 and $t1 *)
OperandsAt(a) == RTypeAt(a, "ADD", T(0), S0, 0) /\ RTypeAt(a + 1, "ADD", T(1), S1, 0)

Euclid ==                                 \* Euclid's algorithm on $s0 and $s1
  /\ OperandsAt(0)
  /\ ITypeAt(2, "BEQ", T(1), 0, 5)
  /\ RTypeAt(3, "DIV", T(2), T(0), T(1)) /\ RTypeAt(4, "MFHI", T(3), 0, 0)
  /\ RTypeAt(5, "ADD", T(0), T(1), 0) /\ RTypeAt(6, "ADD", T(1), T(3), 0)
  /\ JTypeAt(7, "J", 2)
  /\ ExitAt(8)
Summed ==                                 \* a sum of $s0 terms $s1, closed by bne or bgtz
  /\ OperandsAt(0)
  /\ RTypeAt(2, "ADD", T(2), T(2), T(1)) /\ ITypeAt(3, "ADDI", T(0), T(0), -1)
  /\ RTypeAt(4, "SLL", 0, 0, 0)
  /\ ITypeAt(5, "BNE", 0, T(0), -1) \/ ITypeAt(5, "BGTZ", 0, T(0), -1)
  /\ ExitAt(6)
Called ==                                 \* a call of the two words at 6
  /\ RTypeAt(0, "ADD", T(0), S0, 0) /\ JTypeAt(1, "JAL", 6)
  /\ ITypeAt(2, "ADDI", T(0), T(0), -1) /\ RTypeAt(3, "ADD", T(0), T(0), T(0))
  /\ ExitAt(4)
  /\ RTypeAt(6, "ADD", T(0), T(0), S1) /\ RTypeAt(7, "JALR", AT, RA, 0)
Pushed ==                                 \* $s0 and $s1 pushed and popped
  /\ OperandsAt(0)
  /\ ITypeAt(2, "ADDI", SP, SP, -1) /\ ITypeAt(3, "SW", S0, SP, 0)
  /\ ITypeAt(4, "ADDI", SP, SP, -1) /\ ITypeAt(5, "SW", S1, SP, 0)
  /\ ITypeAt(6, "LW", S0, SP, 0) /\ ITypeAt(7, "ADDI", SP, SP, 1)
  /\ ITypeAt(8, "LW", S1, SP, 0) /\ ITypeAt(9, "ADDI", SP, SP, 1)
  /\ ExitAt(10)
Stored ==                                 \* $s0 stored as a byte and loaded again
  /\ ITypeAt(0, "SB", S0, S1, 3) /\ ITypeAt(1, "LB", T(0), S1, 3)
  /\ ExitAt(2)

(***************************************************************************)
(* What the results depend on: nothing but the operands is preset, the     *)
(* programs lie in one region of the jumps, two words of stack lie in      *)
(* memory behind them, and $sp does not come to hold 29, its own number.   *)
(***************************************************************************)
OperandsOnly == \A s \in Presets : Reg \cap DOMAIN s \subseteq {S0, S1}
RoomForStack == /\ StackTop - 2 >= 12 /\ StackTop <= MemSize
                /\ SP \notin StackTop - 2 .. StackTop
RoomForJumps == Region > 8

(***************************************************************************)
(*                             PROPERTIES                                  *)
(***************************************************************************)
Divides(d, n) == n % d = 0
IsGcd(d, m, n) ==
  /\ d > 0 /\ Divides(d, m) /\ Divides(d, n)
  /\ \A e \in 1 .. m + n : Divides(e, m) /\ Divides(e, n) => e <= d

(* Division and remainder, the branch that leaves a loop and the jump that *)
(* closes it work together: the program computes a greatest common divisor.*)
GcdComputed ==
  status = "halted" /\ Euclid /\ registers[S0] + registers[S1] > 0 =>
    IsGcd(registers[T(0)], registers[S0], registers[S1])

(* A branch offset counts four words, so a loop of four is closed by -1,   *)
(* and the loop runs as often as its counter says: registers are unsigned, *)
(* and bgtz goes on with a counter that has its sign bit set.              *)
ProductComputed ==
  status = "halted" /\ Summed => registers[T(2)] = Mult(registers[S0], registers[S1])

(* A call comes back, once, to one word and no other, with what the callee *)
(* has computed.  The word is the second behind the call: the first is     *)
(* never executed, though fetch() has stepped pc to it and the comment at  *)
(* the link says "save address of next instruction (to return to)".        *)
CallReturns ==
  status = "halted" /\ Called =>
    registers[T(0)] = Mult(2, registers[S0] + registers[S1])

(* Two values pushed lie next to each other under the top of the stack and *)
(* come off it in the reverse order, and $sp is back where it was: addi    *)
(* moves it once, though it has a branch that does so a second time.       *)
StackBalanced ==
  status = "halted" /\ Pushed =>
    /\ registers[SP] = StackTop
    /\ registers[S0] = registers[T(1)] /\ registers[S1] = registers[T(0)]
    /\ memory[StackTop - 1] = registers[T(0)] /\ memory[StackTop - 2] = registers[T(1)]

(* A byte is loaded from where it has been stored, which is the offset     *)
(* from the number of the base register, whatever its contents.            *)
ByteKept ==
  status = "halted" /\ Stored =>
    LET byte == registers[S0] % Pow2(ByteBits) IN
    registers[T(0)] = byte /\ memory[S1 + 3] = byte

(* Loops and calls come to an end, whatever the operands.                  *)
Halts == <>(status = "halted")
==============================================================================
