------------------------- MODULE ArithmeticPrograms -------------------------
(***************************************************************************)
(* The programs on which both engines are proved to agree: arithmetic up   *)
(* to the call of exit that ends them, whose register numbers stay apart   *)
(* from the registers' contents.                                           *)
(***************************************************************************)
EXTENDS Conformance

(* what an instruction with a result reads, writes and computes *)
Alu(i)   == \/ i.op = "R_TYPE" /\ i.fn \in Computed
            \/ i.op \in AluImm
Reads(i)  == IF i.op = "R_TYPE" THEN {i.rs, i.rt} ELSE {i.rs}
Writes(i) == IF i.op = "R_TYPE" THEN i.rd ELSE i.rt
Result(i, regs) ==
  IF i.op = "R_TYPE" THEN RegisterResult(i.fn, regs[i.rs], regs[i.rt], i.shamt)
                     ELSE ImmediateResult(i.op, regs[i.rs], SignExtend(i.imm))
After(regs, i) == [regs EXCEPT ![Writes(i)] = Result(i, regs)]

(* execute() does an addi on $sp twice *)
SpTwice(i) == i.op = "ADDI" /\ i.rs = SP
(* SLL $zero, $zero, 0 *)
Nop(i) == /\ i.op = "R_TYPE" /\ i.fn = "SLL"
          /\ i.rs = 0 /\ i.rt = 0 /\ i.rd = 0 /\ i.shamt = 0
(* It writes no $zero, which forwarding leaves out, and is no addi on $sp. *)
Ordinary(i) == Alu(i) /\ Writes(i) # 0 /\ ~SpTwice(i)
(* li $v0, 9 or 10: the call behind it is snooped from the immediate *)
Exits(i) == /\ i.op = "LI" /\ i.rt = V0 /\ i.rs # SP
            /\ SignExtend(i.imm) \in {EXIT, EXIT_STATUS}

Arithmetic(p) ==
  /\ Len(p) >= 2
  /\ \A k \in 1 .. Len(p) - 2 : Ordinary(Fields[p[k]])
  /\ Exits(Fields[p[Len(p) - 1]])
  /\ Fields[p[Len(p)]].op = "SYSCALL"

(* Nothing but arithmetic is loaded, $zero starts as zero, and the word 0  *)
(* is the instruction it is in the code.                                   *)
ArithmeticOnly ==
  /\ \A p \in Programs : Arithmetic(p)
  /\ \A s \in Presets : InitialRegisters(s)[0] = 0
  /\ Nop(Fields[0])

(* The text, and the numbers of the registers it names. *)
Code == [k \in Int |-> IF k \in Address THEN Fields[memory[k]] ELSE Fields[0]]
Names(code) == (UNION {Reads(code[a]) \cup {Writes(code[a])} : a \in Address}) \ {0}
Apart(code, regs) == \A r \in Names(code) : regs[r] \notin Names(code) \cup {SP}

(* Up to the exit call no register the program names comes to hold the     *)
(* number of one it names, or 29: WB() compares a number with contents to  *)
(* suppress a forwarding, and the other engine's addi compares contents    *)
(* with 29.  Under this the two engines are proved to agree.               *)
NumbersApart ==
  ref_status = "running" /\ Code[ref_pc].op # "SYSCALL" => Apart(Code, ref_registers)

(***************************************************************************)
(* What a reading of the text shows of the contents: within[k][r] bounds   *)
(* what register r can hold when k instructions have been executed.        *)
(***************************************************************************)
NamesOf(p) ==
  (UNION {Reads(Fields[p[k]]) \cup {Writes(Fields[p[k]])} : k \in 1 .. Len(p)}) \ {0}

Bounds(p) == [0 .. Len(p) - 2 -> [Reg -> SUBSET Word]]
(* one instruction, its operands within `before' *)
Carries(i, before, after) ==
  /\ \A r \in Reg \ {Writes(i)} : before[r] \subseteq after[r]
  /\ \A x \in before[i.rs], y \in before[i.rt] :
       Result(i, [r \in Reg |-> IF r = i.rs THEN x ELSE y]) \in after[Writes(i)]
StaysWithin(p, within) ==
  /\ \A s \in Presets, r \in Reg : InitialRegisters(s)[r] \in within[0][r]
  /\ \A k \in 1 .. Len(p) - 2 : Carries(Fields[p[k]], within[k - 1], within[k])
KeepsApart(p, within) ==
  \A k \in 0 .. Len(p) - 2, r \in NamesOf(p) : within[k][r] \cap (NamesOf(p) \cup {SP}) = {}

(* There are bounds under which no register the program names can hold the *)
(* number of one, or 29.                                                   *)
TextKeepsApart(p) == \E within \in Bounds(p) : StaysWithin(p, within) /\ KeepsApart(p, within)

(***************************************************************************)
(* What a text computes: run[k] is the registers when k instructions have  *)
(* been executed, one whole instruction after the other.                   *)
(***************************************************************************)
IsRun(p, s, run, n) ==
  /\ run \in [0 .. n -> Registers]
  /\ run[0] = InitialRegisters(s)
  /\ \A k \in 1 .. n : run[k] = After(run[k - 1], Fields[p[k]])

(* Both engines hold what the text computes up to its call, and the text   *)
(* itself is as it was loaded.                                             *)
HoldsRun(p, s) ==
  \E run \in [0 .. Len(p) - 1 -> Registers] :
    /\ IsRun(p, s, run, Len(p) - 1)
    /\ ref_registers = run[Len(p) - 1]
    /\ \A r \in Visible : registers[r] = run[Len(p) - 1][r]
    /\ memory = LoadedMemory(p) /\ ref_memory = LoadedMemory(p)
==============================================================================
