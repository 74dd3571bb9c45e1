-------------------------------- MODULE Demo ---------------------------------
(***************************************************************************)
(* main() of demo.cpp: a text goes through the assembler, messages and the *)
(* words that came of the text go into the memory of a CPU, and the engine *)
(* runs.  main() calls run_pipeline; run, which it has in a comment, is    *)
(* the other copy of Conformance.                                          *)
(***************************************************************************)
EXTENDS Conformance

CONSTANTS
  Texts,         \* the programs one of which main() is compiled with
  WordCode       \* the word of this width that stands for a word of 32 bits

VARIABLES phase, instructions, line_number, asm_step, encoded_instruction, mult_inst,
          program_binary, asm_status, fail

asm_vars  == <<instructions, line_number, asm_step, encoded_instruction, mult_inst,
               program_binary, asm_status, fail>>
demo_vars == <<phase, asm_vars, both_vars>>

Asm == INSTANCE Assembler WITH
  i <- line_number, step <- asm_step, encoded_instructions <- program_binary,
  status <- asm_status, result <- fail

(***************************************************************************)
(* What decode() and decodeExecute() see of a word of the assembler.  The  *)
(* opcodes and function codes they have no case for are UNDEFINED.         *)
(***************************************************************************)
Named(names, n) == IF \E m \in names : Asm!Code[m] = n
                     THEN CHOOSE m \in names : Asm!Code[m] = n ELSE "UNDEFINED"
OpcodeOf(n) == IF n = 0 THEN "R_TYPE" ELSE Named(Opcodes \ {"R_TYPE", "UNDEFINED"}, n)
FieldsCut(w) ==
  [op |-> OpcodeOf(w.opcode), rs |-> Asm!RsOf(w), rt |-> Asm!RtOf(w), rd |-> Asm!RdOf(w),
   shamt |-> Asm!ShamtOf(w), fn |-> Named(Functions, Asm!FnOf(w)),
   imm |-> Asm!ImmOf(w) % Pow2(ImmBits), target |-> Wrap(Asm!TargetOf(w))]

ASSUME LinesAssumption == Texts \subseteq Seq(Asm!Line)

Elements(s) == {s[k] : k \in DOMAIN s}
TextWords ==
  UNION {Elements(e) : e \in UNION {Asm!Encodings(l) : l \in UNION {Elements(t) : t \in Texts}}}

(* controlHazard(): "Registers are not equal" from 20 on, "Registers are   *)
(* equal" from 26 on, four letters to a word, the first in its low byte    *)
Messages == 20 .. 30
Regi == Asm!IWord(26, 11, 7, 25938)
Ster == Asm!IWord(28, 19, 5, 29811)
S_ar == Asm!IWord(28, 19, 1, 8307)
E_no == Asm!IWord(27, 27, 14, 8293)
T_eq == Asm!IWord(28, 11, 5, 8308)
E_eq == Asm!IWord(28, 11, 5, 8293)
Ual0 == Asm!RWord(3, 12, 12, 5, 53)
MessageWord(a) ==
  CASE a \in {20, 26} -> Regi [] a \in {21, 27} -> Ster [] a \in {22, 28} -> S_ar
    [] a = 23 -> E_no          [] a = 24 -> T_eq          [] a = 29 -> E_eq
    [] OTHER -> Ual0
MessageWords == {MessageWord(a) : a \in Messages}

ASSUME CodeAssumption ==
  \A w \in TextWords \cup MessageWords :
    WordCode[w] \in Word /\ Fields[WordCode[w]] = FieldsCut(w)

(***************************************************************************)
(*                            main                                         *)
(***************************************************************************)
DemoInit == /\ phase = "assemble" /\ Asm!Init
            /\ BothInit             \* a new CPU: Programs and Presets are empty

Assemble == /\ phase = "assemble" /\ Asm!Next
            /\ UNCHANGED <<phase, both_vars>>

(* the messages are copied first: a text that is long enough covers them *)
Loaded == [a \in Address |-> CASE a < Len(program_binary) -> WordCode[program_binary[a + 1]]
                               [] a >= Len(program_binary) /\ a \in Messages ->
                                    WordCode[MessageWord(a)]
                               [] OTHER -> 0]

(* `fail' is not looked at: what has been encoded is loaded and run *)
T6 == 14
Load == /\ phase = "assemble" /\ asm_status = "returned"
        /\ Loadable(program_binary)
        /\ phase' = "run"
        /\ memory' = Loaded /\ ref_memory' = memory'
        /\ registers' = [registers EXCEPT ![T6] = 8] /\ ref_registers' = registers'
        /\ UNCHANGED <<asm_vars, stage, status, pc, flags, files, if_id, id_ex, ex_mem,
                       mem_wb, dont_write, control_unit, stalled_cycles, ref_status,
                       ref_pc, ref_flags, ref_files, ref_special>>

Run == phase = "run" /\ BothNext /\ UNCHANGED <<phase, asm_vars>>

DemoNext == Assemble \/ Load \/ Run
DemoSpec == DemoInit /\ [][DemoNext]_demo_vars /\ WF_demo_vars(DemoNext)

(***************************************************************************)
(*                             PROPERTIES                                  *)
(***************************************************************************)
(* main() looks at nothing encodeInstructions reports: a text that is cut  *)
(* at a line it cannot take is run all the same, but as its exit is behind *)
(* that line, neither engine calls that an end of the program.             *)
RefusedNeverHalts ==
  status = "halted" \/ ref_status = "halted" =>
    \A k \in DOMAIN instructions : Asm!Promise!Acceptable(instructions[k])

(***************************************************************************)
(* What a text has to be for that: every line of it is one the assembler   *)
(* accepts, or it is cut at a line of which no word comes, and no line     *)
(* before that stores or calls.  No word of a message does: the opcodes    *)
(* that are cut out of their letters are 26 to 28, which no instruction    *)
(* has, and that of an R-type.                                             *)
(***************************************************************************)
Quiet == Opcodes \ (Stores \cup {"SYSCALL", "JAL"})

RefusedLine(line) == line.mnemonic \notin Asm!Mnemonic \/ Asm!Encodings(line) = {Asm!N}
CutAt(text, n) ==
  /\ n \in DOMAIN text /\ RefusedLine(text[n])
  /\ \A k \in 1 .. n - 1 : text[k].mnemonic \notin Asm!StoreForm \cup {"SYSCALL", "JAL"}
CutQuietly ==
  \A t \in Texts : \/ \A k \in DOMAIN t : Asm!Promise!Acceptable(t[k])
                   \/ \E n \in DOMAIN t : CutAt(t, n)

(* $zero holds zero on both engines: neither looks at the number of the    *)
(* register it writes, so all of it hangs on the assembler.  It asks       *)
(* validStoreReg of most lines, though not of li, lui and la, and mult     *)
(* has no operand for it at all.                                           *)
ZeroStaysZero == registers[0] = 0 /\ ref_registers[0] = 0

(***************************************************************************)
(* What a text has to be for that: it goes straight, loads nothing and has *)
(* no system call right behind an R-type, which leaves it 0 for the number *)
(* of its register; and no li, lui or la of it names $zero.  It may be cut *)
(* at a line of which no word comes.                                       *)
(***************************************************************************)
SparingLine(line) ==
  \/ line.mnemonic \in Asm!ThreeRegisters \cup {"SLL", "SRL", "MFHI", "MFLO", "SYSCALL"}
                         \cup Asm!ByImmediate
  \/ line.mnemonic \in {"LUI", "LI", "LA"} /\
       (line.operands # <<>> => line.operands[1].reg # 0)
CallsBehind(text, k) ==
  text[k].mnemonic = "SYSCALL" => k > 1 /\ text[k - 1].mnemonic \notin Asm!RegisterForm
SparesUpTo(text, n) ==
  /\ n \in 1 .. Len(text) + 1 /\ (n <= Len(text) => RefusedLine(text[n]))
  /\ \A k \in 1 .. n - 1 : SparingLine(text[k]) /\ CallsBehind(text, k)
SparingText(text) == \E n \in 1 .. Len(text) + 1 : SparesUpTo(text, n)

(* what else is in the memory and the registers of a new CPU *)
SparingCpu ==
  /\ Lines = {} /\ SparesZero(Fields[0])
  /\ \A s \in Presets : InitialRegisters(s)[0] = 0
==============================================================================
