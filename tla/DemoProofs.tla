----------------------------- MODULE DemoProofs ------------------------------
(***************************************************************************)
(* Proofs about main(): a text that is cut by the assembler is run all the *)
(* same, and no engine comes to an end of it; which texts leave $zero      *)
(* alone; and what is proved of the parts holds of them inside the whole.  *)
(***************************************************************************)
EXTENDS Demo, OrderProofs

(***************************************************************************)
(* The reference engine                                                    *)
(***************************************************************************)
(* Conformance has the engine without a pipeline as an instance of its     *)
(* module; what is proved about it is an instance of that one's proofs.    *)
RefProofs == INSTANCE InterpreterProofs WITH
  status <- ref_status, pc <- ref_pc, registers <- ref_registers, memory <- ref_memory,
  flags <- ref_flags, files <- ref_files, special <- ref_special

(* Both instances are of one definition of its steps, written out here. *)
LEMMA SameReference == Ref!Next <=> RefProofs!Next
  BY DEF Ref!WordBits, Ref!Pow2, Ref!WordSize, Ref!Word, Ref!Imm, Ref!SignBit, Ref!Wrap,
      Ref!MinusOne, Ref!Add, Ref!Sub, Ref!Mult, Ref!BitNot, Ref!SignExtend, Ref!ShiftLeft,
      Ref!ShiftRight, Ref!Reg, Ref!V0, Ref!A0, Ref!A2, Ref!T0, Ref!SP, Ref!RA,
      Ref!Functions, Ref!AluImm, Ref!Loads, Ref!Stores, Ref!Branches, Ref!Jumps,
      Ref!Misread, Ref!Undefined, Ref!Immediates, Ref!Opcodes, Ref!Instruction, Ref!PRINT_STRING, Ref!READ_INT,
      Ref!READ_STRING, Ref!EXIT, Ref!EXIT_STATUS, Ref!OPEN_FILE, Ref!READ_FILE,
      Ref!WRITE_FILE, Ref!EXIT_WITH_STATUS, Ref!JumpOffset, Ref!RegisterResult,
      Ref!Computed, Ref!ImmediateResult, Ref!Address, Ref!InMemory, Ref!CharAt, Ref!Faulted,
      Ref!Return, Ref!EmptyCells, Ref!FirstEmpty, Ref!LastRound, Ref!StringCells,
      Ref!StringCell, Ref!CellChar, Ref!StringEnd, Ref!ReadString, Ref!OpenFile,
      Ref!ReadFile, Ref!WriteFile, Ref!Call, Ref!Negative, Ref!CheckIntOverflow,
      Ref!SetFlags, Ref!SetExceptionFlag, Ref!Instr, Ref!Stepped, Ref!Fetching, Ref!AtNext,
      Ref!Immediate, Ref!Rs, Ref!Rt, Ref!Register, Ref!IsFn, Ref!ExecuteRegister,
      Ref!Divided, Ref!ExecuteDiv, Ref!MoveFrom, Ref!Link, Ref!ExecuteJalr, Ref!ExecuteJump,
      Ref!ExecuteSyscall, Ref!AddImmediate, Ref!ExecuteImmediate, Ref!EffectiveAddress,
      Ref!Narrowed, Ref!ExecuteMemory, Ref!Taken, Ref!BranchOffset, Ref!ExecuteBranch,
      Ref!ExecuteUnknown, Ref!Fault, Ref!Next,
      RefProofs!WordBits, RefProofs!Pow2, RefProofs!WordSize, RefProofs!Word, RefProofs!Imm,
      RefProofs!SignBit, RefProofs!Wrap, RefProofs!MinusOne, RefProofs!Add, RefProofs!Sub,
      RefProofs!Mult, RefProofs!BitNot, RefProofs!SignExtend, RefProofs!ShiftLeft,
      RefProofs!ShiftRight, RefProofs!Reg, RefProofs!V0, RefProofs!A0, RefProofs!A2,
      RefProofs!T0, RefProofs!SP, RefProofs!RA, RefProofs!Functions, RefProofs!AluImm,
      RefProofs!Loads, RefProofs!Stores, RefProofs!Branches, RefProofs!Jumps,
      RefProofs!Misread, RefProofs!Undefined,
      RefProofs!Immediates, RefProofs!Opcodes, RefProofs!Instruction,
      RefProofs!PRINT_STRING, RefProofs!READ_INT, RefProofs!READ_STRING, RefProofs!EXIT,
      RefProofs!EXIT_STATUS, RefProofs!OPEN_FILE, RefProofs!READ_FILE, RefProofs!WRITE_FILE,
      RefProofs!EXIT_WITH_STATUS, RefProofs!JumpOffset, RefProofs!RegisterResult,
      RefProofs!Computed, RefProofs!ImmediateResult, RefProofs!Address, RefProofs!InMemory,
      RefProofs!CharAt, RefProofs!Faulted, RefProofs!Return, RefProofs!EmptyCells,
      RefProofs!FirstEmpty, RefProofs!LastRound, RefProofs!StringCells,
      RefProofs!StringCell, RefProofs!CellChar, RefProofs!StringEnd, RefProofs!ReadString,
      RefProofs!OpenFile, RefProofs!ReadFile, RefProofs!WriteFile, RefProofs!Call,
      RefProofs!Negative, RefProofs!CheckIntOverflow, RefProofs!SetFlags,
      RefProofs!SetExceptionFlag, RefProofs!Instr, RefProofs!Stepped, RefProofs!Fetching,
      RefProofs!AtNext, RefProofs!Immediate, RefProofs!Rs, RefProofs!Rt, RefProofs!Register,
      RefProofs!IsFn, RefProofs!ExecuteRegister, RefProofs!Divided, RefProofs!ExecuteDiv,
      RefProofs!MoveFrom, RefProofs!Link, RefProofs!ExecuteJalr, RefProofs!ExecuteJump,
      RefProofs!ExecuteSyscall, RefProofs!AddImmediate, RefProofs!ExecuteImmediate,
      RefProofs!EffectiveAddress, RefProofs!Narrowed, RefProofs!ExecuteMemory,
      RefProofs!Taken, RefProofs!BranchOffset, RefProofs!ExecuteBranch,
      RefProofs!ExecuteUnknown, RefProofs!Fault, RefProofs!Next

(* What a word is, and what is cut out of it, is the same to both engines. *)
LEMMA SameWords ==
  /\ Word = RefProofs!Word /\ Instruction = RefProofs!Instruction
  /\ Address = RefProofs!Address /\ WordBits = RefProofs!WordBits
  /\ WordSize = RefProofs!WordSize /\ \A k : Pow2(k) = RefProofs!Pow2(k)
  /\ Registers = RefProofs!Registers /\ Memory = RefProofs!Memory
  /\ FlagSet = RefProofs!FlagSet /\ Status = RefProofs!Status
  BY DEF WordBits, Pow2, WordSize, Word, Reg, Imm, AluImm, Loads, Stores, Branches, Jumps,
      Misread, Undefined, Immediates, Functions, Opcodes, Instruction, Address, Registers, Memory, FlagSet,
      Status,
      RefProofs!WordBits, RefProofs!Pow2, RefProofs!WordSize, RefProofs!Word, RefProofs!Reg,
      RefProofs!Imm, RefProofs!AluImm, RefProofs!Loads, RefProofs!Stores,
      RefProofs!Branches, RefProofs!Jumps, RefProofs!Misread, RefProofs!Undefined,
      RefProofs!Immediates, RefProofs!Functions, RefProofs!Opcodes, RefProofs!Instruction, RefProofs!Address, RefProofs!Registers,
      RefProofs!Memory, RefProofs!FlagSet, RefProofs!Status

(* The state of the reference stays typed. *)
LEMMA ReferenceTyped ==
  ASSUME RefProofs!IInv, Ref!Next PROVE RefProofs!IInv'
<1>1. RefProofs!Next
  BY SameReference
<1>2. RefProofs!WidthAssumption /\ RefProofs!BitAssumption /\ RefProofs!WidthsAssumption
  BY SameWords, WidthAssumption, BitAssumption, WidthsAssumption
<1>3. RefProofs!FieldsAssumption /\ RefProofs!RegionAssumption
  BY SameWords, FieldsAssumption, RegionAssumption
<1>4. RefProofs!MemoryAssumption /\ RefProofs!ProgramAssumption /\ RefProofs!ConsoleAssumption
  BY SameWords, MemoryAssumption, ProgramAssumption, ConsoleAssumption
<1> QED BY <1>1, <1>2, <1>3, <1>4, RefProofs!NextIInv

(***************************************************************************)
(* Engines on words that neither store nor call                            *)
(***************************************************************************)
QuietInstruction == {i \in Instruction : i.op \in Quiet}

(* Nothing that is executed of such words halts the five-stage engine. *)
LEMMA PipelineGoesOn ==
  ASSUME IInv, MadeOf(QuietInstruction), status # "halted", Next
  PROVE  status' # "halted"
<1>1. id_ex.opcode \notin {"JAL", "SYSCALL"}
  BY DEF MadeOf, QuietInstruction, Quiet
<1>2. ~ExecuteSyscall
  BY <1>1, OperandsKeep DEF ExecuteSyscall
<1>3. CASE Execute
  BY <1>2, <1>3 DEF Execute, ExecuteRegister, ExecuteNoResult, ExecuteJalr, ExecuteImmediate,
    ExecuteMemory, ExecuteJump, ExecuteBeq, ExecuteBranch, ExecuteFault, Faults
<1>4. CASE Decode
  BY <1>4 DEF Decode, DecodeRegister, DecodeJump, DecodeSyscall, DecodeImmediate, Decoding
<1>5. CASE WB \/ WBFault \/ Mem \/ MemFault \/ Fetch
  BY <1>5 DEF WB, WBFault, Mem, MemFault, Fetch, FetchNext, FetchTarget, FetchFault, Fetching, Faults
<1> QED BY <1>3, <1>4, <1>5 DEF Next

(* Nor the reference, which leaves its memory alone. *)
LEMMA ReferenceGoesOn ==
  ASSUME RefProofs!IInv, \A a \in Address : Fields[ref_memory[a]] \in QuietInstruction,
         ref_status # "halted", Ref!Next
  PROVE  ref_memory' = ref_memory /\ ref_status' # "halted"
<1>1. ASSUME Ref!Fetching PROVE Ref!Instr.op \in Quiet
  <2>1. ref_pc \in Word
    BY SameWords DEF RefProofs!IInv, RefProofs!TypeOK
  <2>2. ref_pc \in Address
    BY <1>1, <2>1, WordFacts, MemoryAssumption DEF Ref!Fetching, Ref!InMemory, Address, Word
  <2> QED BY <2>2 DEF Ref!Instr, QuietInstruction
<1>2. ~Ref!ExecuteSyscall
  BY <1>1 DEF Ref!ExecuteSyscall, Quiet
<1>3. CASE Ref!ExecuteMemory
  BY <1>1, <1>3 DEF Ref!ExecuteMemory, Ref!Loads, Ref!Stores, Quiet, Stores
<1>4. CASE Ref!Fault
  BY <1>4 DEF Ref!Fault
<1> QED BY <1>2, <1>3, <1>4
  DEF Ref!Next, Ref!ExecuteRegister, Ref!ExecuteDiv, Ref!MoveFrom, Ref!ExecuteJalr,
    Ref!ExecuteJump, Ref!ExecuteImmediate, Ref!ExecuteBranch, Ref!ExecuteUnknown

(* Both engines, once a program of such words has been loaded. *)
Running ==
  /\ IInv /\ MadeOf(QuietInstruction) /\ status # "halted"
  /\ RefProofs!IInv /\ ref_status # "halted"
  /\ \A a \in Address : Fields[ref_memory[a]] \in QuietInstruction

LEMMA RunningStep == ASSUME Running, [BothNext]_both_vars PROVE Running'
<1>1. Spares(QuietInstruction)
  BY DEF Spares, QuietInstruction, Quiet
<1>2. CASE ReferenceStep
  <2>1. IInv' /\ MadeOf(QuietInstruction)' /\ status' # "halted"
    BY <1>1, <1>2, NextIInv, NextMadeOf DEF ReferenceStep, Running, vars
  <2>2. RefProofs!IInv' /\ ref_memory' = ref_memory /\ ref_status' # "halted"
    BY <1>2, ReferenceTyped, ReferenceGoesOn DEF ReferenceStep, Running
  <2> QED BY <2>1, <2>2 DEF Running
<1>3. CASE PipelineStep
  <2>1. IInv' /\ MadeOf(QuietInstruction)' /\ status' # "halted"
    BY <1>1, <1>3, NextIInv, NextMadeOf, PipelineGoesOn DEF PipelineStep, Running
  <2>2. RefProofs!IInv' /\ ref_memory' = ref_memory /\ ref_status' # "halted"
    BY <1>3 DEF PipelineStep, Running, ref_vars, RefProofs!IInv, RefProofs!TypeOK,
      RefProofs!PcMirrored
  <2> QED BY <2>1, <2>2 DEF Running
<1>4. CASE UNCHANGED both_vars
  <2>1. IInv' /\ MadeOf(QuietInstruction)' /\ status' # "halted"
    BY <1>1, <1>4, NextIInv, NextMadeOf DEF both_vars, vars, Running
  <2>2. RefProofs!IInv' /\ ref_memory' = ref_memory /\ ref_status' # "halted"
    BY <1>4 DEF both_vars, Running, ref_vars, RefProofs!IInv, RefProofs!TypeOK,
      RefProofs!PcMirrored
  <2> QED BY <2>1, <2>2 DEF Running
<1> QED BY <1>2, <1>3, <1>4 DEF BothNext

(***************************************************************************)
(* The words of a cut text                                                 *)
(***************************************************************************)
(* the opcodes of sw, sb, sh, jal and the trap *)
Loud == {3, 40, 41, 43, 63}

(* What rType, iType and jType make of a line is an "N", a word or two. *)
LEMMA RTypeWord ==
  ASSUME NEW m, NEW o
  PROVE  Asm!RType(m, o) = Asm!N \/ \E w : Asm!RType(m, o) = <<w>> /\ w.opcode = 0
BY DEF Asm!RType, Asm!RWord

LEMMA ITypeWords ==
  ASSUME NEW m \in Asm!ImmediateForm, NEW o
  PROVE  \/ Asm!IType(m, o) \in {Asm!N, Asm!LaWords(o[1].reg, o[2].num)}
         \/ m # "LA" /\ \E rs, rt, imm : Asm!IType(m, o) = <<Asm!IWord(Asm!Op[m], rs, rt, imm)>>
<1>1. m = "LA" => m \notin Asm!ByImmediate /\ m \notin Asm!LoadForm \cup Asm!StoreForm
                    /\ m \notin Asm!AgainstZero /\ m \notin {"LUI", "LI", "BEQ", "BNE"}
  BY DEF Asm!ByImmediate, Asm!LoadForm, Asm!StoreForm, Asm!AgainstZero
<1>2. CASE m = "LA"
  BY <1>1, <1>2, Zenon DEF Asm!IType
<1>3. CASE m # "LA"
  <2>1. \/ Asm!IType(m, o) = Asm!N
        \/ \E rs, rt, imm : Asm!IType(m, o) = <<Asm!IWord(Asm!Op[m], rs, rt, imm)>>
    BY <1>3 DEF Asm!IType
  <2> QED BY <1>3, <2>1
<1> QED BY <1>2, <1>3

LEMMA FormsApart ==
  \A m : /\ m \in Asm!RegisterForm => m \notin Asm!ImmediateForm /\ m \notin Asm!JumpForm
         /\ m \in Asm!ImmediateForm => m \notin Asm!JumpForm
  BY SMT DEF Asm!RegisterForm, Asm!ImmediateForm, Asm!JumpForm

(* A line that neither stores nor calls becomes such words. *)
LEMMA QuietLine ==
  ASSUME NEW line, line.mnemonic \in Asm!Mnemonic,
         line.mnemonic \notin Asm!StoreForm \cup {"SYSCALL", "JAL"},
         NEW e \in Asm!Encodings(line)
  PROVE  \/ e = <<>>
         \/ \E w : e = <<w>> /\ w.opcode \notin Loud
         \/ \E v, w : e = <<v, w>> /\ v.opcode \notin Loud /\ w.opcode \notin Loud
<1> DEFINE m == line.mnemonic
           o == Asm!StripWhiteSpaces(line.operands)
<1>1. CASE m \in Asm!RegisterForm
  <2>1. Asm!Encodings(line) = {Asm!RType(m, o)}
    BY <1>1, FormsApart, Zenon DEF Asm!Encodings
  <2>2. e = Asm!RType(m, o)
    BY <2>1
  <2> QED BY <2>2, RTypeWord DEF Loud, Asm!N
<1>2. CASE m \in Asm!ImmediateForm
  <2>1. m # "LA" => Asm!Op[m] \notin Loud
    BY <1>2 DEF Asm!ImmediateForm, Asm!StoreForm, Asm!Op, Loud
  <2>2. \A rs, rt, imm : m # "LA" => Asm!IWord(Asm!Op[m], rs, rt, imm).opcode \notin Loud
    BY <2>1 DEF Asm!IWord
  <2>3. CASE e = Asm!IType(m, o)
    <3>1. CASE e = Asm!LaWords(o[1].reg, o[2].num)
      <4>1. \A rs, rt, imm : /\ Asm!IWord(Asm!Op["LUI"], rs, rt, imm).opcode \notin Loud
                             /\ Asm!IWord(Asm!Op["ORI"], rs, rt, imm).opcode \notin Loud
        BY DEF Asm!IWord, Asm!Op, Loud
      <4> QED BY <3>1, <4>1 DEF Asm!LaWords
    <3> QED BY <1>2, <2>2, <2>3, <3>1, ITypeWords DEF Asm!N
  <2>4. CASE \E r : e = <<Asm!IWord(Asm!Op[m], r, o[1].reg, Asm!Bits(o[2].num, Asm!Immed))>>
               /\ Asm!MissingBase(m, o)
    BY <2>2, <2>4 DEF Asm!MissingBase, Asm!LoadForm, Asm!StoreForm
  <2>5. e \in {Asm!IType(m, o)} \cup
             {<<Asm!IWord(Asm!Op[m], r, o[1].reg, Asm!Bits(o[2].num, Asm!Immed))>> :
                r \in IF Asm!MissingBase(m, o) THEN 0 .. 31 ELSE {}}
    BY <1>2, FormsApart, Zenon DEF Asm!Encodings
  <2> HIDE DEF m, o
  <2> QED BY <2>3, <2>4, <2>5
<1>3. CASE m \in Asm!JumpForm
  <2>1. m = "J" /\ e = Asm!JType(m, o)
    BY <1>3 DEF Asm!Encodings, Asm!RegisterForm, Asm!ImmediateForm, Asm!JumpForm
  <2> QED BY <2>1 DEF Asm!JType, Asm!JWord, Asm!Op, Asm!N, Loud
<1> QED BY <1>1, <1>2, <1>3 DEF Asm!Mnemonic

(* What decode() takes such an opcode for. *)
LEMMA QuietOpcode ==
  ASSUME NEW n, n \notin Loud PROVE OpcodeOf(n) \notin Stores \cup {"SYSCALL", "JAL"}
<1>1. ASSUME NEW names, NEW s, Named(names, n) = s, s # "UNDEFINED" PROVE Asm!Code[s] = n
  BY <1>1 DEF Named
<1> QED BY <1>1 DEF OpcodeOf, Loud, Stores, Asm!Code

QuietWords == {w \in TextWords : w.opcode \notin Loud}

(* The words of a line before the cut are words that neither store nor call. *)
LEMMA WordsOfLine ==
  ASSUME NEW t \in Texts, NEW k \in DOMAIN t, t[k].mnemonic \in Asm!Mnemonic,
         t[k].mnemonic \notin Asm!StoreForm \cup {"SYSCALL", "JAL"},
         NEW e \in Asm!Encodings(t[k])
  PROVE  e \in Seq(QuietWords)
<1>1. \A j \in DOMAIN e : e[j] \in TextWords
  <2>1. t[k] \in UNION {Elements(s) : s \in Texts}
    BY DEF Elements
  <2>2. e \in UNION {Asm!Encodings(l) : l \in UNION {Elements(s) : s \in Texts}}
    BY <2>1
  <2>3. ASSUME NEW j \in DOMAIN e PROVE e[j] \in Elements(e)
    BY DEF Elements
  <2> QED BY <2>2, <2>3 DEF TextWords
<1>2. CASE e = <<>>
  BY <1>2
<1>3. ASSUME NEW w, e = <<w>>, w.opcode \notin Loud PROVE e \in Seq(QuietWords)
  BY <1>1, <1>3 DEF QuietWords
<1>4. ASSUME NEW v, NEW w, e = <<v, w>>, v.opcode \notin Loud, w.opcode \notin Loud
      PROVE  e \in Seq(QuietWords)
  BY <1>1, <1>4 DEF QuietWords
<1> QED BY <1>2, <1>3, <1>4, QuietLine

(* In memory they are instructions that neither store nor call. *)
LEMMA QuietInMemory ==
  ASSUME NEW w \in QuietWords
  PROVE  WordCode[w] \in Word /\ Fields[WordCode[w]] \in QuietInstruction
<1>1. WordCode[w] \in Word /\ Fields[WordCode[w]] = FieldsCut(w)
  BY CodeAssumption DEF QuietWords
<1>2. FieldsCut(w) \in Instruction /\ FieldsCut(w).op \in Opcodes
  BY <1>1, FieldsAssumption DEF Instruction
<1>3. FieldsCut(w).op = OpcodeOf(w.opcode)
  BY DEF FieldsCut
<1>4. OpcodeOf(w.opcode) \notin Stores \cup {"SYSCALL", "JAL"}
  BY QuietOpcode DEF QuietWords
<1> QED BY <1>1, <1>2, <1>3, <1>4 DEF QuietInstruction, Quiet

(* A word of a message is in memory what decode() makes of its letters: an *)
(* opcode that no instruction has, or an R-type.                           *)
LEMMA MessageOpcodes ==
  ASSUME NEW a \in Messages
  PROVE  /\ MessageWord(a).opcode \in {0, 26, 27, 28}
         /\ WordCode[MessageWord(a)] \in Word
         /\ Fields[WordCode[MessageWord(a)]] = FieldsCut(MessageWord(a))
<1>1. MessageWord(a).opcode \in {0, 26, 27, 28}
  BY DEF MessageWord, Regi, Ster, S_ar, E_no, T_eq, E_eq, Ual0, Asm!IWord, Asm!RWord
<1>2. MessageWord(a) \in MessageWords
  BY DEF MessageWords
<1> QED BY <1>1, <1>2, CodeAssumption

LEMMA QuietMessage ==
  ASSUME NEW a \in Messages
  PROVE  /\ WordCode[MessageWord(a)] \in Word
         /\ Fields[WordCode[MessageWord(a)]] \in QuietInstruction
<1> DEFINE i == Fields[WordCode[MessageWord(a)]]
<1>1. i.op = OpcodeOf(MessageWord(a).opcode)
  <2>1. FieldsCut(MessageWord(a)).op = OpcodeOf(MessageWord(a).opcode)
    BY DEF FieldsCut
  <2> QED BY <2>1, MessageOpcodes
<1>2. i \in Instruction /\ i.op \in Opcodes
  BY MessageOpcodes, FieldsAssumption DEF Instruction
<1>3. OpcodeOf(MessageWord(a).opcode) \notin Stores \cup {"SYSCALL", "JAL"}
  BY MessageOpcodes, QuietOpcode DEF Loud
<1> QED BY <1>1, <1>2, <1>3, MessageOpcodes DEF QuietInstruction, Quiet

(***************************************************************************)
(* The inductive invariant, for a text that is cut at line n: nothing but  *)
(* words of the lines before n is ever appended, and none of them stores   *)
(* or calls when it is loaded and run.                                     *)
(***************************************************************************)
Assembling(n) ==
  /\ instructions \in Texts /\ CutAt(instructions, n)
  /\ line_number \in 0 .. n - 1
  /\ asm_step = "append" =>
       LET line == instructions[line_number + 1] IN
       line.mnemonic \in Asm!Mnemonic /\ encoded_instruction \in Asm!Encodings(line)
  /\ program_binary \in Seq(QuietWords)

CutInv(n) == \/ phase = "assemble" /\ Assembling(n) /\ BothInit
             \/ phase = "run" /\ Running

(* Where the lines of a text are. *)
LEMMA CutPlace ==
  ASSUME NEW t \in Texts, NEW n, CutAt(t, n)
  PROVE  /\ Len(t) \in Nat /\ n \in 1 .. Len(t) /\ DOMAIN t = 1 .. Len(t)
         /\ \A k \in 1 .. n - 1 : t[k].mnemonic \notin Asm!StoreForm \cup {"SYSCALL", "JAL"}
  BY LinesAssumption DEF CutAt

(* What is appended comes of a line before the cut. *)
LEMMA PushAssembling ==
  ASSUME NEW n, Assembling(n), Asm!Appending, encoded_instruction # Asm!N, Asm!Push
  PROVE  Assembling(n)'
<1> DEFINE line == instructions[line_number + 1]
<1>1. n \in 1 .. Len(instructions) /\ DOMAIN instructions = 1 .. Len(instructions)
      /\ Len(instructions) \in Nat
  BY CutPlace DEF Assembling
<1>2. line.mnemonic \in Asm!Mnemonic /\ encoded_instruction \in Asm!Encodings(line)
  BY DEF Assembling, Asm!Appending
<1>3. line_number + 1 # n
  BY <1>2 DEF Assembling, CutAt, RefusedLine
<1>4. line_number + 1 \in 1 .. n - 1 /\ line_number + 1 \in DOMAIN instructions
  BY <1>1, <1>3 DEF Assembling
<1>5. encoded_instruction \in Seq(QuietWords)
  <2>1. line.mnemonic \notin Asm!StoreForm \cup {"SYSCALL", "JAL"}
    BY <1>4, CutPlace DEF Assembling
  <2> QED BY <1>2, <1>4, <2>1, WordsOfLine DEF Assembling
<1>6. program_binary' \in Seq(QuietWords)
  BY <1>5 DEF Asm!Push, Assembling
<1>7. line_number' \in 0 .. n - 1 /\ asm_step' = "encode" /\ instructions' = instructions
  BY <1>1, <1>4 DEF Asm!Push, Assembling
<1> QED BY <1>6, <1>7 DEF Assembling

(* The assembler keeps to it: of the line it is cut at it appends nothing. *)
LEMMA AssemblingStep ==
  ASSUME NEW n, Assembling(n), Asm!Next PROVE Assembling(n)'
<1>1. CASE Asm!Encode
  BY <1>1 DEF Asm!Encode, Asm!AtLine, Asm!CurrentLine, Assembling
<1>2. CASE Asm!UnknownMnemonic \/ Asm!Refuse \/ Asm!Finish \/ Asm!EncodeCrash
  BY <1>2 DEF Asm!UnknownMnemonic, Asm!Refuse, Asm!Finish, Asm!EncodeCrash, Asm!Return,
    Asm!Crash, Assembling
<1>3. CASE Asm!AppendLa
  <2>1. CASE encoded_instruction = Asm!N
    BY <1>3, <2>1 DEF Asm!AppendLa, Asm!Crash, Assembling
  <2> QED BY <1>3, <2>1, PushAssembling DEF Asm!AppendLa
<1>4. CASE Asm!AppendOne
  BY <1>4, PushAssembling DEF Asm!AppendOne
<1> QED BY <1>1, <1>2, <1>3, <1>4 DEF Asm!Next

(* A new CPU is typed, and neither engine has halted. *)
LEMMA FreshCpu ==
  ASSUME BothInit
  PROVE  /\ IInv /\ status = "running" /\ RefProofs!IInv /\ ref_status = "running"
         /\ if_id = IfIdReset /\ id_ex = IdExReset
         /\ ex_mem.ctl = NoSignals /\ mem_wb.ctl = NoSignals
<1>1. IInv
  BY InitIInv DEF BothInit
<1>2. RefProofs!TypeOK
  <2>1. 0 \in Word
    BY WordFacts
  <2> QED BY <1>1, <2>1, SameWords DEF BothInit, IInv, TypeOK, RefProofs!TypeOK
<1>3. RefProofs!PcMirrored
  BY DEF BothInit, Init, RefProofs!PcMirrored
<1> QED BY <1>1, <1>2, <1>3 DEF BothInit, Init, RefProofs!IInv, ExMemReset, MemWbReset

(* Whatever the words are, the CPU they are loaded into stays typed. *)
LEMMA LoadTyped ==
  ASSUME BothInit, Load, \A a \in Address : Loaded[a] \in Word
  PROVE  /\ IInv' /\ status' # "halted" /\ RefProofs!IInv' /\ ref_status' # "halted"
         /\ memory' = Loaded /\ ref_memory' = Loaded
         /\ registers' = [registers EXCEPT ![T6] = 8] /\ ref_registers' = registers'
<1>1. memory' = Loaded /\ ref_memory' = Loaded /\ ref_registers' = registers'
      /\ registers' = [registers EXCEPT ![T6] = 8]
  BY DEF Load
<1>2. Loaded \in Memory /\ registers' \in Registers
  <2>1. Loaded \in Memory
    BY DEF Loaded, Memory
  <2>2. 8 \in Word
    BY WordFacts DEF Word
  <2> QED BY <1>1, <2>1, <2>2, FreshCpu DEF IInv, TypeOK, Registers, Reg
<1>3. IInv' /\ status' # "halted"
  <2>1. TypeOK'
    BY <1>1, <1>2, FreshCpu DEF Load, IInv, TypeOK
  <2> QED BY <2>1, FreshCpu
      DEF Load, IInv, HazardUnitIdle, ForwardingConsumed, RedirectWithinTurn,
        BranchOperandsZero, SignalsOfExMem, SignalsOfIdEx, RdIsNumber, DestinationIsNumber
<1>4. RefProofs!IInv' /\ ref_status' # "halted"
  <2>1. RefProofs!TypeOK'
    BY <1>1, <1>2, SameWords, FreshCpu DEF Load, RefProofs!IInv, RefProofs!TypeOK
  <2>2. RefProofs!PcMirrored'
    BY DEF Load, BothInit, Init, RefProofs!PcMirrored
  <2> QED BY <2>1, <2>2, FreshCpu DEF Load, RefProofs!IInv
<1> QED BY <1>1, <1>3, <1>4

(* Where the words of the text come to stand. *)
LEMMA LoadedWords ==
  ASSUME Len(program_binary) \in Nat, NEW a \in Address
  PROVE  \/ a < Len(program_binary) /\ Loaded[a] = WordCode[program_binary[a + 1]]
         \/ /\ ~(a < Len(program_binary))
            /\ a \in Messages /\ Loaded[a] = WordCode[MessageWord(a)]
         \/ ~(a < Len(program_binary)) /\ a \notin Messages /\ Loaded[a] = 0
<1>1. a \in Nat
  BY MemoryAssumption DEF Address
<1>2. CASE a < Len(program_binary)
  <2>1. ~(a >= Len(program_binary))
    BY <1>1, <1>2
  <2> QED BY <1>2, <2>1 DEF Loaded
<1>3. CASE ~(a < Len(program_binary))
  <2>1. a >= Len(program_binary)
    BY <1>1, <1>3
  <2> QED BY <1>3, <2>1 DEF Loaded
<1> QED BY <1>2, <1>3

(* The CPU that the words of a cut text are loaded into runs nothing else. *)
LEMMA LoadRuns ==
  ASSUME NEW n, CutQuietly, Assembling(n), BothInit, Load PROVE Running'
<1>1. ASSUME NEW a \in Address
      PROVE  Loaded[a] \in Word /\ Fields[Loaded[a]] \in QuietInstruction
  <2>1. a \in Nat /\ Len(program_binary) \in Nat
    BY MemoryAssumption DEF Address, Assembling
  <2>2. CASE a < Len(program_binary) /\ Loaded[a] = WordCode[program_binary[a + 1]]
    <3>1. program_binary[a + 1] \in QuietWords
      BY <2>1, <2>2 DEF Assembling
    <3> QED BY <2>2, <3>1, QuietInMemory
  <2>3. CASE a \in Messages /\ Loaded[a] = WordCode[MessageWord(a)]
    BY <2>3, QuietMessage
  <2>4. CASE Loaded[a] = 0
    <3>1. 0 \in Word /\ Fields[0] \in QuietInstruction
      BY WordFacts, FieldsAssumption
      DEF QuietInstruction, Quiet, Opcodes, Stores
    <3> QED BY <2>4, <3>1
  <2> QED BY <2>1, <2>2, <2>3, <2>4, LoadedWords
<1>2. /\ IInv' /\ status' # "halted" /\ RefProofs!IInv' /\ ref_status' # "halted"
      /\ memory' = Loaded /\ ref_memory' = Loaded
  BY <1>1, LoadTyped
<1>3. MadeOf(QuietInstruction)'
  <2>1. Fields[0] \in QuietInstruction
    BY WordFacts, FieldsAssumption DEF QuietInstruction, Quiet, Opcodes, Stores
  <2> QED BY <1>1, <1>2, <2>1, FreshCpu
      DEF Load, MadeOf, IfIdReset, IdExReset, NoSignals
<1> QED BY <1>1, <1>2, <1>3 DEF Running

(* A text that is cut before anything in it stores or calls is run, but    *)
(* never to an end, whatever the line is that cannot be taken, whatever    *)
(* stands behind it and whatever the numbers before it are.                *)
THEOREM CutTextNeverHalts == CutQuietly => (DemoSpec => []RefusedNeverHalts)
<1> SUFFICES ASSUME CutQuietly PROVE DemoSpec => []RefusedNeverHalts
  OBVIOUS
<1> DEFINE Inv == /\ instructions \in Texts
                  /\ \A n : CutAt(instructions, n) => CutInv(n)
<1>1. DemoInit => Inv
  <2> SUFFICES ASSUME DemoInit, NEW n, CutAt(instructions, n) PROVE CutInv(n)
    BY DEF DemoInit, Asm!Init
  <2>1. instructions \in Texts /\ line_number = 0 /\ program_binary = <<>>
        /\ asm_step = "encode" /\ phase = "assemble" /\ BothInit
    BY DEF DemoInit, Asm!Init
  <2>2. 0 \in 0 .. n - 1
    BY <2>1, CutPlace
  <2> QED BY <2>1, <2>2 DEF CutInv, Assembling
<1>2. Inv /\ [DemoNext]_demo_vars => Inv'
  <2> SUFFICES ASSUME Inv, [DemoNext]_demo_vars PROVE Inv'
    OBVIOUS
  <2>1. instructions' = instructions
    BY DEF DemoNext, demo_vars, asm_vars, Assemble, Load, Run, Asm!Next, Asm!UnknownMnemonic,
      Asm!Encode, Asm!EncodeCrash, Asm!AppendLa, Asm!AppendOne, Asm!Refuse, Asm!Finish,
      Asm!Return, Asm!Crash, Asm!Push
  <2>2. ASSUME NEW n, CutAt(instructions, n) PROVE CutInv(n)'
    <3>1. CASE UNCHANGED demo_vars
      <4>1. Assembling(n) => Assembling(n)'
        BY <3>1 DEF demo_vars, asm_vars, Assembling
      <4>2. BothInit => BothInit'
        BY <3>1 DEF demo_vars, both_vars, vars, ref_vars, BothInit, Init
      <4>3. Running => Running'
        BY <3>1, RunningStep DEF demo_vars
      <4> QED BY <2>2, <3>1, <4>1, <4>2, <4>3 DEF demo_vars, CutInv
    <3>2. CASE Assemble
      <4>1. phase = "assemble" /\ phase' = phase /\ Assembling(n) /\ BothInit
        BY <2>2, <3>2 DEF Assemble, CutInv
      <4>2. Assembling(n)'
        BY <3>2, <4>1, AssemblingStep DEF Assemble
      <4>3. BothInit'
        BY <3>2, <4>1 DEF Assemble, both_vars, vars, ref_vars, BothInit, Init
      <4> QED BY <4>1, <4>2, <4>3 DEF CutInv
    <3>3. CASE Load
      BY <2>2, <3>3, LoadRuns DEF Load, CutInv
    <3>4. CASE Run
      BY <2>2, <3>4, RunningStep DEF Run, CutInv
    <3> QED BY <3>1, <3>2, <3>3, <3>4 DEF DemoNext
  <2> QED BY <2>1, <2>2 DEF CutAt, RefusedLine
<1>3. Inv => RefusedNeverHalts
  <2> SUFFICES ASSUME Inv, status = "halted" \/ ref_status = "halted",
                      ~ \A k \in DOMAIN instructions : Asm!Promise!Acceptable(instructions[k])
               PROVE  FALSE
    BY DEF RefusedNeverHalts
  <2>1. PICK n \in DOMAIN instructions : CutAt(instructions, n)
    BY DEF CutQuietly
  <2>2. CutInv(n)
    BY <2>1
  <2> QED BY <2>2, FreshCpu DEF CutInv, Running
<1> QED BY <1>1, <1>2, <1>3, PTL DEF DemoSpec

(***************************************************************************)
(* Texts that leave $zero alone                                            *)
(***************************************************************************)
(* The assembler is an instance of its module as well, and what is proved  *)
(* about the words of a line an instance of that one's proofs.             *)
AsmProofs == INSTANCE AssemblerProofs WITH
  i <- line_number, step <- asm_step, encoded_instructions <- program_binary,
  status <- asm_status, result <- fail

(* A line is the same to both, and so is what may become of it. *)
LEMMA SameLine == Asm!Line = AsmProofs!Line
  BY DEF Asm!Unknown, Asm!Name, Asm!Number, Asm!Operand, Asm!Line, AsmProofs!Unknown,
      AsmProofs!Name, AsmProofs!Number, AsmProofs!Operand, AsmProofs!Line

(* The parts of a line's encoding are compared one by one. *)
LEMMA SameEncodings ==
  \A l : /\ Asm!Encodings(l) = AsmProofs!Encodings(l)
         /\ Asm!Undefined(l) <=> AsmProofs!Undefined(l)
<1>1. \A n, c : Asm!AnyBaseToBinary(n, c) = AsmProofs!AnyBaseToBinary(n, c)
  BY DEF Asm!AnyBaseToBinary, Asm!Pattern, Asm!Value, Asm!IsInt, Asm!Zero, Asm!MinusZero,
      Asm!LowSize, AsmProofs!AnyBaseToBinary, AsmProofs!Pattern, AsmProofs!Value,
      AsmProofs!IsInt, AsmProofs!Zero, AsmProofs!MinusZero, AsmProofs!LowSize
<1>2. \A n, c : Asm!Bits(n, c) = AsmProofs!Bits(n, c)
  BY DEF Asm!Bits, Asm!Pattern, Asm!Value, Asm!LowSize, AsmProofs!Bits, AsmProofs!Pattern,
      AsmProofs!Value, AsmProofs!LowSize
<1>3. /\ \A rs, rt, rd, shamt, fn :
           Asm!RWord(rs, rt, rd, shamt, fn) = AsmProofs!RWord(rs, rt, rd, shamt, fn)
      /\ \A op, rs, rt, imm : Asm!IWord(op, rs, rt, imm) = AsmProofs!IWord(op, rs, rt, imm)
      /\ \A op, target : Asm!JWord(op, target) = AsmProofs!JWord(op, target)
  BY DEF Asm!RWord, Asm!IWord, Asm!JWord, Asm!ShamtAt, Asm!RdAt, Asm!RtAt, Asm!RsAt,
      AsmProofs!RWord, AsmProofs!IWord, AsmProofs!JWord, AsmProofs!ShamtAt, AsmProofs!RdAt,
      AsmProofs!RtAt, AsmProofs!RsAt
<1>4. /\ Asm!Op = AsmProofs!Op /\ Asm!N = AsmProofs!N
      /\ Asm!Immed = AsmProofs!Immed /\ Asm!Shamt = AsmProofs!Shamt
      /\ Asm!Target = AsmProofs!Target /\ Asm!Unknown = AsmProofs!Unknown
  BY DEF Asm!Op, Asm!N, Asm!Immed, Asm!Shamt, Asm!Target, Asm!Unknown, Asm!RtAt, Asm!LowSize,
      AsmProofs!Op, AsmProofs!N, AsmProofs!Immed, AsmProofs!Shamt, AsmProofs!Target,
      AsmProofs!Unknown, AsmProofs!RtAt, AsmProofs!LowSize
<1>5. \A o : Asm!StripWhiteSpaces(o) = AsmProofs!StripWhiteSpaces(o)
  BY DEF Asm!StripWhiteSpaces, Asm!Stripped, Asm!Doubled, Asm!Unknown,
      AsmProofs!StripWhiteSpaces, AsmProofs!Stripped, AsmProofs!Doubled, AsmProofs!Unknown
<1>6. /\ \A x : Asm!ValidStoreReg(x) = AsmProofs!ValidStoreReg(x)
      /\ \A o, s : Asm!Known(o, s) = AsmProofs!Known(o, s)
  BY DEF Asm!ValidStoreReg, Asm!Known, Asm!Unknown, AsmProofs!ValidStoreReg, AsmProofs!Known,
      AsmProofs!Unknown
<1>7. /\ \A x, c : Asm!Fits(x, c) = AsmProofs!Fits(x, c)
      /\ \A x, c : Asm!FitsSplit(x, c) = AsmProofs!FitsSplit(x, c)
  BY <1>1 DEF Asm!Fits, Asm!FitsSplit, AsmProofs!Fits, AsmProofs!FitsSplit
<1>8. \A m, o : Asm!RType(m, o) = AsmProofs!RType(m, o)
  BY <1>2, <1>3, <1>4, <1>6, <1>7
  DEF Asm!RType, Asm!ThreeRegisters, AsmProofs!RType, AsmProofs!ThreeRegisters
<1>9. \A rt, n : Asm!LaWords(rt, n) = AsmProofs!LaWords(rt, n)
  BY <1>2, <1>3, <1>4 DEF Asm!LaWords, Asm!LongLa, AsmProofs!LaWords, AsmProofs!LongLa
<1>10. \A m, o : Asm!IType(m, o) = AsmProofs!IType(m, o)
  BY <1>2, <1>3, <1>4, <1>6, <1>7, <1>9
  DEF Asm!IType, Asm!ByImmediate, Asm!LoadForm, Asm!StoreForm, Asm!AgainstZero,
      AsmProofs!IType, AsmProofs!ByImmediate, AsmProofs!LoadForm, AsmProofs!StoreForm,
      AsmProofs!AgainstZero
<1>11. \A m, o : Asm!JType(m, o) = AsmProofs!JType(m, o)
  BY <1>2, <1>3, <1>4, <1>7 DEF Asm!JType, AsmProofs!JType
<1>12. \A m, o : Asm!MissingBase(m, o) = AsmProofs!MissingBase(m, o)
  BY <1>4, <1>6, <1>7 DEF Asm!MissingBase, Asm!LoadForm, Asm!StoreForm, AsmProofs!MissingBase,
      AsmProofs!LoadForm, AsmProofs!StoreForm
<1>13. Asm!Trap = AsmProofs!Trap
  BY <1>3 DEF Asm!Trap, AsmProofs!Trap
<1>14. \A l : Asm!Encodings(l) = AsmProofs!Encodings(l)
  BY <1>2, <1>3, <1>4, <1>5, <1>8, <1>10, <1>11, <1>12, <1>13
  DEF Asm!Encodings, Asm!RegisterForm, Asm!ImmediateForm, Asm!JumpForm,
      AsmProofs!Encodings, AsmProofs!RegisterForm, AsmProofs!ImmediateForm,
      AsmProofs!JumpForm
<1>15. \A m, o : Asm!MissingLink(m, o) <=> AsmProofs!MissingLink(m, o)
  BY <1>6 DEF Asm!MissingLink, AsmProofs!MissingLink
<1>16. Asm!Mnemonic = AsmProofs!Mnemonic
  BY DEF Asm!Mnemonic, Asm!RegisterForm, Asm!ImmediateForm, Asm!JumpForm,
      AsmProofs!Mnemonic, AsmProofs!RegisterForm, AsmProofs!ImmediateForm,
      AsmProofs!JumpForm
<1>17. \A l : Asm!Undefined(l) <=> AsmProofs!Undefined(l)
  BY <1>5, <1>12, <1>15, <1>16 DEF Asm!Undefined, AsmProofs!Undefined
<1> QED BY <1>14, <1>17

(* An "N", and what the texts are assumed to be, likewise. *)
LEMMA SameNone == Asm!N = AsmProofs!N
  BY DEF Asm!N, AsmProofs!N

LEMMA SameTexts == AsmProofs!TextsAssumption
  BY SameLine, LinesAssumption DEF AsmProofs!TextsAssumption

(* So the two have the same steps. *)
LEMMA SameAssembler == /\ Asm!Init <=> AsmProofs!Init
                       /\ Asm!Next <=> AsmProofs!Next
<1>1. Asm!Init <=> AsmProofs!Init
  BY SameNone DEF Asm!Init, AsmProofs!Init
<1>2. Asm!Mnemonic = AsmProofs!Mnemonic
  BY DEF Asm!Mnemonic, Asm!RegisterForm, Asm!ImmediateForm, Asm!JumpForm,
      AsmProofs!Mnemonic, AsmProofs!RegisterForm, AsmProofs!ImmediateForm,
      AsmProofs!JumpForm
<1>3. Asm!Encode <=> AsmProofs!Encode
  BY <1>2, SameEncodings, SameNone DEF Asm!Encode, AsmProofs!Encode, Asm!AtLine,
      AsmProofs!AtLine, Asm!CurrentLine, AsmProofs!CurrentLine
<1>4. /\ Asm!UnknownMnemonic <=> AsmProofs!UnknownMnemonic
      /\ Asm!EncodeCrash <=> AsmProofs!EncodeCrash
  BY <1>2, SameEncodings DEF Asm!UnknownMnemonic, AsmProofs!UnknownMnemonic, Asm!EncodeCrash,
      AsmProofs!EncodeCrash, Asm!Return, AsmProofs!Return, Asm!Crash, AsmProofs!Crash,
      Asm!AtLine, AsmProofs!AtLine, Asm!CurrentLine, AsmProofs!CurrentLine
<1>5. /\ Asm!AppendLa <=> AsmProofs!AppendLa
      /\ Asm!AppendOne <=> AsmProofs!AppendOne
  BY SameNone DEF Asm!AppendLa, AsmProofs!AppendLa, Asm!AppendOne, AsmProofs!AppendOne,
      Asm!Appending, AsmProofs!Appending, Asm!Push, AsmProofs!Push, Asm!Crash,
      AsmProofs!Crash, Asm!MultInstDone, AsmProofs!MultInstDone
<1>6. /\ Asm!Refuse <=> AsmProofs!Refuse
      /\ Asm!Finish <=> AsmProofs!Finish
  BY SameNone DEF Asm!Refuse, AsmProofs!Refuse, Asm!Finish, AsmProofs!Finish, Asm!Appending,
      AsmProofs!Appending, Asm!Return, AsmProofs!Return
<1> QED BY <1>1, <1>3, <1>4, <1>5, <1>6 DEF Asm!Next, AsmProofs!Next

(* The words of such lines: an R-type or an immediate with a destination   *)
(* other than $zero, or a system call.                                     *)
SparingWord(w) ==
  \/ w.opcode = 0 /\ Asm!FnOf(w) # 9 /\ Asm!RdOf(w) # 0
  \/ w.opcode \in {8, 12, 13, 14, 15, 57} /\ Asm!RtOf(w) # 0
  \/ w.opcode = 63

LEMMA SameCut ==
  \A w : /\ AsmProofs!RdWord(w) => SparingWord(w) /\ w.opcode = 0
         /\ AsmProofs!RtWord(w) => SparingWord(w) /\ w.opcode \in {8, 12, 13, 14, 15, 57}
  BY DEF SparingWord, AsmProofs!RdWord, AsmProofs!RtWord, AsmProofs!RdOf, AsmProofs!RtOf,
      AsmProofs!FnOf, Asm!RdOf, Asm!RtOf, Asm!FnOf, AsmProofs!RdAt, AsmProofs!RtAt,
      Asm!RdAt, Asm!RtAt

(* A sparing line becomes one such word, or two that are immediates; only  *)
(* a line of the register form becomes an R-type.                          *)
LEMMA SparingLineWords ==
  ASSUME NEW line \in Asm!Line, SparingLine(line), NEW e \in Asm!Encodings(line), e # Asm!N
  PROVE  \/ \E w : /\ e = <<w>> /\ SparingWord(w)
                   /\ w.opcode = 0 => line.mnemonic \in Asm!RegisterForm
                   /\ w.opcode = 63 => line.mnemonic = "SYSCALL"
         \/ \E v, w : /\ e = <<v, w>> /\ SparingWord(v) /\ SparingWord(w)
                      /\ {v.opcode, w.opcode} \cap {0, 63} = {}
<1>1. line \in AsmProofs!Line /\ e \in AsmProofs!Encodings(line) /\ e # AsmProofs!N
  BY SameEncodings, SameLine, SameNone
<1>2. \/ line.mnemonic \in AsmProofs!ByRd /\ line.mnemonic \in Asm!RegisterForm
      \/ line.mnemonic = "SYSCALL"
      \/ line.mnemonic \in AsmProofs!ByImmediate
      \/ /\ line.mnemonic \in {"LUI", "LI", "LA"}
         /\ line.operands # <<>> => line.operands[1].reg # 0
  BY DEF SparingLine, AsmProofs!ByRd, AsmProofs!ThreeRegisters, AsmProofs!ByImmediate,
    Asm!ThreeRegisters, Asm!ByImmediate, Asm!RegisterForm
<1>3. CASE line.mnemonic \in AsmProofs!ByRd /\ line.mnemonic \in Asm!RegisterForm
  <2>1. PICK w : e = <<w>> /\ AsmProofs!RdWord(w)
    BY <1>1, <1>3, SameTexts, AsmProofs!RdWords
  <2> QED BY <1>3, <2>1, SameCut
<1>4. CASE line.mnemonic = "SYSCALL"
  <2>1. PICK w : e = <<w>> /\ w.opcode = 63
    BY <1>1, <1>4, SameTexts, AsmProofs!TrapWord
  <2> QED BY <1>4, <2>1 DEF SparingWord
<1>5. CASE \/ line.mnemonic \in AsmProofs!ByImmediate
           \/ /\ line.mnemonic \in {"LUI", "LI", "LA"}
              /\ line.operands # <<>> => line.operands[1].reg # 0
  <2>1. \/ \E w : e = <<w>> /\ AsmProofs!RtWord(w)
        \/ \E v, w : e = <<v, w>> /\ AsmProofs!RtWord(v) /\ AsmProofs!RtWord(w)
    BY <1>1, <1>5, SameTexts, AsmProofs!RtWords
  <2>2. CASE \E w : e = <<w>> /\ AsmProofs!RtWord(w)
    BY <2>2, SameCut
  <2>3. CASE \E v, w : e = <<v, w>> /\ AsmProofs!RtWord(v) /\ AsmProofs!RtWord(w)
    BY <2>3, SameCut
  <2> QED BY <2>1, <2>2, <2>3
<1> QED BY <1>2, <1>3, <1>4, <1>5

(* What decode() takes their numbers for. *)
LEMMA NamedNumbers ==
  ASSUME NEW names, NEW n, NEW s, Named(names, n) = s
  PROVE  s = "UNDEFINED" \/ (s \in names /\ Asm!Code[s] = n)
  BY DEF Named

LEMMA SparingOpcodes ==
  ASSUME NEW n
  PROVE  /\ n # 0 => OpcodeOf(n) # "R_TYPE"
         /\ n # 63 => OpcodeOf(n) # "SYSCALL"
         /\ n \in {8, 12, 13, 14, 15, 57} => OpcodeOf(n) \in AluImm \cup {"UNDEFINED"}
         /\ n \in {26, 27, 28} => OpcodeOf(n) \in {"DIV", "UNDEFINED"}
         /\ n \in {27, 28} => OpcodeOf(n) = "UNDEFINED"
<1> DEFINE names == Opcodes \ {"R_TYPE", "UNDEFINED"}
<1>1. n # 0 => \/ OpcodeOf(n) = "UNDEFINED"
               \/ OpcodeOf(n) \in names /\ Asm!Code[OpcodeOf(n)] = n
  BY NamedNumbers DEF OpcodeOf
<1>2. "SYSCALL" \in names /\ "R_TYPE" \notin names /\ Asm!Code["SYSCALL"] = 63
  BY DEF Opcodes, Asm!Code
<1>3. \A s \in names : Asm!Code[s] \in {8, 12, 13, 14, 15, 57} => s \in AluImm
  BY DEF Opcodes, Jumps, Immediates, AluImm, Loads, Stores, Branches, Undefined, Misread,
    Asm!Code
<1>4. \A s \in names : /\ Asm!Code[s] \notin {27, 28}
                       /\ Asm!Code[s] = 26 => s = "DIV"
  BY DEF Opcodes, Jumps, Immediates, AluImm, Loads, Stores, Branches, Undefined, Misread,
    Asm!Code
<1> HIDE DEF names
<1>5. n # 0 => OpcodeOf(n) # "R_TYPE"
  BY <1>1, <1>2
<1>6. n # 63 => OpcodeOf(n) # "SYSCALL"
  BY <1>1, <1>2 DEF OpcodeOf
<1>7. n \in {8, 12, 13, 14, 15, 57} => OpcodeOf(n) \in AluImm \cup {"UNDEFINED"}
  BY <1>1, <1>3
<1>8. ASSUME n \in {26, 27, 28}
      PROVE  /\ OpcodeOf(n) \in {"DIV", "UNDEFINED"}
             /\ n \in {27, 28} => OpcodeOf(n) = "UNDEFINED"
  <2>1. \/ OpcodeOf(n) = "UNDEFINED"
        \/ OpcodeOf(n) \in names /\ Asm!Code[OpcodeOf(n)] = n
    BY <1>1, <1>8
  <2>2. CASE OpcodeOf(n) \in names /\ Asm!Code[OpcodeOf(n)] = n
    <3> DEFINE s == OpcodeOf(n)
    <3>1. /\ Asm!Code[s] \notin {27, 28} /\ Asm!Code[s] = n
          /\ Asm!Code[s] = 26 => s = "DIV"
      BY <1>4, <2>2, Zenon
    <3> QED BY <1>8, <3>1
  <2> QED BY <2>1, <2>2
<1> QED BY <1>5, <1>6, <1>7, <1>8

LEMMA NoLink == ASSUME NEW n, n # 9 PROVE Named(Functions, n) # "JALR"
<1>1. Asm!Code["JALR"] = 9
  BY DEF Asm!Code
<1> QED BY <1>1, NamedNumbers

SparingWords == {w \in TextWords : SparingWord(w)}

(* In memory they are instructions that leave $zero alone. *)
LEMMA SparingInMemory ==
  ASSUME NEW w \in SparingWords
  PROVE  /\ WordCode[w] \in Word /\ SparesZero(Fields[WordCode[w]])
         /\ w.opcode # 0 => Fields[WordCode[w]].op # "R_TYPE"
         /\ w.opcode # 63 => Fields[WordCode[w]].op # "SYSCALL"
         /\ Fields[WordCode[w]].op \notin Misread
<1>1. WordCode[w] \in Word /\ Fields[WordCode[w]] = FieldsCut(w)
  BY CodeAssumption DEF SparingWords
<1>2. /\ FieldsCut(w).op = OpcodeOf(w.opcode) /\ FieldsCut(w).rt = Asm!RtOf(w)
      /\ FieldsCut(w).rd = Asm!RdOf(w) /\ FieldsCut(w).fn = Named(Functions, Asm!FnOf(w))
  BY DEF FieldsCut
<1>3. FieldsCut(w).op \in Opcodes
  BY <1>1, FieldsAssumption DEF Instruction
<1>4. SparesZero(Fields[WordCode[w]])
  <2>1. CASE w.opcode = 0 /\ Asm!FnOf(w) # 9 /\ Asm!RdOf(w) # 0
    BY <1>1, <1>2, <2>1, NoLink DEF SparesZero, OpcodeOf
  <2>2. CASE w.opcode \in {8, 12, 13, 14, 15, 57} /\ Asm!RtOf(w) # 0
    BY <1>1, <1>2, <2>2, SparingOpcodes DEF SparesZero, Undefined
  <2>3. CASE w.opcode = 63
    <3>1. "SYSCALL" \in Opcodes \ {"R_TYPE", "UNDEFINED"} /\ Asm!Code["SYSCALL"] = 63
      BY DEF Opcodes, Asm!Code
    <3>2. \A s \in Opcodes \ {"R_TYPE", "UNDEFINED"} : Asm!Code[s] = 63 => s = "SYSCALL"
      BY DEF Opcodes, Jumps, Immediates, AluImm, Loads, Stores, Branches, Undefined, Misread,
        Asm!Code
    <3>3. Named(Opcodes \ {"R_TYPE", "UNDEFINED"}, 63) = "SYSCALL"
      BY <3>1, <3>2 DEF Named
    <3>4. OpcodeOf(63) = "SYSCALL"
      BY <3>3 DEF OpcodeOf
    <3> QED BY <1>1, <1>2, <2>3, <3>4 DEF SparesZero
  <2> QED BY <2>1, <2>2, <2>3 DEF SparingWords, SparingWord
<1>5. /\ w.opcode # 0 => Fields[WordCode[w]].op # "R_TYPE"
      /\ w.opcode # 63 => Fields[WordCode[w]].op # "SYSCALL"
  BY <1>1, <1>2, SparingOpcodes
<1>6. Fields[WordCode[w]].op \notin Misread
  <2>1. w.opcode = 0 \/ w.opcode \in {8, 12, 13, 14, 15, 57} \/ w.opcode = 63
    BY DEF SparingWords, SparingWord
  <2>2. OpcodeOf(w.opcode) \in {"R_TYPE", "SYSCALL", "UNDEFINED"} \cup AluImm
    <3>1. CASE w.opcode = 0
      BY <3>1 DEF OpcodeOf
    <3>2. CASE w.opcode \in {8, 12, 13, 14, 15, 57}
      BY <3>2, SparingOpcodes
    <3>3. CASE w.opcode = 63
      <4>1. \A s \in Opcodes \ {"R_TYPE", "UNDEFINED"} : Asm!Code[s] = 63 => s = "SYSCALL"
        BY DEF Opcodes, Jumps, Immediates, AluImm, Loads, Stores, Branches, Undefined,
          Misread, Asm!Code
      <4>2. OpcodeOf(63) = Named(Opcodes \ {"R_TYPE", "UNDEFINED"}, 63)
        BY DEF OpcodeOf
      <4>3. OpcodeOf(63) \in {"SYSCALL", "UNDEFINED"}
        BY <4>1, <4>2, NamedNumbers
      <4> QED BY <3>3, <4>3
    <3> QED BY <2>1, <3>1, <3>2, <3>3
  <2> QED BY <1>1, <1>2, <2>2 DEF AluImm, Misread
<1> QED BY <1>1, <1>4, <1>5, <1>6

(* So are the messages: their I-types have $a3, $a1, $at and $t6 for rt,   *)
(* their R-type has $t4 for rd.  "Regi", taken for a division, is followed *)
(* by "ster", whose opcode is nothing's and writes nothing.                *)
LEMMA SparingMessage ==
  ASSUME NEW a \in Messages
  PROVE  /\ SparesZero(Fields[WordCode[MessageWord(a)]])
         /\ Fields[WordCode[MessageWord(a)]].op \in Misread =>
              /\ a + 1 \in Messages
              /\ WritesNothing(Fields[WordCode[MessageWord(a + 1)]].op)
<1> DEFINE w == MessageWord(a)
<1>1. /\ Fields[WordCode[w]].op = OpcodeOf(w.opcode)
      /\ Fields[WordCode[w]].rt = Asm!RtOf(w) /\ Fields[WordCode[w]].rd = Asm!RdOf(w)
      /\ Fields[WordCode[w]].fn = Named(Functions, Asm!FnOf(w))
  <2>1. /\ FieldsCut(w).op = OpcodeOf(w.opcode) /\ FieldsCut(w).rt = Asm!RtOf(w)
        /\ FieldsCut(w).rd = Asm!RdOf(w) /\ FieldsCut(w).fn = Named(Functions, Asm!FnOf(w))
    BY DEF FieldsCut
  <2> QED BY <2>1, MessageOpcodes
<1>2. /\ w.opcode \in {26, 27, 28} => Asm!RtOf(w) # 0
      /\ w.opcode = 0 => Asm!RdOf(w) # 0 /\ Asm!FnOf(w) # 9
  <2>1. \A m \in {Regi, Ster, S_ar, E_no, T_eq, E_eq} : m.opcode # 0 /\ Asm!RtOf(m) # 0
    BY DEF Regi, Ster, S_ar, E_no, T_eq, E_eq, Asm!IWord, Asm!RtOf, Asm!RtAt, Asm!RsAt
  <2>2. Ual0.opcode = 0 /\ Asm!RdOf(Ual0) # 0 /\ Asm!FnOf(Ual0) # 9
    BY DEF Ual0, Asm!RWord, Asm!RdOf, Asm!FnOf, Asm!RtAt, Asm!RsAt, Asm!RdAt, Asm!ShamtAt
  <2>3. w \in {Regi, Ster, S_ar, E_no, T_eq, E_eq, Ual0}
    BY DEF MessageWord
  <2> QED BY <2>1, <2>2, <2>3
<1>3. SparesZero(Fields[WordCode[w]])
  <2>1. CASE w.opcode = 0
    BY <1>1, <1>2, <2>1, NoLink DEF SparesZero, OpcodeOf
  <2>2. CASE w.opcode \in {26, 27, 28}
    BY <1>1, <1>2, <2>2, SparingOpcodes DEF SparesZero, Undefined, Misread
  <2> QED BY <2>1, <2>2, MessageOpcodes
<1>4. ASSUME Fields[WordCode[w]].op \in Misread
      PROVE  a + 1 \in Messages /\ WritesNothing(Fields[WordCode[MessageWord(a + 1)]].op)
  <2>1. w.opcode = 26
    BY <1>1, <1>4, MessageOpcodes, SparingOpcodes DEF OpcodeOf, Misread
  <2>2. a \in {20, 26}
    BY <2>1 DEF MessageWord, Regi, Ster, S_ar, E_no, T_eq, E_eq, Ual0, Asm!IWord, Asm!RWord
  <2>3. a + 1 \in Messages /\ MessageWord(a + 1) = Ster
    BY <2>2 DEF Messages, MessageWord
  <2>4. Fields[WordCode[Ster]].op = OpcodeOf(28)
    <3>1. FieldsCut(Ster).op = OpcodeOf(Ster.opcode) /\ Ster.opcode = 28
      BY DEF FieldsCut, Ster, Asm!IWord
    <3> QED BY <2>3, <3>1, MessageOpcodes
  <2>5. WritesNothing("UNDEFINED")
    BY DEF WritesNothing, SetControlSignals, NoSignals, Misread, AluImm, Loads
  <2> QED BY <2>3, <2>4, <2>5, SparingOpcodes
<1> QED BY <1>3, <1>4

(***************************************************************************)
(* The inductive invariant, for a text that spares $zero up to line n: the *)
(* words appended are such words, a call has another word before it that   *)
(* is no R-type, and when the next line may be a call, so has that one.    *)
(***************************************************************************)
SparingAssembling(n) ==
  /\ instructions \in Texts /\ SparesUpTo(instructions, n)
  /\ line_number \in 0 .. n - 1
  /\ asm_step = "append" =>
       /\ line_number < Len(instructions)
       /\ instructions[line_number + 1].mnemonic \in Asm!Mnemonic
       /\ encoded_instruction \in Asm!Encodings(instructions[line_number + 1])
  /\ program_binary \in Seq(SparingWords)
  /\ \A k \in 1 .. Len(program_binary) : program_binary[k].opcode = 63 =>
       k > 1 /\ program_binary[k - 1].opcode # 0
  /\ line_number > 0 /\ instructions[line_number].mnemonic \notin Asm!RegisterForm =>
       Len(program_binary) > 0 /\ program_binary[Len(program_binary)].opcode # 0

(* Both engines, once a program of such words has been loaded. *)
SparingRun ==
  /\ IInv /\ ZeroInv
  /\ RefProofs!IInv /\ ref_registers[0] = 0
  /\ \A a \in Address : SparesZero(Fields[ref_memory[a]])

SparingInv(n) == \/ phase = "assemble" /\ SparingAssembling(n) /\ BothInit
                 \/ phase = "run" /\ SparingRun

LEMMA SparingPlace ==
  ASSUME NEW t \in Texts, NEW n, SparesUpTo(t, n)
  PROVE  /\ Len(t) \in Nat /\ n \in 1 .. Len(t) + 1
         /\ \A k \in 1 .. Len(t) : t[k] \in Asm!Line
         /\ n <= Len(t) => RefusedLine(t[n])
         /\ \A k \in 1 .. n - 1 : SparingLine(t[k]) /\ CallsBehind(t, k)
  BY LinesAssumption DEF SparesUpTo

(* What is appended comes of a sparing line. *)
LEMMA PushSparing ==
  ASSUME NEW n, SparingAssembling(n), Asm!Appending, encoded_instruction # Asm!N, Asm!Push
  PROVE  SparingAssembling(n)'
<1> DEFINE k    == line_number + 1
           line == instructions[k]
           e    == encoded_instruction
           p    == program_binary
<1>1. /\ Len(instructions) \in Nat /\ n \in 1 .. Len(instructions) + 1
      /\ \A j \in 1 .. Len(instructions) : instructions[j] \in Asm!Line
      /\ n <= Len(instructions) => RefusedLine(instructions[n])
      /\ \A j \in 1 .. n - 1 : SparingLine(instructions[j]) /\ CallsBehind(instructions, j)
  BY SparingPlace DEF SparingAssembling
<1>2. line.mnemonic \in Asm!Mnemonic /\ e \in Asm!Encodings(line) /\ k <= Len(instructions)
      /\ line_number \in 0 .. n - 1 /\ p \in Seq(SparingWords)
  BY <1>1 DEF SparingAssembling, Asm!Appending
<1>3. k # n
  BY <1>1, <1>2 DEF RefusedLine
<1>4. k \in 1 .. n - 1 /\ k \in 1 .. Len(instructions) /\ Len(p) \in Nat
  BY <1>1, <1>2, <1>3
<1>5. line \in Asm!Line /\ SparingLine(line) /\ CallsBehind(instructions, k)
  BY <1>1, <1>4
<1>6. \A j \in DOMAIN e : e[j] \in TextWords
  <2>1. line \in UNION {Elements(t) : t \in Texts}
    BY <1>4, LinesAssumption DEF Elements, SparingAssembling
  <2>2. e \in UNION {Asm!Encodings(l) : l \in UNION {Elements(t) : t \in Texts}}
    BY <1>2, <2>1
  <2>3. ASSUME NEW j \in DOMAIN e PROVE e[j] \in Elements(e)
    BY DEF Elements
  <2> QED BY <2>2, <2>3 DEF TextWords
<1>7. line.mnemonic = "SYSCALL" => Len(p) > 0 /\ p[Len(p)].opcode # 0
  BY <1>4, <1>5 DEF CallsBehind, SparingAssembling
<1>8. /\ program_binary' = p \o e /\ line_number' = k /\ asm_step' = "encode"
      /\ instructions' = instructions
  BY DEF Asm!Push
<1>9. /\ e \in Seq(SparingWords) /\ Len(e) \in Nat /\ Len(e) > 0
      /\ \A j \in 1 .. Len(e) : e[j].opcode = 63 => j = 1 /\ line.mnemonic = "SYSCALL"
      /\ line.mnemonic \notin Asm!RegisterForm => e[Len(e)].opcode # 0
  <2>1. CASE \E w : /\ e = <<w>> /\ SparingWord(w)
                    /\ w.opcode = 0 => line.mnemonic \in Asm!RegisterForm
                    /\ w.opcode = 63 => line.mnemonic = "SYSCALL"
    BY <1>6, <2>1 DEF SparingWords
  <2>2. CASE \E v, w : /\ e = <<v, w>> /\ SparingWord(v) /\ SparingWord(w)
                       /\ {v.opcode, w.opcode} \cap {0, 63} = {}
    <3>1. PICK v, w : /\ e = <<v, w>> /\ SparingWord(v) /\ SparingWord(w)
                      /\ {v.opcode, w.opcode} \cap {0, 63} = {}
      BY <2>2
    <3>2. Len(e) = 2 /\ e[1] = v /\ e[2] = w /\ DOMAIN e = 1 .. 2
      BY <3>1
    <3>3. v \in SparingWords /\ w \in SparingWords
      <4>1. 1 \in DOMAIN e /\ 2 \in DOMAIN e
        BY <3>2
      <4>2. v \in TextWords /\ w \in TextWords
        BY <1>6, <3>2, <4>1, Zenon
      <4> QED BY <3>1, <4>2 DEF SparingWords
    <3>4. e \in Seq(SparingWords)
      <4>1. <<v, w>> \in Seq(SparingWords)
        BY <3>3, SMT
      <4> QED BY <3>1, <4>1, Zenon
    <3>5. e[1].opcode \notin {0, 63} /\ e[2].opcode \notin {0, 63}
      BY <3>1, <3>2, Zenon
    <3> QED BY <3>2, <3>4, <3>5
  <2> QED BY <1>2, <1>5, <2>1, <2>2, SparingLineWords
<1> HIDE DEF k, line, e, p
<1>10. /\ p \o e \in Seq(SparingWords) /\ Len(p \o e) = Len(p) + Len(e)
       /\ \A j \in 1 .. Len(p) : (p \o e)[j] = p[j]
       /\ \A j \in 1 .. Len(e) : (p \o e)[Len(p) + j] = e[j]
  BY <1>2, <1>9
<1>11. \A j \in 1 .. Len(p) : p[j].opcode = 63 => j > 1 /\ p[j - 1].opcode # 0
  BY DEF SparingAssembling, p
<1>12. ASSUME NEW j \in 1 .. Len(p \o e), (p \o e)[j].opcode = 63
       PROVE  j > 1 /\ (p \o e)[j - 1].opcode # 0
  <2>1. CASE j \in 1 .. Len(p)
    BY <1>4, <1>10, <1>11, <1>12, <2>1
  <2>2. CASE j \notin 1 .. Len(p)
    <3>1. j - Len(p) \in 1 .. Len(e) /\ j = Len(p) + (j - Len(p))
      BY <1>4, <1>9, <1>10, <2>2
    <3>2. e[j - Len(p)].opcode = 63
      BY <1>10, <1>12, <3>1
    <3>3. j - Len(p) = 1 /\ line.mnemonic = "SYSCALL"
      BY <1>9, <3>1, <3>2
    <3>4. j - 1 = Len(p) /\ Len(p) \in 1 .. Len(p)
      BY <1>4, <1>7, <3>1, <3>3
    <3> QED BY <1>4, <1>7, <1>10, <3>3, <3>4
  <2> QED BY <2>1, <2>2
<1>13. line.mnemonic \notin Asm!RegisterForm => (p \o e)[Len(p \o e)].opcode # 0
  BY <1>4, <1>9, <1>10
<1>14. line_number' \in 0 .. n - 1 /\ Len(p \o e) > 0
  BY <1>1, <1>4, <1>8, <1>9, <1>10
<1>15. instructions' \in Texts /\ SparesUpTo(instructions, n)' /\ instructions'[line_number'] = line
  BY <1>8 DEF SparingAssembling, line
<1> QED BY <1>8, <1>10, <1>12, <1>13, <1>14, <1>15 DEF SparingAssembling

(* The assembler keeps to it: of the line it is cut at it appends nothing. *)
LEMMA SparingStep ==
  ASSUME NEW n, SparingAssembling(n), Asm!Next PROVE SparingAssembling(n)'
<1>1. CASE Asm!Encode
  BY <1>1 DEF Asm!Encode, Asm!AtLine, Asm!CurrentLine, SparingAssembling
<1>2. CASE Asm!UnknownMnemonic \/ Asm!Refuse \/ Asm!Finish \/ Asm!EncodeCrash
  BY <1>2 DEF Asm!UnknownMnemonic, Asm!Refuse, Asm!Finish, Asm!EncodeCrash, Asm!Return,
    Asm!Crash, SparingAssembling
<1>3. CASE Asm!AppendLa
  <2>1. CASE encoded_instruction = Asm!N
    BY <1>3, <2>1 DEF Asm!AppendLa, Asm!Crash, SparingAssembling
  <2> QED BY <1>3, <2>1, PushSparing DEF Asm!AppendLa
<1>4. CASE Asm!AppendOne
  BY <1>4, PushSparing DEF Asm!AppendOne
<1> QED BY <1>1, <1>2, <1>3, <1>4 DEF Asm!Next

(* The registers and the memory that a sparing text is run with. *)
LEMMA LoadSparing ==
  ASSUME NEW n, SparingCpu, SparingAssembling(n), BothInit, Load PROVE SparingRun'
<1> DEFINE p == program_binary
<1>1. p \in Seq(SparingWords) /\ Len(p) \in Nat
  BY DEF SparingAssembling
<1>2. Fields[0].op = "R_TYPE" /\ SparesZero(Fields[0]) /\ 0 \in Word
  BY WordFacts, FieldsAssumption DEF SparingCpu
<1>3. ASSUME NEW a \in Address
      PROVE  /\ Loaded[a] \in Word /\ SparesZero(Fields[Loaded[a]])
             /\ Fields[Loaded[a]].op = "SYSCALL" =>
                  a > 0 /\ Fields[Loaded[a - 1]].op # "R_TYPE"
             /\ Fields[Loaded[a]].op \in Misread =>
                  (a + 1 \in Address => WritesNothing(Fields[Loaded[a + 1]].op))
  <2>1. a \in Nat
    BY MemoryAssumption DEF Address
  <2>2. CASE a < Len(p) /\ Loaded[a] = WordCode[p[a + 1]]
    <3>1. a + 1 \in 1 .. Len(p) /\ p[a + 1] \in SparingWords
      BY <1>1, <2>1, <2>2
    <3>2. /\ Loaded[a] \in Word /\ SparesZero(Fields[Loaded[a]])
          /\ Fields[Loaded[a]].op \notin Misread
      BY <2>2, <3>1, SparingInMemory
    <3>3. ASSUME Fields[Loaded[a]].op = "SYSCALL"
          PROVE  a > 0 /\ Fields[Loaded[a - 1]].op # "R_TYPE"
      <4>1. p[a + 1].opcode = 63
        BY <2>2, <3>1, <3>3, SparingInMemory
      <4>2. a > 0 /\ p[a].opcode # 0
        <5>1. a + 1 > 1 /\ p[(a + 1) - 1].opcode # 0
          BY <3>1, <4>1 DEF SparingAssembling
        <5>2. (a + 1) - 1 = a
          BY <2>1
        <5> QED BY <2>1, <5>1, <5>2
      <4>3. a - 1 \in Address /\ a - 1 < Len(p) /\ (a - 1) + 1 = a /\ a \in 1 .. Len(p)
        BY <1>1, <2>1, <2>2, <4>2, MemoryAssumption DEF Address
      <4>4. Loaded[a - 1] = WordCode[p[(a - 1) + 1]]
        BY <1>1, <4>3, LoadedWords
      <4>5. p[a] \in SparingWords
        BY <1>1, <4>3
      <4> QED BY <4>2, <4>3, <4>4, <4>5, SparingInMemory
    <3> QED BY <3>2, <3>3
  <2>3. CASE ~(a < Len(p)) /\ a \in Messages /\ Loaded[a] = WordCode[MessageWord(a)]
    <3>1. /\ Loaded[a] \in Word /\ SparesZero(Fields[Loaded[a]])
          /\ Fields[Loaded[a]].op # "SYSCALL"
      BY <2>3, QuietMessage, SparingMessage DEF QuietInstruction, Quiet
    <3>2. ASSUME Fields[Loaded[a]].op \in Misread, a + 1 \in Address
          PROVE  WritesNothing(Fields[Loaded[a + 1]].op)
      <4>1. a + 1 \in Messages /\ WritesNothing(Fields[WordCode[MessageWord(a + 1)]].op)
        BY <2>3, <3>2, SparingMessage
      <4>2. ~(a + 1 < Len(p))
        BY <1>1, <2>1, <2>3
      <4> QED BY <1>1, <3>2, <4>1, <4>2, LoadedWords
    <3> QED BY <3>1, <3>2
  <2>4. CASE Loaded[a] = 0
    BY <1>2, <2>4 DEF Misread
  <2> QED BY <1>1, <2>2, <2>3, <2>4, LoadedWords
<1>4. /\ IInv' /\ RefProofs!IInv' /\ memory' = Loaded /\ ref_memory' = Loaded
      /\ registers' = [registers EXCEPT ![T6] = 8] /\ ref_registers' = registers'
  BY <1>3, LoadTyped
<1>5. registers'[0] = 0
  <2>1. registers[0] = 0 /\ registers \in Registers
    BY FreshCpu DEF SparingCpu, BothInit, Init, IInv, TypeOK
  <2> QED BY <1>4, <2>1 DEF Registers, Reg, T6
<1>6. MadeOf(ZeroWords)'
  <2>1. Fields[0] \in ZeroWords
    BY <1>2, FieldsAssumption DEF ZeroWords
  <2>2. \A a \in Address : Fields[Loaded[a]] \in ZeroWords
    BY <1>3, FieldsAssumption DEF ZeroWords
  <2> QED BY <1>4, <2>1, <2>2, FreshCpu DEF Load, MadeOf, IfIdReset, IdExReset, NoSignals
<1>7. CallsPlaced' /\ MisreadPlaced'
  BY <1>3, <1>4 DEF CallsPlaced, MisreadPlaced
<1>8. NotRedirected' /\ OrderInv'
  BY <1>2, MemoryAssumption DEF Load, BothInit, Init, NotRedirected, ControlUnitInit, OrderInv,
    InOrder, StoppedBehindPc, Behind, IfIdReset, IdExReset, ExMemReset
<1>9. ZeroLatches'
  BY <1>5 DEF Load, BothInit, Init, ZeroLatches, EmptySlot, IdExReset, ExMemReset, MemWbReset,
    NoSignals, ControlUnitInit, Misread
<1> QED BY <1>3, <1>4, <1>5, <1>6, <1>7, <1>8, <1>9 DEF SparingRun, ZeroInv

(* The words are the same to the reference. *)
LEMMA SameSpared == \A x : SparesZero(x) <=> RefProofs!SparesZero(x)
  BY DEF SparesZero, AluImm, Undefined, Misread, RefProofs!SparesZero, RefProofs!AluImm,
    RefProofs!Undefined, RefProofs!Misread

LEMMA SparingRunStep == ASSUME Lines = {}, SparingRun, [BothNext]_both_vars PROVE SparingRun'
<1>1. CASE ReferenceStep
  <2>1. IInv' /\ ZeroInv'
    BY <1>1, NextIInv, NextZeroInv DEF ReferenceStep, SparingRun, vars
  <2>2. RefProofs!IInv'
    BY <1>1, ReferenceTyped DEF ReferenceStep, SparingRun
  <2>3. ref_registers'[0] = 0 /\ ref_memory' = ref_memory
    <3>1. RefProofs!Next /\ RefProofs!IInv /\ ref_registers[0] = 0
      BY <1>1, SameReference DEF ReferenceStep, SparingRun
    <3>2. \A a \in RefProofs!Address : RefProofs!SparesZero(Fields[ref_memory[a]])
      BY SameWords, SameSpared DEF SparingRun
    <3>3. RefProofs!WidthAssumption /\ RefProofs!BitAssumption /\ RefProofs!WidthsAssumption
      BY SameWords, WidthAssumption, BitAssumption, WidthsAssumption
    <3>4. RefProofs!FieldsAssumption /\ RefProofs!RegionAssumption
      BY SameWords, FieldsAssumption, RegionAssumption
    <3>5. RefProofs!MemoryAssumption /\ RefProofs!ProgramAssumption
          /\ RefProofs!ConsoleAssumption
      BY SameWords, MemoryAssumption, ProgramAssumption, ConsoleAssumption
    <3> QED BY <3>1, <3>2, <3>3, <3>4, <3>5, RefProofs!NextKeepsZero
  <2> QED BY <2>1, <2>2, <2>3 DEF SparingRun
<1>2. CASE PipelineStep \/ UNCHANGED both_vars
  <2>1. [Next]_vars /\ UNCHANGED ref_vars
    BY <1>2 DEF PipelineStep, both_vars
  <2>2. IInv' /\ ZeroInv'
    BY <2>1, NextIInv, NextZeroInv DEF SparingRun
  <2>3. RefProofs!IInv' /\ ref_memory' = ref_memory /\ ref_registers' = ref_registers
    BY <2>1 DEF SparingRun, ref_vars, RefProofs!IInv, RefProofs!TypeOK, RefProofs!PcMirrored
  <2> QED BY <2>2, <2>3 DEF SparingRun
<1> QED BY <1>1, <1>2 DEF BothNext

(* Whatever its numbers are, a text leaves $zero alone on both engines     *)
(* that loads and calls nothing at the wrong place and names no $zero in   *)
(* an li, lui or la; for its other lines the assembler sees to it.         *)
THEOREM SparingTextKeepsZero ==
  SparingCpu => (DemoSpec => [](SparingText(instructions) => ZeroStaysZero))
<1> DEFINE Zero == SparingText(instructions) => ZeroStaysZero
<1> SUFFICES ASSUME SparingCpu PROVE DemoSpec => []Zero
  OBVIOUS
<1> DEFINE Inv == \A n : SparesUpTo(instructions, n) => SparingInv(n)
<1>1. DemoInit => Inv
  <2> SUFFICES ASSUME DemoInit, NEW n, SparesUpTo(instructions, n) PROVE SparingInv(n)
    OBVIOUS
  <2>1. instructions \in Texts /\ line_number = 0 /\ program_binary = <<>>
        /\ asm_step = "encode" /\ phase = "assemble" /\ BothInit
    BY DEF DemoInit, Asm!Init
  <2>2. 0 \in 0 .. n - 1
    BY <2>1, SparingPlace
  <2> QED BY <2>1, <2>2 DEF SparingInv, SparingAssembling
<1>2. Inv /\ [DemoNext]_demo_vars => Inv'
  <2> SUFFICES ASSUME Inv, [DemoNext]_demo_vars PROVE Inv'
    OBVIOUS
  <2>1. instructions' = instructions
    BY DEF DemoNext, demo_vars, asm_vars, Assemble, Load, Run, Asm!Next, Asm!UnknownMnemonic,
      Asm!Encode, Asm!EncodeCrash, Asm!AppendLa, Asm!AppendOne, Asm!Refuse, Asm!Finish,
      Asm!Return, Asm!Crash, Asm!Push
  <2>2. ASSUME NEW n, SparesUpTo(instructions, n) PROVE SparingInv(n)'
    <3>1. CASE UNCHANGED demo_vars
      <4>1. SparingAssembling(n) => SparingAssembling(n)'
        BY <3>1 DEF demo_vars, asm_vars, SparingAssembling
      <4>2. BothInit => BothInit'
        BY <3>1 DEF demo_vars, both_vars, vars, ref_vars, BothInit, Init
      <4>3. SparingRun => SparingRun'
        BY <3>1, SparingRunStep DEF demo_vars, SparingCpu
      <4> QED BY <2>2, <3>1, <4>1, <4>2, <4>3 DEF demo_vars, SparingInv
    <3>2. CASE Assemble
      <4>1. phase = "assemble" /\ phase' = phase /\ SparingAssembling(n) /\ BothInit
        BY <2>2, <3>2 DEF Assemble, SparingInv
      <4>2. SparingAssembling(n)'
        BY <3>2, <4>1, SparingStep DEF Assemble
      <4>3. BothInit'
        BY <3>2, <4>1 DEF Assemble, both_vars, vars, ref_vars, BothInit, Init
      <4> QED BY <4>1, <4>2, <4>3 DEF SparingInv
    <3>3. CASE Load
      BY <2>2, <3>3, LoadSparing DEF Load, SparingInv
    <3>4. CASE Run
      BY <2>2, <3>4, SparingRunStep DEF Run, SparingInv, SparingCpu
    <3> QED BY <3>1, <3>2, <3>3, <3>4 DEF DemoNext
  <2> QED BY <2>1, <2>2 DEF SparesUpTo, RefusedLine
<1>3. Inv => Zero
  <2> SUFFICES ASSUME Inv, NEW n, SparesUpTo(instructions, n) PROVE ZeroStaysZero
    BY DEF SparingText
  <2>1. CASE BothInit
    BY <2>1 DEF BothInit, Init, SparingCpu, ZeroStaysZero
  <2>2. CASE SparingRun
    BY <2>2 DEF SparingRun, ZeroInv, ZeroLatches, ZeroStaysZero
  <2> QED BY <2>1, <2>2 DEF SparingInv
<1> QED BY <1>1, <1>2, <1>3, PTL DEF DemoSpec

(***************************************************************************)
(* The parts inside the whole, for every text: main() loads a CPU that has *)
(* been set up already, with what the assembler has left so far.           *)
(***************************************************************************)
LEMMA MainAssembles ==
  /\ DemoInit => AsmProofs!Init
  /\ [DemoNext]_demo_vars => [AsmProofs!Next]_(AsmProofs!asm_vars)
<1>1. DemoInit => AsmProofs!Init
  BY SameAssembler DEF DemoInit
<1>2. [DemoNext]_demo_vars => Asm!Next \/ UNCHANGED asm_vars
  BY DEF DemoNext, demo_vars, Assemble, Load, Run
<1> QED BY <1>1, <1>2, SameAssembler DEF asm_vars, AsmProofs!asm_vars

(* What main() encodes keeps the promise of OnePass, whatever the text:    *)
(* running the words disturbs nothing of it.                               *)
THEOREM MainKeepsPromise == DemoSpec => AsmProofs!KeepsPromise
<1>1. AsmProofs!TextsAssumption
  BY SameTexts
<1>2. AsmProofs!Init => AsmProofs!IInv /\ AsmProofs!Promise!Init
  BY <1>1, AsmProofs!InitHolds, AsmProofs!InitRefines
<1>3. AsmProofs!IInv /\ [AsmProofs!Next]_(AsmProofs!asm_vars) =>
        AsmProofs!IInv' /\ [AsmProofs!Promise!Next]_(AsmProofs!Promise!one_vars)
  BY <1>1, AsmProofs!StepKeeps, AsmProofs!StepRefines
<1> QED BY <1>2, <1>3, MainAssembles, PTL
      DEF DemoSpec, AsmProofs!KeepsPromise, AsmProofs!Promise!Spec

(* Every word that is appended is one of the texts'. *)
Encoded ==
  /\ instructions \in Texts /\ line_number \in 0 .. Len(instructions)
  /\ asm_step = "append" =>
       /\ line_number < Len(instructions)
       /\ encoded_instruction \in Asm!Encodings(instructions[line_number + 1])
  /\ program_binary \in Seq(TextWords)

LEMMA PushEncoded ==
  ASSUME Encoded, Asm!Appending, Asm!Push PROVE Encoded'
<1> DEFINE line == instructions[line_number + 1]
           e    == encoded_instruction
<1>1. /\ Len(instructions) \in Nat /\ line_number + 1 \in 1 .. Len(instructions)
      /\ line \in Asm!Line /\ e \in Asm!Encodings(line) /\ instructions \in Texts
  BY LinesAssumption DEF Encoded, Asm!Appending
<1>2. e \in Seq(TextWords)
  <2>1. e \in Seq(AsmProofs!BinaryWord)
    <3>1. line \in AsmProofs!Line /\ e \in AsmProofs!Encodings(line)
      BY <1>1, SameLine, SameEncodings
    <3>2. \/ e = AsmProofs!N
          \/ \E w \in AsmProofs!BinaryWord : e = <<w>>
          \/ \E v, w \in AsmProofs!BinaryWord : e = <<v, w>>
      BY <3>1, SameTexts, AsmProofs!EncodingsTyped
    <3> HIDE DEF e
    <3>3. CASE e = AsmProofs!N
      BY <3>3 DEF AsmProofs!N
    <3>4. CASE \E w \in AsmProofs!BinaryWord : e = <<w>>
      BY <3>4
    <3>5. CASE \E v, w \in AsmProofs!BinaryWord : e = <<v, w>>
      BY <3>5
    <3> QED BY <3>2, <3>3, <3>4, <3>5
  <2>2. \A j \in DOMAIN e : e[j] \in TextWords
    <3>1. line \in UNION {Elements(t) : t \in Texts}
      BY <1>1, LinesAssumption DEF Elements
    <3>2. e \in UNION {Asm!Encodings(l) : l \in UNION {Elements(t) : t \in Texts}}
      BY <1>1, <3>1
    <3>3. ASSUME NEW j \in DOMAIN e PROVE e[j] \in Elements(e)
      BY DEF Elements
    <3> QED BY <3>2, <3>3 DEF TextWords
  <2> QED BY <2>1, <2>2
<1> QED BY <1>1, <1>2 DEF Encoded, Asm!Push

LEMMA EncodedStep == ASSUME Encoded, Asm!Next PROVE Encoded'
<1>1. CASE Asm!Encode
  BY <1>1 DEF Asm!Encode, Asm!AtLine, Asm!CurrentLine, Encoded
<1>2. CASE Asm!UnknownMnemonic \/ Asm!Refuse \/ Asm!Finish \/ Asm!EncodeCrash
  BY <1>2 DEF Asm!UnknownMnemonic, Asm!Refuse, Asm!Finish, Asm!EncodeCrash, Asm!Return,
    Asm!Crash, Encoded
<1>3. CASE Asm!AppendLa
  <2>1. CASE encoded_instruction = Asm!N
    BY <1>3, <2>1 DEF Asm!AppendLa, Asm!Crash, Encoded
  <2> QED BY <1>3, <2>1, PushEncoded DEF Asm!AppendLa
<1>4. CASE Asm!AppendOne
  BY <1>4, PushEncoded DEF Asm!AppendOne
<1> QED BY <1>1, <1>2, <1>3, <1>4 DEF Asm!Next

(* Both engines keep their invariants, and the fetch its flow. *)
LEMMA BothStep ==
  ASSUME IInv, RefProofs!IInv, [BothNext]_both_vars
  PROVE  IInv' /\ RefProofs!IInv' /\ [Flow!Next]_Flow!vars
<1>1. CASE ReferenceStep
  BY <1>1, NextIInv, ReferenceTyped, FlowStep DEF ReferenceStep, vars
<1>2. CASE PipelineStep \/ UNCHANGED both_vars
  <2>1. [Next]_vars /\ UNCHANGED ref_vars
    BY <1>2 DEF PipelineStep, both_vars
  <2>2. IInv' /\ [Flow!Next]_Flow!vars
    BY <2>1, NextIInv, FlowStep
  <2>3. RefProofs!IInv'
    BY <2>1 DEF ref_vars, RefProofs!IInv, RefProofs!TypeOK, RefProofs!PcMirrored
  <2> QED BY <2>2, <2>3
<1> QED BY <1>1, <1>2 DEF BothNext

MainInv == /\ IInv /\ RefProofs!IInv
           /\ phase = "assemble" => Encoded /\ BothInit

LEMMA MainInit == DemoInit => MainInv
<1> SUFFICES ASSUME DemoInit PROVE MainInv
  OBVIOUS
<1>1. instructions \in Texts /\ line_number = 0 /\ program_binary = <<>>
      /\ asm_step = "encode" /\ phase = "assemble" /\ BothInit
  BY DEF DemoInit, Asm!Init
<1>2. 0 \in 0 .. Len(instructions)
  BY <1>1, LinesAssumption
<1> QED BY <1>1, <1>2, FreshCpu DEF MainInv, Encoded

LEMMA MainStep ==
  ASSUME MainInv, [DemoNext]_demo_vars PROVE MainInv' /\ [Flow!Next]_Flow!vars
<1>1. CASE Assemble
  <2>1. phase = "assemble" /\ Asm!Next /\ UNCHANGED both_vars
    BY <1>1 DEF Assemble
  <2>2. IInv' /\ RefProofs!IInv' /\ [Flow!Next]_Flow!vars
    BY <2>1, BothStep DEF MainInv
  <2>3. Encoded' /\ BothInit'
    BY <2>1, EncodedStep DEF MainInv, both_vars, vars, ref_vars, BothInit, Init
  <2> QED BY <2>2, <2>3 DEF MainInv
<1>2. CASE Load
  <2>1. Encoded /\ BothInit /\ phase' = "run"
    BY <1>2 DEF Load, MainInv
  <2>2. ASSUME NEW a \in Address PROVE Loaded[a] \in Word
    <3>1. a \in Nat /\ Len(program_binary) \in Nat /\ program_binary \in Seq(TextWords)
      BY <2>1, MemoryAssumption DEF Address, Encoded
    <3>2. CASE a < Len(program_binary) /\ Loaded[a] = WordCode[program_binary[a + 1]]
      <4>1. program_binary[a + 1] \in TextWords
        BY <3>1, <3>2
      <4> QED BY <3>2, <4>1, CodeAssumption
    <3>3. CASE a \in Messages /\ Loaded[a] = WordCode[MessageWord(a)]
      BY <3>3, MessageOpcodes
    <3>4. CASE Loaded[a] = 0
      BY <3>4, WordFacts
    <3> QED BY <3>1, <3>2, <3>3, <3>4, LoadedWords
  <2>3. IInv' /\ RefProofs!IInv'
    BY <1>2, <2>1, <2>2, LoadTyped
  <2>4. UNCHANGED Flow!vars
    BY <1>2, FreshCpu DEF Load, Flow!vars
  <2> QED BY <2>1, <2>3, <2>4 DEF MainInv
<1>3. CASE Run
  BY <1>3, BothStep DEF Run, MainInv
<1>4. CASE UNCHANGED demo_vars
  <2>1. [BothNext]_both_vars /\ phase' = phase /\ UNCHANGED asm_vars
    BY <1>4 DEF demo_vars
  <2>2. Encoded /\ BothInit => Encoded' /\ BothInit'
    BY <1>4 DEF demo_vars, both_vars, asm_vars, vars, ref_vars, BothInit, Init, Encoded
  <2> QED BY <2>1, <2>2, BothStep DEF MainInv
<1> QED BY <1>1, <1>2, <1>3, <1>4 DEF DemoNext

(* Whatever text it is, cut or not, neither engine leaves its types: each  *)
(* register and cell stays a word, each latch in its range.                *)
THEOREM MainTyped == DemoSpec => [](TypeOK /\ RefProofs!TypeOK)
<1>1. MainInv => TypeOK /\ RefProofs!TypeOK
  BY DEF MainInv, IInv, RefProofs!IInv
<1> QED BY <1>1, MainInit, MainStep, PTL DEF DemoSpec

(* The pipeline that main() runs implements FiveStage as the one that is   *)
(* loaded before its first step: loading moves no instruction.             *)
THEOREM MainImplementsFiveStage == DemoSpec => FlowSpec
<1>1. DemoInit => Flow!Init
  BY FlowInit DEF DemoInit, BothInit
<1> QED BY <1>1, MainInit, MainStep, PTL DEF DemoSpec, FlowSpec, Flow!Spec
==============================================================================
