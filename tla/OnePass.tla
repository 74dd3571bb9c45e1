------------------------------- MODULE OnePass -------------------------------
(***************************************************************************)
(* What an assembler promises, whatever its tables and string operations:  *)
(* it takes the lines of a text in turn.  For a well-formed line it adds   *)
(* the words that denote it, or refuses it for a cause and reports its     *)
(* number, always when it writes a reserved register; the words of the     *)
(* lines before stay as they are.  Only a line that is not well-formed may *)
(* be taken for something else, or end the process.                        *)
(***************************************************************************)
EXTENDS AssemblyText, InstructionWord

(* the fields an instruction's operands go to, in the order they are written *)
Signature ==
  [ADD |-> <<"rd", "rs", "rt">>, SUB |-> <<"rd", "rs", "rt">>, AND |-> <<"rd", "rs", "rt">>,
   OR |-> <<"rd", "rs", "rt">>, XOR |-> <<"rd", "rs", "rt">>, NOR |-> <<"rd", "rs", "rt">>,
   SLL |-> <<"rd", "rt", "shamt">>, SRL |-> <<"rd", "rt", "shamt">>,
   MULT |-> <<"rs", "rt">>, DIV |-> <<"rs", "rt">>, MFHI |-> <<"rd">>, MFLO |-> <<"rd">>,
   JALR |-> <<"rs", "rd">>, JR |-> <<"rs">>,
   ADDI |-> <<"rt", "rs", "imm">>, ANDI |-> <<"rt", "rs", "imm">>,
   ORI |-> <<"rt", "rs", "imm">>, XORI |-> <<"rt", "rs", "imm">>,
   LW |-> <<"rt", "mem">>, LB |-> <<"rt", "mem">>, LH |-> <<"rt", "mem">>,
   SW |-> <<"rt", "mem">>, SB |-> <<"rt", "mem">>, SH |-> <<"rt", "mem">>,
   BEQ |-> <<"rs", "rt", "imm">>, BNE |-> <<"rs", "rt", "imm">>,
   BGEZ |-> <<"rs", "imm">>, BGTZ |-> <<"rs", "imm">>, BLEZ |-> <<"rs", "imm">>,
   BLTZ |-> <<"rs", "imm">>, LUI |-> <<"rt", "imm">>, LI |-> <<"rt", "imm">>,
   LA |-> <<"rt", "imm">>, J |-> <<"target">>, JAL |-> <<"target">>, SYSCALL |-> <<>>]
RegisterRoles == {"rs", "rt", "rd"}

Suits(x, role) ==
  /\ x.spaces = 1
  /\ CASE role \in RegisterRoles -> x.kind = "reg" /\ x.reg # Unknown
       [] role = "mem" -> x.kind = "mem" /\ x.reg # Unknown
       [] OTHER -> x.kind = "num"
WellFormed(line) ==
  /\ line.mnemonic \in DOMAIN Signature
  /\ Len(line.operands) = Len(Signature[line.mnemonic])
  /\ \A k \in DOMAIN line.operands : Suits(line.operands[k], Signature[line.mnemonic][k])

(***************************************************************************)
(* A word denotes a line when the fields an engine cuts out of it are the  *)
(* line's operands, numbers up to the width of their field; registers that *)
(* are not written are 0, but 1 for bgez.  Of the shift amount an engine   *)
(* reads, the host uses five bits.                                         *)
(***************************************************************************)
Holds(w, role, x) ==
  CASE role = "rs"     -> RsOf(w) = x.reg
    [] role = "rt"     -> RtOf(w) = x.reg
    [] role = "rd"     -> RdOf(w) = x.reg
    [] role = "shamt"  -> ShamtOf(w) % 32 = Value(x.num) % 32
    [] role = "imm"    -> ImmOf(w) = Value(x.num) % RtAt
    [] role = "mem"    -> ImmOf(w) = Value(x.num) % RtAt /\ RsOf(w) = x.reg
    [] role = "target" -> TargetOf(w) = Value(x.num) % LowSize

Roles(m) == {Signature[m][k] : k \in DOMAIN Signature[m]}
Denotes(m, operands, w) ==
  /\ w \in BinaryWord
  /\ IF m \in FunctionCodes THEN w.opcode = 0 /\ FnOf(w) = Code[m] ELSE w.opcode = Code[m]
  /\ \A k \in DOMAIN operands : Holds(w, Signature[m][k], operands[k])
  /\ "target" \notin Roles(m) =>
       /\ Roles(m) \cap {"rs", "mem"} = {} => RsOf(w) = 0
       /\ "rt" \notin Roles(m) => RtOf(w) = IF m = "BGEZ" THEN 1 ELSE 0
  /\ m \in FunctionCodes /\ "rd" \notin Roles(m) => RdOf(w) = 0

(* la stands for lui, and ori behind it *)
DenotesLine(line, ws) ==
  LET o == line.operands IN
  IF line.mnemonic = "LA"
    THEN /\ Denotes("LUI", o, ws[1])
         /\ Len(ws) = 2 => Denotes("ORI", <<o[1], o[1], o[2]>>, ws[2])
    ELSE Len(ws) = 1 /\ Denotes(line.mnemonic, o, ws[1])

(***************************************************************************)
(* A line is refused for a register programs shall not write as its first  *)
(* operand (or jalr's second), or for a number that is not between 1 and   *)
(* the largest of its field, 0 itself written "0".                         *)
(***************************************************************************)
Reserved == {0, 1, 26, 27, 28, 30, 31}
Guarded  == FunctionCodes \cup {"ADDI", "ANDI", "ORI", "XORI", "LW", "LB", "LH"}
Barred(line) ==
  LET o == line.operands IN
  \/ line.mnemonic \in Guarded /\ o[1].reg \in Reserved
  \/ line.mnemonic = "JALR" /\ o[2].reg \in Reserved

Capacity(role) == CASE role = "shamt" -> 32 [] role \in {"imm", "mem"} -> RtAt
                    [] role = "target" -> LowSize
PlainlyFits(n, role) ==
  ~n.neg /\ ((n.base = 10 /\ n.mag = 0) \/ n.mag \in 1 .. Capacity(role) - 1)
Acceptable(line) ==
  /\ WellFormed(line) /\ ~Barred(line)
  /\ \A k \in DOMAIN line.operands :
       Signature[line.mnemonic][k] \notin RegisterRoles =>
         PlainlyFits(line.operands[k].num, Signature[line.mnemonic][k])

VARIABLES
  text, line,          \* the text, and how many of its lines have been taken
  words,               \* the words so far
  outcome,             \* "working", "done", "refused" or "crashed"
  report               \* the line refused, or -1

one_vars == <<text, line, words, outcome, report>>

Init == /\ text \in Seq(Line) /\ line = 0 /\ words = <<>>
        /\ outcome = "working" /\ report = -1

Working == outcome = "working" /\ line < Len(text)
ThisLine == text[line + 1]

(* the words before stay, n are added *)
Grows(n) ==
  /\ words' \in Seq(BinaryWord) /\ Len(words') = Len(words) + n
  /\ \A k \in 1 .. Len(words) : words'[k] = words[k]

Take ==
  /\ Working
  /\ \E n \in 1 .. 2 :
       /\ Grows(n)
       /\ WellFormed(ThisLine) =>
            ~Barred(ThisLine) /\ DenotesLine(ThisLine, [k \in 1 .. n |-> words'[Len(words) + k]])
  /\ line' = line + 1
  /\ UNCHANGED <<text, outcome, report>>

Refuse ==
  /\ Working /\ ~Acceptable(ThisLine)
  /\ outcome' = "refused" /\ report' = line
  /\ UNCHANGED <<text, line, words>>

Crash ==
  /\ Working /\ ~WellFormed(ThisLine)
  /\ outcome' = "crashed"
  /\ UNCHANGED <<text, line, words, report>>

Done ==
  /\ outcome = "working" /\ line = Len(text)
  /\ outcome' = "done"
  /\ UNCHANGED <<text, line, words, report>>

Next == Take \/ Refuse \/ Crash \/ Done
Spec == Init /\ [][Next]_one_vars
==============================================================================
