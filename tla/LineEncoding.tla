---------------------------- MODULE LineEncoding -----------------------------
(***************************************************************************)
(* What class Assembler makes of one line: its mnemonic is looked up, the  *)
(* spaces before its operands are stripped, and rType, iType, jType or     *)
(* trap puts the bits of one or two instruction words together.            *)
(***************************************************************************)
EXTENDS AssemblyText, InstructionWord

(* getOpAndInstructionType: opcode_encode, the assembler's own table *)
RegisterForm == {"ADD", "SUB", "MULT", "DIV", "MFHI", "MFLO", "AND", "OR", "XOR",
                 "NOR", "SLL", "SRL", "JALR", "JR"}
ImmediateForm == {"ADDI", "ANDI", "ORI", "XORI", "LW", "SW", "LB", "LH", "SB", "SH",
                  "BEQ", "BNE", "BGEZ", "BGTZ", "BLEZ", "BLTZ", "LUI", "LI", "LA"}
JumpForm   == {"J", "JAL"}
Mnemonic   == RegisterForm \cup ImmediateForm \cup JumpForm \cup {"SYSCALL"}
Op ==
  [ADD |-> 32, SUB |-> 34, MULT |-> 24, DIV |-> 26, MFHI |-> 16, MFLO |-> 18,
   AND |-> 36, OR |-> 37, XOR |-> 38, NOR |-> 39, SLL |-> 0, SRL |-> 2, JALR |-> 9,
   JR |-> 11,
   ADDI |-> 8, ANDI |-> 12, ORI |-> 13, XORI |-> 14, LW |-> 35, SW |-> 43, LB |-> 17,
   LH |-> 33, SB |-> 40, SH |-> 41, BEQ |-> 4, BNE |-> 5, BGEZ |-> 1, BGTZ |-> 7,
   BLEZ |-> 6, BLTZ |-> 60, LUI |-> 15, LI |-> 57, LA |-> 0, J |-> 51, JAL |-> 3]

(* validStoreReg: $zero, $at, $fp, $gp, $ra, $k0, $k1 *)
ValidStoreRegTakesZero(x) == ~(x.kind = "reg" /\ x.reg \in {1, 26, 27, 28, 30, 31})  \* mutant
ValidStoreReg(x) == ~(x.kind = "reg" /\ x.reg \in {0, 1, 26, 27, 28, 30, 31})

(***************************************************************************)
(* stripWhiteSpaces erases one character where remove() has left off: the  *)
(* one space before an operand.  Of two, the last character is left over   *)
(* at the end; with none there is nothing to erase (see Undefined).        *)
(***************************************************************************)
Doubled(n) ==
  [neg |-> n.neg, mag |-> n.mag * n.base + (n.mag % n.base),
   base |-> IF n.base = 10 /\ n.mag = 0 /\ ~n.neg THEN 8 ELSE n.base]
Stripped(x) ==
  CASE x.spaces # 2 -> x
    [] x.spaces = 2 /\ x.kind = "num" -> [x EXCEPT !.num = Doubled(@)]
    [] OTHER -> [x EXCEPT !.reg = Unknown]
StripWhiteSpaces(operands) == [k \in DOMAIN operands |-> Stripped(operands[k])]

(***************************************************************************)
(* anyBaseToBinary: a number of type int goes through bitset<26>, and its  *)
(* size is counted from its first bit that is 1, or 0 for a negative one.  *)
(* A field of b bits is given by its capacity, 2^b.  The number is taken   *)
(* when its first such bit has a place in the field; for a negative one a  *)
(* place more, as a bit is taken off for the sign.  -1 has no bit that is  *)
(* 0 and counts as 26 bits, zero has none that is 1 and counts as 27, but  *)
(* for the text "0"; "-0" is the octal prefix and a sign without a number. *)
(***************************************************************************)
Pattern(n) == Value(n) % LowSize
IsInt(n)   == (IF n.neg THEN n.mag - 1 ELSE n.mag) <= 2147483647
Zero(n)    == ~n.neg /\ n.base = 10 /\ n.mag = 0
MinusZero(n) == n.neg /\ n.base = 10 /\ n.mag = 0

AnyBaseToBinaryHalf(n, capacity) ==                               \* mutant
  /\ IsInt(n) /\ ~MinusZero(n)
  /\ IF n.neg
       THEN \/ (LowSize - 1) - Pattern(n) \in 1 .. capacity - 1
            \/ Pattern(n) = LowSize - 1 /\ capacity = LowSize
       ELSE Zero(n) \/ Pattern(n) \in 1 .. capacity - 1
AnyBaseToBinary(n, capacity) ==
  /\ IsInt(n) /\ ~MinusZero(n)
  /\ IF n.neg
       THEN \/ (LowSize - 1) - Pattern(n) \in 1 .. 2 * capacity - 1
            \/ Pattern(n) = LowSize - 1 /\ capacity = LowSize
       ELSE Zero(n) \/ Pattern(n) \in 1 .. capacity - 1

(* the search through the string of 26 bits: its character k is bit 25 - k *)
PlaceValue == <<1, 2, 4, 8, 16, 32, 64, 128, 256, 512, 1024, 2048, 4096, 8192, 16384, 32768,
                65536, 131072, 262144, 524288, 1048576, 2097152, 4194304, 8388608, 16777216,
                33554432, 67108864>>
BitOf(p, b) == (p \div PlaceValue[b + 1]) % 2
(* string::find: the first place of a character, or npos, which is -1 *)
Find(p, c) ==
  LET places == {k \in 0 .. 25 : BitOf(p, 25 - k) = c} IN
  IF places = {} THEN -1 ELSE CHOOSE f \in places : \A g \in places : f <= g
ImmSize(n) == 26 - (Find(Pattern(n), IF n.neg THEN 0 ELSE 1) + (IF n.neg THEN 1 ELSE 0))

(* binary_string.erase(0, 26 - bits) keeps the low bits *)
Bits(n, capacity) == Pattern(n) % capacity

Shamt  == 32
Immed  == RtAt
Target == LowSize

(* register_encode_map.at throws for anything else *)
Known(o, s) == \A k \in s : o[k].kind = "reg" /\ o[k].reg # Unknown
Fits(x, capacity) == x.kind = "num" /\ AnyBaseToBinary(x.num, capacity)
(* with two operands, `offset(register)' is split before the number is looked at *)
FitsSplit(x, capacity) == x.kind \in {"num", "mem"} /\ AnyBaseToBinary(x.num, capacity)

(***************************************************************************)
(* rType, iType, jType and trap: what they make of a line's mnemonic m and *)
(* its stripped operands o.  "N" is the empty sequence.                    *)
(***************************************************************************)
N == <<>>

ThreeRegisters == {"ADD", "SUB", "AND", "OR", "XOR", "NOR"}

(* validStoreReg is asked of the first operand in every case *)
RType(m, o) ==
  IF Len(o) \notin 1 .. 3 \/ ~ValidStoreReg(o[1]) THEN N ELSE
  CASE m \in {"MULT", "DIV"} /\ Len(o) = 2 /\ Known(o, 1 .. 2)
         -> <<RWord(o[1].reg, o[2].reg, 0, 0, Op[m])>>
    [] m = "JALR" /\ Len(o) = 2 /\ ValidStoreReg(o[2]) /\ Known(o, 1 .. 2)
         -> <<RWord(o[1].reg, 0, o[2].reg, 0, Op[m])>>
    [] m \in {"SLL", "SRL"} /\ Len(o) = 3 /\ Fits(o[3], Shamt) /\ Known(o, 1 .. 2)
         -> <<RWord(0, o[2].reg, o[1].reg, Bits(o[3].num, Shamt), Op[m])>>
    [] m \in {"MFLO", "MFHI"} /\ Len(o) = 1 /\ Known(o, {1})
         -> <<RWord(0, 0, o[1].reg, 0, Op[m])>>
    [] m = "JR" /\ Len(o) = 1 /\ Known(o, {1})
         -> <<RWord(o[1].reg, 0, 0, 0, Op[m])>>
    [] m \in ThreeRegisters /\ Len(o) = 3 /\ Known(o, 1 .. 3)
         -> <<RWord(o[2].reg, o[3].reg, o[1].reg, 0, Op[m])>>
    [] OTHER -> N

ByImmediate == {"ADDI", "ANDI", "ORI", "XORI"}
LoadForm    == {"LW", "LB", "LH"}
StoreForm   == {"SW", "SB", "SH"}
AgainstZero == {"BGEZ", "BGTZ", "BLEZ", "BLTZ"}

(* la: the string of 16 bits, read as a decimal number, is above 65536 for *)
(* the patterns from 100000 on; then the same half word follows by ori     *)
LongLaMeant(n) == Bits(n, Immed) > 65536                          \* mutant
LongLa(n) == Bits(n, Immed) >= 32
LaWords(rt, n) ==
  LET lui == IWord(Op["LUI"], 0, rt, Bits(n, Immed))
      ori == IWord(Op["ORI"], rt, rt, Bits(n, Immed))
  IN IF LongLa(n) THEN <<lui, ori>> ELSE <<lui>>

IType(m, o) ==
  CASE m \in ByImmediate /\ Len(o) = 3 /\ ValidStoreReg(o[1]) /\ Fits(o[3], Immed)
          /\ Known(o, 1 .. 2)
         -> <<IWord(Op[m], o[2].reg, o[1].reg, Bits(o[3].num, Immed))>>
    [] m \in {"BEQ", "BNE"} /\ Len(o) = 3 /\ Fits(o[3], Immed) /\ Known(o, 1 .. 2)
         -> <<IWord(Op[m], o[1].reg, o[2].reg, Bits(o[3].num, Immed))>>
    [] m \in LoadForm \cup StoreForm /\ Len(o) = 2 /\ FitsSplit(o[2], Immed)
          /\ (m \in LoadForm => ValidStoreReg(o[1])) /\ Known(o, {1})
          /\ o[2].kind = "mem" /\ o[2].reg # Unknown
         -> <<IWord(Op[m], o[2].reg, o[1].reg, Bits(o[2].num, Immed))>>
    [] m \in AgainstZero /\ Len(o) = 2 /\ Fits(o[2], Immed) /\ Known(o, {1})
         -> <<IWord(Op[m], o[1].reg, IF m = "BGEZ" THEN 1 ELSE 0, Bits(o[2].num, Immed))>>
    [] m \in {"LUI", "LI"} /\ Len(o) = 2 /\ FitsSplit(o[2], Immed) /\ Known(o, {1})
         -> <<IWord(Op[m], 0, o[1].reg, Bits(o[2].num, Immed))>>
    [] m = "LA" /\ Len(o) = 2 /\ FitsSplit(o[2], Immed) /\ Known(o, {1})
         -> LaWords(o[1].reg, o[2].num)
    [] OTHER -> N

JType(m, o) ==
  IF Len(o) = 1 /\ Fits(o[1], Target)
    THEN <<JWord(Op[m], Bits(o[1].num, Target))>> ELSE N

Trap == <<JWord(63, 0)>>

(***************************************************************************)
(* What the language leaves undefined.  A load or store whose address has  *)
(* no register reads registers[2] behind a vector of two, and jalr with    *)
(* one operand reads registers[1]: whatever lies there, if it can be read, *)
(* names some register or none.  An operand without a space before it has  *)
(* erase() act on the end of the string, which leaves it or ends the       *)
(* process.                                                                *)
(***************************************************************************)
MissingBase(m, o) ==
  /\ m \in LoadForm \cup StoreForm /\ Len(o) = 2 /\ Fits(o[2], Immed)
  /\ (m \in LoadForm => ValidStoreReg(o[1])) /\ Known(o, {1})
MissingLink(m, o) == m = "JALR" /\ Len(o) = 1 /\ ValidStoreReg(o[1])

Undefined(line) ==
  LET o == StripWhiteSpaces(line.operands) IN
  /\ line.mnemonic \in Mnemonic \ {"SYSCALL"}
  /\ \/ \E k \in DOMAIN o : o[k].spaces = 0
     \/ MissingBase(line.mnemonic, o)
     \/ MissingLink(line.mnemonic, o)

(* the strings a line may be turned into *)
Encodings(line) ==
  LET m == line.mnemonic
      o == StripWhiteSpaces(line.operands)
  IN CASE m \in RegisterForm -> {RType(m, o)}
       [] m \in ImmediateForm ->
            {IType(m, o)} \cup
            {<<IWord(Op[m], r, o[1].reg, Bits(o[2].num, Immed))>> :
               r \in IF MissingBase(m, o) THEN 0 .. 31 ELSE {}}
       [] m \in JumpForm -> {JType(m, o)}
       [] OTHER -> {Trap}
==============================================================================
