-------------------------- MODULE AssemblerProofs ----------------------------
(***************************************************************************)
(* Proofs about Assembler: its state is well typed, the words of a text    *)
(* are counted right, and it keeps the promise of OnePass for every text.  *)
(***************************************************************************)
EXTENDS Assembler, FiniteSetTheorems, TLAPS

(***************************************************************************)
(*                     Instruction words                                   *)
(* What the assembler concatenates, the engines cut apart again: the       *)
(* fields of the three kinds of words come back as they were put in.       *)
(* Where the fields begin is expanded in the steps that add and compare    *)
(* numbers only, one fact a step, and those are left to SMT.               *)
(***************************************************************************)
(* numbers of five and of six bits *)
Five == 0 .. 31
Six  == 0 .. 63

(* A sum of two fields is cut where they meet. *)
LEMMA Cut ==
  ASSUME NEW q \in Int, NEW d \in Nat, d > 0, NEW r \in Int, 0 <= r, r < d
  PROVE  (q * d + r) \div d = q /\ (q * d + r) % d = r
  BY SMT

LEMMA Places ==
  /\ ShamtAt \in Nat /\ ShamtAt > 0
  /\ RdAt \in Nat /\ RdAt > 0
  /\ RtAt \in Nat /\ RtAt > 0
  /\ RsAt \in Nat /\ RsAt > 0
  /\ LowSize \in Nat /\ LowSize > 0
<1>1. ShamtAt \in Nat /\ ShamtAt > 0
  BY SMT DEF Five, Six, ShamtAt
<1>2. RdAt \in Nat /\ RdAt > 0
  BY SMT DEF Five, Six, RdAt
<1>3. RtAt \in Nat /\ RtAt > 0
  BY SMT DEF Five, Six, RtAt
<1>4. RsAt \in Nat /\ RsAt > 0
  BY SMT DEF RsAt
<1>5. LowSize \in Nat /\ LowSize > 0
  BY SMT DEF LowSize
<1> QED
  BY <1>1, <1>2, <1>3, <1>4, <1>5

Upper(rs, rt, rest) == rs * RsAt + rt * RtAt + rest

(* The upper two of a word's registers, above the other 16 bits. *)
LEMMA UpperFields ==
  ASSUME NEW rs \in Five, NEW rt \in Five, NEW rest \in Nat, rest < RtAt,
         NEW w, w.low = Upper(rs, rt, rest)
  PROVE  /\ w.low \in 0 .. LowSize - 1
         /\ RsOf(w) = rs /\ RtOf(w) = rt /\ ImmOf(w) = rest
<1> DEFINE low == Upper(rs, rt, rest)
           r   == rt * RtAt + rest
           q   == rs * 32 + rt
<1>1. low \in Int
  BY SMT DEF Five, Six, Upper, RsAt, RtAt
<1>2. 0 <= low
  BY SMT DEF Five, Six, Upper, RsAt, RtAt
<1>3. low < LowSize
  BY SMT DEF Five, Six, Upper, RsAt, RtAt, LowSize
<1>4. low = rs * RsAt + r
  BY SMT DEF Five, Six, Upper, RsAt, RtAt
<1>5. r \in Int
  BY SMT DEF Five, Six, RtAt
<1>6. 0 <= r
  BY SMT DEF Five, Six, RtAt
<1>7. r < RsAt
  BY SMT DEF Five, Six, RtAt, RsAt
<1>8. low = q * RtAt + rest
  BY SMT DEF Five, Six, Upper, RsAt, RtAt
<1>9. q \in Int /\ q % 32 = rt /\ rs \in Int /\ rs % 32 = rs
  BY SMT DEF Five, Six
<1>10. w.low = low
  OBVIOUS
<1> HIDE DEF low, r, q
<1>11. low \div RsAt = rs
  BY <1>4, <1>5, <1>6, <1>7, <1>9, Cut, Places, SMT
<1>12. low \div RtAt = q /\ low % RtAt = rest
  BY <1>8, <1>9, Cut, Places, SMT
<1>13. w.low \in 0 .. LowSize - 1
  BY <1>1, <1>2, <1>3, <1>10, Places, SMT
<1>14. RsOf(w) = rs
  BY <1>9, <1>10, <1>11, SMT DEF RsOf
<1>15. RtOf(w) = rt
  BY <1>9, <1>10, <1>12, SMT DEF RtOf
<1>16. ImmOf(w) = rest
  BY <1>10, <1>12, SMT DEF ImmOf
<1> QED
  BY <1>13, <1>14, <1>15, <1>16

(* Words of two registers and an immediate. *)
LEMMA IWordFields ==
  ASSUME NEW opcode \in Six, NEW rs \in Five, NEW rt \in Five,
         NEW imm \in Nat, imm < RtAt, NEW w, w = IWord(opcode, rs, rt, imm)
  PROVE  /\ w \in BinaryWord /\ w.opcode = opcode
         /\ RsOf(w) = rs /\ RtOf(w) = rt /\ ImmOf(w) = imm
<1>1. w = [opcode |-> opcode, low |-> Upper(rs, rt, imm)]
  BY DEF IWord, Upper
<1>2. w.opcode = opcode /\ w.low = Upper(rs, rt, imm)
  BY <1>1, SMT
<1>3. /\ w.low \in 0 .. LowSize - 1
      /\ RsOf(w) = rs /\ RtOf(w) = rt /\ ImmOf(w) = imm
  BY <1>2, UpperFields
<1>4. w \in BinaryWord
  BY <1>1, <1>2, <1>3, SMT DEF Six, BinaryWord
<1> QED
  BY <1>2, <1>3, <1>4

(* Words of three registers, a shift amount and a function code; of the    *)
(* six bits an engine reads for the shift amount, the lower five are it.   *)
LEMMA RWordFields ==
  ASSUME NEW rs \in Five, NEW rt \in Five, NEW rd \in Five,
         NEW shamt \in Five, NEW fn \in Six, NEW w, w = RWord(rs, rt, rd, shamt, fn)
  PROVE  /\ w \in BinaryWord /\ w.opcode = 0
         /\ RsOf(w) = rs /\ RtOf(w) = rt /\ RdOf(w) = rd
         /\ ShamtOf(w) % 32 = shamt /\ FnOf(w) = fn
<1> DEFINE below == rd * RdAt + shamt * ShamtAt + fn
           low   == Upper(rs, rt, below)
           upper == rs * 1024 + rt * 32 + rd
           above == upper * 32 + shamt
           tail  == shamt * ShamtAt + fn
<1>1. below \in Nat
  BY SMT DEF Five, Six, RdAt, ShamtAt
<1>2. below < RtAt
  BY SMT DEF Five, Six, RdAt, ShamtAt, RtAt
<1>3. low = upper * RdAt + tail
  BY SMT DEF Five, Six, Upper, RsAt, RtAt, RdAt, ShamtAt
<1>4. low = above * ShamtAt + fn
  BY SMT DEF Five, Six, Upper, RsAt, RtAt, RdAt, ShamtAt
<1>5. tail \in Int /\ 0 <= tail
  BY SMT DEF Five, Six, ShamtAt
<1>6. tail < RdAt
  BY SMT DEF Five, Six, ShamtAt, RdAt
<1>7. upper \in Int /\ upper % 32 = rd
  BY SMT DEF Five, Six
<1>8. above \in Int /\ (above % 64) % 32 = shamt
  BY SMT DEF Five, Six
<1>9. fn \in Int /\ 0 <= fn /\ fn < ShamtAt /\ ShamtAt = 64
  BY SMT DEF Five, Six, ShamtAt
<1>10. w = [opcode |-> 0, low |-> low]
  <2>1. low = rs * RsAt + rt * RtAt + rd * RdAt + shamt * ShamtAt + fn
    BY SMT DEF Five, Six, Upper, RsAt, RtAt, RdAt, ShamtAt
  <2> HIDE DEF low
  <2> QED
    BY <2>1 DEF RWord
<1>11. w.opcode = 0 /\ w.low = low
  BY <1>10, SMT
<1>12. w.low \in 0 .. LowSize - 1 /\ RsOf(w) = rs /\ RtOf(w) = rt
  <2>1. w.low = Upper(rs, rt, below)
    BY <1>11
  <2> HIDE DEF below, low
  <2> QED
    BY <1>1, <1>2, <2>1, UpperFields
<1> HIDE DEF low, below, upper, above, tail
<1>13. low \div RdAt = upper
  BY <1>3, <1>5, <1>6, <1>7, Cut, Places, SMT
<1>14. low \div ShamtAt = above /\ low % ShamtAt = fn
  BY <1>4, <1>8, <1>9, Cut, Places, SMT
<1>15. w \in BinaryWord
  BY <1>10, <1>11, <1>12, SMT DEF Six, BinaryWord
<1>16. RdOf(w) = rd
  BY <1>7, <1>11, <1>13, SMT DEF RdOf
<1>17. ShamtOf(w) % 32 = shamt
  BY <1>8, <1>11, <1>14, SMT DEF ShamtOf
<1>18. FnOf(w) = fn
  BY <1>9, <1>11, <1>14, SMT DEF FnOf
<1> QED
  BY <1>11, <1>12, <1>15, <1>16, <1>17, <1>18

LEMMA IWordTyped ==
  ASSUME NEW opcode \in Six, NEW rs \in Five, NEW rt \in Five, NEW imm \in Nat, imm < RtAt
  PROVE  IWord(opcode, rs, rt, imm) \in BinaryWord
  BY IWordFields

LEMMA RWordTyped ==
  ASSUME NEW rs \in Five, NEW rt \in Five, NEW rd \in Five, NEW shamt \in Five, NEW fn \in Six
  PROVE  RWord(rs, rt, rd, shamt, fn) \in BinaryWord
  BY RWordFields

(* Words of a jump target. *)
LEMMA JWordFields ==
  ASSUME NEW opcode \in Six, NEW target \in 0 .. LowSize - 1, NEW w, w = JWord(opcode, target)
  PROVE  w \in BinaryWord /\ w.opcode = opcode /\ TargetOf(w) = target
  BY SMT DEF Six, JWord, BinaryWord, TargetOf

(***************************************************************************)
(*                     Numbers and operands                                *)
(***************************************************************************)
LEMMA ValueIsInt == ASSUME NEW n \in Number PROVE Value(n) \in Int
  BY SMT DEF Value, Number

(* The low bits of a number, as many as a field has. *)
LEMMA BitsOfNumbers ==
  ASSUME NEW n \in Number
  PROVE  /\ Bits(n, Shamt) \in Five /\ Bits(n, Shamt) = Value(n) % 32
         /\ Bits(n, Immed) \in Nat /\ Bits(n, Immed) < RtAt /\ Bits(n, Immed) = Value(n) % RtAt
         /\ Bits(n, Target) \in 0 .. LowSize - 1 /\ Bits(n, Target) = Value(n) % LowSize
<1>1. PICK v \in Int : v = Value(n)
  BY ValueIsInt
<1>2. (v % LowSize) % 32 = v % 32 /\ v % 32 \in Five
  BY SMT DEF LowSize, Five
<1>3. (v % LowSize) % RtAt = v % RtAt
  BY SMT DEF LowSize, RtAt
<1>4. v % RtAt \in Nat /\ v % RtAt < RtAt
  BY Places, SMT
<1>5. v % LowSize \in 0 .. LowSize - 1 /\ (v % LowSize) % LowSize = v % LowSize
  BY Places, SMT
<1>6. Bits(n, Shamt) = (v % LowSize) % 32
  BY <1>1 DEF Bits, Pattern, Shamt
<1>7. Bits(n, Immed) = (v % LowSize) % RtAt
  BY <1>1 DEF Bits, Pattern, Immed
<1>8. Bits(n, Target) = (v % LowSize) % LowSize
  BY <1>1 DEF Bits, Pattern, Target
<1>9. Bits(n, Shamt) \in Five /\ Bits(n, Shamt) = Value(n) % 32
  BY <1>1, <1>2, <1>6
<1>10. Bits(n, Immed) \in Nat /\ Bits(n, Immed) < RtAt /\ Bits(n, Immed) = Value(n) % RtAt
  BY <1>1, <1>3, <1>4, <1>7
<1>11. Bits(n, Target) \in 0 .. LowSize - 1 /\ Bits(n, Target) = Value(n) % LowSize
  BY <1>1, <1>5, <1>8
<1> QED
  BY <1>9, <1>10, <1>11

LEMMA StrippedTyped ==
  ASSUME NEW x \in Operand
  PROVE  Stripped(x) \in Operand
<1>1. Doubled(x.num) \in Number
  <2>1. /\ x.num.neg \in BOOLEAN /\ x.num.base \in {2, 8, 10, 16} /\ x.num.mag \in Nat
    BY SMT DEF Operand, Number
  <2>2. x.num.mag * x.num.base + (x.num.mag % x.num.base) \in Nat
    BY <2>1, SMT
  <2>3. (IF x.num.base = 10 /\ x.num.mag = 0 /\ ~x.num.neg THEN 8 ELSE x.num.base)
          \in {2, 8, 10, 16}
    BY <2>1
  <2> QED
    BY <2>1, <2>2, <2>3 DEF Doubled, Number
<1>2. [x EXCEPT !.num = Doubled(@)] \in Operand
  BY <1>1, SMT DEF Operand
<1>3. [x EXCEPT !.reg = Unknown] \in Operand
  BY SMT DEF Operand, Name, Unknown
<1> QED
  BY <1>2, <1>3, SMT DEF Stripped

LEMMA StripTyped ==
  ASSUME NEW o \in Seq(Operand)
  PROVE  /\ StripWhiteSpaces(o) \in Seq(Operand) /\ Len(StripWhiteSpaces(o)) = Len(o)
         /\ \A k \in 1 .. Len(o) : StripWhiteSpaces(o)[k] = Stripped(o[k])
<1>1. \A k \in 1 .. Len(o) : Stripped(o[k]) \in Operand
  BY StrippedTyped
<1> QED
  BY <1>1, SMT DEF StripWhiteSpaces

(* A register the map knows is the number of one. *)
LEMMA KnownRegister ==
  ASSUME NEW o \in Seq(Operand), NEW k \in 1 .. Len(o), o[k].reg # Unknown
  PROVE  o[k].reg \in Five
<1>1. o[k] \in Operand
  OBVIOUS
<1> QED
  BY <1>1, SMT DEF Operand, Name, Unknown, Five

LEMMA OperandNumber ==
  ASSUME NEW o \in Seq(Operand), NEW k \in 1 .. Len(o)
  PROVE  o[k].num \in Number
<1>1. o[k] \in Operand
  OBVIOUS
<1> QED
  BY <1>1, SMT DEF Operand

(***************************************************************************)
(*                     What a line is turned into                          *)
(***************************************************************************)
LEMMA OpTyped == \A m \in RegisterForm \cup ImmediateForm \cup JumpForm : Op[m] \in Six
  BY SMT DEF RegisterForm, ImmediateForm, JumpForm, Op, Six

(* At most one word of three registers. *)
LEMMA RTypeTyped ==
  ASSUME NEW m \in RegisterForm, NEW o \in Seq(Operand)
  PROVE  RType(m, o) = N \/ \E w \in BinaryWord : RType(m, o) = <<w>>
<1>1. Op[m] \in Six
  BY OpTyped
<1>2. 0 \in Five
  BY SMT DEF Five
<1>3. \A k \in 1 .. Len(o) : Known(o, {k}) => o[k].reg \in Five
  BY KnownRegister DEF Known
<1>4. ASSUME NEW rs \in Five, NEW rt \in Five, NEW rd \in Five, NEW shamt \in Five
      PROVE  RWord(rs, rt, rd, shamt, Op[m]) \in BinaryWord
  BY <1>1, RWordTyped
<1>5. CASE m \in {"MULT", "DIV"} /\ Len(o) = 2 /\ Known(o, 1 .. 2)
  BY <1>2, <1>3, <1>4, <1>5, SMT DEF RType, Known, ThreeRegisters
<1>6. CASE m = "JALR" /\ Len(o) = 2 /\ ValidStoreReg(o[2]) /\ Known(o, 1 .. 2)
  BY <1>2, <1>3, <1>4, <1>6, SMT DEF RType, Known, ThreeRegisters
<1>7. CASE m \in {"SLL", "SRL"} /\ Len(o) = 3 /\ Fits(o[3], Shamt) /\ Known(o, 1 .. 2)
  <2>1. 3 \in 1 .. Len(o)
    BY <1>7, SMT
  <2>2. Bits(o[3].num, Shamt) \in Five
    BY <2>1, OperandNumber, BitsOfNumbers
  <2> QED
    BY <1>2, <1>3, <1>4, <1>7, <2>2, SMT DEF RType, Known, ThreeRegisters
<1>8. CASE m \in {"MFLO", "MFHI", "JR"} /\ Len(o) = 1 /\ Known(o, {1})
  BY <1>2, <1>3, <1>4, <1>8, SMT DEF RType, Known, ThreeRegisters
<1>9. CASE m \in ThreeRegisters /\ Len(o) = 3 /\ Known(o, 1 .. 3)
  BY <1>2, <1>3, <1>4, <1>9, SMT DEF RType, Known, ThreeRegisters
<1> QED
  BY <1>5, <1>6, <1>7, <1>8, <1>9, SMT DEF RType, N

(* IType, a class of mnemonics at a time. *)
LEMMA ITypeCases ==
  ASSUME NEW m, NEW o
  PROVE
    /\ m \in ByImmediate => IType(m, o) =
         IF Len(o) = 3 /\ ValidStoreReg(o[1]) /\ Fits(o[3], Immed) /\ Known(o, 1 .. 2)
           THEN <<IWord(Op[m], o[2].reg, o[1].reg, Bits(o[3].num, Immed))>> ELSE N
    /\ m \in {"BEQ", "BNE"} => IType(m, o) =
         IF Len(o) = 3 /\ Fits(o[3], Immed) /\ Known(o, 1 .. 2)
           THEN <<IWord(Op[m], o[1].reg, o[2].reg, Bits(o[3].num, Immed))>> ELSE N
    /\ m \in LoadForm \cup StoreForm => IType(m, o) =
         IF Len(o) = 2 /\ FitsSplit(o[2], Immed) /\ (m \in LoadForm => ValidStoreReg(o[1]))
              /\ Known(o, {1}) /\ o[2].kind = "mem" /\ o[2].reg # Unknown
           THEN <<IWord(Op[m], o[2].reg, o[1].reg, Bits(o[2].num, Immed))>> ELSE N
    /\ m \in AgainstZero => IType(m, o) =
         IF Len(o) = 2 /\ Fits(o[2], Immed) /\ Known(o, {1})
           THEN <<IWord(Op[m], o[1].reg, IF m = "BGEZ" THEN 1 ELSE 0, Bits(o[2].num, Immed))>>
           ELSE N
    /\ m \in {"LUI", "LI"} => IType(m, o) =
         IF Len(o) = 2 /\ FitsSplit(o[2], Immed) /\ Known(o, {1})
           THEN <<IWord(Op[m], 0, o[1].reg, Bits(o[2].num, Immed))>> ELSE N
    /\ m = "LA" => IType(m, o) =
         IF Len(o) = 2 /\ FitsSplit(o[2], Immed) /\ Known(o, {1})
           THEN LaWords(o[1].reg, o[2].num) ELSE N
<1> USE DEF ByImmediate, LoadForm, StoreForm, AgainstZero
<1>1. CASE m \in ByImmediate
  BY <1>1, Zenon DEF IType
<1>2. CASE m \in {"BEQ", "BNE"}
  BY <1>2, Zenon DEF IType
<1>3. CASE m \in LoadForm \cup StoreForm
  BY <1>3, Zenon DEF IType
<1>4. CASE m \in AgainstZero
  BY <1>4, Zenon DEF IType
<1>5. CASE m \in {"LUI", "LI"}
  BY <1>5, Zenon DEF IType
<1>6. CASE m = "LA"
  BY <1>6, Zenon DEF IType
<1> QED
  BY <1>1, <1>2, <1>3, <1>4, <1>5, <1>6

(* At most one word of an immediate, two for la. *)
LEMMA ITypeTyped ==
  ASSUME NEW m \in ImmediateForm, NEW o \in Seq(Operand)
  PROVE  \/ IType(m, o) = N
         \/ \E w \in BinaryWord : IType(m, o) = <<w>>
         \/ m = "LA" /\ \E w, x \in BinaryWord : IType(m, o) = <<w, x>>
<1>1. \A q \in ImmediateForm : Op[q] \in Six
  BY OpTyped
<1>2. 0 \in Five /\ 1 \in Five /\ "LUI" \in ImmediateForm /\ "ORI" \in ImmediateForm
  BY SMT DEF Five, ImmediateForm
<1>3. \A k \in 1 .. Len(o) : o[k].reg # Unknown => o[k].reg \in Five
  BY KnownRegister
<1>4. \A k \in 1 .. Len(o) : Bits(o[k].num, Immed) \in Nat /\ Bits(o[k].num, Immed) < RtAt
  BY BitsOfNumbers, OperandNumber
<1>5. ASSUME NEW q \in ImmediateForm, NEW rs \in Five, NEW rt \in Five,
             NEW k \in 1 .. Len(o)
      PROVE  IWord(Op[q], rs, rt, Bits(o[k].num, Immed)) \in BinaryWord
  BY <1>1, <1>4, IWordTyped
<1>6. ASSUME Len(o) = 3, Known(o, 1 .. 2)
      PROVE  /\ IWord(Op[m], o[2].reg, o[1].reg, Bits(o[3].num, Immed)) \in BinaryWord
             /\ IWord(Op[m], o[1].reg, o[2].reg, Bits(o[3].num, Immed)) \in BinaryWord
  <2>1. o[1].reg \in Five /\ o[2].reg \in Five /\ 3 \in 1 .. Len(o)
    BY <1>3, <1>6, SMT DEF Known
  <2> QED
    BY <1>5, <2>1
<1>7. ASSUME Len(o) = 2, Known(o, {1})
      PROVE  /\ o[2].reg # Unknown =>
                  IWord(Op[m], o[2].reg, o[1].reg, Bits(o[2].num, Immed)) \in BinaryWord
             /\ IWord(Op[m], o[1].reg, IF m = "BGEZ" THEN 1 ELSE 0,
                      Bits(o[2].num, Immed)) \in BinaryWord
             /\ IWord(Op[m], 0, o[1].reg, Bits(o[2].num, Immed)) \in BinaryWord
             /\ IWord(Op["LUI"], 0, o[1].reg, Bits(o[2].num, Immed)) \in BinaryWord
             /\ IWord(Op["ORI"], o[1].reg, o[1].reg, Bits(o[2].num, Immed)) \in BinaryWord
  <2>1. o[1].reg \in Five /\ (o[2].reg # Unknown => o[2].reg \in Five) /\ 2 \in 1 .. Len(o)
    BY <1>3, <1>7, SMT DEF Known
  <2>2. (IF m = "BGEZ" THEN 1 ELSE 0) \in Five
    BY <1>2
  <2> QED
    BY <1>2, <1>5, <2>1, <2>2
<1>8. ASSUME Len(o) = 2, Known(o, {1})
      PROVE  \/ \E w \in BinaryWord : LaWords(o[1].reg, o[2].num) = <<w>>
             \/ \E w, x \in BinaryWord : LaWords(o[1].reg, o[2].num) = <<w, x>>
  BY <1>7, <1>8 DEF LaWords
<1>9. \/ m \in ByImmediate \/ m \in {"BEQ", "BNE"} \/ m \in LoadForm \cup StoreForm
      \/ m \in AgainstZero \/ m \in {"LUI", "LI"} \/ m = "LA"
  BY DEF ImmediateForm, ByImmediate, LoadForm, StoreForm, AgainstZero
<1>10. CASE m \in ByImmediate
  BY <1>6, <1>10, ITypeCases
<1>11. CASE m \in {"BEQ", "BNE"}
  BY <1>6, <1>11, ITypeCases
<1>12. CASE m \in LoadForm \cup StoreForm
  BY <1>7, <1>12, ITypeCases
<1>13. CASE m \in AgainstZero
  BY <1>7, <1>13, ITypeCases
<1>14. CASE m \in {"LUI", "LI"}
  BY <1>7, <1>14, ITypeCases
<1>15. CASE m = "LA"
  BY <1>8, <1>15, ITypeCases
<1> QED
  BY <1>9, <1>10, <1>11, <1>12, <1>13, <1>14, <1>15

LEMMA JTypeTyped ==
  ASSUME NEW m \in JumpForm, NEW o \in Seq(Operand)
  PROVE  JType(m, o) = N \/ \E w \in BinaryWord : JType(m, o) = <<w>>
<1>1. Op[m] \in Six
  BY OpTyped
<1> SUFFICES ASSUME Len(o) = 1
             PROVE  JWord(Op[m], Bits(o[1].num, Target)) \in BinaryWord
  BY DEF JType
<1>2. 1 \in 1 .. Len(o)
  BY SMT
<1>3. Bits(o[1].num, Target) \in 0 .. LowSize - 1
  BY <1>2, BitsOfNumbers, OperandNumber
<1> QED
  BY <1>1, <1>3, JWordFields

LEMMA FormsApart ==
  \A m : /\ m \in RegisterForm => m \notin ImmediateForm /\ m \notin JumpForm
         /\ m \in ImmediateForm => m \notin JumpForm
  BY SMT DEF RegisterForm, ImmediateForm, JumpForm

LEMMA EncodingsCases ==
  ASSUME NEW l
  PROVE
    LET m == l.mnemonic
        o == StripWhiteSpaces(l.operands)
    IN
    /\ m \in RegisterForm => Encodings(l) = {RType(m, o)}
    /\ m \in ImmediateForm => Encodings(l) =
         {IType(m, o)} \cup {<<IWord(Op[m], r, o[1].reg, Bits(o[2].num, Immed))>> :
                              r \in IF MissingBase(m, o) THEN 0 .. 31 ELSE {}}
    /\ m \in JumpForm => Encodings(l) = {JType(m, o)}
    /\ m \notin RegisterForm \cup ImmediateForm \cup JumpForm => Encodings(l) = {Trap}
<1> DEFINE m == l.mnemonic
<1>1. CASE m \in RegisterForm
  BY <1>1, FormsApart, Zenon DEF Encodings
<1>2. CASE m \in ImmediateForm
  BY <1>2, FormsApart, Zenon DEF Encodings
<1>3. CASE m \in JumpForm
  BY <1>3, FormsApart, Zenon DEF Encodings
<1>4. CASE m \notin RegisterForm \cup ImmediateForm \cup JumpForm
  BY <1>4, Zenon DEF Encodings
<1> QED
  BY <1>1, <1>2, <1>3, <1>4

(* Whatever lies behind the operands, a line becomes no word, one, or for  *)
(* la two.                                                                 *)
LEMMA EncodingsTyped ==
  ASSUME NEW l \in Line, NEW e \in Encodings(l)
  PROVE  \/ e = N
         \/ \E w \in BinaryWord : e = <<w>>
         \/ l.mnemonic = "LA" /\ \E w, x \in BinaryWord : e = <<w, x>>
<1> DEFINE m == l.mnemonic
           o == StripWhiteSpaces(l.operands)
<1>1. o \in Seq(Operand)
  <2>1. l.operands \in Seq(Operand)
    BY SMT DEF Line
  <2> QED
    BY <2>1, StripTyped
<1>2. CASE m \in RegisterForm
  <2>1. e = RType(m, o)
    BY <1>2, EncodingsCases
  <2> HIDE DEF m, o
  <2> QED
    BY <1>1, <1>2, <2>1, RTypeTyped
<1>3. CASE m \in ImmediateForm /\ e = IType(m, o)
  <2> HIDE DEF o
  <2> QED
    BY <1>1, <1>3, ITypeTyped
<1>4. ASSUME m \in ImmediateForm, MissingBase(m, o), NEW r \in 0 .. 31,
             e = <<IWord(Op[m], r, o[1].reg, Bits(o[2].num, Immed))>>
      PROVE  \E w \in BinaryWord : e = <<w>>
  <2>1. Len(o) = 2 /\ Known(o, {1})
    BY <1>4 DEF MissingBase
  <2> HIDE DEF m, o
  <2>2. 1 \in 1 .. Len(o) /\ 2 \in 1 .. Len(o) /\ o[1].reg # Unknown
    BY <2>1, SMT DEF Known
  <2>6. o[1].reg \in Five
    BY <1>1, <2>2, KnownRegister
  <2>3. Bits(o[2].num, Immed) \in Nat /\ Bits(o[2].num, Immed) < RtAt
    BY <1>1, <2>2, OperandNumber, BitsOfNumbers
  <2>4. Op[m] \in Six
    BY <1>4, OpTyped
  <2>5. r \in Five
    BY <1>4, SMT DEF Five
  <2> QED
    BY <1>4, <2>3, <2>4, <2>5, <2>6, IWordTyped
<1>5. CASE m \in JumpForm
  <2>1. e = JType(m, o)
    BY <1>5, EncodingsCases
  <2> HIDE DEF m, o
  <2> QED
    BY <1>1, <1>5, <2>1, JTypeTyped
<1>6. CASE m \notin RegisterForm \cup ImmediateForm \cup JumpForm
  <2>1. e = Trap
    BY <1>6, EncodingsCases
  <2>2. 63 \in Six
    BY SMT DEF Six
  <2>3. 0 \in 0 .. LowSize - 1
    BY Places, SMT
  <2> QED
    BY <2>1, <2>2, <2>3, JWordFields DEF Trap
<1>7. CASE m \in ImmediateForm /\ e # IType(m, o)
  <2>1. e \in {<<IWord(Op[m], r, o[1].reg, Bits(o[2].num, Immed))>> :
                  r \in IF MissingBase(m, o) THEN 0 .. 31 ELSE {}}
    BY <1>7, EncodingsCases
  <2> HIDE DEF m, o
  <2> QED
    BY <1>4, <1>7, <2>1
<1> QED
  BY <1>2, <1>3, <1>5, <1>6, <1>7

(***************************************************************************)
(* The two halves of the loop: an encoding waits at a line of the text, of *)
(* a known mnemonic, and the flag is up for what la is turned into.        *)
(***************************************************************************)
Handover ==
  /\ step = "encode" => ~mult_inst
  /\ step = "append" =>
       /\ i < Len(instructions) /\ CurrentLine.mnemonic \in Mnemonic
       /\ encoded_instruction \in Encodings(CurrentLine)
       /\ mult_inst <=> CurrentLine.mnemonic = "LA" /\ encoded_instruction # N
  /\ status # "returned" => result = -1
  /\ status = "returned" /\ result # -1 => result = i /\ i < Len(instructions)
  /\ status = "returned" /\ result = -1 => i = Len(instructions)
IInv == TypeOK /\ Handover

LEMMA TextsAreLines == Init => instructions \in Seq(Line)
  BY TextsAssumption DEF Init

LEMMA InitHolds == Init => IInv
<1> SUFFICES ASSUME Init PROVE IInv
  OBVIOUS
<1>1. instructions \in Seq(Line)
  BY TextsAreLines
<1>2. TypeOK
  <2>1. <<>> \in Seq(BinaryWord)
    OBVIOUS
  <2>2. 0 \in 0 .. Len(instructions)
    BY <1>1, SMT
  <2> QED
    BY <1>1, <2>1, <2>2 DEF Init, TypeOK, N
<1>3. Handover
  BY DEF Init, Handover
<1> QED
  BY <1>2, <1>3 DEF IInv

(* The line the loop is at is one. *)
LEMMA CurrentIsLine ==
  ASSUME TypeOK, i < Len(instructions)
  PROVE  CurrentLine \in Line
<1>1. instructions \in Seq(Line) /\ i + 1 \in 1 .. Len(instructions)
  BY SMT DEF TypeOK
<1> QED
  BY <1>1, SMT DEF CurrentLine

(* What is pushed is words. *)
LEMMA EncodingIsWords ==
  ASSUME NEW l \in Line, NEW e \in Encodings(l)
  PROVE  e \in Seq(BinaryWord) /\ (e # N => Len(e) \in 1 .. 2)
<1>1. CASE e = N
  BY <1>1, SMT DEF N
<1>2. ASSUME NEW w \in BinaryWord, e = <<w>>
      PROVE  e \in Seq(BinaryWord) /\ Len(e) \in 1 .. 2
  BY <1>2, SMT
<1>3. ASSUME NEW w \in BinaryWord, NEW x \in BinaryWord, e = <<w, x>>
      PROVE  e \in Seq(BinaryWord) /\ Len(e) \in 1 .. 2
  BY <1>3, SMT
<1> QED
  BY <1>1, <1>2, <1>3, EncodingsTyped

LEMMA EncodeKeeps == ASSUME IInv, Encode PROVE IInv'
<1> USE DEF IInv
<1>1. i < Len(instructions) /\ CurrentLine \in Line
  BY CurrentIsLine DEF Encode, AtLine
<1>2. encoded_instruction' \in Seq(BinaryWord)
  BY <1>1, EncodingIsWords DEF Encode
<1>3. CurrentLine' = CurrentLine
  BY DEF Encode, CurrentLine
<1>4. mult_inst' <=> CurrentLine.mnemonic = "LA" /\ encoded_instruction' # N
  BY DEF Encode, AtLine, Handover
<1>5. TypeOK'
  BY <1>2, <1>4 DEF Encode, TypeOK, CurrentLine
<1>6. Handover'
  BY <1>1, <1>3, <1>4 DEF Encode, AtLine, Handover, Encodings
<1> QED
  BY <1>5, <1>6

LEMMA PushKeeps ==
  ASSUME IInv, status = "running", step = "append", Push, mult_inst' = FALSE
  PROVE  IInv'
<1> USE DEF IInv
<1>1. i < Len(instructions) /\ i \in Nat /\ instructions \in Seq(Line)
  BY SMT DEF Handover, TypeOK
<1>2. i' \in 0 .. Len(instructions)
  BY <1>1, SMT DEF Push
<1>3. encoded_instructions' \in Seq(BinaryWord)
  BY SMT DEF Push, TypeOK
<1>4. TypeOK'
  BY <1>2, <1>3 DEF Push, TypeOK
<1>5. Handover'
  BY DEF Push, Handover
<1> QED
  BY <1>4, <1>5

(* A return or a crash leaves the rest where it is. *)
LEMMA EndKeeps ==
  ASSUME IInv, status = "running",
         Crash \/ (step = "encode" /\ i < Len(instructions) /\ Return(i))
           \/ (step = "append" /\ ~mult_inst /\ Return(i))
           \/ (i = Len(instructions) /\ Return(-1))
  PROVE  IInv'
<1> USE DEF IInv
<1>1. UNCHANGED <<instructions, i, step, encoded_instruction, mult_inst, encoded_instructions>>
  BY DEF Crash, Return
<1>2. i \in Int /\ i # -1 /\ i \in 0 .. Len(instructions)
  BY SMT DEF TypeOK
<1>3. TypeOK'
  BY <1>1, <1>2 DEF TypeOK, Crash, Return
<1>4. CurrentLine' = CurrentLine /\ Encodings(CurrentLine)' = Encodings(CurrentLine)
  BY <1>1 DEF CurrentLine
<1>5. Handover'
  BY <1>1, <1>2, <1>4 DEF Handover, Crash, Return
<1> QED
  BY <1>3, <1>5

LEMMA StepKeeps == IInv /\ [Next]_asm_vars => IInv'
<1> SUFFICES ASSUME IInv, [Next]_asm_vars PROVE IInv'
  OBVIOUS
<1>1. CASE UnknownMnemonic
  BY <1>1, EndKeeps DEF UnknownMnemonic, AtLine
<1>2. CASE Encode
  BY <1>2, EncodeKeeps
<1>3. CASE EncodeCrash
  BY <1>3, EndKeeps DEF EncodeCrash, AtLine
<1>4. CASE AppendLa
  BY <1>4, EndKeeps, PushKeeps DEF AppendLa, Appending, MultInstDone
<1>5. CASE AppendOne
  <2>1. mult_inst' = FALSE
    BY <1>5 DEF AppendOne, IInv, TypeOK
  <2> QED
    BY <1>5, <2>1, PushKeeps DEF AppendOne, Appending
<1>6. CASE Refuse
  BY <1>6, EndKeeps DEF Refuse, Appending
<1>7. CASE Finish
  BY <1>7, EndKeeps DEF Finish
<1>8. CASE UNCHANGED asm_vars
  <2>1. CurrentLine' = CurrentLine /\ Encodings(CurrentLine)' = Encodings(CurrentLine)
    BY <1>8 DEF CurrentLine, asm_vars
  <2> QED
    BY <1>8, <2>1 DEF asm_vars, IInv, TypeOK, Handover
<1> QED
  BY <1>1, <1>2, <1>3, <1>4, <1>5, <1>6, <1>7, <1>8 DEF Next

(* The state of the loop is well typed, whatever the texts are: only words *)
(* are ever added, and what is between an encoding and its being added,    *)
(* the global flag included, is never left over for another line.          *)
THEOREM TypeCorrect == Spec => []TypeOK
<1>1. IInv => TypeOK
  BY DEF IInv
<1> QED
  BY <1>1, InitHolds, StepKeeps, PTL DEF Spec

(***************************************************************************)
(*               What OnePass promises, in the assembler's terms           *)
(***************************************************************************)
LEMMA SamePlaces ==
  /\ Promise!ShamtAt = ShamtAt /\ Promise!RdAt = RdAt /\ Promise!RtAt = RtAt
  /\ Promise!RsAt = RsAt /\ Promise!LowSize = LowSize
<1>1. Promise!ShamtAt = ShamtAt
  BY SMT DEF Promise!ShamtAt, ShamtAt
<1>2. Promise!RdAt = RdAt
  BY SMT DEF Promise!RdAt, RdAt
<1>3. Promise!RtAt = RtAt
  BY SMT DEF Promise!RtAt, RtAt
<1>4. Promise!RsAt = RsAt
  BY SMT DEF Promise!RsAt, RsAt
<1>5. Promise!LowSize = LowSize
  BY SMT DEF Promise!LowSize, LowSize
<1> QED
  BY <1>1, <1>2, <1>3, <1>4, <1>5

LEMMA SameTerms ==
  /\ Promise!BinaryWord = BinaryWord /\ Promise!Line = Line
  /\ Promise!Unknown = Unknown /\ Promise!FunctionCodes = RegisterForm
  /\ \A n : Promise!Value(n) = Value(n)
  /\ \A w : /\ Promise!RsOf(w) = RsOf(w) /\ Promise!RtOf(w) = RtOf(w)
            /\ Promise!RdOf(w) = RdOf(w) /\ Promise!ShamtOf(w) = ShamtOf(w)
            /\ Promise!FnOf(w) = FnOf(w) /\ Promise!ImmOf(w) = ImmOf(w)
            /\ Promise!TargetOf(w) = TargetOf(w)
<1>1. Promise!BinaryWord = BinaryWord
  BY SamePlaces DEF Promise!BinaryWord, BinaryWord
<1>2. Promise!Unknown = Unknown
  BY DEF Promise!Unknown, Unknown
<1>3. Promise!Number = Number
  BY DEF Promise!Number, Number
<1>4. Promise!Name = Name
  BY <1>2 DEF Promise!Name, Name
<1>5. Promise!Operand = Operand
  BY <1>3, <1>4 DEF Promise!Operand, Operand
<1>6. Promise!Line = Line
  BY <1>5 DEF Promise!Line, Line
<1>7. Promise!FunctionCodes = RegisterForm
  BY DEF Promise!FunctionCodes, RegisterForm
<1>8. \A n : Promise!Value(n) = Value(n)
  BY DEF Promise!Value, Value
<1>9. \A w : /\ Promise!RsOf(w) = RsOf(w) /\ Promise!RtOf(w) = RtOf(w)
             /\ Promise!RdOf(w) = RdOf(w) /\ Promise!ShamtOf(w) = ShamtOf(w)
             /\ Promise!FnOf(w) = FnOf(w) /\ Promise!ImmOf(w) = ImmOf(w)
             /\ Promise!TargetOf(w) = TargetOf(w)
  BY SamePlaces
  DEF Promise!RsOf, RsOf, Promise!RtOf, RtOf, Promise!RdOf, RdOf, Promise!ShamtOf, ShamtOf,
      Promise!FnOf, FnOf, Promise!ImmOf, ImmOf, Promise!TargetOf, TargetOf
<1> QED
  BY <1>1, <1>2, <1>6, <1>7, <1>8, <1>9

(* The two tables of codes agree: enum Opcode's and the assembler's. *)
LEMMA SameCodes ==
  /\ \A m \in RegisterForm \cup (ImmediateForm \ {"LA"}) \cup JumpForm : Promise!Code[m] = Op[m]
  /\ Promise!Code["SYSCALL"] = 63
  BY SMT DEF RegisterForm, ImmediateForm, JumpForm, Promise!Code, Op

LEMMA SignatureOfRegisters ==
  /\ \A m \in ThreeRegisters : Promise!Signature[m] = <<"rd", "rs", "rt">>
  /\ \A m \in {"SLL", "SRL"} : Promise!Signature[m] = <<"rd", "rt", "shamt">>
  /\ \A m \in {"MULT", "DIV"} : Promise!Signature[m] = <<"rs", "rt">>
  /\ \A m \in {"MFHI", "MFLO"} : Promise!Signature[m] = <<"rd">>
  /\ Promise!Signature["JALR"] = <<"rs", "rd">>
  /\ Promise!Signature["JR"] = <<"rs">>
  BY SMT DEF ThreeRegisters, Promise!Signature

LEMMA SignatureOfNumbers ==
  /\ \A m \in ByImmediate : Promise!Signature[m] = <<"rt", "rs", "imm">>
  /\ \A m \in {"BEQ", "BNE"} : Promise!Signature[m] = <<"rs", "rt", "imm">>
  /\ \A m \in LoadForm \cup StoreForm : Promise!Signature[m] = <<"rt", "mem">>
  /\ \A m \in AgainstZero : Promise!Signature[m] = <<"rs", "imm">>
  /\ \A m \in {"LUI", "LI", "LA"} : Promise!Signature[m] = <<"rt", "imm">>
  /\ \A m \in JumpForm : Promise!Signature[m] = <<"target">>
  /\ Promise!Signature["SYSCALL"] = <<>>
  BY SMT DEF ByImmediate, LoadForm, StoreForm, AgainstZero, JumpForm, Promise!Signature

LEMMA SignatureDomain == DOMAIN Promise!Signature = Mnemonic
  BY SMT DEF Mnemonic, RegisterForm, ImmediateForm, JumpForm, Promise!Signature

(* A well-formed line reaches the encoders as it is written. *)
LEMMA WellFormedStrip ==
  ASSUME NEW l \in Line, Promise!WellFormed(l)
  PROVE  /\ l.operands \in Seq(Operand)
         /\ \A k \in 1 .. Len(l.operands) : l.operands[k].spaces = 1
         /\ StripWhiteSpaces(l.operands) = l.operands
<1>1. l.operands \in Seq(Operand)
  BY SMT DEF Line
<1>2. DOMAIN l.operands = 1 .. Len(l.operands)
  BY <1>1
<1>3. \A k \in 1 .. Len(l.operands) : l.operands[k].spaces = 1
  BY <1>2 DEF Promise!WellFormed, Promise!Suits
<1>4. \A k \in DOMAIN l.operands : Stripped(l.operands[k]) = l.operands[k]
  BY <1>2, <1>3, SMT DEF Stripped
<1>5. StripWhiteSpaces(l.operands) = [k \in DOMAIN l.operands |-> l.operands[k]]
  BY <1>4 DEF StripWhiteSpaces
<1>6. l.operands = [k \in DOMAIN l.operands |-> l.operands[k]]
  BY <1>1
<1> QED
  BY <1>1, <1>3, <1>5, <1>6

(* What an operand has to be for its role. *)
LEMMA SuitsRole ==
  ASSUME NEW x \in Operand
  PROVE  /\ \A role \in {"rs", "rt", "rd"} :
              Promise!Suits(x, role) => x.kind = "reg" /\ x.reg # Unknown /\ x.reg \in Five
         /\ Promise!Suits(x, "mem") => x.kind = "mem" /\ x.reg # Unknown /\ x.reg \in Five
         /\ \A role \in {"shamt", "imm", "target"} : Promise!Suits(x, role) => x.kind = "num"
<1>1. x.reg # Unknown => x.reg \in Five
  BY SMT DEF Operand, Name, Unknown, Five
<1> QED
  BY <1>1, SameTerms, Zenon DEF Promise!Suits, Promise!RegisterRoles

(* A number between 1 and the largest of its field, or "0", is taken. *)
LEMMA PlainNumberTaken ==
  ASSUME NEW n \in Number, NEW capacity \in Nat, capacity <= LowSize,
         ~n.neg, (n.base = 10 /\ n.mag = 0) \/ n.mag \in 1 .. capacity - 1
  PROVE  AnyBaseToBinary(n, capacity)
<1>1. n.mag \in Nat /\ Value(n) = n.mag
  BY SMT DEF Number, Value
<1>2. n.mag < LowSize
  BY <1>1, Places, SMT
<1>3. n.mag <= 2147483647
  BY <1>1, <1>2, SMT DEF LowSize
<1>4. Pattern(n) = n.mag
  BY <1>1, <1>2, Places, SMT DEF Pattern
<1>5. IsInt(n) /\ ~MinusZero(n)
  BY <1>3 DEF IsInt, MinusZero
<1>6. Zero(n) \/ Pattern(n) \in 1 .. capacity - 1
  BY <1>4 DEF Zero
<1> QED
  BY <1>5, <1>6 DEF AnyBaseToBinary

LEMMA PlainlyFitsIsTaken ==
  ASSUME NEW n \in Number
  PROVE  /\ Promise!PlainlyFits(n, "shamt")  => AnyBaseToBinary(n, Shamt)
         /\ \A role \in {"imm", "mem"} : Promise!PlainlyFits(n, role) => AnyBaseToBinary(n, Immed)
         /\ Promise!PlainlyFits(n, "target") => AnyBaseToBinary(n, Target)
<1>1. Shamt \in Nat /\ Shamt <= LowSize
  BY SMT DEF Shamt, LowSize
<1>2. Immed \in Nat /\ Immed <= LowSize
  BY SMT DEF Immed, RtAt, LowSize
<1>3. Target \in Nat /\ Target <= LowSize
  BY Places, SMT DEF Target
<1>4. /\ Promise!Capacity("shamt") = Shamt /\ Promise!Capacity("imm") = Immed
      /\ Promise!Capacity("mem") = Immed /\ Promise!Capacity("target") = Target
  BY SamePlaces DEF Promise!Capacity, Shamt, Immed, Target
<1> QED
  BY <1>1, <1>2, <1>3, <1>4, PlainNumberTaken DEF Promise!PlainlyFits

(* Where an operand is looked for in a word. *)
LEMMA HoldsByRole ==
  ASSUME NEW w, NEW x
  PROVE  /\ Promise!Holds(w, "rs", x) <=> RsOf(w) = x.reg
         /\ Promise!Holds(w, "rt", x) <=> RtOf(w) = x.reg
         /\ Promise!Holds(w, "rd", x) <=> RdOf(w) = x.reg
         /\ Promise!Holds(w, "shamt", x) <=> ShamtOf(w) % 32 = Value(x.num) % 32
         /\ Promise!Holds(w, "imm", x) <=> ImmOf(w) = Value(x.num) % RtAt
         /\ Promise!Holds(w, "mem", x) <=> ImmOf(w) = Value(x.num) % RtAt /\ RsOf(w) = x.reg
         /\ Promise!Holds(w, "target", x) <=> TargetOf(w) = Value(x.num) % LowSize
  BY SamePlaces, SameTerms, Zenon DEF Promise!Holds

(* The fields of a word hold the operands of a line, the others their rest. *)
RFields(m, o, rs, rt, rd, shamt) ==
  /\ \A k \in DOMAIN o :
       \/ Promise!Signature[m][k] = "rs" /\ o[k].reg = rs
       \/ Promise!Signature[m][k] = "rt" /\ o[k].reg = rt
       \/ Promise!Signature[m][k] = "rd" /\ o[k].reg = rd
       \/ Promise!Signature[m][k] = "shamt" /\ Value(o[k].num) % 32 = shamt
  /\ Promise!Roles(m) \cap {"rs", "mem"} = {} => rs = 0
  /\ "rt" \notin Promise!Roles(m) => rt = 0
  /\ "rd" \notin Promise!Roles(m) => rd = 0
IFields(m, o, rs, rt, imm) ==
  /\ \A k \in DOMAIN o :
       \/ Promise!Signature[m][k] = "rs" /\ o[k].reg = rs
       \/ Promise!Signature[m][k] = "rt" /\ o[k].reg = rt
       \/ Promise!Signature[m][k] = "imm" /\ Value(o[k].num) % RtAt = imm
       \/ Promise!Signature[m][k] = "mem" /\ Value(o[k].num) % RtAt = imm /\ o[k].reg = rs
  /\ Promise!Roles(m) \cap {"rs", "mem"} = {} => rs = 0
  /\ "rt" \notin Promise!Roles(m) => rt = IF m = "BGEZ" THEN 1 ELSE 0

(* A word of three registers denotes the line its fields were taken from. *)
LEMMA RWordDenotes ==
  ASSUME NEW m \in RegisterForm, NEW o,
         NEW rs \in Five, NEW rt \in Five, NEW rd \in Five, NEW shamt \in Five,
         RFields(m, o, rs, rt, rd, shamt)
  PROVE  Promise!Denotes(m, o, RWord(rs, rt, rd, shamt, Op[m]))
<1>0. PICK w : w = RWord(rs, rt, rd, shamt, Op[m])
  OBVIOUS
<1>1. Op[m] \in Six
  BY OpTyped
<1>2. /\ w \in BinaryWord /\ w.opcode = 0
      /\ RsOf(w) = rs /\ RtOf(w) = rt /\ RdOf(w) = rd
      /\ ShamtOf(w) % 32 = shamt /\ FnOf(w) = Op[m]
  BY <1>0, <1>1, RWordFields
<1>3. Promise!Code[m] = Op[m] /\ m \in Promise!FunctionCodes /\ m # "BGEZ"
  BY SameCodes, SameTerms DEF RegisterForm
<1>4. \A k \in DOMAIN o : Promise!Holds(w, Promise!Signature[m][k], o[k])
  BY <1>2, HoldsByRole DEF RFields
<1> QED
  BY <1>0, <1>2, <1>3, <1>4, SameTerms DEF Promise!Denotes, RFields

(* A word of an immediate denotes the line its fields were taken from. *)
LEMMA IWordDenotes ==
  ASSUME NEW m \in ImmediateForm \ {"LA"}, NEW o,
         NEW rs \in Five, NEW rt \in Five, NEW imm \in Nat, imm < RtAt,
         IFields(m, o, rs, rt, imm)
  PROVE  Promise!Denotes(m, o, IWord(Op[m], rs, rt, imm))
<1>0. PICK w : w = IWord(Op[m], rs, rt, imm)
  OBVIOUS
<1>1. Op[m] \in Six
  BY OpTyped
<1>2. /\ w \in BinaryWord /\ w.opcode = Op[m]
      /\ RsOf(w) = rs /\ RtOf(w) = rt /\ ImmOf(w) = imm
  BY <1>0, <1>1, IWordFields
<1>3. Promise!Code[m] = Op[m] /\ m \notin Promise!FunctionCodes
  BY SameCodes, SameTerms, FormsApart
<1>4. \A k \in DOMAIN o : Promise!Holds(w, Promise!Signature[m][k], o[k])
  BY <1>2, HoldsByRole DEF IFields
<1> QED
  BY <1>0, <1>2, <1>3, <1>4, SameTerms DEF Promise!Denotes, IFields

(* RType, a class of mnemonics at a time. *)
LEMMA RTypeCases ==
  ASSUME NEW m, NEW o, Len(o) \in 1 .. 3
  PROVE
    /\ ~ValidStoreReg(o[1]) => RType(m, o) = N
    /\ m \in {"MULT", "DIV"} /\ ValidStoreReg(o[1]) /\ Len(o) = 2 /\ Known(o, 1 .. 2) =>
         RType(m, o) = <<RWord(o[1].reg, o[2].reg, 0, 0, Op[m])>>
    /\ m = "JALR" /\ ValidStoreReg(o[1]) /\ Len(o) = 2 /\ Known(o, 1 .. 2) =>
         RType(m, o) =
           IF ValidStoreReg(o[2]) THEN <<RWord(o[1].reg, 0, o[2].reg, 0, Op[m])>> ELSE N
    /\ m \in {"SLL", "SRL"} /\ ValidStoreReg(o[1]) /\ Len(o) = 3 /\ Known(o, 1 .. 2) =>
         RType(m, o) =
           IF Fits(o[3], Shamt)
             THEN <<RWord(0, o[2].reg, o[1].reg, Bits(o[3].num, Shamt), Op[m])>> ELSE N
    /\ m \in {"MFLO", "MFHI"} /\ ValidStoreReg(o[1]) /\ Len(o) = 1 /\ Known(o, {1}) =>
         RType(m, o) = <<RWord(0, 0, o[1].reg, 0, Op[m])>>
    /\ m = "JR" /\ ValidStoreReg(o[1]) /\ Len(o) = 1 /\ Known(o, {1}) =>
         RType(m, o) = <<RWord(o[1].reg, 0, 0, 0, Op[m])>>
    /\ m \in ThreeRegisters /\ ValidStoreReg(o[1]) /\ Len(o) = 3 /\ Known(o, 1 .. 3) =>
         RType(m, o) = <<RWord(o[2].reg, o[3].reg, o[1].reg, 0, Op[m])>>
<1> USE DEF ThreeRegisters
<1>1. CASE ~ValidStoreReg(o[1])
  BY <1>1, Zenon DEF RType
<1>2. CASE ValidStoreReg(o[1]) /\ m \in {"MULT", "DIV"}
  BY <1>2, Zenon DEF RType
<1>3. CASE ValidStoreReg(o[1]) /\ m = "JALR"
  BY <1>3, Zenon DEF RType
<1>4. CASE ValidStoreReg(o[1]) /\ m \in {"SLL", "SRL"}
  BY <1>4, Zenon DEF RType
<1>5. CASE ValidStoreReg(o[1]) /\ m \in {"MFLO", "MFHI"}
  BY <1>5, Zenon DEF RType
<1>6. CASE ValidStoreReg(o[1]) /\ m = "JR"
  BY <1>6, Zenon DEF RType
<1>7. CASE ValidStoreReg(o[1]) /\ m \in ThreeRegisters
  BY <1>7, Zenon DEF RType
<1> QED
  BY <1>1, <1>2, <1>3, <1>4, <1>5, <1>6, <1>7

(* The registers the assembler does not let a line write are the reserved. *)
LEMMA BarredFirst ==
  ASSUME NEW l, l.operands[1].kind = "reg"
  PROVE  /\ ValidStoreReg(l.operands[1]) <=> l.operands[1].reg \notin Promise!Reserved
         /\ l.mnemonic \in RegisterForm \cup ByImmediate \cup LoadForm
                <=> l.mnemonic \in Promise!Guarded
  BY SameTerms DEF ValidStoreReg, Promise!Reserved, Promise!Guarded, ByImmediate, LoadForm

(* A word for a line is right, and a line is not left without a cause. *)
Kept(l, e) ==
  /\ e # N => ~Promise!Barred(l) /\ Promise!DenotesLine(l, e)
  /\ Promise!Acceptable(l) => e # N

(* One word that denotes the line, given when it writes no reserved        *)
(* register and its number, if it has one, is taken.                       *)
LEMMA OneWordKept ==
  ASSUME NEW l, NEW e, NEW w, NEW taken \in BOOLEAN, l.mnemonic # "LA",
         e = IF ~Promise!Barred(l) /\ taken THEN <<w>> ELSE N,
         Promise!Denotes(l.mnemonic, l.operands, w),
         Promise!Acceptable(l) => taken
  PROVE  Kept(l, e)
<1>1. <<w>> # N /\ Len(<<w>>) = 1 /\ <<w>>[1] = w
  BY SMT DEF N
<1>2. ~Promise!Barred(l) /\ taken => Promise!DenotesLine(l, e)
  BY <1>1 DEF Promise!DenotesLine
<1>3. Promise!Acceptable(l) => ~Promise!Barred(l)
  BY DEF Promise!Acceptable
<1> QED
  BY <1>1, <1>2, <1>3 DEF Kept

LEMMA RTypeKept ==
  ASSUME NEW l \in Line, Promise!WellFormed(l), l.mnemonic \in RegisterForm
  PROVE  Kept(l, RType(l.mnemonic, l.operands))
<1> DEFINE m == l.mnemonic
           o == l.operands
           e == RType(m, o)
<1>1. /\ o \in Seq(Operand) /\ Len(o) = Len(Promise!Signature[m]) /\ DOMAIN o = 1 .. Len(o)
      /\ \A k \in 1 .. Len(o) : o[k] \in Operand /\ Promise!Suits(o[k], Promise!Signature[m][k])
  BY WellFormedStrip DEF Promise!WellFormed
<1>2. 0 \in Five /\ m # "LA" /\ Op[m] \in Six
  BY FormsApart, OpTyped, SMT DEF Five, ImmediateForm
<1>3. ASSUME o[1].kind = "reg", m # "JALR"
      PROVE  Promise!Barred(l) <=> ~ValidStoreReg(o[1])
  BY <1>3, BarredFirst DEF Promise!Barred
<1>4. CASE m \in ThreeRegisters
  <2>1. Promise!Signature[m] = <<"rd", "rs", "rt">>
    BY <1>4, SignatureOfRegisters
  <2>2. Len(o) = 3 /\ Promise!Roles(m) = {"rd", "rs", "rt"}
    BY <1>1, <2>1, SMT DEF Promise!Roles
  <2>3. /\ o[1].kind = "reg" /\ o[1].reg # Unknown /\ o[1].reg \in Five
        /\ o[2].kind = "reg" /\ o[2].reg # Unknown /\ o[2].reg \in Five
        /\ o[3].kind = "reg" /\ o[3].reg # Unknown /\ o[3].reg \in Five
    BY <1>1, <2>1, <2>2, SuitsRole, SMT
  <2>4. e = IF ~Promise!Barred(l) /\ TRUE
              THEN <<RWord(o[2].reg, o[3].reg, o[1].reg, 0, Op[m])>> ELSE N
    BY <1>3, <1>4, <2>2, <2>3, RTypeCases, SMT DEF Known, ThreeRegisters
  <2>5. RFields(m, o, o[2].reg, o[3].reg, o[1].reg, 0)
    BY <1>1, <2>1, <2>2, SMT DEF RFields
  <2> QED
    BY <1>2, <2>3, <2>4, <2>5, RWordDenotes, OneWordKept
<1>5. CASE m \in {"SLL", "SRL"}
  <2>1. Promise!Signature[m] = <<"rd", "rt", "shamt">>
    BY <1>5, SignatureOfRegisters
  <2>2. Len(o) = 3 /\ Promise!Roles(m) = {"rd", "rt", "shamt"}
    BY <1>1, <2>1, SMT DEF Promise!Roles
  <2>3. /\ o[1].kind = "reg" /\ o[1].reg # Unknown /\ o[1].reg \in Five
        /\ o[2].kind = "reg" /\ o[2].reg # Unknown /\ o[2].reg \in Five
        /\ o[3].kind = "num" /\ o[3].num \in Number
    BY <1>1, <2>1, <2>2, SuitsRole, OperandNumber, SMT
  <2>4. e = IF ~Promise!Barred(l) /\ Fits(o[3], Shamt)
              THEN <<RWord(0, o[2].reg, o[1].reg, Bits(o[3].num, Shamt), Op[m])>> ELSE N
    BY <1>3, <1>5, <2>2, <2>3, RTypeCases, SMT DEF Known
  <2>5. Bits(o[3].num, Shamt) \in Five /\ Bits(o[3].num, Shamt) = Value(o[3].num) % 32
    BY <2>3, BitsOfNumbers
  <2>6. RFields(m, o, 0, o[2].reg, o[1].reg, Bits(o[3].num, Shamt))
    BY <1>1, <2>1, <2>2, <2>5, SMT DEF RFields
  <2>7. Promise!Acceptable(l) => Promise!PlainlyFits(o[3].num, "shamt")
    BY <1>1, <2>1, <2>2, SMT DEF Promise!Acceptable, Promise!RegisterRoles
  <2>8. Promise!Acceptable(l) => Fits(o[3], Shamt)
    BY <2>3, <2>7, PlainlyFitsIsTaken DEF Fits
  <2>9. Fits(o[3], Shamt) \in BOOLEAN
    BY DEF Fits, AnyBaseToBinary
  <2> QED
    BY <1>2, <2>3, <2>4, <2>5, <2>6, <2>8, <2>9, RWordDenotes, OneWordKept
<1>6. CASE m \in {"MULT", "DIV"}
  <2>1. Promise!Signature[m] = <<"rs", "rt">>
    BY <1>6, SignatureOfRegisters
  <2>2. Len(o) = 2 /\ Promise!Roles(m) = {"rs", "rt"}
    BY <1>1, <2>1, SMT DEF Promise!Roles
  <2>3. /\ o[1].kind = "reg" /\ o[1].reg # Unknown /\ o[1].reg \in Five
        /\ o[2].kind = "reg" /\ o[2].reg # Unknown /\ o[2].reg \in Five
    BY <1>1, <2>1, <2>2, SuitsRole, SMT
  <2>4. e = IF ~Promise!Barred(l) /\ TRUE
              THEN <<RWord(o[1].reg, o[2].reg, 0, 0, Op[m])>> ELSE N
    BY <1>3, <1>6, <2>2, <2>3, RTypeCases, SMT DEF Known
  <2>5. RFields(m, o, o[1].reg, o[2].reg, 0, 0)
    BY <1>1, <2>1, <2>2, SMT DEF RFields
  <2> QED
    BY <1>2, <2>3, <2>4, <2>5, RWordDenotes, OneWordKept
<1>7. CASE m \in {"MFLO", "MFHI"}
  <2>1. Promise!Signature[m] = <<"rd">>
    BY <1>7, SignatureOfRegisters
  <2>2. Len(o) = 1 /\ Promise!Roles(m) = {"rd"}
    BY <1>1, <2>1, SMT DEF Promise!Roles
  <2>3. o[1].kind = "reg" /\ o[1].reg # Unknown /\ o[1].reg \in Five
    BY <1>1, <2>1, <2>2, SuitsRole, SMT
  <2>4. e = IF ~Promise!Barred(l) /\ TRUE THEN <<RWord(0, 0, o[1].reg, 0, Op[m])>> ELSE N
    BY <1>3, <1>7, <2>2, <2>3, RTypeCases, SMT DEF Known
  <2>5. RFields(m, o, 0, 0, o[1].reg, 0)
    BY <1>1, <2>1, <2>2, SMT DEF RFields
  <2> QED
    BY <1>2, <2>3, <2>4, <2>5, RWordDenotes, OneWordKept
<1>8. CASE m = "JR"
  <2>1. Promise!Signature[m] = <<"rs">>
    BY <1>8, SignatureOfRegisters
  <2>2. Len(o) = 1 /\ Promise!Roles(m) = {"rs"}
    BY <1>1, <2>1, SMT DEF Promise!Roles
  <2>3. o[1].kind = "reg" /\ o[1].reg # Unknown /\ o[1].reg \in Five
    BY <1>1, <2>1, <2>2, SuitsRole, SMT
  <2>4. e = IF ~Promise!Barred(l) /\ TRUE THEN <<RWord(o[1].reg, 0, 0, 0, Op[m])>> ELSE N
    BY <1>3, <1>8, <2>2, <2>3, RTypeCases, SMT DEF Known
  <2>5. RFields(m, o, o[1].reg, 0, 0, 0)
    BY <1>1, <2>1, <2>2, SMT DEF RFields
  <2> QED
    BY <1>2, <2>3, <2>4, <2>5, RWordDenotes, OneWordKept
<1>9. CASE m = "JALR"
  <2>1. Promise!Signature[m] = <<"rs", "rd">>
    BY <1>9, SignatureOfRegisters
  <2>2. Len(o) = 2 /\ Promise!Roles(m) = {"rs", "rd"}
    BY <1>1, <2>1, SMT DEF Promise!Roles
  <2>3. /\ o[1].kind = "reg" /\ o[1].reg # Unknown /\ o[1].reg \in Five
        /\ o[2].kind = "reg" /\ o[2].reg # Unknown /\ o[2].reg \in Five
    BY <1>1, <2>1, <2>2, SuitsRole, SMT
  <2>4. Promise!Barred(l) <=> ~ValidStoreReg(o[1]) \/ ~ValidStoreReg(o[2])
    BY <1>9, <2>3, BarredFirst DEF Promise!Barred, ValidStoreReg, Promise!Reserved
  <2>5. e = IF ~Promise!Barred(l) /\ TRUE
              THEN <<RWord(o[1].reg, 0, o[2].reg, 0, Op[m])>> ELSE N
    BY <1>9, <2>2, <2>3, <2>4, RTypeCases, SMT DEF Known
  <2>6. RFields(m, o, o[1].reg, 0, o[2].reg, 0)
    BY <1>1, <2>1, <2>2, SMT DEF RFields
  <2> QED
    BY <1>2, <2>3, <2>5, <2>6, RWordDenotes, OneWordKept
<1> QED
  BY <1>4, <1>5, <1>6, <1>7, <1>8, <1>9 DEF RegisterForm, ThreeRegisters

(* A number of a line that may be taken, is. *)
LEMMA NumberTaken ==
  ASSUME NEW l, NEW k \in DOMAIN l.operands, l.operands[k].num \in Number,
         NEW role \in {"imm", "mem"}, Promise!Signature[l.mnemonic][k] = role,
         Promise!Acceptable(l)
  PROVE  AnyBaseToBinary(l.operands[k].num, Immed)
<1>1. Promise!PlainlyFits(l.operands[k].num, role)
  BY DEF Promise!Acceptable, Promise!RegisterRoles
<1> QED
  BY <1>1, PlainlyFitsIsTaken

LEMMA ITypeKept ==
  ASSUME NEW l \in Line, Promise!WellFormed(l), l.mnemonic \in ImmediateForm \ {"LA"}
  PROVE  Kept(l, IType(l.mnemonic, l.operands))
<1> DEFINE m == l.mnemonic
           o == l.operands
           e == IType(m, o)
<1>1. /\ o \in Seq(Operand) /\ Len(o) = Len(Promise!Signature[m]) /\ DOMAIN o = 1 .. Len(o)
      /\ \A k \in 1 .. Len(o) : o[k] \in Operand /\ Promise!Suits(o[k], Promise!Signature[m][k])
  BY WellFormedStrip DEF Promise!WellFormed
<1>2. 0 \in Five /\ 1 \in Five /\ Op[m] \in Six
  BY OpTyped, SMT DEF Five
<1>3. \A k \in 1 .. Len(o) :
        /\ o[k].num \in Number
        /\ Bits(o[k].num, Immed) \in Nat /\ Bits(o[k].num, Immed) < RtAt
        /\ Bits(o[k].num, Immed) = Value(o[k].num) % RtAt
  BY <1>1, OperandNumber, BitsOfNumbers
<1>4. m \notin RegisterForm /\ m \notin JumpForm /\ m # "JALR"
  BY FormsApart DEF RegisterForm
<1>5. ASSUME o[1].kind = "reg", m \in ByImmediate \cup LoadForm
      PROVE  Promise!Barred(l) <=> ~ValidStoreReg(o[1])
  BY <1>4, <1>5, BarredFirst DEF Promise!Barred
<1>6. ASSUME o[1].kind = "reg", m \notin ByImmediate \cup LoadForm
      PROVE  ~Promise!Barred(l)
  BY <1>4, <1>6, BarredFirst DEF Promise!Barred
<1>7. \A k \in 1 .. Len(o) : Fits(o[k], Immed) \in BOOLEAN /\ FitsSplit(o[k], Immed) \in BOOLEAN
  BY DEF Fits, FitsSplit, AnyBaseToBinary
<1>8. CASE m \in ByImmediate
  <2>1. Promise!Signature[m] = <<"rt", "rs", "imm">>
    BY <1>8, SignatureOfNumbers
  <2>2. Len(o) = 3 /\ Promise!Roles(m) = {"rt", "rs", "imm"} /\ 3 \in DOMAIN o
    BY <1>1, <2>1, SMT DEF Promise!Roles
  <2>3. /\ o[1].kind = "reg" /\ o[1].reg # Unknown /\ o[1].reg \in Five
        /\ o[2].kind = "reg" /\ o[2].reg # Unknown /\ o[2].reg \in Five
        /\ o[3].kind = "num"
    BY <1>1, <2>1, <2>2, SuitsRole, SMT
  <2>4. e = IF ~Promise!Barred(l) /\ Fits(o[3], Immed)
              THEN <<IWord(Op[m], o[2].reg, o[1].reg, Bits(o[3].num, Immed))>> ELSE N
    BY <1>5, <1>8, <2>2, <2>3, ITypeCases, SMT DEF Known
  <2>5. IFields(m, o, o[2].reg, o[1].reg, Bits(o[3].num, Immed))
    BY <1>1, <1>3, <2>1, <2>2, SMT DEF IFields
  <2>6. Promise!Acceptable(l) => Fits(o[3], Immed)
    BY <1>1, <1>3, <2>1, <2>2, <2>3, NumberTaken, SMT DEF Fits
  <2>7. Promise!Denotes(m, o, IWord(Op[m], o[2].reg, o[1].reg, Bits(o[3].num, Immed)))
    BY <1>1, <1>3, <2>2, <2>3, <2>5, IWordDenotes
  <2>8. Fits(o[3], Immed) \in BOOLEAN
    BY <1>1, <1>7, <2>2
  <2> QED
    BY <2>4, <2>6, <2>7, <2>8, OneWordKept
<1>9. CASE m \in {"BEQ", "BNE"}
  <2>1. Promise!Signature[m] = <<"rs", "rt", "imm">> /\ m \notin ByImmediate \cup LoadForm
    BY <1>9, SignatureOfNumbers DEF ByImmediate, LoadForm
  <2>2. Len(o) = 3 /\ Promise!Roles(m) = {"rt", "rs", "imm"} /\ 3 \in DOMAIN o
    BY <1>1, <2>1, SMT DEF Promise!Roles
  <2>3. /\ o[1].kind = "reg" /\ o[1].reg # Unknown /\ o[1].reg \in Five
        /\ o[2].kind = "reg" /\ o[2].reg # Unknown /\ o[2].reg \in Five
        /\ o[3].kind = "num"
    BY <1>1, <2>1, <2>2, SuitsRole, SMT
  <2>4. e = IF ~Promise!Barred(l) /\ Fits(o[3], Immed)
              THEN <<IWord(Op[m], o[1].reg, o[2].reg, Bits(o[3].num, Immed))>> ELSE N
    BY <1>6, <1>9, <2>1, <2>2, <2>3, ITypeCases, SMT DEF Known
  <2>5. IFields(m, o, o[1].reg, o[2].reg, Bits(o[3].num, Immed))
    BY <1>1, <1>3, <2>1, <2>2, SMT DEF IFields
  <2>6. Promise!Acceptable(l) => Fits(o[3], Immed)
    BY <1>1, <1>3, <2>1, <2>2, <2>3, NumberTaken, SMT DEF Fits
  <2>7. Promise!Denotes(m, o, IWord(Op[m], o[1].reg, o[2].reg, Bits(o[3].num, Immed)))
    BY <1>1, <1>3, <2>2, <2>3, <2>5, IWordDenotes
  <2>8. Fits(o[3], Immed) \in BOOLEAN
    BY <1>1, <1>7, <2>2
  <2> QED
    BY <2>4, <2>6, <2>7, <2>8, OneWordKept
<1>10. CASE m \in LoadForm \cup StoreForm
  <2>1. Promise!Signature[m] = <<"rt", "mem">> /\ m \notin ByImmediate
    BY <1>10, SignatureOfNumbers DEF ByImmediate, LoadForm, StoreForm
  <2>2. Len(o) = 2 /\ Promise!Roles(m) = {"rt", "mem"} /\ 2 \in DOMAIN o
    BY <1>1, <2>1, SMT DEF Promise!Roles
  <2>3. /\ o[1].kind = "reg" /\ o[1].reg # Unknown /\ o[1].reg \in Five
        /\ o[2].kind = "mem" /\ o[2].reg # Unknown /\ o[2].reg \in Five
    BY <1>1, <2>1, <2>2, SuitsRole, SMT
  <2>4. Promise!Barred(l) <=> ~(m \in LoadForm => ValidStoreReg(o[1]))
    BY <1>5, <1>6, <1>10, <2>1, <2>3
  <2>5. e = IF ~Promise!Barred(l) /\ FitsSplit(o[2], Immed)
              THEN <<IWord(Op[m], o[2].reg, o[1].reg, Bits(o[2].num, Immed))>> ELSE N
    BY <1>10, <2>2, <2>3, <2>4, ITypeCases, SMT DEF Known
  <2>6. IFields(m, o, o[2].reg, o[1].reg, Bits(o[2].num, Immed))
    BY <1>1, <1>3, <2>1, <2>2, SMT DEF IFields
  <2>7. Promise!Acceptable(l) => FitsSplit(o[2], Immed)
    BY <1>1, <1>3, <2>1, <2>2, <2>3, NumberTaken, SMT DEF FitsSplit
  <2>8. Promise!Denotes(m, o, IWord(Op[m], o[2].reg, o[1].reg, Bits(o[2].num, Immed)))
    BY <1>1, <1>3, <2>2, <2>3, <2>6, IWordDenotes
  <2>9. FitsSplit(o[2], Immed) \in BOOLEAN
    BY <1>1, <1>7, <2>2
  <2> QED
    BY <2>5, <2>7, <2>8, <2>9, OneWordKept
<1>11. CASE m \in AgainstZero
  <2>1. Promise!Signature[m] = <<"rs", "imm">> /\ m \notin ByImmediate \cup LoadForm
    BY <1>11, SignatureOfNumbers DEF ByImmediate, LoadForm, AgainstZero
  <2>2. Len(o) = 2 /\ Promise!Roles(m) = {"rs", "imm"} /\ 2 \in DOMAIN o
    BY <1>1, <2>1, SMT DEF Promise!Roles
  <2>3. /\ o[1].kind = "reg" /\ o[1].reg # Unknown /\ o[1].reg \in Five /\ o[2].kind = "num"
    BY <1>1, <2>1, <2>2, SuitsRole, SMT
  <2>4. PICK rt \in Five : rt = IF m = "BGEZ" THEN 1 ELSE 0
    BY <1>2
  <2>5. e = IF ~Promise!Barred(l) /\ Fits(o[2], Immed)
              THEN <<IWord(Op[m], o[1].reg, rt, Bits(o[2].num, Immed))>> ELSE N
    BY <1>6, <1>11, <2>1, <2>2, <2>3, <2>4, ITypeCases, SMT DEF Known
  <2>6. IFields(m, o, o[1].reg, rt, Bits(o[2].num, Immed))
    BY <1>1, <1>3, <2>1, <2>2, <2>4, SMT DEF IFields
  <2>7. Promise!Acceptable(l) => Fits(o[2], Immed)
    BY <1>1, <1>3, <2>1, <2>2, <2>3, NumberTaken, SMT DEF Fits
  <2>8. Promise!Denotes(m, o, IWord(Op[m], o[1].reg, rt, Bits(o[2].num, Immed)))
    BY <1>1, <1>3, <2>2, <2>3, <2>6, IWordDenotes
  <2>9. Fits(o[2], Immed) \in BOOLEAN
    BY <1>1, <1>7, <2>2
  <2> QED
    BY <2>5, <2>7, <2>8, <2>9, OneWordKept
<1>12. CASE m \in {"LUI", "LI"}
  <2>1. Promise!Signature[m] = <<"rt", "imm">> /\ m \notin ByImmediate \cup LoadForm /\ m # "BGEZ"
    BY <1>12, SignatureOfNumbers DEF ByImmediate, LoadForm
  <2>2. Len(o) = 2 /\ Promise!Roles(m) = {"rt", "imm"} /\ 2 \in DOMAIN o
    BY <1>1, <2>1, SMT DEF Promise!Roles
  <2>3. /\ o[1].kind = "reg" /\ o[1].reg # Unknown /\ o[1].reg \in Five /\ o[2].kind = "num"
    BY <1>1, <2>1, <2>2, SuitsRole, SMT
  <2>4. e = IF ~Promise!Barred(l) /\ FitsSplit(o[2], Immed)
              THEN <<IWord(Op[m], 0, o[1].reg, Bits(o[2].num, Immed))>> ELSE N
    BY <1>6, <1>12, <2>1, <2>2, <2>3, ITypeCases, SMT DEF Known
  <2>5. IFields(m, o, 0, o[1].reg, Bits(o[2].num, Immed))
    BY <1>1, <1>3, <2>1, <2>2, SMT DEF IFields
  <2>6. Promise!Acceptable(l) => FitsSplit(o[2], Immed)
    BY <1>1, <1>3, <2>1, <2>2, <2>3, NumberTaken, SMT DEF FitsSplit
  <2>7. Promise!Denotes(m, o, IWord(Op[m], 0, o[1].reg, Bits(o[2].num, Immed)))
    BY <1>2, <1>1, <1>3, <2>2, <2>3, <2>5, IWordDenotes
  <2>8. FitsSplit(o[2], Immed) \in BOOLEAN
    BY <1>1, <1>7, <2>2
  <2> QED
    BY <2>4, <2>6, <2>7, <2>8, OneWordKept
<1> QED
  BY <1>8, <1>9, <1>10, <1>11, <1>12
  DEF ImmediateForm, ByImmediate, LoadForm, StoreForm, AgainstZero

(* la: lui, and ori behind it. *)
LEMMA LaKept ==
  ASSUME NEW l \in Line, Promise!WellFormed(l), l.mnemonic = "LA"
  PROVE  Kept(l, IType(l.mnemonic, l.operands))
<1> DEFINE m   == l.mnemonic
           o   == l.operands
           e   == IType(m, o)
           imm == Bits(o[2].num, Immed)
           lui == IWord(Op["LUI"], 0, o[1].reg, imm)
           ori == IWord(Op["ORI"], o[1].reg, o[1].reg, imm)
<1>1. /\ o \in Seq(Operand) /\ Len(o) = Len(Promise!Signature[m]) /\ DOMAIN o = 1 .. Len(o)
      /\ \A k \in 1 .. Len(o) : o[k] \in Operand /\ Promise!Suits(o[k], Promise!Signature[m][k])
  BY WellFormedStrip DEF Promise!WellFormed
<1>2. /\ Promise!Signature[m] = <<"rt", "imm">> /\ Promise!Signature["LUI"] = <<"rt", "imm">>
      /\ Promise!Signature["ORI"] = <<"rt", "rs", "imm">>
  BY SignatureOfNumbers DEF ByImmediate
<1>3. /\ Len(o) = 2 /\ 2 \in DOMAIN o /\ DOMAIN o = 1 .. 2
      /\ Promise!Roles("LUI") = {"rt", "imm"} /\ Promise!Roles("ORI") = {"rt", "rs", "imm"}
  BY <1>1, <1>2, SMT DEF Promise!Roles
<1>4. /\ o[1].kind = "reg" /\ o[1].reg # Unknown /\ o[1].reg \in Five
      /\ o[2].kind = "num" /\ o[2].num \in Number
  BY <1>1, <1>2, <1>3, SuitsRole, OperandNumber, SMT
<1>5. imm \in Nat /\ imm < RtAt /\ imm = Value(o[2].num) % RtAt
  BY <1>4, BitsOfNumbers
<1>6. ~Promise!Barred(l)
  BY <1>4, BarredFirst, FormsApart
  DEF Promise!Barred, RegisterForm, ByImmediate, LoadForm, ImmediateForm
<1>7. Promise!Acceptable(l) => FitsSplit(o[2], Immed)
  BY <1>1, <1>2, <1>3, <1>4, NumberTaken, SMT DEF FitsSplit
<1>8. e = IF FitsSplit(o[2], Immed)
            THEN IF LongLa(o[2].num) THEN <<lui, ori>> ELSE <<lui>> ELSE N
  BY <1>3, <1>4, ITypeCases, SMT DEF Known, LaWords
<1>9. Promise!Denotes("LUI", o, lui)
  <2>1. 0 \in Five /\ "LUI" \in ImmediateForm \ {"LA"}
    BY SMT DEF Five, ImmediateForm
  <2>2. IFields("LUI", o, 0, o[1].reg, imm)
    BY <1>2, <1>3, <1>5, SMT DEF IFields
  <2> QED
    BY <1>4, <1>5, <2>1, <2>2, IWordDenotes
<1>10. Promise!Denotes("ORI", <<o[1], o[1], o[2]>>, ori)
  <2>1. "ORI" \in ImmediateForm \ {"LA"}
    BY DEF ImmediateForm
  <2>2. IFields("ORI", <<o[1], o[1], o[2]>>, o[1].reg, o[1].reg, imm)
    BY <1>2, <1>3, <1>5, SMT DEF IFields
  <2> QED
    BY <1>4, <1>5, <2>1, <2>2, IWordDenotes
<1> HIDE DEF lui, ori, imm
<1>11. /\ <<lui>> # N /\ Len(<<lui>>) = 1 /\ <<lui>>[1] = lui
       /\ <<lui, ori>> # N /\ <<lui, ori>>[1] = lui /\ <<lui, ori>>[2] = ori
  BY SMT DEF N
<1>12. e # N => Promise!DenotesLine(l, e)
  BY <1>8, <1>9, <1>10, <1>11 DEF Promise!DenotesLine
<1> QED
  BY <1>6, <1>7, <1>8, <1>11, <1>12 DEF Kept

LEMMA JTypeKept ==
  ASSUME NEW l \in Line, Promise!WellFormed(l), l.mnemonic \in JumpForm
  PROVE  Kept(l, JType(l.mnemonic, l.operands))
<1> DEFINE m == l.mnemonic
           o == l.operands
           target == Bits(o[1].num, Target)
<1>1. /\ o \in Seq(Operand) /\ Len(o) = Len(Promise!Signature[m]) /\ DOMAIN o = 1 .. Len(o)
      /\ \A k \in 1 .. Len(o) : o[k] \in Operand /\ Promise!Suits(o[k], Promise!Signature[m][k])
  BY WellFormedStrip DEF Promise!WellFormed
<1>2. Promise!Signature[m] = <<"target">>
  BY SignatureOfNumbers
<1>3. Len(o) = 1 /\ DOMAIN o = {1} /\ Promise!Roles(m) = {"target"}
  BY <1>1, <1>2, SMT DEF Promise!Roles
<1>4. o[1].kind = "num" /\ o[1].num \in Number
  BY <1>1, <1>2, <1>3, SuitsRole, OperandNumber, SMT
<1>5. target \in 0 .. LowSize - 1 /\ target = Value(o[1].num) % LowSize
  BY <1>4, BitsOfNumbers
<1>6. m \notin RegisterForm /\ m \notin ImmediateForm /\ m # "LA" /\ m # "JALR"
  BY FormsApart DEF RegisterForm, ImmediateForm
<1>7. ~Promise!Barred(l)
  <2>1. m \notin Promise!Guarded
    BY <1>6, SameTerms DEF Promise!Guarded, ImmediateForm
  <2> QED
    BY <1>6, <2>1 DEF Promise!Barred
<1>8. PICK w : w = JWord(Op[m], target)
  OBVIOUS
<1>9. w \in BinaryWord /\ w.opcode = Op[m] /\ TargetOf(w) = target
  BY <1>5, <1>8, OpTyped, JWordFields
<1>10. Promise!Denotes(m, o, w)
  <2>1. Promise!Holds(w, "target", o[1])
    BY <1>5, <1>9, HoldsByRole
  <2>2. \A k \in DOMAIN o : Promise!Holds(w, Promise!Signature[m][k], o[k])
    BY <1>2, <1>3, <2>1
  <2> QED
    BY <1>3, <1>6, <1>9, <2>2, SameTerms, SameCodes DEF Promise!Denotes
<1>11. JType(m, o) = IF ~Promise!Barred(l) /\ Fits(o[1], Target) THEN <<w>> ELSE N
  BY <1>3, <1>7, <1>8 DEF JType
<1>12. Promise!Acceptable(l) => Fits(o[1], Target)
  <2>1. Promise!Acceptable(l) => Promise!PlainlyFits(o[1].num, "target")
    BY <1>2, <1>3 DEF Promise!Acceptable, Promise!RegisterRoles
  <2> QED
    BY <1>4, <2>1, PlainlyFitsIsTaken DEF Fits
<1>13. Fits(o[1], Target) \in BOOLEAN
  BY DEF Fits, AnyBaseToBinary
<1> QED
  BY <1>6, <1>10, <1>11, <1>12, <1>13, OneWordKept

LEMMA TrapKept ==
  ASSUME NEW l \in Line, Promise!WellFormed(l), l.mnemonic = "SYSCALL"
  PROVE  Kept(l, Trap)
<1>1. /\ l.operands \in Seq(Operand) /\ Len(l.operands) = 0 /\ DOMAIN l.operands = {}
      /\ Promise!Roles("SYSCALL") = {}
  BY WellFormedStrip, SignatureOfNumbers, SMT DEF Promise!WellFormed, Promise!Roles
<1>2. PICK w : w = JWord(63, 0)
  OBVIOUS
<1>3. w.opcode = 63 /\ w.low = 0
  BY <1>2 DEF JWord
<1>4. w \in BinaryWord
  <2>1. 63 \in Six
    BY SMT DEF Six
  <2>2. 0 \in 0 .. LowSize - 1
    BY Places, SMT
  <2> QED
    BY <1>2, <2>1, <2>2, JWordFields
<1>5. RsOf(w) = 0 /\ RtOf(w) = 0
  <2>1. 0 \div RsAt = 0 /\ 0 \div RtAt = 0
    BY Places, SMT
  <2> QED
    BY <1>3, <2>1, SMT DEF RsOf, RtOf
<1>6. "SYSCALL" \notin RegisterForm
  BY DEF RegisterForm
<1>7. Promise!Denotes("SYSCALL", l.operands, w)
  BY <1>1, <1>3, <1>4, <1>5, <1>6, SameTerms, SameCodes DEF Promise!Denotes
<1>8. ~Promise!Barred(l)
  BY <1>6, SameTerms DEF Promise!Barred, Promise!Guarded
<1>9. Trap = IF ~Promise!Barred(l) /\ TRUE THEN <<w>> ELSE N
  BY <1>2, <1>8 DEF Trap
<1> QED
  BY <1>7, <1>9, OneWordKept

(* No address of a well-formed line is without its register. *)
LEMMA BaseNotMissing ==
  ASSUME NEW l \in Line, Promise!WellFormed(l)
  PROVE  ~MissingBase(l.mnemonic, l.operands) /\ ~MissingLink(l.mnemonic, l.operands)
<1> DEFINE m == l.mnemonic
           o == l.operands
<1>1. /\ o \in Seq(Operand) /\ Len(o) = Len(Promise!Signature[m]) /\ DOMAIN o = 1 .. Len(o)
      /\ \A k \in 1 .. Len(o) : o[k] \in Operand /\ Promise!Suits(o[k], Promise!Signature[m][k])
  BY WellFormedStrip DEF Promise!WellFormed
<1>2. ASSUME m \in LoadForm \cup StoreForm, Len(o) = 2
      PROVE  o[2].kind = "mem"
  <2>1. Promise!Signature[m] = <<"rt", "mem">>
    BY <1>2, SignatureOfNumbers
  <2> QED
    BY <1>1, <1>2, <2>1, SuitsRole, SMT
<1>3. ASSUME m = "JALR" PROVE Len(o) = 2
  <2>1. Promise!Signature[m] = <<"rs", "rd">>
    BY <1>3, SignatureOfRegisters
  <2> QED
    BY <1>1, <2>1, SMT
<1> QED
  BY <1>2, <1>3 DEF MissingBase, MissingLink, Fits

(* Whatever a well-formed line is turned into is right, and it is turned   *)
(* into nothing only for a cause.                                          *)
LEMMA LineKept ==
  ASSUME NEW l \in Line, Promise!WellFormed(l), NEW e \in Encodings(l)
  PROVE  Kept(l, e)
<1>1. StripWhiteSpaces(l.operands) = l.operands
  BY WellFormedStrip
<1>2. l.mnemonic \in RegisterForm \cup ImmediateForm \cup JumpForm \cup {"SYSCALL"}
  BY SignatureDomain DEF Promise!WellFormed, Mnemonic
<1>3. CASE l.mnemonic \in RegisterForm
  BY <1>1, <1>3, EncodingsCases, RTypeKept
<1>4. CASE l.mnemonic \in ImmediateForm
  <2>1. e = IType(l.mnemonic, l.operands)
    BY <1>1, <1>4, EncodingsCases, BaseNotMissing
  <2> QED
    BY <1>4, <2>1, ITypeKept, LaKept
<1>5. CASE l.mnemonic \in JumpForm
  BY <1>1, <1>5, EncodingsCases, JTypeKept
<1>6. CASE l.mnemonic = "SYSCALL"
  <2>1. l.mnemonic \notin RegisterForm \cup ImmediateForm \cup JumpForm
    BY <1>6 DEF RegisterForm, ImmediateForm, JumpForm
  <2> QED
    BY <1>6, <2>1, EncodingsCases, TrapKept
<1> QED
  BY <1>2, <1>3, <1>4, <1>5, <1>6

LEMMA UndefinedIsNotWellFormed ==
  ASSUME NEW l \in Line, Undefined(l)
  PROVE  ~Promise!WellFormed(l)
<1> SUFFICES ASSUME Promise!WellFormed(l) PROVE FALSE
  OBVIOUS
<1>1. /\ StripWhiteSpaces(l.operands) = l.operands
      /\ \A k \in DOMAIN l.operands : l.operands[k].spaces = 1
  BY WellFormedStrip DEF Promise!WellFormed, Promise!Suits
<1>2. \A k \in DOMAIN l.operands : l.operands[k].spaces # 0
  BY <1>1, SMT
<1> QED
  BY <1>1, <1>2, BaseNotMissing DEF Undefined

(***************************************************************************)
(*                          The refinement                                 *)
(***************************************************************************)
LEMMA InitRefines == Init => Promise!Init
<1> SUFFICES ASSUME Init PROVE Promise!Init
  OBVIOUS
<1>1. instructions \in Seq(Line)
  BY TextsAreLines
<1> QED
  BY <1>1, SameTerms DEF Init, Promise!Init

(* Where the call is to an observer. *)
OutcomeOf(s, r) == CASE s = "running" -> "working"
                     [] s = "crash" -> "crashed"
                     [] s = "returned" /\ r = -1 -> "done"
                     [] OTHER -> "refused"
Outcome == OutcomeOf(status, result)

LEMMA OutcomeValues ==
  ASSUME NEW s, NEW r
  PROVE  /\ s = "running" => OutcomeOf(s, r) = "working"
         /\ s = "crash" => OutcomeOf(s, r) = "crashed"
         /\ s = "returned" /\ r = -1 => OutcomeOf(s, r) = "done"
         /\ s = "returned" /\ r # -1 => OutcomeOf(s, r) = "refused"
<1>1. CASE s = "running"
  BY <1>1, Zenon DEF OutcomeOf
<1>2. CASE s = "crash"
  BY <1>2, Zenon DEF OutcomeOf
<1>3. CASE s = "returned" /\ r = -1
  BY <1>3, Zenon DEF OutcomeOf
<1>4. CASE s = "returned" /\ r # -1
  BY <1>4, Zenon DEF OutcomeOf
<1> QED
  BY <1>1, <1>2, <1>3, <1>4

(* What is pushed for a line is what a line may add. *)
LEMMA PushTakes ==
  ASSUME IInv, status = "running", step = "append", encoded_instruction # N, Push
  PROVE  Promise!Take
<1> DEFINE n == Len(encoded_instruction)
           ws == [k \in 1 .. n |-> encoded_instructions'[Len(encoded_instructions) + k]]
<1>1. /\ i < Len(instructions) /\ CurrentLine \in Line
      /\ encoded_instruction \in Encodings(CurrentLine)
  BY CurrentIsLine DEF IInv, Handover
<1>2. /\ encoded_instruction \in Seq(BinaryWord) /\ n \in 1 .. 2
      /\ encoded_instructions \in Seq(BinaryWord)
  BY <1>1, EncodingIsWords DEF IInv, TypeOK
<1>3. /\ encoded_instructions' \in Seq(BinaryWord)
      /\ Len(encoded_instructions') = Len(encoded_instructions) + n
      /\ \A k \in 1 .. Len(encoded_instructions) :
           encoded_instructions'[k] = encoded_instructions[k]
      /\ \A k \in 1 .. n :
           encoded_instructions'[Len(encoded_instructions) + k] = encoded_instruction[k]
  BY <1>2, SMT DEF Push
<1>4. ws = encoded_instruction
  BY <1>2, <1>3, SMT
<1>5. Promise!Grows(n)
  BY <1>3, SameTerms DEF Promise!Grows
<1>6. Promise!WellFormed(CurrentLine) =>
        ~Promise!Barred(CurrentLine) /\ Promise!DenotesLine(CurrentLine, ws)
  BY <1>1, <1>4, LineKept DEF Kept
<1>7. Outcome = "working" /\ Outcome' = Outcome
  BY OutcomeValues DEF Push, Outcome
<1>8. Promise!Working /\ Promise!ThisLine = CurrentLine
  BY <1>1, <1>7 DEF Promise!Working, Promise!ThisLine, CurrentLine, Outcome, OutcomeOf
<1> HIDE DEF n
<1> QED
  BY <1>2, <1>5, <1>6, <1>7, <1>8 DEF Promise!Take, Push, Outcome, OutcomeOf

LEMMA ReturnRefuses ==
  ASSUME IInv, status = "running", i < Len(instructions), Return(i),
         ~Promise!Acceptable(CurrentLine)
  PROVE  Promise!Refuse
<1>1. i # -1
  BY SMT DEF IInv, TypeOK
<1>2. Outcome = "working" /\ Outcome' = "refused"
  <2>1. status' = "returned" /\ result' # -1
    BY <1>1 DEF Return
  <2> QED
    BY <2>1, OutcomeValues DEF Outcome
<1>3. Promise!Working /\ Promise!ThisLine = CurrentLine
  BY <1>2 DEF Promise!Working, Promise!ThisLine, CurrentLine, Outcome, OutcomeOf
<1> QED
  BY <1>2, <1>3 DEF Promise!Refuse, Return, Outcome, OutcomeOf

LEMMA StepRefines == IInv /\ [Next]_asm_vars => [Promise!Next]_(Promise!one_vars)
<1> SUFFICES ASSUME IInv, [Next]_asm_vars PROVE [Promise!Next]_(Promise!one_vars)
  OBVIOUS
<1> USE DEF Promise!Next
<1>1. CASE UnknownMnemonic
  <2>1. ~Promise!Acceptable(CurrentLine)
    BY <1>1, SignatureDomain DEF UnknownMnemonic, Promise!Acceptable, Promise!WellFormed
  <2> QED
    BY <1>1, <2>1, ReturnRefuses DEF UnknownMnemonic, AtLine
<1>2. CASE Encode
  BY <1>2 DEF Encode, Promise!one_vars
<1>3. CASE EncodeCrash
  <2>1. i < Len(instructions) /\ status = "running" /\ status' = "crash"
    BY <1>3 DEF EncodeCrash, AtLine, Crash
  <2>2. ~Promise!WellFormed(CurrentLine)
    BY <1>3, <2>1, CurrentIsLine, UndefinedIsNotWellFormed DEF EncodeCrash, IInv
  <2>3. Outcome = "working" /\ Outcome' = "crashed"
    BY <2>1, OutcomeValues DEF Outcome
  <2>4. Promise!Working /\ Promise!ThisLine = CurrentLine
    BY <2>1, <2>3 DEF Promise!Working, Promise!ThisLine, CurrentLine, Outcome, OutcomeOf
  <2>5. Promise!Crash
    BY <1>3, <2>2, <2>3, <2>4 DEF Promise!Crash, EncodeCrash, Crash, Outcome, OutcomeOf
  <2> QED
    BY <2>5
<1>4. CASE AppendLa
  <2>1. encoded_instruction # N
    BY <1>4 DEF AppendLa, Appending, IInv, Handover
  <2>2. Promise!Take
    BY <1>4, <2>1, PushTakes DEF AppendLa, Appending
  <2> QED
    BY <2>2
<1>5. CASE AppendOne
  <2>1. Promise!Take
    BY <1>5, PushTakes DEF AppendOne, Appending
  <2> QED
    BY <2>1
<1>6. CASE Refuse
  <2>1. /\ i < Len(instructions) /\ CurrentLine \in Line
        /\ encoded_instruction \in Encodings(CurrentLine) /\ encoded_instruction = N
    BY <1>6, CurrentIsLine DEF Refuse, Appending, IInv, Handover
  <2>2. ~Promise!Acceptable(CurrentLine)
    BY <2>1, LineKept DEF Kept, Promise!Acceptable
  <2>3. Promise!Refuse
    BY <1>6, <2>1, <2>2, ReturnRefuses DEF Refuse, Appending
  <2> QED
    BY <2>3
<1>7. CASE Finish
  <2>1. status = "running" /\ status' = "returned" /\ result' = -1
    BY <1>7 DEF Finish, Return
  <2>2. Outcome = "working" /\ Outcome' = "done"
    BY <2>1, OutcomeValues DEF Outcome
  <2>3. Promise!Done
    BY <1>7, <2>1, <2>2 DEF Promise!Done, Finish, Return, Outcome, OutcomeOf, IInv, Handover
  <2> QED
    BY <2>3
<1>8. CASE UNCHANGED asm_vars
  BY <1>8 DEF asm_vars, Promise!one_vars
<1> QED
  BY <1>1, <1>2, <1>3, <1>4, <1>5, <1>6, <1>7, <1>8 DEF Next

(* encodeInstructions keeps the promise, for every text: the fields the    *)
(* engines cut out of the words of a well-formed line are its operands, a  *)
(* line is refused for a cause and under its number only, and no line ends *)
(* the process that is well-formed.                                        *)
THEOREM PromiseKept == Spec => KeepsPromise
<1>1. Spec => []IInv
  BY InitHolds, StepKeeps, PTL DEF Spec
<1> QED
  BY <1>1, InitRefines, StepRefines, PTL DEF Spec, KeepsPromise, Promise!Spec

(***************************************************************************)
(*                          Words and lines                                *)
(***************************************************************************)
Widens(l) == l.mnemonic = "LA" /\ Value(l.operands[2].num) % Immed > 31
Wider(k)  == {j \in 1 .. k : Widens(instructions[j])}

LEMMA WiderCounted ==
  ASSUME NEW k \in Nat
  PROVE  /\ Cardinality(Wider(k)) \in Nat
         /\ Cardinality(Wider(k + 1)) =
              Cardinality(Wider(k)) + (IF Widens(instructions[k + 1]) THEN 1 ELSE 0)
<1>1. IsFiniteSet(Wider(k))
  <2>1. IsFiniteSet(1 .. k)
    BY FS_Interval
  <2> QED
    BY <2>1, FS_Subset DEF Wider
<1>2. 1 .. k + 1 = (1 .. k) \cup {k + 1} /\ k + 1 \notin 1 .. k
  BY SMT
<1>3. Cardinality(Wider(k)) \in Nat
  BY <1>1, FS_CardinalityType
<1>4. CASE Widens(instructions[k + 1])
  <2>1. Wider(k + 1) = Wider(k) \cup {k + 1} /\ k + 1 \notin Wider(k)
    BY <1>2, <1>4 DEF Wider
  <2> QED
    BY <1>1, <1>3, <1>4, <2>1, FS_AddElement
<1>5. CASE ~Widens(instructions[k + 1])
  <2>1. Wider(k + 1) = Wider(k)
    BY <1>2, <1>5 DEF Wider
  <2> QED
    BY <1>3, <1>5, <2>1, SMT
<1> QED
  BY <1>3, <1>4, <1>5

(* How many words a well-formed line is turned into. *)
LEMMA WordsOfLine ==
  ASSUME NEW l \in Line, Promise!WellFormed(l), NEW e \in Encodings(l), e # N
  PROVE  Len(e) = IF Widens(l) THEN 2 ELSE 1
<1>1. CASE l.mnemonic # "LA"
  <2>1. \E w \in BinaryWord : e = <<w>>
    BY <1>1, EncodingsTyped
  <2> QED
    BY <1>1, <2>1, SMT DEF Widens
<1>2. CASE l.mnemonic = "LA"
  <2> DEFINE n == l.operands[2].num
             lui == IWord(Op["LUI"], 0, l.operands[1].reg, Bits(n, Immed))
             ori == IWord(Op["ORI"], l.operands[1].reg, l.operands[1].reg, Bits(n, Immed))
  <2>1. e = IType(l.mnemonic, l.operands) /\ l.mnemonic \in ImmediateForm
    BY <1>2, WellFormedStrip, EncodingsCases, BaseNotMissing DEF ImmediateForm
  <2>2. e = IF LongLa(n) THEN <<lui, ori>> ELSE <<lui>>
    BY <1>2, <2>1, ITypeCases DEF LaWords
  <2> HIDE DEF lui, ori
  <2>3. Len(e) = IF LongLa(n) THEN 2 ELSE 1
    BY <2>2, SMT
  <2> HIDE DEF n
  <2>4. n \in Number
    <3>1. l.operands \in Seq(Operand) /\ 2 \in 1 .. Len(l.operands)
      <4>1. Promise!Signature[l.mnemonic] = <<"rt", "imm">>
        BY <1>2, SignatureOfNumbers
      <4>2. l.operands \in Seq(Operand)
        BY WellFormedStrip
      <4>3. Len(l.operands) = Len(Promise!Signature[l.mnemonic])
        BY DEF Promise!WellFormed
      <4> QED
        BY <4>1, <4>2, <4>3, SMT
    <3> QED
      BY <3>1, OperandNumber DEF n
  <2>5. LongLa(n) <=> Value(n) % Immed > 31
    <3>1. Bits(n, Immed) \in Nat /\ Bits(n, Immed) = Value(n) % Immed
      BY <2>4, BitsOfNumbers DEF Immed
    <3> QED
      BY <3>1, SMT DEF LongLa
  <2> QED
    BY <1>2, <2>3, <2>5 DEF Widens, n
<1> QED
  BY <1>1, <1>2

LEMMA CountInit == Init => LinesCounted
<1> SUFFICES ASSUME Init PROVE LinesCounted
  OBVIOUS
<1>1. {k \in 1 .. i : Widens(instructions[k])} = {}
  BY SMT DEF Init
<1>2. Len(encoded_instructions) = 0 /\ i = 0
  BY SMT DEF Init
<1> QED
  BY <1>1, <1>2, FS_EmptySet, SMT DEF LinesCounted, Widens

LEMMA CountStep == IInv /\ LinesCounted /\ [Next]_asm_vars => LinesCounted'
<1> SUFFICES ASSUME IInv, LinesCounted, [Next]_asm_vars PROVE LinesCounted'
  OBVIOUS
<1>1. CASE UNCHANGED <<instructions, i, encoded_instructions>>
  BY <1>1 DEF LinesCounted
<1>2. ASSUME status = "running", step = "append", encoded_instruction # N, Push
      PROVE  LinesCounted'
  <2>1. i \in Nat /\ i < Len(instructions) /\ i' = i + 1 /\ instructions' = instructions
    BY <1>2, SMT DEF IInv, TypeOK, Handover, Push
  <2> SUFFICES ASSUME \A k \in 1 .. i' : Promise!WellFormed(instructions[k])
               PROVE  Len(encoded_instructions') = i' + Cardinality(Wider(i'))
    BY <2>1 DEF LinesCounted, Wider, Widens
  <2>2. CurrentLine \in Line /\ encoded_instruction \in Encodings(CurrentLine)
    BY <1>2, <2>1, CurrentIsLine DEF IInv, Handover
  <2>3. Promise!WellFormed(CurrentLine)
    BY <2>1, SMT DEF CurrentLine
  <2>4. Len(encoded_instructions) = i + Cardinality(Wider(i))
    BY <2>1, SMT DEF LinesCounted, Wider, Widens
  <2>5. Len(encoded_instructions') = Len(encoded_instructions) + Len(encoded_instruction)
    BY <1>2, SMT DEF Push, IInv, TypeOK
  <2>6. Len(encoded_instruction) = IF Widens(instructions[i + 1]) THEN 2 ELSE 1
    BY <1>2, <2>2, <2>3, WordsOfLine DEF CurrentLine
  <2>7. /\ Cardinality(Wider(i)) \in Nat
        /\ Cardinality(Wider(i + 1)) =
             Cardinality(Wider(i)) + (IF Widens(instructions[i + 1]) THEN 1 ELSE 0)
    BY <2>1, WiderCounted
  <2> QED
    BY <2>1, <2>4, <2>5, <2>6, <2>7, SMT
<1>3. CASE AppendLa
  <2>1. encoded_instruction # N
    BY <1>3 DEF AppendLa, Appending, IInv, Handover
  <2> QED
    BY <1>2, <1>3, <2>1 DEF AppendLa, Appending
<1>4. CASE AppendOne
  BY <1>2, <1>4 DEF AppendOne, Appending
<1> QED
  BY <1>1, <1>3, <1>4
  DEF Next, UnknownMnemonic, Encode, EncodeCrash, Refuse, Finish, Return, Crash, asm_vars

(* However many la lie before a line, its word is where the lines before   *)
(* it and the ori that some of them needed put it.                         *)
THEOREM CountKept == Spec => []LinesCounted
<1>1. Init => IInv /\ LinesCounted
  BY InitHolds, CountInit
<1>2. IInv /\ LinesCounted /\ [Next]_asm_vars => (IInv /\ LinesCounted)'
  BY StepKeeps, CountStep
<1> QED
  BY <1>1, <1>2, PTL DEF Spec

(***************************************************************************)
(*               The search for a number's first significant bit           *)
(***************************************************************************)
(* find() comes to the highest bit that is what it looks for. *)
LEMMA FirstPlace ==
  ASSUME NEW p, NEW c, NEW b \in 0 .. 25, BitOf(p, b) = c,
         \A d \in 0 .. 25 : d > b => BitOf(p, d) # c
  PROVE  Find(p, c) = 25 - b
<1> DEFINE places == {k \in 0 .. 25 : BitOf(p, 25 - k) = c}
<1>1. 25 - b \in places
  <2>1. 25 - b \in 0 .. 25 /\ 25 - (25 - b) = b
    BY SMT
  <2> QED
    BY <2>1
<1>2. \A g \in places : g \in Int /\ 25 - b <= g
  <2>1. ASSUME NEW g \in places PROVE g \in Int /\ 25 - b <= g
    <3>1. g \in 0 .. 25 /\ 25 - g \in 0 .. 25 /\ BitOf(p, 25 - g) = c
      BY SMT
    <3>2. ~(25 - g > b)
      BY <3>1
    <3> QED
      BY <3>1, <3>2, SMT
  <2> QED
    BY <2>1
<1>3. \A f \in places : (\A g \in places : f <= g) => f = 25 - b
  BY <1>1, <1>2, SMT
<1> HIDE DEF places
<1>4. \E f \in places : \A g \in places : f <= g
  BY <1>1, <1>2
<1>5. (CHOOSE f \in places : \A g \in places : f <= g) = 25 - b
  BY <1>3, <1>4
<1>6. Find(p, c) = IF places = {} THEN -1 ELSE CHOOSE f \in places : \A g \in places : f <= g
  BY DEF Find, places
<1> QED
  BY <1>1, <1>5, <1>6

(* find() returns npos when there is no such bit. *)
LEMMA NoPlace ==
  ASSUME NEW p, NEW c, \A d \in 0 .. 25 : BitOf(p, d) # c
  PROVE  Find(p, c) = -1
<1>1. \A k \in 0 .. 25 : 25 - k \in 0 .. 25
  BY SMT
<1>2. {k \in 0 .. 25 : BitOf(p, 25 - k) = c} = {}
  BY <1>1
<1> QED
  BY <1>2 DEF Find

(* The highest 1 of a number tells between which powers of two it lies, *)
LEMMA HighestOne ==
  ASSUME NEW p \in Nat, p >= 1, p < LowSize
  PROVE  \E b \in 0 .. 25 :
           /\ PlaceValue[b + 1] <= p /\ p < PlaceValue[b + 2]
           /\ BitOf(p, b) = 1 /\ \A d \in 0 .. 25 : d > b => BitOf(p, d) # 1
<1>1. PICK b \in 0 .. 25 : PlaceValue[b + 1] <= p /\ p < PlaceValue[b + 2]
  BY SMT DEF PlaceValue, LowSize
<1>2. BitOf(p, b) = 1
  BY <1>1, SMT DEF PlaceValue, BitOf
<1>3. \A d \in 0 .. 25 : d > b => BitOf(p, d) = 0
  BY <1>1, SMT DEF PlaceValue, BitOf
<1> QED
  BY <1>1, <1>2, <1>3

(* and the highest 0 tells it of the complement. *)
LEMMA HighestZero ==
  ASSUME NEW p \in Nat, p < LowSize - 1
  PROVE  \E b \in 0 .. 25 :
           /\ PlaceValue[b + 1] <= (LowSize - 1) - p /\ (LowSize - 1) - p < PlaceValue[b + 2]
           /\ BitOf(p, b) = 0 /\ \A d \in 0 .. 25 : d > b => BitOf(p, d) # 0
<1>1. PICK b \in 0 .. 25 : LowSize - PlaceValue[b + 2] <= p /\ p < LowSize - PlaceValue[b + 1]
  BY SMT DEF PlaceValue, LowSize
<1>2. BitOf(p, b) = 0 /\ \A d \in 0 .. 25 : d > b => BitOf(p, d) = 1
  BY <1>1, SMT DEF PlaceValue, LowSize, BitOf
<1>3. PlaceValue[b + 1] \in Nat /\ PlaceValue[b + 2] \in Nat /\ LowSize \in Nat
  BY SMT DEF PlaceValue, LowSize
<1>4. PlaceValue[b + 1] <= (LowSize - 1) - p /\ (LowSize - 1) - p < PlaceValue[b + 2]
  BY <1>1, <1>3, SMT
<1> QED
  BY <1>2, <1>4

(* Of neither bit there is one in zero and in minus one. *)
LEMMA AllAlike == \A b \in 0 .. 25 : BitOf(0, b) # 1 /\ BitOf(LowSize - 1, b) # 0
<1>1. \A b \in 0 .. 25 : BitOf(0, b) = 0 /\ BitOf(LowSize - 1, b) = 1
  BY SMT DEF PlaceValue, LowSize, BitOf
<1> QED
  BY <1>1

(* The widths of the fields, and how they compare with a number's. *)
Widths == {<<5, Shamt>>, <<16, Immed>>, <<26, Target>>}

LEMMA WidthsCompare ==
  ASSUME NEW b \in 0 .. 25, NEW p \in Nat, PlaceValue[b + 1] <= p, p < PlaceValue[b + 2],
         p < LowSize
  PROVE  \A f \in Widths : /\ b + 1 <= f[1] <=> p < f[2]
                           /\ b <= f[1] <=> p < 2 * f[2]
<1>1. b + 1 <= 5 <=> p < 32
  BY SMT DEF PlaceValue
<1>2. b + 1 <= 16 <=> p < 65536
  BY SMT DEF PlaceValue
<1>3. b + 1 <= 26 <=> p < 67108864
  BY SMT DEF LowSize
<1>4. b <= 5 <=> p < 64
  BY SMT DEF PlaceValue
<1>5. b <= 16 <=> p < 131072
  BY SMT DEF PlaceValue
<1>6. b <= 26 <=> p < 134217728
  BY SMT DEF LowSize
<1> QED
  BY <1>1, <1>2, <1>3, <1>4, <1>5, <1>6, SMT DEF Widths, Shamt, Immed, Target, RtAt, LowSize

(* Counting the bits of a number decides what comparing it decides. *)
LEMMA ComparedIsSearched ==
  ASSUME NEW n \in Number, NEW f \in Widths
  PROVE  AnyBaseToBinary(n, f[2]) <=>
           IsInt(n) /\ ~MinusZero(n) /\ (ImmSize(n) <= f[1] \/ Zero(n))
<1> DEFINE p == Pattern(n)
           q == (LowSize - 1) - p
<1>1. p \in Nat /\ p < LowSize /\ q \in Nat /\ q < LowSize
  <2>1. Value(n) \in Int /\ LowSize \in Nat /\ LowSize > 0
    BY ValueIsInt, Places
  <2>2. Value(n) % LowSize \in Nat /\ Value(n) % LowSize < LowSize
    BY <2>1, SMT
  <2> QED
    BY <2>1, <2>2, SMT DEF Pattern
<1>2. f[1] \in {5, 16, 26} /\ f[2] \in Nat /\ f[2] > 0
      /\ (f[1] >= 26 <=> f[2] = LowSize)
  BY SMT DEF Widths, Shamt, Immed, Target, RtAt, LowSize
<1>3. n.neg \in BOOLEAN
  BY SMT DEF Number
<1> HIDE DEF p
<1>4. CASE ~n.neg
  <2>1. ImmSize(n) = 26 - Find(p, 1)
    <3>1. ImmSize(n) = 26 - (Find(p, 1) + 0)
      BY <1>4 DEF ImmSize, p
    <3>2. Find(p, 1) \in Int
      <4>1. CASE p = 0
        BY <4>1, AllAlike, NoPlace, SMT
      <4>2. CASE p >= 1
        <5>1. PICK b \in 0 .. 25 : BitOf(p, b) = 1 /\ \A d \in 0 .. 25 : d > b => BitOf(p, d) # 1
          BY <1>1, <4>2, HighestOne
        <5>2. Find(p, 1) = 25 - b
          BY <5>1, FirstPlace
        <5> QED
          BY <5>2, SMT
      <4> QED
        BY <1>1, <4>1, <4>2, SMT
    <3> QED
      BY <3>1, <3>2, SMT
  <2>2. ImmSize(n) <= f[1] <=> p \in 1 .. f[2] - 1
    <3>1. CASE p = 0
      <4>1. Find(p, 1) = -1
        BY <3>1, AllAlike, NoPlace
      <4> QED
        BY <1>2, <2>1, <3>1, <4>1, SMT
    <3>2. CASE p >= 1
      <4>1. PICK b \in 0 .. 25 :
              /\ PlaceValue[b + 1] <= p /\ p < PlaceValue[b + 2]
              /\ BitOf(p, b) = 1 /\ \A d \in 0 .. 25 : d > b => BitOf(p, d) # 1
        BY <1>1, <3>2, HighestOne
      <4>2. Find(p, 1) = 25 - b
        BY <4>1, FirstPlace
      <4>3. b + 1 <= f[1] <=> p < f[2]
        BY <1>1, <4>1, WidthsCompare
      <4> QED
        BY <1>1, <1>2, <2>1, <3>2, <4>2, <4>3, SMT
    <3> QED
      BY <1>1, <3>1, <3>2, SMT
  <2> QED
    BY <1>4, <2>2 DEF AnyBaseToBinary, p
<1>5. CASE n.neg
  <2>1. ImmSize(n) = 26 - (Find(p, 0) + 1)
    BY <1>5 DEF ImmSize, p
  <2>2. ImmSize(n) <= f[1] <=> q \in 1 .. 2 * f[2] - 1 \/ (p = LowSize - 1 /\ f[2] = LowSize)
    <3>1. CASE p = LowSize - 1
      <4>1. Find(p, 0) = -1
        BY <3>1, AllAlike, NoPlace
      <4>2. ImmSize(n) = 26 /\ q = 0
        BY <1>1, <2>1, <3>1, <4>1, SMT
      <4>3. ~(q \in 1 .. 2 * f[2] - 1)
        BY <1>2, <4>2, SMT
      <4>4. 26 <= f[1] <=> f[2] = LowSize
        BY <1>2, SMT
      <4> QED
        BY <3>1, <4>2, <4>3, <4>4
    <3>2. CASE p < LowSize - 1
      <4>1. PICK b \in 0 .. 25 :
              /\ PlaceValue[b + 1] <= q /\ q < PlaceValue[b + 2]
              /\ BitOf(p, b) = 0 /\ \A d \in 0 .. 25 : d > b => BitOf(p, d) # 0
        BY <1>1, <3>2, HighestZero
      <4>2. Find(p, 0) = 25 - b
        BY <4>1, FirstPlace
      <4>3. b <= f[1] <=> q < 2 * f[2]
        BY <1>1, <4>1, WidthsCompare
      <4>4. q >= 1 /\ p # LowSize - 1
        BY <1>1, <3>2, Places, SMT
      <4> QED
        BY <1>1, <1>2, <2>1, <4>2, <4>3, <4>4, SMT
    <3> QED
      BY <1>1, <3>1, <3>2, Places, SMT
  <2>3. ~Zero(n)
    BY <1>5 DEF Zero
  <2> QED
    BY <1>5, <2>2, <2>3 DEF AnyBaseToBinary, p
<1> QED
  BY <1>3, <1>4, <1>5

(* What is taken for a field is what the search through the 26 bits finds  *)
(* small enough, whatever number any line of any text holds.               *)
THEOREM SearchAgrees == Spec => []TakenByItsBits
<1>1. IInv => TakenByItsBits
  <2> SUFFICES ASSUME IInv, AtLine, NEW k \in DOMAIN CurrentLine.operands
               PROVE  LET n == CurrentLine.operands[k].num
                          Searched(bits) ==
                            IsInt(n) /\ ~MinusZero(n) /\ (ImmSize(n) <= bits \/ Zero(n))
                      IN /\ AnyBaseToBinary(n, Shamt)  <=> Searched(5)
                         /\ AnyBaseToBinary(n, Immed)  <=> Searched(16)
                         /\ AnyBaseToBinary(n, Target) <=> Searched(26)
    BY DEF TakenByItsBits
  <2>1. CurrentLine.operands \in Seq(Operand)
    BY CurrentIsLine DEF IInv, AtLine, Line
  <2>2. CurrentLine.operands[k].num \in Number
    BY <2>1, OperandNumber
  <2>3. \A f \in Widths : AnyBaseToBinary(CurrentLine.operands[k].num, f[2]) <=>
          IsInt(CurrentLine.operands[k].num) /\ ~MinusZero(CurrentLine.operands[k].num)
            /\ (ImmSize(CurrentLine.operands[k].num) <= f[1] \/ Zero(CurrentLine.operands[k].num))
    BY <2>2, ComparedIsSearched
  <2>4. /\ <<5, Shamt>> \in Widths /\ <<16, Immed>> \in Widths /\ <<26, Target>> \in Widths
        /\ <<5, Shamt>>[1] = 5 /\ <<5, Shamt>>[2] = Shamt
        /\ <<16, Immed>>[1] = 16 /\ <<16, Immed>>[2] = Immed
        /\ <<26, Target>>[1] = 26 /\ <<26, Target>>[2] = Target
    BY DEF Widths
  <2> QED
    BY <2>3, <2>4
<1> QED
  BY <1>1, InitHolds, StepKeeps, PTL DEF Spec

(***************************************************************************)
(*                     Words that leave $zero alone                        *)
(***************************************************************************)
(* an R-type, but jalr, and an immediate whose register is another one *)
RdWord(w) == w.opcode = 0 /\ FnOf(w) # 9 /\ RdOf(w) # 0
RtWord(w) == w.opcode \in {8, 12, 13, 14, 15, 57} /\ RtOf(w) # 0
ByRd == ThreeRegisters \cup {"SLL", "SRL", "MFHI", "MFLO"}

LEMMA ByRdCases ==
  ASSUME NEW m \in ByRd, NEW o, RType(m, o) # N
  PROVE  /\ Len(o) \in 1 .. 3 /\ ValidStoreReg(o[1])
         /\ \/ /\ m \in {"SLL", "SRL"} /\ Len(o) = 3 /\ Known(o, 1 .. 2)
               /\ RType(m, o) = <<RWord(0, o[2].reg, o[1].reg, Bits(o[3].num, Shamt), Op[m])>>
            \/ /\ m \in {"MFLO", "MFHI"} /\ Len(o) = 1 /\ Known(o, {1})
               /\ RType(m, o) = <<RWord(0, 0, o[1].reg, 0, Op[m])>>
            \/ /\ m \in ThreeRegisters /\ Len(o) = 3 /\ Known(o, 1 .. 3)
               /\ RType(m, o) = <<RWord(o[2].reg, o[3].reg, o[1].reg, 0, Op[m])>>
<1> USE DEF ThreeRegisters, ByRd
<1>1. Len(o) \in 1 .. 3 /\ ValidStoreReg(o[1])
  BY Zenon DEF RType
<1>2. CASE m \in {"SLL", "SRL"}
  BY <1>1, <1>2, Zenon DEF RType
<1>3. CASE m \in {"MFLO", "MFHI"}
  BY <1>1, <1>3, Zenon DEF RType
<1>4. CASE m \in ThreeRegisters
  BY <1>1, <1>4, Zenon DEF RType
<1> QED
  BY <1>1, <1>2, <1>3, <1>4

(* The destination of a line by rd is asked for by validStoreReg. *)
LEMMA RdWords ==
  ASSUME NEW l \in Line, l.mnemonic \in ByRd, NEW e \in Encodings(l), e # N
  PROVE  \E w : e = <<w>> /\ RdWord(w)
<1> DEFINE m == l.mnemonic
           o == StripWhiteSpaces(l.operands)
<1>1. o \in Seq(Operand)
  BY StripTyped DEF Line
<1>2. m \in RegisterForm /\ Op[m] \in Six /\ Op[m] # 9
  BY DEF ByRd, ThreeRegisters, RegisterForm, Op, Six
<1>3. e = RType(m, o)
  BY <1>2, EncodingsCases
<1> HIDE DEF m, o
<1>4. \A k \in 1 .. Len(o) : o[k].reg # Unknown => o[k].reg \in Five
  BY <1>1, KnownRegister
<1>5. 1 \in 1 .. Len(o) /\ o[1].reg \in Five \ {0}
  <2>1. 1 \in 1 .. Len(o) /\ ValidStoreReg(o[1]) /\ Known(o, {1})
    BY <1>1, <1>3, ByRdCases DEF m, Known
  <2> QED
    BY <1>4, <2>1 DEF Known, ValidStoreReg
<1>6. ASSUME NEW rs \in Five, NEW rt \in Five, NEW shamt \in Five
      PROVE  RdWord(RWord(rs, rt, o[1].reg, shamt, Op[m]))
  <2> DEFINE w == RWord(rs, rt, o[1].reg, shamt, Op[m])
  <2> HIDE DEF w
  <2>1. \A rd, fn : rd \in Five /\ fn \in Six =>
          LET v == RWord(rs, rt, rd, shamt, fn)
          IN v.opcode = 0 /\ RdOf(v) = rd /\ FnOf(v) = fn
    BY RWordFields
  <2>2. w.opcode = 0 /\ RdOf(w) = o[1].reg /\ FnOf(w) = Op[m]
    BY <1>2, <1>5, <2>1 DEF w
  <2>3. RdWord(w)
    BY <1>2, <1>5, <2>2 DEF RdWord
  <2> QED
    BY <2>3 DEF w
<1>7. 0 \in Five
  BY DEF Five
<1>8. CASE m \in {"SLL", "SRL"} /\ Len(o) = 3 /\ Known(o, 1 .. 2)
            /\ e = <<RWord(0, o[2].reg, o[1].reg, Bits(o[3].num, Shamt), Op[m])>>
  <2>1. o[2].reg \in Five
    BY <1>4, <1>8 DEF Known
  <2>2. 3 \in 1 .. Len(o)
    BY <1>8, SMT
  <2>3. Bits(o[3].num, Shamt) \in Five
    BY <1>1, <2>2, BitsOfNumbers, OperandNumber
  <2> QED
    BY <1>6, <1>7, <1>8, <2>1, <2>3
<1>9. CASE e = <<RWord(0, 0, o[1].reg, 0, Op[m])>>
  BY <1>6, <1>7, <1>9
<1>10. CASE m \in ThreeRegisters /\ Len(o) = 3 /\ Known(o, 1 .. 3)
            /\ e = <<RWord(o[2].reg, o[3].reg, o[1].reg, 0, Op[m])>>
  <2>1. o[2].reg \in Five /\ o[3].reg \in Five
    BY <1>4, <1>10 DEF Known
  <2> QED
    BY <1>6, <1>7, <1>10, <2>1
<1> QED
  BY <1>3, <1>8, <1>9, <1>10, ByRdCases DEF m

(* Stripping leaves a register what it is, or unknown. *)
LEMMA StrippedRegister ==
  ASSUME NEW x \in Operand PROVE Stripped(x).reg \in {x.reg, Unknown}
<1>1. [x EXCEPT !.num = Doubled(@)].reg = x.reg /\ [x EXCEPT !.reg = Unknown].reg = Unknown
  BY SMT DEF Operand
<1> QED
  BY <1>1 DEF Stripped

(* The destination of a line by rt is asked for, or is not $zero. *)
LEMMA RtWords ==
  ASSUME NEW l \in Line, NEW e \in Encodings(l), e # N,
         \/ l.mnemonic \in ByImmediate
         \/ /\ l.mnemonic \in {"LUI", "LI", "LA"}
            /\ l.operands # <<>> => l.operands[1].reg # 0
  PROVE  \/ \E w : e = <<w>> /\ RtWord(w)
         \/ \E v, w : e = <<v, w>> /\ RtWord(v) /\ RtWord(w)
<1> DEFINE m == l.mnemonic
           o == StripWhiteSpaces(l.operands)
<1>1. /\ o \in Seq(Operand) /\ l.operands \in Seq(Operand) /\ Len(o) = Len(l.operands)
      /\ \A k \in 1 .. Len(o) : o[k] = Stripped(l.operands[k])
  BY StripTyped DEF Line
<1>2. m \in ImmediateForm /\ m \notin LoadForm \cup StoreForm
  BY DEF ByImmediate, ImmediateForm, LoadForm, StoreForm
<1>3. e = IType(m, o)
  <2>1. ~MissingBase(m, o)
    BY <1>2 DEF MissingBase
  <2> QED
    BY <1>2, <2>1, EncodingsCases
<1>4. \A k \in 1 .. Len(o) : o[k].reg # Unknown => o[k].reg \in Five
  BY <1>1, KnownRegister
<1>5. \A k \in 1 .. Len(o) : Bits(o[k].num, Immed) \in Nat /\ Bits(o[k].num, Immed) < RtAt
  BY <1>1, BitsOfNumbers, OperandNumber
<1>6. ASSUME Len(o) >= 1, m \in {"LUI", "LI", "LA"} PROVE o[1].reg # 0
  <2>1. 1 \in 1 .. Len(o) /\ l.operands # <<>>
    BY <1>1, <1>6
  <2>2. l.operands[1].reg # 0 /\ l.operands[1] \in Operand
    BY <1>1, <1>6, <2>1 DEF ByImmediate
  <2>3. o[1].reg \in {l.operands[1].reg, Unknown}
    BY <1>1, <2>1, <2>2, StrippedRegister
  <2> QED
    BY <2>2, <2>3 DEF Unknown
<1> HIDE DEF m, o
<1>7. ASSUME NEW op \in {8, 12, 13, 14, 15, 57}, NEW rs \in Five, NEW rt \in Five \ {0},
             NEW k \in 1 .. Len(o)
      PROVE  RtWord(IWord(op, rs, rt, Bits(o[k].num, Immed)))
  <2> DEFINE w == IWord(op, rs, rt, Bits(o[k].num, Immed))
  <2> HIDE DEF w
  <2>1. op \in Six
    BY DEF Six
  <2>2. w.opcode = op /\ RtOf(w) = rt
    BY <1>5, <2>1, IWordFields DEF w
  <2>3. RtWord(w)
    BY <2>2 DEF RtWord
  <2> QED
    BY <2>3 DEF w
<1>8. CASE m \in ByImmediate
  <2>1. Len(o) = 3 /\ ValidStoreReg(o[1]) /\ Known(o, 1 .. 2)
        /\ e = <<IWord(Op[m], o[2].reg, o[1].reg, Bits(o[3].num, Immed))>>
    BY <1>3, <1>8, ITypeCases
  <2>2. o[1].reg \in Five \ {0} /\ o[2].reg \in Five /\ 3 \in 1 .. Len(o)
    BY <1>4, <2>1 DEF Known, ValidStoreReg
  <2>3. /\ Op["ADDI"] = 8 /\ Op["ANDI"] = 12 /\ Op["ORI"] = 13 /\ Op["XORI"] = 14
    BY DEF Op
  <2>4. Op[m] \in {8, 12, 13, 14, 15, 57}
    BY <1>8, <2>3 DEF ByImmediate
  <2>5. RtWord(IWord(Op[m], o[2].reg, o[1].reg, Bits(o[3].num, Immed)))
    BY <1>7, <2>2, <2>4
  <2> QED
    BY <2>1, <2>5
<1>9. CASE m \in {"LUI", "LI", "LA"}
  <2>1. Len(o) = 2 /\ Known(o, {1})
    BY <1>3, <1>9, ITypeCases
  <2>2. o[1].reg \in Five \ {0} /\ 2 \in 1 .. Len(o) /\ 0 \in Five
    BY <1>4, <1>6, <1>9, <2>1 DEF Known, Five
  <2>3. Op["LUI"] = 15 /\ Op["LI"] = 57 /\ Op["ORI"] = 13
    BY DEF Op
  <2>4. CASE m \in {"LUI", "LI"}
    <3>1. e = <<IWord(Op[m], 0, o[1].reg, Bits(o[2].num, Immed))>>
      BY <1>3, <2>4, ITypeCases
    <3>2. Op[m] \in {8, 12, 13, 14, 15, 57}
      BY <2>3, <2>4
    <3> QED
      BY <1>7, <2>2, <3>1, <3>2
  <2>5. CASE m = "LA"
    <3>1. e = LaWords(o[1].reg, o[2].num)
      BY <1>3, <2>5, ITypeCases
    <3>2. /\ RtWord(IWord(Op["LUI"], 0, o[1].reg, Bits(o[2].num, Immed)))
          /\ RtWord(IWord(Op["ORI"], o[1].reg, o[1].reg, Bits(o[2].num, Immed)))
      BY <1>7, <2>2, <2>3
    <3> QED
      BY <3>1, <3>2 DEF LaWords
  <2> QED
    BY <1>9, <2>4, <2>5
<1> QED
  BY <1>8, <1>9 DEF m

LEMMA TrapWord ==
  ASSUME NEW l, l.mnemonic = "SYSCALL", NEW e \in Encodings(l)
  PROVE  \E w : e = <<w>> /\ w.opcode = 63
<1>1. l.mnemonic \notin RegisterForm \cup ImmediateForm \cup JumpForm
  BY DEF RegisterForm, ImmediateForm, JumpForm
<1>2. e = Trap
  BY <1>1, EncodingsCases
<1> QED
  BY <1>2 DEF Trap, JWord
==============================================================================
