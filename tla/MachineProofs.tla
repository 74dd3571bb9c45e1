---------------------------- MODULE MachineProofs ----------------------------
(***************************************************************************)
(* What both engines are built from stays within its types: words, system  *)
(* calls and flags, for every word width, memory size, decoding and        *)
(* console.                                                                *)
(***************************************************************************)
EXTENDS Syscalls, Flags, WellFoundedInduction, TLAPS

(* Keeping an integer to the width of an int gives a word. *)
LEMMA WrapInWord == ASSUME NEW n \in Int PROVE Wrap(n) \in Word
<1>1. WordSize \in Nat \ {0}
  BY WidthAssumption DEF WordSize, WordBits
<1>2. \A m \in Nat \ {0} : n % m \in 0 .. m - 1
  OBVIOUS
<1> QED BY <1>1, <1>2 DEF Wrap, Word

(* The words are integers and hold the register numbers, 0 and -1. *)
LEMMA WordFacts ==
  /\ WordSize \in Nat /\ WordSize > 31
  /\ Word \subseteq Int
  /\ Reg \subseteq Word
  /\ 0 \in Word
  /\ MinusOne \in Word
BY WidthAssumption DEF WordSize, WordBits, Word, Reg, MinusOne

(* A shift masks its count to the width, so its factor is a positive number. *)
LEMMA Pow2Int ==
  ASSUME NEW n \in Int PROVE Pow2(n % WordBits) \in Nat \ {0}
<1>1. WordBits \in Nat \ {0}
  BY WidthAssumption DEF WordBits
<1>2. \A m \in Nat \ {0} : n % m \in 0 .. m - 1
  OBVIOUS
<1>3. n % WordBits \in 0 .. WordBits
  BY <1>1, <1>2
<1> QED BY <1>3, WidthAssumption

(* The ALU arithmetic of words wraps to a word. *)
LEMMA ArithmeticInWord ==
  ASSUME NEW x \in Word, NEW y \in Word
  PROVE  /\ Add(x, y) \in Word /\ Sub(x, y) \in Word /\ Mult(x, y) \in Word
         /\ BitNot(x) \in Word
<1>1. x \in Int /\ y \in Int
  BY WordFacts
<1>2. x + y \in Int /\ x - y \in Int /\ x * y \in Int
  BY <1>1
<1>3. BitNot(x) \in Word
  BY WordFacts DEF BitNot, MinusOne, Word
<1> QED BY <1>2, <1>3, WrapInWord DEF Add, Sub, Mult

(* The next program counter is a word. *)
LEMMA StepInWord == ASSUME NEW x \in Word PROVE Add(x, 1) \in Word
<1>1. 1 \in Word
  BY WordFacts DEF Word
<1> QED BY <1>1, ArithmeticInWord

(* A shift of a word by any count is a word. *)
LEMMA ShiftsInWord ==
  ASSUME NEW x \in Word, NEW n \in Int
  PROVE  ShiftLeft(x, n) \in Word /\ ShiftRight(x, n) \in Word
<1>1. PICK p \in Nat \ {0} : p = Pow2(n % WordBits)
  BY Pow2Int
<1>2. x * p \in Int /\ x \div p \in Int
  BY <1>1, WordFacts
<1> QED BY <1>1, <1>2, WrapInWord DEF ShiftLeft, ShiftRight

(* The half that MULT leaves in its destination is a word. *)
LEMMA HalfInWord == ASSUME NEW x \in Word PROVE Half(x) \in Word
<1>1. x \in Int /\ WordSize \in Int
  BY WordFacts
<1>2. x \div 2 \in Int /\ (WordSize - x) \div 2 \in Int
  BY <1>1
<1>3. -((WordSize - x) \div 2) \in Int
  BY <1>2
<1> QED BY <1>2, <1>3, WrapInWord DEF Half

(* A sign-extended immediate is a word. *)
LEMMA SignExtendInWord == ASSUME NEW i \in Imm PROVE SignExtend(i) \in Word
<1>1. Pow2(ImmBits) \in Nat
  BY WidthAssumption DEF WordBits
<1>2. i \in Int /\ i - Pow2(ImmBits) \in Int
  BY <1>1 DEF Imm
<1> QED BY <1>2, WrapInWord DEF SignExtend

(* The target of a jump is a word. *)
LEMMA JumpOffsetInWord ==
  ASSUME NEW base \in Word, NEW target \in Word PROVE JumpOffset(base, target) \in Word
<1>1. base \in Int /\ target \in Int /\ Region \in Nat \ {0}
  BY WordFacts, RegionAssumption
<1>2. base \div Region \in Int
  BY <1>1
<1>3. (base \div Region) * Region + target \in Int
  BY <1>1, <1>2
<1> QED BY <1>3, WrapInWord DEF JumpOffset

(* The results both engines compute are words. *)
LEMMA ResultsInWord ==
  ASSUME NEW a \in Word, NEW b \in Word, NEW n \in 0 .. 63
  PROVE  /\ \A fn \in Computed : RegisterResult(fn, a, b, n) \in Word
         /\ \A op \in AluImm : ImmediateResult(op, a, b) \in Word
<1>1. /\ Add(a, b) \in Word /\ Sub(a, b) \in Word /\ Mult(a, b) \in Word
      /\ BitAnd(a, b) \in Word /\ BitOr(a, b) \in Word /\ BitXor(a, b) \in Word
  BY ArithmeticInWord, BitAssumption
<1>2. BitNot(BitOr(a, b)) \in Word
  BY <1>1, ArithmeticInWord
<1>3. ShiftLeft(b, n) \in Word /\ ShiftRight(b, n) \in Word
  BY ShiftsInWord
<1>4. ShiftLeft(b, UpperShift) \in Word
  BY ShiftsInWord, WidthAssumption
<1>5. \A fn \in Computed : RegisterResult(fn, a, b, n) \in Word
  BY <1>1, <1>2, <1>3 DEF Computed, Functions, RegisterResult
<1>6. \A op \in AluImm : ImmediateResult(op, a, b) \in Word
  BY <1>1, <1>4 DEF AluImm, ImmediateResult
<1> QED BY <1>5, <1>6

(***************************************************************************)
(* System calls                                                            *)
(***************************************************************************)
LEMMA AddressFacts ==
  /\ Address \subseteq Nat
  /\ Address \subseteq Word
  /\ GlobalData \in Nat
BY MemoryAssumption, WordFacts DEF Address, Word

(* The scan for an empty cell stops at one, the lowest, if there is any. *)
LEMMA FirstEmptyIsEmpty ==
  ASSUME NEW mem, EmptyCells(mem) # {}
  PROVE  FirstEmpty(mem) \in EmptyCells(mem)
<1> DEFINE E == EmptyCells(mem)
<1>1. E \subseteq Nat
  BY AddressFacts DEF EmptyCells
<1>2. PICK x \in E : \A y \in E : <<y, x>> \notin OpToRel(<, Nat)
  BY <1>1, WFMin, NatLessThanWellFounded
<1>3. \A y \in E : x <= y
  <2> SUFFICES ASSUME NEW y \in E, y < x PROVE FALSE
    BY <1>1
  <2>1. <<y, x>> \in OpToRel(<, Nat)
    BY <1>1 DEF OpToRel
  <2> QED BY <1>2, <2>1
<1> QED BY <1>3 DEF FirstEmpty

(* The character read_string takes from a line is a word. *)
LEMMA LineCharInWord ==
  ASSUME NEW line \in Lines, NEW i \in Nat PROVE CharAt(line, i) \in Word
<1>1. line \in Seq(Word \ {0})
  BY ConsoleAssumption
<1> QED BY <1>1, WordFacts DEF CharAt

(* READ_STRING leaves words in the registers and in memory. *)
LEMMA ReadStringTyped ==
  ASSUME NEW c \in Outcomes, NEW line \in Lines PROVE ReadString(c, line) \in Outcomes
<1> DEFINE base == FirstEmpty(c.memory)
           last == LastRound(line)
           cells == StringCells(line)
<1>1. CASE EmptyCells(c.memory) = {} \/ ~InMemory(base + StringEnd(line))
  BY <1>1 DEF ReadString, Faulted, Outcomes, Status
<1>2. CASE EmptyCells(c.memory) # {} /\ InMemory(base + StringEnd(line))
  <2>1. base \in Address
    BY <1>2, FirstEmptyIsEmpty DEF EmptyCells
  <2>2. last \in Nat
    <3>1. Len(line) \in Nat
      BY ConsoleAssumption
    <3> QED BY <3>1 DEF LastRound
  <2>3. \A k \in cells : CellChar(line, k) \in Word
    <3>1. \A k \in cells : k \in Nat
      BY <2>2 DEF StringCells
    <3> QED BY <2>2, <3>1, LineCharInWord DEF CellChar
  <2> DEFINE written(a) == {k \in cells : a = base + StringCell(k)}
             mem == [a \in Address |->
                       IF a = base + StringEnd(line) THEN 0
                       ELSE IF written(a) # {}
                              THEN CellChar(line, CHOOSE k \in written(a) : TRUE)
                              ELSE c.memory[a]]
  <2>4. mem \in Memory
    <3> SUFFICES ASSUME NEW a \in Address PROVE mem[a] \in Word
      BY DEF Memory
    <3>1. CASE a = base + StringEnd(line)
      BY <3>1, WordFacts
    <3>2. CASE a # base + StringEnd(line) /\ written(a) # {}
      <4>1. (CHOOSE k \in written(a) : TRUE) \in cells
        BY <3>2
      <4> QED BY <3>2, <4>1, <2>3
    <3>3. CASE a # base + StringEnd(line) /\ written(a) = {}
      BY <3>3 DEF Outcomes, Memory
    <3> QED BY <3>1, <3>2, <3>3
  <2>5. ReadString(c, line) = [c EXCEPT !.registers[A0] = base, !.memory = mem]
    BY <1>2 DEF ReadString
  <2>6. base \in Word
    BY <2>1, AddressFacts
  <2> QED BY <2>4, <2>5, <2>6 DEF Outcomes, Registers
<1> QED BY <1>1, <1>2

(* A call that stores a word in $v0 leaves words in the registers. *)
LEMMA ReturnTyped ==
  ASSUME NEW c \in Outcomes, NEW v \in Word PROVE Return(c, v) \in Outcomes
BY DEF Return, Outcomes, Registers

(* OPEN_FILE leaves words in the registers and a descriptor of the host. *)
LEMMA OpenFileTyped == ASSUME NEW c \in Outcomes PROVE OpenFile(c) \subseteq Outcomes
<1>1. Faulted(c) \in Outcomes
  BY DEF Faulted, Outcomes, Status
<1>2. Return(c, MinusOne) \in Outcomes
  BY ReturnTyped, WordFacts
<1>3. \A d \in Descriptors : [Return(c, Wrap(d)) EXCEPT !.files = @ \cup {d}] \in Outcomes
  <2> SUFFICES ASSUME NEW d \in Descriptors
               PROVE  [Return(c, Wrap(d)) EXCEPT !.files = @ \cup {d}] \in Outcomes
    OBVIOUS
  <2>1. Wrap(d) \in Word
    BY WrapInWord, ConsoleAssumption
  <2>2. Return(c, Wrap(d)) \in Outcomes
    BY <2>1, ReturnTyped
  <2> QED BY <2>2 DEF Outcomes
<1> QED BY <1>1, <1>2, <1>3 DEF OpenFile

(* READ_FILE leaves words in the registers and in memory. *)
LEMMA ReadFileTyped == ASSUME NEW c \in Outcomes PROVE ReadFile(c) \subseteq Outcomes
<1>1. Faulted(c) \in Outcomes
  BY DEF Faulted, Outcomes, Status
<1>2. Return(c, MinusOne) \in Outcomes
  BY ReturnTyped, WordFacts
<1> DEFINE read == [c EXCEPT !.registers[V0] = 0, !.registers[A2] = 0,
                             !.registers[T0] = FirstEmpty(c.memory) - GlobalData]
<1>3. ASSUME EmptyCells(c.memory) # {} PROVE read \in Outcomes
  <2>1. FirstEmpty(c.memory) \in Address /\ FirstEmpty(c.memory) >= GlobalData
    BY <1>3, FirstEmptyIsEmpty DEF EmptyCells
  <2>2. FirstEmpty(c.memory) - GlobalData \in Word
    <3>1. \A n \in Word : n >= GlobalData => n - GlobalData \in Word
      BY AddressFacts, WordFacts DEF Word
    <3>2. FirstEmpty(c.memory) \in Word
      BY <2>1, AddressFacts
    <3> QED BY <2>1, <3>1, <3>2
  <2> QED BY <2>2, WordFacts DEF Outcomes, Registers
<1> QED BY <1>1, <1>2, <1>3 DEF ReadFile

(* WRITE_FILE leaves words in the registers. *)
LEMMA WriteFileTyped == ASSUME NEW c \in Outcomes PROVE WriteFile(c) \subseteq Outcomes
<1>1. Faulted(c) \in Outcomes
  BY DEF Faulted, Outcomes, Status
<1>2. Return(c, MinusOne) \in Outcomes
  BY ReturnTyped, WordFacts
<1> QED BY <1>1, <1>2 DEF WriteFile

(* Whatever the console and the host answer, a system call leaves registers *)
(* and memory of words, and descriptors of the host's.                      *)
LEMMA CallTyped == ASSUME NEW c \in Outcomes PROVE Call(c) \subseteq Outcomes
<1> DEFINE v == c.registers[V0]
<1>1. Faulted(c) \in Outcomes
  BY DEF Faulted, Outcomes, Status
<1>2. \A i \in Inputs : Return(c, i) \in Outcomes
  BY ReturnTyped, ConsoleAssumption
<1>3. \A line \in Lines : ReadString(c, line) \in Outcomes
  BY ReadStringTyped
<1>4. [c EXCEPT !.status = "halted"] \in Outcomes
  BY DEF Outcomes, Status
<1>5. c.registers[A0] \in Word
  BY DEF Outcomes, Registers, Reg, A0
<1>6. Return(c, c.registers[A0]) \in Outcomes
  BY <1>5, ReturnTyped
<1>7. OpenFile(c) \cup ReadFile(c) \cup WriteFile(c) \subseteq Outcomes
  BY OpenFileTyped, ReadFileTyped, WriteFileTyped
<1> QED BY <1>1, <1>2, <1>3, <1>4, <1>6, <1>7 DEF Call

(* Of the system calls READ_STRING alone writes into memory. *)
LEMMA CallsSpare ==
  ASSUME NEW c \in Outcomes, Lines = {} \/ c.registers[V0] # READ_STRING, NEW d \in Call(c)
  PROVE  d.memory = c.memory
<1>1. d \in {c, Faulted(c), [c EXCEPT !.status = "halted"]} \cup {Return(c, v) : v \in Word}
           \cup OpenFile(c) \cup ReadFile(c) \cup WriteFile(c)
  <2>1. c.registers[A0] \in Word
    BY DEF Outcomes, Registers, Reg, A0
  <2> QED BY <2>1, ConsoleAssumption DEF Call
<1>2. CASE d \in OpenFile(c) \cup ReadFile(c) \cup WriteFile(c)
  BY <1>2 DEF OpenFile, ReadFile, WriteFile, Return, Faulted, Outcomes
<1>3. CASE d \in {c, Faulted(c), [c EXCEPT !.status = "halted"]} \cup {Return(c, v) : v \in Word}
  BY <1>3 DEF Return, Faulted, Outcomes
<1> QED BY <1>1, <1>2, <1>3

(* No system call writes $zero. *)
LEMMA CallSparesZero ==
  ASSUME NEW c \in Outcomes, NEW d \in Call(c) PROVE d.registers[0] = c.registers[0]
<1>1. /\ 0 \in Reg /\ {V0, A0, A2, T0} \subseteq Reg \ {0}
      /\ c.registers \in [Reg -> Word] /\ c.registers[A0] \in Word
  BY DEF Outcomes, Registers, Reg, V0, A0, A2, T0
<1>2. \/ d \in {c, Faulted(c), [c EXCEPT !.status = "halted"]} \cup {Return(c, v) : v \in Word}
      \/ d \in OpenFile(c) \cup ReadFile(c) \cup WriteFile(c)
      \/ \E line \in Lines : d = ReadString(c, line)
  BY <1>1, ConsoleAssumption DEF Call
<1>3. CASE d \in {c, Faulted(c), [c EXCEPT !.status = "halted"]} \cup {Return(c, v) : v \in Word}
  BY <1>1, <1>3 DEF Return, Faulted, Outcomes
<1>4. CASE d \in OpenFile(c) \cup ReadFile(c) \cup WriteFile(c)
  <2>1. \A v : Return(c, v).registers[0] = c.registers[0]
    BY <1>1 DEF Return, Outcomes
  <2>2. ASSUME d \in OpenFile(c) PROVE d.registers[0] = c.registers[0]
    <3>1. \A v : \A e : [Return(c, v) EXCEPT !.files = e].registers[0] = c.registers[0]
      BY <1>1 DEF Return, Outcomes
    <3>2. Faulted(c).registers[0] = c.registers[0]
      BY DEF Faulted, Outcomes
    <3>3. CASE d = Faulted(c)
      BY <3>2, <3>3
    <3>4. CASE d = Return(c, MinusOne)
      BY <2>1, <3>4
    <3>5. CASE \E f \in Descriptors : d = [Return(c, Wrap(f)) EXCEPT !.files = @ \cup {f}]
      BY <3>1, <3>5
    <3> QED BY <2>2, <3>3, <3>4, <3>5 DEF OpenFile
  <2>3. ASSUME d \in ReadFile(c) PROVE d.registers[0] = c.registers[0]
    <3>1. \A v : [c EXCEPT !.registers[V0] = 0, !.registers[A2] = 0,
                          !.registers[T0] = v].registers[0] = c.registers[0]
      BY <1>1 DEF Outcomes
    <3> QED BY <2>1, <2>3, <3>1 DEF ReadFile, Faulted, Outcomes
  <2>4. ASSUME d \in WriteFile(c) PROVE d.registers[0] = c.registers[0]
    BY <2>1, <2>4 DEF WriteFile, Faulted, Outcomes
  <2> QED BY <1>4, <2>2, <2>3, <2>4
<1>5. CASE \E line \in Lines : d = ReadString(c, line)
  BY <1>1, <1>5 DEF ReadString, Faulted, Outcomes
<1> QED BY <1>2, <1>3, <1>4, <1>5

(* The empty instruction shifts zero, which leaves zero. *)
LEMMA ShiftOfZero == ASSUME NEW n \in Int PROVE ShiftLeft(0, n) = 0
<1>1. PICK p \in Nat \ {0} : p = Pow2(n % WordBits)
  BY Pow2Int
<1>2. 0 * p = 0
  BY <1>1
<1>3. \A m \in Nat \ {0} : 0 % m = 0
  OBVIOUS
<1>4. Wrap(0) = 0
  BY <1>3, WordFacts DEF Wrap
<1> QED BY <1>1, <1>2, <1>4 DEF ShiftLeft

(***************************************************************************)
(* Flags                                                                   *)
(***************************************************************************)
LEMMA FlagsTyped ==
  ASSUME NEW f \in FlagSet, NEW a, NEW b, NEW c PROVE SetFlags(f, a, b, c) \in FlagSet
<1> DEFINE z == f.zero \/ a = 0
           o == f.overflow \/ CheckIntOverflow(a, b, c)
           n == f.negative \/ Negative(a)
           k == f.carry \/ a < b
           l == f.ltz \/ a < 0
           g == f.gtz \/ a > 0
<1>1. /\ z \in BOOLEAN /\ o \in BOOLEAN /\ n \in BOOLEAN /\ k \in BOOLEAN
      /\ l \in BOOLEAN /\ g \in BOOLEAN
  OBVIOUS
<1>2. SetFlags(f, a, b, c) =
        [f EXCEPT !.zero = z, !.overflow = o, !.negative = n, !.carry = k, !.ltz = l, !.gtz = g]
  BY DEF SetFlags
<1> HIDE DEF z, o, n, k, l, g
<1> QED BY <1>1, <1>2 DEF FlagSet
==============================================================================
