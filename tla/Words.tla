-------------------------------- MODULE Words --------------------------------
(***************************************************************************)
(* The machine words of the virtual CPU: uint32_t values and the           *)
(* operations of the host on them.  The width is a parameter: the code has *)
(* ImmBits = 16 and UpperShift = 16 (a 32-bit word, a 16-bit immediate,    *)
(* LUI shifting by 16), the runs use a narrower word of the same shape.    *)
(* A word is always a number in 0 .. WordSize - 1; int32_t fields hold the *)
(* same bits, and Signed gives their value where the code compares one.    *)
(***************************************************************************)
EXTENDS Integers

CONSTANTS
  ImmBits,        \* bits of the immediate field
  UpperShift,     \* bits LUI shifts by; a word has ImmBits + UpperShift bits
  BitAnd(_, _),   \* the host's & on two words
  BitOr(_, _),    \* the host's | on two words
  BitXor(_, _)    \* the host's ^ on two words

WordBits == ImmBits + UpperShift
Pow2(k)  == 2^k
WordSize == Pow2(WordBits)
Word     == 0 .. WordSize - 1
Imm      == 0 .. Pow2(ImmBits) - 1
SignBit  == Pow2(WordBits - 1)

(***************************************************************************)
(* Powers of two are positive naturals and a word can number the 32        *)
(* registers; the host's bit operations stay within a word.                *)
(***************************************************************************)
ASSUME WidthAssumption ==
  /\ ImmBits \in Nat \ {0}
  /\ UpperShift \in Nat \ {0}
  /\ \A k \in 0 .. WordBits : Pow2(k) \in Nat \ {0}
  /\ WordSize > 31
ASSUME BitAssumption ==
  \A x, y \in Word : /\ BitAnd(x, y) \in Word
                     /\ BitOr(x, y) \in Word
                     /\ BitXor(x, y) \in Word

Wrap(n)   == n % WordSize                  \* conversion to uint32_t
Signed(x) == IF x < SignBit THEN x ELSE x - WordSize
MinusOne  == WordSize - 1

Add(x, y)  == Wrap(x + y)
Sub(x, y)  == Wrap(x - y)
Mult(x, y) == Wrap(x * y)
BitNot(x)  == MinusOne - x

(* utils::sign_extend: the immediate field as a word *)
SignExtend(i) == IF i < Pow2(ImmBits - 1) THEN Wrap(i) ELSE Wrap(i - Pow2(ImmBits))

(***************************************************************************)
(* The host shifts by the low bits of the amount only (x86-64 and AArch64  *)
(* both take a 32-bit shift amount modulo 32).                             *)
(***************************************************************************)
ShiftLeft(x, n)  == Wrap(x * Pow2(n % WordBits))
ShiftRight(x, n) == Wrap(x \div Pow2(n % WordBits))

(* C++ division of int32_t by two: towards zero *)
Half(x) == Wrap(IF Signed(x) >= 0 THEN x \div 2 ELSE -((WordSize - x) \div 2))
==============================================================================
