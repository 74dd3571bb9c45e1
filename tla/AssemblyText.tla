---------------------------- MODULE AssemblyText -----------------------------
(***************************************************************************)
(* The texts class Assembler is given: lines of a mnemonic and operands.   *)
(* A mnemonic is spelled like the enumerator it stands for; an operand     *)
(* keeps the number of spaces before it, because the code depends on it.   *)
(* An empty operand is left out.                                           *)
(***************************************************************************)
EXTENDS Integers, Sequences

(***************************************************************************)
(* A register is the number register_encode_map gives its name, or Unknown *)
(* for a word that is not in the map.  An operand "mem" is a number and a  *)
(* register in parentheses.  A number is written with a sign or without,   *)
(* and plainly (base 10) or with a prefix: 0x, 0b or a leading 0.          *)
(***************************************************************************)
Unknown == 32
Name    == 0 .. Unknown
Number  == [neg : BOOLEAN, base : {2, 8, 10, 16}, mag : Nat]
Operand == [kind : {"reg", "num", "mem"}, reg : Name, num : Number, spaces : 0 .. 2]
Line    == [mnemonic : STRING, operands : Seq(Operand)]

(* the number a reader of the text sees *)
Value(n) == IF n.neg THEN -n.mag ELSE n.mag
==============================================================================
