-------------------------------- MODULE Flags --------------------------------
(***************************************************************************)
(* The status flags.  setFlags only ever raises a flag, and nothing calls  *)
(* resetFlags: every flag is sticky.                                       *)
(***************************************************************************)
EXTENDS Words

FlagSet == [zero : BOOLEAN, negative : BOOLEAN, overflow : BOOLEAN,
            carry : BOOLEAN, exception : BOOLEAN, ltz : BOOLEAN, gtz : BOOLEAN]

NoFlags == [zero |-> FALSE, negative |-> FALSE, overflow |-> FALSE,
            carry |-> FALSE, exception |-> FALSE, ltz |-> FALSE, gtz |-> FALSE]

Negative(x) == x >= SignBit                 \* x & 0x80000000

(* utils::checkIntOverflow: the operands agree in sign, the result does not *)
CheckIntOverflow(r1, r2, r3) ==
  /\ Negative(r2) <=> Negative(r3)
  /\ ~(Negative(r1) <=> Negative(r2))

(* Flags::setFlags; ltz tests an unsigned value for being below zero *)
SetFlags(f, r1, r2, r3) ==
  [f EXCEPT !.zero     = @ \/ r1 = 0,
            !.overflow = @ \/ CheckIntOverflow(r1, r2, r3),
            !.negative = @ \/ Negative(r1),
            !.carry    = @ \/ r1 < r2,
            !.ltz      = @ \/ r1 < 0,
            !.gtz      = @ \/ r1 > 0]

SetExceptionFlag(f) == [f EXCEPT !.exception = TRUE]
==============================================================================
