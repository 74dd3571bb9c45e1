----------------------------- MODULE ControlUnit -----------------------------
(***************************************************************************)
(* class ControlUnit: the control signals setControlSignals derives from   *)
(* an instruction, and how they travel.  decode() sets them, copies them   *)
(* into EX/MEM (forward_control_signals) and clears them in the same call, *)
(* so the control unit itself keeps only the fields of ControlUnitSet;     *)
(* execute() moves them on into MEM/WB (forward_control_signals_mem_wb)    *)
(* and clears EX/MEM.                                                      *)
(***************************************************************************)
EXTENDS Isa

Bit     == {0, 1}
AluOp   == {0, 1, 10, 11}
Forward == {0, 1, 10}

ControlUnitSet ==
  [pc_src : Bit, branch : Bit, data_hazard_mem_to_mem : Bit, nop : Bit,
   resolved : Bit, redo_decode : Bit, forwardA : Forward, forwardB : Forward]

ControlUnitInit ==
  [pc_src |-> 0, branch |-> 0, data_hazard_mem_to_mem |-> 0, nop |-> 0,
   resolved |-> 0, redo_decode |-> 0, forwardA |-> 0, forwardB |-> 0]

(* the signals that leave the control unit; alu_src and reg_dst are never read *)
Signals   == [reg_write : Bit, mem_to_reg : Bit, mem_read : Bit, mem_write : Bit,
              alu_op : AluOp]
NoSignals == [reg_write |-> 0, mem_to_reg |-> 0, mem_read |-> 0, mem_write |-> 0,
              alu_op |-> 0]

(***************************************************************************)
(* ControlUnit::setControlSignals on signals s that are all 0, but for the *)
(* reg_write a stall has raised.  The tests for MULT, DIV, MFHI, MFLO, SLL *)
(* and SRL compare the opcode with function codes: that for SLL, whose     *)
(* code is 0, holds for every R-type left, the others for words that are   *)
(* no R-types.                                                             *)
(***************************************************************************)
SetControlSignals(s, op) ==
  CASE op \in {"R_TYPE", "MFHI", "MFLO", "SRL"} -> [s EXCEPT !.reg_write = 1, !.alu_op = 10]
    [] op \in {"MULT", "DIV"} -> [s EXCEPT !.alu_op = 10]
    [] op = "ADDI"     -> [s EXCEPT !.reg_write = 1]
    [] op \in AluImm \ {"ADDI"} -> [s EXCEPT !.reg_write = 1, !.alu_op = 11]
    [] op \in Branches -> [s EXCEPT !.alu_op = 1]
    [] op \in Stores   -> [s EXCEPT !.mem_write = 1]
    [] op \in Loads    -> [s EXCEPT !.mem_to_reg = 1, !.reg_write = 1, !.mem_read = 1]
    [] OTHER           -> s

(* ControlUnit::reset: pc_src, resolved, redo_decode and the forwarding bits stay *)
Reset(cu) == [cu EXCEPT !.branch = 0, !.data_hazard_mem_to_mem = 0, !.nop = 0]
==============================================================================
