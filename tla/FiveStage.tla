------------------------------ MODULE FiveStage ------------------------------
(***************************************************************************)
(* What a five-stage pipeline promises about the flow of instructions: in  *)
(* every turn each instruction moves on by one stage.  Only opcodes are    *)
(* kept, one for each latch.  Fetching may turn the instruction that has   *)
(* just been decoded into a bubble; nothing is held back, dropped,         *)
(* duplicated or overtaken anywhere else.                                  *)
(***************************************************************************)
CONSTANTS Opcode, Bubble

VARIABLES turn, fetched, decoded, executed, accessed

vars == <<turn, fetched, decoded, executed, accessed>>

Init == /\ turn = "WB"
        /\ <<fetched, decoded, executed, accessed>> = <<Bubble, Bubble, Bubble, Bubble>>

WriteBack == /\ turn = "WB" /\ turn' = "MEM"
             /\ UNCHANGED <<fetched, decoded, executed, accessed>>

Access == /\ turn = "MEM" /\ turn' = "EX"
          /\ accessed' = executed
          /\ UNCHANGED <<fetched, decoded, executed>>

Execute == /\ turn = "EX" /\ turn' = "ID"
           /\ executed' = decoded
           /\ UNCHANGED <<fetched, decoded, accessed>>

Decode == /\ turn = "ID" /\ turn' = "IF"
          /\ decoded' = fetched
          /\ UNCHANGED <<fetched, executed, accessed>>

Fetch == /\ turn = "IF" /\ turn' = "WB"
         /\ fetched' \in Opcode
         /\ decoded' \in {decoded, Bubble}
         /\ UNCHANGED <<executed, accessed>>

Next == WriteBack \/ Access \/ Execute \/ Decode \/ Fetch

Spec == Init /\ [][Next]_vars
==============================================================================
