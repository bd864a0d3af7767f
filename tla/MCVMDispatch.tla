---------------------------- MODULE MCVMDispatch ----------------------------
(***************************************************************************)
(* Five slots, three opcodes of which two share a handler: all 120         *)
(* permutations, reached by every sequence of keystream values.            *)
(***************************************************************************)
EXTENDS VMDispatch

MCHandlerFor == [o \in Defined |-> IF o = 1 THEN "h_jmp" ELSE "h_alu3"]
=============================================================================
