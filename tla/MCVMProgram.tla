---------------------------- MODULE MCVMProgram ----------------------------
(***************************************************************************)
(* Two families of programs, in words of five bits.                        *)
(*                                                                         *)
(* The canonical program, byte for byte (22 input words are counted), over *)
(* memories whose parities differ in every word, under three permutations  *)
(* of the slots.                                                           *)
(*                                                                         *)
(* Short programs over one memory and one permutation: a prologue, two     *)
(* instructions of any kind, a label and one of three ends.  Among them    *)
(* are registers and conditions there are not, a RET without a CALL, code  *)
(* that is run off, jumps by number into an immediate and out of the code, *)
(* and loops without an end, which come to MAX_STEPS.                      *)
(***************************************************************************)
EXTENDS VMProgram

Setup ==
  <<Emit("MOV_RI", <<1>> \o Imm(2)), Emit("STORE", <<1, 1>>), Label("top"),
    Emit("CMP", <<0, 1>>)>>

Plain ==
  {Emit("NOP", <<>>), Emit("MOV_RR", <<2, 16>>), Emit("LOAD", <<2, 1>>),
   Emit("LOAD", <<2, 16>>), Emit("STORE", <<16, 0>>), Emit("ADD", <<0, 0, 1>>),
   Emit("SUB", <<2, 0, 1>>), Emit("NOT", <<2, 0>>), Emit("SHL", <<2, 1, 7>>),
   Emit("ROR", <<0, 1, 3>>), Emit("CMP", <<2, 1>>), Emit("CMOV", <<2, 16, 0>>),
   Emit("CMOV", <<2, 16, 1>>), Emit("CMOV", <<2, 1, 4>>), Emit("CMOV", <<2, 1, 6>>),
   Emit("HASH_ROUND", <<2, 1, 1>>), Emit("MIX", <<2, 1>>),
   EmitTo("JZ", "sub"), EmitTo("JNZ", "sub"), EmitTo("CALL", "sub"),
   Emit("RET", <<>>), Emit("HALT", <<7>>), EmitAt("JMP", 65535)}

Backward ==
  {EmitTo("JMP", "top"), EmitTo("JNZ", "top"), EmitTo("CALL", "top"),
   EmitAt("JMP", 3), EmitAt("CALL", 1)}

BeforeBackward ==
  {Emit("ADD", <<0, 0, 1>>), Emit("HASH_ROUND", <<0, 1, 1>>),
   EmitTo("JZ", "sub"), EmitTo("CALL", "sub"), Emit("CMOV", <<2, 1, 4>>)}

Ends == {<<>>, <<Emit("RET", <<>>)>>, <<Emit("HALT", <<9>>)>>}

Short ==
  {Setup \o pair \o <<Label("sub"), Emit("ADD", <<2, 2, 0>>)>> \o end :
     pair \in Plain \X Plain, end \in Ends}
  \cup
  {Setup \o pair \o <<Label("sub"), Emit("ADD", <<2, 2, 0>>), Emit("RET", <<>>)>> :
     pair \in BeforeBackward \X Backward}

MCSources == {CanonicalSource} \cup Short

\* The canonical program cuts no immediate off.
ASSUME CanonicalAssumption == ImmediatesWhole(Assemble(CanonicalSource))

Words(a, b, n) == [k \in 1 .. n |-> a * k * k + b * k + a]

ShortMemory ==
  PackInputs(3, Words(2, 1, 8), Words(1, 2, 4), Words(2, 1, 2), Words(1, 1, 2),
             Words(1, 3, 4), 2)

MCMemory ==
  {ShortMemory} \cup
  {PackInputs(a + b, Words(a, b, 8), Words(b, a, 4), Words(a, 1, 2),
              Words(1, b, 2), Words(b, a + 1, 4), a * b) :
     a \in 0 .. 3, b \in {0, 1, 5}}

Scattered == [b \in 0 .. 255 |-> (b * 77 + 16) % 256]

MCPermutation ==
  {[b \in 0 .. 255 |-> b], [b \in 0 .. 255 |-> 255 - b], Scattered}

\* The short programs are run in one way each.
MCInit == Init /\ (source # CanonicalSource => inputs = ShortMemory /\ perm = Scattered)

MCSpec == MCInit /\ [][Next]_vars /\ WF_vars(Next)
=============================================================================
