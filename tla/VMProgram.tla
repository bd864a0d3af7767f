----------------------------- MODULE VMProgram -----------------------------
(***************************************************************************)
(* The program the virtual machine runs, from its source                   *)
(* (tools/generate_vm_bytecode.py): the two-pass assembler, the program    *)
(* build_program writes, the disassembler (tools/disassemble_vm.py), and   *)
(* the client's engine executing what was assembled.                       *)
(*                                                                         *)
(* An item of a source is an instruction with its operand bytes, a branch  *)
(* to a label or to a number, or a label.                                  *)
(***************************************************************************)
EXTENDS VMClient

CONSTANT Sources    \* the sources that may have been assembled

VARIABLES
  source,    \* the items the code was assembled from
  inputs     \* the memory run_vm packed

vars == <<clientVars, source, inputs>>

BranchOps == {"JMP", "JZ", "JNZ", "CALL"}

Emit(op, args) == [op |-> op, args |-> args, ref |-> ""]
EmitTo(op, name) == [op |-> op, args |-> <<>>, ref |-> name]
EmitAt(op, addr) == Emit(op, <<addr \div 256, addr % 256>>)
Label(name) == [op |-> "label", args |-> <<>>, ref |-> name]

\* The eight bytes of a small immediate.
Imm(n) == <<0, 0, 0, 0, 0, 0, 0, n>>

\* Mutant: a label takes a byte.
InstrSizePadded(item) == 1 + IF item.op = "label" THEN 0 ELSE OPERAND_LEN[item.op]

\* _instr_size; a label takes no room.
InstrSize(item) == IF item.op = "label" THEN 0 ELSE 1 + OPERAND_LEN[item.op]

\* Pass 1: the offset behind each item.
Offsets(items) ==
  LET off[k \in 0 .. Len(items)] ==
        IF k = 0 THEN 0 ELSE off[k - 1] + InstrSize(items[k])
  IN off

\* The addresses that two bytes can name.
AddressSpace == 256 * 256

\* The offset of the k-th item.
Offset(items, k) == Offsets(items)[k - 1]

\* Where a label is; the last one of that name counts.
LabelAddr(items, name) ==
  LET At == {k \in DOMAIN items : items[k] = Label(name)}
  IN Offset(items, CHOOSE k \in At : \A other \in At : other <= k)

Item == [op : Opcode \cup {"label"}, args : Seq(Byte), ref : STRING]

\* What emit and assemble take without a complaint: the operand bytes the opcode
\* needs, or a branch to a label of the source.  That the code has no more bytes
\* than an address can name is checked by nothing: assemble cuts addresses.
Assembles(items) ==
  /\ items \in Seq(Item)
  /\ \A k \in DOMAIN items :
       \/ items[k].op = "label"
       \/ items[k].op \in Opcode /\ items[k].ref = ""
            /\ Len(items[k].args) = OPERAND_LEN[items[k].op]
       \/ items[k].op \in BranchOps /\ items[k].ref # ""
            /\ Label(items[k].ref) \in ToSet(items)
  /\ Offset(items, Len(items) + 1) < AddressSpace

ASSUME SourcesAssumption == \A items \in Sources : Assembles(items)

\* The operand bytes, with labels resolved.
Body(items, item) ==
  IF item.ref = "" THEN item.args
  ELSE EmitAt(item.op, LabelAddr(items, item.ref) % AddressSpace).args

\* Pass 2.
Emitted(items, item) ==
  IF item.op = "label" THEN <<>> ELSE <<OPCODES[item.op]>> \o Body(items, item)

Assemble(items) == FlattenSeq([k \in DOMAIN items |-> Emitted(items, items[k])])

\* What disassemble_vm.decode yields at ip: offset, opcode and operand bytes,
\* or the byte itself.
LineAt(bytes, ip) ==
  LET op  == Decoded[bytes[ip + 1]]
      end == ip + 1 + OPERAND_LEN[op]
  IN IF op = "unknown" THEN [at |-> ip, op |-> op, args |-> <<bytes[ip + 1]>>]
     ELSE [at |-> ip, op |-> op,
           args |-> SubSeq(bytes, ip + 2, IF end <= Len(bytes) THEN end ELSE Len(bytes))]

\* One turn of its loop, with what was yielded so far.
DecodeTurn(bytes, d) ==
  LET line == LineAt(bytes, d.ip)
  IN IF d.ip >= Len(bytes) THEN d
     ELSE [ip    |-> d.ip + 1 + (IF line.op = "unknown" THEN 0 ELSE OPERAND_LEN[line.op]),
           lines |-> Append(d.lines, line)]

\* decode: no more turns than bytes.
Listing(bytes) ==
  LET turn[k \in 0 .. Len(bytes)] ==
        IF k = 0 THEN [ip |-> 0, lines |-> <<>>] ELSE DecodeTurn(bytes, turn[k - 1])
  IN turn[Len(bytes)].lines

\* disassemble_vm.find_labels
FoundLabels(bytes) ==
  {line.args[1] * 256 + line.args[2] :
     line \in {l \in ToSet(Listing(bytes)) : l.op \in BranchOps}}
-----------------------------------------------------------------------------
(***************************************************************************)
(* build_program.                                                          *)
(***************************************************************************)
C12 == <<1, 35, 69, 103, 137, 171, 205, 239>>
C13 == <<222, 173, 190, 239, 202, 254, 186, 190>>
C14 == <<165, 165, 165, 165, 90, 90, 90, 90>>
C15 == <<240, 225, 210, 195, 180, 165, 150, 135>>

InputWords == 22

Prologue ==
  <<Emit("MOV_RI", <<12>> \o C12), Emit("MOV_RI", <<13>> \o C13),
    Emit("MOV_RI", <<14>> \o C14), Emit("MOV_RI", <<15>> \o C15),
    Emit("MOV_RI", <<0>> \o Imm(0)), Emit("MOV_RI", <<1>> \o Imm(InputWords)),
    Emit("MOV_RI", <<6>> \o Imm(1)), Emit("MOV_RI", <<8>> \o Imm(0))>>

FoldLoop ==
  <<Label("loop"), Emit("CMP", <<0, 1>>), EmitTo("JZ", "end"),
    Emit("MOV_RR", <<7, 0>>), Emit("LOAD", <<2, 7>>),
    Emit("HASH_ROUND", <<12, 12, 2>>), Emit("MIX", <<13, 2>>),
    Emit("AND", <<3, 2, 6>>), Emit("CMP", <<3, 8>>), EmitTo("JZ", "even"),
    Emit("HASH_ROUND", <<15, 15, 2>>), Emit("ROL", <<15, 15, 7>>),
    EmitTo("JMP", "after"),
    Label("even"), Emit("HASH_ROUND", <<14, 14, 2>>),
    Emit("ROR", <<14, 14, 11>>),
    Label("after"), Emit("XOR", <<12, 12, 14>>), Emit("ADD", <<13, 13, 15>>),
    Emit("ADD", <<0, 0, 6>>), EmitTo("JMP", "loop")>>

\* Mutant: nothing halts the program behind the call of the routine.
EpilogueUnhalted ==
  <<Label("end"), EmitTo("CALL", "finalize"), Emit("NOP", <<>>)>>

Epilogue ==
  <<Label("end"), Emit("HASH_ROUND", <<12, 12, 13>>),
    Emit("HASH_ROUND", <<13, 13, 14>>), Emit("HASH_ROUND", <<14, 14, 15>>),
    Emit("HASH_ROUND", <<15, 15, 12>>), EmitTo("CALL", "finalize"),
    Emit("HALT", <<66>>)>>

FinalizeRoutine ==
  <<Label("finalize"), Emit("NOP", <<>>), Emit("NOT", <<3, 12>>),
    Emit("OR", <<4, 13, 3>>), Emit("SUB", <<5, 14, 15>>),
    Emit("MUL", <<9, 5, 6>>), Emit("SHL", <<10, 4, 3>>),
    Emit("SHR", <<11, 4, 5>>), Emit("XOR", <<4, 10, 11>>),
    Emit("MOV_RI", <<0>> \o Imm(3)),
    Label("inner"), Emit("HASH_ROUND", <<9, 9, 4>>), Emit("CMP", <<9, 8>>),
    Emit("CMOV", <<5, 9, 1>>), Emit("SUB", <<0, 0, 6>>), Emit("CMP", <<0, 8>>),
    EmitTo("JNZ", "inner"),
    Emit("STORE", <<7, 9>>), Emit("XOR", <<12, 12, 9>>),
    Emit("ADD", <<13, 13, 5>>), Emit("XOR", <<14, 14, 4>>),
    Emit("MIX", <<15, 3>>), Emit("RET", <<>>)>>

CanonicalSource == Prologue \o FoldLoop \o Epilogue \o FinalizeRoutine
-----------------------------------------------------------------------------
Init ==
  /\ source \in Sources
  /\ code = Assemble(source)
  /\ ClientInit
  /\ inputs = m.mem

Next == ClientNext /\ UNCHANGED <<source, inputs>>

Spec == Init /\ [][Next]_vars

\* run() is a loop of one thread that nothing holds up.
FairSpec == Spec /\ WF_vars(Next)
-----------------------------------------------------------------------------
Halted == m.status = "halted"

\* No MOV_RI stands so near the end of the code that its immediate is cut off.
ImmediatesWhole(bytes) ==
  \A i \in DOMAIN bytes : bytes[i] = OPCODES["MOV_RI"] => i + 9 <= Len(bytes)

\* The lines of a listing that a source should have.
LinesOf(items, k) ==
  IF items[k].op = "label" THEN <<>>
  ELSE <<[at |-> Offset(items, k), op |-> items[k].op, args |-> Body(items, items[k])]>>

Lines(items) == FlattenSeq([k \in DOMAIN items |-> LinesOf(items, k)])

\* Where the source means an instruction to branch to.
Target(items, item) ==
  IF item.ref # "" THEN LabelAddr(items, item.ref)
                   ELSE item.args[1] * 256 + item.args[2]

\* The disassembler (decode, find_labels) reads back what was assembled, line by
\* line, and finds labels exactly where the source branches to.
ListingIsProgram ==
  m.steps = 0 =>
    /\ Listing(code) = Lines(source)
    /\ FoundLabels(code) =
         {Target(source, item) : item \in {i \in ToSet(source) : i.op \in BranchOps}}

\* A program that branches only to labels is executed by the lines of its
\* listing: ip never comes to lie inside an instruction, and what CALL pushed
\* is a line of the listing as well.
ByLabels(items) ==
  \A k \in DOMAIN items : items[k].op \in BranchOps => items[k].ref # ""

ExecutionFollowsListing ==
  ByLabels(source) /\ m.status = "running" =>
    {m.ip} \cup ToSet(m.stack) \subseteq
      {line.at : line \in ToSet(Listing(code))} \cup {Len(code)}

\* Two runs of the canonical program over memories whose words differ in parity
\* differ in what vm_path_id folds (up to collisions of the fold): the path holds
\* the parity of each word in order.
PathTellsInputs ==
  source = CanonicalSource /\ Halted =>
    LET path == Finish(m).vm_path_id
    IN /\ Len(path) = 2 * InputWords + 4
       /\ \A k \in 0 .. InputWords - 1 :
            /\ ~path[2 * k + 1][2]
            /\ path[2 * k + 2][2] <=> inputs[k] % 2 = 0

\* The canonical program never makes the engine throw, and leaves nothing behind
\* but its result: the stack is empty again and one word of memory was written.
EndsInOrder ==
  source = CanonicalSource =>
    /\ m.status # "raised"
    /\ Halted =>
         /\ m.stack = <<>>
         /\ {a \in DOMAIN inputs : m.mem[a] # inputs[a]} \subseteq {InputWords - 1}

\* The canonical program comes to its HALT, and to no runaway halt; any other
\* one halts or raises, were it a loop without an end.
Finishes ==
  <>IF source = CanonicalSource THEN Halted /\ m.operand = 66
                                ELSE m.status # "running"
=============================================================================
