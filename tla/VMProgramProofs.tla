--------------------------- MODULE VMProgramProofs ---------------------------
(***************************************************************************)
(* The engines, the assembler and the dispatch table.                      *)
(*                                                                         *)
(* The two engines run every program alike: for every word size and step   *)
(* limit, every bytecode, memory and permutation of the slots, each step   *)
(* of the client's engine through its table is the step the reference's    *)
(* switch takes.  The one exception is a MOV_RI so near the end of the     *)
(* code that its immediate is cut off: the client throws, the reference    *)
(* reads a shorter number.                                                 *)
(*                                                                         *)
(* Whatever source was assembled, the disassembler reads it back, and a    *)
(* program that branches to labels only is executed by those lines; it     *)
(* never comes to the exception above.                                     *)
(*                                                                         *)
(* The shuffle, the table and the dispatch through it are VMDispatch's; it *)
(* builds the table the client's engine is given.                          *)
(*                                                                         *)
(* Reference is an instance of its own of the instruction set and of the   *)
(* arithmetic; the first lemmas say that they are the client's.            *)
(***************************************************************************)
EXTENDS VMProgram, VMDispatch, DataTheorems, FiniteSetTheorems

\* The bitwise operators of both ends are the same functions.
LEMMA SameBits ==
  /\ Reference!XorOf = XorOf
  /\ Reference!AndOf = AndOf
  BY DEF XorOf, AndOf, Reference!XorOf, Reference!AndOf

\* The instruction set, spelled out.
LEMMA OpcodeSet ==
  Opcode = {"NOP", "MOV_RI", "MOV_RR", "LOAD", "STORE", "ADD", "SUB", "MUL", "XOR",
    "AND", "OR", "NOT", "ROL", "ROR", "SHL", "SHR", "CMP", "CMOV", "JMP", "JZ", "JNZ",
    "CALL", "RET", "HASH_ROUND", "MIX", "HALT"}
  BY DEF Opcode, OPCODES

\* No two opcodes have the same byte.
LEMMA OpcodesDiffer ==
  /\ \A o \in Opcode : OPCODES[o] \in Byte
  /\ \A o, q \in Opcode : OPCODES[o] = OPCODES[q] => o = q
  BY OpcodeSet DEF OPCODES, Byte

\* The opcode of a byte, or none.
LEMMA DecodedOp ==
  ASSUME NEW b \in Byte
  PROVE  /\ Decoded[b] # "unknown" => Decoded[b] \in Opcode /\ OPCODES[Decoded[b]] = b
         /\ Decoded[b] = "unknown" => \A o \in Opcode : OPCODES[o] # b
  <1>1. "unknown" \notin Opcode
    BY OpcodeSet
  <1> QED BY <1>1 DEF Decoded

\* The slot a byte is permuted to holds the handler of its opcode.
LEMMA TableDispatch ==
  ASSUME perm \in Permutation, NEW b \in Byte
  PROVE  Table[perm[b]] =
           IF Decoded[b] = "unknown" THEN "h_unknown" ELSE HandlerFor[Decoded[b]]
  <1>1. perm \in [Byte -> Byte] /\ \A a, c \in Byte : perm[a] = perm[c] => a = c
    BY PermutationAssumption
  <1>2. CASE Decoded[b] = "unknown"
    <2>1. \A o \in Opcode : perm[OPCODES[o]] # perm[b]
      BY <1>1, <1>2, DecodedOp, OpcodesDiffer
    <2> QED BY <1>1, <1>2, <2>1 DEF Table
  <1>3. CASE Decoded[b] # "unknown"
    <2>1. \A o \in Opcode : perm[OPCODES[o]] = perm[b] <=> o = Decoded[b]
      BY <1>1, <1>3, DecodedOp, OpcodesDiffer
    <2>2. Decoded[b] \in Opcode /\ perm[b] \in Byte
      BY <1>1, <1>3, DecodedOp
    <2> DEFINE chosen == CHOOSE op \in Opcode : perm[OPCODES[op]] = perm[b]
    <2>3. chosen = Decoded[b]
      BY <2>1, <2>2
    <2>4. Table[perm[b]] = HandlerFor[chosen]
      BY <2>1, <2>2 DEF Table
    <2> QED BY <1>3, <2>3, <2>4
  <1> QED BY <1>2, <1>3

\* Constants, words and the order of the opcodes.
LEMMA SameWords ==
  /\ Reference!Base = Base /\ Reference!Byte = Byte
  /\ Reference!VM_MEM_WORDS = VM_MEM_WORDS /\ Reference!VM_NUM_REGS = VM_NUM_REGS
  /\ Reference!OPCODES = OPCODES /\ Reference!Opcode = Opcode
  /\ Reference!Decoded = Decoded /\ Reference!Conds = Conds
  BY DEF Reference!Base, Base, Reference!Byte, Byte, VM_MEM_WORDS, VM_NUM_REGS,
         Reference!VM_MEM_WORDS, Reference!VM_NUM_REGS, OPCODES, Reference!OPCODES,
         Opcode, Reference!Opcode, Decoded, Reference!Decoded, Conds, Reference!Conds

\* Rotations.
LEMMA SameRotation ==
  \A x, n : /\ Reference!rotl64(x, n) = rotl64(x, n)
           /\ Reference!rotr64(x, n) = rotr64(x, n)
  BY SameWords DEF rotl64, rotr64, Reference!rotl64, Reference!rotr64

\* Bitwise operators on words.
LEMMA SameBitwise ==
  \A a, b : /\ Reference!^^(a, b) = a ^^ b /\ Reference!&(a, b) = a & b
           /\ Reference!|(a, b) = a | b
  BY SameBits DEF ^^, &, |, Reference!^^, Reference!&, Reference!|

\* Immediates.
LEMMA SameNumber == \A bytes : Reference!Number(bytes) = Number(bytes)
  BY DEF Number, Reference!Number, FoldLeft, Reference!FoldLeft, MapThenFoldSet,
         Reference!MapThenFoldSet, Max, Reference!Max, Base, Reference!Base

\* Everything the handlers compute.
LEMMA SameOperations ==
  /\ \A a, b : Reference!hash_round(a, b) = hash_round(a, b)
  /\ \A a, b, r : Reference!mix(a, b, r) = mix(a, b, r)
  /\ \A op, a, b : Reference!Alu(op, a, b) = Alu(op, a, b)
  /\ \A op, a, b : Reference!Shifted(op, a, b) = Shifted(op, a, b)
  /\ \A a, b : Reference!CmpFlags(a, b) = CmpFlags(a, b)
  BY SameWords, SameRotation, SameBitwise, ZenonT(60)
  DEF hash_round, Reference!hash_round, mix, Reference!mix, Alu, Reference!Alu,
      Shifted, Reference!Shifted, CmpFlags, Reference!CmpFlags

\* What is fetched, and the machine after it.
LEMMA SameMachine ==
  /\ \A mem : Reference!Machine(mem) = Machine(mem)
  /\ Reference!Fetches = Fetches /\ Reference!Running = Running
  /\ Reference!Op = Op /\ Reference!Addr = Addr /\ Reference!Raised = Raised
  /\ \A k : /\ Reference!Arg(k) = Arg(k) /\ Reference!R(k) = R(k)
            /\ Reference!Has(k) = Has(k) /\ Reference!IsReg(k) = IsReg(k)
            /\ Reference!Fetched(k) = Fetched(k)
  /\ \A c : Reference!CondHolds(c) = CondHolds(c)
  BY SameWords
  DEF Machine, Reference!Machine, Fetches, Reference!Fetches, Running,
      Reference!Running, Op, Reference!Op, Addr, Reference!Addr, Raised,
      Reference!Raised, Arg, Reference!Arg, R, Reference!R, Has, Reference!Has,
      IsReg, Reference!IsReg, Fetched, Reference!Fetched, CondHolds,
      Reference!CondHolds

-----------------------------------------------------------------------------
\* What the code and the machine are at any step.
EngineTypeOK ==
  /\ code \in Seq(Byte)
  /\ perm \in Permutation
  /\ DOMAIN m = DOMAIN Machine(<<>>)
  /\ m.ip \in Nat /\ m.stack \in Seq(Nat)

\* The immediate that is to be fetched is all there.
WholeImmediate == Fetches /\ Op = "MOV_RI" => Has(9)

\* A handler is called exactly for the opcodes it is for.
LEMMA DispatchedOp ==
  ASSUME EngineTypeOK, NEW h, Dispatched(h)
  PROVE  /\ Fetches /\ UNCHANGED <<code, perm>>
         /\ Op = "unknown" \/ Op \in Opcode
         /\ h = IF Op = "unknown" THEN "h_unknown" ELSE HandlerFor[Op]
  <1>1. code[m.ip + 1] \in Byte
    BY DEF EngineTypeOK, Dispatched, Fetches
  <1> QED BY <1>1, TableDispatch, DecodedOp DEF Dispatched, Op, EngineTypeOK

\* The opcodes of each handler are those of a branch of the reference.
LEMMA HandlerOps ==
  ASSUME EngineTypeOK, NEW h, Dispatched(h)
  PROVE  /\ h = "h_nop" => Reference!Exec({"NOP"})
         /\ h = "h_mov_ri" => Reference!Exec({"MOV_RI"})
         /\ h = "h_mov_rr" => Reference!Exec({"MOV_RR"})
         /\ h = "h_load" => Reference!Exec({"LOAD"})
         /\ h = "h_store" => Reference!Exec({"STORE"})
         /\ h = "h_alu3" => Reference!Exec({"ADD", "SUB", "MUL", "XOR", "AND", "OR"})
         /\ h = "h_not" => Reference!Exec({"NOT"})
         /\ h = "h_shift" => Reference!Exec({"ROL", "ROR", "SHL", "SHR"})
         /\ h = "h_cmp" => Reference!Exec({"CMP"})
         /\ h = "h_cmov" => Reference!Exec({"CMOV"})
         /\ h = "h_jmp" => Reference!Exec({"JMP"})
         /\ h = "h_jcc" => Reference!Exec({"JZ", "JNZ"})
         /\ h = "h_call" => Reference!Exec({"CALL"})
         /\ h = "h_ret" => Reference!Exec({"RET"})
         /\ h = "h_hash" => Reference!Exec({"HASH_ROUND"})
         /\ h = "h_mix" => Reference!Exec({"MIX"})
         /\ h = "h_halt" => Reference!Exec({"HALT"})
         /\ h = "h_unknown" => Reference!Exec({"unknown"})
  <1>1. Op = "unknown" \/ Op \in Opcode
    BY DispatchedOp
  <1>2. h = IF Op = "unknown" THEN "h_unknown" ELSE HandlerFor[Op]
    BY DispatchedOp
  <1>3. \A ops : Op \in ops => Reference!Exec(ops)
    BY DispatchedOp, SameMachine DEF Reference!Exec
  <1> HIDE DEF Reference!Exec
  <1> QED BY <1>1, <1>2, <1>3, OpcodeSet DEF HandlerFor

\* Registers are looked at alike.
LEMMA RegsAre ==
  /\ Regs({1}) <=> Reference!IsReg(Reference!Arg(1))
  /\ Regs({1, 2}) <=> /\ Reference!IsReg(Reference!Arg(1))
                      /\ Reference!IsReg(Reference!Arg(2))
  /\ Regs({1, 2, 3}) <=> \A k \in 1 .. 3 : Reference!IsReg(Reference!Arg(k))
  BY SameMachine DEF Regs

\* The machine after an instruction is fetched, but for what the handler does.
LEMMA FetchedTyped ==
  ASSUME EngineTypeOK, NEW n \in Nat
  PROVE  /\ DOMAIN Fetched(n) = DOMAIN m
         /\ Fetched(n).ip = m.ip + 1 + n /\ Fetched(n).ip \in Nat
         /\ Fetched(n).stack = m.stack /\ Fetched(n).path = m.path
  BY DEF EngineTypeOK, Machine, Fetched

\* Handlers that write a register.
LEMMA RegisterSteps ==
  ASSUME EngineTypeOK, WholeImmediate
  PROVE  /\ h_mov_ri => Reference!MovImmediate
         /\ h_mov_rr => Reference!MovRegister
         /\ h_load => Reference!Load
         /\ h_alu3 => Reference!Binary
         /\ h_not => Reference!Complement
         /\ h_shift => Reference!ShiftOrRotate
         /\ h_hash => Reference!Hash
         /\ h_mix => Reference!Mix
  <1>1. ASSUME h_mov_ri PROVE Reference!MovImmediate
    <2>1. Reference!Exec({"MOV_RI"})
      BY <1>1, HandlerOps DEF h_mov_ri
    <2>2. Has(9) /\ Has(1)
      BY <2>1, SameMachine DEF WholeImmediate, Has, EngineTypeOK, Reference!Exec
    <2>3. Reference!Immediate = u64
      BY <2>2, SameMachine, SameNumber DEF u64, Reference!Immediate
    <2> QED BY <1>1, <2>1, <2>2, <2>3, SameMachine, RegsAre
        DEF h_mov_ri, SetReg, Try, Reference!Try, Reference!MovImmediate
  <1>2. ASSUME h_mov_rr PROVE Reference!MovRegister
    <2>1. Reference!Exec({"MOV_RR"})
      BY <1>2, HandlerOps DEF h_mov_rr
    <2> QED BY <1>2, <2>1, SameMachine, RegsAre
        DEF h_mov_rr, SetReg, Try, Reference!Try, Reference!MovRegister
  <1>3. ASSUME h_load PROVE Reference!Load
    <2>1. Reference!Exec({"LOAD"})
      BY <1>3, HandlerOps DEF h_load
    <2> QED BY <1>3, <2>1, SameMachine, SameWords, RegsAre
        DEF h_load, SetReg, Try, Reference!Try, Reference!Load
  <1>4. ASSUME h_alu3 PROVE Reference!Binary
    <2>1. Reference!Exec({"ADD", "SUB", "MUL", "XOR", "AND", "OR"})
      BY <1>4, HandlerOps DEF h_alu3
    <2> QED BY <1>4, <2>1, SameMachine, SameOperations, RegsAre
        DEF h_alu3, SetReg, Try, Reference!Try, Reference!Binary
  <1>5. ASSUME h_not PROVE Reference!Complement
    <2>1. Reference!Exec({"NOT"})
      BY <1>5, HandlerOps DEF h_not
    <2> QED BY <1>5, <2>1, SameMachine, SameWords, RegsAre
        DEF h_not, SetReg, Try, Reference!Try, Reference!Complement
  <1>6. ASSUME h_shift PROVE Reference!ShiftOrRotate
    <2>1. Reference!Exec({"ROL", "ROR", "SHL", "SHR"})
      BY <1>6, HandlerOps DEF h_shift
    <2> QED BY <1>6, <2>1, SameMachine, SameOperations, RegsAre
        DEF h_shift, SetReg, Try, Reference!Try, Reference!ShiftOrRotate
  <1>7. ASSUME h_hash PROVE Reference!Hash
    <2>1. Reference!Exec({"HASH_ROUND"})
      BY <1>7, HandlerOps DEF h_hash
    <2> QED BY <1>7, <2>1, SameMachine, SameOperations, RegsAre
        DEF h_hash, SetReg, Try, Reference!Try, Reference!Hash
  <1>8. ASSUME h_mix PROVE Reference!Mix
    <2>1. Reference!Exec({"MIX"})
      BY <1>8, HandlerOps DEF h_mix
    <2> QED BY <1>8, <2>1, SameMachine, SameOperations, RegsAre
        DEF h_mix, SetReg, Try, Reference!Try, Reference!Mix
  <1> QED BY <1>1, <1>2, <1>3, <1>4, <1>5, <1>6, <1>7, <1>8

\* The others.
LEMMA ControlSteps ==
  ASSUME EngineTypeOK
  PROVE  /\ h_nop => Reference!Nop
         /\ h_store => Reference!Store
         /\ h_cmp => Reference!Compare
         /\ h_cmov => Reference!CondMove
         /\ h_jmp => Reference!Jump
         /\ h_jcc => Reference!Branch
         /\ h_call => Reference!Call
         /\ h_ret => Reference!Return
         /\ h_halt => Reference!Halt
         /\ h_unknown => Reference!Unknown
  <1>1. ASSUME h_nop PROVE Reference!Nop
    <2>1. Reference!Exec({"NOP"})
      BY <1>1, HandlerOps DEF h_nop
    <2>2. Has(0)
      BY <1>1, DispatchedOp DEF h_nop, Has, Fetches, EngineTypeOK
    <2> QED BY <1>1, <2>1, <2>2, SameMachine DEF h_nop, Try, Reference!Nop
  <1>2. ASSUME h_store PROVE Reference!Store
    <2>1. Reference!Exec({"STORE"})
      BY <1>2, HandlerOps DEF h_store
    <2> QED BY <1>2, <2>1, SameMachine, SameWords, RegsAre
        DEF h_store, Try, Reference!Try, Reference!Store
  <1>3. ASSUME h_cmp PROVE Reference!Compare
    <2>1. Reference!Exec({"CMP"})
      BY <1>3, HandlerOps DEF h_cmp
    <2> QED BY <1>3, <2>1, SameMachine, SameOperations, RegsAre
        DEF h_cmp, Try, Reference!Try, Reference!Compare
  <1>4. ASSUME h_cmov PROVE Reference!CondMove
    <2>1. Reference!Exec({"CMOV"})
      BY <1>4, HandlerOps DEF h_cmov
    <2> QED BY <1>4, <2>1, SameMachine, SameWords, RegsAre
        DEF h_cmov, Try, Reference!Try, Reference!CondMove
  <1>5. ASSUME h_jmp PROVE Reference!Jump
    <2>1. Reference!Exec({"JMP"})
      BY <1>5, HandlerOps DEF h_jmp
    <2> QED BY <1>5, <2>1, SameMachine DEF h_jmp, Try, Reference!Try, Reference!Jump
  <1>6. ASSUME h_jcc PROVE Reference!Branch
    <2>1. Reference!Exec({"JZ", "JNZ"})
      BY <1>6, HandlerOps DEF h_jcc
    <2>2. Taken = ((Reference!Op = "JZ") <=> ("ZF" \in m.flags))
      BY <2>1, SameMachine DEF Taken, Reference!Exec
    <2>3. Fetched(2).path = m.path
      BY FetchedTyped
    <2> QED BY <1>6, <2>1, <2>2, <2>3, SameMachine
        DEF h_jcc, FoldPath, Try, Reference!Try, Reference!Branch
  <1>7. ASSUME h_call PROVE Reference!Call
    <2>1. Reference!Exec({"CALL"})
      BY <1>7, HandlerOps DEF h_call
    <2> QED BY <1>7, <2>1, SameMachine
        DEF h_call, ReturnAddress, Try, Reference!Try, Reference!Call
  <1>8. ASSUME h_ret PROVE Reference!Return
    <2>1. Reference!Exec({"RET"})
      BY <1>8, HandlerOps DEF h_ret
    <2> QED BY <1>8, <2>1, SameMachine
        DEF h_ret, Try, Reference!Try, Reference!Return, Last, Reference!Last,
            Front, Reference!Front
  <1>9. ASSUME h_halt PROVE Reference!Halt
    <2>1. Reference!Exec({"HALT"})
      BY <1>9, HandlerOps DEF h_halt
    <2> QED BY <1>9, <2>1, SameMachine DEF h_halt, Try, Reference!Try, Reference!Halt
  <1>10. ASSUME h_unknown PROVE Reference!Unknown
    <2>1. Reference!Exec({"unknown"})
      BY <1>10, HandlerOps DEF h_unknown
    <2> QED BY <1>10, <2>1, SameMachine DEF h_unknown, Reference!Unknown
  <1> QED BY <1>1, <1>2, <1>3, <1>4, <1>5, <1>6, <1>7, <1>8, <1>9, <1>10

\* Each handler takes the step of the reference's branch.
LEMMA StepRefines ==
  ASSUME EngineTypeOK, WholeImmediate, [ClientNext]_clientVars
  PROVE  [Reference!RefNext]_(Reference!refVars)
  <1>1. ASSUME ClientNext PROVE Reference!RefNext
    <2>1. MaxStepsReached => Reference!Runaway
      BY SameMachine DEF MaxStepsReached, Reference!Runaway
    <2>2. IpOutOfRange => Reference!OutOfCode
      BY SameMachine DEF IpOutOfRange, Reference!OutOfCode
    <2> QED BY <1>1, <2>1, <2>2, RegisterSteps, ControlSteps
        DEF ClientNext, Reference!RefNext
  <1>2. ASSUME UNCHANGED clientVars PROVE UNCHANGED Reference!refVars
    BY <1>2 DEF clientVars, Reference!refVars
  <1> QED BY <1>1, <1>2

\* The type invariant of the engine, from the first machine on.
LEMMA InitTyped == ClientInit => EngineTypeOK
  BY DEF ClientInit, EngineTypeOK, Machine

\* Each step fetches n bytes more and, but for RET, goes on behind them or at an address.
LEMMA MachineTyped ==
  ASSUME EngineTypeOK, NEW n, NEW ok, NEW next, Try(n, ok, next), UNCHANGED <<code, perm>>,
         Has(n) /\ ok => /\ DOMAIN next = DOMAIN m
                        /\ next.ip \in Nat /\ next.stack \in Seq(Nat)
  PROVE  EngineTypeOK'
  BY DEF EngineTypeOK, Try, Raised

\* A branch goes to an address.
LEMMA AddrTyped == ASSUME EngineTypeOK, Has(2) PROVE Addr \in Nat
  <1>1. m.ip + 1 + 1 \in DOMAIN code /\ m.ip + 1 + 2 \in DOMAIN code
    BY DEF EngineTypeOK, Has
  <1>2. Arg(1) \in Byte /\ Arg(2) \in Byte
    BY <1>1 DEF EngineTypeOK, Arg
  <1>3. Arg(1) \in Nat /\ Arg(2) \in Nat
    BY <1>2 DEF Byte
  <1> HIDE DEF Arg
  <1> QED BY <1>3 DEF Addr

\* Every handler keeps the types.
LEMMA StepTyped == EngineTypeOK /\ [ClientNext]_clientVars => EngineTypeOK'
  <1> SUFFICES ASSUME EngineTypeOK, [ClientNext]_clientVars PROVE EngineTypeOK'
    OBVIOUS
  <1>1. ASSUME NEW n \in Nat, NEW ks, NEW v, SetReg(n, ks, v), UNCHANGED <<code, perm>>
        PROVE EngineTypeOK'
    BY <1>1, FetchedTyped, MachineTyped DEF SetReg, EngineTypeOK, Machine
  <1>2. ASSUME h_mov_ri \/ h_mov_rr \/ h_load \/ h_alu3 \/ h_not \/ h_shift \/ h_hash \/ h_mix
        PROVE EngineTypeOK'
    BY <1>1, <1>2 DEF h_mov_ri, h_mov_rr, h_load, h_alu3, h_not, h_shift, h_hash, h_mix,
                      Dispatched
  <1>3. ASSUME NEW n \in Nat, NEW ok, NEW next, Try(n, ok, next), UNCHANGED <<code, perm>>,
               DOMAIN next = DOMAIN Fetched(n), next.stack = Fetched(n).stack,
               next.ip = Fetched(n).ip \/ (next.ip = Addr /\ n = 2)
        PROVE EngineTypeOK'
    <2>1. DOMAIN next = DOMAIN m /\ next.stack \in Seq(Nat)
      BY <1>3, FetchedTyped DEF EngineTypeOK
    <2>2. ASSUME Has(n) PROVE next.ip \in Nat
      <3>1. CASE next.ip = Fetched(n).ip
        BY <3>1, FetchedTyped
      <3>2. CASE next.ip = Addr /\ n = 2
        BY <3>2, <2>2, AddrTyped
      <3> QED BY <1>3, <3>1, <3>2
    <2> QED BY <1>3, <2>1, <2>2, MachineTyped
  <1>11. CASE h_nop
    <2> DEFINE next == Fetched(0)
    <2>1. Try(0, TRUE, next) /\ UNCHANGED <<code, perm>>
      BY <1>11 DEF h_nop, Dispatched
    <2>2. DOMAIN next = DOMAIN m /\ next.ip \in Nat /\ next.stack \in Seq(Nat)
      BY FetchedTyped DEF EngineTypeOK
    <2> HIDE DEF next
    <2> QED BY <2>1, <2>2, MachineTyped
  <1>12. CASE h_store
    <2> DEFINE next == [Fetched(2) EXCEPT !.mem[R(1) % VM_MEM_WORDS] = R(2)]
    <2>1. Try(2, Regs({1, 2}), next) /\ UNCHANGED <<code, perm>>
      BY <1>12 DEF h_store, Dispatched
    <2>2. DOMAIN next = DOMAIN Fetched(2) /\ next.ip = Fetched(2).ip
          /\ next.stack = Fetched(2).stack
      BY FetchedTyped DEF EngineTypeOK, Machine
    <2> HIDE DEF next
    <2> QED BY <2>1, <2>2, <1>3
  <1>13. CASE h_cmp
    <2> DEFINE next == [Fetched(2) EXCEPT !.flags = CmpFlags(R(1), R(2))]
    <2>1. Try(2, Regs({1, 2}), next) /\ UNCHANGED <<code, perm>>
      BY <1>13 DEF h_cmp, Dispatched
    <2>2. DOMAIN next = DOMAIN Fetched(2) /\ next.ip = Fetched(2).ip
          /\ next.stack = Fetched(2).stack
      BY FetchedTyped DEF EngineTypeOK, Machine
    <2> HIDE DEF next
    <2> QED BY <2>1, <2>2, <1>3
  <1>14. CASE h_halt
    <2> DEFINE next == [Fetched(1) EXCEPT !.operand = Arg(1), !.status = "halted"]
    <2>1. Try(1, TRUE, next) /\ UNCHANGED <<code, perm>>
      BY <1>14 DEF h_halt, Dispatched
    <2>2. DOMAIN next = DOMAIN m /\ next.ip \in Nat /\ next.stack \in Seq(Nat)
      BY FetchedTyped DEF EngineTypeOK, Machine
    <2> HIDE DEF next
    <2> QED BY <2>1, <2>2, MachineTyped
  <1>4. CASE h_cmov
    <2>1. CASE m' = Fetched(3)
      BY <1>4, <2>1, FetchedTyped DEF h_cmov, Dispatched, EngineTypeOK
    <2>2. CASE m' # Fetched(3)
      <3> DEFINE next == [Fetched(3) EXCEPT !.reg[Arg(1)] = R(2)]
      <3>1. Try(3, Arg(3) \in Conds /\ Regs({1, 2}), next)
        BY <1>4, <2>2 DEF h_cmov
      <3>2. DOMAIN next = DOMAIN m /\ next.ip \in Nat /\ next.stack \in Seq(Nat)
        BY FetchedTyped DEF EngineTypeOK, Machine
      <3>3. UNCHANGED <<code, perm>>
        BY <1>4 DEF h_cmov, Dispatched
      <3> HIDE DEF next
      <3> QED BY <3>1, <3>2, <3>3, MachineTyped
    <2> QED BY <2>1, <2>2
  <1>15. CASE h_jmp
    <2> DEFINE next == [Fetched(2) EXCEPT !.ip = Addr]
    <2>1. Try(2, TRUE, next) /\ UNCHANGED <<code, perm>>
      BY <1>15 DEF h_jmp, Dispatched
    <2>2. DOMAIN next = DOMAIN Fetched(2) /\ next.ip = Addr
          /\ next.stack = Fetched(2).stack
      BY FetchedTyped DEF EngineTypeOK, Machine
    <2> HIDE DEF next
    <2> QED BY <2>1, <2>2, <1>3
  <1>5. CASE h_jcc
    <2> DEFINE next == [Fetched(2) EXCEPT !.path = FoldPath(Taken),
                                          !.ip = IF Taken THEN Addr ELSE @]
    <2>1. Try(2, TRUE, next) /\ UNCHANGED <<code, perm>>
      BY <1>5 DEF h_jcc, Dispatched
    <2>2. DOMAIN next = DOMAIN Fetched(2) /\ (next.ip = Fetched(2).ip \/ next.ip = Addr)
          /\ next.stack = Fetched(2).stack
      BY FetchedTyped DEF EngineTypeOK, Machine
    <2> HIDE DEF next
    <2> QED BY <2>1, <2>2, <1>3
  <1>6. CASE h_call
    <2> DEFINE next == [Fetched(2) EXCEPT !.stack = Append(@, ReturnAddress), !.ip = Addr]
    <2>1. Try(2, TRUE, next) /\ UNCHANGED <<code, perm>>
      BY <1>6 DEF h_call, Dispatched
    <2>2. ReturnAddress \in Nat
      BY DEF ReturnAddress, EngineTypeOK
    <2>3. Has(2) => /\ DOMAIN next = DOMAIN m
                    /\ next.ip \in Nat /\ next.stack \in Seq(Nat)
      BY <2>2, FetchedTyped, AddrTyped DEF EngineTypeOK, Machine
    <2> HIDE DEF next
    <2> QED BY <2>1, <2>3, MachineTyped
  <1>7. CASE h_ret
    <2> DEFINE next == [Fetched(0) EXCEPT !.ip = Last(m.stack), !.stack = Front(@)]
    <2>1. Try(0, m.stack # <<>>, next) /\ UNCHANGED <<code, perm>>
      BY <1>7 DEF h_ret, Dispatched
    <2>2. ASSUME m.stack # <<>> PROVE Last(m.stack) \in Nat /\ Front(m.stack) \in Seq(Nat)
      BY <2>2 DEF Last, Front, EngineTypeOK
    <2>3. m.stack # <<>> => /\ DOMAIN next = DOMAIN m
                            /\ next.ip \in Nat /\ next.stack \in Seq(Nat)
      BY <2>2, FetchedTyped DEF EngineTypeOK, Machine
    <2> HIDE DEF next
    <2> QED BY <2>1, <2>3, MachineTyped
  <1>8. CASE h_unknown
    BY <1>8, FetchedTyped DEF h_unknown, Dispatched, EngineTypeOK, Machine
  <1>9. ASSUME MaxStepsReached \/ IpOutOfRange PROVE EngineTypeOK'
    BY <1>9 DEF MaxStepsReached, IpOutOfRange, EngineTypeOK, Machine, Raised
  <1>10. CASE UNCHANGED clientVars
    BY <1>10 DEF clientVars, EngineTypeOK
  <1> QED
    BY <1>2, <1>3, <1>4, <1>5, <1>6, <1>7, <1>8, <1>9, <1>10,
       <1>11, <1>12, <1>13, <1>14, <1>15
    DEF ClientNext

\* The first machine is the reference's.
LEMMA InitRefines == ClientInit => Reference!RefInit
  BY SameMachine, SameWords DEF ClientInit, Reference!RefInit

\* No step writes the code or the permutation.
LEMMA CodeStays == [ClientNext]_clientVars => UNCHANGED <<code, perm>>
  BY DEF ClientNext, clientVars, Dispatched, h_nop, h_mov_ri, h_mov_rr, h_load, h_store,
         h_alu3, h_not, h_shift, h_cmp, h_cmov, h_jmp, h_jcc, h_call, h_ret, h_hash,
         h_mix, h_halt, h_unknown, MaxStepsReached, IpOutOfRange

\* Where no MOV_RI is near the end of the code, none is cut off.
LEMMA ImmediateIsWhole == EngineTypeOK /\ ImmediatesWhole(code) => WholeImmediate
  <1> SUFFICES ASSUME EngineTypeOK, ImmediatesWhole(code), Fetches, Op = "MOV_RI"
               PROVE  Has(9)
    BY DEF WholeImmediate
  <1>1. m.ip + 1 \in DOMAIN code /\ code[m.ip + 1] \in Byte
    BY DEF EngineTypeOK, Fetches
  <1>2. Op # "unknown"
    OBVIOUS
  <1>3. OPCODES["MOV_RI"] = code[m.ip + 1]
    BY <1>1, <1>2, DecodedOp DEF Op
  <1> QED BY <1>1, <1>3 DEF ImmediatesWhole, Has, EngineTypeOK

\* The client's engine (vm.cpp) implements the server's (vm_reference.py) on every
\* bytecode that cuts no immediate off, as the shipped program does: digests,
\* path, flags, halt code and exceptions agree step by step, for every session's
\* permutation.
THEOREM EngineImplementsReference == ClientSpec /\ ImmediatesWhole(code) => ImplementsReference
  <1>1. ClientInit => EngineTypeOK /\ Reference!RefInit
    BY InitTyped, InitRefines
  <1>2. EngineTypeOK /\ ImmediatesWhole(code) /\ [ClientNext]_clientVars =>
          EngineTypeOK' /\ [Reference!RefNext]_(Reference!refVars)
    BY StepTyped, StepRefines, ImmediateIsWhole
  <1>3. ImmediatesWhole(code) /\ [ClientNext]_clientVars => ImmediatesWhole(code)'
    BY CodeStays DEF ImmediatesWhole
  <1> QED BY <1>1, <1>2, <1>3, PTL DEF ClientSpec, ImplementsReference, Reference!RefSpec

\* The same for what the assembler made of a source.
THEOREM ProgramImplementsReference == Spec /\ ImmediatesWhole(code) => ImplementsReference
  <1>1. Init => ClientInit
    BY DEF Init
  <1>2. [Next]_vars => [ClientNext]_clientVars
    BY DEF Next, vars
  <1>3. Spec => ClientSpec
    BY <1>1, <1>2, PTL DEF Spec, ClientSpec
  <1> QED BY <1>3, EngineImplementsReference
-----------------------------------------------------------------------------
(***************************************************************************)
(* The assembler.                                                          *)
(***************************************************************************)
IsLabel(item) == item.op = "label"

\* The operands of the instruction set.
LEMMA OperandLengths ==
  /\ \A op \in Opcode : OPERAND_LEN[op] \in 0 .. 9
  /\ \A op \in BranchOps : op \in Opcode /\ OPERAND_LEN[op] = 2
  /\ OPERAND_LEN["MOV_RI"] = 9 /\ "label" \notin Opcode /\ "unknown" \notin Opcode
  BY OpcodeSet DEF OPERAND_LEN, BranchOps

\* The room an item takes.
LEMMA SizeIs ==
  ASSUME NEW item \in Item
  PROVE  /\ InstrSize(item) \in Nat
         /\ IsLabel(item) => InstrSize(item) = 0
         /\ ~IsLabel(item) => /\ item.op \in Opcode
                              /\ InstrSize(item) = 1 + OPERAND_LEN[item.op]
                              /\ InstrSize(item) \in Nat \ {0}
  <1>1. item.op \in Opcode \cup {"label"}
    BY DEF Item
  <1> QED BY <1>1, OperandLengths DEF InstrSize, IsLabel

OffsetsAre(items, g) ==
  g = [k \in 0 .. Len(items) |-> IF k = 0 THEN 0 ELSE g[k - 1] + InstrSize(items[k])]

\* The offsets of a source.
LEMMA OffsetsHold ==
  ASSUME NEW items \in Seq(Item), NEW g, OffsetsAre(items, g)
  PROVE  /\ g \in [0 .. Len(items) -> Nat] /\ g[0] = 0
         /\ \A k \in 1 .. Len(items) : g[k] = g[k - 1] + InstrSize(items[k])
  <1>1. PICK n \in Nat : n = Len(items)
    OBVIOUS
  <1>2. g = [k \in 0 .. n |-> IF k = 0 THEN 0 ELSE g[k - 1] + InstrSize(items[k])]
    BY <1>1 DEF OffsetsAre
  <1>3. g[0] = 0 /\ \A k \in 1 .. n : g[k] = g[k - 1] + InstrSize(items[k])
    BY <1>2
  <1> DEFINE Good == {k \in Nat : k <= n => g[k] \in Nat}
  <1>4. 0 \in Good
    BY <1>3
  <1>5. ASSUME NEW k \in Good PROVE k + 1 \in Good
    <2>1. SUFFICES ASSUME k + 1 <= n PROVE g[k + 1] \in Nat
      OBVIOUS
    <2>2. k + 1 \in 1 .. n /\ (k + 1) - 1 = k /\ g[k] \in Nat
      BY <2>1
    <2>3. items[k + 1] \in Item
      BY <1>1, <2>2
    <2>4. InstrSize(items[k + 1]) \in Nat
      BY <2>3, SizeIs
    <2> QED BY <1>3, <2>2, <2>4
  <1>6. Nat \subseteq Good
    <2> HIDE DEF Good
    <2> QED BY <1>4, <1>5, SetInduction
  <1>7. \A k \in 0 .. n : g[k] \in Nat
    BY <1>6
  <1>8. g = [k \in 0 .. n |-> g[k]]
    BY <1>2
  <1> QED BY <1>1, <1>3, <1>7, <1>8

LEMMA OffsetsExist ==
  ASSUME NEW items \in Seq(Item)
  PROVE  OffsetsAre(items, Offsets(items))
  <1>1. PICK n \in Nat : n = Len(items)
    OBVIOUS
  <1> DEFINE size(k) == IF k \in 1 .. n THEN InstrSize(items[k]) ELSE 0
             step == [z \in Nat \X Nat |-> z[1] + size(z[2])]
  <1>2. ASSUME NEW k \in Nat PROVE size(k) \in Nat
    <2>1. CASE k \in 1 .. n
      <3>1. items[k] \in Item
        BY <1>1, <2>1
      <3> QED BY <2>1, <3>1, SizeIs
    <2> QED BY <2>1
  <1>3. step \in [Nat \X Nat -> Nat]
    <2> HIDE DEF size
    <2>1. ASSUME NEW z \in Nat \X Nat PROVE z[1] + size(z[2]) \in Nat
      <3>1. z[1] \in Nat /\ size(z[2]) \in Nat
        BY <1>2
      <3> QED BY <3>1
    <2> QED BY <2>1
  <1>4. PICK g : Loops(g, Nat, 0, step, n)
    <2>1. PICK A, a : A = Nat /\ a = 0
      OBVIOUS
    <2>2. a \in A /\ step \in [A \X Nat -> A]
      BY <1>3, <2>1
    <2> HIDE DEF step
    <2>3. \E g : Loops(g, A, a, step, n)
      BY <2>2, LoopExists
    <2> QED BY <2>1, <2>3
  <1>5. g \in [0 .. n -> Nat] /\ g[0] = 0 /\ \A k \in 1 .. n : g[k] = step[<<g[k - 1], k>>]
    <2> HIDE DEF step
    <2> QED BY <1>4 DEF Loops
  <1>6. ASSUME NEW k \in 1 .. n PROVE g[k] = g[k - 1] + InstrSize(items[k])
    <2>1. k - 1 \in 0 .. n /\ k \in Nat
      OBVIOUS
    <2>2. g[k - 1] \in Nat
      BY <1>5, <2>1
    <2> HIDE DEF size
    <2>3. step[<<g[k - 1], k>>] = g[k - 1] + size(k)
      BY <2>1, <2>2
    <2>4. size(k) = InstrSize(items[k])
      BY DEF size
    <2> HIDE DEF step
    <2> QED BY <1>5, <2>3, <2>4
  <1>7. g = [k \in 0 .. n |-> IF k = 0 THEN 0 ELSE g[k - 1] + InstrSize(items[k])]
    <2> HIDE DEF step
    <2>1. g = [k \in 0 .. n |-> g[k]]
      BY <1>5
    <2>2. ASSUME NEW k \in 0 .. n
          PROVE  g[k] = IF k = 0 THEN 0 ELSE g[k - 1] + InstrSize(items[k])
      <3>1. k = 0 \/ k \in 1 .. n
        OBVIOUS
      <3> QED BY <1>5, <1>6, <3>1
    <2> QED BY <2>1, <2>2
  <1>8. OffsetsAre(items, g)
    BY <1>1, <1>7 DEF OffsetsAre
  <1> QED BY <1>8 DEF OffsetsAre, Offsets

\* Later items are further on.
LEMMA OffsetsGrow ==
  ASSUME NEW items \in Seq(Item), NEW i \in 0 .. Len(items), NEW j \in 0 .. Len(items), i <= j
  PROVE  Offsets(items)[i] <= Offsets(items)[j]
  <1>0. PICK n \in Nat : n = Len(items)
    OBVIOUS
  <1>1. PICK g : n = Len(items) /\ g = Offsets(items)
    BY <1>0
  <1>2. g \in [0 .. n -> Nat] /\ \A k \in 1 .. n : g[k] = g[k - 1] + InstrSize(items[k])
    BY <1>1, OffsetsExist, OffsetsHold
  <1> DEFINE Good == {k \in Nat : i + k <= n => g[i] <= g[i + k]}
  <1>3. 0 \in Good
    BY <1>1, <1>2
  <1>4. ASSUME NEW k \in Good PROVE k + 1 \in Good
    <2>1. SUFFICES ASSUME i + (k + 1) <= n PROVE g[i] <= g[i + (k + 1)]
      OBVIOUS
    <2>2. PICK l \in Nat : l = i + k
      OBVIOUS
    <2>3. l + 1 \in 1 .. n /\ (l + 1) - 1 = l /\ l \in 0 .. n /\ i + (k + 1) = l + 1
      BY <2>1, <2>2
    <2>4. g[i] <= g[l]
      BY <2>1, <2>2
    <2>5. items[l + 1] \in Item
      BY <1>1, <2>3
    <2>6. InstrSize(items[l + 1]) \in Nat
      BY <2>5, SizeIs
    <2>7. g[l + 1] = g[l] + InstrSize(items[l + 1])
      BY <1>2, <2>3
    <2>8. g[i] \in Nat /\ g[l] \in Nat
      BY <1>1, <1>2, <2>3
    <2> QED BY <2>3, <2>4, <2>6, <2>7, <2>8
  <1>5. Nat \subseteq Good
    <2> HIDE DEF Good
    <2> QED BY <1>3, <1>4, SetInduction
  <1>6. j - i \in Nat /\ i + (j - i) = j
    OBVIOUS
  <1>7. j - i \in Good
    BY <1>5, <1>6
  <1> QED BY <1>1, <1>6, <1>7
-----------------------------------------------------------------------------
\* The label of a name that is in the source has an item's offset.
LEMMA LabelIs ==
  ASSUME NEW items \in Seq(Item), NEW name, Label(name) \in ToSet(items)
  PROVE  \E k \in 1 .. Len(items) : LabelAddr(items, name) = Offsets(items)[k - 1]
  <1> DEFINE At == {k \in DOMAIN items : items[k] = Label(name)}
             Latest(k) == \A other \in At : other <= k
             last == CHOOSE k \in At : Latest(k)
  <1>1. PICK n \in Nat : n = Len(items)
    OBVIOUS
  <1>2. DOMAIN items = 1 .. n
    BY <1>1
  <1>3. At \subseteq 1 .. n /\ At # {}
    BY <1>2 DEF ToSet
  <1>4. \E k \in At : Latest(k)
    <2> HIDE DEF At
    <2> QED BY <1>3, NatMax
  <1>5. last \in At
    <2> HIDE DEF At, Latest
    <2> QED BY <1>4
  <1>6. LabelAddr(items, name) = Offset(items, last)
    BY DEF LabelAddr
  <1> HIDE DEF last
  <1> QED BY <1>1, <1>3, <1>5, <1>6 DEF Offset

\* No label lies behind the end of the code.
LEMMA LabelFits ==
  ASSUME NEW items, Assembles(items), NEW name, Label(name) \in ToSet(items)
  PROVE  /\ LabelAddr(items, name) \in Nat
         /\ LabelAddr(items, name) < AddressSpace
         /\ \E k \in 0 .. Len(items) : LabelAddr(items, name) = Offsets(items)[k]
  <1>0. items \in Seq(Item) /\ Offset(items, Len(items) + 1) < AddressSpace
    BY DEF Assembles
  <1>1. PICK n \in Nat : n = Len(items)
    BY <1>0
  <1>2. PICK g : g = Offsets(items)
    OBVIOUS
  <1>3. g \in [0 .. n -> Nat]
    BY <1>0, <1>1, <1>2, OffsetsExist, OffsetsHold
  <1>4. PICK k \in 1 .. n : LabelAddr(items, name) = g[k - 1]
    BY <1>0, <1>1, <1>2, LabelIs
  <1>5. PICK j \in 0 .. n : j = k - 1
    OBVIOUS
  <1>6. g[j] <= g[n]
    BY <1>0, <1>1, <1>2, OffsetsGrow
  <1>7. g[n] < AddressSpace
    <2>1. (n + 1) - 1 = n
      OBVIOUS
    <2> QED BY <1>0, <1>1, <1>2, <2>1 DEF Offset
  <1>8. g[j] \in Nat /\ g[n] \in Nat
    BY <1>3
  <1>9. g[j] < AddressSpace
    BY <1>6, <1>7, <1>8 DEF AddressSpace
  <1>10. LabelAddr(items, name) = g[j]
    BY <1>4, <1>5
  <1>11. j \in 0 .. Len(items) /\ LabelAddr(items, name) = Offsets(items)[j]
    BY <1>1, <1>2, <1>10
  <1> QED BY <1>8, <1>9, <1>10, <1>11

\* Two bytes hold an address.
LEMMA TwoBytes ==
  ASSUME NEW a \in Nat, a < AddressSpace
  PROVE  /\ a % AddressSpace = a /\ a \div 256 \in Byte /\ a % 256 \in Byte
         /\ (a \div 256) * 256 + (a % 256) = a
  BY DEF Byte, AddressSpace

\* The operand bytes of an instruction.
LEMMA BodyIs ==
  ASSUME NEW items, Assembles(items), NEW item \in ToSet(items), ~IsLabel(item)
  PROVE  /\ item \in Item /\ item.op \in Opcode
         /\ Body(items, item) \in Seq(Byte)
         /\ Len(Body(items, item)) = OPERAND_LEN[item.op]
         /\ item.op \in BranchOps =>
              Body(items, item)[1] * 256 + Body(items, item)[2] = Target(items, item)
         /\ item.ref # "" => \E k \in 0 .. Len(items) : Target(items, item) = Offsets(items)[k]
  <1>1. PICK k \in DOMAIN items : items[k] = item
    BY DEF ToSet
  <1>0. items \in Seq(Item)
    BY DEF Assembles
  <1>2. items \in Seq(Item) /\ item \in Item
    BY <1>0, <1>1
  <1>3. CASE item.op \in Opcode /\ item.ref = "" /\ Len(item.args) = OPERAND_LEN[item.op]
    <2>1. Body(items, item) = item.args /\ item.args \in Seq(Byte)
      BY <1>2, <1>3 DEF Body, Item
    <2> QED BY <1>2, <1>3, <2>1 DEF Target
  <1>4. CASE item.op \in BranchOps /\ item.ref # "" /\ Label(item.ref) \in ToSet(items)
    <2>1. PICK a : a = LabelAddr(items, item.ref)
      OBVIOUS
    <2>2. a \in Nat /\ a < AddressSpace /\ \E l \in 0 .. Len(items) : a = Offsets(items)[l]
      BY <1>4, <2>1, LabelFits
    <2>3. /\ a % AddressSpace = a /\ a \div 256 \in Byte /\ a % 256 \in Byte
          /\ (a \div 256) * 256 + (a % 256) = a
      BY <2>2, TwoBytes
    <2>4. Body(items, item) = <<a \div 256, a % 256>>
      BY <1>4, <2>1, <2>3, ZenonT(60) DEF Body, EmitAt, Emit
    <2>5. Body(items, item) \in Seq(Byte) /\ Len(Body(items, item)) = 2
      BY <2>3, <2>4
    <2>6. Target(items, item) = a
      BY <1>4, <2>1 DEF Target
    <2>7. Body(items, item)[1] * 256 + Body(items, item)[2] = a
      BY <2>3, <2>4
    <2> QED BY <1>2, <1>4, <2>2, <2>5, <2>6, <2>7, OperandLengths
  <1> QED BY <1>1, <1>3, <1>4 DEF Assembles, IsLabel

\* What is emitted for an item takes the room of pass 1.
LEMMA EmittedIs ==
  ASSUME NEW items, Assembles(items), NEW item \in ToSet(items)
  PROVE  /\ Emitted(items, item) \in Seq(Byte)
         /\ Len(Emitted(items, item)) = InstrSize(item)
         /\ ~IsLabel(item) =>
              /\ Emitted(items, item)[1] = OPCODES[item.op]
              /\ \A i \in 1 .. OPERAND_LEN[item.op] :
                   Emitted(items, item)[1 + i] = Body(items, item)[i]
  <1>1. CASE IsLabel(item)
    BY <1>1, EmptySeq DEF Emitted, InstrSize, IsLabel
  <1>2. CASE ~IsLabel(item)
    <2>1. PICK b \in Seq(Byte) : b = Body(items, item)
      BY <1>2, BodyIs
    <2>2. Len(b) = OPERAND_LEN[item.op] /\ item.op \in Opcode
      BY <1>2, <2>1, BodyIs
    <2>3. PICK o \in Byte : o = OPCODES[item.op]
      BY <2>2, OpcodesDiffer
    <2>4. Emitted(items, item) = <<o>> \o b
      BY <1>2, <2>1, <2>3 DEF Emitted, IsLabel
    <2>5. PICK h : h = <<o>>
      OBVIOUS
    <2>9. h \in Seq(Byte) /\ Len(h) = 1 /\ h[1] = o
      BY <2>5
    <2>10. PICK l \in Nat : l = Len(b)
      OBVIOUS
    <2>11. /\ h \o b \in Seq(Byte) /\ Len(h \o b) = 1 + l
           /\ \A j \in 1 .. 1 + l : (h \o b)[j] = IF j <= 1 THEN h[j] ELSE b[j - 1]
      <3>1. /\ h \o b \in Seq(Byte) /\ Len(h \o b) = Len(h) + Len(b)
            /\ \A j \in 1 .. Len(h) + Len(b) :
                 (h \o b)[j] = IF j <= Len(h) THEN h[j] ELSE b[j - Len(h)]
        BY <2>9, ConcatProperties
      <3> QED BY <2>9, <2>10, <3>1
    <2>6. Len(h \o b) = 1 + Len(b) /\ (h \o b)[1] = o
      BY <2>9, <2>10, <2>11
    <2>7. ASSUME NEW i \in 1 .. l PROVE (h \o b)[1 + i] = b[i]
      <3>1. 1 + i \in 1 .. 1 + l /\ ~(1 + i <= 1) /\ (1 + i) - 1 = i
        OBVIOUS
      <3> QED BY <2>11, <3>1
    <2>8. InstrSize(item) = 1 + OPERAND_LEN[item.op]
      BY <1>2 DEF InstrSize, IsLabel
    <2> QED BY <2>1, <2>2, <2>3, <2>4, <2>5, <2>6, <2>7, <2>8, <2>10, <2>11
  <1> QED BY <1>1, <1>2

\* What is emitted, item by item.
Parts(items) == [k \in DOMAIN items |-> Emitted(items, items[k])]

LEMMA PartsAre ==
  ASSUME NEW items, Assembles(items), NEW n \in Nat, n = Len(items)
  PROVE  /\ SeqsOf(Parts(items), Byte, n)
         /\ Marks(Offsets(items), Parts(items), n)
         /\ \A k \in 1 .. n : Parts(items)[k] = Emitted(items, items[k])
  <1>1. items \in Seq(Item) /\ DOMAIN items = 1 .. n
    <2>1. items \in Seq(Item)
      BY DEF Assembles
    <2> QED BY <2>1
  <1>2. \A k \in 1 .. n : Parts(items)[k] = Emitted(items, items[k])
    BY <1>1 DEF Parts
  <1>3. ASSUME NEW k \in 1 .. n
        PROVE  /\ Parts(items)[k] \in Seq(Byte)
               /\ Len(Parts(items)[k]) = InstrSize(items[k])
    <2>1. items[k] \in ToSet(items)
      BY <1>1 DEF ToSet
    <2> QED BY <1>2, <2>1, EmittedIs
  <1>4. SeqsOf(Parts(items), Byte, n)
    <2>1. Parts(items) = [k \in 1 .. n |-> Parts(items)[k]]
      BY <1>1 DEF Parts
    <2> QED BY <1>3, <2>1 DEF SeqsOf
  <1>5. OffsetsAre(items, Offsets(items))
    BY <1>1, OffsetsExist
  <1>6. /\ Offsets(items) \in [0 .. n -> Nat] /\ Offsets(items)[0] = 0
        /\ \A k \in 1 .. n : Offsets(items)[k] = Offsets(items)[k - 1] + InstrSize(items[k])
    BY <1>1, <1>5, OffsetsHold
  <1>7. Marks(Offsets(items), Parts(items), n)
    BY <1>3, <1>6 DEF Marks
  <1> QED BY <1>2, <1>4, <1>7

\* The k-th item's bytes are where pass 1 put them.
CodeAt(items, bytes, k) ==
  /\ Offsets(items)[k] = Offsets(items)[k - 1] + InstrSize(items[k])
  /\ Offsets(items)[k] <= Len(bytes)
  /\ \A i \in 1 .. InstrSize(items[k]) :
       bytes[Offsets(items)[k - 1] + i] = Emitted(items, items[k])[i]

LEMMA AssembleIs ==
  ASSUME NEW items, Assembles(items)
  PROVE  /\ Assemble(items) \in Seq(Byte)
         /\ Len(Assemble(items)) = Offsets(items)[Len(items)]
         /\ \A k \in 1 .. Len(items) : CodeAt(items, Assemble(items), k)
  <1>1. items \in Seq(Item)
    BY DEF Assembles
  <1>2. PICK n \in Nat : n = Len(items)
    BY <1>1
  <1>3. PICK seqs, g : seqs = Parts(items) /\ g = Offsets(items)
    OBVIOUS
  <1>4. SeqsOf(seqs, Byte, n) /\ Marks(g, seqs, n)
        /\ \A k \in 1 .. n : seqs[k] = Emitted(items, items[k])
    BY <1>2, <1>3, PartsAre
  <1>5. PICK bytes : bytes = FlattenSeq(seqs)
    OBVIOUS
  <1>6. bytes = Assemble(items)
    BY <1>3, <1>5 DEF Assemble, Parts
  <1>7. /\ bytes \in Seq(Byte) /\ Len(bytes) = g[n]
        /\ \A k \in 1 .. n : /\ g[k] = g[k - 1] + Len(seqs[k]) /\ g[k] <= g[n]
                             /\ \A i \in 1 .. Len(seqs[k]) : bytes[g[k - 1] + i] = seqs[k][i]
    BY <1>4, <1>5, FlattenAt, SMTT(30)
  <1>8. ASSUME NEW k \in 1 .. n PROVE Len(seqs[k]) = InstrSize(items[k])
    <2>1. items[k] \in ToSet(items)
      BY <1>1, <1>2 DEF ToSet
    <2> QED BY <1>4, <2>1, EmittedIs
  <1>9. ASSUME NEW k \in 1 .. n PROVE CodeAt(items, bytes, k)
    <2>1. g[k] = g[k - 1] + InstrSize(items[k]) /\ g[k] <= Len(bytes)
      BY <1>7, <1>8
    <2>2. \A i \in 1 .. InstrSize(items[k]) : bytes[g[k - 1] + i] = Emitted(items, items[k])[i]
      <3>1. \A i \in 1 .. Len(seqs[k]) : bytes[g[k - 1] + i] = seqs[k][i]
        BY <1>7
      <3> QED BY <1>4, <1>8, <3>1
    <2> QED BY <1>3, <2>1, <2>2 DEF CodeAt
  <1> QED BY <1>2, <1>3, <1>6, <1>7, <1>9

\* What the disassembler yields at the offset of an instruction.
LEMMA LineIs ==
  ASSUME NEW items, Assembles(items), NEW k \in 1 .. Len(items), ~IsLabel(items[k]),
         NEW bytes, bytes = Assemble(items)
  PROVE  /\ Offset(items, k) \in Nat /\ Offset(items, k) < Len(bytes)
         /\ Decoded[bytes[Offset(items, k) + 1]] = items[k].op
         /\ LineAt(bytes, Offset(items, k)) =
              [at |-> Offset(items, k), op |-> items[k].op, args |-> Body(items, items[k])]
         /\ Offsets(items)[k] = Offset(items, k) + 1 + OPERAND_LEN[items[k].op]
         /\ Offsets(items)[k] <= Len(bytes)
         /\ \A i \in 1 .. OPERAND_LEN[items[k].op] :
              bytes[Offset(items, k) + 1 + i] = Body(items, items[k])[i]
  <1>1. items \in Seq(Item)
    BY DEF Assembles
  <1>2. PICK item : item = items[k]
    OBVIOUS
  <1>3. item \in Item /\ item \in ToSet(items) /\ ~IsLabel(item)
    BY <1>1, <1>2 DEF ToSet
  <1>4. PICK l \in Nat : l = OPERAND_LEN[item.op] /\ InstrSize(item) = 1 + l /\ item.op \in Opcode
    <2>1. item.op \in Opcode /\ InstrSize(item) = 1 + OPERAND_LEN[item.op]
      BY <1>3, SizeIs
    <2>2. OPERAND_LEN[item.op] \in Nat
      BY <2>1, OperandLengths
    <2> QED BY <2>1, <2>2
  <1>6. PICK o \in Nat : o = Offset(items, k)
    <2>1. PICK n \in Nat : n = Len(items)
      BY <1>1
    <2>2. Offsets(items) \in [0 .. n -> Nat]
      BY <1>1, <2>1, OffsetsExist, OffsetsHold
    <2>3. k - 1 \in 0 .. n
      BY <2>1
    <2> QED BY <2>2, <2>3 DEF Offset
  <1>7. CodeAt(items, bytes, k) /\ bytes \in Seq(Byte)
    BY AssembleIs
  <1>8. PICK e \in Seq(Byte) : e = Emitted(items, item)
    BY <1>3, EmittedIs
  <1>9. PICK b \in Seq(Byte) : b = Body(items, item)
    BY <1>3, BodyIs
  <1>10. Len(b) = l
    BY <1>3, <1>4, <1>9, BodyIs
  <1>11. e[1] = OPCODES[item.op] /\ \A i \in 1 .. l : e[1 + i] = b[i]
    BY <1>3, <1>4, <1>8, <1>9, EmittedIs
  <1>5. PICK n \in Nat : n = Len(bytes)
    BY <1>7
  <1>12. /\ Offsets(items)[k] = o + (1 + l) /\ o + (1 + l) <= n
         /\ \A i \in 1 .. 1 + l : bytes[o + i] = e[i]
    BY <1>2, <1>4, <1>5, <1>6, <1>7, <1>8 DEF CodeAt, Offset
  <1>13. bytes[o + 1] = OPCODES[item.op]
    <2>1. 1 \in 1 .. 1 + l
      OBVIOUS
    <2> QED BY <1>11, <1>12, <2>1
  <1>14. Decoded[bytes[o + 1]] = item.op
    <2>1. PICK c \in Byte : c = OPCODES[item.op]
      BY <1>4, OpcodesDiffer
    <2> QED BY <1>4, <1>13, <2>1, DecodedOp, OpcodesDiffer
  <1>15. SubSeq(bytes, o + 2, o + 1 + l) = b
    <2>1. PICK x \in Nat, y \in Nat : x = o + 2 /\ y = o + 1 + l
      OBVIOUS
    <2>2. x >= 1 /\ y <= Len(bytes) /\ x <= y + 1
      BY <1>5, <1>12, <2>1
    <2>3. SubSeq(bytes, x, y) = Slice(bytes, x, y)
      BY <1>7, <2>2, SubSeqSlice
    <2>4. y - x + 1 = l
      BY <2>1
    <2>5. ASSUME NEW i \in 1 .. l PROVE bytes[x + i - 1] = b[i]
      <3>1. x + i - 1 = o + (1 + i) /\ 1 + i \in 1 .. 1 + l
        BY <2>1
      <3> QED BY <1>11, <1>12, <3>1
    <2>6. b = [i \in 1 .. l |-> b[i]]
      BY <1>10, SeqIs
    <2>7. Slice(bytes, x, y) = b
      BY <2>4, <2>5, <2>6 DEF Slice
    <2> QED BY <2>1, <2>3, <2>7
  <1>16. item.op # "unknown"
    BY <1>4, OperandLengths
  <1>17. LineAt(bytes, o) = [at |-> o, op |-> item.op, args |-> b]
    <2>1. o + 1 + l <= Len(bytes)
      BY <1>5, <1>12
    <2> QED BY <1>4, <1>14, <1>15, <1>16, <2>1 DEF LineAt
  <1>18. o < Len(bytes) /\ Offsets(items)[k] = o + 1 + l /\ Offsets(items)[k] <= Len(bytes)
    BY <1>5, <1>12
  <1>19. ASSUME NEW i \in 1 .. l PROVE bytes[o + 1 + i] = b[i]
    <2>1. o + 1 + i = o + (1 + i) /\ 1 + i \in 1 .. 1 + l
      OBVIOUS
    <2> QED BY <1>11, <1>12, <2>1
  <1> QED BY <1>2, <1>4, <1>6, <1>9, <1>14, <1>17, <1>18, <1>19
-----------------------------------------------------------------------------
(***************************************************************************)
(* The disassembler.                                                       *)
(***************************************************************************)

\* The state of decode's loop.
Turn(bytes) == [ip : Nat, lines : Seq({LineAt(bytes, ip) : ip \in Nat})]

\* The opcode of a line.
LEMMA LineOp ==
  ASSUME NEW bytes \in Seq(Byte), NEW ip \in Nat, ip < Len(bytes)
  PROVE  /\ LineAt(bytes, ip).op = Decoded[bytes[ip + 1]]
         /\ LineAt(bytes, ip).op \in Opcode \cup {"unknown"}
  <1>1. ip + 1 \in 1 .. Len(bytes)
    OBVIOUS
  <1>2. bytes[ip + 1] \in Byte
    BY <1>1
  <1>3. Decoded[bytes[ip + 1]] \in Opcode \cup {"unknown"}
    BY <1>2, DecodedOp
  <1>4. LineAt(bytes, ip).op = Decoded[bytes[ip + 1]]
    BY DEF LineAt
  <1> QED BY <1>3, <1>4

LEMMA TurnTyped ==
  ASSUME NEW bytes \in Seq(Byte), NEW d \in Turn(bytes)
  PROVE  DecodeTurn(bytes, d) \in Turn(bytes)
  <1> DEFINE Yields == {LineAt(bytes, ip) : ip \in Nat}
  <1>1. d.ip \in Nat /\ d.lines \in Seq(Yields)
    BY DEF Turn
  <1>2. PICK line \in Yields : line = LineAt(bytes, d.ip)
    BY <1>1
  <1>3. CASE d.ip >= Len(bytes)
    BY <1>3 DEF DecodeTurn
  <1>4. CASE ~(d.ip >= Len(bytes))
    <2>1. Len(bytes) \in Nat /\ d.ip < Len(bytes)
      BY <1>1, <1>4
    <2>2. line.op \in Opcode \cup {"unknown"}
      BY <1>1, <1>2, <2>1, LineOp
    <2>3. PICK l \in Nat : l = IF line.op = "unknown" THEN 0 ELSE OPERAND_LEN[line.op]
      BY <2>2, OperandLengths
    <2>4. Append(d.lines, line) \in Seq(Yields)
      <3> HIDE DEF Yields
      <3> QED BY <1>1, AppendProperties
    <2>5. DecodeTurn(bytes, d) = [ip |-> d.ip + 1 + l, lines |-> Append(d.lines, line)]
      BY <1>2, <1>4, <2>3 DEF DecodeTurn
    <2>6. d.ip + 1 + l \in Nat
      BY <1>1
    <2> QED BY <2>4, <2>5, <2>6 DEF Turn
  <1> QED BY <1>3, <1>4

TurnsAre(bytes, turn) ==
  turn = [k \in 0 .. Len(bytes) |->
            IF k = 0 THEN [ip |-> 0, lines |-> <<>>] ELSE DecodeTurn(bytes, turn[k - 1])]

LEMMA TurnsExist ==
  ASSUME NEW bytes \in Seq(Byte)
  PROVE  \E turn : TurnsAre(bytes, turn)
  <1>1. PICK n \in Nat : n = Len(bytes)
    OBVIOUS
  <1>2. PICK A : A = Turn(bytes)
    OBVIOUS
  <1>3. PICK a \in A : a = [ip |-> 0, lines |-> <<>>]
    <2>1. [ip |-> 0, lines |-> <<>>] \in Turn(bytes)
      BY EmptySeq DEF Turn
    <2> QED BY <1>2, <2>1
  <1> DEFINE step == [z \in A \X Nat |-> DecodeTurn(bytes, z[1])]
  <1>4. step \in [A \X Nat -> A]
    <2>1. ASSUME NEW z \in A \X Nat PROVE DecodeTurn(bytes, z[1]) \in A
      <3>1. z[1] \in A
        OBVIOUS
      <3> QED BY <1>2, <3>1, TurnTyped
    <2> QED BY <2>1
  <1>5. PICK g : Loops(g, A, a, step, n)
    <2> HIDE DEF step
    <2> QED BY <1>4, LoopExists
  <1>6. g \in [0 .. n -> A] /\ g[0] = a /\ \A i \in 1 .. n : g[i] = step[<<g[i - 1], i>>]
    <2> HIDE DEF step
    <2> QED BY <1>5 DEF Loops
  <1>7. ASSUME NEW i \in 1 .. n PROVE g[i] = DecodeTurn(bytes, g[i - 1])
    <2>1. i - 1 \in 0 .. n /\ i \in Nat
      OBVIOUS
    <2>2. PICK x \in A : x = g[i - 1]
      BY <1>6, <2>1
    <2>3. <<x, i>> \in A \X Nat /\ <<x, i>>[1] = x
      BY <2>1
    <2>4. step[<<x, i>>] = DecodeTurn(bytes, <<x, i>>[1])
      BY <2>3
    <2> HIDE DEF step
    <2> QED BY <1>6, <2>2, <2>3, <2>4
  <1> HIDE DEF step
  <1>8. g = [k \in 0 .. n |->
               IF k = 0 THEN [ip |-> 0, lines |-> <<>>] ELSE DecodeTurn(bytes, g[k - 1])]
    <2>1. g = [k \in 0 .. n |-> g[k]]
      BY <1>6
    <2>2. ASSUME NEW k \in 0 .. n
          PROVE  g[k] = IF k = 0 THEN [ip |-> 0, lines |-> <<>>] ELSE DecodeTurn(bytes, g[k - 1])
      <3>1. k = 0 \/ k \in 1 .. n
        OBVIOUS
      <3> QED BY <1>3, <1>6, <1>7, <3>1
    <2> QED BY <2>1, <2>2
  <1>9. TurnsAre(bytes, g)
    BY <1>1, <1>8 DEF TurnsAre
  <1> QED BY <1>9

\* turn holds the turns of decode's loop.
Decodes(turn, bytes, n) ==
  /\ turn[0] = [ip |-> 0, lines |-> <<>>]
  /\ \A k \in 1 .. n : turn[k] = DecodeTurn(bytes, turn[k - 1])

\* Listing is what a loop of that kind ends with.
LEMMA ListingTurns ==
  ASSUME NEW bytes \in Seq(Byte), NEW n \in Nat, n = Len(bytes)
  PROVE  \E turn : Decodes(turn, bytes, n) /\ Listing(bytes) = turn[n].lines
  <1>1. PICK turn : turn = CHOOSE t : TurnsAre(bytes, t)
    OBVIOUS
  <1>2. TurnsAre(bytes, turn)
    BY <1>1, TurnsExist
  <1>3. turn = [k \in 0 .. n |->
                  IF k = 0 THEN [ip |-> 0, lines |-> <<>>] ELSE DecodeTurn(bytes, turn[k - 1])]
    BY <1>2 DEF TurnsAre
  <1>4. turn[0] = [ip |-> 0, lines |-> <<>>]
    BY <1>3
  <1>5. ASSUME NEW k \in 1 .. n PROVE turn[k] = DecodeTurn(bytes, turn[k - 1])
    BY <1>3
  <1>6. Listing(bytes) = turn[n].lines
    BY <1>1 DEF Listing, TurnsAre
  <1> QED BY <1>4, <1>5, <1>6 DEF Decodes


\* The lines of a source, item by item.
LineParts(items) == [k \in DOMAIN items |-> LinesOf(items, k)]

SourceLine == [at : Nat, op : Opcode, args : Seq(Byte)]

LEMMA LinePartsAre ==
  ASSUME NEW items, Assembles(items), NEW n \in Nat, n = Len(items)
  PROVE  /\ SeqsOf(LineParts(items), SourceLine, n)
         /\ \A k \in 1 .. n :
              /\ IsLabel(items[k]) => LineParts(items)[k] = <<>>
              /\ ~IsLabel(items[k]) =>
                   /\ LineAt(Assemble(items), Offset(items, k)) \in SourceLine
                   /\ LineParts(items)[k] = <<LineAt(Assemble(items), Offset(items, k))>>
  <1>1. items \in Seq(Item) /\ DOMAIN items = 1 .. n
    <2>1. items \in Seq(Item)
      BY DEF Assembles
    <2> QED BY <2>1
  <1>2. \A k \in 1 .. n : LineParts(items)[k] = LinesOf(items, k)
    BY <1>1 DEF LineParts
  <1>3. ASSUME NEW k \in 1 .. n, IsLabel(items[k]) PROVE LineParts(items)[k] = <<>>
    BY <1>2, <1>3 DEF LinesOf, IsLabel
  <1>4. ASSUME NEW k \in 1 .. n, ~IsLabel(items[k])
        PROVE  /\ LineAt(Assemble(items), Offset(items, k)) \in SourceLine
               /\ LineParts(items)[k] = <<LineAt(Assemble(items), Offset(items, k))>>
    <2>1. k \in 1 .. Len(items) /\ items[k] \in ToSet(items)
      BY <1>1 DEF ToSet
    <2>2. /\ Offset(items, k) \in Nat
          /\ LineAt(Assemble(items), Offset(items, k)) =
               [at |-> Offset(items, k), op |-> items[k].op, args |-> Body(items, items[k])]
      BY <1>4, <2>1, LineIs
    <2>3. items[k].op \in Opcode /\ Body(items, items[k]) \in Seq(Byte)
      BY <1>4, <2>1, BodyIs
    <2>4. LineAt(Assemble(items), Offset(items, k)) \in SourceLine
      BY <2>2, <2>3 DEF SourceLine
    <2>5. LineParts(items)[k] = <<LineAt(Assemble(items), Offset(items, k))>>
      BY <1>2, <1>4, <2>2 DEF LinesOf, IsLabel
    <2> QED BY <2>4, <2>5
  <1>5. ASSUME NEW k \in 1 .. n PROVE LineParts(items)[k] \in Seq(SourceLine)
    <2>1. CASE IsLabel(items[k])
      BY <1>3, <2>1, EmptySeq
    <2>2. CASE ~IsLabel(items[k])
      <3>1. PICK line \in SourceLine : LineParts(items)[k] = <<line>>
        BY <1>4, <2>2
      <3> QED BY <3>1
    <2> QED BY <2>1, <2>2
  <1>6. LineParts(items) = [k \in 1 .. n |-> LineParts(items)[k]]
    BY <1>1 DEF LineParts
  <1> QED BY <1>3, <1>4, <1>5, <1>6 DEF SeqsOf

\* Once ip is behind the code, decode is at its end.
LEMMA TurnsStay ==
  ASSUME NEW bytes, NEW n \in Nat, n = Len(bytes), NEW turn, Decodes(turn, bytes, n),
         NEW c \in 0 .. n, turn[c].ip >= n
  PROVE  turn[n] = turn[c]
  <1> DEFINE Good == {j \in Nat : c + j <= n => turn[c + j] = turn[c]}
  <1>1. 0 \in Good
    OBVIOUS
  <1>2. ASSUME NEW j \in Good PROVE j + 1 \in Good
    <2>1. SUFFICES ASSUME c + (j + 1) <= n PROVE turn[c + (j + 1)] = turn[c]
      OBVIOUS
    <2>2. PICK h \in Nat : h = c + j /\ h + 1 = c + (j + 1) /\ h + 1 \in 1 .. n /\ (h + 1) - 1 = h
      BY <2>1
    <2>3. turn[h] = turn[c]
      BY <2>1, <2>2
    <2>4. turn[h + 1] = DecodeTurn(bytes, turn[h])
      BY <2>2 DEF Decodes
    <2>5. DecodeTurn(bytes, turn[c]) = turn[c]
      BY DEF DecodeTurn
    <2> QED BY <2>2, <2>3, <2>4, <2>5
  <1>3. Nat \subseteq Good
    <2> HIDE DEF Good
    <2> QED BY <1>1, <1>2, SetInduction
  <1>4. PICK d \in Nat : c + d = n
    <2>1. n - c \in Nat /\ c + (n - c) = n
      OBVIOUS
    <2> QED BY <2>1
  <1>5. c + d <= n => turn[c + d] = turn[c]
    BY <1>3
  <1> QED BY <1>4, <1>5

\* The disassembler reads back what was assembled.
LEMMA ListingIsLines ==
  ASSUME NEW items, Assembles(items)
  PROVE  Listing(Assemble(items)) = Lines(items)
  <1>0. items \in Seq(Item)
    BY DEF Assembles
  <1>1. PICK bytes \in Seq(Byte) : bytes = Assemble(items)
    BY AssembleIs
  <1>2. PICK n \in Nat, N \in Nat : n = Len(items) /\ N = Len(bytes)
    <2>1. Len(items) \in Nat /\ Len(bytes) \in Nat
      BY <1>0, <1>1
    <2> QED BY <2>1
  <1>17. PICK turn : Decodes(turn, bytes, N) /\ Listing(bytes) = turn[N].lines
    BY <1>2, ListingTurns
  <1>3. /\ turn[0] = [ip |-> 0, lines |-> <<>>]
        /\ \A k \in 1 .. N : turn[k] = DecodeTurn(bytes, turn[k - 1])
    BY <1>17 DEF Decodes
  <1>4. PICK parts : parts = LineParts(items)
    OBVIOUS
  <1>5. /\ SeqsOf(parts, SourceLine, n)
        /\ \A k \in 1 .. n :
             /\ IsLabel(items[k]) => parts[k] = <<>>
             /\ ~IsLabel(items[k]) => /\ LineAt(bytes, Offset(items, k)) \in SourceLine
                                      /\ parts[k] = <<LineAt(bytes, Offset(items, k))>>
    BY <1>1, <1>2, <1>4, LinePartsAre
  <1>6. PICK out : Concats(out, parts, n) /\ FlattenSeq(parts) = out[n]
    BY <1>5, FlattenLoop
  <1>7. /\ out[0] = <<>>
        /\ \A k \in 1 .. n : out[k] = out[k - 1] \o parts[k]
        /\ \A k \in 0 .. n : out[k] \in Seq(SourceLine)
    BY <1>5, <1>6, ConcatsAt, Zenon
  <1>8. PICK g : g = Offsets(items)
    OBVIOUS
  <1>9. /\ g \in [0 .. n -> Nat] /\ g[0] = 0 /\ g[n] = N
        /\ \A k \in 1 .. n : Offset(items, k) = g[k - 1] /\ g[k] = g[k - 1] + InstrSize(items[k])
    <2>1. items \in Seq(Item)
      BY DEF Assembles
    <2>2. /\ g \in [0 .. n -> Nat] /\ g[0] = 0
          /\ \A k \in 1 .. n : g[k] = g[k - 1] + InstrSize(items[k])
      BY <1>2, <1>8, <2>1, OffsetsExist, OffsetsHold
    <2>3. g[n] = N
      BY <1>1, <1>2, <1>8, AssembleIs
    <2> QED BY <1>8, <2>2, <2>3 DEF Offset
  <1> DEFINE at(c, k) == turn[c] = [ip |-> g[k], lines |-> out[k]]
             Good == {k \in Nat : k <= n => \E c \in 0 .. N : c <= g[k] /\ at(c, k)}
  <1>10. 0 \in Good
    <2>1. 0 \in 0 .. N /\ 0 <= g[0] /\ at(0, 0)
      BY <1>3, <1>7, <1>9
    <2> QED BY <2>1
  <1>11. ASSUME NEW k \in Good PROVE k + 1 \in Good
    <2>1. SUFFICES ASSUME k + 1 <= n
                   PROVE  \E c \in 0 .. N : c <= g[k + 1] /\ at(c, k + 1)
      OBVIOUS
    <2>2. PICK j \in 1 .. n : j = k + 1 /\ j - 1 = k
      BY <2>1
    <2>3. PICK c \in 0 .. N : c <= g[k] /\ at(c, k)
      BY <2>1
    <2>4. g[k] \in Nat /\ out[k] \in Seq(SourceLine) /\ g[j] \in Nat
      BY <1>7, <1>9, <2>1, <2>2
    <2>5. Offset(items, j) = g[k] /\ g[j] = g[k] + InstrSize(items[j]) /\ out[j] = out[k] \o parts[j]
      BY <1>7, <1>9, <2>2
    <2>6. items[j] \in Item
      BY <1>0, <1>2
    <2>7. CASE IsLabel(items[j])
      <3>1. parts[j] = <<>> /\ InstrSize(items[j]) = 0
        BY <1>5, <2>6, <2>7, SizeIs
      <3>2. out[j] = out[k]
        BY <2>4, <2>5, <3>1, ConcatEmptySeq
      <3>3. g[j] = g[k]
        BY <2>4, <2>5, <3>1
      <3> QED BY <2>2, <2>3, <3>2, <3>3
    <2>8. CASE ~IsLabel(items[j])
      <3>1. PICK line \in SourceLine : line = LineAt(bytes, g[k]) /\ parts[j] = <<line>>
        BY <1>5, <2>5, <2>8
      <3>2. out[j] = Append(out[k], line)
        BY <2>4, <2>5, <3>1, AppendIsConcat
      <3>3. /\ g[k] < N /\ line.op = items[j].op
            /\ g[j] = g[k] + 1 + OPERAND_LEN[line.op] /\ g[j] <= N
        <4>1. j \in 1 .. Len(items)
          BY <1>2
        <4>2. /\ Offset(items, j) < Len(bytes)
              /\ LineAt(bytes, Offset(items, j)) =
                   [at |-> Offset(items, j), op |-> items[j].op, args |-> Body(items, items[j])]
              /\ Offsets(items)[j] = Offset(items, j) + 1 + OPERAND_LEN[items[j].op]
              /\ Offsets(items)[j] <= Len(bytes)
          BY <1>1, <2>8, <4>1, LineIs
        <4>3. line.op = items[j].op
          BY <2>5, <3>1, <4>2
        <4> QED BY <1>2, <1>8, <2>5, <4>2, <4>3
      <3>4. line.op # "unknown" /\ OPERAND_LEN[line.op] \in Nat
        <4>1. line.op \in Opcode
          BY DEF SourceLine
        <4> QED BY <4>1, OperandLengths
      <3>5. DecodeTurn(bytes, turn[c]) = [ip |-> g[j], lines |-> out[j]]
        <4>1. turn[c].ip = g[k] /\ turn[c].lines = out[k]
          BY <2>3
        <4>2. ~(g[k] >= Len(bytes))
          BY <1>2, <2>4, <3>3
        <4> QED BY <3>1, <3>2, <3>3, <3>4, <4>1, <4>2 DEF DecodeTurn
      <3>6. PICK l \in Nat : g[j] = g[k] + 1 + l
        BY <3>3, <3>4
      <3>7. PICK e \in 1 .. N : e = c + 1 /\ e - 1 = c /\ e <= g[j]
        <4>1. c + 1 \in 1 .. N /\ (c + 1) - 1 = c /\ c + 1 <= g[j]
          BY <2>3, <2>4, <3>3, <3>6
        <4> QED BY <4>1
      <3>8. turn[e] = [ip |-> g[j], lines |-> out[j]]
        BY <1>3, <3>5, <3>7
      <3>9. at(e, j)
        BY <3>8
      <3> HIDE DEF at
      <3> QED BY <2>2, <3>7, <3>9
    <2> QED BY <2>7, <2>8
  <1>12. Nat \subseteq Good
    <2> HIDE DEF Good
    <2> QED BY <1>10, <1>11, SetInduction
  <1>13. PICK c \in 0 .. N : at(c, n)
    BY <1>12
  <1>14. turn[c].ip >= N /\ turn[c].lines = out[n]
    BY <1>9, <1>13
  <1>15. turn[N] = turn[c]
    BY <1>2, <1>14, <1>17, TurnsStay
  <1>16. Lines(items) = out[n]
    BY <1>4, <1>6 DEF Lines, LineParts
  <1> QED BY <1>1, <1>14, <1>15, <1>16, <1>17


\* The lines of a listing are those of the instructions.
LEMMA LinesSet ==
  ASSUME NEW items, Assembles(items), NEW n \in Nat, n = Len(items)
  PROVE  ToSet(Lines(items)) =
           {LineAt(Assemble(items), Offset(items, k)) : k \in {j \in 1 .. n : ~IsLabel(items[j])}}
  <1>1. PICK parts : parts = LineParts(items)
    OBVIOUS
  <1>2. PICK line : line = [k \in 1 .. n |-> LineAt(Assemble(items), Offset(items, k))]
    OBVIOUS
  <1>3. /\ SeqsOf(parts, SourceLine, n)
        /\ \A k \in 1 .. n : /\ IsLabel(items[k]) => parts[k] = <<>>
                             /\ ~IsLabel(items[k]) => parts[k] = <<line[k]>>
    BY <1>1, <1>2, LinePartsAre
  <1>4. ToSet(Lines(items)) = UNION {ToSet(parts[k]) : k \in 1 .. n}
    <2>1. Lines(items) = FlattenSeq(parts)
      BY <1>1 DEF Lines, LineParts
    <2> QED BY <1>3, <2>1, FlattenElements
  <1>5. ASSUME NEW k \in 1 .. n
        PROVE  ToSet(parts[k]) = IF IsLabel(items[k]) THEN {} ELSE {line[k]}
    <2>1. \A x : ToSet(<<x>>) = {x}
      BY DEF ToSet
    <2>2. ToSet(<<>>) = {}
      BY DEF ToSet
    <2> QED BY <1>3, <2>1, <2>2
  <1>6. UNION {ToSet(parts[k]) : k \in 1 .. n} = {line[k] : k \in {j \in 1 .. n : ~IsLabel(items[j])}}
    <2>1. ASSUME NEW x, NEW k \in 1 .. n, x \in ToSet(parts[k])
          PROVE  ~IsLabel(items[k]) /\ x = line[k]
      BY <1>5, <2>1
    <2>2. ASSUME NEW k \in 1 .. n, ~IsLabel(items[k]) PROVE line[k] \in ToSet(parts[k])
      BY <1>5, <2>2
    <2> QED BY <2>1, <2>2
  <1> QED BY <1>2, <1>4, <1>6

\* find_labels finds what the source branches to.
LEMMA FoundAreTargets ==
  ASSUME NEW items, Assembles(items)
  PROVE  FoundLabels(Assemble(items)) =
           {Target(items, item) : item \in {i \in ToSet(items) : i.op \in BranchOps}}
  <1>1. PICK n \in Nat : n = Len(items) /\ DOMAIN items = 1 .. n
    <2>1. items \in Seq(Item)
      BY DEF Assembles
    <2> QED BY <2>1
  <1> DEFINE to(line) == line.args[1] * 256 + line.args[2]
             line(k) == LineAt(Assemble(items), Offset(items, k))
             Branches == {item \in ToSet(items) : item.op \in BranchOps}
  <1>2. FoundLabels(Assemble(items)) = {to(l) : l \in {x \in ToSet(Lines(items)) : x.op \in BranchOps}}
    BY ListingIsLines DEF FoundLabels
  <1>3. ToSet(Lines(items)) = {line(k) : k \in {j \in 1 .. n : ~IsLabel(items[j])}}
    BY <1>1, LinesSet
  <1>4. ASSUME NEW k \in 1 .. n, ~IsLabel(items[k])
        PROVE  /\ line(k).op = items[k].op /\ items[k] \in ToSet(items)
               /\ items[k].op \in BranchOps => to(line(k)) = Target(items, items[k])
    <2>1. items[k] \in ToSet(items) /\ k \in 1 .. Len(items)
      BY <1>1 DEF ToSet
    <2>2. line(k) = [at |-> Offset(items, k), op |-> items[k].op, args |-> Body(items, items[k])]
      BY <1>4, <2>1, LineIs
    <2>3. items[k].op \in BranchOps =>
            Body(items, items[k])[1] * 256 + Body(items, items[k])[2] = Target(items, items[k])
      BY <1>4, <2>1, BodyIs
    <2> HIDE DEF line
    <2> QED BY <2>1, <2>2, <2>3
  <1>5. ASSUME NEW item \in Branches
        PROVE  \E k \in 1 .. n : items[k] = item /\ ~IsLabel(items[k])
    BY <1>1, OperandLengths DEF ToSet, IsLabel
  <1> HIDE DEF to, line
  <1>6. ASSUME NEW l \in ToSet(Lines(items)), l.op \in BranchOps
        PROVE  \E item \in Branches : to(l) = Target(items, item)
    BY <1>3, <1>4, <1>6
  <1>7. ASSUME NEW item \in Branches
        PROVE  \E l \in ToSet(Lines(items)) : l.op \in BranchOps /\ to(l) = Target(items, item)
    <2>1. PICK k \in 1 .. n : items[k] = item /\ ~IsLabel(items[k])
      BY <1>5
    <2>2. line(k) \in ToSet(Lines(items))
      BY <1>3, <2>1
    <2> QED BY <1>4, <2>1, <2>2
  <1> HIDE DEF Branches
  <1>8. {to(l) : l \in {x \in ToSet(Lines(items)) : x.op \in BranchOps}} =
          {Target(items, item) : item \in Branches}
    BY <1>6, <1>7
  <1> QED BY <1>2, <1>8 DEF Branches

\* No step writes the code.
CodeIsAssembled == source \in Sources /\ Assembles(source) /\ code = Assemble(source)

LEMMA CodeAssembled == Spec => []CodeIsAssembled
  <1>1. Init => CodeIsAssembled
    BY SourcesAssumption DEF Init, CodeIsAssembled
  <1>2. CodeIsAssembled /\ [Next]_vars => CodeIsAssembled'
    <2> SUFFICES ASSUME CodeIsAssembled, [Next]_vars PROVE CodeIsAssembled'
      OBVIOUS
    <2>1. code' = code /\ source' = source
      BY CodeStays DEF Next, vars, clientVars
    <2> QED BY <2>1 DEF CodeIsAssembled
  <1> QED BY <1>1, <1>2, PTL DEF Spec

\* Whatever source was assembled: the disassembler (decode, find_labels) reads back
\* the program line by line and finds labels exactly where it branches to.
THEOREM ListingHolds == Spec => []ListingIsProgram
  <1>1. CodeIsAssembled => ListingIsProgram
    <2> SUFFICES ASSUME CodeIsAssembled PROVE ListingIsProgram
      OBVIOUS
    <2>1. Assembles(source) /\ code = Assemble(source)
      BY DEF CodeIsAssembled
    <2> QED BY <2>1, ListingIsLines, FoundAreTargets DEF ListingIsProgram
  <1> QED BY <1>1, CodeAssembled, PTL

-----------------------------------------------------------------------------
(***************************************************************************)
(* Execution by the lines of the listing.                                  *)
(***************************************************************************)

\* The offsets of the instructions, and the end of the code.
Stops(items) ==
  {Offset(items, k) : k \in {j \in DOMAIN items : ~IsLabel(items[j])}} \cup {Len(Assemble(items))}

\* They are those of the listing.
LEMMA StopsAreListed ==
  ASSUME NEW items, Assembles(items)
  PROVE  Stops(items) = {line.at : line \in ToSet(Listing(Assemble(items)))} \cup {Len(Assemble(items))}
  <1>1. PICK n \in Nat : n = Len(items) /\ DOMAIN items = 1 .. n
    <2>1. items \in Seq(Item)
      BY DEF Assembles
    <2> QED BY <2>1
  <1> DEFINE line(k) == LineAt(Assemble(items), Offset(items, k))
             Instr == {j \in 1 .. n : ~IsLabel(items[j])}
  <1>2. ToSet(Listing(Assemble(items))) = {line(k) : k \in Instr}
    BY <1>1, LinesSet, ListingIsLines
  <1>3. ASSUME NEW k \in Instr PROVE line(k).at = Offset(items, k)
    <2>1. k \in 1 .. Len(items) /\ ~IsLabel(items[k])
      BY <1>1
    <2>2. line(k) = [at |-> Offset(items, k), op |-> items[k].op, args |-> Body(items, items[k])]
      BY <2>1, LineIs
    <2> HIDE DEF line
    <2> QED BY <2>2
  <1>4. Stops(items) = {Offset(items, k) : k \in Instr} \cup {Len(Assemble(items))}
    BY <1>1 DEF Stops
  <1> HIDE DEF line, Instr
  <1>5. {l.at : l \in {line(k) : k \in Instr}} = {Offset(items, k) : k \in Instr}
    BY <1>3
  <1> QED BY <1>2, <1>4, <1>5

\* The offset behind any item is one of them.
LEMMA OffsetsAreStops ==
  ASSUME NEW items, Assembles(items), NEW k \in 0 .. Len(items)
  PROVE  Offsets(items)[k] \in Stops(items)
  <1>1. items \in Seq(Item)
    BY DEF Assembles
  <1>2. PICK n \in Nat : n = Len(items) /\ DOMAIN items = 1 .. n
    BY <1>1
  <1>3. PICK g : g = Offsets(items)
    OBVIOUS
  <1>4. /\ g \in [0 .. n -> Nat]
        /\ \A j \in 1 .. n : g[j] = g[j - 1] + InstrSize(items[j])
    BY <1>1, <1>2, <1>3, OffsetsExist, OffsetsHold
  <1>5. g[n] = Len(Assemble(items))
    BY <1>2, <1>3, AssembleIs
  <1> DEFINE Good == {d \in Nat : d <= n => g[n - d] \in Stops(items)}
  <1>6. 0 \in Good
    <2>1. n - 0 = n /\ g[n] \in Stops(items)
      BY <1>5 DEF Stops
    <2> QED BY <2>1
  <1>7. ASSUME NEW d \in Good PROVE d + 1 \in Good
    <2>1. SUFFICES ASSUME d + 1 <= n PROVE g[n - (d + 1)] \in Stops(items)
      OBVIOUS
    <2>2. PICK j \in 1 .. n : j = n - d /\ j - 1 = n - (d + 1)
      BY <2>1
    <2>3. g[j] \in Stops(items) /\ g[j] = g[j - 1] + InstrSize(items[j]) /\ g[j - 1] \in Nat
      BY <1>4, <2>1, <2>2
    <2>4. items[j] \in Item
      BY <1>1, <1>2
    <2>5. CASE IsLabel(items[j])
      <3>1. InstrSize(items[j]) = 0
        BY <2>4, <2>5, SizeIs
      <3> QED BY <2>2, <2>3, <3>1
    <2>6. CASE ~IsLabel(items[j])
      <3>1. Offset(items, j) \in Stops(items)
        BY <1>2, <2>6 DEF Stops
      <3> QED BY <1>3, <2>2, <3>1 DEF Offset
    <2> QED BY <2>5, <2>6
  <1>8. Nat \subseteq Good
    <2> HIDE DEF Good
    <2> QED BY <1>6, <1>7, SetInduction
  <1>9. PICK d \in Nat : d <= n /\ n - d = k
    <2>1. n - k \in Nat /\ n - k <= n /\ n - (n - k) = k
      BY <1>2
    <2> QED BY <2>1
  <1>10. d <= n => g[n - d] \in Stops(items)
    BY <1>8
  <1> QED BY <1>3, <1>9, <1>10

\* What is fetched at a stop before the end is an instruction of the source; behind
\* it is a stop, and it branches to one.
LEMMA AtInstruction ==
  ASSUME CodeIsAssembled, Fetches, m.ip \in Stops(source)
  PROVE  /\ Op \in Opcode
         /\ m.ip + 1 + OPERAND_LEN[Op] \in Stops(source)
         /\ m.ip + 1 + OPERAND_LEN[Op] <= Len(code)
         /\ ByLabels(source) /\ Op \in BranchOps => Addr \in Stops(source)
  <1>1. Assembles(source) /\ code = Assemble(source)
    BY DEF CodeIsAssembled
  <1>2. source \in Seq(Item)
    BY <1>1 DEF Assembles
  <1>3. PICK n \in Nat : n = Len(source) /\ DOMAIN source = 1 .. n
    BY <1>2
  <1>4. Len(code) \in Nat
    BY <1>1, AssembleIs
  <1>5. PICK k \in 1 .. n : m.ip = Offset(source, k) /\ ~IsLabel(source[k])
    <2>1. m.ip # Len(code)
      <3>1. m.ip < Len(code)
        BY DEF Fetches
      <3> QED BY <1>4, <3>1
    <2> QED BY <1>1, <1>3, <2>1 DEF Stops
  <1>6. PICK item : item = source[k]
    OBVIOUS
  <1>7. /\ m.ip \in Nat
        /\ Decoded[code[m.ip + 1]] = item.op
        /\ Offsets(source)[k] = m.ip + 1 + OPERAND_LEN[item.op]
        /\ Offsets(source)[k] <= Len(code)
        /\ \A i \in 1 .. OPERAND_LEN[item.op] : code[m.ip + 1 + i] = Body(source, item)[i]
    BY <1>1, <1>3, <1>5, <1>6, LineIs
  <1>8. Op = item.op
    BY <1>7 DEF Op
  <1>9. item \in ToSet(source) /\ ~IsLabel(item)
    BY <1>3, <1>5, <1>6 DEF ToSet
  <1>10. Op \in Opcode
    BY <1>1, <1>8, <1>9, BodyIs
  <1>11. Offsets(source)[k] \in Stops(source)
    BY <1>1, <1>3, OffsetsAreStops
  <1>12. ASSUME ByLabels(source), Op \in BranchOps PROVE Addr \in Stops(source)
    <2>1. item.ref # ""
      BY <1>3, <1>6, <1>8, <1>12 DEF ByLabels
    <2>2. PICK j \in 0 .. Len(source) : Target(source, item) = Offsets(source)[j]
      BY <1>1, <1>9, <2>1, BodyIs
    <2>3. Body(source, item)[1] * 256 + Body(source, item)[2] = Target(source, item)
      BY <1>1, <1>8, <1>9, <1>12, BodyIs
    <2>4. OPERAND_LEN[item.op] = 2
      BY <1>8, <1>12, OperandLengths
    <2>5. code[m.ip + 1 + 1] = Body(source, item)[1] /\ code[m.ip + 1 + 2] = Body(source, item)[2]
      <3>1. \A i \in 1 .. 2 : code[m.ip + 1 + i] = Body(source, item)[i]
        BY <1>7, <2>4
      <3> QED BY <3>1
    <2>6. Addr = Target(source, item)
      BY <2>3, <2>5 DEF Addr, Arg
    <2> QED BY <1>1, <2>2, <2>6, OffsetsAreStops
  <1> QED BY <1>7, <1>8, <1>10, <1>11, <1>12


\* How many operand bytes each handler fetches: those of its opcodes.
LEMMA HandlerLengths ==
  ASSUME EngineTypeOK, NEW h, Dispatched(h), Op # "unknown"
  PROVE  /\ Op \in Opcode /\ h # "h_unknown"
         /\ h \in {"h_nop", "h_ret"} => OPERAND_LEN[Op] = 0
         /\ h = "h_halt" => OPERAND_LEN[Op] = 1
         /\ h \in {"h_mov_rr", "h_load", "h_store", "h_not", "h_cmp", "h_mix"} => OPERAND_LEN[Op] = 2
         /\ h \in {"h_jmp", "h_jcc", "h_call"} => OPERAND_LEN[Op] = 2 /\ Op \in BranchOps
         /\ h \in {"h_alu3", "h_shift", "h_cmov", "h_hash"} => OPERAND_LEN[Op] = 3
         /\ h = "h_mov_ri" => OPERAND_LEN[Op] = 9
  <1>1. Op \in Opcode /\ h = HandlerFor[Op]
    BY DispatchedOp
  <1> QED BY <1>1, OpcodeSet DEF HandlerFor, OPERAND_LEN, BranchOps

\* Where ip goes, and what becomes of the stack.
Behind == m.ip + 1 + OPERAND_LEN[Op]

GoesOn   == m'.ip = Behind /\ m'.stack = m.stack
Branches == Op \in BranchOps /\ m'.ip = Addr /\ m'.stack = m.stack
Calls    == Op \in BranchOps /\ m'.ip = Addr /\ m'.stack = Append(m.stack, Behind)
Returns  == m.stack # <<>> /\ m'.ip = Last(m.stack) /\ m'.stack = Front(m.stack)

LEMMA TryMoves ==
  ASSUME EngineTypeOK, NEW n, NEW ok, NEW next, Try(n, ok, next),
         Has(n) /\ ok => next.ip = Behind /\ next.stack = m.stack
  PROVE  UNCHANGED <<m.ip, m.stack>> \/ GoesOn
  <1>1. Raised.ip = m.ip /\ Raised.stack = m.stack
    BY DEF Raised, EngineTypeOK, Machine
  <1> QED BY <1>1 DEF Try, GoesOn

LEMMA Moves ==
  ASSUME EngineTypeOK, ClientNext, Op # "unknown"
  PROVE  \/ UNCHANGED <<m.ip, m.stack>>
         \/ Fetches /\ (GoesOn \/ Branches \/ Calls \/ Returns)
  <1>1. ASSUME NEW h, Dispatched(h) PROVE Fetches
    BY <1>1 DEF Dispatched
  <1>2. ASSUME NEW n \in Nat PROVE Fetched(n).ip = m.ip + 1 + n /\ Fetched(n).stack = m.stack
    BY FetchedTyped
  <1>3. ASSUME NEW n \in Nat, NEW ks, NEW v, SetReg(n, ks, v), n = OPERAND_LEN[Op]
        PROVE  UNCHANGED <<m.ip, m.stack>> \/ GoesOn
    <2> DEFINE next == [Fetched(n) EXCEPT !.reg[Arg(1)] = v]
    <2>1. Try(n, Regs({1} \cup ks), next)
      BY <1>3 DEF SetReg
    <2>2. next.ip = Behind /\ next.stack = m.stack
      BY <1>2, <1>3, FetchedTyped DEF Behind, EngineTypeOK, Machine
    <2> HIDE DEF next
    <2> QED BY <2>1, <2>2, TryMoves
  <1>4. ASSUME h_mov_ri \/ h_mov_rr \/ h_load \/ h_alu3 \/ h_not \/ h_shift \/ h_hash \/ h_mix
        PROVE  Fetches /\ (UNCHANGED <<m.ip, m.stack>> \/ GoesOn)
    BY <1>1, <1>3, <1>4, HandlerLengths
    DEF h_mov_ri, h_mov_rr, h_load, h_alu3, h_not, h_shift, h_hash, h_mix
  <1>5. ASSUME h_nop PROVE Fetches /\ (UNCHANGED <<m.ip, m.stack>> \/ GoesOn)
    <2>1. OPERAND_LEN[Op] = 0 /\ Fetches
      BY <1>1, <1>5, HandlerLengths DEF h_nop
    <2>2. Try(0, TRUE, Fetched(0))
      BY <1>5 DEF h_nop
    <2>3. Fetched(0).ip = Behind /\ Fetched(0).stack = m.stack
      BY <1>2, <2>1 DEF Behind
    <2> QED BY <2>1, <2>2, <2>3, TryMoves
  <1>6. ASSUME h_store PROVE Fetches /\ (UNCHANGED <<m.ip, m.stack>> \/ GoesOn)
    <2> DEFINE next == [Fetched(2) EXCEPT !.mem[R(1) % VM_MEM_WORDS] = R(2)]
    <2>1. OPERAND_LEN[Op] = 2 /\ Fetches
      BY <1>1, <1>6, HandlerLengths DEF h_store
    <2>2. Try(2, Regs({1, 2}), next)
      BY <1>6 DEF h_store
    <2>3. next.ip = Behind /\ next.stack = m.stack
      BY <1>2, <2>1, FetchedTyped DEF Behind, EngineTypeOK, Machine
    <2> HIDE DEF next
    <2> QED BY <2>1, <2>2, <2>3, TryMoves
  <1>7. ASSUME h_cmp PROVE Fetches /\ (UNCHANGED <<m.ip, m.stack>> \/ GoesOn)
    <2> DEFINE next == [Fetched(2) EXCEPT !.flags = CmpFlags(R(1), R(2))]
    <2>1. OPERAND_LEN[Op] = 2 /\ Fetches
      BY <1>1, <1>7, HandlerLengths DEF h_cmp
    <2>2. Try(2, Regs({1, 2}), next)
      BY <1>7 DEF h_cmp
    <2>3. next.ip = Behind /\ next.stack = m.stack
      BY <1>2, <2>1, FetchedTyped DEF Behind, EngineTypeOK, Machine
    <2> HIDE DEF next
    <2> QED BY <2>1, <2>2, <2>3, TryMoves
  <1>8. ASSUME h_cmov PROVE Fetches /\ (UNCHANGED <<m.ip, m.stack>> \/ GoesOn)
    <2> DEFINE next == [Fetched(3) EXCEPT !.reg[Arg(1)] = R(2)]
    <2>1. OPERAND_LEN[Op] = 3 /\ Fetches
      BY <1>1, <1>8, HandlerLengths DEF h_cmov
    <2>2. CASE m' = Fetched(3)
      BY <1>2, <2>1, <2>2 DEF Behind, GoesOn
    <2>3. CASE m' # Fetched(3)
      <3>1. Try(3, Arg(3) \in Conds /\ Regs({1, 2}), next)
        BY <1>8, <2>3 DEF h_cmov
      <3>2. next.ip = Behind /\ next.stack = m.stack
        BY <1>2, <2>1, FetchedTyped DEF Behind, EngineTypeOK, Machine
      <3> HIDE DEF next
      <3> QED BY <2>1, <3>1, <3>2, TryMoves
    <2> QED BY <2>2, <2>3
  <1>9. ASSUME h_halt PROVE Fetches /\ (UNCHANGED <<m.ip, m.stack>> \/ GoesOn)
    <2> DEFINE next == [Fetched(1) EXCEPT !.operand = Arg(1), !.status = "halted"]
    <2>1. OPERAND_LEN[Op] = 1 /\ Fetches
      BY <1>1, <1>9, HandlerLengths DEF h_halt
    <2>2. Try(1, TRUE, next)
      BY <1>9 DEF h_halt
    <2>3. next.ip = Behind /\ next.stack = m.stack
      BY <1>2, <2>1, FetchedTyped DEF Behind, EngineTypeOK, Machine
    <2> HIDE DEF next
    <2> QED BY <2>1, <2>2, <2>3, TryMoves
  <1>10. Raised.ip = m.ip /\ Raised.stack = m.stack
    BY DEF Raised, EngineTypeOK, Machine
  <1>11. ASSUME h_jmp PROVE UNCHANGED <<m.ip, m.stack>> \/ (Fetches /\ Branches)
    <2> DEFINE next == [Fetched(2) EXCEPT !.ip = Addr]
    <2>1. Op \in BranchOps /\ Fetches
      BY <1>1, <1>11, HandlerLengths DEF h_jmp
    <2>2. m' = next \/ m' = Raised
      BY <1>11 DEF h_jmp, Try
    <2>3. next.ip = Addr /\ next.stack = m.stack
      BY <1>2, FetchedTyped DEF EngineTypeOK, Machine
    <2> HIDE DEF next
    <2> QED BY <1>10, <2>1, <2>2, <2>3 DEF Branches
  <1>12. ASSUME h_jcc
         PROVE  UNCHANGED <<m.ip, m.stack>> \/ (Fetches /\ (Branches \/ GoesOn))
    <2> DEFINE next == [Fetched(2) EXCEPT !.path = FoldPath(Taken),
                                          !.ip = IF Taken THEN Addr ELSE @]
    <2>1. Op \in BranchOps /\ Fetches /\ OPERAND_LEN[Op] = 2
      BY <1>1, <1>12, HandlerLengths DEF h_jcc
    <2>2. m' = next \/ m' = Raised
      BY <1>12 DEF h_jcc, Try
    <2>3. (next.ip = Addr \/ next.ip = Behind) /\ next.stack = m.stack
      BY <1>2, <2>1, FetchedTyped DEF Behind, EngineTypeOK, Machine
    <2> HIDE DEF next
    <2> QED BY <1>10, <2>1, <2>2, <2>3 DEF Branches, GoesOn
  <1>13. ASSUME h_call PROVE UNCHANGED <<m.ip, m.stack>> \/ (Fetches /\ Calls)
    <2> DEFINE next == [Fetched(2) EXCEPT !.stack = Append(@, ReturnAddress), !.ip = Addr]
    <2>1. Op \in BranchOps /\ Fetches /\ OPERAND_LEN[Op] = 2
      BY <1>1, <1>13, HandlerLengths DEF h_call
    <2>2. m' = next \/ m' = Raised
      BY <1>13 DEF h_call, Try
    <2>3. ReturnAddress = Behind
      BY <2>1 DEF ReturnAddress, Behind, EngineTypeOK
    <2>4. next.ip = Addr /\ next.stack = Append(m.stack, ReturnAddress)
      BY <1>2, FetchedTyped DEF EngineTypeOK, Machine
    <2> HIDE DEF next
    <2> QED BY <1>10, <2>1, <2>2, <2>3, <2>4 DEF Calls
  <1>14. ASSUME h_ret PROVE UNCHANGED <<m.ip, m.stack>> \/ (Fetches /\ Returns)
    <2> DEFINE next == [Fetched(0) EXCEPT !.ip = Last(m.stack), !.stack = Front(@)]
    <2>1. Fetches
      BY <1>1, <1>14 DEF h_ret
    <2>2. (m' = next /\ m.stack # <<>>) \/ m' = Raised
      BY <1>14 DEF h_ret, Try
    <2>3. next.ip = Last(m.stack) /\ next.stack = Front(m.stack)
      BY <1>2, FetchedTyped DEF EngineTypeOK, Machine
    <2> HIDE DEF next
    <2> QED BY <1>10, <2>1, <2>2, <2>3 DEF Returns
  <1>15. ~h_unknown
    BY HandlerLengths DEF h_unknown
  <1>16. ASSUME MaxStepsReached \/ IpOutOfRange PROVE UNCHANGED <<m.ip, m.stack>>
    BY <1>10, <1>16 DEF MaxStepsReached, IpOutOfRange, EngineTypeOK, Machine
  <1> QED
    BY <1>4, <1>5, <1>6, <1>7, <1>8, <1>9, <1>11, <1>12, <1>13, <1>14, <1>15, <1>16
    DEF ClientNext

\* The invariant: ip and the return addresses are stops.
OnLines == m.ip \in Stops(source) /\ m.stack \in Seq(Stops(source))

OnLinesInv == EngineTypeOK /\ CodeIsAssembled /\ (ByLabels(source) => OnLines)

LEMMA InitOnLines == Init => OnLinesInv
  <1> SUFFICES ASSUME Init PROVE OnLinesInv
    OBVIOUS
  <1>1. EngineTypeOK /\ CodeIsAssembled
    BY InitTyped, SourcesAssumption DEF Init, CodeIsAssembled
  <1>2. m.ip = 0 /\ m.stack = <<>>
    BY DEF Init, ClientInit, Machine
  <1>3. Assembles(source) /\ source \in Seq(Item)
    BY <1>1 DEF CodeIsAssembled, Assembles
  <1>4. 0 \in Stops(source)
    <2>1. 0 \in 0 .. Len(source) /\ Offsets(source)[0] = 0
      BY <1>3, OffsetsExist, OffsetsHold
    <2> QED BY <1>3, <2>1, OffsetsAreStops
  <1> QED BY <1>1, <1>2, <1>4, EmptySeq DEF OnLinesInv, OnLines

LEMMA StepOnLines == OnLinesInv /\ [Next]_vars => OnLinesInv'
  <1> SUFFICES ASSUME OnLinesInv, [Next]_vars PROVE OnLinesInv'
    OBVIOUS
  <1>1. [ClientNext]_clientVars /\ source' = source
    BY DEF Next, vars
  <1>2. EngineTypeOK'
    BY <1>1, StepTyped DEF OnLinesInv
  <1>3. code' = code
    BY <1>1, CodeStays
  <1>4. CodeIsAssembled'
    BY <1>1, <1>3 DEF OnLinesInv, CodeIsAssembled
  <1>5. ASSUME ByLabels(source), ClientNext PROVE OnLines'
    <2>1. EngineTypeOK /\ CodeIsAssembled /\ OnLines
      BY <1>5 DEF OnLinesInv
    <2>2. PICK S : S = Stops(source) /\ S = Stops(source)'
      BY <1>1
    <2>3. m.ip \in S /\ m.stack \in Seq(S)
      BY <2>1, <2>2 DEF OnLines
    <2>4. SUFFICES m'.ip \in S /\ m'.stack \in Seq(S)
      BY <2>2 DEF OnLines
    <2>5. ASSUME Fetches
          PROVE  Op # "unknown" /\ Behind \in S /\ (Op \in BranchOps => Addr \in S)
      BY <1>5, <2>1, <2>2, <2>3, <2>5, AtInstruction, OperandLengths DEF Behind
    <2>6. CASE UNCHANGED <<m.ip, m.stack>>
      BY <2>3, <2>6
    <2>7. CASE Fetches /\ GoesOn
      BY <2>3, <2>5, <2>7 DEF GoesOn
    <2>8. CASE Fetches /\ Branches
      BY <2>3, <2>5, <2>8 DEF Branches
    <2>9. CASE Fetches /\ Calls
      BY <2>3, <2>5, <2>9, AppendProperties DEF Calls
    <2>10. CASE Returns
      <3>1. ASSUME NEW s \in Seq(S), s # <<>> PROVE Last(s) \in S /\ Front(s) \in Seq(S)
        BY <3>1 DEF Last, Front
      <3> QED BY <2>3, <2>10, <3>1 DEF Returns
    <2>11. CASE ~Fetches
      BY <1>5, <2>1, <2>6, <2>11 DEF ClientNext, Dispatched, h_nop, h_mov_ri, h_mov_rr,
         h_load, h_store, h_alu3, h_not, h_shift, h_cmp, h_cmov, h_jmp, h_jcc, h_call, h_ret,
         h_hash, h_mix, h_halt, h_unknown, MaxStepsReached, IpOutOfRange, Raised,
         EngineTypeOK, Machine
    <2>12. CASE Fetches
      BY <1>5, <2>1, <2>5, <2>6, <2>7, <2>8, <2>9, <2>10, <2>12, Moves
    <2> QED BY <2>11, <2>12
  <1>6. ASSUME ByLabels(source), UNCHANGED clientVars PROVE OnLines'
    BY <1>1, <1>6 DEF OnLinesInv, OnLines, clientVars
  <1>7. ByLabels(source)' => OnLines'
    BY <1>1, <1>5, <1>6
  <1> QED BY <1>2, <1>4, <1>7 DEF OnLinesInv

LEMMA OnLinesAlways == Spec => []OnLinesInv
  BY InitOnLines, StepOnLines, PTL DEF Spec

\* A program that branches only to labels is executed by the lines of its listing,
\* whatever it is: ip (vm.cpp run, h_jmp, h_jcc, h_call, h_ret) never comes to lie
\* inside an instruction, and no return address on the stack does.
THEOREM ExecutionStays == Spec => []ExecutionFollowsListing
  <1>1. OnLinesInv => ExecutionFollowsListing
    <2> SUFFICES ASSUME OnLinesInv, ByLabels(source) PROVE ExecutionFollowsListing
      BY DEF ExecutionFollowsListing
    <2>1. Assembles(source) /\ code = Assemble(source)
      BY DEF OnLinesInv, CodeIsAssembled
    <2>2. Stops(source) = {line.at : line \in ToSet(Listing(code))} \cup {Len(code)}
      BY <2>1, StopsAreListed
    <2>3. m.ip \in Stops(source) /\ ToSet(m.stack) \subseteq Stops(source)
      BY DEF OnLinesInv, OnLines, ToSet
    <2> QED BY <2>2, <2>3 DEF ExecutionFollowsListing
  <1> QED BY <1>1, OnLinesAlways, PTL

\* For such a program the engines agree without a condition on its bytes.
THEOREM LabelledImplementsReference == Spec /\ ByLabels(source) => ImplementsReference
  <1>1. ByLabels(source) /\ [Next]_vars => ByLabels(source)'
    BY DEF Next, vars
  <1>2. OnLinesInv /\ ByLabels(source) => WholeImmediate
    <2> SUFFICES ASSUME OnLinesInv, ByLabels(source), Fetches, Op = "MOV_RI" PROVE Has(9)
      BY DEF WholeImmediate
    <2>1. m.ip + 1 + OPERAND_LEN[Op] <= Len(code)
      BY AtInstruction DEF OnLinesInv, OnLines
    <2> QED BY <2>1, OperandLengths DEF Has
  <1>3. OnLinesInv /\ ByLabels(source) /\ [Next]_vars => [Reference!RefNext]_(Reference!refVars)
    <2> SUFFICES ASSUME OnLinesInv, ByLabels(source), [Next]_vars
                 PROVE  [Reference!RefNext]_(Reference!refVars)
      OBVIOUS
    <2>1. [ClientNext]_clientVars
      BY DEF Next, vars
    <2> QED BY <1>2, <2>1, StepRefines DEF OnLinesInv
  <1>4. Init => Reference!RefInit
    BY InitRefines DEF Init
  <1> QED BY <1>1, <1>3, <1>4, OnLinesAlways, PTL
          DEF Spec, ImplementsReference, Reference!RefSpec
-----------------------------------------------------------------------------
(***************************************************************************)
(* The dispatch table, for every number of slots, every instruction set    *)
(* and every keystream.                                                    *)
(***************************************************************************)
\* The initial table is the identity permutation with no opcode entered.
LEMMA DispatchStarts == DispatchInit => DispatchInv
  BY DispatchAssumption
  DEF DispatchInit, DispatchInv, DispatchTypeOK, PermIsBijection, ShuffleFirst,
      TableFollowsPerm, DispatchIsDirect, Direct, Slot

\* Exchanging two values of an injective map leaves it injective: what one swap
\* of the shuffle does to the permutation.
LEMMA SwapKeepsBijection ==
  ASSUME DispatchTypeOK, PermIsBijection, NEW j \in Slot
  PROVE  /\ Swapped(j) \in [Slot -> Slot]
         /\ \A a, b \in Slot : Swapped(j)[a] = Swapped(j)[b] => a = b
  <1>1. \A a \in Slot : Swapped(j)[a] =
          IF a = j THEN perm_[index] ELSE IF a = index THEN perm_[j] ELSE perm_[a]
    BY DEF Swapped, DispatchTypeOK
  <1>2. Swapped(j) \in [Slot -> Slot]
    BY DEF Swapped, DispatchTypeOK
  <1>3. index \in Slot
    BY DEF DispatchTypeOK
  <1> QED
    BY <1>1, <1>2, <1>3 DEF PermIsBijection

\* Every step of the constructor and of the dispatch loop keeps the invariant.
LEMMA DispatchKeeps == DispatchInv /\ [DispatchNext]_dispatchVars => DispatchInv'
  <1> SUFFICES ASSUME DispatchInv, [DispatchNext]_dispatchVars
               PROVE  DispatchInv'
    OBVIOUS
  <1> USE DEF DispatchInv
  <1>1. CASE Shuffle
    <2>1. PICK j \in 0 .. index : perm_' = Swapped(j)
      BY <1>1 DEF Shuffle
    <2>2. index \in Slot /\ index # 0 /\ j \in Slot
      BY <1>1, <2>1, DispatchAssumption DEF Shuffle, Shuffled, DispatchTypeOK, Slot
    <2>3. UNCHANGED <<table_, todo, opcode, called>> /\ index' = index - 1
      BY <1>1 DEF Shuffle
    <2>4. todo = Defined /\ \A slot \in Slot : table_[slot] = fallback
      BY <1>1 DEF Shuffle, ShuffleFirst
    <2>5. perm_' \in [Slot -> Slot] /\ PermIsBijection'
      BY <2>1, <2>2, SwapKeepsBijection DEF PermIsBijection
    <2>6. DispatchTypeOK'
      <3>1. index' \in Slot
        BY <2>2, <2>3, DispatchAssumption DEF Slot
      <3> QED
        BY <2>3, <2>5, <3>1 DEF DispatchTypeOK
    <2>7. ShuffleFirst'
      BY <2>3, <2>4 DEF ShuffleFirst
    <2>8. TableFollowsPerm'
      BY <2>3, <2>4, <2>5 DEF TableFollowsPerm
    <2>9. DispatchIsDirect'
      BY <2>3 DEF DispatchIsDirect, Direct
    <2> QED
      BY <2>5, <2>6, <2>7, <2>8, <2>9
  <1>2. ASSUME NEW o \in Defined, Enter(o)
        PROVE  DispatchInv'
    <2>1. /\ Shuffled /\ o \in todo
          /\ table_' = [table_ EXCEPT ![perm_[o]] = handler_for[o]]
          /\ todo' = todo \ {o}
          /\ UNCHANGED <<perm_, index, opcode, called>>
      BY <1>2 DEF Enter
    <2>2. o \in Slot /\ perm_[o] \in Slot /\ handler_for[o] \in Handler
      BY DispatchAssumption DEF DispatchTypeOK
    <2>3. DispatchTypeOK'
      BY <2>1, <2>2 DEF DispatchTypeOK
    <2>4. PermIsBijection' /\ ShuffleFirst' /\ DispatchIsDirect'
      BY <2>1 DEF PermIsBijection, ShuffleFirst, Shuffled, DispatchIsDirect, Direct
    <2>5. ASSUME NEW b \in Slot
          PROVE  table_'[perm_'[b]] =
                   IF b \in Defined \ todo' THEN handler_for[b] ELSE fallback
      <3>1. CASE b = o
        BY <2>1, <2>2, <3>1 DEF DispatchTypeOK
      <3>2. CASE b # o
        <4>1. perm_[b] # perm_[o] /\ perm_[b] \in Slot
          BY <2>2, <3>2 DEF PermIsBijection, DispatchTypeOK
        <4>2. table_'[perm_'[b]] = table_[perm_[b]]
          BY <2>1, <4>1 DEF DispatchTypeOK
        <4> QED
          BY <2>1, <3>2, <4>2 DEF TableFollowsPerm
      <3> QED
        BY <3>1, <3>2
    <2> QED
      BY <2>3, <2>4, <2>5 DEF TableFollowsPerm
  <1>3. ASSUME NEW b \in Slot, Dispatch(b)
        PROVE  DispatchInv'
    <2>1. /\ Ready /\ opcode' = b /\ called' = table_[perm_[b]]
          /\ UNCHANGED <<perm_, index, table_, todo>>
      BY <1>3 DEF Dispatch
    <2>2. called' = Direct(b)
      BY <2>1 DEF Ready, TableFollowsPerm, Direct
    <2>3. DispatchTypeOK'
      BY <2>1 DEF DispatchTypeOK
    <2>4. PermIsBijection' /\ ShuffleFirst' /\ TableFollowsPerm'
      BY <2>1 DEF PermIsBijection, ShuffleFirst, Shuffled, TableFollowsPerm
    <2> QED
      BY <2>1, <2>2, <2>3, <2>4 DEF DispatchIsDirect, Direct
  <1>4. CASE UNCHANGED dispatchVars
    BY <1>4
    DEF dispatchVars, DispatchTypeOK, PermIsBijection, ShuffleFirst, Shuffled,
        TableFollowsPerm, DispatchIsDirect, Direct
  <1> QED
    BY <1>1, <1>2, <1>3, <1>4 DEF DispatchNext

\* vm.cpp, build_dispatch_table and run: whatever the keystream, the shuffle
\* stays a bijection and every opcode reaches the handler of a direct switch.
THEOREM DispatchCorrect == DispatchSpec => [](PermIsBijection /\ DispatchIsDirect)
  <1>1. DispatchInv => PermIsBijection /\ DispatchIsDirect
    BY DEF DispatchInv
  <1> QED
    BY DispatchStarts, DispatchKeeps, <1>1, PTL DEF DispatchSpec

\* vm.cpp, handler_permutation: after every swap of the shuffle no two opcodes have
\* the same slot.
THEOREM DispatchPermutes == DispatchSpec => []PermIsBijection
  BY DispatchCorrect, PTL

\* The variables of the VM keep their types.
THEOREM DispatchTypeCorrect == DispatchSpec => []DispatchTypeOK
  <1>1. DispatchInv => DispatchTypeOK
    BY DEF DispatchInv
  <1> QED
    BY DispatchStarts, DispatchKeeps, <1>1, PTL DEF DispatchSpec

-----------------------------------------------------------------------------
(***************************************************************************)
(* VMDispatch builds the table that VMClient looks handlers up in.         *)
(***************************************************************************)
\* The 256 slots, the opcodes and the handlers of vm.cpp.
InstructionSet ==
  /\ Slots = 256
  /\ Defined = {OPCODES[o] : o \in Opcode}
  /\ \A o \in Opcode : handler_for[OPCODES[o]] = HandlerFor[o]
  /\ fallback = "h_unknown"

\* As many slots as bytes, each taken by one byte at most: each is taken.
LEMMA SlotsTaken ==
  ASSUME DispatchTypeOK, PermIsBijection
  PROVE  \A s \in Slot : \E b \in Slot : perm_[b] = s
  <1>1. IsFiniteSet(Slot)
    BY DispatchAssumption, FS_Interval DEF Slot
  <1>2. perm_ \in Injection(Slot, Slot)
    BY DEF DispatchTypeOK, PermIsBijection, Injection, IsInjective
  <1>3. perm_ \in Surjection(Slot, Slot)
    BY <1>1, <1>2, FS_Injection
  <1> QED BY <1>3 DEF Surjection

\* vm.cpp, build_dispatch_table: once it is done, the engine's permutation is a
\* bijection, as VMClient assumes, and the table has in each slot what VMClient
\* reads there.
THEOREM TableBuilt ==
  InstructionSet /\ DispatchSpec =>
    [](Ready /\ perm = perm_ =>
         /\ perm \in [Byte -> Byte] /\ \A a, b \in Byte : perm[a] = perm[b] => a = b
         /\ table_ = Table)
  <1> DEFINE Built ==
        Ready /\ perm = perm_ =>
          /\ perm \in [Byte -> Byte] /\ \A a, b \in Byte : perm[a] = perm[b] => a = b
          /\ table_ = Table
  <1> SUFFICES ASSUME InstructionSet PROVE DispatchSpec => []Built
    OBVIOUS
  <1>1. DispatchInv => Built
    <2> SUFFICES ASSUME DispatchInv, Ready, perm = perm_
                 PROVE  /\ perm \in [Byte -> Byte]
                        /\ \A a, b \in Byte : perm[a] = perm[b] => a = b
                        /\ table_ = Table
      OBVIOUS
    <2>1. Slot = Byte
      BY DEF InstructionSet, Slot, Byte
    <2>2. perm \in [Byte -> Byte] /\ \A a, b \in Byte : perm[a] = perm[b] => a = b
      BY <2>1 DEF DispatchInv, DispatchTypeOK, PermIsBijection
    <2>3. \A b \in Byte : table_[perm[b]] = IF b \in Defined THEN handler_for[b] ELSE fallback
      BY <2>1 DEF DispatchInv, TableFollowsPerm, Ready
    <2>4. ASSUME NEW s \in Byte PROVE table_[s] = Table[s]
      <3>1. PICK b \in Byte : perm[b] = s
        BY <2>1, SlotsTaken DEF DispatchInv
      <3>2. CASE Decoded[b] = "unknown"
        <4>1. b \notin Defined /\ ~\E o \in Opcode : perm[OPCODES[o]] = s
          BY <2>2, <3>1, <3>2, DecodedOp, OpcodesDiffer DEF InstructionSet
        <4> QED BY <2>3, <3>1, <4>1 DEF Table, InstructionSet
      <3>3. CASE Decoded[b] # "unknown"
        <4>1. Decoded[b] \in Opcode /\ OPCODES[Decoded[b]] = b
          BY <3>3, DecodedOp
        <4>2. table_[s] = HandlerFor[Decoded[b]]
          BY <2>3, <3>1, <4>1 DEF InstructionSet
        <4>3. \A o \in Opcode : perm[OPCODES[o]] = s <=> o = Decoded[b]
          BY <2>2, <3>1, <4>1, OpcodesDiffer
        <4>4. Table[s] = HandlerFor[CHOOSE o \in Opcode : perm[OPCODES[o]] = s]
          BY <4>1, <4>3 DEF Table
        <4> DEFINE chosen == CHOOSE o \in Opcode : perm[OPCODES[o]] = s
        <4>5. chosen = Decoded[b]
          BY <4>1, <4>3
        <4> QED BY <4>2, <4>4, <4>5
      <3> QED BY <3>2, <3>3
    <2>5. table_ = [s \in Byte |-> table_[s]] /\ Table = [s \in Byte |-> Table[s]]
      BY <2>1 DEF DispatchInv, DispatchTypeOK, Table
    <2>6. table_ = Table
      BY <2>4, <2>5
    <2> QED BY <2>2, <2>6
  <1> HIDE DEF Built
  <1> QED BY <1>1, DispatchStarts, DispatchKeeps, PTL DEF DispatchSpec
=============================================================================
