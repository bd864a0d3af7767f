------------------------------ MODULE VMClient ------------------------------
(***************************************************************************)
(* The client's engine (client/src/vm/vm.cpp): opcodes go through the      *)
(* session's permutation and table to handler methods, one action each.    *)
(* Running off the code, a register that is not there, a condition that is *)
(* not one and a RET without a CALL throw.  VMDispatch models how perm and *)
(* the table come about; here perm is any bijection of the slots.          *)
(***************************************************************************)
EXTENDS VMMachine

CONSTANTS
  Memory,        \* the memories pack_inputs may build
  Permutation    \* what handler_permutation may return

\* The shuffle only swaps: VMDispatch.
ASSUME PermutationAssumption ==
  \A p \in Permutation :
    p \in [Byte -> Byte] /\ \A a, b \in Byte : p[a] = p[b] => a = b

VARIABLE perm

clientVars == <<code, m, perm>>

HandlerFor ==
  [NOP  |-> "h_nop",  MOV_RI |-> "h_mov_ri", MOV_RR |-> "h_mov_rr",
   LOAD |-> "h_load", STORE |-> "h_store",
   ADD  |-> "h_alu3", SUB |-> "h_alu3", MUL |-> "h_alu3", XOR |-> "h_alu3",
   AND  |-> "h_alu3", OR |-> "h_alu3", NOT |-> "h_not",
   ROL  |-> "h_shift", ROR |-> "h_shift", SHL |-> "h_shift", SHR |-> "h_shift",
   CMP  |-> "h_cmp", CMOV |-> "h_cmov", JMP |-> "h_jmp", JZ |-> "h_jcc",
   JNZ  |-> "h_jcc", CALL |-> "h_call", RET |-> "h_ret",
   HASH_ROUND |-> "h_hash", MIX |-> "h_mix", HALT |-> "h_halt"]

\* table_ after build_dispatch_table.
Table ==
  [slot \in Byte |->
     IF \E op \in Opcode : perm[OPCODES[op]] = slot
     THEN HandlerFor[CHOOSE op \in Opcode : perm[OPCODES[op]] = slot]
     ELSE "h_unknown"]

\* Mutant: the table is read at the opcode itself.
DispatchedDirect(h) ==
  Fetches /\ Table[code[m.ip + 1]] = h /\ UNCHANGED <<code, perm>>

\* (this->*table_[perm_[op]])(op) calls h.
Dispatched(h) ==
  Fetches /\ Table[perm[code[m.ip + 1]]] = h /\ UNCHANGED <<code, perm>>

Regs(ks) == \A k \in ks : IsReg(Arg(k))

\* R(rd) = v, after n operand bytes.
SetReg(n, ks, v) == Try(n, Regs({1} \cup ks), [Fetched(n) EXCEPT !.reg[Arg(1)] = v])

\* u64(): eight bytes or a throw.
u64 == Number(SubSeq(code, m.ip + 3, m.ip + 10))

ClientInit ==
  /\ code \in Seq(Byte)
  /\ perm \in Permutation
  /\ \E mem \in Memory : m = Machine(mem)
-----------------------------------------------------------------------------
h_nop == Dispatched("h_nop") /\ Try(0, TRUE, Fetched(0))

h_mov_ri == Dispatched("h_mov_ri") /\ SetReg(9, {}, u64)

h_mov_rr == Dispatched("h_mov_rr") /\ SetReg(2, {2}, R(2))

h_load == Dispatched("h_load") /\ SetReg(2, {2}, m.mem[R(2) % VM_MEM_WORDS])

h_store ==
  /\ Dispatched("h_store")
  /\ Try(2, Regs({1, 2}), [Fetched(2) EXCEPT !.mem[R(1) % VM_MEM_WORDS] = R(2)])

h_alu3 == Dispatched("h_alu3") /\ SetReg(3, {2, 3}, Alu(Op, R(2), R(3)))

h_not == Dispatched("h_not") /\ SetReg(2, {2}, Base - 1 - R(2))

h_shift == Dispatched("h_shift") /\ SetReg(3, {2}, Shifted(Op, R(2), Arg(3)))

\* Mutant: set_cmp_flags does not clear the flags first.
h_cmp_sticky ==
  /\ Dispatched("h_cmp")
  /\ Try(2, Regs({1, 2}), [Fetched(2) EXCEPT !.flags = @ \cup CmpFlags(R(1), R(2))])

h_cmp ==
  /\ Dispatched("h_cmp")
  /\ Try(2, Regs({1, 2}), [Fetched(2) EXCEPT !.flags = CmpFlags(R(1), R(2))])

h_cmov ==
  /\ Dispatched("h_cmov")
  /\ IF Has(3) /\ Arg(3) \in Conds /\ ~CondHolds(Arg(3))
     THEN m' = Fetched(3)
     ELSE Try(3, Arg(3) \in Conds /\ Regs({1, 2}),
              [Fetched(3) EXCEPT !.reg[Arg(1)] = R(2)])

h_jmp == Dispatched("h_jmp") /\ Try(2, TRUE, [Fetched(2) EXCEPT !.ip = Addr])

Taken == (Op = "JZ" /\ "ZF" \in m.flags) \/ (Op = "JNZ" /\ "ZF" \notin m.flags)

\* fold_path, with ip_ behind the operands.
FoldPath(taken) == Append(m.path, <<m.ip + 3, taken>>)

h_jcc ==
  /\ Dispatched("h_jcc")
  /\ Try(2, TRUE, [Fetched(2) EXCEPT !.path = FoldPath(Taken),
                                     !.ip = IF Taken THEN Addr ELSE @])

\* Mutant: the address of the CALL itself is pushed.
Pushed_ip == m.ip

\* Mutant: ip_ is pushed before the operand is read to its end.
PushedEarly == m.ip + 2

\* ip_ when h_call pushes it.
ReturnAddress == m.ip + 3

h_call ==
  /\ Dispatched("h_call")
  /\ Try(2, TRUE, [Fetched(2) EXCEPT !.stack = Append(@, ReturnAddress),
                                     !.ip = Addr])

h_ret ==
  /\ Dispatched("h_ret")
  /\ Try(0, m.stack # <<>>,
         [Fetched(0) EXCEPT !.ip = Last(m.stack), !.stack = Front(@)])

h_hash == Dispatched("h_hash") /\ SetReg(3, {2, 3}, hash_round(R(2), R(3)))

h_mix == Dispatched("h_mix") /\ SetReg(2, {2}, mix(R(1), R(2), Arg(1)))

h_halt ==
  /\ Dispatched("h_halt")
  /\ Try(1, TRUE, [Fetched(1) EXCEPT !.operand = Arg(1), !.status = "halted"])

h_unknown ==
  /\ Dispatched("h_unknown")
  /\ m' = [Fetched(0) EXCEPT !.operand = 253, !.status = "halted"]

MaxStepsReached ==
  /\ Running /\ m.steps >= MAX_STEPS
  /\ m' = [m EXCEPT !.operand = 238, !.status = "halted"]
  /\ UNCHANGED <<code, perm>>

IpOutOfRange ==
  /\ Running /\ m.steps < MAX_STEPS /\ m.ip >= Len(code)
  /\ m' = Raised
  /\ UNCHANGED <<code, perm>>

ClientNext ==
  \/ h_nop \/ h_mov_ri \/ h_mov_rr \/ h_load \/ h_store \/ h_alu3 \/ h_not
  \/ h_shift \/ h_cmp \/ h_cmov \/ h_jmp \/ h_jcc \/ h_call \/ h_ret \/ h_hash
  \/ h_mix \/ h_halt \/ h_unknown \/ MaxStepsReached \/ IpOutOfRange

ClientSpec == ClientInit /\ [][ClientNext]_clientVars
-----------------------------------------------------------------------------
\* The engine of the server, on the same code and the same memory.
Reference == INSTANCE VMReference

\* "The C++ client embeds ... an equivalent engine": each step of the client's
\* engine, through table and permutation, is the step the server's takes.
ImplementsReference == Reference!RefSpec
=============================================================================
