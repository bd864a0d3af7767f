---------------------------- MODULE VMReference ----------------------------
(***************************************************************************)
(* The server's engine (server/app/vm_reference.py): a direct switch on    *)
(* the opcode, one action for each branch of it.  An index out of range is *)
(* an exception that leaves run().                                         *)
(***************************************************************************)
EXTENDS VMMachine

CONSTANT Memory    \* the memories pack_inputs may build

refVars == <<code, m>>

Exec(ops) == Fetches /\ Op \in ops /\ UNCHANGED code

\* _u64 slices: at the end of the code it reads fewer than 8 bytes.
Immediate ==
  Number(SubSeq(code, m.ip + 3, IF Has(9) THEN m.ip + 10 ELSE Len(code)))

RefInit == code \in Seq(Byte) /\ \E mem \in Memory : m = Machine(mem)
-----------------------------------------------------------------------------
Nop == Exec({"NOP"}) /\ m' = Fetched(0)

MovImmediate ==
  /\ Exec({"MOV_RI"})
  /\ Try(1, IsReg(Arg(1)), [Fetched(9) EXCEPT !.reg[Arg(1)] = Immediate])

MovRegister ==
  /\ Exec({"MOV_RR"})
  /\ Try(2, IsReg(Arg(1)) /\ IsReg(Arg(2)),
         [Fetched(2) EXCEPT !.reg[Arg(1)] = R(2)])

Load ==
  /\ Exec({"LOAD"})
  /\ Try(2, IsReg(Arg(1)) /\ IsReg(Arg(2)),
         [Fetched(2) EXCEPT !.reg[Arg(1)] = m.mem[R(2) % VM_MEM_WORDS]])

Store ==
  /\ Exec({"STORE"})
  /\ Try(2, IsReg(Arg(1)) /\ IsReg(Arg(2)),
         [Fetched(2) EXCEPT !.mem[R(1) % VM_MEM_WORDS] = R(2)])

Binary ==
  /\ Exec({"ADD", "SUB", "MUL", "XOR", "AND", "OR"})
  /\ Try(3, \A k \in 1 .. 3 : IsReg(Arg(k)),
         [Fetched(3) EXCEPT !.reg[Arg(1)] = Alu(Op, R(2), R(3))])

Complement ==
  /\ Exec({"NOT"})
  /\ Try(2, IsReg(Arg(1)) /\ IsReg(Arg(2)),
         [Fetched(2) EXCEPT !.reg[Arg(1)] = Base - 1 - R(2)])

ShiftOrRotate ==
  /\ Exec({"ROL", "ROR", "SHL", "SHR"})
  /\ Try(3, IsReg(Arg(1)) /\ IsReg(Arg(2)),
         [Fetched(3) EXCEPT !.reg[Arg(1)] = Shifted(Op, R(2), Arg(3))])

Compare ==
  /\ Exec({"CMP"})
  /\ Try(2, IsReg(Arg(1)) /\ IsReg(Arg(2)),
         [Fetched(2) EXCEPT !.flags = CmpFlags(R(1), R(2))])

\* The registers are looked at only when the condition holds.
CondMove ==
  /\ Exec({"CMOV"})
  /\ Try(3, Arg(3) \in Conds /\ (CondHolds(Arg(3)) => IsReg(Arg(1)) /\ IsReg(Arg(2))),
         IF CondHolds(Arg(3)) THEN [Fetched(3) EXCEPT !.reg[Arg(1)] = R(2)]
                              ELSE Fetched(3))

Jump == Exec({"JMP"}) /\ Try(2, TRUE, [Fetched(2) EXCEPT !.ip = Addr])

Branch ==
  LET taken == (Op = "JZ") <=> ("ZF" \in m.flags)
  IN /\ Exec({"JZ", "JNZ"})
     /\ Try(2, TRUE, [Fetched(2) EXCEPT !.path = Append(@, <<m.ip + 3, taken>>),
                                        !.ip = IF taken THEN Addr ELSE @])

Call ==
  /\ Exec({"CALL"})
  /\ Try(2, TRUE, [Fetched(2) EXCEPT !.stack = Append(@, m.ip + 3), !.ip = Addr])

Return ==
  /\ Exec({"RET"})
  /\ Try(0, m.stack # <<>>,
         [Fetched(0) EXCEPT !.ip = Last(m.stack), !.stack = Front(@)])

Hash ==
  /\ Exec({"HASH_ROUND"})
  /\ Try(3, \A k \in 1 .. 3 : IsReg(Arg(k)),
         [Fetched(3) EXCEPT !.reg[Arg(1)] = hash_round(R(2), R(3))])

Mix ==
  /\ Exec({"MIX"})
  /\ Try(2, IsReg(Arg(1)) /\ IsReg(Arg(2)),
         [Fetched(2) EXCEPT !.reg[Arg(1)] = mix(R(1), R(2), Arg(1))])

Halt ==
  /\ Exec({"HALT"})
  /\ Try(1, TRUE, [Fetched(1) EXCEPT !.operand = Arg(1), !.status = "halted"])

Unknown ==
  /\ Exec({"unknown"})
  /\ m' = [Fetched(0) EXCEPT !.operand = 253, !.status = "halted"]

Runaway ==
  /\ Running /\ m.steps >= MAX_STEPS
  /\ m' = [m EXCEPT !.operand = 238, !.status = "halted"]
  /\ UNCHANGED code

OutOfCode ==
  /\ Running /\ m.steps < MAX_STEPS /\ m.ip >= Len(code)
  /\ m' = Raised
  /\ UNCHANGED code

RefNext ==
  \/ Nop \/ MovImmediate \/ MovRegister \/ Load \/ Store \/ Binary \/ Complement
  \/ ShiftOrRotate \/ Compare \/ CondMove \/ Jump \/ Branch \/ Call \/ Return
  \/ Hash \/ Mix \/ Halt \/ Unknown \/ Runaway \/ OutOfCode

RefSpec == RefInit /\ [][RefNext]_refVars
=============================================================================
