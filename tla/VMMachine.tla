----------------------------- MODULE VMMachine -----------------------------
(***************************************************************************)
(* What the two engines of the RankGate virtual machine share: the         *)
(* instruction set, the machine state, and the arithmetic on words.        *)
(* VMReference and VMClient say what each engine does with them.           *)
(*                                                                         *)
(* Programs are the real byte sequences.  Words have WordBits bits instead *)
(* of 64, at most 8 of them: the long constants are given by their low     *)
(* byte, shifts count modulo the width.  The path id, an FNV fold, is the  *)
(* sequence of what was folded; the state hash is the state.               *)
(***************************************************************************)
EXTENDS Integers, Sequences, SequencesExt, BitOps

CONSTANTS
  WordBits,    \* 64
  MAX_STEPS    \* VM.MAX_STEPS, kMaxSteps

VARIABLES
  code,   \* the decrypted bytecode
  m       \* the VM object

Base == 2 ^ WordBits
VM_MEM_WORDS == 64
VM_NUM_REGS == 16

\* The values of a byte, and the slots of the dispatch table.
Byte == 0 .. 255

OPCODES ==
  [NOP  |-> 0,   MOV_RI |-> 16, MOV_RR |-> 17, LOAD |-> 32, STORE |-> 33,
   ADD  |-> 48,  SUB |-> 49, MUL |-> 50, XOR |-> 51, AND |-> 52, OR |-> 53,
   NOT  |-> 54,  ROL |-> 64, ROR |-> 65, SHL |-> 66, SHR |-> 67,
   CMP  |-> 80,  CMOV |-> 81, JMP |-> 96, JZ |-> 97, JNZ |-> 98, CALL |-> 99,
   RET  |-> 100, HASH_ROUND |-> 112, MIX |-> 113, HALT |-> 240]

OPERAND_LEN ==
  [NOP  |-> 0, MOV_RI |-> 9, MOV_RR |-> 2, LOAD |-> 2, STORE |-> 2,
   ADD  |-> 3, SUB |-> 3, MUL |-> 3, XOR |-> 3, AND |-> 3, OR |-> 3,
   NOT  |-> 2, ROL |-> 3, ROR |-> 3, SHL |-> 3, SHR |-> 3,
   CMP  |-> 2, CMOV |-> 3, JMP |-> 2, JZ |-> 2, JNZ |-> 2, CALL |-> 2,
   RET  |-> 0, HASH_ROUND |-> 3, MIX |-> 2, HALT |-> 1]

Opcode == DOMAIN OPCODES

\* The opcode a byte stands for.
Decoded ==
  [b \in Byte |-> IF \E op \in Opcode : OPCODES[op] = b
                      THEN CHOOSE op \in Opcode : OPCODES[op] = b
                      ELSE "unknown"]
-----------------------------------------------------------------------------
\* The number that big-endian bytes stand for.
Number(bytes) == FoldLeft(LAMBDA acc, b : (acc * 256 + b) % Base, 0, bytes)

rotl64(x, n) ==
  LET k == n % WordBits
  IN ((x * 2^k) % Base) + (x \div 2^(WordBits - k))

rotr64(x, n) == rotl64(x, WordBits - (n % WordBits))

hash_round(a, b) ==
  LET x1 == a ^^ rotl64(b, 17)
      x2 == (x1 * 21) % Base                     \* 0x9E37...7C15
      x3 == x2 ^^ (x2 \div 2^(31 % WordBits))
      x4 == (x3 + rotl64(a, 13)) % Base
  IN x4 ^^ rotr64(x4, 7)

mix(acc, val, rd) ==
  (acc + (rotl64(val, rd * 7 + 13) ^^ (3 % Base))) % Base   \* 0xD1B5...ED03

Alu(op, a, b) ==
  CASE op = "ADD" -> (a + b) % Base
    [] op = "SUB" -> (a - b) % Base
    [] op = "MUL" -> (a * b) % Base
    [] op = "XOR" -> a ^^ b
    [] op = "AND" -> a & b
    [] op = "OR"  -> a | b

Shifted(op, a, imm) ==
  CASE op = "ROL" -> rotl64(a, imm)
    [] op = "ROR" -> rotr64(a, imm)
    [] op = "SHL" -> (a * 2^(imm % WordBits)) % Base
    [] op = "SHR" -> a \div 2^(imm % WordBits)

CmpFlags(a, b) ==
  (IF a = b THEN {"ZF"} ELSE {}) \cup (IF a < b THEN {"CF"} ELSE {})
    \cup (IF (a - b) % Base >= Base \div 2 THEN {"SF"} ELSE {})

\* COND_ZF .. COND_NSF: the even codes ask for a flag, the odd ones against it.
Conds == 0 .. 5

CondHolds(c) ==
  (c % 2 = 0) <=> (<<"ZF", "CF", "SF">>[c \div 2 + 1] \in m.flags)
-----------------------------------------------------------------------------
\* pack_inputs, from words: the 8 of the username, 4 of the license, 2 of the
\* server random, 2 of the session id, 4 of the transcript and the domain.
PackInputs(length, username, license, random, sid, prefix, domain) ==
  LET words == <<length>> \o username \o license \o random \o sid \o prefix
                 \o <<domain>>
  IN [a \in 0 .. VM_MEM_WORDS - 1 |->
        IF a < Len(words) THEN words[a + 1] % Base ELSE 0]

\* A machine before its first step.  status stands for halted and for the
\* exception that leaves run().
Machine(mem) ==
  [ip |-> 0, reg |-> [r \in 0 .. VM_NUM_REGS - 1 |-> 0], mem |-> mem,
   stack |-> <<>>, flags |-> {}, path |-> <<>>, operand |-> 0, steps |-> 0,
   status |-> "running"]

\* run() takes another turn and fetches an opcode.
Running == m.status = "running"

Fetches == Running /\ m.steps < MAX_STEPS /\ m.ip < Len(code)

Op == Decoded[code[m.ip + 1]]

\* The k-th byte after the opcode, the address there, and whether n are left.
Arg(k) == code[m.ip + 1 + k]

Addr == Arg(1) * 256 + Arg(2)

Has(n) == m.ip + 1 + n <= Len(code)

IsReg(r) == r < VM_NUM_REGS

R(k) == m.reg[Arg(k)]

\* The machine once opcode and n operand bytes are fetched, and after a throw.
Fetched(n) == [m EXCEPT !.ip = @ + 1 + n, !.steps = @ + 1]

Raised == [m EXCEPT !.status = "raised"]

\* n operand bytes are fetched and what must hold holds, or the engine raises.
Try(n, ok, next) == m' = IF Has(n) /\ ok THEN next ELSE Raised

\* finish(): what the two ends compare.
Finish(v) ==
  [vm_digest     |-> <<v.reg[12], v.reg[13], v.reg[14], v.reg[15]>>,
   vm_state_hash |-> <<v.reg, v.stack, v.flags, v.ip % 65536, v.path>>,
   vm_path_id    |-> v.path,
   vm_halt_code  |-> <<v.operand, v.path>>]
=============================================================================
