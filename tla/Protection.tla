----------------------------- MODULE Protection -----------------------------
(***************************************************************************)
(* What client/src/protection computes: the self-checks of anti_tamper.cpp *)
(* and the decoys of decoys.cpp, in the mixed boolean arithmetic of        *)
(* obfuscation.hpp.                                                        *)
(*                                                                         *)
(* A uint32_t has WordBits bits, 32 in the code.  Sums, products and       *)
(* exclusive ors of a word depend on the lower bits only: narrower words   *)
(* are the low bits of what the code computes.                             *)
(***************************************************************************)
EXTENDS Integers, SequencesExt, BitOps

CONSTANTS WordBits

\* A byte is a word.
ASSUME ProtectionAssumption == WordBits \in 8 .. 32

Base == Power[WordBits]

Word(n) == n % Base

\* The word 0xhilo of hexadecimal digits: a narrow one has none of the upper 16 bits.
Word32(hi, lo) == Word(lo + (IF WordBits <= 16 THEN 0 ELSE hi * Power[16]))

FnvBasis == Word32(\h811C, \h9DC5)
FnvPrime == Word32(\h0100, \h0193)
-----------------------------------------------------------------------------
(***************************************************************************)
(* run_anti_tamper.  The image of the program is its constant table, the   *)
(* bytes of .text, empty when find_text finds none, and which of the two   *)
(* checksums of the table the compiler has folded: kConstTable and         *)
(* const_table_expected are constexpr, and nothing says where they are     *)
(* computed.                                                               *)
(***************************************************************************)
kConstTable ==
  <<Word32(\h9E37, \h79B9), Word32(\h85EB, \hCA77), Word32(\hC2B2, \hAE3D),
    Word32(\h27D4, \hEB2F), Word32(\h1656, \h67B1), Word32(\hD1B5, \h4A33),
    FnvBasis, FnvPrime>>

TableBasis == Word32(\h1234, \h5678)
TableShift == \hABCD

\* Mutant: the factor is even.
TableSumEven(table) ==
  FoldLeft(LAMBDA s, v : Word((s ^^ v) * (FnvPrime + 1) + TableShift), TableBasis, table)

TableSum(table) ==
  FoldLeft(LAMBDA s, v : Word((s ^^ v) * FnvPrime + TableShift), TableBasis, table)

TextSum(text) == FoldLeft(LAMBDA s, b : Word((s ^^ b) * FnvPrime), FnvBasis, text)

Int3 == 204

\* TamperReport.  A checksum that was not folded is of the table in memory.
run_anti_tamper(image) ==
  LET Sum(which) ==
        TableSum(IF which \in image.folded THEN kConstTable ELSE image.table)
  IN [const_table_ok |-> Sum("table") = Sum("expected"),
      text_checksum  |-> IF image.text = <<>> THEN 0 ELSE TextSum(image.text),
      int3_count     |-> Len(SelectSeq(image.text, LAMBDA b : b = Int3))]
-----------------------------------------------------------------------------
(***************************************************************************)
(* The decoys.                                                             *)
(***************************************************************************)
\* Mutant: the carries are not doubled.
mba_add_single(a, b) == Word((a ^^ b) + (a & b))

mba_add(a, b) == Word((a ^^ b) + 2 * (a & b))

blinded32(hi_split, lo_split, blind) ==
  mba_add(hi_split ^^ blind, lo_split) ^^ blind

Blind == Word32(\h9E37, \h79B9)

Serial(license) == FoldLeft(LAMBDA acc, c : blinded32(acc, c, Blind), FnvBasis, license)

\* The sum of bytes that the serial check and the trace of the blob share.
Added(bytes) == FoldLeft(LAMBDA acc, b : mba_add(acc, b), 0, bytes)

fake_serial_check(name, license) ==
  (Serial(license) ^^ Added(name)) % Power[16] = Word(\h1337)

kDecoyBytecode ==
  <<16, 0, 42, 51, 1, 2, 96, 0, 24, 112, 12, 13, 14, 64, 3, 17, 80, 4, 5, 97, 0, 44, 51,
    6, 6, 113, 12, 12, 49, 7, 7, 8, 240, 153, 33, 9, 10, 32, 11, 12, 51, 13, 14, 15,
    100, 66, 1, 2, 3, 112, 10, 11, 12, 54, 5, 6, 240, 126, 17, 34, 51, 68, 85, 102, 119,
    136, 153, 170, 187, 204, 221, 238>>

Fnv(h, s) == FoldLeft(LAMBDA acc, c : mba_add(Word((acc ^^ c) * FnvPrime), 0), h, s)

input_hash(a, b) == Fnv(Fnv(FnvBasis, a) ^^ \h7C, b)

Unlocks(name, license) == input_hash(name, license) = Word32(\h5A1C, \h9E37)

DecoyFlagSize == 37

\* What decoy_preflight makes of the three checks.
Code(trace, serial_ok, unlocked) ==
  (trace ^^ (IF serial_ok THEN 165 ELSE 90))
    ^^ (IF unlocked THEN DecoyFlagSize ELSE 0)

decoy_preflight(name, license) ==
  Code(Added(kDecoyBytecode), fake_serial_check(name, license),
       Unlocks(name, license))
-----------------------------------------------------------------------------
(***************************************************************************)
(* The same in plain arithmetic.                                           *)
(***************************************************************************)
PlainSum(bytes) == Word(FoldLeft(LAMBDA acc, b : acc + b, 0, bytes))

\* FNV-1a
PlainFnv(h, s) == FoldLeft(LAMBDA acc, c : Word((acc ^^ c) * FnvPrime), h, s)

PlainSerial(license) ==
  FoldLeft(LAMBDA acc, c : Word((acc ^^ Blind) + c) ^^ Blind, FnvBasis, license)

PlainPreflight(name, license) ==
  LET serial == PlainSerial(license) ^^ PlainSum(name)
      hash   == PlainFnv(PlainFnv(FnvBasis, name) ^^ \h7C, license)
  IN Code(PlainSum(kDecoyBytecode), serial % Power[16] = Word(\h1337),
          hash = Word32(\h5A1C, \h9E37))
=============================================================================
