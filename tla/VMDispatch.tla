----------------------------- MODULE VMDispatch -----------------------------
(***************************************************************************)
(* The dispatch table of the client's virtual machine (client/src/vm/      *)
(* vm.cpp): a permutation of the slots is shuffled from the keystream of   *)
(* the session, the handlers are entered at the permuted slots, and run()  *)
(* calls the handler at the permuted slot of each opcode it fetches.  The  *)
(* server's vm_reference executes opcodes directly; the digests agree only *)
(* if the detour through the table changes nothing.                        *)
(***************************************************************************)
EXTENDS Integers

CONSTANTS
  Slots,       \* number of dispatch slots (256)
  Defined,     \* the opcodes the instruction set defines
  Handler,     \* the handler methods
  handler_for, \* opcode -> its handler; several opcodes share one
  fallback     \* h_unknown, the handler of every other byte

Slot == 0 .. Slots - 1

ASSUME DispatchAssumption ==
  /\ Slots \in Nat \ {0}
  /\ Defined \subseteq Slot
  /\ handler_for \in [Defined -> Handler]
  /\ fallback \in Handler

VARIABLES
  perm_, table_,   \* the fields of the VM
  index,           \* the slot the shuffle has come to; 0 when it is done
  todo,            \* the opcodes build_dispatch_table has yet to enter
  opcode,          \* the last opcode fetched; before the first, any
  called           \* the handler it was dispatched to

dispatchVars == <<perm_, index, table_, todo, opcode, called>>

\* Mutant: the loop runs once too often.
ShuffledLate == index < 0

Shuffled == index = 0

Ready == Shuffled /\ todo = {}

\* What the direct switch of the reference does with an opcode.
Direct(b) == IF b \in Defined THEN handler_for[b] ELSE fallback
-----------------------------------------------------------------------------
DispatchInit ==
  /\ perm_ = [b \in Slot |-> b]
  /\ index = Slots - 1
  /\ table_ = [b \in Slot |-> fallback]
  /\ todo = Defined
  /\ opcode \in Slot
  /\ called = Direct(opcode)

\* Mutant: one half of the exchange is missing.
SwappedHalf(j) == [perm_ EXCEPT ![index] = perm_[j]]

\* std::swap(perm[i], perm[j]) for j = (16 keystream bits) % (i + 1): every j up
\* to i comes up for some session nonce, since i + 1 <= 256.
Swapped(j) == [perm_ EXCEPT ![index] = perm_[j], ![j] = perm_[index]]

Shuffle ==
  /\ ~Shuffled
  /\ \E j \in 0 .. index : perm_' = Swapped(j)
  /\ index' = index - 1
  /\ UNCHANGED <<table_, todo, opcode, called>>

\* set(o, handler): the order of the calls is left open.
Enter(o) ==
  /\ Shuffled
  /\ o \in todo
  /\ table_' = [table_ EXCEPT ![perm_[o]] = handler_for[o]]
  /\ todo' = todo \ {o}
  /\ UNCHANGED <<perm_, index, opcode, called>>

\* Mutant: the table is read at the slot that was not permuted.
DispatchUnpermuted(b) ==
  /\ Ready
  /\ opcode' = b
  /\ called' = table_[b]
  /\ UNCHANGED <<perm_, index, table_, todo>>

\* (this->*table_[perm_[op]])(op), for whatever byte the program has there.
Dispatch(b) ==
  /\ Ready
  /\ opcode' = b
  /\ called' = table_[perm_[b]]
  /\ UNCHANGED <<perm_, index, table_, todo>>

DispatchNext ==
  \/ Shuffle
  \/ \E o \in Defined : Enter(o)
  \/ \E b \in Slot : Dispatch(b)

DispatchSpec == DispatchInit /\ [][DispatchNext]_dispatchVars
-----------------------------------------------------------------------------
DispatchTypeOK ==
  /\ perm_ \in [Slot -> Slot]
  /\ index \in Slot
  /\ table_ \in [Slot -> Handler]
  /\ todo \in SUBSET Defined
  /\ opcode \in Slot
  /\ called \in Handler

\* "Per-session bijection over the 256 dispatch slots": no two opcodes ever
\* share a slot, at any point of the shuffle.
PermIsBijection ==
  \A a, b \in Slot : perm_[a] = perm_[b] => a = b

\* Every slot holds the handler of the opcode permuted to it as far as the table
\* is built, and the fallback otherwise.
TableFollowsPerm ==
  \A b \in Slot :
    table_[perm_[b]] = IF b \in Defined \ todo THEN handler_for[b] ELSE fallback

\* "semantics are identical to a direct switch": every byte is dispatched to the
\* handler the direct switch takes.
DispatchIsDirect == called = Direct(opcode)

\* The order of the constructor: no handler is entered before the shuffle ends.
ShuffleFirst ==
  ~Shuffled => todo = Defined /\ \A slot \in Slot : table_[slot] = fallback

\* The inductive invariant.
DispatchInv ==
  /\ DispatchTypeOK
  /\ PermIsBijection
  /\ ShuffleFirst
  /\ TableFollowsPerm
  /\ DispatchIsDirect
=============================================================================
