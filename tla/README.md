# A verification project for crackme (RankGate)

The repository holds a licence challenge in two programs: `client/`, the
portal a player runs (C++), and `server/app/`, the RankGate service (Python,
FastAPI). A solve attempt is three HTTP calls, `/hello`, `/exchange` and
`/finalize`, over a hand-made authenticated protocol; in the middle of it both
ends run the same program on two independently written virtual machines and
compare the digests. `tools/` holds the author's generators, the disassembler
and a second, threaded server for tests.

This directory models what decides whether a run ends in ACCESS GRANTED: the
session store, the handlers, the client's session, the network between them,
the two VM engines with the program they run, and the formats both ends must
agree on to the byte. It states correctness properties of that code, checks them
with TLC on small instances, and proves with TLAPS, for all values of the
constants, those of the store and of the handlers (also when they overlap in
threads), of the whole system of clients, network and server, of the VM's
dispatch table and its two engines, of the hashing, of the frames' way through
base64, of the license's way to who types it in, of the guards and decoys, and of
the client's way from its command line to the verdict.

## 1. Inventory

### Components

| Component | Source | State | Operations | What makes it correct | Here |
|---|---|---|---|---|---|
| Session store | `server/app/sessions.py` | an `OrderedDict` id -> `Session`, in order of use | `create`, `get`, `accept_client_counter`, `next_server_counter` | bounded; evicts the least recently used only; counters grow | `SessionStore`, `RecencyCache` |
| Handlers | `server/app/challenge_logic.py` | the fields of a `Session` | `handle_hello`, `handle_exchange`, `handle_finalize` | a session tells of one handshake; a refusal changes nothing but the counter; the flag follows a sound exchange | `RankGateServer` |
| Frames, transcript, keys | `server/app/protocol.py`, `client/src/challenge/transcript.*`, `client/src/net/binary_frame.*` | a rolling transcript at each end | seal, open, absorb, derive; serialize, parse | the MAC covers everything; both ends compute one transcript | `RankGateFrames` (terms), `FrameCodec` (bytes) |
| Verifier | `server/app/verifier.py` | none | normalise, decode and validate a license, validate VM result and proofs | a license opens for its own name only | `RankGateFrames`, `LicenseText` |
| Portal client session | `client/src/net/protocol.cpp`, `client/src/challenge/proof_builder.cpp` | stage, inputs and transcript of one run | `run_session` | granted only in agreement with the server; always ends | `RankGateClient`, `LicensePortal` |
| HTTP surface | `server/app/main.py`, `errors.py` | none of its own | `_run`, three endpoints, the debug endpoint | one generic error; one request after the other | `RankGateSystem`, `RankGateServer` |
| HTTP client | `client/src/net/http_client.*` | a connection per request | post, get | a failure or timeout ends the run; the URL's host and port are reached | `RankGateSystem`, `PortalApp` |
| VM dispatch table | `client/src/vm/vm.cpp:63-107, 247` | `perm_`, `table_` | shuffle, build, dispatch | same handler as a direct switch | `VMDispatch` |
| VM engine and reference | `client/src/vm/vm.cpp`, `server/app/vm_reference.py` | registers, memory, flags, stack, path | one handler per opcode, on each side | the two agree on every step | `VMMachine`, `VMReference`, `VMClient` |
| Program generator, disassembler | `tools/generate_vm_bytecode.py`, `disassemble_vm.py` | label table | `emit`, `assemble`, `build_program`; `decode`, `find_labels` | the listing is the program; the program halts as designed | `VMProgram` (partly) |
| License text | `client/src/challenge/license_format.cpp`, `verifier.py`, `tools/generate_license.py` | none | encode, decode, normalise | both decoders read the same | `LicenseText` |
| Base64 | `client/src/crypto/base64.cpp` | none | encode, decode | a body survives the trip | `FrameCodec` |
| Hashing and key derivation | `client/src/crypto/crypto.cpp`, `kdf.cpp`, `server/app/crypto_box.py` | BLAKE2b's buffer and counter | update, final, keystream, HKDF | byte-identical to the server's | `HashStreams` (partly) |
| Threaded test server | `tools/_test_server.py` | the same store, several threads | the same handlers, one thread per connection | counters are answered once, the flag is earned on some branch, the store is bounded | `ThreadedServer` |
| Application, command line | `client/src/app.cpp`, `main.cpp` | `Args`, the exit code | `parse_args`, `prompt`, `run_app` | the verdict follows from name, license and server alone | `PortalApp` |
| Protection layer | `client/src/protection/` | none that the protocol reads | `run_guards`, `run_anti_tamper`, `decoy_preflight` | gates nothing; patches show; the mixed arithmetic is the plain one | `Protection`, `PortalApp` (partly) |
| Configuration | `server/app/config.py`, `client/src/constants.hpp` | constants | - | labels, keys, sizes | the constants of the models |
| Offline tools | the rest of `tools/` | files | scripts that run once | output | not modelled |
| Self tests, build | `client/tests/`, build files | - | - | - | not modelled |

### How they interact

- The client calls the server; each request is a TCP connection of its own. There
  is no other channel, and nothing numbers requests below the frames.
- The three handlers share one `SessionStore` and mutate the `Session` objects
  in it. Under `main.py` they are called from `async` endpoints that never
  await inside a handler, so a handler is one atomic step.
- Client and server share no state, but their transcripts must be equal: keys,
  nonces and MACs are all functions of the transcript.
- The VM result goes into the client's proof and is recomputed by the server
  from the same license, name and nonces: the two engines, the two BLAKE2b
  implementations and the two HKDFs must agree bit for bit, or an honest run is
  refused.

### What is hard

- *Sequences of frames*: a second HELLO, a second exchange in the same session, a
  proof for a session that was evicted, an old proof after a restart.
- *Partial failure*: `handle_hello` may raise after it created the session;
  the counter is stored before the MAC is checked.
- *Delivery*: requests lost, repeated, garbled, answered after the client gave
  up (`http_client.cpp:66`, with WinHTTP's default timeouts).
- *Threads* in the test server: two requests in one session or in `create`, and
  `Session` objects that are held after they left the store.
- *Bounds*: `MAX_SESSIONS`, `MAX_STEPS`, the 8-bit indices of the shuffle, the
  range of an int and of a port.
- *Two implementations of one thing*: VM, hash, license decoder, normaliser, base64,
  transcript.

Under `hazards`, `PROJECT.json` lists each of these at its line with the
properties that would catch it.

## 2. Modules

```
RecencyCache <=== SessionStore
                       |
RankGateFrames --------+---> RankGateServer --+
      |                                       +--> RankGateSystem ===> LicensePortal
      +----------------> RankGateClient ------+

RankGateServer ---> ThreadedServer

RankGateServerProofs (store and handlers) --+--> RankGateSystemProofs
                                            +--> ThreadedServerProofs

BitOps ---> VMMachine --+--> VMReference <===+
                        +--> VMClient -------+--> VMProgram --+
                                                 VMDispatch --+--> VMProgramProofs <--+
FrameCodec -----------------------------------------------------> FrameCodecProofs <--+-- DataTheorems
HashStreams ---------------------------------------------------> HashStreamsProofs <--+

BitOps ---> LicenseText, Protection ---> PortalApp ---> PortalAppProofs <--- DataTheorems

--->  is extended by      ===>  INSTANCE ... WITH: implements
```

`DataTheorems` has no model in it: it is what the proofs about data need of
functions, sequences, division and sets, each fact once.

### The store: `SessionStore`, `RecencyCache`

`order` is the dictionary's key order (head first, as `popitem(last=False)`
takes it), `session` its values. `CreateWith` is `create` with what the caller
then stores in the fresh object; `GetWith` is `get` with the caller's update.
The handlers use the same operators, so their sessions sit in the store that
is proved about. `RecencyCache` says what that means without a dictionary: values
under a set of live keys, and a relation *last used before*; whoever changes a
value has made its key the most recent one.

### The protocol: `RankGateFrames`, `RankGateServer`, `RankGateClient`, `RankGateSystem`

A transcript is the sequence of the frames absorbed into it, which is exactly
as much as a collision-free hash remembers. Keys, MACs, signatures, proofs
and the VM result are free terms (records or tuples) over their inputs: two
are equal only if all their inputs are. A random draw is the next number of
`fresh`; a client's id stands for its key pair and its nonce, because both are
drawn once per run. A license is what the checks tell apart: its version, the
name its fragment was made for, and whether parity byte and keyed checksum are
right; the bytes are `LicenseText`'s.

`RankGateServer` has each outcome of each handler as an action: `HelloAnswered`,
`HelloCounterRefused`, `HelloUnreadable`, `HelloKeyRefused`; `UnknownSession`,
`CounterRefused`, `ExchangeRefused`, `ExchangeAnswered`; the same for
finalize. What a refused request still changes is kept: the new session with the
fields set so far, the counter, the place in the order of use. The debug
endpoint and a restart, which empties the store, are actions as well.

`RankGateClient` is `run_session` with its checks, in order, as guards.
`RankGateSystem` puts requests and replies between them. A reply goes to the
waiting request or to nobody. `Serve` handles one request; a *fault* is a
request that is served twice, a lost or garbled message, a failing HTTP call
while the request may still be served, or a server restart. `MaxFaults` bounds
their number; nothing bounds where they happen. `answered` is a history
variable. `LicensePortal` is the abstract specification: the flag is sealed only
for runs that are entitled to it, at most once, and a run is granted only
after that.

`ThreadedServer` is `tools/_test_server.py`: the same handlers, a thread for
each request, one store and no lock. The handlers are cut where CPython 3.12
(the version of `server/Dockerfile`) can switch threads: when a Python function
is entered, after a call returns, and at backward jumps. So `create` is cut in
its loop between `len` and `popitem`, `get` between the membership test and
`move_to_end`, a handler between the counter, the check, the counter of the
answer and its last assignments; a run of plain assignments is one step.
`AcceptCounter`'s comparison and store are such a run. `session` maps ids to
objects here and `heap` holds the objects, since a thread may hold one that
`create` has replaced or evicted. The guards and what is stored are
`RankGateServer`'s operators (`ExchangeStored`, `ServerProof`, ...).

### The VM: `VMDispatch`, `VMMachine`, `VMReference`, `VMClient`, `VMProgram`

`VMDispatch` has the shuffle's loop, the `set` calls and the indirect call as
actions, over any number of slots. The order of the `set` calls is left open
because no opcode is set twice. `perm_` and `table_` are the fields of the VM when
they are built; `VMClient` has what comes of them, any bijection `perm` and the
`Table` read through it, and `TableBuilt` proves that this is what is built.

`VMMachine` has the state and the arithmetic the two engines share by design
(words of `WordBits` bits, the fold of the path, `finish`). `VMReference` is the
server's engine, `VMClient` the client's, each from its own source: fetches, what
is read before a throw, what is folded and when, the order of writes, the step
limit. Exclusive or and conjunction of words are `BitOps`, defined bit by bit.
`VMProgram` assembles a source (two passes, as the generator), decodes
it again (as the disassembler), and runs the client's engine on it, with the
reference as abstract specification. Of the sources, `SourcesAssumption` says what `emit`
and `assemble` take without a complaint (`Assembles`), and that the code is shorter than
64 KiB, which nothing in the tool checks: it masks addresses with `0xFFFF`. The
shipped program has 242 bytes. The path is kept as the sequence of what is
folded into it, for the same reason as the transcript.

### Formats and the application: `FrameCodec`, `HashStreams`, `LicenseText`, `Protection`, `PortalApp`

`FrameCodec`: frames to bytes to base64 text and back, by the client's decoder
and by Python's (`b64decode(validate=False)`, external), with damage to the
text in between. The sizes of the fields are constants. Bits come in pairs, of
`Quarter` values each: a byte is four pairs and a character three, so the proportion
that matters is kept, whatever a pair is: three bytes fill four characters, and a rest of one or two
bytes has its own path. The decoders are the loops of the code, with a
buffer of 16 pairs (32 bits) from which each byte is shifted out.

`LicenseText`: the author's tool makes a license, someone edits a character, a
player types a name; each end's normaliser and decoder reads it. Names are character
codes. `ServerNormalizes` has NFC in front, as far as it reaches ASCII: three
characters become one of it (U+212A `K`, U+037E `;`, U+1FEF a grave accent), and
whatever else NFC composes or replaces stays beyond it and is refused.
In a text a character of
the base32 alphabet is its number; dash, white space and everything else follow.
White space is of two kinds: `Blank` is what both ends know (space, tab, CR, LF),
`Wide` what `str.strip` drops and `is_ws` does not (VT, FF, FS to US, NEL, NBSP, ...).

`PortalApp` goes on from there: the same player starts the client. `argv` is read
word by word as `parse_args` does, then come `crypto::init`, the guards, the
prompts, the preflight, normalising and decoding, the GET of the public key, and
the session, each with the ways it ends the run and the exit code. A URL and the
answer to the GET are sequences of the symbols their readers look for, so that
`HttpClient` and `parse_pubkey` are translated find by find; `stoi` reads white space,
a sign and a number, and throws where there is none or it is no int. Of the session
itself, which is `RankGateClient`, only its result is there: granted if
the key was the server's and the server accepts name and license. `Protection`
has what the guards and the decoys compute, in words of `WordBits` bits: the
checksum of the constant table and of `.text`, and the preflight's code.

`HashStreams`: `Blake2b::update/final` with its buffer, its two-word byte
counter and its flags, against what `hashlib.blake2b` compresses by RFC 7693;
`keystream` and `hkdf_expand` of both ends. The compression function is a free
term over the block, the counter and the flag. The buffer starts with
garbage, as in the code, where nothing initialises it.

## 3. What is checked

Every run finishes within two or three minutes on two workers. Deadlock is checked where
the model is of something that never stops (store, server, dispatch); the
configurations that switch it off are of things that do stop: a system whose
clients are done, a server that had its requests, a program that halted, a text
that was damaged once, a client that exited, a hash that returned.

| Run | Instance | Asks |
|---|---|---|
| `session_store` | 4 ids, store for 3, counters to 2 | what the store evicts, what its counters do, that it implements `RecencyCache` |
| `server_two_sessions` | 2 ids, 2 names, 2 licenses, counters to 4 in one session and to 2 in the other, 3 draws | the handlers against peers that post anything a holder of the session keys can build |
| `system_faults` | 2 runs, store for 2, 2 faults | agreement, transcripts in step, one answer per proof, implements `LicensePortal` |
| `system_live` | 2 runs with 6 kinds of input, store for 1, 1 fault | each run ends; one left alone ends as it deserves |
| `state_survives` | 1 run, 1 fault | a sentence of `sessions.py`, which does not hold (section 6) |
| `threads` | 2 threads, 5 requests, 3 ids, store for 1, counters to 5 | the store's bound, one answer per counter, the flag earned by an answered exchange |
| `threads_evict` | 2 threads, 3 requests, 2 ids, store for 1 | a sentence of `sessions.py` about threads, which does not hold (section 6) |
| `vm_dispatch` | 5 slots, 3 opcodes, 2 handlers | all 120 permutations |
| `vm_program` | the canonical program of 242 bytes with 12 memories and 3 permutations, and some 1600 short programs | assembler, disassembler and both engines agree, on every instruction and every way to go wrong; the canonical program halts in order and its path tells the inputs |
| `frame_codec` | 96 frames, any one edit of the text | what either end reads |
| `portal_app` | licenses of every name the author's tool takes, any one edit to one of 5 characters, 9 typed names; 33 command lines, 16 URLs, 11 answers, 10 images of the program | what the decoders and the validation take; who is let in; that guards and decoys decide nothing |
| `hash_streams` | 16204 calls | BLAKE2b, keystream and HKDF of the client against the server's |

What the properties say, by what could go wrong:

*A session mixes two handshakes.* `HandshakeCoherent`: keys, salt, server
random, name and id are those of the one handshake the transcript tells of, or
there are no keys and then nothing else the other handlers trust.
`RefusalsKeepHandshake`: a refused proof changes the counter only; an
answer extends the transcript by two frames and leaves the handshake alone; a
HELLO begins from nothing.

*A counter is used up and the transcript goes on, or the reverse.*
`CountersFollowTranscript`: client counters grow along the transcript, server
counters number the answers, and the stored ones are not behind.

*State of an earlier exchange outlives it.* `Proof1Stands`, `FlagEarned`: what
`proof1_ok`, `vm_digest` and `server_challenge2` speak of is the last exchange
in the transcript, that exchange was sound, and the flag is sealed only
over its challenge. A second exchange and a proof after it need client counters
up to 4, which one of the two sessions has.

*Threads overlap.* `BoundedByThreads`: the store is over its bound only by
the threads that are inside `create`. `CounterAnsweredOnce`: no two
answers of a handshake are for one client counter. With two requests of a
session under way at once their transcripts fork, and `FlagEarned` is lost
(section 6); `FlagEarnedOnBranch` is what remains of it: the flag is sealed only for a
transcript with a sound exchange in it, and for a proof over a sound exchange of
the same handshake that was answered.

*The client decides by something else than its inputs.* `VerdictByInputs`: the
name, the license, the URL and the answer for the key decide between granted and
denied, and the exit code says which; no guard, decoy, order of options or
prompt does. The property reads `argv` from its end, by what each place
means, where `parse_args` goes through it word by word; a URL by what may stand
in it (`NamesServer`), where `HttpClient` cuts it; and an answer by two bounds: who is
granted had one that carries the key in quotes somewhere behind the field
(`CarriesKey`), and one that says it as the servers do (`SaysKey`) is enough.
What lies between, a field without a value before another one that holds the key, may be
read or refused: `parse_pubkey` reads it. `PatchesShow`: one
patched word or byte shows in the report. `PreflightIsPlain`: the obfuscated sums
are the plain ones.

*Client and server disagree.* `Agreement`: a granted run shares all six frames
with the server. `InStep`: neither transcript is ever more than one frame ahead.
`ProofsAnsweredOnce`: no proof of a run is accepted twice, through repeats,
evictions and restarts. `ImplementsPortal`: all of that is what the portal
promises.

*Someone waits for ever.* `AllDecided`, and `DeservedVerdict`: if no fault
happens and the store keeps the session of a run, it gets the verdict its
inputs deserve. Without the second half of that condition it is false, and
rightly so: a store for one session that serves two runs evicts one of them.

*The two VMs drift apart.* `PermIsBijection`, `DispatchIsDirect`: the
permuted table is a direct switch. `ImplementsReference`: each step of the
client's engine is a step of the reference. `ListingIsProgram`,
`ExecutionFollowsListing`: the disassembler reads what the assembler wrote, and
`ip` and the return addresses never come to lie inside an instruction.
`PathTellsInputs`, `EndsInOrder`, `Finishes`: the canonical program does what it
is for; both ends would accept a wrong one alike, so no comparison of
the ends can find that.

*A format is read differently.* `Delivered`: white space in a body changes
nothing. `MacCoversAll`: no two rows of bytes parse to one frame, so the MAC over
the parsed frame covers the bytes. `NormalizersAgree`: the two normalisers agree on every
spelling in ASCII, and where they do not, only the server's takes it. `DecodersAgree`: the two
decoders agree on every text with white space of the client's kinds around it, and the
client refuses every other kind. `LicenseOpens`, `OnlyItsOwn`: a license opens for the
spellings of its name in ASCII and for nothing else. `DigestsAgree`, `StreamsAgree`: the
streaming hash compresses what it should whatever the buffer held, and no
byte of a stream is put out twice.

### Bounds, and why they are enough

- *Two sessions, two clients.* The handlers look at one session; sessions meet
  only in the store's order and in `fresh`. Two of them and a store for one
  or two show every meeting; the store alone is checked with four ids.
- *Counters to 2, 4 or 9.* A solve uses 1, 2, 3. With 4, any of the three frames
  may come with a counter that is too low, right or too high, and a second
  exchange or finalize has a counter left. In the system runs 9 only serves as a far counter in
  garbled frames.
- *Three draws* are a handshake and two exchanges, or two handshakes and one
  exchange; `MaxDraws` is a conjunct of `Next`, not of the handlers.
- *Faults*: one suffices for each property to meet each fault at each point; two
  for a repeat followed by a restart, or a loss followed by a repeat.
- *Five slots* have 120 permutations, more slots than opcodes, and two opcodes with
  one handler. The theorem is for every number.
- *Words of 5 bits* hold the number of input words (22) the program
  counts to; no instruction treats one bit of a word differently from
  another, except the shifts, whose amounts are reduced modulo the width, and
  the sign; sums and shifts wrap within a few steps. `MAX_STEPS` is 600, above
  what the canonical program takes, and endless loops of the short ones reach it.
- *Payloads of 0 to 3 bytes* give every length modulo three; *counters* 1, 29,
  255 are the smallest, one of two digits and the largest.
- *Messages to nine bytes* reach past two blocks of four; a counter word that
  wraps at 8 makes the carry happen; a block counter of 3 values makes HKDF's
  counter run out.

- *Two threads, five requests* let a HELLO, an exchange and a proof of one
  session meet another of them at each cut, and a HELLO of another session evict
  it meanwhile; with a store for one, two threads in `create` are enough to be over
  the bound by two. Five are what it takes to fork a handshake and to prove on
  the fork: a HELLO, an exchange, a proof and a second exchange that overlap, and
  a proof after them. The theorems are for any number of both.
- *Words of 8 bits* in the checksums: an odd factor is invertible in any width
  and an even one in none; sums carry and wrap. `DecoyLength` is 16: the decoys
  go through the first 16 of the license's 48 characters, and each of the rest is
  one more step of the same folds; among the names and licenses of the run is one
  that opens the decoy's unlock branch.
- *Command lines* of up to eight words: every option in both spellings, missing
  values, values that look like options, an option given twice, and each of sixteen
  URLs (path, no scheme, port past 65535, no port, https, IPv6, text behind the
  port, another host, another port, white space and a sign before the port, two signs, a
  negative port that comes to the server's and one that does not, and numbers too
  large and too small for an int). `IntMax` is 2^20 - 1 there, since TLC's own
  integers have 32 bits: sixteen times the values of a port, as an int has more of them.
- *Nine typed names*: in capitals, with white space around and inside, empty, too
  long, with a control character, with U+212A, and with a character that stays
  beyond ASCII. *Eleven answers*: main.py's and the test server's, another key,
  keys cut short, odd and not hexadecimal, no field, and fields without a value.

### Fairness

`RankGateSystem!Fairness` is weak fairness of each client's steps and of
serving some request. The first holds because a client is a process with no
loop that waits on anything but its request; the second because the server is
an event loop whose handlers never wait. Nothing is assumed of the network:
messages may be lost. A client whose request or reply is gone moves on by
`GiveUp`: the call at `http_client.cpp:66` fails when the connection is gone, or at
WinHTTP's default timeout, which the code leaves as it is. `GiveUp` is
enabled only when nothing can come any more; a timeout while the request is
under way is a fault (`HttpFails`). `VMProgram!FairSpec` is weak fairness of
the loop of `run()`, one thread that waits for nothing.

### Mutants

Each checked property is paired in `PROJECT.json` with a changed form of a
definition (marked *Mutant* in the module, next to the definition it changes)
under which the property fails. They are mistakes one could make in the code:
a counter that is not compared, a transcript saved too early, half of a swap, a
fold that skips branches not taken. They are no part of the specifications.

## 4. What is proved

| Theorem | Module | Says |
|---|---|---|
| `StoreCorrect`, `StoreTyped` | `RankGateServerProofs` | `StoreSpec => [](StoreTypeOK /\ NoDuplicates /\ Bounded)` |
| `StoreEvicts` | `RankGateServerProofs` | `StoreSpec => EvictOnlyLeastRecent` |
| `StoreCounters` | `RankGateServerProofs` | `StoreSpec => CountersOnlyGrow` |
| `StoreIsRecencyCache` | `RankGateServerProofs` | `StoreSpec => ImplementsRecencyCache` |
| `ServerTyped` | `RankGateServerProofs` | `ServerSpec => []ServerTypeOK` |
| `ServerCoherent` | `RankGateServerProofs` | `ServerSpec => []HandshakeCoherent` |
| `ServerCounted` | `RankGateServerProofs` | `ServerSpec => []CountersFollowTranscript` |
| `ServerProof1Stands` | `RankGateServerProofs` | `ServerSpec => []Proof1Stands` |
| `ServerFlagEarned` | `RankGateServerProofs` | `ServerSpec => []FlagEarned` |
| `ServerRefusals` | `RankGateServerProofs` | `ServerSpec => RefusalsKeepHandshake` |
| `SystemServes` | `RankGateSystemProofs` | `Spec => ServerSpec` |
| `SystemTyped` | `RankGateSystemProofs` | `Spec => []SystemTypeOK` |
| `SystemAgrees` | `RankGateSystemProofs` | `Spec => []Agreement` |
| `SystemImplementsPortal` | `RankGateSystemProofs` | `Spec => ImplementsPortal` |
| `SystemAnswersOnce` | `RankGateSystemProofs` | `Spec => []ProofsAnsweredOnce` |
| `SystemInStep` | `RankGateSystemProofs` | `Spec => []InStep` |
| `DispatchCorrect`, `DispatchPermutes` | `VMProgramProofs` | `DispatchSpec => [](PermIsBijection /\ DispatchIsDirect)` |
| `DispatchTypeCorrect` | `VMProgramProofs` | `DispatchSpec => []DispatchTypeOK` |
| `TableBuilt` | `VMProgramProofs` | `InstructionSet /\ DispatchSpec => [](Ready /\ perm = perm_ => perm is a bijection /\ table_ = Table)` |
| `ThreadedStoreBounded` | `ThreadedServerProofs` | `AnySpec => []BoundedByThreads` |
| `ThreadedFlagEarned` | `ThreadedServerProofs` | `KeyedSpec => []FlagEarnedOnBranch` |
| `ThreadedCounterOnce` | `ThreadedServerProofs` | `KeyedSpec => []CounterAnsweredOnce` |
| `EngineImplementsReference` | `VMProgramProofs` | `ClientSpec /\ ImmediatesWhole(code) => ImplementsReference` |
| `ProgramImplementsReference` | `VMProgramProofs` | `Spec /\ ImmediatesWhole(code) => ImplementsReference` |
| `LabelledImplementsReference` | `VMProgramProofs` | `Spec /\ ByLabels(source) => ImplementsReference` |
| `ListingHolds` | `VMProgramProofs` | `Spec => []ListingIsProgram` |
| `ExecutionStays` | `VMProgramProofs` | `Spec => []ExecutionFollowsListing` |
| `ClientDigestsAgree` | `HashStreamsProofs` | `Spec => []DigestsAgree` |
| `ClientStreamsAgree` | `HashStreamsProofs` | `Spec => []StreamsAgree` |
| `FramesCovered` | `FrameCodecProofs` | `Spec => []MacCoversAll` |
| `FramesDelivered` | `FrameCodecProofs` | `Spec => []Delivered` |
| `AppInvariant` | `PortalAppProofs` | `AppSpec => []AppInv` |
| `DecodersAgreeAlways` | `PortalAppProofs` | `AppSpec => []DecodersAgree` |
| `NormalizersAgreeAlways` | `PortalAppProofs` | `AppSpec => []NormalizersAgree` |
| `LicenseOpensAlways` | `PortalAppProofs` | `AppSpec => []LicenseOpens` |
| `LicenseRoundTrip` | `PortalAppProofs` | the server reads every license back from its text, and reads no other text as it, white space around it aside |
| `AcceptedIsItsText` | `PortalAppProofs` | `AppSpec =>` always: an accepted text with no white space in it is the text of bytes valid for the name |
| `PreflightIsPlainAlways` | `PortalAppProofs` | `AppSpec => []PreflightIsPlain` |
| `PatchesShowAlways` | `PortalAppProofs` | `AppSpec => []PatchesShow` |
| `VerdictAlways` | `PortalAppProofs` | `AppSpec => []VerdictByInputs` |

*The store.* The only assumption is `StoreAssumption`: `MAX_SESSIONS` is a
positive number (the code's is 1024) and the model's bound on counters a
number. The inductive invariant is `StoreInv == StoreTypeOK /\ NoDuplicates /\
Bounded`. Types alone are not inductive: `MoveToEnd` takes out *the* place of a
key, and only with `NoDuplicates` does that take the key out. `Bounded` is needed
for the eviction: `create` pops once, and one pop is enough only because the
store was within its bound before. The lemmas follow an order through removal,
`move_to_end`, insertion and `create`; `CreatedHolds` says also who is gone
afterwards, which with the invariant gives `StoreEvicts`. `NoDuplicates` is what a Python dictionary is, and only a part of the
invariant here, where a sequence stands for its order. `Bounded` is proved
and not part of a run, as `ImplementsRecencyCache` fails with it.

For `StoreIsRecencyCache` the mapping reads off an order who was used before whom
(`Older`). Removal keeps that relation among the keys that are left
(`WithoutOlder`), appending puts the key after all others (`AppendOlder`), so
`move_to_end` is the abstract `Newest` and the head is `LeastRecent`. A key that is
listed once makes the number of keys the length of the order (`IdsCounted`), which
is how the two notions of full agree. `CacheInv` adds to `StoreInv` that the counters
stay within the bound of `StoreSpec`.

*The dispatch table.* `DispatchAssumption`: there is a slot; opcodes are slots;
each opcode has a handler. The invariant is `DispatchInv`: types, `PermIsBijection`,
`ShuffleFirst`, `TableFollowsPerm`, `DispatchIsDirect`. The swap of the shuffle
keeps the permutation injective (`SwapKeepsBijection`). Injectivity is what
`Enter` needs: a table entry overwritten by another opcode would break
`TableFollowsPerm`. `ShuffleFirst` is needed because a swap after an
entry would as well. `TableFollowsPerm` with everything entered is
`DispatchIsDirect`. For `TableBuilt` the slots are the 256 of the code and the
opcodes and handlers those of `VMMachine` and `VMClient` (`InstructionSet`). Every slot
is taken by some byte, because a permutation that is injective on finitely many slots
takes them all (`SlotsTaken`), so `TableFollowsPerm` says what is in each.

*The handlers.* `ServerSpec` is the server among peers that may send any frame at
all, as often and in whatever order they like, with the debug endpoint and
restarts in between; the run `server_two_sessions` sends only what is built from
the keys and the values the session has. Nothing is assumed beyond
`StoreAssumption`. The invariant, `ServerInv`, says of each session, `SessionInv`:
its fields are those of the record and its transcript is a sequence of frames
with counters; `Coherent`, `Counted`, `Stands`, the three properties for one
session; and of each issued transcript that it was `Earned`. They need each other.
`Counted` gives the length of the transcript from the counter, so an answer adds
a pair of frames at a known place; `Coherent` says that the keys are those of the first
two frames, which an answer does not touch (`SameSalt`), so a frame that opens is one
for this handshake; `Stands` names the place of the last exchange as a witness
and is what makes a sealed transcript `Earned`. What a refused request leaves is
covered by `Follows`, which is also the action property. Types come after the
rest (`DrawsHold`): that a random was drawn is not needed for anything above.

*The system.* `SystemInv` adds to `ServerInv` what is true of the messages on their way
(`RequestHolds`: ids and counters are in range also when garbled;
`ReplyHolds`: an intact reply was sealed by the server on a transcript it held) and
of each run (`RunHolds`: which frames its transcript consists of, and what stage
it is in). `SystemServes` follows from the first alone, and with it each theorem on
`ServerSpec` holds of the system. For `Agreement`, a run that accepts
SEALED_FLAG has the transcript of an intact reply, which the server issued the flag
for, and its last exchange is the third frame, which carries the inputs of
the run itself. The only assumption, `SystemAssumption`, is that the number of
faults is a number and that clients draw ids of the id type.

*The portal.* `OwnedInv` says whose the requests are: an intact one was sealed by the
run it is booked to, on the transcript the run had then, which is a beginning of
the one it has now (`Carries`, `Prefix`). A frame the server accepts in
`handle_finalize` is intact, so the flag is issued for the first five frames of
its run, whose third frame makes the run `Entitled`: a `Seal` of `LicensePortal`
or, for a run that was sealed before, a stutter. A run that ends is `Grant` or
`Deny`, and everything else maps to a stutter.

*Replays.* `OnceInv` counts the answers. When a proof of run c was answered, the server
holds for c no transcript the proof would open on (`Once`), and it never will:
held transcripts stay, grow by an exchange, are forgotten, or begin anew
(`HeldGoesOn`), and a handshake that begins anew draws a `server_random` above all
that a run can have received (`DrawnBy`). This is what an eviction and a restart leave
true although the server remembers nothing.

*In step.* `InStep` alone is not inductive: a run that reads a reply of a handshake
the server holds must find the server exactly there. `StepInv` says so of each reply
its run still waits for (`Latest`): as long as the server holds the handshake of
that reply, it holds the transcript the reply ends. It stays true because the
server goes on only by an intact request of the same run (`Carries`), and a run that
waits has sent none it would be ahead by; and because of the fresh
`server_random` of `OnceInv` a new handshake is none that a reply knows.

*The store under threads.* `AnySpec` is the threaded server among peers that send
any frame at all, to any id; it bounds nothing. `ThreadAssumption` says that
there are finitely many threads. The invariant, `ThreadsInv`, is that the order
lists no key twice, that each thread that is at work is at work on some id, and
`BoundedByThreads` itself, which is inductive with these: an insertion adds one
session and one thread to `Creating`, and a thread leaves `Creating` only where
it saw the store within its bound, or empty. The lemmas about an order are
those of the store (`MoveToEndHolds`, `TailHolds`); what a step does to the set
of threads in `create` is `CreatingAfter`, once for all steps.

*The handlers under threads.* `KeyedSpec` is the threaded server among peers that
send what they like, but seal it only with the bootstrap key, which
everybody has, or with the keys of a handshake that was answered (`HasKey`). The
assumptions are the same two. An object may be held by a thread after it left the
store, and the id it was created for is written nowhere in it: `own` in `BranchInv`
says which it was. `HeapHolds` says of each object that it is bare or has the fields of a
handshake that was answered, `Stored` that the store has under an id an
object of that id, `GreetAlone` that no two HELLOs share an object or a draw.

What a thread holds depends on its place. A transcript it restored before the checks is
one of the object's handshake, unless the object had no keys then: a thread can
look an object up between `create` and the storing of its keys, and be ahead of
nothing. Then the frame cannot open, because keys that are not answered yet are known
to no peer (`Restored`, `KeysUnknown`). After the checks (`Checked`), an
exchange is sound and a proof is over a challenge and a digest that an
answered exchange put there (`PaidFor`, `Backed`). A thread between two of its
steps must find this true whatever the others did; `MovesHold` says it once, for
a step that keeps the other objects, takes its own from bare to keyed or goes on with its
handshake, and forgets no answer (`Moves`), and each action is then shown to be such
a step. `FlagEarned` is no consequence, and false: which branch the challenge is
of is not in the invariant.

For the counters, `CountInv`: the comparison and the storing in
`accept_client_counter` are one step, so the threads at work on one object have
different counters (`AcceptedOnce`), none above the stored one (`CountersStored`). An
answer is booked on the object whose handshake it is of (`AnswersCounted`), and
that is one object, because the draws that make the salts are fresh (`SaltsDiffer`). That
object need not be in the store any more.

*The two engines.* Nothing is assumed but that the permutation is a bijection, which
`DispatchPermutes` proves of the shuffle; the code is any sequence of bytes, and words,
memory and step limit are any. What a handler reads through `perm_` and `table_` is
the handler of its opcode (`DispatchedOp`), so a client's action is
at work on the opcode the reference's switch is at. Then one step per handler:
both fetch the same bytes, raise in the same cases, fold the same and write the
same. The type invariant `EngineTypeOK` says no more than that needs: the code is bytes,
`perm` one of the permutations, the fields of the machine are there, and `ip` and the return addresses
are numbers. The hypothesis
`ImmediatesWhole` says that no `MOV_RI` stands within the last nine bytes of the
code. It cannot be dropped: there the client's `u64` throws and the reference reads
a short number (`vm_reference.py:225`). The shipped program satisfies it (`CanonicalAssumption`, which TLC
evaluates).

*The program and its listing.* `SourcesAssumption` is assumed of the sources. Pass 1's offsets
are where pass 2 puts the bytes of each item (`FlattenAt`, `AssembleIs`). The
disassembler's loop stands, after as many turns as there were instructions in the first k items,
at the offset behind the k-th, with their lines read (`ListingIsLines`, by induction over
k), and the labels it finds in the operands of branches are the targets
(`FoundAreTargets`). This is about constants: the invariant is only that `code` is the
assembled source (`CodeIsAssembled`).

Execution is different. `ExecutionFollowsListing` is inductive with the types,
`OnLinesInv == EngineTypeOK /\ CodeIsAssembled /\ (ByLabels(source) => OnLines)`: `ip` and every return address are
`Stops`, offsets of instructions or the end of the code. At a stop the bytes are
an instruction of the source (`AtInstruction`), so what is behind it is a stop, and its label
is another (`OffsetsAreStops`); the return addresses are needed because a `RET`
takes `ip` from them. The operands of that instruction are all there. Hence no
`MOV_RI` is met that is cut off, and a program that branches to labels only needs no
`ImmediatesWhole` (`LabelledImplementsReference`).

*Hashing.* `HashAssumption` gives the sizes (a block holds a key, and a word counts
more than a block), `CallsAssumption` that no message comes near 2^128 bytes and no keystream
near 2^64 blocks; HKDF's byte counter has no such condition, since the
client wraps and `StreamsAgree` is about what the server does not refuse. The invariant is
`HashInv == StageInv /\ HashingInv /\ DigestsAgree /\ StreamInv`. In `HashingInv` an object
that was fed part of a message `Holds` n blocks of it in `h`, with the counter the
RFC has for each, and keeps the rest in its buffer; the rest is never empty once a block
was compressed (`Within`), because a full buffer is compressed only when another byte
comes. So `final` has the last block at hand, which is what `hashlib` compresses
last (`FinishedIsHashlib`), whatever the buffer held before. `IncCounts` is the
carry of the two-word counter. `StreamInv` says that what a stream has put out is a
number of whole blocks (`StreamHeld`), each the server's. That no byte comes twice
needs that the terms are different: a keystream's because its counter is written in bytes
that tell (`CounterInjective`), HKDF's because each block contains its predecessor
(`ChainInjective`).

*Frames in base64.* `CodecAssumption`: a pair of bits has at least two values, fields have
lengths, and the length field can say the largest payload; `SentAssumption`: the frames are
frames (`Frame`, with every field in its range) and their payload is not above what parse
takes. The invariant is only that `body` is a text of symbols and `sent` a frame to
be sent (`BodyInv`); the work is in the data. `SerializeParsed` puts the pieces of a
well-formed row of bytes together again, in order and without gap, which is
`FramesCovered` whatever the damage. `ParseSerialized` is the reverse. A decoder's loop
is a fold over the text. White space leaves it unchanged, so it reads what is left
without it (`ReadsDense`, by induction over sequences). Over an encoded text,
`EncodedRead` follows it group by group: after k characters of a group the buffer holds
the digits read, modulo 2^32, of which only the bits not yet in a byte matter, and `bits` says how
many; after four of them three bytes have come out, the ones that went in. The one or two bytes that are left over
end in a pad, at which the client stops and Python has its group complete.

*Licenses.* `AppSpec` is the whole application with any command line, and a text
that anyone edits before it starts. `LicenseAssumption` says that names and noise are character
codes, any at all; how many edits, how long names and which of them is left open. The
invariant, `AppInv`, says that what is typed and given are texts (`AppTyped`), and for
the two theorems below where the report and the preflight's code come from
(`ReportKept`, `CodeKept`); the rest is about data. The two decoders differ in what
they pass over, so splitting a text at its dashes is a fold in which a character passed over changes
nothing (`PassedOver`), and dropping white space at the ends is trimming it
(`TrimmedParts`, `SplitTrimmed`): `DecodersAgree`. For `LicenseOpens`, the bytes
that are built are valid for their name (`BuiltIsValid`: the parts that are put together are
found again by the slices `validate_license` takes); eight characters of five bits
give five bytes back, and five bytes eight characters (`EncodedIs`, `DecodedIs`, by the bits each piece is made of); the
text splits into its prefix and the five blocks, since no character of a block is a dash (`EncodeSplits`), and has no white space in it
(`EncodeSolid`); and what the client sends of a name the server's normaliser leaves as it
is (`ServerKeeps`), because each of them normalises it once. For `NormalizersAgree`, NFC changes nothing
of a spelling in ASCII (`NFCIs`), and what the client takes is one (`TakenIsAscii`). The keyed hashes are stand-ins, of which only the lengths and
that they give bytes is used.

*One text per license.* `LicenseRoundTrip` adds the way back: whatever has the layout of a license is what its
bytes are encoded to, because five bytes made of eight characters have their bits (`JoinedIs`) and give them
again (`BackIs`), and because the parts tell the text they were split from (`SplitTells`: what `Takes` made
tells the parts and the character it was made of). With `ServerKeeps` it follows that a text is accepted for a name
only as the text of bytes that `validate_license` takes for that name (`AcceptedIsItsText`). White space inside the
text is left to TLC: the prover cannot expand `SelectSeq`.

*Guards and decoys.* `ProtectionAssumption` leaves the width of a word open between 8 and 32
bits, and 32 is the code's; `ImageAssumption` says that a program in memory has eight
words for a table and bytes for a text. Exclusive or is its lowest bit and what it is for the halves, so facts about
it go by induction over pairs of numbers and their halves (`HalvingInduction`): `a ^^ b` and
twice `a & b` is the sum (`XorAndSum`), which is why `mba_add` adds, and what was put in is taken out
again (`XorTwice`). Sums may be cut to words before or after (`WordAdd`), so the
folds of the decoys are the plain ones, step by step. For `PatchesShow`, each step of a
checksum is one-to-one in the sum before it and in the word it takes in: exclusive or
is (`XorInjective`), and so is a multiplication by `FnvPrime`, which is odd, modulo a power of
two (`OddCancels`, by induction over the power). Two rows that differ in one place have then different sums from that
place to the end (`FoldedDiffers`). Two patches can cancel out, and nothing is said of them.

*The verdict.* `PortalAssumption` says that command lines are rows of words and URLs rows of symbols, that
the host has a symbol of its own, and that the server is not on port 80, which is what the client takes when a URL
names no port, nor on port 0, which WinHTTP takes for the same (31337 in the code), and that no answer looks like the
mark of one that was not asked for; which command lines, URLs and answers there are is open, and so are the largest int and the number of
ports. The invariant is `RunInv`. While `parse_args` goes through the words, what it has read so far is what a reader would make of the
words before it (`Parsing`): every option there is known and has its value, and
`args` is the value given last of each (`ArgsBefore`). The property finds the options by what stands before each
place, a recursive function that is first shown to exist (`OptionsExist`); that no value is taken for an option
needs that the option before it ended in time (`BehindValue`). Behind it `Parsed`, `NameKept` and
`LicenseKept` say that what is given is what the words say, wherever they say something,
and `Reached` that the server was asked if there is a key. `UrlIsRead` is about every URL there is: the constructor's cuts at
the first slash and the first colon and what `stoi` makes of the rest come to the server exactly for the URLs that
name it. The prefixes `NamesServer` speaks of are followed symbol by symbol (`StartsWith`): a scheme that is there or not
(`BareIs`), a path (`PathAside`), the host up to a colon (`HostIsRead`), and the gap, sign and number of a port
(`StoiIs`, `PortIsRead`). For answers, `parse_pubkey` reads what is between the second pair of places it finds
(`FoundIsRead`, `ReadIsFound`), and that is the key just if the key in quotes is there (`BetweenQuotes`): hence
`KeyCarried` and `KeySaid`. No condition on the answers or the texts is left.

### Model-checked only

- Liveness (`AllDecided`, `DeservedVerdict`, `Finishes`): the prover has no rule
  for fairness or `ENABLED`.
- `PathTellsInputs`, `EndsInOrder`: they are about one concrete program of 60
  lines, whose execution TLC goes through and a proof would only repeat.
- `OnlyItsOwn`: `validate_license` compares the version, the fragment, the parity and the checksum; the
  other 15 of the 25 bytes only go into parity and checksum, so that a text edited `MaxEdits` times is not accepted is a matter of the
  hashes, and these are stand-ins. `AcceptedIsItsText` is the part of it that does not
  depend on them.

Induction over data is done with the library's facts about the least element of a set
of numbers (`SetInduction`, `SeqInduction` in `DataTheorems`), and recursive functions are shown to exist before their
equation is used (`Recursion`, `LoopExists`). No module of the project has a
`RECURSIVE` operator.

## 5. What is not modelled

- *Cryptography*: X25519, Ed25519, XChaCha20-Poly1305, HMAC and BLAKE2b's
  compression function are libraries or free terms. That a low-order public
  key makes `x25519_shared` raise is kept, since a handler has a path for it.
- *Wall-clock time*: sessions have no expiry in the code; timeouts are the
  client's.
- *WinHTTP calls, banner and messages, build*: input and output.
- *Of the protection layer*: how a debugger is detected (one outcome, seen or not
  seen), the opaque predicates and the encoded strings, which are constants in
  disguise, the text of the decoy flag, `mba_xor`, which nothing calls. `mba_add` is
  computed in 64 bits and cut where it is used (`obfuscation.hpp:17`); the model cuts to a
  word at once, which comes to the same. The decoys' sums of a name
  with characters beyond ASCII are over its codes and not over their bytes; nothing depends on their value.
- *Arithmetic of the VM engines*: both use the operators of `VMMachine`, so
  `ImplementsReference` compares what is fetched, written, folded, thrown and counted,
  and not the sums themselves.
- *`CountersFollowTranscript` under threads*: it does not hold there, see
  section 6.
- *Encrypting the bytecode blob* and writing it as a header: a file written once.
- Code that ends inside the immediate of a `MOV_RI`, where the two engines
  differ (section 6): `ImmediatesWhole` excludes it from `EngineImplementsReference`, and a
  program assembled from branches to labels never gets there (`LabelledImplementsReference`).

## 6. What the work showed

*Two findings.* `sessions.py:3` says that state must survive across the three calls
of a single solve attempt. `handle_hello` calls `STORE.create` for each HELLO
before anything in the frame is checked (`challenge_logic.py:116`), so a HELLO
that is delivered twice, the second time after its answer, replaces the session of
a solve that is under way, and its next call is refused. `StateSurvivesCalls`
in the run `state_survives` shows it. The other properties are not touched: the
run ends in ACCESS DENIED.

`sessions.py:4` says that for a local server "a plain dict guarded by nothing fancy
is sufficient", and `_test_server.py:6` that its behaviour "matches main.py
exactly". Two threads in `create` can both find the store one over its bound
and each pop a session (`sessions.py:55-56`), so a session is lost that had its
place: `EvictsToBoundOnly` in the run `threads_evict`. A store for one may end up
empty, and `popitem` on an empty one raises.

*Observations* that no run is made of:

- `verifier.py:44-45` calls the canonical name "ASCII-only so the C++ client
  reproduces it", and `license_format.cpp:42` says "NFC over ASCII is the identity".
  It is, but a name need not be ASCII to become it: NFC makes `K` of U+212A, `;` of
  U+037E and a grave accent of U+1FEF (`verifier.py:46`), so the author's tool makes a license
  for such a spelling as for the plain one, and the client refuses it
  (`license_format.cpp:52`). The license opens for the plain spelling.
  `NormalizersAgree` says that this is the only difference.
- `license_format.cpp:64` speaks of tolerating surrounding white space; the client
  drops its four characters anywhere, the server's `decode_license`, which only the
  tools call, drops all Unicode has at the ends (`verifier.py:118`). `DecodersAgree` is
  stated for white space around a text, and says that VT, FF, NBSP and the like, which
  the tools drop, are refused by the client.
- `hkdf_expand` counts blocks in a `uint8_t` (`kdf.cpp:24`): past 255 blocks it
  wraps where `bytes([256])` raises in Python. No caller asks for more than 32
  bytes.
- `vm_reference.py:225` reads a short immediate at the end of the code by slicing,
  where the client's `u64` throws.
- `disassemble_vm.py:25-26` tests mnemonics against integer keys, so `NAMES` is
  always empty and the listing prints `OP_0x..` for each mnemonic.
- The debug endpoint looks a session up with `STORE.get` and makes it the most
  recently used (`main.py:93`).
- Under threads two exchanges of one session that overlap both extend the
  transcript they began with: the transcripts fork, and the session keeps the one
  that is stored last. `CountersFollowTranscript` is false there; an honest
  client, which waits for each answer, never sees it.
- Under threads `FlagEarned` does not hold either. An exchange and a proof of one
  session overlap; the proof is checked first and stored last, so the session has
  the transcript of the proof and the challenge of the exchange
  (`challenge_logic.py:215-217`, `:258`). The flag is then sealed for a second proof
  over that transcript and that challenge, which do not belong to one branch. With
  `FlagEarned` in `MCThreadedServer.cfg` TLC reports it after five requests.
- `anti_tamper.cpp:12-14` says the checksum of the table is baked and that any patch
  makes the two disagree. `const_table_expected()` is `constexpr` but is not called
  where a constant is required, and reads the same table: whether one, both or none
  of the two sums is computed by the compiler is left to it, and only
  if it is the expected one alone does a patch show. Then one patched word always
  shows; two can cancel out.
- The decoy flag's comment (`decoys.cpp:30`) and its bytes differ: they decode to
  `FLAG{decoy_thic_is_not_the_real_FLAG}`.
- `--help` leaves with exit code 0, as ACCESS GRANTED does. `crypto::init` and the
  guards are outside the `try` of `run_app`: a failing `sodium_init` ends in
  `std::terminate`.
- `https://host:port` and IPv6 URLs make `std::stoi` throw and end in ACCESS DENIED,
  as does a port that is no int; any other port is cut to 16 bits, so that
  `:96873` and `:-34199` reach 31337 (`http_client.cpp:36`, `:50`).
- A `public_key` without a value in the answer lets `parse_pubkey` read the value of
  a later field (`protocol.cpp:88-91`). No server here answers so.
- `handle_finalize` leaves `proof1_ok` set: a client that goes on in the same
  session may be sealed the flag again, over a longer transcript. `FlagEarned`
  holds of each of them.

## 7. Plan

Done in this order, most important first: store, handlers, client, system; VM
dispatch with its proof; the VM engines and the program; frames, license text,
hashing; the threaded server with its proofs; the application and the
protection layer; the proofs of the handlers and of the system, of the VM engines, of the
hashing and of the frame codec, of the program's listing and of its dispatch table, of
the license text and of the protection layer.

Next, to model: the base64 and frame formats in front of `RankGateSystem`'s garbled
messages, as a statement about which damage an end can notice.
