--------------------------- MODULE RankGateServer ---------------------------
(***************************************************************************)
(* The three request handlers of server/app/challenge_logic.py.  A handler *)
(* runs without giving up the event loop, so one request is one step.  A   *)
(* handler that raises keeps whatever it stored before: its outcomes are   *)
(* one action each, named for where the handler stops.                     *)
(*                                                                         *)
(* fresh counts the random draws (server keypair and server_random in      *)
(* handle_hello, server_challenge2 in handle_exchange).  issued is a       *)
(* history variable: the transcripts T5 the flag was sealed for.           *)
(***************************************************************************)
EXTENDS SessionStore, RankGateFrames

VARIABLES fresh, issued

serverVars == <<order, session, fresh, issued>>

\* Session(session_id=...): the field defaults.  keys is the dict, empty or
\* holding one bundle; server_random stands for server_eph_pub as well.
NewSession ==
  [client_counter    |-> 0,
   server_counter    |-> 0,
   username_norm     |-> NoUser,
   server_random     |-> 0,
   keys              |-> {},
   transcript_state  |-> <<>>,
   salt              |-> <<>>,
   server_challenge2 |-> 0,
   vm_digest         |-> <<>>,
   proof1_ok         |-> FALSE]

ServerInit ==
  /\ order = <<>>
  /\ session = <<>>
  /\ fresh = 0
  /\ issued = {}

\* os.urandom and x25519_keypair: a value never drawn before.
Draw == fresh + 1
-----------------------------------------------------------------------------
(***************************************************************************)
(* handle_hello.  The session is created before anything in the frame was  *)
(* checked, and stays when a later check fails.                            *)
(***************************************************************************)
HelloAccepted(f) ==
  /\ f.body.type = "HELLO"
  /\ Acceptable(NewSession, f.body.counter)

\* The frame opens, its payload parses and the username normalises.
HelloReadable(f) ==
  /\ PlainOpen(Transcript0, f)
  /\ f.body.payload.username \in User

HelloNamed(f) == HelloAccepted(f) /\ HelloReadable(f)

\* The frame's counter is not above the new session's.
HelloCounterRefused(f) ==
  /\ f.body.type = "HELLO"
  /\ ~Acceptable(NewSession, f.body.counter)
  /\ CreateWith(f.body.session_id, NewSession)
  /\ UNCHANGED <<fresh, issued>>

\* Transcript MAC mismatch, malformed payload or a username out of range.
HelloUnreadable(f) ==
  /\ HelloAccepted(f)
  /\ ~HelloNamed(f)
  /\ CreateWith(f.body.session_id, Accept(NewSession, f.body.counter))
  /\ UNCHANGED <<fresh, issued>>

\* Mutant: a HELLO for a live id goes on with the session that is there.
HelloKeyRefusedInPlace(f) ==
  /\ HelloNamed(f)
  /\ f.body.payload.client_pub = WeakPub
  /\ CreateWith(f.body.session_id,
                [(IF Known(f.body.session_id) THEN session[f.body.session_id]
                                              ELSE NewSession) EXCEPT
                   !.username_norm = f.body.payload.username])
  /\ UNCHANGED <<fresh, issued>>

\* x25519_shared raises after the username was stored.
HelloKeyRefused(f) ==
  /\ HelloNamed(f)
  /\ f.body.payload.client_pub = WeakPub
  /\ CreateWith(f.body.session_id,
                [Accept(NewSession, f.body.counter) EXCEPT
                   !.username_norm = f.body.payload.username])
  /\ UNCHANGED <<fresh, issued>>

\* SERVER_CHALLENGE, under the counter n, with the values drawn for it.
ServerChallenge(f, n, draw) ==
  LET t1 == Absorb(Transcript0, f)
  IN PlainSeal(t1, "SERVER_CHALLENGE", f.body.session_id, n,
               [server_random |-> draw, signature |-> Signature(t1, draw)])

\* The assignments at the end of handle_hello.
HelloStored(s, f, n, draw) ==
  LET t2 == After(ServerChallenge(f, n, draw))
  IN [s EXCEPT !.keys             = {DeriveKeys(t2)},
               !.transcript_state = t2,
               !.salt             = t2,
               !.server_random    = draw]

\* The session an accepted HELLO leaves.
AfterHello(s, f) ==
  [HelloStored(s, f, NextServerCounter(s), Draw) EXCEPT
     !.client_counter = f.body.counter,
     !.username_norm  = f.body.payload.username,
     !.server_counter = NextServerCounter(s)]

HelloAnswered(f) ==
  /\ HelloNamed(f)
  /\ f.body.payload.client_pub # WeakPub
  /\ CreateWith(f.body.session_id, AfterHello(NewSession, f))
  /\ fresh' = Draw
  /\ UNCHANGED issued

HelloFailed(f) ==
  HelloCounterRefused(f) \/ HelloUnreadable(f) \/ HelloKeyRefused(f)
-----------------------------------------------------------------------------
(***************************************************************************)
(* What handle_exchange and handle_finalize share: the lookup, then the    *)
(* counter, which is stored before the MAC is checked.                     *)
(***************************************************************************)
Addressed(f) == session[f.body.session_id]

UnknownSession(f) ==
  /\ ~Known(f.body.session_id)
  /\ UNCHANGED serverVars

CounterRefused(f) ==
  /\ Known(f.body.session_id)
  /\ ~Acceptable(Addressed(f), f.body.counter)
  /\ GetWith(f.body.session_id, Addressed(f))
  /\ UNCHANGED <<fresh, issued>>

CounterAccepted(f) ==
  /\ Known(f.body.session_id)
  /\ Acceptable(Addressed(f), f.body.counter)

\* Mutant: the transcript is saved before the proof was checked.
ProofRefusedAbsorbed(f) ==
  /\ GetWith(f.body.session_id,
             [Accept(Addressed(f), f.body.counter) EXCEPT
                !.transcript_state = After(f)])
  /\ UNCHANGED <<fresh, issued>>

\* The handler raises somewhere after accept_client_counter.
ProofRefused(f) ==
  /\ GetWith(f.body.session_id, Accept(Addressed(f), f.body.counter))
  /\ UNCHANGED <<fresh, issued>>

\* keys["mac"] on the empty dict of a half-created session raises as well.
OpensForSession(s, f) ==
  \E keys \in s.keys : AeadOpen(s.transcript_state, keys, "c2s", f)
-----------------------------------------------------------------------------
(***************************************************************************)
(* handle_exchange                                                         *)
(***************************************************************************)
\* validate_vm: the result is computed again.
ValidVm(s, sid, p) ==
  p.vm = RunVm("current", s.username_norm, p.license, s.server_random, sid,
               s.salt)

\* Mutant: the license is not validated.
ValidProof1AnyLicense(s, sid, p) == ValidVm(s, sid, p)

\* Mutant: the result of the VM is taken as supplied.
ValidProof1AnyVm(s, sid, p) == ValidLicense(s.username_norm, p.license)

\* validate_license, validate_vm, validate_proof1
ValidProof1(s, sid, p) ==
  /\ ValidLicense(s.username_norm, p.license)
  /\ ValidVm(s, sid, p)
  /\ \E keys \in s.keys :
       p.proof1 = Proof1(keys, s.username_norm, p.license, p.vm,
                         s.server_random, sid, s.salt)

Proof1Accepted(f) ==
  /\ f.body.type = "CLIENT_PROOF_1"
  /\ CounterAccepted(f)
  /\ OpensForSession(Addressed(f), f)
  /\ ValidProof1(Addressed(f), f.body.session_id, f.body.payload)

ExchangeRefused(f) ==
  /\ f.body.type = "CLIENT_PROOF_1"
  /\ CounterAccepted(f)
  /\ ~Proof1Accepted(f)
  /\ ProofRefused(f)

\* SERVER_PROOF_1 of the session s for the frame f, under the counter n.
ServerProof(s, f, n, draw) ==
  LET keys == CHOOSE k \in s.keys : TRUE
      t3   == After(f)
  IN AeadSeal(t3, keys, "s2c", "SERVER_PROOF_1", f.body.session_id, n,
              [server_proof1 |-> ServerProof1(keys, t3, f.body.payload.vm, draw),
               challenge2    |-> draw])

\* Mutant: the challenge of a first exchange is kept through a second one.
ExchangeStoredOldChallenge(s, f, n, draw) ==
  [s EXCEPT !.transcript_state  = After(ServerProof(s, f, n, draw)),
            !.server_challenge2 = IF s.proof1_ok THEN @ ELSE draw,
            !.vm_digest         = f.body.payload.vm,
            !.proof1_ok         = TRUE]

\* Mutant: the transcript is saved before SERVER_PROOF_1 is absorbed.
ExchangeStoredEarly(s, f, n, draw) ==
  [s EXCEPT !.transcript_state  = After(f),
            !.server_challenge2 = draw,
            !.vm_digest         = f.body.payload.vm,
            !.proof1_ok         = TRUE]

\* The assignments at the end of handle_exchange.
ExchangeStored(s, f, n, draw) ==
  [s EXCEPT !.transcript_state  = After(ServerProof(s, f, n, draw)),
            !.server_challenge2 = draw,
            !.vm_digest         = f.body.payload.vm,
            !.proof1_ok         = TRUE]

\* The session an accepted CLIENT_PROOF_1 leaves.
AfterExchange(s, f) ==
  [ExchangeStored(s, f, NextServerCounter(s), Draw) EXCEPT
     !.client_counter = f.body.counter,
     !.server_counter = NextServerCounter(s)]

ExchangeAnswered(f) ==
  /\ Proof1Accepted(f)
  /\ GetWith(f.body.session_id, AfterExchange(Addressed(f), f))
  /\ fresh' = Draw
  /\ UNCHANGED issued

ExchangeFailed(f) ==
  /\ f.body.type = "CLIENT_PROOF_1"
  /\ UnknownSession(f) \/ CounterRefused(f) \/ ExchangeRefused(f)
-----------------------------------------------------------------------------
(***************************************************************************)
(* handle_finalize.  It leaves proof1_ok set, so a further CLIENT_PROOF_2  *)
(* over the longer transcript is answered again.                           *)
(***************************************************************************)
FinalizeType(f) == f.body.type \in {"CLIENT_PROOF_2", "FINALIZE"}

\* validate_proof2
ValidProof2(s, p) ==
  \E keys \in s.keys :
    p.proof2 = Proof2(keys, s.server_challenge2, s.server_random, s.vm_digest,
                      s.salt)

\* Mutant: CLIENT_PROOF_2 is taken without a CLIENT_PROOF_1.
Proof2AcceptedFirst(f) ==
  /\ FinalizeType(f)
  /\ CounterAccepted(f)
  /\ OpensForSession(Addressed(f), f)
  /\ ValidProof2(Addressed(f), f.body.payload)

Proof2Accepted(f) ==
  /\ FinalizeType(f)
  /\ CounterAccepted(f)
  /\ Addressed(f).proof1_ok
  /\ OpensForSession(Addressed(f), f)
  /\ ValidProof2(Addressed(f), f.body.payload)

FinalizeRefused(f) ==
  /\ FinalizeType(f)
  /\ CounterAccepted(f)
  /\ ~Proof2Accepted(f)
  /\ ProofRefused(f)

\* SEALED_FLAG of the session s for the frame f, under the counter n.
SealedFlag(s, f, n) ==
  LET keys == CHOOSE k \in s.keys : TRUE
      t5   == After(f)
  IN AeadSeal(t5, keys, "s2c", "SEALED_FLAG", f.body.session_id, n,
              [inner |-> SealedInner(t5, keys)])

\* Mutant: the handler works on a copy of the session.
AfterFinalizeLost(s, f) == s

\* The session an accepted CLIENT_PROOF_2 leaves.
AfterFinalize(s, f) ==
  [Accept(s, f.body.counter) EXCEPT
     !.server_counter   = NextServerCounter(s),
     !.transcript_state = After(SealedFlag(s, f, NextServerCounter(s)))]

FinalizeAnswered(f) ==
  /\ Proof2Accepted(f)
  /\ GetWith(f.body.session_id, AfterFinalize(Addressed(f), f))
  /\ issued' = issued \cup {After(f)}
  /\ UNCHANGED fresh

FinalizeFailed(f) ==
  /\ FinalizeType(f)
  /\ UnknownSession(f) \/ CounterRefused(f) \/ FinalizeRefused(f)
-----------------------------------------------------------------------------
\* One request to each endpoint.  A frame of a type the endpoint does not take
\* is refused before the store is touched and is not a step.
HandleHello(f) == HelloAnswered(f) \/ HelloFailed(f)
HandleExchange(f) == ExchangeAnswered(f) \/ ExchangeFailed(f)
HandleFinalize(f) == FinalizeAnswered(f) \/ FinalizeFailed(f)

Handle(f) == HandleHello(f) \/ HandleExchange(f) \/ HandleFinalize(f)

\* The debug endpoint, with SERVER_DEBUG set: it shows a session, and looking it
\* up makes it the most recently used one.
DebugTranscript(sid) ==
  /\ Known(sid)
  /\ Get(sid)
  /\ UNCHANGED <<fresh, issued>>

\* The process stops and is started again: STORE lives in memory only.
Restart ==
  /\ order' = <<>>
  /\ session' = <<>>
  /\ UNCHANGED <<fresh, issued>>

\* The server among peers that may send any frame at all.  An id is a 16-byte
\* field of the header and a counter an unsigned one: Frame.parse yields nothing
\* else.
ServerNext ==
  \/ \E f : f.body.session_id \in SessionId /\ f.body.counter \in Nat /\ Handle(f)
  \/ \E sid \in SessionId : DebugTranscript(sid)
  \/ Restart

ServerSpec == ServerInit /\ [][ServerNext]_serverVars
-----------------------------------------------------------------------------
(***************************************************************************)
(* Properties.                                                             *)
(***************************************************************************)
Transcripts == {session[sid].transcript_state : sid \in Ids(order)} \cup issued

Positions(t, type) == {i \in DOMAIN t : t[i].type = type}

\* Sessions are Session objects under the keys of the dictionary, the flag is
\* only sealed for complete transcripts.
ServerTypeOK ==
  /\ order \in Seq(SessionId)
  /\ DOMAIN session = Ids(order)
  /\ \A sid \in Ids(order) :
       LET s == session[sid]
       IN /\ DOMAIN s = DOMAIN NewSession
          /\ s.client_counter \in Nat
          /\ s.server_counter \in Nat
          /\ s.username_norm \in User \cup {NoUser}
          /\ {s.server_random, s.server_challenge2} \subseteq 0 .. fresh
          /\ s.proof1_ok \in BOOLEAN
  /\ \A t \in issued : Len(t) >= 5

\* s.keys and what came with them are those of the handshake its transcript
\* begins with, or there are none.
Coherent(sid, s) ==
  LET t == s.transcript_state
  IN \/ /\ s.keys = {}
        /\ t = <<>> /\ s.server_counter = 0 /\ ~s.proof1_ok
     \/ /\ Len(t) >= 2
        /\ s.salt = Salt(t) /\ s.keys = {DeriveKeys(Salt(t))}
        /\ s.server_random = ServerRandom(t)
        /\ t[1].session_id = sid
        /\ t[1].payload.username = s.username_norm

\* What handle_hello stored describes the one handshake the transcript tells
\* of, however many HELLOs came for the id, and a session that never got its
\* keys got nothing else that the later handlers trust.
HandshakeCoherent == \A sid \in Ids(order) : Coherent(sid, session[sid])

\* The counters of s and of the frames in its transcript.
Counted(s) ==
  LET t == s.transcript_state
  IN /\ Len(t) = 2 * s.server_counter
     /\ \A i \in 1 .. s.server_counter :
          /\ t[2 * i].counter = i
          /\ t[2 * i - 1].counter <= s.client_counter
          /\ i > 1 => t[2 * i - 3].counter < t[2 * i - 1].counter

\* "Strict monotonic increase": along a transcript the client's counters grow
\* and the server's count its answers, and the stored counters are not behind.
CountersFollowTranscript == \A sid \in Ids(order) : Counted(session[sid])

\* An exchange in transcript t that the server had to accept: a license valid
\* for the user of the HELLO, run through the server's own program with the
\* values of this very handshake.
SoundExchange(t, i) ==
  LET p == t[i].payload
  IN /\ ValidLicense(t[1].payload.username, p.license)
     /\ p.vm = RunVm("current", t[1].payload.username, p.license,
                     ServerRandom(t), t[1].session_id, Salt(t))

\* The i-th frame of t is its last exchange.
LastExchange(t, i) ==
  /\ i \in Positions(t, "CLIENT_PROOF_1")
  /\ \A j \in Positions(t, "CLIENT_PROOF_1") : j <= i

\* What s stored with its last exchange, if there was one.
Stands(s) ==
  LET t == s.transcript_state
  IN s.proof1_ok =>
       \E i \in DOMAIN t :
         /\ LastExchange(t, i) /\ SoundExchange(t, i)
         /\ s.vm_digest = t[i].payload.vm
         /\ i + 1 \in DOMAIN t
         /\ s.server_challenge2 = t[i + 1].payload.challenge2

\* The last exchange of a transcript is what proof1_ok, vm_digest and
\* server_challenge2 speak of; it was sound, and it was answered.
Proof1Stands == \A sid \in Ids(order) : Stands(session[sid])

\* t ends in a proof over its last exchange, which was sound.
Earned(t) ==
  \E i \in DOMAIN t :
    /\ LastExchange(t, i) /\ SoundExchange(t, i)
    /\ t[Len(t)].payload.proof2 =
         Proof2(DeriveKeys(Salt(t)), t[i + 1].payload.challenge2,
                ServerRandom(t), t[i].payload.vm, Salt(t))

\* The flag is sealed only at the end of a transcript with a sound exchange,
\* for a proof over the challenge the server drew in its last exchange.
FlagEarned == \A t \in issued : Earned(t)

\* n is a session that begins from nothing.
Begins(n) ==
  /\ n.transcript_state = n.salt
  /\ n.server_challenge2 = 0 /\ n.vm_digest = <<>>
  /\ ~n.proof1_ok

\* n is s but for its counter, or the same handshake one exchange further.
Follows(s, n) ==
  \/ /\ n = [s EXCEPT !.client_counter = n.client_counter]
     /\ n.client_counter >= s.client_counter
  \/ /\ n.client_counter > s.client_counter
     /\ n.server_counter = s.server_counter + 1
     /\ Len(n.transcript_state) = Len(s.transcript_state) + 2
     /\ SubSeq(n.transcript_state, 1, Len(s.transcript_state))
          = s.transcript_state
     /\ <<n.keys, n.salt, n.username_norm, n.server_random>>
          = <<s.keys, s.salt, s.username_norm, s.server_random>>

HandshakesKept ==
  \A sid \in Ids(order) \cap Ids(order') :
    Follows(session[sid], session'[sid]) \/ Begins(session'[sid])

\* A refused proof leaves the session as it was but for its counter.  Whatever
\* else the handlers store is an answer, which carries the same handshake one
\* exchange further, or a HELLO, which begins a new one from nothing.
RefusalsKeepHandshake == [][HandshakesKept]_serverVars
=============================================================================
