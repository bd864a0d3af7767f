-------------------------- MODULE MCRankGateServer --------------------------
(***************************************************************************)
(* The server against peers that may post anything a holder of the session *)
(* keys can build: HELLOs with any counter, name or key, proofs for any    *)
(* license, from any VM, over the current or an earlier transcript, and    *)
(* frames whose MAC is wrong.  SERVER_DEBUG is set.                        *)
(***************************************************************************)
EXTENDS RankGateServer

CONSTANTS
  MaxDraws,   \* bound on the random draws
  Deep        \* the session whose client counters go up to MaxCounter

MaxShort == 2   \* bound on the client counters of the other sessions

MCLicense ==
  {[version |-> 6, owner |-> "ann", parity |-> TRUE, checksum |-> TRUE],
   [version |-> 6, owner |-> "ann", parity |-> TRUE, checksum |-> FALSE]}

CounterOf(sid) == 0 .. IF sid = Deep THEN MaxCounter ELSE MaxShort

Hellos(sid, counter) ==
  {SealFrame(Transcript0, BootstrapKey, "plain", "HELLO", sid, counter,
             [client_pub |-> pub, username |-> user]) :
     pub \in {sid, WeakPub}, user \in User \cup {NoUser}}

Histories(s) == {s.transcript_state, s.salt}

Proof1Frames(sid, counter) ==
  LET s == session[sid]
      Payload(keys, license, claimed, engine) ==
        LET vm == RunVm(engine, s.username_norm, license, s.server_random, sid,
                        s.salt)
        IN [license |-> license, vm |-> vm,
            proof1 |-> Proof1(keys, s.username_norm, claimed, vm,
                              s.server_random, sid, s.salt)]
  IN {SealFrame(t, keys, "c2s", "CLIENT_PROOF_1", sid, counter,
                Payload(keys, license, claimed, engine)) :
        t \in Histories(s), keys \in s.keys, license \in License,
        claimed \in License, engine \in Engine}

Proof2Frames(sid, counter) ==
  LET s == session[sid]
  IN {SealFrame(t, keys, "c2s", type, sid, counter,
                [proof2 |-> Proof2(keys, challenge, s.server_random,
                                   s.vm_digest, s.salt)]) :
        t \in Histories(s), keys \in s.keys,
        type \in {"CLIENT_PROOF_2", "FINALIZE"},
        challenge \in {s.server_challenge2, s.server_random}}

Unauthentic(sid, counter) ==
  {Garbled(SealFrame(<<>>, BootstrapKey, "c2s", type, sid, counter,
                     NoPayload),
           sid, counter) :
     type \in {"HELLO", "CLIENT_PROOF_1", "CLIENT_PROOF_2"}}

FramesFor(sid, c) ==
  Hellos(sid, c) \cup Unauthentic(sid, c)
    \cup (IF Known(sid) THEN Proof1Frames(sid, c) \cup Proof2Frames(sid, c)
                       ELSE {})

PeerFrames == UNION {UNION {FramesFor(sid, c) : c \in CounterOf(sid)} :
                       sid \in SessionId}

Next ==
  \/ \E f \in PeerFrames : Handle(f) /\ fresh' <= MaxDraws
  \/ \E sid \in SessionId : DebugTranscript(sid)
  \/ Restart

Spec == ServerInit /\ [][Next]_serverVars
=============================================================================
