-------------------------- MODULE MCThreadedServer --------------------------
(***************************************************************************)
(* Peers that hold the keys of every handshake that was answered to them:  *)
(* they send proofs over any transcript they have seen, with any challenge *)
(* they were given, and several at a time.                                 *)
(***************************************************************************)
EXTENDS ThreadedServer, TLC

Valid6 == [version |-> 6, owner |-> "ann", parity |-> TRUE, checksum |-> TRUE]

MCLicense == {Valid6}

\* Up to three HELLOs, of which the first may be one that fails.
Hellos ==
  {PlainSeal(Transcript0, "HELLO", sid, 1,
             [client_pub |-> pub, username |-> user]) :
     sid \in IF begun < 3 THEN SessionId ELSE {},
     <<pub, user>> \in {<<"pub", "ann">>}
                        \cup IF begun > 0 THEN {}
                            ELSE {<<"pub", NoUser>>, <<WeakPub, "ann">>}}

\* A frame whose MAC is wrong, for a session that may have no keys yet.
Early ==
  {Garbled(SealFrame(<<>>, BootstrapKey, "c2s", "CLIENT_PROOF_1", sid, 1,
                     NoPayload), sid, 1) : sid \in SessionId}

\* What a proof can speak of: right after the HELLO the values of a new session,
\* then those of each answer to an exchange.
Challenges(t) ==
  (IF begun = 1 THEN {<<0, <<>>>>} ELSE {})
    \cup {<<u[Len(u)].payload.challenge2, u[Len(u) - 1].payload.vm>> :
            u \in {v \in answered : Salt(v) = Salt(t) /\ AnswersExchange(v)}}

Proofs(t, counter) ==
  LET keys == DeriveKeys(Salt(t))
      user == t[1].payload.username
      sid  == t[1].session_id
      vm   == RunVm("current", user, Valid6, ServerRandom(t), sid, Salt(t))
  IN {AeadSeal(t, keys, "c2s", "CLIENT_PROOF_1", sid, counter,
               [license |-> Valid6, vm |-> vm,
                proof1 |-> Proof1(keys, user, Valid6, vm, ServerRandom(t), sid,
                                  Salt(t))])} \cup
     {AeadSeal(t, keys, "c2s", "CLIENT_PROOF_2", sid, counter,
               [proof2 |-> Proof2(keys, c[1], ServerRandom(t), c[2], Salt(t))]) :
        c \in Challenges(t)}

\* The peers count their requests; a proof comes under its number or, a second
\* time, under the one before.
PeerFrames ==
  Hellos \cup (IF begun = 1 THEN Early ELSE {})
    \cup UNION {Proofs(t, counter) :
                  t \in answered, counter \in {begun, begun + 1} \ {MaxCounter + 1}}

Next ==
  \E th \in Thread :
    \/ Step(th)
    \/ /\ At(th, "idle") /\ begun < MaxRequests
       /\ \E f \in PeerFrames : Begin(th, f)

Spec == Init /\ [][Next]_threadVars

Symmetry == Permutations(Thread) \cup Permutations(SessionId)
=============================================================================
