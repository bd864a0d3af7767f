--------------------------- MODULE RankGateClient ---------------------------
(***************************************************************************)
(* One run of the portal client: run_app (client/src/app.cpp) up to        *)
(* run_session (client/src/net/protocol.cpp), which makes three requests   *)
(* in a row and gives up at the first thing that is not as it should be.   *)
(* Client runs go on at the same time; each is named by the session id it  *)
(* draws, which stands for its keypair and client_random as well.          *)
(*                                                                         *)
(* The client module says what a client sends and when it moves on.  What  *)
(* it receives is a parameter: the frame of the reply to the request it is *)
(* waiting for.                                                            *)
(***************************************************************************)
EXTENDS RankGateFrames

CONSTANTS
  Client,     \* the session ids of the client runs
  Applicant   \* [user, license, engine]: what a run may be started with

VARIABLES
  client      \* per run: stage, inputs and transcript of run_session

Stages == {"start", "hello", "exchange", "finalize", "granted", "denied"}

\* The request a client waits in, and the paths of the three endpoints.
Paths == {"hello", "exchange", "finalize"}

Waiting(c) == client[c].stage \in Paths

Done(c) == client[c].stage \in {"granted", "denied"}

\* The inputs of run c entitle it to the flag: its license is one the server
\* accepts for the user, and its program is the one the server runs.
Entitled(c) ==
  /\ ValidLicense(client[c].user, client[c].license)
  /\ client[c].engine = "current"

ClientInit ==
  client \in [Client -> {[stage |-> "start", user |-> a.user,
                          license |-> a.license, engine |-> a.engine,
                          t |-> Transcript0] : a \in Applicant}]
-----------------------------------------------------------------------------
\* derive_keys: salt is T2.
ClientKeys(t) == DeriveKeys(Salt(t))

\* aead_seal and aead_open, with the keys of the client.
Seals(t, type, c, counter, plaintext) ==
  AeadSeal(t, ClientKeys(t), "c2s", type, c, counter, plaintext)

Unseals(c, f) ==
  AeadOpen(client[c].t, ClientKeys(client[c].t), "s2c", f)

\* The frames of run_session.  Its locals server_random, salt, vmres,
\* server_challenge2 are functions of the transcript.
HelloFrame(c) ==
  PlainSeal(Transcript0, "HELLO", c, 1,
            [client_pub |-> c, username |-> client[c].user])

ClientVm(c, t2) ==
  RunVm(client[c].engine, client[c].user, client[c].license, ServerRandom(t2),
        c, Salt(t2))

Proof1Frame(c, t2) ==
  Seals(t2, "CLIENT_PROOF_1", c, 2,
        [license |-> client[c].license,
         vm      |-> ClientVm(c, t2),
         proof1  |-> Proof1(ClientKeys(t2), client[c].user, client[c].license,
                            ClientVm(c, t2), ServerRandom(t2), c, Salt(t2))])

Proof2Frame(c, t4) ==
  Seals(t4, "CLIENT_PROOF_2", c, 3,
        [proof2 |-> Proof2(ClientKeys(t4), Challenge2(t4), ServerRandom(t4),
                           VmDigest(t4), Salt(t4))])

\* What a received frame must satisfy.  The type, session id and counter of a
\* reply are not looked at: the MAC over the client's own transcript is.
ChallengeAccepted(c, f) ==
  /\ client[c].stage = "hello"
  /\ PlainOpen(client[c].t, f)
  /\ f.body.payload.signature =
       Signature(client[c].t, f.body.payload.server_random)

ServerProofAccepted(c, f) ==
  LET t == client[c].t
  IN /\ client[c].stage = "exchange"
     /\ Unseals(c, f)
     /\ f.body.payload.server_proof1 =
          ServerProof1(ClientKeys(t), t, VmDigest(t), f.body.payload.challenge2)

FlagAccepted(c, f) ==
  LET t == client[c].t
  IN /\ client[c].stage = "finalize"
     /\ Unseals(c, f)
     /\ f.body.payload.inner = SealedInner(t, ClientKeys(t))

ReplyAccepted(c, f) ==
  ChallengeAccepted(c, f) \/ ServerProofAccepted(c, f) \/ FlagAccepted(c, f)
-----------------------------------------------------------------------------
Moves(c, stage, t) ==
  client' = [client EXCEPT ![c].stage = stage, ![c].t = t]

\* decode_license refuses a license of another version before any request.
LicenseUnreadable(c) ==
  /\ client[c].stage = "start"
  /\ client[c].license.version # LICENSE_VERSION
  /\ Moves(c, "denied", Transcript0)

\* The public key was fetched: the HELLO is sent.
SendsHello(c) ==
  /\ client[c].stage = "start"
  /\ client[c].license.version = LICENSE_VERSION
  /\ Moves(c, "hello", After(HelloFrame(c)))

\* Mutant: the client seals its proof on a copy of the transcript.
SendsProof1Unabsorbed(c, f) ==
  ChallengeAccepted(c, f) /\ Moves(c, "exchange", After(f))

\* SERVER_CHALLENGE opened and verified, VM run: CLIENT_PROOF_1 is sent.
SendsProof1(c, f) ==
  /\ ChallengeAccepted(c, f)
  /\ Moves(c, "exchange", After(Proof1Frame(c, After(f))))

\* SERVER_PROOF_1 verified: CLIENT_PROOF_2 is sent.
SendsProof2(c, f) ==
  /\ ServerProofAccepted(c, f)
  /\ Moves(c, "finalize", After(Proof2Frame(c, After(f))))

\* Both layers of SEALED_FLAG opened: ACCESS GRANTED.
IsGranted(c, f) ==
  /\ FlagAccepted(c, f)
  /\ Moves(c, "granted", After(f))

\* An exception left run_session: ACCESS DENIED.
IsDenied(c) == Moves(c, "denied", client[c].t)
=============================================================================
