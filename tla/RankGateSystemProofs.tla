------------------------ MODULE RankGateSystemProofs ------------------------
(***************************************************************************)
(* The system of client runs, network and server, for any set of runs, any *)
(* capacity of the store and any number of faults: its server steps are    *)
(* steps of RankGateServer, and a run that ends in ACCESS GRANTED agrees   *)
(* with the server on the transcript the flag was sealed for.              *)
(***************************************************************************)
EXTENDS RankGateSystem, RankGateServerProofs

MessageFields == {"client", "path", "frame"}

\* A frame, whole or damaged.
FrameShape(f) ==
  /\ DOMAIN f = {"body", "prev", "key", "intact"}
  /\ DOMAIN f.body = {"type", "session_id", "counter", "layer", "payload"}

RequestHolds(m) ==
  /\ DOMAIN m = MessageFields
  /\ FrameShape(m.frame)
  /\ m.frame.body.session_id \in SessionId
  /\ m.frame.body.counter \in Nat

\* A frame the server sealed, told by its layer and its type; flags is the set
\* of the transcripts it sealed the flag for.
SealedByServer(f, flags) ==
  LET t == f.prev
  IN \/ f.body.layer = "plain" /\ f.body.type = "SERVER_CHALLENGE"
     \/ /\ f.body.layer = "s2c" /\ f.body.type = "SERVER_PROOF_1"
        /\ t[Len(t)].type = "CLIENT_PROOF_1"
     \/ /\ f.body.layer = "s2c" /\ f.body.type = "SEALED_FLAG"
        /\ t \in flags
        /\ t[Len(t)].type \in {"CLIENT_PROOF_2", "FINALIZE"}
        /\ f.body.session_id = t[1].session_id

\* The client checks that a reply is intact, so the others may be anything.
ReplyHolds(m, flags) ==
  /\ DOMAIN m = MessageFields
  /\ FrameShape(m.frame)
  /\ m.frame.intact => SealedByServer(m.frame, flags)

\* The frames of the transcript of run c, which was started as r says.
Own(c, r) ==
  LET t == r.t
  IN /\ 1 \in DOMAIN t => /\ t[1].type = "HELLO" /\ t[1].session_id = c
                          /\ t[1].payload.username = r.user
     /\ 2 \in DOMAIN t => t[2].type = "SERVER_CHALLENGE"
     /\ 3 \in DOMAIN t => /\ t[3].type = "CLIENT_PROOF_1"
                          /\ t[3].payload.license = r.license
                          /\ t[3].payload.vm.engine = r.engine
     /\ 4 \in DOMAIN t => t[4].type = "SERVER_PROOF_1"
     /\ 5 \in DOMAIN t => t[5].type = "CLIENT_PROOF_2"

\* What Agreement says of one run.
Agreed(c, r, flags) ==
  /\ ValidLicense(r.user, r.license) /\ r.engine = "current"
  /\ SubSeq(r.t, 1, 5) \in flags
  /\ r.t[6].type = "SEALED_FLAG" /\ r.t[6].session_id = c

RunHolds(c, r, flags) ==
  /\ DOMAIN r = {"stage", "user", "license", "engine", "t"}
  /\ IsSequence(r.t)
  /\ r.stage = "start" => r.t = <<>>
  /\ r.stage = "hello" => Len(r.t) = 1
  /\ r.stage = "exchange" => Len(r.t) = 3
  /\ r.stage = "finalize" => Len(r.t) = 5
  /\ r.stage = "granted" => Agreed(c, r, flags)
  /\ Own(c, r)

\* The inductive invariant.
RequestsHold == \A m \in requests : RequestHolds(m)
RepliesHold == \A m \in replies : ReplyHolds(m, issued)
RunsHold ==
  DOMAIN client = Client /\ \A c \in Client : RunHolds(c, client[c], issued)

SystemInv == ServerInv /\ RequestsHold /\ RepliesHold /\ RunsHold
-----------------------------------------------------------------------------
(***************************************************************************)
(* The server's side of the system.                                        *)
(***************************************************************************)
\* main._run serves a request as the handlers do.
LEMMA RoutedServes ==
  ASSUME NEW m, RequestHolds(m), Routed(m)
  PROVE  ServerNext \/ UNCHANGED serverVars
  <1>1. Handle(m.frame) \/ UNCHANGED serverVars
    BY DEF Routed, Handle, HandleHello, HandleExchange, HandleFinalize
  <1> QED
    BY <1>1 DEF RequestHolds, ServerNext

LEMMA ServerSteps == RequestsHold /\ [Next]_vars => [ServerNext]_serverVars
  <1> SUFFICES ASSUME RequestsHold, [Next]_vars
               PROVE  ServerNext \/ UNCHANGED serverVars
    OBVIOUS
  <1>1. ASSUME NEW c \in Client, ClientStep(c)
        PROVE  UNCHANGED serverVars
    BY <1>1 DEF ClientStep, Start, Refuse, GiveUp, Receive
  <1>2. ASSUME NEW m \in requests, Serve(m) \/ ServeAgain(m)
        PROVE  ServerNext \/ UNCHANGED serverVars
    BY <1>2, RoutedServes DEF Serve, ServeAgain, RequestsHold
  <1>3. ASSUME NEW m \in requests, LoseRequest(m) \/ GarbleRequest(m)
        PROVE  UNCHANGED serverVars
    BY <1>3 DEF LoseRequest, GarbleRequest
  <1>4. ASSUME NEW m \in replies, LoseReply(m) \/ GarbleReply(m)
        PROVE  UNCHANGED serverVars
    BY <1>4 DEF LoseReply, GarbleReply
  <1>5. CASE RestartServer
    BY <1>5 DEF RestartServer, ServerNext
  <1>6. ASSUME NEW c \in Client, HttpFails(c)
        PROVE  UNCHANGED serverVars
    BY <1>6 DEF HttpFails
  <1>7. CASE UNCHANGED vars
    BY <1>7 DEF vars
  <1> QED
    BY <1>1, <1>2, <1>3, <1>4, <1>5, <1>6, <1>7 DEF Next, Network

\* issued only grows.
LEMMA IssuedGrows ==
  ASSUME [ServerNext]_serverVars
  PROVE  issued \subseteq issued'
  BY DEF ServerNext, Handle, HandleHello, HandleExchange, HandleFinalize,
         HelloAnswered, HelloFailed, HelloCounterRefused, HelloUnreadable,
         HelloKeyRefused, ExchangeAnswered, ExchangeFailed, UnknownSession,
         CounterRefused, ExchangeRefused, ProofRefused, FinalizeAnswered,
         FinalizeFailed, FinalizeRefused, DebugTranscript, Restart, serverVars

-----------------------------------------------------------------------------
(***************************************************************************)
(* A step of a client.                                                     *)
(***************************************************************************)
\* Moves changes the stage and the transcript of one run.
LEMMA MovedRun ==
  ASSUME RunsHold, NEW c \in Client, NEW stage, NEW t, Moves(c, stage, t)
  PROVE  /\ DOMAIN client' = Client
         /\ \A d \in Client : d # c => client'[d] = client[d]
         /\ client'[c].stage = stage /\ client'[c].t = t
         /\ client'[c].user = client[c].user
         /\ client'[c].license = client[c].license
         /\ client'[c].engine = client[c].engine
         /\ DOMAIN client'[c] = DOMAIN client[c]
  BY DEF Moves, RunsHold, RunHolds

\* A run moves on, drops replies and may post a request.
LEMMA ClientMoves ==
  ASSUME SystemInv, NEW c \in Client, UNCHANGED serverVars,
         DOMAIN client' = Client,
         \A d \in Client : d # c => client'[d] = client[d],
         RunHolds(c, client'[c], issued),
         replies' \subseteq replies,
         \A m \in requests' \ requests : RequestHolds(m)
  PROVE  SystemInv'
  <1>1. ServerInv' /\ issued' = issued
    BY UnchangedHolds DEF SystemInv, serverVars
  <1>2. RequestsHold'
    BY DEF SystemInv, RequestsHold
  <1>3. RepliesHold'
    BY <1>1 DEF SystemInv, RepliesHold
  <1>4. RunsHold'
    <2>1. ASSUME NEW d \in Client
          PROVE  RunHolds(d, client'[d], issued')
      BY <1>1 DEF SystemInv, RunsHold
    <2> QED
      BY <2>1 DEF RunsHold
  <1> QED
    BY <1>1, <1>2, <1>3, <1>4 DEF SystemInv

\* The request of Posts.
LEMMA PostHolds ==
  ASSUME NEW c \in Client, NEW path, NEW t, NEW key, NEW layer, NEW type,
         NEW n \in Nat, NEW payload, NEW f,
         f = SealFrame(t, key, layer, type, c, n, payload), Posts(c, path, f)
  PROVE  /\ replies' \subseteq replies
         /\ \A m \in requests' \ requests : RequestHolds(m)
  <1> DEFINE m == [client |-> c, path |-> path, frame |-> f]
  <1>1. replies' \subseteq replies /\ requests' \ requests \subseteq {m}
    BY DEF Posts, Others
  <1>2. FrameShape(f) /\ f.body.session_id = c /\ f.body.counter = n
    BY DEF SealFrame, FrameShape
  <1>3. DOMAIN m = MessageFields /\ m.frame = f
    BY DEF MessageFields
  <1>4. c \in SessionId
    BY SystemAssumption
  <1> HIDE DEF m
  <1>5. RequestHolds(m)
    BY <1>2, <1>3, <1>4 DEF RequestHolds
  <1> QED
    BY <1>1, <1>5

\* http_post_binary for the HELLO.
LEMMA StartHolds ==
  ASSUME SystemInv, NEW c \in Client, Start(c)
  PROVE  SystemInv'
  <1> DEFINE f == HelloFrame(c)
             r == client'[c]
  <1>1. /\ RunsHold /\ Moves(c, "hello", After(f))
        /\ Posts(c, "hello", f) /\ UNCHANGED serverVars
    BY DEF SystemInv, Start, SendsHello
  <1>2. /\ f.prev = <<>> /\ f.body.type = "HELLO" /\ f.body.session_id = c
        /\ f.body.payload.username = client[c].user
    BY DEF HelloFrame, PlainSeal, SealFrame, Transcript0
  <1>3. /\ replies' \subseteq replies
        /\ \A m \in requests' \ requests : RequestHolds(m)
    BY <1>1, PostHolds DEF HelloFrame, PlainSeal
  <1>4. RunHolds(c, r, issued)
    <2> DEFINE e == <<>>
    <2>1. IsSequence(e) /\ Len(e) = 0
      BY DEF IsSequence
    <2>2. After(f) = Append(e, f.body)
      BY <1>2 DEF After, Absorb
    <2> HIDE DEF e, f
    <2>3. LongerByOne(After(f), e, f.body)
      BY <2>1, <2>2, AbsorbedOne
    <2>4. /\ IsSequence(After(f)) /\ Len(After(f)) = 1
          /\ DOMAIN After(f) = 1 .. 1 /\ After(f)[1] = f.body
      BY <2>1, <2>3 DEF LongerByOne
    <2>5. /\ r.stage = "hello" /\ r.t = After(f) /\ r.user = client[c].user
          /\ DOMAIN r = DOMAIN client[c]
      BY <1>1, MovedRun
    <2>6. DOMAIN r = {"stage", "user", "license", "engine", "t"}
      BY <1>1, <2>5 DEF RunsHold, RunHolds
    <2> HIDE DEF r
    <2>7. Own(c, r)
      BY <1>2, <2>4, <2>5 DEF Own
    <2> QED
      BY <2>4, <2>5, <2>6, <2>7 DEF RunHolds
  <1>5. DOMAIN client' = Client /\ \A d \in Client : d # c => client'[d] = client[d]
    BY <1>1, MovedRun
  <1> QED
    BY <1>1, <1>3, <1>4, <1>5, ClientMoves

\* run_session ends in an exception, or never began.
LEMMA DeniedHolds ==
  ASSUME SystemInv, NEW c \in Client, UNCHANGED serverVars,
         IsDenied(c) \/ LicenseUnreadable(c),
         replies' \subseteq replies, requests' = requests
  PROVE  SystemInv'
  <1>1. RunsHold /\ RunHolds(c, client[c], issued)
    BY DEF SystemInv, RunsHold
  <1>2. Moves(c, "denied", client[c].t)
    BY <1>1 DEF IsDenied, LicenseUnreadable, RunHolds, Transcript0
  <1>3. /\ client'[c].stage = "denied" /\ client'[c].t = client[c].t
        /\ client'[c].user = client[c].user
        /\ client'[c].license = client[c].license
        /\ client'[c].engine = client[c].engine
        /\ DOMAIN client'[c] = DOMAIN client[c]
        /\ DOMAIN client' = Client
        /\ \A d \in Client : d # c => client'[d] = client[d]
    BY <1>1, <1>2, MovedRun
  <1>4. RunHolds(c, client'[c], issued)
    BY <1>1, <1>3 DEF RunHolds, Own
  <1> QED
    BY <1>3, <1>4, ClientMoves

\* Two more frames of the run: the reply and the next request.
LEMMA GoesOn ==
  ASSUME NEW c, NEW r, RunHolds(c, r, issued),
         NEW n, NEW a, NEW b, n.t = Append(Append(r.t, a), b),
         DOMAIN n = DOMAIN r, n.user = r.user, n.license = r.license,
         n.engine = r.engine,
         \/ /\ r.stage = "hello" /\ n.stage = "exchange"
            /\ a.type = "SERVER_CHALLENGE" /\ b.type = "CLIENT_PROOF_1"
            /\ b.payload.license = r.license /\ b.payload.vm.engine = r.engine
         \/ /\ r.stage = "exchange" /\ n.stage = "finalize"
            /\ a.type = "SERVER_PROOF_1" /\ b.type = "CLIENT_PROOF_2"
  PROVE  RunHolds(c, n, issued)
  <1> DEFINE t == r.t
             u == n.t
  <1>1. IsSequence(t) /\ Own(c, r) /\ u = Append(Append(t, a), b)
        /\ DOMAIN n = {"stage", "user", "license", "engine", "t"}
    BY DEF RunHolds
  <1>2. \/ r.stage = "hello" /\ n.stage = "exchange" /\ Len(t) = 1
        \/ r.stage = "exchange" /\ n.stage = "finalize" /\ Len(t) = 3
    BY DEF RunHolds
  <1> HIDE DEF t, u
  <1>3. Longer(u, t, a, b)
    BY <1>1, AbsorbedTwo
  <1>4. CASE r.stage = "hello"
    <2>1. /\ IsSequence(u) /\ Len(u) = 3 /\ DOMAIN u = 1 .. 3
          /\ DOMAIN t = 1 .. 1 /\ u[1] = t[1] /\ u[2] = a /\ u[3] = b
      <3>1. Len(t) = 1
        BY <1>2, <1>4
      <3> QED
        BY <1>3, <3>1 DEF Longer
    <2>2. Own(c, n)
      BY <1>1, <1>4, <2>1 DEF Own, t, u
    <2> QED
      BY <1>1, <1>2, <1>4, <2>1, <2>2 DEF RunHolds, u
  <1>5. CASE r.stage = "exchange"
    <2>1. /\ IsSequence(u) /\ Len(u) = 5 /\ DOMAIN u = 1 .. 5
          /\ DOMAIN t = 1 .. 3 /\ u[1] = t[1] /\ u[2] = t[2] /\ u[3] = t[3]
          /\ u[4] = a /\ u[5] = b
      <3>1. Len(t) = 3
        BY <1>2, <1>5
      <3>2. IsSequence(u) /\ Len(u) = 5 /\ DOMAIN u = 1 .. 5 /\ DOMAIN t = 1 .. 3
        BY <1>3, <3>1 DEF Longer
      <3>3. u[1] = t[1] /\ u[2] = t[2] /\ u[3] = t[3]
        BY <1>3, <3>1 DEF Longer
      <3>4. u[4] = a /\ u[5] = b
        BY <1>3, <3>1 DEF Longer
      <3> QED
        BY <3>2, <3>3, <3>4
    <2>2. Own(c, n)
      BY <1>1, <1>5, <2>1 DEF Own, t, u
    <2> QED
      BY <1>1, <1>2, <1>5, <2>1, <2>2 DEF RunHolds, u
  <1> QED
    BY <1>2, <1>4, <1>5

\* SERVER_CHALLENGE is accepted, CLIENT_PROOF_1 posted.
LEMMA ChallengeHolds ==
  ASSUME SystemInv, NEW c \in Client, NEW m \in replies, m.client = c,
         SendsProof1(c, m.frame),
         Posts(c, "exchange", Proof1Frame(c, After(m.frame))),
         UNCHANGED serverVars
  PROVE  SystemInv'
  <1> DEFINE f == m.frame
             g == Proof1Frame(c, After(f))
             r == client[c]
             n == client'[c]
  <1>1. RunsHold /\ RunHolds(c, r, issued) /\ ReplyHolds(m, issued)
    BY DEF SystemInv, RunsHold, RepliesHold
  <1>2. /\ r.stage = "hello" /\ f.intact /\ f.prev = r.t
        /\ f.body.layer = "plain" /\ Moves(c, "exchange", After(g))
    BY DEF SendsProof1, ChallengeAccepted, PlainOpen, Opens
  <1>3. f.body.type = "SERVER_CHALLENGE"
    BY <1>1, <1>2 DEF ReplyHolds, SealedByServer
  <1>4. /\ g.prev = After(f) /\ g.body.type = "CLIENT_PROOF_1"
        /\ g.body.payload.license = r.license
        /\ g.body.payload.vm.engine = r.engine
    BY DEF Proof1Frame, Seals, AeadSeal, SealFrame, ClientVm, RunVm
  <1>5. After(g) = Append(Append(r.t, f.body), g.body)
    BY <1>2, <1>4 DEF After, Absorb
  <1>6. /\ replies' \subseteq replies
        /\ \A x \in requests' \ requests : RequestHolds(x)
    BY PostHolds DEF Proof1Frame, Seals, AeadSeal
  <1>7. /\ n.stage = "exchange" /\ n.t = After(g) /\ n.user = r.user
        /\ n.license = r.license /\ n.engine = r.engine
        /\ DOMAIN n = DOMAIN r /\ DOMAIN client' = Client
        /\ \A d \in Client : d # c => client'[d] = client[d]
    BY <1>1, <1>2, MovedRun
  <1> HIDE DEF f, g, r, n
  <1>8. RunHolds(c, n, issued)
    BY <1>1, <1>2, <1>3, <1>4, <1>5, <1>7, GoesOn, ZenonT(60)
  <1> QED
    BY <1>6, <1>7, <1>8, ClientMoves DEF n

\* SERVER_PROOF_1 is accepted, CLIENT_PROOF_2 posted.
LEMMA ServerProofHolds ==
  ASSUME SystemInv, NEW c \in Client, NEW m \in replies, m.client = c,
         SendsProof2(c, m.frame),
         Posts(c, "finalize", Proof2Frame(c, After(m.frame))),
         UNCHANGED serverVars
  PROVE  SystemInv'
  <1> DEFINE f == m.frame
             g == Proof2Frame(c, After(f))
             r == client[c]
             n == client'[c]
  <1>1. RunsHold /\ RunHolds(c, r, issued) /\ ReplyHolds(m, issued)
    BY DEF SystemInv, RunsHold, RepliesHold
  <1>2. /\ r.stage = "exchange" /\ f.intact /\ f.prev = r.t
        /\ f.body.layer = "s2c" /\ Moves(c, "finalize", After(g))
    BY DEF SendsProof2, ServerProofAccepted, Unseals, AeadOpen, Opens
  <1>3. r.t[Len(r.t)].type = "CLIENT_PROOF_1"
    <2>1. Len(r.t) = 3 /\ IsSequence(r.t) /\ Own(c, r)
      BY <1>1, <1>2 DEF RunHolds
    <2>2. 3 \in DOMAIN r.t
      BY <2>1 DEF IsSequence
    <2> QED
      BY <2>1, <2>2 DEF Own
  <1>4. f.body.type = "SERVER_PROOF_1"
    BY <1>1, <1>2, <1>3 DEF ReplyHolds, SealedByServer
  <1>5. g.prev = After(f) /\ g.body.type = "CLIENT_PROOF_2"
    BY DEF Proof2Frame, Seals, AeadSeal, SealFrame
  <1>6. After(g) = Append(Append(r.t, f.body), g.body)
    BY <1>2, <1>5 DEF After, Absorb
  <1>7. /\ replies' \subseteq replies
        /\ \A x \in requests' \ requests : RequestHolds(x)
    BY PostHolds DEF Proof2Frame, Seals, AeadSeal
  <1>8. /\ n.stage = "finalize" /\ n.t = After(g) /\ n.user = r.user
        /\ n.license = r.license /\ n.engine = r.engine
        /\ DOMAIN n = DOMAIN r /\ DOMAIN client' = Client
        /\ \A d \in Client : d # c => client'[d] = client[d]
    BY <1>1, <1>2, MovedRun
  <1> HIDE DEF f, g, r, n
  <1>9. RunHolds(c, n, issued)
    BY <1>1, <1>2, <1>4, <1>5, <1>6, <1>8, GoesOn
  <1> QED
    BY <1>7, <1>8, <1>9, ClientMoves DEF n

\* SEALED_FLAG opens for the transcript it was sealed for, and that transcript
\* was earned by the run.
LEMMA GrantedHolds ==
  ASSUME SystemInv, NEW c \in Client, NEW m \in replies, m.client = c,
         IsGranted(c, m.frame), Leaves(c), UNCHANGED serverVars
  PROVE  SystemInv'
  <1> DEFINE f == m.frame
             r == client[c]
             n == client'[c]
             t == r.t
             u == n.t
  <1>1. RunsHold /\ RunHolds(c, r, issued) /\ ReplyHolds(m, issued)
    BY DEF SystemInv, RunsHold, RepliesHold
  <1>2. /\ r.stage = "finalize" /\ f.intact /\ f.prev = t
        /\ f.body.layer = "s2c" /\ Moves(c, "granted", After(f))
    BY DEF IsGranted, FlagAccepted, Unseals, AeadOpen, Opens
  <1>3. Len(t) = 5 /\ IsSequence(t) /\ Own(c, r) /\ DOMAIN t = 1 .. 5
    <2>1. Len(t) = 5 /\ IsSequence(t) /\ Own(c, r)
      BY <1>1, <1>2 DEF RunHolds
    <2> QED
      BY <2>1 DEF IsSequence
  <1>4. /\ t[1].type = "HELLO" /\ t[1].session_id = c
        /\ t[1].payload.username = r.user
        /\ t[2].type = "SERVER_CHALLENGE" /\ t[3].type = "CLIENT_PROOF_1"
        /\ t[3].payload.license = r.license
        /\ t[3].payload.vm.engine = r.engine
        /\ t[4].type = "SERVER_PROOF_1" /\ t[5].type = "CLIENT_PROOF_2"
    BY <1>3 DEF Own
  <1>5. f.body.type = "SEALED_FLAG" /\ t \in issued /\ f.body.session_id = c
    BY <1>1, <1>2, <1>3, <1>4 DEF ReplyHolds, SealedByServer
  <1>6. PICK i \in DOMAIN t : LastExchange(t, i) /\ SoundExchange(t, i)
    BY <1>5 DEF SystemInv, ServerInv, FlagEarned, Earned
  <1>7. i = 3
    BY <1>3, <1>4, <1>6 DEF LastExchange, Positions
  <1>8. ValidLicense(r.user, r.license) /\ r.engine = "current"
    BY <1>4, <1>6, <1>7 DEF SoundExchange, RunVm
  <1>9. /\ n.stage = "granted" /\ u = After(f) /\ n.user = r.user
        /\ n.license = r.license /\ n.engine = r.engine
        /\ DOMAIN n = DOMAIN r /\ DOMAIN client' = Client
        /\ \A d \in Client : d # c => client'[d] = client[d]
    BY <1>1, <1>2, MovedRun
  <1>10. u = Append(t, f.body)
    BY <1>2, <1>9 DEF After, Absorb
  <1>11. replies' \subseteq replies /\ requests' = requests
    BY DEF Leaves, Others
  <1>12. DOMAIN r = {"stage", "user", "license", "engine", "t"}
    BY <1>1 DEF RunHolds
  <1> HIDE DEF f, t, u, n, r
  <1>13. LongerByOne(u, t, f.body)
    BY <1>3, <1>10, AbsorbedOne
  <1>14. /\ IsSequence(u) /\ DOMAIN u = 1 .. 6 /\ Len(u) = 6
         /\ u[6] = f.body /\ \A j \in 1 .. 5 : u[j] = t[j]
    BY <1>3, <1>13 DEF LongerByOne
  <1>15. SubSeq(u, 1, 5) = t
    <2>1. PICK S : t \in Seq(S)
      BY <1>3 DEF IsSequence
    <2>2. PICK R : u \in Seq(R)
      BY <1>14 DEF IsSequence
    <2>3. /\ SubSeq(u, 1, 5) = [j \in 1 .. 5 |-> u[j]]
          /\ t = [j \in 1 .. 5 |-> t[j]]
      BY <1>3, <1>14, <2>1, <2>2
    <2> QED
      BY <1>14, <2>3
  <1>16. Agreed(c, n, issued)
    BY <1>5, <1>8, <1>9, <1>14, <1>15 DEF Agreed, u
  <1>17. Own(c, n)
    BY <1>4, <1>9, <1>14 DEF Own, u
  <1>18. RunHolds(c, n, issued)
    BY <1>9, <1>12, <1>14, <1>16, <1>17 DEF RunHolds, u
  <1> QED
    BY <1>9, <1>11, <1>18, ClientMoves DEF n

LEMMA ClientStepHolds ==
  ASSUME SystemInv, NEW c \in Client, ClientStep(c) \/ HttpFails(c)
  PROVE  SystemInv'
  <1>1. CASE Start(c)
    BY <1>1, StartHolds
  <1>2. CASE Refuse(c)
    BY <1>2, DeniedHolds DEF Refuse, netVars
  <1>3. CASE GiveUp(c)
    BY <1>3, DeniedHolds DEF GiveUp, Leaves, Others
  <1>4. CASE HttpFails(c)
    BY <1>4, DeniedHolds DEF HttpFails, Leaves, Others
  <1>5. ASSUME NEW m \in replies, Receive(c, m)
        PROVE  SystemInv'
    <2>1. CASE ~ReplyAccepted(c, m.frame) /\ IsDenied(c) /\ Leaves(c)
      BY <1>5, <2>1, DeniedHolds DEF Receive, Leaves, Others
    <2> QED
      BY <1>5, <2>1, ChallengeHolds, ServerProofHolds, GrantedHolds DEF Receive
  <1> QED
    BY <1>1, <1>2, <1>3, <1>4, <1>5 DEF ClientStep
-----------------------------------------------------------------------------
(***************************************************************************)
(* A step of the server or of the network.                                 *)
(***************************************************************************)
\* More sealed flags change nothing that holds of replies and runs.
LEMMA MoreFlags ==
  ASSUME NEW A, NEW B, A \subseteq B
  PROVE  /\ \A m : ReplyHolds(m, A) => ReplyHolds(m, B)
         /\ \A c, r : RunHolds(c, r, A) => RunHolds(c, r, B)
  BY DEF ReplyHolds, SealedByServer, RunHolds, Agreed

\* What a step of ServerNext with the clients standing still keeps.
LEMMA ServerMoves ==
  ASSUME SystemInv, [ServerNext]_serverVars, client' = client
  PROVE  /\ ServerInv' /\ RunsHold'
         /\ \A m \in replies : ReplyHolds(m, issued')
  <1>1. ServerInv'
    BY ServerStepHolds DEF SystemInv
  <1>2. issued \subseteq issued'
    BY IssuedGrows
  <1>3. \A c \in Client : RunHolds(c, client[c], issued')
    BY <1>2, MoreFlags DEF SystemInv, RunsHold
  <1>4. RunsHold'
    BY <1>3 DEF SystemInv, RunsHold
  <1> QED
    BY <1>1, <1>2, <1>4, MoreFlags DEF SystemInv, RepliesHold

\* What SealFrame makes is a frame.
LEMMA SealedShape ==
  ASSUME NEW t, NEW key, NEW layer, NEW type, NEW sid, NEW n, NEW payload
  PROVE  LET f == SealFrame(t, key, layer, type, sid, n, payload)
         IN /\ FrameShape(f) /\ f.prev = t /\ f.body.layer = layer
            /\ f.body.type = type /\ f.body.session_id = sid
  BY DEF SealFrame, FrameShape

\* A frame on its way back.
LEMMA ReplyMade ==
  ASSUME NEW m, NEW f, Reply(m, f), FrameShape(f), NEW flags,
         f.intact => SealedByServer(f, flags),
         \A x \in replies : ReplyHolds(x, flags)
  PROVE  \A x \in replies' : ReplyHolds(x, flags)
  <1> DEFINE y == [client |-> m.client, path |-> m.path, frame |-> f]
  <1>1. replies' \subseteq replies \cup {y}
    BY DEF Reply
  <1>2. DOMAIN y = MessageFields /\ y.frame = f
    BY DEF MessageFields
  <1> HIDE DEF y
  <1>3. ReplyHolds(y, flags)
    BY <1>2 DEF ReplyHolds
  <1> QED
    BY <1>1, <1>3

\* The generic error is not a frame the client could open.
LEMMA RejectHolds ==
  ASSUME NEW m, Reject(m), NEW flags, \A x \in replies : ReplyHolds(x, flags)
  PROVE  \A x \in replies' : ReplyHolds(x, flags)
  <1>1. FrameShape(GenericError) /\ GenericError.intact = FALSE
    BY DEF GenericError, Unparsable, PlainSeal, SealFrame, FrameShape
  <1> QED
    BY <1>1, ReplyMade DEF Reject

LEMMA ServeHolds ==
  ASSUME SystemInv, NEW m \in requests, Routed(m), client' = client
  PROVE  ServerInv' /\ RunsHold' /\ RepliesHold'
  <1> DEFINE f == m.frame
             s == Addressed(f)
  <1>1. RequestHolds(m) /\ ServerInv
    BY DEF SystemInv, RequestsHold
  <1>2. /\ ServerInv' /\ RunsHold'
        /\ \A x \in replies : ReplyHolds(x, issued')
    BY <1>1, RoutedServes, ServerMoves
  <1>3. CASE Reject(m)
    BY <1>2, <1>3, RejectHolds DEF RepliesHold
  <1>4. CASE HelloAnswered(f) /\ Answer(m, Challenge(m))
    <2>1. FrameShape(Challenge(m)) /\ SealedByServer(Challenge(m), issued')
      <3>1. /\ FrameShape(Challenge(m)) /\ Challenge(m).body.layer = "plain"
            /\ Challenge(m).body.type = "SERVER_CHALLENGE"
        BY SealedShape DEF Challenge, ServerChallenge, PlainSeal
      <3> QED BY <3>1 DEF SealedByServer
    <2> QED
      BY <1>2, <1>4, <2>1, ReplyMade DEF Answer, RepliesHold
  <1>5. CASE ExchangeAnswered(f) /\ Answer(m, Proof(m))
    <2>1. f.body.type = "CLIENT_PROOF_1" /\ f.prev = s.transcript_state
          /\ SessionInv(f.body.session_id, s)
      BY <1>1, <1>5, AddressedHolds
      DEF ExchangeAnswered, Proof1Accepted, CounterAccepted, OpensForSession,
          AeadOpen, Opens
    <2>2. LongerByOne(After(f), f.prev, f.body)
      BY <2>1, AbsorbedOne DEF After, Absorb, SessionInv
    <2>3. After(f)[Len(After(f))] = f.body
      BY <2>2 DEF LongerByOne
    <2>4. /\ FrameShape(Proof(m)) /\ Proof(m).prev = After(f)
          /\ Proof(m).body.layer = "s2c"
          /\ Proof(m).body.type = "SERVER_PROOF_1"
      BY SealedShape DEF Proof, ServerProof, AeadSeal
    <2>5. SealedByServer(Proof(m), issued')
      BY <2>1, <2>3, <2>4 DEF SealedByServer
    <2> QED
      BY <1>2, <1>5, <2>4, <2>5, ReplyMade DEF Answer, RepliesHold
  <1>6. CASE FinalizeAnswered(f) /\ Answer(m, Flag(m))
    <2>1. /\ f.body.type \in {"CLIENT_PROOF_2", "FINALIZE"}
          /\ f.prev = s.transcript_state /\ s.keys # {}
          /\ SessionInv(f.body.session_id, s) /\ After(f) \in issued'
      BY <1>1, <1>6, AddressedHolds
      DEF FinalizeAnswered, Proof2Accepted, FinalizeType, CounterAccepted,
          OpensForSession, AeadOpen, Opens
    <2>2. LongerByOne(After(f), f.prev, f.body)
      BY <2>1, AbsorbedOne DEF After, Absorb, SessionInv
    <2>3. f.prev[1].session_id = f.body.session_id /\ Len(f.prev) >= 2
      BY <2>1 DEF SessionInv, Coherent
    <2>4. /\ After(f)[Len(After(f))] = f.body
          /\ After(f)[1].session_id = f.body.session_id
      BY <2>2, <2>3 DEF LongerByOne
    <2>5. /\ FrameShape(Flag(m)) /\ Flag(m).prev = After(f)
          /\ Flag(m).body.layer = "s2c" /\ Flag(m).body.type = "SEALED_FLAG"
          /\ Flag(m).body.session_id = f.body.session_id
      BY SealedShape DEF Flag, SealedFlag, AeadSeal
    <2>6. SealedByServer(Flag(m), issued')
      BY <2>1, <2>4, <2>5 DEF SealedByServer
    <2> QED
      BY <1>2, <1>6, <2>5, <2>6, ReplyMade DEF Answer, RepliesHold
  <1> QED
    BY <1>3, <1>4, <1>5, <1>6 DEF Routed

\* Damage keeps the shape of a request.
LEMMA GarbledRequest ==
  ASSUME NEW m, RequestHolds(m), NEW bad \in Damaged(m)
  PROVE  RequestHolds(bad)
  <1>1. PICK g : /\ bad = [m EXCEPT !.frame = g]
                 /\ \/ g = Unparsable(m.frame)
                    \/ \E sid \in SessionId,
                          n \in {m.frame.body.counter, MaxCounter} :
                         g = Garbled(m.frame, sid, n)
    BY DEF Damaged
  <1>2. /\ FrameShape(g) /\ g.body.session_id \in SessionId
        /\ g.body.counter \in Nat
    <2>1. CASE g = Unparsable(m.frame)
      BY <2>1 DEF RequestHolds, FrameShape, Unparsable
    <2>2. ASSUME NEW sid \in SessionId,
                 NEW n \in {m.frame.body.counter, MaxCounter},
                 g = Garbled(m.frame, sid, n)
          PROVE  FrameShape(g) /\ g.body.session_id \in SessionId
                 /\ g.body.counter \in Nat
      <3>1. n \in Nat
        BY StoreAssumption DEF RequestHolds
      <3> QED
        BY <2>2, <3>1 DEF RequestHolds, FrameShape, Garbled
    <2> QED
      BY <1>1, <2>1, <2>2
  <1>3. DOMAIN bad = MessageFields /\ bad.frame = g
    BY <1>1 DEF RequestHolds, MessageFields
  <1> QED
    BY <1>2, <1>3 DEF RequestHolds

\* Damage spoils a reply.
LEMMA GarbledReply ==
  ASSUME NEW m, NEW flags, ReplyHolds(m, flags)
  PROVE  ReplyHolds([m EXCEPT !.frame = Unparsable(m.frame)], flags)
  <1>1. FrameShape(Unparsable(m.frame)) /\ Unparsable(m.frame).intact = FALSE
    BY DEF ReplyHolds, FrameShape, Unparsable
  <1> QED
    BY <1>1 DEF ReplyHolds, MessageFields

LEMMA NetworkHolds ==
  ASSUME SystemInv, Network \/ \E m \in requests : Serve(m)
  PROVE  SystemInv'
  <1>1. ASSUME NEW m \in requests, Serve(m) \/ ServeAgain(m)
        PROVE  SystemInv'
    <2>1. Routed(m) /\ client' = client /\ requests' \subseteq requests
      BY <1>1 DEF Serve, ServeAgain
    <2>2. ServerInv' /\ RunsHold' /\ RepliesHold'
      BY <2>1, ServeHolds
    <2> QED
      BY <2>1, <2>2 DEF SystemInv, RequestsHold
  <1>2. ASSUME UNCHANGED <<serverVars, client>>,
               \A m \in requests' : RequestHolds(m),
               \A m \in replies' : ReplyHolds(m, issued)
        PROVE  SystemInv'
    <2>1. ServerInv' /\ RunsHold' /\ issued' = issued
      BY <1>2, ServerMoves DEF serverVars
    <2> QED
      BY <1>2, <2>1 DEF SystemInv, RequestsHold, RepliesHold
  <1>3. CASE RestartServer
    <2>1. /\ ServerNext /\ UNCHANGED <<client, requests, replies>>
          /\ issued' = issued
      BY <1>3 DEF RestartServer, ServerNext, Restart
    <2>2. ServerInv' /\ RunsHold'
      BY <2>1, ServerMoves
    <2> QED
      BY <2>1, <2>2 DEF SystemInv, RequestsHold, RepliesHold
  <1>4. ASSUME NEW c \in Client, HttpFails(c)
        PROVE  SystemInv'
    BY <1>4, ClientStepHolds
  <1>5. ASSUME NEW m \in requests, LoseRequest(m)
        PROVE  SystemInv'
    BY <1>2, <1>5 DEF LoseRequest, SystemInv, RequestsHold, RepliesHold
  <1>6. ASSUME NEW m \in requests, GarbleRequest(m)
        PROVE  SystemInv'
    <2>1. PICK bad \in Damaged(m) : requests' = (requests \ {m}) \cup {bad}
      BY <1>6 DEF GarbleRequest
    <2>2. \A x \in requests' : RequestHolds(x)
      BY <2>1, GarbledRequest DEF SystemInv, RequestsHold
    <2> QED
      BY <1>2, <1>6, <2>2 DEF GarbleRequest, SystemInv, RepliesHold
  <1>7. ASSUME NEW m \in replies, LoseReply(m)
        PROVE  SystemInv'
    BY <1>2, <1>7 DEF LoseReply, SystemInv, RequestsHold, RepliesHold
  <1>8. ASSUME NEW m \in replies, GarbleReply(m)
        PROVE  SystemInv'
    <2>1. \A x \in replies' : ReplyHolds(x, issued)
      BY <1>8, GarbledReply DEF GarbleReply, SystemInv, RepliesHold
    <2> QED
      BY <1>2, <1>8, <2>1 DEF GarbleReply, SystemInv, RequestsHold
  <1> QED
    BY <1>1, <1>3, <1>4, <1>5, <1>6, <1>7, <1>8 DEF Network
-----------------------------------------------------------------------------
(***************************************************************************)
(* The specification.                                                      *)
(***************************************************************************)
LEMMA SystemInitHolds == Init => SystemInv
  <1> SUFFICES ASSUME Init PROVE SystemInv
    OBVIOUS
  <1>1. ServerInv
    BY ServerInitHolds DEF Init
  <1>2. RequestsHold /\ RepliesHold
    BY DEF Init, RequestsHold, RepliesHold
  <1>3. ASSUME NEW c \in Client
        PROVE  RunHolds(c, client[c], issued)
    <2>1. PICK a \in Applicant :
            client[c] = [stage |-> "start", user |-> a.user,
                         license |-> a.license, engine |-> a.engine,
                         t |-> Transcript0]
      BY DEF Init, ClientInit
    <2> DEFINE e == <<>>
    <2>2. IsSequence(e) /\ DOMAIN e = {}
      BY DEF IsSequence
    <2> HIDE DEF e
    <2>3. /\ client[c].stage = "start" /\ client[c].t = e
          /\ DOMAIN client[c] = {"stage", "user", "license", "engine", "t"}
      BY <2>1 DEF Transcript0, e
    <2>4. Own(c, client[c])
      BY <2>2, <2>3 DEF Own
    <2> QED
      BY <2>2, <2>3, <2>4 DEF RunHolds, e
  <1>4. RunsHold
    BY <1>3 DEF Init, ClientInit, RunsHold
  <1> QED
    BY <1>1, <1>2, <1>4 DEF SystemInv

LEMMA SystemStepHolds == SystemInv /\ [Next]_vars => SystemInv'
  <1> SUFFICES ASSUME SystemInv, [Next]_vars
               PROVE  SystemInv'
    OBVIOUS
  <1>1. CASE UNCHANGED vars
    <2>1. ServerInv' /\ RunsHold' /\ issued' = issued
      BY <1>1, ServerMoves DEF vars, serverVars
    <2> QED
      BY <1>1, <2>1
      DEF vars, netVars, SystemInv, RequestsHold, RepliesHold
  <1> QED
    BY <1>1, ClientStepHolds, NetworkHolds DEF Next

LEMMA SystemAlways == Spec => []SystemInv
  BY SystemInitHolds, SystemStepHolds, PTL DEF Spec

\* main.py: whatever the clients and the network do, the server of the system
\* does nothing but what its handlers do for the frames that reach it, so what
\* holds of ServerSpec holds of the system.
THEOREM SystemServes == Spec => ServerSpec
  <1>1. SystemInv /\ [Next]_vars => [ServerNext]_serverVars
    BY ServerSteps DEF SystemInv
  <1>2. Init => ServerInit
    BY DEF Init
  <1> QED
    BY SystemAlways, <1>1, <1>2, PTL DEF Spec, ServerSpec

\* protocol.cpp, run_session: a run that was told ACCESS GRANTED was entitled to
\* it, and the server sealed the flag for exactly the frames the run exchanged.
THEOREM SystemAgrees == Spec => []Agreement
  <1>1. SystemInv => Agreement
    BY DEF SystemInv, RunsHold, RunHolds, Agreed, Agreement, Entitled
  <1> QED
    BY SystemAlways, <1>1, PTL
-----------------------------------------------------------------------------
(***************************************************************************)
(* The system implements the portal: the flag is sealed only for runs that *)
(* are entitled to it, and granted only after it was sealed.  It rests on  *)
(* whose the requests on their way are: an intact one ends the transcript  *)
(* its run had when it was posted.                                         *)
(***************************************************************************)

Prefix(t, u) ==
  /\ IsSequence(t) /\ IsSequence(u)
  /\ Len(t) <= Len(u) /\ \A i \in 1 .. Len(t) : u[i] = t[i]

\* The request m was posted by a run whose transcript t has grown since.
Carries(m, t) ==
  /\ m.frame.body.session_id = m.client
  /\ m.path = "exchange" =>
       /\ Len(t) >= 3
       /\ m.frame.prev = SubSeq(t, 1, 2) /\ After(m.frame) = SubSeq(t, 1, 3)
  /\ m.path = "finalize" =>
       /\ Len(t) >= 5
       /\ m.frame.prev = SubSeq(t, 1, 4) /\ After(m.frame) = SubSeq(t, 1, 5)

Addresses(m) == m.client \in Client /\ m.path \in Paths

OwnedInv ==
  /\ \A m \in requests \cup replies : Addresses(m)
  /\ \A m \in requests : m.frame.intact => Carries(m, client[m.client].t)
-----------------------------------------------------------------------------
(***************************************************************************)
(* Transcripts that grow.                                                  *)
(***************************************************************************)
\* The beginning of a transcript, element by element.
LEMMA Beginning ==
  ASSUME NEW t, IsSequence(t), NEW k \in Nat, k <= Len(t)
  PROVE  /\ SubSeq(t, 1, k) = [i \in 1 .. k |-> t[i]]
         /\ Len(SubSeq(t, 1, k)) = k
  <1>1. PICK S : t \in Seq(S)
    BY DEF IsSequence
  <1> QED
    BY <1>1

LEMMA SameBeginning ==
  ASSUME NEW t, NEW u, Prefix(t, u), NEW k \in Nat, k <= Len(t)
  PROVE  SubSeq(u, 1, k) = SubSeq(t, 1, k) /\ k <= Len(u)
  <1>1. Len(t) \in Nat /\ Len(u) \in Nat
    BY DEF Prefix, IsSequence
  <1>2. k <= Len(u) /\ IsSequence(t) /\ IsSequence(u)
        /\ \A i \in 1 .. k : u[i] = t[i]
    BY <1>1 DEF Prefix
  <1>3. /\ SubSeq(t, 1, k) = [i \in 1 .. k |-> t[i]]
        /\ SubSeq(u, 1, k) = [i \in 1 .. k |-> u[i]]
    BY <1>2, Beginning
  <1> QED
    BY <1>2, <1>3

LEMMA PrefixItself ==
  ASSUME NEW t, IsSequence(t)
  PROVE  Prefix(t, t)
  <1>1. Len(t) \in Nat
    BY DEF IsSequence
  <1> QED
    BY <1>1 DEF Prefix

LEMMA PrefixLonger ==
  ASSUME NEW t, IsSequence(t), NEW a, NEW b, NEW u,
         u = Append(Append(t, a), b) \/ u = Append(t, a)
  PROVE  Prefix(t, u)
  <1>1. CASE u = Append(Append(t, a), b)
    <2>1. Longer(u, t, a, b)
      BY <1>1, AbsorbedTwo
    <2> QED
      BY <2>1 DEF Longer, Prefix
  <1>2. CASE u = Append(t, a)
    <2>1. LongerByOne(u, t, a)
      BY <1>2, AbsorbedOne
    <2> QED
      BY <2>1 DEF LongerByOne, Prefix
  <1> QED
    BY <1>1, <1>2

LEMMA Elements ==
  ASSUME NEW t, IsSequence(t)
  PROVE  t = [i \in 1 .. Len(t) |-> t[i]]
  <1>1. PICK S : t \in Seq(S)
    BY DEF IsSequence
  <1> QED
    BY <1>1

\* u, of length l, is t with a and a last frame after it, and its first j frames
\* are all but the last.
Extends(u, t, j, l, a) ==
  /\ Len(u) = l /\ SubSeq(u, 1, l) = u
  /\ SubSeq(u, 1, j) = Append(t, a)

LEMMA TwoSteps ==
  ASSUME NEW t, IsSequence(t), NEW a, NEW b,
         NEW u, u = Append(Append(t, a), b),
         NEW j \in Nat, Len(t) + 1 = j, NEW l \in Nat, Len(t) + 2 = l
  PROVE  Extends(u, t, j, l, a)
  <1> DEFINE v == Append(t, a)
  <1>1. LongerByOne(v, t, a) /\ LongerByOne(u, v, b)
    <2>1. LongerByOne(v, t, a)
      BY AbsorbedOne
    <2>2. IsSequence(v)
      BY <2>1 DEF LongerByOne
    <2>3. u = Append(v, b)
      OBVIOUS
    <2> HIDE DEF v
    <2> QED
      BY <2>1, <2>2, <2>3, AbsorbedOne
  <1> HIDE DEF v
  <1>2. /\ IsSequence(v) /\ Len(v) = j
        /\ IsSequence(u) /\ Len(u) = l /\ j <= l
        /\ \A i \in 1 .. j : u[i] = v[i]
    <2>1. Len(t) \in Nat
      BY DEF IsSequence
    <2> QED
      BY <1>1, <2>1 DEF LongerByOne
  <1>3. /\ SubSeq(u, 1, l) = [i \in 1 .. l |-> u[i]]
        /\ SubSeq(u, 1, j) = [i \in 1 .. j |-> u[i]]
    BY <1>2, Beginning
  <1>4. u = [i \in 1 .. l |-> u[i]] /\ v = [i \in 1 .. j |-> v[i]]
    BY <1>2, Elements
  <1>5. SubSeq(u, 1, l) = u
    BY <1>3, <1>4, Zenon
  <1>6. SubSeq(u, 1, j) = v
    BY <1>2, <1>3, <1>4
  <1> QED
    BY <1>2, <1>5, <1>6 DEF v, Extends
-----------------------------------------------------------------------------
(***************************************************************************)
(* Whose the messages are.                                                 *)
(***************************************************************************)
\* The inputs of a run stay, its transcript grows, and it moves once it is done
\* no more.
RunGoesOn(c) ==
  LET r == client[c]
      n == client'[c]
  IN /\ DOMAIN client' = Client
     /\ \A d \in Client : d # c => client'[d] = client[d]
     /\ n.user = r.user /\ n.license = r.license /\ n.engine = r.engine
     /\ Prefix(r.t, n.t)
     /\ r.stage \notin {"granted", "denied"}

\* A request run c posts.
Posted(c) ==
  \E m : /\ m.client = c /\ m.path \in Paths
         /\ requests' = requests \cup {m}
         /\ Carries(m, client'[c].t)

\* What a step of run c does: it ends, or it posts a request.
ClientStepIs(c) ==
  /\ RunGoesOn(c)
  /\ UNCHANGED <<serverVars, answered>>
  /\ replies' \subseteq replies
  /\ client'[c].stage = "granted" => Len(client'[c].t) = 6
  /\ client'[c].stage = "denied" => client'[c].t = client[c].t
  /\ \/ requests' = requests /\ client'[c].stage \in {"granted", "denied"}
     \/ Posted(c) /\ client'[c].stage \in Paths

LEMMA DeniedIs ==
  ASSUME SystemInv, NEW c \in Client, IsDenied(c) \/ LicenseUnreadable(c),
         client[c].stage \notin {"granted", "denied"}
  PROVE  /\ RunGoesOn(c)
         /\ client'[c].stage = "denied" /\ client'[c].t = client[c].t
  <1>1. RunsHold /\ RunHolds(c, client[c], issued)
    BY DEF SystemInv, RunsHold
  <1>2. Moves(c, "denied", client[c].t) /\ IsSequence(client[c].t)
    BY <1>1 DEF IsDenied, LicenseUnreadable, RunHolds, Transcript0
  <1>3. Prefix(client[c].t, client[c].t)
    BY <1>2, PrefixItself
  <1> QED
    BY <1>1, <1>2, <1>3, MovedRun DEF RunGoesOn

LEMMA ReceiveIs ==
  ASSUME SystemInv, OwnedInv, NEW c \in Client, NEW m \in replies, Receive(c, m)
  PROVE  ClientStepIs(c)
  <1> DEFINE f == m.frame
             r == client[c]
             n == client'[c]
             t == r.t
  <1>1. RunsHold /\ RunHolds(c, r, issued) /\ IsSequence(t) /\ m.path \in Paths
    BY DEF SystemInv, RunsHold, RunHolds, OwnedInv, Addresses
  <1>2. m.path = r.stage /\ UNCHANGED serverVars
    BY DEF Receive
  <1>3. r.stage \notin {"granted", "denied"}
    BY <1>1, <1>2 DEF Paths
  <1>4. ASSUME NEW path \in {"exchange", "finalize"}, NEW g, NEW k \in {1, 3},
               f.prev = t, g.prev = After(f), g.body.session_id = c,
               Moves(c, path, After(g)), Posts(c, path, g), Len(t) = k,
               path = "exchange" => k = 1, path = "finalize" => k = 3
        PROVE  ClientStepIs(c)
    <2> DEFINE x == [client |-> c, path |-> path, frame |-> g]
               u == Append(Append(t, f.body), g.body)
    <2>1. After(f) = Append(t, f.body) /\ After(g) = u
      BY <1>4 DEF After, Absorb
    <2>2. n.t = u /\ n.stage = path
      <3>1. client'[c].stage = path /\ client'[c].t = After(g)
        BY <1>1, <1>4, MovedRun
      <3> HIDE DEF u
      <3> QED
        BY <2>1, <3>1
    <2>3. Prefix(t, u)
      BY <1>1, PrefixLonger
    <2>4. RunGoesOn(c)
      BY <1>1, <1>3, <1>4, <2>2, <2>3, MovedRun DEF RunGoesOn
    <2>5. Extends(u, t, k + 1, k + 2, f.body)
      <3> DEFINE j == k + 1
                 l == k + 2
                 a == f.body
                 b == g.body
      <3>1. j \in Nat /\ l \in Nat
        OBVIOUS
      <3>2. IsSequence(t) /\ Len(t) + 1 = j /\ Len(t) + 2 = l
        BY <1>1, <1>4
      <3>3. u = Append(Append(t, a), b)
        OBVIOUS
      <3> HIDE DEF u, t, f, j, l, a, b
      <3>4. Extends(u, t, j, l, a)
        BY <3>1, <3>2, <3>3, TwoSteps
      <3> QED
        BY <3>4 DEF j, l, a
    <2>6. /\ x.client = c /\ x.path = path /\ x.frame = g
      OBVIOUS
    <2> HIDE DEF x, u
    <2>7. Carries(x, u)
      <3>1. /\ g.prev = Append(t, f.body) /\ After(g) = u
            /\ x.frame.body.session_id = x.client
        BY <1>4, <2>1, <2>6
      <3> HIDE DEF f, t
      <3>2. CASE path = "exchange"
        <4>1. k + 1 = 2 /\ k + 2 = 3
          BY <1>4, <3>2
        <4>2. Extends(u, t, 2, 3, f.body)
          BY <2>5, <4>1, Zenon
        <4>3. Len(u) = 3 /\ SubSeq(u, 1, 3) = u
              /\ SubSeq(u, 1, 2) = Append(t, f.body)
          BY <4>2, Zenon DEF Extends
        <4>4. Len(u) >= 3
          BY <4>3
        <4>5. /\ x.frame.prev = SubSeq(u, 1, 2)
              /\ After(x.frame) = SubSeq(u, 1, 3)
          BY <2>6, <3>1, <4>3, Zenon
        <4> QED
          BY <2>6, <3>1, <3>2, <4>4, <4>5, Zenon DEF Carries
      <3>3. CASE path = "finalize"
        <4>1. k + 1 = 4 /\ k + 2 = 5
          BY <1>4, <3>3
        <4>2. Extends(u, t, 4, 5, f.body)
          BY <2>5, <4>1, Zenon
        <4>3. Len(u) = 5 /\ SubSeq(u, 1, 5) = u
              /\ SubSeq(u, 1, 4) = Append(t, f.body)
          BY <4>2, Zenon DEF Extends
        <4>4. Len(u) >= 5
          BY <4>3
        <4>5. /\ x.frame.prev = SubSeq(u, 1, 4)
              /\ After(x.frame) = SubSeq(u, 1, 5)
          BY <2>6, <3>1, <4>3, Zenon
        <4> QED
          BY <2>6, <3>1, <3>3, <4>4, <4>5, Zenon DEF Carries
      <3> QED
        BY <1>4, <3>2, <3>3
    <2>8. /\ requests' = requests \cup {x} /\ replies' \subseteq replies
          /\ answered' = answered /\ path \in Paths
      BY <1>4 DEF Posts, Others, Paths, x
    <2>9. Posted(c)
      BY <2>2, <2>7, <2>8 DEF Posted, x
    <2> QED
      BY <1>2, <2>2, <2>4, <2>8, <2>9 DEF ClientStepIs
  <1>5. CASE SendsProof1(c, f) /\ Posts(c, "exchange", Proof1Frame(c, After(f)))
    <2> DEFINE g == Proof1Frame(c, After(f))
    <2>1. /\ r.stage = "hello" /\ f.prev = t
          /\ Moves(c, "exchange", After(g)) /\ Posts(c, "exchange", g)
      BY <1>5 DEF SendsProof1, ChallengeAccepted, PlainOpen, Opens
    <2>2. g.prev = After(f) /\ g.body.session_id = c
      BY DEF Proof1Frame, Seals, AeadSeal, SealFrame
    <2>3. Len(t) = 1
      BY <1>1, <2>1 DEF RunHolds
    <2> HIDE DEF g, t, f
    <2> QED
      BY <1>4, <2>1, <2>2, <2>3
  <1>6. CASE SendsProof2(c, f) /\ Posts(c, "finalize", Proof2Frame(c, After(f)))
    <2> DEFINE g == Proof2Frame(c, After(f))
    <2>1. /\ r.stage = "exchange" /\ f.prev = t
          /\ Moves(c, "finalize", After(g)) /\ Posts(c, "finalize", g)
      BY <1>6 DEF SendsProof2, ServerProofAccepted, Unseals, AeadOpen, Opens
    <2>2. g.prev = After(f) /\ g.body.session_id = c
      BY DEF Proof2Frame, Seals, AeadSeal, SealFrame
    <2>3. Len(t) = 3
      BY <1>1, <2>1 DEF RunHolds
    <2> HIDE DEF g, t, f
    <2> QED
      BY <1>4, <2>1, <2>2, <2>3
  <1>7. CASE IsGranted(c, f) /\ Leaves(c)
    <2>1. f.prev = t /\ Moves(c, "granted", After(f))
      BY <1>7 DEF IsGranted, FlagAccepted, Unseals, AeadOpen, Opens
    <2>2. After(f) = Append(t, f.body)
      BY <2>1 DEF After, Absorb
    <2>3. Prefix(t, After(f))
      BY <1>1, <2>2, PrefixLonger
    <2>4. RunGoesOn(c) /\ n.stage = "granted" /\ n.t = After(f)
      BY <1>1, <1>3, <2>1, <2>3, MovedRun DEF RunGoesOn
    <2>5. Len(t) = 5
      BY <1>1, <1>7 DEF IsGranted, FlagAccepted, RunHolds
    <2>6. LongerByOne(After(f), t, f.body)
      BY <1>1, <2>2, AbsorbedOne
    <2>7. Len(n.t) = 6
      BY <2>4, <2>5, <2>6 DEF LongerByOne
    <2> QED
      BY <1>2, <1>7, <2>4, <2>7 DEF ClientStepIs, Leaves, Others
  <1>8. CASE IsDenied(c) /\ Leaves(c)
    BY <1>2, <1>3, <1>8, DeniedIs DEF ClientStepIs, Leaves, Others
  <1> QED
    BY <1>5, <1>6, <1>7, <1>8 DEF Receive

LEMMA ClientStepShape ==
  ASSUME SystemInv, OwnedInv, NEW c \in Client, ClientStep(c) \/ HttpFails(c)
  PROVE  ClientStepIs(c)
  <1>1. CASE Start(c)
    <2> DEFINE g == HelloFrame(c)
               t == client[c].t
    <2>1. /\ RunsHold /\ client[c].stage = "start" /\ Moves(c, "hello", After(g))
          /\ Posts(c, "hello", g) /\ UNCHANGED serverVars
          /\ IsSequence(t) /\ t = <<>>
      BY <1>1 DEF Start, SendsHello, SystemInv, RunsHold, RunHolds
    <2>2. After(g) = Append(t, g.body) /\ g.body.session_id = c
      BY <2>1 DEF HelloFrame, PlainSeal, SealFrame, After, Absorb, Transcript0
    <2> HIDE DEF g, t
    <2>3. Prefix(t, After(g))
      BY <2>1, <2>2, PrefixLonger
    <2>4. RunGoesOn(c) /\ client'[c].stage = "hello"
      BY <2>1, <2>3, MovedRun DEF RunGoesOn, t
    <2>5. Posted(c)
      <3> DEFINE x == [client |-> c, path |-> "hello", frame |-> g]
      <3>1. Carries(x, client'[c].t)
        BY <2>2 DEF Carries
      <3>2. requests' = requests \cup {x} /\ "hello" \in Paths
        BY <2>1 DEF Posts, Paths
      <3> QED
        BY <3>1, <3>2 DEF Posted
    <2> QED
      BY <2>1, <2>4, <2>5 DEF ClientStepIs, Posts, Others, Paths
  <1>2. CASE Refuse(c)
    BY <1>2, DeniedIs DEF Refuse, LicenseUnreadable, ClientStepIs, netVars
  <1>3. CASE GiveUp(c)
    BY <1>3, DeniedIs DEF GiveUp, Waiting, Paths, Leaves, Others, ClientStepIs
  <1>4. CASE HttpFails(c)
    BY <1>4, DeniedIs DEF HttpFails, Done, Leaves, Others, ClientStepIs
  <1> QED
    BY <1>1, <1>2, <1>3, <1>4, ReceiveIs DEF ClientStep

\* A request stays one the run has posted when the run goes on.
LEMMA CarriesOn ==
  ASSUME NEW m, NEW t, NEW u, Prefix(t, u), Carries(m, t)
  PROVE  Carries(m, u)
  <1>1. Len(t) \in Nat /\ Len(u) \in Nat /\ Len(t) <= Len(u)
    BY DEF Prefix, IsSequence
  <1>2. m.frame.body.session_id = m.client
    BY DEF Carries
  <1>3. ASSUME m.path = "exchange"
        PROVE  /\ Len(u) >= 3 /\ m.frame.prev = SubSeq(u, 1, 2)
               /\ After(m.frame) = SubSeq(u, 1, 3)
    <2>1. /\ Len(t) >= 3 /\ m.frame.prev = SubSeq(t, 1, 2)
          /\ After(m.frame) = SubSeq(t, 1, 3)
      BY <1>3, Zenon DEF Carries
    <2>2. 2 \in Nat /\ 2 <= Len(t) /\ 3 \in Nat /\ 3 <= Len(t) /\ Len(u) >= 3
      BY <1>1, <2>1
    <2>3. SubSeq(u, 1, 2) = SubSeq(t, 1, 2) /\ SubSeq(u, 1, 3) = SubSeq(t, 1, 3)
      BY <2>2, SameBeginning
    <2> QED
      BY <2>1, <2>2, <2>3, Zenon
  <1>4. ASSUME m.path = "finalize"
        PROVE  /\ Len(u) >= 5 /\ m.frame.prev = SubSeq(u, 1, 4)
               /\ After(m.frame) = SubSeq(u, 1, 5)
    <2>1. /\ Len(t) >= 5 /\ m.frame.prev = SubSeq(t, 1, 4)
          /\ After(m.frame) = SubSeq(t, 1, 5)
      BY <1>4, Zenon DEF Carries
    <2>2. 4 \in Nat /\ 4 <= Len(t) /\ 5 \in Nat /\ 5 <= Len(t) /\ Len(u) >= 5
      BY <1>1, <2>1
    <2>3. SubSeq(u, 1, 4) = SubSeq(t, 1, 4) /\ SubSeq(u, 1, 5) = SubSeq(t, 1, 5)
      BY <2>2, SameBeginning
    <2> QED
      BY <2>1, <2>2, <2>3, Zenon
  <1> QED
    BY <1>2, <1>3, <1>4, Zenon DEF Carries

LEMMA ClientOwned ==
  ASSUME SystemInv, OwnedInv, NEW c \in Client, ClientStepIs(c)
  PROVE  OwnedInv'
  <1>1. RunGoesOn(c) /\ replies' \subseteq replies
    BY DEF ClientStepIs
  <1>2. ASSUME NEW d \in Client
        PROVE  Prefix(client[d].t, client'[d].t)
    <2>1. CASE d = c
      BY <1>1, <2>1 DEF RunGoesOn
    <2>2. CASE d # c
      <3>1. client'[d] = client[d]
        BY <1>1, <2>2 DEF RunGoesOn
      <3>2. IsSequence(client[d].t)
        BY DEF SystemInv, RunsHold, RunHolds
      <3> QED
        BY <3>1, <3>2, PrefixItself
    <2> QED
      BY <2>1, <2>2
  <1>3. ASSUME NEW m \in requests, m.frame.intact
        PROVE  Carries(m, client'[m.client].t)
    <2>1. m.client \in Client /\ Carries(m, client[m.client].t)
      BY <1>3 DEF OwnedInv, Addresses
    <2> QED
      BY <1>2, <2>1, CarriesOn
  <1>4. CASE requests' = requests
    BY <1>1, <1>3, <1>4 DEF OwnedInv
  <1>5. CASE Posted(c)
    <2>1. PICK x : /\ x.client = c /\ x.path \in Paths
                   /\ requests' = requests \cup {x}
                   /\ Carries(x, client'[c].t)
      BY <1>5 DEF Posted
    <2> QED
      BY <1>1, <1>3, <2>1 DEF OwnedInv, Addresses
  <1> QED
    BY <1>4, <1>5 DEF ClientStepIs

\* What the server and the network do to the messages.
LEMMA ServedOwned ==
  ASSUME OwnedInv, NEW m \in requests, Routed(m), client' = client,
         requests' \subseteq requests
  PROVE  OwnedInv'
  <1>1. PICK f : Reply(m, f)
    BY Zenon DEF Routed, Answer, Reject
  <1> DEFINE y == [client |-> m.client, path |-> m.path, frame |-> f]
  <1>2. replies' \subseteq replies \cup {y}
    BY <1>1 DEF Reply
  <1>3. Addresses(m) /\ Addresses(y)
    BY DEF OwnedInv, Addresses
  <1> HIDE DEF y
  <1> QED
    BY <1>2, <1>3 DEF OwnedInv

LEMMA DamagedOwned ==
  ASSUME RequestsHold, OwnedInv, NEW m \in requests, NEW bad \in Damaged(m)
  PROVE  Addresses(bad) /\ bad.frame.intact = FALSE
  <1>1. RequestHolds(m) /\ Addresses(m)
    BY DEF RequestsHold, OwnedInv
  <1>2. PICK g : /\ bad = [m EXCEPT !.frame = g]
                 /\ \/ g = Unparsable(m.frame)
                    \/ \E sid \in SessionId,
                          n \in {m.frame.body.counter, MaxCounter} :
                         g = Garbled(m.frame, sid, n)
    BY DEF Damaged
  <1>3. g.intact = FALSE
    BY <1>1, <1>2 DEF RequestHolds, FrameShape, Unparsable, Garbled
  <1>4. bad.client = m.client /\ bad.path = m.path /\ bad.frame = g
    BY <1>1, <1>2 DEF RequestHolds, MessageFields
  <1> QED
    BY <1>1, <1>3, <1>4 DEF Addresses

LEMMA NetworkOwned ==
  ASSUME SystemInv, OwnedInv, Network \/ \E m \in requests : Serve(m),
         \A c \in Client : ~HttpFails(c)
  PROVE  OwnedInv'
  <1>1. ASSUME NEW m \in requests, Serve(m) \/ ServeAgain(m)
        PROVE  OwnedInv'
    BY <1>1, ServedOwned DEF Serve, ServeAgain
  <1>2. CASE RestartServer
    BY <1>2 DEF RestartServer, OwnedInv
  <1>3. ASSUME NEW m \in requests, LoseRequest(m)
        PROVE  OwnedInv'
    BY <1>3 DEF LoseRequest, OwnedInv
  <1>4. ASSUME NEW m \in replies, LoseReply(m)
        PROVE  OwnedInv'
    BY <1>4 DEF LoseReply, OwnedInv
  <1>5. ASSUME NEW m \in requests, GarbleRequest(m)
        PROVE  OwnedInv'
    <2>1. PICK bad \in Damaged(m) : requests' = (requests \ {m}) \cup {bad}
      BY <1>5 DEF GarbleRequest
    <2>2. Addresses(bad) /\ bad.frame.intact = FALSE
      BY <2>1, DamagedOwned DEF SystemInv
    <2> QED
      BY <1>5, <2>1, <2>2 DEF GarbleRequest, OwnedInv
  <1>6. ASSUME NEW m \in replies, GarbleReply(m)
        PROVE  OwnedInv'
    <2> DEFINE y == [m EXCEPT !.frame = Unparsable(m.frame)]
    <2>1. Addresses(m) /\ ReplyHolds(m, issued)
      BY DEF OwnedInv, SystemInv, RepliesHold
    <2>2. Addresses(y)
      BY <2>1 DEF Addresses, ReplyHolds, MessageFields
    <2>3. /\ replies' = (replies \ {m}) \cup {y}
          /\ UNCHANGED <<client, requests>>
      BY <1>6 DEF GarbleReply
    <2> HIDE DEF y
    <2> QED
      BY <2>2, <2>3 DEF OwnedInv
  <1> QED
    BY <1>1, <1>2, <1>3, <1>4, <1>5, <1>6 DEF Network

LEMMA OwnedInit == Init => OwnedInv
  BY DEF Init, OwnedInv

LEMMA OwnedStep == SystemInv /\ OwnedInv /\ [Next]_vars => OwnedInv'
  <1> SUFFICES ASSUME SystemInv, OwnedInv, [Next]_vars
               PROVE  OwnedInv'
    OBVIOUS
  <1>1. CASE UNCHANGED vars
    BY <1>1 DEF vars, netVars, OwnedInv
  <1>2. ASSUME NEW c \in Client, ClientStep(c) \/ HttpFails(c)
        PROVE  OwnedInv'
    BY <1>2, ClientStepShape, ClientOwned
  <1>3. CASE Network \/ \E m \in requests : Serve(m)
    BY <1>2, <1>3, NetworkOwned
  <1> QED
    BY <1>1, <1>2, <1>3 DEF Next
-----------------------------------------------------------------------------
(***************************************************************************)
(* The steps of the portal.                                                *)
(***************************************************************************)
\* What the portal sees of the system.
EntitledRuns == {c \in Client : Entitled(c)}
SealedRuns == {t[1].session_id : t \in issued}
Verdicts == [c \in Client |-> IF Done(c) THEN client[c].stage ELSE "pending"]

LEMMA ClientTells ==
  ASSUME SystemInv, SystemInv', NEW c \in Client, ClientStepIs(c)
  PROVE  [Portal!Next]_(Portal!vars)
  <1>1. /\ RunGoesOn(c) /\ issued' = issued
        /\ client'[c].stage \in {"granted", "denied"} \cup Paths
    BY DEF ClientStepIs, serverVars
  <1>2. EntitledRuns' = EntitledRuns /\ SealedRuns' = SealedRuns
    <2>1. ASSUME NEW d \in Client
          PROVE  Entitled(d)' <=> Entitled(d)
      <3>1. CASE d = c
        BY <1>1, <3>1 DEF RunGoesOn, Entitled
      <3>2. CASE d # c
        BY <1>1, <3>2 DEF RunGoesOn, Entitled
      <3> QED
        BY <3>1, <3>2
    <2> QED
      BY <1>1, <2>1 DEF EntitledRuns, SealedRuns
  <1>3. Verdicts[c] = "pending" /\ \A d \in Client : d # c => Verdicts'[d] = Verdicts[d]
    BY <1>1 DEF RunGoesOn, Verdicts, Done
  <1>4. CASE client'[c].stage \in Paths
    <2>1. Verdicts'[c] = "pending"
      BY <1>4 DEF Verdicts, Done, Paths
    <2>2. Verdicts' = Verdicts
      BY <1>3, <2>1 DEF Verdicts
    <2> QED
      BY <1>2, <2>2 DEF Portal!vars, EntitledRuns, SealedRuns, Verdicts
  <1>5. CASE client'[c].stage \in {"granted", "denied"}
    <2> DEFINE answer == client'[c].stage
    <2>1. Verdicts'[c] = answer
      BY <1>5 DEF Verdicts, Done
    <2>2. Verdicts' = [Verdicts EXCEPT ![c] = answer]
      BY <1>3, <2>1 DEF Verdicts
    <2>3. Portal!Tell(c, answer)
      BY <1>2, <1>3, <2>2 DEF Portal!Tell, EntitledRuns, SealedRuns, Verdicts
    <2>4. CASE answer = "granted"
      <3>1. RunHolds(c, client'[c], issued) /\ Len(client'[c].t) >= 5
        <4>1. Len(client'[c].t) = 6
          BY <2>4 DEF ClientStepIs
        <4> QED
          BY <1>1, <4>1 DEF SystemInv, RunsHold
      <3>2. SubSeq(client'[c].t, 1, 5) \in issued /\ client'[c].t[1].session_id = c
        BY <2>4, <3>1 DEF RunHolds, Agreed, Own, IsSequence
      <3>3. SubSeq(client'[c].t, 1, 5)[1] = client'[c].t[1]
        BY <3>1, Beginning DEF RunHolds
      <3>4. c \in SealedRuns
        BY <3>2, <3>3 DEF SealedRuns
      <3>5. Portal!Grant(c)
        BY <2>3, <2>4, <3>4 DEF Portal!Grant, Portal!Tell, SealedRuns
      <3> QED
        BY <3>5 DEF Portal!Next
    <2>5. CASE answer = "denied"
      <3>1. Portal!Deny(c)
        BY <2>3, <2>5 DEF Portal!Deny, Portal!Tell
      <3> QED
        BY <3>1 DEF Portal!Next
    <2> QED
      BY <1>5, <2>4, <2>5
  <1> QED
    BY <1>1, <1>4, <1>5

\* The run whose CLIENT_PROOF_2 the server accepts is entitled to the flag.
LEMMA SealedEntitled ==
  ASSUME SystemInv, OwnedInv, NEW m \in requests, FinalizeAnswered(m.frame),
         m.path = "finalize", ServerInv'
  PROVE  /\ m.client \in EntitledRuns
         /\ After(m.frame)[1].session_id = m.client
  <1> DEFINE f == m.frame
             c == m.client
             r == client[c]
             t == r.t
             e == After(f)
  <1>1. c \in Client /\ f.intact
    BY DEF OwnedInv, Addresses, FinalizeAnswered, Proof2Accepted,
           OpensForSession, AeadOpen, Opens
  <1>2. Len(t) >= 5 /\ e = SubSeq(t, 1, 5)
    BY <1>1, Zenon DEF OwnedInv, Carries
  <1>3. RunHolds(c, r, issued) /\ IsSequence(t) /\ Own(c, r)
    BY <1>1 DEF SystemInv, RunsHold, RunHolds
  <1>4. e \in issued' /\ Earned(e)
    BY DEF FinalizeAnswered, ServerInv, FlagEarned
  <1>5. e = [i \in 1 .. 5 |-> t[i]] /\ DOMAIN t = 1 .. Len(t) /\ Len(t) \in Nat
    BY <1>2, <1>3, Beginning DEF IsSequence
  <1>6. /\ t[1].type = "HELLO" /\ t[1].session_id = c
        /\ t[1].payload.username = r.user
        /\ t[2].type = "SERVER_CHALLENGE" /\ t[3].type = "CLIENT_PROOF_1"
        /\ t[3].payload.license = r.license
        /\ t[3].payload.vm.engine = r.engine
        /\ t[4].type = "SERVER_PROOF_1" /\ t[5].type = "CLIENT_PROOF_2"
    <2>1. 1 \in DOMAIN t /\ 2 \in DOMAIN t /\ 3 \in DOMAIN t /\ 4 \in DOMAIN t /\ 5 \in DOMAIN t
      BY <1>2, <1>5
    <2>2. Own(c, r)
      BY <1>3
    <2> QED BY <2>1, <2>2 DEF Own
  <1> HIDE DEF e, t
  <1>7. PICK i \in DOMAIN e : LastExchange(e, i) /\ SoundExchange(e, i)
    BY <1>4 DEF Earned
  <1>8. DOMAIN e = 1 .. 5 /\ \A j \in 1 .. 5 : e[j] = t[j]
    BY <1>5
  <1>9. i = 3
    BY <1>6, <1>7, <1>8 DEF LastExchange, Positions
  <1>10. ValidLicense(r.user, r.license) /\ r.engine = "current"
    BY <1>6, <1>7, <1>8, <1>9 DEF SoundExchange, RunVm
  <1>11. e[1].session_id = c
    BY <1>6, <1>8
  <1> QED
    BY <1>1, <1>10, <1>11 DEF EntitledRuns, Entitled, e

LEMMA ServerSeals ==
  ASSUME SystemInv, OwnedInv, NEW m \in requests, Routed(m), client' = client,
         ServerInv'
  PROVE  [Portal!Next]_(Portal!vars)
  <1>1. EntitledRuns' = EntitledRuns /\ Verdicts' = Verdicts
    BY DEF EntitledRuns, Entitled, Verdicts, Done
  <1>2. CASE issued' = issued
    BY <1>1, <1>2 DEF Portal!vars, EntitledRuns, Verdicts
  <1>3. CASE FinalizeAnswered(m.frame) /\ m.path = "finalize"
    <2> DEFINE c == m.client
    <2>1. c \in EntitledRuns /\ After(m.frame)[1].session_id = c
      BY <1>3, SealedEntitled
    <2>2. issued' = issued \cup {After(m.frame)}
      BY <1>3 DEF FinalizeAnswered
    <2>3. SealedRuns' = SealedRuns \cup {c}
      BY <2>1, <2>2 DEF SealedRuns
    <2> HIDE DEF c
    <2>4. CASE c \in SealedRuns
      <3>1. SealedRuns' = SealedRuns
        BY <2>3, <2>4
      <3> QED
        BY <1>1, <3>1 DEF Portal!vars, EntitledRuns, SealedRuns, Verdicts
    <2>5. CASE c \notin SealedRuns
      <3>1. Portal!Seal(c) /\ c \in Client
        BY <1>1, <2>1, <2>3, <2>5
        DEF Portal!Seal, EntitledRuns, SealedRuns, Verdicts
      <3> QED
        BY <3>1 DEF Portal!Next
    <2> QED
      BY <2>4, <2>5
  <1>4. issued' = issued \/ (FinalizeAnswered(m.frame) /\ m.path = "finalize")
    BY DEF Routed, HelloAnswered, HelloFailed, HelloCounterRefused,
           HelloUnreadable, HelloKeyRefused, ExchangeAnswered, ExchangeFailed,
           UnknownSession, CounterRefused, ExchangeRefused, ProofRefused,
           FinalizeFailed, FinalizeRefused, serverVars
  <1> QED
    BY <1>2, <1>3, <1>4

LEMMA PortalInit == Init => Portal!Init
  <1> SUFFICES ASSUME Init PROVE Portal!Init
    OBVIOUS
  <1>1. issued = {}
    BY DEF Init, ServerInit
  <1>2. \A c \in Client : client[c].stage = "start"
    BY DEF Init, ClientInit
  <1> QED
    BY <1>1, <1>2 DEF Portal!Init, Done

LEMMA PortalStep ==
  SystemInv /\ SystemInv' /\ OwnedInv /\ [Next]_vars =>
    [Portal!Next]_(Portal!vars)
  <1> SUFFICES ASSUME SystemInv, SystemInv', OwnedInv, [Next]_vars
               PROVE  [Portal!Next]_(Portal!vars)
    OBVIOUS
  <1>1. ASSUME UNCHANGED <<client, issued>>
        PROVE  [Portal!Next]_(Portal!vars)
    BY <1>1 DEF Portal!vars, Entitled, Done
  <1>2. ASSUME NEW c \in Client, ClientStep(c) \/ HttpFails(c)
        PROVE  [Portal!Next]_(Portal!vars)
    BY <1>2, ClientStepShape, ClientTells
  <1>3. ASSUME NEW m \in requests, Serve(m) \/ ServeAgain(m)
        PROVE  [Portal!Next]_(Portal!vars)
    BY <1>3, ServerSeals DEF Serve, ServeAgain, SystemInv
  <1>4. ASSUME NEW m \in requests, LoseRequest(m) \/ GarbleRequest(m)
        PROVE  UNCHANGED <<client, issued>>
    BY <1>4 DEF LoseRequest, GarbleRequest, serverVars
  <1>5. ASSUME NEW m \in replies, LoseReply(m) \/ GarbleReply(m)
        PROVE  UNCHANGED <<client, issued>>
    BY <1>5 DEF LoseReply, GarbleReply, serverVars
  <1>6. CASE RestartServer \/ UNCHANGED vars
    BY <1>1, <1>6 DEF RestartServer, Restart, vars, serverVars
  <1> QED
    BY <1>1, <1>2, <1>3, <1>4, <1>5, <1>6 DEF Next, Network

\* app.cpp and challenge_logic.py together, whatever the network does: the flag
\* is sealed only for runs whose license and program entitle them to it, a run
\* is told ACCESS GRANTED only after the flag was sealed for it, and it is told
\* its verdict once.
THEOREM SystemImplementsPortal == Spec => ImplementsPortal
  <1>1. Spec => []OwnedInv
    BY SystemAlways, OwnedInit, OwnedStep, PTL DEF Spec
  <1>2. Spec => Portal!Spec
    BY <1>1, SystemAlways, PortalInit, PortalStep, PTL DEF Spec, Portal!Spec
  <1> QED
    BY <1>2 DEF ImplementsPortal
-----------------------------------------------------------------------------
(***************************************************************************)
(* Replay protection: a proof of a run is accepted at most once, however   *)
(* often it reaches the server and whatever the server forgot in between.  *)
(* A proof is sealed on the transcript its run had.  The server accepts it *)
(* only while it holds that very transcript, and then holds a longer one.  *)
(* It never comes back to the shorter one, because a handshake that begins *)
(* anew draws a server_random that no run has seen.                        *)
(***************************************************************************)

\* The transcript the server holds for run c, empty when it holds none.
Held(c) == IF c \in Ids(order) THEN session[c].transcript_state ELSE <<>>

\* The random of a SERVER_CHALLENGE is one of the first n draws.
DrawnBy(f, n) ==
  f.intact /\ f.body.layer = "plain" => f.body.payload.server_random \in 0 .. n

\* What is true of a run with transcript t when the server holds h for it, has
\* answered its proofs x and y times, and has drawn n times.
Once(t, h, x, y, n) ==
  /\ Len(t) >= 2 => t[2].payload.server_random \in 0 .. n
  /\ x # 0 => x = 1 /\ Len(t) >= 3 /\ h # SubSeq(t, 1, 2)
  /\ y # 0 => /\ y = 1 /\ Len(t) >= 5
              /\ h # SubSeq(t, 1, 2) /\ h # SubSeq(t, 1, 4)

OnceInv ==
  /\ fresh \in Nat
  /\ DOMAIN answered = Client \X Paths
  /\ \A m \in replies : DrawnBy(m.frame, fresh)
  /\ \A c \in Client :
       Once(client[c].t, Held(c), answered[<<c, "exchange">>],
            answered[<<c, "finalize">>], fresh)

\* What a step that answers no proof does to a held transcript h after n draws:
\* it stays, is forgotten, or is of a new handshake.
HeldStays(h, k, n) ==
  \/ k = h
  \/ k = <<>>
  \/ Len(k) = 2 /\ k[2].payload.server_random = n + 1

\* What any step does: the same, or it goes on by one exchange.
HeldGoesOn(h, k, n) ==
  \/ HeldStays(h, k, n)
  \/ Len(h) >= 2 /\ \E a, b : Longer(k, h, a, b)
-----------------------------------------------------------------------------
LEMMA OnceKept ==
  ASSUME NEW t, IsSequence(t), NEW h, IsSequence(h), NEW k, NEW n \in Nat,
         NEW x, NEW y, Once(t, h, x, y, n), HeldGoesOn(h, k, n),
         NEW last \in Nat, n <= last
  PROVE  Once(t, k, x, y, last)
  <1>1. Len(t) \in Nat /\ Len(h) \in Nat /\ DOMAIN h = 1 .. Len(h)
    BY DEF IsSequence
  <1>2. Len(t) >= 2 => t[2].payload.server_random \in 0 .. n
    BY DEF Once
  <1>3. Len(t) >= 2 => t[2].payload.server_random \in 0 .. last
    BY <1>2
  <1>4. ASSUME Len(t) >= 3, h # SubSeq(t, 1, 2)
        PROVE  k # SubSeq(t, 1, 2)
    <2> DEFINE w == SubSeq(t, 1, 2)
    <2>1. Len(w) = 2 /\ w = [i \in 1 .. 2 |-> t[i]]
      BY <1>1, <1>4, Beginning
    <2>2. w[2] = t[2]
      BY <2>1
    <2> HIDE DEF w
    <2>3. CASE k = h
      BY <1>4, <2>3 DEF w
    <2>4. CASE k = <<>>
      BY <2>1, <2>4
    <2>5. CASE Len(k) = 2 /\ k[2].payload.server_random = n + 1
      BY <1>1, <1>2, <1>4, <2>2, <2>5
    <2>6. CASE Len(h) >= 2 /\ \E a, b : Longer(k, h, a, b)
      BY <1>1, <2>1, <2>6 DEF Longer
    <2> QED
      BY <2>3, <2>4, <2>5, <2>6 DEF HeldGoesOn, HeldStays, w
  <1>5. ASSUME Len(t) >= 5, h # SubSeq(t, 1, 2), h # SubSeq(t, 1, 4)
        PROVE  k # SubSeq(t, 1, 4)
    <2> DEFINE w == SubSeq(t, 1, 2)
               v == SubSeq(t, 1, 4)
    <2>1. /\ Len(w) = 2 /\ w = [i \in 1 .. 2 |-> t[i]]
          /\ Len(v) = 4 /\ v = [i \in 1 .. 4 |-> t[i]]
      BY <1>1, <1>5, Beginning
    <2>2. v[1] = t[1] /\ v[2] = t[2]
      BY <2>1
    <2> HIDE DEF w, v
    <2>3. CASE k = h
      BY <1>5, <2>3 DEF v
    <2>4. CASE k = <<>>
      BY <2>1, <2>4
    <2>5. CASE Len(k) = 2 /\ k[2].payload.server_random = n + 1
      BY <2>1, <2>5
    <2>6. CASE Len(h) >= 2 /\ \E a, b : Longer(k, h, a, b)
      <3>1. SUFFICES ASSUME k = v PROVE FALSE
        BY DEF v
      <3>2. PICK a, b : Longer(k, h, a, b)
        BY <2>6
      <3>3. Len(h) = 2 /\ h[1] = t[1] /\ h[2] = t[2]
        <4>1. Len(k) = Len(h) + 2 /\ \A i \in 1 .. Len(h) : k[i] = h[i]
          BY <3>2 DEF Longer
        <4>2. Len(k) = 4 /\ k[1] = t[1] /\ k[2] = t[2]
          BY <2>1, <2>2, <3>1, Zenon
        <4>3. Len(h) = 2
          <5> DEFINE p == Len(h)
                     q == Len(k)
          <5>1. p \in Nat /\ q = p + 2 /\ q = 4
            BY <1>1, <4>1, <4>2, Zenon
          <5> HIDE DEF p, q
          <5>2. p = 2
            BY <5>1
          <5> QED
            BY <5>2 DEF p
        <4> QED
          BY <4>1, <4>2, <4>3
      <3>4. h = [i \in 1 .. Len(h) |-> h[i]]
        BY Elements, Zenon
      <3>5. h = w
        <4>1. w = [i \in 1 .. 2 |-> t[i]] /\ h = [i \in 1 .. 2 |-> h[i]]
          BY <2>1, <3>3, <3>4, Zenon
        <4>2. \A i \in 1 .. 2 : h[i] = t[i]
          BY <3>3
        <4> QED
          BY <4>1, <4>2
      <3> QED
        BY <1>5, <3>5 DEF w
    <2> QED
      BY <2>3, <2>4, <2>5, <2>6 DEF HeldGoesOn, HeldStays, v
  <1>6. Len(t) >= 5 => Len(t) >= 3
    BY <1>1
  <1>7. x # 0 => x = 1 /\ Len(t) >= 3 /\ k # SubSeq(t, 1, 2)
    BY <1>4, Zenon DEF Once
  <1>8. y # 0 => /\ y = 1 /\ Len(t) >= 5
                 /\ k # SubSeq(t, 1, 2) /\ k # SubSeq(t, 1, 4)
    BY <1>4, <1>5, <1>6, Zenon DEF Once
  <1> QED
    BY <1>3, <1>7, <1>8, Zenon DEF Once

\* The run goes on.
LEMMA OnceGrows ==
  ASSUME NEW t, NEW u, Prefix(t, u), NEW h, NEW n, NEW x, NEW y,
         Once(t, h, x, y, n),
         Len(u) >= 2 => u[2].payload.server_random \in 0 .. n
  PROVE  Once(u, h, x, y, n)
  <1>1. Len(t) \in Nat /\ Len(u) \in Nat /\ Len(t) <= Len(u)
    BY DEF Prefix, IsSequence
  <1>2. Len(t) >= 3 => Len(u) >= 3 /\ SubSeq(u, 1, 2) = SubSeq(t, 1, 2)
    BY <1>1, SameBeginning
  <1>3. Len(t) >= 5 => /\ Len(t) >= 3 /\ Len(u) >= 5
                       /\ SubSeq(u, 1, 4) = SubSeq(t, 1, 4)
    BY <1>1, SameBeginning
  <1>4. x # 0 => x = 1 /\ Len(u) >= 3 /\ h # SubSeq(u, 1, 2)
    BY <1>2, Zenon DEF Once
  <1>5. y # 0 => /\ y = 1 /\ Len(u) >= 5
                 /\ h # SubSeq(u, 1, 2) /\ h # SubSeq(u, 1, 4)
    BY <1>2, <1>3, Zenon DEF Once
  <1> QED
    BY <1>4, <1>5, Zenon DEF Once
-----------------------------------------------------------------------------
(***************************************************************************)
(* What the handlers do to the transcripts the server holds.               *)
(***************************************************************************)
HeldStay == \A c : HeldStays(Held(c), Held(c)', fresh)
HeldGoOn == \A c : HeldGoesOn(Held(c), Held(c)', fresh)

LEMMA StayGoOn == HeldStay => HeldGoOn
  BY DEF HeldStay, HeldGoOn, HeldGoesOn

LEMMA CreateHeld ==
  ASSUME StoreHolds, NEW sid \in SessionId, NEW s, CreateWith(sid, s),
         \/ s.transcript_state = <<>>
         \/ /\ Len(s.transcript_state) = 2
            /\ s.transcript_state[2].payload.server_random = fresh + 1
  PROVE  HeldStay /\ Held(sid)' = s.transcript_state
  <1>1. Ids(order') \subseteq Ids(order) \cup {sid} /\ sid \in Ids(order')
    BY CreatedHolds DEF StoreHolds, CreateWith
  <1>2. session' = [k \in Ids(order') |-> IF k = sid THEN s ELSE session[k]]
    BY DEF CreateWith
  <1>3. session'[sid] = s
    BY <1>1, <1>2
  <1>4. Held(sid)' = s.transcript_state
    BY <1>1, <1>3 DEF Held
  <1>5. ASSUME NEW c
        PROVE  HeldStays(Held(c), Held(c)', fresh)
    <2>1. CASE c \notin Ids(order')
      <3>1. Held(c)' = <<>>
        BY <2>1 DEF Held
      <3> QED
        BY <3>1 DEF HeldStays
    <2>2. CASE c \in Ids(order') /\ c # sid
      <3>1. c \in Ids(order) /\ session'[c] = session[c]
        BY <1>1, <1>2, <2>2
      <3>2. Held(c)' = Held(c)
        BY <2>2, <3>1 DEF Held
      <3> QED
        BY <3>2 DEF HeldStays
    <2>3. CASE c = sid
      BY <1>4, <2>3 DEF HeldStays
    <2> QED
      BY <2>1, <2>2, <2>3
  <1> QED
    BY <1>4, <1>5 DEF HeldStay

LEMMA GetHeld ==
  ASSUME StoreHolds, NEW sid, NEW s, GetWith(sid, s)
  PROVE  /\ Held(sid) = session[sid].transcript_state
         /\ Held(sid)' = s.transcript_state
         /\ \A c : c # sid => Held(c)' = Held(c)
  <1>1. order \in Seq(SessionId) /\ Distinct(order) /\ sid \in Ids(order)
    BY DEF StoreHolds, GoodOrder, GetWith, Known
  <1>2. Ids(order') = Ids(order)
    BY <1>1, MoveToEndHolds DEF GetWith
  <1>3. session' = [session EXCEPT ![sid] = s] /\ DOMAIN session = Ids(order)
    BY DEF GetWith, StoreHolds
  <1>4. session'[sid] = s /\ \A c \in Ids(order) : c # sid => session'[c] = session[c]
    BY <1>1, <1>3
  <1>5. /\ Held(sid) = session[sid].transcript_state
        /\ Held(sid)' = s.transcript_state
    BY <1>1, <1>2, <1>4 DEF Held
  <1>6. ASSUME NEW c, c # sid
        PROVE  Held(c)' = Held(c)
    BY <1>2, <1>4, <1>6 DEF Held
  <1> QED
    BY <1>5, <1>6

\* An answered proof moves the held transcript from prev on, by two frames.
MovesOn(sid, f) ==
  /\ IsSequence(f.prev) /\ Held(sid) = f.prev /\ Len(f.prev) >= 2
  /\ \E b : Longer(Held(sid)', f.prev, f.body, b)
  /\ \A c : c # sid => Held(c)' = Held(c)

LEMMA MovesGoOn ==
  ASSUME NEW sid, NEW f, MovesOn(sid, f)
  PROVE  HeldGoOn
  <1>1. HeldGoesOn(Held(sid), Held(sid)', fresh)
    BY Zenon DEF MovesOn, HeldGoesOn
  <1>2. \A c : c # sid => HeldGoesOn(Held(c), Held(c)', fresh)
    BY DEF MovesOn, HeldGoesOn, HeldStays
  <1> QED
    BY <1>1, <1>2 DEF HeldGoOn

LEMMA AnsweredMovesOn ==
  ASSUME StoreHolds, NEW f, Known(f.body.session_id), NEW n, NEW b,
         GetWith(f.body.session_id, n),
         Answered(Addressed(f), n, f.body, b), OpensForSession(Addressed(f), f)
  PROVE  /\ MovesOn(f.body.session_id, f)
         /\ Held(f.body.session_id)' = n.transcript_state
  <1> DEFINE sid == f.body.session_id
             s == Addressed(f)
             t == s.transcript_state
  <1>1. SessionInv(sid, s) /\ session[sid] = s
    BY DEF StoreHolds, Known, Addressed
  <1>2. f.prev = t /\ s.keys # {}
    BY DEF OpensForSession, AeadOpen, Opens
  <1>3. IsSequence(t) /\ Len(t) >= 2
    BY <1>1, <1>2 DEF SessionInv, Coherent
  <1>4. n.transcript_state = Append(Append(t, f.body), b)
    BY DEF Answered
  <1>5. Longer(n.transcript_state, t, f.body, b)
    BY <1>3, <1>4, AbsorbedTwo
  <1>6. /\ Held(sid) = t /\ Held(sid)' = n.transcript_state
        /\ \A c : c # sid => Held(c)' = Held(c)
    BY <1>1, GetHeld
  <1> QED
    BY <1>2, <1>3, <1>5, <1>6, Zenon DEF MovesOn

LEMMA RefusedHeld ==
  ASSUME StoreHolds, NEW f,
         \/ UnknownSession(f)
         \/ CounterRefused(f)
         \/ CounterAccepted(f) /\ ProofRefused(f)
  PROVE  HeldStay /\ fresh' = fresh
  <1>1. CASE UnknownSession(f)
    BY <1>1 DEF UnknownSession, serverVars, HeldStay, HeldStays, Held
  <1>2. ASSUME NEW s, GetWith(f.body.session_id, s),
               s.transcript_state = session[f.body.session_id].transcript_state
        PROVE  HeldStay
    <2>1. \A c : Held(c)' = Held(c)
      BY <1>2, GetHeld
    <2> QED
      BY <2>1 DEF HeldStay, HeldStays
  <1>3. CASE CounterRefused(f)
    BY <1>2, <1>3 DEF CounterRefused, Addressed
  <1>4. CASE CounterAccepted(f) /\ ProofRefused(f)
    <2> DEFINE s == Addressed(f)
               n == Accept(s, f.body.counter)
    <2>1. /\ GetWith(f.body.session_id, n) /\ fresh' = fresh
          /\ session[f.body.session_id] = s /\ SessionInv(f.body.session_id, s)
      BY <1>4 DEF ProofRefused, CounterAccepted, Known, Addressed, StoreHolds
    <2>2. n.transcript_state = s.transcript_state
      BY <2>1 DEF SessionInv, NewSession, Accept
    <2> HIDE DEF n, s
    <2> QED
      BY <1>2, <2>1, <2>2
  <1> QED
    BY <1>1, <1>3, <1>4

LEMMA HelloHeld ==
  ASSUME StoreHolds, NEW f, f.body.session_id \in SessionId,
         f.body.counter \in Nat, HandleHello(f)
  PROVE  /\ HeldStay
         /\ HelloAnswered(f) =>
              /\ fresh' = fresh + 1
              /\ Held(f.body.session_id)' =
                   AfterHello(NewSession, f).transcript_state
         /\ HelloFailed(f) => fresh' = fresh
  <1> DEFINE sid == f.body.session_id
  <1>1. NewSession.transcript_state = <<>>
    BY DEF NewSession
  <1>2. CASE HelloAnswered(f)
    <2> DEFINE n == AfterHello(NewSession, f)
               t == n.transcript_state
    <2>1. HelloNamed(f) /\ CreateWith(sid, n) /\ fresh' = fresh + 1
      BY <1>2 DEF HelloAnswered, Draw
    <2>2. SessionInv(sid, n)
      BY <2>1, HelloHolds
    <2>3. n.server_random = Draw /\ n.server_counter = 1 /\ n.keys # {}
      BY DEF AfterHello, HelloStored, NewSession, NextServerCounter
    <2> HIDE DEF n
    <2>4. Len(t) = 2 * n.server_counter /\ n.server_random = ServerRandom(t)
      BY <2>2, <2>3 DEF SessionInv, Counted, Coherent
    <2>5. Len(t) = 2 /\ t[2].payload.server_random = fresh + 1
      BY <2>3, <2>4 DEF ServerRandom, Draw
    <2>6. HeldStay /\ Held(sid)' = t
      BY <2>1, <2>5, CreateHeld
    <2>7. ~HelloFailed(f)
      BY <1>2 DEF HelloAnswered, HelloFailed, HelloNamed, HelloAccepted,
                  HelloCounterRefused, HelloUnreadable, HelloKeyRefused
    <2> QED
      BY <2>1, <2>6, <2>7 DEF n
  <1>3. CASE HelloFailed(f)
    <2>1. PICK n : /\ CreateWith(sid, n) /\ fresh' = fresh
                   /\ n.transcript_state = <<>>
      <3>1. CASE HelloCounterRefused(f)
        BY <1>1, <3>1 DEF HelloCounterRefused
      <3>2. CASE HelloUnreadable(f)
        <4>1. Accept(NewSession, f.body.counter).transcript_state = <<>>
          BY DEF Accept, NewSession
        <4> QED
          BY <3>2, <4>1 DEF HelloUnreadable
      <3>3. CASE HelloKeyRefused(f)
        <4>1. [Accept(NewSession, f.body.counter) EXCEPT
                 !.username_norm = f.body.payload.username].transcript_state = <<>>
          BY DEF Accept, NewSession
        <4> QED
          BY <3>3, <4>1 DEF HelloKeyRefused
      <3> QED
        BY <1>3, <3>1, <3>2, <3>3 DEF HelloFailed
    <2>2. HeldStay
      BY <2>1, CreateHeld
    <2>3. ~HelloAnswered(f)
      BY <1>3 DEF HelloAnswered, HelloFailed, HelloNamed, HelloAccepted,
                  HelloCounterRefused, HelloUnreadable, HelloKeyRefused
    <2> QED
      BY <2>1, <2>2, <2>3
  <1> QED
    BY <1>2, <1>3 DEF HandleHello

LEMMA ExchangeHeld ==
  ASSUME StoreHolds, NEW f, f.body.counter \in Nat, ExchangeAnswered(f)
  PROVE  /\ fresh' = fresh + 1
         /\ MovesOn(f.body.session_id, f)
         /\ Held(f.body.session_id)' =
              AfterExchange(Addressed(f), f).transcript_state
  <1>1. /\ Known(f.body.session_id) /\ Proof1Accepted(f)
        /\ OpensForSession(Addressed(f), f)
        /\ GetWith(f.body.session_id, AfterExchange(Addressed(f), f))
        /\ fresh' = fresh + 1
    BY DEF ExchangeAnswered, Proof1Accepted, CounterAccepted, Draw
  <1>2. SessionInv(f.body.session_id, Addressed(f))
    BY <1>1 DEF StoreHolds, Known, Addressed
  <1>3. PICK b : Answered(Addressed(f), AfterExchange(Addressed(f), f), f.body, b)
    BY <1>1, <1>2, ExchangeHolds
  <1> QED
    BY <1>1, <1>3, AnsweredMovesOn

LEMMA FinalizeHeld ==
  ASSUME StoreHolds, NEW f, f.body.counter \in Nat, FinalizeAnswered(f)
  PROVE  /\ fresh' = fresh
         /\ MovesOn(f.body.session_id, f)
         /\ Held(f.body.session_id)' =
              AfterFinalize(Addressed(f), f).transcript_state
  <1>1. /\ Known(f.body.session_id) /\ Proof2Accepted(f)
        /\ OpensForSession(Addressed(f), f)
        /\ GetWith(f.body.session_id, AfterFinalize(Addressed(f), f))
        /\ fresh' = fresh
    BY DEF FinalizeAnswered, Proof2Accepted, CounterAccepted
  <1>2. SessionInv(f.body.session_id, Addressed(f))
    BY <1>1 DEF StoreHolds, Known, Addressed
  <1>3. PICK b : Answered(Addressed(f), AfterFinalize(Addressed(f), f), f.body, b)
    BY <1>1, <1>2, FinalizeHolds
  <1> QED
    BY <1>1, <1>3, AnsweredMovesOn
-----------------------------------------------------------------------------
(***************************************************************************)
(* One more answer.                                                        *)
(***************************************************************************)
LEMMA OnceExchanged ==
  ASSUME NEW t, IsSequence(t), Len(t) >= 3, NEW h, h = SubSeq(t, 1, 2),
         NEW k, NEW a, NEW b, Longer(k, h, a, b),
         NEW x, NEW y, NEW n, NEW last, Once(t, h, x, y, n), Once(t, k, x, y, last)
  PROVE  Once(t, k, x + 1, y, last)
  <1>1. Len(t) \in Nat
    BY DEF IsSequence
  <1>2. Len(h) = 2
    BY <1>1, Beginning
  <1>3. Len(k) = 4
    BY <1>2 DEF Longer
  <1>4. x = 0 /\ y = 0
    BY Zenon DEF Once
  <1>5. k # SubSeq(t, 1, 2)
    <2>1. Len(k) # Len(h)
      BY <1>2, <1>3
    <2> QED
      BY <2>1, Zenon
  <1>6. x + 1 = 1
    BY <1>4
  <1>7. Len(t) >= 2 => t[2].payload.server_random \in 0 .. last
    BY Zenon DEF Once
  <1> QED
    BY <1>4, <1>5, <1>6, <1>7, Zenon DEF Once

LEMMA OnceFinalized ==
  ASSUME NEW t, IsSequence(t), Len(t) >= 5, NEW h, h = SubSeq(t, 1, 4),
         NEW k, NEW a, NEW b, Longer(k, h, a, b),
         NEW x, NEW y, NEW n, NEW last, Once(t, h, x, y, n), Once(t, k, x, y, last)
  PROVE  Once(t, k, x, y + 1, last)
  <1>1. Len(t) \in Nat
    BY DEF IsSequence
  <1>2. Len(h) = 4 /\ Len(SubSeq(t, 1, 2)) = 2
    BY <1>1, Beginning
  <1>3. Len(k) = 6
    BY <1>2 DEF Longer
  <1>4. y = 0
    BY Zenon DEF Once
  <1>5. k # SubSeq(t, 1, 2) /\ k # SubSeq(t, 1, 4)
    <2> DEFINE w == SubSeq(t, 1, 2)
    <2>1. Len(w) = 2
      BY <1>2
    <2> HIDE DEF w
    <2>2. k # w
      <3>1. Len(k) # Len(w)
        BY <1>3, <2>1
      <3> QED
        BY <3>1, Zenon
    <2>3. k # h
      <3>1. Len(k) # Len(h)
        BY <1>2, <1>3
      <3> QED
        BY <3>1, Zenon
    <2> QED
      BY <2>2, <2>3, Zenon DEF w
  <1>6. y + 1 = 1
    BY <1>4
  <1>7. /\ Len(t) >= 2 => t[2].payload.server_random \in 0 .. last
        /\ x # 0 => x = 1 /\ Len(t) >= 3 /\ k # SubSeq(t, 1, 2)
    BY Zenon DEF Once
  <1> QED
    BY <1>5, <1>6, <1>7, Zenon DEF Once

\* Every run while the server takes a step and answers none of its proofs.
LEMMA OnceHeld ==
  ASSUME SystemInv, OnceInv, HeldGoOn, client' = client,
         fresh' \in Nat, fresh <= fresh', NEW c \in Client
  PROVE  Once(client'[c].t, Held(c)', answered[<<c, "exchange">>],
              answered[<<c, "finalize">>], fresh')
  <1>1. IsSequence(client[c].t)
    BY DEF SystemInv, RunsHold, RunHolds
  <1>2. IsSequence(Held(c))
    <2>1. CASE c \in Ids(order)
      BY <2>1 DEF SystemInv, ServerInv, StoreHolds, SessionInv, Held
    <2>2. CASE c \notin Ids(order)
      <3>1. <<>> \in Seq({})
        OBVIOUS
      <3> QED
        BY <2>2, <3>1 DEF Held, IsSequence
    <2> QED
      BY <2>1, <2>2
  <1>3. /\ Once(client[c].t, Held(c), answered[<<c, "exchange">>],
                answered[<<c, "finalize">>], fresh)
        /\ fresh \in Nat
    BY Zenon DEF OnceInv
  <1>4. HeldGoesOn(Held(c), Held(c)', fresh)
    BY Zenon DEF HeldGoOn
  <1> DEFINE t == client[c].t
             h == Held(c)
             k == Held(c)'
             x == answered[<<c, "exchange">>]
             y == answered[<<c, "finalize">>]
  <1>5. client'[c].t = t
    OBVIOUS
  <1> HIDE DEF t, h, k, x, y
  <1>6. Once(t, k, x, y, fresh')
    BY <1>1, <1>2, <1>3, <1>4, OnceKept DEF t, h, k, x, y
  <1> QED
    BY <1>5, <1>6, Zenon DEF k, x, y

LEMMA AnswerCounted ==
  ASSUME OnceInv, NEW m, m.client \in Client, m.path \in Paths, NEW f,
         Answer(m, f)
  PROVE  /\ DOMAIN answered' = Client \X Paths
         /\ answered'[<<m.client, m.path>>] = answered[<<m.client, m.path>>] + 1
         /\ \A c \in Client, path \in Paths :
              ~(c = m.client /\ path = m.path) =>
                answered'[<<c, path>>] = answered[<<c, path>>]
  BY DEF OnceInv, Answer

LEMMA ReplyDrawn ==
  ASSUME OnceInv, NEW m, NEW f, Reply(m, f), DrawnBy(f, fresh'),
         fresh' \in Nat, fresh <= fresh'
  PROVE  \A x \in replies' : DrawnBy(x.frame, fresh')
  <1> DEFINE y == [client |-> m.client, path |-> m.path, frame |-> f]
  <1>1. replies' \subseteq replies \cup {y} /\ y.frame = f
    BY DEF Reply
  <1>2. ASSUME NEW x \in replies
        PROVE  DrawnBy(x.frame, fresh')
    <2>1. DrawnBy(x.frame, fresh) /\ fresh \in Nat
      BY DEF OnceInv
    <2> QED
      BY <2>1 DEF DrawnBy
  <1> HIDE DEF y
  <1> QED
    BY <1>1, <1>2
-----------------------------------------------------------------------------
(***************************************************************************)
(* The steps of the system.                                                *)
(***************************************************************************)
LEMMA ServedOnce ==
  ASSUME SystemInv, OwnedInv, OnceInv, NEW m \in requests, Routed(m),
         client' = client
  PROVE  OnceInv'
  <1> DEFINE f == m.frame
             c == m.client
             t == client[c].t
             h == Held(c)
             k == Held(c)'
             x == answered[<<c, "exchange">>]
             y == answered[<<c, "finalize">>]
  <1>1. /\ StoreHolds /\ f.body.session_id \in SessionId /\ f.body.counter \in Nat
        /\ c \in Client /\ m.path \in Paths /\ fresh \in Nat
        /\ IsSequence(t) /\ DOMAIN answered = Client \X Paths
    BY DEF SystemInv, ServerInv, RequestsHold, RequestHolds, RunsHold, RunHolds,
           OwnedInv, Addresses, OnceInv
  <1>2. ASSUME HeldGoOn, fresh' = fresh \/ fresh' = fresh + 1
        PROVE  /\ fresh' \in Nat /\ fresh <= fresh'
               /\ \A d \in Client :
                    Once(client'[d].t, Held(d)', answered[<<d, "exchange">>],
                         answered[<<d, "finalize">>], fresh')
    <2>1. fresh' \in Nat /\ fresh <= fresh'
      BY <1>1, <1>2
    <2> QED
      BY <1>2, <2>1, OnceHeld
  <1>3. CASE Reject(m) /\ HeldGoOn /\ fresh' = fresh
    <2>1. DrawnBy(GenericError, fresh')
      BY DEF GenericError, Unparsable, PlainSeal, SealFrame, DrawnBy
    <2>2. Reply(m, GenericError) /\ answered' = answered
      BY <1>3 DEF Reject
    <2> QED
      BY <1>1, <1>2, <1>3, <2>1, <2>2, ReplyDrawn DEF OnceInv
  <1>4. ASSUME NEW g, Answer(m, g), DrawnBy(g, fresh'), HeldGoOn,
               fresh' = fresh \/ fresh' = fresh + 1,
               m.path = "exchange" => Once(t, k, x + 1, y, fresh'),
               m.path = "finalize" => Once(t, k, x, y + 1, fresh')
        PROVE  OnceInv'
    <2>1. /\ DOMAIN answered' = Client \X Paths
          /\ answered'[<<c, m.path>>] = answered[<<c, m.path>>] + 1
          /\ \A d \in Client, path \in Paths :
               ~(d = c /\ path = m.path) =>
                 answered'[<<d, path>>] = answered[<<d, path>>]
      BY <1>1, <1>4, AnswerCounted
    <2>2. /\ fresh' \in Nat /\ fresh <= fresh'
          /\ \A d \in Client :
               Once(client'[d].t, Held(d)', answered[<<d, "exchange">>],
                    answered[<<d, "finalize">>], fresh')
      BY <1>2, <1>4
    <2>3. \A z \in replies' : DrawnBy(z.frame, fresh')
      BY <1>4, <2>2, ReplyDrawn DEF Answer
    <2>4. ASSUME NEW d \in Client
          PROVE  Once(client'[d].t, Held(d)', answered'[<<d, "exchange">>],
                      answered'[<<d, "finalize">>], fresh')
      <3>1. "exchange" \in Paths /\ "finalize" \in Paths
        BY DEF Paths
      <3>2. CASE d # c \/ m.path = "hello"
        <4>1. /\ answered'[<<d, "exchange">>] = answered[<<d, "exchange">>]
              /\ answered'[<<d, "finalize">>] = answered[<<d, "finalize">>]
          BY <2>1, <3>1, <3>2, Zenon
        <4> QED
          BY <2>2, <4>1, Zenon
      <3>3. CASE d = c /\ m.path = "exchange"
        <4>1. /\ answered'[<<d, "exchange">>] = x + 1
              /\ answered'[<<d, "finalize">>] = y
          BY <2>1, <3>1, <3>3, Zenon
        <4>2. client'[d].t = t /\ Held(d)' = k
          BY <3>3, Zenon
        <4> HIDE DEF t, k, x, y, c
        <4> QED
          BY <1>4, <3>3, <4>1, <4>2, Zenon
      <3>4. CASE d = c /\ m.path = "finalize"
        <4>1. /\ answered'[<<d, "exchange">>] = x
              /\ answered'[<<d, "finalize">>] = y + 1
          BY <2>1, <3>1, <3>4, Zenon
        <4>2. client'[d].t = t /\ Held(d)' = k
          BY <3>4, Zenon
        <4> HIDE DEF t, k, x, y, c
        <4> QED
          BY <1>4, <3>4, <4>1, <4>2, Zenon
      <3> QED
        BY <1>1, <3>2, <3>3, <3>4 DEF Paths
    <2> QED
      BY <2>1, <2>2, <2>3, <2>4 DEF OnceInv
  <1>5. CASE Misdirected(m) /\ Reject(m) /\ UNCHANGED serverVars
    <2>1. HeldGoOn /\ fresh' = fresh
      BY <1>5, StayGoOn DEF serverVars, HeldStay, HeldStays, Held
    <2> QED
      BY <1>3, <1>5, <2>1
  <1>6. CASE m.path = "hello" /\ HelloFailed(f) /\ Reject(m)
    <2>1. HeldGoOn /\ fresh' = fresh
      BY <1>1, <1>6, HelloHeld, StayGoOn DEF HandleHello
    <2> QED
      BY <1>3, <1>6, <2>1
  <1>7. CASE m.path = "hello" /\ HelloAnswered(f) /\ Answer(m, Challenge(m))
    <2>1. HeldGoOn /\ fresh' = fresh + 1
      BY <1>1, <1>7, HelloHeld, StayGoOn DEF HandleHello
    <2>2. DrawnBy(Challenge(m), fresh')
      <3>1. Challenge(m).body.payload.server_random = fresh + 1
        BY DEF Challenge, ServerChallenge, PlainSeal, SealFrame, Draw
      <3> QED
        BY <1>1, <2>1, <3>1 DEF DrawnBy
    <2> QED
      BY <1>4, <1>7, <2>1, <2>2
  <1>8. CASE m.path = "exchange" /\ ExchangeFailed(f) /\ Reject(m)
    <2>1. HeldGoOn /\ fresh' = fresh
      BY <1>1, <1>8, RefusedHeld, StayGoOn DEF ExchangeFailed, ExchangeRefused
    <2> QED
      BY <1>3, <1>8, <2>1
  <1>9. CASE m.path = "finalize" /\ FinalizeFailed(f) /\ Reject(m)
    <2>1. HeldGoOn /\ fresh' = fresh
      BY <1>1, <1>9, RefusedHeld, StayGoOn DEF FinalizeFailed, FinalizeRefused
    <2> QED
      BY <1>3, <1>9, <2>1
  <1>10. CASE m.path = "exchange" /\ ExchangeAnswered(f) /\ Answer(m, Proof(m))
    <2>1. /\ HeldGoOn /\ fresh' = fresh + 1
          /\ MovesOn(f.body.session_id, f) /\ f.intact
      BY <1>1, <1>10, ExchangeHeld, MovesGoOn
      DEF ExchangeAnswered, Proof1Accepted, OpensForSession, AeadOpen, Opens
    <2>2. Carries(m, t)
      BY <2>1 DEF OwnedInv
    <2>3. f.body.session_id = c /\ Len(t) >= 3 /\ f.prev = SubSeq(t, 1, 2)
      BY <1>10, <2>2, Zenon DEF Carries
    <2>4. h = SubSeq(t, 1, 2) /\ \E a, b : Longer(k, h, a, b)
      BY <2>1, <2>3, Zenon DEF MovesOn
    <2>5. Once(t, h, x, y, fresh) /\ Once(t, k, x, y, fresh')
      <3>1. client'[c].t = t
        OBVIOUS
      <3>2. Once(client'[c].t, k, x, y, fresh')
        BY <1>1, <1>2, <2>1, Zenon
      <3>3. Once(t, h, x, y, fresh)
        BY <1>1, Zenon DEF OnceInv
      <3> QED
        BY <3>1, <3>2, <3>3, Zenon
    <2>6. DrawnBy(Proof(m), fresh')
      BY DEF DrawnBy, Proof, ServerProof, AeadSeal, SealFrame
    <2> HIDE DEF f, c, t, h, k, x, y
    <2>7. Once(t, k, x + 1, y, fresh')
      BY <1>1, <2>3, <2>4, <2>5, OnceExchanged
    <2> QED
      BY <1>4, <1>10, <2>1, <2>6, <2>7
  <1>11. CASE m.path = "finalize" /\ FinalizeAnswered(f) /\ Answer(m, Flag(m))
    <2>1. /\ HeldGoOn /\ fresh' = fresh
          /\ MovesOn(f.body.session_id, f) /\ f.intact
      BY <1>1, <1>11, FinalizeHeld, MovesGoOn
      DEF FinalizeAnswered, Proof2Accepted, OpensForSession, AeadOpen, Opens
    <2>2. Carries(m, t)
      BY <2>1 DEF OwnedInv
    <2>3. f.body.session_id = c /\ Len(t) >= 5 /\ f.prev = SubSeq(t, 1, 4)
      BY <1>11, <2>2, Zenon DEF Carries
    <2>4. h = SubSeq(t, 1, 4) /\ \E a, b : Longer(k, h, a, b)
      BY <2>1, <2>3, Zenon DEF MovesOn
    <2>5. Once(t, h, x, y, fresh) /\ Once(t, k, x, y, fresh')
      <3>1. client'[c].t = t
        OBVIOUS
      <3>2. Once(client'[c].t, k, x, y, fresh')
        BY <1>1, <1>2, <2>1, Zenon
      <3>3. Once(t, h, x, y, fresh)
        BY <1>1, Zenon DEF OnceInv
      <3> QED
        BY <3>1, <3>2, <3>3, Zenon
    <2>6. DrawnBy(Flag(m), fresh')
      BY DEF DrawnBy, Flag, SealedFlag, AeadSeal, SealFrame
    <2> HIDE DEF f, c, t, h, k, x, y
    <2>7. Once(t, k, x, y + 1, fresh')
      BY <1>1, <2>3, <2>4, <2>5, OnceFinalized
    <2> QED
      BY <1>4, <1>11, <2>1, <2>6, <2>7
  <1> QED
    BY <1>5, <1>6, <1>7, <1>8, <1>9, <1>10, <1>11 DEF Routed

\* The random a run works with is one the server drew.
LEMMA ClientDrawn ==
  ASSUME SystemInv, OwnedInv, OnceInv, NEW c \in Client,
         ClientStep(c) \/ HttpFails(c), Prefix(client[c].t, client'[c].t)
  PROVE  Len(client'[c].t) >= 2 =>
           client'[c].t[2].payload.server_random \in 0 .. fresh
  <1> DEFINE r == client[c]
             t == r.t
             u == client'[c].t
  <1>1. RunsHold /\ RunHolds(c, r, issued) /\ IsSequence(t) /\ Len(t) \in Nat
    BY DEF SystemInv, RunsHold, RunHolds, IsSequence
  <1>2. /\ Len(t) >= 2 => t[2].payload.server_random \in 0 .. fresh
        /\ fresh \in Nat
    BY DEF OnceInv, Once
  <1>3. CASE Len(t) >= 2
    <2>1. u[2] = t[2]
      BY <1>1, <1>3 DEF Prefix
    <2> QED
      BY <1>2, <1>3, <2>1
  <1>4. CASE u = t
    BY <1>2, <1>4
  <1>5. CASE Start(c)
    <2>1. t = <<>> /\ Moves(c, "hello", After(HelloFrame(c)))
      BY <1>1, <1>5 DEF Start, SendsHello, RunHolds
    <2>2. u = After(HelloFrame(c))
      BY <1>1, <2>1, MovedRun
    <2>3. After(HelloFrame(c)) = Append(t, HelloFrame(c).body)
      BY <2>1 DEF HelloFrame, PlainSeal, SealFrame, After, Absorb, Transcript0
    <2>4. LongerByOne(u, t, HelloFrame(c).body)
      BY <1>1, <2>2, <2>3, AbsorbedOne
    <2>5. Len(t) = 0
      BY <2>1
    <2>6. Len(u) = 1
      BY <2>4, <2>5 DEF LongerByOne
    <2> QED
      BY <2>6
  <1>6. ASSUME IsDenied(c) \/ LicenseUnreadable(c)
        PROVE  u = t
    <2>1. Moves(c, "denied", t)
      BY <1>1, <1>6 DEF IsDenied, LicenseUnreadable, RunHolds, Transcript0
    <2> QED
      BY <1>1, <2>1, MovedRun
  <1>7. ASSUME NEW m \in replies, Receive(c, m)
        PROVE  Len(u) >= 2 => u[2].payload.server_random \in 0 .. fresh
    <2> DEFINE f == m.frame
               g == Proof1Frame(c, After(f))
    <2>1. CASE SendsProof1(c, f)
      <3>1. /\ r.stage = "hello" /\ f.intact /\ f.body.layer = "plain"
            /\ f.prev = t /\ Moves(c, "exchange", After(g))
        BY <2>1 DEF SendsProof1, ChallengeAccepted, PlainOpen, Opens
      <3>2. After(f) = Append(t, f.body) /\ After(g) = Append(After(f), g.body)
        BY <3>1 DEF Proof1Frame, Seals, AeadSeal, SealFrame, After, Absorb
      <3>3. u = Append(Append(t, f.body), g.body)
        <4>1. u = After(g)
          BY <1>1, <3>1, MovedRun
        <4> HIDE DEF g, f, t, u
        <4> QED
          BY <3>2, <4>1, Zenon
      <3>4. Len(t) = 1
        BY <1>1, <3>1 DEF RunHolds
      <3>5. f.body.payload.server_random \in 0 .. fresh
        BY <3>1 DEF OnceInv, DrawnBy
      <3> HIDE DEF f, g, t, u
      <3>6. Longer(u, t, f.body, g.body)
        BY <1>1, <3>3, AbsorbedTwo
      <3>7. u[2] = f.body
        BY <3>4, <3>6 DEF Longer
      <3> QED
        BY <3>5, <3>7
    <2>2. CASE SendsProof2(c, f) \/ IsGranted(c, f)
      <3>1. r.stage \in {"exchange", "finalize"}
        BY <2>2 DEF SendsProof2, ServerProofAccepted, IsGranted, FlagAccepted
      <3>2. Len(t) = 3 \/ Len(t) = 5
        BY <1>1, <3>1, Zenon DEF RunHolds
      <3>3. Len(t) >= 2
        <4> DEFINE n == Len(t)
        <4>1. n = 3 \/ n = 5
          BY <3>2, Zenon
        <4> HIDE DEF n
        <4>2. n >= 2
          BY <4>1
        <4> QED
          BY <4>2 DEF n
      <3> QED
        BY <1>3, <3>3
    <2>3. CASE IsDenied(c)
      BY <1>4, <1>6, <2>3
    <2> QED
      BY <1>7, <2>1, <2>2, <2>3 DEF Receive
  <1>8. CASE Refuse(c) \/ GiveUp(c) \/ HttpFails(c)
    BY <1>4, <1>6, <1>8 DEF Refuse, GiveUp, HttpFails
  <1> QED
    BY <1>5, <1>7, <1>8 DEF ClientStep

LEMMA ClientOnce ==
  ASSUME SystemInv, OwnedInv, OnceInv, NEW c \in Client,
         ClientStep(c) \/ HttpFails(c)
  PROVE  OnceInv'
  <1>1. /\ RunGoesOn(c) /\ UNCHANGED <<serverVars, answered>>
        /\ replies' \subseteq replies
    BY ClientStepShape DEF ClientStepIs
  <1>2. Prefix(client[c].t, client'[c].t)
    BY <1>1 DEF RunGoesOn
  <1>3. fresh' = fresh /\ answered' = answered /\ \A d : Held(d)' = Held(d)
    BY <1>1 DEF serverVars, Held
  <1>4. ASSUME NEW d \in Client
        PROVE  Once(client'[d].t, Held(d), answered[<<d, "exchange">>],
                    answered[<<d, "finalize">>], fresh)
    <2>1. Once(client[d].t, Held(d), answered[<<d, "exchange">>],
               answered[<<d, "finalize">>], fresh)
      BY Zenon DEF OnceInv
    <2>2. CASE d = c
      <3>1. Len(client'[c].t) >= 2 =>
              client'[c].t[2].payload.server_random \in 0 .. fresh
        BY <1>2, ClientDrawn
      <3> DEFINE t == client[c].t
                 u == client'[c].t
                 h == Held(c)
                 x == answered[<<c, "exchange">>]
                 y == answered[<<c, "finalize">>]
      <3>2. Once(t, h, x, y, fresh)
        BY <2>1, <2>2, Zenon
      <3> HIDE DEF t, u, h, x, y
      <3>3. Once(u, h, x, y, fresh)
        BY <1>2, <3>1, <3>2, OnceGrows DEF t, u
      <3> QED
        BY <2>2, <3>3, Zenon DEF u, h, x, y
    <2>3. CASE d # c
      <3>1. client'[d] = client[d]
        BY <1>1, <2>3 DEF RunGoesOn
      <3> QED
        BY <2>1, <3>1, Zenon
    <2> QED
      BY <2>2, <2>3
  <1>5. \A m \in replies' : DrawnBy(m.frame, fresh)
    BY <1>1 DEF OnceInv
  <1>6. fresh' \in Nat /\ DOMAIN answered' = Client \X Paths
    BY <1>3 DEF OnceInv
  <1>7. \A m \in replies' : DrawnBy(m.frame, fresh')
    BY <1>3, <1>5
  <1>8. ASSUME NEW d \in Client
        PROVE  Once(client'[d].t, Held(d)', answered'[<<d, "exchange">>],
                    answered'[<<d, "finalize">>], fresh')
    BY <1>3, <1>4, Zenon
  <1> QED
    BY <1>6, <1>7, <1>8 DEF OnceInv

\* What the network and a restart do.
LEMMA QuietOnce ==
  ASSUME SystemInv, OnceInv, HeldGoOn, UNCHANGED <<client, answered, fresh>>,
         \A m \in replies' : DrawnBy(m.frame, fresh)
  PROVE  OnceInv'
  <1>1. fresh \in Nat /\ fresh' \in Nat /\ fresh <= fresh'
    BY DEF OnceInv
  <1>2. \A c \in Client :
          Once(client'[c].t, Held(c)', answered[<<c, "exchange">>],
               answered[<<c, "finalize">>], fresh')
    BY <1>1, OnceHeld
  <1> QED
    BY <1>1, <1>2 DEF OnceInv

LEMMA NetworkOnce ==
  ASSUME SystemInv, OwnedInv, OnceInv,
         Network \/ (\E m \in requests : Serve(m)) \/ UNCHANGED vars,
         \A c \in Client : ~HttpFails(c)
  PROVE  OnceInv'
  <1>1. \A m \in replies : DrawnBy(m.frame, fresh)
    BY DEF OnceInv
  <1>2. UNCHANGED serverVars => HeldGoOn
    BY StayGoOn DEF serverVars, HeldStay, HeldStays, Held
  <1>3. ASSUME NEW m \in requests, Serve(m) \/ ServeAgain(m)
        PROVE  OnceInv'
    BY <1>3, ServedOnce DEF Serve, ServeAgain
  <1>4. CASE RestartServer
    <2>1. HeldGoOn
      BY <1>4, StayGoOn DEF RestartServer, Restart, HeldStay, HeldStays, Held, Ids
    <2> QED
      BY <1>1, <1>4, <2>1, QuietOnce DEF RestartServer, Restart
  <1>5. ASSUME NEW m \in requests, LoseRequest(m) \/ GarbleRequest(m)
        PROVE  OnceInv'
    <2>1. UNCHANGED <<serverVars, client, replies, answered>>
      BY <1>5 DEF LoseRequest, GarbleRequest
    <2> QED
      BY <1>1, <1>2, <2>1, QuietOnce DEF serverVars
  <1>6. ASSUME NEW m \in replies, LoseReply(m)
        PROVE  OnceInv'
    <2>1. UNCHANGED <<serverVars, client, answered>> /\ replies' \subseteq replies
      BY <1>6 DEF LoseReply
    <2> QED
      BY <1>1, <1>2, <2>1, QuietOnce DEF serverVars
  <1>7. ASSUME NEW m \in replies, GarbleReply(m)
        PROVE  OnceInv'
    <2> DEFINE y == [m EXCEPT !.frame = Unparsable(m.frame)]
    <2>1. ReplyHolds(m, issued)
      BY DEF SystemInv, RepliesHold
    <2>2. y.frame.intact = FALSE
      BY <2>1 DEF ReplyHolds, MessageFields, FrameShape, Unparsable
    <2>3. /\ UNCHANGED <<serverVars, client, answered>>
          /\ replies' = (replies \ {m}) \cup {y}
      BY <1>7 DEF GarbleReply
    <2> HIDE DEF y
    <2>4. \A x \in replies' : DrawnBy(x.frame, fresh)
      BY <1>1, <2>2, <2>3 DEF DrawnBy
    <2> QED
      BY <1>2, <2>3, <2>4, QuietOnce DEF serverVars
  <1>8. CASE UNCHANGED vars
    BY <1>1, <1>2, <1>8, QuietOnce DEF vars, netVars, serverVars
  <1> QED
    BY <1>3, <1>4, <1>5, <1>6, <1>7, <1>8 DEF Network

LEMMA OnceInit == Init => OnceInv
  <1> SUFFICES ASSUME Init PROVE OnceInv
    OBVIOUS
  <1>1. /\ fresh = 0 /\ replies = {}
        /\ answered = [r \in Client \X Paths |-> 0]
    BY DEF Init, ServerInit
  <1>2. ASSUME NEW c \in Client
        PROVE  /\ client[c].t = <<>>
               /\ answered[<<c, "exchange">>] = 0
               /\ answered[<<c, "finalize">>] = 0
    <2>1. client[c].t = <<>>
      BY DEF Init, ClientInit, Transcript0
    <2>2. <<c, "exchange">> \in Client \X Paths /\ <<c, "finalize">> \in Client \X Paths
      BY DEF Paths
    <2> QED
      BY <1>1, <2>1, <2>2
  <1>3. ASSUME NEW c \in Client
        PROVE  Once(client[c].t, Held(c), answered[<<c, "exchange">>],
                    answered[<<c, "finalize">>], fresh)
    <2>1. ~(Len(client[c].t) >= 2)
      <3> DEFINE t == client[c].t
      <3>1. t = <<>>
        BY <1>2
      <3> HIDE DEF t
      <3>2. ~(Len(t) >= 2)
        BY <3>1
      <3> QED
        BY <3>2 DEF t
    <2> QED
      BY <1>2, <2>1, Zenon DEF Once
  <1> QED
    BY <1>1, <1>3 DEF OnceInv

LEMMA OnceStep == SystemInv /\ OwnedInv /\ OnceInv /\ [Next]_vars => OnceInv'
  <1> SUFFICES ASSUME SystemInv, OwnedInv, OnceInv, [Next]_vars
               PROVE  OnceInv'
    OBVIOUS
  <1>1. ASSUME NEW c \in Client, ClientStep(c) \/ HttpFails(c)
        PROVE  OnceInv'
    BY <1>1, ClientOnce
  <1>2. CASE Network \/ (\E m \in requests : Serve(m)) \/ UNCHANGED vars
    BY <1>1, <1>2, NetworkOnce
  <1> QED
    BY <1>1, <1>2 DEF Next

\* "replay / reorder protection" (server/app/sessions.py): whatever the network
\* repeats, garbles or delays, whatever the store evicts and however often the
\* server restarts, each proof of a run is accepted at most once.
THEOREM SystemAnswersOnce == Spec => []ProofsAnsweredOnce
  <1>1. OnceInv => ProofsAnsweredOnce
    <2> SUFFICES ASSUME OnceInv, NEW c \in Client
                 PROVE  /\ answered[<<c, "exchange">>] <= 1
                        /\ answered[<<c, "finalize">>] <= 1
      BY DEF ProofsAnsweredOnce
    <2>1. /\ answered[<<c, "exchange">>] # 0 => answered[<<c, "exchange">>] = 1
          /\ answered[<<c, "finalize">>] # 0 => answered[<<c, "finalize">>] = 1
      BY Zenon DEF OnceInv, Once
    <2> QED
      BY <2>1
  <1> QED
    BY <1>1, SystemAlways, OwnedInit, OwnedStep, OnceInit, OnceStep, PTL DEF Spec
-----------------------------------------------------------------------------
(***************************************************************************)
(* The two transcripts of a handshake go in step: while the server holds   *)
(* the handshake a run is in, neither end is more than the frame in        *)
(* transit ahead of the other.  It rests on the replies on their way: as   *)
(* long as the server holds the handshake of a reply its run has not read, *)
(* it holds exactly what the run will have when it reads it.               *)
(***************************************************************************)

\* When h is of the handshake of w, it is w.
Latest(w, h) == Len(h) >= 2 /\ Salt(h) = Salt(w) => h = w

\* When h is of the handshake of t, one is the other with at most a frame more.
Near(t, h) ==
  Len(t) >= 2 /\ Len(h) >= 2 /\ Salt(h) = Salt(t) =>
    /\ \A i \in 1 .. Len(t) : i <= Len(h) => t[i] = h[i]
    /\ Len(t) <= Len(h) + 1 /\ Len(h) <= Len(t) + 1

\* The reply m would be the next frame of transcript t.
Awaited(m, t) == m.frame.intact /\ m.frame.prev = t /\ Len(t) >= 1

StepInv ==
  /\ \A c \in Client : Near(client[c].t, Held(c))
  /\ \A m \in replies :
       m.client \in Client /\ Awaited(m, client[m.client].t) =>
         Latest(After(m.frame), Held(m.client))
-----------------------------------------------------------------------------
(***************************************************************************)
(* Transcripts of one handshake, and of another.                           *)
(***************************************************************************)
LEMMA SaltIs ==
  ASSUME NEW t, IsSequence(t), Len(t) >= 2
  PROVE  Len(Salt(t)) = 2 /\ Salt(t)[1] = t[1] /\ Salt(t)[2] = t[2]
  <1>1. /\ SubSeq(t, 1, 2) = [i \in 1 .. 2 |-> t[i]]
        /\ Len(SubSeq(t, 1, 2)) = 2
    BY Beginning DEF IsSequence
  <1> QED
    BY <1>1 DEF Salt

\* A handshake that begins is none a run or a reply knows.
LEMMA OtherHandshake ==
  ASSUME NEW t, IsSequence(t), Len(t) >= 2, NEW k, IsSequence(k), Len(k) >= 2,
         NEW n \in Nat, t[2].payload.server_random \in 0 .. n,
         k[2].payload.server_random = n + 1
  PROVE  Salt(k) # Salt(t)
  <1>1. Salt(k)[2] = k[2] /\ Salt(t)[2] = t[2]
    BY SaltIs
  <1>2. k[2] # t[2]
    BY DEF IsSequence
  <1> QED
    BY <1>1, <1>2, Zenon

LEMMA NearKept ==
  ASSUME NEW t, IsSequence(t), NEW h, NEW k, IsSequence(k), NEW n \in Nat,
         Near(t, h), HeldStays(h, k, n),
         Len(t) >= 2 => t[2].payload.server_random \in 0 .. n
  PROVE  Near(t, k)
  <1>1. CASE k = h
    BY <1>1
  <1>2. CASE k = <<>>
    <2>1. ~(Len(k) >= 2)
      BY <1>2
    <2> QED
      BY <2>1, Zenon DEF Near
  <1>3. CASE Len(k) = 2 /\ k[2].payload.server_random = n + 1
    <2>1. ASSUME Len(t) >= 2
          PROVE  Salt(k) # Salt(t)
      <3>1. Len(k) >= 2 /\ k[2].payload.server_random = n + 1
        BY <1>3
      <3>2. t[2].payload.server_random \in 0 .. n
        BY <2>1
      <3> QED
        BY <2>1, <3>1, <3>2, OtherHandshake
    <2> QED
      BY <2>1, Zenon DEF Near
  <1> QED
    BY <1>1, <1>2, <1>3 DEF HeldStays

LEMMA LatestKept ==
  ASSUME NEW w, IsSequence(w), Len(w) >= 2, NEW h, NEW k, IsSequence(k),
         NEW n \in Nat, Latest(w, h), HeldStays(h, k, n),
         w[2].payload.server_random \in 0 .. n
  PROVE  Latest(w, k)
  <1>1. CASE k = h
    BY <1>1
  <1>2. CASE k = <<>>
    <2>1. ~(Len(k) >= 2)
      BY <1>2
    <2> QED
      BY <2>1, Zenon DEF Latest
  <1>3. CASE Len(k) = 2 /\ k[2].payload.server_random = n + 1
    <2>1. Salt(k) # Salt(w)
      <3>1. Len(k) >= 2 /\ k[2].payload.server_random = n + 1
        BY <1>3
      <3> QED
        BY <3>1, OtherHandshake
    <2> QED
      BY <2>1, Zenon DEF Latest
  <1> QED
    BY <1>1, <1>2, <1>3 DEF HeldStays

\* The run that reads the latest reply is at most its next request ahead.
LEMMA NearLatest ==
  ASSUME NEW w, IsSequence(w), Len(w) >= 2, NEW h, Latest(w, h),
         NEW u, NEW a, u = w \/ LongerByOne(u, w, a)
  PROVE  Near(u, h)
  <1>1. Len(w) \in Nat
    BY DEF IsSequence
  <1>2. CASE u = w
    <2>1. SUFFICES ASSUME h = w
                   PROVE  /\ \A i \in 1 .. Len(u) : i <= Len(h) => u[i] = h[i]
                          /\ Len(u) <= Len(h) + 1 /\ Len(h) <= Len(u) + 1
      BY <1>2, Zenon DEF Latest, Near
    <2> QED
      BY <1>1, <1>2, <2>1
  <1>3. CASE LongerByOne(u, w, a)
    <2>1. /\ IsSequence(u) /\ Len(u) = Len(w) + 1
          /\ \A i \in 1 .. Len(w) : u[i] = w[i]
      BY <1>3 DEF LongerByOne
    <2>2. Salt(u) = Salt(w)
      BY <1>1, <2>1, SameSalt
    <2>3. SUFFICES ASSUME h = w
                   PROVE  /\ \A i \in 1 .. Len(u) : i <= Len(h) => u[i] = h[i]
                          /\ Len(u) <= Len(h) + 1 /\ Len(h) <= Len(u) + 1
      BY <2>2, Zenon DEF Latest, Near
    <2>4. Len(h) = Len(w) /\ \A i \in 1 .. Len(w) : u[i] = h[i]
      BY <2>1, <2>3
    <2> QED
      BY <1>1, <2>1, <2>4
  <1> QED
    BY <1>2, <1>3

\* The server goes on from h to k by frame j + 1 of the run and an answer.
GoesOnBy(t, j, h, k) ==
  /\ IsSequence(t) /\ j \in {2, 4} /\ Len(t) >= j + 1
  /\ h = SubSeq(t, 1, j)
  /\ \E b : Longer(k, h, t[j + 1], b)

\* The server accepts the frame the run is ahead by.
LEMMA NearAnswered ==
  ASSUME NEW t, NEW j, NEW h, NEW k, GoesOnBy(t, j, h, k), Near(t, h)
  PROVE  /\ Near(t, k)
         /\ Len(h) = j /\ Salt(k) = Salt(h)
  <1>0. PICK b : /\ IsSequence(t) /\ j \in {2, 4} /\ Len(t) >= j + 1
                 /\ h = SubSeq(t, 1, j) /\ Longer(k, h, t[j + 1], b)
    BY DEF GoesOnBy
  <1>1. /\ Len(t) \in Nat /\ j \in Nat /\ j <= Len(t) /\ Len(t) >= j + 1
        /\ j \in {2, 4} /\ IsSequence(t)
    BY <1>0 DEF IsSequence
  <1>2. Len(h) = j /\ h = [i \in 1 .. j |-> t[i]]
    BY <1>0, <1>1, Beginning
  <1>3. \A i \in 1 .. j : h[i] = t[i]
    BY <1>2
  <1>4. /\ IsSequence(k) /\ Len(k) = j + 2
        /\ \A i \in 1 .. j : k[i] = h[i]
        /\ k[j + 1] = t[j + 1]
    BY <1>0, <1>2 DEF Longer
  <1>5. IsSequence(h)
    <2>1. PICK S : t \in Seq(S)
      BY <1>1 DEF IsSequence
    <2>2. h \in Seq(S)
      BY <1>0, <1>1, <2>1
    <2> QED
      BY <2>2 DEF IsSequence
  <1>6. Salt(h) = Salt(t) /\ Salt(k) = Salt(h)
    <2>1. Len(t) >= 2 /\ Len(h) >= 2 /\ Len(k) >= 2
      BY <1>1, <1>2, <1>4
    <2>2. h[1] = t[1] /\ h[2] = t[2] /\ k[1] = h[1] /\ k[2] = h[2]
      <3>1. 1 \in 1 .. j /\ 2 \in 1 .. j
        BY <1>1
      <3> QED
        BY <1>3, <1>4, <3>1
    <2> QED
      BY <1>1, <1>4, <1>5, <2>1, <2>2, SameSalt
  <1>7. Len(t) <= j + 1
    <2>1. Len(t) >= 2 /\ Len(h) >= 2
      BY <1>1, <1>2
    <2>2. Len(t) <= Len(h) + 1
      BY <1>6, <2>1, Zenon DEF Near
    <2> QED
      BY <1>2, <2>2
  <1>8. Len(t) = j + 1
    BY <1>1, <1>7
  <1>9. \A i \in 1 .. Len(t) : t[i] = k[i]
    <2> SUFFICES ASSUME NEW i \in 1 .. j + 1
                 PROVE  t[i] = k[i]
      BY <1>8
    <2>1. CASE i = j + 1
      BY <1>4, <2>1
    <2>2. CASE i \in 1 .. j
      BY <1>3, <1>4, <2>2
    <2> QED
      BY <1>1, <2>1, <2>2
  <1>10. Len(t) <= Len(k) + 1 /\ Len(k) <= Len(t) + 1
    BY <1>1, <1>4, <1>8
  <1> QED
    BY <1>2, <1>6, <1>9, <1>10 DEF Near

\* No reply is the latest when a request of the run is accepted.
LEMMA LatestAnswered ==
  ASSUME NEW t, IsSequence(t), NEW j \in {2, 4}, Len(t) >= j + 1,
         NEW h, Len(h) = j, NEW k, Salt(k) = Salt(h),
         NEW w, Len(w) = Len(t) + 1, Latest(w, h)
  PROVE  Latest(w, k)
  <1>1. Len(t) \in Nat
    BY DEF IsSequence
  <1>2. Len(w) # Len(h) /\ Len(h) >= 2
    BY <1>1
  <1>3. h # w
    BY <1>2
  <1>4. Salt(h) # Salt(w)
    BY <1>2, <1>3 DEF Latest
  <1> QED
    BY <1>4 DEF Latest
-----------------------------------------------------------------------------
(***************************************************************************)
(* Steps of the server and the network.                                    *)
(***************************************************************************)
LEMMA HeldSequence ==
  ASSUME StoreHolds', NEW c
  PROVE  IsSequence(Held(c)')
  <1>1. CASE c \in Ids(order')
    BY <1>1 DEF StoreHolds, SessionInv, Held
  <1>2. CASE c \notin Ids(order')
    <2>1. <<>> \in Seq({})
      OBVIOUS
    <2> QED
      BY <1>2, <2>1 DEF Held, IsSequence
  <1> QED
    BY <1>1, <1>2

LEMMA RunDrawn ==
  ASSUME SystemInv, OnceInv, NEW c \in Client
  PROVE  /\ IsSequence(client[c].t)
         /\ Len(client[c].t) >= 2 =>
              client[c].t[2].payload.server_random \in 0 .. fresh
  <1>1. IsSequence(client[c].t)
    BY DEF SystemInv, RunsHold, RunHolds
  <1>2. Len(client[c].t) >= 2 =>
          client[c].t[2].payload.server_random \in 0 .. fresh
    BY Zenon DEF OnceInv, Once
  <1> QED
    BY <1>1, <1>2

\* The handshake of a reply a run waits for was drawn before.
LEMMA AwaitedDrawn ==
  ASSUME SystemInv, OnceInv, NEW m \in replies, NEW c \in Client,
         Awaited(m, client[c].t)
  PROVE  /\ LongerByOne(After(m.frame), client[c].t, m.frame.body)
         /\ Len(After(m.frame)) >= 2
         /\ After(m.frame)[2].payload.server_random \in 0 .. fresh
  <1> DEFINE f == m.frame
             t == client[c].t
             w == After(f)
  <1>1. /\ f.intact /\ f.prev = t /\ Len(t) >= 1 /\ IsSequence(t)
        /\ Len(t) \in Nat
        /\ Len(t) >= 2 => t[2].payload.server_random \in 0 .. fresh
    BY RunDrawn DEF Awaited, IsSequence
  <1>2. w = Append(t, f.body)
    BY <1>1 DEF After, Absorb
  <1>3. ReplyHolds(m, issued) /\ Own(c, client[c]) /\ DrawnBy(f, fresh)
    BY DEF SystemInv, RepliesHold, RunsHold, RunHolds, OnceInv
  <1>4. DOMAIN t = 1 .. Len(t)
    BY <1>1 DEF IsSequence
  <1>5. t[1].type = "HELLO"
    BY <1>1, <1>3, <1>4 DEF Own
  <1>6. SealedByServer(f, issued)
    BY <1>1, <1>3 DEF ReplyHolds
  <1> HIDE DEF w, t
  <1>7. LongerByOne(w, t, f.body)
    BY <1>1, <1>2, AbsorbedOne
  <1>8. Len(w) >= 2
    BY <1>1, <1>7 DEF LongerByOne
  <1>9. CASE Len(t) >= 2
    <2>1. w[2] = t[2]
      BY <1>1, <1>7, <1>9 DEF LongerByOne
    <2> QED
      BY <1>1, <1>7, <1>8, <1>9, <2>1 DEF w, t
  <1>10. CASE Len(t) = 1
    <2>1. w[2] = f.body
      BY <1>7, <1>10 DEF LongerByOne
    <2>2. f.body.layer = "plain"
      BY <1>1, <1>5, <1>6, <1>10 DEF SealedByServer
    <2>3. f.body.payload.server_random \in 0 .. fresh
      BY <1>1, <1>3, <2>2 DEF DrawnBy
    <2> QED
      BY <1>7, <1>8, <2>1, <2>3 DEF w, t
  <1>11. Len(t) >= 2 \/ Len(t) = 1
    <2> DEFINE n == Len(t)
    <2>1. n \in Nat /\ n >= 1
      BY <1>1, Zenon
    <2> HIDE DEF n
    <2>2. n >= 2 \/ n = 1
      BY <2>1
    <2> QED
      BY <2>2 DEF n
  <1> QED
    BY <1>9, <1>10, <1>11

\* Nothing is answered but a HELLO.
LEMMA StayStep ==
  ASSUME SystemInv, StoreHolds', OnceInv, StepInv, HeldStay, client' = client,
         \A m \in replies' :
           \/ m \in replies
           \/ ~m.frame.intact
           \/ After(m.frame) = Held(m.client)'
  PROVE  StepInv'
  <1>1. fresh \in Nat
    BY DEF OnceInv
  <1>2. ASSUME NEW c
        PROVE  HeldStays(Held(c), Held(c)', fresh) /\ IsSequence(Held(c)')
    <2>1. HeldStays(Held(c), Held(c)', fresh)
      BY Zenon DEF HeldStay
    <2>2. IsSequence(Held(c)')
      BY HeldSequence
    <2> QED
      BY <2>1, <2>2
  <1>3. ASSUME NEW c \in Client
        PROVE  Near(client[c].t, Held(c)')
    <2> DEFINE t == client[c].t
               h == Held(c)
               k == Held(c)'
    <2>1. /\ IsSequence(t) /\ Near(t, h) /\ HeldStays(h, k, fresh)
          /\ IsSequence(k)
          /\ Len(t) >= 2 => t[2].payload.server_random \in 0 .. fresh
      BY <1>2, RunDrawn DEF StepInv
    <2> HIDE DEF t, h, k
    <2>2. Near(t, k)
      BY <1>1, <2>1, NearKept
    <2> QED
      BY <2>2 DEF t, k
  <1>4. ASSUME NEW m \in replies', m.client \in Client,
               Awaited(m, client[m.client].t)
        PROVE  Latest(After(m.frame), Held(m.client)')
    <2> DEFINE w == After(m.frame)
               h == Held(m.client)
               k == Held(m.client)'
    <2>1. CASE w = k
      BY <2>1 DEF Latest
    <2>2. CASE m \in replies
      <3>1. /\ IsSequence(w) /\ Len(w) >= 2
            /\ w[2].payload.server_random \in 0 .. fresh
        BY <1>4, <2>2, AwaitedDrawn DEF LongerByOne
      <3>2. Latest(w, h) /\ HeldStays(h, k, fresh) /\ IsSequence(k)
        BY <1>2, <1>4, <2>2 DEF StepInv
      <3> HIDE DEF w, h, k
      <3>3. Latest(w, k)
        BY <1>1, <3>1, <3>2, LatestKept
      <3> QED
        BY <3>3 DEF w, k
    <2> QED
      BY <1>4, <2>1, <2>2 DEF Awaited
  <1> QED
    BY <1>3, <1>4 DEF StepInv

\* A proof of the run m.client is answered.
LEMMA MoveStep ==
  ASSUME SystemInv, OwnedInv, OnceInv, StepInv, NEW m \in requests,
         m.path \in {"exchange", "finalize"}, m.frame.intact,
         MovesOn(m.frame.body.session_id, m.frame), client' = client,
         \A x \in replies' :
           x \in replies \/ After(x.frame) = Held(x.client)'
  PROVE  StepInv'
  <1> DEFINE f == m.frame
             c == m.client
             t == client[c].t
             h == Held(c)
             k == Held(c)'
  <1>1. c \in Client /\ IsSequence(t) /\ Carries(m, t) /\ Near(t, h)
    BY DEF SystemInv, RunsHold, RunHolds, OwnedInv, Addresses, StepInv
  <1>2. PICK j \in {2, 4} :
          /\ Len(t) >= j + 1 /\ f.prev = SubSeq(t, 1, j)
          /\ After(f) = SubSeq(t, 1, j + 1)
    <2>1. CASE m.path = "exchange"
      <3>1. /\ Len(t) >= 3 /\ f.prev = SubSeq(t, 1, 2)
            /\ After(f) = SubSeq(t, 1, 3)
        BY <1>1, <2>1, Zenon DEF Carries
      <3> HIDE DEF f, t
      <3>2. 2 \in {2, 4} /\ 2 + 1 = 3
        OBVIOUS
      <3> QED
        BY <3>1, <3>2, Zenon
    <2>2. CASE m.path = "finalize"
      <3>1. /\ Len(t) >= 5 /\ f.prev = SubSeq(t, 1, 4)
            /\ After(f) = SubSeq(t, 1, 5)
        BY <1>1, <2>2, Zenon DEF Carries
      <3> HIDE DEF f, t
      <3>2. 4 \in {2, 4} /\ 4 + 1 = 5
        OBVIOUS
      <3> QED
        BY <3>1, <3>2, Zenon
    <2> QED
      BY <2>1, <2>2
  <1>3. /\ f.body.session_id = c /\ h = f.prev
        /\ \A d : d # c => Held(d)' = Held(d)
    BY <1>1, Zenon DEF Carries, MovesOn
  <1>4. PICK b : Longer(k, h, f.body, b)
    BY <1>3, Zenon DEF MovesOn
  <1>5. f.body = t[j + 1]
    <2> DEFINE p == f.prev
               a == f.body
               w == After(f)
    <2>1. w = Append(p, a) /\ IsSequence(p)
      BY DEF After, Absorb, MovesOn
    <2>2. Len(t) \in Nat
      BY <1>1 DEF IsSequence
    <2>3. Len(p) = j /\ w = [i \in 1 .. j + 1 |-> t[i]]
      BY <1>1, <1>2, <2>2, Beginning
    <2> HIDE DEF p, a, w, t
    <2>4. w[j + 1] = a
      <3>1. LongerByOne(w, p, a)
        BY <2>1, AbsorbedOne
      <3>2. w[Len(p) + 1] = a
        BY <3>1 DEF LongerByOne
      <3> QED
        BY <2>3, <3>2, Zenon
    <2>5. w[j + 1] = t[j + 1]
      BY <1>2, <2>3
    <2> QED
      BY <2>4, <2>5, Zenon DEF a
  <1>6. Near(t, k) /\ Len(h) = j /\ Salt(k) = Salt(h)
    <2>1. GoesOnBy(t, j, h, k)
      BY <1>1, <1>2, <1>3, <1>4, <1>5, Zenon DEF GoesOnBy
    <2> HIDE DEF t, h, k, f, c
    <2> QED
      BY <1>1, <2>1, NearAnswered
  <1>7. ASSUME NEW d \in Client
        PROVE  Near(client[d].t, Held(d)')
    <2>1. CASE d = c
      BY <1>6, <2>1
    <2>2. CASE d # c
      BY <1>3, <2>2, Zenon DEF StepInv
    <2> QED
      BY <2>1, <2>2
  <1>8. ASSUME NEW x \in replies', x.client \in Client,
               Awaited(x, client[x.client].t)
        PROVE  Latest(After(x.frame), Held(x.client)')
    <2> DEFINE w == After(x.frame)
    <2>1. CASE w = Held(x.client)'
      BY <2>1 DEF Latest
    <2>2. CASE x \in replies /\ x.client # c
      BY <1>3, <1>8, <2>2, Zenon DEF StepInv
    <2>3. CASE x \in replies /\ x.client = c
      <3>1. Latest(w, h) /\ LongerByOne(w, t, x.frame.body)
        BY <1>8, <2>3, AwaitedDrawn DEF StepInv
      <3>2. Len(w) = Len(t) + 1
        BY <3>1 DEF LongerByOne
      <3> HIDE DEF w, t, h, k
      <3>3. Latest(w, k)
        BY <1>1, <1>2, <1>6, <3>1, <3>2, LatestAnswered
      <3> QED
        BY <2>3, <3>3, Zenon DEF w, k
    <2> QED
      BY <2>1, <2>2, <2>3
  <1> QED
    BY <1>7, <1>8 DEF StepInv
-----------------------------------------------------------------------------
(***************************************************************************)
(* Steps of the runs, and the system.                                      *)
(***************************************************************************)
LEMMA RunStep ==
  ASSUME StepInv, NEW c \in Client, UNCHANGED serverVars,
         \A d \in Client : d # c => client'[d] = client[d],
         replies' \subseteq replies, Near(client'[c].t, Held(c)),
         client'[c].t = client[c].t \/ \A m \in replies' : m.client # c
  PROVE  StepInv'
  <1>1. \A d : Held(d)' = Held(d)
    BY DEF serverVars, Held
  <1>2. ASSUME NEW d \in Client
        PROVE  Near(client'[d].t, Held(d)')
    <2>1. CASE d = c
      BY <1>1, <2>1
    <2>2. CASE d # c
      BY <1>1, <2>2 DEF StepInv
    <2> QED
      BY <2>1, <2>2
  <1>3. ASSUME NEW m \in replies', m.client \in Client,
               Awaited(m, client'[m.client].t)
        PROVE  Latest(After(m.frame), Held(m.client)')
    <2>1. client'[m.client].t = client[m.client].t
      BY <1>3
    <2>2. m \in replies /\ Awaited(m, client[m.client].t)
      BY <1>3, <2>1
    <2>3. Latest(After(m.frame), Held(m.client))
      BY <1>3, <2>2 DEF StepInv
    <2> QED
      BY <1>1, <2>3
  <1> QED
    BY <1>2, <1>3 DEF StepInv

\* A run that reads a reply has read the latest one of its handshake.
LEMMA ReceiveStep ==
  ASSUME SystemInv, OnceInv, StepInv, NEW c \in Client, NEW m \in replies,
         Receive(c, m)
  PROVE  StepInv'
  <1> DEFINE f == m.frame
             r == client[c]
             t == r.t
             w == After(f)
             u == client'[c].t
  <1>1. /\ RunsHold /\ RunHolds(c, r, issued) /\ IsSequence(t) /\ Len(t) \in Nat
        /\ m.client = c /\ UNCHANGED serverVars
    BY DEF SystemInv, RunsHold, RunHolds, IsSequence, Receive
  <1>2. ASSUME Awaited(m, t), NEW stage, NEW v, NEW a, Moves(c, stage, v),
               v = w \/ v = Append(w, a), replies' = Others(replies, c)
        PROVE  StepInv'
    <2>1. Latest(w, Held(c)) /\ IsSequence(w) /\ Len(w) >= 2
      BY <1>1, <1>2, AwaitedDrawn DEF StepInv, LongerByOne
    <2>2. u = v /\ \A d \in Client : d # c => client'[d] = client[d]
      BY <1>1, <1>2, MovedRun
    <2>3. v = w \/ LongerByOne(v, w, a)
      <3> HIDE DEF w
      <3> QED
        BY <1>2, <2>1, AbsorbedOne
    <2>4. Near(v, Held(c))
      <3> DEFINE h == Held(c)
      <3> HIDE DEF w, h
      <3>1. Near(v, h)
        BY <2>1, <2>3, NearLatest DEF h
      <3> QED
        BY <3>1 DEF h
    <2>5. Near(u, Held(c))
      BY <2>2, <2>4, Zenon
    <2>6. replies' \subseteq replies /\ \A x \in replies' : x.client # c
      BY <1>2 DEF Others
    <2> QED
      BY <1>1, <2>2, <2>5, <2>6, RunStep
  <1>3. CASE SendsProof1(c, f) /\ Posts(c, "exchange", Proof1Frame(c, After(f)))
    <2> DEFINE g == Proof1Frame(c, After(f))
    <2>1. /\ r.stage = "hello" /\ f.intact /\ f.prev = t
          /\ Moves(c, "exchange", After(g)) /\ replies' = Others(replies, c)
      BY <1>3 DEF SendsProof1, ChallengeAccepted, PlainOpen, Opens, Posts
    <2>2. Awaited(m, t)
      <3>1. Len(t) = 1
        BY <1>1, <2>1, Zenon DEF RunHolds
      <3>2. Len(t) >= 1
        BY <3>1
      <3> QED
        BY <2>1, <3>2, Zenon DEF Awaited
    <2>3. After(g) = Append(w, g.body)
      BY DEF Proof1Frame, Seals, AeadSeal, SealFrame, After, Absorb
    <2> HIDE DEF g, w, t, f
    <2> QED
      BY <1>2, <2>1, <2>2, <2>3
  <1>4. CASE SendsProof2(c, f) /\ Posts(c, "finalize", Proof2Frame(c, After(f)))
    <2> DEFINE g == Proof2Frame(c, After(f))
    <2>1. /\ r.stage = "exchange" /\ f.intact /\ f.prev = t
          /\ Moves(c, "finalize", After(g)) /\ replies' = Others(replies, c)
      BY <1>4
      DEF SendsProof2, ServerProofAccepted, Unseals, AeadOpen, Opens, Posts
    <2>2. Awaited(m, t)
      <3>1. Len(t) = 3
        BY <1>1, <2>1, Zenon DEF RunHolds
      <3>2. Len(t) >= 1
        BY <3>1
      <3> QED
        BY <2>1, <3>2, Zenon DEF Awaited
    <2>3. After(g) = Append(w, g.body)
      BY DEF Proof2Frame, Seals, AeadSeal, SealFrame, After, Absorb
    <2> HIDE DEF g, w, t, f
    <2> QED
      BY <1>2, <2>1, <2>2, <2>3
  <1>5. CASE IsGranted(c, f) /\ Leaves(c)
    <2>1. /\ r.stage = "finalize" /\ f.intact /\ f.prev = t
          /\ Moves(c, "granted", w) /\ replies' = Others(replies, c)
      BY <1>5 DEF IsGranted, FlagAccepted, Unseals, AeadOpen, Opens, Leaves
    <2>2. Awaited(m, t)
      <3>1. Len(t) = 5
        BY <1>1, <2>1, Zenon DEF RunHolds
      <3>2. Len(t) >= 1
        BY <3>1
      <3> QED
        BY <2>1, <3>2, Zenon DEF Awaited
    <2> QED
      BY <1>2, <2>1, <2>2
  <1>6. CASE IsDenied(c) /\ Leaves(c)
    <2>1. Moves(c, "denied", t) /\ replies' \subseteq replies
      BY <1>6 DEF IsDenied, Leaves, Others
    <2>2. u = t /\ \A d \in Client : d # c => client'[d] = client[d]
      BY <1>1, <2>1, MovedRun
    <2>3. Near(u, Held(c))
      BY <2>2 DEF StepInv
    <2> QED
      BY <1>1, <2>1, <2>2, <2>3, RunStep
  <1> QED
    BY <1>3, <1>4, <1>5, <1>6 DEF Receive

LEMMA ClientInStep ==
  ASSUME SystemInv, OnceInv, StepInv, NEW c \in Client,
         ClientStep(c) \/ HttpFails(c)
  PROVE  StepInv'
  <1>1. RunsHold /\ RunHolds(c, client[c], issued) /\ Near(client[c].t, Held(c))
    BY DEF SystemInv, RunsHold, StepInv
  <1>2. CASE Start(c)
    <2> DEFINE g == HelloFrame(c)
               e == <<>>
               u == client'[c].t
    <2>1. /\ Moves(c, "hello", After(g)) /\ UNCHANGED serverVars
          /\ replies' = Others(replies, c)
      BY <1>2 DEF Start, SendsHello, Posts
    <2>2. After(g) = Append(e, g.body)
      BY DEF HelloFrame, PlainSeal, SealFrame, After, Absorb, Transcript0
    <2>3. IsSequence(e) /\ Len(e) = 0
      <3>1. e \in Seq({})
        OBVIOUS
      <3> QED
        BY <3>1 DEF IsSequence
    <2>4. u = After(g) /\ \A d \in Client : d # c => client'[d] = client[d]
      BY <1>1, <2>1, MovedRun
    <2> HIDE DEF g, e
    <2>5. LongerByOne(After(g), e, g.body)
      BY <2>2, <2>3, AbsorbedOne
    <2>6. Len(After(g)) = 1
      BY <2>3, <2>5 DEF LongerByOne
    <2>7. Near(u, Held(c))
      <3>1. ~(Len(After(g)) >= 2)
        BY <2>6
      <3> QED
        BY <2>4, <3>1, Zenon DEF Near
    <2>8. replies' \subseteq replies /\ \A x \in replies' : x.client # c
      BY <2>1 DEF Others
    <2> QED
      BY <2>1, <2>4, <2>7, <2>8, RunStep
  <1>3. CASE Refuse(c) \/ GiveUp(c) \/ HttpFails(c)
    <2>1. /\ UNCHANGED serverVars /\ replies' \subseteq replies
          /\ IsDenied(c) \/ LicenseUnreadable(c)
      BY <1>3 DEF Refuse, GiveUp, HttpFails, Leaves, Others, netVars
    <2>2. Moves(c, "denied", client[c].t)
      BY <1>1, <2>1 DEF IsDenied, LicenseUnreadable, RunHolds, Transcript0
    <2>3. /\ client'[c].t = client[c].t
          /\ \A d \in Client : d # c => client'[d] = client[d]
      BY <1>1, <2>2, MovedRun
    <2>4. Near(client'[c].t, Held(c))
      BY <1>1, <2>3
    <2> QED
      BY <2>1, <2>3, <2>4, RunStep
  <1> QED
    BY <1>2, <1>3, ReceiveStep DEF ClientStep
-----------------------------------------------------------------------------
(***************************************************************************)
(* The answers of the server.                                              *)
(***************************************************************************)
\* What replies' may have in it after the reply g to m.
LEMMA OnlyReply ==
  ASSUME NEW m, NEW g, Reply(m, g),
         ~g.intact \/ After(g) = Held(m.client)'
  PROVE  \A x \in replies' :
           x \in replies \/ ~x.frame.intact \/ After(x.frame) = Held(x.client)'
  <1> DEFINE y == [client |-> m.client, path |-> m.path, frame |-> g]
  <1>1. replies' \subseteq replies \cup {y}
    BY DEF Reply
  <1>2. y.frame = g /\ y.client = m.client
    OBVIOUS
  <1>3. ~y.frame.intact \/ After(y.frame) = Held(y.client)'
    BY <1>2
  <1> HIDE DEF y
  <1> QED
    BY <1>1, <1>3

\* The answers leave the transcript the server goes on with.
LEMMA ChallengeAfter ==
  ASSUME NEW m
  PROVE  AfterHello(NewSession, m.frame).transcript_state = After(Challenge(m))
  <1> DEFINE f == m.frame
             c == NextServerCounter(NewSession)
             r == After(ServerChallenge(f, c, Draw))
  <1>1. After(Challenge(m)) = r
    BY DEF Challenge
  <1> HIDE DEF r, c
  <1>2. AfterHello(NewSession, f) =
          [HelloStored(NewSession, f, c, Draw) EXCEPT
             !.client_counter = f.body.counter,
             !.username_norm  = f.body.payload.username,
             !.server_counter = c]
    BY DEF AfterHello, c
  <1>3. HelloStored(NewSession, f, c, Draw) =
          [NewSession EXCEPT !.keys             = {DeriveKeys(r)},
                             !.transcript_state = r,
                             !.salt             = r,
                             !.server_random    = Draw]
    BY DEF HelloStored, r, c
  <1> DEFINE x == HelloStored(NewSession, f, c, Draw)
  <1>4. x.transcript_state = r /\ x = [y \in DOMAIN x |-> x[y]]
    BY <1>3 DEF NewSession
  <1> HIDE DEF x
  <1>5. AfterHello(NewSession, f).transcript_state = r
    BY <1>2, <1>4 DEF x
  <1> QED
    BY <1>1, <1>5

LEMMA AnswersAfter ==
  ASSUME NEW m, NEW s, SessionInv(m.frame.body.session_id, s),
         s = Addressed(m.frame)
  PROVE  /\ AfterExchange(s, m.frame).transcript_state = After(Proof(m))
         /\ AfterFinalize(s, m.frame).transcript_state = After(Flag(m))
  <1>1. DOMAIN s = DOMAIN NewSession /\ s = [x \in DOMAIN s |-> s[x]]
    BY DEF SessionInv
  <1> DEFINE f == m.frame
             n == NextServerCounter(s)
             p == After(ServerProof(s, f, n, Draw))
             q == After(SealedFlag(s, f, n))
  <1>2. After(Proof(m)) = p /\ After(Flag(m)) = q
    BY DEF Proof, Flag
  <1>3. ExchangeStored(s, f, n, Draw).transcript_state = p
    <2> HIDE DEF p
    <2>1. ExchangeStored(s, f, n, Draw) =
            [s EXCEPT !.transcript_state  = p,
                      !.server_challenge2 = Draw,
                      !.vm_digest         = f.body.payload.vm,
                      !.proof1_ok         = TRUE]
      BY DEF ExchangeStored, p
    <2> QED
      BY <1>1, <2>1 DEF NewSession
  <1>4. AfterExchange(s, f).transcript_state = p
    <2> DEFINE x == ExchangeStored(s, f, n, Draw)
    <2>1. AfterExchange(s, f) =
            [x EXCEPT !.client_counter = f.body.counter, !.server_counter = n]
      BY DEF AfterExchange
    <2>2. x.transcript_state = p
      BY <1>3
    <2> HIDE DEF x, p, n, f
    <2> QED
      BY <2>1, <2>2
  <1>5. AfterFinalize(s, f).transcript_state = q
    <2> HIDE DEF q
    <2>1. AfterFinalize(s, f) =
            [Accept(s, f.body.counter) EXCEPT !.server_counter   = n,
                                              !.transcript_state = q]
      BY DEF AfterFinalize, q
    <2>2. "transcript_state" \in DOMAIN Accept(s, f.body.counter)
      BY <1>1 DEF Accept, NewSession
    <2> QED
      BY <2>1, <2>2
  <1> QED
    BY <1>2, <1>4, <1>5

LEMMA ServedStep ==
  ASSUME SystemInv, SystemInv', OwnedInv, OnceInv, StepInv,
         NEW m \in requests, Routed(m), client' = client
  PROVE  StepInv'
  <1> DEFINE f == m.frame
             sid == f.body.session_id
  <1>1. /\ StoreHolds /\ StoreHolds' /\ sid \in SessionId
        /\ f.body.counter \in Nat
        /\ f.intact => sid = m.client
    BY DEF SystemInv, ServerInv, RequestsHold, RequestHolds, OwnedInv, Carries
  <1>2. ASSUME Reject(m), HeldStay
        PROVE  StepInv'
    <2>1. ~GenericError.intact
      BY DEF GenericError, Unparsable, PlainSeal, SealFrame
    <2>2. Reply(m, GenericError)
      BY <1>2 DEF Reject
    <2>3. \A x \in replies' :
            x \in replies \/ ~x.frame.intact \/ After(x.frame) = Held(x.client)'
      BY <2>1, <2>2, OnlyReply
    <2> QED
      BY <1>1, <1>2, <2>3, StayStep
  <1>3. ASSUME MovesOn(sid, f), f.intact, m.path \in {"exchange", "finalize"},
               NEW g, Answer(m, g), g.intact, Held(sid)' = After(g)
        PROVE  StepInv'
    <2>1. After(g) = Held(m.client)' /\ Reply(m, g)
      BY <1>1, <1>3, Zenon DEF Answer
    <2> DEFINE y == [client |-> m.client, path |-> m.path, frame |-> g]
    <2>2. replies' \subseteq replies \cup {y}
      BY <2>1 DEF Reply
    <2>3. y.frame = g /\ y.client = m.client
      OBVIOUS
    <2>4. After(y.frame) = Held(y.client)'
      BY <2>1, <2>3
    <2> HIDE DEF y
    <2>5. \A x \in replies' : x \in replies \/ After(x.frame) = Held(x.client)'
      BY <2>2, <2>4
    <2> QED
      BY <1>3, <2>5, MoveStep
  <1>4. CASE Misdirected(m) /\ Reject(m) /\ UNCHANGED serverVars
    <2>1. HeldStay
      BY <1>4 DEF serverVars, HeldStay, HeldStays, Held
    <2> QED
      BY <1>2, <1>4, <2>1
  <1>5. CASE m.path = "hello" /\ HelloFailed(f) /\ Reject(m)
    <2>1. HeldStay
      BY <1>1, <1>5, HelloHeld DEF HandleHello
    <2> QED
      BY <1>2, <1>5, <2>1
  <1>6. CASE m.path = "hello" /\ HelloAnswered(f) /\ Answer(m, Challenge(m))
    <2>1. /\ HeldStay
          /\ Held(sid)' = AfterHello(NewSession, f).transcript_state
      BY <1>1, <1>6, HelloHeld DEF HandleHello
    <2>2. f.intact
      BY <1>6 DEF HelloAnswered, HelloNamed, HelloReadable, PlainOpen, Opens
    <2>3. After(Challenge(m)) = Held(m.client)' /\ Reply(m, Challenge(m))
      BY <1>1, <1>6, <2>1, <2>2, ChallengeAfter DEF Answer
    <2>4. \A x \in replies' :
            x \in replies \/ ~x.frame.intact \/ After(x.frame) = Held(x.client)'
      BY <2>3, OnlyReply
    <2> QED
      BY <1>1, <2>1, <2>4, StayStep
  <1>7. CASE \/ m.path = "exchange" /\ ExchangeFailed(f) /\ Reject(m)
             \/ m.path = "finalize" /\ FinalizeFailed(f) /\ Reject(m)
    <2>1. HeldStay
      BY <1>1, <1>7, RefusedHeld
      DEF ExchangeFailed, ExchangeRefused, FinalizeFailed, FinalizeRefused
    <2> QED
      BY <1>2, <1>7, <2>1
  <1>8. CASE m.path = "exchange" /\ ExchangeAnswered(f) /\ Answer(m, Proof(m))
    <2>1. /\ MovesOn(sid, f) /\ f.intact /\ Known(sid)
          /\ Held(sid)' = AfterExchange(Addressed(f), f).transcript_state
      BY <1>1, <1>8, ExchangeHeld
      DEF ExchangeAnswered, Proof1Accepted, CounterAccepted, OpensForSession,
          AeadOpen, Opens
    <2>2. SessionInv(sid, Addressed(f))
      BY <1>1, <2>1 DEF StoreHolds, Known, Addressed
    <2>3. Held(sid)' = After(Proof(m))
      BY <2>1, <2>2, AnswersAfter
    <2>4. Proof(m).intact
      BY DEF Proof, ServerProof, AeadSeal, SealFrame
    <2> QED
      BY <1>3, <1>8, <2>1, <2>3, <2>4
  <1>9. CASE m.path = "finalize" /\ FinalizeAnswered(f) /\ Answer(m, Flag(m))
    <2>1. /\ MovesOn(sid, f) /\ f.intact /\ Known(sid)
          /\ Held(sid)' = AfterFinalize(Addressed(f), f).transcript_state
      BY <1>1, <1>9, FinalizeHeld
      DEF FinalizeAnswered, Proof2Accepted, CounterAccepted, OpensForSession,
          AeadOpen, Opens
    <2>2. SessionInv(sid, Addressed(f))
      BY <1>1, <2>1 DEF StoreHolds, Known, Addressed
    <2>3. Held(sid)' = After(Flag(m))
      BY <2>1, <2>2, AnswersAfter
    <2>4. Flag(m).intact
      BY DEF Flag, SealedFlag, AeadSeal, SealFrame
    <2> QED
      BY <1>3, <1>9, <2>1, <2>3, <2>4
  <1> QED
    BY <1>4, <1>5, <1>6, <1>7, <1>8, <1>9 DEF Routed
-----------------------------------------------------------------------------
(***************************************************************************)
(* The system.                                                             *)
(***************************************************************************)
LEMMA NetworkInStep ==
  ASSUME SystemInv, SystemInv', OwnedInv, OnceInv, StepInv,
         Network \/ (\E m \in requests : Serve(m)) \/ UNCHANGED vars,
         \A c \in Client : ~HttpFails(c)
  PROVE  StepInv'
  <1>1. StoreHolds'
    BY DEF SystemInv, ServerInv
  <1>2. UNCHANGED serverVars => HeldStay
    BY DEF serverVars, HeldStay, HeldStays, Held
  <1>3. ASSUME HeldStay, client' = client,
               \A x \in replies' : x \in replies \/ ~x.frame.intact
        PROVE  StepInv'
    BY <1>1, <1>3, StayStep
  <1>4. ASSUME NEW m \in requests, Serve(m) \/ ServeAgain(m)
        PROVE  StepInv'
    BY <1>4, ServedStep DEF Serve, ServeAgain
  <1>5. CASE RestartServer
    <2>1. HeldStay
      BY <1>5 DEF RestartServer, Restart, HeldStay, HeldStays, Held, Ids
    <2> QED
      BY <1>3, <1>5, <2>1 DEF RestartServer
  <1>6. ASSUME NEW m \in requests, LoseRequest(m) \/ GarbleRequest(m)
        PROVE  StepInv'
    BY <1>2, <1>3, <1>6 DEF LoseRequest, GarbleRequest
  <1>7. ASSUME NEW m \in replies, LoseReply(m)
        PROVE  StepInv'
    BY <1>2, <1>3, <1>7 DEF LoseReply
  <1>8. ASSUME NEW m \in replies, GarbleReply(m)
        PROVE  StepInv'
    <2> DEFINE y == [m EXCEPT !.frame = Unparsable(m.frame)]
    <2>1. ReplyHolds(m, issued)
      BY DEF SystemInv, RepliesHold
    <2>2. y.frame.intact = FALSE
      BY <2>1 DEF ReplyHolds, MessageFields, FrameShape, Unparsable
    <2>3. UNCHANGED <<serverVars, client>> /\ replies' = (replies \ {m}) \cup {y}
      BY <1>8 DEF GarbleReply
    <2> HIDE DEF y
    <2>4. \A x \in replies' : x \in replies \/ ~x.frame.intact
      BY <2>2, <2>3
    <2> QED
      BY <1>2, <1>3, <2>3, <2>4
  <1>9. CASE UNCHANGED vars
    BY <1>2, <1>3, <1>9 DEF vars, netVars
  <1> QED
    BY <1>4, <1>5, <1>6, <1>7, <1>8, <1>9 DEF Network

LEMMA StepInit == Init => StepInv
  <1> SUFFICES ASSUME Init PROVE StepInv
    OBVIOUS
  <1>1. replies = {}
    BY DEF Init
  <1>2. ASSUME NEW c \in Client
        PROVE  Near(client[c].t, Held(c))
    <2> DEFINE t == client[c].t
    <2>1. t = <<>>
      BY DEF Init, ClientInit, Transcript0
    <2> HIDE DEF t
    <2>2. ~(Len(t) >= 2)
      BY <2>1
    <2> QED
      BY <2>2, Zenon DEF Near, t
  <1> QED
    BY <1>1, <1>2 DEF StepInv

LEMMA StepStep ==
  SystemInv /\ SystemInv' /\ OwnedInv /\ OnceInv /\ StepInv /\ [Next]_vars =>
    StepInv'
  <1> SUFFICES ASSUME SystemInv, SystemInv', OwnedInv, OnceInv, StepInv,
                      [Next]_vars
               PROVE  StepInv'
    OBVIOUS
  <1>1. ASSUME NEW c \in Client, ClientStep(c) \/ HttpFails(c)
        PROVE  StepInv'
    BY <1>1, ClientInStep
  <1>2. CASE Network \/ (\E m \in requests : Serve(m)) \/ UNCHANGED vars
    BY <1>1, <1>2, NetworkInStep
  <1> QED
    BY <1>1, <1>2 DEF Next

LEMMA InStepHolds == SystemInv /\ StepInv => InStep
  <1> SUFFICES ASSUME SystemInv, StepInv, NEW c \in Client \cap Ids(order),
                      Len(client[c].t) >= 2, session[c].salt = Salt(client[c].t)
               PROVE  LET ct == client[c].t
                          st == session[c].transcript_state
                          n  == IF Len(ct) <= Len(st) THEN Len(ct) ELSE Len(st)
                      IN /\ SubSeq(ct, 1, n) = SubSeq(st, 1, n)
                         /\ Len(ct) <= Len(st) + 1 /\ Len(st) <= Len(ct) + 1
    BY DEF InStep
  <1> DEFINE s == session[c]
             t == client[c].t
             h == s.transcript_state
             n == IF Len(t) <= Len(h) THEN Len(t) ELSE Len(h)
  <1>1. /\ SessionInv(c, s) /\ IsSequence(t) /\ IsSequence(h)
        /\ Len(t) \in Nat /\ Len(h) \in Nat /\ h = Held(c) /\ Near(t, h)
    BY DEF SystemInv, ServerInv, StoreHolds, SessionInv, RunsHold, RunHolds,
           StepInv, Held, IsSequence
  <1>2. Len(Salt(t)) = 2
    BY <1>1, SaltIs
  <1>3. h # <<>>
    <2> DEFINE e == s.salt
    <2>1. Len(e) = 2
      BY <1>2
    <2> HIDE DEF e
    <2>2. e # <<>>
      BY <2>1
    <2> QED
      BY <1>1, <2>2 DEF SessionInv, e
  <1>4. Len(h) >= 2 /\ s.salt = Salt(h)
    BY <1>1, <1>3 DEF SessionInv, Coherent
  <1>5. /\ \A i \in 1 .. Len(t) : i <= Len(h) => t[i] = h[i]
        /\ Len(t) <= Len(h) + 1 /\ Len(h) <= Len(t) + 1
    BY <1>1, <1>4 DEF Near
  <1>6. n \in Nat /\ n <= Len(t) /\ n <= Len(h)
    BY <1>1
  <1> HIDE DEF s, t, h, n
  <1>7. /\ SubSeq(t, 1, n) = [i \in 1 .. n |-> t[i]]
        /\ SubSeq(h, 1, n) = [i \in 1 .. n |-> h[i]]
    BY <1>1, <1>6, Beginning
  <1>8. SubSeq(t, 1, n) = SubSeq(h, 1, n)
    BY <1>1, <1>5, <1>6, <1>7
  <1> QED
    BY <1>5, <1>8 DEF s, t, h, n

\* transcript.cpp and protocol.py: while the server holds the handshake a run
\* is in, the two ends have the same transcript, but for the frame in transit,
\* whatever is lost, repeated, garbled, evicted or restarted.
THEOREM SystemInStep == Spec => []InStep
  BY SystemAlways, OwnedInit, OwnedStep, OnceInit, OnceStep, StepInit, StepStep,
     InStepHolds, PTL DEF Spec
-----------------------------------------------------------------------------
(***************************************************************************)
(* The types of the system.                                                *)
(***************************************************************************)
\* How far a run and the number of faults may go.
BoundInv ==
  /\ faults \in 0 .. MaxFaults
  /\ \A c \in Client : client[c].stage \in Stages /\ Len(client[c].t) <= 6

LEMMA BoundInit == Init => BoundInv
  <1> SUFFICES ASSUME Init
               PROVE  BoundInv
    OBVIOUS
  <1>1. faults \in 0 .. MaxFaults
    BY SystemAssumption DEF Init
  <1>2. ASSUME NEW c \in Client
        PROVE  client[c].stage = "start" /\ client[c].t = <<>>
    BY DEF Init, ClientInit, Transcript0
  <1> QED
    BY <1>1, <1>2 DEF BoundInv, Stages

\* A run waits with one, three or five frames, and leaves with at most six.
LEMMA ClientBounded ==
  ASSUME SystemInv, SystemInv', BoundInv, NEW c \in Client, ClientStepIs(c),
         NEW d \in Client
  PROVE  client'[d].stage \in Stages /\ Len(client'[d].t) <= 6
  <1>1. CASE d # c
    BY <1>1 DEF ClientStepIs, RunGoesOn, BoundInv
  <1>2. CASE d = c /\ client'[c].stage \in {"granted", "denied"}
    <2>1. client'[c].stage \in Stages
      BY <1>2 DEF Stages
    <2>2. CASE client'[c].stage = "granted"
      <3>1. Len(client'[c].t) = 6
        BY <2>2 DEF ClientStepIs
      <3> QED
        BY <1>2, <2>1, <3>1
    <2>3. CASE client'[c].stage = "denied"
      <3>1. client'[c].t = client[c].t
        BY <2>3 DEF ClientStepIs
      <3> QED
        BY <1>2, <2>1, <3>1 DEF BoundInv
    <2> QED
      BY <1>2, <2>2, <2>3
  <1>3. CASE d = c /\ client'[c].stage \in Paths
    <2>1. RunHolds(c, client'[c], issued')
      BY DEF SystemInv, RunsHold
    <2>2. Len(client'[c].t) \in {1, 3, 5}
      BY <1>3, <2>1 DEF RunHolds, Paths
    <2>3. client'[c].stage \in Stages
      BY <1>3 DEF Paths, Stages
    <2>4. ASSUME NEW n, n \in {1, 3, 5}
          PROVE  n <= 6
      BY <2>4
    <2>5. Len(client'[c].t) <= 6
      BY <2>2, <2>4
    <2>6. d = c
      BY <1>3
    <2> QED
      BY <2>3, <2>5, <2>6, Zenon
  <1> QED
    BY <1>1, <1>2, <1>3 DEF ClientStepIs

\* What steps do to the number of faults.
LEMMA FaultsBounded ==
  ASSUME faults \in 0 .. MaxFaults, [Next]_vars
  PROVE  faults' \in 0 .. MaxFaults
  <1>1. MaxFaults \in Nat
    BY SystemAssumption
  <1>2. CASE Fault
    BY <1>1, <1>2 DEF Fault
  <1>3. faults' = faults \/ Fault
    <2>1. ASSUME NEW c \in Client, ClientStep(c) \/ HttpFails(c)
          PROVE  faults' = faults \/ Fault
      BY <2>1 DEF ClientStep, Start, Refuse, GiveUp, Receive, Posts, HttpFails,
                  netVars
    <2>2. ASSUME NEW m, Serve(m) \/ ServeAgain(m) \/ LoseRequest(m)
                        \/ LoseReply(m) \/ GarbleRequest(m) \/ GarbleReply(m)
          PROVE  faults' = faults \/ Fault
      BY <2>2 DEF Serve, ServeAgain, LoseRequest, LoseReply, GarbleRequest,
                  GarbleReply
    <2>3. CASE RestartServer
      BY <2>3 DEF RestartServer
    <2>4. CASE UNCHANGED vars
      BY <2>4 DEF vars, netVars
    <2> QED
      BY <2>1, <2>2, <2>3, <2>4 DEF Next, Network
  <1> QED
    BY <1>2, <1>3

LEMMA BoundStep ==
  SystemInv /\ SystemInv' /\ OwnedInv /\ BoundInv /\ [Next]_vars => BoundInv'
  <1> SUFFICES ASSUME SystemInv, SystemInv', OwnedInv, BoundInv, [Next]_vars
               PROVE  BoundInv'
    OBVIOUS
  <1>1. faults' \in 0 .. MaxFaults
    BY FaultsBounded DEF BoundInv
  <1>2. CASE client' = client
    BY <1>1, <1>2 DEF BoundInv
  <1>3. ASSUME NEW c \in Client, ClientStep(c) \/ HttpFails(c)
        PROVE  BoundInv'
    BY <1>1, <1>3, ClientStepShape, ClientBounded DEF BoundInv
  <1>4. CASE RestartServer
    BY <1>2, <1>4 DEF RestartServer
  <1>5. ASSUME NEW m, Serve(m) \/ ServeAgain(m) \/ LoseRequest(m)
                      \/ LoseReply(m) \/ GarbleRequest(m) \/ GarbleReply(m)
        PROVE  client' = client
    BY <1>5 DEF Serve, ServeAgain, LoseRequest, LoseReply, GarbleRequest,
                GarbleReply
  <1> QED
    BY <1>2, <1>3, <1>4, <1>5 DEF Next, Network, vars

\* RankGateSystem: every message belongs to a run and an endpoint, a run that
\* waits has sent its own frame last, and the server has the types of
\* RankGateServer, whatever the network does.
THEOREM SystemTyped == Spec => []SystemTypeOK
  <1>1. ASSUME ServerTypeOK, SystemInv, OwnedInv, BoundInv
        PROVE  SystemTypeOK
    <2>1. \A c \in Client : Waiting(c) => Len(client[c].t) \in {1, 3, 5}
      BY <1>1 DEF SystemInv, RunsHold, RunHolds, Waiting, Paths
    <2> QED
      BY <1>1, <2>1 DEF SystemTypeOK, OwnedInv, Addresses, BoundInv
  <1>2. Spec => []ServerTypeOK
    BY SystemServes, ServerTyped, PTL
  <1> QED
    BY SystemAlways, OwnedInit, OwnedStep, BoundInit, BoundStep, <1>1, <1>2, PTL
    DEF Spec
=============================================================================
