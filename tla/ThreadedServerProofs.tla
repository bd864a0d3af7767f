------------------------ MODULE ThreadedServerProofs ------------------------
(***************************************************************************)
(* The handlers in threads, for any number of threads, any capacity and    *)
(* any number of requests.                                                 *)
(*                                                                         *)
(* First: the store stays within its bound but for the threads that are    *)
(* still in create, whatever the peers send (ThreadsInv).                  *)
(*                                                                         *)
(* Then, among peers that have only keys of answered handshakes: the flag  *)
(* is sealed for a sound exchange and a proof over one of the same         *)
(* handshake.  An object may be held by many threads, and be keyed after   *)
(* some of them have got it; those then have a transcript that is none of  *)
(* its handshake.  Their peers cannot know its keys (BranchInv).           *)
(*                                                                         *)
(* Last: a client counter is answered once.  Its comparison and its        *)
(* storing are one step; an answer is counted against the one object that  *)
(* its handshake is of, which need not be in the store (CountInv).         *)
(***************************************************************************)
EXTENDS ThreadedServer, RankGateServerProofs

\* Each thread is somewhere, and one that is at work is at work on some id.
WellFormedThreads ==
  /\ pc = [th \in Thread |-> pc[th]]
  /\ frame = [th \in Thread |-> frame[th]]
  /\ \A th \in Thread : pc[th] # "idle" => SessionOf(th) \in SessionId

ThreadsInv ==
  /\ order \in Seq(SessionId)
  /\ Distinct(order)
  /\ WellFormedThreads
  /\ BoundedByThreads

\* A step of th, which is at the place at afterwards.
Stepped(th, at) ==
  /\ WellFormedThreads'
  /\ pc'[th] = at
  /\ \A other \in Thread \ {th} : pc'[other] = pc[other]

LEMMA GoesStepped ==
  ASSUME WellFormedThreads, NEW th \in Thread, pc[th] # "idle", NEW at, NEW l,
         GoesWith(th, at, l)
  PROVE  Stepped(th, at)
  BY DEF GoesWith, WellFormedThreads, Stepped, SessionOf

LEMMA EndsStepped ==
  ASSUME WellFormedThreads, NEW th \in Thread, Ends(th)
  PROVE  Stepped(th, "idle")
  BY DEF Ends, WellFormedThreads, Stepped, SessionOf

\* What a step of one thread does to the set of those in create.
LEMMA CreatingAfter ==
  ASSUME NEW th \in Thread, NEW at, Stepped(th, at)
  PROVE  Creating' = IF at \in {"evict", "pop"} THEN Creating \cup {th}
                                                ELSE Creating \ {th}
  BY DEF Creating, Stepped

LEMMA CreatingFinite ==
  IsFiniteSet(Creating) /\ Cardinality(Creating) \in Nat
  BY ThreadAssumption, FS_Subset, FS_CardinalityType DEF Creating

\* A step that leaves the store alone, of a thread that is not in create.
LEMMA AsideKeepsInv ==
  ASSUME ThreadsInv, NEW th \in Thread, NEW at, Stepped(th, at),
         at \notin {"evict", "pop"}, pc[th] \notin {"evict", "pop"},
         order' \in Seq(SessionId), Distinct(order)', Len(order') = Len(order)
  PROVE  ThreadsInv'
  <1>1. Creating' = Creating
    BY CreatingAfter DEF Creating
  <1>2. BoundedByThreads'
    BY <1>1 DEF ThreadsInv, BoundedByThreads
  <1> QED
    BY <1>2 DEF ThreadsInv, Stepped

LEMMA BeginKeepsInv ==
  ASSUME ThreadsInv, NEW th \in Thread, AnyFrame(th)
  PROVE  ThreadsInv'
  <1>1. PICK f : f.body.session_id \in SessionId /\ Begin(th, f)
    BY DEF AnyFrame
  <1> DEFINE at == IF f.body.type = "HELLO" THEN "create" ELSE "get"
  <1>2. Stepped(th, at)
    BY <1>1 DEF Begin, Stepped, ThreadsInv, WellFormedThreads, SessionOf
  <1>3. order' = order /\ pc[th] = "idle"
    BY <1>1 DEF Begin, At
  <1> HIDE DEF at
  <1>4. at \notin {"evict", "pop"}
    BY DEF at
  <1> QED
    BY <1>2, <1>3, <1>4, AsideKeepsInv DEF ThreadsInv

\* The insertion adds a session at most, and a thread in create.
LEMMA CreateObjectKeepsInv ==
  ASSUME ThreadsInv, NEW th \in Thread, CreateObject(th)
  PROVE  ThreadsInv'
  <1>1. Stepped(th, "evict") /\ pc[th] = "create"
    BY GoesStepped DEF CreateObject, Goes, At, ThreadsInv
  <1>2. Creating' = Creating \cup {th} /\ th \notin Creating
    BY <1>1, CreatingAfter DEF Creating
  <1>3. Cardinality(Creating') = Cardinality(Creating) + 1
    BY <1>2, CreatingFinite, FS_AddElement
  <1>4. SessionOf(th) \in SessionId
    BY <1>1 DEF ThreadsInv, WellFormedThreads
  <1>5. /\ order' \in Seq(SessionId) /\ Distinct(order')
        /\ Len(order') \in {Len(order), Len(order) + 1}
    <2>1. order' = Insert(order, SessionOf(th))
      BY DEF CreateObject
    <2>2. CASE SessionOf(th) \in Ids(order)
      BY <2>1, <2>2, MoveToEndHolds DEF Insert, ThreadsInv
    <2>3. CASE SessionOf(th) \notin Ids(order)
      BY <1>4, <2>1, <2>3, AppendHolds DEF Insert, ThreadsInv
    <2> QED
      BY <2>2, <2>3
  <1>6. Len(order) <= MAX_SESSIONS + Cardinality(Creating)
    BY DEF ThreadsInv, BoundedByThreads
  <1>7. Len(order) \in Nat /\ MAX_SESSIONS \in Nat
    BY StoreAssumption DEF ThreadsInv
  <1>8. BoundedByThreads'
    BY <1>3, <1>5, <1>6, <1>7, CreatingFinite DEF BoundedByThreads
  <1>9. Distinct(order)'
    BY <1>5 DEF Distinct
  <1> QED
    BY <1>1, <1>5, <1>8, <1>9 DEF ThreadsInv, Stepped

\* A thread leaves the loop only where the store is within its bound.
LEMMA TestLengthKeepsInv ==
  ASSUME ThreadsInv, NEW th \in Thread, TestLength(th)
  PROVE  ThreadsInv'
  <1>1. order' = order /\ pc[th] = "evict"
    BY DEF TestLength, At, StoreSame
  <1>2. Len(order) \in Nat /\ MAX_SESSIONS \in Nat
    BY StoreAssumption DEF ThreadsInv
  <1>3. CASE Len(order) > MAX_SESSIONS
    <2>1. Stepped(th, "pop")
      BY <1>1, <1>3, GoesStepped DEF TestLength, Goes, At, ThreadsInv
    <2>2. Creating' = Creating
      BY <1>1, <2>1, CreatingAfter DEF Creating
    <2> QED
      BY <1>1, <2>1, <2>2 DEF ThreadsInv, BoundedByThreads, Distinct, Stepped
  <1>4. CASE ~(Len(order) > MAX_SESSIONS)
    <2>1. Stepped(th, "greet")
      BY <1>1, <1>4, GoesStepped DEF TestLength, Goes, At, ThreadsInv
    <2>2. Creating' = Creating \ {th}
      BY <2>1, CreatingAfter
    <2>3. Cardinality(Creating') \in Nat
      BY <2>2, CreatingFinite, FS_RemoveElement, FS_CardinalityType
    <2>4. BoundedByThreads'
      BY <1>1, <1>2, <1>4, <2>3 DEF BoundedByThreads
    <2> QED
      BY <1>1, <2>1, <2>4 DEF ThreadsInv, Distinct, Stepped
  <1> QED
    BY <1>3, <1>4

LEMMA PopItemKeepsInv ==
  ASSUME ThreadsInv, NEW th \in Thread, PopItem(th)
  PROVE  ThreadsInv'
  <1>1. pc[th] = "pop"
    BY DEF PopItem, At
  <1>2. Len(order) \in Nat /\ MAX_SESSIONS \in Nat
    BY StoreAssumption DEF ThreadsInv
  <1>3. CASE order = <<>>
    <2>1. order' = order /\ Stepped(th, "idle")
      BY <1>3, EndsStepped DEF PopItem, Raises, StoreSame, ThreadsInv
    <2>2. Creating' = Creating \ {th}
      BY <2>1, CreatingAfter
    <2>3. Cardinality(Creating') \in Nat
      BY <2>2, CreatingFinite, FS_RemoveElement, FS_CardinalityType
    <2>4. BoundedByThreads'
      BY <1>2, <1>3, <2>1, <2>3 DEF BoundedByThreads
    <2> QED
      BY <2>1, <2>4 DEF ThreadsInv, Distinct, Stepped
  <1>4. CASE order # <<>>
    <2>1. order' = Tail(order) /\ Stepped(th, "evict")
      BY <1>1, <1>4, GoesStepped DEF PopItem, Goes, At, ThreadsInv
    <2>2. Creating' = Creating
      BY <1>1, <2>1, CreatingAfter DEF Creating
    <2>3. /\ order' \in Seq(SessionId) /\ Len(order') = Len(order) - 1
          /\ Distinct(order')
      BY <1>4, <2>1, TailHolds DEF ThreadsInv
    <2>4. BoundedByThreads'
      BY <1>2, <2>2, <2>3, CreatingFinite DEF BoundedByThreads, ThreadsInv
    <2>5. Distinct(order)'
      BY <2>3 DEF Distinct
    <2> QED
      BY <2>1, <2>3, <2>4, <2>5 DEF ThreadsInv, Stepped
  <1> QED
    BY <1>3, <1>4

\* The dictionary is not touched, or its keys only change their order.
LEMMA SameOrder ==
  ASSUME ThreadsInv, StoreSame
  PROVE  order' \in Seq(SessionId) /\ Distinct(order)' /\ Len(order') = Len(order)
  BY DEF ThreadsInv, StoreSame, Distinct

\* What is left of handle_hello.
LEMMA HelloKeepsInv ==
  ASSUME ThreadsInv, NEW th \in Thread,
         HelloRefused(th) \/ HelloRaises(th) \/ Greet(th) \/ StoreKeys(th)
  PROVE  ThreadsInv'
  <1>1. WellFormedThreads /\ StoreSame
    BY DEF ThreadsInv, HelloRefused, HelloRaises, Greet, StoreKeys
  <1>2. pc[th] \in {"greet", "keys"}
    BY DEF HelloRefused, HelloRaises, Greet, StoreKeys, At
  <1>3. \E at \in {"idle", "keys"} : Stepped(th, at)
    <2>1. CASE Ends(th)
      BY <1>1, <2>1, EndsStepped
    <2>2. CASE Greet(th)
      BY <1>1, <1>2, <2>2, GoesStepped DEF Greet
    <2> QED
      BY <2>1, <2>2 DEF HelloRefused, HelloRaises, StoreKeys, Raises, Returns
  <1> QED
    BY <1>1, <1>2, <1>3, SameOrder, AsideKeepsInv

\* SessionStore.get.
LEMMA GetKeepsThreadsInv ==
  ASSUME ThreadsInv, NEW th \in Thread, Lookup(th) \/ Touch(th)
  PROVE  ThreadsInv'
  <1>1. WellFormedThreads /\ pc[th] \in {"get", "touch"}
    BY DEF ThreadsInv, Lookup, Touch, At
  <1>2. \E at \in {"idle", "touch", "accept"} : Stepped(th, at)
    <2>1. CASE Ends(th)
      BY <1>1, <2>1, EndsStepped
    <2>2. CASE \E l : GoesWith(th, "touch", l) \/ GoesWith(th, "accept", l)
      BY <1>1, <2>2, GoesStepped
    <2> QED
      BY <2>1, <2>2 DEF Lookup, Touch, Goes, Raises
  <1>3. /\ order' \in Seq(SessionId) /\ Distinct(order)'
        /\ Len(order') = Len(order)
    <2>1. CASE order' = order
      BY <2>1 DEF ThreadsInv, Distinct
    <2>2. CASE order' = MoveToEnd(order, SessionOf(th)) /\ Known(SessionOf(th))
      <3>1. /\ order' \in Seq(SessionId) /\ Distinct(order')
            /\ Len(order') = Len(order)
        BY <2>2, MoveToEndHolds DEF ThreadsInv, Known
      <3> QED
        BY <3>1 DEF Distinct
    <2> QED
      BY <2>1, <2>2 DEF Lookup, Touch, StoreSame
  <1> QED
    BY <1>1, <1>2, <1>3, AsideKeepsInv

\* What is left of handle_exchange and handle_finalize.
LEMMA ProofKeepsInv ==
  ASSUME ThreadsInv, NEW th \in Thread,
         \/ Admit(th) \/ ProofFails(th) \/ ProofHolds(th) \/ CountAnswer(th)
         \/ StoreProof(th) \/ StoreFlag(th)
  PROVE  ThreadsInv'
  <1>1. WellFormedThreads /\ StoreSame
    BY DEF ThreadsInv, Admit, ProofFails, ProofHolds, CountAnswer, StoreProof,
           StoreFlag
  <1>2. pc[th] \in {"accept", "check", "count", "store"}
    BY DEF Admit, ProofFails, ProofHolds, CountAnswer, StoreProof, StoreFlag, At
  <1>3. \E at \in {"idle", "check", "count", "store"} : Stepped(th, at)
    <2>1. CASE Ends(th)
      BY <1>1, <2>1, EndsStepped
    <2>2. CASE \E at \in {"check", "count", "store"} : \E l : GoesWith(th, at, l)
      BY <1>1, <1>2, <2>2, GoesStepped
    <2>3. CASE Admit(th)
      BY <2>1, <2>2, <2>3 DEF Admit, AcceptCounter, Raises
    <2>4. CASE ProofHolds(th)
      BY <2>2, <2>4 DEF ProofHolds, DrawsChallenge, Goes
    <2>5. CASE CountAnswer(th)
      BY <2>2, <2>5 DEF CountAnswer
    <2>6. CASE ProofFails(th) \/ StoreProof(th) \/ StoreFlag(th)
      BY <2>1, <2>6 DEF ProofFails, StoreProof, StoreFlag, Raises, Returns
    <2> QED
      BY <2>3, <2>4, <2>5, <2>6
  <1> QED
    BY <1>1, <1>2, <1>3, SameOrder, AsideKeepsInv

LEMMA ThreadsStepKeepsInv ==
  ASSUME ThreadsInv,
         [\E th \in Thread : Step(th) \/ AnyFrame(th)]_threadVars
  PROVE  ThreadsInv'
  <1>1. CASE UNCHANGED threadVars
    BY <1>1 DEF threadVars, ThreadsInv, Distinct, WellFormedThreads, SessionOf,
                BoundedByThreads, Creating
  <1>2. ASSUME NEW th \in Thread, AnyFrame(th)
        PROVE  ThreadsInv'
    BY <1>2, BeginKeepsInv
  <1>3. ASSUME NEW th \in Thread, Step(th)
        PROVE  ThreadsInv'
    BY <1>3, CreateObjectKeepsInv, TestLengthKeepsInv, PopItemKeepsInv,
       HelloKeepsInv, GetKeepsThreadsInv, ProofKeepsInv DEF Step
  <1> QED
    BY <1>1, <1>2, <1>3

LEMMA ThreadsInitInv == Init => ThreadsInv
  <1> SUFFICES ASSUME Init PROVE ThreadsInv
    OBVIOUS
  <1>1. order = <<>> /\ pc = [th \in Thread |-> "idle"] /\
        frame = [th \in Thread |-> GenericError]
    BY DEF Init, ServerInit
  <1>2. Len(order) = 0 /\ MAX_SESSIONS \in Nat
    BY <1>1, StoreAssumption
  <1>3. BoundedByThreads
    BY <1>2, CreatingFinite DEF BoundedByThreads
  <1>4. WellFormedThreads
    BY <1>1 DEF WellFormedThreads
  <1> QED
    BY <1>1, <1>3, <1>4 DEF ThreadsInv, Distinct

\* For every number of threads, every capacity and whatever the peers send: the
\* store the threads share without a lock exceeds MAX_SESSIONS by no more than the
\* threads that are in create.
THEOREM ThreadedStoreBounded == AnySpec => []BoundedByThreads
  <1>1. ThreadsInv => BoundedByThreads
    BY DEF ThreadsInv
  <1> QED
    BY <1>1, ThreadsInitInv, ThreadsStepKeepsInv, PTL DEF AnySpec
-----------------------------------------------------------------------------
(***************************************************************************)
(* What the flag is sealed for.  log stands for the transcripts that       *)
(* answers have carried; own says for which id an object was created,      *)
(* which is nowhere stored once another object has taken its place.        *)
(***************************************************************************)
IsRecord(s) == DOMAIN s = DOMAIN NewSession /\ s = [x \in DOMAIN s |-> s[x]]

\* t begins with the answered handshake that s, an object of the id sid, holds.
Handshake(log, t, s, sid) ==
  /\ IsSequence(t) /\ Len(t) >= 2
  /\ s.salt = Salt(t) /\ s.keys = {DeriveKeys(Salt(t))}
  /\ s.server_random = ServerRandom(t)
  /\ t[1].session_id = sid /\ t[1].payload.username = s.username_norm
  /\ \E v \in log : Salt(v) = Salt(t)

HasSound(t) ==
  \E i \in DOMAIN t : t[i].type = "CLIENT_PROOF_1" /\ SoundExchange(t, i)

\* The challenge and the result vm were answered with, in a handshake.
Backed(log, salt, challenge, vm) ==
  \E u \in log :
    /\ Salt(u) = salt /\ AnswersExchange(u)
    /\ u[Len(u)].payload.challenge2 = challenge
    /\ u[Len(u) - 1].payload.vm = vm

ObjectHolds(log, s, sid) ==
  /\ IsRecord(s)
  /\ s.proof1_ok \in BOOLEAN
  /\ \/ s.keys = {} /\ s.transcript_state = <<>> /\ s.proof1_ok = FALSE
     \/ Handshake(log, s.transcript_state, s, sid)
  /\ s.proof1_ok =>
       /\ HasSound(s.transcript_state)
       /\ Backed(log, s.salt, s.server_challenge2, s.vm_digest)

\* The fields of a handshake.
SameHandshake(s, n) ==
  /\ n.keys = s.keys /\ n.salt = s.salt /\ n.server_random = s.server_random
  /\ n.username_norm = s.username_norm

\* A longer log, and an object that kept its handshake.
LEMMA HandshakeStays ==
  ASSUME NEW log, NEW more, log \subseteq more, NEW t, NEW s, NEW n, NEW sid,
         Handshake(log, t, s, sid), SameHandshake(s, n)
  PROVE  Handshake(more, t, n, sid)
  BY DEF Handshake, SameHandshake

LEMMA BackedStays ==
  ASSUME NEW log, NEW more, log \subseteq more, NEW salt, NEW challenge, NEW vm,
         Backed(log, salt, challenge, vm)
  PROVE  Backed(more, salt, challenge, vm)
  BY DEF Backed

\* The same of an object; what else the handlers change is not looked at.
LEMMA ObjectStays ==
  ASSUME NEW log, NEW more, log \subseteq more, NEW s, NEW n, NEW sid,
         ObjectHolds(log, s, sid), IsRecord(n), SameHandshake(s, n),
         n.transcript_state = s.transcript_state, n.proof1_ok = s.proof1_ok,
         n.server_challenge2 = s.server_challenge2, n.vm_digest = s.vm_digest
  PROVE  ObjectHolds(more, n, sid)
  <1>1. CASE s.keys = {} /\ s.transcript_state = <<>> /\ s.proof1_ok = FALSE
    BY <1>1 DEF ObjectHolds, SameHandshake
  <1>2. CASE Handshake(log, s.transcript_state, s, sid)
    <2>1. Handshake(more, n.transcript_state, n, sid)
      BY <1>2, HandshakeStays
    <2>2. n.proof1_ok =>
            /\ HasSound(n.transcript_state)
            /\ Backed(more, n.salt, n.server_challenge2, n.vm_digest)
      BY BackedStays DEF ObjectHolds, SameHandshake
    <2> QED
      BY <2>1, <2>2 DEF ObjectHolds
  <1> QED
    BY <1>1, <1>2 DEF ObjectHolds

\* Frames that come after a handshake leave it as it is.
LEMMA HandshakeGoesOn ==
  ASSUME NEW log, NEW t, NEW s, NEW sid, Handshake(log, t, s, sid),
         NEW u, IsSequence(u), Len(t) \in Nat, Len(u) >= Len(t),
         DOMAIN t = 1 .. Len(t), DOMAIN u = 1 .. Len(u), Len(u) \in Nat,
         \A i \in 1 .. Len(t) : u[i] = t[i]
  PROVE  /\ Handshake(log, u, s, sid)
         /\ Salt(u) = Salt(t)
         /\ \A i \in DOMAIN t : SoundExchange(t, i) => SoundExchange(u, i)
         /\ HasSound(t) => HasSound(u)
  <1>1. Len(t) >= 2 /\ IsSequence(t)
    BY DEF Handshake
  <1>2. u[1] = t[1] /\ u[2] = t[2] /\ Len(u) >= 2
    BY <1>1
  <1>3. Salt(u) = Salt(t) /\ ServerRandom(u) = ServerRandom(t)
    BY <1>1, <1>2, SameSalt
  <1>4. Handshake(log, u, s, sid)
    BY <1>2, <1>3 DEF Handshake
  <1>5. \A i \in DOMAIN t : SoundExchange(t, i) => SoundExchange(u, i)
    BY <1>2, <1>3 DEF SoundExchange
  <1>6. HasSound(t) => HasSound(u)
    <2> SUFFICES ASSUME NEW i \in DOMAIN t, t[i].type = "CLIENT_PROOF_1",
                        SoundExchange(t, i)
                 PROVE  HasSound(u)
      BY DEF HasSound
    <2>1. i \in DOMAIN u /\ u[i] = t[i]
      OBVIOUS
    <2> QED
      BY <1>5, <2>1 DEF HasSound
  <1> QED
    BY <1>3, <1>4, <1>5, <1>6

\* u is t with one frame after it, or with two.
Then(u, t, a) == u = Append(t, a)
ThenBoth(u, t, a, b) == u = Append(Append(t, a), b)

\* A request and its answer.
LEMMA HandshakeAnswered ==
  ASSUME NEW log, NEW t, NEW s, NEW sid, Handshake(log, t, s, sid),
         NEW a, NEW b, NEW u, ThenBoth(u, t, a, b)
  PROVE  /\ Handshake(log, u, s, sid) /\ Salt(u) = Salt(t)
         /\ HasSound(t) => HasSound(u)
         /\ Len(u) \in Nat /\ DOMAIN u = 1 .. Len(u) /\ Len(u) > 2
         /\ u[Len(u)] = b /\ u[Len(u) - 1] = a
  <1>1. IsSequence(t) /\ Len(t) >= 2
    BY DEF Handshake
  <1>2. Longer(u, t, a, b)
    BY <1>1, AbsorbedTwo DEF ThenBoth
  <1>3. /\ IsSequence(u) /\ Len(t) \in Nat /\ DOMAIN t = 1 .. Len(t)
        /\ Len(u) = Len(t) + 2 /\ DOMAIN u = 1 .. Len(t) + 2
        /\ \A i \in 1 .. Len(t) : u[i] = t[i]
    BY <1>2, Zenon DEF Longer
  <1>4. Len(u) \in Nat /\ Len(u) >= Len(t) /\ DOMAIN u = 1 .. Len(u)
    BY <1>3
  <1>5. /\ Handshake(log, u, s, sid) /\ Salt(u) = Salt(t)
        /\ HasSound(t) => HasSound(u)
    BY <1>3, <1>4, HandshakeGoesOn, Zenon
  <1>6. /\ Len(t) \in Nat /\ Len(u) = Len(t) + 2 /\ DOMAIN u = 1 .. Len(t) + 2
        /\ u[Len(t) + 1] = a /\ u[Len(t) + 2] = b
    BY <1>2, Zenon DEF Longer
  <1>7. /\ Len(u) \in Nat /\ DOMAIN u = 1 .. Len(u) /\ Len(u) > 2
        /\ u[Len(u)] = b /\ Len(u) - 1 = Len(t) + 1
    BY <1>1, <1>6
  <1>8. u[Len(u) - 1] = a
    BY <1>6, <1>7, Zenon
  <1> QED
    BY <1>5, <1>7, <1>8, Zenon

\* A request alone.
LEMMA HandshakeRequested ==
  ASSUME NEW log, NEW t, NEW s, NEW sid, Handshake(log, t, s, sid),
         NEW a, NEW u, Then(u, t, a)
  PROVE  /\ Handshake(log, u, s, sid) /\ Salt(u) = Salt(t)
         /\ HasSound(t) => HasSound(u)
         /\ u[Len(u)] = a
  <1>1. IsSequence(t) /\ Len(t) >= 2
    BY DEF Handshake
  <1>2. LongerByOne(u, t, a)
    BY <1>1, AbsorbedOne DEF Then
  <1>3. /\ IsSequence(u) /\ Len(t) \in Nat /\ DOMAIN t = 1 .. Len(t)
        /\ Len(u) = Len(t) + 1 /\ DOMAIN u = 1 .. Len(t) + 1
        /\ \A i \in 1 .. Len(t) : u[i] = t[i]
    BY <1>2, Zenon DEF LongerByOne
  <1>4. Len(u) \in Nat /\ Len(u) >= Len(t) /\ DOMAIN u = 1 .. Len(u)
    BY <1>3
  <1>5. /\ Handshake(log, u, s, sid) /\ Salt(u) = Salt(t)
        /\ HasSound(t) => HasSound(u)
    BY <1>3, <1>4, HandshakeGoesOn, Zenon
  <1>6. u[Len(u)] = a
    BY <1>2, Zenon DEF LongerByOne
  <1> QED
    BY <1>5, <1>6, Zenon
-----------------------------------------------------------------------------
(***************************************************************************)
(* What the handlers store in an object.                                   *)
(***************************************************************************)
\* n holds what s holds but for its counters.
Recounted(s, n) ==
  /\ IsRecord(n) /\ SameHandshake(s, n)
  /\ n.transcript_state = s.transcript_state /\ n.proof1_ok = s.proof1_ok
  /\ n.server_challenge2 = s.server_challenge2 /\ n.vm_digest = s.vm_digest

LEMMA AcceptRecounts ==
  ASSUME NEW s, IsRecord(s), NEW c
  PROVE  Recounted(s, Accept(s, c)) /\ Accept(s, c).client_counter = c
  BY DEF IsRecord, NewSession, Accept, Recounted, SameHandshake

LEMMA ServerCounterRecounts ==
  ASSUME NEW s, IsRecord(s), NEW c, NEW n, n = [s EXCEPT !.server_counter = c]
  PROVE  Recounted(s, n) /\ n.client_counter = s.client_counter
  BY DEF IsRecord, NewSession, Recounted, SameHandshake

LEMMA RecountedHolds ==
  ASSUME NEW log, NEW more, log \subseteq more, NEW s, NEW n, NEW sid,
         ObjectHolds(log, s, sid), Recounted(s, n)
  PROVE  ObjectHolds(more, n, sid)
  BY ObjectStays DEF Recounted

\* n has no keys, nor anything the proofs are checked with.
Bare(n) ==
  /\ IsRecord(n) /\ n.keys = {} /\ n.transcript_state = <<>>
  /\ n.proof1_ok = FALSE

LEMMA BareHolds ==
  ASSUME NEW log, NEW n, NEW sid, Bare(n)
  PROVE  ObjectHolds(log, n, sid)
  BY DEF Bare, ObjectHolds

LEMMA BareIs ==
  ASSUME NEW log, NEW s, NEW sid, ObjectHolds(log, s, sid), s.keys = {}
  PROVE  Bare(s)
  BY DEF ObjectHolds, Bare, Handshake

\* handle_hello before its keys.
LEMMA NewIsBare == Bare(NewSession)
  BY DEF Bare, IsRecord, NewSession

LEMMA GreetedIsBare ==
  ASSUME NEW s, Bare(s), NEW c, NEW user, NEW k
  PROVE  /\ Bare(Accept(s, c))
         /\ Bare([Accept(s, c) EXCEPT !.username_norm = user])
  BY DEF Bare, IsRecord, NewSession, Accept

\* And where it has its user name and has counted its answer.
Greeted(s, c, user, k) ==
  [Accept(s, c) EXCEPT !.username_norm = user, !.server_counter = k]

LEMMA GreetedIsNamed ==
  ASSUME NEW s, Bare(s), NEW c, NEW user, NEW k
  PROVE  Bare(Greeted(s, c, user, k)) /\ Greeted(s, c, user, k).username_norm = user
  BY DEF Greeted, Bare, IsRecord, NewSession, Accept

\* handle_hello: T2, which the answer carries.
LEMMA HelloKeyed ==
  ASSUME NEW s, Bare(s), NEW f, s.username_norm = f.body.payload.username,
         NEW n, NEW draw, NEW log, NEW t,
         t = After(ServerChallenge(f, n, draw)), t \in log,
         NEW new, new = HelloStored(s, f, n, draw)
  PROVE  /\ ObjectHolds(log, new, f.body.session_id)
         /\ new.keys = {t} /\ new.server_random = draw /\ new.salt = t
         /\ IsSequence(t) /\ Len(t) = 2 /\ Salt(t) = t
         /\ ServerRandom(t) = draw
  <1> DEFINE e == <<>>
             a == f.body
             b == ServerChallenge(f, n, draw).body
  <1>1. t = Append(Append(e, a), b)
    BY DEF After, ServerChallenge, PlainSeal, SealFrame, Absorb, Transcript0
  <1>2. b.payload.server_random = draw
    BY DEF ServerChallenge, PlainSeal, SealFrame
  <1>3. IsSequence(e) /\ Len(e) = 0
    <2>1. <<>> \in Seq({}) /\ Len(<<>>) = 0
      OBVIOUS
    <2> QED
      BY <2>1 DEF IsSequence
  <1>4. new = [s EXCEPT !.keys = {t}, !.transcript_state = t, !.salt = t,
                        !.server_random = draw]
    BY DEF HelloStored, DeriveKeys
  <1> HIDE DEF e, b
  <1>5. Longer(t, e, a, b)
    BY <1>1, <1>3, AbsorbedTwo
  <1>6. IsSequence(t) /\ Len(t) = 2 /\ DOMAIN t = 1 .. 2 /\ t[1] = a /\ t[2] = b
    <2>1. /\ IsSequence(t) /\ Len(t) = Len(e) + 2 /\ DOMAIN t = 1 .. Len(e) + 2
          /\ t[Len(e) + 1] = a /\ t[Len(e) + 2] = b
      BY <1>5, Zenon DEF Longer
    <2>2. Len(e) + 1 = 1 /\ Len(e) + 2 = 2
      BY <1>3
    <2> QED
      BY <2>1, <2>2, Zenon
  <1>7. Salt(t) = t
    <2>1. PICK S : t \in Seq(S)
      BY <1>6 DEF IsSequence
    <2>2. /\ Salt(t) = [i \in 1 .. 2 |-> t[i]]
          /\ t = [i \in 1 .. 2 |-> t[i]]
      BY <1>6, <2>1 DEF Salt
    <2> QED
      BY <2>2
  <1>8. ServerRandom(t) = draw
    BY <1>2, <1>6 DEF ServerRandom
  <1>9. /\ IsRecord(new) /\ new.keys = {t} /\ new.transcript_state = t
        /\ new.salt = t /\ new.server_random = draw
        /\ new.username_norm = s.username_norm /\ new.proof1_ok = FALSE
    BY <1>4, ZenonT(60) DEF Bare, IsRecord, NewSession
  <1>10. Handshake(log, t, new, f.body.session_id)
    BY <1>6, <1>7, <1>8, <1>9 DEF Handshake, DeriveKeys
  <1>11. ObjectHolds(log, new, f.body.session_id)
    BY <1>9, <1>10 DEF ObjectHolds
  <1> QED
    BY <1>6, <1>7, <1>8, <1>9, <1>11

\* The one bundle of a handshake.
LEMMA OneBundle ==
  ASSUME NEW log, NEW t, NEW s, NEW sid, Handshake(log, t, s, sid)
  PROVE  (CHOOSE k \in s.keys : TRUE) = DeriveKeys(Salt(t))
  BY DEF Handshake

\* u ends in the answer to a request a.
Answers(u, a) == u[Len(u) - 1] = a

\* What is known of an exchange once it was checked.
SoundFor(s, sid, f) ==
  /\ f.body.type = "CLIENT_PROOF_1"
  /\ ValidLicense(s.username_norm, f.body.payload.license)
  /\ ValidVm(s, sid, f.body.payload)

\* handle_exchange: the object holds what its answer carries.
LEMMA ExchangeKeyed ==
  ASSUME NEW log, NEW s, NEW sid, ObjectHolds(log, s, sid),
         NEW f, Handshake(log, f.prev, s, sid), SoundFor(s, sid, f),
         NEW n, NEW draw, NEW u, u = After(ServerProof(s, f, n, draw))
  PROVE  /\ ObjectHolds(log \cup {u}, ExchangeStored(s, f, n, draw), sid)
         /\ SameHandshake(s, ExchangeStored(s, f, n, draw))
         /\ ExchangeStored(s, f, n, draw).client_counter = s.client_counter
         /\ ExchangeStored(s, f, n, draw).proof1_ok = TRUE
         /\ Handshake(log, u, s, sid)
         /\ Answers(u, f.body)
  <1> DEFINE a == f.body
             b == ServerProof(s, f, n, draw).body
             new == ExchangeStored(s, f, n, draw)
             t == f.prev
  <1>1. ThenBoth(u, t, a, b) /\ b.payload.challenge2 = draw
    BY DEF ThenBoth, After, ServerProof, AeadSeal, SealFrame, Absorb
  <1>2. new = [s EXCEPT !.transcript_state = u, !.server_challenge2 = draw,
                        !.vm_digest = f.body.payload.vm, !.proof1_ok = TRUE]
    BY DEF ExchangeStored
  <1>3. /\ IsRecord(new) /\ SameHandshake(s, new)
        /\ new.client_counter = s.client_counter
        /\ new.transcript_state = u /\ new.server_challenge2 = draw
        /\ new.vm_digest = a.payload.vm /\ new.proof1_ok = TRUE
    <2> HIDE DEF new
    <2> QED
      BY <1>2 DEF ObjectHolds, IsRecord, NewSession, SameHandshake
  <1> HIDE DEF b, new
  <1>4. /\ Handshake(log, u, s, sid) /\ Salt(u) = Salt(t)
        /\ Len(u) \in Nat /\ DOMAIN u = 1 .. Len(u) /\ Len(u) > 2
        /\ u[Len(u)] = b /\ u[Len(u) - 1] = a
    BY <1>1, HandshakeAnswered
  <1>5. SoundExchange(u, Len(u) - 1)
    <2>1. /\ u[1].payload.username = s.username_norm /\ u[1].session_id = sid
          /\ ServerRandom(u) = s.server_random /\ Salt(u) = s.salt
      BY <1>4 DEF Handshake
    <2> QED
      BY <1>4, <2>1 DEF SoundExchange, SoundFor, ValidVm
  <1>6. AnswersExchange(u)
    BY <1>4, <1>5 DEF AnswersExchange, SoundFor
  <1>7. HasSound(u)
    <2>1. Len(u) - 1 \in DOMAIN u
      BY <1>4
    <2> QED
      BY <1>4, <1>5, <2>1 DEF HasSound, SoundFor
  <1>8. Backed(log \cup {u}, new.salt, new.server_challenge2, new.vm_digest)
    <2>1. new.salt = Salt(u)
      BY <1>3, <1>4 DEF SameHandshake, Handshake
    <2> QED
      BY <1>1, <1>3, <1>4, <1>6, <2>1 DEF Backed
  <1>9. Handshake(log \cup {u}, new.transcript_state, new, sid)
    <2>1. log \subseteq log \cup {u}
      OBVIOUS
    <2>2. Handshake(log \cup {u}, u, new, sid)
      BY <1>3, <1>4, <2>1, HandshakeStays
    <2> QED
      BY <1>3, <2>2
  <1>10. ObjectHolds(log \cup {u}, new, sid)
    BY <1>3, <1>7, <1>8, <1>9 DEF ObjectHolds
  <1> QED
    BY <1>3, <1>4, <1>10 DEF new, Answers

\* What is known of a proof over an exchange once it was checked.
PaidFor(log, s, f) ==
  /\ s.proof1_ok /\ HasSound(f.prev)
  /\ \E challenge, vm :
       /\ Backed(log, s.salt, challenge, vm)
       /\ f.body.payload.proof2 =
            Proof2(DeriveKeys(s.salt), challenge, s.server_random, vm, s.salt)

\* The proof at the end of t is over an exchange of its handshake in log.
OverAnswered(log, t) ==
  \E v \in log :
    /\ Salt(v) = Salt(t) /\ AnswersExchange(v)
    /\ t[Len(t)].payload.proof2 =
         Proof2(DeriveKeys(Salt(t)), v[Len(v)].payload.challenge2,
                ServerRandom(t), v[Len(v) - 1].payload.vm, Salt(t))

\* handle_finalize: what the flag is sealed for, and what its answer leaves.
LEMMA FlagKeyed ==
  ASSUME NEW log, NEW s, NEW sid, ObjectHolds(log, s, sid),
         NEW f, Handshake(log, f.prev, s, sid), PaidFor(log, s, f),
         NEW n, NEW u, u = After(SealedFlag(s, f, n)),
         NEW new, new = [s EXCEPT !.transcript_state = u],
         NEW t, t = After(f)
  PROVE  /\ ObjectHolds(log \cup {u}, new, sid)
         /\ SameHandshake(s, new)
         /\ new.client_counter = s.client_counter /\ new.proof1_ok
         /\ Handshake(log, u, s, sid)
         /\ Answers(u, f.body)
         /\ HasSound(t)
         /\ OverAnswered(log, t)
  <1> DEFINE a == f.body
             b == SealedFlag(s, f, n).body
             p == f.prev
  <1>1. ThenBoth(u, p, a, b) /\ Then(t, p, a)
    BY DEF ThenBoth, Then, After, SealedFlag, AeadSeal, SealFrame, Absorb
  <1>2. /\ IsRecord(new) /\ SameHandshake(s, new)
        /\ new.client_counter = s.client_counter
        /\ new.transcript_state = u
        /\ new.server_challenge2 = s.server_challenge2
        /\ new.vm_digest = s.vm_digest /\ new.proof1_ok = s.proof1_ok
    BY DEF ObjectHolds, IsRecord, NewSession, SameHandshake
  <1> HIDE DEF b
  <1>3. /\ Handshake(log, u, s, sid) /\ Salt(u) = Salt(p)
        /\ HasSound(p) => HasSound(u)
        /\ Len(u) \in Nat /\ Len(u) > 2 /\ u[Len(u) - 1] = a
    BY <1>1, HandshakeAnswered
  <1>4. /\ Handshake(log, t, s, sid) /\ Salt(t) = Salt(p)
        /\ HasSound(p) => HasSound(t)
        /\ t[Len(t)] = a
    BY <1>1, HandshakeRequested
  <1>5. HasSound(p) /\ s.proof1_ok
    BY DEF PaidFor
  <1>6. OverAnswered(log, t)
    <2>1. s.salt = Salt(t) /\ s.server_random = ServerRandom(t)
      BY <1>4 DEF Handshake
    <2>2. PICK challenge, vm :
            /\ Backed(log, s.salt, challenge, vm)
            /\ a.payload.proof2 =
                 Proof2(DeriveKeys(s.salt), challenge, s.server_random, vm, s.salt)
      BY DEF PaidFor
    <2>3. PICK v \in log : /\ Salt(v) = s.salt /\ AnswersExchange(v)
                           /\ v[Len(v)].payload.challenge2 = challenge
                           /\ v[Len(v) - 1].payload.vm = vm
      BY <2>2 DEF Backed
    <2> QED
      BY <1>4, <2>1, <2>2, <2>3 DEF OverAnswered
  <1>7. log \subseteq log \cup {u}
    OBVIOUS
  <1>8. Handshake(log \cup {u}, new.transcript_state, new, sid)
    <2>1. Handshake(log \cup {u}, u, new, sid)
      BY <1>2, <1>3, <1>7, HandshakeStays
    <2> QED
      BY <1>2, <2>1
  <1>9. Backed(log \cup {u}, new.salt, new.server_challenge2, new.vm_digest)
    <2>1. Backed(log, s.salt, s.server_challenge2, s.vm_digest)
      BY <1>5 DEF ObjectHolds
    <2>2. Backed(log \cup {u}, s.salt, s.server_challenge2, s.vm_digest)
      BY <1>7, <2>1, BackedStays
    <2> QED
      BY <1>2, <2>2 DEF SameHandshake
  <1>10. ObjectHolds(log \cup {u}, new, sid)
    <2>1. HasSound(new.transcript_state) /\ new.proof1_ok \in BOOLEAN
      BY <1>2, <1>3, <1>5 DEF ObjectHolds
    <2> QED
      BY <1>2, <1>8, <1>9, <2>1 DEF ObjectHolds
  <1> QED
    BY <1>2, <1>3, <1>4, <1>5, <1>6, <1>10 DEF Answers
-----------------------------------------------------------------------------
(***************************************************************************)
(* The invariant.                                                          *)
(***************************************************************************)
ObjectOf(th) == local[th].object

\* th is in handle_hello, with an object that is its own.
Greets(th) == pc[th] \in {"create", "evict", "pop", "greet", "keys"}

\* th is in one of the other handlers, with an object it looked up.
Proves(th) == pc[th] \in {"touch", "accept", "check", "count", "store"}

GreetsWell(th, own) ==
  /\ ObjectOf(th) \in 1 .. begun /\ own[ObjectOf(th)] = SessionOf(th)
  /\ IF pc[th] = "create"
     THEN ObjectOf(th) \notin DOMAIN heap
     ELSE ObjectOf(th) \in DOMAIN heap /\ Object(th).keys = {}
  /\ pc[th] = "keys" =>
       /\ Object(th).username_norm = frame[th].body.payload.username
       /\ local[th].draw \in 1 .. fresh
       /\ \A u \in answered : ServerRandom(u) # local[th].draw

\* Before the checks: the transcript th restored is one of the handshake, unless
\* the object had no keys then; the keys it has got since are none the peer had.
Restored(th) ==
  /\ frame[th].key \in Object(th).keys =>
       Handshake(answered, local[th].t, Object(th), SessionOf(th))
  /\ FinalizeType(frame[th]) => Object(th).proof1_ok /\ HasSound(local[th].t)

\* After them.
Checked(th) ==
  /\ Handshake(answered, frame[th].prev, Object(th), SessionOf(th))
  /\ frame[th].body.type = "CLIENT_PROOF_1" =>
       SoundFor(Object(th), SessionOf(th), frame[th])
  /\ FinalizeType(frame[th]) => PaidFor(answered, Object(th), frame[th])

ProvesWell(th, own) ==
  /\ ObjectOf(th) \in DOMAIN heap /\ own[ObjectOf(th)] = SessionOf(th)
  /\ pc[th] = "check" => Restored(th)
  /\ pc[th] \in {"count", "store"} => Checked(th)

ThreadHolds(th, own) ==
  /\ DOMAIN local[th] = DOMAIN NewLocal
  /\ local[th] = [x \in DOMAIN NewLocal |-> local[th][x]]
  /\ pc[th] # "idle" => HasKey(frame[th])
  /\ Greets(th) => GreetsWell(th, own)
  /\ Proves(th) => ProvesWell(th, own)

HeapHolds(own) ==
  /\ heap = [o \in DOMAIN heap |-> heap[o]] /\ DOMAIN heap \subseteq 1 .. begun
  /\ \A o \in DOMAIN heap : ObjectHolds(answered, heap[o], own[o])

Stored(own) ==
  \A sid \in Ids(order) :
    session[sid] \in DOMAIN heap /\ own[session[sid]] = sid

GreetAlone ==
  \A th, other \in Thread :
    th # other /\ Greets(th) /\ Greets(other) =>
      /\ ObjectOf(th) # ObjectOf(other)
      /\ pc[th] = "keys" /\ pc[other] = "keys" => local[th].draw # local[other].draw

AnswerHolds(u, m) == IsSequence(u) /\ Len(u) >= 2 /\ ServerRandom(u) \in 1 .. m

Owned(own) ==
  /\ begun \in Nat /\ fresh \in Nat
  /\ HeapHolds(own) /\ Stored(own)
  /\ local = [th \in Thread |-> local[th]]
  /\ \A th \in Thread : ThreadHolds(th, own)
  /\ GreetAlone
  /\ \A u \in answered : AnswerHolds(u, fresh)
  /\ FlagEarnedOnBranch

BranchInv == ThreadsInv /\ \E own : Owned(own)
-----------------------------------------------------------------------------
(***************************************************************************)
(* What a step of one thread does to the others.                           *)
(***************************************************************************)
\* The keys of n are none that a peer has.
KeysUnknown(n) ==
  \A k \in n.keys : k # BootstrapKey /\ \A v \in answered : k # DeriveKeys(Salt(v))

\* An object goes on with its handshake, or had none.
Evolves(s, n) ==
  \/ SameHandshake(s, n) /\ (s.proof1_ok => n.proof1_ok)
  \/ s.keys = {} /\ s.proof1_ok = FALSE /\ KeysUnknown(n)

LEMMA OtherRestored ==
  ASSUME NEW th, Restored(th), HasKey(frame[th]), Evolves(Object(th), Object(th)'),
         frame'[th] = frame[th], local'[th] = local[th],
         answered \subseteq answered'
  PROVE  Restored(th)'
  <1> DEFINE s == Object(th)
             n == Object(th)'
             f == frame[th]
  <1>1. CASE SameHandshake(s, n) /\ (s.proof1_ok => n.proof1_ok)
    <2>1. f.key \in n.keys => Handshake(answered', local[th].t, n, SessionOf(th))
      BY <1>1, HandshakeStays DEF Restored, SameHandshake
    <2>2. FinalizeType(f) => n.proof1_ok /\ HasSound(local[th].t)
      BY <1>1 DEF Restored
    <2> HIDE DEF n
    <2>3. FinalizeType(f)' = FinalizeType(f) /\ SessionOf(th)' = SessionOf(th)
      BY DEF FinalizeType, SessionOf
    <2> QED
      BY <2>1, <2>2, <2>3 DEF Restored, n
  <1>2. CASE s.keys = {} /\ s.proof1_ok = FALSE /\ KeysUnknown(n)
    <2>1. f.key \notin n.keys
      BY <1>2 DEF KeysUnknown, HasKey
    <2>2. ~FinalizeType(f)
      BY <1>2 DEF Restored
    <2> HIDE DEF n
    <2>3. FinalizeType(f)' = FinalizeType(f)
      BY DEF FinalizeType
    <2> QED
      BY <2>1, <2>2, <2>3 DEF Restored, n
  <1> QED
    BY <1>1, <1>2 DEF Evolves

LEMMA OtherChecked ==
  ASSUME NEW th, Checked(th), Evolves(Object(th), Object(th)'),
         frame'[th] = frame[th], answered \subseteq answered'
  PROVE  Checked(th)'
  <1> DEFINE s == Object(th)
             n == Object(th)'
             f == frame[th]
             sid == SessionOf(th)
  <1>1. SameHandshake(s, n) /\ (s.proof1_ok => n.proof1_ok)
    BY DEF Evolves, Checked, Handshake
  <1>2. Handshake(answered', f.prev, n, sid)
    BY <1>1, HandshakeStays DEF Checked
  <1>3. f.body.type = "CLIENT_PROOF_1" => SoundFor(n, sid, f)
    BY <1>1 DEF Checked, SoundFor, ValidVm, SameHandshake
  <1>4. FinalizeType(f) => PaidFor(answered', n, f)
    <2> SUFFICES ASSUME FinalizeType(f) PROVE PaidFor(answered', n, f)
      OBVIOUS
    <2>1. s.proof1_ok /\ HasSound(f.prev)
      BY DEF Checked, PaidFor
    <2>2. PICK challenge, vm :
            /\ Backed(answered, s.salt, challenge, vm)
            /\ f.body.payload.proof2 =
                 Proof2(DeriveKeys(s.salt), challenge, s.server_random, vm, s.salt)
      BY DEF Checked, PaidFor
    <2>3. Backed(answered', s.salt, challenge, vm)
      BY <2>2, BackedStays
    <2> QED
      BY <1>1, <2>1, <2>2, <2>3 DEF PaidFor, SameHandshake
  <1> HIDE DEF n
  <1>5. f' = f /\ sid' = sid /\ FinalizeType(f)' = FinalizeType(f)
    BY DEF SessionOf, FinalizeType
  <1> QED
    BY <1>2, <1>3, <1>4, <1>5 DEF Checked, n

LEMMA OtherHolds ==
  ASSUME NEW own, NEW th, ThreadHolds(th, own),
         pc'[th] = pc[th], frame'[th] = frame[th], local'[th] = local[th],
         answered \subseteq answered', fresh \in Nat, fresh' \in Nat,
         fresh' >= fresh, begun \in Nat, begun' \in Nat, begun' >= begun,
         DOMAIN heap \subseteq DOMAIN heap',
         ObjectOf(th) \in DOMAIN heap => Evolves(Object(th), Object(th)'),
         Greets(th) =>
           IF ObjectOf(th) \in DOMAIN heap
           THEN SameHandshake(Object(th), Object(th)')
           ELSE ObjectOf(th) \notin DOMAIN heap',
         pc[th] = "keys" => \A u \in answered' : ServerRandom(u) # local[th].draw,
         NEW new, Greets(th) \/ Proves(th) => new[ObjectOf(th)] = own[ObjectOf(th)]
  PROVE  ThreadHolds(th, new)'
  <1>1. /\ ObjectOf(th)' = ObjectOf(th) /\ SessionOf(th)' = SessionOf(th)
        /\ Greets(th)' = Greets(th) /\ Proves(th)' = Proves(th)
    BY DEF ObjectOf, SessionOf, Greets, Proves
  <1>2. HasKey(frame[th]) => HasKey(frame[th])'
    BY DEF HasKey
  <1>3. ASSUME Greets(th)
        PROVE  GreetsWell(th, new)'
    <2>1. GreetsWell(th, own) /\ new[ObjectOf(th)] = own[ObjectOf(th)]
      BY <1>3 DEF ThreadHolds
    <2>2. ObjectOf(th)' \in 1 .. begun' /\ new[ObjectOf(th)'] = SessionOf(th)'
      BY <1>1, <2>1 DEF GreetsWell
    <2>3. CASE pc[th] = "create"
      <3>1. ObjectOf(th)' \notin DOMAIN heap'
        BY <1>1, <1>3, <2>1, <2>3 DEF GreetsWell
      <3> QED
        BY <2>2, <2>3, <3>1 DEF GreetsWell
    <2>4. CASE pc[th] # "create"
      <3>1. ObjectOf(th) \in DOMAIN heap /\ Object(th).keys = {}
        BY <2>1, <2>4 DEF GreetsWell
      <3>2. SameHandshake(Object(th), Object(th)')
        BY <1>3, <3>1
      <3>3. ObjectOf(th)' \in DOMAIN heap' /\ Object(th)'.keys = {}
        BY <1>1, <3>1, <3>2 DEF SameHandshake
      <3>4. pc[th] = "keys" =>
              /\ Object(th)'.username_norm = frame'[th].body.payload.username
              /\ local'[th].draw \in 1 .. fresh'
              /\ \A u \in answered' : ServerRandom(u) # local'[th].draw
        BY <2>1, <3>2 DEF GreetsWell, SameHandshake
      <3> QED
        BY <2>2, <2>4, <3>3, <3>4 DEF GreetsWell
    <2> QED
      BY <2>3, <2>4
  <1>4. ASSUME Proves(th)
        PROVE  ProvesWell(th, new)'
    <2>1. ProvesWell(th, own) /\ new[ObjectOf(th)] = own[ObjectOf(th)]
      BY <1>4 DEF ThreadHolds
    <2>2. /\ ObjectOf(th)' \in DOMAIN heap' /\ new[ObjectOf(th)'] = SessionOf(th)'
          /\ Evolves(Object(th), Object(th)')
      BY <1>1, <2>1 DEF ProvesWell
    <2>3. HasKey(frame[th])
      BY <1>4 DEF ThreadHolds, Proves
    <2>4. pc[th] = "check" => Restored(th)'
      BY <2>1, <2>2, <2>3, OtherRestored DEF ProvesWell
    <2>5. pc[th] \in {"count", "store"} => Checked(th)'
      BY <2>1, <2>2, OtherChecked DEF ProvesWell
    <2> QED
      BY <2>2, <2>4, <2>5 DEF ProvesWell
  <1> QED
    BY <1>1, <1>2, <1>3, <1>4 DEF ThreadHolds
-----------------------------------------------------------------------------
(***************************************************************************)
(* What one step has to see to, so that all the rest stays as it is.       *)
(***************************************************************************)
\* Two transcripts with one salt are of one handshake.
LEMMA SaltTells ==
  ASSUME NEW t, IsSequence(t), NEW u, IsSequence(u),
         Len(t) >= 2, Len(u) >= 2, Salt(u) = Salt(t)
  PROVE  u[1] = t[1] /\ u[2] = t[2] /\ ServerRandom(u) = ServerRandom(t)
  <1>1. PICK S : t \in Seq(S)
    BY DEF IsSequence
  <1>2. PICK R : u \in Seq(R)
    BY DEF IsSequence
  <1>3. Len(t) \in Nat /\ Len(u) \in Nat
    BY <1>1, <1>2
  <1>4. /\ Salt(t) = [i \in 1 .. 2 |-> t[i]]
        /\ Salt(u) = [i \in 1 .. 2 |-> u[i]]
    BY <1>1, <1>2, <1>3 DEF Salt
  <1>5. u[1] = t[1] /\ u[2] = t[2]
    BY <1>4
  <1> QED
    BY <1>5 DEF ServerRandom

OthersSame(th) ==
  \A other \in Thread \ {th} :
    /\ pc'[other] = pc[other] /\ frame'[other] = frame[other]
    /\ local'[other] = local[other]

\* Nothing but the object of th changes, and not into something else.
HeapMoves(th, own) ==
  /\ heap' = [o \in DOMAIN heap' |-> heap'[o]]
  /\ DOMAIN heap \subseteq DOMAIN heap'
  /\ \A o \in DOMAIN heap : o # ObjectOf(th) => heap'[o] = heap[o]
  /\ ObjectOf(th) \in DOMAIN heap => Evolves(Object(th), heap'[ObjectOf(th)])
  /\ ObjectOf(th) \in DOMAIN heap' =>
       ObjectHolds(answered', heap'[ObjectOf(th)], own[ObjectOf(th)])
  /\ IF Greets(th)
     THEN DOMAIN heap' \subseteq DOMAIN heap \cup {ObjectOf(th)}
     ELSE /\ DOMAIN heap' = DOMAIN heap
          /\ ObjectOf(th) \in DOMAIN heap =>
               SameHandshake(Object(th), heap'[ObjectOf(th)])

\* The answers carry no value another handle_hello has drawn.
AnswersWell(th) ==
  \A u \in answered' :
    /\ AnswerHolds(u, fresh')
    /\ \A other \in Thread \ {th} :
         pc[other] = "keys" => ServerRandom(u) # local[other].draw

Moves(th, own) ==
  /\ begun' = begun /\ fresh' \in {fresh, fresh + 1}
  /\ local' = [other \in Thread |-> local'[other]]
  /\ OthersSame(th) /\ HeapMoves(th, own)
  /\ answered \subseteq answered' /\ AnswersWell(th)
  /\ ThreadHolds(th, own)'
  /\ Greets(th)' => Greets(th) /\ ObjectOf(th)' = ObjectOf(th)
  /\ pc'[th] = "keys" => local'[th].draw = fresh + 1
  /\ Stored(own)'
  /\ FlagEarnedOnBranch'

LEMMA RecordStays ==
  ASSUME NEW log, NEW more, log \subseteq more, NEW s, NEW sid,
         ObjectHolds(log, s, sid)
  PROVE  ObjectHolds(more, s, sid) /\ Evolves(s, s) /\ SameHandshake(s, s)
  <1>1. IsRecord(s) /\ SameHandshake(s, s)
    BY DEF ObjectHolds, SameHandshake
  <1>2. ObjectHolds(more, s, sid)
    BY <1>1, ObjectStays
  <1> QED
    BY <1>1, <1>2 DEF Evolves

LEMMA MovesHeapHolds ==
  ASSUME NEW own, Owned(own), NEW th \in Thread, Moves(th, own)
  PROVE  HeapHolds(own)'
  <1>1. DOMAIN heap' \subseteq 1 .. begun'
    <2>1. DOMAIN heap \subseteq 1 .. begun /\ begun' = begun
      BY DEF Owned, HeapHolds, Moves
    <2>2. CASE Greets(th)
      <3>1. ObjectOf(th) \in 1 .. begun
        BY <2>2 DEF Owned, ThreadHolds, GreetsWell
      <3> QED
        BY <2>1, <2>2, <3>1 DEF Moves, HeapMoves
    <2>3. CASE ~Greets(th)
      BY <2>1, <2>3 DEF Moves, HeapMoves
    <2> QED
      BY <2>2, <2>3
  <1>2. ASSUME NEW o \in DOMAIN heap'
        PROVE  ObjectHolds(answered', heap'[o], own[o])
    <2>1. CASE o = ObjectOf(th)
      BY <1>2, <2>1 DEF Moves, HeapMoves
    <2>2. CASE o # ObjectOf(th)
      <3>1. o \in DOMAIN heap /\ heap'[o] = heap[o]
        BY <1>2, <2>2 DEF Moves, HeapMoves
      <3>2. ObjectHolds(answered, heap[o], own[o]) /\ answered \subseteq answered'
        BY <3>1 DEF Owned, HeapHolds, Moves
      <3> QED
        BY <3>1, <3>2, RecordStays
    <2> QED
      BY <2>1, <2>2
  <1>3. heap' = [o \in DOMAIN heap' |-> heap'[o]]
    BY DEF Moves, HeapMoves
  <1> QED
    BY <1>1, <1>2, <1>3 DEF HeapHolds

LEMMA MovesOthersHold ==
  ASSUME NEW own, Owned(own), NEW th \in Thread, Moves(th, own),
         NEW other \in Thread, other # th
  PROVE  ThreadHolds(other, own)'
  <1> DEFINE o == ObjectOf(other)
  <1>1. /\ pc'[other] = pc[other] /\ frame'[other] = frame[other]
        /\ local'[other] = local[other] /\ answered \subseteq answered'
        /\ DOMAIN heap \subseteq DOMAIN heap'
    BY DEF Moves, OthersSame, HeapMoves
  <1>2. /\ fresh \in Nat /\ fresh' \in Nat /\ fresh' >= fresh
        /\ begun \in Nat /\ begun' \in Nat /\ begun' >= begun
    BY DEF Owned, Moves
  <1>3. o' = o
    BY <1>1 DEF ObjectOf
  <1>4. Object(other)' = heap'[o]
    BY <1>1 DEF Object, ObjectOf
  <1>5. Object(other) = heap[o] /\ Object(th) = heap[ObjectOf(th)]
    BY DEF Object, ObjectOf
  <1>6. o \in DOMAIN heap => Evolves(heap[o], heap[o]) /\ SameHandshake(heap[o], heap[o])
    BY RecordStays DEF Owned, HeapHolds
  <1>7. ThreadHolds(other, own)
    BY DEF Owned
  <1> HIDE DEF o
  <1>8. o \in DOMAIN heap => Evolves(Object(other), Object(other)')
    BY <1>4, <1>5, <1>6 DEF Moves, HeapMoves
  <1>9. ASSUME Greets(other)
        PROVE  IF o \in DOMAIN heap
               THEN SameHandshake(Object(other), Object(other)')
               ELSE o \notin DOMAIN heap'
    <2>1. Greets(th) => ObjectOf(th) # o
      BY <1>9 DEF Owned, GreetAlone, o
    <2> QED
      BY <1>4, <1>5, <1>6, <2>1 DEF Moves, HeapMoves
  <1>10. pc[other] = "keys" => \A u \in answered' : ServerRandom(u) # local[other].draw
    BY DEF Moves, AnswersWell
  <1> QED
    BY <1>1, <1>2, <1>7, <1>8, <1>9, <1>10, OtherHolds DEF o

LEMMA MovesGreetAlone ==
  ASSUME NEW own, Owned(own), NEW th \in Thread, Moves(th, own)
  PROVE  GreetAlone'
  <1>1. ASSUME NEW other \in Thread, other # th, Greets(th)', Greets(other)'
        PROVE  /\ ObjectOf(th)' # ObjectOf(other)'
               /\ pc'[th] = "keys" /\ pc'[other] = "keys" =>
                    local'[th].draw # local'[other].draw
    <2>1. pc'[other] = pc[other] /\ local'[other] = local[other]
      BY <1>1 DEF Moves, OthersSame
    <2>2. Greets(other) /\ ObjectOf(other)' = ObjectOf(other)
      BY <1>1, <2>1 DEF Greets, ObjectOf
    <2>3. Greets(th) /\ ObjectOf(th)' = ObjectOf(th)
      BY <1>1 DEF Moves
    <2>4. ObjectOf(th) # ObjectOf(other)
      BY <1>1, <2>2, <2>3 DEF Owned, GreetAlone
    <2>5. pc[other] = "keys" => local[other].draw \in 1 .. fresh /\ fresh \in Nat
      BY <2>2 DEF Owned, ThreadHolds, GreetsWell
    <2>6. pc'[th] = "keys" => local'[th].draw = fresh + 1
      BY DEF Moves
    <2> QED
      BY <2>1, <2>2, <2>3, <2>4, <2>5, <2>6
  <1>2. ASSUME NEW a \in Thread, NEW b \in Thread, a # b, a # th, b # th,
               Greets(a)', Greets(b)'
        PROVE  /\ ObjectOf(a)' # ObjectOf(b)'
               /\ pc'[a] = "keys" /\ pc'[b] = "keys" => local'[a].draw # local'[b].draw
    <2>1. /\ pc'[a] = pc[a] /\ local'[a] = local[a]
          /\ pc'[b] = pc[b] /\ local'[b] = local[b]
      BY <1>2 DEF Moves, OthersSame
    <2>2. /\ Greets(a) /\ ObjectOf(a)' = ObjectOf(a)
          /\ Greets(b) /\ ObjectOf(b)' = ObjectOf(b)
      BY <1>2, <2>1 DEF Greets, ObjectOf
    <2> QED
      BY <1>2, <2>1, <2>2 DEF Owned, GreetAlone
  <1> QED
    BY <1>1, <1>2 DEF GreetAlone

LEMMA MovesHold ==
  ASSUME NEW own, Owned(own), NEW th \in Thread, Moves(th, own)
  PROVE  Owned(own)'
  <1>1. begun' \in Nat /\ fresh' \in Nat
    BY DEF Owned, Moves
  <1>2. HeapHolds(own)' /\ Stored(own)' /\ GreetAlone'
    BY MovesHeapHolds, MovesGreetAlone DEF Moves
  <1>3. \A other \in Thread : ThreadHolds(other, own)'
    BY MovesOthersHold DEF Moves
  <1>4. \A u \in answered' : AnswerHolds(u, fresh')
    BY DEF Moves, AnswersWell
  <1>5. local' = [other \in Thread |-> local'[other]] /\ FlagEarnedOnBranch'
    BY DEF Moves
  <1> QED
    BY <1>1, <1>2, <1>3, <1>4, <1>5 DEF Owned
\* The parts of Moves most steps share.
LEMMA HeapSameMoves ==
  ASSUME NEW own, Owned(own), NEW th \in Thread, heap' = heap,
         answered \subseteq answered'
  PROVE  HeapMoves(th, own)
  <1>1. ASSUME NEW o \in DOMAIN heap
        PROVE  /\ ObjectHolds(answered', heap[o], own[o])
               /\ Evolves(heap[o], heap[o]) /\ SameHandshake(heap[o], heap[o])
    BY RecordStays DEF Owned, HeapHolds
  <1>2. heap = [o \in DOMAIN heap |-> heap[o]]
    BY DEF Owned, HeapHolds
  <1> QED
    BY <1>1, <1>2 DEF HeapMoves, Object, ObjectOf

LEMMA HeapUpdatedMoves ==
  ASSUME NEW own, Owned(own), NEW th \in Thread, ObjectOf(th) \in DOMAIN heap,
         NEW n, Updates(th, n), Evolves(Object(th), n),
         ObjectHolds(answered', n, own[ObjectOf(th)]),
         Greets(th) \/ SameHandshake(Object(th), n)
  PROVE  /\ HeapMoves(th, own)
         /\ DOMAIN heap' = DOMAIN heap /\ heap'[ObjectOf(th)] = n
  <1>1. /\ heap' = [o \in DOMAIN heap' |-> heap'[o]] /\ DOMAIN heap' = DOMAIN heap
        /\ heap'[ObjectOf(th)] = n
        /\ \A o \in DOMAIN heap : o # ObjectOf(th) => heap'[o] = heap[o]
    <2>1. heap' = [heap EXCEPT ![ObjectOf(th)] = n]
      BY DEF Updates, ObjectOf
    <2> QED
      BY <2>1
  <1> QED
    BY <1>1 DEF HeapMoves

LEMMA AnswersSameMoves ==
  ASSUME NEW own, Owned(own), NEW th \in Thread, answered' = answered,
         fresh' \in {fresh, fresh + 1}
  PROVE  AnswersWell(th)
  <1>1. ASSUME NEW other \in Thread, pc[other] = "keys", NEW u \in answered
        PROVE  ServerRandom(u) # local[other].draw
    BY <1>1 DEF Owned, ThreadHolds, GreetsWell, Greets
  <1>2. ASSUME NEW u \in answered
        PROVE  AnswerHolds(u, fresh')
    <2>1. AnswerHolds(u, fresh) /\ fresh \in Nat
      BY DEF Owned
    <2> QED
      BY <2>1 DEF AnswerHolds
  <1> QED
    BY <1>1, <1>2 DEF AnswersWell

LEMMA FlagStays ==
  ASSUME NEW own, Owned(own), issued' = issued, answered \subseteq answered'
  PROVE  FlagEarnedOnBranch'
  BY DEF Owned, FlagEarnedOnBranch

LEMMA StoredStays ==
  ASSUME NEW own, Owned(own), StoreSame, DOMAIN heap \subseteq DOMAIN heap'
  PROVE  Stored(own)'
  BY DEF Owned, Stored, StoreSame

\* The handler is over, or goes on.
LEMMA EndsMoves ==
  ASSUME NEW own, Owned(own), ThreadsInv, NEW th \in Thread, Ends(th)
  PROVE  /\ OthersSame(th) /\ local' = [other \in Thread |-> local'[other]]
         /\ ThreadHolds(th, own)' /\ ~Greets(th)' /\ pc'[th] # "keys"
  <1>1. /\ pc = [x \in Thread |-> pc[x]] /\ frame = [x \in Thread |-> frame[x]]
        /\ local = [x \in Thread |-> local[x]]
    BY DEF ThreadsInv, WellFormedThreads, Owned
  <1>2. /\ pc' = [pc EXCEPT ![th] = "idle"]
        /\ frame' = [frame EXCEPT ![th] = GenericError]
        /\ local' = [local EXCEPT ![th] = NewLocal]
    BY DEF Ends
  <1>3. OthersSame(th)
    BY <1>1, <1>2 DEF OthersSame
  <1>4. /\ pc'[th] = "idle" /\ local'[th] = NewLocal
        /\ local' = [x \in Thread |-> local'[x]]
    BY <1>1, <1>2
  <1>5. NewLocal = [x \in DOMAIN NewLocal |-> NewLocal[x]]
    BY DEF NewLocal
  <1>6. ~Greets(th)' /\ ~Proves(th)'
    BY <1>4 DEF Greets, Proves
  <1> QED
    BY <1>3, <1>4, <1>5, <1>6 DEF ThreadHolds

LEMMA GoesMoves ==
  ASSUME NEW own, Owned(own), ThreadsInv, NEW th \in Thread, NEW at, NEW l,
         GoesWith(th, at, l)
  PROVE  /\ OthersSame(th) /\ local' = [other \in Thread |-> local'[other]]
         /\ pc'[th] = at /\ frame' = frame /\ local'[th] = l
  BY DEF ThreadsInv, WellFormedThreads, Owned, GoesWith, OthersSame

\* A step that only ends the handler, whatever it does to the dictionary.
LEMMA RefusedMoves ==
  ASSUME NEW own, Owned(own), ThreadsInv, NEW th \in Thread, Raises(th),
         CountsSame, heap' = heap, Stored(own)'
  PROVE  Moves(th, own)
  <1>1. /\ begun' = begun /\ fresh' = fresh /\ answered' = answered
        /\ issued' = issued
    BY DEF CountsSame
  <1>2. HeapMoves(th, own) /\ AnswersWell(th) /\ FlagEarnedOnBranch'
    BY <1>1, HeapSameMoves, AnswersSameMoves, FlagStays
  <1>3. Ends(th)
    BY DEF Raises
  <1> QED
    BY <1>1, <1>2, <1>3, EndsMoves DEF Moves

\* One that only goes on.
LEMMA QuietMoves ==
  ASSUME NEW own, Owned(own), ThreadsInv, NEW th \in Thread, NEW at, NEW l,
         GoesWith(th, at, l), at # "keys", CountsSame, heap' = heap,
         Stored(own)', ThreadHolds(th, own)',
         Greets(th)' => Greets(th) /\ ObjectOf(th)' = ObjectOf(th)
  PROVE  Moves(th, own)
  <1>1. /\ begun' = begun /\ fresh' = fresh /\ answered' = answered
        /\ issued' = issued
    BY DEF CountsSame
  <1>2. HeapMoves(th, own) /\ AnswersWell(th) /\ FlagEarnedOnBranch'
    BY <1>1, HeapSameMoves, AnswersSameMoves, FlagStays
  <1>3. /\ OthersSame(th) /\ local' = [other \in Thread |-> local'[other]]
        /\ pc'[th] # "keys"
    BY GoesMoves
  <1> QED
    BY <1>1, <1>2, <1>3 DEF Moves

\* The place alone changes, within handle_hello.
LEMMA GreetsOn ==
  ASSUME NEW own, NEW th \in Thread, ThreadHolds(th, own), Greets(th),
         NEW at, at \in {"evict", "pop", "greet"}, pc'[th] = at,
         frame'[th] = frame[th], local'[th] = local[th],
         begun' = begun, answered' = answered,
         ObjectOf(th) \in DOMAIN heap', heap'[ObjectOf(th)].keys = {}
  PROVE  /\ ThreadHolds(th, own)'
         /\ Greets(th)' => Greets(th) /\ ObjectOf(th)' = ObjectOf(th)
  <1>1. /\ ObjectOf(th)' = ObjectOf(th) /\ SessionOf(th)' = SessionOf(th)
        /\ Object(th)' = heap'[ObjectOf(th)] /\ ~Proves(th)'
    BY DEF ObjectOf, SessionOf, Object, Proves
  <1>2. /\ ObjectOf(th) \in 1 .. begun /\ own[ObjectOf(th)] = SessionOf(th)
    BY DEF ThreadHolds, GreetsWell
  <1>3. GreetsWell(th, own)'
    BY <1>1, <1>2 DEF GreetsWell
  <1>4. HasKey(frame[th])'
    BY DEF ThreadHolds, Greets, HasKey
  <1>5. /\ DOMAIN local'[th] = DOMAIN NewLocal
        /\ local'[th] = [x \in DOMAIN NewLocal |-> local'[th][x]]
    BY DEF ThreadHolds
  <1> QED
    BY <1>1, <1>3, <1>4, <1>5 DEF ThreadHolds
-----------------------------------------------------------------------------
(***************************************************************************)
(* handle_hello.                                                           *)
(***************************************************************************)
\* The object of a thread in handle_hello, once it was created, is bare.
LEMMA GreetedObject ==
  ASSUME NEW own, Owned(own), NEW th \in Thread, Greets(th), pc[th] # "create"
  PROVE  /\ ObjectOf(th) \in DOMAIN heap /\ Bare(Object(th))
         /\ Object(th) = heap[ObjectOf(th)]
         /\ own[ObjectOf(th)] = SessionOf(th) /\ ThreadHolds(th, own)
  <1>1. ThreadHolds(th, own)
    BY DEF Owned
  <1>2. /\ ObjectOf(th) \in DOMAIN heap /\ Object(th).keys = {}
        /\ own[ObjectOf(th)] = SessionOf(th)
    BY <1>1 DEF ThreadHolds, GreetsWell
  <1>3. Object(th) = heap[ObjectOf(th)]
    BY DEF Object, ObjectOf
  <1>4. ObjectHolds(answered, Object(th), own[ObjectOf(th)])
    BY <1>2, <1>3 DEF Owned, HeapHolds
  <1>5. Bare(Object(th))
    BY <1>2, <1>4, BareIs
  <1> QED
    BY <1>1, <1>2, <1>3, <1>5

LEMMA CreateObjectMoves ==
  ASSUME NEW own, Owned(own), ThreadsInv, NEW th \in Thread, CreateObject(th)
  PROVE  Moves(th, own)
  <1> DEFINE new == ObjectOf(th)
             sid == SessionOf(th)
  <1>1. pc[th] = "create" /\ Greets(th) /\ ThreadHolds(th, own)
    BY DEF CreateObject, At, Greets, Owned
  <1>2. new \in 1 .. begun /\ own[new] = sid /\ new \notin DOMAIN heap
    BY <1>1 DEF ThreadHolds, GreetsWell
  <1>3. /\ heap' = [o \in DOMAIN heap \cup {new} |->
                      IF o = new THEN NewSession ELSE heap[o]]
        /\ order' = Insert(order, sid)
        /\ session' = [k \in Ids(order') |-> IF k = sid THEN new ELSE session[k]]
        /\ GoesWith(th, "evict", local[th]) /\ CountsSame
    BY DEF CreateObject, ObjectOf, Goes
  <1>4. /\ begun' = begun /\ fresh' = fresh /\ answered' = answered
        /\ issued' = issued
    BY <1>3 DEF CountsSame
  <1>5. AnswersWell(th) /\ FlagEarnedOnBranch'
    BY <1>4, AnswersSameMoves, FlagStays
  <1>6. /\ OthersSame(th) /\ local' = [other \in Thread |-> local'[other]]
        /\ pc'[th] = "evict" /\ frame' = frame /\ local'[th] = local[th]
    BY <1>3, GoesMoves
  <1>7. SessionOf(th) \in SessionId
    BY <1>1 DEF ThreadsInv, WellFormedThreads
  <1> HIDE DEF new
  <1>8. /\ DOMAIN heap' = DOMAIN heap \cup {new} /\ heap'[new] = NewSession
        /\ \A o \in DOMAIN heap : o # new => heap'[o] = heap[o]
        /\ heap' = [o \in DOMAIN heap' |-> heap'[o]]
    BY <1>3
  <1>9. HeapMoves(th, own)
    <2>1. ObjectHolds(answered', heap'[new], own[new])
      BY <1>8, NewIsBare, BareHolds
    <2> QED
      BY <1>1, <1>2, <1>8, <2>1 DEF HeapMoves, new
  <1>10. Stored(own)'
    <2>1. Ids(order') = Ids(order) \cup {sid}
      <3>1. CASE sid \in Ids(order)
        BY <1>3, <3>1, MoveToEndHolds DEF Insert, ThreadsInv
      <3>2. CASE sid \notin Ids(order)
        BY <1>3, <1>7, <3>2, AppendHolds DEF Insert, ThreadsInv
      <3> QED
        BY <3>1, <3>2
    <2>2. ASSUME NEW k \in Ids(order')
          PROVE  session'[k] \in DOMAIN heap' /\ own[session'[k]] = k
      <3>1. CASE k = sid
        BY <1>2, <1>3, <1>8, <3>1
      <3>2. CASE k # sid
        <4>1. k \in Ids(order) /\ session'[k] = session[k]
          BY <1>3, <2>1, <3>2
        <4> QED
          BY <1>8, <4>1 DEF Owned, Stored
      <3> QED
        BY <3>1, <3>2
    <2> QED
      BY <2>2 DEF Stored
  <1>11. NewSession.keys = {}
    BY DEF NewSession
  <1>12. /\ ThreadHolds(th, own)'
         /\ Greets(th)' => Greets(th) /\ ObjectOf(th)' = ObjectOf(th)
    BY <1>1, <1>4, <1>6, <1>8, <1>11, GreetsOn DEF new
  <1> QED
    BY <1>4, <1>5, <1>6, <1>9, <1>10, <1>12 DEF Moves

\* The loop of create.
LEMMA LoopMoves ==
  ASSUME NEW own, Owned(own), ThreadsInv, NEW th \in Thread,
         pc[th] \in {"evict", "pop"}, NEW at \in {"evict", "pop", "greet"},
         GoesWith(th, at, local[th]), heap' = heap, CountsSame, Stored(own)'
  PROVE  Moves(th, own)
  <1>1. Greets(th) /\ pc[th] # "create"
    BY DEF Greets
  <1>2. ObjectOf(th) \in DOMAIN heap /\ Bare(heap[ObjectOf(th)]) /\ ThreadHolds(th, own)
    BY <1>1, GreetedObject
  <1>3. /\ pc'[th] = at /\ frame' = frame /\ local'[th] = local[th]
        /\ begun' = begun /\ answered' = answered
    BY GoesMoves DEF CountsSame
  <1>4. /\ ThreadHolds(th, own)'
        /\ Greets(th)' => Greets(th) /\ ObjectOf(th)' = ObjectOf(th)
    BY <1>1, <1>2, <1>3, GreetsOn DEF Bare
  <1>5. at # "keys"
    OBVIOUS
  <1> QED
    BY <1>4, <1>5, QuietMoves

LEMMA TestLengthMoves ==
  ASSUME NEW own, Owned(own), ThreadsInv, NEW th \in Thread, TestLength(th)
  PROVE  Moves(th, own)
  <1>1. pc[th] = "evict" /\ heap' = heap /\ StoreSame /\ CountsSame
    BY DEF TestLength, At
  <1>2. \E at \in {"pop", "greet"} : GoesWith(th, at, local[th])
    BY DEF TestLength, Goes
  <1>3. Stored(own)'
    BY <1>1, StoredStays
  <1> QED
    BY <1>1, <1>2, <1>3, LoopMoves

LEMMA PopItemMoves ==
  ASSUME NEW own, Owned(own), ThreadsInv, NEW th \in Thread, PopItem(th)
  PROVE  Moves(th, own)
  <1>1. pc[th] = "pop" /\ heap' = heap /\ CountsSame
    BY DEF PopItem, At
  <1>2. CASE order = <<>>
    <2>1. StoreSame /\ Raises(th)
      BY <1>2 DEF PopItem
    <2>2. Stored(own)'
      BY <1>1, <2>1, StoredStays
    <2> QED
      BY <1>1, <2>1, <2>2, RefusedMoves
  <1>3. CASE order # <<>>
    <2>1. /\ order' = Tail(order) /\ session' = [k \in Ids(order') |-> session[k]]
          /\ GoesWith(th, "evict", local[th])
      BY <1>3 DEF PopItem, Goes
    <2>2. Ids(order') \subseteq Ids(order)
      BY <1>3, <2>1, TailHolds DEF ThreadsInv
    <2>3. Stored(own)'
      BY <1>1, <2>1, <2>2 DEF Owned, Stored
    <2> QED
      BY <1>1, <2>1, <2>3, LoopMoves
  <1> QED
    BY <1>2, <1>3

LEMMA HelloRefusedMoves ==
  ASSUME NEW own, Owned(own), ThreadsInv, NEW th \in Thread, HelloRefused(th)
  PROVE  Moves(th, own)
  <1>1. Raises(th) /\ heap' = heap /\ StoreSame /\ CountsSame
    BY DEF HelloRefused
  <1>2. Stored(own)'
    BY <1>1, StoredStays
  <1> QED
    BY <1>1, <1>2, RefusedMoves

\* A bare object stays bare.
LEMMA BareMoves ==
  ASSUME NEW own, Owned(own), NEW th \in Thread, Greets(th), pc[th] # "create",
         NEW n, Bare(n), Updates(th, n)
  PROVE  /\ HeapMoves(th, own)
         /\ DOMAIN heap' = DOMAIN heap /\ heap'[ObjectOf(th)] = n
  <1>1. ObjectOf(th) \in DOMAIN heap /\ Bare(Object(th))
    BY GreetedObject
  <1>2. Evolves(Object(th), n)
    BY <1>1 DEF Evolves, Bare, KeysUnknown
  <1>3. ObjectHolds(answered', n, own[ObjectOf(th)])
    BY BareHolds
  <1> QED
    BY <1>1, <1>2, <1>3, HeapUpdatedMoves, Zenon

LEMMA HelloRaisesMoves ==
  ASSUME NEW own, Owned(own), ThreadsInv, NEW th \in Thread, HelloRaises(th)
  PROVE  Moves(th, own)
  <1> DEFINE c == frame[th].body.counter
             user == frame[th].body.payload.username
             s == Accept(Object(th), c)
  <1>1. pc[th] = "greet" /\ Greets(th) /\ pc[th] # "create"
    BY DEF HelloRaises, At, Greets
  <1>2. Bare(Object(th))
    BY <1>1, GreetedObject
  <1>3. Bare(s) /\ Bare([s EXCEPT !.username_norm = user])
    BY <1>2, GreetedIsBare
  <1>4. Updates(th, s) \/ Updates(th, [s EXCEPT !.username_norm = user])
    BY DEF HelloRaises
  <1>5. HeapMoves(th, own) /\ DOMAIN heap' = DOMAIN heap
    BY <1>1, <1>3, <1>4, BareMoves
  <1>6. StoreSame /\ CountsSame /\ Ends(th)
    BY DEF HelloRaises, Raises
  <1>7. /\ begun' = begun /\ fresh' = fresh /\ answered' = answered
        /\ issued' = issued
    BY <1>6 DEF CountsSame
  <1>8. AnswersWell(th) /\ FlagEarnedOnBranch' /\ Stored(own)'
    BY <1>5, <1>6, <1>7, AnswersSameMoves, FlagStays, StoredStays
  <1> QED
    BY <1>5, <1>6, <1>7, <1>8, EndsMoves DEF Moves

LEMMA GreetMoves ==
  ASSUME NEW own, Owned(own), ThreadsInv, NEW th \in Thread, Greet(th)
  PROVE  Moves(th, own)
  <1> DEFINE c == frame[th].body.counter
             user == frame[th].body.payload.username
             k == NextServerCounter(Accept(Object(th), c))
             n == Greeted(Object(th), c, user, k)
             l == [local[th] EXCEPT !.n = k, !.draw = Draw]
  <1>1. pc[th] = "greet" /\ Greets(th) /\ pc[th] # "create"
    BY DEF Greet, At, Greets
  <1>2. /\ Bare(Object(th)) /\ ObjectOf(th) \in DOMAIN heap
        /\ own[ObjectOf(th)] = SessionOf(th) /\ ThreadHolds(th, own)
    BY <1>1, GreetedObject
  <1>3. Bare(n) /\ n.username_norm = user
    BY <1>2, GreetedIsNamed
  <1>4. /\ Updates(th, n) /\ GoesWith(th, "keys", l)
        /\ fresh' = Draw /\ StoreSame /\ begun' = begun /\ answered' = answered
        /\ issued' = issued
    BY DEF Greet, Greeted
  <1> HIDE DEF n, k
  <1>5. /\ HeapMoves(th, own)
        /\ DOMAIN heap' = DOMAIN heap /\ heap'[ObjectOf(th)] = n
    BY <1>1, <1>3, <1>4, BareMoves, Zenon
  <1>6. /\ OthersSame(th) /\ local' = [other \in Thread |-> local'[other]]
        /\ pc'[th] = "keys" /\ frame' = frame /\ local'[th] = l
    BY <1>4, GoesMoves
  <1>7. fresh' = fresh + 1 /\ fresh \in Nat
    BY <1>4 DEF Draw, Owned
  <1>8. AnswersWell(th) /\ FlagEarnedOnBranch' /\ Stored(own)'
    BY <1>4, <1>5, <1>7, AnswersSameMoves, FlagStays, StoredStays
  <1>9. /\ DOMAIN local[th] = DOMAIN NewLocal
        /\ local[th] = [x \in DOMAIN NewLocal |-> local[th][x]]
    BY <1>2 DEF ThreadHolds
  <1>10. /\ DOMAIN l = DOMAIN NewLocal /\ l.object = local[th].object
         /\ l.draw = fresh + 1 /\ l = [x \in DOMAIN NewLocal |-> l[x]]
    BY <1>9 DEF NewLocal, Draw
  <1> HIDE DEF l
  <1>11. /\ ObjectOf(th)' = ObjectOf(th) /\ SessionOf(th)' = SessionOf(th)
         /\ Object(th)' = n
    BY <1>5, <1>6, <1>10 DEF ObjectOf, SessionOf, Object
  <1>12. \A u \in answered : ServerRandom(u) # fresh + 1
    <2> TAKE u \in answered
    <2>1. AnswerHolds(u, fresh)
      BY DEF Owned
    <2> QED
      BY <1>7, <2>1 DEF AnswerHolds
  <1>13. GreetsWell(th, own)'
    <2>1. ObjectOf(th) \in 1 .. begun
      BY <1>1, <1>2 DEF ThreadHolds, GreetsWell
    <2> QED
      BY <1>2, <1>3, <1>4, <1>5, <1>6, <1>7, <1>10, <1>11, <1>12, <2>1
         DEF GreetsWell, Bare
  <1>14. ThreadHolds(th, own)'
    <2>1. HasKey(frame[th])'
      BY <1>1, <1>2, <1>4, <1>6 DEF ThreadHolds, HasKey
    <2>2. ~Proves(th)'
      BY <1>6 DEF Proves
    <2> QED
      BY <1>6, <1>10, <1>13, <2>1, <2>2 DEF ThreadHolds
  <1> QED
    BY <1>1, <1>4, <1>5, <1>6, <1>7, <1>8, <1>10, <1>11, <1>14 DEF Moves

\* The keys handle_hello stores are known to nobody yet: the value they come
\* with was carried by no answer.
LEMMA StoreKeysMoves ==
  ASSUME NEW own, Owned(own), ThreadsInv, NEW th \in Thread, StoreKeys(th)
  PROVE  Moves(th, own)
  <1> DEFINE f == frame[th]
             k == local[th].n
             draw == local[th].draw
             t == After(ServerChallenge(f, k, draw))
             n == HelloStored(Object(th), f, k, draw)
  <1>1. pc[th] = "keys" /\ Greets(th) /\ pc[th] # "create"
    BY DEF StoreKeys, At, Greets
  <1>2. /\ Bare(Object(th)) /\ ObjectOf(th) \in DOMAIN heap
        /\ own[ObjectOf(th)] = SessionOf(th) /\ ThreadHolds(th, own)
    BY <1>1, GreetedObject
  <1>3. /\ Object(th).username_norm = f.body.payload.username
        /\ draw \in 1 .. fresh /\ \A u \in answered : ServerRandom(u) # draw
    BY <1>1, <1>2 DEF ThreadHolds, GreetsWell
  <1>4. /\ Updates(th, n) /\ answered' = answered \cup {t} /\ Ends(th)
        /\ StoreSame /\ fresh' = fresh /\ issued' = issued /\ begun' = begun
    BY DEF StoreKeys, Returns
  <1>5. /\ ObjectHolds(answered', n, f.body.session_id)
        /\ n.keys = {t} /\ IsSequence(t) /\ Len(t) = 2 /\ Salt(t) = t
        /\ ServerRandom(t) = draw
    <2>1. Bare(Object(th)) /\ Object(th).username_norm = f.body.payload.username
      BY <1>2, <1>3
    <2>2. t \in answered'
      BY <1>4
    <2> HIDE DEF n, t
    <2>3. t = After(ServerChallenge(f, k, draw)) /\ n = HelloStored(Object(th), f, k, draw)
      BY DEF t, n
    <2> QED
      BY <2>1, <2>2, <2>3, HelloKeyed
  <1> HIDE DEF n, t
  <1>6. KeysUnknown(n)
    <2>1. t # BootstrapKey
      BY <1>5, SMTT(30) DEF BootstrapKey, Transcript0
    <2>2. ASSUME NEW v \in answered, t = DeriveKeys(Salt(v))
          PROVE  FALSE
      <3>1. IsSequence(v) /\ Len(v) >= 2
        BY DEF Owned, AnswerHolds
      <3>2. Salt(t) = Salt(v) /\ Len(t) >= 2
        BY <1>5, <2>2 DEF DeriveKeys
      <3>3. ServerRandom(t) = ServerRandom(v)
        BY <1>5, <3>1, <3>2, SaltTells
      <3> QED
        BY <1>3, <1>5, <3>3
    <2> QED
      BY <1>5, <2>1, <2>2 DEF KeysUnknown
  <1>7. Evolves(Object(th), n)
    BY <1>2, <1>6 DEF Evolves, Bare
  <1>8. own[ObjectOf(th)] = f.body.session_id
    BY <1>2 DEF SessionOf
  <1>9. HeapMoves(th, own) /\ DOMAIN heap' = DOMAIN heap
    BY <1>1, <1>2, <1>4, <1>5, <1>7, <1>8, HeapUpdatedMoves
  <1>10. AnswersWell(th)
    <2>1. ASSUME NEW u \in answered', NEW other \in Thread, other # th,
                 pc[other] = "keys"
          PROVE  ServerRandom(u) # local[other].draw
      <3>1. Greets(other) /\ ThreadHolds(other, own)
        BY <2>1 DEF Greets, Owned
      <3>2. \A v \in answered : ServerRandom(v) # local[other].draw
        BY <2>1, <3>1 DEF ThreadHolds, GreetsWell
      <3>3. draw # local[other].draw
        BY <1>1, <2>1, <3>1 DEF Owned, GreetAlone
      <3> QED
        BY <1>4, <1>5, <3>2, <3>3
    <2>2. ASSUME NEW u \in answered'
          PROVE  AnswerHolds(u, fresh')
      <3>1. CASE u = t
        BY <1>3, <1>4, <1>5, <3>1 DEF AnswerHolds
      <3>2. CASE u \in answered
        BY <1>4, <3>2 DEF Owned
      <3> QED
        BY <1>4, <3>1, <3>2
    <2> QED
      BY <2>1, <2>2 DEF AnswersWell
  <1>11. FlagEarnedOnBranch' /\ Stored(own)'
    BY <1>4, <1>9, FlagStays, StoredStays
  <1> QED
    BY <1>4, <1>9, <1>10, <1>11, EndsMoves DEF Moves
-----------------------------------------------------------------------------
(***************************************************************************)
(* handle_exchange and handle_finalize.                                    *)
(***************************************************************************)
\* The object of a thread that has looked one up.
LEMMA ProvingObject ==
  ASSUME NEW own, Owned(own), NEW th \in Thread, Proves(th)
  PROVE  /\ ObjectOf(th) \in DOMAIN heap /\ Object(th) = heap[ObjectOf(th)]
         /\ own[ObjectOf(th)] = SessionOf(th)
         /\ ObjectHolds(answered, Object(th), SessionOf(th))
         /\ ThreadHolds(th, own) /\ ProvesWell(th, own) /\ ~Greets(th)
         /\ HasKey(frame[th])
  <1>1. ThreadHolds(th, own)
    BY DEF Owned
  <1>2. /\ ProvesWell(th, own) /\ ObjectOf(th) \in DOMAIN heap
        /\ own[ObjectOf(th)] = SessionOf(th) /\ HasKey(frame[th])
    BY <1>1 DEF ThreadHolds, ProvesWell, Proves
  <1>3. Object(th) = heap[ObjectOf(th)]
    BY DEF Object, ObjectOf
  <1>4. ObjectHolds(answered, Object(th), SessionOf(th))
    BY <1>2, <1>3 DEF Owned, HeapHolds
  <1>5. ~Greets(th)
    BY DEF Greets, Proves
  <1> QED
    BY <1>1, <1>2, <1>3, <1>4, <1>5

\* The thread goes on with the object it has.
LEMMA ProvesOn ==
  ASSUME NEW own, Owned(own), ThreadsInv, NEW th \in Thread, Proves(th),
         NEW at, at \in {"accept", "check", "count", "store"}, NEW l,
         GoesWith(th, at, l), DOMAIN l = DOMAIN NewLocal,
         l = [x \in DOMAIN NewLocal |-> l[x]], l.object = local[th].object,
         DOMAIN heap' = DOMAIN heap, answered \subseteq answered',
         at = "check" => Restored(th)', at \in {"count", "store"} => Checked(th)'
  PROVE  ThreadHolds(th, own)' /\ ~Greets(th)'
  <1>1. pc'[th] = at /\ frame' = frame /\ local'[th] = l
    BY GoesMoves
  <1>2. /\ ObjectOf(th)' = ObjectOf(th) /\ SessionOf(th)' = SessionOf(th)
        /\ ~Greets(th)'
    BY <1>1 DEF ObjectOf, SessionOf, Greets
  <1>3. /\ ObjectOf(th) \in DOMAIN heap /\ own[ObjectOf(th)] = SessionOf(th)
        /\ HasKey(frame[th])
    BY ProvingObject
  <1>4. HasKey(frame[th])'
    BY <1>1, <1>3 DEF HasKey
  <1>5. ProvesWell(th, own)'
    BY <1>1, <1>2, <1>3 DEF ProvesWell
  <1> QED
    BY <1>1, <1>2, <1>4, <1>5 DEF ThreadHolds

\* Local variables of a thread are a record.
LEMMA LocalHolds ==
  ASSUME NEW own, Owned(own), NEW th \in Thread
  PROVE  /\ DOMAIN local[th] = DOMAIN NewLocal
         /\ local[th] = [x \in DOMAIN NewLocal |-> local[th][x]]
  BY DEF Owned, ThreadHolds

LEMMA LocalChanged ==
  ASSUME NEW own, Owned(own), NEW th \in Thread, NEW v, NEW l,
         \/ l = [local[th] EXCEPT !.t = v] \/ l = [local[th] EXCEPT !.draw = v]
         \/ l = [local[th] EXCEPT !.n = v] \/ l = local[th]
  PROVE  /\ DOMAIN l = DOMAIN NewLocal /\ l = [x \in DOMAIN NewLocal |-> l[x]]
         /\ l.object = local[th].object
         /\ l = [local[th] EXCEPT !.t = v] => l.t = v
  BY LocalHolds DEF NewLocal

LEMMA LookupMoves ==
  ASSUME NEW own, Owned(own), ThreadsInv, NEW th \in Thread, Lookup(th)
  PROVE  Moves(th, own)
  <1> DEFINE sid == SessionOf(th)
             l == [local[th] EXCEPT !.object = session[sid]]
  <1>1. pc[th] = "get" /\ heap' = heap /\ StoreSame /\ CountsSame
    BY DEF Lookup, At
  <1>2. Stored(own)'
    BY <1>1, StoredStays
  <1>3. CASE ~Known(sid)
    <2>1. Raises(th)
      BY <1>3 DEF Lookup
    <2> QED
      BY <1>1, <1>2, <2>1, RefusedMoves
  <1>4. CASE Known(sid)
    <2>1. GoesWith(th, "touch", l)
      BY <1>4 DEF Lookup
    <2>2. session[sid] \in DOMAIN heap /\ own[session[sid]] = sid
      BY <1>4 DEF Known, Owned, Stored
    <2>3. pc'[th] = "touch" /\ frame' = frame /\ local'[th] = l
      BY <2>1, GoesMoves
    <2>4. /\ DOMAIN l = DOMAIN NewLocal /\ l.object = session[sid]
          /\ l = [x \in DOMAIN NewLocal |-> l[x]]
      BY LocalHolds DEF NewLocal
    <2> HIDE DEF l
    <2>5. /\ ObjectOf(th)' = session[sid] /\ SessionOf(th)' = sid /\ ~Greets(th)'
      BY <2>3, <2>4 DEF ObjectOf, SessionOf, Greets
    <2>6. HasKey(frame[th])'
      <3>1. HasKey(frame[th])
        BY <1>1 DEF Owned, ThreadHolds
      <3> QED
        BY <1>1, <2>3, <3>1 DEF HasKey, CountsSame
    <2>7. ThreadHolds(th, own)'
      BY <1>1, <2>2, <2>3, <2>4, <2>5, <2>6 DEF ThreadHolds, ProvesWell
    <2>8. "touch" # "keys"
      OBVIOUS
    <2> QED
      BY <1>1, <1>2, <2>1, <2>5, <2>7, <2>8, QuietMoves
  <1> QED
    BY <1>3, <1>4

LEMMA TouchMoves ==
  ASSUME NEW own, Owned(own), ThreadsInv, NEW th \in Thread, Touch(th)
  PROVE  Moves(th, own)
  <1> DEFINE sid == SessionOf(th)
  <1>1. /\ pc[th] = "touch" /\ Proves(th) /\ heap' = heap /\ session' = session
        /\ CountsSame
    BY DEF Touch, At, Proves
  <1>2. CASE ~Known(sid)
    <2>1. Raises(th) /\ order' = order
      BY <1>2 DEF Touch
    <2>2. Stored(own)'
      BY <1>1, <2>1, StoredStays DEF StoreSame
    <2> QED
      BY <1>1, <2>1, <2>2, RefusedMoves
  <1>3. CASE Known(sid)
    <2>1. order' = MoveToEnd(order, sid) /\ GoesWith(th, "accept", local[th])
      BY <1>3 DEF Touch, Goes
    <2>2. Ids(order') = Ids(order)
      BY <1>3, <2>1, MoveToEndHolds DEF Known, ThreadsInv
    <2>3. Stored(own)'
      BY <1>1, <2>2 DEF Owned, Stored
    <2>4. /\ DOMAIN local[th] = DOMAIN NewLocal
          /\ local[th] = [x \in DOMAIN NewLocal |-> local[th][x]]
      BY LocalHolds
    <2>5. answered \subseteq answered'
      BY <1>1 DEF CountsSame
    <2>6. ThreadHolds(th, own)' /\ ~Greets(th)'
      BY <1>1, <2>1, <2>4, <2>5, ProvesOn
    <2>7. "accept" # "keys"
      OBVIOUS
    <2> QED
      BY <1>1, <2>1, <2>3, <2>6, <2>7, QuietMoves
  <1> QED
    BY <1>2, <1>3

\* A counter was stored in the object.
LEMMA RecountedMoves ==
  ASSUME NEW own, Owned(own), NEW th \in Thread, Proves(th), NEW n,
         Recounted(Object(th), n), Updates(th, n), answered \subseteq answered'
  PROVE  /\ HeapMoves(th, own) /\ DOMAIN heap' = DOMAIN heap
         /\ heap'[ObjectOf(th)] = n /\ Evolves(Object(th), n)
  <1>1. /\ ObjectOf(th) \in DOMAIN heap /\ own[ObjectOf(th)] = SessionOf(th)
        /\ ObjectHolds(answered, Object(th), SessionOf(th))
    BY ProvingObject
  <1>2. ObjectHolds(answered', n, own[ObjectOf(th)])
    BY <1>1, RecountedHolds
  <1>3. SameHandshake(Object(th), n) /\ Evolves(Object(th), n)
    BY DEF Recounted, Evolves
  <1> QED
    BY <1>1, <1>2, <1>3, HeapUpdatedMoves, Zenon

LEMMA AdmitMoves ==
  ASSUME NEW own, Owned(own), ThreadsInv, NEW th \in Thread, Admit(th)
  PROVE  Moves(th, own)
  <1> DEFINE s == Object(th)
             n == Accept(s, frame[th].body.counter)
             l == [local[th] EXCEPT !.t = s.transcript_state]
  <1>1. pc[th] = "accept" /\ Proves(th) /\ StoreSame /\ CountsSame
    BY DEF Admit, At, Proves
  <1>2. /\ begun' = begun /\ fresh' = fresh /\ answered' = answered
        /\ issued' = issued
    BY <1>1 DEF CountsSame
  <1>3. ObjectHolds(answered, s, SessionOf(th))
    BY <1>1, ProvingObject
  <1>4. Recounted(s, n)
    BY <1>3, AcceptRecounts DEF ObjectHolds
  <1>5. AnswersWell(th) /\ FlagEarnedOnBranch'
    BY <1>2, AnswersSameMoves, FlagStays
  <1>6. Updates(th, n) => /\ HeapMoves(th, own) /\ DOMAIN heap' = DOMAIN heap
                          /\ heap'[ObjectOf(th)] = n /\ Stored(own)'
    <2> HIDE DEF n
    <2> SUFFICES ASSUME Updates(th, n)
                 PROVE  /\ HeapMoves(th, own) /\ DOMAIN heap' = DOMAIN heap
                        /\ heap'[ObjectOf(th)] = n /\ Stored(own)'
      OBVIOUS
    <2>1. /\ HeapMoves(th, own) /\ DOMAIN heap' = DOMAIN heap
          /\ heap'[ObjectOf(th)] = n
      BY <1>1, <1>2, <1>4, RecountedMoves
    <2> QED
      BY <1>1, <2>1, StoredStays
  <1>7. CASE Raises(th) /\ heap' = heap
    BY <1>1, <1>7, StoredStays, RefusedMoves
  <1>8. CASE Raises(th) /\ Updates(th, n)
    BY <1>1, <1>2, <1>5, <1>6, <1>8, EndsMoves DEF Moves, Raises
  <1>9. CASE /\ GoesWith(th, "check", l) /\ Updates(th, n)
             /\ FinalizeType(frame[th]) => s.proof1_ok
    <2>1. /\ OthersSame(th) /\ local' = [other \in Thread |-> local'[other]]
          /\ pc'[th] = "check" /\ frame' = frame /\ local'[th] = l
      BY <1>9, GoesMoves
    <2>2. /\ DOMAIN l = DOMAIN NewLocal /\ l = [x \in DOMAIN NewLocal |-> l[x]]
          /\ l.object = local[th].object /\ l.t = s.transcript_state
      BY LocalChanged
    <2> HIDE DEF l
    <2>3. Object(th)' = n /\ SessionOf(th)' = SessionOf(th)
      BY <1>6, <1>9, <2>1, <2>2 DEF Object, SessionOf, ObjectOf
    <2>4. n.keys = s.keys /\ n.proof1_ok = s.proof1_ok
      BY <1>4 DEF Recounted, SameHandshake
    <2> HIDE DEF n
    <2>5. frame[th].key \in n.keys =>
            Handshake(answered, s.transcript_state, n, SessionOf(th))
      <3> SUFFICES ASSUME frame[th].key \in n.keys
                   PROVE  Handshake(answered, s.transcript_state, n, SessionOf(th))
        OBVIOUS
      <3>1. Handshake(answered, s.transcript_state, s, SessionOf(th))
        BY <1>3, <2>4 DEF ObjectHolds
      <3>2. SameHandshake(s, n)
        BY <1>4 DEF Recounted
      <3> QED
        BY <3>1, <3>2 DEF Handshake, SameHandshake
    <2>6. FinalizeType(frame[th]) => n.proof1_ok /\ HasSound(s.transcript_state)
      BY <1>3, <1>9, <2>4 DEF ObjectHolds
    <2> DEFINE same == FinalizeType(frame[th])
    <2>7. FinalizeType(frame[th])' = same
      BY <2>1 DEF FinalizeType
    <2>8. Restored(th)'
      BY <1>2, <2>1, <2>2, <2>3, <2>5, <2>6, <2>7 DEF Restored
    <2>9. ThreadHolds(th, own)' /\ ~Greets(th)'
      BY <1>1, <1>2, <1>6, <1>9, <2>2, <2>8, ProvesOn
    <2> QED
      BY <1>2, <1>5, <1>6, <1>9, <2>1, <2>9 DEF Moves
  <1> QED
    BY <1>7, <1>8, <1>9 DEF Admit, AcceptCounter

LEMMA ProofFailsMoves ==
  ASSUME NEW own, Owned(own), ThreadsInv, NEW th \in Thread, ProofFails(th)
  PROVE  Moves(th, own)
  <1>1. Raises(th) /\ heap' = heap /\ StoreSame /\ CountsSame
    BY DEF ProofFails
  <1>2. Stored(own)'
    BY <1>1, StoredStays
  <1> QED
    BY <1>1, <1>2, RefusedMoves

\* What the checks of handle_exchange and handle_finalize are worth: the key is
\* the object's, so the transcript that was restored is of its handshake.
LEMMA ValidChecks ==
  ASSUME NEW own, Owned(own), NEW th \in Thread, pc[th] = "check", Valid(th)
  PROVE  Checked(th)
  <1> DEFINE s == Object(th)
             f == frame[th]
             sid == SessionOf(th)
             p == f.body.payload
  <1>1. Proves(th)
    BY DEF Proves
  <1>2. Restored(th) /\ ObjectHolds(answered, s, sid)
    BY <1>1, ProvingObject DEF ProvesWell
  <1>3. /\ Seen(th).keys = s.keys /\ Seen(th).transcript_state = local[th].t
        /\ Seen(th).username_norm = s.username_norm /\ Seen(th).salt = s.salt
        /\ Seen(th).server_random = s.server_random
        /\ Seen(th).vm_digest = s.vm_digest
        /\ Seen(th).server_challenge2 = s.server_challenge2
    BY <1>2 DEF Seen, ObjectHolds, IsRecord, NewSession
  <1>4. f.prev = local[th].t /\ f.key \in s.keys
    BY <1>3 DEF Valid, OpensForSession, AeadOpen, Opens
  <1>5. Handshake(answered, f.prev, s, sid)
    BY <1>2, <1>4 DEF Restored
  <1>6. f.body.type = "CLIENT_PROOF_1" => SoundFor(s, sid, f)
    <2> SUFFICES ASSUME f.body.type = "CLIENT_PROOF_1" PROVE SoundFor(s, sid, f)
      OBVIOUS
    <2>1. ValidProof1(Seen(th), sid, p)
      BY DEF Valid, FinalizeType
    <2> QED
      BY <1>3, <2>1 DEF SoundFor, ValidProof1, ValidVm
  <1>7. FinalizeType(f) => PaidFor(answered, s, f)
    <2> SUFFICES ASSUME FinalizeType(f) PROVE PaidFor(answered, s, f)
      OBVIOUS
    <2>1. s.proof1_ok /\ HasSound(f.prev)
      BY <1>2, <1>4 DEF Restored
    <2>2. ValidProof2(Seen(th), p)
      BY DEF Valid, FinalizeType
    <2>3. \A k \in s.keys : k = DeriveKeys(s.salt)
      BY <1>5 DEF Handshake
    <2>4. p.proof2 = Proof2(DeriveKeys(s.salt), s.server_challenge2, s.server_random,
                            s.vm_digest, s.salt)
      BY <1>3, <2>2, <2>3 DEF ValidProof2
    <2>5. Backed(answered, s.salt, s.server_challenge2, s.vm_digest)
      BY <1>2, <2>1 DEF ObjectHolds
    <2> QED
      BY <2>1, <2>4, <2>5 DEF PaidFor
  <1> QED
    BY <1>5, <1>6, <1>7 DEF Checked

LEMMA ProofHoldsMoves ==
  ASSUME NEW own, Owned(own), ThreadsInv, NEW th \in Thread, ProofHolds(th)
  PROVE  Moves(th, own)
  <1>1. /\ pc[th] = "check" /\ Proves(th) /\ Valid(th) /\ heap' = heap /\ StoreSame
        /\ issued' = issued /\ begun' = begun /\ answered' = answered
    BY DEF ProofHolds, At, Proves, DrawsChallenge
  <1>2. fresh' \in {fresh, fresh + 1}
    BY DEF ProofHolds, DrawsChallenge, Draw
  <1>3. PICK l : /\ GoesWith(th, "count", l)
                 /\ l = local[th] \/ l = [local[th] EXCEPT !.draw = Draw]
    BY DEF ProofHolds, DrawsChallenge, Goes
  <1>4. /\ OthersSame(th) /\ local' = [other \in Thread |-> local'[other]]
        /\ pc'[th] = "count" /\ frame' = frame /\ local'[th] = l
    BY <1>3, GoesMoves
  <1>5. /\ DOMAIN l = DOMAIN NewLocal /\ l = [x \in DOMAIN NewLocal |-> l[x]]
        /\ l.object = local[th].object
    BY <1>3, LocalChanged
  <1>6. Object(th)' = Object(th) /\ frame'[th] = frame[th]
    BY <1>1, <1>4, <1>5 DEF Object
  <1>7. Evolves(Object(th), Object(th)')
    BY <1>6 DEF Evolves, SameHandshake
  <1>8. Checked(th)'
    BY <1>1, <1>6, <1>7, ValidChecks, OtherChecked
  <1>9. ThreadHolds(th, own)' /\ ~Greets(th)'
    BY <1>1, <1>3, <1>5, <1>8, ProvesOn
  <1>10. /\ HeapMoves(th, own) /\ AnswersWell(th) /\ FlagEarnedOnBranch'
         /\ Stored(own)'
    BY <1>1, <1>2, HeapSameMoves, AnswersSameMoves, FlagStays, StoredStays
  <1> QED
    BY <1>1, <1>2, <1>4, <1>9, <1>10 DEF Moves

LEMMA CountAnswerMoves ==
  ASSUME NEW own, Owned(own), ThreadsInv, NEW th \in Thread, CountAnswer(th)
  PROVE  Moves(th, own)
  <1> DEFINE s == Object(th)
             k == NextServerCounter(s)
             n == [s EXCEPT !.server_counter = k]
             l == [local[th] EXCEPT !.n = k]
  <1>1. /\ pc[th] = "count" /\ Proves(th) /\ StoreSame /\ CountsSame
        /\ Updates(th, n) /\ GoesWith(th, "store", l)
    BY DEF CountAnswer, At, Proves
  <1>2. /\ begun' = begun /\ fresh' = fresh /\ answered' = answered
        /\ issued' = issued
    BY <1>1 DEF CountsSame
  <1>3. ObjectHolds(answered, s, SessionOf(th)) /\ ProvesWell(th, own)
    BY <1>1, ProvingObject
  <1>4. Recounted(s, n)
    BY <1>3, ServerCounterRecounts DEF ObjectHolds
  <1> HIDE DEF n
  <1>5. /\ HeapMoves(th, own) /\ DOMAIN heap' = DOMAIN heap
        /\ heap'[ObjectOf(th)] = n /\ Evolves(s, n)
    BY <1>1, <1>2, <1>4, RecountedMoves
  <1>6. /\ OthersSame(th) /\ local' = [other \in Thread |-> local'[other]]
        /\ pc'[th] = "store" /\ frame' = frame /\ local'[th] = l
    BY <1>1, GoesMoves
  <1>7. /\ DOMAIN l = DOMAIN NewLocal /\ l = [x \in DOMAIN NewLocal |-> l[x]]
        /\ l.object = local[th].object
    BY LocalChanged
  <1> HIDE DEF l
  <1>8. Object(th)' = n /\ frame'[th] = frame[th]
    BY <1>5, <1>6, <1>7 DEF Object, ObjectOf
  <1>9. Checked(th)
    BY <1>1, <1>3 DEF ProvesWell
  <1>10. Checked(th)'
    BY <1>2, <1>5, <1>8, <1>9, OtherChecked
  <1>11. ThreadHolds(th, own)' /\ ~Greets(th)'
    BY <1>1, <1>2, <1>5, <1>7, <1>10, ProvesOn
  <1>12. AnswersWell(th) /\ FlagEarnedOnBranch' /\ Stored(own)'
    BY <1>1, <1>2, <1>5, AnswersSameMoves, FlagStays, StoredStays
  <1> QED
    BY <1>2, <1>5, <1>6, <1>11, <1>12 DEF Moves

\* An answer that goes on with an answered handshake carries its random value.
LEMMA ContinuedMoves ==
  ASSUME NEW own, Owned(own), NEW th \in Thread, NEW u, NEW s, NEW sid,
         Handshake(answered, u, s, sid), answered' = answered \cup {u},
         fresh' = fresh
  PROVE  AnswersWell(th)
  <1>1. PICK v \in answered : Salt(v) = Salt(u)
    BY DEF Handshake
  <1>2. AnswerHolds(v, fresh) /\ IsSequence(u) /\ Len(u) >= 2
    BY DEF Owned, Handshake
  <1>3. ServerRandom(u) = ServerRandom(v)
    BY <1>1, <1>2, SaltTells DEF AnswerHolds
  <1>4. \A w \in answered' : AnswerHolds(w, fresh')
    BY <1>2, <1>3 DEF AnswerHolds, Owned
  <1>5. ASSUME NEW other \in Thread, pc[other] = "keys", NEW w \in answered'
        PROVE  ServerRandom(w) # local[other].draw
    <2>1. \A x \in answered : ServerRandom(x) # local[other].draw
      BY <1>5 DEF Owned, ThreadHolds, GreetsWell, Greets
    <2> QED
      BY <1>3, <2>1
  <1> QED
    BY <1>4, <1>5 DEF AnswersWell

\* The end of both handlers.
LEMMA AnsweredMoves ==
  ASSUME NEW own, Owned(own), ThreadsInv, NEW th \in Thread, Proves(th), NEW u,
         Handshake(answered, u, Object(th), SessionOf(th)),
         answered' = answered \cup {u}, NEW n, Updates(th, n),
         SameHandshake(Object(th), n), n.proof1_ok,
         ObjectHolds(answered', n, SessionOf(th)),
         Ends(th), StoreSame, fresh' = fresh, begun' = begun, FlagEarnedOnBranch'
  PROVE  Moves(th, own)
  <1>1. ObjectOf(th) \in DOMAIN heap /\ own[ObjectOf(th)] = SessionOf(th)
    BY ProvingObject
  <1>2. Evolves(Object(th), n)
    BY DEF Evolves
  <1>3. HeapMoves(th, own) /\ DOMAIN heap' = DOMAIN heap
    BY <1>1, <1>2, HeapUpdatedMoves
  <1>4. AnswersWell(th)
    BY ContinuedMoves
  <1>5. Stored(own)'
    BY <1>3, StoredStays
  <1> QED
    BY <1>3, <1>4, <1>5, EndsMoves DEF Moves

LEMMA StoreProofMoves ==
  ASSUME NEW own, Owned(own), ThreadsInv, NEW th \in Thread, StoreProof(th)
  PROVE  Moves(th, own)
  <1> DEFINE s == Object(th)
             f == frame[th]
             sid == SessionOf(th)
             u == After(ServerProof(s, f, local[th].n, local[th].draw))
             n == ExchangeStored(s, f, local[th].n, local[th].draw)
  <1>1. /\ pc[th] = "store" /\ Proves(th) /\ StoreSame
        /\ f.body.type = "CLIENT_PROOF_1" /\ Updates(th, n) /\ Ends(th)
        /\ answered' = answered \cup {u}
        /\ fresh' = fresh /\ issued' = issued /\ begun' = begun
    BY DEF StoreProof, At, Proves, Returns
  <1>2. ObjectHolds(answered, s, sid) /\ Checked(th)
    BY <1>1, ProvingObject DEF ProvesWell
  <1>3. Handshake(answered, f.prev, s, sid) /\ SoundFor(s, sid, f)
    BY <1>1, <1>2 DEF Checked
  <1>4. /\ ObjectHolds(answered \cup {u}, n, sid) /\ SameHandshake(s, n)
        /\ n.proof1_ok = TRUE /\ Handshake(answered, u, s, sid)
    BY <1>2, <1>3, ExchangeKeyed
  <1> HIDE DEF u, n
  <1>5. FlagEarnedOnBranch'
    BY <1>1, FlagStays
  <1> QED
    BY <1>1, <1>4, <1>5, AnsweredMoves

LEMMA StoreFlagMoves ==
  ASSUME NEW own, Owned(own), ThreadsInv, NEW th \in Thread, StoreFlag(th)
  PROVE  Moves(th, own)
  <1> DEFINE s == Object(th)
             f == frame[th]
             sid == SessionOf(th)
             t == After(f)
             u == After(SealedFlag(s, f, local[th].n))
             n == [s EXCEPT !.transcript_state = u]
  <1>1. /\ pc[th] = "store" /\ Proves(th) /\ StoreSame
        /\ FinalizeType(f) /\ Updates(th, n) /\ Ends(th)
        /\ answered' = answered \cup {u} /\ issued' = issued \cup {t}
        /\ fresh' = fresh /\ begun' = begun
    BY DEF StoreFlag, At, Proves, Returns
  <1>2. ObjectHolds(answered, s, sid) /\ Checked(th)
    BY <1>1, ProvingObject DEF ProvesWell
  <1>3. Handshake(answered, f.prev, s, sid) /\ PaidFor(answered, s, f)
    BY <1>1, <1>2 DEF Checked
  <1>4. /\ ObjectHolds(answered \cup {u}, n, sid) /\ SameHandshake(s, n)
        /\ n.proof1_ok /\ Handshake(answered, u, s, sid) /\ HasSound(t)
        /\ OverAnswered(answered, t)
    <2> DEFINE k == local[th].n
    <2>1. /\ u = After(SealedFlag(s, f, k)) /\ n = [s EXCEPT !.transcript_state = u]
          /\ t = After(f)
      OBVIOUS
    <2>2. /\ ObjectHolds(answered, s, sid) /\ Handshake(answered, f.prev, s, sid)
          /\ PaidFor(answered, s, f)
      BY <1>2, <1>3
    <2> HIDE DEF u, n, t, k, s, f, sid
    <2> QED
      BY <2>1, <2>2, FlagKeyed
  <1> HIDE DEF u, n, t
  <1>5. FlagEarnedOnBranch'
    <2>1. \E i \in Positions(t, "CLIENT_PROOF_1") : SoundExchange(t, i)
      BY <1>4 DEF HasSound, Positions
    <2> QED
      BY <1>1, <1>4, <2>1 DEF Owned, FlagEarnedOnBranch, OverAnswered
  <1> QED
    BY <1>1, <1>4, <1>5, AnsweredMoves

LEMMA StepMoves ==
  ASSUME NEW own, Owned(own), ThreadsInv, NEW th \in Thread, Step(th)
  PROVE  Moves(th, own)
  BY CreateObjectMoves, TestLengthMoves, PopItemMoves, HelloRefusedMoves,
     HelloRaisesMoves, GreetMoves, StoreKeysMoves, LookupMoves, TouchMoves,
     AdmitMoves, ProofFailsMoves, ProofHoldsMoves, CountAnswerMoves,
     StoreProofMoves, StoreFlagMoves DEF Step
-----------------------------------------------------------------------------
(***************************************************************************)
(* A request begins; its object, if it is to have one, is for its id.      *)
(***************************************************************************)
LEMMA BeginOwned ==
  ASSUME NEW own, Owned(own), ThreadsInv, NEW th \in Thread, KeyedFrame(th),
         NEW new, new = [o \in Nat |-> IF o = begun' THEN frame'[th].body.session_id
                                                     ELSE own[o]]
  PROVE  Owned(new)'
  <1>1. PICK f : HasKey(f) /\ Begin(th, f)
    BY DEF KeyedFrame
  <1> DEFINE hello == f.body.type = "HELLO"
             at == IF hello THEN "create" ELSE "get"
             l == [local[th] EXCEPT !.object = IF hello THEN begun' ELSE 0]
  <1>2. /\ pc[th] = "idle" /\ begun' = begun + 1 /\ begun \in Nat /\ fresh \in Nat
        /\ pc' = [pc EXCEPT ![th] = at] /\ frame' = [frame EXCEPT ![th] = f]
        /\ local' = [local EXCEPT ![th] = l]
        /\ order' = order /\ session' = session /\ heap' = heap
        /\ fresh' = fresh /\ issued' = issued /\ answered' = answered
    BY <1>1 DEF Begin, At, Owned
  <1>3. /\ pc = [x \in Thread |-> pc[x]] /\ frame = [x \in Thread |-> frame[x]]
        /\ local = [x \in Thread |-> local[x]]
    BY DEF ThreadsInv, WellFormedThreads, Owned
  <1>4. /\ OthersSame(th) /\ local' = [x \in Thread |-> local'[x]]
        /\ pc'[th] = at /\ frame'[th] = f /\ local'[th] = l
    BY <1>2, <1>3 DEF OthersSame
  <1>5. /\ DOMAIN l = DOMAIN NewLocal /\ l = [x \in DOMAIN NewLocal |-> l[x]]
        /\ l.object = IF hello THEN begun + 1 ELSE 0
    BY <1>2, LocalHolds DEF NewLocal
  <1> HIDE DEF l
  <1>6. /\ \A o \in 1 .. begun : new[o] = own[o]
        /\ new[begun + 1] = f.body.session_id
    BY <1>2, <1>4
  <1>7. /\ DOMAIN heap \subseteq 1 .. begun /\ heap = [o \in DOMAIN heap |-> heap[o]]
        /\ \A o \in DOMAIN heap : ObjectHolds(answered, heap[o], own[o])
    BY DEF Owned, HeapHolds
  <1>8. HeapHolds(new)'
    BY <1>2, <1>6, <1>7 DEF HeapHolds
  <1>9. Stored(new)'
    BY <1>2, <1>6, <1>7 DEF Stored, Owned
  <1>10. ASSUME NEW other \in Thread, other # th
         PROVE  ThreadHolds(other, new)'
    <2> DEFINE o == ObjectOf(other)
    <2>1. ThreadHolds(other, own)
      BY DEF Owned
    <2>2. Greets(other) \/ Proves(other) => o \in 1 .. begun
      BY <1>7, <2>1 DEF ThreadHolds, GreetsWell, ProvesWell
    <2>3. /\ pc'[other] = pc[other] /\ frame'[other] = frame[other]
          /\ local'[other] = local[other]
      BY <1>4, <1>10 DEF OthersSame
    <2>4. Object(other)' = Object(other)
      BY <1>2, <2>3 DEF Object
    <2>5. o \in DOMAIN heap =>
            Evolves(Object(other), Object(other)) /\ SameHandshake(Object(other), Object(other))
      BY <1>7, RecordStays DEF Object, ObjectOf
    <2>6. pc[other] = "keys" => \A u \in answered' : ServerRandom(u) # local[other].draw
      BY <1>2, <2>1 DEF ThreadHolds, GreetsWell, Greets
    <2>7. Greets(other) \/ Proves(other) => new[o] = own[o]
      BY <1>6, <2>2
    <2> HIDE DEF o
    <2>8. o \in DOMAIN heap => Evolves(Object(other), Object(other)')
      BY <2>4, <2>5
    <2>9. Greets(other) => IF o \in DOMAIN heap
                           THEN SameHandshake(Object(other), Object(other)')
                           ELSE o \notin DOMAIN heap'
      BY <1>2, <2>4, <2>5
    <2>10. /\ answered \subseteq answered' /\ fresh' \in Nat /\ fresh' >= fresh
           /\ begun' \in Nat /\ begun' >= begun /\ DOMAIN heap \subseteq DOMAIN heap'
      BY <1>2
    <2> QED
      BY <1>2, <2>1, <2>3, <2>6, <2>7, <2>8, <2>9, <2>10, OtherHolds DEF o
  <1>11. ObjectOf(th)' = (IF hello THEN begun + 1 ELSE 0)
         /\ SessionOf(th)' = f.body.session_id
    BY <1>4, <1>5 DEF ObjectOf, SessionOf
  <1>12. ThreadHolds(th, new)'
    <2>1. HasKey(frame[th])'
      BY <1>1, <1>2, <1>4 DEF HasKey
    <2>2. ~Proves(th)'
      BY <1>4 DEF Proves
    <2>3. Greets(th)' => pc'[th] = "create" /\ hello
      BY <1>4 DEF Greets
    <2>4. Greets(th)' => GreetsWell(th, new)'
      BY <1>2, <1>6, <1>7, <1>11, <2>3 DEF GreetsWell
    <2> QED
      BY <1>4, <1>5, <2>1, <2>2, <2>4 DEF ThreadHolds
  <1>13. GreetAlone'
    <2>1. ASSUME NEW other \in Thread, other # th, Greets(other)'
          PROVE  /\ Greets(other) /\ ObjectOf(other)' = ObjectOf(other)
                 /\ ObjectOf(other) \in 1 .. begun
                 /\ pc'[other] = pc[other] /\ local'[other] = local[other]
      <3>1. pc'[other] = pc[other] /\ local'[other] = local[other]
        BY <1>4, <2>1 DEF OthersSame
      <3>2. Greets(other) /\ ThreadHolds(other, own)
        BY <2>1, <3>1 DEF Greets, Owned
      <3> QED
        BY <3>1, <3>2 DEF ThreadHolds, GreetsWell, ObjectOf
    <2>2. Greets(th)' => ObjectOf(th)' = begun + 1 /\ pc'[th] # "keys"
      BY <1>4, <1>11 DEF Greets
    <2>3. GreetAlone
      BY DEF Owned
    <2>4. ASSUME NEW a \in Thread, NEW b \in Thread, a # b, Greets(a)', Greets(b)'
          PROVE  /\ ObjectOf(a)' # ObjectOf(b)'
                 /\ pc'[a] = "keys" /\ pc'[b] = "keys" =>
                      local'[a].draw # local'[b].draw
      <3>1. CASE a = th
        BY <1>2, <2>1, <2>2, <2>4, <3>1
      <3>2. CASE b = th
        BY <1>2, <2>1, <2>2, <2>4, <3>2
      <3>3. CASE a # th /\ b # th
        BY <2>1, <2>3, <2>4, <3>3 DEF GreetAlone
      <3> QED
        BY <3>1, <3>2, <3>3
    <2> QED
      BY <2>4 DEF GreetAlone
  <1>14. /\ begun' \in Nat /\ fresh' \in Nat /\ FlagEarnedOnBranch'
         /\ \A u \in answered' : AnswerHolds(u, fresh')
    BY <1>2 DEF Owned, FlagEarnedOnBranch
  <1>15. \A other \in Thread : ThreadHolds(other, new)'
    BY <1>10, <1>12
  <1> QED
    BY <1>4, <1>8, <1>9, <1>13, <1>14, <1>15 DEF Owned

LEMMA BranchStep ==
  ASSUME BranchInv, [\E th \in Thread : Step(th) \/ KeyedFrame(th)]_threadVars
  PROVE  BranchInv'
  <1>1. PICK own : Owned(own)
    BY DEF BranchInv
  <1>2. ThreadsInv /\ ThreadsInv'
    <2>1. [\E th \in Thread : Step(th) \/ AnyFrame(th)]_threadVars
      BY DEF KeyedFrame, AnyFrame
    <2> QED
      BY <2>1, ThreadsStepKeepsInv DEF BranchInv
  <1>3. CASE UNCHANGED threadVars
    BY <1>1, <1>2, <1>3 DEF threadVars, BranchInv, Owned, HeapHolds, Stored,
       ThreadHolds, GreetAlone, FlagEarnedOnBranch, HasKey, GreetsWell, ProvesWell,
       Greets, Proves, ObjectOf, SessionOf, Object, Restored, Checked, FinalizeType
  <1>4. ASSUME NEW th \in Thread, Step(th)
        PROVE  \E new : Owned(new)'
    BY <1>1, <1>2, <1>4, StepMoves, MovesHold
  <1>5. ASSUME NEW th \in Thread, KeyedFrame(th)
        PROVE  \E new : Owned(new)'
    BY <1>1, <1>2, <1>5, BeginOwned
  <1> QED
    BY <1>2, <1>3, <1>4, <1>5 DEF BranchInv

LEMMA BranchInit == Init => BranchInv
  <1> SUFFICES ASSUME Init PROVE BranchInv
    OBVIOUS
  <1> DEFINE own == [o \in Nat |-> o]
  <1>1. /\ order = <<>> /\ session = <<>> /\ fresh = 0 /\ issued = {}
        /\ heap = <<>> /\ pc = [th \in Thread |-> "idle"]
        /\ local = [th \in Thread |-> NewLocal] /\ begun = 0 /\ answered = {}
    BY DEF Init, ServerInit
  <1>2. DOMAIN heap = {} /\ heap = [o \in DOMAIN heap |-> heap[o]]
    BY <1>1
  <1>3. HeapHolds(own)
    BY <1>2 DEF HeapHolds
  <1>4. Stored(own)
    BY <1>1 DEF Stored, Ids
  <1>5. \A th \in Thread : ~Greets(th) /\ ~Proves(th) /\ pc[th] = "idle"
    BY <1>1 DEF Greets, Proves
  <1>6. NewLocal = [x \in DOMAIN NewLocal |-> NewLocal[x]]
    BY DEF NewLocal
  <1>7. \A th \in Thread : ThreadHolds(th, own)
    BY <1>1, <1>5, <1>6 DEF ThreadHolds
  <1>8. GreetAlone /\ FlagEarnedOnBranch /\ \A u \in answered : AnswerHolds(u, fresh)
    BY <1>1, <1>5 DEF GreetAlone, FlagEarnedOnBranch
  <1>9. begun \in Nat /\ fresh \in Nat /\ local = [th \in Thread |-> local[th]]
    BY <1>1
  <1>10. Owned(own)
    BY <1>3, <1>4, <1>7, <1>8, <1>9 DEF Owned
  <1> QED
    BY <1>10, ThreadsInitInv DEF BranchInv

\* For every number of threads, every capacity and every number of requests that
\* overlap: the flag is sealed only for a transcript with a sound exchange in it
\* and for a proof over an exchange of the same handshake that was answered.
THEOREM ThreadedFlagEarned == KeyedSpec => []FlagEarnedOnBranch
  <1>1. BranchInv => FlagEarnedOnBranch
    BY DEF BranchInv, Owned
  <1> QED
    BY <1>1, BranchInit, BranchStep, PTL DEF KeyedSpec
-----------------------------------------------------------------------------
(***************************************************************************)
(* Answers and counters.                                                   *)
(***************************************************************************)
CounterOf(th) == frame[th].body.counter

\* The counter of th was compared and stored, and th is not over.
Accepted(th) == pc[th] \in {"check", "count", "store"}

\* u answered a counter of the object o, and no thread is at work on it again.
AnsweredBy(u, o) ==
  /\ heap[o].keys # {} /\ heap[o].salt = Salt(u)
  /\ u[Len(u) - 1].counter <= heap[o].client_counter
  /\ \A th \in Thread :
       Accepted(th) /\ ObjectOf(th) = o => CounterOf(th) # u[Len(u) - 1].counter

\* Counters are numbers, and one that was accepted is not above the object's.
CountersStored ==
  /\ \A o \in DOMAIN heap : heap[o].client_counter \in Nat
  /\ \A th \in Thread : pc[th] # "idle" => CounterOf(th) \in Nat
  /\ \A th \in Thread : Accepted(th) => CounterOf(th) <= Object(th).client_counter

\* No two threads are at work on one counter of an object.
AcceptedOnce ==
  \A a, b \in Thread :
    a # b /\ Accepted(a) /\ Accepted(b) /\ ObjectOf(a) = ObjectOf(b) =>
      CounterOf(a) # CounterOf(b)

\* A handshake is of one object.
SaltsDiffer ==
  \A o, p \in DOMAIN heap :
    o # p /\ heap[o].keys # {} /\ heap[p].keys # {} => heap[o].salt # heap[p].salt

AnswersCounted ==
  \A u \in answered :
    Len(u) > 2 => /\ u[Len(u) - 1].counter \in Nat
                  /\ \E o \in DOMAIN heap : AnsweredBy(u, o)

CountInv ==
  /\ CountersStored /\ AcceptedOnce /\ SaltsDiffer /\ AnswersCounted
  /\ CounterAnsweredOnce

\* The answer u of a thread whose counter was accepted.
AnswerCounted(th, u) ==
  /\ Accepted(th) /\ pc'[th] = "idle"
  /\ Object(th).keys # {} /\ Salt(u) = Object(th).salt
  /\ u[Len(u) - 1].counter = CounterOf(th)

\* What a step of th does to counters and answers.
Counting(th) ==
  /\ \A o \in DOMAIN heap' \ DOMAIN heap : heap'[o] = NewSession
  /\ ObjectOf(th) \in DOMAIN heap =>
       /\ heap'[ObjectOf(th)].client_counter \in Nat
       /\ heap'[ObjectOf(th)].client_counter >= Object(th).client_counter
  /\ pc'[th] # "idle" => pc[th] # "idle" /\ frame'[th] = frame[th]
  /\ Accepted(th)' =>
       /\ ObjectOf(th)' = ObjectOf(th) /\ ObjectOf(th) \in DOMAIN heap
       /\ \/ Accepted(th)
          \/ /\ CounterOf(th) > Object(th).client_counter
             /\ CounterOf(th) = heap'[ObjectOf(th)].client_counter
  /\ \/ answered' = answered
     \/ \E u : answered' = answered \cup {u} /\ (Len(u) > 2 => AnswerCounted(th, u))

\* What follows of a step for every object.
LEMMA HeapCounts ==
  ASSUME NEW own, Owned(own), CountInv, NEW th \in Thread, Moves(th, own),
         Counting(th)
  PROVE  /\ DOMAIN heap \subseteq DOMAIN heap'
         /\ \A o \in DOMAIN heap' : heap'[o].client_counter \in Nat
         /\ \A o \in DOMAIN heap :
              /\ heap[o].client_counter \in Nat
              /\ heap'[o].client_counter >= heap[o].client_counter
              /\ heap[o].keys # {} =>
                   heap'[o].keys # {} /\ heap'[o].salt = heap[o].salt
         /\ \A o \in DOMAIN heap' :
              heap'[o].keys # {} =>
                \/ o \in DOMAIN heap /\ heap[o].keys # {}
                \/ o = ObjectOf(th) /\ \A v \in answered : Salt(v) # heap'[o].salt
  <1> DEFINE mine == ObjectOf(th)
  <1>1. /\ DOMAIN heap \subseteq DOMAIN heap'
        /\ \A o \in DOMAIN heap : o # mine => heap'[o] = heap[o]
        /\ mine \in DOMAIN heap => Evolves(heap[mine], heap'[mine])
        /\ mine \in DOMAIN heap' => ObjectHolds(answered', heap'[mine], own[mine])
    BY DEF Moves, HeapMoves, Object, ObjectOf
  <1>2. \A o \in DOMAIN heap' \ DOMAIN heap :
          heap'[o].client_counter = 0 /\ heap'[o].keys = {}
    BY DEF Counting, NewSession
  <1>3. \A o \in DOMAIN heap : heap[o].client_counter \in Nat
    BY DEF CountInv, CountersStored
  <1>4. mine \in DOMAIN heap =>
          /\ heap'[mine].client_counter \in Nat
          /\ heap'[mine].client_counter >= heap[mine].client_counter
    BY DEF Counting, Object, ObjectOf
  <1>5. ASSUME mine \in DOMAIN heap, heap[mine].keys # {}
        PROVE  heap'[mine].keys # {} /\ heap'[mine].salt = heap[mine].salt
    BY <1>1, <1>5 DEF Evolves, SameHandshake
  <1>6. ASSUME mine \in DOMAIN heap, heap[mine].keys = {}, heap'[mine].keys # {}
        PROVE  \A v \in answered : Salt(v) # heap'[mine].salt
    <2>1. KeysUnknown(heap'[mine])
      BY <1>1, <1>6 DEF Evolves, SameHandshake
    <2>2. heap'[mine].keys = {DeriveKeys(heap'[mine].salt)}
      BY <1>1, <1>6 DEF ObjectHolds, Handshake
    <2> QED
      BY <2>1, <2>2 DEF KeysUnknown
  <1> HIDE DEF mine
  <1>7. \A o \in DOMAIN heap' : heap'[o].client_counter \in Nat
    BY <1>1, <1>2, <1>3, <1>4
  <1>8. \A o \in DOMAIN heap :
          /\ heap[o].client_counter \in Nat
          /\ heap'[o].client_counter >= heap[o].client_counter
          /\ heap[o].keys # {} =>
               heap'[o].keys # {} /\ heap'[o].salt = heap[o].salt
    BY <1>1, <1>3, <1>4, <1>5
  <1>9. ASSUME NEW o \in DOMAIN heap', heap'[o].keys # {},
               ~(o \in DOMAIN heap /\ heap[o].keys # {})
        PROVE  o = mine /\ \A v \in answered : Salt(v) # heap'[o].salt
    BY <1>1, <1>2, <1>6, <1>9
  <1> QED
    BY <1>1, <1>7, <1>8, <1>9 DEF mine

LEMMA OthersCount ==
  ASSUME NEW own, Owned(own), NEW th \in Thread, Moves(th, own),
         NEW x \in Thread, x # th
  PROVE  /\ pc'[x] = pc[x] /\ frame'[x] = frame[x]
         /\ Accepted(x)' = Accepted(x) /\ ObjectOf(x)' = ObjectOf(x)
         /\ CounterOf(x)' = CounterOf(x)
  <1>1. /\ pc'[x] = pc[x] /\ frame'[x] = frame[x] /\ local'[x] = local[x]
    BY DEF Moves, OthersSame
  <1> QED
    BY <1>1 DEF Accepted, ObjectOf, CounterOf

\* The object of a thread that was accepted.
LEMMA AcceptedObject ==
  ASSUME NEW own, Owned(own), CountInv, NEW x \in Thread, Accepted(x)
  PROVE  /\ ObjectOf(x) \in DOMAIN heap /\ CounterOf(x) \in Nat
         /\ heap[ObjectOf(x)].client_counter \in Nat
         /\ CounterOf(x) <= heap[ObjectOf(x)].client_counter
         /\ Object(x) = heap[ObjectOf(x)]
  <1>1. Proves(x) /\ pc[x] # "idle"
    BY DEF Accepted, Proves
  <1>2. ObjectOf(x) \in DOMAIN heap /\ Object(x) = heap[ObjectOf(x)]
    BY <1>1, ProvingObject
  <1> QED
    BY <1>1, <1>2 DEF CountInv, CountersStored

\* th after a step: its counter is the object's, or was there before.
LEMMA AcceptedNow ==
  ASSUME NEW own, Owned(own), CountInv, NEW th \in Thread, Moves(th, own),
         Counting(th), Accepted(th)'
  PROVE  /\ CounterOf(th)' = CounterOf(th) /\ ObjectOf(th)' = ObjectOf(th)
         /\ CounterOf(th) \in Nat /\ ObjectOf(th) \in DOMAIN heap
         /\ CounterOf(th) <= heap'[ObjectOf(th)].client_counter
         /\ Accepted(th) \/ CounterOf(th) > heap[ObjectOf(th)].client_counter
  <1>1. pc'[th] # "idle"
    BY DEF Accepted
  <1>2. frame'[th] = frame[th] /\ pc[th] # "idle"
    BY <1>1 DEF Counting
  <1>3. /\ CounterOf(th)' = CounterOf(th) /\ CounterOf(th) \in Nat
    BY <1>2 DEF CounterOf, CountInv, CountersStored
  <1>4. /\ ObjectOf(th)' = ObjectOf(th) /\ ObjectOf(th) \in DOMAIN heap
        /\ \/ Accepted(th)
           \/ /\ CounterOf(th) > heap[ObjectOf(th)].client_counter
              /\ CounterOf(th) = heap'[ObjectOf(th)].client_counter
    BY DEF Counting, Object, ObjectOf
  <1>5. CounterOf(th) <= heap'[ObjectOf(th)].client_counter
    <2>1. CASE Accepted(th)
      BY <1>3, <1>4, <2>1, AcceptedObject, HeapCounts
    <2>2. CASE ~Accepted(th)
      BY <1>3, <1>4, <2>2
    <2> QED
      BY <2>1, <2>2
  <1> QED
    BY <1>3, <1>4, <1>5

LEMMA CountersStoredStays ==
  ASSUME NEW own, Owned(own), CountInv, NEW th \in Thread, Moves(th, own),
         Counting(th)
  PROVE  CountersStored'
  <1>1. \A o \in DOMAIN heap' : heap'[o].client_counter \in Nat
    BY HeapCounts
  <1>2. ASSUME NEW x \in Thread, pc'[x] # "idle"
        PROVE  CounterOf(x)' \in Nat
    <2>1. CASE x = th
      <3>1. pc[th] # "idle" /\ frame'[th] = frame[th]
        BY <1>2, <2>1 DEF Counting
      <3> QED
        BY <2>1, <3>1 DEF CountInv, CountersStored, CounterOf
    <2>2. CASE x # th
      BY <1>2, <2>2, OthersCount DEF CountInv, CountersStored
    <2> QED
      BY <2>1, <2>2
  <1>3. ASSUME NEW x \in Thread, Accepted(x)'
        PROVE  CounterOf(x)' <= Object(x)'.client_counter
    <2>1. Object(x)' = heap'[ObjectOf(x)']
      BY DEF Object, ObjectOf
    <2>2. CASE x = th
      BY <1>3, <2>1, <2>2, AcceptedNow
    <2>3. CASE x # th
      <3>1. Accepted(x) /\ ObjectOf(x)' = ObjectOf(x) /\ CounterOf(x)' = CounterOf(x)
        BY <1>3, <2>3, OthersCount
      <3>2. /\ ObjectOf(x) \in DOMAIN heap /\ CounterOf(x) \in Nat
            /\ heap[ObjectOf(x)].client_counter \in Nat
            /\ CounterOf(x) <= heap[ObjectOf(x)].client_counter
        BY <3>1, AcceptedObject
      <3>3. /\ heap'[ObjectOf(x)].client_counter \in Nat
            /\ heap'[ObjectOf(x)].client_counter >= heap[ObjectOf(x)].client_counter
        BY <3>2, HeapCounts
      <3> QED
        BY <2>1, <3>1, <3>2, <3>3
    <2> QED
      BY <2>2, <2>3
  <1> QED
    BY <1>1, <1>2, <1>3 DEF CountersStored

LEMMA AcceptedOnceStays ==
  ASSUME NEW own, Owned(own), CountInv, NEW th \in Thread, Moves(th, own),
         Counting(th)
  PROVE  AcceptedOnce'
  <1>1. ASSUME NEW x \in Thread, x # th, Accepted(x)', Accepted(th)',
               ObjectOf(x)' = ObjectOf(th)'
        PROVE  CounterOf(x)' # CounterOf(th)'
    <2>1. Accepted(x) /\ ObjectOf(x)' = ObjectOf(x) /\ CounterOf(x)' = CounterOf(x)
      BY <1>1, OthersCount
    <2>2. /\ CounterOf(th)' = CounterOf(th) /\ ObjectOf(th)' = ObjectOf(th)
          /\ CounterOf(th) \in Nat
          /\ Accepted(th) \/ CounterOf(th) > heap[ObjectOf(th)].client_counter
      BY <1>1, AcceptedNow
    <2>3. /\ CounterOf(x) \in Nat /\ heap[ObjectOf(x)].client_counter \in Nat
          /\ CounterOf(x) <= heap[ObjectOf(x)].client_counter
      BY <2>1, AcceptedObject
    <2>4. ObjectOf(x) = ObjectOf(th)
      BY <1>1, <2>1, <2>2, Zenon
    <2>5. CASE Accepted(th)
      <3>1. CounterOf(x) # CounterOf(th)
        BY <1>1, <2>1, <2>4, <2>5, Zenon DEF CountInv, AcceptedOnce
      <3> QED
        BY <2>1, <2>2, <3>1, Zenon
    <2>6. CASE CounterOf(th) > heap[ObjectOf(th)].client_counter
      <3>1. CounterOf(x) # CounterOf(th)
        BY <2>2, <2>3, <2>4, <2>6
      <3> QED
        BY <2>1, <2>2, <3>1, Zenon
    <2> QED
      BY <2>2, <2>5, <2>6, Zenon
  <1>2. ASSUME NEW a \in Thread, NEW b \in Thread, a # b, a # th, b # th,
               Accepted(a)', Accepted(b)', ObjectOf(a)' = ObjectOf(b)'
        PROVE  CounterOf(a)' # CounterOf(b)'
    <2>1. /\ Accepted(a) /\ ObjectOf(a)' = ObjectOf(a) /\ CounterOf(a)' = CounterOf(a)
          /\ Accepted(b) /\ ObjectOf(b)' = ObjectOf(b) /\ CounterOf(b)' = CounterOf(b)
      BY <1>2, OthersCount
    <2> QED
      BY <1>2, <2>1 DEF CountInv, AcceptedOnce
  <1> QED
    BY <1>1, <1>2 DEF AcceptedOnce

LEMMA SaltsDifferStays ==
  ASSUME NEW own, Owned(own), CountInv, NEW th \in Thread, Moves(th, own),
         Counting(th)
  PROVE  SaltsDiffer'
  <1> DEFINE Old(o) == o \in DOMAIN heap /\ heap[o].keys # {}
             New(o) == /\ o = ObjectOf(th)
                       /\ \A v \in answered : Salt(v) # heap'[o].salt
  <1>1. \A o \in DOMAIN heap' : heap'[o].keys # {} => Old(o) \/ New(o)
    BY HeapCounts
  <1>2. ASSUME NEW o, Old(o)
        PROVE  heap'[o].salt = heap[o].salt /\ \E v \in answered : Salt(v) = heap[o].salt
    <2>1. heap'[o].salt = heap[o].salt
      BY <1>2, HeapCounts
    <2>2. ObjectHolds(answered, heap[o], own[o])
      BY <1>2 DEF Owned, HeapHolds
    <2> QED
      BY <1>2, <2>1, <2>2 DEF ObjectHolds, Handshake
  <1>3. \A o, p : Old(o) /\ Old(p) /\ o # p => heap[o].salt # heap[p].salt
    BY DEF CountInv, SaltsDiffer
  <1>4. ASSUME NEW o \in DOMAIN heap', NEW p \in DOMAIN heap', o # p,
               heap'[o].keys # {}, heap'[p].keys # {}
        PROVE  heap'[o].salt # heap'[p].salt
    <2>1. (Old(o) \/ New(o)) /\ (Old(p) \/ New(p))
      BY <1>1, <1>4
    <2>2. CASE Old(o) /\ Old(p)
      BY <1>2, <1>3, <1>4, <2>2
    <2>3. CASE Old(o) /\ New(p)
      <3> HIDE DEF Old
      <3> QED
        BY <1>2, <2>3
    <2>4. CASE New(o) /\ Old(p)
      <3> HIDE DEF Old
      <3> QED
        BY <1>2, <2>4
    <2> QED
      BY <1>4, <2>1, <2>2, <2>3, <2>4
  <1> QED
    BY <1>4 DEF SaltsDiffer

\* An answer stays with its object.
LEMMA AnsweredByStays ==
  ASSUME NEW own, Owned(own), CountInv, NEW th \in Thread, Moves(th, own),
         Counting(th), NEW u, u[Len(u) - 1].counter \in Nat,
         NEW o \in DOMAIN heap, AnsweredBy(u, o)
  PROVE  o \in DOMAIN heap' /\ AnsweredBy(u, o)'
  <1> DEFINE c == u[Len(u) - 1].counter
  <1>1. /\ heap[o].keys # {} /\ heap[o].salt = Salt(u)
        /\ c <= heap[o].client_counter
        /\ \A x \in Thread : Accepted(x) /\ ObjectOf(x) = o => CounterOf(x) # c
    BY DEF AnsweredBy
  <1>2. /\ o \in DOMAIN heap' /\ heap[o].client_counter \in Nat
        /\ heap'[o].client_counter \in Nat
        /\ heap'[o].client_counter >= heap[o].client_counter
        /\ heap'[o].keys # {} /\ heap'[o].salt = heap[o].salt
    BY <1>1, HeapCounts
  <1> HIDE DEF c
  <1>3. c \in Nat
    BY DEF c
  <1>4. ASSUME NEW x \in Thread, Accepted(x)', ObjectOf(x)' = o
        PROVE  CounterOf(x)' # c
    <2>1. CASE x = th
      <3>1. /\ CounterOf(th)' = CounterOf(th) /\ ObjectOf(th) = o
            /\ CounterOf(th) \in Nat
            /\ Accepted(th) \/ CounterOf(th) > heap[o].client_counter
        BY <1>4, <2>1, AcceptedNow
      <3>2. CASE Accepted(th)
        BY <1>1, <2>1, <3>1, <3>2
      <3>3. CASE CounterOf(th) > heap[o].client_counter
        BY <1>1, <1>2, <1>3, <2>1, <3>1, <3>3
      <3> QED
        BY <3>1, <3>2, <3>3
    <2>2. CASE x # th
      BY <1>1, <1>4, <2>2, OthersCount
    <2> QED
      BY <2>1, <2>2
  <1>5. c <= heap'[o].client_counter
    BY <1>1, <1>2, <1>3
  <1> QED
    BY <1>1, <1>2, <1>4, <1>5 DEF AnsweredBy, c

LEMMA AnswersCountedStays ==
  ASSUME NEW own, Owned(own), CountInv, NEW th \in Thread, Moves(th, own),
         Counting(th)
  PROVE  AnswersCounted'
  <1>1. ASSUME NEW u \in answered, Len(u) > 2
        PROVE  /\ u[Len(u) - 1].counter \in Nat
               /\ \E o \in DOMAIN heap' : AnsweredBy(u, o)'
    <2>1. /\ u[Len(u) - 1].counter \in Nat
          /\ \E o \in DOMAIN heap : AnsweredBy(u, o)
      BY <1>1 DEF CountInv, AnswersCounted
    <2>2. PICK o \in DOMAIN heap : AnsweredBy(u, o)
      BY <2>1
    <2>3. o \in DOMAIN heap' /\ AnsweredBy(u, o)'
      BY <2>1, <2>2, AnsweredByStays
    <2> QED
      BY <2>1, <2>3
  <1>2. ASSUME NEW u, AnswerCounted(th, u)
        PROVE  /\ u[Len(u) - 1].counter \in Nat
               /\ \E o \in DOMAIN heap' : AnsweredBy(u, o)'
    <2>0. PICK o, c : o = ObjectOf(th) /\ c = CounterOf(th)
      OBVIOUS
    <2>1. /\ Accepted(th) /\ pc'[th] = "idle"
          /\ Object(th).keys # {} /\ Salt(u) = Object(th).salt
          /\ u[Len(u) - 1].counter = c
      BY <1>2, <2>0 DEF AnswerCounted
    <2>2. /\ o \in DOMAIN heap /\ c \in Nat /\ heap[o].client_counter \in Nat
          /\ c <= heap[o].client_counter /\ Object(th) = heap[o]
      BY <2>0, <2>1, AcceptedObject
    <2>3. /\ o \in DOMAIN heap' /\ heap'[o].client_counter \in Nat
          /\ heap'[o].client_counter >= heap[o].client_counter
          /\ heap'[o].keys # {} /\ heap'[o].salt = heap[o].salt
      BY <2>1, <2>2, HeapCounts
    <2>4. ASSUME NEW x \in Thread, Accepted(x)', ObjectOf(x)' = o
          PROVE  CounterOf(x)' # c
      <3>1. x # th
        BY <2>1, <2>4 DEF Accepted
      <3>2. Accepted(x) /\ ObjectOf(x) = o /\ CounterOf(x)' = CounterOf(x)
        BY <2>4, <3>1, OthersCount
      <3> QED
        BY <2>0, <2>1, <3>1, <3>2 DEF CountInv, AcceptedOnce
    <2>5. c <= heap'[o].client_counter
      BY <2>2, <2>3
    <2>6. AnsweredBy(u, o)'
      BY <2>1, <2>2, <2>3, <2>4, <2>5 DEF AnsweredBy
    <2> QED
      BY <2>1, <2>2, <2>3, <2>6
  <1>3. ASSUME NEW u \in answered', Len(u) > 2, u \notin answered
        PROVE  AnswerCounted(th, u)
    BY <1>3 DEF Counting
  <1> QED
    BY <1>1, <1>2, <1>3 DEF AnswersCounted

\* The answer of th to a counter that was answered already: its object would have
\* been at work on it twice.
LEMMA AnsweredOnceStays ==
  ASSUME NEW own, Owned(own), CountInv, NEW th \in Thread, Moves(th, own),
         Counting(th)
  PROVE  CounterAnsweredOnce'
  <1>1. ASSUME NEW u, AnswerCounted(th, u), NEW t \in answered, Len(t) > 2,
               Salt(t) = Salt(u)
        PROVE  t[Len(t) - 1].counter # u[Len(u) - 1].counter
    <2>1. /\ Accepted(th) /\ Object(th).keys # {} /\ Salt(u) = Object(th).salt
          /\ u[Len(u) - 1].counter = CounterOf(th)
      BY <1>1 DEF AnswerCounted
    <2>2. ObjectOf(th) \in DOMAIN heap /\ Object(th) = heap[ObjectOf(th)]
      BY <2>1, AcceptedObject
    <2>3. PICK o \in DOMAIN heap : AnsweredBy(t, o)
      BY <1>1 DEF CountInv, AnswersCounted
    <2> DEFINE p == ObjectOf(th)
    <2>4. /\ heap[o].keys # {} /\ heap[o].salt = Salt(t)
          /\ \A x \in Thread :
               Accepted(x) /\ ObjectOf(x) = o => CounterOf(x) # t[Len(t) - 1].counter
      BY <2>3, Zenon DEF AnsweredBy
    <2>5. heap[p].keys # {} /\ heap[p].salt = Salt(t) /\ p \in DOMAIN heap
      BY <1>1, <2>1, <2>2, Zenon
    <2>6. \A a, b \in DOMAIN heap :
            a # b /\ heap[a].keys # {} /\ heap[b].keys # {} => heap[a].salt # heap[b].salt
      BY Zenon DEF CountInv, SaltsDiffer
    <2> HIDE DEF p
    <2>7. o = p
      BY <2>4, <2>5, <2>6, Zenon
    <2>8. CounterOf(th) # t[Len(t) - 1].counter
      BY <2>1, <2>4, <2>7, Zenon DEF p
    <2> QED
      BY <2>1, <2>8, Zenon
  <1>2. CASE answered' = answered
    BY <1>2 DEF CountInv, CounterAnsweredOnce
  <1>3. ASSUME NEW u, answered' = answered \cup {u},
               Len(u) > 2 => AnswerCounted(th, u)
        PROVE  CounterAnsweredOnce'
    <2>1. \A t, v \in answered :
            t # v /\ Len(t) > 2 /\ Len(v) > 2 /\ Salt(t) = Salt(v) =>
              t[Len(t) - 1].counter # v[Len(v) - 1].counter
      BY DEF CountInv, CounterAnsweredOnce
    <2>2. ASSUME Len(u) > 2, NEW t \in answered, Len(t) > 2, Salt(t) = Salt(u)
          PROVE  t[Len(t) - 1].counter # u[Len(u) - 1].counter
      BY <1>1, <1>3, <2>2
    <2> QED
      BY <1>3, <2>1, <2>2 DEF CounterAnsweredOnce
  <1> QED
    BY <1>2, <1>3 DEF Counting

LEMMA CountingHolds ==
  ASSUME NEW own, Owned(own), CountInv, NEW th \in Thread, Moves(th, own),
         Counting(th)
  PROVE  CountInv'
  BY CountersStoredStays, AcceptedOnceStays, SaltsDifferStays, AnswersCountedStays,
     AnsweredOnceStays DEF CountInv

\* The parts of Counting.
ObjectCounts(th) ==
  /\ \A o \in DOMAIN heap' \ DOMAIN heap : heap'[o] = NewSession
  /\ ObjectOf(th) \in DOMAIN heap =>
       /\ heap'[ObjectOf(th)].client_counter \in Nat
       /\ heap'[ObjectOf(th)].client_counter >= Object(th).client_counter

LEMMA HeapSameCounts ==
  ASSUME CountInv, NEW th \in Thread, heap' = heap
  PROVE  ObjectCounts(th)
  BY DEF CountInv, CountersStored, ObjectCounts, Object, ObjectOf

LEMMA HeapUpdatedCounts ==
  ASSUME CountInv, NEW th \in Thread, ObjectOf(th) \in DOMAIN heap, NEW n,
         Updates(th, n), n.client_counter \in Nat,
         n.client_counter >= Object(th).client_counter
  PROVE  ObjectCounts(th) /\ heap'[ObjectOf(th)] = n
  <1>1. heap' = [heap EXCEPT ![ObjectOf(th)] = n]
    BY DEF Updates, ObjectOf
  <1>2. DOMAIN heap' = DOMAIN heap /\ heap'[ObjectOf(th)] = n
    BY <1>1
  <1> QED
    BY <1>2 DEF ObjectCounts

LEMMA EndsCounts ==
  ASSUME NEW own, Owned(own), ThreadsInv, NEW th \in Thread, Ends(th),
         ObjectCounts(th),
         \/ answered' = answered
         \/ \E u : /\ answered' = answered \cup {u}
                   /\ Len(u) > 2 => AnswerCounted(th, u)
  PROVE  Counting(th)
  <1>1. pc'[th] = "idle"
    BY DEF Ends, ThreadsInv, WellFormedThreads
  <1> QED
    BY <1>1 DEF Counting, ObjectCounts, Accepted

LEMMA GoesCounts ==
  ASSUME NEW own, Owned(own), ThreadsInv, NEW th \in Thread, NEW at, NEW l,
         GoesWith(th, at, l), pc[th] # "idle", ObjectCounts(th),
         answered' = answered,
         at \in {"check", "count", "store"} =>
           /\ Proves(th) /\ l.object = local[th].object
           /\ \/ Accepted(th)
              \/ /\ CounterOf(th) > Object(th).client_counter
                 /\ CounterOf(th) = heap'[ObjectOf(th)].client_counter
  PROVE  Counting(th)
  <1>1. pc'[th] = at /\ frame' = frame /\ local'[th] = l
    BY GoesMoves
  <1>2. Accepted(th)' => at \in {"check", "count", "store"}
    BY <1>1 DEF Accepted
  <1>3. l.object = local[th].object => ObjectOf(th)' = ObjectOf(th)
    BY <1>1 DEF ObjectOf
  <1>4. Proves(th) => ObjectOf(th) \in DOMAIN heap
    BY ProvingObject
  <1> QED
    BY <1>1, <1>2, <1>3, <1>4 DEF Counting, ObjectCounts

\* A counter that Acceptable lets through.
LEMMA AcceptableCounts ==
  ASSUME CountInv, NEW th \in Thread, pc[th] # "idle", ObjectOf(th) \in DOMAIN heap,
         Acceptable(Object(th), frame[th].body.counter)
  PROVE  /\ CounterOf(th) \in Nat /\ Object(th).client_counter \in Nat
         /\ CounterOf(th) > Object(th).client_counter
  BY DEF CountInv, CountersStored, Acceptable, Object, ObjectOf, CounterOf

LEMMA HelloCounts ==
  ASSUME NEW own, Owned(own), ThreadsInv, CountInv, NEW th \in Thread,
         \/ CreateObject(th) \/ TestLength(th) \/ PopItem(th) \/ HelloRefused(th)
         \/ HelloRaises(th) \/ Greet(th)
  PROVE  Counting(th)
  <1>1. CASE CreateObject(th)
    <2>1. /\ heap' = [o \in DOMAIN heap \cup {ObjectOf(th)} |->
                        IF o = ObjectOf(th) THEN NewSession ELSE heap[o]]
          /\ GoesWith(th, "evict", local[th]) /\ answered' = answered
          /\ pc[th] = "create"
      BY <1>1 DEF CreateObject, Goes, CountsSame, At, ObjectOf
    <2>2. ObjectOf(th) \notin DOMAIN heap
      BY <2>1 DEF Owned, ThreadHolds, GreetsWell, Greets
    <2>3. ObjectCounts(th)
      BY <2>1, <2>2 DEF ObjectCounts
    <2> QED
      BY <2>1, <2>3, GoesCounts
  <1>2. CASE TestLength(th) \/ PopItem(th) \/ HelloRefused(th)
    <2>1. /\ heap' = heap /\ answered' = answered /\ pc[th] # "idle"
          /\ \/ Ends(th)
             \/ \E at \in {"evict", "pop", "greet"} : GoesWith(th, at, local[th])
      BY <1>2 DEF TestLength, PopItem, HelloRefused, Goes, Raises, CountsSame, At
    <2>2. ObjectCounts(th)
      BY <2>1, HeapSameCounts
    <2>3. CASE Ends(th)
      BY <2>1, <2>2, <2>3, EndsCounts
    <2>4. CASE \E at \in {"evict", "pop", "greet"} : GoesWith(th, at, local[th])
      BY <2>1, <2>2, <2>4, GoesCounts
    <2> QED
      BY <2>1, <2>3, <2>4
  <1>3. CASE HelloRaises(th) \/ Greet(th)
    <2> DEFINE c == frame[th].body.counter
               user == frame[th].body.payload.username
               s == Accept(Object(th), c)
               k == NextServerCounter(s)
    <2>1. /\ pc[th] = "greet" /\ Greets(th) /\ pc[th] # "create"
          /\ Acceptable(Object(th), c) /\ answered' = answered
      BY <1>3 DEF HelloRaises, Greet, At, Greets, CountsSame
    <2>2. ObjectOf(th) \in DOMAIN heap /\ Bare(Object(th))
      BY <2>1, GreetedObject
    <2>3. /\ CounterOf(th) \in Nat /\ Object(th).client_counter \in Nat
          /\ CounterOf(th) > Object(th).client_counter
      BY <2>1, <2>2, AcceptableCounts
    <2>4. PICK n : /\ Updates(th, n)
                   /\ \/ n = s \/ n = [s EXCEPT !.username_norm = user]
                      \/ n = Greeted(Object(th), c, user, k)
      BY <1>3 DEF HelloRaises, Greet, Greeted
    <2>5. n.client_counter = c
      BY <2>2, <2>4 DEF Bare, IsRecord, NewSession, Accept, Greeted
    <2> HIDE DEF k, s
    <2>6. ObjectCounts(th)
      BY <2>2, <2>3, <2>4, <2>5, HeapUpdatedCounts DEF CounterOf
    <2>7. Ends(th) \/ \E l : GoesWith(th, "keys", l)
      BY <1>3 DEF HelloRaises, Greet, Raises
    <2>8. CASE Ends(th)
      BY <2>1, <2>6, <2>8, EndsCounts
    <2>9. CASE \E l : GoesWith(th, "keys", l)
      BY <2>1, <2>6, <2>9, GoesCounts
    <2> QED
      BY <2>7, <2>8, <2>9
  <1> QED
    BY <1>1, <1>2, <1>3

LEMMA StoreKeysCounts ==
  ASSUME NEW own, Owned(own), ThreadsInv, CountInv, NEW th \in Thread, StoreKeys(th)
  PROVE  Counting(th)
  <1> DEFINE f == frame[th]
             k == local[th].n
             draw == local[th].draw
             t == After(ServerChallenge(f, k, draw))
             n == HelloStored(Object(th), f, k, draw)
  <1>1. /\ pc[th] = "keys" /\ Greets(th) /\ pc[th] # "create" /\ Ends(th)
        /\ Updates(th, n) /\ answered' = answered \cup {t}
    BY DEF StoreKeys, At, Greets, Returns
  <1>2. ObjectOf(th) \in DOMAIN heap /\ Bare(Object(th)) /\ ThreadHolds(th, own)
    BY <1>1, GreetedObject
  <1>3. Object(th).username_norm = f.body.payload.username
    BY <1>1, <1>2 DEF ThreadHolds, GreetsWell
  <1>4. n.client_counter = Object(th).client_counter
    BY <1>2 DEF Bare, IsRecord, NewSession, HelloStored
  <1>5. Len(t) = 2
    <2>1. t \in answered'
      BY <1>1
    <2> HIDE DEF n, t
    <2>2. t = After(ServerChallenge(f, k, draw)) /\ n = HelloStored(Object(th), f, k, draw)
      BY DEF t, n
    <2> QED
      BY <1>2, <1>3, <2>1, <2>2, HelloKeyed
  <1> HIDE DEF n, t
  <1>6. Object(th).client_counter \in Nat
    BY <1>2 DEF CountInv, CountersStored, Object, ObjectOf
  <1>7. ObjectCounts(th)
    BY <1>1, <1>2, <1>4, <1>6, HeapUpdatedCounts
  <1>8. \E u : answered' = answered \cup {u} /\ (Len(u) > 2 => AnswerCounted(th, u))
    <2>1. ~(Len(t) > 2)
      BY <1>5
    <2> QED
      BY <1>1, <2>1, Zenon
  <1> QED
    BY <1>1, <1>7, <1>8, EndsCounts

LEMMA GetCounts ==
  ASSUME NEW own, Owned(own), ThreadsInv, CountInv, NEW th \in Thread,
         Lookup(th) \/ Touch(th) \/ ProofFails(th) \/ ProofHolds(th)
  PROVE  Counting(th)
  <1>1. heap' = heap /\ answered' = answered /\ pc[th] # "idle"
    BY DEF Lookup, Touch, ProofFails, ProofHolds, DrawsChallenge, CountsSame, At
  <1>2. ObjectCounts(th)
    BY <1>1, HeapSameCounts
  <1>3. CASE Ends(th)
    BY <1>1, <1>2, <1>3, EndsCounts
  <1>4. CASE \E at \in {"touch", "accept"} : \E l : GoesWith(th, at, l)
    BY <1>1, <1>2, <1>4, GoesCounts
  <1>5. CASE ProofHolds(th)
    <2>1. Accepted(th) /\ Proves(th)
      BY <1>5 DEF ProofHolds, At, Accepted, Proves
    <2>2. PICK l : /\ GoesWith(th, "count", l)
                   /\ l = local[th] \/ l = [local[th] EXCEPT !.draw = Draw]
      BY <1>5 DEF ProofHolds, DrawsChallenge, Goes
    <2>3. l.object = local[th].object
      BY <2>2, LocalChanged
    <2> QED
      BY <1>1, <1>2, <2>1, <2>2, <2>3, GoesCounts
  <1>6. Lookup(th) \/ Touch(th) \/ ProofFails(th) =>
          Ends(th) \/ \E at \in {"touch", "accept"} : \E l : GoesWith(th, at, l)
    BY DEF Lookup, Touch, ProofFails, Goes, Raises
  <1> QED
    BY <1>3, <1>4, <1>5, <1>6

LEMMA AdmitCounts ==
  ASSUME NEW own, Owned(own), ThreadsInv, CountInv, NEW th \in Thread, Admit(th)
  PROVE  Counting(th)
  <1> DEFINE s == Object(th)
             c == frame[th].body.counter
             n == Accept(s, c)
             l == [local[th] EXCEPT !.t = s.transcript_state]
  <1>1. pc[th] = "accept" /\ Proves(th) /\ answered' = answered
    BY DEF Admit, At, Proves, CountsSame
  <1>2. ObjectOf(th) \in DOMAIN heap /\ ObjectHolds(answered, s, SessionOf(th))
    BY <1>1, ProvingObject
  <1>3. n.client_counter = c
    BY <1>2, AcceptRecounts DEF ObjectHolds
  <1>4. CASE Ends(th) /\ heap' = heap
    BY <1>1, <1>4, HeapSameCounts, EndsCounts
  <1> HIDE DEF n
  <1>5. CASE Acceptable(s, c) /\ Updates(th, n)
    <2>1. /\ CounterOf(th) \in Nat /\ s.client_counter \in Nat
          /\ CounterOf(th) > s.client_counter /\ CounterOf(th) = c
      BY <1>1, <1>2, <1>5, AcceptableCounts DEF CounterOf
    <2>2. ObjectCounts(th) /\ heap'[ObjectOf(th)] = n
      BY <1>2, <1>3, <1>5, <2>1, HeapUpdatedCounts
    <2>3. CASE Ends(th)
      BY <1>1, <2>2, <2>3, EndsCounts
    <2>4. CASE GoesWith(th, "check", l)
      <3>1. l.object = local[th].object
        BY LocalChanged
      <3> HIDE DEF l
      <3> QED
        BY <1>1, <1>3, <2>1, <2>2, <2>4, <3>1, GoesCounts
    <2> QED
      BY <1>5, <2>3, <2>4 DEF Admit, AcceptCounter, Raises
  <1> QED
    BY <1>4, <1>5 DEF Admit, AcceptCounter, Raises, n

LEMMA CountAnswerCounts ==
  ASSUME NEW own, Owned(own), ThreadsInv, CountInv, NEW th \in Thread,
         CountAnswer(th)
  PROVE  Counting(th)
  <1> DEFINE s == Object(th)
             k == NextServerCounter(s)
             n == [s EXCEPT !.server_counter = k]
             l == [local[th] EXCEPT !.n = k]
  <1>1. /\ pc[th] = "count" /\ Proves(th) /\ Accepted(th) /\ answered' = answered
        /\ Updates(th, n) /\ GoesWith(th, "store", l)
    BY DEF CountAnswer, At, Proves, Accepted, CountsSame
  <1>2. /\ ObjectOf(th) \in DOMAIN heap /\ ObjectHolds(answered, s, SessionOf(th))
        /\ s.client_counter \in Nat
    BY <1>1, AcceptedObject, ProvingObject
  <1>3. n.client_counter = s.client_counter
    BY <1>2, ServerCounterRecounts DEF ObjectHolds
  <1>4. l.object = local[th].object
    BY LocalChanged
  <1> HIDE DEF n, l
  <1>5. ObjectCounts(th)
    BY <1>1, <1>2, <1>3, HeapUpdatedCounts
  <1> QED
    BY <1>1, <1>4, <1>5, GoesCounts

\* The end of both handlers.
LEMMA AnsweredCounts ==
  ASSUME NEW own, Owned(own), ThreadsInv, CountInv, NEW th \in Thread,
         Accepted(th), NEW u, NEW n,
         Handshake(answered, u, Object(th), SessionOf(th)),
         Answers(u, frame[th].body), answered' = answered \cup {u},
         Updates(th, n), n.client_counter = Object(th).client_counter, Ends(th)
  PROVE  Counting(th)
  <1>1. ObjectOf(th) \in DOMAIN heap /\ Object(th).client_counter \in Nat
    BY AcceptedObject
  <1>2. ObjectCounts(th)
    BY <1>1, HeapUpdatedCounts
  <1>3. pc'[th] = "idle"
    BY DEF Ends, ThreadsInv, WellFormedThreads
  <1>4. AnswerCounted(th, u)
    BY <1>3 DEF AnswerCounted, Handshake, CounterOf, Answers
  <1> QED
    BY <1>2, <1>4, EndsCounts

LEMMA StoreCounts ==
  ASSUME NEW own, Owned(own), ThreadsInv, CountInv, NEW th \in Thread,
         StoreProof(th) \/ StoreFlag(th)
  PROVE  Counting(th)
  <1> DEFINE s == Object(th)
             f == frame[th]
             sid == SessionOf(th)
             k == local[th].n
             draw == local[th].draw
  <1>1. pc[th] = "store" /\ Proves(th) /\ Accepted(th) /\ Ends(th)
    BY DEF StoreProof, StoreFlag, At, Proves, Accepted, Returns
  <1>2. ObjectHolds(answered, s, sid) /\ Checked(th)
    BY <1>1, ProvingObject DEF ProvesWell
  <1>3. CASE StoreProof(th)
    <2> DEFINE u == After(ServerProof(s, f, k, draw))
               n == ExchangeStored(s, f, k, draw)
    <2>1. /\ f.body.type = "CLIENT_PROOF_1" /\ Updates(th, n)
          /\ answered' = answered \cup {u}
      BY <1>3 DEF StoreProof, Returns
    <2>2. Handshake(answered, f.prev, s, sid) /\ SoundFor(s, sid, f)
      BY <1>2, <2>1 DEF Checked
    <2>3. n.client_counter = s.client_counter
      BY <1>2 DEF ObjectHolds, IsRecord, NewSession, ExchangeStored
    <2>4. u = After(ServerProof(s, f, k, draw))
      OBVIOUS
    <2>5. Handshake(answered, u, s, sid) /\ Answers(u, f.body)
      <3>1. ObjectHolds(answered, s, sid)
        BY <1>2
      <3> HIDE DEF u, n, k, draw, s, f, sid
      <3> QED
        BY <2>2, <2>4, <3>1, ExchangeKeyed
    <2> HIDE DEF u, n
    <2> QED
      BY <1>1, <2>1, <2>3, <2>5, AnsweredCounts
  <1>4. CASE StoreFlag(th)
    <2> DEFINE t == After(f)
               u == After(SealedFlag(s, f, k))
               n == [s EXCEPT !.transcript_state = u]
    <2>1. FinalizeType(f) /\ Updates(th, n) /\ answered' = answered \cup {u}
      BY <1>4 DEF StoreFlag, Returns
    <2>2. Handshake(answered, f.prev, s, sid) /\ PaidFor(answered, s, f)
      BY <1>2, <2>1 DEF Checked
    <2>3. /\ u = After(SealedFlag(s, f, k)) /\ n = [s EXCEPT !.transcript_state = u]
          /\ t = After(f)
      OBVIOUS
    <2>4. n.client_counter = s.client_counter
      BY <1>2 DEF ObjectHolds, IsRecord, NewSession
    <2>5. Handshake(answered, u, s, sid) /\ Answers(u, f.body)
      <3>1. ObjectHolds(answered, s, sid)
        BY <1>2
      <3> HIDE DEF u, n, t, k, s, f, sid
      <3> QED
        BY <2>2, <2>3, <3>1, FlagKeyed
    <2> HIDE DEF u, n, t
    <2> QED
      BY <1>1, <2>1, <2>4, <2>5, AnsweredCounts
  <1> QED
    BY <1>3, <1>4

LEMMA StepCounts ==
  ASSUME NEW own, Owned(own), ThreadsInv, CountInv, NEW th \in Thread, Step(th)
  PROVE  Counting(th)
  BY HelloCounts, StoreKeysCounts, GetCounts, AdmitCounts, CountAnswerCounts,
     StoreCounts DEF Step

LEMMA BeginCounts ==
  ASSUME NEW own, Owned(own), ThreadsInv, CountInv, NEW th \in Thread,
         KeyedFrame(th)
  PROVE  CountInv'
  <1>1. PICK f : f.body.counter \in Nat /\ Begin(th, f)
    BY DEF KeyedFrame
  <1>2. /\ heap' = heap /\ answered' = answered
        /\ pc' = [pc EXCEPT ![th] = IF f.body.type = "HELLO" THEN "create" ELSE "get"]
        /\ frame' = [frame EXCEPT ![th] = f]
        /\ \E l : local' = [local EXCEPT ![th] = l]
    BY <1>1 DEF Begin
  <1>3. /\ pc = [x \in Thread |-> pc[x]] /\ frame = [x \in Thread |-> frame[x]]
        /\ local = [x \in Thread |-> local[x]]
    BY DEF ThreadsInv, WellFormedThreads, Owned
  <1>4. \A x \in Thread \ {th} :
          /\ pc'[x] = pc[x] /\ frame'[x] = frame[x] /\ local'[x] = local[x]
    BY <1>2, <1>3
  <1>5. ~Accepted(th)' /\ frame'[th] = f
    BY <1>2, <1>3 DEF Accepted
  <1>6. \A x \in Thread :
          Accepted(x)' => /\ x # th /\ Accepted(x) /\ ObjectOf(x)' = ObjectOf(x)
                          /\ CounterOf(x)' = CounterOf(x)
                          /\ Object(x)' = Object(x)
    BY <1>2, <1>4, <1>5 DEF Accepted, ObjectOf, CounterOf, Object
  <1>7. CountersStored'
    <2>1. ASSUME NEW x \in Thread, pc'[x] # "idle"
          PROVE  CounterOf(x)' \in Nat
      <3>1. CASE x = th
        BY <1>1, <1>5, <3>1 DEF CounterOf
      <3>2. CASE x # th
        BY <1>4, <2>1, <3>2 DEF CounterOf, CountInv, CountersStored
      <3> QED
        BY <3>1, <3>2
    <2>2. \A x \in Thread : Accepted(x)' => CounterOf(x)' <= Object(x)'.client_counter
      BY <1>6 DEF CountInv, CountersStored
    <2> QED
      BY <1>2, <2>1, <2>2 DEF CountInv, CountersStored
  <1>8. AcceptedOnce'
    BY <1>6 DEF CountInv, AcceptedOnce
  <1>9. SaltsDiffer' /\ CounterAnsweredOnce'
    BY <1>2 DEF CountInv, SaltsDiffer, CounterAnsweredOnce
  <1>10. AnswersCounted'
    <2>1. ASSUME NEW u, NEW o, AnsweredBy(u, o)
          PROVE  AnsweredBy(u, o)'
      BY <1>2, <1>6, <2>1 DEF AnsweredBy
    <2>2. AnswersCounted
      BY DEF CountInv
    <2> QED
      BY <1>2, <2>1, <2>2 DEF AnswersCounted
  <1> QED
    BY <1>7, <1>8, <1>9, <1>10 DEF CountInv

LEMMA CountStep ==
  ASSUME BranchInv, CountInv,
         [\E th \in Thread : Step(th) \/ KeyedFrame(th)]_threadVars
  PROVE  CountInv'
  <1>1. PICK own : Owned(own)
    BY DEF BranchInv
  <1>2. ThreadsInv
    BY DEF BranchInv
  <1>3. CASE UNCHANGED threadVars
    BY <1>3 DEF threadVars, CountInv, CountersStored, AcceptedOnce, SaltsDiffer,
       AnswersCounted, AnsweredBy, CounterAnsweredOnce, Accepted, CounterOf,
       ObjectOf, Object
  <1>4. ASSUME NEW th \in Thread, Step(th)
        PROVE  CountInv'
    BY <1>1, <1>2, <1>4, StepMoves, StepCounts, CountingHolds
  <1>5. ASSUME NEW th \in Thread, KeyedFrame(th)
        PROVE  CountInv'
    BY <1>1, <1>2, <1>5, BeginCounts
  <1> QED
    BY <1>3, <1>4, <1>5

LEMMA CountInit == Init => CountInv
  <1> SUFFICES ASSUME Init PROVE CountInv
    OBVIOUS
  <1>1. heap = <<>> /\ pc = [th \in Thread |-> "idle"] /\ answered = {}
    BY DEF Init
  <1>2. DOMAIN heap = {} /\ \A th \in Thread : pc[th] = "idle" /\ ~Accepted(th)
    BY <1>1 DEF Accepted
  <1> QED
    BY <1>1, <1>2 DEF CountInv, CountersStored, AcceptedOnce, SaltsDiffer,
       AnswersCounted, CounterAnsweredOnce

\* For every number of threads and of requests that overlap: no two answers of a
\* handshake are for the same client counter, although its comparison and the
\* end of the handler are steps of their own.
THEOREM ThreadedCounterOnce == KeyedSpec => []CounterAnsweredOnce
  <1>1. Init => BranchInv /\ CountInv
    BY BranchInit, CountInit
  <1>2. ASSUME BranchInv /\ CountInv,
               [\E th \in Thread : Step(th) \/ KeyedFrame(th)]_threadVars
        PROVE  (BranchInv /\ CountInv)'
    BY <1>2, BranchStep, CountStep
  <1>3. BranchInv /\ CountInv => CounterAnsweredOnce
    BY DEF CountInv
  <1> QED
    BY <1>1, <1>2, <1>3, PTL DEF KeyedSpec
=============================================================================
