--------------------------- MODULE ThreadedServer ---------------------------
(***************************************************************************)
(* The same handlers under tools/_test_server.py: ThreadingHTTPServer runs *)
(* each request in a thread, over the one STORE and its Session objects,   *)
(* with no lock.                                                           *)
(*                                                                         *)
(* A step is what a thread does before it may be switched out.  The        *)
(* interpreter (CPython 3.12, server/Dockerfile) switches threads after a  *)
(* call and at a backward jump: assignments that follow one another        *)
(* without a call, as at the end of each handler, are one step, and so are *)
(* two dictionary operations up to the call that ends them.  A step also    *)
(* goes on over calls that read only what no other thread can change: once *)
(* an object has its keys, its user name, salt and random are fixed.       *)
(*                                                                         *)
(* Two threads may hold one Session object, and an object may be held that *)
(* left the store: session maps ids to objects here, and heap holds the    *)
(* objects, each named by the number of the request that created it.       *)
(* answered is a history variable: the transcripts answers have carried.   *)
(***************************************************************************)
EXTENDS RankGateServer, FiniteSets

CONSTANTS
  Thread,        \* handler threads
  MaxRequests    \* bound on the requests

ASSUME ThreadAssumption == IsFiniteSet(Thread) /\ MaxRequests \in Nat

VARIABLES
  heap,       \* object -> Session record
  pc,         \* thread -> where it is
  frame,      \* thread -> the frame its handler was called with
  local,      \* thread -> its other local variables
  begun,      \* requests so far
  answered

threadVars ==
  <<order, session, fresh, issued, heap, pc, frame, local, begun, answered>>

\* sess, t.state, the counter of the answer and the value drawn for it.
NewLocal == [object |-> 0, t |-> <<>>, n |-> 0, draw |-> 0]

Init ==
  /\ ServerInit
  /\ heap = <<>>
  /\ pc = [th \in Thread |-> "idle"]
  /\ frame = [th \in Thread |-> GenericError]
  /\ local = [th \in Thread |-> NewLocal]
  /\ begun = 0
  /\ answered = {}
-----------------------------------------------------------------------------
At(th, at) == pc[th] = at

SessionOf(th) == frame[th].body.session_id

\* The handler goes on, its local variables being l.
GoesWith(th, at, l) ==
  /\ pc' = [pc EXCEPT ![th] = at]
  /\ local' = [local EXCEPT ![th] = l]
  /\ UNCHANGED frame

Goes(th, at) == GoesWith(th, at, local[th])

\* The handler is over.
Ends(th) ==
  /\ pc' = [pc EXCEPT ![th] = "idle"]
  /\ frame' = [frame EXCEPT ![th] = GenericError]
  /\ local' = [local EXCEPT ![th] = NewLocal]

Object(th) == heap[local[th].object]

Updates(th, s) == heap' = [heap EXCEPT ![local[th].object] = s]

\* The session as the handler sees it: with the transcript it restored, which
\* may be an older one by now.
Seen(th) == [Object(th) EXCEPT !.transcript_state = local[th].t]

\* The handler raises, and the peer gets the generic error.
Raises(th) == Ends(th)

\* The handler returns, and the peer gets answer.
Returns(th, answer) ==
  /\ Ends(th)
  /\ answered' = answered \cup {After(answer)}

StoreSame == UNCHANGED <<order, session>>
CountsSame == UNCHANGED <<fresh, issued, begun, answered>>
-----------------------------------------------------------------------------
\* process_request_thread: a request is read, and its handler called.
Begin(th, f) ==
  /\ At(th, "idle")
  /\ begun < MaxRequests
  /\ begun' = begun + 1
  /\ pc' = [pc EXCEPT ![th] = IF f.body.type = "HELLO" THEN "create" ELSE "get"]
  /\ frame' = [frame EXCEPT ![th] = f]
  /\ local' = [local EXCEPT ![th].object =
                 IF f.body.type = "HELLO" THEN begun' ELSE 0]
  /\ UNCHANGED <<order, session, heap, fresh, issued, answered>>

(***************************************************************************)
(* SessionStore.create                                                     *)
(***************************************************************************)
\* The assignment to the dictionary and move_to_end.
CreateObject(th) ==
  /\ At(th, "create")
  /\ heap' = [o \in DOMAIN heap \cup {local[th].object} |->
                IF o = local[th].object THEN NewSession ELSE heap[o]]
  /\ order' = Insert(order, SessionOf(th))
  /\ session' = [k \in Ids(order') |-> IF k = SessionOf(th) THEN local[th].object
                                                            ELSE session[k]]
  /\ Goes(th, "evict")
  /\ CountsSame

\* Mutant: one session too many is what is looked for; without threads there is
\* never more.
TestLengthEqual(th) ==
  /\ At(th, "evict")
  /\ Goes(th, IF Len(order) = MAX_SESSIONS + 1 THEN "pop" ELSE "greet")
  /\ UNCHANGED heap /\ StoreSame /\ CountsSame

\* The condition of the while loop.
TestLength(th) ==
  /\ At(th, "evict")
  /\ Goes(th, IF Len(order) > MAX_SESSIONS THEN "pop" ELSE "greet")
  /\ UNCHANGED heap /\ StoreSame /\ CountsSame

\* popitem(last=False), a KeyError when others have emptied the dictionary.
PopItem(th) ==
  /\ At(th, "pop")
  /\ IF order = <<>>
     THEN StoreSame /\ Raises(th)
     ELSE /\ order' = Tail(order)
          /\ session' = [k \in Ids(order') |-> session[k]]
          /\ Goes(th, "evict")
  /\ UNCHANGED heap /\ CountsSame

(***************************************************************************)
(* The rest of handle_hello.  Up to its last assignments nobody else reads *)
(* what it stores but the counter: without keys every other handler that   *)
(* gets the object raises.                                                 *)
(***************************************************************************)
HelloRefused(th) ==
  /\ At(th, "greet")
  /\ ~Acceptable(Object(th), frame[th].body.counter)
  /\ Raises(th)
  /\ UNCHANGED heap /\ StoreSame /\ CountsSame

HelloRaises(th) ==
  /\ At(th, "greet")
  /\ LET s == Accept(Object(th), frame[th].body.counter)
         p == frame[th].body.payload
     IN /\ Acceptable(Object(th), frame[th].body.counter)
        /\ \/ ~HelloReadable(frame[th]) /\ Updates(th, s)
           \/ /\ HelloReadable(frame[th]) /\ p.client_pub = WeakPub
              /\ Updates(th, [s EXCEPT !.username_norm = p.username])
  /\ Raises(th)
  /\ StoreSame /\ CountsSame

Greet(th) ==
  /\ At(th, "greet")
  /\ LET s == Accept(Object(th), frame[th].body.counter)
         p == frame[th].body.payload
     IN /\ Acceptable(Object(th), frame[th].body.counter)
        /\ HelloReadable(frame[th]) /\ p.client_pub # WeakPub
        /\ Updates(th, [s EXCEPT !.username_norm  = p.username,
                                !.server_counter = NextServerCounter(s)])
        /\ GoesWith(th, "keys", [local[th] EXCEPT !.n    = NextServerCounter(s),
                                                  !.draw = Draw])
  /\ fresh' = Draw
  /\ StoreSame /\ UNCHANGED <<issued, begun, answered>>

StoreKeys(th) ==
  /\ At(th, "keys")
  /\ LET n    == local[th].n
         draw == local[th].draw
     IN /\ Updates(th, HelloStored(Object(th), frame[th], n, draw))
        /\ Returns(th, ServerChallenge(frame[th], n, draw))
  /\ StoreSame /\ UNCHANGED <<fresh, issued, begun>>

(***************************************************************************)
(* SessionStore.get: between its two calls the id may leave the store.     *)
(***************************************************************************)
Lookup(th) ==
  /\ At(th, "get")
  /\ IF Known(SessionOf(th))
     THEN GoesWith(th, "touch", [local[th] EXCEPT !.object = session[SessionOf(th)]])
     ELSE Raises(th)
  /\ UNCHANGED heap /\ StoreSame /\ CountsSame

Touch(th) ==
  /\ At(th, "touch")
  /\ IF Known(SessionOf(th))
     THEN order' = MoveToEnd(order, SessionOf(th)) /\ Goes(th, "accept")
     ELSE UNCHANGED order /\ Raises(th)
  /\ UNCHANGED <<session, heap>> /\ CountsSame

(***************************************************************************)
(* The rest of handle_exchange and handle_finalize.                        *)
(***************************************************************************)
\* Mutant: the counter is compared here and stored at the end of the handler.
AcceptCounterLate(th) ==
  /\ GoesWith(th, "check", [local[th] EXCEPT !.t = Object(th).transcript_state])
  /\ UNCHANGED heap

\* accept_client_counter, and the transcript the handler restores.
AcceptCounter(th) ==
  /\ GoesWith(th, "check", [local[th] EXCEPT !.t = Object(th).transcript_state])
  /\ Updates(th, Accept(Object(th), frame[th].body.counter))

\* Mutant: CLIENT_PROOF_2 is taken without a CLIENT_PROOF_1.
AdmitUnproved(th) ==
  /\ At(th, "accept")
  /\ IF Acceptable(Object(th), frame[th].body.counter)
     THEN AcceptCounter(th)
     ELSE Raises(th) /\ UNCHANGED heap
  /\ StoreSame /\ CountsSame

Admit(th) ==
  /\ At(th, "accept")
  /\ IF /\ Acceptable(Object(th), frame[th].body.counter)
        /\ FinalizeType(frame[th]) => Object(th).proof1_ok
     THEN AcceptCounter(th)
     ELSE /\ Raises(th)
          /\ IF Acceptable(Object(th), frame[th].body.counter)
             THEN Updates(th, Accept(Object(th), frame[th].body.counter))
             ELSE UNCHANGED heap
  /\ StoreSame /\ CountsSame

Valid(th) ==
  /\ OpensForSession(Seen(th), frame[th])
  /\ \/ /\ frame[th].body.type = "CLIENT_PROOF_1"
        /\ ValidProof1(Seen(th), SessionOf(th), frame[th].body.payload)
     \/ /\ FinalizeType(frame[th])
        /\ ValidProof2(Seen(th), frame[th].body.payload)

ProofFails(th) ==
  /\ At(th, "check")
  /\ ~Valid(th)
  /\ Raises(th)
  /\ UNCHANGED heap /\ StoreSame /\ CountsSame

DrawsChallenge(th) ==
  /\ fresh' = Draw
  /\ GoesWith(th, "count", [local[th] EXCEPT !.draw = Draw])
  /\ UNCHANGED heap

ProofHolds(th) ==
  /\ At(th, "check")
  /\ Valid(th)
  /\ IF frame[th].body.type = "CLIENT_PROOF_1"
     THEN DrawsChallenge(th)
     ELSE Goes(th, "count") /\ UNCHANGED <<fresh, heap>>
  /\ StoreSame /\ UNCHANGED <<issued, begun, answered>>

\* next_server_counter
CountAnswer(th) ==
  /\ At(th, "count")
  /\ LET n == NextServerCounter(Object(th))
     IN /\ Updates(th, [Object(th) EXCEPT !.server_counter = n])
        /\ GoesWith(th, "store", [local[th] EXCEPT !.n = n])
  /\ StoreSame /\ CountsSame

StoreProof(th) ==
  /\ At(th, "store")
  /\ frame[th].body.type = "CLIENT_PROOF_1"
  /\ LET n    == local[th].n
         draw == local[th].draw
     IN /\ Updates(th, ExchangeStored(Object(th), frame[th], n, draw))
        /\ Returns(th, ServerProof(Object(th), frame[th], n, draw))
  /\ StoreSame /\ UNCHANGED <<fresh, issued, begun>>

StoreFlag(th) ==
  /\ At(th, "store")
  /\ FinalizeType(frame[th])
  /\ LET flag == SealedFlag(Object(th), frame[th], local[th].n)
     IN /\ Updates(th, [Object(th) EXCEPT !.transcript_state = After(flag)])
        /\ Returns(th, flag)
  /\ issued' = issued \cup {After(frame[th])}
  /\ StoreSame /\ UNCHANGED <<fresh, begun>>
-----------------------------------------------------------------------------
Step(th) ==
  \/ CreateObject(th) \/ TestLength(th) \/ PopItem(th)
  \/ HelloRefused(th) \/ HelloRaises(th) \/ Greet(th) \/ StoreKeys(th)
  \/ Lookup(th) \/ Touch(th) \/ Admit(th) \/ ProofFails(th) \/ ProofHolds(th)
  \/ CountAnswer(th) \/ StoreProof(th) \/ StoreFlag(th)

\* The server among peers that may send any frame at all.
AnyFrame(th) == \E f : f.body.session_id \in SessionId /\ Begin(th, f)

AnySpec == Init /\ [][\E th \in Thread : Step(th) \/ AnyFrame(th)]_threadVars

\* The server among peers that have no keys but the first, which everybody has,
\* and those of handshakes that were answered; otherwise they may send anything.
HasKey(f) ==
  f.key = BootstrapKey \/ \E t \in answered : f.key = DeriveKeys(Salt(t))

KeyedFrame(th) ==
  \E f : /\ f.body.session_id \in SessionId /\ f.body.counter \in Nat
         /\ HasKey(f) /\ Begin(th, f)

KeyedSpec == Init /\ [][\E th \in Thread : Step(th) \/ KeyedFrame(th)]_threadVars
-----------------------------------------------------------------------------
(***************************************************************************)
(* Properties.                                                             *)
(***************************************************************************)
Creating == {th \in Thread : pc[th] \in {"evict", "pop"}}

\* "Sessions expire by count (oldest evicted) to bound memory": without a lock
\* the store is over its bound by no more than the threads that are still in
\* create, and within it when there is none.
BoundedByThreads == Len(order) <= MAX_SESSIONS + Cardinality(Creating)

\* "Strict monotonic increase -> replay / reorder protection": no two answers of
\* one handshake are for the same client counter, however requests overlap.
CounterAnsweredOnce ==
  \A t, u \in answered :
    t # u /\ Len(t) > 2 /\ Len(u) > 2 /\ Salt(t) = Salt(u) =>
      t[Len(t) - 1].counter # u[Len(u) - 1].counter

\* u ends in the answer to a sound exchange.
AnswersExchange(u) ==
  /\ Len(u) > 2
  /\ u[Len(u) - 1].type = "CLIENT_PROOF_1" /\ SoundExchange(u, Len(u) - 1)

\* Where two exchanges overlap, the transcripts of a handshake fork, and a proof
\* may come to be checked with the challenge of another branch than its own, so
\* that FlagEarned does not hold.  What does: the transcript the flag is sealed
\* for has a sound exchange in it, and the proof at its end is over the challenge
\* and the result of a sound exchange of the same handshake, which was answered.
FlagEarnedOnBranch ==
  \A t \in issued :
    /\ \E i \in Positions(t, "CLIENT_PROOF_1") : SoundExchange(t, i)
    /\ \E u \in answered :
         /\ Salt(u) = Salt(t) /\ AnswersExchange(u)
         /\ t[Len(t)].payload.proof2 =
              Proof2(DeriveKeys(Salt(t)), u[Len(u)].payload.challenge2,
                     ServerRandom(t), u[Len(u) - 1].payload.vm, Salt(t))

\* "a plain dict guarded by nothing fancy is sufficient", "Behavior matches
\* main.py exactly": create takes a session from the store only when it is over
\* its bound, as it does where a handler is one step.
EvictsToBoundOnly ==
  [][Len(order') < Len(order) => Len(order') >= MAX_SESSIONS]_threadVars
=============================================================================
