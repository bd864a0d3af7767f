--------------------------- MODULE RankGateSystem ---------------------------
(***************************************************************************)
(* Client runs and the server over HTTP.  A request is a connection of its *)
(* own: the reply to it reaches the run that made it, or nobody when that  *)
(* run has gone on or given up.  Nothing bounds the time a request takes,  *)
(* so a request may be served after its client gave up.                    *)
(*                                                                         *)
(* faults counts what went wrong outside the two programs (lost, repeated  *)
(* or garbled messages, connection failures and server restarts) and is    *)
(* bounded by MaxFaults.  answered is a history variable: how often each   *)
(* request was handled without an error.                                   *)
(***************************************************************************)
EXTENDS RankGateServer, RankGateClient, FiniteSets

CONSTANT MaxFaults

ASSUME SystemAssumption == MaxFaults \in Nat /\ Client \subseteq SessionId

VARIABLES
  requests,   \* [client, path, frame] on their way to the server
  replies,    \* [client, path, frame] on their way back
  faults,
  answered    \* [client, path] -> number of times

netVars == <<requests, replies, faults, answered>>
vars == <<serverVars, client, netVars>>

Init ==
  /\ ServerInit
  /\ ClientInit
  /\ requests = {}
  /\ replies = {}
  /\ faults = 0
  /\ answered = [r \in Client \X Paths |-> 0]
-----------------------------------------------------------------------------
Others(messages, c) == {m \in messages : m.client # c}

\* http.post: a connection of its own, so what still comes for an earlier
\* request of c is of no use.
Posts(c, path, frame) ==
  /\ requests' = requests \cup {[client |-> c, path |-> path, frame |-> frame]}
  /\ replies' = Others(replies, c)
  /\ UNCHANGED <<faults, answered>>

Leaves(c) ==
  /\ replies' = Others(replies, c)
  /\ UNCHANGED <<requests, answered>>

Fault == faults < MaxFaults /\ faults' = faults + 1

\* --- the client -----------------------------------------------------------
Start(c) ==
  SendsHello(c) /\ Posts(c, "hello", HelloFrame(c)) /\ UNCHANGED serverVars

Refuse(c) == LicenseUnreadable(c) /\ UNCHANGED <<serverVars, netVars>>

Receive(c, m) ==
  /\ m.client = c
  /\ m.path = client[c].stage
  /\ \/ /\ SendsProof1(c, m.frame)
        /\ Posts(c, "exchange", Proof1Frame(c, After(m.frame)))
     \/ /\ SendsProof2(c, m.frame)
        /\ Posts(c, "finalize", Proof2Frame(c, After(m.frame)))
     \/ /\ IsGranted(c, m.frame)
        /\ Leaves(c) /\ UNCHANGED faults
     \/ /\ ~ReplyAccepted(c, m.frame)
        /\ IsDenied(c)
        /\ Leaves(c) /\ UNCHANGED faults
  /\ UNCHANGED serverVars

\* Mutant: a connection that is waited on for ever.
GiveUpNever(c) == FALSE

\* Nothing will come for the request any more: WinHttpReceiveResponse fails.
GiveUp(c) ==
  /\ Waiting(c)
  /\ \A m \in requests \cup replies :
       ~(m.client = c /\ m.path = client[c].stage)
  /\ IsDenied(c)
  /\ Leaves(c)
  /\ UNCHANGED <<serverVars, faults>>

\* A WinHTTP call fails although the request may still be served: a timeout,
\* a broken connection; or the public key could not be fetched.
HttpFails(c) ==
  /\ ~Done(c)
  /\ Fault
  /\ IsDenied(c)
  /\ Leaves(c)
  /\ UNCHANGED serverVars

ClientStep(c) ==
  Start(c) \/ Refuse(c) \/ GiveUp(c) \/ \E m \in replies : Receive(c, m)

\* --- the server -----------------------------------------------------------
\* The reply, when the client still waits for it.
Reply(m, frame) ==
  replies' =
    IF client[m.client].stage = m.path
    THEN replies \cup {[client |-> m.client, path |-> m.path, frame |-> frame]}
    ELSE replies

Answer(m, frame) ==
  /\ Reply(m, frame)
  /\ answered' = [answered EXCEPT ![<<m.client, m.path>>] = @ + 1]

Reject(m) == Reply(m, GenericError) /\ UNCHANGED answered

\* The message types an endpoint takes.
TypesOf ==
  [hello    |-> {"HELLO"},
   exchange |-> {"CLIENT_PROOF_1"},
   finalize |-> {"CLIENT_PROOF_2", "FINALIZE"}]

\* A frame the endpoint of m refuses before it touches the store.
Misdirected(m) == m.frame.body.type \notin TypesOf[m.path]

\* The answer to m, by the session as it is before the step.
Challenge(m) == ServerChallenge(m.frame, NextServerCounter(NewSession), Draw)

Proof(m) ==
  LET s == Addressed(m.frame)
  IN ServerProof(s, m.frame, NextServerCounter(s), Draw)

Flag(m) ==
  LET s == Addressed(m.frame)
  IN SealedFlag(s, m.frame, NextServerCounter(s))

\* main._run for one request.
Routed(m) ==
  \/ Misdirected(m) /\ Reject(m) /\ UNCHANGED serverVars
  \/ /\ m.path = "hello"
     /\ \/ HelloAnswered(m.frame) /\ Answer(m, Challenge(m))
        \/ HelloFailed(m.frame) /\ Reject(m)
  \/ /\ m.path = "exchange"
     /\ \/ ExchangeAnswered(m.frame) /\ Answer(m, Proof(m))
        \/ ExchangeFailed(m.frame) /\ Reject(m)
  \/ /\ m.path = "finalize"
     /\ \/ FinalizeAnswered(m.frame) /\ Answer(m, Flag(m))
        \/ FinalizeFailed(m.frame) /\ Reject(m)

Serve(m) ==
  /\ Routed(m)
  /\ requests' = requests \ {m}
  /\ UNCHANGED <<client, faults>>

\* --- what goes wrong ------------------------------------------------------
\* The request reaches the server twice: it is served and stays on its way.
ServeAgain(m) ==
  /\ Routed(m)
  /\ Fault
  /\ UNCHANGED <<client, requests>>

LoseRequest(m) ==
  Fault /\ requests' = requests \ {m}
        /\ UNCHANGED <<serverVars, client, replies, answered>>

LoseReply(m) ==
  Fault /\ replies' = replies \ {m}
        /\ UNCHANGED <<serverVars, client, requests, answered>>

\* The bytes of m as they may arrive.
Damaged(m) ==
  {[m EXCEPT !.frame = Unparsable(m.frame)]} \cup
  {[m EXCEPT !.frame = Garbled(m.frame, sid, counter)] :
     sid \in SessionId, counter \in {m.frame.body.counter, MaxCounter}}

GarbleRequest(m) ==
  /\ Fault
  /\ \E bad \in Damaged(m) : requests' = (requests \ {m}) \cup {bad}
  /\ UNCHANGED <<serverVars, client, replies, answered>>

GarbleReply(m) ==
  /\ Fault
  /\ replies' = (replies \ {m}) \cup {[m EXCEPT !.frame = Unparsable(m.frame)]}
  /\ UNCHANGED <<serverVars, client, requests, answered>>

RestartServer == Fault /\ Restart /\ UNCHANGED <<client, requests, replies, answered>>

Network ==
  \/ \E m \in requests : ServeAgain(m) \/ LoseRequest(m) \/ GarbleRequest(m)
  \/ \E m \in replies : LoseReply(m) \/ GarbleReply(m)
  \/ RestartServer
  \/ \E c \in Client : HttpFails(c)
-----------------------------------------------------------------------------
Next ==
  \/ \E c \in Client : ClientStep(c)
  \/ \E m \in requests : Serve(m)
  \/ Network

Spec == Init /\ [][Next]_vars

(***************************************************************************)
(* Each client process keeps running, and the event loop serves every      *)
(* request that is on its way.  Nothing is owed by the network.            *)
(***************************************************************************)
Fairness ==
  /\ \A c \in Client : WF_vars(ClientStep(c))
  /\ WF_vars(\E m \in requests : Serve(m))

FairSpec == Spec /\ Fairness
-----------------------------------------------------------------------------
(***************************************************************************)
(* Properties.                                                             *)
(***************************************************************************)
\* Messages in transit belong to client runs, a waiting run has sent its own
\* frame last, and the counters of the model stay within their bounds.
SystemTypeOK ==
  /\ ServerTypeOK
  /\ \A c \in Client : client[c].stage \in Stages /\ Len(client[c].t) <= 6
  /\ \A m \in requests \cup replies : m.client \in Client /\ m.path \in Paths
  /\ \A c \in Client : Waiting(c) => Len(client[c].t) \in {1, 3, 5}
  /\ faults \in 0 .. MaxFaults

\* A run that was told ACCESS GRANTED shares all six frames with the server:
\* the server sealed the flag for exactly the transcript the run ends with,
\* and for the license and the program the run was started with.
Agreement ==
  \A c \in Client : client[c].stage = "granted" =>
    /\ Entitled(c)
    /\ SubSeq(client[c].t, 1, 5) \in issued
    /\ client[c].t[6].type = "SEALED_FLAG"
    /\ client[c].t[6].session_id = c

\* While the server holds the handshake a run is in, the two transcripts are
\* one: neither is ever more than the frame in transit ahead of the other.
InStep ==
  \A c \in Client \cap Ids(order) :
    LET ct == client[c].t
        st == session[c].transcript_state
        n  == IF Len(ct) <= Len(st) THEN Len(ct) ELSE Len(st)
    IN Len(ct) >= 2 /\ session[c].salt = Salt(ct) =>
         /\ SubSeq(ct, 1, n) = SubSeq(st, 1, n)
         /\ Len(ct) <= Len(st) + 1 /\ Len(st) <= Len(ct) + 1

\* "replay / reorder protection": however often a proof is repeated, garbled or
\* late, and whatever the server forgot in between, it is accepted at most once
\* for a run, and so the flag is sealed at most once.
ProofsAnsweredOnce ==
  \A c \in Client : /\ answered[<<c, "exchange">>] <= 1
                    /\ answered[<<c, "finalize">>] <= 1

\* "State must survive across the three HTTP calls (/hello, /exchange,
\* /finalize) of a single solve attempt": while a run is between its calls,
\* its session is not replaced by another one.
StateSurvivesCalls ==
  [][\A c \in Client :
       /\ client[c].stage \in {"exchange", "finalize"}
       /\ c \in Ids(order) \cap Ids(order')
       /\ session[c].salt = Salt(client[c].t)
       => session'[c].salt = session[c].salt]_vars

\* What the clients and the server do together is what the portal promises.
Portal ==
  INSTANCE LicensePortal
    WITH Run      <- Client,
         entitled <- {c \in Client : Entitled(c)},
         sealed   <- {t[1].session_id : t \in issued},
         verdict  <- [c \in Client |-> IF Done(c) THEN client[c].stage
                                                 ELSE "pending"]

ImplementsPortal == Portal!Spec

\* Every run comes to an end, whatever the network did to it.
AllDecided == \A c \in Client : <>Done(c)

\* Nothing goes wrong outside the two programs, and the store keeps the session
\* of c for as long as c is between its calls.
Undisturbed(c) ==
  /\ faults = 0
  /\ client[c].stage \in {"exchange", "finalize"} => Known(c)

\* A run that is not disturbed gets the verdict its inputs deserve, whatever the
\* other runs do to the store before and after.
DeservedVerdict ==
  \A c \in Client :
    []Undisturbed(c) =>
      <>(client[c].stage = IF Entitled(c) THEN "granted" ELSE "denied")
=============================================================================
