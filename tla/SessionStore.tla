---------------------------- MODULE SessionStore ----------------------------
(***************************************************************************)
(* The in-memory session store of the RankGate server                      *)
(* (server/app/sessions.py): an OrderedDict from session ids to Session    *)
(* objects, bounded by MAX_SESSIONS.  The dictionary is two variables:     *)
(* order, the keys from the head (the next one popitem(last=False) takes)  *)
(* to the tail, and session, the objects.                                  *)
(*                                                                         *)
(* The operators are shared with the handlers (RankGateServer), whose      *)
(* sessions carry more fields; the specification at the end drives the     *)
(* store alone with the two counters a Session owns.                       *)
(***************************************************************************)
EXTENDS Naturals, Sequences

CONSTANTS
  SessionId,      \* the 16-byte ids clients draw
  MAX_SESSIONS,   \* SessionStore.MAX_SESSIONS
  MaxCounter      \* bound on the counters of StoreSpec

ASSUME StoreAssumption ==
  /\ MAX_SESSIONS \in Nat \ {0}
  /\ MaxCounter \in Nat

VARIABLES
  order,      \* the dictionary's keys, least recently used first
  session     \* session id -> Session object, for the keys in the store

storeVars == <<order, session>>
-----------------------------------------------------------------------------
Ids(q) == {q[i] : i \in DOMAIN q}

Position(q, sid) == CHOOSE i \in DOMAIN q : q[i] = sid

\* The sequence without its i-th element.
Without(q, i) ==
  [j \in 1 .. Len(q) - 1 |-> IF j < i THEN q[j] ELSE q[j + 1]]

\* Mutant: the key stays where it is, as in a plain dict.
MoveToEndNot(q, sid) == q

\* OrderedDict.move_to_end
MoveToEnd(q, sid) == Append(Without(q, Position(q, sid)), sid)

\* Assignment to an existing key keeps its place and move_to_end moves it; a
\* new key is appended.
Insert(q, sid) ==
  IF sid \in Ids(q) THEN MoveToEnd(q, sid) ELSE Append(q, sid)

\* Mutant: the bound is off by one, downwards.
EvictAtCapacity(q) == IF Len(q) >= MAX_SESSIONS THEN Tail(q) ELSE q

\* The while loop of create: the store was within its bound before the one
\* insertion, so popitem runs at most once.
Evict(q) == IF Len(q) > MAX_SESSIONS THEN Tail(q) ELSE q

Created(q, sid) == Evict(Insert(q, sid))

Known(sid) == sid \in Ids(order)

\* Mutant: the counter is stored without being compared.
AcceptableAlways(s, counter) == TRUE

\* Mutant: the counter may repeat.
AcceptableAgain(s, counter) == counter >= s.client_counter

\* Strict increase: the guard of accept_client_counter.
Acceptable(s, counter) == counter > s.client_counter

Accept(s, counter) == [s EXCEPT !.client_counter = counter]

NextServerCounter(s) == s.server_counter + 1
-----------------------------------------------------------------------------
\* Mutant: the evicted key leaves the order, its object stays.
CreateWithLeak(sid, s) ==
  /\ order' = Created(order, sid)
  /\ session' = [k \in Ids(order) \cup {sid} |->
                   IF k = sid THEN s ELSE session[k]]

\* SessionStore.create followed by whatever the caller stores in the object.
CreateWith(sid, s) ==
  /\ order' = Created(order, sid)
  /\ session' = [k \in Ids(order') |-> IF k = sid THEN s ELSE session[k]]

\* SessionStore.get of a known id followed by the caller's update.
GetWith(sid, s) ==
  /\ Known(sid)
  /\ order' = MoveToEnd(order, sid)
  /\ session' = [session EXCEPT ![sid] = s]
-----------------------------------------------------------------------------
(***************************************************************************)
(* The store alone.                                                        *)
(***************************************************************************)
NewCounters == [client_counter |-> 0, server_counter |-> 0]

StoreInit == order = <<>> /\ session = <<>>

Create(sid) == CreateWith(sid, NewCounters)

Get(sid) == GetWith(sid, session[sid])

AcceptClientCounter(sid, counter) ==
  /\ Known(sid)
  /\ Acceptable(session[sid], counter)
  /\ GetWith(sid, Accept(session[sid], counter))

DrawServerCounter(sid) ==
  /\ Known(sid)
  /\ NextServerCounter(session[sid]) <= MaxCounter
  /\ GetWith(sid, [session[sid] EXCEPT
                     !.server_counter = NextServerCounter(session[sid])])

StoreNext ==
  \E sid \in SessionId :
    \/ Create(sid)
    \/ Get(sid)
    \/ \E counter \in 0 .. MaxCounter : AcceptClientCounter(sid, counter)
    \/ DrawServerCounter(sid)

StoreSpec == StoreInit /\ [][StoreNext]_storeVars
-----------------------------------------------------------------------------
Counters == [client_counter : Nat, server_counter : Nat]

\* The dictionary maps keys to Session objects.
StoreTypeOK ==
  /\ order \in Seq(SessionId)
  /\ session \in [Ids(order) -> Counters]

\* No key is listed twice: the order variable is one a dictionary can have.
NoDuplicates ==
  \A i, j \in DOMAIN order : order[i] = order[j] => i = j

\* "to bound memory": create never leaves more than MAX_SESSIONS sessions.
Bounded == Len(order) <= MAX_SESSIONS

\* The inductive invariant of the store.
StoreInv == StoreTypeOK /\ NoDuplicates /\ Bounded

\* A session leaves the store only when create needs its place: the store was
\* full, the session was the least recently used, and another one took over.
EvictOnlyLeastRecent ==
  [][\A sid \in Ids(order) :
       sid \notin Ids(order') =>
         /\ Len(order) = MAX_SESSIONS
         /\ \A other \in Ids(order) \ {sid} :
              Position(order, sid) < Position(order, other)
         /\ Ids(order') \ Ids(order) # {}]_storeVars

\* A session object that stays in the store never takes a counter back; only
\* create, which puts a new object in its place, starts again from zero.
CountersOnlyGrow ==
  [][\A sid \in Ids(order) \cap Ids(order') :
       \/ /\ session'[sid].client_counter >= session[sid].client_counter
          /\ session'[sid].server_counter >= session[sid].server_counter
       \/ session'[sid] = NewCounters]_storeVars

\* What create and get promise about recency, as the abstract cache: whoever
\* touches a Session has made it the most recently used one.
Recency ==
  INSTANCE RecencyCache
    WITH Key <- SessionId, Capacity <- MAX_SESSIONS, live <- Ids(order),
         value <- session,
         Value <- [client_counter : 0 .. MaxCounter,
                   server_counter : 0 .. MaxCounter],
         older <- {<<order[p[1]], order[p[2]]>> :
                     p \in {r \in (DOMAIN order) \X (DOMAIN order) : r[1] < r[2]}}

ImplementsRecencyCache == Recency!Spec
=============================================================================
