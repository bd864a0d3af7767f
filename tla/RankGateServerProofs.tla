------------------------- MODULE RankGateServerProofs -------------------------
(***************************************************************************)
(* The invariants of the session store and of the handlers over it, for    *)
(* any set of ids, any capacity of the store, and peers that may send any  *)
(* frame at all.                                                           *)
(*                                                                         *)
(* The store first: it stays a dictionary within its bound, and evicts     *)
(* only the least recently used session, so it implements the cache by     *)
(* recency of RecencyCache.  A key order is good when it is a sequence of  *)
(* ids without repetition within the bound; the lemmas follow one order    *)
(* through move_to_end, insertion and eviction.                            *)
(***************************************************************************)
EXTENDS RankGateServer, SequenceTheorems, FiniteSetTheorems, TLAPS

Distinct(q) == \A i, j \in DOMAIN q : q[i] = q[j] => i = j

GoodOrder(q) ==
  q \in Seq(SessionId) /\ Distinct(q) /\ Len(q) <= MAX_SESSIONS

\* A key that is in the order has a place there.
LEMMA PositionHolds ==
  ASSUME NEW q \in Seq(SessionId), NEW sid \in Ids(q)
  PROVE  Position(q, sid) \in 1 .. Len(q) /\ q[Position(q, sid)] = sid
  BY DEF Position, Ids

\* Taking one element out of an order.
LEMMA WithoutHolds ==
  ASSUME NEW q \in Seq(SessionId), Distinct(q), NEW i \in 1 .. Len(q)
  PROVE  /\ Without(q, i) \in Seq(SessionId)
         /\ Len(Without(q, i)) = Len(q) - 1
         /\ Distinct(Without(q, i))
         /\ Ids(Without(q, i)) = Ids(q) \ {q[i]}
  <1> DEFINE w == Without(q, i)
  <1>1. /\ w = [j \in 1 .. Len(q) - 1 |-> IF j < i THEN q[j] ELSE q[j + 1]]
        /\ Len(q) - 1 \in Nat
    BY DEF Without
  <1>2. \A j \in 1 .. Len(q) - 1 : w[j] \in SessionId
    BY <1>1
  <1>3. w \in Seq(SessionId) /\ Len(w) = Len(q) - 1 /\ DOMAIN w = 1 .. Len(q) - 1
    BY <1>1, <1>2
  <1>4. Distinct(w)
    BY <1>1, <1>3 DEF Distinct
  <1>5. Ids(w) \subseteq Ids(q) \ {q[i]}
    BY <1>1, <1>3 DEF Ids, Distinct
  <1>6. ASSUME NEW s \in Ids(q) \ {q[i]}
        PROVE  s \in Ids(w)
    <2>1. PICK k \in 1 .. Len(q) : q[k] = s /\ k # i
      BY DEF Ids
    <2>2. CASE k < i
      <3>1. k \in 1 .. Len(q) - 1 /\ w[k] = s
        BY <1>1, <2>1, <2>2
      <3> QED
        BY <1>3, <3>1 DEF Ids
    <2>3. CASE k > i
      <3>1. k - 1 \in 1 .. Len(q) - 1 /\ w[k - 1] = s
        BY <1>1, <2>1, <2>3
      <3> QED
        BY <1>3, <3>1 DEF Ids
    <2> QED
      BY <2>1, <2>2, <2>3
  <1> QED
    BY <1>3, <1>4, <1>5, <1>6

\* Appending a key that is not there.
LEMMA AppendHolds ==
  ASSUME NEW q \in Seq(SessionId), Distinct(q), NEW sid \in SessionId,
         sid \notin Ids(q)
  PROVE  /\ Append(q, sid) \in Seq(SessionId)
         /\ Len(Append(q, sid)) = Len(q) + 1
         /\ Distinct(Append(q, sid))
         /\ Ids(Append(q, sid)) = Ids(q) \cup {sid}
  BY DEF Distinct, Ids

\* OrderedDict.move_to_end keeps the keys and their number.
LEMMA MoveToEndHolds ==
  ASSUME NEW q \in Seq(SessionId), Distinct(q), NEW sid \in Ids(q)
  PROVE  /\ MoveToEnd(q, sid) \in Seq(SessionId)
         /\ Len(MoveToEnd(q, sid)) = Len(q)
         /\ Distinct(MoveToEnd(q, sid))
         /\ Ids(MoveToEnd(q, sid)) = Ids(q)
  <1> DEFINE p == Position(q, sid)
             w == Without(q, p)
  <1>1. p \in 1 .. Len(q) /\ q[p] = sid
    BY PositionHolds
  <1>2. /\ w \in Seq(SessionId) /\ Len(w) = Len(q) - 1 /\ Distinct(w)
        /\ Ids(w) = Ids(q) \ {sid}
    BY <1>1, WithoutHolds
  <1>3. sid \in SessionId /\ Len(q) \in Nat
    BY DEF Ids
  <1>4. MoveToEnd(q, sid) = Append(w, sid)
    BY DEF MoveToEnd
  <1> HIDE DEF p, w
  <1>5. sid \notin Ids(w)
    BY <1>2
  <1>6. /\ Append(w, sid) \in Seq(SessionId)
        /\ Len(Append(w, sid)) = Len(w) + 1
        /\ Distinct(Append(w, sid))
        /\ Ids(Append(w, sid)) = Ids(w) \cup {sid}
    BY <1>2, <1>3, <1>5, AppendHolds
  <1>7. Ids(w) \cup {sid} = Ids(q)
    BY <1>2
  <1> QED
    BY <1>2, <1>3, <1>4, <1>6, <1>7

\* create, before the eviction: at most one key too many.
LEMMA InsertHolds ==
  ASSUME NEW q, GoodOrder(q), NEW sid \in SessionId
  PROVE  /\ Insert(q, sid) \in Seq(SessionId)
         /\ Distinct(Insert(q, sid))
         /\ Ids(Insert(q, sid)) = Ids(q) \cup {sid}
         /\ Len(Insert(q, sid)) = IF sid \in Ids(q) THEN Len(q) ELSE Len(q) + 1
  BY MoveToEndHolds, AppendHolds DEF Insert, GoodOrder

\* Dropping the head of an order.
LEMMA TailHolds ==
  ASSUME NEW q \in Seq(SessionId), Distinct(q), q # <<>>
  PROVE  /\ Tail(q) \in Seq(SessionId)
         /\ Len(Tail(q)) = Len(q) - 1
         /\ Distinct(Tail(q))
         /\ Ids(Tail(q)) = Ids(q) \ {q[1]}
  <1>1. /\ Tail(q) \in Seq(SessionId) /\ Len(Tail(q)) = Len(q) - 1
        /\ Len(q) \in Nat \ {0}
        /\ \A i \in 1 .. Len(q) - 1 : Tail(q)[i] = q[i + 1]
    BY HeadTailProperties
  <1>2. Distinct(Tail(q))
    BY <1>1 DEF Distinct
  <1>3. Ids(Tail(q)) \subseteq Ids(q) \ {q[1]}
    BY <1>1 DEF Ids, Distinct
  <1>4. ASSUME NEW s \in Ids(q) \ {q[1]}
        PROVE  s \in Ids(Tail(q))
    <2>1. PICK k \in 1 .. Len(q) : q[k] = s /\ k # 1
      BY DEF Ids
    <2>2. k - 1 \in DOMAIN Tail(q) /\ Tail(q)[k - 1] = s
      BY <1>1, <2>1
    <2> QED
      BY <2>2 DEF Ids
  <1> QED
    BY <1>1, <1>2, <1>3, <1>4

\* create: the order is good again, only the head of a full one is gone, and
\* the new key is there.
LEMMA CreatedHolds ==
  ASSUME NEW q, GoodOrder(q), NEW sid \in SessionId
  PROVE  /\ GoodOrder(Created(q, sid))
         /\ sid \in Ids(Created(q, sid))
         /\ Ids(Created(q, sid)) \subseteq Ids(q) \cup {sid}
         /\ \A s \in Ids(q) : s \notin Ids(Created(q, sid)) =>
              Len(q) = MAX_SESSIONS /\ s = q[1] /\ sid \notin Ids(q)
  <1> DEFINE n == Insert(q, sid)
  <1>1. /\ n \in Seq(SessionId) /\ Distinct(n) /\ Ids(n) = Ids(q) \cup {sid}
        /\ Len(n) = IF sid \in Ids(q) THEN Len(q) ELSE Len(q) + 1
    BY InsertHolds
  <1>2. q \in Seq(SessionId) /\ Len(q) \in Nat /\ Len(q) <= MAX_SESSIONS
    BY DEF GoodOrder
  <1>3. CASE Len(n) <= MAX_SESSIONS
    <2>1. Created(q, sid) = n
      BY <1>1, <1>2, <1>3, StoreAssumption DEF Created, Evict
    <2> HIDE DEF n
    <2> QED
      BY <1>1, <1>3, <2>1 DEF GoodOrder
  <1>4. CASE Len(n) > MAX_SESSIONS
    <2>1. sid \notin Ids(q) /\ Len(q) = MAX_SESSIONS
      BY <1>1, <1>2, <1>4, StoreAssumption
    <2>2. n = Append(q, sid) /\ q # <<>>
      BY <1>2, <2>1, StoreAssumption DEF Insert
    <2>3. n[1] = q[1] /\ n # <<>>
      BY <1>2, <2>1, <2>2, StoreAssumption
    <2>4. Created(q, sid) = Tail(n)
      BY <1>4 DEF Created, Evict
    <2>5. q[1] # sid
      BY <1>2, <2>1, StoreAssumption DEF Ids
    <2> HIDE DEF n
    <2>6. /\ Tail(n) \in Seq(SessionId) /\ Len(Tail(n)) = Len(n) - 1
          /\ Distinct(Tail(n)) /\ Ids(Tail(n)) = Ids(n) \ {q[1]}
      BY <1>1, <2>3, TailHolds
    <2>7. Len(n) = MAX_SESSIONS + 1
      BY <1>1, <2>1
    <2> QED
      BY <1>1, <2>1, <2>4, <2>5, <2>6, <2>7, StoreAssumption DEF GoodOrder
  <1> QED
    BY <1>1, <1>2, <1>3, <1>4, StoreAssumption
-----------------------------------------------------------------------------
(***************************************************************************)
(* The specification.                                                      *)
(***************************************************************************)
\* create, whatever the caller stores in the new object.
LEMMA CreateKeepsInv ==
  ASSUME StoreInv, NEW sid \in SessionId, NEW s \in Counters,
         CreateWith(sid, s)
  PROVE  StoreInv'
  <1>1. GoodOrder(order)
    BY DEF StoreInv, StoreTypeOK, NoDuplicates, Bounded, GoodOrder, Distinct
  <1>2. /\ GoodOrder(order') /\ sid \in Ids(order')
        /\ Ids(order') \subseteq Ids(order) \cup {sid}
    BY <1>1, CreatedHolds DEF CreateWith
  <1>3. session' \in [Ids(order') -> Counters]
    BY <1>2 DEF CreateWith, StoreInv, StoreTypeOK
  <1> QED
    BY <1>2, <1>3
    DEF StoreInv, StoreTypeOK, NoDuplicates, Bounded, GoodOrder, Distinct

\* get, whatever the caller changes in the object it got.
LEMMA GetKeepsInv ==
  ASSUME StoreInv, NEW sid \in SessionId, NEW s \in Counters,
         GetWith(sid, s)
  PROVE  StoreInv' /\ Ids(order') = Ids(order)
  <1>1. order \in Seq(SessionId) /\ Distinct(order) /\ sid \in Ids(order)
    BY DEF StoreInv, StoreTypeOK, NoDuplicates, Distinct, GetWith, Known
  <1>2. /\ order' \in Seq(SessionId) /\ Len(order') = Len(order)
        /\ Distinct(order') /\ Ids(order') = Ids(order)
    BY <1>1, MoveToEndHolds DEF GetWith
  <1>3. session' \in [Ids(order') -> Counters]
    BY <1>2 DEF GetWith, StoreInv, StoreTypeOK
  <1> QED
    BY <1>2, <1>3 DEF StoreInv, StoreTypeOK, NoDuplicates, Bounded, Distinct

\* Every operation is a create or a get with an object of the right type.
LEMMA StoreStep ==
  ASSUME StoreInv, NEW sid \in SessionId,
         \/ Create(sid)
         \/ Get(sid)
         \/ \E counter \in 0 .. MaxCounter : AcceptClientCounter(sid, counter)
         \/ DrawServerCounter(sid)
  PROVE  \/ CreateWith(sid, NewCounters) /\ NewCounters \in Counters
         \/ \E s \in Counters :
              /\ GetWith(sid, s)
              /\ s.client_counter >= session[sid].client_counter
              /\ s.server_counter >= session[sid].server_counter
  <1>1. Known(sid) => session[sid] \in Counters
    BY DEF StoreInv, StoreTypeOK, Known
  <1>2. CASE Create(sid)
    BY <1>2 DEF Create, NewCounters, Counters
  <1>3. CASE Get(sid)
    <2>1. session[sid] \in Counters /\ GetWith(sid, session[sid])
      BY <1>1, <1>3 DEF Get, GetWith
    <2>2. /\ session[sid].client_counter >= session[sid].client_counter
          /\ session[sid].server_counter >= session[sid].server_counter
      BY <2>1 DEF Counters
    <2> QED
      BY <2>1, <2>2
  <1>4. ASSUME NEW counter \in 0 .. MaxCounter,
               AcceptClientCounter(sid, counter)
        PROVE  \E s \in Counters :
                 /\ GetWith(sid, s)
                 /\ s.client_counter >= session[sid].client_counter
                 /\ s.server_counter >= session[sid].server_counter
    <2> DEFINE s == Accept(session[sid], counter)
    <2>1. /\ session[sid] \in Counters /\ counter > session[sid].client_counter
          /\ GetWith(sid, s)
      BY <1>1, <1>4 DEF AcceptClientCounter, Acceptable
    <2>2. s \in Counters /\ s.client_counter = counter
            /\ s.server_counter = session[sid].server_counter
      BY <2>1, StoreAssumption DEF Accept, Counters
    <2>3. counter >= session[sid].client_counter
            /\ session[sid].server_counter \in Nat
      BY <2>1, StoreAssumption DEF Counters
    <2> HIDE DEF s
    <2> QED
      BY <2>1, <2>2, <2>3
  <1>5. ASSUME DrawServerCounter(sid)
        PROVE  \E s \in Counters :
                 /\ GetWith(sid, s)
                 /\ s.client_counter >= session[sid].client_counter
                 /\ s.server_counter >= session[sid].server_counter
    <2> DEFINE s == [session[sid] EXCEPT
                       !.server_counter = NextServerCounter(session[sid])]
    <2>1. session[sid] \in Counters /\ GetWith(sid, s)
      BY <1>1, <1>5 DEF DrawServerCounter
    <2>2. /\ s \in Counters
          /\ s.client_counter = session[sid].client_counter
          /\ s.server_counter = session[sid].server_counter + 1
      BY <2>1 DEF NextServerCounter, Counters
    <2>3. session[sid].client_counter \in Nat /\ session[sid].server_counter \in Nat
      BY <2>1 DEF Counters
    <2> HIDE DEF s
    <2> QED
      BY <2>1, <2>2, <2>3
  <1> QED
    BY <1>2, <1>3, <1>4, <1>5

LEMMA StoreStepKeepsInv == StoreInv /\ [StoreNext]_storeVars => StoreInv'
  <1> SUFFICES ASSUME StoreInv, [StoreNext]_storeVars
               PROVE  StoreInv'
    OBVIOUS
  <1>1. CASE StoreNext
    BY <1>1, StoreStep, CreateKeepsInv, GetKeepsInv DEF StoreNext
  <1>2. CASE UNCHANGED storeVars
    BY <1>2
    DEF storeVars, StoreInv, StoreTypeOK, NoDuplicates, Bounded
  <1> QED
    BY <1>1, <1>2

\* The empty store.
LEMMA StoreInitInv == StoreInit => StoreInv
  BY StoreAssumption
  DEF StoreInit, StoreInv, StoreTypeOK, NoDuplicates, Bounded, Ids

LEMMA StoreAlways == StoreSpec => []StoreInv
  BY StoreInitInv, StoreStepKeepsInv, PTL DEF StoreSpec

\* sessions.py: the store is a dictionary from ids to sessions, it never lists a
\* key twice, and it never holds more than MAX_SESSIONS sessions.
THEOREM StoreCorrect == StoreSpec => [](StoreTypeOK /\ NoDuplicates /\ Bounded)
  <1>1. StoreInv => StoreTypeOK /\ NoDuplicates /\ Bounded
    BY DEF StoreInv
  <1> QED
    BY StoreAlways, <1>1, PTL

\* sessions.py: _sessions keeps a session with its three fields under every id it
\* lists and under no other, whatever the handlers do with the objects they get.
THEOREM StoreTyped == StoreSpec => []StoreTypeOK
  BY StoreCorrect, PTL

\* sessions.py, create: a session is evicted only from a full store, only as the
\* least recently used one, and only to make room for another.
THEOREM StoreEvicts == StoreSpec => EvictOnlyLeastRecent
  <1> DEFINE Evicts ==
        \A sid \in Ids(order) :
          sid \notin Ids(order') =>
            /\ Len(order) = MAX_SESSIONS
            /\ \A other \in Ids(order) \ {sid} :
                 Position(order, sid) < Position(order, other)
            /\ Ids(order') \ Ids(order) # {}
  <1>1. StoreInv /\ [StoreNext]_storeVars => Evicts
    <2> SUFFICES ASSUME StoreInv, [StoreNext]_storeVars,
                        NEW sid \in Ids(order), sid \notin Ids(order')
                 PROVE  /\ Len(order) = MAX_SESSIONS
                        /\ \A other \in Ids(order) \ {sid} :
                             Position(order, sid) < Position(order, other)
                        /\ Ids(order') \ Ids(order) # {}
      OBVIOUS
    <2>1. order \in Seq(SessionId) /\ GoodOrder(order)
      BY DEF StoreInv, StoreTypeOK, NoDuplicates, Bounded, GoodOrder, Distinct
    <2>2. PICK new \in SessionId : CreateWith(new, NewCounters)
      BY StoreStep, GetKeepsInv DEF StoreNext, storeVars
    <2>3. /\ Len(order) = MAX_SESSIONS /\ sid = order[1]
          /\ new \notin Ids(order) /\ new \in Ids(order')
      BY <2>1, <2>2, CreatedHolds DEF CreateWith
    <2>4. ASSUME NEW other \in Ids(order) \ {sid}
          PROVE  Position(order, sid) < Position(order, other)
      <3>1. /\ Position(order, sid) \in 1 .. Len(order)
            /\ order[Position(order, sid)] = sid
            /\ Position(order, other) \in 1 .. Len(order)
            /\ order[Position(order, other)] = other
        BY <2>1, PositionHolds
      <3>2. 1 \in 1 .. Len(order) /\ Position(order, sid) = 1
        BY <2>1, <2>3, <3>1, StoreAssumption DEF GoodOrder, Distinct
      <3>3. Position(order, other) # 1
        BY <2>3, <3>1
      <3> QED
        BY <2>1, <3>1, <3>2, <3>3
    <2> QED
      BY <2>3, <2>4
  <1> QED
    BY StoreAlways, <1>1, PTL DEF StoreSpec, EvictOnlyLeastRecent

\* sessions.py, accept_client_counter and next_server_counter: the counters of a
\* session that stays in the store never go back, except that create puts a new
\* session in its place.
THEOREM StoreCounters == StoreSpec => CountersOnlyGrow
  <1> DEFINE Grows ==
        \A sid \in Ids(order) \cap Ids(order') :
          \/ /\ session'[sid].client_counter >= session[sid].client_counter
             /\ session'[sid].server_counter >= session[sid].server_counter
          \/ session'[sid] = NewCounters
  <1>1. StoreInv /\ [StoreNext]_storeVars => Grows
    <2> SUFFICES ASSUME StoreInv, [StoreNext]_storeVars,
                        NEW sid \in Ids(order), sid \in Ids(order')
                 PROVE  \/ /\ session'[sid].client_counter >= session[sid].client_counter
                           /\ session'[sid].server_counter >= session[sid].server_counter
                        \/ session'[sid] = NewCounters
      OBVIOUS
    <2>1. /\ session[sid] \in Counters
          /\ session[sid].client_counter \in Nat
          /\ session[sid].server_counter \in Nat
      BY DEF StoreInv, StoreTypeOK, Counters
    <2>2. CASE UNCHANGED storeVars
      BY <2>1, <2>2 DEF storeVars
    <2>3. ASSUME NEW new \in SessionId, CreateWith(new, NewCounters)
          PROVE  session'[sid] = IF sid = new THEN NewCounters ELSE session[sid]
      BY <2>3 DEF CreateWith
    <2>4. ASSUME NEW got \in SessionId, NEW s, GetWith(got, s)
          PROVE  session'[sid] = IF sid = got THEN s ELSE session[sid]
      BY <2>4 DEF GetWith, StoreInv, StoreTypeOK
    <2>5. CASE StoreNext
      <3>1. PICK one \in SessionId :
              \/ CreateWith(one, NewCounters)
              \/ \E s \in Counters :
                   /\ GetWith(one, s)
                   /\ s.client_counter >= session[one].client_counter
                   /\ s.server_counter >= session[one].server_counter
        BY <2>5, StoreStep DEF StoreNext
      <3>2. CASE CreateWith(one, NewCounters)
        BY <2>1, <2>3, <3>2
      <3>3. ASSUME NEW s \in Counters, GetWith(one, s),
                   s.client_counter >= session[one].client_counter,
                   s.server_counter >= session[one].server_counter
            PROVE  /\ session'[sid].client_counter >= session[sid].client_counter
                   /\ session'[sid].server_counter >= session[sid].server_counter
        BY <2>1, <2>4, <3>3
      <3> QED
        BY <3>1, <3>2, <3>3
    <2> QED
      BY <2>2, <2>5
  <1> QED
    BY StoreAlways, <1>1, PTL DEF StoreSpec, CountersOnlyGrow
-----------------------------------------------------------------------------
(***************************************************************************)
(* The store as a cache by recency.                                        *)
(***************************************************************************)
\* Who was used before whom, as the mapping of Recency reads it off an order.
Older(q) ==
  {<<q[p[1]], q[p[2]]>> : p \in {r \in (DOMAIN q) \X (DOMAIN q) : r[1] < r[2]}}

\* Two keys are in that relation when they have places in this sequence.
LEMMA OlderIs ==
  ASSUME NEW q \in Seq(SessionId), NEW x
  PROVE  x \in Older(q) <=>
           \E i, j \in 1 .. Len(q) : i < j /\ x = <<q[i], q[j]>>
  <1>1. DOMAIN q = 1 .. Len(q)
    OBVIOUS
  <1>2. ASSUME x \in Older(q)
        PROVE  \E i, j \in 1 .. Len(q) : i < j /\ x = <<q[i], q[j]>>
    BY <1>1, <1>2 DEF Older
  <1>3. ASSUME NEW i \in 1 .. Len(q), NEW j \in 1 .. Len(q), i < j,
               x = <<q[i], q[j]>>
        PROVE  x \in Older(q)
    <2>1. <<i, j>> \in {r \in (DOMAIN q) \X (DOMAIN q) : r[1] < r[2]}
      BY <1>1, <1>3
    <2>2. x = <<q[<<i, j>>[1]], q[<<i, j>>[2]]>>
      BY <1>3
    <2> QED
      BY <2>1, <2>2 DEF Older
  <1> QED
    BY <1>2, <1>3

\* Taking a key out leaves the relation of the others as it was.
LEMMA WithoutOlder ==
  ASSUME NEW q \in Seq(SessionId), Distinct(q), NEW k \in 1 .. Len(q)
  PROVE  Older(Without(q, k)) =
           {p \in Older(q) : p[1] \in Ids(q) \ {q[k]} /\ p[2] \in Ids(q) \ {q[k]}}
  <1> DEFINE w == Without(q, k)
             Kept == {p \in Older(q) :
                        p[1] \in Ids(q) \ {q[k]} /\ p[2] \in Ids(q) \ {q[k]}}
  <1>1. /\ w = [j \in 1 .. Len(q) - 1 |-> IF j < k THEN q[j] ELSE q[j + 1]]
        /\ Len(q) \in Nat
    BY DEF Without
  <1>2. w \in Seq(SessionId) /\ Len(w) = Len(q) - 1
    BY WithoutHolds
  <1>3. Ids(w) = Ids(q) \ {q[k]}
    BY WithoutHolds
  <1> HIDE DEF w
  <1>4. ASSUME NEW x \in Older(w)
        PROVE  x \in Kept
    <2>1. PICK i, j \in 1 .. Len(w) : i < j /\ x = <<w[i], w[j]>>
      BY <1>2, <1>4, OlderIs
    <2> DEFINE a == IF i < k THEN i ELSE i + 1
               b == IF j < k THEN j ELSE j + 1
    <2>2. /\ a \in 1 .. Len(q) /\ b \in 1 .. Len(q) /\ a < b
          /\ w[i] = q[a] /\ w[j] = q[b]
      BY <1>1, <1>2, <2>1
    <2> HIDE DEF a, b
    <2>3. x \in Older(q)
      BY <2>1, <2>2, OlderIs
    <2>4. x[1] \in Ids(w) /\ x[2] \in Ids(w)
      BY <1>2, <2>1 DEF Ids
    <2> QED
      BY <1>3, <2>3, <2>4
  <1>5. ASSUME NEW x \in Kept
        PROVE  x \in Older(w)
    <2>1. PICK i, j \in 1 .. Len(q) : i < j /\ x = <<q[i], q[j]>>
      BY <1>5, OlderIs
    <2>2. i # k /\ j # k
      BY <1>5, <2>1
    <2> DEFINE a == IF i < k THEN i ELSE i - 1
               b == IF j < k THEN j ELSE j - 1
    <2>3. /\ a \in 1 .. Len(w) /\ b \in 1 .. Len(w) /\ a < b
          /\ w[a] = q[i] /\ w[b] = q[j]
      BY <1>1, <1>2, <2>1, <2>2
    <2> HIDE DEF a, b
    <2> QED
      BY <1>2, <2>1, <2>3, OlderIs
  <1> QED
    BY <1>4, <1>5 DEF w

\* A key at the tail was used after all the others.
LEMMA AppendOlder ==
  ASSUME NEW q \in Seq(SessionId), NEW sid \in SessionId
  PROVE  Older(Append(q, sid)) = Older(q) \cup {<<other, sid>> : other \in Ids(q)}
  <1> DEFINE n == Append(q, sid)
  <1>1. /\ n \in Seq(SessionId) /\ Len(n) = Len(q) + 1 /\ Len(q) \in Nat
        /\ \A i \in 1 .. Len(q) : n[i] = q[i]
        /\ n[Len(q) + 1] = sid
    OBVIOUS
  <1> HIDE DEF n
  <1>2. ASSUME NEW x \in Older(n)
        PROVE  x \in Older(q) \/ x \in {<<other, sid>> : other \in Ids(q)}
    <2>1. PICK i, j \in 1 .. Len(n) : i < j /\ x = <<n[i], n[j]>>
      BY <1>1, <1>2, OlderIs
    <2>2. i \in 1 .. Len(q) /\ n[i] = q[i]
      BY <1>1, <2>1
    <2>3. CASE j = Len(q) + 1
      <3>1. x = <<q[i], sid>> /\ q[i] \in Ids(q)
        BY <1>1, <2>1, <2>2, <2>3 DEF Ids
      <3> QED
        BY <3>1
    <2>4. CASE j # Len(q) + 1
      <3>1. j \in 1 .. Len(q) /\ x = <<q[i], q[j]>>
        BY <1>1, <2>1, <2>2, <2>4
      <3> QED
        BY <2>1, <2>2, <3>1, OlderIs
    <2> QED
      BY <2>3, <2>4
  <1>3. ASSUME NEW x \in Older(q)
        PROVE  x \in Older(n)
    <2>1. PICK i, j \in 1 .. Len(q) : i < j /\ x = <<q[i], q[j]>>
      BY <1>3, OlderIs
    <2>2. i \in 1 .. Len(n) /\ j \in 1 .. Len(n) /\ x = <<n[i], n[j]>>
      BY <1>1, <2>1
    <2> QED
      BY <1>1, <2>1, <2>2, OlderIs
  <1>4. ASSUME NEW other \in Ids(q)
        PROVE  <<other, sid>> \in Older(n)
    <2>1. PICK i \in 1 .. Len(q) : q[i] = other
      BY DEF Ids
    <2>2. /\ i \in 1 .. Len(n) /\ Len(q) + 1 \in 1 .. Len(n) /\ i < Len(q) + 1
          /\ <<other, sid>> = <<n[i], n[Len(q) + 1]>>
      BY <1>1, <2>1
    <2> QED
      BY <1>1, <2>2, OlderIs
  <1> QED
    BY <1>2, <1>3, <1>4 DEF n

\* move_to_end makes the key the newest one.
LEMMA MoveToEndOlder ==
  ASSUME NEW q \in Seq(SessionId), Distinct(q), NEW sid \in Ids(q)
  PROVE  Older(MoveToEnd(q, sid)) =
           {p \in Older(q) : p[1] \in Ids(q) \ {sid} /\ p[2] \in Ids(q) \ {sid}}
             \cup {<<other, sid>> : other \in Ids(q) \ {sid}}
  <1> DEFINE p == Position(q, sid)
             w == Without(q, p)
  <1>1. p \in 1 .. Len(q) /\ q[p] = sid /\ sid \in SessionId
    BY PositionHolds DEF Ids
  <1>2. w \in Seq(SessionId) /\ Ids(w) = Ids(q) \ {sid}
    BY <1>1, WithoutHolds
  <1>3. Older(w) = {x \in Older(q) : x[1] \in Ids(q) \ {q[p]} /\ x[2] \in Ids(q) \ {q[p]}}
    BY <1>1, WithoutOlder
  <1>4. MoveToEnd(q, sid) = Append(w, sid)
    BY DEF MoveToEnd
  <1> HIDE DEF p, w
  <1>5. Older(Append(w, sid)) = Older(w) \cup {<<other, sid>> : other \in Ids(w)}
    BY <1>1, <1>2, AppendOlder
  <1> QED
    BY <1>1, <1>2, <1>3, <1>4, <1>5

\* Dropping the head leaves the relation of the others as it was.
LEMMA TailOlder ==
  ASSUME NEW q \in Seq(SessionId), Distinct(q), q # <<>>
  PROVE  Older(Tail(q)) =
           {p \in Older(q) : p[1] \in Ids(q) \ {q[1]} /\ p[2] \in Ids(q) \ {q[1]}}
  <1>1. /\ Tail(q) \in Seq(SessionId) /\ Len(Tail(q)) = Len(q) - 1
        /\ Len(q) \in Nat \ {0}
        /\ \A i \in 1 .. Len(q) - 1 : Tail(q)[i] = q[i + 1]
    BY HeadTailProperties
  <1>2. /\ Without(q, 1) \in Seq(SessionId) /\ Len(Without(q, 1)) = Len(q) - 1
        /\ \A i \in 1 .. Len(q) - 1 : Without(q, 1)[i] = q[i + 1]
    BY <1>1, WithoutHolds DEF Without
  <1>3. Tail(q) = Without(q, 1)
    BY <1>1, <1>2, SeqEqual
  <1>4. Older(Without(q, 1)) =
          {p \in Older(q) : p[1] \in Ids(q) \ {q[1]} /\ p[2] \in Ids(q) \ {q[1]}}
    <2>1. 1 \in 1 .. Len(q)
      BY <1>1
    <2> QED
      BY <2>1, WithoutOlder
  <1> QED
    BY <1>3, <1>4

\* There are as many keys as places.
LEMMA IdsCounted ==
  ASSUME NEW q \in Seq(SessionId), Distinct(q)
  PROVE  Cardinality(Ids(q)) = Len(q)
  <1>1. q \in [1 .. Len(q) -> Ids(q)] /\ Len(q) \in Nat
    BY DEF Ids
  <1>2. q \in Bijection(1 .. Len(q), Ids(q))
    BY <1>1 DEF Bijection, Injection, Surjection, IsInjective, Distinct, Ids
  <1> QED
    BY <1>1, <1>2, FS_CountingElements DEF ExistsBijection

\* FiniteSets as the abstract cache has it.
LEMMA SameCardinality == \A S : Recency!Cardinality(S) = Cardinality(S)
  BY DEF Recency!Cardinality, Cardinality

\* The head of an order is the key that was not used for the longest time.
LEMMA HeadLeastRecent ==
  ASSUME NEW q \in Seq(SessionId), q # <<>>
  PROVE  q[1] \in Ids(q) /\ \A other \in Ids(q) \ {q[1]} : <<q[1], other>> \in Older(q)
  <1>1. 1 \in 1 .. Len(q) /\ q[1] \in Ids(q)
    BY DEF Ids
  <1>2. ASSUME NEW other \in Ids(q) \ {q[1]}
        PROVE  <<q[1], other>> \in Older(q)
    <2>1. PICK j \in 1 .. Len(q) : q[j] = other /\ 1 < j
      BY <1>1 DEF Ids
    <2> QED
      BY <1>1, <2>1, OlderIs
  <1> QED
    BY <1>1, <1>2
-----------------------------------------------------------------------------
\* The values of the cache: counters within the bound of StoreSpec.
Kept == [client_counter : 0 .. MaxCounter, server_counter : 0 .. MaxCounter]

CacheInv == StoreInv /\ \A sid \in Ids(order) : session[sid] \in Kept

\* Each operation is a create or a get that leaves a value of the cache.
LEMMA CacheStep ==
  ASSUME CacheInv, NEW sid \in SessionId,
         \/ Create(sid)
         \/ Get(sid)
         \/ \E counter \in 0 .. MaxCounter : AcceptClientCounter(sid, counter)
         \/ DrawServerCounter(sid)
  PROVE  \E s \in Kept : CreateWith(sid, s) \/ GetWith(sid, s)
  <1>1. Known(sid) => session[sid] \in Kept
    BY DEF CacheInv, Known
  <1>2. CASE Create(sid)
    <2>1. NewCounters \in Kept
      BY StoreAssumption DEF NewCounters, Kept
    <2> QED
      BY <1>2, <2>1 DEF Create
  <1>3. CASE Get(sid)
    BY <1>1, <1>3 DEF Get, GetWith
  <1>4. ASSUME NEW counter \in 0 .. MaxCounter,
               AcceptClientCounter(sid, counter)
        PROVE  \E s \in Kept : GetWith(sid, s)
    <2>1. Accept(session[sid], counter) \in Kept
      BY <1>1, <1>4 DEF AcceptClientCounter, Accept, Kept
    <2> QED
      BY <1>4, <2>1 DEF AcceptClientCounter
  <1>5. CASE DrawServerCounter(sid)
    <2> DEFINE s == [session[sid] EXCEPT
                       !.server_counter = NextServerCounter(session[sid])]
    <2>1. session[sid] \in Kept /\ session[sid].server_counter + 1 <= MaxCounter
      BY <1>1, <1>5 DEF DrawServerCounter, NextServerCounter
    <2>2. session[sid].server_counter + 1 \in 0 .. MaxCounter
      BY <2>1, StoreAssumption DEF Kept
    <2>3. s \in Kept
      BY <2>1, <2>2 DEF NextServerCounter, Kept
    <2>4. GetWith(sid, s)
      BY <1>5 DEF DrawServerCounter
    <2> QED
      BY <2>3, <2>4
  <1> QED
    BY <1>2, <1>3, <1>4, <1>5

LEMMA CacheInit == StoreInit => CacheInv
  BY StoreInitInv DEF StoreInit, CacheInv, Ids

LEMMA CacheStepKeepsInv == CacheInv /\ [StoreNext]_storeVars => CacheInv'
  <1> SUFFICES ASSUME CacheInv, [StoreNext]_storeVars
               PROVE  CacheInv'
    OBVIOUS
  <1>1. StoreInv /\ StoreInv'
    BY StoreStepKeepsInv DEF CacheInv
  <1>2. CASE UNCHANGED storeVars
    BY <1>1, <1>2 DEF storeVars, CacheInv
  <1>3. CASE StoreNext
    <2>1. PICK sid \in SessionId, s \in Kept : CreateWith(sid, s) \/ GetWith(sid, s)
      BY <1>3, CacheStep DEF StoreNext
    <2>2. CASE CreateWith(sid, s)
      <3>1. Ids(order') \subseteq Ids(order) \cup {sid}
        BY <1>1, <2>2, CreatedHolds
        DEF CreateWith, StoreInv, StoreTypeOK, NoDuplicates, Bounded, GoodOrder, Distinct
      <3>2. ASSUME NEW k \in Ids(order')
            PROVE  session'[k] \in Kept
        BY <2>2, <3>1 DEF CreateWith, CacheInv
      <3> QED
        BY <1>1, <3>2 DEF CacheInv
    <2>3. CASE GetWith(sid, s)
      <3>1. Ids(order') = Ids(order)
        BY <1>1, <2>3, MoveToEndHolds
        DEF GetWith, Known, StoreInv, StoreTypeOK, NoDuplicates, Distinct
      <3>2. ASSUME NEW k \in Ids(order')
            PROVE  session'[k] \in Kept
        BY <1>1, <2>3, <3>1 DEF GetWith, CacheInv, StoreInv, StoreTypeOK
      <3> QED
        BY <1>1, <3>2 DEF CacheInv
    <2> QED
      BY <2>1, <2>2, <2>3
  <1> QED
    BY <1>2, <1>3

\* A get, whatever changes in the object, is a use of its key.
LEMMA GetIsUse ==
  ASSUME StoreInv, NEW sid \in SessionId, NEW s \in Kept, GetWith(sid, s)
  PROVE  Recency!Use(sid)
  <1>1. order \in Seq(SessionId) /\ Distinct(order) /\ sid \in Ids(order)
    BY DEF StoreInv, StoreTypeOK, NoDuplicates, Distinct, GetWith, Known
  <1>2. order' = MoveToEnd(order, sid)
    BY DEF GetWith
  <1>3. Ids(order') = Ids(order)
    BY <1>1, <1>2, MoveToEndHolds
  <1>4. Older(order') = Recency!Newest(Ids(order), sid)
    BY <1>1, <1>2, MoveToEndOlder DEF Recency!Newest, Older
  <1>5. session' = [x \in Ids(order') |-> IF x = sid THEN s ELSE session[x]]
    BY <1>3 DEF GetWith, StoreInv, StoreTypeOK
  <1>6. Recency!Stores(sid)
    BY <1>5 DEF Recency!Stores, Kept
  <1> QED
    BY <1>1, <1>3, <1>4, <1>6 DEF Recency!Use, Older

\* A create is a use of a key that is there, and otherwise an addition, for
\* which a full store gives up the key at its head.
LEMMA CreateIsUseOrAdd ==
  ASSUME StoreInv, NEW sid \in SessionId, NEW s \in Kept, CreateWith(sid, s)
  PROVE  Recency!Use(sid) \/ Recency!Add(sid)
  <1>1. /\ order \in Seq(SessionId) /\ Distinct(order) /\ Len(order) <= MAX_SESSIONS
        /\ Len(order) \in Nat
    BY DEF StoreInv, StoreTypeOK, NoDuplicates, Distinct, Bounded
  <1>2. order' = Evict(Insert(order, sid))
    BY DEF CreateWith, Created
  <1>3. Recency!Stores(sid)
    BY DEF Recency!Stores, Kept, CreateWith
  <1>4. CASE sid \in Ids(order)
    <2>1. /\ Len(MoveToEnd(order, sid)) = Len(order)
          /\ Ids(MoveToEnd(order, sid)) = Ids(order)
      BY <1>1, <1>4, MoveToEndHolds
    <2>2. order' = MoveToEnd(order, sid)
      BY <1>1, <1>2, <1>4, <2>1, StoreAssumption DEF Evict, Insert
    <2>3. Older(order') = Recency!Newest(Ids(order), sid)
      BY <1>1, <1>4, <2>2, MoveToEndOlder DEF Recency!Newest, Older
    <2> QED
      BY <1>3, <1>4, <2>1, <2>2, <2>3 DEF Recency!Use, Older
  <1>5. CASE sid \notin Ids(order)
    <2> DEFINE n == Append(order, sid)
    <2>1. /\ n \in Seq(SessionId) /\ Len(n) = Len(order) + 1 /\ Distinct(n)
          /\ Ids(n) = Ids(order) \cup {sid}
      BY <1>1, <1>5, AppendHolds
    <2>2. Older(n) = Older(order) \cup {<<other, sid>> : other \in Ids(order)}
      BY <1>1, AppendOlder
    <2>3. order' = Evict(n)
      BY <1>2, <1>5 DEF Insert
    <2>4. Recency!Cardinality(Ids(order)) = Len(order)
      BY <1>1, IdsCounted, SameCardinality
    <2>5. \A x \in Older(order) : x[1] \in Ids(order) /\ x[2] \in Ids(order)
      BY <1>1, OlderIs DEF Ids
    <2>6. CASE Len(order) < MAX_SESSIONS
      <3>1. order' = n
        BY <1>1, <2>1, <2>3, <2>6, StoreAssumption DEF Evict
      <3>2. Ids(order') = Ids(order) \cup {sid}
        BY <2>1, <3>1
      <3>3. Ids(order') \ {sid} = Ids(order)
        BY <1>5, <3>2
      <3>4. Older(order') = Recency!Newest(Ids(order'), sid)
        <4> HIDE DEF n
        <4> QED
          BY <2>2, <2>5, <3>1, <3>3 DEF Recency!Newest, Older
      <3> QED
        BY <1>3, <1>5, <2>4, <2>6, <3>2, <3>4 DEF Recency!Add, Older
    <2>7. CASE Len(order) = MAX_SESSIONS
      <3> DEFINE head == order[1]
      <3>1. /\ order # <<>> /\ n # <<>> /\ n[1] = head
        BY <1>1, <2>1, <2>7, StoreAssumption
      <3>2. order' = Tail(n)
        BY <1>1, <2>1, <2>3, <2>7, StoreAssumption DEF Evict
      <3>3. head \in Ids(order) /\ head # sid
        BY <1>1, <1>5, <3>1, HeadLeastRecent
      <3>4. Recency!LeastRecent(head)
        BY <1>1, <3>1, HeadLeastRecent DEF Recency!LeastRecent, Older
      <3> HIDE DEF n, head
      <3>5. Ids(order') = Ids(n) \ {head}
        BY <2>1, <3>1, <3>2, TailHolds
      <3>6. Ids(order') = (Ids(order) \ {head}) \cup {sid}
        BY <2>1, <3>3, <3>5
      <3>7. Ids(order') \ {sid} = Ids(order) \ {head}
        BY <1>5, <3>6
      <3>8. Older(order') =
              {p \in Older(n) : p[1] \in Ids(n) \ {head} /\ p[2] \in Ids(n) \ {head}}
        BY <2>1, <3>1, <3>2, TailOlder
      <3>9. Older(order') =
              {p \in Older(order) :
                 p[1] \in Ids(order) \ {head} /\ p[2] \in Ids(order) \ {head}}
                \cup {<<other, sid>> : other \in Ids(order) \ {head}}
        BY <2>1, <2>2, <2>5, <3>3, <3>8
      <3>10. Older(order') = Recency!Newest(Ids(order'), sid)
        BY <3>7, <3>9 DEF Recency!Newest, Older
      <3> QED
        BY <1>3, <1>5, <2>4, <2>7, <3>3, <3>4, <3>6, <3>10 DEF Recency!Add, Older
    <2> QED
      BY <1>1, <2>6, <2>7, StoreAssumption
  <1> QED
    BY <1>4, <1>5

\* sessions.py, create and get: whoever touches a session makes it the most
\* recently used one, and a full store gives up the least recently used one, as
\* RecencyCache states it without the dictionary.
THEOREM StoreIsRecencyCache == StoreSpec => ImplementsRecencyCache
  <1>1. StoreInit => Recency!Init
    BY DEF StoreInit, Recency!Init, Ids
  <1>2. CacheInv /\ [StoreNext]_storeVars => [Recency!Next]_(Recency!vars)
    <2> SUFFICES ASSUME CacheInv, [StoreNext]_storeVars
                 PROVE  [Recency!Next]_(Recency!vars)
      OBVIOUS
    <2>1. CASE UNCHANGED storeVars
      BY <2>1 DEF storeVars, Recency!vars, Ids
    <2>2. CASE StoreNext
      <3>1. PICK sid \in SessionId, s \in Kept : CreateWith(sid, s) \/ GetWith(sid, s)
        BY <2>2, CacheStep DEF StoreNext
      <3>2. Recency!Use(sid) \/ Recency!Add(sid)
        BY <3>1, GetIsUse, CreateIsUseOrAdd DEF CacheInv
      <3> QED
        BY <3>2 DEF Recency!Next
    <2> QED
      BY <2>1, <2>2
  <1>3. StoreSpec => []CacheInv
    BY CacheInit, CacheStepKeepsInv, PTL DEF StoreSpec
  <1>4. StoreSpec => Recency!Spec
    BY <1>1, <1>2, <1>3, PTL DEF StoreSpec, Recency!Spec
  <1> QED
    BY <1>4 DEF ImplementsRecencyCache

-----------------------------------------------------------------------------
(***************************************************************************)
(* The handlers over the store.                                            *)
(***************************************************************************)
IsSequence(t) == \E S : t \in Seq(S)

\* What one Session object under the key sid is like.
SessionInv(sid, s) ==
  /\ DOMAIN s = DOMAIN NewSession /\ s = [x \in DOMAIN s |-> s[x]]
  /\ s.client_counter \in Nat /\ s.server_counter \in Nat
  /\ s.proof1_ok \in BOOLEAN
  /\ IsSequence(s.transcript_state)
  /\ \A i \in DOMAIN s.transcript_state : s.transcript_state[i].counter \in Nat
  /\ s.transcript_state = <<>> => s.salt = <<>>
  /\ Coherent(sid, s)
  /\ Counted(s)
  /\ Stands(s)

StoreHolds ==
  /\ GoodOrder(order)
  /\ DOMAIN session = Ids(order)
  /\ \A sid \in Ids(order) : SessionInv(sid, session[sid])

\* What s holds was drawn among the first m draws, and its transcript begins
\* with a HELLO and its answer.
Typed(s, m) ==
  /\ s.username_norm \in User \cup {NoUser}
  /\ s.server_random \in 0 .. m /\ s.server_challenge2 \in 0 .. m
  /\ s.transcript_state # <<>> =>
       /\ s.transcript_state[1].type = "HELLO"
       /\ s.transcript_state[2].type = "SERVER_CHALLENGE"

\* The inductive invariant, and what the type invariant adds to it.
ServerInv == StoreHolds /\ FlagEarned

DrawsHold ==
  /\ fresh \in Nat
  /\ \A sid \in Ids(order) : Typed(session[sid], fresh)
  /\ \A t \in issued : Len(t) >= 5
-----------------------------------------------------------------------------
(***************************************************************************)
(* Transcripts.                                                            *)
(***************************************************************************)
\* The transcript u is t with the frames a and b after it.
Longer(u, t, a, b) ==
  /\ IsSequence(u)
  /\ Len(t) \in Nat /\ DOMAIN t = 1 .. Len(t)
  /\ Len(u) = Len(t) + 2 /\ DOMAIN u = 1 .. Len(t) + 2
  /\ \A i \in 1 .. Len(t) : u[i] = t[i]
  /\ u[Len(t) + 1] = a /\ u[Len(t) + 2] = b

\* A transcript that absorbed a request and its answer.
LEMMA AbsorbedTwo ==
  ASSUME NEW t, IsSequence(t), NEW a, NEW b,
         NEW u, u = Append(Append(t, a), b)
  PROVE  Longer(u, t, a, b)
  <1>1. PICK S : t \in Seq(S)
    BY DEF IsSequence
  <1> DEFINE R == S \cup {a, b}
             v == Append(t, a)
  <1>2. t \in Seq(R) /\ a \in R /\ b \in R
    BY <1>1
  <1>3. /\ v \in Seq(R) /\ Len(v) = Len(t) + 1
        /\ \A i \in 1 .. Len(t) : v[i] = t[i]
        /\ v[Len(t) + 1] = a
    BY <1>2
  <1>0. u = Append(v, b)
    OBVIOUS
  <1>4. /\ u \in Seq(R) /\ Len(u) = Len(v) + 1
        /\ \A i \in 1 .. Len(v) : u[i] = v[i]
        /\ u[Len(v) + 1] = b
    BY <1>0, <1>2, <1>3
  <1>5. Len(t) \in Nat /\ DOMAIN t = 1 .. Len(t) /\ DOMAIN u = 1 .. Len(u)
    BY <1>2, <1>4
  <1> HIDE DEF v
  <1>6. IsSequence(u)
    BY <1>4 DEF IsSequence
  <1>7. /\ Len(u) = Len(t) + 2
        /\ \A i \in 1 .. Len(t) : u[i] = t[i]
        /\ u[Len(t) + 1] = a /\ u[Len(t) + 2] = b
    BY <1>3, <1>4, <1>5
  <1> QED
    BY <1>5, <1>6, <1>7 DEF Longer

\* The first two frames stay what they are.
LEMMA SameSalt ==
  ASSUME NEW t, IsSequence(t), NEW u, IsSequence(u),
         Len(t) >= 2, Len(u) >= 2, u[1] = t[1], u[2] = t[2]
  PROVE  Salt(u) = Salt(t) /\ ServerRandom(u) = ServerRandom(t)
  <1>1. PICK S : t \in Seq(S)
    BY DEF IsSequence
  <1>2. PICK R : u \in Seq(R)
    BY DEF IsSequence
  <1>3. Len(t) \in Nat /\ Len(u) \in Nat
    BY <1>1, <1>2
  <1>4. /\ Salt(t) = [i \in 1 .. 2 |-> t[i]]
        /\ Salt(u) = [i \in 1 .. 2 |-> u[i]]
    BY <1>1, <1>2, <1>3 DEF Salt
  <1>5. Salt(t) = Salt(u)
    BY <1>4
  <1> QED
    BY <1>5 DEF ServerRandom

\* The transcript u is t with the frame a after it.
LongerByOne(u, t, a) ==
  /\ IsSequence(u)
  /\ Len(t) \in Nat /\ DOMAIN t = 1 .. Len(t)
  /\ Len(u) = Len(t) + 1 /\ DOMAIN u = 1 .. Len(t) + 1
  /\ \A i \in 1 .. Len(t) : u[i] = t[i]
  /\ u[Len(t) + 1] = a

\* A transcript that absorbed one frame.
LEMMA AbsorbedOne ==
  ASSUME NEW t, IsSequence(t), NEW a, NEW u, u = Append(t, a)
  PROVE  LongerByOne(u, t, a)
  <1>1. PICK S : t \in Seq(S)
    BY DEF IsSequence
  <1> DEFINE R == S \cup {a}
  <1>2. t \in Seq(R) /\ a \in R
    BY <1>1
  <1> HIDE DEF R
  <1>3. Append(t, a) \in Seq(R)
    BY <1>2
  <1> QED
    BY <1>2, <1>3 DEF IsSequence, LongerByOne
-----------------------------------------------------------------------------
(***************************************************************************)
(* One session.                                                            *)
(***************************************************************************)
\* A session without keys, as create and a failed HELLO leave it.
Keyless(n) ==
  /\ DOMAIN n = DOMAIN NewSession /\ n = [x \in DOMAIN n |-> n[x]]
  /\ n.client_counter \in Nat /\ n.server_counter = 0
  /\ n.keys = {} /\ n.transcript_state = <<>> /\ n.salt = <<>>
  /\ n.server_random = 0 /\ n.server_challenge2 = 0
  /\ n.vm_digest = <<>> /\ n.proof1_ok = FALSE

LEMMA KeylessHolds ==
  ASSUME NEW sid, NEW n, Keyless(n)
  PROVE  SessionInv(sid, n) /\ Begins(n)
  <1>1. <<>> \in Seq({}) /\ Len(<<>>) = 0 /\ DOMAIN <<>> = {}
    OBVIOUS
  <1>2. IsSequence(<<>>)
    BY <1>1 DEF IsSequence
  <1>3. Coherent(sid, n) /\ Counted(n) /\ Stands(n) /\ Begins(n)
    BY <1>1 DEF Keyless, Coherent, Counted, Stands, Begins
  <1>4. /\ n.client_counter \in Nat /\ n.server_counter = 0
        /\ n.proof1_ok = FALSE /\ n.transcript_state = <<>> /\ n.salt = <<>>
        /\ DOMAIN n = DOMAIN NewSession /\ n = [x \in DOMAIN n |-> n[x]]
    BY Zenon DEF Keyless
  <1>5. \A i \in DOMAIN n.transcript_state :
          n.transcript_state[i].counter \in Nat
    <2>1. DOMAIN n.transcript_state = {}
      BY <1>1, <1>4
    <2> QED
      BY <2>1
  <1>6. IsSequence(n.transcript_state)
    BY <1>2, <1>4
  <1>7. n.server_counter \in Nat
    BY <1>4
  <1>8. n.proof1_ok \in BOOLEAN
    BY <1>4, Zenon
  <1> QED
    BY <1>3, <1>4, <1>5, <1>6, <1>7, <1>8, Zenon DEF SessionInv

\* Session(session_id=...) of create.
LEMMA NewSessionHolds ==
  ASSUME NEW sid
  PROVE  SessionInv(sid, NewSession) /\ Begins(NewSession)
  <1>1. Keyless(NewSession)
    BY DEF Keyless, NewSession
  <1> QED
    BY <1>1, KeylessHolds

\* accept_client_counter, whatever the handler does next.
LEMMA AcceptHolds ==
  ASSUME NEW sid, NEW s, SessionInv(sid, s),
         NEW c \in Nat, Acceptable(s, c)
  PROVE  /\ SessionInv(sid, Accept(s, c))
         /\ Follows(s, Accept(s, c))
         /\ Begins(s) => Begins(Accept(s, c))
  <1> DEFINE n == Accept(s, c)
  <1>1. /\ DOMAIN n = DOMAIN s /\ n = [x \in DOMAIN n |-> n[x]]
        /\ n.client_counter = c
        /\ n.server_counter = s.server_counter
        /\ n.username_norm = s.username_norm
        /\ n.server_random = s.server_random
        /\ n.keys = s.keys /\ n.transcript_state = s.transcript_state
        /\ n.salt = s.salt /\ n.server_challenge2 = s.server_challenge2
        /\ n.vm_digest = s.vm_digest /\ n.proof1_ok = s.proof1_ok
    BY DEF Accept, SessionInv, NewSession
  <1> HIDE DEF n
  <1>2. Coherent(sid, n)
    BY <1>1 DEF SessionInv, Coherent
  <1>3. Stands(n)
    BY <1>1 DEF SessionInv, Stands
  <1>4. Counted(n)
    <2> DEFINE t == s.transcript_state
    <2>1. Len(t) = 2 * s.server_counter /\ s.server_counter \in Nat
          /\ c > s.client_counter /\ s.client_counter \in Nat
      BY DEF SessionInv, Counted, Acceptable
    <2>2. ASSUME NEW i \in 1 .. s.server_counter
          PROVE  /\ t[2 * i].counter = i
                 /\ t[2 * i - 1].counter <= c
                 /\ i > 1 => t[2 * i - 3].counter < t[2 * i - 1].counter
      <3>1. IsSequence(t) /\ DOMAIN t = 1 .. Len(t)
        <4>1. IsSequence(t)
          BY DEF SessionInv
        <4> QED
          BY <4>1 DEF IsSequence
      <3>2. 2 * i - 1 \in DOMAIN t
        BY <2>1, <3>1
      <3>3. t[2 * i - 1].counter \in Nat
        BY <3>2 DEF SessionInv
      <3>4. /\ t[2 * i].counter = i
            /\ t[2 * i - 1].counter <= s.client_counter
            /\ i > 1 => t[2 * i - 3].counter < t[2 * i - 1].counter
        BY DEF SessionInv, Counted
      <3>5. s.client_counter \in Nat /\ c > s.client_counter
        BY <2>1
      <3>6. t[2 * i - 1].counter <= c
        <4> DEFINE x == t[2 * i - 1].counter
                   y == s.client_counter
        <4>1. x \in Nat /\ y \in Nat /\ x <= y /\ c > y
          BY <3>3, <3>4, <3>5
        <4> HIDE DEF x, y
        <4> QED
          BY <4>1 DEF x
      <3> QED
        BY <3>4, <3>6
    <2> QED
      BY <1>1, <2>1, <2>2 DEF Counted
  <1>5. Follows(s, n)
    <2>1. n = [s EXCEPT !.client_counter = c]
      BY DEF n, Accept
    <2>2. n.client_counter >= s.client_counter
      BY <1>1 DEF Acceptable, SessionInv
    <2> QED
      BY <1>1, <2>1, <2>2 DEF Follows
  <1>6. Begins(s) => Begins(n)
    BY <1>1 DEF Begins
  <1>7. SessionInv(sid, n)
    BY <1>1, <1>2, <1>3, <1>4 DEF SessionInv
  <1> QED
    BY <1>5, <1>6, <1>7 DEF n

\* The session of an accepted HELLO whose key exchange fails keeps the name.
LEMMA NamedHolds ==
  ASSUME NEW sid, NEW c \in Nat, Acceptable(NewSession, c), NEW user
  PROVE  /\ SessionInv(sid, [Accept(NewSession, c) EXCEPT !.username_norm = user])
         /\ Begins([Accept(NewSession, c) EXCEPT !.username_norm = user])
  <1> DEFINE n == [Accept(NewSession, c) EXCEPT !.username_norm = user]
  <1>1. Keyless(n)
    BY DEF Keyless, NewSession, Accept
  <1> HIDE DEF n
  <1>2. SessionInv(sid, n) /\ Begins(n)
    BY <1>1, KeylessHolds
  <1> QED
    BY <1>2 DEF n

\* What an answered HELLO leaves.
LEMMA HelloHolds ==
  ASSUME NEW f, HelloNamed(f), f.body.counter \in Nat
  PROVE  /\ SessionInv(f.body.session_id, AfterHello(NewSession, f))
         /\ Begins(AfterHello(NewSession, f))
         /\ fresh \in Nat => Typed(AfterHello(NewSession, f), Draw)
  <1> DEFINE n == AfterHello(NewSession, f)
             a == f.body
             b == ServerChallenge(f, 1, Draw).body
             u == Append(Append(<<>>, a), b)
  <1>1. /\ DOMAIN n = DOMAIN NewSession /\ n = [x \in DOMAIN n |-> n[x]]
        /\ n.client_counter = a.counter /\ n.server_counter = 1
        /\ n.username_norm = a.payload.username
        /\ n.server_random = Draw
        /\ n.transcript_state = u /\ n.salt = u /\ n.keys = {u}
        /\ n.server_challenge2 = 0 /\ n.vm_digest = <<>>
        /\ n.proof1_ok = FALSE
    <2> DEFINE t2 == After(ServerChallenge(f, 1, Draw))
    <2>1. t2 = u
      BY DEF After, ServerChallenge, PlainSeal, SealFrame, Absorb, Transcript0
    <2>2. NextServerCounter(NewSession) = 1
      BY DEF NextServerCounter, NewSession
    <2>3. HelloStored(NewSession, f, 1, Draw) =
            [NewSession EXCEPT !.keys = {t2}, !.transcript_state = t2,
                               !.salt = t2, !.server_random = Draw]
      BY DEF HelloStored, DeriveKeys
    <2> HIDE DEF t2, u
    <2>4. n = [HelloStored(NewSession, f, 1, Draw) EXCEPT
                 !.client_counter = f.body.counter,
                 !.username_norm  = f.body.payload.username,
                 !.server_counter = 1]
      BY <2>2 DEF AfterHello
    <2> HIDE DEF n
    <2> QED
      BY <2>1, <2>3, <2>4, ZenonT(60) DEF NewSession
  <1>2. b.counter = 1 /\ b.payload.server_random = Draw
    BY DEF ServerChallenge, PlainSeal, SealFrame
  <1>3. <<>> \in Seq({}) /\ Len(<<>>) = 0 /\ IsSequence(<<>>)
    BY DEF IsSequence
  <1> HIDE DEF n, a, b
  <1>4. /\ IsSequence(u) /\ Len(u) = 2 /\ DOMAIN u = 1 .. 2
        /\ u[1] = a /\ u[2] = b
    <2> DEFINE e == <<>>
    <2>1. IsSequence(e) /\ Len(e) = 0
      BY <1>3
    <2>2. u = Append(Append(e, a), b)
      OBVIOUS
    <2> HIDE DEF e, u
    <2>3. Longer(u, e, a, b)
      BY <2>1, <2>2, AbsorbedTwo
    <2> QED
      BY <2>1, <2>3 DEF Longer
  <1> HIDE DEF u
  <1>5. Salt(u) = u
    <2>1. PICK S : u \in Seq(S)
      BY <1>4 DEF IsSequence
    <2>2. /\ Salt(u) = [i \in 1 .. 2 |-> u[i]]
          /\ u = [i \in 1 .. 2 |-> u[i]]
      BY <1>4, <2>1 DEF Salt
    <2> QED
      BY <2>2
  <1>6. Coherent(a.session_id, n)
    BY <1>1, <1>2, <1>4, <1>5 DEF Coherent, ServerRandom, DeriveKeys
  <1>7. a.counter \in Nat
    BY DEF a
  <1>8. Counted(n)
    BY <1>1, <1>2, <1>4, <1>7 DEF Counted
  <1>9. Stands(n)
    BY <1>1 DEF Stands
  <1>10. \A i \in DOMAIN u : u[i].counter \in Nat
    BY <1>2, <1>4, <1>7
  <1>11. SessionInv(a.session_id, n)
    <2>1. n.client_counter \in Nat /\ n.server_counter \in Nat
      BY <1>1, <1>7
    <2>2. u # <<>>
      BY <1>4
    <2> QED
      BY <1>1, <1>4, <1>6, <1>8, <1>9, <1>10, <2>1, <2>2 DEF SessionInv
  <1>12. Begins(n)
    BY <1>1 DEF Begins
  <1>13. ASSUME fresh \in Nat
         PROVE  Typed(n, Draw)
    <2>1. a.payload.username \in User /\ a.type = "HELLO"
      BY DEF a, HelloNamed, HelloReadable, HelloAccepted
    <2>2. b.type = "SERVER_CHALLENGE"
      BY DEF b, ServerChallenge, PlainSeal, SealFrame
    <2>3. Draw \in 0 .. Draw /\ 0 \in 0 .. Draw
      BY <1>13 DEF Draw
    <2> QED
      BY <1>1, <1>4, <2>1, <2>2, <2>3 DEF Typed
  <1> QED
    BY <1>11, <1>12, <1>13 DEF n, a

\* An answer that carries the handshake on by the request a and the answer b.
Answered(s, n, a, b) ==
  /\ DOMAIN n = DOMAIN s /\ n = [x \in DOMAIN n |-> n[x]]
  /\ n.client_counter = a.counter
  /\ n.server_counter = s.server_counter + 1
  /\ n.username_norm = s.username_norm
  /\ n.server_random = s.server_random
  /\ n.keys = s.keys /\ n.salt = s.salt
  /\ n.transcript_state = Append(Append(s.transcript_state, a), b)
  /\ n.proof1_ok \in BOOLEAN
  /\ b.counter = s.server_counter + 1

\* It keeps all but what the exchanges stored.
LEMMA AnsweredHolds ==
  ASSUME NEW sid, NEW s, SessionInv(sid, s), s.keys # {},
         NEW n, NEW a, NEW b, Answered(s, n, a, b),
         a.counter \in Nat, Acceptable(s, a.counter)
  PROVE  /\ Stands(n) => SessionInv(sid, n)
         /\ Follows(s, n)
         /\ Len(s.transcript_state) >= 2
         /\ Salt(n.transcript_state) = Salt(s.transcript_state)
         /\ ServerRandom(n.transcript_state) = ServerRandom(s.transcript_state)
         /\ n.transcript_state[1] = s.transcript_state[1]
  <1> DEFINE t == s.transcript_state
             u == n.transcript_state
             k == s.server_counter
             c == a.counter
  <1>1. /\ IsSequence(t) /\ k \in Nat /\ s.client_counter \in Nat
        /\ c > s.client_counter /\ c \in Nat
        /\ Len(t) = 2 * k
        /\ \A i \in DOMAIN t : t[i].counter \in Nat
        /\ \A i \in 1 .. k :
             /\ t[2 * i].counter = i
             /\ t[2 * i - 1].counter <= s.client_counter
             /\ i > 1 => t[2 * i - 3].counter < t[2 * i - 1].counter
    BY DEF SessionInv, Counted, Acceptable
  <1>2. /\ Len(t) >= 2
        /\ s.salt = Salt(t) /\ s.keys = {DeriveKeys(Salt(t))}
        /\ s.server_random = ServerRandom(t)
        /\ t[1].session_id = sid
        /\ t[1].payload.username = s.username_norm
    BY DEF SessionInv, Coherent
  <1>3. /\ IsSequence(u)
        /\ Len(t) \in Nat /\ DOMAIN t = 1 .. Len(t)
        /\ Len(u) = Len(t) + 2 /\ DOMAIN u = 1 .. Len(t) + 2
        /\ \A i \in 1 .. Len(t) : u[i] = t[i]
        /\ u[Len(t) + 1] = a /\ u[Len(t) + 2] = b
    <2>1. u = Append(Append(t, a), b)
      BY DEF Answered
    <2>2. IsSequence(t)
      BY <1>1
    <2> HIDE DEF t, u
    <2>3. Longer(u, t, a, b)
      BY <2>1, <2>2, AbsorbedTwo
    <2> QED
      BY <2>3 DEF Longer
  <1>4. /\ n.client_counter = c /\ n.server_counter = k + 1
        /\ n.username_norm = s.username_norm
        /\ n.server_random = s.server_random
        /\ n.keys = s.keys /\ n.salt = s.salt
        /\ b.counter = k + 1 /\ DOMAIN n = DOMAIN s /\ n.proof1_ok \in BOOLEAN
        /\ n = [x \in DOMAIN n |-> n[x]]
    BY DEF Answered
  <1>5. DOMAIN s = DOMAIN NewSession
    BY DEF SessionInv
  <1> HIDE DEF t, u, k, c
  <1>6. u[1] = t[1] /\ u[2] = t[2] /\ Len(u) >= 2
    BY <1>2, <1>3
  <1>7. Salt(u) = Salt(t) /\ ServerRandom(u) = ServerRandom(t)
    BY <1>1, <1>2, <1>3, <1>6, SameSalt
  <1>8. Coherent(sid, n)
    BY <1>2, <1>4, <1>6, <1>7 DEF Coherent, u
  <1>9. \A i \in DOMAIN u : u[i].counter \in Nat
    <2> SUFFICES ASSUME NEW i \in 1 .. Len(t) + 2
                 PROVE  u[i].counter \in Nat
      BY <1>3
    <2>1. CASE i \in 1 .. Len(t)
      BY <1>1, <1>3, <2>1
    <2>2. CASE i = Len(t) + 1
      BY <1>1, <1>3, <2>2 DEF c
    <2>3. CASE i = Len(t) + 2
      BY <1>1, <1>3, <1>4, <2>3
    <2> QED
      BY <1>3, <2>1, <2>2, <2>3
  <1>10. Counted(n)
    <2>1. Len(u) = 2 * (k + 1)
      BY <1>1, <1>3
    <2>2. ASSUME NEW i \in 1 .. k
          PROVE  /\ u[2 * i].counter = i
                 /\ u[2 * i - 1].counter <= c
                 /\ i > 1 => u[2 * i - 3].counter < u[2 * i - 1].counter
      <3>1. /\ 2 * i \in 1 .. Len(t) /\ 2 * i - 1 \in 1 .. Len(t)
            /\ i > 1 => 2 * i - 3 \in 1 .. Len(t)
        BY <1>1
      <3>2. /\ u[2 * i] = t[2 * i] /\ u[2 * i - 1] = t[2 * i - 1]
            /\ i > 1 => u[2 * i - 3] = t[2 * i - 3]
        BY <1>3, <3>1
      <3>3. /\ t[2 * i].counter = i
            /\ t[2 * i - 1].counter <= s.client_counter
            /\ i > 1 => t[2 * i - 3].counter < t[2 * i - 1].counter
            /\ t[2 * i - 1].counter \in Nat
        BY <1>1, <1>3, <3>1
      <3>4. t[2 * i - 1].counter <= c
        <4> DEFINE x == t[2 * i - 1].counter
                   y == s.client_counter
        <4>1. x \in Nat /\ y \in Nat /\ c \in Nat /\ x <= y /\ c > y
          BY <1>1, <3>3
        <4> HIDE DEF x, y
        <4> QED
          BY <4>1 DEF x
      <3> QED
        BY <3>2, <3>3, <3>4
    <2>3. /\ u[2 * (k + 1)].counter = k + 1
          /\ u[2 * (k + 1) - 1].counter = c
      <3>1. 2 * (k + 1) = Len(t) + 2 /\ 2 * (k + 1) - 1 = Len(t) + 1
        BY <1>1
      <3> QED
        BY <1>3, <1>4, <3>1 DEF c
    <2>4. k + 1 > 1 => u[2 * (k + 1) - 3].counter < c
      <3> SUFFICES ASSUME k + 1 > 1
                   PROVE  u[2 * (k + 1) - 3].counter < c
        OBVIOUS
      <3>1. 2 * (k + 1) - 3 = 2 * k - 1 /\ k \in 1 .. k
            /\ 2 * k - 1 \in 1 .. Len(t)
        BY <1>1
      <3>2. u[2 * k - 1] = t[2 * k - 1] /\ t[2 * k - 1].counter \in Nat
            /\ t[2 * k - 1].counter <= s.client_counter
        BY <1>1, <1>3, <3>1
      <3> DEFINE x == t[2 * k - 1].counter
                 y == s.client_counter
      <3>3. x \in Nat /\ y \in Nat /\ c \in Nat /\ x <= y /\ c > y
        BY <1>1, <3>2
      <3>4. u[2 * (k + 1) - 3].counter = x
        BY <3>1, <3>2
      <3> HIDE DEF x, y
      <3> QED
        BY <3>3, <3>4
    <2>5. ASSUME NEW i \in 1 .. k + 1
          PROVE  /\ u[2 * i].counter = i
                 /\ u[2 * i - 1].counter <= c
                 /\ i > 1 => u[2 * i - 3].counter < u[2 * i - 1].counter
      <3>1. CASE i \in 1 .. k
        BY <2>2, <3>1
      <3>2. CASE i = k + 1
        BY <1>1, <2>3, <2>4, <3>2
      <3> QED
        BY <1>1, <3>1, <3>2
    <2> QED
      BY <1>4, <2>1, <2>5 DEF Counted, u
  <1>11. k + 1 \in Nat /\ c \in Nat /\ u # <<>>
    BY <1>1, <1>3
  <1>12. Stands(n) => SessionInv(sid, n)
    BY <1>3, <1>4, <1>5, <1>8, <1>9, <1>10, <1>11 DEF SessionInv, u
  <1>13. Follows(s, n)
    <2>1. SubSeq(u, 1, Len(t)) = t
      <3>1. PICK S : t \in Seq(S)
        BY <1>1 DEF IsSequence
      <3>2. PICK R : u \in Seq(R)
        BY <1>3 DEF IsSequence
      <3>3. /\ SubSeq(u, 1, Len(t)) = [i \in 1 .. Len(t) |-> u[i]]
            /\ t = [i \in 1 .. Len(t) |-> t[i]]
        BY <1>3, <3>1, <3>2
      <3> QED
        BY <1>3, <3>3
    <2> QED
      BY <1>1, <1>3, <1>4, <2>1 DEF Follows, t, u, k
  <1> QED
    BY <1>2, <1>6, <1>7, <1>12, <1>13 DEF t, u
\* What an answered CLIENT_PROOF_1 leaves.
LEMMA ExchangeHolds ==
  ASSUME NEW f, f.body.counter \in Nat,
         SessionInv(f.body.session_id, Addressed(f)), Proof1Accepted(f)
  PROVE  /\ SessionInv(f.body.session_id, AfterExchange(Addressed(f), f))
         /\ Follows(Addressed(f), AfterExchange(Addressed(f), f))
         /\ \E b : Answered(Addressed(f), AfterExchange(Addressed(f), f),
                          f.body, b)
         /\ AfterExchange(Addressed(f), f).server_challenge2 = Draw
  <1> DEFINE sid == f.body.session_id
             s == Addressed(f)
             n == AfterExchange(s, f)
             a == f.body
             proof == ServerProof(s, f, NextServerCounter(s), Draw)
             b == proof.body
             t == s.transcript_state
             u == n.transcript_state
  <1>1. /\ a.type = "CLIENT_PROOF_1" /\ Acceptable(s, a.counter)
        /\ s.keys # {} /\ f.prev = t
        /\ ValidLicense(s.username_norm, a.payload.license)
        /\ a.payload.vm = RunVm("current", s.username_norm, a.payload.license,
                                s.server_random, sid, s.salt)
    BY DEF Proof1Accepted, CounterAccepted, OpensForSession, AeadOpen, Opens,
           ValidProof1, ValidVm
  <1>2. DOMAIN s = DOMAIN NewSession
    BY DEF SessionInv
  <1>3. After(proof) = Append(Append(t, a), b)
    BY <1>1 DEF After, Absorb, ServerProof, AeadSeal, SealFrame
  <1>4. /\ b.counter = s.server_counter + 1 /\ b.type = "SERVER_PROOF_1"
        /\ b.payload.challenge2 = Draw
    BY DEF ServerProof, AeadSeal, SealFrame, NextServerCounter
  <1>5. n = [[s EXCEPT !.transcript_state  = After(proof),
                       !.server_challenge2 = Draw,
                       !.vm_digest         = a.payload.vm,
                       !.proof1_ok         = TRUE]
               EXCEPT !.client_counter = a.counter,
                      !.server_counter = s.server_counter + 1]
    BY DEF AfterExchange, ExchangeStored, NextServerCounter
  <1> HIDE DEF n, proof, b, s, a
  <1>6. /\ DOMAIN n = DOMAIN s /\ n = [x \in DOMAIN n |-> n[x]]
        /\ n.client_counter = a.counter
        /\ n.server_counter = s.server_counter + 1
        /\ n.username_norm = s.username_norm
        /\ n.server_random = s.server_random
        /\ n.keys = s.keys /\ n.salt = s.salt
        /\ u = After(proof)
        /\ n.server_challenge2 = Draw /\ n.vm_digest = a.payload.vm
        /\ n.proof1_ok = TRUE
    BY <1>2, <1>5 DEF NewSession
  <1>7. Answered(s, n, a, b)
    BY <1>3, <1>4, <1>6 DEF Answered
  <1>8. SessionInv(sid, s) /\ a.counter \in Nat
    BY DEF s, a
  <1>9. /\ Stands(n) => SessionInv(sid, n)
        /\ Follows(s, n)
        /\ Len(t) >= 2 /\ Salt(u) = Salt(t)
        /\ ServerRandom(u) = ServerRandom(t) /\ u[1] = t[1]
    BY <1>1, <1>7, <1>8, AnsweredHolds
  <1>10. Longer(u, t, a, b)
    BY <1>3, <1>6, <1>8, AbsorbedTwo DEF SessionInv
  <1>11. /\ s.salt = Salt(t) /\ s.server_random = ServerRandom(t)
         /\ t[1].session_id = sid
         /\ t[1].payload.username = s.username_norm
    BY <1>1, <1>8 DEF SessionInv, Coherent
  <1> DEFINE i == Len(t) + 1
  <1> HIDE DEF t, u
  <1>12. /\ i \in DOMAIN u /\ u[i] = a
         /\ i + 1 \in DOMAIN u /\ u[i + 1] = b
         /\ \A j \in DOMAIN u : j <= i \/ u[j] = b
    BY <1>10 DEF Longer
  <1>13. LastExchange(u, i)
    BY <1>1, <1>4, <1>12 DEF LastExchange, Positions
  <1>14. SoundExchange(u, i)
    BY <1>1, <1>9, <1>11, <1>12 DEF SoundExchange
  <1>15. Stands(n)
    BY <1>4, <1>6, <1>12, <1>13, <1>14 DEF Stands, u
  <1>16. (\E x : Answered(s, n, a, x)) /\ n.server_challenge2 = Draw
    BY <1>6, <1>7
  <1> QED
    BY <1>9, <1>15, <1>16 DEF n, s, a

\* What an answered CLIENT_PROOF_2 leaves, and the transcript it was issued for.
LEMMA FinalizeHolds ==
  ASSUME NEW f, f.body.counter \in Nat,
         SessionInv(f.body.session_id, Addressed(f)), Proof2Accepted(f)
  PROVE  /\ SessionInv(f.body.session_id, AfterFinalize(Addressed(f), f))
         /\ Follows(Addressed(f), AfterFinalize(Addressed(f), f))
         /\ Earned(After(f))
         /\ \E b : Answered(Addressed(f), AfterFinalize(Addressed(f), f),
                          f.body, b)
         /\ AfterFinalize(Addressed(f), f).server_challenge2
              = Addressed(f).server_challenge2
         /\ LongerByOne(After(f), Addressed(f).transcript_state, f.body)
  <1> DEFINE sid == f.body.session_id
             s == Addressed(f)
             n == AfterFinalize(s, f)
             a == f.body
             seal == SealedFlag(s, f, NextServerCounter(s))
             b == seal.body
             t == s.transcript_state
             u == n.transcript_state
             e == After(f)
  <1>1. /\ a.type \in {"CLIENT_PROOF_2", "FINALIZE"}
        /\ Acceptable(s, a.counter)
        /\ s.proof1_ok /\ s.keys # {} /\ f.prev = t
        /\ \E keys \in s.keys :
             a.payload.proof2 = Proof2(keys, s.server_challenge2,
                                       s.server_random, s.vm_digest, s.salt)
    BY DEF Proof2Accepted, FinalizeType, CounterAccepted, OpensForSession,
           AeadOpen, Opens, ValidProof2
  <1>2. DOMAIN s = DOMAIN NewSession
    BY DEF SessionInv
  <1>3. After(seal) = Append(Append(t, a), b) /\ e = Append(t, a)
    BY <1>1 DEF After, Absorb, SealedFlag, AeadSeal, SealFrame
  <1>4. b.counter = s.server_counter + 1 /\ b.type = "SEALED_FLAG"
    BY DEF SealedFlag, AeadSeal, SealFrame, NextServerCounter
  <1>5. n = [[s EXCEPT !.client_counter = a.counter]
               EXCEPT !.server_counter   = s.server_counter + 1,
                      !.transcript_state = After(seal)]
    BY DEF AfterFinalize, Accept, NextServerCounter
  <1> HIDE DEF n, seal, b, s, a, e
  <1>6. /\ DOMAIN n = DOMAIN s /\ n = [x \in DOMAIN n |-> n[x]]
        /\ n.client_counter = a.counter
        /\ n.server_counter = s.server_counter + 1
        /\ n.username_norm = s.username_norm
        /\ n.server_random = s.server_random
        /\ n.keys = s.keys /\ n.salt = s.salt
        /\ u = After(seal)
        /\ n.server_challenge2 = s.server_challenge2
        /\ n.vm_digest = s.vm_digest
        /\ n.proof1_ok = s.proof1_ok
    BY <1>2, <1>5 DEF NewSession
  <1>7. SessionInv(sid, s) /\ a.counter \in Nat
    BY DEF s, a
  <1>8. Answered(s, n, a, b)
    BY <1>3, <1>4, <1>6, <1>7 DEF Answered, SessionInv
  <1>9. /\ Stands(n) => SessionInv(sid, n)
        /\ Follows(s, n)
        /\ Len(t) >= 2 /\ Salt(u) = Salt(t)
        /\ ServerRandom(u) = ServerRandom(t) /\ u[1] = t[1]
    BY <1>1, <1>7, <1>8, AnsweredHolds
  <1>10. Longer(u, t, a, b)
    BY <1>3, <1>6, <1>7, AbsorbedTwo DEF SessionInv
  <1>11. /\ s.salt = Salt(t) /\ s.server_random = ServerRandom(t)
         /\ s.keys = {DeriveKeys(Salt(t))}
    BY <1>1, <1>7 DEF SessionInv, Coherent
  <1>12. IsSequence(t)
    BY <1>7 DEF SessionInv
  <1>13. PICK i \in DOMAIN t :
           /\ LastExchange(t, i) /\ SoundExchange(t, i)
           /\ s.vm_digest = t[i].payload.vm
           /\ i + 1 \in DOMAIN t
           /\ s.server_challenge2 = t[i + 1].payload.challenge2
    BY <1>1, <1>7 DEF SessionInv, Stands
  <1> HIDE DEF t, u
  <1>14. Stands(n)
    <2>1. /\ i \in DOMAIN u /\ u[i] = t[i]
          /\ i + 1 \in DOMAIN u /\ u[i + 1] = t[i + 1]
          /\ \A j \in DOMAIN u : \/ j \in DOMAIN t /\ u[j] = t[j]
                                \/ u[j] = a \/ u[j] = b
      BY <1>10, <1>13 DEF Longer
    <2>2. LastExchange(u, i)
      BY <1>1, <1>4, <1>13, <2>1 DEF LastExchange, Positions
    <2>3. SoundExchange(u, i)
      BY <1>9, <1>13, <2>1 DEF SoundExchange
    <2> QED
      BY <1>6, <1>13, <2>1, <2>2, <2>3 DEF Stands, u
  <1>15. Earned(e)
    <2>1. LongerByOne(e, t, a)
      BY <1>3, <1>12, AbsorbedOne
    <2>2. /\ i \in DOMAIN e /\ e[i] = t[i]
          /\ i + 1 \in DOMAIN e /\ e[i + 1] = t[i + 1]
          /\ e[Len(e)] = a /\ e[1] = t[1] /\ e[2] = t[2]
          /\ \A j \in DOMAIN e : \/ j \in DOMAIN t /\ e[j] = t[j]
                                \/ e[j] = a
          /\ IsSequence(e) /\ Len(e) >= 2
      BY <1>9, <1>13, <2>1 DEF LongerByOne
    <2>3. Salt(e) = Salt(t) /\ ServerRandom(e) = ServerRandom(t)
      BY <1>9, <1>12, <2>2, SameSalt
    <2>4. LastExchange(e, i)
      BY <1>1, <1>13, <2>2 DEF LastExchange, Positions
    <2>5. SoundExchange(e, i)
      BY <1>13, <2>2, <2>3 DEF SoundExchange
    <2>6. a.payload.proof2 =
            Proof2(DeriveKeys(Salt(t)), t[i + 1].payload.challenge2,
                   ServerRandom(t), t[i].payload.vm, Salt(t))
      BY <1>1, <1>11, <1>13
    <2> QED
      BY <2>2, <2>3, <2>4, <2>5, <2>6 DEF Earned
  <1>16. (\E x : Answered(s, n, a, x))
         /\ n.server_challenge2 = s.server_challenge2
    BY <1>6, <1>8
  <1>17. LongerByOne(e, t, a)
    BY <1>3, <1>12, AbsorbedOne
  <1> QED
    BY <1>9, <1>14, <1>15, <1>16, <1>17 DEF n, s, e, a, t
-----------------------------------------------------------------------------
(***************************************************************************)
(* The store of sessions.                                                  *)
(***************************************************************************)
\* A session the step does not touch.
LEMMA FollowsItself ==
  ASSUME NEW sid, NEW s, SessionInv(sid, s)
  PROVE  Follows(s, s)
  <1>1. /\ DOMAIN s = DOMAIN NewSession /\ s = [x \in DOMAIN s |-> s[x]]
        /\ s.client_counter \in Nat
    BY DEF SessionInv
  <1>2. s = [s EXCEPT !.client_counter = s.client_counter]
    BY <1>1
  <1> QED
    BY <1>1, <1>2 DEF Follows

LEMMA CreateWithHolds ==
  ASSUME StoreHolds, NEW sid \in SessionId, NEW s, SessionInv(sid, s), Begins(s),
         CreateWith(sid, s)
  PROVE  StoreHolds' /\ HandshakesKept
  <1>1. GoodOrder(order') /\ Ids(order') \subseteq Ids(order) \cup {sid}
    BY CreatedHolds DEF StoreHolds, CreateWith
  <1>2. session' = [k \in Ids(order') |-> IF k = sid THEN s ELSE session[k]]
    BY DEF CreateWith
  <1>3. ASSUME NEW k \in Ids(order')
        PROVE  SessionInv(k, session'[k])
    <2>1. CASE k = sid
      BY <1>2, <2>1
    <2>2. CASE k # sid
      <3>1. k \in Ids(order) /\ session'[k] = session[k]
        BY <1>1, <1>2, <2>2
      <3> QED
        BY <3>1 DEF StoreHolds
    <2> QED
      BY <2>1, <2>2
  <1>4. DOMAIN session' = Ids(order')
    BY <1>2
  <1>5. ASSUME NEW k \in Ids(order) \cap Ids(order')
        PROVE  Follows(session[k], session'[k]) \/ Begins(session'[k])
    <2>1. CASE k = sid
      BY <1>2, <2>1
    <2>2. CASE k # sid
      <3>1. session'[k] = session[k] /\ SessionInv(k, session[k])
        BY <1>2, <2>2 DEF StoreHolds
      <3> QED
        BY <3>1, FollowsItself
    <2> QED
      BY <2>1, <2>2
  <1> QED
    BY <1>1, <1>3, <1>4, <1>5 DEF StoreHolds, HandshakesKept

LEMMA GetWithHolds ==
  ASSUME StoreHolds, NEW sid, NEW s, SessionInv(sid, s),
         Follows(session[sid], s), GetWith(sid, s)
  PROVE  StoreHolds' /\ HandshakesKept
  <1>1. order \in Seq(SessionId) /\ Distinct(order) /\ sid \in Ids(order)
        /\ Len(order) <= MAX_SESSIONS
    BY DEF StoreHolds, GoodOrder, GetWith, Known
  <1>2. GoodOrder(order') /\ Ids(order') = Ids(order)
    BY <1>1, MoveToEndHolds DEF GetWith, GoodOrder
  <1>3. session' = [session EXCEPT ![sid] = s] /\ DOMAIN session = Ids(order)
    BY DEF GetWith, StoreHolds
  <1>4. ASSUME NEW k \in Ids(order)
        PROVE  SessionInv(k, session'[k]) /\ Follows(session[k], session'[k])
    <2>1. CASE k = sid
      BY <1>3, <2>1
    <2>2. CASE k # sid
      <3>1. session'[k] = session[k] /\ SessionInv(k, session[k])
        BY <1>3, <2>2 DEF StoreHolds
      <3> QED
        BY <3>1, FollowsItself
    <2> QED
      BY <2>1, <2>2
  <1> QED
    BY <1>2, <1>3, <1>4 DEF StoreHolds, HandshakesKept

\* handle_hello, wherever it stops.
LEMMA HandleHelloHolds ==
  ASSUME ServerInv, NEW f, f.body.session_id \in SessionId,
         f.body.counter \in Nat, HandleHello(f)
  PROVE  ServerInv' /\ HandshakesKept
  <1>1. SessionInv(f.body.session_id, NewSession) /\ Begins(NewSession)
    BY NewSessionHolds
  <1>2. CASE HelloAnswered(f)
    BY <1>2, HelloHolds, CreateWithHolds DEF HelloAnswered, ServerInv, FlagEarned
  <1>3. CASE HelloCounterRefused(f)
    BY <1>1, <1>3, CreateWithHolds
    DEF HelloCounterRefused, ServerInv, FlagEarned
  <1>4. CASE HelloUnreadable(f)
    BY <1>1, <1>4, AcceptHolds, CreateWithHolds
    DEF HelloUnreadable, HelloAccepted, ServerInv, FlagEarned
  <1>5. CASE HelloKeyRefused(f)
    BY <1>5, NamedHolds, CreateWithHolds
    DEF HelloKeyRefused, HelloNamed, HelloAccepted, ServerInv, FlagEarned
  <1> QED
    BY <1>2, <1>3, <1>4, <1>5 DEF HandleHello, HelloFailed

\* The session a later request is for.
LEMMA AddressedHolds ==
  ASSUME ServerInv, NEW f, Known(f.body.session_id)
  PROVE  SessionInv(f.body.session_id, Addressed(f))
  BY DEF ServerInv, StoreHolds, Known, Addressed

LEMMA UnchangedHolds ==
  ASSUME ServerInv, UNCHANGED serverVars
  PROVE  ServerInv' /\ HandshakesKept
  <1>1. ServerInv'
    BY DEF serverVars, ServerInv, StoreHolds, FlagEarned
  <1>2. ASSUME NEW sid \in Ids(order)
        PROVE  Follows(session[sid], session'[sid])
    BY FollowsItself DEF serverVars, ServerInv, StoreHolds
  <1> QED
    BY <1>1, <1>2 DEF HandshakesKept

\* Where both later handlers stop with nothing but the counter stored.
LEMMA RefusedHolds ==
  ASSUME ServerInv, NEW f, f.body.counter \in Nat,
         \/ UnknownSession(f)
         \/ CounterRefused(f)
         \/ CounterAccepted(f) /\ ProofRefused(f)
  PROVE  ServerInv' /\ HandshakesKept
  <1>1. CASE UnknownSession(f)
    <2>1. UNCHANGED serverVars
      BY <1>1 DEF UnknownSession
    <2> QED
      BY <2>1, UnchangedHolds
  <1>2. CASE CounterRefused(f)
    <2>1. /\ SessionInv(f.body.session_id, Addressed(f))
          /\ Follows(Addressed(f), Addressed(f))
      BY <1>2, AddressedHolds, FollowsItself DEF CounterRefused
    <2> QED
      BY <1>2, <2>1, GetWithHolds
      DEF CounterRefused, Addressed, ServerInv, FlagEarned
  <1>3. CASE CounterAccepted(f) /\ ProofRefused(f)
    <2>1. /\ SessionInv(f.body.session_id, Accept(Addressed(f), f.body.counter))
          /\ Follows(Addressed(f), Accept(Addressed(f), f.body.counter))
      BY <1>3, AddressedHolds, AcceptHolds DEF CounterAccepted
    <2> QED
      BY <1>3, <2>1, GetWithHolds
      DEF ProofRefused, Addressed, ServerInv, FlagEarned
  <1> QED
    BY <1>1, <1>2, <1>3

LEMMA HandleExchangeHolds ==
  ASSUME ServerInv, NEW f, f.body.counter \in Nat, HandleExchange(f)
  PROVE  ServerInv' /\ HandshakesKept
  <1>1. CASE ExchangeAnswered(f)
    <2>1. /\ SessionInv(f.body.session_id, AfterExchange(Addressed(f), f))
          /\ Follows(Addressed(f), AfterExchange(Addressed(f), f))
      BY <1>1, AddressedHolds, ExchangeHolds
      DEF ExchangeAnswered, Proof1Accepted, CounterAccepted
    <2> QED
      BY <1>1, <2>1, GetWithHolds
      DEF ExchangeAnswered, Addressed, ServerInv, FlagEarned
  <1>2. CASE ExchangeFailed(f)
    BY <1>2, RefusedHolds DEF ExchangeFailed, ExchangeRefused
  <1> QED
    BY <1>1, <1>2 DEF HandleExchange

LEMMA HandleFinalizeHolds ==
  ASSUME ServerInv, NEW f, f.body.counter \in Nat, HandleFinalize(f)
  PROVE  ServerInv' /\ HandshakesKept
  <1>1. CASE FinalizeAnswered(f)
    <2>1. /\ SessionInv(f.body.session_id, AfterFinalize(Addressed(f), f))
          /\ Follows(Addressed(f), AfterFinalize(Addressed(f), f))
          /\ Earned(After(f))
      BY <1>1, AddressedHolds, FinalizeHolds
      DEF FinalizeAnswered, Proof2Accepted, CounterAccepted
    <2> QED
      BY <1>1, <2>1, GetWithHolds
      DEF FinalizeAnswered, Addressed, ServerInv, FlagEarned
  <1>2. CASE FinalizeFailed(f)
    BY <1>2, RefusedHolds DEF FinalizeFailed, FinalizeRefused
  <1> QED
    BY <1>1, <1>2 DEF HandleFinalize
-----------------------------------------------------------------------------
(***************************************************************************)
(* The specification.                                                      *)
(***************************************************************************)
LEMMA ServerInitHolds == ServerInit => ServerInv
  <1> SUFFICES ASSUME ServerInit PROVE ServerInv
    OBVIOUS
  <1>1. GoodOrder(order) /\ Ids(order) = {}
    BY StoreAssumption DEF ServerInit, GoodOrder, Distinct, Ids
  <1>2. DOMAIN session = {} /\ issued = {}
    BY DEF ServerInit
  <1> QED
    BY <1>1, <1>2 DEF ServerInv, StoreHolds, FlagEarned

LEMMA ServerStepHolds == ServerInv /\ [ServerNext]_serverVars =>
                           ServerInv' /\ HandshakesKept
  <1> SUFFICES ASSUME ServerInv, [ServerNext]_serverVars
               PROVE  ServerInv' /\ HandshakesKept /\ HandshakesKept
    OBVIOUS
  <1>1. ASSUME NEW f, f.body.session_id \in SessionId, f.body.counter \in Nat,
               Handle(f)
        PROVE  ServerInv' /\ HandshakesKept
    BY <1>1, HandleHelloHolds, HandleExchangeHolds, HandleFinalizeHolds
    DEF Handle
  <1>2. ASSUME NEW sid \in SessionId, DebugTranscript(sid)
        PROVE  ServerInv' /\ HandshakesKept
    <2>1. SessionInv(sid, session[sid])
      BY <1>2 DEF DebugTranscript, Known, ServerInv, StoreHolds
    <2>2. Follows(session[sid], session[sid])
      BY <2>1, FollowsItself
    <2> QED
      BY <1>2, <2>1, <2>2, GetWithHolds
      DEF DebugTranscript, Get, ServerInv, FlagEarned
  <1>3. CASE Restart
    <2>1. GoodOrder(order') /\ Ids(order') = {}
      BY <1>3, StoreAssumption DEF Restart, GoodOrder, Distinct, Ids
    <2>2. DOMAIN session' = {} /\ issued' = issued
      BY <1>3 DEF Restart
    <2> QED
      BY <2>1, <2>2 DEF ServerInv, StoreHolds, FlagEarned, HandshakesKept
  <1>4. CASE UNCHANGED serverVars
    BY <1>4, UnchangedHolds
  <1> QED
    BY <1>1, <1>2, <1>3, <1>4 DEF ServerNext

LEMMA ServerAlways == ServerSpec => []ServerInv
  BY ServerInitHolds, ServerStepHolds, PTL DEF ServerSpec
-----------------------------------------------------------------------------
(***************************************************************************)
(* The draws and the lengths, on top of ServerInv.                         *)
(***************************************************************************)
\* A session stays typed while the draws go on.
LEMMA TypedLonger ==
  ASSUME NEW s, NEW m \in Nat, NEW n \in Nat, n >= m, Typed(s, m)
  PROVE  Typed(s, n)
  BY DEF Typed

LEMMA KeylessTyped ==
  ASSUME NEW n, Keyless(n), n.username_norm \in User \cup {NoUser},
         NEW m \in Nat
  PROVE  Typed(n, m)
  <1>1. /\ n.server_random = 0 /\ n.server_challenge2 = 0
        /\ n.transcript_state = <<>>
    BY Zenon DEF Keyless
  <1> QED
    BY <1>1 DEF Typed

LEMMA AcceptTyped ==
  ASSUME NEW sid, NEW s, SessionInv(sid, s), NEW c, NEW m, Typed(s, m)
  PROVE  Typed(Accept(s, c), m)
  BY DEF SessionInv, NewSession, Accept, Typed

LEMMA AnsweredTyped ==
  ASSUME NEW sid, NEW s, SessionInv(sid, s), s.keys # {},
         NEW m \in Nat, Typed(s, m), NEW n, NEW a, NEW b, Answered(s, n, a, b),
         n.server_challenge2 \in 0 .. m
  PROVE  Typed(n, m)
  <1> DEFINE t == s.transcript_state
             u == n.transcript_state
  <1>1. Len(t) >= 2 /\ IsSequence(t)
    BY DEF SessionInv, Coherent
  <1>2. Longer(u, t, a, b)
    BY <1>1, AbsorbedTwo DEF Answered
  <1>3. t # <<>>
    BY <1>1
  <1>4. u[1] = t[1] /\ u[2] = t[2]
    BY <1>1, <1>2 DEF Longer
  <1> QED
    BY <1>3, <1>4 DEF Answered, Typed

\* One session changes while draws are made, or none does.
LEMMA DrawsStep ==
  ASSUME StoreHolds, StoreHolds', DrawsHold, NEW sid, NEW s,
         \/ sid \in SessionId /\ CreateWith(sid, s)
         \/ GetWith(sid, s),
         fresh' \in Nat, fresh' >= fresh, Typed(s, fresh'),
         \A t \in issued' : Len(t) >= 5
  PROVE  DrawsHold'
  <1>1. ASSUME NEW k \in Ids(order')
        PROVE  Typed(session'[k], fresh')
    <2>1. \/ k = sid /\ session'[k] = s
          \/ k \in Ids(order) /\ session'[k] = session[k]
      <3>1. CASE sid \in SessionId /\ CreateWith(sid, s)
        BY <3>1, CreatedHolds DEF CreateWith, StoreHolds
      <3>2. CASE GetWith(sid, s)
        <4>1. Ids(order') = Ids(order)
          BY <3>2 DEF GetWith, StoreHolds
        <4> QED
          BY <3>2, <4>1 DEF GetWith, StoreHolds
      <3> QED
        BY <3>1, <3>2
    <2> QED
      BY <2>1, TypedLonger DEF DrawsHold
  <1> QED
    BY <1>1 DEF DrawsHold

\* handle_hello, wherever it stops.
LEMMA HelloDraws ==
  ASSUME ServerInv, ServerInv', DrawsHold, NEW f,
         f.body.session_id \in SessionId, f.body.counter \in Nat, HandleHello(f)
  PROVE  DrawsHold'
  <1>1. StoreHolds /\ StoreHolds' /\ fresh \in Nat /\ fresh >= fresh
        /\ \A t \in issued : Len(t) >= 5
    BY DEF ServerInv, DrawsHold
  <1>2. Typed(NewSession, fresh) /\ SessionInv(f.body.session_id, NewSession)
    <2>1. Keyless(NewSession)
      BY DEF Keyless, NewSession
    <2>2. NewSession.username_norm = NoUser
      BY DEF NewSession
    <2> QED
      BY <1>1, <2>1, <2>2, KeylessTyped, NewSessionHolds
  <1>3. CASE HelloAnswered(f)
    <2>1. Typed(AfterHello(NewSession, f), fresh') /\ fresh' = Draw
      BY <1>1, <1>3, HelloHolds DEF HelloAnswered
    <2>2. fresh' \in Nat /\ fresh' >= fresh
      BY <1>1, <2>1 DEF Draw
    <2> QED
      BY <1>1, <1>3, <2>1, <2>2, DrawsStep DEF HelloAnswered
  <1>4. CASE HelloCounterRefused(f)
    BY <1>1, <1>2, <1>4, DrawsStep DEF HelloCounterRefused
  <1>5. CASE HelloUnreadable(f)
    <2>1. Typed(Accept(NewSession, f.body.counter), fresh)
      BY <1>2, AcceptTyped
    <2> QED
      BY <1>1, <1>5, <2>1, DrawsStep DEF HelloUnreadable
  <1>6. CASE HelloKeyRefused(f)
    <2> DEFINE n == [Accept(NewSession, f.body.counter) EXCEPT
                       !.username_norm = f.body.payload.username]
    <2>1. Keyless(n) /\ n.username_norm = f.body.payload.username
      BY DEF Keyless, NewSession, Accept
    <2>2. f.body.payload.username \in User
      BY <1>6 DEF HelloKeyRefused, HelloNamed, HelloReadable
    <2>3. CreateWith(f.body.session_id, n) /\ UNCHANGED <<fresh, issued>>
      BY <1>6 DEF HelloKeyRefused
    <2> HIDE DEF n
    <2>4. Typed(n, fresh)
      BY <1>1, <2>1, <2>2, KeylessTyped
    <2> QED
      BY <1>1, <2>3, <2>4, DrawsStep
  <1> QED
    BY <1>3, <1>4, <1>5, <1>6 DEF HandleHello, HelloFailed

\* handle_exchange and handle_finalize, wherever they stop.
LEMMA ProofDraws ==
  ASSUME ServerInv, ServerInv', DrawsHold, NEW f, f.body.counter \in Nat,
         HandleExchange(f) \/ HandleFinalize(f)
  PROVE  DrawsHold'
  <1> DEFINE sid == f.body.session_id
             s == Addressed(f)
  <1>1. StoreHolds /\ StoreHolds' /\ fresh \in Nat /\ fresh >= fresh
        /\ \A t \in issued : Len(t) >= 5
    BY DEF ServerInv, DrawsHold
  <1>2. Known(sid) => SessionInv(sid, s) /\ Typed(s, fresh)
    BY AddressedHolds DEF DrawsHold, Known, Addressed
  <1>3. CASE UnknownSession(f)
    BY <1>3 DEF UnknownSession, serverVars, DrawsHold
  <1>4. CASE CounterRefused(f)
    <2>1. Typed(s, fresh) /\ GetWith(sid, s) /\ UNCHANGED <<fresh, issued>>
      BY <1>2, <1>4 DEF CounterRefused
    <2> HIDE DEF s, sid
    <2> QED
      BY <1>1, <2>1, DrawsStep
  <1>5. CASE CounterAccepted(f) /\ ProofRefused(f)
    <2> DEFINE n == Accept(s, f.body.counter)
    <2>1. Typed(n, fresh) /\ GetWith(sid, n) /\ UNCHANGED <<fresh, issued>>
      BY <1>2, <1>5, AcceptTyped DEF ProofRefused, CounterAccepted
    <2> HIDE DEF n, s, sid
    <2> QED
      BY <1>1, <2>1, DrawsStep
  <1>6. CASE ExchangeAnswered(f)
    <2> DEFINE n == AfterExchange(s, f)
    <2>1. /\ SessionInv(sid, s) /\ Typed(s, fresh) /\ s.keys # {}
          /\ GetWith(sid, n) /\ fresh' = Draw /\ issued' = issued
      BY <1>2, <1>6 DEF ExchangeAnswered, Proof1Accepted, CounterAccepted,
                        OpensForSession
    <2>2. (\E b : Answered(s, n, f.body, b)) /\ n.server_challenge2 = Draw
      BY <1>6, <2>1, ExchangeHolds DEF ExchangeAnswered
    <2> HIDE DEF n, s, sid
    <2>3. fresh' \in Nat /\ fresh' >= fresh /\ Draw \in 0 .. fresh'
      BY <1>1, <2>1 DEF Draw
    <2>4. Typed(s, fresh')
      BY <1>1, <2>1, <2>3, TypedLonger
    <2>5. Typed(n, fresh')
      BY <2>1, <2>2, <2>3, <2>4, AnsweredTyped
    <2> QED
      BY <1>1, <2>1, <2>3, <2>5, DrawsStep
  <1>7. CASE FinalizeAnswered(f)
    <2> DEFINE n == AfterFinalize(s, f)
               t == s.transcript_state
               e == After(f)
    <2>1. /\ SessionInv(sid, s) /\ Typed(s, fresh) /\ s.keys # {}
          /\ s.proof1_ok
          /\ GetWith(sid, n) /\ fresh' = fresh /\ issued' = issued \cup {e}
      BY <1>2, <1>7 DEF FinalizeAnswered, Proof2Accepted, CounterAccepted,
                        OpensForSession
    <2>2. /\ \E b : Answered(s, n, f.body, b)
          /\ n.server_challenge2 = s.server_challenge2
          /\ LongerByOne(e, t, f.body)
      BY <1>7, <2>1, FinalizeHolds DEF FinalizeAnswered
    <2>3. Len(e) >= 5
      <3>1. Len(t) >= 2 /\ t # <<>>
        BY <2>1 DEF SessionInv, Coherent
      <3>2. t[1].type = "HELLO" /\ t[2].type = "SERVER_CHALLENGE"
        BY <2>1, <3>1 DEF Typed
      <3>3. PICK i \in DOMAIN t :
              t[i].type = "CLIENT_PROOF_1" /\ i + 1 \in DOMAIN t
        BY <2>1 DEF SessionInv, Stands, LastExchange, Positions
      <3> HIDE DEF t, e
      <3> QED
        BY <2>2, <3>1, <3>2, <3>3 DEF LongerByOne
    <2> HIDE DEF n, s, sid, e
    <2>4. Typed(n, fresh)
      BY <1>1, <2>1, <2>2, AnsweredTyped DEF Typed
    <2> QED
      BY <1>1, <2>1, <2>3, <2>4, DrawsStep
  <1> QED
    BY <1>3, <1>4, <1>5, <1>6, <1>7
    DEF HandleExchange, HandleFinalize, ExchangeFailed, FinalizeFailed,
        ExchangeRefused, FinalizeRefused

LEMMA DrawsStepHolds ==
  ServerInv /\ ServerInv' /\ DrawsHold /\ [ServerNext]_serverVars => DrawsHold'
  <1> SUFFICES ASSUME ServerInv, ServerInv', DrawsHold, [ServerNext]_serverVars
               PROVE  DrawsHold'
    OBVIOUS
  <1>1. ASSUME NEW f, f.body.session_id \in SessionId, f.body.counter \in Nat,
               Handle(f)
        PROVE  DrawsHold'
    BY <1>1, HelloDraws, ProofDraws DEF Handle
  <1>2. ASSUME NEW sid \in SessionId, DebugTranscript(sid)
        PROVE  DrawsHold'
    <2>1. /\ StoreHolds /\ StoreHolds' /\ fresh' \in Nat /\ fresh' >= fresh
          /\ GetWith(sid, session[sid]) /\ Typed(session[sid], fresh')
          /\ \A t \in issued' : Len(t) >= 5
      BY <1>2 DEF DebugTranscript, Known, Get, ServerInv, DrawsHold
    <2> QED
      BY <2>1, DrawsStep
  <1>3. CASE Restart
    <2>1. Ids(order') = {}
      BY <1>3 DEF Restart, Ids
    <2> QED
      BY <1>3, <2>1 DEF Restart, DrawsHold
  <1>4. CASE UNCHANGED serverVars
    BY <1>4 DEF serverVars, DrawsHold
  <1> QED
    BY <1>1, <1>2, <1>3, <1>4 DEF ServerNext

\* challenge_logic.py and sessions.py: the store maps ids to sessions whose fields
\* are of their types and hold values that were drawn, and the flag is sealed for
\* complete transcripts only.
THEOREM ServerTyped == ServerSpec => []ServerTypeOK
  <1>1. ServerInit => DrawsHold
    <2>1. ServerInit => Ids(order) = {}
      BY DEF ServerInit, Ids
    <2> QED
      BY <2>1 DEF ServerInit, DrawsHold
  <1>2. ServerInv /\ DrawsHold => ServerTypeOK
    BY DEF ServerInv, StoreHolds, GoodOrder, SessionInv, DrawsHold, Typed,
           ServerTypeOK
  <1> QED
    BY ServerAlways, DrawsStepHolds, <1>1, <1>2, PTL DEF ServerSpec
-----------------------------------------------------------------------------
\* challenge_logic.py, handle_hello: the keys, the salt, the server's random, the
\* username and the transcript of a session are of one handshake, or the session
\* has no keys, whatever frames arrive in whatever order.
THEOREM ServerCoherent == ServerSpec => []HandshakeCoherent
  <1>1. ServerInv => HandshakeCoherent
    BY DEF ServerInv, StoreHolds, SessionInv, HandshakeCoherent
  <1> QED
    BY ServerAlways, <1>1, PTL

\* sessions.py, the counters: the client's grow along every transcript, the
\* server's number its answers, and what is stored is not behind either.
THEOREM ServerCounted == ServerSpec => []CountersFollowTranscript
  <1>1. ServerInv => CountersFollowTranscript
    BY DEF ServerInv, StoreHolds, SessionInv, CountersFollowTranscript
  <1> QED
    BY ServerAlways, <1>1, PTL

\* challenge_logic.py, handle_exchange: proof1_ok, vm_digest and
\* server_challenge2 speak of the last exchange in the transcript, and that one
\* carried a valid license and the result of the server's own program.
THEOREM ServerProof1Stands == ServerSpec => []Proof1Stands
  <1>1. ServerInv => Proof1Stands
    BY DEF ServerInv, StoreHolds, SessionInv, Proof1Stands
  <1> QED
    BY ServerAlways, <1>1, PTL

\* challenge_logic.py, handle_finalize: every transcript the flag was sealed for
\* has a sound last exchange and ends in a proof over its challenge.
THEOREM ServerFlagEarned == ServerSpec => []FlagEarned
  <1>1. ServerInv => FlagEarned
    BY DEF ServerInv
  <1> QED
    BY ServerAlways, <1>1, PTL
\* challenge_logic.py, the order of each handler: a request that is refused leaves
\* the handshake of its session alone, an answered one carries it on, and only a
\* HELLO begins another.
THEOREM ServerRefusals == ServerSpec => RefusalsKeepHandshake
  <1>1. ServerInv /\ [ServerNext]_serverVars => [HandshakesKept]_serverVars
    BY ServerStepHolds
  <1> QED
    BY ServerAlways, <1>1, PTL DEF ServerSpec, RefusalsKeepHandshake
=============================================================================
