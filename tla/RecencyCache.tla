---------------------------- MODULE RecencyCache ----------------------------
(***************************************************************************)
(* What the session store promises its callers, without the dictionary:    *)
(* values under a set of live keys totally ordered by their last use.      *)
(* Nothing changes a value but a use of its key, which makes the key the   *)
(* most recent one; an insertion into a full cache drops the key that was  *)
(* not used for the longest time.  SessionStore implements it.             *)
(***************************************************************************)
EXTENDS Naturals, FiniteSets

CONSTANTS Key, Value, Capacity

VARIABLES
  live,    \* the keys in the cache
  older,   \* <<a, b>> : a was last used before b
  value    \* what is kept under each key

vars == <<live, older, value>>

\* The recency relation once k is the most recently used of the keys in ks.
Newest(ks, k) ==
  {p \in older : p[1] \in ks \ {k} /\ p[2] \in ks \ {k}}
    \cup {<<other, k>> : other \in ks \ {k}}

\* A value is put under k, the others stay.
Stores(k) ==
  \E v \in Value : value' = [x \in live' |-> IF x = k THEN v ELSE value[x]]

LeastRecent(k) == \A other \in live \ {k} : <<k, other>> \in older

Init == live = {} /\ older = {} /\ value = <<>>

Use(k) ==
  /\ k \in live
  /\ UNCHANGED live
  /\ older' = Newest(live, k)
  /\ Stores(k)

Add(k) ==
  /\ k \notin live
  /\ \/ /\ Cardinality(live) < Capacity
        /\ live' = live \cup {k}
     \/ /\ Cardinality(live) = Capacity
        /\ \E victim \in live :
             LeastRecent(victim) /\ live' = (live \ {victim}) \cup {k}
  /\ older' = Newest(live', k)
  /\ Stores(k)

Next == \E k \in Key : Use(k) \/ Add(k)

Spec == Init /\ [][Next]_vars
=============================================================================
