--------------------------- MODULE MCHashStreams ---------------------------
(***************************************************************************)
(* Blocks of four bytes and a counter word that wraps after eight of them. *)
(* Messages of every length from nothing to past the third block, with no  *)
(* key and with keys up to one byte too long; streams of up to four blocks *)
(* of two bytes, which is one more than hkdf_expand can count.             *)
(***************************************************************************)
EXTENDS HashStreams

Messages(n) == UNION {[1 .. k -> {0, 1}] : k \in 0 .. n}

Call(kind, key, data, length) ==
  [kind |-> kind, key |-> key, data |-> data, length |-> length]

MCCalls ==
  {Call("digest", key, data, size) :
     key \in Messages(3), data \in Messages(9), size \in {2}}
  \cup {Call("digest", <<1>>, data, size) :
          data \in Messages(1), size \in {0, 1, 3}}
  \cup {Call("keystream", key, domain, length) :
          key \in Messages(2), domain \in Messages(3), length \in 0 .. 7}
  \cup {Call("keystream", <<1, 1, 1>>, <<>>, length) : length \in {0, 1}}
  \cup {Call("expand", <<>>, <<>>, length) : length \in 0 .. 7}
=============================================================================
