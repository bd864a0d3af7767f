---------------------------- MODULE MCFrameCodec ----------------------------
(***************************************************************************)
(* Bytes have four bits, characters three.  Payloads of 0 to 3 bytes give *)
(* every length modulo three, counters the smallest, one that fills both   *)
(* bytes and the largest; parse takes payloads of up to 5 bytes of the 15  *)
(* the length field can name.                                              *)
(***************************************************************************)
EXTENDS FrameCodec

MCSizes ==
  [session_id |-> 1, counter |-> 2, nonce |-> 1, paylen |-> 1, tag |-> 1, mac |-> 1]

MCSent ==
  {[message_type |-> type, session_id |-> <<11>>, counter |-> counter,
    nonce |-> <<9>>, encrypted_payload |-> payload, auth_tag |-> <<tag>>,
    transcript_mac |-> <<mac>>] :
     type \in {1, 3}, counter \in {1, 29, 255},
     payload \in {<<>>, <<7>>, <<14, 3>>, <<1, 2, 12>>},
     tag \in {0, 10}, mac \in {5, 15}}
=============================================================================
