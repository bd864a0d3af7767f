--------------------------- MODULE MCSessionStore ---------------------------
(***************************************************************************)
(* Four ids and a store for three: every eviction, every re-creation of a  *)
(* live session and every order of use is reached.                         *)
(***************************************************************************)
EXTENDS SessionStore
=============================================================================
