---------------------------- MODULE LicensePortal ----------------------------
(***************************************************************************)
(* What the portal promises, without messages, sessions or keys: a run is  *)
(* entitled to the flag or not by what it was started with, the server     *)
(* seals the flag only for runs that are, at most once for each, and a run *)
(* is told ACCESS GRANTED only after the server sealed the flag for it.    *)
(***************************************************************************)
CONSTANT Run

VARIABLES
  entitled,   \* the runs whose license and program the server accepts
  sealed,     \* the runs the server has sealed the flag for
  verdict     \* what each run was told

vars == <<entitled, sealed, verdict>>

Init ==
  /\ entitled \in SUBSET Run
  /\ sealed = {}
  /\ verdict = [c \in Run |-> "pending"]

Seal(c) ==
  /\ c \in entitled \ sealed
  /\ sealed' = sealed \cup {c}
  /\ UNCHANGED <<entitled, verdict>>

Tell(c, answer) ==
  /\ verdict[c] = "pending"
  /\ verdict' = [verdict EXCEPT ![c] = answer]
  /\ UNCHANGED <<entitled, sealed>>

Grant(c) == c \in sealed /\ Tell(c, "granted")

Deny(c) == Tell(c, "denied")

Next == \E c \in Run : Seal(c) \/ Grant(c) \/ Deny(c)

Spec == Init /\ [][Next]_vars
=============================================================================
