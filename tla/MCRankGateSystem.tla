-------------------------- MODULE MCRankGateSystem --------------------------
(***************************************************************************)
(* Inputs a portal run is started with.  good is entitled to the flag; the *)
(* others fail one check each: the fragment, the parity byte, the keyed    *)
(* checksum, the VM result, the version the client itself reads.           *)
(***************************************************************************)
EXTENDS RankGateSystem

Key(version, owner, parity, checksum) ==
  [version |-> version, owner |-> owner, parity |-> parity,
   checksum |-> checksum]

Valid == Key(6, "ann", TRUE, TRUE)

MCLicense ==
  {Valid, Key(6, "bob", TRUE, TRUE), Key(6, "ann", FALSE, TRUE),
   Key(6, "ann", TRUE, FALSE), Key(5, "ann", TRUE, TRUE)}

Input(license, engine) ==
  [user |-> "ann", license |-> license, engine |-> engine]

AllApplicants ==
  {Input(license, "current") : license \in MCLicense} \cup {Input(Valid, "other")}

GoodOrBad == {Input(Valid, "current"), Input(Key(6, "ann", TRUE, FALSE), "current")}

Good == {Input(Valid, "current")}
=============================================================================
