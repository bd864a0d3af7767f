---------------------------- MODULE MCPortalApp ----------------------------
(***************************************************************************)
(* Names of up to three characters, spelled in several ways, one of them   *)
(* with the Kelvin sign, and some that are too long, empty, or not         *)
(* printable; every single edit of a license to one of five characters.    *)
(* run_app is called with every command line for the license as it was     *)
(* made, and with the plainest one for each edited license.                *)
(***************************************************************************)
EXTENDS PortalApp

MCNames ==
  {<<97, 110>>, <<32, 97, 78, 10>>, <<97, 32, 110>>, <<97, 110, 110, 97>>,
   <<9, 32>>, <<97, 127>>, <<97, \h212A>>, <<65, 107, 9>>, <<97, 233>>}

MCNoise == {0, Dash, Blank, Other, Wide}

MCHost == -10

\* A port that wraps, with a sign, too large or too small for an int, and wrapped
\* from a negative number; no port, another one, another host.
MCUrl ==
  LET At(port) == <<Scheme, MCHost, Colon>> \o port
  IN [w \in {"DEFAULT", "PATH", "BARE", "WRAPPED", "PORTLESS", "TLS", "IPV6", "TAIL",
             "ELSEWHERE", "OTHERPORT", "SPACED", "NEGATIVE", "MINUS", "TOOLARGE",
             "TOOSMALL", "SIGNS"} |->
       CASE w = "DEFAULT"   -> At(<<31337>>)
         [] w = "PATH"      -> <<MCHost, Colon, 31337, Slash, Plain>>
         [] w = "BARE"      -> <<MCHost, Colon, 31337>>
         [] w = "WRAPPED"   -> At(<<31337 + 65536>>)
         [] w = "PORTLESS"  -> <<Scheme, MCHost>>
         [] w = "TLS"       -> <<Plain, Colon, Slash, Slash, MCHost, Colon, 31337>>
         [] w = "IPV6"      -> <<Scheme, Plain, Colon, Colon, 1, Plain, Colon, 31337>>
         [] w = "TAIL"      -> At(<<31337, Plain>>)
         [] w = "ELSEWHERE" -> <<Scheme, Plain, Colon, 31337>>
         [] w = "OTHERPORT" -> At(<<8080>>)
         [] w = "SPACED"    -> At(<<Gap, Plus, 31337>>)
         [] w = "NEGATIVE"  -> At(<<Minus, 65536 - 31337>>)
         [] w = "MINUS"     -> At(<<Minus, 31337>>)
         [] w = "TOOLARGE"  -> At(<<31337 + 16 * 65536>>)
         [] w = "TOOSMALL"  -> At(<<Minus, 17 * 65536 - 31337>>)
         [] w = "SIGNS"     -> At(<<Plus, Minus, 31337>>)]

MCServerKey == <<10, 255>>

\* main.py's and the test server's answer, another key, a broken one, one of odd
\* length, one that ends early, and no such field; a field without a value, with
\* another field behind it, and one that has the key but is not the field.
MCAnswer ==
  LET Start == <<Plain, Quote, Plain, Quote, Colon, Quote, Plain, Quote, Plain, Quote,
                 Field, Quote>>
      Json(space, hex) == Start \o <<Colon>> \o space \o <<Quote>> \o hex
      Key  == <<0, 10, 15, 15>>
      Next1(hex) == <<Plain, Quote, Plain, Quote, Colon, Quote>> \o hex
      End  == <<Quote, Plain>>
  IN {Json(<<>>, Key \o End), Json(<<Plain>>, Key \o End),
      Json(<<>>, <<0, 10, 15, 14>> \o End), Json(<<>>, <<0, Plain, 15, 15>> \o End),
      Json(<<>>, <<0, 10, 15>> \o End), Json(<<>>, <<0, 10>>), <<Plain>>,
      Start \o <<Colon>> \o Next1(Key) \o End, Start \o Next1(Key) \o End,
      Start \o <<Colon, Plain>>, Json(<<>>, End \o Next1(Key) \o End)}

Both == <<"-u", "NAME", "-l", "KEY">>

MCArgv ==
  {Both, <<>>, <<"-l", "KEY">>, <<"-u", "NAME", "-v">>, Both \o <<"--no-protection">>,
   <<"-v">> \o Both, <<"--username", "NAME", "--license", "KEY", "--verbose">>,
   <<"--help">>, Both \o <<"-h">>, <<"--help", "--oops">>, <<"-u">>,
   <<"-u", "--license", "KEY">>, <<"-u", "--help", "-l", "KEY">>,
   <<"-u", "KEY">> \o Both, Both \o <<"-l", "NAME">>, <<"--server">> \o Both}
  \cup {<<"--no-protection", "--server", w>> \o Both : w \in DOMAIN MCUrl}

\* The program as built, with one byte of its text changed, or with one word of
\* its table changed in the lowest or the highest bit, however it was compiled;
\* with a breakpoint, and without .text.
MCText == <<85, 139, Int3, 195>>

MCImage ==
  {[table |-> kConstTable, text |-> t, folded |-> {"expected"}] :
     t \in {MCText, <<>>} \cup
       {[MCText EXCEPT ![1] = Int3], [MCText EXCEPT ![4] = 67]}}
  \cup {[table |-> [kConstTable EXCEPT ![patch[1]] = @ ^^ patch[2]],
         text |-> MCText, folded |-> f] :
          patch \in {<<1, 128>>, <<8, 1>>}, f \in {{}, {"expected"}, {"table", "expected"}}}

MCLaunch(words) ==
  /\ \/ /\ edits = 0 /\ author = <<97, 110>>
        /\ name = author \/ words \in {Both, <<>>, <<"-l", "KEY">>}
     \/ /\ \/ author = <<97, 32, 110>> /\ name = author
           \/ author = <<97, \h212A>> /\ edits = 0
        /\ words = <<"--no-protection">> \o Both
  /\ Launch(words)

MCNext ==
  \/ Typing \/ Running
  \/ \E words \in Argv \cup {<<"--no-protection">> \o Both} : MCLaunch(words)

MCSpec == AppInit /\ [][MCNext]_<<vars, appVars>>
=============================================================================
