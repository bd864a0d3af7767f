----------------------------- MODULE PortalApp -----------------------------
(***************************************************************************)
(* run_app of client/src/app.cpp, from argv to the exit code, for a person *)
(* who has the name and the license of LicenseText and gives them on the   *)
(* command line or at the prompts.                                         *)
(*                                                                         *)
(* A word of argv is a string: NAME and KEY stand for the typed name and   *)
(* license, the words in DOMAIN Url for URLs.  What run_session does after *)
(* it has the server's key is RankGateClient; here it is whether the       *)
(* server accepts name and license.                                        *)
(***************************************************************************)
EXTENDS LicenseText, Protection

CONSTANTS
  Argv,       \* the command lines
  Url,        \* words of argv -> URLs, sequences of the symbols below
  Answer,     \* what GET /api/v1/public-key may bring, sequences of the same
  Host,       \* the symbol of the host the server runs on
  Port,       \* the port it listens on
  ServerKey,  \* its key, as bytes
  PortBase,   \* 2^16, the values of INTERNET_PORT
  IntMax,     \* 2^31 - 1, the largest int
  Image,      \* [table, text, folded]: the program in memory, as built or patched
  DecoyLength \* bound on the characters of the license that the decoys go through

\* Eight words, bytes, and checksums that may be folded.
ASSUME ImageAssumption ==
  /\ DecoyLength \in Nat
  /\ \A built \in Image :
       /\ built.table \in [DOMAIN kConstTable -> 0 .. Base - 1]
       /\ built.text \in Seq(0 .. 255)
       /\ built.folded \subseteq {"table", "expected"}

VARIABLES
  argv, at,   \* the command line, and how far parse_args is
  args,       \* Args: the words given, and the booleans that were set
  stage,      \* where run_app is; "typing" before it is called
  image,      \* the program in memory, once it was looked at
  report,     \* the TamperReport of run_guards
  given,      \* the name and the license run_app has got
  code,       \* what decoy_preflight returns
  answer,     \* the answer of the server, NoAnswer or NotAsked
  printed,    \* verdicts, and what the protection layer prints
  exit        \* the exit code

appVars ==
  <<argv, at, args, stage, image, report, given, code, answer, printed, exit>>

NoNumber == -1
NoAnswer == <<>>
NotAsked == <<NoNumber>>
NoReport == [int3_count |-> NoNumber]
NoImage == [text |-> <<>>]

\* std::terminate
Aborted == 3
-----------------------------------------------------------------------------
(***************************************************************************)
(* The constructor of HttpClient and parse_pubkey.  A symbol from 0 on is  *)
(* a number in a URL, as many digits as there are, and a hexadecimal digit *)
(* in an answer.                                                           *)
(***************************************************************************)
Scheme == -1      \* http://
Slash  == -2
Colon  == -3
Quote  == -4
Field  == -5      \* public_key
Plain  == -6      \* any other text
Gap    == -7      \* white space, as much as there is
Plus   == -8
Minus  == -9

\* The command lines are words.  The host has a symbol of its own.  The server is
\* not on the port of a URL that names none, which WinHTTP takes 0 for as well.  No
\* answer looks like NotAsked.
ASSUME PortalAssumption ==
  /\ Argv \subseteq Seq(STRING)
  /\ \A word \in DOMAIN Url : Url[word] \in Seq(Int)
  /\ Host \in Int /\ Host < Minus
  /\ PortBase \in Nat \ {0} /\ IntMax \in Nat /\ Port \notin {0, 80}
  /\ ServerKey \in Seq(0 .. 255)
  /\ Answer \subseteq Seq(Int) /\ NotAsked \notin Answer

Places(s, symbol) == {i \in DOMAIN s : s[i] = symbol}

First(places) == CHOOSE i \in places : \A j \in places : i <= j

Until(s, symbol) ==
  IF Contains(s, symbol) THEN SubSeq(s, 1, First(Places(s, symbol)) - 1) ELSE s

Authority(url) == Until(IF IsPrefix(<<Scheme>>, url) THEN Tail(url) ELSE url, Slash)

\* std::stoi: white space, a sign, and the number that stands there, if the value is
\* an int; it throws if there is none or it is out of range.
stoi(s) ==
  LET signed == IF IsPrefix(<<Gap>>, s) THEN Tail(s) ELSE s
      minus  == IsPrefix(<<Minus>>, signed)
      digits == IF minus \/ IsPrefix(<<Plus>>, signed) THEN Tail(signed) ELSE signed
  IN {v \in {IF minus THEN -n ELSE n : n \in {m \in ToSet(digits) : m >= 0 /\ m = digits[1]}} :
        -IntMax - 1 <= v /\ v <= IntMax}

\* The host and port the client will connect to; none when stoi throws.  The cast
\* to INTERNET_PORT wraps.
HttpClient(url) ==
  LET authority == Authority(url)
      host      == Until(authority, Colon)
  IN IF host = authority THEN {<<host, 80>>}
     ELSE {<<host, v % PortBase>> :
             v \in stoi(SubSeq(authority, Len(host) + 2, Len(authority)))}

\* The bytes between the first two quotes behind the first colon behind the
\* field, if they are hexadecimal.
parse_pubkey(json) ==
  LET Behind(places, symbol) ==
        {i \in Places(json, symbol) : \E p \in places : p < i}
      field  == {First(f) : f \in {Places(json, Field)} \ {{}}}
      colon  == {First(c) : c \in {Behind(field, Colon)} \ {{}}}
      quotes == Behind(colon, Quote)
      hex    == SubSeq(json, First(quotes) + 1, First(quotes \ {First(quotes)}) - 1)
  IN IF Cardinality(quotes) < 2 THEN {}
     ELSE {[i \in 1 .. Len(h) \div 2 |-> 16 * h[2 * i - 1] + h[2 * i]] :
             h \in {g \in {hex} : Len(g) % 2 = 0 /\ ToSet(g) \subseteq 0 .. 15}}
-----------------------------------------------------------------------------
(***************************************************************************)
(* parse_args.                                                             *)
(***************************************************************************)
Meaning(word) ==
  CASE word = "--server"                  -> "server"
    [] word \in {"--username", "-u"}      -> "username"
    [] word \in {"--license", "-l"}       -> "license"
    [] word = "--no-protection"           -> "no_protection"
    [] word \in {"--verbose", "-v"}       -> "verbose"
    [] word \in {"--help", "-h"}          -> "help"
    [] OTHER                              -> "unknown"

TakesValue(word) == Meaning(word) \in {"server", "username", "license"}

\* set: those of the booleans that are true, have_username and have_license among
\* them.
NoWord == ""

NoArgs ==
  [server |-> "DEFAULT", username |-> NoWord, license |-> NoWord, set |-> {}]

AppInit ==
  /\ Init
  /\ argv = <<>> /\ at = 1 /\ args = NoArgs
  /\ stage = "typing"
  /\ image = NoImage /\ report = NoReport
  /\ given = [name |-> <<>>, license |-> <<>>]
  /\ code = NoNumber
  /\ answer = NotAsked
  /\ printed = {}
  /\ exit = NoNumber

Goes(to) == stage' = to /\ UNCHANGED exit

Ends(status, prints) ==
  /\ stage' = "done"
  /\ exit' = status
  /\ printed' = printed \cup prints

Denied == Ends(1, {"ACCESS DENIED"})

Launch(words) ==
  /\ stage = "typing"
  /\ argv' = words
  /\ Goes("parse")
  /\ UNCHANGED <<vars, at, args, image, report, given, code, answer, printed>>

\* s at the head of the loop.
Word1 == argv[at]

ParseSwitch ==
  /\ stage = "parse" /\ at <= Len(argv)
  /\ Meaning(Word1) \in {"no_protection", "verbose", "help"}
  /\ args' = [args EXCEPT !.set = @ \cup {Meaning(Word1)}]
  /\ at' = at + 1
  /\ UNCHANGED <<vars, argv, stage, image, report, given, code, answer, printed, exit>>

ParseValue ==
  /\ stage = "parse" /\ at < Len(argv)
  /\ TakesValue(Word1)
  /\ args' = [args EXCEPT ![Meaning(Word1)] = argv[at + 1],
                          !.set = @ \cup ({Meaning(Word1)} \ {"server"})]
  /\ at' = at + 2
  /\ UNCHANGED <<vars, argv, stage, image, report, given, code, answer, printed, exit>>

\* "missing value for", "unknown argument"
ParseThrows ==
  /\ stage = "parse" /\ at <= Len(argv)
  /\ Meaning(Word1) = "unknown" \/ (TakesValue(Word1) /\ at = Len(argv))
  /\ Ends(2, {"usage"})
  /\ UNCHANGED <<vars, argv, at, args, image, report, given, code, answer>>

ParseEnds ==
  /\ stage = "parse" /\ at > Len(argv)
  /\ IF "help" \in args.set THEN Ends(0, {"usage"})
                            ELSE Goes("init") /\ UNCHANGED printed
  /\ UNCHANGED <<vars, argv, at, args, image, report, given, code, answer>>
-----------------------------------------------------------------------------
(***************************************************************************)
(* run_app behind the banner.                                              *)
(***************************************************************************)
\* crypto::init, outside the try block.
InitCrypto ==
  /\ stage = "init"
  /\ \/ /\ Goes(IF "no_protection" \in args.set THEN "name" ELSE "guards")
        /\ UNCHANGED printed
     \/ Ends(Aborted, {})
  /\ UNCHANGED <<vars, argv, at, args, image, report, given, code, answer>>

\* Mutant: a failed self-check ends the run.
RunGuardsFatal(memory, watched) ==
  /\ stage = "guards"
  /\ image' = memory
  /\ report' = run_anti_tamper(memory)
  /\ IF report'.const_table_ok THEN Goes("name") /\ UNCHANGED printed ELSE Denied
  /\ UNCHANGED <<vars, argv, at, args, given, code, answer>>

\* run_guards: whatever the debugger checks see, it is printed and that is all.
RunGuards(memory, watched) ==
  /\ stage = "guards"
  /\ image' = memory
  /\ report' = run_anti_tamper(memory)
  /\ printed' = printed \cup (IF watched /\ "verbose" \in args.set
                              THEN {"analysis environment"} ELSE {})
  /\ Goes("name")
  /\ UNCHANGED <<vars, argv, at, args, given, code, answer>>

\* Lines of the standard input, which may be at its end.  A name with a line
\* break leaves its rest, which is no license, to the second prompt.
NameLines == {Until(name, 10), <<>>}

LicenseLines ==
  {IF "username" \notin args.set /\ Contains(name, 10) THEN <<>> ELSE text, <<>>}

\* The word as a name, where an option is a name as well, and as a license.
NameOf(word) == IF word = "NAME" THEN name ELSE <<45, 45>>

LicenseOf(word) == IF word = "KEY" THEN text ELSE <<Other>>

GetName ==
  /\ stage = "name"
  /\ \E line \in IF "username" \in args.set THEN {NameOf(args.username)} ELSE NameLines :
       given' = [given EXCEPT !.name = line]
  /\ Goes("license")
  /\ UNCHANGED <<vars, argv, at, args, image, report, code, answer, printed>>

GetLicense ==
  /\ stage = "license"
  /\ \E line \in IF "license" \in args.set THEN {LicenseOf(args.license)} ELSE LicenseLines :
       given' = [given EXCEPT !.license = line]
  /\ Goes("preflight")
  /\ UNCHANGED <<vars, argv, at, args, image, report, code, answer, printed>>

\* Each further character is one more step of the same sums.
DecoyLicense == SubSeq(given.license, 1, Min({DecoyLength, Len(given.license)}))

Preflight ==
  /\ stage = "preflight"
  /\ code' = decoy_preflight(given.name, DecoyLicense)
  /\ printed' = printed \cup (IF Unlocks(given.name, DecoyLicense)
                              THEN {"decoy flag"} ELSE {})
  /\ Goes("decode")
  /\ UNCHANGED <<vars, argv, at, args, image, report, given, answer>>

\* normalize_username and decode_license throw, or run_session is called.
Decode ==
  /\ stage = "decode"
  /\ IF ClientNormalizes(given.name) = {} \/ ClientDecodes(given.license) = {}
     THEN Denied
     ELSE Goes("connect") /\ UNCHANGED printed
  /\ UNCHANGED <<vars, argv, at, args, image, report, given, code, answer>>

ServerUrl == IF args.server \in DOMAIN Url THEN Url[args.server] ELSE <<Plain>>

\* The GET of the public key.  Where the server is not, nobody answers.
Connect(reply) ==
  /\ stage = "connect"
  /\ answer' = IF <<<<Host>>, Port>> \in HttpClient(ServerUrl) THEN reply ELSE NoAnswer
  /\ IF parse_pubkey(answer') = {} THEN Denied
                                   ELSE Goes("session") /\ UNCHANGED printed
  /\ UNCHANGED <<vars, argv, at, args, image, report, given, code>>

\* The rest of run_session, with or without a failure of the network.
Session(fails) ==
  /\ stage = "session"
  /\ answer' = IF fails THEN NoAnswer ELSE answer
  /\ IF /\ ~fails
        /\ parse_pubkey(answer) = {ServerKey}
        /\ Accepts(given.name, given.license)
     THEN Ends(0, {"ACCESS GRANTED"})
     ELSE Denied
  /\ UNCHANGED <<vars, argv, at, args, image, report, given, code>>

Typing == stage = "typing" /\ Next /\ UNCHANGED appVars

Running ==
  \/ ParseSwitch \/ ParseValue \/ ParseThrows \/ ParseEnds
  \/ InitCrypto
  \/ \E memory \in Image, watched \in BOOLEAN : RunGuards(memory, watched)
  \/ GetName \/ GetLicense \/ Preflight \/ Decode
  \/ \E reply \in Answer \cup {NoAnswer} : Connect(reply)
  \/ \E fails \in BOOLEAN : Session(fails)

AppNext == Typing \/ (\E words \in Argv : Launch(words)) \/ Running

AppSpec == AppInit /\ [][AppNext]_<<vars, appVars>>
-----------------------------------------------------------------------------
(***************************************************************************)
(* What the inputs deserve.                                                *)
(***************************************************************************)
\* The places of argv that hold an option: the first, and whatever follows an
\* option and its value.
OptionAt[k \in Nat] ==
  \/ k = 1
  \/ k > 1 /\ OptionAt[k - 1] /\ ~TakesValue(argv[k - 1])
  \/ k > 2 /\ OptionAt[k - 2] /\ TakesValue(argv[k - 2])

Meant(what) == {k \in DOMAIN argv : OptionAt[k] /\ Meaning(argv[k]) = what}

Misused == Meant("unknown") # {} \/ \E k \in DOMAIN argv :
             k = Len(argv) /\ OptionAt[k] /\ TakesValue(argv[k])

\* The value given last, or the default.
MeantWord(what, default) ==
  IF Meant(what) = {} THEN default
  ELSE argv[1 + CHOOSE k \in Meant(what) : \A j \in Meant(what) : j <= k]

\* [http://]host:port with whatever may follow: what stoi makes an int of, cut to
\* 16 bits.
NamesServer(url) ==
  \E scheme \in {<<>>, <<Scheme>>}, gap \in {<<>>, <<Gap>>},
     sign \in {<<>>, <<Plus>>, <<Minus>>}, n \in ToSet(url) :
    LET value == IF sign = <<Minus>> THEN -n ELSE n
    IN /\ n >= 0 /\ -IntMax - 1 <= value /\ value <= IntMax /\ value % PortBase = Port
       /\ IsPrefix(scheme \o <<Host, Colon>> \o gap \o sign \o <<n>>, url)

\* The server's key in quotes, in hexadecimal.
QuotedKey ==
  <<Quote>> \o [i \in 1 .. 2 * Len(ServerKey) |->
                  IF i % 2 = 1 THEN ServerKey[(i + 1) \div 2] \div 16
                               ELSE ServerKey[i \div 2] % 16] \o <<Quote>>

\* What main.py and the test server say: the field, where it comes first, in quotes, a
\* colon, perhaps a space, and the key.
SaysKey(json) ==
  \E start \in Places(json, Field), gap \in {<<>>, <<Plain>>} :
    /\ \A i \in Places(json, Field) : start <= i
    /\ IsPrefix(<<Field, Quote, Colon>> \o gap \o QuotedKey, SubSeq(json, start, Len(json)))

\* The key in quotes, anywhere behind the field.
CarriesKey(json) ==
  \E i \in Places(json, Field), j \in DOMAIN json :
    i < j /\ IsPrefix(QuotedKey, SubSeq(json, j, Len(json)))

\* The right name and license, from the command line or the prompt, and the URL
\* of the server.
Deserving ==
  LET server == MeantWord("server", "DEFAULT")
  IN /\ ~Misused
     /\ Accepts(IF Meant("username") = {} THEN given.name
                                          ELSE NameOf(MeantWord("username", NoWord)),
                IF Meant("license") = {} THEN given.license
                                         ELSE LicenseOf(MeantWord("license", NoWord)))
     /\ server \in DOMAIN Url /\ NamesServer(Url[server])

\* "Harmless local preflight ... gates nothing", "they never alter the protocol
\* outcome": whoever gives the right name and license for the right server is
\* turned away by what the server's answer and the network bring and by nothing
\* that runs before it is asked; everyone else is turned away, as is everyone whose
\* server's answer does not hold the key behind its field; and the exit code tells
\* which, however the words are ordered or prompted for, whatever guards and decoys
\* find.  An answer that holds the key, but not as the server says it, may do or not.
VerdictByInputs ==
  stage = "done" /\ exit # Aborted =>
    /\ exit = 2 <=> Misused
    /\ "usage" \in printed <=> Misused \/ Meant("help") # {}
    /\ "ACCESS GRANTED" \in printed => Deserving /\ CarriesKey(answer)
    /\ Deserving /\ SaysKey(answer) => "ACCESS GRANTED" \in printed
    /\ exit = 1 /\ Deserving => answer # NotAsked
    /\ "ACCESS DENIED" \in printed <=> exit = 1
    /\ exit = 0 <=> "ACCESS GRANTED" \in printed \/ ("usage" \in printed /\ ~Misused)

\* "if anyone patches these bytes ... the two disagree": where the expected value
\* alone is computed beforehand, one patched word of the table always shows, as
\* does one patched byte of .text.  A table as it was built has nothing to show.
PatchesShow ==
  stage = "name" /\ report # NoReport =>
    LET Patched(now, built) == {i \in DOMAIN built : now[i] # built[i]}
    IN /\ ~report.const_table_ok => image.table # kConstTable
       /\ image.folded = {"expected"} /\ Cardinality(Patched(image.table, kConstTable)) = 1
            => ~report.const_table_ok
       /\ \A built \in {b \in Image : Len(b.text) = Len(image.text)} :
            Cardinality(Patched(image.text, built.text)) = 1 =>
              report.text_checksum # run_anti_tamper(built).text_checksum

\* "compute ordinary results via non-obvious expressions": what the preflight
\* returns, and when it prints the decoy flag, is what the same checks compute
\* in plain arithmetic.
PreflightIsPlain ==
  stage = "decode" => code = PlainPreflight(given.name, DecoyLicense)
=============================================================================
