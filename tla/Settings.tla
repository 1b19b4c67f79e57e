------------------------------ MODULE Settings ------------------------------
(***************************************************************************)
(* How the program is configured: .env (main.go, loadDotEnv), then the     *)
(* environment (config.go).  Operators only; Program.tla runs them.        *)
(*                                                                         *)
(* A value is the sequence of its words, cut at underscores, so "cam_1" is *)
(* <<"cam", "1">> and the empty value <<>>.  The words of a switch and of  *)
(* a duration are classes of texts: what the code accepts, and "typo".     *)
(* The settings kept here are those that decide something: credentials,    *)
(* the ONVIF switch, and the snapshot interval as the one that is parsed.  *)
(***************************************************************************)
EXTENDS Sequences

CONSTANT Words   (* the words of user names and passwords                  *)

Keys == {"USERNAME", "PASSWORD", "ONVIF_ENABLED", "SNAPSHOT_INTERVAL"}

(* What an empty or refused value is replaced by.                          *)
Default == [USERNAME |-> <<"admin">>, PASSWORD |-> <<"admin">>,
            ONVIF_ENABLED |-> <<"on">>, SNAPSHOT_INTERVAL |-> <<"5s">>]

Value == Seq(Words \cup {"admin", "on", "off", "typo", "5s", "1m"})

(* A line of .env: an assignment, or one that is skipped (blank, comment,  *)
(* no equals sign).                                                        *)
Line == [key : Keys \cup {"none"}, value : Value]

-----------------------------------------------------------------------------
(* Mutant: a line replaces what the environment has.                       *)
SetOver(environ, line) ==
  IF line.key = "none" THEN environ
  ELSE [environ EXCEPT ![line.key] = line.value]

(* loadDotEnv, one line: os.Getenv and os.Setenv.  An empty variable       *)
(* counts as unset.                                                        *)
SetMissing(environ, line) ==
  IF line.key = "none" \/ environ[line.key] # <<>> THEN environ
  ELSE [environ EXCEPT ![line.key] = line.value]

-----------------------------------------------------------------------------
(* Mutant: no default.                                                     *)
EnvAsIs(environ, key) == environ[key]

Env(environ, key) == IF environ[key] = <<>> THEN Default[key] ELSE environ[key]

EnvBool(environ, key) ==
  IF environ[key] \in {<<"on">>, <<"off">>} THEN environ[key] = <<"on">>
  ELSE Default[key] = <<"on">>

EnvInterval(environ, key) ==
  IF environ[key] \in {<<"5s">>, <<"1m">>} THEN environ[key]
  ELSE Default[key]

LoadConfig(environ) ==
  [username         |-> Env(environ, "USERNAME"),
   password         |-> Env(environ, "PASSWORD"),
   onvifEnabled     |-> EnvBool(environ, "ONVIF_ENABLED"),
   snapshotInterval |-> EnvInterval(environ, "SNAPSHOT_INTERVAL")]
=============================================================================
