----------------------------- MODULE MCProgram -----------------------------
(* TLC instance of Program: installations that each have something in the  *)
(* environment or the .env that the loader has to decide about, or in the  *)
(* credentials that means something in a URL.                              *)
EXTENDS Program

MCWords == {"cam", "1", "a?b", "50%", "%41", "a/b"}

MCMarks(word) ==
  CASE word = "a?b" -> {"?"}
    [] word = "50%" -> {"%"}
    [] word = "%41" -> {"%41"}
    [] word = "a/b" -> {"/"}
    [] OTHER -> {}

Set(k, v) == [key |-> k, value |-> v]
Unset     == [k \in Keys |-> <<>>]

MCInstallations ==
  {[environ |-> Unset, dotenv |-> <<>>],
   [environ |-> [Unset EXCEPT !["ONVIF_ENABLED"] = <<"off">>],
    dotenv  |-> <<Set("none", <<>>), Set("ONVIF_ENABLED", <<"on">>),
                  Set("USERNAME", <<>>), Set("USERNAME", <<"a?b">>),
                  Set("USERNAME", <<"cam">>)>>],
   [environ |-> [Unset EXCEPT !["PASSWORD"] = <<"a/b">>],
    dotenv  |-> <<Set("PASSWORD", <<"cam">>), Set("ONVIF_ENABLED", <<"typo">>),
                  Set("SNAPSHOT_INTERVAL", <<"1m">>)>>],
   [environ |-> [Unset EXCEPT !["USERNAME"] = <<"cam", "1">>],
    dotenv  |-> <<Set("SNAPSHOT_INTERVAL", <<"typo">>)>>],
   [environ |-> [Unset EXCEPT !["PASSWORD"] = <<"50%">>], dotenv |-> <<>>],
   [environ |-> [Unset EXCEPT !["USERNAME"] = <<"%41">>], dotenv |-> <<>>]}
=============================================================================
