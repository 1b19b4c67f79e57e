------------------------------ MODULE MCDvrip ------------------------------
(* TLC instances of Dvrip; the values are in the cfg files.  A tick stands *)
(* for ten seconds, so ReadTimeout is 1 and AliveInterval 3.               *)
EXTENDS Dvrip
=============================================================================
