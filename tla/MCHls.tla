------------------------------- MODULE MCHls -------------------------------
(* TLC instance of HlsSession; the other values are in the cfg files.  One *)
(* request is about anything, one waits for a playlist beside it.          *)
EXTENDS HlsSession

MCAsks ==
  [r \in Requests |-> IF r = "r2" THEN {"playlist"}
                                  ELSE {"playlist", "segment", "init"}]
=============================================================================
