------------------------------- MODULE MCRaw -------------------------------
(* TLC instances of Bubble, and in it of RawSession; the values are in the *)
(* cfg files.                                                              *)
EXTENDS Bubble

MCLengths == {-1, 43, 44, 48}
=============================================================================
