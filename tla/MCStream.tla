------------------------------ MODULE MCStream ------------------------------
(* TLC instance of Stream: two producers, the second with two video tracks *)
(* so that the first-match rule has a choice, and two consumers.           *)
EXTENDS Stream

MCOffer ==
  [p \in Producers |->
     IF p = "ffmpeg1"
     THEN <<[name |-> "H264", rate |-> 90000],
            [name |-> "AAC", rate |-> 48000]>>
     ELSE <<[name |-> "H264", rate |-> 90000],
            [name |-> "H264", rate |-> 90000]>>]
=============================================================================
