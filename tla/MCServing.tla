----------------------------- MODULE MCServing -----------------------------
(* TLC instances of Serving: ffmpeg and its restart, each offering H264    *)
(* and, the first only, AAC as well.                                       *)
EXTENDS Serving

MCOffer ==
  [p \in Producers |->
     IF p = "ffmpeg1"
     THEN <<[name |-> "H264", rate |-> 90000],
            [name |-> "AAC", rate |-> 48000]>>
     ELSE <<[name |-> "H264", rate |-> 90000]>>]
=============================================================================
