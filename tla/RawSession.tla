----------------------------- MODULE RawSession -----------------------------
(***************************************************************************)
(* A DVRIP or Bubble connection once it streams: two goroutines of this    *)
(* program and one of the library's share a consumer.                      *)
(*                                                                         *)
(*   producer  puts a packet in the sender's channel, or drops it when the *)
(*             channel is full (core.Sender), until it dies: the consumer  *)
(*             stays joined to its track and is never fed again;           *)
(*   sender    takes packets out, packs them and writes them to the        *)
(*             connection; a failed write closes done (sendFrame);         *)
(*   worker    waits for done, then runs RemoveConsumer: Stop closes the   *)
(*             sender, done if it is still open, and the connection.       *)
(*                                                                         *)
(* "select { case <-done: default: close(done) }" in sendFrame is two      *)
(* steps here, since Stop contains it too; closing a closed channel        *)
(* panics.                                                                 *)
(***************************************************************************)
EXTENDS Naturals, Sequences

CONSTANTS
  Cap,          (* packets the sender's channel holds                      *)
  MaxFrames     (* bound: frames that are numbered and recorded            *)

ASSUME RawAssumption ==
  Cap \in Nat \ {0} /\ MaxFrames \in Nat

VARIABLES
  protocol,     (* "dvrip" or "bubble", fixed by the port                  *)
  fed,          (* the producer behind the sender's track lives            *)
  next,         (* the number of the producer's next frame                 *)
  queue, open,  (* the sender's channel                                    *)
  spc, frame,   (* the sender goroutine, and the frame in its hands        *)
  gotKeyframe,  (* bubble: a key frame was seen                            *)
  seq,          (* dvrip: the next chunk's number                          *)
  wire,         (* history: what was written to the connection             *)
  closes,       (* how often done was closed                               *)
  worker,       (* the connection's goroutine                              *)
  conn,         (* the connection is open at this end                      *)
  listed,       (* the consumer is in Stream.consumers                     *)
  gone          (* the client went away                                    *)

chanVars == <<protocol, fed, next, queue, open>>
dataVars == <<frame, gotKeyframe, seq, wire>>
workVars == <<worker, conn, listed>>
vars == <<chanVars, spc, dataVars, closes, workVars, gone>>

(* A packet too short to hold a NAL unit, or one that yields none, is      *)
(* "empty"; "key" holds an IDR picture or an SPS.                          *)
FrameKinds == {"key", "delta", "empty"}
Frame == [n : 0..MaxFrames, kind : FrameKinds]

(* AddConsumer has run: it made one sender, or none when no track matched. *)
(* Nobody clears a producer that died, so its track may be dead from the   *)
(* first step on.                                                          *)
Init ==
  /\ protocol \in {"dvrip", "bubble"}
  /\ fed = TRUE /\ next = 0 /\ queue = <<>> /\ open = TRUE
  /\ spc \in {"receive", "none"} /\ frame = [n |-> 0, kind |-> "empty"]
  /\ gotKeyframe = FALSE /\ seq = 0 /\ wire = <<>>
  /\ closes = 0 /\ worker = "waiting" /\ conn = TRUE /\ listed = TRUE
  /\ gone = FALSE

DoneClosed == closes > 0

-----------------------------------------------------------------------------
(* Mutant: the channel takes a packet when it is full.                     *)
EmitUnbounded(k) ==
  /\ fed /\ open /\ spc # "none"
  /\ queue' = Append(queue, [n |-> next, kind |-> k])
  /\ next' = IF next < MaxFrames THEN next + 1 ELSE next
  /\ UNCHANGED <<protocol, fed, open, spc, dataVars, closes, workVars, gone>>

(* The producer's side of core.Sender.                                     *)
Emit(k) ==
  /\ fed /\ open /\ spc # "none"
  /\ queue' = IF Len(queue) < Cap THEN Append(queue, [n |-> next, kind |-> k])
                                  ELSE queue
  /\ next' = IF next < MaxFrames THEN next + 1 ELSE next
  /\ UNCHANGED <<protocol, fed, open, spc, dataVars, closes, workVars, gone>>

(* ffmpeg dies and with it the RTSP connection that fed the track.  A new  *)
(* producer gets receivers of its own (Stream.tla).                        *)
ProducerDies ==
  /\ fed /\ fed' = FALSE
  /\ UNCHANGED <<protocol, next, queue, open, spc, dataVars, closes, workVars,
                 gone>>

-----------------------------------------------------------------------------
(* The sender goroutine: sendFrame for every packet.                       *)

Seen(f) == gotKeyframe \/ f.kind = "key"

(* Mutant: the frames before the first key frame are not held back.        *)
ReceiveAny ==
  /\ spc = "receive" /\ queue # <<>>
  /\ queue' = Tail(queue)
  /\ frame' = Head(queue)
  /\ gotKeyframe' = Seen(frame')
  /\ spc' = IF frame'.kind = "empty" THEN "receive" ELSE "write"
  /\ UNCHANGED <<protocol, fed, next, open, seq, wire, closes, workVars,
                 gone>>

Receive ==
  /\ spc = "receive" /\ queue # <<>>
  /\ queue' = Tail(queue)
  /\ frame' = Head(queue)
  /\ gotKeyframe' = Seen(frame')
  /\ spc' = IF frame'.kind = "empty" \/ (protocol = "bubble" /\ ~Seen(frame'))
            THEN "receive" ELSE "write"
  /\ UNCHANGED <<protocol, fed, next, open, seq, wire, closes, workVars,
                 gone>>

Record(f) ==
  IF f.n = MaxFrames THEN wire
  ELSE Append(wire, [n |-> f.n, seq |-> seq, kind |-> f.kind])

(* Mutant: the chunk number is only advanced when the write failed.        *)
WriteKeepsSeq ==
  /\ spc = "write"
  /\ \/ /\ conn /\ wire' = Record(frame) /\ spc' = "receive"
        /\ seq' = seq
     \/ /\ wire' = wire /\ spc' = "failed"
        /\ seq' = IF frame.n < MaxFrames THEN seq + 1 ELSE seq
  /\ UNCHANGED <<chanVars, frame, gotKeyframe, closes, workVars, gone>>

(* The write: to a client that left it fails at last, and any write may    *)
(* run into its deadline; on a closed connection it always fails.          *)
Write ==
  /\ spc = "write"
  /\ \/ conn /\ ~gone /\ wire' = Record(frame) /\ spc' = "receive"
     \/ wire' = wire /\ spc' = "failed"
  /\ seq' = IF frame.n < MaxFrames THEN seq + 1 ELSE seq
  /\ UNCHANGED <<chanVars, frame, gotKeyframe, closes, workVars, gone>>

(* The select after a failed write: done is closed already, or not.        *)
SenderChecks ==
  /\ spc = "failed"
  /\ spc' = IF DoneClosed THEN "receive" ELSE "closing"
  /\ UNCHANGED <<chanVars, dataVars, closes, workVars, gone>>

SenderCloses ==
  /\ spc = "closing"
  /\ closes' = closes + 1
  /\ spc' = "receive"
  /\ UNCHANGED <<chanVars, dataVars, workVars, gone>>

(* The channel is closed and drained: the goroutine ends.                  *)
SenderEnds ==
  /\ spc = "receive" /\ ~open /\ queue = <<>>
  /\ spc' = "over"
  /\ UNCHANGED <<chanVars, dataVars, closes, workVars, gone>>

-----------------------------------------------------------------------------
(* The worker: <-cons.done, then the deferred RemoveConsumer.              *)

(* Mutant: the worker also leaves when it learns that the client is gone.  *)
WakeOnGone ==
  /\ worker = "waiting" /\ (DoneClosed \/ gone)
  /\ worker' = "sender"
  /\ UNCHANGED <<chanVars, spc, dataVars, closes, conn, listed, gone>>

Wake ==
  /\ worker = "waiting" /\ DoneClosed
  /\ worker' = "sender"
  /\ UNCHANGED <<chanVars, spc, dataVars, closes, conn, listed, gone>>

(* Mutant: Stop closes the connection and leaves the sender open.          *)
StopSenderNot ==
  /\ worker = "sender"
  /\ worker' = "done"
  /\ UNCHANGED <<chanVars, spc, dataVars, closes, conn, listed, gone>>

(* Stop: c.sender.Close() detaches the sender and closes its channel.      *)
StopSender ==
  /\ worker = "sender"
  /\ open' = (spc = "none")
  /\ worker' = "done"
  /\ UNCHANGED <<protocol, fed, next, queue, spc, dataVars, closes, conn,
                 listed, gone>>

(* Stop: the select.  One step is enough on this side: done is closed      *)
(* before the worker gets here.                                            *)
StopDone ==
  /\ worker = "done"
  /\ closes' = IF DoneClosed THEN closes ELSE closes + 1
  /\ worker' = "conn"
  /\ UNCHANGED <<chanVars, spc, dataVars, conn, listed, gone>>

(* Stop: conn.Close().                                                     *)
StopConn ==
  /\ worker = "conn"
  /\ conn' = FALSE
  /\ worker' = "unlist"
  /\ UNCHANGED <<chanVars, spc, dataVars, closes, listed, gone>>

(* The rest of RemoveConsumer; the handler returns.                        *)
Unlist ==
  /\ worker = "unlist"
  /\ listed' = FALSE
  /\ worker' = "returned"
  /\ UNCHANGED <<chanVars, spc, dataVars, closes, conn, gone>>

ClientLeaves ==
  /\ ~gone /\ gone' = TRUE
  /\ UNCHANGED <<chanVars, spc, dataVars, closes, workVars>>

-----------------------------------------------------------------------------
SenderStep == Receive \/ Write \/ SenderChecks \/ SenderCloses \/ SenderEnds
WorkerStep == Wake \/ StopSender \/ StopDone \/ StopConn \/ Unlist

Next ==
  \/ \E k \in FrameKinds : Emit(k)
  \/ ProducerDies
  \/ SenderStep
  \/ WorkerStep
  \/ ClientLeaves

Spec == Init /\ [][Next]_vars

-----------------------------------------------------------------------------
(* The shape of the state.                                                 *)
TypeOK ==
  /\ protocol \in {"dvrip", "bubble"} /\ fed \in BOOLEAN
  /\ next \in 0..MaxFrames
  /\ queue \in Seq(Frame) /\ Len(queue) <= Cap /\ open \in BOOLEAN
  /\ spc \in {"none", "receive", "write", "failed", "closing", "over"}
  /\ frame \in Frame /\ gotKeyframe \in BOOLEAN
  /\ seq \in 0..MaxFrames /\ Len(wire) <= MaxFrames
  /\ closes \in Nat
  /\ worker \in {"waiting", "sender", "done", "conn", "unlist", "returned"}
  /\ conn \in BOOLEAN /\ listed \in BOOLEAN /\ gone \in BOOLEAN

(* done is closed at most once, although two goroutines test it and then   *)
(* close it: closing it twice would bring the whole program down.          *)
DoneClosedOnce == closes <= 1

(* Until the first write fails, drops happen in the channel and nowhere    *)
(* else: the frames on the wire keep the producer's order, none twice, and *)
(* DVRIP's chunks carry numbers without a gap.                             *)
NoFailure == closes = 0 /\ spc \notin {"failed", "closing"}

WireOrdered ==
  /\ \A i, j \in 1..Len(wire) :
       i < j => wire[i].n < wire[j].n /\ wire[i].seq < wire[j].seq
  /\ NoFailure => \A i \in 1..Len(wire) : wire[i].seq = i - 1

(* Bubble: until then, the client gets a key frame before anything else,   *)
(* whatever the channel dropped.                                           *)
KeyFirst ==
  protocol = "bubble" /\ NoFailure /\ wire # <<>> => wire[1].kind = "key"

(* bubble_server.go: "don't send P-frames before the first keyframe --     *)
(* client can't decode them", without the proviso.                         *)
StartsWithKey == protocol = "bubble" /\ wire # <<>> => wire[1].kind = "key"

=============================================================================
