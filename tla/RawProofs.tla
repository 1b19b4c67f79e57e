----------------------------- MODULE RawProofs -----------------------------
(***************************************************************************)
(* Proofs about a streaming raw connection, for every channel size: done   *)
(* is closed once, the wire keeps the order and numbers of the frames,     *)
(* Bubble starts with a key frame, and a connection comes down whole.      *)
(***************************************************************************)
EXTENDS RawSession, TLAPS

(* The argument: the worker leaves its wait only when done is closed, and  *)
(* there is one sender goroutine, whose test of done cannot be overtaken,  *)
(* for the only other place that closes done is behind that wait.          *)
CloseInv ==
  /\ closes \in {0, 1}
  /\ spc = "closing" => closes = 0
  /\ worker # "waiting" => closes = 1

LEMMA CloseInvSender ==
  ASSUME CloseInv, SenderStep
  PROVE  CloseInv'
<1> USE DEF CloseInv, workVars
<1>1. CASE Receive
  BY <1>1 DEF Receive
<1>2. CASE Write
  BY <1>2 DEF Write
<1>3. CASE SenderChecks
  BY <1>3 DEF SenderChecks, DoneClosed
<1>4. CASE SenderCloses
  BY <1>4 DEF SenderCloses
<1>5. CASE SenderEnds
  BY <1>5 DEF SenderEnds
<1> QED
  BY <1>1, <1>2, <1>3, <1>4, <1>5 DEF SenderStep

LEMMA CloseInvWorker ==
  ASSUME CloseInv, WorkerStep
  PROVE  CloseInv'
<1> USE DEF CloseInv
<1>1. CASE Wake
  BY <1>1 DEF Wake, DoneClosed
<1>2. CASE StopSender
  BY <1>2 DEF StopSender
<1>3. CASE StopDone
  BY <1>3 DEF StopDone, DoneClosed
<1>4. CASE StopConn \/ Unlist
  BY <1>4 DEF StopConn, Unlist
<1> QED
  BY <1>1, <1>2, <1>3, <1>4 DEF WorkerStep

LEMMA CloseInvNext == CloseInv /\ [Next]_vars => CloseInv'
<1> SUFFICES ASSUME CloseInv, [Next]_vars PROVE CloseInv'
  OBVIOUS
<1>1. CASE \E k \in FrameKinds : Emit(k)
  BY <1>1 DEF Emit, CloseInv, workVars
<1>2. CASE ClientLeaves
  BY <1>2 DEF ClientLeaves, CloseInv, workVars
<1>3. CASE ProducerDies
  BY <1>3 DEF ProducerDies, CloseInv, workVars
<1>4. CASE UNCHANGED vars
  BY <1>4 DEF vars, CloseInv, workVars
<1> QED
  BY <1>1, <1>2, <1>3, <1>4, CloseInvSender, CloseInvWorker DEF Next

(* Two goroutines test done and close it; it is closed once all the same.  *)
THEOREM DoneNeverClosedTwice == Spec => []DoneClosedOnce
<1>1. Init => CloseInv
  BY DEF Init, CloseInv
<1>2. CloseInv => DoneClosedOnce
  BY DEF CloseInv, DoneClosedOnce
<1> QED
  BY <1>1, <1>2, CloseInvNext, PTL DEF Spec

-----------------------------------------------------------------------------
(* The order of the frames.  A frame on its way is one in the channel or   *)
(* in the sender's hands; from MaxFrames on frames share one number and    *)
(* are not recorded.                                                       *)

Written == [n : 0..MaxFrames, seq : 0..MaxFrames, kind : FrameKinds]

FlowType ==
  /\ protocol \in {"dvrip", "bubble"} /\ fed \in BOOLEAN
  /\ next \in 0..MaxFrames
  /\ queue \in Seq(Frame) /\ Len(queue) <= Cap /\ open \in BOOLEAN
  /\ spc \in {"none", "receive", "write", "failed", "closing", "over"}
  /\ frame \in Frame /\ gotKeyframe \in BOOLEAN
  /\ seq \in 0..MaxFrames /\ wire \in Seq(Written)
  /\ worker \in {"waiting", "sender", "done", "conn", "unlist", "returned"}
  /\ conn \in BOOLEAN /\ listed \in BOOLEAN /\ gone \in BOOLEAN

(* A frame n that was made and not written: nothing behind it was.         *)
Coming(n, nx, sq, w) ==
  /\ n < nx \/ (n = MaxFrames /\ nx = MaxFrames)
  /\ n < MaxFrames => sq <= n /\ \A i \in 1..Len(w) : w[i].n < n

Before(m, n) == m < n \/ n = MaxFrames

OrderInv ==
  /\ \A i \in 1..Len(queue) : Coming(queue[i].n, next, seq, wire)
  /\ \A i, j \in 1..Len(queue) : i < j => Before(queue[i].n, queue[j].n)
  /\ spc = "write" =>
       /\ Coming(frame.n, next, seq, wire)
       /\ \A i \in 1..Len(queue) : Before(frame.n, queue[i].n)
  /\ seq <= next
  /\ \A i \in 1..Len(wire) :
       wire[i].n < next /\ wire[i].seq < seq
  /\ \A i, j \in 1..Len(wire) :
       i < j => wire[i].n < wire[j].n /\ wire[i].seq < wire[j].seq
  /\ Len(wire) <= seq
  /\ NoFailure =>
       Len(wire) = seq /\ \A i \in 1..Len(wire) : wire[i].seq = i - 1

(* Every frame from now on has the last number.                            *)
AtBound ==
  /\ next = MaxFrames
  /\ \A i \in 1..Len(queue) : queue[i].n = MaxFrames
  /\ spc = "write" => frame.n = MaxFrames

KeyInv ==
  protocol = "bubble" =>
    /\ spc = "write" => gotKeyframe
    /\ NoFailure =>
         /\ wire # <<>> => wire[1].kind = "key"
         /\ wire = <<>> /\ gotKeyframe =>
              (spc = "write" /\ frame.kind = "key") \/ AtBound

FlowInv == FlowType /\ OrderInv /\ KeyInv /\ CloseInv

LEMMA WireTypes ==
  ASSUME FlowType, NEW i \in 1..Len(wire)
  PROVE  wire[i].n \in 0..MaxFrames /\ wire[i].seq \in 0..MaxFrames
<1>1. wire[i] \in Written
  BY DEF FlowType
<1> QED
  BY <1>1 DEF Written

LEMMA QueueTypes ==
  ASSUME FlowType, NEW i \in 1..Len(queue)
  PROVE  queue[i].n \in 0..MaxFrames
<1>1. queue[i] \in Frame
  BY DEF FlowType
<1> QED
  BY <1>1 DEF Frame

LEMMA EmitKeeps ==
  ASSUME FlowInv, NEW k \in FrameKinds, Emit(k)
  PROVE  FlowType' /\ OrderInv' /\ KeyInv'
<1> USE RawAssumption
<1>1. FlowType /\ OrderInv /\ KeyInv
  BY DEF FlowInv
<1>2. UNCHANGED <<protocol, fed, open, spc, dataVars, closes, workVars, gone>>
  BY DEF Emit
<1>3. /\ next \in 0..MaxFrames /\ next' \in 0..MaxFrames /\ next <= next'
      /\ next < next' \/ (next = MaxFrames /\ next' = MaxFrames)
  BY <1>1 DEF Emit, FlowType
<1>4. ASSUME NEW n \in 0..MaxFrames, Coming(n, next, seq, wire)
      PROVE  Coming(n, next', seq', wire')
  BY <1>2, <1>3, <1>4 DEF Coming, dataVars
<1>5. Coming(next, next', seq', wire')
  <2>1. seq <= next /\ \A i \in 1..Len(wire) : wire[i].n < next
    BY <1>1 DEF OrderInv
  <2> QED
    BY <2>1, <1>2, <1>3 DEF Coming, dataVars
<1>6. CASE queue' = queue
  <2>1. FlowType'
    BY <1>1, <1>2, <1>3, <1>6 DEF FlowType, dataVars, workVars
  <2>2. \A i \in 1..Len(queue) : queue[i].n \in 0..MaxFrames
    BY <1>1, QueueTypes
  <2>3. frame.n \in 0..MaxFrames
    BY <1>1 DEF FlowType, Frame
  <2>4. \A i \in 1..Len(wire) : wire[i].n < next'
    <3>1. \A i \in 1..Len(wire) : wire[i].n \in 0..MaxFrames
      BY <1>1, WireTypes
    <3> QED
      BY <3>1, <1>1, <1>3 DEF OrderInv
  <2>5. seq <= next'
    BY <1>1, <1>3 DEF OrderInv, FlowType
  <2>6. OrderInv'
    BY <1>1, <1>2, <1>4, <1>6, <2>2, <2>3, <2>4, <2>5
       DEF OrderInv, NoFailure, dataVars
  <2>7. KeyInv'
    BY <1>1, <1>2, <1>3, <1>6 DEF KeyInv, AtBound, NoFailure, dataVars
  <2> QED
    BY <2>1, <2>6, <2>7
<1>7. CASE /\ Len(queue) < Cap
           /\ queue' = Append(queue, [n |-> next, kind |-> k])
  <2>1. [n |-> next, kind |-> k] \in Frame
    BY <1>3 DEF Frame
  <2>2. /\ queue \in Seq(Frame) /\ Len(queue) \in Nat
        /\ queue' \in Seq(Frame) /\ Len(queue') = Len(queue) + 1
        /\ queue'[Len(queue) + 1].n = next
        /\ \A i \in 1..Len(queue) : queue'[i] = queue[i]
    BY <1>1, <1>7, <2>1 DEF FlowType
  <2>3. FlowType'
    BY <1>1, <1>2, <1>3, <1>7, <2>2 DEF FlowType, dataVars, workVars
  <2>4. \A i \in 1..Len(queue) : queue[i].n \in 0..MaxFrames
    BY <1>1, QueueTypes
  <2>5. frame.n \in 0..MaxFrames
    BY <1>1 DEF FlowType, Frame
  <2>6. \A i \in 1..Len(queue') : Coming(queue'[i].n, next', seq', wire')
    <3> TAKE i \in 1..Len(queue')
    <3>1. CASE i = Len(queue) + 1
      BY <3>1, <2>2, <1>5
    <3>2. CASE i \in 1..Len(queue)
      <4>1. Coming(queue[i].n, next, seq, wire)
        BY <3>2, <1>1 DEF OrderInv
      <4> QED
        BY <4>1, <3>2, <2>2, <2>4, <1>4
    <3> QED
      BY <3>1, <3>2, <2>2
  <2>7. \A i, j \in 1..Len(queue') :
          i < j => Before(queue'[i].n, queue'[j].n)
    <3> TAKE i, j \in 1..Len(queue')
    <3> HAVE i < j
    <3>1. i \in 1..Len(queue)
      BY <2>2
    <3>2. CASE j = Len(queue) + 1
      <4>1. Coming(queue[i].n, next, seq, wire)
        BY <3>1, <1>1 DEF OrderInv
      <4> QED
        BY <4>1, <3>1, <3>2, <2>2 DEF Coming, Before
    <3>3. CASE j \in 1..Len(queue)
      BY <3>1, <3>3, <2>2, <1>1 DEF OrderInv
    <3> QED
      BY <3>2, <3>3, <2>2
  <2>8. spc = "write" =>
          /\ Coming(frame.n, next', seq', wire')
          /\ \A i \in 1..Len(queue') : Before(frame.n, queue'[i].n)
    <3> SUFFICES ASSUME spc = "write"
                 PROVE  /\ Coming(frame.n, next', seq', wire')
                        /\ \A i \in 1..Len(queue') :
                             Before(frame.n, queue'[i].n)
      OBVIOUS
    <3>1. Coming(frame.n, next, seq, wire)
      BY <1>1 DEF OrderInv
    <3>2. frame' = frame
      BY <1>2 DEF dataVars
    <3>3. Coming(frame.n, next', seq', wire')
      BY <3>1, <3>2, <1>2, <1>3, <2>5 DEF Coming, dataVars
    <3>4. ASSUME NEW i \in 1..Len(queue') PROVE Before(frame.n, queue'[i].n)
      <4>1. CASE i = Len(queue) + 1
        BY <4>1, <3>1, <2>2 DEF Coming, Before
      <4>2. CASE i \in 1..Len(queue)
        BY <4>2, <2>2, <1>1 DEF OrderInv
      <4> QED
        BY <4>1, <4>2, <2>2
    <3> QED
      BY <3>3, <3>4
  <2>9. \A i \in 1..Len(wire) : wire[i].n < next'
    <3>1. \A i \in 1..Len(wire) : wire[i].n \in 0..MaxFrames
      BY <1>1, WireTypes
    <3> QED
      BY <3>1, <1>1, <1>3 DEF OrderInv
  <2>10. seq <= next'
    BY <1>1, <1>3 DEF OrderInv, FlowType
  <2>11. OrderInv'
    BY <1>1, <1>2, <2>6, <2>7, <2>8, <2>9, <2>10
       DEF OrderInv, NoFailure, dataVars
  <2>12. AtBound => AtBound'
    <3> SUFFICES ASSUME AtBound PROVE AtBound'
      OBVIOUS
    <3>1. \A i \in 1..Len(queue') : queue'[i].n = MaxFrames
      BY <2>2 DEF AtBound
    <3> QED
      BY <3>1, <1>2, <1>3 DEF AtBound, dataVars
  <2>13. KeyInv'
    BY <1>1, <1>2, <2>12 DEF KeyInv, NoFailure, dataVars
  <2> QED
    BY <2>3, <2>11, <2>13
<1> QED
  BY <1>6, <1>7 DEF Emit

LEMMA ReceiveKeeps ==
  ASSUME FlowInv, Receive
  PROVE  FlowType' /\ OrderInv' /\ KeyInv'
<1> USE RawAssumption
<1>1. FlowType /\ OrderInv /\ KeyInv
  BY DEF FlowInv
<1>2. /\ spc = "receive" /\ queue # <<>>
      /\ queue' = Tail(queue) /\ frame' = queue[1]
      /\ gotKeyframe' = Seen(frame')
      /\ UNCHANGED <<protocol, fed, next, open, seq, wire, closes, workVars,
                     gone>>
      /\ spc' \in {"receive", "write"}
      /\ protocol = "bubble" /\ spc' = "write" => Seen(frame')
  BY DEF Receive
<1>3. /\ Len(queue) \in Nat /\ Len(queue) >= 1
      /\ queue' \in Seq(Frame) /\ Len(queue') = Len(queue) - 1
      /\ frame' \in Frame
      /\ \A i \in 1..Len(queue') : queue'[i] = queue[i + 1]
  BY <1>1, <1>2 DEF FlowType
<1>4. FlowType'
  BY <1>1, <1>2, <1>3 DEF FlowType, workVars, Seen
<1>5. next' = next /\ seq' = seq /\ wire' = wire
  BY <1>2
<1>6. OrderInv'
  <2>1. \A i \in 1..Len(queue') : i + 1 \in 1..Len(queue)
    BY <1>3
  <2>2. \A i \in 1..Len(queue') : Coming(queue'[i].n, next', seq', wire')
    BY <2>1, <1>1, <1>3, <1>5 DEF OrderInv
  <2>3. \A i, j \in 1..Len(queue') :
          i < j => Before(queue'[i].n, queue'[j].n)
    BY <2>1, <1>1, <1>3 DEF OrderInv
  <2>4. Coming(frame'.n, next', seq', wire')
    <3>1. Coming(queue[1].n, next, seq, wire)
      BY <1>1, <1>3 DEF OrderInv
    <3> QED
      BY <3>1, <1>2, <1>5
  <2>5. \A i \in 1..Len(queue') : Before(frame'.n, queue'[i].n)
    BY <2>1, <1>1, <1>2, <1>3 DEF OrderInv
  <2>6. NoFailure' => NoFailure
    BY <1>2 DEF NoFailure
  <2> QED
    BY <2>2, <2>3, <2>4, <2>5, <2>6, <1>1, <1>2 DEF OrderInv
<1>7. KeyInv'
  <2> SUFFICES ASSUME protocol = "bubble"
               PROVE  /\ spc' = "write" => gotKeyframe'
                      /\ NoFailure' =>
                           /\ wire # <<>> => wire[1].kind = "key"
                           /\ wire = <<>> /\ gotKeyframe' =>
                                \/ spc' = "write" /\ frame'.kind = "key"
                                \/ AtBound'
    BY <1>2 DEF KeyInv
  <2>1. NoFailure' => NoFailure
    BY <1>2 DEF NoFailure
  <2>2. spc' = "write" => gotKeyframe'
    BY <1>2
  <2>3. AtBound => AtBound'
    <3> SUFFICES ASSUME AtBound PROVE AtBound'
      OBVIOUS
    <3>1. \A i \in 1..Len(queue') : queue'[i].n = MaxFrames
      BY <1>3 DEF AtBound
    <3>2. frame'.n = MaxFrames
      BY <1>2, <1>3 DEF AtBound
    <3> QED
      BY <3>1, <3>2, <1>2 DEF AtBound
  <2>4. frame'.kind = "key" /\ spc' # "write" => FALSE
    BY <1>2 DEF Receive, Seen
  <2>5. gotKeyframe' /\ ~gotKeyframe => frame'.kind = "key"
    BY <1>2, <1>1 DEF Seen, FlowType
  <2>6. gotKeyframe /\ NoFailure /\ wire = <<>> => AtBound
    BY <1>1, <1>2 DEF KeyInv
  <2> QED
    BY <2>1, <2>2, <2>3, <2>4, <2>5, <2>6, <1>1, <1>2 DEF KeyInv, FlowType
<1> QED
  BY <1>4, <1>6, <1>7

LEMMA WriteKeeps ==
  ASSUME FlowInv, Write
  PROVE  FlowType' /\ OrderInv' /\ KeyInv'
<1> USE RawAssumption
<1>1. FlowType /\ OrderInv /\ KeyInv
  BY DEF FlowInv
<1>2. /\ spc = "write" /\ UNCHANGED <<protocol, fed, next, queue, open>>
      /\ UNCHANGED <<frame, gotKeyframe, closes, worker, conn, listed, gone>>
      /\ seq' = IF frame.n < MaxFrames THEN seq + 1 ELSE seq
      /\ \/ wire' = Record(frame) /\ spc' = "receive"
         \/ wire' = wire /\ spc' = "failed"
  BY DEF Write, chanVars, workVars
<1>3. /\ next \in 0..MaxFrames /\ seq \in 0..MaxFrames /\ frame \in Frame
      /\ frame.n \in 0..MaxFrames /\ frame.kind \in FrameKinds
      /\ wire \in Seq(Written) /\ Len(wire) \in Nat /\ Len(queue) \in Nat
  BY <1>1 DEF FlowType, Frame
<1>4. Coming(frame.n, next, seq, wire)
  BY <1>1, <1>2 DEF OrderInv
<1>5. /\ seq <= next /\ Len(wire) <= seq
      /\ \A i \in 1..Len(wire) : wire[i].n < next /\ wire[i].seq < seq
      /\ \A i, j \in 1..Len(wire) :
           i < j => wire[i].n < wire[j].n /\ wire[i].seq < wire[j].seq
  BY <1>1 DEF OrderInv
<1>6. /\ seq' \in 0..MaxFrames /\ seq' <= next' /\ seq <= seq'
      /\ frame.n < MaxFrames => seq' <= frame.n + 1
  BY <1>2, <1>3, <1>4, <1>5 DEF Coming
<1>7. \A i \in 1..Len(queue) :
        /\ queue[i].n \in 0..MaxFrames
        /\ Coming(queue[i].n, next, seq, wire)
        /\ Before(frame.n, queue[i].n)
  BY <1>1, <1>2, QueueTypes DEF OrderInv
<1>8. CASE wire' = wire
  <2>1. FlowType'
    BY <1>1, <1>2, <1>6, <1>8 DEF FlowType
  <2>2. \A i \in 1..Len(queue) : Coming(queue[i].n, next, seq', wire)
    BY <1>3, <1>6, <1>7, <1>2 DEF Coming, Before
  <2>3. \A i \in 1..Len(wire) : wire[i].seq < seq'
    BY <1>3, <1>5, <1>6, <1>1, WireTypes
  <2>4. Len(wire) <= seq'
    BY <1>3, <1>5, <1>6
  <2>5. spc' = "failed" \/ frame.n = MaxFrames
    <3>1. Record(frame) = wire => frame.n = MaxFrames
      <4>1. ASSUME NEW x PROVE Append(wire, x) # wire
        BY <1>3
      <4> QED
        BY <4>1 DEF Record
    <3> QED
      BY <3>1, <1>2, <1>8
  <2>6. NoFailure' => NoFailure /\ seq' = seq /\ spc' = "receive"
                      /\ frame.n = MaxFrames
    BY <2>5, <1>2 DEF NoFailure
  <2>7. OrderInv'
    BY <2>2, <2>3, <2>4, <2>6, <1>1, <1>2, <1>5, <1>6, <1>8 DEF OrderInv
  <2>8. frame.n = MaxFrames => AtBound'
    BY <1>2, <1>3, <1>4, <1>7 DEF AtBound, Coming, Before
  <2>9. KeyInv'
    BY <2>6, <2>8, <1>1, <1>2, <1>8 DEF KeyInv
  <2> QED
    BY <2>1, <2>7, <2>9
<1>9. CASE /\ frame.n # MaxFrames /\ spc' = "receive"
           /\ wire' = Append(wire, [n |-> frame.n, seq |-> seq,
                                    kind |-> frame.kind])
  <2>1. frame.n < MaxFrames /\ seq' = seq + 1 /\ seq <= frame.n
        /\ frame.n < next /\ \A i \in 1..Len(wire) : wire[i].n < frame.n
    <3>1. frame.n < MaxFrames
      BY <1>3, <1>9
    <3>2. frame.n < next
      BY <3>1, <1>3, <1>4 DEF Coming
    <3>3. seq <= frame.n /\ \A i \in 1..Len(wire) : wire[i].n < frame.n
      BY <3>1, <1>3, <1>4, <1>9 DEF Coming
    <3>4. seq' = seq + 1
      BY <3>1, <1>2
    <3> QED
      BY <3>1, <3>2, <3>3, <3>4
  <2> DEFINE e == [n |-> frame.n, seq |-> seq, kind |-> frame.kind]
  <2>2. e \in Written /\ e.n = frame.n /\ e.seq = seq /\ e.kind = frame.kind
    BY <1>3 DEF Written
  <2>3. /\ wire' \in Seq(Written) /\ Len(wire') = Len(wire) + 1
        /\ wire'[Len(wire) + 1] = e
        /\ \A i \in 1..Len(wire) : wire'[i] = wire[i]
    <3> HIDE DEF e
    <3>1. wire' = Append(wire, e)
      BY <1>9 DEF e
    <3> QED
      BY <3>1, <2>2, <1>3
  <2> HIDE DEF e
  <2>4. FlowType'
    BY <2>3, <1>1, <1>2, <1>6 DEF FlowType
  <2>5. \A i \in 1..Len(wire) :
          wire[i].n \in 0..MaxFrames /\ wire[i].seq \in 0..MaxFrames
    BY <1>1, WireTypes
  <2>6. ASSUME NEW i \in 1..Len(wire')
        PROVE  wire'[i].n <= frame.n /\ wire'[i].seq <= seq
    BY <2>1, <2>2, <2>3, <2>5, <1>3, <1>5
  <2>7. \A i \in 1..Len(wire') : wire'[i].n < next /\ wire'[i].seq < seq'
    <3> TAKE i \in 1..Len(wire')
    <3>1. wire'[i].n \in 0..MaxFrames /\ wire'[i].seq \in 0..MaxFrames
      BY <2>2, <2>3, <2>5, <1>3
    <3> QED
      BY <3>1, <2>1, <2>6, <1>3
  <2>8. \A i, j \in 1..Len(wire') :
          i < j => wire'[i].n < wire'[j].n /\ wire'[i].seq < wire'[j].seq
    <3> TAKE i, j \in 1..Len(wire')
    <3> HAVE i < j
    <3>1. i \in 1..Len(wire) /\ wire'[i] = wire[i]
      BY <2>3, <1>3
    <3>2. CASE j = Len(wire) + 1
      BY <3>1, <3>2, <2>1, <2>2, <2>3, <1>5
    <3>3. CASE j \in 1..Len(wire)
      BY <3>1, <3>3, <2>3, <1>5
    <3> QED
      BY <3>2, <3>3, <2>3, <1>3
  <2>9. \A i \in 1..Len(queue) : Coming(queue[i].n, next, seq', wire')
    <3> TAKE i \in 1..Len(queue)
    <3>1. /\ queue[i].n \in 0..MaxFrames
          /\ queue[i].n < next \/ (queue[i].n = MaxFrames /\ next = MaxFrames)
          /\ frame.n < queue[i].n \/ queue[i].n = MaxFrames
      BY <1>7 DEF Coming, Before
    <3>2. CASE queue[i].n = MaxFrames
      BY <3>1, <3>2, <1>3 DEF Coming
    <3>3. CASE queue[i].n # MaxFrames
      <4>1. frame.n < queue[i].n /\ seq' <= queue[i].n
        BY <3>1, <3>3, <2>1, <1>3
      <4>2. \A k \in 1..Len(wire') : wire'[k].n < queue[i].n
        <5> TAKE k \in 1..Len(wire')
        <5>1. wire'[k].n \in 0..MaxFrames
          BY <2>2, <2>3, <2>5, <1>3
        <5> QED
          BY <5>1, <4>1, <2>6, <3>1, <1>3
      <4> QED
        BY <4>1, <4>2, <3>1 DEF Coming
    <3> QED
      BY <3>2, <3>3
  <2>10. NoFailure' => NoFailure
    BY <1>2 DEF NoFailure
  <2>11. NoFailure => Len(wire') = seq'
                      /\ \A i \in 1..Len(wire') : wire'[i].seq = i - 1
    <3> SUFFICES ASSUME NoFailure
                 PROVE  /\ Len(wire') = seq'
                        /\ \A i \in 1..Len(wire') : wire'[i].seq = i - 1
      OBVIOUS
    <3>1. Len(wire) = seq /\ \A i \in 1..Len(wire) : wire[i].seq = i - 1
      BY <1>1 DEF OrderInv
    <3>2. Len(wire') = seq'
      BY <3>1, <2>1, <2>3
    <3>3. ASSUME NEW i \in 1..Len(wire') PROVE wire'[i].seq = i - 1
      <4>1. CASE i = Len(wire) + 1
        BY <4>1, <3>1, <2>2, <2>3, <1>3
      <4>2. CASE i \in 1..Len(wire)
        BY <4>2, <3>1, <2>3
      <4> QED
        BY <4>1, <4>2, <2>3, <1>3
    <3> QED
      BY <3>2, <3>3
  <2>12. Len(wire') <= seq'
    BY <2>1, <2>3, <1>3, <1>5
  <2>13. OrderInv'
    BY <2>7, <2>8, <2>9, <2>10, <2>11, <2>12, <1>1, <1>2, <1>6, <1>9
       DEF OrderInv
  <2>14. KeyInv'
    <3> SUFFICES ASSUME protocol = "bubble", NoFailure
                 PROVE  wire' # <<>> /\ wire'[1].kind = "key"
      BY <2>10, <1>2, <1>9 DEF KeyInv
    <3>1. wire' # <<>>
      BY <2>3, <1>3
    <3>2. CASE wire = <<>>
      <4>1. gotKeyframe
        BY <1>1, <1>2 DEF KeyInv
      <4>2. frame.kind = "key" \/ AtBound
        BY <4>1, <3>2, <1>1 DEF KeyInv
      <4>3. frame.kind = "key"
        BY <4>2, <1>2, <1>9 DEF AtBound
      <4> QED
        BY <4>3, <3>1, <3>2, <2>2, <2>3
    <3>3. CASE wire # <<>>
      <4>1. wire[1].kind = "key" /\ 1 \in 1..Len(wire)
        BY <3>3, <1>1, <1>3 DEF KeyInv
      <4> QED
        BY <4>1, <3>1, <2>3
    <3> QED
      BY <3>1, <3>2, <3>3
  <2> QED
    BY <2>4, <2>13, <2>14
<1>10. wire' = wire \/ (/\ frame.n # MaxFrames /\ spc' = "receive"
                        /\ wire' = Append(wire, [n |-> frame.n, seq |-> seq,
                                                 kind |-> frame.kind]))
  BY <1>2 DEF Record
<1> QED
  BY <1>8, <1>9, <1>10

(* The other steps touch neither the frames nor the wire.                  *)
LEMMA OthersKeep ==
  ASSUME FlowInv,
         \/ SenderChecks \/ SenderCloses \/ SenderEnds
         \/ WorkerStep \/ ClientLeaves \/ ProducerDies \/ UNCHANGED vars
  PROVE  FlowType' /\ OrderInv' /\ KeyInv'
<1>1. FlowType /\ OrderInv /\ KeyInv /\ CloseInv
  BY DEF FlowInv
<1>2. UNCHANGED <<protocol, next, queue, frame, gotKeyframe, seq, wire>>
  BY DEF SenderChecks, SenderCloses, SenderEnds, WorkerStep, Wake, StopSender,
         StopDone, StopConn, Unlist, ClientLeaves, ProducerDies, vars,
         chanVars, dataVars
<1>3. /\ spc' \in {"none", "receive", "write", "failed", "closing", "over"}
      /\ open' \in BOOLEAN /\ conn' \in BOOLEAN /\ listed' \in BOOLEAN
      /\ gone' \in BOOLEAN /\ fed' \in BOOLEAN
      /\ worker' \in {"waiting", "sender", "done", "conn", "unlist",
                       "returned"}
  <2>1. CASE SenderChecks \/ SenderCloses \/ SenderEnds
    BY <2>1, <1>1
       DEF FlowType, SenderChecks, SenderCloses, SenderEnds, chanVars, workVars
  <2>2. CASE Wake \/ StopDone \/ StopConn \/ Unlist
    BY <2>2, <1>1
       DEF FlowType, Wake, StopDone, StopConn, Unlist, chanVars
  <2>3. CASE StopSender
    BY <2>3, <1>1 DEF FlowType, StopSender
  <2>4. CASE ClientLeaves
    BY <2>4, <1>1 DEF FlowType, ClientLeaves, chanVars, workVars
  <2>5. CASE ProducerDies
    BY <2>5, <1>1 DEF FlowType, ProducerDies, workVars
  <2>6. CASE UNCHANGED vars
    BY <2>6, <1>1 DEF FlowType, vars, chanVars, workVars
  <2> QED
    BY <2>1, <2>2, <2>3, <2>4, <2>5, <2>6 DEF WorkerStep
<1>8. FlowType'
  BY <1>1, <1>2, <1>3 DEF FlowType
<1>4. /\ spc' = "write" => spc = "write"
      /\ spc = "write" => spc' = "write"
  BY DEF SenderChecks, SenderCloses, SenderEnds, WorkerStep, Wake, StopSender,
         StopDone, StopConn, Unlist, ClientLeaves, ProducerDies, vars
<1>5. NoFailure' => NoFailure
  BY <1>1
     DEF CloseInv, FlowType, NoFailure, DoneClosed, SenderChecks, SenderCloses,
         SenderEnds, WorkerStep, Wake, StopSender, StopDone, StopConn, Unlist,
         ClientLeaves, ProducerDies, vars
<1>6. OrderInv'
  BY <1>1, <1>2, <1>4, <1>5 DEF OrderInv
<1>7. KeyInv'
  BY <1>1, <1>2, <1>4, <1>5 DEF KeyInv, AtBound
<1> QED
  BY <1>6, <1>7, <1>8

LEMMA FlowInvInit == Init => FlowInv
<1> SUFFICES ASSUME Init PROVE FlowInv
  OBVIOUS
<1> USE RawAssumption
<1>1. CloseInv
  BY DEF Init, CloseInv
<1>2. FlowType
  <2>1. [n |-> 0, kind |-> "empty"] \in Frame
    BY DEF Frame, FrameKinds
  <2>2. <<>> \in Seq(Frame) /\ <<>> \in Seq(Written) /\ Len(<<>>) <= Cap
    OBVIOUS
  <2>3. frame \in Frame
    BY <2>1 DEF Init
  <2>4. queue \in Seq(Frame) /\ wire \in Seq(Written) /\ Len(queue) <= Cap
    BY <2>2 DEF Init
  <2>5. /\ protocol \in {"dvrip", "bubble"} /\ next \in 0..MaxFrames
        /\ seq \in 0..MaxFrames
    BY DEF Init
  <2>7. fed \in BOOLEAN
    BY DEF Init
  <2>6. /\ spc \in {"none", "receive", "write", "failed", "closing", "over"}
        /\ worker \in {"waiting", "sender", "done", "conn", "unlist",
                      "returned"}
        /\ open \in BOOLEAN /\ gotKeyframe \in BOOLEAN
        /\ conn \in BOOLEAN /\ listed \in BOOLEAN /\ gone \in BOOLEAN
    BY DEF Init
  <2> QED
    BY <2>3, <2>4, <2>5, <2>6, <2>7 DEF FlowType
<1>3. OrderInv
  BY DEF Init, OrderInv, NoFailure
<1>4. KeyInv
  BY DEF Init, KeyInv
<1> QED
  BY <1>1, <1>2, <1>3, <1>4 DEF FlowInv

LEMMA FlowInvNext == FlowInv /\ [Next]_vars => FlowInv'
<1> SUFFICES ASSUME FlowInv, [Next]_vars PROVE FlowInv'
  OBVIOUS
<1>1. CloseInv'
  BY CloseInvNext DEF FlowInv
<1>2. FlowType' /\ OrderInv' /\ KeyInv'
  BY EmitKeeps, ReceiveKeeps, WriteKeeps, OthersKeep DEF Next, SenderStep
<1> QED
  BY <1>1, <1>2 DEF FlowInv

LEMMA FlowAlways == Spec => []FlowInv
<1> QED
  BY FlowInvInit, FlowInvNext, PTL DEF Spec

LEMMA FlowInvTypes == FlowInv => TypeOK
<1> SUFFICES ASSUME FlowInv PROVE TypeOK
  OBVIOUS
<1>1. Len(wire) <= MaxFrames
  BY RawAssumption DEF FlowInv, FlowType, OrderInv
<1>2. closes \in Nat
  BY DEF FlowInv, CloseInv
<1> QED
  BY <1>1, <1>2 DEF FlowInv, FlowType, TypeOK

(* Every variable of the session keeps its type, and the channel its size. *)
THEOREM RawTypeCorrect == Spec => []TypeOK
<1> QED
  BY FlowInvTypes, FlowAlways, PTL

(* Frames reach the wire in their order and once; chunk numbers have no    *)
(* gap until a write fails.                                                *)
THEOREM WireAlwaysOrdered == Spec => []WireOrdered
<1>1. FlowInv => WireOrdered
  BY DEF FlowInv, OrderInv, WireOrdered
<1> QED
  BY <1>1, FlowAlways, PTL

(* Until a write fails, the first frame a Bubble client gets is a key      *)
(* frame, whatever the channel dropped.                                    *)
THEOREM KeyAlwaysFirst == Spec => []KeyFirst
<1>1. FlowInv => KeyFirst
  BY DEF FlowInv, KeyInv, KeyFirst
<1> QED
  BY <1>1, FlowAlways, PTL

-----------------------------------------------------------------------------
(* The end of a connection: what ConnectionEnds needs of every state.  As  *)
(* long as the worker waits, whatever it serves is there; a sender that    *)
(* ended has not left a worker waiting; and a worker that returned has     *)
(* left nothing behind for a later packet to run into.                     *)
Teardown ==
  /\ worker = "waiting" => open /\ conn /\ listed /\ spc # "over"
  /\ spc = "over" => closes = 1
  /\ worker = "returned" =>
       /\ ~conn /\ ~listed /\ closes = 1
       /\ spc = "none" \/ ~open

(* The strengthening: each step of Stop has done its part, and the channel *)
(* is closed by nobody else.                                               *)
TeardownInv ==
  /\ ~open => worker \notin {"waiting", "sender"}
  /\ spc = "over" => ~open
  /\ worker \in {"done", "conn", "unlist", "returned"} =>
       spc = "none" \/ ~open
  /\ ~conn <=> worker \in {"unlist", "returned"}
  /\ ~listed <=> worker = "returned"

LEMMA TeardownNext == FlowInv /\ TeardownInv /\ [Next]_vars => TeardownInv'
<1> SUFFICES ASSUME FlowInv, TeardownInv, [Next]_vars PROVE TeardownInv'
  OBVIOUS
<1> USE DEF TeardownInv, workVars, chanVars
<1>1. CASE \E k \in FrameKinds : Emit(k)
  BY <1>1 DEF Emit
<1>2. CASE SenderStep
  <2>1. CASE Receive
    BY <2>1 DEF Receive
  <2>2. CASE Write
    BY <2>2 DEF Write
  <2>3. CASE SenderChecks \/ SenderCloses
    BY <2>3 DEF SenderChecks, SenderCloses
  <2>4. CASE SenderEnds
    BY <2>4 DEF SenderEnds
  <2> QED
    BY <1>2, <2>1, <2>2, <2>3, <2>4 DEF SenderStep
<1>3. CASE WorkerStep
  <2>1. CASE Wake
    BY <2>1 DEF Wake
  <2>2. CASE StopSender
    BY <2>2 DEF StopSender
  <2>3. CASE StopDone
    BY <2>3 DEF StopDone
  <2>4. CASE StopConn
    BY <2>4 DEF StopConn
  <2>5. CASE Unlist
    BY <2>5 DEF Unlist
  <2> QED
    BY <1>3, <2>1, <2>2, <2>3, <2>4, <2>5 DEF WorkerStep
<1>4. CASE ClientLeaves
  BY <1>4 DEF ClientLeaves
<1>5. CASE ProducerDies
  BY <1>5 DEF ProducerDies
<1>6. CASE UNCHANGED vars
  BY <1>6 DEF vars
<1> QED
  BY <1>1, <1>2, <1>3, <1>4, <1>5, <1>6 DEF Next

(* A connection comes down whole, however its two goroutines interleave:   *)
(* done, sender, connection and list entry, in the order of Stop.          *)
THEOREM ComesDownWhole == Spec => []Teardown
<1>1. Init => TeardownInv
  BY DEF Init, TeardownInv
<1>2. FlowInv /\ TeardownInv => Teardown
  BY DEF FlowInv, FlowType, CloseInv, TeardownInv, Teardown
<1> QED
  BY <1>1, <1>2, TeardownNext, FlowAlways, PTL DEF Spec
=============================================================================
