---------------------------- MODULE BubbleProofs ----------------------------
(***************************************************************************)
(* Proofs about a Bubble connection from accept to end, for every set of   *)
(* packet lengths, every client and every cut of its bytes: a stream is    *)
(* only served after the packets that ask for it, and what RawProofs shows *)
(* of a session holds of the session behind the handshake.                 *)
(***************************************************************************)
EXTENDS Bubble, RawProofs

(* The argument: every stage says exactly what was read before it.         *)
Said(n) ==
  /\ Len(read) = n
  /\ n >= 1 => read[1].kind = "request"
  /\ n >= 2 => read[2].kind = "auth"
  /\ n >= 3 => read[3].kind = "start"

StepInv ==
  protocol = "bubble" =>
    /\ stage = "request" => Said(0)
    /\ stage \in {"answer", "auth"} => Said(1)
    /\ stage \in {"reply", "start"} => Said(2) /\ read[2].len >= 48
    /\ stage = "streaming" => Said(3) /\ read[2].len >= 48

BubbleInv == HandshakeTypeOK /\ StepInv

(* Before the session starts its state stays; only conn and gone move.     *)
SessionKept ==
  UNCHANGED <<protocol, fed, next, queue, open, spc, frame, gotKeyframe, seq,
              wire, closes, worker, listed>>

-----------------------------------------------------------------------------
LEMMA GoToKeeps ==
  ASSUME HandshakeTypeOK, NEW s,
         s \in Handshake \cup {"streaming", "closed", "panicked"},
         s \in Handshake => buffered # <<>>,
         GoTo(s)
  PROVE  /\ stage' = s /\ SessionKept /\ conn' \in BOOLEAN
         /\ UNCHANGED gone
         /\ read' \in Seq(Unit) => HandshakeTypeOK'
<1> USE BubbleAssumption
<1>1. /\ stage' = s /\ SessionKept /\ conn' \in BOOLEAN /\ UNCHANGED gone
  BY DEF GoTo, SessionKept, chanVars, dataVars
<1>2. ASSUME read' \in Seq(Unit) PROVE HandshakeTypeOK'
  <2>1. CASE s \in Handshake
    <3>1. buffered' = Tail(buffered) /\ UNCHANGED <<arriving, cut, clock>>
      BY <2>1 DEF GoTo
    <3>2. /\ buffered' \in Seq(Unit)
          /\ Len(buffered') = Len(buffered) - 1
      BY <2>1, <3>1 DEF HandshakeTypeOK
    <3> QED
      BY <1>1, <1>2, <2>1, <3>1, <3>2 DEF HandshakeTypeOK, Ahead
  <2>2. CASE s \notin Handshake
    <3>1. buffered' = <<>> /\ arriving' = <<>> /\ cut' = FALSE /\ clock' = 0
      BY <2>2 DEF GoTo
    <3>2. Len(buffered') + Len(arriving') = 0 /\ 0 \in 0..ReadTimeout
      BY <3>1
    <3>3. arriving' \in Seq(Unit) /\ buffered' \in Seq(Unit)
      BY <3>1
    <3>4. cut' \in BOOLEAN /\ (cut' => arriving' # <<>>)
      BY <3>1
    <3>5. clock' \in 0..ReadTimeout /\ Ahead' <= MaxAhead
      BY <3>1, <3>2 DEF Ahead
    <3> QED
      BY <1>1, <1>2, <3>3, <3>4, <3>5 DEF HandshakeTypeOK
  <2> QED
    BY <2>1, <2>2
<1> QED
  BY <1>1, <1>2

LEMMA TakeKeeps ==
  ASSUME HandshakeTypeOK, NEW s,
         s \in Handshake \cup {"streaming", "closed", "panicked"},
         buffered # <<>>, Take(s)
  PROVE  /\ stage' = s /\ SessionKept /\ conn' \in BOOLEAN
         /\ UNCHANGED gone /\ HandshakeTypeOK'
         /\ Head(buffered) \in Unit
         /\ Len(read') = Len(read) + 1
         /\ read'[Len(read) + 1] = Head(buffered)
         /\ \A i \in 1..Len(read) : read'[i] = read[i]
<1>1. Head(buffered) \in Unit /\ read \in Seq(Unit)
  BY DEF HandshakeTypeOK
<1>2. GoTo(s) /\ read' = Append(read, Head(buffered))
  BY DEF Take
<1> DEFINE h == Head(buffered)
<1>3. read' = Append(read, h) /\ h \in Unit
  BY <1>1, <1>2
<1> HIDE DEF h
<1>4. /\ read' \in Seq(Unit) /\ Len(read') = Len(read) + 1
      /\ read'[Len(read) + 1] = h
      /\ \A i \in 1..Len(read) : read'[i] = read[i]
  BY <1>1, <1>3
<1>5. /\ stage' = s /\ SessionKept /\ conn' \in BOOLEAN
      /\ UNCHANGED gone
      /\ read' \in Seq(Unit) => HandshakeTypeOK'
  BY <1>2, GoToKeeps
<1> QED
  BY <1>1, <1>4, <1>5 DEF h

(* The client and the clock do not touch what was read.                    *)
LEMMA OutsideKeeps ==
  ASSUME BubbleInv,
         (\E u \in Unit : Send(u)) \/ SendRest \/ Tick \/ HandshakeLeaves
  PROVE  BubbleInv' /\ SessionKept /\ UNCHANGED conn /\ gone' \in {gone, TRUE}
<1> USE BubbleAssumption
<1>1. HandshakeTypeOK /\ StepInv
  BY DEF BubbleInv
<1>2. SessionKept /\ UNCHANGED <<stage, read, buffered, conn>>
      /\ gone' \in {gone, TRUE}
  BY DEF Send, SendRest, Tick, HandshakeLeaves, SessionKept, vars, chanVars,
         dataVars, workVars, inVars, bubbleVars
<1>3. StepInv'
  BY <1>1, <1>2 DEF StepInv, Said, SessionKept
<1>4. HandshakeTypeOK'
  <2>1. ASSUME NEW u \in Unit, Send(u) PROVE HandshakeTypeOK'
    <3>1. /\ arriving' = Append(arriving, u) /\ cut' \in BOOLEAN
          /\ Ahead < MaxAhead /\ UNCHANGED clock
      BY <2>1 DEF Send
    <3>2. /\ arriving' \in Seq(Unit) /\ Len(arriving') = Len(arriving) + 1
          /\ arriving' # <<>>
      BY <1>1, <3>1 DEF HandshakeTypeOK
    <3>3. Len(buffered) \in Nat /\ Len(arriving) \in Nat
      BY <1>1 DEF HandshakeTypeOK
    <3>4. Ahead' <= MaxAhead
      BY <1>2, <3>1, <3>2, <3>3 DEF Ahead
    <3> QED
      BY <1>1, <1>2, <3>1, <3>2, <3>4 DEF HandshakeTypeOK
  <2>2. CASE SendRest
    BY <1>1, <1>2, <2>2 DEF SendRest, HandshakeTypeOK, Ahead
  <2>3. CASE Tick
    BY <1>1, <1>2, <2>3 DEF Tick, inVars, HandshakeTypeOK, Ahead
  <2>4. CASE HandshakeLeaves
    BY <1>1, <1>2, <2>4
       DEF HandshakeLeaves, bubbleVars, inVars, HandshakeTypeOK, Ahead
  <2> QED
    BY <2>1, <2>2, <2>3, <2>4
<1> QED
  BY <1>2, <1>3, <1>4 DEF BubbleInv

LEMMA FetchKeeps ==
  ASSUME BubbleInv, Fetch
  PROVE  BubbleInv' /\ UNCHANGED vars
<1>1. HandshakeTypeOK /\ StepInv
  BY DEF BubbleInv
<1>2. UNCHANGED <<vars, stage, cut, read, clock>>
  BY DEF Fetch
<1>3. PICK n \in 1..Complete :
        /\ buffered' = buffered \o SubSeq(arriving, 1, n)
        /\ arriving' = SubSeq(arriving, n + 1, Len(arriving))
  BY DEF Fetch
<1>4. /\ arriving \in Seq(Unit) /\ Len(arriving) \in Nat
      /\ n \in 1..Len(arriving) /\ (cut => n < Len(arriving))
  BY <1>1, <1>3 DEF HandshakeTypeOK, Complete
<1>5. buffered' \in Seq(Unit) /\ Len(buffered') = Len(buffered) + n
  <2>1. buffered \in Seq(Unit)
    BY <1>1 DEF HandshakeTypeOK
  <2>2. /\ SubSeq(arriving, 1, n) \in Seq(Unit)
        /\ Len(SubSeq(arriving, 1, n)) = n
    BY <1>4
  <2> QED
    BY <2>1, <2>2, <1>3
<1>6. arriving' \in Seq(Unit) /\ Len(arriving') = Len(arriving) - n
  BY <1>3, <1>4
<1>7. cut => arriving' # <<>>
  BY <1>4, <1>6
<1>8. Ahead' <= MaxAhead
  <2>1. Len(buffered) \in Nat /\ Ahead <= MaxAhead
    BY <1>1 DEF HandshakeTypeOK
  <2> QED
    BY <2>1, <1>4, <1>5, <1>6 DEF Ahead
<1>9. HandshakeTypeOK'
  BY <1>1, <1>2, <1>5, <1>6, <1>7, <1>8 DEF HandshakeTypeOK
<1>10. StepInv'
  BY <1>1, <1>2 DEF StepInv, Said, vars, chanVars
<1> QED
  BY <1>2, <1>9, <1>10 DEF BubbleInv

LEMMA ServerKeeps ==
  ASSUME BubbleInv, ServerStep \/ PeekReturns
  PROVE  BubbleInv' /\ SessionKept /\ conn' \in {conn, TRUE, FALSE}
         /\ UNCHANGED gone
<1> USE DEF Handshake
<1>1. HandshakeTypeOK /\ StepInv /\ read \in Seq(Unit) /\ Len(read) \in Nat
  BY DEF BubbleInv, HandshakeTypeOK
<1>2. CASE Fetch
  BY <1>2, FetchKeeps DEF SessionKept, vars, chanVars, dataVars, workVars
<1>3. ASSUME GoTo("closed"), UNCHANGED read
      PROVE  BubbleInv' /\ SessionKept /\ conn' \in BOOLEAN /\ UNCHANGED gone
  <2>1. /\ stage' = "closed" /\ SessionKept /\ conn' \in BOOLEAN
        /\ UNCHANGED gone /\ HandshakeTypeOK'
    BY <1>1, <1>3, GoToKeeps
  <2> QED
    BY <2>1 DEF BubbleInv, StepInv
<1>4. CASE FetchFails
  BY <1>3, <1>4 DEF FetchFails
<1>10. CASE PeekReturns
  BY <1>3, <1>10 DEF PeekReturns
<1>5. CASE ReadRequest
  <2>1. PICK s \in {"answer", "closed"} :
          Take(s) /\ (s = "answer" => Head(buffered).kind = "request")
    BY <1>5 DEF ReadRequest
  <2>2. stage = "request" /\ buffered # <<>>
    BY <1>5 DEF ReadRequest
  <2>3. /\ stage' = s /\ SessionKept /\ conn' \in BOOLEAN
        /\ UNCHANGED gone /\ HandshakeTypeOK'
        /\ Len(read') = Len(read) + 1
        /\ read'[Len(read) + 1] = Head(buffered)
    BY <1>1, <2>1, <2>2, TakeKeeps
  <2>4. StepInv'
    BY <1>1, <2>1, <2>2, <2>3 DEF StepInv, Said, SessionKept
  <2> QED
    BY <2>3, <2>4 DEF BubbleInv
<1>6. CASE Skip
  <2>1. /\ stage \in {"auth", "start"} /\ buffered # <<>> /\ GoTo(stage)
        /\ UNCHANGED read
    BY <1>6 DEF Skip
  <2>2. /\ stage' = stage /\ SessionKept /\ conn' \in BOOLEAN
        /\ UNCHANGED gone /\ HandshakeTypeOK'
    BY <1>1, <2>1, GoToKeeps
  <2>3. StepInv'
    BY <1>1, <2>1, <2>2 DEF StepInv, Said, SessionKept
  <2> QED
    BY <2>2, <2>3 DEF BubbleInv
<1>7. CASE ReadAuth
  <2> DEFINE u == Head(buffered)
  <2>1. stage = "auth" /\ buffered # <<>> /\ Take(AuthOutcome(u))
    BY <1>7 DEF ReadAuth
  <2>2. u \in Unit
    BY <1>1, <2>1 DEF HandshakeTypeOK
  <2>3. u.len \in Int
    <3>1. CASE u \in [kind : {"request", "bytes", "start"}, len : {0}]
      BY <3>1
    <3>2. CASE u \in [kind : {"auth", "other"}, len : Lengths]
      <4>1. u.len \in Lengths
        BY <3>2
      <4> QED
        BY <4>1, BubbleAssumption
    <3> QED
      BY <2>2, <3>1, <3>2 DEF Unit
  <2> HIDE DEF u
  <2>4. /\ AuthOutcome(u) \in {"closed", "panicked", "reply"}
        /\ AuthOutcome(u) # "closed" => u.kind = "auth"
        /\ AuthOutcome(u) = "reply" => u.len >= 48
    BY <2>3 DEF AuthOutcome
  <2>5. /\ stage' = AuthOutcome(u) /\ SessionKept /\ conn' \in BOOLEAN
        /\ UNCHANGED gone /\ HandshakeTypeOK'
        /\ Len(read') = Len(read) + 1 /\ read'[Len(read) + 1] = u
        /\ \A i \in 1..Len(read) : read'[i] = read[i]
    BY <1>1, <2>1, <2>4, TakeKeeps DEF u
  <2>6. StepInv'
    <3> SUFFICES ASSUME protocol = "bubble" PROVE StepInv'
      BY <2>5 DEF StepInv, SessionKept
    <3>1. Len(read) = 1 /\ read[1].kind = "request"
      BY <1>1, <2>1 DEF StepInv, Said
    <3>2. /\ Len(read') = 2 /\ read'[1].kind = "request"
          /\ read'[2] = u
      BY <3>1, <2>5
    <3>3. CASE AuthOutcome(u) = "closed"
      BY <2>5, <3>3 DEF StepInv
    <3>4. CASE AuthOutcome(u) # "closed"
      <4>1. Said(2)'
        BY <2>4, <3>2, <3>4 DEF Said
      <4>2. /\ stage' = "reply" => read'[2].len >= 48
            /\ stage' \in {"panicked", "reply"}
        BY <2>4, <2>5, <3>2, <3>4
      <4> QED
        BY <4>1, <4>2 DEF StepInv
    <3> QED
      BY <3>3, <3>4
  <2> QED
    BY <2>5, <2>6 DEF BubbleInv
<1>8. CASE ReadStart
  <2>1. stage = "start" /\ buffered # <<>>
    BY <1>8 DEF ReadStart
  <2>2. PICK s \in {"streaming", "peek"} :
          Take(s) /\ (s = "streaming" => Head(buffered).kind = "start")
    BY <1>8 DEF ReadStart
  <2>3. /\ stage' = s /\ SessionKept /\ conn' \in BOOLEAN
        /\ UNCHANGED gone /\ HandshakeTypeOK'
        /\ Len(read') = Len(read) + 1
        /\ read'[Len(read) + 1] = Head(buffered)
        /\ \A i \in 1..Len(read) : read'[i] = read[i]
    BY <1>1, <2>1, <2>2, TakeKeeps
  <2>4. StepInv'
    <3> SUFFICES ASSUME protocol = "bubble" PROVE StepInv'
      BY <2>3 DEF StepInv, SessionKept
    <3>1. /\ Len(read) = 2 /\ read[1].kind = "request"
          /\ read[2].kind = "auth" /\ read[2].len >= 48
      BY <1>1, <2>1 DEF StepInv, Said
    <3>2. /\ Len(read') = 3 /\ read'[1].kind = "request"
          /\ read'[2].kind = "auth" /\ read'[2].len >= 48
          /\ read'[3] = Head(buffered)
      BY <3>1, <2>3
    <3>3. CASE s = "peek"
      BY <2>3, <3>3 DEF StepInv
    <3>4. CASE s = "streaming"
      <4>1. Said(3)'
        BY <2>2, <3>2, <3>4 DEF Said
      <4> QED
        BY <2>3, <3>2, <3>4, <4>1 DEF StepInv
    <3> QED
      BY <3>3, <3>4
  <2> QED
    BY <2>3, <2>4 DEF BubbleInv
<1>9. CASE Answer
  <2>1. stage \in {"answer", "reply"}
    BY <1>9 DEF Answer
  <2>2. CASE /\ stage' = IF stage = "answer" THEN "auth" ELSE "start"
             /\ UNCHANGED <<vars, inVars, clock>>
    <3>1. SessionKept /\ UNCHANGED <<conn, gone, arriving, cut, buffered,
                                     read, clock>>
      BY <2>2 DEF SessionKept, vars, chanVars, dataVars, workVars, inVars
    <3>2. HandshakeTypeOK'
      BY <1>1, <2>1, <2>2, <3>1 DEF HandshakeTypeOK, Ahead
    <3>3. StepInv'
      BY <1>1, <2>1, <2>2, <3>1 DEF StepInv, Said, SessionKept
    <3> QED
      BY <3>1, <3>2, <3>3 DEF BubbleInv
  <2> QED
    BY <1>3, <1>9, <2>2 DEF Answer
<1> QED
  BY <1>2, <1>4, <1>5, <1>6, <1>7, <1>8, <1>9, <1>10 DEF ServerStep

-----------------------------------------------------------------------------
(* Both invariants together: the handshake's steps leave the session       *)
(* alone, the session's steps the handshake.                               *)
WholeInv == BubbleInv /\ FlowInv

LEMMA FlowInvKept ==
  ASSUME FlowInv, SessionKept, conn' \in BOOLEAN, gone' \in BOOLEAN
  PROVE  FlowInv'
<1>1. CloseInv' /\ FlowType' /\ OrderInv'
  BY DEF FlowInv, SessionKept, CloseInv, FlowType, OrderInv, NoFailure
<1>2. KeyInv'
  BY DEF FlowInv, SessionKept, KeyInv, AtBound, NoFailure
<1> QED
  BY <1>1, <1>2 DEF FlowInv

LEMMA WholeInvInit == BubbleInit => WholeInv
<1> SUFFICES ASSUME BubbleInit PROVE WholeInv
  OBVIOUS
<1>1. FlowInv /\ protocol \in {"dvrip", "bubble"}
  BY FlowInvInit DEF BubbleInit, Init
<1>2. /\ stage = IF protocol = "bubble" THEN "request" ELSE "streaming"
      /\ arriving = <<>> /\ cut = FALSE /\ buffered = <<>> /\ read = <<>>
      /\ clock = 0
  BY DEF BubbleInit
<1>3. HandshakeTypeOK
  <2>1. <<>> \in Seq(Unit) /\ Len(<<>>) = 0
    OBVIOUS
  <2>2. clock \in 0..ReadTimeout /\ Ahead <= MaxAhead
    BY <1>2, <2>1, BubbleAssumption DEF Ahead
  <2>3. stage \in {"request", "streaming"}
    BY <1>2
  <2> QED
    BY <1>2, <2>1, <2>2, <2>3 DEF HandshakeTypeOK, Handshake
<1>4. StepInv
  BY <1>2 DEF StepInv, Said
<1> QED
  BY <1>1, <1>3, <1>4 DEF WholeInv, BubbleInv

LEMMA WholeInvNext == WholeInv /\ [BubbleNext]_allVars => WholeInv'
<1> SUFFICES ASSUME WholeInv, [BubbleNext]_allVars PROVE WholeInv'
  OBVIOUS
<1>1. BubbleInv /\ FlowInv /\ conn \in BOOLEAN /\ gone \in BOOLEAN
  BY DEF WholeInv, FlowInv, FlowType
<1>2. CASE (\E u \in Unit : Send(u)) \/ SendRest \/ Tick \/ HandshakeLeaves
  <2>1. BubbleInv' /\ SessionKept /\ UNCHANGED conn /\ gone' \in {gone, TRUE}
    BY <1>1, <1>2, OutsideKeeps
  <2> QED
    BY <1>1, <2>1, FlowInvKept DEF WholeInv
<1>3. CASE ServerStep \/ PeekReturns
  <2>1. BubbleInv' /\ SessionKept /\ conn' \in {conn, TRUE, FALSE}
        /\ UNCHANGED gone
    BY <1>1, <1>3, ServerKeeps
  <2> QED
    BY <1>1, <2>1, FlowInvKept DEF WholeInv
<1>4. CASE Stream \/ UNCHANGED allVars
  <2>1. [Next]_vars /\ UNCHANGED bubbleVars
    BY <1>4 DEF Stream, allVars
  <2>2. FlowInv'
    BY <1>1, <2>1, FlowInvNext
  <2>3. UNCHANGED <<stage, arriving, cut, buffered, read, clock>>
    BY <2>1 DEF bubbleVars, inVars
  <2>4. UNCHANGED protocol
    BY <2>1
       DEF Next, Emit, SenderStep, WorkerStep, Receive, Write, SenderChecks,
           SenderCloses, SenderEnds, Wake, StopSender, StopDone, StopConn,
           Unlist, ClientLeaves, ProducerDies, vars, chanVars
  <2>5. HandshakeTypeOK'
    BY <1>1, <2>3 DEF BubbleInv, HandshakeTypeOK, Ahead
  <2>6. StepInv'
    BY <1>1, <2>3, <2>4 DEF BubbleInv, StepInv, Said
  <2> QED
    BY <2>2, <2>5, <2>6 DEF WholeInv, BubbleInv
<1> QED
  BY <1>2, <1>3, <1>4 DEF BubbleNext

LEMMA WholeAlways == BubbleSpec => []WholeInv
<1> QED
  BY WholeInvInit, WholeInvNext, PTL DEF BubbleSpec

(* Session and handshake keep their types, the channel its size, and what  *)
(* a client sent ahead its bound.                                          *)
THEOREM BubbleTypeCorrect == BubbleSpec => []BubbleTypeOK
<1>1. WholeInv => BubbleTypeOK
  BY FlowInvTypes DEF WholeInv, BubbleInv, BubbleTypeOK
<1> QED
  BY <1>1, WholeAlways, PTL

LEMMA KindsOf ==
  ASSUME read \in Seq(Unit)
  PROVE  /\ Said(1) => Kinds = <<"request">>
         /\ Said(2) => Kinds = <<"request", "auth">>
         /\ Said(3) => Kinds = <<"request", "auth", "start">>
<1>1. DOMAIN read = 1..Len(read)
  OBVIOUS
<1>2. ASSUME Said(1) PROVE Kinds = <<"request">>
  BY <1>1, <1>2 DEF Said, Kinds
<1>3. ASSUME Said(2) PROVE Kinds = <<"request", "auth">>
  BY <1>1, <1>3 DEF Said, Kinds
<1>4. ASSUME Said(3) PROVE Kinds = <<"request", "auth", "start">>
  BY <1>1, <1>4 DEF Said, Kinds
<1> QED
  BY <1>2, <1>3, <1>4

(* A stream is only served after a request, an auth and a start packet, in *)
(* this order and with nothing else between, and an answer only stands     *)
(* against what asks for it.                                               *)
THEOREM ServedInStep == BubbleSpec => []InStep
<1>1. WholeInv => InStep
  <2> SUFFICES ASSUME WholeInv PROVE InStep
    OBVIOUS
  <2>1. StepInv /\ read \in Seq(Unit)
    BY DEF WholeInv, BubbleInv, HandshakeTypeOK
  <2> QED
    BY <2>1, KindsOf DEF StepInv, InStep
<1> QED
  BY <1>1, WholeAlways, PTL

(* What is proved of a session alone holds behind the handshake as well.   *)
THEOREM SessionBehindHandshake ==
  BubbleSpec => [](DoneClosedOnce /\ WireOrdered /\ KeyFirst)
<1>1. WholeInv => DoneClosedOnce /\ WireOrdered /\ KeyFirst
  BY DEF WholeInv, FlowInv, CloseInv, DoneClosedOnce, OrderInv, WireOrdered,
         KeyInv, KeyFirst
<1> QED
  BY <1>1, WholeAlways, PTL

=============================================================================
