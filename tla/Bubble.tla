------------------------------- MODULE Bubble -------------------------------
(***************************************************************************)
(* A Bubble connection from accept to end (bubble_server.go): the          *)
(* handshake of handleBubbleConn, steps 1 to 5, and behind it the          *)
(* streaming session of RawSession, whose state takes its first step when  *)
(* step 6 begins.  A connection with protocol "dvrip" is streaming at once *)
(* here: its login is Dvrip.tla.                                           *)
(*                                                                         *)
(* What the client sends is a sequence of units: the HTTP request, other   *)
(* bytes, packets.  The server's bufio.Reader fetches what has arrived, as *)
(* much as it gets, and the handshake reads from there, so a client may    *)
(* send ahead.  The one read deadline, set on accept, is looked at when    *)
(* something is fetched, not when it is read from the buffer.              *)
(*                                                                         *)
(* Abstractions: bytes that are skipped, or that make the request          *)
(* unreadable, are one unit; they hold no sync byte.  A packet is its      *)
(* command and the length of its payload; what is in it nobody looks at.   *)
(* Whether what is there makes up 32 bytes is left open.                   *)
(***************************************************************************)
EXTENDS Integers, RawSession

CONSTANTS
  Lengths,      (* payload lengths of a client's packets                   *)
  ReadTimeout,  (* bubbleTimeout, in ticks                                 *)
  MaxAhead      (* bound: units a client is ahead of the server            *)

ASSUME BubbleAssumption ==
  Lengths \subseteq Int /\ ReadTimeout \in Nat /\ MaxAhead \in Nat

VARIABLES
  stage,      (* handleBubbleConn                                          *)
  arriving,   (* sent and not fetched yet                                  *)
  cut,        (* the last unit sent is not complete yet                    *)
  buffered,   (* fetched and not read yet                                  *)
  read,       (* history: what the handshake has read and not skipped      *)
  clock       (* ticks since accept, up to ReadTimeout                     *)

inVars == <<arriving, cut, buffered, read>>
bubbleVars == <<stage, inVars, clock>>

Unit == [kind : {"request", "bytes", "start"}, len : {0}]
          \cup [kind : {"auth", "other"}, len : Lengths]

(* "peek": the start packet was none, and 32 more bytes are asked for.     *)
Handshake == {"request", "answer", "auth", "reply", "start", "peek"}

BubbleInit ==
  /\ Init
  /\ stage = IF protocol = "bubble" THEN "request" ELSE "streaming"
  /\ arriving = <<>> /\ cut = FALSE /\ buffered = <<>> /\ read = <<>>
  /\ clock = 0

Here     == stage \in Handshake
Ahead    == Len(buffered) + Len(arriving)
Complete == IF cut THEN Len(arriving) - 1 ELSE Len(arriving)
Packet(u) == u.kind \in {"auth", "start", "other"}

-----------------------------------------------------------------------------
(* The client, and time.                                                   *)

Send(u) ==
  /\ Here /\ ~gone /\ ~cut /\ Ahead < MaxAhead
  /\ arriving' = Append(arriving, u) /\ cut' \in BOOLEAN
  /\ UNCHANGED <<vars, stage, buffered, read, clock>>

SendRest ==
  /\ Here /\ ~gone /\ cut /\ cut' = FALSE
  /\ UNCHANGED <<vars, stage, arriving, buffered, read, clock>>

Tick ==
  /\ Here /\ clock < ReadTimeout /\ clock' = clock + 1
  /\ UNCHANGED <<vars, stage, inVars>>

-----------------------------------------------------------------------------
(* Reading.  Peek fetches behind what is buffered, the others instead.     *)
Reading ==
  stage = "peek" \/ (stage \in {"request", "auth", "start"} /\ buffered = <<>>)

(* Mutant: what is there of a packet is taken for all of it.               *)
FetchPartial ==
  /\ Reading /\ clock < ReadTimeout
  /\ \E n \in 1..Len(arriving) :
       /\ buffered' = buffered \o SubSeq(arriving, 1, n)
       /\ arriving' = SubSeq(arriving, n + 1, Len(arriving))
  /\ UNCHANGED <<vars, stage, cut, read, clock>>

(* bufio fetches what the connection has, before the deadline.             *)
Fetch ==
  /\ Reading /\ clock < ReadTimeout
  /\ \E n \in 1..Complete :
       /\ buffered' = buffered \o SubSeq(arriving, 1, n)
       /\ arriving' = SubSeq(arriving, n + 1, Len(arriving))
  /\ UNCHANGED <<vars, stage, cut, read, clock>>

(* The handshake goes on to stage s.  At its end what is unread is left    *)
(* alone for good and the deadlines are cleared, or the connection closed. *)
GoTo(s) ==
  /\ stage' = s /\ conn' = (s # "closed")
  /\ IF s \in Handshake
     THEN buffered' = Tail(buffered) /\ UNCHANGED <<arriving, cut, clock>>
     ELSE buffered' = <<>> /\ arriving' = <<>> /\ cut' = FALSE /\ clock' = 0
  /\ UNCHANGED <<chanVars, spc, dataVars, closes, worker, listed, gone>>

Take(s) == GoTo(s) /\ read' = Append(read, Head(buffered))

(* Mutant: a read without a deadline.                                      *)
FetchFailsEOF ==
  /\ Reading /\ gone /\ Complete = 0
  /\ GoTo("closed") /\ UNCHANGED read

(* Nothing to fetch any more: the deadline passed, or the client is gone.  *)
(* (In "start" the Peek that follows then fails at once as well.)          *)
FetchFails ==
  /\ Reading
  /\ clock = ReadTimeout \/ (gone /\ Complete = 0)
  /\ GoTo("closed") /\ UNCHANGED read

(* Step 1: tcp.ReadRequest, and whether the stream has a producer.         *)
ReadRequest ==
  /\ stage = "request" /\ buffered # <<>>
  /\ \/ Head(buffered).kind = "request" /\ Take("answer")
     \/ Take("closed")

(* Bytes without a sync byte are skipped; a second request is such bytes.  *)
Skip ==
  /\ stage \in {"auth", "start"} /\ buffered # <<>>
  /\ ~Packet(Head(buffered))
  /\ GoTo(stage) /\ UNCHANGED read

(* bubbleReadPacket: the size field counts command and time stamp too.     *)
ValidSize(u) == u.len + 5 >= 5 /\ u.len + 5 <= 1024 * 1024

(* Mutant: the command of the packet is not looked at.                     *)
AuthAny(u) ==
  IF ~ValidSize(u) \/ u.len < 44 THEN "closed"
  ELSE IF u.len < 48 THEN "panicked" ELSE "reply"

(* Step 4, bubbleReadAuth: 44 bytes are asked for and 48 are cut up; Go    *)
(* panics when they are not there, and a panic here ends the process.      *)
AuthOutcome(u) ==
  IF ~ValidSize(u) \/ u.kind # "auth" \/ u.len < 44 THEN "closed"
  ELSE IF u.len < 48 THEN "panicked" ELSE "reply"

ReadAuth ==
  /\ stage = "auth" /\ buffered # <<>> /\ Packet(Head(buffered))
  /\ Take(AuthOutcome(Head(buffered)))

(* Step 5, and the deadlines are cleared; step 6 adds the consumer.        *)
ReadStart ==
  /\ stage = "start" /\ buffered # <<>> /\ Packet(Head(buffered))
  /\ LET u == Head(buffered)
     IN Take(IF ValidSize(u) /\ u.kind = "start" THEN "streaming"
             ELSE "peek")

(* After another packet, or one without a valid size, whose body is then   *)
(* still unread, r.Peek(32) returns when there are 32 bytes.  Until then   *)
(* it fetches, and ends as a fetch that fails.                             *)
PeekReturns ==
  /\ stage = "peek"
  /\ \/ buffered # <<>> \/ ~ValidSize(read[Len(read)])
     \/ arriving # <<>> /\ clock < ReadTimeout
  /\ GoTo("closed") /\ UNCHANGED read

(* Steps 2 and 3, the HTTP answer and the XML, and the end of step 4, the  *)
(* answer to the auth packet: written, or not within the write deadline.   *)
Answer ==
  /\ stage \in {"answer", "reply"}
  /\ \/ /\ stage' = IF stage = "answer" THEN "auth" ELSE "start"
        /\ UNCHANGED <<vars, inVars, clock>>
     \/ GoTo("closed") /\ UNCHANGED read

-----------------------------------------------------------------------------
ServerStep ==
  Fetch \/ FetchFails \/ ReadRequest \/ Skip \/ ReadAuth \/ ReadStart \/ Answer

(* Step 6: bubbleStreamData until it returns, which closes the connection. *)
Stream == stage = "streaming" /\ Next /\ UNCHANGED bubbleVars

HandshakeLeaves ==
  /\ Here /\ ~gone /\ gone' = TRUE
  /\ UNCHANGED <<chanVars, spc, dataVars, closes, workVars, bubbleVars>>

BubbleNext ==
  \/ \E u \in Unit : Send(u)
  \/ SendRest \/ Tick
  \/ ServerStep \/ PeekReturns
  \/ Stream \/ HandshakeLeaves

allVars == <<vars, bubbleVars>>
BubbleSpec == BubbleInit /\ [][BubbleNext]_allVars

(* The handler and the goroutines of the session run, and time passes.     *)
(* Nobody has to send 32 bytes.  A producer keeps sending as long as it    *)
(* lives: again and again a key frame finds room in the channel.           *)
BubbleFairSpec ==
  /\ BubbleSpec
  /\ WF_allVars(ServerStep) /\ WF_allVars(Tick)
  /\ WF_allVars(stage = "streaming" /\ SenderStep /\ UNCHANGED bubbleVars)
  /\ WF_allVars(stage = "streaming" /\ WorkerStep /\ UNCHANGED bubbleVars)
  /\ SF_allVars(stage = "streaming" /\ Len(queue) < Cap /\ Emit("key")
                  /\ UNCHANGED bubbleVars)

-----------------------------------------------------------------------------
(* The shape of the state, the session's included.                         *)
HandshakeTypeOK ==
  /\ stage \in Handshake \cup {"streaming", "closed", "panicked"}
  /\ arriving \in Seq(Unit) /\ buffered \in Seq(Unit) /\ read \in Seq(Unit)
  /\ cut \in BOOLEAN /\ (cut => arriving # <<>>)
  /\ clock \in 0..ReadTimeout /\ Ahead <= MaxAhead

BubbleTypeOK == TypeOK /\ HandshakeTypeOK

(* Client and server agree where they are, however the client's bytes were *)
(* cut, sent ahead or mixed with others: a stream is only served after a   *)
(* request, an auth and a start packet in this order and no other packet,  *)
(* and an answer only stands against what asks for it.                     *)
Kinds == [i \in DOMAIN read |-> read[i].kind]

InStep ==
  protocol = "bubble" =>
    /\ stage \in {"answer", "auth"} => Kinds = <<"request">>
    /\ stage \in {"reply", "start"} => Kinds = <<"request", "auth">>
    /\ stage = "streaming" => Kinds = <<"request", "auth", "start">>
    /\ stage \in {"reply", "start", "streaming"} => read[2].len >= 48

(* bubble_server.go: "client sends size=44 in the size field, so payload   *)
(* here is 44 bytes": an auth packet of that length is taken and answered. *)
AuthTaken ==
  [][(/\ Len(read) = 1 /\ Len(read') = 2
      /\ read'[2] = [kind |-> "auth", len |-> 44]) => stage' = "reply"]_allVars

(* A handshake ends, whatever the client does: silent, slow, stuck in the  *)
(* middle of a packet, gone, sending bytes to skip without end, or silent  *)
(* after a wrong start packet, the one deadline covers all of it.          *)
HandshakeEnds == []<>(stage \notin Handshake)

(* A client that left, at whatever point of the connection, is let go and  *)
(* nothing of its session stays: the connection is closed, the worker has  *)
(* returned, the sender goroutine has drained its channel and ended, and   *)
(* the stream has forgotten the consumer.  done is only closed by a failed *)
(* write, so two kinds of client stay for ever: one without a track, and   *)
(* one whose producer died and left nothing in the channel to write.       *)
Trackless == stage = "streaming" /\ spc = "none"

Starved ==
  /\ stage = "streaming" /\ ~fed /\ spc = "receive" /\ queue = <<>>
  /\ worker = "waiting"

ConnectionEnds ==
  gone ~>
    [](\/ stage = "panicked" \/ Trackless \/ Starved
       \/ ~conn /\ (stage = "streaming" =>
                      worker = "returned" /\ spc = "over" /\ ~listed))
=============================================================================
