------------------------------- MODULE Stream -------------------------------
(***************************************************************************)
(* The hub of the camera (stream.go): one Stream connects the producer     *)
(* that was announced last to any number of consumers.  Every operation is *)
(* one critical section under Stream.mu, except RemoveConsumer, which      *)
(* stops the consumer before it takes the lock: its two halves are the     *)
(* actions Stop and Unlist.                                                *)
(*                                                                         *)
(* This module has the operations and an open specification in which any   *)
(* caller runs any of them; Serving.tla puts the real callers on top.      *)
(*                                                                         *)
(* Abstractions: a receiver is a track, i.e. a position in what its        *)
(* producer offered; Stream.consumers is never walked except to find one   *)
(* entry, so it is a counter per consumer.                                 *)
(***************************************************************************)
EXTENDS Naturals, Sequences

CONSTANTS
  Producers,    (* RTSP connections that may ANNOUNCE this stream          *)
  Consumers,    (* consumer objects, one per client request                *)
  NoProducer,   (* the nil Stream.prod                                     *)
  Offer,        (* Offer[p]: the codecs of p's medias, in SDP order        *)
  MaxAdds       (* bound: AddConsumer calls for one consumer object        *)

(* The codec names this code knows, and one for all that nobody asks for.  *)
CodecNames == {"H264", "H265", "AAC", "PCMA", "PCMU", "OPUS", "other"}
Codec == [name : CodecNames, rate : Nat]
Media == [kind : {"video", "audio"}, codecs : SUBSET Codec]

ASSUME StreamAssumption ==
  /\ NoProducer \notin Producers
  /\ Offer \in [Producers -> Seq(Codec)]
  /\ MaxAdds \in Nat \ {0}

VARIABLES
  prod,         (* Stream.prod: never cleared once set                     *)
  receivers,    (* Stream.receivers: a set of tracks                       *)
  listed,       (* listed[c]: occurrences of c in Stream.consumers         *)
  senders,      (* senders[c]: the open senders of c, a set of Sender      *)
  stopped       (* stopped[c]: Consumer.Stop was called on c               *)

streamVars == <<prod, receivers, listed, senders, stopped>>

Track  == [prod : Producers, n : Nat]
Sender == [media : Media, track : Track]

TracksOf(p) == {[prod |-> p, n |-> n] : n \in DOMAIN Offer[p]}
CodecOf(t)  == Offer[t.prod][t.n]

-----------------------------------------------------------------------------
(* What each kind of consumer asks for: its GetMedias.  A codec without a  *)
(* clock rate is a wildcard.  (rtsp and raw are in the code; the others    *)
(* are the defaults of the library's consumers.)                           *)

Kinds == {"rtsp",    \* RTSP player: rtsp.Conn
          "raw",     \* DVRIP and Bubble connections
          "rtmp",    \* RTMP player: flv consumer written to the RTMP conn
          "pull",    \* HTTP FLV and MPEG-TS responses
          "frame",   \* HTTP keyframe: one frame, then done
          "mp4",     \* HTTP MP4, stopped by a context watcher
          "hls"}     \* HLS session, stopped by its keep-alive timer

Any(names) == {[name |-> x, rate |-> 0] : x \in names}
Video(names) == [kind |-> "video", codecs |-> Any(names)]
Audio(names) == [kind |-> "audio", codecs |-> Any(names)]

MediasOf(k) ==
  CASE k = "rtsp" -> {Video({"H264", "H265"}),
                      Audio({"AAC", "PCMA", "PCMU", "OPUS"})}
    [] k = "raw"   -> {Video({"H264"})}
    [] k = "frame" -> {Video({"H264", "H265"})}
    [] k = "rtmp"  -> {Video({"H264"}), Audio({"AAC"})}
    [] OTHER       -> {Video({"H264", "H265"}), Audio({"AAC"})}

-----------------------------------------------------------------------------
(* core.GetKind and core.Codec.Match of the go2rtc library.                *)
GetKind(name) == IF name \in {"H264", "H265"} THEN "video" ELSE "audio"
Match(prodCodec, consCodec) ==
  /\ prodCodec.name = consCodec.name
  /\ consCodec.rate \in {0, prodCodec.rate}

(* A track a media of the consumer can take: same kind, and one of the     *)
(* media's codecs matches the producer's.                                  *)
Takes(media, t) ==
  /\ media.kind = GetKind(CodecOf(t).name)
  /\ \E cc \in media.codecs : Match(CodecOf(t), cc)

(* Mutant: without the break, a media is joined to every track it takes.   *)
NewSendersAll(k, bad) ==
  {s \in [media : MediasOf(k), track : receivers] :
     Takes(s.media, s.track) /\ <<s.media, s.track>> \notin bad}

(* The senders one AddConsumer call creates: for every media, the first    *)
(* receiver it can take whose AddTrack does not fail (<<media, track>> in  *)
(* bad is an AddTrack that returns an error).                              *)
NewSenders(k, bad) ==
  LET Works(m, t) == Takes(m, t) /\ <<m, t>> \notin bad
  IN {s \in [media : MediasOf(k), track : receivers] :
        /\ Works(s.media, s.track)
        /\ \A t \in receivers : Works(s.media, t) => s.track.n <= t.n}

HasProducer == prod # NoProducer

(* Mutant: without receivers = nil.                                        *)
SetProducerKeeps(p) ==
  \E lost \in SUBSET TracksOf(p) :
    /\ prod' = p
    /\ receivers' = receivers \cup (TracksOf(p) \ lost)
    /\ UNCHANGED <<listed, senders, stopped>>

(* SetProducer: the receivers are rebuilt from the new producer; a track   *)
(* whose GetTrack fails (in lost) is skipped.  Consumers are not touched.  *)
SetProducer(p) ==
  \E lost \in SUBSET TracksOf(p) :
    /\ prod' = p
    /\ receivers' = TracksOf(p) \ lost
    /\ UNCHANGED <<listed, senders, stopped>>

(* AddConsumer: it registers the consumer and returns nil whether or not   *)
(* any track matched.                                                      *)
AddConsumer(c, k, bad) ==
  /\ senders' = [senders EXCEPT ![c] = @ \cup NewSenders(k, bad)]
  /\ listed' = [listed EXCEPT ![c] = @ + 1]
  /\ UNCHANGED <<prod, receivers, stopped>>

(* Mutant: Stop forgets the senders.                                       *)
StopOpen(c) ==
  /\ stopped' = [stopped EXCEPT ![c] = TRUE]
  /\ UNCHANGED <<prod, receivers, listed, senders>>

(* RemoveConsumer, before the lock: Consumer.Stop closes the senders.      *)
Stop(c) ==
  /\ stopped' = [stopped EXCEPT ![c] = TRUE]
  /\ senders' = [senders EXCEPT ![c] = {}]
  /\ UNCHANGED <<prod, receivers, listed>>

(* Mutant: one entry less, whether or not the consumer was found.          *)
UnlistUnfound(c) ==
  /\ listed' = [listed EXCEPT ![c] = @ - 1]
  /\ UNCHANGED <<prod, receivers, senders, stopped>>

(* RemoveConsumer, under the lock: drop the first occurrence, if any.      *)
Unlist(c) ==
  /\ listed' = [listed EXCEPT ![c] = IF @ = 0 THEN 0 ELSE @ - 1]
  /\ UNCHANGED <<prod, receivers, senders, stopped>>

-----------------------------------------------------------------------------
(* The open specification.  Callers keep two rules: a consumer is not      *)
(* added after its Stop, and it is unlisted only after its Stop.           *)

StreamInit ==
  /\ prod = NoProducer
  /\ receivers = {}
  /\ listed = [c \in Consumers |-> 0]
  /\ senders = [c \in Consumers |-> {}]
  /\ stopped = [c \in Consumers |-> FALSE]

Attach(c) ==
  /\ ~stopped[c]
  /\ listed[c] < MaxAdds
  /\ \E k \in Kinds : \E bad \in SUBSET (MediasOf(k) \X receivers) :
       AddConsumer(c, k, bad)

StreamNext ==
  \/ \E p \in Producers : SetProducer(p)
  \/ \E c \in Consumers :
       \/ Attach(c)
       \/ Stop(c)
       \/ stopped[c] /\ Unlist(c)

StreamSpec == StreamInit /\ [][StreamNext]_streamVars

-----------------------------------------------------------------------------
(* The shape of the state.                                                 *)
StreamTypeOK ==
  /\ prod \in Producers \cup {NoProducer}
  /\ receivers \subseteq Track
  /\ listed \in [Consumers -> 0..MaxAdds]
  /\ senders \in [Consumers -> SUBSET Sender]
  /\ stopped \in [Consumers -> BOOLEAN]

(* The receivers a new consumer will be joined to all come from the        *)
(* producer announced last, never from one it replaced (SetProducer resets *)
(* Stream.receivers).                                                      *)
ReceiversCurrent ==
  /\ \A t \in receivers : t.prod = prod /\ t \in TracksOf(prod)
  /\ prod = NoProducer => receivers = {}

(* A consumer that is no longer in Stream.consumers is fed by nobody: the  *)
(* order of RemoveConsumer (Stop first, then the list) leaves no sender    *)
(* attached to a producer on behalf of a consumer the stream has           *)
(* forgotten.                                                              *)
NoOrphanSender == \A c \in Consumers : senders[c] # {} => listed[c] > 0

(* Stop is final: a consumer that was stopped is never fed again.          *)
StopIsFinal == \A c \in Consumers : stopped[c] => senders[c] = {}

(* One AddConsumer call joins each media to at most one track, and only to *)
(* tracks of the producer of that moment: a consumer that is added while   *)
(* the producer changes sees the old tracks or the new, never both.        *)
AttachStep ==
  [][\A c \in Consumers :
       LET new == senders'[c] \ senders[c]
       IN /\ \A s1, s2 \in new : s1.media = s2.media => s1 = s2
          /\ \A s \in new : s.track.prod = prod]_streamVars
=============================================================================
