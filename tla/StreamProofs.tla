---------------------------- MODULE StreamProofs ----------------------------
(***************************************************************************)
(* Proofs about the hub: what its operations preserve, whoever calls them, *)
(* for every set of producers and consumers and every offer.               *)
(***************************************************************************)
EXTENDS Stream, TLAPS

(* Every kind of consumer asks for medias of the two kinds, with codecs    *)
(* that are codecs.                                                        *)
LEMMA MediasType == \A k \in Kinds : MediasOf(k) \subseteq Media
<1>1. ASSUME NEW names \in SUBSET CodecNames
      PROVE  Any(names) \subseteq Codec
  BY DEF Any, Codec
<1>2. ASSUME NEW names \in SUBSET CodecNames
      PROVE  Video(names) \in Media /\ Audio(names) \in Media
  BY <1>1 DEF Video, Audio, Media
<1>3. /\ {"H264", "H265"} \in SUBSET CodecNames
      /\ {"H264"} \in SUBSET CodecNames
      /\ {"AAC", "PCMA", "PCMU", "OPUS"} \in SUBSET CodecNames
      /\ {"AAC"} \in SUBSET CodecNames
  BY DEF CodecNames
<1>4. /\ Video({"H264", "H265"}) \in Media /\ Video({"H264"}) \in Media
      /\ Audio({"AAC", "PCMA", "PCMU", "OPUS"}) \in Media
      /\ Audio({"AAC"}) \in Media
  BY <1>2, <1>3
<1> QED
  BY <1>4 DEF Kinds, MediasOf

(* The tracks of a producer are tracks.                                    *)
LEMMA TracksType == \A p \in Producers : TracksOf(p) \subseteq Track
BY StreamAssumption DEF TracksOf, Track

(* What AddConsumer joins: senders of the consumer's own medias, each to a *)
(* receiver the stream has.                                                *)
LEMMA NewSendersType ==
  ASSUME NEW k \in Kinds, NEW bad, receivers \subseteq Track
  PROVE  /\ NewSenders(k, bad) \subseteq Sender
         /\ \A s \in NewSenders(k, bad) : s.track \in receivers
BY MediasType DEF NewSenders, Sender

(* The first-match rule: among receivers of one producer, a media is       *)
(* joined to at most one.                                                  *)
LEMMA OneTrackPerMedia ==
  ASSUME NEW k \in Kinds, NEW bad, receivers \subseteq Track,
         \A t \in receivers : t.prod = prod,
         NEW s1 \in NewSenders(k, bad), NEW s2 \in NewSenders(k, bad),
         s1.media = s2.media
  PROVE  s1 = s2
<1>1. s1.track \in receivers /\ s2.track \in receivers
  BY NewSendersType
<1>2. s1.track.n <= s2.track.n /\ s2.track.n <= s1.track.n
  BY <1>1 DEF NewSenders
<1>3. s1.track = s2.track
  BY <1>1, <1>2 DEF Track
<1> QED
  BY <1>3, NewSendersType DEF Sender

-----------------------------------------------------------------------------
(* The inductive invariant: the three safety properties support each other *)
(* and the shape of the state, no more is needed.                          *)
StreamInv ==
  StreamTypeOK /\ ReceiversCurrent /\ NoOrphanSender /\ StopIsFinal

LEMMA StreamInvInit == StreamInit => StreamInv
BY StreamAssumption DEF StreamInit, StreamInv, StreamTypeOK, ReceiversCurrent,
   NoOrphanSender, StopIsFinal

(* SetProducer resets the receivers, so they are the new producer's.       *)
LEMMA SetProducerInv ==
  ASSUME StreamInv, NEW p \in Producers, SetProducer(p)
  PROVE  StreamInv'
<1>1. PICK lost \in SUBSET TracksOf(p) :
        prod' = p /\ receivers' = TracksOf(p) \ lost
  BY DEF SetProducer
<1>2. UNCHANGED <<listed, senders, stopped>>
  BY DEF SetProducer
<1>3. receivers' \subseteq TracksOf(p)
  BY <1>1
<1>4. StreamTypeOK'
  BY <1>1, <1>2, <1>3, TracksType DEF StreamInv, StreamTypeOK
<1>5. ReceiversCurrent'
  <2>1. \A t \in TracksOf(p) : t.prod = p
    BY DEF TracksOf
  <2>2. p # NoProducer
    BY StreamAssumption
  <2>3. TracksOf(prod)' = TracksOf(p)
    BY <1>1 DEF TracksOf
  <2> QED
    BY <1>1, <1>3, <2>1, <2>2, <2>3 DEF ReceiversCurrent
<1>6. NoOrphanSender' /\ StopIsFinal'
  BY <1>2 DEF StreamInv, NoOrphanSender, StopIsFinal
<1> QED
  BY <1>4, <1>5, <1>6 DEF StreamInv

(* AddConsumer lists the consumer in the same critical section in which it *)
(* opens its senders.                                                      *)
LEMMA AddConsumerInv ==
  ASSUME StreamInv, NEW c \in Consumers, NEW k \in Kinds, NEW bad,
         ~stopped[c], listed[c] < MaxAdds, AddConsumer(c, k, bad)
  PROVE  StreamInv'
<1> USE DEF StreamInv, AddConsumer
<1>1. receivers \subseteq Track
  BY DEF StreamTypeOK
<1>2. NewSenders(k, bad) \subseteq Sender
  BY <1>1, NewSendersType
<1>3. listed' \in [Consumers -> 0..MaxAdds]
  BY StreamAssumption DEF StreamTypeOK
<1>4. senders' \in [Consumers -> SUBSET Sender]
  BY <1>2 DEF StreamTypeOK
<1>5. StreamTypeOK'
  BY <1>3, <1>4 DEF StreamTypeOK
<1>6. ReceiversCurrent'
  BY DEF ReceiversCurrent, TracksOf
<1>7. NoOrphanSender'
  BY StreamAssumption DEF NoOrphanSender, StreamTypeOK
<1>8. StopIsFinal'
  BY DEF StopIsFinal, StreamTypeOK
<1> QED
  BY <1>5, <1>6, <1>7, <1>8

LEMMA StopInv ==
  ASSUME StreamInv, NEW c \in Consumers, Stop(c)
  PROVE  StreamInv'
BY DEF StreamInv, Stop, StreamTypeOK, ReceiversCurrent, TracksOf,
   NoOrphanSender, StopIsFinal

(* The half of RemoveConsumer that takes the lock is safe because the      *)
(* other half has run: there is no sender left to orphan.                  *)
LEMMA UnlistInv ==
  ASSUME StreamInv, NEW c \in Consumers, stopped[c], Unlist(c)
  PROVE  StreamInv'
<1>1. StreamTypeOK'
  BY StreamAssumption DEF StreamInv, Unlist, StreamTypeOK
<1>2. ReceiversCurrent' /\ StopIsFinal'
  BY DEF StreamInv, Unlist, ReceiversCurrent, TracksOf, StopIsFinal
<1>3. NoOrphanSender'
  BY DEF StreamInv, Unlist, NoOrphanSender, StopIsFinal, StreamTypeOK
<1> QED
  BY <1>1, <1>2, <1>3 DEF StreamInv

LEMMA StreamInvNext == StreamInv /\ [StreamNext]_streamVars => StreamInv'
<1> SUFFICES ASSUME StreamInv, [StreamNext]_streamVars
             PROVE  StreamInv'
  OBVIOUS
<1>1. CASE \E p \in Producers : SetProducer(p)
  BY <1>1, SetProducerInv
<1>2. ASSUME NEW c \in Consumers, Attach(c)
      PROVE  StreamInv'
  BY <1>2, AddConsumerInv DEF Attach
<1>3. ASSUME NEW c \in Consumers, Stop(c)
      PROVE  StreamInv'
  BY <1>3, StopInv
<1>4. ASSUME NEW c \in Consumers, stopped[c] /\ Unlist(c)
      PROVE  StreamInv'
  BY <1>4, UnlistInv
<1>5. CASE UNCHANGED streamVars
  BY <1>5 DEF streamVars, StreamInv, StreamTypeOK, ReceiversCurrent, TracksOf,
     NoOrphanSender, StopIsFinal
<1> QED
  BY <1>1, <1>2, <1>3, <1>4, <1>5 DEF StreamNext

THEOREM StreamInvariant == StreamSpec => []StreamInv
BY StreamInvInit, StreamInvNext, PTL DEF StreamSpec

-----------------------------------------------------------------------------
(* The shape of the hub's state, whoever calls it.                         *)
THEOREM StreamTypeCorrect == StreamSpec => []StreamTypeOK
<1>1. StreamInv => StreamTypeOK
  BY DEF StreamInv
<1> QED
  BY <1>1, StreamInvariant, PTL

(* A new consumer is always offered tracks of the newest producer only.    *)
THEOREM ReceiversAlwaysCurrent == StreamSpec => []ReceiversCurrent
<1>1. StreamInv => ReceiversCurrent
  BY DEF StreamInv
<1> QED
  BY <1>1, StreamInvariant, PTL

(* No producer feeds a consumer that the stream has forgotten.             *)
THEOREM NeverOrphanSender == StreamSpec => []NoOrphanSender
<1>1. StreamInv => NoOrphanSender
  BY DEF StreamInv
<1> QED
  BY <1>1, StreamInvariant, PTL

(* AddConsumer joins each media to one track of one producer.              *)
LEMMA AttachStepNext ==
  ASSUME StreamInv, [StreamNext]_streamVars, NEW c \in Consumers
  PROVE  LET new == senders'[c] \ senders[c]
         IN /\ \A s1, s2 \in new : s1.media = s2.media => s1 = s2
            /\ \A s \in new : s.track.prod = prod
<1> DEFINE new == senders'[c] \ senders[c]
<1>1. CASE new = {}
  BY <1>1
<1>2. CASE new # {}
  <2>1. PICK d \in Consumers : Attach(d)
    BY <1>2 DEF StreamNext, streamVars, SetProducer, Stop, Unlist, StreamInv,
       StreamTypeOK
  <2>2. PICK k \in Kinds :
          \E bad \in SUBSET (MediasOf(k) \X receivers) : AddConsumer(d, k, bad)
    BY <2>1 DEF Attach
  <2>a. PICK bad \in SUBSET (MediasOf(k) \X receivers) : AddConsumer(d, k, bad)
    BY <2>2
  <2>3. new \subseteq NewSenders(k, bad)
    BY <2>a, <1>2 DEF AddConsumer, StreamInv, StreamTypeOK
  <2>4. receivers \subseteq Track /\ \A t \in receivers : t.prod = prod
    BY DEF StreamInv, StreamTypeOK, ReceiversCurrent
  <2>5. \A s1, s2 \in new : s1.media = s2.media => s1 = s2
    BY <2>3, <2>4, OneTrackPerMedia
  <2>6. \A s \in new : s.track.prod = prod
    BY <2>3, <2>4, NewSendersType
  <2> QED
    BY <2>5, <2>6
<1> QED
  BY <1>1, <1>2

THEOREM AttachCorrect == StreamSpec => AttachStep
<1>1. StreamInv /\ [StreamNext]_streamVars =>
        [\A c \in Consumers :
           LET new == senders'[c] \ senders[c]
           IN /\ \A s1, s2 \in new : s1.media = s2.media => s1 = s2
              /\ \A s \in new : s.track.prod = prod]_streamVars
  BY AttachStepNext
<1> QED
  BY <1>1, StreamInvariant, PTL DEF StreamSpec, AttachStep
=============================================================================
