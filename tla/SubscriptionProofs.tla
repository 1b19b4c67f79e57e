------------------------- MODULE SubscriptionProofs -------------------------
(***************************************************************************)
(* Proof that Serving implements Subscription: every step of the stream    *)
(* and its callers is, for each client, a step of the abstract             *)
(* subscription or none at all.                                            *)
(***************************************************************************)
EXTENDS ServingProofs

Phases == [c \in Consumers |-> PhaseOf(c)]
Feeds  == [c \in Consumers |-> SourcesOf(c)]

LEMMA SubInit == Init => Sub!Init
<1> SUFFICES ASSUME Init PROVE Sub!Init
  OBVIOUS
<1>1. \A c \in Consumers :
        PhaseOf(c) = "new" /\ SourcesOf(c) = {}
  BY DEF Init, StreamInit, PhaseOf, SourcesOf
<1> QED
  BY <1>1 DEF Sub!Init, Init, StreamInit

(* Steps after which every client is where it was.                         *)
LEMMA SubStutter ==
  ASSUME \A c \in Consumers : PhaseOf(c)' = PhaseOf(c)
                              /\ SourcesOf(c)' = SourcesOf(c),
         prod' = prod
  PROVE  UNCHANGED Sub!vars
BY DEF Sub!vars

(* What the invariant says of one consumer, in one place.                  *)
LEMMA ConsumerFacts ==
  ASSUME ServingInv, NEW c \in Consumers
  PROVE  /\ RemovalStage(c) /\ HeldByStream(c)
         /\ kind[c] \in Kinds /\ rm[c] \in RmStates
         /\ listed[c] \in Nat
         /\ stopped[c] \in BOOLEAN
         /\ stopped[c] => senders[c] = {}
         /\ \A t \in receivers : t.prod = prod
BY StreamAssumption, ServedAssumption DEF ServingInv, Lifecycle, StreamInv,
   StreamTypeOK, ThreadTypeOK, StopIsFinal, ReceiversCurrent

LEMMA SubProducer ==
  ASSUME ServingInv, NEW p \in Producers, ProducerStep(p)
  PROVE  [Sub!Next]_Sub!vars
<1>1. \A c \in Consumers :
        PhaseOf(c)' = PhaseOf(c) /\ SourcesOf(c)' = SourcesOf(c)
  BY DEF ProducerStep, Announce, ProducerExit, SetProducer, streamVars,
     PhaseOf, SourcesOf
<1>2. CASE Announce(p)
  <2>1. prod' = p
    BY <1>2 DEF Announce, SetProducer
  <2>2. Sub!Change(p)
    BY <1>1, <2>1 DEF Sub!Change
  <2> QED
    BY <2>2 DEF Sub!Next
<1>3. CASE ProducerExit(p)
  BY <1>1, <1>3, SubStutter DEF ProducerExit, streamVars
<1> QED
  BY <1>2, <1>3 DEF ProducerStep

(* The steps of a handler that leave the stream alone.                     *)
LEMMA SubThread ==
  ASSUME ServingInv, NEW c \in Consumers,
         \/ CheckProducer(c) \/ WriteStart(c) \/ Deliver(c) \/ WriteTimeout(c)
         \/ PumpReturns(c) \/ RtspReturns(c) \/ ClientLeaves(c)
         \/ CtxDone(c) \/ TimerFires(c)
  PROVE  [Sub!Next]_Sub!vars
<1>1. UNCHANGED <<prod, listed, senders, stopped>>
  BY ThreadStep DEF streamVars
<1>2. kind' = kind
  BY DEF CheckProducer, WriteStart, Deliver, WriteTimeout, PumpReturns,
     RtspReturns, ClientLeaves, CtxDone, TimerFires
<1>3. \A d \in Consumers :
        PhaseOf(d)' = PhaseOf(d) /\ SourcesOf(d)' = SourcesOf(d)
  BY <1>1, <1>2 DEF PhaseOf, SourcesOf
<1> QED
  BY <1>1, <1>3, SubStutter

(* Joining is subscribing, to the producer of the moment or to nothing.    *)
LEMMA SubJoin ==
  ASSUME ServingInv, NEW c \in Consumers, Join(c) \/ Redescribe(c)
  PROVE  [Sub!Next]_Sub!vars
<1>1. /\ senders \in [Consumers -> SUBSET Sender]
      /\ listed \in [Consumers -> 0..MaxAdds] /\ MaxAdds \in Nat
  BY StreamAssumption DEF ServingInv, StreamInv, StreamTypeOK
<1>2. UNCHANGED <<prod, kind, stopped>>
  BY DEF Join, Redescribe, AddConsumer, threadVars
<1>3. \A d \in Consumers \ {c} :
        listed'[d] = listed[d] /\ senders'[d] = senders[d]
  BY <1>1 DEF Join, Redescribe, AddConsumer
<1>4. \A d \in Consumers \ {c} :
        PhaseOf(d)' = PhaseOf(d) /\ SourcesOf(d)' = SourcesOf(d)
  BY <1>2, <1>3 DEF PhaseOf, SourcesOf
<1>5. CASE kind[c] = "rtsp"
  <2>1. PhaseOf(c)' = PhaseOf(c) /\ SourcesOf(c)' = SourcesOf(c)
    BY <1>2, <1>5 DEF PhaseOf, SourcesOf
  <2> QED
    BY <1>2, <1>4, <2>1, SubStutter
<1>6. CASE kind[c] # "rtsp"
  <2>1. Join(c)
    BY <1>6 DEF Redescribe
  <2>2. PICK bad \in Failures(kind[c]) : AddConsumer(c, kind[c], bad)
    BY <2>1 DEF Join
  <2>3. listed[c] = 0 /\ senders[c] = {} /\ ~stopped[c] /\ prod # NoProducer
    BY <2>1, ConsumerFacts DEF Join, HeldByStream, NotYetJoined
  <2>4. listed'[c] = 1 /\ senders'[c] = NewSenders(kind[c], bad)
    BY <1>1, <2>2, <2>3 DEF AddConsumer
  <2>5. PhaseOf(c) = "new" /\ PhaseOf(c)' = "active"
    BY <1>2, <1>6, <2>3, <2>4 DEF PhaseOf
  <2>6. SourcesOf(c) = {} /\ SourcesOf(c)' \in {{}, {prod}}
    <3>1. \A s \in NewSenders(kind[c], bad) : s.track.prod = prod
      BY ConsumerFacts, NewSendersType DEF ServingInv, StreamInv, StreamTypeOK
    <3>2. SourcesOf(c)' = {s.track.prod : s \in NewSenders(kind[c], bad)}
      BY <1>2, <1>6, <2>4 DEF SourcesOf
    <3>3. SourcesOf(c) = {}
      BY <2>3 DEF SourcesOf
    <3> QED
      BY <3>1, <3>2, <3>3
  <2>7. Sub!Subscribe(c)
    <3>1. Feeds' = [Feeds EXCEPT ![c] = SourcesOf(c)']
      BY <1>4 DEF Feeds
    <3>2. Phases' = [Phases EXCEPT ![c] = "active"]
      BY <1>4, <2>5 DEF Phases
    <3>3. Phases[c] = "new"
      BY <2>5 DEF Phases
    <3> QED
      BY <1>2, <2>3, <2>6, <3>1, <3>2, <3>3 DEF Sub!Subscribe, Phases, Feeds
  <2> QED
    BY <2>7 DEF Sub!Next
<1> QED
  BY <1>5, <1>6

(* The first Stop silences; a second one changes nothing.                  *)
LEMMA SubStop ==
  ASSUME ServingInv, NEW c \in Consumers, EarlyStop(c) \/ StopStep(c)
  PROVE  [Sub!Next]_Sub!vars
<1>1. /\ stopped' = [stopped EXCEPT ![c] = TRUE]
      /\ senders' = [senders EXCEPT ![c] = {}]
      /\ UNCHANGED <<prod, listed, kind>>
  BY DEF EarlyStop, StopStep, Stop
<1>2. /\ senders \in [Consumers -> SUBSET Sender]
      /\ stopped \in [Consumers -> BOOLEAN]
  BY DEF ServingInv, StreamInv, StreamTypeOK
<1>3. \A d \in Consumers \ {c} :
        PhaseOf(d)' = PhaseOf(d) /\ SourcesOf(d)' = SourcesOf(d)
  BY <1>1, <1>2 DEF PhaseOf, SourcesOf
<1>4. rm[c] \in {"early", "stop"} /\ kind[c] # "rtsp"
  BY ConsumerFacts DEF EarlyStop, StopStep, RemovalStage
<1>5. CASE stopped[c]
  <2>1. stopped' = stopped /\ senders' = senders
    BY <1>1, <1>2, <1>5, ConsumerFacts
  <2>2. \A d \in Consumers :
          PhaseOf(d)' = PhaseOf(d) /\ SourcesOf(d)' = SourcesOf(d)
    BY <1>1, <2>1 DEF PhaseOf, SourcesOf
  <2> QED
    BY <1>1, <2>2, SubStutter
<1>6. CASE ~stopped[c]
  <2>1. pc[c] \notin NotYetJoined
    BY <1>4, ConsumerFacts DEF RemovalStage, SelfRemoving, Watched, Kinds
  <2>2. listed[c] = 1
    BY <1>4, <1>6, <2>1, ConsumerFacts DEF HeldByStream
  <2>3. PhaseOf(c) = "active" /\ PhaseOf(c)' = "silent" /\ SourcesOf(c)' = {}
    BY <1>1, <1>2, <1>4, <1>6, <2>2 DEF PhaseOf, SourcesOf
  <2>4. Sub!Silence(c)
    <3>1. Feeds' = [Feeds EXCEPT ![c] = {}]
      BY <1>3, <2>3 DEF Feeds
    <3>2. Phases' = [Phases EXCEPT ![c] = "silent"] /\ Phases[c] = "active"
      BY <1>3, <2>3 DEF Phases
    <3> QED
      BY <1>1, <3>1, <3>2 DEF Sub!Silence, Phases, Feeds
  <2> QED
    BY <2>4 DEF Sub!Next
<1> QED
  BY <1>5, <1>6

(* Unlisting a silent client ends its subscription; doing it again, after  *)
(* a refired timer, does nothing.                                          *)
LEMMA SubUnlist ==
  ASSUME ServingInv, NEW c \in Consumers, UnlistStep(c)
  PROVE  [Sub!Next]_Sub!vars
<1>1. /\ listed' = [listed EXCEPT ![c] = IF @ = 0 THEN 0 ELSE @ - 1]
      /\ UNCHANGED <<prod, senders, stopped, kind>>
      /\ rm[c] = "unlist"
  BY DEF UnlistStep, Unlist
<1>2. listed \in [Consumers -> 0..MaxAdds] /\ MaxAdds \in Nat
  BY StreamAssumption DEF ServingInv, StreamInv, StreamTypeOK
<1>3. \A d \in Consumers : SourcesOf(d)' = SourcesOf(d)
  BY <1>1 DEF SourcesOf
<1>4. \A d \in Consumers \ {c} : PhaseOf(d)' = PhaseOf(d)
  BY <1>1, <1>2 DEF PhaseOf
<1>5. stopped[c] /\ kind[c] # "rtsp" /\ listed[c] \in {0, 1}
  BY <1>1, ConsumerFacts DEF HeldByStream, RemovalStage
<1>6. CASE listed[c] = 0
  <2>1. PhaseOf(c)' = PhaseOf(c)
    BY <1>1, <1>2, <1>6 DEF PhaseOf
  <2> QED
    BY <1>1, <1>3, <1>4, <2>1, SubStutter
<1>7. CASE listed[c] = 1
  <2>1. PhaseOf(c) = "silent" /\ PhaseOf(c)' = "over"
    BY <1>1, <1>2, <1>5, <1>7 DEF PhaseOf
  <2>2. Sub!Forget(c)
    <3>1. Feeds' = Feeds
      BY <1>3 DEF Feeds
    <3>2. Phases' = [Phases EXCEPT ![c] = "over"] /\ Phases[c] = "silent"
      BY <1>4, <2>1 DEF Phases
    <3> QED
      BY <1>1, <3>1, <3>2 DEF Sub!Forget, Phases, Feeds
  <2> QED
    BY <2>2 DEF Sub!Next
<1> QED
  BY <1>5, <1>6, <1>7

-----------------------------------------------------------------------------
LEMMA SubStep == ServingInv /\ [Next]_vars => [Sub!Next]_Sub!vars
<1> SUFFICES ASSUME ServingInv, [Next]_vars PROVE [Sub!Next]_Sub!vars
  OBVIOUS
<1>1. ASSUME NEW p \in Producers, ProducerStep(p)
      PROVE  [Sub!Next]_Sub!vars
  BY <1>1, SubProducer
<1>2. ASSUME NEW c \in Consumers, ClientStep(c)
      PROVE  [Sub!Next]_Sub!vars
  BY <1>2, SubThread, SubJoin DEF ClientStep
<1>3. ASSUME NEW c \in Consumers, HelperStep(c)
      PROVE  [Sub!Next]_Sub!vars
  BY <1>3, SubThread, SubStop, SubUnlist DEF HelperStep
<1>4. CASE UNCHANGED vars
  <2>1. \A c \in Consumers :
          PhaseOf(c)' = PhaseOf(c) /\ SourcesOf(c)' = SourcesOf(c)
    BY <1>4 DEF vars, threadVars, streamVars, PhaseOf, SourcesOf
  <2> QED
    BY <1>4, <2>1, SubStutter DEF vars, streamVars
<1> QED
  BY <1>1, <1>2, <1>3, <1>4 DEF Next

(* Each client but an RTSP one has the abstract subscription: it is fed by *)
(* the source that was current when it joined, until it is silenced, and   *)
(* is forgotten only then.                                                 *)
THEOREM ServingImplementsSubscription == Spec => SubscriptionSpec
BY SubInit, ServingInvariant, SubStep, PTL DEF Spec, SubscriptionSpec, Sub!Spec
=============================================================================
