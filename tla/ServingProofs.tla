---------------------------- MODULE ServingProofs ----------------------------
(***************************************************************************)
(* Proofs about the stream and all its callers: the safety properties of   *)
(* Serving, that the callers keep the rules of the hub's open              *)
(* specification, and that each client sees the abstract subscription.     *)
(***************************************************************************)
EXTENDS Serving, StreamProofs

ThreadTypeOK ==
  /\ pstate \in [Producers -> PStates]
  /\ kind \in [Consumers -> Served]
  /\ pc \in [Consumers -> PcStates]
  /\ rm \in [Consumers -> RmStates]
  /\ gone \in [Consumers -> BOOLEAN]
  /\ ended \in [Consumers -> BOOLEAN]

(* The inductive invariant: the hub's own, the life of each consumer, and  *)
(* that its senders have one source.                                       *)
ServingInv == StreamInv /\ ThreadTypeOK /\ Lifecycle /\ SingleSource

LEMMA ServingInvInit == Init => ServingInv
<1> SUFFICES ASSUME Init PROVE ServingInv
  OBVIOUS
<1>1. StreamInv
  BY StreamInvInit DEF Init
<1>2. ThreadTypeOK
  BY DEF Init, ThreadTypeOK, PStates, PcStates, RmStates
<1>3. Lifecycle
  BY DEF Init, StreamInit, Lifecycle, RemovalStage, HeldByStream,
     NotYetJoined, SelfRemoving, Watched
<1>4. SingleSource
  BY DEF Init, StreamInit, SingleSource
<1> QED
  BY <1>1, <1>2, <1>3, <1>4 DEF ServingInv

-----------------------------------------------------------------------------
(* The callers keep the hub's rules: no AddConsumer after Stop, no Unlist  *)
(* before it.                                                              *)

LEMMA FailuresType ==
  \A k \in Kinds : Failures(k) \subseteq SUBSET (MediasOf(k) \X receivers)
BY DEF Failures

LEMMA JoinAttaches ==
  ASSUME ServingInv, NEW c \in Consumers, Join(c)
  PROVE  Attach(c)
<1>1. kind[c] \in Kinds
  BY ServedAssumption DEF ServingInv, ThreadTypeOK
<1>2. PICK bad \in Failures(kind[c]) : AddConsumer(c, kind[c], bad)
  BY DEF Join
<1>3. bad \in SUBSET (MediasOf(kind[c]) \X receivers)
  BY <1>1, <1>2, FailuresType
<1>4. ~stopped[c] /\ listed[c] < MaxAdds
  BY StreamAssumption
  DEF Join, ServingInv, Lifecycle, HeldByStream, NotYetJoined
<1> QED
  BY <1>1, <1>2, <1>3, <1>4 DEF Attach

LEMMA RedescribeAttaches ==
  ASSUME ServingInv, NEW c \in Consumers, Redescribe(c)
  PROVE  Attach(c)
<1>1. "rtsp" \in Kinds
  BY DEF Kinds
<1>2. PICK bad \in Failures("rtsp") : AddConsumer(c, "rtsp", bad)
  BY DEF Redescribe
<1>3. bad \in SUBSET (MediasOf("rtsp") \X receivers)
  BY <1>1, <1>2, FailuresType
<1>4. ~stopped[c] /\ listed[c] < MaxAdds
  BY DEF Redescribe, ServingInv, Lifecycle, HeldByStream, RemovalStage
<1> QED
  BY <1>1, <1>2, <1>3, <1>4 DEF Attach

(* The steps that do not touch the stream at all.                          *)
LEMMA ThreadStep ==
  ASSUME NEW c \in Consumers,
         \/ CheckProducer(c) \/ WriteStart(c) \/ Deliver(c) \/ WriteTimeout(c)
         \/ PumpReturns(c) \/ RtspReturns(c) \/ ClientLeaves(c)
         \/ CtxDone(c) \/ TimerFires(c)
  PROVE  UNCHANGED streamVars
BY DEF CheckProducer, WriteStart, Deliver, WriteTimeout, PumpReturns,
   RtspReturns, ClientLeaves, CtxDone, TimerFires

LEMMA ServingImplementsStreamStep ==
  ServingInv /\ [Next]_vars => [StreamNext]_streamVars
<1> SUFFICES ASSUME ServingInv, [Next]_vars
             PROVE  [StreamNext]_streamVars
  OBVIOUS
<1>1. ASSUME NEW p \in Producers, ProducerStep(p)
      PROVE  [StreamNext]_streamVars
  BY <1>1 DEF ProducerStep, Announce, ProducerExit, StreamNext
<1>2. ASSUME NEW c \in Consumers, ClientStep(c)
      PROVE  [StreamNext]_streamVars
  BY <1>2, JoinAttaches, RedescribeAttaches, ThreadStep
  DEF ClientStep, StreamNext
<1>3. ASSUME NEW c \in Consumers, HelperStep(c)
      PROVE  [StreamNext]_streamVars
  <2>1. CASE CtxDone(c) \/ TimerFires(c)
    BY <2>1, ThreadStep
  <2>2. CASE EarlyStop(c) \/ StopStep(c)
    BY <2>2 DEF EarlyStop, StopStep, StreamNext
  <2>3. CASE UnlistStep(c)
    BY <2>3 DEF UnlistStep, StreamNext, ServingInv, Lifecycle, HeldByStream
  <2> QED
    BY <1>3, <2>1, <2>2, <2>3 DEF HelperStep
<1>4. CASE UNCHANGED vars
  BY <1>4 DEF vars
<1> QED
  BY <1>1, <1>2, <1>3, <1>4 DEF Next

-----------------------------------------------------------------------------
(* Type correctness of the threads' variables.                             *)
LEMMA ThreadTypeNext ==
  ASSUME ThreadTypeOK, [Next]_vars
  PROVE  ThreadTypeOK'
<1> USE DEF ThreadTypeOK, PStates, PcStates, RmStates
<1>1. ASSUME NEW p \in Producers, ProducerStep(p)
      PROVE  ThreadTypeOK'
  BY <1>1 DEF ProducerStep, Announce, ProducerExit
<1>2. ASSUME NEW c \in Consumers, ClientStep(c)
      PROVE  ThreadTypeOK'
  <2>1. CASE CheckProducer(c) \/ Join(c) \/ Redescribe(c) \/ WriteStart(c)
    BY <2>1 DEF CheckProducer, Join, Redescribe, WriteStart, threadVars
  <2>2. CASE Deliver(c) \/ WriteTimeout(c) \/ PumpReturns(c)
             \/ RtspReturns(c) \/ ClientLeaves(c)
    BY <2>2 DEF Deliver, WriteTimeout, PumpReturns, RtspReturns, ClientLeaves
  <2> QED
    BY <1>2, <2>1, <2>2 DEF ClientStep
<1>3. ASSUME NEW c \in Consumers, HelperStep(c)
      PROVE  ThreadTypeOK'
  BY <1>3 DEF HelperStep, CtxDone, EarlyStop, TimerFires, StopStep, UnlistStep
<1>4. CASE UNCHANGED vars
  BY <1>4 DEF vars, threadVars
<1> QED
  BY <1>1, <1>2, <1>3, <1>4 DEF Next

-----------------------------------------------------------------------------
(* The life of a consumer, one lemma for each group of actions.            *)

LEMMA ProducerLifecycle ==
  ASSUME ServingInv, NEW p \in Producers, ProducerStep(p)
  PROVE  Lifecycle'
<1>1. UNCHANGED <<kind, pc, rm, listed, senders, stopped>>
  BY DEF ProducerStep, Announce, ProducerExit, SetProducer, streamVars
<1>2. prod' = prod \/ prod' # NoProducer
  BY StreamAssumption DEF ProducerStep, Announce, ProducerExit, SetProducer,
     streamVars
<1> QED
  BY <1>1, <1>2 DEF ServingInv, Lifecycle, RemovalStage, HeldByStream

LEMMA JoinLifecycle ==
  ASSUME ServingInv, NEW c \in Consumers, Join(c) \/ Redescribe(c)
  PROVE  Lifecycle'
<1> SUFFICES ASSUME NEW d \in Consumers
             PROVE  (RemovalStage(d) /\ HeldByStream(d))'
  BY DEF Lifecycle
<1>0. /\ listed \in [Consumers -> 0..MaxAdds] /\ MaxAdds \in Nat
      /\ pc \in [Consumers -> PcStates] /\ kind[c] \in Kinds
      /\ senders \in [Consumers -> SUBSET Sender]
  BY StreamAssumption, ServedAssumption
  DEF ServingInv, StreamInv, StreamTypeOK, ThreadTypeOK
<1>1. RemovalStage(d) /\ HeldByStream(d)
  BY DEF ServingInv, Lifecycle
<1>2. RemovalStage(c) /\ HeldByStream(c)
  BY DEF ServingInv, Lifecycle
<1>3. CASE Join(c)
  <2>1. /\ listed' = [listed EXCEPT ![c] = @ + 1]
        /\ UNCHANGED <<kind, rm, prod, stopped>>
        /\ pc[c] = "checked"
        /\ pc' = [pc EXCEPT ![c] = IF kind[c] = "rtmp" THEN "starting"
                                                       ELSE "streaming"]
        /\ d # c => senders'[d] = senders[d]
    BY <1>0, <1>3 DEF Join, AddConsumer
  <2> QED
    BY <1>0, <1>1, <1>2, <2>1 DEF RemovalStage, HeldByStream, NotYetJoined,
       SelfRemoving, Watched
<1>4. CASE Redescribe(c)
  <2>1. /\ listed' = [listed EXCEPT ![c] = @ + 1]
        /\ UNCHANGED <<kind, pc, rm, prod, stopped>>
        /\ kind[c] = "rtsp" /\ pc[c] = "streaming"
        /\ d # c => senders'[d] = senders[d]
    BY <1>0, <1>4 DEF Redescribe, AddConsumer, threadVars
  <2> QED
    BY <1>0, <1>1, <1>2, <2>1 DEF RemovalStage, HeldByStream, NotYetJoined,
       SelfRemoving, Watched
<1> QED
  BY <1>3, <1>4

LEMMA ThreadLifecycle ==
  ASSUME ServingInv, NEW c \in Consumers,
         \/ CheckProducer(c) \/ WriteStart(c) \/ Deliver(c) \/ WriteTimeout(c)
         \/ PumpReturns(c) \/ RtspReturns(c) \/ ClientLeaves(c)
         \/ CtxDone(c) \/ TimerFires(c)
  PROVE  Lifecycle'
<1> SUFFICES ASSUME NEW d \in Consumers
             PROVE  (RemovalStage(d) /\ HeldByStream(d))'
  BY DEF Lifecycle
<1>1. UNCHANGED <<prod, listed, senders, stopped>>
  BY ThreadStep DEF streamVars
<1>2. /\ RemovalStage(d) /\ HeldByStream(d)
      /\ RemovalStage(c) /\ HeldByStream(c)
  BY DEF ServingInv, Lifecycle
<1>3. pc \in [Consumers -> PcStates] /\ rm \in [Consumers -> RmStates]
  BY DEF ServingInv, ThreadTypeOK
<1> USE <1>1, <1>2, <1>3 DEF RemovalStage, HeldByStream, NotYetJoined,
        SelfRemoving, Watched
<1>4. CASE CheckProducer(c)
  BY <1>4 DEF CheckProducer, HasProducer
<1>5. CASE WriteStart(c)
  BY <1>5 DEF WriteStart
<1>6. CASE Deliver(c) \/ WriteTimeout(c) \/ ClientLeaves(c)
  BY <1>6 DEF Deliver, WriteTimeout, ClientLeaves
<1>7. CASE PumpReturns(c)
  BY <1>7 DEF PumpReturns
<1>8. CASE RtspReturns(c)
  BY <1>8 DEF RtspReturns
<1>9. CASE CtxDone(c)
  BY <1>9 DEF CtxDone
<1>10. CASE TimerFires(c)
  BY <1>10 DEF TimerFires
<1> QED
  BY <1>4, <1>5, <1>6, <1>7, <1>8, <1>9, <1>10

LEMMA RemovalLifecycle ==
  ASSUME ServingInv, NEW c \in Consumers,
         EarlyStop(c) \/ StopStep(c) \/ UnlistStep(c)
  PROVE  Lifecycle'
<1> SUFFICES ASSUME NEW d \in Consumers
             PROVE  (RemovalStage(d) /\ HeldByStream(d))'
  BY DEF Lifecycle
<1>1. /\ RemovalStage(d) /\ HeldByStream(d)
      /\ RemovalStage(c) /\ HeldByStream(c)
  BY DEF ServingInv, Lifecycle
<1>2. /\ pc \in [Consumers -> PcStates] /\ rm \in [Consumers -> RmStates]
      /\ kind[c] \in Kinds
      /\ listed \in [Consumers -> 0..MaxAdds] /\ MaxAdds \in Nat
      /\ senders \in [Consumers -> SUBSET Sender]
      /\ stopped \in [Consumers -> BOOLEAN]
  BY StreamAssumption, ServedAssumption
  DEF ServingInv, StreamInv, StreamTypeOK, ThreadTypeOK
<1> USE <1>1, <1>2 DEF RemovalStage, HeldByStream, NotYetJoined,
        SelfRemoving, Watched, Kinds
<1>3. CASE EarlyStop(c)
  BY <1>3 DEF EarlyStop, Stop
<1>4. CASE StopStep(c)
  BY <1>4 DEF StopStep, Stop
<1>5. CASE UnlistStep(c)
  BY <1>5 DEF UnlistStep, Unlist
<1> QED
  BY <1>3, <1>4, <1>5

-----------------------------------------------------------------------------
(* One source: only Join opens senders of a client that is not RTSP, it    *)
(* opens them all at once, and there were none before.                     *)
LEMMA SingleSourceNext ==
  ASSUME ServingInv, [Next]_vars
  PROVE  SingleSource'
<1> SUFFICES ASSUME NEW d \in Consumers, kind'[d] # "rtsp",
                    NEW s1 \in senders'[d], NEW s2 \in senders'[d]
             PROVE  s1.track.prod = s2.track.prod
  BY DEF SingleSource
<1>1. kind' = kind
  BY DEF Next, ProducerStep, Announce, ProducerExit, ClientStep, CheckProducer,
     Join, Redescribe, WriteStart, Deliver, WriteTimeout, PumpReturns,
     RtspReturns, ClientLeaves, HelperStep, CtxDone, EarlyStop, TimerFires,
     StopStep, UnlistStep, vars, threadVars
<1>2. CASE senders'[d] \subseteq senders[d]
  BY <1>1, <1>2 DEF ServingInv, SingleSource
<1>3. CASE ~(senders'[d] \subseteq senders[d])
  <2>1. senders \in [Consumers -> SUBSET Sender]
    BY DEF ServingInv, StreamInv, StreamTypeOK
  <2>2. Join(d)
    <3>1. \E c \in Consumers : Join(c) \/ Redescribe(c)
      BY <1>3, <2>1, ThreadStep DEF Next, ProducerStep, Announce, ProducerExit,
         SetProducer, ClientStep, HelperStep, EarlyStop, StopStep, UnlistStep,
         Stop, Unlist, vars, streamVars
    <3> QED
      BY <1>1, <1>3, <2>1, <3>1 DEF Join, Redescribe, AddConsumer, threadVars
  <2>3. kind[d] \in Kinds
    BY ServedAssumption DEF ServingInv, ThreadTypeOK
  <2>4. PICK bad \in Failures(kind[d]) : AddConsumer(d, kind[d], bad)
    BY <2>2 DEF Join
  <2>5. senders[d] = {}
    BY <2>2 DEF Join, ServingInv, Lifecycle, HeldByStream, NotYetJoined
  <2>6. senders'[d] = NewSenders(kind[d], bad)
    BY <2>1, <2>4, <2>5 DEF AddConsumer
  <2>7. receivers \subseteq Track /\ \A t \in receivers : t.prod = prod
    BY DEF ServingInv, StreamInv, StreamTypeOK, ReceiversCurrent
  <2> QED
    BY <2>3, <2>6, <2>7, NewSendersType
<1> QED
  BY <1>2, <1>3

-----------------------------------------------------------------------------
LEMMA ServingInvNext == ServingInv /\ [Next]_vars => ServingInv'
<1> SUFFICES ASSUME ServingInv, [Next]_vars PROVE ServingInv'
  OBVIOUS
<1>1. StreamInv'
  BY ServingImplementsStreamStep, StreamInvNext DEF ServingInv
<1>2. ThreadTypeOK'
  BY ThreadTypeNext DEF ServingInv
<1>3. Lifecycle'
  <2>1. CASE UNCHANGED vars
    BY <2>1 DEF vars, threadVars, streamVars, ServingInv, Lifecycle,
       RemovalStage, HeldByStream
  <2> QED
    BY <2>1, ProducerLifecycle, JoinLifecycle, ThreadLifecycle,
       RemovalLifecycle
    DEF Next, ClientStep, HelperStep
<1>4. SingleSource'
  BY SingleSourceNext
<1> QED
  BY <1>1, <1>2, <1>3, <1>4 DEF ServingInv

THEOREM ServingInvariant == Spec => []ServingInv
BY ServingInvInit, ServingInvNext, PTL DEF Spec

-----------------------------------------------------------------------------
(* The shape of the whole state.                                           *)
THEOREM TypeCorrect == Spec => []TypeOK
<1>1. ServingInv => TypeOK
  BY DEF ServingInv, ThreadTypeOK, StreamInv, TypeOK
<1> QED
  BY <1>1, ServingInvariant, PTL

(* Whoever removes a consumer, and however often, nothing of it is left.   *)
THEOREM CleanupComplete == Spec => []FinishedClean
<1>1. ServingInv => FinishedClean
  BY DEF ServingInv, Lifecycle, RemovalStage, HeldByStream, StreamInv,
     StopIsFinal, FinishedClean
<1> QED
  BY <1>1, ServingInvariant, PTL

(* A client that is being served is known to the stream and not stopped.   *)
THEOREM ServedStaysListed == Spec => []ServedIsListed
<1>1. ServingInv => ServedIsListed
  BY DEF ServingInv, Lifecycle, RemovalStage, HeldByStream, ServedIsListed,
     SelfRemoving, NotYetJoined
<1> QED
  BY <1>1, ServingInvariant, PTL

(* No client is fed by two encoders.                                       *)
THEOREM OneSource == Spec => []SingleSource
<1>1. ServingInv => SingleSource
  BY DEF ServingInv
<1> QED
  BY <1>1, ServingInvariant, PTL

(* The callers, all together, behave as the hub's open specification       *)
(* allows: what StreamProofs shows of it holds of the running program.     *)
THEOREM ServingImplementsStream == Spec => StreamSpec
<1>1. Init => StreamInit
  BY DEF Init
<1> QED
  BY <1>1, ServingInvariant, ServingImplementsStreamStep, PTL
  DEF Spec, StreamSpec
=============================================================================
