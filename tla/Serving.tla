------------------------------ MODULE Serving ------------------------------
(***************************************************************************)
(* Everybody who calls one Stream, as it runs: the RTSP connections that   *)
(* announce it (ffmpeg, restarted when it dies) and one goroutine per      *)
(* client, with the helpers that clean up after it.                        *)
(*                                                                         *)
(*   raw, rtmp, pull, frame  the handler itself calls RemoveConsumer when  *)
(*                           its pump ends;                                *)
(*   mp4                     a goroutine waiting for the request context   *)
(*                           stops the consumer and removes it;            *)
(*   hls                     the keep-alive timer removes it;              *)
(*   rtsp                    nobody does.                                  *)
(*                                                                         *)
(* pc[c] is where c's handler is (for hls, the goroutine in Run); rm[c] is *)
(* where the RemoveConsumer call on c is, whoever makes it.                *)
(***************************************************************************)
EXTENDS Stream

CONSTANT Served   (* the kinds of client requests that may arrive          *)

ASSUME ServedAssumption == Served \subseteq Kinds

VARIABLES
  pstate,   (* pstate[p]: the RTSP connection of p                         *)
  kind,     (* kind[c]: what c asks for, fixed by its request              *)
  pc,       (* pc[c]: the handler of c                                     *)
  rm,       (* rm[c]: the RemoveConsumer call on c                         *)
  gone,     (* gone[c]: the client went away                               *)
  ended     (* ended[c]: c's pump ended (WriteTo returned / done closed)   *)

threadVars == <<pstate, kind, pc, rm, gone, ended>>
vars == <<streamVars, threadVars>>

PStates  == {"unborn", "live", "dead"}
PcStates == {"idle", "checked", "refused", "starting", "streaming",
             "leaving", "returned"}
RmStates == {"none", "early", "stop", "unlist", "over"}

SelfRemoving == {"raw", "rtmp", "pull", "frame"}
Watched      == {"mp4", "hls"}

Init ==
  /\ StreamInit
  /\ pstate = [p \in Producers |-> "unborn"]
  /\ kind \in [Consumers -> Served]
  /\ pc = [c \in Consumers |-> "idle"]
  /\ rm = [c \in Consumers |-> "none"]
  /\ gone = [c \in Consumers |-> FALSE]
  /\ ended = [c \in Consumers |-> FALSE]

-----------------------------------------------------------------------------
(* Producers.                                                              *)

(* ffmpeg's RTSP connection sends ANNOUNCE.  A restart is a new connection. *)
Announce(p) ==
  /\ pstate[p] = "unborn"
  /\ SetProducer(p)
  /\ pstate' = [pstate EXCEPT ![p] = "live"]
  /\ UNCHANGED <<kind, pc, rm, gone, ended>>

(* Its connection ends.  handleRTSP closes it and tells the stream         *)
(* nothing: Stream.prod and the receivers stay.                            *)
ProducerExit(p) ==
  /\ pstate[p] = "live"
  /\ pstate' = [pstate EXCEPT ![p] = "dead"]
  /\ UNCHANGED <<streamVars, kind, pc, rm, gone, ended>>

-----------------------------------------------------------------------------
(* A client's handler.                                                     *)

(* The first thing every handler does.  An RTSP client that was refused    *)
(* may send DESCRIBE again on the same connection.                         *)
CheckProducer(c) ==
  /\ pc[c] = "idle" \/ (pc[c] = "refused" /\ kind[c] = "rtsp")
  /\ pc' = [pc EXCEPT ![c] = IF HasProducer THEN "checked" ELSE "refused"]
  /\ UNCHANGED <<streamVars, pstate, kind, rm, gone, ended>>

(* The AddTrack calls that may fail: those of DVRIP and Bubble never do.   *)
Failures(k) == IF k = "raw" THEN {{}} ELSE SUBSET (MediasOf(k) \X receivers)

(* The handler adds its consumer.  The producer it saw in CheckProducer    *)
(* may have been replaced, or be gone, by now.                             *)
Join(c) ==
  /\ pc[c] = "checked"
  /\ \E bad \in Failures(kind[c]) : AddConsumer(c, kind[c], bad)
  /\ pc' = [pc EXCEPT ![c] = IF kind[c] = "rtmp" THEN "starting"
                                                 ELSE "streaming"]
  /\ UNCHANGED <<pstate, kind, rm, gone, ended>>

(* A second DESCRIBE on one RTSP connection adds the same consumer again.  *)
Redescribe(c) ==
  /\ kind[c] = "rtsp" /\ pc[c] = "streaming"
  /\ listed[c] < MaxAdds
  /\ \E bad \in Failures("rtsp") : AddConsumer(c, "rtsp", bad)
  /\ UNCHANGED threadVars

(* RTMP answers the play command only after it has joined.                 *)
WriteStart(c) ==
  /\ pc[c] = "starting"
  /\ \/ /\ pc' = [pc EXCEPT ![c] = "streaming"]
        /\ rm' = rm
     \/ /\ gone[c]
        /\ pc' = [pc EXCEPT ![c] = "leaving"]
        /\ rm' = [rm EXCEPT ![c] = "stop"]
  /\ UNCHANGED <<streamVars, pstate, kind, gone, ended>>

(* A packet of a live producer reaches c's pump and ends it: the write     *)
(* fails because the client is gone, or it was the one frame a keyframe    *)
(* request waits for.  (Packets that change nothing are not steps; an HLS  *)
(* pump writes to memory and does not fail; what an RTSP connection's      *)
(* senders meet ends nothing, its handler does not look.)                  *)
Deliver(c) ==
  /\ pc[c] = "streaming" /\ ~ended[c]
  /\ \E s \in senders[c] : pstate[s.track.prod] = "live"
  /\ \/ kind[c] = "frame"
     \/ gone[c] /\ kind[c] \in {"raw", "rtmp", "pull", "mp4"}
  /\ ended' = [ended EXCEPT ![c] = TRUE]
  /\ UNCHANGED <<streamVars, pstate, kind, pc, rm, gone>>

(* DVRIP and Bubble give each write a deadline: a client that reads too    *)
(* slowly is treated as one that left.                                     *)
WriteTimeout(c) ==
  /\ kind[c] = "raw" /\ pc[c] = "streaming" /\ ~ended[c]
  /\ \E s \in senders[c] : pstate[s.track.prod] = "live"
  /\ ended' = [ended EXCEPT ![c] = TRUE]
  /\ UNCHANGED <<streamVars, pstate, kind, pc, rm, gone>>

(* Mutant: the handler returns without calling RemoveConsumer.             *)
PumpReturnsOnly(c) ==
  /\ pc[c] = "streaming" /\ ended[c] /\ kind[c] # "rtsp"
  /\ pc' = [pc EXCEPT ![c] = "returned"]
  /\ UNCHANGED <<streamVars, pstate, kind, rm, gone, ended>>

(* The handler wakes up: WriteTo returned, or done is closed.              *)
PumpReturns(c) ==
  /\ pc[c] = "streaming" /\ ended[c]
  /\ \/ /\ kind[c] \in SelfRemoving
        /\ pc' = [pc EXCEPT ![c] = "leaving"]
        /\ rm' = [rm EXCEPT ![c] = "stop"]
     \/ /\ kind[c] \in Watched
        /\ pc' = [pc EXCEPT ![c] = "returned"]
        /\ rm' = rm
  /\ UNCHANGED <<streamVars, pstate, kind, gone, ended>>

(* The RTSP connection ends: handleRTSP closes it and returns.             *)
RtspReturns(c) ==
  /\ kind[c] = "rtsp" /\ pc[c] = "streaming"
  /\ pc' = [pc EXCEPT ![c] = "returned"]
  /\ UNCHANGED <<streamVars, pstate, kind, rm, gone, ended>>

ClientLeaves(c) ==
  /\ pc[c] # "idle" /\ ~gone[c]
  /\ gone' = [gone EXCEPT ![c] = TRUE]
  /\ UNCHANGED <<streamVars, pstate, kind, pc, rm, ended>>

-----------------------------------------------------------------------------
(* The helpers, and RemoveConsumer itself.                                 *)

(* mp4: net/http cancels the request's context when the client leaves or   *)
(* the handler returned; ?duration= cancels it at any time.                *)
Cancelled(c) == gone[c] \/ pc[c] = "returned"
(* Mutants: FLV and MPEG-TS get a watcher as well; the watcher is only     *)
(* reached while the handler runs.                                         *)
CtxDoneOfPull(c) ==
  /\ kind[c] \in {"mp4", "pull"} /\ pc[c] = "streaming" /\ rm[c] = "none"
  /\ rm' = [rm EXCEPT ![c] = "early"]
  /\ UNCHANGED <<streamVars, pstate, kind, pc, gone, ended>>

CtxDoneWhileRunning(c) ==
  /\ kind[c] = "mp4" /\ pc[c] = "streaming" /\ rm[c] = "none"
  /\ rm' = [rm EXCEPT ![c] = "early"]
  /\ UNCHANGED <<streamVars, pstate, kind, pc, gone, ended>>

(* <-ctx.Done() in the watcher.                                            *)
CtxDone(c) ==
  /\ kind[c] = "mp4" /\ pc[c] \in {"streaming", "returned"} /\ rm[c] = "none"
  /\ rm' = [rm EXCEPT ![c] = "early"]
  /\ UNCHANGED <<streamVars, pstate, kind, pc, gone, ended>>

(* Mutant: the watcher takes its own Stop for the one in RemoveConsumer,   *)
(* and does not call either.                                               *)
EarlyUnlist(c) ==
  /\ rm[c] = "early"
  /\ rm' = [rm EXCEPT ![c] = "unlist"]
  /\ UNCHANGED <<streamVars, pstate, kind, pc, gone, ended>>

(* The mp4 watcher calls Stop once more than RemoveConsumer does.          *)
EarlyStop(c) ==
  /\ rm[c] = "early"
  /\ Stop(c)
  /\ ended' = [ended EXCEPT ![c] = TRUE]
  /\ rm' = [rm EXCEPT ![c] = "stop"]
  /\ UNCHANGED <<pstate, kind, pc, gone>>

(* hls: five seconds without a request.  A request that found the session  *)
(* just before the timer fired re-arms it, so it may fire again.           *)
TimerFires(c) ==
  /\ kind[c] = "hls" /\ pc[c] \in {"streaming", "returned"}
  /\ rm[c] \in {"none", "over"}
  /\ rm' = [rm EXCEPT ![c] = "stop"]
  /\ UNCHANGED <<streamVars, pstate, kind, pc, gone, ended>>

(* Mutant: RemoveConsumer without the Stop.                                *)
StopSkipped(c) ==
  /\ rm[c] = "stop"
  /\ rm' = [rm EXCEPT ![c] = "unlist"]
  /\ UNCHANGED <<streamVars, pstate, kind, pc, gone, ended>>

(* RemoveConsumer, first half: cons.Stop(), which also ends the pump.      *)
StopStep(c) ==
  /\ rm[c] = "stop"
  /\ Stop(c)
  /\ ended' = [ended EXCEPT ![c] = TRUE]
  /\ rm' = [rm EXCEPT ![c] = "unlist"]
  /\ UNCHANGED <<pstate, kind, pc, gone>>

(* RemoveConsumer, second half; a handler that called it then returns.     *)
UnlistStep(c) ==
  /\ rm[c] = "unlist"
  /\ Unlist(c)
  /\ rm' = [rm EXCEPT ![c] = "over"]
  /\ pc' = [pc EXCEPT ![c] = IF @ = "leaving" THEN "returned" ELSE @]
  /\ UNCHANGED <<pstate, kind, gone, ended>>

-----------------------------------------------------------------------------
ProducerStep(p) == Announce(p) \/ ProducerExit(p)

ClientStep(c) ==
  \/ CheckProducer(c) \/ Join(c) \/ Redescribe(c) \/ WriteStart(c)
  \/ Deliver(c) \/ WriteTimeout(c) \/ PumpReturns(c) \/ RtspReturns(c)
  \/ ClientLeaves(c)

HelperStep(c) ==
  \/ CtxDone(c) \/ EarlyStop(c) \/ TimerFires(c)
  \/ StopStep(c) \/ UnlistStep(c)

Next ==
  \/ \E p \in Producers : ProducerStep(p)
  \/ \E c \in Consumers : ClientStep(c) \/ HelperStep(c)

Spec == Init /\ [][Next]_vars

(* What must happen: a goroutine that can run does; a live ffmpeg keeps    *)
(* sending; a cancelled context wakes its watcher; the timer of a session  *)
(* whose client left runs out.  Nothing makes a producer come, stay or     *)
(* die, a client leave, or a slow write time out.                          *)
Fairness ==
  \A c \in Consumers :
    /\ WF_vars(Join(c))
    /\ WF_vars(WriteStart(c))
    /\ WF_vars(Deliver(c))
    /\ WF_vars(PumpReturns(c))
    /\ WF_vars(gone[c] /\ RtspReturns(c))
    /\ WF_vars(Cancelled(c) /\ CtxDone(c))
    /\ WF_vars(gone[c] /\ rm[c] = "none" /\ TimerFires(c))
    /\ WF_vars(EarlyStop(c))
    /\ WF_vars(StopStep(c))
    /\ WF_vars(UnlistStep(c))

FairSpec == Spec /\ Fairness

-----------------------------------------------------------------------------
(* The shape of the state.                                                 *)
TypeOK ==
  /\ StreamTypeOK
  /\ pstate \in [Producers -> PStates]
  /\ kind \in [Consumers -> Served]
  /\ pc \in [Consumers -> PcStates]
  /\ rm \in [Consumers -> RmStates]
  /\ gone \in [Consumers -> BOOLEAN]
  /\ ended \in [Consumers -> BOOLEAN]

(* Nothing is left of a client whose cleanup is over: its handler returned *)
(* (or, for mp4 and hls, its helper finished), Stream.consumers does not   *)
(* hold it and no producer feeds it, however the two Stop calls of mp4,    *)
(* a refired HLS timer and a failing WriteStart interleaved with the pump. *)
FinishedClean ==
  \A c \in Consumers :
    \/ rm[c] = "over"
    \/ kind[c] \in SelfRemoving /\ pc[c] = "returned"
    => listed[c] = 0 /\ senders[c] = {}

(* While a handler still serves its client, the stream has the consumer,   *)
(* exactly once, and nobody has stopped it: the only way out is the        *)
(* handler's own RemoveConsumer.                                           *)
ServedIsListed ==
  \A c \in Consumers :
    kind[c] \in SelfRemoving /\ pc[c] \in {"starting", "streaming"}
    => listed[c] = 1 /\ ~stopped[c]

(* No client is fed by two encoders at once: a restart of ffmpeg between   *)
(* any two steps of a handler leaves it wholly on the old tracks or wholly *)
(* on the new.  (An RTSP client that DESCRIBEs again can be on both.)      *)
SingleSource ==
  \A c \in Consumers : kind[c] # "rtsp" =>
    \A s1, s2 \in senders[c] : s1.track.prod = s2.track.prod

-----------------------------------------------------------------------------
(* Why these hold: the life of one consumer, seen from the program counter *)
(* of its handler and the progress of its removal.                         *)

NotYetJoined == {"idle", "checked", "refused"}

(* Who removes whom, and when the removal can have begun.                  *)
RemovalStage(c) ==
  /\ pc[c] = "starting" => kind[c] = "rtmp"
  /\ kind[c] = "rtsp" => rm[c] = "none" /\ pc[c] # "leaving"
  /\ kind[c] \in SelfRemoving =>
       /\ pc[c] \in NotYetJoined \cup {"starting", "streaming"}
            => rm[c] = "none"
       /\ pc[c] = "leaving" => rm[c] \in {"stop", "unlist"}
       /\ pc[c] = "returned" => rm[c] = "over"
  /\ kind[c] \in Watched =>
       /\ pc[c] # "leaving"
       /\ pc[c] \in NotYetJoined => rm[c] = "none"

(* What the stream holds of it at that stage.                              *)
HeldByStream(c) ==
  /\ pc[c] \in NotYetJoined =>
       listed[c] = 0 /\ senders[c] = {} /\ ~stopped[c]
  /\ pc[c] \notin {"idle", "refused"} => prod # NoProducer
  /\ rm[c] \in {"none", "early"} => ~stopped[c]
  /\ rm[c] \in {"unlist", "over"} => stopped[c]
  /\ rm[c] = "over" => listed[c] = 0
  /\ kind[c] # "rtsp" =>
       /\ listed[c] <= 1
       /\ ~stopped[c] /\ pc[c] \notin NotYetJoined => listed[c] = 1

Lifecycle == \A c \in Consumers : RemovalStage(c) /\ HeldByStream(c)

-----------------------------------------------------------------------------
(* c gets no packet any more: every producer it was joined to is dead.     *)
Starved(c) == \A s \in senders[c] : pstate[s.track.prod] = "dead"

(* A client that left is forgotten for good.  With a helper that watches   *)
(* the client (mp4, hls) always; with a handler that only notices at its   *)
(* next write, unless the packets stop coming.                             *)
WatchedDeparture ==
  \A c \in Consumers :
    gone[c] /\ kind[c] \in Watched ~> [](listed[c] = 0)

UnwatchedDeparture ==
  \A c \in Consumers :
    gone[c] /\ kind[c] \in SelfRemoving ~> \/ [](listed[c] = 0)
                                           \/ []Starved(c)

(* What stream.go says of itself: one producer is connected to many        *)
(* consumers.  A client that was joined to some tracks is, once ffmpeg has *)
(* restarted and stays, sooner or later joined to the producer of now.     *)
ServedByProducer ==
  \A c \in Consumers : \A p \in Producers :
    (pc[c] = "streaming" /\ ~gone[c] /\ senders[c] # {} /\ prod = p) ~>
      \/ pc[c] # "streaming" \/ gone[c] \/ prod # p \/ pstate[p] = "dead"
      \/ \E s \in senders[c] : s.track.prod = p

(* A connection that ended is not a consumer any more.                     *)
ReturnedIsForgotten ==
  \A c \in Consumers : pc[c] = "returned" ~> listed[c] = 0

-----------------------------------------------------------------------------
(* The abstract subscription each client but an RTSP one has (see          *)
(* Subscription.tla), read off the stream.                                 *)
PhaseOf(c) ==
  IF kind[c] = "rtsp" \/ (listed[c] = 0 /\ ~stopped[c]) THEN "new"
  ELSE IF stopped[c] THEN (IF listed[c] = 0 THEN "over" ELSE "silent")
  ELSE "active"

SourcesOf(c) ==
  IF kind[c] = "rtsp" THEN {} ELSE {s.track.prod : s \in senders[c]}

Sub == INSTANCE Subscription
         WITH current <- prod,
              phase <- [c \in Consumers |-> PhaseOf(c)],
              feed <- [c \in Consumers |-> SourcesOf(c)]

SubscriptionSpec == Sub!Spec
=============================================================================
