----------------------------- MODULE HlsSession -----------------------------
(***************************************************************************)
(* One HLS session (hls.go): the handler that creates it, the keep-alive   *)
(* timer that reaps it, the pump that cuts what the consumer writes into   *)
(* segments, and the requests that read the playlist, a segment or the     *)
(* init segment.  Everything runs in goroutines of its own; the session's  *)
(* mu protects the segments, hlsMu the table of sessions.                  *)
(*                                                                         *)
(* Abstractions: bytes are counted in units, FlushAt of which stand for    *)
(* 64 KB, and a segment is the interval of the byte stream it holds, with  *)
(* its place n in the order of flushes.  Reading under mu is one step.     *)
(* addSegment is one critical section too, but takes several steps here,   *)
(* because handleHLSInit reads without the lock.                           *)
(***************************************************************************)
EXTENDS Naturals, Sequences

CONSTANTS
  Requests,     (* HTTP requests about this session                        *)
  Asks,         (* bound: Asks[r], what request r may be about             *)
  Window,       (* segments kept: 5 in addSegment                          *)
  FlushAt,      (* units that fill a segment                               *)
  MaxWrite,     (* bound: units in one Write                               *)
  MaxUnits,     (* bound: units the consumer writes in all                 *)
  MaxFirings,   (* bound: timer callbacks; one per Reset and one more      *)
  Prompt        (* the handler needs less than the keep-alive              *)

ASSUME HlsAssumption ==
  /\ Window \in Nat \ {0} /\ FlushAt \in Nat \ {0}
  /\ MaxWrite \in Nat \ {0} /\ MaxUnits \in Nat /\ MaxFirings \in Nat
  /\ Prompt \in BOOLEAN

ASSUME AsksAssumption ==
  Asks \in [Requests -> SUBSET {"playlist", "segment", "init"}]

VARIABLES
  hpc,        (* handleHLSStream, after AddConsumer                        *)
  timer,      (* session.alive                                             *)
  reaper,     (* reaper[i]: the i-th callback of the timer                 *)
  inMap,      (* the session is in hlsSessions                             *)
  stopped,    (* the consumer was stopped                                  *)
  listed,     (* the consumer is in Stream.consumers                       *)
  run,        (* the goroutine in Run                                      *)
  wpos,       (* units written to the segmentWriter                        *)
  bufFrom,    (* the first unit still in its buffer                        *)
  wpc, chunk, (* where Write is, and the data it copied out                *)
  segments, seqNo, ready,   (* the fields of HLSSession                    *)
  rpc,        (* rpc[r]: the handler of request r                          *)
  want,       (* want[r]: what r asks for                                  *)
  seen,       (* seen[r]: what an init request has read so far             *)
  answer,     (* answer[r]: what it got                                    *)
  shown       (* history: the newest playlist handed out                   *)

poolVars  == <<hpc, timer, reaper, inMap, stopped, listed, run>>
writeVars == <<wpos, bufFrom, wpc, chunk>>
dataVars  == <<segments, seqNo, ready>>
reqVars   == <<rpc, want, seen, answer, shown>>
vars == <<poolVars, writeVars, dataVars, reqVars>>

Callbacks == 1..MaxFirings
Numbers   == 0..MaxUnits
Chunk     == [n : Numbers, from : Numbers, to : Numbers]
Playlists == [start : Numbers, count : 0..Window]

NoChunk  == [n |-> 0, from |-> 0, to |-> 0]
Wants    == [what : {"none", "playlist", "init"}, n : {0}]
              \cup [what : {"segment"},
                    n : {n \in Numbers : n * FlushAt <= MaxUnits}]
Pending  == [got |-> "pending"]
NotFound == [got |-> "404"]
Answers  == {Pending, NotFound} \cup [got : {"playlist"}, list : Playlists]
              \cup [got : {"segment"}, chunk : Chunk]

Unread == MaxUnits + Window + 2      (* no value a read can return         *)

Init ==
  /\ hpc = "joined" /\ timer = "off"
  /\ reaper = [i \in Callbacks |-> "none"]
  /\ inMap = FALSE /\ stopped = FALSE /\ listed = TRUE
  /\ run = "none"
  /\ wpos = 0 /\ bufFrom = 0 /\ wpc = "idle" /\ chunk = NoChunk
  /\ segments = <<>> /\ seqNo = 0 /\ ready = FALSE
  /\ rpc = [r \in Requests |-> "idle"]
  /\ want = [r \in Requests |-> [what |-> "none", n |-> 0]]
  /\ seen = [r \in Requests |-> [seq |-> Unread, len |-> Unread]]
  /\ answer = [r \in Requests |-> Pending]
  /\ shown = [start |-> 0, count |-> 0]

-----------------------------------------------------------------------------
(* handleHLSStream, after AddConsumer, in the order of the code.           *)

ArmTimer ==
  /\ hpc = "joined"
  /\ hpc' = "armed" /\ timer' = "armed"
  /\ UNCHANGED <<reaper, inMap, stopped, listed, run, writeVars, dataVars,
                 reqVars>>

Register ==
  /\ hpc = "armed"
  /\ hpc' = "registered" /\ inMap' = TRUE
  /\ UNCHANGED <<timer, reaper, stopped, listed, run, writeVars, dataVars,
                 reqVars>>

(* go session.Run(); the client learns the session's id.                   *)
Spawn ==
  /\ hpc = "registered"
  /\ hpc' = "running" /\ run' = "running"
  /\ UNCHANGED <<timer, reaper, inMap, stopped, listed, writeVars, dataVars,
                 reqVars>>

-----------------------------------------------------------------------------
(* The keep-alive timer and its callbacks.                                 *)

TimerFires ==
  /\ timer = "armed" /\ (Prompt => hpc = "running")
  /\ timer' = "off"
  /\ \E i \in Callbacks :
       /\ reaper[i] = "none"
       /\ \A j \in 1..(i - 1) : reaper[j] # "none"
       /\ reaper' = [reaper EXCEPT ![i] = "delete"]
  /\ UNCHANGED <<hpc, inMap, stopped, listed, run, writeVars, dataVars,
                 reqVars>>

(* Mutant: the callback leaves the table alone.                            *)
DeleteNothing(i) ==
  /\ reaper[i] = "delete"
  /\ reaper' = [reaper EXCEPT ![i] = "stop"]
  /\ UNCHANGED <<hpc, timer, inMap, stopped, listed, run, writeVars, dataVars,
                 reqVars>>

Delete(i) ==
  /\ reaper[i] = "delete"
  /\ inMap' = FALSE
  /\ reaper' = [reaper EXCEPT ![i] = "stop"]
  /\ UNCHANGED <<hpc, timer, stopped, listed, run, writeVars, dataVars,
                 reqVars>>

(* Mutant: the consumer is stopped and stays in the stream's list.         *)
StopConsumerOnly(i) ==
  /\ reaper[i] = "stop"
  /\ stopped' = TRUE
  /\ reaper' = [reaper EXCEPT ![i] = "over"]
  /\ UNCHANGED <<hpc, timer, inMap, listed, run, writeVars, dataVars, reqVars>>

(* stream.RemoveConsumer(cons), in its two halves.                         *)
StopConsumer(i) ==
  /\ reaper[i] = "stop"
  /\ stopped' = TRUE
  /\ reaper' = [reaper EXCEPT ![i] = "unlist"]
  /\ UNCHANGED <<hpc, timer, inMap, listed, run, writeVars, dataVars, reqVars>>

Unlist(i) ==
  /\ reaper[i] = "unlist"
  /\ listed' = FALSE
  /\ reaper' = [reaper EXCEPT ![i] = "over"]
  /\ UNCHANGED <<hpc, timer, inMap, stopped, run, writeVars, dataVars,
                 reqVars>>

(* WriteTo blocks until the consumer stops.                                *)
RunReturns ==
  /\ run = "running" /\ stopped
  /\ run' = "over"
  /\ UNCHANGED <<hpc, timer, reaper, inMap, stopped, listed, writeVars,
                 dataVars, reqVars>>

-----------------------------------------------------------------------------
(* segmentWriter.Write, and addSegment inside it.                          *)

(* Mutant: the buffer is copied out and not reset.                         *)
WriteKeepsBuffer(k) ==
  /\ run # "none" /\ wpc = "idle" /\ wpos + k <= MaxUnits
  /\ wpos' = wpos + k
  /\ IF wpos' - bufFrom >= FlushAt
     THEN /\ chunk' = [n |-> seqNo, from |-> bufFrom, to |-> wpos']
          /\ wpc' = "append" /\ bufFrom' = bufFrom
     ELSE UNCHANGED <<chunk, wpc, bufFrom>>
  /\ UNCHANGED <<poolVars, dataVars, reqVars>>

(* Mutant: ready is signalled on the way into addSegment.                  *)
WriteSignals(k) ==
  /\ run # "none" /\ wpc = "idle" /\ wpos + k <= MaxUnits
  /\ wpos' = wpos + k
  /\ IF wpos' - bufFrom >= FlushAt
     THEN /\ chunk' = [n |-> seqNo, from |-> bufFrom, to |-> wpos']
          /\ wpc' = "append" /\ bufFrom' = wpos' /\ ready' = TRUE
     ELSE UNCHANGED <<chunk, wpc, bufFrom, ready>>
  /\ UNCHANGED <<poolVars, segments, seqNo, reqVars>>

(* The consumer writes k units.  A write may still come after Stop: what   *)
(* was queued in the consumer's senders is drained.                        *)
Write(k) ==
  /\ run # "none" /\ wpc = "idle" /\ wpos + k <= MaxUnits
  /\ wpos' = wpos + k
  /\ IF wpos' - bufFrom >= FlushAt
     THEN /\ chunk' = [n |-> seqNo, from |-> bufFrom, to |-> wpos']
          /\ wpc' = "append" /\ bufFrom' = wpos'
     ELSE UNCHANGED <<chunk, wpc, bufFrom>>
  /\ UNCHANGED <<poolVars, dataVars, reqVars>>

(* addSegment locks mu and appends.                                        *)
AppendSegment ==
  /\ wpc = "append"
  /\ segments' = Append(segments, chunk)
  /\ wpc' = "trim"
  /\ UNCHANGED <<wpos, bufFrom, chunk, seqNo, ready, poolVars, reqVars>>

(* Mutants: it keeps one segment more; it drops the newest.                *)
TrimLate ==
  /\ wpc = "trim"
  /\ segments' = IF Len(segments) > Window + 1 THEN Tail(segments)
                                               ELSE segments
  /\ wpc' = "bump"
  /\ UNCHANGED <<wpos, bufFrom, chunk, seqNo, ready, poolVars, reqVars>>

TrimNewest ==
  /\ wpc = "trim"
  /\ segments' = IF Len(segments) > Window THEN SubSeq(segments, 1, Window)
                                           ELSE segments
  /\ wpc' = "bump"
  /\ UNCHANGED <<wpos, bufFrom, chunk, seqNo, ready, poolVars, reqVars>>

Trim ==
  /\ wpc = "trim"
  /\ segments' = IF Len(segments) > Window THEN Tail(segments) ELSE segments
  /\ wpc' = "bump"
  /\ UNCHANGED <<wpos, bufFrom, chunk, seqNo, ready, poolVars, reqVars>>

(* seqNo++, the ready token (kept if there is one already), and unlock.    *)
Bump ==
  /\ wpc = "bump"
  /\ seqNo' = seqNo + 1 /\ ready' = TRUE
  /\ wpc' = "idle"
  /\ UNCHANGED <<wpos, bufFrom, chunk, segments, poolVars, reqVars>>

-----------------------------------------------------------------------------
(* The request handlers.                                                   *)

MuFree == wpc \in {"idle", "append"}

(* r looks the session up.  The client knows its id once Spawn is done.    *)
Lookup(r) ==
  /\ rpc[r] = "idle" /\ hpc = "running"
  /\ \E w \in Wants : w.what \in Asks[r] /\ want' = [want EXCEPT ![r] = w]
  /\ IF inMap THEN /\ rpc' = [rpc EXCEPT ![r] = "found"]
                   /\ answer' = answer
              ELSE /\ rpc' = [rpc EXCEPT ![r] = "done"]
                   /\ answer' = [answer EXCEPT ![r] = NotFound]
  /\ UNCHANGED <<seen, shown, poolVars, writeVars, dataVars>>

(* session.alive.Reset: it re-arms the timer even if it has fired.         *)
ResetTimer(r) ==
  /\ rpc[r] = "found" /\ want[r].what # "init"
  /\ timer' = "armed"
  /\ rpc' = [rpc EXCEPT ![r] = "reset"]
  /\ UNCHANGED <<hpc, reaper, inMap, stopped, listed, run, want, seen, answer,
                 shown, writeVars, dataVars>>

(* Playlist().                                                             *)
Listing == [start |-> seqNo - Len(segments), count |-> Len(segments)]

HandOut(r) ==
  /\ answer' = [answer EXCEPT ![r] = [got |-> "playlist", list |-> Listing]]
  /\ shown' = Listing
  /\ rpc' = [rpc EXCEPT ![r] = "done"]

(* Mutant: Playlist() reads the two fields without the lock.               *)
FirstReadUnlocked(r) ==
  /\ rpc[r] = "reset" /\ want[r].what = "playlist"
  /\ IF segments = <<>>
     THEN /\ rpc' = [rpc EXCEPT ![r] = "waiting"]
          /\ UNCHANGED <<answer, shown>>
     ELSE HandOut(r)
  /\ UNCHANGED <<want, seen, poolVars, writeVars, dataVars>>

FirstRead(r) ==
  /\ rpc[r] = "reset" /\ want[r].what = "playlist" /\ MuFree
  /\ IF segments = <<>>
     THEN /\ rpc' = [rpc EXCEPT ![r] = "waiting"]
          /\ UNCHANGED <<answer, shown>>
     ELSE HandOut(r)
  /\ UNCHANGED <<want, seen, poolVars, writeVars, dataVars>>

(* <-session.ready                                                         *)
Woken(r) ==
  /\ rpc[r] = "waiting" /\ ready
  /\ ready' = FALSE
  /\ rpc' = [rpc EXCEPT ![r] = "woken"]
  /\ UNCHANGED <<want, seen, answer, shown, segments, seqNo, poolVars,
                 writeVars>>

(* Mutant: a playlist request that only waits for the token.               *)
WaitOn(r) == FALSE /\ UNCHANGED vars

(* <-time.After(3 * time.Second)                                           *)
GiveUp(r) ==
  /\ rpc[r] = "waiting"
  /\ rpc' = [rpc EXCEPT ![r] = "timedout"]
  /\ UNCHANGED <<want, seen, answer, shown, poolVars, writeVars, dataVars>>

SecondRead(r) ==
  /\ rpc[r] \in {"woken", "timedout"} /\ MuFree
  /\ IF segments = <<>>
     THEN /\ rpc' = [rpc EXCEPT ![r] = "done"]
          /\ answer' = [answer EXCEPT ![r] = NotFound]
          /\ shown' = shown
     ELSE HandOut(r)
  /\ UNCHANGED <<want, seen, poolVars, writeVars, dataVars>>

(* handleHLSInit reads seqNo and len(segments) without the lock, in the    *)
(* order the compiler likes, and does not touch the timer.                 *)
ReadUnlocked(r) ==
  /\ rpc[r] = "found" /\ want[r].what = "init"
  /\ \/ /\ seen[r].seq = Unread
        /\ seen' = [seen EXCEPT ![r].seq = seqNo]
     \/ /\ seen[r].len = Unread
        /\ seen' = [seen EXCEPT ![r].len = Len(segments)]
  /\ UNCHANGED <<rpc, want, answer, shown, poolVars, writeVars, dataVars>>

(* Segment(n): its index in the window, or nothing.  (Go's n - startSeq    *)
(* may be negative; here the test comes before the subtraction.)           *)
StartSeq == seqNo - Len(segments)

(* Mutant: an index that counts from one.                                  *)
SegmentShifted(n) ==
  IF n <= StartSeq \/ n - StartSeq > Len(segments) THEN NotFound
  ELSE [got |-> "segment", chunk |-> segments[n - StartSeq]]

Segment(n) ==
  IF n < StartSeq \/ n - StartSeq >= Len(segments) THEN NotFound
  ELSE [got |-> "segment", chunk |-> segments[n - StartSeq + 1]]

ReadSegment(r) ==
  /\ rpc[r] = "reset" /\ want[r].what = "segment" /\ MuFree
  /\ answer' = [answer EXCEPT ![r] = Segment(want[r].n)]
  /\ rpc' = [rpc EXCEPT ![r] = "done"]
  /\ UNCHANGED <<want, seen, shown, poolVars, writeVars, dataVars>>

ReadInit(r) ==
  /\ rpc[r] = "found" /\ want[r].what = "init" /\ MuFree
  /\ seen[r].seq # Unread /\ seen[r].len # Unread
  /\ answer' = [answer EXCEPT ![r] =
                  IF seen[r].seq < seen[r].len THEN NotFound
                  ELSE Segment(seen[r].seq - seen[r].len)]
  /\ rpc' = [rpc EXCEPT ![r] = "done"]
  /\ UNCHANGED <<want, seen, shown, poolVars, writeVars, dataVars>>

-----------------------------------------------------------------------------
HandlerStep == ArmTimer \/ Register \/ Spawn
ReaperStep(i) == Delete(i) \/ StopConsumer(i) \/ Unlist(i)
WriterStep == AppendSegment \/ Trim \/ Bump
RequestStep(r) ==
  \/ ResetTimer(r) \/ FirstRead(r) \/ SecondRead(r)
  \/ ReadUnlocked(r) \/ ReadInit(r) \/ ReadSegment(r)

Next ==
  \/ HandlerStep \/ TimerFires \/ RunReturns
  \/ \E i \in Callbacks : ReaperStep(i)
  \/ \E k \in 1..MaxWrite : Write(k)
  \/ WriterStep
  \/ \E r \in Requests : Lookup(r) \/ RequestStep(r) \/ Woken(r) \/ GiveUp(r)

Spec == Init /\ [][Next]_vars

(* Goroutines that can run do, and timers run out.  No request has to      *)
(* come, and the consumer may write or not.                                *)
Fairness ==
  /\ WF_vars(HandlerStep)
  /\ WF_vars(TimerFires)
  /\ WF_vars(RunReturns)
  /\ WF_vars(WriterStep)
  /\ \A i \in Callbacks : WF_vars(ReaperStep(i))
  /\ \A r \in Requests : WF_vars(RequestStep(r)) /\ WF_vars(GiveUp(r))

FairSpec == Spec /\ Fairness

-----------------------------------------------------------------------------
(* The shape of the state.                                                 *)
TypeOK ==
  /\ hpc \in {"joined", "armed", "registered", "running"}
  /\ timer \in {"off", "armed"}
  /\ reaper \in [Callbacks -> {"none", "delete", "stop", "unlist", "over"}]
  /\ inMap \in BOOLEAN /\ stopped \in BOOLEAN /\ listed \in BOOLEAN
  /\ run \in {"none", "running", "over"}
  /\ wpos \in Numbers /\ bufFrom \in Numbers
  /\ wpc \in {"idle", "append", "trim", "bump"} /\ chunk \in Chunk
  /\ segments \in Seq(Chunk) /\ Len(segments) <= Window + 1
  /\ seqNo \in Numbers /\ ready \in BOOLEAN
  /\ rpc \in [Requests -> {"idle", "found", "reset", "waiting", "woken",
                           "timedout", "done"}]
  /\ want \in [Requests -> Wants]
  /\ seen \in [Requests -> [seq : Numbers \cup {Unread},
                            len : (0..Window + 1) \cup {Unread}]]
  /\ answer \in [Requests -> Answers]
  /\ shown \in Playlists

(* Between two calls of addSegment the window holds the newest segments,   *)
(* as many as there are up to Window, under the numbers a playlist gives   *)
(* them: the first is seqNo - len.                                         *)
Numbering ==
  wpc = "idle" =>
    /\ Len(segments) = IF seqNo < Window THEN seqNo ELSE Window
    /\ \A i \in 1..Len(segments) :
         segments[i].n = seqNo - Len(segments) + i - 1

(* The segments of the window, the data on its way into it and the buffer  *)
(* follow each other in the byte stream: nothing is lost, repeated or out  *)
(* of order across a flush.                                                *)
Contiguous ==
  LET flow == IF wpc = "append" THEN Append(segments, chunk) ELSE segments
  IN /\ \A i \in 1..(Len(flow) - 1) : flow[i].to = flow[i + 1].from
     /\ flow # <<>> => flow[Len(flow)].to = bufFrom
     /\ \A i \in 1..Len(flow) : flow[i].to - flow[i].from >= FlushAt
     /\ bufFrom <= wpos

(* A number means the same bytes whenever it is asked for: a request for   *)
(* segment n gets the n-th flush or nothing, however the window moved      *)
(* between the playlist and the request.                                   *)
SegmentExact ==
  \A r \in Requests :
    want[r].what = "segment" /\ answer[r].got = "segment"
    => answer[r].chunk.n = want[r].n

(* A playlist request that was woken by the ready token finds a segment:   *)
(* the token is never ahead of the data, also when an older one is left    *)
(* in the channel.                                                         *)
WokenServed ==
  ready \/ (\E r \in Requests : rpc[r] = "woken") => segments # <<>>

(* Playlists handed out never go back: neither the media sequence number   *)
(* nor the end of the list decreases from one to the next.  (A client that *)
(* asks too rarely misses segments all the same: the window may slide past *)
(* the end of the list it has.)                                            *)
PlaylistsAdvance ==
  [][/\ shown'.start >= shown.start
     /\ shown'.start + shown'.count >= shown.start + shown.count]_vars

(* Nobody is left behind: from when the timer is armed until the session   *)
(* is gone everywhere there is a timer or a callback that still has to     *)
(* remove it, and only a timer that ran out stops the consumer or takes    *)
(* the session away, however the callbacks overlap and requests re-arm.    *)
Busy == {"delete", "stop", "unlist"}

SessionAccounted ==
  /\ \/ hpc = "joined" \/ timer = "armed"
     \/ \E i \in Callbacks : reaper[i] \in Busy
     \/ stopped /\ ~listed /\ (Prompt => ~inMap)
  /\ stopped \/ ~listed \/ (hpc = "running" /\ ~inMap)
       => \E i \in Callbacks : reaper[i] # "none"

(* When the client stops asking, the session goes away: out of the table,  *)
(* its consumer stopped and forgotten by the stream, its goroutine over;   *)
(* also when a last request re-armed a timer that had fired.               *)
SessionReaped ==
  <>[](~inMap /\ stopped /\ ~listed /\ run = "over")

(* Every request is answered.                                              *)
RequestAnswered == \A r \in Requests : rpc[r] # "idle" ~> rpc[r] = "done"

(* hls.go: "first segment of fMP4 contains the init segment".  What an     *)
(* init request gets from the front of the window is the first segment of  *)
(* the session, not merely the oldest that is left.                        *)
InitIsFirst ==
  \A r \in Requests :
    /\ want[r].what = "init" /\ answer[r].got = "segment"
    /\ answer[r].chunk.n = StartSeq
    => answer[r].chunk.n = 0
=============================================================================
