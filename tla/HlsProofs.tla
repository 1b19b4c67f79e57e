----------------------------- MODULE HlsProofs -----------------------------
(***************************************************************************)
(* Proofs about an HLS session, for every window, flush size and number of *)
(* requests: its type, Numbering, Contiguous, SegmentExact, WokenServed,   *)
(* PlaylistsAdvance, and that a session neither leaks nor ends early.      *)
(***************************************************************************)
EXTENDS HlsSession, TLAPS

(* The type invariant, by who changes the variables.                       *)
PoolType ==
  /\ hpc \in {"joined", "armed", "registered", "running"}
  /\ timer \in {"off", "armed"}
  /\ reaper \in [Callbacks -> {"none", "delete", "stop", "unlist", "over"}]
  /\ inMap \in BOOLEAN /\ stopped \in BOOLEAN /\ listed \in BOOLEAN
  /\ run \in {"none", "running", "over"}

WriterType ==
  /\ wpos \in Numbers /\ bufFrom \in Numbers
  /\ wpc \in {"idle", "append", "trim", "bump"} /\ chunk \in Chunk
  /\ segments \in Seq(Chunk) /\ seqNo \in Numbers

RequestType ==
  /\ rpc \in [Requests -> {"idle", "found", "reset", "waiting", "woken",
                           "timedout", "done"}]
  /\ want \in [Requests -> Wants]
  /\ seen \in [Requests -> [seq : Numbers \cup {Unread},
                            len : (0..Window + 1) \cup {Unread}]]
  /\ answer \in [Requests -> Answers]
  /\ shown \in Playlists

(* The argument counts flushes.  Held have reached the list of segments,   *)
(* Started have left the buffer; the two differ while addSegment waits for *)
(* mu, and both differ from seqNo until it counts.  The list holds the     *)
(* newest Kept(Held) of them, one more before Trim.                        *)
Held    == IF wpc \in {"idle", "append"} THEN seqNo ELSE seqNo + 1
Started == IF wpc = "idle" THEN seqNo ELSE seqNo + 1
Kept(k) == IF k < Window THEN k ELSE Window

Placed ==
  /\ Len(segments) = IF wpc = "trim" THEN Kept(seqNo) + 1 ELSE Kept(Held)
  /\ \A i \in 1..Len(segments) :
       segments[i].n + Len(segments) + 1 = Held + i
  /\ wpc = "append" => chunk.n = seqNo
  /\ Started <= bufFrom

(* A sequence of chunks without a gap or an overlap, up to end.            *)
Flows(s, end) ==
  /\ \A i \in 1..(Len(s) - 1) : s[i].to = s[i + 1].from
  /\ s # <<>> => s[Len(s)].to = end
  /\ \A i \in 1..Len(s) : s[i].to - s[i].from >= FlushAt

Flow == IF wpc = "append" THEN Append(segments, chunk) ELSE segments

(* What a request was given does not change, and was right.                *)
Answered ==
  \A r \in Requests :
    /\ rpc[r] # "done" => answer[r] = Pending
    /\ want[r].what = "segment" /\ answer[r].got = "segment"
         => answer[r].chunk.n = want[r].n

(* The newest playlist is not ahead of the list.                           *)
ShownBehind ==
  /\ shown.start + Len(segments) <= Held
  /\ shown.start + shown.count <= seqNo

WriterInv  == WriterType /\ Placed /\ Flows(Flow, bufFrom) /\ bufFrom <= wpos
RequestInv ==
  ready \in BOOLEAN /\ RequestType /\ WokenServed /\ Answered /\ ShownBehind
HlsInv     == PoolType /\ WriterInv /\ RequestInv

-----------------------------------------------------------------------------
(* Sequences of chunks.                                                    *)

LEMMA FlowAppend ==
  ASSUME NEW s \in Seq(Chunk), NEW c \in Chunk,
         Flows(s, c.from), c.to - c.from >= FlushAt
  PROVE  Flows(Append(s, c), c.to)
<1> DEFINE t == Append(s, c)
<1>1. Len(t) = Len(s) + 1 /\ t[Len(s) + 1] = c /\ t # <<>>
  OBVIOUS
<1>2. \A i \in 1..Len(s) : t[i] = s[i]
  OBVIOUS
<1>3. Len(s) \in Nat
  OBVIOUS
<1>4. ASSUME NEW i \in 1..(Len(t) - 1) PROVE t[i].to = t[i + 1].from
  <2>1. CASE i = Len(s)
    BY <2>1, <1>1, <1>2, <1>3 DEF Flows
  <2>2. CASE i < Len(s)
    BY <2>2, <1>1, <1>2, <1>3 DEF Flows
  <2> QED
    BY <2>1, <2>2, <1>1, <1>3
<1>5. \A i \in 1..Len(t) : t[i].to - t[i].from >= FlushAt
  BY <1>1, <1>2, <1>3 DEF Flows
<1> QED
  BY <1>1, <1>4, <1>5 DEF Flows

LEMMA FlowTail ==
  ASSUME NEW s \in Seq(Chunk), NEW end, Flows(s, end), Len(s) > 1
  PROVE  Flows(Tail(s), end)
<1> DEFINE t == Tail(s)
<1>1. Len(t) = Len(s) - 1 /\ Len(s) \in Nat /\ s # <<>>
  OBVIOUS
<1>2. \A i \in 1..Len(t) : t[i] = s[i + 1]
  OBVIOUS
<1>3. \A i \in 1..(Len(t) - 1) : t[i].to = t[i + 1].from
  BY <1>1, <1>2 DEF Flows
<1>4. t # <<>> => t[Len(t)].to = end
  BY <1>1, <1>2 DEF Flows
<1>5. \A i \in 1..Len(t) : t[i].to - t[i].from >= FlushAt
  BY <1>1, <1>2 DEF Flows
<1> QED
  BY <1>3, <1>4, <1>5 DEF Flows

-----------------------------------------------------------------------------
(* The writer.                                                             *)

LEMMA WriteKeeps ==
  ASSUME WriterInv, NEW k \in 1..MaxWrite, Write(k)
  PROVE  WriterInv'
<1> USE HlsAssumption
<1>1. WriterType /\ Placed /\ Flows(Flow, bufFrom) /\ bufFrom <= wpos
  BY DEF WriterInv
<1>2. wpc = "idle" /\ wpos' = wpos + k /\ wpos' \in Numbers /\ k \in Nat
      /\ segments' = segments /\ seqNo' = seqNo
  BY <1>1 DEF Write, WriterType, Numbers, dataVars
<1>3. CASE wpos' - bufFrom >= FlushAt
  <2>1. /\ chunk' = [n |-> seqNo, from |-> bufFrom, to |-> wpos']
        /\ wpc' = "append" /\ bufFrom' = wpos'
    BY <1>3 DEF Write
  <2>2. chunk' \in Chunk
    BY <2>1, <1>1, <1>2 DEF Chunk, WriterType
  <2>3. WriterType'
    BY <2>1, <2>2, <1>1, <1>2 DEF WriterType
  <2>4. Placed'
    <3>1. Started' <= bufFrom'
      BY <2>1, <1>1, <1>2, <1>3 DEF Placed, Started, WriterType, Numbers
    <3> QED
      BY <3>1, <2>1, <1>1, <1>2 DEF Placed, Held, Kept
  <2>5. Flows(Flow, bufFrom)'
    <3>1. Flows(segments, chunk'.from)
      BY <2>1, <1>1, <1>2 DEF Flow
    <3>2. Flows(Append(segments, chunk'), chunk'.to)
      BY <3>1, <2>1, <2>2, <1>1, <1>3, FlowAppend DEF WriterType
    <3>3. Flow' = Append(segments, chunk') /\ bufFrom' = chunk'.to
      BY <2>1, <1>2 DEF Flow
    <3> QED
      BY <3>2, <3>3 DEF Flows
  <2> QED
    BY <2>1, <2>3, <2>4, <2>5, <1>2 DEF WriterInv, WriterType, Numbers
<1>4. CASE ~(wpos' - bufFrom >= FlushAt)
  <2>1. chunk' = chunk /\ wpc' = wpc /\ bufFrom' = bufFrom
    BY <1>4 DEF Write
  <2>2. WriterType' /\ Placed' /\ Flows(Flow, bufFrom)'
    BY <2>1, <1>1, <1>2 DEF WriterType, Placed, Held, Started, Flow, Flows
  <2> QED
    BY <2>1, <2>2, <1>1, <1>2 DEF WriterInv, WriterType, Numbers
<1> QED
  BY <1>3, <1>4

LEMMA AppendKeeps ==
  ASSUME WriterInv, AppendSegment
  PROVE  WriterInv'
<1> USE HlsAssumption
<1>1. WriterType /\ Placed /\ Flows(Flow, bufFrom) /\ bufFrom <= wpos
  BY DEF WriterInv
<1>2. /\ wpc = "append" /\ wpc' = "trim" /\ segments' = Append(segments, chunk)
      /\ seqNo' = seqNo /\ bufFrom' = bufFrom /\ wpos' = wpos /\ chunk' = chunk
  BY DEF AppendSegment
<1>3. WriterType'
  BY <1>1, <1>2 DEF WriterType
<1>4. /\ Len(segments') = Len(segments) + 1 /\ Len(segments) \in Nat
      /\ segments'[Len(segments) + 1] = chunk
      /\ \A i \in 1..Len(segments) : segments'[i] = segments[i]
  BY <1>1, <1>2 DEF WriterType
<1>5. Held = seqNo /\ Held' = seqNo + 1 /\ seqNo \in Nat
  BY <1>1, <1>2 DEF Held, WriterType, Numbers
<1>6. Placed'
  <2>1. Len(segments') = Kept(seqNo) + 1
    BY <1>1, <1>2, <1>4, <1>5 DEF Placed
  <2>2. ASSUME NEW i \in 1..Len(segments')
        PROVE  segments'[i].n + Len(segments') + 1 = Held' + i
    <3>1. CASE i = Len(segments) + 1
      BY <3>1, <1>1, <1>2, <1>4, <1>5 DEF Placed
    <3>2. CASE i \in 1..Len(segments)
      <4>1. segments[i] \in Chunk
        BY <3>2, <1>1 DEF WriterType
      <4>2. segments[i].n \in Nat
        BY <4>1 DEF Chunk, Numbers
      <4>3. segments[i].n + Len(segments) + 1 = Held + i
        BY <3>2, <1>1 DEF Placed
      <4>4. segments'[i] = segments[i]
        BY <3>2, <1>4
      <4>5. segments'[i].n + (Len(segments) + 1) + 1 = (seqNo + 1) + i
        BY <4>2, <4>3, <4>4, <3>2, <1>4, <1>5
      <4> QED
        BY <4>5, <1>4, <1>5
    <3> QED
      BY <3>1, <3>2, <1>4
  <2> QED
    BY <2>1, <2>2, <1>1, <1>2 DEF Placed, Started, Kept
<1>7. Flows(Flow, bufFrom)'
  BY <1>1, <1>2 DEF Flow, Flows
<1> QED
  BY <1>1, <1>2, <1>3, <1>6, <1>7 DEF WriterInv

LEMMA TrimKeeps ==
  ASSUME WriterInv, Trim
  PROVE  WriterInv' /\ Held' = Held /\ Len(segments') <= Len(segments)
                    /\ (segments # <<>> => segments' # <<>>)
<1> USE HlsAssumption
<1>1. WriterType /\ Placed /\ Flows(Flow, bufFrom) /\ bufFrom <= wpos
  BY DEF WriterInv
<1>2. /\ wpc = "trim" /\ wpc' = "bump"
      /\ seqNo' = seqNo /\ bufFrom' = bufFrom /\ wpos' = wpos /\ chunk' = chunk
  BY DEF Trim
<1>3. /\ Held = seqNo + 1 /\ Held' = seqNo + 1 /\ seqNo \in Nat
      /\ Len(segments) = Kept(seqNo) + 1
      /\ Len(segments) \in Nat /\ Window \in Nat \ {0}
  BY <1>1, <1>2 DEF Held, WriterType, Numbers, Placed
<1>4. Started' = Started
  BY <1>2 DEF Started
<1>5. CASE Len(segments) > Window
  <2>1. segments' = Tail(segments)
    BY <1>5 DEF Trim
  <2>2. /\ Len(segments') = Len(segments) - 1 /\ segments' \in Seq(Chunk)
        /\ \A i \in 1..Len(segments') : segments'[i] = segments[i + 1]
    BY <2>1, <1>1, <1>3, <1>5 DEF WriterType
  <2>3. WriterType'
    BY <2>2, <1>1, <1>2 DEF WriterType
  <2>4. Len(segments') = Kept(seqNo + 1)
    BY <2>2, <1>3, <1>5 DEF Kept
  <2>5. ASSUME NEW i \in 1..Len(segments')
        PROVE  segments'[i].n + Len(segments') + 1 = Held' + i
    <3>1. i + 1 \in 1..Len(segments)
      BY <2>2, <1>3
    <3>2. segments[i + 1] \in Chunk
      BY <3>1, <1>1 DEF WriterType
    <3>3. segments[i + 1].n \in Nat
      BY <3>2 DEF Chunk, Numbers
    <3>4. segments[i + 1].n + Len(segments) + 1 = Held + (i + 1)
      BY <3>1, <1>1 DEF Placed
    <3>5. segments'[i].n = segments[i + 1].n
      BY <2>2
    <3>6. segments'[i].n + (Len(segments) - 1) + 1 = (seqNo + 1) + i
      BY <3>3, <3>4, <3>5, <2>2, <1>3
    <3> QED
      BY <3>6, <2>2, <1>3
  <2>6. Placed'
    BY <2>4, <2>5, <1>1, <1>2, <1>3, <1>4 DEF Placed
  <2>7. Flows(Tail(segments), bufFrom)
    BY <1>1, <1>2, <1>3, <1>5, FlowTail DEF Flow, WriterType
  <2>8. Flows(Flow, bufFrom)'
    BY <2>7, <2>1, <1>2 DEF Flow, Flows
  <2>9. segments' # <<>>
    BY <2>2, <1>3, <1>5
  <2> QED
    BY <2>2, <2>3, <2>6, <2>8, <2>9, <1>1, <1>2, <1>3 DEF WriterInv
<1>6. CASE ~(Len(segments) > Window)
  <2>1. segments' = segments
    BY <1>6 DEF Trim
  <2>2. Len(segments) = Kept(seqNo + 1)
    BY <1>3, <1>6 DEF Kept
  <2>3. Placed'
    BY <2>1, <2>2, <1>1, <1>2, <1>3, <1>4 DEF Placed
  <2>4. WriterType' /\ Flows(Flow, bufFrom)'
    BY <2>1, <1>1, <1>2 DEF WriterType, Flow, Flows
  <2> QED
    BY <2>1, <2>3, <2>4, <1>1, <1>2, <1>3 DEF WriterInv
<1> QED
  BY <1>5, <1>6

LEMMA BumpKeeps ==
  ASSUME WriterInv, Bump
  PROVE  WriterInv' /\ Held' = Held /\ seqNo' = seqNo + 1
                    /\ segments' = segments /\ segments # <<>>
<1> USE HlsAssumption
<1>1. WriterType /\ Placed /\ Flows(Flow, bufFrom) /\ bufFrom <= wpos
  BY DEF WriterInv
<1>2. /\ wpc = "bump" /\ wpc' = "idle" /\ segments' = segments
      /\ seqNo' = seqNo + 1
      /\ bufFrom' = bufFrom /\ wpos' = wpos /\ chunk' = chunk
  BY DEF Bump
<1>3. seqNo + 1 <= bufFrom /\ seqNo \in Nat /\ bufFrom \in Numbers
  BY <1>1, <1>2 DEF Placed, Started, WriterType, Numbers
<1>4. WriterType'
  BY <1>1, <1>2, <1>3 DEF WriterType, Numbers
<1>5. Held' = Held /\ Started' = Started /\ Held = seqNo + 1
  BY <1>2 DEF Held, Started
<1>6. Placed'
  BY <1>1, <1>2, <1>5 DEF Placed
<1>7. Flows(Flow, bufFrom)'
  BY <1>1, <1>2 DEF Flow, Flows
<1>8. segments # <<>>
  <2>1. Len(segments) = Kept(seqNo + 1)
    BY <1>1, <1>2, <1>5 DEF Placed
  <2>2. Len(segments) > 0
    BY <2>1, <1>3 DEF Kept
  <2> QED
    BY <2>2, <1>1 DEF WriterType
<1> QED
  BY <1>1, <1>2, <1>4, <1>5, <1>6, <1>7, <1>8 DEF WriterInv

(* A step of the writer takes nothing away from a request.                 *)
LEMMA WriterStepServes ==
  ASSUME WriterInv, RequestInv, WriterStep \/ \E k \in 1..MaxWrite : Write(k)
  PROVE  WriterInv' /\ RequestInv'
<1> USE HlsAssumption
<1>1. UNCHANGED reqVars
  BY DEF WriterStep, AppendSegment, Trim, Bump, Write
<1>2. RequestType' /\ Answered'
  BY <1>1 DEF RequestInv, RequestType, Answered, reqVars
<1>3. shown' = shown /\ rpc' = rpc
  BY <1>1 DEF reqVars
<1>4. shown.start \in Nat /\ shown.count \in Nat
  BY DEF RequestInv, RequestType, Playlists, Numbers
<1>5. seqNo \in Nat /\ segments \in Seq(Chunk) /\ Held \in Nat
      /\ Len(segments) \in Nat
  BY DEF WriterInv, WriterType, Numbers, Held
<1>6. ASSUME NEW k \in 1..MaxWrite, Write(k) PROVE WriterInv' /\ RequestInv'
  <2>1. UNCHANGED dataVars /\ Held' = Held
    BY <1>6 DEF Write, Held, dataVars
  <2> QED
    BY <2>1, <1>2, <1>3, <1>6, WriteKeeps
       DEF RequestInv, WokenServed, ShownBehind, dataVars
<1>7. CASE AppendSegment
  <2>1. /\ segments' = Append(segments, chunk) /\ seqNo' = seqNo
        /\ ready' = ready /\ Held' = Held + 1
    BY <1>7 DEF AppendSegment, Held
  <2>2. chunk \in Chunk
    BY DEF WriterInv, WriterType
  <2>3. segments' # <<>> /\ Len(segments') = Len(segments) + 1
    BY <2>1, <2>2, <1>5
  <2>4. ShownBehind'
    BY <2>1, <2>3, <1>3, <1>4, <1>5 DEF RequestInv, ShownBehind
  <2> QED
    BY <2>1, <2>3, <2>4, <1>2, <1>7, AppendKeeps DEF RequestInv, WokenServed
<1>8. CASE Trim
  <2>1. seqNo' = seqNo /\ ready' = ready
    BY <1>8 DEF Trim
  <2>2. /\ WriterInv' /\ Held' = Held /\ Len(segments') <= Len(segments)
        /\ (segments # <<>> => segments' # <<>>)
    BY <1>8, TrimKeeps
  <2>3. Len(segments') \in Nat
    BY <2>2 DEF WriterInv, WriterType
  <2>4. ShownBehind'
    BY <2>1, <2>2, <2>3, <1>3, <1>4, <1>5 DEF RequestInv, ShownBehind
  <2> QED
    BY <2>1, <2>2, <2>4, <1>2, <1>3 DEF RequestInv, WokenServed
<1>9. CASE Bump
  <2>1. ready' = TRUE
    BY <1>9 DEF Bump
  <2>2. /\ WriterInv' /\ Held' = Held /\ seqNo' = seqNo + 1
        /\ segments' = segments /\ segments # <<>>
    BY <1>9, BumpKeeps
  <2>3. ShownBehind'
    BY <2>2, <1>3, <1>4, <1>5 DEF RequestInv, ShownBehind
  <2> QED
    BY <2>1, <2>2, <2>3, <1>2 DEF RequestInv, WokenServed
<1> QED
  BY <1>6, <1>7, <1>8, <1>9 DEF WriterStep

-----------------------------------------------------------------------------
(* The requests.                                                           *)

(* While mu is free, the list is as Playlist() describes it.               *)
LEMMA ListingFits ==
  ASSUME WriterInv, MuFree
  PROVE  /\ Held = seqNo /\ Len(segments) <= seqNo
         /\ seqNo \in Nat /\ Len(segments) \in Nat
         /\ Listing \in Playlists
<1> USE HlsAssumption
<1>1. Held = seqNo /\ wpc # "trim" /\ seqNo \in Numbers
      /\ Len(segments) \in Nat
  BY DEF WriterInv, WriterType, MuFree, Held
<1>2. Len(segments) = Kept(seqNo)
  BY <1>1 DEF WriterInv, Placed
<1>3. Len(segments) <= seqNo /\ Len(segments) \in 0..Window
  BY <1>1, <1>2 DEF Kept, Numbers
<1>4. seqNo - Len(segments) \in Numbers
  BY <1>1, <1>3 DEF Numbers
<1> QED
  BY <1>1, <1>3, <1>4 DEF Listing, Playlists, Numbers

(* Then, a number gets its own segment or none.                            *)
LEMMA SegmentRight ==
  ASSUME WriterInv, MuFree, NEW n \in Nat
  PROVE  /\ Segment(n) \in Answers
         /\ Segment(n).got = "segment" => Segment(n).chunk.n = n
<1> USE HlsAssumption
<1>1. /\ Held = seqNo /\ Len(segments) <= seqNo
      /\ seqNo \in Nat /\ Len(segments) \in Nat
  BY ListingFits
<1>2. CASE n < StartSeq \/ n - StartSeq >= Len(segments)
  BY <1>2 DEF Segment, NotFound, Answers
<1>3. CASE ~(n < StartSeq \/ n - StartSeq >= Len(segments))
  <2> DEFINE i == n - StartSeq + 1
  <2>1. i \in 1..Len(segments)
    BY <1>1, <1>3 DEF StartSeq
  <2>2. segments[i] \in Chunk
    BY <2>1 DEF WriterInv, WriterType
  <2>3. segments[i].n \in Nat
    BY <2>2 DEF Chunk, Numbers
  <2>4. segments[i].n + Len(segments) + 1 = seqNo + i
    BY <2>1, <1>1 DEF WriterInv, Placed
  <2>5. i + seqNo = n + Len(segments) + 1
    BY <1>1 DEF StartSeq
  <2>6. segments[i].n = n
    <3> HIDE DEF i
    <3> QED
      BY <2>1, <2>3, <2>4, <2>5, <1>1
  <2>7. Segment(n) = [got |-> "segment", chunk |-> segments[i]]
    BY <1>3 DEF Segment
  <2> QED
    BY <2>2, <2>6, <2>7 DEF Answers
<1> QED
  BY <1>2, <1>3

(* A request that gets an answer keeps it.                                 *)
LEMMA Done ==
  ASSUME RequestInv, NEW r \in Requests, NEW a \in Answers,
         want[r].what = "segment" /\ a.got = "segment"
           => a.chunk.n = want[r].n,
         rpc' = [rpc EXCEPT ![r] = "done"],
         answer' = [answer EXCEPT ![r] = a],
         UNCHANGED <<want, seen>>, shown' \in Playlists
  PROVE  RequestType' /\ Answered'
<1>1. RequestType /\ Answered
  BY DEF RequestInv
<1>2. RequestType'
  BY <1>1 DEF RequestType
<1>3. ASSUME NEW q \in Requests
      PROVE  /\ rpc'[q] # "done" => answer'[q] = Pending
             /\ want'[q].what = "segment" /\ answer'[q].got = "segment"
                  => answer'[q].chunk.n = want'[q].n
  <2>1. CASE q = r
    BY <2>1, <1>1 DEF RequestType
  <2>2. CASE q # r
    BY <2>2, <1>1 DEF RequestType, Answered
  <2> QED
    BY <2>1, <2>2
<1> QED
  BY <1>2, <1>3 DEF Answered

(* A request that goes on to point p.                                      *)
LEMMA GoesOn ==
  ASSUME RequestInv, NEW r \in Requests,
         NEW p \in {"found", "reset", "waiting", "woken", "timedout"},
         rpc[r] # "done",
         rpc' = [rpc EXCEPT ![r] = p], UNCHANGED <<want, seen, answer, shown>>
  PROVE  RequestType' /\ Answered'
<1>1. RequestType /\ Answered
  BY DEF RequestInv
<1>2. RequestType'
  BY <1>1 DEF RequestType
<1> QED
  BY <1>1, <1>2 DEF RequestType, Answered

LEMMA HandOutRight ==
  ASSUME WriterInv, RequestInv, MuFree, NEW r \in Requests, HandOut(r),
         UNCHANGED <<want, seen>>, UNCHANGED writeVars, UNCHANGED dataVars,
         rpc[r] # "done"
  PROVE  RequestInv' /\ shown'.start >= shown.start
           /\ shown'.start + shown'.count >= shown.start + shown.count
<1>1. /\ Held = seqNo /\ Len(segments) <= seqNo
      /\ seqNo \in Nat /\ Len(segments) \in Nat
      /\ Listing \in Playlists
  BY ListingFits
<1>2. Held' = Held
  BY DEF Held, writeVars, dataVars
<1> DEFINE a == [got |-> "playlist", list |-> Listing]
<1>3. a \in Answers /\ a.got # "segment"
  BY <1>1 DEF Answers
<1>4. RequestType' /\ Answered'
  <2> HIDE DEF a
  <2>1. answer' = [answer EXCEPT ![r] = a]
        /\ rpc' = [rpc EXCEPT ![r] = "done"] /\ shown' = Listing
    BY DEF HandOut, a
  <2> QED
    BY <2>1, <1>1, <1>3, Done
<1>5. shown' = [start |-> seqNo - Len(segments), count |-> Len(segments)]
  BY DEF HandOut, Listing
<1>6. shown.start \in Nat /\ shown.count \in Nat
  BY DEF RequestInv, RequestType, Playlists, Numbers
<1>7. /\ shown.start + Len(segments) <= seqNo
      /\ shown.start + shown.count <= seqNo
  BY <1>1 DEF RequestInv, ShownBehind
<1>8. ShownBehind' /\ shown'.start >= shown.start
        /\ shown'.start + shown'.count >= shown.start + shown.count
  BY <1>1, <1>2, <1>5, <1>6, <1>7 DEF ShownBehind, dataVars
<1>9. WokenServed'
  BY DEF RequestInv, RequestType, WokenServed, HandOut, dataVars
<1> QED
  BY <1>4, <1>8, <1>9 DEF RequestInv, dataVars

Advances ==
  /\ shown'.start >= shown.start
  /\ shown'.start + shown'.count >= shown.start + shown.count

(* What a step leaves alone stays right.                                   *)
LEMMA ListUntouched ==
  ASSUME RequestInv, UNCHANGED <<wpc, segments, seqNo, shown>>
  PROVE  ShownBehind' /\ Advances
<1>1. shown.start \in Nat /\ shown.count \in Nat
  BY DEF RequestInv, RequestType, Playlists, Numbers
<1> QED
  BY <1>1 DEF RequestInv, ShownBehind, Held, Advances

LEMMA LookupKeeps ==
  ASSUME WriterInv, RequestInv, NEW r \in Requests, Lookup(r)
  PROVE  RequestInv' /\ Advances
<1>1. RequestType /\ Answered /\ rpc[r] = "idle" /\ answer[r] = Pending
  BY DEF RequestInv, Lookup, Answered
<1>2. UNCHANGED <<seen, shown, poolVars, writeVars, dataVars>>
  BY DEF Lookup
<1>3. PICK w \in Wants : want' = [want EXCEPT ![r] = w]
  BY DEF Lookup
<1>4. \E p \in {"found", "done"}, a \in {Pending, NotFound} :
        /\ rpc' = [rpc EXCEPT ![r] = p] /\ answer' = [answer EXCEPT ![r] = a]
        /\ p # "done" => a = Pending
  <2>1. CASE inMap
    <3>1. answer' = [answer EXCEPT ![r] = Pending]
      BY <2>1, <1>1 DEF Lookup, RequestType
    <3> QED
      BY <3>1, <2>1 DEF Lookup
  <2>2. CASE ~inMap
    BY <2>2 DEF Lookup
  <2> QED
    BY <2>1, <2>2
<1>5. RequestType'
  BY <1>1, <1>2, <1>3, <1>4 DEF RequestType, Answers
<1>6. Answered'
  BY <1>1, <1>3, <1>4 DEF RequestType, Answered, Pending, NotFound
<1>7. WokenServed'
  BY <1>2, <1>4 DEF RequestInv, RequestType, WokenServed, dataVars
<1>8. ShownBehind' /\ Advances
  BY <1>2, ListUntouched DEF writeVars, dataVars
<1> QED
  BY <1>2, <1>5, <1>6, <1>7, <1>8 DEF RequestInv, dataVars

LEMMA WokenKeeps ==
  ASSUME RequestInv, NEW r \in Requests, Woken(r)
  PROVE  RequestInv' /\ Advances
<1>1. RequestType' /\ Answered'
  BY GoesOn DEF Woken
<1>2. WokenServed' /\ ready' = FALSE
  BY DEF RequestInv, Woken, WokenServed
<1>3. ShownBehind' /\ Advances
  BY ListUntouched DEF Woken, writeVars
<1> QED
  BY <1>1, <1>2, <1>3 DEF RequestInv

(* Reset, the first look at an empty list, and the timeout.                *)
LEMMA MovesKeep ==
  ASSUME RequestInv, NEW r \in Requests,
         \/ ResetTimer(r) \/ GiveUp(r)
         \/ FirstRead(r) /\ segments = <<>>
  PROVE  RequestInv' /\ Advances
<1>1. PICK p \in {"reset", "waiting", "timedout"} :
        /\ rpc' = [rpc EXCEPT ![r] = p] /\ rpc[r] # "done"
        /\ UNCHANGED <<want, seen, answer, shown, writeVars, dataVars>>
  BY DEF ResetTimer, GiveUp, FirstRead
<1>2. RequestType' /\ Answered'
  BY <1>1, GoesOn
<1>3. WokenServed'
  BY <1>1 DEF RequestInv, RequestType, WokenServed, dataVars
<1>4. ShownBehind' /\ Advances
  BY <1>1, ListUntouched DEF writeVars, dataVars
<1> QED
  BY <1>1, <1>2, <1>3, <1>4 DEF RequestInv, dataVars

(* An answer that is a segment or none.                                    *)
LEMMA AnswerKeeps ==
  ASSUME WriterInv, RequestInv, NEW r \in Requests,
         \/ SecondRead(r) /\ segments = <<>>
         \/ ReadSegment(r) \/ ReadInit(r)
  PROVE  RequestInv' /\ Advances
<1>1. /\ rpc' = [rpc EXCEPT ![r] = "done"]
      /\ UNCHANGED <<want, seen, shown, poolVars, writeVars, dataVars>>
  BY DEF SecondRead, ReadSegment, ReadInit
<1>2. \E a \in Answers :
        /\ answer' = [answer EXCEPT ![r] = a]
        /\ want[r].what = "segment" /\ a.got = "segment"
             => a.chunk.n = want[r].n
  <2>1. CASE SecondRead(r) /\ segments = <<>>
    <3>1. NotFound \in Answers /\ NotFound.got # "segment"
      BY DEF NotFound, Answers
    <3>2. answer' = [answer EXCEPT ![r] = NotFound]
      BY <2>1 DEF SecondRead
    <3> QED
      BY <3>1, <3>2
  <2>2. CASE ReadSegment(r)
    <3>1. want[r] \in Wants /\ want[r].what = "segment" /\ MuFree
      BY <2>2 DEF RequestInv, RequestType, ReadSegment
    <3>2. want[r].n \in Nat
      BY <3>1 DEF Wants, Numbers
    <3>3. Segment(want[r].n) \in Answers
          /\ (Segment(want[r].n).got = "segment"
                => Segment(want[r].n).chunk.n = want[r].n)
      BY <3>1, <3>2, SegmentRight
    <3> QED
      BY <3>3, <2>2 DEF ReadSegment
  <2>3. CASE ReadInit(r)
    <3>1. MuFree /\ want[r].what = "init"
      BY <2>3 DEF ReadInit
    <3>2. NotFound \in Answers
      BY DEF NotFound, Answers
    <3>3. CASE seen[r].seq < seen[r].len
      BY <3>1, <3>2, <3>3, <2>3 DEF ReadInit
    <3>4. CASE ~(seen[r].seq < seen[r].len)
      <4> DEFINE n == seen[r].seq - seen[r].len
      <4>1. seen[r] \in [seq : Numbers \cup {Unread},
                         len : (0..Window + 1) \cup {Unread}]
        BY DEF RequestInv, RequestType
      <4>2. n \in Nat
        BY <4>1, <3>4, HlsAssumption DEF Numbers, Unread
      <4>3. Segment(n) \in Answers
        BY <4>2, <3>1, SegmentRight
      <4>4. answer' = [answer EXCEPT ![r] = Segment(n)]
        BY <2>3, <3>4 DEF ReadInit
      <4> QED
        BY <4>3, <4>4, <3>1
    <3> QED
      BY <3>3, <3>4
  <2> QED
    BY <2>1, <2>2, <2>3
<1>3. shown' \in Playlists
  BY <1>1 DEF RequestInv, RequestType
<1>4. RequestType' /\ Answered'
  BY <1>1, <1>2, <1>3, Done
<1>5. WokenServed'
  BY <1>1 DEF RequestInv, RequestType, WokenServed, dataVars
<1>6. ShownBehind' /\ Advances
  BY <1>1, ListUntouched DEF writeVars, dataVars
<1> QED
  BY <1>1, <1>4, <1>5, <1>6 DEF RequestInv, dataVars

(* An init request reads the two fields, in either order.                  *)
LEMMA ReadUnlockedKeeps ==
  ASSUME WriterInv, RequestInv, NEW r \in Requests, ReadUnlocked(r)
  PROVE  RequestInv' /\ Advances
<1>1. UNCHANGED <<rpc, want, answer, shown, poolVars, writeVars, dataVars>>
  BY DEF ReadUnlocked
<1>2. seqNo \in Numbers /\ Len(segments) \in 0..(Window + 1)
  <2>1. Len(segments) \in Nat /\ seqNo \in Nat
    BY DEF WriterInv, WriterType, Numbers
  <2>2. Len(segments) <= Window + 1
    BY <2>1, HlsAssumption DEF WriterInv, Placed, Kept, Held
  <2> QED
    BY <2>1, <2>2, HlsAssumption DEF WriterInv, WriterType
<1>3. RequestType
  BY DEF RequestInv
<1>4. seen' \in [Requests -> [seq : Numbers \cup {Unread},
                              len : (0..Window + 1) \cup {Unread}]]
  <2>1. CASE seen' = [seen EXCEPT ![r].seq = seqNo]
    BY <2>1, <1>2, <1>3 DEF RequestType
  <2>2. CASE seen' = [seen EXCEPT ![r].len = Len(segments)]
    BY <2>2, <1>2, <1>3 DEF RequestType
  <2> QED
    BY <2>1, <2>2 DEF ReadUnlocked
<1>5. RequestType' /\ Answered' /\ WokenServed'
  BY <1>1, <1>3, <1>4
     DEF RequestInv, RequestType, Answered, WokenServed, dataVars
<1>6. ShownBehind' /\ Advances
  BY <1>1, ListUntouched DEF writeVars, dataVars
<1> QED
  BY <1>1, <1>5, <1>6 DEF RequestInv, dataVars

LEMMA HandsOut ==
  ASSUME WriterInv, RequestInv, NEW r \in Requests,
         FirstRead(r) \/ SecondRead(r), segments # <<>>
  PROVE  RequestInv' /\ Advances
<1>1. /\ MuFree /\ HandOut(r) /\ rpc[r] # "done"
      /\ UNCHANGED <<want, seen>> /\ UNCHANGED writeVars
      /\ UNCHANGED dataVars
  BY DEF FirstRead, SecondRead
<1> QED
  BY <1>1, HandOutRight DEF Advances

LEMMA RequestKeeps ==
  ASSUME HlsInv, NEW r \in Requests,
         Lookup(r) \/ RequestStep(r) \/ Woken(r) \/ GiveUp(r)
  PROVE  HlsInv' /\ Advances
<1>1. UNCHANGED writeVars /\ UNCHANGED <<segments, seqNo>>
  BY DEF Lookup, RequestStep, ResetTimer, FirstRead, SecondRead, ReadUnlocked,
         ReadInit, ReadSegment, Woken, GiveUp, dataVars
<1>2. WriterInv'
  BY <1>1 DEF HlsInv, WriterInv, WriterType, Placed, Flows, Flow, Held,
              Started, writeVars
<1>3. PoolType'
  <2>1. CASE ResetTimer(r)
    BY <2>1 DEF ResetTimer, HlsInv, PoolType
  <2>2. CASE ~ResetTimer(r)
    <3>1. UNCHANGED poolVars
      BY <2>2 DEF Lookup, RequestStep, FirstRead, SecondRead, ReadUnlocked,
                  ReadInit, ReadSegment, Woken, GiveUp
    <3> QED
      BY <3>1 DEF HlsInv, PoolType, poolVars
  <2> QED
    BY <2>1, <2>2
<1>4. RequestInv' /\ Advances
  BY LookupKeeps, WokenKeeps, MovesKeep, AnswerKeeps, ReadUnlockedKeeps,
     HandsOut DEF HlsInv, RequestStep
<1> QED
  BY <1>2, <1>3, <1>4 DEF HlsInv

-----------------------------------------------------------------------------
(* The handler, the timer and its callbacks.                               *)

LEMMA PoolKeeps ==
  ASSUME HlsInv,
         \/ HandlerStep \/ TimerFires \/ RunReturns
         \/ \E i \in Callbacks : ReaperStep(i)
  PROVE  HlsInv' /\ Advances
<1>1. UNCHANGED writeVars /\ UNCHANGED dataVars /\ UNCHANGED reqVars
  BY DEF HandlerStep, ArmTimer, Register, Spawn, TimerFires, RunReturns,
         ReaperStep, Delete, StopConsumer, Unlist
<1>2. PoolType'
  <2>1. CASE HandlerStep \/ RunReturns
    BY <2>1 DEF HandlerStep, ArmTimer, Register, Spawn, RunReturns, HlsInv,
                PoolType
  <2>2. CASE TimerFires
    BY <2>2 DEF TimerFires, HlsInv, PoolType
  <2>3. ASSUME NEW i \in Callbacks, ReaperStep(i) PROVE PoolType'
    BY <2>3 DEF ReaperStep, Delete, StopConsumer, Unlist, HlsInv, PoolType
  <2> QED
    BY <2>1, <2>2, <2>3
<1>3. WriterInv'
  BY <1>1 DEF HlsInv, WriterInv, WriterType, Placed, Flows, Flow, Held,
              Started, writeVars, dataVars
<1>4. RequestType' /\ WokenServed' /\ Answered' /\ ready' \in BOOLEAN
  BY <1>1 DEF HlsInv, RequestInv, RequestType, WokenServed, Answered,
              dataVars, reqVars
<1>5. ShownBehind' /\ Advances
  BY <1>1, ListUntouched DEF HlsInv, writeVars, dataVars, reqVars
<1> QED
  BY <1>2, <1>3, <1>4, <1>5 DEF HlsInv, RequestInv

LEMMA WriterKeeps ==
  ASSUME HlsInv, WriterStep \/ \E k \in 1..MaxWrite : Write(k)
  PROVE  HlsInv' /\ Advances
<1>1. UNCHANGED poolVars /\ UNCHANGED reqVars
  BY DEF WriterStep, AppendSegment, Trim, Bump, Write
<1>2. WriterInv' /\ RequestInv'
  BY WriterStepServes DEF HlsInv
<1>3. shown.start \in Nat /\ shown.count \in Nat
  BY DEF HlsInv, RequestInv, RequestType, Playlists, Numbers
<1>4. PoolType' /\ Advances
  BY <1>1, <1>3 DEF HlsInv, PoolType, poolVars, reqVars, Advances
<1> QED
  BY <1>2, <1>4 DEF HlsInv

-----------------------------------------------------------------------------
LEMMA HlsInvInit == Init => HlsInv
<1> SUFFICES ASSUME Init PROVE HlsInv
  OBVIOUS
<1> USE HlsAssumption
<1>1. PoolType
  BY DEF Init, PoolType
<1>2. NoChunk \in Chunk
  BY DEF NoChunk, Chunk, Numbers
<1>3. WriterInv
  BY <1>2 DEF Init, WriterInv, WriterType, Placed, Flows, Flow, Held, Started,
              Kept, Numbers
<1>4. RequestType
  BY DEF Init, RequestType, Wants, Answers, Playlists, Numbers
<1>5. RequestInv
  <2>1. Answered
    BY DEF Init, Answered
  <2>2. WokenServed /\ ready \in BOOLEAN
    BY DEF Init, WokenServed
  <2>3. ShownBehind
    BY DEF Init, ShownBehind, Held
  <2> QED
    BY <1>4, <2>1, <2>2, <2>3 DEF RequestInv
<1> QED
  BY <1>1, <1>3, <1>5 DEF HlsInv

LEMMA HlsInvNext == HlsInv /\ [Next]_vars => HlsInv' /\ Advances
<1> SUFFICES ASSUME HlsInv, [Next]_vars PROVE HlsInv' /\ Advances
  OBVIOUS
<1>1. CASE UNCHANGED vars
  <2>1. PoolType' /\ WriterInv'
    BY <1>1 DEF vars, poolVars, writeVars, dataVars, HlsInv, PoolType,
                WriterInv, WriterType, Placed, Flows, Flow, Held, Started
  <2>2. RequestType' /\ WokenServed' /\ Answered' /\ ready' \in BOOLEAN
    BY <1>1 DEF vars, dataVars, reqVars, HlsInv, RequestInv, RequestType,
                WokenServed, Answered
  <2>3. ShownBehind' /\ Advances
    BY <1>1, ListUntouched DEF HlsInv, vars, writeVars, dataVars, reqVars
  <2> QED
    BY <2>1, <2>2, <2>3 DEF HlsInv, RequestInv
<1> QED
  BY <1>1, PoolKeeps, WriterKeeps, RequestKeeps DEF Next

LEMMA HlsAlways == Spec => []HlsInv
<1> QED
  BY HlsInvInit, HlsInvNext, PTL DEF Spec

(* Every variable of the session keeps its type; the list never grows      *)
(* beyond the window and one.                                              *)
THEOREM HlsTypeCorrect == Spec => []TypeOK
<1>1. HlsInv => TypeOK
  <2> SUFFICES ASSUME HlsInv PROVE TypeOK
    OBVIOUS
  <2>1. Len(segments) \in Nat /\ seqNo \in Nat
    BY DEF HlsInv, WriterInv, WriterType, Numbers
  <2>2. Len(segments) <= Window + 1
    BY <2>1, HlsAssumption DEF HlsInv, WriterInv, Placed, Kept, Held
  <2> QED
    BY <2>2 DEF HlsInv, PoolType, WriterInv, WriterType, RequestInv,
                RequestType, TypeOK
<1> QED
  BY <1>1, HlsAlways, PTL

(* Segments keep the numbers that playlists give them.                     *)
THEOREM SegmentsNumbered == Spec => []Numbering
<1>1. HlsInv => Numbering
  <2> SUFFICES ASSUME HlsInv, wpc = "idle" PROVE Numbering
    BY DEF Numbering
  <2>1. Held = seqNo /\ seqNo \in Nat /\ segments \in Seq(Chunk)
        /\ Len(segments) \in Nat
    BY DEF Held, HlsInv, WriterInv, WriterType, Numbers
  <2>2. Len(segments) = Kept(seqNo)
    BY <2>1 DEF HlsInv, WriterInv, Placed
  <2>3. ASSUME NEW i \in 1..Len(segments)
        PROVE  segments[i].n = seqNo - Len(segments) + i - 1
    <3>1. segments[i] \in Chunk
      BY <2>1
    <3>2. segments[i].n \in Nat
      BY <3>1 DEF Chunk, Numbers
    <3>3. segments[i].n + Len(segments) + 1 = seqNo + i
      BY <2>1 DEF HlsInv, WriterInv, Placed
    <3> QED
      BY <3>2, <3>3, <2>1
  <2> QED
    BY <2>2, <2>3 DEF Numbering, Kept
<1> QED
  BY <1>1, HlsAlways, PTL

(* No byte is lost, repeated or moved across a flush.                      *)
THEOREM NothingLost == Spec => []Contiguous
<1>1. HlsInv => Contiguous
  BY DEF HlsInv, WriterInv, Contiguous, Flows, Flow
<1> QED
  BY <1>1, HlsAlways, PTL

(* A request for a segment gets the one it names or none.                  *)
THEOREM SegmentsExact == Spec => []SegmentExact
<1>1. HlsInv => SegmentExact
  BY DEF HlsInv, RequestInv, Answered, SegmentExact
<1> QED
  BY <1>1, HlsAlways, PTL

(* The ready token is never ahead of the data.                             *)
THEOREM TokenHonoured == Spec => []WokenServed
<1>1. HlsInv => WokenServed
  BY DEF HlsInv, RequestInv
<1> QED
  BY <1>1, HlsAlways, PTL

(* Playlists handed out never go back.                                     *)
THEOREM PlaylistsNeverGoBack == Spec => PlaylistsAdvance
<1>1. HlsInv /\ [Next]_vars
        => [/\ shown'.start >= shown.start
            /\ shown'.start + shown'.count >= shown.start + shown.count]_vars
  BY HlsInvNext DEF Advances
<1> QED
  BY <1>1, HlsAlways, PTL DEF Spec, PlaylistsAdvance

-----------------------------------------------------------------------------
(* The end of a session.  What SessionReaped says under fairness rests on  *)
(* two facts of every state: after the timer was armed there is always     *)
(* somebody left to remove the session until it is gone everywhere, and    *)
(* nobody removes it before the timer has run out.                         *)
(* The strengthening: what each callback has done at each of its places,   *)
(* also when an earlier one did it already.  The table is safe from being  *)
(* filled after it was cleared only if the timer does not run out before   *)
(* the handler has registered the session.                                 *)
ReapInv ==
  /\ reaper \in [Callbacks -> {"none", "delete", "stop", "unlist", "over"}]
  /\ \/ hpc = "joined" \/ timer = "armed"
     \/ \E i \in Callbacks : reaper[i] # "none"
  /\ hpc \in {"joined", "armed"} => ~inMap
  /\ Prompt /\ hpc # "running" => \A i \in Callbacks : reaper[i] = "none"
  /\ \A i \in Callbacks :
       /\ reaper[i] \in {"unlist", "over"} => stopped
       /\ reaper[i] = "over" => ~listed
       /\ Prompt /\ reaper[i] \in {"stop", "unlist", "over"} => ~inMap
  /\ stopped \/ ~listed \/ (hpc \in {"registered", "running"} /\ ~inMap)
       => \E i \in Callbacks : reaper[i] # "none"

LEMMA ReapInvInit == Init => ReapInv
<1> QED
  BY DEF Init, ReapInv

LEMMA CallbackKeeps ==
  ASSUME ReapInv, NEW i \in Callbacks, ReaperStep(i)
  PROVE  ReapInv'
<1>1. /\ reaper[i] # "none" /\ reaper'[i] # "none"
      /\ \A j \in Callbacks : j # i => reaper'[j] = reaper[j]
      /\ UNCHANGED <<hpc, timer>>
  BY DEF ReaperStep, Delete, StopConsumer, Unlist, ReapInv
<1>2. reaper' \in [Callbacks -> {"none", "delete", "stop", "unlist", "over"}]
  BY DEF ReaperStep, Delete, StopConsumer, Unlist, ReapInv
<1>3. \E j \in Callbacks : reaper'[j] # "none"
  BY <1>1
<1>4. (stopped => stopped') /\ (~listed => ~listed') /\ (inMap' => inMap)
  BY DEF ReaperStep, Delete, StopConsumer, Unlist
<1>5. /\ hpc' \in {"joined", "armed"} => ~inMap'
      /\ Prompt => hpc' = "running"
  BY <1>1, <1>4 DEF ReapInv
<1>6. /\ reaper'[i] \in {"unlist", "over"} => stopped'
      /\ reaper'[i] = "over" => ~listed'
      /\ Prompt /\ reaper'[i] \in {"stop", "unlist", "over"} => ~inMap'
  BY DEF ReaperStep, Delete, StopConsumer, Unlist, ReapInv
<1>7. \A j \in Callbacks :
        /\ reaper'[j] \in {"unlist", "over"} => stopped'
        /\ reaper'[j] = "over" => ~listed'
        /\ Prompt /\ reaper'[j] \in {"stop", "unlist", "over"} => ~inMap'
  BY <1>1, <1>4, <1>6 DEF ReapInv
<1> QED
  BY <1>2, <1>3, <1>5, <1>7 DEF ReapInv

LEMMA ReapInvNext == ReapInv /\ [Next]_vars => ReapInv'
<1> SUFFICES ASSUME ReapInv, [Next]_vars PROVE ReapInv'
  OBVIOUS
<1>1. CASE HandlerStep
  BY <1>1 DEF HandlerStep, ArmTimer, Register, Spawn, ReapInv
<1>2. CASE TimerFires
  <2>1. PICK i \in Callbacks : /\ reaper[i] = "none"
                               /\ reaper' = [reaper EXCEPT ![i] = "delete"]
    BY <1>2 DEF TimerFires
  <2>2. /\ Prompt => hpc = "running"
        /\ UNCHANGED <<hpc, inMap, stopped, listed>>
    BY <1>2 DEF TimerFires
  <2> QED
    BY <2>1, <2>2 DEF ReapInv
<1>3. CASE \E i \in Callbacks : ReaperStep(i)
  BY <1>3, CallbackKeeps
<1>4. ASSUME UNCHANGED <<hpc, reaper, inMap, stopped, listed>>,
             timer' \in {timer, "armed"}
      PROVE  ReapInv'
  BY <1>4 DEF ReapInv
<1>5. CASE RunReturns \/ WriterStep \/ \E k \in 1..MaxWrite : Write(k)
  BY <1>4, <1>5 DEF RunReturns, WriterStep, AppendSegment, Trim, Bump, Write,
                    poolVars
<1>6. CASE \E r \in Requests : Lookup(r) \/ RequestStep(r) \/ Woken(r)
                                 \/ GiveUp(r)
  BY <1>4, <1>6 DEF Lookup, RequestStep, ResetTimer, FirstRead, SecondRead,
                    ReadUnlocked, ReadInit, ReadSegment, HandOut, Woken,
                    GiveUp, poolVars
<1>7. CASE UNCHANGED vars
  BY <1>4, <1>7 DEF vars, poolVars
<1> QED
  BY <1>1, <1>2, <1>3, <1>5, <1>6, <1>7 DEF Next

(* A session never leaks and never ends early, however often a request     *)
(* that looked it up in time re-arms a timer that has fired and callbacks  *)
(* overlap: the safety under hls.go's keep-alive.  With Prompt, gone means *)
(* gone from the table as well.                                            *)
THEOREM SessionNeverStranded == Spec => []SessionAccounted
<1>1. ReapInv => SessionAccounted
  <2> SUFFICES ASSUME ReapInv, hpc # "joined", timer # "armed",
                      \A i \in Callbacks : reaper[i] \notin Busy
               PROVE  stopped /\ ~listed /\ (Prompt => ~inMap)
    BY DEF ReapInv, SessionAccounted
  <2>1. PICK i \in Callbacks : reaper[i] # "none"
    BY DEF ReapInv
  <2>2. reaper[i] = "over"
    BY <2>1 DEF ReapInv, Busy
  <2> QED
    BY <2>2 DEF ReapInv
<1> QED
  BY <1>1, ReapInvInit, ReapInvNext, PTL DEF Spec
=============================================================================
