# A TLA+ model of StrixCamFake

StrixCamFake is a fake IP camera: two looping videos, *main* and *sub*, pushed
by two ffmpeg processes into its own RTSP server and handed out from there to
clients of many protocols. The program is twelve Go files in `src/`; the
protocol and container code is the go2rtc library, which is not in the
repository and is modelled from how this code uses it.

Run everything from this directory: `tlc -config MCServing.cfg MCServing.tla`
checks a model, `tlapm ServingProofs.tla` checks proofs. `PROJECT.json` lists
the runs, which lines each definition models, a mutant for every checked
property, the hazards, and the theorems.

## The system

| Component | State | Operations | Interacts with |
|---|---|---|---|
| Stream hub, `stream.go` | per stream: `prod`, `receivers`, `consumers` under `mu` | `SetProducer`, `AddConsumer`, `RemoveConsumer`, `HasProducer` | everybody below |
| ffmpeg pusher, `ffmpeg.go` | one child process per stream | restart loop with a pause of 3 s | announces itself to the RTSP server |
| RTSP server, `rtsp_server.go` | one goroutine per connection | ANNOUNCE (producer), DESCRIBE (consumer), end | `SetProducer`, `AddConsumer`; never `RemoveConsumer` |
| RTMP server, `rtmp_server.go` | one goroutine per connection | play | adds and removes (deferred) |
| HTTP streams, `http_server.go` | one goroutine per request, for MP4 a watcher as well | MP4, keyframe, FLV, MPEG-TS | adds; removed by the handler or the watcher |
| HLS, `hls.go` | table of sessions (`hlsMu`); per session segments, `seqNo`, `ready` (`mu`), a timer | stream, playlist, segment, init | adds; the timer removes |
| MJPEG, `http_server.go` | a child ffmpeg per request | start, copy its output, kill it | the child is an RTSP player |
| Credentials and mux, `http_server.go` | the registered paths | look up, compare | `Config` |
| DVRIP, `dvrip_server.go` | connection: session, `seq`; consumer: `sender`, `done` | login, command loop, streaming | adds and removes (deferred) |
| Bubble, `bubble_server.go` | connection: buffered reader, one deadline; consumer: `sender`, `done`, `gotKeyframe` | request, auth, start, streaming | adds and removes (deferred) |
| Snapshot, `snapshot.go` | last JPEG | capture loop, `Get` | a child ffmpeg that is an RTSP player |
| ONVIF, `onvif.go` | none | SOAP answers, WS-Discovery answers | names URLs of the RTSP and HTTP servers |
| Configuration, `config.go`, `main.go` | environment, `Config` | read `.env`, then the environment, then defaults | everybody |
| Start-up, `main.go` | how far `main` got; each listener | start all servers, then ffmpeg and snapshots, print the URLs | everybody; `docker-compose.yml` restarts it |
| Routing, in the four servers | none | path, name, query or field to main or sub | the printed list and ONVIF name such URLs |

What is hard here. Every connection has a goroutine of its own, the library
adds one per consumer track, and helpers (MP4's watcher, the HLS timer, the
sender goroutines) clean up behind the handlers' backs. `RemoveConsumer` stops
its consumer before it takes the lock. The producer may be replaced between
any two steps of a client and is never cleared when it dies. Writes have
deadlines on some protocols and none on others; channels drop packets when
full; timers may be re-armed after they fired. A Bubble client may send ahead,
in pieces, or not at all. Children die and come back, accept loops end, and an
image outlives the producer it shows. URLs are printed by one file, answered by
another, resolved by a third, and cut up by a client in between. What makes each part correct:

* hub: a client is fed by one producer at a time, and by none once it is
  removed; receivers are those of the producer of now;
* handlers: whatever ends a session, the stream forgets its consumer, once and
  for good, and not while it is still being served;
* HLS: a segment number always means the same bytes, playlists never go back,
  no byte is lost at a flush, a session nobody asks for disappears;
* DVRIP and Bubble: `done` is closed once, frames keep their order, the first
  is a key frame, answers match commands, a silent client is let go;
* Bubble: client and server agree where they are in the handshake, which ends;
* program: settings take the documented precedence, every URL handed out
  leads where it says, who answers discovery has the endpoint, streams and snapshots return
  after a failure and never go back in time.

## The modules

| Module | Models | Main correspondences |
|---|---|---|
| `Stream` | `stream.go` | `SetProducer`, `AddConsumer` are one action each; `RemoveConsumer` is `Stop` (before the lock) and `Unlist` (under it). `StreamSpec` lets any caller run any of them. |
| `Serving` (extends `Stream`) | the callers in `rtsp_server.go`, `rtmp_server.go`, `http_server.go`, `hls.go`, the two raw servers, `ffmpeg.go` | `pc[c]` is the handler of client `c`, `rm[c]` the `RemoveConsumer` call on it, whoever makes it; `kind[c]` says which of seven shapes of handler it is. |
| `Subscription` | nothing of the code: the promise of a stream to a client | refined by `Serving` through `SubscriptionSpec`. |
| `HlsSession` | `hls.go` | one session: creation, timer and its callbacks, `segmentWriter`, requests. `addSegment` is split in three steps because one reader does not lock. |
| `RawSession` | streaming part of `dvrip_server.go` and `bubble_server.go` | producer (which may die), sender goroutine and worker around a bounded channel and `done`; `protocol` tells the two apart where they differ. |
| `Bubble` (extends `RawSession`) | `handleBubbleConn` from accept on | `stage` is where the handler is; the client's units go from `arriving` to the reader's buffer `buffered`; `clock` is the deadline. Stage "peek" is the `Peek(32)` after a wrong start packet. In stage "streaming" the steps are `RawSession`'s. |
| `Settings` | `config.go`, and what one line of `.env` does | operators; `Program`'s action `DotEnv` applies them line by line. |
| `Routing` | the resolvers of four servers, the mux and what each path gives, `checkHTTPAuth`, the URLs of `printEndpoints` and `onvif.go` | operators over classes of URLs. What a client makes of a URL lies between the two sides: `Marks` (what a word of a credential means in a URL), `App` (what an RTMP client connects to), `StreamType` (what a DVRIP client claims). |
| `Program` (extends `Settings`, `Routing`) | `main.go`, accept loops, `ffmpeg.go`, `snapshot.go`, `handleMJPEGStream`, the restart by compose | `pc` is `main`; `server[s]` is a listener; `producer[s]` the number of the connection in `Stream.prod`; `snapper` and `mjpeg` are a loop or handler together with its child. |
| `Dvrip` | `handleDVRIPConn` and its helpers | login and command loop; one action per outcome of `readCmd` and per kind of command. |

`Serving` has an HLS or DVRIP client as one consumer with a coarse pump;
`HlsSession` and `RawSession` look inside that consumer and see the stream as
the one flag `listed`. `Serving` has one `RemoveConsumer` call on a client at a
time; HLS callbacks that overlap are in `HlsSession`. `Dvrip` ends where `RawSession` begins; `Bubble` contains
it. `Program` has both streams and sees of a connection only which producer it
is or reads.

Data are abstracted to what decides control: a codec is a name and a clock
rate, a track the position in its producer's offer, a frame a number and one
of key, delta, empty; HLS bytes are an interval of the byte stream; a DVRIP
command is its kind, number and the one JSON field that matters; a Bubble
packet its command and length; a setting the sequence of its words between
underscores, with the marks of each word; a URL what the resolvers look at.
Of the characters that mean something in a URL a word has a class: one that ends
a path (`?`, `#`), a `%` that starts no escape, an escape, one that cannot be in
a URL's user info (`/` and others). Media and text formats are left
out. All modules but `Program` and `Routing` have one stream, for the two share
nothing.

## Runs

All runs but `stream` set `CHECK_DEADLOCK FALSE`: the system may stop for good when
the bounded supply of clients, commands or frames is used up and all are gone.

| Run | Bounds | Shows |
|---|---|---|
| `stream` | 2 producers, 2 consumers, 2 adds each | Type, `ReceiversCurrent`, `NoOrphanSender`, `AttachStep` for every interleaving of calls, with failing `GetTrack` and `AddTrack`. The second producer offers two video tracks so that the first-match rule has a choice. |
| `serving` | 2 producers (ffmpeg and its restart), 1 client of any of 7 kinds | `FinishedClean`, `ServedIsListed`, `SingleSource`; refinement of `StreamSpec` and `SubscriptionSpec`; `WatchedDeparture`, `UnwatchedDeparture` under fairness. |
| `hls` | window 2, a flush at 2 units, writes of up to 3, 6 units, 2 requests (one of any kind, one for a playlist), 2 timer callbacks | `Numbering`, `Contiguous`, `SegmentExact`, `WokenServed`, `PlaylistsAdvance`, `SessionAccounted`; `SessionReaped` and `RequestAnswered` under fairness. The window slides and a segment may end beyond the threshold; two requests can wait for one token; the timer may fire, be armed again by a request and fire again while the first callback is at work. A third callback would meet what the second meets: the proof of `SessionAccounted` is for any number. |
| `dvrip` | 4 commands, 2 numbers, 2 commands ahead of the server; a tick is 10 s | `RepliesMatch`, `StartedAsClaimed`, `SilentEnds`. Four commands allow login, two Claims and Start. |
| `raw` | channel of 2, frames numbered up to 3; payloads of -1, 43, 44 and 48 bytes; a deadline of 2 ticks; 2 units sent ahead | For both protocols and from accept to end: `DoneClosedOnce`, `WireOrdered`, `KeyFirst` of the session; `InStep` and `HandshakeEnds` of Bubble's handshake; `BubbleTypeOK` and `ConnectionEnds` of all of it. The producer may die at any step. Frames beyond the bound are sent but not recorded. The lengths lie on both sides of what the code tests and cuts, and -1 is what a size field below 5 gives; two units are enough for a packet behind another, complete or cut. |
| `program` | 6 installations, 2 faults | `Precedence`, `AdvertisedServed`, `DiscoveryServed`, `ImageAdvances`; `StreamReturns`, `Refreshed`, `MjpegReaped` under fairness. The installations have an empty variable, a key given twice, `.env` against environment, a refused value, and credentials with an underscore, a `?`, a `%`, an escape and a `/`. Two faults let one thing fail while another is being repaired, or the process die twice. |
| `serving_reconnect` | as `serving`, clients of four kinds | violates `ServedByProducer`. |
| `serving_forget` | as `serving`, RTSP clients | violates `ReturnedIsForgotten`. |
| `hls_init` | the code's window of 5, 7 units | violates `InitIsFirst`. |
| `dvrip_alive` | as `dvrip` | violates `IntervalHonoured`. |
| `raw_auth` | as `raw` | violates `AuthTaken`. |
| `raw_key` | as `raw` | violates `StartsWithKey`. |

One client is enough in `serving`: clients meet only in the hub, whose run has
two, and the theorems below hold for any number of both. Two producers are
enough to be replaced once; every further replacement meets the same state up
to names.

The violations are disagreements between the code and what it, or its
comments, say:

* After ffmpeg restarts, consumers stay joined to the tracks of the dead
  connection (`stream.go:31`), although ffmpeg "restarts automatically on
  failure". Clients that were watching starve until they reconnect.
* An RTSP player is never removed from `Stream.consumers`
  (`rtsp_server.go:127`).
* The init segment of an fMP4 HLS session is taken from the front of the
  window (`hls.go:277`), which is the first segment only until the sixth
  arrives.
* The DVRIP login answer asks for a keep-alive every 30 s
  (`dvrip_server.go:293`), the command loop waits 10 s (`dvrip_server.go:237`).
* `bubble_server.go:147` lets an auth payload of 44 bytes pass, which by the
  comment above it is what clients send, and line 153 cuts it up to 48: Go
  panics, the process ends with every connection in it and is restarted. The
  same holds of 45 to 47 bytes; `InStep` says that only 48 and more are
  answered.
* If the write of the first key frame fails, Bubble may still send the next
  P-frame (`bubble_server.go:325`) before the worker closes the connection.

What the models show besides, without a run that fails for it (the hazards
behind them are in `PROJECT.json`):

* Some URLs that are printed do not lead where they are said to.
  `AdvertisedServed` says exactly which, for every configuration:
  * `/api/stream.aac` (`main.go:115`), whose handler always answers 501
    (`http_server.go:395`);
  * the two sub streams under `/bcs/` (`main.go:132`, 133): a client connects to
    `bcs`, the first segment, and `c.App` (`rtmp_server.go:57`) is all that is
    resolved, so they lead to main;
  * an `.sdp` URL when a credential has an underscore, a `%` or an escape: it is
    refused, or cut up in the wrong place and then refused. With a `?` or `#`
    the path ends there and both lead to main;
  * a DVRIP URL when a credential has a character that cannot be in the user
    info of a URL: the address is not found.

  Every other URL leads where it is said to, and the ones marked *(auth)* let
  the own credentials through, under each name they may be given by, and no
  others (nor one without the other), but also a request that brings none.
* A client of a raw stream whose producer died, or that has no track, may leave
  unnoticed: nothing is written any more. `ConnectionEnds` names both.
* A child ffmpeg that joined a producer which then died gets nothing and is
  not told. The snapshot loop waits for it for ever and keeps the old image; an
  MJPEG client may leave unnoticed. `Refreshed` and `MjpegReaped` name these
  outcomes.
* A capture that was cut off after its first bytes becomes the image.
* An accept loop that ended is not restarted and the process runs on
  (`StreamReturns` names it for RTSP).

## Fairness

* Goroutines that can run do (weak fairness of handler, helper, sender,
  worker and writer steps): the Go scheduler.
* A cancelled context wakes its watcher, timers run out, time passes: the
  runtime.
* A live producer keeps sending (`Deliver`; in `RawSession`, as long as the
  producer is fed, a key frame finds room in the channel again and again):
  ffmpeg loops its file without end and the sender goroutine drains the
  channel. Nothing says that a producer lives: it may die at any step, also
  before a client joins it. `ConnectionEnds` therefore has, besides the clean
  end, the outcomes `Trackless` and `Starved`, and that the process panicked.
* In `Bubble` the handler's steps and the clock are fair, the client is not,
  and nobody owes the 32 bytes that `Peek` waits for: the deadline ends it.
* In `Program`, `main` and compose's restart go on; ffmpeg connects to a server
  that accepts and both loops go round; a child that is fed finishes its
  picture or passes on a frame. Nothing is assumed of a child that is not fed,
  and faults are never owed.
* Nothing is assumed of clients, nor that a producer comes, stays or dies, nor
  that a slow write times out. `UnwatchedDeparture` therefore has the second
  outcome `Starved`: FLV, MPEG-TS, RTMP, keyframe and raw handlers notice a
  lost client only when they write.
* `Prompt` (in `HlsSession`) is an assumption about time: the few statements
  between arming the timer and `go session.Run()` take less than the five
  seconds of the timer. Without it a session could be registered after it was
  reaped; `hls.go:179` is listed as a hazard for that reason.

## Proofs

All theorems hold for every value of the constants, from the named `ASSUME`s
in the modules (names and finite bounds only, no fairness).

* `StreamProofs`. `StreamInv` (type, `ReceiversCurrent`, `NoOrphanSender`,
  `StopIsFinal`) is inductive: the half of `RemoveConsumer` under the lock
  needs `StopIsFinal`, because it is the other half that closed the senders.
  `AttachCorrect` derives the action property from the first-match rule.
* `ServingProofs`. `ServingInv` adds `Lifecycle`: at each point of a handler
  and of the removal, how often the consumer is listed and whether it is
  stopped (`RemovalStage`, `HeldByStream`). From it follow `FinishedClean`,
  `ServedIsListed`, `SingleSource`, and that each real step is a step of the
  open hub (`ServingImplementsStream`): the callers never add a stopped
  consumer and never unlist an open one.
* `SubscriptionProofs`. Under the mapping `PhaseOf`, `SourcesOf` every step of
  `Serving` is a step of `Subscription` or a stutter. The mp4 watcher's double
  `Stop` and a second firing of the HLS timer are the stutters.
* `DvripProofs`. `DvripInv` adds `Progress` (the number of answers is given by
  the program counter) and `FollowsClaims` (the variable `stream` is that of
  the last Claim read) to the three properties.
* `HlsProofs`, the data. The invariant counts flushes: `Started` have left the buffer,
  `Held` have reached the list, `seqNo` are counted, and the three differ only
  inside `addSegment`. `Placed` says that the list holds the newest
  `Kept(Held)` of them under their numbers; `Flows` that their bytes follow each
  other up to `bufFrom`; `ShownBehind` that no playlist was ahead of the list.
  A segment request reads `seqNo` and the length of the list under one lock, so
  `Placed` gives it the right chunk. `PlaylistsAdvance` follows from
  `ShownBehind` at the moment the next playlist is made. It says that neither
  end of the list goes back; a client that asks too rarely finds a hole between
  two lists all the same, for the window slides on without it.
* `HlsProofs`, the end of a session. `SessionAccounted` is the safety under
  `SessionReaped`: after the timer was armed it is armed still, or a callback
  is at work, or the session is stopped, unlisted and out of the table; and
  nothing of that happens before the timer ran out once. `ReapInv` says what
  each callback has done at each of its places, whether or not an earlier one
  did it first. Only the part about the table needs `Prompt`.
* `RawProofs`. `CloseInv`: the worker leaves its wait only when `done` is
  closed, so the sender's check-then-close has no rival. `OrderInv`: the frames
  in the channel and in the sender's hands are ahead of all on the wire and in
  order among themselves, and the chunk number never passes the frame number.
  `KeyInv`: until a write fails, the sender holds the key frame if it has seen
  one and written none. `AtBound` is about the model's bound only, from which
  on frames are not recorded. `Teardown` is the safety under `ConnectionEnds`:
  while the worker waits, channel, connection and list entry are there and the
  sender goroutine has not ended; when it has returned, all are gone. It needs
  `CloseInv`, for the worker's own steps do not say that `done` was closed.
* `BubbleProofs`. `StepInv` says for every stage exactly what was read before
  it; that an auth packet that was answered had 48 bytes follows from
  `AuthOutcome`. With it go `FlowInv` and `CloseInv` of `RawProofs`: the
  handshake's steps leave the session alone, so all three of its safety
  properties hold for `BubbleSpec`, the specification that the run checks.
* `ProgramProofs`. `ServersInv`: once `main` is past HTTP its mux has the paths
  that the configuration asks for, and discovery starts later. `ImageInv`: a
  running capture reads a producer that is not older than the image and not
  newer than the producer of now.

* `ProgramProofs`, the settings. `Precedence` compares what a loop over the
  lines left behind with a description of it. `SettingsInv` is the loop's
  invariant: a variable that the environment gives has that value; any other
  has the value of the first line before `line` that gives it one, or none.
  Since a line is one step of `main`, no induction over data is needed.
* `ProgramProofs`, the types. `MainType` carries that a configuration is
  complete before a path is registered (`ConfigComplete` holds of every
  environment); `RunType` is about the loops and their children.
* `ProgramProofs`, the URLs. `AdvertisedServed` holds of every configuration:
  `Right` says of one URL that it is served if and only if `Misled` does not
  name it, and the set of all is the union of a few (`AllRight`), each followed
  through the switch of its server. The `.sdp` form takes the longest way:
  `SdpParts` finds, for credentials of any number of words, what is left of
  each after the cut at underscores, and `SdpResolves` compares that with the
  credentials. `AuthExact` is about `checkHTTPAuth`: own credentials pass under
  every pair of names, half of them or others do not. Of `Marks`, the classes
  of the words, nothing is assumed.
* `ProgramProofs`, the order. `StartedInOrder` says that whatever pushes or
  plays was started behind the listeners it needs, that a stream with a
  producer has a pusher to replace it, and that no child reads a producer that
  never was. `Reached` gives how far `main` is when a listener is up.

Every safety invariant, action property and refinement that a passing run
checks is a theorem, in the form the run checks it. `Teardown` and
`StartedInOrder` are stated in the proof modules only.

Only model-checked: all liveness (`WatchedDeparture`, `UnwatchedDeparture`,
`SessionReaped`, `RequestAnswered`, `SilentEnds`, `HandshakeEnds`,
`ConnectionEnds`, `StreamReturns`, `Refreshed`, `MjpegReaped`), which is out of
the prover's reach together with ENABLED.

## Not modelled

* Everything inside the library: RTSP and RTMP handshakes and digest
  authentication, containers, RTP depacketising, the codecs.
* The text of ONVIF and WS-Discovery answers, of the XML that Bubble sends and
  of playlists: made from one request, with no state. The URLs in them are in
  `Routing`.
* The AAC handler beyond its answer, which is always 501; the web UI, a constant
  page. `getResolutionStream` and `parseRTSPAuth` are called by nobody.
* Cutting `.env` into lines and fields, and the settings that are only passed
  on (ports, names, files).
* In `Bubble`, a sync byte inside bytes that are skipped: it would start a
  packet whose length is whatever follows.
* The write of `track.Codec.FmtpLine` in Bubble's sender without a lock
  (`bubble_server.go:303`), while others read it: a text of codec parameters
  which every writer derives from the same video.
* Build files. Of the container image only the restart policy is modelled.

## What is left

The order of work was: the hub with its callers, HLS sessions, raw streaming,
DVRIP commands, then Bubble's handshake, the whole program and its routes, and
proofs for each. What could follow:

1. One model of `Program` with `Serving` inside, so that a restart of the
   process meets clients of every kind. Today `Serving` stands for a process
   that lives, and in `Program` all connections but three are left out.
2. DVRIP's login composed with `RawSession` the way Bubble's handshake is.
