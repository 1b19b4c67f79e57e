------------------------------ MODULE Program -------------------------------
(***************************************************************************)
(* The whole process, from main() on: configuration, servers and their     *)
(* accept loops, the two ffmpeg pushers, the snapshot loop, and one client *)
(* of the MJPEG handler.  What crosses between them is modelled: whether a *)
(* server accepts, which connection is a stream's producer, and which      *)
(* producer the child of a snapshot or MJPEG request is joined to.  What   *)
(* happens inside a connection is in the other modules.                    *)
(*                                                                         *)
(* Everything but the settings is lost when the process exits; compose     *)
(* starts it again (docker-compose.yml, "restart: unless-stopped").        *)
(*                                                                         *)
(* What may go wrong costs one of faults: a file or a port that is not to  *)
(* be had, a listener that breaks, a child process that dies, a panic in   *)
(* the goroutine of a connection (Bubble.tla has one).                     *)
(***************************************************************************)
EXTENDS Naturals, Settings, Routing

CONSTANTS
  Installations,  (* environments and .env files it is started with        *)
  Faults          (* bound: how often something goes wrong                 *)

ASSUME ProgramAssumption ==
  /\ Faults \in Nat
  /\ Installations \subseteq [environ : [Keys -> Value], dotenv : Seq(Line)]

Servers == {"rtsp", "http", "rtmp", "bubble", "dvrip", "discovery"}

VARIABLES
  inst,      (* the environment and the .env file                          *)
  faults,    (* how often something may still go wrong                     *)
  pc,        (* main()                                                     *)
  line,      (* loadDotEnv: the line of .env that is next                  *)
  environ,   (* the environment of the process                             *)
  cfg,       (* Config                                                     *)
  server,    (* a server is off, up, or deaf: its accept loop ended        *)
  routes,    (* the paths registered in the HTTP mux                       *)
  pusher,    (* the loop of startFFmpeg, per stream                        *)
  producer,  (* the number of its producer, 0 while Stream.prod is nil     *)
  snapper,   (* the snapshot loop, and the producer its ffmpeg reads       *)
  image,     (* Snapshot.data: the producer it is from, and if it is whole *)
  mjpeg,     (* handleMJPEGStream, and the producer its ffmpeg reads       *)
  left       (* the client of the MJPEG handler went away                  *)

worldVars   == <<inst, faults>>
envVars     == <<line, environ>>
mainVars    == <<pc, envVars, cfg>>
serverVars  == <<server, routes>>
pushVars    == <<pusher, producer>>
snapVars    == <<snapper, image>>
mjpegVars   == <<mjpeg, left>>
vars == <<worldVars, mainVars, serverVars, pushVars, snapVars, mjpegVars>>

NoConfig == LoadConfig([k \in Keys |-> <<>>])
NoImage  == [from |-> 0, whole |-> FALSE]
Idle     == [at |-> "none", from |-> 0, stream |-> "main"]

(* A process that has done nothing yet.                                    *)
Init ==
  /\ inst \in Installations /\ faults = Faults
  /\ pc = "dotenv" /\ line = 1 /\ environ = inst.environ /\ cfg = NoConfig
  /\ server = [s \in Servers |-> "off"] /\ routes = {}
  /\ pusher = [s \in Streams |-> "none"]
  /\ producer = [s \in Streams |-> 0]
  /\ snapper = Idle /\ image = NoImage
  /\ mjpeg = Idle /\ left = FALSE

(* A step that goes wrong.                                                 *)
Fault == faults > 0 /\ faults' = faults - 1

(* The process ends and nothing of it is left.                             *)
Exit ==
  /\ pc' = "exited" /\ line' = 1 /\ environ' = inst.environ
  /\ cfg' = NoConfig
  /\ server' = [s \in Servers |-> "off"] /\ routes' = {}
  /\ pusher' = [s \in Streams |-> "none"]
  /\ producer' = [s \in Streams |-> 0]
  /\ snapper' = Idle /\ image' = NoImage
  /\ mjpeg' = Idle /\ left' = FALSE
  /\ UNCHANGED inst

HasProducer(s) == producer[s] > 0
Alive(s, n)    == pusher[s] = "pushing" /\ producer[s] = n

-----------------------------------------------------------------------------
(* main().                                                                 *)

At(here, there) == pc = here /\ pc' = there

DotEnv ==
  /\ pc = "dotenv"
  /\ IF line \in DOMAIN inst.dotenv
     THEN /\ environ' = SetMissing(environ, inst.dotenv[line])
          /\ line' = line + 1 /\ pc' = pc
     ELSE pc' = "config" /\ UNCHANGED envVars
  /\ UNCHANGED <<worldVars, cfg, serverVars, pushVars, snapVars, mjpegVars>>

Config ==
  /\ At("config", "videos")
  /\ cfg' = LoadConfig(environ)
  /\ UNCHANGED <<worldVars, envVars, serverVars, pushVars, snapVars,
                 mjpegVars>>

(* A video that is not there is fatal.                                     *)
Videos ==
  /\ pc = "videos"
  /\ \/ /\ pc' = "rtsp"
        /\ UNCHANGED <<worldVars, envVars, cfg, serverVars, pushVars,
                       snapVars, mjpegVars>>
     \/ Fault /\ Exit

(* The order in which main starts the servers.                             *)
After == [rtsp |-> "http", http |-> "rtmp", rtmp |-> "bubble",
          bubble |-> "dvrip", dvrip |-> "discovery", discovery |-> "wait"]

(* The program cannot do without these.                                    *)
Needed == {"rtsp", "http", "rtmp"}

(* net.Listen, synchronous; the goroutine that accepts runs from then on.  *)
Listen(s) ==
  /\ At(s, After[s])
  /\ server' = [server EXCEPT ![s] = "up"]
  /\ routes' = IF s = "http" THEN HttpRoutes(cfg) ELSE routes
  /\ UNCHANGED <<worldVars, envVars, cfg, pushVars, snapVars, mjpegVars>>

ListenFails(s) ==
  /\ pc = s /\ Fault
  /\ \/ s \in Needed /\ Exit
     \/ /\ s \notin Needed /\ pc' = After[s]
        /\ UNCHANGED <<inst, envVars, cfg, serverVars, pushVars, snapVars,
                       mjpegVars>>

(* Mutant: the switch is not looked at.                                    *)
DiscoverAlways == Listen("discovery")

StartDiscovery ==
  \/ cfg.onvifEnabled /\ (Listen("discovery") \/ ListenFails("discovery"))
  \/ /\ ~cfg.onvifEnabled /\ At("discovery", "wait")
     /\ UNCHANGED <<worldVars, envVars, cfg, serverVars, pushVars, snapVars,
                    mjpegVars>>

StartServers ==
  \/ \E s \in Servers \ {"discovery"} : Listen(s) \/ ListenFails(s)
  \/ StartDiscovery

(* The pause of 500 ms, then both pushers and the snapshot loop.           *)
Launch ==
  /\ At("wait", "print")
  /\ pusher' = [s \in Streams |-> "starting"]
  /\ snapper' = [Idle EXCEPT !.at = "pause"]
  /\ UNCHANGED <<worldVars, envVars, cfg, serverVars, producer, image,
                 mjpegVars>>

PrintAll ==
  /\ At("print", "ready")
  /\ UNCHANGED <<worldVars, envVars, cfg, serverVars, pushVars, snapVars,
                 mjpegVars>>

-----------------------------------------------------------------------------
(* The servers while they run.                                             *)

(* Accept returns an error: the loop ends, the listener stays open.        *)
AcceptFails(s) ==
  /\ s \notin {"http", "discovery"}
  /\ server[s] = "up" /\ Fault
  /\ server' = [server EXCEPT ![s] = "deaf"]
  /\ UNCHANGED <<inst, mainVars, routes, pushVars, snapVars, mjpegVars>>

(* http.Serve returns an error, which is fatal, or a connection's          *)
(* goroutine panics outside of net/http, which would catch it.             *)
Crash ==
  /\ \E s \in Servers : server[s] # "off"
  /\ Fault /\ Exit

Restart ==
  /\ At("exited", "dotenv")
  /\ UNCHANGED <<worldVars, envVars, cfg, serverVars, pushVars, snapVars,
                 mjpegVars>>

-----------------------------------------------------------------------------
(* The loop of startFFmpeg(s).                                             *)

(* ANNOUNCE is accepted: SetProducer.                                      *)
PusherConnects(s) ==
  /\ pusher[s] = "starting" /\ server["rtsp"] = "up"
  /\ pusher' = [pusher EXCEPT ![s] = "pushing"]
  /\ producer' = [producer EXCEPT ![s] = @ + 1]
  /\ UNCHANGED <<worldVars, mainVars, serverVars, snapVars, mjpegVars>>

(* Mutant: the loop ends when ffmpeg exits.                                *)
PusherStops(s) ==
  /\ pusher[s] \in {"starting", "pushing"} /\ Fault
  /\ pusher' = [pusher EXCEPT ![s] = "none"]
  /\ UNCHANGED <<inst, mainVars, serverVars, producer, snapVars, mjpegVars>>

(* The process exits, whatever its status, or finds nobody to talk to; the *)
(* stream keeps the dead connection as its producer.                       *)
PusherExits(s) ==
  /\ pusher[s] \in {"starting", "pushing"}
  /\ \/ Fault
     \/ pusher[s] = "starting" /\ server["rtsp"] # "up" /\ UNCHANGED faults
  /\ pusher' = [pusher EXCEPT ![s] = "pause"]
  /\ UNCHANGED <<inst, mainVars, serverVars, producer, snapVars, mjpegVars>>

PusherRestarts(s) ==
  /\ pusher[s] = "pause"
  /\ pusher' = [pusher EXCEPT ![s] = "starting"]
  /\ UNCHANGED <<worldVars, mainVars, serverVars, producer, snapVars,
                 mjpegVars>>

PusherStep(s) ==
  PusherConnects(s) \/ PusherExits(s) \/ PusherRestarts(s)

-----------------------------------------------------------------------------
(* A child ffmpeg is an RTSP player like any other: DESCRIBE joins it to   *)
(* the producer that the stream has then, dead or alive, and to no other.  *)
Joined(child, s)  == [child EXCEPT !.at = "joined", !.from = producer[s]]
CanJoin(child, s) ==
  child.at = "exec" /\ server["rtsp"] = "up" /\ HasProducer(s)

(* Its run ends without a word: it was refused, or it was cut off.         *)
Dies(child, s) ==
  \/ child.at \in {"exec", "joined"} /\ Fault
  \/ child.at = "exec" /\ ~CanJoin(child, s) /\ UNCHANGED faults
  \/ child.at = "joined" /\ ~Alive(s, child.from) /\ UNCHANGED faults

(* StartSnapshotLoop.                                                      *)
SnapExec ==
  /\ snapper.at = "pause"
  /\ snapper' = [snapper EXCEPT !.at = "exec", !.from = 0]
  /\ UNCHANGED <<worldVars, mainVars, serverVars, pushVars, image, mjpegVars>>

SnapJoins ==
  /\ CanJoin(snapper, "main")
  /\ snapper' = Joined(snapper, "main")
  /\ UNCHANGED <<worldVars, mainVars, serverVars, pushVars, image, mjpegVars>>

(* The child wrote its frame and ended: captureSnapshot has output.        *)
SnapTaken ==
  /\ snapper.at = "joined"
  /\ image' = [from |-> snapper.from, whole |-> TRUE]
  /\ snapper' = [snapper EXCEPT !.at = "pause"]
  /\ UNCHANGED <<worldVars, mainVars, serverVars, pushVars, mjpegVars>>

(* Mutant: what a failed run leaves, nothing, is set as well.              *)
SnapFailsSets ==
  /\ Dies(snapper, "main")
  /\ image' = NoImage
  /\ snapper' = [snapper EXCEPT !.at = "pause"]
  /\ UNCHANGED <<inst, mainVars, serverVars, pushVars, mjpegVars>>

(* Mutant: the loop ends at the first failure.                             *)
SnapFailsStops ==
  /\ Dies(snapper, "main")
  /\ snapper' = [snapper EXCEPT !.at = "none"]
  /\ UNCHANGED <<inst, mainVars, serverVars, pushVars, image, mjpegVars>>

(* The child died: without output the image stays; with part of a frame    *)
(* captureSnapshot looks no further and that part becomes the image.       *)
SnapFails ==
  /\ Dies(snapper, "main")
  /\ \/ image' = image
     \/ snapper.at = "joined" /\ image' = [from |-> snapper.from,
                                           whole |-> FALSE]
  /\ snapper' = [snapper EXCEPT !.at = "pause"]
  /\ UNCHANGED <<inst, mainVars, serverVars, pushVars, mjpegVars>>

-----------------------------------------------------------------------------
(* handleMJPEGStream: the handler starts the child, copies its output      *)
(* until either end fails, then kills the child and waits for it.          *)
MjpegStarts ==
  /\ mjpeg.at = "none" /\ server["http"] = "up"
  /\ \E query \in {{}, {"stream=1"}} :
       LET s == ResolveHTTP(query) IN
         HasProducer(s) /\ mjpeg' = [Idle EXCEPT !.at = "exec", !.stream = s]
  /\ UNCHANGED <<worldVars, mainVars, serverVars, pushVars, snapVars, left>>

MjpegJoins ==
  /\ CanJoin(mjpeg, mjpeg.stream)
  /\ mjpeg' = Joined(mjpeg, mjpeg.stream)
  /\ UNCHANGED <<worldVars, mainVars, serverVars, pushVars, snapVars, left>>

(* Mutant: only the end of the child is noticed.                           *)
CopyEndsEOF ==
  /\ Dies(mjpeg, mjpeg.stream)
  /\ mjpeg' = [mjpeg EXCEPT !.at = "kill"]
  /\ UNCHANGED <<inst, mainVars, serverVars, pushVars, snapVars, left>>

(* io.Copy returns: the child's output ended, or a frame of it could not   *)
(* be written because the client is not there any more.                    *)
CopyEnds ==
  /\ \/ Dies(mjpeg, mjpeg.stream)
     \/ /\ mjpeg.at = "joined" /\ Alive(mjpeg.stream, mjpeg.from) /\ left
        /\ UNCHANGED faults
  /\ mjpeg' = [mjpeg EXCEPT !.at = "kill"]
  /\ UNCHANGED <<inst, mainVars, serverVars, pushVars, snapVars, left>>

MjpegKills ==
  /\ mjpeg.at = "kill"
  /\ mjpeg' = [mjpeg EXCEPT !.at = "over"]
  /\ UNCHANGED <<worldVars, mainVars, serverVars, pushVars, snapVars, left>>

ClientLeaves ==
  /\ mjpeg.at # "none" /\ ~left /\ left' = TRUE
  /\ UNCHANGED <<worldVars, mainVars, serverVars, pushVars, snapVars, mjpeg>>

-----------------------------------------------------------------------------
MainStep ==
  DotEnv \/ Config \/ Videos \/ StartServers \/ Launch \/ PrintAll \/ Restart

SnapStep  == SnapExec \/ SnapJoins \/ SnapTaken \/ SnapFails
MjpegStep == MjpegJoins \/ CopyEnds \/ MjpegKills

Next ==
  \/ MainStep
  \/ \E s \in Servers : AcceptFails(s)
  \/ Crash
  \/ \E s \in Streams : PusherStep(s)
  \/ SnapStep
  \/ MjpegStarts \/ MjpegStep \/ ClientLeaves

Spec == Init /\ [][Next]_vars

(* main goes on, and compose restarts it; ffmpeg reaches a server that     *)
(* accepts, and the loops go round; a child that is fed does its work, and *)
(* a frame of it goes to the client or fails.  Nothing is promised of a    *)
(* child that is not fed: no call of this program ends it.                 *)
FairSpec ==
  /\ Spec
  /\ WF_vars(MainStep)
  /\ \A s \in Streams :
       WF_vars(PusherConnects(s)) /\ WF_vars(PusherRestarts(s))
  /\ WF_vars(SnapExec) /\ WF_vars(SnapJoins)
  /\ WF_vars(Alive("main", snapper.from) /\ SnapTaken)
  /\ WF_vars(MjpegJoins) /\ WF_vars(MjpegKills)
  /\ WF_vars(left /\ Alive(mjpeg.stream, mjpeg.from) /\ CopyEnds)

-----------------------------------------------------------------------------
Child == [at : {"none", "pause", "exec", "joined", "kill", "over"},
          from : Nat, stream : Streams]

(* The shape of the state; in it, that credentials are never empty.        *)
TypeOK ==
  /\ inst \in Installations /\ faults \in 0..Faults
  /\ pc \in {"dotenv", "config", "videos", "wait", "print", "ready", "exited"}
            \cup Servers
  /\ line \in 1..(Len(inst.dotenv) + 1) /\ environ \in [Keys -> Value]
  /\ cfg \in [username : Value \ {<<>>}, password : Value \ {<<>>},
              onvifEnabled : BOOLEAN, snapshotInterval : Value]
  /\ server \in [Servers -> {"off", "up", "deaf"}]
  /\ routes \subseteq HttpRoutes(cfg)
  /\ pusher \in [Streams -> {"none", "starting", "pushing", "pause"}]
  /\ producer \in [Streams -> Nat]
  /\ snapper \in Child /\ image \in [from : Nat, whole : BOOLEAN]
  /\ mjpeg \in Child /\ left \in BOOLEAN

(* main.go: an existing variable wins over .env, there the first line that *)
(* gives it a value wins, and only a key without one gets the default.     *)
Given(k) ==
  {i \in DOMAIN inst.dotenv :
     inst.dotenv[i].key = k /\ inst.dotenv[i].value # <<>>}

InForce(k) ==
  IF inst.environ[k] # <<>> THEN inst.environ[k]
  ELSE IF Given(k) = {} THEN Default[k]
  ELSE inst.dotenv[CHOOSE i \in Given(k) : \A j \in Given(k) : i <= j].value

Precedence ==
  pc \notin {"dotenv", "config", "exited"} =>
    /\ cfg.username = InForce("USERNAME")
    /\ cfg.password = InForce("PASSWORD")
    /\ InForce("ONVIF_ENABLED") \in {<<"on">>, <<"off">>} =>
         (cfg.onvifEnabled <=> InForce("ONVIF_ENABLED") = <<"on">>)

(* Every URL the program hands out leads where it says, and nowhere else:  *)
(* what main.go prints and what the ONVIF answers contain, against the     *)
(* switches, the mux, the handlers and the credential checks of four other *)
(* files.  A path that is said to need credentials accepts the own ones    *)
(* under every name it knows and as basic auth, and refuses others.        *)
(* Misled lists the URLs that do not, exactly: the AAC stream (the handler *)
(* has no consumer); the sub streams under /bcs/ (the server looks at the  *)
(* app, which is "bcs"); the sdp URLs with an underscore or a character    *)
(* that means something in a URL in a credential, but for main streams     *)
(* when a '?' makes of it just any path; the DVRIP URLs with a character   *)
(* that no user info may have.                                             *)
AuthHolds ==
  LET own   == <<cfg.username, cfg.password>>
      none  == <<<<>>, <<>>>>
      tried == {<<>>, cfg.username, cfg.password,
                cfg.username \o cfg.password}
  IN \A u, p \in tried :
       /\ \A i \in DOMAIN UserNames, j \in DOMAIN PasswordNames :
            CheckHTTPAuth(Query(UserNames[i], u, PasswordNames[j], p),
                          <<>>, cfg)
              <=> <<u, p>> \in {own, none}
       /\ CheckHTTPAuth(NoQuery, <<u, p>>, cfg) <=> <<u, p>> = own

Serves(path, content) == path \in routes /\ Content(path) = content

Served(e) ==
  CASE e.proto \in {"rtsp", "sdp"} -> ResolveRTSP(e.url, cfg) = e.claim
    [] e.proto = "rtmp" -> ResolveRTMP(App(e.url)) = e.claim
    [] e.proto = "dvrip" ->
         e.url.form = "dvrip" /\ ResolveDVRIP(StreamType(e.url)) = e.claim
    [] e.proto = "http" ->
         /\ Serves(e.url.parts[1].value, e.claim)
         /\ e.url.parts[1].value \notin AuthPaths
    [] e.proto = "auth" ->
         /\ Serves(e.url.parts[1].value, e.claim)
         /\ e.url.parts[1].value \in AuthPaths /\ AuthHolds

WholeWords == Len(cfg.username) = 1 /\ Len(cfg.password) = 1

Credentials == cfg.username \o cfg.password

SdpMisled(stream) ==
  \/ Has(Credentials, {"%"})
  \/ Has(Credentials, {"?"}) /\ stream = "sub"
  \/ ~Has(Credentials, {"?"}) /\ (Has(Credentials, {"%41"}) \/ ~WholeWords)

Misled(e) ==
  CASE e.proto = "sdp"   -> SdpMisled(e.claim)
    [] e.proto = "dvrip" -> Has(Credentials, {"?", "%", "/"})
    [] e.proto = "rtmp"  -> e.claim = "sub" /\ e.url.parts[1].value = "bcs"
    [] e.proto = "http"  -> e.claim = "AAC"
    [] OTHER -> FALSE

AdvertisedServed ==
  pc = "ready" => \A e \in Advertised(cfg) : Served(e) <=> ~Misled(e)

(* main.go: "otherwise clients would discover us and then fail on the      *)
(* (missing) SOAP endpoint".  Who answers probes has the endpoint.         *)
DiscoveryServed ==
  server["discovery"] # "off" => server["http"] = "up" /\ "/onvif/" \in routes

(* For as long as the process lives, a client that got a snapshot gets one *)
(* again, and never one from an earlier producer: failed captures, a dying *)
(* and returning ffmpeg and a capture that outlives its producer do not    *)
(* turn time back.                                                         *)
ImageAdvances == [][pc' # "exited" => image'.from >= image.from]_vars

(* Whatever dies, both streams are fed again once things stop going wrong; *)
(* unless RTSP's accept loop ended, which nothing in the program repairs.  *)
StreamReturns ==
  \/ <>[](\A s \in Streams : pusher[s] = "pushing")
  \/ <>[](server["rtsp"] = "deaf")

(* Then the snapshot is of the producer of now, and whole; unless the      *)
(* capture waits for a producer that is no more, which it does for ever.   *)
Refreshed ==
  \/ <>[](image = [from |-> producer["main"], whole |-> TRUE])
  \/ <>[](snapper.at = "joined" /\ ~Alive("main", snapper.from))
  \/ <>[](server["rtsp"] = "deaf")

(* An MJPEG client that left is noticed, its child killed and waited for;  *)
(* unless the child gets nothing to send, when nobody notices.             *)
MjpegReaped ==
  left ~> \/ mjpeg.at \in {"none", "over"}
          \/ [](/\ mjpeg.at \in {"exec", "joined"}
                /\ ~Alive(mjpeg.stream, mjpeg.from))
=============================================================================
