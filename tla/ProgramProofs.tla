--------------------------- MODULE ProgramProofs ----------------------------
(***************************************************************************)
(* Proofs about the whole process, for every installation and any number   *)
(* of faults: who answers probes has the endpoint, a snapshot never goes   *)
(* back to an earlier producer, the settings are those in force, every URL *)
(* handed out leads where it says, and the parts start in order.           *)
(***************************************************************************)
EXTENDS Program, TLAPS

(* The argument for discovery: from the end of "http" on its mux has the   *)
(* paths that the configuration asks for, that configuration is read once, *)
(* http never stops accepting, and discovery starts later and only with    *)
(* the switch on.                                                          *)
Listening == {"rtmp", "bubble", "dvrip", "discovery", "wait", "print", "ready"}

ServersInv ==
  /\ DOMAIN server = Servers
  /\ pc \in Listening => server["http"] = "up" /\ routes = HttpRoutes(cfg)
  /\ server["discovery"] # "off" =>
       pc \in {"wait", "print", "ready"} /\ cfg.onvifEnabled

(* The argument for the image: a producer's number only grows, a capture   *)
(* is joined to the producer that the stream has then, and the image does  *)
(* not change while it runs.                                               *)
ImageInv ==
  /\ DOMAIN producer = Streams
  /\ producer["main"] \in Nat /\ image.from \in Nat
  /\ image.from <= producer["main"]
  /\ snapper.at = "joined" =>
       /\ snapper.from \in Nat
       /\ image.from <= snapper.from /\ snapper.from <= producer["main"]

-----------------------------------------------------------------------------
LEMMA ServersInvInit == Init => ServersInv
<1> QED
  BY DEF Init, ServersInv, Servers, Listening

LEMMA ExitKeeps ==
  ASSUME Exit
  PROVE  ServersInv' /\ ImageInv'
<1> QED
  BY DEF Exit, ServersInv, ImageInv, Servers, Streams, Listening, Idle, NoImage

LEMMA ListenKeeps ==
  ASSUME ServersInv, NEW s \in Servers,
         s = "discovery" => cfg.onvifEnabled,
         Listen(s) \/ ListenFails(s)
  PROVE  ServersInv'
<1> USE DEF Servers, Listening
<1>1. CASE Listen(s)
  <2>1. /\ pc = s /\ pc' = After[s] /\ cfg' = cfg
        /\ server' = [server EXCEPT ![s] = "up"]
        /\ routes' = IF s = "http" THEN HttpRoutes(cfg) ELSE routes
    BY <1>1 DEF Listen, At
  <2>2. DOMAIN server' = Servers
    BY <2>1 DEF ServersInv
  <2>3. pc' \in Listening =>
          server'["http"] = "up" /\ routes' = HttpRoutes(cfg)
    BY <2>1 DEF ServersInv, After
  <2>4. server'["discovery"] # "off" =>
          pc' \in {"wait", "print", "ready"} /\ cfg.onvifEnabled
    BY <2>1 DEF ServersInv, After
  <2> QED
    BY <2>1, <2>2, <2>3, <2>4 DEF ServersInv
<1>2. CASE ListenFails(s)
  <2>1. CASE Exit
    BY <2>1, ExitKeeps
  <2>2. CASE /\ s \notin Needed /\ pc' = After[s]
             /\ UNCHANGED <<inst, envVars, cfg, serverVars, pushVars, snapVars,
                           mjpegVars>>
    <3>1. UNCHANGED <<cfg, server, routes>> /\ pc = s
      BY <1>2, <2>2 DEF ListenFails, serverVars
    <3>2. s \in {"bubble", "dvrip", "discovery"}
      BY <2>2 DEF Needed
    <3> QED
      BY <2>2, <3>1, <3>2 DEF ServersInv, After
  <2> QED
    BY <1>2, <2>1, <2>2 DEF ListenFails
<1> QED
  BY <1>1, <1>2

LEMMA ServersInvNext == ServersInv /\ [Next]_vars => ServersInv'
<1> SUFFICES ASSUME ServersInv, [Next]_vars PROVE ServersInv'
  OBVIOUS
<1> USE DEF Servers, Listening
<1>1. CASE DotEnv \/ Config \/ Restart
  BY <1>1 DEF DotEnv, Config, Restart, At, mainVars, serverVars, ServersInv
<1>2. CASE Videos
  <2>1. CASE Exit
    BY <2>1, ExitKeeps
  <2>2. CASE pc' = "rtsp" /\ pc = "videos" /\ UNCHANGED <<cfg, serverVars>>
    BY <2>2 DEF ServersInv, serverVars
  <2> QED
    BY <1>2, <2>1, <2>2 DEF Videos
<1>3. CASE StartServers
  <2>1. CASE \E s \in Servers \ {"discovery"} : Listen(s) \/ ListenFails(s)
    BY <2>1, ListenKeeps
  <2>2. CASE /\ cfg.onvifEnabled
             /\ Listen("discovery") \/ ListenFails("discovery")
    BY <2>2, ListenKeeps
  <2>3. CASE At("discovery", "wait") /\ UNCHANGED <<cfg, serverVars>>
    BY <2>3 DEF At, ServersInv, serverVars
  <2> QED
    BY <1>3, <2>1, <2>2, <2>3 DEF StartServers, StartDiscovery
<1>4. CASE Launch \/ PrintAll
  BY <1>4 DEF Launch, PrintAll, At, serverVars, ServersInv
<1>5. CASE \E s \in Servers : AcceptFails(s)
  <2>1. PICK s \in Servers : AcceptFails(s)
    BY <1>5
  <2>2. /\ s \notin {"http", "discovery"}
        /\ server' = [server EXCEPT ![s] = "deaf"]
        /\ UNCHANGED <<pc, cfg, routes>>
    BY <2>1 DEF AcceptFails, mainVars
  <2> QED
    BY <2>2 DEF ServersInv
<1>6. CASE Crash
  BY <1>6, ExitKeeps DEF Crash
<1>7. ASSUME UNCHANGED <<pc, cfg, server, routes>> PROVE ServersInv'
  BY <1>7 DEF ServersInv
<1>8. CASE \E s \in Streams : PusherStep(s)
  BY <1>7, <1>8
     DEF PusherStep, PusherConnects, PusherExits, PusherRestarts, mainVars,
         serverVars
<1>9. CASE SnapStep
  BY <1>7, <1>9
     DEF SnapStep, SnapExec, SnapJoins, SnapTaken, SnapFails, mainVars,
         serverVars
<1>10. CASE MjpegStarts \/ MjpegStep \/ ClientLeaves
  BY <1>7, <1>10
     DEF MjpegStarts, MjpegStep, MjpegJoins, CopyEnds, MjpegKills,
         ClientLeaves, mainVars, serverVars
<1>11. CASE UNCHANGED vars
  BY <1>7, <1>11 DEF vars, mainVars, serverVars
<1> QED
  BY <1>1, <1>2, <1>3, <1>4, <1>5, <1>6, <1>8, <1>9, <1>10, <1>11
     DEF Next, MainStep

(* Whoever answers WS-Discovery probes serves the SOAP endpoint that the   *)
(* answer names, whatever failed before.                                   *)
THEOREM ProbesAreServed == Spec => []DiscoveryServed
<1>1. ServersInv => DiscoveryServed
  BY DEF ServersInv, DiscoveryServed, Listening, HttpRoutes
<1> QED
  BY <1>1, ServersInvInit, ServersInvNext, PTL DEF Spec

-----------------------------------------------------------------------------
LEMMA ImageInvInit == Init => ImageInv
<1> QED
  BY DEF Init, ImageInv, Streams, Idle, NoImage

(* One step: the invariant stays, and the image does not go back while     *)
(* the process lives.                                                      *)
LEMMA ImageInvNext ==
  ImageInv /\ [Next]_vars =>
    ImageInv' /\ (pc' # "exited" => image'.from >= image.from)
<1> DEFINE Kept == /\ ImageInv'
                   /\ pc' # "exited" => image'.from >= image.from
<1> SUFFICES ASSUME ImageInv, [Next]_vars PROVE Kept
  OBVIOUS
<1>1. CASE Exit
  <2>1. pc' = "exited"
    BY <1>1 DEF Exit
  <2> QED
    BY <1>1, <2>1, ExitKeeps
<1>2. ASSUME UNCHANGED <<producer, snapper, image>> PROVE Kept
  BY <1>2 DEF ImageInv
<1>3. CASE MainStep
  <2>1. CASE Launch
    <3>1. UNCHANGED <<producer, image>> /\ snapper'.at = "pause"
      BY <2>1 DEF Launch, Idle
    <3> QED
      BY <3>1 DEF ImageInv
  <2>2. CASE DotEnv \/ Config \/ PrintAll \/ Restart
    BY <1>2, <2>2 DEF DotEnv, Config, PrintAll, Restart, pushVars, snapVars
  <2>3. CASE Videos
    BY <1>1, <1>2, <2>3 DEF Videos, pushVars, snapVars
  <2>4. ASSUME NEW s \in Servers, Listen(s) \/ ListenFails(s) PROVE Kept
    BY <1>1, <1>2, <2>4 DEF Listen, ListenFails, pushVars, snapVars
  <2>5. CASE StartServers
    <3>1. "discovery" \in Servers
      BY DEF Servers
    <3> QED
      BY <1>2, <2>4, <2>5, <3>1
         DEF StartServers, StartDiscovery, pushVars, snapVars
  <2> QED
    BY <1>3, <2>1, <2>2, <2>3, <2>5 DEF MainStep
<1>4. CASE (\E s \in Servers : AcceptFails(s)) \/ Crash
  BY <1>1, <1>2, <1>4 DEF AcceptFails, Crash, pushVars, snapVars
<1>5. CASE \E s \in Streams : PusherStep(s)
  <2>1. PICK s \in Streams : PusherStep(s)
    BY <1>5
  <2>2. CASE PusherConnects(s)
    <3>1. producer' = [producer EXCEPT ![s] = @ + 1]
          /\ UNCHANGED <<snapper, image>>
      BY <2>2 DEF PusherConnects, snapVars
    <3>2. producer'["main"] \in Nat /\ producer'["main"] >= producer["main"]
          /\ DOMAIN producer' = Streams
      BY <3>1 DEF ImageInv, Streams
    <3> QED
      BY <3>1, <3>2 DEF ImageInv
  <2>3. CASE PusherExits(s) \/ PusherRestarts(s)
    BY <1>2, <2>3 DEF PusherExits, PusherRestarts, snapVars
  <2> QED
    BY <2>1, <2>2, <2>3 DEF PusherStep
<1>6. CASE SnapStep
  <2>1. CASE SnapExec
    <3>1. UNCHANGED <<producer, image>> /\ snapper'.at # "joined"
      BY <2>1 DEF SnapExec, pushVars
    <3> QED
      BY <3>1 DEF ImageInv
  <2>2. CASE SnapJoins
    <3>1. UNCHANGED <<producer, image>> /\ snapper'.from = producer["main"]
      BY <2>2 DEF SnapJoins, Joined, pushVars
    <3> QED
      BY <3>1 DEF ImageInv
  <2>3. CASE SnapTaken
    <3>1. /\ snapper.at = "joined" /\ UNCHANGED producer
          /\ image'.from = snapper.from /\ snapper'.at # "joined"
      BY <2>3 DEF SnapTaken, pushVars
    <3> QED
      BY <3>1 DEF ImageInv
  <2>4. CASE SnapFails
    <3>1. /\ UNCHANGED producer /\ snapper'.at # "joined"
          /\ \/ image' = image
             \/ snapper.at = "joined" /\ image'.from = snapper.from
      BY <2>4 DEF SnapFails, pushVars
    <3> QED
      BY <3>1 DEF ImageInv
  <2> QED
    BY <1>6, <2>1, <2>2, <2>3, <2>4 DEF SnapStep
<1>7. CASE MjpegStarts \/ MjpegStep \/ ClientLeaves
  BY <1>2, <1>7
     DEF MjpegStarts, MjpegStep, MjpegJoins, CopyEnds, MjpegKills,
         ClientLeaves, pushVars, snapVars
<1>8. CASE UNCHANGED vars
  BY <1>2, <1>8 DEF vars, pushVars, snapVars
<1> QED
  BY <1>3, <1>4, <1>5, <1>6, <1>7, <1>8 DEF Next

(* For as long as the process lives, no client gets a snapshot from an     *)
(* earlier producer than a client before it.                               *)
THEOREM SnapshotsNeverGoBack == Spec => ImageAdvances
<1>1. ImageInv /\ [Next]_vars =>
        [pc' # "exited" => image'.from >= image.from]_vars
  BY ImageInvNext
<1>2. ImageInv /\ [Next]_vars => ImageInv'
  BY ImageInvNext
<1> QED
  BY <1>1, <1>2, ImageInvInit, PTL DEF Spec, ImageAdvances

-----------------------------------------------------------------------------
(* The argument for the settings: what the process has of a key is what    *)
(* the first line read so far gives it, unless it had something before;    *)
(* the configuration is read when no line is left, and not again.          *)
Loaded(k) ==
  IF inst.environ[k] # <<>> THEN environ[k] = inst.environ[k]
  ELSE \/ environ[k] = <<>> /\ \A i \in Given(k) : line <= i
       \/ /\ environ[k] # <<>>
          /\ \E i \in Given(k) :
               /\ i < line /\ environ[k] = inst.dotenv[i].value
               /\ \A j \in Given(k) : i <= j

Loading == {"dotenv", "config", "exited"}

SettingsInv ==
  /\ inst \in Installations
  /\ line \in 1..(Len(inst.dotenv) + 1) /\ environ \in [Keys -> Value]
  /\ \A k \in Keys : Loaded(k)
  /\ pc \notin {"dotenv", "exited"} => line = Len(inst.dotenv) + 1
  /\ pc \notin Loading => cfg = LoadConfig(environ)

(* What an installation gives.                                             *)
LEMMA InstTypes ==
  ASSUME inst \in Installations
  PROVE  /\ inst.environ \in [Keys -> Value] /\ inst.dotenv \in Seq(Line)
         /\ Len(inst.dotenv) \in Nat
         /\ DOMAIN inst.dotenv = 1..Len(inst.dotenv)
         /\ \A k : Given(k) \subseteq 1..Len(inst.dotenv)
<1>1. inst.environ \in [Keys -> Value] /\ inst.dotenv \in Seq(Line)
  BY ProgramAssumption
<1>2. /\ Len(inst.dotenv) \in Nat
      /\ DOMAIN inst.dotenv = 1..Len(inst.dotenv)
  BY <1>1
<1> QED
  BY <1>1, <1>2 DEF Given

(* Before the first line, the process has what it was started with.        *)
LEMMA LoadedFirst ==
  ASSUME inst \in Installations, line = 1, environ = inst.environ
  PROVE  /\ line \in 1..(Len(inst.dotenv) + 1)
         /\ environ \in [Keys -> Value] /\ \A k \in Keys : Loaded(k)
<1> QED
  BY InstTypes DEF Loaded

LEMMA SettingsInvInit == Init => SettingsInv
<1> QED
  BY LoadedFirst DEF Init, SettingsInv, Loading

LEMMA ExitKeepsSettings ==
  ASSUME SettingsInv, Exit
  PROVE  SettingsInv'
<1>1. /\ inst \in Installations /\ inst' = inst
      /\ line' = 1 /\ environ' = inst.environ /\ pc' = "exited"
  BY DEF SettingsInv, Exit
<1>2. /\ line' \in 1..(Len(inst.dotenv) + 1) /\ environ' \in [Keys -> Value]
      /\ \A k \in Keys : \A i \in Given(k) : line' <= i
  BY <1>1, InstTypes
<1>3. \A k \in Keys : Given(k)' = Given(k)
  BY <1>1 DEF Given
<1>4. \A k \in Keys : Loaded(k)'
  BY <1>1, <1>2, <1>3 DEF Loaded
<1> QED
  BY <1>1, <1>2, <1>4 DEF SettingsInv, Loading

LEMMA SettingsKept ==
  ASSUME SettingsInv, UNCHANGED <<inst, envVars, cfg>>,
         \/ pc' = pc
         \/ pc \notin Loading /\ pc' \notin Loading
         \/ pc = "exited" /\ pc' = "dotenv"
  PROVE  SettingsInv'
<1>1. UNCHANGED <<inst, line, environ, cfg>>
  BY DEF envVars
<1>2. \A k \in Keys : Loaded(k)'
  BY <1>1 DEF SettingsInv, Loaded, Given
<1> QED
  BY <1>1, <1>2 DEF SettingsInv, Loading

(* One line of .env: it counts when its key has nothing yet.               *)
LEMMA LineLoads ==
  ASSUME SettingsInv, line \in DOMAIN inst.dotenv, UNCHANGED inst,
         environ' = SetMissing(environ, inst.dotenv[line]), line' = line + 1
  PROVE  environ' \in [Keys -> Value] /\ \A k \in Keys : Loaded(k)'
<1> DEFINE l == inst.dotenv[line]
<1>1. /\ inst \in Installations /\ environ \in [Keys -> Value]
      /\ \A k \in Keys : Loaded(k)
  BY DEF SettingsInv
<1>2. l \in Line /\ line \in Nat
  BY <1>1, InstTypes
<1>3. l.key \in Keys \cup {"none"} /\ l.value \in Value
  BY <1>2 DEF Line
<1>4. environ' \in [Keys -> Value]
  BY <1>1, <1>3 DEF SetMissing
<1>5. ASSUME NEW k \in Keys PROVE Loaded(k)'
  <2>1. Loaded(k) /\ Given(k)' = Given(k)
    BY <1>1 DEF Given
  <2>2. Given(k) \subseteq Nat
    BY <1>1, InstTypes
  <2>3. "none" \notin Keys
    BY DEF Keys
  <2>4. CASE environ[k] # <<>>
    <3>1. environ'[k] = environ[k]
      BY <1>1, <1>3, <2>3, <2>4 DEF SetMissing
    <3>2. CASE inst.environ[k] # <<>>
      BY <2>1, <3>1, <3>2 DEF Loaded
    <3>3. CASE inst.environ[k] = <<>>
      <4>1. PICK i \in Given(k) :
              /\ i < line /\ environ[k] = inst.dotenv[i].value
              /\ \A j \in Given(k) : i <= j
        BY <2>1, <2>4, <3>3 DEF Loaded
      <4>2. i < line'
        BY <4>1, <1>2, <2>2
      <4> QED
        BY <2>1, <2>4, <3>1, <3>3, <4>1, <4>2 DEF Loaded
    <3> QED
      BY <3>2, <3>3
  <2>5. CASE environ[k] = <<>>
    <3>1. inst.environ[k] = <<>> /\ \A i \in Given(k) : line <= i
      BY <2>1, <2>5 DEF Loaded
    <3>2. CASE line \in Given(k)
      <4>1. l.key = k /\ l.value # <<>>
        BY <3>2 DEF Given
      <4>2. environ'[k] = l.value
        BY <1>1, <2>3, <2>5, <4>1 DEF SetMissing
      <4>3. line < line'
        BY <1>2
      <4> QED
        BY <2>1, <3>1, <3>2, <4>1, <4>2, <4>3 DEF Loaded
    <3>3. CASE line \notin Given(k)
      <4>1. l.key # k \/ l.value = <<>>
        BY <3>3 DEF Given
      <4>2. environ'[k] = <<>>
        BY <1>1, <1>3, <2>5, <4>1 DEF SetMissing
      <4>3. \A i \in Given(k) : line' <= i
        BY <1>2, <2>2, <3>1, <3>3
      <4> QED
        BY <2>1, <3>1, <4>2, <4>3 DEF Loaded
    <3> QED
      BY <3>2, <3>3
  <2> QED
    BY <2>4, <2>5
<1> QED
  BY <1>4, <1>5

LEMMA SettingsInvNext == SettingsInv /\ [Next]_vars => SettingsInv'
<1> SUFFICES ASSUME SettingsInv, [Next]_vars PROVE SettingsInv'
  OBVIOUS
<1>1. ASSUME UNCHANGED <<inst, mainVars>> PROVE SettingsInv'
  BY <1>1, SettingsKept DEF mainVars
<1>2. CASE DotEnv
  <2>1. CASE line \in DOMAIN inst.dotenv
    <3>1. /\ environ' = SetMissing(environ, inst.dotenv[line])
          /\ line' = line + 1 /\ pc' = "dotenv" /\ UNCHANGED inst
      BY <1>2, <2>1 DEF DotEnv, worldVars
    <3>2. environ' \in [Keys -> Value] /\ \A k \in Keys : Loaded(k)'
      BY <2>1, <3>1, LineLoads
    <3>3. inst \in Installations
      BY DEF SettingsInv
    <3>4. line' \in 1..(Len(inst'.dotenv) + 1)
      BY <2>1, <3>1, <3>3, InstTypes
    <3> QED
      BY <3>1, <3>2, <3>3, <3>4 DEF SettingsInv, Loading
  <2>2. CASE line \notin DOMAIN inst.dotenv
    <3>1. pc' = "config" /\ UNCHANGED <<inst, line, environ>>
      BY <1>2, <2>2 DEF DotEnv, worldVars, envVars
    <3>2. line = Len(inst.dotenv) + 1
      BY <2>2, InstTypes DEF SettingsInv
    <3>3. \A k \in Keys : Loaded(k)'
      BY <3>1 DEF SettingsInv, Loaded, Given
    <3> QED
      BY <3>1, <3>2, <3>3 DEF SettingsInv, Loading
  <2> QED
    BY <2>1, <2>2
<1>3. CASE Config
  <2>1. /\ pc = "config" /\ pc' = "videos" /\ cfg' = LoadConfig(environ)
        /\ UNCHANGED <<inst, line, environ>>
    BY <1>3 DEF Config, At, worldVars, envVars
  <2>2. \A k \in Keys : Loaded(k)'
    BY <2>1 DEF SettingsInv, Loaded, Given
  <2>3. cfg' = LoadConfig(environ')
    BY <2>1
  <2> QED
    BY <2>1, <2>2, <2>3 DEF SettingsInv
<1>4. CASE Videos
  <2>1. CASE pc = "videos" /\ pc' = "rtsp"
             /\ UNCHANGED <<worldVars, envVars, cfg>>
    BY <2>1, SettingsKept DEF worldVars, Loading
  <2> QED
    BY <1>4, <2>1, ExitKeepsSettings DEF Videos
<1>5. ASSUME NEW s \in Servers, Listen(s) \/ ListenFails(s) PROVE SettingsInv'
  <2>1. CASE pc = s /\ pc' = After[s] /\ UNCHANGED <<inst, envVars, cfg>>
    <3>1. pc \notin Loading /\ pc' \notin Loading
      BY <2>1 DEF Servers, After, Loading
    <3> QED
      BY <2>1, <3>1, SettingsKept
  <2> QED
    BY <1>5, <2>1, ExitKeepsSettings DEF Listen, ListenFails, At, worldVars
<1>6. CASE StartServers
  <2>1. "discovery" \in Servers
    BY DEF Servers
  <2>2. CASE At("discovery", "wait") /\ UNCHANGED <<worldVars, envVars, cfg>>
    BY <2>2, SettingsKept DEF At, worldVars, Loading
  <2> QED
    BY <1>5, <1>6, <2>1, <2>2 DEF StartServers, StartDiscovery
<1>7. CASE Launch \/ PrintAll \/ Restart
  BY <1>7, SettingsKept DEF Launch, PrintAll, Restart, At, worldVars, Loading
<1>8. CASE (\E s \in Servers : AcceptFails(s)) \/ Crash
  BY <1>1, <1>8, ExitKeepsSettings DEF AcceptFails, Crash
<1>9. CASE \E s \in Streams : PusherStep(s)
  BY <1>1, <1>9
     DEF PusherStep, PusherConnects, PusherExits, PusherRestarts, worldVars
<1>10. CASE SnapStep
  BY <1>1, <1>10
     DEF SnapStep, SnapExec, SnapJoins, SnapTaken, SnapFails, worldVars
<1>11. CASE MjpegStarts \/ MjpegStep \/ ClientLeaves
  BY <1>1, <1>11
     DEF MjpegStarts, MjpegStep, MjpegJoins, CopyEnds, MjpegKills,
         ClientLeaves, worldVars
<1>12. CASE UNCHANGED vars
  BY <1>1, <1>12 DEF vars, worldVars
<1> QED
  BY <1>2, <1>3, <1>4, <1>6, <1>7, <1>8, <1>9, <1>10, <1>11, <1>12
     DEF Next, MainStep

LEMMA SettingsAlways == Spec => []SettingsInv
<1> QED
  BY SettingsInvInit, SettingsInvNext, PTL DEF Spec

(* When every line was read, what counts is what the environment has.      *)
LEMMA InForceLoaded ==
  ASSUME SettingsInv, line = Len(inst.dotenv) + 1, NEW k \in Keys
  PROVE  InForce(k) = Env(environ, k)
<1>1. Loaded(k) /\ Given(k) \subseteq 1..Len(inst.dotenv)
  BY InstTypes DEF SettingsInv
<1>2. Len(inst.dotenv) \in Nat
  BY InstTypes DEF SettingsInv
<1>3. CASE inst.environ[k] # <<>>
  BY <1>1, <1>3 DEF Loaded, InForce, Env
<1>4. CASE inst.environ[k] = <<>> /\ environ[k] = <<>>
  <2>1. \A i \in Given(k) : line <= i
    BY <1>1, <1>4 DEF Loaded
  <2>2. Given(k) = {}
    BY <1>1, <1>2, <2>1
  <2> QED
    BY <1>4, <2>2 DEF InForce, Env
<1>5. CASE inst.environ[k] = <<>> /\ environ[k] # <<>>
  <2>1. PICK i \in Given(k) : /\ environ[k] = inst.dotenv[i].value
                              /\ \A j \in Given(k) : i <= j
    BY <1>1, <1>5 DEF Loaded
  <2> DEFINE first == CHOOSE m \in Given(k) : \A j \in Given(k) : m <= j
  <2>2. first \in Given(k) /\ \A j \in Given(k) : first <= j
    BY <2>1
  <2> HIDE DEF first
  <2>3. first = i
    BY <1>1, <2>1, <2>2
  <2> QED
    BY <1>5, <2>1, <2>3 DEF InForce, Env, first
<1> QED
  BY <1>3, <1>4, <1>5

(* A variable of the environment wins over .env, an earlier line over a    *)
(* later one, and only a key without a value gets the default: whatever    *)
(* the environment and .env hold, and after every restart.                 *)
THEOREM SettingsPrecedence == Spec => []Precedence
<1>1. SettingsInv => Precedence
  <2> SUFFICES ASSUME SettingsInv, pc \notin Loading PROVE Precedence
    BY DEF Precedence, Loading
  <2>1. cfg = LoadConfig(environ) /\ line = Len(inst.dotenv) + 1
    BY DEF SettingsInv, Loading
  <2>2. \A k \in Keys : InForce(k) = Env(environ, k)
    BY <2>1, InForceLoaded
  <2>3. /\ cfg.username = Env(environ, "USERNAME")
        /\ cfg.password = Env(environ, "PASSWORD")
        /\ cfg.onvifEnabled = EnvBool(environ, "ONVIF_ENABLED")
    BY <2>1 DEF LoadConfig
  <2>4. LET v == Env(environ, "ONVIF_ENABLED")
        IN v \in {<<"on">>, <<"off">>} =>
             (EnvBool(environ, "ONVIF_ENABLED") <=> v = <<"on">>)
    <3>1. <<"on">> # <<>> /\ <<"off">> # <<>> /\ <<"on">> # <<"off">>
      OBVIOUS
    <3> QED
      BY <3>1 DEF Env, EnvBool, Default
  <2> QED
    BY <2>2, <2>3, <2>4 DEF Precedence, Keys
<1> QED
  BY <1>1, SettingsAlways, PTL

-----------------------------------------------------------------------------
(* The argument for the types: a configuration that was read has its       *)
(* credentials, and it is read before a path is registered.                *)
ConfigType ==
  [username : Value \ {<<>>}, password : Value \ {<<>>},
   onvifEnabled : BOOLEAN, snapshotInterval : Value]

Stages ==
  {"dotenv", "config", "videos", "wait", "print", "ready", "exited"}
    \cup Servers

Unregistered == {"dotenv", "config", "videos", "rtsp", "http", "exited"}

MainType ==
  /\ faults \in 0..Faults /\ pc \in Stages /\ cfg \in ConfigType
  /\ server \in [Servers -> {"off", "up", "deaf"}]
  /\ routes \subseteq HttpRoutes(cfg)
  /\ pc \in Unregistered => routes = {}

RunType ==
  /\ pusher \in [Streams -> {"none", "starting", "pushing", "pause"}]
  /\ producer \in [Streams -> Nat]
  /\ snapper \in Child /\ image \in [from : Nat, whole : BOOLEAN]
  /\ mjpeg \in Child /\ left \in BOOLEAN

(* Whatever the environment holds, the configuration is complete.          *)
LEMMA ConfigComplete ==
  ASSUME NEW env \in [Keys -> Value]
  PROVE  LoadConfig(env) \in ConfigType
<1> DEFINE W == Words \cup {"admin", "on", "off", "typo", "5s", "1m"}
<1>1. Value = Seq(W)
  BY DEF Value
<1>2. <<"admin">> \in Value /\ <<"5s">> \in Value
  <2>1. "admin" \in W /\ "5s" \in W
    OBVIOUS
  <2> HIDE DEF W
  <2> QED
    BY <1>1, <2>1
<1>3. <<"admin">> # <<>>
  OBVIOUS
<1>4. ASSUME NEW k \in {"USERNAME", "PASSWORD"}
      PROVE  Env(env, k) \in Value \ {<<>>}
  <2>1. env[k] \in Value /\ Default[k] = <<"admin">>
    BY <1>4 DEF Keys, Default
  <2> QED
    BY <1>2, <1>3, <2>1 DEF Env
<1>5. EnvBool(env, "ONVIF_ENABLED") \in BOOLEAN
  BY DEF EnvBool
<1>6. EnvInterval(env, "SNAPSHOT_INTERVAL") \in Value
  <2>1. /\ env["SNAPSHOT_INTERVAL"] \in Value
        /\ Default["SNAPSHOT_INTERVAL"] = <<"5s">>
    BY DEF Keys, Default
  <2> QED
    BY <1>2, <2>1 DEF EnvInterval
<1> QED
  BY <1>4, <1>5, <1>6 DEF LoadConfig, ConfigType

LEMMA NoConfigType == NoConfig \in ConfigType
<1>1. <<>> \in Value
  BY DEF Value
<1>2. [k \in Keys |-> <<>>] \in [Keys -> Value]
  BY <1>1
<1> QED
  BY <1>2, ConfigComplete DEF NoConfig

LEMMA IdleType == Idle \in Child /\ NoImage \in [from : Nat, whole : BOOLEAN]
<1> QED
  BY DEF Idle, NoImage, Child, Streams

LEMMA ExitKeepsTypes ==
  ASSUME MainType, faults' \in 0..Faults, Exit
  PROVE  MainType' /\ RunType'
<1>1. MainType'
  BY NoConfigType DEF MainType, Exit, Stages, Unregistered
<1>2. RunType'
  BY IdleType DEF RunType, Exit
<1> QED
  BY <1>1, <1>2

LEMMA FaultType ==
  ASSUME faults \in 0..Faults, Fault
  PROVE  faults' \in 0..Faults
<1> QED
  BY ProgramAssumption DEF Fault

LEMMA TypesInit == Init => MainType /\ RunType
<1> SUFFICES ASSUME Init PROVE MainType /\ RunType
  OBVIOUS
<1>1. MainType
  BY NoConfigType, ProgramAssumption
     DEF Init, MainType, Stages, Unregistered
<1>2. RunType
  BY IdleType DEF Init, RunType
<1> QED
  BY <1>1, <1>2

LEMMA MainTypeNext ==
  SettingsInv /\ MainType /\ [Next]_vars => MainType'
<1> SUFFICES ASSUME SettingsInv, MainType, [Next]_vars PROVE MainType'
  OBVIOUS
<1>1. ASSUME UNCHANGED <<mainVars, serverVars>>,
             Fault \/ UNCHANGED faults
      PROVE  MainType'
  BY <1>1, FaultType DEF MainType, mainVars, serverVars
<1>2. ASSUME Fault /\ Exit PROVE MainType'
  BY <1>2, FaultType, ExitKeepsTypes DEF MainType
<1>3. ASSUME pc' \in Stages, pc' \in Unregistered => pc \in Unregistered,
             UNCHANGED <<cfg, serverVars>>, Fault \/ UNCHANGED faults
      PROVE  MainType'
  BY <1>3, FaultType DEF MainType, serverVars
<1>4. CASE DotEnv \/ Launch \/ PrintAll \/ Restart
  BY <1>3, <1>4
     DEF DotEnv, Launch, PrintAll, Restart, At, Stages, Unregistered,
         worldVars
<1>5. CASE Config
  <2>1. cfg' \in ConfigType
    BY <1>5, ConfigComplete DEF Config, SettingsInv
  <2>2. /\ routes = {} /\ UNCHANGED <<faults, server, routes>>
        /\ pc' = "videos"
    BY <1>5 DEF Config, At, MainType, Unregistered, worldVars, serverVars
  <2> QED
    BY <2>1, <2>2 DEF MainType, Stages
<1>6. CASE Videos
  <2>1. CASE pc' = "rtsp" /\ pc = "videos"
             /\ UNCHANGED <<worldVars, cfg, serverVars>>
    BY <1>3, <2>1 DEF Stages, Servers, Unregistered, worldVars
  <2> QED
    BY <1>2, <1>6, <2>1 DEF Videos
<1>7. ASSUME NEW s \in Servers, Listen(s) \/ ListenFails(s) PROVE MainType'
  <2>1. pc = s => /\ After[s] \in Stages
                  /\ After[s] \in Unregistered => pc \in Unregistered
    BY DEF Servers, After, Stages, Unregistered
  <2>2. CASE Listen(s)
    <3>1. /\ pc = s /\ pc' = After[s] /\ UNCHANGED <<faults, cfg>>
          /\ server' = [server EXCEPT ![s] = "up"]
          /\ routes' = IF s = "http" THEN HttpRoutes(cfg) ELSE routes
      BY <2>2 DEF Listen, At, worldVars
    <3>2. s = "http" => pc' \notin Unregistered
      BY <3>1 DEF Servers, After, Unregistered
    <3> QED
      BY <2>1, <3>1, <3>2 DEF MainType
  <2>3. CASE /\ pc = s /\ pc' = After[s] /\ UNCHANGED <<cfg, serverVars>>
             /\ Fault
    BY <1>3, <2>1, <2>3
  <2> QED
    BY <1>2, <1>7, <2>2, <2>3 DEF ListenFails
<1>8. CASE StartServers
  <2>1. "discovery" \in Servers
    BY DEF Servers
  <2>2. CASE At("discovery", "wait")
             /\ UNCHANGED <<worldVars, cfg, serverVars>>
    BY <1>3, <2>2 DEF At, Stages, Unregistered, worldVars
  <2> QED
    BY <1>7, <1>8, <2>1, <2>2 DEF StartServers, StartDiscovery
<1>9. CASE \E s \in Servers : AcceptFails(s)
  <2>1. PICK s \in Servers : AcceptFails(s)
    BY <1>9
  <2>2. /\ Fault /\ UNCHANGED <<pc, cfg, routes>>
        /\ server' = [server EXCEPT ![s] = "deaf"]
    BY <2>1 DEF AcceptFails, mainVars
  <2> QED
    BY <2>2, FaultType DEF MainType
<1>10. CASE Crash
  BY <1>2, <1>10 DEF Crash
<1>11. CASE \E s \in Streams : PusherStep(s)
  BY <1>1, <1>11
     DEF PusherStep, PusherConnects, PusherExits, PusherRestarts, worldVars
<1>12. CASE SnapStep
  BY <1>1, <1>12
     DEF SnapStep, SnapExec, SnapJoins, SnapTaken, SnapFails, Dies, worldVars
<1>13. CASE MjpegStarts \/ MjpegStep \/ ClientLeaves
  BY <1>1, <1>13
     DEF MjpegStarts, MjpegStep, MjpegJoins, CopyEnds, MjpegKills,
         ClientLeaves, Dies, worldVars
<1>14. CASE UNCHANGED vars
  BY <1>1, <1>14 DEF vars, worldVars
<1> QED
  BY <1>4, <1>5, <1>6, <1>8, <1>9, <1>10, <1>11, <1>12, <1>13, <1>14
     DEF Next, MainStep

(* A child keeps its shape whatever is set of it.                          *)
LEMMA ChildSet ==
  ASSUME NEW c \in Child
  PROVE  /\ \A a \in {"none", "pause", "exec", "joined", "kill", "over"} :
              [c EXCEPT !.at = a] \in Child
         /\ [c EXCEPT !.at = "exec", !.from = 0] \in Child
         /\ \A s \in Streams : [c EXCEPT !.at = "exec", !.stream = s] \in Child
         /\ \A n \in Nat : [c EXCEPT !.at = "joined", !.from = n] \in Child
         /\ c.from \in Nat /\ c.stream \in Streams
<1> QED
  BY DEF Child

LEMMA RunTypeNext ==
  MainType /\ RunType /\ [Next]_vars => RunType'
<1> SUFFICES ASSUME MainType, RunType, [Next]_vars PROVE RunType'
  OBVIOUS
<1>1. ASSUME UNCHANGED <<pushVars, snapVars, mjpegVars>> PROVE RunType'
  BY <1>1 DEF RunType, pushVars, snapVars, mjpegVars
<1>2. ASSUME Fault /\ Exit PROVE RunType'
  BY <1>2, FaultType, ExitKeepsTypes DEF MainType
<1>3. CASE DotEnv \/ Config \/ PrintAll \/ Restart
  BY <1>1, <1>3 DEF DotEnv, Config, PrintAll, Restart
<1>4. CASE Videos
  BY <1>1, <1>2, <1>4 DEF Videos
<1>5. ASSUME NEW s \in Servers, Listen(s) \/ ListenFails(s) PROVE RunType'
  BY <1>1, <1>2, <1>5 DEF Listen, ListenFails
<1>6. CASE StartServers
  <2>1. "discovery" \in Servers
    BY DEF Servers
  <2> QED
    BY <1>1, <1>5, <1>6, <2>1 DEF StartServers, StartDiscovery
<1>7. CASE Launch
  <2>1. snapper' \in Child
    BY <1>7, IdleType, ChildSet DEF Launch
  <2> QED
    BY <1>7, <2>1 DEF Launch, RunType, mjpegVars
<1>8. CASE (\E s \in Servers : AcceptFails(s)) \/ Crash
  BY <1>1, <1>2, <1>8 DEF AcceptFails, Crash
<1>9. CASE \E s \in Streams : PusherStep(s)
  <2>1. PICK s \in Streams : PusherStep(s)
    BY <1>9
  <2>2. CASE PusherConnects(s)
    <3>1. /\ pusher' = [pusher EXCEPT ![s] = "pushing"]
          /\ producer' = [producer EXCEPT ![s] = @ + 1]
          /\ UNCHANGED <<snapVars, mjpegVars>>
      BY <2>2 DEF PusherConnects
    <3>2. producer' \in [Streams -> Nat]
      BY <3>1 DEF RunType
    <3> QED
      BY <3>1, <3>2 DEF RunType, snapVars, mjpegVars
  <2>3. CASE PusherExits(s) \/ PusherRestarts(s)
    BY <2>3 DEF PusherExits, PusherRestarts, RunType, snapVars, mjpegVars
  <2> QED
    BY <2>1, <2>2, <2>3 DEF PusherStep
<1>10. CASE SnapStep
  <2>1. UNCHANGED <<pushVars, mjpegVars>>
    BY <1>10 DEF SnapStep, SnapExec, SnapJoins, SnapTaken, SnapFails
  <2>2. snapper \in Child /\ producer["main"] \in Nat
    BY DEF RunType, Streams
  <2>3. snapper' \in Child
    BY <1>10, <2>2, ChildSet
       DEF SnapStep, SnapExec, SnapJoins, SnapTaken, SnapFails, Joined
  <2>4. \/ image' = image
        \/ \E w \in BOOLEAN : image' = [from |-> snapper.from, whole |-> w]
    BY <1>10 DEF SnapStep, SnapExec, SnapJoins, SnapTaken, SnapFails
  <2>5. image' \in [from : Nat, whole : BOOLEAN]
    <3>1. snapper.from \in Nat /\ image \in [from : Nat, whole : BOOLEAN]
      BY <2>2, ChildSet DEF RunType
    <3> QED
      BY <2>4, <3>1
  <2> QED
    BY <2>1, <2>3, <2>5 DEF RunType, pushVars, mjpegVars
<1>11. CASE MjpegStarts \/ MjpegStep \/ ClientLeaves
  <2>1. UNCHANGED <<pushVars, snapVars>> /\ left' \in BOOLEAN
    BY <1>11 DEF MjpegStarts, MjpegStep, MjpegJoins, CopyEnds, MjpegKills,
                 ClientLeaves, RunType
  <2>2. mjpeg \in Child /\ \A s \in Streams : producer[s] \in Nat
    BY DEF RunType
  <2>3. mjpeg.stream \in Streams
    BY <2>2, ChildSet
  <2>4. CASE MjpegStarts
    <3>1. PICK s \in Streams : mjpeg' = [Idle EXCEPT !.at = "exec",
                                                    !.stream = s]
      BY <2>4 DEF MjpegStarts, ResolveHTTP, Streams
    <3>2. mjpeg' \in Child
      BY <3>1, IdleType, ChildSet
    <3> QED
      BY <2>1, <3>2 DEF RunType, pushVars, snapVars
  <2>5. CASE MjpegStep \/ ClientLeaves
    <3>1. mjpeg' \in Child
      BY <2>2, <2>3, <2>5, ChildSet
         DEF MjpegStep, MjpegJoins, CopyEnds, MjpegKills, ClientLeaves, Joined
    <3> QED
      BY <2>1, <3>1 DEF RunType, pushVars, snapVars
  <2> QED
    BY <1>11, <2>4, <2>5
<1>12. CASE UNCHANGED vars
  BY <1>1, <1>12 DEF vars
<1> QED
  BY <1>3, <1>4, <1>6, <1>7, <1>8, <1>9, <1>10, <1>11, <1>12
     DEF Next, MainStep

LEMMA TypesAlways == Spec => [](SettingsInv /\ MainType /\ RunType)
<1> QED
  BY SettingsInvInit, SettingsInvNext, TypesInit, MainTypeNext, RunTypeNext,
     PTL DEF Spec

(* The process keeps its types; in them, that no credential is ever empty, *)
(* whatever is configured, and no path is registered that the              *)
(* configuration does not ask for.                                         *)
THEOREM ProgramTypeCorrect == Spec => []TypeOK
<1>1. SettingsInv /\ MainType /\ RunType => TypeOK
  BY DEF SettingsInv, MainType, RunType, TypeOK, ConfigType, Stages
<1> QED
  BY <1>1, TypesAlways, PTL

-----------------------------------------------------------------------------
(* The argument for the URLs: every one that is handed out leads where it  *)
(* says exactly if Misled does not name it.                                *)
Right(e) == Served(e) <=> ~Misled(e)

AllRight(S) == \A e \in S : Right(e)

LEMMA Concatenated ==
  ASSUME NEW R, NEW l \in Seq(R), NEW m \in Seq(R)
  PROVE  /\ l \o m \in Seq(R) /\ Len(l \o m) = Len(l) + Len(m)
         /\ \A i \in 1..Len(l) : (l \o m)[i] = l[i]
         /\ \A i \in 1..Len(m) : (l \o m)[Len(l) + i] = m[i]
<1>1. l \o m \in Seq(R) /\ Len(l \o m) = Len(l) + Len(m)
  OBVIOUS
<1>2. ASSUME NEW i \in 1..Len(l) PROVE (l \o m)[i] = l[i]
  OBVIOUS
<1>3. ASSUME NEW i \in 1..Len(m) PROVE (l \o m)[Len(l) + i] = m[i]
  OBVIOUS
<1> QED
  BY <1>1, <1>2, <1>3

(* Where the elements of four sequences are in the whole.                  *)
FourInOne(all, u, p, c, s) ==
  /\ DOMAIN all = 1..(Len(u) + Len(p) + Len(c) + Len(s))
  /\ \A i \in 1..Len(u) : all[i] = u[i]
  /\ \A i \in 1..Len(p) : all[Len(u) + i] = p[i]
  /\ \A i \in 1..Len(c) : all[Len(u) + Len(p) + i] = c[i]
  /\ \A i \in 1..Len(s) : all[Len(u) + Len(p) + Len(c) + i] = s[i]

LEMMA FourParts ==
  ASSUME NEW R, NEW u \in Seq(R), NEW p \in Seq(R), NEW c \in Seq(R),
         NEW s \in Seq(R)
  PROVE  FourInOne(u \o p \o c \o s, u, p, c, s)
<1> DEFINE up == u \o p
           upc == up \o c
           all == upc \o s
<1>1. Len(u) \in Nat /\ Len(p) \in Nat /\ Len(c) \in Nat /\ Len(s) \in Nat
  OBVIOUS
<1>2. /\ up \in Seq(R) /\ Len(up) = Len(u) + Len(p)
      /\ \A i \in 1..Len(u) : up[i] = u[i]
      /\ \A i \in 1..Len(p) : up[Len(u) + i] = p[i]
  BY Concatenated
<1> HIDE DEF up
<1>3. /\ upc \in Seq(R) /\ Len(upc) = Len(up) + Len(c)
      /\ \A i \in 1..Len(up) : upc[i] = up[i]
      /\ \A i \in 1..Len(c) : upc[Len(up) + i] = c[i]
  <2>1. up \in Seq(R)
    BY <1>2
  <2> QED
    BY <2>1, Concatenated
<1> HIDE DEF upc
<1>4. /\ all \in Seq(R) /\ Len(all) = Len(upc) + Len(s)
      /\ \A i \in 1..Len(upc) : all[i] = upc[i]
      /\ \A i \in 1..Len(s) : all[Len(upc) + i] = s[i]
  <2>1. upc \in Seq(R)
    BY <1>3
  <2> QED
    BY <2>1, Concatenated
<1> HIDE DEF all
<1>5. /\ Len(up) = Len(u) + Len(p) /\ Len(upc) = Len(u) + Len(p) + Len(c)
      /\ DOMAIN all = 1..(Len(u) + Len(p) + Len(c) + Len(s))
  BY <1>1, <1>2, <1>3, <1>4
<1>6. ASSUME NEW i \in 1..Len(u) PROVE all[i] = u[i]
  <2>1. i \in 1..Len(up) /\ i \in 1..Len(upc)
    BY <1>1, <1>5
  <2> QED
    BY <1>2, <1>3, <1>4, <2>1
<1>7. ASSUME NEW i \in 1..Len(p) PROVE all[Len(u) + i] = p[i]
  <2>1. Len(u) + i \in 1..Len(up) /\ Len(u) + i \in 1..Len(upc)
    BY <1>1, <1>5
  <2> QED
    BY <1>2, <1>3, <1>4, <2>1
<1>8. ASSUME NEW i \in 1..Len(c) PROVE all[Len(u) + Len(p) + i] = c[i]
  <2>1. Len(up) + i \in 1..Len(upc)
    BY <1>1, <1>5
  <2>2. upc[Len(up) + i] = c[i]
    BY <1>3
  <2> QED
    BY <1>4, <1>5, <2>1, <2>2
<1>9. ASSUME NEW i \in 1..Len(s)
      PROVE  all[Len(u) + Len(p) + Len(c) + i] = s[i]
  BY <1>4, <1>5
<1> QED
  BY <1>5, <1>6, <1>7, <1>8, <1>9 DEF all, upc, up, FourInOne

(* A field of the sdp URL, cut: its key is at the first word.              *)
CutField(f, key, words) ==
  /\ \E S : f \in Seq(S)
  /\ Len(f) = Len(words)
  /\ \A i \in 1..Len(words) :
       f[i].value = words[i] /\ f[i].key = IF i = 1 THEN key ELSE ""

LEMMA FieldParts ==
  ASSUME NEW W, NEW words \in Seq(W), NEW key
  PROVE  CutField(Field(key, words), key, words)
<1> DEFINE f == Field(key, words)
           S == {f[i] : i \in 1..Len(words)}
<1>1. Len(words) \in Nat /\ DOMAIN words = 1..Len(words)
  OBVIOUS
<1>2. f = [i \in 1..Len(words) |->
             [key |-> IF i = 1 THEN key ELSE "", value |-> words[i]]]
  BY <1>1 DEF Field
<1>3. DOMAIN f = 1..Len(words) /\ f = [i \in DOMAIN f |-> f[i]]
  BY <1>2
<1>4. \A i \in 1..Len(words) :
        f[i] = [key |-> IF i = 1 THEN key ELSE "", value |-> words[i]]
  BY <1>2
<1> HIDE DEF f
<1>5. ASSUME NEW i \in 1..Len(words)
      PROVE  f[i].value = words[i] /\ f[i].key = IF i = 1 THEN key ELSE ""
  <2>1. PICK k : k = IF i = 1 THEN key ELSE ""
    OBVIOUS
  <2>2. f[i] = [key |-> k, value |-> words[i]]
    BY <1>4, <2>1
  <2>3. f[i].value = words[i]
    BY <2>2
  <2>4. f[i].key = k
    BY <2>2
  <2> QED
    BY <2>1, <2>3, <2>4
<1>6. f \in [1..Len(words) -> S]
  BY <1>3
<1> HIDE DEF S
<1>7. f \in Seq(S) /\ Len(f) = Len(words)
  BY <1>1, <1>6
<1> QED
  <2>1. \E R : f \in Seq(R)
    BY <1>7
  <2> QED
    BY <1>5, <1>7, <2>1 DEF f, CutField

LEMMA OneParam ==
  ASSUME NEW parts, NEW key, DOMAIN parts \subseteq Nat,
         NEW at \in DOMAIN parts, parts[at].key = key,
         \A i \in DOMAIN parts : parts[i].key = key => i = at
  PROVE  Param(parts, key) = <<parts[at].value>>
<1> DEFINE with == {i \in DOMAIN parts : parts[i].key = key}
<1>1. with = {at}
  OBVIOUS
<1>2. (CHOOSE i \in with : \A j \in with : j <= i) = at
  BY <1>1
<1>3. with # {}
  BY <1>1
<1> QED
  BY <1>2, <1>3 DEF Param

(* The sdp URL after it was cut at every underscore: the parts that hold   *)
(* the keys, for credentials of any number of words.                       *)
LEMMA SdpParts ==
  ASSUME NEW W, NEW c, c.username \in Seq(W), c.username # <<>>,
         c.password \in Seq(W), c.password # <<>>, NEW n
  PROVE  LET parts == SdpPath(c, n)
         IN /\ Param(parts, "user") = <<c.username[1]>>
            /\ Param(parts, "password") = <<c.password[1]>>
            /\ Param(parts, "stream") = <<n>>
<1> DEFINE a  == Len(c.username)
           b  == Len(c.password)
           fu == Field("user", c.username)
           fp == Field("password", c.password)
           fc == Field("channel", <<"1">>)
           fs == Field("stream", <<n>>)
           parts == fu \o fp \o fc \o fs
<1>1. a \in Nat \ {0} /\ b \in Nat \ {0} /\ 1 \in 1..a /\ 1 \in 1..b
  OBVIOUS
<1>2. /\ CutField(fu, "user", c.username)
      /\ CutField(fp, "password", c.password)
  BY FieldParts
<1>3. CutField(fc, "channel", <<"1">>) /\ CutField(fs, "stream", <<n>>)
  <2>1. <<"1">> \in Seq({"1"})
    OBVIOUS
  <2>2. <<n>> \in Seq({n})
    OBVIOUS
  <2> QED
    BY <2>1, <2>2, FieldParts
<1>4. /\ Len(<<"1">>) = 1 /\ Len(<<n>>) = 1 /\ <<n>>[1] = n
      /\ 1 \in 1..1
  OBVIOUS
<1>5. /\ Len(fu) = a /\ Len(fp) = b /\ Len(fc) = 1 /\ Len(fs) = 1
      /\ fc[1].key = "channel" /\ fs[1].key = "stream" /\ fs[1].value = n
  BY <1>2, <1>3, <1>4 DEF CutField
<1>6. SdpPath(c, n) = parts
  BY DEF SdpPath
<1> HIDE DEF a, b, fu, fp, fc, fs
<1>7. PICK R : fu \in Seq(R) /\ fp \in Seq(R) /\ fc \in Seq(R) /\ fs \in Seq(R)
  <2>1. PICK A, B, C, D : /\ fu \in Seq(A) /\ fp \in Seq(B)
                          /\ fc \in Seq(C) /\ fs \in Seq(D)
    BY <1>2, <1>3 DEF CutField
  <2> DEFINE R == A \cup B \cup C \cup D
  <2>2. A \subseteq R /\ B \subseteq R /\ C \subseteq R /\ D \subseteq R
    OBVIOUS
  <2> HIDE DEF R
  <2>3. fu \in Seq(R) /\ fp \in Seq(R) /\ fc \in Seq(R) /\ fs \in Seq(R)
    BY <2>1, <2>2
  <2> QED
    BY <2>3
<1>8. FourInOne(parts, fu, fp, fc, fs)
  BY <1>7, FourParts
<1> HIDE DEF parts
<1>9. /\ DOMAIN parts = 1..(a + b + 2)
      /\ \A i \in 1..a : parts[i] = fu[i]
      /\ \A i \in 1..b : parts[a + i] = fp[i]
      /\ parts[a + b + 1] = fc[1] /\ parts[a + b + 2] = fs[1]
  <2>1. a + b + 1 + 1 = a + b + 2
    BY <1>1
  <2> QED
    BY <1>4, <1>5, <1>8, <2>1 DEF FourInOne
<1>10. parts[1].key = "user" /\ parts[1].value = c.username[1]
  <2>1. parts[1] = fu[1]
    BY <1>1, <1>9
  <2>2. fu[1].key = "user" /\ fu[1].value = c.username[1]
    BY <1>1, <1>2 DEF a, CutField
  <2> QED
    BY <2>1, <2>2
<1>11. parts[a + 1].key = "password" /\ parts[a + 1].value = c.password[1]
  <2>1. parts[a + 1] = fp[1]
    BY <1>1, <1>9
  <2>2. fp[1].key = "password" /\ fp[1].value = c.password[1]
    BY <1>1, <1>2 DEF b, CutField
  <2> QED
    BY <2>1, <2>2
<1>12. /\ parts[a + b + 1].key = "channel"
       /\ parts[a + b + 2].key = "stream" /\ parts[a + b + 2].value = n
  BY <1>5, <1>9
<1>13. ASSUME NEW i \in 1..(a + b + 2),
              i # 1, i # a + 1, i # a + b + 1, i # a + b + 2
       PROVE  parts[i].key = ""
  <2>1. CASE i \in 1..a
    <3>1. fu[i].key = ""
      BY <1>2, <1>13, <2>1 DEF a, CutField
    <3>2. parts[i] = fu[i]
      BY <1>9, <2>1
    <3> QED
      BY <3>1, <3>2
  <2>2. CASE i \notin 1..a
    <3>1. i - a \in 1..b /\ i = a + (i - a) /\ i - a # 1
      BY <1>1, <1>13, <2>2
    <3>2. PICK j \in 1..b : i = a + j /\ j # 1
      BY <3>1
    <3>3. fp[j].key = ""
      BY <1>2, <3>2 DEF b, CutField
    <3>4. parts[i] = fp[j]
      BY <1>9, <3>2
    <3> QED
      BY <3>3, <3>4
  <2> QED
    BY <2>1, <2>2
<1>14. /\ 1 \in DOMAIN parts /\ a + 1 \in DOMAIN parts
       /\ a + b + 2 \in DOMAIN parts /\ DOMAIN parts \subseteq Nat
  BY <1>1, <1>9
<1>15. ASSUME NEW i \in DOMAIN parts
       PROVE  /\ parts[i].key = "user" => i = 1
              /\ parts[i].key = "password" => i = a + 1
              /\ parts[i].key = "stream" => i = a + b + 2
  <2>1. \/ i = 1 \/ i = a + 1 \/ i = a + b + 1 \/ i = a + b + 2
        \/ parts[i].key = ""
    BY <1>9, <1>13, <1>15
  <2>2. CASE i = 1
    BY <1>10, <2>2
  <2>3. CASE i = a + 1
    BY <1>11, <2>3
  <2>4. CASE i = a + b + 1
    BY <1>12, <2>4
  <2>5. CASE i = a + b + 2
    BY <1>12, <2>5
  <2>6. CASE parts[i].key = ""
    BY <2>6
  <2> QED
    BY <2>1, <2>2, <2>3, <2>4, <2>5, <2>6
<1>16. Param(parts, "user") = <<c.username[1]>>
  BY <1>10, <1>14, <1>15, OneParam
<1>17. Param(parts, "password") = <<c.password[1]>>
  BY <1>11, <1>14, <1>15, OneParam
<1>18. Param(parts, "stream") = <<n>>
  BY <1>12, <1>14, <1>15, OneParam
<1> QED
  BY <1>6, <1>16, <1>17, <1>18

LEMMA FirstWord ==
  ASSUME NEW W, NEW words \in Seq(W), words # <<>>
  PROVE  <<words[1]>> \notin {<<>>, words} <=> Len(words) # 1
<1>1. <<words[1]>> # <<>> /\ Len(<<words[1]>>) = 1
  OBVIOUS
<1>2. CASE Len(words) = 1
  <2>1. words = <<words[1]>>
    BY <1>2
  <2> QED
    BY <1>2, <2>1
<1>3. CASE Len(words) # 1
  BY <1>1, <1>3
<1> QED
  BY <1>2, <1>3

(* So it is refused exactly when a credential was cut.                     *)
LEMMA SdpResolves ==
  ASSUME cfg \in ConfigType, NEW n
  PROVE  XmSDP(SdpPath(cfg, n), cfg.username, cfg.password) =
           IF ~WholeWords THEN "none" ELSE IF n = "1" THEN "sub" ELSE "main"
<1>1. PICK W : Value = Seq(W)
  BY DEF Value
<1>2. /\ cfg.username \in Seq(W) /\ cfg.username # <<>>
      /\ cfg.password \in Seq(W) /\ cfg.password # <<>>
  BY <1>1 DEF ConfigType
<1> DEFINE parts == SdpPath(cfg, n)
<1>3. /\ Param(parts, "user") = <<cfg.username[1]>>
      /\ Param(parts, "password") = <<cfg.password[1]>>
      /\ Param(parts, "stream") = <<n>>
  BY <1>2, SdpParts
<1> HIDE DEF parts
<1>4. <<n>> = <<"1">> <=> n = "1"
  OBVIOUS
<1>5. /\ Param(parts, "user") \notin {<<>>, cfg.username}
           <=> Len(cfg.username) # 1
      /\ Param(parts, "password") \notin {<<>>, cfg.password}
           <=> Len(cfg.password) # 1
  <2>1. <<cfg.username[1]>> \notin {<<>>, cfg.username}
          <=> Len(cfg.username) # 1
    BY <1>2, FirstWord
  <2>2. <<cfg.password[1]>> \notin {<<>>, cfg.password}
          <=> Len(cfg.password) # 1
    BY <1>2, FirstWord
  <2> QED
    BY <1>3, <2>1, <2>2, Zenon
<1>6. Param(parts, "stream") = <<"1">> <=> n = "1"
  BY <1>3, <1>4
<1>7. XmSDP(parts, cfg.username, cfg.password) =
        IF ~WholeWords THEN "none" ELSE IF n = "1" THEN "sub" ELSE "main"
  BY <1>5, <1>6 DEF XmSDP, WholeWords
<1> QED
  BY <1>7 DEF parts

-----------------------------------------------------------------------------
(* The values of the parts are those that they were made of.               *)
LEMMA PartValue ==
  ASSUME NEW values, NEW i \in DOMAIN values
  PROVE  Parts(values)[i].value = values[i]
<1> DEFINE r == [key |-> "", value |-> values[i]]
<1>1. Parts(values)[i] = r
  BY DEF Parts
<1>2. r.value = values[i]
  OBVIOUS
<1> HIDE DEF r
<1> QED
  BY <1>1, <1>2

LEMMA PlainPart ==
  ASSUME NEW p
  PROVE  Plain(p).form = "plain" /\ Plain(p).parts[1].value = p
<1>1. 1 \in DOMAIN <<p>> /\ <<p>>[1] = p
  OBVIOUS
<1>2. Parts(<<p>>)[1].value = p
  <2> DEFINE l == <<p>>
  <2> HIDE DEF l
  <2>1. 1 \in DOMAIN l /\ l[1] = p
    BY <1>1 DEF l
  <2>2. Parts(l)[1].value = p
    BY <2>1, PartValue
  <2> QED
    BY <2>2 DEF l
<1>3. Plain(p).parts = Parts(<<p>>) /\ Plain(p).form = "plain"
  BY DEF Plain
<1> QED
  BY <1>2, <1>3

LEMMA SubtypePart ==
  ASSUME NEW n
  PROVE  Get(Subtype(n), "subtype") = <<n>>
<1> DEFINE parts == Subtype(n)
           with == {i \in DOMAIN parts : parts[i].key = "subtype"}
<1>1. /\ DOMAIN parts = {1}
      /\ parts[1].key = "subtype" /\ parts[1].value = n
  BY DEF Subtype
<1> HIDE DEF parts
<1>2. with = {1}
  BY <1>1
<1>3. with # {} /\ (CHOOSE i \in with : \A j \in with : i <= j) = 1
  BY <1>2
<1>4. Get(parts, "subtype") = <<parts[1].value>>
  BY <1>3 DEF Get
<1> QED
  BY <1>1, <1>4 DEF parts

(* A set of URLs is right if each is, for the claim it is handed out with. *)
LEMMA HandedRight ==
  ASSUME NEW proto, NEW claim, NEW U,
         \A u \in U : Right([proto |-> proto, claim |-> claim, url |-> u])
  PROVE  AllRight(Handed(proto, claim, U))
<1> QED
  BY DEF AllRight, Handed

LEMMA JoinedRight ==
  ASSUME NEW S, NEW T, AllRight(S), AllRight(T)
  PROVE  AllRight(S \cup T)
<1> QED
  BY DEF AllRight

(* RTSP.                                                                   *)
LEMMA RtspRight ==
  ASSUME NEW U, NEW claim, \A u \in U : ResolveRTSP(u, cfg) = claim
  PROVE  AllRight(Handed("rtsp", claim, U))
<1> SUFFICES ASSUME NEW u \in U
             PROVE  Right([proto |-> "rtsp", claim |-> claim, url |-> u])
  BY HandedRight
<1> DEFINE e == [proto |-> "rtsp", claim |-> claim, url |-> u]
<1>1. e.proto = "rtsp" /\ e.claim = claim /\ e.url = u
  OBVIOUS
<1> HIDE DEF e
<1>2. Served(e)
  BY <1>1 DEF Served
<1>3. ~Misled(e)
  BY <1>1 DEF Misled
<1>4. Right(e)
  BY <1>2, <1>3 DEF Right
<1> QED
  BY <1>4 DEF e

LEMMA PathsRight ==
  ASSUME NEW P, NEW claim,
         \A p \in P : (IF p \in SubPaths THEN "sub" ELSE "main") = claim
  PROVE  AllRight(PlainHanded("rtsp", claim, P))
<1> DEFINE U == {Plain(p) : p \in P}
<1>1. ASSUME NEW p \in P PROVE ResolveRTSP(Plain(p), cfg) = claim
  BY PlainPart DEF ResolveRTSP
<1>2. \A u \in U : ResolveRTSP(u, cfg) = claim
  BY <1>1
<1> HIDE DEF U
<1>3. AllRight(Handed("rtsp", claim, U))
  BY <1>2, RtspRight
<1> QED
  BY <1>3 DEF PlainHanded, U

LEMMA ChannelResolves ==
  /\ ResolveRTSP(Channel(<<"1", "0", "1">>), cfg) = "main"
  /\ ResolveRTSP(Channel(<<"1", "0", "2">>), cfg) = "sub"
<1>1. ASSUME NEW d
      PROVE  ResolveRTSP(Channel(<<"1", "0", d>>), cfg) =
               IF d = "2" THEN "sub" ELSE "main"
  <2> DEFINE l == <<"1", "0", d>>
             digits == Parts(l)
  <2>1. DOMAIN l = 1..3 /\ l[3] = d
    OBVIOUS
  <2> HIDE DEF l
  <2>2. digits = [i \in 1..3 |-> [key |-> "", value |-> l[i]]]
    BY <2>1 DEF Parts
  <2>3. Len(digits) = 3 /\ digits # <<>>
    <3> DEFINE S == {[key |-> "", value |-> l[i]] : i \in 1..3}
    <3>1. digits \in [1..3 -> S]
      BY <2>2
    <3>2. PICK k \in Nat : k = 3
      OBVIOUS
    <3> HIDE DEF S, digits
    <3>3. digits \in [1..k -> S]
      BY <3>1, <3>2
    <3>4. digits \in Seq(S) /\ Len(digits) = k
      BY <3>3
    <3> QED
      BY <3>2, <3>4
  <2>4. digits[3].value = d
    BY <2>1, PartValue
  <2>5. /\ Channel(<<"1", "0", d>>).form = "channel"
        /\ Channel(<<"1", "0", d>>).parts = digits
    BY DEF Channel, l
  <2> HIDE DEF digits
  <2>6. HikvisionChannel(digits) = IF d = "2" THEN "sub" ELSE "main"
    BY <2>3, <2>4 DEF HikvisionChannel
  <2> QED
    BY <2>5, <2>6 DEF ResolveRTSP
<1> QED
  BY <1>1

LEMMA SubtypeResolves ==
  ASSUME NEW n
  PROVE  ResolveRTSP(RealMonitor(n), cfg) = IF n = "1" THEN "sub" ELSE "main"
<1>1. RealMonitor(n).form = "realmonitor" /\ RealMonitor(n).parts = Subtype(n)
  BY DEF RealMonitor
<1>2. <<n>> = <<"1">> <=> n = "1"
  OBVIOUS
<1>3. DahuaSubtype(Subtype(n)) = IF n = "1" THEN "sub" ELSE "main"
  BY <1>2, SubtypePart DEF DahuaSubtype
<1> QED
  BY <1>1, <1>3 DEF ResolveRTSP

(* The sdp URL, by what is in the credentials.                             *)
LEMMA SdpRight ==
  ASSUME cfg \in ConfigType, NEW n, NEW claim \in Streams,
         claim = IF n = "1" THEN "sub" ELSE "main"
  PROVE  AllRight(Handed("sdp", claim, {SdpURL(cfg, n)}))
<1> DEFINE u == SdpURL(cfg, n)
           e == [proto |-> "sdp", claim |-> claim, url |-> u]
<1>1. e.proto = "sdp" /\ e.claim = claim /\ e.url = u
  OBVIOUS
<1>2. ResolveRTSP(Refused, cfg) = "none"
  BY DEF Refused, ResolveRTSP
<1>3. ResolveRTSP(Plain("/user"), cfg) = "main"
  BY PlainPart DEF ResolveRTSP, SubPaths
<1>4. ResolveRTSP([form |-> "sdp", parts |-> SdpPath(cfg, n)], cfg) =
        IF ~WholeWords THEN "none" ELSE claim
  <2>1. /\ [form |-> "sdp", parts |-> SdpPath(cfg, n)].form = "sdp"
        /\ [form |-> "sdp", parts |-> SdpPath(cfg, n)].parts
             = SdpPath(cfg, n)
    OBVIOUS
  <2> QED
    BY <2>1, SdpResolves DEF ResolveRTSP
<1>5. ResolveRTSP(u, cfg) = claim <=> ~SdpMisled(claim)
  <2>1. CASE Has(Credentials, {"%"})
    BY <1>2, <2>1 DEF SdpURL, SdpMisled, Credentials, Streams
  <2>2. CASE ~Has(Credentials, {"%"}) /\ Has(Credentials, {"?"})
    BY <1>3, <2>2 DEF SdpURL, SdpMisled, Credentials, Streams
  <2>3. CASE ~Has(Credentials, {"%"}) /\ ~Has(Credentials, {"?"})
    <3>1. CASE Has(Credentials, {"%41"})
      BY <1>2, <2>3, <3>1 DEF SdpURL, SdpMisled, Credentials, Streams
    <3>2. CASE ~Has(Credentials, {"%41"})
      <4>1. u = [form |-> "sdp", parts |-> SdpPath(cfg, n)]
        BY <2>3, <3>2 DEF SdpURL, Credentials
      <4>2. SdpMisled(claim) <=> ~WholeWords
        BY <2>3, <3>2 DEF SdpMisled
      <4> QED
        BY <1>4, <4>1, <4>2 DEF Streams
    <3> QED
      BY <3>1, <3>2
  <2> QED
    BY <2>1, <2>2, <2>3
<1> HIDE DEF e, u
<1>6. Right(e)
  BY <1>1, <1>5 DEF Right, Served, Misled
<1>7. \A v \in {u} : Right([proto |-> "sdp", claim |-> claim, url |-> v])
  BY <1>6 DEF e
<1>8. AllRight(Handed("sdp", claim, {u}))
  BY <1>7, HandedRight
<1> QED
  BY <1>8 DEF u

LEMMA RtspAllRight ==
  ASSUME cfg \in ConfigType
  PROVE  AllRight(PrintRTSP(cfg))
<1>1. AllRight(PlainHanded("rtsp", "main",
                           {"/11", "/0", "/stream1", "/live/ch0"}))
  <2>1. \A p \in {"/11", "/0", "/stream1", "/live/ch0"} :
          (IF p \in SubPaths THEN "sub" ELSE "main") = "main"
    BY DEF SubPaths
  <2> QED
    BY <2>1, PathsRight
<1>2. AllRight(PlainHanded("rtsp", "sub",
                           {"/12", "/1", "/stream2", "/live/ch1"}))
  <2>1. \A p \in {"/12", "/1", "/stream2", "/live/ch1"} :
          (IF p \in SubPaths THEN "sub" ELSE "main") = "sub"
    BY DEF SubPaths
  <2> QED
    BY <2>1, PathsRight
<1>3. AllRight(Handed("rtsp", "main",
                      {Channel(<<"1", "0", "1">>), RealMonitor("0")}))
  <2>1. ResolveRTSP(RealMonitor("0"), cfg) = "main"
    BY SubtypeResolves
  <2>2. \A u \in {Channel(<<"1", "0", "1">>), RealMonitor("0")} :
          ResolveRTSP(u, cfg) = "main"
    BY <2>1, ChannelResolves
  <2> QED
    BY <2>2, RtspRight
<1>4. AllRight(Handed("rtsp", "sub",
                      {Channel(<<"1", "0", "2">>), RealMonitor("1")}))
  <2>1. ResolveRTSP(RealMonitor("1"), cfg) = "sub"
    BY SubtypeResolves
  <2>2. \A u \in {Channel(<<"1", "0", "2">>), RealMonitor("1")} :
          ResolveRTSP(u, cfg) = "sub"
    BY <2>1, ChannelResolves
  <2> QED
    BY <2>2, RtspRight
<1>5. AllRight(Handed("sdp", "main", {SdpURL(cfg, "0")}))
  BY SdpRight DEF Streams
<1>6. AllRight(Handed("sdp", "sub", {SdpURL(cfg, "1")}))
  BY SdpRight DEF Streams
<1> QED
  BY <1>1, <1>2, <1>3, <1>4, <1>5, <1>6 DEF AllRight, PrintRTSP

(* RTMP: only the first segment counts, and "bcs" is no name of sub.       *)
LEMMA RtmpRight ==
  ASSUME NEW segments, 1 \in DOMAIN segments, NEW first, segments[1] = first,
         NEW claim \in Streams,
         first = "sub" => claim = "sub",
         claim = "sub" => first \in {"sub", "bcs"}
  PROVE  Right([proto |-> "rtmp", claim |-> claim, url |-> Rtmp(segments)])
<1> DEFINE u == Rtmp(segments)
           e == [proto |-> "rtmp", claim |-> claim, url |-> u]
<1>1. e.proto = "rtmp" /\ e.claim = claim /\ e.url = u
  OBVIOUS
<1>2. u.parts[1].value = first
  <2>1. Parts(segments)[1].value = first
    BY PartValue
  <2>2. u.parts = Parts(segments)
    BY DEF Rtmp
  <2> QED
    BY <2>1, <2>2
<1> HIDE DEF e, u
<1>3. App(u) = <<first>>
  BY <1>2 DEF App
<1>4. ResolveRTMP(<<first>>) = IF first = "sub" THEN "sub" ELSE "main"
  <2>1. Len(<<first>>) = 1 /\ <<first>> # <<"live", "sub">>
    OBVIOUS
  <2>2. <<first>> = <<"sub">> <=> first = "sub"
    OBVIOUS
  <2> QED
    BY <2>1, <2>2 DEF ResolveRTMP
<1>5. Served(e) <=> (IF first = "sub" THEN "sub" ELSE "main") = claim
  BY <1>1, <1>3, <1>4 DEF Served
<1>6. Misled(e) <=> claim = "sub" /\ first = "bcs"
  BY <1>1, <1>2 DEF Misled
<1>7. Right(e)
  BY <1>5, <1>6 DEF Right, Streams
<1> QED
  BY <1>7 DEF e, u

LEMMA RtmpAllRight == AllRight(PrintRTMP)
<1> DEFINE R(claim, segments) ==
             Right([proto |-> "rtmp", claim |-> claim,
                    url |-> Rtmp(segments)])
<1>1. ASSUME NEW l, NEW first, 1 \in DOMAIN l, l[1] = first,
             first \in {"main", "live", "floodlight-cam", "bcs"}
      PROVE  R("main", l)
  <2>1. "main" \in Streams /\ first # "sub"
    BY <1>1 DEF Streams
  <2> QED
    BY <1>1, <2>1, RtmpRight
<1>2. ASSUME NEW l, NEW first, 1 \in DOMAIN l, l[1] = first,
             first \in {"sub", "bcs"}
      PROVE  R("sub", l)
  <2>1. "sub" \in Streams
    BY DEF Streams
  <2> QED
    BY <1>2, <2>1, RtmpRight
<1> DEFINE m1 == <<"main">>
           m2 == <<"live">>
           m3 == <<"live", "BalconyCam">>
           m4 == <<"floodlight-cam">>
           m5 == <<"bcs", "channel0_main.bcs", "stream=0">>
           s1 == <<"sub">>
           s2 == <<"bcs", "channel0_sub.bcs", "stream=1">>
           s3 == <<"bcs", "channel0_ext.bcs", "stream=2">>
<1>3. /\ 1 \in DOMAIN m1 /\ m1[1] = "main"
      /\ 1 \in DOMAIN m2 /\ m2[1] = "live"
      /\ 1 \in DOMAIN m3 /\ m3[1] = "live"
      /\ 1 \in DOMAIN m4 /\ m4[1] = "floodlight-cam"
      /\ 1 \in DOMAIN m5 /\ m5[1] = "bcs"
      /\ 1 \in DOMAIN s1 /\ s1[1] = "sub"
      /\ 1 \in DOMAIN s2 /\ s2[1] = "bcs"
      /\ 1 \in DOMAIN s3 /\ s3[1] = "bcs"
  OBVIOUS
<1>4. PrintRTMP =
        Handed("rtmp", "main",
               {Rtmp(m1), Rtmp(m2), Rtmp(m3), Rtmp(m4), Rtmp(m5)})
        \cup Handed("rtmp", "sub", {Rtmp(s1), Rtmp(s2), Rtmp(s3)})
  BY DEF PrintRTMP
<1> HIDE DEF m1, m2, m3, m4, m5, s1, s2, s3, R
<1>5. /\ R("main", m1) /\ R("main", m2) /\ R("main", m3) /\ R("main", m4)
      /\ R("main", m5)
  BY <1>1, <1>3
<1>6. R("sub", s1) /\ R("sub", s2) /\ R("sub", s3)
  BY <1>2, <1>3
<1>7. AllRight(Handed("rtmp", "main",
                      {Rtmp(m1), Rtmp(m2), Rtmp(m3), Rtmp(m4), Rtmp(m5)}))
  BY <1>5, HandedRight DEF R
<1>8. AllRight(Handed("rtmp", "sub", {Rtmp(s1), Rtmp(s2), Rtmp(s3)}))
  BY <1>6, HandedRight DEF R
<1> QED
  BY <1>4, <1>7, <1>8, JoinedRight

(* DVRIP.                                                                  *)
LEMMA DvripRight ==
  ASSUME NEW n, NEW claim, claim = IF n = "1" THEN "sub" ELSE "main"
  PROVE  AllRight(Handed("dvrip", claim, {DvripURL(cfg, n)}))
<1> DEFINE u == DvripURL(cfg, n)
           e == [proto |-> "dvrip", claim |-> claim, url |-> u]
<1>1. e.proto = "dvrip" /\ e.claim = claim /\ e.url = u
  OBVIOUS
<1>2. ASSUME Has(Credentials, {"?", "%", "/"}) PROVE Right(e)
  <2>1. u.form # "dvrip"
    BY <1>2 DEF DvripURL, Refused, Credentials
  <2> HIDE DEF e, u
  <2> QED
    BY <1>1, <1>2, <2>1 DEF Right, Served, Misled
<1>3. ASSUME ~Has(Credentials, {"?", "%", "/"}) PROVE Right(e)
  <2>1. u.form = "dvrip" /\ u.parts = Subtype(n)
    BY <1>3 DEF DvripURL, Credentials
  <2> HIDE DEF e, u
  <2>2. <<n>> = <<"1">> <=> n = "1"
    OBVIOUS
  <2>3. StreamType(u) = IF n = "1" THEN "Extra1" ELSE "Main"
    BY <2>1, <2>2, SubtypePart DEF StreamType
  <2>4. ResolveDVRIP(StreamType(u)) = claim
    BY <2>3 DEF ResolveDVRIP
  <2> QED
    BY <1>1, <1>3, <2>1, <2>4 DEF Right, Served, Misled
<1>4. Right(e)
  BY <1>2, <1>3
<1> HIDE DEF u
<1>5. \A v \in {u} : Right([proto |-> "dvrip", claim |-> claim, url |-> v])
  BY <1>4 DEF e
<1>6. AllRight(Handed("dvrip", claim, {u}))
  BY <1>5, HandedRight
<1> QED
  BY <1>6 DEF u

(* HTTP: the credentials first.  What is found in a query that names one   *)
(* user and one password.                                                  *)
LEMMA GivenOnce ==
  ASSUME NEW names \in {UserNames, PasswordNames}, NEW k \in DOMAIN names,
         NEW query, NEW v, query[names[k]] = v,
         \A i \in DOMAIN names \ {k} : query[names[i]] = <<>>
  PROVE  FirstGiven(query, names) = v
<1> DEFINE given == {i \in DOMAIN names : query[names[i]] # <<>>}
<1>1. DOMAIN names \subseteq Nat
  BY DEF UserNames, PasswordNames
<1>2. CASE v = <<>>
  <2>1. given = {}
    BY <1>2
  <2> QED
    BY <1>2, <2>1 DEF FirstGiven
<1>3. CASE v # <<>>
  <2>1. given = {k}
    BY <1>3
  <2>2. k \in Nat
    BY <1>1
  <2>3. (CHOOSE i \in given : \A j \in given : i <= j) = k
    BY <2>1, <2>2
  <2>4. given # {}
    BY <2>1
  <2> QED
    BY <2>3, <2>4 DEF FirstGiven
<1> QED
  BY <1>2, <1>3

LEMMA QueryGives ==
  ASSUME NEW i \in DOMAIN UserNames, NEW j \in DOMAIN PasswordNames,
         NEW u, NEW p
  PROVE  LET q == Query(UserNames[i], u, PasswordNames[j], p)
         IN FirstGiven(q, UserNames) = u /\ FirstGiven(q, PasswordNames) = p
<1> DEFINE q == Query(UserNames[i], u, PasswordNames[j], p)
<1>1. /\ DOMAIN UserNames = 1..2 /\ DOMAIN PasswordNames = 1..3
      /\ UserNames[1] = "user" /\ UserNames[2] = "loginuse"
      /\ PasswordNames[1] = "pwd" /\ PasswordNames[2] = "loginpas"
      /\ PasswordNames[3] = "password"
  BY DEF UserNames, PasswordNames
<1>2. /\ q[UserNames[i]] = u /\ q[PasswordNames[j]] = p
      /\ \A k \in DOMAIN UserNames \ {i} : q[UserNames[k]] = <<>>
      /\ \A k \in DOMAIN PasswordNames \ {j} : q[PasswordNames[k]] = <<>>
  BY <1>1 DEF Query, NoQuery
<1> HIDE DEF q
<1>3. FirstGiven(q, UserNames) = u
  BY <1>2, GivenOnce
<1>4. FirstGiven(q, PasswordNames) = p
  BY <1>2, GivenOnce
<1> QED
  BY <1>3, <1>4 DEF q

LEMMA NoQueryGives ==
  /\ FirstGiven(NoQuery, UserNames) = <<>>
  /\ FirstGiven(NoQuery, PasswordNames) = <<>>
<1>1. /\ DOMAIN UserNames = 1..2 /\ DOMAIN PasswordNames = 1..3
      /\ UserNames[1] = "user" /\ UserNames[2] = "loginuse"
      /\ PasswordNames[1] = "pwd" /\ PasswordNames[2] = "loginpas"
      /\ PasswordNames[3] = "password"
  BY DEF UserNames, PasswordNames
<1>2. /\ \A k \in DOMAIN UserNames : NoQuery[UserNames[k]] = <<>>
      /\ \A k \in DOMAIN PasswordNames : NoQuery[PasswordNames[k]] = <<>>
  BY <1>1 DEF NoQuery
<1> QED
  BY <1>2 DEF FirstGiven

(* The check is exact, for whatever is tried.                              *)
LEMMA AuthExact ==
  ASSUME cfg \in ConfigType
  PROVE  AuthHolds
<1> DEFINE own == <<cfg.username, cfg.password>>
<1>1. cfg.username # <<>> /\ cfg.password # <<>>
  BY DEF ConfigType
<1>2. ASSUME NEW u, NEW p,
             NEW i \in DOMAIN UserNames, NEW j \in DOMAIN PasswordNames
      PROVE  CheckHTTPAuth(Query(UserNames[i], u, PasswordNames[j], p),
                           <<>>, cfg)
               <=> <<u, p>> \in {own, <<<<>>, <<>>>>}
  <2> DEFINE q == Query(UserNames[i], u, PasswordNames[j], p)
  <2>1. FirstGiven(q, UserNames) = u /\ FirstGiven(q, PasswordNames) = p
    BY QueryGives
  <2> HIDE DEF q
  <2>2. CheckHTTPAuth(q, <<>>, cfg) <=>
          IF u # <<>> \/ p # <<>> THEN <<u, p>> = own ELSE TRUE
    BY <1>1, <2>1 DEF CheckHTTPAuth
  <2>3. <<u, p>> = <<<<>>, <<>>>> <=> u = <<>> /\ p = <<>>
    OBVIOUS
  <2> QED
    BY <2>2, <2>3 DEF q
<1>3. ASSUME NEW u, NEW p
      PROVE  CheckHTTPAuth(NoQuery, <<u, p>>, cfg) <=> <<u, p>> = own
  BY <1>1, NoQueryGives DEF CheckHTTPAuth
<1> QED
  BY <1>2, <1>3 DEF AuthHolds

LEMMA HttpRight ==
  ASSUME cfg \in ConfigType, NEW proto \in {"http", "auth"}, NEW claim, NEW P,
         claim # "AAC", P \subseteq routes,
         \A p \in P : /\ Content(p) = claim
                      /\ proto = "auth" <=> p \in AuthPaths
  PROVE  AllRight(PlainHanded(proto, claim, P))
<1>1. ASSUME NEW p \in P
      PROVE  Right([proto |-> proto, claim |-> claim, url |-> Plain(p)])
  <2> DEFINE e == [proto |-> proto, claim |-> claim, url |-> Plain(p)]
  <2>1. e.proto = proto /\ e.claim = claim /\ e.url.parts[1].value = p
    BY PlainPart
  <2> HIDE DEF e
  <2>2. Serves(p, claim) /\ (proto = "auth" <=> p \in AuthPaths)
    BY DEF Serves
  <2>3. Served(e)
    BY <2>1, <2>2, AuthExact DEF Served
  <2>4. ~Misled(e)
    BY <2>1 DEF Misled
  <2>5. Right(e)
    BY <2>3, <2>4 DEF Right
  <2> QED
    BY <2>5 DEF e
<1> DEFINE U == {Plain(p) : p \in P}
<1>2. \A u \in U : Right([proto |-> proto, claim |-> claim, url |-> u])
  BY <1>1
<1> HIDE DEF U
<1>3. AllRight(Handed(proto, claim, U))
  BY <1>2, HandedRight
<1> QED
  BY <1>3 DEF PlainHanded, U

LEMMA AacRight == AllRight(PlainHanded("http", "AAC", {"/api/stream.aac"}))
<1> DEFINE u == Plain("/api/stream.aac")
           e == [proto |-> "http", claim |-> "AAC", url |-> u]
<1>1. /\ e.proto = "http" /\ e.claim = "AAC"
      /\ e.url.parts[1].value = "/api/stream.aac"
  BY PlainPart
<1>2. Content("/api/stream.aac") = "nothing"
  BY DEF Content, MjpegPaths, SnapshotPaths
<1> HIDE DEF e, u
<1>3. ~Served(e)
  BY <1>1, <1>2 DEF Served, Serves
<1>4. Misled(e)
  BY <1>1 DEF Misled
<1>5. Right(e)
  BY <1>3, <1>4 DEF Right
<1>6. \A v \in {u} : Right([proto |-> "http", claim |-> "AAC", url |-> v])
  BY <1>5 DEF e
<1>7. AllRight(Handed("http", "AAC", {u}))
  BY <1>6, HandedRight
<1>8. {Plain(p) : p \in {"/api/stream.aac"}} = {u}
  BY DEF u
<1> QED
  BY <1>7, <1>8 DEF PlainHanded

LEMMA HttpAllRight ==
  ASSUME cfg \in ConfigType, routes = HttpRoutes(cfg)
  PROVE  AllRight(PrintHTTP)
<1> DEFINE R(proto, claim, P) == AllRight(PlainHanded(proto, claim, P))
<1>1. R("http", "page", {"/"})
  <2>1. /\ {"/"} \subseteq routes
        /\ \A p \in {"/"} : Content(p) = "page" /\ p \notin AuthPaths
    BY DEF HttpRoutes, Content, AuthPaths, MjpegPaths, SnapshotPaths
  <2> QED
    BY <2>1, HttpRight
<1>2. R("http", "MP4", {"/api/stream.mp4"})
  <2>1. /\ {"/api/stream.mp4"} \subseteq routes
        /\ \A p \in {"/api/stream.mp4"} :
             Content(p) = "MP4" /\ p \notin AuthPaths
    BY DEF HttpRoutes, Content, AuthPaths, MjpegPaths, SnapshotPaths
  <2> QED
    BY <2>1, HttpRight
<1>3. R("http", "key frame", {"/api/frame.mp4"})
  <2>1. /\ {"/api/frame.mp4"} \subseteq routes
        /\ \A p \in {"/api/frame.mp4"} :
             Content(p) = "key frame" /\ p \notin AuthPaths
    BY DEF HttpRoutes, Content, AuthPaths, MjpegPaths, SnapshotPaths
  <2> QED
    BY <2>1, HttpRight
<1>4. R("http", "HLS", {"/api/stream.m3u8"})
  <2>1. /\ {"/api/stream.m3u8"} \subseteq routes
        /\ \A p \in {"/api/stream.m3u8"} :
             Content(p) = "HLS" /\ p \notin AuthPaths
    BY DEF HttpRoutes, Content, AuthPaths, MjpegPaths, SnapshotPaths
  <2> QED
    BY <2>1, HttpRight
<1>5. R("http", "MJPEG", {"/api/stream.mjpeg", "/videofeed"})
  <2>1. /\ {"/api/stream.mjpeg", "/videofeed"} \subseteq routes
        /\ \A p \in {"/api/stream.mjpeg", "/videofeed"} :
             Content(p) = "MJPEG" /\ p \notin AuthPaths
    BY DEF HttpRoutes, Content, AuthPaths, MjpegPaths, SnapshotPaths
  <2> QED
    BY <2>1, HttpRight
<1>6. R("http", "JPEG", {"/api/frame.jpeg", "/tmpfs/auto.jpg"})
  <2>1. /\ {"/api/frame.jpeg", "/tmpfs/auto.jpg"} \subseteq routes
        /\ \A p \in {"/api/frame.jpeg", "/tmpfs/auto.jpg"} :
             Content(p) = "JPEG" /\ p \notin AuthPaths
    BY DEF HttpRoutes, Content, AuthPaths, MjpegPaths, SnapshotPaths
  <2> QED
    BY <2>1, HttpRight
<1>7. R("http", "FLV", {"/api/stream.flv"})
  <2>1. /\ {"/api/stream.flv"} \subseteq routes
        /\ \A p \in {"/api/stream.flv"} :
             Content(p) = "FLV" /\ p \notin AuthPaths
    BY DEF HttpRoutes, Content, AuthPaths, MjpegPaths, SnapshotPaths
  <2> QED
    BY <2>1, HttpRight
<1>8. R("http", "MPEG-TS", {"/api/stream.ts"})
  <2>1. /\ {"/api/stream.ts"} \subseteq routes
        /\ \A p \in {"/api/stream.ts"} :
             Content(p) = "MPEG-TS" /\ p \notin AuthPaths
    BY DEF HttpRoutes, Content, AuthPaths, MjpegPaths, SnapshotPaths
  <2> QED
    BY <2>1, HttpRight
<1>9. R("auth", "JPEG", {"/snapshot.jpg"})
  <2>1. /\ {"/snapshot.jpg"} \subseteq routes
        /\ \A p \in {"/snapshot.jpg"} :
             Content(p) = "JPEG" /\ p \in AuthPaths
    BY DEF HttpRoutes, Content, AuthPaths, MjpegPaths, SnapshotPaths
  <2> QED
    BY <2>1, HttpRight
<1>10. R("auth", "MJPEG", {"/videostream.cgi"})
  <2>1. /\ {"/videostream.cgi"} \subseteq routes
        /\ \A p \in {"/videostream.cgi"} :
             Content(p) = "MJPEG" /\ p \in AuthPaths
    BY DEF HttpRoutes, Content, AuthPaths, MjpegPaths, SnapshotPaths
  <2> QED
    BY <2>1, HttpRight
<1> QED
  BY <1>1, <1>2, <1>3, <1>4, <1>5, <1>6, <1>7, <1>8, <1>9, <1>10, AacRight
     DEF AllRight, PrintHTTP

LEMMA PrintedRight ==
  ASSUME cfg \in ConfigType, routes = HttpRoutes(cfg)
  PROVE  AllRight(PrintEndpoints(cfg))
<1>1. AllRight(PrintDVRIP(cfg))
  <2>1. AllRight(Handed("dvrip", "main", {DvripURL(cfg, "0")}))
    BY DvripRight
  <2>2. AllRight(Handed("dvrip", "sub", {DvripURL(cfg, "1")}))
    BY DvripRight
  <2> QED
    BY <2>1, <2>2 DEF AllRight, PrintDVRIP
<1>2. cfg.onvifEnabled => AllRight(PlainHanded("http", "SOAP", {"/onvif/"}))
  <2> SUFFICES ASSUME cfg.onvifEnabled
               PROVE  AllRight(PlainHanded("http", "SOAP", {"/onvif/"}))
    OBVIOUS
  <2>1. /\ {"/onvif/"} \subseteq routes
        /\ \A p \in {"/onvif/"} : Content(p) = "SOAP" /\ p \notin AuthPaths
    BY DEF HttpRoutes, Content, AuthPaths, MjpegPaths, SnapshotPaths
  <2> QED
    BY <2>1, HttpRight
<1>3. AllRight(PrintRTSP(cfg)) /\ AllRight(PrintHTTP) /\ AllRight(PrintRTMP)
  BY RtspAllRight, HttpAllRight, RtmpAllRight
<1> QED
  BY <1>1, <1>2, <1>3 DEF AllRight, PrintEndpoints

LEMMA OnvifRight ==
  ASSUME cfg \in ConfigType, routes = HttpRoutes(cfg)
  PROVE  AllRight(OnvifUris)
<1>1. AllRight(Handed("rtsp", "main", {StreamUri("main")}))
  <2>1. \A u \in {StreamUri("main")} : ResolveRTSP(u, cfg) = "main"
    BY ChannelResolves DEF StreamUri
  <2> QED
    BY <2>1, RtspRight
<1>2. AllRight(Handed("rtsp", "sub", {StreamUri("sub")}))
  <2>1. \A u \in {StreamUri("sub")} : ResolveRTSP(u, cfg) = "sub"
    BY ChannelResolves DEF StreamUri
  <2> QED
    BY <2>1, RtspRight
<1>3. AllRight(PlainHanded("http", "JPEG", {"/api/frame.jpeg"}))
  <2>1. /\ {"/api/frame.jpeg"} \subseteq routes
        /\ \A p \in {"/api/frame.jpeg"} :
             Content(p) = "JPEG" /\ p \notin AuthPaths
    BY DEF HttpRoutes, Content, AuthPaths, MjpegPaths, SnapshotPaths
  <2> QED
    BY <2>1, HttpRight
<1> QED
  BY <1>1, <1>2, <1>3 DEF AllRight, OnvifUris

(* Every URL that is printed or given by ONVIF leads to what it is said to *)
(* be, with the own credentials and no others where it asks for them, but  *)
(* exactly for those that Misled names: the AAC stream, the sub streams    *)
(* under /bcs/, and the sdp and DVRIP URLs in which a credential means     *)
(* something else.  This holds of every configuration and every            *)
(* credential.                                                             *)
THEOREM AdvertisedExactly == Spec => []AdvertisedServed
<1>1. ServersInv /\ MainType => AdvertisedServed
  <2> SUFFICES ASSUME ServersInv, MainType, pc = "ready"
               PROVE  AllRight(Advertised(cfg))
    BY DEF AdvertisedServed, AllRight, Right
  <2>1. cfg \in ConfigType /\ routes = HttpRoutes(cfg)
    BY DEF ServersInv, MainType, Listening
  <2>2. AllRight(PrintEndpoints(cfg)) /\ AllRight(OnvifUris)
    BY <2>1, PrintedRight, OnvifRight
  <2> QED
    BY <2>2 DEF AllRight, Advertised
<1>2. Spec => []ServersInv
  BY ServersInvInit, ServersInvNext, PTL DEF Spec
<1> QED
  BY <1>1, <1>2, TypesAlways, PTL

-----------------------------------------------------------------------------
(* Start-up order.  main waits 500 ms and hopes; what it can rely on is    *)
(* that everything which pushes or plays was started behind the listeners  *)
(* it needs, and that a child plays a producer that has been there.        *)
Launched ==
  \/ \E s \in Streams : pusher[s] # "none"
  \/ snapper.at # "none"

StartedInOrder ==
  /\ Launched => \A s \in Needed : server[s] # "off"
  /\ mjpeg.at # "none" => server["http"] = "up"
  /\ \A s \in Streams : HasProducer(s) => pusher[s] # "none"
  /\ snapper.at = "joined" => snapper.from \in 1..producer["main"]
  /\ mjpeg.at = "joined" => mjpeg.from \in 1..producer[mjpeg.stream]

(* The strengthening: how far main has come when a listener is up, and     *)
(* that http, once up, is so until the process ends.                       *)
Reached ==
  /\ pc \in Listening \cup {"http"} => server["rtsp"] # "off"
  /\ pc \in Listening => server["http"] = "up"
  /\ pc \in Listening \ {"rtmp"} => server["rtmp"] # "off"
  /\ server["http"] # "off" => pc \in Listening
  /\ Launched => pc \in {"print", "ready"}
  /\ mjpeg.at # "none" => server["http"] # "off"

Behind ==
  /\ \A s \in Streams : HasProducer(s) => pusher[s] # "none"
  /\ snapper.at = "joined" => snapper.from \in 1..producer["main"]
  /\ mjpeg.at = "joined" => mjpeg.from \in 1..producer[mjpeg.stream]

LEMMA OrderInit == Init => Reached /\ Behind
<1> QED
  BY DEF Init, Reached, Behind, Launched, HasProducer, Idle, Listening,
         Servers, Streams

LEMMA ExitInOrder ==
  ASSUME Exit
  PROVE  Reached' /\ Behind'
<1> QED
  BY DEF Exit, Reached, Behind, Launched, HasProducer, Idle, Listening,
         Servers, Streams

LEMMA ReachedNext ==
  MainType /\ RunType /\ Reached /\ [Next]_vars => Reached'
<1> SUFFICES ASSUME MainType, RunType, Reached, [Next]_vars PROVE Reached'
  OBVIOUS
<1> DEFINE Same == UNCHANGED <<pushVars, snapVars, mjpegVars>>
<1>1. ASSUME Same PROVE (Launched' <=> Launched) /\ mjpeg' = mjpeg
  BY <1>1 DEF Launched, pushVars, snapVars, mjpegVars
<1>2. ASSUME UNCHANGED <<pc, server>>, Launched' => Launched,
             mjpeg'.at # "none" => mjpeg.at # "none" \/ server["http"] = "up"
      PROVE  Reached'
  BY <1>2 DEF Reached
<1>3. ASSUME Same, server' = server,
             pc \notin Listening \cup {"http"},
             pc' \notin Listening \cup {"http"}
      PROVE  Reached'
  BY <1>1, <1>3 DEF Reached, Listening
<1>4. CASE DotEnv \/ Config \/ Restart
  BY <1>3, <1>4 DEF DotEnv, Config, Restart, At, Listening, serverVars
<1>5. CASE Videos
  BY <1>3, <1>5, ExitInOrder DEF Videos, Listening, serverVars
<1>6. ASSUME NEW s \in Servers, Listen(s) \/ ListenFails(s) PROVE Reached'
  <2>1. CASE Listen(s)
    <3>1. pc = s /\ pc' = After[s] /\ Same
      BY <2>1 DEF Listen, At
    <3>2. server' = [server EXCEPT ![s] = "up"] /\ DOMAIN server = Servers
      BY <2>1 DEF Listen, MainType
    <3>3. server'[s] = "up" /\ \A t \in Servers \ {s} : server'[t] = server[t]
      BY <3>2
    <3>4. ~Launched
      BY <3>1 DEF Reached, Servers
    <3> QED
      BY <1>1, <3>1, <3>3, <3>4 DEF Reached, After, Servers, Listening
  <2>2. CASE /\ s \notin Needed /\ pc = s /\ pc' = After[s]
             /\ UNCHANGED serverVars /\ Same
    <3>1. s \in {"bubble", "dvrip", "discovery"}
      BY <2>2 DEF Needed, Servers
    <3>2. /\ pc \in Listening \ {"rtmp"} /\ pc' \in Listening \ {"rtmp"}
          /\ pc \notin {"print", "ready"} /\ server' = server
      BY <2>2, <3>1 DEF After, Listening, serverVars
    <3> QED
      BY <1>1, <2>2, <3>2 DEF Reached
  <2> QED
    BY <1>6, <2>1, <2>2, ExitInOrder DEF ListenFails
<1>7. CASE StartServers
  <2>1. "discovery" \in Servers
    BY DEF Servers
  <2>2. CASE At("discovery", "wait") /\ UNCHANGED serverVars /\ Same
    BY <1>1, <2>2 DEF At, Reached, Listening, serverVars
  <2> QED
    BY <1>6, <1>7, <2>1, <2>2 DEF StartServers, StartDiscovery
<1>8. CASE Launch
  <2>1. /\ pc = "wait" /\ pc' = "print" /\ server' = server /\ mjpeg' = mjpeg
    BY <1>8 DEF Launch, At, serverVars, mjpegVars
  <2> QED
    BY <2>1 DEF Reached, Listening
<1>9. CASE PrintAll
  BY <1>1, <1>9 DEF PrintAll, At, Reached, Listening, serverVars
<1>10. CASE \E s \in Servers : AcceptFails(s)
  <2>1. PICK s \in Servers : AcceptFails(s)
    BY <1>10
  <2>2. /\ s # "http" /\ server' = [server EXCEPT ![s] = "deaf"]
        /\ server[s] = "up" /\ pc' = pc /\ Same
    BY <2>1 DEF AcceptFails, mainVars
  <2>3. \A t \in Servers : t # s => server'[t] = server[t]
    BY <2>2 DEF MainType
  <2>4. server'[s] = "deaf"
    BY <2>2 DEF MainType
  <2> QED
    BY <1>1, <2>2, <2>3, <2>4 DEF Reached, Servers
<1>11. CASE Crash
  BY <1>11, ExitInOrder DEF Crash
<1>12. CASE \E s \in Streams : PusherStep(s)
  <2>1. PICK s \in Streams : PusherStep(s)
    BY <1>12
  <2>2. Launched
    BY <2>1 DEF PusherStep, PusherConnects, PusherExits, PusherRestarts,
                Launched
  <2> QED
    BY <1>2, <2>1, <2>2
       DEF PusherStep, PusherConnects, PusherExits, PusherRestarts,
           mainVars, serverVars, mjpegVars
<1>13. CASE SnapStep
  <2>1. Launched
    BY <1>13 DEF SnapStep, SnapExec, SnapJoins, SnapTaken, SnapFails, CanJoin,
                 Dies, Launched
  <2> QED
    BY <1>2, <1>13, <2>1
       DEF SnapStep, SnapExec, SnapJoins, SnapTaken, SnapFails, mainVars,
           serverVars, mjpegVars
<1>14. CASE MjpegStarts \/ MjpegStep \/ ClientLeaves
  <2>1. UNCHANGED <<pushVars, snapVars>> /\ UNCHANGED <<pc, server>>
    BY <1>14 DEF MjpegStarts, MjpegStep, MjpegJoins, CopyEnds, MjpegKills,
                 ClientLeaves, mainVars, serverVars
  <2>2. Launched' <=> Launched
    BY <2>1 DEF Launched, pushVars, snapVars
  <2>3. mjpeg'.at # "none" => mjpeg.at # "none" \/ server["http"] = "up"
    BY <1>14 DEF MjpegStarts, MjpegStep, MjpegJoins, CopyEnds, MjpegKills,
                 ClientLeaves, CanJoin, Dies
  <2> QED
    BY <1>2, <2>1, <2>2, <2>3
<1>15. CASE UNCHANGED vars
  BY <1>1, <1>2, <1>15 DEF vars, mainVars, serverVars
<1> QED
  BY <1>4, <1>5, <1>7, <1>8, <1>9, <1>10, <1>11, <1>12, <1>13, <1>14, <1>15
     DEF Next, MainStep

LEMMA BehindNext == RunType /\ Behind /\ [Next]_vars => Behind'
<1> SUFFICES ASSUME RunType, Behind, [Next]_vars PROVE Behind'
  OBVIOUS
<1>1. ASSUME UNCHANGED <<pushVars, snapVars, mjpegVars>> PROVE Behind'
  BY <1>1 DEF Behind, HasProducer, pushVars, snapVars, mjpegVars
<1>2. CASE DotEnv \/ Config \/ Videos \/ StartServers \/ PrintAll \/ Restart
  BY <1>1, <1>2, ExitInOrder
     DEF DotEnv, Config, Videos, StartServers, StartDiscovery, Listen,
         ListenFails, PrintAll, Restart
<1>3. CASE Launch
  <2>1. /\ pusher' = [s \in Streams |-> "starting"]
        /\ snapper' = [Idle EXCEPT !.at = "pause"]
        /\ UNCHANGED <<producer, mjpeg>>
    BY <1>3 DEF Launch, mjpegVars
  <2>2. snapper'.at # "joined"
    BY <2>1 DEF Idle
  <2> QED
    BY <2>1, <2>2 DEF Behind, HasProducer
<1>4. CASE (\E s \in Servers : AcceptFails(s)) \/ Crash
  BY <1>1, <1>4, ExitInOrder DEF AcceptFails, Crash
<1>5. CASE \E s \in Streams : PusherStep(s)
  <2>1. PICK s \in Streams : PusherStep(s)
    BY <1>5
  <2>2. /\ pusher'[s] # "none"
        /\ \A t \in Streams : t # s => /\ pusher'[t] = pusher[t]
                                       /\ producer'[t] = producer[t]
        /\ UNCHANGED <<snapper, mjpeg>>
    BY <2>1 DEF PusherStep, PusherConnects, PusherExits, PusherRestarts,
                RunType, snapVars, mjpegVars
  <2>3. /\ \A t \in Streams : producer[t] \in Nat /\ producer'[t] \in Nat
        /\ \A t \in Streams : producer[t] <= producer'[t]
    BY <2>1 DEF PusherStep, PusherConnects, PusherExits, PusherRestarts,
                RunType
  <2>4. \A t \in Streams : HasProducer(t)' => pusher'[t] # "none"
    BY <2>2 DEF Behind, HasProducer
  <2>5. mjpeg.stream \in Streams /\ "main" \in Streams
    BY DEF RunType, Child, Streams
  <2> QED
    BY <2>2, <2>3, <2>4, <2>5 DEF Behind
<1>6. ASSUME NEW c \in Child, NEW s \in Streams, CanJoin(c, s)
      PROVE  Joined(c, s).from \in 1..producer[s]
  BY <1>6 DEF CanJoin, HasProducer, Joined, Child, RunType
<1>7. CASE SnapStep
  <2>1. UNCHANGED <<pushVars, mjpegVars>> /\ "main" \in Streams
    BY <1>7 DEF SnapStep, SnapExec, SnapJoins, SnapTaken, SnapFails, Streams
  <2>2. snapper \in Child
    BY DEF RunType
  <2>3. snapper'.at = "joined" => snapper'.from \in 1..producer["main"]
    <3>1. CASE SnapJoins
      BY <1>6, <2>1, <2>2, <3>1 DEF SnapJoins
    <3>2. CASE SnapExec \/ SnapTaken \/ SnapFails
      BY <2>2, <3>2 DEF SnapExec, SnapTaken, SnapFails, Child
    <3> QED
      BY <1>7, <3>1, <3>2 DEF SnapStep
  <2> QED
    BY <2>1, <2>3 DEF Behind, HasProducer, pushVars, mjpegVars
<1>8. CASE MjpegStarts \/ MjpegStep \/ ClientLeaves
  <2>1. UNCHANGED <<pushVars, snapVars>>
    BY <1>8 DEF MjpegStarts, MjpegStep, MjpegJoins, CopyEnds, MjpegKills,
                ClientLeaves
  <2>2. mjpeg \in Child /\ mjpeg.stream \in Streams
    BY DEF RunType, Child
  <2>3. mjpeg'.at = "joined" =>
          mjpeg'.from \in 1..producer[mjpeg'.stream]
    <3>1. CASE MjpegJoins
      <4>1. mjpeg'.stream = mjpeg.stream
        BY <2>2, <3>1 DEF MjpegJoins, Joined, Child
      <4> QED
        BY <1>6, <2>2, <3>1, <4>1 DEF MjpegJoins
    <3>2. CASE MjpegStarts \/ CopyEnds \/ MjpegKills
      BY <2>2, <3>2 DEF MjpegStarts, CopyEnds, MjpegKills, Child, Idle
    <3>3. CASE ClientLeaves
      BY <3>3 DEF ClientLeaves, Behind
    <3> QED
      BY <1>8, <3>1, <3>2, <3>3 DEF MjpegStep
  <2> QED
    BY <2>1, <2>3 DEF Behind, HasProducer, pushVars, snapVars
<1>9. CASE UNCHANGED vars
  BY <1>1, <1>9 DEF vars
<1> QED
  BY <1>2, <1>3, <1>4, <1>5, <1>7, <1>8, <1>9 DEF Next, MainStep

(* Nothing pushes or plays before rtsp, http and rtmp listen, a stream     *)
(* that has a producer has a pusher that will replace it, and no child     *)
(* plays a producer that never was: also across exits and restarts.        *)
THEOREM LaunchedBehindServers == Spec => []StartedInOrder
<1>1. Reached /\ Behind => StartedInOrder
  BY DEF Reached, Behind, StartedInOrder, Needed, Listening
<1> QED
  BY <1>1, TypesAlways, OrderInit, ReachedNext, BehindNext, PTL DEF Spec
=============================================================================
