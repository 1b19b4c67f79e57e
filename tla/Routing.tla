------------------------------ MODULE Routing -------------------------------
(***************************************************************************)
(* Which stream a URL leads to (rtsp_server.go, rtmp_server.go,            *)
(* http_server.go, dvrip_server.go), and the URLs that the program hands   *)
(* out: the list it prints (main.go) and the ONVIF answers (onvif.go).     *)
(* Operators only.                                                         *)
(*                                                                         *)
(* A URL is what url.Parse makes of it, in the parts that the resolvers    *)
(* look at, each with a key if it has one.  form says what the parts are:  *)
(* "plain" (the whole path), "channel" (its digits), "realmonitor" (the    *)
(* query), "sdp" (the path cut at underscores), "rtmp" (the segments of    *)
(* the path, and the query), "dvrip" (the query); "refused" is a URL that  *)
(* leads nowhere.                                                          *)
(***************************************************************************)
EXTENDS Naturals, Sequences

(* What a word of a credential has in it that means something in a URL:    *)
(*   "?"   a '?' or '#', at which a path ends;                             *)
(*   "%"   a '%' for which url.Parse refuses the URL, as it starts no      *)
(*         escape and is not behind a '?';                                 *)
(*   "%41" an escape, which is decoded into another word;                  *)
(*   "/"   a '/' or something else that cannot be in a URL's user info.    *)
CONSTANT Marks(_)

Has(words, marks) == \E i \in DOMAIN words : Marks(words[i]) \cap marks # {}

Streams == {"main", "sub"}

(* Mutant: the first digit decides.                                        *)
HikvisionFirst(digits) == IF digits[1].value = "2" THEN "sub" ELSE "main"

HikvisionChannel(digits) ==
  IF digits # <<>> /\ digits[Len(digits)].value = "2" THEN "sub" ELSE "main"

(* The first value of a key in a query, the last one in an sdp path; a     *)
(* part of an sdp path without "=" has key "".                             *)
Get(parts, key) ==
  LET with == {i \in DOMAIN parts : parts[i].key = key}
  IN IF with = {} THEN <<>>
     ELSE <<parts[CHOOSE i \in with : \A j \in with : i <= j].value>>

Param(parts, key) ==
  LET with == {i \in DOMAIN parts : parts[i].key = key}
  IN IF with = {} THEN <<>>
     ELSE <<parts[CHOOSE i \in with : \A j \in with : j <= i].value>>

DahuaSubtype(query) ==
  IF Get(query, "subtype") = <<"1">> THEN "sub" ELSE "main"

XmSDP(parts, username, password) ==
  IF \/ Param(parts, "user") \notin {<<>>, username}
     \/ Param(parts, "password") \notin {<<>>, password}
  THEN "none"
  ELSE IF Param(parts, "stream") = <<"1">> THEN "sub" ELSE "main"

SubPaths == {"/sub", "/12", "/1", "/stream2", "/live/ch1"}

ResolveRTSP(url, cfg) ==
  CASE url.form = "plain" ->
         IF url.parts[1].value \in SubPaths THEN "sub" ELSE "main"
    [] url.form = "channel" -> HikvisionChannel(url.parts)
    [] url.form = "realmonitor" -> DahuaSubtype(url.parts)
    [] url.form = "sdp" -> XmSDP(url.parts, cfg.username, cfg.password)
    [] url.form = "refused" -> "none"

(* c.App: an RTMP client connects to the first segment of the path and     *)
(* names the rest, with the query, only when it asks to play.              *)
App(url) == <<url.parts[1].value>>

SubMarks == {"channel0_sub.bcs", "channel0_ext.bcs", "stream=1", "stream=2"}

ResolveRTMP(app) ==
  IF \/ /\ app[1] = "bcs" /\ Len(app) > 1
        /\ \E i \in DOMAIN app : app[i] \in SubMarks
     \/ app \in {<<"sub">>, <<"live", "sub">>}
  THEN "sub" ELSE "main"

(* The client's choice of StreamType for the claim, then the server's.     *)
StreamType(url) ==
  IF Get(url.parts, "subtype") = <<"1">> THEN "Extra1" ELSE "Main"

ResolveDVRIP(streamType) == IF streamType = "Extra1" THEN "sub" ELSE "main"

(* Any of these in the query of an HTTP request asks for the sub stream.   *)
ResolveHTTP(query) ==
  IF query \cap {"src=sub", "stream=1", "subtype=1", "channel=sub"} # {}
  THEN "sub" ELSE "main"

-----------------------------------------------------------------------------
(* The HTTP paths that are registered.                                     *)
MjpegPaths ==
  {"/api/stream.mjpeg", "/videofeed", "/axis-cgi/mjpg/video.cgi",
   "/video/mjpg.cgi", "/mjpeg/video.mjpg", "/videostream.asf",
   "/videostream.cgi"}

SnapshotPaths ==
  {"/api/frame.jpeg", "/tmpfs/auto.jpg", "/cgi-bin/snapshot.cgi",
   "/img/snapshot.cgi", "/snapshot.jpg", "/snapshot.cgi"}

HttpRoutes(cfg) ==
  {"/", "/api/stream.mp4", "/api/frame.mp4", "/api/stream.m3u8",
   "/api/hls/playlist.m3u8", "/api/hls/segment.ts", "/api/hls/init.mp4",
   "/api/hls/segment.m4s", "/api/stream.flv", "/api/stream.ts",
   "/api/stream.aac"}
    \cup MjpegPaths \cup SnapshotPaths
    \cup (IF cfg.onvifEnabled THEN {"/onvif/"} ELSE {})

(* What the handler of a path gives to a plain request.  The HLS parts     *)
(* want a session, and for AAC there is no consumer: always 501.           *)
Content(path) ==
  CASE path \in MjpegPaths -> "MJPEG"
    [] path \in SnapshotPaths -> "JPEG"
    [] path = "/" -> "page"
    [] path = "/api/stream.mp4" -> "MP4"
    [] path = "/api/frame.mp4" -> "key frame"
    [] path = "/api/stream.m3u8" -> "HLS"
    [] path = "/api/stream.flv" -> "FLV"
    [] path = "/api/stream.ts" -> "MPEG-TS"
    [] path = "/onvif/" -> "SOAP"
    [] OTHER -> "nothing"

(* Some of them look at the credentials in the query or the header; a      *)
(* request that brings none at all is let through.                         *)
AuthPaths ==
  {"/cgi-bin/snapshot.cgi", "/snapshot.jpg", "/snapshot.cgi",
   "/videostream.asf", "/videostream.cgi"}

UserNames     == <<"user", "loginuse">>
PasswordNames == <<"pwd", "loginpas", "password">>

(* The query of a request that names a user and a password, or neither.    *)
NoQuery ==
  [n \in {"user", "loginuse", "pwd", "loginpas", "password"} |-> <<>>]

Query(userName, u, passwordName, p) ==
  [NoQuery EXCEPT ![userName] = u, ![passwordName] = p]

FirstGiven(query, names) ==
  LET given == {i \in DOMAIN names : query[names[i]] # <<>>}
  IN IF given = {} THEN <<>>
     ELSE query[names[CHOOSE i \in given : \A j \in given : i <= j]]

CheckHTTPAuth(query, basic, cfg) ==
  LET u == FirstGiven(query, UserNames)
      p == FirstGiven(query, PasswordNames)
      own == <<cfg.username, cfg.password>>
  IN \/ cfg.username = <<>>
     \/ IF u # <<>> \/ p # <<>> THEN <<u, p>> = own
        ELSE basic \in {<<>>, own}

-----------------------------------------------------------------------------
(* What is handed out: a protocol, a URL and what it is said to lead to, a *)
(* stream or for HTTP a kind of content.  The sdp URLs and the HTTP URLs   *)
(* that are said to need credentials count as protocols of their own.      *)

Parts(values) == [i \in DOMAIN values |-> [key |-> "", value |-> values[i]]]

Plain(p)       == [form |-> "plain", parts |-> Parts(<<p>>)]
Channel(d)     == [form |-> "channel", parts |-> Parts(d)]
Rtmp(segments) == [form |-> "rtmp", parts |-> Parts(segments)]
Refused        == [form |-> "refused", parts |-> <<>>]

Subtype(n)     == <<[key |-> "subtype", value |-> n]>>
RealMonitor(n) == [form |-> "realmonitor", parts |-> Subtype(n)]

(* "user=%s_password=%s_channel=1_stream=%d.sdp", split at underscores.    *)
Field(key, words) ==
  [i \in DOMAIN words |->
     [key |-> IF i = 1 THEN key ELSE "", value |-> words[i]]]

SdpPath(cfg, n) ==
  Field("user", cfg.username) \o Field("password", cfg.password)
    \o Field("channel", <<"1">>) \o Field("stream", <<n>>)

(* A path that ends before ".sdp" is any other; a decoded credential is    *)
(* not the one it is compared with.                                        *)
SdpURL(cfg, n) ==
  LET words == cfg.username \o cfg.password
  IN IF Has(words, {"%"}) THEN Refused
     ELSE IF Has(words, {"?"}) THEN Plain("/user")
     ELSE IF Has(words, {"%41"}) THEN Refused
     ELSE [form |-> "sdp", parts |-> SdpPath(cfg, n)]

(* "dvrip://%s:%s@%s:%s?channel=0&subtype=%d": the server takes any        *)
(* credentials, if only the address is still found.                        *)
DvripURL(cfg, n) ==
  IF Has(cfg.username \o cfg.password, {"?", "%", "/"}) THEN Refused
  ELSE [form |-> "dvrip", parts |-> Subtype(n)]

Handed(proto, claim, urls) ==
  {[proto |-> proto, claim |-> claim, url |-> u] : u \in urls}

PlainHanded(proto, claim, paths) ==
  Handed(proto, claim, {Plain(p) : p \in paths})

PrintRTSP(cfg) ==
  PlainHanded("rtsp", "main", {"/11", "/0", "/stream1", "/live/ch0"})
  \cup PlainHanded("rtsp", "sub", {"/12", "/1", "/stream2", "/live/ch1"})
  \cup Handed("rtsp", "main", {Channel(<<"1", "0", "1">>), RealMonitor("0")})
  \cup Handed("rtsp", "sub", {Channel(<<"1", "0", "2">>), RealMonitor("1")})
  \cup Handed("sdp", "main", {SdpURL(cfg, "0")})
  \cup Handed("sdp", "sub", {SdpURL(cfg, "1")})

PrintHTTP ==
  PlainHanded("http", "page", {"/"})
  \cup PlainHanded("http", "MP4", {"/api/stream.mp4"})
  \cup PlainHanded("http", "key frame", {"/api/frame.mp4"})
  \cup PlainHanded("http", "HLS", {"/api/stream.m3u8"})
  \cup PlainHanded("http", "MJPEG", {"/api/stream.mjpeg", "/videofeed"})
  \cup PlainHanded("http", "JPEG", {"/api/frame.jpeg", "/tmpfs/auto.jpg"})
  \cup PlainHanded("http", "FLV", {"/api/stream.flv"})
  \cup PlainHanded("http", "MPEG-TS", {"/api/stream.ts"})
  \cup PlainHanded("http", "AAC", {"/api/stream.aac"})
  \cup PlainHanded("auth", "JPEG", {"/snapshot.jpg"})
  \cup PlainHanded("auth", "MJPEG", {"/videostream.cgi"})

PrintRTMP ==
  Handed("rtmp", "main",
         {Rtmp(<<"main">>), Rtmp(<<"live">>), Rtmp(<<"live", "BalconyCam">>),
          Rtmp(<<"floodlight-cam">>),
          Rtmp(<<"bcs", "channel0_main.bcs", "stream=0">>)})
  \cup Handed("rtmp", "sub",
         {Rtmp(<<"sub">>), Rtmp(<<"bcs", "channel0_sub.bcs", "stream=1">>),
          Rtmp(<<"bcs", "channel0_ext.bcs", "stream=2">>)})

PrintDVRIP(cfg) ==
  Handed("dvrip", "main", {DvripURL(cfg, "0")})
  \cup Handed("dvrip", "sub", {DvripURL(cfg, "1")})

PrintEndpoints(cfg) ==
  PrintRTSP(cfg) \cup PrintHTTP \cup PrintRTMP \cup PrintDVRIP(cfg)
  \cup (IF cfg.onvifEnabled THEN PlainHanded("http", "SOAP", {"/onvif/"})
                            ELSE {})

(* GetProfiles names the profiles main and sub; GetStreamUri and           *)
(* GetSnapshotUri give their URLs.                                         *)
StreamUri(token) ==
  Channel(IF token = "sub" THEN <<"1", "0", "2">> ELSE <<"1", "0", "1">>)

OnvifUris ==
  Handed("rtsp", "main", {StreamUri("main")})
  \cup Handed("rtsp", "sub", {StreamUri("sub")})
  \cup PlainHanded("http", "JPEG", {"/api/frame.jpeg"})

Advertised(cfg) ==
  PrintEndpoints(cfg) \cup (IF cfg.onvifEnabled THEN OnvifUris ELSE {})
=============================================================================
