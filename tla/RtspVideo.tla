------------------------------ MODULE RtspVideo ------------------------------
(***************************************************************************)
(* The video half of the RTSP server (internal/stream/rtsp_server.go): the *)
(* renumbering of the camera's packets into one continuous RTP stream, the *)
(* cache of the last IDR frame, and its injection for a client that joins. *)
(*                                                                         *)
(* The SRTP proxy hands over the packets of a frame one by one, either to  *)
(* WriteVideoPacket or, for a key frame with holes, to                     *)
(* CacheOnlyVideoPacket; what it can hand over is what FrameBuffer shows.  *)
(* Each packet is one critical section of videoWriteMu, and so is the      *)
(* injection of a whole IDR.  ResetVideoRTP begins a camera session; the   *)
(* proxy of the previous one has been closed by then (SrtpProxy,           *)
(* ProxyFollowsSession), so it finds no frame half handed over.            *)
(*                                                                         *)
(* uint16 and uint32 arithmetic is modulo SeqMod and TSMod.  The payload   *)
(* types, the parameter sets (extractSPSPPS) and the snapshot are left out.*)
(* So are the returns for want of a stream (377, 660): the RTSP stream is  *)
(* there from Start to Stop, and Stop is in SrtpProxy.                     *)
(***************************************************************************)
EXTENDS Integers, Sequences, FiniteSets

CONSTANTS
  Clients,
  SeqMod, TSMod,             \* 2^16 and 2^32 in the code
  CameraTS,                  \* timestamps a camera session may begin with
  FrameTicks,                \* camera timestamp increment from frame to frame
  MinGap,                    \* 4500 in the code
  Gaps,                      \* elapsed time, in ticks, a reset may find
  MaxFrames, MaxSessions     \* bounds

ASSUME RtspVideoAssumption ==
  /\ SeqMod \in Nat \ {0} /\ TSMod \in Nat \ {0}
  /\ CameraTS \subseteq 0 .. (TSMod - 1)
  /\ FrameTicks \in Nat \ {0} /\ MinGap \in Nat \ {0} /\ Gaps \subseteq Nat
  /\ MaxFrames \in Nat /\ MaxSessions \in Nat

VARIABLES
  session,                   \* number of the camera session
  resetting,                 \* ResetVideoRTP is between its two halves
  frames,                    \* frames the camera has sent, in all
  cameraTS,                  \* timestamp of the camera's current frame
  todo,                      \* packets of it still to be handed over
  route,                     \* "write" or "cacheOnly": where they go
  videoSeq, videoSeqInited, videoTSBase, videoTSOffset, lastVideoTS,
  idrCache, idrPending, collectingIDR,
  idrReady,                  \* the current channel: one per session
  ready,                     \* the channels that have been closed
  play,                      \* OnPlay's goroutine of each client
  waitsOn,                   \* the channel it waits on
  out                        \* the packets written to the RTSP stream

proxyVars == <<session, frames, cameraTS, todo, route>>
rtpVars == <<videoSeq, videoSeqInited, videoTSBase, videoTSOffset, lastVideoTS>>
idrVars == <<idrCache, idrPending, collectingIDR, idrReady, ready>>
playVars == <<play, waitsOn>>
vars == <<resetting, proxyVars, rtpVars, idrVars, playVars, out>>

\* No camera session yet; channel 0 is the one Start made.
Init ==
  /\ resetting = FALSE
  /\ session = 0 /\ frames = 0 /\ cameraTS = 0 /\ todo = <<>> /\ route = "write"
  /\ videoSeq = 0 /\ videoSeqInited = FALSE
  /\ videoTSBase = 0 /\ videoTSOffset = 0 /\ lastVideoTS = 0
  /\ idrCache = <<>> /\ idrPending = <<>> /\ collectingIDR = FALSE
  /\ idrReady = 0 /\ ready = {}
  /\ play = [c \in Clients |-> "none"]
  /\ waitsOn = [c \in Clients |-> 0]
  /\ out = <<>>

-----------------------------------------------------------------------------
(***************************************************************************)
(* What the proxy hands over.                                              *)
(***************************************************************************)
VideoPacket(type, marker) ==
  [type |-> type, frame |-> frames + 1, session |-> session, marker |-> marker]

STAPA == VideoPacket("STAP-A", FALSE)
IDRStart == VideoPacket("IDR start", FALSE)
LastFragment == VideoPacket("FU-A", TRUE)

Frame(kind) ==
  IF kind = "idr" THEN <<STAPA, IDRStart, LastFragment>>
                  ELSE <<VideoPacket("FU-A start", FALSE), LastFragment>>

\* A whole frame, or a key frame whose STAP-A was lost, to WriteVideoPacket; a
\* key frame that begins with its STAP-A and lacks any of the rest to
\* CacheOnlyVideoPacket.
NextFrame(kind) ==
  /\ session > 0 /\ ~resetting /\ todo = <<>> /\ frames < MaxFrames
  /\ frames' = frames + 1
  /\ IF videoSeqInited
       THEN cameraTS' = (cameraTS + FrameTicks) % TSMod
       ELSE cameraTS' \in CameraTS
  /\ \/ /\ route' = "write"
        /\ todo' \in {Frame(kind)}
             \cup (IF kind = "idr" THEN {<<IDRStart, LastFragment>>} ELSE {})
     \/ /\ kind = "idr" /\ route' = "cacheOnly"
        /\ todo' \in {<<STAPA>>, <<STAPA, IDRStart>>, <<STAPA, LastFragment>>, Frame(kind)}
  /\ UNCHANGED <<resetting, session, rtpVars, idrVars, playVars, out>>

-----------------------------------------------------------------------------
\* Collect the packets of the IDR access unit; its marker completes the cache
\* and closes idrReady unless it is closed already.
cacheIDRPacket(p) ==
  CASE p.type = "STAP-A" ->
         /\ idrPending' = <<p>> /\ collectingIDR' = FALSE
         /\ UNCHANGED <<idrCache, ready>>
    [] p.type = "IDR start" ->
         /\ idrPending' = Append(idrPending, p) /\ collectingIDR' = TRUE
         /\ UNCHANGED <<idrCache, ready>>
    [] OTHER ->
         IF ~collectingIDR THEN UNCHANGED <<idrPending, collectingIDR, idrCache, ready>>
         ELSE IF p.marker
           THEN /\ idrCache' = Append(idrPending, p)
                /\ idrPending' = <<>> /\ collectingIDR' = FALSE
                /\ ready' = ready \cup {idrReady}
           ELSE /\ idrPending' = Append(idrPending, p)
                /\ UNCHANGED <<idrCache, collectingIDR, ready>>

\* A packet as it is written: what it carries, under which number and time.
Written(p, seq, ts, injected) ==
  [frame |-> p.frame, session |-> p.session, marker |-> p.marker,
   seq |-> seq, ts |-> ts, injected |-> injected]

\* The first packet of a session sets the base; the output is offset by it.
normalizeVideoRTP ==
  LET base == IF videoSeqInited THEN videoTSBase ELSE cameraTS
  IN  /\ videoTSBase' = base
      /\ videoSeqInited' = TRUE
      /\ videoSeq' = (videoSeq + 1) % SeqMod
      /\ lastVideoTS' = (videoTSOffset + (cameraTS - base)) % TSMod
      /\ UNCHANGED videoTSOffset

WriteVideoPacket ==
  /\ todo # <<>> /\ route = "write"
  /\ normalizeVideoRTP
  /\ cacheIDRPacket(Head(todo))
  /\ out' = Append(out, Written(Head(todo), videoSeq, lastVideoTS', FALSE))
  /\ todo' = Tail(todo)
  /\ UNCHANGED <<resetting, session, frames, cameraTS, route, idrReady, playVars>>

CacheOnlyVideoPacket ==
  /\ todo # <<>> /\ route = "cacheOnly"
  /\ cacheIDRPacket(Head(todo))
  /\ todo' = Tail(todo)
  /\ UNCHANGED <<resetting, session, frames, cameraTS, route, idrReady, rtpVars, playVars, out>>

-----------------------------------------------------------------------------
(***************************************************************************)
(* ResetVideoRTP: a new camera session.  It takes videoWriteMu first and   *)
(* idrMu after it, and a client may come in between.                       *)
(***************************************************************************)

\* The timestamps will go on after the time that passed.  A mutated form that
\* leaves no gap after the last timestamp of the old session.
ResetRTPNoGap ==
  /\ session < MaxSessions /\ todo = <<>> /\ ~resetting
  /\ resetting' = TRUE
  /\ videoTSOffset' = IF videoSeqInited THEN lastVideoTS ELSE videoTSOffset
  /\ videoSeqInited' = FALSE
  /\ UNCHANGED <<proxyVars, videoSeq, videoTSBase, lastVideoTS, idrVars, playVars, out>>

ResetRTP ==
  /\ session < MaxSessions /\ todo = <<>> /\ ~resetting
  /\ resetting' = TRUE
  /\ IF videoSeqInited
       THEN \E gap \in Gaps :
              videoTSOffset' = (lastVideoTS + (IF gap < MinGap THEN MinGap ELSE gap)) % TSMod
       ELSE UNCHANGED videoTSOffset
  /\ videoSeqInited' = FALSE
  /\ UNCHANGED <<proxyVars, videoSeq, videoTSBase, lastVideoTS, idrVars, playVars, out>>

\* The IDR cache and its channel start afresh.  Two mutated forms: the unfinished
\* collection is not thrown away; the channel is not renewed.
ResetIDRKeepsPending ==
  /\ resetting /\ resetting' = FALSE
  /\ session' = session + 1
  /\ idrCache' = <<>> /\ collectingIDR' = FALSE
  /\ idrReady' = session + 1
  /\ UNCHANGED <<frames, cameraTS, todo, route, rtpVars, idrPending, ready, playVars, out>>

ResetIDRKeepsChannel ==
  /\ resetting /\ resetting' = FALSE
  /\ session' = session + 1
  /\ idrCache' = <<>> /\ idrPending' = <<>> /\ collectingIDR' = FALSE
  /\ UNCHANGED <<frames, cameraTS, todo, route, rtpVars, idrReady, ready, playVars, out>>

ResetIDR ==
  /\ resetting /\ resetting' = FALSE
  /\ session' = session + 1
  /\ idrCache' = <<>> /\ idrPending' = <<>> /\ collectingIDR' = FALSE
  /\ idrReady' = session + 1
  /\ UNCHANGED <<frames, cameraTS, todo, route, rtpVars, ready, playVars, out>>

ResetVideoRTP == ResetRTP \/ ResetIDR

-----------------------------------------------------------------------------
(***************************************************************************)
(* OnPlay's goroutine, once ClientConnected has returned: that may be      *)
(* while the stream is up, while it is starting or while it restarts.      *)
(***************************************************************************)

\* The select reads the field idrReady, without idrMu.
OnPlay(c) ==
  /\ play[c] = "none"
  /\ play' = [play EXCEPT ![c] = "waiting"]
  /\ waitsOn' = [waitsOn EXCEPT ![c] = idrReady]
  /\ UNCHANGED <<resetting, proxyVars, rtpVars, idrVars, out>>

Wake(c) ==
  /\ play[c] = "waiting"
  /\ waitsOn[c] \in ready
  /\ play' = [play EXCEPT ![c] = "inject"]
  /\ UNCHANGED <<resetting, proxyVars, rtpVars, idrVars, waitsOn, out>>

\* No IDR for 10 s: the client's session is closed.
IDRTimeout(c) ==
  /\ play[c] = "waiting"
  /\ play' = [play EXCEPT ![c] = "closed"]
  /\ UNCHANGED <<resetting, proxyVars, rtpVars, idrVars, waitsOn, out>>

\* The cached packets, under one timestamp, take the next sequence numbers.  A
\* mutated form that does not advance the counter.
InjectIDRSameSeq(c) ==
  /\ play[c] = "inject"
  /\ play' = [play EXCEPT ![c] = "watching"]
  /\ out' = out \o [k \in DOMAIN idrCache |->
                      Written(idrCache[k], (videoSeq + k - 1) % SeqMod,
                              (lastVideoTS + 1) % TSMod, TRUE)]
  /\ UNCHANGED <<resetting, proxyVars, rtpVars, idrVars, waitsOn>>

InjectIDR(c) ==
  /\ play[c] = "inject"
  /\ play' = [play EXCEPT ![c] = "watching"]
  /\ out' = out \o [k \in DOMAIN idrCache |->
                      Written(idrCache[k], (videoSeq + k - 1) % SeqMod,
                              (lastVideoTS + 1) % TSMod, TRUE)]
  /\ videoSeq' = (videoSeq + Len(idrCache)) % SeqMod
  /\ UNCHANGED <<resetting, proxyVars, videoSeqInited, videoTSBase, videoTSOffset, lastVideoTS,
                 idrVars, waitsOn>>

Next ==
  \/ ResetVideoRTP \/ WriteVideoPacket \/ CacheOnlyVideoPacket
  \/ \E kind \in {"idr", "p"} : NextFrame(kind)
  \/ \E c \in Clients : OnPlay(c) \/ Wake(c) \/ IDRTimeout(c) \/ InjectIDR(c)

Spec == Init /\ [][Next]_vars

-----------------------------------------------------------------------------
Packets ==
  [type : {"STAP-A", "IDR start", "FU-A start", "FU-A"}, frame : Nat, session : Nat,
   marker : BOOLEAN]
OutPackets ==
  [frame : Nat, session : Nat, marker : BOOLEAN, seq : 0 .. (SeqMod - 1),
   ts : 0 .. (TSMod - 1), injected : BOOLEAN]

TypeOK ==
  /\ session \in 0 .. MaxSessions /\ frames \in 0 .. MaxFrames
  /\ {todo, idrCache, idrPending} \subseteq Seq(Packets) /\ out \in Seq(OutPackets)
  /\ route \in {"write", "cacheOnly"}
  /\ videoSeq \in 0 .. (SeqMod - 1)
  /\ {cameraTS, videoTSBase, videoTSOffset, lastVideoTS} \subseteq 0 .. (TSMod - 1)
  /\ {resetting, videoSeqInited, collectingIDR} \subseteq BOOLEAN
  /\ resetting => session < MaxSessions
  /\ idrReady \in 0 .. MaxSessions /\ ready \subseteq 0 .. MaxSessions
  /\ play \in [Clients -> {"none", "waiting", "inject", "watching", "closed"}]
  /\ waitsOn \in [Clients -> 0 .. MaxSessions]

\* The clients see one gapless numbering across camera sessions and injected
\* frames, over the wrap of the counter (rtsp_server.go 345-347, 670-677).
SeqContiguous ==
  \A k \in 1 .. (Len(out) - 1) : out[k + 1].seq = (out[k].seq + 1) % SeqMod

\* a is later than b, as a decoder compares RTP timestamps.
Later(a, b) == (a - b) % TSMod \in 1 .. (TSMod \div 2)

\* A new camera session goes on in time where the clients are: what it sends is
\* later than everything written before, injected frames included, whatever
\* timestamp the camera begins with (rtsp_server.go 305-316, 337-352, 669).  An
\* IDR injected before the first packet ever forwarded has timestamp 1, which
\* no offset takes into account: it is excepted.
SessionsAdvance ==
  \A j, k \in DOMAIN out :
    /\ j < k /\ out[j].session < out[k].session
    /\ ~out[k].injected /\ \E i \in 1 .. j : ~out[i].injected
    => Later(out[k].ts, out[j].ts)

\* A client that finds the current channel closed finds a cached IDR, and one
\* is never kept from the clients (rtsp_server.go 257-268, 318-324, 643, 666).
ReadyMeansCached == idrReady \in ready <=> idrCache # <<>>

\* Nothing of an earlier camera session is cached, collected or injected
\* (rtsp_server.go 318-324).
CacheIsFresh ==
  /\ \A k \in DOMAIN idrCache : idrCache[k].session = session
  /\ \A k \in DOMAIN idrPending : idrPending[k].session = session

(***************************************************************************)
(* What comments say and the code does not do.                             *)
(***************************************************************************)

\* idrCache is a "complete cached IDR frame" of "packets belonging to the IDR access
\* unit" (rtsp_server.go 54, 221).  Violated: when the marker of a key frame is lost,
\* the collection goes on into the next frame and ends with its marker (253-258).
CacheIsOneFrame ==
  \A j, k \in DOMAIN idrCache : idrCache[j].frame = idrCache[k].frame

\* A client that waits in vain waits because "No IDR arrived in time" (rtsp_server.go
\* 645).  Violated: the client waits on the channel it read once, a restart has
\* replaced that, and the IDR of the new session closes another (323, 643).
WaitingMeansNoIDR ==
  \A c \in Clients : play[c] = "waiting" /\ waitsOn[c] \notin ready => idrCache = <<>>

=============================================================================
