------------------------------ MODULE SrtpProxy ------------------------------
(***************************************************************************)
(* The life of the SRTP proxy (internal/stream/proxy.go): the two sockets, *)
(* the stop channel, the four goroutines that Start launches, the video    *)
(* stall watchdog and Close, which waits for the goroutines.  It is driven *)
(* by onStart and onStop of main.go; that those never overlap is Lifecycle,*)
(* which Session implements, and is all that is used of the session here.  *)
(*                                                                         *)
(* The readers hand their packets to the RTSP server (rtsp_server.go),     *)
(* which takes its mutex s.mu for each.  RTSPServer.Stop holds that mutex  *)
(* while gortsplib (external) closes the RTSP sessions and waits for their *)
(* OnSessionClose handlers.                                                *)
(*                                                                         *)
(* One RTSP client stands for all, without a warm window: the client count *)
(* is whether it is positive, and the -1 that session.go 136 can leave is  *)
(* kept in Session only.  What the packets carry is left out, and so are   *)
(* the reports and the silence sent to the camera.                         *)
(***************************************************************************)
EXTENDS Naturals, FiniteSets

\* Who may drive the session: OnPlay's goroutine, the one that runs
\* OnSessionClose, the one that calls Restart (for the stall watchdog or for the
\* HAP recovery), and main.
Drivers == {"player", "closer", "restart", "main"}
Loops == {"video", "audio", "rtcp", "return"}

VARIABLES
  phase, driver,             \* the session, as in Lifecycle
  counted,                   \* clientCount > 0
  saved,                     \* the count that Restart will write back
  step,                      \* where the driver is inside onStart or onStop
  closing,                   \* where each goroutine is inside Close
  client,                    \* the RTSP session: "none", "open", "closing"
  player,                    \* OnPlay's goroutine: "none", "connecting", "starting"
  called,                    \* is a call of Restart pending?
  main,                      \* "run", "shutdown", "server", "proxy", "exited"
  mu,                        \* s.mu of the RTSP server: "free" or "stop"
  transcoder,                \* "open" or "closed"
  stopCh, conns,             \* of the proxy: "open" or "closed"
  loop,                      \* the goroutines of the proxy
  lastVideo,                 \* lastVideoNanos: "zero", "recent" or "old"
  stallFired,                \* of the current keepalive loop
  seen                       \* has the current camera session had video?

L == INSTANCE Lifecycle WITH Proc <- Drivers

sessionVars == <<phase, driver, counted, saved>>
clientVars == <<client, player>>
serverVars == <<main, mu, transcoder>>
proxyVars == <<stopCh, conns, loop, lastVideo, stallFired, seen>>
vars == <<sessionVars, step, closing, clientVars, called, serverVars, proxyVars>>

Init ==
  /\ L!Init
  /\ counted = FALSE /\ saved = FALSE
  /\ step = "none"
  /\ closing = [p \in Drivers |-> "none"]
  /\ client = "none" /\ player = "none"
  /\ called = FALSE
  /\ main = "run" /\ mu = "free" /\ transcoder = "open"
  /\ stopCh = "open" /\ conns = "closed"
  /\ loop = [g \in Loops |-> "off"]
  /\ lastVideo = "zero" /\ stallFired = FALSE
  /\ seen = FALSE

Running == {g \in Loops : loop[g] # "off"}
Loop(g, place) == loop' = [loop EXCEPT ![g] = place]

-----------------------------------------------------------------------------
(***************************************************************************)
(* Close, which onStart, Start, onStop and main call.                      *)
(***************************************************************************)
Closing(p, place) == closing' = [closing EXCEPT ![p] = place]

\* The select: a closed stopCh means that another Close has been here.
CloseCheck(p) ==
  /\ closing[p] = "check"
  /\ Closing(p, IF stopCh = "closed" THEN "none" ELSE "chan")
  /\ UNCHANGED <<sessionVars, step, clientVars, called, serverVars, proxyVars>>

\* close(stopCh), which panics if two callers of Close have passed the check.
CloseChan(p) ==
  /\ closing[p] = "chan"
  /\ stopCh' = "closed"
  /\ Closing(p, IF stopCh = "closed" THEN "panic" ELSE "conns")
  /\ UNCHANGED <<sessionVars, step, clientVars, called, serverVars, conns, loop, lastVideo,
                 stallFired, seen>>

\* The sockets are closed, which ends the reads.  A mutated form that leaves them
\* open.
CloseConnsForgets(p) ==
  /\ closing[p] = "conns"
  /\ Closing(p, "wait")
  /\ UNCHANGED <<sessionVars, step, clientVars, called, serverVars, proxyVars>>

CloseConns(p) ==
  /\ closing[p] = "conns"
  /\ conns' = "closed"
  /\ Closing(p, "wait")
  /\ UNCHANGED <<sessionVars, step, clientVars, called, serverVars, stopCh, loop, lastVideo,
                 stallFired, seen>>

\* wg.Wait.  A mutated form that does not wait.
WaitNot(p) ==
  /\ closing[p] = "wait"
  /\ Closing(p, "none")
  /\ UNCHANGED <<sessionVars, step, clientVars, called, serverVars, proxyVars>>

Wait(p) ==
  /\ closing[p] = "wait"
  /\ Running = {}
  /\ Closing(p, "none")
  /\ UNCHANGED <<sessionVars, step, clientVars, called, serverVars, proxyVars>>

Close(p) == CloseCheck(p) \/ CloseChan(p) \/ CloseConns(p) \/ Wait(p)

\* A step of the driver goes on once the Close it called has returned.
Driving(p, place) == driver = {p} /\ step = place /\ closing[p] = "none"

-----------------------------------------------------------------------------
(***************************************************************************)
(* onStart and onStop.                                                     *)
(***************************************************************************)

\* The address that leads to the camera may be unknown.  Otherwise: a new stopCh;
\* the stall timer is reset; both sockets or none.  A mutated form that keeps the
\* time of the previous session's last packet.
OpenPortsKeepsTimer(p) ==
  /\ Driving(p, "open")
  /\ \/ step' = "failed" /\ UNCHANGED <<stopCh, conns, seen>>
     \/ /\ stopCh' = "open" /\ seen' = FALSE
        /\ \/ conns' = "open" /\ step' = "request"
           \/ UNCHANGED conns /\ step' = "failed"
  /\ UNCHANGED <<sessionVars, closing, clientVars, called, serverVars, loop, stallFired, lastVideo>>

OpenPorts(p) ==
  /\ Driving(p, "open")
  /\ \/ step' = "failed" /\ UNCHANGED <<stopCh, conns, lastVideo, seen>>
     \/ /\ stopCh' = "open" /\ lastVideo' = "zero" /\ seen' = FALSE
        /\ \/ conns' = "open" /\ step' = "request"
           \/ UNCHANGED conns /\ step' = "failed"
  /\ UNCHANGED <<sessionVars, closing, clientVars, called, serverVars, loop, stallFired>>

\* controller.StartStream; onStart closes the ports if it fails.
StartStream(p) ==
  /\ Driving(p, "request")
  /\ \/ step' = "start" /\ UNCHANGED closing
     \/ step' = "failed" /\ Closing(p, "check")
  /\ UNCHANGED <<sessionVars, clientVars, called, serverVars, proxyVars>>

\* Start: it closes the ports itself if it cannot create the contexts.  Without
\* the controller's audio key the return loop ends at once.  A mutated form whose
\* keepalive loop remembers that the alarm of the previous session was raised.
StartKeepsFired(p) ==
  /\ Driving(p, "start")
  /\ \/ /\ step' = "ok"
        /\ \E return \in {"loop", "off"} :
             loop' = [g \in Loops |-> IF g = "return" THEN return ELSE "loop"]
        /\ UNCHANGED closing
     \/ /\ step' = "failed" /\ Closing(p, "check")
        /\ UNCHANGED loop
  /\ UNCHANGED <<sessionVars, clientVars, called, serverVars, stopCh, conns, lastVideo,
                 stallFired, seen>>

Start(p) ==
  /\ Driving(p, "start")
  /\ \/ /\ step' = "ok"
        /\ \E return \in {"loop", "off"} :
             loop' = [g \in Loops |-> IF g = "return" THEN return ELSE "loop"]
        /\ stallFired' = FALSE
        /\ UNCHANGED closing
     \/ /\ step' = "failed" /\ Closing(p, "check")
        /\ UNCHANGED <<loop, stallFired>>
  /\ UNCHANGED <<sessionVars, clientVars, called, serverVars, stopCh, conns, lastVideo, seen>>

\* onStop: Close has returned, StopStream is called; its error is only logged.
StopStream(p) ==
  /\ Driving(p, "close")
  /\ step' = "ok"
  /\ UNCHANGED <<sessionVars, closing, clientVars, called, serverVars, proxyVars>>

Callback(p) == OpenPorts(p) \/ StartStream(p) \/ Start(p) \/ StopStream(p)

-----------------------------------------------------------------------------
(***************************************************************************)
(* The goroutines.                                                         *)
(***************************************************************************)

\* readVideoLoop: a packet is buffered, or completes a frame, which is handed to
\* WriteVideoPacket.  readAudioLoop hands over each packet.
ReadPacket(g) ==
  /\ loop[g] = "loop" /\ conns = "open"
  /\ \/ Loop(g, "lock")
     \/ g = "video" /\ UNCHANGED loop
  /\ IF g = "video"
       THEN lastVideo' = "recent" /\ seen' = TRUE
       ELSE UNCHANGED <<lastVideo, seen>>
  /\ UNCHANGED <<sessionVars, step, closing, clientVars, called, serverVars, stopCh, conns,
                 stallFired>>

\* The reader takes and releases s.mu; audio goes on in the transcoder, without
\* the mutex, unless Stop has removed it.
TakeLock(g) ==
  /\ loop[g] = "lock" /\ mu = "free"
  /\ Loop(g, IF g = "audio" /\ transcoder = "open" THEN "transcode" ELSE "loop")
  /\ UNCHANGED <<sessionVars, step, closing, clientVars, called, serverVars, stopCh, conns,
                 lastVideo, stallFired, seen>>

Transcode ==
  /\ loop["audio"] = "transcode"
  /\ Loop("audio", "loop")
  /\ UNCHANGED <<sessionVars, step, closing, clientVars, called, serverVars, stopCh, conns,
                 lastVideo, stallFired, seen>>

\* A read of a closed socket fails; the other loops watch stopCh.  A mutated form
\* whose readers take a failed read for a passing one.
LoopEndsNot(g) ==
  /\ loop[g] = "loop" /\ g \notin {"video", "audio"}
  /\ stopCh = "closed"
  /\ Loop(g, "off")
  /\ UNCHANGED <<sessionVars, step, closing, clientVars, called, serverVars, stopCh, conns,
                 lastVideo, stallFired, seen>>

LoopEnds(g) ==
  /\ loop[g] = "loop"
  /\ IF g \in {"video", "audio"} THEN conns = "closed" ELSE stopCh = "closed"
  /\ Loop(g, "off")
  /\ UNCHANGED <<sessionVars, step, closing, clientVars, called, serverVars, stopCh, conns,
                 lastVideo, stallFired, seen>>

\* No video for videoStallTimeout, which is longer than Start takes to return.
Silence ==
  /\ lastVideo = "recent" /\ phase = "streaming"
  /\ lastVideo' = "old"
  /\ UNCHANGED <<sessionVars, step, closing, clientVars, called, serverVars, stopCh, conns, loop,
                 stallFired, seen>>

\* The tick of rtcpKeepaliveLoop that finds the stall: once in the loop's life,
\* in a goroutine of its own.
Watchdog ==
  /\ loop["rtcp"] = "loop"
  /\ lastVideo = "old" /\ ~stallFired
  /\ stallFired' = TRUE
  /\ called' = TRUE
  /\ UNCHANGED <<sessionVars, step, closing, clientVars, serverVars, stopCh, conns, loop,
                 lastVideo, seen>>

Goroutine(g) == TakeLock(g) \/ LoopEnds(g)

-----------------------------------------------------------------------------
(***************************************************************************)
(* The session and its callers.                                            *)
(***************************************************************************)

\* PLAY; the client may leave or be cut off at any time.
OnPlay ==
  /\ main \in {"run", "shutdown"} /\ client = "none" /\ player = "none"
  /\ client' = "open" /\ player' = "connecting"
  /\ UNCHANGED <<sessionVars, step, closing, called, serverVars, proxyVars>>

Leave ==
  /\ client = "open"
  /\ client' = "closing"
  /\ UNCHANGED <<sessionVars, step, closing, player, called, serverVars, proxyVars>>

\* ClientConnected: start an idle session, attach to another; while the session
\* is stopping it waits.
Connect ==
  /\ player = "connecting" /\ phase # "stopping"
  /\ counted' = TRUE
  /\ \/ /\ L!BeginStart("player")
        /\ player' = "starting" /\ step' = "open"
     \/ /\ phase \in {"starting", "streaming"} /\ UNCHANGED <<phase, driver, step>>
        /\ player' = "none"
  /\ UNCHANGED <<saved, closing, client, called, serverVars, proxyVars>>

StartReturns ==
  /\ \E place \in {"ok", "failed"} :
       /\ Driving("player", place)
       /\ L!EndStart("player")
       /\ phase' = IF place = "ok" THEN "streaming" ELSE "idle"
       /\ counted' = (place = "ok" /\ counted)
       /\ client' = IF place = "failed" /\ client = "open" THEN "closing" ELSE client
  /\ player' = "none" /\ step' = "none"
  /\ UNCHANGED <<saved, closing, called, serverVars, proxyVars>>

\* stopLocked, begun by p: state, then onStop with the mutex released.
BeginStop(p) ==
  /\ L!BeginStop(p)
  /\ step' = "close" /\ Closing(p, "check")

\* OnSessionClose: ClientDisconnected.
OnSessionClose ==
  /\ client = "closing"
  /\ client' = "none" /\ counted' = FALSE
  /\ \/ counted /\ BeginStop("closer")
     \/ ~(counted /\ phase = "streaming") /\ UNCHANGED <<phase, driver, step, closing>>
  /\ UNCHANGED <<saved, player, called, serverVars, proxyVars>>

StopReturns ==
  /\ \E p \in {"closer", "main"} : Driving(p, "ok") /\ L!EndStop(p)
  /\ step' = "none"
  /\ UNCHANGED <<counted, saved, closing, clientVars, called, serverVars, proxyVars>>

\* The HAP recovery calls Restart whenever a camera is back.
Recovered ==
  /\ ~called
  /\ called' = TRUE
  /\ UNCHANGED <<sessionVars, step, closing, clientVars, serverVars, proxyVars>>

RestartCall ==
  /\ called
  /\ called' = FALSE
  /\ \/ BeginStop("restart") /\ saved' = counted
     \/ phase # "streaming" /\ UNCHANGED <<phase, driver, step, closing, saved>>
  /\ UNCHANGED <<counted, clientVars, serverVars, proxyVars>>

RestartReturns ==
  /\ \/ /\ Driving("restart", "ok") /\ L!Turn("restart")
        /\ step' = "open" /\ UNCHANGED <<counted, saved>>
     \/ /\ Driving("restart", "ok") /\ L!EndStart("restart") /\ phase' = "streaming"
        /\ step' = "none" /\ counted' = saved /\ saved' = FALSE
     \/ /\ Driving("restart", "failed") /\ L!EndStart("restart") /\ phase' = "idle"
        /\ step' = "none" /\ counted' = FALSE /\ saved' = FALSE
  /\ UNCHANGED <<closing, clientVars, called, serverVars, proxyVars>>

-----------------------------------------------------------------------------
(***************************************************************************)
(* Shutdown of main: session.Shutdown, rtspServer.Stop, srtpProxy.Close.   *)
(***************************************************************************)
Shutdown ==
  /\ main = "run"
  /\ main' = "shutdown"
  /\ \/ BeginStop("main") /\ counted' = FALSE
     \/ phase # "streaming" /\ UNCHANGED <<phase, driver, counted, step, closing>>
  /\ UNCHANGED <<saved, clientVars, called, mu, transcoder, proxyVars>>

\* Stop takes s.mu, closes the transcoder and has the RTSP sessions closed.
StopLocks ==
  /\ main = "shutdown" /\ "main" \notin driver
  /\ main' = "server" /\ mu' = "stop" /\ transcoder' = "closed"
  /\ client' = IF client = "open" THEN "closing" ELSE client
  /\ UNCHANGED <<sessionVars, step, closing, player, called, proxyVars>>

\* server.Close returns when the handlers have.
StopUnlocks ==
  /\ main = "server" /\ client = "none" /\ "closer" \notin driver
  /\ main' = "proxy" /\ mu' = "free"
  /\ Closing("main", "check")
  /\ UNCHANGED <<sessionVars, step, clientVars, called, transcoder, proxyVars>>

Exit ==
  /\ main = "proxy" /\ closing["main"] = "none"
  /\ main' = "exited"
  /\ UNCHANGED <<sessionVars, step, closing, clientVars, called, mu, transcoder, proxyVars>>

\* A panic ends the process, and so does main's return.
Panicked == \E p \in Drivers : closing[p] = "panic"
Over == main = "exited" \/ Panicked

Next ==
  \/ /\ ~Over
     /\ \/ \E p \in Drivers : Close(p) \/ Callback(p)
        \/ \E g \in {"video", "audio"} : ReadPacket(g)
        \/ \E g \in Loops : Goroutine(g)
        \/ Transcode \/ Silence \/ Watchdog
        \/ OnPlay \/ Leave \/ Connect \/ StartReturns \/ OnSessionClose \/ StopReturns
        \/ Recovered \/ RestartCall \/ RestartReturns
        \/ Shutdown \/ StopLocks \/ StopUnlocks \/ Exit
  \/ Over /\ UNCHANGED vars

Spec == Init /\ [][Next]_vars

\* Runnable goroutines run: the loops of the proxy, the driver, main, and the
\* ones started for OnSessionClose and for Restart.  Packets, clients, recoveries,
\* failures and the signal to shut down come or do not.
DriverStep ==
  \/ \E p \in Drivers \ {"main"} : Close(p) \/ Callback(p)
  \/ StartReturns \/ StopReturns \/ RestartReturns
MainStep ==
  \/ Close("main") \/ Callback("main") \/ StopReturns
  \/ StopLocks \/ StopUnlocks \/ Exit
Fairness ==
  /\ WF_vars(~Over /\ (Transcode \/ \E g \in Loops : Goroutine(g)))
  /\ WF_vars(~Over /\ Watchdog)
  /\ WF_vars(~Over /\ DriverStep)
  /\ WF_vars(~Over /\ MainStep)
  /\ WF_vars(~Over /\ OnSessionClose)
  /\ WF_vars(~Over /\ RestartCall)

FairSpec == Spec /\ Fairness

-----------------------------------------------------------------------------
TypeOK ==
  /\ phase \in {"idle", "starting", "streaming", "stopping"} /\ driver \subseteq Drivers
  /\ {counted, saved, called, stallFired, seen} \subseteq BOOLEAN
  /\ step \in {"none", "open", "request", "start", "close", "ok", "failed"}
  /\ closing \in [Drivers -> {"none", "check", "chan", "conns", "wait", "panic"}]
  /\ client \in {"none", "open", "closing"}
  /\ player \in {"none", "connecting", "starting"}
  /\ main \in {"run", "shutdown", "server", "proxy", "exited"}
  /\ mu \in {"free", "stop"}
  /\ {transcoder, stopCh, conns} \subseteq {"open", "closed"}
  /\ loop \in [Loops -> {"off", "loop", "lock", "transcode"}]
  /\ lastVideo \in {"zero", "recent", "old"}

\* The sockets and the goroutines of the proxy follow the session, as long as main
\* has not called Close itself.  An idle session has neither, whichever step of
\* onStart failed, and OpenPorts finds none: it replaces the stop channel and the
\* sockets, which the goroutines read without a lock, and an idle session lets Stop
\* free the transcoder (proxy.go 174-208, 768-786; main.go 170-264; rtsp_server.go
\* 546-554).
ProxyFollowsSession ==
  main \in {"run", "shutdown", "server"} =>
    /\ phase = "idle" \/ step = "open" => conns = "closed" /\ Running = {}
    /\ step \in {"request", "start"} => Running = {}

\* The stall alarm is about the session it is raised in: that session has had
\* video (proxy.go 177-181: "rather than firing immediately based on the previous
\* session's stale timestamp").
StallIsCurrent == [][~stallFired /\ stallFired' => seen]_vars

\* A stream whose video has stopped is restarted or stopped, unless the video
\* comes back (proxy.go 650-666; its callback is Restart, main.go's
\* SetVideoStallCallback).  This is what the code does, once in every session, and
\* what its log says.  README.md 252 ("No automatic stream recovery"), DESIGN.md 866
\* and proxy.go 146 ("at most once per proxy lifetime") say otherwise: see
\* OnlyClientsRenegotiate.
StallIsActedOn ==
  phase = "streaming" /\ lastVideo = "old"
    ~> phase # "streaming" \/ lastVideo # "old" \/ Over

\* Every stop ends while the service runs: Close gets all goroutines out of
\* their reads, their ticks and s.mu (proxy.go 777-784).
StopsEnd == phase = "stopping" ~> phase # "stopping" \/ main # "run"

\* The shutdown ends if nothing but main has started or stopped the stream since
\* the signal (main.go 387-403).
ShutdownEnds ==
  [](main # "run" => driver \subseteq {"main"}) => (main = "shutdown" ~> main = "exited")

\* What README.md 252 ("No automatic stream recovery") and DESIGN.md 866 ("the
\* proxy does not automatically re-negotiate") say of a camera that has stopped
\* sending: the next onStart is the one of a client's PLAY.  Violated: the stall
\* watchdog restarts the session by itself (proxy.go 656-663).
OnlyClientsRenegotiate ==
  [][stallFired /\ lastVideo = "old" /\ step # "open" /\ step' = "open"
       => driver' = {"player"}]_vars

\* What main.go 391-393 say of the shutdown: "Stop the camera stream cleanly first
\* ... before tearing down the SRTP proxy that the onStop callback uses".  Violated:
\* Shutdown finds a session that is still starting, restarting or stopping, leaves
\* it alone (session.go 294-296), and the proxy is torn down under it.
StreamStoppedFirst == main = "proxy" => phase = "idle"

\* What DESIGN.md 748 says: no deadlock, since "Locks are released before calling
\* potentially-blocking operations"; so RTSPServer.Stop returns.  Violated: it holds
\* s.mu while server.Close waits for the onStop that the close of a client has begun,
\* and that waits in srtpProxy.Close for a reader that waits for s.mu (rtsp_server.go
\* 373, 548, 570).
ServerStops == main = "server" ~> main # "server" \/ Panicked

=============================================================================
