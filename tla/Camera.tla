-------------------------------- MODULE Camera --------------------------------
(***************************************************************************)
(* One camera and its clients: the RTSP sessions (rtsp_server.go OnSetup,  *)
(* OnPlay, OnSessionClose), the Session they drive, a goroutine that calls *)
(* Restart (for the stall watchdog or the HAP recovery), and the onStart   *)
(* and onStop callbacks of main.go, which return at some time.  What is    *)
(* inside the callbacks and the shutdown are in SrtpProxy.                 *)
(*                                                                         *)
(* An RTSP session of gortsplib (external) may end at any time after       *)
(* SETUP; OnSessionClose runs once for each, in a goroutine of its own,    *)
(* and the goroutine that OnPlay started is not told.  OnSessionClose      *)
(* counts a client out whether or not ClientConnected ever counted it in,  *)
(* and Restart writes back the count it has read before its callbacks:     *)
(* miscounted records that one of these has gone wrong, or will.           *)
(***************************************************************************)
EXTENDS Integers, FiniteSets

CONSTANTS
  Clients,                   \* slots for RTSP sessions
  Timers, Chans, NoTimer, NoChan, WarmMode, MaxClients  \* as in Session

\* The goroutine OnPlay starts and the one that runs OnSessionClose.
Player(c) == <<c, "play">>
Closer(c) == <<c, "close">>
Restarter == <<"main", "restart">>
Goroutines ==
  {Player(c) : c \in Clients} \cup {Closer(c) : c \in Clients} \cup {Restarter}

\* A camera has finitely many clients, and timers are goroutines of their own.
ASSUME CameraAssumption ==
  /\ IsFiniteSet(Clients)
  /\ Goroutines \cap Timers = {}
  /\ NoTimer \notin Timers
  /\ NoChan \notin Chans
  /\ WarmMode \in BOOLEAN
  /\ MaxClients \in Nat

VARIABLES
  state, clientCount, stopTimer, stopDone, closed, pc, done, clients,
  rtsp,                      \* the RTSP session: "closed", "setup", "playing", "closing"
  play,                      \* OnPlay's goroutine: "none", "connecting", "waitIDR", "watching"
  miscounted,                \* may the count be wrong?
  unguarded                  \* has a restart cancelled a warm stop?

S == INSTANCE Session
sessionVars == <<state, clientCount, stopTimer, stopDone, closed, pc, done, clients>>
auxVars == <<miscounted, unguarded>>
vars == <<sessionVars, rtsp, play, auxVars>>

Proc == Goroutines \cup Timers

Init ==
  /\ S!Init
  /\ rtsp = [c \in Clients |-> "closed"]
  /\ play = [c \in Clients |-> "none"]
  /\ miscounted = FALSE /\ unguarded = FALSE

Restarting == pc[Restarter] \in {"restartStop", "restartStart"}

\* stopLocked goes on when onStop has returned.
StopReturns(p) ==
  /\ S!StopLockedEnd(p)
  /\ UNCHANGED <<rtsp, play, auxVars>>

-----------------------------------------------------------------------------
(***************************************************************************)
(* An RTSP client: SETUP opens a session, PLAY starts OnPlay's goroutine,  *)
(* which after 100 ms calls ClientConnected and then waits for an IDR.     *)
(***************************************************************************)
Setup(c) ==
  /\ rtsp[c] = "closed" /\ play[c] \in {"none", "watching"}
  /\ pc[Closer(c)] = "ready"
  /\ rtsp' = [rtsp EXCEPT ![c] = "setup"]
  /\ play' = [play EXCEPT ![c] = "none"]
  /\ UNCHANGED <<sessionVars, auxVars>>

OnPlay(c) ==
  /\ rtsp[c] = "setup"
  /\ rtsp' = [rtsp EXCEPT ![c] = "playing"]
  /\ play' = [play EXCEPT ![c] = "connecting"]
  /\ UNCHANGED <<sessionVars, auxVars>>

\* rtspSession.Close(); a session that is gone already is left alone.
CloseSession(c) ==
  /\ play' = [play EXCEPT ![c] = "none"]
  /\ rtsp' = [rtsp EXCEPT ![c] = IF @ = "playing" THEN "closing" ELSE @]

\* ClientConnected, until it returns or calls onStart.
Connect(c) ==
  /\ play[c] = "connecting"
  /\ \/ /\ S!Attach(Player(c))
        /\ play' = [play EXCEPT ![c] = "waitIDR"]
        /\ miscounted' = (miscounted \/ Restarting)
     \/ /\ S!WaitForStop(Player(c)) \/ S!StopSeen(Player(c)) \/ S!BeginStart(Player(c))
        /\ UNCHANGED <<play, miscounted>>
  /\ UNCHANGED <<rtsp, unguarded>>

\* The stop that ClientConnected waits for takes more than 20 s, or onStart
\* fails: the client is not counted, and its session is closed.
ConnectTimeout(c) ==
  /\ S!WaitTimeout(Player(c))
  /\ CloseSession(c)
  /\ miscounted' = TRUE /\ UNCHANGED unguarded

StartReturns(c) ==
  \/ /\ S!StartOk(Player(c))
     /\ play' = [play EXCEPT ![c] = "waitIDR"]
     /\ UNCHANGED <<rtsp, auxVars>>
  \/ /\ S!StartFailed(Player(c))
     /\ CloseSession(c)
     /\ miscounted' = TRUE /\ UNCHANGED unguarded

\* idrReady is closed in time and the cached IDR is injected.  Packets flow as
\* soon as srtpProxy.Start has launched its readers, before onStart returns.
IDRArrives(c) ==
  /\ play[c] = "waitIDR"
  /\ state \in {"starting", "streaming"}
  /\ play' = [play EXCEPT ![c] = "watching"]
  /\ UNCHANGED <<sessionVars, rtsp, auxVars>>

\* No IDR for 10 s: the server closes the client's session.  A mutated form
\* that returns without closing it.
IDRTimeoutZombie(c) ==
  /\ play[c] = "waitIDR"
  /\ play' = [play EXCEPT ![c] = "none"]
  /\ UNCHANGED <<sessionVars, rtsp, auxVars>>

IDRTimeout(c) ==
  /\ play[c] = "waitIDR"
  /\ CloseSession(c)
  /\ UNCHANGED <<sessionVars, auxVars>>

\* The client sends TEARDOWN or its connection breaks: before PLAY, before
\* ClientConnected has returned, or later.
ClientLeaves(c) ==
  /\ rtsp[c] \in {"setup", "playing"}
  /\ rtsp' = [rtsp EXCEPT ![c] = "closing"]
  /\ miscounted' = (miscounted \/ rtsp[c] = "setup" \/ play[c] = "connecting")
  /\ UNCHANGED <<sessionVars, play, unguarded>>

\* OnSessionClose, for every RTSP session: ClientDisconnected.
OnSessionClose(c) ==
  /\ rtsp[c] = "closing"
  /\ rtsp' = [rtsp EXCEPT ![c] = "closed"]
  /\ \/ clientCount <= 0 /\ UNCHANGED sessionVars
     \/ S!Drop(Closer(c)) \/ S!KeepWarm(Closer(c)) \/ S!StopNow(Closer(c))
  /\ miscounted' = (miscounted \/ Restarting)
  /\ UNCHANGED <<play, unguarded>>

Client(c) ==
  \/ Setup(c) \/ OnPlay(c) \/ Connect(c) \/ ConnectTimeout(c) \/ StartReturns(c)
  \/ IDRArrives(c) \/ IDRTimeout(c) \/ ClientLeaves(c) \/ OnSessionClose(c)

\* The warm-stop timer.
IdleTimer(t) ==
  /\ S!TimerExpires(t) \/ S!FiredTooLate(t) \/ S!FiredInTime(t)
  /\ UNCHANGED <<rtsp, play, auxVars>>

\* Restart.  The stream it starts has no warm stop, even if nobody watches; when
\* it cannot start one, no client is counted any more.
RestartSession ==
  /\ \/ S!RestartBegin(Restarter)
     \/ S!RestartTurn(Restarter) \/ S!RestartOk(Restarter) \/ S!RestartFailed(Restarter)
  /\ unguarded' = (unguarded \/ (stopTimer # NoTimer /\ stopTimer' = NoTimer))
  /\ miscounted' = (miscounted \/ (clientCount > 0 /\ clientCount' = 0))
  /\ UNCHANGED <<rtsp, play>>

Next ==
  \/ RestartSession
  \/ \E c \in Clients : Client(c)
  \/ \E p \in Proc : StopReturns(p)
  \/ \E t \in Timers : IdleTimer(t)

Spec == Init /\ [][Next]_vars

\* Goroutines that can run do run, callbacks return and timers expire.  Clients
\* come and leave when they like, or never.
Fairness ==
  /\ \A p \in Proc : WF_vars(StopReturns(p))
  /\ \A t \in Timers : WF_vars(IdleTimer(t))
  /\ WF_vars(Restarting /\ RestartSession)
  /\ \A c \in Clients :
       /\ WF_vars(Connect(c)) /\ WF_vars(StartReturns(c))
       /\ WF_vars(IDRArrives(c) \/ IDRTimeout(c))
       /\ WF_vars(OnSessionClose(c))

FairSpec == Spec /\ Fairness

-----------------------------------------------------------------------------
TypeOK ==
  /\ S!TypeOK
  /\ rtsp \in [Clients -> {"closed", "setup", "playing", "closing"}]
  /\ play \in [Clients -> {"none", "connecting", "waitIDR", "watching"}]
  /\ {miscounted, unguarded} \subseteq BOOLEAN

\* A client that plays: ClientConnected succeeded and its session is open.
Attached(c) == rtsp[c] = "playing" /\ play[c] \in {"waitIDR", "watching"}

\* A client that ClientConnected has counted and OnSessionClose not yet.
Counted(c) ==
  /\ rtsp[c] \in {"playing", "closing"}
  /\ play[c] = "connecting" => pc[Player(c)] = "onStart"

\* clientCount is the number of clients (session.go 97, 123, 163, 275), over
\* restarts too, until an RTSP session ends that ClientConnected had not counted,
\* a client comes or leaves while a restart is on, or a restart fails.
CountIsClients ==
  ~miscounted => clientCount = Cardinality({c \in Clients : Counted(c)})

\* "the camera stream ... stops when the last disconnects" (README.md 9), not
\* before: a stream that a client is attached to is stopped for a restart only, as
\* long as the count is right.
StreamForClients ==
  [][~miscounted /\ state = "streaming" /\ state' = "stopping"
       => pc'[Restarter] = "restartStop" \/ \A c \in Clients : ~Attached(c)]_vars

\* "the camera stream ... stops when the last disconnects" (README.md 9), at
\* last: once there is no RTSP session and no restart any more, the session becomes
\* idle.  Two things are excepted: a client that leaves before its start has
\* returned, because nothing stops the stream it has started (session.go 173), and
\* a restart that has cancelled a warm stop (session.go 243).
Unused == ~Restarting /\ \A c \in Clients : rtsp[c] = "closed"
UnusedStreamStops ==
  <>[]Unused /\ []~miscounted /\ []~unguarded => []<>(state = "idle")

\* A client that played is served or its session is closed (rtsp_server.go
\* 624-652: "rather than leaving a zombie client that never receives video"),
\* unless clients or restarts start and stop the stream for ever.  The model accepts no
\* further client once clients that left before they were counted have raised the
\* count to MaxClients, which is more than there are clients.
PlaySettles ==
  \/ []<>(state = "stopping") /\ []<>(state # "stopping")
  \/ []<>(miscounted /\ clientCount = MaxClients)
  \/ \A c \in Clients :
       /\ play[c] \in {"connecting", "waitIDR"} ~> play[c] \in {"none", "watching"}
       /\ (play[c] = "none" /\ rtsp[c] = "playing") ~> rtsp[c] # "playing"

(***************************************************************************)
(* What the documents say without exceptions, and the code does not do.    *)
(***************************************************************************)

\* "onStop: called when last RTSP client disconnects" (main.go 254, README.md 9):
\* but for a restart, a stream that a client is attached to is not stopped.
\* Violated: a client that was never counted is counted out in place of another
\* (rtsp_server.go 591, session.go 163).
StopsOnLastOnly ==
  [][state = "streaming" /\ state' = "stopping"
       => pc'[Restarter] = "restartStop" \/ \A c \in Clients : ~Attached(c)]_vars

\* The same lines, the other way round: a stream is stopped at last when there is
\* no RTSP session any more.  Violated: the only client leaves before the start it
\* caused has returned, and the disconnect finds nothing to stop (session.go 173).
StopsOnLast == <>[]Unused => []<>(state = "idle")

=============================================================================
