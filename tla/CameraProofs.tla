---------------------------- MODULE CameraProofs -----------------------------
(***************************************************************************)
(* For any number of clients and timers, in warm mode and without: the     *)
(* count is right until something that miscounts, and a stream that is     *)
(* watched stops for a restart only.  What SessionProofs shows of every    *)
(* caller holds for these.                                                 *)
(***************************************************************************)
EXTENDS Camera, FiniteSetTheorems, TLAPS

SP == INSTANCE SessionProofs

\* The goroutines of OnPlay connect, the ones of OnSessionClose stop, and one
\* restarts; a call of ClientConnected is on only while OnPlay connects.
Roles ==
  /\ \A c \in Clients :
       /\ pc[Player(c)] \in {"ready", "retry", "waiting", "onStart"}
       /\ pc[Player(c)] # "ready" => play[c] = "connecting"
       /\ pc[Closer(c)] \in {"ready", "onStop"}
  /\ pc[Restarter] \in {"ready", "restartStop", "restartStart"}

\* Before PLAY there is no goroutine of OnPlay; one that connects has its session
\* open, until a client leaves in between.
PlayNeedsSession ==
  \A c \in Clients :
    /\ rtsp[c] = "setup" => play[c] = "none"
    /\ play[c] = "connecting" /\ ~miscounted => rtsp[c] = "playing"

\* What Restart will write back is the count.
RestartKeepsCount ==
  Restarting /\ ~miscounted => clients[Restarter] = clientCount

\* The conjunction is inductive: who may be in which call tells which clients are
\* counted, and Restart's copy what its last step does to the count.
CInv == Roles /\ PlayNeedsSession /\ RestartKeepsCount /\ CountIsClients
IInv == SP!IInv /\ TypeOK /\ CInv

-----------------------------------------------------------------------------
(***************************************************************************)
(* The session of a camera is a Session.                                   *)
(***************************************************************************)

\* The goroutines are different ones.
LEMMA WhoIsWho ==
  /\ Restarter \in Goroutines /\ Restarter \in Proc /\ Restarter \notin Timers
  /\ \A c \in Clients :
       /\ Player(c) \in Goroutines /\ Closer(c) \in Goroutines
       /\ Player(c) \in Proc /\ Closer(c) \in Proc
       /\ Player(c) \notin Timers /\ Closer(c) \notin Timers
       /\ Player(c) # Restarter /\ Closer(c) # Restarter
       /\ \A d \in Clients :
            Player(c) # Closer(d) /\ (c # d => Player(c) # Player(d) /\ Closer(c) # Closer(d))
<1>1. Restarter \in Goroutines /\ Restarter \in Proc /\ Restarter \notin Timers
  BY CameraAssumption DEF Goroutines, Proc
<1>2. ASSUME NEW c \in Clients
      PROVE  /\ Player(c) \in Goroutines /\ Closer(c) \in Goroutines
             /\ Player(c) \in Proc /\ Closer(c) \in Proc
             /\ Player(c) \notin Timers /\ Closer(c) \notin Timers
  BY CameraAssumption DEF Goroutines, Proc
<1>3. ASSUME NEW c \in Clients, NEW d \in Clients
      PROVE  /\ Player(c) # Restarter /\ Closer(c) # Restarter /\ Player(c) # Closer(d)
             /\ c # d => Player(c) # Player(d) /\ Closer(c) # Closer(d)
  BY DEF Player, Closer, Restarter
<1> QED
  BY <1>1, <1>2, <1>3

\* What the clients and the restarts do is something that callers of the session do.
LEMMA StepIsSession == [Next]_vars => [SP!Next]_(SP!vars)
<1> SUFFICES ASSUME [Next]_vars PROVE [SP!Next]_(SP!vars)
  OBVIOUS
<1> USE DEF S!Proc, SP!Proc, S!StopTimer, SP!StopTimer, S!AtLoop, SP!AtLoop
<1>1. ASSUME NEW g \in Goroutines,
             S!Attach(g) \/ S!WaitForStop(g) \/ S!StopSeen(g) \/ S!WaitTimeout(g)
               \/ S!BeginStart(g) \/ S!StartOk(g) \/ S!StartFailed(g)
      PROVE  SP!Next
  <2>1. SP!ClientConnected(g)
    BY <1>1
       DEF S!Attach, S!WaitForStop, S!StopSeen, S!WaitTimeout, S!BeginStart, S!StartOk,
           S!StartFailed, SP!Attach, SP!WaitForStop, SP!StopSeen, SP!WaitTimeout,
           SP!BeginStart, SP!StartOk, SP!StartFailed, SP!ClientConnected
  <2> QED
    BY <2>1 DEF SP!Next
<1>2. ASSUME NEW g \in Goroutines, S!Drop(g) \/ S!KeepWarm(g) \/ S!StopNow(g) PROVE SP!Next
  <2>1. SP!ClientDisconnected(g)
    BY <1>2
       DEF S!Drop, S!KeepWarm, S!StopNow, S!StopLocked, S!MakeStopDone, SP!Drop, SP!KeepWarm,
           SP!StopNow, SP!StopLocked, SP!MakeStopDone, SP!LastLeaves, SP!ClientDisconnected
  <2> QED
    BY <2>1 DEF SP!Next
<1>3. ASSUME NEW g \in Goroutines,
             S!RestartBegin(g) \/ S!RestartTurn(g) \/ S!RestartOk(g) \/ S!RestartFailed(g)
      PROVE  SP!Next
  <2>1. SP!Restart(g)
    BY <1>3
       DEF S!RestartBegin, S!RestartTurn, S!RestartOk, S!RestartFailed, S!MakeStopDone,
           S!CloseStopDone, SP!RestartBegin, SP!RestartTurn, SP!RestartOk, SP!RestartFailed,
           SP!MakeStopDone, SP!CloseStopDone, SP!Restart
  <2> QED
    BY <2>1 DEF SP!Next
<1>4. ASSUME NEW t \in Timers, S!TimerExpires(t) \/ S!FiredTooLate(t) \/ S!FiredInTime(t)
      PROVE  SP!Next
  <2>1. SP!TimerExpires(t) \/ SP!idleTimerFired(t)
    BY <1>4
       DEF S!TimerExpires, S!FiredTooLate, S!FiredInTime, S!StopLocked, S!MakeStopDone,
           SP!TimerExpires, SP!FiredTooLate, SP!FiredInTime, SP!StopLocked, SP!MakeStopDone,
           SP!idleTimerFired
  <2> QED
    BY <2>1 DEF SP!Next
<1>5. ASSUME NEW p \in Proc, S!StopLockedEnd(p) PROVE SP!Next
  <2>1. p \in SP!Proc /\ SP!StopLockedEnd(p)
    BY <1>5 DEF Proc, S!StopLockedEnd, SP!StopLockedEnd, S!CloseStopDone, SP!CloseStopDone,
                S!Returned, SP!Returned
  <2> QED
    BY <2>1 DEF SP!Next
<1>6. ASSUME UNCHANGED sessionVars PROVE UNCHANGED SP!vars
  BY <1>6 DEF sessionVars, SP!vars
<1>7. CASE RestartSession
  BY <1>3, <1>7, WhoIsWho DEF RestartSession
<1>8. ASSUME NEW c \in Clients, Client(c) PROVE SP!Next \/ UNCHANGED SP!vars
  <2>1. Player(c) \in Goroutines /\ Closer(c) \in Goroutines
    BY WhoIsWho
  <2>2. CASE Setup(c) \/ OnPlay(c) \/ IDRArrives(c) \/ IDRTimeout(c) \/ ClientLeaves(c)
    BY <1>6, <2>2 DEF Setup, OnPlay, IDRArrives, IDRTimeout, ClientLeaves
  <2>3. CASE Connect(c) \/ ConnectTimeout(c) \/ StartReturns(c)
    BY <1>1, <2>1, <2>3 DEF Connect, ConnectTimeout, StartReturns
  <2>4. CASE OnSessionClose(c)
    BY <1>2, <1>6, <2>1, <2>4 DEF OnSessionClose
  <2> QED
    BY <1>8, <2>2, <2>3, <2>4 DEF Client
<1>9. ASSUME NEW p \in Proc, StopReturns(p) PROVE SP!Next
  BY <1>5, <1>9 DEF StopReturns
<1>10. ASSUME NEW t \in Timers, IdleTimer(t) PROVE SP!Next
  BY <1>4, <1>10 DEF IdleTimer
<1>11. CASE UNCHANGED vars
  BY <1>6, <1>11 DEF vars
<1> QED
  BY <1>7, <1>8, <1>9, <1>10, <1>11 DEF Next

\* The other goroutines stay where they are.
Others(g) == \A q \in Goroutines : q # g => pc'[q] = pc[q]

\* What each step of a call does to the places and to the count.
LEMMA Effects ==
  ASSUME SP!TypeOK, NEW g \in Goroutines
  PROVE  /\ S!Attach(g) =>
              /\ pc[g] \in {"ready", "retry"} /\ pc'[g] = "ready" /\ Others(g)
              /\ clientCount' = clientCount + 1 /\ clients' = clients
         /\ S!WaitForStop(g) =>
              /\ pc[g] \in {"ready", "retry"} /\ pc'[g] = "waiting" /\ Others(g)
              /\ clientCount' = clientCount /\ clients' = clients
         /\ S!StopSeen(g) =>
              /\ pc[g] = "waiting" /\ pc'[g] = "retry" /\ Others(g)
              /\ clientCount' = clientCount /\ clients' = clients
         /\ S!WaitTimeout(g) =>
              /\ pc[g] = "waiting" /\ pc'[g] = "ready" /\ Others(g)
         /\ S!BeginStart(g) =>
              /\ pc[g] \in {"ready", "retry"} /\ pc'[g] = "onStart" /\ Others(g)
              /\ clientCount' = clientCount + 1 /\ clients' = clients /\ state = "idle"
         /\ S!StartOk(g) =>
              /\ pc[g] = "onStart" /\ pc'[g] = "ready" /\ Others(g)
              /\ clientCount' = clientCount /\ clients' = clients
         /\ S!StartFailed(g) =>
              /\ pc[g] = "onStart" /\ pc'[g] = "ready" /\ Others(g)
         /\ S!Drop(g) =>
              /\ pc[g] = "ready" /\ pc'[g] = "ready" /\ Others(g) /\ state' = state
              /\ clientCount' = clientCount - 1 /\ clients' = clients
         /\ S!KeepWarm(g) =>
              /\ pc[g] = "ready" /\ pc'[g] = "ready" /\ Others(g) /\ state' = state
              /\ clientCount' = clientCount - 1 /\ clients' = clients
         /\ S!StopNow(g) =>
              /\ pc[g] = "ready" /\ pc'[g] = "onStop" /\ Others(g)
              /\ clientCount = 1 /\ clientCount' = clientCount - 1 /\ clients' = clients
<1>1. /\ pc \in [S!Proc -> {"ready", "retry", "waiting", "onStart", "restartStart",
                            "onStop", "restartStop", "off", "armed", "fired"}]
      /\ clientCount \in Int
      /\ g \in S!Proc /\ \A q \in Goroutines : q \in S!Proc /\ pc[q] # "armed"
      /\ \A t \in Timers : t \notin Goroutines
  BY CameraAssumption DEF SP!TypeOK, SP!Proc, S!Proc
<1> USE <1>1 DEF Others
<1>2. S!Attach(g) =>
        /\ pc[g] \in {"ready", "retry"} /\ pc'[g] = "ready" /\ Others(g)
        /\ clientCount' = clientCount + 1 /\ clients' = clients
  BY DEF S!Attach, S!AtLoop, S!StopTimer
<1>3. S!WaitForStop(g) =>
        /\ pc[g] \in {"ready", "retry"} /\ pc'[g] = "waiting" /\ Others(g)
        /\ clientCount' = clientCount /\ clients' = clients
  BY DEF S!WaitForStop, S!AtLoop, S!StopTimer
<1>4. S!BeginStart(g) =>
        /\ pc[g] \in {"ready", "retry"} /\ pc'[g] = "onStart" /\ Others(g)
        /\ clientCount' = clientCount + 1 /\ clients' = clients /\ state = "idle"
  BY DEF S!BeginStart, S!AtLoop, S!StopTimer
<1>5. /\ S!StopSeen(g) =>
           /\ pc[g] = "waiting" /\ pc'[g] = "retry" /\ Others(g)
           /\ clientCount' = clientCount /\ clients' = clients
      /\ S!WaitTimeout(g) => pc[g] = "waiting" /\ pc'[g] = "ready" /\ Others(g)
      /\ S!StartOk(g) =>
           /\ pc[g] = "onStart" /\ pc'[g] = "ready" /\ Others(g)
           /\ clientCount' = clientCount /\ clients' = clients
      /\ S!StartFailed(g) => pc[g] = "onStart" /\ pc'[g] = "ready" /\ Others(g)
      /\ S!Drop(g) =>
           /\ pc[g] = "ready" /\ pc'[g] = "ready" /\ Others(g) /\ state' = state
           /\ clientCount' = clientCount - 1 /\ clients' = clients
  BY DEF S!StopSeen, S!WaitTimeout, S!StartOk, S!StartFailed, S!Drop
<1>6. S!KeepWarm(g) =>
        /\ pc[g] = "ready" /\ pc'[g] = "ready" /\ Others(g) /\ state' = state
        /\ clientCount' = clientCount - 1 /\ clients' = clients
  BY DEF S!KeepWarm
<1>7. S!StopNow(g) =>
        /\ pc[g] = "ready" /\ pc'[g] = "onStop" /\ Others(g)
        /\ clientCount = 1 /\ clientCount' = clientCount - 1 /\ clients' = clients
  BY DEF S!StopNow, S!StopLocked
<1> QED
  BY <1>2, <1>3, <1>4, <1>5, <1>6, <1>7

LEMMA RestartEffects ==
  ASSUME SP!TypeOK, Roles, RestartSession
  PROVE  /\ Others(Restarter)
         /\ \/ /\ pc[Restarter] = "ready" /\ pc'[Restarter] = "restartStop"
               /\ clientCount' = clientCount /\ clients'[Restarter] = clientCount
            \/ /\ pc[Restarter] = "restartStop" /\ pc'[Restarter] = "restartStart"
               /\ clientCount' = clientCount /\ clients' = clients /\ state' = "starting"
            \/ /\ pc[Restarter] = "restartStart" /\ pc'[Restarter] = "ready"
               /\ clientCount' = clients[Restarter] /\ state' = "streaming"
            \/ /\ pc[Restarter] = "restartStart" /\ pc'[Restarter] = "ready"
               /\ clientCount' = 0 /\ state' = "idle"
<1>1. /\ pc \in [S!Proc -> {"ready", "retry", "waiting", "onStart", "restartStart",
                            "onStop", "restartStop", "off", "armed", "fired"}]
      /\ clients \in [S!Proc -> Int]
      /\ Restarter \in S!Proc /\ \A q \in Goroutines : q \in S!Proc /\ pc[q] # "armed"
  BY WhoIsWho DEF SP!TypeOK, SP!Proc, S!Proc
<1>2. CASE S!RestartBegin(Restarter)
  BY <1>1, <1>2 DEF S!RestartBegin, S!StopTimer, Others
<1>3. CASE S!RestartTurn(Restarter)
  BY <1>1, <1>3 DEF S!RestartTurn, Others
<1>4. CASE S!RestartOk(Restarter)
  BY <1>1, <1>4 DEF S!RestartOk, Others
<1>5. CASE S!RestartFailed(Restarter)
  BY <1>1, <1>5 DEF S!RestartFailed, Others
<1> QED
  BY <1>2, <1>3, <1>4, <1>5 DEF RestartSession

\* Timers, and a stop that ends, move no goroutine that connects or restarts.
LEMMA TimerEffects ==
  ASSUME SP!TypeOK, Roles, (\E p \in Proc : StopReturns(p)) \/ (\E t \in Timers : IdleTimer(t))
  PROVE  /\ \A c \in Clients : /\ pc'[Player(c)] = pc[Player(c)]
                               /\ pc'[Closer(c)] \in {"ready", "onStop"}
         /\ pc'[Restarter] = pc[Restarter]
         /\ UNCHANGED <<clientCount, clients, rtsp, play, miscounted, unguarded>>
<1>1. pc \in [Proc -> {"ready", "retry", "waiting", "onStart", "restartStart",
                       "onStop", "restartStop", "off", "armed", "fired"}]
  BY DEF SP!TypeOK, SP!Proc, Proc
<1>2. ASSUME NEW p \in Proc, StopReturns(p)
      PROVE  /\ pc' = [pc EXCEPT ![p] = S!Returned(p)] /\ pc[p] = "onStop"
             /\ UNCHANGED <<clientCount, clients, rtsp, play, miscounted, unguarded>>
  BY <1>2 DEF StopReturns, S!StopLockedEnd, auxVars
<1>3. ASSUME NEW t \in Timers, IdleTimer(t)
      PROVE  /\ \A q \in Goroutines : pc'[q] = pc[q]
             /\ UNCHANGED <<clientCount, clients, rtsp, play, miscounted, unguarded>>
  <2>1. \A q \in Goroutines : q # t /\ q \in Proc
    BY CameraAssumption DEF Proc
  <2>2. CASE S!TimerExpires(t)
    BY <1>1, <1>3, <2>1, <2>2 DEF IdleTimer, S!TimerExpires, auxVars
  <2>3. CASE S!FiredTooLate(t)
    BY <1>1, <1>3, <2>1, <2>3 DEF IdleTimer, S!FiredTooLate, auxVars
  <2>4. CASE S!FiredInTime(t)
    BY <1>1, <1>3, <2>1, <2>4 DEF IdleTimer, S!FiredInTime, S!StopLocked, auxVars
  <2> QED
    BY <1>3, <2>2, <2>3, <2>4 DEF IdleTimer
<1>4. CASE \E p \in Proc : StopReturns(p)
  <2>1. PICK p \in Proc : /\ pc' = [pc EXCEPT ![p] = S!Returned(p)] /\ pc[p] = "onStop"
                          /\ UNCHANGED <<clientCount, clients, rtsp, play, miscounted, unguarded>>
    BY <1>2, <1>4
  <2>2. p # Restarter /\ \A c \in Clients : p # Player(c)
    BY <2>1 DEF Roles
  <2>3. \A c \in Clients : pc'[Closer(c)] \in {"ready", "onStop"}
    BY <1>1, <2>1, WhoIsWho DEF Roles, S!Returned
  <2> QED
    BY <1>1, <2>1, <2>2, <2>3, WhoIsWho
<1>5. CASE \E t \in Timers : IdleTimer(t)
  BY <1>3, <1>5, WhoIsWho DEF Roles
<1> QED
  BY <1>4, <1>5

-----------------------------------------------------------------------------
(***************************************************************************)
(* Counting.                                                               *)
(***************************************************************************)
CountedClients == {c \in Clients : Counted(c)}

LEMMA CountedFinite ==
  /\ IsFiniteSet(CountedClients) /\ Cardinality(CountedClients) \in Nat
  /\ CountedClients # {} => Cardinality(CountedClients) > 0
<1>1. CountedClients \subseteq Clients
  BY DEF CountedClients
<1>2. IsFiniteSet(CountedClients)
  BY <1>1, CameraAssumption, FS_Subset
<1>3. Cardinality(CountedClients) \in Nat
  BY <1>2, FS_CardinalityType
<1>4. Cardinality(CountedClients) = 0 <=> CountedClients = {}
  BY <1>2, FS_EmptySet
<1> QED
  BY <1>2, <1>3, <1>4

LEMMA SameCounted ==
  ASSUME \A d \in Clients : Counted(d)' <=> Counted(d)
  PROVE  CountedClients' = CountedClients
  BY DEF CountedClients

LEMMA OneMoreCounted ==
  ASSUME NEW c \in Clients, ~Counted(c), Counted(c)',
         \A d \in Clients : d # c => (Counted(d)' <=> Counted(d))
  PROVE  Cardinality(CountedClients') = Cardinality(CountedClients) + 1
<1>1. CountedClients' = CountedClients \cup {c} /\ c \notin CountedClients
  BY DEF CountedClients
<1> QED
  BY <1>1, CountedFinite, FS_AddElement

LEMMA OneLessCounted ==
  ASSUME NEW c \in Clients, Counted(c), ~Counted(c)',
         \A d \in Clients : d # c => (Counted(d)' <=> Counted(d))
  PROVE  Cardinality(CountedClients') = Cardinality(CountedClients) - 1
<1>1. CountedClients' = CountedClients \ {c} /\ c \in CountedClients
  BY DEF CountedClients
<1> QED
  BY <1>1, CountedFinite, FS_RemoveElement

\* CountIsClients with a name for the set.
LEMMA CountIs ==
  CountIsClients <=> (~miscounted => clientCount = Cardinality(CountedClients))
  BY DEF CountIsClients, CountedClients

-----------------------------------------------------------------------------
(***************************************************************************)
(* The types of what the camera adds to the session.                       *)
(***************************************************************************)
OwnTypes ==
  /\ rtsp \in [Clients -> {"closed", "setup", "playing", "closing"}]
  /\ play \in [Clients -> {"none", "connecting", "waitIDR", "watching"}]
  /\ miscounted \in BOOLEAN /\ unguarded \in BOOLEAN

LEMMA TypeParts == SP!TypeOK /\ OwnTypes => TypeOK
  BY DEF SP!TypeOK, S!TypeOK, SP!Proc, S!Proc, OwnTypes, TypeOK

LEMMA TypesStep ==
  ASSUME OwnTypes, [Next]_vars
  PROVE  OwnTypes'
<1>1. ASSUME NEW c \in Clients, Client(c) PROVE OwnTypes'
  <2>1. CASE Setup(c) \/ OnPlay(c) \/ IDRArrives(c) \/ IDRTimeout(c)
    BY <2>1 DEF Setup, OnPlay, IDRArrives, IDRTimeout, CloseSession, OwnTypes, auxVars
  <2>2. CASE Connect(c)
    BY <2>2 DEF Connect, Restarting, OwnTypes
  <2>3. CASE ConnectTimeout(c) \/ StartReturns(c)
    BY <2>3 DEF ConnectTimeout, StartReturns, CloseSession, OwnTypes, auxVars
  <2>4. CASE ClientLeaves(c)
    BY <2>4 DEF ClientLeaves, OwnTypes
  <2>5. CASE OnSessionClose(c)
    BY <2>5 DEF OnSessionClose, Restarting, OwnTypes
  <2> QED
    BY <1>1, <2>1, <2>2, <2>3, <2>4, <2>5 DEF Client
<1>2. CASE RestartSession
  BY <1>2 DEF RestartSession, OwnTypes
<1>3. ASSUME NEW p \in Proc, StopReturns(p) PROVE OwnTypes'
  BY <1>3 DEF StopReturns, OwnTypes, auxVars
<1>4. ASSUME NEW t \in Timers, IdleTimer(t) PROVE OwnTypes'
  BY <1>4 DEF IdleTimer, OwnTypes, auxVars
<1>5. CASE UNCHANGED vars
  BY <1>5 DEF vars, auxVars, OwnTypes
<1> QED
  BY <1>1, <1>2, <1>3, <1>4, <1>5 DEF Next

-----------------------------------------------------------------------------
(***************************************************************************)
(* A client's steps.                                                       *)
(***************************************************************************)

\* A client that only moves on: nobody is counted in or out.
LEMMA ClientMoves ==
  ASSUME OwnTypes, CInv, NEW c \in Clients,
         Setup(c) \/ OnPlay(c) \/ IDRArrives(c) \/ IDRTimeout(c) \/ ClientLeaves(c)
  PROVE  CInv'
<1> USE DEF OwnTypes, Setup, OnPlay, IDRArrives, IDRTimeout, ClientLeaves, CloseSession
<1>1. Roles /\ PlayNeedsSession /\ RestartKeepsCount /\ CountIsClients
  BY DEF CInv
<1>2. /\ pc' = pc /\ clientCount' = clientCount /\ clients' = clients
      /\ miscounted => miscounted'
  BY DEF sessionVars, auxVars
<1>3. Roles'
  BY <1>1, <1>2 DEF Roles
<1>4. PlayNeedsSession'
  BY <1>1, <1>2 DEF PlayNeedsSession, auxVars
<1>5. RestartKeepsCount'
  BY <1>1, <1>2 DEF RestartKeepsCount, Restarting
<1>6. CASE miscounted'
  BY <1>3, <1>4, <1>5, <1>6 DEF CInv, CountIsClients
<1>7. CASE ~miscounted'
  <2>1. ~miscounted /\ \A d \in Clients : d # c => rtsp'[d] = rtsp[d] /\ play'[d] = play[d]
    BY <1>2, <1>7
  <2>2. Counted(c)' <=> Counted(c)
    <3>1. CASE Setup(c) \/ OnPlay(c)
      BY <1>1, <1>2, <3>1 DEF Counted, Roles, PlayNeedsSession
    <3>2. CASE IDRArrives(c) \/ IDRTimeout(c)
      BY <1>2, <3>2 DEF Counted
    <3>3. CASE ClientLeaves(c)
      BY <1>2, <1>7, <3>3 DEF Counted
    <3> QED
      BY <3>1, <3>2, <3>3
  <2>3. \A d \in Clients : Counted(d)' <=> Counted(d)
    BY <1>2, <2>1, <2>2 DEF Counted
  <2>4. CountedClients' = CountedClients
    BY <2>3, SameCounted
  <2>5. CountIsClients'
    BY <1>1, <1>2, <2>1, <2>4, CountIs DEF CountIsClients, CountedClients
  <2> QED
    BY <1>3, <1>4, <1>5, <2>5 DEF CInv
<1> QED
  BY <1>6, <1>7

\* ClientConnected: the client is counted when it attaches or begins to start the
\* stream; whatever goes wrong later is recorded in miscounted.
LEMMA ClientConnects ==
  ASSUME SP!IInv, OwnTypes, CInv, NEW c \in Clients,
         Connect(c) \/ ConnectTimeout(c) \/ StartReturns(c)
  PROVE  CInv'
<1>1. Roles /\ PlayNeedsSession /\ RestartKeepsCount /\ CountIsClients
  BY DEF CInv
<1>2. SP!TypeOK /\ SP!SingleDriver
  BY DEF SP!IInv
<1>3. PICK g \in Goroutines : g = Player(c)
  BY WhoIsWho
<1>4. /\ Others(g) => /\ pc'[Restarter] = pc[Restarter]
                      /\ \A d \in Clients : /\ pc'[Closer(d)] = pc[Closer(d)]
                                            /\ d # c => pc'[Player(d)] = pc[Player(d)]
      /\ Restarting' <=> pc'[Restarter] \in {"restartStop", "restartStart"}
  BY <1>3, WhoIsWho DEF Others, Restarting
<1>5. CASE ConnectTimeout(c) \/ (S!StartFailed(g) /\ CloseSession(c) /\ miscounted' = TRUE)
  <2>1. pc[g] # "ready" /\ pc'[g] = "ready" /\ Others(g) /\ CloseSession(c) /\ miscounted'
    BY <1>2, <1>3, <1>5, Effects DEF ConnectTimeout
  <2>2. play[c] = "connecting"
    BY <1>1, <1>3, <2>1 DEF Roles
  <2>3. Roles'
    BY <1>1, <1>3, <1>4, <2>1, <2>2 DEF Roles, CloseSession, OwnTypes
  <2>4. PlayNeedsSession'
    BY <1>1, <2>1, <2>2 DEF PlayNeedsSession, CloseSession, OwnTypes
  <2> QED
    BY <2>1, <2>3, <2>4 DEF CInv, RestartKeepsCount, CountIsClients
<1>6. CASE Connect(c) /\ ~S!Attach(g) /\ ~S!BeginStart(g)
  <2>1. /\ pc[g] # "onStart" /\ pc'[g] \in {"retry", "waiting"} /\ Others(g)
        /\ clientCount' = clientCount /\ clients' = clients /\ play[c] = "connecting"
        /\ UNCHANGED <<play, miscounted, rtsp>>
    BY <1>2, <1>3, <1>6, Effects DEF Connect
  <2>2. Roles'
    BY <1>1, <1>3, <1>4, <2>1 DEF Roles
  <2>3. PlayNeedsSession' /\ RestartKeepsCount'
    BY <1>1, <1>4, <2>1 DEF PlayNeedsSession, RestartKeepsCount, Restarting
  <2>4. \A d \in Clients : Counted(d)' <=> Counted(d)
    BY <1>3, <1>4, <2>1 DEF Counted
  <2>5. CountedClients' = CountedClients
    BY <2>4, SameCounted
  <2>6. CountIsClients'
    BY <1>1, <2>1, <2>5, CountIs DEF CountIsClients, CountedClients
  <2> QED
    BY <2>2, <2>3, <2>6 DEF CInv
<1>7. CASE Connect(c) /\ (S!Attach(g) \/ S!BeginStart(g))
  <2>1. /\ pc[g] # "onStart" /\ pc'[g] \in {"ready", "onStart"} /\ Others(g)
        /\ clientCount' = clientCount + 1 /\ clients' = clients /\ rtsp' = rtsp
        /\ play[c] = "connecting"
    BY <1>2, <1>3, <1>7, Effects DEF Connect
  <2>2. \/ /\ pc'[g] = "ready" /\ play' = [play EXCEPT ![c] = "waitIDR"]
           /\ miscounted' = (miscounted \/ Restarting)
        \/ /\ pc'[g] = "onStart" /\ play' = play
           /\ miscounted' = miscounted /\ state = "idle"
    BY <1>2, <1>3, <1>7, Effects DEF Connect
  <2>3. ~miscounted' => ~Restarting /\ ~miscounted
    <3>1. state = "idle" => ~Restarting
      BY <1>2, WhoIsWho DEF SP!SingleDriver, SP!Drivers, SP!InOnStart, SP!InOnStop, SP!Proc, Proc, Restarting
    <3> QED
      BY <2>2, <3>1
  <2>4. Roles'
    BY <1>1, <1>3, <1>4, <2>1, <2>2 DEF Roles, OwnTypes
  <2>5. PlayNeedsSession'
    BY <1>1, <2>1, <2>2, <2>3 DEF PlayNeedsSession, OwnTypes
  <2>6. RestartKeepsCount'
    BY <1>4, <2>1, <2>3 DEF RestartKeepsCount, Restarting
  <2>7. CASE miscounted'
    BY <2>4, <2>5, <2>6, <2>7 DEF CInv, CountIsClients
  <2>8. CASE ~miscounted'
    <3>1. ~miscounted /\ rtsp[c] = "playing"
      BY <1>1, <2>1, <2>3, <2>8 DEF PlayNeedsSession
    <3>2. ~Counted(c) /\ Counted(c)'
      BY <1>3, <2>1, <2>2, <3>1 DEF Counted, OwnTypes
    <3>3. \A d \in Clients : d # c => (Counted(d)' <=> Counted(d))
      BY <1>4, <2>1, <2>2 DEF Counted, OwnTypes
    <3>4. Cardinality(CountedClients') = Cardinality(CountedClients) + 1
      BY <3>2, <3>3, OneMoreCounted
    <3>5. clientCount' = Cardinality(CountedClients')
      BY <1>1, <2>1, <3>1, <3>4, CountIs
    <3> QED
      BY <2>4, <2>5, <2>6, <3>5 DEF CInv, CountIsClients, CountedClients
  <2> QED
    BY <2>7, <2>8
<1>8. CASE /\ S!StartOk(g) /\ play' = [play EXCEPT ![c] = "waitIDR"]
           /\ UNCHANGED <<rtsp, auxVars>>
  <2>1. /\ pc[g] = "onStart" /\ pc'[g] = "ready" /\ Others(g)
        /\ clientCount' = clientCount /\ clients' = clients
        /\ play' = [play EXCEPT ![c] = "waitIDR"] /\ UNCHANGED <<rtsp, miscounted>>
    BY <1>2, <1>3, <1>8, Effects DEF auxVars
  <2>2. play[c] = "connecting"
    BY <1>1, <1>3, <2>1 DEF Roles
  <2>3. Roles'
    BY <1>1, <1>3, <1>4, <2>1, <2>2 DEF Roles, OwnTypes
  <2>4. PlayNeedsSession'
    BY <1>1, <2>1, <2>2 DEF PlayNeedsSession, OwnTypes
  <2>5. RestartKeepsCount'
    BY <1>1, <1>4, <2>1 DEF RestartKeepsCount, Restarting
  <2>6. \A d \in Clients : Counted(d)' <=> Counted(d)
    BY <1>3, <1>4, <2>1, <2>2 DEF Counted, OwnTypes
  <2>7. CountedClients' = CountedClients
    BY <2>6, SameCounted
  <2>8. CountIsClients'
    BY <1>1, <2>1, <2>7, CountIs DEF CountIsClients, CountedClients
  <2> QED
    BY <2>3, <2>4, <2>5, <2>8 DEF CInv
<1> QED
  BY <1>3, <1>5, <1>6, <1>7, <1>8 DEF StartReturns

\* OnSessionClose: a client that was counted is counted out.
LEMMA ClientCloses ==
  ASSUME SP!IInv, OwnTypes, CInv, NEW c \in Clients, OnSessionClose(c)
  PROVE  CInv'
<1>1. Roles /\ PlayNeedsSession /\ RestartKeepsCount /\ CountIsClients /\ SP!TypeOK
  BY DEF CInv, SP!IInv
<1>2. PICK g \in Goroutines : g = Closer(c)
  BY WhoIsWho
<1>3. /\ rtsp[c] = "closing" /\ rtsp' = [rtsp EXCEPT ![c] = "closed"] /\ play' = play
      /\ miscounted' = (miscounted \/ Restarting)
  BY DEF OnSessionClose
<1>4. /\ Others(g) /\ clients' = clients
      /\ pc'[g] = pc[g] \/ pc'[g] \in {"ready", "onStop"}
      /\ \/ clientCount <= 0 /\ clientCount' = clientCount
         \/ clientCount' = clientCount - 1
  <2>1. CASE clientCount <= 0 /\ UNCHANGED sessionVars
    BY <2>1 DEF sessionVars, Others
  <2>2. CASE S!Drop(g) \/ S!KeepWarm(g) \/ S!StopNow(g)
    BY <1>1, <2>2, Effects
  <2> QED
    BY <1>2, <2>1, <2>2 DEF OnSessionClose
<1>5. /\ pc'[Restarter] = pc[Restarter]
      /\ \A d \in Clients : /\ pc'[Player(d)] = pc[Player(d)]
                            /\ d # c => pc'[Closer(d)] = pc[Closer(d)]
  BY <1>2, <1>4, WhoIsWho DEF Others
<1>6. Roles'
  BY <1>1, <1>2, <1>3, <1>4, <1>5 DEF Roles
<1>7. CASE miscounted'
  <2>1. PlayNeedsSession'
    BY <1>1, <1>3, <1>7 DEF PlayNeedsSession, OwnTypes
  <2> QED
    BY <1>6, <1>7, <2>1 DEF CInv, RestartKeepsCount, CountIsClients
<1>8. CASE ~miscounted'
  <2>1. ~miscounted /\ ~Restarting
    BY <1>3, <1>8
  <2>2. play[c] # "connecting"
    BY <1>1, <1>3, <2>1 DEF PlayNeedsSession
  <2>3. PlayNeedsSession'
    BY <1>1, <1>3, <2>1, <2>2 DEF PlayNeedsSession, OwnTypes
  <2>4. RestartKeepsCount'
    BY <1>5, <2>1 DEF RestartKeepsCount, Restarting
  <2>5. Counted(c) /\ ~Counted(c)' /\ \A d \in Clients : d # c => (Counted(d)' <=> Counted(d))
    BY <1>3, <1>5, <2>2 DEF Counted, OwnTypes
  <2>6. Cardinality(CountedClients') = Cardinality(CountedClients) - 1
    BY <2>5, OneLessCounted
  <2>7. clientCount = Cardinality(CountedClients) /\ clientCount > 0
    BY <1>1, <2>1, <2>5, CountIs, CountedFinite DEF CountedClients
  <2>8. clientCount' = Cardinality(CountedClients')
    BY <1>4, <2>6, <2>7, CountedFinite
  <2> QED
    BY <1>6, <2>3, <2>4, <2>8 DEF CInv, CountIsClients, CountedClients
<1> QED
  BY <1>7, <1>8

\* A restart writes the count back that it has read.
LEMMA RestartCounts ==
  ASSUME SP!IInv, CInv, RestartSession
  PROVE  CInv'
<1>1. Roles /\ PlayNeedsSession /\ RestartKeepsCount /\ CountIsClients /\ SP!TypeOK
  BY DEF CInv, SP!IInv
<1>2. UNCHANGED <<rtsp, play>> /\ miscounted' = (miscounted \/ (clientCount > 0 /\ clientCount' = 0))
  BY DEF RestartSession
<1>3. \A c \in Clients : pc'[Player(c)] = pc[Player(c)] /\ pc'[Closer(c)] = pc[Closer(c)]
  BY <1>1, RestartEffects, WhoIsWho DEF Others
<1>4. pc'[Restarter] \in {"ready", "restartStop", "restartStart"}
  BY <1>1, RestartEffects
<1>5. Roles'
  BY <1>1, <1>2, <1>3, <1>4 DEF Roles
<1>6. PlayNeedsSession'
  BY <1>1, <1>2 DEF PlayNeedsSession
<1>7. CASE miscounted'
  BY <1>5, <1>6, <1>7 DEF CInv, RestartKeepsCount, CountIsClients
<1>8. CASE ~miscounted'
  <2>1. ~miscounted /\ ~(clientCount > 0 /\ clientCount' = 0)
    BY <1>2, <1>8
  <2>2. clientCount = Cardinality(CountedClients) /\ clientCount \in Nat
    BY <1>1, <2>1, CountIs, CountedFinite
  <2>3. clientCount' = clientCount
    <3>1. Restarting => clients[Restarter] = clientCount
      BY <1>1, <2>1 DEF RestartKeepsCount
    <3> QED
      BY <1>1, <2>1, <2>2, <3>1, RestartEffects DEF Restarting
  <2>4. RestartKeepsCount'
    BY <1>1, <2>1, <2>3, RestartEffects DEF RestartKeepsCount, Restarting
  <2>5. \A d \in Clients : Counted(d)' <=> Counted(d)
    BY <1>2, <1>3 DEF Counted
  <2>6. CountedClients' = CountedClients
    BY <2>5, SameCounted
  <2> QED
    BY <1>5, <1>6, <2>2, <2>3, <2>4, <2>6 DEF CInv, CountIsClients, CountedClients
<1> QED
  BY <1>7, <1>8

\* Nothing of it is touched by the warm stop and by the end of a stop.
LEMMA TimersCount ==
  ASSUME SP!IInv, CInv, (\E p \in Proc : StopReturns(p)) \/ (\E t \in Timers : IdleTimer(t))
  PROVE  CInv'
<1>1. Roles /\ PlayNeedsSession /\ RestartKeepsCount /\ CountIsClients /\ SP!TypeOK
  BY DEF CInv, SP!IInv
<1>2. /\ \A c \in Clients : /\ pc'[Player(c)] = pc[Player(c)]
                            /\ pc'[Closer(c)] \in {"ready", "onStop"}
      /\ pc'[Restarter] = pc[Restarter]
      /\ UNCHANGED <<clientCount, clients, rtsp, play, miscounted, unguarded>>
  BY <1>1, TimerEffects
<1>3. Roles' /\ PlayNeedsSession' /\ RestartKeepsCount'
  BY <1>1, <1>2 DEF Roles, PlayNeedsSession, RestartKeepsCount, Restarting
<1>4. \A d \in Clients : Counted(d)' <=> Counted(d)
  BY <1>2 DEF Counted
<1>5. CountedClients' = CountedClients
  BY <1>4, SameCounted
<1> QED
  BY <1>1, <1>2, <1>3, <1>5, CountIs DEF CInv, CountIsClients, CountedClients

-----------------------------------------------------------------------------
\* A new session is one of Session.
LEMMA InitIsSession == Init => SP!Init
  BY DEF Init, S!Init, SP!Init, S!Proc, SP!Proc

LEMMA InitIInv == Init => IInv
<1> SUFFICES ASSUME Init PROVE IInv
  OBVIOUS
<1>1. SP!IInv
  BY InitIsSession, SP!InitIInv, CameraAssumption
<1>2. TypeOK
  <2>1. OwnTypes
    BY DEF Init, OwnTypes
  <2> QED
    BY <1>1, <2>1, TypeParts DEF SP!IInv
<1>3. /\ clientCount = 0 /\ \A g \in Goroutines : pc[g] = "ready"
      /\ \A c \in Clients : rtsp[c] = "closed" /\ play[c] = "none"
  BY DEF Init, S!Init, S!Proc
<1>4. Roles /\ PlayNeedsSession /\ RestartKeepsCount
  BY <1>3, WhoIsWho DEF Roles, PlayNeedsSession, RestartKeepsCount, Restarting
<1>5. CountIsClients
  <2>1. CountedClients = {}
    BY <1>3 DEF CountedClients, Counted
  <2> QED
    BY <1>3, <2>1, CountIs, FS_EmptySet
<1> QED
  BY <1>1, <1>2, <1>4, <1>5 DEF IInv, CInv

LEMMA OwnPart == TypeOK => OwnTypes
  BY DEF TypeOK, OwnTypes

\* Every step of the clients, the timers and the restarts preserves the invariant.
LEMMA StepIInv == IInv /\ [Next]_vars => IInv'
<1> SUFFICES ASSUME IInv, [Next]_vars PROVE IInv'
  OBVIOUS
<1>1. SP!IInv /\ CInv /\ OwnTypes
  BY OwnPart DEF IInv
<1>2. SP!IInv'
  BY <1>1, StepIsSession, SP!StepIInv, CameraAssumption
<1>3. TypeOK'
  <2>1. OwnTypes' /\ SP!TypeOK'
    BY <1>1, <1>2, TypesStep DEF SP!IInv
  <2> QED
    BY <2>1, TypeParts, PTL
<1>4. CInv'
  <2>1. ASSUME NEW c \in Clients, Client(c) PROVE CInv'
    BY <1>1, <2>1, ClientMoves, ClientConnects, ClientCloses DEF Client
  <2>2. CASE UNCHANGED vars
    <3>1. UNCHANGED <<pc, clientCount, clients, rtsp, play, miscounted>>
      BY <2>2 DEF vars, sessionVars, auxVars
    <3> QED
      BY <1>1, <3>1 DEF CInv, Roles, PlayNeedsSession, RestartKeepsCount, Restarting,
                        CountIsClients, Counted
  <2> QED
    BY <1>1, <2>1, <2>2, RestartCounts, TimersCount DEF Next
<1> QED
  BY <1>2, <1>3, <1>4 DEF IInv

LEMMA SpecIInv == Spec => []IInv
  BY InitIInv, StepIInv, PTL DEF Spec

\* A stream that somebody is attached to is stopped by a restart only: the last
\* client's own close and the warm stop find nobody else counted.
LEMMA StepStream ==
  IInv /\ [Next]_vars =>
    [~miscounted /\ state = "streaming" /\ state' = "stopping"
       => pc'[Restarter] = "restartStop" \/ \A c \in Clients : ~Attached(c)]_vars
<1> SUFFICES ASSUME IInv, Next, ~miscounted, state = "streaming", state' = "stopping",
                    pc'[Restarter] # "restartStop", NEW d \in Clients, Attached(d)
             PROVE  FALSE
  OBVIOUS
<1>1. Roles /\ CountIsClients /\ SP!TypeOK
  BY DEF IInv, CInv, SP!IInv
<1>2. Counted(d) /\ d \in CountedClients /\ rtsp[d] = "playing"
  BY DEF Attached, Counted, CountedClients
<1>3. clientCount = Cardinality(CountedClients) /\ clientCount > 0
  BY <1>1, <1>2, CountIs, CountedFinite
<1>4. CASE RestartSession
  BY <1>1, <1>4, RestartEffects
<1>5. ASSUME NEW c \in Clients, Client(c) PROVE FALSE
  <2>1. CASE OnSessionClose(c)
    <3>1. S!StopNow(Closer(c))
      <4>1. Closer(c) \in Goroutines
        BY WhoIsWho
      <4> QED
        BY <1>1, <2>1, <4>1, Effects DEF OnSessionClose, sessionVars
    <3>2. clientCount = 1
      BY <3>1 DEF S!StopNow
    <3>3. c # d /\ Counted(c)
      <4>1. rtsp[c] = "closing"
        BY <2>1 DEF OnSessionClose
      <4>2. play[c] # "connecting"
        BY <4>1 DEF IInv, CInv, PlayNeedsSession
      <4> QED
        BY <1>2, <4>1, <4>2 DEF Counted
    <3>4. PICK T : T = CountedClients \ {c}
      OBVIOUS
    <3>5. Cardinality(T) = clientCount - 1 /\ IsFiniteSet(T)
      <4>1. c \in CountedClients
        BY <3>3 DEF CountedClients
      <4> QED
        BY <1>3, <3>4, <4>1, CountedFinite, FS_RemoveElement
    <3>6. T = {}
      BY <3>2, <3>5, FS_EmptySet
    <3> QED
      BY <1>2, <3>3, <3>4, <3>6
  <2>2. CASE Setup(c) \/ OnPlay(c) \/ IDRArrives(c) \/ IDRTimeout(c) \/ ClientLeaves(c)
    BY <2>2 DEF Setup, OnPlay, IDRArrives, IDRTimeout, ClientLeaves, sessionVars
  <2>3. CASE Connect(c)
    BY <2>3 DEF Connect, S!Attach, S!WaitForStop, S!StopSeen, S!BeginStart
  <2>4. CASE ConnectTimeout(c) \/ StartReturns(c)
    BY <2>4 DEF ConnectTimeout, StartReturns, S!WaitTimeout, S!StartOk, S!StartFailed
  <2> QED
    BY <1>5, <2>1, <2>2, <2>3, <2>4 DEF Client
<1>6. ASSUME NEW p \in Proc, StopReturns(p) PROVE FALSE
  BY <1>6 DEF StopReturns, S!StopLockedEnd
<1>7. ASSUME NEW t \in Timers, IdleTimer(t) PROVE FALSE
  <2>1. S!FiredInTime(t)
    BY <1>7 DEF IdleTimer, S!TimerExpires, S!FiredTooLate
  <2>2. clientCount <= 0
    BY <2>1 DEF S!FiredInTime
  <2> QED
    BY <1>3, <2>2, CountedFinite
<1> QED
  BY <1>4, <1>5, <1>6, <1>7 DEF Next

\* Every variable keeps its type (session.go 36-62, rtsp_server.go 589-655).
THEOREM CameraTypeOK == Spec => []TypeOK
  BY SpecIInv, PTL DEF IInv

\* What RTSP clients, timers and restarts do to the session is a behaviour of
\* Session, so that its theorems hold of every camera (main.go 170-264).
THEOREM CameraImplementsSession == Spec => SP!Spec
  BY InitIsSession, StepIsSession, PTL DEF Spec, SP!Spec

\* The client count is the number of clients, for any number of them, until
\* something happens that miscounts (session.go 97, 123, 163, 275).
THEOREM CameraCountIsClients == Spec => []CountIsClients
  BY SpecIInv, PTL DEF IInv, CInv

\* A stream that a client is attached to is stopped for a restart only, as long as
\* the count is right (session.go 154-205).
THEOREM CameraStreamForClients == Spec => StreamForClients
  BY SpecIInv, StepStream, PTL DEF Spec, StreamForClients

=============================================================================
