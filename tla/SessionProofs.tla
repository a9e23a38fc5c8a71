---------------------------- MODULE SessionProofs ----------------------------
(***************************************************************************)
(* For any number of goroutines, timers and clients, and whatever the      *)
(* callers do: the invariants of Session, and that it implements           *)
(* Lifecycle.                                                              *)
(***************************************************************************)
EXTENDS Session, TLAPS

\* The conjunction is inductive: who drives determines the state, the state
\* determines whether stopDone is set and whether a warm stop may be pending,
\* and both are needed to know what the goroutine that ends a callback finds.
IInv ==
  TypeOK /\ SingleDriver /\ StopChannel /\ WarmStopPending /\ CountBounds

-----------------------------------------------------------------------------
\* A new session (session.go 64-73) satisfies the inductive invariant.
LEMMA InitIInv == Init => IInv
<1> SUFFICES ASSUME Init PROVE IInv
  OBVIOUS
<1> USE SessionAssumption DEF Init
<1>1. TypeOK
  BY DEF TypeOK, Proc
<1>2. SingleDriver
  BY DEF SingleDriver, Drivers, InOnStart, InOnStop
<1>3. StopChannel
  BY DEF StopChannel, InOnStop, Proc
<1>4. WarmStopPending
  BY DEF WarmStopPending
<1>5. CountBounds
  BY DEF CountBounds
<1> QED
  BY <1>1, <1>2, <1>3, <1>4, <1>5 DEF IInv

\* Every step of every call preserves the invariant.
LEMMA StepIInv == IInv /\ [Next]_vars => IInv'
<1> SUFFICES ASSUME IInv, [Next]_vars PROVE IInv'
  OBVIOUS
<1> USE SessionAssumption DEF IInv, TypeOK, SingleDriver, StopChannel,
      WarmStopPending, CountBounds, InOnStart, InOnStop, Drivers, Proc
<1>1. ASSUME NEW g \in Goroutines, Attach(g) PROVE IInv'
  <2>1. TypeOK'
    BY <1>1 DEF Attach, AtLoop, StopTimer
  <2>2. SingleDriver'
    BY <1>1 DEF Attach, AtLoop, StopTimer
  <2>3. StopChannel'
    BY <1>1 DEF Attach, AtLoop, StopTimer
  <2>4. WarmStopPending'
    BY <1>1 DEF Attach, AtLoop, StopTimer
  <2>5. CountBounds'
    BY <1>1 DEF Attach, AtLoop, StopTimer
  <2> QED
    BY <2>1, <2>2, <2>3, <2>4, <2>5
<1>2. ASSUME NEW g \in Goroutines, WaitForStop(g) PROVE IInv'
  BY <1>2 DEF WaitForStop, AtLoop, StopTimer
<1>3. ASSUME NEW g \in Goroutines, StopSeen(g) PROVE IInv'
  BY <1>3 DEF StopSeen
<1>4. ASSUME NEW g \in Goroutines, WaitTimeout(g) PROVE IInv'
  BY <1>4 DEF WaitTimeout
<1>5. ASSUME NEW g \in Goroutines, BeginStart(g) PROVE IInv'
  <2>1. TypeOK'
    BY <1>5 DEF BeginStart, AtLoop, StopTimer
  <2>2. SingleDriver'
    BY <1>5 DEF BeginStart, AtLoop, StopTimer
  <2>3. StopChannel'
    BY <1>5 DEF BeginStart, AtLoop, StopTimer
  <2>4. WarmStopPending'
    BY <1>5 DEF BeginStart, AtLoop, StopTimer
  <2>5. CountBounds'
    BY <1>5 DEF BeginStart, AtLoop, StopTimer
  <2> QED
    BY <2>1, <2>2, <2>3, <2>4, <2>5
<1>6. ASSUME NEW g \in Goroutines, StartOk(g) PROVE IInv'
  BY <1>6 DEF StartOk
<1>7. ASSUME NEW g \in Goroutines, StartFailed(g) PROVE IInv'
  BY <1>7 DEF StartFailed
<1>8. ASSUME NEW g \in Goroutines, Drop(g) PROVE IInv'
  BY <1>8 DEF Drop
<1>9. ASSUME NEW g \in Goroutines, KeepWarm(g) PROVE IInv'
  BY <1>9 DEF KeepWarm
<1>10. ASSUME NEW g \in Goroutines, StopNow(g) PROVE IInv'
  BY <1>10 DEF StopNow, StopLocked, MakeStopDone
<1>11. ASSUME NEW g \in Goroutines, RestartBegin(g) PROVE IInv'
  <2>1. TypeOK'
    BY <1>11 DEF RestartBegin, MakeStopDone, StopTimer
  <2>2. SingleDriver'
    BY <1>11 DEF RestartBegin, MakeStopDone, StopTimer
  <2>3. StopChannel'
    BY <1>11 DEF RestartBegin, MakeStopDone, StopTimer
  <2>4. WarmStopPending'
    BY <1>11 DEF RestartBegin, MakeStopDone, StopTimer
  <2>5. CountBounds'
    BY <1>11 DEF RestartBegin, MakeStopDone, StopTimer
  <2> QED
    BY <2>1, <2>2, <2>3, <2>4, <2>5
<1>12. ASSUME NEW g \in Goroutines, RestartTurn(g) PROVE IInv'
  BY <1>12 DEF RestartTurn, CloseStopDone
<1>13. ASSUME NEW g \in Goroutines, RestartOk(g) PROVE IInv'
  BY <1>13 DEF RestartOk
<1>14. ASSUME NEW g \in Goroutines, RestartFailed(g) PROVE IInv'
  BY <1>14 DEF RestartFailed
<1>15. ASSUME NEW g \in Goroutines, Shutdown(g) PROVE IInv'
  <2>1. CASE state = "streaming"
    <3> USE <1>15, <2>1
    <3>1. PICK c \in Chans :
            /\ \A q \in Proc : done[q] # c
            /\ stopDone' = c
            /\ done' = [done EXCEPT ![g] = c]
            /\ closed' = closed \ {c}
      BY DEF Shutdown, StopLocked, MakeStopDone
    <3>2. /\ state' = "stopping" /\ clientCount' = 0 /\ stopTimer' = NoTimer
          /\ pc' = [StopTimer(stopTimer) EXCEPT ![g] = "onStop"]
          /\ UNCHANGED clients
      BY DEF Shutdown, StopLocked
    <3>3. TypeOK'
      BY <3>1, <3>2 DEF StopTimer
    <3>4. SingleDriver'
      BY <3>2 DEF StopTimer
    <3>5. StopChannel'
      BY <3>1, <3>2 DEF StopTimer
    <3>6. WarmStopPending' /\ CountBounds'
      BY <3>2
    <3> QED
      BY <3>3, <3>4, <3>5, <3>6
  <2>2. CASE state # "streaming"
    <3>1. TypeOK'
      BY <1>15, <2>2 DEF Shutdown, StopTimer
    <3>2. SingleDriver'
      BY <1>15, <2>2 DEF Shutdown, StopTimer
    <3>3. StopChannel'
      BY <1>15, <2>2 DEF Shutdown, StopTimer
    <3>4. WarmStopPending'
      BY <1>15, <2>2 DEF Shutdown, StopTimer
    <3>5. CountBounds'
      BY <1>15, <2>2 DEF Shutdown, StopTimer
    <3> QED
      BY <3>1, <3>2, <3>3, <3>4, <3>5
  <2> QED
    BY <2>1, <2>2
<1>16. ASSUME NEW t \in Timers, TimerExpires(t) PROVE IInv'
  BY <1>16 DEF TimerExpires
<1>17. ASSUME NEW t \in Timers, FiredTooLate(t) PROVE IInv'
  BY <1>17 DEF FiredTooLate
<1>18. ASSUME NEW t \in Timers, FiredInTime(t) PROVE IInv'
  BY <1>18 DEF FiredInTime, StopLocked, MakeStopDone
<1>19. ASSUME NEW p \in Proc, StopLockedEnd(p) PROVE IInv'
  BY <1>19 DEF StopLockedEnd, CloseStopDone, Returned
<1>20. CASE UNCHANGED vars
  BY <1>20 DEF vars
<1> QED
  BY <1>1, <1>2, <1>3, <1>4, <1>5, <1>6, <1>7, <1>8, <1>9, <1>10, <1>11, <1>12, <1>13, <1>14, <1>15, <1>16, <1>17, <1>18, <1>19, <1>20
     DEF Next, ClientConnected, ClientDisconnected, LastLeaves, Restart, idleTimerFired

\* The inductive invariant holds in every behaviour of the session.
LEMMA SpecIInv == Spec => []IInv
  BY InitIInv, StepIInv, PTL DEF Spec

\* Every variable of the session (session.go 36-62) keeps its type.
THEOREM SessionTypeOK == Spec => []TypeOK
  BY SpecIInv, PTL DEF IInv

\* At most one goroutine is inside onStart or onStop, and s.state says which:
\* the callbacks of main.go 170-264 need no lock of their own.
THEOREM SessionSingleDriver == Spec => []SingleDriver
  BY SpecIInv, PTL DEF IInv

\* A client that waits for a stop holds a channel that is closed or that the
\* stopping goroutine will close (session.go 105-119): no wake-up is lost.
THEOREM SessionStopChannel == Spec => []StopChannel
  BY SpecIInv, PTL DEF IInv

\* A warm stop is pending only for a running stream with no client counted
\* (session.go 89-92, 177-205, 241-244).
THEOREM SessionWarmStopPending == Spec => []WarmStopPending
  BY SpecIInv, PTL DEF IInv

\* However starts, failures, disconnects and restarts interleave, the client
\* count drops to -1 at worst, and only while the stream is idle.
THEOREM SessionCountBounds == Spec => []CountBounds
  BY SpecIInv, PTL DEF IInv

-----------------------------------------------------------------------------
(***************************************************************************)
(* Refinement of Lifecycle: each step begins, turns or ends a callback of  *)
(* the one driver, or leaves state and drivers alone.                      *)
(***************************************************************************)

\* A new session is idle and nobody drives it.
LEMMA InitLifecycle == Init => L!Init
  BY SessionAssumption DEF Init, L!Init, Drivers, InOnStart, InOnStop

\* The drivers before a step, by state.
LEMMA DriversByState ==
  ASSUME IInv
  PROVE  /\ state \in {"idle", "streaming"} => Drivers = {}
         /\ \A p \in Proc :
              /\ InOnStart(p) => state = "starting" /\ Drivers = {p}
              /\ InOnStop(p) => state = "stopping" /\ Drivers = {p}
  BY DEF IInv, SingleDriver, Drivers, InOnStart, InOnStop

\* Every step of the session is a step of Lifecycle or leaves it unchanged.
LEMMA StepLifecycle == IInv /\ [Next]_vars => [L!Next]_L!vars
<1> SUFFICES ASSUME IInv, [Next]_vars PROVE [L!Next]_L!vars
  OBVIOUS
<1> USE SessionAssumption, DriversByState DEF IInv, TypeOK, InOnStart, InOnStop, Drivers, Proc
<1>1. ASSUME NEW g \in Goroutines, Attach(g) \/ WaitForStop(g) PROVE UNCHANGED L!vars
  BY <1>1 DEF Attach, WaitForStop, AtLoop, StopTimer, L!vars
<1>2. ASSUME NEW g \in Goroutines, StopSeen(g) \/ WaitTimeout(g) PROVE UNCHANGED L!vars
  BY <1>2 DEF StopSeen, WaitTimeout, L!vars
<1>3. ASSUME NEW g \in Goroutines, BeginStart(g) PROVE L!BeginStart(g)
  BY <1>3 DEF BeginStart, AtLoop, StopTimer, L!BeginStart
<1>4. ASSUME NEW g \in Goroutines, StartOk(g) \/ StartFailed(g) PROVE L!EndStart(g)
  BY <1>4 DEF StartOk, StartFailed, L!EndStart
<1>5. ASSUME NEW g \in Goroutines, Drop(g) \/ KeepWarm(g) PROVE UNCHANGED L!vars
  BY <1>5 DEF Drop, KeepWarm, L!vars
<1>6. ASSUME NEW g \in Goroutines, StopNow(g) PROVE L!BeginStop(g)
  BY <1>6 DEF StopNow, StopLocked, L!BeginStop
<1>7. ASSUME NEW g \in Goroutines, RestartBegin(g) PROVE L!BeginStop(g)
  BY <1>7 DEF RestartBegin, StopTimer, L!BeginStop
<1>8. ASSUME NEW g \in Goroutines, RestartTurn(g) PROVE L!Turn(g)
  BY <1>8 DEF RestartTurn, L!Turn
<1>9. ASSUME NEW g \in Goroutines, RestartOk(g) \/ RestartFailed(g) PROVE L!EndStart(g)
  BY <1>9 DEF RestartOk, RestartFailed, L!EndStart
<1>10. ASSUME NEW g \in Goroutines, Shutdown(g)
       PROVE  L!BeginStop(g) \/ UNCHANGED L!vars
  <2>1. CASE state = "streaming"
    <3>1. state' = "stopping" /\ pc' = [StopTimer(stopTimer) EXCEPT ![g] = "onStop"]
      BY <1>10, <2>1 DEF Shutdown, StopLocked
    <3>2. Drivers' = {g}
      BY <1>10, <2>1, <3>1 DEF Shutdown, StopTimer
    <3> QED
      BY <2>1, <3>1, <3>2 DEF L!BeginStop
  <2>2. CASE state # "streaming"
    BY <1>10, <2>2 DEF Shutdown, StopTimer, L!vars
  <2> QED
    BY <2>1, <2>2
<1>11. ASSUME NEW t \in Timers, TimerExpires(t) \/ FiredTooLate(t) PROVE UNCHANGED L!vars
  BY <1>11 DEF TimerExpires, FiredTooLate, L!vars
<1>12. ASSUME NEW t \in Timers, FiredInTime(t) PROVE L!BeginStop(t)
  BY <1>12 DEF FiredInTime, StopLocked, L!BeginStop
<1>13. ASSUME NEW p \in Proc, StopLockedEnd(p) PROVE L!EndStop(p)
  BY <1>13 DEF StopLockedEnd, Returned, L!EndStop
<1>14. CASE UNCHANGED vars
  BY <1>14 DEF vars, L!vars
<1> QED
  BY <1>1, <1>2, <1>3, <1>4, <1>5, <1>6, <1>7, <1>8, <1>9, <1>10, <1>11, <1>12, <1>13, <1>14
     DEF Next, ClientConnected, ClientDisconnected, LastLeaves, Restart, idleTimerFired, L!Next

\* The session implements Lifecycle for every number of callers: onStart and
\* onStop are driven by one goroutine at a time (session.go 82-300).
THEOREM SessionImplementsLifecycle == Spec => LifecycleSpec
  BY InitLifecycle, StepLifecycle, SpecIInv, PTL DEF Spec, LifecycleSpec, L!Spec

=============================================================================
