------------------------------- MODULE Session -------------------------------
(***************************************************************************)
(* The on-demand session of one camera (internal/stream/session.go): four  *)
(* lifecycle states, a client count, a warm-stop timer and the channel     *)
(* that clients arriving during a stop wait on.                            *)
(*                                                                         *)
(* Every field is read and written under s.mu only, so a critical section  *)
(* is one step here.  The mutex is released around the onStart and onStop  *)
(* callbacks and around the wait for stopDone: there a call is split, and  *)
(* the calls of other goroutines interleave.  Nothing restricts which      *)
(* goroutine calls what and when: what holds here holds for every caller.  *)
(*                                                                         *)
(* Timers are goroutines too: time.AfterFunc runs its callback in one.  A  *)
(* timer that fired before it was stopped still runs the callback later.   *)
(***************************************************************************)
EXTENDS Integers

CONSTANTS
  Goroutines,                \* callers of the exported methods
  Timers,                    \* time.AfterFunc timers
  Chans,                     \* stopDone channels
  NoTimer, NoChan,           \* nil
  WarmMode,                  \* idleTimeout > 0
  MaxClients                 \* bound on clientCount

ASSUME SessionAssumption ==
  /\ Goroutines \cap Timers = {}
  /\ NoTimer \notin Timers
  /\ NoChan \notin Chans
  /\ WarmMode \in BOOLEAN
  /\ MaxClients \in Nat

Proc == Goroutines \cup Timers

VARIABLES
  state,                     \* s.state
  clientCount,               \* s.clientCount
  stopTimer,                 \* s.stopTimer
  stopDone,                  \* s.stopDone
  closed,                    \* the channels that have been closed
  pc,                        \* where each goroutine is
  done,                      \* the local variable done of the call in progress
  clients                    \* the local variable clients of Restart

vars == <<state, clientCount, stopTimer, stopDone, closed, pc, done, clients>>

Init ==
  /\ state = "idle"
  /\ clientCount = 0
  /\ stopTimer = NoTimer
  /\ stopDone = NoChan
  /\ closed = {}
  /\ pc = [p \in Proc |-> IF p \in Goroutines THEN "ready" ELSE "off"]
  /\ done = [p \in Proc |-> NoChan]
  /\ clients = [p \in Proc |-> 0]

-----------------------------------------------------------------------------
\* s.stopTimer.Stop(): an armed timer never fires, one that fired still runs.
StopTimer(t) == [p \in Proc |-> IF p = t /\ pc[p] = "armed" THEN "off" ELSE pc[p]]

\* done := make(chan struct{}); s.stopDone = done.  The channel is one that no
\* goroutine refers to any more.
MakeStopDone(p) ==
  \E c \in Chans :
    /\ c # stopDone /\ \A q \in Proc : done[q] # c
    /\ stopDone' = c
    /\ done' = [done EXCEPT ![p] = c]
    /\ closed' = closed \ {c}

\* s.stopDone = nil; close(done).  A mutated form that closes the field, which
\* is nil by then.
CloseStopDoneField(p) ==
  /\ stopDone' = NoChan
  /\ closed' = closed \cup {NoChan}
  /\ done' = [done EXCEPT ![p] = NoChan]

CloseStopDone(p) ==
  /\ stopDone' = NoChan
  /\ closed' = closed \cup {done[p]}
  /\ done' = [done EXCEPT ![p] = NoChan]

\* Where a goroutine goes when its call returns.
Returned(p) == IF p \in Goroutines THEN "ready" ELSE "off"

\* The first half of stopLocked, up to the call of onStop; pcs is what the
\* caller has made of the timers.
StopLocked(p, pcs) ==
  /\ state' = "stopping"
  /\ MakeStopDone(p)
  /\ pc' = [pcs EXCEPT ![p] = "onStop"]

\* The second half: onStop returned, with or without an error.  A mutated form
\* that forgets to close the channel.
StopLockedEndNoClose(p) ==
  /\ pc[p] = "onStop"
  /\ state' = "idle"
  /\ stopDone' = NoChan
  /\ done' = [done EXCEPT ![p] = NoChan]
  /\ pc' = [pc EXCEPT ![p] = Returned(p)]
  /\ UNCHANGED <<clientCount, stopTimer, closed, clients>>

StopLockedEnd(p) ==
  /\ pc[p] = "onStop"
  /\ state' = "idle"
  /\ CloseStopDone(p)
  /\ pc' = [pc EXCEPT ![p] = Returned(p)]
  /\ UNCHANGED <<clientCount, stopTimer, clients>>

-----------------------------------------------------------------------------
(***************************************************************************)
(* ClientConnected.  The loop is entered by a fresh call or by a client    *)
(* that waited; every turn of it first cancels the warm stop.              *)
(***************************************************************************)
AtLoop(g) == pc[g] \in {"ready", "retry"}

\* A running or starting stream is joined.  A mutated form that does not count
\* the client.
AttachUncounted(g) ==
  /\ AtLoop(g)
  /\ state \in {"streaming", "starting"}
  /\ stopTimer' = NoTimer
  /\ pc' = [StopTimer(stopTimer) EXCEPT ![g] = "ready"]
  /\ UNCHANGED <<state, clientCount, stopDone, closed, done, clients>>

Attach(g) ==
  /\ AtLoop(g)
  /\ state \in {"streaming", "starting"}
  /\ clientCount < MaxClients
  /\ clientCount' = clientCount + 1
  /\ stopTimer' = NoTimer
  /\ pc' = [StopTimer(stopTimer) EXCEPT ![g] = "ready"]
  /\ UNCHANGED <<state, stopDone, closed, done, clients>>

WaitForStop(g) ==
  /\ AtLoop(g)
  /\ state = "stopping"
  /\ done' = [done EXCEPT ![g] = stopDone]
  /\ stopTimer' = NoTimer
  /\ pc' = [StopTimer(stopTimer) EXCEPT ![g] = "waiting"]
  /\ UNCHANGED <<state, clientCount, stopDone, closed, clients>>

StopSeen(g) ==
  /\ pc[g] = "waiting"
  /\ done[g] \in closed
  /\ done' = [done EXCEPT ![g] = NoChan]
  /\ pc' = [pc EXCEPT ![g] = "retry"]
  /\ UNCHANGED <<state, clientCount, stopTimer, stopDone, closed, clients>>

\* 20 s passed.  The select may take this case although done is closed.
WaitTimeout(g) ==
  /\ pc[g] = "waiting"
  /\ done' = [done EXCEPT ![g] = NoChan]
  /\ pc' = [pc EXCEPT ![g] = "ready"]
  /\ UNCHANGED <<state, clientCount, stopTimer, stopDone, closed, clients>>

BeginStart(g) ==
  /\ AtLoop(g)
  /\ state = "idle"
  /\ clientCount < MaxClients
  /\ clientCount' = clientCount + 1
  /\ state' = "starting"
  /\ stopTimer' = NoTimer
  /\ pc' = [StopTimer(stopTimer) EXCEPT ![g] = "onStart"]
  /\ UNCHANGED <<stopDone, closed, done, clients>>

StartOk(g) ==
  /\ pc[g] = "onStart"
  /\ state' = "streaming"
  /\ pc' = [pc EXCEPT ![g] = "ready"]
  /\ UNCHANGED <<clientCount, stopTimer, stopDone, closed, done, clients>>

\* onStart returned an error: the client is taken back.  A mutated form that
\* does not reset the state.
StartFailedStays(g) ==
  /\ pc[g] = "onStart"
  /\ clientCount' = clientCount - 1
  /\ pc' = [pc EXCEPT ![g] = "ready"]
  /\ UNCHANGED <<state, stopTimer, stopDone, closed, done, clients>>

StartFailed(g) ==
  /\ pc[g] = "onStart"
  /\ state' = "idle"
  /\ clientCount' = clientCount - 1
  /\ pc' = [pc EXCEPT ![g] = "ready"]
  /\ UNCHANGED <<stopTimer, stopDone, closed, done, clients>>

ClientConnected(g) ==
  \/ Attach(g) \/ WaitForStop(g) \/ StopSeen(g) \/ WaitTimeout(g)
  \/ BeginStart(g) \/ StartOk(g) \/ StartFailed(g)

-----------------------------------------------------------------------------
(***************************************************************************)
(* ClientDisconnected.  With no client counted it changes nothing.         *)
(***************************************************************************)

\* Other clients remain, or the stream is not up: only the count changes.  A
\* mutated form that checks the count after decrementing it.
DropUnderflow(g) ==
  /\ pc[g] = "ready"
  /\ clientCount > 1 \/ state # "streaming"
  /\ clientCount' = clientCount - 1
  /\ UNCHANGED <<state, stopTimer, stopDone, closed, pc, done, clients>>

Drop(g) ==
  /\ pc[g] = "ready"
  /\ clientCount > 0
  /\ clientCount > 1 \/ state # "streaming"
  /\ clientCount' = clientCount - 1
  /\ UNCHANGED <<state, stopTimer, stopDone, closed, pc, done, clients>>

\* The last client left a running stream and warm mode is on.  A mutated form
\* that keeps the stream warm and arms no timer.
KeepWarmForEver(g) ==
  /\ pc[g] = "ready"
  /\ clientCount = 1 /\ state = "streaming"
  /\ WarmMode
  /\ clientCount' = 0
  /\ UNCHANGED <<state, stopTimer, stopDone, closed, pc, done, clients>>

KeepWarm(g) ==
  /\ pc[g] = "ready"
  /\ clientCount = 1 /\ state = "streaming"
  /\ WarmMode
  /\ clientCount' = 0
  /\ \E t \in Timers :
       /\ pc[t] = "off"
       /\ stopTimer' = t
       /\ pc' = [pc EXCEPT ![t] = "armed"]
  /\ UNCHANGED <<state, stopDone, closed, done, clients>>

\* The last client left a running stream and warm mode is off.
StopNow(g) ==
  /\ pc[g] = "ready"
  /\ clientCount = 1 /\ state = "streaming"
  /\ ~WarmMode
  /\ clientCount' = 0
  /\ StopLocked(g, pc)
  /\ UNCHANGED <<stopTimer, clients>>

LastLeaves(g) == IF WarmMode THEN KeepWarm(g) ELSE StopNow(g)

ClientDisconnected(g) == Drop(g) \/ LastLeaves(g)

-----------------------------------------------------------------------------
\* The runtime starts the goroutine of an armed timer.
TimerExpires(t) ==
  /\ pc[t] = "armed"
  /\ pc' = [pc EXCEPT ![t] = "fired"]
  /\ UNCHANGED <<state, clientCount, stopTimer, stopDone, closed, done, clients>>

\* idleTimerFired, the double-check fails.
FiredTooLate(t) ==
  /\ pc[t] = "fired"
  /\ clientCount > 0 \/ state # "streaming"
  /\ stopTimer' = NoTimer
  /\ pc' = [pc EXCEPT ![t] = "off"]
  /\ UNCHANGED <<state, clientCount, stopDone, closed, done, clients>>

\* idleTimerFired, the warm window expired.  A mutated form that trusts the
\* timer and checks neither the count nor the state again.
FiredBlindly(t) ==
  /\ pc[t] = "fired"
  /\ stopTimer' = NoTimer
  /\ StopLocked(t, pc)
  /\ UNCHANGED <<clientCount, clients>>

FiredInTime(t) ==
  /\ pc[t] = "fired"
  /\ clientCount <= 0 /\ state = "streaming"
  /\ stopTimer' = NoTimer
  /\ StopLocked(t, pc)
  /\ UNCHANGED <<clientCount, clients>>

idleTimerFired(t) == FiredTooLate(t) \/ FiredInTime(t)

-----------------------------------------------------------------------------
(***************************************************************************)
(* Restart: onStop, then onStart, from the stall watchdog and from the HAP *)
(* recovery.  It returns at once unless the stream is up.                  *)
(***************************************************************************)

\* A mutated form that leaves the warm-stop timer running.
RestartKeepsTimer(g) ==
  /\ pc[g] = "ready"
  /\ state = "streaming"
  /\ clients' = [clients EXCEPT ![g] = clientCount]
  /\ state' = "stopping"
  /\ MakeStopDone(g)
  /\ pc' = [pc EXCEPT ![g] = "restartStop"]
  /\ UNCHANGED <<clientCount, stopTimer>>

RestartBegin(g) ==
  /\ pc[g] = "ready"
  /\ state = "streaming"
  /\ stopTimer' = NoTimer
  /\ clients' = [clients EXCEPT ![g] = clientCount]
  /\ state' = "stopping"
  /\ MakeStopDone(g)
  /\ pc' = [StopTimer(stopTimer) EXCEPT ![g] = "restartStop"]
  /\ UNCHANGED clientCount

RestartTurn(g) ==
  /\ pc[g] = "restartStop"
  /\ CloseStopDone(g)
  /\ state' = "starting"
  /\ pc' = [pc EXCEPT ![g] = "restartStart"]
  /\ UNCHANGED <<clientCount, stopTimer, clients>>

RestartOk(g) ==
  /\ pc[g] = "restartStart"
  /\ state' = "streaming"
  /\ clientCount' = clients[g]
  /\ clients' = [clients EXCEPT ![g] = 0]
  /\ pc' = [pc EXCEPT ![g] = "ready"]
  /\ UNCHANGED <<stopTimer, stopDone, closed, done>>

RestartFailed(g) ==
  /\ pc[g] = "restartStart"
  /\ state' = "idle"
  /\ clientCount' = 0
  /\ clients' = [clients EXCEPT ![g] = 0]
  /\ pc' = [pc EXCEPT ![g] = "ready"]
  /\ UNCHANGED <<stopTimer, stopDone, closed, done>>

\* A mutated form without the check that the stream is up.
RestartAnytime(g) ==
  \/ /\ pc[g] = "ready"
     /\ stopTimer' = NoTimer
     /\ clients' = [clients EXCEPT ![g] = clientCount]
     /\ state' = "stopping"
     /\ MakeStopDone(g)
     /\ pc' = [StopTimer(stopTimer) EXCEPT ![g] = "restartStop"]
     /\ UNCHANGED clientCount
  \/ RestartTurn(g) \/ RestartOk(g) \/ RestartFailed(g)

Restart(g) ==
  RestartBegin(g) \/ RestartTurn(g) \/ RestartOk(g) \/ RestartFailed(g)

\* Shutdown cancels the warm stop and stops a running stream.
Shutdown(g) ==
  /\ pc[g] = "ready"
  /\ stopTimer' = NoTimer
  /\ IF state = "streaming"
       THEN /\ clientCount' = 0
            /\ StopLocked(g, StopTimer(stopTimer))
       ELSE /\ pc' = StopTimer(stopTimer)
            /\ UNCHANGED <<state, clientCount, stopDone, closed, done>>
  /\ UNCHANGED clients

-----------------------------------------------------------------------------
Next ==
  \/ \E g \in Goroutines :
       ClientConnected(g) \/ ClientDisconnected(g) \/ Restart(g) \/ Shutdown(g)
  \/ \E t \in Timers : TimerExpires(t) \/ idleTimerFired(t)
  \/ \E p \in Proc : StopLockedEnd(p)

Spec == Init /\ [][Next]_vars

\* The callbacks return (every network call they make has a timeout), a closed
\* channel wakes its waiters and a woken client takes the mutex.  Nothing is
\* assumed of the 20 s timeout or of new calls.
Fairness ==
  /\ \A p \in Proc : WF_vars(StopLockedEnd(p))
  /\ \A g \in Goroutines :
       /\ WF_vars(StartOk(g) \/ StartFailed(g))
       /\ WF_vars(RestartTurn(g) \/ RestartOk(g) \/ RestartFailed(g))
       /\ WF_vars(StopSeen(g))

FairSpec == Spec /\ Fairness

-----------------------------------------------------------------------------
(***************************************************************************)
(* Properties.                                                             *)
(***************************************************************************)
TypeOK ==
  /\ state \in {"idle", "starting", "streaming", "stopping"}
  /\ clientCount \in Int
  /\ stopTimer \in Timers \cup {NoTimer}
  /\ stopDone \in Chans \cup {NoChan}
  /\ closed \subseteq Chans
  /\ pc \in [Proc -> {"ready", "retry", "waiting", "onStart", "restartStart",
                      "onStop", "restartStop", "off", "armed", "fired"}]
  /\ \A g \in Goroutines : pc[g] \notin {"off", "armed", "fired"}
  /\ \A t \in Timers : pc[t] \in {"off", "armed", "fired", "onStop"}
  /\ done \in [Proc -> Chans \cup {NoChan}]
  /\ clients \in [Proc -> Int]

InOnStart(p) == pc[p] \in {"onStart", "restartStart"}
InOnStop(p) == pc[p] \in {"onStop", "restartStop"}

Drivers == {p \in Proc : InOnStart(p) \/ InOnStop(p)}

\* The session implements Lifecycle: onStart and onStop never run concurrently
\* and a callback that began is ended by its own goroutine, although s.mu is
\* released around both callbacks (session.go 129-133, 216-220, 250-273) and
\* clients, timers, restarts and Shutdown go on calling meanwhile.
L == INSTANCE Lifecycle WITH phase <- state, driver <- Drivers
LifecycleSpec == L!Spec

\* The state tells which callback is running, and exactly one goroutine is in
\* it: session.go decides by s.state alone whether it may call a callback.
SingleDriver ==
  /\ \A p, q \in Drivers : p = q
  /\ state = "starting" <=> \E p \in Proc : InOnStart(p)
  /\ state = "stopping" <=> \E p \in Proc : InOnStop(p)

\* No lost wake-up and no double close: stopDone is set exactly while the state
\* is stopping and is the still open channel of the goroutine that stops, and
\* whoever waits holds either that channel or one already closed
\* (session.go 109, 213-223, 248-261).
StopChannel ==
  /\ stopDone # NoChan <=> state = "stopping"
  /\ stopDone \notin closed
  /\ \A p \in Proc : InOnStop(p) => done[p] = stopDone
  /\ \A g \in Goroutines :
       pc[g] = "waiting" =>
         done[g] # NoChan /\ (done[g] \in closed \/ done[g] = stopDone)

\* A pending warm stop belongs to a running stream that nobody is counted on:
\* every path that adds a client, restarts or shuts down cancels it
\* (session.go 89-92, 196, 201, 241-244, 289-292).
WarmStopPending ==
  stopTimer # NoTimer =>
    /\ pc[stopTimer] \in {"armed", "fired"}
    /\ state = "streaming"
    /\ clientCount = 0

\* The count is negative only while the stream is idle, and then it is -1: the
\* decrement of a failed start (session.go 136) has no guard, the one of a
\* disconnect (session.go 159) has.
CountBounds ==
  /\ clientCount \in -1 .. MaxClients
  /\ clientCount = -1 => state = "idle"
  /\ \A p \in Proc : clients[p] \in 0 .. MaxClients

\* A transition that began ends: the session is never left starting or stopping
\* when the callbacks return, and a client that waits for a stop is woken by it,
\* without the help of the 20 s timeout (session.go 113-119, 131-142, 218-223,
\* 252-276).
TransitionsEnd ==
  /\ state \in {"starting", "stopping"} ~> state \in {"idle", "streaming"}
  /\ \A g \in Goroutines : pc[g] = "waiting" ~> pc[g] # "waiting"

=============================================================================
