---------------------------- MODULE HapController ----------------------------
(***************************************************************************)
(* The HAP connections of one camera (internal/hap/controller.go):         *)
(* discoveryLoop and the recovery it starts when a lost camera reappears,  *)
(* the reconnection that recovery and StartStream share, and the motion    *)
(* subscription, an event loop and a poll loop for each connection.        *)
(*                                                                         *)
(* The camera, its mDNS records and the network are external.  A camera    *)
(* announces itself under its name, or as "Name (2)" while the record of   *)
(* its name has not expired; a record may also expire and come back while  *)
(* the camera is up.  A connection lives until the camera goes off.  How a *)
(* request fails on a dead connection is HapClient's matter: StartStream   *)
(* may or may not recognise the error as one of the connection.            *)
(***************************************************************************)
EXTENDS Integers, FiniteSets

CONSTANTS
  Recoverers,                \* goroutines that run recoverDevice
  Starter,                   \* the goroutine that runs StartStream
  MaxConns,                  \* bound on the number of connections
  MaxAttempts,               \* 5 in the code: the entries of backoff
  Flaky,                     \* may a request fail on a live connection?
  MaxHappened                  \* bound on what happens to camera and records

ASSUME HapControllerAssumption ==
  /\ Starter \notin Recoverers
  /\ MaxConns \in Nat \ {0} /\ MaxAttempts \in Nat \ {0} /\ MaxHappened \in Nat
  /\ Flaky \in BOOLEAN

Proc == Recoverers \cup {Starter}
Instances == {"name", "renamed"}
Conns == 1 .. MaxConns
NoConn == 0

VARIABLES
  power,                     \* is the camera on?
  instance,                  \* the name it announces
  records,                   \* the mDNS records that have not expired
  happened,                  \* number of camera and mDNS events
  lost,                      \* the map lost of discoveryLoop
  used,                      \* number of connections made
  up,                        \* the connections that are alive
  verified,                  \* c.verified[deviceName]
  pc, attempt, mine,         \* of each goroutine: step, failed attempts, connection
  eventLoop, pollLoop,       \* the connections with such a goroutine
  refused,                   \* the connections whose subscription failed
  stopped                    \* Stop has run

deviceVars == <<power, instance, records, happened>>
connVars == <<used, up, verified>>
procVars == <<pc, attempt, mine>>
motionVars == <<eventLoop, pollLoop, refused>>
controllerVars == <<deviceVars, lost, connVars, procVars, motionVars, stopped>>

\* PairCamera and SubscribeMotionSensor have succeeded.
ControllerInit ==
  /\ power = TRUE /\ instance = "name" /\ records = {"name"} /\ happened = 0
  /\ lost = {}
  /\ used = 1 /\ up = {1} /\ verified = 1
  /\ pc = [p \in Proc |-> "idle"]
  /\ attempt = [p \in Proc |-> 0]
  /\ mine = [p \in Proc |-> NoConn]
  /\ eventLoop = {1} /\ pollLoop = {1} /\ refused = {}
  /\ stopped = FALSE

Goto(p, step) == pc' = [pc EXCEPT ![p] = step]

-----------------------------------------------------------------------------
(***************************************************************************)
(* discoveryLoop.                                                          *)
(***************************************************************************)
Happens == ~stopped /\ happened < MaxHappened /\ happened' = happened + 1

\* go c.recoverDevice(...).
GoRecover ==
  \E r \in Recoverers :
    /\ pc[r] = "idle"
    /\ Goto(r, "verify")
    /\ attempt' = [attempt EXCEPT ![r] = 0]

\* An instance is discovered.  A lost one that is paired is recovered; a new
\* one whose name extends a lost name stands for it.  The renamed instance
\* reports that it is not paired.
Discover(i) ==
  LET wasLost == i \in lost
      standsFor == {l \in lost : l = "name" /\ i = "renamed"}
  IN  IF wasLost
        THEN /\ lost' = lost \ {i}
             /\ IF i = "name" THEN GoRecover ELSE UNCHANGED <<pc, attempt>>
        ELSE /\ lost' = lost \ standsFor
             /\ IF standsFor # {} THEN GoRecover ELSE UNCHANGED <<pc, attempt>>

\* The camera goes off, and its connections die with it.
PowerOff ==
  /\ Happens
  /\ power /\ power' = FALSE
  /\ up' = {}
  /\ UNCHANGED <<instance, records, lost, used, verified, procVars, motionVars, stopped>>

\* It comes back and announces itself.
Boot ==
  /\ Happens
  /\ ~power /\ power' = TRUE
  /\ instance' = IF "name" \in records THEN "renamed" ELSE "name"
  /\ instance' \notin records
  /\ records' = records \cup {instance'}
  /\ Discover(instance')
  /\ UNCHANGED <<connVars, mine, motionVars, stopped>>

\* A record expires and discoveryLoop hears of the loss.
Expire(i) ==
  /\ Happens
  /\ i \in records
  /\ records' = records \ {i}
  /\ lost' = lost \cup {i}
  /\ UNCHANGED <<power, instance, connVars, procVars, motionVars, stopped>>

\* A camera that is up announces itself again.
Announce ==
  /\ Happens
  /\ power /\ instance \notin records
  /\ records' = records \cup {instance}
  /\ Discover(instance)
  /\ UNCHANGED <<power, instance, connVars, mine, motionVars, stopped>>

-----------------------------------------------------------------------------
(***************************************************************************)
(* reconnect, run by recoverDevice and by StartStream.                     *)
(***************************************************************************)

\* DoPairVerify, three tries.
PairVerify(p) ==
  /\ pc[p] = "verify"
  /\ IF power
       THEN /\ used < MaxConns
            /\ used' = used + 1
            /\ up' = up \cup {used + 1}
            /\ mine' = [mine EXCEPT ![p] = used + 1]
            /\ Goto(p, "accessories")
       ELSE Goto(p, "failed") /\ UNCHANGED <<used, up, mine>>
  /\ UNCHANGED <<deviceVars, lost, verified, attempt, motionVars, stopped>>

\* GetAccessories and findCameraCharIDs; a failure closes the connection.
GetAccessories(p) ==
  /\ pc[p] = "accessories"
  /\ \/ mine[p] \in up /\ Goto(p, "install") /\ UNCHANGED up
     \/ /\ Flaky \/ mine[p] \notin up
        /\ up' = up \ {mine[p]} /\ Goto(p, "failed")
  /\ UNCHANGED <<deviceVars, lost, used, verified, attempt, mine, motionVars, stopped>>

\* c.verified is replaced.  Two mutated forms: one returns without subscribing
\* again, one keeps the connection it has.
InstallOnly(p) ==
  /\ pc[p] = "install"
  /\ verified' = mine[p]
  /\ Goto(p, "done")
  /\ UNCHANGED <<deviceVars, lost, used, up, attempt, mine, motionVars, stopped>>

InstallNothing(p) ==
  /\ pc[p] = "install"
  /\ Goto(p, "subscribe")
  /\ UNCHANGED <<deviceVars, lost, connVars, attempt, mine, motionVars, stopped>>

Install(p) ==
  /\ pc[p] = "install"
  /\ verified' = mine[p]
  /\ Goto(p, "subscribe")
  /\ UNCHANGED <<deviceVars, lost, used, up, attempt, mine, motionVars, stopped>>

\* doSubscribeMotion reads c.verified again; its failure is only logged.
doSubscribeMotion(p) ==
  /\ pc[p] = "subscribe"
  /\ \/ /\ verified \in up
        /\ eventLoop' = eventLoop \cup {verified}
        /\ pollLoop' = pollLoop \cup {verified}
        /\ UNCHANGED refused
     \/ /\ Flaky \/ verified \notin up
        /\ refused' = refused \cup {verified}
        /\ UNCHANGED <<eventLoop, pollLoop>>
  /\ Goto(p, "done")
  /\ UNCHANGED <<deviceVars, lost, connVars, attempt, mine, stopped>>

reconnect(p) == PairVerify(p) \/ GetAccessories(p) \/ Install(p) \/ doSubscribeMotion(p)

-----------------------------------------------------------------------------
\* recoverDevice: the callback after a success, the next attempt after a failure.
recoverDevice(r) ==
  /\ \/ pc[r] = "done" /\ Goto(r, "idle") /\ UNCHANGED attempt
     \/ /\ pc[r] = "failed"
        /\ attempt' = [attempt EXCEPT ![r] = @ + 1]
        /\ Goto(r, IF attempt[r] + 1 < MaxAttempts /\ ~stopped THEN "verify" ELSE "idle")
  /\ UNCHANGED <<deviceVars, lost, connVars, mine, motionVars, stopped>>

\* StartStream: doStartStream on the verified connection; if that is dead, and
\* the error is recognised, reconnect and try once more.
StartStream ==
  /\ \/ pc[Starter] = "idle" /\ ~stopped /\ verified \notin up /\ Goto(Starter, "verify")
     \/ pc[Starter] \in {"done", "failed"} /\ Goto(Starter, "idle")
  /\ UNCHANGED <<deviceVars, lost, connVars, attempt, mine, motionVars, stopped>>

\* The poll loop ends when its connection has died.  The event loop waits on a
\* channel that nobody closes, and ends with the process only.
PollLoopExit(c) ==
  /\ c \in pollLoop \ up
  /\ pollLoop' = pollLoop \ {c}
  /\ UNCHANGED <<deviceVars, lost, connVars, procVars, eventLoop, refused, stopped>>

\* Stop: discovery is cancelled, recovery makes no further attempt, and the
\* verified connection is closed.
Stop ==
  /\ ~stopped /\ stopped' = TRUE
  /\ up' = up \ {verified}
  /\ UNCHANGED <<deviceVars, lost, used, verified, procVars, motionVars>>

ControllerNext ==
  \/ PowerOff \/ Boot \/ Announce \/ \E i \in Instances : Expire(i)
  \/ \E p \in Proc : reconnect(p)
  \/ \E r \in Recoverers : recoverDevice(r)
  \/ StartStream
  \/ \E c \in Conns : PollLoopExit(c)
  \/ Stop

ControllerSpec == ControllerInit /\ [][ControllerNext]_controllerVars

\* Goroutines that can run do run.  Nothing is assumed of the camera, of its
\* records, of StartStream being called or of Stop.
ControllerFairness ==
  /\ \A p \in Proc :
       WF_controllerVars(PairVerify(p)) /\ WF_controllerVars(GetAccessories(p))
         /\ WF_controllerVars(Install(p)) /\ WF_controllerVars(doSubscribeMotion(p))
  /\ \A r \in Recoverers : WF_controllerVars(recoverDevice(r))
  /\ \A c \in Conns : WF_controllerVars(PollLoopExit(c))

ControllerFairSpec == ControllerSpec /\ ControllerFairness

-----------------------------------------------------------------------------
ControllerTypeOK ==
  /\ power \in BOOLEAN /\ instance \in Instances /\ records \subseteq Instances
  /\ lost \subseteq Instances
  /\ used \in Conns /\ up \subseteq 1 .. used /\ verified \in 1 .. used
  /\ pc \in [Proc -> {"idle", "verify", "accessories", "install", "subscribe",
                      "done", "failed"}]
  /\ attempt \in [Proc -> 0 .. MaxAttempts]
  /\ \A p \in Proc : pc[p] # "idle" => attempt[p] < MaxAttempts
  /\ attempt[Starter] = 0
  /\ mine \in [Proc -> {NoConn} \cup (1 .. used)]
  /\ \A p \in Proc : pc[p] \in {"accessories", "install"} => mine[p] # NoConn
  /\ eventLoop \subseteq 1 .. used /\ pollLoop \subseteq 1 .. used /\ refused \subseteq 1 .. used
  /\ stopped \in BOOLEAN

\* However many reconnections race, the connection that is used is one whose
\* motion events are relayed, unless the subscription itself failed
\* (controller.go 542-551, 768-771: c.verified is read again after c.mu was
\* released).
MotionFollowsVerified ==
  verified \in up /\ (\A p \in Proc : pc[p] # "subscribe")
    => verified \in pollLoop \cup refused

\* A recovery that finds the camera up ends with a live connection in use,
\* whatever other reconnections do, unless the camera goes off again or every
\* attempt has failed (controller.go 251-281, 470-560).  The model has no
\* connection left to give when used = MaxConns.
RecoveryWorks ==
  \A r \in Recoverers :
    (pc[r] = "verify" /\ power /\ ~stopped)
      ~> \/ verified \in up \/ ~power \/ stopped
         \/ attempt[r] = MaxAttempts \/ used = MaxConns

\* What controller.go 216-221 say of a camera that "reboots before its old mDNS
\* record expires" and comes back as "Name (2)": its appearance is the rediscovery
\* of the lost original, "so auto-recovery fires".  Violated: the appearance comes
\* before the loss is reported, and after the loss nothing appears any more
\* (controller.go 222).  The exceptions are those of RecoveryWorks.
RenamedIsRecovered ==
  (power /\ instance = "renamed" /\ "name" \in lost /\ verified \notin up)
    ~> \/ verified \in up \/ ~power \/ stopped
       \/ used = MaxConns \/ \E r \in Recoverers : attempt[r] = MaxAttempts

=============================================================================
