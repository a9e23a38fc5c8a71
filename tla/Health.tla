-------------------------------- MODULE Health --------------------------------
(***************************************************************************)
(* The health reporter of one camera (internal/health/health.go).  The     *)
(* streaming path enqueues results of stream starts and samples of packet  *)
(* loss without blocking; one goroutine folds them, and a 15 s ticker,     *)
(* into two flags with hysteresis, "problem" and "degraded", and publishes *)
(* each change to an MQTT broker as a retained message.                    *)
(*                                                                         *)
(* Time is counted in ticks from 1; 0 is the zero time of Go.  A sample is *)
(* the level of its loss fraction: at or above the threshold, at or below  *)
(* half of it, or between.  Cameras share nothing but the queue, and the   *)
(* attribute topics are left out.                                          *)
(*                                                                         *)
(* The MQTT client (paho, external) queues what is published, also while   *)
(* it is not connected, and sends it topic by topic in the order of the    *)
(* calls; a message may be sent again if its acknowledgement is lost, and  *)
(* a new connection may begin with an empty queue.  The broker (external)  *)
(* keeps the last value of each topic.                                     *)
(***************************************************************************)
EXTENDS Integers, Sequences

CONSTANTS
  WedgeAfter, staleGap, DropWindow, DropClearWindow,  \* in ticks
  QueueCap,                  \* 64 in the code
  MaxTime, MaxReports,       \* bounds
  MaxQueued,                 \* bound on what one topic has queued when onConnect runs
  Results, Levels            \* what the streaming path reports

ASSUME HealthAssumption ==
  /\ {WedgeAfter, staleGap, DropWindow, DropClearWindow, QueueCap} \subseteq Nat \ {0}
  /\ MaxTime \in Nat \ {0} /\ {MaxReports, MaxQueued} \subseteq Nat
  /\ Results \subseteq {"ok", "failed"}
  /\ Levels \subseteq {"low", "between", "high"}

VARIABLES
  now,
  events,                    \* r.events
  cam,                       \* the camState
  conn,                      \* "down", "up", "announced" (onConnect has run)
  outbox,                    \* what paho has queued for each of the two state topics
  broker,                    \* their retained values
  lastReport,                \* the last result reported, handled or not
  reports,                   \* number of reports so far
  overflowed,                \* has a report found the queue full?
  results, samples           \* the results and samples handled, with their times

mqttVars == <<conn, outbox, broker>>
vars == <<now, events, cam, mqttVars, lastReport, reports, overflowed, results, samples>>

\* A topic is named like the flag it publishes.
Topics == {"problem", "degraded"}

Init ==
  /\ now = 1
  /\ events = <<>>
  /\ cam = [problem |-> FALSE, firstFail |-> 0, lastFail |-> 0,
            degraded |-> FALSE, dropHighStart |-> 0, dropLowStart |-> 0]
  /\ conn = "down"
  /\ outbox = [f \in Topics |-> <<>>] /\ broker = [f \in Topics |-> FALSE]
  /\ lastReport = "none" /\ reports = 0 /\ overflowed = FALSE
  /\ results = <<>> /\ samples = <<>>

-----------------------------------------------------------------------------
(***************************************************************************)
(* The pure state logic: what becomes of the camState c at time t.         *)
(***************************************************************************)

\* A streak of failures that has lasted long enough is a problem.
promote(c, t) ==
  IF ~c.problem /\ c.firstFail # 0 /\ t - c.firstFail >= WedgeAfter
    THEN [c EXCEPT !.problem = TRUE] ELSE c

\* A success ends the streak and the problem; a failure extends the streak, or
\* starts one if the last failure is too long ago.  Two mutated forms: one never
\* starts a fresh streak, one leaves the problem standing after a success.
applyEventNoStale(c, result, t) ==
  IF result = "ok"
    THEN [c EXCEPT !.problem = FALSE, !.firstFail = 0, !.lastFail = 0]
    ELSE promote([c EXCEPT !.firstFail = IF @ = 0 THEN t ELSE @, !.lastFail = t], t)

applyEventSticky(c, result, t) ==
  IF result = "ok"
    THEN [c EXCEPT !.firstFail = 0, !.lastFail = 0]
    ELSE LET startsAfresh == c.firstFail = 0 \/ t - c.lastFail > staleGap
         IN  promote([c EXCEPT !.firstFail = IF startsAfresh THEN t ELSE @,
                               !.lastFail = t], t)

applyEvent(c, result, t) ==
  IF result = "ok"
    THEN [c EXCEPT !.problem = FALSE, !.firstFail = 0, !.lastFail = 0]
    ELSE LET startsAfresh == c.firstFail = 0 \/ t - c.lastFail > staleGap
         IN  promote([c EXCEPT !.firstFail = IF startsAfresh THEN t ELSE @,
                               !.lastFail = t], t)

\* A streak of high samples flags the camera, a streak of low ones clears it,
\* and a sample between the thresholds ends both streaks.
applyStats(c, level, t) ==
  LET high == IF c.dropHighStart = 0 THEN t ELSE c.dropHighStart
      low  == IF c.dropLowStart = 0 THEN t ELSE c.dropLowStart
  IN  CASE level = "high" ->
             [c EXCEPT !.dropHighStart = high, !.dropLowStart = 0,
                       !.degraded = @ \/ t - high >= DropWindow]
        [] level = "low" ->
             [c EXCEPT !.dropLowStart = low, !.dropHighStart = 0,
                       !.degraded = @ /\ t - low < DropClearWindow]
        [] OTHER -> [c EXCEPT !.dropHighStart = 0, !.dropLowStart = 0]

\* A fresh stream session starts without frame-drop state.
resetDrop(c) == [c EXCEPT !.degraded = FALSE, !.dropHighStart = 0, !.dropLowStart = 0]

-----------------------------------------------------------------------------
\* publishState and publishDropState: only a flag that changed is published.
\* A mutated form that forgets the drop state.
PublishProblemOnly(c) ==
  /\ outbox' = [f \in Topics |-> IF f = "problem" /\ c[f] # cam[f]
                                  THEN Append(outbox[f], c[f]) ELSE outbox[f]]
  /\ UNCHANGED <<conn, broker>>

PublishChanges(c) ==
  /\ outbox' = [f \in Topics |-> IF c[f] # cam[f] THEN Append(outbox[f], c[f]) ELSE outbox[f]]
  /\ UNCHANGED <<conn, broker>>

\* ReportStreamStarted, ReportStreamFailed and ReportVideoStats: a report finds
\* room in the queue or is dropped.
enqueue(e) ==
  /\ reports < MaxReports
  /\ reports' = reports + 1
  /\ events' = IF Len(events) < QueueCap THEN Append(events, e) ELSE events
  /\ overflowed' = (overflowed \/ Len(events) >= QueueCap)
  /\ UNCHANGED <<now, cam, mqttVars, results, samples>>

ReportResult(result) ==
  enqueue([kind |-> "result", value |-> result]) /\ lastReport' = result

ReportVideoStats(level) ==
  enqueue([kind |-> "stats", value |-> level]) /\ UNCHANGED lastReport

handleResult(result) ==
  LET applied == applyEvent(cam, result, now)
      c == IF result = "ok" THEN resetDrop(applied) ELSE applied
  IN  /\ cam' = c
      /\ PublishChanges(c)
      /\ results' = Append(results, [time |-> now, value |-> result])
      /\ samples' = IF result = "ok" THEN <<>> ELSE samples

handleStats(level) ==
  LET c == applyStats(cam, level, now)
  IN  /\ cam' = c
      /\ PublishChanges(c)
      /\ samples' = Append(samples, [time |-> now, value |-> level])
      /\ UNCHANGED results

handleEvent ==
  /\ events # <<>>
  /\ events' = Tail(events)
  /\ IF Head(events).kind = "result"
       THEN handleResult(Head(events).value) ELSE handleStats(Head(events).value)
  /\ UNCHANGED <<now, lastReport, reports, overflowed>>

\* The ticker: a streak may have become long enough without a new failure.
handleTick ==
  /\ promote(cam, now) # cam
  /\ cam' = promote(cam, now)
  /\ PublishChanges(promote(cam, now))
  /\ UNCHANGED <<now, events, lastReport, reports, overflowed, results, samples>>

-----------------------------------------------------------------------------
(***************************************************************************)
(* The connection to the broker.                                           *)
(***************************************************************************)
Connect ==
  /\ conn = "down"
  /\ conn' = "up"
  /\ outbox' \in {outbox, [f \in Topics |-> <<>>]}
  /\ UNCHANGED <<now, events, cam, broker, lastReport, reports, overflowed, results, samples>>

\* The state of both topics is published again, behind what is queued.
onConnect ==
  /\ conn = "up"
  /\ \A f \in Topics : Len(outbox[f]) < MaxQueued
  /\ conn' = "announced"
  /\ outbox' = [f \in Topics |-> Append(outbox[f], cam[f])]
  /\ UNCHANGED <<now, events, cam, broker, lastReport, reports, overflowed, results, samples>>

\* The message at the head of the queue reaches the broker, and is acknowledged or
\* will be sent again.
Deliver(f) ==
  /\ conn # "down" /\ outbox[f] # <<>>
  /\ broker' = [broker EXCEPT ![f] = Head(outbox[f])]
  /\ outbox' \in {outbox, [outbox EXCEPT ![f] = Tail(@)]}
  /\ UNCHANGED <<now, events, cam, conn, lastReport, reports, overflowed, results, samples>>

ConnectionLost ==
  /\ conn # "down"
  /\ conn' = "down"
  /\ UNCHANGED <<now, events, cam, outbox, broker, lastReport, reports, overflowed, results,
                 samples>>

TimePasses ==
  /\ now < MaxTime
  /\ now' = now + 1
  /\ UNCHANGED <<events, cam, mqttVars, lastReport, reports, overflowed, results, samples>>

Next ==
  \/ \E result \in Results : ReportResult(result)
  \/ \E level \in Levels : ReportVideoStats(level)
  \/ handleEvent \/ handleTick
  \/ Connect \/ onConnect \/ ConnectionLost \/ \E f \in Topics : Deliver(f)
  \/ TimePasses

Spec == Init /\ [][Next]_vars

-----------------------------------------------------------------------------
Time == 0 .. MaxTime
CamState ==
  [problem : BOOLEAN, firstFail : Time, lastFail : Time,
   degraded : BOOLEAN, dropHighStart : Time, dropLowStart : Time]
Report == [kind : {"result"}, value : Results] \cup [kind : {"stats"}, value : Levels]

TypeOK ==
  /\ now \in Time \ {0}
  /\ events \in Seq(Report) /\ Len(events) <= QueueCap
  /\ cam \in CamState
  /\ conn \in {"down", "up", "announced"}
  /\ outbox \in [Topics -> Seq(BOOLEAN)] /\ broker \in [Topics -> BOOLEAN]
  /\ lastReport \in Results \cup {"none"}
  /\ reports \in 0 .. MaxReports /\ overflowed \in BOOLEAN
  /\ results \in Seq([time : Time, value : Results])
  /\ samples \in Seq([time : Time, value : Levels])

\* Neither flag is raised or cleared by a passing fault.  A problem is a failure
\* that began at least WedgeAfter ago, with no success and no pause of more than
\* staleGap since (health.go 340-353, 373-397, and 45: "sustained stream-start
\* failure").  The frame-drop flag flips after a sustained period on one side of the
\* thresholds, or is cleared by a new stream session (health.go 59-61, 402-437).
SustainedFailure ==
  \E i \in DOMAIN results' :
    /\ now - results'[i].time >= WedgeAfter
    /\ \A j \in i .. Len(results') :
         /\ results'[j].value = "failed"
         /\ j > i => results'[j].time - results'[j - 1].time <= staleGap
SustainedLoss(level, window) ==
  \E i \in DOMAIN samples' :
    /\ now - samples'[i].time >= window
    /\ \A j \in i .. Len(samples') : samples'[j].value = level
FlagsAreSustained ==
  [][/\ ~cam.problem /\ cam'.problem => SustainedFailure
     /\ ~cam.degraded /\ cam'.degraded => SustainedLoss("high", DropWindow)
     /\ cam.degraded /\ ~cam'.degraded
          => samples' = <<>> \/ SustainedLoss("low", DropClearWindow)]_vars

\* Once onConnect has run and what was queued has been sent, the retained states
\* are those of the reporter, over changes, lost connections and publishes that were
\* queued while the broker was away (health.go 286-338, 470-483, and 485-487: "paho
\* queues them, and onConnect republishes retained state after any reconnect").
BrokerInSync ==
  \A f \in Topics : conn = "announced" /\ outbox[f] = <<>> => broker[f] = cam[f]

\* A camera whose last start succeeded is not reported as a problem once the
\* queue is drained, unless the queue has overflowed: a success that finds it
\* full is dropped like any other report (health.go 250-253, 360-371).
StartClearsProblem ==
  lastReport = "ok" /\ events = <<>> /\ ~overflowed => ~cam.problem

=============================================================================
