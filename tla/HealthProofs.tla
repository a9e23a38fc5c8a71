----------------------------- MODULE HealthProofs -----------------------------
(***************************************************************************)
(* For every window, gap, queue size and sequence of reports: the flags    *)
(* are raised and cleared by sustained conditions only, the broker follows *)
(* the reporter, and a success clears a problem.                           *)
(***************************************************************************)
EXTENDS Health, SequenceTheorems, TLAPS

\* firstFail and lastFail remember a streak of the results handled: failures
\* without a long pause, the last of which is the last result.
FailureStreak ==
  cam.firstFail # 0 =>
    \E i \in DOMAIN results :
      /\ results[i].time = cam.firstFail
      /\ results[Len(results)].time = cam.lastFail
      /\ \A j \in i .. Len(results) :
           /\ results[j].value = "failed"
           /\ j > i => results[j].time - results[j - 1].time <= staleGap

\* dropHighStart and dropLowStart remember the streaks of the samples.
StreakSince(start, level) ==
  start # 0 =>
    \E i \in DOMAIN samples :
      /\ samples[i].time = start
      /\ \A j \in i .. Len(samples) : samples[j].value = level
LossStreaks ==
  StreakSince(cam.dropHighStart, "high") /\ StreakSince(cam.dropLowStart, "low")

\* Unless a report was dropped, the last result reported is the last one in the
\* queue, or it has been handled and, if it is a success, has left no streak.
LastResult ==
  ~overflowed =>
    \/ \E k \in DOMAIN events :
         /\ events[k].kind = "result" /\ events[k].value = lastReport
         /\ \A j \in (k + 1) .. Len(events) : events[j].kind = "stats"
    \/ /\ \A j \in DOMAIN events : events[j].kind = "stats"
       /\ lastReport = "ok" => ~cam.problem /\ cam.firstFail = 0

\* What each topic will retain when all that is queued has been sent is the state
\* of the reporter.
LastSaid(f) == IF outbox[f] = <<>> THEN broker[f] ELSE outbox[f][Len(outbox[f])]
SaidIsState == conn = "announced" => \A f \in Topics : LastSaid(f) = cam[f]

IInv == TypeOK /\ FailureStreak /\ LossStreaks /\ LastResult /\ SaidIsState

-----------------------------------------------------------------------------
(***************************************************************************)
(* The pure state logic.                                                   *)
(***************************************************************************)

\* 0, the zero time of Go, is a time.
LEMMA ZeroTime == 0 \in Time
  BY HealthAssumption DEF Time

\* A streak that lasts long enough raises the problem, nothing else changes.
LEMMA Promote ==
  ASSUME NEW c \in CamState, NEW t \in Time
  PROVE  /\ promote(c, t) \in CamState
         /\ promote(c, t) = [c EXCEPT !.problem = promote(c, t).problem]
         /\ c.problem => promote(c, t).problem
         /\ ~c.problem /\ promote(c, t).problem =>
              c.firstFail # 0 /\ t - c.firstFail >= WedgeAfter
  BY DEF promote, CamState

\* A success ends the streak and the problem (health.go applyEvent).
LEMMA ApplySuccess ==
  ASSUME NEW c \in CamState, NEW t \in Time, NEW d, d = applyEvent(c, "ok", t)
  PROVE  /\ d \in CamState
         /\ d.degraded = c.degraded
         /\ d.dropHighStart = c.dropHighStart /\ d.dropLowStart = c.dropLowStart
         /\ ~d.problem /\ d.firstFail = 0
<1>1. d = [c EXCEPT !.problem = FALSE, !.firstFail = 0, !.lastFail = 0]
  BY DEF applyEvent
<1>2. d \in CamState
  BY <1>1, ZeroTime DEF CamState
<1> QED
  BY <1>1, <1>2 DEF CamState

\* A failure extends the streak or starts one (health.go applyEvent).
LEMMA ApplyFailure ==
  ASSUME NEW c \in CamState, NEW t \in Time, NEW d, d = applyEvent(c, "failed", t)
  PROVE  /\ d \in CamState
         /\ d.degraded = c.degraded
         /\ d.dropHighStart = c.dropHighStart /\ d.dropLowStart = c.dropLowStart
         /\ d.lastFail = t
         /\ \/ d.firstFail = t
            \/ /\ d.firstFail = c.firstFail /\ c.firstFail # 0
               /\ t - c.lastFail <= staleGap
         /\ ~c.problem /\ d.problem => d.firstFail # 0 /\ t - d.firstFail >= WedgeAfter
<1>1. PICK e :
        /\ e = [c EXCEPT !.firstFail =
                   IF c.firstFail = 0 \/ t - c.lastFail > staleGap THEN t ELSE c.firstFail,
                         !.lastFail = t]
        /\ d = promote(e, t)
  BY DEF applyEvent
<1>2. e \in CamState
  BY <1>1 DEF CamState
<1>3. /\ e.problem = c.problem /\ e.degraded = c.degraded
      /\ e.dropHighStart = c.dropHighStart /\ e.dropLowStart = c.dropLowStart
      /\ e.lastFail = t
      /\ e.firstFail =
           IF c.firstFail = 0 \/ t - c.lastFail > staleGap THEN t ELSE c.firstFail
  BY <1>1 DEF CamState
<1>4. \/ e.firstFail = t
      \/ /\ e.firstFail = c.firstFail /\ c.firstFail # 0
         /\ t - c.lastFail <= staleGap
  BY <1>3, HealthAssumption DEF CamState, Time
<1>5. /\ d \in CamState /\ d = [e EXCEPT !.problem = d.problem]
      /\ ~e.problem /\ d.problem => e.firstFail # 0 /\ t - e.firstFail >= WedgeAfter
  <2>1. /\ promote(e, t) \in CamState
        /\ promote(e, t) = [e EXCEPT !.problem = promote(e, t).problem]
        /\ ~e.problem /\ promote(e, t).problem =>
             e.firstFail # 0 /\ t - e.firstFail >= WedgeAfter
    BY <1>2, Promote
  <2> QED
    BY <1>1, <2>1, Zenon
<1>6. /\ d.degraded = e.degraded /\ d.firstFail = e.firstFail /\ d.lastFail = e.lastFail
      /\ d.dropHighStart = e.dropHighStart /\ d.dropLowStart = e.dropLowStart
  BY <1>2, <1>5 DEF CamState
<1> QED
  BY <1>3, <1>4, <1>5, <1>6

\* What a sample leaves of the state (health.go applyStats).
LEMMA ApplyStats ==
  ASSUME NEW c \in CamState, NEW t \in Time \ {0}, NEW level \in {"low", "between", "high"},
         NEW d, d = applyStats(c, level, t)
  PROVE  /\ d \in CamState
         /\ d.problem = c.problem /\ d.firstFail = c.firstFail /\ d.lastFail = c.lastFail
         /\ d.dropHighStart # 0 => level = "high" /\ d.dropHighStart \in {t, c.dropHighStart}
         /\ d.dropLowStart # 0 => level = "low" /\ d.dropLowStart \in {t, c.dropLowStart}
         /\ ~c.degraded /\ d.degraded =>
              d.dropHighStart # 0 /\ t - d.dropHighStart >= DropWindow
         /\ c.degraded /\ ~d.degraded =>
              d.dropLowStart # 0 /\ t - d.dropLowStart >= DropClearWindow
<1>1. CASE level = "high"
  <2>1. PICK high :
          /\ high = IF c.dropHighStart = 0 THEN t ELSE c.dropHighStart
          /\ d = [c EXCEPT !.dropHighStart = high, !.dropLowStart = 0,
                           !.degraded = c.degraded \/ t - high >= DropWindow]
    BY <1>1 DEF applyStats
  <2>2. high \in Time /\ high # 0 /\ high \in {t, c.dropHighStart}
    BY <2>1 DEF CamState
  <2>3. d \in CamState
    BY <2>1, <2>2, ZeroTime DEF CamState
  <2>4. /\ d.problem = c.problem /\ d.firstFail = c.firstFail /\ d.lastFail = c.lastFail
        /\ d.dropHighStart = high /\ d.dropLowStart = 0
        /\ d.degraded = (c.degraded \/ t - high >= DropWindow)
    BY <2>1 DEF CamState
  <2> QED
    BY <1>1, <2>2, <2>3, <2>4
<1>2. CASE level = "low"
  <2>1. PICK low :
          /\ low = IF c.dropLowStart = 0 THEN t ELSE c.dropLowStart
          /\ d = [c EXCEPT !.dropLowStart = low, !.dropHighStart = 0,
                           !.degraded = c.degraded /\ t - low < DropClearWindow]
    BY <1>2 DEF applyStats
  <2>2. low \in Time /\ low # 0 /\ low \in {t, c.dropLowStart}
    BY <2>1 DEF CamState
  <2>3. d \in CamState
    BY <2>1, <2>2, ZeroTime DEF CamState
  <2>4. /\ d.problem = c.problem /\ d.firstFail = c.firstFail /\ d.lastFail = c.lastFail
        /\ d.dropHighStart = 0 /\ d.dropLowStart = low
        /\ d.degraded = (c.degraded /\ t - low < DropClearWindow)
    BY <2>1 DEF CamState
  <2>5. t - low < DropClearWindow \/ t - low >= DropClearWindow
    BY <2>2, HealthAssumption DEF Time
  <2> QED
    BY <1>2, <2>2, <2>3, <2>4, <2>5
<1>3. CASE level = "between"
  <2>1. d = [c EXCEPT !.dropHighStart = 0, !.dropLowStart = 0]
    BY <1>3 DEF applyStats
  <2>2. d \in CamState
    BY <2>1, ZeroTime DEF CamState
  <2>3. /\ d.problem = c.problem /\ d.firstFail = c.firstFail /\ d.lastFail = c.lastFail
        /\ d.dropHighStart = 0 /\ d.dropLowStart = 0 /\ d.degraded = c.degraded
    BY <2>1 DEF CamState
  <2> QED
    BY <2>2, <2>3
<1> QED
  BY <1>1, <1>2, <1>3

-----------------------------------------------------------------------------
(***************************************************************************)
(* The steps that change cam.                                              *)
(***************************************************************************)

\* A success handled: no streak and no flag is left.
LEMMA HandledSuccess ==
  ASSUME TypeOK, handleResult("ok")
  PROVE  /\ cam' \in CamState
         /\ ~cam'.problem /\ cam'.firstFail = 0
         /\ ~cam'.degraded /\ cam'.dropHighStart = 0 /\ cam'.dropLowStart = 0
         /\ samples' = <<>> /\ PublishChanges(cam')
<1>1. PICK d : d = applyEvent(cam, "ok", now)
  OBVIOUS
<1>2. d \in CamState /\ ~d.problem /\ d.firstFail = 0
  BY <1>1, ApplySuccess DEF TypeOK
<1>3. /\ cam' = resetDrop(d) /\ samples' = <<>> /\ PublishChanges(cam')
  BY <1>1 DEF handleResult
<1>4. cam' = [d EXCEPT !.degraded = FALSE, !.dropHighStart = 0, !.dropLowStart = 0]
  BY <1>3 DEF resetDrop
<1>5. cam' \in CamState
  BY <1>2, <1>4, ZeroTime DEF CamState
<1> QED
  BY <1>2, <1>3, <1>4, <1>5 DEF CamState

\* A failure handled.
LEMMA HandledFailure ==
  ASSUME TypeOK, handleResult("failed")
  PROVE  /\ cam' \in CamState
         /\ cam'.degraded = cam.degraded
         /\ cam'.dropHighStart = cam.dropHighStart /\ cam'.dropLowStart = cam.dropLowStart
         /\ cam'.lastFail = now
         /\ \/ cam'.firstFail = now
            \/ /\ cam'.firstFail = cam.firstFail /\ cam.firstFail # 0
               /\ now - cam.lastFail <= staleGap
         /\ ~cam.problem /\ cam'.problem =>
              cam'.firstFail # 0 /\ now - cam'.firstFail >= WedgeAfter
         /\ samples' = samples /\ PublishChanges(cam')
<1>1. cam' = applyEvent(cam, "failed", now) /\ samples' = samples /\ PublishChanges(cam')
  BY DEF handleResult
<1> QED
  BY <1>1, ApplyFailure DEF TypeOK

\* A sample handled.
LEMMA HandledStats ==
  ASSUME TypeOK, NEW level \in {"low", "between", "high"}, cam' = applyStats(cam, level, now)
  PROVE  /\ cam' \in CamState
         /\ cam'.problem = cam.problem
         /\ cam'.firstFail = cam.firstFail /\ cam'.lastFail = cam.lastFail
         /\ cam'.dropHighStart # 0 =>
              level = "high" /\ cam'.dropHighStart \in {now, cam.dropHighStart}
         /\ cam'.dropLowStart # 0 =>
              level = "low" /\ cam'.dropLowStart \in {now, cam.dropLowStart}
         /\ ~cam.degraded /\ cam'.degraded =>
              cam'.dropHighStart # 0 /\ now - cam'.dropHighStart >= DropWindow
         /\ cam.degraded /\ ~cam'.degraded =>
              cam'.dropLowStart # 0 /\ now - cam'.dropLowStart >= DropClearWindow
<1>1. cam \in CamState /\ now \in Time \ {0}
  BY DEF TypeOK
<1>2. PICK d : d = applyStats(cam, level, now)
  OBVIOUS
<1>3. /\ d \in CamState
      /\ d.problem = cam.problem
      /\ d.firstFail = cam.firstFail /\ d.lastFail = cam.lastFail
      /\ d.dropHighStart # 0 =>
           level = "high" /\ d.dropHighStart \in {now, cam.dropHighStart}
      /\ d.dropLowStart # 0 =>
           level = "low" /\ d.dropLowStart \in {now, cam.dropLowStart}
      /\ ~cam.degraded /\ d.degraded =>
           d.dropHighStart # 0 /\ now - d.dropHighStart >= DropWindow
      /\ cam.degraded /\ ~d.degraded =>
           d.dropLowStart # 0 /\ now - d.dropLowStart >= DropClearWindow
  BY <1>1, <1>2, ApplyStats
<1>4. cam' = d
  BY <1>2
<1> QED
  BY <1>3, <1>4, Zenon

\* A report at the head of the queue is a result or a sample.
LEMMA FirstReport ==
  ASSUME TypeOK, events # <<>>
  PROVE  \/ Head(events).kind = "result" /\ Head(events).value \in {"ok", "failed"} \cap Results
         \/ Head(events).kind = "stats" /\ Head(events).value \in {"low", "between", "high"} \cap Levels
<1>1. Head(events) \in Report
  BY HeadTailProperties DEF TypeOK
<1> QED
  BY <1>1, HealthAssumption DEF Report

\* The steps of the reporter's goroutine: what they handle.
LEMMA Handled ==
  ASSUME TypeOK, handleEvent
  PROVE  \/ Head(events).kind = "result" /\ Head(events).value = "ok" /\ handleResult("ok")
         \/ Head(events).kind = "result" /\ Head(events).value = "failed" /\ handleResult("failed")
         \/ /\ Head(events).kind = "stats"
            /\ \E level \in {"low", "between", "high"} \cap Levels :
                 handleStats(level) /\ cam' = applyStats(cam, level, now)
  BY FirstReport DEF handleEvent, handleStats

\* A flag is raised or cleared by a streak that is old enough, or by a success.
LEMMA FlagSteps ==
  ASSUME TypeOK, [Next]_vars
  PROVE  /\ cam' \in CamState
         /\ ~cam.problem /\ cam'.problem =>
              cam'.firstFail # 0 /\ now - cam'.firstFail >= WedgeAfter
         /\ ~cam.degraded /\ cam'.degraded =>
              cam'.dropHighStart # 0 /\ now - cam'.dropHighStart >= DropWindow
         /\ cam.degraded /\ ~cam'.degraded =>
              \/ samples' = <<>>
              \/ cam'.dropLowStart # 0 /\ now - cam'.dropLowStart >= DropClearWindow
<1>1. CASE handleEvent
  <2>1. CASE handleResult("ok")
    BY <2>1, HandledSuccess
  <2>2. CASE handleResult("failed")
    BY <2>2, HandledFailure
  <2>3. ASSUME NEW level \in {"low", "between", "high"}, cam' = applyStats(cam, level, now)
        PROVE  /\ cam' \in CamState /\ cam'.problem = cam.problem
               /\ ~cam.degraded /\ cam'.degraded =>
                    cam'.dropHighStart # 0 /\ now - cam'.dropHighStart >= DropWindow
               /\ cam.degraded /\ ~cam'.degraded =>
                    cam'.dropLowStart # 0 /\ now - cam'.dropLowStart >= DropClearWindow
    BY <2>3, HandledStats
  <2> QED
    BY <1>1, <2>1, <2>2, <2>3, Handled
<1>2. CASE handleTick
  <2>1. cam \in CamState /\ now \in Time /\ cam' = promote(cam, now)
    BY <1>2 DEF handleTick, TypeOK
  <2>2. /\ cam' \in CamState /\ cam' = [cam EXCEPT !.problem = cam'.problem]
        /\ ~cam.problem /\ cam'.problem =>
             cam.firstFail # 0 /\ now - cam.firstFail >= WedgeAfter
    <3>1. /\ promote(cam, now) \in CamState
          /\ promote(cam, now) = [cam EXCEPT !.problem = promote(cam, now).problem]
          /\ ~cam.problem /\ promote(cam, now).problem =>
               cam.firstFail # 0 /\ now - cam.firstFail >= WedgeAfter
      BY <2>1, Promote
    <3> QED
      BY <2>1, <3>1, Zenon
  <2>3. cam'.firstFail = cam.firstFail /\ cam'.degraded = cam.degraded
    BY <2>1, <2>2 DEF CamState
  <2> QED
    BY <2>2, <2>3
<1>3. CASE UNCHANGED cam
  BY <1>3 DEF TypeOK
<1> QED
  BY <1>1, <1>2, <1>3
     DEF Next, vars, ReportResult, ReportVideoStats, enqueue, Connect, onConnect,
         ConnectionLost, Deliver, TimePasses

-----------------------------------------------------------------------------
(***************************************************************************)
(* The inductive invariant.                                                *)
(***************************************************************************)

\* A topic carries a flag.
LEMMA FlagIsBoolean ==
  ASSUME NEW c \in CamState, NEW f \in Topics
  PROVE  c[f] \in BOOLEAN
  BY DEF CamState, Topics

\* The variables keep their types.
LEMMA StepTypeOK == TypeOK /\ [Next]_vars => TypeOK'
<1> SUFFICES ASSUME TypeOK, [Next]_vars PROVE TypeOK'
  OBVIOUS
<1> USE HealthAssumption
<1>1. ASSUME NEW e \in Report, enqueue(e), lastReport' \in Results \cup {"none"}
      PROVE  TypeOK'
  <2>1. events' \in Seq(Report) /\ Len(events') <= QueueCap
    <3>1. CASE Len(events) < QueueCap
      <4>1. Append(events, e) \in Seq(Report) /\ Len(Append(events, e)) = Len(events) + 1
        BY AppendProperties DEF TypeOK
      <4>2. Len(events) \in Nat
        BY LenProperties DEF TypeOK
      <4> QED
        BY <1>1, <3>1, <4>1, <4>2 DEF enqueue
    <3>2. CASE ~(Len(events) < QueueCap)
      BY <1>1, <3>2 DEF enqueue, TypeOK
    <3> QED
      BY <3>1, <3>2
  <2>2. overflowed' \in BOOLEAN /\ reports' \in 0 .. MaxReports
    BY <1>1 DEF enqueue, TypeOK
  <2> QED
    BY <1>1, <2>1, <2>2 DEF enqueue, mqttVars, TypeOK
<1>2. ASSUME NEW result \in Results, ReportResult(result) PROVE TypeOK'
  <2>1. [kind |-> "result", value |-> result] \in Report
    BY DEF Report
  <2> QED
    BY <1>1, <1>2, <2>1 DEF ReportResult
<1>3. ASSUME NEW level \in Levels, ReportVideoStats(level) PROVE TypeOK'
  <2>1. [kind |-> "stats", value |-> level] \in Report
    BY DEF Report
  <2> QED
    BY <1>1, <1>3, <2>1 DEF ReportVideoStats, TypeOK
<1>4. ASSUME NEW c \in CamState, PublishChanges(c)
      PROVE  /\ outbox' \in [Topics -> Seq(BOOLEAN)] /\ broker' \in [Topics -> BOOLEAN]
             /\ conn' \in {"down", "up", "announced"}
  <2>1. ASSUME NEW f \in Topics
        PROVE  outbox[f] \in Seq(BOOLEAN) /\ Append(outbox[f], c[f]) \in Seq(BOOLEAN)
    BY <2>1, FlagIsBoolean, AppendProperties DEF TypeOK
  <2> QED
    BY <1>4, <2>1 DEF PublishChanges, TypeOK
<1>5. CASE handleEvent
  <2>1. cam' \in CamState
    BY FlagSteps
  <2>2. events' \in Seq(Report) /\ Len(events') <= QueueCap
    <3>1. /\ Tail(events) \in Seq(Report) /\ Len(Tail(events)) = Len(events) - 1
          /\ Len(events) \in Nat
      BY <1>5, HeadTailProperties, LenProperties DEF handleEvent, TypeOK
    <3> QED
      BY <1>5, <3>1 DEF handleEvent, TypeOK
  <2>3. PublishChanges(cam')
    BY <1>5 DEF handleEvent, handleResult, handleStats
  <2>4. /\ outbox' \in [Topics -> Seq(BOOLEAN)] /\ broker' \in [Topics -> BOOLEAN]
        /\ conn' \in {"down", "up", "announced"}
    BY <1>4, <2>1, <2>3
  <2>5. /\ results' \in Seq([time : Time, value : Results])
        /\ samples' \in Seq([time : Time, value : Levels])
    <3>1. ASSUME NEW r \in Results, handleResult(r)
          PROVE  /\ results' \in Seq([time : Time, value : Results])
                 /\ samples' \in Seq([time : Time, value : Levels])
      <4>1. [time |-> now, value |-> r] \in [time : Time, value : Results]
        BY DEF TypeOK
      <4>2. results' = Append(results, [time |-> now, value |-> r])
        BY <3>1 DEF handleResult
      <4>3. results' \in Seq([time : Time, value : Results])
        BY <4>1, <4>2, AppendProperties DEF TypeOK
      <4> QED
        BY <3>1, <4>3, EmptySeq DEF handleResult, TypeOK
    <3>2. ASSUME NEW v \in Levels, handleStats(v)
          PROVE  /\ results' \in Seq([time : Time, value : Results])
                 /\ samples' \in Seq([time : Time, value : Levels])
      <4>1. [time |-> now, value |-> v] \in [time : Time, value : Levels]
        BY DEF TypeOK
      <4>2. samples' = Append(samples, [time |-> now, value |-> v])
        BY <3>2 DEF handleStats
      <4>3. samples' \in Seq([time : Time, value : Levels])
        BY <4>1, <4>2, AppendProperties DEF TypeOK
      <4> QED
        BY <3>2, <4>3 DEF handleStats, TypeOK
    <3>3. \/ \E r \in Results : handleResult(r)
          \/ \E v \in Levels : handleStats(v)
      BY <1>5, FirstReport DEF handleEvent
    <3> QED
      BY <3>1, <3>2, <3>3
  <2> QED
    BY <1>5, <2>1, <2>2, <2>4, <2>5 DEF handleEvent, TypeOK
<1>6. CASE handleTick
  <2>1. cam' \in CamState
    BY FlagSteps
  <2>2. /\ outbox' \in [Topics -> Seq(BOOLEAN)] /\ broker' \in [Topics -> BOOLEAN]
        /\ conn' \in {"down", "up", "announced"}
    BY <1>4, <1>6, <2>1 DEF handleTick
  <2> QED
    BY <1>6, <2>1, <2>2 DEF handleTick, TypeOK
<1>7. CASE Connect \/ ConnectionLost
  <2>1. [f \in Topics |-> <<>>] \in [Topics -> Seq(BOOLEAN)]
    BY EmptySeq
  <2> QED
    BY <1>7, <2>1 DEF Connect, ConnectionLost, TypeOK
<1>8. CASE onConnect
  <2>1. ASSUME NEW f \in Topics PROVE Append(outbox[f], cam[f]) \in Seq(BOOLEAN)
    BY FlagIsBoolean, AppendProperties DEF TypeOK
  <2>2. outbox' \in [Topics -> Seq(BOOLEAN)]
    BY <1>8, <2>1 DEF onConnect
  <2> QED
    BY <1>8, <2>2 DEF onConnect, TypeOK
<1>11. ASSUME NEW f \in Topics, Deliver(f) PROVE TypeOK'
  <2>1. outbox[f] \in Seq(BOOLEAN) /\ outbox[f] # <<>>
    BY <1>11 DEF Deliver, TypeOK
  <2>2. Head(outbox[f]) \in BOOLEAN /\ Tail(outbox[f]) \in Seq(BOOLEAN)
    BY <2>1, HeadTailProperties
  <2>3. outbox' \in [Topics -> Seq(BOOLEAN)] /\ broker' \in [Topics -> BOOLEAN]
    BY <1>11, <2>2 DEF Deliver, TypeOK
  <2> QED
    BY <1>11, <2>3 DEF Deliver, TypeOK
<1>9. CASE TimePasses
  BY <1>9 DEF TimePasses, mqttVars, TypeOK, Time
<1>10. CASE UNCHANGED vars
  BY <1>10 DEF vars, mqttVars, TypeOK
<1> QED
  BY <1>2, <1>3, <1>5, <1>6, <1>7, <1>8, <1>9, <1>10, <1>11 DEF Next

\* A streak that goes on, or begins, with the record appended to s.
LEMMA LongerStreak ==
  ASSUME NEW V, NEW s \in Seq([time : Time, value : V]), NEW t \in Time, NEW v \in V,
         NEW start, NEW x, x \in {t, start}, x # 0,
         start # 0 => \E i \in DOMAIN s :
           s[i].time = start /\ \A j \in i .. Len(s) : s[j].value = v
  PROVE  LET u == Append(s, [time |-> t, value |-> v])
         IN  \E i \in DOMAIN u : u[i].time = x /\ \A j \in i .. Len(u) : u[j].value = v
<1> DEFINE r == [time |-> t, value |-> v]
           u == Append(s, r)
<1>1. r \in [time : Time, value : V] /\ r.time = t /\ r.value = v
  OBVIOUS
<1> HIDE DEF r
<1>2. /\ Len(s) \in Nat /\ Len(u) = Len(s) + 1 /\ DOMAIN s = 1 .. Len(s)
      /\ u \in Seq([time : Time, value : V])
      /\ \A i \in 1 .. Len(s) : u[i] = s[i]
      /\ u[Len(s) + 1] = r
  BY <1>1, AppendProperties, LenProperties
<1>3. DOMAIN u = 1 .. Len(u)
  BY <1>2, LenProperties
<1> HIDE DEF u
<1>4. CASE x = t
  <2>1. Len(u) \in DOMAIN u /\ u[Len(u)].time = x
    BY <1>1, <1>2, <1>3, <1>4
  <2>2. \A j \in Len(u) .. Len(u) : u[j].value = v
    BY <1>1, <1>2
  <2> QED
    BY <2>1, <2>2 DEF u, r
<1>5. CASE x = start
  <2>1. PICK i \in DOMAIN s : s[i].time = start /\ \A j \in i .. Len(s) : s[j].value = v
    BY <1>5
  <2>2. i \in DOMAIN u /\ u[i].time = x
    BY <1>2, <1>3, <1>5, <2>1
  <2>3. \A j \in i .. Len(u) : u[j].value = v
    BY <1>1, <1>2, <2>1
  <2> QED
    BY <2>2, <2>3 DEF u, r
<1> QED
  BY <1>4, <1>5

\* firstFail goes on standing for the streak of failures.
LEMMA StepFailureStreak == TypeOK /\ FailureStreak /\ [Next]_vars => FailureStreak'
<1> SUFFICES ASSUME TypeOK, FailureStreak, [Next]_vars PROVE FailureStreak'
  OBVIOUS
<1>1. CASE handleResult("failed")
  <2> SUFFICES ASSUME cam'.firstFail # 0
               PROVE  \E i \in DOMAIN results' :
                        /\ results'[i].time = cam'.firstFail
                        /\ results'[Len(results')].time = cam'.lastFail
                        /\ \A j \in i .. Len(results') :
                             /\ results'[j].value = "failed"
                             /\ j > i => results'[j].time - results'[j - 1].time <= staleGap
    BY DEF FailureStreak
  <2> DEFINE n == Len(results)
  <2>1. PICK r : r = [time |-> now, value |-> "failed"] /\ results' = Append(results, r)
    BY <1>1 DEF handleResult
  <2>2. /\ n \in Nat /\ Len(results') = n + 1
        /\ DOMAIN results = 1 .. n /\ DOMAIN results' = 1 .. (n + 1)
        /\ \A i \in 1 .. n : results'[i] = results[i]
        /\ results'[n + 1] = r /\ r.time = now /\ r.value = "failed"
    <3>1. results \in Seq([time : Time, value : Results \cup {"failed"}])
      BY SeqMonotonic DEF TypeOK
    <3>2. r \in [time : Time, value : Results \cup {"failed"}] /\ r.time = now /\ r.value = "failed"
      BY <2>1 DEF TypeOK
    <3>3. results' \in Seq([time : Time, value : Results \cup {"failed"}])
      BY <2>1, <3>1, <3>2, AppendProperties
    <3>4. /\ Len(results') = n + 1 /\ results'[n + 1] = r
          /\ \A i \in 1 .. n : results'[i] = results[i]
      BY <2>1, <3>1, <3>2, AppendProperties
    <3>5. n \in Nat /\ DOMAIN results = 1 .. n /\ DOMAIN results' = 1 .. Len(results')
      BY <3>1, <3>3, LenProperties
    <3> QED
      BY <3>2, <3>4, <3>5
  <2> HIDE DEF n
  <2>3. /\ cam'.lastFail = now
        /\ \/ cam'.firstFail = now
           \/ /\ cam'.firstFail = cam.firstFail /\ cam.firstFail # 0
              /\ now - cam.lastFail <= staleGap
    BY <1>1, HandledFailure
  <2>4. CASE cam'.firstFail = now
    <3>1. n + 1 \in DOMAIN results' /\ Len(results') = n + 1
      BY <2>2
    <3>2. results'[n + 1].time = cam'.firstFail /\ results'[Len(results')].time = cam'.lastFail
      BY <2>2, <2>3, <2>4
    <3>3. \A j \in (n + 1) .. Len(results') : results'[j].value = "failed" /\ ~(j > n + 1)
      BY <2>2
    <3> QED
      BY <3>1, <3>2, <3>3
  <2>5. CASE cam'.firstFail = cam.firstFail /\ cam.firstFail # 0 /\ now - cam.lastFail <= staleGap
    <3>1. PICK i \in 1 .. n :
            /\ results[i].time = cam.firstFail
            /\ results[n].time = cam.lastFail
            /\ \A j \in i .. n :
                 /\ results[j].value = "failed"
                 /\ j > i => results[j].time - results[j - 1].time <= staleGap
      BY <2>2, <2>5 DEF FailureStreak, n
    <3>2. i \in DOMAIN results' /\ results'[i].time = cam'.firstFail
      BY <2>2, <2>5, <3>1
    <3>3. results'[Len(results')].time = cam'.lastFail
      BY <2>2, <2>3
    <3>4. ASSUME NEW j \in i .. (n + 1)
          PROVE  /\ results'[j].value = "failed"
                 /\ j > i => results'[j].time - results'[j - 1].time <= staleGap
      <4>1. CASE j = n + 1
        <5>1. n \in 1 .. n /\ j - 1 = n
          BY <2>2, <3>1, <4>1
        <5> QED
          BY <2>2, <2>5, <3>1, <4>1, <5>1
      <4>2. CASE j \in i .. n
        <5>1. j \in 1 .. n /\ (j > i => j - 1 \in 1 .. n)
          BY <2>2, <3>1, <4>2
        <5> QED
          BY <2>2, <3>1, <4>2, <5>1
      <4> QED
        BY <2>2, <3>1, <3>4, <4>1, <4>2
    <3> QED
      BY <2>2, <3>2, <3>3, <3>4
  <2> QED
    BY <2>3, <2>4, <2>5
<1>2. CASE handleResult("ok")
  BY <1>2, HandledSuccess DEF FailureStreak
<1>3. CASE UNCHANGED results /\ cam'.firstFail = cam.firstFail /\ cam'.lastFail = cam.lastFail
  BY <1>3 DEF FailureStreak
<1>4. CASE handleEvent
  <2>1. ASSUME NEW level \in {"low", "between", "high"}, cam' = applyStats(cam, level, now)
        PROVE  cam'.firstFail = cam.firstFail /\ cam'.lastFail = cam.lastFail
    BY <2>1, HandledStats
  <2> QED
    BY <1>1, <1>2, <1>3, <1>4, <2>1, Handled DEF handleStats
<1>5. CASE handleTick
  <2>1. cam' = [cam EXCEPT !.problem = cam'.problem] /\ cam \in CamState
    BY <1>5, Promote DEF handleTick, TypeOK
  <2> QED
    BY <1>3, <1>5, <2>1 DEF handleTick, CamState
<1> QED
  BY <1>3, <1>4, <1>5
     DEF Next, vars, ReportResult, ReportVideoStats, enqueue, Connect, onConnect,
         ConnectionLost, Deliver, TimePasses

\* dropHighStart and dropLowStart go on standing for the streaks of samples.
LEMMA StepLossStreaks == TypeOK /\ LossStreaks /\ [Next]_vars => LossStreaks'
<1> SUFFICES ASSUME TypeOK, LossStreaks, [Next]_vars PROVE LossStreaks'
  OBVIOUS
<1>1. ASSUME NEW level \in {"low", "between", "high"} \cap Levels,
             handleStats(level), cam' = applyStats(cam, level, now)
      PROVE  LossStreaks'
  <2>1. cam \in CamState /\ now \in Time \ {0}
    BY DEF TypeOK
  <2>2. /\ cam'.dropHighStart # 0 =>
             level = "high" /\ cam'.dropHighStart \in {now, cam.dropHighStart}
        /\ cam'.dropLowStart # 0 =>
             level = "low" /\ cam'.dropLowStart \in {now, cam.dropLowStart}
    BY <1>1, HandledStats
  <2>3. samples' = Append(samples, [time |-> now, value |-> level])
    BY <1>1 DEF handleStats
  <2>4. ASSUME cam'.dropHighStart # 0
        PROVE  \E i \in DOMAIN samples' :
                 /\ samples'[i].time = cam'.dropHighStart
                 /\ \A j \in i .. Len(samples') : samples'[j].value = "high"
    <3>1. samples \in Seq([time : Time, value : Levels]) /\ now \in Time /\ level \in Levels
      BY <1>1, <2>1 DEF TypeOK
    <3>2. cam.dropHighStart # 0 => \E i \in DOMAIN samples :
            samples[i].time = cam.dropHighStart /\ \A j \in i .. Len(samples) : samples[j].value = level
      BY <2>2, <2>4 DEF LossStreaks, StreakSince
    <3> QED
      BY <2>2, <2>3, <2>4, <3>1, <3>2, LongerStreak
  <2>5. ASSUME cam'.dropLowStart # 0
        PROVE  \E i \in DOMAIN samples' :
                 /\ samples'[i].time = cam'.dropLowStart
                 /\ \A j \in i .. Len(samples') : samples'[j].value = "low"
    <3>1. samples \in Seq([time : Time, value : Levels]) /\ now \in Time /\ level \in Levels
      BY <1>1, <2>1 DEF TypeOK
    <3>2. cam.dropLowStart # 0 => \E i \in DOMAIN samples :
            samples[i].time = cam.dropLowStart /\ \A j \in i .. Len(samples) : samples[j].value = level
      BY <2>2, <2>5 DEF LossStreaks, StreakSince
    <3> QED
      BY <2>2, <2>3, <2>5, <3>1, <3>2, LongerStreak
  <2> QED
    BY <2>4, <2>5 DEF LossStreaks, StreakSince
<1>2. CASE handleResult("ok")
  BY <1>2, HandledSuccess DEF LossStreaks, StreakSince
<1>3. CASE /\ UNCHANGED samples /\ cam'.dropHighStart = cam.dropHighStart
           /\ cam'.dropLowStart = cam.dropLowStart
  BY <1>3 DEF LossStreaks, StreakSince
<1>4. CASE handleEvent
  BY <1>1, <1>2, <1>3, <1>4, Handled, HandledFailure
<1>5. CASE handleTick
  <2>1. cam' = [cam EXCEPT !.problem = cam'.problem] /\ cam \in CamState
    BY <1>5, Promote DEF handleTick, TypeOK
  <2> QED
    BY <1>3, <1>5, <2>1 DEF handleTick, CamState
<1> QED
  BY <1>3, <1>4, <1>5
     DEF Next, vars, ReportResult, ReportVideoStats, enqueue, Connect, onConnect,
         ConnectionLost, Deliver, TimePasses

LEMMA OneLess == \A n \in Nat : n - 1 = 0 => n = 1
  OBVIOUS

\* The last element of a queue, when one is added and when the first is taken.
LEMMA LastQueued ==
  ASSUME NEW q \in Seq(BOOLEAN)
  PROVE  /\ \A v \in BOOLEAN : Append(q, v) # <<>> /\ Append(q, v)[Len(Append(q, v))] = v
         /\ q # <<>> =>
              IF Tail(q) = <<>> THEN Head(q) = q[Len(q)]
                               ELSE Tail(q)[Len(Tail(q))] = q[Len(q)]
<1>1. ASSUME NEW v \in BOOLEAN
      PROVE  Append(q, v) # <<>> /\ Append(q, v)[Len(Append(q, v))] = v
  <2>1. /\ Append(q, v) \in Seq(BOOLEAN) /\ Len(Append(q, v)) = Len(q) + 1
        /\ Append(q, v)[Len(q) + 1] = v
    BY AppendProperties
  <2>2. Len(q) \in Nat /\ Append(q, v) # <<>>
    BY <2>1, LenProperties, EmptySeq
  <2> QED
    BY <2>1, <2>2
<1>2. ASSUME q # <<>>
      PROVE  IF Tail(q) = <<>> THEN Head(q) = q[Len(q)]
                               ELSE Tail(q)[Len(Tail(q))] = q[Len(q)]
  <2>1. /\ Tail(q) \in Seq(BOOLEAN) /\ Len(Tail(q)) = Len(q) - 1
        /\ \A k \in 1 .. Len(Tail(q)) : Tail(q)[k] = q[k + 1]
    BY <1>2, HeadTailProperties
  <2>2. Len(q) \in Nat \ {0} /\ Head(q) = q[1]
    BY <1>2, EmptySeq, LenProperties
  <2>3. CASE Tail(q) = <<>>
    <3>1. Len(Tail(q)) = 0
      BY <2>1, <2>3, EmptySeq
    <3>2. Len(q) = 1
      BY <2>1, <2>2, <3>1, OneLess, Zenon
    <3> QED
      BY <2>2, <2>3, <3>2
  <2>4. CASE Tail(q) # <<>>
    <3>1. Len(Tail(q)) \in Nat \ {0}
      BY <2>1, <2>4, EmptySeq, LenProperties
    <3>2. Len(Tail(q)) \in 1 .. Len(Tail(q)) /\ Len(Tail(q)) + 1 = Len(q)
      BY <2>1, <2>2, <3>1
    <3> QED
      BY <2>1, <2>4, <3>2
  <2> QED
    BY <2>3, <2>4
<1> QED
  BY <1>1, <1>2

\* What is published is what changed, behind what is queued.
LEMMA StepSaidIsState == TypeOK /\ TypeOK' /\ SaidIsState /\ [Next]_vars => SaidIsState'
<1> SUFFICES ASSUME TypeOK, TypeOK', SaidIsState, [Next]_vars, conn' = "announced",
                    NEW f \in Topics
             PROVE  LastSaid(f)' = cam'[f]
  BY DEF SaidIsState
<1>0. /\ outbox[f] \in Seq(BOOLEAN) /\ cam[f] \in BOOLEAN /\ cam'[f] \in BOOLEAN
      /\ conn = "announced" => LastSaid(f) = cam[f]
  BY FlagIsBoolean DEF TypeOK, SaidIsState
<1>1. ASSUME PublishChanges(cam') PROVE LastSaid(f)' = cam'[f]
  <2>1. /\ outbox'[f] = IF cam'[f] # cam[f] THEN Append(outbox[f], cam'[f]) ELSE outbox[f]
        /\ conn' = conn /\ broker' = broker
    BY <1>1 DEF PublishChanges
  <2>2. CASE cam'[f] = cam[f]
    BY <1>0, <2>1, <2>2 DEF LastSaid
  <2>3. CASE cam'[f] # cam[f]
    <3>1. outbox'[f] = Append(outbox[f], cam'[f])
      BY <2>1, <2>3
    <3> QED
      BY <1>0, <3>1, LastQueued DEF LastSaid
  <2> QED
    BY <2>2, <2>3
<1>2. CASE handleEvent \/ handleTick
  BY <1>1, <1>2 DEF handleEvent, handleResult, handleStats, handleTick
<1>3. CASE onConnect
  <2>1. outbox'[f] = Append(outbox[f], cam[f]) /\ cam' = cam
    BY <1>3 DEF onConnect
  <2> QED
    BY <1>0, <2>1, LastQueued DEF LastSaid
<1>4. CASE Connect \/ ConnectionLost
  BY <1>4 DEF Connect, ConnectionLost
<1>5. ASSUME NEW g \in Topics, Deliver(g) PROVE LastSaid(f)' = cam'[f]
  <2>1. cam' = cam /\ conn' = conn
    BY <1>5 DEF Deliver
  <2>2. CASE f # g
    <3>1. outbox'[f] = outbox[f] /\ broker'[f] = broker[f]
      BY <1>5, <2>2 DEF Deliver, TypeOK
    <3> QED
      BY <1>0, <2>1, <3>1 DEF LastSaid
  <2>3. CASE f = g
    <3>1. /\ outbox[f] # <<>> /\ broker'[f] = Head(outbox[f])
          /\ outbox'[f] \in {outbox[f], Tail(outbox[f])}
      BY <1>5, <2>3 DEF Deliver, TypeOK
    <3>2. IF Tail(outbox[f]) = <<>>
            THEN Head(outbox[f]) = outbox[f][Len(outbox[f])]
            ELSE Tail(outbox[f])[Len(Tail(outbox[f]))] = outbox[f][Len(outbox[f])]
      BY <1>0, <3>1, LastQueued
    <3>3. LastSaid(f)' = LastSaid(f)
      BY <3>1, <3>2 DEF LastSaid
    <3> QED
      BY <1>0, <2>1, <3>3
  <2> QED
    BY <2>2, <2>3
<1>6. CASE UNCHANGED <<cam, mqttVars>>
  BY <1>0, <1>6 DEF LastSaid, mqttVars
<1> QED
  BY <1>2, <1>3, <1>4, <1>5, <1>6
     DEF Next, vars, ReportResult, ReportVideoStats, enqueue, TimePasses

\* The last result stays the last: reports are handled in the order they came.
LEMMA StepLastResult == TypeOK /\ LastResult /\ [Next]_vars => LastResult'
<1> SUFFICES ASSUME TypeOK, LastResult, [Next]_vars, ~overflowed' PROVE LastResult'
  BY DEF LastResult
<1>0. /\ events \in Seq(Report) /\ Len(events) \in Nat /\ DOMAIN events = 1 .. Len(events)
      /\ QueueCap \in Nat
  BY HealthAssumption, LenProperties DEF TypeOK
<1>1. ASSUME NEW e \in Report, enqueue(e)
      PROVE  /\ ~overflowed /\ Len(events') = Len(events) + 1 /\ UNCHANGED cam
             /\ DOMAIN events' = 1 .. (Len(events) + 1)
             /\ \A i \in 1 .. Len(events) : events'[i] = events[i]
             /\ events'[Len(events) + 1] = e
  <2>1. ~overflowed /\ UNCHANGED cam /\ events' = Append(events, e)
    <3>1. ~overflowed /\ ~(Len(events) >= QueueCap)
      BY <1>1, Zenon DEF enqueue
    <3>2. Len(events) < QueueCap
      BY <1>0, <3>1
    <3> QED
      BY <1>1, <3>1, <3>2 DEF enqueue
  <2>2. events' \in Seq(Report)
    BY <1>0, <2>1, AppendProperties
  <2>3. /\ Len(events') = Len(events) + 1 /\ events'[Len(events) + 1] = e
        /\ \A i \in 1 .. Len(events) : events'[i] = events[i]
    BY <1>0, <2>1, AppendProperties
  <2> QED
    BY <2>1, <2>2, <2>3, LenProperties
<1>2. ASSUME NEW result \in Results, ReportResult(result) PROVE LastResult'
  <2>1. PICK e : e = [kind |-> "result", value |-> result]
    OBVIOUS
  <2>2. /\ e \in Report /\ e.kind = "result" /\ e.value = result
        /\ enqueue(e) /\ lastReport' = result
    BY <1>2, <2>1 DEF Report, ReportResult
  <2>3. /\ Len(events) + 1 \in DOMAIN events' /\ events'[Len(events) + 1] = e
        /\ Len(events') = Len(events) + 1
    BY <1>0, <1>1, <2>2
  <2>4. \A j \in (Len(events) + 1 + 1) .. Len(events') : events'[j].kind = "stats"
    BY <1>0, <2>3
  <2> QED
    BY <2>2, <2>3, <2>4 DEF LastResult
<1>3. ASSUME NEW level \in Levels, ReportVideoStats(level) PROVE LastResult'
  <2>1. PICK e : e = [kind |-> "stats", value |-> level]
    OBVIOUS
  <2>2. /\ e \in Report /\ e.kind = "stats" /\ enqueue(e) /\ lastReport' = lastReport
    BY <1>3, <2>1 DEF Report, ReportVideoStats
  <2>3. /\ ~overflowed /\ Len(events') = Len(events) + 1 /\ UNCHANGED cam
        /\ DOMAIN events' = 1 .. (Len(events) + 1)
        /\ \A i \in 1 .. Len(events) : events'[i] = events[i]
        /\ events'[Len(events) + 1] = e
    BY <1>1, <2>2
  <2>4. ASSUME NEW k \in DOMAIN events,
               events[k].kind = "result" /\ events[k].value = lastReport,
               \A j \in (k + 1) .. Len(events) : events[j].kind = "stats"
        PROVE  LastResult'
    <3>1. k \in DOMAIN events' /\ events'[k] = events[k]
      BY <1>0, <2>3
    <3>2. \A j \in (k + 1) .. Len(events') : events'[j].kind = "stats"
      BY <1>0, <2>2, <2>3, <2>4
    <3> QED
      BY <2>2, <2>4, <3>1, <3>2 DEF LastResult
  <2>5. ASSUME \A j \in DOMAIN events : events[j].kind = "stats",
               lastReport = "ok" => ~cam.problem /\ cam.firstFail = 0
        PROVE  LastResult'
    <3>1. \A j \in DOMAIN events' : events'[j].kind = "stats"
      BY <1>0, <2>2, <2>3, <2>5
    <3> QED
      BY <2>2, <2>3, <2>5, <3>1 DEF LastResult
  <2> QED
    BY <2>3, <2>4, <2>5 DEF LastResult
<1>4. CASE handleEvent
  <2>1. /\ events # <<>> /\ events' = Tail(events) /\ ~overflowed /\ lastReport' = lastReport
    BY <1>4 DEF handleEvent
  <2>2. /\ Len(events') = Len(events) - 1 /\ events' \in Seq(Report)
        /\ \A i \in 1 .. Len(events') : events'[i] = events[i + 1]
        /\ Head(events) = events[1]
    BY <1>0, <2>1, HeadTailProperties
  <2>3. /\ DOMAIN events' = 1 .. Len(events') /\ 1 \in DOMAIN events
    BY <1>0, <2>1, <2>2, LenProperties, EmptySeq
  <2>4. ASSUME NEW k \in DOMAIN events, k # 1,
               events[k].kind = "result" /\ events[k].value = lastReport,
               \A j \in (k + 1) .. Len(events) : events[j].kind = "stats"
        PROVE  LastResult'
    <3>1. k - 1 \in DOMAIN events' /\ events'[k - 1] = events[k]
      BY <1>0, <2>2, <2>3, <2>4
    <3>2. \A j \in ((k - 1) + 1) .. Len(events') : events'[j].kind = "stats"
      <4>1. ASSUME NEW j \in ((k - 1) + 1) .. Len(events')
            PROVE  j \in 1 .. Len(events') /\ j + 1 \in (k + 1) .. Len(events)
        BY <1>0, <2>2, <2>4
      <4> QED
        BY <2>2, <2>4, <4>1
    <3> QED
      BY <2>1, <2>4, <3>1, <3>2 DEF LastResult
  <2>5. ASSUME \A j \in 2 .. Len(events) : events[j].kind = "stats"
        PROVE  \A j \in DOMAIN events' : events'[j].kind = "stats"
    <3>1. ASSUME NEW j \in 1 .. Len(events') PROVE j + 1 \in 2 .. Len(events)
      BY <1>0, <2>2
    <3> QED
      BY <2>2, <2>3, <2>5, <3>1
  <2>6. ASSUME events[1].kind = "result" /\ events[1].value = lastReport,
               \A j \in 2 .. Len(events) : events[j].kind = "stats"
        PROVE  LastResult'
    <3>1. lastReport = "ok" => handleResult("ok")
      BY <1>4, <2>2, <2>6 DEF handleEvent
    <3>2. lastReport = "ok" => ~cam'.problem /\ cam'.firstFail = 0
      BY <3>1, HandledSuccess
    <3> QED
      BY <2>1, <2>5, <2>6, <3>2 DEF LastResult
  <2>7. ASSUME \A j \in DOMAIN events : events[j].kind = "stats",
               lastReport = "ok" => ~cam.problem /\ cam.firstFail = 0
        PROVE  LastResult'
    <3>1. Head(events).kind = "stats"
      BY <2>2, <2>3, <2>7
    <3>2. PICK level \in {"low", "between", "high"} : cam' = applyStats(cam, level, now)
      BY <1>4, <3>1, Handled
    <3>3. cam'.problem = cam.problem /\ cam'.firstFail = cam.firstFail
      BY <3>2, HandledStats
    <3>4. \A j \in 2 .. Len(events) : events[j].kind = "stats"
      BY <1>0, <2>7
    <3> QED
      BY <2>1, <2>5, <2>7, <3>3, <3>4 DEF LastResult
  <2>8. \/ \E k \in DOMAIN events :
             /\ events[k].kind = "result" /\ events[k].value = lastReport
             /\ \A j \in (k + 1) .. Len(events) : events[j].kind = "stats"
        \/ /\ \A j \in DOMAIN events : events[j].kind = "stats"
           /\ lastReport = "ok" => ~cam.problem /\ cam.firstFail = 0
    BY <2>1 DEF LastResult
  <2> QED
    BY <2>4, <2>6, <2>7, <2>8
<1>5. CASE handleTick
  <2>1. ~(cam.problem = FALSE /\ cam.firstFail = 0)
    BY <1>5 DEF handleTick, promote
  <2> QED
    BY <1>5, <2>1 DEF handleTick, LastResult
<1>6. CASE UNCHANGED <<events, cam, lastReport, overflowed>>
  BY <1>6 DEF LastResult
<1> QED
  BY <1>2, <1>3, <1>4, <1>5, <1>6
     DEF Next, vars, Connect, onConnect, ConnectionLost, Deliver, TimePasses

-----------------------------------------------------------------------------
\* The invariant holds at first.
LEMMA InitIInv == Init => IInv
<1> SUFFICES ASSUME Init PROVE IInv
  OBVIOUS
<1>1. TypeOK
  <2>1. cam \in CamState
    BY ZeroTime DEF Init, CamState
  <2>2. now \in Time \ {0} /\ reports \in 0 .. MaxReports /\ Len(events) <= QueueCap
    BY HealthAssumption, EmptySeq DEF Init, Time
  <2>3. /\ events \in Seq(Report) /\ results \in Seq([time : Time, value : Results])
        /\ samples \in Seq([time : Time, value : Levels])
    BY EmptySeq DEF Init
  <2>4. outbox \in [Topics -> Seq(BOOLEAN)] /\ broker \in [Topics -> BOOLEAN]
    BY EmptySeq DEF Init
  <2> QED
    BY <2>1, <2>2, <2>3, <2>4 DEF Init, TypeOK
<1>2. FailureStreak /\ LossStreaks /\ SaidIsState
  BY DEF Init, FailureStreak, LossStreaks, StreakSince, SaidIsState
<1>3. LastResult
  <2>1. DOMAIN events = {}
    BY EmptySeq, LenProperties DEF Init
  <2> QED
    BY <2>1 DEF Init, LastResult
<1> QED
  BY <1>1, <1>2, <1>3 DEF IInv

\* The parts of IInv are preserved together.
LEMMA SpecIInv == Spec => []IInv
<1>1. IInv /\ [Next]_vars => IInv'
  BY StepTypeOK, StepFailureStreak, StepLossStreaks, StepLastResult, StepSaidIsState DEF IInv
<1> QED
  BY <1>1, InitIInv, PTL DEF Spec

\* The queue, the camera's state and what is retained have their types, and the
\* queue never exceeds its capacity (health.go 250-253).
THEOREM HealthTypeOK == Spec => []TypeOK
  BY SpecIInv, PTL DEF IInv

\* Once onConnect has run and the queue of a topic is empty, the broker retains the
\* reporter's state, whatever was queued, lost or sent twice before (health.go
\* 286-338, 470-487).
THEOREM HealthBrokerInSync == Spec => []BrokerInSync
<1>1. IInv => BrokerInSync
  BY DEF IInv, SaidIsState, LastSaid, BrokerInSync
<1> QED
  BY <1>1, SpecIInv, PTL

\* For every queue that has not overflowed: when it is drained and the last start
\* succeeded, no problem is reported (health.go 250-253, 360-371).
THEOREM HealthStartClearsProblem == Spec => []StartClearsProblem
<1>1. IInv => StartClearsProblem
  <2> SUFFICES ASSUME IInv, lastReport = "ok", events = <<>>, ~overflowed PROVE ~cam.problem
    BY DEF StartClearsProblem
  <2>1. DOMAIN events = {}
    BY EmptySeq, LenProperties
  <2> QED
    BY <2>1 DEF IInv, LastResult
<1> QED
  BY <1>1, SpecIInv, PTL

\* A flag is raised or cleared only by a condition that has lasted its window, or
\* by a new session (health.go 340-353, 373-437).
THEOREM HealthFlagsAreSustained == Spec => FlagsAreSustained
<1> DEFINE Step ==
     /\ ~cam.problem /\ cam'.problem => SustainedFailure
     /\ ~cam.degraded /\ cam'.degraded => SustainedLoss("high", DropWindow)
     /\ cam.degraded /\ ~cam'.degraded
          => samples' = <<>> \/ SustainedLoss("low", DropClearWindow)
<1>1. IInv /\ IInv' /\ [Next]_vars => [Step]_vars
  <2> SUFFICES ASSUME IInv, IInv', [Next]_vars PROVE Step
    OBVIOUS
  <2>1. /\ ~cam.problem /\ cam'.problem =>
              cam'.firstFail # 0 /\ now - cam'.firstFail >= WedgeAfter
        /\ ~cam.degraded /\ cam'.degraded =>
              cam'.dropHighStart # 0 /\ now - cam'.dropHighStart >= DropWindow
        /\ cam.degraded /\ ~cam'.degraded =>
              \/ samples' = <<>>
              \/ cam'.dropLowStart # 0 /\ now - cam'.dropLowStart >= DropClearWindow
    BY FlagSteps DEF IInv
  <2>2. cam'.firstFail # 0 =>
          \E i \in DOMAIN results' :
            /\ results'[i].time = cam'.firstFail
            /\ \A j \in i .. Len(results') :
                 /\ results'[j].value = "failed"
                 /\ j > i => results'[j].time - results'[j - 1].time <= staleGap
    BY DEF IInv, FailureStreak
  <2>3. /\ cam'.dropHighStart # 0 =>
             \E i \in DOMAIN samples' :
               /\ samples'[i].time = cam'.dropHighStart
               /\ \A j \in i .. Len(samples') : samples'[j].value = "high"
        /\ cam'.dropLowStart # 0 =>
             \E i \in DOMAIN samples' :
               /\ samples'[i].time = cam'.dropLowStart
               /\ \A j \in i .. Len(samples') : samples'[j].value = "low"
    BY DEF IInv, LossStreaks, StreakSince
  <2>4. ~cam.problem /\ cam'.problem => SustainedFailure
    BY <2>1, <2>2, Zenon DEF SustainedFailure
  <2>5. ~cam.degraded /\ cam'.degraded => SustainedLoss("high", DropWindow)
    BY <2>1, <2>3, Zenon DEF SustainedLoss
  <2>6. cam.degraded /\ ~cam'.degraded
          => samples' = <<>> \/ SustainedLoss("low", DropClearWindow)
    BY <2>1, <2>3, Zenon DEF SustainedLoss
  <2> QED
    BY <2>4, <2>5, <2>6
<1>2. Spec => [][Step]_vars
  BY <1>1, SpecIInv, PTL DEF Spec
<1> QED
  BY <1>2 DEF FlagsAreSustained

=============================================================================
