--------------------------- MODULE PullPointProofs ---------------------------
(***************************************************************************)
(* For any number of subscriptions, pulling clients and notifying          *)
(* goroutines: a motion event is neither lost, doubled nor reordered, and  *)
(* no wake-up is lost, although PushEvent signals outside the lock.        *)
(***************************************************************************)
EXTENDS PullPoint, SequenceTheorems, FiniteSetTheorems, TLAPS

\* The type invariant says in particular that a client which is pulling has a
\* subscription and that a notifier under way has an event; with that each of
\* the other two is inductive.
IInv == TypeOK /\ EachEventOnce /\ NoLostWakeup

-----------------------------------------------------------------------------
\* Appending at the end of a concatenation (PushEvent under the queue's lock).
LEMMA AppendAfter ==
  ASSUME NEW S, NEW a \in Seq(S), NEW b \in Seq(S), NEW e \in S
  PROVE  a \o Append(b, e) = Append(a \o b, e)
<1>1. Append(b, e) = b \o <<e>> /\ a \o b \in Seq(S) /\ <<e>> \in Seq(S)
  BY AppendIsConcat, ConcatProperties
<1>2. (a \o b) \o <<e>> = a \o (b \o <<e>>)
  BY <1>1, ConcatAssociative
<1> QED
  BY <1>1, <1>2, AppendIsConcat

\* The table never outgrows maxSubscriptions (pullpoint.go Create).
LEMMA CreateKeepsBound ==
  ASSUME NEW s, TypeOK, Create(s)
  PROVE  IsFiniteSet(table') /\ Cardinality(table') <= maxSubscriptions
<1> DEFINE kept == IF Cardinality(table) >= maxSubscriptions THEN table \ expired ELSE table
<1>1. IsFiniteSet(kept) /\ kept \subseteq table
  BY FS_Subset DEF TypeOK
<1>2. /\ Cardinality(kept) \in Nat
      /\ Cardinality(kept \cup {s}) \in {Cardinality(kept), Cardinality(kept) + 1}
      /\ IsFiniteSet(kept \cup {s})
  <2> HIDE DEF kept
  <2>1. Cardinality(kept) \in Nat
    BY <1>1, FS_CardinalityType
  <2>2. /\ IsFiniteSet(kept \cup {s})
        /\ Cardinality(kept \cup {s})
             = IF s \in kept THEN Cardinality(kept) ELSE Cardinality(kept) + 1
    BY <1>1, FS_AddElement
  <2> QED
    BY <2>1, <2>2
<1>3. Cardinality(kept) <= maxSubscriptions
  BY <1>1, FS_Subset, FS_CardinalityType, PullPointAssumption DEF TypeOK
<1>4. table' = IF Cardinality(kept) >= maxSubscriptions THEN kept ELSE kept \cup {s}
  BY DEF Create
<1> HIDE DEF kept
<1> QED
  BY <1>1, <1>2, <1>3, <1>4, PullPointAssumption

\* A smaller table is still within the bound.
LEMMA SmallerTable ==
  ASSUME NEW T, TypeOK, T \subseteq table
  PROVE  IsFiniteSet(T) /\ Cardinality(T) <= maxSubscriptions
<1>1. /\ IsFiniteSet(T) /\ Cardinality(T) <= Cardinality(table)
      /\ Cardinality(T) \in Nat /\ Cardinality(table) \in Nat
  BY FS_Subset, FS_CardinalityType DEF TypeOK
<1> QED
  BY <1>1, PullPointAssumption DEF TypeOK

-----------------------------------------------------------------------------
\* A service without subscriptions.
LEMMA InitIInv == Init => IInv
<1> SUFFICES ASSUME Init PROVE IInv
  OBVIOUS
<1>1. TypeOK
  BY FS_EmptySet, PullPointAssumption DEF Init, TypeOK, Fanning
<1>2. EachEventOnce /\ NoLostWakeup
  BY DEF Init, EachEventOnce, NoLostWakeup
<1> QED
  BY <1>1, <1>2 DEF IInv

\* Every variable keeps its type.
LEMMA StepTypeOK == TypeOK /\ [Next]_vars => TypeOK'
<1> SUFFICES ASSUME TypeOK, [Next]_vars PROVE TypeOK'
  OBVIOUS
<1> USE PullPointAssumption
<1>1. ASSUME NEW s \in Subs, Create(s) PROVE TypeOK'
  <2>1. IsFiniteSet(table') /\ Cardinality(table') <= maxSubscriptions
    BY <1>1, CreateKeepsBound
  <2>2. table' \subseteq Subs \ fresh' /\ expired' \subseteq table'
    BY <1>1 DEF Create, TypeOK
  <2> QED
    BY <1>1, <2>1, <2>2 DEF Create, TypeOK, queueVars, pullVars, fanVars, Fanning
<1>2. ASSUME NEW s \in Subs, Remove(s) PROVE TypeOK'
  <2>1. IsFiniteSet(table') /\ Cardinality(table') <= maxSubscriptions
    BY <1>2, SmallerTable DEF Remove
  <2> QED
    BY <1>2, <2>1 DEF Remove, TypeOK, queueVars, pullVars, fanVars, Fanning
<1>3. CASE CleanExpired
  <2>1. IsFiniteSet(table') /\ Cardinality(table') <= maxSubscriptions
    BY <1>3, SmallerTable DEF CleanExpired
  <2> QED
    BY <1>3, <2>1 DEF CleanExpired, TypeOK, queueVars, pullVars, fanVars, Fanning
<1>4. ASSUME NEW s \in Subs, Expire(s) \/ Renew(s) PROVE TypeOK'
  BY <1>4 DEF Expire, Renew, TypeOK, queueVars, pullVars, fanVars, Fanning
<1>5. ASSUME NEW n \in Notifiers, NotifyMotion(n) PROVE TypeOK'
  BY <1>5 DEF NotifyMotion, TypeOK, subVars, queueVars, pullVars, Fanning
<1>6. ASSUME NEW n \in Notifiers, NEW s \in Subs, FanOut(n, s) PROVE TypeOK'
  <2>1. evt[n] \in 1 .. MaxEvents
    <3>1. Fanning(n)
      BY <1>6 DEF FanOut, Fanning
    <3> QED
      BY <3>1 DEF TypeOK
  <2>2. CASE s \in expired
    BY <1>6, <2>2 DEF FanOut, TypeOK, subVars, pullVars, Fanning
  <2>3. CASE s \notin expired
    <3>1. events' \in [Subs -> Seq(1 .. MaxEvents)] /\ pushed' \in [Subs -> Seq(1 .. MaxEvents)]
      <4>1. Append(events[s], evt[n]) \in Seq(1 .. MaxEvents)
        BY <2>1, AppendProperties DEF TypeOK
      <4>2. Append(pushed[s], evt[n]) \in Seq(1 .. MaxEvents)
        BY <2>1, AppendProperties DEF TypeOK
      <4>3. /\ events' = [events EXCEPT ![s] = Append(events[s], evt[n])]
            /\ pushed' = [pushed EXCEPT ![s] = Append(pushed[s], evt[n])]
        BY <1>6, <2>3 DEF FanOut, Push
      <4>4. events \in [Subs -> Seq(1 .. MaxEvents)] /\ pushed \in [Subs -> Seq(1 .. MaxEvents)]
        BY DEF TypeOK
      <4>5. events' \in [Subs -> Seq(1 .. MaxEvents)]
        BY <4>1, <4>3, <4>4, Zenon
      <4>6. pushed' \in [Subs -> Seq(1 .. MaxEvents)]
        BY <4>2, <4>3, <4>4, Zenon
      <4> QED
        BY <4>5, <4>6
    <3> QED
      BY <1>6, <2>1, <2>3, <3>1 DEF FanOut, TypeOK, subVars, pullVars, Fanning
  <2> QED
    BY <2>2, <2>3
<1>7. ASSUME NEW n \in Notifiers, Signal(n) PROVE TypeOK'
  BY <1>7 DEF Signal, TypeOK, subVars, pullVars, Fanning
<1>8. ASSUME NEW p \in Pullers, NEW s \in Subs, Get(p, s) PROVE TypeOK'
  BY <1>8 DEF Get, TypeOK, subVars, queueVars, fanVars, Fanning
<1>9. ASSUME NEW p \in Pullers, sub[p] \in Subs, Deliver(p),
             UNCHANGED <<subVars, notify, pushed, fanVars>>
      PROVE  TypeOK'
  <2>1. events' \in [Subs -> Seq(1 .. MaxEvents)] /\ pulled' \in [Subs -> Seq(1 .. MaxEvents)]
    BY <1>9 DEF Deliver, TypeOK
  <2> QED
    BY <1>9, <2>1 DEF Deliver, TypeOK, subVars, fanVars, Fanning
<1>10. ASSUME NEW p \in Pullers, Check(p) PROVE TypeOK'
  <2>1. CASE events[sub[p]] # <<>>
    BY <1>9, <1>10, <2>1 DEF Check, TypeOK
  <2>2. CASE events[sub[p]] = <<>>
    BY <1>10, <2>2 DEF Check, TypeOK, subVars, fanVars, Fanning
  <2> QED
    BY <2>1, <2>2
<1>11. ASSUME NEW p \in Pullers, Wake(p) PROVE TypeOK'
  BY <1>11 DEF Wake, TypeOK, subVars, fanVars, Fanning
<1>12. ASSUME NEW p \in Pullers, Timeout(p) PROVE TypeOK'
  BY <1>12 DEF Timeout, TypeOK, subVars, queueVars, fanVars, Fanning
<1>13. ASSUME NEW p \in Pullers, Take(p) PROVE TypeOK'
  BY <1>9, <1>13 DEF Take, TypeOK
<1>14. CASE UNCHANGED vars
  BY <1>14 DEF vars, TypeOK, subVars, queueVars, pullVars, fanVars, Fanning
<1> QED
  BY <1>1, <1>2, <1>3, <1>4, <1>5, <1>6, <1>7, <1>8, <1>10, <1>11, <1>12, <1>13, <1>14
     DEF Next, PullMessages

\* What is pushed is pulled or still queued, in the same order.
LEMMA StepEachEventOnce == TypeOK /\ EachEventOnce /\ [Next]_vars => EachEventOnce'
<1> SUFFICES ASSUME TypeOK, EachEventOnce, [Next]_vars PROVE EachEventOnce'
  OBVIOUS
<1>1. ASSUME NEW n \in Notifiers, NEW s \in Subs, FanOut(n, s), s \notin expired
      PROVE  EachEventOnce'
  <2>1. evt[n] \in 1 .. MaxEvents
    <3>1. Fanning(n)
      BY <1>1 DEF FanOut, Fanning
    <3> QED
      BY <3>1, PullPointAssumption DEF TypeOK
  <2>2. pulled[s] \o Append(events[s], evt[n]) = Append(pulled[s] \o events[s], evt[n])
    BY <2>1, AppendAfter DEF TypeOK
  <2>3. /\ events' = [events EXCEPT ![s] = Append(events[s], evt[n])]
        /\ pushed' = [pushed EXCEPT ![s] = Append(pushed[s], evt[n])]
        /\ pulled' = pulled
    BY <1>1 DEF FanOut, Push
  <2>4. DOMAIN events = Subs /\ DOMAIN pushed = Subs
    BY DEF TypeOK
  <2>5. events'[s] = Append(events[s], evt[n]) /\ pushed'[s] = Append(pushed[s], evt[n])
    BY <2>3, <2>4
  <2>6. pulled'[s] \o events'[s] = pushed'[s]
    BY <2>2, <2>3, <2>5, Zenon DEF EachEventOnce
  <2>7. \A r \in Subs \ {s} : events'[r] = events[r] /\ pushed'[r] = pushed[r]
    BY <2>3, <2>4
  <2>8. \A r \in Subs \ {s} : pulled'[r] \o events'[r] = pushed'[r]
    BY <2>3, <2>7 DEF EachEventOnce
  <2> QED
    BY <2>6, <2>8 DEF EachEventOnce
<1>2. ASSUME NEW p \in Pullers, sub[p] \in Subs, Deliver(p), UNCHANGED pushed
      PROVE  EachEventOnce'
  <2> DEFINE s == sub[p]
  <2>1. (pulled[s] \o events[s]) \o <<>> = pulled[s] \o events[s]
    <3>1. pulled[s] \in Seq(1 .. MaxEvents) /\ events[s] \in Seq(1 .. MaxEvents)
      BY <1>2 DEF TypeOK
    <3>2. pulled[s] \o events[s] \in Seq(1 .. MaxEvents)
      BY <3>1, ConcatProperties
    <3> QED
      BY <3>2, ConcatEmptySeq
  <2>2. pulled'[s] = pulled[s] \o events[s] /\ events'[s] = <<>>
    BY <1>2 DEF Deliver, TypeOK
  <2>3. pulled'[s] \o events'[s] = pushed'[s]
    BY <1>2, <2>1, <2>2 DEF EachEventOnce
  <2>4. \A r \in Subs \ {s} : pulled'[r] = pulled[r] /\ events'[r] = events[r]
    BY <1>2 DEF Deliver, TypeOK
  <2>5. \A r \in Subs \ {s} : pulled'[r] \o events'[r] = pushed'[r]
    BY <1>2, <2>4 DEF EachEventOnce
  <2> QED
    BY <2>3, <2>5 DEF EachEventOnce
<1>3. ASSUME NEW p \in Pullers, Check(p) \/ Take(p) PROVE EachEventOnce'
  <2>1. pc[p] # "idle" /\ sub[p] \in Subs
    BY <1>3 DEF Check, Take, TypeOK
  <2>2. CASE Deliver(p) /\ UNCHANGED pushed
    BY <1>2, <2>1, <2>2
  <2>3. CASE UNCHANGED <<events, pushed, pulled>>
    BY <2>3 DEF EachEventOnce
  <2> QED
    BY <1>3, <2>2, <2>3 DEF Check, Take
<1>4. ASSUME UNCHANGED <<events, pushed, pulled>> PROVE EachEventOnce'
  BY <1>4 DEF EachEventOnce
<1> QED
  BY <1>1, <1>3, <1>4
     DEF Next, PullMessages, vars, queueVars, CleanExpired, Create, Remove, Expire, Renew,
         NotifyMotion, Signal, FanOut, Wake, Timeout, Get

\* Whoever clears the signal takes the events, and whoever adds some signals.
LEMMA StepNoLostWakeup == TypeOK /\ NoLostWakeup /\ [Next]_vars => NoLostWakeup'
<1> DEFINE Promised(s) ==
             \/ notify[s]
             \/ \E n \in Notifiers : signal[n] = s
             \/ \E q \in Pullers : pc[q] = "take" /\ sub[q] = s
<1> SUFFICES ASSUME TypeOK, NoLostWakeup, [Next]_vars,
                    NEW p \in Pullers, pc'[p] = "wait", events'[sub'[p]] # <<>>
             PROVE  Promised(sub[p])' /\ sub'[p] = sub[p]
  BY DEF NoLostWakeup
<1> USE PullPointAssumption
<1>1. pc[p] = "wait" /\ events[sub[p]] # <<>> => Promised(sub[p])
  BY Zenon DEF NoLostWakeup
<1> USE DEF TypeOK
<1>2. ASSUME NEW n \in Notifiers, NEW s \in Subs, FanOut(n, s)
      PROVE  Promised(sub[p])' /\ sub'[p] = sub[p]
  <2>1. UNCHANGED <<notify, pc, sub>> /\ sub[p] \in Subs
    BY <1>2 DEF FanOut, pullVars
  <2>2. CASE s \notin expired /\ sub[p] = s
    BY <1>2, <2>1, <2>2 DEF FanOut
  <2>3. CASE s \in expired \/ sub[p] # s
    <3>1. events'[sub[p]] = events[sub[p]]
      BY <1>2, <2>1, <2>3 DEF FanOut, Push
    <3>2. \A m \in Notifiers : signal[m] # NoSub => signal'[m] = signal[m]
      BY <1>2 DEF FanOut
    <3> QED
      BY <1>1, <2>1, <3>1, <3>2
  <2> QED
    BY <2>2, <2>3
<1>3. ASSUME NEW n \in Notifiers, Signal(n)
      PROVE  Promised(sub[p])' /\ sub'[p] = sub[p]
  BY <1>1, <1>3 DEF Signal, pullVars
<1>4. ASSUME NEW q \in Pullers, NEW s \in Subs, Get(q, s)
      PROVE  Promised(sub[p])' /\ sub'[p] = sub[p]
  BY <1>1, <1>4 DEF Get, queueVars, fanVars
<1>5. ASSUME NEW q \in Pullers, Deliver(q), pc[q] \in {"check", "take"},
             UNCHANGED <<notify, signal>>
      PROVE  Promised(sub[p])' /\ sub'[p] = sub[p]
  <2>1. /\ p # q /\ sub'[p] = sub[p] /\ pc[p] = "wait" /\ sub[p] \in Subs /\ sub[q] \in Subs
        /\ \A r \in Pullers \ {q} : pc'[r] = pc[r] /\ sub'[r] = sub[r]
    BY <1>5 DEF Deliver
  <2>2. sub[p] # sub[q]
    BY <1>5, <2>1 DEF Deliver
  <2>3. events[sub[p]] # <<>>
    BY <1>5, <2>1, <2>2 DEF Deliver
  <2> QED
    BY <1>1, <1>5, <2>1, <2>2, <2>3
<1>6. ASSUME NEW q \in Pullers, Check(q)
      PROVE  Promised(sub[p])' /\ sub'[p] = sub[p]
  <2>1. CASE events[sub[q]] # <<>>
    BY <1>5, <1>6, <2>1 DEF Check, fanVars
  <2>2. CASE events[sub[q]] = <<>>
    BY <1>1, <1>6, <2>2 DEF Check, fanVars
  <2> QED
    BY <2>1, <2>2
<1>7. ASSUME NEW q \in Pullers, Wake(q)
      PROVE  Promised(sub[p])' /\ sub'[p] = sub[p]
  BY <1>1, <1>7 DEF Wake, fanVars
<1>8. ASSUME NEW q \in Pullers, Timeout(q)
      PROVE  Promised(sub[p])' /\ sub'[p] = sub[p]
  BY <1>1, <1>8 DEF Timeout, queueVars, fanVars
<1>9. ASSUME NEW q \in Pullers, Take(q)
      PROVE  Promised(sub[p])' /\ sub'[p] = sub[p]
  BY <1>5, <1>9 DEF Take, fanVars
<1>10. ASSUME UNCHANGED <<events, notify, pullVars, signal>>
       PROVE  Promised(sub[p])' /\ sub'[p] = sub[p]
  BY <1>1, <1>10 DEF pullVars
<1> HIDE DEF Promised, TypeOK
<1>11. \/ CleanExpired
       \/ \E s \in Subs : Create(s) \/ Remove(s) \/ Expire(s) \/ Renew(s)
       \/ \E n \in Notifiers : NotifyMotion(n)
       \/ UNCHANGED vars
       => UNCHANGED <<events, notify, pullVars, signal>>
  BY DEF vars, queueVars, fanVars, CleanExpired, Create, Remove, Expire, Renew, NotifyMotion
<1> QED
  BY <1>2, <1>3, <1>4, <1>6, <1>7, <1>8, <1>9, <1>10, <1>11, Zenon DEF Next, PullMessages

\* The inductive invariant holds in every behaviour.
LEMMA SpecIInv == Spec => []IInv
<1>1. IInv /\ [Next]_vars => IInv'
  BY StepTypeOK, StepEachEventOnce, StepNoLostWakeup DEF IInv
<1> QED
  BY InitIInv, <1>1, PTL DEF Spec

\* The table of subscriptions stays within maxSubscriptions, and the variables
\* keep their types (pullpoint.go 18-28, 95-125).
THEOREM PullPointTypeOK == Spec => []TypeOK
  BY SpecIInv, PTL DEF IInv

\* Every event pushed to a subscription is returned once and in order, however
\* many clients pull it and goroutines notify (pullpoint.go 36-38, 52-58, 70-73).
THEOREM PullPointEachEventOnce == Spec => []EachEventOnce
  BY SpecIInv, PTL DEF IInv

\* A client never sleeps on queued events without a signal on its way, although
\* the one-slot channel drops signals and they are given outside the lock
\* (pullpoint.go 36-44, 50-68).
THEOREM PullPointNoLostWakeup == Spec => []NoLostWakeup
  BY SpecIInv, PTL DEF IInv

=============================================================================
