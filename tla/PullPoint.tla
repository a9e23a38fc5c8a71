------------------------------ MODULE PullPoint ------------------------------
(***************************************************************************)
(* ONVIF PullPoint subscriptions (internal/onvif/pullpoint.go, and the     *)
(* handlers of server.go that call it): a table of subscriptions, each     *)
(* with a queue of motion events and a one-slot notify channel, the        *)
(* fan-out of an event to all of them, and long-polling clients.           *)
(*                                                                         *)
(* FanOut holds the table's lock for reading, Create, Remove and           *)
(* CleanExpired for writing.  The queue of a subscription has its own      *)
(* lock, and PushEvent signals after it released it.  Motion is notified   *)
(* from two goroutines, the HAP event reader and the poll loop.  An event  *)
(* is its number; an ID (a fresh UUID in the code) is used once.           *)
(***************************************************************************)
EXTENDS Integers, Sequences, FiniteSets

CONSTANTS
  Subs,                      \* subscription IDs
  NoSub,
  Pullers,                   \* HTTP handlers that run PullMessages
  Notifiers,                 \* goroutines that call NotifyMotion
  maxSubscriptions,          \* 64 in the code
  MaxEvents                  \* bound on the number of motion events

ASSUME PullPointAssumption ==
  /\ NoSub \notin Subs
  /\ maxSubscriptions \in Nat \ {0} /\ MaxEvents \in Nat

VARIABLES
  fresh,                     \* IDs not used yet
  table,                     \* m.subscriptions
  expired,                   \* those in it past their termination time
  events, notify,            \* of each subscription
  pc, sub,                   \* of each puller: step and subscription
  evt, rest, signal,         \* of each notifier: event, subscriptions to visit,
                             \* and the one whose notify it is about to signal
  motion,                    \* number of events so far
  pushed, pulled             \* what went into and came out of each queue

subVars == <<fresh, table, expired>>
queueVars == <<events, notify, pushed, pulled>>
pullVars == <<pc, sub>>
fanVars == <<evt, rest, signal, motion>>
vars == <<subVars, queueVars, pullVars, fanVars>>

Init ==
  /\ fresh = Subs /\ table = {} /\ expired = {}
  /\ events = [s \in Subs |-> <<>>] /\ notify = [s \in Subs |-> FALSE]
  /\ pushed = [s \in Subs |-> <<>>] /\ pulled = [s \in Subs |-> <<>>]
  /\ pc = [p \in Pullers |-> "idle"]
  /\ sub = [p \in Pullers |-> NoSub]
  /\ evt = [n \in Notifiers |-> 0]
  /\ rest = [n \in Notifiers |-> {}]
  /\ signal = [n \in Notifiers |-> NoSub]
  /\ motion = 0

-----------------------------------------------------------------------------
(***************************************************************************)
(* The table.                                                              *)
(***************************************************************************)
Fanning(n) == rest[n] # {} \/ signal[n] # NoSub
WriteLock == \A n \in Notifiers : ~Fanning(n)

\* CreatePullPointSubscription: a full table is rid of its expired entries
\* first; if it is still full the request is refused.
Create(s) ==
  LET kept == IF Cardinality(table) >= maxSubscriptions THEN table \ expired ELSE table
  IN  /\ WriteLock /\ s \in fresh
      /\ fresh' = fresh \ {s}
      /\ table' = IF Cardinality(kept) >= maxSubscriptions THEN kept ELSE kept \cup {s}
      /\ expired' = expired \cap kept
      /\ UNCHANGED <<queueVars, pullVars, fanVars>>

\* Unsubscribe.
Remove(s) ==
  /\ WriteLock /\ s \in table
  /\ table' = table \ {s} /\ expired' = expired \ {s}
  /\ UNCHANGED <<fresh, queueVars, pullVars, fanVars>>

\* The cleanup goroutine, every 60 s.
CleanExpired ==
  /\ WriteLock /\ expired # {}
  /\ table' = table \ expired /\ expired' = {}
  /\ UNCHANGED <<fresh, queueVars, pullVars, fanVars>>

\* Time passes the termination time of a subscription; Renew puts it off.
Expire(s) ==
  /\ s \in table \ expired
  /\ expired' = expired \cup {s}
  /\ UNCHANGED <<fresh, table, queueVars, pullVars, fanVars>>

Renew(s) ==
  /\ s \in expired
  /\ expired' = expired \ {s}
  /\ UNCHANGED <<fresh, table, queueVars, pullVars, fanVars>>

-----------------------------------------------------------------------------
(***************************************************************************)
(* NotifyMotion: FanOut visits the subscriptions in any order.             *)
(***************************************************************************)
NotifyMotion(n) ==
  /\ ~Fanning(n) /\ motion < MaxEvents
  /\ table # {}
  /\ motion' = motion + 1
  /\ evt' = [evt EXCEPT ![n] = motion + 1]
  /\ rest' = [rest EXCEPT ![n] = table]
  /\ UNCHANGED <<subVars, queueVars, pullVars, signal>>

Push(n, s) ==
  /\ events' = [events EXCEPT ![s] = Append(@, evt[n])]
  /\ pushed' = [pushed EXCEPT ![s] = Append(@, evt[n])]

\* FanOut goes on to s and, unless it has expired, appends to its queue.
FanOut(n, s) ==
  /\ signal[n] = NoSub /\ s \in rest[n]
  /\ rest' = [rest EXCEPT ![n] = @ \ {s}]
  /\ IF s \in expired
       THEN UNCHANGED <<signal, events, pushed>>
       ELSE Push(n, s) /\ signal' = [signal EXCEPT ![n] = s]
  /\ UNCHANGED <<subVars, notify, pulled, pullVars, evt, motion>>

\* The end of PushEvent: the signal, lost when the slot is taken.  A mutated
\* form that gives no signal when other events were queued already.
SignalIfAlone(n) ==
  /\ signal[n] # NoSub
  /\ notify' = [notify EXCEPT ![signal[n]] = @ \/ Len(events[signal[n]]) = 1]
  /\ signal' = [signal EXCEPT ![n] = NoSub]
  /\ UNCHANGED <<subVars, events, pushed, pulled, pullVars, evt, rest, motion>>

Signal(n) ==
  /\ signal[n] # NoSub
  /\ notify' = [notify EXCEPT ![signal[n]] = TRUE]
  /\ signal' = [signal EXCEPT ![n] = NoSub]
  /\ UNCHANGED <<subVars, events, pushed, pulled, pullVars, evt, rest, motion>>

-----------------------------------------------------------------------------
(***************************************************************************)
(* PullMessages, on a subscription that Get found in the table.            *)
(***************************************************************************)

\* The queued events are returned and the queue is emptied.  A mutated form
\* that does not empty it.
DeliverAgain(p) ==
  /\ pulled' = [pulled EXCEPT ![sub[p]] = @ \o events[sub[p]]]
  /\ pc' = [pc EXCEPT ![p] = "idle"] /\ sub' = [sub EXCEPT ![p] = NoSub]
  /\ UNCHANGED events

Deliver(p) ==
  /\ pulled' = [pulled EXCEPT ![sub[p]] = @ \o events[sub[p]]]
  /\ events' = [events EXCEPT ![sub[p]] = <<>>]
  /\ pc' = [pc EXCEPT ![p] = "idle"] /\ sub' = [sub EXCEPT ![p] = NoSub]

Get(p, s) ==
  /\ pc[p] = "idle" /\ s \in table
  /\ sub' = [sub EXCEPT ![p] = s]
  /\ pc' = [pc EXCEPT ![p] = "check"]
  /\ UNCHANGED <<subVars, queueVars, fanVars>>

\* The check for existing events; without any, the long poll begins.
Check(p) ==
  /\ pc[p] = "check"
  /\ IF events[sub[p]] # <<>>
       THEN Deliver(p)
       ELSE pc' = [pc EXCEPT ![p] = "wait"] /\ UNCHANGED <<events, pulled, sub>>
  /\ UNCHANGED <<subVars, notify, pushed, fanVars>>

Wake(p) ==
  /\ pc[p] = "wait" /\ notify[sub[p]]
  /\ notify' = [notify EXCEPT ![sub[p]] = FALSE]
  /\ pc' = [pc EXCEPT ![p] = "take"]
  /\ UNCHANGED <<subVars, events, pushed, pulled, sub, fanVars>>

Timeout(p) ==
  /\ pc[p] = "wait"
  /\ pc' = [pc EXCEPT ![p] = "take"]
  /\ UNCHANGED <<subVars, queueVars, sub, fanVars>>

Take(p) ==
  /\ pc[p] = "take"
  /\ Deliver(p)
  /\ UNCHANGED <<subVars, notify, pushed, fanVars>>

PullMessages(p) == Check(p) \/ Wake(p) \/ Timeout(p) \/ Take(p)

Next ==
  \/ CleanExpired
  \/ \E s \in Subs : Create(s) \/ Remove(s) \/ Expire(s) \/ Renew(s)
  \/ \E n \in Notifiers : NotifyMotion(n) \/ Signal(n)
  \/ \E n \in Notifiers, s \in Subs : FanOut(n, s)
  \/ \E p \in Pullers : PullMessages(p)
  \/ \E p \in Pullers, s \in Subs : Get(p, s)

Spec == Init /\ [][Next]_vars

\* Goroutines that can run do run.  Nothing is assumed of the 30 s timeout, of
\* the clock or of new requests.
Fairness ==
  /\ \A n \in Notifiers : WF_vars(Signal(n)) /\ WF_vars(\E s \in Subs : FanOut(n, s))
  /\ \A p \in Pullers : WF_vars(Check(p)) /\ WF_vars(Wake(p)) /\ WF_vars(Take(p))

FairSpec == Spec /\ Fairness

-----------------------------------------------------------------------------
TypeOK ==
  /\ table \subseteq Subs \ fresh /\ expired \subseteq table
  /\ IsFiniteSet(table) /\ Cardinality(table) <= maxSubscriptions
  /\ events \in [Subs -> Seq(1 .. MaxEvents)] /\ notify \in [Subs -> BOOLEAN]
  /\ pushed \in [Subs -> Seq(1 .. MaxEvents)] /\ pulled \in [Subs -> Seq(1 .. MaxEvents)]
  /\ pc \in [Pullers -> {"idle", "check", "wait", "take"}]
  /\ sub \in [Pullers -> Subs \cup {NoSub}]
  /\ \A p \in Pullers : pc[p] # "idle" => sub[p] \in Subs
  /\ evt \in [Notifiers -> 0 .. MaxEvents] /\ motion \in 0 .. MaxEvents
  /\ \A n \in Notifiers : Fanning(n) => evt[n] > 0
  /\ rest \in [Notifiers -> SUBSET Subs]
  /\ signal \in [Notifiers -> Subs \cup {NoSub}]

\* No motion event is lost in a subscription, returned twice or returned out of
\* order, however many clients pull it at once (pullpoint.go 36-38, 52-58,
\* 70-73).
EachEventOnce == \A s \in Subs : pulled[s] \o events[s] = pushed[s]

\* No lost wake-up: while a client waits on a subscription with queued events, a
\* signal is there or to come, or another client is about to take them
\* (pullpoint.go 36-44, 50-68: the signal is not under the lock).
NoLostWakeup ==
  \A p \in Pullers :
    pc[p] = "wait" /\ events[sub[p]] # <<>> =>
      \/ notify[sub[p]]
      \/ \E n \in Notifiers : signal[n] = sub[p]
      \/ \E q \in Pullers : pc[q] = "take" /\ sub[q] = sub[p]

\* An event in the queue of a waiting client is delivered at once, not when the
\* poll times out, even if the subscription expires or is removed meanwhile.
WaiterIsServed ==
  \A s \in Subs :
    (events[s] # <<>> /\ \E p \in Pullers : pc[p] = "wait" /\ sub[p] = s)
      ~> (events[s] = <<>>)

=============================================================================
