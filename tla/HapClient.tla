------------------------------ MODULE HapClient ------------------------------
(***************************************************************************)
(* Requests and events over one verified HAP connection                    *)
(* (internal/hap/hap_client.go).  Callers of doRequest are serialised by   *)
(* reqMu; a reader goroutine takes messages off the connection and hands   *)
(* responses to respCh, which holds one and blocks when it is full, and    *)
(* EVENT notifications to eventCh, which drops when it is full.  Nothing   *)
(* in a response says which request it answers.                            *)
(*                                                                         *)
(* The camera (external) answers the requests it receives one by one, in   *)
(* their order, when it likes; the connection may break at any time.  A    *)
(* request and a response are the number of the request.                   *)
(***************************************************************************)
EXTENDS Integers, Sequences, FiniteSets

CONSTANTS
  Callers,                   \* goroutines that call doRequest
  Nobody,                    \* reqMu is free
  EventCap,                  \* 16 in the code
  MaxRequests, MaxEvents     \* bounds

ASSUME HapClientAssumption ==
  /\ Nobody \notin Callers
  /\ EventCap \in Nat /\ MaxRequests \in Nat /\ MaxEvents \in Nat

VARIABLES
  reqMu,                     \* the caller that holds it
  req,                       \* the request of each caller, 0 before the first
  result,                    \* what its last call returned
  timedOut,                  \* the requests that timed out
  sent,                      \* number of requests written
  received,                  \* the responses it owes to the requests it received
  line,                      \* messages on their way to the reader
  conn,                      \* "up" or "down"
  reader,                    \* "read", "send" (to respCh), "exited"
  hold,                      \* what the reader has to send
  respCh, eventCh,
  done,                      \* closed when the reader has exited
  emitted                    \* number of events the camera has sent

callVars == <<reqMu, req, result, timedOut>>
camVars == <<sent, received, line, conn, emitted>>
readVars == <<reader, hold, respCh, eventCh, done>>
vars == <<callVars, camVars, readVars>>

Response(n) == [kind |-> "response", id |-> n]
Event(n) == [kind |-> "event", id |-> n]
ReadError == [kind |-> "error", id |-> 0]

\* What a call returns: a response, or an error.
Ok(n) == [status |-> "ok", id |-> n]
Failed(e) == [status |-> e, id |-> 0]

Init ==
  /\ reqMu = Nobody
  /\ req = [g \in Callers |-> 0]
  /\ result = [g \in Callers |-> Failed("none")]
  /\ timedOut = {}
  /\ sent = 0 /\ received = <<>> /\ line = <<>> /\ conn = "up" /\ emitted = 0
  /\ reader = "read" /\ hold = <<>> /\ respCh = <<>> /\ eventCh = <<>>
  /\ done = FALSE

-----------------------------------------------------------------------------
(***************************************************************************)
(* doRequest.  On a broken connection the write fails, or still succeeds   *)
(* into the void.                                                          *)
(***************************************************************************)
Waits(g) == reqMu = g

\* A mutated form without the mutex: a second request is written while the
\* first one waits.
RequestUnlocked(g) ==
  /\ sent < MaxRequests
  /\ sent' = sent + 1
  /\ req' = [req EXCEPT ![g] = sent + 1]
  /\ reqMu' = g
  /\ result' = [result EXCEPT ![g] = Failed("none")]
  /\ received' = IF conn = "up" THEN Append(received, Response(sent + 1)) ELSE received
  /\ UNCHANGED <<line, conn, emitted, readVars, timedOut>>

Request(g) ==
  /\ reqMu = Nobody /\ sent < MaxRequests
  /\ sent' = sent + 1
  /\ req' = [req EXCEPT ![g] = sent + 1]
  /\ \/ /\ reqMu' = g
        /\ result' = [result EXCEPT ![g] = Failed("none")]
        /\ received' = IF conn = "up" THEN Append(received, Response(sent + 1)) ELSE received
     \/ /\ conn = "down"
        /\ result' = [result EXCEPT ![g] = Failed("broken pipe")]
        /\ UNCHANGED <<reqMu, received>>
  /\ UNCHANGED <<line, conn, emitted, readVars, timedOut>>

\* The call returns r and unlocks reqMu.
Return(g, r) ==
  /\ reqMu' = Nobody
  /\ result' = [result EXCEPT ![g] = r]
  /\ UNCHANGED req

GetResponse(g) ==
  /\ Waits(g)
  /\ respCh # <<>>
  /\ respCh' = Tail(respCh)
  /\ Return(g, IF Head(respCh).kind = "error" THEN Failed("EOF") ELSE Ok(Head(respCh).id))
  /\ UNCHANGED <<camVars, reader, hold, eventCh, done, timedOut>>

RequestTimeout(g) ==
  /\ Waits(g)
  /\ Return(g, Failed("timeout"))
  /\ timedOut' = timedOut \cup {req[g]}
  /\ UNCHANGED <<camVars, readVars>>

ConnClosed(g) ==
  /\ Waits(g)
  /\ done
  /\ Return(g, Failed("connection closed"))
  /\ UNCHANGED <<camVars, readVars, timedOut>>

doRequest(g) == Request(g) \/ GetResponse(g) \/ RequestTimeout(g) \/ ConnClosed(g)

-----------------------------------------------------------------------------
(***************************************************************************)
(* The camera and the connection.                                          *)
(***************************************************************************)
Answer ==
  /\ conn = "up" /\ received # <<>>
  /\ line' = Append(line, Head(received))
  /\ received' = Tail(received)
  /\ UNCHANGED <<sent, conn, emitted, callVars, readVars>>

Emit ==
  /\ conn = "up" /\ emitted < MaxEvents
  /\ emitted' = emitted + 1
  /\ line' = Append(line, Event(emitted + 1))
  /\ UNCHANGED <<sent, received, conn, callVars, readVars>>

\* The peer or Close() ends the connection; what was on its way is lost or read.
Break ==
  /\ conn = "up"
  /\ conn' = "down"
  /\ received' = <<>>
  /\ line' \in {<<>>, line}
  /\ UNCHANGED <<sent, emitted, callVars, readVars>>

-----------------------------------------------------------------------------
(***************************************************************************)
(* readLoop.                                                               *)
(***************************************************************************)

\* An EVENT is handed on, or dropped when eventCh is full or the EVENT cannot be
\* parsed.
ReadEvent ==
  /\ reader = "read" /\ line # <<>> /\ Head(line).kind = "event"
  /\ line' = Tail(line)
  /\ \/ Len(eventCh) < EventCap /\ eventCh' = Append(eventCh, Head(line).id)
     \/ UNCHANGED eventCh
  /\ UNCHANGED <<sent, received, conn, emitted, callVars, reader, hold, respCh, done>>

\* A response is to be sent, or an error: the response cannot be parsed, or
\* nothing more can be read.
ReadResponse ==
  /\ reader = "read"
  /\ \/ /\ line # <<>> /\ Head(line).kind = "response"
        /\ hold' \in {<<Head(line)>>, <<ReadError>>}
        /\ line' = Tail(line)
     \/ /\ line = <<>> /\ conn = "down"
        /\ hold' = <<ReadError>>
        /\ UNCHANGED line
  /\ reader' = "send"
  /\ UNCHANGED <<sent, received, conn, emitted, callVars, respCh, eventCh, done>>

\* c.respCh <- ... blocks while the channel holds a result; after an error the
\* loop ends and done is closed.  Two mutated forms: the reader that gives up
\* without closing done, and the one that sends a result again.
SendResultQuietly ==
  /\ reader = "send" /\ respCh = <<>>
  /\ respCh' = hold /\ hold' = <<>>
  /\ reader' = IF Head(hold).kind = "error" THEN "exited" ELSE "read"
  /\ UNCHANGED <<camVars, callVars, eventCh, done>>

SendResultTwice ==
  /\ reader = "send" /\ respCh = <<>>
  /\ respCh' = hold
  /\ UNCHANGED <<camVars, callVars, reader, hold, eventCh, done>>

SendResult ==
  /\ reader = "send" /\ respCh = <<>>
  /\ respCh' = hold /\ hold' = <<>>
  /\ reader' = IF Head(hold).kind = "error" THEN "exited" ELSE "read"
  /\ done' = (reader' = "exited")
  /\ UNCHANGED <<camVars, callVars, eventCh>>

\* The motion goroutine takes an event.
TakeEvent ==
  /\ eventCh # <<>>
  /\ eventCh' = Tail(eventCh)
  /\ UNCHANGED <<callVars, camVars, reader, hold, respCh, done>>

Next ==
  \/ \E g \in Callers : doRequest(g)
  \/ Answer \/ Emit \/ Break
  \/ ReadEvent \/ ReadResponse \/ SendResult \/ TakeEvent

Spec == Init /\ [][Next]_vars

\* The reader and the waiting caller run when they can.  Nothing is assumed of
\* the camera, of the 30 s timeout or of new calls.
Fairness ==
  /\ WF_vars(ReadEvent) /\ WF_vars(ReadResponse) /\ WF_vars(SendResult)
  /\ \A g \in Callers : WF_vars(GetResponse(g)) /\ WF_vars(ConnClosed(g))

FairSpec == Spec /\ Fairness

-----------------------------------------------------------------------------
Errors == {"broken pipe", "EOF", "timeout", "connection closed"}

Message == [kind : {"response", "event", "error"}, id : Nat]

TypeOK ==
  /\ reqMu \in Callers \cup {Nobody}
  /\ req \in [Callers -> Nat]
  /\ result \in [Callers -> [status : Errors \cup {"none", "ok"}, id : Nat]]
  /\ timedOut \subseteq Nat
  /\ sent \in 0 .. MaxRequests /\ emitted \in 0 .. MaxEvents
  /\ conn \in {"up", "down"}
  /\ reader \in {"read", "send", "exited"}
  /\ (reader = "send") <=> (hold # <<>>)
  /\ {respCh, hold, line, received} \subseteq Seq(Message)
  /\ Len(respCh) <= 1 /\ Len(hold) <= 1
  /\ eventCh \in Seq(Nat) /\ Len(eventCh) <= EventCap
  /\ done \in BOOLEAN

\* A call that gets another request's response is behind a timeout: the request
\* answered, or one before it, timed out.  Without timeouts every call returns
\* the response to its own request, although nothing in it says so
\* (hap_client.go 258-290).
OthersAfterTimeout ==
  \A g \in Callers :
    result[g].status = "ok" /\ result[g].id # req[g] =>
      /\ result[g].id < req[g]
      /\ \E n \in timedOut : n <= result[g].id

\* Responses are returned once each and in the order of the requests, timeouts
\* or not: what has been returned is older than what is on its way, and nothing
\* is on its way that was not asked for (hap_client.go 67-124, 279-284).
OnItsWay == respCh \o hold \o line \o received
Ids(q) == {q[k].id : k \in {i \in DOMAIN q : q[i].kind = "response"}}
Ascending(q) ==
  \A j, k \in DOMAIN q :
    j < k /\ q[j].kind = "response" /\ q[k].kind = "response" => q[j].id < q[k].id
ResponsesInOrder ==
  /\ Ascending(OnItsWay)
  /\ \A m \in Ids(OnItsWay) : m <= sent /\ \A g \in Callers : result[g].id < m

\* The death of the connection, or of its reader, is noticed: a call that waits
\* returns, without the help of the 30 s timeout, and "Done returns a channel that is
\* closed when the underlying connection dies" (hap_client.go 44, 66-104, 279-289).
\* The reader may end over a response it cannot parse while the connection is up:
\* the calls that follow fail too.  The channel is closed only
\* if no call has timed out: its late response may fill respCh for ever and keep
\* the reader from its end.
DeathIsSignalled ==
  /\ conn = "down" ~> done \/ timedOut # {}
  /\ \A g \in Callers : (conn = "down" \/ reader = "exited") /\ Waits(g) ~> ~Waits(g)

(***************************************************************************)
(* What comments say and the code does not do once a call has timed out.   *)
(***************************************************************************)

\* "Only one request can be in-flight at a time" (hap_client.go 257): a response on
\* its way is one to the call that waits.  Violated: reqMu is released by the timeout
\* while the response is still owed, and the next call gets it (281, 285).
OneInFlight == Cardinality(Ids(OnItsWay)) <= 1

\* "Done returns a channel that is closed when the underlying connection dies"
\* (hap_client.go 44).  Violated: a late response fills respCh, the reader blocks on
\* the next send to it, and never comes to close done (66, 71).
DoneMeansDead == conn = "down" ~> done

=============================================================================
