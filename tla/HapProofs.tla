------------------------------ MODULE HapProofs ------------------------------
(***************************************************************************)
(* The HAP client and the HAP controller.  For any number of callers,      *)
(* requests and events, and whenever the connection breaks: responses are  *)
(* returned in order, once each, and a call gets another one's response    *)
(* only behind a timeout.  For any number of recovering goroutines,        *)
(* connections and attempts: the connection in use is one whose motion     *)
(* events are relayed, however many reconnections race.                    *)
(***************************************************************************)
EXTENDS HapClient, HapController, SequenceTheorems, TLAPS

\* An error is the last thing the reader sends, whatever is still on its way.
ErrorIsLast ==
  /\ conn = "down" => received = <<>>
  /\ \A k \in DOMAIN line : line[k].kind # "error"
  /\ \A k \in DOMAIN received : received[k].kind = "response"
  /\ \A k \in DOMAIN hold : hold[k].kind # "event"
  /\ \A k \in DOMAIN respCh : respCh[k].kind # "event"
  /\ \A k \in DOMAIN respCh : respCh[k].kind = "error" => reader = "exited"
  /\ reader = "exited" => \A k \in DOMAIN respCh : respCh[k].kind = "error"
  /\ done = (reader = "exited")

\* Whoever holds reqMu waits for the last request written; every other response
\* on its way is that of a call that timed out, or comes after one, as long as there
\* is a reader to return it.
LateOnlyAfterTimeout ==
  /\ \A g \in Callers : result[g].id <= sent
  /\ \A g \in Callers : reqMu = g => req[g] = sent
  /\ \A m \in Ids(OnItsWay) :
       reader = "exited" \/ (reqMu # Nobody /\ m = sent) \/ \E n \in timedOut : n <= m

IInv == TypeOK /\ ErrorIsLast /\ LateOnlyAfterTimeout /\ ResponsesInOrder /\ OthersAfterTimeout

-----------------------------------------------------------------------------
(***************************************************************************)
(* Sequences of messages.                                                  *)
(***************************************************************************)

\* The responses of two sequences in a row.
LEMMA ConcatMessages ==
  ASSUME NEW a \in Seq(Message), NEW b \in Seq(Message)
  PROVE  /\ a \o b \in Seq(Message)
         /\ Ids(a \o b) = Ids(a) \cup Ids(b)
         /\ Ascending(a \o b) <=>
              /\ Ascending(a) /\ Ascending(b)
              /\ \A m \in Ids(a), n \in Ids(b) : m < n
<1> DEFINE c == a \o b
<1>1. /\ Len(a) \in Nat /\ DOMAIN a = 1 .. Len(a) /\ Len(b) \in Nat /\ DOMAIN b = 1 .. Len(b)
      /\ c \in Seq(Message) /\ Len(c) = Len(a) + Len(b)
  BY LenProperties, ConcatProperties
<1>2. DOMAIN c = 1 .. (Len(a) + Len(b))
  BY <1>1, LenProperties
<1>3. /\ \A i \in DOMAIN a : i \in DOMAIN c /\ c[i] = a[i]
      /\ \A i \in DOMAIN b : Len(a) + i \in DOMAIN c /\ c[Len(a) + i] = b[i]
  BY <1>1, <1>2, ConcatProperties
<1>4. ASSUME NEW i \in DOMAIN c
      PROVE  \/ i \in DOMAIN a /\ c[i] = a[i]
             \/ i - Len(a) \in DOMAIN b /\ c[i] = b[i - Len(a)] /\ i > Len(a)
  BY <1>1, <1>2, ConcatProperties
<1> HIDE DEF c
<1>5. Ids(c) = Ids(a) \cup Ids(b)
  <2>1. ASSUME NEW m \in Ids(c) PROVE m \in Ids(a) \cup Ids(b)
    <3>1. PICK i \in DOMAIN c : c[i].kind = "response" /\ m = c[i].id
      BY DEF Ids
    <3>2. CASE i \in DOMAIN a /\ c[i] = a[i]
      BY <3>1, <3>2 DEF Ids
    <3>3. CASE i - Len(a) \in DOMAIN b /\ c[i] = b[i - Len(a)]
      BY <3>1, <3>3 DEF Ids
    <3> QED
      BY <1>4, <3>2, <3>3
  <2>2. ASSUME NEW m \in Ids(a) PROVE m \in Ids(c)
    BY <1>3 DEF Ids
  <2>3. ASSUME NEW m \in Ids(b) PROVE m \in Ids(c)
    <3>1. PICK i \in DOMAIN b : b[i].kind = "response" /\ m = b[i].id
      BY DEF Ids
    <3> QED
      BY <1>3, <3>1 DEF Ids
  <2> QED
    BY <2>1, <2>2, <2>3
<1>6. ASSUME Ascending(c)
      PROVE  Ascending(a) /\ Ascending(b) /\ \A m \in Ids(a), n \in Ids(b) : m < n
  <2>1. Ascending(a)
    BY <1>3, <1>6 DEF Ascending
  <2>2. Ascending(b)
    <3> SUFFICES ASSUME NEW j \in DOMAIN b, NEW k \in DOMAIN b, j < k,
                        b[j].kind = "response", b[k].kind = "response"
                 PROVE  b[j].id < b[k].id
      BY DEF Ascending
    <3>1. Len(a) + j < Len(a) + k
      BY <1>1
    <3> QED
      BY <1>3, <1>6, <3>1 DEF Ascending
  <2>3. ASSUME NEW m \in Ids(a), NEW n \in Ids(b) PROVE m < n
    <3>1. PICK i \in DOMAIN a : a[i].kind = "response" /\ m = a[i].id
      BY DEF Ids
    <3>2. PICK j \in DOMAIN b : b[j].kind = "response" /\ n = b[j].id
      BY DEF Ids
    <3>3. i < Len(a) + j
      BY <1>1
    <3> QED
      BY <1>3, <1>6, <3>1, <3>2, <3>3 DEF Ascending
  <2> QED
    BY <2>1, <2>2, <2>3
<1>7. ASSUME Ascending(a), Ascending(b), \A m \in Ids(a), n \in Ids(b) : m < n
      PROVE  Ascending(c)
  <2> SUFFICES ASSUME NEW j \in DOMAIN c, NEW k \in DOMAIN c, j < k,
                      c[j].kind = "response", c[k].kind = "response"
               PROVE  c[j].id < c[k].id
    BY DEF Ascending
  <2>1. CASE k \in DOMAIN a /\ c[k] = a[k]
    <3>1. j \in DOMAIN a /\ c[j] = a[j]
      BY <1>1, <1>2, <1>4, <2>1
    <3> QED
      BY <1>7, <2>1, <3>1 DEF Ascending
  <2>2. CASE k - Len(a) \in DOMAIN b /\ c[k] = b[k - Len(a)]
    <3>1. CASE j \in DOMAIN a /\ c[j] = a[j]
      <4>1. a[j].id \in Ids(a) /\ b[k - Len(a)].id \in Ids(b)
        BY <2>2, <3>1 DEF Ids
      <4> QED
        BY <1>7, <2>2, <3>1, <4>1
    <3>2. CASE j - Len(a) \in DOMAIN b /\ c[j] = b[j - Len(a)]
      <4>1. j - Len(a) < k - Len(a)
        BY <1>1, <1>2
      <4> QED
        BY <1>7, <2>2, <3>2, <4>1 DEF Ascending
    <3> QED
      BY <1>4, <3>1, <3>2
  <2> QED
    BY <1>4, <2>1, <2>2
<1> QED
  BY <1>1, <1>5, <1>6, <1>7 DEF c

\* A sequence of one message, and the empty one.
LEMMA OneMessage ==
  ASSUME NEW m \in Message
  PROVE  /\ <<m>> \in Seq(Message) /\ Len(<<m>>) = 1 /\ <<m>> # <<>>
         /\ Ids(<<m>>) = (IF m.kind = "response" THEN {m.id} ELSE {}) /\ Ascending(<<m>>)
<1>1. <<m>> \in Seq(Message) /\ Len(<<m>>) = 1 /\ <<m>> # <<>> /\ DOMAIN <<m>> = {1} /\ <<m>>[1] = m
  OBVIOUS
<1> QED
  BY <1>1 DEF Ids, Ascending

LEMMA NoMessage == <<>> \in Seq(Message) /\ Len(<<>>) = 0 /\ Ids(<<>>) = {} /\ Ascending(<<>>)
  BY EmptySeq DEF Ids, Ascending

\* The first message taken off a sequence.
LEMMA TakeMessage ==
  ASSUME NEW q \in Seq(Message), q # <<>>
  PROVE  /\ Head(q) \in Message /\ Tail(q) \in Seq(Message)
         /\ Len(Tail(q)) = Len(q) - 1
         /\ 1 \in DOMAIN q /\ Head(q) = q[1]
         /\ \A k \in DOMAIN Tail(q) : k + 1 \in DOMAIN q /\ Tail(q)[k] = q[k + 1]
         /\ Ids(q) = (IF Head(q).kind = "response" THEN {Head(q).id} ELSE {}) \cup Ids(Tail(q))
         /\ Ascending(q) => Ascending(Tail(q))
         /\ Ascending(q) /\ Head(q).kind = "response" =>
              \A n \in Ids(Tail(q)) : Head(q).id < n
<1>1. /\ Head(q) \in Message /\ Tail(q) \in Seq(Message) /\ Len(Tail(q)) = Len(q) - 1
      /\ \A i \in 1 .. Len(Tail(q)) : Tail(q)[i] = q[i + 1]
  BY HeadTailProperties
<1>2. Len(q) \in Nat \ {0} /\ DOMAIN q = 1 .. Len(q) /\ DOMAIN Tail(q) = 1 .. Len(Tail(q))
  BY <1>1, EmptySeq, LenProperties
<1>3. q = <<Head(q)>> \o Tail(q)
  <2>1. SubSeq(q, 1, Len(q)) = <<q[1]>> \o SubSeq(q, 1 + 1, Len(q))
    BY <1>2, SubSeqRecursiveFirst
  <2>2. Tail(q) = SubSeq(q, 2, Len(q)) /\ SubSeq(q, 1, Len(q)) = q /\ Head(q) = q[1]
    BY TailIsSubSeq, SubSeqFull
  <2> QED
    BY <2>1, <2>2
<1>4. /\ Ids(q) = Ids(<<Head(q)>>) \cup Ids(Tail(q))
      /\ Ascending(q) <=>
           /\ Ascending(<<Head(q)>>) /\ Ascending(Tail(q))
           /\ \A m \in Ids(<<Head(q)>>), n \in Ids(Tail(q)) : m < n
  <2>1. PICK o, t : o = <<Head(q)>> /\ t = Tail(q)
    OBVIOUS
  <2>2. o \in Seq(Message) /\ t \in Seq(Message) /\ q = o \o t
    BY <1>1, <1>3, <2>1, OneMessage, Zenon
  <2>3. /\ Ids(o \o t) = Ids(o) \cup Ids(t)
        /\ Ascending(o \o t) <=>
             Ascending(o) /\ Ascending(t) /\ \A m \in Ids(o), n \in Ids(t) : m < n
    BY <2>2, ConcatMessages
  <2> QED
    BY <2>1, <2>2, <2>3, Zenon
<1>5. Ids(<<Head(q)>>) = (IF Head(q).kind = "response" THEN {Head(q).id} ELSE {})
  BY <1>1, OneMessage
<1>6. 1 \in DOMAIN q /\ \A k \in DOMAIN Tail(q) : k + 1 \in DOMAIN q /\ Tail(q)[k] = q[k + 1]
  BY <1>1, <1>2
<1>7. Head(q) = q[1]
  OBVIOUS
<1> QED
  BY <1>1, <1>4, <1>5, <1>6, <1>7

\* A message put at the end of a sequence.
LEMMA AddMessage ==
  ASSUME NEW q \in Seq(Message), NEW m \in Message
  PROVE  /\ Append(q, m) \in Seq(Message)
         /\ \A k \in DOMAIN Append(q, m) :
              Append(q, m)[k] = m \/ (k \in DOMAIN q /\ Append(q, m)[k] = q[k])
         /\ Ids(Append(q, m)) = Ids(q) \cup (IF m.kind = "response" THEN {m.id} ELSE {})
         /\ Ascending(q) /\ (m.kind = "response" => \A n \in Ids(q) : n < m.id)
              => Ascending(Append(q, m))
<1>1. Append(q, m) = q \o <<m>>
  BY AppendIsConcat
<1>2. Append(q, m) \in Seq(Message)
  BY AppendProperties
<1>3. \A k \in DOMAIN Append(q, m) :
        Append(q, m)[k] = m \/ (k \in DOMAIN q /\ Append(q, m)[k] = q[k])
  BY <1>2, LenProperties, AppendProperties
<1>4. PICK o : o = <<m>>
  OBVIOUS
<1>5. /\ o \in Seq(Message) /\ Ascending(o)
      /\ Ids(o) = (IF m.kind = "response" THEN {m.id} ELSE {})
  BY <1>4, OneMessage, Zenon
<1>6. /\ Ids(q \o o) = Ids(q) \cup Ids(o)
      /\ Ascending(q \o o) <=>
           Ascending(q) /\ Ascending(o) /\ \A k \in Ids(q), n \in Ids(o) : k < n
  BY <1>5, ConcatMessages
<1>7. /\ Ids(q \o o) = Ids(q) \cup (IF m.kind = "response" THEN {m.id} ELSE {})
      /\ Ascending(q) /\ (m.kind = "response" => \A n \in Ids(q) : n < m.id)
           => Ascending(q \o o)
  BY <1>5, <1>6
<1> QED
  BY <1>1, <1>2, <1>3, <1>4, <1>7, Zenon

-----------------------------------------------------------------------------
(***************************************************************************)
(* The inductive invariant.                                                *)
(***************************************************************************)

\* The variables keep their types.
LEMMA StepTypeOK == TypeOK /\ [Next]_vars => TypeOK'
<1> SUFFICES ASSUME TypeOK, [Next]_vars PROVE TypeOK'
  OBVIOUS
<1> USE HapClientAssumption
<1>0. /\ respCh \in Seq(Message) /\ hold \in Seq(Message)
      /\ line \in Seq(Message) /\ received \in Seq(Message)
  BY DEF TypeOK
<1>1. ASSUME NEW g \in Callers, Request(g) PROVE TypeOK'
  <2>1. Response(sent + 1) \in Message
    BY DEF TypeOK, Response, Message
  <2>2. received' \in Seq(Message)
    <3>1. received' \in {received, Append(received, Response(sent + 1))}
      BY <1>1, Zenon DEF Request
    <3> QED
      BY <1>0, <2>1, <3>1, AddMessage, Zenon
  <2>3. sent' \in 0 .. MaxRequests /\ timedOut' \subseteq Nat
    <3>1. sent' = sent + 1 /\ sent < MaxRequests /\ timedOut' = timedOut
      BY <1>1 DEF Request
    <3> QED
      BY <3>1 DEF TypeOK
  <2>4. /\ req' \in [Callers -> Nat]
        /\ result' \in [Callers -> [status : Errors \cup {"none", "ok"}, id : Nat]]
        /\ reqMu' \in Callers \cup {Nobody}
    <3>1. PICK r : /\ r \in {Failed("none"), Failed("broken pipe")}
                   /\ result' = [result EXCEPT ![g] = r]
      BY <1>1 DEF Request
    <3>2. r \in [status : Errors \cup {"none", "ok"}, id : Nat]
      <4>1. /\ Failed("none") \in [status : Errors \cup {"none", "ok"}, id : Nat]
            /\ Failed("broken pipe") \in [status : Errors \cup {"none", "ok"}, id : Nat]
        BY DEF Failed, Errors
      <4> QED
        BY <3>1, <4>1, Zenon
    <3>3. req' = [req EXCEPT ![g] = sent + 1] /\ reqMu' \in {reqMu, g}
      BY <1>1 DEF Request
    <3>4. req' \in [Callers -> Nat] /\ reqMu' \in Callers \cup {Nobody}
      BY <3>3 DEF TypeOK
    <3> QED
      BY <3>1, <3>2, <3>4 DEF TypeOK
  <2> QED
    BY <1>1, <2>2, <2>3, <2>4 DEF Request, readVars, TypeOK
<1>2. ASSUME NEW g \in Callers, NEW r \in [status : Errors \cup {"none", "ok"}, id : Nat],
             Return(g, r), UNCHANGED <<camVars, reader, hold, eventCh, done>>,
             respCh' \in Seq(Message), Len(respCh') <= 1, timedOut' \subseteq Nat
      PROVE  TypeOK'
  <2>1. /\ result' \in [Callers -> [status : Errors \cup {"none", "ok"}, id : Nat]]
        /\ reqMu' = Nobody /\ req' = req
    BY <1>2 DEF Return, TypeOK
  <2>2. UNCHANGED <<sent, received, line, conn, emitted, reader, hold, eventCh, done>>
    BY <1>2 DEF camVars
  <2> QED
    BY <1>2, <2>1, <2>2 DEF TypeOK
<1>3. ASSUME NEW g \in Callers, GetResponse(g) PROVE TypeOK'
  <2>1. /\ Head(respCh) \in Message /\ Tail(respCh) \in Seq(Message)
        /\ Len(Tail(respCh)) = Len(respCh) - 1 /\ Len(respCh) \in Nat
    BY <1>0, <1>3, TakeMessage, LenProperties DEF GetResponse
  <2>2. PICK r : r = IF Head(respCh).kind = "error" THEN Failed("EOF") ELSE Ok(Head(respCh).id)
    OBVIOUS
  <2>3. r \in [status : Errors \cup {"none", "ok"}, id : Nat] /\ Return(g, r)
    BY <1>3, <2>1, <2>2 DEF GetResponse, Failed, Ok, Errors, Message
  <2>4. respCh' \in Seq(Message) /\ Len(respCh') <= 1 /\ timedOut' \subseteq Nat
    BY <1>3, <2>1 DEF GetResponse, TypeOK
  <2>5. UNCHANGED <<camVars, reader, hold, eventCh, done>>
    BY <1>3 DEF GetResponse
  <2> QED
    BY <1>2, <2>3, <2>4, <2>5
<1>4. ASSUME NEW g \in Callers, RequestTimeout(g) \/ ConnClosed(g) PROVE TypeOK'
  <2>1. PICK r \in [status : Errors \cup {"none", "ok"}, id : Nat] : Return(g, r)
    BY <1>4 DEF RequestTimeout, ConnClosed, Failed, Errors
  <2>2. UNCHANGED <<respCh, camVars, reader, hold, eventCh, done>>
    BY <1>4 DEF RequestTimeout, ConnClosed, readVars
  <2>3. PICK t : t \in {timedOut, timedOut \cup {req[g]}} /\ timedOut' = t
    BY <1>4 DEF RequestTimeout, ConnClosed
  <2>4. respCh' \in Seq(Message) /\ Len(respCh') <= 1
    BY <2>2 DEF TypeOK
  <2>5. timedOut' \subseteq Nat
    BY <1>4, <2>3 DEF RequestTimeout, ConnClosed, TypeOK
  <2> QED
    BY <1>2, <2>1, <2>2, <2>4, <2>5
<1>5. CASE Answer
  <2>1. line' \in Seq(Message) /\ received' \in Seq(Message)
    BY <1>0, <1>5, TakeMessage, AddMessage DEF Answer
  <2> QED
    BY <1>5, <2>1 DEF Answer, callVars, readVars, TypeOK
<1>6. CASE Emit
  <2>1. Event(emitted + 1) \in Message
    BY DEF TypeOK, Event, Message
  <2>2. line' \in Seq(Message) /\ emitted' \in 0 .. MaxEvents
    BY <1>0, <1>6, <2>1, AddMessage DEF Emit, TypeOK
  <2> QED
    BY <1>6, <2>2 DEF Emit, callVars, readVars, TypeOK
<1>7. CASE Break
  BY <1>7, NoMessage DEF Break, callVars, readVars, TypeOK
<1>8. CASE ReadEvent
  <2>1. line' \in Seq(Message) /\ Head(line).id \in Nat
    BY <1>0, <1>8, TakeMessage DEF ReadEvent, Message
  <2>2. eventCh' \in Seq(Nat) /\ Len(eventCh') <= EventCap
    <3>1. CASE Len(eventCh) < EventCap /\ eventCh' = Append(eventCh, Head(line).id)
      <4>1. /\ Append(eventCh, Head(line).id) \in Seq(Nat)
            /\ Len(Append(eventCh, Head(line).id)) = Len(eventCh) + 1 /\ Len(eventCh) \in Nat
        BY <2>1, AppendProperties, LenProperties DEF TypeOK
      <4> QED
        BY <3>1, <4>1
    <3>2. CASE UNCHANGED eventCh
      BY <3>2 DEF TypeOK
    <3> QED
      BY <1>8, <3>1, <3>2 DEF ReadEvent
  <2> QED
    BY <1>8, <2>1, <2>2 DEF ReadEvent, callVars, TypeOK
<1>9. CASE ReadResponse
  <2>1. hold' \in Seq(Message) /\ Len(hold') <= 1 /\ hold' # <<>> /\ line' \in Seq(Message)
    <3>1. ReadError \in Message
      BY DEF ReadError, Message
    <3>2. PICK m : m \in Message /\ hold' = <<m>>
      <4>1. CASE line # <<>> /\ hold' = <<Head(line)>>
        BY <1>0, <4>1, TakeMessage
      <4> QED
        BY <1>9, <3>1, <4>1 DEF ReadResponse
    <3>3. line' \in Seq(Message)
      <4>1. line' = line \/ (line # <<>> /\ line' = Tail(line))
        BY <1>9, Zenon DEF ReadResponse
      <4>2. line # <<>> => Tail(line) \in Seq(Message)
        BY <1>0, TakeMessage
      <4> QED
        BY <1>0, <4>1, <4>2, Zenon
    <3> QED
      BY <3>2, <3>3, OneMessage
  <2> QED
    BY <1>9, <2>1 DEF ReadResponse, callVars, TypeOK
<1>10. CASE SendResult
  BY <1>10, NoMessage DEF SendResult, camVars, callVars, TypeOK
<1>11. CASE TakeEvent
  <2>1. eventCh' \in Seq(Nat) /\ Len(eventCh') <= EventCap
    <3>1. /\ Tail(eventCh) \in Seq(Nat) /\ Len(Tail(eventCh)) = Len(eventCh) - 1
          /\ Len(eventCh) \in Nat
      BY <1>11, HeadTailProperties, LenProperties DEF TakeEvent, TypeOK
    <3> QED
      BY <1>11, <3>1 DEF TakeEvent, TypeOK
  <2> QED
    BY <1>11, <2>1 DEF TakeEvent, camVars, callVars, TypeOK
<1>12. CASE UNCHANGED vars
  BY <1>12 DEF vars, callVars, camVars, readVars, TypeOK
<1> QED
  BY <1>1, <1>3, <1>4, <1>5, <1>6, <1>7, <1>8, <1>9, <1>10, <1>11, <1>12 DEF Next, doRequest

\* After an error nothing more is read.
LEMMA StepErrorIsLast == TypeOK /\ ErrorIsLast /\ [Next]_vars => ErrorIsLast'
<1> SUFFICES ASSUME TypeOK, ErrorIsLast, [Next]_vars PROVE ErrorIsLast'
  OBVIOUS
<1>0. /\ respCh \in Seq(Message) /\ hold \in Seq(Message)
      /\ line \in Seq(Message) /\ received \in Seq(Message)
      /\ DOMAIN <<>> = {}
  BY DEF TypeOK
<1>1. ASSUME NEW g \in Callers, Request(g) PROVE ErrorIsLast'
  <2>1. Response(sent + 1) \in Message /\ Response(sent + 1).kind = "response"
    BY DEF TypeOK, Response, Message
  <2>2. \A k \in DOMAIN received' : received'[k].kind = "response"
    <3>1. received' \in {received, Append(received, Response(sent + 1))}
      BY <1>1, Zenon DEF Request
    <3>2. PICK m : m = Response(sent + 1)
      OBVIOUS
    <3>3. \A k \in DOMAIN Append(received, m) : Append(received, m)[k].kind = "response"
      BY <1>0, <2>1, <3>2, AddMessage DEF ErrorIsLast
    <3> QED
      BY <3>1, <3>2, <3>3, Zenon DEF ErrorIsLast
  <2>3. conn = "down" => received' = received
    BY <1>1 DEF Request
  <2> QED
    BY <1>1, <2>2, <2>3 DEF Request, readVars, ErrorIsLast
<1>2. ASSUME NEW g \in Callers, GetResponse(g) PROVE ErrorIsLast'
  <2>1. \A k \in DOMAIN respCh' : k + 1 \in DOMAIN respCh /\ respCh'[k] = respCh[k + 1]
    BY <1>0, <1>2, TakeMessage DEF GetResponse
  <2> QED
    BY <1>2, <2>1 DEF GetResponse, camVars, ErrorIsLast
<1>3. ASSUME NEW g \in Callers, RequestTimeout(g) \/ ConnClosed(g) PROVE ErrorIsLast'
  BY <1>3 DEF RequestTimeout, ConnClosed, camVars, readVars, ErrorIsLast
<1>4. CASE Answer
  <2>1. /\ Head(received) \in Message /\ Head(received).kind # "error"
        /\ \A k \in DOMAIN received' : received'[k].kind = "response"
    BY <1>0, <1>4, TakeMessage DEF Answer, ErrorIsLast
  <2>2. \A k \in DOMAIN line' : line'[k].kind # "error"
    BY <1>0, <1>4, <2>1, AddMessage DEF Answer, ErrorIsLast
  <2> QED
    BY <1>4, <2>1, <2>2 DEF Answer, callVars, readVars, ErrorIsLast
<1>5. CASE Emit
  <2>1. Event(emitted + 1) \in Message /\ Event(emitted + 1).kind = "event"
    BY DEF TypeOK, Event, Message
  <2>2. \A k \in DOMAIN line' : line'[k].kind # "error"
    BY <1>0, <1>5, <2>1, AddMessage DEF Emit, ErrorIsLast
  <2> QED
    BY <1>5, <2>2 DEF Emit, callVars, readVars, ErrorIsLast
<1>6. CASE Break
  BY <1>0, <1>6 DEF Break, callVars, readVars, ErrorIsLast
<1>7. CASE ReadEvent
  <2>1. \A k \in DOMAIN line' : line'[k].kind # "error"
    BY <1>0, <1>7, TakeMessage DEF ReadEvent, ErrorIsLast
  <2> QED
    BY <1>7, <2>1 DEF ReadEvent, callVars, ErrorIsLast
<1>8. CASE ReadResponse
  <2>1. \A k \in DOMAIN line' : line'[k].kind # "error"
    <3>1. line' = line \/ (line # <<>> /\ line' = Tail(line))
      BY <1>8 DEF ReadResponse
    <3>2. CASE line # <<>> /\ line' = Tail(line)
      BY <1>0, <3>2, TakeMessage DEF ErrorIsLast
    <3> QED
      BY <3>1, <3>2 DEF ErrorIsLast
  <2>2. \A k \in DOMAIN hold' : hold'[k].kind # "event"
    BY <1>8 DEF ReadResponse, ReadError
  <2> QED
    BY <1>8, <2>1, <2>2 DEF ReadResponse, callVars, ErrorIsLast
<1>9. CASE SendResult
  <2>1. 1 \in DOMAIN hold /\ Head(hold) = hold[1] /\ DOMAIN hold = {1}
    <3>1. hold # <<>> /\ Len(hold) <= 1
      BY <1>9 DEF SendResult, TypeOK
    <3>2. Len(hold) \in Nat \ {0} /\ DOMAIN hold = 1 .. Len(hold)
      BY <1>0, <3>1, EmptySeq, LenProperties
    <3> QED
      BY <1>0, <3>1, <3>2, TakeMessage
  <2>2. CASE Head(hold).kind = "error"
    BY <1>0, <1>9, <2>1, <2>2 DEF SendResult, camVars, callVars, ErrorIsLast
  <2>3. CASE Head(hold).kind # "error"
    BY <1>0, <1>9, <2>1, <2>3 DEF SendResult, camVars, callVars, ErrorIsLast
  <2> QED
    BY <2>2, <2>3
<1>10. CASE TakeEvent
  BY <1>10 DEF TakeEvent, callVars, camVars, ErrorIsLast
<1>11. CASE UNCHANGED vars
  BY <1>11 DEF vars, callVars, camVars, readVars, ErrorIsLast
<1> QED
  BY <1>1, <1>2, <1>3, <1>4, <1>5, <1>6, <1>7, <1>8, <1>9, <1>10, <1>11 DEF Next, doRequest

\* The responses on their way, place by place.
WaitingIn(a, h, l, r) == Ids(a) \cup Ids(h) \cup Ids(l) \cup Ids(r)
QueuedIn(a, h, l, r) ==
  /\ Ascending(l) /\ Ascending(r)
  /\ \A m \in Ids(a), n \in Ids(h) : m < n
  /\ \A m \in Ids(a) \cup Ids(h), n \in Ids(l) : m < n
  /\ \A m \in Ids(a) \cup Ids(h) \cup Ids(l), n \in Ids(r) : m < n
Waiting == WaitingIn(respCh, hold, line, received)
Queued == QueuedIn(respCh, hold, line, received)

\* respCh and hold have room for one message.
LEMMA ShortQueue ==
  ASSUME NEW q \in Seq(Message), Len(q) <= 1
  PROVE  Ascending(q) /\ (q # <<>> => Tail(q) = <<>>)
<1>1. Len(q) \in Nat /\ DOMAIN q = 1 .. Len(q)
  BY LenProperties
<1>2. Ascending(q)
  BY <1>1 DEF Ascending
<1>3. ASSUME q # <<>> PROVE Tail(q) = <<>>
  <2>1. Len(q) \in Nat \ {0} /\ Tail(q) \in Seq(Message) /\ Len(Tail(q)) = Len(q) - 1
    BY <1>3, EmptySeq, HeadTailProperties
  <2> QED
    BY <2>1, EmptySeq
<1> QED
  BY <1>2, <1>3

\* The four places where a response waits, in a row.
LEMMA QueueParts ==
  ASSUME NEW a \in Seq(Message), NEW h \in Seq(Message),
         NEW l \in Seq(Message), NEW r \in Seq(Message),
         Len(a) <= 1, Len(h) <= 1, NEW q, q = a \o h \o l \o r
  PROVE  Ids(q) = WaitingIn(a, h, l, r) /\ (Ascending(q) <=> QueuedIn(a, h, l, r))
<1>1. /\ a \o h \in Seq(Message)
      /\ Ids(a \o h) = Ids(a) \cup Ids(h)
      /\ Ascending(a \o h) <=>
           /\ Ascending(a) /\ Ascending(h)
           /\ \A m \in Ids(a), n \in Ids(h) : m < n
  BY ConcatMessages
<1>2. /\ a \o h \o l \in Seq(Message)
      /\ Ids(a \o h \o l) = Ids(a \o h) \cup Ids(l)
      /\ Ascending(a \o h \o l) <=>
           /\ Ascending(a \o h) /\ Ascending(l)
           /\ \A m \in Ids(a \o h), n \in Ids(l) : m < n
  BY <1>1, ConcatMessages
<1>3. /\ Ids(q) = Ids(a \o h \o l) \cup Ids(r)
      /\ Ascending(q) <=>
           /\ Ascending(a \o h \o l) /\ Ascending(r)
           /\ \A m \in Ids(a \o h \o l), n \in Ids(r) : m < n
  BY <1>2, ConcatMessages
<1>4. Ascending(a) /\ Ascending(h)
  BY ShortQueue
<1> QED
  BY <1>1, <1>2, <1>3, <1>4 DEF WaitingIn, QueuedIn

LEMMA SameNumber == \A n \in Nat : n <= n
  OBVIOUS

\* Order is kept while responses move on, and with it what is known of a late one.
LEMMA StepOrder ==
  IInv /\ [Next]_vars => LateOnlyAfterTimeout' /\ ResponsesInOrder' /\ OthersAfterTimeout'
<1> SUFFICES ASSUME IInv, [Next]_vars
             PROVE  LateOnlyAfterTimeout' /\ ResponsesInOrder' /\ OthersAfterTimeout'
  OBVIOUS
<1>1. TypeOK /\ TypeOK' /\ ErrorIsLast
  BY StepTypeOK DEF IInv
<1>2. Ids(OnItsWay) = Waiting /\ Queued
  <2>1. Ids(OnItsWay) = Waiting /\ (Ascending(OnItsWay) <=> Queued)
    BY <1>1, QueueParts DEF TypeOK, OnItsWay, Waiting, Queued
  <2> QED
    BY <2>1 DEF IInv, ResponsesInOrder
<1>3. Ids(OnItsWay)' = Waiting' /\ (Ascending(OnItsWay)' <=> Queued')
  BY <1>1, QueueParts DEF TypeOK, OnItsWay, Waiting, Queued
<1> DEFINE Fresh(m) == m <= sent /\ \A g \in Callers : result[g].id < m
           Late(m) == \/ reader = "exited" \/ (reqMu # Nobody /\ m = sent)
                      \/ \E n \in timedOut : n <= m
           Known == /\ \A g \in Callers : result[g].id <= sent
                    /\ \A g \in Callers : reqMu = g => req[g] = sent
                    /\ OthersAfterTimeout
<1>4. Known /\ \A m \in Waiting : Fresh(m) /\ Late(m)
  BY <1>2 DEF IInv, ResponsesInOrder, LateOnlyAfterTimeout
<1>5. SUFFICES Known' /\ Queued' /\ \A m \in Waiting' : Fresh(m)' /\ Late(m)'
  BY <1>3 DEF ResponsesInOrder, LateOnlyAfterTimeout
<1>6. /\ respCh \in Seq(Message) /\ hold \in Seq(Message)
      /\ line \in Seq(Message) /\ received \in Seq(Message)
      /\ sent \in Nat /\ 0 <= sent /\ timedOut \subseteq Nat
      /\ req \in [Callers -> Nat]
      /\ \A g \in Callers : result[g].id \in Nat
      /\ Nobody \notin Callers /\ reqMu \in Callers \cup {Nobody}
  <2>1. \A g \in Callers : result[g].id \in Nat
    BY <1>1 DEF TypeOK
  <2>2. /\ respCh \in Seq(Message) /\ hold \in Seq(Message)
        /\ line \in Seq(Message) /\ received \in Seq(Message)
    BY <1>1 DEF TypeOK
  <2>3. sent \in Nat /\ 0 <= sent /\ Nobody \notin Callers
    BY <1>1, HapClientAssumption DEF TypeOK
  <2>4. timedOut \subseteq Nat /\ req \in [Callers -> Nat] /\ reqMu \in Callers \cup {Nobody}
    BY <1>1, Zenon DEF TypeOK
  <2> QED
    BY <2>1, <2>2, <2>3, <2>4
<1>7. \A m \in Waiting : m \in Nat
  <2>1. ASSUME NEW q \in Seq(Message), NEW m \in Ids(q) PROVE m \in Nat
    <3>1. PICK k \in DOMAIN q : m = q[k].id
      BY DEF Ids
    <3>2. q[k] \in Message
      BY ElementOfSeq, LenProperties
    <3> QED
      BY <3>1, <3>2 DEF Message
  <2> QED
    BY <1>6, <2>1 DEF Waiting, WaitingIn
<1>8. ASSUME NEW m \in Waiting, NEW g \in Callers PROVE 0 < m
  <2>1. result[g].id < m
    BY <1>4
  <2>2. result[g].id \in Nat /\ m \in Nat
    BY <1>6, <1>7
  <2> QED
    BY <2>1, <2>2
<1>9. ASSUME UNCHANGED <<callVars, sent>>, Waiting' \subseteq Waiting,
             reader = "exited" => reader' = "exited"
      PROVE  Known' /\ \A m \in Waiting' : Fresh(m)' /\ Late(m)'
  BY <1>4, <1>9 DEF callVars, OthersAfterTimeout
<1>10. ASSUME NEW g \in Callers, Request(g)
      PROVE  Known' /\ Queued' /\ \A m \in Waiting' : Fresh(m)' /\ Late(m)'
  <2>1. /\ reqMu = Nobody /\ sent' = sent + 1 /\ req' = [req EXCEPT ![g] = sent + 1]
        /\ UNCHANGED <<line, respCh, hold, timedOut, reader>>
    BY <1>10 DEF Request, readVars
  <2>2. /\ \A h \in Callers : result'[h].id \in {0, result[h].id}
        /\ result'[g].status # "ok"
        /\ \A h \in Callers \ {g} : result'[h] = result[h] /\ req'[h] = req[h]
    <3>1. PICK r : /\ r \in {Failed("none"), Failed("broken pipe")}
                   /\ result' = [result EXCEPT ![g] = r]
      BY <1>10 DEF Request
    <3>2. r.status # "ok" /\ r.id = 0
      <4>1. /\ Failed("none").status # "ok" /\ Failed("broken pipe").status # "ok"
            /\ Failed("none").id = 0 /\ Failed("broken pipe").id = 0
        BY DEF Failed
      <4> QED
        BY <3>1, <4>1, Zenon
    <3> QED
      BY <1>1, <1>6, <2>1, <3>1, <3>2 DEF TypeOK
  <2>3. /\ Ascending(received') /\ Ids(received') \subseteq Ids(received) \cup {sent + 1}
        /\ sent + 1 \in Ids(received') => reqMu' = g
    <3>1. \A n \in Ids(received) : n <= sent
      BY <1>4 DEF Waiting, WaitingIn
    <3>2. CASE received' = received
      <4>1. sent + 1 \notin Ids(received)
        BY <1>6, <3>1
      <4> QED
        BY <1>2, <3>2, <4>1 DEF Queued, QueuedIn
    <3>3. CASE reqMu' = g /\ received' = Append(received, Response(sent + 1))
      <4>1. PICK m : m = Response(sent + 1)
        OBVIOUS
      <4>2. m \in Message /\ m.kind = "response" /\ m.id = sent + 1
        BY <1>6, <4>1 DEF Response, Message
      <4>3. \A n \in Ids(received) : n < sent + 1
        BY <1>6, <1>7, <3>1 DEF Waiting, WaitingIn
      <4>4. /\ Ids(Append(received, m)) = Ids(received) \cup {sent + 1}
            /\ Ascending(Append(received, m))
        BY <1>2, <1>6, <4>2, <4>3, AddMessage DEF Queued, QueuedIn
      <4>5. received' = Append(received, m)
        BY <3>3, <4>1, Zenon
      <4> QED
        BY <3>3, <4>4, <4>5, Zenon
    <3> QED
      BY <1>10, <3>2, <3>3, Zenon DEF Request
  <2>4. /\ \A m \in Waiting' : m \in Waiting \/ (m = sent + 1 /\ reqMu' = g)
    BY <2>1, <2>3 DEF Waiting, WaitingIn
  <2>5. Queued'
    <3>1. \A m \in Ids(respCh) \cup Ids(hold) \cup Ids(line) : m < sent + 1
      BY <1>4, <1>6, <1>7 DEF Waiting, WaitingIn
    <3> QED
      BY <1>2, <2>1, <2>3, <3>1 DEF Queued, QueuedIn
  <2>6. ASSUME NEW m \in Waiting' PROVE Fresh(m)'
    <3>1. ASSUME m \in Waiting
          PROVE  /\ 0 < m /\ m \in Nat /\ m <= sent
                 /\ \A h \in Callers : result[h].id < m
      BY <1>4, <1>7, <1>8, <3>1
    <3>2. CASE m \in Waiting
      <4>1. \A h \in Callers : result'[h].id < m
        BY <2>2, <3>1, <3>2
      <4>2. m <= sent'
        BY <1>6, <2>1, <3>1, <3>2
      <4> QED
        BY <4>1, <4>2
    <3>3. CASE m = sent + 1
      <4>1. ASSUME NEW h \in Callers PROVE result'[h].id < m
        <5>1. result[h].id \in Nat /\ result[h].id <= sent /\ result'[h].id \in {0, result[h].id}
          BY <1>4, <1>6, <2>2
        <5> QED
          BY <1>6, <3>3, <5>1
      <4>2. m <= sent'
        BY <1>6, <2>1, <3>3
      <4> QED
        BY <4>1, <4>2
    <3> QED
      BY <2>4, <3>2, <3>3
  <2>7. \A m \in Waiting' : Late(m)'
    BY <1>4, <1>6, <2>1, <2>4
  <2>8. Known'
    <3>1. \A h \in Callers : reqMu' = h => h = g
      BY <1>6, <1>10 DEF Request
    <3>2. ASSUME NEW h \in Callers
          PROVE  result'[h].id <= sent' /\ (reqMu' = h => req'[h] = sent')
      <4>1. result[h].id \in Nat /\ result[h].id <= sent /\ result'[h].id \in {0, result[h].id}
        BY <1>4, <1>6, <2>2
      <4>2. result'[h].id <= sent'
        BY <1>6, <2>1, <4>1
      <4>3. reqMu' = h => req'[h] = sent'
        BY <1>6, <2>1, <3>1
      <4> QED
        BY <4>2, <4>3
    <3>3. OthersAfterTimeout'
      BY <1>4, <1>6, <2>1, <2>2 DEF OthersAfterTimeout
    <3> QED
      BY <3>2, <3>3
  <2> QED
    BY <2>5, <2>6, <2>7, <2>8
<1>11. ASSUME NEW g \in Callers, NEW r, Waits(g), Return(g, r),
              UNCHANGED <<sent, hold, line, received>>
       PROVE  /\ reqMu = g /\ reqMu' = Nobody /\ req' = req /\ result'[g] = r
              /\ \A h \in Callers \ {g} : result'[h] = result[h]
  BY <1>1, <1>11 DEF Waits, Return, TypeOK
<1>12. ASSUME NEW g \in Callers, GetResponse(g)
       PROVE  Known' /\ Queued' /\ \A m \in Waiting' : Fresh(m)' /\ Late(m)'
  <2>1. PICK r : /\ Return(g, r) /\ Waits(g)
                 /\ r = IF Head(respCh).kind = "error" THEN Failed("EOF") ELSE Ok(Head(respCh).id)
    BY <1>12 DEF GetResponse
  <2>2. /\ UNCHANGED <<sent, hold, line, received, timedOut, reader>>
        /\ respCh # <<>> /\ respCh' = Tail(respCh)
    BY <1>12 DEF GetResponse, camVars
  <2>3. /\ reqMu = g /\ reqMu' = Nobody /\ req' = req /\ result'[g] = r
        /\ \A h \in Callers \ {g} : result'[h] = result[h]
    BY <1>11, <2>1, <2>2
  <2>4. /\ Head(respCh) \in Message /\ Ids(respCh') = {}
        /\ Ids(respCh) = (IF Head(respCh).kind = "response" THEN {Head(respCh).id} ELSE {})
    <3>1. Tail(respCh) = <<>>
      BY <1>1, <1>6, <2>2, ShortQueue DEF TypeOK
    <3>2. /\ Head(respCh) \in Message
          /\ Ids(respCh) = (IF Head(respCh).kind = "response" THEN {Head(respCh).id} ELSE {})
                             \cup Ids(Tail(respCh))
      BY <1>6, <2>2, TakeMessage
    <3>3. Ids(Tail(respCh)) = {}
      BY <3>1, NoMessage, Zenon
    <3> QED
      BY <2>2, <3>2, <3>3
  <2>5. Queued' /\ Waiting' \subseteq Waiting
    BY <1>2, <2>2, <2>4 DEF Queued, QueuedIn, Waiting, WaitingIn
  <2>6. CASE Head(respCh).kind = "response"
    <3>1. PICK m : m = Head(respCh).id
      OBVIOUS
    <3>2. m \in Waiting /\ r.status = "ok" /\ r.id = m /\ \A n \in Waiting' : m < n
      BY <1>2, <2>1, <2>2, <2>4, <2>6, <3>1 DEF Queued, QueuedIn, Waiting, WaitingIn, Ok
    <3>3. /\ Fresh(m) /\ req[g] = sent
          /\ \A n \in Waiting : n = sent \/ \E k \in timedOut : k <= n
      <4>1. reader # "exited"
        BY <1>1, <1>6, <2>2, <2>6, TakeMessage DEF ErrorIsLast
      <4> QED
        BY <1>4, <2>3, <3>2, <4>1
    <3>4. \A n \in Waiting' : Fresh(n)'
      BY <1>4, <2>2, <2>3, <2>5, <3>2
    <3>5. \A n \in Waiting' : \E k \in timedOut : k <= n
      <4>1. ASSUME NEW n \in Waiting' PROVE n \in Nat /\ m \in Nat /\ m < n /\ n <= sent
        BY <1>4, <1>7, <2>5, <3>2
      <4>2. ASSUME NEW n \in Waiting' PROVE \E k \in timedOut : k <= n
        <5>1. m # sent
          BY <1>6, <4>1, <4>2
        <5>2. PICK k \in timedOut : k <= m
          BY <3>2, <3>3, <5>1, Zenon
        <5> QED
          BY <1>6, <4>1, <4>2, <5>2
      <4> QED
        BY <4>2
    <3>6. Known'
      <4>1. \A h \in Callers : result'[h].id <= sent'
        BY <1>4, <2>2, <2>3, <3>2, <3>3
      <4>2. m # req[g] => m < req[g] /\ \E k \in timedOut : k <= m
        BY <1>6, <1>7, <3>2, <3>3
      <4>3. OthersAfterTimeout'
        BY <1>4, <2>2, <2>3, <3>2, <4>2 DEF OthersAfterTimeout
      <4>4. \A h \in Callers : reqMu' # h
        BY <1>6, <2>3
      <4> QED
        BY <4>1, <4>3, <4>4
    <3> QED
      BY <2>2, <2>5, <3>4, <3>5, <3>6
  <2>7. CASE Head(respCh).kind # "response"
    <3>1. reader = "exited" /\ r.status # "ok" /\ r.id = 0
      <4>1. 1 \in DOMAIN respCh /\ Head(respCh) = respCh[1]
        BY <1>6, <2>2, TakeMessage
      <4>2. Head(respCh).kind = "error"
        BY <1>1, <2>4, <2>7, <4>1 DEF Message, ErrorIsLast
      <4> QED
        BY <1>1, <2>1, <4>1, <4>2 DEF ErrorIsLast, Failed
    <3>2. \A m \in Waiting' : Fresh(m)' /\ Late(m)'
      BY <1>4, <1>7, <1>8, <2>2, <2>3, <2>5, <3>1
    <3>3. Known'
      <4>1. \A h \in Callers : result'[h].id <= sent' /\ reqMu' # h
        BY <1>4, <1>6, <2>2, <2>3, <3>1
      <4>2. OthersAfterTimeout'
        BY <1>4, <2>2, <2>3, <3>1 DEF OthersAfterTimeout
      <4> QED
        BY <4>1, <4>2
    <3> QED
      BY <2>5, <3>2, <3>3
  <2> QED
    BY <2>6, <2>7
<1>13. ASSUME NEW g \in Callers, RequestTimeout(g) \/ ConnClosed(g)
       PROVE  Known' /\ Queued' /\ \A m \in Waiting' : Fresh(m)' /\ Late(m)'
  <2>1. PICK e \in {"timeout", "connection closed"} : Return(g, Failed(e)) /\ Waits(g)
    BY <1>13 DEF RequestTimeout, ConnClosed
  <2>2. /\ UNCHANGED <<sent, hold, line, received, respCh, reader>>
        /\ \/ timedOut' = timedOut \cup {req[g]}
           \/ timedOut' = timedOut /\ done
    BY <1>13 DEF RequestTimeout, ConnClosed, camVars, readVars
  <2>3. PICK r : r = Failed(e) /\ Return(g, r) /\ r.status # "ok" /\ r.id = 0
    <3>1. Failed(e).status = e /\ Failed(e).id = 0 /\ e # "ok"
      BY DEF Failed
    <3> QED
      BY <2>1, <3>1, Zenon
  <2>4. /\ reqMu = g /\ reqMu' = Nobody /\ req' = req /\ result'[g] = r
        /\ \A h \in Callers \ {g} : result'[h] = result[h]
    BY <1>11, <2>1, <2>2, <2>3
  <2>5. Queued' /\ Waiting' = Waiting
    BY <1>2, <2>2 DEF Queued, QueuedIn, Waiting, WaitingIn
  <2>6. \A m \in Waiting : Fresh(m)'
    <3>1. \A m \in Waiting : m \in Nat /\ 0 < m
      BY <1>7, <1>8
    <3> QED
      BY <1>4, <2>2, <2>3, <2>4, <3>1
  <2>7. ASSUME NEW m \in Waiting PROVE reader' = "exited" \/ \E n \in timedOut' : n <= m
    <3>1. CASE timedOut' = timedOut \cup {req[g]}
      <4>1. req[g] = sent /\ m \in Nat /\ Late(m)
        BY <1>4, <1>7, <2>4
      <4>2. m = sent => req[g] \in timedOut' /\ req[g] <= m
        <5>1. req[g] \in timedOut'
          BY <3>1
        <5> QED
          BY <4>1, <5>1, SameNumber, Zenon
      <4>3. reader' = reader /\ timedOut \subseteq timedOut'
        BY <2>2, <3>1
      <4> QED
        BY <4>1, <4>2, <4>3, Zenon
    <3>2. CASE done
      BY <1>1, <2>2, <3>2 DEF ErrorIsLast
    <3> QED
      BY <2>2, <3>1, <3>2
  <2>8. Known'
    <3>1. ASSUME NEW h \in Callers PROVE result'[h].id <= sent' /\ reqMu' # h
      <4>1. result[h].id <= sent
        BY <1>4
      <4> QED
        BY <1>6, <2>2, <2>3, <2>4, <4>1
    <3>2. OthersAfterTimeout'
      BY <1>4, <2>2, <2>3, <2>4 DEF OthersAfterTimeout
    <3> QED
      BY <3>1, <3>2
  <2> QED
    BY <2>5, <2>6, <2>7, <2>8
<1>14. CASE Answer
  <2>1. PICK m : m = Head(received)
    OBVIOUS
  <2>2. /\ received # <<>> /\ received' = Tail(received) /\ line' = Append(line, m)
        /\ UNCHANGED <<respCh, hold, sent, callVars, reader>>
    BY <1>14, <2>1, Zenon DEF Answer, readVars
  <2>3. /\ m \in Message /\ m.kind = "response"
        /\ Ids(received) = {m.id} \cup Ids(received') /\ Ascending(received')
        /\ \A n \in Ids(received') : m.id < n
    <3>1. m \in Message /\ 1 \in DOMAIN received /\ m = received[1]
      BY <1>6, <2>1, <2>2, TakeMessage
    <3>2. m.kind = "response"
      BY <1>1, <3>1 DEF ErrorIsLast
    <3> QED
      BY <1>2, <1>6, <2>1, <2>2, <3>1, <3>2, TakeMessage DEF Queued, QueuedIn
  <2>4. \A n \in Ids(line) : n < m.id
    BY <1>2, <2>3 DEF Queued, QueuedIn
  <2>5. Ascending(line') /\ Ids(line') = Ids(line) \cup {m.id}
    BY <1>2, <1>6, <2>2, <2>3, <2>4, AddMessage DEF Queued, QueuedIn
  <2>6. Waiting' \subseteq Waiting
    BY <2>2, <2>3, <2>5 DEF Waiting, WaitingIn
  <2>7. Queued'
    BY <1>2, <2>2, <2>3, <2>5 DEF Queued, QueuedIn
  <2> QED
    BY <1>9, <2>2, <2>6, <2>7
<1>15. CASE Emit
  <2>1. PICK m : m = Event(emitted + 1)
    OBVIOUS
  <2>2. m \in Message /\ m.kind = "event"
    BY <1>1, <2>1 DEF Event, Message, TypeOK
  <2>3. line' = Append(line, m) /\ UNCHANGED <<respCh, hold, received, sent, callVars, reader>>
    BY <1>15, <2>1, Zenon DEF Emit, readVars
  <2>4. Ascending(line') /\ Ids(line') = Ids(line)
    <3>1. /\ Ids(Append(line, m)) = Ids(line) \cup (IF m.kind = "response" THEN {m.id} ELSE {})
          /\ Ascending(line) /\ (m.kind = "response" => \A n \in Ids(line) : n < m.id)
               => Ascending(Append(line, m))
      BY <1>6, <2>2, AddMessage
    <3>2. Ascending(line)
      BY <1>2 DEF Queued, QueuedIn
    <3> QED
      BY <2>2, <2>3, <3>1, <3>2
  <2> QED
    BY <1>2, <1>9, <2>3, <2>4 DEF Queued, QueuedIn, Waiting, WaitingIn
<1>16. CASE Break
  <2>1. /\ UNCHANGED <<respCh, hold, sent, callVars, reader>>
        /\ received' = <<>> /\ (line' = <<>> \/ line' = line)
    BY <1>16 DEF Break, readVars
  <2>2. /\ Ids(received') = {} /\ Ascending(received')
        /\ Ids(line') \subseteq Ids(line) /\ Ascending(line')
    BY <1>2, <2>1, NoMessage DEF Queued, QueuedIn
  <2> QED
    BY <1>2, <1>9, <2>1, <2>2 DEF Queued, QueuedIn, Waiting, WaitingIn
<1>17. CASE ReadEvent
  <2>1. /\ UNCHANGED <<respCh, hold, received, sent, callVars, reader>>
        /\ line # <<>> /\ Head(line).kind = "event" /\ line' = Tail(line)
    BY <1>17 DEF ReadEvent
  <2>2. Ids(line') = Ids(line) /\ Ascending(line')
    <3>1. /\ Ids(line) = (IF Head(line).kind = "response" THEN {Head(line).id} ELSE {})
                             \cup Ids(Tail(line))
          /\ Ascending(line) => Ascending(Tail(line))
      BY <1>6, <2>1, TakeMessage
    <3>2. Ascending(line)
      BY <1>2 DEF Queued, QueuedIn
    <3> QED
      BY <2>1, <3>1, <3>2
  <2> QED
    BY <1>2, <1>9, <2>1, <2>2 DEF Queued, QueuedIn, Waiting, WaitingIn
<1>18. CASE ReadResponse
  <2>1. /\ UNCHANGED <<respCh, received, sent, callVars>> /\ hold = <<>> /\ Ids(hold) = {}
        /\ reader # "exited"
    BY <1>1, <1>18, NoMessage DEF ReadResponse, TypeOK
  <2>2. /\ Ascending(line') /\ Ids(hold') \cup Ids(line') \subseteq Ids(line)
        /\ \A m \in Ids(hold'), n \in Ids(line') : m < n
    <3>1. CASE line # <<>> /\ Head(line).kind = "response" /\ hold' = <<Head(line)>> /\ line' = Tail(line)
      <4>1. PICK m : m = Head(line) /\ hold' = <<m>>
        BY <3>1
      <4>2. /\ m \in Message /\ Ids(line) = {m.id} \cup Ids(line') /\ Ascending(line')
            /\ \A n \in Ids(line') : m.id < n
        BY <1>2, <1>6, <3>1, <4>1, TakeMessage DEF Queued, QueuedIn
      <4>3. Ids(hold') = {m.id}
        BY <3>1, <4>1, <4>2, OneMessage
      <4> QED
        BY <4>2, <4>3
    <3>2. CASE hold' = <<ReadError>> /\ (UNCHANGED line \/ (line # <<>> /\ line' = Tail(line)))
      <4>1. PICK m : m = ReadError /\ hold' = <<m>>
        BY <3>2
      <4>2. m \in Message /\ m.kind = "error"
        BY <4>1 DEF ReadError, Message
      <4>3. Ids(hold') = {}
        BY <4>1, <4>2, OneMessage
      <4>4. Ascending(line') /\ Ids(line') \subseteq Ids(line)
        <5>1. Ascending(line)
          BY <1>2 DEF Queued, QueuedIn
        <5>2. line # <<>> => /\ Ids(Tail(line)) \subseteq Ids(line)
                             /\ Ascending(line) => Ascending(Tail(line))
          BY <1>6, TakeMessage
        <5> QED
          BY <3>2, <5>1, <5>2, Zenon
      <4> QED
        BY <4>3, <4>4
    <3> QED
      BY <1>18, <3>1, <3>2 DEF ReadResponse
  <2>3. Waiting' \subseteq Waiting
    BY <2>1, <2>2 DEF Waiting, WaitingIn
  <2>4. Queued'
    BY <1>2, <2>1, <2>2 DEF Queued, QueuedIn
  <2> QED
    BY <1>9, <2>1, <2>3, <2>4
<1>19. CASE SendResult
  <2>1. /\ UNCHANGED <<line, received, sent, callVars>> /\ reader # "exited"
        /\ respCh = <<>> /\ respCh' = hold /\ hold' = <<>>
    BY <1>19 DEF SendResult, camVars
  <2>2. Ids(respCh) = {} /\ Ids(hold') = {}
    BY <2>1, NoMessage
  <2> QED
    BY <1>2, <1>9, <2>1, <2>2 DEF Queued, QueuedIn, Waiting, WaitingIn
<1>20. CASE UNCHANGED <<callVars, sent, respCh, hold, line, received, reader>>
  BY <1>2, <1>9, <1>20 DEF Queued, QueuedIn, Waiting, WaitingIn
<1> QED
  BY <1>10, <1>12, <1>13, <1>14, <1>15, <1>16, <1>17, <1>18, <1>19, <1>20
     DEF Next, doRequest, TakeEvent, vars, callVars, camVars, readVars

-----------------------------------------------------------------------------
\* The invariant holds at first, and every step preserves it.
LEMMA SpecIInv == Spec => []IInv
<1>1. Init => IInv
  <2> SUFFICES ASSUME Init PROVE IInv
    OBVIOUS
  <2>1. TypeOK
    <3>1. Failed("none") \in [status : Errors \cup {"none", "ok"}, id : Nat]
      BY DEF Failed
    <3>2. result \in [Callers -> [status : Errors \cup {"none", "ok"}, id : Nat]]
      BY <3>1 DEF Init
    <3>3. /\ {respCh, hold, line, received} \subseteq Seq(Message)
          /\ Len(respCh) <= 1 /\ Len(hold) <= 1
      BY NoMessage DEF Init
    <3>4. eventCh \in Seq(Nat) /\ Len(eventCh) <= EventCap
      BY HapClientAssumption, EmptySeq DEF Init
    <3>5. req \in [Callers -> Nat] /\ sent \in 0 .. MaxRequests /\ emitted \in 0 .. MaxEvents
      BY HapClientAssumption DEF Init
    <3> QED
      BY <3>2, <3>3, <3>4, <3>5 DEF Init, TypeOK
  <2>2. ErrorIsLast
    <3>1. DOMAIN <<>> = {}
      OBVIOUS
    <3> QED
      BY <3>1, Zenon DEF Init, ErrorIsLast
  <2>3. Ids(OnItsWay) = {} /\ Ascending(OnItsWay)
    BY NoMessage DEF Init, OnItsWay
  <2>4. \A g \in Callers : result[g].id = 0 /\ result[g].status = "none"
    BY DEF Init, Failed
  <2> QED
    BY <2>1, <2>2, <2>3, <2>4, HapClientAssumption
       DEF Init, IInv, LateOnlyAfterTimeout, ResponsesInOrder, OthersAfterTimeout
<1>2. IInv /\ [Next]_vars => IInv'
  BY StepTypeOK, StepErrorIsLast, StepOrder DEF IInv
<1> QED
  BY <1>1, <1>2, PTL DEF Spec

\* The channels and the messages on the line keep their types; respCh holds one
\* result, eventCh no more than its capacity (hap_client.go 36-62).
THEOREM HapClientTypeOK == Spec => []TypeOK
  BY SpecIInv, PTL DEF IInv

\* A call gets the response to its own request unless a call has timed out, for any
\* number of callers (hap_client.go 258-290).
THEOREM HapClientOthersAfterTimeout == Spec => []OthersAfterTimeout
  BY SpecIInv, PTL DEF IInv

\* Responses are returned once each and in the order of the requests
\* (hap_client.go 67-124, 279-284).
THEOREM HapClientResponsesInOrder == Spec => []ResponsesInOrder
  BY SpecIInv, PTL DEF IInv

-----------------------------------------------------------------------------
(***************************************************************************)
(* The HAP controller.                                                     *)
(***************************************************************************)

\* The type invariant says in particular that a connection is numbered when it is
\* made: one that has died never comes back, and a new one is not yet verified.
ControllerIInv == ControllerTypeOK /\ MotionFollowsVerified

-----------------------------------------------------------------------------
\* The camera is paired and its motion sensor subscribed.
LEMMA ControllerInitIInv ==
  ASSUME ControllerInit
  PROVE  ControllerIInv
<1> USE HapControllerAssumption
<1>1. ControllerTypeOK
  <2>1. used \in Conns /\ up \subseteq 1 .. used /\ verified \in 1 .. used
    BY DEF ControllerInit, Conns
  <2>2. eventLoop \subseteq 1 .. used /\ pollLoop \subseteq 1 .. used /\ refused \subseteq 1 .. used
    BY DEF ControllerInit
  <2>3. /\ mine \in [Proc -> {NoConn} \cup (1 .. used)]
        /\ attempt \in [Proc -> 0 .. MaxAttempts]
    BY DEF ControllerInit
  <2> QED
    BY <2>1, <2>2, <2>3
       DEF ControllerInit, ControllerTypeOK, Proc, Instances
<1>2. MotionFollowsVerified
  BY DEF ControllerInit, MotionFollowsVerified
<1> QED
  BY <1>1, <1>2 DEF ControllerIInv

\* What discoveryLoop starts is a recovery with all its attempts before it.
LEMMA DiscoverTypes ==
  ASSUME ControllerTypeOK, NEW i \in Instances, Discover(i), UNCHANGED <<used, mine>>
  PROVE  /\ lost' \subseteq Instances
         /\ pc' \in [Proc -> {"idle", "verify", "accessories", "install", "subscribe",
                              "done", "failed"}]
         /\ attempt' \in [Proc -> 0 .. MaxAttempts]
         /\ \A p \in Proc : pc'[p] # "idle" => attempt'[p] < MaxAttempts
         /\ attempt'[Starter] = 0
         /\ \A p \in Proc : pc'[p] \in {"accessories", "install"} => mine[p] # NoConn
         /\ \A p \in Proc : pc[p] = "subscribe" <=> pc'[p] = "subscribe"
<1> USE HapControllerAssumption DEF ControllerTypeOK, Proc, Instances
<1>1. lost' \subseteq Instances
  BY DEF Discover
<1>2. CASE UNCHANGED <<pc, attempt>>
  BY <1>1, <1>2
<1>3. CASE GoRecover
  BY <1>1, <1>3 DEF GoRecover, Goto
<1> QED
  BY <1>2, <1>3 DEF Discover

\* Every step of a goroutine, of the camera or of its records preserves the
\* invariant.
LEMMA ControllerStepIInv ==
  ASSUME ControllerIInv, [ControllerNext]_controllerVars
  PROVE  ControllerIInv'
<1> USE HapControllerAssumption DEF ControllerIInv, ControllerTypeOK,
      MotionFollowsVerified, Proc, Instances, Conns, NoConn, Goto
<1>1. CASE PowerOff
  BY <1>1 DEF PowerOff, Happens, procVars, motionVars
<1>2. CASE Boot \/ Announce
  <2>1. PICK i \in Instances : Discover(i)
    BY <1>2 DEF Boot, Announce
  <2>2. /\ power' \in BOOLEAN /\ instance' \in Instances /\ records' \subseteq Instances
        /\ UNCHANGED <<connVars, mine, motionVars, stopped>>
    BY <1>2 DEF Boot, Announce
  <2> HIDE DEF MotionFollowsVerified, ControllerTypeOK
  <2>3. /\ lost' \subseteq Instances
        /\ pc' \in [Proc -> {"idle", "verify", "accessories", "install", "subscribe",
                             "done", "failed"}]
        /\ attempt' \in [Proc -> 0 .. MaxAttempts]
        /\ \A p \in Proc : pc'[p] # "idle" => attempt'[p] < MaxAttempts
        /\ attempt'[Starter] = 0
        /\ \A p \in Proc : pc'[p] \in {"accessories", "install"} => mine[p] # NoConn
        /\ \A p \in Proc : pc[p] = "subscribe" <=> pc'[p] = "subscribe"
    BY <2>1, <2>2, DiscoverTypes DEF connVars
  <2>4. ControllerTypeOK'
    BY <2>2, <2>3 DEF connVars, motionVars, ControllerTypeOK
  <2>5. MotionFollowsVerified'
    BY <2>2, <2>3 DEF connVars, motionVars, MotionFollowsVerified
  <2> QED
    BY <2>4, <2>5
<1>3. ASSUME NEW i \in Instances, Expire(i) PROVE ControllerIInv'
  BY <1>3 DEF Expire, Happens, connVars, procVars, motionVars
<1>4. ASSUME NEW p \in Proc, PairVerify(p) PROVE ControllerIInv'
  <2>1. CASE power
    <3>1. /\ used' \in Conns /\ used' = used + 1 /\ up' \subseteq 1 .. used'
          /\ verified' = verified /\ verified < used'
      <4>1. /\ used \in 1 .. MaxConns /\ used < MaxConns /\ used' = used + 1
            /\ up' = up \cup {used + 1} /\ verified' = verified
        BY <1>4, <2>1 DEF PairVerify
      <4>2. used' \in 1 .. MaxConns /\ verified < used'
        BY <4>1
      <4>3. up' \subseteq 1 .. used'
        BY <4>1
      <4> QED
        BY <4>1, <4>2, <4>3
    <3>2. /\ mine' \in [Proc -> {NoConn} \cup (1 .. used')]
          /\ \A q \in Proc : pc'[q] \in {"accessories", "install"} => mine'[q] # NoConn
      BY <1>4, <2>1, <3>1 DEF PairVerify
    <3>3. ControllerTypeOK'
      BY <1>4, <2>1, <3>1, <3>2 DEF PairVerify, deviceVars, motionVars
    <3>4. MotionFollowsVerified'
      BY <1>4, <2>1, <3>1 DEF PairVerify, motionVars
    <3> QED
      BY <3>3, <3>4
  <2>2. CASE ~power
    BY <1>4, <2>2 DEF PairVerify, deviceVars, motionVars
  <2> QED
    BY <2>1, <2>2
<1>5. ASSUME NEW p \in Proc, GetAccessories(p) PROVE ControllerIInv'
  BY <1>5 DEF GetAccessories, deviceVars, motionVars
<1>6. ASSUME NEW p \in Proc, Install(p) PROVE ControllerIInv'
  BY <1>6 DEF Install, deviceVars, motionVars
<1>7. ASSUME NEW p \in Proc, doSubscribeMotion(p) PROVE ControllerIInv'
  BY <1>7 DEF doSubscribeMotion, deviceVars, connVars
<1>8. ASSUME NEW r \in Recoverers, recoverDevice(r) PROVE ControllerIInv'
  BY <1>8 DEF recoverDevice, deviceVars, connVars, motionVars
<1>9. CASE StartStream
  <2>1. UNCHANGED <<deviceVars, lost, connVars, attempt, mine, motionVars, stopped>>
    BY <1>9 DEF StartStream
  <2>2. CASE pc[Starter] = "idle" /\ verified \notin up /\ Goto(Starter, "verify")
    BY <2>1, <2>2 DEF deviceVars, connVars, motionVars
  <2>3. CASE pc[Starter] \in {"done", "failed"} /\ Goto(Starter, "idle")
    BY <2>1, <2>3 DEF deviceVars, connVars, motionVars
  <2> QED
    BY <1>9, <2>2, <2>3 DEF StartStream
<1>10. ASSUME NEW c \in Conns, PollLoopExit(c) PROVE ControllerIInv'
  BY <1>10 DEF PollLoopExit, deviceVars, connVars, procVars
<1>11. CASE Stop
  BY <1>11 DEF Stop, deviceVars, procVars, motionVars
<1>12. CASE UNCHANGED controllerVars
  BY <1>12 DEF controllerVars, deviceVars, connVars, procVars, motionVars
<1> QED
  BY <1>1, <1>2, <1>3, <1>4, <1>5, <1>6, <1>7, <1>8, <1>9, <1>10, <1>11, <1>12
     DEF ControllerNext, reconnect

\* The inductive invariant holds in every behaviour.
LEMMA ControllerInvariant == ControllerSpec => []ControllerIInv
<1>1. ControllerInit => ControllerIInv
  BY ControllerInitIInv
<1>2. ControllerIInv /\ [ControllerNext]_controllerVars => ControllerIInv'
  BY ControllerStepIInv
<1> QED
  BY <1>1, <1>2, PTL DEF ControllerSpec

\* Every variable keeps its type; no recovery makes more than MaxAttempts attempts
\* (controller.go 251-281).
THEOREM HapControllerTypeOK == ControllerSpec => []ControllerTypeOK
  BY ControllerInvariant, PTL DEF ControllerIInv

\* Once no reconnection is about to subscribe, the live connection in c.verified
\* has its motion poll loop or its subscription was refused, for any number of
\* recoveries that race with StartStream (controller.go 542-551, 768-771).
THEOREM HapControllerMotion == ControllerSpec => []MotionFollowsVerified
  BY ControllerInvariant, PTL DEF ControllerIInv

=============================================================================
