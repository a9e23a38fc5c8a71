----------------------------- MODULE StreamSetup -----------------------------
(***************************************************************************)
(* StartStream and StopStream (internal/hap/controller.go, camera.go) over *)
(* the encrypted connection: the controller writes the endpoints and keys  *)
(* it offers, reads back what the camera makes of them, selects a stream,  *)
(* and does it all once more over a new connection when the old one has    *)
(* died on the way.  The motion poll shares the connection.  A response    *)
(* does not say which request it answers (see HapClient), so that a        *)
(* request that has timed out puts every later one out of step.            *)
(*                                                                         *)
(* HTTP, JSON and base64 are reduced to a header that carries the length.  *)
(* Fields with a fixed content (versions, codecs, bitrates) are left out.  *)
(* The camera and the network are external: the camera answers in order,   *)
(* when it likes; it may refuse a write or a setup, and return keys of its *)
(* own or none; it decodes correctly.  The connection may be cut at any    *)
(* time.                                                                   *)
(***************************************************************************)
EXTENDS Tlv8, EncryptedConn

CONSTANTS
  ReadSizes,                 \* sizes of the buffers that Read is given
  MaxStarts, MaxPolls        \* bounds on the calls of StartStream and of the poll

VARIABLES
  conn,                      \* the number of the connection: pair-verify makes new keys
  up,                        \* is it alive?
  ctrl, cam,                 \* the controller's end of it and the camera's
  toCam, toCtrl,             \* the frames on their way
  inbuf,                     \* what the controller's bufio.Reader holds
  respCh, done,              \* of HapClient
  holder,                    \* who holds reqMu: "start", "poll" or "nobody"
  late,                      \* number of requests timed out on this connection
  polls,                     \* number of polls made
  step,                      \* of StartStream or StopStream
  retried,                   \* this is doStartStream's second run
  starts, made,              \* numbers of StartStream calls, of endpoints generated
  ep, resp, ssrc,            \* doStartStream's local variables
  offer,                     \* the camera's SetupEndpoints
  stream,                    \* what it was last told to stream
  ended,                     \* the session it was last told to end
  replies                    \* what it has answered and readLoop not handed on yet

wireVars == <<conn, up, ctrl, cam, toCam, toCtrl, inbuf, respCh, done>>
callVars == <<holder, late, polls>>
startVars == <<step, retried, starts, made, ep, resp, ssrc>>
camVars == <<offer, stream, ended, replies>>
vars == <<wireVars, callVars, startVars, camVars>>

-----------------------------------------------------------------------------
(***************************************************************************)
(* What is sent.  Session ids, keys and salts are two bytes long, IP       *)
(* addresses and ports one.                                                *)
(***************************************************************************)
Nil == <<>>
ZeroID == <<0, 0>>
Random(n, k) == <<20 * n + k, 20 * n + k>>

NoSRTP == [key |-> Nil, salt |-> Nil]
NoAddress == [ip |-> Nil, videoPort |-> Nil, audioPort |-> Nil]

\* The ports were opened once for the call, the rest is made anew.
GenerateStreamEndpoints(n, call) ==
  [session |-> Random(n, 0),
   address |-> [ip |-> <<1>>, videoPort |-> <<10 * call + 2>>, audioPort |-> <<10 * call + 3>>],
   video |-> [key |-> Random(n, 1), salt |-> Random(n, 2)],
   audio |-> [key |-> Random(n, 3), salt |-> Random(n, 4)]]

EncodeAddress(a) ==
  TLV8Encode(<<TLV8Item(2, a.ip), TLV8Item(3, a.videoPort), TLV8Item(4, a.audioPort)>>)

EncodeSRTP(p) == TLV8Encode(<<TLV8Item(2, p.key), TLV8Item(3, p.salt)>>)

EncodeSetupEndpoints(e) ==
  TLV8Encode(<<TLV8Item(1, e.session), TLV8Item(3, EncodeAddress(e.address)),
               TLV8Item(4, EncodeSRTP(e.video)), TLV8Item(5, EncodeSRTP(e.audio))>>)

\* What is missing, or cannot be decoded, stays nil.
DecodeAddress(data) ==
  LET d == TLV8Decode(data)
  IN  IF ~d.ok THEN NoAddress
      ELSE [ip |-> TLV8GetBytes(d.items, 2), videoPort |-> TLV8GetBytes(d.items, 3),
            audioPort |-> TLV8GetBytes(d.items, 4)]

DecodeSRTP(data) ==
  LET d == TLV8Decode(data)
  IN  IF ~d.ok THEN NoSRTP
      ELSE [key |-> TLV8GetBytes(d.items, 2), salt |-> TLV8GetBytes(d.items, 3)]

DecodeStreamResponse(data) ==
  LET d == TLV8Decode(data)
      status == TLV8GetBytes(d.items, 2)
  IN  [ok |-> d.ok, status |-> IF status = Nil THEN 0 ELSE Head(status),
       session |-> TLV8GetBytes(d.items, 1),
       address |-> DecodeAddress(TLV8GetBytes(d.items, 3)),
       video |-> DecodeSRTP(TLV8GetBytes(d.items, 4)),
       audio |-> DecodeSRTP(TLV8GetBytes(d.items, 5))]

CommandEnd == 0
CommandStart == 1
SessionControl(session, command) ==
  TLV8Item(1, TLV8Encode(<<TLV8Item(1, session), TLV8Item(2, <<command>>)>>))

\* SSRCs are inside the RTP parameters of the parameters of a medium.
EncodeSelectedStreamConfig(session, command, s) ==
  LET RTP(id) == TLV8Encode(<<TLV8Item(2, id)>>)
  IN  TLV8Encode(<<SessionControl(session, command),
                   TLV8Item(2, TLV8Encode(<<TLV8Item(4, RTP(s.video))>>)),
                   TLV8Item(3, TLV8Encode(<<TLV8Item(3, RTP(s.audio))>>))>>)

\* A request is <<operation, length>> and a body, a response <<status, type of the
\* value, length>> and a body.  A characteristic that comes with a non-zero status
\* of its own, inside a 207 (Multi-Status), has the type NonZero.
PutSetup == 1
GetSetup == 2
PutSelected == 3
GetMotion == 4
Request(op, body) == <<op, Len(body)>> \o body

NoValue == 0
StringValue == 1
BoolValue == 2
NonZero == 3
Response(status, type, body) == <<status, type, Len(body)>> \o body
HeaderLen == 3
Complete(b) == Len(b) >= HeaderLen /\ Len(b) >= HeaderLen + b[HeaderLen]
FirstMessage(b) == SubSeq(b, 1, HeaderLen + b[HeaderLen])
AfterFirst(b) == SubSeq(b, HeaderLen + b[HeaderLen] + 1, Len(b))

\* What a call of doRequest returns: a response, or an error that isConnError
\* recognises or not.
Reply(m) == [kind |-> "reply", status |-> m[1], type |-> m[2], body |-> SubSeq(m, 4, Len(m))]
Error(kind) == [kind |-> kind, status |-> 0, type |-> NoValue, body |-> Nil]
ConnError == Error("connection")
OtherError == Error("other")

NoOffer == [session |-> Nil, address |-> NoAddress, video |-> NoSRTP, audio |-> NoSRTP,
            own |-> [video |-> NoSRTP, audio |-> NoSRTP], ip |-> NoAddress]
NoSSRC == [video |-> Nil, audio |-> Nil]
NoStream == [setup |-> NoOffer, ssrc |-> NoSSRC]
NoResponse == DecodeStreamResponse(Nil)

Init ==
  /\ conn = 1 /\ up = TRUE
  /\ ctrl = NewEncryptedConn(<<1, "read">>, <<1, "write">>)
  /\ cam = NewEncryptedConn(<<1, "write">>, <<1, "read">>)
  /\ toCam = <<>> /\ toCtrl = <<>> /\ inbuf = <<>> /\ respCh = <<>> /\ done = FALSE
  /\ holder = "nobody" /\ late = 0 /\ polls = 0
  /\ step = "idle" /\ retried = FALSE /\ starts = 0 /\ made = 0
  /\ ep = GenerateStreamEndpoints(0, 0) /\ resp = NoResponse /\ ssrc = NoSSRC
  /\ offer = NoOffer /\ stream = NoStream /\ ended = Nil /\ replies = <<>>

-----------------------------------------------------------------------------
(***************************************************************************)
(* The wire.                                                               *)
(***************************************************************************)

\* readLoop reads on until it has a whole message.
ReadConn(n) ==
  /\ ~Complete(inbuf)
  /\ ctrl.readBuf # <<>> \/ toCtrl # <<>>
  /\ ctrl.readBuf = <<>> => Opens(ctrl, Head(toCtrl))
  /\ inbuf' = inbuf \o SubSeq(Readable(ctrl, toCtrl), 1, Min({n, Len(Readable(ctrl, toCtrl))}))
  /\ ctrl' = ReadOnce(ctrl, toCtrl, n)
  /\ toCtrl' = IF ctrl.readBuf # <<>> THEN toCtrl ELSE Tail(toCtrl)
  /\ UNCHANGED <<conn, up, cam, toCam, respCh, done, callVars, startVars, camVars>>

\* It hands the message on when respCh has room.
HandOn ==
  /\ Complete(inbuf) /\ respCh = <<>>
  /\ respCh' = <<Reply(FirstMessage(inbuf))>>
  /\ inbuf' = AfterFirst(inbuf)
  /\ replies' = Tail(replies)
  /\ UNCHANGED <<conn, up, ctrl, cam, toCam, toCtrl, done, callVars, startVars, offer, stream, ended>>

\* The end of the connection reaches it: the error is handed on, and done closed.
ReadFails ==
  /\ ~up /\ ~done /\ respCh = <<>>
  /\ ~Complete(inbuf) /\ ctrl.readBuf = <<>> /\ toCtrl = <<>>
  /\ respCh' = <<ConnError>> /\ done' = TRUE
  /\ UNCHANGED <<conn, up, ctrl, cam, toCam, toCtrl, inbuf, callVars, startVars, camVars>>

\* What has not arrived may be lost, from some frame on.
Cut ==
  /\ up /\ up' = FALSE
  /\ toCam' = <<>>
  /\ \E k \in 0 .. Len(toCtrl) : toCtrl' = SubSeq(toCtrl, 1, k)
  /\ UNCHANGED <<conn, ctrl, cam, inbuf, respCh, done, callVars, startVars, camVars>>

-----------------------------------------------------------------------------
(***************************************************************************)
(* The camera.                                                             *)
(***************************************************************************)
OwnKeys(n) ==
  [video |-> [key |-> Random(n, 5), salt |-> Random(n, 6)],
   audio |-> [key |-> Random(n, 7), salt |-> Random(n, 8)]]
NoKeys == NoOffer.own

\* It takes the endpoints it is offered and makes its own.
Offered(body, own) ==
  LET r == DecodeStreamResponse(body)
      port == Head(r.session)
  IN  [session |-> r.session, address |-> r.address, video |-> r.video, audio |-> r.audio,
       own |-> own, ip |-> [ip |-> <<5>>, videoPort |-> <<port + 11>>, audioPort |-> <<port + 12>>]]

SetupResponse(o, status) ==
  TLV8Encode(<<TLV8Item(1, o.session), TLV8Item(2, <<status>>), TLV8Item(3, EncodeAddress(o.ip))>>
    \o IF o.own = NoKeys THEN <<>>
       ELSE <<TLV8Item(4, EncodeSRTP(o.own.video)), TLV8Item(5, EncodeSRTP(o.own.audio))>>)

\* The session id, the command and the SSRCs of a SelectedRTPStreamConfiguration.
Selected(body) ==
  LET In(data, type) == TLV8GetBytes(TLV8Decode(data).items, type)
  IN  [session |-> In(In(body, 1), 1), command |-> In(In(body, 1), 2),
       ssrc |-> [video |-> In(In(In(body, 2), 4), 2), audio |-> In(In(In(body, 3), 3), 2)]]

\* A request, whose frames are all there: Write flushes them together.
FramesOf(op, len) == (2 + len + MaxFrame - 1) \div MaxFrame
Answer(m) ==
  LET header == Head(toCam).data
      frames == FramesOf(header[1], header[2])
  IN  /\ toCtrl' = toCtrl \o Seal(cam, m)
      /\ cam' = [Wrote(cam, m) EXCEPT !.decryptCnt = @ + frames]
      /\ toCam' = SubSeq(toCam, frames + 1, Len(toCam))
      /\ replies' = Append(replies, m)
      /\ UNCHANGED <<conn, up, ctrl, inbuf, respCh, done, callVars, startVars>>

CameraGot(op) ==
  /\ up /\ toCam # <<>>
  /\ Head(toCam).data[1] = op
  /\ \A k \in 1 .. FramesOf(op, Head(toCam).data[2]) :
       Opens([cam EXCEPT !.decryptCnt = @ + k - 1], toCam[k])

BodyGot ==
  LET header == Head(toCam).data
      frames == SubSeq(toCam, 1, FramesOf(header[1], header[2]))
      all == FlattenSeq([k \in DOMAIN frames |-> frames[k].data])
  IN  SubSeq(all, 3, Len(all))

\* A write that is done is answered with 204, or with a 207 that says so; one that
\* is not done with 400 or a 207 that says that.
Done == {Response(204, NoValue, Nil), Response(207, NoValue, Nil)}
NotDone == {Response(400, NoValue, Nil), Response(207, NonZero, Nil)}

CameraSetsUp ==
  /\ CameraGot(PutSetup)
  /\ \/ /\ \E own \in {NoKeys, OwnKeys(made)} : offer' = Offered(BodyGot, own)
        /\ \E m \in Done : Answer(m)
     \/ (\E m \in NotDone : Answer(m)) /\ UNCHANGED offer
  /\ UNCHANGED <<stream, ended>>

CameraTells ==
  /\ CameraGot(GetSetup)
  /\ \E status \in {0, 1}, http \in {200, 207} :
       Answer(Response(http, StringValue, SetupResponse(offer, status)))
  /\ UNCHANGED <<offer, stream, ended>>

\* A start command must name the session that is set up.
CameraSelects ==
  /\ CameraGot(PutSelected)
  /\ LET s == Selected(BodyGot)
         start == s.command = <<CommandStart>> /\ s.session = offer.session
     IN  \/ /\ stream' = IF start THEN [setup |-> offer, ssrc |-> s.ssrc] ELSE stream
            /\ ended' = IF s.command = <<CommandEnd>> THEN s.session ELSE ended
            /\ \E m \in IF start THEN Done ELSE Done \cup NotDone : Answer(m)
         \/ /\ start /\ \E m \in NotDone : Answer(m)
            /\ UNCHANGED <<stream, ended>>
  /\ UNCHANGED offer

CameraSenses ==
  /\ CameraGot(GetMotion)
  /\ Answer(Response(200, BoolValue, <<1>>))
  /\ UNCHANGED <<offer, stream, ended>>

-----------------------------------------------------------------------------
(***************************************************************************)
(* doRequest: on a dead connection the write fails, or still succeeds into *)
(* the void.                                                               *)
(***************************************************************************)
Write(g, m) ==
  /\ holder = "nobody" /\ holder' = g
  /\ ctrl' = Wrote(ctrl, m)
  /\ toCam' = IF up THEN toCam \o Seal(ctrl, m) ELSE toCam
  /\ UNCHANGED <<conn, up, cam, toCtrl, inbuf, respCh, done, late, camVars>>

\* What a call that waits, or that cannot write, returns.
GetsResponse(g, r) ==
  /\ holder = g /\ respCh # <<>>
  /\ r = Head(respCh) /\ respCh' = <<>>
  /\ holder' = "nobody"
  /\ UNCHANGED <<conn, up, ctrl, cam, toCam, toCtrl, inbuf, done, late, polls, camVars>>

TimesOut(g) ==
  /\ holder = g /\ holder' = "nobody"
  /\ late' = late + 1
  /\ UNCHANGED <<wireVars, polls, camVars>>

SeesDone(g) ==
  /\ holder = g /\ done
  /\ holder' = "nobody"
  /\ UNCHANGED <<wireVars, late, polls, camVars>>

WriteFails ==
  /\ holder = "nobody" /\ ~up
  /\ UNCHANGED <<wireVars, callVars, camVars>>

-----------------------------------------------------------------------------
(***************************************************************************)
(* doStartStream, StartStream and StopStream.                              *)
(***************************************************************************)
Fail(err) ==
  /\ step' = IF err = ConnError /\ ~retried THEN "reconnect" ELSE "idle"
  /\ UNCHANGED <<retried, starts, made, ep, resp, ssrc>>

Generate(call) ==
  /\ made' = made + 1
  /\ ep' = GenerateStreamEndpoints(made + 1, call)
  /\ step' = "put"

StartStream ==
  /\ step = "idle" /\ starts < MaxStarts
  /\ starts' = starts + 1
  /\ retried' = FALSE
  /\ Generate(starts + 1)
  /\ UNCHANGED <<resp, ssrc, wireVars, callVars, camVars>>

\* reconnect: a new connection, or none.
Reconnect ==
  /\ step = "reconnect"
  /\ conn' = conn + 1 /\ up' = TRUE
  /\ ctrl' = NewEncryptedConn(<<conn', "read">>, <<conn', "write">>)
  /\ cam' = NewEncryptedConn(<<conn', "write">>, <<conn', "read">>)
  /\ toCam' = <<>> /\ toCtrl' = <<>> /\ inbuf' = <<>> /\ respCh' = <<>> /\ done' = FALSE
  /\ holder' = "nobody" /\ late' = 0 /\ replies' = <<>>
  /\ retried' = TRUE
  /\ Generate(starts)
  /\ UNCHANGED <<polls, starts, resp, ssrc, offer, stream, ended>>

ReconnectFails ==
  /\ step = "reconnect"
  /\ step' = "idle"
  /\ UNCHANGED <<retried, starts, made, ep, resp, ssrc, wireVars, callVars, camVars>>

\* The request of each step.  The SSRCs are chosen for the last one.  StopStream
\* names the session id that Session keeps, and nothing ever sets that.
AskSetup ==
  /\ step \in {"put", "get"}
  /\ Write("start", IF step = "put" THEN Request(PutSetup, EncodeSetupEndpoints(ep))
                    ELSE Request(GetSetup, Nil))
  /\ UNCHANGED <<startVars, polls>>

AskStart ==
  /\ step = "select"
  /\ ssrc' = [video |-> Random(made, 9), audio |-> Random(made, 10)]
  /\ Write("start", Request(PutSelected, EncodeSelectedStreamConfig(ep.session, CommandStart, ssrc')))
  /\ UNCHANGED <<step, retried, starts, made, ep, resp, polls>>

StopStream ==
  /\ step = "started"
  /\ step' = "end"
  /\ Write("start", Request(PutSelected, TLV8Encode(<<SessionControl(ZeroID, CommandEnd)>>)))
  /\ UNCHANGED <<retried, starts, made, ep, resp, ssrc, polls>>

\* The keys to decrypt with: the camera's, or if there are none our own.  A mutated
\* form takes what it gets.
KeysTaken(r, e) == r

Keys(r, e) ==
  [r EXCEPT !.video = IF r.video.key = Nil THEN e.video ELSE r.video,
            !.audio = IF r.audio.key = Nil THEN e.audio ELSE r.audio]

\* PutCharacteristics: of a 207 the status of each characteristic counts.
Accepted(r) ==
  /\ r.kind = "reply"
  /\ r.status \in {200, 204, 207}
  /\ r.status = 207 => r.type # NonZero

\* What doStartStream makes of a response or an error.
PutReturned(r) ==
  IF Accepted(r) THEN step' = "get" /\ UNCHANGED <<retried, starts, made, ep, resp, ssrc>>
  ELSE Fail(r)

GetReturned(r) ==
  LET d == DecodeStreamResponse(r.body)
  IN  IF /\ r.kind = "reply" /\ r.status \in {200, 207} /\ r.type = StringValue
         /\ d.ok /\ d.status = 0
        THEN /\ resp' = d /\ step' = "select"
             /\ UNCHANGED <<retried, starts, made, ep, ssrc>>
        ELSE Fail(r)

SelectReturned(r) ==
  IF Accepted(r)
    THEN /\ resp' = Keys(resp, ep) /\ step' = "started"
         /\ UNCHANGED <<retried, starts, made, ep, ssrc>>
    ELSE Fail(r)

EndReturned(r) == step' = "idle" /\ UNCHANGED <<retried, starts, made, ep, resp, ssrc>>

Returned(r) ==
  \/ step = "put" /\ PutReturned(r)
  \/ step = "get" /\ GetReturned(r)
  \/ step = "select" /\ SelectReturned(r)
  \/ step = "end" /\ EndReturned(r)

StartGetsResponse == \E r \in ToSet(respCh) : GetsResponse("start", r) /\ Returned(r)
StartTimesOut == TimesOut("start") /\ Returned(OtherError)
StartSeesDone == SeesDone("start") /\ Returned(OtherError)
StartCannotWrite ==
  \/ step \in {"put", "get", "select"} /\ WriteFails /\ Fail(ConnError)
  \/ step = "started" /\ WriteFails /\ EndReturned(ConnError)

\* The motion poll; whatever it gets, it goes on, until the connection has ended.
Poll ==
  /\ polls < MaxPolls /\ polls' = polls + 1
  /\ Write("poll", Request(GetMotion, Nil))
  /\ UNCHANGED startVars

PollReturns ==
  /\ (\E r \in ToSet(respCh) : GetsResponse("poll", r)) \/ TimesOut("poll") \/ SeesDone("poll")
  /\ UNCHANGED startVars

Next ==
  \/ \E n \in ReadSizes : ReadConn(n)
  \/ HandOn \/ ReadFails \/ Cut
  \/ CameraSetsUp \/ CameraTells \/ CameraSelects \/ CameraSenses
  \/ StartStream \/ Reconnect \/ ReconnectFails \/ AskSetup \/ AskStart \/ StopStream
  \/ StartGetsResponse \/ StartTimesOut \/ StartSeesDone \/ StartCannotWrite
  \/ Poll \/ PollReturns

Spec == Init /\ [][Next]_vars

-----------------------------------------------------------------------------
\* Whatever is cut into frames, read in pieces or lost with a connection, each side
\* gets what the other wrote, in order, and every frame opens, over reconnections
\* too (encrypted_conn.go 44-150).
Plain(frames) == FlattenSeq([k \in DOMAIN frames |-> frames[k].data])
InTurn(frames, c) == \A k \in DOMAIN frames : Opens([c EXCEPT !.decryptCnt = @ + k - 1], frames[k])
Intact ==
  /\ InTurn(toCam, cam) /\ InTurn(toCtrl, ctrl)
  /\ IsPrefix(inbuf \o ctrl.readBuf \o Plain(toCtrl), FlattenSeq(replies))
  /\ up => inbuf \o ctrl.readBuf \o Plain(toCtrl) = FlattenSeq(replies)

\* When StartStream succeeds, camera and proxy agree: on the session, on the keys and
\* SSRCs of each direction and medium, and on the addresses, whatever keys the camera
\* returns and whether or not the endpoints were set up before over a connection that
\* died (controller.go 577-716, camera.go 218-313).  Responses are not matched with
\* requests: behind one timeout StartStream may return before the camera has heard
\* the start command, behind two it may take the answer to an earlier setup for its
\* own, and the keys differ.
InUse(own, offered) == IF own = NoSRTP THEN offered ELSE own
KeysAgree ==
  step = "started" /\ late < 2 =>
    /\ offer.session = ep.session /\ offer.address = ep.address
    /\ offer.video = ep.video /\ offer.audio = ep.audio
    /\ resp.address = offer.ip
    /\ resp.video = InUse(offer.own.video, offer.video)
    /\ resp.audio = InUse(offer.own.audio, offer.audio)
    /\ late = 0 => stream = [setup |-> offer, ssrc |-> ssrc]

(***************************************************************************)
(* What a comment of session.go says and the code does not do.             *)
(***************************************************************************)

\* "SetSessionID stores the HAP session ID for later use in stop commands"
\* (session.go 309): an end command that reaches the camera names the session that
\* was started.
EndNamesSession == ended # Nil => ended = stream.setup.session

=============================================================================
