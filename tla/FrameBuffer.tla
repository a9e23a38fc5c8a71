----------------------------- MODULE FrameBuffer -----------------------------
(***************************************************************************)
(* readVideoLoop of the SRTP proxy (internal/stream/proxy.go 290-527): it  *)
(* buffers the packets of a frame and forwards the frame when it is        *)
(* complete, hands an incomplete IDR frame to the cache-only callback and  *)
(* discards any other incomplete frame.                                    *)
(*                                                                         *)
(* The camera sends a stream of frames over UDP.  A packet is its place in *)
(* the stream; a key frame is a STAP-A with the parameter sets and a       *)
(* fragmented NALU, another frame is a fragmented or a single NALU.        *)
(* Packets that the loop skips before it counts them (foreign source, too  *)
(* short, failed decryption) are lost like those the network loses; the    *)
(* SRTP context has no replay protection, so that a packet may arrive      *)
(* twice.  The reply to RTCP and the once-a-second copy of the counters to *)
(* the log and to the callback are left out.                               *)
(***************************************************************************)
EXTENDS Integers, Sequences, FiniteSets

CONSTANTS
  FrameKinds,                \* the kinds of frames the camera sends
  MaxFrames,                 \* bound on the number of frames of a stream
  MaxFragments,              \* bound on the fragments that follow the first
  SeqMod,                    \* 65536 in the code
  FirstSeqs,                 \* sequence numbers a stream may start with
  FrameCap,                  \* 300 in the code
  MaxLate,                   \* bound on the late and repeated packets of a stream
  MaxBurst,                  \* bound on the packets lost in a row
  MidFrameJoin               \* may the first packet received be mid-frame?

ASSUME FrameBufferAssumption ==
  /\ FrameKinds \subseteq {"idr", "fragmented", "single"}
  /\ MaxFrames \in Nat /\ MaxFragments \in Nat /\ MaxLate \in Nat /\ MaxBurst \in Nat
  /\ FrameCap \in Nat \ {0}
  /\ SeqMod \in Nat /\ MaxBurst + 1 < SeqMod /\ FirstSeqs \subseteq 0 .. (SeqMod - 1)
  /\ MidFrameJoin \in BOOLEAN

VARIABLES
  stream,                    \* the packets the camera sends
  firstSeq,                  \* the sequence number of its first packet
  arrived,                   \* the packets received, in order of arrival
  lastSeq, lastFrameTS, frameGapped, frameBuf,
  dropCount, droppedFrames, highestVideoSeq,
  forwarded,                 \* the frames handed to onVideoRTP
  cacheOnly                  \* the frames handed to onIDRRTP

vars == <<stream, firstSeq, arrived, lastSeq, lastFrameTS, frameGapped, frameBuf,
          dropCount, droppedFrames, highestVideoSeq, forwarded, cacheOnly>>

Init ==
  /\ stream = <<>>
  /\ firstSeq \in FirstSeqs
  /\ arrived = <<>>
  /\ lastSeq = 0 /\ lastFrameTS = 0
  /\ frameGapped = FALSE
  /\ frameBuf = <<>>
  /\ dropCount = 0 /\ droppedFrames = 0 /\ highestVideoSeq = 0
  /\ forwarded = <<>> /\ cacheOnly = <<>>

SeqOf(i) == (firstSeq + i - 1) % SeqMod

-----------------------------------------------------------------------------
\* The packets of a frame with n fragments after the first: NALU type, RTP
\* timestamp, place in the frame and marker bit.
FrameLength(kind, n) ==
  CASE kind = "idr" -> n + 2 [] kind = "fragmented" -> n + 1 [] kind = "single" -> 1

NaluType(kind, j) ==
  LET start == IF kind = "idr" THEN 2 ELSE 1
  IN  IF j < start THEN "STAP-A"
      ELSE IF j > start THEN "FU-A"
      ELSE IF kind = "single" THEN "NALU" ELSE "FU-A start"

Frame(kind, n, ts) ==
  [j \in 1 .. FrameLength(kind, n) |->
     [type |-> NaluType(kind, j), ts |-> ts, pos |-> j, marker |-> j = FrameLength(kind, n)]]

LastTS == IF stream = <<>> THEN 0 ELSE stream[Len(stream)].ts

\* The camera sends a frame.
Send(kind, n) ==
  /\ LastTS < MaxFrames
  /\ stream' = stream \o Frame(kind, n, LastTS + 1)
  /\ UNCHANGED <<firstSeq, arrived, lastSeq, lastFrameTS, frameGapped, frameBuf, dropCount,
                 droppedFrames, highestVideoSeq, forwarded, cacheOnly>>

-----------------------------------------------------------------------------
\* A STAP-A opens every IDR access unit.  A mutated form that takes any frame
\* for one.
isIDRFrameLax(buf) == buf # <<>>

isIDRFrame(buf) == buf # <<>> /\ stream[buf[1]].type = "STAP-A"

isFrameStart(i) == stream[i].type \in {"NALU", "STAP-A", "FU-A start"}

\* The gap that the sequence number shows, modulo the width of the counter.  Two
\* mutated forms: one forgets the wrap-around, one lets a single loss pass.
GapSigned(i) == SeqOf(i) - ((lastSeq + 1) % SeqMod)

GapTolerant(i) ==
  LET gap == (SeqOf(i) - (lastSeq + 1)) % SeqMod IN IF gap = 1 THEN 0 ELSE gap

Gap(i) == (SeqOf(i) - (lastSeq + 1)) % SeqMod

\* A frame that ends goes to onVideoRTP, to onIDRRTP or nowhere.
FlushTo(out, buf, gapped) ==
  IF gapped THEN out ELSE Append(out, buf)
CacheTo(out, buf, gapped) ==
  IF gapped /\ isIDRFrame(buf) THEN Append(out, buf) ELSE out
CountDrop(gapped) == IF gapped THEN 1 ELSE 0

\* The gap flag after a flush at a timestamp change.  A mutated form that never
\* clears it there.
CarryAlways(i, boundary, gapped) == gapped

Carry(i, boundary, gapped) ==
  IF boundary THEN gapped /\ ~isFrameStart(i) ELSE gapped

\* The safety cap on the buffer.
Overflows(buf) == Len(buf) >= FrameCap

\* One turn of the loop, for packet i of the stream.
Receive(i) ==
  LET p        == stream[i]
      first    == arrived = <<>>
      gap      == IF first THEN 0 ELSE Gap(i)
      gapped1  == frameGapped \/ gap # 0
      boundary == ~first /\ p.ts # lastFrameTS /\ frameBuf # <<>>
      out1     == IF boundary THEN FlushTo(forwarded, frameBuf, gapped1) ELSE forwarded
      cache1   == IF boundary THEN CacheTo(cacheOnly, frameBuf, gapped1) ELSE cacheOnly
      buf1     == IF boundary THEN <<>> ELSE frameBuf
      gapped2  == Carry(i, boundary, gapped1)
      overflow == Overflows(buf1)
      buf2     == Append(IF overflow THEN <<>> ELSE buf1, i)
      gapped3  == gapped2 \/ overflow
  IN
  /\ arrived' = Append(arrived, i)
  /\ dropCount' = dropCount + gap
  /\ lastSeq' = SeqOf(i)
  /\ highestVideoSeq' =
       IF SeqOf(i) > highestVideoSeq \/ first THEN SeqOf(i) ELSE highestVideoSeq
  /\ lastFrameTS' = p.ts
  /\ IF p.marker
       THEN /\ forwarded' = FlushTo(out1, buf2, gapped3)
            /\ cacheOnly' = CacheTo(cache1, buf2, gapped3)
            /\ frameBuf' = <<>>
            /\ frameGapped' = FALSE
       ELSE /\ forwarded' = out1
            /\ cacheOnly' = cache1
            /\ frameBuf' = buf2
            /\ frameGapped' = gapped3
  /\ droppedFrames' = droppedFrames
       + (IF boundary THEN CountDrop(gapped1) ELSE 0)
       + (IF p.marker THEN CountDrop(gapped3) ELSE 0)
  /\ UNCHANGED <<stream, firstSeq>>

-----------------------------------------------------------------------------
Arrived == {arrived[k] : k \in DOMAIN arrived}

\* Where a packet arrived after a later one, or again.
Late == {k \in DOMAIN arrived : \E j \in 1 .. (k - 1) : arrived[j] >= arrived[k]}

LastArrived == arrived[Len(arrived)]

\* The network loses packets, or the loop skips them: they are never received.
\* The network may deliver a packet late, or twice.  A loss of SeqMod packets in a
\* row cannot be told from none.
Deliverable(i) ==
  /\ Cardinality(Late) < MaxLate \/ \A j \in Arrived : j < i
  /\ IF arrived = <<>>
       THEN MidFrameJoin \/ stream[i].pos = 1
       ELSE i - LastArrived \in (0 - MaxBurst) .. (MaxBurst + 1)

Next ==
  \/ \E kind \in FrameKinds, n \in 1 .. MaxFragments : Send(kind, n)
  \/ \E i \in DOMAIN stream : Deliverable(i) /\ Receive(i)

Spec == Init /\ [][Next]_vars

-----------------------------------------------------------------------------
Packet == [type : {"NALU", "STAP-A", "FU-A start", "FU-A"},
           ts : Nat, pos : Nat \ {0}, marker : BOOLEAN]

TypeOK ==
  /\ stream \in Seq(Packet) /\ firstSeq \in FirstSeqs
  /\ arrived \in Seq(DOMAIN stream)
  /\ lastSeq \in 0 .. (SeqMod - 1) /\ lastFrameTS \in Nat
  /\ highestVideoSeq \in 0 .. (SeqMod - 1)
  /\ frameGapped \in BOOLEAN
  /\ frameBuf \in Seq(DOMAIN stream) /\ Len(frameBuf) <= FrameCap
  /\ dropCount \in Nat /\ droppedFrames \in Nat
  /\ forwarded \in Seq(Seq(DOMAIN stream)) /\ cacheOnly \in Seq(Seq(DOMAIN stream))

Batches(out) == {out[k] : k \in DOMAIN out}

\* What reaches the RTSP clients has no holes: a forwarded buffer is a run of
\* consecutive packets of one frame up to its marker, whatever was lost or
\* delivered late.  Its beginning is missing only where the receiver joined, or
\* when it is the parameter sets of a key frame: an FU-A start after a lost STAP-A
\* looks like the first packet of a frame (proxy.go 381-387, 409-436, 442-449,
\* 478-496, 513-527).
NoHoles ==
  \A b \in Batches(forwarded) :
    /\ \A k \in 1 .. (Len(b) - 1) : b[k + 1] = b[k] + 1
    /\ \A k \in DOMAIN b : stream[b[k]].ts = stream[b[1]].ts
    /\ stream[b[Len(b)]].marker
    /\ stream[b[1]].pos = 1 \/ b[1] = arrived[1] \/ stream[b[1]].type = "FU-A start"

\* Unless a packet was late, a frame that arrived whole is forwarded, although
\* the end of the frame before was lost.  Only a loss right after the end of a
\* frame is held against the next one that arrives (proxy.go 381-387, 409,
\* 432-436, 495).
FrameOf(i) == {j \in DOMAIN stream : stream[j].ts = stream[i].ts}
LossBefore(j) ==
  \E k \in 2 .. Len(arrived) :
    arrived[k] = j /\ arrived[k - 1] # j - 1 /\ stream[arrived[k - 1]].marker
IntactForwarded ==
  Late = {} => \A i \in DOMAIN stream :
    (/\ stream[i].marker
     /\ FrameOf(i) \subseteq Arrived
     /\ Cardinality(FrameOf(i)) <= FrameCap
     /\ \A j \in FrameOf(i) : stream[j].pos = 1 => ~LossBefore(j))
    => \E b \in Batches(forwarded) : {b[k] : k \in DOMAIN b} = FrameOf(i)

\* Unless a packet was late, dropCount is the number of packets that were lost
\* between the first and the last received (proxy.go 380-386: VideoStats.Drops
\* feeds the loss alarm).
DropCountExact ==
  arrived # <<>> /\ Late = {} =>
    dropCount = LastArrived - arrived[1] + 1 - Len(arrived)

\* The IDR cache is offered frames that begin with their parameter sets, and
\* unless a packet was late, never one that was also forwarded (proxy.go
\* 414-424, 483-490).
CacheOnlyKeyFrames ==
  \A b \in Batches(cacheOnly) :
    /\ stream[b[1]].type = "STAP-A"
    /\ \A k \in DOMAIN b : stream[b[k]].ts = stream[b[1]].ts
    /\ Late = {} => \A f \in Batches(forwarded) : stream[f[1]].ts # stream[b[1]].ts

=============================================================================
