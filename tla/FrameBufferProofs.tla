-------------------------- MODULE FrameBufferProofs --------------------------
(***************************************************************************)
(* For any stream, any pattern of loss, delay and repetition whose bursts  *)
(* are shorter than the range of the sequence numbers, and any size of the *)
(* buffer: what the video reader forwards has no holes, what arrived       *)
(* intact is forwarded, losses are counted exactly, and the cache is       *)
(* offered key frames only.                                                *)
(***************************************************************************)
EXTENDS FrameBuffer, SequenceTheorems, FiniteSetTheorems, TLAPS

\* The stream is a run of whole frames.  The frame of packet i begins at
\* FirstOf(i).
FirstOf(i) == i - stream[i].pos + 1

StreamShape ==
  /\ \A i \in 1 .. Len(stream) :
       /\ stream[i].pos <= i /\ 1 <= stream[i].ts /\ stream[i].ts <= LastTS
       /\ i = Len(stream) => stream[i].marker
       /\ stream[i].type \in {"NALU", "STAP-A"} => stream[i].pos = 1
       /\ stream[i].pos = 1 => isFrameStart(i)
       /\ \A j \in FirstOf(i) .. i :
            stream[j].ts = stream[i].ts /\ stream[j].pos = j - FirstOf(i) + 1
  /\ \A i \in 1 .. (Len(stream) - 1) :
       /\ stream[i].marker => stream[i + 1].pos = 1
       /\ ~stream[i].marker =>
            stream[i + 1].ts = stream[i].ts /\ stream[i + 1].pos = stream[i].pos + 1
  /\ \A i, j \in 1 .. Len(stream) :
       i < j => /\ stream[i].ts <= stream[j].ts
                /\ stream[i].marker => stream[i].ts < stream[j].ts

\* A run of packets, and how it may begin.
Consecutive(b) == \A k \in 1 .. (Len(b) - 1) : b[k + 1] = b[k] + 1
GoodStart(i) == stream[i].pos = 1 \/ i = arrived[1] \/ stream[i].type = "FU-A start"
OneFrame(b) == \A k \in DOMAIN b : stream[b[k]].ts = stream[b[1]].ts

\* The reader is where the last packet left it: the buffer holds packets of its
\* frame and ends with it, unless it ended the frame.
BufferShape ==
  /\ arrived = <<>> => /\ frameBuf = <<>> /\ frameGapped = FALSE /\ dropCount = 0
                       /\ forwarded = <<>> /\ cacheOnly = <<>>
  /\ arrived # <<>> =>
       /\ lastSeq = SeqOf(LastArrived) /\ lastFrameTS = stream[LastArrived].ts
       /\ frameBuf = <<>> <=> stream[LastArrived].marker
       /\ frameBuf # <<>> => frameBuf[Len(frameBuf)] = LastArrived
  /\ frameBuf = <<>> => frameGapped = FALSE
  /\ \A k \in DOMAIN frameBuf : stream[frameBuf[k]].ts = lastFrameTS
  /\ frameBuf # <<>> /\ frameGapped = FALSE => Consecutive(frameBuf) /\ GoodStart(frameBuf[1])

\* Frames that have left the buffer are older than those in it.
FlushedBefore ==
  /\ \A b \in Batches(forwarded) \cup Batches(cacheOnly) : b # <<>>
  /\ Late = {} => \A b \in Batches(forwarded) \cup Batches(cacheOnly) :
                    /\ stream[b[1]].ts <= lastFrameTS
                    /\ frameBuf # <<>> => stream[b[1]].ts < lastFrameTS

\* Whether what has arrived of the frame of packet i is all of it, up to i.
IntactUpTo(i) ==
  /\ \A j \in FirstOf(i) .. i : j \in Arrived
  /\ stream[i].pos <= FrameCap
  /\ ~LossBefore(FirstOf(i))

\* The buffer holds all of such a frame, and once it has ended, it was forwarded.
KeepsIntact ==
  Late = {} /\ arrived # <<>> /\ ~stream[LastArrived].marker /\ IntactUpTo(LastArrived) =>
    /\ frameGapped = FALSE
    /\ Len(frameBuf) = stream[LastArrived].pos
    /\ \A k \in 1 .. Len(frameBuf) : frameBuf[k] = FirstOf(LastArrived) + k - 1

ForwardsIntact ==
  Late = {} => \A i \in 1 .. Len(stream) :
    stream[i].marker /\ IntactUpTo(i) =>
      \E b \in Batches(forwarded) :
        Len(b) = stream[i].pos /\ \A k \in 1 .. Len(b) : b[k] = FirstOf(i) + k - 1

IInv ==
  /\ TypeOK /\ StreamShape /\ BufferShape /\ NoHoles /\ FlushedBefore
  /\ CacheOnlyKeyFrames /\ DropCountExact /\ KeepsIntact /\ ForwardsIntact

-----------------------------------------------------------------------------
(***************************************************************************)
(* Sequence numbers.                                                       *)
(***************************************************************************)
LEMMA Remainder ==
  ASSUME NEW a \in Int, NEW n \in Nat \ {0}
  PROVE  \E q \in Int, r \in 0 .. (n - 1) : r = a % n /\ a = n * q + r
  OBVIOUS

\* The gap is the number of packets between the last and the next, unless that is
\* negative, and it is 0 only for the successor.
NumberGap(a, b, n) == ((a % n) - ((b % n) + 1)) % n

LEMMA GapOfNumbers ==
  ASSUME NEW n \in Nat \ {0}, NEW a \in Int, NEW b \in Int, NEW d \in Int,
         d = a - b - 1, 0 - n < d, d < n
  PROVE  /\ NumberGap(a, b, n) \in 0 .. (n - 1)
         /\ NumberGap(a, b, n) = 0 <=> d = 0
         /\ d >= 0 => NumberGap(a, b, n) = d
<1>0. PICK g : g = NumberGap(a, b, n)
  OBVIOUS
<1>1. PICK p \in Int, s \in 0 .. (n - 1) : s = a % n /\ a = n * p + s
  BY Remainder
<1>2. PICK q \in Int, r \in 0 .. (n - 1) : r = b % n /\ b = n * q + r
  BY Remainder
<1>3. PICK e \in Int : e = s - (r + 1)
  OBVIOUS
<1>4. PICK t \in Int, u \in 0 .. (n - 1) : u = e % n /\ e = n * t + u
  BY Remainder
<1>5. u = g
  BY <1>0, <1>1, <1>2, <1>3, <1>4 DEF NumberGap
<1>6. PICK k \in Int : k = p - q + t
  OBVIOUS
<1>7. d = n * k + g
  <2>1. PICK x \in Int, y \in Int, z \in Int : x = n * p /\ y = n * q /\ z = n * t
    OBVIOUS
  <2>2. n * k = x - y + z
    BY <1>6, <2>1
  <2>3. a = x + s /\ b = y + r /\ s - (r + 1) = z + g
    BY <1>1, <1>2, <1>3, <1>4, <1>5, <2>1
  <2>4. a - b - 1 = (x - y + z) + g
    BY <1>5, <2>3
  <2> QED
    BY <2>2, <2>4
<1>8. CASE k = 0
  BY <1>0, <1>4, <1>5, <1>7, <1>8
<1>9. CASE k = -1
  BY <1>0, <1>4, <1>5, <1>7, <1>9
<1>10. CASE k >= 1
  <2>1. n * k >= n * 1
    BY <1>10
  <2> QED
    BY <1>4, <1>5, <1>7, <2>1
<1>11. CASE k <= -2
  <2>1. n * k <= n * (-2)
    BY <1>11
  <2> QED
    BY <1>4, <1>5, <1>7, <2>1
<1> QED
  BY <1>8, <1>9, <1>10, <1>11

-----------------------------------------------------------------------------
(***************************************************************************)
(* The stream of the camera.                                               *)
(***************************************************************************)

LEMMA PacketFields ==
  ASSUME NEW q \in Seq(Packet)
  PROVE  /\ Len(q) \in Nat /\ DOMAIN q = 1 .. Len(q)
         /\ \A i \in 1 .. Len(q) : q[i].ts \in Nat /\ q[i].pos \in Nat \ {0}
<1>1. Len(q) \in Nat /\ DOMAIN q = 1 .. Len(q)
  BY LenProperties
<1>2. \A i \in 1 .. Len(q) : q[i] \in Packet
  BY <1>1, ElementOfSeq
<1>3. \A p \in Packet : p.ts \in Nat /\ p.pos \in Nat \ {0}
  BY DEF Packet
<1> QED
  BY <1>1, <1>2, <1>3

LEMMA PacketTypes ==
  ASSUME TypeOK
  PROVE  /\ Len(stream) \in Nat /\ DOMAIN stream = 1 .. Len(stream)
         /\ \A i \in 1 .. Len(stream) : stream[i].ts \in Nat /\ stream[i].pos \in Nat \ {0}
  BY PacketFields DEF TypeOK

\* Every packet before the first of a frame belongs to an earlier frame.
LEMMA FrameBegins ==
  ASSUME TypeOK, StreamShape, NEW i \in 1 .. Len(stream)
  PROVE  /\ FirstOf(i) \in 1 .. i /\ stream[FirstOf(i)].pos = 1
         /\ \A j \in 1 .. (FirstOf(i) - 1) : stream[j].ts < stream[i].ts
<1>1. /\ Len(stream) \in Nat
      /\ \A j \in 1 .. Len(stream) : stream[j].ts \in Nat /\ stream[j].pos \in Nat \ {0}
  BY PacketTypes
<1>2. PICK s : s = FirstOf(i)
  OBVIOUS
<1>3. s \in 1 .. i
  BY <1>1, <1>2 DEF StreamShape, FirstOf
<1>4. stream[s].pos = 1 /\ s \in 1 .. Len(stream)
  <2>1. s \in s .. i /\ s \in 1 .. Len(stream) /\ s - s + 1 = 1
    BY <1>1, <1>3
  <2>2. \A j \in s .. i : stream[j].pos = j - s + 1
    BY <1>2 DEF StreamShape
  <2> QED
    BY <2>1, <2>2
<1>5. ASSUME NEW j \in 1 .. (s - 1) PROVE stream[j].ts < stream[i].ts
  <2>1. s - 1 \in 1 .. (Len(stream) - 1) /\ s - 1 \in 1 .. Len(stream) /\ (s - 1) + 1 = s
    BY <1>3, <1>5
  <2>2. stream[s - 1].pos \in Nat \ {0}
    BY <1>1, <2>1
  <2>3. stream[s - 1].marker
    BY <1>4, <2>1, <2>2 DEF StreamShape
  <2>4. stream[s - 1].ts < stream[i].ts
    BY <1>3, <2>1, <2>3 DEF StreamShape
  <2>5. CASE j = s - 1
    BY <2>4, <2>5
  <2>6. CASE j < s - 1
    <3>1. stream[j].ts <= stream[s - 1].ts
      BY <1>3, <2>1, <2>6 DEF StreamShape
    <3>2. j \in 1 .. Len(stream)
      BY <1>3
    <3> QED
      BY <1>1, <2>1, <2>4, <3>1, <3>2
  <2> QED
    BY <1>3, <2>5, <2>6
<1> QED
  BY <1>2, <1>3, <1>4, <1>5

\* The frame that ends with a marker.
LEMMA FrameIsInterval ==
  ASSUME TypeOK, StreamShape, NEW i \in 1 .. Len(stream), stream[i].marker
  PROVE  /\ FrameOf(i) = FirstOf(i) .. i
         /\ Cardinality(FrameOf(i)) = stream[i].pos
<1>1. /\ Len(stream) \in Nat /\ DOMAIN stream = 1 .. Len(stream)
      /\ \A j \in 1 .. Len(stream) : stream[j].ts \in Nat /\ stream[j].pos \in Nat \ {0}
  BY PacketTypes
<1>2. PICK s : s = FirstOf(i)
  OBVIOUS
<1>3. s \in 1 .. i /\ \A j \in 1 .. (s - 1) : stream[j].ts < stream[i].ts
  BY <1>2, FrameBegins
<1>4. \A j \in s .. i : stream[j].ts = stream[i].ts
  BY <1>2 DEF StreamShape
<1>5. ASSUME NEW j \in (i + 1) .. Len(stream) PROVE stream[i].ts < stream[j].ts
  <2>1. j \in 1 .. Len(stream) /\ i < j
    BY <1>1
  <2> QED
    BY <2>1 DEF StreamShape
<1>6. ASSUME NEW j \in 1 .. Len(stream) PROVE stream[j].ts = stream[i].ts <=> j \in s .. i
  <2>1. stream[j].ts \in Nat /\ stream[i].ts \in Nat
    BY <1>1
  <2>2. j \in 1 .. (s - 1) \/ j \in s .. i \/ j \in (i + 1) .. Len(stream)
    BY <1>1, <1>3
  <2>3. CASE j \in 1 .. (s - 1)
    BY <1>3, <2>1, <2>3
  <2>4. CASE j \in s .. i
    BY <1>4, <2>4
  <2>5. CASE j \in (i + 1) .. Len(stream)
    BY <1>3, <1>5, <2>1, <2>5
  <2> QED
    BY <2>2, <2>3, <2>4, <2>5
<1>7. FrameOf(i) = s .. i
  <2>1. \A j \in s .. i : j \in 1 .. Len(stream)
    BY <1>1, <1>3
  <2> QED
    BY <1>1, <1>6, <2>1, Zenon DEF FrameOf
<1>8. Cardinality(s .. i) = stream[i].pos
  <2>1. s \in Int /\ i \in Int /\ i - s + 1 = stream[i].pos /\ ~(s > i)
    BY <1>1, <1>2, <1>3 DEF FirstOf
  <2>2. Cardinality(s .. i) = IF s > i THEN 0 ELSE i - s + 1
    BY <2>1, FS_Interval
  <2> QED
    BY <2>1, <2>2
<1> QED
  BY <1>2, <1>7, <1>8

\* A frame of the camera.
WholeFrame(f, last, ts) ==
  \A j \in 1 .. last :
    /\ f[j].ts = ts /\ f[j].pos = j /\ (f[j].marker <=> j = last)
    /\ f[j].type \in {"NALU", "STAP-A"} => j = 1
    /\ j = 1 => f[j].type \in {"NALU", "STAP-A", "FU-A start"}

LEMMA FramePackets ==
  ASSUME NEW kind \in {"idr", "fragmented", "single"}, NEW n \in Nat, n >= 1, NEW ts \in Nat
  PROVE  \E f \in Seq(Packet), last \in Nat \ {0} :
           f = Frame(kind, n, ts) /\ Len(f) = last /\ WholeFrame(f, last, ts)
<1>1. PICK last \in Nat \ {0} : last = FrameLength(kind, n) /\ (kind = "single" => last = 1)
  BY DEF FrameLength
<1> DEFINE P(j) == [type |-> NaluType(kind, j), ts |-> ts, pos |-> j, marker |-> j = last]
<1>2. Frame(kind, n, ts) = [j \in 1 .. last |-> P(j)]
  BY <1>1 DEF Frame
<1>3. ASSUME NEW j \in 1 .. last
      PROVE  /\ P(j) \in Packet /\ P(j).ts = ts /\ P(j).pos = j /\ (P(j).marker <=> j = last)
             /\ P(j).type \in {"NALU", "STAP-A"} => j = 1
             /\ j = 1 => P(j).type \in {"NALU", "STAP-A", "FU-A start"}
  <2>1. PICK x : x = NaluType(kind, j)
    OBVIOUS
  <2>2. j \in Nat /\ j >= 1 /\ (kind = "single" => j = 1)
    BY <1>1
  <2>3. /\ x \in {"NALU", "STAP-A", "FU-A start", "FU-A"}
        /\ x \in {"NALU", "STAP-A"} => j = 1
        /\ j = 1 => x \in {"NALU", "STAP-A", "FU-A start"}
    <3>1. CASE kind = "idr"
      <4>1. x = IF j < 2 THEN "STAP-A" ELSE IF j > 2 THEN "FU-A" ELSE "FU-A start"
        BY <2>1, <3>1 DEF NaluType
      <4>2. j < 2 <=> j = 1
        BY <2>2
      <4>3. j = 1 => ~(j > 2)
        OBVIOUS
      <4> QED
        BY <4>1, <4>2, <4>3, Zenon
    <3>2. CASE kind # "idr"
      <4>1. x = IF j < 1 THEN "STAP-A" ELSE IF j > 1 THEN "FU-A"
                ELSE IF kind = "single" THEN "NALU" ELSE "FU-A start"
        BY <2>1, <3>2 DEF NaluType
      <4>2. ~(j < 1) /\ (j > 1 <=> j # 1)
        BY <2>2
      <4> QED
        BY <4>1, <4>2, Zenon
    <3> QED
      BY <3>1, <3>2
  <2>4. PICK m \in BOOLEAN : m <=> j = last
    OBVIOUS
  <2>5. P(j) = [type |-> x, ts |-> ts, pos |-> j, marker |-> m]
    BY <2>1, <2>4, Zenon
  <2>6. j \in Nat \ {0}
    BY <2>2
  <2>7. [type |-> x, ts |-> ts, pos |-> j, marker |-> m] \in Packet
    BY <2>3, <2>4, <2>6, Zenon DEF Packet
  <2>8. P(j).ts = ts /\ P(j).pos = j /\ (P(j).marker <=> j = last) /\ P(j).type = x
    BY <2>4, <2>5, Zenon
  <2> QED
    BY <2>3, <2>5, <2>7, <2>8, Zenon
<1> HIDE DEF P
<1>4. PICK f : f = [j \in 1 .. last |-> P(j)]
  OBVIOUS
<1>5. f \in Seq(Packet)
  <2>1. last \in Nat
    BY <1>1
  <2>2. f \in [1 .. last -> Packet]
    BY <1>3, <1>4
  <2> QED
    BY <2>1, <2>2, SeqDef
<1>6. Len(f) = last
  <2>1. DOMAIN f = 1 .. last /\ Len(f) \in Nat /\ DOMAIN f = 1 .. Len(f)
    BY <1>4, <1>5, LenProperties
  <2> QED
    BY <1>1, <2>1
<1>7. \A j \in 1 .. last : f[j] = P(j)
  BY <1>4
<1>8. Frame(kind, n, ts) = f
  BY <1>2, <1>4
<1>9. ASSUME NEW j \in 1 .. last
      PROVE  /\ f[j].ts = ts /\ f[j].pos = j /\ (f[j].marker <=> j = last)
             /\ f[j].type \in {"NALU", "STAP-A"} => j = 1
             /\ j = 1 => f[j].type \in {"NALU", "STAP-A", "FU-A start"}
  <2>1. f[j] = P(j)
    BY <1>7
  <2> QED
    BY <1>3, <2>1, Zenon
<1>10. WholeFrame(f, last, ts)
  BY <1>9, Zenon DEF WholeFrame
<1> QED
  BY <1>1, <1>5, <1>6, <1>8, <1>10, Zenon

LEMMA ConcatPackets ==
  ASSUME NEW a \in Seq(Packet), NEW b \in Seq(Packet)
  PROVE  /\ a \o b \in Seq(Packet) /\ Len(a \o b) = Len(a) + Len(b)
         /\ \A i \in 1 .. Len(a) : (a \o b)[i] = a[i]
         /\ \A j \in 1 .. Len(b) : (a \o b)[Len(a) + j] = b[j]
<1>1. Len(a) \in Nat /\ Len(b) \in Nat
  BY LenProperties
<1> QED
  BY <1>1, ConcatProperties

\* What the camera has sent stays, and what it sends is a whole frame.
LEMMA SendStep ==
  ASSUME TypeOK, StreamShape, NEW kind \in FrameKinds, NEW n \in 1 .. MaxFragments,
         Send(kind, n)
  PROVE  /\ stream' \in Seq(Packet) /\ Len(stream) \in Nat /\ Len(stream') \in Nat
         /\ Len(stream) < Len(stream')
         /\ \A i \in 1 .. Len(stream) : i \in 1 .. Len(stream') /\ stream'[i] = stream[i]
         /\ StreamShape'
<1>1. PICK N \in Nat : N = Len(stream) /\ stream \in Seq(Packet)
  BY PacketTypes DEF TypeOK
<1>2. \A i \in 1 .. N : stream[i].ts \in Nat /\ stream[i].pos \in Nat \ {0}
  BY <1>1, PacketTypes
<1>3. PICK T \in Nat : T = LastTS + 1 /\ LastTS \in Nat
  <2>1. CASE stream = <<>>
    BY <2>1 DEF LastTS
  <2>2. CASE stream # <<>>
    <3>1. N \in 1 .. N
      BY <1>1, <2>2, EmptySeq
    <3>2. LastTS = stream[N].ts
      BY <1>1, <2>2 DEF LastTS
    <3> QED
      BY <1>2, <3>1, <3>2
  <2> QED
    BY <2>1, <2>2
<1>4. PICK f \in Seq(Packet), L \in Nat \ {0} :
        f = Frame(kind, n, T) /\ Len(f) = L /\ WholeFrame(f, L, T)
  <2>1. kind \in {"idr", "fragmented", "single"}
    BY FrameBufferAssumption
  <2>2. n \in Nat /\ n >= 1
    BY FrameBufferAssumption
  <2> QED
    BY <1>3, <2>1, <2>2, FramePackets, Zenon
<1>5. PICK t : t = stream'
  OBVIOUS
<1>6. t = stream \o f
  BY <1>3, <1>4, <1>5 DEF Send
<1>7. t \in Seq(Packet) /\ Len(t) = N + L
  <2>1. stream \in Seq(Packet) /\ f \in Seq(Packet)
    BY <1>1
  <2>2. stream \o f \in Seq(Packet) /\ Len(stream \o f) = Len(stream) + Len(f)
    BY <2>1, ConcatPackets
  <2> QED
    BY <1>1, <1>4, <1>6, <2>2
<1>8. /\ \A i \in 1 .. N : t[i] = stream[i]
      /\ \A j \in 1 .. L : t[N + j] = f[j]
  <2>1. stream \in Seq(Packet) /\ f \in Seq(Packet)
    BY <1>1
  <2>2. /\ \A i \in 1 .. Len(stream) : (stream \o f)[i] = stream[i]
        /\ \A j \in 1 .. Len(f) : (stream \o f)[Len(stream) + j] = f[j]
    BY <2>1, ConcatPackets
  <2> QED
    BY <1>1, <1>4, <1>6, <2>2
<1>9. ASSUME NEW i \in (N + 1) .. (N + L)
      PROVE  /\ t[i].ts = T /\ t[i].pos = i - N /\ (t[i].marker <=> i = N + L)
             /\ t[i].type \in {"NALU", "STAP-A"} => i = N + 1
             /\ i = N + 1 => t[i].type \in {"NALU", "STAP-A", "FU-A start"}
  <2>1. PICK j \in 1 .. L : j = i - N
    OBVIOUS
  <2>2. N + j = i
    BY <2>1
  <2>3. (j = L <=> i = N + L) /\ (j = 1 <=> i = N + 1)
    BY <2>1
  <2>4. t[i] = f[j]
    BY <1>8, <2>2, Zenon
  <2>5. /\ f[j].ts = T /\ f[j].pos = j /\ (f[j].marker <=> j = L)
        /\ f[j].type \in {"NALU", "STAP-A"} => j = 1
        /\ j = 1 => f[j].type \in {"NALU", "STAP-A", "FU-A start"}
    BY <1>4, <2>1 DEF WholeFrame
  <2> QED
    BY <2>1, <2>3, <2>4, <2>5, Zenon
<1>10. LastTS' = T
  <2>1. t # <<>> /\ N + L \in (N + 1) .. (N + L)
    BY <1>7, EmptySeq
  <2>2. LastTS' = t[Len(t)].ts
    BY <1>5, <2>1 DEF LastTS
  <2> QED
    BY <1>7, <1>9, <2>1, <2>2
<1>11. ASSUME NEW i \in 1 .. N
       PROVE  stream[i].ts < T
  BY <1>1, <1>2, <1>3 DEF StreamShape
<1>12. ASSUME NEW i \in 1 .. (N + L)
       PROVE  i \in 1 .. N \/ i \in (N + 1) .. (N + L)
  OBVIOUS
<1>13. ASSUME NEW i \in 1 .. Len(t)
       PROVE  /\ t[i].pos <= i /\ 1 <= t[i].ts /\ t[i].ts <= T
              /\ i = Len(t) => t[i].marker
              /\ t[i].type \in {"NALU", "STAP-A"} => t[i].pos = 1
              /\ t[i].pos = 1 => t[i].type \in {"NALU", "STAP-A", "FU-A start"}
              /\ \A j \in (i - t[i].pos + 1) .. i :
                   t[j].ts = t[i].ts /\ t[j].pos = j - (i - t[i].pos + 1) + 1
  <2>1. CASE i \in 1 .. N
    <3>1. t[i] = stream[i] /\ i # Len(t)
      BY <1>7, <1>8, <2>1
    <3>2. /\ stream[i].pos <= i /\ 1 <= stream[i].ts
          /\ stream[i].type \in {"NALU", "STAP-A"} => stream[i].pos = 1
          /\ stream[i].pos = 1 => stream[i].type \in {"NALU", "STAP-A", "FU-A start"}
      BY <1>1, <2>1 DEF StreamShape, isFrameStart
    <3>3. stream[i].ts <= T
      BY <1>2, <1>3, <1>11, <2>1
    <3>4. ASSUME NEW j \in (i - stream[i].pos + 1) .. i
          PROVE  t[j].ts = t[i].ts /\ t[j].pos = j - (i - stream[i].pos + 1) + 1
      <4>1. PICK p \in Nat : p = stream[i].pos
        BY <1>2, <2>1
      <4>2. j \in (i - p + 1) .. i /\ p <= i
        BY <3>2, <3>4, <4>1, Zenon
      <4>3. j \in 1 .. N
        BY <1>1, <2>1, <4>1, <4>2
      <4>4. stream[j].ts = stream[i].ts /\ stream[j].pos = j - (i - stream[i].pos + 1) + 1
        BY <1>1, <2>1 DEF StreamShape, FirstOf
      <4> QED
        BY <1>8, <3>1, <4>3, <4>4
    <3> QED
      BY <3>1, <3>2, <3>3, <3>4
  <2>2. CASE i \in (N + 1) .. (N + L)
    <3>1. /\ t[i].ts = T /\ t[i].pos = i - N /\ (t[i].marker <=> i = N + L)
          /\ t[i].type \in {"NALU", "STAP-A"} => i = N + 1
          /\ i = N + 1 => t[i].type \in {"NALU", "STAP-A", "FU-A start"}
      BY <1>9, <2>2, Zenon
    <3>2. (i - N = 1 <=> i = N + 1) /\ i - N <= i /\ 1 <= T /\ T <= T /\ i - (i - N) + 1 = N + 1
      BY <1>3, <2>2
    <3>3. ASSUME NEW j \in (N + 1) .. i
          PROVE  t[j].ts = T /\ t[j].pos = j - (N + 1) + 1
      <4>1. j \in (N + 1) .. (N + L) /\ j - N = j - (N + 1) + 1
        BY <2>2
      <4> QED
        BY <1>9, <4>1, Zenon
    <3> QED
      BY <1>7, <3>1, <3>2, <3>3, Zenon
  <2> QED
    BY <1>7, <1>12, <2>1, <2>2, Zenon
<1>14. ASSUME NEW i \in 1 .. (Len(t) - 1)
       PROVE  /\ t[i].marker => t[i + 1].pos = 1
              /\ ~t[i].marker => t[i + 1].ts = t[i].ts /\ t[i + 1].pos = t[i].pos + 1
  <2>1. CASE i \in 1 .. (N - 1)
    <3>1. t[i] = stream[i] /\ t[i + 1] = stream[i + 1]
      BY <1>8, <2>1
    <3> QED
      BY <1>1, <2>1, <3>1 DEF StreamShape
  <2>2. CASE i = N
    <3>1. t[i] = stream[i] /\ t[i].marker
      BY <1>1, <1>8, <2>2 DEF StreamShape
    <3>2. i + 1 \in (N + 1) .. (N + L) /\ (i + 1) - N = 1
      BY <2>2
    <3>3. t[i + 1].pos = 1
      BY <1>9, <3>2
    <3> QED
      BY <3>1, <3>3
  <2>3. CASE i \in (N + 1) .. (N + L - 1)
    <3>1. /\ i \in (N + 1) .. (N + L) /\ i + 1 \in (N + 1) .. (N + L) /\ i # N + L
          /\ (i + 1) - N = (i - N) + 1
      BY <2>3
    <3>2. ~t[i].marker /\ t[i + 1].ts = t[i].ts /\ t[i + 1].pos = t[i].pos + 1
      BY <1>9, <3>1, Zenon
    <3> QED
      BY <3>2
  <2>4. i \in 1 .. (N - 1) \/ i = N \/ i \in (N + 1) .. (N + L - 1)
    BY <1>7
  <2> QED
    BY <2>1, <2>2, <2>3, <2>4
<1>15. ASSUME NEW i \in 1 .. Len(t), NEW j \in 1 .. Len(t), i < j
       PROVE  t[i].ts <= t[j].ts /\ (t[i].marker => t[i].ts < t[j].ts)
  <2>1. CASE i \in 1 .. N /\ j \in 1 .. N
    <3>1. t[i] = stream[i] /\ t[j] = stream[j]
      BY <1>8, <2>1
    <3> QED
      BY <1>1, <1>15, <2>1, <3>1 DEF StreamShape
  <2>2. CASE i \in 1 .. N /\ j \in (N + 1) .. (N + L)
    <3>1. t[i] = stream[i] /\ t[j].ts = T
      BY <1>8, <1>9, <2>2
    <3>2. stream[i].ts < T /\ stream[i].ts <= T
      BY <1>2, <1>11, <2>2
    <3> QED
      BY <3>1, <3>2
  <2>3. CASE i \in (N + 1) .. (N + L) /\ j \in (N + 1) .. (N + L)
    <3>1. t[i].ts = T /\ t[j].ts = T /\ (t[i].marker <=> i = N + L)
      BY <1>9, <2>3, Zenon
    <3>2. i # N + L /\ T <= T
      BY <1>15, <2>3
    <3> QED
      BY <3>1, <3>2
  <2>4. ~(i \in (N + 1) .. (N + L) /\ j \in 1 .. N)
    BY <1>15
  <2> QED
    BY <1>7, <1>12, <2>1, <2>2, <2>3, <2>4, Zenon
<1>16. StreamShape'
  BY <1>5, <1>10, <1>13, <1>14, <1>15, Zenon DEF StreamShape, FirstOf, isFrameStart
<1>17. /\ Len(t) \in Nat /\ N < Len(t)
       /\ \A i \in 1 .. N : i \in 1 .. Len(t) /\ t[i] = stream[i]
  BY <1>7, <1>8
<1> QED
  BY <1>1, <1>5, <1>7, <1>16, <1>17, Zenon

-----------------------------------------------------------------------------
(***************************************************************************)
(* The indices that the reader keeps.                                      *)
(***************************************************************************)
LEMMA SeqOfMore ==
  ASSUME NEW S, NEW T, S \subseteq T
  PROVE  Seq(S) \subseteq Seq(T)
<1>1. ASSUME NEW s \in Seq(S) PROVE s \in Seq(T)
  <2>1. PICK n \in Nat : s \in [1 .. n -> S]
    BY SeqDef
  <2>2. s \in [1 .. n -> T]
    BY <2>1
  <2> QED
    BY <2>1, <2>2, SeqDef
<1> QED
  BY <1>1

LEMMA Indices ==
  ASSUME NEW n \in Nat, NEW q \in Seq(1 .. n)
  PROVE  /\ Len(q) \in Nat /\ DOMAIN q = 1 .. Len(q)
         /\ \A k \in 1 .. Len(q) : q[k] \in 1 .. n
         /\ q # <<>> => 1 \in 1 .. Len(q) /\ Len(q) \in 1 .. Len(q)
         /\ q = <<>> => Len(q) = 0
<1>1. Len(q) \in Nat /\ DOMAIN q = 1 .. Len(q)
  BY LenProperties
<1>2. \A k \in 1 .. Len(q) : q[k] \in 1 .. n
  BY <1>1, ElementOfSeq
<1>3. (q = <<>>) <=> (Len(q) = 0)
  BY EmptySeq
<1> QED
  BY <1>1, <1>2, <1>3

LEMMA BatchTypes ==
  ASSUME NEW S, NEW out \in Seq(Seq(S))
  PROVE  \A b \in Batches(out) : b \in Seq(S)
<1>1. Len(out) \in Nat /\ DOMAIN out = 1 .. Len(out)
  BY LenProperties
<1>2. \A k \in 1 .. Len(out) : out[k] \in Seq(S)
  BY <1>1, ElementOfSeq
<1> QED
  BY <1>1, <1>2 DEF Batches

LEMMA ReaderTypes ==
  ASSUME TypeOK
  PROVE  /\ Len(stream) \in Nat
         /\ arrived \in Seq(1 .. Len(stream)) /\ frameBuf \in Seq(1 .. Len(stream))
         /\ \A b \in Batches(forwarded) \cup Batches(cacheOnly) : b \in Seq(1 .. Len(stream))
         /\ arrived # <<>> => LastArrived \in 1 .. Len(stream)
<1>1. Len(stream) \in Nat /\ DOMAIN stream = 1 .. Len(stream)
  BY PacketTypes
<1>2. PICK D : D = 1 .. Len(stream)
  OBVIOUS
<1>3. /\ arrived \in Seq(D) /\ frameBuf \in Seq(D)
      /\ forwarded \in Seq(Seq(D)) /\ cacheOnly \in Seq(Seq(D))
  BY <1>1, <1>2, Zenon DEF TypeOK
<1>4. \A b \in Batches(forwarded) \cup Batches(cacheOnly) : b \in Seq(D)
  BY <1>3, BatchTypes
<1>5. arrived # <<>> => LastArrived \in D
  BY <1>1, <1>2, <1>3, Indices DEF LastArrived
<1> QED
  BY <1>1, <1>2, <1>3, <1>4, <1>5

\* A frame more in the stream changes nothing for the reader.
LEMMA SendIInv ==
  ASSUME IInv, NEW kind \in FrameKinds, NEW n \in 1 .. MaxFragments, Send(kind, n)
  PROVE  IInv'
<1> USE DEF IInv
<1>1. PICK N \in Nat : N = Len(stream)
  BY PacketTypes
<1>2. /\ stream' \in Seq(Packet) /\ Len(stream') \in Nat /\ N < Len(stream')
      /\ \A i \in 1 .. N : i \in 1 .. Len(stream') /\ stream'[i] = stream[i]
      /\ StreamShape'
  BY <1>1, SendStep
<1>3. UNCHANGED <<firstSeq, arrived, lastSeq, lastFrameTS, frameGapped, frameBuf, dropCount,
                  droppedFrames, highestVideoSeq, forwarded, cacheOnly>>
  BY DEF Send
<1>4. /\ Len(arrived) \in Nat /\ DOMAIN arrived = 1 .. Len(arrived)
      /\ \A k \in 1 .. Len(arrived) : arrived[k] \in 1 .. N
      /\ arrived # <<>> => LastArrived \in 1 .. N
  BY <1>1, ReaderTypes, Indices
<1>5. /\ Len(frameBuf) \in Nat /\ DOMAIN frameBuf = 1 .. Len(frameBuf)
      /\ \A k \in 1 .. Len(frameBuf) : frameBuf[k] \in 1 .. N
      /\ frameBuf # <<>> => frameBuf[1] \in 1 .. N
  BY <1>1, ReaderTypes, Indices
<1>6. ASSUME NEW b \in Batches(forwarded) \cup Batches(cacheOnly)
      PROVE  /\ Len(b) \in Nat /\ DOMAIN b = 1 .. Len(b) /\ b # <<>>
             /\ \A k \in 1 .. Len(b) : b[k] \in 1 .. N
             /\ b[1] \in 1 .. N /\ b[Len(b)] \in 1 .. N
  BY <1>1, ReaderTypes, Indices DEF FlushedBefore
<1>7. TypeOK'
  <2>1. DOMAIN stream = 1 .. N /\ DOMAIN stream' = 1 .. Len(stream')
    BY <1>1, <1>2, PacketTypes, LenProperties
  <2>2. DOMAIN stream \subseteq DOMAIN stream'
    BY <1>2, <2>1
  <2>3. Seq(DOMAIN stream) \subseteq Seq(DOMAIN stream')
    BY <2>2, SeqOfMore
  <2>4. Seq(Seq(DOMAIN stream)) \subseteq Seq(Seq(DOMAIN stream'))
    BY <2>3, SeqOfMore
  <2> QED
    BY <1>2, <1>3, <2>3, <2>4, Zenon DEF TypeOK
<1>8. BufferShape'
  BY <1>2, <1>3, <1>4, <1>5 DEF BufferShape, LastArrived, SeqOf, Consecutive, GoodStart
<1>9. ASSUME NEW b \in Batches(forwarded) \cup Batches(cacheOnly)
      PROVE  /\ \A k \in DOMAIN b : stream'[b[k]] = stream[b[k]]
             /\ stream'[b[1]] = stream[b[1]] /\ stream'[b[Len(b)]] = stream[b[Len(b)]]
  BY <1>2, <1>6
<1>10. UNCHANGED <<Late, Batches(forwarded), Batches(cacheOnly)>>
  BY <1>3 DEF Late, Batches
<1>11. NoHoles'
  <2>1. ASSUME NEW b \in Batches(forwarded)
        PROVE  /\ \A k \in 1 .. (Len(b) - 1) : b[k + 1] = b[k] + 1
               /\ \A k \in DOMAIN b : stream'[b[k]].ts = stream'[b[1]].ts
               /\ stream'[b[Len(b)]].marker
               /\ \/ stream'[b[1]].pos = 1 \/ b[1] = arrived'[1]
                  \/ stream'[b[1]].type = "FU-A start"
    BY <1>3, <1>9 DEF NoHoles
  <2> QED
    BY <1>10, <2>1, Zenon DEF NoHoles
<1>12. FlushedBefore'
  BY <1>2, <1>3, <1>6 DEF FlushedBefore, Batches, Late
<1>13. CacheOnlyKeyFrames'
  <2>1. ASSUME NEW b \in Batches(cacheOnly)
        PROVE  /\ stream'[b[1]].type = "STAP-A"
               /\ \A k \in DOMAIN b : stream'[b[k]].ts = stream'[b[1]].ts
               /\ Late = {} => \A f \in Batches(forwarded) : stream'[f[1]].ts # stream'[b[1]].ts
    BY <1>9 DEF CacheOnlyKeyFrames
  <2> QED
    BY <1>10, <2>1, Zenon DEF CacheOnlyKeyFrames
<1>14. DropCountExact'
  BY <1>3 DEF DropCountExact, Late, LastArrived
<1>15. ASSUME NEW j PROVE LossBefore(j)' <=> LossBefore(j)
  <2>1. \A k \in 2 .. Len(arrived) : arrived[k - 1] \in 1 .. N
    BY <1>4
  <2>2. \A k \in 2 .. Len(arrived) : stream'[arrived[k - 1]] = stream[arrived[k - 1]]
    BY <1>2, <2>1
  <2> QED
    BY <1>3, <2>2 DEF LossBefore
<1>16. ASSUME NEW i \in 1 .. N
       PROVE  (IntactUpTo(i)' <=> IntactUpTo(i)) /\ FirstOf(i)' = FirstOf(i)
  BY <1>2, <1>3, <1>15 DEF IntactUpTo, FirstOf, Arrived
<1>17. KeepsIntact'
  BY <1>2, <1>3, <1>4, <1>16 DEF KeepsIntact, Late, LastArrived
<1>18. ForwardsIntact'
  <2> SUFFICES ASSUME Late = {}, NEW i \in 1 .. Len(stream'),
                      stream'[i].marker, IntactUpTo(i)'
               PROVE  \E b \in Batches(forwarded) :
                        /\ Len(b) = stream'[i].pos
                        /\ \A k \in 1 .. Len(b) : b[k] = FirstOf(i)' + k - 1
    BY <1>10, Zenon DEF ForwardsIntact
  <2>1. CASE i \in 1 .. N
    <3>1. stream[i].marker /\ IntactUpTo(i) /\ FirstOf(i)' = FirstOf(i) /\ stream'[i] = stream[i]
      BY <1>2, <1>16, <2>1
    <3> QED
      BY <1>1, <2>1, <3>1, Zenon DEF ForwardsIntact
  <2>2. CASE i \notin 1 .. N
    <3>1. stream'[i].pos \in Nat \ {0}
      BY <1>2, PacketFields
    <3>2. i \in FirstOf(i)' .. i
      BY <1>2, <3>1 DEF FirstOf
    <3>3. i \in Arrived'
      BY <3>2 DEF IntactUpTo
    <3> QED
      BY <1>3, <1>4, <2>2, <3>3 DEF Arrived
  <2> QED
    BY <2>1, <2>2
<1> QED
  BY <1>2, <1>7, <1>8, <1>11, <1>12, <1>13, <1>14, <1>17, <1>18

-----------------------------------------------------------------------------
(***************************************************************************)
(* A turn of the reader.                                                   *)
(***************************************************************************)

\* What a turn does with packet i: the gap before it, whether it opens another
\* frame, the buffer it ends up in, whether that has a gap, and what the cache has
\* been offered before the marker is looked at.
NextGap(i) == IF arrived = <<>> THEN 0 ELSE Gap(i)
AtBoundary(i) == arrived # <<>> /\ stream[i].ts # lastFrameTS /\ frameBuf # <<>>
NextBuf(i) ==
  IF AtBoundary(i) \/ Overflows(frameBuf) THEN <<i>> ELSE Append(frameBuf, i)
NextGapped(i) ==
  IF AtBoundary(i)
    THEN ~isFrameStart(i)
    ELSE frameGapped = TRUE \/ NextGap(i) # 0 \/ Overflows(frameBuf)
NextCache(i) ==
  IF AtBoundary(i) /\ isIDRFrame(frameBuf) THEN Append(cacheOnly, frameBuf) ELSE cacheOnly

\* The gap tells the successor of the last packet from every other one, and counts
\* what is missing before a later one.
LEMMA GapIs ==
  ASSUME TypeOK, BufferShape, NEW i \in 1 .. Len(stream), Deliverable(i), arrived # <<>>
  PROVE  /\ LastArrived \in 1 .. Len(stream)
         /\ Gap(i) \in 0 .. (SeqMod - 1)
         /\ Gap(i) = 0 <=> i = LastArrived + 1
         /\ i > LastArrived => Gap(i) = i - LastArrived - 1
<1>1. PICK l \in 1 .. Len(stream) : l = LastArrived
  BY ReaderTypes
<1>2. PICK m \in Nat \ {0} : m = SeqMod /\ MaxBurst \in Nat /\ MaxBurst + 1 < m
  BY FrameBufferAssumption
<1>3. PICK f \in Nat : f = firstSeq
  BY FrameBufferAssumption DEF TypeOK
<1>4. Len(stream) \in Nat
  BY PacketTypes
<1>5. PICK a \in Int, b \in Int, d \in Int : a = f + i - 1 /\ b = f + l - 1 /\ d = a - b - 1
  BY <1>1, <1>3, <1>4
<1>6. d = i - l - 1 /\ 0 - m < d /\ d < m
  <2>1. i - l \in (0 - MaxBurst) .. (MaxBurst + 1)
    BY <1>1 DEF Deliverable
  <2>2. d = i - l - 1
    BY <1>1, <1>3, <1>4, <1>5
  <2> QED
    BY <1>1, <1>2, <1>4, <2>1, <2>2
<1>7. PICK g : g = Gap(i)
  OBVIOUS
<1>8. g = NumberGap(a, b, m)
  <2>1. lastSeq = SeqOf(l)
    BY <1>1 DEF BufferShape
  <2> QED
    BY <1>2, <1>3, <1>5, <1>7, <2>1 DEF Gap, SeqOf, NumberGap
<1>9. g \in 0 .. (m - 1) /\ (g = 0 <=> d = 0) /\ (d >= 0 => g = d)
  <2>1. m \in Nat \ {0} /\ a \in Int /\ b \in Int /\ d \in Int
    BY <1>2, <1>5
  <2>2. d = a - b - 1 /\ 0 - m < d /\ d < m
    BY <1>5, <1>6
  <2> QED
    BY <1>8, <2>1, <2>2, GapOfNumbers
<1>10. (d = 0 <=> i = l + 1) /\ (i > l => d >= 0)
  BY <1>1, <1>4, <1>6
<1> QED
  BY <1>1, <1>2, <1>6, <1>7, <1>9, <1>10

\* A new timestamp before a marker comes after a gap.
LEMMA BoundaryIsGap ==
  ASSUME TypeOK, StreamShape, BufferShape, NEW i \in 1 .. Len(stream), Deliverable(i),
         AtBoundary(i)
  PROVE  NextGap(i) # 0
<1>1. SUFFICES ASSUME Gap(i) = 0 PROVE FALSE
  BY DEF NextGap, AtBoundary
<1>2. PICK l \in 1 .. Len(stream) : l = LastArrived /\ i = l + 1
  BY <1>1, GapIs DEF AtBoundary
<1>3. Len(stream) \in Nat
  BY PacketTypes
<1>4. l \in 1 .. (Len(stream) - 1)
  BY <1>2, <1>3
<1>5. ~stream[l].marker /\ lastFrameTS = stream[l].ts
  BY <1>2 DEF BufferShape, AtBoundary
<1>6. stream[l + 1].ts = stream[l].ts
  BY <1>4, <1>5 DEF StreamShape
<1> QED
  BY <1>2, <1>5, <1>6 DEF AtBoundary

\* One turn of the loop: a frame that ends without a gap is forwarded, and one
\* with a gap is offered to the cache if it is a key frame.
LEMMA ReceiveStep ==
  ASSUME TypeOK, StreamShape, BufferShape, NEW i \in 1 .. Len(stream), Deliverable(i),
         Receive(i)
  PROVE  /\ UNCHANGED <<stream, firstSeq>> /\ arrived' = Append(arrived, i)
         /\ lastSeq' = SeqOf(i) /\ lastFrameTS' = stream[i].ts
         /\ dropCount' = dropCount + NextGap(i)
         /\ forwarded' = IF stream[i].marker /\ ~NextGapped(i)
                           THEN Append(forwarded, NextBuf(i)) ELSE forwarded
         /\ cacheOnly' = IF stream[i].marker /\ NextGapped(i) /\ isIDRFrame(NextBuf(i))
                           THEN Append(NextCache(i), NextBuf(i)) ELSE NextCache(i)
         /\ frameBuf' = IF stream[i].marker THEN <<>> ELSE NextBuf(i)
         /\ frameGapped' = TRUE <=> ~stream[i].marker /\ NextGapped(i)
         /\ frameGapped' \in BOOLEAN
<1>1. /\ UNCHANGED <<stream, firstSeq>> /\ arrived' = Append(arrived, i)
      /\ lastSeq' = SeqOf(i) /\ lastFrameTS' = stream[i].ts
      /\ dropCount' = dropCount + NextGap(i)
  BY DEF Receive, NextGap
<1>2. CASE AtBoundary(i)
  <2>1. NextGap(i) # 0
    BY <1>2, BoundaryIsGap
  <2>2. ~Overflows(<<>>)
    BY FrameBufferAssumption DEF Overflows
  <2>3. Append(<<>>, i) = <<i>>
    OBVIOUS
  <2>4. CASE stream[i].marker
    <3>1. forwarded' = IF NextGapped(i) THEN forwarded ELSE Append(forwarded, <<i>>)
      BY <1>2, <2>1, <2>2, <2>3, <2>4
         DEF Receive, AtBoundary, NextGap, NextGapped, FlushTo, Carry
    <3>2. cacheOnly' = IF NextGapped(i) /\ isIDRFrame(<<i>>)
                        THEN Append(NextCache(i), <<i>>) ELSE NextCache(i)
      BY <1>2, <2>1, <2>2, <2>3, <2>4
         DEF Receive, AtBoundary, NextGap, NextGapped, NextCache, CacheTo, Carry
    <3>3. frameBuf' = <<>> /\ frameGapped' = FALSE
      BY <2>4 DEF Receive
    <3> QED
      BY <1>1, <1>2, <2>4, <3>1, <3>2, <3>3, Zenon DEF NextBuf
  <2>5. CASE ~stream[i].marker
    <3>1. forwarded' = forwarded
      BY <1>2, <2>1, <2>5 DEF Receive, AtBoundary, NextGap, FlushTo
    <3>2. cacheOnly' = NextCache(i)
      BY <1>2, <2>1, <2>5 DEF Receive, AtBoundary, NextGap, NextCache, CacheTo
    <3>3. frameBuf' = <<i>>
      BY <1>2, <2>2, <2>3, <2>5 DEF Receive, AtBoundary
    <3>4. frameGapped' \in BOOLEAN /\ (frameGapped' = TRUE <=> NextGapped(i))
      BY <1>2, <2>1, <2>2, <2>5 DEF Receive, AtBoundary, NextGap, NextGapped, Carry
    <3> QED
      BY <1>1, <1>2, <2>5, <3>1, <3>2, <3>3, <3>4, Zenon DEF NextBuf
  <2> QED
    BY <2>4, <2>5
<1>3. CASE ~AtBoundary(i)
  <2>1. NextBuf(i) = Append(IF Overflows(frameBuf) THEN <<>> ELSE frameBuf, i)
    <3>1. Append(<<>>, i) = <<i>>
      OBVIOUS
    <3> QED
      BY <1>3, <3>1 DEF NextBuf
  <2>2. NextCache(i) = cacheOnly
    BY <1>3 DEF NextCache
  <2>3. NextGapped(i) <=> frameGapped \/ NextGap(i) # 0 \/ Overflows(frameBuf)
    BY <1>3, Zenon DEF NextGapped, TypeOK
  <2>4. CASE stream[i].marker
    <3>1. forwarded' = IF NextGapped(i) THEN forwarded ELSE Append(forwarded, NextBuf(i))
      BY <1>3, <2>1, <2>3, <2>4 DEF Receive, AtBoundary, NextGap, FlushTo, Carry
    <3>2. cacheOnly' = IF NextGapped(i) /\ isIDRFrame(NextBuf(i))
                        THEN Append(cacheOnly, NextBuf(i)) ELSE cacheOnly
      BY <1>3, <2>1, <2>3, <2>4 DEF Receive, AtBoundary, NextGap, CacheTo, Carry
    <3>3. frameBuf' = <<>> /\ frameGapped' = FALSE
      BY <2>4 DEF Receive
    <3> QED
      BY <1>1, <2>2, <2>4, <3>1, <3>2, <3>3, Zenon
  <2>5. CASE ~stream[i].marker
    <3>1. forwarded' = forwarded /\ cacheOnly' = cacheOnly
      BY <1>3, <2>5 DEF Receive, AtBoundary
    <3>2. frameBuf' = NextBuf(i)
      BY <1>3, <2>1, <2>5 DEF Receive, AtBoundary
    <3>3. frameGapped' \in BOOLEAN /\ (frameGapped' = TRUE <=> NextGapped(i))
      BY <1>3, <2>3, <2>5 DEF Receive, AtBoundary, NextGap, Carry
    <3> QED
      BY <1>1, <2>2, <2>5, <3>1, <3>2, <3>3, Zenon
  <2> QED
    BY <2>4, <2>5
<1> QED
  BY <1>2, <1>3

LEMMA AppendOne ==
  ASSUME NEW S, NEW q \in Seq(S), NEW x \in S
  PROVE  /\ Len(q) \in Nat /\ Append(q, x) \in Seq(S) /\ Append(q, x) # <<>>
         /\ Len(Append(q, x)) = Len(q) + 1 /\ DOMAIN Append(q, x) = 1 .. (Len(q) + 1)
         /\ \A k \in 1 .. Len(q) : Append(q, x)[k] = q[k]
         /\ Append(q, x)[Len(q) + 1] = x
<1>1. Len(q) \in Nat
  BY LenProperties
<1>2. /\ Append(q, x) \in Seq(S) /\ Len(Append(q, x)) = Len(q) + 1
      /\ \A k \in 1 .. Len(q) : Append(q, x)[k] = q[k]
      /\ Append(q, x)[Len(q) + 1] = x
  BY AppendProperties
<1>3. DOMAIN Append(q, x) = 1 .. (Len(q) + 1)
  BY <1>2, LenProperties
<1>4. Append(q, x) # <<>>
  BY <1>1, <1>2, EmptySeq
<1> QED
  BY <1>1, <1>2, <1>3, <1>4

LEMMA AppendBatch ==
  ASSUME NEW S, NEW out \in Seq(S), NEW b \in S
  PROVE  Batches(Append(out, b)) = Batches(out) \cup {b}
<1>1. PICK q : q = Append(out, b)
  OBVIOUS
<1>2. Len(out) \in Nat /\ DOMAIN out = 1 .. Len(out)
  BY LenProperties
<1>3. /\ DOMAIN q = 1 .. (Len(out) + 1) /\ q[Len(out) + 1] = b
      /\ \A k \in 1 .. Len(out) : q[k] = out[k]
  BY <1>1, AppendOne
<1>4. \A k : k \in 1 .. (Len(out) + 1) <=> k \in 1 .. Len(out) \/ k = Len(out) + 1
  BY <1>2
<1>5. Batches(q) = Batches(out) \cup {b}
  BY <1>2, <1>3, <1>4, Zenon DEF Batches
<1> QED
  BY <1>1, <1>5

\* The buffer after packet i was put in it.
FirstArrived(i) == IF arrived = <<>> THEN i ELSE arrived[1]

LEMMA NextBufShape ==
  ASSUME TypeOK, StreamShape, BufferShape, NEW i \in 1 .. Len(stream), Deliverable(i)
  PROVE  /\ NextBuf(i) \in Seq(1 .. Len(stream)) /\ NextBuf(i) # <<>>
         /\ Len(NextBuf(i)) \in Nat \ {0} /\ Len(NextBuf(i)) <= FrameCap
         /\ DOMAIN NextBuf(i) = 1 .. Len(NextBuf(i))
         /\ NextBuf(i)[Len(NextBuf(i))] = i
         /\ \A k \in DOMAIN NextBuf(i) : stream[NextBuf(i)[k]].ts = stream[i].ts
         /\ ~NextGapped(i) =>
              /\ Consecutive(NextBuf(i))
              /\ \/ stream[NextBuf(i)[1]].pos = 1 \/ NextBuf(i)[1] = FirstArrived(i)
                 \/ stream[NextBuf(i)[1]].type = "FU-A start"
<1>1. PICK N \in Nat : N = Len(stream) /\ frameBuf \in Seq(1 .. N)
  BY ReaderTypes
<1>2. PICK b : b = NextBuf(i)
  OBVIOUS
<1>3. FrameCap \in Nat \ {0}
  BY FrameBufferAssumption
<1>4. /\ Len(frameBuf) \in Nat /\ DOMAIN frameBuf = 1 .. Len(frameBuf)
      /\ (frameBuf = <<>> <=> Len(frameBuf) = 0)
  BY <1>1, LenProperties, EmptySeq
<1>5. CASE AtBoundary(i) \/ Overflows(frameBuf)
  <2>1. b = <<i>>
    BY <1>2, <1>5 DEF NextBuf
  <2>2. /\ b \in Seq(1 .. N) /\ b # <<>> /\ Len(b) = 1 /\ DOMAIN b = 1 .. 1 /\ b[1] = i
    BY <1>1, <2>1
  <2>3. ~NextGapped(i) => stream[i].pos = 1 \/ stream[i].type = "FU-A start"
    <3>1. ~NextGapped(i) => isFrameStart(i)
      BY <1>5 DEF NextGapped
    <3>2. isFrameStart(i) => stream[i].pos = 1 \/ stream[i].type = "FU-A start"
      BY <1>1 DEF StreamShape, isFrameStart
    <3> QED
      BY <3>1, <3>2
  <2>4. Consecutive(b)
    BY <2>2 DEF Consecutive
  <2>5. /\ Len(b) \in Nat \ {0} /\ Len(b) <= FrameCap /\ b[Len(b)] = i /\ DOMAIN b = 1 .. Len(b)
        /\ \A k \in DOMAIN b : b[k] = i
    BY <1>3, <2>2
  <2>6. ~NextGapped(i) => stream[b[1]].pos = 1 \/ stream[b[1]].type = "FU-A start"
    BY <2>2, <2>3
  <2>7. \A k \in DOMAIN b : stream[b[k]].ts = stream[i].ts
    BY <2>5, Zenon
  <2> QED
    BY <1>1, <1>2, <2>2, <2>4, <2>5, <2>6, <2>7, Zenon
<1>6. CASE ~AtBoundary(i) /\ ~Overflows(frameBuf)
  <2>1. b = Append(frameBuf, i)
    BY <1>2, <1>6 DEF NextBuf
  <2>2. /\ b \in Seq(1 .. N) /\ b # <<>> /\ Len(b) = Len(frameBuf) + 1
        /\ DOMAIN b = 1 .. (Len(frameBuf) + 1) /\ b[Len(frameBuf) + 1] = i
        /\ \A k \in 1 .. Len(frameBuf) : b[k] = frameBuf[k]
    BY <1>1, <2>1, AppendOne
  <2>3. Len(b) \in Nat \ {0} /\ Len(b) <= FrameCap
    BY <1>3, <1>4, <1>6, <2>2 DEF Overflows
  <2>4. ASSUME NEW k \in DOMAIN b PROVE stream[b[k]].ts = stream[i].ts
    <3>1. CASE k = Len(frameBuf) + 1
      BY <2>2, <3>1
    <3>2. CASE k \in 1 .. Len(frameBuf)
      <4>1. frameBuf # <<>>
        BY <1>4, <3>2
      <4>2. arrived # <<>> /\ stream[i].ts = lastFrameTS
        BY <1>6, <4>1 DEF BufferShape, AtBoundary
      <4> QED
        BY <1>4, <2>2, <3>2, <4>2 DEF BufferShape
    <3> QED
      BY <1>4, <2>2, <3>1, <3>2
  <2>5. ASSUME ~NextGapped(i), arrived # <<>>
        PROVE  LastArrived \in 1 .. N /\ i = LastArrived + 1 /\ frameGapped # TRUE
    BY <1>1, <1>6, <2>5, GapIs DEF NextGapped, NextGap
  <2>6. ASSUME ~NextGapped(i), frameBuf = <<>>
        PROVE  stream[b[1]].pos = 1 \/ b[1] = FirstArrived(i)
    <3>1. b[1] = i
      BY <1>4, <2>2, <2>6
    <3>2. CASE arrived = <<>>
      BY <3>1, <3>2 DEF FirstArrived
    <3>3. CASE arrived # <<>>
      <4>1. PICK l \in 1 .. N : l = LastArrived /\ i = l + 1
        BY <2>5, <2>6, <3>3
      <4>2. l \in 1 .. (Len(stream) - 1) /\ stream[l].marker
        BY <1>1, <2>6, <3>3, <4>1 DEF BufferShape
      <4>3. stream[l + 1].pos = 1
        BY <4>2 DEF StreamShape
      <4> QED
        BY <3>1, <4>1, <4>3
    <3> QED
      BY <3>2, <3>3
  <2>7. ASSUME ~NextGapped(i), frameBuf # <<>>
        PROVE  /\ arrived # <<>> /\ Consecutive(frameBuf) /\ GoodStart(frameBuf[1])
               /\ b[1] = frameBuf[1] /\ i = frameBuf[Len(frameBuf)] + 1
    <3>1. arrived # <<>>
      BY <2>7 DEF BufferShape
    <3>2. i = LastArrived + 1 /\ frameGapped # TRUE
      BY <2>5, <2>7, <3>1
    <3>3. frameGapped = FALSE
      BY <3>2, Zenon DEF TypeOK
    <3>4. 1 \in 1 .. Len(frameBuf)
      BY <1>4, <2>7
    <3> QED
      BY <2>2, <2>7, <3>1, <3>2, <3>3, <3>4 DEF BufferShape
  <2>8. ~NextGapped(i) => Consecutive(b)
    <3>1. ASSUME ~NextGapped(i), NEW k \in 1 .. (Len(b) - 1) PROVE b[k + 1] = b[k] + 1
      <4>1. k \in 1 .. Len(frameBuf) /\ frameBuf # <<>>
        BY <1>4, <2>2
      <4>2. CASE k = Len(frameBuf)
        BY <2>2, <2>7, <3>1, <4>1, <4>2
      <4>3. CASE k # Len(frameBuf)
        <5>1. k \in 1 .. (Len(frameBuf) - 1) /\ k + 1 \in 1 .. Len(frameBuf)
          <6>1. PICK m \in Nat : m = Len(frameBuf)
            BY <1>4
          <6>2. k \in 1 .. m /\ k # m
            BY <4>1, <4>3, <6>1
          <6>3. k \in 1 .. (m - 1) /\ k + 1 \in 1 .. m
            BY <6>1, <6>2
          <6> QED
            BY <6>1, <6>3
        <5>2. frameBuf[k + 1] = frameBuf[k] + 1
          BY <2>7, <3>1, <4>1, <5>1 DEF Consecutive
        <5> QED
          BY <2>2, <4>1, <5>1, <5>2
      <4> QED
        BY <4>2, <4>3
    <3> QED
      BY <3>1 DEF Consecutive
  <2>9. ~NextGapped(i) => \/ stream[b[1]].pos = 1 \/ b[1] = FirstArrived(i)
                          \/ stream[b[1]].type = "FU-A start"
    BY <2>6, <2>7 DEF GoodStart, FirstArrived
  <2>10. b[Len(b)] = i /\ DOMAIN b = 1 .. Len(b)
    BY <2>2
  <2> QED
    BY <1>1, <1>2, <2>2, <2>3, <2>4, <2>8, <2>9, <2>10
<1> QED
  BY <1>5, <1>6

\* What has arrived after a turn, and in which order.
LEMMA ArrivedStep ==
  ASSUME TypeOK, NEW i \in 1 .. Len(stream), arrived' = Append(arrived, i)
  PROVE  /\ Len(arrived) \in Nat /\ Len(arrived') = Len(arrived) + 1
         /\ DOMAIN arrived = 1 .. Len(arrived) /\ DOMAIN arrived' = 1 .. (Len(arrived) + 1)
         /\ \A k \in 1 .. Len(arrived) : arrived'[k] = arrived[k] /\ arrived[k] \in 1 .. Len(stream)
         /\ arrived'[Len(arrived) + 1] = i
         /\ arrived' # <<>> /\ LastArrived' = i /\ arrived'[1] = FirstArrived(i)
         /\ Arrived' = Arrived \cup {i}
         /\ arrived' \in Seq(1 .. Len(stream))
<1>1. PICK D : D = 1 .. Len(stream) /\ arrived \in Seq(D) /\ i \in D
  BY ReaderTypes
<1>2. PICK n \in Nat : n = Len(arrived) /\ DOMAIN arrived = 1 .. n
  BY <1>1, LenProperties
<1>3. \A k \in 1 .. n : arrived[k] \in D
  BY <1>1, <1>2, ElementOfSeq
<1>4. /\ Len(arrived') = n + 1 /\ DOMAIN arrived' = 1 .. (n + 1) /\ arrived' # <<>>
      /\ \A k \in 1 .. n : arrived'[k] = arrived[k]
      /\ arrived'[n + 1] = i /\ arrived' \in Seq(D)
  BY <1>1, <1>2, AppendOne
<1>5. LastArrived' = i
  BY <1>4 DEF LastArrived
<1>6. arrived'[1] = FirstArrived(i)
  <2>1. arrived = <<>> <=> n = 0
    BY <1>1, <1>2, EmptySeq
  <2>2. CASE n = 0
    BY <1>4, <2>1, <2>2 DEF FirstArrived
  <2>3. CASE n # 0
    <3>1. 1 \in 1 .. n
      BY <1>2, <2>3
    <3> QED
      BY <1>4, <2>1, <2>3, <3>1 DEF FirstArrived
  <2> QED
    BY <2>2, <2>3
<1>7. Arrived' = Arrived \cup {i}
  <2>1. \A k : k \in 1 .. (n + 1) <=> k \in 1 .. n \/ k = n + 1
    BY <1>2
  <2> QED
    BY <1>2, <1>4, <2>1, Zenon DEF Arrived
<1> QED
  BY <1>1, <1>2, <1>3, <1>4, <1>5, <1>6, <1>7

\* As long as no packet is late, the next one is later than all.
LEMMA InOrder ==
  ASSUME TypeOK, NEW i \in 1 .. Len(stream), arrived' = Append(arrived, i), Late' = {}
  PROVE  /\ Late = {} /\ \A k \in 1 .. Len(arrived) : arrived[k] < i
         /\ \A j \in Arrived : j < i
         /\ arrived # <<>> => LastArrived < i /\ \A j \in Arrived : j <= LastArrived
<1>1. PICK n \in Nat : n = Len(arrived) /\ DOMAIN arrived = 1 .. n
  BY ArrivedStep
<1>2. /\ DOMAIN arrived' = 1 .. (n + 1) /\ arrived'[n + 1] = i
      /\ \A k \in 1 .. n : arrived'[k] = arrived[k] /\ arrived[k] \in 1 .. Len(stream)
      /\ Len(stream) \in Nat
  BY <1>1, ArrivedStep, PacketTypes
<1>3. \A k \in 1 .. (n + 1) : \A j \in 1 .. (k - 1) : ~(arrived'[j] >= arrived'[k])
  BY <1>2 DEF Late
<1>4. ASSUME NEW k \in 1 .. n PROVE arrived[k] < i
  <2>1. ~(arrived'[k] >= arrived'[n + 1])
    <3>1. n + 1 \in 1 .. (n + 1) /\ k \in 1 .. ((n + 1) - 1)
      BY <1>1
    <3> QED
      BY <1>3, <3>1
  <2> QED
    BY <1>2, <2>1
<1>5. ASSUME NEW k \in 1 .. n, NEW j \in 1 .. (k - 1) PROVE arrived[j] < arrived[k]
  <2>1. j \in 1 .. n /\ k \in 1 .. (n + 1)
    BY <1>1
  <2>2. ~(arrived'[j] >= arrived'[k])
    BY <1>3, <2>1
  <2>3. arrived[j] \in 1 .. Len(stream) /\ arrived[k] \in 1 .. Len(stream)
    BY <1>2, <2>1
  <2>4. ~(arrived[j] >= arrived[k])
    BY <1>2, <2>1, <2>2
  <2> QED
    BY <1>2, <2>3, <2>4
<1>6. Late = {}
  <2>1. ASSUME NEW k \in 1 .. n, NEW j \in 1 .. (k - 1) PROVE ~(arrived[j] >= arrived[k])
    <3>1. arrived[j] \in 1 .. Len(stream) /\ arrived[k] \in 1 .. Len(stream)
      BY <1>1, <1>2
    <3>2. arrived[j] < arrived[k]
      BY <1>5
    <3> QED
      BY <1>2, <3>1, <3>2
  <2> QED
    BY <1>1, <2>1 DEF Late
<1>7. \A j \in Arrived : j < i
  BY <1>1, <1>4 DEF Arrived
<1>8. ASSUME arrived # <<>>
      PROVE  LastArrived < i /\ \A j \in Arrived : j <= LastArrived
  <2>1. n \in 1 .. n /\ LastArrived = arrived[n]
    BY <1>1, <1>8, EmptySeq, ReaderTypes DEF LastArrived
  <2>2. LastArrived < i
    BY <1>4, <2>1
  <2>3. ASSUME NEW k \in 1 .. n PROVE arrived[k] <= arrived[n]
    <3>1. arrived[k] \in 1 .. Len(stream) /\ arrived[n] \in 1 .. Len(stream)
      BY <1>2, <2>1
    <3>2. CASE k = n
      BY <1>2, <3>1, <3>2
    <3>3. CASE k # n
      <4>1. k \in 1 .. (n - 1)
        BY <1>1, <3>3
      <4>2. arrived[k] < arrived[n]
        BY <1>5, <2>1, <4>1
      <4> QED
        BY <1>2, <3>1, <4>2
    <3> QED
      BY <3>2, <3>3
  <2> QED
    BY <1>1, <2>1, <2>2, <2>3 DEF Arrived
<1> QED
  BY <1>1, <1>4, <1>6, <1>7, <1>8

\* A loss before the first packet of a frame stays on record.
LEMMA LossStays ==
  ASSUME TypeOK, NEW i \in 1 .. Len(stream), arrived' = Append(arrived, i), stream' = stream,
         NEW j, LossBefore(j)
  PROVE  LossBefore(j)'
<1>1. /\ Len(arrived) \in Nat /\ Len(arrived') = Len(arrived) + 1
      /\ \A k \in 1 .. Len(arrived) : arrived'[k] = arrived[k]
  BY ArrivedStep
<1>2. PICK k \in 2 .. Len(arrived) :
        arrived[k] = j /\ arrived[k - 1] # j - 1 /\ stream[arrived[k - 1]].marker
  BY DEF LossBefore
<1>3. k \in 2 .. Len(arrived') /\ k \in 1 .. Len(arrived) /\ k - 1 \in 1 .. Len(arrived)
  BY <1>1, <1>2
<1>4. arrived'[k] = arrived[k] /\ arrived'[k - 1] = arrived[k - 1]
  BY <1>1, <1>3
<1> QED
  BY <1>2, <1>3, <1>4, Zenon DEF LossBefore

-----------------------------------------------------------------------------
(***************************************************************************)
(* A turn of the reader preserves each part of the invariant.              *)
(***************************************************************************)
LEMMA ReceiveTypeOK ==
  ASSUME IInv, NEW i \in 1 .. Len(stream), Deliverable(i), Receive(i)
  PROVE  TypeOK'
<1> USE DEF IInv
<1>1. PICK D : D = DOMAIN stream /\ D = 1 .. Len(stream) /\ i \in D
  BY PacketTypes
<1>2. PICK b : b = NextBuf(i) /\ b \in Seq(D) /\ Len(b) <= FrameCap
  BY <1>1, NextBufShape
<1>3. UNCHANGED <<stream, firstSeq>> /\ arrived' \in Seq(D)
  BY <1>1, ReceiveStep, ArrivedStep
<1>4. lastSeq' \in 0 .. (SeqMod - 1) /\ highestVideoSeq' \in 0 .. (SeqMod - 1)
  <2>1. firstSeq + i - 1 \in Int /\ SeqMod \in Nat \ {0}
    BY FrameBufferAssumption, PacketTypes DEF TypeOK
  <2>2. (firstSeq + i - 1) % SeqMod \in 0 .. (SeqMod - 1)
    BY <2>1, Remainder
  <2>3. SeqOf(i) \in 0 .. (SeqMod - 1)
    BY <2>2 DEF SeqOf
  <2>4. lastSeq' = SeqOf(i) /\ highestVideoSeq' \in {SeqOf(i), highestVideoSeq}
    BY DEF Receive
  <2>5. highestVideoSeq \in 0 .. (SeqMod - 1)
    BY DEF TypeOK
  <2> QED
    BY <2>3, <2>4, <2>5, Zenon
<1>5. lastFrameTS' \in Nat
  BY ReceiveStep, PacketTypes
<1>6. dropCount' \in Nat
  <2>1. NextGap(i) \in Nat
    BY GapIs, FrameBufferAssumption DEF NextGap
  <2> QED
    <3>1. dropCount' = dropCount + NextGap(i)
      BY ReceiveStep
    <3>2. dropCount \in Nat
      BY DEF TypeOK
    <3> QED
      BY <2>1, <3>1, <3>2
<1>7. droppedFrames' \in Nat
  <2>1. PICK x, y : droppedFrames' = droppedFrames + x + y /\ x \in {0, 1} /\ y \in {0, 1}
    BY DEF Receive, CountDrop
  <2> QED
    BY <2>1 DEF TypeOK
<1>8. frameGapped' \in BOOLEAN /\ frameBuf' \in {<<>>, b}
  BY <1>2, ReceiveStep
<1>9. frameBuf' \in Seq(D) /\ Len(frameBuf') <= FrameCap
  <2>1. <<>> \in Seq(D) /\ Len(<<>>) <= FrameCap
    BY EmptySeq, FrameBufferAssumption
  <2> QED
    BY <1>2, <1>8, <2>1, Zenon
<1>10. forwarded' \in Seq(Seq(D))
  <2>1. forwarded \in Seq(Seq(D))
    BY <1>1 DEF TypeOK
  <2>2. Append(forwarded, b) \in Seq(Seq(D))
    BY <1>2, <2>1, AppendOne
  <2> QED
    BY <1>2, <2>1, <2>2, ReceiveStep
<1>11. cacheOnly' \in Seq(Seq(D))
  <2>1. cacheOnly \in Seq(Seq(D)) /\ frameBuf \in Seq(D)
    BY <1>1, Zenon DEF TypeOK
  <2>2. Append(cacheOnly, frameBuf) \in Seq(Seq(D))
    BY <2>1, AppendOne
  <2>3. PICK c : c = NextCache(i) /\ c \in Seq(Seq(D))
    BY <2>1, <2>2 DEF NextCache
  <2>4. Append(c, b) \in Seq(Seq(D))
    BY <1>2, <2>3, AppendOne
  <2> QED
    BY <1>2, <2>3, <2>4, ReceiveStep
<1> QED
  BY <1>1, <1>3, <1>4, <1>5, <1>6, <1>7, <1>8, <1>9, <1>10, <1>11, Zenon DEF TypeOK

LEMMA ReceiveBufferShape ==
  ASSUME IInv, NEW i \in 1 .. Len(stream), Deliverable(i), Receive(i)
  PROVE  BufferShape'
<1> USE DEF IInv
<1>1. /\ stream' = stream /\ firstSeq' = firstSeq /\ lastSeq' = SeqOf(i)
      /\ lastFrameTS' = stream[i].ts
      /\ arrived' # <<>> /\ LastArrived' = i /\ arrived'[1] = FirstArrived(i)
  BY ReceiveStep, ArrivedStep
<1>2. PICK b : b = NextBuf(i) /\ b # <<>> /\ b[Len(b)] = i
  BY NextBufShape
<1>3. \A k \in DOMAIN b : stream[b[k]].ts = stream[i].ts
  BY <1>2, NextBufShape
<1>4. ~NextGapped(i) => /\ Consecutive(b)
                        /\ \/ stream[b[1]].pos = 1 \/ b[1] = FirstArrived(i)
                           \/ stream[b[1]].type = "FU-A start"
  BY <1>2, NextBufShape
<1>5. /\ frameBuf' = IF stream[i].marker THEN <<>> ELSE b
      /\ frameGapped' = TRUE <=> ~stream[i].marker /\ NextGapped(i)
      /\ frameGapped' \in BOOLEAN
  BY <1>2, ReceiveStep
<1>6. SeqOf(i) = SeqOf(LastArrived)'
  BY <1>1 DEF SeqOf
<1>7. CASE stream[i].marker
  <2>1. frameBuf' = <<>> /\ frameGapped' = FALSE /\ DOMAIN frameBuf' = {}
    BY <1>5, <1>7
  <2> QED
    BY <1>1, <1>6, <1>7, <2>1, Zenon DEF BufferShape
<1>8. CASE ~stream[i].marker
  <2>1. frameBuf' = b /\ (frameGapped' = FALSE => ~NextGapped(i))
    BY <1>5, <1>8
  <2>2. frameBuf' # <<>> /\ frameBuf'[Len(frameBuf')] = i
    BY <1>2, <2>1
  <2>3. \A k \in DOMAIN frameBuf' : stream'[frameBuf'[k]].ts = lastFrameTS'
    BY <1>1, <1>3, <2>1
  <2>4. frameGapped' = FALSE => Consecutive(frameBuf)' /\ GoodStart(frameBuf[1])'
    BY <1>1, <1>4, <2>1 DEF Consecutive, GoodStart
  <2> QED
    BY <1>1, <1>6, <1>8, <2>2, <2>3, <2>4, Zenon DEF BufferShape
<1> QED
  BY <1>7, <1>8

\* What is handed over: nothing at a boundary, and at a marker the buffer, if it
\* has no gap.
LEMMA ForwardedBatches ==
  ASSUME IInv, NEW i \in 1 .. Len(stream), Deliverable(i), Receive(i)
  PROVE  /\ Batches(forwarded)' = IF stream[i].marker /\ ~NextGapped(i)
                                   THEN Batches(forwarded) \cup {NextBuf(i)} ELSE Batches(forwarded)
         /\ Batches(cacheOnly)' \subseteq
               Batches(cacheOnly)
                 \cup (IF AtBoundary(i) /\ isIDRFrame(frameBuf) THEN {frameBuf} ELSE {})
                 \cup (IF stream[i].marker /\ NextGapped(i) /\ isIDRFrame(NextBuf(i))
                        THEN {NextBuf(i)} ELSE {})
<1> USE DEF IInv
<1>1. PICK D : D = DOMAIN stream /\ D = 1 .. Len(stream)
  BY PacketTypes
<1>2. /\ forwarded \in Seq(Seq(D)) /\ cacheOnly \in Seq(Seq(D)) /\ frameBuf \in Seq(D)
  BY <1>1, Zenon DEF TypeOK
<1>3. PICK b \in Seq(D) : b = NextBuf(i)
  BY <1>1, NextBufShape
<1>4. Batches(forwarded)' = IF stream[i].marker /\ ~NextGapped(i)
                             THEN Batches(forwarded) \cup {b} ELSE Batches(forwarded)
  <2>1. Batches(Append(forwarded, b)) = Batches(forwarded) \cup {b}
    BY <1>2, <1>3, AppendBatch
  <2>2. forwarded' = IF stream[i].marker /\ ~NextGapped(i) THEN Append(forwarded, b) ELSE forwarded
    BY <1>3, ReceiveStep
  <2>3. Batches(forwarded)' = {forwarded'[k] : k \in DOMAIN forwarded'}
    BY DEF Batches
  <2> QED
    BY <2>1, <2>2, <2>3 DEF Batches
<1>5. PICK c : c = NextCache(i)
  OBVIOUS
<1>6. /\ c \in Seq(Seq(D))
      /\ Batches(c) = Batches(cacheOnly)
                        \cup (IF AtBoundary(i) /\ isIDRFrame(frameBuf) THEN {frameBuf} ELSE {})
  <2>1. /\ Append(cacheOnly, frameBuf) \in Seq(Seq(D))
        /\ Batches(Append(cacheOnly, frameBuf)) = Batches(cacheOnly) \cup {frameBuf}
    BY <1>2, AppendBatch, AppendOne
  <2> QED
    BY <1>2, <1>5, <2>1 DEF NextCache
<1>7. Batches(Append(c, b)) = Batches(c) \cup {b}
  BY <1>3, <1>6, AppendBatch
<1>8. PICK d : d = cacheOnly'
  OBVIOUS
<1>9. d = IF stream[i].marker /\ NextGapped(i) /\ isIDRFrame(b) THEN Append(c, b) ELSE c
  BY <1>3, <1>5, <1>8, ReceiveStep
<1>10. Batches(cacheOnly)' = Batches(d)
  BY <1>8 DEF Batches
<1> QED
  BY <1>3, <1>4, <1>6, <1>7, <1>9, <1>10, Zenon

LEMMA ReceiveNoHoles ==
  ASSUME IInv, NEW i \in 1 .. Len(stream), Deliverable(i), Receive(i)
  PROVE  NoHoles'
<1> USE DEF IInv
<1>1. stream' = stream /\ arrived'[1] = FirstArrived(i)
  BY ReceiveStep, ArrivedStep
<1>2. PICK b : b = NextBuf(i) /\ b[Len(b)] = i
  BY NextBufShape
<1>3. Len(b) \in Nat \ {0} /\ DOMAIN b = 1 .. Len(b)
  BY <1>2, NextBufShape
<1>4. \A k \in DOMAIN b : stream[b[k]].ts = stream[i].ts
  BY <1>2, NextBufShape
<1>5. ~NextGapped(i) => /\ Consecutive(b)
                        /\ \/ stream[b[1]].pos = 1 \/ b[1] = FirstArrived(i)
                           \/ stream[b[1]].type = "FU-A start"
  BY <1>2, NextBufShape
<1>6. 1 \in DOMAIN b
  BY <1>3
<1> DEFINE Whole(x) ==
             /\ \A k \in 1 .. (Len(x) - 1) : x[k + 1] = x[k] + 1
             /\ \A k \in DOMAIN x : stream[x[k]].ts = stream[x[1]].ts
             /\ stream[x[Len(x)]].marker
             /\ stream[x[1]].pos = 1 \/ x[1] = FirstArrived(i) \/ stream[x[1]].type = "FU-A start"
<1>7. ASSUME stream[i].marker, ~NextGapped(i) PROVE Whole(b)
  <2>1. \A k \in DOMAIN b : stream[b[k]].ts = stream[b[1]].ts
    BY <1>4, <1>6
  <2> QED
    BY <1>2, <1>5, <1>7, <2>1, Zenon DEF Consecutive
<1>8. ASSUME NEW x \in Batches(forwarded) PROVE Whole(x)
  <2>1. forwarded # <<>>
    BY <1>8 DEF Batches
  <2>2. FirstArrived(i) = arrived[1]
    BY <2>1 DEF BufferShape, FirstArrived
  <2> QED
    BY <1>8, <2>2, Zenon DEF NoHoles
<1>9. \A x \in Batches(forwarded)' : Whole(x)
  BY <1>2, <1>7, <1>8, ForwardedBatches
<1> QED
  BY <1>1, <1>9, Zenon DEF NoHoles

LEMMA ReceiveDropCount ==
  ASSUME IInv, NEW i \in 1 .. Len(stream), Deliverable(i), Receive(i)
  PROVE  DropCountExact'
<1> USE DEF IInv
<1> SUFFICES ASSUME Late' = {}
             PROVE  dropCount' = LastArrived' - arrived'[1] + 1 - Len(arrived')
  BY DEF DropCountExact
<1>1. /\ arrived' = Append(arrived, i) /\ dropCount' = dropCount + NextGap(i)
      /\ LastArrived' = i /\ arrived'[1] = FirstArrived(i)
      /\ Len(arrived') = Len(arrived) + 1 /\ Len(arrived) \in Nat
  BY ReceiveStep, ArrivedStep
<1>2. CASE arrived = <<>>
  <2>1. dropCount = 0 /\ NextGap(i) = 0 /\ Len(arrived) = 0 /\ FirstArrived(i) = i
    BY <1>2 DEF BufferShape, NextGap, FirstArrived
  <2> QED
    BY <1>1, <2>1
<1>3. CASE arrived # <<>>
  <2>1. PICK l \in 1 .. Len(stream) : l = LastArrived
    BY <1>3, ReaderTypes
  <2>2. Late = {} /\ l < i
    BY <1>1, <1>3, <2>1, InOrder
  <2>3. PICK f \in 1 .. Len(stream) : f = arrived[1] /\ FirstArrived(i) = f
    BY <1>3, ReaderTypes, Indices DEF FirstArrived
  <2>4. NextGap(i) = i - l - 1
    BY <1>3, <2>1, <2>2, GapIs, PacketTypes DEF NextGap
  <2>5. dropCount = l - f + 1 - Len(arrived)
    BY <1>3, <2>1, <2>2, <2>3 DEF DropCountExact
  <2>6. Len(stream) \in Nat
    BY PacketTypes
  <2> QED
    BY <1>1, <2>3, <2>4, <2>5, <2>6
<1> QED
  BY <1>2, <1>3

\* In order, a packet belongs to a later frame than those that have left the
\* buffer, and at a boundary to a later one than that in it.
LEMMA OlderFrames ==
  ASSUME IInv, NEW i \in 1 .. Len(stream), Deliverable(i), Receive(i), Late' = {}
  PROVE  /\ Late = {}
         /\ \A x \in Batches(forwarded) \cup Batches(cacheOnly) : stream[x[1]].ts < stream[i].ts
         /\ AtBoundary(i) => lastFrameTS < stream[i].ts
<1> USE DEF IInv
<1>1. arrived' = Append(arrived, i)
  BY ReceiveStep
<1>2. Late = {}
  BY <1>1, InOrder
<1>3. /\ Len(stream) \in Nat
      /\ \A j \in 1 .. Len(stream) : stream[j].ts \in Nat
  BY PacketTypes
<1>4. ASSUME NEW x \in Batches(forwarded) \cup Batches(cacheOnly)
      PROVE  x[1] \in 1 .. Len(stream) /\ arrived # <<>>
  <2>1. x \in Seq(1 .. Len(stream)) /\ x # <<>>
    BY <1>4, ReaderTypes DEF FlushedBefore
  <2>2. x[1] \in 1 .. Len(stream)
    BY <1>3, <2>1, Indices
  <2>3. forwarded # <<>> \/ cacheOnly # <<>>
    BY <1>4 DEF Batches
  <2> QED
    BY <2>2, <2>3 DEF BufferShape
<1>5. ASSUME arrived # <<>>
      PROVE  /\ lastFrameTS <= stream[i].ts /\ lastFrameTS \in Nat
             /\ frameBuf = <<>> => lastFrameTS < stream[i].ts
  <2>1. PICK l \in 1 .. Len(stream) : l = LastArrived /\ l < i
    BY <1>1, <1>5, InOrder, ReaderTypes
  <2>2. lastFrameTS = stream[l].ts /\ (frameBuf = <<>> => stream[l].marker)
    BY <1>5, <2>1 DEF BufferShape
  <2>3. stream[l].ts <= stream[i].ts /\ (stream[l].marker => stream[l].ts < stream[i].ts)
    BY <2>1 DEF StreamShape
  <2> QED
    BY <1>3, <2>2, <2>3
<1>6. ASSUME NEW x \in Batches(forwarded) \cup Batches(cacheOnly)
      PROVE  stream[x[1]].ts < stream[i].ts
  <2>1. PICK a \in Nat, b \in Nat, c \in Nat :
          a = stream[x[1]].ts /\ b = lastFrameTS /\ c = stream[i].ts
    BY <1>3, <1>4, <1>5
  <2>2. a <= b /\ (frameBuf # <<>> => a < b)
    BY <1>2, <2>1 DEF FlushedBefore
  <2>3. b <= c /\ (frameBuf = <<>> => b < c)
    BY <1>4, <1>5, <2>1
  <2>4. a < c
    BY <2>1, <2>2, <2>3
  <2> QED
    BY <2>1, <2>4
<1>7. AtBoundary(i) => lastFrameTS < stream[i].ts
  <2> SUFFICES ASSUME AtBoundary(i) PROVE lastFrameTS < stream[i].ts
    OBVIOUS
  <2>1. lastFrameTS <= stream[i].ts /\ lastFrameTS \in Nat /\ lastFrameTS # stream[i].ts
    BY <1>5 DEF AtBoundary
  <2> QED
    BY <1>3, <2>1
<1> QED
  BY <1>2, <1>6, <1>7

\* The first packets of the buffer, before and after a turn.
LEMMA BufferTimes ==
  ASSUME IInv, NEW i \in 1 .. Len(stream), Deliverable(i), Receive(i)
  PROVE  /\ NextBuf(i) # <<>> /\ stream[NextBuf(i)[1]].ts = stream[i].ts
         /\ \A k \in DOMAIN NextBuf(i) : stream[NextBuf(i)[k]].ts = stream[NextBuf(i)[1]].ts
         /\ AtBoundary(i) =>
              /\ frameBuf # <<>> /\ stream[frameBuf[1]].ts = lastFrameTS
              /\ \A k \in DOMAIN frameBuf : stream[frameBuf[k]].ts = stream[frameBuf[1]].ts
<1> USE DEF IInv
<1>1. PICK b : /\ b = NextBuf(i) /\ b # <<>> /\ Len(b) \in Nat \ {0} /\ DOMAIN b = 1 .. Len(b)
               /\ \A k \in DOMAIN b : stream[b[k]].ts = stream[i].ts
  BY NextBufShape
<1>2. 1 \in DOMAIN b
  BY <1>1
<1>3. frameBuf # <<>> => 1 \in DOMAIN frameBuf
  BY ReaderTypes, Indices
<1>4. AtBoundary(i) =>
        /\ frameBuf # <<>> /\ stream[frameBuf[1]].ts = lastFrameTS
        /\ \A k \in DOMAIN frameBuf : stream[frameBuf[k]].ts = stream[frameBuf[1]].ts
  BY <1>3 DEF AtBoundary, BufferShape
<1> QED
  BY <1>1, <1>2, <1>4

LEMMA ReceiveFlushedBefore ==
  ASSUME IInv, NEW i \in 1 .. Len(stream), Deliverable(i), Receive(i)
  PROVE  FlushedBefore'
<1> USE DEF IInv
<1>1. /\ stream' = stream /\ lastFrameTS' = stream[i].ts
      /\ frameBuf' = IF stream[i].marker THEN <<>> ELSE NextBuf(i)
  BY ReceiveStep
<1>2. ASSUME NEW x \in (Batches(forwarded) \cup Batches(cacheOnly))'
      PROVE  \/ x \in Batches(forwarded) \cup Batches(cacheOnly)
             \/ x = frameBuf /\ AtBoundary(i)
             \/ x = NextBuf(i) /\ stream[i].marker
  BY <1>2, ForwardedBatches
<1>3. \A x \in (Batches(forwarded) \cup Batches(cacheOnly))' : x # <<>>
  BY <1>2, BufferTimes DEF FlushedBefore
<1>4. ASSUME Late' = {}, NEW x \in (Batches(forwarded) \cup Batches(cacheOnly))'
      PROVE  /\ stream[x[1]].ts <= stream[i].ts
             /\ frameBuf' # <<>> => stream[x[1]].ts < stream[i].ts
  <2>1. PICK a : a = stream[x[1]].ts
    OBVIOUS
  <2>2. PICK c \in Nat : c = stream[i].ts
    BY PacketTypes
  <2>3. CASE x \in Batches(forwarded) \cup Batches(cacheOnly)
    <3>1. a < c
      BY <1>4, <2>1, <2>2, <2>3, OlderFrames
    <3>2. a \in Nat
      <4>1. x \in Seq(1 .. Len(stream)) /\ x # <<>>
        BY <2>3, ReaderTypes DEF FlushedBefore
      <4>2. x[1] \in 1 .. Len(stream)
        BY <4>1, Indices, PacketTypes
      <4> QED
        BY <2>1, <4>2, PacketTypes
    <3>3. a <= c
      BY <2>2, <3>1, <3>2
    <3> QED
      BY <2>1, <2>2, <3>1, <3>3
  <2>4. CASE x = frameBuf /\ AtBoundary(i)
    <3>1. a < c /\ a = lastFrameTS
      BY <1>4, <2>1, <2>2, <2>4, OlderFrames, BufferTimes
    <3>2. a \in Nat
      BY <3>1 DEF TypeOK
    <3>3. a <= c
      BY <2>2, <3>1, <3>2
    <3> QED
      BY <2>1, <2>2, <3>1, <3>3
  <2>5. CASE x = NextBuf(i) /\ stream[i].marker
    <3>1. a = c
      BY <2>1, <2>2, <2>5, BufferTimes
    <3>2. a <= c /\ frameBuf' = <<>>
      BY <1>1, <2>2, <2>5, <3>1
    <3> QED
      BY <2>1, <2>2, <3>2
  <2> QED
    BY <1>2, <2>3, <2>4, <2>5
<1> QED
  BY <1>1, <1>3, <1>4, Zenon DEF FlushedBefore

LEMMA ReceiveCacheOnly ==
  ASSUME IInv, NEW i \in 1 .. Len(stream), Deliverable(i), Receive(i)
  PROVE  CacheOnlyKeyFrames'
<1> USE DEF IInv
<1>1. stream' = stream
  BY ReceiveStep
<1>2. ASSUME NEW x \in Batches(cacheOnly)'
      PROVE  \/ x \in Batches(cacheOnly)
             \/ x = frameBuf /\ AtBoundary(i) /\ isIDRFrame(frameBuf)
             \/ x = NextBuf(i) /\ stream[i].marker /\ NextGapped(i) /\ isIDRFrame(NextBuf(i))
  BY <1>2, ForwardedBatches
<1>3. ASSUME NEW f \in Batches(forwarded)'
      PROVE  f \in Batches(forwarded) \/ (f = NextBuf(i) /\ ~NextGapped(i))
  BY <1>3, ForwardedBatches
<1>4. ASSUME NEW x \in Batches(cacheOnly)'
      PROVE  /\ stream[x[1]].type = "STAP-A"
             /\ \A k \in DOMAIN x : stream[x[k]].ts = stream[x[1]].ts
  BY <1>2, <1>4, BufferTimes DEF CacheOnlyKeyFrames, isIDRFrame
<1>5. ASSUME Late' = {}, NEW x \in Batches(cacheOnly)', NEW f \in Batches(forwarded)'
      PROVE  stream[f[1]].ts # stream[x[1]].ts
  <2>1. /\ Late = {} /\ (AtBoundary(i) => lastFrameTS < stream[i].ts)
        /\ \A y \in Batches(forwarded) \cup Batches(cacheOnly) : stream[y[1]].ts < stream[i].ts
    BY <1>5, OlderFrames
  <2>2. stream[i].ts \in Nat /\ lastFrameTS \in Nat
    BY PacketTypes DEF TypeOK
  <2>3. ~(stream[i].ts < stream[i].ts) /\ ~(lastFrameTS < lastFrameTS)
    BY <2>2
  <2>4. CASE f \in Batches(forwarded)
    <3>1. CASE x \in Batches(cacheOnly)
      BY <2>1, <2>4, <3>1 DEF CacheOnlyKeyFrames
    <3>2. CASE x = frameBuf /\ AtBoundary(i)
      <4>1. stream[f[1]].ts < lastFrameTS /\ stream[x[1]].ts = lastFrameTS
        BY <2>1, <2>4, <3>2, BufferTimes DEF FlushedBefore
      <4> QED
        BY <2>3, <4>1, Zenon
    <3>3. CASE x = NextBuf(i)
      <4>1. stream[f[1]].ts < stream[i].ts /\ stream[x[1]].ts = stream[i].ts
        BY <2>1, <2>4, <3>3, BufferTimes
      <4> QED
        BY <2>3, <4>1, Zenon
    <3> QED
      BY <1>2, <1>5, <3>1, <3>2, <3>3
  <2>5. CASE f = NextBuf(i) /\ ~NextGapped(i)
    <3>1. stream[f[1]].ts = stream[i].ts
      BY <2>5, BufferTimes
    <3>2. stream[x[1]].ts < stream[i].ts
      BY <1>2, <1>5, <2>1, <2>5, BufferTimes
    <3> QED
      BY <2>3, <3>1, <3>2, Zenon
  <2> QED
    BY <1>3, <1>5, <2>4, <2>5
<1> QED
  BY <1>1, <1>4, <1>5, Zenon DEF CacheOnlyKeyFrames

\* A turn with a packet whose frame is intact up to it leaves that much of the
\* frame in the buffer, without a gap.
LEMMA IntactTurn ==
  ASSUME IInv, NEW i \in 1 .. Len(stream), Deliverable(i), Receive(i),
         Late' = {}, IntactUpTo(i)'
  PROVE  /\ ~NextGapped(i) /\ Len(NextBuf(i)) = stream[i].pos
         /\ \A k \in 1 .. Len(NextBuf(i)) : NextBuf(i)[k] = FirstOf(i) + k - 1
<1> USE DEF IInv
<1>1. PICK N \in Nat : /\ N = Len(stream)
                       /\ \A j \in 1 .. N : stream[j].pos \in Nat \ {0} /\ stream[j].ts \in Nat
  BY PacketTypes
<1>2. stream' = stream /\ arrived' = Append(arrived, i)
  BY ReceiveStep
<1>3. PICK s \in 1 .. i : /\ s = FirstOf(i) /\ s = i - stream[i].pos + 1
                          /\ \A j \in 1 .. (s - 1) : stream[j].ts < stream[i].ts
  BY FrameBegins DEF FirstOf
<1>4. FirstOf(i)' = s
  BY <1>2, <1>3 DEF FirstOf
<1>5. /\ \A j \in s .. i : j \in Arrived \cup {i}
      /\ stream[i].pos <= FrameCap
      /\ ~LossBefore(s)'
  <2>1. Arrived' = Arrived \cup {i}
    BY <1>2, ArrivedStep
  <2>2. LossBefore(FirstOf(i))' <=> LossBefore(s)'
    BY <1>4 DEF LossBefore
  <2> QED
    BY <1>2, <1>4, <2>1, <2>2 DEF IntactUpTo
<1>6. FrameCap \in Nat \ {0}
  BY FrameBufferAssumption
<1>7. CASE stream[i].pos = 1
  <2>1. s = i
    BY <1>3, <1>7
  <2>2. ~Overflows(<<>>) /\ Append(<<>>, i) = <<i>>
    BY <1>6 DEF Overflows
  <2>3. ~NextGapped(i) /\ NextBuf(i) = <<i>>
    <3>1. CASE arrived = <<>>
      <4>1. frameBuf = <<>> /\ frameGapped = FALSE /\ NextGap(i) = 0 /\ ~AtBoundary(i)
        BY <3>1 DEF BufferShape, NextGap, AtBoundary
      <4> QED
        BY <2>2, <4>1 DEF NextGapped, NextBuf
    <3>2. CASE arrived # <<>>
      <4>1. PICK l \in 1 .. N : l = LastArrived /\ l < i
        BY <1>1, <1>2, <3>2, InOrder, ReaderTypes
      <4>2. CASE ~stream[l].marker
        <5>1. l \in 1 .. (s - 1)
          BY <1>1, <2>1, <4>1
        <5>2. stream[i].ts # lastFrameTS /\ frameBuf # <<>>
          <6>1. stream[l].ts < stream[i].ts /\ stream[l].ts \in Nat /\ stream[i].ts \in Nat
            BY <1>1, <1>3, <5>1
          <6>2. stream[l].ts # stream[i].ts
            BY <6>1
          <6> QED
            BY <3>2, <4>1, <4>2, <6>2 DEF BufferShape
        <5>3. AtBoundary(i)
          BY <3>2, <5>2 DEF AtBoundary
        <5>4. isFrameStart(i)
          BY <1>1, <1>7 DEF StreamShape
        <5> QED
          BY <5>3, <5>4 DEF NextGapped, NextBuf
      <4>3. CASE stream[l].marker
        <5>1. frameBuf = <<>> /\ frameGapped = FALSE
          BY <3>2, <4>1, <4>3 DEF BufferShape
        <5>2. l = i - 1
          <6>1. PICK n \in Nat : n = Len(arrived) /\ n \in 1 .. n /\ l = arrived[n]
            BY <3>2, <4>1, ReaderTypes, Indices DEF LastArrived
          <6>2. Len(arrived') = n + 1 /\ arrived'[n + 1] = i /\ arrived'[n] = l
            BY <1>2, <6>1, ArrivedStep
          <6>3. n + 1 \in 2 .. (n + 1) /\ (n + 1) - 1 = n
            BY <6>1
          <6>4. \A k \in 2 .. (n + 1) :
                  ~(arrived'[k] = i /\ arrived'[k - 1] # i - 1 /\ stream[arrived'[k - 1]].marker)
            BY <1>2, <1>5, <2>1, <6>2 DEF LossBefore
          <6> QED
            BY <4>3, <6>2, <6>3, <6>4
        <5>3. Gap(i) = 0
          <6>1. i = LastArrived + 1
            BY <1>1, <4>1, <5>2
          <6> QED
            BY <3>2, <6>1, GapIs
        <5>4. ~AtBoundary(i) /\ NextGap(i) = 0
          BY <3>2, <5>1, <5>3 DEF AtBoundary, NextGap
        <5> QED
          BY <2>2, <5>1, <5>4 DEF NextGapped, NextBuf
      <4> QED
        BY <4>2, <4>3
    <3> QED
      BY <3>1, <3>2
  <2>4. /\ Len(<<i>>) = 1 /\ \A k \in 1 .. 1 : <<i>>[k] = i + k - 1
    OBVIOUS
  <2> QED
    BY <1>3, <1>7, <2>1, <2>3, <2>4
<1>8. CASE stream[i].pos # 1
  <2>1. PICK p \in Nat : p = stream[i].pos /\ p >= 2 /\ s = i - p + 1 /\ p <= FrameCap
    BY <1>1, <1>3, <1>5, <1>8
  <2>2. i - 1 \in s .. i /\ i - 1 \in Arrived /\ i - 1 \in 1 .. (N - 1)
    <3>1. i - 1 \in s .. i /\ i - 1 # i /\ i - 1 \in 1 .. (N - 1)
      BY <1>1, <1>3, <2>1
    <3> QED
      BY <1>5, <3>1
  <2>3. arrived # <<>>
    BY <2>2 DEF Arrived
  <2>4. PICK l \in 1 .. N : l = LastArrived /\ l < i /\ \A j \in Arrived : j <= l
    BY <1>1, <1>2, <2>3, InOrder, ReaderTypes
  <2>5. l = i - 1
    BY <1>1, <2>2, <2>4
  <2>6. ~stream[l].marker /\ stream[l].ts = stream[i].ts /\ stream[l].pos + 1 = p
    <3>1. l \in 1 .. (Len(stream) - 1) /\ l + 1 = i
      BY <1>1, <2>2, <2>5
    <3> QED
      BY <1>8, <2>1, <3>1 DEF StreamShape
  <2>7. stream[l].pos \in Nat /\ stream[l].pos = p - 1
    BY <1>1, <2>1, <2>4, <2>6
  <2>8. FirstOf(l) = s
    <3>1. FirstOf(l) = l - (p - 1) + 1
      BY <2>7 DEF FirstOf
    <3>2. i \in Int /\ l = i - 1
      BY <1>1, <2>5
    <3>3. l - (p - 1) + 1 = i - p + 1
      BY <3>2
    <3> QED
      BY <2>1, <3>1, <3>3
  <2>9. IntactUpTo(l)
    <3>1. \A j \in s .. l : j \in Arrived
      <4>1. \A j \in s .. l : j \in s .. i /\ j # i
        BY <1>1, <1>3, <2>5
      <4> QED
        BY <1>5, <4>1
    <3>2. p - 1 <= FrameCap
      BY <1>6, <2>1
    <3>3. ~LossBefore(s)
      BY <1>2, <1>5, LossStays
    <3> QED
      BY <2>7, <2>8, <3>1, <3>2, <3>3 DEF IntactUpTo
  <2>10. /\ frameGapped = FALSE /\ Len(frameBuf) = p - 1
         /\ \A k \in 1 .. Len(frameBuf) : frameBuf[k] = s + k - 1
    <3>1. Late = {}
      BY <1>2, InOrder
    <3> QED
      BY <2>3, <2>4, <2>6, <2>7, <2>8, <2>9, <3>1 DEF KeepsIntact
  <2>11. ~AtBoundary(i) /\ ~Overflows(frameBuf) /\ NextGap(i) = 0
    <3>1. lastFrameTS = stream[i].ts
      BY <2>3, <2>4, <2>6 DEF BufferShape
    <3>2. ~Overflows(frameBuf)
      BY <1>6, <2>1, <2>10 DEF Overflows
    <3>3. i = LastArrived + 1
      BY <1>1, <2>4, <2>5
    <3>4. NextGap(i) = 0
      BY <2>3, <3>3, GapIs DEF NextGap
    <3> QED
      BY <3>1, <3>2, <3>4 DEF AtBoundary
  <2>12. ~NextGapped(i)
    BY <2>10, <2>11 DEF NextGapped
  <2>13. PICK b : b = NextBuf(i) /\ b = Append(frameBuf, i)
    BY <2>11 DEF NextBuf
  <2>14. /\ Len(b) = p /\ b[p] = i /\ \A k \in 1 .. (p - 1) : b[k] = s + k - 1
    <3>1. frameBuf \in Seq(1 .. N)
      BY <1>1, ReaderTypes
    <3>2. /\ Len(b) = Len(frameBuf) + 1 /\ b[Len(frameBuf) + 1] = i
          /\ \A k \in 1 .. Len(frameBuf) : b[k] = frameBuf[k]
      BY <1>1, <2>13, <3>1, AppendOne
    <3>3. Len(frameBuf) + 1 = p
      BY <2>1, <2>10
    <3> QED
      BY <2>10, <3>2, <3>3
  <2>15. ASSUME NEW k \in 1 .. p PROVE b[k] = s + k - 1
    <3>1. CASE k = p
      BY <1>1, <2>1, <2>14, <3>1
    <3>2. CASE k # p
      <4>1. k \in 1 .. (p - 1)
        BY <2>1, <3>2
      <4> QED
        BY <2>14, <4>1
    <3> QED
      BY <3>1, <3>2
  <2> QED
    BY <1>3, <2>1, <2>12, <2>13, <2>14, <2>15
<1> QED
  BY <1>7, <1>8

LEMMA ReceiveKeepsIntact ==
  ASSUME IInv, NEW i \in 1 .. Len(stream), Deliverable(i), Receive(i)
  PROVE  KeepsIntact'
<1> USE DEF IInv
<1>1. /\ stream' = stream /\ LastArrived' = i
      /\ frameBuf' = IF stream[i].marker THEN <<>> ELSE NextBuf(i)
      /\ frameGapped' = TRUE <=> ~stream[i].marker /\ NextGapped(i)
      /\ frameGapped' \in BOOLEAN
  BY ReceiveStep, ArrivedStep
<1>2. FirstOf(i)' = FirstOf(i) /\ FirstOf(LastArrived)' = FirstOf(i)
  BY <1>1 DEF FirstOf
<1>3. IntactUpTo(LastArrived)' <=> IntactUpTo(i)'
  BY <1>1, <1>2 DEF IntactUpTo, LossBefore
<1>4. ASSUME Late' = {}, ~stream[i].marker, IntactUpTo(i)'
      PROVE  /\ frameGapped' = FALSE /\ Len(frameBuf') = stream[i].pos
             /\ \A k \in 1 .. Len(frameBuf') : frameBuf'[k] = FirstOf(i) + k - 1
  <2>1. /\ ~NextGapped(i) /\ Len(NextBuf(i)) = stream[i].pos
        /\ \A k \in 1 .. Len(NextBuf(i)) : NextBuf(i)[k] = FirstOf(i) + k - 1
    BY <1>4, IntactTurn
  <2> QED
    BY <1>1, <1>4, <2>1
<1> QED
  BY <1>1, <1>2, <1>3, <1>4, Zenon DEF KeepsIntact

LEMMA ReceiveForwardsIntact ==
  ASSUME IInv, NEW i \in 1 .. Len(stream), Deliverable(i), Receive(i)
  PROVE  ForwardsIntact'
<1> USE DEF IInv
<1>1. stream' = stream /\ arrived' = Append(arrived, i)
  BY ReceiveStep
<1>2. SUFFICES ASSUME Late' = {}, NEW j \in 1 .. Len(stream), stream[j].marker, IntactUpTo(j)'
               PROVE  \E b \in Batches(forwarded)' :
                        /\ Len(b) = stream[j].pos
                        /\ \A k \in 1 .. Len(b) : b[k] = FirstOf(j) + k - 1
  <2>1. \A j : FirstOf(j)' = FirstOf(j)
    BY <1>1 DEF FirstOf
  <2> QED
    BY <1>1, <2>1, Zenon DEF ForwardsIntact
<1>3. CASE j = i
  <2>1. /\ ~NextGapped(i) /\ Len(NextBuf(i)) = stream[i].pos
        /\ \A k \in 1 .. Len(NextBuf(i)) : NextBuf(i)[k] = FirstOf(i) + k - 1
    BY <1>2, <1>3, IntactTurn
  <2>2. NextBuf(i) \in Batches(forwarded)'
    BY <1>2, <1>3, <2>1, ForwardedBatches
  <2> QED
    BY <1>3, <2>1, <2>2, Zenon
<1>4. CASE j # i
  <2>1. PICK N \in Nat : N = Len(stream) /\ stream[j].pos \in Nat \ {0}
    BY PacketTypes
  <2>2. /\ FirstOf(j)' = FirstOf(j) /\ FirstOf(j) \in 1 .. j
        /\ Arrived' = Arrived \cup {i}
    BY <1>1, FrameBegins, ArrivedStep DEF FirstOf
  <2>3. /\ \A m \in FirstOf(j) .. j : m \in Arrived \cup {i}
        /\ stream[j].pos <= FrameCap /\ ~LossBefore(FirstOf(j))
    <3>1. ~LossBefore(FirstOf(j))'
      BY <1>2 DEF IntactUpTo
    <3>2. PICK s : s = FirstOf(j)
      OBVIOUS
    <3>3. LossBefore(s)' <=> LossBefore(FirstOf(j))'
      BY <2>2, <3>2 DEF LossBefore
    <3>4. ~LossBefore(s)
      BY <1>1, <3>1, <3>3, LossStays
    <3> QED
      BY <1>1, <1>2, <2>2, <3>2, <3>4 DEF IntactUpTo
  <2>4. j \in Arrived /\ j < i
    <3>1. j \in FirstOf(j) .. j
      BY <2>1, <2>2
    <3>2. j \in Arrived
      BY <1>4, <2>3, <3>1
    <3> QED
      BY <1>1, <1>2, <3>2, InOrder
  <2>5. IntactUpTo(j)
    <3>1. \A m \in FirstOf(j) .. j : m # i
      BY <2>1, <2>2, <2>4
    <3> QED
      BY <2>3, <3>1 DEF IntactUpTo
  <2>6. Late = {}
    BY <1>1, <1>2, InOrder
  <2>7. PICK b \in Batches(forwarded) :
          Len(b) = stream[j].pos /\ \A k \in 1 .. Len(b) : b[k] = FirstOf(j) + k - 1
    BY <1>2, <2>5, <2>6, Zenon DEF ForwardsIntact
  <2>8. b \in Batches(forwarded)'
    BY <2>7, ForwardedBatches
  <2> QED
    BY <2>7, <2>8, Zenon
<1> QED
  BY <1>3, <1>4

-----------------------------------------------------------------------------
(***************************************************************************)
(* The invariant and what follows from it.                                 *)
(***************************************************************************)

\* Nothing has been sent.
LEMMA InitIInv == Init => IInv
<1> SUFFICES ASSUME Init PROVE IInv
  OBVIOUS
<1>1. /\ stream = <<>> /\ arrived = <<>> /\ frameBuf = <<>> /\ forwarded = <<>> /\ cacheOnly = <<>>
      /\ DOMAIN stream = {} /\ Len(stream) = 0 /\ DOMAIN frameBuf = {}
  BY DEF Init
<1>2. Batches(forwarded) = {} /\ Batches(cacheOnly) = {}
  BY <1>1 DEF Batches
<1>3. TypeOK
  <2>1. stream \in Seq(Packet) /\ arrived \in Seq(DOMAIN stream) /\ frameBuf \in Seq(DOMAIN stream)
    BY <1>1, EmptySeq
  <2>2. forwarded \in Seq(Seq(DOMAIN stream)) /\ cacheOnly \in Seq(Seq(DOMAIN stream))
    BY <1>1, EmptySeq
  <2>3. /\ lastSeq \in 0 .. (SeqMod - 1) /\ highestVideoSeq \in 0 .. (SeqMod - 1)
        /\ lastFrameTS \in Nat /\ dropCount \in Nat /\ droppedFrames \in Nat
        /\ Len(frameBuf) <= FrameCap
    BY <1>1, FrameBufferAssumption DEF Init
  <2>4. firstSeq \in FirstSeqs /\ frameGapped \in BOOLEAN
    BY DEF Init
  <2> QED
    BY <2>1, <2>2, <2>3, <2>4, Zenon DEF TypeOK
<1>4. StreamShape
  BY <1>1 DEF StreamShape
<1>5. BufferShape
  BY <1>1 DEF BufferShape, Init
<1>6. NoHoles /\ FlushedBefore /\ CacheOnlyKeyFrames
  BY <1>2, Zenon DEF NoHoles, FlushedBefore, CacheOnlyKeyFrames
<1>7. DropCountExact /\ KeepsIntact
  BY <1>1, Zenon DEF DropCountExact, KeepsIntact
<1>8. ForwardsIntact
  BY <1>1 DEF ForwardsIntact
<1> QED
  BY <1>3, <1>4, <1>5, <1>6, <1>7, <1>8 DEF IInv

\* The camera sends a frame, or the reader takes a turn.
LEMMA StepIInv == IInv /\ [Next]_vars => IInv'
<1> SUFFICES ASSUME IInv, [Next]_vars PROVE IInv'
  OBVIOUS
<1>1. ASSUME NEW kind \in FrameKinds, NEW n \in 1 .. MaxFragments, Send(kind, n) PROVE IInv'
  BY <1>1, SendIInv
<1>2. ASSUME NEW i \in DOMAIN stream, Deliverable(i), Receive(i) PROVE IInv'
  <2>1. i \in 1 .. Len(stream)
    BY PacketTypes DEF IInv
  <2>2. TypeOK'
    BY <1>2, <2>1, ReceiveTypeOK
  <2>3. StreamShape'
    <3>1. stream' = stream
      BY <1>2 DEF Receive
    <3>2. StreamShape
      BY DEF IInv
    <3> QED
      BY <3>1, <3>2 DEF StreamShape, FirstOf, LastTS, isFrameStart
  <2>4. BufferShape'
    BY <1>2, <2>1, ReceiveBufferShape
  <2>5. NoHoles' /\ FlushedBefore' /\ CacheOnlyKeyFrames'
    BY <1>2, <2>1, ReceiveNoHoles, ReceiveFlushedBefore, ReceiveCacheOnly
  <2>6. DropCountExact' /\ KeepsIntact' /\ ForwardsIntact'
    BY <1>2, <2>1, ReceiveDropCount, ReceiveKeepsIntact, ReceiveForwardsIntact
  <2> QED
    BY <2>2, <2>3, <2>4, <2>5, <2>6 DEF IInv
<1>3. CASE UNCHANGED vars
  <2>1. /\ TypeOK' <=> TypeOK
        /\ StreamShape' <=> StreamShape
        /\ BufferShape' <=> BufferShape
    BY <1>3 DEF vars, TypeOK, StreamShape, FirstOf, LastTS, isFrameStart, BufferShape,
                LastArrived, SeqOf, Consecutive, GoodStart
  <2>2. /\ NoHoles' <=> NoHoles
        /\ FlushedBefore' <=> FlushedBefore
        /\ CacheOnlyKeyFrames' <=> CacheOnlyKeyFrames
        /\ DropCountExact' <=> DropCountExact
    BY <1>3 DEF vars, NoHoles, FlushedBefore, CacheOnlyKeyFrames, DropCountExact, Late,
                LastArrived, Batches
  <2>3. /\ KeepsIntact' <=> KeepsIntact
        /\ ForwardsIntact' <=> ForwardsIntact
    BY <1>3 DEF vars, KeepsIntact, ForwardsIntact, Late, LastArrived, IntactUpTo, FirstOf,
                Arrived, LossBefore, Batches
  <2> QED
    BY <2>1, <2>2, <2>3 DEF IInv
<1> QED
  BY <1>1, <1>2, <1>3 DEF Next

\* The inductive invariant holds in every behaviour.
LEMMA SpecIInv == Spec => []IInv
  BY InitIInv, StepIInv, PTL DEF Spec

\* That the buffer forwards every intact frame, said of its packets.
LEMMA IntactFollows == IInv => IntactForwarded
<1> SUFFICES ASSUME IInv, Late = {}, NEW i \in DOMAIN stream, stream[i].marker,
                    FrameOf(i) \subseteq Arrived, Cardinality(FrameOf(i)) <= FrameCap,
                    \A j \in FrameOf(i) : stream[j].pos = 1 => ~LossBefore(j)
             PROVE  \E b \in Batches(forwarded) : {b[k] : k \in DOMAIN b} = FrameOf(i)
  BY Zenon DEF IntactForwarded
<1> USE DEF IInv
<1>1. i \in 1 .. Len(stream) /\ Len(stream) \in Nat
  BY PacketTypes
<1>2. FrameOf(i) = FirstOf(i) .. i /\ Cardinality(FrameOf(i)) = stream[i].pos
  BY <1>1, FrameIsInterval
<1>3. PICK s \in 1 .. i : s = FirstOf(i) /\ stream[s].pos = 1
  BY <1>1, FrameBegins
<1>4. IntactUpTo(i)
  <2>1. s \in s .. i
    BY <1>1, <1>3
  <2>2. ~LossBefore(s)
    BY <1>2, <1>3, <2>1
  <2> QED
    BY <1>2, <1>3, <2>2 DEF IntactUpTo
<1>5. PICK b \in Batches(forwarded) :
        Len(b) = stream[i].pos /\ \A k \in 1 .. Len(b) : b[k] = FirstOf(i) + k - 1
  BY <1>1, <1>4, Zenon DEF ForwardsIntact
<1>6. PICK p \in Nat : p = stream[i].pos /\ s = i - p + 1
  BY <1>1, <1>3, PacketTypes DEF FirstOf
<1>7. DOMAIN b = 1 .. p /\ \A k \in 1 .. p : b[k] = s + k - 1
  <2>1. DOMAIN b = 1 .. Len(b)
    BY <1>1, <1>5, ReaderTypes, Indices
  <2> QED
    BY <1>3, <1>5, <1>6, <2>1
<1>8. {b[k] : k \in DOMAIN b} = s .. i
  <2>1. ASSUME NEW k \in 1 .. p PROVE b[k] \in s .. i
    <3>1. s + k - 1 \in s .. i
      BY <1>1, <1>3, <1>6
    <3> QED
      BY <1>7, <3>1
  <2>2. ASSUME NEW j \in s .. i PROVE \E k \in 1 .. p : b[k] = j
    <3>1. PICK k \in 1 .. p : s + k - 1 = j
      <4>1. i \in Nat /\ s \in Nat /\ j \in Nat /\ s <= j /\ j <= i /\ p = i - s + 1
        BY <1>1, <1>3, <1>6
      <4>2. (j - s + 1) \in 1 .. p /\ s + (j - s + 1) - 1 = j
        BY <4>1
      <4> QED
        BY <4>2
    <3> QED
      BY <1>7, <3>1
  <2> QED
    BY <1>7, <2>1, <2>2
<1> QED
  BY <1>2, <1>3, <1>5, <1>8

\* Every variable keeps its type; the buffer never holds more than FrameCap packets
\* (proxy.go 442-449).
THEOREM FrameBufferTypeOK == Spec => []TypeOK
  BY SpecIInv, PTL DEF IInv

\* What reaches the RTSP clients has no holes, for every stream, every size of the
\* buffer and every pattern of loss, delay and repetition (proxy.go 381-387,
\* 409-436, 442-449, 478-496).
THEOREM FrameBufferNoHoles == Spec => []NoHoles
  BY SpecIInv, PTL DEF IInv

\* Unless a packet was late, a frame that arrived whole is forwarded, whatever was
\* lost of the frame before; only a loss right after the end of a frame is held
\* against the next (proxy.go 381-387, 409, 432-436, 495).
THEOREM FrameBufferIntactForwarded == Spec => []IntactForwarded
  BY SpecIInv, IntactFollows, PTL

\* Unless a packet was late, dropCount is the number of packets lost since the
\* first, however often the sequence number has wrapped (proxy.go 380-386).
THEOREM FrameBufferDropCountExact == Spec => []DropCountExact
  BY SpecIInv, PTL DEF IInv

\* The cache is offered packets of one frame that begin with its parameter sets,
\* and unless a packet was late, never of a frame that was forwarded (proxy.go
\* 414-424, 483-490).
THEOREM FrameBufferCacheOnlyKeyFrames == Spec => []CacheOnlyKeyFrames
  BY SpecIInv, PTL DEF IInv

=============================================================================
