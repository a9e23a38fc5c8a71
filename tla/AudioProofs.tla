----------------------------- MODULE AudioProofs -----------------------------
(***************************************************************************)
(* For every frame size, gain, number of encoder errors and width of the   *)
(* counters: the encoder is given what was decoded, in order; there is     *)
(* room for the next frame; what comes out is numbered without gaps.       *)
(***************************************************************************)
EXTENDS Audio, SequenceTheorems, TLAPS

\* Between two packets less than an encoder frame waits, and what the encoder has
\* failed to take.
PcmBound == Len(pcm) <= FrameSize - 1 + failures * decodedSize

\* The timestamp of a transcoded packet follows from its number, and audioSeq is
\* the number after that of the last one.
Numbers ==
  \A j \in DOMAIN out : out[j].transcoded =>
    /\ out[j].ts = (out[j].seq * FrameSize) % TSMod
    /\ (\A i \in (j + 1) .. Len(out) : ~out[i].transcoded) =>
         audioSeq = (out[j].seq + 1) % SeqMod

IInv == TypeOK /\ PcmBound /\ SamplesInOrder /\ Numbers /\ Renumbered

-----------------------------------------------------------------------------
(***************************************************************************)
(* Arithmetic of the counters, as in RtspVideoProofs.                      *)
(***************************************************************************)

LEMMA ModRange ==
  ASSUME NEW a \in Int, NEW n \in Nat \ {0}
  PROVE  a = n * (a \div n) + (a % n) /\ a \div n \in Int /\ a % n \in 0 .. (n - 1)
  OBVIOUS

\* The remainder is unique.
LEMMA ModUnique ==
  ASSUME NEW n \in Nat \ {0}, NEW q \in Int, NEW r \in 0 .. (n - 1), NEW a, a = n * q + r
  PROVE  a % n = r
<1>1. a \in Int
  <2>1. n * q \in Int
    OBVIOUS
  <2> QED
    BY <2>1
<1>2. PICK p \in Int, s \in 0 .. (n - 1) : s = a % n /\ a = n * p + s
  BY <1>1, ModRange
<1>3. n * (q - p) = s - r
  <2>1. n * (q - p) = n * q - n * p
    OBVIOUS
  <2>2. n * q \in Int /\ n * p \in Int
    OBVIOUS
  <2> QED
    BY <1>2, <2>1, <2>2
<1>4. q - p = 0
  <2>1. CASE q - p >= 1
    <3>1. n * (q - p) >= n * 1
      BY <2>1
    <3> QED
      BY <1>3, <3>1
  <2>2. CASE q - p <= -1
    <3>1. n * (q - p) <= n * (-1)
      BY <2>2
    <3> QED
      BY <1>3, <3>1
  <2> QED
    BY <2>1, <2>2
<1>5. s = r
  BY <1>3, <1>4
<1> QED
  BY <1>2, <1>5

LEMMA ModSmall ==
  ASSUME NEW n \in Nat \ {0}, NEW a \in 0 .. (n - 1)
  PROVE  a % n = a
  OBVIOUS

\* A counter that wraps at every step, and one that wraps at the end.
LEMMA ModAdd ==
  ASSUME NEW a \in Int, NEW b \in Int, NEW n \in Nat \ {0}
  PROVE  ((a % n) + b) % n = (a + b) % n
<1>1. PICK p \in Int, s \in 0 .. (n - 1) : s = a % n /\ a = n * p + s
  BY ModRange
<1>2. PICK q \in Int, r \in 0 .. (n - 1) : r = (s + b) % n /\ s + b = n * q + r
  <2>1. s + b \in Int
    OBVIOUS
  <2> QED
    BY <2>1, ModRange
<1>3. a + b = n * (p + q) + r
  <2>1. PICK x \in Int, y \in Int : x = n * p /\ y = n * q
    OBVIOUS
  <2>2. n * (p + q) = x + y
    BY <2>1
  <2>3. a = x + s /\ s + b = y + r
    BY <1>1, <1>2, <2>1
  <2>4. a + b = (x + y) + r
    BY <2>3
  <2> QED
    BY <2>2, <2>4
<1>4. p + q \in Int
  OBVIOUS
<1>5. (a + b) % n = r
  BY <1>3, <1>4, ModUnique
<1> QED
  BY <1>1, <1>2, <1>5

-----------------------------------------------------------------------------
(***************************************************************************)
(* Samples.                                                                *)
(***************************************************************************)

\* A product that fits is stored as it is.
LEMMA WrapIdentity ==
  ASSUME NEW M \in Nat, M % 2 = 0, NEW n \in (0 - M \div 2) .. (M \div 2 - 1)
  PROVE  Wrap(n, M) = n
<1>1. PICK h \in Int : h = M \div 2 /\ M = 2 * h
  OBVIOUS
<1>2. n + h \in 0 .. (M - 1) /\ M \in Nat \ {0} /\ (n + h) - h = n
  BY <1>1
<1>3. (n + h) % M = n + h
  BY <1>2, ModSmall
<1> QED
  BY <1>1, <1>2, <1>3 DEF Wrap

\* The samples of a frame: what is stored is what should sound.
Chunk(v, size) == [k \in 1 .. size |-> Amplify(v)]

LEMMA ChunkIsHeard ==
  ASSUME TypeOK, NEW v \in Levels, NEW size \in Sizes
  PROVE  /\ Chunk(v, size) \in Seq(Int) /\ Len(Chunk(v, size)) = size
         /\ Hear(v, size) => heard' = heard \o Chunk(v, size)
<1>1. v \in Int /\ gain \in Int /\ size \in Nat
  BY AudioAssumption DEF TypeOK, Sizes
<1>2. /\ PCMMod \in Nat /\ PCMMod \div 2 \in Int
      /\ v * gain \in (0 - ProductMod \div 2) .. (ProductMod \div 2 - 1)
      /\ ProductMod \in Nat /\ ProductMod % 2 = 0
  BY AudioAssumption DEF TypeOK
<1>3. Wrap(v * gain, ProductMod) = v * gain
  BY <1>2, WrapIdentity
<1>4. PICK a : a = Amplify(v) /\ a = IF gain = 0 THEN v ELSE Clamp(v * gain)
  BY <1>3 DEF Amplify
<1>5. a \in Int
  <2>1. v * gain \in Int
    BY <1>1
  <2> QED
    BY <1>1, <1>2, <1>4, <2>1 DEF Clamp
<1>6. Chunk(v, size) = [k \in 1 .. size |-> a]
  BY <1>4 DEF Chunk
<1>7. Chunk(v, size) \in [1 .. size -> Int]
  BY <1>5, <1>6
<1>8. Chunk(v, size) \in Seq(Int)
  BY <1>1, <1>7, SeqDef
<1>9. Len(Chunk(v, size)) = size
  <2>1. PICK x \in Nat, y \in Nat : x = Len(Chunk(v, size)) /\ y = size /\ 1 .. x = 1 .. y
    BY <1>1, <1>7, <1>8, LenProperties
  <2>2. (x > 0 => x \in 1 .. y) /\ (y > 0 => y \in 1 .. x)
    BY <2>1
  <2> QED
    BY <2>1, <2>2
<1>10. Hear(v, size) => heard' = heard \o Chunk(v, size)
  BY <1>4, <1>6, Zenon DEF Hear
<1> QED
  BY <1>8, <1>9, <1>10

\* The samples that wait and the new ones.
LEMMA AppendedSamples ==
  ASSUME TypeOK, NEW v \in Levels, NEW size \in Sizes
  PROVE  /\ Appended(v, size) = pcm \o Chunk(v, size) /\ Appended(v, size) \in Seq(Int)
         /\ Len(Appended(v, size)) = Len(pcm) + size
<1>1. pcm \in Seq(Int)
  BY DEF TypeOK
<1>2. Chunk(v, size) \in Seq(Int) /\ Len(Chunk(v, size)) = size
  BY ChunkIsHeard
<1>3. Appended(v, size) = pcm \o Chunk(v, size)
  BY Zenon DEF Appended, Chunk
<1>4. pcm \o Chunk(v, size) \in Seq(Int) /\ Len(pcm \o Chunk(v, size)) = Len(pcm) + Len(Chunk(v, size))
  BY <1>1, <1>2, ConcatProperties
<1> QED
  BY <1>2, <1>3, <1>4

\* A frame for the encoder and what Shift leaves are all there was.
LEMMA CutInTwo ==
  ASSUME NEW s \in Seq(Int), Enough(s)
  PROVE  /\ SubSeq(s, 1, FrameSize) \in Seq(Int) /\ Shift(s) \in Seq(Int)
         /\ Len(Shift(s)) = Len(s) - FrameSize
         /\ SubSeq(s, 1, FrameSize) \o Shift(s) = s
<1>1. PICK n \in Nat, f \in Nat : n = Len(s) /\ f = FrameSize /\ f >= 1 /\ n >= f
  BY LenProperties, AudioAssumption DEF Enough
<1>2. \A i \in 1 .. n : s[i] \in Int
  BY <1>1, ElementOfSeq
<1>3. SubSeq(s, 1, f) \in Seq(Int)
  <2>1. \A i \in 1 .. f : s[i] \in Int
    BY <1>1, <1>2
  <2> QED
    BY <2>1, SubSeqProperties
<1>4. SubSeq(s, f + 1, n) \in Seq(Int) /\ Len(SubSeq(s, f + 1, n)) = n - f
  <2>1. f + 1 \in Int /\ \A i \in (f + 1) .. n : s[i] \in Int
    BY <1>1, <1>2
  <2>2. /\ SubSeq(s, f + 1, n) \in Seq(Int)
        /\ Len(SubSeq(s, f + 1, n)) = IF f + 1 <= n THEN n - (f + 1) + 1 ELSE 0
    BY <2>1, SubSeqProperties
  <2> QED
    BY <1>1, <2>2
<1>5. SubSeq(s, 1, f) \o SubSeq(s, f + 1, n) = s
  <2>1. 1 \in 1 .. Len(s) + 1 /\ f \in 1 - 1 .. Len(s) /\ n \in f .. Len(s)
    BY <1>1
  <2>2. SubSeq(s, 1, f) \o SubSeq(s, f + 1, n) = SubSeq(s, 1, n)
    BY <2>1, ConcatAdjacentSubSeq
  <2>3. SubSeq(s, 1, n) = s
    BY <1>1, SubSeqFull
  <2> QED
    BY <2>2, <2>3
<1> QED
  BY <1>1, <1>3, <1>4, <1>5 DEF Shift

LEMMA SamplesAssociative ==
  \A s, t, u \in Seq(Int) : (s \o t) \o u = s \o (t \o u)
<1> SUFFICES ASSUME NEW s \in Seq(Int), NEW t \in Seq(Int), NEW u \in Seq(Int)
             PROVE  (s \o t) \o u = s \o (t \o u)
  OBVIOUS
<1> QED
  BY ConcatAssociative

\* What waits, after the samples that the encoder has been given, follows what
\* should sound, whether the new samples wait too, the encoder fails, or it takes a
\* frame.
LEMMA SamplesStep ==
  ASSUME TypeOK, SamplesInOrder, NEW v \in Levels, NEW size \in Sizes,
         Accumulate(v, size) \/ EncodeFails(v, size) \/ Encode(v, size)
  PROVE  /\ SamplesInOrder' /\ pcm' \in Seq(Int)
         /\ heard' \in Seq(Int) /\ encoded' \in Seq(Int)
<1>1. pcm \in Seq(Int) /\ encoded \in Seq(Int) /\ heard \in Seq(Int)
  BY DEF TypeOK
<1>2. PICK c \in Seq(Int), a \in Seq(Int) :
        c = Chunk(v, size) /\ a = Appended(v, size) /\ a = pcm \o c /\ heard' = heard \o c
  BY ChunkIsHeard, AppendedSamples DEF Accumulate, EncodeFails, Encode
<1>3. heard' \in Seq(Int)
  BY <1>1, <1>2, ConcatProperties
<1>4. encoded \o a = heard'
  <2>1. (encoded \o pcm) \o c = encoded \o (pcm \o c)
    BY <1>1, <1>2, SamplesAssociative, Zenon
  <2> QED
    BY <1>2, <2>1, Zenon DEF SamplesInOrder
<1>5. CASE Accumulate(v, size) \/ EncodeFails(v, size)
  <2>1. pcm' = a /\ encoded' = encoded
    BY <1>2, <1>5 DEF Accumulate, EncodeFails
  <2> QED
    BY <1>1, <1>2, <1>3, <1>4, <2>1, Zenon DEF SamplesInOrder
<1>6. CASE Encode(v, size)
  <2>1. Enough(a) /\ pcm' = Shift(a) /\ encoded' = encoded \o SubSeq(a, 1, FrameSize)
    BY <1>2, <1>6, Zenon DEF Encode
  <2>2. PICK x \in Seq(Int), y \in Seq(Int) :
          x = SubSeq(a, 1, FrameSize) /\ y = Shift(a) /\ x \o y = a
    BY <2>1, CutInTwo
  <2>3. (encoded \o x) \o y = encoded \o (x \o y)
    <3>1. encoded \in Seq(Int) /\ x \in Seq(Int) /\ y \in Seq(Int)
      BY <1>1
    <3> QED
      BY <3>1, SamplesAssociative, Zenon
  <2>4. encoded' \in Seq(Int)
    BY <1>1, <2>1, <2>2, ConcatProperties
  <2>5. encoded' \o pcm' = heard'
    BY <1>4, <2>1, <2>2, <2>3, Zenon
  <2> QED
    BY <1>3, <2>1, <2>2, <2>4, <2>5 DEF SamplesInOrder
<1> QED
  BY <1>5, <1>6

\* How much waits.
LEMMA PcmStep ==
  ASSUME TypeOK, PcmBound, NEW v \in Levels, NEW size \in Sizes,
         Accumulate(v, size) \/ EncodeFails(v, size) \/ Encode(v, size), UNCHANGED decodedSize
  PROVE  PcmBound' /\ Len(pcm') <= 3 * FrameSize
<1>1. PICK n \in Nat, d \in Nat, e \in Nat, f \in Nat, F \in Nat, b \in Nat :
        /\ n = Len(pcm) /\ d = size /\ e = decodedSize /\ f = FrameSize /\ F = failures
        /\ b = F * e /\ d <= e /\ e <= f
  <2>1. Len(pcm) \in Nat
    BY LenProperties DEF TypeOK
  <2>2. /\ decodedSize \in Nat /\ decodedSize <= FrameSize /\ FrameSize \in Nat
        /\ size \in Nat /\ size <= decodedSize
    BY AudioAssumption DEF TypeOK, Sizes
  <2>3. failures \in Nat
    BY AudioAssumption DEF TypeOK
  <2>4. failures * decodedSize \in Nat
    BY <2>2, <2>3
  <2> QED
    BY <2>1, <2>2, <2>3, <2>4
<1>2. n <= f - 1 + b
  BY <1>1 DEF PcmBound
<1>3. PICK a \in Seq(Int) : a = Appended(v, size) /\ Len(a) = n + d
  BY <1>1, AppendedSamples
<1>4. n + d <= 3 * f
  BY <1>1 DEF Accumulate, EncodeFails, Encode, Fits
<1>5. CASE Accumulate(v, size)
  <2>1. pcm' = a /\ failures' = F /\ ~(n + d >= f)
    BY <1>1, <1>3, <1>5 DEF Accumulate, Enough
  <2>2. Len(pcm') = n + d /\ n + d <= f - 1 + b
    BY <1>1, <1>3, <2>1
  <2> QED
    BY <1>1, <1>4, <2>1, <2>2 DEF PcmBound
<1>6. CASE EncodeFails(v, size)
  <2>1. pcm' = a /\ failures' = F + 1
    BY <1>1, <1>3, <1>6 DEF EncodeFails
  <2>2. (F + 1) * e = b + e
    BY <1>1
  <2>3. n + d <= f - 1 + (b + e)
    BY <1>1, <1>2
  <2> QED
    BY <1>1, <1>3, <1>4, <2>1, <2>2, <2>3 DEF PcmBound
<1>7. CASE Encode(v, size)
  <2>1. pcm' = Shift(a) /\ failures' = F /\ Enough(a)
    BY <1>1, <1>3, <1>7, Zenon DEF Encode
  <2>2. Len(Shift(a)) = n + d - f
    <3>1. Len(Shift(a)) = Len(a) - FrameSize
      BY <2>1, CutInTwo
    <3> QED
      BY <1>1, <1>3, <3>1
  <2>3. n + d - f <= f - 1 + b /\ n + d - f <= 3 * f
    BY <1>1, <1>2, <1>4
  <2> QED
    BY <1>1, <2>1, <2>2, <2>3 DEF PcmBound
<1> QED
  BY <1>5, <1>6, <1>7

\* There is room for the next frame after few enough errors.
LEMMA RoomFromBound == TypeOK /\ PcmBound => RoomForNext
<1> SUFFICES ASSUME TypeOK, PcmBound PROVE RoomForNext
  OBVIOUS
<1>1. PICK n \in Nat, d \in Nat, f \in Nat, F \in Nat, b \in Nat :
        /\ n = Len(pcm) /\ d = decodedSize /\ f = FrameSize /\ F = failures /\ b = F * d
  <2>1. Len(pcm) \in Nat
    BY LenProperties DEF TypeOK
  <2>2. decodedSize \in Nat /\ FrameSize \in Nat
    BY AudioAssumption DEF TypeOK
  <2>3. failures \in Nat
    BY AudioAssumption DEF TypeOK
  <2>4. failures * decodedSize \in Nat
    BY <2>2, <2>3
  <2> QED
    BY <2>1, <2>2, <2>3, <2>4
<1>2. n <= f - 1 + b
  BY <1>1 DEF PcmBound
<1>3. (F + 1) * d = b + d
  BY <1>1
<1>4. b + d <= 2 * f + 1 => n + d <= 3 * f
  BY <1>2
<1> QED
  BY <1>1, <1>3, <1>4, Zenon DEF RoomForNext

-----------------------------------------------------------------------------
(***************************************************************************)
(* Packets.                                                                *)
(***************************************************************************)
OutPackets == [seq : 0 .. (SeqMod - 1), ts : 0 .. (TSMod - 1), transcoded : BOOLEAN]

\* The timestamps of two numbers in a row.
LEMMA NextTimestamp ==
  ASSUME NEW x \in 0 .. (SeqMod - 1), NEW y, y = (x + 1) % SeqMod, y # 0
  PROVE  (y * FrameSize) % TSMod = (((x * FrameSize) % TSMod) + FrameSize) % TSMod
<1>1. /\ SeqMod \in Nat \ {0} /\ TSMod \in Nat \ {0} /\ FrameSize \in Nat
      /\ x \in Nat /\ x + 1 \in Int
  BY AudioAssumption
<1>2. x + 1 # SeqMod
  <2>1. SUFFICES ASSUME x + 1 = SeqMod PROVE FALSE
    OBVIOUS
  <2>2. x + 1 = SeqMod * 1 + 0 /\ 0 \in 0 .. (SeqMod - 1)
    BY <1>1, <2>1
  <2>3. (x + 1) % SeqMod = 0
    BY <1>1, <2>2, ModUnique
  <2> QED
    BY <2>3
<1>3. y = x + 1
  <2>1. x + 1 \in 0 .. (SeqMod - 1)
    BY <1>1, <1>2
  <2> QED
    BY <1>1, <2>1, ModSmall
<1>4. PICK b \in Int : b = x * FrameSize
  BY <1>1
<1>5. (x + 1) * FrameSize = b + FrameSize
  BY <1>1, <1>4
<1>6. ((b % TSMod) + FrameSize) % TSMod = (b + FrameSize) % TSMod
  <2>1. PICK f \in Int, m \in Nat \ {0} : f = FrameSize /\ m = TSMod
    BY <1>1
  <2>2. ((b % m) + f) % m = (b + f) % m
    BY ModAdd
  <2> QED
    BY <2>1, <2>2, Zenon
<1> QED
  BY <1>3, <1>4, <1>5, <1>6

\* What a new packet adds.
LEMMA OneMore ==
  ASSUME NEW s \in Seq(OutPackets), NEW e \in OutPackets, NEW t, t = Append(s, e)
  PROVE  /\ t \in Seq(OutPackets) /\ Len(s) \in Nat /\ Len(t) = Len(s) + 1
         /\ DOMAIN s = 1 .. Len(s) /\ DOMAIN t = 1 .. (Len(s) + 1)
         /\ \A i \in 1 .. Len(s) : t[i] = s[i]
         /\ t[Len(s) + 1] = e
<1>1. t \in Seq(OutPackets) /\ Len(t) = Len(s) + 1
  BY AppendProperties
<1>2. /\ \A i \in 1 .. Len(s) : t[i] = s[i]
      /\ t[Len(s) + 1] = e
  BY AppendProperties
<1>3. Len(s) \in Nat /\ DOMAIN s = 1 .. Len(s) /\ DOMAIN t = 1 .. Len(t)
  BY <1>1, LenProperties
<1> QED
  BY <1>1, <1>2, <1>3

\* A packet that the encoder returned takes the next number.
LEMMA EmitStep ==
  ASSUME TypeOK, Numbers, Renumbered, Emit
  PROVE  /\ Numbers' /\ Renumbered'
         /\ out' \in Seq(OutPackets) /\ audioSeq' \in 0 .. (SeqMod - 1)
<1>1. PICK a, e : a = audioSeq /\ e = NumberOf(audioSeq)
  OBVIOUS
<1>2. out \in Seq(OutPackets) /\ a \in 0 .. (SeqMod - 1) /\ a \in Int
  BY <1>1 DEF TypeOK, OutPackets
<1>3. /\ SeqMod \in Nat \ {0} /\ TSMod \in Nat \ {0} /\ FrameSize \in Nat
      /\ a * FrameSize \in Int /\ a + 1 \in Int
  BY <1>2, AudioAssumption
<1>4. /\ e.seq = a /\ e.ts = (a * FrameSize) % TSMod /\ e.transcoded = TRUE
      /\ e \in OutPackets
  <2>1. (a * FrameSize) % TSMod \in 0 .. (TSMod - 1)
    BY <1>3, ModRange
  <2>2. PICK x \in 0 .. (TSMod - 1) : x = (a * FrameSize) % TSMod
    BY <2>1
  <2>3. e = [seq |-> a, ts |-> x, transcoded |-> TRUE]
    BY <1>1, <2>2 DEF NumberOf
  <2>4. e \in OutPackets
    BY <1>2, <2>3 DEF OutPackets
  <2> QED
    BY <2>2, <2>3, <2>4
<1>5. out' = Append(out, e) /\ audioSeq' = (a + 1) % SeqMod
  BY <1>1 DEF Emit
<1>6. PICK n \in Nat :
        /\ n = Len(out) /\ out' \in Seq(OutPackets) /\ Len(out') = n + 1
        /\ DOMAIN out = 1 .. n /\ DOMAIN out' = 1 .. (n + 1)
        /\ \A i \in 1 .. n : out'[i] = out[i]
        /\ out'[n + 1] = e
  BY <1>2, <1>4, <1>5, OneMore
<1>7. audioSeq' \in 0 .. (SeqMod - 1)
  BY <1>3, <1>5, ModRange
<1>8. Numbers'
  <2> SUFFICES ASSUME NEW j \in 1 .. (n + 1), out'[j].transcoded
               PROVE  /\ out'[j].ts = (out'[j].seq * FrameSize) % TSMod
                      /\ (\A i \in (j + 1) .. Len(out') : ~out'[i].transcoded) =>
                           audioSeq' = (out'[j].seq + 1) % SeqMod
    BY <1>6 DEF Numbers
  <2>1. CASE j = n + 1
    BY <1>4, <1>5, <1>6, <2>1
  <2>2. CASE j \in 1 .. n
    <3>1. out'[j] = out[j] /\ out[j].ts = (out[j].seq * FrameSize) % TSMod
      BY <1>6, <2>2 DEF Numbers
    <3>2. n + 1 \in (j + 1) .. Len(out') /\ out'[n + 1].transcoded
      BY <1>4, <1>6, <2>2
    <3> QED
      BY <3>1, <3>2
  <2> QED
    BY <2>1, <2>2
<1>9. Renumbered'
  <2> SUFFICES ASSUME NEW j \in 1 .. (n + 1), NEW k \in 1 .. (n + 1), NextTranscoded(j, k)'
               PROVE  /\ out'[k].seq = (out'[j].seq + 1) % SeqMod
                      /\ out'[k].seq # 0 => out'[k].ts = (out'[j].ts + FrameSize) % TSMod
    BY <1>6 DEF Renumbered
  <2>1. /\ j < k /\ out'[j].transcoded /\ out'[k].transcoded
        /\ \A i \in (j + 1) .. (k - 1) : ~out'[i].transcoded
    BY DEF NextTranscoded
  <2>2. j \in 1 .. n /\ out'[j] = out[j]
    BY <1>6, <2>1
  <2>3. CASE k \in 1 .. n
    <3>1. out'[k] = out[k] /\ \A i \in (j + 1) .. (k - 1) : out'[i] = out[i]
      BY <1>6, <2>2, <2>3
    <3>2. NextTranscoded(j, k)
      BY <2>1, <2>2, <3>1 DEF NextTranscoded
    <3> QED
      BY <1>6, <2>2, <2>3, <3>1, <3>2 DEF Renumbered
  <2>4. CASE k = n + 1
    <3>1. out'[k] = e
      BY <1>6, <2>4
    <3>2. \A i \in (j + 1) .. n : ~out[i].transcoded
      BY <1>6, <2>1, <2>2, <2>4
    <3>3. PICK x : x = out[j].seq
      OBVIOUS
    <3>4. out[j].ts = (x * FrameSize) % TSMod /\ a = (x + 1) % SeqMod
      BY <1>1, <1>6, <2>1, <2>2, <3>2, <3>3 DEF Numbers
    <3>5. x \in 0 .. (SeqMod - 1)
      <4>1. out[j] \in OutPackets
        BY <1>2, <1>6, <2>2, ElementOfSeq
      <4> QED
        BY <3>3, <4>1 DEF OutPackets
    <3>6. a # 0 =>
            (a * FrameSize) % TSMod = (((x * FrameSize) % TSMod) + FrameSize) % TSMod
      BY <3>4, <3>5, NextTimestamp
    <3> QED
      BY <1>4, <2>2, <3>1, <3>3, <3>4, <3>6
  <2> QED
    BY <2>3, <2>4
<1> QED
  BY <1>6, <1>7, <1>8, <1>9

\* A packet that passes as it is leaves the numbering alone.
LEMMA ForwardStep ==
  ASSUME TypeOK, Numbers, Renumbered, Forward
  PROVE  Numbers' /\ Renumbered' /\ out' \in Seq(OutPackets)
<1>1. PICK e : e = [seq |-> packets % SeqMod, ts |-> (packets * decodedSize) % TSMod,
                    transcoded |-> FALSE]
  OBVIOUS
<1>2. out \in Seq(OutPackets) /\ packets \in Nat
  BY AudioAssumption DEF TypeOK, OutPackets
<1>3. SeqMod \in Nat \ {0} /\ TSMod \in Nat \ {0} /\ decodedSize \in Nat
  BY AudioAssumption DEF TypeOK
<1>4. e \in OutPackets /\ e.transcoded = FALSE
  <2>1. PICK x \in Int, y \in Int : x = packets /\ y = packets * decodedSize
    BY <1>2, <1>3
  <2>2. x % SeqMod \in 0 .. (SeqMod - 1) /\ y % TSMod \in 0 .. (TSMod - 1)
    BY <1>3, ModRange
  <2>3. PICK u \in 0 .. (SeqMod - 1), w \in 0 .. (TSMod - 1) :
          e = [seq |-> u, ts |-> w, transcoded |-> FALSE]
    BY <1>1, <2>1, <2>2
  <2> QED
    BY <2>3 DEF OutPackets
<1>5. out' = Append(out, e) /\ audioSeq' = audioSeq
  BY <1>1, Zenon DEF Forward
<1>6. PICK n \in Nat :
        /\ n = Len(out) /\ out' \in Seq(OutPackets) /\ Len(out') = n + 1
        /\ DOMAIN out = 1 .. n /\ DOMAIN out' = 1 .. (n + 1)
        /\ \A i \in 1 .. n : out'[i] = out[i]
        /\ out'[n + 1] = e
  BY <1>2, <1>4, <1>5, OneMore
<1>7. ~out'[n + 1].transcoded
  BY <1>4, <1>6
<1>8. Numbers'
  <2> SUFFICES ASSUME NEW j \in 1 .. (n + 1), out'[j].transcoded
               PROVE  /\ out'[j].ts = (out'[j].seq * FrameSize) % TSMod
                      /\ (\A i \in (j + 1) .. Len(out') : ~out'[i].transcoded) =>
                           audioSeq' = (out'[j].seq + 1) % SeqMod
    BY <1>6 DEF Numbers
  <2>1. j \in 1 .. n
    BY <1>7
  <2>2. out'[j] = out[j] /\ out[j].ts = (out[j].seq * FrameSize) % TSMod
    BY <1>6, <2>1 DEF Numbers
  <2>3. (\A i \in (j + 1) .. Len(out') : ~out'[i].transcoded) =>
          \A i \in (j + 1) .. n : ~out[i].transcoded
    BY <1>6, <2>1
  <2>4. (\A i \in (j + 1) .. n : ~out[i].transcoded) =>
          audioSeq = (out[j].seq + 1) % SeqMod
    BY <1>6, <2>1, <2>2 DEF Numbers
  <2> QED
    BY <1>5, <2>2, <2>3, <2>4
<1>9. Renumbered'
  <2> SUFFICES ASSUME NEW j \in 1 .. (n + 1), NEW k \in 1 .. (n + 1), NextTranscoded(j, k)'
               PROVE  /\ out'[k].seq = (out'[j].seq + 1) % SeqMod
                      /\ out'[k].seq # 0 => out'[k].ts = (out'[j].ts + FrameSize) % TSMod
    BY <1>6 DEF Renumbered
  <2>1. /\ j < k /\ out'[j].transcoded /\ out'[k].transcoded
        /\ \A i \in (j + 1) .. (k - 1) : ~out'[i].transcoded
    BY DEF NextTranscoded
  <2>2. k # n + 1 /\ j # n + 1
    BY <1>7, <2>1
  <2>3. j \in 1 .. n /\ k \in 1 .. n
    BY <2>2
  <2>4. /\ out'[j] = out[j] /\ out'[k] = out[k]
        /\ \A i \in (j + 1) .. (k - 1) : out'[i] = out[i]
    BY <1>6, <2>3
  <2>5. NextTranscoded(j, k)
    BY <2>1, <2>4 DEF NextTranscoded
  <2> QED
    BY <1>6, <2>3, <2>4, <2>5 DEF Renumbered
<1> QED
  BY <1>6, <1>8, <1>9

-----------------------------------------------------------------------------
LEMMA InitIInv == Init => IInv
<1> SUFFICES ASSUME Init PROVE IInv
  OBVIOUS
<1> USE AudioAssumption
<1>1. <<>> \in Seq(Int) /\ Len(<<>>) = 0 /\ <<>> \in Seq(OutPackets) /\ <<>> \o <<>> = <<>>
  BY EmptySeq, ConcatEmptySeq
<1>2. DOMAIN out = {}
  BY DEF Init
<1>3. TypeOK
  BY <1>1 DEF Init, TypeOK, OutPackets
<1>4. PcmBound
  <2>1. 0 * decodedSize = 0 /\ FrameSize \in Nat \ {0}
    BY DEF Init
  <2> QED
    BY <1>1, <2>1 DEF Init, PcmBound
<1>5. SamplesInOrder
  BY <1>1 DEF Init, SamplesInOrder
<1>6. Numbers /\ Renumbered
  BY <1>2, Zenon DEF Numbers, Renumbered
<1> QED
  BY <1>3, <1>4, <1>5, <1>6 DEF IInv

\* Every packet preserves the invariant.
LEMMA StepIInv == IInv /\ [Next]_vars => IInv'
<1> SUFFICES ASSUME IInv, [Next]_vars PROVE IInv'
  OBVIOUS
<1>1. TypeOK /\ PcmBound /\ SamplesInOrder /\ Numbers /\ Renumbered
  BY DEF IInv
<1>2. /\ UNCHANGED <<audioSeq, out>> =>
           /\ Numbers' /\ Renumbered'
           /\ out' \in Seq(OutPackets) /\ audioSeq' \in 0 .. (SeqMod - 1)
      /\ UNCHANGED <<pcm, heard, encoded, failures, decodedSize>> =>
           /\ SamplesInOrder' /\ PcmBound' /\ Len(pcm') <= 3 * FrameSize
           /\ pcm' \in Seq(Int) /\ heard' \in Seq(Int) /\ encoded' \in Seq(Int)
  <2>1. ASSUME UNCHANGED <<audioSeq, out>>
        PROVE  /\ Numbers' /\ Renumbered'
               /\ out' \in Seq(OutPackets) /\ audioSeq' \in 0 .. (SeqMod - 1)
    <3>1. out' = out /\ audioSeq' = audioSeq
      BY <2>1
    <3>2. Numbers'
      BY <1>1, <3>1, Zenon DEF Numbers
    <3>3. Renumbered'
      BY <1>1, <3>1, Zenon DEF Renumbered, NextTranscoded
    <3>4. out \in Seq(OutPackets) /\ audioSeq \in 0 .. (SeqMod - 1)
      BY <1>1, Zenon DEF TypeOK, OutPackets
    <3> QED
      BY <3>1, <3>2, <3>3, <3>4, Zenon
  <2>2. ASSUME UNCHANGED <<pcm, heard, encoded, failures, decodedSize>>
        PROVE  /\ SamplesInOrder' /\ PcmBound' /\ Len(pcm') <= 3 * FrameSize
               /\ pcm' \in Seq(Int) /\ heard' \in Seq(Int) /\ encoded' \in Seq(Int)
    <3>1. /\ pcm' = pcm /\ heard' = heard /\ encoded' = encoded /\ failures' = failures
          /\ decodedSize' = decodedSize
      BY <2>2
    <3>2. SamplesInOrder' /\ PcmBound'
      BY <1>1, <3>1, Zenon DEF SamplesInOrder, PcmBound
    <3>3. /\ Len(pcm) <= 3 * FrameSize
          /\ pcm \in Seq(Int) /\ heard \in Seq(Int) /\ encoded \in Seq(Int)
      BY <1>1, Zenon DEF TypeOK
    <3> QED
      BY <3>1, <3>2, <3>3, Zenon
  <2> QED
    BY <2>1, <2>2
<1>3. ASSUME Packet, failures' \in {failures, failures + 1}
      PROVE  /\ transcoding' \in BOOLEAN /\ decodedSize' \in DecodedSizes /\ gain' \in Gains
             /\ packets' \in 0 .. MaxPackets /\ failures' \in 0 .. packets'
             /\ UNCHANGED decodedSize
  <2>1. /\ packets \in 0 .. MaxPackets /\ packets < MaxPackets /\ packets' = packets + 1
        /\ failures \in 0 .. packets /\ MaxPackets \in Nat
    BY <1>1, <1>3, AudioAssumption DEF Packet, TypeOK
  <2>2. packets' \in 0 .. MaxPackets /\ failures' \in 0 .. packets'
    BY <1>3, <2>1
  <2> QED
    BY <1>1, <1>3, <2>2, Zenon DEF Packet, TypeOK
<1>4. CASE Forward
  <2>1. UNCHANGED <<pcm, heard, encoded, failures, audioSeq>> /\ Packet
    BY <1>4 DEF Forward
  <2>2. Numbers' /\ Renumbered' /\ out' \in Seq(OutPackets)
    BY <1>1, <1>4, ForwardStep
  <2>3. audioSeq' \in 0 .. (SeqMod - 1)
    BY <1>1, <2>1 DEF TypeOK
  <2> QED
    BY <1>2, <1>3, <2>1, <2>2, <2>3, Zenon DEF IInv, TypeOK, OutPackets
<1>5. CASE DecodeFails \/ Overflow
  <2>1. UNCHANGED <<pcm, heard, encoded, failures, audioSeq, out>> /\ Packet
    BY <1>5 DEF DecodeFails, Overflow, Refused
  <2> QED
    BY <1>2, <1>3, <2>1, Zenon DEF IInv, TypeOK, OutPackets
<1>6. ASSUME NEW v \in Levels, NEW size \in Sizes, WriteAudioPacket(v, size) PROVE IInv'
  <2>1. Packet /\ (Accumulate(v, size) \/ EncodeFails(v, size) \/ Encode(v, size))
    BY <1>6 DEF WriteAudioPacket
  <2>2. failures' \in {failures, failures + 1}
    BY <2>1 DEF Accumulate, EncodeFails, Encode
  <2>3. SamplesInOrder' /\ pcm' \in Seq(Int) /\ heard' \in Seq(Int) /\ encoded' \in Seq(Int)
    BY <1>1, <2>1, SamplesStep
  <2>4. PcmBound' /\ Len(pcm') <= 3 * FrameSize
    BY <1>1, <1>3, <2>1, <2>2, PcmStep
  <2>5. Emit \/ UNCHANGED <<audioSeq, out>>
    BY <1>6 DEF WriteAudioPacket, Accumulate, EncodeFails, Hold
  <2>6. /\ Numbers' /\ Renumbered'
        /\ out' \in Seq(OutPackets) /\ audioSeq' \in 0 .. (SeqMod - 1)
    BY <1>1, <1>2, <2>5, EmitStep
  <2> QED
    BY <1>3, <2>1, <2>2, <2>3, <2>4, <2>6, Zenon DEF IInv, TypeOK, OutPackets
<1>7. CASE UNCHANGED vars
  <2>1. TypeOK'
    BY <1>1, <1>7 DEF vars, TypeOK
  <2> QED
    BY <1>2, <1>7, <2>1 DEF IInv, vars
<1> QED
  BY <1>4, <1>5, <1>6, <1>7 DEF Next

LEMMA SpecIInv == Spec => []IInv
  BY InitIInv, StepIInv, PTL DEF Spec

\* What waits fits in pcmRing, and the counters and the packets that are written
\* stay within their widths (audio_transcoder.go 473-517, rtsp_server.go 533-538).
THEOREM AudioTypeOK == Spec => []TypeOK
  BY SpecIInv, PTL DEF IInv

\* The encoder is given every sample that was not refused, once and in order,
\* however decoder and encoder fail (audio_transcoder.go 477-517).
THEOREM AudioSamplesInOrder == Spec => []SamplesInOrder
  BY SpecIInv, PTL DEF IInv

\* For every frame size, the number of encoder errors after which pcmRing still has
\* room for a frame (audio_transcoder.go 473-475).
THEOREM AudioRoomForNext == Spec => []RoomForNext
<1>1. IInv => RoomForNext
  BY RoomFromBound DEF IInv
<1> QED
  BY <1>1, SpecIInv, PTL

\* Transcoded packets are numbered without gaps and stamped a frame apart, up to
\* where the counter wraps (rtsp_server.go 530-538).
THEOREM AudioRenumbered == Spec => []Renumbered
  BY SpecIInv, PTL DEF IInv

=============================================================================
