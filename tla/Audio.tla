-------------------------------- MODULE Audio --------------------------------
(***************************************************************************)
(* The audio track: what readAudioLoop hands to WriteAudioPacket           *)
(* (rtsp_server.go), the PCM accumulator of the transcoder                 *)
(* (audio_transcoder.go) and the renumbering of what comes out.            *)
(*                                                                         *)
(* An AAC-ELD frame decodes to fewer samples than an AAC-LC frame takes,   *)
(* so samples wait in pcmRing; the first pcmLen of it are the sequence     *)
(* pcm.  Nothing of the track is reset when a new camera session begins.   *)
(* The codecs (FDK-AAC, external) decode, fail or return no samples, and   *)
(* encode, fail, or take a frame and return nothing yet.                   *)
(*                                                                         *)
(* A sample is its value, in PCMMod steps around 0; int16, int32, uint16   *)
(* and uint32 arithmetic is modulo PCMMod, ProductMod, SeqMod and TSMod.   *)
(* Stop, which closes the transcoder, is an action of SrtpProxy.           *)
(***************************************************************************)
EXTENDS Integers, Sequences

CONSTANTS
  FrameSize,                 \* encFrameSize: 1024 samples
  DecodedSizes,              \* samples in a frame of the camera: 480 or 512
  Levels,                    \* sample values the camera sends
  Gains,                     \* values of audio.gain in the configuration
  PCMMod, ProductMod,        \* 2^16 and 2^32
  SeqMod, TSMod,             \* 2^16 and 2^32
  MaxPackets                 \* bound

\* The configuration does not bound the gain; beyond ProductMod \div PCMMod the
\* product of amplify would wrap.
ASSUME AudioAssumption ==
  /\ FrameSize \in Nat \ {0}
  /\ DecodedSizes \subseteq 1 .. FrameSize
  /\ PCMMod \in Nat /\ PCMMod % 2 = 0 /\ ProductMod \in Nat /\ ProductMod % 2 = 0
  /\ Levels \subseteq (0 - PCMMod \div 2) .. (PCMMod \div 2 - 1)
  /\ Gains \subseteq Int
  /\ \A g \in Gains, v \in Levels :
       v * g \in (0 - ProductMod \div 2) .. (ProductMod \div 2 - 1)
  /\ SeqMod \in Nat \ {0} /\ TSMod \in Nat \ {0}
  /\ MaxPackets \in Nat

VARIABLES
  transcoding,               \* is there a transcoder (not for Opus)?
  decodedSize, gain,         \* of the camera and the configuration
  pcm,                       \* the samples that wait for the encoder
  audioSeq,
  packets,                   \* packets handed over so far
  heard,                     \* the samples decoded and not refused, as they should sound
  encoded,                   \* the samples that the encoder has taken
  failures,                  \* of the encoder
  out                        \* the packets written by the server

vars == <<transcoding, decodedSize, gain, pcm, audioSeq, packets, heard, encoded, failures, out>>

Init ==
  /\ transcoding \in BOOLEAN
  /\ decodedSize \in DecodedSizes /\ gain \in Gains
  /\ pcm = <<>> /\ audioSeq = 0
  /\ packets = 0 /\ heard = <<>> /\ encoded = <<>> /\ failures = 0 /\ out = <<>>

-----------------------------------------------------------------------------
Wrap(n, mod) == ((n + mod \div 2) % mod) - mod \div 2

Clamp(n) ==
  CASE n > PCMMod \div 2 - 1 -> PCMMod \div 2 - 1
    [] n < 0 - PCMMod \div 2 -> 0 - PCMMod \div 2
    [] OTHER -> n

\* The product is an int32; what is stored is an int16 again.
Amplify(v) == IF gain = 0 THEN v ELSE Clamp(Wrap(v * gain, ProductMod))

\* What the encoder is given, and what stays for the next call.  A mutated form
\* that throws the rest away.
ShiftAll(s) == <<>>

Shift(s) == SubSeq(s, FrameSize + 1, Len(s))

\* The room for another frame: pcmRing holds three encoder frames.
Fits(size) == Len(pcm) + size <= 3 * FrameSize

\* Are there samples for an encoder frame?  A mutated form that is off by one.
EnoughLate(s) == Len(s) > FrameSize

Enough(s) == Len(s) >= FrameSize

-----------------------------------------------------------------------------
(***************************************************************************)
(* transcodeFrame, for a frame whose samples all have value v.  The size   *)
(* is what the decoder returns: that of the camera's frames, or 0.         *)
(***************************************************************************)
Sizes == {0, decodedSize}

Appended(v, size) == pcm \o [k \in 1 .. size |-> Amplify(v)]

\* Refused: the frame does not decode, or does not fit.
Refused == UNCHANGED <<pcm, heard, encoded, failures, audioSeq, out>>

Hear(v, size) ==
  heard' = heard \o [k \in 1 .. size |-> IF gain = 0 THEN v ELSE Clamp(v * gain)]

Accumulate(v, size) ==
  /\ Fits(size) /\ Hear(v, size)
  /\ ~Enough(Appended(v, size))
  /\ pcm' = Appended(v, size)
  /\ UNCHANGED <<encoded, failures, audioSeq, out>>

\* An error of the encoder leaves the samples where they are.
EncodeFails(v, size) ==
  /\ Fits(size) /\ Hear(v, size)
  /\ Enough(Appended(v, size))
  /\ pcm' = Appended(v, size)
  /\ failures' = failures + 1
  /\ UNCHANGED <<encoded, audioSeq, out>>

Encode(v, size) ==
  /\ Fits(size) /\ Hear(v, size)
  /\ Enough(Appended(v, size))
  /\ encoded' = encoded \o SubSeq(Appended(v, size), 1, FrameSize)
  /\ pcm' = Shift(Appended(v, size))
  /\ UNCHANGED failures

\* The sequence number and the timestamp both come from the 16-bit counter.
NumberOf(n) == [seq |-> n, ts |-> (n * FrameSize) % TSMod, transcoded |-> TRUE]

\* The encoder returned a frame, which is written, or nothing yet.  A mutated form
\* that counts before it looks.
Emit ==
  /\ out' = Append(out, NumberOf(audioSeq))
  /\ audioSeq' = (audioSeq + 1) % SeqMod

HoldCounts == audioSeq' = (audioSeq + 1) % SeqMod /\ UNCHANGED out

Hold == UNCHANGED <<audioSeq, out>>

-----------------------------------------------------------------------------
Packet ==
  /\ packets < MaxPackets
  /\ packets' = packets + 1
  /\ UNCHANGED <<transcoding, decodedSize, gain>>

\* Without a transcoder, or without a frame after the AU header, the packet is
\* written as the camera numbered it.
Forward ==
  /\ Packet
  /\ out' = Append(out, [seq |-> packets % SeqMod, ts |-> (packets * decodedSize) % TSMod,
                         transcoded |-> FALSE])
  /\ UNCHANGED <<pcm, heard, encoded, failures, audioSeq>>

DecodeFails ==
  /\ Packet /\ transcoding
  /\ Refused

Overflow ==
  /\ Packet /\ transcoding /\ ~Fits(decodedSize)
  /\ Refused

WriteAudioPacket(v, size) ==
  /\ Packet /\ transcoding
  /\ \/ Accumulate(v, size)
     \/ EncodeFails(v, size)
     \/ Encode(v, size) /\ (Emit \/ Hold)

Next ==
  \/ Forward \/ DecodeFails \/ Overflow
  \/ \E v \in Levels, size \in Sizes : WriteAudioPacket(v, size)

Spec == Init /\ [][Next]_vars

-----------------------------------------------------------------------------
TypeOK ==
  /\ transcoding \in BOOLEAN /\ decodedSize \in DecodedSizes /\ gain \in Gains
  /\ pcm \in Seq(Int) /\ Len(pcm) <= 3 * FrameSize
  /\ audioSeq \in 0 .. (SeqMod - 1)
  /\ packets \in 0 .. MaxPackets /\ failures \in 0 .. packets
  /\ heard \in Seq(Int) /\ encoded \in Seq(Int)
  /\ out \in Seq([seq : 0 .. (SeqMod - 1), ts : 0 .. (TSMod - 1), transcoded : BOOLEAN])

\* The encoder is given every sample that was decoded and not refused, once, in
\* order, amplified and saturated: nothing is lost between two packets, after an
\* error of the encoder or while it returns nothing (audio_transcoder.go 477-517).
SamplesInOrder == encoded \o pcm = heard

\* A few errors of the encoder cost no audio: there is room for the next frame.
\* The bound matters, because a ring that is full is never emptied: the check of
\* its size comes before the encoder is called (audio_transcoder.go 473-475).
RoomForNext ==
  (failures + 1) * decodedSize <= 2 * FrameSize + 1 => Len(pcm) + decodedSize <= 3 * FrameSize

\* Transcoded packets are numbered without gaps, and each is FrameSize samples
\* later than the one before; of the timestamp at which the counter starts over this
\* says nothing (rtsp_server.go 530-538).
NextTranscoded(j, k) ==
  /\ j < k /\ out[j].transcoded /\ out[k].transcoded
  /\ \A i \in (j + 1) .. (k - 1) : ~out[i].transcoded
Renumbered ==
  \A j, k \in DOMAIN out : NextTranscoded(j, k) =>
    /\ out[k].seq = (out[j].seq + 1) % SeqMod
    /\ out[k].seq # 0 => out[k].ts = (out[j].ts + FrameSize) % TSMod

\* "Use a simple counter so timestamps are perfectly monotonic" (rtsp_server.go
\* 537): a transcoded packet is FrameSize samples later than the one before, in the
\* 32-bit arithmetic of RTP.  The simple counter is the 16-bit sequence number, so
\* the code does not do that.
PerfectlyMonotonic ==
  \A j, k \in DOMAIN out : NextTranscoded(j, k) =>
    out[k].ts = (out[j].ts + FrameSize) % TSMod

=============================================================================
