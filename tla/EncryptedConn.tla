---------------------------- MODULE EncryptedConn ----------------------------
(***************************************************************************)
(* One end of an encrypted HAP connection (internal/hap/encrypted_conn.go):*)
(* what is written is cut into frames, each sealed under the key and the   *)
(* counter of its direction; a frame opens under the same two only.  Write *)
(* holds wmu and has one caller at a time, so it is one step.              *)
(***************************************************************************)
EXTENDS Integers, SequencesExt

CONSTANT MaxFrame            \* packetSizeMax: 1024 in the code

ASSUME EncryptedConnAssumption == MaxFrame \in Nat \ {0}

NewEncryptedConn(readKey, writeKey) ==
  [readKey |-> readKey, writeKey |-> writeKey,
   encryptCnt |-> 0, decryptCnt |-> 0, readBuf |-> <<>>]

\* The frames that b becomes, and the connection after Write.
Seal(c, b) ==
  [k \in 1 .. (Len(b) + MaxFrame - 1) \div MaxFrame |->
     [key |-> c.writeKey, nonce |-> c.encryptCnt + k - 1,
      data |-> SubSeq(b, (k - 1) * MaxFrame + 1, Min({k * MaxFrame, Len(b)}))]]

Wrote(c, b) == [c EXCEPT !.encryptCnt = @ + Len(Seal(c, b))]

Opens(c, frame) == frame.key = c.readKey /\ frame.nonce = c.decryptCnt

\* Read into a buffer of n bytes: what a frame has left over is returned first.
\* What Read takes, before it copies min(n, Len) bytes of it:
Readable(c, frames) == IF c.readBuf # <<>> THEN c.readBuf ELSE Head(frames).data

\* The connection after Read.  A mutated form forgets the rest of a frame.
ReadOnceForgets(c, frames, n) ==
  [c EXCEPT !.decryptCnt = IF c.readBuf # <<>> THEN @ ELSE @ + 1, !.readBuf = <<>>]

ReadOnce(c, frames, n) ==
  [c EXCEPT !.decryptCnt = IF c.readBuf # <<>> THEN @ ELSE @ + 1,
            !.readBuf = SubSeq(Readable(c, frames), n + 1, Len(Readable(c, frames)))]

=============================================================================
