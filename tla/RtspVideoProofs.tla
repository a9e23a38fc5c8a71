--------------------------- MODULE RtspVideoProofs ---------------------------
(***************************************************************************)
(* For any number of clients, camera sessions and frames, and whatever the *)
(* widths of the counters: one gapless numbering, a closed idrReady means  *)
(* a cached IDR, and the cache never outlives its camera session.  A new   *)
(* session goes on in time after everything written before it.             *)
(***************************************************************************)
EXTENDS RtspVideo, SequenceTheorems, TLAPS

\* videoSeq is the number after that of the last packet written.
NextSeq == out # <<>> => videoSeq = (out[Len(out)].seq + 1) % SeqMod

\* What is handed over belongs to the current camera session, and nothing is handed
\* over while a reset is between its halves.
TodoIsFresh ==
  /\ \A k \in DOMAIN todo : todo[k].session = session
  /\ resetting => todo = <<>>

\* There is one channel per camera session.
OneChannel == idrReady = session /\ ready \subseteq 0 .. session

IInv ==
  /\ TypeOK /\ NextSeq /\ SeqContiguous
  /\ TodoIsFresh /\ CacheIsFresh /\ OneChannel /\ ReadyMeansCached

-----------------------------------------------------------------------------
(***************************************************************************)
(* Arithmetic of the counters.                                             *)
(***************************************************************************)

LEMMA ModRange ==
  ASSUME NEW a \in Int, NEW n \in Nat \ {0}
  PROVE  a = n * (a \div n) + (a % n) /\ a \div n \in Int /\ a % n \in 0 .. (n - 1)
  OBVIOUS

\* The remainder is unique.
LEMMA ModUnique ==
  ASSUME NEW n \in Nat \ {0}, NEW q \in Int, NEW r \in 0 .. (n - 1), NEW a, a = n * q + r
  PROVE  a % n = r
<1>1. a \in Int
  <2>1. n * q \in Int
    OBVIOUS
  <2> QED
    BY <2>1
<1>2. PICK p \in Int, s \in 0 .. (n - 1) : s = a % n /\ a = n * p + s
  BY <1>1, ModRange
<1>3. n * (q - p) = s - r
  <2>1. n * (q - p) = n * q - n * p
    OBVIOUS
  <2>2. n * q \in Int /\ n * p \in Int
    OBVIOUS
  <2> QED
    BY <1>2, <2>1, <2>2
<1>4. q - p = 0
  <2>1. CASE q - p >= 1
    <3>1. n * (q - p) >= n * 1
      BY <2>1
    <3> QED
      BY <1>3, <3>1
  <2>2. CASE q - p <= -1
    <3>1. n * (q - p) <= n * (-1)
      BY <2>2
    <3> QED
      BY <1>3, <3>1
  <2> QED
    BY <2>1, <2>2
<1>5. s = r
  BY <1>3, <1>4
<1> QED
  BY <1>2, <1>5

LEMMA ModSmall ==
  ASSUME NEW n \in Nat \ {0}, NEW a \in 0 .. (n - 1)
  PROVE  a % n = a
  OBVIOUS

\* A counter that wraps at every step, and one that wraps at the end.
LEMMA ModAdd ==
  ASSUME NEW a \in Int, NEW b \in Int, NEW n \in Nat \ {0}
  PROVE  ((a % n) + b) % n = (a + b) % n
<1>1. PICK p \in Int, s \in 0 .. (n - 1) : s = a % n /\ a = n * p + s
  BY ModRange
<1>2. PICK q \in Int, r \in 0 .. (n - 1) : r = (s + b) % n /\ s + b = n * q + r
  <2>1. s + b \in Int
    OBVIOUS
  <2> QED
    BY <2>1, ModRange
<1>3. a + b = n * (p + q) + r
  <2>1. PICK x \in Int, y \in Int : x = n * p /\ y = n * q
    OBVIOUS
  <2>2. n * (p + q) = x + y
    BY <2>1
  <2>3. a = x + s /\ s + b = y + r
    BY <1>1, <1>2, <2>1
  <2>4. a + b = (x + y) + r
    BY <2>3
  <2> QED
    BY <2>2, <2>4
<1>4. p + q \in Int
  OBVIOUS
<1>5. (a + b) % n = r
  BY <1>3, <1>4, ModUnique
<1> QED
  BY <1>1, <1>2, <1>5

-----------------------------------------------------------------------------
(***************************************************************************)
(* Each operation.                                                         *)
(***************************************************************************)

\* What the proxy hands over next.
LEMMA NewFrame ==
  ASSUME TypeOK, NEW kind \in {"idr", "p"}, NextFrame(kind)
  PROVE  /\ todo' \in Seq(Packets) /\ frames' \in 0 .. MaxFrames
         /\ route' \in {"write", "cacheOnly"}
         /\ cameraTS' \in 0 .. (TSMod - 1)
         /\ \A k \in DOMAIN todo' : todo'[k].session = session
<1>0. frames + 1 \in Nat /\ session \in Nat
  <2>1. frames \in 0 .. MaxFrames /\ session \in 0 .. MaxSessions
    BY DEF TypeOK
  <2> QED
    BY <2>1, RtspVideoAssumption
<1>1. ASSUME NEW x \in {"STAP-A", "IDR start", "FU-A start", "FU-A"}, NEW m \in BOOLEAN
      PROVE  VideoPacket(x, m) \in Packets /\ VideoPacket(x, m).session = session
  BY <1>0 DEF VideoPacket, Packets
<1>2. PICK a, b, c, d :
        /\ a = STAPA /\ b = IDRStart /\ c = LastFragment /\ d = VideoPacket("FU-A start", FALSE)
  OBVIOUS
<1>3. todo' \in {<<a, b, c>>, <<d, c>>, <<b, c>>, <<a>>, <<a, b>>, <<a, c>>}
  BY <1>2, Zenon DEF NextFrame, Frame
<1>4. /\ a \in Packets /\ b \in Packets /\ c \in Packets /\ d \in Packets
      /\ a.session = session /\ b.session = session /\ c.session = session /\ d.session = session
  BY <1>1, <1>2 DEF STAPA, IDRStart, LastFragment
<1>5. todo' \in Seq(Packets) /\ \A k \in DOMAIN todo' : todo'[k].session = session
  <2>1. CASE todo' = <<a, b, c>>
    BY <1>4, <2>1
  <2>2. CASE todo' = <<d, c>>
    BY <1>4, <2>2
  <2>3. CASE todo' = <<b, c>>
    BY <1>4, <2>3
  <2>4. CASE todo' = <<a>>
    BY <1>4, <2>4
  <2>5. CASE todo' = <<a, b>>
    BY <1>4, <2>5
  <2>6. CASE todo' = <<a, c>>
    BY <1>4, <2>6
  <2> QED
    BY <1>3, <2>1, <2>2, <2>3, <2>4, <2>5, <2>6
<1>6. frames' \in 0 .. MaxFrames /\ route' \in {"write", "cacheOnly"}
  BY RtspVideoAssumption DEF NextFrame, TypeOK
<1>7. cameraTS' \in 0 .. (TSMod - 1)
  <2>1. cameraTS' = (cameraTS + FrameTicks) % TSMod \/ cameraTS' \in CameraTS
    BY DEF NextFrame
  <2>2. cameraTS + FrameTicks \in Int
    BY RtspVideoAssumption DEF TypeOK
  <2> QED
    BY <2>1, <2>2, ModRange, RtspVideoAssumption
<1> QED
  BY <1>5, <1>6, <1>7

\* The first packet taken off what is to be handed over.
LEMMA TakePacket ==
  ASSUME TypeOK, TodoIsFresh, todo # <<>>
  PROVE  /\ Head(todo) \in Packets /\ Head(todo).session = session
         /\ Tail(todo) \in Seq(Packets) /\ ~resetting
         /\ \A k \in DOMAIN Tail(todo) : Tail(todo)[k].session = session
<1>1. /\ todo \in Seq(Packets) /\ Tail(todo) \in Seq(Packets) /\ Len(Tail(todo)) = Len(todo) - 1
      /\ Head(todo) \in Packets
      /\ \A i \in 1 .. Len(Tail(todo)) : Tail(todo)[i] = todo[i + 1]
  BY HeadTailProperties DEF TypeOK
<1>2. /\ Len(todo) \in Nat \ {0} /\ DOMAIN todo = 1 .. Len(todo)
      /\ DOMAIN Tail(todo) = 1 .. Len(Tail(todo)) /\ Head(todo) = todo[1]
  BY <1>1, EmptySeq, LenProperties
<1>3. Head(todo).session = session
  BY <1>2 DEF TodoIsFresh
<1>4. ASSUME NEW k \in DOMAIN Tail(todo) PROVE Tail(todo)[k].session = session
  <2>1. k + 1 \in DOMAIN todo /\ Tail(todo)[k] = todo[k + 1]
    BY <1>1, <1>2
  <2> QED
    BY <2>1 DEF TodoIsFresh
<1> QED
  BY <1>1, <1>3, <1>4 DEF TodoIsFresh

\* The cache after a packet of the current session.
LEMMA CachedPacket ==
  ASSUME TypeOK, CacheIsFresh, OneChannel, ReadyMeansCached,
         NEW p \in Packets, p.session = session, cacheIDRPacket(p), UNCHANGED <<session, idrReady>>
  PROVE  /\ idrPending' \in Seq(Packets) /\ idrCache' \in Seq(Packets)
         /\ collectingIDR' \in BOOLEAN /\ ready' \subseteq 0 .. session
         /\ CacheIsFresh' /\ OneChannel' /\ ReadyMeansCached'
<1>1. idrPending \in Seq(Packets) /\ idrCache \in Seq(Packets) /\ collectingIDR \in BOOLEAN
  BY DEF TypeOK
<1>2. PICK q : q = Append(idrPending, p)
  OBVIOUS
<1>3. q \in Seq(Packets) /\ q # <<>> /\ \A k \in DOMAIN q : q[k].session = session
  <2>1. /\ q \in Seq(Packets) /\ q # <<>> /\ Len(q) = Len(idrPending) + 1
        /\ \A i \in 1 .. Len(idrPending) : q[i] = idrPending[i]
        /\ q[Len(idrPending) + 1] = p
    BY <1>1, <1>2, AppendProperties
  <2>2. /\ Len(idrPending) \in Nat /\ DOMAIN idrPending = 1 .. Len(idrPending)
        /\ DOMAIN q = 1 .. (Len(idrPending) + 1)
    BY <1>1, <2>1, LenProperties
  <2> QED
    BY <2>1, <2>2 DEF CacheIsFresh
<1>4. /\ <<p>> \in Seq(Packets) /\ \A k \in DOMAIN <<p>> : <<p>>[k].session = session
      /\ <<>> \in Seq(Packets) /\ \A k \in DOMAIN <<>> : <<>>[k].session = session
  OBVIOUS
<1>5. \/ /\ idrPending' \in {<<p>>, q, idrPending} /\ collectingIDR' \in BOOLEAN
         /\ UNCHANGED <<idrCache, ready>>
      \/ /\ idrCache' = q /\ idrPending' = <<>> /\ collectingIDR' = FALSE
         /\ ready' = ready \cup {idrReady}
  BY <1>1, <1>2, Zenon DEF cacheIDRPacket
<1>6. idrReady \in 0 .. session
  BY DEF OneChannel, TypeOK
<1>7. CASE idrPending' \in {<<p>>, q, idrPending} /\ collectingIDR' \in BOOLEAN /\ UNCHANGED <<idrCache, ready>>
  <2>1. idrPending' \in Seq(Packets) /\ \A k \in DOMAIN idrPending' : idrPending'[k].session = session
    BY <1>1, <1>3, <1>4, <1>7, Zenon DEF CacheIsFresh
  <2> QED
    BY <1>1, <1>7, <2>1 DEF CacheIsFresh, OneChannel, ReadyMeansCached
<1>8. CASE /\ idrCache' = q /\ idrPending' = <<>> /\ collectingIDR' = FALSE
           /\ ready' = ready \cup {idrReady}
  BY <1>3, <1>4, <1>6, <1>8 DEF CacheIsFresh, OneChannel, ReadyMeansCached
<1> QED
  BY <1>5, <1>7, <1>8

\* A packet as it is written.
LEMMA WrittenPacket ==
  ASSUME NEW p \in Packets, NEW x \in 0 .. (SeqMod - 1), NEW y \in 0 .. (TSMod - 1), NEW b \in {TRUE, FALSE}
  PROVE  Written(p, x, y, b) \in OutPackets /\ Written(p, x, y, b).seq = x
  BY DEF Written, OutPackets, Packets

\* Packets written with the numbers that follow videoSeq.
LEMMA WrittenInOrder ==
  ASSUME TypeOK, NextSeq, SeqContiguous, NEW s \in Seq(OutPackets),
         \A k \in 1 .. Len(s) : s[k].seq = (videoSeq + k - 1) % SeqMod,
         out' = out \o s, videoSeq' = (videoSeq + Len(s)) % SeqMod
  PROVE  /\ out' \in Seq(OutPackets) /\ videoSeq' \in 0 .. (SeqMod - 1)
         /\ NextSeq' /\ SeqContiguous'
<1> DEFINE n == Len(out)
           m == Len(s)
<1>1. /\ SeqMod \in Nat \ {0} /\ videoSeq \in 0 .. (SeqMod - 1) /\ videoSeq \in Int
      /\ out \in Seq(OutPackets)
  BY RtspVideoAssumption DEF TypeOK
<1>2. /\ n \in Nat /\ m \in Nat /\ DOMAIN s = 1 .. m
      /\ out' \in Seq(OutPackets) /\ Len(out') = n + m
      /\ \A i \in 1 .. n + m : out'[i] = IF i <= n THEN out[i] ELSE s[i - n]
  BY <1>1, LenProperties, ConcatProperties
<1>3. /\ \A i \in 1 .. n : out'[i] = out[i]
      /\ \A i \in (n + 1) .. (n + m) : out'[i] = s[i - n] /\ i - n \in 1 .. m
  BY <1>2
<1>4. out = <<>> \/ n > 0
  BY <1>1, <1>2, EmptySeq
<1>5. out' = <<>> => n + m = 0
  BY <1>2, EmptySeq
<1> HIDE DEF n, m
<1>6. videoSeq' \in 0 .. (SeqMod - 1)
  <2>1. videoSeq + m \in Int
    BY <1>1, <1>2
  <2> QED
    BY <1>1, <2>1, ModRange DEF m
\* The number after that of the k-th of them.
<1>7. ASSUME NEW k \in 1 .. m PROVE (s[k].seq + 1) % SeqMod = (videoSeq + k) % SeqMod
  <2>1. PICK a \in Int : a = videoSeq + k - 1
    BY <1>1, <1>2
  <2>2. s[k].seq = a % SeqMod
    BY <2>1 DEF m
  <2>3. ((a % SeqMod) + 1) % SeqMod = (a + 1) % SeqMod
    <3>1. PICK b \in Int : b = 1
      OBVIOUS
    <3>2. ((a % SeqMod) + b) % SeqMod = (a + b) % SeqMod
      BY <1>1, ModAdd
    <3> QED
      BY <3>1, <3>2
  <2>4. a + 1 = videoSeq + k
    BY <1>1, <1>2, <2>1
  <2> QED
    BY <2>2, <2>3, <2>4
<1>8. NextSeq'
  <2>1. CASE m = 0
    <3>1. (videoSeq + m) % SeqMod = videoSeq
      <4>1. videoSeq + m = videoSeq
        BY <1>1, <2>1
      <4> QED
        BY <1>1, <4>1, ModSmall
    <3>2. videoSeq' = videoSeq
      BY <3>1 DEF m
    <3>3. out' # <<>> => n \in 1 .. n /\ out # <<>>
      BY <1>2, <1>4, <2>1, EmptySeq DEF n
    <3>4. Len(out') = n
      BY <1>2, <2>1
    <3> QED
      BY <1>3, <3>2, <3>3, <3>4 DEF NextSeq, n
  <2>2. CASE m > 0
    <3>1. n + m \in (n + 1) .. (n + m) /\ (n + m) - n = m /\ m \in 1 .. m
      BY <1>2, <2>2
    <3>2. out'[n + m] = s[m]
      BY <1>3, <3>1
    <3>3. (s[m].seq + 1) % SeqMod = (videoSeq + m) % SeqMod
      BY <1>7, <3>1
    <3>4. out'[Len(out')] = s[m] /\ videoSeq' = (videoSeq + m) % SeqMod
      BY <1>2, <3>2 DEF m
    <3> QED
      BY <3>3, <3>4 DEF NextSeq
  <2> QED
    BY <1>2, <2>1, <2>2
<1>9. SeqContiguous'
  <2> SUFFICES ASSUME NEW k \in 1 .. (n + m - 1)
               PROVE  out'[k + 1].seq = (out'[k].seq + 1) % SeqMod
    BY <1>2 DEF SeqContiguous
  <2>1. CASE k < n
    <3>1. k \in 1 .. n /\ k + 1 \in 1 .. n /\ k \in 1 .. (n - 1)
      BY <1>2, <2>1
    <3>2. out[k + 1].seq = (out[k].seq + 1) % SeqMod
      BY <3>1 DEF SeqContiguous, n
    <3> QED
      BY <1>3, <3>1, <3>2
  <2>2. CASE k = n
    <3>1. n \in 1 .. n /\ n + 1 \in (n + 1) .. (n + m) /\ (n + 1) - n = 1 /\ 1 \in 1 .. m
      BY <1>2, <2>2
    <3>2. out'[n] = out[n] /\ out'[n + 1] = s[1]
      BY <1>3, <3>1
    <3>3. s[1].seq = (videoSeq + 1 - 1) % SeqMod
      BY <3>1 DEF m
    <3>4. (videoSeq + 1 - 1) % SeqMod = videoSeq
      <4>1. videoSeq + 1 - 1 = videoSeq
        BY <1>1
      <4> QED
        BY <1>1, <4>1, ModSmall
    <3>5. videoSeq = (out[n].seq + 1) % SeqMod
      <4>1. out # <<>>
        BY <1>2, <1>4, <2>2, EmptySeq DEF n
      <4> QED
        BY <4>1 DEF NextSeq, n
    <3> QED
      BY <2>2, <3>2, <3>3, <3>4, <3>5
  <2>3. CASE k > n
    <3>1. /\ k \in (n + 1) .. (n + m) /\ k + 1 \in (n + 1) .. (n + m)
          /\ (k + 1) - n = (k - n) + 1 /\ k - n \in 1 .. m /\ (k - n) + 1 \in 1 .. m
          /\ videoSeq + ((k - n) + 1) - 1 = videoSeq + (k - n)
      BY <1>1, <1>2, <2>3
    <3>2. out'[k] = s[k - n] /\ out'[k + 1] = s[(k - n) + 1]
      BY <1>3, <3>1
    <3>3. s[(k - n) + 1].seq = (videoSeq + (k - n)) % SeqMod
      BY <3>1 DEF m
    <3>4. (s[k - n].seq + 1) % SeqMod = (videoSeq + (k - n)) % SeqMod
      BY <1>7, <3>1
    <3> QED
      BY <3>2, <3>3, <3>4
  <2> QED
    BY <1>2, <2>1, <2>2, <2>3
<1> QED
  BY <1>2, <1>6, <1>8, <1>9

-----------------------------------------------------------------------------
\* The server has been started and no camera session has begun.
LEMMA InitIInv == Init => IInv
<1> SUFFICES ASSUME Init PROVE IInv
  OBVIOUS
<1>1. TypeOK
  <2>1. /\ {todo, idrCache, idrPending} \subseteq Seq(Packets) /\ out \in Seq(OutPackets)
    BY EmptySeq DEF Init
  <2>2. /\ session \in 0 .. MaxSessions /\ frames \in 0 .. MaxFrames /\ videoSeq \in 0 .. (SeqMod - 1)
        /\ {cameraTS, videoTSBase, videoTSOffset, lastVideoTS} \subseteq 0 .. (TSMod - 1)
        /\ idrReady \in 0 .. MaxSessions
    BY RtspVideoAssumption DEF Init
  <2>3. waitsOn \in [Clients -> 0 .. MaxSessions]
    BY RtspVideoAssumption DEF Init
  <2>4. /\ play \in [Clients -> {"none", "waiting", "inject", "watching", "closed"}]
        /\ {resetting, videoSeqInited, collectingIDR} \subseteq BOOLEAN /\ ~resetting
        /\ route \in {"write", "cacheOnly"} /\ ready \subseteq 0 .. MaxSessions
    BY DEF Init
  <2> QED
    BY <2>1, <2>2, <2>3, <2>4 DEF TypeOK
<1>2. SeqContiguous /\ NextSeq
  <2>1. Len(out) = 0
    BY EmptySeq DEF Init
  <2> QED
    BY <2>1 DEF Init, SeqContiguous, NextSeq
<1>3. DOMAIN <<>> = {}
  OBVIOUS
<1>4. TodoIsFresh /\ CacheIsFresh
  BY <1>3, Zenon DEF Init, TodoIsFresh, CacheIsFresh
<1>5. OneChannel /\ ReadyMeansCached
  BY DEF Init, OneChannel, ReadyMeansCached
<1> QED
  BY <1>1, <1>2, <1>4, <1>5 DEF IInv

\* Every operation preserves the invariant.
LEMMA StepIInv == IInv /\ [Next]_vars => IInv'
<1> SUFFICES ASSUME IInv, [Next]_vars PROVE IInv'
  OBVIOUS
<1>1. /\ TypeOK /\ NextSeq /\ SeqContiguous
      /\ TodoIsFresh /\ CacheIsFresh /\ OneChannel /\ ReadyMeansCached
  BY DEF IInv
<1>2. /\ SeqMod \in Nat \ {0} /\ TSMod \in Nat \ {0} /\ MaxSessions \in Nat
      /\ videoSeq \in 0 .. (SeqMod - 1)
      /\ cameraTS \in Int /\ videoTSBase \in Int /\ videoTSOffset \in Int /\ lastVideoTS \in Int
  BY <1>1, RtspVideoAssumption DEF TypeOK
<1>3. ASSUME UNCHANGED <<out, videoSeq>> PROVE NextSeq' /\ SeqContiguous'
  BY <1>1, <1>3 DEF NextSeq, SeqContiguous
<1>4. ASSUME UNCHANGED <<session, idrVars>> PROVE CacheIsFresh' /\ OneChannel' /\ ReadyMeansCached'
  BY <1>1, <1>4 DEF idrVars, CacheIsFresh, OneChannel, ReadyMeansCached
<1>5. ASSUME UNCHANGED <<session, todo, resetting>> PROVE TodoIsFresh'
  BY <1>1, <1>5 DEF TodoIsFresh
<1>6. CASE ResetRTP
  <2>1. videoTSOffset' \in 0 .. (TSMod - 1)
    <3>1. CASE videoSeqInited
      <4>1. PICK gap \in Gaps :
              videoTSOffset' = (lastVideoTS + (IF gap < MinGap THEN MinGap ELSE gap)) % TSMod
        BY <1>6, <3>1 DEF ResetRTP
      <4>2. lastVideoTS + (IF gap < MinGap THEN MinGap ELSE gap) \in Int
        BY <1>2, RtspVideoAssumption
      <4> QED
        BY <1>2, <4>1, <4>2, ModRange
    <3>2. CASE ~videoSeqInited
      BY <1>1, <1>6, <3>2 DEF ResetRTP, TypeOK
    <3> QED
      BY <3>1, <3>2
  <2>2. TypeOK'
    BY <1>1, <1>6, <2>1 DEF ResetRTP, TypeOK, proxyVars, idrVars, playVars
  <2>3. TodoIsFresh'
    BY <1>1, <1>6 DEF ResetRTP, TodoIsFresh, proxyVars
  <2> QED
    BY <1>3, <1>4, <1>6, <2>2, <2>3 DEF ResetRTP, IInv, proxyVars
<1>7. CASE ResetIDR
  <2>1. /\ session' = session + 1 /\ session' \in 0 .. MaxSessions /\ session + 1 \notin 0 .. session
        /\ 0 .. session \subseteq 0 .. session'
    <3>1. session \in 0 .. MaxSessions /\ session < MaxSessions /\ session' = session + 1
      BY <1>1, <1>7 DEF ResetIDR, TypeOK
    <3> QED
      BY <1>2, <3>1
  <2>2. DOMAIN <<>> = {}
    OBVIOUS
  <2>3. TypeOK'
    <3>1. {todo', idrCache', idrPending'} \subseteq Seq(Packets) /\ ~resetting' /\ collectingIDR' = FALSE
      BY <1>1, <1>7, EmptySeq DEF ResetIDR, TypeOK
    <3> QED
      BY <1>1, <1>7, <2>1, <3>1 DEF ResetIDR, TypeOK, rtpVars, playVars
  <2>4. TodoIsFresh'
    <3>1. todo' = <<>>
      BY <1>1, <1>7 DEF ResetIDR, TodoIsFresh
    <3> QED
      BY <2>2, <3>1, Zenon DEF TodoIsFresh
  <2>5. CacheIsFresh'
    <3>1. idrCache' = <<>> /\ idrPending' = <<>>
      BY <1>7 DEF ResetIDR
    <3> QED
      BY <2>2, <3>1, Zenon DEF CacheIsFresh
  <2>6. OneChannel' /\ ReadyMeansCached'
    BY <1>1, <1>7, <2>1 DEF ResetIDR, OneChannel, ReadyMeansCached
  <2> QED
    BY <1>3, <1>7, <2>3, <2>4, <2>5, <2>6 DEF ResetIDR, IInv, rtpVars
<1>8. CASE todo # <<>> /\ (WriteVideoPacket \/ CacheOnlyVideoPacket)
  <2>1. PICK p : p = Head(todo)
    OBVIOUS
  <2>2. /\ p \in Packets /\ p.session = session /\ ~resetting /\ Tail(todo) \in Seq(Packets)
        /\ \A k \in DOMAIN Tail(todo) : Tail(todo)[k].session = session
    BY <1>1, <1>8, <2>1, TakePacket
  <2>3. /\ cacheIDRPacket(p) /\ todo' = Tail(todo)
        /\ UNCHANGED <<resetting, session, frames, cameraTS, route, idrReady, playVars>>
    BY <1>8, <2>1, Zenon DEF WriteVideoPacket, CacheOnlyVideoPacket
  <2>4. /\ idrPending' \in Seq(Packets) /\ idrCache' \in Seq(Packets)
        /\ collectingIDR' \in BOOLEAN /\ ready' \subseteq 0 .. session
        /\ CacheIsFresh' /\ OneChannel' /\ ReadyMeansCached'
    BY <1>1, <2>2, <2>3, CachedPacket
  <2>5. TodoIsFresh'
    BY <2>2, <2>3, Zenon DEF TodoIsFresh
  <2>6. /\ NextSeq' /\ SeqContiguous' /\ out' \in Seq(OutPackets)
        /\ videoSeq' \in 0 .. (SeqMod - 1) /\ videoSeqInited' \in BOOLEAN
        /\ {videoTSBase', videoTSOffset', lastVideoTS'} \subseteq 0 .. (TSMod - 1)
    <3>1. CASE WriteVideoPacket
      <4>1. /\ videoSeqInited' = TRUE /\ videoTSOffset' = videoTSOffset
            /\ videoSeq' = (videoSeq + 1) % SeqMod
            /\ out' = Append(out, Written(p, videoSeq, lastVideoTS', FALSE))
        BY <2>1, <3>1, Zenon DEF WriteVideoPacket, normalizeVideoRTP
      <4>2. PICK base \in {videoTSBase, cameraTS} :
              videoTSBase' = base /\ lastVideoTS' = (videoTSOffset + (cameraTS - base)) % TSMod
        BY <3>1 DEF WriteVideoPacket, normalizeVideoRTP
      <4>3. videoTSOffset + (cameraTS - base) \in Int
        BY <1>2
      <4>4. lastVideoTS' \in 0 .. (TSMod - 1)
        BY <1>2, <4>2, <4>3, ModRange
      <4>5. {videoTSBase', videoTSOffset'} \subseteq 0 .. (TSMod - 1)
        BY <1>1, <4>1, <4>2 DEF TypeOK
      <4>6. PICK e : e = Written(p, videoSeq, lastVideoTS', FALSE)
        OBVIOUS
      <4>7. e \in OutPackets /\ e.seq = videoSeq
        BY <1>2, <2>2, <4>4, <4>6, WrittenPacket
      <4>8. PICK s : s = <<e>>
        OBVIOUS
      <4>9. /\ s \in Seq(OutPackets) /\ Len(s) = 1
            /\ \A k \in 1 .. Len(s) : s[k].seq = (videoSeq + k - 1) % SeqMod
        <5>1. (videoSeq + 1 - 1) % SeqMod = videoSeq
          <6>1. videoSeq + 1 - 1 = videoSeq
            BY <1>2
          <6> QED
            BY <1>2, <6>1, ModSmall
        <5>2. s \in Seq(OutPackets) /\ Len(s) = 1 /\ s[1] = e
          BY <4>7, <4>8
        <5>3. \A k \in 1 .. 1 : k = 1
          OBVIOUS
        <5> QED
          BY <4>7, <5>1, <5>2, <5>3
      <4>10. out' = out \o s
        <5>1. Append(out, e) = out \o <<e>>
          BY <1>1, <4>7, AppendIsConcat DEF TypeOK
        <5> QED
          BY <4>1, <4>6, <4>8, <5>1, Zenon
      <4>11. videoSeq' = (videoSeq + Len(s)) % SeqMod
        BY <4>1, <4>9
      <4>12. /\ NextSeq' /\ SeqContiguous' /\ out' \in Seq(OutPackets)
             /\ videoSeq' \in 0 .. (SeqMod - 1)
        BY <1>1, <4>9, <4>10, <4>11, WrittenInOrder
      <4> QED
        BY <4>1, <4>4, <4>5, <4>12
    <3>2. CASE CacheOnlyVideoPacket
      BY <1>1, <1>3, <3>2 DEF CacheOnlyVideoPacket, rtpVars, TypeOK
    <3> QED
      BY <1>8, <3>1, <3>2
  <2>7. ready' \subseteq 0 .. MaxSessions /\ cameraTS' \in 0 .. (TSMod - 1)
    BY <1>1, <1>2, <2>3, <2>4 DEF TypeOK
  <2>8. TypeOK'
    BY <1>1, <2>2, <2>3, <2>4, <2>6, <2>7 DEF TypeOK, playVars
  <2> QED
    BY <2>4, <2>5, <2>6, <2>8 DEF IInv
<1>9. ASSUME NEW kind \in {"idr", "p"}, NextFrame(kind) PROVE IInv'
  <2>1. UNCHANGED <<resetting, session, rtpVars, idrVars, playVars, out>> /\ ~resetting
    BY <1>9 DEF NextFrame
  <2>2. /\ todo' \in Seq(Packets) /\ frames' \in 0 .. MaxFrames
        /\ route' \in {"write", "cacheOnly"} /\ cameraTS' \in 0 .. (TSMod - 1)
        /\ \A k \in DOMAIN todo' : todo'[k].session = session
    BY <1>1, <1>9, NewFrame
  <2>3. TypeOK'
    BY <1>1, <2>1, <2>2 DEF TypeOK, rtpVars, idrVars, playVars
  <2>4. TodoIsFresh'
    BY <2>1, <2>2 DEF TodoIsFresh
  <2> QED
    BY <1>3, <1>4, <2>1, <2>3, <2>4 DEF IInv, rtpVars
<1>10. ASSUME NEW c \in Clients, OnPlay(c) \/ Wake(c) \/ IDRTimeout(c) PROVE IInv'
  <2>1. UNCHANGED <<resetting, proxyVars, rtpVars, idrVars, out>>
    BY <1>10 DEF OnPlay, Wake, IDRTimeout
  <2>2. /\ play' \in [Clients -> {"none", "waiting", "inject", "watching", "closed"}]
        /\ waitsOn' \in [Clients -> 0 .. MaxSessions]
    BY <1>1, <1>10 DEF OnPlay, Wake, IDRTimeout, TypeOK
  <2>3. TypeOK'
    BY <1>1, <2>1, <2>2 DEF TypeOK, proxyVars, rtpVars, idrVars
  <2> QED
    BY <1>3, <1>4, <1>5, <2>1, <2>3 DEF IInv, proxyVars, rtpVars
<1>11. ASSUME NEW c \in Clients, InjectIDR(c) PROVE IInv'
  <2>1. PICK s : s = [k \in DOMAIN idrCache |->
                        Written(idrCache[k], (videoSeq + k - 1) % SeqMod,
                                (lastVideoTS + 1) % TSMod, TRUE)]
    OBVIOUS
  <2>2. /\ out' = out \o s /\ videoSeq' = (videoSeq + Len(idrCache)) % SeqMod
        /\ play' = [play EXCEPT ![c] = "watching"]
        /\ UNCHANGED <<resetting, proxyVars, videoSeqInited, videoTSBase, videoTSOffset,
                       lastVideoTS, idrVars, waitsOn>>
    BY <1>11, <2>1, Zenon DEF InjectIDR
  <2>3. /\ s \in Seq(OutPackets) /\ Len(s) = Len(idrCache)
        /\ \A k \in 1 .. Len(s) : s[k].seq = (videoSeq + k - 1) % SeqMod
    <3>1. /\ idrCache \in Seq(Packets) /\ Len(idrCache) \in Nat
          /\ DOMAIN idrCache = 1 .. Len(idrCache)
      BY <1>1, LenProperties DEF TypeOK
    <3>2. ASSUME NEW k \in DOMAIN idrCache
          PROVE  /\ s[k] \in OutPackets /\ s[k].seq = (videoSeq + k - 1) % SeqMod
      <4>1. PICK p : p = idrCache[k]
        OBVIOUS
      <4>2. p \in Packets
        BY <3>1, <4>1, ElementOfSeq
      <4>3. PICK a \in Int, b \in Int : a = videoSeq + k - 1 /\ b = lastVideoTS + 1
        BY <1>2, <3>1
      <4>4. a % SeqMod \in 0 .. (SeqMod - 1) /\ b % TSMod \in 0 .. (TSMod - 1)
        BY <1>2, <4>3, ModRange
      <4>5. s[k] = Written(p, a % SeqMod, b % TSMod, TRUE)
        BY <2>1, <4>1, <4>3
      <4>6. PICK x, y : x = a % SeqMod /\ y = b % TSMod
        OBVIOUS
      <4>7. s[k] = Written(p, x, y, TRUE) /\ x \in 0 .. (SeqMod - 1) /\ y \in 0 .. (TSMod - 1)
        BY <4>4, <4>5, <4>6
      <4>8. s[k] \in OutPackets /\ s[k].seq = x
        <5>1. Written(p, x, y, TRUE) \in OutPackets /\ Written(p, x, y, TRUE).seq = x
          BY <4>2, <4>7, WrittenPacket
        <5> QED
          BY <4>7, <5>1
      <4> QED
        BY <4>3, <4>6, <4>8
    <3>3. s \in [1 .. Len(idrCache) -> OutPackets]
      <4>1. s = [k \in 1 .. Len(idrCache) |-> s[k]]
        BY <2>1, <3>1
      <4> QED
        BY <3>1, <3>2, <4>1
    <3>4. s \in Seq(OutPackets)
      BY <3>1, <3>3, SeqDef
    <3>5. Len(s) = Len(idrCache)
      <4>1. PICK u \in Nat, v \in Nat : u = Len(s) /\ v = Len(idrCache) /\ 1 .. u = 1 .. v
        BY <3>1, <3>3, <3>4, LenProperties
      <4>2. (u > 0 => u \in 1 .. v) /\ (v > 0 => v \in 1 .. u)
        BY <4>1
      <4> QED
        BY <4>1, <4>2
    <3> QED
      BY <3>1, <3>2, <3>4, <3>5
  <2>4. /\ out' \in Seq(OutPackets) /\ videoSeq' \in 0 .. (SeqMod - 1)
        /\ NextSeq' /\ SeqContiguous'
    <3>1. videoSeq' = (videoSeq + Len(s)) % SeqMod
      BY <2>2, <2>3
    <3> QED
      BY <1>1, <2>2, <2>3, <3>1, WrittenInOrder
  <2>5. TypeOK'
    <3>1. play' \in [Clients -> {"none", "waiting", "inject", "watching", "closed"}]
      BY <1>1, <2>2 DEF TypeOK
    <3> QED
      BY <1>1, <2>2, <2>4, <3>1 DEF TypeOK, proxyVars, idrVars
  <2> QED
    BY <1>4, <1>5, <2>2, <2>4, <2>5 DEF IInv, proxyVars
<1>12. CASE UNCHANGED vars
  <2>1. TypeOK'
    BY <1>1, <1>12 DEF vars, proxyVars, rtpVars, idrVars, playVars, TypeOK
  <2> QED
    BY <1>3, <1>4, <1>5, <1>12, <2>1 DEF IInv, vars, proxyVars, rtpVars
<1> QED
  BY <1>6, <1>7, <1>8, <1>9, <1>10, <1>11, <1>12
     DEF Next, ResetVideoRTP, WriteVideoPacket, CacheOnlyVideoPacket

LEMMA SpecIInv == Spec => []IInv
  BY InitIInv, StepIInv, PTL DEF Spec

\* The counters stay within their widths, and what is cached, handed over and
\* written are packets (rtsp_server.go 19-62).
THEOREM RtspVideoTypeOK == Spec => []TypeOK
  BY SpecIInv, PTL DEF IInv

\* One gapless numbering across camera sessions and injected frames, for every
\* width of the counter (rtsp_server.go 345-347, 670-677).
THEOREM RtspVideoSeqContiguous == Spec => []SeqContiguous
  BY SpecIInv, PTL DEF IInv

\* The current channel is closed exactly when an IDR is cached
\* (rtsp_server.go 257-268, 318-324, 643, 666).
THEOREM RtspVideoReadyMeansCached == Spec => []ReadyMeansCached
  BY SpecIInv, PTL DEF IInv

\* Nothing of an earlier camera session is cached or collected
\* (rtsp_server.go 318-324).
THEOREM RtspVideoCacheIsFresh == Spec => []CacheIsFresh
  BY SpecIInv, PTL DEF IInv

-----------------------------------------------------------------------------
(***************************************************************************)
(* Time.  RTP timestamps can be compared over less than half their range,  *)
(* so what follows is about streams that are shorter than that.            *)
(***************************************************************************)

\* Whether packet j was written when a packet of the camera had been.
Counted(j) == \E i \in 1 .. j : ~out[i].injected

\* A bound on the time that passed: the frames of the camera, and what a reset adds,
\* which is at most G.  The whole stream is shorter than half the range of the
\* timestamps, and a reset leaves room for an injected frame.
Elapsed(G) == frames * FrameTicks + (IF resetting THEN session + 1 ELSE session) * G
ShortStream(G) ==
  /\ 2 <= MinGap /\ MinGap <= G /\ \A gap \in Gaps : gap <= G
  /\ MaxFrames * FrameTicks + MaxSessions * G + 1 <= TSMod \div 2

\* The time of the camera since the first packet of its session.
SinceBase == (cameraTS - videoTSBase) % TSMod

\* The next packet of the camera is not written before the last one, and its session
\* not before what the sessions before have written.
Clock(G) ==
  /\ resetting => ~videoSeqInited
  /\ videoSeqInited =>
       /\ videoTSOffset <= lastVideoTS /\ lastVideoTS <= videoTSOffset + SinceBase
       /\ videoTSOffset + SinceBase <= Elapsed(G)
  /\ ~videoSeqInited =>
       /\ videoTSOffset <= Elapsed(G)
       /\ Counted(Len(out)) => lastVideoTS + MinGap <= videoTSOffset

OutBefore ==
  \A j \in 1 .. Len(out) : Counted(j) =>
    /\ out[j].ts <= lastVideoTS + 1
    /\ videoSeqInited /\ out[j].session < session => out[j].ts < videoTSOffset

OutAdvances ==
  \A j, k \in 1 .. Len(out) :
    /\ j < k /\ out[j].session < out[k].session /\ ~out[k].injected /\ Counted(j)
    => out[j].ts < out[k].ts

TimeInv(G) == Clock(G) /\ OutBefore /\ OutAdvances

LEMMA ElapsedSmall ==
  ASSUME NEW G \in Nat, ShortStream(G), NEW f \in 0 .. MaxFrames, NEW x \in 0 .. MaxSessions
  PROVE  /\ f * FrameTicks + x * G \in Nat /\ TSMod \div 2 \in Nat
         /\ f * FrameTicks + x * G + 1 <= TSMod \div 2 /\ TSMod \div 2 < TSMod
<1>1. /\ MaxFrames \in Nat /\ MaxSessions \in Nat /\ FrameTicks \in Nat
      /\ TSMod \in Nat \ {0}
  BY RtspVideoAssumption
<1>2. TSMod \div 2 \in Nat /\ TSMod \div 2 < TSMod
  BY <1>1
<1>3. PICK a \in Nat, b \in Nat : MaxFrames = f + a /\ MaxSessions = x + b
  <2>1. MaxFrames - f \in Nat /\ MaxSessions - x \in Nat
    BY <1>1
  <2>2. MaxFrames = f + (MaxFrames - f) /\ MaxSessions = x + (MaxSessions - x)
    BY <1>1
  <2> QED
    BY <2>1, <2>2
<1>4. /\ (f + a) * FrameTicks = f * FrameTicks + a * FrameTicks
      /\ (x + b) * G = x * G + b * G
  BY <1>1, <1>3
<1>5. PICK p \in Nat, q \in Nat, r \in Nat, s \in Nat :
        /\ p = f * FrameTicks /\ q = a * FrameTicks /\ r = x * G /\ s = b * G
  BY <1>1, <1>3
<1>6. (p + q) + (r + s) + 1 <= TSMod \div 2
  BY <1>3, <1>4, <1>5 DEF ShortStream
<1>7. p + r \in Nat /\ p + r + 1 <= TSMod \div 2
  BY <1>2, <1>6
<1> QED
  BY <1>2, <1>5, <1>7

LEMMA ElapsedGrows ==
  ASSUME NEW f \in Nat, NEW x \in Nat, NEW F \in Nat, NEW G \in Nat
  PROVE  /\ (f + 1) * F + x * G = (f * F + x * G) + F
         /\ f * F + (x + 1) * G = (f * F + x * G) + G
<1>1. (f + 1) * F = f * F + F /\ (x + 1) * G = x * G + G
  OBVIOUS
<1>2. f * F \in Nat /\ x * G \in Nat
  OBVIOUS
<1> QED
  BY <1>1, <1>2

\* The time is a number below half the range of the timestamps.
LEMMA TimeTypes ==
  ASSUME NEW G \in Nat, ShortStream(G), TypeOK
  PROVE  /\ Elapsed(G) \in Nat /\ TSMod \div 2 \in Nat
         /\ Elapsed(G) + 1 <= TSMod \div 2 /\ TSMod \div 2 < TSMod
         /\ TSMod \in Nat \ {0} /\ SinceBase \in 0 .. (TSMod - 1)
         /\ cameraTS \in 0 .. (TSMod - 1) /\ videoTSBase \in 0 .. (TSMod - 1)
         /\ videoTSOffset \in 0 .. (TSMod - 1) /\ lastVideoTS \in 0 .. (TSMod - 1)
<1>1. /\ TSMod \in Nat \ {0}
      /\ cameraTS \in 0 .. (TSMod - 1) /\ videoTSBase \in 0 .. (TSMod - 1)
      /\ videoTSOffset \in 0 .. (TSMod - 1) /\ lastVideoTS \in 0 .. (TSMod - 1)
  BY RtspVideoAssumption DEF TypeOK
<1>2. SinceBase \in 0 .. (TSMod - 1)
  <2>1. cameraTS - videoTSBase \in Int
    BY <1>1
  <2> QED
    BY <1>1, <2>1, ModRange DEF SinceBase
<1>3. PICK x \in 0 .. MaxSessions : x = IF resetting THEN session + 1 ELSE session
  BY RtspVideoAssumption DEF TypeOK
<1>4. frames \in 0 .. MaxFrames
  BY DEF TypeOK
<1>5. Elapsed(G) = frames * FrameTicks + x * G
  BY <1>3 DEF Elapsed
<1> QED
  BY <1>1, <1>2, <1>4, <1>5, ElapsedSmall

\* What was written stays as it is.
LEMMA OutGrows ==
  ASSUME TypeOK, NEW s \in Seq(OutPackets), out' = out \o s
  PROVE  /\ Len(out) \in Nat /\ Len(s) \in Nat /\ Len(out') = Len(out) + Len(s)
         /\ \A j \in 1 .. Len(out) : out'[j] = out[j] /\ (Counted(j)' <=> Counted(j))
         /\ \A j \in (Len(out) + 1) .. (Len(out) + Len(s)) :
              out'[j] = s[j - Len(out)] /\ j - Len(out) \in 1 .. Len(s)
<1>1. out \in Seq(OutPackets)
  BY DEF TypeOK
<1>2. PICK n \in Nat, m \in Nat : n = Len(out) /\ m = Len(s)
  BY <1>1, LenProperties
<1>3. /\ Len(out') = n + m
      /\ \A i \in 1 .. (n + m) : out'[i] = IF i <= n THEN out[i] ELSE s[i - n]
  BY <1>1, <1>2, ConcatProperties
<1>4. \A j \in 1 .. n : out'[j] = out[j]
  BY <1>2, <1>3
<1>5. ASSUME NEW j \in 1 .. n PROVE Counted(j)' <=> Counted(j)
  <2>1. \A i \in 1 .. j : i \in 1 .. n
    OBVIOUS
  <2>2. \A i \in 1 .. j : out'[i] = out[i]
    BY <1>4, <2>1
  <2> QED
    BY <2>2 DEF Counted
<1>6. \A j \in (n + 1) .. (n + m) : out'[j] = s[j - n] /\ j - n \in 1 .. m
  BY <1>3
<1> QED
  BY <1>2, <1>3, <1>4, <1>5, <1>6

\* A packet counts once one before it does.
LEMMA CountedLater ==
  ASSUME TypeOK, NEW j \in 1 .. Len(out), Counted(j)
  PROVE  Counted(Len(out))
<1>1. Len(out) \in Nat
  BY LenProperties DEF TypeOK
<1> QED
  BY <1>1 DEF Counted

\* The time of a packet of the camera.
LEMMA WriteTime ==
  ASSUME NEW G \in Nat, ShortStream(G), TypeOK, Clock(G), normalizeVideoRTP,
         UNCHANGED <<cameraTS, frames, session, resetting>>
  PROVE  /\ videoSeqInited' = TRUE /\ videoTSOffset' = videoTSOffset
         /\ lastVideoTS' = videoTSOffset + SinceBase' /\ SinceBase' \in Nat
         /\ lastVideoTS' <= Elapsed(G) /\ Elapsed(G)' = Elapsed(G)
         /\ videoSeqInited => lastVideoTS <= lastVideoTS'
<1>1. /\ Elapsed(G) \in Nat /\ TSMod \div 2 \in Nat
      /\ Elapsed(G) + 1 <= TSMod \div 2 /\ TSMod \div 2 < TSMod
      /\ TSMod \in Nat \ {0} /\ SinceBase \in 0 .. (TSMod - 1)
      /\ cameraTS \in 0 .. (TSMod - 1) /\ videoTSBase \in 0 .. (TSMod - 1)
      /\ videoTSOffset \in 0 .. (TSMod - 1) /\ lastVideoTS \in 0 .. (TSMod - 1)
  BY TimeTypes
<1>2. PICK base : /\ base = IF videoSeqInited THEN videoTSBase ELSE cameraTS
                  /\ videoTSBase' = base /\ videoSeqInited' = TRUE
                  /\ lastVideoTS' = (videoTSOffset + (cameraTS - base)) % TSMod
                  /\ videoTSOffset' = videoTSOffset
  BY DEF normalizeVideoRTP
<1>3. SinceBase' = (cameraTS - base) % TSMod
  BY <1>2 DEF SinceBase
<1>4. Elapsed(G)' = Elapsed(G)
  BY DEF Elapsed
<1>5. CASE videoSeqInited
  <2>1. base = videoTSBase /\ SinceBase' = SinceBase
    BY <1>2, <1>3, <1>5 DEF SinceBase
  <2>2. PICK a \in Int, b \in Int : a = cameraTS - videoTSBase /\ b = videoTSOffset
    BY <1>1
  <2>3. ((a % TSMod) + b) % TSMod = (a + b) % TSMod
    BY <1>1, ModAdd
  <2>4. videoTSOffset + (cameraTS - base) = a + b
    BY <2>1, <2>2, <1>1
  <2>5. a % TSMod = SinceBase
    BY <2>2 DEF SinceBase
  <2>6. PICK t : t = SinceBase + videoTSOffset
    OBVIOUS
  <2>7. t \in 0 .. (TSMod - 1) /\ t <= Elapsed(G) /\ t = videoTSOffset + SinceBase
        /\ lastVideoTS <= t
    BY <1>1, <1>5, <2>6 DEF Clock
  <2>8. t % TSMod = t
    BY <1>1, <2>7, ModSmall
  <2>9. lastVideoTS' = t
    BY <1>2, <2>2, <2>3, <2>4, <2>5, <2>6, <2>8
  <2> QED
    BY <1>1, <1>2, <1>4, <2>1, <2>7, <2>9
<1>6. CASE ~videoSeqInited
  <2>1. base = cameraTS
    BY <1>2, <1>6
  <2>2. cameraTS - cameraTS = 0 /\ videoTSOffset + 0 = videoTSOffset
    BY <1>1
  <2>3. 0 % TSMod = 0 /\ videoTSOffset % TSMod = videoTSOffset
    BY <1>1, ModSmall
  <2>4. SinceBase' = 0 /\ lastVideoTS' = videoTSOffset
    BY <1>2, <1>3, <2>1, <2>2, <2>3
  <2>5. videoTSOffset <= Elapsed(G)
    BY <1>6 DEF Clock
  <2> QED
    BY <1>1, <1>2, <1>4, <1>6, <2>2, <2>4, <2>5
<1> QED
  BY <1>5, <1>6

\* A packet of the camera is written after everything its session has written, and
\* after everything before its session.
LEMMA WriteTimeInv ==
  ASSUME NEW G \in Nat, ShortStream(G), TypeOK, TodoIsFresh, TimeInv(G), WriteVideoPacket
  PROVE  TimeInv(G)'
<1>1. Clock(G) /\ OutBefore /\ OutAdvances
  BY DEF TimeInv
<1>2. /\ normalizeVideoRTP /\ todo # <<>>
      /\ UNCHANGED <<cameraTS, frames, session, resetting>>
      /\ out' = Append(out, Written(Head(todo), videoSeq, lastVideoTS', FALSE))
  BY Zenon DEF WriteVideoPacket
<1>3. /\ videoSeqInited' = TRUE /\ videoTSOffset' = videoTSOffset
      /\ lastVideoTS' = videoTSOffset + SinceBase' /\ SinceBase' \in Nat
      /\ lastVideoTS' <= Elapsed(G) /\ Elapsed(G)' = Elapsed(G)
      /\ videoSeqInited => lastVideoTS <= lastVideoTS'
  BY <1>1, <1>2, WriteTime
<1>4. /\ Elapsed(G) \in Nat /\ Elapsed(G) < TSMod /\ MinGap \in Nat /\ 2 <= MinGap
      /\ videoTSOffset \in Nat /\ lastVideoTS \in Nat /\ TSMod \in Nat \ {0}
  BY TimeTypes, RtspVideoAssumption DEF ShortStream
<1>5. PICK t \in Nat : t = lastVideoTS' /\ t <= Elapsed(G) /\ videoTSOffset <= t
  <2>1. PICK d \in Nat : d = SinceBase'
    BY <1>3
  <2>2. lastVideoTS' = videoTSOffset + d /\ lastVideoTS' <= Elapsed(G)
    BY <1>3, <2>1
  <2>3. videoTSOffset + d \in Nat /\ videoTSOffset <= videoTSOffset + d
    BY <1>4
  <2> QED
    BY <2>2, <2>3
<1>6. PICK e : e = Written(Head(todo), videoSeq, t, FALSE)
  OBVIOUS
<1>7. e \in OutPackets /\ e.ts = t /\ e.session = session /\ e.injected = FALSE
  <2>1. Head(todo) \in Packets /\ Head(todo).session = session
    BY <1>2, TakePacket
  <2>2. t \in 0 .. (TSMod - 1) /\ videoSeq \in 0 .. (SeqMod - 1)
    BY <1>4, <1>5 DEF TypeOK
  <2>3. Written(Head(todo), videoSeq, t, FALSE) \in OutPackets
    BY <2>1, <2>2, WrittenPacket
  <2> QED
    BY <1>6, <2>1, <2>3 DEF Written
<1>8. PICK s : s = <<e>>
  OBVIOUS
<1>9. s \in Seq(OutPackets) /\ Len(s) = 1 /\ s[1] = e
  BY <1>7, <1>8
<1>10. out' = out \o s
  <2>1. Append(out, e) = out \o <<e>>
    BY <1>7, AppendIsConcat DEF TypeOK
  <2> QED
    BY <1>2, <1>5, <1>6, <1>8, <2>1, Zenon
<1>11. PICK n \in Nat : n = Len(out)
  BY LenProperties DEF TypeOK
<1>12. /\ Len(out') = n + 1 /\ out'[n + 1] = e
       /\ \A j \in 1 .. n : out'[j] = out[j] /\ (Counted(j)' <=> Counted(j))
  <2>1. /\ Len(out') = n + Len(s)
        /\ \A j \in 1 .. n : out'[j] = out[j] /\ (Counted(j)' <=> Counted(j))
        /\ \A j \in (n + 1) .. (n + Len(s)) : out'[j] = s[j - n] /\ j - n \in 1 .. Len(s)
    BY <1>9, <1>10, <1>11, OutGrows
  <2>2. n + 1 \in (n + 1) .. (n + 1) /\ (n + 1) - n = 1
    OBVIOUS
  <2> QED
    BY <1>9, <2>1, <2>2
<1>13. ASSUME NEW j \in 1 .. n
       PROVE  /\ out[j] \in OutPackets /\ out[j].ts \in Nat /\ out[j].session \in Nat
              /\ j \in 1 .. Len(out)
  <2>1. out[j] \in OutPackets
    BY <1>11, ElementOfSeq DEF TypeOK
  <2>2. out[j].ts \in 0 .. (TSMod - 1)
    BY <2>1 DEF OutPackets
  <2>3. out[j].ts \in Nat
    BY <1>4, <2>2
  <2> QED
    BY <1>11, <2>1, <2>3 DEF OutPackets
\* What is there already.
<1>14. ASSUME NEW j \in 1 .. n, Counted(j)
       PROVE  out[j].ts <= t + 1 /\ (out[j].session < session => out[j].ts < videoTSOffset)
  <2>1. /\ out[j].ts <= lastVideoTS + 1
        /\ videoSeqInited /\ out[j].session < session => out[j].ts < videoTSOffset
    BY <1>1, <1>13, <1>14 DEF OutBefore
  <2>2. CASE videoSeqInited
    <3>1. lastVideoTS <= t
      BY <1>3, <1>5, <2>2
    <3>2. out[j].ts <= t + 1
      BY <1>4, <1>13, <2>1, <3>1
    <3> QED
      BY <2>1, <2>2, <3>2
  <2>3. CASE ~videoSeqInited
    <3>1. Counted(Len(out))
      BY <1>13, <1>14, CountedLater
    <3>2. lastVideoTS + MinGap <= videoTSOffset
      BY <1>1, <2>3, <3>1 DEF Clock
    <3> QED
      BY <1>4, <1>5, <1>13, <2>1, <3>2
  <2> QED
    BY <2>2, <2>3
<1>15. ASSUME NEW j \in 1 .. (n + 1) PROVE j \in 1 .. n \/ j = n + 1
  OBVIOUS
<1>16. Clock(G)'
  <2>1. ~resetting
    BY <1>2, TakePacket
  <2>2. /\ videoTSOffset <= t /\ t <= videoTSOffset + SinceBase'
        /\ videoTSOffset + SinceBase' <= Elapsed(G)
    BY <1>3, <1>5
  <2> QED
    BY <1>2, <1>3, <1>5, <2>1, <2>2 DEF Clock
<1>17. OutBefore'
  <2> SUFFICES ASSUME NEW j \in 1 .. (n + 1), Counted(j)'
               PROVE  /\ out'[j].ts <= t + 1
                      /\ out'[j].session < session => out'[j].ts < videoTSOffset
    BY <1>2, <1>3, <1>5, <1>12 DEF OutBefore
  <2>1. CASE j \in 1 .. n
    BY <1>12, <1>14, <2>1
  <2>2. CASE j = n + 1
    <3>1. t <= t + 1 /\ ~(session < session)
      BY DEF TypeOK
    <3> QED
      BY <1>7, <1>12, <2>2, <3>1
  <2> QED
    BY <1>15, <2>1, <2>2
<1>18. OutAdvances'
  <2> SUFFICES ASSUME NEW j \in 1 .. (n + 1), NEW k \in 1 .. (n + 1), j < k,
                      out'[j].session < out'[k].session, ~out'[k].injected, Counted(j)'
               PROVE  out'[j].ts < out'[k].ts
    BY <1>12 DEF OutAdvances
  <2>1. j \in 1 .. n
    OBVIOUS
  <2>2. out'[j] = out[j] /\ Counted(j)
    BY <1>12, <2>1
  <2>3. CASE k \in 1 .. n
    BY <1>1, <1>11, <1>12, <2>1, <2>2, <2>3 DEF OutAdvances
  <2>4. CASE k = n + 1
    <3>1. out[j].ts < videoTSOffset
      BY <1>7, <1>12, <1>14, <2>1, <2>2, <2>4
    <3> QED
      BY <1>4, <1>5, <1>7, <1>12, <1>13, <2>1, <2>2, <2>4, <3>1
  <2> QED
    BY <1>15, <2>3, <2>4
<1> QED
  BY <1>16, <1>17, <1>18 DEF TimeInv

\* An injected frame is not later than the next packet of the camera may be.
LEMMA InjectTimeInv ==
  ASSUME NEW G \in Nat, ShortStream(G), TypeOK, CacheIsFresh, TimeInv(G),
         NEW c \in Clients, InjectIDR(c), TypeOK'
  PROVE  TimeInv(G)'
<1>1. Clock(G) /\ OutBefore /\ OutAdvances
  BY DEF TimeInv
<1>2. PICK s : s = [k \in DOMAIN idrCache |->
                      Written(idrCache[k], (videoSeq + k - 1) % SeqMod,
                              (lastVideoTS + 1) % TSMod, TRUE)]
  OBVIOUS
<1>3. /\ out' = out \o s
      /\ UNCHANGED <<resetting, proxyVars, videoSeqInited, videoTSBase, videoTSOffset, lastVideoTS>>
  BY <1>2, Zenon DEF InjectIDR
<1>4. /\ idrCache \in Seq(Packets) /\ Len(idrCache) \in Nat
      /\ DOMAIN idrCache = 1 .. Len(idrCache)
  BY LenProperties DEF TypeOK
<1>5. PICK y \in Nat : y = (lastVideoTS + 1) % TSMod /\ y <= lastVideoTS + 1 /\ y \in 0 .. (TSMod - 1)
  <2>1. lastVideoTS \in Nat /\ TSMod \in Nat \ {0} /\ lastVideoTS + 1 <= TSMod
    BY TimeTypes
  <2> QED
    BY <2>1
<1>6. ASSUME NEW k \in 1 .. Len(idrCache)
      PROVE  s[k] \in OutPackets /\ s[k].ts = y /\ s[k].session = session /\ s[k].injected = TRUE
  <2>1. PICK p : p = idrCache[k]
    OBVIOUS
  <2>2. p \in Packets /\ p.session = session
    BY <1>4, <2>1, ElementOfSeq DEF CacheIsFresh
  <2>3. PICK x : x = (videoSeq + k - 1) % SeqMod
    OBVIOUS
  <2>4. x \in 0 .. (SeqMod - 1)
    <3>1. videoSeq + k - 1 \in Int /\ SeqMod \in Nat \ {0}
      BY RtspVideoAssumption DEF TypeOK
    <3> QED
      BY <2>3, <3>1, ModRange
  <2>5. s[k] = Written(p, x, y, TRUE)
    BY <1>2, <1>4, <1>5, <2>1, <2>3
  <2>6. Written(p, x, y, TRUE) \in OutPackets
    BY <1>5, <2>2, <2>4, WrittenPacket
  <2> QED
    BY <2>2, <2>5, <2>6 DEF Written
<1>7. s \in Seq(OutPackets) /\ DOMAIN s = 1 .. Len(idrCache)
  <2>1. s = [k \in 1 .. Len(idrCache) |-> s[k]]
    BY <1>2, <1>4
  <2>2. s \in [1 .. Len(idrCache) -> OutPackets]
    BY <1>6, <2>1
  <2> QED
    BY <1>4, <2>2, SeqDef
<1>8. PICK n \in Nat, m \in Nat : n = Len(out) /\ m = Len(s)
  BY <1>7, LenProperties DEF TypeOK
<1>9. ASSUME NEW k \in 1 .. m
      PROVE  s[k].ts = y /\ s[k].session = session /\ s[k].injected = TRUE
  <2>1. DOMAIN s = 1 .. m
    BY <1>7, <1>8, LenProperties
  <2>2. k \in 1 .. Len(idrCache)
    BY <1>7, <2>1
  <2> QED
    BY <1>6, <2>2
<1>10. /\ Len(out') = n + m
       /\ \A j \in 1 .. n : out'[j] = out[j] /\ (Counted(j)' <=> Counted(j))
       /\ \A j \in (n + 1) .. (n + m) : out'[j] = s[j - n] /\ j - n \in 1 .. m
  BY <1>3, <1>7, <1>8, OutGrows
<1>11. ASSUME NEW j \in 1 .. (n + m) PROVE j \in 1 .. n \/ j \in (n + 1) .. (n + m)
  OBVIOUS
<1>12. ASSUME NEW j \in (n + 1) .. (n + m)
       PROVE  out'[j].ts = y /\ out'[j].session = session /\ out'[j].injected = TRUE
  BY <1>9, <1>10
<1>13. Counted(n + m)' => Counted(n)
  <2>1. ASSUME NEW i \in 1 .. (n + m), ~out'[i].injected PROVE i \in 1 .. n /\ ~out[i].injected
    BY <1>10, <1>11, <1>12, <2>1
  <2> QED
    BY <2>1 DEF Counted
<1>14. Clock(G)'
  <2>1. SinceBase' = SinceBase /\ Elapsed(G)' = Elapsed(G)
    BY <1>3 DEF SinceBase, Elapsed, proxyVars
  <2> QED
    BY <1>1, <1>3, <1>8, <1>10, <1>13, <2>1 DEF Clock
<1>15. OutBefore'
  <2> SUFFICES ASSUME NEW j \in 1 .. (n + m), Counted(j)'
               PROVE  /\ out'[j].ts <= lastVideoTS + 1
                      /\ videoSeqInited /\ out'[j].session < session => out'[j].ts < videoTSOffset
    BY <1>3, <1>10 DEF OutBefore, proxyVars
  <2>1. CASE j \in 1 .. n
    BY <1>1, <1>8, <1>10, <2>1 DEF OutBefore
  <2>2. CASE j \in (n + 1) .. (n + m)
    <3>1. ~(session < session)
      BY DEF TypeOK
    <3> QED
      BY <1>5, <1>12, <2>2, <3>1
  <2> QED
    BY <1>11, <2>1, <2>2
<1>16. OutAdvances'
  <2> SUFFICES ASSUME NEW j \in 1 .. (n + m), NEW k \in 1 .. (n + m), j < k,
                      out'[j].session < out'[k].session, ~out'[k].injected, Counted(j)'
               PROVE  out'[j].ts < out'[k].ts
    BY <1>10 DEF OutAdvances
  <2>1. k \in 1 .. n
    BY <1>11, <1>12
  <2>2. j \in 1 .. n
    BY <2>1
  <2> QED
    BY <1>1, <1>8, <1>10, <2>1, <2>2 DEF OutAdvances
<1> QED
  BY <1>14, <1>15, <1>16 DEF TimeInv

\* The camera's next frame.
LEMMA FrameTimeInv ==
  ASSUME NEW G \in Nat, ShortStream(G), TypeOK, TimeInv(G),
         NEW kind \in {"idr", "p"}, NextFrame(kind)
  PROVE  TimeInv(G)'
<1>1. Clock(G) /\ OutBefore /\ OutAdvances
  BY DEF TimeInv
<1>2. /\ ~resetting /\ frames < MaxFrames /\ frames' = frames + 1
      /\ UNCHANGED <<resetting, session, rtpVars, out>>
      /\ IF videoSeqInited
           THEN cameraTS' = (cameraTS + FrameTicks) % TSMod
           ELSE cameraTS' \in CameraTS
  BY DEF NextFrame
<1>3. /\ Elapsed(G) \in Nat /\ TSMod \in Nat \ {0} /\ SinceBase \in 0 .. (TSMod - 1)
      /\ cameraTS \in 0 .. (TSMod - 1) /\ videoTSBase \in 0 .. (TSMod - 1)
      /\ videoTSOffset \in 0 .. (TSMod - 1) /\ lastVideoTS \in 0 .. (TSMod - 1)
  BY TimeTypes
<1>4. /\ frames \in Nat /\ session \in Nat /\ FrameTicks \in Nat
      /\ frames + 1 \in 0 .. MaxFrames /\ session \in 0 .. MaxSessions
  BY <1>2, RtspVideoAssumption DEF TypeOK
<1>5. Elapsed(G)' = Elapsed(G) + FrameTicks /\ Elapsed(G)' < TSMod /\ Elapsed(G)' \in Nat
  <2>1. /\ Elapsed(G) = frames * FrameTicks + session * G
        /\ Elapsed(G)' = (frames + 1) * FrameTicks + session * G
    BY <1>2 DEF Elapsed
  <2>2. (frames + 1) * FrameTicks + session * G = (frames * FrameTicks + session * G) + FrameTicks
    BY <1>4, ElapsedGrows
  <2>3. /\ (frames + 1) * FrameTicks + session * G \in Nat /\ TSMod \div 2 \in Nat
        /\ (frames + 1) * FrameTicks + session * G + 1 <= TSMod \div 2 /\ TSMod \div 2 < TSMod
    BY <1>4, ElapsedSmall
  <2>4. PICK z \in Nat, h \in Nat : z = Elapsed(G)' /\ h = TSMod \div 2 /\ z + 1 <= h /\ h < TSMod
    BY <2>1, <2>3
  <2>5. z < TSMod
    BY <1>3, <2>4
  <2> QED
    BY <2>1, <2>2, <2>4, <2>5
<1>6. OutBefore' /\ OutAdvances'
  BY <1>1, <1>2 DEF OutBefore, OutAdvances, Counted, rtpVars
<1>7. CASE videoSeqInited
  <2>1. /\ videoTSOffset <= lastVideoTS /\ lastVideoTS <= videoTSOffset + SinceBase
        /\ videoTSOffset + SinceBase <= Elapsed(G)
    BY <1>1, <1>7 DEF Clock
  <2>2. SinceBase' = SinceBase + FrameTicks
    <3>1. SinceBase' = (((cameraTS + FrameTicks) % TSMod) - videoTSBase) % TSMod
      BY <1>2, <1>7 DEF SinceBase, rtpVars
    <3>2. PICK a \in Int, b \in Int, d \in Int :
            a = cameraTS + FrameTicks /\ b = 0 - videoTSBase /\ d = cameraTS - videoTSBase
      BY <1>3, <1>4
    <3>3. ((a % TSMod) + b) % TSMod = (a + b) % TSMod
      BY <1>3, ModAdd
    <3>4. (a % TSMod) + b = ((cameraTS + FrameTicks) % TSMod) - videoTSBase /\ a + b = d + FrameTicks
      <4>1. a % TSMod \in Int
        BY <1>3, ModRange
      <4> QED
        BY <1>3, <1>4, <3>2, <4>1
    <3>5. PICK f \in Int : f = FrameTicks
      BY <1>4
    <3>6. ((d % TSMod) + f) % TSMod = (d + f) % TSMod
      BY <1>3, ModAdd
    <3>7. d % TSMod = SinceBase
      BY <3>2 DEF SinceBase
    <3>8. PICK u : u = SinceBase + FrameTicks
      OBVIOUS
    <3>9. u \in 0 .. (TSMod - 1)
      BY <1>3, <1>4, <1>5, <2>1, <3>8
    <3>10. u % TSMod = u
      BY <1>3, <3>9, ModSmall
    <3> QED
      BY <3>1, <3>3, <3>4, <3>5, <3>6, <3>7, <3>8, <3>10
  <2>3. /\ videoTSOffset <= lastVideoTS /\ lastVideoTS <= videoTSOffset + SinceBase'
        /\ videoTSOffset + SinceBase' <= Elapsed(G)'
    BY <1>3, <1>4, <1>5, <2>1, <2>2
  <2>4. Clock(G)'
    BY <1>2, <1>7, <2>3 DEF Clock, rtpVars
  <2> QED
    BY <1>6, <2>4 DEF TimeInv
<1>8. CASE ~videoSeqInited
  <2>1. videoTSOffset <= Elapsed(G) /\ (Counted(Len(out)) => lastVideoTS + MinGap <= videoTSOffset)
    BY <1>1, <1>8 DEF Clock
  <2>2. videoTSOffset <= Elapsed(G)'
    BY <1>3, <1>4, <1>5, <2>1
  <2>3. Counted(Len(out))' <=> Counted(Len(out))
    BY <1>2 DEF Counted
  <2>4. Clock(G)'
    BY <1>2, <1>8, <2>1, <2>2, <2>3 DEF Clock, rtpVars
  <2> QED
    BY <1>6, <2>4 DEF TimeInv
<1> QED
  BY <1>7, <1>8

\* A reset puts the next session after everything written so far.
LEMMA ResetTimeInv ==
  ASSUME NEW G \in Nat, ShortStream(G), TypeOK, TimeInv(G), ResetRTP
  PROVE  TimeInv(G)'
<1>1. Clock(G) /\ OutBefore /\ OutAdvances
  BY DEF TimeInv
<1>2. /\ ~resetting /\ resetting' = TRUE /\ videoSeqInited' = FALSE /\ session < MaxSessions
      /\ UNCHANGED <<proxyVars, lastVideoTS, out>>
  BY DEF ResetRTP
<1>3. /\ Elapsed(G) \in Nat /\ TSMod \in Nat \ {0} /\ SinceBase \in 0 .. (TSMod - 1)
      /\ videoTSOffset \in 0 .. (TSMod - 1) /\ lastVideoTS \in 0 .. (TSMod - 1)
  BY TimeTypes
<1>4. /\ frames \in Nat /\ session \in Nat /\ FrameTicks \in Nat
      /\ frames \in 0 .. MaxFrames /\ session + 1 \in 0 .. MaxSessions
      /\ MinGap \in Nat /\ 2 <= MinGap /\ MinGap <= G /\ Gaps \subseteq Nat
  BY <1>2, RtspVideoAssumption DEF TypeOK, ShortStream
<1>5. Elapsed(G)' = Elapsed(G) + G /\ Elapsed(G)' < TSMod /\ Elapsed(G)' \in Nat
  <2>1. /\ Elapsed(G) = frames * FrameTicks + session * G
        /\ Elapsed(G)' = frames * FrameTicks + (session + 1) * G
    BY <1>2 DEF Elapsed, proxyVars
  <2>2. frames * FrameTicks + (session + 1) * G = (frames * FrameTicks + session * G) + G
    BY <1>4, ElapsedGrows
  <2>3. /\ frames * FrameTicks + (session + 1) * G \in Nat /\ TSMod \div 2 \in Nat
        /\ frames * FrameTicks + (session + 1) * G + 1 <= TSMod \div 2 /\ TSMod \div 2 < TSMod
    BY <1>4, ElapsedSmall
  <2>4. PICK z \in Nat, h \in Nat : z = Elapsed(G)' /\ h = TSMod \div 2 /\ z + 1 <= h /\ h < TSMod
    BY <2>1, <2>3
  <2>5. z < TSMod
    BY <1>3, <2>4
  <2> QED
    BY <2>1, <2>2, <2>4, <2>5
<1>6. /\ videoTSOffset' <= Elapsed(G)'
      /\ Counted(Len(out)) => lastVideoTS + MinGap <= videoTSOffset'
  <2>1. CASE videoSeqInited
    <3>1. PICK gap \in Gaps :
            videoTSOffset' = (lastVideoTS + (IF gap < MinGap THEN MinGap ELSE gap)) % TSMod
      BY <2>1 DEF ResetRTP
    <3>2. PICK g \in Nat : /\ g = IF gap < MinGap THEN MinGap ELSE gap
                           /\ MinGap <= g /\ g <= G
      BY <1>4 DEF ShortStream
    <3>3. lastVideoTS <= Elapsed(G)
      BY <1>1, <1>3, <2>1 DEF Clock
    <3>4. PICK u : u = lastVideoTS + g
      OBVIOUS
    <3>5. u \in 0 .. (TSMod - 1) /\ u <= Elapsed(G)' /\ lastVideoTS + MinGap <= u
      BY <1>3, <1>4, <1>5, <3>2, <3>3, <3>4
    <3>6. u % TSMod = u
      BY <1>3, <3>5, ModSmall
    <3>7. videoTSOffset' = u
      BY <3>1, <3>2, <3>4, <3>6
    <3> QED
      BY <3>5, <3>7
  <2>2. CASE ~videoSeqInited
    <3>1. /\ videoTSOffset <= Elapsed(G) /\ videoTSOffset' = videoTSOffset
          /\ Counted(Len(out)) => lastVideoTS + MinGap <= videoTSOffset
      BY <1>1, <2>2 DEF Clock, ResetRTP
    <3>2. videoTSOffset <= Elapsed(G)'
      BY <1>3, <1>5, <3>1
    <3> QED
      BY <3>1, <3>2
  <2> QED
    BY <2>1, <2>2
<1>7. Clock(G)'
  <2>1. Counted(Len(out))' <=> Counted(Len(out))
    BY <1>2 DEF Counted
  <2> QED
    BY <1>2, <1>6, <2>1 DEF Clock
<1>8. OutBefore' /\ OutAdvances'
  BY <1>1, <1>2 DEF OutBefore, OutAdvances, Counted, proxyVars
<1> QED
  BY <1>7, <1>8 DEF TimeInv

\* Every operation preserves the order in time.
LEMMA StepTimeInv ==
  ASSUME NEW G \in Nat, ShortStream(G), IInv, IInv', TimeInv(G), [Next]_vars
  PROVE  TimeInv(G)'
<1>1. TypeOK /\ TodoIsFresh /\ CacheIsFresh /\ TypeOK'
  BY DEF IInv
<1>2. CASE ResetRTP
  BY <1>1, <1>2, ResetTimeInv
<1>3. CASE ResetIDR
  <2>1. /\ resetting /\ ~resetting' /\ session' = session + 1
        /\ UNCHANGED <<frames, cameraTS, rtpVars, out>>
    BY <1>3 DEF ResetIDR
  <2>2. ~videoSeqInited /\ Elapsed(G)' = Elapsed(G)
    BY <2>1 DEF TimeInv, Clock, Elapsed
  <2>3. Counted(Len(out))' <=> Counted(Len(out))
    BY <2>1 DEF Counted
  <2>4. Clock(G)'
    BY <2>1, <2>2, <2>3 DEF TimeInv, Clock, rtpVars
  <2>5. OutBefore' /\ OutAdvances'
    BY <2>1, <2>2 DEF TimeInv, OutBefore, OutAdvances, Counted, rtpVars
  <2> QED
    BY <2>4, <2>5 DEF TimeInv
<1>4. CASE WriteVideoPacket
  BY <1>1, <1>4, WriteTimeInv
<1>5. ASSUME NEW kind \in {"idr", "p"}, NextFrame(kind) PROVE TimeInv(G)'
  BY <1>1, <1>5, FrameTimeInv
<1>6. ASSUME NEW c \in Clients, InjectIDR(c) PROVE TimeInv(G)'
  BY <1>1, <1>6, InjectTimeInv
<1>7. ASSUME UNCHANGED <<resetting, session, frames, cameraTS, rtpVars, out>> PROVE TimeInv(G)'
  BY <1>7 DEF TimeInv, Clock, OutBefore, OutAdvances, Counted, SinceBase, Elapsed, rtpVars
<1>8. CASE CacheOnlyVideoPacket
  BY <1>7, <1>8 DEF CacheOnlyVideoPacket
<1>9. ASSUME NEW c \in Clients, OnPlay(c) \/ Wake(c) \/ IDRTimeout(c) PROVE TimeInv(G)'
  BY <1>7, <1>9 DEF OnPlay, Wake, IDRTimeout, proxyVars
<1>10. CASE UNCHANGED vars
  BY <1>7, <1>10 DEF vars, proxyVars
<1> QED
  BY <1>2, <1>3, <1>4, <1>5, <1>6, <1>8, <1>9, <1>10 DEF Next, ResetVideoRTP

\* Nothing is written yet, and no time has passed.
LEMMA InitTimeInv ==
  ASSUME NEW G \in Nat, Init
  PROVE  TimeInv(G)
<1>1. Len(out) = 0
  BY EmptySeq DEF Init
<1>2. Elapsed(G) = 0
  BY RtspVideoAssumption DEF Init, Elapsed
<1>3. ~Counted(0)
  BY DEF Counted
<1> QED
  BY <1>1, <1>2, <1>3 DEF Init, TimeInv, Clock, OutBefore, OutAdvances

\* Times that are in order, and less than half the range apart, compare so.
LEMMA TimesCompare ==
  ASSUME NEW G \in Nat, ShortStream(G), IInv, TimeInv(G)
  PROVE  SessionsAdvance
<1> SUFFICES ASSUME NEW j \in DOMAIN out, NEW k \in DOMAIN out, j < k,
                    out[j].session < out[k].session, ~out[k].injected,
                    \E i \in 1 .. j : ~out[i].injected
             PROVE  Later(out[k].ts, out[j].ts)
  BY DEF SessionsAdvance
<1>1. /\ out \in Seq(OutPackets) /\ DOMAIN out = 1 .. Len(out) /\ Len(out) \in Nat
      /\ TypeOK
  BY LenProperties DEF IInv, TypeOK
<1>2. Counted(j) /\ Counted(k)
  BY <1>1 DEF Counted
<1>3. PICK a, b : a = out[k].ts /\ b = out[j].ts
  OBVIOUS
<1>4. a \in 0 .. (TSMod - 1) /\ b \in 0 .. (TSMod - 1)
  <2>1. out[k] \in OutPackets /\ out[j] \in OutPackets
    BY <1>1, ElementOfSeq
  <2> QED
    BY <1>3, <2>1 DEF OutPackets
<1>5. b < a /\ a <= lastVideoTS + 1
  BY <1>1, <1>2, <1>3 DEF TimeInv, OutBefore, OutAdvances
<1>6. /\ Elapsed(G) \in Nat /\ TSMod \div 2 \in Nat
      /\ Elapsed(G) + 1 <= TSMod \div 2 /\ TSMod \div 2 < TSMod
      /\ TSMod \in Nat \ {0} /\ lastVideoTS \in 0 .. (TSMod - 1)
      /\ videoTSOffset \in 0 .. (TSMod - 1) /\ SinceBase \in 0 .. (TSMod - 1)
  BY <1>1, TimeTypes
<1>7. lastVideoTS <= Elapsed(G)
  <2>1. CASE videoSeqInited
    BY <1>6, <2>1 DEF TimeInv, Clock
  <2>2. CASE ~videoSeqInited
    <3>1. Counted(Len(out))
      BY <1>1, <1>2, CountedLater
    <3>2. lastVideoTS + MinGap <= videoTSOffset /\ videoTSOffset <= Elapsed(G)
      BY <2>2, <3>1 DEF TimeInv, Clock
    <3> QED
      BY <1>6, <3>2, RtspVideoAssumption
  <2> QED
    BY <2>1, <2>2
<1>8. PICK h \in Nat : h = TSMod \div 2 /\ a <= h /\ h < TSMod
  BY <1>4, <1>5, <1>6, <1>7
<1>9. PICK d : d = a - b
  OBVIOUS
<1>10. d \in 1 .. h /\ d \in 0 .. (TSMod - 1)
  BY <1>4, <1>5, <1>6, <1>8, <1>9
<1>11. d % TSMod = d
  BY <1>6, <1>10, ModSmall
<1> QED
  BY <1>3, <1>8, <1>9, <1>10, <1>11 DEF Later

\* A new camera session goes on in time where the clients are, injected frames
\* included, for every number of clients, sessions and frames of a stream that is
\* shorter than half the range of the timestamps (rtsp_server.go 305-316, 337-352,
\* 669).
THEOREM RtspVideoSessionsAdvance ==
  ASSUME NEW G \in Nat, ShortStream(G)
  PROVE  Spec => []SessionsAdvance
<1>1. Init => TimeInv(G)
  BY InitTimeInv
<1>2. IInv /\ IInv' /\ TimeInv(G) /\ [Next]_vars => TimeInv(G)'
  BY StepTimeInv
<1>3. IInv /\ TimeInv(G) => SessionsAdvance
  BY TimesCompare
<1> QED
  BY <1>1, <1>2, <1>3, SpecIInv, PTL DEF Spec

=============================================================================
