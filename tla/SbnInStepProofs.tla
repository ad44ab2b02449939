------------------------- MODULE SbnInStepProofs --------------------------
(***************************************************************************)
(* ingest_app_message is given the messages SBN sent, whole and in order,  *)
(* for all sizes and every cut of the stream.  The invariant says where    *)
(* each frame begins in the bytes read and in flight: the one being read   *)
(* begins with the bytes ReadBytes has got, the next after its last byte.  *)
(***************************************************************************)
EXTENDS SbnReceiveProofs, FiniteSetTheorems, SequenceTheorems

\* S lies on frames 1 to n, whose lengths are given by size: frame g begins at
\* start[g], before S when a part of it was cut off.  S ends with the last
\* frame if the connection is up, and not later in any case.
Laid(S, start, n, size, conn) ==
    /\ start \in [1 .. n + 1 -> Int]
    /\ \A g \in 1 .. n : start[g + 1] = start[g] + size[g]
    /\ \A g \in 1 .. n + 1 : start[g] <= start[n + 1]
    /\ \A g \in 1 .. n : \A k \in 1 .. size[g] :
          start[g] + k - 1 \in 1 .. Len(S) => S[start[g] + k - 1] = <<g, k>>
    /\ Len(S) <= start[n + 1] - 1
    /\ conn = "up" => Len(S) = start[n + 1] - 1

\* The k-th byte of a frame that begins at s, when m bytes are taken.
LEMMA Shifted ==
    ASSUME NEW s \in Int, NEW v, NEW m \in Nat, NEW k \in Nat,
           NEW t \in Nat, NEW l \in Nat,
           v = s - m, v + k - 1 \in 1 .. t, m + t <= l
    PROVE  s + k - 1 = m + (v + k - 1) /\ s + k - 1 \in 1 .. l
OBVIOUS

\* A byte of a frame that ends before e lies before e.
LEMMA EndsBefore ==
    ASSUME NEW s \in Int, NEW size \in Nat, NEW k \in 1 .. size,
           NEW e \in Int, NEW l \in Nat, NEW next,
           next = s + size, next <= e, l = e - 1, s + k - 1 >= 1
    PROVE  s + k - 1 \in 1 .. l
OBVIOUS

\* What is left of S when m bytes are taken from its front, and perhaps some
\* from its end.
LEMMA LaidPart ==
    ASSUME NEW S, NEW T, NEW m \in Nat, NEW n \in Nat, NEW size, NEW start,
           NEW moved, NEW before, NEW after
    PROVE  /\ Laid(S, start, n, size, before) /\ size \in [1 .. n -> Nat]
           /\ Len(S) \in Nat /\ Len(T) \in Nat /\ m + Len(T) <= Len(S)
           /\ \A i \in 1 .. Len(T) : T[i] = S[m + i]
           /\ after = "up" => before = "up" /\ m + Len(T) = Len(S)
           /\ moved \in [1 .. n + 1 -> Int]
           /\ \A g \in 1 .. n + 1 : moved[g] = start[g] - m
           => Laid(T, moved, n, size, after)
<1>0. SUFFICES ASSUME Laid(S, start, n, size, before),
                      size \in [1 .. n -> Nat],
                      Len(S) \in Nat, Len(T) \in Nat, m + Len(T) <= Len(S),
                      \A i \in 1 .. Len(T) : T[i] = S[m + i],
                      after = "up" => before = "up" /\ m + Len(T) = Len(S),
                      moved \in [1 .. n + 1 -> Int],
                      \A g \in 1 .. n + 1 : moved[g] = start[g] - m
               PROVE  Laid(T, moved, n, size, after)
  OBVIOUS
<1>1. /\ start \in [1 .. n + 1 -> Int]
      /\ \A g \in 1 .. n : start[g + 1] = start[g] + size[g]
      /\ \A g \in 1 .. n + 1 : start[g] <= start[n + 1]
      /\ Len(S) <= start[n + 1] - 1
      /\ before = "up" => Len(S) = start[n + 1] - 1
  BY <1>0 DEF Laid
<1>2. moved \in [1 .. n + 1 -> Int]
  BY <1>0
<1>3. /\ Len(S) \in Nat /\ Len(T) \in Nat
      /\ start[n + 1] \in Int /\ moved[n + 1] = start[n + 1] - m
      /\ m + Len(T) <= Len(S)
  BY <1>0, <1>1
<1>4. ASSUME NEW g \in 1 .. n + 1
      PROVE  start[g] \in Int /\ moved[g] = start[g] - m
  BY <1>0, <1>1
<1>5. ASSUME NEW g \in 1 .. n
      PROVE  moved[g + 1] = moved[g] + size[g]
  <2>1. g \in 1 .. n + 1 /\ g + 1 \in 1 .. n + 1
    OBVIOUS
  <2>4. size[g] \in Nat
    BY <1>0
  <2>2. start[g + 1] = start[g] + size[g]
    BY <1>1
  <2>3. /\ start[g] \in Int /\ moved[g] = start[g] - m
        /\ moved[g + 1] = start[g + 1] - m
    BY <1>4, <2>1
  <2> QED BY <2>2, <2>3, <2>4
<1>6. ASSUME NEW g \in 1 .. n + 1
      PROVE  moved[g] <= moved[n + 1]
  <2>1. start[g] <= start[n + 1]
    BY <1>1
  <2> QED BY <1>3, <1>4, <2>1
<1>7. ASSUME NEW g \in 1 .. n, NEW k \in 1 .. size[g],
             moved[g] + k - 1 \in 1 .. Len(T)
      PROVE  T[moved[g] + k - 1] = <<g, k>>
  <2>1. /\ start[g] \in Int /\ moved[g] = start[g] - m
        /\ size[g] \in Nat
    BY <1>0, <1>4
  <2>2. /\ start[g] + k - 1 = m + (moved[g] + k - 1)
        /\ start[g] + k - 1 \in 1 .. Len(S)
    <3>1. k \in Nat
      BY <2>1
    <3>2. moved[g] + k - 1 \in 1 .. Len(T)
      BY <1>7
    <3> QED BY <1>3, <2>1, <3>1, <3>2, Shifted
  <2>3. S[start[g] + k - 1] = <<g, k>>
    BY <1>0, <2>2 DEF Laid
  <2>4. T[moved[g] + k - 1] = S[m + (moved[g] + k - 1)]
    BY <1>0, <1>7
  <2> QED BY <2>2, <2>3, <2>4
<1>8. /\ Len(T) <= moved[n + 1] - 1
      /\ after = "up" => Len(T) = moved[n + 1] - 1
  <2>1. /\ Len(S) <= start[n + 1] - 1
        /\ before = "up" => Len(S) = start[n + 1] - 1
    BY <1>1
  <2>2. after = "up" => before = "up" /\ m + Len(T) = Len(S)
    BY <1>0
  <2> QED BY <1>3, <2>1, <2>2
<1> QED BY <1>2, <1>5, <1>6, <1>7, <1>8 DEF Laid

\* A frame is sent: S, which was complete, goes on with it.
LEMMA LaidSend ==
    ASSUME NEW S, NEW T, NEW n \in Nat, NEW size, NEW more, NEW start,
           NEW longer
    PROVE  /\ Laid(S, start, n, size, "up")
           /\ size \in [1 .. n -> Nat] /\ more \in [1 .. n + 1 -> Nat]
           /\ Len(S) \in Nat /\ Len(T) \in Nat
           /\ \A g \in 1 .. n : more[g] = size[g]
           /\ Len(T) = Len(S) + more[n + 1]
           /\ \A i \in 1 .. Len(S) : T[i] = S[i]
           /\ \A k \in 1 .. more[n + 1] : T[Len(S) + k] = <<n + 1, k>>
           /\ longer \in [1 .. n + 2 -> Int]
           /\ \A g \in 1 .. n + 1 : longer[g] = start[g]
           /\ longer[n + 2] = start[n + 1] + more[n + 1]
           => Laid(T, longer, n + 1, more, "up")
<1>0. SUFFICES ASSUME Laid(S, start, n, size, "up"),
                      size \in [1 .. n -> Nat],
                      more \in [1 .. n + 1 -> Nat],
                      Len(S) \in Nat, Len(T) \in Nat,
                      \A g \in 1 .. n : more[g] = size[g],
                      Len(T) = Len(S) + more[n + 1],
                      \A i \in 1 .. Len(S) : T[i] = S[i],
                      \A k \in 1 .. more[n + 1] :
                         T[Len(S) + k] = <<n + 1, k>>,
                      longer \in [1 .. n + 2 -> Int],
                      \A g \in 1 .. n + 1 : longer[g] = start[g],
                      longer[n + 2] = start[n + 1] + more[n + 1]
               PROVE  Laid(T, longer, n + 1, more, "up")
  OBVIOUS
<1>1. /\ start \in [1 .. n + 1 -> Int]
      /\ \A g \in 1 .. n : start[g + 1] = start[g] + size[g]
      /\ \A g \in 1 .. n + 1 : start[g] <= start[n + 1]
      /\ Len(S) = start[n + 1] - 1
  BY <1>0 DEF Laid
<1>2. /\ Len(S) \in Nat /\ Len(T) \in Nat /\ more[n + 1] \in Nat
      /\ Len(T) = Len(S) + more[n + 1]
  BY <1>0
<1>3. longer \in [1 .. n + 2 -> Int] /\ (n + 1) + 1 = n + 2
  BY <1>0, <1>1, <1>2
<1>4. start[n + 1] \in Int /\ longer[n + 2] = start[n + 1] + more[n + 1]
  BY <1>0, <1>1
<1>5. ASSUME NEW g \in 1 .. n + 1
      PROVE  start[g] \in Int /\ longer[g] = start[g] /\ more[g] \in Nat
  <2>1. more[g] \in Nat
    BY <1>0
  <2>2. start[g] \in Int /\ longer[g] = start[g]
    BY <1>0, <1>1
  <2> QED BY <2>1, <2>2
<1>6. ASSUME NEW g \in 1 .. n + 1
      PROVE  longer[g + 1] = longer[g] + more[g]
  <2>1. CASE g = n + 1
    BY <1>3, <1>4, <1>5, <2>1
  <2>2. CASE g # n + 1
    <3>1. g \in 1 .. n /\ g + 1 \in 1 .. n + 1
      BY <2>2
    <3>2. start[g + 1] = start[g] + size[g] /\ more[g] = size[g]
      BY <1>0, <1>1, <3>1
    <3>3. longer[g + 1] = start[g + 1]
      BY <1>5, <3>1
    <3> QED BY <1>5, <3>2, <3>3
  <2> QED BY <2>1, <2>2
<1>7. ASSUME NEW g \in 1 .. n + 2
      PROVE  longer[g] <= longer[n + 2]
  <2>1. CASE g = n + 2
    BY <1>3, <2>1
  <2>2. CASE g # n + 2
    <3>1. g \in 1 .. n + 1
      BY <2>2
    <3>2. start[g] <= start[n + 1]
      BY <1>1, <3>1
    <3> QED BY <1>2, <1>4, <1>5, <3>1, <3>2
  <2> QED BY <2>1, <2>2
<1>8. ASSUME NEW g \in 1 .. n + 1, NEW k \in 1 .. more[g],
             longer[g] + k - 1 \in 1 .. Len(T)
      PROVE  T[longer[g] + k - 1] = <<g, k>>
  <2>1. CASE g = n + 1
    <3>1. /\ Len(S) = start[n + 1] - 1 /\ start[n + 1] \in Int
          /\ longer[g] = start[n + 1]
          /\ k \in 1 .. more[n + 1] /\ more[n + 1] \in Nat
      BY <1>1, <1>2, <1>4, <1>5, <2>1
    <3>2. longer[g] + k - 1 = Len(S) + k
      BY <1>2, <3>1
    <3>3. T[Len(S) + k] = <<n + 1, k>>
      BY <1>0, <3>1
    <3> QED BY <2>1, <3>2, <3>3
  <2>2. CASE g # n + 1
    <3>1. g \in 1 .. n /\ g + 1 \in 1 .. n + 1
      BY <2>2
    <3>2. /\ longer[g] = start[g] /\ start[g] \in Int
          /\ size[g] \in Nat /\ more[g] = size[g]
          /\ start[g + 1] = start[g] + size[g]
          /\ start[g + 1] <= start[n + 1]
      BY <1>0, <1>1, <1>5, <3>1
    <3>3. /\ Len(S) = start[n + 1] - 1 /\ start[n + 1] \in Int
          /\ k \in 1 .. size[g] /\ start[g] + k - 1 >= 1
      BY <1>1, <1>4, <1>8, <3>2
    <3>4. start[g] + k - 1 \in 1 .. Len(S)
      BY <1>2, <3>2, <3>3, EndsBefore
    <3>5. S[start[g] + k - 1] = <<g, k>>
      BY <1>0, <3>1, <3>3, <3>4 DEF Laid
    <3> QED BY <1>0, <3>2, <3>4, <3>5
  <2> QED BY <2>1, <2>2
<1>9. Len(T) = longer[n + 2] - 1
  BY <1>1, <1>2, <1>4
<1> QED
  <2>1. 1 .. (n + 1) + 1 = 1 .. n + 2
    BY <1>3
  <2>2. \A g \in 1 .. (n + 1) + 1 : longer[g] <= longer[(n + 1) + 1]
    BY <1>3, <1>7
  <2>3. /\ Len(T) <= longer[(n + 1) + 1] - 1
        /\ Len(T) = longer[(n + 1) + 1] - 1
    <3>1. longer[n + 2] \in Int /\ longer[(n + 1) + 1] = longer[n + 2]
      BY <1>3
    <3> QED BY <1>2, <1>9, <3>1
  <2>4. longer \in [1 .. (n + 1) + 1 -> Int]
    BY <1>3
  <2> QED BY <1>6, <1>8, <2>2, <2>3, <2>4 DEF Laid

\* A frame that was not read whole before the end of the stream.
LEMMA LaidEmpty ==
    ASSUME NEW S, NEW T, NEW n \in Nat, NEW size, NEW start, NEW before,
           NEW f \in 1 .. n + 1, NEW moved
    PROVE  /\ Laid(S, start, n, size, before) /\ size \in [1 .. n -> Nat]
           /\ Len(T) = 0
           /\ moved \in [1 .. n + 1 -> Int]
           /\ \A g \in 1 .. n + 1 : moved[g] = start[g] - (start[f] - 1)
           => Laid(T, moved, n, size, "closed")
<1> DEFINE d == start[f] - 1
<1>0. SUFFICES ASSUME Laid(S, start, n, size, before),
                      size \in [1 .. n -> Nat], Len(T) = 0,
                      moved \in [1 .. n + 1 -> Int],
                      \A g \in 1 .. n + 1 :
                         moved[g] = start[g] - (start[f] - 1)
               PROVE  Laid(T, moved, n, size, "closed")
  OBVIOUS
<1>1. /\ start \in [1 .. n + 1 -> Int]
      /\ \A g \in 1 .. n : start[g + 1] = start[g] + size[g]
      /\ \A g \in 1 .. n + 1 : start[g] <= start[n + 1]
  BY <1>0 DEF Laid
<1>2. d \in Int /\ moved \in [1 .. n + 1 -> Int] /\ start[f] = d + 1
  BY <1>0, <1>1
<1>3. ASSUME NEW g \in 1 .. n + 1
      PROVE  start[g] \in Int /\ moved[g] = start[g] - d
  BY <1>0, <1>1
<1>4. n + 1 \in 1 .. n + 1
  OBVIOUS
<1> HIDE DEF d
<1>5. ASSUME NEW g \in 1 .. n
      PROVE  moved[g + 1] = moved[g] + size[g]
  <2>1. g \in 1 .. n + 1 /\ g + 1 \in 1 .. n + 1
    OBVIOUS
  <2>2. start[g + 1] = start[g] + size[g]
    BY <1>1
  <2>3. size[g] \in Nat
    BY <1>0
  <2>4. /\ start[g] \in Int /\ moved[g] = start[g] - d
        /\ moved[g + 1] = start[g + 1] - d
    BY <1>3, <2>1
  <2>5. d \in Int
    BY <1>2
  <2> QED BY <2>2, <2>3, <2>4, <2>5
<1>6. ASSUME NEW g \in 1 .. n + 1
      PROVE  moved[g] <= moved[n + 1]
  <2>1. start[g] <= start[n + 1]
    BY <1>1
  <2>2. /\ start[g] \in Int /\ moved[g] = start[g] - d
        /\ start[n + 1] \in Int /\ moved[n + 1] = start[n + 1] - d
    BY <1>3, <1>4
  <2> QED BY <1>2, <2>1, <2>2
<1>7. 0 <= moved[n + 1] - 1
  <2>1. start[f] <= start[n + 1]
    BY <1>1
  <2>2. start[n + 1] \in Int /\ moved[n + 1] = start[n + 1] - d
    BY <1>3, <1>4
  <2> QED BY <1>2, <2>1, <2>2
<1> QED
  <2>1. \A k : k \notin 1 .. Len(T)
    BY <1>0
  <2>2. Len(T) <= moved[n + 1] - 1
    BY <1>0, <1>7
  <2> QED BY <1>2, <1>5, <1>6, <2>1, <2>2 DEF Laid

-----------------------------------------------------------------------------
(* Where the thread is in the stream                                       *)

FrameSize == [f \in 1 .. Len(sent) |-> HDR_SZ + sent[f].size]

\* The thread is at frame f of the bytes it has read and those on the wire:
\* at its first byte, or at the first of its body.
ReadsFrame(f, start) ==
    /\ Laid(got \o wire, start, Len(sent), FrameSize, link)
    /\ pc = "header" => start[f] = 1
    /\ pc = "body" => /\ f <= Len(sent)
                      /\ start[f] = 1 - HDR_SZ
                      /\ MsgType = sent[f].type
                      /\ MsgSz = sent[f].size

\* The application messages among the first n frames were ingested, in order.
Given(n) ==
    /\ Len(ingested) = Cardinality(AppsUpTo(n))
    /\ \A k \in DOMAIN ingested : \E f \in AppsUpTo(n) :
          /\ Cardinality(AppsUpTo(f)) = k
          /\ ingested[k] = Body(f, sent[f].size)

\* What makes InStep inductive.
StreamInv ==
    ~upset => \E f \in 1 .. Len(sent) + 1 :
                 /\ Given(f - 1)
                 /\ \E start : ReadsFrame(f, start)

\* The sizes of the frames on the stream.
LEMMA FrameSizes ==
    ASSUME TypeInv
    PROVE  /\ Len(sent) \in Nat /\ FrameSize \in [1 .. Len(sent) -> Nat]
           /\ Len(got \o wire) \in Nat
           /\ \A f \in 1 .. Len(sent) : /\ sent[f].size \in Nat
                                        /\ FrameSize[f] = HDR_SZ + sent[f].size
<1>1. sent \in Seq(Frames) /\ wire \in Seq(Bytes) /\ got \in Seq(Bytes)
  BY DEF TypeInv, TypeOK
<1>2. ASSUME NEW f \in 1 .. Len(sent)
      PROVE  sent[f].size \in Nat
  <2>1. sent[f] \in Frames
    BY <1>1
  <2> QED BY <2>1, FramesAssumption DEF Frames
<1>3. Len(got \o wire) \in Nat
  BY <1>1
<1> QED BY <1>1, <1>2, <1>3, FramesAssumption DEF FrameSize

\* What read() takes and what it leaves are the stream it found.
LEMMA Rejoined ==
    ASSUME NEW X, NEW s \in Seq(X), NEW n \in 0 .. Len(s)
    PROVE  SubSeq(s, 1, n) \o SubSeq(s, n + 1, Len(s)) = s
<1>1. /\ 1 \in 1 .. Len(s) + 1
      /\ n \in 1 - 1 .. Len(s)
      /\ Len(s) \in n .. Len(s)
  OBVIOUS
<1>2. SubSeq(s, 1, n) \o SubSeq(s, n + 1, Len(s)) = SubSeq(s, 1, Len(s))
  BY <1>1, ConcatAdjacentSubSeq, Zenon
<1>3. SubSeq(s, 1, Len(s)) = s
  BY SubSeqFull, Zenon
<1> QED BY <1>2, <1>3, Zenon

\* A frame is HDR_SZ bytes and those of its body.
LEMMA FrameBytes ==
    ASSUME NEW f \in 1 .. MaxFrames, NEW n \in Nat
    PROVE  /\ Header(f) \o Body(f, n) \in Seq(Bytes)
           /\ Len(Header(f) \o Body(f, n)) = HDR_SZ + n
           /\ \A k \in 1 .. HDR_SZ + n :
                 (Header(f) \o Body(f, n))[k] = <<f, k>>
<1> DEFINE h == Header(f)
           b == Body(f, n)
<1>1. HDR_SZ \in Nat
  BY FramesAssumption
<1>2. h \in Seq(Bytes) /\ b \in Seq(Bytes)
  BY FrameTyped
<1>3. Len(h) = HDR_SZ /\ \A k \in 1 .. HDR_SZ : h[k] = <<f, k>>
  BY <1>1 DEF Header
<1>4. Len(b) = n /\ \A k \in 1 .. n : b[k] = <<f, HDR_SZ + k>>
  BY DEF Body
<1> HIDE DEF h, b
<1>5. /\ h \o b \in Seq(Bytes) /\ Len(h \o b) = HDR_SZ + n
      /\ \A k \in 1 .. HDR_SZ : (h \o b)[k] = h[k]
      /\ \A k \in 1 .. n : (h \o b)[HDR_SZ + k] = b[k]
  <2>1. Len(h) = HDR_SZ /\ Len(b) = n
    BY <1>3, <1>4
  <2> QED BY <1>1, <1>2, <2>1
<1>6. ASSUME NEW k \in 1 .. HDR_SZ + n
      PROVE  (h \o b)[k] = <<f, k>>
  <2>1. CASE k \in 1 .. HDR_SZ
    BY <1>3, <1>5, <2>1
  <2>2. CASE k \notin 1 .. HDR_SZ
    <3>1. k - HDR_SZ \in 1 .. n /\ HDR_SZ + (k - HDR_SZ) = k
      BY <1>1, <2>2
    <3> QED BY <1>4, <1>5, <3>1
  <2> QED BY <2>1, <2>2
<1> QED BY <1>5, <1>6 DEF h, b

\* The application messages among the frames, counted.
LEMMA AppsCounted ==
    ASSUME TypeInv, NEW f \in 1 .. Len(sent)
    PROVE  /\ sent[f].type # "app" => AppsUpTo(f) = AppsUpTo(f - 1)
           /\ sent[f].type = "app" =>
                 /\ Cardinality(AppsUpTo(f)) = Cardinality(AppsUpTo(f - 1)) + 1
                 /\ f \in AppsUpTo(f)
                 /\ AppsUpTo(f - 1) \subseteq AppsUpTo(f)
<1>1. f \in Nat /\ f >= 1
  BY DEF TypeInv, TypeOK
<1>2. CASE sent[f].type # "app"
  BY <1>1, <1>2 DEF AppsUpTo
<1>3. CASE sent[f].type = "app"
  <2>1. AppsUpTo(f) = AppsUpTo(f - 1) \cup {f} /\ f \notin AppsUpTo(f - 1)
    BY <1>1, <1>3 DEF AppsUpTo
  <2>2. IsFiniteSet(AppsUpTo(f - 1))
    <3>1. IsFiniteSet(1 .. f - 1)
      BY <1>1, FS_Interval
    <3> QED BY <3>1, FS_Subset DEF AppsUpTo
  <2> QED BY <1>3, <2>1, <2>2, FS_AddElement
<1> QED BY <1>2, <1>3

\* What a step that leaves the bytes, the frames and the place of the thread
\* alone keeps.
LEMMA SamePlace ==
    ASSUME NEW f, NEW start, ReadsFrame(f, start),
           got' \o wire' = got \o wire, UNCHANGED <<sent, link, pc>>,
           pc = "body" => UNCHANGED <<MsgType, MsgSz>>
    PROVE  ReadsFrame(f, start)'
BY DEF ReadsFrame, FrameSize

\* What was ingested stays so, also when more is sent.
LEMMA SameGiven ==
    ASSUME NEW n \in Nat, Given(n), UNCHANGED ingested,
           \A g \in 1 .. n : sent'[g] = sent[g]
    PROVE  Given(n)'
<1>1. \A e \in 0 .. n : AppsUpTo(e)' = AppsUpTo(e)
  BY DEF AppsUpTo
<1>2. n \in 0 .. n /\ \A f \in AppsUpTo(n) : f \in 0 .. n /\ f \in 1 .. n
  BY DEF AppsUpTo
<1>3. \A f \in 1 .. n : Body(f, sent[f].size)' = Body(f, sent[f].size)
  BY DEF Body
<1>4. Len(ingested') = Cardinality(AppsUpTo(n)')
  BY <1>1, <1>2 DEF Given
<1>5. ASSUME NEW k \in DOMAIN ingested
      PROVE  \E f \in AppsUpTo(n) : /\ Cardinality(AppsUpTo(f)') = k
                                    /\ ingested[k] = Body(f, sent[f].size)'
  <2>1. PICK f \in AppsUpTo(n) : /\ Cardinality(AppsUpTo(f)) = k
                                 /\ ingested[k] = Body(f, sent[f].size)
    BY DEF Given
  <2>2. /\ AppsUpTo(f)' = AppsUpTo(f)
        /\ Body(f, sent[f].size)' = Body(f, sent[f].size)
    BY <1>1, <1>2, <1>3
  <2> QED BY <2>1, <2>2
<1>6. AppsUpTo(n)' = AppsUpTo(n)
  BY <1>1, <1>2
<1> QED BY <1>4, <1>5, <1>6 DEF Given

-----------------------------------------------------------------------------
(* The bytes a step adds to the stream, and those it leaves                *)

\* T is what S has left when m bytes were taken from its front, and perhaps
\* some from its end.
LeftOf(T, m, S) ==
    /\ m \in Nat /\ m + Len(T) <= Len(S)
    /\ \A i \in 1 .. Len(T) : T[i] = S[m + i]

\* Two sequences, one after the other.
LEMMA Joined ==
    ASSUME NEW X, NEW s \in Seq(X), NEW t \in Seq(X)
    PROVE  /\ Len(s) \in Nat /\ Len(t) \in Nat
           /\ Len(s \o t) = Len(s) + Len(t)
           /\ \A i \in 1 .. Len(s) : (s \o t)[i] = s[i]
           /\ \A k \in 1 .. Len(t) : (s \o t)[Len(s) + k] = t[k]
OBVIOUS

\* What a frame that is sent adds to the bytes on their way.
LEMMA SentBytes ==
    ASSUME TypeInv, NEW frame \in Frames, Sbn_Send(frame)
    PROVE  LET n == Len(sent)
               S == got \o wire
               T == got' \o wire'
           IN  /\ n \in Nat /\ Len(S) \in Nat /\ frame.size \in Nat
               /\ Len(T) = Len(S) + (HDR_SZ + frame.size)
               /\ \A i \in 1 .. Len(S) : T[i] = S[i]
               /\ \A k \in 1 .. HDR_SZ + frame.size :
                     T[Len(S) + k] = <<n + 1, k>>
<1> DEFINE n == Len(sent)
           S == got \o wire
           T == got' \o wire'
           h == Header(n + 1)
           b == Body(n + 1, frame.size)
<1>1. /\ n \in Nat /\ Len(S) \in Nat /\ HDR_SZ \in Nat
      /\ n + 1 \in 1 .. MaxFrames /\ frame.size \in Nat
  <2>1. n \in Nat /\ Len(S) \in Nat
    BY FrameSizes
  <2>2. n < MaxFrames
    BY DEF Sbn_Send
  <2>3. frame.size \in Nat
    BY FramesAssumption DEF Frames
  <2> QED BY <2>1, <2>2, <2>3, FramesAssumption
<1>2. got' = got /\ wire' = wire \o h \o b
  BY DEF Sbn_Send
<1>3. /\ got \in Seq(Bytes) /\ wire \in Seq(Bytes)
      /\ h \in Seq(Bytes) /\ b \in Seq(Bytes)
  BY <1>1, FrameTyped DEF TypeInv, TypeOK
<1>4. /\ h \o b \in Seq(Bytes) /\ Len(h \o b) = HDR_SZ + frame.size
      /\ \A k \in 1 .. HDR_SZ + frame.size : (h \o b)[k] = <<n + 1, k>>
  BY <1>1, FrameBytes
<1> HIDE DEF n, S, T, h, b
<1> DEFINE e == h \o b
<1>5. /\ e \in Seq(Bytes) /\ Len(e) = HDR_SZ + frame.size
      /\ \A k \in 1 .. HDR_SZ + frame.size : e[k] = <<n + 1, k>>
  BY <1>4
<1>6. wire' = wire \o e
  <2>1. (wire \o h) \o b = wire \o (h \o b)
    <3>1. wire \in Seq(Bytes) /\ h \in Seq(Bytes) /\ b \in Seq(Bytes)
      BY <1>3
    <3> QED BY <3>1
  <2> QED BY <1>2, <2>1
<1> HIDE DEF e
<1>7. T = S \o e
  <2>1. (got \o wire) \o e = got \o (wire \o e)
    <3>1. got \in Seq(Bytes) /\ wire \in Seq(Bytes) /\ e \in Seq(Bytes)
      BY <1>3, <1>5
    <3> QED BY <3>1
  <2> QED BY <1>2, <1>6, <2>1 DEF S, T
<1>8. S \in Seq(Bytes)
  BY <1>3 DEF S
<1>9. /\ Len(T) = Len(S) + Len(e)
      /\ \A i \in 1 .. Len(S) : T[i] = S[i]
      /\ \A k \in 1 .. Len(e) : T[Len(S) + k] = e[k]
  BY <1>5, <1>7, <1>8, Joined
<1> QED BY <1>1, <1>5, <1>9 DEF n, S, T

\* What the close of the connection leaves of them.
LEMMA ClosedBytes ==
    ASSUME TypeInv, Sbn_Close
    PROVE  /\ Len(got \o wire) \in Nat /\ Len(got' \o wire') \in Nat
           /\ LeftOf(got' \o wire', 0, got \o wire)
<1>1. PICK j \in 0 .. Len(wire) : wire' = SubSeq(wire, 1, j)
  BY DEF Sbn_Close, Prefixes
<1>2. got \in Seq(Bytes) /\ wire \in Seq(Bytes) /\ got' = got
  BY DEF TypeInv, TypeOK, Sbn_Close
<1>3. /\ wire' \in Seq(Bytes) /\ Len(wire') = j
      /\ \A i \in 1 .. j : wire'[i] = wire[i]
  BY <1>1, <1>2
<1>4. /\ Len(got) \in Nat /\ Len(wire) \in Nat
      /\ Len(got \o wire) = Len(got) + Len(wire)
      /\ Len(got' \o wire') = Len(got) + j
      /\ \A i \in 1 .. Len(got) : (got' \o wire')[i] = (got \o wire)[i]
      /\ \A i \in 1 .. j :
            (got' \o wire')[Len(got) + i] = (got \o wire)[Len(got) + i]
  BY <1>1, <1>2, <1>3, Joined
<1> QED BY <1>1, <1>4 DEF LeftOf

\* A read takes bytes from the wire: the stream is the same.
LEMMA SomeBytes ==
    ASSUME TypeInv, ReadBytes_Some
    PROVE  got' \o wire' = got \o wire
<1>1. PICK j \in 1 .. Len(wire) : /\ got' = got \o SubSeq(wire, 1, j)
                                  /\ wire' = SubSeq(wire, j + 1, Len(wire))
  BY DEF ReadBytes_Some
<1> DEFINE a == SubSeq(wire, 1, j)
           b == SubSeq(wire, j + 1, Len(wire))
<1>2. got \in Seq(Bytes) /\ wire \in Seq(Bytes)
  BY DEF TypeInv, TypeOK
<1>3. a \in Seq(Bytes) /\ b \in Seq(Bytes) /\ a \o b = wire
  <2>1. j \in 0 .. Len(wire)
    BY <1>2
  <2> QED BY <1>2, <2>1, SplitTyped, Rejoined, Zenon
<1>4. got' = got \o a /\ wire' = b
  BY <1>1
<1> HIDE DEF a, b
<1>5. (got \o a) \o b = got \o (a \o b)
  <2>1. got \in Seq(Bytes) /\ a \in Seq(Bytes) /\ b \in Seq(Bytes)
    BY <1>2, <1>3
  <2> QED BY <2>1
<1> QED BY <1>3, <1>4, <1>5

\* What is left when those read are dropped, or handed on.
LEMMA TakenBytes ==
    ASSUME TypeInv, got' = <<>>, UNCHANGED wire
    PROVE  /\ Len(got \o wire) \in Nat /\ Len(got' \o wire') \in Nat
           /\ got' \o wire' = wire /\ Len(wire) \in Nat
           /\ LeftOf(got' \o wire', Len(got), got \o wire)
<1>1. got \in Seq(Bytes) /\ wire \in Seq(Bytes)
  BY DEF TypeInv, TypeOK
<1>2. got' \o wire' = wire
  BY <1>1
<1>3. /\ Len(got) \in Nat /\ Len(wire) \in Nat
      /\ Len(got \o wire) = Len(got) + Len(wire)
      /\ \A i \in 1 .. Len(wire) : wire[i] = (got \o wire)[Len(got) + i]
  <2>1. /\ Len(got) \in Nat /\ Len(wire) \in Nat
        /\ Len(got \o wire) = Len(got) + Len(wire)
        /\ \A i \in 1 .. Len(wire) : (got \o wire)[Len(got) + i] = wire[i]
    BY <1>1, Joined
  <2> QED BY <2>1, Zenon
<1> QED BY <1>2, <1>3 DEF LeftOf

-----------------------------------------------------------------------------
(* The steps                                                               *)

\* SBN sends a frame: it lies behind the others.
LEMMA SendInStep ==
    ASSUME TypeInv, StreamInv, NEW frame \in Frames, Sbn_Send(frame)
    PROVE  StreamInv'
<1> DEFINE n == Len(sent)
           S == got \o wire
           T == got' \o wire'
<1>1. SUFFICES ASSUME ~upset
               PROVE  \E f \in 1 .. Len(sent') + 1 :
                         Given(f - 1)' /\ \E start : ReadsFrame(f, start)'
  BY DEF StreamInv, Sbn_Send
<1>2. PICK f \in 1 .. n + 1 : Given(f - 1) /\ \E start : ReadsFrame(f, start)
  BY <1>1 DEF StreamInv
<1>3. PICK start : ReadsFrame(f, start)
  BY <1>2
<1>4. /\ n \in Nat /\ FrameSize \in [1 .. n -> Nat] /\ Len(S) \in Nat
      /\ n + 1 \in 1 .. MaxFrames /\ frame.size \in Nat /\ HDR_SZ \in Nat
  <2>1. n \in Nat /\ FrameSize \in [1 .. n -> Nat] /\ Len(S) \in Nat
    BY FrameSizes
  <2>2. n < MaxFrames
    BY DEF Sbn_Send
  <2>3. frame.size \in Nat
    BY FramesAssumption DEF Frames
  <2> QED BY <2>1, <2>2, <2>3, FramesAssumption
<1>5. /\ sent' = Append(sent, frame) /\ link = "up" /\ got' = got
      /\ UNCHANGED <<link, pc, MsgType, MsgSz, ingested>>
  BY DEF Sbn_Send
<1>6. /\ Len(sent') = n + 1 /\ sent'[n + 1] = frame
      /\ \A g \in 1 .. n : sent'[g] = sent[g]
  BY <1>4, <1>5 DEF TypeInv, TypeOK
<1>7. /\ FrameSize' \in [1 .. n + 1 -> Nat]
      /\ FrameSize'[n + 1] = HDR_SZ + frame.size
      /\ \A g \in 1 .. n : FrameSize'[g] = FrameSize[g]
  <2>1. FrameSize' = [g \in 1 .. n + 1 |-> HDR_SZ + sent'[g].size]
    BY <1>6 DEF FrameSize
  <2>2. \A g \in 1 .. n : sent[g].size \in Nat
    BY FrameSizes
  <2>3. \A g \in 1 .. n + 1 : sent'[g].size \in Nat
    BY <1>4, <1>6, <2>2
  <2> QED BY <1>4, <1>6, <2>1, <2>3 DEF FrameSize
<1>8. /\ Len(T) = Len(S) + (HDR_SZ + frame.size)
      /\ \A i \in 1 .. Len(S) : T[i] = S[i]
      /\ \A k \in 1 .. HDR_SZ + frame.size : T[Len(S) + k] = <<n + 1, k>>
  BY SentBytes
<1>9. \E longer : ReadsFrame(f, longer)'
  <2>1. Laid(S, start, n, FrameSize, "up")
    BY <1>3, <1>5 DEF ReadsFrame
  <2> DEFINE end == start[n + 1] + FrameSize'[n + 1]
  <2>2. PICK longer : longer = [g \in 1 .. n + 2 |->
                                  IF g = n + 2 THEN end ELSE start[g]]
    OBVIOUS
  <2>3. /\ longer \in [1 .. n + 2 -> Int]
        /\ \A g \in 1 .. n + 1 : longer[g] = start[g]
        /\ longer[n + 2] = end
    <3>1. start \in [1 .. n + 1 -> Int]
      BY <2>1 DEF Laid
    <3>2. end \in Int
      BY <1>4, <1>7, <3>1
    <3> QED BY <1>4, <2>2, <3>1, <3>2
  <2>4. Laid(T, longer, n + 1, FrameSize', "up")
    <3>1. Len(T) \in Nat
      BY <1>4, <1>7, <1>8
    <3>2. Len(T) = Len(S) + FrameSize'[n + 1]
      BY <1>7, <1>8
    <3>3. /\ \A i \in 1 .. Len(S) : T[i] = S[i]
          /\ \A k \in 1 .. FrameSize'[n + 1] : T[Len(S) + k] = <<n + 1, k>>
      BY <1>7, <1>8
    <3>4. /\ n \in Nat /\ FrameSize \in [1 .. n -> Nat] /\ Len(S) \in Nat
          /\ FrameSize' \in [1 .. n + 1 -> Nat]
          /\ \A g \in 1 .. n : FrameSize'[g] = FrameSize[g]
      BY <1>4, <1>7
    <3> HIDE DEF n, S, T
    <3> QED BY <2>1, <2>3, <3>1, <3>2, <3>3, <3>4, LaidSend
  <2>5. /\ pc = "header" => longer[f] = 1
        /\ pc = "body" => /\ f <= n /\ longer[f] = 1 - HDR_SZ
                          /\ MsgType = sent[f].type /\ MsgSz = sent[f].size
    BY <1>2, <1>3, <2>3 DEF ReadsFrame
  <2>6. f <= n => f <= n + 1 /\ sent'[f] = sent[f]
    BY <1>2, <1>4, <1>6
  <2>7. ReadsFrame(f, longer)'
    BY <1>5, <1>6, <2>4, <2>5, <2>6 DEF ReadsFrame
  <2> QED BY <2>7
<1>10. Given(f - 1)'
  <2>1. f - 1 \in Nat /\ \A g \in 1 .. f - 1 : g \in 1 .. n
    BY <1>2, <1>4
  <2> QED BY <1>2, <1>5, <1>6, <2>1, SameGiven
<1>11. f \in 1 .. Len(sent') + 1
  BY <1>2, <1>4, <1>6
<1> QED BY <1>9, <1>10, <1>11

\* SBN closes the connection: the end of what it sent may be lost.
LEMMA CloseInStep ==
    ASSUME TypeInv, StreamInv, Sbn_Close
    PROVE  StreamInv'
<1> DEFINE n == Len(sent)
           S == got \o wire
           T == got' \o wire'
<1>1. SUFFICES ASSUME ~upset
               PROVE  \E f \in 1 .. Len(sent') + 1 :
                         Given(f - 1)' /\ \E start : ReadsFrame(f, start)'
  BY DEF StreamInv, Sbn_Close
<1>2. PICK f \in 1 .. n + 1 : Given(f - 1) /\ \E start : ReadsFrame(f, start)
  BY <1>1 DEF StreamInv
<1>3. PICK start : ReadsFrame(f, start)
  BY <1>2
<1>4. /\ link' = "closed"
      /\ UNCHANGED <<sent, pc, MsgType, MsgSz, got, ingested>>
  BY DEF Sbn_Close
<1>6. /\ n \in Nat /\ FrameSize \in [1 .. n -> Nat] /\ Len(S) \in Nat
      /\ FrameSize' = FrameSize
  BY <1>4, FrameSizes DEF FrameSize
<1>7. /\ Len(T) \in Nat /\ 0 + Len(T) <= Len(S)
      /\ \A i \in 1 .. Len(T) : T[i] = S[0 + i]
  BY ClosedBytes DEF LeftOf
<1>8. \E begin : ReadsFrame(f, begin)'
  <2>1. Laid(S, start, n, FrameSize, link) /\ start \in [1 .. n + 1 -> Int]
    BY <1>3 DEF ReadsFrame, Laid
  <2>2. \A g \in 1 .. n + 1 : start[g] = start[g] - 0
    BY <2>1
  <2>3. Laid(T, start, n, FrameSize, "closed")
    <3> HIDE DEF n, S, T
    <3> QED BY <1>6, <1>7, <2>1, <2>2, LaidPart
  <2>4. ReadsFrame(f, start)'
    BY <1>3, <1>4, <1>6, <2>3 DEF ReadsFrame
  <2> QED BY <2>4
<1>9. Given(f - 1)'
  <2>1. f - 1 \in Nat
    BY <1>2, <1>6
  <2> QED BY <1>2, <1>4, <2>1, SameGiven
<1> QED BY <1>2, <1>4, <1>8, <1>9

\* A read takes bytes from the wire: the stream is the same.
LEMMA SomeInStep ==
    ASSUME TypeInv, StreamInv, ReadBytes_Some
    PROVE  StreamInv'
<1>2. UNCHANGED <<sent, link, pc, MsgType, MsgSz, ingested, upset>>
  BY DEF ReadBytes_Some, stream
<1>3. got' \o wire' = got \o wire
  BY SomeBytes
<1>4. SUFFICES ASSUME ~upset
               PROVE  \E f \in 1 .. Len(sent) + 1 :
                         Given(f - 1)' /\ \E start : ReadsFrame(f, start)'
  BY <1>2 DEF StreamInv
<1>5. PICK f \in 1 .. Len(sent) + 1 :
         Given(f - 1) /\ \E start : ReadsFrame(f, start)
  BY <1>4 DEF StreamInv
<1>6. f - 1 \in Nat
  BY FrameSizes
<1>7. Given(f - 1)'
  BY <1>2, <1>5, <1>6, SameGiven
<1>8. \E start : ReadsFrame(f, start)'
  BY <1>2, <1>3, <1>5, SamePlace
<1> QED BY <1>7, <1>8

\* SBN has closed the connection, and the frame being read is abandoned.
LEMMA ClosedInStep ==
    ASSUME TypeInv, StreamInv, ReadBytes_Closed
    PROVE  StreamInv'
<1>1. /\ wire = <<>> /\ link = "closed" /\ pc' = "header" /\ got' = <<>>
      /\ UNCHANGED <<sent, link, wire, ingested, upset>>
  BY DEF ReadBytes_Closed, ReadFailed, Finish, stream
<1>2. SUFFICES ASSUME ~upset
               PROVE  \E f \in 1 .. Len(sent) + 1 :
                         Given(f - 1)' /\ \E start : ReadsFrame(f, start)'
  BY <1>1 DEF StreamInv
<1>3. PICK f \in 1 .. Len(sent) + 1 :
         Given(f - 1) /\ \E start : ReadsFrame(f, start)
  BY <1>2 DEF StreamInv
<1>4. PICK start : ReadsFrame(f, start)
  BY <1>3
<1>5. /\ Len(sent) \in Nat /\ FrameSize \in [1 .. Len(sent) -> Nat]
      /\ FrameSize' = FrameSize
  BY <1>1, FrameSizes DEF FrameSize
<1>6. /\ Laid(got \o wire, start, Len(sent), FrameSize, link)
      /\ start \in [1 .. Len(sent) + 1 -> Int]
  BY <1>4 DEF ReadsFrame, Laid
<1>7. Given(f - 1)'
  <2>1. f - 1 \in Nat
    BY <1>5
  <2> QED BY <1>1, <1>3, <2>1, SameGiven
<1>8. \E moved : ReadsFrame(f, moved)'
  <2>1. PICK moved : moved = [g \in 1 .. Len(sent) + 1 |->
                                start[g] - (start[f] - 1)]
    OBVIOUS
  <2>2. /\ moved \in [1 .. Len(sent) + 1 -> Int]
        /\ \A g \in 1 .. Len(sent) + 1 :
              moved[g] = start[g] - (start[f] - 1)
        /\ moved[f] = 1
    BY <1>6, <2>1
  <2>3. Len(got' \o wire') = 0
    BY <1>1
  <2>4. Laid(got' \o wire', moved, Len(sent), FrameSize, "closed")
    BY <1>5, <1>6, <2>2, <2>3, LaidEmpty
  <2>5. ReadsFrame(f, moved)'
    BY <1>1, <1>5, <2>2, <2>4 DEF ReadsFrame
  <2> QED BY <2>5
<1> QED BY <1>7, <1>8

\* A read that is interrupted at the first byte of a frame.
LEMMA BrokenInStep ==
    ASSUME TypeInv, StreamInv, ReadBytes_Broken
    PROVE  StreamInv'
<1>1. SUFFICES ASSUME ~upset'
               PROVE  \E f \in 1 .. Len(sent') + 1 :
                         Given(f - 1)' /\ \E start : ReadsFrame(f, start)'
  BY DEF StreamInv
<1>2. /\ ~upset /\ pc = "header" /\ got = <<>>
      /\ pc' = "header" /\ got' = <<>>
      /\ UNCHANGED <<sent, link, wire, ingested>>
  BY <1>1 DEF ReadBytes_Broken, ReadFailed, Finish, stream, TypeInv, TypeOK
<1>3. PICK f \in 1 .. Len(sent) + 1 :
         Given(f - 1) /\ \E start : ReadsFrame(f, start)
  BY <1>2 DEF StreamInv
<1>4. f - 1 \in Nat
  BY FrameSizes
<1>5. Given(f - 1)'
  BY <1>2, <1>3, <1>4, SameGiven
<1>6. \E start : ReadsFrame(f, start)'
  BY <1>2, <1>3, SamePlace
<1> QED BY <1>2, <1>5, <1>6

\* The bytes read so far are taken off the stream.
LEMMA Taken ==
    ASSUME TypeInv, NEW start,
           Laid(got \o wire, start, Len(sent), FrameSize, link),
           got' = <<>>, UNCHANGED <<sent, wire, link>>
    PROVE  \E moved :
              /\ Laid(got' \o wire', moved, Len(sent'), FrameSize', link')
              /\ \A g \in 1 .. Len(sent) + 1 : moved[g] = start[g] - Len(got)
<1> DEFINE n == Len(sent)
           S == got \o wire
           m == Len(got)
<1>1. /\ got \in Seq(Bytes) /\ wire \in Seq(Bytes) /\ m \in Nat
      /\ Len(wire) \in Nat
  BY DEF TypeInv, TypeOK
<1>2. /\ n \in Nat /\ FrameSize \in [1 .. n -> Nat] /\ Len(S) \in Nat
      /\ FrameSize' = FrameSize
  BY FrameSizes DEF FrameSize
<1>3. got' \o wire' = wire
  BY <1>1
<1>4. /\ m + Len(wire) = Len(S)
      /\ \A i \in 1 .. Len(wire) : wire[i] = S[m + i]
  BY <1>1
<1>5. start \in [1 .. n + 1 -> Int]
  BY DEF Laid
<1>6. PICK moved : moved = [g \in 1 .. n + 1 |-> start[g] - m]
  OBVIOUS
<1>7. /\ moved \in [1 .. n + 1 -> Int]
      /\ \A g \in 1 .. n + 1 : moved[g] = start[g] - m
  BY <1>1, <1>5, <1>6
<1>8. Laid(S, start, n, FrameSize, link)
  OBVIOUS
<1> HIDE DEF n, S, m
<1>9. m + Len(wire) <= Len(S)
  BY <1>2, <1>4
<1>10. Laid(wire, moved, n, FrameSize, link)
  BY <1>1, <1>2, <1>4, <1>7, <1>8, <1>9, LaidPart
<1> QED BY <1>2, <1>3, <1>7, <1>10 DEF n, m

\* In step, a header that was read whole is that of the frame the thread is
\* at, and what it announces is that frame.
LEMMA HeaderRead ==
    ASSUME TypeInv, Bounded, NEW f \in 1 .. Len(sent) + 1, NEW start,
           ReadsFrame(f, start), pc = "header", Complete
    PROVE  f \in 1 .. Len(sent) /\ Announced = {sent[f]} /\ Len(got) = HDR_SZ
<1> DEFINE n == Len(sent)
           S == got \o wire
<1>1. /\ got \in Seq(Bytes) /\ wire \in Seq(Bytes) /\ n \in Nat
      /\ HDR_SZ \in Nat /\ HDR_SZ >= 1 /\ Len(got) \in Nat
  BY FramesAssumption DEF TypeInv, TypeOK
<1>2. Len(got) = HDR_SZ
  BY <1>1 DEF Complete, Unread, Bounded
<1>3. /\ Laid(S, start, n, FrameSize, link) /\ start[f] = 1
  BY DEF ReadsFrame
<1>4. Len(S) \in Nat /\ Len(S) >= HDR_SZ
  BY <1>1, <1>2
<1>5. f \in 1 .. n
  <2>1. Len(S) <= start[n + 1] - 1
    BY <1>3 DEF Laid
  <2>2. CASE f = n + 1
    BY <1>1, <1>3, <1>4, <2>1, <2>2
  <2> QED BY <1>1, <2>2
<1>6. ASSUME NEW k \in 1 .. HDR_SZ
      PROVE  got[k] = <<f, k>>
  <2>1. sent[f].size \in Nat /\ FrameSize[f] = HDR_SZ + sent[f].size
    BY <1>5, FrameSizes
  <2>2. k \in 1 .. FrameSize[f]
    BY <1>1, <2>1
  <2>3. start[f] + k - 1 = k /\ k \in 1 .. Len(S)
    BY <1>1, <1>3, <1>4
  <2>4. S[k] = <<f, k>>
    BY <1>3, <1>5, <2>2, <2>3 DEF Laid
  <2>5. got[k] = S[k]
    BY <1>1, <1>2
  <2> QED BY <2>4, <2>5
<1>7. got = Header(f)
  <2>1. got = [k \in 1 .. HDR_SZ |-> got[k]]
    BY <1>1, <1>2
  <2> QED BY <1>6, <2>1 DEF Header
<1>8. ASSUME NEW g \in 1 .. n, got = Header(g)
      PROVE  g = f
  <2>1. 1 \in 1 .. HDR_SZ
    BY <1>1
  <2>2. Header(g)[1] = <<g, 1>>
    BY <2>1 DEF Header
  <2>3. got[1] = <<f, 1>>
    BY <1>6, <2>1
  <2> QED BY <1>8, <2>2, <2>3
<1>9. {g \in 1 .. n : got = Header(g)} = {f}
  BY <1>5, <1>7, <1>8
<1> QED BY <1>2, <1>5, <1>9 DEF Announced

\* A header is read: the thread goes on with the body it announces, or drops
\* a frame of an unknown type that has none.
LEMMA HeaderInStep ==
    ASSUME TypeInv, Bounded, StreamInv, recv_msg_Header
    PROVE  StreamInv'
<1>1. SUFFICES ASSUME ~upset'
               PROVE  \E f \in 1 .. Len(sent') + 1 :
                         Given(f - 1)' /\ \E start : ReadsFrame(f, start)'
  BY DEF StreamInv
<1>2. PICK frame \in Announced :
         /\ MsgType' = frame.type
         /\ \/ /\ frame.type = "unknown"
               /\ Finish(FALSE)
               /\ upset' = (upset \/ frame.size > 0)
            \/ upset' = TRUE
            \/ /\ pc' = "body" /\ MsgSz' = frame.size /\ got' = <<>>
               /\ UNCHANGED upset
  BY DEF recv_msg_Header
<1>3. pc = "header" /\ Complete /\ UNCHANGED <<sent, link, wire, ingested>>
  BY DEF recv_msg_Header, stream
<1>4. ~upset /\ got' = <<>> /\ upset \in BOOLEAN
  BY <1>1, <1>2 DEF Finish, TypeInv, TypeOK
<1>5. PICK f \in 1 .. Len(sent) + 1 :
         Given(f - 1) /\ \E start : ReadsFrame(f, start)
  BY <1>4 DEF StreamInv
<1>6. PICK start : ReadsFrame(f, start)
  BY <1>5
<1>7. f \in 1 .. Len(sent) /\ frame = sent[f] /\ Len(got) = HDR_SZ
  BY <1>2, <1>3, <1>6, HeaderRead
<1>8. /\ Laid(got \o wire, start, Len(sent), FrameSize, link)
      /\ start \in [1 .. Len(sent) + 1 -> Int] /\ start[f] = 1
      /\ start[f + 1] = start[f] + FrameSize[f]
  BY <1>3, <1>6, <1>7 DEF ReadsFrame, Laid
<1>9. PICK moved :
         /\ Laid(got' \o wire', moved, Len(sent'), FrameSize', link')
         /\ \A g \in 1 .. Len(sent) + 1 : moved[g] = start[g] - Len(got)
  BY <1>3, <1>4, <1>8, Taken
<1>10. /\ Len(sent) \in Nat /\ HDR_SZ \in Nat /\ sent[f].size \in Nat
       /\ FrameSize[f] = HDR_SZ + sent[f].size
  BY <1>7, FrameSizes, FramesAssumption
<1>11. moved[f] = 1 - HDR_SZ /\ moved[f + 1] = 1 + sent[f].size
  <2>1. f \in 1 .. Len(sent) + 1 /\ f + 1 \in 1 .. Len(sent) + 1
    BY <1>7, <1>10
  <2> QED BY <1>7, <1>8, <1>9, <1>10, <2>1
<1>12. Given(f - 1)'
  <2>1. f - 1 \in Nat
    BY <1>10
  <2> QED BY <1>3, <1>5, <2>1, SameGiven
<1>13. CASE pc' = "body" /\ MsgSz' = frame.size
  <2>1. ReadsFrame(f, moved)'
    BY <1>2, <1>3, <1>7, <1>9, <1>11, <1>13 DEF ReadsFrame
  <2> QED BY <1>3, <1>12, <2>1
<1>14. CASE /\ frame.type = "unknown" /\ Finish(FALSE)
            /\ upset' = (upset \/ frame.size > 0)
  <2>1. sent[f].size = 0
    <3>1. ~(frame.size > 0)
      BY <1>1, <1>14
    <3>2. frame.size \in Nat
      BY <1>7, <1>10
    <3>3. frame.size = 0
      BY <3>1, <3>2
    <3> QED BY <1>7, <3>3
  <2>2. ReadsFrame(f + 1, moved)'
    BY <1>9, <1>11, <1>14, <2>1 DEF ReadsFrame, Finish
  <2>3. sent[f].type # "app"
    BY <1>7, <1>14
  <2>4. AppsUpTo(f) = AppsUpTo(f - 1)
    BY <1>7, <2>3, AppsCounted
  <2>5. Given(f)
    BY <1>5, <2>4 DEF Given
  <2>6. Given(f)'
    BY <1>3, <1>7, <2>5, SameGiven
  <2>7. (f + 1) - 1 = f /\ f + 1 \in 1 .. Len(sent') + 1
    BY <1>3, <1>7, <1>10
  <2> QED BY <2>2, <2>6, <2>7
<1> QED BY <1>1, <1>2, <1>13, <1>14

\* In step, a body that was read whole is that of the frame the thread is at.
LEMMA BodyRead ==
    ASSUME TypeInv, NEW f \in 1 .. Len(sent) + 1, NEW start,
           ReadsFrame(f, start), pc = "body", Complete
    PROVE  /\ f \in 1 .. Len(sent) /\ MsgType = sent[f].type
           /\ Len(got) = sent[f].size /\ got = Body(f, sent[f].size)
<1> DEFINE n == Len(sent)
           S == got \o wire
<1>1. /\ got \in Seq(Bytes) /\ wire \in Seq(Bytes) /\ n \in Nat
      /\ HDR_SZ \in Nat /\ Len(got) \in Nat /\ MsgSz \in Nat
  BY FramesAssumption DEF TypeInv, TypeOK
<1>2. /\ Laid(S, start, n, FrameSize, link) /\ start[f] = 1 - HDR_SZ
      /\ f <= n /\ MsgType = sent[f].type /\ MsgSz = sent[f].size
  BY DEF ReadsFrame
<1>3. f \in 1 .. n
  BY <1>1, <1>2
<1>4. Len(got) = sent[f].size /\ sent[f].size \in Nat
  BY <1>1, <1>2 DEF Complete, Unread
<1>5. Len(S) \in Nat /\ Len(S) >= Len(got)
  BY <1>1
<1>6. ASSUME NEW k \in 1 .. sent[f].size
      PROVE  got[k] = <<f, HDR_SZ + k>>
  <2>1. FrameSize[f] = HDR_SZ + sent[f].size
    BY <1>3, FrameSizes
  <2>2. HDR_SZ + k \in 1 .. FrameSize[f]
    BY <1>1, <1>4, <2>1
  <2>3. start[f] + (HDR_SZ + k) - 1 = k /\ k \in 1 .. Len(S)
    BY <1>1, <1>2, <1>4, <1>5
  <2>4. S[k] = <<f, HDR_SZ + k>>
    BY <1>2, <1>3, <2>2, <2>3 DEF Laid
  <2>5. got[k] = S[k]
    BY <1>1, <1>4
  <2> QED BY <2>4, <2>5
<1>7. got = Body(f, sent[f].size)
  <2>1. got = [k \in 1 .. sent[f].size |-> got[k]]
    BY <1>1, <1>4
  <2> QED BY <1>6, <2>1 DEF Body
<1> QED BY <1>2, <1>3, <1>4, <1>7

\* An application message is ingested after those before it.
LEMMA OneMoreGiven ==
    ASSUME TypeInv, NEW f \in 1 .. Len(sent), Given(f - 1),
           UNCHANGED sent,
           IF sent[f].type = "app"
           THEN ingested' = Append(ingested, Body(f, sent[f].size))
           ELSE UNCHANGED ingested
    PROVE  Given(f)'
<1>1. \A n : AppsUpTo(n)' = AppsUpTo(n)
  BY DEF AppsUpTo
<1>2. \A g, n : Body(g, n)' = Body(g, n)
  BY DEF Body
<1>3. CASE sent[f].type # "app"
  <2>1. AppsUpTo(f) = AppsUpTo(f - 1)
    BY <1>3, AppsCounted
  <2>2. Given(f) /\ f \in Nat
    BY <2>1, FrameSizes DEF Given
  <2> QED BY <1>3, <2>2, SameGiven
<1>4. CASE sent[f].type = "app"
  <2> DEFINE m == Len(ingested)
             apps == AppsUpTo(f)
             body == Body(f, sent[f].size)
  <2>1. /\ Cardinality(apps) = Cardinality(AppsUpTo(f - 1)) + 1
        /\ f \in apps /\ AppsUpTo(f - 1) \subseteq apps
    BY <1>4, AppsCounted
  <2>2. m = Cardinality(AppsUpTo(f - 1)) /\ m \in Nat
    BY DEF Given, TypeInv, TypeOK
  <2>3. /\ Len(ingested') = m + 1 /\ DOMAIN ingested' = 1 .. m + 1
        /\ ingested'[m + 1] = body
        /\ \A k \in 1 .. m : k \in DOMAIN ingested
                             /\ ingested'[k] = ingested[k]
    <3>1. ingested \in Seq(Seq(Bytes)) /\ ingested' = Append(ingested, body)
      BY <1>4 DEF TypeInv, TypeOK
    <3> HIDE DEF body
    <3> QED BY <3>1
  <2>4. Len(ingested') = Cardinality(apps)
    BY <2>1, <2>2, <2>3
  <2>5. ASSUME NEW k \in DOMAIN ingested'
        PROVE  \E g \in apps : /\ Cardinality(AppsUpTo(g)) = k
                               /\ ingested'[k] = Body(g, sent[g].size)
    <3>1. CASE k = m + 1
      BY <2>1, <2>2, <2>3, <3>1
    <3>2. CASE k # m + 1
      <4>1. k \in DOMAIN ingested /\ ingested'[k] = ingested[k]
        BY <2>2, <2>3, <3>2
      <4>2. PICK g \in AppsUpTo(f - 1) :
               /\ Cardinality(AppsUpTo(g)) = k
               /\ ingested[k] = Body(g, sent[g].size)
        BY <4>1 DEF Given
      <4> QED BY <2>1, <4>1, <4>2
    <3> QED BY <3>1, <3>2
  <2> QED BY <1>1, <1>2, <2>4, <2>5 DEF Given
<1> QED BY <1>3, <1>4

\* A body is read: the thread is at the first byte of the next frame.
LEMMA BodyInStep ==
    ASSUME TypeInv, StreamInv, recv_msg_Body
    PROVE  StreamInv'
<1>1. /\ pc = "body" /\ Complete /\ pc' = "header" /\ got' = <<>>
      /\ ingested' = IF MsgType = "app" THEN Append(ingested, got)
                     ELSE ingested
      /\ UNCHANGED <<sent, link, wire, upset>>
  BY DEF recv_msg_Body, Finish, stream
<1>2. SUFFICES ASSUME ~upset
               PROVE  \E f \in 1 .. Len(sent') + 1 :
                         Given(f - 1)' /\ \E start : ReadsFrame(f, start)'
  BY <1>1 DEF StreamInv
<1>3. PICK f \in 1 .. Len(sent) + 1 :
         Given(f - 1) /\ \E start : ReadsFrame(f, start)
  BY <1>2 DEF StreamInv
<1>4. PICK start : ReadsFrame(f, start)
  BY <1>3
<1>5. /\ f \in 1 .. Len(sent) /\ MsgType = sent[f].type
      /\ Len(got) = sent[f].size /\ got = Body(f, sent[f].size)
  BY <1>1, <1>4, BodyRead
<1>6. /\ Laid(got \o wire, start, Len(sent), FrameSize, link)
      /\ start \in [1 .. Len(sent) + 1 -> Int] /\ start[f] = 1 - HDR_SZ
      /\ start[f + 1] = start[f] + FrameSize[f]
  BY <1>1, <1>4, <1>5 DEF ReadsFrame, Laid
<1>7. PICK moved :
         /\ Laid(got' \o wire', moved, Len(sent'), FrameSize', link')
         /\ \A g \in 1 .. Len(sent) + 1 : moved[g] = start[g] - Len(got)
  BY <1>1, <1>6, Taken
<1>8. /\ Len(sent) \in Nat /\ HDR_SZ \in Nat /\ sent[f].size \in Nat
      /\ FrameSize[f] = HDR_SZ + sent[f].size
  BY <1>5, FrameSizes, FramesAssumption
<1>9. moved[f + 1] = 1
  <2>1. f + 1 \in 1 .. Len(sent) + 1
    BY <1>5, <1>8
  <2>2. moved[f + 1] = start[f + 1] - sent[f].size
    BY <1>5, <1>7, <2>1
  <2>3. start[f + 1] = 1 - HDR_SZ + (HDR_SZ + sent[f].size)
    BY <1>6, <1>8
  <2> QED BY <1>8, <2>2, <2>3
<1>10. ReadsFrame(f + 1, moved)'
  BY <1>1, <1>7, <1>9 DEF ReadsFrame
<1>11. Given(f)'
  BY <1>1, <1>3, <1>5, OneMoreGiven
<1>12. (f + 1) - 1 = f /\ f + 1 \in 1 .. Len(sent') + 1
  BY <1>1, <1>5, <1>8
<1> QED BY <1>10, <1>11, <1>12

\* Every step keeps the thread's place in the stream.
LEMMA InStepStep ==
    ASSUME TypeInv, Bounded, StreamInv, [Next]_vars
    PROVE  StreamInv'
<1>1. CASE UNCHANGED vars
  <2>1. UNCHANGED <<sent, link, wire, got, pc, MsgType, MsgSz, ingested,
                    upset>>
    BY <1>1 DEF vars, stream
  <2>2. SUFFICES ASSUME ~upset
                 PROVE  \E f \in 1 .. Len(sent) + 1 :
                           Given(f - 1)' /\ \E start : ReadsFrame(f, start)'
    BY <2>1 DEF StreamInv
  <2>3. PICK f \in 1 .. Len(sent) + 1 :
           Given(f - 1) /\ \E start : ReadsFrame(f, start)
    BY <2>2 DEF StreamInv
  <2>4. f - 1 \in Nat
    BY FrameSizes
  <2>5. Given(f - 1)'
    BY <2>1, <2>3, <2>4, SameGiven
  <2>6. \E start : ReadsFrame(f, start)'
    BY <2>1, <2>3, SamePlace
  <2> QED BY <2>5, <2>6
<1>2. ASSUME NEW frame \in Frames, Sbn_Send(frame)
      PROVE  StreamInv'
  BY <1>2, SendInStep
<1>3. CASE Sbn_Close
  BY <1>3, CloseInStep
<1>4. CASE ReadBytes_Some
  BY <1>4, SomeInStep
<1>5. CASE ReadBytes_Closed
  BY <1>5, ClosedInStep
<1>6. CASE ReadBytes_Broken
  BY <1>6, BrokenInStep
<1>7. CASE recv_msg_Header
  BY <1>7, HeaderInStep
<1>8. CASE recv_msg_Body
  BY <1>8, BodyInStep
<1> QED BY <1>1, <1>2, <1>3, <1>4, <1>5, <1>6, <1>7, <1>8
        DEF Next, MinderStep

\* Nothing was sent, and the thread is at the first byte of the first frame.
LEMMA InStepInit == Init => StreamInv
<1>1. SUFFICES ASSUME Init PROVE StreamInv
  OBVIOUS
<1>2. /\ Len(sent) = 0 /\ Len(got \o wire) = 0 /\ Len(ingested) = 0
      /\ DOMAIN ingested = {} /\ pc = "header"
  BY <1>1 DEF Init
<1>3. PICK start : start = [g \in 1 .. 1 |-> 1]
  OBVIOUS
<1>4. ReadsFrame(1, start)
  <2>1. Laid(got \o wire, start, 0, FrameSize, link)
    BY <1>2, <1>3 DEF Laid
  <2> QED BY <1>2, <1>3, <2>1 DEF ReadsFrame
<1>5. Given(0)
  <2>1. AppsUpTo(0) = {}
    BY DEF AppsUpTo
  <2>2. Cardinality(AppsUpTo(0)) = 0
    BY <2>1, FS_EmptySet
  <2> QED BY <1>2, <2>2 DEF Given
<1> QED BY <1>2, <1>4, <1>5 DEF StreamInv

\* From its place in the stream, what the thread has ingested.
LEMMA InStepFollows == TypeInv /\ StreamInv => InStep
<1>1. SUFFICES ASSUME TypeInv, StreamInv, ~upset
               PROVE  /\ \A k \in DOMAIN ingested :
                            \E f \in AppsUpTo(Len(sent)) :
                               /\ Cardinality(AppsUpTo(f)) = k
                               /\ ingested[k] = Body(f, sent[f].size)
                      /\ AtRest /\ link = "up" /\ wire = <<>>
                         => Len(ingested) = Cardinality(AppsUpTo(Len(sent)))
  BY DEF InStep
<1>2. PICK f \in 1 .. Len(sent) + 1 :
         Given(f - 1) /\ \E start : ReadsFrame(f, start)
  BY <1>1 DEF StreamInv
<1>3. PICK start : ReadsFrame(f, start)
  BY <1>2
<1>4. Len(sent) \in Nat
  BY <1>1, FrameSizes
<1>5. AppsUpTo(f - 1) \subseteq AppsUpTo(Len(sent))
  BY <1>4 DEF AppsUpTo
<1>6. ASSUME NEW k \in DOMAIN ingested
      PROVE  \E g \in AppsUpTo(Len(sent)) :
                /\ Cardinality(AppsUpTo(g)) = k
                /\ ingested[k] = Body(g, sent[g].size)
  BY <1>2, <1>5 DEF Given
<1>7. ASSUME AtRest, link = "up", wire = <<>>
      PROVE  Len(ingested) = Cardinality(AppsUpTo(Len(sent)))
  <2>1. /\ Laid(got \o wire, start, Len(sent), FrameSize, link)
        /\ start[f] = 1 /\ Len(got \o wire) = 0
    BY <1>3, <1>7 DEF ReadsFrame, AtRest
  <2>2. /\ start \in [1 .. Len(sent) + 1 -> Int] /\ start[Len(sent) + 1] = 1
        /\ \A g \in 1 .. Len(sent) + 1 : start[g] <= start[Len(sent) + 1]
    BY <1>4, <1>7, <2>1 DEF Laid
  <2>3. f = Len(sent) + 1
    <3>1. SUFFICES ASSUME f \in 1 .. Len(sent) PROVE FALSE
      BY <1>4
    <3>2. /\ start[f + 1] = start[f] + FrameSize[f]
          /\ f + 1 \in 1 .. Len(sent) + 1
      BY <1>4, <2>1, <3>1 DEF Laid
    <3>3. sent[f].size \in Nat /\ FrameSize[f] = HDR_SZ + sent[f].size
      BY <1>1, <3>1, FrameSizes
    <3>4. start[f + 1] <= 1
      BY <2>2, <3>2
    <3> QED BY <2>1, <3>2, <3>3, <3>4, FramesAssumption
  <2> QED BY <1>2, <1>4, <2>3 DEF Given
<1> QED BY <1>6, <1>7

\* Unless a frame of an unknown type or too large came, or a read was
\* interrupted inside a frame, ingest_app_message is given the application
\* messages SBN sent, whole and in order, however the reads cut the stream:
\* for every size of header, body and buffer, and every number of frames.
THEOREM StaysInStep == Spec => []InStep
<1>1. TypeInv /\ Bounded /\ StreamInv /\ [Next]_vars
      => TypeInv' /\ Bounded' /\ StreamInv'
  BY ReceiveStep, InStepStep
<1> QED BY <1>1, ReceiveInit, InStepInit, InStepFollows, PTL DEF Spec

-----------------------------------------------------------------------------
(* The bytes on their way, in order                                        *)

Precedes(a, b) == a[1] < b[1] \/ (a[1] = b[1] /\ a[2] < b[2])

\* The bytes of S are those of the first n frames, in the order of the frames.
InOrder(S, n) ==
    /\ \A i \in 1 .. Len(S) : S[i] \in (1 .. n) \X Nat
    /\ \A i, j \in 1 .. Len(S) : i < j => Precedes(S[i], S[j])

\* Whatever was dropped, no byte overtakes another and none comes twice.
OrderInv == InOrder(got \o wire, Len(sent))

\* What is left of bytes in order is in order.
LEMMA InOrderLeft ==
    ASSUME NEW S, NEW T, NEW m, NEW n, Len(S) \in Nat, Len(T) \in Nat,
           InOrder(S, n), LeftOf(T, m, S)
    PROVE  InOrder(T, n)
<1>1. \A i \in 1 .. Len(T) : m + i \in 1 .. Len(S) /\ T[i] = S[m + i]
  BY DEF LeftOf
<1>2. \A i, j \in 1 .. Len(T) : i < j => m + i < m + j
  BY DEF LeftOf
<1> QED BY <1>1, <1>2 DEF InOrder

\* So is what a frame was added to.
LEMMA InOrderSend ==
    ASSUME NEW S, NEW T, NEW n \in Nat, NEW l \in Nat,
           Len(S) \in Nat, InOrder(S, n),
           Len(T) = Len(S) + l,
           \A i \in 1 .. Len(S) : T[i] = S[i],
           \A k \in 1 .. l : T[Len(S) + k] = <<n + 1, k>>
    PROVE  InOrder(T, n + 1)
<1>1. \A i \in 1 .. Len(T) :
         \/ i \in 1 .. Len(S) /\ T[i] = S[i] /\ S[i] \in (1 .. n) \X Nat
         \/ i - Len(S) \in 1 .. l /\ T[i] = <<n + 1, i - Len(S)>>
  <2> SUFFICES ASSUME NEW i \in 1 .. Len(T), i \notin 1 .. Len(S)
               PROVE  /\ i - Len(S) \in 1 .. l
                      /\ T[i] = <<n + 1, i - Len(S)>>
    BY DEF InOrder
  <2>1. i - Len(S) \in 1 .. l /\ Len(S) + (i - Len(S)) = i
    OBVIOUS
  <2> QED BY <2>1
<1>2. ASSUME NEW i \in 1 .. Len(T)
      PROVE  T[i] \in (1 .. n + 1) \X Nat
  <2>2. CASE i \in 1 .. Len(S)
    <3>1. T[i] \in (1 .. n) \X Nat
      BY <2>2 DEF InOrder
    <3> QED BY <3>1
  <2>3. CASE i \notin 1 .. Len(S)
    <3>1. T[i] = <<n + 1, i - Len(S)>> /\ i - Len(S) \in Nat
      BY <1>1, <2>3
    <3> QED BY <3>1
  <2> QED BY <2>2, <2>3
<1>3. ASSUME NEW i \in 1 .. Len(T), NEW j \in 1 .. Len(T), i < j
      PROVE  Precedes(T[i], T[j])
  <2>1. CASE j \in 1 .. Len(S)
    <3>1. i \in 1 .. Len(S)
      BY <1>3, <2>1
    <3> QED BY <1>3, <2>1, <3>1 DEF InOrder
  <2>2. CASE j \notin 1 .. Len(S) /\ i \in 1 .. Len(S)
    <3>1. T[j][1] = n + 1 /\ T[i][1] \in 1 .. n
      BY <1>1, <2>2
    <3> QED BY <3>1 DEF Precedes
  <2>3. CASE j \notin 1 .. Len(S) /\ i \notin 1 .. Len(S)
    <3>1. T[j] = <<n + 1, j - Len(S)>> /\ T[i] = <<n + 1, i - Len(S)>>
      BY <1>1, <2>3
    <3> QED BY <1>3, <3>1 DEF Precedes
  <2> QED BY <2>1, <2>2, <2>3
<1> QED BY <1>2, <1>3 DEF InOrder

\* No step puts a byte before one that was sent earlier.
LEMMA OrderStep ==
    ASSUME TypeInv, OrderInv, [Next]_vars
    PROVE  OrderInv'
<1>1. CASE UNCHANGED vars
  BY <1>1 DEF OrderInv, vars, stream
<1>2. ASSUME NEW frame \in Frames, Sbn_Send(frame)
      PROVE  OrderInv'
  <2>1. Len(sent') = Len(sent) + 1
    BY <1>2 DEF Sbn_Send, TypeInv, TypeOK
  <2>2. InOrder(got' \o wire', Len(sent) + 1)
    <3>1. HDR_SZ + frame.size \in Nat
      BY <1>2, SentBytes, FramesAssumption
    <3> QED BY <1>2, <3>1, SentBytes, InOrderSend DEF OrderInv
  <2> QED BY <2>1, <2>2 DEF OrderInv
<1>3. CASE Sbn_Close
  <2>1. InOrder(got' \o wire', Len(sent))
    BY <1>3, ClosedBytes, InOrderLeft DEF OrderInv
  <2> QED BY <1>3, <2>1 DEF OrderInv, Sbn_Close
<1>4. CASE ReadBytes_Some
  BY <1>4, SomeBytes DEF OrderInv, ReadBytes_Some, stream
<1>5. ASSUME got' = <<>>, UNCHANGED <<sent, wire>>
      PROVE  OrderInv'
  <2>1. InOrder(got' \o wire', Len(sent))
    BY <1>5, TakenBytes, InOrderLeft DEF OrderInv
  <2> QED BY <1>5, <2>1 DEF OrderInv
<1>6. CASE ReadBytes_Closed \/ ReadBytes_Broken
  BY <1>5, <1>6 DEF ReadBytes_Closed, ReadBytes_Broken, ReadFailed, Finish,
     stream
<1>7. CASE recv_msg_Header \/ recv_msg_Body
  BY <1>5, <1>7 DEF recv_msg_Header, recv_msg_Body, Finish, stream
<1> QED BY <1>1, <1>2, <1>3, <1>4, <1>6, <1>7 DEF Next, MinderStep

\* The byte numbered e of frame f is in S.
Holds(S, f, e) == \E k \in 1 .. Len(S) : S[k] = <<f, e>>

\* A frame that is sent adds its last byte, and none of another frame.
LEMMA HoldsSent ==
    ASSUME NEW S, NEW T, NEW n \in Nat, NEW l \in Nat \ {0},
           Len(S) \in Nat, Len(T) = Len(S) + l,
           \A i \in 1 .. Len(S) : T[i] = S[i],
           \A k \in 1 .. l : T[Len(S) + k] = <<n + 1, k>>
    PROVE  /\ Holds(T, n + 1, l)
           /\ \A f \in 1 .. n : \A e : Holds(T, f, e) <=> Holds(S, f, e)
<1>1. Holds(T, n + 1, l)
  <2>1. l \in 1 .. l /\ Len(S) + l \in 1 .. Len(T)
    OBVIOUS
  <2>2. T[Len(S) + l] = <<n + 1, l>>
    BY <2>1
  <2> QED BY <2>1, <2>2 DEF Holds
<1>2. ASSUME NEW f \in 1 .. n, NEW e
      PROVE  Holds(S, f, e) => Holds(T, f, e)
  <2>1. \A k \in 1 .. Len(S) : k \in 1 .. Len(T)
    OBVIOUS
  <2> QED BY <2>1 DEF Holds
<1>3. ASSUME NEW f \in 1 .. n, NEW e, NEW k \in 1 .. Len(T), T[k] = <<f, e>>
      PROVE  Holds(S, f, e)
  <2>1. CASE k \in 1 .. Len(S)
    BY <1>3, <2>1 DEF Holds
  <2>2. CASE k \notin 1 .. Len(S)
    <3>1. k - Len(S) \in 1 .. l /\ Len(S) + (k - Len(S)) = k
      BY <2>2
    <3>2. T[k] = <<n + 1, k - Len(S)>>
      BY <3>1
    <3>3. f = n + 1
      BY <1>3, <3>2
    <3> QED BY <3>3
  <2> QED BY <2>1, <2>2
<1> QED BY <1>1, <1>2, <1>3 DEF Holds

\* Of what is lost with the connection nothing precedes what is kept.
LEMMA HoldsClosed ==
    ASSUME NEW S, NEW T, NEW n \in Nat, Len(S) \in Nat, Len(T) \in Nat,
           LeftOf(T, 0, S), InOrder(S, n), NEW f \in Nat, NEW e
    PROVE  /\ Holds(T, f, e) => Holds(S, f, e)
           /\ \A g \in Nat : \A d :
                 Holds(T, f, e) /\ Holds(S, g, d) /\ g < f => Holds(T, g, d)
<1>1. \A k \in 1 .. Len(T) : k \in 1 .. Len(S) /\ T[k] = S[k]
  <2> SUFFICES ASSUME NEW k \in 1 .. Len(T)
               PROVE  k \in 1 .. Len(S) /\ T[k] = S[k]
    OBVIOUS
  <2>1. 0 + k = k /\ k \in 1 .. Len(S)
    BY DEF LeftOf
  <2>2. T[k] = S[0 + k]
    BY DEF LeftOf
  <2> QED BY <2>1, <2>2
<1>2. ASSUME NEW g \in Nat, NEW d, g < f,
             NEW k \in 1 .. Len(T), T[k] = <<f, e>>,
             NEW l \in 1 .. Len(S), S[l] = <<g, d>>
      PROVE  Holds(T, g, d)
  <2>1. k \in 1 .. Len(S) /\ S[k] = <<f, e>>
    BY <1>1, <1>2
  <2>2. ~(k < l)
    <3>1. SUFFICES ASSUME k < l PROVE FALSE
      OBVIOUS
    <3>2. Precedes(S[k], S[l])
      BY <2>1, <3>1 DEF InOrder
    <3>3. S[k][1] = f /\ S[l][1] = g
      BY <1>2, <2>1
    <3> QED BY <1>2, <3>2, <3>3 DEF Precedes
  <2>3. l \in 1 .. Len(T)
    BY <2>2
  <2> QED BY <1>1, <1>2, <2>3 DEF Holds
<1> QED BY <1>1, <1>2 DEF Holds

\* A byte that is not among the first m stays when they are taken.
LEMMA HoldsLeft ==
    ASSUME NEW S, NEW T, NEW m, Len(S) \in Nat, Len(T) \in Nat,
           LeftOf(T, m, S), Len(S) = m + Len(T), NEW f, NEW e,
           \A k \in 1 .. m : S[k] # <<f, e>>
    PROVE  Holds(T, f, e) <=> Holds(S, f, e)
<1>1. m \in Nat /\ \A k \in 1 .. Len(T) : m + k \in 1 .. Len(S)
                                          /\ T[k] = S[m + k]
  BY DEF LeftOf
<1>2. Holds(T, f, e) => Holds(S, f, e)
  BY <1>1 DEF Holds
<1>3. ASSUME NEW k \in 1 .. Len(S), S[k] = <<f, e>>
      PROVE  Holds(T, f, e)
  <2>0. k \notin 1 .. m
    BY <1>3
  <2>1. k - m \in 1 .. Len(T) /\ m + (k - m) = k
    BY <1>1, <2>0
  <2>2. T[k - m] = S[k]
    BY <1>1, <2>1
  <2> QED BY <1>3, <2>1, <2>2 DEF Holds
<1> QED BY <1>2, <1>3 DEF Holds

\* When the first m bytes are those of one frame, and the last of them is
\* taken, it is not there any more, and the others are of later frames.
LEMMA HoldsFirst ==
    ASSUME NEW S, NEW T, NEW n \in Nat, NEW m \in Nat \ {0},
           Len(S) \in Nat, Len(T) \in Nat,
           LeftOf(T, m, S), InOrder(S, n), NEW f \in Nat, NEW e \in Nat,
           S[m] = <<f, e>>, \A k \in 1 .. m : S[k][1] = f
    PROVE  /\ ~Holds(T, f, e)
           /\ \A g \in Nat : \A d : Holds(S, g, d) => f <= g
<1>0. m \in 1 .. Len(S)
  BY DEF LeftOf
<1>1. ASSUME NEW k \in 1 .. Len(T), T[k] = <<f, e>>
      PROVE  FALSE
  <2>1. m + k \in 1 .. Len(S) /\ m < m + k /\ T[k] = S[m + k]
    BY DEF LeftOf
  <2>2. Precedes(S[m], S[m + k])
    BY <1>0, <2>1 DEF InOrder
  <2>3. S[m + k] = <<f, e>>
    BY <1>1, <2>1
  <2> QED BY <2>2, <2>3 DEF Precedes
<1>2. ASSUME NEW g \in Nat, NEW d, NEW k \in 1 .. Len(S), S[k] = <<g, d>>
      PROVE  f <= g
  <2>1. CASE k <= m
    <3>1. S[k][1] = f /\ S[k][1] = g
      BY <1>2, <2>1
    <3> QED BY <3>1
  <2>2. CASE m < k
    <3>1. Precedes(S[m], S[k])
      BY <1>0, <2>2 DEF InOrder
    <3> QED BY <1>2, <3>1 DEF Precedes
  <2> QED BY <2>1, <2>2
<1> QED BY <1>1, <1>2 DEF Holds

-----------------------------------------------------------------------------
(* The messages on their way                                               *)

\* Those whose last byte is.
ComingAreHeld ==
    /\ Coming \subseteq 1 .. Len(sent) /\ Len(sent) \in Nat
    /\ \A f \in 1 .. Len(sent) :
          f \in Coming <=> /\ sent[f].type = "app"
                          /\ Holds(got \o wire, f, HDR_SZ + sent[f].size)

LEMMA ComingAre == TypeInv => ComingAreHeld
<1> SUFFICES ASSUME TypeInv PROVE ComingAreHeld
  OBVIOUS
<1>1. got \o wire \in Seq(Bytes) /\ sent \in Seq(Frames)
  BY DEF TypeInv, TypeOK
<1>2. /\ DOMAIN (got \o wire) = 1 .. Len(got \o wire)
      /\ DOMAIN sent = 1 .. Len(sent) /\ Len(sent) \in Nat
  BY <1>1
<1> QED BY <1>2 DEF ComingAreHeld, Coming, Holds

\* The same after a step.
LEMMA ComingWillBe == TypeInv' => ComingAreHeld'
BY ComingAre, PTL

\* A message that is sent is on its way, behind the others.
LEMMA ComingSend ==
    ASSUME TypeInv, TypeInv', NEW frame \in Frames, Sbn_Send(frame)
    PROVE  Coming' = IF frame.type = "app" THEN Coming \cup {Len(sent) + 1}
                     ELSE Coming
<1>1. PICK S, T, n : S = got \o wire /\ T = got' \o wire' /\ n = Len(sent)
  OBVIOUS
<1>2. PICK was, is : was = Coming /\ is = Coming'
  OBVIOUS
<1>3. /\ Len(sent') = n + 1 /\ sent'[n + 1] = frame /\ n \in Nat
      /\ \A f \in 1 .. n : sent'[f] = sent[f]
  BY <1>1 DEF Sbn_Send, TypeInv, TypeOK
<1>4. /\ was \subseteq 1 .. n
      /\ \A f \in 1 .. n : f \in was <=>
            sent[f].type = "app" /\ Holds(S, f, HDR_SZ + sent[f].size)
  BY <1>1, <1>2, ComingAre DEF ComingAreHeld
<1>5. /\ is \subseteq 1 .. n + 1
      /\ \A f \in 1 .. n + 1 : f \in is <=>
            sent'[f].type = "app" /\ Holds(T, f, HDR_SZ + sent'[f].size)
  BY <1>1, <1>2, <1>3, ComingWillBe DEF ComingAreHeld
<1>6. /\ Holds(T, n + 1, HDR_SZ + frame.size)
      /\ \A f \in 1 .. n : \A e : Holds(T, f, e) <=> Holds(S, f, e)
  <2>1. HDR_SZ + frame.size \in Nat \ {0}
    <3>1. frame.size \in Nat
      BY FramesAssumption DEF Frames
    <3> QED BY <3>1, FramesAssumption
  <2>2. /\ Len(S) \in Nat /\ Len(T) = Len(S) + (HDR_SZ + frame.size)
        /\ \A i \in 1 .. Len(S) : T[i] = S[i]
        /\ \A k \in 1 .. HDR_SZ + frame.size : T[Len(S) + k] = <<n + 1, k>>
    BY <1>1, SentBytes
  <2> QED BY <1>3, <2>1, <2>2, HoldsSent
<1>7. n + 1 \in is <=> frame.type = "app"
  BY <1>3, <1>5, <1>6
<1>8. ASSUME NEW f \in 1 .. n
      PROVE  f \in is <=> f \in was
  BY <1>3, <1>4, <1>5, <1>6
<1>9. \A f \in 1 .. n + 1 : f = n + 1 \/ f \in 1 .. n
  BY <1>3
<1>10. is = IF frame.type = "app" THEN was \cup {n + 1} ELSE was
  BY <1>4, <1>5, <1>7, <1>8, <1>9
<1> QED BY <1>1, <1>2, <1>10

\* With the connection the last messages may be lost, and no others.
LEMMA ComingClose ==
    ASSUME TypeInv, TypeInv', OrderInv, Sbn_Close
    PROVE  /\ Coming' \subseteq Coming
           /\ \A f \in Coming', g \in Coming : g < f => g \in Coming'
<1>1. PICK S, T, n : S = got \o wire /\ T = got' \o wire' /\ n = Len(sent)
  OBVIOUS
<1>2. PICK was, is, end :
         /\ was = Coming /\ is = Coming'
         /\ end = [f \in 1 .. n |-> HDR_SZ + sent[f].size]
  OBVIOUS
<1>3. UNCHANGED sent /\ n \in Nat
  BY <1>1 DEF Sbn_Close, TypeInv, TypeOK
<1>4. /\ was \subseteq 1 .. n /\ is \subseteq 1 .. n
      /\ \A f \in 1 .. n : f \in was <=>
            sent[f].type = "app" /\ Holds(S, f, end[f])
      /\ \A f \in 1 .. n : f \in is <=>
            sent[f].type = "app" /\ Holds(T, f, end[f])
  BY <1>1, <1>2, <1>3, ComingAre, ComingWillBe DEF ComingAreHeld
<1>5. /\ Len(S) \in Nat /\ Len(T) \in Nat /\ LeftOf(T, 0, S) /\ InOrder(S, n)
  BY <1>1, ClosedBytes DEF OrderInv
<1>6. \A f \in 1 .. n : f \in Nat
  OBVIOUS
<1>7. is \subseteq was
  <2> SUFFICES ASSUME NEW f \in is PROVE f \in was
    OBVIOUS
  <2>1. f \in 1 .. n /\ f \in Nat /\ Holds(T, f, end[f])
    BY <1>4, <1>6
  <2>2. Holds(S, f, end[f])
    BY <1>3, <1>5, <2>1, HoldsClosed
  <2> QED BY <1>4, <2>1, <2>2
<1>8. ASSUME NEW f \in is, NEW g \in was, g < f
      PROVE  g \in is
  <2>1. /\ f \in Nat /\ Holds(T, f, end[f])
        /\ g \in Nat /\ Holds(S, g, end[g])
    BY <1>4, <1>6
  <2>2. Holds(T, g, end[g])
    BY <1>3, <1>5, <1>8, <2>1, HoldsClosed
  <2> QED BY <1>4, <2>2
<1> QED BY <1>2, <1>7, <1>8

\* A step that drops bytes none of which, but those of f, is the last of a
\* message.
LEMMA ComingDropped ==
    ASSUME TypeInv, TypeInv', got' = <<>>, UNCHANGED <<sent, wire>>, NEW f,
           \A g \in 1 .. Len(sent), k \in 1 .. Len(got) :
              (got \o wire)[k] = <<g, HDR_SZ + sent[g].size>>
              => sent[g].type # "app" \/ g = f
    PROVE  \A g : g # f => (g \in Coming' <=> g \in Coming)
<1>1. PICK S, T, m, n : /\ S = got \o wire /\ T = got' \o wire'
                        /\ m = Len(got) /\ n = Len(sent)
  OBVIOUS
<1>2. PICK was, is, end :
         /\ was = Coming /\ is = Coming'
         /\ end = [g \in 1 .. n |-> HDR_SZ + sent[g].size]
  OBVIOUS
<1>3. /\ was \subseteq 1 .. n /\ is \subseteq 1 .. n
      /\ \A g \in 1 .. n : g \in was <=>
            sent[g].type = "app" /\ Holds(S, g, end[g])
      /\ \A g \in 1 .. n : g \in is <=>
            sent[g].type = "app" /\ Holds(T, g, end[g])
  BY <1>1, <1>2, ComingAre, ComingWillBe DEF ComingAreHeld
<1>4. /\ Len(S) \in Nat /\ Len(T) \in Nat /\ LeftOf(T, m, S)
      /\ Len(S) = m + Len(T)
  <2>1. got \in Seq(Bytes) /\ wire \in Seq(Bytes)
    BY DEF TypeInv, TypeOK
  <2>2. Len(got \o wire) = Len(got) + Len(wire)
    BY <2>1, Joined
  <2>3. Len(T) = Len(wire)
    BY <1>1, TakenBytes
  <2> QED BY <1>1, <2>2, <2>3, TakenBytes
<1>5. \A g \in 1 .. n, k \in 1 .. m :
         S[k] = <<g, end[g]>> => sent[g].type # "app" \/ g = f
  BY <1>1, <1>2
<1>6. ASSUME NEW g \in 1 .. n, g # f
      PROVE  g \in is <=> g \in was
  <2>1. CASE sent[g].type # "app"
    BY <1>3, <2>1
  <2>2. CASE sent[g].type = "app"
    <3>1. \A k \in 1 .. m : S[k] # <<g, end[g]>>
      BY <1>5, <1>6, <2>2
    <3>2. Holds(T, g, end[g]) <=> Holds(S, g, end[g])
      BY <1>4, <3>1, HoldsLeft
    <3> QED BY <1>3, <3>2
  <2> QED BY <2>1, <2>2
<1> QED BY <1>2, <1>3, <1>6

\* An application message has at least one byte.
AppsHaveBodies ==
    \A f \in DOMAIN sent : sent[f].type = "app" => sent[f].size > 0

\* Where the thread is at when it has read some of a frame.
LEMMA PartRead ==
    ASSUME TypeInv, Bounded, NEW f \in 1 .. Len(sent) + 1, NEW start,
           ReadsFrame(f, start), NEW k \in 1 .. Len(got)
    PROVE  /\ f \in 1 .. Len(sent) /\ sent[f].size \in Nat
           /\ (got \o wire)[k] = <<f, IF pc = "header" THEN k ELSE HDR_SZ + k>>
<1>1. PICK S, n, i : /\ S = got \o wire /\ n = Len(sent)
                     /\ i = IF pc = "header" THEN k ELSE HDR_SZ + k
  OBVIOUS
<1>2. /\ got \in Seq(Bytes) /\ wire \in Seq(Bytes) /\ n \in Nat
      /\ HDR_SZ \in Nat /\ HDR_SZ >= 1 /\ Len(got) \in Nat
      /\ pc \in {"header", "body"}
  BY <1>1, FramesAssumption DEF TypeInv, TypeOK
<1>3. Len(S) \in Nat /\ Len(S) >= Len(got)
  <2>1. Len(S) = Len(got) + Len(wire) /\ Len(wire) \in Nat
    BY <1>1, <1>2, Joined
  <2> QED BY <1>2, <2>1
<1>4. /\ Laid(S, start, n, FrameSize, link) /\ Len(S) <= start[n + 1] - 1
      /\ start \in [1 .. n + 1 -> Int]
      /\ pc = "header" => start[f] = 1
      /\ pc = "body" => /\ f <= n /\ start[f] = 1 - HDR_SZ
                        /\ MsgSz = sent[f].size
  BY <1>1 DEF ReadsFrame, Laid
<1>5. f \in 1 .. n
  <2>1. CASE f = n + 1
    <3>1. pc = "header" /\ start[n + 1] = 1
      BY <1>2, <1>4, <2>1
    <3> QED BY <1>2, <1>3, <1>4, <3>1
  <2>2. CASE f # n + 1
    BY <1>1, <1>2, <2>2
  <2> QED BY <2>1, <2>2
<1>6. sent[f].size \in Nat /\ FrameSize[f] = HDR_SZ + sent[f].size
  BY <1>1, <1>5, FrameSizes
<1>7. Len(got) <= MsgSz /\ (pc = "header" => MsgSz = HDR_SZ)
  BY DEF Bounded
<1>8. i \in 1 .. FrameSize[f] /\ start[f] + i - 1 = k /\ k \in 1 .. Len(S)
  BY <1>1, <1>2, <1>3, <1>4, <1>6, <1>7
<1>9. S[start[f] + i - 1] = <<f, i>>
  BY <1>4, <1>5, <1>8 DEF Laid
<1> QED BY <1>1, <1>5, <1>6, <1>8, <1>9

\* What is read of a message before its last byte, or of another frame, is
\* the last byte of none.
LEMMA ComingRead ==
    ASSUME TypeInv, TypeInv', Bounded, StreamInv, AppsHaveBodies, ~upset',
           ReadBytes_Some \/ ReadBytes_Closed \/ ReadBytes_Broken
           \/ recv_msg_Header
    PROVE  Coming' = Coming
<1>1. CASE ReadBytes_Some
  BY <1>1, SomeBytes DEF Coming, ReadBytes_Some, stream
<1>2. CASE ReadBytes_Broken
  <2>1. /\ got = <<>> /\ got' = <<>>
        /\ UNCHANGED <<sent, wire>>
    BY <1>2 DEF ReadBytes_Broken, ReadFailed, Finish, stream, TypeInv, TypeOK
  <2> QED BY <2>1 DEF Coming
<1>3. CASE ReadBytes_Closed \/ recv_msg_Header
  <2>1. /\ ~upset /\ got' = <<>> /\ UNCHANGED <<sent, wire>>
        /\ pc = "header" \/ Reading
    BY <1>3 DEF ReadBytes_Closed, recv_msg_Header, ReadFailed, Finish, stream,
       TypeInv, TypeOK
  <2>2. PICK f \in 1 .. Len(sent) + 1 : \E start : ReadsFrame(f, start)
    BY <2>1 DEF StreamInv
  <2>3. PICK start : ReadsFrame(f, start)
    BY <2>2
  <2>4. PICK S, n : S = got \o wire /\ n = Len(sent)
    OBVIOUS
  <2>5. ASSUME NEW g \in 1 .. n, NEW k \in 1 .. Len(got),
               S[k] = <<g, HDR_SZ + sent[g].size>>
        PROVE  sent[g].type # "app"
    <3>1. PICK z : z = sent[g].size
      OBVIOUS
    <3>2. /\ g = f /\ z \in Nat
          /\ HDR_SZ + z = IF pc = "header" THEN k ELSE HDR_SZ + k
      <4>1. /\ f \in 1 .. Len(sent) /\ sent[f].size \in Nat
            /\ S[k] = <<f, IF pc = "header" THEN k ELSE HDR_SZ + k>>
        BY <2>3, <2>4, PartRead
      <4> QED BY <2>5, <3>1, <4>1
    <3>3. /\ HDR_SZ \in Nat /\ Len(got) \in Nat /\ MsgSz \in Nat
          /\ pc \in {"header", "body"} /\ Len(got) <= MsgSz
          /\ pc = "header" => MsgSz = HDR_SZ
          /\ pc = "body" => MsgSz = z
      <4>1. /\ HDR_SZ \in Nat /\ got \in Seq(Bytes) /\ MsgSz \in Nat
            /\ pc \in {"header", "body"}
        BY FramesAssumption DEF TypeInv, TypeOK
      <4>2. Len(got) <= MsgSz /\ (pc = "header" => MsgSz = HDR_SZ)
        BY DEF Bounded
      <4>3. pc = "body" => MsgSz = z
        BY <2>3, <3>1, <3>2 DEF ReadsFrame
      <4>4. Len(got) \in Nat
        BY <4>1
      <4> QED BY <4>1, <4>2, <4>3, <4>4
    <3>4. pc # "header" => Len(got) # MsgSz
      BY <2>1, <3>3 DEF Reading, Complete, Unread
    <3>5. z = 0
      BY <3>2, <3>3, <3>4
    <3>6. DOMAIN sent = 1 .. n
      BY <2>4 DEF TypeInv, TypeOK
    <3>7. g \in DOMAIN sent /\ ~(sent[g].size > 0)
      BY <3>1, <3>5, <3>6
    <3> QED BY <3>7 DEF AppsHaveBodies
  <2>6. \A g : g # 0 => (g \in Coming' <=> g \in Coming)
    BY <2>1, <2>4, <2>5, ComingDropped
  <2>7. 0 \notin Coming /\ 0 \notin Coming'
    <3>1. Coming \subseteq 1 .. n /\ Coming' \subseteq 1 .. n /\ n \in Nat
      BY <2>1, <2>4, ComingAre, ComingWillBe DEF ComingAreHeld
    <3> QED BY <3>1
  <2> QED BY <2>6, <2>7
<1> QED BY <1>1, <1>2, <1>3

\* A body read whole is that of the first message on its way, or of a frame of
\* another type.
LEMMA ComingBody ==
    ASSUME TypeInv, TypeInv', Bounded, StreamInv, OrderInv, AppsHaveBodies,
           ~upset, recv_msg_Body
    PROVE  \E f \in 1 .. Len(sent) :
              /\ MsgType = sent[f].type /\ got = Body(f, sent[f].size)
              /\ MsgType # "app" => Coming' = Coming
              /\ MsgType = "app" =>
                    /\ f \in Coming /\ Coming' = Coming \ {f}
                    /\ \A g \in Coming : f <= g
                    /\ \A g \in 1 .. Len(sent) :
                          got = Body(g, sent[g].size) => g = f
<1>1. /\ pc = "body" /\ Complete /\ got' = <<>>
      /\ UNCHANGED <<sent, wire>>
  BY DEF recv_msg_Body, Finish, stream
<1>2. PICK f \in 1 .. Len(sent) + 1 : \E start : ReadsFrame(f, start)
  BY DEF StreamInv
<1>3. PICK start : ReadsFrame(f, start)
  BY <1>2
<1>4. /\ f \in 1 .. Len(sent) /\ MsgType = sent[f].type
      /\ Len(got) = sent[f].size /\ got = Body(f, sent[f].size)
  BY <1>1, <1>3, BodyRead
<1>5. PICK S, T, m, n : /\ S = got \o wire /\ T = got' \o wire'
                        /\ m = Len(got) /\ n = Len(sent)
  OBVIOUS
<1>6. PICK was, is, end :
         /\ was = Coming /\ is = Coming'
         /\ end = [g \in 1 .. n |-> HDR_SZ + sent[g].size]
  OBVIOUS
<1>7. /\ was \subseteq 1 .. n /\ is \subseteq 1 .. n
      /\ \A g \in 1 .. n : g \in was <=>
            sent[g].type = "app" /\ Holds(S, g, end[g])
      /\ \A g \in 1 .. n : g \in is <=>
            sent[g].type = "app" /\ Holds(T, g, end[g])
  BY <1>1, <1>5, <1>6, ComingAre, ComingWillBe DEF ComingAreHeld
<1>8. /\ Len(S) \in Nat /\ Len(T) \in Nat /\ LeftOf(T, m, S) /\ InOrder(S, n)
      /\ m \in Nat /\ n \in Nat /\ HDR_SZ \in Nat
      /\ m <= Len(S) /\ DOMAIN sent = 1 .. n
  <2>1. m \in Nat /\ n \in Nat /\ DOMAIN sent = 1 .. n
    <3>1. got \in Seq(Bytes) /\ sent \in Seq(Frames)
      BY DEF TypeInv, TypeOK
    <3> QED BY <1>5, <3>1
  <2>2. Len(S) \in Nat /\ Len(T) \in Nat /\ LeftOf(T, m, S)
    BY <1>1, <1>5, TakenBytes
  <2>3. m <= Len(S)
    BY <2>1, <2>2 DEF LeftOf
  <2> QED BY <1>5, <2>1, <2>2, <2>3, FramesAssumption DEF OrderInv
<1>9. \A k \in 1 .. m : S[k] = <<f, HDR_SZ + k>>
  BY <1>1, <1>3, <1>5, PartRead
<1>10. \A g : g # f => (g \in is <=> g \in was)
  <2>1. \A g \in 1 .. Len(sent), k \in 1 .. Len(got) :
           (got \o wire)[k] = <<g, HDR_SZ + sent[g].size>>
           => sent[g].type # "app" \/ g = f
    BY <1>5, <1>9
  <2> QED BY <1>1, <1>6, <2>1, ComingDropped
<1>11. ASSUME MsgType # "app"
       PROVE  is = was
  <2>1. f \notin is /\ f \notin was
    BY <1>4, <1>5, <1>7, <1>11
  <2> QED BY <1>10, <2>1
<1>12. ASSUME MsgType = "app"
       PROVE  /\ f \in was /\ is = was \ {f}
              /\ \A g \in was : f <= g
              /\ \A g \in 1 .. n : got = Body(g, sent[g].size) => g = f
  <2>1. m = sent[f].size /\ m \in Nat \ {0} /\ f \in 1 .. n
        /\ end[f] = HDR_SZ + m
    <3>1. m = sent[f].size /\ f \in 1 .. n /\ sent[f].type = "app"
      BY <1>4, <1>5, <1>12
    <3>2. m > 0
      BY <1>8, <3>1 DEF AppsHaveBodies
    <3> QED BY <1>6, <1>8, <3>1, <3>2
  <2>2. S[m] = <<f, HDR_SZ + m>> /\ m \in 1 .. Len(S)
    <3>1. m \in 1 .. m /\ m \in 1 .. Len(S)
      BY <1>8, <2>1
    <3> QED BY <1>9, <3>1
  <2>3. f \in was
    BY <1>4, <1>7, <1>12, <2>1, <2>2 DEF Holds
  <2>4. \A k \in 1 .. m : S[k][1] = f
    BY <1>9
  <2>5. /\ ~Holds(T, f, HDR_SZ + m)
        /\ \A g \in Nat : \A d : Holds(S, g, d) => f <= g
    <3>1. f \in Nat /\ HDR_SZ + m \in Nat
      BY <1>8, <2>1
    <3> QED BY <1>8, <2>1, <2>2, <2>4, <3>1, HoldsFirst
  <2>6. is = was \ {f}
    BY <1>7, <1>10, <2>1, <2>3, <2>5
  <2>7. \A g \in was : f <= g
    <3>1. \A g \in was : g \in Nat /\ Holds(S, g, end[g])
      BY <1>7, <1>8
    <3> QED BY <2>5, <3>1
  <2>8. ASSUME NEW g \in 1 .. n, got = Body(g, sent[g].size)
        PROVE  g = f
    <3>1. PICK z : z = sent[g].size /\ z \in Nat
      BY <1>5, FrameSizes
    <3>2. Len(Body(g, z)) = z
      BY <3>1 DEF Body
    <3>3. z = m
      BY <1>5, <2>8, <3>1, <3>2
    <3>4. /\ Body(g, z)[1] = <<g, HDR_SZ + 1>>
          /\ Body(f, m)[1] = <<f, HDR_SZ + 1>>
      BY <2>1, <3>3 DEF Body
    <3> QED BY <1>4, <2>1, <2>8, <3>1, <3>3, <3>4
  <2> QED BY <2>3, <2>6, <2>7, <2>8
<1> QED BY <1>4, <1>5, <1>6, <1>11, <1>12

-----------------------------------------------------------------------------

\* What holds of the thread and the stream at any time.
ReadInv == TypeInv /\ Bounded /\ StreamInv /\ OrderInv

\* Every step keeps it.
LEMMA ReadStep ==
    ASSUME ReadInv, [Next]_vars
    PROVE  ReadInv'
BY ReceiveStep, InStepStep, OrderStep DEF ReadInv

\* It holds before anything was sent.
LEMMA ReadInit == Init => ReadInv
<1>1. Init => OrderInv
  BY DEF Init, OrderInv, InOrder
<1> QED BY <1>1, ReceiveInit, InStepInit DEF ReadInv

\* It holds whatever SBN sends and however it is read.
LEMMA AlwaysReads == Spec => []ReadInv
BY ReadInit, ReadStep, PTL DEF Spec
=============================================================================
