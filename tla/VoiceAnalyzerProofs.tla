------------------------- MODULE VoiceAnalyzerProofs -------------------------
(***************************************************************************)
(* What the theorems on the analyzer's users need of VoiceAnalyzer, for    *)
(* any frame and window length: how audio falls into frames, what one turn *)
(* of the loop of push_pcm does to the buffers and the gate, and how the   *)
(* loops unfold.                                                           *)
(*                                                                         *)
(* The loops are recursive functions.  That the function each of them      *)
(* defines exists, and what it computes for inputs of any length, is shown *)
(* with GeneralLemmas!Induction.                                           *)
(***************************************************************************)
EXTENDS VoiceAnalyzer, GeneralLemmas

(***************************************************************************)
(* The loops unfold.                                                       *)
(***************************************************************************)

\* The loop of push_pcm: where it starts, and one turn after another.
LEMMA TurnsUnfold ==
  ASSUME NEW a, NEW frames, NEW timestamp_ms, Len(frames) \in Nat
  PROVE  /\ Turns(a, frames, timestamp_ms)[0] = Begun(a, timestamp_ms)
         /\ \A i \in 1 .. Len(frames) :
                Turns(a, frames, timestamp_ms)[i]
                    = TakeFrame(Turns(a, frames, timestamp_ms)[i - 1], frames[i], timestamp_ms)
  <1> DEFINE Is(g, n) == g = [i \in 0 .. n |-> IF i = 0 THEN Begun(a, timestamp_ms)
                                               ELSE TakeFrame(g[i - 1], frames[i], timestamp_ms)]
             S == {n \in Nat : \E g : Is(g, n)}
  <1>1. 0 \in S
    <2> DEFINE g == [i \in 0 .. 0 |-> Begun(a, timestamp_ms)]
    <2>1. Is(g, 0)
      OBVIOUS
    <2> QED
      BY <2>1
  <1>2. ASSUME NEW n \in Nat, n \in S
        PROVE  n + 1 \in S
    <2>1. PICK g : Is(g, n)
      BY <1>2
    <2> DEFINE h == [i \in 0 .. n + 1 |-> IF i = n + 1
                                          THEN TakeFrame(g[n], frames[n + 1], timestamp_ms)
                                          ELSE g[i]]
    <2>2. \A i \in 0 .. n : h[i] = g[i]
      OBVIOUS
    <2>3. h = [i \in 0 .. n + 1 |-> IF i = 0 THEN Begun(a, timestamp_ms)
                                    ELSE TakeFrame(h[i - 1], frames[i], timestamp_ms)]
      BY <2>1, <2>2
    <2>4. Is(h, n + 1)
      BY <2>3, Zenon
    <2>5. \E f : Is(f, n + 1)
      <3> HIDE DEF Is, h
      <3> QED
        BY <2>4
    <2> HIDE DEF Is
    <2> QED
      BY <2>5
  <1>3. Len(frames) \in S
    <2> HIDE DEF S
    <2> QED
      BY <1>1, <1>2, Induction
  <1>4. \E g : Is(g, Len(frames))
    BY <1>3
  <1>5. Turns(a, frames, timestamp_ms) = CHOOSE g : Is(g, Len(frames))
    BY DEF Turns
  <1>6. Is(Turns(a, frames, timestamp_ms), Len(frames))
    BY <1>4, <1>5
  <1> QED
    BY <1>6

\* The sweep over the windows of a batch, window after window.
LEMMA SweepUnfolds ==
  ASSUME NEW windows, Len(windows) \in Nat
  PROVE  /\ Sweep(windows)[0] = [segments |-> << >>, seg_start |-> NoSegment]
         /\ \A i \in 1 .. Len(windows) :
                Sweep(windows)[i] = SegmentStep(Sweep(windows)[i - 1], windows[i])
  <1> DEFINE start == [segments |-> << >>, seg_start |-> NoSegment]
             Is(g, n) == g = [i \in 0 .. n |-> IF i = 0 THEN start
                                               ELSE SegmentStep(g[i - 1], windows[i])]
             S == {n \in Nat : \E g : Is(g, n)}
  <1>5. Sweep(windows) = CHOOSE g : Is(g, Len(windows))
    BY DEF Sweep
  <1> HIDE DEF start
  <1>1. 0 \in S
    <2> DEFINE g == [i \in 0 .. 0 |-> start]
    <2>1. Is(g, 0)
      OBVIOUS
    <2> QED
      BY <2>1
  <1>2. ASSUME NEW n \in Nat, n \in S
        PROVE  n + 1 \in S
    <2>1. PICK g : Is(g, n)
      BY <1>2
    <2> DEFINE h == [i \in 0 .. n + 1 |-> IF i = n + 1 THEN SegmentStep(g[n], windows[n + 1])
                                          ELSE g[i]]
    <2>2. \A i \in 0 .. n : h[i] = g[i]
      OBVIOUS
    <2>3. h = [i \in 0 .. n + 1 |-> IF i = 0 THEN start
                                    ELSE SegmentStep(h[i - 1], windows[i])]
      BY <2>1, <2>2
    <2>4. Is(h, n + 1)
      BY <2>3, Zenon
    <2>5. \E f : Is(f, n + 1)
      <3> HIDE DEF Is, h
      <3> QED
        BY <2>4
    <2> HIDE DEF Is
    <2> QED
      BY <2>5
  <1>3. Len(windows) \in S
    <2> HIDE DEF S
    <2> QED
      BY <1>1, <1>2, Induction
  <1>4. \E g : Is(g, Len(windows))
    BY <1>3
  <1>6. Is(Sweep(windows), Len(windows))
    BY <1>4, <1>5
  <1> QED
    BY <1>6 DEF start

\* The batch, frame after frame.
LEMMA BatchUnfolds ==
  ASSUME NEW frames, NEW sample_rate, Len(frames) \in Nat
  PROVE  /\ BatchTurns(frames, sample_rate)[0]
                = [analyzer |-> NewAnalyzer(sample_rate), windows |-> << >>]
         /\ \A i \in 1 .. Len(frames) :
                BatchTurns(frames, sample_rate)[i]
                    = Collect(BatchTurns(frames, sample_rate)[i - 1], frames[i],
                              (i - 1) * FrameMs)
  <1> DEFINE start == [analyzer |-> NewAnalyzer(sample_rate), windows |-> << >>]
             Is(g, n) == g = [i \in 0 .. n |-> IF i = 0 THEN start
                                               ELSE Collect(g[i - 1], frames[i],
                                                            (i - 1) * FrameMs)]
             S == {n \in Nat : \E g : Is(g, n)}
  <1>5. BatchTurns(frames, sample_rate) = CHOOSE g : Is(g, Len(frames))
    BY DEF BatchTurns
  <1> HIDE DEF start
  <1>1. 0 \in S
    <2> DEFINE g == [i \in 0 .. 0 |-> start]
    <2>1. Is(g, 0)
      OBVIOUS
    <2> QED
      BY <2>1
  <1>2. ASSUME NEW n \in Nat, n \in S
        PROVE  n + 1 \in S
    <2>1. PICK g : Is(g, n)
      BY <1>2
    <2> DEFINE h == [i \in 0 .. n + 1 |-> IF i = n + 1
                                          THEN Collect(g[n], frames[n + 1], n * FrameMs)
                                          ELSE g[i]]
    <2>2. \A i \in 0 .. n : h[i] = g[i]
      OBVIOUS
    <2>3. h = [i \in 0 .. n + 1 |-> IF i = 0 THEN start
                                    ELSE Collect(h[i - 1], frames[i], (i - 1) * FrameMs)]
      <3>1. n + 1 - 1 = n
        OBVIOUS
      <3> QED
        BY <2>1, <2>2, <3>1
    <2>4. Is(h, n + 1)
      BY <2>3, Zenon
    <2>5. \E f : Is(f, n + 1)
      <3> HIDE DEF Is, h
      <3> QED
        BY <2>4
    <2> HIDE DEF Is
    <2> QED
      BY <2>5
  <1>3. Len(frames) \in S
    <2> HIDE DEF S
    <2> QED
      BY <1>1, <1>2, Induction
  <1>4. \E g : Is(g, Len(frames))
    BY <1>3
  <1>6. Is(BatchTurns(frames, sample_rate), Len(frames))
    BY <1>4, <1>5
  <1> QED
    BY <1>6 DEF start
-----------------------------------------------------------------------------
(***************************************************************************)
(* Audio in frames.                                                        *)
(***************************************************************************)

\* The lesser of two numbers.
LEMMA MinOfTwo ==
  ASSUME NEW x \in Int, NEW y \in Int
  PROVE  Min({x, y}) = IF x <= y THEN x ELSE y
  BY DEF Min

\* A frame is a whole number of blocks, and at least one.
LEMMA FrameBlocksType ==
  ASSUME NEW sample_rate \in {50, 100}
  PROVE  /\ FrameBlocks(sample_rate) \in Nat \ {0}
         /\ sample_rate = 50 => FrameMs = FrameBlocks(sample_rate) * 20
         /\ sample_rate = 100 => FrameMs = FrameBlocks(sample_rate) * 10
  <1> DEFINE k == FrameMs \div 20
             thousand == 1000
  <1>1. k \in Int /\ FrameMs = k * 20 /\ k > 0
    BY AnalyzerAssumption, DivMod
  <1>2. thousand \in Nat \ {0} /\ thousand = 1000
    OBVIOUS
  <1> HIDE DEF k, thousand
  <1>3. CASE sample_rate = 50
    <2>1. k * thousand = sample_rate * FrameMs
      BY <1>1, <1>2, <1>3
    <2>2. (sample_rate * FrameMs) \div thousand = k
      BY <1>1, <1>2, <2>1, QuotientIsUnique
    <2> QED
      BY <1>1, <1>2, <1>3, <2>2 DEF FrameBlocks
  <1>4. CASE sample_rate = 100
    <2>1. (2 * k) * thousand = sample_rate * FrameMs
      BY <1>1, <1>2, <1>4
    <2>2. (sample_rate * FrameMs) \div thousand = 2 * k
      BY <1>1, <1>2, <2>1, QuotientIsUnique
    <2> QED
      BY <1>1, <1>2, <1>4, <2>2 DEF FrameBlocks
  <1> QED
    BY <1>3, <1>4

\* how many frames a length makes, what lies between two positions, the i-th frame
FrameCount(length, n) == (length + n - 1) \div n
Stretch(samples, from, to) == SubSeq(samples, from + 1, Min({to, Len(samples)}))
FrameAt(samples, n, i) == Stretch(samples, (i - 1) * n, i * n)

\* Rounding up.
LEMMA FrameCountType ==
  ASSUME NEW n \in Nat \ {0}, NEW length \in Nat
  PROVE  /\ FrameCount(length, n) \in Nat
         /\ length <= FrameCount(length, n) * n
         /\ FrameCount(length, n) * n < length + n
         /\ \A p \in Nat : length <= p * n /\ p * n < length + n => FrameCount(length, n) = p
  <1> DEFINE x == length + n - 1
             q == x \div n
             r == x % n
  <1>1. q \in Int /\ r \in 0 .. n - 1 /\ x = q * n + r /\ x \in Int
    BY DivMod
  <1>2. \A p \in Nat : length <= p * n /\ p * n < length + n => q = p
    <2> SUFFICES ASSUME NEW p \in Nat, length <= p * n, p * n < length + n
                 PROVE  q = p
      OBVIOUS
    <2>1. p * n <= x /\ x < p * n + n /\ p \in Int
      OBVIOUS
    <2> HIDE DEF x
    <2> QED
      BY <1>1, <2>1, QuotientIsUnique
  <1> HIDE DEF q, r
  <1>3. q >= 0
    <2>1. q < 0 => q + 1 <= 0 /\ (q + 1) * n = q * n + n
      BY <1>1
    <2>2. q + 1 <= 0 => (q + 1) * n <= 0
      BY <1>1
    <2> QED
      BY <1>1, <2>1, <2>2
  <1> QED
    BY <1>1, <1>2, <1>3 DEF FrameCount, q

\* A stretch that starts inside a recording has something of it.
LEMMA StretchType ==
  ASSUME NEW samples \in Seq(Blocks), NEW from \in Nat, NEW to \in Nat,
         from < to, from < Len(samples)
  PROVE  /\ Stretch(samples, from, to) \in Seq(Blocks)
         /\ Len(Stretch(samples, from, to)) \in 1 .. to - from
  <1> DEFINE l == Len(samples)
             e == Min({to, l})
  <1>1. l \in Nat /\ from < l
    BY LenProperties
  <1> HIDE DEF l
  <1>2. e = IF to <= l THEN to ELSE l
    BY <1>1, MinOfTwo
  <1>3. from + 1 \in 1 .. l /\ e \in from + 1 .. l /\ e - (from + 1) + 1 \in 1 .. to - from
    BY <1>1, <1>2
  <1>4. Stretch(samples, from, to) = SubSeq(samples, from + 1, e)
    BY DEF Stretch, e, l
  <1> HIDE DEF e
  <1>5. \A j \in from + 1 .. e : samples[j] \in Blocks
    BY <1>1, <1>3, ElementOfSeq DEF l
  <1>6. /\ SubSeq(samples, from + 1, e) \in Seq(Blocks)
        /\ Len(SubSeq(samples, from + 1, e)) = e - (from + 1) + 1
    BY <1>1, <1>3, <1>5, SubSeqProperties
  <1> QED
    BY <1>3, <1>4, <1>6

\* The first of two recordings in a row ..
LEMMA StretchOfFirst ==
  ASSUME NEW s \in Seq(Blocks), NEW t \in Seq(Blocks), NEW from \in Nat, NEW to \in Nat,
         from < to, to <= Len(s)
  PROVE  Stretch(s \o t, from, to) = Stretch(s, from, to)
  <1>1. Len(s) \in Nat /\ Len(t) \in Nat /\ Len(s \o t) = Len(s) + Len(t)
    BY LenProperties, ConcatProperties
  <1>2. Min({to, Len(s)}) = to
    BY <1>1, MinOfTwo
  <1>3. Min({to, Len(s \o t)}) = to
    BY <1>1, MinOfTwo
  <1>4. from + 1 \in 1 .. Len(s) /\ to \in 1 .. Len(s)
    BY <1>1
  <1>5. SubSeq(s \o t, from + 1, to) = SubSeq(s, from + 1, to)
    BY <1>4, SubSeqOfConcat1
  <1> QED
    BY <1>2, <1>3, <1>5 DEF Stretch

\* .. and the second.
LEMMA StretchOfSecond ==
  ASSUME NEW s \in Seq(Blocks), NEW t \in Seq(Blocks), NEW from \in Nat, NEW to \in Nat,
         from < to, from < Len(t)
  PROVE  Stretch(s \o t, Len(s) + from, Len(s) + to) = Stretch(t, from, to)
  <1> DEFINE k == Len(s)
             l == Len(t)
             e == Min({to, l})
             h == Min({k + to, k + l})
  <1>1. k \in Nat /\ l \in Nat /\ Len(s \o t) = k + l /\ from < l
    BY LenProperties, ConcatProperties
  <1>2. Stretch(t, from, to) = SubSeq(t, from + 1, e)
    BY DEF Stretch
  <1>3. Stretch(s \o t, k + from, k + to) = SubSeq(s \o t, k + from + 1, h)
    BY <1>1 DEF Stretch
  <1> HIDE DEF k, l
  <1>4. e = IF to <= l THEN to ELSE l
    BY <1>1, MinOfTwo
  <1>5. k + to \in Int /\ k + l \in Int
    BY <1>1
  <1>6. h = IF k + to <= k + l THEN k + to ELSE k + l
    BY <1>5, MinOfTwo
  <1> HIDE DEF e, h
  <1>7. h = k + e /\ e \in 1 .. l
    BY <1>1, <1>4, <1>6
  <1> DEFINE x == k + from + 1
  <1>8. /\ x \in k + 1 .. k + l /\ h \in k + 1 .. k + l
        /\ x - k = from + 1 /\ h - k = e
    BY <1>1, <1>7
  <1> HIDE DEF x
  <1>9. SubSeq(s \o t, x, h) = SubSeq(t, x - k, h - k)
    BY <1>8, SubSeqOfConcat2 DEF k, l
  <1> QED
    BY <1>2, <1>3, <1>8, <1>9 DEF x, k

\* fs are the frames of samples: as many as it takes, each of at least one block
AreFrames(fs, samples, n) ==
    /\ fs \in Seq(Seq(Blocks))
    /\ Len(fs) = FrameCount(Len(samples), n)
    /\ \A i \in 1 .. Len(fs) : fs[i] = FrameAt(samples, n, i) /\ Len(fs[i]) \in 1 .. n

\* The frames of a recording: how many there are and how long each of them is.
LEMMA FramesType ==
  ASSUME NEW sample_rate \in {50, 100}, NEW samples \in Seq(Blocks)
  PROVE  AreFrames(Frames(samples, sample_rate), samples, FrameBlocks(sample_rate))
  <1> DEFINE n == FrameBlocks(sample_rate)
             c == FrameCount(Len(samples), n)
  <1>1. n \in Nat \ {0} /\ Len(samples) \in Nat
    BY FrameBlocksType, LenProperties
  <1>2. Frames(samples, sample_rate) = [i \in 1 .. c |-> FrameAt(samples, n, i)]
    BY DEF Frames, FrameCount, FrameAt, Stretch
  <1> HIDE DEF n
  <1>3. c \in Nat /\ Len(samples) <= c * n /\ c * n < Len(samples) + n
    BY <1>1, FrameCountType
  <1> HIDE DEF c
  <1>4. ASSUME NEW i \in 1 .. c
        PROVE  FrameAt(samples, n, i) \in Seq(Blocks) /\ Len(FrameAt(samples, n, i)) \in 1 .. n
    <2> DEFINE b == (i - 1) * n
               e == i * n
    <2>1. b \in Int /\ e \in Int /\ b >= 0 /\ e = b + n
      BY <1>1, <1>3
    <2>2. e <= c * n /\ c * n \in Int
      BY <1>1, <1>3
    <2> HIDE DEF b, e
    <2>3. b \in Nat /\ e \in Nat /\ b < e /\ b < Len(samples) /\ e - b = n
      BY <1>1, <1>3, <2>1, <2>2
    <2> QED
      BY <2>3, StretchType DEF FrameAt, b, e
  <1>5. [i \in 1 .. c |-> FrameAt(samples, n, i)] \in Seq(Seq(Blocks))
    BY <1>3, <1>4
  <1>6. \A i \in 1 .. c : /\ Frames(samples, sample_rate)[i] = FrameAt(samples, n, i)
                          /\ Len(Frames(samples, sample_rate)[i]) \in 1 .. n
    BY <1>2, <1>4
  <1>7. Len(Frames(samples, sample_rate)) = c
    BY <1>2, <1>3, <1>5, LenProperties
  <1> QED
    BY <1>2, <1>5, <1>6, <1>7 DEF AreFrames, c, n

\* No audio has no frames.
LEMMA FramesOfSilence ==
  ASSUME NEW sample_rate \in {50, 100}
  PROVE  Frames(<< >>, sample_rate) = << >>
  <1> DEFINE n  == FrameBlocks(sample_rate)
             fs == Frames(<< >>, sample_rate)
  <1>1. Len(<< >>) = 0 /\ << >> \in Seq(Blocks)
    BY EmptySeq
  <1>2. n \in Nat \ {0} /\ AreFrames(fs, << >>, n)
    BY <1>1, FrameBlocksType, FramesType
  <1> HIDE DEF n, fs
  <1>3. FrameCount(0, n) = 0
    BY <1>2, FrameCountType
  <1>4. fs \in Seq(Seq(Blocks)) /\ Len(fs) = 0
    BY <1>1, <1>2, <1>3 DEF AreFrames
  <1>5. fs = << >>
    BY <1>4, EmptySeq
  <1> QED
    BY <1>5 DEF fs

\* A stretch no longer than a frame is one.
LEMMA FramesOfOne ==
  ASSUME NEW sample_rate \in {50, 100}, NEW samples \in Seq(Blocks),
         Len(samples) \in 1 .. FrameBlocks(sample_rate)
  PROVE  /\ Len(Frames(samples, sample_rate)) = 1
         /\ Frames(samples, sample_rate)[1] = samples
  <1> DEFINE n  == FrameBlocks(sample_rate)
             fs == Frames(samples, sample_rate)
  <1>1. /\ n \in Nat \ {0} /\ Len(samples) \in 1 .. n /\ Len(samples) \in Nat
        /\ AreFrames(fs, samples, n)
    BY FrameBlocksType, FramesType
  <1> HIDE DEF n, fs
  <1>2. FrameCount(Len(samples), n) = 1
    BY <1>1, FrameCountType
  <1>3. Len(fs) = 1 /\ fs[1] = FrameAt(samples, n, 1)
    BY <1>1, <1>2 DEF AreFrames
  <1>4. FrameAt(samples, n, 1) = SubSeq(samples, 1, Len(samples))
    <2>1. Min({n, Len(samples)}) = Len(samples)
      BY <1>1, MinOfTwo
    <2>2. (1 - 1) * n = 0 /\ 1 * n = n /\ 0 + 1 = 1
      BY <1>1
    <2> QED
      BY <2>1, <2>2 DEF FrameAt, Stretch
  <1> QED
    BY <1>3, <1>4, SubSeqFull DEF fs

\* What follows whole frames is cut as if it stood alone.
LEMMA FramesOfConcatenation ==
  ASSUME NEW sample_rate \in {50, 100}, NEW s \in Seq(Blocks), NEW t \in Seq(Blocks),
         Len(s) % FrameBlocks(sample_rate) = 0
  PROVE  Frames(s \o t, sample_rate) = Frames(s, sample_rate) \o Frames(t, sample_rate)
  <1> DEFINE n == FrameBlocks(sample_rate)
             p == Len(s) \div n
             q == FrameCount(Len(t), n)
  <1>1. n \in Nat \ {0} /\ Len(s) \in Nat /\ Len(t) \in Nat /\ Len(s) % n = 0
    BY FrameBlocksType, LenProperties
  <1>f. \A r \in Seq(Blocks) : AreFrames(Frames(r, sample_rate), r, n)
    BY FramesType
  <1> HIDE DEF n
  <1>2. p \in Int /\ Len(s) = p * n
    <2> DEFINE r == Len(s) % n
    <2>1. p \in Int /\ Len(s) = p * n + r /\ r = 0
      BY <1>1, DivMod
    <2> HIDE DEF p, r
    <2> QED
      BY <1>1, <2>1
  <1> HIDE DEF p
  <1>3. p \in Nat
    BY <1>1, <1>2
  <1>4. q \in Nat /\ Len(t) <= q * n /\ q * n < Len(t) + n
    BY <1>1, FrameCountType
  <1>q. q \in Nat
    BY <1>4
  <1>5. FrameCount(Len(s), n) = p
    <2>1. Len(s) <= p * n /\ p * n < Len(s) + n
      BY <1>1, <1>2, <1>3
    <2> QED
      BY <1>1, <1>3, <2>1, FrameCountType, Zenon
  <1>6. s \o t \in Seq(Blocks) /\ Len(s \o t) = Len(s) + Len(t)
    BY ConcatProperties
  <1>7. FrameCount(Len(s) + Len(t), n) = p + q
    <2>1. (p + q) * n = p * n + q * n /\ p + q \in Nat /\ Len(s) + Len(t) \in Nat
      BY <1>1, <1>3, <1>4
    <2>2. Len(s) + Len(t) <= (p + q) * n /\ (p + q) * n < Len(s) + Len(t) + n
      BY <1>1, <1>2, <1>4, <2>1
    <2> QED
      BY <1>1, <2>1, <2>2, FrameCountType
  <1> DEFINE fs == Frames(s, sample_rate)
             ft == Frames(t, sample_rate)
             fst == Frames(s \o t, sample_rate)
  <1>8. fs \in Seq(Seq(Blocks)) /\ Len(fs) = p /\ \A i \in 1 .. p : fs[i] = FrameAt(s, n, i)
    BY <1>5, <1>f DEF AreFrames
  <1> HIDE DEF q
  <1>9. ft \in Seq(Seq(Blocks)) /\ Len(ft) = q /\ \A i \in 1 .. q : ft[i] = FrameAt(t, n, i)
    BY <1>f DEF AreFrames, q
  <1>10. /\ fst \in Seq(Seq(Blocks)) /\ Len(fst) = p + q
         /\ \A i \in 1 .. p + q : fst[i] = FrameAt(s \o t, n, i)
    <2> DEFINE st == s \o t
    <2>1. AreFrames(fst, st, n) /\ Len(st) = Len(s) + Len(t)
      BY <1>6, <1>f
    <2> HIDE DEF st, fst
    <2>2. /\ fst \in Seq(Seq(Blocks)) /\ Len(fst) = p + q
          /\ \A i \in 1 .. p + q : fst[i] = FrameAt(st, n, i)
      BY <1>7, <2>1 DEF AreFrames
    <2> QED
      BY <2>2 DEF st
  <1>11. /\ fs \o ft \in Seq(Seq(Blocks)) /\ Len(fs \o ft) = p + q
         /\ \A i \in 1 .. p + q : (fs \o ft)[i] = IF i <= p THEN fs[i] ELSE ft[i - p]
    BY <1>8, <1>9, ConcatProperties
  <1> HIDE DEF fs, ft, fst
  <1>12. ASSUME NEW i \in 1 .. p
         PROVE  FrameAt(s \o t, n, i) = FrameAt(s, n, i)
    <2> DEFINE b == (i - 1) * n
               e == i * n
    <2>1. b \in Int /\ e \in Int /\ b >= 0 /\ e = b + n /\ e <= p * n /\ p * n \in Int
      BY <1>1, <1>3
    <2> HIDE DEF b, e
    <2>2. b \in Nat /\ e \in Nat /\ b < e /\ e <= Len(s)
      BY <1>1, <1>2, <2>1
    <2> QED
      BY <2>2, StretchOfFirst DEF FrameAt, b, e
  <1>13. ASSUME NEW i \in 1 .. q
         PROVE  FrameAt(s \o t, n, p + i) = FrameAt(t, n, i)
    <2> DEFINE b == (i - 1) * n
               e == i * n
               x == ((p + i) - 1) * n
               y == (p + i) * n
    <2>1. b \in Int /\ e \in Int /\ b >= 0 /\ e = b + n /\ x = Len(s) + b /\ y = Len(s) + e
      BY <1>1, <1>2, <1>3, <1>4
    <2>2. e <= q * n /\ q * n \in Int
      BY <1>1, <1>4
    <2>3. FrameAt(s \o t, n, p + i) = Stretch(s \o t, x, y) /\ FrameAt(t, n, i) = Stretch(t, b, e)
      BY Zenon DEF FrameAt
    <2> HIDE DEF b, e, x, y
    <2>4. b \in Nat /\ e \in Nat /\ b < e /\ b < Len(t)
      BY <1>1, <1>4, <2>1, <2>2
    <2>5. Stretch(s \o t, Len(s) + b, Len(s) + e) = Stretch(t, b, e)
      BY <2>4, StretchOfSecond
    <2> QED
      BY <2>1, <2>3, <2>5
  <1>14. ASSUME NEW i \in 1 .. p + q
         PROVE  fst[i] = (fs \o ft)[i]
    <2>1. CASE i <= p
      BY <1>3, <1>q, <1>8, <1>10, <1>11, <1>12, <2>1
    <2>2. CASE i > p
      <3>1. i - p \in 1 .. q /\ p + (i - p) = i
        BY <1>3, <1>q, <2>2
      <3>2. FrameAt(s \o t, n, i) = FrameAt(t, n, i - p)
        BY <1>13, <3>1
      <3>3. ft[i - p] = FrameAt(t, n, i - p)
        BY <1>9, <3>1
      <3>4. (fs \o ft)[i] = ft[i - p]
        BY <1>3, <1>q, <1>11, <2>2
      <3> QED
        BY <1>10, <3>2, <3>3, <3>4
    <2>3. i <= p \/ i > p
      BY <1>3, <1>q
    <2> QED
      BY <2>1, <2>2, <2>3
  <1>15. fst = fs \o ft
    BY <1>10, <1>11, <1>14, SeqEqual
  <1> QED
    BY <1>15 DEF fst, fs, ft
-----------------------------------------------------------------------------
(***************************************************************************)
(* One turn of the loop of push_pcm.  What is measured of a frame or of a  *)
(* window is a function of the audio; its values are not looked into.      *)
(***************************************************************************)

FrameMetrics == {AnalyzeFrame(frame) : frame \in Seq(Blocks)}

Measurements ==
    {Measured(frames, blocks, loss, jitter) :
        frames \in Seq(FrameMetrics), blocks \in Seq(Blocks), loss \in Int, jitter \in Int}

Reports ==
    [metrics : Measurements, window_start_ms : Nat,
     composite_score : {CompositeScore(m) : m \in Measurements}, stt_ready : BOOLEAN]

Analyzers ==
    [sample_rate : {50, 100}, gate : Gates,
     window_buffer : Seq(Blocks), frame_buffer : Seq(FrameMetrics),
     window_start_ms : Nat, rtp_packet_loss_pct : Int, rtp_jitter_ms : Int]

\* an analyzer between two frames: its window is not full
Ready(a) == a \in Analyzers /\ Len(a.frame_buffer) < WindowFrames

NoReport == {<< >>}
OneReport == {<<r>> : r \in Reports}

\* an analyzer in the loop of push_pcm, and what the loop has to return so far
InLoop(state) ==
    /\ state \in [analyzer : Analyzers, result : NoReport \cup OneReport]
    /\ Ready(state.analyzer)

\* what no push changes of an analyzer
SameSource(a, b) ==
    /\ a.sample_rate = b.sample_rate
    /\ a.rtp_packet_loss_pct = b.rtp_packet_loss_pct
    /\ a.rtp_jitter_ms = b.rtp_jitter_ms

LEMMA WindowFramesType == FramesPerWindow \in Nat /\ WindowFrames \in Nat \ {0}
  <1>1. FrameMs \in Nat \ {0} /\ WindowMs \in Nat
    BY AnalyzerAssumption
  <1>2. FramesPerWindow \in Nat
    BY <1>1 DEF FramesPerWindow
  <1> QED
    BY <1>2 DEF WindowFrames

\* A verdict leaves a gate a gate (SttGate::evaluate).
LEMMA EvaluateType ==
  ASSUME NEW g \in Gates, NEW m
  PROVE  Evaluate(g, m) \in Gates
  <1>1. GateAfterPass(g) \in Gates
    BY DEF GateAfterPass, Gates
  <1>2. GateAfterFail(g) \in Gates
    BY DEF GateAfterFail, Gates
  <1> QED
    BY <1>1, <1>2 DEF Evaluate

LEMMA NewAnalyzerType ==
  ASSUME NEW sample_rate \in {50, 100}
  PROVE  /\ Ready(NewAnalyzer(sample_rate))
         /\ NewAnalyzer(sample_rate).frame_buffer = << >>
         /\ NewAnalyzer(sample_rate).sample_rate = sample_rate
  <1>1. NewGate \in Gates
    BY DEF NewGate, Gates
  <1>2. << >> \in Seq(Blocks) /\ << >> \in Seq(FrameMetrics) /\ Len(<< >>) = 0
    BY EmptySeq
  <1>3. NewAnalyzer(sample_rate) \in Analyzers
    BY <1>1, <1>2 DEF NewAnalyzer, Analyzers
  <1> QED
    BY <1>2, <1>3, WindowFramesType DEF NewAnalyzer, Ready

\* A frame goes into both buffers.
LEMMA WithFrameType ==
  ASSUME NEW a \in Analyzers, NEW frame \in Seq(Blocks)
  PROVE  /\ WithFrame(a, frame) \in Analyzers
         /\ Len(WithFrame(a, frame).frame_buffer) = Len(a.frame_buffer) + 1
         /\ WithFrame(a, frame).frame_buffer = Append(a.frame_buffer, AnalyzeFrame(frame))
         /\ WithFrame(a, frame).window_buffer = a.window_buffer \o frame
         /\ WithFrame(a, frame).gate = a.gate
         /\ WithFrame(a, frame).window_start_ms = a.window_start_ms
         /\ SameSource(WithFrame(a, frame), a)
  <1>1. a.frame_buffer \in Seq(FrameMetrics) /\ a.window_buffer \in Seq(Blocks)
    BY DEF Analyzers
  <1>2. AnalyzeFrame(frame) \in FrameMetrics
    BY DEF FrameMetrics
  <1> DEFINE fb == Append(a.frame_buffer, AnalyzeFrame(frame))
             wb == a.window_buffer \o frame
  <1>3. fb \in Seq(FrameMetrics) /\ Len(fb) = Len(a.frame_buffer) + 1
    BY <1>1, <1>2, AppendProperties
  <1>4. wb \in Seq(Blocks)
    BY <1>1, ConcatProperties
  <1>5. WithFrame(a, frame) = [a EXCEPT !.frame_buffer = fb, !.window_buffer = wb]
    BY DEF WithFrame
  <1>6. /\ WithFrame(a, frame).frame_buffer = fb
        /\ WithFrame(a, frame).window_buffer = wb
    BY <1>5 DEF Analyzers
  <1> HIDE DEF fb, wb
  <1>7. WithFrame(a, frame) \in Analyzers
    <2> DEFINE b == [a EXCEPT !.frame_buffer = fb, !.window_buffer = wb]
    <2>1. b \in Analyzers
      BY <1>3, <1>4 DEF Analyzers
    <2> HIDE DEF b
    <2> QED
      BY <1>5, <2>1 DEF b
  <1>8. /\ WithFrame(a, frame).gate = a.gate
        /\ WithFrame(a, frame).window_start_ms = a.window_start_ms
        /\ SameSource(WithFrame(a, frame), a)
    BY <1>5 DEF Analyzers, SameSource
  <1> QED
    BY <1>3, <1>6, <1>7, <1>8 DEF fb, wb

\* A full window is judged, reported and cleared away.
LEMMA CloseWindowType ==
  ASSUME NEW a \in Analyzers, NEW timestamp_ms \in Nat,
         NEW gate, gate = Evaluate(a.gate, MetricsOf(a)),
         NEW closed, closed = CloseWindow(a, timestamp_ms)
  PROVE  /\ InLoop(closed)
         /\ closed.result \in OneReport
         /\ closed.result = <<WindowReport(a, MetricsOf(a), gate)>>
         /\ closed.analyzer.frame_buffer = << >>
         /\ closed.analyzer.window_buffer = << >>
         /\ closed.analyzer.gate = gate
         /\ closed.analyzer.window_start_ms = timestamp_ms
         /\ SameSource(closed.analyzer, a)
  <1> DEFINE b == [a EXCEPT !.gate = gate, !.window_buffer = << >>,
                            !.frame_buffer = << >>, !.window_start_ms = timestamp_ms]
             r == WindowReport(a, MetricsOf(a), gate)
  <1>1. gate \in Gates
    BY EvaluateType DEF Analyzers
  <1>2. << >> \in Seq(Blocks) /\ << >> \in Seq(FrameMetrics) /\ Len(<< >>) = 0
    BY EmptySeq
  <1>3. /\ b \in Analyzers /\ b.frame_buffer = << >> /\ b.window_buffer = << >>
        /\ b.gate = gate /\ b.window_start_ms = timestamp_ms /\ SameSource(b, a)
    BY <1>1, <1>2 DEF Analyzers, SameSource
  <1>4. MetricsOf(a) \in Measurements
    BY DEF MetricsOf, Measurements, Analyzers
  <1>5. r \in Reports
    <2>1. gate.current_state \in BOOLEAN /\ a.window_start_ms \in Nat
      BY <1>1 DEF Gates, Analyzers
    <2> HIDE DEF Measurements
    <2> QED
      BY <1>4, <2>1 DEF WindowReport, Reports
  <1>6. closed = [analyzer |-> b, result |-> <<r>>]
    BY DEF CloseWindow, Judged, Closed
  <1> HIDE DEF b, r
  <1>7. <<r>> \in OneReport
    BY <1>5 DEF OneReport
  <1>8. Ready(b)
    BY <1>2, <1>3, WindowFramesType DEF Ready
  <1>9. InLoop(closed)
    BY <1>3, <1>6, <1>7, <1>8 DEF InLoop
  <1> QED
    BY <1>3, <1>6, <1>7, <1>9 DEF r

\* A turn either fills the window and closes it, or makes it one frame longer.
LEMMA TakeFrameType ==
  ASSUME NEW state, InLoop(state), NEW frame \in Seq(Blocks), NEW timestamp_ms \in Nat
  PROVE  LET after == TakeFrame(state, frame, timestamp_ms)
             held  == WithFrame(state.analyzer, frame)
         IN  /\ InLoop(after)
             /\ SameSource(after.analyzer, state.analyzer)
             /\ Len(state.analyzer.frame_buffer) + 1 = WindowFrames =>
                    after = CloseWindow(held, timestamp_ms)
             /\ Len(state.analyzer.frame_buffer) + 1 # WindowFrames =>
                    /\ after.analyzer = held
                    /\ after.result = state.result
  <1> DEFINE a    == state.analyzer
             held == WithFrame(a, frame)
  <1>1. /\ state \in [analyzer : Analyzers, result : NoReport \cup OneReport]
        /\ a \in Analyzers /\ Len(a.frame_buffer) < WindowFrames
    BY DEF InLoop, Ready
  <1>2. /\ held \in Analyzers /\ Len(held.frame_buffer) = Len(a.frame_buffer) + 1
        /\ SameSource(held, a)
    BY <1>1, WithFrameType
  <1>3. Len(a.frame_buffer) \in Nat
    BY <1>1, LenProperties DEF Analyzers
  <1>4. Len(a.frame_buffer) + 1 >= FramesPerWindow <=> Len(a.frame_buffer) + 1 = WindowFrames
    BY <1>1, <1>3, WindowFramesType DEF WindowFrames
  <1>5. CASE Len(a.frame_buffer) + 1 = WindowFrames
    <2>1. TakeFrame(state, frame, timestamp_ms) = CloseWindow(held, timestamp_ms)
      BY <1>4, <1>5 DEF TakeFrame
    <2> HIDE DEF held
    <2>2. /\ InLoop(CloseWindow(held, timestamp_ms))
          /\ SameSource(CloseWindow(held, timestamp_ms).analyzer, held)
      BY <1>2, CloseWindowType
    <2>3. SameSource(CloseWindow(held, timestamp_ms).analyzer, a)
      BY <1>2, <2>2 DEF SameSource
    <2> QED
      BY <1>5, <2>1, <2>2, <2>3 DEF held
  <1>6. CASE Len(a.frame_buffer) + 1 # WindowFrames
    <2>1. TakeFrame(state, frame, timestamp_ms) = [state EXCEPT !.analyzer = held]
      BY <1>4, <1>6 DEF TakeFrame
    <2> HIDE DEF held
    <2>2. /\ TakeFrame(state, frame, timestamp_ms).analyzer = held
          /\ TakeFrame(state, frame, timestamp_ms).result = state.result
          /\ TakeFrame(state, frame, timestamp_ms)
                 \in [analyzer : Analyzers, result : NoReport \cup OneReport]
      BY <1>1, <1>2, <2>1
    <2>3. Ready(held)
      BY <1>1, <1>2, <1>3, <1>6, WindowFramesType DEF Ready
    <2> QED
      BY <1>2, <1>6, <2>2, <2>3 DEF InLoop, held
  <1> QED
    BY <1>5, <1>6

\* What push_pcm does before its loop touches the start of the window only.
LEMMA BegunType ==
  ASSUME NEW a, Ready(a), NEW timestamp_ms \in Nat
  PROVE  LET state == Begun(a, timestamp_ms)
         IN  /\ InLoop(state)
             /\ state.result = << >>
             /\ SameSource(state.analyzer, a)
             /\ state.analyzer.gate = a.gate
             /\ state.analyzer.frame_buffer = a.frame_buffer
             /\ state.analyzer.window_buffer = a.window_buffer
             /\ state.analyzer.window_start_ms
                    = IF a.window_start_ms = 0 THEN timestamp_ms ELSE a.window_start_ms
  <1> DEFINE start == IF a.window_start_ms = 0 THEN timestamp_ms ELSE a.window_start_ms
             b     == [a EXCEPT !.window_start_ms = start]
  <1>1. a \in Analyzers /\ Len(a.frame_buffer) < WindowFrames /\ a.window_start_ms \in Nat
    BY DEF Ready, Analyzers
  <1>2. start \in Nat
    BY <1>1
  <1>3. Begun(a, timestamp_ms) = [analyzer |-> b, result |-> << >>]
    BY DEF Begun
  <1>4. /\ b \in Analyzers /\ b.frame_buffer = a.frame_buffer
        /\ b.window_buffer = a.window_buffer /\ b.gate = a.gate
        /\ b.window_start_ms = start /\ SameSource(b, a)
    <2> HIDE DEF start
    <2> QED
      BY <1>1, <1>2 DEF Analyzers, SameSource
  <1> HIDE DEF b
  <1>5. InLoop(Begun(a, timestamp_ms))
    BY <1>1, <1>3, <1>4 DEF InLoop, Ready, NoReport
  <1> QED
    BY <1>3, <1>4, <1>5

\* The loop keeps an analyzer an analyzer, from its first turn to its last.
LEMMA TurnsType ==
  ASSUME NEW a, Ready(a), NEW frames \in Seq(Seq(Blocks)), NEW timestamp_ms \in Nat
  PROVE  \A i \in 0 .. Len(frames) :
             /\ InLoop(Turns(a, frames, timestamp_ms)[i])
             /\ SameSource(Turns(a, frames, timestamp_ms)[i].analyzer, a)
  <1> DEFINE turn == Turns(a, frames, timestamp_ms)
             n    == Len(frames)
             S    == {i \in 0 .. n : InLoop(turn[i]) /\ SameSource(turn[i].analyzer, a)}
  <1>1. n \in Nat
    BY LenProperties
  <1>2. /\ turn[0] = Begun(a, timestamp_ms)
        /\ \A i \in 1 .. n : turn[i] = TakeFrame(turn[i - 1], frames[i], timestamp_ms)
    BY <1>1, TurnsUnfold
  <1> HIDE DEF turn
  <1>3. 0 \in S
    BY <1>1, <1>2, BegunType
  <1>4. ASSUME NEW i \in 0 .. n - 1, i \in S
        PROVE  i + 1 \in S
    <2>1. i + 1 \in 1 .. n /\ i + 1 - 1 = i
      BY <1>1
    <2>2. frames[i + 1] \in Seq(Blocks)
      BY <2>1, ElementOfSeq
    <2>3. turn[i + 1] = TakeFrame(turn[i], frames[i + 1], timestamp_ms)
      BY <1>2, <2>1
    <2>4. InLoop(turn[i + 1]) /\ SameSource(turn[i + 1].analyzer, turn[i].analyzer)
      BY <1>4, <2>2, <2>3, TakeFrameType
    <2> QED
      BY <1>1, <1>4, <2>4 DEF SameSource
  <1>5. \A i \in 0 .. n : i \in S
    <2> HIDE DEF S, n
    <2> QED
      BY <1>1, <1>3, <1>4, BoundedInduction
  <1> QED
    BY <1>5 DEF turn

\* A push keeps an analyzer an analyzer and returns one report at most.
LEMMA PushPcmType ==
  ASSUME NEW a, Ready(a), NEW samples \in Seq(Blocks), NEW timestamp_ms \in Nat
  PROVE  /\ InLoop(PushPcm(a, samples, timestamp_ms))
         /\ SameSource(PushPcm(a, samples, timestamp_ms).analyzer, a)
  <1> DEFINE frames == Frames(samples, a.sample_rate)
  <1>1. a.sample_rate \in {50, 100}
    BY DEF Ready, Analyzers
  <1>2. AreFrames(frames, samples, FrameBlocks(a.sample_rate))
    BY <1>1, FramesType
  <1>3. PushPcm(a, samples, timestamp_ms) = Turns(a, frames, timestamp_ms)[Len(frames)]
    BY DEF PushPcm
  <1> HIDE DEF frames
  <1>4. frames \in Seq(Seq(Blocks)) /\ Len(frames) \in 0 .. Len(frames)
    BY <1>2, LenProperties DEF AreFrames
  <1> QED
    BY <1>3, <1>4, TurnsType

\* A push of nothing is what comes before the loop.
LEMMA PushOfSilence ==
  ASSUME NEW a, Ready(a), NEW timestamp_ms
  PROVE  PushPcm(a, << >>, timestamp_ms) = Begun(a, timestamp_ms)
  <1>1. Frames(<< >>, a.sample_rate) = << >>
    BY FramesOfSilence DEF Ready, Analyzers
  <1>2. Len(<< >>) = 0
    BY EmptySeq
  <1>3. PushPcm(a, << >>, timestamp_ms) = Turns(a, << >>, timestamp_ms)[0]
    BY <1>1, <1>2 DEF PushPcm
  <1> QED
    BY <1>2, <1>3, TurnsUnfold

\* A push of one frame is one turn.
LEMMA PushOfFrame ==
  ASSUME NEW a, Ready(a), NEW samples \in Seq(Blocks), NEW timestamp_ms,
         Len(samples) \in 1 .. FrameBlocks(a.sample_rate)
  PROVE  PushPcm(a, samples, timestamp_ms)
             = TakeFrame(Begun(a, timestamp_ms), samples, timestamp_ms)
  <1> DEFINE frames == Frames(samples, a.sample_rate)
  <1>1. a.sample_rate \in {50, 100}
    BY DEF Ready, Analyzers
  <1>2. Len(frames) = 1 /\ frames[1] = samples
    BY <1>1, FramesOfOne
  <1>3. PushPcm(a, samples, timestamp_ms) = Turns(a, frames, timestamp_ms)[Len(frames)]
    BY DEF PushPcm
  <1> HIDE DEF frames
  <1>4. /\ Turns(a, frames, timestamp_ms)[0] = Begun(a, timestamp_ms)
        /\ Turns(a, frames, timestamp_ms)[1]
               = TakeFrame(Turns(a, frames, timestamp_ms)[1 - 1], frames[1], timestamp_ms)
    BY <1>2, TurnsUnfold
  <1> QED
    BY <1>2, <1>3, <1>4
-----------------------------------------------------------------------------
(***************************************************************************)
(* A batch, frame by frame.                                                *)
(***************************************************************************)

\* the turn a batch takes with its next frame, at the frame's place in the audio
BatchTurn(a, frame, timestamp_ms) ==
    TakeFrame(Begun(a, timestamp_ms), frame, timestamp_ms)

\* where a batch stands after some of its frames
InBatch(state, sample_rate) ==
    /\ Ready(state.analyzer)
    /\ SameSource(state.analyzer, NewAnalyzer(sample_rate))
    /\ state.windows \in Seq(Reports)

\* frames that are no longer than a frame may be, and not empty
WellCut(frames, sample_rate) ==
    /\ frames \in Seq(Seq(Blocks))
    /\ \A i \in 1 .. Len(frames) : Len(frames[i]) \in 1 .. FrameBlocks(sample_rate)

LEMMA ResultsAreReports ==
  ASSUME NEW state, InLoop(state)
  PROVE  state.result \in Seq(Reports)
  <1>1. state.result \in NoReport \cup OneReport
    BY DEF InLoop
  <1>2. << >> \in Seq(Reports)
    BY EmptySeq
  <1>3. \A r \in Reports : <<r>> \in Seq(Reports)
    OBVIOUS
  <1> HIDE DEF Reports
  <1> QED
    BY <1>1, <1>2, <1>3 DEF NoReport, OneReport

\* turn is where a batch of these frames stands after each of them
BatchRun(turn, frames, sample_rate) ==
    /\ turn[0] = [analyzer |-> NewAnalyzer(sample_rate), windows |-> << >>]
    /\ \A i \in 0 .. Len(frames) : InBatch(turn[i], sample_rate)
    /\ \A i \in 0 .. Len(frames) - 1 :
           /\ turn[i + 1].analyzer
                  = BatchTurn(turn[i].analyzer, frames[i + 1], i * FrameMs).analyzer
           /\ turn[i + 1].windows
                  = turn[i].windows
                        \o BatchTurn(turn[i].analyzer, frames[i + 1], i * FrameMs).result

\* Each frame of a batch is one turn of a loop of its own.
LEMMA BatchSteps ==
  ASSUME NEW sample_rate \in {50, 100}, NEW frames, WellCut(frames, sample_rate)
  PROVE  BatchRun(BatchTurns(frames, sample_rate), frames, sample_rate)
  <1> DEFINE n    == Len(frames)
             new  == NewAnalyzer(sample_rate)
             turn == BatchTurns(frames, sample_rate)
             S    == {i \in 0 .. n : InBatch(turn[i], sample_rate)}
             T(i) == BatchTurn(turn[i].analyzer, frames[i + 1], i * FrameMs)
             Follows(i) ==
                 /\ turn[i + 1].analyzer = T(i).analyzer
                 /\ turn[i + 1].windows = turn[i].windows \o T(i).result
  <1>1. n \in Nat
    BY LenProperties DEF WellCut
  <1>2. /\ turn[0] = [analyzer |-> new, windows |-> << >>]
        /\ \A i \in 1 .. n : turn[i] = Collect(turn[i - 1], frames[i], (i - 1) * FrameMs)
    BY <1>1, BatchUnfolds
  <1> HIDE DEF turn
  <1>3. Ready(new) /\ new.sample_rate = sample_rate
    BY NewAnalyzerType
  <1>4. 0 \in S
    <2>1. << >> \in Seq(Reports) /\ SameSource(new, new)
      BY EmptySeq DEF SameSource
    <2> HIDE DEF new
    <2>2. InBatch(turn[0], sample_rate)
      BY <1>2, <1>3, <2>1 DEF InBatch, new
    <2> QED
      BY <1>1, <2>2
  <1> HIDE DEF new
  <1>5. ASSUME NEW i \in 0 .. n - 1, InBatch(turn[i], sample_rate)
        PROVE  InBatch(turn[i + 1], sample_rate) /\ Follows(i)
    <2> DEFINE a     == turn[i].analyzer
               t     == i * FrameMs
               frame == frames[i + 1]
               after == TakeFrame(Begun(a, t), frame, t)
    <2>1. i + 1 \in 1 .. n /\ (i + 1) - 1 = i /\ i \in Nat
      BY <1>1
    <2>2. frame \in Seq(Blocks) /\ Len(frame) \in 1 .. FrameBlocks(sample_rate)
      BY <2>1, ElementOfSeq DEF WellCut
    <2>3. t \in Nat
      BY <2>1, AnalyzerAssumption
    <2>4. /\ Ready(a) /\ SameSource(a, new) /\ a.sample_rate = sample_rate
          /\ turn[i].windows \in Seq(Reports)
      BY <1>3, <1>5 DEF InBatch, SameSource, new
    <2>5. turn[i + 1] = Collect(turn[i], frame, t)
      BY <1>2, <2>1
    <2> HIDE DEF t, frame
    <2>6. PushPcm(a, frame, t) = after
      BY <2>2, <2>4, PushOfFrame
    <2>7. /\ turn[i + 1].analyzer = after.analyzer
          /\ turn[i + 1].windows = turn[i].windows \o after.result
      <3>1. turn[i + 1] = [analyzer |-> PushPcm(a, frame, t).analyzer,
                           windows  |-> turn[i].windows \o PushPcm(a, frame, t).result]
        BY <2>5 DEF Collect
      <3> HIDE DEF after, a
      <3> DEFINE j == i + 1
                 w == turn[i].windows
      <3> HIDE DEF j, w
      <3>2. turn[j] = [analyzer |-> after.analyzer, windows |-> w \o after.result]
        BY <2>6, <3>1 DEF j, w
      <3>3. turn[j].analyzer = after.analyzer /\ turn[j].windows = w \o after.result
        BY <3>2
      <3> QED
        BY <3>3 DEF j, w
    <2>8. InLoop(Begun(a, t)) /\ SameSource(Begun(a, t).analyzer, a)
      BY <2>3, <2>4, BegunType
    <2>9. InLoop(after) /\ SameSource(after.analyzer, Begun(a, t).analyzer)
      BY <2>2, <2>3, <2>8, TakeFrameType
    <2>10. SameSource(after.analyzer, new)
      BY <2>4, <2>8, <2>9 DEF SameSource
    <2>11. turn[i].windows \o after.result \in Seq(Reports)
      BY <2>4, <2>9, ResultsAreReports, ConcatProperties
    <2>12. InBatch(turn[i + 1], sample_rate)
      <3> HIDE DEF after, a
      <3> QED
        BY <2>7, <2>9, <2>10, <2>11 DEF InBatch, InLoop, new
    <2> QED
      BY <2>7, <2>12 DEF BatchTurn, t, frame
  <1>6. \A i \in 0 .. n : i \in S
    <2>1. \A i \in 0 .. n - 1 : i \in S => i + 1 \in S
      <3> HIDE DEF Follows
      <3> QED
        BY <1>1, <1>5
    <2> HIDE DEF S, n
    <2> QED
      BY <1>1, <1>4, <2>1, BoundedInduction
  <1>7. \A i \in 0 .. n : InBatch(turn[i], sample_rate)
    BY <1>6
  <1>8. \A i \in 0 .. n - 1 : Follows(i)
    <2> HIDE DEF Follows
    <2> QED
      BY <1>1, <1>5, <1>7
  <1> QED
    BY <1>2, <1>7, <1>8 DEF new, turn, BatchRun

\* What comes later changes nothing in what a batch has said so far.
LEMMA BatchPrefix ==
  ASSUME NEW f \in Seq(Seq(Blocks)), NEW g \in Seq(Seq(Blocks)), NEW sample_rate
  PROVE  BatchTurns(f \o g, sample_rate)[Len(f)] = BatchTurns(f, sample_rate)[Len(f)]
  <1> DEFINE fg    == f \o g
             whole == BatchTurns(fg, sample_rate)
             part  == BatchTurns(f, sample_rate)
             n     == Len(f)
             S     == {i \in 0 .. n : whole[i] = part[i]}
  <1>1. n \in Nat /\ Len(g) \in Nat
    BY LenProperties
  <1>2. Len(fg) = n + Len(g) /\ \A i \in 1 .. n : fg[i] = f[i]
    BY <1>1, ConcatProperties
  <1> HIDE DEF fg
  <1>3. Len(fg) \in Nat
    BY <1>1, <1>2
  <1>4. /\ whole[0] = part[0]
        /\ \A i \in 1 .. Len(fg) : whole[i] = Collect(whole[i - 1], fg[i], (i - 1) * FrameMs)
        /\ \A i \in 1 .. n : part[i] = Collect(part[i - 1], f[i], (i - 1) * FrameMs)
    BY <1>1, <1>3, BatchUnfolds
  <1> HIDE DEF whole, part
  <1>5. 0 \in S
    BY <1>1, <1>4
  <1>6. ASSUME NEW i \in 0 .. n - 1, i \in S
        PROVE  i + 1 \in S
    <2>1. i + 1 \in 1 .. n /\ i + 1 \in 1 .. Len(fg) /\ (i + 1) - 1 = i
      BY <1>1, <1>2
    <2>2. whole[i + 1] = Collect(whole[i], fg[i + 1], i * FrameMs)
      BY <1>4, <2>1
    <2>3. part[i + 1] = Collect(part[i], f[i + 1], i * FrameMs)
      BY <1>4, <2>1
    <2> QED
      BY <1>1, <1>2, <1>6, <2>1, <2>2, <2>3
  <1>7. \A i \in 0 .. n : i \in S
    <2> HIDE DEF S, n
    <2> QED
      BY <1>1, <1>5, <1>6, BoundedInduction
  <1>8. whole[n] = part[n]
    BY <1>1, <1>7
  <1> QED
    BY <1>8 DEF whole, part, fg
=============================================================================
