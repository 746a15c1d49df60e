----------------------- MODULE AnalysisAgreementProofs -----------------------
(***************************************************************************)
(* What AnalysisAgreement's runs check, for audio of any length, cut into  *)
(* any messages, at either sample rate, and for any length of frames and   *)
(* windows.  The session and the batch take the same turns: between two    *)
(* messages they differ in the start of their window only, and in what     *)
(* each has reported so far the judgements are the same.  The inductive    *)
(* invariant says so of the batch of the audio sent up to now.             *)
(***************************************************************************)
EXTENDS AnalysisAgreement, VoiceAnalyzerProofs

LEMMA SampleRateType == SampleRate \in {50, 100}
  BY AgreementAssumption

LEMMA MessagesAreAudio == Messages \subseteq Seq(Blocks)
  BY AgreementAssumption
-----------------------------------------------------------------------------
(***************************************************************************)
(* A session and a batch in lockstep.                                      *)
(***************************************************************************)

\* two analyzers that differ in the start of their window at most
SameButStart(a, b) ==
    /\ SameSource(a, b)
    /\ a.gate = b.gate
    /\ a.window_buffer = b.window_buffer
    /\ a.frame_buffer = b.frame_buffer

\* A window is measured without looking at its start.
LEMMA SameMetrics ==
  ASSUME NEW a, NEW b, SameButStart(a, b)
  PROVE  MetricsOf(a) = MetricsOf(b)
  BY DEF SameButStart, SameSource, MetricsOf

LEMMA SameWithFrame ==
  ASSUME NEW a \in Analyzers, NEW b \in Analyzers, SameButStart(a, b), NEW frame \in Seq(Blocks)
  PROVE  SameButStart(WithFrame(a, frame), WithFrame(b, frame))
  <1> DEFINE x == WithFrame(a, frame)
             y == WithFrame(b, frame)
  <1>1. /\ x.frame_buffer = Append(a.frame_buffer, AnalyzeFrame(frame))
        /\ x.window_buffer = a.window_buffer \o frame
        /\ x.gate = a.gate /\ SameSource(x, a)
    BY WithFrameType
  <1>2. /\ y.frame_buffer = Append(b.frame_buffer, AnalyzeFrame(frame))
        /\ y.window_buffer = b.window_buffer \o frame
        /\ y.gate = b.gate /\ SameSource(y, b)
    BY WithFrameType
  <1> HIDE DEF x, y
  <1>3. SameButStart(x, y)
    BY <1>1, <1>2 DEF SameButStart, SameSource
  <1> QED
    BY <1>3 DEF x, y

\* The same window is judged the same by the same gate.
LEMMA SameClosing ==
  ASSUME NEW a \in Analyzers, NEW b \in Analyzers, SameButStart(a, b),
         NEW s \in Nat, NEW t \in Nat
  PROVE  /\ SameButStart(CloseWindow(a, s).analyzer, CloseWindow(b, t).analyzer)
         /\ \E p, q \in Reports : /\ CloseWindow(a, s).result = <<p>>
                                  /\ CloseWindow(b, t).result = <<q>>
                                  /\ Judgement(p) = Judgement(q)
  <1> DEFINE m == MetricsOf(a)
             g == Evaluate(a.gate, m)
             x == CloseWindow(a, s)
             y == CloseWindow(b, t)
             p == WindowReport(a, m, g)
             q == WindowReport(b, m, g)
  <1>1. MetricsOf(b) = m /\ Evaluate(b.gate, m) = g
    BY SameMetrics DEF SameButStart
  <1>2. /\ x.result = <<p>> /\ x.analyzer.frame_buffer = << >> /\ x.analyzer.window_buffer = << >>
        /\ x.analyzer.gate = g /\ SameSource(x.analyzer, a) /\ x.result \in OneReport
    BY CloseWindowType
  <1>3. /\ y.result = <<q>> /\ y.analyzer.frame_buffer = << >> /\ y.analyzer.window_buffer = << >>
        /\ y.analyzer.gate = g /\ SameSource(y.analyzer, b) /\ y.result \in OneReport
    BY <1>1, CloseWindowType
  <1>4. Judgement(p) = Judgement(q)
    BY DEF Judgement, WindowReport
  <1> HIDE DEF m, g, x, y, p, q
  <1>5. SameButStart(x.analyzer, y.analyzer)
    BY <1>2, <1>3 DEF SameButStart, SameSource
  <1>6. p \in Reports /\ q \in Reports
    BY <1>2, <1>3 DEF OneReport
  <1> QED
    BY <1>2, <1>3, <1>4, <1>5, <1>6 DEF x, y

\* A session and a batch that have the same buffers take the same turn.
LEMMA Lockstep ==
  ASSUME NEW state, InLoop(state), NEW b, Ready(b), SameButStart(state.analyzer, b),
         NEW frame \in Seq(Blocks), NEW s \in Nat, NEW t \in Nat,
         NEW x, x = TakeFrame(state, frame, s),
         NEW y, y = BatchTurn(b, frame, t)
  PROVE  /\ InLoop(x)
         /\ SameButStart(x.analyzer, y.analyzer)
         /\ Len(state.analyzer.frame_buffer) + 1 = WindowFrames =>
                /\ Len(x.analyzer.frame_buffer) = 0
                /\ \E p, q \in Reports : /\ x.result = <<p>> /\ y.result = <<q>>
                                         /\ Judgement(p) = Judgement(q)
         /\ Len(state.analyzer.frame_buffer) + 1 # WindowFrames =>
                /\ Len(x.analyzer.frame_buffer) = Len(state.analyzer.frame_buffer) + 1
                /\ x.result = state.result
                /\ y.result = << >>
  <1> DEFINE a      == state.analyzer
             begun  == Begun(b, t)
             c      == begun.analyzer
             held   == WithFrame(a, frame)
             heldc  == WithFrame(c, frame)
  <1>1. InLoop(begun) /\ begun.result = << >> /\ SameButStart(c, b)
    BY BegunType DEF SameButStart
  <1>2. SameButStart(a, c) /\ Len(a.frame_buffer) = Len(c.frame_buffer)
    BY <1>1 DEF SameButStart, SameSource
  <1>3. a \in Analyzers /\ c \in Analyzers
    BY <1>1 DEF InLoop, Ready
  <1>4. y = TakeFrame(begun, frame, t)
    BY DEF BatchTurn
  <1>5. /\ InLoop(x)
        /\ Len(a.frame_buffer) + 1 = WindowFrames => x = CloseWindow(held, s)
        /\ Len(a.frame_buffer) + 1 # WindowFrames =>
               x.analyzer = held /\ x.result = state.result
    BY TakeFrameType
  <1>6. /\ Len(c.frame_buffer) + 1 = WindowFrames => y = CloseWindow(heldc, t)
        /\ Len(c.frame_buffer) + 1 # WindowFrames =>
               y.analyzer = heldc /\ y.result = begun.result
    BY <1>1, <1>4, TakeFrameType
  <1>7. /\ held \in Analyzers /\ heldc \in Analyzers /\ SameButStart(held, heldc)
        /\ Len(held.frame_buffer) = Len(a.frame_buffer) + 1
    BY <1>2, <1>3, SameWithFrame, WithFrameType
  <1> HIDE DEF a, c, held, heldc, begun
  <1>8. CASE Len(a.frame_buffer) + 1 = WindowFrames
    <2>1. x = CloseWindow(held, s) /\ y = CloseWindow(heldc, t)
      BY <1>2, <1>5, <1>6, <1>8
    <2>2. /\ SameButStart(CloseWindow(held, s).analyzer, CloseWindow(heldc, t).analyzer)
          /\ \E p, q \in Reports : /\ CloseWindow(held, s).result = <<p>>
                                   /\ CloseWindow(heldc, t).result = <<q>>
                                   /\ Judgement(p) = Judgement(q)
      BY <1>7, SameClosing
    <2>3. CloseWindow(held, s).analyzer.frame_buffer = << >> /\ Len(<< >>) = 0
      BY <1>7, CloseWindowType, EmptySeq
    <2> QED
      BY <1>5, <1>8, <2>1, <2>2, <2>3 DEF a
  <1>9. CASE Len(a.frame_buffer) + 1 # WindowFrames
    BY <1>1, <1>2, <1>5, <1>6, <1>7, <1>9 DEF a
  <1> QED
    BY <1>8, <1>9

\* Reports that agree go on agreeing when each side adds the same judgement.
LEMMA SameJudgementsAppend ==
  ASSUME NEW r \in Seq(Reports), NEW w \in Seq(Reports), SameJudgements(r, w),
         NEW p \in Reports, NEW q \in Reports, Judgement(p) = Judgement(q)
  PROVE  SameJudgements(r \o <<p>>, w \o <<q>>)
  <1> DEFINE n == Len(r)
             x == r \o <<p>>
             y == w \o <<q>>
  <1>1. n \in Nat /\ Len(w) = n /\ \A i \in 1 .. n : Judgement(r[i]) = Judgement(w[i])
    BY LenProperties DEF SameJudgements
  <1>2. <<p>> \in Seq(Reports) /\ <<q>> \in Seq(Reports)
    <2> HIDE DEF Reports
    <2> QED
      OBVIOUS
  <1>3. Len(<<p>>) = 1 /\ Len(<<q>>) = 1 /\ <<p>>[1] = p /\ <<q>>[1] = q
    OBVIOUS
  <1> DEFINE sp == <<p>>
             sq == <<q>>
  <1> HIDE DEF sp, sq
  <1>4. /\ Len(x) = n + 1
        /\ \A i \in 1 .. n + 1 : x[i] = IF i <= n THEN r[i] ELSE sp[i - n]
    BY <1>2, <1>3, ConcatProperties DEF sp
  <1>5. /\ Len(y) = n + 1
        /\ \A i \in 1 .. n + 1 : y[i] = IF i <= n THEN w[i] ELSE sq[i - n]
    BY <1>1, <1>2, <1>3, ConcatProperties DEF sq
  <1> HIDE DEF x, y, n
  <1>6. ASSUME NEW i \in 1 .. n + 1
        PROVE  Judgement(x[i]) = Judgement(y[i])
    <2>1. CASE i <= n
      BY <1>1, <1>4, <1>5, <2>1
    <2>2. CASE ~ (i <= n)
      <3>1. i - n = 1
        BY <1>1, <2>2
      <3>2. x[i] = p /\ y[i] = q
        BY <1>3, <1>4, <1>5, <2>2, <3>1 DEF sp, sq
      <3> QED
        BY <3>2
    <2> QED
      BY <2>1, <2>2
  <1> QED
    BY <1>4, <1>5, <1>6 DEF SameJudgements, x, y

LEMMA WellCutTogether ==
  ASSUME NEW f, NEW g, WellCut(f, SampleRate), WellCut(g, SampleRate)
  PROVE  WellCut(f \o g, SampleRate)
  <1> DEFINE n  == FrameBlocks(SampleRate)
             fg == f \o g
  <1>1. /\ f \in Seq(Seq(Blocks)) /\ \A i \in 1 .. Len(f) : Len(f[i]) \in 1 .. n
        /\ g \in Seq(Seq(Blocks)) /\ \A i \in 1 .. Len(g) : Len(g[i]) \in 1 .. n
        /\ Len(f) \in Nat /\ Len(g) \in Nat
    BY LenProperties DEF WellCut
  <1>2. /\ fg \in Seq(Seq(Blocks)) /\ Len(fg) = Len(f) + Len(g)
        /\ \A i \in 1 .. Len(f) + Len(g) : fg[i] = IF i <= Len(f) THEN f[i] ELSE g[i - Len(f)]
    BY <1>1, ConcatProperties
  <1> HIDE DEF n, fg
  <1>3. ASSUME NEW i \in 1 .. Len(fg)
        PROVE  Len(fg[i]) \in 1 .. n
    <2>1. CASE i <= Len(f)
      <3>1. i \in 1 .. Len(f) /\ fg[i] = f[i]
        BY <1>1, <1>2, <2>1
      <3>2. Len(f[i]) \in 1 .. n
        BY <1>1, <3>1
      <3> QED
        BY <3>1, <3>2
    <2>2. CASE ~ (i <= Len(f))
      <3>1. i - Len(f) \in 1 .. Len(g) /\ fg[i] = g[i - Len(f)]
        BY <1>1, <1>2, <2>2
      <3> QED
        BY <1>1, <3>1
    <2> QED
      BY <2>1, <2>2
  <1> QED
    BY <1>2, <1>3 DEF WellCut, fg, n

\* A message of no more frames than a window keeps the two sides together: it
\* completes one window at most, so no report is lost to a later one.
LEMMA MessageLockstep ==
  ASSUME NEW f, WellCut(f, SampleRate), NEW g, WellCut(g, SampleRate),
         Len(g) <= FramesPerWindow,
         NEW a, Ready(a), NEW r \in Seq(Reports), NEW s \in Nat,
         NEW before, before = BatchTurns(f, SampleRate)[Len(f)],
         SameButStart(a, before.analyzer), SameJudgements(r, before.windows),
         NEW x, x = Turns(a, g, s)[Len(g)],
         NEW after, after = BatchTurns(f \o g, SampleRate)[Len(f \o g)]
  PROVE  /\ SameButStart(x.analyzer, after.analyzer)
         /\ SameJudgements(r \o x.result, after.windows)
  <1> DEFINE fg    == f \o g
             whole == BatchTurns(fg, SampleRate)
             turn  == Turns(a, g, s)
             p     == Len(f)
             n     == Len(g)
             H(j)  == /\ InLoop(turn[j])
                      /\ SameButStart(turn[j].analyzer, whole[p + j].analyzer)
                      /\ SameJudgements(r \o turn[j].result, whole[p + j].windows)
                      /\ turn[j].result # << >> => Len(turn[j].analyzer.frame_buffer) < j
             S     == {j \in 0 .. n : H(j)}
  <1>1. /\ f \in Seq(Seq(Blocks)) /\ g \in Seq(Seq(Blocks)) /\ p \in Nat /\ n \in Nat
    BY LenProperties DEF WellCut
  <1>2. WellCut(fg, SampleRate)
    BY WellCutTogether
  <1>3. Len(fg) = p + n /\ \A j \in 0 .. n - 1 : fg[p + j + 1] = g[j + 1]
    <2>1. /\ Len(fg) = p + n
          /\ \A i \in 1 .. p + n : fg[i] = IF i <= p THEN f[i] ELSE g[i - p]
      BY <1>1, ConcatProperties
    <2> HIDE DEF fg, p, n
    <2>2. ASSUME NEW j \in 0 .. n - 1
          PROVE  fg[p + j + 1] = g[j + 1]
      <3>1. p + j + 1 \in 1 .. p + n /\ ~ (p + j + 1 <= p) /\ (p + j + 1) - p = j + 1
        BY <1>1
      <3> QED
        BY <2>1, <3>1
    <2> QED
      BY <2>1, <2>2
  <1>4. /\ \A i \in 0 .. Len(fg) : InBatch(whole[i], SampleRate)
        /\ \A i \in 0 .. Len(fg) - 1 :
               /\ whole[i + 1].analyzer
                      = BatchTurn(whole[i].analyzer, fg[i + 1], i * FrameMs).analyzer
               /\ whole[i + 1].windows
                      = whole[i].windows \o BatchTurn(whole[i].analyzer, fg[i + 1], i * FrameMs).result
    <2>1. BatchRun(whole, fg, SampleRate)
      BY <1>2, SampleRateType, BatchSteps
    <2> HIDE DEF fg, whole
    <2> QED
      BY <2>1 DEF BatchRun
  <1>5. /\ turn[0] = Begun(a, s)
        /\ \A i \in 1 .. n : turn[i] = TakeFrame(turn[i - 1], g[i], s)
    BY <1>1, TurnsUnfold
  <1>6. whole[p] = before
    BY <1>1, BatchPrefix
  <1>7. FramesPerWindow \in Nat /\ (n > 0 => WindowFrames = FramesPerWindow)
    BY <1>1, WindowFramesType DEF WindowFrames
  <1> HIDE DEF fg, whole, turn, p
  <1>8. 0 \in S
    <2>1. InLoop(turn[0]) /\ turn[0].result = << >> /\ SameButStart(turn[0].analyzer, a)
      BY <1>5, BegunType DEF SameButStart
    <2>2. SameButStart(turn[0].analyzer, before.analyzer)
      BY <2>1 DEF SameButStart, SameSource
    <2>3. r \o << >> = r
      BY ConcatEmptySeq
    <2>4. p + 0 = p
      BY <1>1
    <2>5. turn[0].result \in Seq(Reports) /\ r \o turn[0].result = r
      BY <2>1, <2>3, ResultsAreReports
    <2>6. H(0)
      BY <1>6, <2>1, <2>2, <2>4, <2>5
    <2> HIDE DEF H
    <2> QED
      BY <1>1, <2>6
  <1>9. ASSUME NEW j \in 0 .. n - 1, j \in S
        PROVE  j + 1 \in S
    <2> DEFINE k     == p + j
               frame == g[j + 1]
               t     == k * FrameMs
               b     == whole[k].analyzer
               y     == BatchTurn(b, frame, t)
               z     == turn[j + 1]
               held  == Len(turn[j].analyzer.frame_buffer)
    <2>1. H(j)
      BY <1>9
    <2>2. /\ j + 1 \in 1 .. n /\ (j + 1) - 1 = j /\ j \in Nat /\ k \in Nat
          /\ k \in 0 .. Len(fg) - 1 /\ k \in 0 .. Len(fg) /\ k + 1 = p + (j + 1)
      BY <1>1, <1>3
    <2>3. frame \in Seq(Blocks)
      BY <1>1, <2>2, ElementOfSeq
    <2>4. z = TakeFrame(turn[j], frame, s)
      BY <1>5, <2>2
    <2>5. fg[k + 1] = frame
      BY <1>3
    <2>6. t \in Nat
      BY <2>2, AnalyzerAssumption
    <2>7. Ready(b) /\ whole[k].windows \in Seq(Reports)
      BY <1>4, <2>2 DEF InBatch
    <2>8. whole[k + 1].analyzer = y.analyzer /\ whole[k + 1].windows = whole[k].windows \o y.result
      BY <1>4, <2>2, <2>5
    <2>9. InLoop(turn[j]) /\ SameButStart(turn[j].analyzer, b)
      BY <2>1
    <2>10. held \in Nat
      BY <2>9, LenProperties DEF InLoop, Ready, Analyzers
    <2> HIDE DEF frame, t, y, z, b, H
    <2>11. /\ InLoop(z)
           /\ SameButStart(z.analyzer, y.analyzer)
           /\ held + 1 = WindowFrames =>
                  /\ Len(z.analyzer.frame_buffer) = 0
                  /\ \E u, v \in Reports : /\ z.result = <<u>> /\ y.result = <<v>>
                                           /\ Judgement(u) = Judgement(v)
           /\ held + 1 # WindowFrames =>
                  /\ Len(z.analyzer.frame_buffer) = held + 1
                  /\ z.result = turn[j].result
                  /\ y.result = << >>
      BY <2>3, <2>4, <2>6, <2>7, <2>9, Lockstep DEF y
    <2>12. /\ SameJudgements(r \o turn[j].result, whole[k].windows)
           /\ turn[j].result # << >> => held < j
      BY <2>1 DEF H
    <2> HIDE DEF held, k
    <2>13. CASE held + 1 = WindowFrames
      <3>1. turn[j].result = << >>
        BY <1>1, <1>7, <2>2, <2>10, <2>12, <2>13
      <3>2. r \o turn[j].result = r
        BY <3>1, ConcatEmptySeq
      <3>3. PICK u \in Reports, v \in Reports :
                z.result = <<u>> /\ y.result = <<v>> /\ Judgement(u) = Judgement(v)
        BY <2>11, <2>13
      <3>4. SameJudgements(r \o <<u>>, whole[k].windows \o <<v>>)
        BY <2>7, <2>12, <3>2, <3>3, SameJudgementsAppend
      <3>5. SameJudgements(r \o z.result, whole[k + 1].windows)
        BY <2>8, <3>3, <3>4
      <3>6. Len(z.analyzer.frame_buffer) < j + 1
        BY <2>2, <2>11, <2>13
      <3>7. H(j + 1)
        BY <2>2, <2>8, <2>11, <3>5, <3>6 DEF H, z
      <3> QED
        BY <2>2, <3>7
    <2>14. CASE held + 1 # WindowFrames
      <3>1. z.result = turn[j].result /\ whole[k + 1].windows = whole[k].windows
        BY <2>7, <2>8, <2>11, <2>14, ConcatEmptySeq
      <3>2. SameJudgements(r \o z.result, whole[k + 1].windows)
        BY <2>12, <3>1
      <3>3. z.result # << >> => Len(z.analyzer.frame_buffer) < j + 1
        BY <2>2, <2>10, <2>11, <2>12, <2>14, <3>1
      <3>4. H(j + 1)
        BY <2>2, <2>8, <2>11, <3>2, <3>3 DEF H, z
      <3> QED
        BY <2>2, <3>4
    <2> QED
      BY <2>13, <2>14
  <1>10. \A j \in 0 .. n : j \in S
    <2> HIDE DEF S, n
    <2> QED
      BY <1>1, <1>8, <1>9, BoundedInduction
  <1>11. H(n)
    BY <1>1, <1>10
  <1>12. x = turn[n] /\ after = whole[p + n]
    BY <1>3 DEF turn, whole, fg
  <1> QED
    BY <1>11, <1>12

\* A message that is no longer than a window has no more frames than one.
LEMMA FramesOfAWindow ==
  ASSUME NEW m \in Seq(Blocks), Len(m) <= FrameBlocks(SampleRate) * FramesPerWindow
  PROVE  Len(Frames(m, SampleRate)) <= FramesPerWindow
  <1> DEFINE n == FrameBlocks(SampleRate)
             c == FrameCount(Len(m), n)
             w == FramesPerWindow
  <1>1. n \in Nat \ {0} /\ Len(m) \in Nat /\ w \in Nat
    BY SampleRateType, FrameBlocksType, WindowFramesType, LenProperties
  <1>2. Len(Frames(m, SampleRate)) = c
    BY SampleRateType, FramesType DEF AreFrames
  <1>3. Len(m) <= n * w
    OBVIOUS
  <1> HIDE DEF n, w
  <1>4. c \in Nat /\ c * n < Len(m) + n
    BY <1>1, FrameCountType
  <1> HIDE DEF c
  <1>5. c * n < (w + 1) * n
    BY <1>1, <1>3, <1>4
  <1>6. c <= w
    <2>1. c > w => c >= w + 1 /\ (w + 1) * n <= c * n
      BY <1>1, <1>4
    <2> QED
      BY <1>1, <1>4, <1>5, <2>1
  <1> QED
    BY <1>2, <1>6 DEF w

LEMMA AudioIsWellCut ==
  ASSUME NEW samples \in Seq(Blocks)
  PROVE  WellCut(Frames(samples, SampleRate), SampleRate)
  BY SampleRateType, FramesType DEF AreFrames, WellCut
-----------------------------------------------------------------------------
(***************************************************************************)
(* The frames of a window and its samples.                                 *)
(***************************************************************************)

\* what is measured of each of some frames
Analyzed(frames) == [i \in 1 .. Len(frames) |-> AnalyzeFrame(frames[i])]

\* an analyzer whose window holds whole frames, and those of its samples
Whole(a) ==
    /\ HoldsItsFrames(a)
    /\ Len(a.window_buffer) % FrameBlocks(a.sample_rate) = 0

LEMMA AnalyzedOneMore ==
  ASSUME NEW frames \in Seq(Seq(Blocks)), NEW frame \in Seq(Blocks),
         NEW one \in Seq(Seq(Blocks)), Len(one) = 1, one[1] = frame
  PROVE  Analyzed(frames \o one) = Append(Analyzed(frames), AnalyzeFrame(frame))
  <1> DEFINE n  == Len(frames)
             more == frames \o one
             x  == Analyzed(more)
             y  == Analyzed(frames)
             f  == AnalyzeFrame(frame)
             z  == Append(y, f)
  <1> HIDE DEF x, y, z, f
  <1>1. n \in Nat
    BY LenProperties
  <1>2. /\ Len(more) = n + 1
        /\ \A i \in 1 .. n + 1 : more[i] = IF i <= n THEN frames[i] ELSE one[i - n]
    <2> DEFINE T == Seq(Blocks)
    <2>1. frames \in Seq(T) /\ one \in Seq(T) /\ Len(one) = 1
      OBVIOUS
    <2> HIDE DEF T
    <2>2. /\ Len(more) = Len(frames) + Len(one)
          /\ \A i \in 1 .. Len(frames) + Len(one) :
                 more[i] = IF i <= Len(frames) THEN frames[i] ELSE one[i - Len(frames)]
      BY <2>1, ConcatProperties
    <2> QED
      BY <2>1, <2>2
  <1> HIDE DEF more
  <1>3. \A i \in 1 .. n : frames[i] \in Seq(Blocks)
    BY ElementOfSeq
  <1>4. f \in FrameMetrics /\ \A i \in 1 .. n : AnalyzeFrame(frames[i]) \in FrameMetrics
    BY <1>3 DEF FrameMetrics, f
  <1>5. y \in [1 .. n -> FrameMetrics] /\ \A i \in 1 .. n : y[i] = AnalyzeFrame(frames[i])
    BY <1>4 DEF Analyzed, f, y
  <1>6. y \in Seq(FrameMetrics) /\ Len(y) = n
    <2>1. n \in Nat /\ y \in [1 .. n -> FrameMetrics]
      BY <1>1, <1>5
    <2> HIDE DEF n, FrameMetrics
    <2>2. y \in Seq(FrameMetrics)
      BY <2>1
    <2> QED
      BY <2>1, <2>2, LenProperties
  <1>7. /\ z \in Seq(FrameMetrics) /\ Len(z) = n + 1 /\ z[n + 1] = f
        /\ \A i \in 1 .. n : z[i] = y[i]
    BY <1>4, <1>6, AppendProperties DEF z
  <1>8. z \in [1 .. n + 1 -> FrameMetrics]
    BY <1>7, LenProperties
  <1>9. x = [i \in 1 .. n + 1 |-> AnalyzeFrame(more[i])]
    BY <1>2 DEF Analyzed, x
  <1>10. ASSUME NEW i \in 1 .. n + 1
         PROVE  AnalyzeFrame(more[i]) = z[i]
    <2>1. CASE i <= n
      <3>1. i \in 1 .. n /\ more[i] = frames[i]
        BY <1>1, <1>2, <2>1
      <3> QED
        BY <1>5, <1>7, <3>1
    <2>2. CASE ~ (i <= n)
      <3>1. i = n + 1 /\ i - n = 1
        BY <1>1, <2>2
      <3>2. more[i] = frame
        BY <1>2, <2>2, <3>1
      <3> QED
        BY <1>7, <3>1, <3>2 DEF f
    <2> QED
      BY <2>1, <2>2
  <1>11. x = z
    BY <1>8, <1>9, <1>10
  <1> QED
    BY <1>11 DEF x, y, z, f, more

\* A frame that goes into both buffers of a window of whole frames.
LEMMA HeldFrame ==
  ASSUME NEW a \in Analyzers, Whole(a), NEW frame \in Seq(Blocks),
         Len(frame) \in 1 .. FrameBlocks(a.sample_rate)
  PROVE  /\ HoldsItsFrames(WithFrame(a, frame))
         /\ Len(frame) = FrameBlocks(a.sample_rate) => Whole(WithFrame(a, frame))
  <1> DEFINE n  == FrameBlocks(a.sample_rate)
             wb == a.window_buffer
             b  == WithFrame(a, frame)
             fs == Frames(wb, a.sample_rate)
             one == Frames(frame, a.sample_rate)
  <1>1. /\ a.sample_rate \in {50, 100} /\ wb \in Seq(Blocks)
        /\ Len(wb) \in Nat /\ Len(frame) \in Nat
    BY LenProperties DEF Analyzers
  <1>2. /\ b.frame_buffer = Append(a.frame_buffer, AnalyzeFrame(frame))
        /\ b.window_buffer = wb \o frame /\ b.sample_rate = a.sample_rate
    BY WithFrameType DEF SameSource
  <1>3. n \in Nat \ {0} /\ Len(wb) % n = 0 /\ a.frame_buffer = Analyzed(fs)
    BY <1>1, FrameBlocksType DEF Whole, HoldsItsFrames, Analyzed
  <1>4. Len(one) = 1 /\ one[1] = frame
    BY <1>1, FramesOfOne
  <1>5. fs \in Seq(Seq(Blocks)) /\ one \in Seq(Seq(Blocks))
    BY <1>1, FramesType DEF AreFrames
  <1>6. Frames(wb \o frame, a.sample_rate) = fs \o one
    <2>1. Len(wb) % FrameBlocks(a.sample_rate) = 0
      BY <1>3
    <2> DEFINE rate == a.sample_rate
    <2>2. rate \in {50, 100} /\ wb \in Seq(Blocks)
      BY <1>1
    <2> HIDE DEF wb, rate
    <2> QED
      BY <2>1, <2>2, FramesOfConcatenation DEF rate
  <1> HIDE DEF fs, one, b
  <1>7. Analyzed(fs \o one) = Append(Analyzed(fs), AnalyzeFrame(frame))
    BY <1>4, <1>5, AnalyzedOneMore
  <1>8. HoldsItsFrames(b)
    <2>1. Frames(b.window_buffer, b.sample_rate) = fs \o one
      BY <1>2, <1>6
    <2>2. b.frame_buffer = Analyzed(fs \o one)
      BY <1>2, <1>3, <1>7
    <2> QED
      BY <2>1, <2>2 DEF HoldsItsFrames, Analyzed
  <1>9. ASSUME Len(frame) = n
        PROVE  Len(b.window_buffer) % n = 0
    <2> DEFINE x == Len(wb)
               y == Len(frame)
    <2>1. Len(b.window_buffer) = x + y
      BY <1>1, <1>2, ConcatProperties
    <2>2. x \in Int /\ y \in Int /\ x % n = 0 /\ y = n
      BY <1>1, <1>3, <1>9
    <2> HIDE DEF x, y, n
    <2>3. y % n = 0
      BY <1>3, <2>2
    <2>4. (x + y) % n = 0
      BY <1>3, <2>2, <2>3, ModOfSum
    <2> QED
      BY <2>1, <2>4
  <1> QED
    BY <1>2, <1>8, <1>9 DEF Whole, b, n

\* An empty window holds the frames of no samples.
LEMMA HeldNothing ==
  ASSUME NEW a, a.sample_rate \in {50, 100}, a.frame_buffer = << >>, a.window_buffer = << >>
  PROVE  Whole(a)
  <1> DEFINE n == FrameBlocks(a.sample_rate)
  <1>1. Frames(<< >>, a.sample_rate) = << >> /\ Len(<< >>) = 0 /\ n \in Nat \ {0}
    BY FramesOfSilence, FrameBlocksType, EmptySeq
  <1>2. a.frame_buffer = [i \in 1 .. 0 |-> AnalyzeFrame(<< >>[i])]
    OBVIOUS
  <1>3. HoldsItsFrames(a)
    BY <1>1, <1>2 DEF HoldsItsFrames
  <1> HIDE DEF n
  <1>4. 0 % n = 0
    BY <1>1
  <1> QED
    BY <1>1, <1>3, <1>4 DEF Whole, n

\* A turn leaves a window that holds its frames, or a new one.
LEMMA HeldTurn ==
  ASSUME NEW state, InLoop(state), Whole(state.analyzer), NEW frame \in Seq(Blocks),
         Len(frame) \in 1 .. FrameBlocks(state.analyzer.sample_rate), NEW stamp \in Nat,
         NEW x, x = TakeFrame(state, frame, stamp).analyzer
  PROVE  /\ HoldsItsFrames(x)
         /\ Len(frame) = FrameBlocks(state.analyzer.sample_rate) => Whole(x)
  <1> DEFINE a    == state.analyzer
             held == WithFrame(a, frame)
             full == Len(a.frame_buffer) + 1 = WindowFrames
             shut == CloseWindow(held, stamp)
  <1>1. a \in Analyzers
    BY DEF InLoop, Ready
  <1>2. (full => x = shut.analyzer) /\ (~ full => x = held)
    BY TakeFrameType
  <1>3. /\ HoldsItsFrames(held)
        /\ Len(frame) = FrameBlocks(a.sample_rate) => Whole(held)
    BY <1>1, HeldFrame
  <1>4. held \in Analyzers
    BY <1>1, WithFrameType
  <1> HIDE DEF held
  <1>5. Whole(shut.analyzer)
    <2>1. /\ InLoop(shut) /\ shut.analyzer.frame_buffer = << >>
          /\ shut.analyzer.window_buffer = << >>
      BY <1>4, CloseWindowType
    <2> HIDE DEF shut
    <2>2. shut.analyzer.sample_rate \in {50, 100}
      BY <2>1 DEF InLoop, Ready, Analyzers
    <2> QED
      BY <2>1, <2>2, HeldNothing
  <1> HIDE DEF full, shut
  <1> QED
    BY <1>2, <1>3, <1>5 DEF Whole

\* Every frame but the last is a full one, and the last too when the samples
\* are whole frames.
LEMMA FullFrames ==
  ASSUME NEW sample_rate \in {50, 100}, NEW samples \in Seq(Blocks),
         NEW i \in 1 .. Len(Frames(samples, sample_rate)),
         \/ i < Len(Frames(samples, sample_rate))
         \/ Len(samples) % FrameBlocks(sample_rate) = 0
  PROVE  Len(Frames(samples, sample_rate)[i]) = FrameBlocks(sample_rate)
  <1> DEFINE n  == FrameBlocks(sample_rate)
             fs == Frames(samples, sample_rate)
             l  == Len(samples)
             c  == FrameCount(l, n)
             b  == (i - 1) * n
             e  == i * n
  <1>1. n \in Nat \ {0} /\ l \in Nat
    BY FrameBlocksType, LenProperties
  <1>2. AreFrames(fs, samples, n)
    BY FramesType
  <1>3. i \in 1 .. Len(fs) /\ (i < Len(fs) \/ l % n = 0)
    OBVIOUS
  <1> HIDE DEF n, fs, l
  <1>4. /\ c \in Nat /\ l <= c * n /\ c * n < l + n
        /\ \A p \in Nat : l <= p * n /\ p * n < l + n => c = p
    BY <1>1, FrameCountType
  <1>5. Len(fs) = c /\ fs[i] = FrameAt(samples, n, i)
    BY <1>2, <1>3 DEF AreFrames, l
  <1> HIDE DEF c
  <1>6. i \in 1 .. c /\ i \in Nat
    BY <1>3, <1>4, <1>5
  <1>7. b \in Nat /\ e \in Nat /\ e = b + n /\ b < e
    BY <1>1, <1>6
  <1>8. e <= l
    <2>1. CASE i < c
      <3>1. (i + 1) * n <= c * n /\ (i + 1) * n = e + n
        BY <1>1, <1>4, <1>6, <2>1
      <3> QED
        BY <1>1, <1>4, <1>7, <3>1
    <2>2. CASE i = c /\ l % n = 0
      <3> DEFINE p == l \div n
      <3>1. p \in Int /\ l = p * n
        BY <1>1, <2>2, DivMod
      <3> HIDE DEF p
      <3>2. p >= 0
        <4>1. p < 0 => p * n < 0
          BY <1>1, <3>1
        <4> QED
          BY <1>1, <3>1, <4>1
      <3>3. p \in Nat /\ l <= p * n /\ p * n < l + n
        BY <1>1, <3>1, <3>2
      <3>4. c = p
        BY <1>4, <3>3
      <3> QED
        BY <1>1, <2>2, <3>1, <3>4
    <2> QED
      BY <1>3, <1>5, <1>6, <2>1, <2>2
  <1>9. FrameAt(samples, n, i) = SubSeq(samples, b + 1, e)
    <2>1. Min({e, l}) = e
      BY <1>1, <1>7, <1>8, MinOfTwo
    <2> QED
      BY <2>1 DEF FrameAt, Stretch, l
  <1> HIDE DEF b, e
  <1>10. b + 1 \in 1 .. l /\ e \in b + 1 .. l
    BY <1>1, <1>7, <1>8
  <1>11. \A j \in b + 1 .. e : samples[j] \in Blocks
    <2>1. \A j \in b + 1 .. e : j \in 1 .. Len(samples)
      BY <1>1, <1>7, <1>8 DEF l
    <2> QED
      BY <2>1, ElementOfSeq
  <1>12. Len(SubSeq(samples, b + 1, e)) = e - (b + 1) + 1
    BY <1>1, <1>7, <1>10, <1>11, SubSeqProperties
  <1> QED
    BY <1>1, <1>5, <1>7, <1>9, <1>12 DEF fs, n

\* A push into a window that holds its frames leaves one that does; and the
\* window stays whole when the samples are.
LEMMA HeldPush ==
  ASSUME NEW a, Ready(a), Whole(a), NEW samples \in Seq(Blocks), NEW stamp \in Nat,
         NEW x, x = PushPcm(a, samples, stamp).analyzer
  PROVE  /\ HoldsItsFrames(x)
         /\ Len(samples) % FrameBlocks(a.sample_rate) = 0 => Whole(x)
  <1> DEFINE n    == FrameBlocks(a.sample_rate)
             fs   == Frames(samples, a.sample_rate)
             c    == Len(fs)
             turn == Turns(a, fs, stamp)
             even == Len(samples) % n = 0
             H(j) == /\ HoldsItsFrames(turn[j].analyzer)
                     /\ j < c \/ even => Whole(turn[j].analyzer)
             S    == {j \in 0 .. c : H(j)}
  <1>1. a.sample_rate \in {50, 100}
    BY DEF Ready, Analyzers
  <1>2. /\ fs \in Seq(Seq(Blocks)) /\ c \in Nat
        /\ \A i \in 1 .. c : Len(fs[i]) \in 1 .. n
    BY <1>1, FramesType, LenProperties DEF AreFrames
  <1>3. \A i \in 1 .. c : i < c \/ even => Len(fs[i]) = n
    BY <1>1, FullFrames
  <1>4. \A i \in 0 .. c : InLoop(turn[i]) /\ SameSource(turn[i].analyzer, a)
    BY <1>2, TurnsType
  <1>5. /\ turn[0] = Begun(a, stamp)
        /\ \A i \in 1 .. c : turn[i] = TakeFrame(turn[i - 1], fs[i], stamp)
    BY <1>2, TurnsUnfold
  <1>6. x = turn[c].analyzer
    BY DEF PushPcm
  <1> HIDE DEF fs, turn, even, n, c
  <1>7. 0 \in S
    <2>1. /\ turn[0].analyzer.frame_buffer = a.frame_buffer
          /\ turn[0].analyzer.window_buffer = a.window_buffer
          /\ turn[0].analyzer.sample_rate = a.sample_rate
      BY <1>5, BegunType DEF SameSource
    <2>2. Whole(turn[0].analyzer)
      BY <2>1 DEF Whole, HoldsItsFrames
    <2> QED
      BY <1>2, <2>2 DEF Whole
  <1>8. ASSUME NEW j \in 0 .. c - 1, j \in S
        PROVE  j + 1 \in S
    <2> DEFINE t == turn[j]
               f == fs[j + 1]
               y == turn[j + 1].analyzer
    <2>1. /\ j + 1 \in 1 .. c /\ j \in 0 .. c /\ j + 1 \in 0 .. c
          /\ (j + 1) - 1 = j /\ j < c
      BY <1>2
    <2>2. InLoop(t) /\ t.analyzer.sample_rate = a.sample_rate /\ Whole(t.analyzer)
      BY <1>4, <1>8, <2>1 DEF SameSource
    <2>3. /\ f \in Seq(Blocks) /\ Len(f) \in 1 .. n
          /\ j + 1 < c \/ even => Len(f) = n
      BY <1>2, <1>3, <2>1, ElementOfSeq DEF c
    <2>4. y = TakeFrame(t, f, stamp).analyzer
      BY <1>5, <2>1
    <2> HIDE DEF t, f, y
    <2>5. HoldsItsFrames(y) /\ (Len(f) = n => Whole(y))
      BY <2>2, <2>3, <2>4, HeldTurn DEF n
    <2>6. H(j + 1)
      BY <2>3, <2>5 DEF y
    <2> HIDE DEF H
    <2> QED
      BY <2>1, <2>6
  <1>9. \A j \in 0 .. c : j \in S
    <2> HIDE DEF S
    <2> QED
      BY <1>2, <1>7, <1>8, BoundedInduction
  <1>10. H(c)
    BY <1>2, <1>9
  <1> QED
    BY <1>6, <1>10 DEF even, n
-----------------------------------------------------------------------------
(***************************************************************************)
(* The inductive invariant: types, and the session beside the batch.       *)
(***************************************************************************)

\* every message so far is made of whole frames
AllWhole == \A i \in 1 .. Len(sent) : Len(sent[i]) % FrameBlocks(SampleRate) = 0

TypeInv ==
    /\ interface \in {"WebSocket", "CallerStamped"}
    /\ sent \in Seq(Messages)
    /\ Ready(session)
    /\ SameSource(session, NewAnalyzer(SampleRate))
    /\ reports \in Seq(Reports)
    /\ IF interface = "WebSocket" THEN HandshakeMs \in HandshakeStamps ELSE timestamp_ms = 0
    /\ timestamp_ms \in Nat
    /\ Audio \in Seq(Blocks)
    /\ AllWhole => Len(Audio) % FrameBlocks(SampleRate) = 0
    /\ AllWhole => Whole(session)
    /\ WholeFrames => HoldsItsFrames(session)

\* where the batch of some audio ends
BatchEnd(samples) ==
    BatchTurns(Frames(samples, SampleRate), SampleRate)[Len(Frames(samples, SampleRate))]

InStep(a, said, samples) ==
    /\ SameButStart(a, BatchEnd(samples).analyzer)
    /\ SameJudgements(said, BatchEnd(samples).windows)

AgreeInv == WholeFrames /\ OneWindowEach => InStep(session, reports, Audio)

IInv == TypeInv /\ AgreeInv

\* One more message in the audio sent.
LEMMA AudioOfOneMore ==
  ASSUME NEW s \in Seq(Messages), NEW m \in Messages, FlattenSeq(s) \in Seq(Blocks)
  PROVE  FlattenSeq(Append(s, m)) = FlattenSeq(s) \o m
  <1>1. m \in Seq(Blocks) /\ s \in Seq(Seq(Blocks))
    <2>1. \A i \in 1 .. Len(s) : s[i] \in Seq(Blocks)
      BY MessagesAreAudio, ElementOfSeq
    <2> QED
      BY <2>1, MessagesAreAudio, LenProperties
  <1>2. FlattenSeq(<< >>) = << >>
    BY EmptySeq DEF FlattenSeq
  <1>3. << >> \o m = m
    BY <1>1, ConcatEmptySeq
  <1> QED
    BY <1>1, <1>2, <1>3, FlattenAppend

\* A session and a batch in step stay in step over a message, when the audio
\* before it is whole frames and the message no longer than a window.
LEMMA MessageKeepsStep ==
  ASSUME NEW a, Ready(a), NEW said \in Seq(Reports), NEW samples \in Seq(Blocks),
         NEW m \in Seq(Blocks), NEW stamp \in Nat,
         a.sample_rate = SampleRate, InStep(a, said, samples),
         Len(samples) % FrameBlocks(SampleRate) = 0,
         Len(m) <= FrameBlocks(SampleRate) * FramesPerWindow
  PROVE  InStep(PushPcm(a, m, stamp).analyzer, said \o PushPcm(a, m, stamp).result, samples \o m)
  <1> DEFINE f      == Frames(samples, SampleRate)
             g      == Frames(m, SampleRate)
             before == BatchTurns(f, SampleRate)[Len(f)]
             x      == Turns(a, g, stamp)[Len(g)]
             after  == BatchTurns(f \o g, SampleRate)[Len(f \o g)]
  <1>1. WellCut(f, SampleRate) /\ WellCut(g, SampleRate)
    BY AudioIsWellCut
  <1>2. Len(g) <= FramesPerWindow
    BY FramesOfAWindow
  <1>3. PushPcm(a, m, stamp) = x
    BY DEF PushPcm
  <1>4. Frames(samples \o m, SampleRate) = f \o g
    BY SampleRateType, FramesOfConcatenation
  <1>5. BatchEnd(samples) = before /\ BatchEnd(samples \o m) = after
    BY <1>4 DEF BatchEnd
  <1> HIDE DEF f, g
  <1>6. SameButStart(a, before.analyzer) /\ SameJudgements(said, before.windows)
    BY <1>5 DEF InStep
  <1>7. /\ SameButStart(x.analyzer, after.analyzer)
        /\ SameJudgements(said \o x.result, after.windows)
    BY <1>1, <1>2, <1>6, MessageLockstep
  <1> HIDE DEF x, before, after
  <1> QED
    BY <1>3, <1>5, <1>7 DEF InStep

LEMMA InitIsInStep ==
  ASSUME Init
  PROVE  IInv
  <1> DEFINE new == NewAnalyzer(SampleRate)
  <1>1. Ready(new) /\ SameSource(new, new)
    BY SampleRateType, NewAnalyzerType DEF SameSource
  <1>2. /\ sent = << >> /\ session = new /\ reports = << >>
        /\ interface \in {"WebSocket", "CallerStamped"}
        /\ timestamp_ms \in IF interface = "WebSocket" THEN HandshakeStamps ELSE {0}
    BY DEF Init
  <1>3. /\ << >> \in Seq(Blocks) /\ << >> \in Seq(Messages) /\ << >> \in Seq(Reports)
        /\ Len(<< >>) = 0
    BY EmptySeq
  <1>4. Audio = << >>
    BY <1>2, <1>3 DEF Audio, FlattenSeq
  <1>5. Frames(Audio, SampleRate) = << >>
    BY <1>4, SampleRateType, FramesOfSilence
  <1>6. BatchEnd(Audio) = [analyzer |-> new, windows |-> << >>]
    BY <1>3, <1>5, BatchUnfolds DEF BatchEnd
  <1> HIDE DEF new
  <1>7. InStep(session, reports, Audio)
    <2>1. SameButStart(new, new) /\ SameJudgements(<< >>, << >>)
      BY <1>1, <1>3 DEF SameButStart, SameJudgements
    <2> QED
      BY <1>2, <1>6, <2>1 DEF InStep
  <1>8. Len(Audio) % FrameBlocks(SampleRate) = 0
    <2> DEFINE n == FrameBlocks(SampleRate)
    <2>1. n \in Nat \ {0}
      BY SampleRateType, FrameBlocksType
    <2> HIDE DEF n
    <2>2. 0 % n = 0
      BY <2>1
    <2> QED
      BY <1>3, <1>4, <2>2 DEF n
  <1>9. /\ IF interface = "WebSocket" THEN HandshakeMs \in HandshakeStamps ELSE timestamp_ms = 0
        /\ timestamp_ms \in Nat
    <2>1. timestamp_ms \in Nat
      BY <1>2, AgreementAssumption
    <2>2. HandshakeMs = timestamp_ms
      BY <1>2, <1>3, <2>1 DEF HandshakeMs
    <2> QED
      BY <1>2, <2>1, <2>2
  <1>10. Whole(session)
    <2>1. /\ session.frame_buffer = << >> /\ session.window_buffer = << >>
          /\ session.sample_rate \in {50, 100}
      BY <1>2, SampleRateType DEF NewAnalyzer, new
    <2> QED
      BY <2>1, HeldNothing
  <1>11. TypeInv
    BY <1>1, <1>2, <1>3, <1>4, <1>8, <1>9, <1>10 DEF TypeInv, Whole, new
  <1> QED
    BY <1>7, <1>11 DEF IInv, AgreeInv

\* What every message does, whoever stamps it.
LEMMA PushKeeps ==
  ASSUME IInv, NEW samples \in Messages, NEW stamp \in Nat, Push(samples, stamp)
  PROVE  /\ sent' \in Seq(Messages)
         /\ Ready(session') /\ SameSource(session', NewAnalyzer(SampleRate))
         /\ reports' \in Seq(Reports)
         /\ Len(reports') \in {Len(reports), Len(reports) + 1}
         /\ Audio' \in Seq(Blocks)
         /\ AllWhole' => Len(Audio') % FrameBlocks(SampleRate) = 0
         /\ AllWhole' => Whole(session')
         /\ WholeFrames' => HoldsItsFrames(session')
         /\ AgreeInv'
  <1> DEFINE n      == FrameBlocks(SampleRate)
             pushed == PushPcm(session, samples, stamp)
             l      == Len(sent)
  <1>1. /\ sent \in Seq(Messages) /\ Ready(session)
        /\ SameSource(session, NewAnalyzer(SampleRate))
        /\ reports \in Seq(Reports) /\ Audio \in Seq(Blocks)
        /\ AllWhole => Len(Audio) % n = 0
        /\ AllWhole => Whole(session)
    BY DEF IInv, TypeInv
  <1>2. /\ session' = pushed.analyzer /\ reports' = reports \o pushed.result
        /\ sent' = Append(sent, samples)
    BY DEF Push
  <1>3. samples \in Seq(Blocks)
    BY MessagesAreAudio
  <1>4. InLoop(pushed) /\ SameSource(pushed.analyzer, session)
    BY <1>1, <1>3, PushPcmType
  <1>5. session.sample_rate = SampleRate
    BY <1>1, SampleRateType, NewAnalyzerType DEF SameSource
  <1>6. n \in Nat \ {0}
    BY SampleRateType, FrameBlocksType
  <1> HIDE DEF pushed, n
  <1>7. /\ sent' \in Seq(Messages) /\ l \in Nat /\ Len(sent') = l + 1
        /\ sent'[l + 1] = samples /\ \A i \in 1 .. l : sent'[i] = sent[i]
    BY <1>1, <1>2, LenProperties, AppendProperties
  <1>8. Ready(session') /\ SameSource(session', NewAnalyzer(SampleRate))
    BY <1>1, <1>2, <1>4 DEF InLoop, SameSource
  <1>9. reports' \in Seq(Reports) /\ Len(reports') \in {Len(reports), Len(reports) + 1}
    <2>1. pushed.result \in Seq(Reports)
      BY <1>4, ResultsAreReports
    <2>2. Len(pushed.result) \in {0, 1}
      BY <1>4, EmptySeq DEF InLoop, NoReport, OneReport
    <2>3. Len(reports) \in Nat
      BY <1>1, LenProperties
    <2>4. reports \in Seq(Reports) /\ reports' = reports \o pushed.result
      BY <1>1, <1>2
    <2> HIDE DEF Reports
    <2>5. reports' \in Seq(Reports) /\ Len(reports') = Len(reports) + Len(pushed.result)
      BY ONLY <2>1, <2>4, ConcatProperties
    <2>6. Len(reports') \in {Len(reports), Len(reports) + 1}
      <3> DEFINE x == Len(reports)
                 y == Len(pushed.result)
                 z == Len(reports')
      <3>1. x \in Nat /\ y \in {0, 1} /\ z = x + y
        BY <2>2, <2>3, <2>5
      <3> HIDE DEF x, y, z
      <3>2. z \in {x, x + 1}
        BY <3>1
      <3> QED
        BY <3>2 DEF x, z
    <2> QED
      BY <2>5, <2>6
  <1>10. Audio' = Audio \o samples
    BY <1>1, <1>2, AudioOfOneMore DEF Audio
  <1>11. Audio' \in Seq(Blocks) /\ Len(Audio') = Len(Audio) + Len(samples)
    BY <1>1, <1>3, <1>10, ConcatProperties
  <1> HIDE DEF l
  <1>12. AllWhole' => Len(Audio') % n = 0
    <2> SUFFICES ASSUME AllWhole'
                 PROVE  Len(Audio') % n = 0
      OBVIOUS
    <2>1. \A i \in 1 .. l + 1 : Len(sent'[i]) % n = 0
      BY <1>7 DEF AllWhole, n
    <2>2. Len(samples) % n = 0 /\ \A i \in 1 .. l : Len(sent[i]) % n = 0
      <3>1. l + 1 \in 1 .. l + 1 /\ \A i \in 1 .. l : i \in 1 .. l + 1
        BY <1>7
      <3> QED
        BY <1>7, <2>1, <3>1
    <2>3. Len(Audio) % n = 0
      BY <1>1, <2>2 DEF AllWhole, n, l
    <2>4. Len(Audio) \in Nat /\ Len(samples) \in Nat
      BY <1>1, <1>3, LenProperties
    <2> DEFINE x == Len(Audio)
               y == Len(samples)
    <2>5. x \in Nat /\ y \in Nat /\ x % n = 0 /\ y % n = 0 /\ Len(Audio') = x + y
      BY <1>11, <2>2, <2>3, <2>4
    <2> HIDE DEF x, y
    <2>6. (x + y) % n = 0
      <3>1. x \in Int /\ y \in Int
        BY <2>5
      <3>2. x % n = 0 /\ y % n = 0
        BY <2>5
      <3> QED
        BY ONLY <1>6, <3>1, <3>2, ModOfSum
    <2> QED
      BY <2>5, <2>6
  <1>13. WholeFrames' => AllWhole
    <2> SUFFICES ASSUME WholeFrames'
                 PROVE  \A i \in 1 .. l : Len(sent[i]) % n = 0
      BY DEF AllWhole, n, l
    <2>1. \A i \in 1 .. (l + 1) - 1 : Len(sent'[i]) % n = 0
      BY <1>7 DEF WholeFrames, n
    <2>2. (l + 1) - 1 = l
      BY <1>7
    <2> QED
      BY <1>7, <2>1, <2>2
  <1>14. /\ AllWhole' => Whole(session')
         /\ WholeFrames' => HoldsItsFrames(session')
    <2> SUFFICES ASSUME WholeFrames'
                 PROVE  /\ AllWhole' => Whole(session')
                        /\ HoldsItsFrames(session')
      <3>1. AllWhole' => WholeFrames'
        <4>1. \A i \in 1 .. (l + 1) - 1 : i \in 1 .. l + 1
          BY <1>7
        <4> QED
          BY <1>7, <4>1 DEF AllWhole, WholeFrames
      <3> QED
        BY <3>1
    <2>1. Whole(session)
      BY <1>1, <1>13
    <2>2. /\ HoldsItsFrames(session')
          /\ Len(samples) % FrameBlocks(session.sample_rate) = 0 => Whole(session')
      BY <1>1, <1>2, <1>3, <2>1, HeldPush DEF pushed
    <2>3. AllWhole' => Len(samples) % n = 0
      <3>1. l + 1 \in 1 .. l + 1
        BY <1>7
      <3> QED
        BY <1>7, <3>1 DEF AllWhole, n
    <2> QED
      BY <1>5, <2>2, <2>3 DEF n
  <1>15. AgreeInv'
    <2> SUFFICES ASSUME WholeFrames', OneWindowEach'
                 PROVE  InStep(session', reports', Audio')
      BY DEF AgreeInv
    <2>1. \A i \in 1 .. l : Len(sent[i]) % n = 0
      BY <1>13 DEF AllWhole, n, l
    <2>2. /\ Len(samples) <= n * FramesPerWindow
          /\ \A i \in 1 .. l : Len(sent[i]) <= n * FramesPerWindow
      <3>1. \A i \in 1 .. l + 1 : Len(sent'[i]) <= n * FramesPerWindow
        BY <1>7 DEF OneWindowEach, n
      <3>2. l + 1 \in 1 .. l + 1 /\ \A i \in 1 .. l : i \in 1 .. l + 1
        BY <1>7
      <3> QED
        BY <1>7, <3>1, <3>2
    <2>3. Len(Audio) % n = 0
      BY <1>1, <2>1 DEF AllWhole, n, l
    <2>4. WholeFrames /\ OneWindowEach
      <3>1. \A i \in 1 .. l - 1 : i \in 1 .. l
        BY <1>7
      <3> QED
        BY <2>1, <2>2, <3>1 DEF WholeFrames, OneWindowEach, n, l
    <2>5. InStep(session, reports, Audio)
      BY <2>4 DEF IInv, AgreeInv
    <2>6. InStep(pushed.analyzer, reports \o pushed.result, Audio \o samples)
      BY <1>1, <1>3, <1>5, <2>2, <2>3, <2>5, MessageKeepsStep DEF n, pushed
    <2> QED
      BY <1>2, <1>10, <2>6
  <1> QED
    BY <1>7, <1>8, <1>9, <1>11, <1>12, <1>14, <1>15 DEF n

\* The clock of the audio is a number.
LEMMA AudioMsType ==
  ASSUME TypeInv
  PROVE  AudioMs \in Nat
  <1> DEFINE l == Len(Audio)
             thousand == 1000
             x == l * thousand
  <1>1. l \in Nat
    BY LenProperties DEF TypeInv
  <1>2. thousand \in Nat
    OBVIOUS
  <1>3. AudioMs = x \div SampleRate
    BY DEF AudioMs
  <1> HIDE DEF l, thousand
  <1>4. x \in Nat
    BY <1>1, <1>2
  <1> HIDE DEF x
  <1>5. x \div 50 \in Nat /\ x \div 100 \in Nat
    BY <1>4
  <1> QED
    BY <1>3, <1>5, SampleRateType

LEMMA NextKeepsStep ==
  ASSUME IInv, [Next]_vars
  PROVE  IInv'
  <1>t. TypeInv /\ AgreeInv
    BY DEF IInv
  <1>1. ASSUME NEW samples \in Messages, WsMessage(samples)
        PROVE  IInv'
    <2>1. /\ interface = "WebSocket" /\ interface' = interface
          /\ Push(samples, timestamp_ms)
          /\ timestamp_ms' = IF Len(reports') > Len(reports) THEN timestamp_ms + 20
                             ELSE timestamp_ms
      BY <1>1 DEF WsMessage
    <2>2. Len(reports) \in Nat /\ HandshakeMs \in HandshakeStamps
      BY <1>t, <2>1, LenProperties DEF TypeInv
    <2>3. timestamp_ms \in Nat
      BY <1>t DEF TypeInv
    <2>4. /\ sent' \in Seq(Messages)
          /\ Ready(session') /\ SameSource(session', NewAnalyzer(SampleRate))
          /\ reports' \in Seq(Reports)
          /\ Len(reports') \in {Len(reports), Len(reports) + 1}
          /\ Audio' \in Seq(Blocks)
          /\ AllWhole' => Len(Audio') % FrameBlocks(SampleRate) = 0
          /\ AllWhole' => Whole(session')
          /\ WholeFrames' => HoldsItsFrames(session')
          /\ AgreeInv'
      BY <2>1, <2>3, PushKeeps
    <2>5. timestamp_ms' \in Nat /\ HandshakeMs' = HandshakeMs
      BY <2>1, <2>2, <2>3, <2>4 DEF HandshakeMs
    <2>6. HandshakeMs' \in HandshakeStamps
      BY <2>2, <2>5
    <2> QED
      BY <2>1, <2>4, <2>5, <2>6 DEF IInv, TypeInv
  <1>2. ASSUME NEW samples \in Messages, StampedMessage(samples)
        PROVE  IInv'
    <2>1. /\ interface = "CallerStamped" /\ interface' = interface
          /\ Push(samples, AudioMs) /\ timestamp_ms' = timestamp_ms
      BY <1>2 DEF StampedMessage
    <2>2. timestamp_ms = 0
      BY <1>t, <2>1 DEF TypeInv
    <2>3. AudioMs \in Nat
      BY <1>t, AudioMsType
    <2>4. /\ sent' \in Seq(Messages)
          /\ Ready(session') /\ SameSource(session', NewAnalyzer(SampleRate))
          /\ reports' \in Seq(Reports)
          /\ Audio' \in Seq(Blocks)
          /\ AllWhole' => Len(Audio') % FrameBlocks(SampleRate) = 0
          /\ AllWhole' => Whole(session')
          /\ WholeFrames' => HoldsItsFrames(session')
          /\ AgreeInv'
      BY <2>1, <2>3, PushKeeps
    <2> QED
      BY <2>1, <2>2, <2>4 DEF IInv, TypeInv
  <1>3. CASE UNCHANGED vars
    <2>1. Audio' = Audio /\ AllWhole' = AllWhole /\ HandshakeMs' = HandshakeMs
      BY <1>3 DEF vars, Audio, AllWhole, HandshakeMs
    <2>2. WholeFrames' = WholeFrames /\ OneWindowEach' = OneWindowEach
      BY <1>3 DEF vars, WholeFrames, OneWindowEach
    <2> QED
      BY <1>3, <1>t, <2>1, <2>2 DEF vars, IInv, TypeInv, AgreeInv
  <1> QED
    BY <1>1, <1>2, <1>3 DEF Next

\* At all times the session's analyzer has the buffers and the gate of the
\* batch of the audio so far, when no message breaks a frame or outgrows a window.
THEOREM AlwaysInStep == Spec => []IInv
  <1>1. Init => IInv
    BY InitIsInStep
  <1>2. IInv /\ [Next]_vars => IInv'
    BY NextKeepsStep
  <1> QED
    BY <1>1, <1>2, PTL DEF Spec

\* The types of a stream, for any frames, windows and messages: between two
\* messages a window is never full, and the frames of a caller that sends whole
\* frames are those the samples of the window make (VoiceAnalyzer::push_pcm).
THEOREM TypeCorrect == Spec => []TypeOK
  <1>1. IInv => TypeOK
    BY DEF IInv, TypeInv, Ready, Analyzers, TypeOK
  <1> QED
    BY <1>1, AlwaysInStep, PTL

\* Audio streamed in whole frames, no more than a window at a time, is judged
\* as the batch judges it, window by window, whatever the messages
\* (VoiceAnalyzer::push_pcm and analyze_pcm_batch).
THEOREM StreamAgreesWithBatch == Spec => []StreamJudgesLikeBatch
  <1>1. IInv => StreamJudgesLikeBatch
    <2>1. Batch.windows = BatchEnd(Audio).windows
      BY DEF Batch, AnalyzePcmBatch, BatchOf, BatchReport, BatchWindows, BatchEnd
    <2> QED
      BY <2>1 DEF IInv, AgreeInv, InStep, StreamJudgesLikeBatch
  <1> QED
    BY <1>1, AlwaysInStep, PTL
-----------------------------------------------------------------------------
(***************************************************************************)
(* The segments of a batch.                                                *)
(***************************************************************************)

StartOf(windows, i) == windows[i].window_start_ms

\* the first windows all start before a time
Passed(windows, count, ms) == \A i \in 1 .. count : StartOf(windows, i) < ms

\* windows start one after another
InSequence(windows) ==
    /\ windows \in Seq(Reports)
    /\ \A j \in 1 .. Len(windows) : Passed(windows, j - 1, StartOf(windows, j))

Pairs == Nat \X Nat

InOrder(segments) ==
    /\ segments \in Seq(Pairs)
    /\ \A k \in 1 .. Len(segments) : segments[k][1] < segments[k][2]
    /\ \A k \in 1 .. Len(segments) - 1 : segments[k][2] < segments[k + 1][1]

EndBefore(segments, ms) == \A k \in 1 .. Len(segments) : segments[k][2] < ms

Covered(segments, ms) == \E k \in 1 .. Len(segments) : Within(ms, segments[k])

\* A segment is added after those there are.
LEMMA OneMoreSegment ==
  ASSUME NEW segments, InOrder(segments), NEW x \in Nat, NEW y \in Nat, x < y,
         EndBefore(segments, x),
         NEW more, more = Append(segments, <<x, y>>)
  PROVE  /\ InOrder(more)
         /\ \A ms \in Nat : Covered(more, ms) <=> Covered(segments, ms) \/ (x <= ms /\ ms < y)
         /\ \A ms \in Nat : y < ms => EndBefore(more, ms)
  <1> DEFINE n    == Len(segments)
             pair == <<x, y>>
  <1>1. /\ segments \in Seq(Pairs) /\ n \in Nat
        /\ \A k \in 1 .. n : segments[k][1] < segments[k][2] /\ segments[k][2] < x
        /\ \A k \in 1 .. n - 1 : segments[k][2] < segments[k + 1][1]
    BY LenProperties DEF InOrder, EndBefore
  <1>2. pair \in Pairs /\ pair[1] = x /\ pair[2] = y
    BY DEF Pairs
  <1>3. \A k \in 1 .. n : segments[k][1] \in Nat /\ segments[k][2] \in Nat
    <2>1. \A k \in 1 .. n : segments[k] \in Pairs
      BY <1>1, ElementOfSeq
    <2> QED
      BY <2>1 DEF Pairs
  <1> HIDE DEF n, pair
  <1>4. /\ more \in Seq(Pairs) /\ Len(more) = n + 1 /\ more[n + 1] = pair
        /\ \A k \in 1 .. n : more[k] = segments[k]
    BY <1>1, <1>2, AppendProperties DEF n, pair
  <1>5. ASSUME NEW k \in 1 .. n + 1
        PROVE  more[k][1] < more[k][2] /\ (k \in 1 .. n \/ (k = n + 1 /\ more[k] = pair))
    <2>1. CASE k \in 1 .. n
      BY <1>1, <1>4, <2>1
    <2>2. CASE k = n + 1
      BY <1>2, <1>4, <2>2
    <2>3. k \in 1 .. n \/ k = n + 1
      BY <1>1
    <2> QED
      BY <1>4, <2>1, <2>2, <2>3
  <1>6. ASSUME NEW k \in 1 .. (n + 1) - 1
        PROVE  more[k][2] < more[k + 1][1]
    <2>1. k \in 1 .. n
      BY <1>1
    <2>2. CASE k = n
      BY <1>1, <1>2, <1>4, <2>1, <2>2
    <2>3. CASE k # n
      <3>1. k \in 1 .. n - 1 /\ k + 1 \in 1 .. n
        BY <1>1, <2>1, <2>3
      <3> QED
        BY <1>1, <1>4, <2>1, <3>1
    <2> QED
      BY <2>2, <2>3
  <1>7. InOrder(more)
    BY <1>4, <1>5, <1>6 DEF InOrder
  <1>8. ASSUME NEW ms \in Nat
        PROVE  Covered(more, ms) <=> Covered(segments, ms) \/ (x <= ms /\ ms < y)
    <2>1. ASSUME NEW k \in 1 .. n + 1, Within(ms, more[k])
          PROVE  Covered(segments, ms) \/ (x <= ms /\ ms < y)
      <3>1. CASE k \in 1 .. n
        <4>1. Within(ms, segments[k])
          BY <1>4, <2>1, <3>1
        <4> QED
          BY <3>1, <4>1 DEF Covered, n
      <3>2. CASE k = n + 1 /\ more[k] = pair
        BY <1>2, <2>1, <3>2 DEF Within
      <3> QED
        BY <1>5, <3>1, <3>2
    <2>2. ASSUME NEW k \in 1 .. n, Within(ms, segments[k])
          PROVE  k \in 1 .. n + 1 /\ Within(ms, more[k])
      BY <1>1, <1>4, <2>2
    <2>3. x <= ms /\ ms < y => n + 1 \in 1 .. n + 1 /\ Within(ms, more[n + 1])
      BY <1>1, <1>2, <1>4 DEF Within
    <2> QED
      BY <1>4, <2>1, <2>2, <2>3 DEF Covered, n
  <1>9. ASSUME NEW ms \in Nat, y < ms
        PROVE  EndBefore(more, ms)
    <2>1. ASSUME NEW k \in 1 .. n + 1
          PROVE  more[k][2] < ms
      <3>1. CASE k \in 1 .. n
        BY <1>1, <1>3, <1>4, <1>9, <3>1
      <3>2. CASE k = n + 1 /\ more[k] = pair
        BY <1>2, <1>9, <3>2
      <3> QED
        BY <1>5, <3>1, <3>2
    <2> QED
      BY <1>4, <2>1 DEF EndBefore
  <1> QED
    BY <1>7, <1>8, <1>9

\* Segments that end before a time do not hold it.
LEMMA NotCovered ==
  ASSUME NEW segments, InOrder(segments), NEW ms \in Nat, EndBefore(segments, ms)
  PROVE  ~ Covered(segments, ms)
  <1>1. ASSUME NEW k \in 1 .. Len(segments)
        PROVE  ~ Within(ms, segments[k])
    <2>1. segments[k][2] \in Nat /\ segments[k][2] < ms
      BY ElementOfSeq DEF InOrder, EndBefore, Pairs
    <2> QED
      BY <2>1 DEF Within
  <1> QED
    BY <1>1 DEF Covered

LEMMA WindowFields ==
  ASSUME NEW windows \in Seq(Reports), NEW i \in 1 .. Len(windows)
  PROVE  StartOf(windows, i) \in Nat /\ windows[i].stt_ready \in BOOLEAN
  <1> DEFINE Scores == {CompositeScore(m) : m \in Measurements}
             w == windows[i]
  <1>1. w \in Reports
    BY ElementOfSeq
  <1> HIDE DEF w
  <1>2. w \in [metrics : Measurements, window_start_ms : Nat,
               composite_score : Scores, stt_ready : BOOLEAN]
    BY <1>1 DEF Reports
  <1> HIDE DEF Scores
  <1>3. w.window_start_ms \in Nat
    BY <1>2
  <1>4. w.stt_ready \in BOOLEAN
    BY <1>2
  <1> QED
    BY <1>3, <1>4 DEF StartOf, w

\* What the sweep knows after some of the windows.
Swept(segments, open, windows, j) ==
    /\ InOrder(segments)
    /\ open \in Nat \cup {NoSegment}
    /\ \A ms \in Nat : Passed(windows, j, ms) =>
           EndBefore(segments, ms) /\ (open \in Nat => open < ms)
    /\ open \in Nat => EndBefore(segments, open)
    /\ \A i \in 1 .. j : windows[i].stt_ready <=>
           \/ Covered(segments, StartOf(windows, i))
           \/ open \in Nat /\ open <= StartOf(windows, i)

LEMMA SweepStep ==
  ASSUME NEW windows, InSequence(windows), NEW j \in 0 .. Len(windows) - 1,
         NEW acc, acc \in [segments : Seq(Pairs), seg_start : Int],
         Swept(acc.segments, acc.seg_start, windows, j),
         NEW next, next = SegmentStep(acc, windows[j + 1])
  PROVE  /\ next \in [segments : Seq(Pairs), seg_start : Int]
         /\ Swept(next.segments, next.seg_start, windows, j + 1)
  <1> DEFINE n        == Len(windows)
             ready(i) == windows[i].stt_ready
             st(i)    == StartOf(windows, i)
             now      == st(j + 1)
             segments == acc.segments
             open     == acc.seg_start
             Ready1(s, o) == \A i \in 1 .. j + 1 : ready(i) <=>
                                 Covered(s, st(i)) \/ (o \in Nat /\ o <= st(i))
  <1>1. n \in Nat /\ j \in Nat /\ j + 1 \in 1 .. n /\ (j + 1) - 1 = j
    BY LenProperties DEF InSequence
  <1>2. \A i \in 1 .. n : st(i) \in Nat /\ ready(i) \in BOOLEAN
    BY WindowFields DEF InSequence
  <1>3. now \in Nat /\ Passed(windows, j, now)
    <2>1. Passed(windows, (j + 1) - 1, now)
      BY <1>1 DEF InSequence
    <2> QED
      BY <1>1, <1>2, <2>1
  <1>4. \A i \in 1 .. j : st(i) < now /\ st(i) \in Nat
    BY <1>1, <1>2, <1>3 DEF Passed
  <1>5. /\ InOrder(segments) /\ open \in Nat \cup {NoSegment} /\ EndBefore(segments, now)
        /\ open \in Nat => EndBefore(segments, open) /\ open < now
        /\ \A i \in 1 .. j : ready(i) <=>
               Covered(segments, st(i)) \/ (open \in Nat /\ open <= st(i))
    BY <1>3 DEF Swept
  <1>6. \A ms \in Nat : Passed(windows, j + 1, ms) =>
            now < ms /\ EndBefore(segments, ms) /\ (open \in Nat => open < ms)
    <2> SUFFICES ASSUME NEW ms \in Nat, Passed(windows, j + 1, ms)
                 PROVE  now < ms /\ EndBefore(segments, ms) /\ (open \in Nat => open < ms)
      OBVIOUS
    <2>1. j + 1 \in 1 .. j + 1 /\ \A i \in 1 .. j : i \in 1 .. j + 1
      BY <1>1
    <2>2. now < ms /\ Passed(windows, j, ms)
      BY <2>1 DEF Passed
    <2> QED
      BY <2>2 DEF Swept
  <1>7. ~ Covered(segments, now)
    BY <1>3, <1>5, NotCovered
  <1>8. NoSegment \notin Nat /\ NoSegment \in Int /\ (open < 0 <=> open = NoSegment)
        /\ (open >= 0 <=> open \in Nat)
    BY <1>5 DEF NoSegment
  <1>9. next = IF ready(j + 1) /\ open < 0 THEN [acc EXCEPT !.seg_start = now]
               ELSE IF ~ ready(j + 1) /\ open >= 0
               THEN [segments |-> Append(segments, <<open, now>>), seg_start |-> NoSegment]
               ELSE acc
    BY DEF SegmentStep, StartOf
  <1>10. \A i \in 1 .. j + 1 : i = j + 1 \/ i \in 1 .. j
    BY <1>1
  <1>11. ready(j + 1) \in BOOLEAN
    BY <1>1, <1>2
  <1>12. segments \in Seq(Pairs)
    OBVIOUS
  <1> HIDE DEF ready, st, now, segments, open, n
  <1>13. CASE ready(j + 1) /\ open < 0
    <2>1. next.segments = segments /\ next.seg_start = now /\ next \in [segments : Seq(Pairs), seg_start : Int]
      BY <1>3, <1>9, <1>13 DEF segments
    <2>2. Ready1(segments, now)
      <3> SUFFICES ASSUME NEW i \in 1 .. j + 1
                   PROVE  ready(i) <=> Covered(segments, st(i)) \/ (now \in Nat /\ now <= st(i))
        OBVIOUS
      <3>1. CASE i = j + 1
        BY <1>3, <1>13, <3>1 DEF now
      <3>2. CASE i \in 1 .. j
        BY <1>3, <1>4, <1>5, <1>8, <1>13, <3>2
      <3> QED
        BY <1>10, <3>1, <3>2
    <2>3. Swept(segments, now, windows, j + 1)
      BY <1>3, <1>5, <1>6, <2>2 DEF Swept, ready, st
    <2> QED
      BY <2>1, <2>3
  <1>14. CASE ~ ready(j + 1) /\ open >= 0
    <2> DEFINE more == Append(segments, <<open, now>>)
    <2>1. open \in Nat /\ open < now /\ EndBefore(segments, open)
      BY <1>5, <1>8, <1>14
    <2>2. /\ InOrder(more)
          /\ \A ms \in Nat : Covered(more, ms) <=> Covered(segments, ms) \/ (open <= ms /\ ms < now)
          /\ \A ms \in Nat : now < ms => EndBefore(more, ms)
      BY <1>3, <1>5, <2>1, OneMoreSegment
    <2>3. next = [segments |-> more, seg_start |-> NoSegment]
      BY <1>8, <1>9, <1>14
    <2> HIDE DEF more
    <2>4. /\ next.segments = more /\ next.seg_start = NoSegment
          /\ next \in [segments : Seq(Pairs), seg_start : Int]
      BY <1>8, <2>2, <2>3 DEF InOrder
    <2>5. Ready1(more, NoSegment)
      <3> SUFFICES ASSUME NEW i \in 1 .. j + 1
                   PROVE  ready(i) <=> Covered(more, st(i)) \/ (NoSegment \in Nat /\ NoSegment <= st(i))
        OBVIOUS
      <3>1. CASE i = j + 1
        <4>1. ~ Covered(more, now)
          BY <1>3, <1>7, <2>2
        <4> QED
          BY <1>8, <1>14, <3>1, <4>1 DEF now
      <3>2. CASE i \in 1 .. j
        BY <1>4, <1>5, <1>8, <2>1, <2>2, <3>2
      <3> QED
        BY <1>10, <3>1, <3>2
    <2>6. Swept(more, NoSegment, windows, j + 1)
      BY <1>6, <1>8, <2>2, <2>5 DEF Swept, ready, st
    <2> QED
      BY <2>4, <2>6
  <1>15. CASE ~ (ready(j + 1) /\ open < 0) /\ ~ (~ ready(j + 1) /\ open >= 0)
    <2>1. next = acc
      BY <1>9, <1>15
    <2>2. Ready1(segments, open)
      <3> SUFFICES ASSUME NEW i \in 1 .. j + 1
                   PROVE  ready(i) <=> Covered(segments, st(i)) \/ (open \in Nat /\ open <= st(i))
        OBVIOUS
      <3>1. CASE i = j + 1
        <4>1. ready(j + 1) <=> open \in Nat
          BY <1>5, <1>8, <1>11, <1>15
        <4>2. open \in Nat => open <= now
          BY <1>3, <1>5
        <4> QED
          BY <1>7, <3>1, <4>1, <4>2 DEF now
      <3>2. CASE i \in 1 .. j
        BY <1>5, <3>2
      <3> QED
        BY <1>10, <3>1, <3>2
    <2>3. Swept(segments, open, windows, j + 1)
      BY <1>5, <1>6, <2>2 DEF Swept, ready, st
    <2> QED
      BY <2>1, <2>3 DEF segments, open
  <1> QED
    BY <1>13, <1>14, <1>15

\* The sweep over windows that start one after another, all before end_ms,
\* gives segments in order, none past end_ms, that hold the starts of exactly
\* the ready windows.
LEMMA SegmentsOfWindows ==
  ASSUME NEW windows, InSequence(windows), NEW end_ms \in Nat,
         Passed(windows, Len(windows), end_ms),
         NEW segments, segments = SttReadySegments(windows, end_ms)
  PROVE  /\ InOrder(segments)
         /\ EndBefore(segments, end_ms + 1)
         /\ \A i \in 1 .. Len(windows) :
                windows[i].stt_ready <=> Covered(segments, StartOf(windows, i))
  <1> DEFINE n     == Len(windows)
             turn  == Sweep(windows)
             Accs  == [segments : Seq(Pairs), seg_start : Int]
             H(j)  == turn[j] \in Accs /\ Swept(turn[j].segments, turn[j].seg_start, windows, j)
             S     == {j \in 0 .. n : H(j)}
  <1>1. n \in Nat
    BY LenProperties DEF InSequence
  <1>2. /\ turn[0] = [segments |-> << >>, seg_start |-> NoSegment]
        /\ \A i \in 1 .. n : turn[i] = SegmentStep(turn[i - 1], windows[i])
    BY <1>1, SweepUnfolds
  <1>3. \A i \in 1 .. n : StartOf(windows, i) \in Nat
    BY WindowFields DEF InSequence
  <1>s. segments = IF turn[n].seg_start >= 0
                   THEN Append(turn[n].segments, <<turn[n].seg_start, end_ms>>)
                   ELSE turn[n].segments
    BY DEF SttReadySegments
  <1> HIDE DEF turn
  <1>4. 0 \in S
    <2>1. << >> \in Seq(Pairs) /\ Len(<< >>) = 0
      BY EmptySeq
    <2>2. InOrder(<< >>) /\ \A ms : EndBefore(<< >>, ms)
      BY <2>1 DEF InOrder, EndBefore
    <2>3. NoSegment \in Int /\ NoSegment \notin Nat
      BY DEF NoSegment
    <2>4. Swept(<< >>, NoSegment, windows, 0)
      BY <2>2, <2>3 DEF Swept
    <2>5. H(0)
      BY <1>2, <2>1, <2>3, <2>4
    <2> HIDE DEF H
    <2> QED
      BY <1>1, <2>5
  <1>5. ASSUME NEW j \in 0 .. n - 1, j \in S
        PROVE  j + 1 \in S
    <2>1. j + 1 \in 1 .. n /\ (j + 1) - 1 = j /\ j + 1 \in 0 .. n
      BY <1>1
    <2>2. turn[j + 1] = SegmentStep(turn[j], windows[j + 1])
      BY <1>2, <2>1
    <2>3. H(j + 1)
      BY <1>5, <2>2, SweepStep
    <2> HIDE DEF H
    <2> QED
      BY <2>1, <2>3
  <1>6. \A j \in 0 .. n : j \in S
    <2> HIDE DEF S, n
    <2> QED
      BY <1>1, <1>4, <1>5, BoundedInduction
  <1>7. H(n)
    BY <1>1, <1>6
  <1> DEFINE segs == turn[n].segments
             open == turn[n].seg_start
  <1>8. /\ InOrder(segs) /\ open \in Nat \cup {NoSegment}
        /\ EndBefore(segs, end_ms) /\ (open \in Nat => open < end_ms /\ EndBefore(segs, open))
        /\ \A i \in 1 .. n : windows[i].stt_ready <=>
               Covered(segs, StartOf(windows, i)) \/ (open \in Nat /\ open <= StartOf(windows, i))
    BY <1>7 DEF Swept
  <1>9. \A i \in 1 .. n : StartOf(windows, i) < end_ms
    BY DEF Passed
  <1> HIDE DEF segs, open
  <1>10. CASE open \in Nat
    <2>1. segments = Append(segs, <<open, end_ms>>)
      BY <1>s, <1>10 DEF segs, open
    <2>2. /\ InOrder(segments)
          /\ \A ms \in Nat : Covered(segments, ms) <=>
                                 Covered(segs, ms) \/ (open <= ms /\ ms < end_ms)
          /\ \A ms \in Nat : end_ms < ms => EndBefore(segments, ms)
      BY <1>8, <1>10, <2>1, OneMoreSegment
    <2>3. EndBefore(segments, end_ms + 1)
      BY <2>2
    <2>4. ASSUME NEW i \in 1 .. n
          PROVE  windows[i].stt_ready <=> Covered(segments, StartOf(windows, i))
      BY <1>3, <1>8, <1>9, <1>10, <2>2
    <2> QED
      BY <2>2, <2>3, <2>4
  <1>11. CASE open = NoSegment
    <2>1. open \notin Nat /\ ~ (open >= 0)
      BY <1>11 DEF NoSegment
    <2>2. segments = segs
      BY <1>s, <2>1 DEF segs, open
    <2>3. EndBefore(segments, end_ms + 1)
      <3>1. \A k \in 1 .. Len(segs) : segs[k][2] \in Nat
        BY <1>8, ElementOfSeq DEF InOrder, Pairs
      <3>2. \A k \in 1 .. Len(segs) : segs[k][2] < end_ms
        BY <1>8 DEF EndBefore
      <3> QED
        BY <2>2, <3>1, <3>2 DEF EndBefore
    <2> QED
      BY <1>8, <2>1, <2>2, <2>3
  <1> QED
    BY <1>8, <1>10, <1>11

\* A frame of a batch opens its window if none is open, and closes it or not.
LEMMA BatchTurnStart ==
  ASSUME NEW a, Ready(a), NEW frame \in Seq(Blocks), NEW t \in Nat,
         NEW y, y = BatchTurn(a, frame, t),
         NEW start, start = (IF a.window_start_ms = 0 THEN t ELSE a.window_start_ms)
  PROVE  /\ start \in Nat
         /\ Len(a.frame_buffer) + 1 # WindowFrames =>
                /\ y.result = << >>
                /\ y.analyzer.window_start_ms = start
                /\ Len(y.analyzer.frame_buffer) = Len(a.frame_buffer) + 1
         /\ Len(a.frame_buffer) + 1 = WindowFrames =>
                /\ y.analyzer.window_start_ms = t
                /\ Len(y.analyzer.frame_buffer) = 0
                /\ \E r \in Reports : y.result = <<r>> /\ r.window_start_ms = start
  <1> DEFINE begun == Begun(a, t)
             c     == begun.analyzer
             held  == WithFrame(c, frame)
  <1>1. /\ InLoop(begun) /\ begun.result = << >>
        /\ c.frame_buffer = a.frame_buffer /\ c.window_start_ms = start
    BY BegunType
  <1>2. c \in Analyzers
    BY <1>1 DEF InLoop, Ready
  <1>3. start \in Nat
    BY DEF Ready, Analyzers
  <1>4. y = TakeFrame(begun, frame, t)
    BY DEF BatchTurn
  <1>5. /\ Len(c.frame_buffer) + 1 = WindowFrames => y = CloseWindow(held, t)
        /\ Len(c.frame_buffer) + 1 # WindowFrames => y.analyzer = held /\ y.result = begun.result
    BY <1>1, <1>4, TakeFrameType
  <1>6. /\ held \in Analyzers /\ held.window_start_ms = start
        /\ Len(held.frame_buffer) = Len(a.frame_buffer) + 1
    BY <1>1, <1>2, WithFrameType
  <1> HIDE DEF begun, c, held
  <1>7. CASE Len(a.frame_buffer) + 1 # WindowFrames
    BY <1>1, <1>3, <1>5, <1>6, <1>7
  <1>8. CASE Len(a.frame_buffer) + 1 = WindowFrames
    <2> DEFINE m == MetricsOf(held)
               g == Evaluate(held.gate, m)
               r == WindowReport(held, m, g)
    <2>1. y = CloseWindow(held, t)
      BY <1>1, <1>5, <1>8
    <2>2. /\ y.result \in OneReport /\ y.result = <<r>>
          /\ y.analyzer.frame_buffer = << >> /\ y.analyzer.window_start_ms = t
      BY <1>6, <2>1, CloseWindowType
    <2>3. r.window_start_ms = start
      BY <1>6 DEF WindowReport
    <2> HIDE DEF r
    <2>4. r \in Reports
      BY <2>2 DEF OneReport
    <2>5. Len(<< >>) = 0
      BY EmptySeq
    <2> QED
      BY <1>3, <1>8, <2>2, <2>3, <2>4, <2>5
  <1> QED
    BY <1>7, <1>8

\* One more window, that starts after those there are.
LEMMA OneMoreWindow ==
  ASSUME NEW windows, InSequence(windows), NEW r \in Reports,
         Passed(windows, Len(windows), r.window_start_ms),
         NEW more, more = windows \o <<r>>
  PROVE  /\ InSequence(more)
         /\ \A ms \in Nat : r.window_start_ms < ms => Passed(more, Len(more), ms)
  <1> DEFINE n == Len(windows)
             s == r.window_start_ms
             one == <<r>>
  <1>1. windows \in Seq(Reports) /\ n \in Nat
    BY LenProperties DEF InSequence
  <1>2. one \in Seq(Reports) /\ Len(one) = 1 /\ one[1] = r
    <2> HIDE DEF Reports
    <2> QED
      OBVIOUS
  <1> HIDE DEF one
  <1>3. /\ more \in Seq(Reports) /\ Len(more) = n + 1
        /\ \A i \in 1 .. n + 1 : more[i] = IF i <= n THEN windows[i] ELSE one[i - n]
    BY <1>1, <1>2, ConcatProperties DEF one
  <1>4. (\A i \in 1 .. n : more[i] = windows[i]) /\ more[n + 1] = r
    <2>1. n + 1 \in 1 .. n + 1 /\ ~ (n + 1 <= n) /\ (n + 1) - n = 1
      BY <1>1
    <2>2. \A i \in 1 .. n : i \in 1 .. n + 1 /\ i <= n
      BY <1>1
    <2> QED
      BY <1>2, <1>3, <2>1, <2>2
  <1>5. \A i \in 1 .. n : StartOf(more, i) = StartOf(windows, i) /\ StartOf(windows, i) < s
    BY <1>4 DEF Passed, StartOf
  <1>6. StartOf(more, n + 1) = s
    BY <1>4 DEF StartOf
  <1>7. \A i \in 1 .. n + 1 : StartOf(more, i) \in Nat
    BY <1>3, WindowFields
  <1>8. s \in Nat
    BY <1>1, <1>6, <1>7
  <1> HIDE DEF n, s
  <1>9. ASSUME NEW j \in 1 .. n + 1
        PROVE  Passed(more, j - 1, StartOf(more, j))
    <2>1. CASE j = n + 1
      <3>1. j - 1 = n
        BY <1>1, <2>1
      <3> QED
        BY <1>5, <1>6, <2>1, <3>1 DEF Passed
    <2>2. CASE j # n + 1
      <3>1. j \in 1 .. n /\ \A i \in 1 .. j - 1 : i \in 1 .. n
        BY <1>1, <2>2
      <3>2. Passed(windows, j - 1, StartOf(windows, j))
        BY <3>1 DEF InSequence, n
      <3> QED
        BY <1>5, <3>1, <3>2 DEF Passed
    <2> QED
      BY <2>1, <2>2
  <1>10. InSequence(more)
    BY <1>3, <1>9 DEF InSequence
  <1>11. ASSUME NEW ms \in Nat, s < ms
         PROVE  Passed(more, n + 1, ms)
    <2> SUFFICES ASSUME NEW i \in 1 .. n + 1
                 PROVE  StartOf(more, i) < ms
      BY DEF Passed
    <2>1. i = n + 1 \/ i \in 1 .. n
      BY <1>1
    <2> QED
      BY <1>5, <1>6, <1>7, <1>8, <1>11, <2>1
  <1> QED
    BY <1>3, <1>10, <1>11 DEF s

\* What a batch knows of its windows after some of its frames.  Two frames in,
\* it knows when the window that is open has started.
InTime(state, i) ==
    LET start == state.analyzer.window_start_ms
    IN  /\ InSequence(state.windows)
        /\ Len(state.analyzer.frame_buffer) <= i
        /\ i <= 1 => start = 0 /\ Len(state.windows) = 0
        /\ i >= 2 => /\ start > 0 /\ start <= (i - 1) * FrameMs
                     /\ Passed(state.windows, Len(state.windows), start)

LEMMA FrameKeepsTime ==
  ASSUME FramesPerWindow >= 3, NEW state, Ready(state.analyzer), NEW i \in Nat, InTime(state, i),
         NEW frame \in Seq(Blocks),
         NEW y, y = BatchTurn(state.analyzer, frame, i * FrameMs),
         NEW next, next.analyzer = y.analyzer, next.windows = state.windows \o y.result
  PROVE  InTime(next, i + 1)
  <1> DEFINE a     == state.analyzer
             t     == i * FrameMs
             open  == a.window_start_ms
             start == IF open = 0 THEN t ELSE open
             b     == next.analyzer
             held  == Len(a.frame_buffer)
             early == (i - 1) * FrameMs
             late  == ((i + 1) - 1) * FrameMs
  <1>1. /\ WindowFrames \in Nat /\ WindowFrames >= 3
    BY WindowFramesType DEF WindowFrames
  <1>2. /\ t \in Nat /\ (i = 0 => t = 0) /\ (i >= 1 => t > 0) /\ late = t
        /\ (i >= 1 => early \in Nat /\ early < t)
    <2>1. FrameMs \in Nat \ {0}
      BY AnalyzerAssumption
    <2>2. (i + 1) - 1 = i
      OBVIOUS
    <2>3. t \in Nat /\ late = t /\ (i = 0 => t = 0)
      BY <2>1, <2>2
    <2>4. early = t - FrameMs
      BY <2>1
    <2>5. i >= 1 => early \in Nat
      BY <2>1
    <2> HIDE DEF t, early
    <2> QED
      BY <2>1, <2>3, <2>4, <2>5
  <1>3. /\ InSequence(state.windows) /\ held <= i /\ open \in Nat /\ held \in Nat
        /\ (i <= 1 => open = 0 /\ Len(state.windows) = 0)
        /\ (i >= 2 => /\ open > 0 /\ open <= early
                      /\ Passed(state.windows, Len(state.windows), open))
    BY LenProperties DEF InTime, Ready, Analyzers
  <1>4. /\ start \in Nat
        /\ held + 1 # WindowFrames =>
               y.result = << >> /\ b.window_start_ms = start /\ Len(b.frame_buffer) = held + 1
        /\ held + 1 = WindowFrames =>
               /\ b.window_start_ms = t /\ Len(b.frame_buffer) = 0
               /\ \E r \in Reports : y.result = <<r>> /\ r.window_start_ms = start
    BY <1>2, BatchTurnStart
  <1> HIDE DEF a, t, open, b, held, early, late
  <1>5. CASE held + 1 # WindowFrames
    <2>1. next.windows = state.windows
      BY <1>3, <1>4, <1>5, ConcatEmptySeq DEF InSequence
    <2>2. b.window_start_ms = start /\ Len(b.frame_buffer) <= i + 1
      BY <1>3, <1>4, <1>5
    <2>3. i + 1 <= 1 => start = 0 /\ Len(next.windows) = 0
      <3>1. i + 1 <= 1 => i = 0 /\ i <= 1
        OBVIOUS
      <3>2. i = 0 => t = 0 /\ open = 0 /\ Len(state.windows) = 0
        BY <1>2, <1>3
      <3> QED
        BY <2>1, <3>1, <3>2
    <2>4. i + 1 >= 2 => start > 0 /\ start <= late
      BY <1>2, <1>3
    <2>5. i + 1 >= 2 => Passed(state.windows, Len(state.windows), start)
      <3>1. CASE i <= 1
        BY <1>3, <3>1 DEF Passed
      <3>2. CASE i >= 2
        BY <1>3, <3>2
      <3> QED
        BY <3>1, <3>2
    <2> HIDE DEF start
    <2> QED
      BY <1>3, <2>1, <2>2, <2>3, <2>4, <2>5 DEF InTime, b, late
  <1>6. CASE held + 1 = WindowFrames
    <2>1. i >= 2
      BY <1>1, <1>3, <1>6
    <2>2. start = open /\ start < t
      BY <1>2, <1>3, <2>1
    <2> HIDE DEF start
    <2>3. PICK r \in Reports : y.result = <<r>> /\ r.window_start_ms = start
      BY <1>4, <1>6
    <2>4. Passed(state.windows, Len(state.windows), r.window_start_ms)
      BY <1>3, <2>1, <2>2, <2>3
    <2>5. next.windows = state.windows \o <<r>>
      BY <2>3
    <2>6. /\ InSequence(next.windows)
          /\ Passed(next.windows, Len(next.windows), t)
      BY <1>2, <1>3, <2>2, <2>3, <2>4, <2>5, OneMoreWindow
    <2>7. b.window_start_ms = t /\ Len(b.frame_buffer) <= i + 1 /\ t > 0 /\ t <= late
      BY <1>2, <1>4, <1>6, <2>1
    <2>8. ~ (i + 1 <= 1)
      BY <2>1
    <2>9. Passed(next.windows, Len(next.windows), b.window_start_ms)
      BY <2>6, <2>7
    <2>10. b.window_start_ms > 0 /\ b.window_start_ms <= late
      BY <2>7
    <2> QED
      BY <2>6, <2>7, <2>8, <2>9, <2>10 DEF InTime, b, late
  <1> QED
    BY <1>5, <1>6

\* The windows of a batch start one after another, inside its frames.
LEMMA WindowsOfBatch ==
  ASSUME FramesPerWindow >= 3, NEW frames, WellCut(frames, SampleRate),
         NEW windows, windows = BatchWindows(frames, SampleRate)
  PROVE  InSequence(windows) /\ Passed(windows, Len(windows), Len(frames) * FrameMs)
  <1> DEFINE n    == Len(frames)
             turn == BatchTurns(frames, SampleRate)
             S    == {i \in 0 .. n : InTime(turn[i], i)}
  <1>1. n \in Nat /\ frames \in Seq(Seq(Blocks))
    BY LenProperties DEF WellCut
  <1>2. windows = turn[n].windows
    BY DEF BatchWindows
  <1>3. BatchRun(turn, frames, SampleRate)
    BY SampleRateType, BatchSteps
  <1> HIDE DEF turn
  <1>4. 0 \in S
    <2>1. turn[0] = [analyzer |-> NewAnalyzer(SampleRate), windows |-> << >>]
      BY <1>3 DEF BatchRun
    <2>2. NewAnalyzer(SampleRate).window_start_ms = 0
      BY DEF NewAnalyzer
    <2>3. NewAnalyzer(SampleRate).frame_buffer = << >> /\ Len(<< >>) = 0
      BY SampleRateType, NewAnalyzerType, EmptySeq
    <2>4. InSequence(<< >>)
      BY <2>3, EmptySeq DEF InSequence
    <2>5. InTime(turn[0], 0)
      BY <2>1, <2>2, <2>3, <2>4 DEF InTime
    <2> QED
      BY <1>1, <2>5
  <1>5. ASSUME NEW i \in 0 .. n - 1, i \in S
        PROVE  i + 1 \in S
    <2> DEFINE y == BatchTurn(turn[i].analyzer, frames[i + 1], i * FrameMs)
    <2>1. i + 1 \in 1 .. n /\ i \in 0 .. n /\ i \in Nat /\ i + 1 \in 0 .. n
      BY <1>1
    <2>2. Ready(turn[i].analyzer)
      BY <1>3, <2>1 DEF BatchRun, InBatch
    <2>3. turn[i + 1].analyzer = y.analyzer /\ turn[i + 1].windows = turn[i].windows \o y.result
      BY <1>3 DEF BatchRun
    <2>4. frames[i + 1] \in Seq(Blocks)
      BY <1>1, <2>1, ElementOfSeq
    <2>5. InTime(turn[i + 1], i + 1)
      BY <1>5, <2>1, <2>2, <2>3, <2>4, FrameKeepsTime
    <2> QED
      BY <2>1, <2>5
  <1>6. \A i \in 0 .. n : i \in S
    <2> HIDE DEF S, n
    <2> QED
      BY <1>1, <1>4, <1>5, BoundedInduction
  <1>7. InTime(turn[n], n)
    BY <1>1, <1>6
  <1>8. InSequence(windows)
    BY <1>2, <1>7 DEF InTime
  <1>9. CASE n <= 1
    BY <1>2, <1>7, <1>9 DEF InTime, Passed
  <1>10. CASE n >= 2
    <2> DEFINE start == turn[n].analyzer.window_start_ms
               early == (n - 1) * FrameMs
               last  == n * FrameMs
    <2>1. start <= early /\ Passed(windows, Len(windows), start)
      BY <1>2, <1>7, <1>10 DEF InTime
    <2>2. early \in Int /\ last \in Int /\ early < last
      BY <1>1, AnalyzerAssumption
    <2>3. start \in Nat
      <3>1. n \in 0 .. n
        BY <1>1
      <3> QED
        BY <1>3, <3>1 DEF BatchRun, InBatch, Ready, Analyzers
    <2> HIDE DEF start, early, last
    <2>4. Passed(windows, Len(windows), last)
      <3>1. \A i \in 1 .. Len(windows) : StartOf(windows, i) \in Nat
        BY <1>8, WindowFields DEF InSequence
      <3> QED
        BY <2>1, <2>2, <2>3, <3>1 DEF Passed
    <2> QED
      BY <1>8, <2>4 DEF last
  <1> QED
    BY <1>1, <1>8, <1>9, <1>10

\* The frames of a batch reach less than a frame past the end of the audio.
LEMMA EndOfAudio ==
  ASSUME Audio \in Seq(Blocks)
  PROVE  /\ AudioMs \in Nat
         /\ Len(Frames(Audio, SampleRate)) * FrameMs \in Nat
         /\ Len(Frames(Audio, SampleRate)) * FrameMs < AudioMs + FrameMs
  <1> DEFINE l == Len(Audio)
             n == FrameBlocks(SampleRate)
             c == FrameCount(l, n)
             thousand == 1000
             x == l * thousand
  <1>1. /\ l \in Nat /\ n \in Nat \ {0} /\ thousand = 1000
        /\ (SampleRate = 50 => FrameMs = n * 20)
        /\ (SampleRate = 100 => FrameMs = n * 10)
    BY SampleRateType, FrameBlocksType, LenProperties
  <1>2. Len(Frames(Audio, SampleRate)) = c
    BY SampleRateType, FramesType DEF AreFrames
  <1>3. AudioMs = x \div SampleRate
    BY DEF AudioMs
  <1> HIDE DEF l, n, thousand
  <1>4. c \in Nat /\ c * n < l + n
    BY <1>1, FrameCountType
  <1> HIDE DEF c
  <1>5. x \in Nat /\ x = (l * 20) * 50 /\ x = (l * 10) * 100
    BY <1>1
  <1>6. x \div 50 = l * 20 /\ x \div 100 = l * 10
    <2> DEFINE d == l * 20
               e == l * 10
               fifty == 50
               hundred == 100
    <2>1. d \in Int /\ e \in Int /\ fifty \in Nat \ {0} /\ hundred \in Nat \ {0}
      BY <1>1
    <2>2. x \in Int /\ x = d * fifty /\ x = e * hundred
      BY <1>5
    <2> HIDE DEF d, e, x, fifty, hundred
    <2>3. x \div fifty = d
      BY <2>1, <2>2, QuotientIsUnique
    <2>4. x \div hundred = e
      BY <2>1, <2>2, QuotientIsUnique
    <2> QED
      BY <2>3, <2>4 DEF d, e, fifty, hundred
  <1> DEFINE k == c * n
  <1>7. k \in Nat /\ k < l + n
    BY <1>1, <1>4
  <1>8. CASE SampleRate = 50
    <2>1. AudioMs = l * 20 /\ FrameMs = n * 20
      BY <1>1, <1>3, <1>6, <1>8
    <2>2. c * FrameMs = k * 20
      BY <1>1, <1>4, <2>1
    <2> HIDE DEF k
    <2> QED
      BY <1>1, <1>2, <1>7, <2>1, <2>2
  <1>9. CASE SampleRate = 100
    <2>1. AudioMs = l * 10 /\ FrameMs = n * 10
      BY <1>1, <1>3, <1>6, <1>9
    <2>2. c * FrameMs = k * 10
      BY <1>1, <1>4, <2>1
    <2> HIDE DEF k
    <2> QED
      BY <1>1, <1>2, <1>7, <2>1, <2>2
  <1> QED
    BY <1>8, <1>9, SampleRateType

\* The segments of a batch of any audio are in order, apart and inside it, and
\* hold the start of exactly the windows judged ready, when a window has three
\* frames or more (the sweep at the end of analyze_pcm_batch).
THEOREM SegmentsCorrect == Spec => []SegmentsAreTheReadyWindows
  <1>1. IInv => SegmentsAreTheReadyWindows
    <2> SUFFICES ASSUME Audio \in Seq(Blocks), FramesPerWindow >= 3
                 PROVE  WellSegmented(Batch)
      BY DEF IInv, TypeInv, SegmentsAreTheReadyWindows
    <2> DEFINE frames   == Frames(Audio, SampleRate)
               windows  == BatchWindows(frames, SampleRate)
               end_ms   == Len(frames) * FrameMs
               segments == SttReadySegments(windows, end_ms)
    <2>1. Batch.windows = windows /\ Batch.stt_ready_segments = segments
      BY DEF Batch, AnalyzePcmBatch, BatchOf, BatchReport
    <2>2. end_ms \in Nat /\ AudioMs \in Nat /\ end_ms < AudioMs + FrameMs
      BY EndOfAudio
    <2>3. InSequence(windows) /\ Passed(windows, Len(windows), end_ms)
      BY AudioIsWellCut, WindowsOfBatch
    <2> HIDE DEF windows, end_ms
    <2>4. /\ InOrder(segments)
          /\ EndBefore(segments, end_ms + 1)
          /\ \A i \in 1 .. Len(windows) :
                 windows[i].stt_ready <=> Covered(segments, StartOf(windows, i))
      BY <2>2, <2>3, SegmentsOfWindows
    <2> HIDE DEF segments
    <2>5. OrderedSegments(segments)
      <3>1. \A k \in 1 .. Len(segments) : segments[k][2] \in Nat
        BY <2>4, ElementOfSeq DEF InOrder, Pairs
      <3>2. FrameMs \in Nat
        BY AnalyzerAssumption
      <3>3. ASSUME NEW k \in 1 .. Len(segments)
            PROVE  segments[k][2] < AudioMs + FrameMs
        BY <2>2, <2>4, <3>1, <3>2 DEF EndBefore
      <3> QED
        BY <2>4, <3>3 DEF OrderedSegments, InOrder
    <2>6. SegmentsCover(windows, segments)
      BY <2>4 DEF SegmentsCover, Covered, StartOf
    <2> QED
      BY <2>1, <2>5, <2>6 DEF WellSegmented
  <1> QED
    BY <1>1, AlwaysInStep, PTL
=============================================================================
