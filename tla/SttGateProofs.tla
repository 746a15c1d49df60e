---------------------------- MODULE SttGateProofs ----------------------------
(***************************************************************************)
(* What the gate's hysteresis does for every hysteresis_ok_windows and     *)
(* hysteresis_bad_windows, for every set of windows and for histories of   *)
(* any length.                                                             *)
(***************************************************************************)
EXTENDS SttGateHistory, GeneralLemmas

\* The verdict on a window is a truth value (passes_thresholds returns bool).
LEMMA VerdictIsBoolean == \A m : PassesThresholds(m) \in BOOLEAN
  BY DEF PassesThresholds

\* A window appended to the history leaves the verdicts before it alone.
LEMMA AppendedHistory ==
  ASSUME NEW m \in Windows, NEW n, n = Len(history),
         history \in Seq(Windows), history' = Append(history, m)
  PROVE  /\ n \in Nat
         /\ Len(history') = n + 1
         /\ Passed(n + 1)' <=> PassesThresholds(m)
         /\ \A i \in 1 .. n : Passed(i)' = Passed(i)
  <1>1. n \in Nat /\ Len(history') = n + 1
    OBVIOUS
  <1>2. history'[n + 1] = m /\ \A i \in 1 .. n : history'[i] = history[i]
    OBVIOUS
  <1> QED
    BY <1>1, <1>2 DEF Passed

\* Types hold in every reachable state (the gate's fields, stt_gate.hpp:17).
THEOREM TypeCorrect == Spec => []TypeOK
  <1>1. Init => TypeOK
    BY DEF Init, TypeOK, NewGate, Gates
  <1>2. TypeOK /\ [Next]_vars => TypeOK'
    <2> SUFFICES ASSUME TypeOK, [Next]_vars
                 PROVE  TypeOK'
      OBVIOUS
    <2>1. ASSUME NEW m \in Windows, EvaluateWindow(m)
          PROVE  TypeOK'
      BY <2>1, GateAssumption
         DEF TypeOK, Gates, EvaluateWindow, Evaluate, GateAfterPass, GateAfterFail
    <2>2. CASE Reset
      BY <2>2 DEF Reset, TypeOK, NewGate, Gates
    <2>3. CASE UNCHANGED vars
      BY <2>3 DEF vars, TypeOK
    <2> QED
      BY <2>1, <2>2, <2>3 DEF Next
  <1> QED
    BY <1>1, <1>2, PTL DEF Spec

GateInv == TypeOK /\ CountersAreTheLastRun /\ ReadyIffHistorySaysSo

LEMMA InitGateInv == Init => GateInv
  <1> SUFFICES ASSUME Init
               PROVE  GateInv
    OBVIOUS
  <1>1. TypeOK
    BY DEF Init, TypeOK, NewGate, Gates
  <1>2. Len(history) = 0
    BY DEF Init
  <1>3. CountersAreTheLastRun
    BY <1>2 DEF Init, NewGate, CountersAreTheLastRun
  <1>4. ReadyIffHistorySaysSo
    BY <1>2 DEF Init, NewGate, ReadyIffHistorySaysSo
  <1> QED
    BY <1>1, <1>3, <1>4 DEF GateInv

\* A reset puts the gate and its history back where Init has them.
LEMMA ResetKeepsGateInv == GateInv /\ Reset => GateInv'
  <1> SUFFICES ASSUME GateInv, Reset
               PROVE  GateInv'
    OBVIOUS
  <1>1. TypeOK'
    BY DEF Reset, TypeOK, NewGate, Gates
  <1>2. Len(history') = 0
    BY DEF Reset
  <1>3. CountersAreTheLastRun'
    BY <1>2 DEF Reset, NewGate, CountersAreTheLastRun
  <1>4. ReadyIffHistorySaysSo'
    BY <1>2 DEF Reset, NewGate, ReadyIffHistorySaysSo
  <1> QED
    BY <1>1, <1>3, <1>4 DEF GateInv

\* One more window: the counters follow the last run, and the state follows
\* the counters.
LEMMA EvaluateKeepsGateInv ==
  ASSUME NEW m \in Windows, GateInv, EvaluateWindow(m)
  PROVE  GateInv'
  <1> DEFINE p == PassesThresholds(m)
             OkRun(i)  == PassRunEndsAt(i, HysteresisOkWindows)
             BadRun(i) == FailRunEndsAt(i, HysteresisBadWindows)
  <1>n. PICK n, ok, bad :
           n = Len(history) /\ ok = gate.consecutive_ok /\ bad = gate.consecutive_bad
    OBVIOUS
  <1>0. /\ TypeOK /\ history \in Seq(Windows) /\ gate \in Gates
        /\ history' = Append(history, m)
        /\ gate' = Evaluate(gate, m)
        /\ p \in BOOLEAN
    BY VerdictIsBoolean DEF GateInv, TypeOK, EvaluateWindow
  <1>1. /\ n \in Nat
        /\ Len(history') = n + 1
        /\ Passed(n + 1)' <=> p
        /\ \A i \in 1 .. n : Passed(i)' = Passed(i)
    BY <1>0, <1>n, AppendedHistory
  <1>2. TypeOK'
    BY <1>0, GateAssumption
       DEF TypeOK, Gates, EvaluateWindow, Evaluate, GateAfterPass, GateAfterFail
  <1>3. \A i : Passed(i) \in BOOLEAN
    BY VerdictIsBoolean DEF Passed
  <1>4. \A i \in 1 .. n : (OkRun(i)' <=> OkRun(i)) /\ (BadRun(i)' <=> BadRun(i))
    BY <1>1, GateAssumption DEF PassRunEndsAt, FailRunEndsAt
  <1>5. /\ ok \in 0 .. n /\ bad \in 0 .. n
        /\ \A j \in 1 .. n : n - ok < j => Passed(j)
        /\ ok < n => ~ Passed(n - ok)
        /\ \A j \in 1 .. n : n - bad < j => ~ Passed(j)
        /\ bad < n => Passed(n - bad)
    BY <1>0, <1>n, <1>1 DEF GateInv, CountersAreTheLastRun, Gates
  <1>6. gate.current_state <=>
           \E i \in 1 .. n : OkRun(i) /\ \A j \in i + 1 .. n : ~ BadRun(j)
    BY <1>n DEF GateInv, ReadyIffHistorySaysSo
  <1>7. ReadyIffHistorySaysSo' <=>
           (gate'.current_state <=>
              \E i \in 1 .. n + 1 :
                 OkRun(i)' /\ \A j \in i + 1 .. n + 1 : ~ BadRun(j)')
    BY <1>1 DEF ReadyIffHistorySaysSo
  <1>8. CASE p
    <2>1. gate' = GateAfterPass(gate)
      BY <1>0, <1>8 DEF Evaluate
    <2>2. gate'.consecutive_ok = ok + 1 /\ gate'.consecutive_bad = 0
      BY <2>1, <1>n DEF GateAfterPass
    <2>9. /\ Passed(n + 1)'
          /\ \A j \in 1 .. n + 1 : n - ok < j => Passed(j)'
          /\ ok < n => ~ Passed(n - ok)'
      BY <1>1, <1>5, <1>8
    <2>3. CountersAreTheLastRun'
      BY <1>1, <1>5, <2>2, <2>9 DEF CountersAreTheLastRun
    <2>4. ~ BadRun(n + 1)'
      BY <1>1, <1>8 DEF PassRunEndsAt, FailRunEndsAt
    <2>5. OkRun(n + 1)' <=> ok + 1 >= HysteresisOkWindows
      BY <1>1, <1>5, <2>9, GateAssumption DEF PassRunEndsAt
    <2>6. gate'.current_state <=> gate.current_state \/ ok + 1 >= HysteresisOkWindows
      BY <2>1, <1>n DEF GateAfterPass
    <2>7. ReadyIffHistorySaysSo'
      BY <1>1, <1>4, <1>6, <1>7, <2>4, <2>5, <2>6
    <2> QED
      BY <1>2, <2>3, <2>7 DEF GateInv
  <1>9. CASE ~ p
    <2>1. gate' = GateAfterFail(gate)
      BY <1>0, <1>9 DEF Evaluate
    <2>2. gate'.consecutive_bad = bad + 1 /\ gate'.consecutive_ok = 0
      BY <2>1, <1>n DEF GateAfterFail
    <2>3. CountersAreTheLastRun'
      BY <1>1, <1>5, <1>9, <2>2 DEF CountersAreTheLastRun
    <2>4. ~ OkRun(n + 1)'
      BY <1>1, <1>9 DEF PassRunEndsAt, FailRunEndsAt
    <2>5. BadRun(n + 1)' <=> bad + 1 >= HysteresisBadWindows
      BY <1>1, <1>5, <1>9, GateAssumption DEF PassRunEndsAt, FailRunEndsAt
    <2>6. gate'.current_state <=> gate.current_state /\ bad + 1 < HysteresisBadWindows
      BY <2>1, <1>n DEF GateAfterFail
    <2>7. ReadyIffHistorySaysSo'
      BY <1>1, <1>4, <1>5, <1>6, <1>7, <2>4, <2>5, <2>6, GateAssumption
    <2> QED
      BY <1>2, <2>3, <2>7 DEF GateInv
  <1> QED
    BY <1>8, <1>9

\* The inductive invariant holds in every reachable state.
THEOREM GateInvHolds == Spec => []GateInv
  <1>1. GateInv /\ [Next]_vars => GateInv'
    <2> SUFFICES ASSUME GateInv, [Next]_vars
                 PROVE  GateInv'
      OBVIOUS
    <2>1. ASSUME NEW m \in Windows, EvaluateWindow(m)
          PROVE  GateInv'
      BY <2>1, EvaluateKeepsGateInv
    <2>2. CASE Reset
      BY <2>2, ResetKeepsGateInv
    <2>3. CASE UNCHANGED vars
      BY <2>3 DEF vars, GateInv, TypeOK, CountersAreTheLastRun,
                  ReadyIffHistorySaysSo,
                  PassRunEndsAt, FailRunEndsAt, Passed
    <2> QED
      BY <2>1, <2>2, <2>3 DEF Next
  <1> QED
    BY InitGateInv, <1>1, PTL DEF Spec

\* stt_ready is on exactly when the windows judged so far call for it: some run
\* of passing windows as long as the threshold, and since then no run of
\* failing ones as long as the other (SttGate::evaluate, stt_gate.cpp:39).
THEOREM ReadyCorrect == Spec => []ReadyIffHistorySaysSo
  <1>1. GateInv => ReadyIffHistorySaysSo
    BY DEF GateInv
  <1> QED
    BY GateInvHolds, <1>1, PTL

\* The two counters measure the run of verdicts the history ends with.
THEOREM CountersCorrect == Spec => []CountersAreTheLastRun
  <1>1. GateInv => CountersAreTheLastRun
    BY DEF GateInv
  <1> QED
    BY GateInvHolds, <1>1, PTL
-----------------------------------------------------------------------------
(***************************************************************************)
(* The score.  Each of its parts is a ratio or a level cut to a range, so  *)
(* each goes one way; what is left of a window before the weighting is     *)
(* never negative, which is why the product goes the way of both factors.  *)
(***************************************************************************)

\* Rounding a quotient down keeps the order of what is divided.
LEMMA QuotientsKeepOrder ==
  ASSUME NEW n \in Nat \ {0}, NEW x \in Int, NEW y \in Int, x <= y
  PROVE  x \div n \in Int /\ y \div n \in Int /\ x \div n <= y \div n
  <1> DEFINE p == x \div n
             q == y \div n
             r == x % n
             t == y % n
  <1>1. p \in Int /\ r \in 0 .. n - 1 /\ x = p * n + r
    BY DivMod
  <1>2. q \in Int /\ t \in 0 .. n - 1 /\ y = q * n + t
    BY DivMod
  <1> HIDE DEF p, q, r, t
  <1>3. ASSUME q < p
        PROVE  FALSE
    <2>1. q + 1 <= p /\ (q + 1) * n = q * n + n
      BY <1>1, <1>2, <1>3
    <2>2. (q + 1) * n <= p * n
      BY <1>1, <1>2, <2>1
    <2> QED
      BY <1>1, <1>2, <2>1, <2>2
  <1>4. p <= q
    BY <1>1, <1>2, <1>3
  <1> QED
    BY <1>1, <1>2, <1>4 DEF p, q

\* Factors that are not negative take their product with them.
LEMMA ProductsKeepOrder ==
  ASSUME NEW a \in Nat, NEW b \in Nat, NEW c \in Nat, NEW d \in Nat, a <= b, c <= d
  PROVE  a * c \in Nat /\ b * d \in Nat /\ a * c <= b * d
  <1>1. a * c <= b * c
    OBVIOUS
  <1>2. b * c <= b * d
    OBVIOUS
  <1> QED
    BY <1>1, <1>2

\* std::clamp keeps the order of what it cuts.
LEMMA ClampsKeepOrder ==
  ASSUME NEW low \in Int, NEW high \in Int, low <= high, NEW x \in Int, NEW y \in Int, x <= y
  PROVE  /\ Clamp(x, low, high) \in low .. high /\ Clamp(y, low, high) \in low .. high
         /\ Clamp(x, low, high) <= Clamp(y, low, high)
  BY DEF Clamp

\* So does a ratio to a limit, be the limit positive or not.
LEMMA RatiosKeepOrder ==
  ASSUME NEW limit \in Int, NEW x \in Int, NEW y \in Int, x <= y
  PROVE  /\ RatioTo(x, limit) \in Int /\ RatioTo(y, limit) \in Int
         /\ RatioTo(x, limit) <= RatioTo(y, limit)
  <1>1. CASE limit > 0
    <2> DEFINE u == x * 1000
               v == y * 1000
    <2>1. limit \in Nat \ {0} /\ u \in Int /\ v \in Int /\ u <= v
      BY <1>1
    <2> HIDE DEF u, v
    <2>2. u \div limit \in Int /\ v \div limit \in Int /\ u \div limit <= v \div limit
      BY <2>1, QuotientsKeepOrder, Zenon
    <2> QED
      BY <1>1, <2>2 DEF RatioTo, u, v
  <1>2. CASE ~ (limit > 0)
    BY <1>2 DEF RatioTo
  <1> QED
    BY <1>1, <1>2

\* The quieter window gets no smaller level penalty.
LEMMA LevelsKeepOrder ==
  ASSUME NEW x \in Int, NEW y \in Int, x >= y
  PROVE  /\ LevelPenalty(x) \in Nat /\ LevelPenalty(y) \in Nat
         /\ LevelPenalty(x) <= LevelPenalty(y)
  BY DEF LevelPenalty, Clamp

\* The weighted part of the score goes the way of its factors.
LEMMA WeightedKeepsOrder ==
  ASSUME NEW a \in Nat, NEW b \in Nat, NEW u \in Nat, NEW v \in Nat, a <= b, u <= v,
         NEW n \in Nat \ {0}
  PROVE  /\ (a * u) \div n \in Int /\ (b * v) \div n \in Int
         /\ (a * u) \div n <= (b * v) \div n
  <1> DEFINE x == a * u
             y == b * v
  <1>1. x \in Nat /\ y \in Nat /\ x <= y
    BY ProductsKeepOrder, Zenon
  <1>2. x \in Int /\ y \in Int
    BY <1>1
  <1> HIDE DEF x, y
  <1>3. x \div n \in Int /\ y \div n \in Int /\ x \div n <= y \div n
    BY <1>1, <1>2, QuotientsKeepOrder, Zenon
  <1> QED
    BY <1>3 DEF x, y

\* A window that is no worse in every respect scores no lower (composite_score).
LEMMA ScoresKeepOrder ==
  ASSUME NEW m \in WindowMetrics, NEW n \in WindowMetrics, NoWorse(m, n)
  PROVE  /\ CompositeScore(m) \in Int /\ CompositeScore(n) \in Int
         /\ CompositeScore(m) >= CompositeScore(n)
  <1> DEFINE c == Penalty(RatioTo(m.clipping_ratio, MaxClippingRatio), 30)
             d == Penalty(RatioTo(n.clipping_ratio, MaxClippingRatio), 30)
             s == Penalty(RatioTo(m.silence_ratio, MaxSilenceRatio), 25)
             t == Penalty(RatioTo(n.silence_ratio, MaxSilenceRatio), 25)
             f == Clamp(RatioTo(m.snr_estimate_db, MinSnrDb), 0, 1500)
             g == Clamp(RatioTo(n.snr_estimate_db, MinSnrDb), 0, 1500)
             p == Penalty(RatioTo(m.spectral_flatness - 300, 700), 15)
             q == Penalty(RatioTo(n.spectral_flatness - 300, 700), 15)
             k == Penalty(RatioTo(m.packet_loss_pct, 5), 10)
             l == Penalty(RatioTo(n.packet_loss_pct, 5), 10)
             i == Penalty(RatioTo(m.jitter_ms, 50), 10)
             j == Penalty(RatioTo(n.jitter_ms, 50), 10)
             a == LevelPenalty(m.rms_dbfs)
             b == LevelPenalty(n.rms_dbfs)
  <1>1. /\ m.clipping_ratio \in Int /\ n.clipping_ratio \in Int
        /\ m.silence_ratio \in Int /\ n.silence_ratio \in Int
        /\ m.snr_estimate_db \in Int /\ n.snr_estimate_db \in Int
        /\ m.spectral_flatness \in Int /\ n.spectral_flatness \in Int
        /\ m.packet_loss_pct \in Int /\ n.packet_loss_pct \in Int
        /\ m.jitter_ms \in Int /\ n.jitter_ms \in Int
        /\ m.rms_dbfs \in Int /\ n.rms_dbfs \in Int
    BY DEF WindowMetrics
  <1>2. /\ m.clipping_ratio <= n.clipping_ratio
        /\ m.silence_ratio <= n.silence_ratio
        /\ n.snr_estimate_db <= m.snr_estimate_db
        /\ m.spectral_flatness - 300 <= n.spectral_flatness - 300
        /\ m.spectral_flatness - 300 \in Int /\ n.spectral_flatness - 300 \in Int
        /\ m.packet_loss_pct <= n.packet_loss_pct
        /\ m.jitter_ms <= n.jitter_ms
        /\ m.rms_dbfs >= n.rms_dbfs
    BY <1>1 DEF NoWorse
  <1>3. c \in Nat /\ d \in Nat /\ c <= d /\ d <= 30000
    <2>1. /\ RatioTo(m.clipping_ratio, MaxClippingRatio) \in Int
          /\ RatioTo(n.clipping_ratio, MaxClippingRatio) \in Int
          /\ RatioTo(m.clipping_ratio, MaxClippingRatio) <= RatioTo(n.clipping_ratio, MaxClippingRatio)
      BY <1>1, <1>2, GateAssumption, RatiosKeepOrder
    <2> QED
      BY <2>1 DEF Penalty, Clamp
  <1>4. s \in Nat /\ t \in Nat /\ s <= t /\ t <= 25000
    <2>1. /\ RatioTo(m.silence_ratio, MaxSilenceRatio) \in Int
          /\ RatioTo(n.silence_ratio, MaxSilenceRatio) \in Int
          /\ RatioTo(m.silence_ratio, MaxSilenceRatio) <= RatioTo(n.silence_ratio, MaxSilenceRatio)
      BY <1>1, <1>2, GateAssumption, RatiosKeepOrder
    <2> QED
      BY <2>1 DEF Penalty, Clamp
  <1>5. f \in Nat /\ g \in Nat /\ g <= f /\ f <= 1500
    <2>1. /\ RatioTo(m.snr_estimate_db, MinSnrDb) \in Int
          /\ RatioTo(n.snr_estimate_db, MinSnrDb) \in Int
          /\ RatioTo(n.snr_estimate_db, MinSnrDb) <= RatioTo(m.snr_estimate_db, MinSnrDb)
      BY <1>1, <1>2, GateAssumption, RatiosKeepOrder
    <2> QED
      BY <2>1 DEF Clamp
  <1>6. p \in Nat /\ q \in Nat /\ p <= q /\ q <= 15000
    <2> DEFINE limit == 700
    <2>1. limit \in Int
      OBVIOUS
    <2> HIDE DEF limit
    <2>2. /\ RatioTo(m.spectral_flatness - 300, limit) \in Int
          /\ RatioTo(n.spectral_flatness - 300, limit) \in Int
          /\ RatioTo(m.spectral_flatness - 300, limit) <= RatioTo(n.spectral_flatness - 300, limit)
      BY <1>1, <1>2, <2>1, RatiosKeepOrder
    <2> QED
      BY <2>2 DEF Penalty, Clamp, limit
  <1>7. k \in Nat /\ l \in Nat /\ k <= l /\ l <= 10000
    <2> DEFINE limit == 5
    <2>1. limit \in Int
      OBVIOUS
    <2> HIDE DEF limit
    <2>2. /\ RatioTo(m.packet_loss_pct, limit) \in Int
          /\ RatioTo(n.packet_loss_pct, limit) \in Int
          /\ RatioTo(m.packet_loss_pct, limit) <= RatioTo(n.packet_loss_pct, limit)
      BY <1>1, <1>2, <2>1, RatiosKeepOrder
    <2> QED
      BY <2>2 DEF Penalty, Clamp, limit
  <1>8. i \in Nat /\ j \in Nat /\ i <= j /\ j <= 10000
    <2> DEFINE limit == 50
    <2>1. limit \in Int
      OBVIOUS
    <2> HIDE DEF limit
    <2>2. /\ RatioTo(m.jitter_ms, limit) \in Int
          /\ RatioTo(n.jitter_ms, limit) \in Int
          /\ RatioTo(m.jitter_ms, limit) <= RatioTo(n.jitter_ms, limit)
      BY <1>1, <1>2, <2>1, RatiosKeepOrder
    <2> QED
      BY <2>2 DEF Penalty, Clamp, limit
  <1>9. a \in Nat /\ b \in Nat /\ a <= b
    BY <1>1, <1>2, LevelsKeepOrder
  <1>10. /\ CompositeScore(m) = Clamp(((100000 - c - s) * (1000 + f)) \div 2000
                                          - p - (k + i) - a, 0, 100000)
         /\ CompositeScore(n) = Clamp(((100000 - d - t) * (1000 + g)) \div 2000
                                          - q - (l + j) - b, 0, 100000)
    BY DEF CompositeScore
  <1> HIDE DEF c, d, s, t, f, g, p, q, k, l, i, j, a, b
  <1> DEFINE w == ((100000 - c - s) * (1000 + f)) \div 2000
             z == ((100000 - d - t) * (1000 + g)) \div 2000
  <1>11. w \in Int /\ z \in Int /\ z <= w
    <2> DEFINE bc == 100000 - c - s
               ad == 100000 - d - t
               vf == 1000 + f
               ug == 1000 + g
               thousands == 2000
    <2>1. /\ ad \in Nat /\ bc \in Nat /\ ad <= bc
          /\ ug \in Nat /\ vf \in Nat /\ ug <= vf
          /\ thousands \in Nat \ {0}
      BY <1>3, <1>4, <1>5
    <2> HIDE DEF bc, ad, vf, ug, thousands
    <2>2. /\ (ad * ug) \div thousands \in Int /\ (bc * vf) \div thousands \in Int
          /\ (ad * ug) \div thousands <= (bc * vf) \div thousands
      BY <2>1, WeightedKeepsOrder, Zenon
    <2> QED
      BY <2>2 DEF bc, ad, vf, ug, thousands
  <1> HIDE DEF w, z
  <1>12. /\ CompositeScore(m) = Clamp(w - p - (k + i) - a, 0, 100000)
         /\ CompositeScore(n) = Clamp(z - q - (l + j) - b, 0, 100000)
    BY <1>10 DEF w, z
  <1> DEFINE x == w - p - (k + i) - a
             y == z - q - (l + j) - b
  <1>13. x \in Int /\ y \in Int /\ y <= x
    BY <1>6, <1>7, <1>8, <1>9, <1>11
  <1>14. /\ CompositeScore(m) = Clamp(x, 0, 100000)
         /\ CompositeScore(n) = Clamp(y, 0, 100000)
    BY <1>12
  <1> HIDE DEF x, y
  <1> QED
    BY <1>13, <1>14 DEF Clamp

\* In any history, a window in whose place a better one had come would have
\* scored no lower and passed if this one did (SttGate::passes_thresholds).
THEOREM BetterAudioCorrect == Spec => []BetterAudioNeverScoresLower
  <1>1. TypeOK => BetterAudioNeverScoresLower
    <2> SUFFICES ASSUME TypeOK, NEW i \in 1 .. Len(history), NEW m \in Windows,
                        NoWorse(m, history[i])
                 PROVE  /\ CompositeScore(m) >= CompositeScore(history[i])
                        /\ Passed(i) => PassesThresholds(m)
      BY DEF BetterAudioNeverScoresLower
    <2> DEFINE n == history[i]
    <2>1. m \in WindowMetrics /\ n \in WindowMetrics /\ NoWorse(m, n)
      BY HistoryAssumption DEF TypeOK
    <2> HIDE DEF n
    <2>2. /\ CompositeScore(m) \in Int /\ CompositeScore(n) \in Int
          /\ CompositeScore(m) >= CompositeScore(n)
      BY <2>1, ScoresKeepOrder
    <2>3. PassesThresholds(n) => PassesThresholds(m)
      <3>1. /\ m.silence_ratio \in Int /\ n.silence_ratio \in Int
            /\ m.clipping_ratio \in Int /\ n.clipping_ratio \in Int
            /\ m.snr_estimate_db \in Int /\ n.snr_estimate_db \in Int
        BY <2>1 DEF WindowMetrics
      <3>2. /\ m.silence_ratio <= n.silence_ratio /\ m.clipping_ratio <= n.clipping_ratio
            /\ m.snr_estimate_db >= n.snr_estimate_db
        BY <2>1 DEF NoWorse
      <3> QED
        BY <2>2, <3>1, <3>2, GateAssumption DEF PassesThresholds
    <2> QED
      BY <2>2, <2>3 DEF Passed, n
  <1> QED
    BY TypeCorrect, <1>1, PTL
=============================================================================
