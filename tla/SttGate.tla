------------------------------ MODULE SttGate ------------------------------
(***************************************************************************)
(* The readiness gate of the voice analyzer (src/src/core/stt_gate.cpp):   *)
(* the score of a window of audio, the four thresholds it has to meet, and *)
(* the hysteresis that turns a series of verdicts into stt_ready.  A gate  *)
(* is a record of the class's three mutable fields; the operators are used *)
(* by every module in which an analyzer owns a gate.                       *)
(*                                                                         *)
(* Ratios are in thousandths, decibels and milliseconds are whole numbers, *)
(* scores are in thousandths of a point.                                   *)
(***************************************************************************)
EXTENDS Integers

CONSTANTS
    HysteresisOkWindows,    \* AnalyzerConfig::hysteresis_ok_windows, 2
    HysteresisBadWindows,   \* AnalyzerConfig::hysteresis_bad_windows, 1
    SttReadyThreshold,      \* 65 points
    MinSnrDb,               \* 12 dB
    MaxClippingRatio,       \* 0.02
    MaxSilenceRatio         \* 0.60

\* The fields are plain ints and doubles that no code validates; the divisors
\* of the score are kept positive by std::max(.., 1e-6).
ASSUME GateAssumption ==
    /\ HysteresisOkWindows \in Int
    /\ HysteresisBadWindows \in Int
    /\ SttReadyThreshold \in Int
    /\ MinSnrDb \in Int
    /\ MaxClippingRatio \in Int
    /\ MaxSilenceRatio \in Int

WindowMetrics ==
    [clipping_ratio : Int, silence_ratio : Int, snr_estimate_db : Int,
     spectral_flatness : Int, packet_loss_pct : Int, jitter_ms : Int,
     rms_dbfs : Int]

Gates == [consecutive_ok : Nat, consecutive_bad : Nat, current_state : BOOLEAN]

Clamp(x, low, high) == IF x < low THEN low ELSE IF x > high THEN high ELSE x

\* x / limit in thousandths; a limit of zero or less counts as a tiny one
RatioTo(x, limit) ==
    IF limit > 0 THEN (x * 1000) \div limit ELSE x * 1000000

Penalty(ratio, points) == Clamp(ratio, 0, 1000) * points

\* Seeded fault: the sign of the level's excess is lost
LevelPenaltyOfLoudness(rms_dbfs) == Clamp((rms_dbfs + 50) * 500, 0, 20000)

LevelPenalty(rms_dbfs) ==
    IF rms_dbfs < -50 THEN Clamp((-50 - rms_dbfs) * 500, 0, 20000) ELSE 0

CompositeScore(m) ==
    LET clean    == 100000 - Penalty(RatioTo(m.clipping_ratio, MaxClippingRatio), 30)
                           - Penalty(RatioTo(m.silence_ratio, MaxSilenceRatio), 25)
        factor   == Clamp(RatioTo(m.snr_estimate_db, MinSnrDb), 0, 1500)
        weighted == (clean * (1000 + factor)) \div 2000
        flatness == Penalty(RatioTo(m.spectral_flatness - 300, 700), 15)
        rtp      == Penalty(RatioTo(m.packet_loss_pct, 5), 10)
                      + Penalty(RatioTo(m.jitter_ms, 50), 10)
    IN  Clamp(weighted - flatness - rtp - LevelPenalty(m.rms_dbfs), 0, 100000)

PassesThresholds(m) ==
    /\ CompositeScore(m) >= SttReadyThreshold
    /\ m.silence_ratio <= MaxSilenceRatio
    /\ m.clipping_ratio <= MaxClippingRatio
    /\ m.snr_estimate_db >= MinSnrDb

NewGate == [consecutive_ok |-> 0, consecutive_bad |-> 0, current_state |-> FALSE]

\* Seeded fault: a passing window does not end the run of failing ones
GateAfterPassKeepingBad(g) ==
    [consecutive_ok  |-> g.consecutive_ok + 1,
     consecutive_bad |-> g.consecutive_bad,
     current_state   |-> g.current_state
                             \/ g.consecutive_ok + 1 >= HysteresisOkWindows]

GateAfterPass(g) ==
    LET ok == g.consecutive_ok + 1
    IN  [consecutive_ok  |-> ok,
         consecutive_bad |-> 0,
         current_state   |-> g.current_state \/ ok >= HysteresisOkWindows]

\* Seeded fault: a failing window does not end the run of passing ones
GateAfterFailKeepingOk(g) ==
    [consecutive_ok  |-> g.consecutive_ok,
     consecutive_bad |-> g.consecutive_bad + 1,
     current_state   |-> g.current_state
                             /\ g.consecutive_bad + 1 < HysteresisBadWindows]

\* Seeded fault: the failing windows are counted down
GateAfterFailCountingDown(g) ==
    [consecutive_ok  |-> 0,
     consecutive_bad |-> g.consecutive_bad - 1,
     current_state   |-> g.current_state
                             /\ g.consecutive_bad - 1 < HysteresisBadWindows]

GateAfterFail(g) ==
    LET bad == g.consecutive_bad + 1
    IN  [consecutive_ok  |-> 0,
         consecutive_bad |-> bad,
         current_state   |-> g.current_state /\ bad < HysteresisBadWindows]

Evaluate(g, m) == IF PassesThresholds(m) THEN GateAfterPass(g) ELSE GateAfterFail(g)
=============================================================================
