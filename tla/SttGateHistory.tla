--------------------------- MODULE SttGateHistory ---------------------------
(***************************************************************************)
(* One gate and every window it has judged since it was made or reset.     *)
(* The code keeps two counters and a flag instead of that history; the     *)
(* invariants say what the three must mean in terms of it.                 *)
(***************************************************************************)
EXTENDS SttGate, Sequences

CONSTANTS
    Windows,        \* the metrics a window of audio may show
    MaxHistory      \* bound on the windows between two resets

ASSUME HistoryAssumption ==
    /\ Windows \subseteq WindowMetrics
    /\ MaxHistory \in Nat

VARIABLES
    gate,           \* the fields of the SttGate object
    history         \* the windows evaluated since the last reset

vars == <<gate, history>>

Init ==
    /\ gate = NewGate
    /\ history = << >>

EvaluateWindow(m) ==
    /\ Len(history) < MaxHistory
    /\ gate' = Evaluate(gate, m)
    /\ history' = Append(history, m)

\* VoiceAnalyzer::reset and a session's new analyzer both start over
Reset ==
    /\ gate' = NewGate
    /\ history' = << >>

Next == (\E m \in Windows : EvaluateWindow(m)) \/ Reset

Spec == Init /\ [][Next]_vars
-----------------------------------------------------------------------------
Passed(i) == PassesThresholds(history[i])

\* window i passed (failed), and so did the length - 1 windows before it
PassRunEndsAt(i, length) ==
    /\ Passed(i)
    /\ length <= i
    /\ \A j \in 1 .. i : i - length < j => Passed(j)

FailRunEndsAt(i, length) ==
    /\ ~ Passed(i)
    /\ length <= i
    /\ \A j \in 1 .. i : i - length < j => ~ Passed(j)

\* Types of the gate's fields and of the history.
TypeOK ==
    /\ gate \in Gates
    /\ history \in Seq(Windows)

\* The state the gate holds is the one its history calls for: stt_ready is on
\* exactly when some run of hysteresis_ok_windows passing windows has not been
\* followed by a run of hysteresis_bad_windows failing ones (stt_gate.cpp:39).
ReadyIffHistorySaysSo ==
    gate.current_state <=>
        \E i \in 1 .. Len(history) :
            /\ PassRunEndsAt(i, HysteresisOkWindows)
            /\ \A j \in i + 1 .. Len(history) :
                   ~ FailRunEndsAt(j, HysteresisBadWindows)

\* Each counter is the length of the run of equal verdicts the history ends
\* with, and the other one is zero: a verdict leaves nothing of the run it ends.
CountersAreTheLastRun ==
    /\ gate.consecutive_ok <= Len(history)
    /\ \A j \in 1 .. Len(history) :
           Len(history) - gate.consecutive_ok < j => Passed(j)
    /\ gate.consecutive_ok < Len(history) =>
           ~ Passed(Len(history) - gate.consecutive_ok)
    /\ gate.consecutive_bad <= Len(history)
    /\ \A j \in 1 .. Len(history) :
           Len(history) - gate.consecutive_bad < j => ~ Passed(j)
    /\ gate.consecutive_bad < Len(history) =>
           Passed(Len(history) - gate.consecutive_bad)

\* m is no worse than n in anything the score and the thresholds look at
NoWorse(m, n) ==
    /\ m.clipping_ratio <= n.clipping_ratio
    /\ m.silence_ratio <= n.silence_ratio
    /\ m.snr_estimate_db >= n.snr_estimate_db
    /\ m.spectral_flatness <= n.spectral_flatness
    /\ m.packet_loss_pct <= n.packet_loss_pct
    /\ m.jitter_ms <= n.jitter_ms
    /\ m.rms_dbfs >= n.rms_dbfs

\* Better audio is never judged worse: a window that is no worse in every
\* respect than one that passed would have passed in its place, and its score
\* would not have been lower (composite_score and passes_thresholds).
BetterAudioNeverScoresLower ==
    \A i \in 1 .. Len(history), m \in Windows :
        NoWorse(m, history[i]) =>
            /\ CompositeScore(m) >= CompositeScore(history[i])
            /\ Passed(i) => PassesThresholds(m)
=============================================================================
