----------------------------- MODULE MCSttGate -----------------------------
(***************************************************************************)
(* Windows for TLC: a clean one and, against it, one that fails each of    *)
(* the thresholds alone, by one unit, and a few whose score is close to it. *)
(***************************************************************************)
EXTENDS SttGateHistory

Clean ==
    [clipping_ratio |-> 0, silence_ratio |-> 0, snr_estimate_db |-> 40,
     spectral_flatness |-> 100, packet_loss_pct |-> 0, jitter_ms |-> 20,
     rms_dbfs |-> -20]

MCWindows ==
    {Clean,
     [Clean EXCEPT !.silence_ratio = 601],
     [Clean EXCEPT !.clipping_ratio = 20, !.silence_ratio = 600,
                   !.snr_estimate_db = 18],
     [Clean EXCEPT !.snr_estimate_db = 11, !.packet_loss_pct = 6],
     [Clean EXCEPT !.silence_ratio = 500, !.snr_estimate_db = 12,
                   !.rms_dbfs = -60, !.packet_loss_pct = 2],
     [Clean EXCEPT !.silence_ratio = 500, !.snr_estimate_db = 12,
                   !.packet_loss_pct = 2]}
=============================================================================
