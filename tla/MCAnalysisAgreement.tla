------------------------ MODULE MCAnalysisAgreement ------------------------
(***************************************************************************)
(* 16 kHz audio, so that a frame is two blocks and can be cut in half, and *)
(* windows of three frames.  Messages are a frame, two frames of silence,  *)
(* half a frame, a window of speech, a window that falls silent after its  *)
(* first frame, and more than two windows at once.                         *)
(***************************************************************************)
EXTENDS AnalysisAgreement

MCSpeechEnergyThreshold == -40

Speech == [rms_dbfs |-> -20, clipping_ratio |-> 0, spectral_flatness |-> 100]
Clipped == [rms_dbfs |-> -20, clipping_ratio |-> 100, spectral_flatness |-> 100]
Silence == [rms_dbfs |-> -60, clipping_ratio |-> 0, spectral_flatness |-> 600]

\* n blocks of the same sound
Run(block, n) == [i \in 1 .. n |-> block]

MCMessages ==
    {Run(Speech, 2), Run(Silence, 4), Run(Speech, 1), Run(Speech, 6),
     <<Clipped, Speech, Silence, Silence, Silence, Silence>>,
     Run(Speech, 10) \o Run(Silence, 4)}
=============================================================================
