-------------------------- MODULE MCQualityStreams --------------------------
(***************************************************************************)
(* A connection, a gRPC call and a REST request that share a session, with *)
(* windows of two frames, in RTP and in PCM at 8 kHz and in PCM at 16 kHz; *)
(* one good window is enough to be ready, so that the bound on pushes      *)
(* leaves room for what comes after.                                       *)
(***************************************************************************)
EXTENDS QualityStreams

MCSpeechEnergyThreshold == -40

MCSound == [rms_dbfs |-> -20, clipping_ratio |-> 0, spectral_flatness |-> 100]
=============================================================================
