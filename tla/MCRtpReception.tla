--------------------------- MODULE MCRtpReception ---------------------------
(***************************************************************************)
(* Four sequence numbers and eight counter values, so that six packets     *)
(* wrap both; the first timestamp is one step before its wrap.             *)
(***************************************************************************)
EXTENDS RtpReception
=============================================================================
