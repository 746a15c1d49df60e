---------------------------- MODULE AudioFormats ----------------------------
(***************************************************************************)
(* The audio formats (AudioFormat in src/include/voiceqas/metrics.hpp), by *)
(* what names and numbers callers call them, and their sample rates.       *)
(***************************************************************************)
EXTENDS Integers

CONSTANTS
    NarrowRate, WideRate,   \* samples per second: 8000 and 16000
    Junk                    \* a sample nobody recorded

ASSUME RatesAssumption ==
    /\ NarrowRate \in Nat \ {0}
    /\ WideRate = 2 * NarrowRate

PcmFormats == {"pcm_s16le_8k", "pcm_s16le_16k"}
RtpFormats == {"rtp_pcmu", "rtp_pcma", "rtp_g722", "rtp_g729"}
Formats == PcmFormats \cup RtpFormats

\* the values of the enumeration, in C++, in JSON and in the protocol
NumberedFormats == <<"pcm_s16le_8k", "pcm_s16le_16k", "rtp_pcmu", "rtp_pcma",
                     "rtp_g722", "rtp_g729">>

FormatNumbered(number) ==
    IF number \in 1 .. 6 THEN NumberedFormats[number] ELSE "pcm_s16le_8k"

\* the other names of the formats, in lower case
FormatAliases ==
    [pcm_8k |-> "pcm_s16le_8k", pcm_16k |-> "pcm_s16le_16k",
     pcmu |-> "rtp_pcmu", g711 |-> "rtp_pcmu", g711_ulaw |-> "rtp_pcmu",
     pcma |-> "rtp_pcma", g711_alaw |-> "rtp_pcma",
     g722 |-> "rtp_g722", g729 |-> "rtp_g729"]

FormatNames == Formats \cup DOMAIN FormatAliases

\* audio_format_from_string, which throws on any other name
FormatNamed(name) == IF name \in Formats THEN name ELSE FormatAliases[name]

SampleRateForFormat(format) ==
    IF format \in {"pcm_s16le_16k", "rtp_g722"} THEN WideRate ELSE NarrowRate

\* the payload type an RTP format calls for
ExpectedPayload(format) ==
    CASE format = "rtp_pcma" -> "Pcma"
      [] format = "rtp_g722" -> "G722"
      [] format = "rtp_g729" -> "G729"
      [] OTHER -> "Pcmu"
=============================================================================
