--------------------------- MODULE RequestReading ---------------------------
(***************************************************************************)
(* What the handlers make of a request (src/src/server/rest_server.cpp,    *)
(* src/src/server/grpc_server.cpp, src/src/stt/model_util.cpp): the audio  *)
(* and its rate as they are handed on, and the model and language of a     *)
(* transcription.                                                          *)
(***************************************************************************)
EXTENDS RtpTools, WavFile

CONSTANTS
    Absent      \* what is not in the request

ASSUME AbsentAssumption == Absent # ""

(***************************************************************************)
(* The audio of a request: the kind of endpoint it is for, the content     *)
(* type of an upload, the name or number of the format, the rate (0 if it  *)
(* is not given), the field of the JSON body the bytes are in, the bytes,  *)
(* as the packets one behind the other that they are, if they are that,    *)
(* and as the samples they are when they are read as PCM, or the WAV file  *)
(* they are.                                                               *)
(***************************************************************************)
NoWav == [size |-> 0, riff_wave |-> FALSE, chunks |-> << >>]

NoBytes == [packets |-> << >>, samples |-> << >>]

\* the letters of a base64 text, four to three bytes, taken for bytes
Letters(bytes) ==
    [packets |-> << >>,
     samples |-> [i \in 1 .. 2 * ((2 * Len(bytes.samples) + 2) \div 3) |-> Junk]]

DecodePayloadJson(audio) ==
    CASE audio.field \in {"pcm_bytes", "payload_bytes"} -> audio.bytes
      [] audio.field = "payload_base64" -> Letters(audio.bytes)
      [] OTHER -> NoBytes

Refused == [refused |-> TRUE, rate |-> 0, samples |-> << >>]

\* the twelve bytes of a header where samples are expected, each of them taken
\* for the first (0x80)
HeaderBytes == [i \in 1 .. 12 |-> 128]

\* a header is read once: what comes behind the first packet is payload of it
ReadAsOne(packets) ==
    [header_ok |-> packets[1].header_ok, payload_type |-> packets[1].payload_type,
     payload   |-> FlattenSeq([k \in 1 .. Len(packets) |->
                                  IF k = 1 THEN packets[1].payload
                                  ELSE HeaderBytes \o packets[k].payload])]

\* decode_payload_to_pcm: one packet if it is an RTP format, else samples
PayloadToPcm(format, bytes) ==
    IF format \notin RtpFormats THEN bytes.samples
    ELSE IF bytes.packets = << >> THEN << >>
    ELSE Decoded(format, ReadAsOne(bytes.packets))

\* analyze_batch and prepare_audio_for_stt: the bytes read in this format, at
\* this rate or else at the format's own
HandOn(format, rate, bytes) ==
    [refused |-> FALSE,
     rate    |-> IF rate > 0 THEN rate ELSE SampleRateForFormat(format),
     samples |-> PayloadToPcm(format, bytes)]

\* Seeded fault: the announced rate of a file is that of the header, not its own
HandOnFileAtHeaderRate(audio) ==
    IF Takes(audio.file)
    THEN HandOn("pcm_s16le_8k", audio.rate,
                [packets |-> << >>, samples |-> WavInfo(audio.file).samples])
    ELSE Refused

\* a file is taken for PCM of its own rate
HandOnFile(audio) ==
    IF Takes(audio.file)
    THEN HandOn(IF WavInfo(audio.file).sample_rate >= WideRate
                THEN "pcm_s16le_16k" ELSE "pcm_s16le_8k",
                WavInfo(audio.file).sample_rate,
                [packets |-> << >>, samples |-> WavInfo(audio.file).samples])
    ELSE Refused

\* /v1/analyze/batch and /v1/stt/transcribe: the format comes in a header and
\* is looked at first, even if the body is a file
ReadUpload(audio) ==
    IF audio.format \notin FormatNames \cup {Absent} THEN Refused
    ELSE IF audio.content = "wav" THEN HandOnFile(audio)
    ELSE HandOn(IF audio.format = Absent THEN "pcm_s16le_8k" ELSE FormatNamed(audio.format),
                audio.rate, audio.bytes)

\* /v1/analyze/segment and /v1/stt/transcribe/segment: the format is a name and
\* must be there
ReadSegment(audio) ==
    IF audio.format \in FormatNames
    THEN HandOn(FormatNamed(audio.format), audio.rate, DecodePayloadJson(audio))
    ELSE Refused

\* the two /v1/playground/grpc calls: a name, or a number, or nothing
ReadPlayground(audio) ==
    IF audio.format = Absent
    THEN HandOn(FormatNumbered(audio.number), audio.rate, DecodePayloadJson(audio))
    ELSE ReadSegment(audio)

\* analyze-batch of the playground also takes a text in a field of its own
ReadPlaygroundText(audio) ==
    ReadPlayground(IF audio.field = "payload" THEN [audio EXCEPT !.field = "payload_base64"]
                   ELSE audio)

\* AnalyzeBatch and Transcribe of the gRPC services
ReadMessage(audio) == HandOn(FormatNumbered(audio.number), audio.rate, audio.bytes)

(***************************************************************************)
(* A caller who does what the interfaces ask for: the format is one they   *)
(* know, the bytes are in a field they read, and are what the caller       *)
(* recorded as PCM or as packets of PCMU, or the file that holds it.  The  *)
(* other codecs are left out: A-law is decoded wrongly, and of the samples *)
(* of G.722 and G.729 the model says nothing.                              *)
(***************************************************************************)
Understood(audio) ==
    /\ audio.via \in {"upload", "segment", "playground", "message"}
    /\ audio.via = "segment" => audio.format \in FormatNames
    /\ audio.via \in {"upload", "playground"} => audio.format \in FormatNames \cup {Absent}
    /\ audio.via \in {"segment", "playground"} =>
           audio.field \in {"pcm_bytes", "payload_bytes", "payload_base64"}

Announced(audio) ==
    IF audio.via = "message" \/ (audio.via = "playground" /\ audio.format = Absent)
    THEN FormatNumbered(audio.number)
    ELSE IF audio.via = "upload" /\ audio.format = Absent THEN "pcm_s16le_8k"
    ELSE FormatNamed(audio.format)

\* the payloads of the packets are what the page's encoder makes of the samples
CarriesPcmu(packets, samples) ==
    /\ Len(packets) \in Nat \ {0}
    /\ \A k \in 1 .. Len(packets) :
           Accepts(packets[k], "Pcmu") /\ packets[k].payload \in Seq(0 .. 255)
    /\ FlattenSeq([k \in 1 .. Len(packets) |-> packets[k].payload])
           = [i \in 1 .. Len(samples) |-> LinearToMulaw(samples[i])]

Encodes(bytes, format, samples) ==
    \/ format \in PcmFormats /\ bytes.samples = samples
    \/ /\ format = "rtp_pcmu" /\ CarriesPcmu(bytes.packets, samples)
       /\ samples \in Seq(Samples16)

\* a rate of zero leaves it to the format
Means(audio, meant) ==
    /\ Understood(audio) /\ meant.samples \in Seq(Int)
    /\ IF audio.content = "wav" THEN HoldsRecording(audio.file, meant.rate, meant.samples)
       ELSE /\ Encodes(audio.bytes, Announced(audio), meant.samples)
            /\ meant.rate = IF audio.rate > 0 THEN audio.rate
                            ELSE SampleRateForFormat(Announced(audio))

(***************************************************************************)
(* The model and the language: the texts of a request, each of them one    *)
(* that is there, possibly empty, or Absent.                               *)
(***************************************************************************)
ModelAliases ==
    [parakeet |-> "parakeet", whisper |-> "whisper", whisper_callcenter |-> "whisper",
     callcenter |-> "whisper", auto |-> "auto"]

\* Seeded fault: a name is taken as it is, unless there is none
ParseAnyName(text, fallback) == IF text = "" THEN fallback ELSE text

ParseModelChoice(text, fallback) ==
    IF text \in DOMAIN ModelAliases THEN ModelAliases[text] ELSE fallback

DefaultModelChoice(config) == ParseModelChoice(config["default_model"], "auto")

\* a header that is empty counts as one that is not there
Header(text) == IF text = "" THEN Absent ELSE text

FirstThere(texts, otherwise) ==
    LET there == {i \in 1 .. Len(texts) : texts[i] # Absent}
    IN  IF there = {} THEN otherwise
        ELSE texts[CHOOSE i \in there : \A j \in there : i <= j]

\* Seeded fault: a model named in the body is not looked at
OptionsFromHeaders(named, config) ==
    [model    |-> ParseModelChoice(FirstThere(<<Header(named.header_model), named.query_model>>, ""),
                                   DefaultModelChoice(config)),
     language |-> FirstThere(<<Header(named.header_language), named.body_language>>,
                             config["language"])]

\* transcribe_options_from_request: header before query before body
OptionsFromRequest(named, config) ==
    [model    |-> ParseModelChoice(
                      FirstThere(<<Header(named.header_model), named.query_model, named.body_model>>,
                                 ""),
                      DefaultModelChoice(config)),
     language |-> FirstThere(<<Header(named.header_language), named.body_language>>,
                             config["language"])]

\* Transcribe of the gRPC service, which takes a name it does not know for "auto"
OptionsFromMessage(named, config) ==
    [model    |-> IF Header(named.body_model) = Absent THEN DefaultModelChoice(config)
                  ELSE ParseModelChoice(named.body_model, "auto"),
     language |-> IF Header(named.body_language) = Absent THEN config["language"]
                  ELSE named.body_language]

\* transcribe_batch: an empty language is the configured one
WithLanguage(options, config) ==
    [options EXCEPT !.language = IF @ = "" THEN config["language"] ELSE @]
=============================================================================
