---------------------------- MODULE MCTesterPage ----------------------------
(***************************************************************************)
(* Processes that are started with and without a file, with a file that    *)
(* breaks off, under several environments and over several disks; requests *)
(* of every kind, with rates of 50 and 100 samples per second, so that a   *)
(* frame of 20 ms has one sample or two; and a page with recordings of up  *)
(* to twelve samples, more frames than there are sequence numbers.         *)
(***************************************************************************)
EXTENDS TesterPage

ExamplePath == "config/voiceqas.example.yaml"

ExampleFile ==
    [enabled |-> "true", language |-> "pt", default_model |-> "auto", num_threads |-> "2",
     models_dir |-> "/models", parakeet_dir |-> "/p", whisper_dir |-> "/w",
     whisper_callcenter_dir |-> ""]

SiteFile ==
    [language |-> "en", default_model |-> "whisper", models_dir |-> "/models",
     parakeet_dir |-> "/p", whisper_callcenter_dir |-> "/cc"]

BrokenFile ==
    [language |-> "en", num_threads |-> Unreadable, default_model |-> "whisper",
     models_dir |-> "/models", parakeet_dir |-> "/p"]

TwoFiles(site) == [path \in {ExamplePath, "site.yaml"} |->
                       IF path = ExamplePath THEN ExampleFile ELSE site]

Site == <<"--config", "site.yaml">>

FullDisk == [path \in {"/p", "/w", "/cc"} |-> IF path = "/p" THEN {"parakeet"} ELSE {"whisper"}]
BareDisk == [path \in {"/cc", "/w"} |-> IF path = "/cc" THEN {"whisper"} ELSE {}]

Environments ==
    {NoFile,
     [language |-> "es", default_model |-> "parakeet"],
     [enabled |-> "0", num_threads |-> "4"],
     [stt_ready_threshold |-> Unreadable]}

MCSetups ==
    {[argv |-> start[1], files |-> start[2], env |-> env, disk |-> disk] :
        start \in {<< << >>, TwoFiles(SiteFile) >>, <<Site, TwoFiles(SiteFile)>>,
                   << <<"--config", "none.yaml">> \o Site, TwoFiles(BrokenFile) >>,
                   << <<"--config">>, [path \in {} |-> NoFile] >>},
        env \in Environments, disk \in {FullDisk, BareDisk}}

-----------------------------------------------------------------------------
Pcm == <<1, 2, 3, 4>>

Bytes(samples) == [packets |-> << >>, samples |-> samples]

\* packets one behind the other; read as PCM, they and their headers are noise
InOneBody(packets) ==
    [packets |-> packets,
     samples |-> [i \in 1 .. FoldLeft(LAMBDA n, packet : n + 12 + Len(packet.payload), 0, packets)
                              \div 2 |-> Junk]]

G722Bytes == InOneBody(PackRtpFrames("rtp_g722", Pcm, 40))

\* a packet of G.711, as an endpoint on the network sends it
G711Bytes(payload_type) ==
    InOneBody(<<BuildRtpPacket(1, 0, payload_type, <<255, 111, 128, 0>>)>>)

\* loud and quiet samples as the page sends them, so many to a packet
Voice == <<0, -132, 32124, -32768, 300>>

PcmuBytes(size) ==
    InOneBody(Cut([i \in 1 .. Len(Voice) |-> LinearToMulaw(Voice[i])], size, "Pcmu"))

Meant(samples, rate) == [well_formed |-> TRUE, rate |-> rate, samples |-> samples]

Nonsense == [well_formed |-> FALSE, rate |-> 0, samples |-> << >>]

Demand(audio, meant) == [audio |-> audio, named |-> NoNaming, meant |-> meant]

PcmAudio(via, format, number, rate) ==
    [NoAudio EXCEPT !.via = via, !.format = format, !.number = number, !.rate = rate,
                    !.field = "pcm_bytes", !.bytes = Bytes(Pcm)]

PcmDemands ==
    {Demand(PcmAudio("upload", "pcm_16k", 0, 0), Meant(Pcm, WideRate)),
     Demand(PcmAudio("upload", Absent, 0, 75), Meant(Pcm, 75)),
     Demand(PcmAudio("upload", "mp3", 0, 0), Nonsense),
     Demand(PcmAudio("segment", "pcm_s16le_8k", 0, 0), Meant(Pcm, NarrowRate)),
     Demand(PcmAudio("segment", "pcm_16k", 0, 75), Meant(Pcm, 75)),
     Demand([PcmAudio("segment", "pcm_8k", 0, 0) EXCEPT !.field = "payload_base64"],
            Meant(Pcm, NarrowRate)),
     Demand(PcmAudio("segment", Absent, 2, 0), Nonsense),
     Demand(PcmAudio("playground", Absent, 2, 0), Meant(Pcm, WideRate)),
     Demand([PcmAudio("playground", "pcm_16k", 0, 0) EXCEPT !.field = "payload_bytes"],
            Meant(Pcm, WideRate)),
     Demand([PcmAudio("playground", Absent, 1, 0) EXCEPT !.field = "payload"], Nonsense),
     Demand(PcmAudio("playground", "mp3", 0, 0), Nonsense),
     Demand(PcmAudio("message", Absent, 2, 0), Meant(Pcm, WideRate)),
     Demand(PcmAudio("message", Absent, 0, 75), Meant(Pcm, 75))}

PacketDemands ==
    {Demand([PcmAudio(via, "g711", 0, 0) EXCEPT !.bytes = PcmuBytes(5)], Meant(Voice, NarrowRate)) :
        via \in {"upload", "segment", "playground"}}
    \cup {Demand([PcmAudio("message", Absent, n, 75) EXCEPT !.bytes = PcmuBytes(5)],
                 IF n = 3 THEN Meant(Voice, 75) ELSE Nonsense) : n \in {1, 3, 4}}
    \cup {Demand([PcmAudio("segment", "rtp_pcmu", 0, 0) EXCEPT !.bytes = G711Bytes("Pcmu")],
                 Meant(<<0, -132, 32124, -32124>>, NarrowRate)),
          Demand([PcmAudio("segment", "g722", 0, 0) EXCEPT !.bytes = G722Bytes], Nonsense),
          Demand([PcmAudio("message", Absent, 6, 0) EXCEPT !.bytes = G722Bytes], Nonsense)}

PcmaDemands ==
    {Demand([PcmAudio("segment", "rtp_pcma", 0, 0) EXCEPT !.bytes = G711Bytes("Pcma")], Nonsense)}

BatchDemands ==
    {Demand([PcmAudio("upload", "rtp_pcmu", 0, 0) EXCEPT !.bytes = PcmuBytes(size)],
            Meant(Voice, NarrowRate)) : size \in {2, 5}}

-----------------------------------------------------------------------------
Fmt(format, channels, rate) ==
    Chunk("fmt ", 16, 16, [audio_format |-> format, channels |-> channels,
                           sample_rate |-> rate, bits_per_sample |-> 16], << >>)

Data(samples) == Chunk("data", 2 * Len(samples), 2 * Len(samples), NoFields, samples)

List(size) == Chunk("LIST", size, size + (size % 2), NoFields, << >>)

\* the chunks one behind the other after the first 12 bytes
LaidOut(chunks) ==
    FoldLeft(LAMBDA file, chunk :
                 [size |-> file.size + 8 + chunk.stored, riff_wave |-> TRUE,
                  chunks |-> Append(file.chunks, [chunk EXCEPT !.at = file.size])],
             [size |-> 12, riff_wave |-> TRUE, chunks |-> << >>], chunks)

Stereo(samples) ==
    [i \in 1 .. 2 * Len(samples) |-> IF i % 2 = 1 THEN samples[(i + 1) \div 2] ELSE Junk]

GoodFiles ==
    {LaidOut(<<Fmt(1, 1, WideRate), Data(Pcm)>>),
     LaidOut(<<Fmt(1, 2, WideRate), Data(Stereo(Pcm))>>),
     LaidOut(<<Fmt(1, 1, WideRate), List(4), Data(Pcm), List(3)>>),
     LaidOut(<<List(3), Fmt(1, 1, WideRate), Data(Pcm)>>)}

BadFiles ==
    {[LaidOut(<<Fmt(1, 1, WideRate), Data(Pcm)>>) EXCEPT !.size = 50],
     [LaidOut(<<Fmt(1, 1, WideRate), Data(Pcm)>>) EXCEPT !.riff_wave = FALSE],
     [LaidOut(<<List(20), Fmt(1, 1, WideRate), Data(Pcm)>>) EXCEPT !.size = 56],
     LaidOut(<<Data(Stereo(Pcm)), Fmt(1, 1, WideRate)>>),
     LaidOut(<<Fmt(3, 1, WideRate), Data(Pcm)>>),
     LaidOut(<<Fmt(1, 3, NarrowRate), Chunk("data", 11, 8, NoFields, Pcm), List(4)>>)}

\* the header names another format and rate: those of the file count
WavAudio(file) ==
    [NoAudio EXCEPT !.via = "upload", !.content = "wav", !.format = "pcm_8k", !.rate = 75,
                    !.file = file]

WavDemands == {Demand(WavAudio(file), Meant(Pcm, WideRate)) : file \in GoodFiles}
              \cup {Demand(WavAudio(file), Nonsense) : file \in BadFiles}

-----------------------------------------------------------------------------
Namings ==
    {[NoNaming EXCEPT !.header_model = model] : model \in {"", "callcenter", "turbo"}}
    \cup {[NoNaming EXCEPT !.query_model = model] : model \in {"", "parakeet"}}
    \cup {[NoNaming EXCEPT !.body_model = model, !.body_language = language] :
             model \in {"", "whisper", "turbo"}, language \in {"", "fr"}}
    \cup {[NoNaming EXCEPT !.query_model = "", !.body_model = "whisper"]}
    \cup {[NoNaming EXCEPT !.header_model = "auto", !.body_model = "parakeet",
                           !.header_language = "fr"]}

NamingDemands ==
    {[audio |-> PcmAudio(via, IF via = "message" THEN Absent ELSE "pcm_8k",
                         IF via = "message" THEN 1 ELSE 0, 0),
      named |-> named, meant |-> Meant(Pcm, NarrowRate)] :
        via \in {"upload", "segment", "playground", "message"}, named \in Namings}

MCDemands == PcmDemands \cup PacketDemands \cup WavDemands \cup NamingDemands

-----------------------------------------------------------------------------
\* a process with recognition off, the same whatever the recognizers do
MCPageSetups ==
    {s \in MCSetups : "enabled" \in DOMAIN s.env /\ s.disk = BareDisk /\ s.argv = << >>}

\* amplitudes of every kind: around zero, in the second segment of A-law, at
\* the ends of the range, and between two steps
Amplitudes == <<5, -5, 300, -1000, 20000, 0, -32768, 32767, 8, -264, 77, 4095>>

MCRecordings == {<< >>, SubSeq(Amplitudes, 1, 5), Amplitudes}

Codec(format, rate, frame_ms) == [format |-> format, rate |-> rate, frame_ms |-> frame_ms]

MCCodecs ==
    {Codec("pcm_s16le_16k", WideRate, 40), Codec("rtp_pcmu", NarrowRate, 20),
     Codec("rtp_pcma", NarrowRate, 40), Codec("rtp_g722", WideRate, 20),
     Codec("rtp_g722", NarrowRate, 40), DefaultCodec}

MCPresets == <<Codec("rtp_pcma", NarrowRate, 20), Codec("rtp_g722", WideRate, 40)>>
=============================================================================
