----------------------------- MODULE TesterPage -----------------------------
(***************************************************************************)
(* The tester page (src/tester-web) on the tools of the service: how it    *)
(* encodes a recording, the preview panel with its effects, its requests   *)
(* that are not called off but only no longer listened to, and its object  *)
(* URLs, and the WebSocket analysis with its loss slider.                  *)
(* The service serves either the script of ServiceRequests or the page:    *)
(* none of the requests of one is seen by the other.                       *)
(***************************************************************************)
EXTENDS ServiceRequests, FiniteSets

CONSTANTS
    PageSetups,     \* the setups that the page is opened with
    RecordedRate,   \* samples per second of a recording
    Recordings,     \* what may be recorded or loaded: sequences of samples
    Codecs,         \* settings of the codec panel: format, rate, frame_ms
    Presets,        \* the sequence of settings that are compared
    MaxTakes, MaxChanges, MaxComparisons,   \* how often each is done
    MaxAnalyzed     \* analyses are started before more URLs than this are made

\* what a setting of the codec may be (types.ts:13)
CodecSettings == [format : Formats, rate : {NarrowRate, WideRate}, frame_ms : {20, 40, 60}]

ASSUME PresetsAssumption == Presets \in Seq(CodecSettings)

\* resampling picks samples and makes none up
ASSUME PageAssumption ==
    /\ RecordedRate \in Nat \ {0}
    /\ RecordedRate % NarrowRate = 0 /\ RecordedRate % WideRate = 0
    /\ Recordings \subseteq Seq(Samples16)
    /\ MaxTakes \in Nat

\* what the panel offers (types.ts:15); a frame of 20 ms is whole samples, and
\* no packet is without a byte
ASSUME CodecAssumption ==
    /\ Codecs \subseteq CodecSettings
    /\ NarrowRate % 50 = 0
    /\ \A codec \in Codecs :
           codec.format = "rtp_g729" => BytesPerFrame(codec.format, codec.frame_ms) # 0

VARIABLES
    page,           \* the state of App and AudioPreviewPanel
    stream          \* the WebSocket analysis under way, or the last one

pageVars == <<page, stream>>

DefaultCodec == [format |-> "pcm_s16le_8k", rate |-> NarrowRate, frame_ms |-> 20]

BackendFormats == {"rtp_g722", "rtp_g729"}

\* original, current and variants are numbers of URLs, 0 is null; every run of
\* the preview's effect has an age, and requests are those it waits for
NoPage ==
    [take |-> 0, pcm |-> << >>, codec |-> DefaultCodec, changes |-> 0, comparisons |-> 0,
     original |-> 0, current |-> 0, variants |-> << >>, urls |-> << >>, age |-> 0,
     requests |-> {}, error |-> FALSE, generating |-> FALSE,
     compared |-> [take |-> 0, pcm |-> << >>]]

NoStream == [of |-> DefaultCodec, frames |-> << >>, next |-> 1, delivered |-> {},
             rtp |-> NewDepacketizer]

Init == ServiceInit /\ page = NoPage /\ stream = NoStream
-----------------------------------------------------------------------------
(***************************************************************************)
(* Encoding and decoding on the page (lib/audio.ts).                       *)
(***************************************************************************)

\* resampleInt16 to a rate that divides the one of the recording: the samples that
\* are picked, which the page's floats may move by one unit when the rates differ
Resampled(pcm, rate) ==
    [i \in 1 .. (Len(pcm) * rate) \div RecordedRate |->
        pcm[(((i - 1) * RecordedRate) \div rate) + 1]]

\* encodeForTransport: slices of PCM, packets of pack-rtp, or packets of its own
EncodeForTransport(pcm, codec) ==
    LET samples == Resampled(pcm, codec.rate)
        size    == (codec.rate * codec.frame_ms) \div 1000
    IN  CASE codec.format \in PcmFormats -> Slices(samples, size)
          [] codec.format \in BackendFormats ->
                 PackRtpFrames(codec.format, samples, codec.frame_ms)
          [] codec.format = "rtp_pcmu" ->
                 Cut([i \in 1 .. Len(samples) |-> LinearToMulaw(samples[i])], size, "Pcmu")
          [] codec.format = "rtp_pcma" ->
                 Cut([i \in 1 .. Len(samples) |-> LinearToAlaw(samples[i])], size, "Pcma")

\* decodeFromEncoded: decode-rtp, or the page's own tables
DecodeFromEncoded(format, frames) ==
    CASE format \in PcmFormats -> FlattenSeq(frames)
      [] format \in BackendFormats -> DecodeRtpFrames(format, frames)
      [] format = "rtp_pcmu" ->
             FlattenSeq([k \in 1 .. Len(frames) |->
                            [i \in 1 .. Len(frames[k].payload) |->
                                UlawToLinear(frames[k].payload[i])]])
      [] format = "rtp_pcma" ->
             FlattenSeq([k \in 1 .. Len(frames) |->
                            [i \in 1 .. Len(frames[k].payload) |->
                                PageAlawToLinear(frames[k].payload[i])]])

\* An object URL: what it was made for, what it plays, and whether it was ever
\* put into the panel.
Url(pcm, take, codec, shown) ==
    [live |-> TRUE, take |-> take, codec |-> codec, recorded |-> pcm, shown |-> shown,
     samples |-> DecodeFromEncoded(codec.format, EncodeForTransport(pcm, codec))]

OriginalUrl(pcm, take) ==
    [live |-> TRUE, take |-> take, codec |-> DefaultCodec, recorded |-> << >>, shown |-> TRUE,
     samples |-> << >>]
-----------------------------------------------------------------------------
(***************************************************************************)
(* The preview panel.                                                      *)
(***************************************************************************)
Shown(p) == {p.original, p.current} \cup {p.variants[i] : i \in 1 .. Len(p.variants)}

Revoke(p, numbers) ==
    [p EXCEPT !.urls = [k \in DOMAIN p.urls |->
                           IF k \in numbers THEN [p.urls[k] EXCEPT !.live = FALSE]
                           ELSE p.urls[k]]]

\* Seeded fault: the URL of the preview is not revoked
CleanUpAllButCurrent(p) == Revoke(p, Shown(p) \ {p.current})

\* the cleanup of the second effect, run when any of the three has changed,
\* with the values from before the change: it revokes all of them
CleanUp(p) == Revoke(p, Shown(p))

\* setCurrentPreviewUrl
ShowCurrent(p, url) ==
    IF url = p.current THEN p ELSE [CleanUp(p) EXCEPT !.current = url]

\* Seeded fault: an answer is shown whether or not it is still waited for
PreviewAlways(p, request) ==
    LET made == [p EXCEPT !.urls = Append(@, Url(request.pcm, request.take, request.codec, TRUE)),
                          !.requests = @ \ {request}]
    IN  ShowCurrent(made, Len(made.urls))

\* the first effect's promise is fulfilled: a URL is made in any case, and shown
\* unless the effect has run again since
Preview(p, request) ==
    LET waited == request.age = p.age
        made   == [p EXCEPT !.urls = Append(@, Url(request.pcm, request.take, request.codec, waited)),
                            !.requests = @ \ {request}]
    IN  IF waited THEN ShowCurrent(made, Len(made.urls)) ELSE made

\* the first effect runs, the run before it is cancelled; formats the page
\* encodes itself are there before the next event, the others are asked for
PreviewEffect(p) ==
    LET request == [age |-> p.age + 1, take |-> p.take, pcm |-> p.pcm, codec |-> p.codec]
        begun   == [p EXCEPT !.age = @ + 1, !.error = FALSE]
    IN  IF p.pcm = << >> THEN ShowCurrent([p EXCEPT !.age = @ + 1], 0)
        ELSE IF p.codec.format \in BackendFormats
        THEN [begun EXCEPT !.requests = @ \cup {request}]
        ELSE Preview(begun, request)

\* useMemo: a recording that is not empty gets a URL
Recorded(p, pcm) ==
    LET taken == [p EXCEPT !.take = @ + 1, !.pcm = pcm]
    IN  IF pcm # << >>
        THEN [CleanUp(taken) EXCEPT !.urls = Append(@, OriginalUrl(pcm, p.take + 1)),
                                    !.original = Len(p.urls) + 1]
        ELSE IF p.original # 0 THEN [CleanUp(taken) EXCEPT !.original = 0]
        ELSE taken

\* The script has asked for nothing: the page has this run of the process to itself.
PageServed ==
    process = "serving" /\ setup \in PageSetups /\ exchange = NoExchange /\ ready = NotAsked

\* an analysis that is under way has all it needs, and nothing to do with the panel
Used == PageServed /\ stream = NoStream /\ UNCHANGED <<serviceVars, stream>>

\* a recording is stopped, or a file has been loaded
Record(pcm) ==
    /\ Used /\ page.take < MaxTakes
    /\ page' = PreviewEffect(Recorded(page, pcm))

\* the codec panel, and every other setting: a new object, whether or not the codec
\* in it is a new one
ChangeConfig(codec) ==
    /\ Used /\ page.changes < MaxChanges
    /\ page' = PreviewEffect([page EXCEPT !.codec = codec, !.changes = @ + 1])

PreviewArrives(request) == Used /\ page' = Preview(page, request)

\* pack-rtp or decode-rtp answers with an error, or not at all
PreviewFails(request) ==
    /\ Used
    /\ page' = LET over == [page EXCEPT !.requests = @ \ {request}]
               IN  IF request.age = page.age
                   THEN ShowCurrent([over EXCEPT !.error = TRUE], 0)
                   ELSE over

\* generateVariants, of the recording as it is now
GenerateVariants ==
    /\ Used /\ page.comparisons < MaxComparisons
    /\ page.pcm # << >> /\ ~ page.generating
    /\ page' = [page EXCEPT !.generating = TRUE, !.error = FALSE, !.comparisons = @ + 1,
                            !.compared = [take |-> page.take, pcm |-> page.pcm]]

\* the first n of the variants, numbered on from the URLs there are
Built(p, n, shown) ==
    [p EXCEPT !.urls = @ \o [i \in 1 .. n |-> Url(p.compared.pcm, p.compared.take,
                                                 Presets[i], shown)],
              !.generating = FALSE, !.compared = NoPage.compared]

\* nobody asks whether the recording is still the same
VariantsArrive ==
    /\ Used /\ page.generating
    /\ page' = [CleanUp(Built(page, Len(Presets), TRUE)) EXCEPT
                   !.variants = [i \in 1 .. Len(Presets) |-> Len(page.urls) + i]]

\* one of the backend's formats fails, and the URLs made before it are lost
VariantsFail ==
    /\ Used /\ page.generating
    /\ \E n \in 1 .. Len(Presets) :
           /\ Presets[n].format \in BackendFormats
           /\ page' = [Built(page, n - 1, FALSE) EXCEPT !.error = TRUE]
-----------------------------------------------------------------------------
(***************************************************************************)
(* The WebSocket analysis (analyzeWebSocket): frames are sent in order,    *)
(* and those the slider picks are left out; at the other end the packets   *)
(* go to the depacketizer of a session of their own.                       *)
(***************************************************************************)
AnalyzeWebSocket ==
    /\ PageServed /\ stream = NoStream
    /\ page.pcm # << >> /\ page.codec.format \in RtpFormats
    /\ Len(page.urls) <= MaxAnalyzed
    /\ stream' = [NoStream EXCEPT !.of = page.codec,
                                  !.frames = EncodeForTransport(page.pcm, page.codec)]
    /\ UNCHANGED <<serviceVars, page>>

SendFrame ==
    /\ stream.next <= Len(stream.frames)
    /\ stream' = [stream EXCEPT
                     !.next = @ + 1,
                     !.delivered = @ \cup {stream.next},
                     !.rtp = AfterPacket(@, stream.frames[stream.next],
                                         ExpectedPayload(stream.of.format))]
    /\ UNCHANGED <<serviceVars, page>>

SkipFrame ==
    /\ stream.next <= Len(stream.frames)
    /\ stream' = [stream EXCEPT !.next = @ + 1]
    /\ UNCHANGED <<serviceVars, page>>

\* all frames have been looked at, and the page closes the connection
CloseAnalysis ==
    /\ stream # NoStream /\ stream.next > Len(stream.frames)
    /\ stream' = NoStream
    /\ UNCHANGED <<serviceVars, page>>
-----------------------------------------------------------------------------
PageNext ==
    \/ \E pcm \in Recordings : Record(pcm)
    \/ \E codec \in Codecs : ChangeConfig(codec)
    \/ \E request \in page.requests : PreviewArrives(request) \/ PreviewFails(request)
    \/ GenerateVariants \/ VariantsArrive \/ VariantsFail
    \/ AnalyzeWebSocket \/ SendFrame \/ SkipFrame \/ CloseAnalysis

Next ==
    \/ page = NoPage /\ ServiceNext /\ UNCHANGED pageVars
    \/ PageNext

Spec == Init /\ [][Next]_<<serviceVars, pageVars>>
-----------------------------------------------------------------------------
\* Types of the variables.
TypeOK ==
    /\ ServiceTypeOK
    /\ page.take \in 0 .. MaxTakes
    /\ page.codec \in Codecs \cup {DefaultCodec}
    /\ {page.original, page.current} \cup {page.variants[i] : i \in DOMAIN page.variants}
           \subseteq 0 .. Len(page.urls)
    /\ \A request \in page.requests : request.age <= page.age
    /\ stream.delivered \subseteq 1 .. Len(stream.frames)
    /\ stream.rtp \in Depacketizers

\* Sample i as it is played and the recording as it was sent.  PCM is exact;
\* G.711 comes near, except where the page's A-law decoder is wrong; of G.722 it is
\* only known that the sample is decoded from the byte that was written when the
\* encoder had read this sample, or this one and the next, and nothing more.
Heard(format, played, sent, i) ==
    CASE format \in PcmFormats -> played = sent[i]
      [] format = "rtp_pcmu" -> Near(played, sent[i])
      [] format = "rtp_pcma" ->
             Near(played, sent[i]) \/ Magnitude(sent[i]) \in 256 .. 511
      [] format = "rtp_g722" ->
             /\ Len(Last(played)) = 2 * ((i + 1) \div 2)
             /\ \A j \in 1 .. i : Last(played)[j] = sent[j]

\* What the preview or a variant plays is made of what was recorded, resampled, in
\* its order, without a sample too few and with at most one too many, where the
\* encoder needs an even number ("o mesmo fluxo enviado",
\* AudioPreviewPanel.tsx:118): for PCM the samples, for G.711 the nearest it has,
\* for G.722 what a decoder of its own makes of each packet.  G.729 is left out:
\* its packets are packed as G.722 and none of them is decoded.
PreviewIsWhatWasRecorded ==
    \A k \in DOMAIN page.urls :
        LET url  == page.urls[k]
            sent == Resampled(url.recorded, url.codec.rate)
        IN  url.recorded # << >> /\ url.codec.format # "rtp_g729" =>
                /\ Len(url.samples) - Len(sent) \in {0, 1}
                /\ \A i \in 1 .. Len(sent) :
                       Heard(url.codec.format, url.samples[i], sent, i)

\* Once the answer to the last change is there, a preview that is offered is of
\* the recording and the settings on the screen, in whatever order the answers
\* to earlier changes came (the flag "cancelled" of AudioPreviewPanel.tsx:43).
ShownPreviewIsTheNewest ==
    page.current # 0 /\ (\A request \in page.requests : request.age < page.age) =>
        /\ page.urls[page.current].take = page.take
        /\ page.urls[page.current].codec = page.codec

\* What the panel has shown and shows no longer has been revoked: of the URLs
\* that play something, those not on the screen were never there, their preview
\* having been overtaken or their comparison having failed (the cleanup at
\* AudioPreviewPanel.tsx:57, which knows nothing of these).
UrlsAreAccountedFor ==
    \A k \in DOMAIN page.urls :
        page.urls[k].live /\ page.urls[k].shown => k \in Shown(page)

FirstDelivered == CHOOSE k \in stream.delivered : \A j \in stream.delivered : k <= j
LastDelivered == CHOOSE k \in stream.delivered : \A j \in stream.delivered : j <= k

\* the last frame that was delivered before the last one
Previous ==
    CHOOSE k \in stream.delivered \ {LastDelivered} :
        \A j \in stream.delivered \ {LastDelivered} : j <= k

\* more than a round of sequence numbers is never left out in one go
GapsCanBeTold ==
    \A k \in FirstDelivered .. LastDelivered - SequenceMod + 1 :
        (k .. k + SequenceMod - 1) \cap stream.delivered # {}

\* The packets of pack-rtp and those of the page are a stream that loses what
\* the slider leaves out of it and nothing else, across the wrap of the sequence
\* numbers, and that is stamped by the 8 kHz clock, if the sample rate is the
\* one of the format: the distance the jitter is computed from is the time
\* between the frames delivered.
StreamShowsTheLoss ==
    stream.delivered # {} /\ stream.of.format # "rtp_g729" =>
        /\ stream.rtp.packets_received = Cardinality(stream.delivered) % CounterMod
        /\ GapsCanBeTold =>
               stream.rtp.packets_lost =
                   Cardinality((FirstDelivered .. LastDelivered) \ stream.delivered) % CounterMod
        /\ stream.delivered # {LastDelivered} /\ stream.of.rate = SampleRateForFormat(stream.of.format) =>
               LET ticks == ((LastDelivered - Previous) * stream.of.frame_ms * NarrowRate) \div 1000
               IN  2 * ticks < TimestampMod => stream.rtp.jitter_sample = ticks
=============================================================================
