------------------------------ MODULE WavFile ------------------------------
(***************************************************************************)
(* parse_wav (src/src/core/wav.cpp): the walk over the chunks of a RIFF    *)
(* file, the checks, and the samples of the first channel.  A file is the  *)
(* number of bytes it has and the chunks its writer laid out in them; what *)
(* is cut off at the end is what lies beyond its size.                     *)
(***************************************************************************)
EXTENDS AudioFormats, SequencesExt

\* A chunk: where its header starts, the size that the header declares, the
\* bytes stored after it (one more if the writer pads it to an even size), and
\* what it holds: the fields of a "fmt " chunk, the samples of a "data" chunk.
NoFields == [audio_format |-> 0, channels |-> 0, sample_rate |-> 0, bits_per_sample |-> 0]

Fields == [audio_format : Nat, channels : Nat, sample_rate : Nat, bits_per_sample : Nat]

Chunk(id, declared, stored, fields, samples) ==
    [id |-> id, at |-> 0, declared |-> declared, stored |-> stored, fields |-> fields,
     samples |-> samples]

\* A file: its size, whether it begins with RIFF and WAVE, and the chunks one
\* behind the other after these 12 bytes, one of them at most with the format.
WellFormedFile(wav) ==
    /\ wav.size \in Nat /\ Len(wav.chunks) \in Nat
    /\ \A k \in 1 .. Len(wav.chunks) :
           /\ wav.chunks[k].at \in Nat /\ wav.chunks[k].declared \in Nat
           /\ wav.chunks[k].stored \in Nat /\ wav.chunks[k].fields \in Fields
           /\ wav.chunks[k].at =
                  IF k = 1 THEN 12
                  ELSE wav.chunks[k - 1].at + 8 + wav.chunks[k - 1].stored
    /\ \A j, k \in 1 .. Len(wav.chunks) :
           wav.chunks[j].id = "fmt " /\ wav.chunks[k].id = "fmt " => j = k

At(wav, k) == wav.chunks[k].at

\* A file that holds a recording: all of it is there, the format comes before the
\* data and is that of 16-bit samples at this rate, and the first of every so
\* many samples as there are channels is one of the recording.
HoldsRecording(wav, rate, samples) ==
    /\ WellFormedFile(wav) /\ wav.riff_wave /\ rate \in Nat \ {0}
    /\ \A k \in 1 .. Len(wav.chunks) : At(wav, k) + 8 + wav.chunks[k].stored <= wav.size
    /\ \E f, d \in 1 .. Len(wav.chunks) :
           LET format == wav.chunks[f]
               data   == wav.chunks[d]
               n      == format.fields.channels
           IN  /\ f < d /\ format.id = "fmt " /\ format.stored >= 16
               /\ data.id = "data" /\ \A k \in 1 .. d - 1 : wav.chunks[k].id # "data"
               /\ format.fields = [audio_format |-> 1, channels |-> n, sample_rate |-> rate,
                                   bits_per_sample |-> 16]
               /\ n >= 1 /\ data.declared = n * (2 * Len(samples)) /\ data.declared <= data.stored
               /\ Len(data.samples) = n * Len(samples)
               /\ \A i \in 1 .. Len(samples) : data.samples[(i - 1) * n + 1] = samples[i]

\* The loop gets to the header of chunk k: it stops at the data, and it adds
\* the declared size to its position, so that behind a padded chunk it reads a
\* header one byte early, whose size takes it past all that follows.
Reached(wav, k) ==
    /\ At(wav, k) + 8 <= wav.size
    /\ \A j \in 1 .. k - 1 :
           wav.chunks[j].id # "data" /\ wav.chunks[j].declared = wav.chunks[j].stored

\* the chunk of this id that the walk gets to, 0 if there is none
ReachedChunk(wav, id) ==
    LET found == {k \in 1 .. Len(wav.chunks) : wav.chunks[k].id = id /\ Reached(wav, k)}
    IN  IF found = {} THEN 0 ELSE CHOOSE k \in found : TRUE

\* the fields of the format chunk; those of one that is cut are not all read,
\* the last of them, bits_per_sample, never
FieldsRead(wav) ==
    LET k == ReachedChunk(wav, "fmt ")
    IN  IF k # 0 /\ At(wav, k) + 24 <= wav.size THEN wav.chunks[k].fields ELSE NoFields

DataOffset(wav) ==
    LET k == ReachedChunk(wav, "data") IN IF k = 0 THEN 0 ELSE At(wav, k) + 8

DataSize(wav) ==
    LET k == ReachedChunk(wav, "data") IN IF k = 0 THEN 0 ELSE wav.chunks[k].declared

\* Seeded fault: the end of the data is not compared with that of the file
TakesAnySize(wav) ==
    /\ wav.size >= 44 /\ wav.riff_wave
    /\ FieldsRead(wav).audio_format = 1
    /\ FieldsRead(wav).bits_per_sample = 16
    /\ FieldsRead(wav).channels >= 1

\* parse_wav returns something
Takes(wav) ==
    /\ wav.size >= 44 /\ wav.riff_wave
    /\ FieldsRead(wav).audio_format = 1
    /\ FieldsRead(wav).bits_per_sample = 16
    /\ FieldsRead(wav).channels >= 1
    /\ DataOffset(wav) + DataSize(wav) <= wav.size

SampleCount(size, channels) == (size \div channels) \div 2

\* the byte at which sample i (0, 1, ..) is read
SampleAt(offset, channels, i) == offset + i * 2 * channels

\* the samples the parser copies, every channels-th of those in the data
SamplesOf(wav) ==
    LET k        == ReachedChunk(wav, "data")
        channels == FieldsRead(wav).channels
        stored   == IF k = 0 THEN << >> ELSE wav.chunks[k].samples
    IN  [i \in 1 .. SampleCount(DataSize(wav), channels) |->
            IF (i - 1) * channels + 1 <= Len(stored) THEN stored[(i - 1) * channels + 1] ELSE Junk]

WavInfo(wav) == [sample_rate |-> FieldsRead(wav).sample_rate, samples |-> SamplesOf(wav)]
=============================================================================
