----------------------------- MODULE SttEngine -----------------------------
(***************************************************************************)
(* SttEngine (src/src/stt/engine.cpp): what an attempt with one of the two *)
(* models may result in, which model is tried first, when the other one is *)
(* tried after it, and what of the two attempts is returned.  The engine's *)
(* mutex and the time a decode takes are in SttSessions.                   *)
(***************************************************************************)

CONSTANTS
    SttEnabled,             \* SttConfig::enabled
    ParakeetLoaded,         \* whether each recognizer could be created
    WhisperLoaded

ASSUME EngineAssumption ==
    /\ SttEnabled \in BOOLEAN
    /\ ParakeetLoaded \in BOOLEAN
    /\ WhisperLoaded \in BOOLEAN

ModelChoices == {"parakeet", "whisper", "auto"}

\* A TranscriptResult: whether it is ok, whether its text has anything but
\* blanks in it, the model it is labelled with, and whether its error is set.
Results == [ok : BOOLEAN, text : BOOLEAN, model : {"parakeet", "whisper", "none"},
            error : BOOLEAN]

Text(model) == [ok |-> TRUE, text |-> TRUE, model |-> model, error |-> FALSE]
Blank(model) == [ok |-> TRUE, text |-> FALSE, model |-> model, error |-> FALSE]
Failure(model) == [ok |-> FALSE, text |-> FALSE, model |-> model, error |-> TRUE]

Loaded(model) == IF model = "parakeet" THEN ParakeetLoaded ELSE WhisperLoaded

\* try_parakeet and try_whisper: the recognizer may hear something, nothing, or
\* fail; without samples it is not asked
Attempts(model, has_samples) ==
    IF ~ Loaded(model) THEN {Failure("none")}
    ELSE IF ~ has_samples THEN {Blank(model)}
    ELSE {Text(model), Blank(model), Failure(model)}

FirstModel(choice) == IF choice = "whisper" THEN "whisper" ELSE "parakeet"

\* Seeded fault: a blank first attempt is good enough
NeedsFallbackOnFailure(choice, primary) == choice = "auto" /\ ~ primary.ok

\* only "auto" goes on to whisper, unless parakeet heard something
NeedsFallback(choice, primary) == choice = "auto" /\ ~ (primary.ok /\ primary.text)

\* the result of both attempts: the fallback's if it is ok, marked with the
\* error of the first if neither heard anything, else the first one's
Combined(primary, fallback) ==
    IF fallback.ok
    THEN [fallback EXCEPT !.error = primary.error /\ ~ fallback.text]
    ELSE [primary EXCEPT !.error = TRUE]
=============================================================================
