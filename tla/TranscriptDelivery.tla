------------------------- MODULE TranscriptDelivery -------------------------
(***************************************************************************)
(* What the transcription sessions promise their callers, without locks,   *)
(* threads, engine or options: audio said into a session waits there in    *)
(* the order it was said; a flush collects all that waits at once; what    *)
(* was collected goes to the caller that flushed, whole and once; and a    *)
(* caller that collected is answered, or, if it is one of those who may,   *)
(* misses its answer.                                                      *)
(***************************************************************************)
EXTENDS Sequences

CONSTANTS
    SessionIds, Callers, Chunks,
    MayMiss         \* callers whose answer may fail to be written

VARIABLES
    waiting,        \* for each session, the audio said since it was collected
    collected,      \* for each caller, what it has collected and not been told
    told            \* for each caller, the audio of the answers it got

vars == <<waiting, collected, told>>

Nothing == << >>

Init ==
    /\ waiting = [id \in SessionIds |-> << >>]
    /\ collected = [c \in Callers |-> Nothing]
    /\ told = [c \in Callers |-> << >>]

Say(id, chunk) ==
    /\ waiting' = [waiting EXCEPT ![id] = Append(@, chunk)]
    /\ UNCHANGED <<collected, told>>

Collect(c, id) ==
    /\ collected[c] = Nothing
    /\ collected' = [collected EXCEPT ![c] = <<waiting[id]>>]
    /\ waiting' = [waiting EXCEPT ![id] = << >>]
    /\ UNCHANGED told

\* audio that goes to the engine without a session
Submit(c, chunk) ==
    /\ collected[c] = Nothing
    /\ collected' = [collected EXCEPT ![c] = << <<chunk>> >>]
    /\ UNCHANGED <<waiting, told>>

Tell(c) ==
    /\ collected[c] # Nothing
    /\ told' = [told EXCEPT ![c] = Append(@, collected[c][1])]
    /\ collected' = [collected EXCEPT ![c] = Nothing]
    /\ UNCHANGED waiting

\* what was collected is gone, and its caller is told nothing
Miss(c) ==
    /\ collected[c] # Nothing
    /\ collected' = [collected EXCEPT ![c] = Nothing]
    /\ UNCHANGED <<waiting, told>>

\* the session is closed
Withdraw(id) ==
    /\ waiting' = [waiting EXCEPT ![id] = << >>]
    /\ UNCHANGED <<collected, told>>

Next ==
    \/ \E id \in SessionIds, chunk \in Chunks : Say(id, chunk)
    \/ \E c \in Callers, id \in SessionIds : Collect(c, id)
    \/ \E c \in Callers, chunk \in Chunks : Submit(c, chunk)
    \/ \E c \in Callers : Tell(c)
    \/ \E c \in MayMiss : Miss(c)
    \/ \E id \in SessionIds : Withdraw(id)

Spec == Init /\ [][Next]_vars

FairSpec == Spec /\ \A c \in Callers : WF_vars(Tell(c))
=============================================================================
