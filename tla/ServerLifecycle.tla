-------------------------- MODULE ServerLifecycle --------------------------
(***************************************************************************)
(* The process from main (src/src/server/main.cpp): the three server       *)
(* threads it starts, the flag the signal handler clears, and the joins    *)
(* main goes through once the flag is cleared.                             *)
(***************************************************************************)

VARIABLES
    g_running,      \* the flag of on_signal
    main,           \* where main is
    rest,           \* the thread of RestServer, in server->listen
    ws,             \* the thread of WebSocketServer, in ioc.run
    grpc,           \* the thread of GrpcServer, in server->Wait
    process         \* "Running", "Exited" from main, or "Aborted" by an exception

vars == <<g_running, main, rest, ws, grpc, process>>

Init ==
    /\ g_running = TRUE
    /\ main = "StartRest"
    /\ rest = "None" /\ ws = "None" /\ grpc = "None"
    /\ process = "Running"

Alive == process = "Running"

\* SIGINT or SIGTERM
Signal ==
    /\ Alive /\ g_running
    /\ g_running' = FALSE
    /\ UNCHANGED <<main, rest, ws, grpc, process>>

StartServers ==
    /\ Alive
    /\ \/ main = "StartRest" /\ rest' = "Starting" /\ main' = "StartWs" /\ UNCHANGED <<ws, grpc>>
       \/ main = "StartWs" /\ ws' = "Starting" /\ main' = "StartGrpc" /\ UNCHANGED <<rest, grpc>>
       \/ main = "StartGrpc" /\ grpc' = "Starting" /\ main' = "Waiting" /\ UNCHANGED <<rest, ws>>
    /\ UNCHANGED <<g_running, process>>

\* the loop that polls the flag ends
LeaveLoop ==
    /\ Alive /\ main = "Waiting" /\ ~ g_running
    /\ main' = "JoinRest"
    /\ UNCHANGED <<g_running, rest, ws, grpc, process>>

\* RestServer::stop joins the thread and does nothing to end it
JoinRest ==
    /\ Alive /\ main = "JoinRest" /\ rest = "Ended"
    /\ main' = "JoinWs"
    /\ UNCHANGED <<g_running, rest, ws, grpc, process>>

\* WebSocketServer::stop likewise; then the gRPC thread is detached and main returns
JoinWs ==
    /\ Alive /\ main = "JoinWs" /\ ws = "Ended"
    /\ main' = "Returned"
    /\ process' = "Exited"
    /\ UNCHANGED <<g_running, rest, ws, grpc>>

\* listen serves until somebody calls stop on the server, which nobody does, or
\* returns at once if the port is taken
RestThread ==
    /\ Alive /\ rest = "Starting"
    /\ rest' \in {"Serving", "Ended"}
    /\ UNCHANGED <<g_running, main, ws, grpc, process>>

\* run goes on as long as an accept is pending, and each accept starts the next,
\* even after an error; an address that cannot be parsed throws in the thread
WsThread ==
    /\ Alive /\ ws = "Starting"
    /\ \/ ws' \in {"Serving", "Respinning"} /\ UNCHANGED process
       \/ ws' = "Ended" /\ process' = "Aborted"
    /\ UNCHANGED <<g_running, main, rest, grpc>>

\* Wait never returns; a port that is taken throws in the thread
GrpcThread ==
    /\ Alive /\ grpc = "Starting"
    /\ \/ grpc' = "Serving" /\ UNCHANGED process
       \/ grpc' = "Ended" /\ process' = "Aborted"
    /\ UNCHANGED <<g_running, main, rest, ws>>

MainStep == StartServers \/ LeaveLoop \/ JoinRest \/ JoinWs

Next == Signal \/ MainStep \/ RestThread \/ WsThread \/ GrpcThread

Spec == Init /\ [][Next]_vars

\* The system schedules every thread that can run; nobody has to send a signal.
FairSpec ==
    Spec /\ WF_vars(MainStep) /\ WF_vars(RestThread) /\ WF_vars(WsThread) /\ WF_vars(GrpcThread)
-----------------------------------------------------------------------------
\* A signal ends the process, as the development script that sends one and waits
\* for the server to be gone relies on (scripts/dev.sh:81).
SignalEndsTheProcess == ~ g_running ~> process # "Running"
=============================================================================
