---------------------------- MODULE LiveFabricRunner ----------------------------
(***************************************************************************)
(* apps/live-fabric-runner/start.js: the life of the program that starts   *)
(* the live server (live-server.js: listening, its connections, stop()),   *)
(* writes .runtime/live-server.json, starts the tunnel (QuickTunnel) and   *)
(* stops both on a signal.  Its runs follow each other.  The frames of one *)
(* WebSocket are followed through the decoder (MinimalWebSocket).          *)
(*                                                                         *)
(* A connection is fresh (it may still send any request), in a request, a  *)
(* WebSocket, an SSE stream, or an SSE stream that was ended.  server.close *)
(* waits until no connection is left.                                      *)
(***************************************************************************)
EXTENDS QuickTunnel, MinimalWebSocket

CONSTANTS
    Conns,
    framed          \* the connection whose frames are followed

ASSUME RunnerAssumption == Absent \notin Runs /\ Torn \notin Runs

VARIABLES
    phase, run,     \* where the last run of the program is
    liveManifest,   \* .runtime/live-server.json
    listened,       \* history: the runs whose server has listened
    crashed,        \* history: the runs that ended without stop()
    conns           \* [Conns -> server.wsClients, sseClients and the other sockets]

runnerVars == <<phase, run, liveManifest, listened, crashed, conns>>
vars == <<runnerVars, tunnelVars, socketVars>>

Phases == {"down", "starting", "listening", "writing", "written", "running", "stopping"}
ConnStates == {"none", "fresh", "request", "ws", "sse", "ended", "late"}

Accepting == phase \in {"listening", "writing", "written", "running"}
Serving == Accepting \/ phase = "stopping"

closed == [c \in Conns |-> "none"]

Init ==
    /\ phase = "down" /\ run = 0 /\ liveManifest = Absent
    /\ listened = {} /\ crashed = {} /\ conns = closed
    /\ TunnelInit /\ SocketInit

-------------------------------------------------------------------------------
(* The top level of the script, from one await to the next. *)

boot ==
    /\ phase = "down" /\ run + 1 \in Runs
    /\ phase' = "starting" /\ run' = run + 1
    /\ noTunnel
    /\ UNCHANGED <<liveManifest, listened, crashed, conns, socketVars>>

listen ==
    /\ phase = "starting"
    /\ phase' = "listening" /\ listened' = listened \cup {run}
    /\ UNCHANGED <<run, liveManifest, crashed, conns, tunnelVars, socketVars>>

(* The port is taken: the rejection of start() ends the program. *)
listenFails ==
    /\ phase = "starting"
    /\ phase' = "down"
    /\ UNCHANGED <<run, liveManifest, listened, crashed, conns, tunnelVars, socketVars>>

(* A definition with "Mutant:" in its comment is not the code's: it is the   *)
(* next definition with a bug put in, for checking that a property sees it.  *)

truncateLive ==
    /\ phase = "listening"
    /\ phase' = "writing" /\ liveManifest' = Torn
    /\ UNCHANGED <<run, listened, crashed, conns, tunnelVars, socketVars>>

fillLive ==
    /\ phase = "writing"
    /\ phase' = "written" /\ liveManifest' = run
    /\ UNCHANGED <<run, listened, crashed, conns, tunnelVars, socketVars>>

(* The tunnel is started, unless it is disabled or cloudflared is missing,   *)
(* and the signals get their handlers, in one turn.                          *)
startRest ==
    /\ phase = "written"
    /\ phase' = "running"
    /\ startTunnel(run) \/ noTunnel
    /\ UNCHANGED <<run, liveManifest, listened, crashed, conns, socketVars>>

-------------------------------------------------------------------------------
(* Connections. *)

(* Only the frames of an open WebSocket are followed. *)
become(c, state) ==
    /\ conns' = [conns EXCEPT ![c] = state]
    /\ IF c = framed THEN SocketReset ELSE UNCHANGED socketVars
    /\ UNCHANGED <<phase, run, liveManifest, listened, crashed, tunnelVars>>

connect(c) == Accepting /\ conns[c] = "none" /\ become(c, "fresh")

request(c) == Serving /\ conns[c] = "fresh" /\ become(c, "request")

respond(c) == Serving /\ conns[c] = "request" /\ become(c, "fresh")

(* handleUpgrade: nothing asks whether stop() has been called.               *)
handleUpgrade(c) ==
    /\ Serving /\ conns[c] = "fresh"
    /\ become(c, IF phase = "stopping" THEN "late" ELSE "ws")

(* handleSse: the same. *)
handleSse(c) ==
    /\ Serving /\ conns[c] = "fresh"
    /\ become(c, IF phase = "stopping" THEN "late" ELSE "sse")

(* The client, or the timeout of an idle connection, closes it. *)
hangUp(c) == conns[c] # "none" /\ become(c, "none")

send(kind) ==
    /\ conns[framed] = "ws" /\ writeFrame(kind)
    /\ UNCHANGED <<runnerVars, tunnelVars>>

(* The 'data' listener. *)
receive(n) ==
    /\ conns[framed] = "ws" /\ data(n)
    /\ UNCHANGED <<runnerVars, tunnelVars>>

-------------------------------------------------------------------------------
(* Mutant: stop() ends the SSE streams only. *)
afterSweepSse(c) ==
    IF conns[c] = "sse" THEN "ended" ELSE IF conns[c] = "late" THEN "none" ELSE conns[c]

(* LiveServer.stop: WebSockets are destroyed, SSE streams are ended; a late  *)
(* stream is among them only if the signal comes once more.                  *)
afterSweep(c) ==
    CASE conns[c] = "ws" -> "none"
      [] conns[c] \in {"sse", "late"} -> "ended"
      [] OTHER -> conns[c]

(* Mutant: the tunnel is left running. *)
stopServerOnly ==
    /\ phase \in {"running", "stopping"}
    /\ phase' = "stopping"
    /\ conns' = [c \in Conns |-> afterSweep(c)]
    /\ SocketReset
    /\ UNCHANGED <<run, liveManifest, listened, crashed, tunnelVars>>

(* stop: SIGINT or SIGTERM, the first time or again. *)
stop ==
    /\ phase \in {"running", "stopping"}
    /\ phase' = "stopping"
    /\ stopTunnel(run)
    /\ conns' = [c \in Conns |-> afterSweep(c)]
    /\ SocketReset
    /\ UNCHANGED <<run, liveManifest, listened, crashed>>
    /\ UNCHANGED <<publicUrl, writing, announced, tunnelManifest>>

(* server.close calls back: process.exit(0). *)
exit ==
    /\ phase = "stopping" /\ conns = closed
    /\ phase' = "down" /\ writing' = None
    /\ UNCHANGED <<run, liveManifest, listened, crashed, conns, socketVars>>
    /\ UNCHANGED <<children, publicUrl, announced, tunnelManifest>>

(* A signal before the handlers are there, an unhandled rejection or a kill. *)
crash ==
    /\ phase # "down"
    /\ phase' = "down" /\ writing' = None
    /\ crashed' = crashed \cup {run} /\ conns' = closed
    /\ SocketReset
    /\ UNCHANGED <<run, liveManifest, listened>>
    /\ UNCHANGED <<children, publicUrl, announced, tunnelManifest>>

-------------------------------------------------------------------------------
(* The tunnel of the run, while its program is there; any child may end. *)
Tunnel ==
    /\ \/ /\ phase \in {"running", "stopping"}
          /\ \/ \E chunk \in Chunks : handleOutput(run, chunk)
             \/ truncateManifest
             \/ fillManifest(run)
             \/ writeFails
       \/ \E r \in Runs : childExit(r)
    /\ UNCHANGED <<runnerVars, socketVars>>

Connection ==
    \/ \E c \in Conns :
          \/ connect(c) \/ request(c) \/ respond(c) \/ hangUp(c)
          \/ handleUpgrade(c) \/ handleSse(c)
    \/ \E kind \in FrameKinds : send(kind)
    \/ \E n \in 1..(2 * MaxFrames) : receive(n)

Next ==
    \/ boot \/ listen \/ listenFails \/ truncateLive \/ fillLive \/ startRest
    \/ stop \/ exit \/ crash
    \/ Tunnel \/ Connection

Spec == Init /\ [][Next]_vars

(* The process ends when server.close calls back, and a stream that the      *)
(* server has ended is closed at the latest by its keepAliveTimeout.         *)
FairSpec ==
    /\ Spec
    /\ WF_vars(exit)
    /\ \A c \in Conns : WF_vars(conns[c] = "ended" /\ hangUp(c))

-------------------------------------------------------------------------------
(* The runner, its connections and its tunnel keep their shape. *)
TypeOK ==
    /\ phase \in Phases /\ run \in Runs \cup {0}
    /\ liveManifest \in {Absent, Torn} \cup Runs
    /\ listened \subseteq Runs /\ crashed \subseteq Runs
    /\ conns \in [Conns -> ConnStates]
    /\ TunnelTypeOK

(* A cloudflared that is left without its runner, unsignalled, is of a run   *)
(* that crashed: stop() ends no run without stopping the tunnel.             *)
OnlyCrashesOrphan ==
    \A r \in Runs :
        children[r] = "alive" /\ (r # run \/ phase = "down") => r \in crashed

(* A live-server.json that can be read is of a run whose server has          *)
(* listened, and of the present one from the time its tunnel starts; and     *)
(* once the runner has said 'url', .runtime/tunnel.json holds this run's     *)
(* address, whole, for as long as the run lasts.                             *)
ManifestsTruthful ==
    /\ liveManifest \in Runs => liveManifest \in listened
    /\ phase \in {"running", "stopping"} => liveManifest = run
    /\ announced => tunnelManifest = [run |-> run, url |-> publicUrl]

(* A run that is stopping ends, unless a connection holds it that had no     *)
(* open stream when the signal came: the streams open then do not.           *)
StopEnds ==
    phase = "stopping" ~>
        phase = "down" \/ \E c \in Conns : conns[c] \in {"fresh", "request", "late"}
=================================================================================
