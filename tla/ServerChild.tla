----------------------------- MODULE ServerChild -----------------------------
(***************************************************************************)
(* One connection child of the server: the main thread of client_handler   *)
(* and lupine_serve_lanes (server.cpp), a worker thread per lane, the      *)
(* signal thread and lupine_server_checkpoint_child_finish                 *)
(* (server_checkpoint.cpp).  The dispatch gate is GateSpec, which CallGate *)
(* is proved to implement.                                                 *)
(***************************************************************************)
EXTENDS Naturals, Sequences, FiniteSets

CONSTANTS
    Lanes,      \* the HTTP/2 streams the client may open, ids are never reused
    MaxLanes,   \* MAX_LANES
    Handoffs    \* whether the client takes part in process handoffs

ASSUME LanesAssumption ==
    /\ IsFiniteSet(Lanes)
    /\ MaxLanes \in Nat
    /\ Handoffs \in BOOLEAN

VARIABLES
    main,       \* where the main thread is
    socket,     \* "up" until either end shuts the connection down
    closed,     \* conn.closed
    failed,     \* transport_failed
    stream,     \* per lane: "new", "open", "ended" by the client
    inbox,      \* per lane: the request it carries and no worker has read
    incoming,   \* incoming_streams
    lanes,      \* the lanes table
    worker,     \* per lane: where its worker thread is
    pipe,       \* signal_pipe
    sigterm,    \* sigterm_received
    requested,  \* checkpoint_requested
    listener,   \* whether the signal thread still runs
    snapshot,   \* whether the checkpoint step was reached, the gate drained
    inside, closing, holding   \* the dispatch gate

transport == <<socket, closed, failed>>
client == <<stream, inbox>>
signals == <<pipe, sigterm, requested, listener>>
gate == <<inside, closing, holding>>
vars == <<main, transport, client, incoming, lanes, worker, signals, snapshot,
          gate>>

Requests == {"none", "cuda", "plain", "drain"}
WorkerPcs == {"none", "read", "gate", "call", "drain", "draining", "leave",
              "done", "joined"}
MainPcs == {"setup", "top", "accept", "shut", "join", "finish", "quit", "drain",
            "draining", "checkpoint", "cleanup", "exit"}

Gate == INSTANCE GateSpec WITH
    Users <- Lanes, Checkpoints <- Lanes \cup {"main"}

Init ==
    /\ main = "setup"
    /\ socket = "up" /\ closed = FALSE /\ failed = FALSE
    /\ stream = [l \in Lanes |-> "new"]
    /\ inbox = [l \in Lanes |-> "none"]
    /\ incoming = <<>>
    /\ lanes = {}
    /\ worker = [l \in Lanes |-> "none"]
    /\ pipe = <<>>
    /\ sigterm = FALSE /\ requested = FALSE /\ listener = TRUE
    /\ snapshot = FALSE
    /\ Gate!GInit

-----------------------------------------------------------------------------
(* The client and the reader thread, which applies what the client sent *)

OpenStream(l) ==
    /\ socket = "up" /\ ~failed /\ main # "setup"
    /\ stream[l] = "new"
    /\ stream' = [stream EXCEPT ![l] = "open"]
    /\ incoming' = Append(incoming, l)
    /\ UNCHANGED <<main, transport, inbox, lanes, worker, signals, snapshot, gate>>

\* A handoff in progress sends no second drain request.
NoHandoff ==
    /\ closing = {}
    /\ \A l \in Lanes : inbox[l] # "drain" /\ worker[l] # "drain"

SendRequest(l, request) ==
    /\ socket = "up" /\ ~failed
    /\ stream[l] = "open" /\ inbox[l] = "none"
    /\ request = "drain" => Handoffs /\ NoHandoff
    /\ inbox' = [inbox EXCEPT ![l] = request]
    /\ UNCHANGED <<main, transport, stream, incoming, lanes, worker, signals,
                   snapshot, gate>>

\* A client thread that exits ends its stream.
EndStream(l) ==
    /\ socket = "up" /\ ~failed
    /\ stream[l] = "open"
    /\ stream' = [stream EXCEPT ![l] = "ended"]
    /\ UNCHANGED <<main, transport, inbox, incoming, lanes, worker, signals,
                   snapshot, gate>>

\* The 'R' control frame: process_resumed() reopens the gate.
ResumeControl ==
    /\ socket = "up" /\ ~failed
    /\ \E l \in Lanes : Gate!Reopen(l)
    /\ UNCHANGED <<main, transport, client, incoming, lanes, worker, signals,
                   snapshot>>

Disconnect ==
    /\ socket = "up"
    /\ socket' = "down"
    /\ UNCHANGED <<main, closed, failed, client, incoming, lanes, worker, signals,
                   snapshot, gate>>

ReaderFails ==
    /\ socket = "down" /\ ~failed
    /\ failed' = TRUE
    /\ UNCHANGED <<main, socket, closed, client, incoming, lanes, worker, signals,
                   snapshot, gate>>

-----------------------------------------------------------------------------
(* Lane workers *)

Step(l, here, there) ==
    /\ worker[l] = here
    /\ worker' = [worker EXCEPT ![l] = there]

ShutdownTransport ==
    /\ socket' = "down"
    /\ closed' = TRUE
    /\ failed' = TRUE

\* rpc_dispatch() returns the op of a request that was received, even when the
\* transport has failed since.
Dispatch(l) ==
    /\ inbox[l] # "none"
    /\ ~closed
    /\ Step(l, "read", CASE inbox[l] = "cuda" -> "gate"
                         [] inbox[l] = "plain" -> "call"
                         [] inbox[l] = "drain" -> "drain")
    /\ inbox' = [inbox EXCEPT ![l] = "none"]
    /\ UNCHANGED <<main, transport, stream, incoming, lanes, signals, snapshot, gate>>

\* rpc_dispatch() fails; only the end of the stream leaves the connection open.
DispatchFails(l) ==
    /\ inbox[l] = "none" \/ closed
    /\ closed \/ failed \/ stream[l] = "ended"
    /\ Step(l, "read", "leave")
    /\ closed' = (closed \/ stream[l] # "ended")
    /\ UNCHANGED <<main, socket, failed, client, incoming, lanes, signals,
                   snapshot, gate>>

\* cuda_call_guard
EnterGate(l) ==
    /\ Step(l, "gate", "call")
    /\ Gate!Admit(l)
    /\ UNCHANGED <<main, transport, client, incoming, lanes, signals, snapshot>>

\* Handler failures, and responses that cannot be written, take the transport
\* down.
Handled(l, here, succeeds) ==
    /\ Step(l, here, IF succeeds THEN "read" ELSE "leave")
    /\ IF succeeds THEN UNCHANGED transport ELSE ShutdownTransport

Call(l, succeeds) ==
    /\ Handled(l, "call", succeeds)
    /\ \/ Gate!Leave(l)
       \/ l \notin inside /\ UNCHANGED gate
    /\ UNCHANGED <<main, client, incoming, lanes, signals, snapshot>>

DrainAsk(l) ==
    /\ Step(l, "drain", "draining")
    /\ Gate!Ask(l)
    /\ UNCHANGED <<main, transport, client, incoming, lanes, signals, snapshot>>

\* drain() returns and the response is written; the gate stays held.
DrainHeld(l, succeeds) ==
    /\ Handled(l, "draining", succeeds)
    /\ Gate!Hold(l)
    /\ UNCHANGED <<main, client, incoming, lanes, signals, snapshot>>

Done(l) ==
    /\ Step(l, "leave", "done")
    /\ UNCHANGED <<main, transport, client, incoming, lanes, signals, snapshot, gate>>

-----------------------------------------------------------------------------
(* The main thread: client_handler and lupine_serve_lanes *)

Goto(here, there) == main = here /\ main' = there

Setup ==
    /\ \E there \in {"top", "finish"} : Goto("setup", there)
    /\ UNCHANGED <<transport, client, incoming, lanes, worker, signals, snapshot, gate>>

\* Finished lanes are joined and erased before the next accept.
Finished == {l \in lanes : worker[l] = "done"}

Reap ==
    /\ main = "top"
    /\ IF closed
       THEN main' = "shut" /\ UNCHANGED <<lanes, worker>>
       ELSE /\ main' = "accept"
            /\ lanes' = lanes \ Finished
            /\ worker' = [l \in Lanes |->
                             IF l \in Finished THEN "joined" ELSE worker[l]]
    /\ UNCHANGED <<transport, client, incoming, signals, snapshot, gate>>

TableFull == Cardinality(lanes) >= MaxLanes

Accept ==
    /\ incoming # <<>>
    /\ incoming' = Tail(incoming)
    /\ LET l == Head(incoming) IN
       IF TableFull
       THEN Goto("accept", "shut") /\ UNCHANGED <<lanes, worker>>
       ELSE /\ Goto("accept", "top")
            /\ lanes' = lanes \cup {l}
            /\ worker' = [worker EXCEPT ![l] = "read"]
    /\ UNCHANGED <<transport, client, signals, snapshot, gate>>

AcceptFails ==
    /\ incoming = <<>> /\ failed
    /\ Goto("accept", "shut")
    /\ UNCHANGED <<transport, client, incoming, lanes, worker, signals, snapshot, gate>>

ShutLanes ==
    /\ Goto("shut", "join")
    /\ ShutdownTransport
    /\ UNCHANGED <<client, incoming, lanes, worker, signals, snapshot, gate>>

\* Workers still in a handler are not waited for.
JoinLanesReadersOnly ==
    /\ \A l \in lanes : worker[l] \notin {"read", "gate"}
    /\ Goto("join", "finish")
    /\ lanes' = {}
    /\ worker' = [l \in Lanes |-> IF worker[l] = "done" THEN "joined" ELSE worker[l]]
    /\ UNCHANGED <<transport, client, incoming, signals, snapshot, gate>>
JoinLanes ==
    /\ \A l \in lanes : worker[l] = "done"
    /\ Goto("join", "finish")
    /\ lanes' = {}
    /\ worker' = [l \in Lanes |-> IF l \in lanes THEN "joined" ELSE worker[l]]
    /\ UNCHANGED <<transport, client, incoming, signals, snapshot, gate>>

-----------------------------------------------------------------------------
(* SIGTERM and lupine_server_checkpoint_child_finish *)

HandlerInstalled ==
    main \notin {"drain", "draining", "checkpoint", "cleanup", "exit"}

Sigterm ==
    /\ HandlerInstalled
    /\ ~sigterm
    /\ sigterm' = TRUE
    /\ pipe' = Append(pipe, "T")
    /\ UNCHANGED <<main, transport, client, incoming, lanes, worker, requested,
                   listener, snapshot, gate>>

\* The connection is left up for the client to close.
WaitForShutdownNoSocket ==
    /\ listener /\ pipe # <<>>
    /\ listener' = FALSE
    /\ pipe' = Tail(pipe)
    /\ requested' = (requested \/ Head(pipe) = "T")
    /\ UNCHANGED <<main, transport, client, incoming, lanes, worker, sigterm,
                   snapshot, gate>>
WaitForShutdown ==
    /\ listener /\ pipe # <<>>
    /\ listener' = FALSE
    /\ pipe' = Tail(pipe)
    /\ IF Head(pipe) = "T" THEN requested' = TRUE /\ socket' = "down"
                           ELSE UNCHANGED <<requested, socket>>
    /\ UNCHANGED <<main, closed, failed, client, incoming, lanes, worker, sigterm,
                   snapshot, gate>>

FinishQuit ==
    /\ Goto("finish", "quit")
    /\ pipe' = Append(pipe, "Q")
    /\ UNCHANGED <<transport, client, incoming, lanes, worker, sigterm, requested,
                   listener, snapshot, gate>>

\* Only what the signal thread saw counts.
ShouldCheckpointRequestedOnly == requested
ShouldCheckpoint == sigterm \/ requested

\* The signal thread is joined and the handler removed before the decision.
FinishJoin ==
    /\ ~listener
    /\ Goto("quit", IF ShouldCheckpoint THEN "drain" ELSE "cleanup")
    /\ UNCHANGED <<transport, client, incoming, lanes, worker, signals, snapshot, gate>>

FinishDrain ==
    /\ \/ Goto("drain", "draining") /\ Gate!Ask("main")
       \/ Goto("draining", "checkpoint") /\ Gate!Hold("main")
    /\ UNCHANGED <<transport, client, incoming, lanes, worker, signals, snapshot>>

FinishCheckpoint ==
    /\ Goto("checkpoint", "cleanup")
    /\ snapshot' = TRUE
    /\ UNCHANGED <<transport, client, incoming, lanes, worker, signals, gate>>

Cleanup ==
    /\ Goto("cleanup", "exit")
    /\ ShutdownTransport
    /\ UNCHANGED <<client, incoming, lanes, worker, signals, snapshot, gate>>

-----------------------------------------------------------------------------
Worker(l) ==
    \/ Dispatch(l)
    \/ DispatchFails(l)
    \/ EnterGate(l)
    \/ DrainAsk(l)
    \/ \E succeeds \in BOOLEAN : Call(l, succeeds) \/ DrainHeld(l, succeeds)
    \/ Done(l)
MainThread ==
    \/ Setup \/ Reap \/ Accept \/ AcceptFails \/ ShutLanes \/ JoinLanes
    \/ FinishQuit \/ FinishJoin \/ FinishDrain \/ FinishCheckpoint \/ Cleanup
Client ==
    \/ Disconnect
    \/ ResumeControl
    \/ \E l \in Lanes :
          OpenStream(l) \/ EndStream(l) \/
          \E request \in Requests \ {"none"} : SendRequest(l, request)

\* The process is gone once main has exited.
Next ==
    /\ main # "exit"
    /\ \/ Client
       \/ ReaderFails
       \/ \E l \in Lanes : Worker(l)
       \/ MainThread
       \/ Sigterm
       \/ WaitForShutdown

Spec == Init /\ [][Next]_vars

\* The server's threads run, CUDA handlers return; the client owes nothing.
FairSpec ==
    /\ Spec
    /\ WF_vars(main # "exit" /\ ReaderFails)
    /\ WF_vars(MainThread)
    /\ WF_vars(main # "exit" /\ WaitForShutdown)
    /\ \A l \in Lanes : WF_vars(main # "exit" /\ Worker(l))

-----------------------------------------------------------------------------
(* Properties *)

Alive == {l \in Lanes : worker[l] \notin {"none", "joined"}}

\* Every variable has its type; a lane in the table has a worker.
TypeOK ==
    /\ main \in MainPcs
    /\ socket \in {"up", "down"}
    /\ {closed, failed, sigterm, requested, listener, snapshot} \subseteq BOOLEAN
    /\ stream \in [Lanes -> {"new", "open", "ended"}]
    /\ inbox \in [Lanes -> Requests]
    /\ incoming \in Seq(Lanes)
    /\ lanes \in SUBSET Alive
    /\ worker \in [Lanes -> WorkerPcs]
    /\ pipe \in Seq({"T", "Q"})
    /\ inside \in SUBSET Lanes
    /\ closing \in SUBSET (Lanes \cup {"main"})
    /\ holding \in SUBSET closing

\* When the child snapshots its CUDA state and when it releases it ("Finish
\* checkpointing before releasing per-connection CUDA resources"), no lane
\* worker of the connection is left, whether it entered through the gate or,
\* like a metadata request, around it.
FinishAlone ==
    main \in {"finish", "quit", "drain", "draining", "checkpoint", "cleanup", "exit"}
        => Alive = {} /\ inside = {}

\* A SIGTERM the child's handler took is never lost: whatever the order of 'T'
\* and 'Q' in the pipe, the child checkpoints before it exits.
TermCheckpointed == main = "exit" /\ sigterm => snapshot

\* The connection never runs more than MAX_LANES worker threads.
ThreadsBounded == Cardinality(Alive) <= MaxLanes

\* A child that got SIGTERM exits ("waits for those children to exit", repository
\* README): its workers leave their reads, handlers finish, the gate drains.
TermExits == sigterm ~> main = "exit"

\* A handoff of the client holds the gate and nothing will reopen it.
HeldForGood == [](holding \cap Lanes # {})

\* A child that got SIGTERM or lost its client exits, unless a handoff leaves the
\* gate held for good and a worker or the final drain waits at it.  A handoff that is
\* resumed in time, or fails, delays the exit only.
ChildExits == sigterm \/ socket = "down" ~> (main = "exit" \/ HeldForGood)

\* A stream is turned away with "Too many active RPC lanes." only when MAX_LANES
\* lanes are active.
RefusedOnlyWhenFull ==
    [][main = "accept" /\ incoming # <<>> /\ main' = "shut"
       => Cardinality({l \in lanes : worker[l] # "done"}) >= MaxLanes]_vars

=============================================================================
