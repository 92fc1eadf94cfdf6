----------------------------- MODULE AsyncOrder -----------------------------
(***************************************************************************)
(* Ordering of fire-and-forget CUDA calls across the lanes of one          *)
(* connection (rpc.cpp).                                                   *)
(*                                                                         *)
(* Every application thread has a lane: an HTTP/2 stream that is FIFO.     *)
(* Lanes are not ordered with respect to each other, and the server runs   *)
(* one worker per lane.  A call that has a response ("sync") is answered   *)
(* by its worker; a fire-and-forget call ("async") returns as soon as it   *)
(* is written.  A thread that saw such a call return may hand its result   *)
(* to another thread, so a later request of any lane must not run before   *)
(* it.  rpc.cpp numbers async calls with tickets, publishes how many were  *)
(* written, and puts a wait marker {0, 0, published} in front of a request *)
(* unless the lane's own FIFO order already covers that prefix.            *)
(***************************************************************************)
EXTENDS Integers, Sequences, FiniteSets

CONSTANTS
    Lanes,        \* application threads, one lane (HTTP/2 stream) each
    NoLane,       \* nobody holds the builder lock / no lane was cached yet
    MaxTickets,   \* bound on the number of async calls issued
    Faults        \* whether transports and handlers may fail

ASSUME LanesAssumption == NoLane \notin Lanes
ASSUME BoundsAssumption == MaxTickets \in Nat /\ Faults \in BOOLEAN

VARIABLES
    pc,            \* client thread: where it is in its current call
    op,            \* client thread: the call it is building; see Ops
    builder,       \* holder of call_mutex and write_mutex
    issued,        \* issued_async_sequence
    published,     \* published_async_sequence
    prefixStream,  \* async_prefix_stream
    prefix,        \* async_prefix
    returned,      \* ghost: tickets whose async call has returned
    downC,         \* the client's transport has failed
    wire,          \* frames written on each lane and not yet read
    answered,      \* a response is waiting for the lane's thread
    spc,           \* lane worker of the server
    cur,           \* lane worker: the call being handled
    want,          \* lane worker: the published count it waits for
    serving,       \* serving_async_sequence
    completed,     \* completed_async_sequences
    ended,         \* ghost: tickets whose native submission has finished
    downS,         \* the server's transport has failed; async waits cancelled
    closedS        \* conn->closed on the server

clientVars == <<pc, op, builder, issued, published, prefixStream,
                prefix, returned>>
serverVars == <<spc, cur, want, serving, completed, ended, closedS>>
vars == <<pc, op, builder, issued, published, prefixStream,
          prefix, returned, downC, wire, answered, spc, cur, want, serving,
          completed, ended, downS, closedS>>

-----------------------------------------------------------------------------
Marker(n) == [type |-> "marker", upto |-> n]
Call(isAsync, t, after) ==
    [type |-> IF isAsync THEN "async" ELSE "sync", ticket |-> t,
     after |-> after]

Markers == [type : {"marker"}, upto : Nat]
Calls == [type : {"async", "sync"}, ticket : Nat, after : SUBSET Nat]
NoCall == Call(FALSE, 0, {})

\* async: fire-and-forget; dep: the published count loaded on entry; saw: the
\* tickets whose calls had returned on entry (ghost).
Ops == [async : BOOLEAN, dep : Nat, saw : SUBSET Nat]
NoOp == [async |-> FALSE, dep |-> 0, saw |-> {}]

-----------------------------------------------------------------------------
(* The client. *)

Waiting == {l \in Lanes : pc[l] = "entered" /\ op[l].async}

\* The dependency is captured before the builder lock is requested.
LoadDependency(l, isAsync) ==
    op' = [op EXCEPT ![l] = [async |-> isAsync, dep |-> published,
                             saw |-> returned]]

CallEnter(l, isAsync) ==
    /\ pc[l] = "idle"
    /\ isAsync => issued + Cardinality(Waiting) < MaxTickets
    /\ pc' = [pc EXCEPT ![l] = "entered"]
    /\ LoadDependency(l, isAsync)
    /\ UNCHANGED <<builder, issued, published, prefixStream, prefix, returned,
                   downC, wire, answered, downS, serverVars>>

\* Mutant: the dependency is loaded once the builder lock is held.
CallStartLateLoad(l) ==
    /\ pc[l] = "entered"
    /\ builder = NoLane
    /\ pc' = [pc EXCEPT ![l] = "building"]
    /\ builder' = l
    /\ op' = [op EXCEPT ![l].dep = published]
    /\ issued' = IF op[l].async THEN issued + 1 ELSE issued
    /\ UNCHANGED <<published, prefixStream, prefix, returned,
                   downC, wire, answered, downS, serverVars>>

\* The lock is taken; an async call gets its ticket while it is held.
CallStart(l) ==
    /\ pc[l] = "entered"
    /\ builder = NoLane
    /\ pc' = [pc EXCEPT ![l] = "building"]
    /\ builder' = l
    /\ issued' = IF op[l].async THEN issued + 1 ELSE issued
    /\ UNCHANGED <<op, published, prefixStream, prefix, returned,
                   downC, wire, answered, downS, serverVars>>

\* conn->closed is found set once the lock is held.
CallReject(l) ==
    /\ pc[l] = "entered"
    /\ builder = NoLane
    /\ downC
    /\ pc' = [pc EXCEPT ![l] = "idle"]
    /\ op' = [op EXCEPT ![l] = NoOp]
    /\ UNCHANGED <<builder, issued, published, prefixStream,
                   prefix, returned, downC, wire, answered, downS, serverVars>>

\* What the cached FIFO coverage is worth for this lane: nothing when another
\* lane wrote last.
LanePrefix(l) == IF prefixStream = l THEN prefix ELSE 0

NeedsMarker(l) == op[l].dep > LanePrefix(l)

Frames(l) ==
    LET call == Call(op[l].async, IF op[l].async THEN issued - 1 ELSE 0, op[l].saw)
    IN  IF NeedsMarker(l)
        THEN Append(Append(wire[l], Marker(op[l].dep)), call)
        ELSE Append(wire[l], call)

CoveredPrefix(l) == IF NeedsMarker(l) THEN op[l].dep ELSE LanePrefix(l)

\* rpc_write_end up to the stream write, which fails with the transport.
CallWrite(l) ==
    /\ pc[l] = "building"
    /\ prefixStream' = l
    /\ IF downC
       THEN /\ pc' = [pc EXCEPT ![l] = "idle"]
            /\ builder' = NoLane
            /\ op' = [op EXCEPT ![l] = NoOp]
            /\ prefix' = LanePrefix(l)
            /\ UNCHANGED wire
       ELSE /\ pc' = [pc EXCEPT ![l] = "written"]
            /\ prefix' = CoveredPrefix(l)
            /\ wire' = IF downS THEN wire
                                ELSE [wire EXCEPT ![l] = Frames(l)]
            /\ UNCHANGED <<builder, op>>
    /\ UNCHANGED <<issued, published, returned, downC,
                   answered, downS, serverVars>>

\* Mutant: a ticket extends the prefix even when it leaves a gap.
ExtendedPrefixOverGap == IF issued # published THEN issued ELSE prefix

\* A ticket that directly follows the covered prefix extends it: the lane's
\* FIFO order covers the lane's own call.
ExtendedPrefix ==
    IF issued # published /\ issued = prefix + 1 THEN issued ELSE prefix

\* The rest of rpc_write_end: publish, release the builder, return or wait.
CallPublish(l) ==
    /\ pc[l] = "written"
    /\ published' = issued
    /\ prefix' = ExtendedPrefix
    /\ builder' = NoLane
    /\ pc' = [pc EXCEPT ![l] = IF op[l].async THEN "idle" ELSE "await"]
    /\ returned' = IF op[l].async THEN returned \cup {issued - 1} ELSE returned
    /\ op' = [op EXCEPT ![l] = NoOp]
    /\ UNCHANGED <<issued, prefixStream, downC, wire,
                   answered, downS, serverVars>>

\* rpc_read_start of a sync call: the response, or a failed transport.
CallReturn(l) ==
    /\ pc[l] = "await"
    /\ answered[l] \/ downC
    /\ pc' = [pc EXCEPT ![l] = "idle"]
    /\ answered' = [answered EXCEPT ![l] = FALSE]
    /\ UNCHANGED <<op, builder, issued, published, prefixStream,
                   prefix, returned, downC, wire, downS, serverVars>>

-----------------------------------------------------------------------------
(* The server's lane workers. *)

\* rpc_dispatch reads the next frame.  "top" is the head of the worker's loop,
\* where conn->closed is tested; "read" follows a satisfied marker.
Dispatch(l) ==
    /\ \/ spc[l] = "top" /\ ~closedS
       \/ spc[l] = "read"
    /\ wire[l] # <<>>
    /\ wire' = [wire EXCEPT ![l] = Tail(@)]
    /\ LET frame == Head(wire[l])
       IN  IF frame.type = "marker"
           THEN /\ want' = [want EXCEPT ![l] = frame.upto]
                /\ spc' = [spc EXCEPT ![l] = "wait"]
                /\ UNCHANGED cur
           ELSE /\ cur' = [cur EXCEPT ![l] = frame]
                /\ spc' = [spc EXCEPT ![l] = "run"]
                /\ UNCHANGED want
    /\ UNCHANGED <<clientVars, downC, answered, serving, completed, ended,
                   downS, closedS>>

\* Mutant: the wait is for one ticket more than was published.
SequenceWaitOneMore(l) ==
    /\ spc[l] = "wait"
    /\ downS \/ serving > want[l]
    /\ IF downS
       THEN /\ spc' = [spc EXCEPT ![l] = "dead"]
            /\ closedS' = TRUE
       ELSE /\ spc' = [spc EXCEPT ![l] = "read"]
            /\ UNCHANGED closedS
    /\ want' = [want EXCEPT ![l] = 0]
    /\ UNCHANGED <<clientVars, downC, wire, answered, cur, serving,
                   completed, ended, downS>>

\* rpc_async_sequence_wait.
SequenceWait(l) ==
    /\ spc[l] = "wait"
    /\ downS \/ serving >= want[l]
    /\ IF downS
       THEN /\ spc' = [spc EXCEPT ![l] = "dead"]
            /\ closedS' = TRUE
       ELSE /\ spc' = [spc EXCEPT ![l] = "read"]
            /\ UNCHANGED closedS
    /\ want' = [want EXCEPT ![l] = 0]
    /\ UNCHANGED <<clientVars, downC, wire, answered, cur, serving,
                   completed, ended, downS>>

\* The worker leaves its loop: the connection is closed, or the transport
\* failed before the next frame arrived.
WorkerExit(l) ==
    /\ spc[l] \in {"top", "read"}
    /\ downS
    /\ spc' = [spc EXCEPT ![l] = "dead"]
    /\ closedS' = TRUE
    /\ UNCHANGED <<clientVars, downC, wire, answered, cur, want, serving,
                   completed, ended, downS>>

\* rpc_async_sequence_begin: the ticket labels the submission that follows.
SequenceBegin(l) ==
    /\ spc[l] = "run"
    /\ cur[l].type = "async"
    /\ ~closedS
    /\ spc' = [spc EXCEPT ![l] = "exec"]
    /\ UNCHANGED <<clientVars, downC, wire, answered, cur, want, serving,
                   completed, ended, downS, closedS>>

\* A handler fails (a short read, a response that cannot be written, or
\* rpc_async_sequence_begin on a closed connection): the worker shuts the
\* whole transport down.
HandlerFail(l) ==
    /\ Faults
    /\ spc[l] \in {"run", "exec"}
    /\ spc' = [spc EXCEPT ![l] = "dead"]
    /\ closedS' = TRUE
    /\ downS' = TRUE
    /\ cur' = [cur EXCEPT ![l] = NoCall]
    /\ UNCHANGED <<clientVars, downC, wire, answered, want, serving,
                   completed, ended>>

\* Mutant: earlier out-of-order completions are not joined.
NextServingNoJoin(t) == t + 1

\* The least sequence that has not completed once t has.
NextServing(t) ==
    CHOOSE n \in {t + 1} \cup {k + 1 : k \in completed} :
        /\ n > t /\ n \notin completed
        /\ \A k \in (t + 1) .. (n - 1) : k \in completed

\* rpc_async_sequence_end.
SequenceEnd(t) ==
    IF t = serving
    THEN /\ serving' = NextServing(t)
         /\ completed' = {k \in completed : k > NextServing(t)}
    ELSE /\ completed' = IF t > serving THEN completed \cup {t} ELSE completed
         /\ UNCHANGED serving

FinishAsync(l) ==
    /\ spc[l] = "exec"
    /\ SequenceEnd(cur[l].ticket)
    /\ ended' = ended \cup {cur[l].ticket}
    /\ spc' = [spc EXCEPT ![l] = "top"]
    /\ cur' = [cur EXCEPT ![l] = NoCall]
    /\ UNCHANGED <<clientVars, downC, wire, answered, want, downS,
                   closedS>>

FinishSync(l) ==
    /\ spc[l] = "run"
    /\ ~closedS /\ ~downS
    /\ cur[l].type = "sync"
    /\ answered' = [answered EXCEPT ![l] = TRUE]
    /\ spc' = [spc EXCEPT ![l] = "top"]
    /\ cur' = [cur EXCEPT ![l] = NoCall]
    /\ UNCHANGED <<clientVars, downC, wire, want, serving, completed,
                   ended, downS, closedS>>

-----------------------------------------------------------------------------
(* The connection fails at either end; a peer that is gone is noticed. *)

ServerTransportFails ==
    /\ Faults /\ ~downS
    /\ downS' = TRUE
    /\ UNCHANGED <<clientVars, downC, wire, answered, serverVars>>

ClientTransportFails ==
    /\ Faults /\ ~downC
    /\ downC' = TRUE
    /\ UNCHANGED <<clientVars, wire, answered, downS, serverVars>>

-----------------------------------------------------------------------------
Init ==
    /\ pc = [l \in Lanes |-> "idle"]
    /\ op = [l \in Lanes |-> NoOp]
    /\ builder = NoLane
    /\ issued = 0
    /\ published = 0
    /\ prefixStream = NoLane
    /\ prefix = 0
    /\ returned = {}
    /\ downC = FALSE
    /\ wire = [l \in Lanes |-> <<>>]
    /\ answered = [l \in Lanes |-> FALSE]
    /\ spc = [l \in Lanes |-> "top"]
    /\ cur = [l \in Lanes |-> NoCall]
    /\ want = [l \in Lanes |-> 0]
    /\ serving = 0
    /\ completed = {}
    /\ ended = {}
    /\ downS = FALSE
    /\ closedS = FALSE

Thread(l) ==
    \/ \E isAsync \in BOOLEAN : CallEnter(l, isAsync)
    \/ CallStart(l)
    \/ CallReject(l)
    \/ CallWrite(l)
    \/ CallPublish(l)
    \/ CallReturn(l)

Worker(l) ==
    \/ Dispatch(l)
    \/ SequenceWait(l)
    \/ WorkerExit(l)
    \/ SequenceBegin(l)
    \/ HandlerFail(l)
    \/ FinishAsync(l)
    \/ FinishSync(l)

Next ==
    \/ \E l \in Lanes : Thread(l) \/ Worker(l)
    \/ ServerTransportFails
    \/ ClientTransportFails

Spec == Init /\ [][Next]_vars

\* Threads inside a call and lane workers are scheduled; an application need
\* not call, a handler need not fail, and a transport fails on its own only
\* because the peer's is gone.
FairSpec ==
    /\ Spec
    /\ \A l \in Lanes :
          /\ WF_vars(CallWrite(l) \/ CallPublish(l) \/ CallReturn(l))
          /\ WF_vars(Worker(l))
    /\ WF_vars(downS /\ ClientTransportFails)

-----------------------------------------------------------------------------
(* Properties *)

\* Every variable of the connection (conn_t, rpc.h) and of its threads has its
\* type.
TypeOK ==
    /\ pc \in [Lanes -> {"idle", "entered", "building", "written", "await"}]
    /\ op \in [Lanes -> Ops]
    /\ builder \in Lanes \cup {NoLane}
    /\ issued \in Nat
    /\ published \in Nat
    /\ prefixStream \in Lanes \cup {NoLane}
    /\ prefix \in Nat
    /\ returned \in SUBSET Nat
    /\ downC \in BOOLEAN
    /\ wire \in [Lanes -> Seq(Markers \cup Calls)]
    /\ answered \in [Lanes -> BOOLEAN]
    /\ spc \in [Lanes -> {"top", "read", "wait", "run", "exec", "dead"}]
    /\ cur \in [Lanes -> Calls]
    /\ want \in [Lanes -> Nat]
    /\ serving \in Nat
    /\ completed \in SUBSET Nat
    /\ ended \in SUBSET Nat
    /\ downS \in BOOLEAN
    /\ closedS \in BOOLEAN

\* A request is handled only after every fire-and-forget call that had
\* returned, on any lane, before the request was made has been submitted
\* natively, whether or not a marker was sent for it (rpc_write_end,
\* rpc_dispatch).
FenceRespected ==
    \A l \in Lanes : spc[l] \in {"run", "exec"} => cur[l].after \subseteq ended

\* The served prefix and the set of out-of-order completions describe exactly
\* the tickets that have ended, and the prefix never stops short of one that
\* has (rpc_async_sequence_end joins holes).
ServedPrefixExact ==
    /\ ended = (0 .. (serving - 1)) \cup completed
    /\ \A t \in completed : t > serving

\* A marker never makes a request wait for a call that overlaps it: everything
\* it waits for had returned when the request was made, although later calls
\* took the builder lock first (rpc_write_start_request).
NoOverlapWait ==
    \A l \in Lanes : \A i \in 1 .. Len(wire[l]) :
        wire[l][i].type = "marker" =>
            /\ i < Len(wire[l])
            /\ \A t \in 0 .. (wire[l][i].upto - 1) : t \in wire[l][i + 1].after

\* Markers never make lanes wait for each other for ever: a written request
\* is answered or the connection fails.
ReplyOrFailure ==
    \A l \in Lanes : pc[l] = "await" ~> pc[l] = "idle"

=============================================================================
