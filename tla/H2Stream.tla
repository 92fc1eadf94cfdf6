------------------------------ MODULE H2Stream ------------------------------
(***************************************************************************)
(* The HTTP/2 transport of h2.cpp at both ends of one connection, after    *)
(* the handshake: request writers with their two limits, the writer and    *)
(* the reader thread, flow-control windows, the end of a stream, failure   *)
(* and shutdown.  Payloads are units of compressed data, numbered per      *)
(* stream and direction.  Every action is one critical section of          *)
(* session_mutex; condition variables keep track of who sleeps.            *)
(***************************************************************************)
EXTENDS Naturals, Sequences, FiniteSets, SequencesExt

CONSTANTS
    Streams,     \* lanes
    Script,      \* per lane: its client thread's calls, "async" or "sync"
    Size,        \* per end: units of a message it writes
    Window,      \* per end: its receive window, kH2ClientWindow, kH2ServerWindow
    Limit,       \* kH2OutboundLimitBytes
    Block,       \* units that make the encoder emit
    SocketRoom,  \* chunks the kernel holds in one direction
    Breaks,      \* whether the connection may break
    Closers      \* the ends that may close the connection unprovoked

Ends == {"client", "server"}
Peer(e) == IF e = "client" THEN "server" ELSE "client"

ASSUME H2Assumption ==
    /\ IsFiniteSet(Streams)
    /\ Script \in [Streams -> Seq({"async", "sync"})]
    /\ Size \in [Ends -> Nat \ {0}] /\ Window \in [Ends -> Nat \ {0}]
    /\ {Block, SocketRoom} \subseteq Nat \ {0} /\ Limit \in Nat
    /\ Breaks \in BOOLEAN /\ Closers \subseteq Ends

VARIABLES
    h2,      \* per end: h2_transport
    app,     \* per end and lane: where the lane's thread is
    written, \* per end and lane: units given to the encoder
    writer,  \* per end: where the writer thread is
    reader,  \* per end: whether the reader thread runs
    life,    \* per end: how far rpc_http2_destroy is
    wire,    \* per end: chunks sent by it that its peer has not read
    broken   \* the connection is gone

vars == <<h2, app, written, writer, reader, life, wire, broken>>

-----------------------------------------------------------------------------
(* h2_transport and what one critical section does with it *)

\* FoldLeft, as a recursive function.
Through(op(_, _), base, seq) ==
    LET f[i \in 0..Len(seq)] == IF i = 0 THEN base ELSE op(f[i - 1], seq[i])
    IN f[Len(seq)]

\* pthread_cond_broadcast; a waiter is a pair of its condition and itself.
Broadcast(t, cond) == [t EXCEPT !.asleep = {w \in @ : w[1] # cond}]
WakeReader(t, s) == [t EXCEPT !.asleep = @ \ {<<"read_ready", s>>}]
Sleep(t, cond, who) == [t EXCEPT !.asleep = @ \cup {<<cond, who>>}]

QueueOutput(t, frame) ==
    Broadcast([t EXCEPT !.outbound = Append(@, frame)], "writer_ready")

\* on_stream_close: what the stream still holds is dropped.
CloseStream(t, s) ==
    Broadcast(WakeReader([t EXCEPT !.encoded[s] = <<>>, !.local_out[s] = <<>>,
                                   !.closed[s] = TRUE], s),
              "session_progress")

\* Writers behind a closed window are not woken.
FailTransportReadersOnly(t) == Broadcast([t EXCEPT !.failed = TRUE], "read_ready")
FailTransport(t) ==
    Broadcast(Broadcast([t EXCEPT !.failed = TRUE], "read_ready"),
              "session_progress")

\* The DATA item of a stream: the data provider callbacks under
\* nghttp2_session_send.  An item whose provider ran dry while a window was open
\* is deferred; one that stopped at a closed window stays active.
SendData(t, s) ==
    IF t.item[s] # "active" \/ t.stream_window[s] = 0 \/ t.window = 0
    THEN t
    ELSE LET n == Min({Len(t.encoded[s]), t.stream_window[s], t.window})
             eof == n > 0 /\ n = Len(t.encoded[s]) /\ t.finished[s]
             open == n < t.stream_window[s] /\ n < t.window
             framed == [t EXCEPT
                 !.encoded[s] = SubSeq(@, n + 1, Len(@)),
                 !.stream_window[s] = @ - n,
                 !.window = @ - n,
                 !.item[s] = IF eof THEN "done" ELSE IF open THEN "deferred" ELSE @]
             queued == IF n = 0 THEN framed
                       ELSE QueueOutput(framed,
                                [kind |-> "data", stream |-> s, end |-> eof,
                                 units |-> SubSeq(t.encoded[s], 1, n)])
         IN IF eof /\ t.remote_end[s] THEN CloseStream(queued, s) ELSE queued

\* The streams take their turns in some fixed order.
Order == SetToSeq(Streams)
FlushSession(t) == Through(SendData, t, Order)

\* Submits or resumes the DATA item.
PumpStream(t, s) ==
    IF t.encoded[s] = <<>> THEN t
    ELSE FlushSession([t EXCEPT !.item[s] = "active"])

\* The unit that closes a compressed stream; payload is numbered from 1.
End == 0

\* The encoder hands over all it holds.
Emit(t, s) == [t EXCEPT !.encoded[s] = @ \o t.held[s], !.held[s] = <<>>]

\* ZSTD_e_end closes the frame, with at least one unit of output.
EndStream(t, s) ==
    PumpStream([Emit(t, s) EXCEPT !.encoded[s] = Append(@, End),
                                  !.finished[s] = TRUE], s)

FlushOne(t, s) ==
    IF t.closed[s] \/ t.finished[s] THEN t ELSE PumpStream(Emit(t, s), s)
\* The list is never emptied.
FlushPendingKeeps(t) == Through(FlushOne, t, t.flush_pending)
FlushPending(t) ==
    [Through(FlushOne, t, t.flush_pending) EXCEPT !.flush_pending = <<>>]

\* What went to the reader is staged as well.
DeliverTwice(t, s, units) ==
    LET decoded == SelectSeq(units, LAMBDA u : u # End)
        direct == Min({Len(decoded), t.read_remaining[s]})
        filled == [t EXCEPT !.memory[s] = @ \o SubSeq(decoded, 1, direct),
                            !.read_remaining[s] = @ - direct,
                            !.local_out[s] = @ \o decoded]
    IN IF direct > 0 /\ filled.read_remaining[s] = 0
       THEN WakeReader(filled, s) ELSE filled
\* Decoded units go to a reader's buffer first and are staged otherwise.
Deliver(t, s, units) ==
    LET decoded == SelectSeq(units, LAMBDA u : u # End)
        direct == Min({Len(decoded), t.read_remaining[s]})
        filled == [t EXCEPT
            !.memory[s] = @ \o SubSeq(decoded, 1, direct),
            !.read_remaining[s] = @ - direct,
            !.local_out[s] = @ \o SubSeq(decoded, direct + 1, Len(decoded))]
    IN IF direct > 0 /\ filled.read_remaining[s] = 0
       THEN WakeReader(filled, s) ELSE filled

\* nghttp2 returns credit once half a window has been used, whether or not the
\* application has read the data, and none to a stream that has ended.
Credit(t, e, s, n, end) ==
    LET one == [t EXCEPT !.used[s] = @ + n, !.total_used = @ + n]
        two == IF 2 * one.used[s] < Window[e] \/ end THEN one
               ELSE QueueOutput([one EXCEPT !.used[s] = 0],
                        [kind |-> "update", stream |-> s, size |-> one.used[s]])
    IN IF 2 * one.total_used < Window[e] THEN two
       ELSE QueueOutput([two EXCEPT !.total_used = 0],
                        [kind |-> "credit", size |-> one.total_used])

RemoteEnd(t, s) ==
    LET ended == WakeReader([t EXCEPT !.remote_end[s] = TRUE], s)
    IN IF t.item[s] = "done" THEN CloseStream(ended, s) ELSE ended

\* What the callbacks of nghttp2_session_mem_recv do with a frame.
Apply(t, e, f) ==
    CASE f.kind = "request" ->
            QueueOutput([t EXCEPT !.incoming = Append(@, f.stream)],
                        [kind |-> "response", stream |-> f.stream])
      [] f.kind = "response" -> WakeReader(t, f.stream)
      [] f.kind = "update" -> [t EXCEPT !.stream_window[f.stream] = @ + f.size]
      [] f.kind = "credit" -> [t EXCEPT !.window = @ + f.size]
      [] f.kind = "data" ->
            LET read == Credit(Deliver(t, f.stream, f.units), e, f.stream,
                               Len(f.units), f.end)
            IN IF f.end THEN RemoteEnd(read, f.stream) ELSE read
Receive(t, e, chunk) == Through(LAMBDA u, f : Apply(u, e, f), t, chunk)

-----------------------------------------------------------------------------
(* Threads that use a lane *)

\* The limits that a writer of lane s runs into.
Backlogged(t, s) == ~t.failed /\ ~t.closed[s] /\ Len(t.encoded[s]) > Limit
\* Frames without payload are too small to count.
OutboundSize(t) ==
    Through(LAMBDA n, f : n + IF f.kind = "data" THEN Len(f.units) ELSE 0,
             0, t.outbound)
\* Writers never wait for the socket.
OutboundFullNever(t) == FALSE
OutboundFull(t) == ~t.write_failed /\ OutboundSize(t) > Limit

Init ==
    /\ h2 = [e \in Ends |->
          [held |-> [s \in Streams |-> <<>>], encoded |-> [s \in Streams |-> <<>>],
           finished |-> [s \in Streams |-> FALSE],
           item |-> [s \in Streams |-> "none"],
           stream_window |-> [s \in Streams |-> Window[Peer(e)]],
           window |-> Window[Peer(e)],
           used |-> [s \in Streams |-> 0], total_used |-> 0,
           outbound |-> <<>>, flush_pending |-> <<>>,
           local_out |-> [s \in Streams |-> <<>>],
           memory |-> [s \in Streams |-> <<>>],
           read_remaining |-> [s \in Streams |-> 0],
           remote_end |-> [s \in Streams |-> FALSE],
           closed |-> [s \in Streams |-> FALSE], incoming |-> <<>>,
           failed |-> FALSE, write_failed |-> FALSE, write_stop |-> FALSE,
           read_stop |-> FALSE, asleep |-> {}]]
    /\ app = [e \in Ends |-> [s \in Streams |-> "off"]]
    /\ written = [e \in Ends |-> [s \in Streams |-> 0]]
    /\ writer = [e \in Ends |-> [pc |-> "run", chunk |-> <<>>]]
    /\ reader = [e \in Ends |-> TRUE]
    /\ life = [e \in Ends |-> "up"]
    /\ wire = [e \in Ends |-> <<>>]
    /\ broken = FALSE

Thread(e, s, t, pc) ==
    /\ h2' = [h2 EXCEPT ![e] = t]
    /\ app' = [app EXCEPT ![e][s] = pc]
    /\ UNCHANGED <<writer, reader, life, wire, broken>>

\* rpc_http2_lane_stream
OpenLane(s) ==
    /\ app["client"][s] = "off" /\ life["client"] = "up"
    /\ IF h2["client"].failed THEN Thread("client", s, h2["client"], "left")
       ELSE Thread("client", s, QueueOutput(h2["client"],
                       [kind |-> "request", stream |-> s]), "idle")
    /\ UNCHANGED written

\* rpc_http2_accept_stream, and a worker for the lane
AcceptStream ==
    /\ h2["server"].incoming # <<>> /\ life["server"] = "up"
    /\ Thread("server", Head(h2["server"].incoming),
              [h2["server"] EXCEPT !.incoming = Tail(@)], "read")
    /\ UNCHANGED written

\* Messages that end e has written to lane s.
Wrote(e, s) == written[e][s] \div Size[e]

StartCall(s) ==
    /\ app["client"][s] = "idle" /\ life["client"] = "up"
    /\ Wrote("client", s) < Len(Script[s])
    /\ Thread("client", s, h2["client"], "write")
    /\ UNCHANGED written

\* rpc_http2_write_stream returns 0: the tail is left to the write thread, which
\* is woken.  A fire-and-forget call is over, another waits for its answer.
Written(e, s, t) ==
    LET queued == IF s \in Range(t.flush_pending) THEN t
                  ELSE [t EXCEPT !.flush_pending = Append(@, s)]
        sync == e = "server" \/ Script[s][(written'[e][s]) \div Size[e]] = "sync"
    IN Thread(e, s, Broadcast(queued, "writer_ready"),
              IF sync THEN "read" ELSE "idle")

\* A call of the client fails; a handler that fails is left to WorkerFails.
WriteFailed(e, s, t) == Thread(e, s, t, IF e = "server" THEN "fails" ELSE "left")

\* The rest of the loop of h2_write_stream_locked once the limits let it pass.
AfterBlock(e, s, t) ==
    \/ /\ t.failed \/ t.closed[s]
       /\ WriteFailed(e, s, Broadcast(t, "writer_ready"))
    \/ /\ ~t.failed /\ ~t.closed[s]
       /\ IF written'[e][s] % Size[e] = 0 THEN Written(e, s, t)
                                          ELSE Thread(e, s, t, "write")
AfterBacklog(e, s, t) ==
    \/ OutboundFull(t)
       /\ Thread(e, s, Sleep(t, "outbound_progress", s), "outbound")
    \/ ~OutboundFull(t) /\ AfterBlock(e, s, t)

\* One block: compressed, kept or emitted by the encoder, and pumped.  Between two
\* blocks a refill may release the mutex; then the transport is tested again.
WriteBlock(e, s) ==
    /\ app[e][s] = "write"
    /\ IF \/ h2[e].closed[s] \/ h2[e].finished[s]
          \/ h2[e].failed /\ written[e][s] % Size[e] # 0
       THEN WriteFailed(e, s, Broadcast(h2[e], "writer_ready")) /\ UNCHANGED written
       ELSE /\ written' = [written EXCEPT ![e][s] = @ + 1]
            /\ LET fed == [h2[e] EXCEPT !.held[s] = Append(@, written'[e][s])]
               IN \E t \in {PumpStream(Emit(fed, s), s)} \cup
                           {u \in {fed} : Len(u.held[s]) < Block} :
                  \/ /\ Backlogged(t, s)
                     /\ Thread(e, s, Sleep(t, "session_progress", s), "backlog")
                  \/ ~Backlogged(t, s) /\ AfterBacklog(e, s, t)

Awake(e, cond, who) == <<cond, who>> \notin h2[e].asleep

\* Waits again, for the wrong condition.
BacklogWaitWrongCondition(e, s) ==
    /\ app[e][s] = "backlog" /\ Awake(e, "session_progress", s)
    /\ UNCHANGED written
    /\ \/ /\ Backlogged(h2[e], s)
          /\ Thread(e, s, Sleep(h2[e], "outbound_progress", s), "backlog")
       \/ ~Backlogged(h2[e], s) /\ AfterBacklog(e, s, h2[e])
BacklogWait(e, s) ==
    /\ app[e][s] = "backlog" /\ Awake(e, "session_progress", s)
    /\ UNCHANGED written
    /\ \/ /\ Backlogged(h2[e], s)
          /\ Thread(e, s, Sleep(h2[e], "session_progress", s), "backlog")
       \/ ~Backlogged(h2[e], s) /\ AfterBacklog(e, s, h2[e])

OutboundWait(e, s) ==
    /\ app[e][s] = "outbound" /\ Awake(e, "outbound_progress", s)
    /\ UNCHANGED written
    /\ AfterBacklog(e, s, h2[e])

\* A read returned all it asked for: the client's call is over; the worker
\* answers a request that wants an answer.
ReadDone(e, s, t) ==
    LET request == Len(t.memory[s]) \div Size[Peer(e)]
    IN Thread(e, s, t, IF e = "client" THEN "idle"
                       ELSE IF Script[s][request] = "sync" THEN "write" ELSE "read")

\* A read failed.  Workers leave; at the end of the stream they end theirs too.
ReadFailed(e, s, t) ==
    Thread(e, s,
           IF e = "server" /\ t.remote_end[s] /\ ~t.closed[s] /\ ~t.finished[s]
              /\ life[e] = "up"
           THEN EndStream(t, s) ELSE t,
           "left")

Over(t, s) == t.failed \/ t.closed[s] \/ t.remote_end[s]

\* The end of the stream is noticed before what is staged.
ReadStreamEndFirst(e, s) ==
    /\ app[e][s] = "read"
    /\ UNCHANGED written
    /\ LET t == h2[e]
           n == Min({Size[Peer(e)], Len(t.local_out[s])})
           u == [t EXCEPT !.memory[s] = @ \o SubSeq(t.local_out[s], 1, n),
                          !.local_out[s] = SubSeq(@, n + 1, Len(@))]
       IN \/ Over(t, s) /\ ReadFailed(e, s, t)
          \/ ~Over(t, s) /\ n = Size[Peer(e)] /\ ReadDone(e, s, u)
          \/ /\ ~Over(t, s) /\ n < Size[Peer(e)]
             /\ Thread(e, s, Sleep([u EXCEPT !.read_remaining[s] = Size[Peer(e)] - n],
                                   "read_ready", s), "blocked")
\* rpc_http2_read_stream: staged data first, then the end or failure of the
\* stream, then a wait for the rest.
ReadStream(e, s) ==
    /\ app[e][s] = "read"
    /\ UNCHANGED written
    /\ LET t == h2[e]
           n == Min({Size[Peer(e)], Len(t.local_out[s])})
           u == [t EXCEPT !.memory[s] = @ \o SubSeq(t.local_out[s], 1, n),
                          !.local_out[s] = SubSeq(@, n + 1, Len(@))]
       IN \/ n = Size[Peer(e)] /\ ReadDone(e, s, u)
          \/ n < Size[Peer(e)] /\ Over(u, s) /\ ReadFailed(e, s, u)
          \/ /\ n < Size[Peer(e)] /\ ~Over(u, s)
             /\ Thread(e, s, Sleep([u EXCEPT !.read_remaining[s] = Size[Peer(e)] - n],
                                   "read_ready", s), "blocked")

\* A read that fails leaves its buffer with the stream.
ReadWaitKeepsBuffer(e, s) ==
    /\ app[e][s] = "blocked" /\ Awake(e, "read_ready", s)
    /\ UNCHANGED written
    /\ LET t == h2[e]
       IN \/ t.read_remaining[s] = 0 /\ ReadDone(e, s, t)
          \/ t.read_remaining[s] > 0 /\ Over(t, s) /\ ReadFailed(e, s, t)
          \/ /\ t.read_remaining[s] > 0 /\ ~Over(t, s)
             /\ Thread(e, s, Sleep(t, "read_ready", s), "blocked")
ReadWait(e, s) ==
    /\ app[e][s] = "blocked" /\ Awake(e, "read_ready", s)
    /\ UNCHANGED written
    /\ LET t == h2[e]
           done == [t EXCEPT !.read_remaining[s] = 0]
       IN \/ t.read_remaining[s] = 0 /\ ReadDone(e, s, done)
          \/ t.read_remaining[s] > 0 /\ Over(t, s) /\ ReadFailed(e, s, done)
          \/ /\ t.read_remaining[s] > 0 /\ ~Over(t, s)
             /\ Thread(e, s, Sleep(t, "read_ready", s), "blocked")

\* rpc_write_lane_termination of a thread that exits.
EndLane(s) ==
    /\ app["client"][s] = "idle" /\ life["client"] = "up"
    /\ Wrote("client", s) = Len(Script[s])
    /\ Thread("client", s,
              IF h2["client"].closed[s] THEN h2["client"]
              ELSE EndStream(h2["client"], s), "left")
    /\ UNCHANGED written

-----------------------------------------------------------------------------
(* h2_write_main *)

\* Tails left with the encoders do not count.
WriterIdleNoFlush(t) == t.outbound = <<>> /\ ~t.write_stop
WriterIdle(t) == t.outbound = <<>> /\ t.flush_pending = <<>> /\ ~t.write_stop

WriterStep(e, t, pc, chunk) ==
    /\ h2' = [h2 EXCEPT ![e] = t]
    /\ writer' = [writer EXCEPT ![e] = [pc |-> pc, chunk |-> chunk]]

WriterWait(e) ==
    /\ writer[e].pc = "run" /\ Awake(e, "writer_ready", "writer")
    /\ WriterIdle(h2[e])
    /\ WriterStep(e, Sleep(h2[e], "writer_ready", "writer"), "run", <<>>)
    /\ UNCHANGED <<app, written, reader, life, wire, broken>>

WriterStop(e) ==
    /\ writer[e].pc = "run" /\ Awake(e, "writer_ready", "writer")
    /\ h2[e].write_stop
    /\ WriterStep(e, Broadcast(h2[e], "outbound_progress"), "exit", <<>>)
    /\ UNCHANGED <<app, written, reader, life, wire, broken>>

\* Flushes the encoders and takes the output, which is sent with the mutex
\* released.
WriterTake(e) ==
    /\ writer[e].pc = "run" /\ Awake(e, "writer_ready", "writer")
    /\ ~WriterIdle(h2[e]) /\ ~h2[e].write_stop
    /\ LET t == FlushPending(h2[e])
       IN WriterStep(e, Broadcast([t EXCEPT !.outbound = <<>>], "outbound_progress"),
                     IF t.outbound = <<>> THEN "run" ELSE "send", t.outbound)
    /\ UNCHANGED <<app, written, reader, life, wire, broken>>

\* h2_write_socket blocks while the kernel has no room.
WriteSocket(e) ==
    /\ writer[e].pc = "send" /\ writer[e].chunk # <<>>
    /\ ~broken /\ Len(wire[e]) < SocketRoom
    /\ wire' = [wire EXCEPT ![e] = Append(@, writer[e].chunk)]
    /\ writer' = [writer EXCEPT ![e].chunk = <<>>]
    /\ UNCHANGED <<h2, app, written, reader, life, broken>>

WriterSent(e) ==
    /\ writer[e].pc = "send" /\ writer[e].chunk = <<>>
    /\ WriterStep(e, Broadcast(Broadcast(h2[e], "session_progress"),
                               "outbound_progress"), "run", <<>>)
    /\ UNCHANGED <<app, written, reader, life, wire, broken>>

WriterFails(e) ==
    /\ broken /\ writer[e].pc = "send" /\ writer[e].chunk # <<>>
    /\ WriterStep(e, Broadcast(FailTransport([h2[e] EXCEPT !.write_failed = TRUE]),
                               "outbound_progress"), "exit", <<>>)
    /\ UNCHANGED <<app, written, reader, life, wire, broken>>

-----------------------------------------------------------------------------
(* h2_read_main *)

\* A batch is applied, the session is pumped, waiters are woken.
ReaderBatch(e) ==
    /\ reader[e] /\ ~h2[e].read_stop
    /\ wire[Peer(e)] # <<>>
    /\ wire' = [wire EXCEPT ![Peer(e)] = Tail(@)]
    /\ h2' = [h2 EXCEPT ![e] =
          Broadcast(FlushSession(Receive(@, e, Head(wire[Peer(e)]))),
                    "session_progress")]
    /\ UNCHANGED <<app, written, writer, reader, life, broken>>

ReaderFails(e) ==
    /\ reader[e] /\ ~h2[e].read_stop
    /\ broken
    /\ reader' = [reader EXCEPT ![e] = FALSE]
    /\ h2' = [h2 EXCEPT ![e] = FailTransport(@)]
    /\ UNCHANGED <<app, written, writer, life, wire, broken>>

\* The receive side was shut down.
ReaderStop(e) ==
    /\ reader[e] /\ h2[e].read_stop
    /\ reader' = [reader EXCEPT ![e] = FALSE]
    /\ UNCHANGED <<h2, app, written, writer, life, wire, broken>>

Break ==
    /\ Breaks /\ ~broken
    /\ broken' = TRUE
    /\ UNCHANGED <<h2, app, written, writer, reader, life, wire>>

-----------------------------------------------------------------------------
(* rpc_http2_shutdown and rpc_http2_destroy *)

CloseReads(t) ==
    Broadcast(FailTransport([t EXCEPT !.read_stop = TRUE]), "writer_ready")
Shutdown(e) ==
    /\ life[e] = "up"
    /\ life' = [life EXCEPT ![e] = "shut"]
    /\ h2' = [h2 EXCEPT ![e] = CloseReads(@)]
    /\ UNCHANGED <<app, written, writer, reader, wire, broken>>

\* A worker whose handler failed shuts the connection down for every lane.
WorkerFails(s) ==
    /\ app["server"][s] = "fails"
    /\ app' = [app EXCEPT !["server"][s] = "left"]
    /\ IF life["server"] = "up"
       THEN /\ life' = [life EXCEPT !["server"] = "shut"]
            /\ h2' = [h2 EXCEPT !["server"] = CloseReads(@)]
       ELSE UNCHANGED <<life, h2>>
    /\ UNCHANGED <<written, writer, reader, wire, broken>>

\* rpc_http2_accept_stream fails and the main thread shuts the connection down.
AcceptFails ==
    /\ h2["server"].failed /\ h2["server"].incoming = <<>>
    /\ Shutdown("server")

\* No thread uses the connection any more.
Unused(e) == \A s \in Streams : app[e][s] \in {"off", "idle", "left"}

\* h2_drain_output_locked
Drained(e) ==
    \/ h2[e].write_failed
    \/ /\ h2[e].outbound = <<>> /\ h2[e].flush_pending = <<>>
       /\ writer[e].pc # "send"

DrainOutput(e) ==
    /\ life[e] = "shut" /\ Unused(e) /\ Awake(e, "outbound_progress", "destroy")
    /\ IF Drained(e)
       THEN /\ h2' = [h2 EXCEPT ![e] =
                  Broadcast([@ EXCEPT !.write_stop = TRUE], "writer_ready")]
            /\ life' = [life EXCEPT ![e] = "join"]
       ELSE /\ h2' = [h2 EXCEPT ![e] = Sleep(@, "outbound_progress", "destroy")]
            /\ UNCHANGED life
    /\ UNCHANGED <<app, written, writer, reader, wire, broken>>

\* The threads are joined and the socket is reset.
Destroy(e) ==
    /\ life[e] = "join"
    /\ writer[e].pc = "exit" /\ ~reader[e]
    /\ life' = [life EXCEPT ![e] = "gone"]
    /\ broken' = TRUE
    /\ UNCHANGED <<h2, app, written, writer, reader, wire>>

-----------------------------------------------------------------------------
\* A thread inside a call; the application decides only when to call.
InCall(e, s) ==
    \/ WriteBlock(e, s) \/ BacklogWait(e, s) \/ OutboundWait(e, s)
    \/ ReadStream(e, s) \/ ReadWait(e, s)
WriterThread(e) ==
    \/ WriterWait(e) \/ WriterStop(e) \/ WriterTake(e) \/ WriteSocket(e)
    \/ WriterSent(e) \/ WriterFails(e)
ReaderThread(e) == ReaderBatch(e) \/ ReaderFails(e) \/ ReaderStop(e)
Closing(e) == DrainOutput(e) \/ Destroy(e)

\* What the two processes do by themselves.
Threads ==
    \/ AcceptStream
    \/ AcceptFails
    \/ \E s \in Streams : WorkerFails(s)
    \/ \E e \in Ends :
          \/ WriterThread(e) \/ ReaderThread(e) \/ Closing(e)
          \/ \E s \in Streams : InCall(e, s)

Next ==
    \/ Threads
    \/ \E s \in Streams : OpenLane(s) \/ StartCall(s) \/ EndLane(s)
    \/ \E e \in Closers : Shutdown(e)
    \/ Break

Spec == Init /\ [][Next]_vars

-----------------------------------------------------------------------------
(* Properties *)

Units(frames, s) ==
    FlattenSeq([i \in DOMAIN frames |->
        IF frames[i].kind = "data" /\ frames[i].stream = s
        THEN frames[i].units ELSE <<>>])

\* Every variable has its type; who sleeps is a thread that waits.
TypeOK ==
    /\ app \in [Ends -> [Streams -> {"off", "idle", "write", "backlog", "outbound",
                                     "read", "blocked", "fails", "left"}]]
    /\ written \in [Ends -> [Streams -> Nat]]
    /\ reader \in [Ends -> BOOLEAN] /\ broken \in BOOLEAN
    /\ life \in [Ends -> {"up", "shut", "join", "gone"}]
    /\ \A e \in Ends :
          /\ writer[e].pc \in {"run", "send", "exit"}
          /\ Len(wire[e]) <= SocketRoom
          /\ \A s \in Streams :
                /\ <<"session_progress", s>> \in h2[e].asleep => app[e][s] = "backlog"
                /\ <<"outbound_progress", s>> \in h2[e].asleep => app[e][s] = "outbound"
                /\ <<"read_ready", s>> \in h2[e].asleep => app[e][s] = "blocked"

\* Nothing is lost, repeated or reordered between a writer and its reader: what
\* was read, staged, on the wire, in the writer's hands, in the outbound buffer,
\* encoded behind the window and in the encoder is exactly what was written, in
\* order, for as long as the connection is up and the stream open.
StreamIntact ==
    \A e \in Ends, s \in Streams :
        LET p == Peer(e)
            t == h2[e]
            data == h2[p].memory[s] \o h2[p].local_out[s] \o Units(FlattenSeq(wire[e]), s) \o
                    Units(writer[e].chunk, s) \o Units(t.outbound, s) \o
                    t.encoded[s] \o t.held[s]
        IN ~h2[p].closed[s] /\ ~t.closed[s] /\ ~broken /\ life = [x \in Ends |-> "up"]
           => SelectSeq(data, LAMBDA u : u # End) = [i \in 1..written[e][s] |-> i]

\* The reader thread copies into a caller's buffer only while the caller waits for
\* it, and never past data that is staged: no failure, end or close leaves
\* read_destination pointing into a call that has returned.
BufferAlive ==
    \A e \in Ends, s \in Streams :
        h2[e].read_remaining[s] > 0
        => app[e][s] = "blocked" /\ h2[e].local_out[s] = <<>>

\* A worker that leaves a connection in good order because the client ended the lane
\* has read every request the lane's thread wrote: closing a stream, which drops what is staged, never
\* drops a request of a thread that exited.
EndAfterAll ==
    \A s \in Streams :
        app["server"][s] = "left" /\ h2["server"].remote_end[s] /\ ~h2["server"].failed
        => Len(h2["server"].memory[s]) = written["client"][s]

Buffered(t) ==
    Through(LAMBDA n, s : n + Len(t.encoded[s]), OutboundSize(t), Order)

\* Output is bounded however slow the peer: a lane's backlog by the limit and a
\* block, and what the lanes and the outbound buffer hold together by the limit and
\* as much again for every lane.
MemoryBounded ==
    \A e \in Ends :
        /\ \A s \in Streams : Len(h2[e].encoded[s]) <= Limit + Block
        /\ Buffered(h2[e]) <= Limit + Cardinality(Streams) * (Limit + Block)

Busy(e, s) ==
    \/ app[e][s] \in {"write", "backlog", "outbound", "fails"}
    \/ e = "client" /\ app[e][s] \in {"read", "blocked"}

\* No thread of either process can take a step.
Stuck == ~ENABLED Threads

\* Every call returns: the processes never get stuck while a writer is held back by
\* the window or by the socket, or a client waits for an answer, whether the
\* connection lives, fails or is closed, nor while rpc_http2_destroy waits for the
\* output to drain or for a thread.  Both ends may fill the socket at once.
CallsReturn ==
    Stuck => \A e \in Ends : /\ \A s \in Streams : ~Busy(e, s)
                             /\ life[e] \in {"up", "gone"}

\* What a fire-and-forget call wrote reaches the server's worker even when the
\* thread never calls again, unless the connection ends.
RequestsArrive ==
    Stuck /\ ~broken /\ life = [e \in Ends |-> "up"] =>
        \A s \in Streams : Len(h2["server"].memory[s]) = written["client"][s]

\* The threads do not keep each other busy either: they get stuck.
EventuallyStuck == <>[][FALSE]_vars

=============================================================================
