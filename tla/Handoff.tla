------------------------------- MODULE Handoff -------------------------------
(***************************************************************************)
(* The client's end of a process handoff: a live connection moves to       *)
(* another server process.  The checkpoint thread of the connection        *)
(* (checkpoint_connection, transport.cpp) closes the capture gate, pauses  *)
(* requests, drains the server, acknowledges the socket barrier and        *)
(* replaces the socket, while application threads call, the reader and the *)
(* writer of the HTTP/2 session run and the connection may fail or be      *)
(* closed.  The capture gate is process-wide: CaptureGate's other          *)
(* checkpoints stand for the handoffs of other connections.                *)
(*                                                                         *)
(* Outgoing frames are the thread that sends a request, "drain", "D", "A"  *)
(* and "ack" (whatever the session itself answers); incoming ones the      *)
(* thread whose response it is, "ping" and the control commands.           *)
(***************************************************************************)
EXTENDS CaptureGate, Sequences, Functions

CONSTANTS
    Conn,     \* the checkpoint thread of the connection modelled
    Callers   \* threads that call without capturing

ASSUME ConnAssumption ==
    /\ Conn \in Checkpoints
    /\ Callers \cap (Captures \cup Checkpoints) = {}

Threads == Captures \cup Callers

\* A thread stands for its own request or response among the frames.
ASSUME FramesAssumption ==
    (Threads \cup {Conn}) \cap {"drain", "D", "A", "ack", "ping", "P", "F", "C", "X"} = {}

VARIABLES
    ck,        \* where the checkpoint thread is
    req,       \* per thread: its request
    paused,    \* requests_paused
    out,       \* outbound: frames queued for the writer
    barrier,   \* pause_after_bytes, in frames
    chunk,     \* frames the writer is sending (write_busy)
    wpaused,   \* writer_paused
    wfailed,   \* write_failed
    controls,  \* process_controls
    pending,   \* checkpoint_pending
    parked,    \* socket_parked
    answers,   \* threads whose response has arrived
    failed,    \* transport_failed and async_cancelled
    closed,    \* conn->closed
    down,      \* frames sent by the peer and not yet read
    inbox,     \* threads whose request the server has
    peer,      \* the supervisor's side of the exchange
    drained,   \* the server holds its dispatch gate
    broken,    \* the socket is dead
    attached,  \* netfd is a socket
    stray      \* history: a frame went to a socket whose reader was gone

gate == <<pc, admitted, active, waiters, held, waits>>
writer == <<out, barrier, chunk, wpaused, wfailed>>
reader == <<controls, pending, parked, answers>>
server == <<inbox, peer, drained, broken, attached, stray>>
hvars == <<gate, ck, req, paused, writer, reader, failed, closed, down, server>>

Idle == [at |-> "idle", for |-> "call"]

HInit ==
    /\ Init
    /\ ck = "recv"
    /\ req = [t \in Threads |-> Idle]
    /\ paused = FALSE
    /\ out = <<>> /\ barrier = 0 /\ chunk = <<>> /\ wpaused = FALSE /\ wfailed = FALSE
    /\ controls = <<>> /\ pending = FALSE /\ parked = FALSE /\ answers = {}
    /\ failed = FALSE /\ closed = FALSE
    /\ down = <<>>
    /\ inbox = {} /\ peer = "run" /\ drained = FALSE
    /\ broken = FALSE /\ attached = TRUE /\ stray = FALSE

-----------------------------------------------------------------------------
(* Application threads *)

\* A broadcast of async_cond.
WakeAll == req' = [t \in Threads |->
              IF req[t].at = "asleep" THEN [req[t] EXCEPT !.at = "retry"] ELSE req[t]]

\* rpc_write_start_request to rpc_write_end, all under call_mutex: a paused
\* connection sends its callers to sleep, a closed one turns them away.
Enter(t, why) ==
    \/ /\ paused /\ ~failed
       /\ req' = [req EXCEPT ![t] = [at |-> "asleep", for |-> why]]
       /\ UNCHANGED out
    \/ /\ ~paused /\ ~failed
       /\ req' = [req EXCEPT ![t] = [at |-> "sent", for |-> why]]
       /\ out' = Append(out, t)

\* A call, cuStreamBeginCapture once the gate has let it pass, and
\* cuStreamEndCapture.
Call(t) ==
    /\ req[t].at = "idle"
    /\ \/ t \in Callers /\ Enter(t, "call")
       \/ t \in Captures /\ pc[t] = "reserved" /\ Enter(t, "begin")
       \/ t \in Captures /\ pc[t] = "active" /\ Enter(t, "end")
    /\ UNCHANGED <<gate, ck, paused, barrier, chunk, wpaused, wfailed, reader, failed,
                   closed, down, server>>

\* cuStreamBeginCapture: the gate first.
CaptureBegin(t) ==
    /\ req[t].at = "idle"
    /\ Begin(t)
    /\ UNCHANGED <<ck, req, paused, writer, reader, failed, closed, down, server>>

\* A woken caller takes call_mutex again.
Retry(t) ==
    /\ req[t].at = "retry"
    /\ Enter(t, req[t].for)
    /\ UNCHANGED <<gate, ck, paused, barrier, chunk, wpaused, wfailed, reader, failed,
                   closed, down, server>>

\* The response has been read; the driver may refuse to begin a capture.  (An
\* end that fails with WRONG_THREAD or UNMATCHED leaves everything as it was.)
Return(t) ==
    /\ req[t].at = "sent" /\ t \in answers
    /\ req' = [req EXCEPT ![t] = Idle]
    /\ answers' = answers \ {t}
    /\ CASE req[t].for = "begin" -> \E started \in BOOLEAN : BeginComplete(t, started)
         [] req[t].for = "end" -> EndCapture(t)
         [] OTHER -> UNCHANGED gate
    /\ UNCHANGED <<ck, paused, writer, controls, pending, parked, failed, closed, down,
                   server>>

\* No response: a begin gives its reservation back, an end does not reach
\* lupine_complete_stream_end_capture and leaves the capture counted.
ReturnError(t) ==
    /\ failed
    /\ \/ req[t].at \in {"sent", "retry"}
       \/ t \in Captures /\ req[t].at = "idle" /\ pc[t] = "reserved"
    /\ req' = [req EXCEPT ![t] = Idle]
    /\ answers' = answers \ {t}
    /\ IF t \in Captures /\ pc[t] = "reserved" THEN BeginComplete(t, FALSE) ELSE UNCHANGED gate
    /\ UNCHANGED <<ck, paused, writer, controls, pending, parked, failed, closed, down,
                   server>>

-----------------------------------------------------------------------------
(* The writer, h2_write_main *)

\* Mutant: the writer takes what is queued behind the barrier along.
TakeAll ==
    /\ chunk' = out /\ out' = <<>>
    /\ barrier' = 0 /\ wpaused' = (wpaused \/ barrier # 0)
Take ==
    IF barrier = 0
    THEN chunk' = out /\ out' = <<>> /\ UNCHANGED <<barrier, wpaused>>
    ELSE /\ chunk' = SubSeq(out, 1, barrier)
         /\ out' = SubSeq(out, barrier + 1, Len(out))
         /\ barrier' = 0 /\ wpaused' = TRUE

WriterTakes ==
    /\ chunk = <<>> /\ out # <<>> /\ ~wpaused /\ ~wfailed
    /\ Take
    /\ UNCHANGED <<gate, ck, req, paused, wfailed, reader, failed, closed, down, server>>

\* The peer gets the chunk whole; what reaches it after "A" is lost.
Deliver ==
    LET got == Range(chunk)
    IN /\ inbox' = inbox \cup (got \cap Threads) \cup
                     (IF "drain" \in got THEN {Conn} ELSE {})
       /\ peer' = CASE "A" \in got -> "acked"
                    [] "D" \in got -> "ready"
                    [] OTHER -> peer
       /\ stray' = \/ stray
                   \/ ~failed /\ peer \in {"acked", "moved"}
                   \/ ~failed /\ "A" \in got /\ chunk[Len(chunk)] # "A"

WriterWrote ==
    /\ chunk # <<>> /\ ~wfailed /\ attached
    /\ chunk' = <<>>
    /\ IF broken THEN UNCHANGED <<inbox, peer, stray>> ELSE Deliver
    /\ UNCHANGED <<gate, ck, req, paused, out, barrier, wpaused, wfailed, reader, failed,
                   closed, down, drained, broken, attached>>

\* h2_fail_transport_locked: every wait but those for the writer ends.  What
\* the peer sent or does from here on no longer matters.
Fail ==
    /\ failed' = TRUE /\ WakeAll
    /\ broken' = TRUE /\ down' = <<>>
    /\ inbox' = {} /\ peer' = "run" /\ drained' = FALSE

WriterFails ==
    /\ chunk # <<>> /\ ~wfailed /\ (broken \/ ~attached)
    /\ chunk' = <<>>
    /\ wfailed' = TRUE
    /\ Fail
    /\ UNCHANGED <<gate, ck, paused, out, barrier, wpaused, reader, closed, attached, stray>>

-----------------------------------------------------------------------------
(* The reader, h2_read_main and h2_on_frame_recv_callback *)

\* Mutant: an abort clears the flags and is not handed on.
ControlDropsAbort(c) ==
    /\ controls' = IF c = "X" THEN controls ELSE Append(controls, c)
    /\ pending' = (c # "X")
    /\ parked' = (parked \/ c = "C")
    /\ wpaused' = (wpaused /\ c # "X")
\* Mutant: a commit lets the writer go on.
ControlCommitUnpauses(c) ==
    /\ controls' = Append(controls, c)
    /\ pending' = (c # "X")
    /\ parked' = (parked \/ c = "C")
    /\ wpaused' = (wpaused /\ c \notin {"X", "C"})
Control(c) ==
    /\ controls' = Append(controls, c)
    /\ pending' = (c # "X")
    /\ parked' = (parked \/ c = "C")
    /\ wpaused' = (wpaused /\ c # "X")

ReadFrame ==
    LET f == Head(down)
    IN /\ down # <<>> /\ ~parked /\ ~failed
       /\ down' = Tail(down)
       /\ CASE f \in Threads \cup {Conn} ->
                  /\ answers' = answers \cup {f}
                  /\ UNCHANGED <<out, wpaused, controls, pending, parked>>
            [] f = "ping" ->
                  /\ out' = Append(out, "ack")
                  /\ UNCHANGED <<wpaused, reader>>
            [] OTHER ->
                  /\ f = "P" <=> ~pending
                  /\ Control(f)
                  /\ UNCHANGED <<out, answers>>
       /\ UNCHANGED <<gate, ck, req, paused, barrier, chunk, wfailed, failed, closed, server>>

\* The socket is dead, or a command came out of turn.
ReaderFails ==
    /\ ~parked /\ ~failed
    /\ \/ broken
       \/ down # <<>> /\ Head(down) \in {"P", "F", "C", "X"} /\ (Head(down) = "P" <=> pending)
    /\ Fail
    /\ UNCHANGED <<gate, ck, paused, writer, reader, closed, attached, stray>>

\* rpc_shutdown_transport_socket: by the dispatch thread when its stream fails,
\* by the checkpoint thread, or by an application that closes its transport.
Shutdown == closed' = TRUE /\ wpaused' = FALSE /\ Fail

Close ==
    /\ ~closed
    /\ Shutdown
    /\ UNCHANGED <<gate, ck, paused, out, barrier, chunk, wfailed, reader, attached, stray>>

-----------------------------------------------------------------------------
(* The checkpoint thread, checkpoint_connection and checkpoint_handoff *)

\* The next command of lupine_handoff_receive_control.
Received(c) == ~failed /\ controls # <<>> /\ Head(controls) = c

ReceivePause ==
    /\ ck = "recv" /\ Received("P")
    /\ controls' = Tail(controls)
    /\ ck' = "captures"
    /\ UNCHANGED <<gate, req, paused, writer, pending, parked, answers, failed, closed,
                   down, server>>

CheckpointBegin ==
    /\ ck = "captures" /\ WaitForCaptures(Conn)
    /\ UNCHANGED <<ck, req, paused, writer, reader, failed, closed, down, server>>

\* Mutant: requests pause while captures are still waited for.
PauseRequestsFirst ==
    /\ ck = "captures" /\ pc[Conn] # "idle"
    /\ paused' = TRUE
    /\ ck' = IF closed THEN "fail" ELSE "drain"
    /\ UNCHANGED <<gate, req, writer, reader, failed, closed, down, server>>
\* Mutant: requests are not paused.
PauseRequestsNever ==
    /\ ck = "captures" /\ pc[Conn] = "held"
    /\ ck' = IF closed THEN "fail" ELSE "drain"
    /\ UNCHANGED <<gate, req, paused, writer, reader, failed, closed, down, server>>
PauseRequests ==
    /\ ck = "captures" /\ pc[Conn] = "held"
    /\ paused' = TRUE
    /\ ck' = IF closed THEN "fail" ELSE "drain"
    /\ UNCHANGED <<gate, req, writer, reader, failed, closed, down, server>>

\* LUPINE_HANDOFF_DRAIN_REQUEST is not held back by the pause.
SendDrain ==
    /\ ck = "drain" /\ ~failed
    /\ out' = Append(out, "drain")
    /\ ck' = "drainwait"
    /\ UNCHANGED <<gate, req, paused, barrier, chunk, wpaused, wfailed, reader, failed,
                   closed, down, server>>

ReadDrained ==
    /\ ck = "drainwait" /\ Conn \in answers
    /\ answers' = answers \ {Conn}
    /\ ck' = "D"
    /\ UNCHANGED <<gate, req, paused, writer, controls, pending, parked, failed, closed,
                   down, server>>

SendD ==
    /\ ck = "D" /\ ~failed
    /\ out' = Append(out, "D")
    /\ ck' = "dwait"
    /\ UNCHANGED <<gate, req, paused, barrier, chunk, wpaused, wfailed, reader, failed,
                   closed, down, server>>

DrainOutput ==
    /\ ck = "dwait" /\ out = <<>> /\ chunk = <<>> /\ ~wfailed
    /\ ck' = "recvF"
    /\ UNCHANGED <<gate, req, paused, writer, reader, failed, closed, down, server>>

\* lupine_handoff_send_control(conn, 'A') queues the barrier ...
SendA ==
    /\ ck = "recvF" /\ Received("F")
    /\ controls' = Tail(controls)
    /\ out' = Append(out, "A")
    /\ barrier' = Len(out) + 1
    /\ ck' = "await"
    /\ UNCHANGED <<gate, req, paused, chunk, wpaused, wfailed, pending, parked, answers,
                   failed, closed, down, server>>

\* ... and waits until the writer has stopped behind it.
AwaitBarrier ==
    /\ ck = "await" /\ wpaused /\ chunk = <<>> /\ barrier = 0 /\ ~wfailed
    /\ ck' = "recvC"
    /\ UNCHANGED <<gate, req, paused, writer, reader, failed, closed, down, server>>

ReceiveCommit ==
    /\ ck = "recvC" /\ Received("C")
    /\ controls' = Tail(controls)
    /\ ck' = "park"
    /\ UNCHANGED <<gate, req, paused, writer, pending, parked, answers, failed, closed,
                   down, server>>

ReceiveAbort ==
    /\ ck \in {"recvF", "recvC"} /\ Received("X")
    /\ controls' = Tail(controls)
    /\ ck' = "resume"
    /\ UNCHANGED <<gate, req, paused, writer, pending, parked, answers, failed, closed,
                   down, server>>

ParkSocket ==
    /\ ck = "park"
    /\ (parked /\ chunk = <<>>) \/ failed
    /\ attached' = FALSE
    /\ ck' = IF failed THEN "fail" ELSE "dial"
    /\ UNCHANGED <<gate, req, paused, writer, reader, failed, closed, down, inbox, peer,
                   drained, broken, stray>>

\* A dial, its handshakes and lupine_handoff_resume_socket.  The restored
\* process goes on where the old one was frozen.
ResumeSocket ==
    /\ ck = "dial" /\ ~closed /\ ~failed
    /\ parked' = FALSE /\ pending' = FALSE /\ wpaused' = FALSE
    /\ attached' = TRUE /\ broken' = FALSE
    /\ peer' = "run" /\ drained' = FALSE
    /\ ck' = "resume"
    /\ UNCHANGED <<gate, req, paused, out, barrier, chunk, wfailed, controls, answers,
                   failed, closed, down, inbox, stray>>

\* Mutant: requests_paused is cleared without a broadcast.
ResumeRequestsSilent ==
    /\ ck = "resume"
    /\ paused' = FALSE
    /\ ck' = "resumed"
    /\ UNCHANGED <<gate, req, writer, reader, failed, closed, down, server>>
ResumeRequests ==
    /\ ck = "resume"
    /\ paused' = FALSE /\ WakeAll
    /\ ck' = "resumed"
    /\ UNCHANGED <<gate, writer, reader, failed, closed, down, server>>

\* The waits that a failed transport ends, and those that only a failed write
\* ends.
GivesUp ==
    \/ failed /\ ck \in {"drain", "drainwait", "D", "recvF", "recvC", "dial"}
    \/ wfailed /\ ck \in {"dwait", "await"}

HandoffFails ==
    /\ GivesUp
    /\ ck' = "fail"
    /\ UNCHANGED <<gate, req, paused, writer, reader, failed, closed, down, server>>

ShutDown ==
    /\ ck = "fail"
    /\ Shutdown
    /\ ck' = "failed"
    /\ UNCHANGED <<gate, paused, out, barrier, chunk, wfailed, reader, attached, stray>>

CheckpointEnd ==
    /\ ck \in {"resumed", "failed"}
    /\ ResumeCaptures(Conn)
    /\ ck' = IF ck = "resumed" THEN "recv" ELSE "ended"
    /\ UNCHANGED <<req, paused, writer, reader, failed, closed, down, server>>

LeaveLoop ==
    /\ ck = "recv" /\ failed
    /\ Shutdown
    /\ ck' = "ended"
    /\ UNCHANGED <<gate, paused, out, barrier, chunk, wfailed, reader, attached, stray>>

CheckpointThread ==
    \/ ReceivePause \/ CheckpointBegin \/ PauseRequests \/ SendDrain \/ ReadDrained
    \/ SendD \/ DrainOutput \/ SendA \/ AwaitBarrier \/ ReceiveCommit \/ ReceiveAbort
    \/ ParkSocket \/ ResumeSocket \/ ResumeRequests \/ HandoffFails \/ ShutDown
    \/ CheckpointEnd \/ LeaveLoop

-----------------------------------------------------------------------------
(* The server process and its supervisor.  The supervisor asks with "P",       *)
(* answers "D" with "F" or "X" and "A" with "C" or "X"; "X" and the arrival of *)
(* the new socket let the server go on.                                        *)

Send(f) == down' = Append(down, f)

\* Keeps room under MaxWaits for the handoff asked for.
Reserved ==
    IF "P" \in Range(down \o controls) \/ (ck = "captures" /\ pc[Conn] = "idle") THEN 1 ELSE 0

AskHandoff ==
    /\ peer = "run" /\ ~broken /\ waits + Reserved < MaxWaits
    /\ peer' = "asked" /\ Send("P")
    /\ UNCHANGED <<gate, ck, req, paused, writer, reader, failed, closed, inbox, drained,
                   broken, attached, stray>>

Serve(t) ==
    /\ t \in inbox /\ ~drained /\ ~broken
    /\ inbox' = inbox \ {t} /\ Send(t)
    /\ UNCHANGED <<gate, ck, req, paused, writer, reader, failed, closed, peer, drained,
                   broken, attached, stray>>

ServeDrain ==
    /\ Conn \in inbox /\ ~broken
    /\ inbox' = inbox \ {Conn} /\ Send(Conn)
    /\ drained' = TRUE
    /\ UNCHANGED <<gate, ck, req, paused, writer, reader, failed, closed, peer, broken,
                   attached, stray>>

\* Frames of the session itself come until the process is frozen.
Proceed ==
    /\ peer \in {"ready", "acked"} /\ ~broken
    /\ \E pings \in {<<>>, <<"ping">>} :
          down' = down \o (IF peer = "ready" THEN <<"F">> \o pings ELSE Append(pings, "C"))
    /\ peer' = IF peer = "ready" THEN "freezing" ELSE "moved"
    /\ UNCHANGED <<gate, ck, req, paused, writer, reader, failed, closed, inbox, drained,
                   broken, attached, stray>>

Abort ==
    /\ peer \in {"ready", "acked"} /\ ~broken
    /\ Send("X")
    /\ peer' = "run" /\ drained' = FALSE
    /\ UNCHANGED <<gate, ck, req, paused, writer, reader, failed, closed, inbox, broken,
                   attached, stray>>

Break ==
    /\ attached /\ ~broken
    /\ broken' = TRUE
    /\ UNCHANGED <<gate, ck, req, paused, writer, reader, failed, closed, down, inbox, peer,
                   drained, attached, stray>>

Peer == AskHandoff \/ (\E t \in Threads : Serve(t)) \/ ServeDrain \/ Proceed
        \/ Abort \/ Break

-----------------------------------------------------------------------------
(* The handoffs of other connections, as far as the gate sees them *)

Others == Checkpoints \ {Conn}

OtherBegins(k) ==
    /\ waits + Reserved < MaxWaits
    /\ WaitForCaptures(k)
    /\ UNCHANGED <<ck, req, paused, writer, reader, failed, closed, down, server>>
OtherEnds(k) ==
    /\ ResumeCaptures(k)
    /\ UNCHANGED <<ck, req, paused, writer, reader, failed, closed, down, server>>

GateWakes(k) ==
    /\ Claim(k) \/ Recheck(k)
    /\ UNCHANGED <<ck, req, paused, writer, reader, failed, closed, down, server>>
GateSpurious(t) ==
    /\ SpuriousWakeup(t)
    /\ UNCHANGED <<ck, req, paused, writer, reader, failed, closed, down, server>>

-----------------------------------------------------------------------------
Application(t) == Call(t) \/ Retry(t) \/ Return(t) \/ ReturnError(t)

HNext ==
    \/ \E t \in Threads : Application(t)
    \/ \E t \in Captures : CaptureBegin(t)
    \/ WriterTakes \/ WriterWrote \/ WriterFails
    \/ ReadFrame \/ ReaderFails
    \/ Close
    \/ CheckpointThread
    \/ Peer
    \/ \E k \in Others : OtherBegins(k) \/ OtherEnds(k)
    \/ \E k \in Checkpoints : GateWakes(k)
    \/ \E t \in Captures \cup Checkpoints : GateSpurious(t)

HSpec == HInit /\ [][HNext]_hvars

\* Threads that can run do, applications end their captures, the server serves
\* and the supervisor answers; nobody need call, hand off, close or fail.
HFairSpec ==
    /\ HSpec
    /\ \A t \in Callers : WF_hvars(Retry(t) \/ Return(t) \/ ReturnError(t))
    /\ \A t \in Captures : WF_hvars(Application(t) \/ (pc[t] = "lock" /\ CaptureBegin(t)))
    /\ WF_hvars(WriterTakes \/ WriterWrote \/ WriterFails)
    /\ WF_hvars(ReadFrame \/ ReaderFails)
    /\ WF_hvars(failed /\ Close)
    /\ WF_hvars(CheckpointThread \/ GateWakes(Conn))
    /\ \A t \in Threads : WF_hvars(Serve(t))
    /\ WF_hvars(ServeDrain \/ Proceed \/ Abort)
    /\ \A k \in Others : WF_hvars(GateWakes(k) \/ OtherEnds(k))

-----------------------------------------------------------------------------
(* Properties *)

\* No frame goes to the old socket once the barrier has been acknowledged, as
\* long as the transport has not failed (h2.cpp: "No more old-socket writes after
\* acknowledging the barrier").
BarrierIsLast == ~stray

\* When the process image is taken, no request of the application is half
\* sent: none is queued or in the writer's hands (h2_test.cpp: "new client
\* request entered while checkpointing").
NoRequestAtBarrier ==
    peer \in {"acked", "moved"} /\ ~failed =>
        Range(out \o chunk) \cap (Threads \cup {"drain", "D"}) = {}

\* While requests are paused for a handoff no capture is under way, so no
\* caller that must end one can be asleep.
PausedWithoutCaptures ==
    ck \in {"drain", "drainwait", "D", "dwait", "recvF", "await", "recvC", "park", "dial"}
        => UnderWay = {}

\* While the socket is replaced, neither the reader nor the writer uses it
\* (h2.cpp: "No I/O may use the old socket/TLS object while the checkpoint
\* thread replaces it").
SocketIdle == ~attached /\ ~failed => parked /\ wpaused /\ chunk = <<>>

\* The writer stopped behind "A", and an abort or a shutdown let it go on
\* before the checkpoint thread looked: its wait ends only if a write fails.
MissedPause == ck = "await" /\ barrier = 0 /\ ~wpaused

\* A capture whose connection failed is never reported as ended.
CaptureLeaked == failed /\ \E t \in Captures : pc[t] = "active"

\* A handoff ends, whether it commits, is aborted or the connection fails, and
\* closing the transport ends the checkpoint thread, which
\* lupine_client_transport_close joins, unless the pause was missed or a leaked
\* capture keeps the gate.
HandoffEnds ==
    closed \/ ck \notin {"recv", "ended"}
        ~> ck = "ended" \/ (ck = "recv" /\ ~closed) \/ MissedPause \/ CaptureLeaked

\* Every call returns, with its response or an error: neither a pause nor an
\* exchange of sockets loses a caller or a queued request, unless the pause
\* was missed.
CallsSurviveHandoff ==
    \A t \in Threads : req[t].at # "idle" ~> req[t].at = "idle" \/ MissedPause

\* The process-wide gate serves everyone: the checkpoint of another connection gets
\* it and a capture held back by a checkpoint is admitted, unless this connection
\* keeps the gate for one of the two reasons.
GateServesAll ==
    /\ \A k \in Others :
          pc[k] # "idle" ~> pc[k] = "held" \/ CaptureLeaked \/ MissedPause
    /\ \A t \in Captures :
          pc[t] \in {"asleep", "lock"} ~> pc[t] = "reserved" \/ CaptureLeaked \/ MissedPause

\* Without the exception: the client's requests resume after every handoff
\* (h2_test.cpp: "client request did not resume after checkpointing").
EveryCallReturns == \A t \in Threads : req[t].at # "idle" ~> req[t].at = "idle"

=============================================================================
