------------------------------ MODULE RpcCalls ------------------------------
(***************************************************************************)
(* One lane of a connection: a client thread that calls stubs, the two     *)
(* directions of its HTTP/2 stream, and the server worker that serves it.  *)
(* The stubs and handlers are tables; this module runs them.  Writes are   *)
(* gathered and handed over whole by rpc_write_end; a reader takes what it *)
(* wants item by item and can fail between any two of them.                *)
(*                                                                         *)
(* The order of asynchronous requests across lanes is AsyncOrder's; here   *)
(* each lane's requests are served in the order sent.                      *)
(***************************************************************************)
EXTENDS CudaStubs, CudaHandlers, HipStubs, HipHandlers,
        NcclStubs, NcclHandlers, NvmlStubs, NvmlHandlers

CONSTANTS Ops,        \* the operations called
          Followers,  \* the operations called while the lane still holds a message
          Ids         \* request ids; a few are enough to tell neighbours apart

VARIABLES
  client,   \* the calling thread: pc, operation, request id, parameters, items left
  server,   \* the lane's worker: pc, operation, request id, parameters, items left
  up, down, \* units sent and not yet read
  open,     \* the connection is usable
  why,      \* what closed it first
  unread    \* a stub returned in the middle of a response

vars == <<client, server, up, down, open, why, unread>>

\* The client's stubs, and the server's registry of handlers, by operation.
Stubs == CudaStubsTable @@ HipStubsTable @@ NcclStubsTable @@ NvmlStubsTable
handlers == CudaHandlersTable @@ HipHandlersTable @@ NcclHandlersTable @@ NvmlHandlersTable

ASSUME OpsAssumption == Followers \subseteq Ops /\ Ops \subseteq DOMAIN Stubs
ASSUME IdsAssumption == Cardinality(Ids) > 1

Idle(id) == [pc |-> "idle", op |-> "", id |-> id, env |-> <<>>, todo |-> <<>>]

\* A message starts with its request id and operation; -1 marks a response.
Header(op, id) == [n |-> "header", t |-> op, c |-> 1, v |-> id]
Response == "-1"

NextId(id) == CHOOSE i \in Ids : i # id

Init == /\ client = Idle(CHOOSE i \in Ids : TRUE)
        /\ server = Idle(0)
        /\ up = <<>>
        /\ down = <<>>
        /\ open = TRUE
        /\ why = ""
        /\ unread = FALSE

\* rpc_mark_connection_closed and the shutdown of the transport.
\* Mutant: the connection is reported closed and stays usable.
CloseReportOnly(reason) == /\ open' = open
                           /\ why' = reason
Close(reason) == /\ open' = FALSE
                 /\ why' = IF open THEN reason ELSE why

\* Whether a call is waited for is settled by the stub, and for the NCCL
\* collectives by the ticket that is sent.
Waits(mode, env) == mode = "wait" \/ (mode = "either" /\ Value(env, "async_sequence") = NoTicket)

(***************************************************************************)
(* The client.                                                             *)
(***************************************************************************)
\* Requests sent and not yet dispatched; MaxQueued bounds them for followers.
MaxQueued == 2
Queued == Len(SelectSeq(up, LAMBDA u : u.n = "header"))
Quiet == up = <<>> /\ down = <<>> /\ server.pc = "idle"

\* rpc_write_start_request, the stub's writes and rpc_write_end: the request
\* is queued whole.  A stub that posts returns here.
StartCall(op) ==
  /\ client.pc = "idle" /\ open
  /\ Quiet \/ (op \in Followers /\ Queued < MaxQueued)
  /\ \E args \in Stubs[op].args :
       LET id == NextId(client.id)
       IN /\ up' = up \o <<Header(op, id)>> \o Units(Stubs[op].request, args)
          /\ client' = IF Waits(Stubs[op].mode, args)
                         THEN [pc |-> "waiting", op |-> op, id |-> id, env |-> args,
                               todo |-> Stubs[op].response]
                         ELSE Idle(id)
  /\ UNCHANGED <<server, down, open, why, unread>>

\* rpc_write_start_request on a closed connection: the stub returns its error.
RefuseCall == /\ client.pc = "idle" /\ ~open
              /\ UNCHANGED vars

\* rpc_read_start: the next header must be that of the response waited for.
ReadStart ==
  /\ client.pc = "waiting" /\ down # <<>>
  /\ down' = Tail(down)
  /\ IF Head(down).n = "header" /\ Head(down).t = Response /\ Head(down).v = client.id
       THEN /\ client' = [client EXCEPT !.pc = "reading"]
            /\ UNCHANGED <<open, why>>
       ELSE /\ client' = Idle(client.id)
            /\ Close("header")
  /\ UNCHANGED <<server, up, unread>>

\* One rpc_read of the stub.
ClientRead ==
  /\ client.pc = "reading" /\ client.todo # <<>>
  /\ LET it == Head(client.todo)
         n == Count(it, client.env)
     IN /\ it.kind = "field"
        /\ IF n = 0
             THEN /\ client' = [client EXCEPT !.todo = Tail(@)]
                  /\ UNCHANGED down
             ELSE /\ down # <<>>
                  /\ down' = Tail(down)
                  /\ client' = [client EXCEPT !.todo = Tail(@), !.env = Bind(@, it.n, Head(down).v)]
  /\ UNCHANGED <<server, up, open, why, unread>>

\* The stub's own test of what it has read.  An array that an NVML stub has no
\* room for closes the transport.
Expected(it, env) ==
  \/ \E p \in it.when : Value(env, p) = 0
  \/ /\ \A p \in it.unless : Value(env, p) = 0
     /\ \A c \in it.count : Value(env, it.n) <= Value(env, c)
ClientCheck ==
  /\ client.pc = "reading" /\ client.todo # <<>>
  /\ LET it == Head(client.todo)
         n == Count(it, client.env)
     IN /\ it.kind \in {"alloc", "limit", "expect"}
        /\ it.kind = "limit" => n <= MaxCount
        /\ IF it.kind = "expect" /\ ~Expected(it, client.env)
             THEN client' = Idle(client.id) /\ Close("data")
             ELSE client' = [client EXCEPT !.todo = Tail(@)] /\ UNCHANGED <<open, why>>
  /\ UNCHANGED <<server, up, down, unread>>

\* A failed test: a stub without memory for a result, or with a string over
\* its limit, returns and leaves the rest of the response unread.
GiveUp ==
  /\ client.pc = "reading" /\ client.todo # <<>>
  /\ LET it == Head(client.todo)
         n == Count(it, client.env)
     IN (it.kind = "alloc" /\ n > 0) \/ (it.kind = "limit" /\ n > MaxCount)
  /\ client' = Idle(client.id)
  /\ unread' = (down # <<>>)
  /\ UNCHANGED <<server, up, down, open, why>>

\* rpc_read_end
ReadEnd == /\ client.pc = "reading" /\ client.todo = <<>>
           /\ client' = Idle(client.id)
           /\ UNCHANGED <<server, up, down, open, why, unread>>

\* A read on a closed connection fails once the rest of the response is lost.
ClientReadFails == /\ client.pc # "idle" /\ ~open
                   /\ client' = Idle(client.id)
                   /\ down' = <<>>
                   /\ UNCHANGED <<server, up, open, why, unread>>

(***************************************************************************)
(* The server.                                                             *)
(***************************************************************************)
\* rpc_dispatch and the lookup of rpc_server_dispatch.
Dispatch ==
  /\ server.pc = "idle" /\ open /\ up # <<>>
  /\ up' = Tail(up)
  /\ LET h == Head(up)
     IN IF h.n = "header" /\ h.v \in Ids /\ h.t \in DOMAIN handlers
          THEN /\ server' = [pc |-> "reading", op |-> h.t, id |-> h.v, env |-> <<>>,
                             todo |-> handlers[h.t].request]
               /\ UNCHANGED <<open, why>>
          ELSE /\ UNCHANGED server
               /\ Close("header")
  /\ UNCHANGED <<client, down, unread>>

\* One rpc_read of the handler.
ServerRead ==
  /\ server.pc = "reading" /\ server.todo # <<>>
  /\ LET it == Head(server.todo)
         n == Count(it, server.env)
     IN /\ it.kind = "field"
        /\ IF n = 0
             THEN /\ server' = [server EXCEPT !.todo = Tail(@)]
                  /\ UNCHANGED up
             ELSE /\ up # <<>>
                  /\ up' = Tail(up)
                  /\ server' = [server EXCEPT !.todo = Tail(@), !.env = Bind(@, it.n, Head(up).v)]
  /\ UNCHANGED <<client, down, open, why, unread>>

\* A test of the handler, passed.
ServerCheck ==
  /\ server.pc = "reading" /\ server.todo # <<>>
  /\ LET it == Head(server.todo)
     IN it.kind = "alloc" \/ (it.kind = "check" /\ Value(server.env, it.n) >= 0)
  /\ server' = [server EXCEPT !.todo = Tail(@)]
  /\ UNCHANGED <<client, up, down, open, why, unread>>

\* goto ERROR_0: the handler returns -1 and the lane shuts the connection down.
HandlerFails ==
  /\ server.pc = "reading" /\ server.todo # <<>>
  /\ LET it == Head(server.todo)
     IN \/ it.kind = "alloc" /\ Count(it, server.env) > 0 /\ Close("memory")
        \/ it.kind = "check" /\ Value(server.env, it.n) < 0 /\ Close("argument")
  /\ server' = Idle(0)
  /\ UNCHANGED <<client, up, down, unread>>

\* rpc_read_end, the driver call and the response.
Serve ==
  /\ server.pc = "reading" /\ server.todo = <<>>
  /\ LET h == handlers[server.op]
     IN IF Waits(h.mode, server.env)
          THEN \E outs \in h.outs :
                 LET env == Settle(h.response, outs @@ server.env)
                 IN down' = IF open
                              THEN down \o <<Header(Response, server.id)>> \o Units(h.response, env)
                              ELSE down
          ELSE UNCHANGED down
  /\ server' = Idle(0)
  /\ UNCHANGED <<client, up, open, why, unread>>

\* A read on a closed connection fails, and with it the handler.
ServerReadFails == /\ server.pc # "idle" /\ ~open
                   /\ server' = Idle(0)
                   /\ up' = <<>>
                   /\ UNCHANGED <<client, down, open, why, unread>>

\* The peer, the network or a checkpoint that failed closes the connection.
TransportFails == /\ open
                  /\ Close("transport")
                  /\ UNCHANGED <<client, server, up, down, unread>>

ClientStep == ReadStart \/ ClientRead \/ ClientCheck \/ GiveUp \/ ReadEnd \/ ClientReadFails
ServerStep == Dispatch \/ ServerRead \/ ServerCheck \/ HandlerFails \/ Serve \/ ServerReadFails

Next == \/ \E op \in Ops : StartCall(op)
        \/ RefuseCall
        \/ ClientStep
        \/ ServerStep
        \/ TransportFails

Fairness == WF_vars(ClientStep) /\ WF_vars(ServerStep)
Spec == Init /\ [][Next]_vars /\ Fairness

-----------------------------------------------------------------------------
\* The variables keep their shape: a thread is idle or at a known place of a
\* known operation, and the streams hold units.
TypeOK ==
  /\ client.pc \in {"idle", "waiting", "reading"} /\ client.id \in Ids
  /\ client.pc # "idle" => client.op \in Ops
  /\ server.pc \in {"idle", "reading"}
  /\ server.pc # "idle" => server.op \in DOMAIN handlers /\ server.id \in Ids
  /\ \A q \in {up, down} : \A i \in DOMAIN q : DOMAIN q[i] = {"n", "t", "c", "v"}
  /\ open \in BOOLEAN /\ unread \in BOOLEAN
  /\ open <=> why = ""

\* Every rpc_read of a stub or handler meets the bytes the peer wrote for that
\* very parameter: same field, same type, same number of elements, whatever
\* the flags, counts and lengths of the call and the results of the driver.
Meets(reader, stream) ==
  reader.pc = "reading" /\ reader.todo # <<>> /\ Head(reader.todo).kind = "field" =>
    LET it == Head(reader.todo)
        n == Count(it, reader.env)
    IN n > 0 /\ stream # <<>> =>
         Head(stream).n = it.n /\ Head(stream).t = it.t /\ Head(stream).c = n
FieldsLineUp == Meets(client, down) /\ Meets(server, up)

\* No side ever closes the connection over what its peer legitimately sent.  A
\* header is misread only behind a response some stub left unread, and the
\* data an NVML handler announces always passes the stub's tests.
NeverMisread == why # "data" /\ (why = "header" => unread)

\* Nothing is left over: while the connection is open a lane whose threads
\* are between messages holds whole messages only, and no answer is waiting
\* for a thread that does not expect one (unless a stub left it unread).
NothingLeftOver ==
  open => /\ server.pc = "idle" /\ up # <<>> => Head(up).n = "header"
          /\ client.pc = "idle" /\ down # <<>> => unread

\* Every call returns and every handler runs to its end, whatever fails: no stub
\* waits for a field that is not sent, for an answer to a posted request or on a
\* closed connection, and no handler for a field the stub does not send.
CallReturns ==
  /\ client.pc # "idle" ~> client.pc = "idle"
  /\ server.pc # "idle" ~> server.pc = "idle"
=============================================================================
