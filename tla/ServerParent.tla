---------------------------- MODULE ServerParent ----------------------------
(***************************************************************************)
(* The server's parent process (lupine_server_main, server.cpp): it        *)
(* accepts connections, sorts them by their first bytes, forks a child per *)
(* RPC connection, hands bulk connections to the child that owns their     *)
(* session, brokers exported file descriptors between children (ipc.cpp),  *)
(* reaps children and, on SIGTERM, stops them and waits for them.          *)
(* A child is named by the connection it serves.                           *)
(***************************************************************************)
EXTENDS Naturals, FiniteSets

CONSTANTS
    Conns,     \* the connections clients may open
    Brokering  \* whether children export and import file descriptors

ASSUME ConnsAssumption ==
    /\ IsFiniteSet(Conns)
    /\ {"none", "rpc", "eof", "register"} \cap Conns = {}
    /\ Brokering \in BOOLEAN

VARIABLES
    parent,    \* where the parent is in its loop
    term,      \* lupine_parent_termination_requested
    chld,      \* lupine_parent_child_exited
    conn,      \* per connection: how far the parent has taken it
    first,     \* its first bytes: "none", "rpc", "eof", or a bulk token's session
    child,     \* per connection: its child process
    sig,       \* per child: the SIGTERM the parent sent it
    request,   \* per child: its message in the broker socket
    tracked,   \* connection_children
    brokers,   \* children whose broker socket the parent polls
    routes,    \* children in bulk_routes
    ready,     \* what poll() reported and is not served yet
    registry,  \* the broker's table of registered descriptors
    learned    \* tokens whose registration was acknowledged to a client

sockets == <<conn, first>>
processes == <<child, sig, request>>
tables == <<tracked, brokers, routes>>
broker == <<registry, learned>>
vars == <<parent, term, chld, sockets, processes, tables, ready, broker>>

Nothing == [listen |-> FALSE, brokers |-> {}, pending |-> {}]

Init ==
    /\ parent = "check"
    /\ term = FALSE /\ chld = FALSE
    /\ conn = [c \in Conns |-> "new"]
    /\ first = [c \in Conns |-> "none"]
    /\ child = [c \in Conns |-> "none"]
    /\ sig = [c \in Conns |-> "none"]
    /\ request = [c \in Conns |-> "none"]
    /\ tracked = {} /\ brokers = {} /\ routes = {}
    /\ ready = Nothing
    /\ registry = {} /\ learned = {}

Conn(status) == {c \in Conns : conn[c] = status}
Live == {c \in Conns : child[c] \in {"start", "run", "broker"}}
Zombies == {c \in Conns : child[c] = "exited"}

-----------------------------------------------------------------------------
(* Clients *)

Connect(c) ==
    /\ parent \notin {"wait", "exit"}
    /\ conn[c] = "new"
    /\ conn' = [conn EXCEPT ![c] = "backlog"]
    /\ UNCHANGED <<parent, term, chld, first, processes, tables, ready, broker>>

\* A bulk preamble carries the token a running child handed out; the client may
\* also hang up first.
FirstBytes(c, bytes) ==
    /\ conn[c] \in {"backlog", "pending"}
    /\ first[c] = "none"
    /\ bytes \in {"rpc", "eof"} \cup {s \in Conns : child[s] \in {"run", "broker"}}
    /\ first' = [first EXCEPT ![c] = bytes]
    /\ UNCHANGED <<parent, term, chld, conn, processes, tables, ready, broker>>

-----------------------------------------------------------------------------
(* Signals set flags and interrupt a poll() that blocks *)

Interrupted == IF parent = "poll" THEN "check" ELSE parent

Sigterm ==
    /\ ~term /\ parent # "exit"
    /\ term' = TRUE
    /\ parent' = Interrupted
    /\ UNCHANGED <<chld, sockets, processes, tables, ready, broker>>

-----------------------------------------------------------------------------
(* Children *)

\* SIGTERM is blocked around fork() until the child has its own handler.
BlockedNever(c) == FALSE
Blocked(c) == child[c] = "start"

ChildStarts(c) ==
    /\ child[c] = "start"
    /\ child' = [child EXCEPT ![c] = "run"]
    /\ UNCHANGED <<parent, term, chld, sockets, sig, request, tables, ready, broker>>

\* The handler inherited from the parent would only set a flag of the parent's.
TakeSignal(c) ==
    /\ c \in Live
    /\ sig[c] = "sent"
    /\ ~Blocked(c)
    /\ sig' = [sig EXCEPT ![c] = IF child[c] = "start" THEN "lost" ELSE "taken"]
    /\ UNCHANGED <<parent, term, chld, sockets, child, request, tables, ready, broker>>

\* Export (register a descriptor) or import (get the one behind a token).
BrokerSend(c, message) ==
    /\ Brokering
    /\ child[c] = "run"
    /\ message \in {"register"} \cup learned
    /\ child' = [child EXCEPT ![c] = "broker"]
    /\ request' = [request EXCEPT ![c] = message]
    /\ UNCHANGED <<parent, term, chld, sockets, sig, tables, ready, broker>>

Exits(c) ==
    /\ child' = [child EXCEPT ![c] = "exited"]
    /\ chld' = TRUE
    /\ parent' = Interrupted
    /\ UNCHANGED <<term, sockets, sig, request, tables, ready, broker>>

\* The client left or SIGTERM was taken: ServerChild shows the child gets here.
ChildExits(c) == child[c] \in {"start", "run"} /\ Exits(c)

\* A child may die in a handler that waits for the broker.
ChildCrashes(c) == child[c] = "broker" /\ Exits(c)

-----------------------------------------------------------------------------
(* The parent's loop *)

\* One waitpid() per SIGCHLD, although signals coalesce.
ReapedOne == IF Zombies = {} THEN {} ELSE {CHOOSE c \in Zombies : TRUE}
Reaped == Zombies

Reap ==
    /\ child' = [c \in Conns |-> IF c \in Reaped THEN "reaped" ELSE child[c]]
    /\ tracked' = tracked \ Reaped
    /\ routes' = routes \ Reaped
    /\ chld' = FALSE

Check ==
    /\ parent = "check"
    /\ parent' = IF term THEN "leave" ELSE "prepare"
    /\ IF chld THEN Reap ELSE UNCHANGED <<child, tracked, routes, chld>>
    /\ UNCHANGED <<term, sockets, sig, request, brokers, ready, broker>>

\* The flags have been read; a signal that comes now interrupts nothing.
EnterPoll ==
    /\ parent = "prepare"
    /\ parent' = "poll"
    /\ UNCHANGED <<term, chld, sockets, processes, tables, ready, broker>>

Events ==
    [listen |-> Conn("backlog") # {},
     brokers |-> {c \in brokers : request[c] # "none" \/ c \notin Live},
     pending |-> {c \in Conn("pending") : first[c] # "none"}]

Poll ==
    /\ parent = "poll"
    /\ Events # Nothing
    /\ parent' = "serve"
    /\ ready' = Events
    /\ UNCHANGED <<term, chld, sockets, processes, tables, broker>>

\* The registrations of a child go when its socket hangs up.
BrokerHandleForgets(c) ==
    /\ registry' = CASE request[c] = "register" -> registry \cup {c}
                     [] c \notin Live /\ request[c] = "none" -> registry \ {c}
                     [] OTHER -> registry
    /\ learned' = IF request[c] = "register" /\ c \in Live
                  THEN learned \cup {c} ELSE learned
    /\ request' = [request EXCEPT ![c] = "none"]
    /\ child' = [child EXCEPT ![c] = IF @ = "broker" THEN "run" ELSE @]
    /\ brokers' = IF c \in Live THEN brokers ELSE brokers \ {c}
\* lupine_ipc_broker_parent_handle(): the message is handled even when its
\* sender is gone; then the reply fails and the socket is dropped.
BrokerHandle(c) ==
    /\ registry' = IF request[c] = "register" THEN registry \cup {c} ELSE registry
    /\ learned' = IF request[c] = "register" /\ c \in Live
                  THEN learned \cup {c} ELSE learned
    /\ request' = [request EXCEPT ![c] = "none"]
    /\ child' = [child EXCEPT ![c] = IF @ = "broker" THEN "run" ELSE @]
    /\ brokers' = IF c \in Live THEN brokers ELSE brokers \ {c}

ServeBroker(c) ==
    /\ parent = "serve"
    /\ c \in ready.brokers
    /\ BrokerHandle(c)
    /\ ready' = [ready EXCEPT !.brokers = @ \ {c}]
    /\ UNCHANGED <<parent, term, chld, sockets, sig, tracked, routes>>

\* spawn_child(): the parent's side of fork().
Spawn(c) ==
    /\ child' = [child EXCEPT ![c] = "start"]
    /\ conn' = [conn EXCEPT ![c] = "served"]
    /\ tracked' = tracked \cup {c}
    /\ brokers' = brokers \cup {c}
    /\ routes' = routes \cup {c}

\* A socketpair, the token or fork() fails.
SpawnFails(c) ==
    /\ conn' = [conn EXCEPT ![c] = "closed"]
    /\ UNCHANGED <<child, tables>>

\* classify(): a bulk preamble goes to its session's child, or nowhere.
Route(c) ==
    /\ conn' = [conn EXCEPT ![c] = IF first[c] \in routes THEN "routed" ELSE "closed"]
    /\ UNCHANGED <<child, tables>>

ServePending(c) ==
    /\ parent = "serve"
    /\ ready.brokers = {}
    /\ c \in ready.pending
    /\ IF first[c] = "rpc" THEN Spawn(c) \/ SpawnFails(c) ELSE Route(c)
    /\ ready' = [ready EXCEPT !.pending = @ \ {c}]
    /\ UNCHANGED <<parent, term, chld, first, sig, request, broker>>

Accept ==
    /\ parent = "serve"
    /\ ready.brokers = {} /\ ready.pending = {}
    /\ ready' = Nothing
    /\ IF ~ready.listen
       THEN parent' = "check" /\ UNCHANGED conn
       ELSE /\ parent' = IF term THEN "leave" ELSE "check"
            /\ \E c \in Conn("backlog") :
                  conn' = [conn EXCEPT ![c] = IF term THEN "closed" ELSE "pending"]
    /\ UNCHANGED <<term, chld, first, processes, tables, broker>>

-----------------------------------------------------------------------------
(* Shutdown *)

\* Children that have exited are reaped, the others are sent SIGTERM.
Leave ==
    /\ parent = "leave"
    /\ Reap
    /\ sig' = [c \in Conns |-> IF c \in tracked' THEN "sent" ELSE sig[c]]
    /\ conn' = [c \in Conns |-> IF conn[c] = "backlog" THEN "closed" ELSE conn[c]]
    /\ parent' = "wait"
    /\ UNCHANGED <<term, first, request, brokers, ready, broker>>

\* The wait ends with the first child.
WaitForOne ==
    /\ parent = "wait"
    /\ tracked = {} \/ Zombies # {}
    /\ tracked' = tracked \ Zombies
    /\ child' = [c \in Conns |-> IF c \in Zombies THEN "reaped" ELSE child[c]]
    /\ parent' = "exit"
    /\ UNCHANGED <<term, chld, sockets, sig, request, brokers, routes, ready, broker>>
WaitForChildren ==
    /\ parent = "wait"
    /\ IF tracked = {}
       THEN parent' = "exit" /\ UNCHANGED <<tracked, child>>
       ELSE \E c \in Zombies :
               /\ tracked' = tracked \ {c}
               /\ child' = [child EXCEPT ![c] = "reaped"]
               /\ UNCHANGED parent
    /\ UNCHANGED <<term, chld, sockets, sig, request, brokers, routes, ready, broker>>

-----------------------------------------------------------------------------
ParentStep ==
    \/ Check \/ EnterPoll \/ Poll \/ Accept \/ Leave \/ WaitForChildren
    \/ \E c \in Conns : ServeBroker(c) \/ ServePending(c)
ChildStep(c) == ChildStarts(c) \/ TakeSignal(c) \/ (sig[c] = "taken" /\ ChildExits(c))

Next ==
    \/ ParentStep
    \/ Sigterm
    \/ \E c \in Conns :
          \/ Connect(c)
          \/ \E bytes \in {"rpc", "eof"} \cup Conns : FirstBytes(c, bytes)
          \/ ChildStarts(c) \/ TakeSignal(c) \/ ChildExits(c) \/ ChildCrashes(c)
          \/ \E message \in {"register"} \cup Conns : BrokerSend(c, message)

Spec == Init /\ [][Next]_vars

\* The parent and its children run; clients owe nothing.
FairSpec ==
    /\ Spec
    /\ WF_vars(ParentStep)
    /\ \A c \in Conns : WF_vars(ChildStep(c))

-----------------------------------------------------------------------------
(* Properties *)

\* Every variable has its type; a bulk route leads to a child the parent tracks.
TypeOK ==
    /\ parent \in {"check", "prepare", "poll", "serve", "leave", "wait", "exit"}
    /\ {term, chld} \subseteq BOOLEAN
    /\ conn \in [Conns -> {"new", "backlog", "pending", "served", "routed", "closed"}]
    /\ first \in [Conns -> {"none", "rpc", "eof"} \cup Conns]
    /\ child \in [Conns -> {"none", "start", "run", "broker", "exited", "reaped"}]
    /\ sig \in [Conns -> {"none", "sent", "taken", "lost"}]
    /\ request \in [Conns -> {"none", "register"} \cup Conns]
    /\ ready \in [listen : BOOLEAN, brokers : SUBSET brokers,
                  pending : SUBSET Conn("pending")]
    /\ registry \subseteq Conns /\ learned \subseteq Conns
    /\ brokers \subseteq Conns
    /\ parent \notin {"wait", "exit"} => routes = tracked

\* The parent never exits before its children, and what it tracks are exactly
\* the children it has forked and not waited for, so none is left a zombie by
\* coalesced SIGCHLDs and none escapes the SIGTERM round.
ChildrenAccounted ==
    /\ tracked = Live \cup Zombies
    /\ parent = "exit" => tracked = {}

\* Once poll() blocks with no SIGCHLD outstanding there is nobody to reap.
NoForgottenZombie == parent = "poll" /\ ~chld => Zombies = {}

\* A token acknowledged to a client can be redeemed from any connection, also
\* after the exporting child has gone (ipc.h: "so an importing client can redeem
\* the token from any connection").
TokensRedeemable ==
    [][\A c \in Conns : request[c] \in Conns /\ request'[c] = "none"
                        => request[c] \in registry]_vars

\* Shutdown ends: every child takes the SIGTERM the parent sends it, however
\* recently it was forked, and is waited for.
ShutdownCompletes == parent = "wait" ~> parent = "exit"

\* The same as long as no child is left waiting for the broker, which the parent
\* no longer serves.
ShutdownServed ==
    parent = "wait" ~> parent = "exit" \/ \E c \in Conns : child[c] = "broker"

\* SIGTERM stops the server (repository README: "`SIGTERM` stops the server from
\* accepting connections, asks every connection child to finish its in-flight
\* CUDA calls, and waits for those children to exit").
TermStopsServer == term ~> parent = "exit"

=============================================================================
