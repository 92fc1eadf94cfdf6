-------------------------- MODULE ServerParentProofs --------------------------
(***************************************************************************)
(* The parent's tables are right for any number of connections.            *)
(***************************************************************************)
EXTENDS ServerParent, TLAPS

\* Steps are tried with Zenon first, then with SMT.
USE ZenonT(30), SMTT(30)

Statuses == {"new", "backlog", "pending", "served", "routed", "closed"}
ChildPcs == {"none", "start", "run", "broker", "exited", "reaped"}

\* TypeOK without the tables, and the part about the tables.
FlagTypes ==
    /\ parent \in {"check", "prepare", "poll", "serve", "leave", "wait", "exit"}
    /\ term \in BOOLEAN /\ chld \in BOOLEAN
ProcessTypes ==
    /\ conn \in [Conns -> Statuses]
    /\ first \in [Conns -> {"none", "rpc", "eof"} \cup Conns]
    /\ child \in [Conns -> ChildPcs]
    /\ sig \in [Conns -> {"none", "sent", "taken", "lost"}]
    /\ request \in [Conns -> {"none", "register"} \cup Conns]
ReadyTypes ==
    /\ ready \in [listen : BOOLEAN, brokers : SUBSET brokers,
                  pending : SUBSET Conn("pending")]
    /\ brokers \subseteq Conns
BrokerTypes == registry \subseteq Conns /\ learned \subseteq Conns
RoutesTracked == parent \notin {"wait", "exit"} => routes = tracked

\* A SIGCHLD is outstanding while a child that exited has not been waited for.
ZombiesSignalled == ~chld => Zombies = {}

\* Whoever asks for a token asks for one in the table.
TokensKnown ==
    /\ learned \subseteq registry
    /\ \A c \in Conns : request[c] \in Conns => request[c] \in registry

ParentInv ==
    /\ FlagTypes /\ ProcessTypes /\ ReadyTypes /\ BrokerTypes /\ RoutesTracked
    /\ ChildrenAccounted /\ ZombiesSignalled /\ TokensKnown

LEMMA TypesSplit ==
    TypeOK <=> FlagTypes /\ ProcessTypes /\ ReadyTypes /\ BrokerTypes /\ RoutesTracked
  BY DEF TypeOK, FlagTypes, ProcessTypes, ReadyTypes, BrokerTypes, RoutesTracked,
         Statuses, ChildPcs

\* Nothing of the parent's bookkeeping changes in a step that leaves these alone.
LEMMA TablesSame ==
    ASSUME ParentInv, FlagTypes', ProcessTypes',
           UNCHANGED <<tables, ready, broker, child, request, chld>>,
           Conn("pending")' = Conn("pending"),
           parent' \in {"wait", "exit"} <=> parent \in {"wait", "exit"},
           parent' = "exit" => tracked = {}
    PROVE  ParentInv'
<1>1. ReadyTypes' /\ BrokerTypes' /\ RoutesTracked'
  BY DEF ParentInv, ReadyTypes, BrokerTypes, RoutesTracked, tables, broker
<1>2. Live' = Live /\ Zombies' = Zombies
  BY DEF Live, Zombies
<1>3. ChildrenAccounted' /\ ZombiesSignalled'
  BY <1>2 DEF ParentInv, ChildrenAccounted, ZombiesSignalled, tables
<1>4. TokensKnown'
  BY DEF ParentInv, TokensKnown, broker
<1> QED
  BY <1>1, <1>3, <1>4 DEF ParentInv

-----------------------------------------------------------------------------
(* Clients, signals *)

LEMMA ConnectInv ==
    ASSUME ParentInv, NEW c \in Conns, Connect(c)
    PROVE  ParentInv'
<1>1. FlagTypes' /\ ProcessTypes'
  BY DEF ParentInv, FlagTypes, ProcessTypes, Statuses, Connect, processes
<1>2. Conn("pending")' = Conn("pending")
  BY DEF ParentInv, ProcessTypes, Connect, Conn
<1> QED
  BY <1>1, <1>2, TablesSame DEF Connect, processes, ParentInv, ChildrenAccounted

LEMMA FirstBytesInv ==
    ASSUME ParentInv, NEW c \in Conns, NEW bytes \in {"rpc", "eof"} \cup Conns,
           FirstBytes(c, bytes)
    PROVE  ParentInv'
<1>1. FlagTypes' /\ ProcessTypes'
  BY DEF ParentInv, FlagTypes, ProcessTypes, FirstBytes, processes
<1>2. Conn("pending")' = Conn("pending")
  BY DEF FirstBytes, Conn
<1> QED
  BY <1>1, <1>2, TablesSame DEF FirstBytes, processes, ParentInv, ChildrenAccounted

LEMMA SigtermInv ==
    ASSUME ParentInv, Sigterm
    PROVE  ParentInv'
<1>1. FlagTypes' /\ ProcessTypes'
  BY DEF ParentInv, FlagTypes, ProcessTypes, Sigterm, Interrupted, processes, sockets
<1>2. Conn("pending")' = Conn("pending")
  BY DEF Sigterm, Conn, sockets
<1>3. /\ parent' \in {"wait", "exit"} <=> parent \in {"wait", "exit"}
      /\ parent' # "exit"
  BY DEF Sigterm, Interrupted
<1> QED
  BY <1>1, <1>2, <1>3, TablesSame DEF Sigterm, processes

LEMMA TakeSignalInv ==
    ASSUME ParentInv, NEW c \in Conns, TakeSignal(c)
    PROVE  ParentInv'
<1>1. FlagTypes' /\ ProcessTypes'
  BY DEF ParentInv, FlagTypes, ProcessTypes, TakeSignal, sockets
<1>2. Conn("pending")' = Conn("pending")
  BY DEF TakeSignal, Conn, sockets
<1> QED
  BY <1>1, <1>2, TablesSame DEF TakeSignal, ParentInv, ChildrenAccounted

LEMMA PollInv ==
    ASSUME ParentInv, EnterPoll \/ Poll
    PROVE  ParentInv'
<1>1. FlagTypes' /\ ProcessTypes'
  BY DEF ParentInv, FlagTypes, ProcessTypes, EnterPoll, Poll, processes, sockets
<1>2. Live' = Live /\ Zombies' = Zombies /\ Conn("pending")' = Conn("pending")
  BY DEF EnterPoll, Poll, Live, Zombies, Conn, processes, sockets
<1>3. Events \in [listen : BOOLEAN, brokers : SUBSET brokers, pending : SUBSET Conn("pending")]
  BY DEF Events
<1>4. ReadyTypes'
  BY <1>2, <1>3 DEF ParentInv, ReadyTypes, EnterPoll, Poll, tables
<1>5. BrokerTypes' /\ RoutesTracked'
  BY DEF ParentInv, BrokerTypes, RoutesTracked, EnterPoll, Poll, tables, broker
<1>6. ChildrenAccounted' /\ ZombiesSignalled'
  BY <1>2 DEF ParentInv, ChildrenAccounted, ZombiesSignalled, EnterPoll, Poll, tables
<1>7. TokensKnown'
  BY DEF ParentInv, TokensKnown, EnterPoll, Poll, broker, processes
<1> QED
  BY <1>1, <1>4, <1>5, <1>6, <1>7 DEF ParentInv

-----------------------------------------------------------------------------
(* Children *)

\* A step that moves one child and keeps it among the forked ones.
LEMMA ChildMoves ==
    ASSUME ParentInv, NEW c \in Conns, NEW there \in ChildPcs,
           child' = [child EXCEPT ![c] = there]
    PROVE  /\ Live' = IF there \in {"start", "run", "broker"} THEN Live \cup {c} ELSE Live \ {c}
           /\ Zombies' = IF there = "exited" THEN Zombies \cup {c} ELSE Zombies \ {c}
           /\ child' \in [Conns -> ChildPcs]
<1>1. child \in [Conns -> ChildPcs]
  BY DEF ParentInv, ProcessTypes
<1>2. child' \in [Conns -> ChildPcs] /\ child'[c] = there
      /\ \A d \in Conns : d # c => child'[d] = child[d]
  BY <1>1
<1>3. Live' = IF there \in {"start", "run", "broker"} THEN Live \cup {c} ELSE Live \ {c}
  BY <1>2 DEF Live
<1>4. Zombies' = IF there = "exited" THEN Zombies \cup {c} ELSE Zombies \ {c}
  BY <1>2 DEF Zombies
<1> QED
  BY <1>2, <1>3, <1>4

LEMMA ChildStartsInv ==
    ASSUME ParentInv, NEW c \in Conns, ChildStarts(c)
    PROVE  ParentInv'
<1>1. /\ "run" \in ChildPcs /\ child' = [child EXCEPT ![c] = "run"]
      /\ c \in Live /\ c \notin Zombies
  BY DEF ChildStarts, ChildPcs, Live, Zombies
<1>2. Live' = Live /\ Zombies' = Zombies /\ child' \in [Conns -> ChildPcs]
  <2>1. Live' = Live \cup {c} /\ Zombies' = Zombies \ {c} /\ child' \in [Conns -> ChildPcs]
    BY <1>1, ChildMoves
  <2> QED
    BY <1>1, <2>1
<1>3. FlagTypes' /\ ProcessTypes'
  BY <1>2 DEF ParentInv, FlagTypes, ProcessTypes, ChildStarts, sockets
<1>4. ReadyTypes' /\ BrokerTypes' /\ RoutesTracked'
  BY DEF ParentInv, ReadyTypes, BrokerTypes, RoutesTracked, ChildStarts, tables, broker,
         sockets, Conn
<1>5. ChildrenAccounted' /\ ZombiesSignalled'
  BY <1>2 DEF ParentInv, ChildrenAccounted, ZombiesSignalled, ChildStarts, tables
<1>6. TokensKnown'
  BY DEF ParentInv, TokensKnown, ChildStarts, broker
<1> QED
  BY <1>3, <1>4, <1>5, <1>6 DEF ParentInv

LEMMA BrokerSendInv ==
    ASSUME ParentInv, NEW c \in Conns, NEW message \in {"register"} \cup Conns,
           BrokerSend(c, message)
    PROVE  ParentInv'
<1>1. /\ "broker" \in ChildPcs /\ child' = [child EXCEPT ![c] = "broker"]
      /\ c \in Live /\ c \notin Zombies
  BY DEF BrokerSend, ChildPcs, Live, Zombies
<1>2. Live' = Live /\ Zombies' = Zombies /\ child' \in [Conns -> ChildPcs]
  <2>1. Live' = Live \cup {c} /\ Zombies' = Zombies \ {c} /\ child' \in [Conns -> ChildPcs]
    BY <1>1, ChildMoves
  <2> QED
    BY <1>1, <2>1
<1>3. FlagTypes' /\ ProcessTypes'
  BY <1>2 DEF ParentInv, FlagTypes, ProcessTypes, BrokerSend, sockets
<1>4. ReadyTypes' /\ BrokerTypes' /\ RoutesTracked'
  BY DEF ParentInv, ReadyTypes, BrokerTypes, RoutesTracked, BrokerSend, tables, broker,
         sockets, Conn
<1>5. ChildrenAccounted' /\ ZombiesSignalled'
  BY <1>2 DEF ParentInv, ChildrenAccounted, ZombiesSignalled, BrokerSend, tables
<1>6. TokensKnown'
  <2>1. message \in Conns => message \in registry
    BY ConnsAssumption DEF BrokerSend, ParentInv, TokensKnown
  <2>2. \A d \in Conns : request'[d] = IF d = c THEN message ELSE request[d]
    BY DEF BrokerSend, ParentInv, ProcessTypes
  <2> QED
    BY SMT, <2>1, <2>2 DEF ParentInv, TokensKnown, BrokerSend, broker
<1> QED
  BY <1>3, <1>4, <1>5, <1>6 DEF ParentInv

LEMMA ExitsInv ==
    ASSUME ParentInv, NEW c \in Conns, ChildExits(c) \/ ChildCrashes(c)
    PROVE  ParentInv'
<1>0. Exits(c) /\ c \in Live
  BY DEF ChildExits, ChildCrashes, Live
<1>1. "exited" \in ChildPcs /\ child' = [child EXCEPT ![c] = "exited"]
  BY <1>0 DEF Exits, ChildPcs
<1>2. Live' = Live \ {c} /\ Zombies' = Zombies \cup {c} /\ child' \in [Conns -> ChildPcs]
  BY <1>1, ChildMoves
<1>3. FlagTypes' /\ ProcessTypes'
  BY <1>0, <1>2 DEF ParentInv, FlagTypes, ProcessTypes, Exits, Interrupted, sockets
<1>4. ReadyTypes' /\ BrokerTypes'
  BY <1>0 DEF ParentInv, ReadyTypes, BrokerTypes, Exits, tables, broker, sockets, Conn
<1>5. /\ parent' \in {"wait", "exit"} <=> parent \in {"wait", "exit"}
      /\ parent' = "exit" <=> parent = "exit"
  BY <1>0 DEF Exits, Interrupted
<1>6. RoutesTracked'
  BY <1>0, <1>5 DEF ParentInv, RoutesTracked, Exits, tables
<1>7. Live' \cup Zombies' = Live \cup Zombies
  BY <1>0, <1>2
<1>8. ChildrenAccounted'
  BY <1>0, <1>5, <1>7 DEF ParentInv, ChildrenAccounted, Exits, tables
<1>9. ZombiesSignalled' /\ TokensKnown'
  BY <1>0 DEF ParentInv, ZombiesSignalled, TokensKnown, Exits, broker
<1> QED
  BY <1>3, <1>4, <1>6, <1>8, <1>9 DEF ParentInv

-----------------------------------------------------------------------------
(* The parent *)

LEMMA ReapInv ==
    ASSUME ParentInv, Reap
    PROVE  /\ child' \in [Conns -> ChildPcs]
           /\ Live' = Live /\ Zombies' = {}
           /\ tracked' = Live' \cup Zombies'
           /\ routes = tracked => routes' = tracked'
           /\ chld' = FALSE
<1>1. \A c \in Conns : child'[c] = IF child[c] = "exited" THEN "reaped" ELSE child[c]
  BY DEF Reap, Reaped, Zombies
<1>2. child' \in [Conns -> ChildPcs]
  BY <1>1 DEF Reap, ParentInv, ProcessTypes, ChildPcs
<1>3. Live' = Live /\ Zombies' = {}
  BY <1>1 DEF Live, Zombies
<1>4. Live \cap Zombies = {}
  BY DEF Live, Zombies
<1>5. tracked' = tracked \ Zombies /\ tracked = Live \cup Zombies
  BY DEF Reap, Reaped, ParentInv, ChildrenAccounted
<1> QED
  BY <1>2, <1>3, <1>4, <1>5 DEF Reap

LEMMA CheckInv ==
    ASSUME ParentInv, Check
    PROVE  ParentInv'
<1>1. /\ child' \in [Conns -> ChildPcs]
      /\ tracked' = Live' \cup Zombies' /\ routes' = tracked'
      /\ chld' \in BOOLEAN /\ (~chld' => Zombies' = {})
  <2>0. routes = tracked
    BY DEF Check, ParentInv, RoutesTracked
  <2>1. CASE chld
    BY <2>0, <2>1, ReapInv DEF Check
  <2>2. CASE ~chld
    BY <2>0, <2>2 DEF Check, ParentInv, FlagTypes, ProcessTypes, ChildrenAccounted,
                      ZombiesSignalled, Live, Zombies
  <2> QED
    BY <2>1, <2>2
<1>2. FlagTypes' /\ ProcessTypes'
  BY <1>1 DEF Check, ParentInv, FlagTypes, ProcessTypes, sockets
<1>3. ReadyTypes' /\ BrokerTypes'
  BY DEF Check, ParentInv, ReadyTypes, BrokerTypes, broker, sockets, Conn
<1>4. parent' \in {"leave", "prepare"}
  BY DEF Check
<1>5. RoutesTracked' /\ ChildrenAccounted' /\ ZombiesSignalled'
  BY <1>1, <1>4 DEF RoutesTracked, ChildrenAccounted, ZombiesSignalled
<1>6. TokensKnown'
  BY DEF Check, ParentInv, TokensKnown, broker
<1> QED
  BY <1>2, <1>3, <1>5, <1>6 DEF ParentInv

LEMMA LeaveInv ==
    ASSUME ParentInv, Leave
    PROVE  ParentInv'
<1>1. /\ child' \in [Conns -> ChildPcs]
      /\ tracked' = Live' \cup Zombies' /\ Zombies' = {} /\ chld' = FALSE
  BY ReapInv DEF Leave
<1>2. FlagTypes' /\ parent' = "wait"
  BY <1>1 DEF Leave, ParentInv, FlagTypes
<1>3. ProcessTypes'
  BY <1>1 DEF Leave, ParentInv, ProcessTypes, Statuses
<1>4. Conn("pending")' = Conn("pending")
  BY DEF Leave, Conn
<1>5. ReadyTypes' /\ BrokerTypes'
  BY <1>4 DEF Leave, ParentInv, ReadyTypes, BrokerTypes, broker
<1>6. RoutesTracked' /\ ChildrenAccounted' /\ ZombiesSignalled'
  BY <1>1, <1>2 DEF RoutesTracked, ChildrenAccounted, ZombiesSignalled
<1>7. TokensKnown'
  BY DEF Leave, ParentInv, TokensKnown, broker
<1> QED
  BY <1>2, <1>3, <1>5, <1>6, <1>7 DEF ParentInv

LEMMA WaitForChildrenInv ==
    ASSUME ParentInv, WaitForChildren
    PROVE  ParentInv'
<1>1. CASE tracked = {}
  <2>1. FlagTypes' /\ ProcessTypes'
    BY <1>1 DEF WaitForChildren, ParentInv, FlagTypes, ProcessTypes, sockets
  <2>2. Conn("pending")' = Conn("pending")
    BY DEF WaitForChildren, Conn, sockets
  <2>3. parent = "wait" /\ parent' = "exit"
    BY <1>1 DEF WaitForChildren
  <2>4. UNCHANGED <<tables, ready, broker, child, request, chld>>
    BY <1>1 DEF WaitForChildren, tables
  <2> QED
    BY <1>1, <2>1, <2>2, <2>3, <2>4, TablesSame
<1>2. CASE tracked # {}
  <2>1. PICK c \in Zombies : /\ tracked' = tracked \ {c}
                             /\ child' = [child EXCEPT ![c] = "reaped"]
                             /\ parent' = parent
    BY <1>2 DEF WaitForChildren
  <2>2. c \in Conns /\ c \notin Live /\ "reaped" \in ChildPcs /\ parent = "wait"
    BY DEF Zombies, Live, ChildPcs, WaitForChildren
  <2>3. /\ Live' = Live /\ Zombies' = Zombies \ {c}
        /\ child' \in [Conns -> ChildPcs]
    <3>1. /\ Live' = Live \ {c} /\ Zombies' = Zombies \ {c}
          /\ child' \in [Conns -> ChildPcs]
      BY <2>1, <2>2, ChildMoves
    <3> QED
      BY <2>2, <3>1
  <2>4. FlagTypes' /\ ProcessTypes'
    BY <2>1, <2>3 DEF WaitForChildren, ParentInv, FlagTypes, ProcessTypes, sockets
  <2>5. ReadyTypes' /\ BrokerTypes'
    BY DEF WaitForChildren, ParentInv, ReadyTypes, BrokerTypes, broker, sockets, Conn
  <2>6. tracked' = Live' \cup Zombies'
    BY <2>1, <2>2, <2>3 DEF ParentInv, ChildrenAccounted
  <2>7. RoutesTracked' /\ ChildrenAccounted'
    BY <2>1, <2>2, <2>6 DEF RoutesTracked, ChildrenAccounted
  <2>8. ZombiesSignalled' /\ TokensKnown'
    BY <2>3 DEF WaitForChildren, ParentInv, ZombiesSignalled, TokensKnown, broker
  <2> QED
    BY <2>4, <2>5, <2>7, <2>8 DEF ParentInv
<1> QED
  BY <1>1, <1>2

LEMMA ServeBrokerInv ==
    ASSUME ParentInv, NEW c \in Conns, ServeBroker(c)
    PROVE  ParentInv'
<1> DEFINE there == IF child[c] = "broker" THEN "run" ELSE child[c]
<1>1. /\ there \in ChildPcs /\ child' = [child EXCEPT ![c] = there]
      /\ there \in {"start", "run", "broker"} <=> c \in Live
      /\ there = "exited" <=> c \in Zombies
  BY DEF ServeBroker, BrokerHandle, ParentInv, ProcessTypes, ChildPcs, Live, Zombies
<1> HIDE DEF there
<1>2. Live' = Live /\ Zombies' = Zombies /\ child' \in [Conns -> ChildPcs]
  <2>1. /\ Live' = IF there \in {"start", "run", "broker"} THEN Live \cup {c} ELSE Live \ {c}
        /\ Zombies' = IF there = "exited" THEN Zombies \cup {c} ELSE Zombies \ {c}
        /\ child' \in [Conns -> ChildPcs]
    BY <1>1, ChildMoves
  <2>2. Live' = Live
    BY <1>1, <2>1
  <2>3. Zombies' = Zombies
    BY <1>1, <2>1
  <2> QED
    BY <2>1, <2>2, <2>3
<1>3. FlagTypes' /\ ProcessTypes'
  BY <1>2 DEF ServeBroker, BrokerHandle, ParentInv, FlagTypes, ProcessTypes, sockets
<1>4. ReadyTypes'
  <2>1. ready.brokers \ {c} \in SUBSET (brokers')
    BY DEF ServeBroker, BrokerHandle, ParentInv, ReadyTypes
  <2>2. Conn("pending")' = Conn("pending") /\ brokers' \subseteq Conns
    BY DEF ServeBroker, BrokerHandle, ParentInv, ReadyTypes, sockets, Conn
  <2> QED
    BY <2>1, <2>2 DEF ServeBroker, ParentInv, ReadyTypes
<1>5. BrokerTypes' /\ RoutesTracked'
  BY DEF ServeBroker, BrokerHandle, ParentInv, BrokerTypes, RoutesTracked
<1>6. ChildrenAccounted' /\ ZombiesSignalled'
  BY <1>2 DEF ServeBroker, ParentInv, ChildrenAccounted, ZombiesSignalled
<1>7. TokensKnown'
  <2>1. registry \subseteq registry' /\ learned' \subseteq registry'
    BY DEF ServeBroker, BrokerHandle, ParentInv, TokensKnown
  <2>2. \A d \in Conns : request'[d] = IF d = c THEN "none" ELSE request[d]
    BY DEF ServeBroker, BrokerHandle, ParentInv, ProcessTypes
  <2> QED
    BY <2>1, <2>2, ConnsAssumption DEF ParentInv, TokensKnown
<1> QED
  BY <1>3, <1>4, <1>5, <1>6, <1>7 DEF ParentInv

\* The rows of ready that are left stay pending.
LEMMA PendingShrinks ==
    ASSUME ParentInv, NEW c \in Conns, NEW status \in Statuses, brokers \subseteq brokers',
           conn' = [conn EXCEPT ![c] = status],
           ready' = [ready EXCEPT !.pending = @ \ {c}], brokers' \subseteq Conns
    PROVE  ReadyTypes' /\ conn' \in [Conns -> Statuses]
<1>1. \A d \in Conns : d # c => conn'[d] = conn[d]
  BY DEF ParentInv, ProcessTypes
<1>2. Conn("pending") \ {c} \subseteq Conn("pending")'
  BY <1>1 DEF Conn
<1>3. ReadyTypes'
  BY <1>2 DEF ParentInv, ReadyTypes
<1> QED
  BY <1>3 DEF ParentInv, ProcessTypes

LEMMA ServePendingInv ==
    ASSUME ParentInv, NEW c \in Conns, ServePending(c)
    PROVE  ParentInv'
<1>1. CASE Spawn(c)
  <2>1. "start" \in ChildPcs /\ child' = [child EXCEPT ![c] = "start"]
    BY <1>1 DEF Spawn, ChildPcs
  <2>2. Live' = Live \cup {c} /\ Zombies' = Zombies \ {c} /\ child' \in [Conns -> ChildPcs]
    BY <2>1, ChildMoves
  <2>3. ReadyTypes' /\ conn' \in [Conns -> Statuses]
    <3>1. brokers \subseteq brokers' /\ brokers' \subseteq Conns /\ "served" \in Statuses
      BY <1>1 DEF Spawn, ParentInv, ReadyTypes, Statuses
    <3> QED
      BY <1>1, <3>1, PendingShrinks DEF Spawn, ServePending
  <2>4. FlagTypes' /\ ProcessTypes'
    BY <2>2, <2>3 DEF ServePending, ParentInv, FlagTypes, ProcessTypes
  <2>5. BrokerTypes' /\ RoutesTracked' /\ TokensKnown'
    BY <1>1 DEF ServePending, Spawn, ParentInv, BrokerTypes, RoutesTracked, TokensKnown, broker
  <2>6. tracked' = Live' \cup Zombies' /\ (~chld' => Zombies' = {})
    BY <1>1, <2>2 DEF Spawn, ServePending, ParentInv, ChildrenAccounted, ZombiesSignalled
  <2>7. ChildrenAccounted' /\ ZombiesSignalled'
    BY <2>6 DEF ServePending, ChildrenAccounted, ZombiesSignalled
  <2> QED
    BY <2>3, <2>4, <2>5, <2>7 DEF ParentInv
<1>2. CASE SpawnFails(c) \/ Route(c)
  <2>1. PICK status \in Statuses : conn' = [conn EXCEPT ![c] = status]
    BY <1>2 DEF SpawnFails, Route, Statuses
  <2>2. /\ child' = child /\ tracked' = tracked /\ routes' = routes /\ brokers' = brokers
        /\ parent' = "serve" /\ parent = "serve"
    BY <1>2 DEF SpawnFails, Route, tables, ServePending
  <2>3. ReadyTypes' /\ conn' \in [Conns -> Statuses]
    BY <2>1, <2>2, PendingShrinks DEF ServePending, ParentInv, ReadyTypes
  <2>4. FlagTypes' /\ ProcessTypes'
    BY <2>2, <2>3 DEF ServePending, ParentInv, FlagTypes, ProcessTypes
  <2>5. BrokerTypes' /\ RoutesTracked' /\ TokensKnown'
    BY <2>2 DEF ServePending, ParentInv, BrokerTypes, RoutesTracked, TokensKnown, broker
  <2>6. ChildrenAccounted' /\ ZombiesSignalled'
    BY <2>2 DEF ServePending, ParentInv, ChildrenAccounted, ZombiesSignalled, Live, Zombies
  <2> QED
    BY <2>3, <2>4, <2>5, <2>6 DEF ParentInv
<1> QED
  BY <1>1, <1>2 DEF ServePending

LEMMA AcceptInv ==
    ASSUME ParentInv, Accept
    PROVE  ParentInv'
<1>1. conn' \in [Conns -> Statuses]
  BY DEF Accept, ParentInv, ProcessTypes, Statuses, Conn
<1>2. parent' \in {"check", "leave"} /\ parent = "serve"
  BY DEF Accept
<1>3. FlagTypes' /\ ProcessTypes'
  BY <1>1, <1>2 DEF Accept, ParentInv, FlagTypes, ProcessTypes, processes
<1>4. ReadyTypes'
  BY DEF Accept, ParentInv, ReadyTypes, Nothing, tables
<1>5. BrokerTypes' /\ RoutesTracked' /\ TokensKnown'
  BY <1>2 DEF Accept, ParentInv, BrokerTypes, RoutesTracked, TokensKnown, tables, broker,
              processes
<1>6. Live' = Live /\ Zombies' = Zombies
  BY DEF Accept, processes, Live, Zombies
<1>7. ChildrenAccounted' /\ ZombiesSignalled'
  BY <1>2, <1>6 DEF Accept, ParentInv, ChildrenAccounted, ZombiesSignalled, tables
<1> QED
  BY <1>3, <1>4, <1>5, <1>7 DEF ParentInv

-----------------------------------------------------------------------------
LEMMA InitInv == Init => ParentInv
<1> SUFFICES ASSUME Init PROVE ParentInv
  OBVIOUS
<1>1. FlagTypes /\ ProcessTypes
  BY DEF Init, FlagTypes, ProcessTypes, Statuses, ChildPcs
<1>2. ReadyTypes /\ BrokerTypes /\ RoutesTracked
  BY DEF Init, Nothing, ReadyTypes, BrokerTypes, RoutesTracked
<1>3. Live = {} /\ Zombies = {}
  BY DEF Init, Live, Zombies
<1>4. ChildrenAccounted /\ ZombiesSignalled
  BY <1>3 DEF Init, ChildrenAccounted, ZombiesSignalled
<1>5. TokensKnown
  BY ConnsAssumption DEF Init, TokensKnown
<1> QED
  BY <1>1, <1>2, <1>4, <1>5 DEF ParentInv

LEMMA NextInv == ParentInv /\ [Next]_vars => ParentInv'
<1> SUFFICES ASSUME ParentInv, [Next]_vars PROVE ParentInv'
  OBVIOUS
<1>1. CASE UNCHANGED vars
  <2>1. /\ UNCHANGED <<parent, term, chld, conn, first, child, sig, request>>
        /\ UNCHANGED <<tables, ready, broker>>
    BY <1>1 DEF vars, sockets, processes
  <2>2. FlagTypes' /\ ProcessTypes' /\ Conn("pending")' = Conn("pending")
    BY <2>1 DEF ParentInv, FlagTypes, ProcessTypes, Conn
  <2> QED
    BY <2>1, <2>2, TablesSame DEF ParentInv, ChildrenAccounted
<1>2. CASE ParentStep
  BY <1>2, CheckInv, PollInv, AcceptInv, LeaveInv, WaitForChildrenInv, ServeBrokerInv,
     ServePendingInv DEF ParentStep
<1>3. CASE Sigterm
  BY <1>3, SigtermInv
<1>4. ASSUME NEW c \in Conns,
             \/ Connect(c)
             \/ \E bytes \in {"rpc", "eof"} \cup Conns : FirstBytes(c, bytes)
             \/ ChildStarts(c) \/ TakeSignal(c) \/ ChildExits(c) \/ ChildCrashes(c)
             \/ \E message \in {"register"} \cup Conns : BrokerSend(c, message)
      PROVE  ParentInv'
  BY <1>4, ConnectInv, FirstBytesInv, ChildStartsInv, TakeSignalInv, ExitsInv, BrokerSendInv
<1> QED
  BY <1>1, <1>2, <1>3, <1>4 DEF Next

\* However connections, children and signals interleave, the parent's tables of
\* lupine_server_main agree with the children: whoever is tracked was forked and
\* not waited for, a zombie has its SIGCHLD outstanding, and every token a child
\* was given is in the broker's table.
THEOREM ParentInvariant == Spec => []ParentInv
  BY InitInv, NextInv, PTL DEF Spec

\* The parent's variables keep their types, and a bulk route leads to a child
\* it tracks.
THEOREM ParentTypes == Spec => []TypeOK
<1>1. ParentInv => TypeOK
  BY TypesSplit DEF ParentInv
<1> QED
  BY <1>1, ParentInvariant, PTL

\* However children and signals interleave, connection_children holds exactly
\* the children forked and not waited for, and the parent exits after them.
THEOREM ParentAccounts == Spec => []ChildrenAccounted
<1>1. ParentInv => ChildrenAccounted
  BY DEF ParentInv
<1> QED
  BY <1>1, ParentInvariant, PTL

\* The parent does not sleep in poll() over a zombie it was signalled for.
THEOREM ParentReaps == Spec => []NoForgottenZombie
<1>1. ParentInv => NoForgottenZombie
  BY DEF ParentInv, ZombiesSignalled, NoForgottenZombie
<1> QED
  BY <1>1, ParentInvariant, PTL

\* The broker answers every request for an acknowledged token from its table.
THEOREM BrokerRedeems == Spec => TokensRedeemable
<1>1. ParentInv => \A c \in Conns : request[c] \in Conns => request[c] \in registry
  BY DEF ParentInv, TokensKnown
<1>2. ParentInv /\ [Next]_vars
        => [\A c \in Conns : request[c] \in Conns /\ request'[c] = "none"
                             => request[c] \in registry]_vars
  BY <1>1
<1> QED
  BY <1>2, ParentInvariant, PTL DEF Spec, TokensRedeemable

=============================================================================
