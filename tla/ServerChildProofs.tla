-------------------------- MODULE ServerChildProofs --------------------------
(***************************************************************************)
(* The connection child finishes alone, does not lose a SIGTERM and bounds *)
(* its threads, for any set of streams and any MAX_LANES.                  *)
(***************************************************************************)
EXTENDS ServerChild, FiniteSetTheorems, TLAPS

\* Steps are tried with Zenon first, then with SMT.
USE ZenonT(30), SMTT(30)

FinishPcs == {"finish", "quit", "drain", "draining", "checkpoint", "cleanup", "exit"}

ThreadTypes ==
    /\ main \in MainPcs
    /\ worker \in [Lanes -> WorkerPcs]
    /\ stream \in [Lanes -> {"new", "open", "ended"}]
    /\ inbox \in [Lanes -> Requests]
FlagTypes ==
    /\ socket \in {"up", "down"}
    /\ closed \in BOOLEAN /\ failed \in BOOLEAN /\ sigterm \in BOOLEAN
    /\ requested \in BOOLEAN /\ listener \in BOOLEAN /\ snapshot \in BOOLEAN
    /\ pipe \in Seq({"T", "Q"})
GateTypes ==
    /\ inside \in SUBSET Lanes
    /\ closing \in SUBSET (Lanes \cup {"main"})
    /\ holding \in SUBSET closing

\* A stream waits to be accepted once, and has no worker before that.
IncomingFresh ==
    /\ incoming \in Seq(Lanes)
    /\ \A i \in 1..Len(incoming) :
          stream[incoming[i]] # "new" /\ worker[incoming[i]] = "none"
    /\ \A i, j \in 1..Len(incoming) : incoming[i] = incoming[j] => i = j
    /\ \A l \in Lanes : stream[l] = "new" => worker[l] = "none"

\* The lanes table holds the workers that run or are to be joined.
TableExact == lanes = Alive

\* The gate counts only workers that are in a call.
InsideCalls == \A l \in inside : worker[l] = "call"

MainAlone == main \in {"setup"} \cup FinishPcs => lanes = {}

SignalKept == main \in {"cleanup", "exit"} /\ sigterm => snapshot

ChildInv ==
    /\ ThreadTypes /\ FlagTypes /\ GateTypes
    /\ IncomingFresh /\ TableExact /\ ThreadsBounded /\ InsideCalls
    /\ MainAlone /\ SignalKept

LEMMA TypesFollow == ChildInv => TypeOK
  BY DEF ChildInv, ThreadTypes, FlagTypes, GateTypes, IncomingFresh, TableExact, TypeOK

\* A worker in a call is alive.
LEMMA AloneMeansOutside == ChildInv => FinishAlone
<1> SUFFICES ASSUME ChildInv, main \in FinishPcs PROVE Alive = {} /\ inside = {}
  BY DEF FinishAlone, FinishPcs
<1>1. Alive = {}
  BY DEF ChildInv, MainAlone, TableExact
<1>2. \A l \in inside : l \in Alive
  BY DEF ChildInv, InsideCalls, GateTypes, Alive
<1> QED
  BY <1>1, <1>2

-----------------------------------------------------------------------------
(* The client and the reader *)

\* A step that leaves the threads, the table and the gate alone.
LEMMA ThreadsSame ==
    ASSUME ChildInv, UNCHANGED <<main, worker, lanes, gate>>,
           ThreadTypes', FlagTypes', IncomingFresh',
           (sigterm' => snapshot') \/ UNCHANGED <<sigterm, snapshot>>
               \/ main \notin {"cleanup", "exit"}
    PROVE  ChildInv'
<1>1. GateTypes' /\ InsideCalls'
  BY DEF ChildInv, GateTypes, InsideCalls, gate
<1>2. Alive' = Alive
  BY DEF Alive
<1>3. TableExact' /\ ThreadsBounded' /\ MainAlone'
  BY <1>2 DEF ChildInv, TableExact, ThreadsBounded, MainAlone
<1>4. SignalKept'
  BY DEF ChildInv, SignalKept
<1> QED
  BY <1>1, <1>3, <1>4 DEF ChildInv

LEMMA OpenStreamInv ==
    ASSUME ChildInv, NEW l \in Lanes, OpenStream(l)
    PROVE  ChildInv'
<1>1. ThreadTypes' /\ FlagTypes'
  BY DEF ChildInv, ThreadTypes, FlagTypes, OpenStream, transport, signals
<1>2. IncomingFresh'
  <2> USE DEF ChildInv, IncomingFresh, ThreadTypes, OpenStream
  <2>1. incoming' \in Seq(Lanes) /\ Len(incoming') = Len(incoming) + 1
        /\ \A i \in 1..Len(incoming) : incoming'[i] = incoming[i] /\ incoming[i] \in Lanes
        /\ incoming'[Len(incoming) + 1] = l
    BY SMT
  <2>2. \A i \in 1..Len(incoming) : incoming[i] # l
    OBVIOUS
  <2>3. \A k \in Lanes : stream'[k] = IF k = l THEN "open" ELSE stream[k]
    OBVIOUS
  <2>4. worker[l] = "none" /\ worker' = worker
    OBVIOUS
  <2>5. \A i \in 1..Len(incoming') : stream'[incoming'[i]] # "new" /\ worker'[incoming'[i]] = "none"
    BY SMT, <2>1, <2>3, <2>4
  <2>6. \A i, j \in 1..Len(incoming') : incoming'[i] = incoming'[j] => i = j
    BY SMT, <2>1, <2>2
  <2> QED
    BY <2>1, <2>3, <2>4, <2>5, <2>6
<1> QED
  BY <1>1, <1>2, ThreadsSame DEF OpenStream, signals

LEMMA SendRequestInv ==
    ASSUME ChildInv, NEW l \in Lanes, NEW request \in Requests, SendRequest(l, request)
    PROVE  ChildInv'
<1>1. ThreadTypes' /\ FlagTypes' /\ IncomingFresh'
  BY DEF ChildInv, ThreadTypes, FlagTypes, IncomingFresh, SendRequest, transport, signals
<1> QED
  BY <1>1, ThreadsSame DEF SendRequest, signals

LEMMA EndStreamInv ==
    ASSUME ChildInv, NEW l \in Lanes, EndStream(l)
    PROVE  ChildInv'
<1>1. ThreadTypes' /\ FlagTypes'
  BY DEF ChildInv, ThreadTypes, FlagTypes, EndStream, transport, signals
<1>2. \A k \in Lanes : stream'[k] = IF k = l THEN "ended" ELSE stream[k]
  BY DEF ChildInv, ThreadTypes, EndStream
<1>3. IncomingFresh'
  BY SMT, <1>2 DEF ChildInv, IncomingFresh, EndStream
<1> QED
  BY <1>1, <1>3, ThreadsSame DEF EndStream, signals

LEMMA SocketInv ==
    ASSUME ChildInv, Disconnect \/ ReaderFails
    PROVE  ChildInv'
<1>1. ThreadTypes' /\ FlagTypes' /\ IncomingFresh'
  BY DEF ChildInv, ThreadTypes, FlagTypes, IncomingFresh, Disconnect, ReaderFails, client,
         signals
<1> QED
  BY <1>1, ThreadsSame DEF Disconnect, ReaderFails, signals

LEMMA SignalInv ==
    ASSUME ChildInv, Sigterm \/ WaitForShutdown
    PROVE  ChildInv'
<1>1. ThreadTypes' /\ IncomingFresh'
  BY DEF ChildInv, ThreadTypes, IncomingFresh, Sigterm, WaitForShutdown, client
<1>2. pipe' \in Seq({"T", "Q"})
  <2>1. CASE Sigterm
    BY SMT, <2>1 DEF ChildInv, FlagTypes, Sigterm
  <2>2. CASE WaitForShutdown
    BY SMT, <2>2 DEF ChildInv, FlagTypes, WaitForShutdown
  <2> QED
    BY <2>1, <2>2
<1>3. FlagTypes'
  <2>1. CASE Sigterm
    BY <1>2, <2>1 DEF ChildInv, FlagTypes, Sigterm, transport
  <2>2. CASE WaitForShutdown
    BY <1>2, <2>2 DEF ChildInv, FlagTypes, WaitForShutdown
  <2> QED
    BY <2>1, <2>2
<1>4. CASE Sigterm
  BY <1>1, <1>3, <1>4, ThreadsSame DEF Sigterm, HandlerInstalled
<1>5. CASE WaitForShutdown
  BY <1>1, <1>3, <1>5, ThreadsSame DEF WaitForShutdown
<1> QED
  BY <1>4, <1>5

\* A step of the gate that admits and removes nobody.
LEMMA ResumeControlInv ==
    ASSUME ChildInv, ResumeControl
    PROVE  ChildInv'
<1>1. ThreadTypes' /\ FlagTypes' /\ IncomingFresh'
  BY DEF ChildInv, ThreadTypes, FlagTypes, IncomingFresh, ResumeControl, transport, client,
         signals
<1>2. GateTypes' /\ InsideCalls'
  BY DEF ChildInv, GateTypes, InsideCalls, ResumeControl, Gate!Reopen
<1>3. Alive' = Alive
  BY DEF Alive, ResumeControl
<1>4. TableExact' /\ ThreadsBounded' /\ MainAlone' /\ SignalKept'
  BY <1>3 DEF ChildInv, TableExact, ThreadsBounded, MainAlone, SignalKept, ResumeControl,
              signals
<1> QED
  BY <1>1, <1>2, <1>4 DEF ChildInv

-----------------------------------------------------------------------------
(* Workers *)

\* A worker of the table goes on or ends; nothing else of the table changes.
LEMMA WorkerMoves ==
    ASSUME ChildInv, NEW l \in Lanes, NEW here, NEW there \in WorkerPcs \ {"none", "joined"},
           here \notin {"none", "joined"}, Step(l, here, there),
           UNCHANGED <<main, incoming, lanes, signals, snapshot, stream>>
    PROVE  /\ worker' \in [Lanes -> WorkerPcs]
           /\ \A k \in Lanes : k # l => worker'[k] = worker[k]
           /\ worker'[l] = there
           /\ IncomingFresh' /\ TableExact' /\ ThreadsBounded' /\ MainAlone' /\ SignalKept'
<1>1. /\ worker' \in [Lanes -> WorkerPcs]
      /\ \A k \in Lanes : k # l => worker'[k] = worker[k]
      /\ worker'[l] = there /\ worker[l] = here
  BY DEF ChildInv, ThreadTypes, Step
<1>2. Alive' = Alive
  BY <1>1 DEF Alive
<1>3. \A k \in Lanes : worker[k] = "none" => worker'[k] = "none"
  BY <1>1
<1>4. IncomingFresh'
  <2>1. \A i \in 1..Len(incoming) : incoming[i] \in Lanes
    BY SMT DEF ChildInv, IncomingFresh
  <2> QED
    BY <1>3, <2>1 DEF ChildInv, IncomingFresh
<1>5. TableExact' /\ ThreadsBounded' /\ MainAlone' /\ SignalKept'
  BY <1>2 DEF ChildInv, TableExact, ThreadsBounded, MainAlone, SignalKept, signals
<1> QED
  BY <1>1, <1>4, <1>5

\* The same for a step that does not touch the gate and starts outside a call.
LEMMA OutsideMoves ==
    ASSUME ChildInv, NEW l \in Lanes, NEW here, NEW there \in WorkerPcs \ {"none", "joined"},
           here \notin {"none", "joined"}, Step(l, here, there), l \notin inside',
           inside' \subseteq inside, GateTypes',
           UNCHANGED <<main, incoming, lanes, signals, snapshot, stream>>,
           inbox' \in [Lanes -> Requests], FlagTypes'
    PROVE  ChildInv'
<1>1. /\ worker' \in [Lanes -> WorkerPcs]
      /\ \A k \in Lanes : k # l => worker'[k] = worker[k]
      /\ IncomingFresh' /\ TableExact' /\ ThreadsBounded' /\ MainAlone' /\ SignalKept'
  BY WorkerMoves
<1>2. ThreadTypes'
  BY <1>1 DEF ChildInv, ThreadTypes
<1>3. InsideCalls'
  BY <1>1 DEF ChildInv, InsideCalls, GateTypes
<1> QED
  BY <1>1, <1>2, <1>3 DEF ChildInv

LEMMA NotInCall ==
    ASSUME ChildInv, NEW l \in Lanes, worker[l] # "call"
    PROVE  l \notin inside
  BY DEF ChildInv, InsideCalls

LEMMA DispatchInv ==
    ASSUME ChildInv, NEW l \in Lanes, Dispatch(l) \/ DispatchFails(l) \/ Done(l)
    PROVE  ChildInv'
<1>1. inside' = inside /\ GateTypes'
  BY DEF Dispatch, DispatchFails, Done, gate, ChildInv, GateTypes
<1>2. l \notin inside
  BY NotInCall DEF Dispatch, DispatchFails, Done, Step
<1>3. inbox' \in [Lanes -> Requests]
  BY DEF Dispatch, DispatchFails, Done, client, ChildInv, ThreadTypes, Requests
<1>4. FlagTypes'
  BY DEF Dispatch, DispatchFails, Done, transport, signals, ChildInv, FlagTypes
<1>5. UNCHANGED <<main, incoming, lanes, signals, snapshot, stream>>
  BY DEF Dispatch, DispatchFails, Done, client
<1>6. CASE Dispatch(l)
  <2>1. inbox[l] \in {"cuda", "plain", "drain"}
    BY <1>6 DEF Dispatch, ChildInv, ThreadTypes, Requests
  <2>2. \E there \in {"gate", "call", "drain"} : Step(l, "read", there)
    BY <1>6, <2>1 DEF Dispatch
  <2>3. {"gate", "call", "drain"} \subseteq WorkerPcs \ {"none", "joined"}
    BY DEF WorkerPcs
  <2> QED
    BY <1>1, <1>2, <1>3, <1>4, <1>5, <2>2, <2>3, OutsideMoves
<1>7. CASE DispatchFails(l)
  <2>1. Step(l, "read", "leave") /\ "leave" \in WorkerPcs \ {"none", "joined"}
    BY <1>7 DEF DispatchFails, WorkerPcs
  <2> QED
    BY <1>1, <1>2, <1>3, <1>4, <1>5, <2>1, OutsideMoves
<1>8. CASE Done(l)
  <2>1. Step(l, "leave", "done") /\ "done" \in WorkerPcs \ {"none", "joined"}
    BY <1>8 DEF Done, WorkerPcs
  <2> QED
    BY <1>1, <1>2, <1>3, <1>4, <1>5, <2>1, OutsideMoves
<1> QED
  BY <1>6, <1>7, <1>8

LEMMA EnterGateInv ==
    ASSUME ChildInv, NEW l \in Lanes, EnterGate(l)
    PROVE  ChildInv'
<1>1. Step(l, "gate", "call") /\ "call" \in WorkerPcs \ {"none", "joined"}
  BY DEF EnterGate, WorkerPcs
<1>2. UNCHANGED <<main, incoming, lanes, signals, snapshot, stream>>
  BY DEF EnterGate, client
<1>3. /\ worker' \in [Lanes -> WorkerPcs]
      /\ \A k \in Lanes : k # l => worker'[k] = worker[k]
      /\ worker'[l] = "call"
      /\ IncomingFresh' /\ TableExact' /\ ThreadsBounded' /\ MainAlone' /\ SignalKept'
  BY <1>1, <1>2, WorkerMoves
<1>4. ThreadTypes' /\ FlagTypes'
  BY <1>3 DEF EnterGate, client, transport, signals, ChildInv, ThreadTypes, FlagTypes
<1>5. inside' = inside \cup {l} /\ closing' = closing /\ holding' = holding
  BY DEF EnterGate, Gate!Admit
<1>6. GateTypes' /\ InsideCalls'
  BY <1>3, <1>5 DEF ChildInv, GateTypes, InsideCalls
<1> QED
  BY <1>3, <1>4, <1>6 DEF ChildInv

\* What a handler that ends leaves behind.
LEMMA HandledMoves ==
    ASSUME ChildInv, NEW l \in Lanes, NEW here, NEW succeeds \in BOOLEAN,
           Handled(l, here, succeeds), UNCHANGED <<signals, snapshot>>
    PROVE  FlagTypes' /\ \E there \in WorkerPcs \ {"none", "joined"} : Step(l, here, there)
<1>1. \E there \in WorkerPcs \ {"none", "joined"} : Step(l, here, there)
  BY DEF Handled, WorkerPcs
<1>2. FlagTypes'
  BY DEF Handled, ShutdownTransport, transport, signals, ChildInv, FlagTypes
<1> QED
  BY <1>1, <1>2

LEMMA CallInv ==
    ASSUME ChildInv, NEW l \in Lanes, NEW succeeds \in BOOLEAN, Call(l, succeeds)
    PROVE  ChildInv'
<1>1. UNCHANGED <<main, incoming, lanes, signals, snapshot, stream>> /\ inbox' = inbox
  BY DEF Call, client
<1>2. FlagTypes' /\ \E there \in WorkerPcs \ {"none", "joined"} : Step(l, "call", there)
  BY <1>1, HandledMoves DEF Call
<1>3. /\ inside' \subseteq inside /\ l \notin inside'
      /\ closing' = closing /\ holding' = holding
  BY DEF Call, Gate!Leave, gate
<1>4. GateTypes' /\ inbox' \in [Lanes -> Requests]
  BY <1>1, <1>3 DEF ChildInv, GateTypes, ThreadTypes
<1> QED
  BY <1>1, <1>2, <1>3, <1>4, OutsideMoves

LEMMA DrainInv ==
    ASSUME ChildInv, NEW l \in Lanes, NEW succeeds \in BOOLEAN,
           DrainAsk(l) \/ DrainHeld(l, succeeds)
    PROVE  ChildInv'
<1>1. UNCHANGED <<main, incoming, lanes, signals, snapshot, stream>> /\ inbox' = inbox
  BY DEF DrainAsk, DrainHeld, client
<1>2. l \notin inside
  BY NotInCall DEF DrainAsk, DrainHeld, Handled, Step
<1>3. inside' = inside
  BY DEF DrainAsk, DrainHeld, Gate!Ask, Gate!Hold
<1>4. inbox' \in [Lanes -> Requests]
  BY <1>1 DEF ChildInv, ThreadTypes
<1>5. GateTypes'
  BY DEF ChildInv, GateTypes, DrainAsk, DrainHeld, Gate!Ask, Gate!Hold
<1>6. CASE DrainAsk(l)
  <2>1. Step(l, "drain", "draining") /\ "draining" \in WorkerPcs \ {"none", "joined"}
    BY <1>6 DEF DrainAsk, WorkerPcs
  <2>2. FlagTypes'
    BY <1>6 DEF DrainAsk, transport, signals, ChildInv, FlagTypes
  <2> QED
    BY <1>1, <1>2, <1>3, <1>4, <1>5, <2>1, <2>2, OutsideMoves
<1>7. CASE DrainHeld(l, succeeds)
  <2>1. FlagTypes' /\ \E there \in WorkerPcs \ {"none", "joined"} : Step(l, "draining", there)
    BY <1>1, <1>7, HandledMoves DEF DrainHeld
  <2> QED
    BY <1>1, <1>2, <1>3, <1>4, <1>5, <2>1, OutsideMoves
<1> QED
  BY <1>6, <1>7

-----------------------------------------------------------------------------
(* The main thread *)

\* A step of the main thread alone.
LEMMA MainMoves ==
    ASSUME ChildInv, main' \in MainPcs, UNCHANGED <<client, incoming, lanes, worker>>,
           inside' = inside, GateTypes', FlagTypes',
           main' \in FinishPcs => main \in {"setup"} \cup FinishPcs,
           main' # "setup", SignalKept'
    PROVE  ChildInv'
<1>1. ThreadTypes' /\ IncomingFresh' /\ InsideCalls'
  BY DEF ChildInv, ThreadTypes, IncomingFresh, InsideCalls, client
<1>2. Alive' = Alive
  BY DEF Alive
<1>3. TableExact' /\ ThreadsBounded' /\ MainAlone'
  BY <1>2 DEF ChildInv, TableExact, ThreadsBounded, MainAlone
<1> QED
  BY <1>1, <1>3 DEF ChildInv

LEMMA SimpleMainInv ==
    ASSUME ChildInv,
           \/ Setup \/ AcceptFails \/ ShutLanes \/ FinishQuit \/ FinishJoin
           \/ FinishDrain \/ FinishCheckpoint \/ Cleanup
    PROVE  ChildInv'
<1>1. CASE Setup \/ AcceptFails \/ FinishJoin
  <2>1. UNCHANGED <<client, incoming, lanes, worker, transport, signals, snapshot, gate>>
    BY <1>1 DEF Setup, AcceptFails, FinishJoin
  <2>2. inside' = inside /\ GateTypes' /\ FlagTypes'
    BY <2>1 DEF ChildInv, GateTypes, FlagTypes, gate, transport, signals
  <2>3. /\ main' \in MainPcs /\ main' # "setup"
        /\ main' \in FinishPcs => main \in {"setup"} \cup FinishPcs
        /\ main' \in {"cleanup", "exit"} => ~sigterm
    BY <1>1 DEF Setup, AcceptFails, FinishJoin, Goto, MainPcs, FinishPcs, ShouldCheckpoint
  <2>4. SignalKept'
    BY <2>1, <2>3 DEF SignalKept, signals
  <2> QED
    BY <2>1, <2>2, <2>3, <2>4, MainMoves
<1>2. CASE ShutLanes \/ Cleanup
  <2>1. UNCHANGED <<client, incoming, lanes, worker, signals, snapshot, gate>>
    BY <1>2 DEF ShutLanes, Cleanup
  <2>2. inside' = inside /\ GateTypes' /\ FlagTypes'
    BY <1>2, <2>1 DEF ChildInv, GateTypes, FlagTypes, gate, signals, ShutLanes, Cleanup,
                      ShutdownTransport
  <2>3. /\ main' \in MainPcs /\ main' # "setup"
        /\ main' \in FinishPcs => main \in FinishPcs
        /\ main' \in {"cleanup", "exit"} => main = "cleanup"
    BY <1>2 DEF ShutLanes, Cleanup, Goto, MainPcs, FinishPcs
  <2>4. SignalKept'
    BY <2>1, <2>3 DEF ChildInv, SignalKept, signals
  <2> QED
    BY <2>1, <2>2, <2>3, <2>4, MainMoves
<1>3. CASE FinishQuit
  <2>1. inside' = inside /\ GateTypes' /\ FlagTypes'
    BY SMT, <1>3 DEF FinishQuit, ChildInv, GateTypes, FlagTypes, gate, transport
  <2>2. main = "finish" /\ main' = "quit"
    BY <1>3 DEF FinishQuit, Goto
  <2>3. SignalKept' /\ main' \in MainPcs /\ main \in FinishPcs
    BY <2>2 DEF SignalKept, MainPcs, FinishPcs
  <2> QED
    BY <1>3, <2>1, <2>2, <2>3, MainMoves DEF FinishQuit
<1>4. CASE FinishDrain
  <2>1. /\ main \in {"drain", "draining"} /\ main' \in {"draining", "checkpoint"}
        /\ inside' = inside
    BY <1>4 DEF FinishDrain, Goto, Gate!Ask, Gate!Hold
  <2>2. GateTypes'
    BY <1>4 DEF FinishDrain, ChildInv, GateTypes, Gate!Ask, Gate!Hold
  <2>3. FlagTypes'
    BY <1>4 DEF FinishDrain, ChildInv, FlagTypes, transport, signals
  <2>4. SignalKept' /\ main' \in MainPcs /\ main \in FinishPcs /\ main' # "setup"
    BY <2>1 DEF SignalKept, MainPcs, FinishPcs
  <2> QED
    BY <1>4, <2>1, <2>2, <2>3, <2>4, MainMoves DEF FinishDrain
<1>5. CASE FinishCheckpoint
  <2>1. main = "checkpoint" /\ main' = "cleanup" /\ snapshot' = TRUE
    BY <1>5 DEF FinishCheckpoint, Goto
  <2>2. inside' = inside /\ GateTypes' /\ FlagTypes'
    BY <1>5 DEF FinishCheckpoint, ChildInv, GateTypes, FlagTypes, gate, transport, signals
  <2>3. SignalKept' /\ main' \in MainPcs /\ main \in FinishPcs
    BY <2>1 DEF SignalKept, MainPcs, FinishPcs
  <2> QED
    BY <1>5, <2>1, <2>2, <2>3, MainMoves DEF FinishCheckpoint
<1> QED
  BY <1>1, <1>2, <1>3, <1>4, <1>5

\* Workers that become joined were done, so neither in the gate nor incoming.
LEMMA JoinMoves ==
    ASSUME ChildInv, NEW D \in SUBSET lanes, \A l \in D : worker[l] = "done",
           worker' = [l \in Lanes |-> IF l \in D THEN "joined" ELSE worker[l]],
           lanes' = lanes \ D, UNCHANGED <<client, incoming, gate>>
    PROVE  /\ worker' \in [Lanes -> WorkerPcs]
           /\ IncomingFresh' /\ TableExact' /\ ThreadsBounded' /\ InsideCalls'
<1>1. \A l \in Lanes : worker'[l] = IF l \in D THEN "joined" ELSE worker[l]
  OBVIOUS
<1>2. worker' \in [Lanes -> WorkerPcs]
  BY <1>1 DEF ChildInv, ThreadTypes, WorkerPcs
<1>3. \A l \in Lanes : worker[l] = "none" => worker'[l] = "none"
  BY <1>1
<1>4. IncomingFresh'
  <2>1. \A i \in 1..Len(incoming) : incoming[i] \in Lanes
    BY SMT DEF ChildInv, IncomingFresh
  <2> QED
    BY <1>3, <2>1 DEF ChildInv, IncomingFresh, client
<1>5. Alive' = Alive \ D
  BY <1>1 DEF Alive
<1>6. TableExact'
  BY <1>5 DEF ChildInv, TableExact
<1>7. ThreadsBounded'
  <2>1. IsFiniteSet(Alive)
    BY FS_Subset, LanesAssumption DEF Alive
  <2>2. Cardinality(Alive \ D) <= Cardinality(Alive)
    BY <2>1, FS_Subset
  <2>3. Cardinality(Alive \ D) \in Nat /\ Cardinality(Alive) \in Nat
    BY <2>1, FS_Subset, FS_CardinalityType
  <2> QED
    BY SMT, <1>5, <2>2, <2>3, LanesAssumption DEF ChildInv, ThreadsBounded
<1>8. InsideCalls'
  BY <1>1 DEF ChildInv, InsideCalls, GateTypes, gate
<1> QED
  BY <1>2, <1>4, <1>6, <1>7, <1>8

LEMMA ReapInv ==
    ASSUME ChildInv, Reap
    PROVE  ChildInv'
<1>0. /\ UNCHANGED <<client, incoming, gate, transport, signals, snapshot>>
      /\ main = "top" /\ main' \in {"shut", "accept"}
  BY DEF Reap
<1>1. FlagTypes' /\ GateTypes'
  BY <1>0 DEF ChildInv, FlagTypes, GateTypes, gate, transport, signals
<1>2. SignalKept' /\ MainAlone' /\ main' \in MainPcs
  BY <1>0 DEF SignalKept, MainAlone, FinishPcs, MainPcs
<1>3. \E D \in SUBSET lanes :
          /\ \A l \in D : worker[l] = "done"
          /\ worker' = [l \in Lanes |-> IF l \in D THEN "joined" ELSE worker[l]]
          /\ lanes' = lanes \ D
  <2>1. CASE closed
    <3>1. worker' = [l \in Lanes |-> IF l \in {} THEN "joined" ELSE worker[l]]
      BY <2>1 DEF Reap, ChildInv, ThreadTypes
    <3>2. lanes' = lanes \ {}
      BY <2>1 DEF Reap
    <3> QED
      BY <3>1, <3>2
  <2>2. CASE ~closed
    BY <2>2 DEF Reap, Finished
  <2> QED
    BY <2>1, <2>2
<1>4. /\ worker' \in [Lanes -> WorkerPcs]
      /\ IncomingFresh' /\ TableExact' /\ ThreadsBounded' /\ InsideCalls'
  BY <1>0, <1>3, JoinMoves
<1>5. ThreadTypes'
  BY <1>0, <1>2, <1>4 DEF ChildInv, ThreadTypes, client
<1> QED
  BY <1>1, <1>2, <1>4, <1>5 DEF ChildInv

LEMMA JoinLanesInv ==
    ASSUME ChildInv, JoinLanes
    PROVE  ChildInv'
<1>0. /\ UNCHANGED <<client, incoming, gate, transport, signals, snapshot>>
      /\ main' = "finish" /\ lanes' = {}
  BY DEF JoinLanes, Goto
<1>1. FlagTypes' /\ GateTypes'
  BY <1>0 DEF ChildInv, FlagTypes, GateTypes, gate, transport, signals
<1>2. SignalKept' /\ MainAlone' /\ main' \in MainPcs
  BY <1>0 DEF SignalKept, MainAlone, MainPcs
<1>3. /\ \A l \in lanes : worker[l] = "done"
      /\ worker' = [l \in Lanes |-> IF l \in lanes THEN "joined" ELSE worker[l]]
      /\ lanes' = lanes \ lanes
  BY <1>0 DEF JoinLanes
<1>4. /\ worker' \in [Lanes -> WorkerPcs]
      /\ IncomingFresh' /\ TableExact' /\ ThreadsBounded' /\ InsideCalls'
  BY <1>0, <1>3, JoinMoves
<1>5. ThreadTypes'
  BY <1>0, <1>2, <1>4 DEF ChildInv, ThreadTypes, client
<1> QED
  BY <1>1, <1>2, <1>4, <1>5 DEF ChildInv

LEMMA AcceptInv ==
    ASSUME ChildInv, Accept
    PROVE  ChildInv'
<1> DEFINE l == Head(incoming)
<1>0. /\ incoming \in Seq(Lanes) /\ incoming # <<>> /\ incoming' = Tail(incoming)
      /\ UNCHANGED <<client, transport, signals, snapshot, gate>>
      /\ main = "accept" /\ main' \in {"shut", "top"}
  BY DEF Accept, Goto, ChildInv, IncomingFresh
<1>1. /\ l \in Lanes /\ l = incoming[1] /\ Len(incoming') = Len(incoming) - 1
      /\ Len(incoming) \in Nat \ {0}
      /\ incoming' \in Seq(Lanes)
      /\ \A i \in 1..Len(incoming') : incoming'[i] = incoming[i + 1] /\ i + 1 \in 1..Len(incoming)
  BY SMT, <1>0
<1>2. worker[l] = "none" /\ stream[l] # "new"
  BY SMT, <1>1 DEF ChildInv, IncomingFresh
<1>3. \A i \in 1..Len(incoming') : incoming'[i] # l /\ incoming'[i] \in Lanes
  BY SMT, <1>1 DEF ChildInv, IncomingFresh
<1>4. \A i, j \in 1..Len(incoming') : incoming'[i] = incoming'[j] => i = j
  <2> SUFFICES ASSUME NEW i \in 1..Len(incoming'), NEW j \in 1..Len(incoming'),
                      incoming'[i] = incoming'[j]
               PROVE  i = j
    OBVIOUS
  <2>1. i + 1 = j + 1
    BY SMT, <1>1 DEF ChildInv, IncomingFresh
  <2> QED
    BY SMT, <1>1, <2>1
<1>5. FlagTypes' /\ GateTypes'
  BY <1>0 DEF ChildInv, FlagTypes, GateTypes, gate, transport, signals
<1>6. SignalKept' /\ MainAlone' /\ main' \in MainPcs
  BY <1>0 DEF SignalKept, MainAlone, FinishPcs, MainPcs
<1>7. \A i \in 1..Len(incoming') : stream[incoming'[i]] # "new" /\ worker[incoming'[i]] = "none"
  <2> SUFFICES ASSUME NEW i \in 1..Len(incoming')
               PROVE  stream[incoming'[i]] # "new" /\ worker[incoming'[i]] = "none"
    OBVIOUS
  <2>1. incoming'[i] = incoming[i + 1] /\ i + 1 \in 1..Len(incoming)
    BY <1>1
  <2>2. stream[incoming[i + 1]] # "new" /\ worker[incoming[i + 1]] = "none"
    BY <2>1 DEF ChildInv, IncomingFresh
  <2> QED
    BY <2>1, <2>2
<1>8. CASE TableFull
  <2>1. worker' = worker /\ lanes' = lanes /\ stream' = stream
    BY <1>0, <1>8 DEF Accept, client
  <2>2. IncomingFresh'
    BY <1>1, <1>4, <1>7, <2>1 DEF ChildInv, IncomingFresh
  <2>3. Alive' = Alive
    BY <2>1 DEF Alive
  <2>4. TableExact' /\ ThreadsBounded'
    BY <2>1, <2>3 DEF ChildInv, TableExact, ThreadsBounded
  <2>5. ThreadTypes' /\ InsideCalls'
    BY <1>0, <1>6, <2>1 DEF ChildInv, ThreadTypes, InsideCalls, client, gate
  <2> QED
    BY <1>5, <1>6, <2>2, <2>4, <2>5 DEF ChildInv
<1>9. CASE ~TableFull
  <2>1. /\ worker' = [worker EXCEPT ![l] = "read"] /\ lanes' = lanes \cup {l}
        /\ stream' = stream
    BY <1>0, <1>9 DEF Accept, client
  <2>2. /\ \A k \in Lanes : worker'[k] = IF k = l THEN "read" ELSE worker[k]
        /\ worker' \in [Lanes -> WorkerPcs]
    BY <1>1, <2>1 DEF ChildInv, ThreadTypes, WorkerPcs
  <2> HIDE DEF l
  <2>3. IncomingFresh'
    <3>1. \A i \in 1..Len(incoming') : stream'[incoming'[i]] # "new" /\ worker'[incoming'[i]] = "none"
      BY <1>3, <1>7, <2>1, <2>2
    <3>2. \A k \in Lanes : stream'[k] = "new" => worker'[k] = "none"
      BY <1>2, <2>1, <2>2 DEF ChildInv, IncomingFresh
    <3> QED
      BY <1>1, <1>4, <3>1, <3>2 DEF IncomingFresh
  <2>4. Alive' = Alive \cup {l} /\ l \notin Alive
    BY <1>1, <1>2, <2>2 DEF Alive
  <2>5. TableExact'
    BY <2>1, <2>4 DEF ChildInv, TableExact
  <2>6. ThreadsBounded'
    <3>1. IsFiniteSet(Alive)
      BY FS_Subset, LanesAssumption DEF Alive
    <3>2. Cardinality(Alive') = Cardinality(Alive) + 1 /\ Cardinality(Alive) \in Nat
      BY <2>4, <3>1, FS_AddElement, FS_CardinalityType
    <3>3. ~(Cardinality(Alive) >= MaxLanes)
      BY <1>9 DEF TableFull, ChildInv, TableExact
    <3> QED
      BY SMT, <3>2, <3>3, LanesAssumption DEF ThreadsBounded
  <2>7. ThreadTypes'
    BY <1>0, <1>6, <2>2 DEF ChildInv, ThreadTypes, client
  <2>8. InsideCalls'
    <3>1. inside' = inside /\ inside \subseteq Lanes /\ l \notin inside
      BY <1>0, <1>2 DEF gate, ChildInv, GateTypes, InsideCalls
    <3> QED
      BY <2>2, <3>1 DEF ChildInv, InsideCalls
  <2> QED
    BY <1>5, <1>6, <2>3, <2>5, <2>6, <2>7, <2>8 DEF ChildInv
<1> QED
  BY <1>8, <1>9

-----------------------------------------------------------------------------
LEMMA InitInv == Init => ChildInv
<1> SUFFICES ASSUME Init PROVE ChildInv
  OBVIOUS
<1>1. ThreadTypes /\ FlagTypes /\ GateTypes
  <2>1. ThreadTypes
    BY DEF Init, ThreadTypes, MainPcs, WorkerPcs, Requests
  <2>2. pipe \in Seq({"T", "Q"})
    BY SMT DEF Init
  <2>3. FlagTypes
    BY <2>2 DEF Init, FlagTypes
  <2>4. GateTypes
    BY DEF Init, GateTypes, Gate!GInit
  <2> QED
    BY <2>1, <2>3, <2>4
<1>2. IncomingFresh /\ InsideCalls
  BY SMT DEF Init, IncomingFresh, InsideCalls, Gate!GInit
<1>3. Alive = {}
  BY DEF Init, Alive
<1>4. TableExact /\ ThreadsBounded
  BY SMT, <1>3, FS_EmptySet, LanesAssumption DEF Init, TableExact, ThreadsBounded
<1>5. MainAlone /\ SignalKept
  BY DEF Init, MainAlone, SignalKept
<1> QED
  BY <1>1, <1>2, <1>4, <1>5 DEF ChildInv

LEMMA NextInv == ChildInv /\ [Next]_vars => ChildInv'
<1> SUFFICES ASSUME ChildInv, [Next]_vars PROVE ChildInv'
  OBVIOUS
<1>1. CASE UNCHANGED vars
  <2>1. ThreadTypes' /\ FlagTypes' /\ IncomingFresh'
    BY <1>1 DEF vars, transport, client, signals, ChildInv, ThreadTypes, FlagTypes,
                IncomingFresh
  <2> QED
    BY <1>1, <2>1, ThreadsSame DEF vars, signals
<1>2. CASE Client
  BY <1>2, SocketInv, ResumeControlInv, OpenStreamInv, EndStreamInv, SendRequestInv DEF Client
<1>3. CASE ReaderFails \/ Sigterm \/ WaitForShutdown
  BY <1>3, SocketInv, SignalInv
<1>4. ASSUME NEW l \in Lanes, Worker(l) PROVE ChildInv'
  BY <1>4, DispatchInv, EnterGateInv, CallInv, DrainInv DEF Worker
<1>5. CASE MainThread
  BY <1>5, SimpleMainInv, ReapInv, AcceptInv, JoinLanesInv DEF MainThread
<1> QED
  BY <1>1, <1>2, <1>3, <1>4, <1>5 DEF Next

\* However streams, workers, handoffs and SIGTERM interleave, the lane table of
\* lupine_serve_lanes holds exactly the workers not joined, only workers in a call
\* are in the dispatch gate, and a stream is queued for accept at most once.
THEOREM ChildInvariant == Spec => []ChildInv
  BY InitInv, NextInv, PTL DEF Spec

\* The child's variables keep their types, and every lane of the table has a
\* worker.
THEOREM ChildTypes == Spec => []TypeOK
  BY ChildInvariant, TypesFollow, PTL

\* lupine_server_checkpoint_child_finish() and the cleanup run when every lane
\* worker has been joined and nobody is in the dispatch gate, whatever the
\* client, the workers and the handoffs did.
THEOREM ChildFinishesAlone == Spec => []FinishAlone
  BY ChildInvariant, AloneMeansOutside, PTL

\* A SIGTERM that the child's handler took leads to a checkpoint before exit.
THEOREM ChildKeepsSigterm == Spec => []TermCheckpointed
<1>1. ChildInv => TermCheckpointed
  BY DEF ChildInv, SignalKept, TermCheckpointed
<1> QED
  BY <1>1, ChildInvariant, PTL

\* The child never has more than MAX_LANES lane workers.
THEOREM ChildBoundsThreads == Spec => []ThreadsBounded
<1>1. ChildInv => ThreadsBounded
  BY DEF ChildInv
<1> QED
  BY <1>1, ChildInvariant, PTL

=============================================================================
