----------------------------- MODULE CaptureGate -----------------------------
(***************************************************************************)
(* capture_gate of checkpoint.cpp: stream captures of the client against    *)
(* checkpoints.  A capture is admitted before cuStreamBeginCapture is sent, *)
(* becomes active when the driver accepts it and ends with                  *)
(* cuStreamEndCapture.  Every operation runs under mutex_, so it is one     *)
(* step; a wait on condition_ is a sleep that a notify_all() ends.          *)
(***************************************************************************)
EXTENDS Integers, FiniteSets

CONSTANTS
    Captures,     \* captures under way at one time, one per capturing thread
    Checkpoints,  \* threads that wait for captures and later resume them
    MaxWaits      \* bound on the number of wait_for_captures() calls

ASSUME CapturesAssumption ==
    /\ IsFiniteSet(Captures)
    /\ IsFiniteSet(Checkpoints)
    /\ Captures \cap Checkpoints = {}
ASSUME WaitsAssumption == MaxWaits \in Nat

VARIABLES
    pc,         \* where each capture and each checkpoint is
    admitted,   \* admitted_begins_
    active,     \* active_captures_
    waiters,    \* checkpoint_waiters_
    held,       \* checkpoint_active_
    waits       \* wait_for_captures() calls so far

vars == <<pc, admitted, active, waiters, held, waits>>

CapturePcs == {"none", "asleep", "lock", "reserved", "active"}
CheckpointPcs == {"idle", "queued", "requeue", "waiting", "rewait", "held"}

Init ==
    /\ pc = [t \in Captures \cup Checkpoints |->
                IF t \in Captures THEN "none" ELSE "idle"]
    /\ admitted = 0
    /\ active = 0
    /\ waiters = 0
    /\ held = FALSE
    /\ waits = 0

Woken(label) ==
    CASE label = "asleep" -> "lock"
      [] label = "queued" -> "requeue"
      [] label = "waiting" -> "rewait"
      [] OTHER -> label

Goto(t, there) == pc' = [pc EXCEPT ![t] = there]
NotifyAll(t, there) ==
    pc' = [s \in DOMAIN pc |-> IF s = t THEN there ELSE Woken(pc[s])]

-----------------------------------------------------------------------------
BeginsMayPass == ~held /\ waiters = 0

Begin(c) ==
    /\ pc[c] \in {"none", "lock"}
    /\ IF BeginsMayPass
       THEN Goto(c, "reserved") /\ admitted' = admitted + 1
       ELSE Goto(c, "asleep") /\ UNCHANGED admitted
    /\ UNCHANGED <<active, waiters, held, waits>>

\* A rejected capture start keeps its reservation.
BeginCompleteLeaks(c, started) ==
    /\ pc[c] = "reserved"
    /\ IF admitted = 0 THEN Goto(c, "none") /\ UNCHANGED <<admitted, active>>
       ELSE /\ admitted' = IF started THEN admitted - 1 ELSE admitted
            /\ active' = IF started THEN active + 1 ELSE active
            /\ NotifyAll(c, IF started THEN "active" ELSE "none")
    /\ UNCHANGED <<waiters, held, waits>>
BeginComplete(c, started) ==
    /\ pc[c] = "reserved"
    /\ IF admitted = 0 THEN Goto(c, "none") /\ UNCHANGED <<admitted, active>>
       ELSE /\ admitted' = admitted - 1
            /\ active' = IF started THEN active + 1 ELSE active
            /\ NotifyAll(c, IF started THEN "active" ELSE "none")
    /\ UNCHANGED <<waiters, held, waits>>

EndCapture(c) ==
    /\ pc[c] = "active"
    /\ IF active = 0 THEN Goto(c, "none") /\ UNCHANGED active
       ELSE active' = active - 1 /\ NotifyAll(c, "none")
    /\ UNCHANGED <<admitted, waiters, held, waits>>

-----------------------------------------------------------------------------
\* Only captures that have begun are waited for.
QuietIgnoresAdmitted == active = 0
Quiet == admitted = 0 /\ active = 0

AfterClaim == IF Quiet THEN "held" ELSE "waiting"

WaitForCaptures(k) ==
    /\ pc[k] = "idle"
    /\ waits < MaxWaits
    /\ IF held
       THEN Goto(k, "queued") /\ waiters' = waiters + 1 /\ UNCHANGED held
       ELSE Goto(k, AfterClaim) /\ held' = TRUE /\ UNCHANGED waiters
    /\ waits' = waits + 1
    /\ UNCHANGED <<admitted, active>>

Claim(k) ==
    /\ pc[k] = "requeue"
    /\ IF held
       THEN Goto(k, "queued") /\ UNCHANGED <<waiters, held>>
       ELSE Goto(k, AfterClaim) /\ waiters' = waiters - 1 /\ held' = TRUE
    /\ UNCHANGED <<admitted, active, waits>>

Recheck(k) ==
    /\ pc[k] = "rewait"
    /\ Goto(k, AfterClaim)
    /\ UNCHANGED <<admitted, active, waiters, held, waits>>

ResumeCaptures(k) ==
    /\ pc[k] = "held"
    /\ held' = FALSE
    /\ NotifyAll(k, "idle")
    /\ UNCHANGED <<admitted, active, waiters, waits>>

SpuriousWakeup(t) ==
    /\ pc[t] \in {"asleep", "queued", "waiting"}
    /\ Goto(t, Woken(pc[t]))
    /\ UNCHANGED <<admitted, active, waiters, held, waits>>

-----------------------------------------------------------------------------
Capture(c) ==
    \/ Begin(c)
    \/ \E started \in BOOLEAN : BeginComplete(c, started)
    \/ EndCapture(c)
Checkpoint(k) ==
    WaitForCaptures(k) \/ Claim(k) \/ Recheck(k) \/ ResumeCaptures(k)

Next ==
    \/ \E c \in Captures : Capture(c)
    \/ \E k \in Checkpoints : Checkpoint(k)
    \/ \E t \in Captures \cup Checkpoints : SpuriousWakeup(t)

Spec == Init /\ [][Next]_vars

-----------------------------------------------------------------------------
(* Properties *)

UnderWay == {c \in Captures : pc[c] \in {"reserved", "active"}}
Closing == {k \in Checkpoints : pc[k] # "idle"}
Holding == {k \in Checkpoints : pc[k] = "held"}

\* Every variable has its type.
TypeOK ==
    /\ pc \in [Captures \cup Checkpoints -> CapturePcs \cup CheckpointPcs]
    /\ \A c \in Captures : pc[c] \in CapturePcs
    /\ \A k \in Checkpoints : pc[k] \in CheckpointPcs
    /\ admitted \in Nat
    /\ active \in Nat
    /\ waiters \in Nat
    /\ held \in BOOLEAN
    /\ waits \in Nat

\* The capture gate implements GateSpec: a capture counts as inside from its
\* reservation, before the driver is asked, until it ends (checkpoint.h: "Block
\* new capture starts and wait for every admitted or active capture").
Gate == INSTANCE GateSpec WITH
    Users <- Captures, Checkpoints <- Checkpoints,
    inside <- UnderWay, closing <- Closing, holding <- Holding
ImplementsGate == Gate!GSpec

=============================================================================
