------------------------------ MODULE CallGate ------------------------------
(***************************************************************************)
(* cuda_call_gate of checkpoint.cpp: the server's dispatch gate.           *)
(*                                                                         *)
(* Lane workers enter and leave with atomics alone while no drain is       *)
(* pending; a drain publishes pending_ before it reads the count, a worker *)
(* publishes its count before it re-reads pending_.  Every atomic access   *)
(* is a step of its own.  A step that needs mutex_ takes it, and holds it  *)
(* beyond the step only in "claimed", between draining_ = true and the     *)
(* first read of the count; waiting on condition_ releases it.             *)
(***************************************************************************)
EXTENDS Integers, FiniteSets

CONSTANTS
    Callers,    \* lane workers dispatching CUDA handlers
    Drainers,   \* threads that drain the gate and later resume it
    MaxDrains   \* bound on the number of drains started

ASSUME ThreadsAssumption ==
    /\ IsFiniteSet(Callers)
    /\ IsFiniteSet(Drainers)
    /\ Callers \cap Drainers = {}
ASSUME DrainsAssumption == MaxDrains \in Nat

VARIABLES
    pc,         \* where each thread is; see CallerPcs and DrainerPcs
    active,     \* active_calls_
    pending,    \* pending_
    waiters,    \* drain_waiters_
    draining,   \* draining_
    drains      \* drains started so far

vars == <<pc, active, pending, waiters, draining, drains>>

CallerPcs == {"out", "add", "recheck", "backoff", "backoffLast",
              "backoffNotify", "lock", "asleep", "in", "endLast", "endNotify"}
DrainerPcs == {"idle", "queued", "requeue", "claimed", "waiting", "rewait",
               "held"}

Init ==
    /\ pc = [t \in Callers \cup Drainers |->
                IF t \in Callers THEN "out" ELSE "idle"]
    /\ active = 0
    /\ pending = FALSE
    /\ waiters = 0
    /\ draining = FALSE
    /\ drains = 0

MutexFree == \A d \in Drainers : pc[d] # "claimed"

Goto(t, here, there) ==
    /\ pc[t] = here
    /\ pc' = [pc EXCEPT ![t] = there]

\* condition_.notify_all(): every sleeper goes on to re-acquire mutex_.
Woken(label) ==
    CASE label = "asleep" -> "lock"
      [] label = "queued" -> "requeue"
      [] label = "waiting" -> "rewait"
      [] OTHER -> label
Notify(t, here, there) ==
    /\ pc[t] = here
    /\ pc' = [s \in DOMAIN pc |-> IF s = t THEN there ELSE Woken(pc[s])]

-----------------------------------------------------------------------------
(* begin() *)

Load(c) ==
    /\ Goto(c, "out", IF pending THEN "lock" ELSE "add")
    /\ UNCHANGED <<active, pending, waiters, draining, drains>>

Publish(c) ==
    /\ Goto(c, "add", "recheck")
    /\ active' = active + 1
    /\ UNCHANGED <<pending, waiters, draining, drains>>

Recheck(c) ==
    /\ Goto(c, "recheck", IF pending THEN "backoff" ELSE "in")
    /\ UNCHANGED <<active, pending, waiters, draining, drains>>

\* A drain that is still queued does not keep new calls out.
CallersMayPassDrainingOnly == ~draining
CallersMayPass == ~draining /\ waiters = 0

EnterLocked(c) ==
    /\ MutexFree
    /\ CallersMayPass
    /\ Goto(c, "lock", "in")
    /\ active' = active + 1
    /\ UNCHANGED <<pending, waiters, draining, drains>>

Sleep(c) ==
    /\ MutexFree
    /\ ~CallersMayPass
    /\ Goto(c, "lock", "asleep")
    /\ UNCHANGED <<active, pending, waiters, draining, drains>>

-----------------------------------------------------------------------------
(* end(), called by begin() to back off and by the guard's destructor *)

Decrement(c, here, last, next) ==
    /\ Goto(c, here, IF active = 1 THEN last ELSE next)
    /\ active' = IF active = 0 THEN 0 ELSE active - 1
    /\ UNCHANGED <<pending, waiters, draining, drains>>

LoadPending(c, last, notify, next) ==
    /\ Goto(c, last, IF pending THEN notify ELSE next)
    /\ UNCHANGED <<active, pending, waiters, draining, drains>>

NotifyLocked(c, notify, next) ==
    /\ MutexFree
    /\ Notify(c, notify, next)
    /\ UNCHANGED <<active, pending, waiters, draining, drains>>

\* The last caller to leave does not wake the drain.
BackOffSilent(c) == Decrement(c, "backoff", "lock", "lock")
BackOff(c) ==
    \/ Decrement(c, "backoff", "backoffLast", "lock")
    \/ LoadPending(c, "backoffLast", "backoffNotify", "lock")
    \/ NotifyLocked(c, "backoffNotify", "lock")

End(c) ==
    \/ Decrement(c, "in", "endLast", "out")
    \/ LoadPending(c, "endLast", "endNotify", "out")
    \/ NotifyLocked(c, "endNotify", "out")

-----------------------------------------------------------------------------
(* drain() and resume() *)

\* ++drain_waiters_, pending_ = true and, when no drain owns the gate,
\* --drain_waiters_ and draining_ = true.
DrainStart(d) ==
    /\ MutexFree
    /\ drains < MaxDrains
    /\ Goto(d, "idle", IF draining THEN "queued" ELSE "claimed")
    /\ pending' = TRUE
    /\ waiters' = IF draining THEN waiters + 1 ELSE waiters
    /\ draining' = TRUE
    /\ drains' = drains + 1
    /\ UNCHANGED active

DrainClaim(d) ==
    /\ MutexFree
    /\ Goto(d, "requeue", IF draining THEN "queued" ELSE "claimed")
    /\ waiters' = IF draining THEN waiters ELSE waiters - 1
    /\ draining' = TRUE
    /\ UNCHANGED <<active, pending, drains>>

DrainCheck(d) ==
    /\ pc[d] = "claimed" \/ MutexFree
    /\ \E here \in {"claimed", "rewait"} :
          Goto(d, here, IF active = 0 THEN "held" ELSE "waiting")
    /\ UNCHANGED <<active, pending, waiters, draining, drains>>

Resume(d) ==
    /\ MutexFree
    /\ Notify(d, "held", "idle")
    /\ draining' = FALSE
    /\ pending' = (waiters # 0)
    /\ UNCHANGED <<active, waiters, drains>>

\* A wait on a condition variable may return without a notification.
SpuriousWakeup(t) ==
    /\ pc[t] \in {"asleep", "queued", "waiting"}
    /\ Goto(t, pc[t], Woken(pc[t]))
    /\ UNCHANGED <<active, pending, waiters, draining, drains>>

-----------------------------------------------------------------------------
Enter(c) == Load(c) \/ Publish(c) \/ Recheck(c) \/ EnterLocked(c) \/ Sleep(c)
Drain(d) == DrainStart(d) \/ DrainClaim(d) \/ DrainCheck(d)

Next ==
    \/ \E c \in Callers : Enter(c) \/ BackOff(c) \/ End(c)
    \/ \E d \in Drainers : Drain(d) \/ Resume(d)
    \/ \E t \in Callers \cup Drainers : SpuriousWakeup(t)

Spec == Init /\ [][Next]_vars

\* A thread that is runnable runs, a dispatched handler returns and a
\* checkpoint that holds the gate resumes it.
FairSpec ==
    /\ Spec
    /\ \A c \in Callers : WF_vars(Publish(c) \/ Recheck(c) \/ EnterLocked(c)
                                  \/ Sleep(c) \/ BackOff(c) \/ End(c))
    /\ \A d \in Drainers : WF_vars(DrainClaim(d) \/ DrainCheck(d) \/ Resume(d))

-----------------------------------------------------------------------------
(* Properties *)

Inside == {c \in Callers : pc[c] = "in"}
Closing == {d \in Drainers : pc[d] # "idle"}
Holding == {d \in Drainers : pc[d] = "held"}

\* Every variable has its type and the three waits are of the right threads.
TypeOK ==
    /\ pc \in [Callers \cup Drainers -> CallerPcs \cup DrainerPcs]
    /\ \A c \in Callers : pc[c] \in CallerPcs
    /\ \A d \in Drainers : pc[d] \in DrainerPcs
    /\ active \in Nat
    /\ pending \in BOOLEAN
    /\ waiters \in Nat
    /\ draining \in BOOLEAN
    /\ drains \in Nat

\* While a drain has returned and has not been resumed no CUDA handler runs
\* (checkpoint.h: dispatch remains blocked until the matching resume call),
\* although stragglers may still raise and lower active_calls_ meanwhile.
HeldMeansQuiet == Holding # {} => Inside = {}

\* The gate implements GateSpec: no handler is admitted from the store of
\* pending_ by any drain until the last of the drains is resumed, and a second
\* drain() returns only after the first was resumed.
Gate == INSTANCE GateSpec WITH
    Users <- Callers, Checkpoints <- Drainers,
    inside <- Inside, closing <- Closing, holding <- Holding
ImplementsGate == Gate!GSpec

\* No wakeup is lost: a drain that was asked for is granted although the last end()
\* may read pending_ before it is set, and a worker that asked for the gate is
\* admitted once the drains are over.
NobodyForgotten ==
    /\ \A d \in Drainers : pc[d] # "idle" ~> pc[d] = "held"
    /\ \A c \in Callers : pc[c] \in {"add", "lock", "asleep"} ~> pc[c] = "in"

=============================================================================
