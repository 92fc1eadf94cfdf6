--------------------------- MODULE CallGateProofs ---------------------------
(***************************************************************************)
(* Proofs about CallGate for any number of workers, drains and rounds.     *)
(*                                                                         *)
(* HeldMeansQuiet is not inductive: that a drain which reads 0 finds nobody *)
(* inside needs active_calls_ to count exactly the workers that published  *)
(* and have not withdrawn, and that nobody enters afterwards needs         *)
(* pending_, drain_waiters_ and draining_ to say which drains are under    *)
(* way.                                                                    *)
(***************************************************************************)
EXTENDS CallGate, FiniteSetTheorems, TLAPS

\* Steps are tried with Zenon first, then with SMT.
USE ZenonT(30), SMTT(30)

\* Workers that active_calls_ counts.
Counted == {c \in Callers : pc[c] \in {"recheck", "backoff", "in"}}
\* Drains that drain_waiters_ counts.
Queued == {d \in Drainers : pc[d] \in {"queued", "requeue"}}
\* The drain draining_ stands for.
Owners == {d \in Drainers : pc[d] \in {"claimed", "waiting", "rewait", "held"}}

CountExact == active = Cardinality(Counted)
WaitersExact == waiters = Cardinality(Queued)
DrainingExact == draining <=> \E d \in Drainers : d \in Owners
OneOwner == \A d, e \in Drainers : d \in Owners /\ e \in Owners => d = e
PendingExact == pending <=> \E d \in Drainers : pc[d] # "idle"

GateInv ==
    /\ TypeOK
    /\ CountExact
    /\ WaitersExact
    /\ DrainingExact
    /\ OneOwner
    /\ PendingExact
    /\ HeldMeansQuiet

-----------------------------------------------------------------------------
(* Facts about the counted sets. *)

\* A subset of a finite set is finite; its size is 0 just when it is empty.
LEMMA CountZero ==
    ASSUME NEW T, IsFiniteSet(T), NEW S \in SUBSET T
    PROVE  /\ IsFiniteSet(S)
           /\ Cardinality(S) \in Nat
           /\ Cardinality(S) = 0 <=> S = {}
<1>1. IsFiniteSet(S)
  BY FS_Subset
<1>2. Cardinality(S) \in Nat
  BY <1>1, FS_CardinalityType
<1>3. Cardinality(S) = 0 <=> S = {}
  BY <1>1, FS_EmptySet
<1> QED
  BY <1>1, <1>2, <1>3

\* What joining and leaving a counted set does to its size.
LEMMA CountStep ==
    ASSUME NEW T, IsFiniteSet(T), NEW S \in SUBSET T, NEW R \in SUBSET T,
           NEW x
    PROVE  /\ x \notin S /\ R = S \cup {x} =>
                 Cardinality(R) = Cardinality(S) + 1
           /\ x \in S /\ R = S \ {x} =>
                 /\ Cardinality(R) = Cardinality(S) - 1
                 /\ Cardinality(S) # 0
<1>1. IsFiniteSet(S) /\ Cardinality(S) \in Nat
  BY CountZero
<1>2. ASSUME x \notin S, R = S \cup {x}
      PROVE  Cardinality(R) = Cardinality(S) + 1
  BY <1>1, <1>2, FS_AddElement
<1>3. ASSUME x \in S, R = S \ {x}
      PROVE  Cardinality(R) = Cardinality(S) - 1 /\ Cardinality(S) # 0
  <2>1. Cardinality(R) = Cardinality(S) - 1
    BY <1>1, <1>3, FS_RemoveElement
  <2>2. S # {}
    BY <1>3
  <2> QED
    BY <2>1, <2>2, CountZero
<1> QED
  BY <1>2, <1>3

LEMMA InitGateInv == Init => GateInv
<1> SUFFICES ASSUME Init PROVE GateInv
  OBVIOUS
<1> USE ThreadsAssumption
<1>1. /\ \A c \in Callers : pc[c] = "out"
      /\ \A d \in Drainers : pc[d] = "idle"
  BY DEF Init
<1>2. TypeOK
  BY <1>1 DEF Init, TypeOK, CallerPcs, DrainerPcs
<1>3. Counted = {} /\ Queued = {} /\ Owners = {}
  BY <1>1 DEF Counted, Queued, Owners
<1>4. Cardinality({}) = 0
  BY FS_EmptySet
<1>5. CountExact /\ WaitersExact
  BY <1>3, <1>4 DEF Init, CountExact, WaitersExact
<1>6. DrainingExact /\ OneOwner /\ PendingExact
  BY <1>1, <1>3 DEF Init, DrainingExact, OneOwner, PendingExact
<1>7. HeldMeansQuiet
  BY <1>1 DEF HeldMeansQuiet, Holding
<1> QED
  BY <1>2, <1>5, <1>6, <1>7 DEF GateInv

-----------------------------------------------------------------------------
(* Every step moves one thread; the others keep their class even when it   *)
(* wakes them.                                                             *)

Threads == Callers \cup Drainers

Steady(s) ==
    /\ s \in Callers =>
          /\ pc'[s] \in CallerPcs
          /\ pc'[s] \in {"recheck", "backoff", "in"}
                <=> pc[s] \in {"recheck", "backoff", "in"}
          /\ pc'[s] = "in" <=> pc[s] = "in"
    /\ s \in Drainers =>
          /\ pc'[s] \in DrainerPcs
          /\ pc'[s] \in {"queued", "requeue"} <=> pc[s] \in {"queued", "requeue"}
          /\ pc'[s] \in {"claimed", "waiting", "rewait", "held"}
                <=> pc[s] \in {"claimed", "waiting", "rewait", "held"}
          /\ pc'[s] = "idle" <=> pc[s] = "idle"
          /\ pc'[s] = "held" <=> pc[s] = "held"

\* Thread t goes from one label to another and the rest are steady.
Moves(t, here, there) ==
    /\ pc[t] = here
    /\ pc'[t] = there
    /\ DOMAIN pc' = Threads
    /\ pc' = [s \in Threads |-> pc'[s]]
    /\ \A s \in Threads : s # t => Steady(s)

LEMMA WokenClass ==
    /\ \A l \in CallerPcs :
          /\ Woken(l) \in CallerPcs
          /\ Woken(l) \in {"recheck", "backoff", "in"}
                <=> l \in {"recheck", "backoff", "in"}
          /\ Woken(l) = "in" <=> l = "in"
    /\ \A l \in DrainerPcs :
          /\ Woken(l) \in DrainerPcs
          /\ Woken(l) \in {"queued", "requeue"} <=> l \in {"queued", "requeue"}
          /\ Woken(l) \in {"claimed", "waiting", "rewait", "held"}
                <=> l \in {"claimed", "waiting", "rewait", "held"}
          /\ Woken(l) = "idle" <=> l = "idle"
          /\ Woken(l) = "held" <=> l = "held"
  BY DEF Woken, CallerPcs, DrainerPcs

LEMMA GotoMoves ==
    ASSUME TypeOK, NEW t \in Threads, NEW here, NEW there,
           Goto(t, here, there)
    PROVE  Moves(t, here, there)
<1>1. /\ pc[t] = here
      /\ pc'[t] = there
      /\ DOMAIN pc' = Threads
      /\ pc' = [s \in Threads |-> pc'[s]]
  BY DEF TypeOK, Goto, Threads
<1>2. \A s \in Threads : s # t => pc'[s] = pc[s]
  BY DEF TypeOK, Goto, Threads
<1>3. \A s \in Threads : s # t => Steady(s)
  BY <1>2 DEF TypeOK, Steady
<1> QED
  BY <1>1, <1>3 DEF Moves

LEMMA NotifyMoves ==
    ASSUME TypeOK, NEW t \in Threads, NEW here, NEW there,
           Notify(t, here, there)
    PROVE  Moves(t, here, there)
<1>1. /\ pc[t] = here
      /\ pc'[t] = there
      /\ DOMAIN pc' = Threads
      /\ pc' = [s \in Threads |-> pc'[s]]
  BY DEF TypeOK, Notify, Threads
<1>2. \A s \in Threads : s # t => pc'[s] = Woken(pc[s])
  BY DEF TypeOK, Notify, Threads
<1>3. \A s \in Threads : s # t => Steady(s)
  BY SMT, <1>2, WokenClass DEF TypeOK, Steady
<1> QED
  BY <1>1, <1>3 DEF Moves

\* The type invariant survives a move to a label of the thread's own kind.
LEMMA MovesType ==
    ASSUME TypeOK, NEW t \in Threads, NEW here, NEW there,
           Moves(t, here, there),
           t \in Callers => there \in CallerPcs,
           t \in Drainers => there \in DrainerPcs
    PROVE  /\ pc' \in [Callers \cup Drainers -> CallerPcs \cup DrainerPcs]
           /\ \A c \in Callers : pc'[c] \in CallerPcs
           /\ \A d \in Drainers : pc'[d] \in DrainerPcs
<1>1. \A c \in Callers : pc'[c] \in CallerPcs
  BY DEF Moves, Steady, Threads
<1>2. \A d \in Drainers : pc'[d] \in DrainerPcs
  BY DEF Moves, Steady, Threads
<1>3. \A s \in Threads : pc'[s] \in CallerPcs \cup DrainerPcs
  BY <1>1, <1>2 DEF Threads
<1> QED
  BY <1>1, <1>2, <1>3 DEF Moves, Threads

\* A worker's move leaves the drains' sets alone, a drain's the workers'.
LEMMA CallerMoveKeepsDrains ==
    ASSUME NEW c \in Callers, NEW here, NEW there, Moves(c, here, there)
    PROVE  /\ Queued' = Queued
           /\ Owners' = Owners
           /\ \A d \in Drainers : pc'[d] = "idle" <=> pc[d] = "idle"
           /\ \A d \in Drainers : pc'[d] = "held" <=> pc[d] = "held"
<1>1. \A d \in Drainers : Steady(d)
  BY ThreadsAssumption DEF Moves, Threads
<1> QED
  BY <1>1 DEF Steady, Queued, Owners

LEMMA DrainerMoveKeepsCallers ==
    ASSUME NEW d \in Drainers, NEW here, NEW there, Moves(d, here, there)
    PROVE  /\ Counted' = Counted
           /\ \A c \in Callers : pc'[c] = "in" <=> pc[c] = "in"
<1>1. \A c \in Callers : Steady(c)
  BY ThreadsAssumption DEF Moves, Threads
<1> QED
  BY <1>1 DEF Steady, Counted

-----------------------------------------------------------------------------
(* Preservation, one lemma per kind of step. *)

\* What a worker's step must establish besides the drains' conjuncts.
LEMMA CallerStep ==
    ASSUME GateInv, NEW c \in Callers, NEW here, NEW there,
           Moves(c, here, there), there \in CallerPcs,
           active' \in Nat, CountExact',
           there = "in" => here = "in" \/ Holding = {},
           UNCHANGED <<pending, waiters, draining, drains>>
    PROVE  GateInv'
<1>1. TypeOK'
  BY MovesType, ThreadsAssumption DEF GateInv, TypeOK, Threads
<1>2. /\ Queued' = Queued
      /\ Owners' = Owners
      /\ \A d \in Drainers : pc'[d] = "idle" <=> pc[d] = "idle"
      /\ \A d \in Drainers : pc'[d] = "held" <=> pc[d] = "held"
  BY CallerMoveKeepsDrains
<1>3. WaitersExact'
  BY <1>2 DEF GateInv, WaitersExact
<1>4. DrainingExact' /\ OneOwner' /\ PendingExact'
  BY <1>2 DEF GateInv, DrainingExact, OneOwner, PendingExact
<1>5. Holding' = Holding
  BY <1>2 DEF Holding
<1>6. \A a \in Callers : pc'[a] = "in" => pc[a] = "in" \/ Holding = {}
  BY DEF Moves, Steady, Threads
<1>7. HeldMeansQuiet'
  BY <1>5, <1>6 DEF GateInv, HeldMeansQuiet, Inside
<1> QED
  BY <1>1, <1>3, <1>4, <1>7 DEF GateInv

\* The counted set after a worker's move.
LEMMA CountedMove ==
    ASSUME NEW c \in Callers, NEW here, NEW there, Moves(c, here, there)
    PROVE  Counted' = IF there \in {"recheck", "backoff", "in"}
                      THEN Counted \cup {c} ELSE Counted \ {c}
<1>1. \A a \in Callers : a # c =>
          (pc'[a] \in {"recheck", "backoff", "in"}
              <=> pc[a] \in {"recheck", "backoff", "in"})
  BY DEF Moves, Steady, Threads
<1>2. pc'[c] = there
  BY DEF Moves
<1> QED
  BY <1>1, <1>2 DEF Counted

LEMMA CallerQuiet ==
    ASSUME GateInv, NEW c \in Callers, NEW here, NEW there,
           Moves(c, here, there), there \in CallerPcs,
           there \in {"recheck", "backoff", "in"}
              <=> here \in {"recheck", "backoff", "in"},
           there = "in" => here = "in" \/ Holding = {},
           UNCHANGED <<active, pending, waiters, draining, drains>>
    PROVE  GateInv'
<1>1. c \in Counted <=> here \in {"recheck", "backoff", "in"}
  BY DEF Moves, Counted
<1>2. Counted' = Counted
  BY <1>1, CountedMove DEF Counted
<1>3. CountExact' /\ active' \in Nat
  BY <1>2 DEF GateInv, CountExact, TypeOK
<1> QED
  BY <1>3, CallerStep

LEMMA CallerPublishes ==
    ASSUME GateInv, NEW c \in Callers, NEW here, NEW there,
           Moves(c, here, there),
           here \notin {"recheck", "backoff", "in"},
           there \in {"recheck", "in"},
           there = "in" => Holding = {},
           active' = active + 1,
           UNCHANGED <<pending, waiters, draining, drains>>
    PROVE  GateInv'
<1>1. c \notin Counted
  BY DEF Moves, Counted
<1>2. Counted' = Counted \cup {c}
  BY CountedMove
<1>3. Counted \in SUBSET Callers /\ Counted' \in SUBSET Callers
  BY DEF Counted
<1>4. Cardinality(Counted') = Cardinality(Counted) + 1
  BY <1>1, <1>2, <1>3, CountStep, ThreadsAssumption
<1>5. CountExact' /\ active' \in Nat
  BY SMT, <1>4 DEF GateInv, CountExact, TypeOK
<1>6. there \in CallerPcs
  BY DEF CallerPcs
<1> QED
  BY <1>5, <1>6, CallerStep

LEMMA CallerWithdraws ==
    ASSUME GateInv, NEW c \in Callers, NEW here \in {"backoff", "in"},
           NEW last, NEW next,
           last \in CallerPcs \ {"recheck", "backoff", "in"},
           next \in CallerPcs \ {"recheck", "backoff", "in"},
           Decrement(c, here, last, next)
    PROVE  GateInv'
<1> DEFINE there == IF active = 1 THEN last ELSE next
<1>1. Moves(c, here, there)
  BY GotoMoves DEF GateInv, Decrement, Threads
<1>2. c \in Counted
  BY <1>1 DEF Moves, Counted
<1>3. there \in CallerPcs /\ there \notin {"recheck", "backoff", "in"}
  OBVIOUS
<1> HIDE DEF there
<1>4. Counted' = Counted \ {c}
  BY <1>1, <1>3, CountedMove
<1>5. Counted \in SUBSET Callers /\ Counted' \in SUBSET Callers
  BY DEF Counted
<1>6. /\ Cardinality(Counted') = Cardinality(Counted) - 1
      /\ Cardinality(Counted) # 0
  BY <1>2, <1>4, <1>5, CountStep, ThreadsAssumption
<1>7. active' = active - 1 /\ active # 0 /\ active \in Nat
  BY <1>6 DEF GateInv, CountExact, TypeOK, Decrement
<1>8. CountExact' /\ active' \in Nat
  BY SMT, <1>6, <1>7 DEF GateInv, CountExact
<1>9. there # "in"
  BY <1>3
<1>10. UNCHANGED <<pending, waiters, draining, drains>>
  BY DEF Decrement
<1> QED
  BY <1>1, <1>3, <1>8, <1>9, <1>10, CallerStep

\* What lets a worker in also says that no drain is under way.
LEMMA OpenMeansNoDrain ==
    ASSUME GateInv, ~pending \/ CallersMayPass
    PROVE  \A d \in Drainers : pc[d] = "idle"
<1>1. CASE ~pending
  BY <1>1 DEF GateInv, PendingExact
<1>2. CASE CallersMayPass
  <2>1. \A d \in Drainers : d \notin Owners
    BY <1>2 DEF GateInv, DrainingExact, CallersMayPass
  <2>2. Queued = {}
    <3>1. Queued \in SUBSET Drainers
      BY DEF Queued
    <3>2. Cardinality(Queued) = 0
      BY <1>2 DEF GateInv, WaitersExact, CallersMayPass
    <3> QED
      BY <3>1, <3>2, CountZero, ThreadsAssumption
  <2>3. \A d \in Drainers : pc[d] \in DrainerPcs
    BY DEF GateInv, TypeOK
  <2> QED
    BY <2>1, <2>2, <2>3 DEF Owners, Queued, DrainerPcs
<1> QED
  BY <1>1, <1>2

LEMMA EnterInv ==
    ASSUME GateInv, NEW c \in Callers, Enter(c)
    PROVE  GateInv'
<1> c \in Threads
  BY DEF Threads
<1> TypeOK
  BY DEF GateInv
<1>0. ~pending \/ CallersMayPass => Holding = {}
  BY OpenMeansNoDrain DEF Holding
<1>1. CASE Load(c)
  <2>1. Moves(c, "out", IF pending THEN "lock" ELSE "add")
    BY <1>1, GotoMoves DEF Load
  <2> QED
    BY <1>1, <2>1, CallerQuiet DEF Load, CallerPcs
<1>2. CASE Publish(c)
  <2>1. Moves(c, "add", "recheck")
    BY <1>2, GotoMoves DEF Publish
  <2> QED
    BY <1>2, <2>1, CallerPublishes DEF Publish
<1>3. CASE Recheck(c)
  <2>1. Moves(c, "recheck", IF pending THEN "backoff" ELSE "in")
    BY <1>3, GotoMoves DEF Recheck
  <2> QED
    BY <1>0, <1>3, <2>1, CallerQuiet DEF Recheck, CallerPcs
<1>4. CASE EnterLocked(c)
  <2>1. Moves(c, "lock", "in")
    BY <1>4, GotoMoves DEF EnterLocked
  <2> QED
    BY <1>0, <1>4, <2>1, CallerPublishes DEF EnterLocked
<1>5. CASE Sleep(c)
  <2>1. Moves(c, "lock", "asleep")
    BY <1>5, GotoMoves DEF Sleep
  <2> QED
    BY <1>5, <2>1, CallerQuiet DEF Sleep, CallerPcs
<1> QED
  BY <1>1, <1>2, <1>3, <1>4, <1>5 DEF Enter

\* end() from either of its two callers.
LEMMA LeaveInv ==
    ASSUME GateInv, NEW c \in Callers, NEW here \in {"backoff", "in"},
           NEW last, NEW notify, NEW next,
           last \in CallerPcs \ {"recheck", "backoff", "in"},
           notify \in CallerPcs \ {"recheck", "backoff", "in"},
           next \in CallerPcs \ {"recheck", "backoff", "in"},
           \/ Decrement(c, here, last, next)
           \/ LoadPending(c, last, notify, next)
           \/ NotifyLocked(c, notify, next)
    PROVE  GateInv'
<1> c \in Threads
  BY DEF Threads
<1> TypeOK
  BY DEF GateInv
<1>1. CASE Decrement(c, here, last, next)
  BY <1>1, CallerWithdraws
<1>2. CASE LoadPending(c, last, notify, next)
  <2>1. Moves(c, last, IF pending THEN notify ELSE next)
    BY <1>2, GotoMoves DEF LoadPending
  <2> QED
    BY <1>2, <2>1, CallerQuiet DEF LoadPending
<1>3. CASE NotifyLocked(c, notify, next)
  <2>1. Moves(c, notify, next)
    BY <1>3, NotifyMoves DEF NotifyLocked
  <2> QED
    BY <1>3, <2>1, CallerQuiet DEF NotifyLocked
<1> QED
  BY <1>1, <1>2, <1>3

LEMMA BackOffEndInv ==
    ASSUME GateInv, NEW c \in Callers, BackOff(c) \/ End(c)
    PROVE  GateInv'
<1>1. CASE BackOff(c)
  BY <1>1, LeaveInv DEF BackOff, CallerPcs
<1>2. CASE End(c)
  BY <1>2, LeaveInv DEF End, CallerPcs
<1> QED
  BY <1>1, <1>2

-----------------------------------------------------------------------------
(* Drains. *)

\* What a drain's step must establish besides the workers' conjuncts.
LEMMA DrainerStep ==
    ASSUME GateInv, NEW d \in Drainers, NEW here, NEW there,
           Moves(d, here, there), there \in DrainerPcs,
           waiters' \in Nat, WaitersExact',
           pending' \in BOOLEAN, draining' \in BOOLEAN, drains' \in Nat,
           DrainingExact', OneOwner', PendingExact',
           there = "held" => here = "held" \/ active = 0,
           UNCHANGED active
    PROVE  GateInv'
<1>1. TypeOK'
  BY MovesType, ThreadsAssumption DEF GateInv, TypeOK, Threads
<1>2. /\ Counted' = Counted
      /\ \A c \in Callers : pc'[c] = "in" <=> pc[c] = "in"
  BY DrainerMoveKeepsCallers
<1>3. CountExact'
  BY <1>2 DEF GateInv, CountExact
<1>4. \A e \in Drainers : pc'[e] = "held" => pc[e] = "held" \/ active = 0
  BY DEF Moves, Steady, Threads
<1>5. active = 0 => Inside = {}
  <2>1. Counted \in SUBSET Callers
    BY DEF Counted
  <2>2. active = 0 => Counted = {}
    BY <2>1, CountZero, ThreadsAssumption DEF GateInv, CountExact
  <2> QED
    BY <2>2 DEF Counted, Inside
<1>6. Inside' = Inside
  BY <1>2 DEF Inside
<1>7. HeldMeansQuiet'
  BY <1>4, <1>5, <1>6 DEF GateInv, HeldMeansQuiet, Holding
<1> QED
  BY <1>1, <1>3, <1>7 DEF GateInv

\* The drains' sets after a drain's move.
LEMMA DrainerSets ==
    ASSUME NEW d \in Drainers, NEW here, NEW there, Moves(d, here, there)
    PROVE  /\ Queued' = IF there \in {"queued", "requeue"}
                        THEN Queued \cup {d} ELSE Queued \ {d}
           /\ Owners' = IF there \in {"claimed", "waiting", "rewait", "held"}
                        THEN Owners \cup {d} ELSE Owners \ {d}
           /\ \A e \in Drainers : e # d => (pc'[e] = "idle" <=> pc[e] = "idle")
           /\ pc[d] = here /\ pc'[d] = there
<1>1. \A e \in Drainers : e # d => Steady(e)
  BY DEF Moves, Threads
<1>2. pc[d] = here /\ pc'[d] = there
  BY DEF Moves
<1>3. Queued' = IF there \in {"queued", "requeue"}
                THEN Queued \cup {d} ELSE Queued \ {d}
  BY <1>1, <1>2 DEF Steady, Queued
<1>4. Owners' = IF there \in {"claimed", "waiting", "rewait", "held"}
                THEN Owners \cup {d} ELSE Owners \ {d}
  BY <1>1, <1>2 DEF Steady, Owners
<1>5. \A e \in Drainers : e # d => (pc'[e] = "idle" <=> pc[e] = "idle")
  BY <1>1 DEF Steady
<1> QED
  BY <1>2, <1>3, <1>4, <1>5

\* A drain that changes neither its class nor the variables.
LEMMA DrainerQuiet ==
    ASSUME GateInv, NEW d \in Drainers, NEW here, NEW there,
           Moves(d, here, there), there \in DrainerPcs,
           there \in {"queued", "requeue"} <=> here \in {"queued", "requeue"},
           there \in {"claimed", "waiting", "rewait", "held"}
              <=> here \in {"claimed", "waiting", "rewait", "held"},
           there = "idle" <=> here = "idle",
           there = "held" => here = "held" \/ active = 0,
           pending' = pending, waiters' = waiters, draining' = draining,
           UNCHANGED <<active, drains>>
    PROVE  GateInv'
<1>1. Queued' = Queued
  BY DrainerSets DEF Queued
<1>2. Owners' = Owners
  BY DrainerSets DEF Owners
<1>3. \A e \in Drainers : pc'[e] = "idle" <=> pc[e] = "idle"
  BY DrainerSets
<1>4. WaitersExact' /\ DrainingExact' /\ OneOwner' /\ PendingExact'
  BY <1>1, <1>2, <1>3
     DEF GateInv, WaitersExact, DrainingExact, OneOwner, PendingExact
<1> QED
  BY <1>4, DrainerStep DEF GateInv, TypeOK

LEMMA DrainStartInv ==
    ASSUME GateInv, NEW d \in Drainers, DrainStart(d)
    PROVE  GateInv'
<1> DEFINE there == IF draining THEN "queued" ELSE "claimed"
<1>1. Moves(d, "idle", there)
  BY GotoMoves DEF GateInv, DrainStart, Threads
<1>2. d \notin Queued /\ d \notin Owners
  BY <1>1 DEF Moves, Queued, Owners
<1>3. PendingExact'
  BY <1>1 DEF DrainStart, PendingExact, Moves
<1>4. CASE draining
  <2>1. Queued' = Queued \cup {d} /\ Owners' = Owners
    BY SMT, <1>1, <1>2, <1>4, DrainerSets
  <2>2. Queued \in SUBSET Drainers /\ Queued' \in SUBSET Drainers
    BY DEF Queued
  <2>3. Cardinality(Queued') = Cardinality(Queued) + 1
    BY <1>2, <2>1, <2>2, CountStep, ThreadsAssumption
  <2>4. WaitersExact' /\ waiters' \in Nat
    BY SMT, <1>4, <2>3 DEF GateInv, WaitersExact, TypeOK, DrainStart
  <2>5. DrainingExact' /\ OneOwner'
    BY <1>4, <2>1 DEF GateInv, DrainingExact, OneOwner, DrainStart
  <2> QED
    BY SMT, <1>1, <1>3, <1>4, <2>4, <2>5, DrainerStep
       DEF GateInv, TypeOK, DrainStart, DrainerPcs
<1>5. CASE ~draining
  <2>1. Queued' = Queued /\ Owners' = Owners \cup {d}
    BY SMT, <1>1, <1>2, <1>5, DrainerSets
  <2>2. WaitersExact' /\ waiters' \in Nat
    BY <1>5, <2>1 DEF GateInv, WaitersExact, TypeOK, DrainStart
  <2>3. DrainingExact'
    BY <2>1 DEF DrainingExact, DrainStart
  <2>4. OneOwner'
    BY <1>5, <2>1 DEF GateInv, DrainingExact, OneOwner
  <2> QED
    BY SMTT(30), <1>1, <1>3, <1>5, <2>2, <2>3, <2>4, DrainerStep
       DEF GateInv, TypeOK, DrainStart, DrainerPcs
<1> QED
  BY <1>4, <1>5 DEF GateInv, TypeOK

LEMMA DrainClaimInv ==
    ASSUME GateInv, NEW d \in Drainers, DrainClaim(d)
    PROVE  GateInv'
<1> DEFINE there == IF draining THEN "queued" ELSE "claimed"
<1>1. Moves(d, "requeue", there)
  BY GotoMoves DEF GateInv, DrainClaim, Threads
<1>2. d \in Queued /\ d \notin Owners
  BY <1>1 DEF Moves, Queued, Owners
<1>3. CASE draining
  BY <1>1, <1>3, DrainerQuiet DEF DrainClaim, DrainerPcs, GateInv, TypeOK
<1>4. CASE ~draining
  <2>1. Queued' = Queued \ {d} /\ Owners' = Owners \cup {d}
    BY <1>1, <1>4, DrainerSets
  <2>2. Queued \in SUBSET Drainers /\ Queued' \in SUBSET Drainers
    BY DEF Queued
  <2>3. /\ Cardinality(Queued') = Cardinality(Queued) - 1
        /\ Cardinality(Queued) # 0
    BY <1>2, <2>1, <2>2, CountStep, ThreadsAssumption
  <2>4. WaitersExact' /\ waiters' \in Nat
    BY SMT, <1>4, <2>3 DEF GateInv, WaitersExact, TypeOK, DrainClaim
  <2>5. DrainingExact'
    BY <2>1 DEF DrainingExact, DrainClaim
  <2>6. OneOwner'
    BY <1>4, <2>1 DEF GateInv, DrainingExact, OneOwner
  <2>7. pending /\ PendingExact'
    BY <1>1 DEF GateInv, PendingExact, DrainClaim, Moves
  <2> QED
    BY <1>1, <1>4, <2>4, <2>5, <2>6, <2>7, DrainerStep
       DEF GateInv, TypeOK, DrainClaim, DrainerPcs
<1> QED
  BY <1>3, <1>4 DEF GateInv, TypeOK

LEMMA DrainCheckInv ==
    ASSUME GateInv, NEW d \in Drainers, DrainCheck(d)
    PROVE  GateInv'
<1> DEFINE there == IF active = 0 THEN "held" ELSE "waiting"
<1>1. PICK here \in {"claimed", "rewait"} : Goto(d, here, there)
  BY DEF DrainCheck
<1>2. Moves(d, here, there)
  BY <1>1, GotoMoves DEF GateInv, Threads
<1> QED
  BY <1>2, DrainerQuiet DEF DrainCheck, DrainerPcs

LEMMA ResumeInv ==
    ASSUME GateInv, NEW d \in Drainers, Resume(d)
    PROVE  GateInv'
<1>1. Moves(d, "held", "idle")
  BY NotifyMoves DEF GateInv, Resume, Threads
<1>2. d \in Owners /\ d \notin Queued
  BY <1>1 DEF Moves, Owners, Queued
<1>3. Queued' = Queued /\ Owners' = Owners \ {d}
  BY SMT, <1>1, <1>2, DrainerSets
<1>4. \A e \in Drainers : e \notin Owners'
  BY <1>2, <1>3 DEF GateInv, OneOwner
<1>5. WaitersExact'
  BY <1>3 DEF GateInv, WaitersExact, Resume
<1>6. DrainingExact' /\ OneOwner'
  BY <1>4 DEF DrainingExact, OneOwner, Resume
<1>7. \A e \in Drainers : pc'[e] \in DrainerPcs
  BY <1>1, MovesType, ThreadsAssumption DEF GateInv, Threads, DrainerPcs
<1>8. \A e \in Drainers : pc'[e] # "idle" <=> e \in Queued
  BY <1>3, <1>4, <1>7 DEF Queued, Owners, DrainerPcs
<1>9. waiters # 0 <=> \E e \in Drainers : e \in Queued
  <2>1. Queued \in SUBSET Drainers
    BY DEF Queued
  <2>2. Cardinality(Queued) = 0 <=> Queued = {}
    BY <2>1, CountZero, ThreadsAssumption
  <2> QED
    BY <2>1, <2>2 DEF GateInv, WaitersExact
<1>10. PendingExact'
  BY <1>8, <1>9 DEF PendingExact, Resume
<1> QED
  BY <1>1, <1>5, <1>6, <1>10, DrainerStep
     DEF GateInv, TypeOK, Resume, DrainerPcs

LEMMA SpuriousInv ==
    ASSUME GateInv, NEW t \in Threads, SpuriousWakeup(t)
    PROVE  GateInv'
<1>1. Moves(t, pc[t], Woken(pc[t]))
  BY GotoMoves DEF GateInv, SpuriousWakeup
<1>2. CASE t \in Callers
  <2>1. pc[t] = "asleep" /\ Woken(pc[t]) = "lock"
    BY <1>2 DEF SpuriousWakeup, GateInv, TypeOK, CallerPcs, Woken
  <2> QED
    BY <1>1, <1>2, <2>1, CallerQuiet DEF SpuriousWakeup, CallerPcs
<1>3. CASE t \in Drainers
  <2>1. \/ pc[t] = "queued" /\ Woken(pc[t]) = "requeue"
        \/ pc[t] = "waiting" /\ Woken(pc[t]) = "rewait"
    BY <1>3 DEF SpuriousWakeup, GateInv, TypeOK, DrainerPcs, Woken
  <2> QED
    BY <1>1, <1>3, <2>1, DrainerQuiet DEF SpuriousWakeup, DrainerPcs
<1> QED
  BY <1>2, <1>3 DEF Threads

LEMMA NextGateInv == GateInv /\ [Next]_vars => GateInv'
<1> SUFFICES ASSUME GateInv, [Next]_vars PROVE GateInv'
  OBVIOUS
<1>1. CASE UNCHANGED vars
  BY <1>1 DEF vars, GateInv, TypeOK, CountExact, WaitersExact, DrainingExact,
     OneOwner, PendingExact, HeldMeansQuiet, Counted, Queued, Owners, Holding,
     Inside
<1>2. ASSUME NEW c \in Callers, Enter(c) \/ BackOff(c) \/ End(c)
      PROVE  GateInv'
  BY <1>2, EnterInv, BackOffEndInv
<1>3. ASSUME NEW d \in Drainers, Drain(d) \/ Resume(d)
      PROVE  GateInv'
  BY <1>3, DrainStartInv, DrainClaimInv, DrainCheckInv, ResumeInv DEF Drain
<1>4. ASSUME NEW t \in Callers \cup Drainers, SpuriousWakeup(t)
      PROVE  GateInv'
  BY <1>4, SpuriousInv DEF Threads
<1> QED
  BY <1>1, <1>2, <1>3, <1>4 DEF Next

\* GateInv is an invariant of the call gate.
THEOREM CallGateInvariant == Spec => []GateInv
<1>1. Init => GateInv
  BY InitGateInv
<1>2. GateInv /\ [Next]_vars => GateInv'
  BY NextGateInv
<1> QED
  BY <1>1, <1>2, PTL DEF Spec

\* While a drain holds the gate no CUDA handler runs, however many workers and
\* drains there are.
THEOREM HeldGateIsQuiet == Spec => []HeldMeansQuiet
<1>1. GateInv => HeldMeansQuiet
  BY DEF GateInv
<1> QED
  BY <1>1, CallGateInvariant, PTL

-----------------------------------------------------------------------------
(* The gate implements GateSpec. *)

LEMMA InitRefines == Init => Gate!GInit
<1> SUFFICES ASSUME Init PROVE Gate!GInit
  OBVIOUS
<1>1. /\ \A c \in Callers : pc[c] = "out"
      /\ \A d \in Drainers : pc[d] = "idle"
  BY ThreadsAssumption DEF Init
<1> QED
  BY <1>1 DEF Gate!GInit, Inside, Closing, Holding

\* What a worker's and a drain's move change of the abstract state.
LEMMA CallerRefines ==
    ASSUME NEW c \in Callers, NEW here, NEW there, Moves(c, here, there)
    PROVE  /\ Inside' = IF there = "in" THEN Inside \cup {c} ELSE Inside \ {c}
           /\ c \in Inside <=> here = "in"
           /\ Closing' = Closing
           /\ Holding' = Holding
<1>1. \A a \in Callers : a # c => (pc'[a] = "in" <=> pc[a] = "in")
  BY DEF Moves, Steady, Threads
<1>2. pc[c] = here /\ pc'[c] = there
  BY DEF Moves
<1>3. Inside' = IF there = "in" THEN Inside \cup {c} ELSE Inside \ {c}
  BY <1>1, <1>2 DEF Inside
<1>4. c \in Inside <=> here = "in"
  BY <1>2 DEF Inside
<1>5. Closing' = Closing /\ Holding' = Holding
  BY CallerMoveKeepsDrains DEF Closing, Holding
<1> QED
  BY <1>3, <1>4, <1>5

LEMMA DrainerRefines ==
    ASSUME NEW d \in Drainers, NEW here, NEW there, Moves(d, here, there)
    PROVE  /\ Inside' = Inside
           /\ Closing' = IF there # "idle" THEN Closing \cup {d}
                                           ELSE Closing \ {d}
           /\ Holding' = IF there = "held" THEN Holding \cup {d}
                                           ELSE Holding \ {d}
           /\ d \in Closing <=> here # "idle"
           /\ d \in Holding <=> here = "held"
<1>1. Inside' = Inside
  BY DrainerMoveKeepsCallers DEF Inside
<1>2. \A e \in Drainers : e # d =>
         /\ pc'[e] = "idle" <=> pc[e] = "idle"
         /\ pc'[e] = "held" <=> pc[e] = "held"
  BY DEF Moves, Steady, Threads
<1>3. pc[d] = here /\ pc'[d] = there
  BY DEF Moves
<1>4. Closing' = IF there # "idle" THEN Closing \cup {d} ELSE Closing \ {d}
  BY <1>2, <1>3 DEF Closing
<1>5. Holding' = IF there = "held" THEN Holding \cup {d} ELSE Holding \ {d}
  BY <1>2, <1>3 DEF Holding
<1>6. /\ d \in Closing <=> here # "idle"
      /\ d \in Holding <=> here = "held"
  BY <1>3 DEF Closing, Holding
<1> QED
  BY <1>1, <1>4, <1>5, <1>6

\* A worker's step admits it, lets it leave or changes nothing.
LEMMA CallerMoveRefines ==
    ASSUME GateInv, NEW c \in Callers, NEW here, NEW there,
           Moves(c, here, there),
           there = "in" /\ here # "in" => Closing = {}
    PROVE  [Gate!GNext]_(Gate!gvars)
<1>1. CASE there = "in" /\ here # "in"
  <2>1. Gate!Admit(c)
    BY <1>1, CallerRefines DEF Gate!Admit
  <2> QED
    BY <2>1 DEF Gate!GNext
<1>2. CASE there # "in" /\ here = "in"
  <2>1. Gate!Leave(c)
    BY <1>2, CallerRefines DEF Gate!Leave
  <2> QED
    BY <2>1 DEF Gate!GNext
<1>3. CASE there = "in" <=> here = "in"
  <2>1. Inside' = Inside
    BY <1>3, CallerRefines
  <2>2. Closing' = Closing /\ Holding' = Holding
    BY CallerRefines
  <2> QED
    BY <2>1, <2>2 DEF Gate!gvars
<1> QED
  BY <1>1, <1>2, <1>3

\* A drain's step that neither grants nor reopens the gate.
LEMMA DrainerMoveRefines ==
    ASSUME NEW d \in Drainers, NEW here, NEW there, Moves(d, here, there),
           here # "held", there # "held", there # "idle"
    PROVE  [Gate!GNext]_(Gate!gvars)
<1>1. Holding' = Holding
  BY DrainerRefines
<1>2. CASE here = "idle"
  <2>1. Gate!Ask(d)
    BY <1>1, <1>2, DrainerRefines DEF Gate!Ask
  <2> QED
    BY <2>1 DEF Gate!GNext
<1>3. CASE here # "idle"
  <2>1. Inside' = Inside /\ Closing' = Closing
    BY <1>3, DrainerRefines
  <2> QED
    BY <1>1, <2>1 DEF Gate!gvars
<1> QED
  BY <1>2, <1>3

LEMMA CallerStepRefines ==
    ASSUME GateInv, NEW c \in Callers, Enter(c) \/ BackOff(c) \/ End(c)
    PROVE  [Gate!GNext]_(Gate!gvars)
<1> c \in Threads
  BY DEF Threads
<1> TypeOK
  BY DEF GateInv
<1>0. ~pending \/ CallersMayPass => Closing = {}
  BY OpenMeansNoDrain DEF Closing
<1>1. CASE Load(c) \/ Publish(c) \/ Sleep(c)
  <2>1. \E here, there : Moves(c, here, there) /\ there # "in"
    BY SMT, <1>1, GotoMoves DEF Load, Publish, Sleep
  <2> QED
    BY <2>1, CallerMoveRefines
<1>2. CASE Recheck(c)
  <2>1. Moves(c, "recheck", IF pending THEN "backoff" ELSE "in")
    BY <1>2, GotoMoves DEF Recheck
  <2> QED
    BY <1>0, <2>1, CallerMoveRefines
<1>3. CASE EnterLocked(c)
  <2>1. Moves(c, "lock", "in")
    BY <1>3, GotoMoves DEF EnterLocked
  <2> QED
    BY <1>0, <1>3, <2>1, CallerMoveRefines DEF EnterLocked
<1>4. CASE BackOff(c)
  <2>1. \E here, there : Moves(c, here, there) /\ there # "in"
    BY SMT, <1>4, GotoMoves, NotifyMoves
       DEF BackOff, Decrement, LoadPending, NotifyLocked
  <2> QED
    BY <2>1, CallerMoveRefines
<1>5. CASE End(c)
  <2>1. \E here, there : Moves(c, here, there) /\ there # "in"
    BY SMT, <1>5, GotoMoves, NotifyMoves
       DEF End, Decrement, LoadPending, NotifyLocked
  <2> QED
    BY <2>1, CallerMoveRefines
<1> QED
  BY <1>1, <1>2, <1>3, <1>4, <1>5 DEF Enter

LEMMA DrainerStepRefines ==
    ASSUME GateInv, GateInv', NEW d \in Drainers, Drain(d) \/ Resume(d)
    PROVE  [Gate!GNext]_(Gate!gvars)
<1> d \in Threads
  BY DEF Threads
<1> TypeOK
  BY DEF GateInv
<1>1. CASE DrainStart(d)
  <2>1. Moves(d, "idle", IF draining THEN "queued" ELSE "claimed")
    BY <1>1, GotoMoves DEF DrainStart
  <2> QED
    BY <2>1, DrainerMoveRefines
<1>2. CASE DrainClaim(d)
  <2>1. Moves(d, "requeue", IF draining THEN "queued" ELSE "claimed")
    BY <1>2, GotoMoves DEF DrainClaim
  <2> QED
    BY <2>1, DrainerMoveRefines
<1>3. CASE DrainCheck(d)
  <2>1. PICK here \in {"claimed", "rewait"} :
            Moves(d, here, IF active = 0 THEN "held" ELSE "waiting")
    BY <1>3, GotoMoves DEF DrainCheck
  <2>2. CASE active # 0
    BY <2>1, <2>2, DrainerMoveRefines
  <2>3. CASE active = 0
    <3>1. d \in Owners /\ d \notin Holding
      BY <2>1 DEF Moves, Owners, Holding
    <3>2. Holding = {}
      BY <3>1 DEF GateInv, OneOwner, Owners, Holding
    <3>3. Inside' = Inside /\ Closing' = Closing /\ Holding' = {d}
          /\ d \in Closing
      BY <2>1, <2>3, <3>2, DrainerRefines
    <3>4. Inside = {}
      BY <3>3 DEF GateInv, HeldMeansQuiet
    <3>5. Gate!Hold(d)
      BY <3>2, <3>3, <3>4 DEF Gate!Hold
    <3> QED
      BY <3>5 DEF Gate!GNext
  <2> QED
    BY <2>2, <2>3
<1>4. CASE Resume(d)
  <2>1. Moves(d, "held", "idle")
    BY <1>4, NotifyMoves DEF Resume
  <2>2. d \in Holding
    BY <2>1, DrainerRefines
  <2>3. \A e \in Holding : e = d
    BY <2>2 DEF GateInv, OneOwner, Owners, Holding
  <2>4. Holding' = {} /\ Inside' = Inside /\ Closing' = Closing \ {d}
    BY <2>1, <2>3, DrainerRefines
  <2>5. Gate!Reopen(d)
    BY <2>2, <2>4 DEF Gate!Reopen
  <2> QED
    BY <2>5 DEF Gate!GNext
<1> QED
  BY <1>1, <1>2, <1>3, <1>4 DEF Drain

LEMMA SpuriousRefines ==
    ASSUME GateInv, NEW t \in Threads, SpuriousWakeup(t)
    PROVE  [Gate!GNext]_(Gate!gvars)
<1>1. Moves(t, pc[t], Woken(pc[t]))
  BY GotoMoves DEF GateInv, SpuriousWakeup
<1>2. /\ pc[t] \notin {"in", "idle", "held"}
      /\ Woken(pc[t]) \in {"lock", "requeue", "rewait"}
  BY DEF SpuriousWakeup, Woken
<1>3. CASE t \in Callers
  BY <1>1, <1>2, <1>3, CallerMoveRefines
<1>4. CASE t \in Drainers
  BY <1>1, <1>2, <1>4, DrainerMoveRefines
<1> QED
  BY <1>3, <1>4 DEF Threads

LEMMA NextRefines ==
    ASSUME GateInv, GateInv', [Next]_vars
    PROVE  [Gate!GNext]_(Gate!gvars)
<1>1. CASE UNCHANGED vars
  BY <1>1 DEF vars, Gate!gvars, Inside, Closing, Holding
<1>2. ASSUME NEW c \in Callers, Enter(c) \/ BackOff(c) \/ End(c)
      PROVE  [Gate!GNext]_(Gate!gvars)
  BY <1>2, CallerStepRefines
<1>3. ASSUME NEW d \in Drainers, Drain(d) \/ Resume(d)
      PROVE  [Gate!GNext]_(Gate!gvars)
  BY <1>3, DrainerStepRefines
<1>4. ASSUME NEW t \in Callers \cup Drainers, SpuriousWakeup(t)
      PROVE  [Gate!GNext]_(Gate!gvars)
  BY <1>4, SpuriousRefines DEF Threads
<1> QED
  BY <1>1, <1>2, <1>3, <1>4 DEF Next

\* The gate of checkpoint.cpp implements GateSpec: nobody is admitted between
\* the first store of pending_ and the last resume, and drains take turns.
THEOREM CallGateImplementsGate == Spec => ImplementsGate
<1>1. Init => Gate!GInit
  BY InitRefines
<1>2. GateInv /\ GateInv' /\ [Next]_vars => [Gate!GNext]_(Gate!gvars)
  BY NextRefines
<1> QED
  BY <1>1, <1>2, CallGateInvariant, PTL DEF Spec, ImplementsGate, Gate!GSpec

=============================================================================
