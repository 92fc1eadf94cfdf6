---------------------------- MODULE HandoffProofs ----------------------------
(***************************************************************************)
(* CaptureGate implements GateSpec for any finite sets of captures and     *)
(* checkpoints.  The counters are what the gate decides by, so the         *)
(* invariant says what each of them counts.  A handoff uses the gate as    *)
(* CaptureGate describes it, so that this holds of the composition too;    *)
(* from it follows that no capture is under way while requests are paused, *)
(* for any number of threads and of connections.                           *)
(***************************************************************************)
EXTENDS Handoff, FiniteSetTheorems, TLAPS

\* Steps are tried with Zenon first, then with SMT.
USE ZenonT(30), SMTT(30)

\* Captures that admitted_begins_ and active_captures_ count.
Admitted == {c \in Captures : pc[c] = "reserved"}
Running == {c \in Captures : pc[c] = "active"}
\* Checkpoints that checkpoint_waiters_ counts, and the one that
\* checkpoint_active_ stands for.
Queued == {k \in Checkpoints : pc[k] \in {"queued", "requeue"}}
Owners == {k \in Checkpoints : pc[k] \in {"waiting", "rewait", "held"}}

CapturesExact == admitted = Cardinality(Admitted) /\ active = Cardinality(Running)
WaitersExact == waiters = Cardinality(Queued)
OwnerExact ==
    /\ held <=> Owners # {}
    /\ \A j, k \in Owners : j = k
HeldIsQuiet == Holding # {} => UnderWay = {}

CaptureInv == TypeOK /\ CapturesExact /\ WaitersExact /\ OwnerExact /\ HeldIsQuiet

-----------------------------------------------------------------------------
(* Counting *)

\* The size of a subset of a finite set, and when it is 0.
LEMMA SizeZero ==
    ASSUME NEW T, IsFiniteSet(T), NEW S \in SUBSET T
    PROVE  /\ IsFiniteSet(S)
           /\ Cardinality(S) \in Nat
           /\ Cardinality(S) = 0 <=> S = {}
<1>1. IsFiniteSet(S)
  BY FS_Subset
<1>2. Cardinality(S) \in Nat
  BY <1>1, FS_CardinalityType
<1>3. Cardinality(S) = 0 <=> S = {}
  BY <1>1, FS_EmptySet
<1> QED
  BY <1>1, <1>2, <1>3

LEMMA SizeAdd ==
    ASSUME NEW T, IsFiniteSet(T), NEW S \in SUBSET T, NEW x, x \notin S
    PROVE  Cardinality(S \cup {x}) = Cardinality(S) + 1
  BY SizeZero, FS_AddElement

LEMMA SizeRemove ==
    ASSUME NEW T, IsFiniteSet(T), NEW S \in SUBSET T, NEW x \in S
    PROVE  Cardinality(S \ {x}) = Cardinality(S) - 1 /\ Cardinality(S) # 0
<1>1. Cardinality(S \ {x}) = Cardinality(S) - 1
  BY SizeZero, FS_RemoveElement
<1>2. S # {}
  OBVIOUS
<1> QED
  BY <1>1, <1>2, SizeZero

-----------------------------------------------------------------------------
(* A step moves one thread; a notify_all() changes no other thread's class. *)

SameClass(here, there) ==
    /\ here \in CapturePcs =>
          /\ there \in CapturePcs
          /\ there = "reserved" <=> here = "reserved"
          /\ there = "active" <=> here = "active"
    /\ here \in CheckpointPcs =>
          /\ there \in CheckpointPcs
          /\ there \in {"queued", "requeue"} <=> here \in {"queued", "requeue"}
          /\ there \in {"waiting", "rewait", "held"}
                <=> here \in {"waiting", "rewait", "held"}
          /\ there = "idle" <=> here = "idle"
          /\ there = "held" <=> here = "held"

Moves(t, there) ==
    /\ DOMAIN pc' = Captures \cup Checkpoints
    /\ pc' = [s \in Captures \cup Checkpoints |-> pc'[s]]
    /\ pc'[t] = there
    /\ \A s \in Captures \cup Checkpoints : s # t => SameClass(pc[s], pc'[s])

LEMMA WokenClass ==
    ASSUME NEW l \in CapturePcs \cup CheckpointPcs
    PROVE  SameClass(l, l) /\ SameClass(l, Woken(l))
  BY DEF SameClass, Woken, CapturePcs, CheckpointPcs

LEMMA GotoMoves ==
    ASSUME TypeOK, NEW t \in Captures \cup Checkpoints, NEW there, Goto(t, there)
    PROVE  Moves(t, there)
<1>1. /\ DOMAIN pc' = Captures \cup Checkpoints
      /\ pc' = [s \in Captures \cup Checkpoints |-> pc'[s]]
      /\ pc'[t] = there
      /\ \A s \in Captures \cup Checkpoints : s # t => pc'[s] = pc[s]
  BY DEF TypeOK, Goto
<1>2. \A s \in Captures \cup Checkpoints : pc[s] \in CapturePcs \cup CheckpointPcs
  BY DEF TypeOK
<1> QED
  BY <1>1, <1>2, WokenClass DEF Moves

LEMMA NotifyMoves ==
    ASSUME TypeOK, NEW t \in Captures \cup Checkpoints, NEW there, NotifyAll(t, there)
    PROVE  Moves(t, there)
<1>1. /\ DOMAIN pc' = Captures \cup Checkpoints
      /\ pc' = [s \in Captures \cup Checkpoints |-> pc'[s]]
      /\ pc'[t] = there
      /\ \A s \in Captures \cup Checkpoints : s # t => pc'[s] = Woken(pc[s])
  BY DEF TypeOK, NotifyAll
<1>2. \A s \in Captures \cup Checkpoints : pc[s] \in CapturePcs \cup CheckpointPcs
  BY DEF TypeOK
<1> QED
  BY <1>1, <1>2, WokenClass DEF Moves

\* What the move of a capture does to the sets.
LEMMA CaptureMoves ==
    ASSUME TypeOK, NEW c \in Captures, NEW there \in CapturePcs, Moves(c, there)
    PROVE  /\ pc' \in [Captures \cup Checkpoints -> CapturePcs \cup CheckpointPcs]
           /\ \A a \in Captures : pc'[a] \in CapturePcs
           /\ \A k \in Checkpoints : pc'[k] \in CheckpointPcs
           /\ Admitted' = IF there = "reserved" THEN Admitted \cup {c} ELSE Admitted \ {c}
           /\ Running' = IF there = "active" THEN Running \cup {c} ELSE Running \ {c}
           /\ UnderWay' = IF there \in {"reserved", "active"}
                            THEN UnderWay \cup {c} ELSE UnderWay \ {c}
           /\ Queued' = Queued /\ Owners' = Owners
           /\ Closing' = Closing /\ Holding' = Holding
<1>1. \A a \in Captures : a # c =>
          /\ pc'[a] \in CapturePcs
          /\ pc'[a] = "reserved" <=> pc[a] = "reserved"
          /\ pc'[a] = "active" <=> pc[a] = "active"
  BY DEF TypeOK, Moves, SameClass
<1>2. \A k \in Checkpoints :
          /\ pc'[k] \in CheckpointPcs
          /\ pc'[k] \in {"queued", "requeue"} <=> pc[k] \in {"queued", "requeue"}
          /\ pc'[k] \in {"waiting", "rewait", "held"}
                <=> pc[k] \in {"waiting", "rewait", "held"}
          /\ pc'[k] = "idle" <=> pc[k] = "idle"
          /\ pc'[k] = "held" <=> pc[k] = "held"
  BY CapturesAssumption DEF TypeOK, Moves, SameClass
<1>3. pc'[c] = there
  BY DEF Moves
<1>4. /\ \A a \in Captures : pc'[a] \in CapturePcs
      /\ pc' \in [Captures \cup Checkpoints -> CapturePcs \cup CheckpointPcs]
  BY <1>1, <1>2, <1>3 DEF Moves
<1>5. Admitted' = IF there = "reserved" THEN Admitted \cup {c} ELSE Admitted \ {c}
  BY <1>1, <1>3 DEF Admitted
<1>6. Running' = IF there = "active" THEN Running \cup {c} ELSE Running \ {c}
  BY <1>1, <1>3 DEF Running
<1>7. UnderWay' = IF there \in {"reserved", "active"}
                    THEN UnderWay \cup {c} ELSE UnderWay \ {c}
  BY <1>1, <1>3 DEF UnderWay
<1>8. Queued' = Queued /\ Owners' = Owners
  BY <1>2 DEF Queued, Owners
<1>9. Closing' = Closing /\ Holding' = Holding
  BY <1>2 DEF Closing, Holding
<1> QED
  BY <1>2, <1>4, <1>5, <1>6, <1>7, <1>8, <1>9

\* What the move of a checkpoint does to the sets.
LEMMA CheckpointMoves ==
    ASSUME TypeOK, NEW k \in Checkpoints, NEW there \in CheckpointPcs, Moves(k, there)
    PROVE  /\ pc' \in [Captures \cup Checkpoints -> CapturePcs \cup CheckpointPcs]
           /\ \A a \in Captures : pc'[a] \in CapturePcs
           /\ \A j \in Checkpoints : pc'[j] \in CheckpointPcs
           /\ Admitted' = Admitted /\ Running' = Running /\ UnderWay' = UnderWay
           /\ Queued' = IF there \in {"queued", "requeue"}
                          THEN Queued \cup {k} ELSE Queued \ {k}
           /\ Owners' = IF there \in {"waiting", "rewait", "held"}
                          THEN Owners \cup {k} ELSE Owners \ {k}
           /\ Closing' = IF there # "idle" THEN Closing \cup {k} ELSE Closing \ {k}
           /\ Holding' = IF there = "held" THEN Holding \cup {k} ELSE Holding \ {k}
<1>1. \A a \in Captures :
          /\ pc'[a] \in CapturePcs
          /\ pc'[a] = "reserved" <=> pc[a] = "reserved"
          /\ pc'[a] = "active" <=> pc[a] = "active"
  BY CapturesAssumption DEF TypeOK, Moves, SameClass
<1>2. \A j \in Checkpoints : j # k =>
          /\ pc'[j] \in CheckpointPcs
          /\ pc'[j] \in {"queued", "requeue"} <=> pc[j] \in {"queued", "requeue"}
          /\ pc'[j] \in {"waiting", "rewait", "held"}
                <=> pc[j] \in {"waiting", "rewait", "held"}
          /\ pc'[j] = "idle" <=> pc[j] = "idle"
          /\ pc'[j] = "held" <=> pc[j] = "held"
  BY DEF TypeOK, Moves, SameClass
<1>3. pc'[k] = there
  BY DEF Moves
<1>4. /\ \A j \in Checkpoints : pc'[j] \in CheckpointPcs
      /\ pc' \in [Captures \cup Checkpoints -> CapturePcs \cup CheckpointPcs]
  BY <1>1, <1>2, <1>3 DEF Moves
<1>5. Admitted' = Admitted /\ Running' = Running
  BY <1>1 DEF Admitted, Running
<1>6. UnderWay' = UnderWay
  BY <1>1 DEF UnderWay
<1>7. Queued' = IF there \in {"queued", "requeue"} THEN Queued \cup {k} ELSE Queued \ {k}
  BY <1>2, <1>3 DEF Queued
<1>8. Owners' = IF there \in {"waiting", "rewait", "held"}
                  THEN Owners \cup {k} ELSE Owners \ {k}
  BY <1>2, <1>3 DEF Owners
<1>9. Closing' = IF there # "idle" THEN Closing \cup {k} ELSE Closing \ {k}
  BY <1>2, <1>3 DEF Closing
<1>10. Holding' = IF there = "held" THEN Holding \cup {k} ELSE Holding \ {k}
  BY <1>2, <1>3 DEF Holding
<1> QED
  BY <1>1, <1>4, <1>5, <1>6, <1>7, <1>8, <1>9, <1>10

-----------------------------------------------------------------------------
(* Each operation preserves the invariant. *)

\* Quiet is what wait_for_captures() tests: no capture is under way.
LEMMA QuietMeansEmpty ==
    ASSUME CaptureInv
    PROVE  Quiet <=> UnderWay = {}
<1>1. /\ Cardinality(Admitted) = 0 <=> Admitted = {}
      /\ Cardinality(Running) = 0 <=> Running = {}
  BY SizeZero, CapturesAssumption DEF Admitted, Running
<1>2. UnderWay = Admitted \cup Running
  BY DEF UnderWay, Admitted, Running
<1> QED
  BY <1>1, <1>2 DEF CaptureInv, CapturesExact, Quiet

\* BeginsMayPass is what begin() tests: no checkpoint asked for the gate.
LEMMA PassMeansOpen ==
    ASSUME CaptureInv
    PROVE  BeginsMayPass <=> Closing = {}
<1>1. Cardinality(Queued) = 0 <=> Queued = {}
  BY SizeZero, CapturesAssumption DEF Queued
<1>2. Closing = Queued \cup Owners
  BY DEF CaptureInv, TypeOK, CheckpointPcs, Closing, Queued, Owners
<1> QED
  BY <1>1, <1>2 DEF CaptureInv, WaitersExact, OwnerExact, BeginsMayPass

LEMMA BeginPreserves ==
    ASSUME CaptureInv, NEW c \in Captures, Begin(c)
    PROVE  CaptureInv'
<1>0. TypeOK /\ c \in Captures \cup Checkpoints
  BY DEF CaptureInv
<1>1. c \notin Admitted /\ c \notin Running /\ Admitted \in SUBSET Captures
  BY DEF Begin, Admitted, Running
<1>2. CASE BeginsMayPass
  <2>1. Moves(c, "reserved") /\ admitted' = admitted + 1
    BY <1>0, <1>2, GotoMoves DEF Begin
  <2>2. "reserved" \in CapturePcs
    BY DEF CapturePcs
  <2>3. /\ Admitted' = Admitted \cup {c} /\ Running' = Running
        /\ Queued' = Queued /\ Owners' = Owners /\ Holding' = Holding
    BY SMT, <1>0, <1>1, <2>1, <2>2, CaptureMoves
  <2>4. TypeOK'
    BY SMT, <1>0, <2>1, <2>2, CaptureMoves DEF Begin, TypeOK
  <2>5. CapturesExact'
    BY <1>1, <2>1, <2>3, SizeAdd, CapturesAssumption
       DEF Begin, CaptureInv, CapturesExact
  <2>6. WaitersExact' /\ OwnerExact'
    BY <2>3 DEF Begin, CaptureInv, WaitersExact, OwnerExact
  <2>7. HeldIsQuiet'
    BY <1>2, <2>3, PassMeansOpen DEF HeldIsQuiet, Holding, Closing
  <2> QED
    BY <2>4, <2>5, <2>6, <2>7 DEF CaptureInv
<1>3. CASE ~BeginsMayPass
  <2>1. Moves(c, "asleep") /\ admitted' = admitted
    BY <1>0, <1>3, GotoMoves DEF Begin
  <2>2. "asleep" \in CapturePcs
    BY DEF CapturePcs
  <2>3. /\ Admitted' = Admitted /\ Running' = Running
        /\ Queued' = Queued /\ Owners' = Owners /\ Holding' = Holding
    BY SMT, <1>0, <1>1, <2>1, <2>2, CaptureMoves
  <2>4. UnderWay' = UnderWay \ {c}
    BY <1>0, <2>1, <2>2, CaptureMoves
  <2>5. TypeOK'
    BY <1>0, <2>1, <2>2, CaptureMoves DEF Begin, TypeOK
  <2>6. CapturesExact' /\ WaitersExact' /\ OwnerExact'
    BY <2>1, <2>3
       DEF Begin, CaptureInv, CapturesExact, WaitersExact, OwnerExact
  <2>7. HeldIsQuiet'
    BY <2>3, <2>4 DEF CaptureInv, HeldIsQuiet
  <2> QED
    BY <2>5, <2>6, <2>7 DEF CaptureInv
<1> QED
  BY <1>2, <1>3

LEMMA BeginCompletePreserves ==
    ASSUME CaptureInv, NEW c \in Captures, NEW started \in BOOLEAN,
           BeginComplete(c, started)
    PROVE  CaptureInv'
<1> DEFINE there == IF started THEN "active" ELSE "none"
<1>0. TypeOK /\ c \in Captures \cup Checkpoints
  BY DEF CaptureInv
<1>1. /\ c \in Admitted /\ c \notin Running /\ c \in UnderWay
      /\ Admitted \in SUBSET Captures /\ Running \in SUBSET Captures
  BY DEF BeginComplete, Admitted, Running, UnderWay
<1>2. admitted # 0
  BY <1>1, SizeRemove, CapturesAssumption DEF CaptureInv, CapturesExact
<1>3. /\ Moves(c, there)
      /\ admitted' = admitted - 1
      /\ active' = IF started THEN active + 1 ELSE active
      /\ UNCHANGED <<waiters, held, waits>>
  BY <1>0, <1>2, NotifyMoves DEF BeginComplete
<1>4. there \in CapturePcs /\ (there = "active" <=> started) /\ there # "reserved"
  BY DEF CapturePcs
<1> HIDE DEF there
<1>5. /\ Admitted' = Admitted \ {c}
      /\ Running' = IF started THEN Running \cup {c} ELSE Running
      /\ Queued' = Queued /\ Owners' = Owners /\ Holding' = Holding
      /\ UnderWay' \in SUBSET (UnderWay \cup {c})
  <2>1. /\ Admitted' = Admitted \ {c}
        /\ Running' = IF there = "active" THEN Running \cup {c} ELSE Running \ {c}
        /\ UnderWay' = UnderWay \cup {c} \/ UnderWay' = UnderWay \ {c}
        /\ Queued' = Queued /\ Owners' = Owners /\ Holding' = Holding
    BY <1>0, <1>3, <1>4, CaptureMoves
  <2> QED
    BY <1>1, <1>4, <2>1
<1>6. TypeOK'
  <2>1. /\ pc' \in [Captures \cup Checkpoints -> CapturePcs \cup CheckpointPcs]
        /\ \A a \in Captures : pc'[a] \in CapturePcs
        /\ \A k \in Checkpoints : pc'[k] \in CheckpointPcs
    BY <1>0, <1>3, <1>4, CaptureMoves
  <2>2. admitted' \in Nat /\ active' \in Nat
    BY SMT, <1>0, <1>2, <1>3 DEF TypeOK
  <2> QED
    BY <1>0, <1>3, <2>1, <2>2 DEF TypeOK
<1>7. CapturesExact'
  <2>1. admitted' = Cardinality(Admitted')
    BY <1>1, <1>3, <1>5, SizeRemove, CapturesAssumption DEF CaptureInv, CapturesExact
  <2>2. active' = Cardinality(Running')
    BY <1>1, <1>3, <1>5, SizeAdd, CapturesAssumption DEF CaptureInv, CapturesExact
  <2> QED
    BY <2>1, <2>2 DEF CapturesExact
<1>8. WaitersExact' /\ OwnerExact'
  BY <1>3, <1>5 DEF CaptureInv, WaitersExact, OwnerExact
<1>9. HeldIsQuiet'
  BY <1>1, <1>5 DEF CaptureInv, HeldIsQuiet
<1> QED
  BY <1>6, <1>7, <1>8, <1>9 DEF CaptureInv

LEMMA EndCapturePreserves ==
    ASSUME CaptureInv, NEW c \in Captures, EndCapture(c)
    PROVE  CaptureInv'
<1>0. TypeOK /\ c \in Captures \cup Checkpoints /\ "none" \in CapturePcs
  BY DEF CaptureInv, CapturePcs
<1>1. c \in Running /\ c \notin Admitted /\ Running \in SUBSET Captures
  BY DEF EndCapture, Admitted, Running
<1>2. active # 0
  BY <1>1, SizeRemove, CapturesAssumption DEF CaptureInv, CapturesExact
<1>3. /\ Moves(c, "none") /\ active' = active - 1
      /\ UNCHANGED <<admitted, waiters, held, waits>>
  BY <1>0, <1>2, NotifyMoves DEF EndCapture
<1>4. /\ Admitted' = Admitted /\ Running' = Running \ {c}
      /\ Queued' = Queued /\ Owners' = Owners /\ Holding' = Holding
      /\ UnderWay' = UnderWay \ {c}
  BY SMT, <1>0, <1>1, <1>3, CaptureMoves
<1>5. TypeOK'
  <2>1. active' \in Nat
    BY SMT, <1>0, <1>2, <1>3 DEF TypeOK
  <2> QED
    BY <1>0, <1>3, <2>1, CaptureMoves DEF TypeOK
<1>6. CapturesExact'
  BY <1>1, <1>3, <1>4, SizeRemove, CapturesAssumption DEF CaptureInv, CapturesExact
<1>7. WaitersExact' /\ OwnerExact' /\ HeldIsQuiet'
  BY <1>3, <1>4 DEF CaptureInv, WaitersExact, OwnerExact, HeldIsQuiet
<1> QED
  BY <1>5, <1>6, <1>7 DEF CaptureInv

-----------------------------------------------------------------------------
\* A checkpoint that takes or already has the gate holds it only when quiet.
LEMMA ClaimPreserves ==
    ASSUME CaptureInv, NEW k \in Checkpoints,
           Moves(k, AfterClaim),
           \A j \in Owners : j = k,
           held' = TRUE,
           waiters' = Cardinality(Queued \ {k}), waits' \in Nat,
           UNCHANGED <<admitted, active>>
    PROVE  CaptureInv'
<1>0. TypeOK
  BY DEF CaptureInv
<1>1. /\ AfterClaim \in {"held", "waiting"}
      /\ AfterClaim = "held" <=> Quiet
      /\ AfterClaim \in CheckpointPcs
  BY DEF AfterClaim, CheckpointPcs
<1>2. /\ Admitted' = Admitted /\ Running' = Running /\ UnderWay' = UnderWay
      /\ Queued' = Queued \ {k} /\ Owners' = Owners \cup {k}
      /\ Holding' = IF AfterClaim = "held" THEN Holding \cup {k} ELSE Holding \ {k}
  BY <1>0, <1>1, CheckpointMoves
<1>3. TypeOK'
  <2>1. /\ pc' \in [Captures \cup Checkpoints -> CapturePcs \cup CheckpointPcs]
        /\ \A a \in Captures : pc'[a] \in CapturePcs
        /\ \A j \in Checkpoints : pc'[j] \in CheckpointPcs
    BY <1>0, <1>1, CheckpointMoves
  <2>2. waiters' \in Nat
    BY SizeZero, CapturesAssumption DEF Queued
  <2> QED
    BY <1>0, <2>1, <2>2 DEF TypeOK
<1>4. CapturesExact' /\ WaitersExact'
  BY <1>2 DEF CaptureInv, CapturesExact, WaitersExact
<1>5. OwnerExact'
  <2>1. \A i, j \in Owners' : i = j
    BY <1>2
  <2>2. held' <=> Owners' # {}
    BY <1>2
  <2> QED
    BY <2>1, <2>2 DEF OwnerExact
<1>6. HeldIsQuiet'
  <2>1. CASE Quiet
    BY <1>2, <2>1, QuietMeansEmpty DEF HeldIsQuiet
  <2>2. CASE ~Quiet
    <3>1. Holding' = Holding \ {k}
      BY <1>1, <1>2, <2>2
    <3> QED
      BY <1>2, <3>1 DEF CaptureInv, HeldIsQuiet
  <2> QED
    BY <2>1, <2>2
<1> QED
  BY <1>3, <1>4, <1>5, <1>6 DEF CaptureInv

LEMMA QueuePreserves ==
    ASSUME CaptureInv, NEW k \in Checkpoints, k \notin Owners,
           Moves(k, "queued"),
           waiters' = Cardinality(Queued \cup {k}), waits' \in Nat,
           UNCHANGED <<admitted, active, held>>
    PROVE  CaptureInv'
<1>0. TypeOK /\ "queued" \in CheckpointPcs
  BY DEF CaptureInv, CheckpointPcs
<1>1. k \notin Holding
  BY DEF Holding, Owners
<1>2. /\ Admitted' = Admitted /\ Running' = Running /\ UnderWay' = UnderWay
      /\ Queued' = Queued \cup {k} /\ Owners' = Owners /\ Holding' = Holding
  <2>1. /\ Admitted' = Admitted /\ Running' = Running /\ UnderWay' = UnderWay
        /\ Queued' = Queued \cup {k} /\ Owners' = Owners \ {k}
        /\ Holding' = Holding \ {k}
    BY <1>0, CheckpointMoves
  <2> QED
    BY <1>1, <2>1
<1>3. TypeOK'
  <2>1. /\ pc' \in [Captures \cup Checkpoints -> CapturePcs \cup CheckpointPcs]
        /\ \A a \in Captures : pc'[a] \in CapturePcs
        /\ \A j \in Checkpoints : pc'[j] \in CheckpointPcs
    BY <1>0, CheckpointMoves
  <2>2. waiters' \in Nat
    BY SMT, SizeZero, CapturesAssumption DEF Queued
  <2> QED
    BY <1>0, <2>1, <2>2 DEF TypeOK
<1>4. CapturesExact' /\ WaitersExact' /\ OwnerExact' /\ HeldIsQuiet'
  BY <1>2 DEF CaptureInv, CapturesExact, WaitersExact, OwnerExact, HeldIsQuiet
<1> QED
  BY <1>3, <1>4 DEF CaptureInv

LEMMA WaitForCapturesPreserves ==
    ASSUME CaptureInv, NEW k \in Checkpoints, WaitForCaptures(k)
    PROVE  CaptureInv'
<1>0. TypeOK /\ k \in Captures \cup Checkpoints /\ waits' \in Nat
  BY SMT DEF CaptureInv, TypeOK, WaitForCaptures
<1>1. k \notin Owners /\ k \notin Queued /\ Queued \in SUBSET Checkpoints
  BY DEF WaitForCaptures, Owners, Queued
<1>2. CASE held
  <2>1. Moves(k, "queued") /\ UNCHANGED <<admitted, active, held>>
    BY <1>0, <1>2, GotoMoves DEF WaitForCaptures
  <2>2. waiters' = Cardinality(Queued \cup {k})
    BY <1>1, <1>2, SizeAdd, CapturesAssumption
       DEF WaitForCaptures, CaptureInv, WaitersExact
  <2> QED
    BY <1>0, <1>1, <2>1, <2>2, QueuePreserves
<1>3. CASE ~held
  <2>1. Moves(k, AfterClaim) /\ held' = TRUE /\ UNCHANGED <<admitted, active, waiters>>
    BY <1>0, <1>3, GotoMoves DEF WaitForCaptures
  <2>2. Owners = {}
    BY <1>3 DEF CaptureInv, OwnerExact
  <2>3. Queued \ {k} = Queued
    BY <1>1
  <2>4. waiters' = Cardinality(Queued \ {k})
    BY <2>1, <2>3 DEF CaptureInv, WaitersExact
  <2> QED
    BY <1>0, <2>1, <2>2, <2>4, ClaimPreserves
<1> QED
  BY <1>2, <1>3

LEMMA ClaimActionPreserves ==
    ASSUME CaptureInv, NEW k \in Checkpoints, Claim(k)
    PROVE  CaptureInv'
<1>0. TypeOK /\ k \in Captures \cup Checkpoints /\ waits' \in Nat
  BY DEF CaptureInv, TypeOK, Claim
<1>1. k \notin Owners /\ k \in Queued /\ Queued \in SUBSET Checkpoints
  BY DEF Claim, Owners, Queued
<1>2. CASE held
  <2>1. Moves(k, "queued") /\ UNCHANGED <<admitted, active, waiters, held>>
    BY <1>0, <1>2, GotoMoves DEF Claim
  <2>2. Queued \cup {k} = Queued
    BY <1>1
  <2>3. waiters' = Cardinality(Queued \cup {k})
    BY <2>1, <2>2 DEF CaptureInv, WaitersExact
  <2> QED
    BY <1>0, <1>1, <2>1, <2>3, QueuePreserves
<1>3. CASE ~held
  <2>1. Moves(k, AfterClaim) /\ held' = TRUE /\ UNCHANGED <<admitted, active>>
    BY <1>0, <1>3, GotoMoves DEF Claim
  <2>2. Owners = {}
    BY <1>3 DEF CaptureInv, OwnerExact
  <2>3. waiters' = Cardinality(Queued \ {k})
    BY <1>1, <1>3, SizeRemove, CapturesAssumption DEF Claim, CaptureInv, WaitersExact
  <2> QED
    BY <1>0, <2>1, <2>2, <2>3, ClaimPreserves
<1> QED
  BY <1>2, <1>3

LEMMA RecheckPreserves ==
    ASSUME CaptureInv, NEW k \in Checkpoints, Recheck(k)
    PROVE  CaptureInv'
<1>0. TypeOK /\ k \in Captures \cup Checkpoints /\ waits' \in Nat
  BY DEF CaptureInv, TypeOK, Recheck
<1>1. k \in Owners /\ k \notin Queued
  BY DEF Recheck, Owners, Queued
<1>2. Moves(k, AfterClaim) /\ UNCHANGED <<admitted, active, waiters, held>>
  BY <1>0, GotoMoves DEF Recheck
<1>3. held' = TRUE /\ \A j \in Owners : j = k
  <2>1. held /\ \A j \in Owners : j = k
    BY <1>1 DEF CaptureInv, OwnerExact
  <2>2. held = TRUE
    BY <2>1 DEF CaptureInv, TypeOK
  <2> QED
    BY <1>2, <2>1, <2>2
<1>4. Queued \ {k} = Queued
  BY <1>1
<1>5. waiters' = Cardinality(Queued \ {k})
  BY <1>2, <1>4 DEF CaptureInv, WaitersExact
<1> QED
  BY <1>0, <1>2, <1>3, <1>5, ClaimPreserves

LEMMA ResumeCapturesPreserves ==
    ASSUME CaptureInv, NEW k \in Checkpoints, ResumeCaptures(k)
    PROVE  CaptureInv'
<1>0. TypeOK /\ k \in Captures \cup Checkpoints /\ "idle" \in CheckpointPcs
  BY DEF CaptureInv, CheckpointPcs
<1>1. k \in Owners /\ k \notin Queued
  BY DEF ResumeCaptures, Owners, Queued
<1>2. /\ Moves(k, "idle") /\ held' = FALSE
      /\ UNCHANGED <<admitted, active, waiters, waits>>
  BY <1>0, NotifyMoves DEF ResumeCaptures
<1>3. \A j \in Owners : j = k
  BY <1>1 DEF CaptureInv, OwnerExact
<1>4. /\ Admitted' = Admitted /\ Running' = Running
      /\ Queued' = Queued /\ Owners' = {}
  <2>1. /\ Admitted' = Admitted /\ Running' = Running
        /\ Queued' = Queued \ {k} /\ Owners' = Owners \ {k}
    BY <1>0, <1>2, CheckpointMoves
  <2>2. Queued \ {k} = Queued
    BY <1>1
  <2>3. Owners \ {k} = {}
    BY <1>3
  <2> QED
    BY <2>1, <2>2, <2>3
<1>5. Holding' = {}
  BY <1>4 DEF Holding, Owners
<1>6. TypeOK'
  BY <1>0, <1>2, CheckpointMoves DEF TypeOK
<1>7. CapturesExact' /\ WaitersExact'
  BY <1>2, <1>4 DEF CaptureInv, CapturesExact, WaitersExact
<1>8. OwnerExact' /\ HeldIsQuiet'
  BY <1>2, <1>4, <1>5 DEF OwnerExact, HeldIsQuiet
<1> QED
  BY <1>6, <1>7, <1>8 DEF CaptureInv

\* A wakeup moves its own thread within its class too.
LEMMA SpuriousMoves ==
    ASSUME CaptureInv, NEW t \in Captures \cup Checkpoints, SpuriousWakeup(t)
    PROVE  /\ pc' \in [Captures \cup Checkpoints -> CapturePcs \cup CheckpointPcs]
           /\ \A s \in Captures \cup Checkpoints : SameClass(pc[s], pc'[s])
<1>0. TypeOK
  BY DEF CaptureInv
<1>1. Moves(t, Woken(pc[t]))
  BY <1>0, GotoMoves DEF SpuriousWakeup
<1>2. SameClass(pc[t], pc'[t])
  BY <1>0, <1>1, WokenClass DEF TypeOK, Moves
<1>3. \A s \in Captures \cup Checkpoints : SameClass(pc[s], pc'[s])
  BY <1>1, <1>2 DEF Moves
<1>4. \A s \in Captures \cup Checkpoints : pc'[s] \in CapturePcs \cup CheckpointPcs
  BY <1>0, <1>3 DEF TypeOK, SameClass
<1> QED
  BY <1>1, <1>3, <1>4 DEF Moves

LEMMA SpuriousSets ==
    ASSUME CaptureInv, NEW t \in Captures \cup Checkpoints, SpuriousWakeup(t)
    PROVE  /\ Admitted' = Admitted /\ Running' = Running /\ UnderWay' = UnderWay
           /\ Queued' = Queued /\ Owners' = Owners
           /\ Closing' = Closing /\ Holding' = Holding
           /\ \A c \in Captures : pc'[c] \in CapturePcs
           /\ \A k \in Checkpoints : pc'[k] \in CheckpointPcs
<1>1. \A c \in Captures :
          /\ pc'[c] \in CapturePcs
          /\ pc'[c] = "reserved" <=> pc[c] = "reserved"
          /\ pc'[c] = "active" <=> pc[c] = "active"
  BY SpuriousMoves DEF CaptureInv, TypeOK, SameClass
<1>2. \A k \in Checkpoints :
          /\ pc'[k] \in CheckpointPcs
          /\ pc'[k] \in {"queued", "requeue"} <=> pc[k] \in {"queued", "requeue"}
          /\ pc'[k] \in {"waiting", "rewait", "held"}
                <=> pc[k] \in {"waiting", "rewait", "held"}
          /\ pc'[k] = "idle" <=> pc[k] = "idle"
          /\ pc'[k] = "held" <=> pc[k] = "held"
  BY SpuriousMoves DEF CaptureInv, TypeOK, SameClass
<1>3. Admitted' = Admitted /\ Running' = Running
  BY <1>1 DEF Admitted, Running
<1>4. UnderWay' = UnderWay
  BY <1>1 DEF UnderWay
<1>5. Queued' = Queued /\ Owners' = Owners
  BY <1>2 DEF Queued, Owners
<1>6. Closing' = Closing /\ Holding' = Holding
  BY <1>2 DEF Closing, Holding
<1> QED
  BY <1>1, <1>2, <1>3, <1>4, <1>5, <1>6

LEMMA SpuriousPreserves ==
    ASSUME CaptureInv, NEW t \in Captures \cup Checkpoints, SpuriousWakeup(t)
    PROVE  CaptureInv'
<1>1. TypeOK'
  BY SpuriousMoves, SpuriousSets DEF CaptureInv, TypeOK, SpuriousWakeup
<1>2. CapturesExact' /\ WaitersExact'
  BY SpuriousSets DEF CaptureInv, CapturesExact, WaitersExact, SpuriousWakeup
<1>3. OwnerExact' /\ HeldIsQuiet'
  BY SpuriousSets DEF CaptureInv, OwnerExact, HeldIsQuiet, SpuriousWakeup
<1> QED
  BY <1>1, <1>2, <1>3 DEF CaptureInv

LEMMA InitCaptures == Init => CaptureInv
<1> SUFFICES ASSUME Init PROVE CaptureInv
  OBVIOUS
<1>1. TypeOK
  BY CapturesAssumption DEF Init, TypeOK, CapturePcs, CheckpointPcs
<1>2. Admitted = {} /\ Running = {} /\ UnderWay = {}
  BY DEF Init, Admitted, Running, UnderWay
<1>3. Queued = {} /\ Owners = {} /\ Holding = {}
  BY CapturesAssumption DEF Init, Queued, Owners, Holding
<1>4. CapturesExact /\ WaitersExact
  BY <1>2, <1>3, FS_EmptySet DEF Init, CapturesExact, WaitersExact
<1>5. OwnerExact /\ HeldIsQuiet
  BY <1>2, <1>3 DEF Init, OwnerExact, HeldIsQuiet
<1> QED
  BY <1>1, <1>4, <1>5 DEF CaptureInv

LEMMA NextCaptures == CaptureInv /\ [Next]_vars => CaptureInv'
<1> SUFFICES ASSUME CaptureInv, [Next]_vars PROVE CaptureInv'
  OBVIOUS
<1>1. CASE UNCHANGED vars
  BY <1>1 DEF vars, CaptureInv, TypeOK, CapturesExact, WaitersExact, OwnerExact,
              HeldIsQuiet, Admitted, Running, Queued, Owners, Holding, UnderWay
<1>2. ASSUME NEW c \in Captures, Capture(c) PROVE CaptureInv'
  BY <1>2, BeginPreserves, BeginCompletePreserves, EndCapturePreserves DEF Capture
<1>3. ASSUME NEW k \in Checkpoints, Checkpoint(k) PROVE CaptureInv'
  BY <1>3, WaitForCapturesPreserves, ClaimActionPreserves, RecheckPreserves,
     ResumeCapturesPreserves DEF Checkpoint
<1>4. ASSUME NEW t \in Captures \cup Checkpoints, SpuriousWakeup(t) PROVE CaptureInv'
  BY <1>4, SpuriousPreserves
<1> QED
  BY <1>1, <1>2, <1>3, <1>4 DEF Next

\* The counters of capture_gate count what their names say, one checkpoint at
\* most owns the gate, and none is told that it has it while a capture is
\* admitted or active.
THEOREM CaptureGateInvariant == Spec => []CaptureInv
  BY InitCaptures, NextCaptures, PTL DEF Spec

\* The variables keep their types: no counter goes below 0, so the early
\* returns of complete_begin() and end() on a zero counter are never taken.
THEOREM CaptureGateTypes == Spec => []TypeOK
<1>1. CaptureInv => TypeOK
  BY DEF CaptureInv
<1> QED
  BY <1>1, CaptureGateInvariant, PTL

-----------------------------------------------------------------------------
(* Refinement *)

LEMMA CaptureStepRefines ==
    ASSUME CaptureInv, NEW c \in Captures, Capture(c)
    PROVE  [Gate!GNext]_(Gate!gvars)
<1>0. TypeOK /\ c \in Captures \cup Checkpoints
  BY DEF CaptureInv
<1>a. {"asleep", "none", "reserved", "active"} \subseteq CapturePcs
  BY DEF CapturePcs
<1>1. CASE Begin(c) /\ BeginsMayPass
  <2>1. Moves(c, "reserved")
    BY <1>0, <1>1, GotoMoves DEF Begin
  <2>2. UnderWay' = UnderWay \cup {c} /\ Closing' = Closing /\ Holding' = Holding
    BY <1>0, <1>a, <2>1, CaptureMoves
  <2>3. Closing = {} /\ c \notin UnderWay
    BY <1>1, PassMeansOpen DEF Begin, UnderWay
  <2>4. Gate!Admit(c)
    BY <2>2, <2>3 DEF Gate!Admit
  <2> QED
    BY <2>4 DEF Gate!GNext
<1>2. CASE Begin(c) /\ ~BeginsMayPass
  <2>1. Moves(c, "asleep")
    BY <1>0, <1>2, GotoMoves DEF Begin
  <2>2. UnderWay' = UnderWay \ {c} /\ Closing' = Closing /\ Holding' = Holding
    BY <1>0, <1>a, <2>1, CaptureMoves
  <2>3. c \notin UnderWay
    BY <1>2 DEF Begin, UnderWay
  <2>4. UnderWay' = UnderWay
    BY <2>2, <2>3
  <2> QED
    BY <2>2, <2>4 DEF Gate!gvars
<1>3. CASE BeginComplete(c, TRUE)
  <2>1. Moves(c, "active") \/ Moves(c, "none")
    BY <1>0, <1>3, NotifyMoves, GotoMoves DEF BeginComplete
  <2>2. c \in UnderWay
    BY <1>3 DEF BeginComplete, UnderWay
  <2>3. CASE Moves(c, "active")
    <3>1. UnderWay' = UnderWay \cup {c} /\ Closing' = Closing /\ Holding' = Holding
      BY <1>0, <1>a, <2>3, CaptureMoves
    <3>2. UnderWay' = UnderWay
      BY <2>2, <3>1
    <3> QED
      BY <3>1, <3>2 DEF Gate!gvars
  <2>4. CASE Moves(c, "none")
    <3>1. UnderWay' = UnderWay \ {c} /\ Closing' = Closing /\ Holding' = Holding
      BY <1>0, <1>a, <2>4, CaptureMoves
    <3>2. Gate!Leave(c)
      BY <2>2, <3>1 DEF Gate!Leave
    <3> QED
      BY <3>2 DEF Gate!GNext
  <2> QED
    BY <2>1, <2>3, <2>4
<1>4. CASE BeginComplete(c, FALSE) \/ EndCapture(c)
  <2>1. Moves(c, "none") /\ c \in UnderWay
    BY <1>0, <1>4, NotifyMoves, GotoMoves DEF BeginComplete, EndCapture, UnderWay
  <2>2. UnderWay' = UnderWay \ {c} /\ Closing' = Closing /\ Holding' = Holding
    BY <1>0, <1>a, <2>1, CaptureMoves
  <2>3. Gate!Leave(c)
    BY <2>1, <2>2 DEF Gate!Leave
  <2> QED
    BY <2>3 DEF Gate!GNext
<1> QED
  BY <1>1, <1>2, <1>3, <1>4 DEF Capture

\* Taking the gate, at once or after a wait, is Hold or Ask or no step at all.
LEMMA ClaimRefines ==
    ASSUME CaptureInv, NEW k \in Checkpoints, Moves(k, AfterClaim), Holding = {}
    PROVE  [Gate!GNext]_(Gate!gvars)
<1>0. /\ TypeOK
      /\ AfterClaim \in CheckpointPcs /\ AfterClaim # "idle"
      /\ AfterClaim = "held" <=> Quiet
  BY DEF CaptureInv, AfterClaim, CheckpointPcs
<1>1. /\ UnderWay' = UnderWay /\ Closing' = Closing \cup {k}
      /\ Holding' = IF AfterClaim = "held" THEN Holding \cup {k} ELSE Holding \ {k}
  BY <1>0, CheckpointMoves
<1>2. CASE Quiet
  <2>1. Holding' = {k} /\ UnderWay = {}
    BY <1>0, <1>1, <1>2, QuietMeansEmpty
  <2>2. Gate!Hold(k)
    BY <1>1, <2>1 DEF Gate!Hold
  <2> QED
    BY <2>2 DEF Gate!GNext
<1>3. CASE ~Quiet
  <2>1. Holding' = Holding
    BY <1>0, <1>1, <1>3
  <2>2. CASE k \in Closing
    <3>1. Closing' = Closing
      BY <1>1, <2>2
    <3> QED
      BY <1>1, <2>1, <3>1 DEF Gate!gvars
  <2>3. CASE k \notin Closing
    <3>1. Gate!Ask(k)
      BY <1>1, <2>1, <2>3 DEF Gate!Ask
    <3> QED
      BY <3>1 DEF Gate!GNext
  <2> QED
    BY <2>2, <2>3
<1> QED
  BY <1>2, <1>3

LEMMA QueueRefines ==
    ASSUME CaptureInv, NEW k \in Checkpoints, Moves(k, "queued"), k \notin Holding
    PROVE  [Gate!GNext]_(Gate!gvars)
<1>0. TypeOK /\ "queued" \in CheckpointPcs
  BY DEF CaptureInv, CheckpointPcs
<1>1. /\ UnderWay' = UnderWay /\ Closing' = Closing \cup {k}
      /\ Holding' = Holding \ {k}
  BY <1>0, CheckpointMoves
<1>2. Holding' = Holding
  BY <1>1
<1>3. CASE k \in Closing
  <2>1. Closing' = Closing
    BY <1>1, <1>3
  <2> QED
    BY <1>1, <1>2, <2>1 DEF Gate!gvars
<1>4. CASE k \notin Closing
  <2>1. Gate!Ask(k)
    BY <1>1, <1>2, <1>4 DEF Gate!Ask
  <2> QED
    BY <2>1 DEF Gate!GNext
<1> QED
  BY <1>3, <1>4

LEMMA CheckpointStepRefines ==
    ASSUME CaptureInv, NEW k \in Checkpoints, Checkpoint(k)
    PROVE  [Gate!GNext]_(Gate!gvars)
<1>0. TypeOK /\ k \in Captures \cup Checkpoints /\ "idle" \in CheckpointPcs
  BY DEF CaptureInv, CheckpointPcs
<1>1. Holding \in SUBSET Owners
  BY DEF Holding, Owners
<1>2. CASE (WaitForCaptures(k) \/ Claim(k)) /\ held
  <2>1. Moves(k, "queued") /\ k \notin Holding
    BY <1>0, <1>2, GotoMoves DEF WaitForCaptures, Claim, Holding
  <2> QED
    BY <2>1, QueueRefines
<1>3. CASE (WaitForCaptures(k) \/ Claim(k)) /\ ~held
  <2>1. Moves(k, AfterClaim)
    BY <1>0, <1>3, GotoMoves DEF WaitForCaptures, Claim
  <2>2. Holding = {}
    BY <1>1, <1>3 DEF CaptureInv, OwnerExact
  <2> QED
    BY <2>1, <2>2, ClaimRefines
<1>4. CASE Recheck(k)
  <2>1. Moves(k, AfterClaim)
    BY <1>0, <1>4, GotoMoves DEF Recheck
  <2>2. k \in Owners /\ k \notin Holding
    BY <1>4 DEF Recheck, Owners, Holding
  <2>3. Holding = {}
    BY <1>1, <2>2 DEF CaptureInv, OwnerExact
  <2> QED
    BY <2>1, <2>3, ClaimRefines
<1>5. CASE ResumeCaptures(k)
  <2>1. Moves(k, "idle")
    BY <1>0, <1>5, NotifyMoves DEF ResumeCaptures
  <2>2. k \in Holding /\ \A j \in Holding : j = k
    <3>1. k \in Holding /\ k \in Owners
      BY <1>5 DEF ResumeCaptures, Holding, Owners
    <3> QED
      BY <1>1, <3>1 DEF CaptureInv, OwnerExact
  <2>3. UnderWay' = UnderWay /\ Closing' = Closing \ {k} /\ Holding' = Holding \ {k}
    BY <1>0, <2>1, CheckpointMoves
  <2>4. Gate!Reopen(k)
    BY <2>2, <2>3 DEF Gate!Reopen
  <2> QED
    BY <2>4 DEF Gate!GNext
<1> QED
  BY <1>2, <1>3, <1>4, <1>5 DEF Checkpoint

LEMMA NextRefines ==
    ASSUME CaptureInv, [Next]_vars
    PROVE  [Gate!GNext]_(Gate!gvars)
<1>1. CASE UNCHANGED vars
  BY <1>1 DEF vars, Gate!gvars, UnderWay, Closing, Holding
<1>2. ASSUME NEW c \in Captures, Capture(c) PROVE [Gate!GNext]_(Gate!gvars)
  BY <1>2, CaptureStepRefines
<1>3. ASSUME NEW k \in Checkpoints, Checkpoint(k) PROVE [Gate!GNext]_(Gate!gvars)
  BY <1>3, CheckpointStepRefines
<1>4. ASSUME NEW t \in Captures \cup Checkpoints, SpuriousWakeup(t)
      PROVE  [Gate!GNext]_(Gate!gvars)
  BY <1>4, SpuriousSets DEF Gate!gvars
<1> QED
  BY <1>1, <1>2, <1>3, <1>4 DEF Next

\* capture_gate implements GateSpec: from the moment wait_for_captures() is
\* called until resume_captures() no capture start is admitted, and the
\* checkpoint is told it may go on only when none is admitted or active.
THEOREM CaptureGateImplementsGate == Spec => ImplementsGate
<1>1. Init => Gate!GInit
  BY CapturesAssumption DEF Init, Gate!GInit, UnderWay, Closing, Holding
<1>2. CaptureInv /\ [Next]_vars => [Gate!GNext]_(Gate!gvars)
  BY NextRefines
<1> QED
  BY <1>1, <1>2, CaptureGateInvariant, PTL DEF Spec, ImplementsGate, Gate!GSpec

-----------------------------------------------------------------------------
(* The handoff *)

\* The points of checkpoint_connection() between checkpoint_begin() and
\* checkpoint_end() at which the gate has been granted.
GrantedPcs == {"drain", "drainwait", "D", "dwait", "recvF", "await", "recvC", "park",
               "dial", "resume", "resumed", "fail", "failed"}

Requests == [at : {"idle", "asleep", "retry", "sent"}, for : {"call", "begin", "end"}]

\* Only threads that capture have a capture's request under way.
RequestsOK ==
    /\ req \in [Threads -> Requests]
    /\ \A t \in Callers : req[t].for = "call"

GateKept == ck \in GrantedPcs => pc[Conn] = "held"

HandoffInv == RequestsOK /\ GateKept

-----------------------------------------------------------------------------
(* The gate stays granted until the checkpoint thread resumes captures. *)

LEMMA GotoKeeps ==
    ASSUME TypeOK, NEW t \in Captures \cup Checkpoints, t # Conn, NEW there,
           Goto(t, there) \/ NotifyAll(t, there), pc[Conn] = "held"
    PROVE  pc'[Conn] = "held"
<1>1. Conn \in Captures \cup Checkpoints
  BY ConnAssumption
<1>2. Woken("held") = "held"
  BY DEF Woken
<1> QED
  BY <1>1, <1>2 DEF TypeOK, Goto, NotifyAll

LEMMA CaptureKeeps ==
    ASSUME TypeOK, NEW c \in Captures, Capture(c), pc[Conn] = "held"
    PROVE  pc'[Conn] = "held"
<1>1. c \in Captures \cup Checkpoints /\ c # Conn
  BY ConnAssumption, CapturesAssumption
<1>2. \E there : Goto(c, there) \/ NotifyAll(c, there)
  BY DEF Capture, Begin, BeginComplete, EndCapture
<1> QED
  BY <1>1, <1>2, GotoKeeps

LEMMA CheckpointKeeps ==
    ASSUME TypeOK, NEW k \in Checkpoints, Checkpoint(k), pc[Conn] = "held",
           ~ResumeCaptures(Conn)
    PROVE  pc'[Conn] = "held"
<1>1. k # Conn
  BY DEF Checkpoint, WaitForCaptures, Claim, Recheck
<1>2. \E there : Goto(k, there) \/ NotifyAll(k, there)
  BY DEF Checkpoint, WaitForCaptures, Claim, Recheck, ResumeCaptures
<1> QED
  BY <1>1, <1>2, GotoKeeps

LEMMA SpuriousKeeps ==
    ASSUME TypeOK, NEW t \in Captures \cup Checkpoints, SpuriousWakeup(t),
           pc[Conn] = "held"
    PROVE  pc'[Conn] = "held"
<1>1. t # Conn
  BY DEF SpuriousWakeup
<1>2. Goto(t, Woken(pc[t]))
  BY DEF SpuriousWakeup
<1> QED
  BY <1>1, <1>2, GotoKeeps

-----------------------------------------------------------------------------
(* Requests *)

LEMMA WakeAllOK ==
    ASSUME RequestsOK, WakeAll
    PROVE  RequestsOK'
<1>1. \A t \in Threads : req'[t] \in Requests /\ req'[t].for = req[t].for
  BY DEF RequestsOK, WakeAll, Requests
<1>2. req' \in [Threads -> Requests]
  BY <1>1 DEF WakeAll
<1> QED
  BY <1>1, <1>2 DEF RequestsOK, Threads

LEMMA RequestMoves ==
    ASSUME RequestsOK, NEW t \in Threads, NEW r \in Requests,
           t \in Callers => r.for = "call",
           req' = [req EXCEPT ![t] = r]
    PROVE  RequestsOK'
  BY DEF RequestsOK, Threads

LEMMA EnterOK ==
    ASSUME RequestsOK, NEW t \in Threads, NEW why \in {"call", "begin", "end"},
           t \in Callers => why = "call", Enter(t, why)
    PROVE  RequestsOK'
<1>1. PICK r \in Requests : r.for = why /\ req' = [req EXCEPT ![t] = r]
  BY DEF Enter, Requests
<1> QED
  BY <1>1, RequestMoves

-----------------------------------------------------------------------------
(* Every step is a step of the gate or leaves it alone, and keeps HandoffInv. *)

\* What is shown of each step.
Good == [Next]_vars /\ HandoffInv'

LEMMA GateUntouched ==
    ASSUME HandoffInv, RequestsOK', UNCHANGED gate, ck' \in GrantedPcs => ck \in GrantedPcs
    PROVE  Good
<1>1. UNCHANGED vars /\ pc' = pc
  BY DEF gate, vars
<1> QED
  BY <1>1 DEF Good, HandoffInv, GateKept

LEMMA CaptureStep ==
    ASSUME HandoffInv, TypeOK, RequestsOK', NEW t \in Captures, Capture(t), ck' = ck
    PROVE  Good
<1>1. GateKept'
  BY CaptureKeeps DEF HandoffInv, GateKept
<1> QED
  BY <1>1 DEF Good, HandoffInv, Next

LEMMA ApplicationGood ==
    ASSUME HandoffInv, TypeOK, NEW t \in Threads, Application(t)
    PROVE  Good
<1>0. RequestsOK /\ Idle \in Requests /\ Idle.for = "call" /\ t \in Captures \cup Callers
  BY DEF HandoffInv, Idle, Requests, Threads
<1>1. CASE Call(t)
  <2>1. RequestsOK'
    BY <1>0, <1>1, EnterOK, ConnAssumption DEF Call
  <2> QED
    BY <1>1, <2>1, GateUntouched DEF Call
<1>2. CASE Retry(t)
  <2>1. req[t].for \in {"call", "begin", "end"} /\ (t \in Callers => req[t].for = "call")
    BY <1>0 DEF RequestsOK, Requests
  <2>2. RequestsOK'
    BY <1>0, <1>2, <2>1, EnterOK DEF Retry
  <2> QED
    BY <1>2, <2>2, GateUntouched DEF Retry
<1>3. CASE Return(t)
  <2>1. RequestsOK' /\ ck' = ck
    BY <1>0, <1>3, RequestMoves DEF Return
  <2>2. CASE req[t].for \in {"begin", "end"}
    <3>1. t \in Captures
      BY <1>0, <2>2 DEF RequestsOK
    <3>2. Capture(t)
      BY <1>3, <2>2 DEF Return, Capture
    <3> QED
      BY <2>1, <3>1, <3>2, CaptureStep
  <2>3. CASE req[t].for \notin {"begin", "end"}
    <3>1. UNCHANGED gate
      BY <1>3, <2>3 DEF Return
    <3> QED
      BY <2>1, <3>1, GateUntouched
  <2> QED
    BY <2>2, <2>3
<1>4. CASE ReturnError(t)
  <2>1. RequestsOK' /\ ck' = ck
    BY <1>0, <1>4, RequestMoves DEF ReturnError
  <2>2. CASE t \in Captures /\ pc[t] = "reserved"
    <3>1. Capture(t)
      BY <1>4, <2>2 DEF ReturnError, Capture
    <3> QED
      BY <2>1, <2>2, <3>1, CaptureStep
  <2>3. CASE ~(t \in Captures /\ pc[t] = "reserved")
    <3>1. UNCHANGED gate
      BY <1>4, <2>3 DEF ReturnError
    <3> QED
      BY <2>1, <3>1, GateUntouched
  <2> QED
    BY <2>2, <2>3
<1> QED
  BY <1>1, <1>2, <1>3, <1>4 DEF Application

LEMMA CaptureBeginGood ==
    ASSUME HandoffInv, TypeOK, NEW t \in Captures, CaptureBegin(t)
    PROVE  Good
<1>1. RequestsOK' /\ ck' = ck /\ Capture(t)
  BY DEF CaptureBegin, HandoffInv, RequestsOK, Capture
<1> QED
  BY <1>1, CaptureStep

LEMMA TransportGood ==
    ASSUME HandoffInv,
           \/ WriterTakes \/ WriterWrote \/ WriterFails
           \/ ReadFrame \/ ReaderFails \/ Close \/ Peer
    PROVE  Good
<1>0. RequestsOK
  BY DEF HandoffInv
<1>1. CASE WriterTakes \/ WriterWrote \/ ReadFrame \/ Peer
  <2>1. UNCHANGED gate /\ ck' = ck /\ req' = req
    BY <1>1 DEF WriterTakes, WriterWrote, ReadFrame, Peer, AskHandoff, Serve,
                ServeDrain, Proceed, Abort, Break
  <2>2. RequestsOK'
    BY <1>0, <2>1 DEF RequestsOK
  <2> QED
    BY <2>1, <2>2, GateUntouched
<1>2. CASE WriterFails \/ ReaderFails \/ Close
  <2>1. UNCHANGED gate /\ ck' = ck /\ WakeAll
    BY <1>2 DEF WriterFails, ReaderFails, Close, Shutdown, Fail
  <2>2. RequestsOK'
    BY <1>0, <2>1, WakeAllOK
  <2> QED
    BY <2>1, <2>2, GateUntouched
<1> QED
  BY <1>1, <1>2

LEMMA CheckpointThreadGood ==
    ASSUME HandoffInv, TypeOK, CheckpointThread
    PROVE  Good
<1>0. RequestsOK /\ Conn \in Checkpoints
  BY ConnAssumption DEF HandoffInv
<1>1. CASE \/ ReceivePause \/ SendDrain \/ ReadDrained \/ SendD \/ DrainOutput
           \/ SendA \/ AwaitBarrier \/ ReceiveCommit \/ ReceiveAbort
           \/ ParkSocket \/ ResumeSocket \/ HandoffFails
  <2>1. UNCHANGED gate /\ req' = req
    BY <1>1 DEF ReceivePause, SendDrain, ReadDrained, SendD, DrainOutput, SendA,
                AwaitBarrier, ReceiveCommit, ReceiveAbort, ParkSocket, ResumeSocket,
                HandoffFails
  <2>2. ck' \in GrantedPcs => ck \in GrantedPcs
    BY <1>1 DEF ReceivePause, SendDrain, ReadDrained, SendD, DrainOutput, SendA,
                AwaitBarrier, ReceiveCommit, ReceiveAbort, ParkSocket, ResumeSocket,
                HandoffFails, GivesUp, GrantedPcs
  <2>3. RequestsOK'
    BY <1>0, <2>1 DEF RequestsOK
  <2> QED
    BY <2>1, <2>2, <2>3, GateUntouched
<1>2. CASE ResumeRequests \/ ShutDown \/ LeaveLoop
  <2>1. UNCHANGED gate /\ WakeAll
    BY <1>2 DEF ResumeRequests, ShutDown, LeaveLoop, Shutdown, Fail
  <2>2. ck' \in GrantedPcs => ck \in GrantedPcs
    BY <1>2 DEF ResumeRequests, ShutDown, LeaveLoop, GrantedPcs
  <2>3. RequestsOK'
    BY <1>0, <2>1, WakeAllOK
  <2> QED
    BY <2>1, <2>2, <2>3, GateUntouched
<1>3. CASE PauseRequests
  <2>1. UNCHANGED vars /\ pc'[Conn] = "held" /\ req' = req
    BY <1>3 DEF PauseRequests, gate, vars
  <2>2. RequestsOK'
    BY <1>0, <2>1 DEF RequestsOK
  <2> QED
    BY <2>1, <2>2 DEF Good, HandoffInv, GateKept
<1>4. CASE CheckpointBegin
  <2>1. Checkpoint(Conn) /\ req' = req /\ ck' = "captures"
    BY <1>4 DEF CheckpointBegin, Checkpoint
  <2>2. GateKept' /\ RequestsOK'
    BY <1>0, <2>1 DEF GateKept, GrantedPcs, RequestsOK
  <2> QED
    BY <1>0, <2>1, <2>2 DEF Good, HandoffInv, Next
<1>5. CASE CheckpointEnd
  <2>1. Checkpoint(Conn) /\ req' = req /\ ck' \in {"recv", "ended"}
    BY <1>5 DEF CheckpointEnd, Checkpoint
  <2>2. GateKept' /\ RequestsOK'
    BY <1>0, <2>1 DEF GateKept, GrantedPcs, RequestsOK
  <2> QED
    BY <1>0, <2>1, <2>2 DEF Good, HandoffInv, Next
<1> QED
  BY <1>1, <1>2, <1>3, <1>4, <1>5 DEF CheckpointThread

LEMMA OthersGood ==
    ASSUME HandoffInv, TypeOK, NEW k \in Checkpoints,
           \/ k \in Others /\ (OtherBegins(k) \/ OtherEnds(k))
           \/ GateWakes(k)
    PROVE  Good
<1>1. Checkpoint(k) /\ ck' = ck /\ req' = req
  BY DEF OtherBegins, OtherEnds, GateWakes, Checkpoint
<1>2. k # Conn \/ pc[Conn] # "held"
  BY DEF Others, GateWakes, Claim, Recheck
<1>3. RequestsOK'
  BY <1>1 DEF HandoffInv, RequestsOK
<1>4. GateKept'
  <2> SUFFICES ASSUME ck \in GrantedPcs PROVE pc'[Conn] = "held"
    BY <1>1 DEF GateKept
  <2>1. pc[Conn] = "held"
    BY DEF HandoffInv, GateKept
  <2>2. \E there : Goto(k, there) \/ NotifyAll(k, there)
    BY <1>1 DEF Checkpoint, WaitForCaptures, Claim, Recheck, ResumeCaptures
  <2> QED
    BY <1>2, <2>1, <2>2, GotoKeeps
<1> QED
  BY <1>1, <1>3, <1>4 DEF Good, HandoffInv, Next

LEMMA GateSpuriousGood ==
    ASSUME HandoffInv, TypeOK, NEW t \in Captures \cup Checkpoints, GateSpurious(t)
    PROVE  Good
<1>1. SpuriousWakeup(t) /\ ck' = ck /\ req' = req
  BY DEF GateSpurious
<1>2. RequestsOK' /\ GateKept'
  BY <1>1, SpuriousKeeps DEF HandoffInv, RequestsOK, GateKept
<1> QED
  BY <1>1, <1>2 DEF Good, HandoffInv, Next

LEMMA HNextGood ==
    ASSUME HandoffInv, TypeOK, [HNext]_hvars
    PROVE  Good
<1>1. CASE UNCHANGED hvars
  <2>1. UNCHANGED gate /\ ck' = ck /\ req' = req
    BY <1>1 DEF hvars
  <2>2. RequestsOK'
    BY <2>1 DEF HandoffInv, RequestsOK
  <2> QED
    BY <2>1, <2>2, GateUntouched
<1>2. CASE HNext
  <2>1. ASSUME NEW t \in Threads, Application(t) PROVE Good
    BY <2>1, ApplicationGood
  <2>2. ASSUME NEW t \in Captures, CaptureBegin(t) PROVE Good
    BY <2>2, CaptureBeginGood
  <2>3. ASSUME NEW k \in Others, OtherBegins(k) \/ OtherEnds(k) PROVE Good
    BY <2>3, OthersGood DEF Others
  <2>4. ASSUME NEW k \in Checkpoints, GateWakes(k) PROVE Good
    BY <2>4, OthersGood
  <2>5. ASSUME NEW t \in Captures \cup Checkpoints, GateSpurious(t) PROVE Good
    BY <2>5, GateSpuriousGood
  <2> QED
    BY <1>2, <2>1, <2>2, <2>3, <2>4, <2>5, TransportGood, CheckpointThreadGood DEF HNext
<1> QED
  BY <1>1, <1>2

LEMMA HInitGood == HInit => Init /\ HandoffInv
<1> SUFFICES ASSUME HInit PROVE Init /\ HandoffInv
  OBVIOUS
<1>1. Init /\ RequestsOK
  BY DEF HInit, RequestsOK, Requests, Idle, Threads
<1>2. GateKept
  BY DEF HInit, GateKept, GrantedPcs
<1> QED
  BY <1>1, <1>2 DEF HandoffInv

-----------------------------------------------------------------------------
\* Whatever the connection does, the capture gate sees a behaviour of
\* CaptureGate, and the checkpoint thread has the gate from the grant to
\* checkpoint_end().
THEOREM HandoffUsesGate == HSpec => Spec /\ [](CaptureInv /\ HandoffInv)
<1>1. HInit => Init /\ CaptureInv /\ HandoffInv
  BY HInitGood, InitCaptures
<1>2. CaptureInv /\ HandoffInv /\ [HNext]_hvars
          => [Next]_vars /\ CaptureInv' /\ HandoffInv'
  <2> SUFFICES ASSUME CaptureInv, HandoffInv, [HNext]_hvars
               PROVE  [Next]_vars /\ CaptureInv' /\ HandoffInv'
    OBVIOUS
  <2>1. Good
    BY HNextGood DEF CaptureInv
  <2> QED
    BY <2>1, NextCaptures DEF Good
<1> QED
  BY <1>1, <1>2, PTL DEF HSpec, Spec

\* Stream captures and checkpoints exclude each other although the gate is
\* used by every connection of the process: a handoff implements GateSpec.
THEOREM HandoffImplementsGate == HSpec => ImplementsGate
  BY HandoffUsesGate, CaptureGateImplementsGate, PTL

\* No capture is admitted or active while checkpoint_handoff() has requests
\* paused, so no paused caller is one that must end a capture.
THEOREM PausedHandoffHasNoCaptures == HSpec => []PausedWithoutCaptures
<1>1. CaptureInv /\ HandoffInv => PausedWithoutCaptures
  <2> SUFFICES ASSUME CaptureInv, HandoffInv,
                      ck \in {"drain", "drainwait", "D", "dwait", "recvF", "await",
                              "recvC", "park", "dial"}
               PROVE  UnderWay = {}
    BY DEF PausedWithoutCaptures
  <2>1. pc[Conn] = "held"
    BY DEF HandoffInv, GateKept, GrantedPcs
  <2>2. Conn \in Holding
    BY <2>1, ConnAssumption DEF Holding
  <2> QED
    BY <2>2 DEF CaptureInv, HeldIsQuiet
<1> QED
  BY <1>1, HandoffUsesGate, PTL

=============================================================================
