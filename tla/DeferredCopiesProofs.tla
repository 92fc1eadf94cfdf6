------------------------ MODULE DeferredCopiesProofs ------------------------
(***************************************************************************)
(* Proofs about DeferredCopies, for any number of threads, streams, events *)
(* and slots and any workload: where copies are, what stale_semaphore      *)
(* counts, and that the bytes are there when the call of a single-threaded *)
(* program returns.  What the client's cache of completions says is proved *)
(* in EventCacheProofs.                                                    *)
(***************************************************************************)
EXTENDS EventCacheProofs, FiniteSetTheorems

\* Steps are tried with Zenon first, then with SMT.
USE ZenonT(30), SMTT(30)

\* The types of what only the copies use.
CopyTypes ==
    /\ torn \subseteq Issued(TRUE)
    /\ stale \in 0 .. load.copies
    /\ landed \in [1 .. (load.copies + load.records) -> Nat]

(* The queues *)

IsMarker(i) == ~ IsCopy(i)

\* r is the last record of its event that the server has executed.
Latest(r) ==
    /\ r \in 1 .. executed /\ IsMarker(r) /\ r > born[log[r].event]
    /\ \A j \in (r + 1) .. executed : log[j].event # log[r].event

\* What stream q queues: its own copies, and of the records on it or on the
\* legacy default stream the latest of each event.  No copy queued before the
\* latest record of an event lacks that record's marker.  Records that are still
\* to be executed are about the event as it is.
QueueInv ==
    /\ \A q \in AllStreams :
        /\ \A i \in pending[q] : IsCopy(i) => log[i].stream = q
        /\ \A m \in pending[q] : IsMarker(m) => Latest(m) /\ Follows(log[m].stream, q)
        /\ \A i \in pending[q] : \A r \in (i + 1) .. executed :
              IsCopy(i) /\ Latest(r) /\ Follows(log[r].stream, q) => r \in pending[q]
    /\ \A i \in (executed + 1) .. Len(log) : IsMarker(i) => i > born[log[i].event]

\* The device completes work in the order of submission.
DeviceInv ==
    \A m \in finished : \A j \in 1 .. (m - 1) :
        Ordered(log[m].stream, log[j].stream) => j \in finished

-----------------------------------------------------------------------------
(* The copies *)

\* The response of t's call carries the copy.
Carries(t, i) == call[t].pc \in {"land", "landquery"} /\ i \in call[t].got

\* An executed copy is queued for its stream, in one response or landed once, and
\* only executed copies are.
PlaceInv ==
    /\ \A t \in Threads : \A i \in Nat : Carries(t, i) =>
          /\ i \in 1 .. executed /\ IsCopy(i)
          /\ landed[i] = 0 /\ i \notin pending[log[i].stream]
          /\ \A u \in Threads : Carries(u, i) => u = t
    /\ \A q \in AllStreams : \A i \in pending[q] : IsCopy(i) => landed[i] = 0
    /\ \A i \in 1 .. executed : IsCopy(i) =>
          \/ i \in pending[log[i].stream]
          \/ landed[i] = 1
          \/ \E t \in Threads : Carries(t, i)
    /\ \A i \in DOMAIN landed : landed[i] # 0 =>
          landed[i] = 1 /\ i \in 1 .. executed /\ IsCopy(i)

\* Threads that have written a copy and not counted it; copies not handed back.
Counting == {t \in Threads : call[t].pc = "count"}
Unlanded == {i \in Issued(TRUE) : landed[i] = 0}

\* The workload's bounds, and what stale_semaphore counts: it may exceed the copies
\* not handed back, for good, once a response overtook the counting of its copy;
\* with one thread no response does.
CountInv ==
    /\ Cardinality(Issued(TRUE)) <= load.copies
    /\ Cardinality(Issued(FALSE)) <= load.records
    /\ stale + Cardinality(Counting) >= Cardinality(Unlanded)
    /\ stale + Cardinality(Counting) <= Cardinality(Issued(TRUE))
    /\ Serial => stale + Cardinality(Counting) = Cardinality(Unlanded)

-----------------------------------------------------------------------------
(* Programs with one thread *)

Owed(c) == IF c.event = None THEN StreamOwes(c.stream) ELSE EventOwes(c.event)
DriverDone(c) == IF c.event = None THEN StreamDone(c.stream) ELSE EventDone(c.event)
AllLanded(S) == \A i \in S : i \in DOMAIN landed /\ landed[i] > 0
Succeeds(c) == c.event \in c.ready

\* Nothing is issued while the thread is in a call: what it owes is what the
\* driver waits for, what is detached, and what lands.
SerialOK(t) ==
    /\ call[t].pc \in {"driver", "ask"} => call[t].fence = Len(log)
    /\ call[t].pc \in {"driver", "detach", "collect", "ask", "answer"} =>
          call[t].needs = Owed(call[t])
    /\ call[t].pc = "detach" \/ (call[t].pc = "answer" /\ Succeeds(call[t])) =>
          executed = Len(log) /\ DriverDone(call[t])
    /\ call[t].pc = "land" \/ (call[t].pc = "landquery" /\ Succeeds(call[t])) =>
          AllLanded(call[t].needs \ call[t].got)
    /\ call[t].pc = "success" \/ (call[t].pc = "cache" /\ Succeeds(call[t])) =>
          AllLanded(call[t].needs)
SerialInv == Serial => BlockingComplete /\ \A t \in Threads : SerialOK(t)

\* Threads outside the workload make no calls.
IdleInv == \A t \in Threads : t \notin load.threads => call[t].pc = "idle"

\* What is added to the invariant of the cache.
Rest ==
    /\ CopyTypes /\ QueueInv /\ DeviceInv /\ PlaceInv
    /\ CountInv /\ SerialInv /\ IdleInv
IInv == Types /\ CacheInv /\ Rest /\ OwedInv

-----------------------------------------------------------------------------
(* The queues *)

LEMMA QueueKept ==
    ASSUME Types, QueueInv, LogGrows, UNCHANGED <<pending, executed, born>>,
           Len(log') \in Nat, \A i \in 1 .. Len(log') : log'[i] \in Entries,
           \A i \in (Len(log) + 1) .. Len(log') : log'[i].event # None => i > born[log'[i].event]
    PROVE  QueueInv'
<1>1. \A i \in 1 .. executed : log'[i] = log[i]
  BY SMTT(30), LogTypes DEF LogGrows
<1>2. \A r \in 1 .. executed : Latest(r)' = Latest(r)
  BY SMTT(30), <1>1, LogTypes DEF Latest, IsMarker, IsCopy
<1>3. \A i \in (executed + 1) .. Len(log') : log'[i].event # None => i > born[log'[i].event]
  BY SMTT(30), LogTypes DEF LogGrows, QueueInv, IsMarker, IsCopy
<1> QED
  BY SMTT(30), <1>1, <1>2, <1>3, LogTypes DEF QueueInv, IsMarker, IsCopy

LEMMA QueueStill ==
    ASSUME QueueInv, UNCHANGED <<log, executed, born, pending>>
    PROVE  QueueInv'
  BY SMT DEF QueueInv, Latest, IsMarker, IsCopy

LEMMA QueueDetach ==
    ASSUME Types, QueueInv, NEW c \in Calls, UNCHANGED <<log, executed, born>>, Detach(c)
    PROVE  QueueInv'
<1>1. \A q \in AllStreams : pending'[q] = pending[q] \ Collects(c, q)
  BY DEF Detach
<1>2. \A r : Latest(r)' = Latest(r)
  BY DEF Latest, IsMarker, IsCopy
<1>3. ASSUME NEW q \in AllStreams, NEW i \in pending[q], NEW r \in pending[q], i < r,
             r \in Collects(c, q)
      PROVE  i \in Collects(c, q)
  BY SMTT(30), <1>3, LogTypes DEF Collects, Markers
<1>4. ASSUME NEW q \in AllStreams, NEW i \in pending'[q], NEW r \in (i + 1) .. executed,
             IsCopy(i), Latest(r), Follows(log[r].stream, q)
      PROVE  r \in pending'[q]
  <2>1. i \in pending[q] /\ i \notin Collects(c, q) /\ i < r
    BY SMTT(30), <1>1, LogTypes
  <2>2. r \in pending[q]
    BY <1>4, <2>1 DEF QueueInv
  <2> QED
    BY <1>1, <1>3, <2>1, <2>2
<1> QED
  BY SMTT(30), <1>1, <1>2, <1>4 DEF QueueInv, IsMarker, IsCopy

LEMMA QueueExecute ==
    ASSUME Types, QueueInv, Execute
    PROVE  QueueInv'
<1>0. PICK i0 \in Nat : i0 = executed + 1
  BY SMT, LogTypes
<1>1. /\ i0 \in 1 .. Len(log) /\ i0 = executed + 1 /\ executed' = i0
      /\ UNCHANGED <<log, born>> /\ executed \in Nat
  BY SMTT(30), <1>0, LogTypes DEF Execute
<1>2. ASSUME NEW r \in 1 .. executed
      PROVE  Latest(r)' <=> Latest(r) /\ log[i0].event # log[r].event
  BY SMT, <1>1 DEF Latest, IsMarker, IsCopy
<1>3. CASE IsCopy(i0)
  <2>1. \A q \in AllStreams : pending'[q] =
           IF q = log[i0].stream THEN pending[q] \cup {i0} ELSE pending[q]
    BY <1>0, <1>3 DEF Execute
  <2>2. ASSUME NEW q \in AllStreams, NEW i \in pending'[q]
        PROVE  /\ i \in pending[q] \/ (i = i0 /\ q = log[i0].stream)
               /\ IsCopy(i) => log[i].stream = q
               /\ IsMarker(i) => Latest(i)' /\ Follows(log[i].stream, q)
    <3>1. i \in pending[q] \/ (i = i0 /\ q = log[i0].stream)
      BY <2>1
    <3>2. i \in pending[q] /\ IsMarker(i) =>
             Latest(i) /\ i \in 1 .. executed /\ Follows(log[i].stream, q)
      BY LogTypes DEF QueueInv
    <3>3. IsCopy(i) => log[i].stream = q
      BY <3>1 DEF QueueInv
    <3>4. IsMarker(i) => log[i0].event # log[i].event
      BY <1>3 DEF IsMarker, IsCopy
    <3>5. IsMarker(i) => Latest(i)' /\ Follows(log[i].stream, q)
      BY <1>2, <1>3, <3>1, <3>2, <3>4 DEF IsMarker
    <3> QED
      BY <3>1, <3>3, <3>5
  <2>3. ASSUME NEW q \in AllStreams, NEW i \in pending'[q], NEW r \in (i + 1) .. executed',
               IsCopy(i), Latest(r)', Follows(log[r].stream, q)
        PROVE  r \in pending'[q]
    <3>1. r # i0
      BY <1>1, <1>3, <2>3 DEF Latest, IsMarker, IsCopy
    <3>2. i \in pending[q] \/ i = i0
      BY <2>2
    <3>2a. r \in Nat /\ r <= i0 /\ i < r
      BY SMTT(30), <1>1, <3>2, LogTypes
    <3>2b. i \in 1 .. executed /\ i \in pending[q] /\ r \in (i + 1) .. executed
      BY SMTT(30), <1>1, <3>1, <3>2, <3>2a, LogTypes
    <3>3. Latest(r)
      BY SMTT(30), <1>1, <1>2, <2>3, <3>2b
    <3>4. r \in pending[q]
      BY <2>3, <3>2b, <3>3 DEF QueueInv
    <3> QED
      BY <2>1, <3>4
  <2> QED
    BY SMTT(30), <1>1, <2>2, <2>3 DEF QueueInv, IsMarker, IsCopy
<1>4. CASE IsMarker(i0)
  <2>1. \A q \in AllStreams : pending'[q] =
           {i \in pending[q] : log[i].event # log[i0].event}
              \cup (IF q \in Marked(log[i0].stream) THEN {i0} ELSE {})
    BY <1>0, <1>4 DEF Execute, IsMarker, WithoutMarkers
  <2>2. Latest(i0)'
    BY SMTT(30), <1>1, <1>4 DEF QueueInv, Latest, IsMarker, IsCopy
  <2>3. ASSUME NEW q \in AllStreams, NEW i \in pending'[q]
        PROVE  /\ (i \in pending[q] /\ log[i].event # log[i0].event)
                    \/ (i = i0 /\ q \in Marked(log[i0].stream))
               /\ IsCopy(i) => log[i].stream = q
               /\ IsMarker(i) => Latest(i)' /\ Follows(log[i].stream, q)
    <3>1. (i \in pending[q] /\ log[i].event # log[i0].event)
             \/ (i = i0 /\ q \in Marked(log[i0].stream))
      BY <2>1
    <3>2. i \in pending[q] /\ IsMarker(i) =>
             Latest(i) /\ i \in 1 .. executed /\ Follows(log[i].stream, q)
      BY LogTypes DEF QueueInv
    <3>3. q \in Marked(log[i0].stream) => Follows(log[i0].stream, q)
      BY CopiesAssumption DEF Marked, Follows
    <3>4. IsCopy(i) => log[i].stream = q
      BY <1>4, <3>1 DEF QueueInv, IsMarker
    <3>5. IsMarker(i) => Latest(i)' /\ Follows(log[i].stream, q)
      BY <1>2, <2>2, <3>1, <3>2, <3>3
    <3> QED
      BY <3>1, <3>4, <3>5
  <2>4. ASSUME NEW q \in AllStreams, NEW i \in pending'[q], NEW r \in (i + 1) .. executed',
               IsCopy(i), Latest(r)', Follows(log[r].stream, q)
        PROVE  r \in pending'[q]
    <3>1. i \in pending[q] /\ i \in 1 .. executed
      BY <1>4, <2>3, <2>4, LogTypes DEF IsMarker
    <3>2. CASE r = i0
      <4>1. q \in Marked(log[i0].stream)
        BY <2>4, <3>1, <3>2, CopiesAssumption DEF Marked, AllStreams, Follows
      <4> QED
        BY <2>1, <3>2, <4>1
    <3>3. CASE r # i0
      <4>1. r \in (i + 1) .. executed /\ r \in 1 .. executed
        BY SMTT(30), <1>1, <3>1, <3>3
      <4>2. Latest(r) /\ log[i0].event # log[r].event
        BY <1>2, <2>4, <4>1
      <4>3. r \in pending[q]
        BY <2>4, <3>1, <4>1, <4>2 DEF QueueInv
      <4> QED
        BY <2>1, <4>2, <4>3
    <3> QED
      BY <3>2, <3>3
  <2> QED
    BY SMTT(30), <1>1, <2>3, <2>4 DEF QueueInv, IsMarker, IsCopy
<1> QED
  BY <1>3, <1>4 DEF IsMarker

LEMMA QueueRecreate ==
    ASSUME Types, QueueInv, NEW e \in Events, Recreate(e)
    PROVE  QueueInv'
<1>1. /\ UNCHANGED <<log, executed>> /\ born' = [born EXCEPT ![e] = Len(log)]
      /\ \A q \in AllStreams : pending'[q] = {i \in pending[q] : log[i].event # e}
  BY DEF Recreate, WithoutMarkers
<1>2. \A f \in Events : born'[f] = IF f = e THEN Len(log) ELSE born[f]
  BY <1>1 DEF Types
<1>3. ASSUME NEW r \in 1 .. executed
      PROVE  Latest(r)' <=> Latest(r) /\ log[r].event # e
  BY SMTT(30), <1>1, <1>2, LogTypes DEF Latest, IsMarker, IsCopy
<1>4. ASSUME NEW i \in (executed + 1) .. Len(log), IsMarker(i)
      PROVE  i > born'[log[i].event]
  <2>1. log[i].event # e
    BY SMTT(30), <1>4, LogTypes DEF Recreate, Issued, IsMarker
  <2> QED
    BY SMTT(30), <1>2, <1>4, <2>1, LogTypes DEF QueueInv, IsMarker, IsCopy
<1>5. ASSUME NEW q \in AllStreams, NEW i \in pending'[q]
      PROVE  /\ i \in pending[q] /\ i \in 1 .. executed /\ log[i].event # e
             /\ IsMarker(i) => Latest(i)'
  BY SMTT(30), <1>1, <1>3, LogTypes DEF QueueInv
<1>6. ASSUME NEW q \in AllStreams, NEW i \in pending'[q], NEW r \in (i + 1) .. executed,
             IsCopy(i), Latest(r)', Follows(log[r].stream, q)
      PROVE  r \in pending'[q]
  <2>1. Latest(r) /\ log[r].event # e
    BY SMTT(30), <1>3, <1>5, <1>6, LogTypes
  <2> QED
    BY SMTT(30), <1>1, <1>5, <1>6, <2>1 DEF QueueInv
<1> QED
  BY <1>1, <1>4, <1>5, <1>6 DEF QueueInv, IsMarker, IsCopy

-----------------------------------------------------------------------------
(* The device *)

LEMMA DeviceKept ==
    ASSUME Types, DeviceInv, LogGrows, finished' = finished
    PROVE  DeviceInv'
<1>1. \A i \in 1 .. executed : log'[i] = log[i]
  BY SMT, LogTypes DEF LogGrows
<1>2. \A m \in finished : m \in 1 .. executed /\ 1 .. (m - 1) \subseteq 1 .. executed
  BY SMT, LogTypes
<1> QED
  BY <1>1, <1>2 DEF DeviceInv, Ordered

LEMMA DeviceComplete ==
    ASSUME Types, DeviceInv, NEW i, Complete(i)
    PROVE  DeviceInv'
<1>1. finished' = finished \cup {i} /\ log' = log /\ i \in 1 .. executed
  BY DEF Complete
<1>2. ASSUME NEW m \in finished', NEW j \in 1 .. (m - 1),
             Ordered(log[m].stream, log[j].stream)
      PROVE  j \in finished'
  BY <1>1, <1>2 DEF DeviceInv, Complete
<1> QED
  BY <1>1, <1>2 DEF DeviceInv

-----------------------------------------------------------------------------
(* The copies *)

LEMMA IssuedFinite ==
    ASSUME Types
    PROVE  /\ IsFiniteSet(Issued(TRUE)) /\ IsFiniteSet(Issued(FALSE))
           /\ Cardinality(Issued(TRUE)) \in Nat /\ Cardinality(Issued(FALSE)) \in Nat
           /\ Cardinality(Issued(TRUE)) + Cardinality(Issued(FALSE)) = Len(log)
<1> DEFINE C == Issued(TRUE)
           R == Issued(FALSE)
<1>1. C \cup R = 1 .. Len(log) /\ C \cap R = {}
  BY LogTypes DEF Issued
<1> HIDE DEF C, R
<1>2. PICK n \in Nat : n = Len(log)
  BY LogTypes
<1>3. IsFiniteSet(1 .. n) /\ Cardinality(1 .. n) = n
  BY SMT, FS_Interval
<1>4. IsFiniteSet(C) /\ IsFiniteSet(R)
  <2>1. C \in SUBSET (1 .. n) /\ R \in SUBSET (1 .. n)
    BY <1>1, <1>2
  <2> QED
    BY <1>3, <2>1, FS_Subset
<1>5. Cardinality(C \cup R) = Cardinality(C) + Cardinality(R) - Cardinality(C \cap R)
  BY <1>4, FS_Union
<1>6. Cardinality(C \cap R) = 0
  BY <1>1, FS_EmptySet
<1>7. Cardinality(C) \in Nat /\ Cardinality(R) \in Nat
  BY <1>4, FS_CardinalityType
<1>8. Cardinality(C \cup R) = n
  BY <1>1, <1>2, <1>3
<1>9. Cardinality(C) + Cardinality(R) = n
  BY SMTT(30), <1>5, <1>6, <1>7, <1>8
<1> QED
  BY <1>2, <1>4, <1>7, <1>9 DEF C, R

LEMMA LogBound ==
    ASSUME Types, CopyTypes, CountInv
    PROVE  1 .. Len(log) \subseteq DOMAIN landed
<1> DEFINE c == Cardinality(Issued(TRUE))
           r == Cardinality(Issued(FALSE))
<1>1. c \in Nat /\ r \in Nat /\ c + r = Len(log)
  BY IssuedFinite
<1>2. c <= load.copies /\ r <= load.records
  BY DEF CountInv
<1> HIDE DEF c, r
<1>3. Len(log) <= load.copies + load.records
  BY SMTT(30), <1>1, <1>2, LoadTypes
<1> QED
  BY SMTT(30), <1>3, LogTypes, LoadTypes DEF CopyTypes

LEMMA PlaceKept ==
    ASSUME Types, PlaceInv, LogGrows, UNCHANGED <<executed, landed>>,
           \A q \in AllStreams : \A i \in 1 .. executed :
              IsCopy(i) => (i \in pending'[q] <=> i \in pending[q]),
           \A q \in AllStreams : pending'[q] \subseteq 1 .. executed,
           \A t \in Threads : \A i \in Nat : Carries(t, i)' <=> Carries(t, i)
    PROVE  PlaceInv'
<1>1. \A i \in 1 .. executed : i \in Nat /\ log'[i] = log[i] /\ log[i].stream \in AllStreams
  BY SMT, LogTypes DEF LogGrows
<1>2. ASSUME NEW t \in Threads, NEW i \in Nat, Carries(t, i)'
      PROVE  /\ i \in 1 .. executed /\ log'[i].event = None
             /\ landed[i] = 0 /\ i \notin pending'[log'[i].stream]
             /\ \A u \in Threads : Carries(u, i)' => u = t
  <2>1. Carries(t, i)
    BY <1>2
  <2>2. i \in 1 .. executed /\ IsCopy(i) /\ landed[i] = 0 /\ i \notin pending[log[i].stream]
    BY <2>1 DEF PlaceInv
  <2>3. \A u \in Threads : Carries(u, i) => u = t
    BY <2>1 DEF PlaceInv
  <2> QED
    BY <1>1, <2>2, <2>3 DEF IsCopy
<1>3. ASSUME NEW q \in AllStreams, NEW i \in pending'[q], log'[i].event = None
      PROVE  landed[i] = 0
  BY <1>1, <1>3 DEF PlaceInv, IsCopy
<1>4. ASSUME NEW i \in 1 .. executed, log'[i].event = None
      PROVE  \/ i \in pending'[log'[i].stream] \/ landed[i] = 1
             \/ \E t \in Threads : Carries(t, i)'
  <2>1. IsCopy(i)
    BY <1>1, <1>4 DEF IsCopy
  <2>2. i \in pending[log[i].stream] \/ landed[i] = 1 \/ \E t \in Threads : Carries(t, i)
    BY <1>4, <2>1 DEF PlaceInv
  <2> QED
    BY <1>1, <2>1, <2>2
<1>5. \A i \in DOMAIN landed : landed[i] # 0 =>
         landed[i] = 1 /\ i \in 1 .. executed /\ log'[i].event = None
  BY <1>1 DEF PlaceInv, IsCopy
<1> QED
  BY <1>2, <1>3, <1>4, <1>5 DEF PlaceInv, IsCopy

LEMMA PlaceExecute ==
    ASSUME Types, CopyTypes, CountInv, PlaceInv, QueueInv, Execute
    PROVE  PlaceInv'
<1>0. PICK i0 \in Nat : i0 = executed + 1
  BY SMT, LogTypes
<1>1. /\ i0 \in 1 .. Len(log) /\ i0 \notin 1 .. executed /\ 1 .. executed' = (1 .. executed) \cup {i0}
      /\ UNCHANGED <<log, call, landed>>
  BY SMTT(30), <1>0, LogTypes DEF Execute
<1>2. \A t \in Threads : \A i \in Nat : Carries(t, i)' <=> Carries(t, i)
  BY <1>1 DEF Carries
<1>3. landed[i0] = 0 /\ \A t \in Threads : ~ Carries(t, i0)
  BY <1>1, LogBound DEF PlaceInv
<1>4. ASSUME NEW q \in AllStreams, NEW i, IsCopy(i)
      PROVE  i \in pending'[q] <=> i \in pending[q] \/ (i = i0 /\ q = log[i0].stream)
  <2>1. CASE IsCopy(i0)
    BY <1>0, <2>1 DEF Execute
  <2>2. CASE ~ IsCopy(i0)
    <3>1. log[i].event # log[i0].event /\ i # i0
      BY <1>4, <2>2 DEF IsCopy
    <3>2. pending'[q] = {k \in pending[q] : log[k].event # log[i0].event}
              \cup (IF q \in Marked(log[i0].stream) THEN {i0} ELSE {})
      BY <1>0, <2>2 DEF Execute, WithoutMarkers
    <3> QED
      BY <3>1, <3>2
  <2> QED
    BY <2>1, <2>2
<1>5. \A i \in 1 .. executed' : log[i].stream \in AllStreams
  BY SMTT(30), <1>1, LogTypes
<1>6. ASSUME NEW t \in Threads, NEW i \in Nat, Carries(t, i)'
      PROVE  /\ i \in 1 .. executed' /\ IsCopy(i)
             /\ landed[i] = 0 /\ i \notin pending'[log[i].stream]
             /\ \A u \in Threads : Carries(u, i)' => u = t
  <2>1. Carries(t, i) /\ i # i0
    BY <1>2, <1>3, <1>6
  <2>2. i \in 1 .. executed /\ IsCopy(i) /\ landed[i] = 0 /\ i \notin pending[log[i].stream]
    BY <2>1 DEF PlaceInv
  <2>3. \A u \in Threads : Carries(u, i) => u = t
    BY <2>1 DEF PlaceInv
  <2> QED
    BY <1>1, <1>2, <1>4, <1>5, <2>1, <2>2, <2>3
<1>7. ASSUME NEW q \in AllStreams, NEW i \in pending'[q], IsCopy(i)
      PROVE  landed[i] = 0
  BY <1>3, <1>4, <1>7 DEF PlaceInv
<1>8. ASSUME NEW i \in 1 .. executed', IsCopy(i)
      PROVE  \/ i \in pending'[log[i].stream] \/ landed[i] = 1
             \/ \E t \in Threads : Carries(t, i)'
  <2>1. i = i0 \/ i \in pending[log[i].stream] \/ landed[i] = 1
           \/ \E t \in Threads : Carries(t, i)
    BY <1>1, <1>8 DEF PlaceInv
  <2>2. i \in Nat
    BY SMTT(30), <1>1, LogTypes
  <2> QED
    BY <1>2, <1>4, <1>5, <1>8, <2>1, <2>2
<1>9. \A i \in DOMAIN landed : landed[i] # 0 =>
         landed[i] = 1 /\ i \in 1 .. executed' /\ IsCopy(i)
  BY <1>1 DEF PlaceInv
<1> QED
  BY <1>1, <1>6, <1>7, <1>8, <1>9 DEF PlaceInv, IsCopy

\* A detach moves the copies it collects from the queues to one response.
LEMMA PlaceDetach ==
    ASSUME Types, QueueInv, PlaceInv, NEW t \in Threads, Detach(call[t]),
           UNCHANGED <<log, executed, landed>>,
           \A i \in Nat : ~ Carries(t, i) /\ (Carries(t, i)' <=> i \in Collected(call[t])),
           \A u \in Threads : u # t => call'[u] = call[u]
    PROVE  PlaceInv'
<1>1. \A q \in AllStreams : pending'[q] = pending[q] \ Collects(call[t], q)
  BY DEF Detach
<1>2. \A u \in Threads : \A i \in Nat : u # t => (Carries(u, i)' <=> Carries(u, i))
  BY DEF Carries
<1>3. ASSUME NEW i \in Collected(call[t])
      PROVE  /\ i \in 1 .. executed /\ IsCopy(i) /\ landed[i] = 0
             /\ i \in pending[log[i].stream] /\ i \notin pending'[log[i].stream]
  <2>1. PICK q \in AllStreams : i \in Collects(call[t], q) /\ IsCopy(i)
    BY DEF Collected
  <2>2. i \in pending[q]
    BY <2>1 DEF Collects
  <2>3. q = log[i].stream
    BY <2>1, <2>2 DEF QueueInv
  <2>4. i \in 1 .. executed /\ landed[i] = 0
    BY <2>1, <2>2, LogTypes DEF PlaceInv
  <2> QED
    BY <1>1, <2>1, <2>2, <2>3, <2>4
<1>4. ASSUME NEW q \in AllStreams, NEW i \in pending[q], IsCopy(i)
      PROVE  i \in pending'[q] \/ i \in Collected(call[t])
  BY <1>1, <1>4 DEF Collected
<1>5. ASSUME NEW u \in Threads, NEW i \in Nat, Carries(u, i)'
      PROVE  /\ i \in 1 .. executed /\ IsCopy(i)
             /\ landed[i] = 0 /\ i \notin pending'[log[i].stream]
             /\ \A v \in Threads : Carries(v, i)' => v = u
  <2>1. CASE u = t
    <3>1. i \in Collected(call[t])
      BY <1>5, <2>1
    <3>2. \A v \in Threads : ~ Carries(v, i)
      BY <1>3, <3>1 DEF PlaceInv
    <3> QED
      BY <1>2, <1>3, <2>1, <3>1, <3>2
  <2>2. CASE u # t
    <3>1. Carries(u, i)
      BY <1>2, <1>5, <2>2
    <3>2. i \in 1 .. executed /\ IsCopy(i) /\ landed[i] = 0 /\ i \notin pending[log[i].stream]
      BY <3>1 DEF PlaceInv
    <3>3. i \notin Collected(call[t]) /\ i \notin pending'[log[i].stream]
      BY SMTT(30), <1>1, <1>3, <3>2, LogTypes
    <3>4. \A v \in Threads : Carries(v, i) => v = u
      BY <3>1 DEF PlaceInv
    <3> QED
      BY <1>2, <2>2, <3>2, <3>3, <3>4
  <2> QED
    BY <2>1, <2>2
<1>6. \A q \in AllStreams : \A i \in pending'[q] : IsCopy(i) => landed[i] = 0
  BY SMT, <1>1 DEF PlaceInv
<1>7. ASSUME NEW i \in 1 .. executed, IsCopy(i)
      PROVE  \/ i \in pending'[log[i].stream] \/ landed[i] = 1
             \/ \E u \in Threads : Carries(u, i)'
  <2>1. i \in Nat /\ log[i].stream \in AllStreams
    BY SMT, LogTypes
  <2>2. i \in pending[log[i].stream] \/ landed[i] = 1 \/ \E u \in Threads : Carries(u, i)
    BY <1>7 DEF PlaceInv
  <2> QED
    BY <1>2, <1>4, <1>7, <2>1, <2>2
<1> QED
  BY <1>5, <1>6, <1>7 DEF PlaceInv, IsCopy

\* The copies of a response land once.
LEMMA PlaceLand ==
    ASSUME Types, CopyTypes, CountInv, PlaceInv, QueueInv, NEW t \in Threads, Land(t),
           \A i \in Nat : ~ Carries(t, i)',
           \A u \in Threads : u # t => call'[u] = call[u]
    PROVE  /\ PlaceInv'
           /\ \A i \in DOMAIN landed : landed'[i] = IF i \in call[t].got THEN 1 ELSE landed[i]
           /\ call[t].got \subseteq Unlanded
<1>1. /\ UNCHANGED <<log, executed, pending>> /\ call[t].pc \in {"land", "landquery"}
      /\ landed' = [i \in DOMAIN landed |->
                        IF i \in call[t].got THEN landed[i] + 1 ELSE landed[i]]
  BY DEF Land, driver, server
<1>2. \A i \in Nat : Carries(t, i) <=> i \in call[t].got
  BY <1>1 DEF Carries
<1>3. \A u \in Threads : \A i \in Nat : u # t => (Carries(u, i)' <=> Carries(u, i))
  BY DEF Carries
<1>4. call[t].got \subseteq Nat
  BY DEF Types, Calls
<1>5. \A i \in call[t].got : i \in 1 .. executed /\ IsCopy(i) /\ landed[i] = 0
  BY <1>2, <1>4 DEF PlaceInv
<1>6. \A i \in DOMAIN landed : landed'[i] = IF i \in call[t].got THEN 1 ELSE landed[i]
  BY SMTT(30), <1>1, <1>5
<1>7. 1 .. Len(log) \subseteq DOMAIN landed /\ 1 .. executed \subseteq 1 .. Len(log)
      /\ DOMAIN landed' = DOMAIN landed
  BY SMTT(30), <1>1, LogBound, LogTypes
<1>8. ASSUME NEW u \in Threads, NEW i \in Nat, Carries(u, i)'
      PROVE  /\ i \in 1 .. executed /\ IsCopy(i)
             /\ landed'[i] = 0 /\ i \notin pending[log[i].stream]
             /\ \A v \in Threads : Carries(v, i)' => v = u
  <2>1. u # t /\ Carries(u, i)
    BY <1>3, <1>8
  <2>2. i \in 1 .. executed /\ IsCopy(i) /\ landed[i] = 0 /\ i \notin pending[log[i].stream]
    BY <2>1 DEF PlaceInv
  <2>3. \A v \in Threads : Carries(v, i) => v = u
    BY <2>1 DEF PlaceInv
  <2>4. i \notin call[t].got
    BY <1>2, <2>1, <2>3
  <2> QED
    BY <1>3, <1>6, <1>7, <2>2, <2>3, <2>4
<1>9. ASSUME NEW q \in AllStreams, NEW i \in pending[q], IsCopy(i)
      PROVE  landed'[i] = 0
  <2>1. i \in 1 .. executed /\ landed[i] = 0
    BY <1>9, LogTypes DEF PlaceInv
  <2>2. i \notin call[t].got
    <3> SUFFICES ASSUME i \in call[t].got PROVE FALSE
      OBVIOUS
    <3>1. i \notin pending[log[i].stream]
      BY <1>2, <1>4 DEF PlaceInv
    <3> QED
      BY <1>9, <3>1 DEF QueueInv
  <2> QED
    BY <1>6, <1>7, <2>1, <2>2
<1>10. ASSUME NEW i \in 1 .. executed, IsCopy(i)
       PROVE  \/ i \in pending[log[i].stream] \/ landed'[i] = 1
              \/ \E u \in Threads : Carries(u, i)'
  <2>1. i \in Nat
    BY SMT, LogTypes
  <2>2. i \in pending[log[i].stream] \/ landed[i] = 1 \/ \E u \in Threads : Carries(u, i)
    BY <1>10 DEF PlaceInv
  <2> QED
    BY <1>2, <1>3, <1>6, <1>7, <2>1, <2>2
<1>11. \A i \in DOMAIN landed : landed'[i] # 0 =>
          landed'[i] = 1 /\ i \in 1 .. executed /\ IsCopy(i)
  BY <1>5, <1>6 DEF PlaceInv
<1>12. PlaceInv'
  BY ZenonT(60), <1>1, <1>6, <1>7, <1>8, <1>9, <1>10, <1>11 DEF PlaceInv, IsCopy
<1>13. call[t].got \subseteq Unlanded
  BY <1>5, <1>7, LogTypes DEF Unlanded, Issued
<1> QED
  BY <1>6, <1>12, <1>13

-----------------------------------------------------------------------------
(* The semaphore *)

LEMMA CountsFinite ==
    ASSUME Types, CopyTypes
    PROVE  /\ IsFiniteSet(Counting) /\ Cardinality(Counting) \in Nat
           /\ IsFiniteSet(Unlanded) /\ Cardinality(Unlanded) \in Nat
           /\ stale \in Nat
<1>1. IsFiniteSet(Threads) /\ Counting \in SUBSET Threads
  BY CopiesAssumption DEF Counting
<1>2. Unlanded \in SUBSET Issued(TRUE)
  BY DEF Unlanded
<1>3. IsFiniteSet(Counting) /\ IsFiniteSet(Unlanded)
  BY <1>1, <1>2, IssuedFinite, FS_Subset
<1> QED
  BY SMTT(30), <1>3, LoadTypes, FS_CardinalityType DEF CopyTypes

LEMMA CountKept ==
    ASSUME CountInv, UNCHANGED <<load, log, landed, stale>>, Counting' = Counting
    PROVE  CountInv'
<1>1. Issued(TRUE)' = Issued(TRUE) /\ Issued(FALSE)' = Issued(FALSE)
  BY DEF Issued, IsCopy
<1>2. Unlanded' = Unlanded
  BY <1>1 DEF Unlanded
<1>3. Serial' = Serial
  BY DEF Serial
<1> QED
  BY <1>1, <1>2, <1>3 DEF CountInv

\* A call that is written takes the next place in the log.
LEMMA IssuedGrows ==
    ASSUME Types, NEW x \in Entries, log' = Append(log, x)
    PROVE  /\ Issued(TRUE)' = IF x.event = None THEN Issued(TRUE) \cup {Len(log) + 1}
                                                ELSE Issued(TRUE)
           /\ Issued(FALSE)' = IF x.event # None THEN Issued(FALSE) \cup {Len(log) + 1}
                                                 ELSE Issued(FALSE)
           /\ Len(log) + 1 \notin Issued(TRUE) \cup Issued(FALSE)
<1>1. /\ Len(log) \in Nat /\ DOMAIN log = 1 .. Len(log)
      /\ DOMAIN log' = 1 .. (Len(log) + 1)
      /\ log'[Len(log) + 1] = x /\ \A i \in 1 .. Len(log) : log'[i] = log[i]
  BY SMTT(30), Appended, LogTypes DEF LogGrows
<1> QED
  BY SMT, <1>1 DEF Issued, IsCopy

LEMMA CountCopyAsync ==
    ASSUME Types, CopyTypes, CountInv, PlaceInv, NEW t \in Threads, NEW x \in Entries,
           x.event = None, log' = Append(log, x), Cardinality(Issued(TRUE)) < load.copies,
           UNCHANGED <<load, landed, stale>>, t \notin Counting, Counting' = Counting \cup {t}
    PROVE  CountInv'
<1> DEFINE c == Cardinality(Issued(TRUE))
           r == Cardinality(Issued(FALSE))
           k == Cardinality(Counting)
           u == Cardinality(Unlanded)
<1>1. c \in Nat /\ r \in Nat /\ k \in Nat /\ u \in Nat /\ stale \in Nat /\ c + r = Len(log)
  BY IssuedFinite, CountsFinite
<1>2. Cardinality(Issued(TRUE)') = c + 1 /\ Issued(FALSE)' = Issued(FALSE)
  BY IssuedGrows, IssuedFinite, FS_AddElement
<1>3. Cardinality(Counting') = k + 1
  BY CountsFinite, FS_AddElement
<1>4. Cardinality(Unlanded') = u + 1
  <2>1. Len(log) + 1 \in DOMAIN landed
    <3> HIDE DEF c, r
    <3>1. r <= load.records /\ c < load.copies
      BY DEF CountInv, c, r
    <3> QED
      BY SMTT(30), <1>1, <3>1, LoadTypes DEF CopyTypes
  <2>2. landed[Len(log) + 1] = 0
    BY SMTT(30), <2>1, LogTypes DEF PlaceInv
  <2>3. Unlanded' = Unlanded \cup {Len(log) + 1} /\ Len(log) + 1 \notin Unlanded
    BY <2>2, IssuedGrows DEF Unlanded
  <2> QED
    BY <2>3, CountsFinite, FS_AddElement
<1>5. Serial' = Serial
  BY DEF Serial
<1>6. /\ c < load.copies /\ r <= load.records /\ stale + k >= u /\ stale + k <= c
      /\ Serial => stale + k = u
  BY DEF CountInv
<1>7. Cardinality(Issued(FALSE)') <= load.records
  BY <1>2, <1>6
<1> HIDE DEF c, r, k, u
<1>8. /\ Cardinality(Issued(TRUE)') <= load.copies
      /\ stale + Cardinality(Counting') >= Cardinality(Unlanded')
      /\ stale + Cardinality(Counting') <= Cardinality(Issued(TRUE)')
      /\ Serial => stale + Cardinality(Counting') = Cardinality(Unlanded')
  <2>1. /\ c + 1 <= load.copies /\ stale + (k + 1) >= u + 1 /\ stale + (k + 1) <= c + 1
        /\ Serial => stale + (k + 1) = u + 1
    BY SMTT(30), <1>1, <1>6, LoadTypes
  <2> QED
    BY <1>2, <1>3, <1>4, <2>1
<1> QED
  BY <1>5, <1>7, <1>8 DEF CountInv

LEMMA CountEventRecord ==
    ASSUME Types, CountInv, NEW x \in Entries,
           x.event # None, log' = Append(log, x), Cardinality(Issued(FALSE)) < load.records,
           UNCHANGED <<load, landed, stale>>, Counting' = Counting
    PROVE  CountInv'
<1>1. Cardinality(Issued(FALSE)') = Cardinality(Issued(FALSE)) + 1 /\ Issued(TRUE)' = Issued(TRUE)
  BY IssuedGrows, IssuedFinite, FS_AddElement
<1>2. Unlanded' = Unlanded
  BY <1>1 DEF Unlanded
<1>3. Serial' = Serial
  BY DEF Serial
<1>4. Cardinality(Issued(FALSE)') <= load.records
  <2>1. PICK n \in Nat : n = Cardinality(Issued(FALSE))
    BY IssuedFinite
  <2>2. n < load.records
    BY <2>1
  <2>3. n + 1 <= load.records
    BY SMTT(30), <2>2, LoadTypes
  <2> QED
    BY <1>1, <2>1, <2>3
<1> QED
  BY <1>1, <1>2, <1>3, <1>4 DEF CountInv

LEMMA CountCountCopy ==
    ASSUME Types, CopyTypes, CountInv, NEW t \in Threads, UNCHANGED <<load, log, landed>>,
           stale' = stale + 1, t \in Counting, Counting' = Counting \ {t}
    PROVE  CountInv'
<1> DEFINE k == Cardinality(Counting)
<1>1. Issued(TRUE)' = Issued(TRUE) /\ Issued(FALSE)' = Issued(FALSE)
  BY DEF Issued, IsCopy
<1>2. Unlanded' = Unlanded
  BY <1>1 DEF Unlanded
<1>3. Serial' = Serial
  BY DEF Serial
<1>4. Cardinality(Counting') = k - 1
  BY CountsFinite, FS_RemoveElement
<1>5. k \in Nat /\ stale \in Nat
  BY CountsFinite
<1> HIDE DEF k
<1>6. stale' + Cardinality(Counting') = stale + k
  BY SMTT(30), <1>4, <1>5
<1> QED
  BY <1>1, <1>2, <1>3, <1>6 DEF CountInv, k

\* stale_semaphore gives up the copies of a response; it falls short of them only
\* when another thread has written a copy it has not counted yet.
LEMMA CountLand ==
    ASSUME Types, CopyTypes, CountInv, NEW got \in SUBSET Unlanded, Unlanded' = Unlanded \ got,
           UNCHANGED <<load, log>>, HandedBack(Cardinality(got)), Counting' = Counting,
           Serial => Counting = {}
    PROVE  CountInv'
<1> DEFINE k == Cardinality(Counting)
           u == Cardinality(Unlanded)
           n == Cardinality(got)
           c == Cardinality(Issued(TRUE))
<1>1. Issued(TRUE)' = Issued(TRUE) /\ Issued(FALSE)' = Issued(FALSE)
  BY DEF Issued, IsCopy
<1>2. Serial' = Serial
  BY DEF Serial
<1>3. IsFiniteSet(Unlanded) /\ u \in Nat /\ k \in Nat /\ stale \in Nat /\ c \in Nat
  BY CountsFinite, IssuedFinite
<1>4. IsFiniteSet(got) /\ n \in Nat /\ n <= u
  BY <1>3, FS_Subset, FS_CardinalityType
<1>5. Cardinality(Unlanded') = u - n
  <2>1. Unlanded \cap got = got
    OBVIOUS
  <2> QED
    BY ZenonT(60), <1>3, <2>1, FS_Difference
<1>6. Serial => k = 0
  BY FS_EmptySet
<1>7. stale + k >= u /\ stale + k <= c /\ (Serial => stale + k = u)
  BY DEF CountInv
<1>8. stale' = IF n >= stale THEN 0 ELSE stale - n
  BY DEF HandedBack
<1> HIDE DEF k, u, n, c
<1>9. stale' + k >= u - n /\ stale' + k <= c /\ (Serial => stale' + k = u - n)
  BY SMTT(30), <1>3, <1>4, <1>6, <1>7, <1>8
<1> QED
  BY <1>1, <1>2, <1>5, <1>9 DEF CountInv, k, c

-----------------------------------------------------------------------------
(* Programs with one thread *)

LEMMA Alone ==
    ASSUME Types, IdleInv, Serial, NEW t \in Threads, NEW u \in Threads, u # t,
           t \in load.threads \/ call[t].pc # "idle"
    PROVE  call[u].pc = "idle"
<1>1. IsFiniteSet(load.threads)
  BY LoadTypes, CopiesAssumption, FS_Subset
<1>2. PICK x : load.threads = {x}
  BY <1>1, FS_Singleton DEF Serial
<1> QED
  BY <1>2 DEF IdleInv

LEMMA LatestIsLast ==
    ASSUME Types, NEW e \in Events
    PROVE  /\ LastRecord(e, executed) # 0 => Latest(LastRecord(e, executed))
           /\ \A m : Latest(m) /\ log[m].event = e => m = LastRecord(e, executed)
<1>0. executed \in 0 .. Len(log)
  BY DEF Types
<1>1. PICK r \in 0 .. executed : r = LastRecord(e, executed)
  BY <1>0, LastRecordFacts
<1>2. /\ r # 0 => r > born[e] /\ log[r].event = e
      /\ \A i \in (born[e] + 1) .. executed : log[i].event = e => i <= r
  BY <1>0, <1>1, LastRecordFacts
<1>3. born[e] \in Nat /\ executed \in Nat /\ e # None
  BY SMT, LogTypes
<1>4. r # 0 => Latest(r)
  BY SMTT(30), <1>2, <1>3 DEF Latest, IsMarker, IsCopy
<1>5. ASSUME NEW m, Latest(m), log[m].event = e PROVE m = r
  <2>1. m \in 1 .. executed /\ m > born[e] /\ \A j \in (m + 1) .. executed : log[j].event # e
    BY <1>5 DEF Latest
  <2>2. m <= r
    BY SMTT(30), <1>2, <1>3, <1>5, <2>1
  <2> QED
    BY SMTT(30), <1>2, <1>3, <2>1, <2>2
<1> QED
  BY <1>1, <1>4, <1>5

\* What the call detaches is complete, and is all that its caller still lacks.
LEMMA SerialCollects ==
    ASSUME Types, CopyTypes, QueueInv, DeviceInv, PlaceInv, CountInv, IdleInv, Serial,
           NEW t \in Threads, call[t].pc \in {"detach", "answer"},
           executed = Len(log), DriverDone(call[t])
    PROVE  /\ \A i \in Collected(call[t]) : i \in finished \/ log[i].stream \in NonBlocking
           /\ AllLanded(Owed(call[t]) \ Collected(call[t]))
<1> DEFINE c == call[t]
<1>1. ASSUME NEW i \in Issued(TRUE)
      PROVE  /\ i \in 1 .. executed /\ IsCopy(i) /\ i \in DOMAIN landed /\ log[i].stream \in AllStreams
             /\ landed[i] > 0 \/ i \in pending[log[i].stream]
  <2>1. i \in 1 .. executed /\ IsCopy(i) /\ i \in DOMAIN landed /\ log[i].stream \in AllStreams
    BY LogTypes, LogBound DEF Issued
  <2>2. \A u \in Threads : ~ Carries(u, i)
    BY Alone DEF Carries
  <2> QED
    BY SMT, <2>1, <2>2 DEF PlaceInv
<1>2. ASSUME NEW i \in Collected(c)
      PROVE  \E q \in AllStreams : /\ i \in Collects(c, q) /\ i \in pending[q]
                                    /\ IsCopy(i) /\ log[i].stream = q /\ i \in 1 .. executed
  <2>1. PICK q \in AllStreams : i \in Collects(c, q) /\ IsCopy(i)
    BY DEF Collected
  <2>2. i \in pending[q]
    BY <2>1 DEF Collects
  <2> QED
    BY <2>1, <2>2, LogTypes DEF QueueInv
<1>3. CASE c.event = None
  <2>1. StreamDone(c.stream) /\ Owed(c) = StreamOwes(c.stream)
    BY <1>3 DEF DriverDone, Owed
  <2>2. ASSUME NEW i \in Collected(c) PROVE i \in finished \/ log[i].stream \in NonBlocking
    <3>1. PICK q \in AllStreams : i \in Collects(c, q) /\ log[i].stream = q /\ i \in 1 .. executed
      BY <1>2
    <3>2. c.stream \in {q, Null}
      BY <1>3, <3>1 DEF Collects
    <3>3. Follows(c.stream, q) \/ q \in NonBlocking
      BY <3>2 DEF Follows
    <3> QED
      BY <2>1, <3>1, <3>3 DEF StreamDone
  <2>3. ASSUME NEW i \in StreamOwes(c.stream), i \notin Collected(c)
        PROVE  i \in DOMAIN landed /\ landed[i] > 0
    <3>1. i \in Issued(TRUE) /\ Follows(c.stream, log[i].stream)
      BY DEF StreamOwes
    <3>2. i \in pending[log[i].stream] => i \in Collects(c, log[i].stream)
      BY <1>3, <3>1 DEF Collects, Follows
    <3> QED
      BY <1>1, <2>3, <3>1, <3>2 DEF Collected
  <2> QED
    BY <2>1, <2>2, <2>3 DEF AllLanded
<1>4. CASE c.event # None
  <2>1. PICK e \in Events : e = c.event /\ e # None
    BY <1>4 DEF Types, Calls
  <2>2a. executed \in 0 .. Len(log)
    BY DEF Types
  <2>2. PICK r \in 0 .. executed : r = LastRecord(e, executed)
    BY <2>2a, LastRecordFacts
  <2>3. /\ r # 0 => Latest(r) /\ log[r].event = e
        /\ \A m : Latest(m) /\ log[m].event = e => m = r
    BY <2>2, <2>2a, LatestIsLast, LastRecordFacts
  <2>4. r = 0 \/ r \in finished
    BY <1>4, <2>1, <2>2 DEF DriverDone, EventDone
  <2>5. ASSUME NEW q \in AllStreams, NEW m \in Markers(pending[q], e)
        PROVE  m = r /\ r # 0 /\ Follows(log[r].stream, q) /\ m \in pending[q]
    <3>1. m \in pending[q] /\ log[m].event = e
      BY DEF Markers
    <3>2. Latest(m) /\ Follows(log[m].stream, q) /\ m \in 1 .. executed
      BY <2>1, <3>1, LogTypes DEF QueueInv, IsMarker, IsCopy
    <3> QED
      BY SMTT(30), <2>3, <3>1, <3>2
  <2>6. ASSUME NEW i \in Collected(c) PROVE i \in finished
    <3>1. PICK q \in AllStreams : i \in Collects(c, q) /\ log[i].stream = q /\ i \in 1 .. executed
                                  /\ IsCopy(i)
      BY <1>2
    <3>2. PICK m \in Markers(pending[q], e) : i <= m
      BY <2>1, <3>1 DEF Collects
    <3>3. m = r /\ r \in finished /\ Follows(log[r].stream, q) /\ log[r].event = e
      <4>1. m = r /\ r # 0 /\ Follows(log[r].stream, q)
        BY <2>5, <3>2
      <4> QED
        BY <2>3, <2>4, <4>1
    <3>4. i # r
      BY <2>1, <3>1, <3>3 DEF IsCopy
    <3>5. i \in 1 .. (r - 1) /\ Ordered(log[r].stream, log[i].stream)
      BY SMTT(30), <3>1, <3>2, <3>3, <3>4, LogTypes DEF Ordered
    <3> QED
      BY <3>3, <3>5 DEF DeviceInv
  <2>7. ASSUME NEW i \in EventOwes(e), i \notin Collected(c)
        PROVE  i \in DOMAIN landed /\ landed[i] > 0
    <3>1. i \in Issued(TRUE) /\ i < r /\ Follows(log[r].stream, log[i].stream)
      BY <2>2 DEF EventOwes
    <3>2. i \in 1 .. executed /\ IsCopy(i) /\ log[i].stream \in AllStreams
      BY <1>1, <3>1
    <3>3. ASSUME i \in pending[log[i].stream] PROVE i \in Collects(c, log[i].stream)
      <4>1. r \in (i + 1) .. executed /\ r # 0
        BY SMTT(30), <3>1, <3>2, LogTypes
      <4>2. r \in pending[log[i].stream]
        BY <2>3, <3>1, <3>2, <3>3, <4>1 DEF QueueInv
      <4>3. r \in Markers(pending[log[i].stream], e)
        BY <2>3, <4>1, <4>2 DEF Markers
      <4>4. \A m \in Markers(pending[log[i].stream], e) : m = r
        BY <2>5, <3>2
      <4>5. i <= r
        BY SMTT(30), <4>1, <3>2, LogTypes
      <4> QED
        BY <2>1, <3>3, <4>3, <4>4, <4>5 DEF Collects
    <3> QED
      BY <1>1, <2>7, <3>1, <3>2, <3>3 DEF Collected
  <2>8. Owed(c) = EventOwes(e)
    BY <1>4, <2>1 DEF Owed
  <2> QED
    BY <2>6, <2>7, <2>8 DEF AllLanded
<1> QED
  BY <1>3, <1>4

LEMMA SerialKept ==
    ASSUME Types, IdleInv, SerialInv, UNCHANGED load, NEW t \in load.threads,
           \A u \in Threads : u # t => call'[u] = call[u],
           Serial => BlockingComplete' /\ SerialOK(t)'
    PROVE  SerialInv' /\ IdleInv'
<1>1. t \in Threads
  BY LoadTypes
<1>2. IdleInv'
  BY <1>1 DEF IdleInv
<1>3. ASSUME Serial PROVE BlockingComplete' /\ \A u \in Threads : SerialOK(u)'
  <2>1. ASSUME NEW u \in Threads, u # t PROVE SerialOK(u)'
    <3>1. call'[u].pc = "idle"
      BY SMTT(30), <1>1, <1>3, <2>1, Alone
    <3> QED
      BY <3>1 DEF SerialOK
  <2> QED
    BY <1>3, <2>1
<1>4. SerialInv'
  BY <1>3 DEF SerialInv, Serial
<1> QED
  BY <1>2, <1>4

-----------------------------------------------------------------------------
(* Steps that change the thread's call only *)

\* The call keeps the response it carries, if it carries one.
LEMMA LocalStep ==
    ASSUME Types, Rest, UNCHANGED <<load, driver, server, landed>>,
           stale' \in 0 .. load.copies, NEW t \in Threads, t \in load.threads,
           \A u \in Threads : u # t => call'[u] = call[u],
           call[t].pc \notin {"land", "landquery"},
           call'[t].pc \notin {"land", "landquery"} \/ call'[t].got = {},
           CountInv', Serial => SerialOK(t)'
    PROVE  Rest'
<1> USE DEF driver, server
<1>1. CopyTypes'
  BY DEF Rest, CopyTypes, Issued, IsCopy
<1>2a. QueueInv'
  BY QueueStill DEF Rest
<1>2b. DeviceInv'
  BY DEF Rest, DeviceInv, Ordered
<1>3. PlaceInv'
  <2>1. \A u \in Threads : \A i \in Nat : Carries(u, i)' <=> Carries(u, i)
    BY DEF Carries
  <2>2. LogGrows /\ \A q \in AllStreams : pending'[q] \subseteq 1 .. executed
    BY SMT, LogTypes DEF LogGrows
  <2> QED
    BY <2>1, <2>2, PlaceKept DEF Rest
<1>4. SerialInv' /\ IdleInv'
  BY SerialKept DEF SerialInv, BlockingComplete, Rest
<1> QED
  BY <1>1, <1>2a, <1>2b, <1>3, <1>4 DEF Rest

LEMMA CallOnly ==
    ASSUME Types, Rest, UNCHANGED <<load, driver, server, stale, landed>>,
           NEW t \in Threads, t \in load.threads,
           \A u \in Threads : u # t => call'[u] = call[u],
           call[t].pc \notin {"count", "land", "landquery"},
           call'[t].pc \notin {"count", "land"},
           call'[t].pc # "landquery" \/ call'[t].got = {},
           Serial => SerialOK(t)'
    PROVE  Rest'
<1>1. Counting' = Counting
  BY DEF Counting
<1>2. CountInv'
  BY <1>1, CountKept DEF driver, Rest
<1>3. stale' \in 0 .. load.copies
  BY DEF Rest, CopyTypes
<1> QED
  BY <1>2, <1>3, LocalStep

LEMMA DriverKept ==
    ASSUME UNCHANGED driver
    PROVE  /\ \A s : StreamOwes(s)' = StreamOwes(s) /\ (StreamDone(s)' <=> StreamDone(s))
           /\ \A e : EventOwes(e)' = EventOwes(e) /\ (EventDone(e)' <=> EventDone(e))
<1>1. Issued(TRUE)' = Issued(TRUE)
  BY DEF driver, Issued, IsCopy
<1>2. \A e, n : LastRecord(e, n)' = LastRecord(e, n)
  BY DEF driver, LastRecord
<1>3. \A s : StreamOwes(s)' = StreamOwes(s) /\ (StreamDone(s)' <=> StreamDone(s))
  BY <1>1 DEF StreamOwes, StreamDone, driver
<1>4. \A e : EventOwes(e)' = EventOwes(e) /\ (EventDone(e)' <=> EventDone(e))
  BY <1>1, <1>2 DEF EventOwes, EventDone, driver
<1> QED
  BY <1>3, <1>4

LEMMA StepReturn ==
    ASSUME Types, Rest, UNCHANGED load, NEW t \in Threads, t \in load.threads, Return(t)
    PROVE  Rest'
<1>1. call' = [call EXCEPT ![t] = Idle] /\ Idle.pc = "idle" /\ call[t].pc = "success"
  BY DEF Return, Done, Idle
<1>2. call'[t] = Idle /\ \A u \in Threads : u # t => call'[u] = call[u]
  BY <1>1, CallAt
<1>3. SerialOK(t)'
  BY <1>1, <1>2 DEF SerialOK
<1> QED
  BY <1>1, <1>2, <1>3, CallOnly DEF Return

LEMMA StepSynchronize ==
    ASSUME Types, Rest, UNCHANGED load, NEW t \in Threads, t \in load.threads,
           \/ \E s \in load.streams \cup {Null} : StreamSynchronize(t, s)
           \/ \E e \in load.events : EventSynchronize(t, e)
    PROVE  Rest'
<1>1. PICK c : /\ c.pc = "driver" /\ c.fence = Len(log) /\ c.needs = Owed(c)
               /\ Start(t, c)
  <2>1. ASSUME NEW s, StreamSynchronize(t, s)
        PROVE  \E c : /\ c.pc = "driver" /\ c.fence = Len(log) /\ c.needs = Owed(c)
                      /\ Start(t, c)
    BY <2>1 DEF StreamSynchronize, Idle, Owed
  <2>2. ASSUME NEW e \in load.events, EventSynchronize(t, e)
        PROVE  \E c : /\ c.pc = "driver" /\ c.fence = Len(log) /\ c.needs = Owed(c)
                      /\ Start(t, c)
    <3>1. e # None
      BY LoadTypes, LogTypes
    <3> QED
      BY <2>2, <3>1 DEF EventSynchronize, Idle, Owed
  <2> QED
    BY <2>1, <2>2
<1>2. UNCHANGED <<driver, server, stale, landed>>
  BY DEF StreamSynchronize, EventSynchronize
<1>3. /\ call'[t] = c /\ call[t].pc = "idle"
      /\ \A u \in Threads : u # t => call'[u] = call[u]
  BY <1>1, CallAt DEF Start
<1>4. Owed(call[t])' = Owed(c)
  BY <1>2, <1>3, DriverKept DEF Owed
<1>5. SerialOK(t)'
  BY <1>1, <1>2, <1>3, <1>4 DEF SerialOK, driver
<1> QED
  BY <1>1, <1>2, <1>3, <1>5, CallOnly

LEMMA StepDriverReturns ==
    ASSUME Types, Rest, UNCHANGED load, NEW t \in Threads, t \in load.threads,
           DriverReturns(t)
    PROVE  Rest'
<1>1. PICK c : c = [call[t] EXCEPT !.pc = "detach"]
  OBVIOUS
<1>2. /\ call'[t] = c /\ call[t].pc = "driver"
      /\ \A u \in Threads : u # t => call'[u] = call[u]
  BY <1>1, CallAt DEF DriverReturns, Goto
<1>3. /\ c.pc = "detach" /\ c.needs = call[t].needs
      /\ c.event = call[t].event /\ c.stream = call[t].stream
  BY <1>1 DEF Types, Calls
<1>4. ASSUME Serial PROVE SerialOK(t)'
  <2>1. call[t].fence = Len(log) /\ call[t].needs = Owed(call[t])
    BY <1>2, <1>4 DEF Rest, SerialInv, SerialOK
  <2>2. executed = Len(log) /\ DriverDone(call[t])
    BY SMTT(30), <2>1, LogTypes DEF DriverReturns, DriverDone
  <2>3. Owed(call[t])' = Owed(call[t]) /\ DriverDone(call[t])'
    BY <1>2, <1>3, <2>2, DriverKept DEF Owed, DriverDone, DriverReturns
  <2> QED
    BY <1>2, <1>3, <2>1, <2>2, <2>3 DEF SerialOK, DriverReturns, driver
<1> QED
  BY <1>2, <1>3, <1>4, CallOnly DEF DriverReturns

-----------------------------------------------------------------------------
(* Queries *)

\* In a program with one thread no copy is outstanding when the semaphore is zero.
LEMMA SerialReleased ==
    ASSUME Types, Rest, Serial, NEW t \in Threads, t \in load.threads,
           call[t].pc # "count", stale = 0
    PROVE  AllLanded(Issued(TRUE))
<1>1. Counting = {}
  BY Alone DEF Counting, Rest
<1>2. Cardinality(Counting) = 0
  BY <1>1, FS_EmptySet
<1>3. Cardinality(Unlanded) = 0
  BY SMTT(30), <1>2, CountsFinite DEF CountInv, Rest
<1>4. Unlanded = {}
  BY <1>3, CountsFinite, FS_EmptySet DEF Rest
<1>5. Issued(TRUE) \subseteq DOMAIN landed /\ \A i \in DOMAIN landed : landed[i] \in Nat
  BY LogBound, LogTypes DEF Issued, Rest, CopyTypes
<1>6. \A k \in Nat : k # 0 => k > 0
  BY SMT
<1> QED
  BY <1>4, <1>5, <1>6 DEF Unlanded, AllLanded

LEMMA StepEventQuery ==
    ASSUME Types, Rest, UNCHANGED load, NEW t \in Threads, t \in load.threads,
           NEW e \in load.events, EventQuery(t, e)
    PROVE  Rest'
<1>0. PICK a, n : Start(t, [Idle EXCEPT !.pc = IF QueryNeeded(e) THEN "collect" ELSE "success",
                    !.event = e, !.asked = a, !.needs = EventOwes(e), !.stamp = n])
  BY DEF EventQuery
<1>1. PICK c : /\ Start(t, c) /\ c.event = e /\ c.needs = EventOwes(e)
               /\ c.pc = "collect" \/ (c.pc = "success" /\ stale = 0)
  <2>1. PICK c : c = [Idle EXCEPT !.pc = IF QueryNeeded(e) THEN "collect" ELSE "success",
                    !.event = e, !.asked = a, !.needs = EventOwes(e), !.stamp = n]
    OBVIOUS
  <2>2. /\ c.event = e /\ c.needs = EventOwes(e)
        /\ c.pc = "collect" \/ (c.pc = "success" /\ stale = 0)
    BY <2>1 DEF Idle, QueryNeeded
  <2> QED
    BY <1>0, <2>1, <2>2
<1>2. /\ call'[t] = c /\ call[t].pc = "idle"
      /\ \A u \in Threads : u # t => call'[u] = call[u]
  BY <1>1, CallAt DEF Start
<1>3. UNCHANGED <<driver, server, stale, landed>>
  BY DEF EventQuery
<1>4. ASSUME Serial PROVE SerialOK(t)'
  <2>1. e # None
    BY LoadTypes, LogTypes
  <2>2. Owed(call[t])' = EventOwes(e)
    BY <1>1, <1>2, <1>3, <2>1, DriverKept DEF Owed
  <2>3. c.pc = "success" => AllLanded(Issued(TRUE))
    BY <1>1, <1>2, <1>4, SerialReleased
  <2>4. c.pc = "success" => AllLanded(call[t].needs)'
    BY <1>1, <1>2, <1>3, <2>3 DEF AllLanded, EventOwes
  <2> QED
    BY <1>1, <1>2, <2>2, <2>4 DEF SerialOK
<1> QED
  BY <1>1, <1>2, <1>3, <1>4, CallOnly

LEMMA StepCollectBatch ==
    ASSUME Types, Rest, UNCHANGED load, NEW t \in Threads, t \in load.threads,
           CollectBatch(t)
    PROVE  Rest'
<1>1. PICK B : call' = [call EXCEPT ![t].pc = "ask", ![t].fence = Len(log), ![t].batch = B]
  BY DEF CollectBatch
<1>2. call[t] \in Calls /\ call[t].pc = "collect"
  BY DEF Types, CollectBatch
<1>3. PICK c : c = [call[t] EXCEPT !.pc = "ask", !.fence = Len(log), !.batch = B]
  OBVIOUS
<1>4. /\ c.pc = "ask" /\ c.fence = Len(log) /\ c.needs = call[t].needs
      /\ c.event = call[t].event /\ c.stream = call[t].stream
  BY <1>2, <1>3 DEF Calls
<1>5. call'[t] = c /\ \A u \in Threads : u # t => call'[u] = call[u]
  <2>1. call' = [call EXCEPT ![t] = c]
    BY <1>1, <1>3
  <2> QED
    BY <2>1, CallAt
<1>6. UNCHANGED <<driver, server, stale, landed>>
  BY DEF CollectBatch
<1>7. ASSUME Serial PROVE SerialOK(t)'
  <2>1. call[t].needs = Owed(call[t])
    BY <1>2, <1>7 DEF SerialInv, SerialOK, Rest
  <2>2. Owed(call[t])' = Owed(call[t])
    BY <1>4, <1>5, <1>6, DriverKept DEF Owed
  <2> QED
    BY <1>4, <1>5, <1>6, <2>1, <2>2 DEF SerialOK, driver
<1> QED
  BY <1>2, <1>4, <1>5, <1>6, <1>7, CallOnly

LEMMA StepAskDriver ==
    ASSUME Types, CacheInv, Rest, UNCHANGED load, NEW t \in Threads, t \in load.threads,
           AskDriver(t)
    PROVE  Rest'
<1>1. PICK R : /\ call' = [call EXCEPT ![t].pc = "answer", ![t].ready = R]
               /\ \A e \in R : EventDone(e)
  <2>1. PICK R : R = {e \in {call[t].event} \cup {b.event : b \in call[t].batch} : EventDone(e)}
    OBVIOUS
  <2>2. call' = [call EXCEPT ![t].pc = "answer", ![t].ready = R]
    BY <2>1 DEF AskDriver
  <2>3. \A e \in R : EventDone(e)
    BY <2>1
  <2> QED
    BY <2>2, <2>3
<1>2. call[t] \in Calls /\ call[t].pc = "ask" /\ call[t].event \in Events
  BY DEF Types, AskDriver, CacheInv, ThreadOK, AskedOK, Asking
<1>3. PICK c : c = [call[t] EXCEPT !.pc = "answer", !.ready = R]
  OBVIOUS
<1>4. /\ c.pc = "answer" /\ c.ready = R /\ c.needs = call[t].needs
      /\ c.event = call[t].event /\ c.stream = call[t].stream
  BY <1>2, <1>3 DEF Calls
<1>5. call'[t] = c /\ \A u \in Threads : u # t => call'[u] = call[u]
  <2>1. call' = [call EXCEPT ![t] = c]
    BY <1>1, <1>3
  <2> QED
    BY <2>1, CallAt
<1>6. UNCHANGED <<driver, server, stale, landed>> /\ executed >= call[t].fence
  BY DEF AskDriver
<1>7. ASSUME Serial PROVE SerialOK(t)'
  <2>1. call[t].needs = Owed(call[t]) /\ call[t].fence = Len(log)
    BY <1>2, <1>7 DEF SerialInv, SerialOK, Rest
  <2>2. executed = Len(log) /\ call[t].event # None
    BY SMTT(30), <1>2, <1>6, <2>1, LogTypes
  <2>3. /\ Owed(call[t])' = Owed(call[t])
        /\ call[t].event \in R => DriverDone(call[t])'
    BY <1>1, <1>4, <1>5, <1>6, <2>2, DriverKept DEF Owed, DriverDone
  <2> QED
    BY <1>4, <1>5, <1>6, <2>1, <2>2, <2>3 DEF SerialOK, Succeeds, driver
<1> QED
  BY <1>2, <1>4, <1>5, <1>6, <1>7, CallOnly

LEMMA StepCacheCompletions ==
    ASSUME Types, Rest, UNCHANGED load, NEW t \in Threads, t \in load.threads,
           CacheCompletions(t)
    PROVE  Rest'
<1>1. call[t].pc = "cache" /\ UNCHANGED <<driver, server, stale, landed>>
  BY DEF CacheCompletions
<1>2. PICK c : /\ call' = [call EXCEPT ![t] = c]
               /\ \/ c.pc = "idle"
                  \/ /\ c.pc = "success" /\ c.needs = call[t].needs
                     /\ call[t].event \in call[t].ready
  <2>1. CASE call[t].event \in call[t].ready
    <3>1. PICK c : c = [Idle EXCEPT !.pc = "success", !.needs = call[t].needs,
                                    !.asked = call[t].asked]
      OBVIOUS
    <3>2. call' = [call EXCEPT ![t] = c] /\ c.pc = "success" /\ c.needs = call[t].needs
      BY <2>1, <3>1 DEF CacheCompletions, Succeed, Idle
    <3> QED
      BY <2>1, <3>2
  <2>2. CASE call[t].event \notin call[t].ready
    <3>1. call' = [call EXCEPT ![t] = Idle] /\ Idle.pc = "idle"
      BY <2>2 DEF CacheCompletions, Done, Idle
    <3> QED
      BY <3>1
  <2> QED
    BY <2>1, <2>2
<1>3. call'[t] = c /\ \A u \in Threads : u # t => call'[u] = call[u]
  BY <1>2, CallAt
<1>4. ASSUME Serial PROVE SerialOK(t)'
  <2>1. c.pc = "success" => AllLanded(c.needs)
    BY <1>1, <1>2, <1>4 DEF SerialInv, SerialOK, Succeeds, Rest
  <2>2. c.pc = "success" => AllLanded(call[t].needs)'
    BY <1>1, <1>3, <2>1 DEF AllLanded
  <2> QED
    BY <1>2, <1>3, <2>2 DEF SerialOK
<1> QED
  BY <1>1, <1>2, <1>3, <1>4, CallOnly

-----------------------------------------------------------------------------
(* Copies and records *)

LEMMA Publish ==
    ASSUME Types, Rest, UNCHANGED <<load, executed, finished, born, server, stale, landed>>,
           NEW t \in Threads, t \in load.threads, call[t].pc = "idle",
           call'[t].pc \in {"count", "stamp"},
           \A u \in Threads : u # t => call'[u] = call[u],
           NEW x \in Entries, log' = Append(log, x), CountInv'
    PROVE  Rest'
<1> USE DEF server
<1>1. /\ LogGrows /\ Len(log') = Len(log) + 1 /\ log'[Len(log) + 1] = x
      /\ Len(log) \in Nat /\ Len(log') \in Nat
      /\ \A i \in 1 .. Len(log') : log'[i] \in Entries
  <2>1. LogGrows /\ Len(log') = Len(log) + 1 /\ log'[Len(log) + 1] = x /\ log' \in Seq(Entries)
    BY Appended
  <2>2. Len(log) \in Nat /\ Len(log') \in Nat
    BY SMTT(30), <2>1, LogTypes
  <2> QED
    BY SMTT(30), <2>1, <2>2
<1>2. CopyTypes'
  <2>1. torn \subseteq Issued(TRUE)
    BY DEF Rest, CopyTypes
  <2>2. Issued(TRUE) \subseteq Issued(TRUE)'
    BY IssuedGrows
  <2>3. torn' \subseteq Issued(TRUE)'
    BY <2>1, <2>2
  <2> QED
    BY <2>3 DEF Rest, CopyTypes
<1>3. QueueInv'
  <2>1. ASSUME NEW i \in (Len(log) + 1) .. Len(log'), log'[i].event # None
        PROVE  i > born[log'[i].event]
    <3>1. i = Len(log) + 1 /\ log'[i].event \in Events
      BY SMTT(30), <1>1, <2>1 DEF Entries
    <3> QED
      BY SMTT(30), <1>1, <3>1, LogTypes
  <2> QED
    BY <1>1, <2>1, QueueKept DEF Rest
<1>4. DeviceInv'
  BY <1>1, DeviceKept DEF Rest
<1>5. PlaceInv'
  <2>1. \A u \in Threads : \A i \in Nat : Carries(u, i)' <=> Carries(u, i)
    BY DEF Carries
  <2>2. \A q \in AllStreams : pending'[q] \subseteq 1 .. executed
    BY LogTypes
  <2> QED
    BY <1>1, <2>1, <2>2, PlaceKept DEF Rest
<1>6. SerialInv' /\ IdleInv'
  <2>1. SerialOK(t)'
    BY DEF SerialOK
  <2>2. \A i \in torn : log'[i] = log[i]
    BY <1>1, LogTypes DEF LogGrows, Issued, CopyTypes, Rest
  <2>3. BlockingComplete => BlockingComplete'
    BY <2>2 DEF BlockingComplete
  <2> QED
    BY <2>1, <2>3, SerialKept DEF SerialInv, Rest
<1> QED
  BY <1>2, <1>3, <1>4, <1>5, <1>6 DEF Rest

LEMMA StepCopyAsync ==
    ASSUME Types, Rest, UNCHANGED load, NEW t \in Threads, t \in load.threads,
           NEW s \in load.streams \cup {Null}, CopyAsync(t, s)
    PROVE  Rest'
<1>1. PICK x \in Entries : x = [stream |-> s, event |-> None]
  BY LoadTypes DEF Entries
<1>2. x.event = None /\ log' = Append(log, x) /\ call[t].pc = "idle"
  BY <1>1 DEF CopyAsync, Start
<1>3. PICK c : c.pc = "count" /\ call' = [call EXCEPT ![t] = c]
  <2>1. [Idle EXCEPT !.pc = "count"].pc = "count"
    BY DEF Idle
  <2> QED
    BY <2>1 DEF CopyAsync, Start
<1>4. call'[t].pc = "count" /\ \A u \in Threads : u # t => call'[u] = call[u]
  BY <1>3, CallAt
<1>5. t \notin Counting /\ Counting' = Counting \cup {t}
  BY <1>2, <1>4 DEF Counting
<1>6. CountInv'
  BY <1>2, <1>5, CountCopyAsync DEF CopyAsync, Rest
<1> QED
  BY <1>2, <1>4, <1>6, Publish DEF CopyAsync

LEMMA StepEventRecord ==
    ASSUME Types, Rest, UNCHANGED load, NEW t \in Threads, t \in load.threads,
           NEW s \in load.streams \cup {Null}, NEW e \in load.events, EventRecord(t, e, s)
    PROVE  Rest'
<1>1. PICK x \in Entries : x = [stream |-> s, event |-> e]
  BY LoadTypes DEF Entries
<1>2. x.event # None /\ log' = Append(log, x) /\ call[t].pc = "idle"
  BY <1>1, LoadTypes, LogTypes DEF EventRecord, Start
<1>3. PICK c : c.pc = "stamp" /\ call' = [call EXCEPT ![t] = c]
  <2>1. [Idle EXCEPT !.pc = "stamp", !.event = e, !.index = Len(log) + 1].pc = "stamp"
    BY DEF Idle
  <2> QED
    BY <2>1 DEF EventRecord, Start
<1>4. call'[t].pc = "stamp" /\ \A u \in Threads : u # t => call'[u] = call[u]
  BY <1>3, CallAt
<1>5. Counting' = Counting
  BY <1>2, <1>4 DEF Counting
<1>6. CountInv'
  BY <1>2, <1>5, CountEventRecord DEF EventRecord, Rest
<1> QED
  BY <1>2, <1>4, <1>6, Publish DEF EventRecord

LEMMA StepCountCopy ==
    ASSUME Types, Rest, UNCHANGED load, NEW t \in Threads, t \in load.threads, CountCopy(t)
    PROVE  Rest'
<1>1. call' = [call EXCEPT ![t] = Idle] /\ Idle.pc = "idle" /\ call[t].pc = "count"
  BY DEF CountCopy, Done, Idle
<1>2. call'[t].pc = "idle" /\ \A u \in Threads : u # t => call'[u] = call[u]
  BY <1>1, CallAt
<1>3. UNCHANGED <<driver, server, landed>> /\ stale' = stale + 1 /\ UNCHANGED log
  BY DEF CountCopy, driver
<1>4. t \in Counting /\ Counting' = Counting \ {t}
  BY <1>1, <1>2 DEF Counting
<1>5. CountInv'
  BY <1>3, <1>4, CountCountCopy DEF Rest
<1>6. stale' \in 0 .. load.copies
  <2> DEFINE i == Cardinality(Issued(TRUE)')
             n == Cardinality(Counting')
  <2>1. stale' + n <= i /\ i <= load.copies
    BY <1>5 DEF CountInv
  <2>2. n \in Nat /\ stale \in Nat
    BY <1>4, CountsFinite, FS_Subset, FS_CardinalityType DEF Rest
  <2>3. i \in Nat
    <3>1. Issued(TRUE)' = Issued(TRUE)
      BY <1>3 DEF Issued, IsCopy
    <3> QED
      BY <3>1, IssuedFinite
  <2> HIDE DEF i, n
  <2> QED
    BY SMTT(30), <1>3, <2>1, <2>2, <2>3, LoadTypes
<1>7. SerialOK(t)'
  BY <1>2 DEF SerialOK
<1> QED
  BY <1>1, <1>2, <1>3, <1>5, <1>6, <1>7, LocalStep

LEMMA StepDrawStamp ==
    ASSUME Types, Rest, UNCHANGED load, NEW t \in Threads, t \in load.threads, DrawStamp(t)
    PROVE  Rest'
<1>1. PICK c : c = [call[t] EXCEPT !.pc = "invalidate", !.stamp = stamps + 1]
  OBVIOUS
<1>2. call' = [call EXCEPT ![t] = c] /\ call[t].pc = "stamp"
  BY <1>1 DEF DrawStamp
<1>3. call'[t] = c /\ \A u \in Threads : u # t => call'[u] = call[u]
  BY <1>2, CallAt
<1>4. c.pc = "invalidate"
  BY <1>1 DEF Types, Calls
<1>5. SerialOK(t)'
  BY <1>3, <1>4 DEF SerialOK
<1> QED
  BY <1>2, <1>3, <1>4, <1>5, CallOnly DEF DrawStamp

LEMMA StepInvalidate ==
    ASSUME Types, Rest, UNCHANGED load, NEW t \in Threads, t \in load.threads, Invalidate(t)
    PROVE  Rest'
<1>1. call' = [call EXCEPT ![t] = Idle] /\ Idle.pc = "idle" /\ call[t].pc = "invalidate"
  BY DEF Invalidate, Done, Idle
<1>2. call'[t] = Idle /\ \A u \in Threads : u # t => call'[u] = call[u]
  BY <1>1, CallAt
<1>3. SerialOK(t)'
  BY <1>1, <1>2 DEF SerialOK
<1> QED
  BY <1>1, <1>2, <1>3, CallOnly DEF Invalidate

-----------------------------------------------------------------------------
(* Collecting copies *)

LEMMA DetachStep ==
    ASSUME Types, Rest, UNCHANGED <<load, driver, stale, landed>>,
           NEW t \in Threads, t \in load.threads,
           call[t].pc \in {"detach", "answer"}, Detach(call[t]),
           NEW c, call'[t] = c, \A u \in Threads : u # t => call'[u] = call[u],
           c.pc \in {"land", "landquery"}, c.got = Collected(call[t]), c.needs = call[t].needs,
           Serial => /\ executed = Len(log) /\ DriverDone(call[t])
                     /\ call[t].needs = Owed(call[t])
    PROVE  Rest'
<1> USE DEF driver
<1>1. CopyTypes'
  <2>1. Collected(call[t]) \subseteq Issued(TRUE)
    <3>1. ASSUME NEW i \in Collected(call[t]) PROVE i \in Issued(TRUE)
      <4>1. PICK q \in AllStreams : i \in pending[q]
        BY DEF Collected, Collects
      <4>2. i \in DOMAIN log /\ IsCopy(i)
        BY SMTT(30), <4>1, LogTypes DEF Collected
      <4> QED
        BY <4>2 DEF Issued
    <3> QED
      BY <3>1
  <2>2. torn \subseteq Issued(TRUE) /\ torn' = torn \cup (Collected(call[t]) \ finished)
    BY DEF Rest, CopyTypes, Detach
  <2>3. Issued(TRUE)' = Issued(TRUE)
    BY DEF Issued, IsCopy
  <2>4. torn' \subseteq Issued(TRUE)'
    BY <2>1, <2>2, <2>3
  <2> QED
    BY <2>4 DEF Rest, CopyTypes
<1>2. QueueInv'
  <2>1. call[t] \in Calls
    BY DEF Types
  <2> QED
    BY <2>1, QueueDetach DEF Rest
<1>3. DeviceInv'
  BY DEF DeviceInv, Ordered, Rest
<1>4. PlaceInv'
  <2>1. \A i \in Nat : ~ Carries(t, i) /\ (Carries(t, i)' <=> i \in Collected(call[t]))
    BY DEF Carries
  <2> QED
    BY <2>1, PlaceDetach DEF Rest
<1>5. CountInv'
  <2>1. Counting' = Counting
    BY DEF Counting
  <2> QED
    BY <2>1, CountKept DEF Rest
<1>6. ASSUME Serial PROVE BlockingComplete' /\ SerialOK(t)'
  <2>1. /\ \A i \in Collected(call[t]) : i \in finished \/ log[i].stream \in NonBlocking
        /\ AllLanded(Owed(call[t]) \ Collected(call[t]))
    BY <1>6, SerialCollects DEF Rest
  <2>2. BlockingComplete'
    BY <1>6, <2>1 DEF SerialInv, BlockingComplete, Detach, Rest
  <2>3. AllLanded(call[t].needs \ call[t].got)'
    BY <1>6, <2>1 DEF AllLanded
  <2> QED
    BY <2>2, <2>3 DEF SerialOK
<1>7. SerialInv' /\ IdleInv'
  BY <1>6, SerialKept DEF Rest
<1> QED
  BY <1>1, <1>2, <1>3, <1>4, <1>5, <1>7 DEF Rest

LEMMA StepRespondSynchronized ==
    ASSUME Types, Rest, UNCHANGED load, NEW t \in Threads, t \in load.threads,
           RespondSynchronized(t)
    PROVE  Rest'
<1>1. call[t] \in Calls /\ call[t].pc = "detach"
  BY DEF Types, RespondSynchronized
<1>2. PICK c : c = [call[t] EXCEPT !.pc = "land", !.got = Collected(call[t])]
  OBVIOUS
<1>3. c.pc = "land" /\ c.got = Collected(call[t]) /\ c.needs = call[t].needs
  BY <1>1, <1>2 DEF Calls
<1>4. call' = [call EXCEPT ![t] = c]
  BY <1>2 DEF RespondSynchronized
<1>5. call'[t] = c /\ \A u \in Threads : u # t => call'[u] = call[u]
  BY <1>4, CallAt
<1>6. Serial => /\ executed = Len(log) /\ DriverDone(call[t])
                /\ call[t].needs = Owed(call[t])
  BY <1>1 DEF SerialInv, SerialOK, Rest
<1> QED
  BY <1>1, <1>3, <1>5, <1>6, DetachStep DEF RespondSynchronized

LEMMA StepRespondQuery ==
    ASSUME Types, Rest, UNCHANGED load, NEW t \in Threads, t \in load.threads,
           RespondQuery(t)
    PROVE  Rest'
<1>1. call[t] \in Calls /\ call[t].pc = "answer"
  BY DEF Types, RespondQuery
<1>2. PICK G : G = IF call[t].event \in call[t].ready THEN Collected(call[t]) ELSE {}
  OBVIOUS
<1>3. PICK R : R = {f \in call[t].ready : f = call[t].event \/ ~OwesCopies(f)}
  OBVIOUS
<1>4. PICK c : c = [call[t] EXCEPT !.pc = "landquery", !.got = G, !.ready = R]
  OBVIOUS
<1>5. /\ c.pc = "landquery" /\ c.got = G /\ c.ready = R /\ c.needs = call[t].needs
      /\ c.event = call[t].event
  BY <1>1, <1>4 DEF Calls
<1>6. call' = [call EXCEPT ![t] = c]
  BY <1>2, <1>3, <1>4 DEF RespondQuery
<1>7. call'[t] = c /\ \A u \in Threads : u # t => call'[u] = call[u]
  BY <1>6, CallAt
<1>8. CASE call[t].event \in call[t].ready
  <2>1. Serial => /\ executed = Len(log) /\ DriverDone(call[t])
                  /\ call[t].needs = Owed(call[t])
    BY <1>1, <1>8 DEF SerialInv, SerialOK, Succeeds, Rest
  <2>2. Detach(call[t]) /\ c.got = Collected(call[t])
    BY <1>2, <1>5, <1>8 DEF RespondQuery
  <2> QED
    BY <1>1, <1>5, <1>7, <2>1, <2>2, DetachStep DEF RespondQuery
<1>9. CASE call[t].event \notin call[t].ready
  <2>1. UNCHANGED server /\ c.got = {} /\ c.event \notin c.ready
    BY <1>2, <1>3, <1>5, <1>9 DEF RespondQuery
  <2>2. SerialOK(t)'
    BY <1>5, <1>7, <2>1 DEF SerialOK, Succeeds
  <2> QED
    BY <1>1, <1>5, <1>7, <2>1, <2>2, CallOnly DEF RespondQuery
<1> QED
  BY <1>8, <1>9

LEMMA StepLand ==
    ASSUME Types, Rest, UNCHANGED load, NEW t \in Threads, t \in load.threads, Land(t)
    PROVE  Rest'
<1>1. call[t] \in Calls /\ call[t].pc \in {"land", "landquery"}
  BY DEF Types, Land
<1>2. PICK c : /\ call' = [call EXCEPT ![t] = c] /\ c.needs = call[t].needs
               /\ \/ call[t].pc = "land" /\ c.pc = "success"
                  \/ /\ call[t].pc = "landquery" /\ c.pc = "cache"
                     /\ c.ready = call[t].ready /\ c.event = call[t].event
  <2>1. CASE call[t].pc = "land"
    <3>1. PICK c : c = [Idle EXCEPT !.pc = "success", !.needs = call[t].needs,
                                    !.asked = call[t].asked]
      OBVIOUS
    <3>2. c.pc = "success" /\ c.needs = call[t].needs
      BY <3>1 DEF Idle
    <3>3. call' = [call EXCEPT ![t] = c]
      BY <2>1, <3>1 DEF Land, Succeed
    <3> QED
      BY <2>1, <3>2, <3>3
  <2>2. CASE call[t].pc = "landquery"
    <3>1. PICK c : c = [call[t] EXCEPT !.pc = "cache"]
      OBVIOUS
    <3>2. /\ c.pc = "cache" /\ c.needs = call[t].needs
          /\ c.ready = call[t].ready /\ c.event = call[t].event
      BY <1>1, <3>1 DEF Calls
    <3>3. call' = [call EXCEPT ![t] = c]
      BY <2>2, <3>1 DEF Land, Goto
    <3> QED
      BY <2>2, <3>2, <3>3
  <2> QED
    BY <1>1, <2>1, <2>2
<1>3. call'[t] = c /\ \A u \in Threads : u # t => call'[u] = call[u]
  BY <1>2, CallAt
<1>4. /\ UNCHANGED <<log, executed, finished, born, pending, torn>>
      /\ HandedBack(Cardinality(call[t].got))
      /\ landed' = [i \in DOMAIN landed |->
             IF i \in call[t].got THEN landed[i] + 1 ELSE landed[i]]
  BY DEF Land, driver, server
<1>5. /\ PlaceInv'
      /\ \A i \in DOMAIN landed : landed'[i] = IF i \in call[t].got THEN 1 ELSE landed[i]
      /\ call[t].got \subseteq Unlanded
  <2>1. \A i \in Nat : ~ Carries(t, i)'
    BY <1>2, <1>3 DEF Carries
  <2> QED
    BY <1>3, <2>1, PlaceLand DEF Rest
<1>6. Issued(TRUE)' = Issued(TRUE) /\ Issued(TRUE) \subseteq DOMAIN landed
  BY <1>4, LogBound, LogTypes DEF Issued, IsCopy, Rest
<1>7. CountInv'
  <2>1. ASSUME NEW i \in DOMAIN landed
        PROVE  landed'[i] = 0 <=> landed[i] = 0 /\ i \notin call[t].got
    BY SMT, <1>5
  <2>2. Unlanded' = Unlanded \ call[t].got
    BY <1>6, <2>1 DEF Unlanded
  <2>3. Counting' = Counting /\ (Serial => Counting = {})
    BY <1>1, <1>2, <1>3, Alone DEF Counting, Rest
  <2> QED
    BY <1>4, <1>5, <2>2, <2>3, CountLand DEF Rest
<1>8. CopyTypes'
  <2>1. stale' \in 0 .. load.copies
    <3>1. PICK n \in Nat : n = Cardinality(call[t].got)
      BY <1>5, CountsFinite, FS_Subset, FS_CardinalityType DEF Rest
    <3>2. stale \in 0 .. load.copies /\ load.copies \in Nat
      BY LoadTypes DEF Rest, CopyTypes
    <3>3. stale' = IF n >= stale THEN 0 ELSE stale - n
      BY <1>4, <3>1 DEF HandedBack
    <3> QED
      BY SMTT(30), <3>2, <3>3
  <2>2. landed' \in [1 .. (load.copies + load.records) -> Nat]
    BY SMTT(30), <1>4 DEF Rest, CopyTypes
  <2> QED
    BY <1>4, <1>6, <2>1, <2>2 DEF Rest, CopyTypes
<1>9. ASSUME Serial PROVE SerialOK(t)'
  <2>1. ASSUME c.pc = "success" \/ call[t].event \in call[t].ready PROVE AllLanded(call[t].needs)'
    <3>1. AllLanded(call[t].needs \ call[t].got)
      BY <1>1, <1>2, <1>9, <2>1 DEF SerialInv, SerialOK, Succeeds, Rest
    <3>2. call[t].got \subseteq DOMAIN landed /\ DOMAIN landed' = DOMAIN landed
      BY <1>4, <1>5, <1>6 DEF Unlanded
    <3> QED
      BY SMTT(30), <1>2, <1>3, <1>5, <3>1, <3>2 DEF AllLanded
  <2> QED
    BY <1>2, <1>3, <2>1 DEF SerialOK, Succeeds
<1>10. SerialInv' /\ IdleInv'
  BY <1>3, <1>4, <1>9, SerialKept DEF SerialInv, BlockingComplete, Rest
<1>11. QueueInv'
  BY <1>4, QueueStill DEF Rest
<1>12. DeviceInv'
  BY <1>4 DEF DeviceInv, Ordered, Rest
<1> QED
  BY <1>5, <1>7, <1>8, <1>10, <1>11, <1>12 DEF Rest

-----------------------------------------------------------------------------
(* The device and the events *)

LEMMA OwesKept ==
    ASSUME UNCHANGED log
    PROVE  /\ \A s : StreamOwes(s)' = StreamOwes(s)
           /\ \A e : born'[e] = born[e] => EventOwes(e)' = EventOwes(e)
<1>1. Issued(TRUE)' = Issued(TRUE)
  BY DEF Issued, IsCopy
<1>2. \A e : born'[e] = born[e] => \A n : LastRecord(e, n)' = LastRecord(e, n)
  BY DEF LastRecord
<1>3. \A s : StreamOwes(s)' = StreamOwes(s)
  BY <1>1 DEF StreamOwes
<1>4. \A e : born'[e] = born[e] => EventOwes(e)' = EventOwes(e)
  BY <1>1, <1>2 DEF EventOwes
<1> QED
  BY <1>3, <1>4

LEMMA ServerStep ==
    ASSUME Types, Rest, UNCHANGED <<load, log, born, torn, call, stale, landed>>,
           QueueInv', DeviceInv', PlaceInv',
           \A t \in Threads : executed = Len(log) /\ DriverDone(call[t]) =>
              executed' = Len(log) /\ DriverDone(call[t])'
    PROVE  Rest'
<1>1. CountInv'
  <2>1. Counting' = Counting
    BY DEF Counting
  <2> QED
    BY <2>1, CountKept DEF Rest
<1>2. IdleInv'
  BY DEF IdleInv, Rest
<1>3. ASSUME Serial, NEW t \in Threads PROVE SerialOK(t)'
  <2>1. SerialOK(t)
    BY <1>3 DEF SerialInv, Rest
  <2>2. Owed(call[t])' = Owed(call[t])
    BY OwesKept DEF Owed
  <2>3. \A S : AllLanded(S)' <=> AllLanded(S)
    BY DEF AllLanded
  <2> QED
    BY <2>1, <2>2, <2>3 DEF SerialOK, Succeeds
<1>4. SerialInv'
  BY <1>3 DEF SerialInv, BlockingComplete, Serial, Rest
<1>5. CopyTypes'
  BY DEF Rest, CopyTypes, Issued, IsCopy
<1> QED
  BY <1>1, <1>2, <1>4, <1>5 DEF Rest

LEMMA StepComplete ==
    ASSUME Types, Rest, UNCHANGED load, NEW i, Complete(i)
    PROVE  Rest'
<1>1. /\ UNCHANGED <<log, executed, born, pending, torn, call, stale, landed>>
      /\ finished' = finished \cup {i} /\ i \in 1 .. executed
  BY DEF Complete, server
<1>2. QueueInv'
  BY <1>1, QueueStill DEF Rest
<1>3. DeviceInv'
  BY DeviceComplete DEF Rest
<1>4. PlaceInv'
  BY <1>1 DEF PlaceInv, Carries, IsCopy, Rest
<1>5. ASSUME NEW t \in Threads, DriverDone(call[t]) PROVE DriverDone(call[t])'
  <2>1. \A s : StreamDone(s) => StreamDone(s)'
    BY <1>1 DEF StreamDone
  <2>2. \A e, n : LastRecord(e, n)' = LastRecord(e, n)
    BY <1>1 DEF LastRecord
  <2>3. \A e : EventDone(e) => EventDone(e)'
    BY <1>1, <2>2 DEF EventDone
  <2> QED
    BY <1>1, <1>5, <2>1, <2>3 DEF DriverDone
<1> QED
  BY <1>1, <1>2, <1>3, <1>4, <1>5, ServerStep

LEMMA StepExecute ==
    ASSUME Types, Rest, UNCHANGED load, Execute
    PROVE  Rest'
<1>1. /\ UNCHANGED <<log, finished, born, torn, call, stale, landed>>
      /\ executed < Len(log)
  BY DEF Execute
<1>2. QueueInv' /\ PlaceInv'
  BY QueueExecute, PlaceExecute DEF Rest
<1>3. DeviceInv'
  BY <1>1 DEF DeviceInv, Ordered, Rest
<1>4. executed # Len(log)
  BY SMTT(30), <1>1, LogTypes
<1> QED
  BY <1>1, <1>2, <1>3, <1>4, ServerStep

LEMMA StepStutter ==
    ASSUME Types, Rest, UNCHANGED vars
    PROVE  Rest'
<1> USE DEF vars, driver, server
<1>1. QueueInv'
  BY QueueStill DEF Rest
<1>2. DeviceInv'
  BY DEF DeviceInv, Ordered, Rest
<1>3. PlaceInv'
  BY DEF PlaceInv, Carries, IsCopy, Rest
<1>4. \A t \in Threads : DriverDone(call[t]) => DriverDone(call[t])'
  BY DriverKept DEF DriverDone
<1> QED
  BY <1>1, <1>2, <1>3, <1>4, ServerStep

LEMMA StepRecreate ==
    ASSUME Types, Rest, UNCHANGED load, NEW e \in Events, Recreate(e)
    PROVE  Rest'
<1>1. /\ UNCHANGED <<log, executed, finished, torn, call, stale, landed>>
      /\ born' = [born EXCEPT ![e] = Len(log)]
      /\ \A q \in AllStreams : pending'[q] = {i \in pending[q] : log[i].event # e}
  BY DEF Recreate, WithoutMarkers
<1>2. LogGrows /\ e # None
  BY SMTT(30), <1>1, LogTypes DEF LogGrows
<1>3. QueueInv'
  BY QueueRecreate DEF Rest
<1>4. DeviceInv'
  BY <1>1 DEF DeviceInv, Ordered, Rest
<1>5. PlaceInv'
  <2>1. \A q \in AllStreams : pending'[q] \subseteq 1 .. executed
    BY <1>1, LogTypes
  <2>2. \A q \in AllStreams : \A i \in 1 .. executed :
              IsCopy(i) => (i \in pending'[q] <=> i \in pending[q])
    BY <1>1, <1>2 DEF IsCopy
  <2>3. \A u \in Threads : \A i \in Nat : Carries(u, i)' <=> Carries(u, i)
    BY <1>1 DEF Carries
  <2> QED
    BY <1>1, <1>2, <2>1, <2>2, <2>3, PlaceKept DEF Rest
<1>6. CountInv'
  <2>1. Counting' = Counting
    BY <1>1 DEF Counting
  <2> QED
    BY <1>1, <2>1, CountKept DEF Rest
<1>7. IdleInv'
  BY <1>1 DEF IdleInv, Rest
<1>8. ASSUME Serial, NEW t \in Threads PROVE SerialOK(t)'
  <2>1. SerialOK(t) /\ call[t] \in Calls
    BY <1>8 DEF SerialInv, Types, Rest
  <2>2. call[t].event # e /\ call[t].event \in Events \cup {None}
    BY <2>1 DEF Recreate, InUse, Calls
  <2>3. call[t].event \in Events => born'[call[t].event] = born[call[t].event]
    BY <1>1, <2>2 DEF Types
  <2>4. Owed(call[t])' = Owed(call[t])
    BY <1>1, <2>2, <2>3, OwesKept DEF Owed
  <2>5. DriverDone(call[t])' <=> DriverDone(call[t])
    <3>1. CASE call[t].event = None
      BY <1>1, <3>1 DEF DriverDone, StreamDone
    <3>2. CASE call[t].event # None
      <4>1. PICK f : f = call[t].event /\ born'[f] = born[f] /\ f # None
        BY <2>2, <2>3, <3>2
      <4>2. \A n : LastRecord(f, n)' = LastRecord(f, n)
        BY <1>1, <4>1 DEF LastRecord
      <4>3. EventDone(f)' <=> EventDone(f)
        BY <1>1, <4>2 DEF EventDone
      <4>4. call'[t].event = f
        BY <1>1, <4>1
      <4> QED
        BY <4>1, <4>3, <4>4 DEF DriverDone
    <3> QED
      BY <3>1, <3>2
  <2>6. \A S : AllLanded(S)' <=> AllLanded(S)
    BY <1>1 DEF AllLanded
  <2> QED
    BY <1>1, <2>1, <2>4, <2>5, <2>6 DEF SerialOK, Succeeds
<1>9. SerialInv'
  BY <1>1, <1>8 DEF SerialInv, BlockingComplete, Serial, Rest
<1>10. CopyTypes'
  BY <1>1 DEF Rest, CopyTypes, Issued, IsCopy
<1> QED
  BY <1>3, <1>4, <1>5, <1>6, <1>7, <1>9, <1>10 DEF Rest

-----------------------------------------------------------------------------
(* The theorems *)

LEMMA InitRest ==
    ASSUME Init
    PROVE  Rest
<1>1. /\ log = <<>> /\ Len(log) = 0 /\ DOMAIN log = {} /\ executed = 0 /\ finished = {}
      /\ \A q \in AllStreams : pending[q] = {}
      /\ \A t \in Threads : call[t] = Idle
      /\ stale = 0 /\ torn = {} /\ \A i \in DOMAIN landed : landed[i] = 0
  BY SMT DEF Init
<1>2. Idle.pc = "idle"
  BY DEF Idle
<1>3. load.copies \in Nat /\ load.records \in Nat
  BY CopiesAssumption DEF Init
<1>4. CopyTypes
  BY SMTT(30), <1>1, <1>3 DEF CopyTypes, Init
<1>5. QueueInv /\ DeviceInv
  BY SMT, <1>1 DEF QueueInv, DeviceInv
<1>6. PlaceInv
  BY SMTT(30), <1>1, <1>2 DEF PlaceInv, Carries
<1>7. CountInv
  <2>1. Issued(TRUE) = {} /\ Issued(FALSE) = {}
    BY <1>1 DEF Issued
  <2>2. Counting = {} /\ Unlanded = {}
    BY <1>1, <1>2, <2>1 DEF Counting, Unlanded
  <2> DEFINE a == Cardinality(Issued(TRUE))
             b == Cardinality(Issued(FALSE))
             n == Cardinality(Counting)
             m == Cardinality(Unlanded)
  <2>3. a = 0 /\ b = 0 /\ n = 0 /\ m = 0
    BY <2>1, <2>2, FS_EmptySet
  <2> HIDE DEF a, b, n, m
  <2>4. a <= load.copies /\ b <= load.records /\ stale + n >= m /\ stale + n <= a /\ stale + n = m
    BY SMTT(30), <1>1, <1>3, <2>3
  <2> QED
    BY <2>4 DEF CountInv, a, b, n, m
<1>8. SerialInv /\ IdleInv
  BY <1>1, <1>2 DEF SerialInv, BlockingComplete, SerialOK, IdleInv
<1> QED
  BY <1>4, <1>5, <1>6, <1>7, <1>8 DEF Rest

LEMMA NextRest ==
    ASSUME Types, CacheInv, Rest, [Next]_vars
    PROVE  Rest'
<1>1. CASE UNCHANGED vars
  BY <1>1, StepStutter
<1>2. CASE Next
  <2>1. UNCHANGED load /\ load.threads \subseteq Threads
    BY <1>2, LoadTypes DEF Next
  <2>2. ASSUME NEW t \in Threads, t \in load.threads, Thread(t) PROVE Rest'
    <3>1. ASSUME NEW s \in load.streams \cup {Null}, CopyAsync(t, s) PROVE Rest'
      BY <2>1, <2>2, <3>1, StepCopyAsync
    <3>2. ASSUME NEW s \in load.streams \cup {Null}, NEW e \in load.events, EventRecord(t, e, s)
          PROVE  Rest'
      BY <2>1, <2>2, <3>2, StepEventRecord
    <3>3. ASSUME \/ \E s \in load.streams \cup {Null} : StreamSynchronize(t, s)
                 \/ \E e \in load.events : EventSynchronize(t, e)
          PROVE  Rest'
      BY <2>1, <2>2, <3>3, StepSynchronize
    <3>4. ASSUME NEW e \in load.events, EventQuery(t, e) PROVE Rest'
      BY <2>1, <2>2, <3>4, StepEventQuery
    <3>5. CountCopy(t) \/ DrawStamp(t) \/ Invalidate(t) => Rest'
      BY <2>1, <2>2, StepCountCopy, StepDrawStamp, StepInvalidate
    <3>6. CollectBatch(t) \/ Land(t) \/ CacheCompletions(t) \/ Return(t) => Rest'
      BY <2>1, <2>2, StepCollectBatch, StepLand, StepCacheCompletions, StepReturn
    <3> QED
      BY <2>2, <3>1, <3>2, <3>3, <3>4, <3>5, <3>6 DEF Thread
  <2>3. ASSUME NEW t \in Threads, t \in load.threads, Handler(t) PROVE Rest'
    <3>1. DriverReturns(t) \/ RespondSynchronized(t) => Rest'
      BY <2>1, <2>3, StepDriverReturns, StepRespondSynchronized
    <3>2. AskDriver(t) \/ RespondQuery(t) => Rest'
      BY <2>1, <2>3, StepAskDriver, StepRespondQuery
    <3> QED
      BY <2>3, <3>1, <3>2 DEF Handler
  <2>4. ASSUME NEW e \in Events, Recreate(e) PROVE Rest'
    BY <2>1, <2>4, StepRecreate
  <2>5. ASSUME NEW i \in DOMAIN log, Complete(i) PROVE Rest'
    BY <2>1, <2>5, StepComplete
  <2>6. Execute => Rest'
    BY <2>1, StepExecute
  <2> QED
    BY <1>2, <2>1, <2>2, <2>3, <2>4, <2>5, <2>6 DEF Next
<1> QED
  BY <1>1, <1>2

\* The inductive invariant holds in every reachable state, whatever the threads,
\* streams, events, slots and workloads.
THEOREM CopiesInvariant == Spec => []IInv
<1>1. Init => IInv
  BY InitCache, InitRest, InitOwed DEF IInv
<1>2. IInv /\ [Next]_vars => IInv'
  BY NextCache, NextRest, NextOwed DEF IInv
<1> QED
  BY <1>1, <1>2, PTL DEF Spec

\* Every variable keeps its type: queues hold executed tickets only, no event has
\* two slots of the table, and the unsigned stale_semaphore never wraps.
THEOREM SemaphoreNeverWraps == Spec => []TypeOK
<1>1. IInv => TypeOK
  BY DEF IInv, Rest, Types, CopyTypes, TypeOK
<1> QED
  BY <1>1, CopiesInvariant, PTL

LEMMA PlacesCounted == IInv => InOnePlace
<1> SUFFICES ASSUME IInv, NEW i \in Issued(TRUE) \cap 1..executed
             PROVE  Cardinality({q \in AllStreams : i \in pending[q]})
                    + Cardinality({t \in Threads : i \in call[t].got /\
                                                   call[t].pc \in {"land", "landquery"}})
                    + landed[i] = 1
  BY DEF InOnePlace
<1> DEFINE Q == {q \in AllStreams : i \in pending[q]}
           T == {t \in Threads : i \in call[t].got /\ call[t].pc \in {"land", "landquery"}}
<1>1. Types /\ CopyTypes /\ QueueInv /\ PlaceInv /\ CountInv
  BY DEF IInv, Rest
<1>2. i \in Nat /\ IsCopy(i) /\ log[i].stream \in AllStreams /\ i \in DOMAIN landed
  BY SMTT(30), <1>1, LogTypes, LogBound DEF Issued
<1>3. Q = {} \/ Q = {log[i].stream}
  BY SMTT(30), <1>1, <1>2 DEF QueueInv
<1>4. T = {t \in Threads : Carries(t, i)}
  BY DEF Carries
<1>5. ASSUME NEW t \in Threads, Carries(t, i)
      PROVE  T = {t} /\ landed[i] = 0 /\ i \notin pending[log[i].stream]
  <2>1. \A u \in Threads : Carries(u, i) => u = t
    BY <1>1, <1>2, <1>5 DEF PlaceInv
  <2>2. landed[i] = 0 /\ i \notin pending[log[i].stream]
    BY <1>1, <1>2, <1>5 DEF PlaceInv
  <2> HIDE DEF T
  <2> QED
    BY <1>4, <1>5, <2>1, <2>2
<1>6. i \in pending[log[i].stream] => landed[i] = 0
  BY <1>1, <1>2 DEF PlaceInv
<1>7. landed[i] \in {0, 1}
  BY <1>1, <1>2 DEF PlaceInv
<1>8. \/ i \in pending[log[i].stream]
      \/ landed[i] = 1
      \/ \E t \in Threads : Carries(t, i)
  BY <1>1, <1>2 DEF PlaceInv
<1>9. Cardinality({}) = 0 /\ \A x : Cardinality({x}) = 1
  BY FS_EmptySet, FS_Singleton
<1>10. Q # {} <=> i \in pending[log[i].stream]
  BY <1>2, <1>3
<1>11. T # {} <=> \E t \in Threads : Carries(t, i)
  BY <1>4
<1> HIDE DEF Q, T
<1>12. CASE T # {}
  <2>1. Cardinality(T) = 1 /\ landed[i] = 0 /\ Q = {}
    BY <1>5, <1>9, <1>10, <1>11, <1>12
  <2>2. Cardinality(Q) = 0
    BY <1>9, <2>1
  <2> QED
    BY SMTT(30), <2>1, <2>2 DEF Q, T
<1>13. CASE T = {} /\ Q # {}
  <2>1. Cardinality(T) = 0 /\ Cardinality(Q) = 1 /\ landed[i] = 0
    BY <1>3, <1>6, <1>9, <1>10, <1>13
  <2> QED
    BY SMTT(30), <2>1 DEF Q, T
<1>14. CASE T = {} /\ Q = {}
  <2>1. Cardinality(T) = 0 /\ Cardinality(Q) = 0 /\ landed[i] = 1
    BY <1>8, <1>9, <1>10, <1>11, <1>14
  <2> QED
    BY SMT, <2>1 DEF Q, T
<1> QED
  BY <1>12, <1>13, <1>14

\* A copy that the server has taken is in exactly one place: queued, in the
\* response of one call, or landed once.
THEOREM CopyInOnePlace == Spec => []InOnePlace
<1> QED
  BY PlacesCounted, CopiesInvariant, PTL

\* stale_semaphore covers the copies that have not been handed back.
THEOREM SemaphoreCoversOwed == Spec => []StaleCoversOwed
<1>1. IInv => StaleCoversOwed
  BY DEF IInv, Rest, CountInv, StaleCoversOwed, Counting, Unlanded
<1> QED
  BY <1>1, CopiesInvariant, PTL

\* When cuStreamSynchronize has its response, no copy issued before it on a stream
\* it waits for is queued, whatever other threads collect.  In a program with one
\* thread a copy that a response carries before the device has completed it is one
\* of a non-blocking stream, and the bytes a call owes its caller have been written
\* when it returns success.
THEOREM CopiesLand == Spec => []LandsAtSynchronize
<1>1. ASSUME IInv PROVE LandsAtSynchronize
  <2>1. ASSUME NEW t \in Threads, call[t].pc = "land", call[t].event = None,
               NEW i \in call[t].needs
        PROVE  i \notin pending[log[i].stream]
    BY <1>1, <2>1 DEF IInv, OwedInv, OwedOK
  <2>2. Serial => /\ BlockingComplete
                  /\ \A t \in Threads : call[t].pc = "success" =>
                        \A i \in call[t].needs : landed[i] > 0
    BY <1>1 DEF IInv, Rest, SerialInv, SerialOK, AllLanded
  <2> QED
    BY <2>1, <2>2 DEF LandsAtSynchronize
<1> QED
  BY <1>1, CopiesInvariant, PTL

\* In a program with one thread the semaphore is zero again once every copy has
\* been handed back.
THEOREM SerialSemaphoreReleased == Spec => []StaleReleased
<1>1. IInv => StaleReleased
  <2> SUFFICES ASSUME IInv, Serial, \A t \in Threads : call[t].pc = "idle",
                      \A i \in Issued(TRUE) : landed[i] > 0
               PROVE  stale = 0
    BY DEF StaleReleased
  <2>1. Types /\ CopyTypes /\ CountInv
    BY DEF IInv, Rest
  <2>2. Counting = {} /\ Unlanded = {}
    <3>1. ~ (0 > 0)
      BY SMT
    <3>2. Unlanded = {}
      BY <3>1 DEF Unlanded
    <3> QED
      BY <3>2 DEF Counting
  <2>3. Cardinality(Counting) = 0 /\ Cardinality(Unlanded) = 0
    BY <2>2, FS_EmptySet
  <2> QED
    BY SMTT(30), <2>1, <2>3, CountsFinite DEF CountInv
<1> QED
  BY <1>1, CopiesInvariant, PTL

=============================================================================
