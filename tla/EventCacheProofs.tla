------------------------- MODULE EventCacheProofs -------------------------
(***************************************************************************)
(* The cache of completed events tells the truth, for any number of        *)
(* threads, streams, events and slots and any workload: a query that       *)
(* reports success is right about the records that had returned before it. *)
(* And, with any number of threads, what a stream synchronize owes its     *)
(* caller is no longer queued when it has its response.                    *)
(***************************************************************************)
EXTENDS DeferredCopies, WellFoundedInduction, TLAPS

\* Steps are tried with Zenon first, then with SMT.
USE ZenonT(30), SMTT(30)

\* TypeOK without stale_semaphore and the client's memory, whose bounds rest on
\* where the copies are (DeferredCopiesProofs).
Types ==
    /\ load \in Workloads
    /\ log \in Seq([stream : AllStreams, event : Events \cup {None}])
    /\ executed \in 0..Len(log)
    /\ finished \subseteq 1..executed
    /\ born \in [Events -> 0..Len(log)]
    /\ pending \in [AllStreams -> SUBSET (1..executed)]
    /\ call \in [Threads -> Calls]
    /\ stamps \in Nat
    /\ slots \in [1..Slots -> [event : Events \cup {None}, record : Nat,
                              complete : BOOLEAN]]
    /\ \A i, j \in 1..Slots : slots[i].event = slots[j].event =>
                                 i = j \/ slots[i].event = None

Recording == {"stamp", "invalidate"}
Answered == {"answer", "landquery", "cache"}
Asking == {"collect", "ask"} \cup Answered

Returned(i) == \A t \in Threads : call[t].pc \in Recording => call[t].index # i
RecordsOf(e) == {i \in (born[e] + 1) .. Len(log) : log[i].event = e}

\* Of every record of the event that has returned, it or a later one is complete.
Truth(e) ==
    \A i \in RecordsOf(e) : Returned(i) =>
        \E r \in finished : r >= i /\ log[r].event = e
ReturnedBy(e, n) == \A i \in RecordsOf(e) : Returned(i) => i <= n

\* The records that a query saw in the table, its own first.
Seen(c) == c.batch \cup {[event |-> c.event, record |-> c.stamp]}
Watches(c, slot) ==
    slot.record # 0 /\ [event |-> slot.event, record |-> slot.record] \in Seen(c)
AskedDone(c) ==
    c.asked # 0 => \E r \in finished : r >= c.asked /\ log[r].event = log[c.asked].event

DistinctStamps ==
    \A u, w \in Threads :
        u # w /\ call[u].pc = "invalidate" /\ call[w].pc = "invalidate" =>
            call[u].stamp # call[w].stamp

\* A completed slot tells the truth.  A stamp that was drawn and is not yet in the
\* table is nowhere else.
TableInv ==
    /\ \A i \in 1 .. Slots :
          /\ slots[i].record <= stamps
          /\ slots[i].complete => slots[i].event \in Events /\ Truth(slots[i].event)
    /\ \A t \in Threads : call[t].pc = "invalidate" =>
          /\ call[t].stamp \in 1 .. stamps
          /\ \A i \in 1 .. Slots : slots[i].record # call[t].stamp
    /\ DistinctStamps

\* A record that has not returned yet is in the log.
RecordOK(t) == call[t].pc \in Recording =>
    /\ call[t].event \in Events /\ call[t].index \in 1 .. Len(log)
    /\ log[call[t].index].event = call[t].event

\* What a query saw is no stamp still to be written.
SeenOK(t) == call[t].pc \in Asking => \A p \in Seen(call[t]) :
    /\ p.record <= stamps
    /\ \A u \in Threads : call[u].pc = "invalidate" => p.record # call[u].stamp

\* As long as a slot holds the record a query saw, the records of its event that
\* have returned were published before the request, and the driver's answer
\* is about them.
WatchOK(t) == \A i \in 1 .. Slots : Watches(call[t], slots[i]) =>
    /\ call[t].pc = "ask" => ReturnedBy(slots[i].event, call[t].fence)
    /\ call[t].pc \in Answered /\ slots[i].event \in call[t].ready =>
          Truth(slots[i].event)

\* The record a query is about.
AskedOK(t) ==
    /\ call[t].pc \in {"driver", "detach", "land"} => call[t].asked = 0
    /\ call[t].pc \in Asking => call[t].event \in Events /\
          (call[t].asked # 0 => call[t].asked \in RecordsOf(call[t].event))
    /\ call[t].pc = "ask" => call[t].asked <= call[t].fence
    /\ call[t].pc \in Answered /\ call[t].event \in call[t].ready => AskedDone(call[t])
    /\ call[t].pc = "success" => AskedDone(call[t]) /\ call[t].asked <= Len(log)

ThreadOK(t) == RecordOK(t) /\ SeenOK(t) /\ WatchOK(t) /\ AskedOK(t)
CacheInv == TableInv /\ \A t \in Threads : ThreadOK(t)

-----------------------------------------------------------------------------
(* Operators *)

\* A bounded set of numbers has a largest element.
LEMMA MaxOf ==
    ASSUME NEW S \in SUBSET Nat, S # {}, NEW n \in Nat, \A x \in S : x <= n
    PROVE  Max(S) \in S /\ \A x \in S : x <= Max(S)
<1> DEFINE R == OpToRel(<, Nat)
           T == {b \in Nat : \A x \in S : x <= b}
<1>1. IsWellFoundedOn(R, Nat)
  BY NatLessThanWellFounded
<1>2. PICK b \in T : \A y \in T : ~ (<<y, b>> \in R)
  <2> HIDE DEF R
  <2>1. T \subseteq Nat /\ T # {}
    OBVIOUS
  <2> HIDE DEF T
  <2> QED
    BY <1>1, <2>1, WFMin
<1>3. \A y \in T : ~ (y < b)
  BY <1>2 DEF OpToRel
<1>4. b \in S
  <2>1. CASE b = 0
    <3>1. PICK x \in S : TRUE
      OBVIOUS
    <3>2. x \in Nat /\ x <= 0
      BY <2>1, <3>1
    <3> QED
      BY SMT, <2>1, <3>1, <3>2
  <2>2. CASE b # 0
    <3>1. b - 1 \in Nat /\ b - 1 < b
      BY SMT, <2>2
    <3>2. b - 1 \notin T
      BY <1>3, <3>1
    <3> QED
      BY SMT, <3>1, <3>2
  <2> QED
    BY <2>1, <2>2
<1>5. \E x \in S : \A y \in S : x >= y
  BY <1>4
<1>6. Max(S) \in S /\ \A y \in S : Max(S) >= y
  BY <1>5 DEF Max
<1> QED
  BY <1>6

\* A set of numbers that is not empty has a least element.
LEMMA MinOf ==
    ASSUME NEW S \in SUBSET Nat, S # {}
    PROVE  Min(S) \in S /\ \A x \in S : Min(S) <= x
<1> DEFINE R == OpToRel(<, Nat)
<1>1. IsWellFoundedOn(R, Nat)
  BY NatLessThanWellFounded
<1>2. PICK b \in S : \A y \in S : ~ (<<y, b>> \in R)
  <2> HIDE DEF R
  <2>1. S \subseteq Nat
    OBVIOUS
  <2> QED
    BY <1>1, <2>1, WFMin
<1>3. \A y \in S : ~ (y < b)
  BY <1>2 DEF OpToRel
<1>4. \E x \in S : \A y \in S : x =< y
  BY SMT, <1>3
<1> QED
  BY <1>4 DEF Min

\* LastRecord is the last record of the event since its creation.
LEMMA LastRecordFacts ==
    ASSUME Types, NEW e \in Events, NEW n \in 0 .. Len(log)
    PROVE  /\ LastRecord(e, n) \in 0 .. n
           /\ LastRecord(e, n) # 0 =>
                 LastRecord(e, n) > born[e] /\ log[LastRecord(e, n)].event = e
           /\ \A i \in (born[e] + 1) .. n : log[i].event = e => i <= LastRecord(e, n)
<1> DEFINE S == {0} \cup {i \in (born[e] + 1) .. n : log[i].event = e}
<1>1. Len(log) \in Nat /\ n \in Nat /\ born[e] \in Nat
  BY SMT DEF Types
<1>2. S \in SUBSET Nat /\ S # {} /\ \A x \in S : x <= n
  BY SMT, <1>1
<1>3. LastRecord(e, n) = Max(S)
  BY DEF LastRecord
<1>4. Max(S) \in S /\ \A x \in S : x <= Max(S)
  <2> HIDE DEF S
  <2> QED
    BY <1>1, <1>2, MaxOf
<1> QED
  BY SMT, <1>1, <1>3, <1>4

\* The slot of lupine_event_cache_invalidate: the event's own, if it has one.
LEMMA SlotForFacts ==
    ASSUME Types, NEW e \in Events
    PROVE  /\ SlotFor(e) \in 1 .. Slots
           /\ \A i \in 1 .. Slots : slots[i].event = e => i = SlotFor(e)
<1>1. Slots \in Nat \ {0}
  BY CopiesAssumption
<1>2. CASE SlotsOf(e) # {}
  <2>1. SlotsOf(e) \in SUBSET Nat /\ SlotFor(e) = Min(SlotsOf(e))
    BY SMT, <1>1, <1>2 DEF SlotsOf, SlotFor
  <2>2. SlotFor(e) \in SlotsOf(e)
    BY <1>2, <2>1, MinOf
  <2>3. e # None
    BY CopiesAssumption
  <2> QED
    BY <2>2, <2>3 DEF SlotsOf, Types
<1>3. CASE SlotsOf(e) = {}
  <2> DEFINE V == {slots[i].record : i \in 1 .. Slots}
             M == {i \in 1 .. Slots : \A j \in 1 .. Slots : slots[i].record <= slots[j].record}
  <2>1. V \in SUBSET Nat /\ V # {}
    <3>1. \A i \in 1 .. Slots : slots[i].record \in Nat
      BY SMT DEF Types
    <3>2. 1 \in 1 .. Slots
      BY SMT, <1>1
    <3> QED
      BY <3>1, <3>2
  <2>2. Min(V) \in V /\ \A x \in V : Min(V) <= x
    <3> HIDE DEF V
    <3> QED
      BY <2>1, MinOf
  <2>3. M \in SUBSET Nat /\ M # {}
    <3>1. PICK i \in 1 .. Slots : slots[i].record = Min(V)
      BY <2>2
    <3>2. i \in M
      BY <2>2, <3>1
    <3> QED
      BY SMT, <1>1, <3>2
  <2>4. Min(M) \in M
    <3> HIDE DEF M
    <3> QED
      BY <2>3, MinOf
  <2>5. SlotFor(e) = Min(M)
    BY <1>3 DEF SlotFor
  <2> QED
    BY <1>3, <2>4, <2>5 DEF SlotsOf
<1> QED
  BY <1>2, <1>3

Entries == [stream : AllStreams, event : Events \cup {None}]
LogGrows == Len(log) <= Len(log') /\ \A i \in 1 .. Len(log) : log'[i] = log[i]

LEMMA Appended ==
    ASSUME Types, NEW x \in Entries, log' = Append(log, x)
    PROVE  /\ LogGrows /\ Len(log') = Len(log) + 1 /\ log'[Len(log) + 1] = x
           /\ log' \in Seq(Entries)
<1>1. log \in Seq(Entries)
  BY DEF Types, Entries
<1> QED
  BY SMT, <1>1 DEF LogGrows

LEMMA LogTypes ==
    ASSUME Types
    PROVE  /\ Len(log) \in Nat /\ executed \in Nat /\ executed <= Len(log)
           /\ DOMAIN log = 1 .. Len(log)
           /\ \A i \in 1 .. Len(log) : /\ log[i].stream \in AllStreams
                                       /\ log[i].event \in Events \cup {None}
                                       /\ log[i] \in Entries
           /\ \A e \in Events : born[e] \in 0 .. Len(log)
           /\ \A q \in AllStreams : pending[q] \subseteq 1 .. executed
           /\ finished \subseteq 1 .. executed
           /\ None \notin Events
<1>1. log \in Seq(Entries)
  BY DEF Types, Entries
<1>2. Len(log) \in Nat /\ DOMAIN log = 1 .. Len(log) /\ \A i \in 1 .. Len(log) : log[i] \in Entries
  BY SMT, <1>1
<1>3. executed \in Nat /\ executed <= Len(log) /\ finished \subseteq 1 .. executed
  BY SMT, <1>2 DEF Types
<1>4. /\ \A e \in Events : born[e] \in 0 .. Len(log)
      /\ \A q \in AllStreams : pending[q] \subseteq 1 .. executed
  BY DEF Types
<1> QED
  BY <1>2, <1>3, <1>4, CopiesAssumption DEF Entries

LEMMA LoadTypes ==
    ASSUME Types
    PROVE  /\ load.threads \subseteq Threads /\ load.events \subseteq Events
           /\ load.streams \cup {Null} \subseteq AllStreams
           /\ load.copies \in Nat /\ load.records \in Nat
  BY CopiesAssumption DEF Types, AllStreams

-----------------------------------------------------------------------------
(* Steps and the cache *)

NoNewReturn ==
    \A i \in 1 .. Len(log') : log'[i].event # None /\ Returned(i)' =>
        i <= Len(log) /\ Returned(i)
NewStamps ==
    /\ stamps <= stamps'
    /\ \A w \in Threads : call'[w].pc = "invalidate" =>
          \/ call[w].pc = "invalidate" /\ call'[w].stamp = call[w].stamp
          \/ call'[w].stamp > stamps

LEMMA TruthGrows ==
    ASSUME Types, LogGrows, Len(log') \in Nat, NoNewReturn, finished \subseteq finished',
           NEW e \in Events, born'[e] = born[e]
    PROVE  /\ Truth(e) => Truth(e)'
           /\ \A n \in Nat : ReturnedBy(e, n) => ReturnedBy(e, n)'
<1>1. born[e] \in Nat /\ Len(log) \in Nat /\ e # None
  BY SMT, LogTypes
<1>2. \A i \in RecordsOf(e)' : Returned(i)' => i \in RecordsOf(e) /\ Returned(i)
  <2> SUFFICES ASSUME NEW i \in RecordsOf(e)', Returned(i)' PROVE i \in RecordsOf(e) /\ Returned(i)
    OBVIOUS
  <2>1. i \in (born[e] + 1) .. Len(log') /\ log'[i].event = e
    BY DEF RecordsOf
  <2>2. i <= Len(log) /\ Returned(i)
    BY SMT, <1>1, <2>1 DEF NoNewReturn
  <2> QED
    BY SMT, <1>1, <2>1, <2>2 DEF LogGrows, RecordsOf
<1>3. \A r \in finished : log'[r] = log[r]
  BY SMT, LogTypes DEF LogGrows
<1>4. Truth(e) => Truth(e)'
  BY <1>2, <1>3 DEF Truth
<1>5. \A n \in Nat : ReturnedBy(e, n) => ReturnedBy(e, n)'
  BY <1>2 DEF ReturnedBy
<1> QED
  BY <1>4, <1>5

LEMMA RecordKept ==
    ASSUME Types, LogGrows, Len(log') \in Nat, NEW u \in Threads, call'[u] = call[u], RecordOK(u)
    PROVE  RecordOK(u)'
  BY SMT, LogTypes DEF RecordOK, LogGrows

LEMMA SeenKept ==
    ASSUME Types, NewStamps, stamps' \in Nat, NEW u \in Threads, call'[u] = call[u], SeenOK(u),
           \A w \in Threads : call'[w].stamp \in Nat
    PROVE  SeenOK(u)'
<1>1. \A p \in Seen(call[u]) : p.record \in Nat
  <2>1. call[u].stamp \in Nat /\ call[u].batch \subseteq [event : Events, record : Nat]
    BY DEF Types, Calls
  <2> QED
    BY SMT, <2>1 DEF Seen
<1>2. SUFFICES ASSUME call[u].pc \in Asking, NEW p \in Seen(call[u])
               PROVE  /\ p.record <= stamps'
                      /\ \A w \in Threads : call'[w].pc = "invalidate" => p.record # call'[w].stamp
  BY DEF SeenOK, Seen
<1>3. /\ p.record <= stamps
      /\ \A w \in Threads : call[w].pc = "invalidate" => p.record # call[w].stamp
  BY <1>2 DEF SeenOK
<1>4. stamps \in Nat
  BY DEF Types
<1> QED
  BY SMT, <1>1, <1>3, <1>4 DEF NewStamps

LEMMA AskedKept ==
    ASSUME Types, LogGrows, Len(log') \in Nat, finished \subseteq finished',
           NEW u \in Threads, call'[u] = call[u], call[u].pc \in Asking => born' = born, AskedOK(u)
    PROVE  AskedOK(u)'
<1>1. call[u].asked \in Nat /\ Len(log) \in Nat /\ Len(log) <= Len(log')
  BY LogTypes DEF Types, Calls, LogGrows
<1>2. \A r \in finished : log'[r] = log[r]
  BY SMT, LogTypes DEF LogGrows
<1>3. AskedDone(call[u]) /\ call[u].asked <= Len(log) => AskedDone(call[u])'
  BY SMTT(30), <1>1, <1>2 DEF AskedDone, LogGrows
<1>4. ASSUME call[u].pc \in Asking
      PROVE  /\ call[u].event \in Events
             /\ call[u].asked # 0 => call[u].asked \in RecordsOf(call[u].event)'
             /\ call[u].asked <= Len(log)
  <2>1. call[u].event \in Events /\ (call[u].asked # 0 => call[u].asked \in RecordsOf(call[u].event))
    BY <1>4 DEF AskedOK
  <2>2. born'[call[u].event] = born[call[u].event] /\ born[call[u].event] \in Nat
    BY SMT, <1>4, <2>1, LogTypes
  <2> QED
    BY SMTT(30), <1>1, <2>1, <2>2 DEF RecordsOf, LogGrows
<1>5. call[u].pc \in Answered => call[u].pc \in Asking
  BY DEF Asking
<1> QED
  BY SMT, <1>1, <1>3, <1>4, <1>5 DEF AskedOK

LEMMA WatchedEvent ==
    ASSUME Types, NEW u \in Threads, AskedOK(u), call[u].pc \in {"ask"} \cup Answered,
           NEW slot, Watches(call[u], slot)
    PROVE  slot.event \in Events
<1>1. call[u].event \in Events /\ call[u].batch \subseteq [event : Events, record : Nat]
  BY DEF AskedOK, Asking, Types, Calls
<1>2. PICK p \in Seen(call[u]) : p = [event |-> slot.event, record |-> slot.record]
  BY DEF Watches
<1>3. p.event \in Events
  BY SMT, <1>1 DEF Seen
<1> QED
  BY <1>2, <1>3

LEMMA WatchKept ==
    ASSUME Types, LogGrows, Len(log') \in Nat, NoNewReturn, finished \subseteq finished',
           born' = born, slots' = slots, NEW u \in Threads, call'[u] = call[u],
           AskedOK(u), WatchOK(u)
    PROVE  WatchOK(u)'
<1> SUFFICES ASSUME NEW i \in 1 .. Slots, Watches(call[u], slots[i]),
                    call[u].pc \in {"ask"} \cup Answered
             PROVE  /\ call[u].pc = "ask" => ReturnedBy(slots[i].event, call[u].fence)'
                    /\ call[u].pc \in Answered /\ slots[i].event \in call[u].ready =>
                          Truth(slots[i].event)'
  BY DEF WatchOK, Watches, Seen
<1>1. PICK e \in Events : e = slots[i].event
  BY WatchedEvent
<1>2. PICK n \in Nat : n = call[u].fence
  BY DEF Types, Calls
<1>3. (Truth(e) => Truth(e)') /\ (ReturnedBy(e, n) => ReturnedBy(e, n)')
  BY TruthGrows
<1>4. /\ call[u].pc = "ask" => ReturnedBy(e, n)
      /\ call[u].pc \in Answered /\ e \in call[u].ready => Truth(e)
  BY <1>1, <1>2 DEF WatchOK
<1> QED
  BY <1>1, <1>2, <1>3, <1>4

\* A step that leaves the table alone and returns from no record.
LEMMA CacheKept ==
    ASSUME Types, Types', CacheInv, LogGrows, NoNewReturn, NewStamps,
           finished \subseteq finished', UNCHANGED <<born, slots>>,
           DistinctStamps',
           \A u \in Threads : call'[u].pc = "invalidate" => call'[u].stamp \in 1 .. stamps',
           \A u \in Threads : call'[u] = call[u] \/ ThreadOK(u)'
    PROVE  CacheInv'
<1>1. Len(log') \in Nat /\ stamps' \in Nat /\ \A w \in Threads : call'[w].stamp \in Nat
  BY SMT, LogTypes DEF Types, Calls
<1>2. ASSUME NEW u \in Threads, call'[u] = call[u]
      PROVE  ThreadOK(u)'
  <2>1. RecordOK(u) /\ SeenOK(u) /\ WatchOK(u) /\ AskedOK(u)
    BY DEF CacheInv, ThreadOK
  <2>2. RecordOK(u)'
    BY <1>1, <1>2, <2>1, RecordKept
  <2>3. SeenOK(u)'
    BY <1>1, <1>2, <2>1, SeenKept
  <2>4. AskedOK(u)'
    BY <1>1, <1>2, <2>1, AskedKept
  <2>5. WatchOK(u)'
    BY <1>1, <1>2, <2>1, WatchKept
  <2> QED
    BY <2>2, <2>3, <2>4, <2>5 DEF ThreadOK
<1>3. ASSUME NEW i \in 1 .. Slots
      PROVE  /\ slots[i].record <= stamps'
             /\ slots[i].complete => slots[i].event \in Events /\ Truth(slots[i].event)'
             /\ \A t \in Threads : call'[t].pc = "invalidate" => slots[i].record # call'[t].stamp
  <2>1. slots[i].record <= stamps /\ slots[i].record \in Nat /\ stamps \in Nat
    BY DEF CacheInv, TableInv, Types
  <2>2. ASSUME slots[i].complete PROVE slots[i].event \in Events /\ Truth(slots[i].event)'
    <3>1. PICK e \in Events : e = slots[i].event /\ Truth(e)
      BY <2>2 DEF CacheInv, TableInv
    <3>2. Truth(e)'
      BY <1>1, <3>1, TruthGrows
    <3> QED
      BY <3>1, <3>2
  <2>3. \A t \in Threads : call[t].pc = "invalidate" => slots[i].record # call[t].stamp
    BY DEF CacheInv, TableInv
  <2> QED
    BY SMT, <1>1, <2>1, <2>2, <2>3 DEF NewStamps
<1>4. TableInv'
  BY <1>3 DEF TableInv
<1>5. \A u \in Threads : ThreadOK(u)'
  BY <1>2
<1> QED
  BY <1>4, <1>5 DEF CacheInv

\* A step of one thread that neither draws nor writes a stamp.
LEMMA CacheQuiet ==
    ASSUME Types, Types', CacheInv, LogGrows, NEW t \in Threads,
           UNCHANGED <<stamps, slots, born, finished>>,
           \A u \in Threads : u # t => call'[u] = call[u],
           call[t].pc \notin Recording, call'[t].pc # "invalidate", ThreadOK(t)',
           \A i \in (Len(log) + 1) .. Len(log') : log'[i].event # None =>
              call'[t].pc \in Recording /\ call'[t].index = i
    PROVE  CacheInv'
<1>1. NoNewReturn
  <2> SUFFICES ASSUME NEW i \in 1 .. Len(log'), log'[i].event # None, Returned(i)'
               PROVE  i <= Len(log) /\ Returned(i)
    BY DEF NoNewReturn
  <2>1. i <= Len(log)
    BY SMT, LogTypes DEF Returned
  <2>2. Returned(i)
    BY DEF Returned
  <2> QED
    BY <2>1, <2>2
<1>2. NewStamps
  <2>1. stamps <= stamps'
    BY SMT DEF Types
  <2> QED
    BY <2>1 DEF NewStamps
<1>3. \A u \in Threads : call'[u].pc = "invalidate" =>
         call[u].pc = "invalidate" /\ call'[u].stamp = call[u].stamp
  OBVIOUS
<1>4. DistinctStamps'
  BY SMT, <1>3 DEF CacheInv, TableInv, DistinctStamps
<1>5. \A u \in Threads : call'[u].pc = "invalidate" => call'[u].stamp \in 1 .. stamps'
  BY <1>3 DEF CacheInv, TableInv
<1> QED
  BY <1>1, <1>2, <1>4, <1>5, CacheKept

\* Places where nothing is promised about the cache.
LEMMA ThreadTrivial ==
    ASSUME NEW t \in Threads,
           \/ call'[t].pc \in {"idle", "count"}
           \/ call'[t].pc \in {"driver", "detach", "land"} /\ call'[t].asked = 0
    PROVE  ThreadOK(t)'
  BY DEF ThreadOK, RecordOK, SeenOK, WatchOK, AskedOK, Recording, Asking, Answered

LEMMA CacheDrawStamp ==
    ASSUME Types, Types', CacheInv, NEW t \in Threads, DrawStamp(t)
    PROVE  CacheInv'
<1>1. /\ UNCHANGED <<log, finished, born, slots>> /\ stamps' = stamps + 1 /\ stamps \in Nat
      /\ call[t].pc = "stamp"
      /\ call' = [call EXCEPT ![t].pc = "invalidate", ![t].stamp = stamps + 1]
  BY DEF DrawStamp, driver, Types
<1>2. /\ call'[t].pc = "invalidate" /\ call'[t].stamp = stamps + 1
      /\ call'[t].index = call[t].index /\ call'[t].event = call[t].event
      /\ \A u \in Threads : u # t => call'[u] = call[u]
  BY <1>1 DEF Types, Calls
<1>3. LogGrows
  BY SMT, <1>1, LogTypes DEF LogGrows
<1>4. NoNewReturn
  <2>1. \A u \in Threads : /\ call[u].pc \in Recording => call'[u].pc \in Recording
                           /\ call'[u].index = call[u].index
    BY <1>1, <1>2 DEF Recording
  <2>2. \A i : Returned(i)' => Returned(i)
    BY <2>1 DEF Returned
  <2> QED
    BY SMT, <1>1, <2>2, LogTypes DEF NoNewReturn
<1>5. NewStamps
  <2>1. stamps <= stamps' /\ stamps + 1 > stamps
    BY SMT, <1>1
  <2> QED
    BY <1>2, <2>1 DEF NewStamps
<1>6. ThreadOK(t)'
  <2>1. RecordOK(t)'
    BY <1>1, <1>2 DEF CacheInv, ThreadOK, RecordOK, Recording
  <2> QED
    BY <1>2, <2>1 DEF ThreadOK, SeenOK, WatchOK, AskedOK, Asking, Answered
<1>7. \A u \in Threads : u # t /\ call'[u].pc = "invalidate" => call'[u].stamp \in 1 .. stamps
  BY <1>2 DEF CacheInv, TableInv
<1>8. DistinctStamps'
  <2> SUFFICES ASSUME NEW u \in Threads, NEW w \in Threads, u # w,
                      call'[u].pc = "invalidate", call'[w].pc = "invalidate"
               PROVE  call'[u].stamp # call'[w].stamp
    BY DEF DistinctStamps
  <2>1. CASE u = t \/ w = t
    <3>1. stamps + 1 \notin 1 .. stamps
      BY SMT, <1>1
    <3> QED
      BY <1>2, <1>7, <2>1, <3>1
  <2>2. CASE u # t /\ w # t
    BY <1>2, <2>2 DEF CacheInv, TableInv, DistinctStamps
  <2> QED
    BY <2>1, <2>2
<1>9. \A u \in Threads : call'[u].pc = "invalidate" => call'[u].stamp \in 1 .. stamps'
  <2>1. 1 .. stamps' = (1 .. stamps) \cup {stamps + 1}
    BY SMT, <1>1
  <2> QED
    BY <1>2, <1>7, <2>1
<1> QED
  BY <1>1, <1>2, <1>3, <1>4, <1>5, <1>6, <1>8, <1>9, CacheKept

\* No thread moves: the device or the server does.
LEMMA CacheDevice ==
    ASSUME Types, Types', CacheInv, UNCHANGED <<log, born, call, stamps, slots>>,
           finished \subseteq finished'
    PROVE  CacheInv'
<1>1. LogGrows /\ NoNewReturn
  BY SMT, LogTypes DEF LogGrows, NoNewReturn, Returned
<1>2. NewStamps
  BY SMT DEF NewStamps, Types
<1>3. DistinctStamps' /\ \A u \in Threads : call'[u].pc = "invalidate" => call'[u].stamp \in 1 .. stamps'
  BY DEF CacheInv, TableInv, DistinctStamps
<1> QED
  BY <1>1, <1>2, <1>3, CacheKept

\* The record returns: its event's slot holds a stamp that no query has seen.
LEMMA CacheInvalidate ==
    ASSUME Types, Types', CacheInv, NEW t \in Threads, Invalidate(t)
    PROVE  CacheInv'
<1>1. PICK e \in Events : e = call[t].event
  BY DEF Invalidate, CacheInv, ThreadOK, RecordOK, Recording
<1>2. PICK s0 \in 1 .. Slots : /\ s0 = SlotFor(e)
                               /\ \A i \in 1 .. Slots : slots[i].event = e => i = s0
  BY SlotForFacts
<1>3. /\ UNCHANGED <<log, finished, born, stamps>> /\ call[t].pc = "invalidate"
      /\ slots' = [slots EXCEPT ![s0] = [event |-> e, record |-> call[t].stamp, complete |-> FALSE]]
      /\ call' = [call EXCEPT ![t] = Idle]
  BY <1>1, <1>2 DEF Invalidate, Done, driver
<1>4. /\ call'[t].pc = "idle" /\ \A u \in Threads : u # t => call'[u] = call[u]
      /\ \A i \in 1 .. Slots : i # s0 => slots'[i] = slots[i]
      /\ slots'[s0].event = e /\ slots'[s0].record = call[t].stamp /\ ~ slots'[s0].complete
  BY <1>3 DEF Types, Idle
<1>5. call[t].index \in 1 .. Len(log) /\ log[call[t].index].event = e
  BY <1>1, <1>3 DEF CacheInv, ThreadOK, RecordOK, Recording
<1>6. ASSUME NEW f \in Events, f # e
      PROVE  /\ Truth(f) => Truth(f)'
             /\ \A n \in Nat : ReturnedBy(f, n) => ReturnedBy(f, n)'
  <2>1. RecordsOf(f)' = RecordsOf(f)
    BY <1>3 DEF RecordsOf
  <2>2. \A i \in RecordsOf(f) : i # call[t].index
    BY <1>5, <1>6 DEF RecordsOf
  <2>3. \A i \in RecordsOf(f) : Returned(i)' => Returned(i)
    BY <1>4, <2>2 DEF Returned
  <2> QED
    BY <1>3, <2>1, <2>3 DEF Truth, ReturnedBy
<1>7. LogGrows /\ Len(log') \in Nat /\ NewStamps /\ finished \subseteq finished'
  <2>1. LogGrows /\ Len(log') \in Nat /\ stamps <= stamps'
    BY SMT, <1>3, LogTypes DEF LogGrows, Types
  <2>2. \A w \in Threads : call'[w].pc = "invalidate" => call'[w] = call[w]
    BY <1>4
  <2> QED
    BY <1>3, <2>1, <2>2 DEF NewStamps
<1>8. ASSUME NEW u \in Threads, u # t
      PROVE  ThreadOK(u)'
  <2>1. RecordOK(u) /\ SeenOK(u) /\ WatchOK(u) /\ AskedOK(u) /\ call'[u] = call[u]
    BY <1>4, <1>8 DEF CacheInv, ThreadOK
  <2>2. RecordOK(u)' /\ AskedOK(u)'
    BY <1>3, <1>7, <2>1, RecordKept, AskedKept
  <2>3. SeenOK(u)'
    <3>1. stamps' \in Nat /\ \A w \in Threads : call'[w].stamp \in Nat
      BY DEF Types, Calls
    <3> QED
      BY <1>7, <2>1, <3>1, SeenKept
  <2>4. WatchOK(u)'
    <3> SUFFICES ASSUME NEW i \in 1 .. Slots, Watches(call[u], slots'[i]),
                        call[u].pc \in {"ask"} \cup Answered
                 PROVE  /\ call[u].pc = "ask" => ReturnedBy(slots[i].event, call[u].fence)'
                        /\ call[u].pc \in Answered /\ slots'[i].event \in call[u].ready =>
                              Truth(slots[i].event)'
      BY <2>1 DEF WatchOK, Watches, Seen
    <3>1. i # s0
      <4>1. [event |-> e, record |-> call[t].stamp] \in Seen(call[u]) =>
               call[t].stamp # call[t].stamp
        BY <1>3, <2>1 DEF SeenOK, Asking
      <4> QED
        BY <1>4, <4>1 DEF Watches
    <3>2. slots'[i] = slots[i]
      BY <1>4, <3>1
    <3>3. PICK f \in Events : f = slots[i].event
      BY <2>1, <3>2, WatchedEvent
    <3>4. f # e
      BY <1>2, <3>1, <3>3
    <3>5. PICK n \in Nat : n = call[u].fence
      BY DEF Types, Calls
    <3>6. /\ call[u].pc = "ask" => ReturnedBy(f, n)
          /\ call[u].pc \in Answered /\ f \in call[u].ready => Truth(f)
      BY <2>1, <3>2, <3>3, <3>5 DEF WatchOK
    <3>7. (Truth(f) => Truth(f)') /\ (ReturnedBy(f, n) => ReturnedBy(f, n)')
      BY <1>6, <3>4
    <3> QED
      BY <2>1, <3>2, <3>3, <3>5, <3>6, <3>7
  <2> QED
    BY <2>2, <2>3, <2>4 DEF ThreadOK
<1>9. ThreadOK(t)'
  BY <1>4, ThreadTrivial
<1>10. TableInv'
  <2>1. call[t].stamp <= stamps
    BY SMT, <1>3 DEF CacheInv, TableInv
  <2>2. DistinctStamps /\ DistinctStamps'
    BY SMT, <1>4 DEF CacheInv, TableInv, DistinctStamps
  <2>3. ASSUME NEW i \in 1 .. Slots
        PROVE  /\ slots'[i].record <= stamps'
               /\ slots'[i].complete => slots'[i].event \in Events /\ Truth(slots[i].event)'
               /\ \A u \in Threads : call'[u].pc = "invalidate" => slots'[i].record # call'[u].stamp
    <3>1. CASE i = s0
      BY SMT, <1>3, <1>4, <2>1, <2>2, <3>1 DEF DistinctStamps
    <3>2. CASE i # s0
      <4>1. slots'[i] = slots[i]
        BY <1>4, <3>2
      <4>2. ASSUME slots[i].complete PROVE slots[i].event \in Events /\ Truth(slots[i].event)'
        <5>1. PICK f \in Events : f = slots[i].event /\ Truth(f)
          BY <4>2 DEF CacheInv, TableInv
        <5> QED
          BY <1>2, <1>6, <3>2, <4>1, <5>1
      <4> QED
        BY <1>3, <1>4, <4>1, <4>2 DEF CacheInv, TableInv
    <3> QED
      BY <3>1, <3>2
  <2> QED
    BY <1>3, <1>4, <2>2, <2>3 DEF TableInv, CacheInv
<1> QED
  BY <1>8, <1>9, <1>10 DEF CacheInv

\* lupine_event_cache_completions: a slot that still holds a record the query saw.
LEMMA CacheCompleted ==
    ASSUME Types, Types', CacheInv, NEW t \in Threads, call[t].pc = "cache",
           UNCHANGED <<log, finished, born, stamps>>,
           \A u \in Threads : u # t => call'[u] = call[u],
           slots' = [i \in 1 .. Slots |->
               IF Cacheable(call[t], slots[i]) THEN [slots[i] EXCEPT !.complete = TRUE]
               ELSE slots[i]],
           call'[t].pc # "invalidate", ThreadOK(t)'
    PROVE  CacheInv'
<1>1. ASSUME NEW i \in 1 .. Slots
      PROVE  /\ slots'[i].event = slots[i].event /\ slots'[i].record = slots[i].record
             /\ slots'[i].complete => slots[i].complete \/ Cacheable(call[t], slots[i])
  BY DEF Types
<1>2. LogGrows /\ Len(log') \in Nat /\ NewStamps /\ finished \subseteq finished'
  <2>1. LogGrows /\ Len(log') \in Nat /\ stamps <= stamps'
    BY SMT, LogTypes DEF LogGrows, Types
  <2>2. \A w \in Threads : call'[w].pc = "invalidate" => call'[w] = call[w]
    OBVIOUS
  <2> QED
    BY <2>1, <2>2 DEF NewStamps
<1>3. \A e : /\ Truth(e) => Truth(e)'
             /\ \A n : ReturnedBy(e, n) => ReturnedBy(e, n)'
  <2>1. \A i : Returned(i)' => Returned(i)
    BY DEF Returned, Recording
  <2> QED
    BY <2>1 DEF Truth, ReturnedBy, RecordsOf
<1>4. ASSUME NEW u \in Threads, u # t
      PROVE  ThreadOK(u)'
  <2>1. RecordOK(u) /\ SeenOK(u) /\ WatchOK(u) /\ AskedOK(u) /\ call'[u] = call[u]
    BY <1>4 DEF CacheInv, ThreadOK
  <2>2. RecordOK(u)' /\ AskedOK(u)'
    BY <1>2, <2>1, RecordKept, AskedKept
  <2>3. SeenOK(u)'
    <3>1. stamps' \in Nat /\ \A w \in Threads : call'[w].stamp \in Nat
      BY DEF Types, Calls
    <3> QED
      BY <1>2, <2>1, <3>1, SeenKept
  <2>4. WatchOK(u)'
    <3> SUFFICES ASSUME NEW i \in 1 .. Slots, Watches(call'[u], slots'[i])
                 PROVE  /\ call'[u].pc = "ask" => ReturnedBy(slots[i].event, call[u].fence)'
                        /\ call'[u].pc \in Answered /\ slots'[i].event \in call'[u].ready =>
                              Truth(slots[i].event)'
      BY DEF WatchOK, Watches, Seen
    <3>1. Watches(call[u], slots[i])
      BY <1>1, <2>1 DEF Watches
    <3>2. PICK f, n : f = slots[i].event /\ n = call[u].fence
      OBVIOUS
    <3>3. /\ call[u].pc = "ask" => ReturnedBy(f, n)
          /\ call[u].pc \in Answered /\ f \in call[u].ready => Truth(f)
      BY <2>1, <3>1, <3>2 DEF WatchOK
    <3>4. (Truth(f) => Truth(f)') /\ (ReturnedBy(f, n) => ReturnedBy(f, n)')
      BY <1>3
    <3> QED
      BY <1>1, <2>1, <3>2, <3>3, <3>4
  <2> QED
    BY <2>2, <2>3, <2>4 DEF ThreadOK
<1>5. TableInv'
  <2>1. ASSUME NEW i \in 1 .. Slots, slots'[i].complete
        PROVE  slots'[i].event \in Events /\ Truth(slots[i].event)'
    <3>1. PICK f : f = slots[i].event
      OBVIOUS
    <3>2. CASE slots[i].complete
      <4>1. f \in Events /\ Truth(f)
        BY <3>1, <3>2 DEF CacheInv, TableInv
      <4>2. Truth(f)'
        BY <1>3, <4>1
      <4> QED
        BY <1>1, <3>1, <4>1, <4>2
    <3>3. CASE Cacheable(call[t], slots[i])
      <4>1. Watches(call[t], slots[i]) /\ f \in call[t].ready
        BY <3>1, <3>3 DEF Cacheable, Watches, Seen
      <4>2. Truth(f)
        BY <3>1, <4>1 DEF CacheInv, ThreadOK, WatchOK, Answered
      <4>3. f \in Events /\ Truth(f)'
        BY <1>3, <4>1, <4>2 DEF Types, Calls
      <4> QED
        BY <1>1, <3>1, <4>3
    <3> QED
      BY <1>1, <2>1, <3>2, <3>3
  <2>2. \A u \in Threads : call'[u].pc = "invalidate" => u # t /\ call'[u] = call[u]
    OBVIOUS
  <2>3. DistinctStamps'
    BY <2>2 DEF CacheInv, TableInv, DistinctStamps
  <2> QED
    BY SMT, <1>1, <2>1, <2>2, <2>3 DEF TableInv, CacheInv
<1> QED
  BY <1>4, <1>5 DEF CacheInv

\* cuEventDestroy_v2: no query is in flight, and no slot keeps the handle.
LEMMA CacheRecreate ==
    ASSUME Types, Types', CacheInv, NEW e \in Events, Recreate(e)
    PROVE  CacheInv'
<1>1. /\ UNCHANGED <<log, executed, finished, call, stamps>>
      /\ born' = [born EXCEPT ![e] = Len(log)]
      /\ slots' = [i \in 1..Slots |-> IF slots[i].event = e THEN EmptySlot ELSE slots[i]]
      /\ \A t \in Threads : call[t].pc \notin Asking
  BY DEF Recreate, Asking, Answered
<1>2. \A i \in 1 .. Slots : \/ slots'[i].record = 0 /\ ~ slots'[i].complete
                            \/ slots'[i] = slots[i] /\ slots[i].event # e
  BY <1>1 DEF EmptySlot
<1>3. \A f \in Events : f # e /\ Truth(f) => Truth(f)'
  <2>1. \A f \in Events : f # e => RecordsOf(f)' = RecordsOf(f)
    BY <1>1 DEF RecordsOf, Types
  <2>2. \A i : Returned(i)' = Returned(i)
    BY <1>1 DEF Returned
  <2> QED
    BY <1>1, <2>1, <2>2 DEF Truth
<1>4. LogGrows /\ Len(log') \in Nat /\ finished \subseteq finished'
  BY SMT, <1>1, LogTypes DEF LogGrows
<1>5. ASSUME NEW u \in Threads PROVE ThreadOK(u)'
  <2>1. RecordOK(u) /\ AskedOK(u) /\ call'[u] = call[u] /\ call[u].pc \notin Asking
    BY <1>1 DEF CacheInv, ThreadOK
  <2>2. RecordOK(u)' /\ AskedOK(u)'
    BY <1>4, <2>1, RecordKept, AskedKept
  <2> QED
    BY <2>1, <2>2 DEF ThreadOK, SeenOK, WatchOK, Asking
<1>6. TableInv'
  <2>1. ASSUME NEW i \in 1 .. Slots, slots'[i].complete
        PROVE  slots'[i].event \in Events /\ Truth(slots[i].event)'
    <3>1. PICK f \in Events : f = slots[i].event /\ slots'[i] = slots[i] /\ f # e /\ Truth(f)
      BY <1>2, <2>1 DEF CacheInv, TableInv
    <3> QED
      BY <1>3, <3>1
  <2>2. \A i \in 1 .. Slots : slots'[i].record = 0 \/ slots'[i].record = slots[i].record
    BY <1>2
  <2>3. stamps \in Nat
    BY DEF Types
  <2> QED
    BY SMT, <1>1, <2>1, <2>2, <2>3 DEF TableInv, CacheInv, DistinctStamps
<1> QED
  BY <1>5, <1>6 DEF CacheInv

-----------------------------------------------------------------------------
(* Steps of one thread outside the table *)

LEMMA CallKept ==
    ASSUME Types, NEW t \in Threads, NEW c \in Calls, call' = [call EXCEPT ![t] = c]
    PROVE  /\ call'[t] = c /\ call' \in [Threads -> Calls]
           /\ \A u \in Threads : u # t => call'[u] = call[u]
  BY DEF Types

LEMMA CallStep ==
    ASSUME Types, CacheInv, UNCHANGED <<load, driver, table>>,
           pending' \in [AllStreams -> SUBSET (1..executed)],
           NEW t \in Threads, NEW c \in Calls, call' = [call EXCEPT ![t] = c],
           call[t].pc \notin Recording, c.pc \notin Recording, ThreadOK(t)'
    PROVE  Types' /\ CacheInv'
<1>1. /\ call'[t] = c /\ call' \in [Threads -> Calls]
      /\ \A u \in Threads : u # t => call'[u] = call[u]
  BY CallKept
<1>2. Types'
  BY <1>1 DEF Types, driver, table
<1>3. LogGrows /\ \A i \in (Len(log) + 1) .. Len(log') : FALSE
  BY SMT, LogTypes DEF LogGrows, driver
<1>4. CacheInv'
  BY <1>1, <1>2, <1>3, CacheQuiet DEF Recording, driver, table
<1> QED
  BY <1>2, <1>4

\* The call enters a place where nothing is promised about the cache.
LEMMA QuietStep ==
    ASSUME Types, CacheInv, UNCHANGED <<load, driver, table>>,
           pending' \in [AllStreams -> SUBSET (1..executed)],
           NEW t \in Threads, NEW c \in Calls, call' = [call EXCEPT ![t] = c],
           call[t].pc \notin Recording,
           c.pc \in {"idle", "count"} \/ (c.pc \in {"driver", "detach", "land"} /\ c.asked = 0)
    PROVE  Types' /\ CacheInv'
<1>1. call'[t] = c
  BY CallKept
<1>2. ThreadOK(t)'
  BY <1>1, ThreadTrivial
<1> QED
  BY <1>2, CallStep DEF Recording

LEMMA OwesTypes ==
    ASSUME Types
    PROVE  /\ Idle \in Calls /\ Idle.pc = "idle" /\ Idle.asked = 0 /\ Len(log) \in Nat
           /\ \A s : StreamOwes(s) \in SUBSET Nat
           /\ \A e : EventOwes(e) \in SUBSET Nat
           /\ \A c : Collected(c) \in SUBSET Nat
<1>1. \A c : Collected(c) \in SUBSET Nat
  BY SMT, LogTypes DEF Collected, Collects
<1> QED
  BY SMT, <1>1, LogTypes DEF Idle, Calls, Places, AllStreams, StreamOwes, EventOwes, Issued

\* The next call of a thread, and its return.
LEMMA CacheIdle ==
    ASSUME Types, CacheInv, UNCHANGED load, NEW t \in Threads, Return(t) \/ CountCopy(t)
    PROVE  Types' /\ CacheInv'
<1>1. call' = [call EXCEPT ![t] = Idle] /\ call[t].pc \notin Recording
  BY DEF Return, CountCopy, Done, Recording
<1>2. pending' \in [AllStreams -> SUBSET (1..executed)]
  BY DEF Types, Return, CountCopy, server
<1> QED
  BY <1>1, <1>2, OwesTypes, QuietStep DEF Return, CountCopy

LEMMA CacheStreamSynchronize ==
    ASSUME Types, CacheInv, UNCHANGED load, NEW t \in Threads, NEW s \in AllStreams,
           StreamSynchronize(t, s)
    PROVE  Types' /\ CacheInv'
<1>1. PICK c : c = [Idle EXCEPT !.pc = "driver", !.stream = s, !.fence = Len(log),
                                !.needs = StreamOwes(s)]
  OBVIOUS
<1>2. c \in Calls
  BY <1>1, OwesTypes DEF Calls, Places
<1>3. c.pc = "driver" /\ c.asked = 0
  BY <1>1 DEF Idle
<1>4. call[t].pc = "idle" /\ call' = [call EXCEPT ![t] = c]
  BY <1>1 DEF StreamSynchronize, Start
<1>5. pending' \in [AllStreams -> SUBSET (1..executed)]
  BY DEF Types, StreamSynchronize, server
<1> QED
  BY <1>2, <1>3, <1>4, <1>5, QuietStep DEF StreamSynchronize, Recording

LEMMA CacheEventSynchronize ==
    ASSUME Types, CacheInv, UNCHANGED load, NEW t \in Threads, NEW e \in Events,
           EventSynchronize(t, e)
    PROVE  Types' /\ CacheInv'
<1>1. PICK c : c = [Idle EXCEPT !.pc = "driver", !.event = e, !.fence = Len(log),
                                !.needs = EventOwes(e)]
  OBVIOUS
<1>2. c \in Calls
  BY <1>1, OwesTypes DEF Calls, Places
<1>3. c.pc = "driver" /\ c.asked = 0
  BY <1>1 DEF Idle
<1>4. call[t].pc = "idle" /\ call' = [call EXCEPT ![t] = c]
  BY <1>1 DEF EventSynchronize, Start
<1>5. pending' \in [AllStreams -> SUBSET (1..executed)]
  BY DEF Types, EventSynchronize, server
<1> QED
  BY <1>2, <1>3, <1>4, <1>5, QuietStep DEF EventSynchronize, Recording

LEMMA CacheDriverReturns ==
    ASSUME Types, CacheInv, UNCHANGED load, NEW t \in Threads, DriverReturns(t)
    PROVE  Types' /\ CacheInv'
<1>1. PICK c : c = [call[t] EXCEPT !.pc = "detach"]
  OBVIOUS
<1>2. c \in Calls /\ c.pc = "detach" /\ c.asked = call[t].asked
  <2>1. call[t] \in Calls
    BY DEF Types
  <2> QED
    BY <1>1, <2>1 DEF Calls, Places
<1>3. call[t].pc = "driver" /\ call' = [call EXCEPT ![t] = c]
  BY <1>1 DEF DriverReturns, Goto
<1>4. c.asked = 0
  BY <1>2, <1>3 DEF CacheInv, ThreadOK, AskedOK
<1>5. pending' \in [AllStreams -> SUBSET (1..executed)]
  BY DEF Types, DriverReturns, server
<1> QED
  BY <1>2, <1>3, <1>4, <1>5, QuietStep DEF DriverReturns, Recording

LEMMA DetachTypes ==
    ASSUME Types, NEW c, Detach(c)
    PROVE  pending' \in [AllStreams -> SUBSET (1..executed)]
  BY DEF Types, Detach

LEMMA CacheRespondSynchronized ==
    ASSUME Types, CacheInv, UNCHANGED load, NEW t \in Threads, RespondSynchronized(t)
    PROVE  Types' /\ CacheInv'
<1>1. PICK c : c = [call[t] EXCEPT !.pc = "land", !.got = Collected(call[t])]
  OBVIOUS
<1>2. c \in Calls /\ c.pc = "land" /\ c.asked = call[t].asked
  <2>1. Collected(call[t]) \in SUBSET Nat
    BY OwesTypes
  <2>2. call[t] \in Calls
    BY DEF Types
  <2> QED
    BY <1>1, <2>1, <2>2 DEF Calls, Places
<1>3. call[t].pc = "detach" /\ call' = [call EXCEPT ![t] = c]
  BY <1>1 DEF RespondSynchronized
<1>4. c.asked = 0
  BY <1>2, <1>3 DEF CacheInv, ThreadOK, AskedOK
<1>5. pending' \in [AllStreams -> SUBSET (1..executed)]
  BY DetachTypes DEF RespondSynchronized
<1> QED
  BY <1>2, <1>3, <1>4, <1>5, QuietStep DEF RespondSynchronized, Recording

-----------------------------------------------------------------------------
(* Queries *)

LEMMA LastReturnedFacts ==
    ASSUME Types, NEW e \in Events
    PROVE  /\ LastReturned(e) \in 0 .. Len(log)
           /\ LastReturned(e) # 0 => LastReturned(e) \in RecordsOf(e) /\ Returned(LastReturned(e))
<1> DEFINE S == {0} \cup {i \in (born[e] + 1) .. Len(log) : log[i].event = e /\
            \A t \in Threads : call[t].pc \in {"stamp", "invalidate"} => call[t].index # i}
<1>1. Len(log) \in Nat /\ born[e] \in Nat
  BY SMT, LogTypes
<1>2. S \in SUBSET Nat /\ S # {} /\ \A x \in S : x <= Len(log) /\ x \in 0 .. Len(log)
  BY SMT, <1>1
<1>3. LastReturned(e) = Max(S)
  BY DEF LastReturned
<1>4. \A x \in S : x # 0 => x \in RecordsOf(e) /\ Returned(x)
  BY DEF RecordsOf, Returned, Recording
<1>5. Max(S) \in S
  <2> HIDE DEF S
  <2> QED
    BY <1>1, <1>2, MaxOf
<1> HIDE DEF S
<1> QED
  BY <1>2, <1>3, <1>4, <1>5

\* The stamp of the event's slot, which cuEventQuery asks about.
StampOf(e) == Max({0} \cup {slots[i].record : i \in SlotsOf(e)})

LEMMA SlotStamp ==
    ASSUME Types, TableInv, NEW e \in Events
    PROVE  /\ StampOf(e) \in 0 .. stamps
           /\ \A u \in Threads : call[u].pc = "invalidate" => StampOf(e) # call[u].stamp
<1> DEFINE n == StampOf(e)
<1> DEFINE S == {0} \cup {slots[i].record : i \in SlotsOf(e)}
<1>1. stamps \in Nat /\ \A i \in 1 .. Slots : slots[i].record \in 0 .. stamps
  BY SMT DEF Types, TableInv
<1>2. S \in SUBSET Nat /\ S # {} /\ \A x \in S : x <= stamps
  BY SMT, <1>1 DEF SlotsOf
<1>3. n \in S
  <2> HIDE DEF S
  <2>1. Max(S) \in S
    BY <1>1, <1>2, MaxOf
  <2> QED
    BY <2>1 DEF S, StampOf
<1>4. CASE n = 0
  <2>1. \A u \in Threads : call[u].pc = "invalidate" => call[u].stamp \in 1 .. stamps
    BY DEF TableInv
  <2>2. 0 \in 0 .. stamps /\ 0 \notin 1 .. stamps
    BY SMT, <1>1
  <2> QED
    BY <1>4, <2>1, <2>2
<1>5. CASE n # 0
  <2>1. PICK i \in 1 .. Slots : n = slots[i].record
    BY <1>3, <1>5 DEF SlotsOf
  <2> QED
    BY <1>1, <2>1 DEF TableInv
<1> QED
  BY <1>4, <1>5

LEMMA CacheEventQuery ==
    ASSUME Types, CacheInv, UNCHANGED load, NEW t \in Threads, NEW e \in Events,
           EventQuery(t, e)
    PROVE  Types' /\ CacheInv'
<1>1. PICK n : n = StampOf(e)
  OBVIOUS
<1>2. /\ n \in Nat /\ n <= stamps
      /\ \A u \in Threads : call[u].pc = "invalidate" => n # call[u].stamp
  <2>1. stamps \in Nat /\ TableInv
    BY DEF Types, CacheInv
  <2> QED
    BY SMT, <1>1, <2>1, SlotStamp
<1>3. PICK a \in 0 .. Len(log) : a = LastReturned(e) /\ (a # 0 => a \in RecordsOf(e) /\ Returned(a))
  BY LastReturnedFacts
<1>4. a \in Nat /\ a <= Len(log)
  BY SMT, LogTypes
<1>5. PICK c : c = [Idle EXCEPT !.pc = IF QueryNeeded(e) THEN "collect" ELSE "success",
                    !.event = e, !.asked = a, !.needs = EventOwes(e), !.stamp = n]
  OBVIOUS
<1>6. call[t].pc = "idle" /\ call' = [call EXCEPT ![t] = c]
  BY <1>1, <1>3, <1>5 DEF EventQuery, Start, StampOf
<1>7. /\ c \in Calls /\ c.pc \in {"collect", "success"} /\ (c.pc = "success" <=> ~ QueryNeeded(e))
      /\ c.event = e /\ c.asked = a /\ c.stamp = n /\ c.batch = {}
  <2>1. c \in Calls
    BY <1>2, <1>4, <1>5, OwesTypes DEF Calls, Places
  <2> QED
    BY <1>5, <2>1 DEF Idle
<1>8. call'[t] = c /\ \A u \in Threads : u # t => call'[u] = call[u]
  BY <1>6, <1>7, CallKept
<1>9. UNCHANGED <<log, executed, finished, born, stamps, slots, pending>>
  BY DEF EventQuery, driver, server, table
<1>10. RecordOK(t)' /\ WatchOK(t)'
  BY <1>7, <1>8 DEF RecordOK, Recording, WatchOK, Answered
<1>11. SeenOK(t)'
  <2>1. Seen(call[t])' = {[event |-> e, record |-> n]}
    BY <1>7, <1>8 DEF Seen
  <2> QED
    BY SMT, <1>2, <1>7, <1>8, <1>9, <2>1 DEF SeenOK
<1>12. AskedOK(t)'
  <2>1. ASSUME c.pc = "success", a # 0
        PROVE  \E r \in finished : r >= a /\ log[r].event = log[a].event
    <3>1. PICK i \in 1 .. Slots : slots[i].event = e /\ slots[i].complete
      BY <1>7, <2>1 DEF QueryNeeded, SlotsOf
    <3>2. Truth(e) /\ log[a].event = e
      BY <1>3, <2>1, <3>1 DEF CacheInv, TableInv, RecordsOf
    <3> QED
      BY <1>3, <2>1, <3>2 DEF Truth
  <2>2. (AskedDone(call[t])' /\ call'[t].asked <= Len(log')) \/ c.pc # "success"
    BY <1>4, <1>7, <1>8, <1>9, <2>1 DEF AskedDone
  <2>3. a # 0 => a \in RecordsOf(e)'
    BY <1>3, <1>9 DEF RecordsOf
  <2> QED
    BY <1>7, <1>8, <2>2, <2>3 DEF AskedOK, Asking, Answered
<1>13. ThreadOK(t)'
  BY <1>10, <1>11, <1>12 DEF ThreadOK
<1>14. pending' \in [AllStreams -> SUBSET (1..executed)]
  BY <1>9 DEF Types
<1> QED
  BY <1>6, <1>7, <1>13, <1>14, CallStep DEF EventQuery, Recording

LEMMA CacheCollectBatch ==
    ASSUME Types, CacheInv, UNCHANGED load, NEW t \in Threads, CollectBatch(t)
    PROVE  Types' /\ CacheInv'
<1>1. PICK B : B = {[event |-> slots[i].event, record |-> slots[i].record] :
                         i \in {j \in 1..Slots : ~slots[j].complete /\
                                  slots[j].event \notin {None, call[t].event}}}
  OBVIOUS
<1>2. \A p \in B : \E j \in 1 .. Slots : p = [event |-> slots[j].event, record |-> slots[j].record]
                                          /\ slots[j].event # None
  BY <1>1
<1>3. B \in SUBSET [event : Events, record : Nat]
  BY SMTT(30), <1>2 DEF Types
<1>4. PICK c : c = [call[t] EXCEPT !.pc = "ask", !.fence = Len(log), !.batch = B]
  OBVIOUS
<1>5. call[t].pc = "collect" /\ call' = [call EXCEPT ![t] = c]
  BY <1>1, <1>4 DEF CollectBatch
<1>6. /\ c \in Calls /\ c.pc = "ask" /\ c.fence = Len(log) /\ c.batch = B
      /\ c.event = call[t].event /\ c.stamp = call[t].stamp /\ c.asked = call[t].asked
  <2>1. call[t] \in Calls /\ Len(log) \in Nat
    BY LogTypes DEF Types
  <2> QED
    BY <1>3, <1>4, <2>1 DEF Calls, Places
<1>7. call'[t] = c /\ \A u \in Threads : u # t => call'[u] = call[u]
  BY <1>5, <1>6, CallKept
<1>8. UNCHANGED <<log, executed, finished, born, stamps, slots, pending>>
  BY DEF CollectBatch, driver, server, table
<1>9. RecordOK(t)'
  BY <1>6, <1>7 DEF RecordOK, Recording
<1>10. SeenOK(t)'
  <2>1. ASSUME NEW p \in Seen(c)
        PROVE  /\ p.record <= stamps
               /\ \A u \in Threads : call[u].pc = "invalidate" => p.record # call[u].stamp
    <3>1. CASE p \in B
      BY SMT, <1>2, <3>1 DEF CacheInv, TableInv
    <3>2. CASE p \notin B
      <4>1. p \in Seen(call[t])
        BY <1>6, <3>2 DEF Seen
      <4> QED
        BY <1>5, <4>1 DEF CacheInv, ThreadOK, SeenOK, Asking
    <3> QED
      BY <3>1, <3>2
  <2>2. Seen(call[t])' = Seen(c)
    BY <1>7 DEF Seen
  <2>3. \A u \in Threads : call'[u].pc = "invalidate" => call'[u] = call[u]
    BY <1>6, <1>7
  <2>4. \A p \in Seen(c) : p.record <= stamps' /\
           \A u \in Threads : call'[u].pc = "invalidate" => p.record # call'[u].stamp
    BY <1>8, <2>1, <2>3
  <2> QED
    BY <2>2, <2>4 DEF SeenOK
<1>11. WatchOK(t)'
  <2>1. \A x : ReturnedBy(x, Len(log))'
    BY SMT, <1>8, LogTypes DEF ReturnedBy, RecordsOf
  <2> QED
    BY <1>6, <1>7, <1>8, <2>1 DEF WatchOK, Answered
<1>12. AskedOK(t)'
  <2>1. /\ call[t].event \in Events
        /\ call[t].asked # 0 => call[t].asked \in RecordsOf(call[t].event)
    BY <1>5 DEF CacheInv, ThreadOK, AskedOK, Asking
  <2>2. call[t].asked <= Len(log)
    BY SMT, <2>1, LogTypes DEF RecordsOf
  <2>3. RecordsOf(call[t].event)' = RecordsOf(call[t].event)
    BY <1>6, <1>7, <1>8 DEF RecordsOf
  <2> QED
    BY <1>6, <1>7, <2>1, <2>2, <2>3 DEF AskedOK, Asking, Answered
<1>13. ThreadOK(t)'
  BY <1>9, <1>10, <1>11, <1>12 DEF ThreadOK
<1>14. pending' \in [AllStreams -> SUBSET (1..executed)]
  BY <1>8 DEF Types
<1> QED
  BY <1>5, <1>6, <1>13, <1>14, CallStep DEF CollectBatch, Recording

\* The driver reports an event done: each of its executed records, or a later
\* one, is complete.
LEMMA DoneTells ==
    ASSUME Types, NEW e \in Events, EventDone(e), NEW i \in RecordsOf(e), i <= executed
    PROVE  \E r \in finished : r >= i /\ log[r].event = e
<1>0. executed \in 0 .. Len(log)
  BY DEF Types
<1>1. PICK r \in 0 .. executed : r = LastRecord(e, executed)
  BY <1>0, LastRecordFacts
<1>2. /\ r # 0 => log[r].event = e
      /\ \A j \in (born[e] + 1) .. executed : log[j].event = e => j <= r
  BY <1>0, <1>1, LastRecordFacts
<1>3. i \in (born[e] + 1) .. executed /\ log[i].event = e /\ born[e] \in Nat /\ executed \in Nat
  BY SMT, LogTypes DEF RecordsOf
<1>4. i <= r /\ r # 0
  BY SMT, <1>2, <1>3
<1>5. r \in finished
  BY <1>1, <1>4 DEF EventDone
<1> QED
  BY <1>2, <1>3, <1>4, <1>5

LEMMA CacheAskDriver ==
    ASSUME Types, CacheInv, UNCHANGED load, NEW t \in Threads, AskDriver(t)
    PROVE  Types' /\ CacheInv'
<1>1. PICK R : R = {e \in {call[t].event} \cup {b.event : b \in call[t].batch} : EventDone(e)}
  OBVIOUS
<1>2. call[t] \in Calls /\ Len(log) \in Nat /\ executed \in Nat /\ call[t].fence \in Nat
  BY LogTypes DEF Types, Calls
<1>3. call[t].pc = "ask" /\ call[t].event \in Events /\ ThreadOK(t)
  BY DEF AskDriver, CacheInv, ThreadOK, AskedOK, Asking
<1>4. R \in SUBSET Events /\ \A e \in R : EventDone(e)
  BY <1>1, <1>2, <1>3 DEF Calls
<1>5. PICK c : c = [call[t] EXCEPT !.pc = "answer", !.ready = R]
  OBVIOUS
<1>6. call' = [call EXCEPT ![t] = c]
  BY <1>1, <1>5 DEF AskDriver
<1>7. /\ c \in Calls /\ c.pc = "answer" /\ c.batch = call[t].batch /\ c.ready = R
      /\ c.event = call[t].event /\ c.stamp = call[t].stamp /\ c.asked = call[t].asked
  BY <1>2, <1>4, <1>5 DEF Calls, Places
<1>8. call'[t] = c /\ \A u \in Threads : u # t => call'[u] = call[u]
  BY <1>6, <1>7, CallKept
<1>9. /\ UNCHANGED <<log, executed, finished, born, stamps, slots, pending>>
      /\ executed >= call[t].fence
  BY DEF AskDriver, driver, server, table
<1>10. Seen(call[t])' = Seen(call[t])
  BY <1>7, <1>8 DEF Seen
<1>11. RecordOK(t)' /\ SeenOK(t)'
  <2>1. \A u \in Threads : call'[u].pc = "invalidate" => call'[u] = call[u]
    BY <1>7, <1>8
  <2>2. RecordOK(t)'
    BY <1>7, <1>8 DEF RecordOK, Recording
  <2>3. SeenOK(t)'
    BY <1>3, <1>9, <1>10, <2>1 DEF ThreadOK, SeenOK, Asking
  <2> QED
    BY <2>2, <2>3
<1>12. WatchOK(t)'
  <2>1. ASSUME NEW i \in 1 .. Slots, Watches(call[t], slots[i])', slots[i].event \in R
        PROVE  Truth(slots[i].event)'
    <3>1. PICK e : e = slots[i].event
      OBVIOUS
    <3>2. Watches(call[t], slots[i])
      BY <1>9, <1>10, <2>1 DEF Watches
    <3>3. ReturnedBy(e, call[t].fence) /\ e \in Events /\ EventDone(e)
      BY <1>3, <1>4, <2>1, <3>1, <3>2 DEF ThreadOK, WatchOK
    <3>4. ASSUME NEW j \in RecordsOf(e), Returned(j)
          PROVE  \E r \in finished : r >= j /\ log[r].event = e
      <4>1. j <= executed
        BY SMT, <1>2, <1>9, <3>3, <3>4 DEF ReturnedBy, RecordsOf
      <4> QED
        BY <3>3, <4>1, DoneTells
    <3>5. \A j : Returned(j)' => Returned(j)
      BY <1>3, <1>8 DEF Returned, Recording
    <3>6. Truth(e)'
      BY <1>9, <3>4, <3>5 DEF Truth, RecordsOf
    <3> QED
      BY <1>9, <3>1, <3>6 DEF Truth, RecordsOf
  <2> QED
    BY <1>7, <1>8, <1>9, <2>1 DEF WatchOK
<1>13. AskedOK(t)'
  <2>1. call[t].asked # 0 => call[t].asked \in RecordsOf(call[t].event) /\ call[t].asked <= call[t].fence
    BY <1>3 DEF ThreadOK, AskedOK, Asking
  <2>2. RecordsOf(call[t].event)' = RecordsOf(call[t].event)
    BY <1>7, <1>8, <1>9 DEF RecordsOf
  <2>3. ASSUME call[t].event \in R PROVE AskedDone(call[t])'
    <3>1. ASSUME call[t].asked # 0
          PROVE  \E r \in finished : r >= call[t].asked /\ log[r].event = log[call[t].asked].event
      <4>1. call[t].asked \in RecordsOf(call[t].event) /\ call[t].asked <= executed
        BY SMT, <1>2, <1>9, <2>1, <3>1 DEF RecordsOf
      <4>2. \E r \in finished : r >= call[t].asked /\ log[r].event = call[t].event
        BY <1>3, <1>4, <2>3, <4>1, DoneTells
      <4> QED
        BY <4>1, <4>2 DEF RecordsOf
    <3> QED
      BY <1>7, <1>8, <1>9, <3>1 DEF AskedDone
  <2> QED
    BY <1>3, <1>7, <1>8, <2>1, <2>2, <2>3 DEF AskedOK, Asking, Answered
<1>14. ThreadOK(t)'
  BY <1>11, <1>12, <1>13 DEF ThreadOK
<1>15. pending' \in [AllStreams -> SUBSET (1..executed)]
  BY <1>9 DEF Types
<1> QED
  BY <1>3, <1>6, <1>7, <1>14, <1>15, CallStep DEF AskDriver, Recording

\* The answer on its way to the table; fewer events may be left in it.
LEMMA AnswerStep ==
    ASSUME Types, CacheInv, UNCHANGED <<load, driver, table>>,
           pending' \in [AllStreams -> SUBSET (1..executed)],
           NEW t \in Threads, NEW c \in Calls, call' = [call EXCEPT ![t] = c],
           call[t].pc \in Answered, c.pc \in Answered, c.batch = call[t].batch,
           c.event = call[t].event, c.stamp = call[t].stamp, c.asked = call[t].asked,
           c.ready \subseteq call[t].ready
    PROVE  Types' /\ CacheInv'
<1> USE DEF driver, table
<1>1. call'[t] = c /\ ThreadOK(t) /\ \A u \in Threads : u # t => call'[u] = call[u]
  BY CallKept DEF CacheInv
<1>2. RecordOK(t)'
  BY <1>1 DEF RecordOK, Recording, Answered
<1>3. Seen(call[t])' = Seen(call[t])
  BY <1>1 DEF Seen
<1>4. \A u \in Threads : call'[u].pc \in Recording => call'[u] = call[u]
  BY <1>1 DEF Recording, Answered
<1>5. \A i : Returned(i)' => Returned(i)
  BY <1>1 DEF Returned, Recording, Answered
<1>6. SeenOK(t)'
  BY SMT, <1>1, <1>3, <1>4 DEF ThreadOK, SeenOK, Asking, Recording
<1>7. WatchOK(t)'
  <2>1. ASSUME NEW i \in 1 .. Slots, Watches(call[t], slots[i])', slots[i].event \in c.ready
        PROVE  Truth(slots[i].event)'
    <3>1. Watches(call[t], slots[i])
      BY <1>3, <2>1 DEF Watches
    <3>2. PICK e : e = slots[i].event /\ Truth(e)
      BY <1>1, <2>1, <3>1 DEF ThreadOK, WatchOK
    <3>3. Truth(e)'
      BY <1>5, <3>2 DEF Truth, RecordsOf
    <3> QED
      BY <3>2, <3>3 DEF Truth, RecordsOf
  <2> QED
    BY <1>1, <2>1 DEF WatchOK, Answered
<1>8. AskedOK(t)'
  <2>1. AskedDone(call[t])' <=> AskedDone(call[t])
    BY <1>1 DEF AskedDone
  <2>2. RecordsOf(call[t].event)' = RecordsOf(call[t].event)
    BY <1>1 DEF RecordsOf
  <2> QED
    BY <1>1, <2>1, <2>2 DEF ThreadOK, AskedOK, Asking, Answered
<1>9. ThreadOK(t)'
  BY <1>2, <1>6, <1>7, <1>8 DEF ThreadOK
<1> QED
  BY <1>9, CallStep DEF Answered, Recording

LEMMA CacheRespondQuery ==
    ASSUME Types, CacheInv, UNCHANGED load, NEW t \in Threads, RespondQuery(t)
    PROVE  Types' /\ CacheInv'
<1>1. PICK G : G = IF call[t].event \in call[t].ready THEN Collected(call[t]) ELSE {}
  OBVIOUS
<1>2. PICK R : R = {f \in call[t].ready : f = call[t].event \/ ~OwesCopies(f)}
  OBVIOUS
<1>3. PICK c : c = [call[t] EXCEPT !.pc = "landquery", !.got = G, !.ready = R]
  OBVIOUS
<1>4. call[t] \in Calls /\ call[t].pc = "answer"
  BY DEF Types, RespondQuery
<1>5. R \subseteq call[t].ready /\ R \in SUBSET Events /\ G \in SUBSET Nat
  BY <1>1, <1>2, <1>4, OwesTypes DEF Calls
<1>6. /\ c \in Calls /\ c.pc = "landquery" /\ c.ready = R /\ c.asked = call[t].asked
      /\ c.event = call[t].event /\ c.batch = call[t].batch /\ c.stamp = call[t].stamp
  BY <1>3, <1>4, <1>5 DEF Calls, Places
<1>7. call' = [call EXCEPT ![t] = c]
  BY <1>1, <1>2, <1>3 DEF RespondQuery
<1>8. pending' \in [AllStreams -> SUBSET (1..executed)]
  BY DetachTypes DEF RespondQuery, server, Types
<1> QED
  BY <1>4, <1>5, <1>6, <1>7, <1>8, AnswerStep DEF RespondQuery, Answered

\* The call succeeds after an answer that was about the record it asked about.
LEMMA SucceedStep ==
    ASSUME Types, CacheInv, NEW t \in Threads, Succeed(t), AskedDone(call[t]),
           call[t].asked <= Len(log), UNCHANGED <<log, finished>>
    PROVE  \E c \in Calls : /\ call' = [call EXCEPT ![t] = c] /\ c.pc = "success"
                            /\ ThreadOK(t)'
<1>1. PICK c : c = [Idle EXCEPT !.pc = "success", !.needs = call[t].needs, !.asked = call[t].asked]
  OBVIOUS
<1>2. c \in Calls
  <2>1. call[t] \in Calls
    BY DEF Types
  <2> QED
    BY <1>1, <2>1, OwesTypes DEF Calls, Places
<1>3. c.pc = "success" /\ c.asked = call[t].asked
  BY <1>1 DEF Idle
<1>4. call' = [call EXCEPT ![t] = c]
  BY <1>1 DEF Succeed
<1>5. call'[t] = c
  BY <1>2, <1>4, CallKept
<1>6. AskedDone(call[t])' /\ call'[t].asked <= Len(log')
  BY <1>3, <1>5 DEF AskedDone
<1>7. ThreadOK(t)'
  BY <1>3, <1>5, <1>6
     DEF ThreadOK, RecordOK, SeenOK, WatchOK, AskedOK, Recording, Asking, Answered
<1> QED
  BY <1>2, <1>3, <1>4, <1>7

LEMMA CacheLand ==
    ASSUME Types, CacheInv, UNCHANGED load, NEW t \in Threads, Land(t)
    PROVE  Types' /\ CacheInv'
<1>1. call[t] \in Calls /\ call[t].pc \in {"land", "landquery"} /\ Len(log) \in Nat
  BY LogTypes DEF Types, Land
<1>2. UNCHANGED <<log, finished>> /\ pending' \in [AllStreams -> SUBSET (1..executed)]
  BY DEF Land, driver, server, Types
<1>3. CASE call[t].pc = "land"
  <2>1. call[t].asked = 0
    BY <1>3 DEF CacheInv, ThreadOK, AskedOK
  <2>2. AskedDone(call[t]) /\ call[t].asked <= Len(log) /\ Succeed(t)
    BY SMT, <1>1, <1>3, <2>1 DEF AskedDone, Land
  <2>3. PICK c \in Calls : call' = [call EXCEPT ![t] = c] /\ c.pc = "success" /\ ThreadOK(t)'
    BY <1>2, <2>2, SucceedStep
  <2> QED
    BY <1>2, <1>3, <2>3, CallStep DEF Land, Recording
<1>4. CASE call[t].pc = "landquery"
  <2>1. PICK c : c = [call[t] EXCEPT !.pc = "cache"]
    OBVIOUS
  <2>2. /\ c \in Calls /\ c.pc = "cache" /\ c.asked = call[t].asked /\ c.ready = call[t].ready
        /\ c.event = call[t].event /\ c.batch = call[t].batch /\ c.stamp = call[t].stamp
    BY <1>1, <2>1 DEF Calls, Places
  <2>3. call' = [call EXCEPT ![t] = c]
    BY <1>4, <2>1 DEF Land, Goto
  <2> QED
    BY <1>2, <1>4, <2>2, <2>3, AnswerStep DEF Land, Answered
<1> QED
  BY <1>1, <1>3, <1>4

LEMMA CacheCompletionsStep ==
    ASSUME Types, CacheInv, UNCHANGED load, NEW t \in Threads, CacheCompletions(t)
    PROVE  Types' /\ CacheInv'
<1>1. /\ slots' = [i \in 1 .. Slots |->
          IF Cacheable(call[t], slots[i]) THEN [slots[i] EXCEPT !.complete = TRUE] ELSE slots[i]]
      /\ UNCHANGED <<log, executed, finished, born, pending, stamps>> /\ call[t].pc = "cache"
  BY DEF CacheCompletions, driver, server
<1>2. /\ slots' \in [1..Slots -> [event : Events \cup {None}, record : Nat, complete : BOOLEAN]]
      /\ \A i \in 1 .. Slots : slots'[i].event = slots[i].event
  BY <1>1 DEF Types
<1>3. PICK c \in Calls : /\ call' = [call EXCEPT ![t] = c] /\ c.pc # "invalidate"
                         /\ ThreadOK(t)'
  <2>1. CASE call[t].event \in call[t].ready
    <3>1. /\ call[t].asked # 0 => call[t].asked \in RecordsOf(call[t].event)
          /\ AskedDone(call[t])
      BY <1>1, <2>1 DEF CacheInv, ThreadOK, AskedOK, Asking, Answered
    <3>2. call[t].asked <= Len(log)
      BY SMT, <3>1, LogTypes DEF RecordsOf
    <3>3. Succeed(t)
      BY <2>1 DEF CacheCompletions
    <3>4. PICK c \in Calls : call' = [call EXCEPT ![t] = c] /\ c.pc = "success" /\ ThreadOK(t)'
      BY <1>1, <3>1, <3>2, <3>3, SucceedStep
    <3> QED
      BY <3>4
  <2>2. CASE call[t].event \notin call[t].ready
    <3>1. call' = [call EXCEPT ![t] = Idle] /\ Idle \in Calls /\ Idle.pc = "idle"
      BY <2>2, OwesTypes DEF CacheCompletions, Done
    <3>2. call'[t] = Idle
      BY <3>1, CallKept
    <3>3. ThreadOK(t)'
      BY <3>1, <3>2, ThreadTrivial
    <3> QED
      BY <3>1, <3>3
  <2> QED
    BY <2>1, <2>2
<1>4. /\ call'[t] = c /\ call' \in [Threads -> Calls]
      /\ \A u \in Threads : u # t => call'[u] = call[u]
  BY <1>3, CallKept
<1>5. Types'
  BY <1>1, <1>2, <1>4 DEF Types
<1>6. CacheInv'
  BY <1>1, <1>3, <1>4, <1>5, CacheCompleted
<1> QED
  BY <1>5, <1>6

-----------------------------------------------------------------------------
(* Records, events and the device *)

LEMMA CachePublish ==
    ASSUME Types, CacheInv, UNCHANGED <<load, executed, finished, born, pending, table>>,
           NEW t \in Threads, call[t].pc = "idle",
           NEW c \in Calls, call' = [call EXCEPT ![t] = c],
           NEW x \in Entries, log' = Append(log, x),
           \/ c.pc = "count" /\ x.event = None
           \/ c.pc = "stamp" /\ x.event \in Events /\ c.event = x.event /\ c.index = Len(log) + 1
    PROVE  Types' /\ CacheInv'
<1> USE DEF table
<1>1. /\ call'[t] = c /\ call' \in [Threads -> Calls]
      /\ \A u \in Threads : u # t => call'[u] = call[u]
  BY CallKept
<1>2. LogGrows /\ Len(log') = Len(log) + 1 /\ log'[Len(log) + 1] = x /\ log' \in Seq(Entries)
  BY Appended
<1>3. Len(log) \in Nat /\ executed \in 0 .. Len(log)
  BY SMT, LogTypes
<1>4. Types'
  <2>1. executed' \in 0 .. Len(log') /\ born' \in [Events -> 0 .. Len(log')]
    BY SMT, <1>2, <1>3 DEF Types
  <2> QED
    BY <1>1, <1>2, <2>1 DEF Types, Entries
<1>5. ThreadOK(t)'
  <2>1. CASE c.pc = "count"
    BY <1>1, <2>1, ThreadTrivial
  <2>2. CASE c.pc = "stamp"
    <3>1. RecordOK(t)'
      BY SMT, <1>1, <1>2, <1>3, <2>2 DEF RecordOK
    <3>2. SeenOK(t)' /\ WatchOK(t)' /\ AskedOK(t)'
      BY <1>1, <2>2 DEF SeenOK, WatchOK, AskedOK, Asking, Answered
    <3> QED
      BY <3>1, <3>2 DEF ThreadOK
  <2> QED
    BY <2>1, <2>2
<1>6. ASSUME NEW i \in (Len(log) + 1) .. Len(log'), log'[i].event # None
      PROVE  call'[t].pc \in Recording /\ call'[t].index = i
  <2>1. i = Len(log) + 1
    BY SMT, <1>2, <1>3
  <2> QED
    BY <1>1, <1>2, <1>6, <2>1 DEF Recording
<1>7. CacheInv'
  BY <1>1, <1>2, <1>4, <1>5, <1>6, CacheQuiet DEF Recording
<1> QED
  BY <1>4, <1>7

LEMMA CacheCopyAsync ==
    ASSUME Types, CacheInv, UNCHANGED load, NEW t \in Threads, NEW s \in AllStreams,
           CopyAsync(t, s)
    PROVE  Types' /\ CacheInv'
<1>1. PICK x \in Entries : x = [stream |-> s, event |-> None]
  BY DEF Entries
<1>2. PICK c \in Calls : c = [Idle EXCEPT !.pc = "count"]
  BY OwesTypes DEF Calls, Places
<1>3. c.pc = "count" /\ x.event = None
  BY <1>1, <1>2 DEF Idle
<1>4. call[t].pc = "idle" /\ call' = [call EXCEPT ![t] = c] /\ log' = Append(log, x)
  BY <1>1, <1>2 DEF CopyAsync, Start
<1> QED
  BY <1>3, <1>4, CachePublish DEF CopyAsync, server

LEMMA CacheEventRecord ==
    ASSUME Types, CacheInv, UNCHANGED load, NEW t \in Threads, NEW s \in AllStreams,
           NEW e \in Events, EventRecord(t, e, s)
    PROVE  Types' /\ CacheInv'
<1>1. PICK x \in Entries : x = [stream |-> s, event |-> e]
  BY DEF Entries
<1>2. PICK c : c = [Idle EXCEPT !.pc = "stamp", !.event = e, !.index = Len(log) + 1]
  OBVIOUS
<1>3. c \in Calls
  <2>1. Idle \in Calls /\ Len(log) + 1 \in Nat
    BY SMT, OwesTypes
  <2> QED
    BY <1>2, <2>1 DEF Calls, Places
<1>4. c.pc = "stamp" /\ c.event = e /\ c.index = Len(log) + 1 /\ x.event = e
  BY <1>1, <1>2 DEF Idle
<1>5. call[t].pc = "idle" /\ call' = [call EXCEPT ![t] = c] /\ log' = Append(log, x)
  BY <1>1, <1>2 DEF EventRecord, Start
<1> QED
  BY <1>3, <1>4, <1>5, CachePublish DEF EventRecord, server

LEMMA CacheDrawStampStep ==
    ASSUME Types, CacheInv, UNCHANGED load, NEW t \in Threads, DrawStamp(t)
    PROVE  Types' /\ CacheInv'
<1>1. call[t] \in Calls /\ stamps \in Nat
  BY DEF Types
<1>2. PICK n \in Nat : n = stamps + 1
  BY SMT, <1>1
<1>3. PICK c : c = [call[t] EXCEPT !.pc = "invalidate", !.stamp = n]
  OBVIOUS
<1>4. c \in Calls
  BY <1>1, <1>3 DEF Calls, Places
<1>5. call' = [call EXCEPT ![t] = c]
  BY <1>2, <1>3 DEF DrawStamp
<1>6. call' \in [Threads -> Calls]
  BY <1>4, <1>5, CallKept
<1>7. Types'
  BY <1>2, <1>6 DEF Types, DrawStamp, driver, server
<1> QED
  BY <1>7, CacheDrawStamp

LEMMA CacheInvalidateStep ==
    ASSUME Types, CacheInv, UNCHANGED load, NEW t \in Threads, Invalidate(t)
    PROVE  Types' /\ CacheInv'
<1>1. /\ call' \in [Threads -> Calls] /\ call[t].pc = "invalidate"
      /\ UNCHANGED <<log, executed, finished, born, pending, stamps>>
  BY OwesTypes DEF Invalidate, Done, Types, driver, server
<1>2. PICK e \in Events : e = call[t].event
  BY <1>1 DEF CacheInv, ThreadOK, RecordOK, Recording
<1>3. PICK k \in 1 .. Slots : k = SlotFor(e) /\ \A i \in 1 .. Slots : slots[i].event = e => i = k
  BY SlotForFacts
<1>4. PICK n \in Nat : n = call[t].stamp
  BY DEF Types, Calls
<1>5. slots' = [slots EXCEPT ![k] = [event |-> e, record |-> n, complete |-> FALSE]]
  BY <1>2, <1>3, <1>4 DEF Invalidate
<1>6. /\ slots \in [1..Slots -> [event : Events \cup {None}, record : Nat, complete : BOOLEAN]]
      /\ \A i, j \in 1..Slots : slots[i].event = slots[j].event => i = j \/ slots[i].event = None
  BY DEF Types
<1>7. slots' \in [1..Slots -> [event : Events \cup {None}, record : Nat, complete : BOOLEAN]]
  BY <1>5, <1>6
<1>8. \A i \in 1 .. Slots : slots'[i].event = IF i = k THEN e ELSE slots[i].event
  BY <1>5, <1>6
<1>9. \A i, j \in 1..Slots : slots'[i].event = slots'[j].event => i = j \/ slots'[i].event = None
  BY <1>3, <1>6, <1>8
<1>10. Types'
  BY <1>1, <1>7, <1>9 DEF Types
<1> QED
  BY <1>10, CacheInvalidate

LEMMA CacheRecreateStep ==
    ASSUME Types, CacheInv, UNCHANGED load, NEW e \in Events, Recreate(e)
    PROVE  Types' /\ CacheInv'
<1>1. /\ UNCHANGED <<log, executed, finished, call, stamps>> /\ Len(log) \in Nat
      /\ born' = [born EXCEPT ![e] = Len(log)]
      /\ pending' = [q \in AllStreams |-> WithoutMarkers(pending[q], e)]
      /\ slots' = [i \in 1..Slots |-> IF slots[i].event = e THEN EmptySlot ELSE slots[i]]
  BY LogTypes DEF Recreate
<1>2. born' \in [Events -> 0 .. Len(log)]
  BY SMT, <1>1 DEF Types
<1>3. pending' \in [AllStreams -> SUBSET (1 .. executed)]
  BY <1>1 DEF Types, WithoutMarkers
<1>4. slots' \in [1..Slots -> [event : Events \cup {None}, record : Nat, complete : BOOLEAN]]
  BY <1>1 DEF Types, EmptySlot
<1>5. \A i \in 1 .. Slots : slots'[i].event = IF slots[i].event = e THEN None ELSE slots[i].event
  BY <1>1 DEF EmptySlot
<1>6. \A i, j \in 1..Slots : slots'[i].event = slots'[j].event => i = j \/ slots'[i].event = None
  BY <1>5 DEF Types
<1>7. Types'
  BY <1>1, <1>2, <1>3, <1>4, <1>6 DEF Types
<1> QED
  BY <1>7, CacheRecreate

LEMMA CacheServer ==
    ASSUME Types, CacheInv, UNCHANGED load, Execute \/ \E i : Complete(i)
    PROVE  Types' /\ CacheInv'
<1>1. UNCHANGED <<log, born, call, stamps, slots>> /\ finished \subseteq finished'
  BY DEF Execute, Complete, table
<1>2. Types'
  <2>1. CASE \E i : Complete(i)
    BY <2>1 DEF Types, Complete, server, table
  <2>2. CASE Execute
    <3>1. executed \in Nat /\ Len(log) \in Nat /\ finished \subseteq 1 .. executed
      BY LogTypes
    <3>2. /\ executed' \in 0 .. Len(log) /\ 1 .. executed \subseteq 1 .. executed'
          /\ executed + 1 \in 1 .. executed'
      BY SMT, <2>2, <3>1 DEF Execute
    <3>3. /\ pending' = [q \in AllStreams |-> pending'[q]]
          /\ \A q \in AllStreams : pending'[q] \subseteq pending[q] \cup {executed + 1}
      BY <2>2 DEF Execute, WithoutMarkers
    <3>4. pending' \in [AllStreams -> SUBSET (1 .. executed')]
      BY <3>2, <3>3, LogTypes
    <3>5. finished' \subseteq 1 .. executed'
      BY <2>2, <3>1, <3>2 DEF Execute
    <3> QED
      BY <1>1, <3>2, <3>4, <3>5 DEF Types
  <2> QED
    BY <2>1, <2>2
<1> QED
  BY <1>1, <1>2, CacheDevice

-----------------------------------------------------------------------------
(* The theorems *)

LEMMA InitCache == Init => Types /\ CacheInv
<1> SUFFICES ASSUME Init PROVE Types /\ CacheInv
  OBVIOUS
<1>1. /\ Len(log) = 0 /\ executed = 0 /\ finished = {} /\ stamps = 0
      /\ log \in Seq([stream : AllStreams, event : Events \cup {None}])
      /\ \A t \in Threads : call[t] = Idle
      /\ \A i \in 1 .. Slots : slots[i] = EmptySlot
  BY SMT DEF Init
<1>2. Idle.pc = "idle" /\ Idle \in Calls
  BY DEF Idle, Calls, Places, AllStreams
<1>3. Types
  <2>1. call \in [Threads -> Calls]
    BY <1>2 DEF Init
  <2>2. executed \in 0..Len(log) /\ finished \subseteq 1..executed /\ born \in [Events -> 0..Len(log)]
    BY SMT, <1>1 DEF Init
  <2>3. slots \in [1..Slots -> [event : Events \cup {None}, record : Nat, complete : BOOLEAN]]
    BY DEF Init, EmptySlot
  <2>4. \A i, j \in 1..Slots : slots[i].event = slots[j].event => i = j \/ slots[i].event = None
    BY SMT, <1>1 DEF EmptySlot
  <2> QED
    BY SMTT(30), <1>1, <2>1, <2>2, <2>3, <2>4 DEF Types, Init
<1>4. TableInv
  BY SMT, <1>1, <1>2 DEF TableInv, DistinctStamps, EmptySlot
<1>5. \A t \in Threads : ThreadOK(t)
  BY <1>1, <1>2 DEF ThreadOK, RecordOK, SeenOK, WatchOK, AskedOK, Recording, Asking, Answered
<1> QED
  BY <1>3, <1>4, <1>5 DEF CacheInv

LEMMA NextCache ==
    ASSUME Types, CacheInv, [Next]_vars
    PROVE  Types' /\ CacheInv'
<1>1. CASE UNCHANGED vars
  <2>1. UNCHANGED <<load, log, executed, finished, born, pending, call, stamps, slots>>
    BY <1>1 DEF vars, driver, server, table
  <2>2. Types'
    BY <2>1 DEF Types
  <2> QED
    BY <2>1, <2>2, CacheDevice
<1>2. CASE Next
  <2>1. UNCHANGED load
    BY <1>2 DEF Next
  <2>2. ASSUME NEW t \in load.threads, Thread(t) PROVE Types' /\ CacheInv'
    <3>1. t \in Threads
      BY LoadTypes
    <3>2. ASSUME NEW s \in load.streams \cup {Null},
                 \/ CopyAsync(t, s) \/ StreamSynchronize(t, s)
                 \/ \E e \in load.events : EventRecord(t, e, s)
          PROVE  Types' /\ CacheInv'
      <4>1. s \in AllStreams /\ load.events \subseteq Events
        BY LoadTypes
      <4> QED
        BY <2>1, <3>1, <3>2, <4>1, CacheCopyAsync, CacheStreamSynchronize, CacheEventRecord
    <3>3. ASSUME NEW e \in load.events, EventQuery(t, e) \/ EventSynchronize(t, e)
          PROVE  Types' /\ CacheInv'
      <4>1. e \in Events
        BY LoadTypes
      <4> QED
        BY <2>1, <3>1, <3>3, <4>1, CacheEventQuery, CacheEventSynchronize
    <3>4. CountCopy(t) \/ Return(t) \/ DrawStamp(t) \/ Invalidate(t) => Types' /\ CacheInv'
      BY <2>1, <3>1, CacheIdle, CacheDrawStampStep, CacheInvalidateStep
    <3>5. CollectBatch(t) \/ Land(t) \/ CacheCompletions(t) => Types' /\ CacheInv'
      BY <2>1, <3>1, CacheCollectBatch, CacheLand, CacheCompletionsStep
    <3> QED
      BY <2>2, <3>2, <3>3, <3>4, <3>5 DEF Thread
  <2>3. ASSUME NEW t \in load.threads, Handler(t) PROVE Types' /\ CacheInv'
    <3>1. t \in Threads
      BY LoadTypes
    <3> QED
      BY <2>1, <2>3, <3>1, CacheDriverReturns, CacheRespondSynchronized, CacheAskDriver,
         CacheRespondQuery DEF Handler
  <2>4. ASSUME NEW e \in Events, Recreate(e) PROVE Types' /\ CacheInv'
    BY <2>1, <2>4, CacheRecreateStep
  <2>5. Execute \/ (\E i \in DOMAIN log : Complete(i)) => Types' /\ CacheInv'
    BY <2>1, CacheServer
  <2> QED
    BY <1>2, <2>2, <2>3, <2>4, <2>5 DEF Next
<1> QED
  BY <1>1, <1>2

\* What the table of completed events, the records under way and the queries
\* under way have to do with each other, in every reachable state.
THEOREM CacheInvariant == Spec => [](Types /\ CacheInv)
<1>1. Types /\ CacheInv /\ [Next]_vars => (Types /\ CacheInv)'
  BY NextCache
<1> QED
  BY <1>1, InitCache, PTL DEF Spec

\* A query that reports success is right about the records that had returned
\* before it, although records and queries of other threads overlap it.
THEOREM QueriesTellTheTruth == Spec => []QueryTruthful
<1>1. CacheInv => QueryTruthful
  BY DEF CacheInv, ThreadOK, AskedOK, AskedDone, QueryTruthful
<1> QED
  BY <1>1, CacheInvariant, PTL

-----------------------------------------------------------------------------
(* What a stream synchronize owes *)

\* With any number of threads, the copies that a stream synchronize owes are in
\* front of its fence; so they have been executed when the driver returns, and are
\* queued no longer when it has detached.
OwedOK(t) ==
    /\ call[t].pc \in {"driver", "detach"} => \A i \in call[t].needs :
          /\ i \in 1 .. Len(log) /\ IsCopy(i) /\ Follows(call[t].stream, log[i].stream)
          /\ i <= call[t].fence
    /\ call[t].pc \in {"detach", "land"} => call[t].needs \subseteq 1 .. executed
    /\ call[t].pc = "land" => \A i \in call[t].needs : i \notin pending[log[i].stream]
OwedInv == \A t \in Threads : call[t].event = None => OwedOK(t)

LEMMA CallAt ==
    ASSUME Types, NEW t \in Threads, NEW c, call' = [call EXCEPT ![t] = c]
    PROVE  call'[t] = c /\ \A u \in Threads : u # t => call'[u] = call[u]
  BY DEF Types

\* Work is only added to the log, and executed work is not queued again.
Onward ==
    /\ LogGrows /\ Len(log') \in Nat /\ executed' \in Nat /\ executed <= executed'
    /\ \A q \in AllStreams : pending'[q] \cap 1 .. executed \subseteq pending[q]

LEMMA OnwardPublish ==
    ASSUME Types, NEW x \in Entries, log' = Append(log, x), UNCHANGED <<executed, pending>>
    PROVE  Onward
<1>1. LogGrows /\ Len(log') = Len(log) + 1
  BY Appended
<1>2. Len(log') \in Nat /\ executed' \in Nat /\ executed <= executed'
  BY SMT, <1>1, LogTypes
<1> QED
  BY <1>1, <1>2 DEF Onward

LEMMA OnwardShrink ==
    ASSUME Types, UNCHANGED <<log, executed>>,
           \A q \in AllStreams : pending'[q] \subseteq pending[q]
    PROVE  Onward
<1>1. LogGrows /\ Len(log') \in Nat /\ executed' \in Nat /\ executed <= executed'
  BY SMT, LogTypes DEF LogGrows
<1> QED
  BY <1>1 DEF Onward

LEMMA OnwardExecute ==
    ASSUME Types, Execute
    PROVE  Onward
<1>0. PICK n \in Nat : n = executed + 1
  BY SMT, LogTypes
<1>1. UNCHANGED log /\ executed' = n
  BY <1>0 DEF Execute
<1>2. LogGrows /\ Len(log') \in Nat /\ executed' \in Nat /\ executed <= executed'
  BY SMT, <1>0, <1>1, LogTypes DEF LogGrows
<1>3. n \notin 1 .. executed
  BY SMT, <1>0, LogTypes
<1>4. \A q \in AllStreams : pending'[q] \subseteq pending[q] \cup {n}
  BY <1>0 DEF Execute, WithoutMarkers
<1> QED
  BY <1>2, <1>3, <1>4 DEF Onward

LEMMA OwedKept ==
    ASSUME Types, Onward, NEW t \in Threads, call'[t] = call[t], OwedOK(t)
    PROVE  OwedOK(t)'
<1>1. \A i \in 1 .. Len(log) : i \in 1 .. Len(log') /\ log'[i] = log[i]
  BY SMTT(30), LogTypes DEF Onward, LogGrows
<1>2. \A i \in 1 .. executed : /\ i \in 1 .. executed' /\ i \in 1 .. Len(log)
                               /\ log'[i] = log[i] /\ log[i].stream \in AllStreams
  BY SMTT(30), <1>1, LogTypes DEF Onward
<1>3. ASSUME call[t].pc \in {"driver", "detach"}, NEW i \in call[t].needs
      PROVE  /\ i \in 1 .. Len(log') /\ IsCopy(i)' /\ Follows(call[t].stream, log'[i].stream)
             /\ i <= call[t].fence
  BY <1>1, <1>3 DEF OwedOK, IsCopy
<1>4. call[t].pc \in {"detach", "land"} => call[t].needs \subseteq 1 .. executed'
  BY <1>2 DEF OwedOK
<1>5. ASSUME call[t].pc = "land", NEW i \in call[t].needs PROVE i \notin pending'[log'[i].stream]
  <2>1. i \in 1 .. executed /\ i \notin pending[log[i].stream]
    BY <1>5 DEF OwedOK
  <2> QED
    BY <1>2, <2>1 DEF Onward
<1> QED
  BY <1>3, <1>4, <1>5 DEF OwedOK

\* A step of thread t: the other calls, and t's unless it is a synchronize.
LEMMA OwedThread ==
    ASSUME Types, OwedInv, Onward, NEW t \in Threads,
           \A u \in Threads : u # t => call'[u] = call[u],
           \/ call'[t].event # None
           \/ call'[t].pc \notin {"driver", "detach", "land"}
           \/ OwedOK(t)'
    PROVE  OwedInv'
<1>1. ASSUME NEW u \in Threads, u # t, call'[u].event = None PROVE OwedOK(u)'
  <2>1. call'[u] = call[u] /\ OwedOK(u)
    BY <1>1 DEF OwedInv
  <2> QED
    BY <2>1, OwedKept
<1>2. call'[t].event = None => OwedOK(t)'
  BY DEF OwedOK
<1> QED
  BY <1>1, <1>2 DEF OwedInv

LEMMA OwedServer ==
    ASSUME Types, OwedInv, Onward, UNCHANGED call
    PROVE  OwedInv'
  BY OwedKept DEF OwedInv

LEMMA OwedStreamSynchronize ==
    ASSUME Types, OwedInv, NEW t \in Threads, NEW s, StreamSynchronize(t, s)
    PROVE  OwedInv'
<1>1. PICK c : c = [Idle EXCEPT !.pc = "driver", !.stream = s, !.fence = Len(log),
                                !.needs = StreamOwes(s)]
  OBVIOUS
<1>2. c.pc = "driver" /\ c.stream = s /\ c.fence = Len(log) /\ c.needs = StreamOwes(s)
  BY <1>1 DEF Idle
<1>3. call'[t] = c /\ \A u \in Threads : u # t => call'[u] = call[u]
  BY <1>1, CallAt DEF StreamSynchronize, Start
<1>4. UNCHANGED <<log, executed, pending>>
  BY DEF StreamSynchronize, driver, server
<1>5. Onward
  BY <1>4, OnwardShrink
<1>6. ASSUME NEW i \in StreamOwes(s)
      PROVE  /\ i \in 1 .. Len(log) /\ IsCopy(i) /\ Follows(s, log[i].stream)
             /\ i <= Len(log)
  <2>1. i \in 1 .. Len(log) /\ IsCopy(i) /\ Follows(s, log[i].stream)
    BY LogTypes DEF StreamOwes, Issued
  <2> QED
    BY SMT, <2>1, LogTypes
<1>7. OwedOK(t)'
  BY <1>2, <1>3, <1>4, <1>6 DEF OwedOK, IsCopy
<1> QED
  BY <1>3, <1>5, <1>7, OwedThread

LEMMA OwedDriverReturns ==
    ASSUME Types, OwedInv, NEW t \in Threads, DriverReturns(t)
    PROVE  OwedInv'
<1>1. PICK c : c = [call[t] EXCEPT !.pc = "detach"]
  OBVIOUS
<1>2. call[t] \in Calls /\ call[t].pc = "driver" /\ executed >= call[t].fence
  BY DEF Types, DriverReturns
<1>3. /\ c.pc = "detach" /\ c.stream = call[t].stream /\ c.fence = call[t].fence
      /\ c.needs = call[t].needs /\ c.event = call[t].event
  BY <1>1, <1>2 DEF Calls
<1>4. call'[t] = c /\ \A u \in Threads : u # t => call'[u] = call[u]
  BY <1>1, CallAt DEF DriverReturns, Goto
<1>5. UNCHANGED <<log, executed, pending>>
  BY DEF DriverReturns, driver, server
<1>6. Onward
  BY <1>5, OnwardShrink
<1>7. ASSUME call[t].event = None PROVE OwedOK(t)'
  <2>1. \A i \in call[t].needs :
           /\ i \in 1 .. Len(log) /\ IsCopy(i) /\ Follows(call[t].stream, log[i].stream)
           /\ i <= call[t].fence
    BY <1>2, <1>7 DEF OwedInv, OwedOK
  <2>2. call[t].fence \in Nat
    BY <1>2 DEF Calls
  <2>3. call[t].needs \subseteq 1 .. executed
    BY SMTT(30), <1>2, <2>1, <2>2, LogTypes
  <2> QED
    BY <1>3, <1>4, <1>5, <2>1, <2>3 DEF OwedOK, IsCopy
<1> QED
  BY <1>3, <1>4, <1>6, <1>7, OwedThread

LEMMA DetachShrinks ==
    ASSUME NEW c, Detach(c)
    PROVE  \A q \in AllStreams : pending'[q] \subseteq pending[q]
  BY DEF Detach

LEMMA OwedRespondSynchronized ==
    ASSUME Types, OwedInv, NEW t \in Threads, RespondSynchronized(t)
    PROVE  OwedInv'
<1>1. PICK c : c = [call[t] EXCEPT !.pc = "land", !.got = Collected(call[t])]
  OBVIOUS
<1>2. call[t] \in Calls /\ call[t].pc = "detach" /\ Detach(call[t])
  BY DEF Types, RespondSynchronized
<1>3. c.pc = "land" /\ c.needs = call[t].needs /\ c.event = call[t].event
  BY <1>1, <1>2 DEF Calls
<1>4a. call' = [call EXCEPT ![t] = c]
  BY <1>1 DEF RespondSynchronized
<1>4. call'[t] = c /\ \A u \in Threads : u # t => call'[u] = call[u]
  BY <1>4a, CallAt
<1>5. UNCHANGED <<log, executed>>
  BY DEF RespondSynchronized, driver
<1>6. Onward
  BY <1>2, <1>5, DetachShrinks, OnwardShrink
<1>7. ASSUME call[t].event = None PROVE OwedOK(t)'
  <2>1. /\ \A i \in call[t].needs : i \in 1 .. Len(log) /\ Follows(call[t].stream, log[i].stream)
        /\ call[t].needs \subseteq 1 .. executed
    BY <1>2, <1>7 DEF OwedInv, OwedOK
  <2>2. ASSUME NEW i \in call[t].needs PROVE i \notin pending'[log[i].stream]
    <3>1. log[i].stream \in AllStreams /\ Follows(call[t].stream, log[i].stream)
      BY <2>1, LogTypes
    <3>2. i \in pending[log[i].stream] => i \in Collects(call[t], log[i].stream)
      BY <1>7, <3>1 DEF Collects, Follows
    <3> QED
      BY <1>2, <3>1, <3>2 DEF Detach
  <2> QED
    BY <1>3, <1>4, <1>5, <2>1, <2>2 DEF OwedOK
<1> QED
  BY <1>3, <1>4, <1>6, <1>7, OwedThread

LEMMA OwedPublish ==
    ASSUME Types, OwedInv, NEW t \in Threads, NEW s \in load.streams \cup {Null},
           CopyAsync(t, s) \/ \E e \in load.events : EventRecord(t, e, s)
    PROVE  OwedInv'
<1>1. PICK x, c : /\ x \in Entries /\ log' = Append(log, x) /\ call' = [call EXCEPT ![t] = c]
                              /\ c.pc \in {"count", "stamp"}
  <2>1. s \in AllStreams
    BY LoadTypes
  <2>2. ASSUME CopyAsync(t, s)
        PROVE  \E x, c : /\ x \in Entries /\ log' = Append(log, x) /\ call' = [call EXCEPT ![t] = c]
                                     /\ c.pc \in {"count", "stamp"}
    <3>1. [stream |-> s, event |-> None] \in Entries
      BY <2>1 DEF Entries
    <3>2. [Idle EXCEPT !.pc = "count"].pc = "count"
      BY DEF Idle
    <3> QED
      BY <2>2, <3>1, <3>2 DEF CopyAsync, Start
  <2>3. ASSUME NEW e \in load.events, EventRecord(t, e, s)
        PROVE  \E x, c : /\ x \in Entries /\ log' = Append(log, x) /\ call' = [call EXCEPT ![t] = c]
                                     /\ c.pc \in {"count", "stamp"}
    <3>1. [stream |-> s, event |-> e] \in Entries
      BY <2>1, LoadTypes DEF Entries
    <3>2. PICK c : c = [Idle EXCEPT !.pc = "stamp", !.event = e, !.index = Len(log) + 1]
      OBVIOUS
    <3>3. c.pc = "stamp"
      BY <3>2 DEF Idle
    <3> QED
      BY <2>3, <3>1, <3>2, <3>3 DEF EventRecord, Start
  <2> QED
    BY <2>2, <2>3
<1>2. Onward
  BY <1>1, OnwardPublish DEF CopyAsync, EventRecord, server
<1>3. call'[t] = c /\ \A u \in Threads : u # t => call'[u] = call[u]
  BY <1>1, CallAt
<1> QED
  BY <1>1, <1>2, <1>3, OwedThread

\* The steps of a thread that issue nothing and are not those of a stream
\* synchronize.
LEMMA OwedQuiet ==
    ASSUME Types, OwedInv, NEW t \in Threads, NEW c, call' = [call EXCEPT ![t] = c],
           UNCHANGED <<log, executed>>, \A q \in AllStreams : pending'[q] \subseteq pending[q],
           c.event # None \/ c.pc \notin {"driver", "detach", "land"}
    PROVE  OwedInv'
<1>1. Onward
  BY OnwardShrink
<1>2. call'[t] = c /\ \A u \in Threads : u # t => call'[u] = call[u]
  BY CallAt
<1> QED
  BY <1>1, <1>2, OwedThread

LEMMA OwedEvents ==
    ASSUME Types, OwedInv, NEW t \in Threads, NEW e \in load.events,
           EventQuery(t, e) \/ EventSynchronize(t, e)
    PROVE  OwedInv'
<1>1. e # None
  BY LoadTypes, LogTypes
<1>2. PICK c : call' = [call EXCEPT ![t] = c] /\ c.event = e
  <2>1. ASSUME EventQuery(t, e) PROVE \E c : call' = [call EXCEPT ![t] = c] /\ c.event = e
    <3>1. PICK c : c = [Idle EXCEPT !.pc = IF QueryNeeded(e) THEN "collect" ELSE "success",
                    !.event = e, !.asked = LastReturned(e), !.needs = EventOwes(e),
                    !.stamp = Max({0} \cup {slots[i].record : i \in SlotsOf(e)})]
      OBVIOUS
    <3>2. c.event = e
      BY <3>1 DEF Idle
    <3> QED
      BY <2>1, <3>1, <3>2 DEF EventQuery, Start
  <2>2. ASSUME EventSynchronize(t, e) PROVE \E c : call' = [call EXCEPT ![t] = c] /\ c.event = e
    <3>1. PICK c : c = [Idle EXCEPT !.pc = "driver", !.event = e, !.fence = Len(log),
                                    !.needs = EventOwes(e)]
      OBVIOUS
    <3>2. c.event = e
      BY <3>1 DEF Idle
    <3> QED
      BY <2>2, <3>1, <3>2 DEF EventSynchronize, Start
  <2> QED
    BY <2>1, <2>2
<1>3. UNCHANGED <<log, executed, pending>>
  BY DEF EventQuery, EventSynchronize, driver, server
<1> QED
  BY <1>1, <1>2, <1>3, OwedQuiet

LEMMA OwedReturns ==
    ASSUME Types, OwedInv, NEW t \in Threads,
           \/ CountCopy(t) \/ Invalidate(t) \/ Return(t)
           \/ Land(t) \/ CacheCompletions(t)
    PROVE  OwedInv'
<1>1. call[t] \in Calls /\ Idle.pc = "idle"
  BY DEF Types, Idle
<1>2. PICK c : call' = [call EXCEPT ![t] = c] /\ c.pc \in {"idle", "success", "cache"}
  <2>1. Done(t) => \E c : call' = [call EXCEPT ![t] = c] /\ c.pc \in {"idle", "success", "cache"}
    BY <1>1 DEF Done
  <2>2. Succeed(t) => \E c : call' = [call EXCEPT ![t] = c] /\ c.pc \in {"idle", "success", "cache"}
    <3>1. PICK c : c = [Idle EXCEPT !.pc = "success", !.needs = call[t].needs,
                                    !.asked = call[t].asked]
      OBVIOUS
    <3>2. c.pc = "success"
      BY <3>1 DEF Idle
    <3> QED
      BY <3>1, <3>2 DEF Succeed
  <2>3. Goto(t, "cache") =>
           \E c : call' = [call EXCEPT ![t] = c] /\ c.pc \in {"idle", "success", "cache"}
    <3>1. PICK c : c = [call[t] EXCEPT !.pc = "cache"]
      OBVIOUS
    <3>2. c.pc = "cache"
      BY <1>1, <3>1 DEF Calls
    <3> QED
      BY <3>1, <3>2 DEF Goto
  <2> QED
    BY <2>1, <2>2, <2>3 DEF CountCopy, Invalidate, Return, Land, CacheCompletions
<1>3. UNCHANGED <<log, executed, pending>>
  BY DEF CountCopy, Invalidate, Return, Land, CacheCompletions, driver, server
<1> QED
  BY <1>2, <1>3, OwedQuiet

LEMMA OwedProceeds ==
    ASSUME Types, OwedInv, NEW t \in Threads,
           DrawStamp(t) \/ CollectBatch(t) \/ AskDriver(t) \/ RespondQuery(t)
    PROVE  OwedInv'
<1>1. call[t] \in Calls
  BY DEF Types
<1>2. UNCHANGED <<log, executed>>
  BY DEF DrawStamp, CollectBatch, AskDriver, RespondQuery, driver
<1>3. \A q \in AllStreams : pending'[q] \subseteq pending[q]
  BY DetachShrinks DEF DrawStamp, CollectBatch, AskDriver, RespondQuery, server
<1>4. PICK c : call' = [call EXCEPT ![t] = c] /\ c.pc \notin {"driver", "detach", "land"}
  <2> DEFINE Elsewhere == \E c : /\ call' = [call EXCEPT ![t] = c]
                                 /\ c.pc \notin {"driver", "detach", "land"}
  <2>1. ASSUME DrawStamp(t) PROVE Elsewhere
    <3>1. PICK c : c = [call[t] EXCEPT !.pc = "invalidate", !.stamp = stamps + 1]
      OBVIOUS
    <3>2. call' = [call EXCEPT ![t] = c]
      BY <2>1, <3>1 DEF DrawStamp
    <3>3. c.pc = "invalidate"
      BY <1>1, <3>1 DEF Calls
    <3> QED
      BY <3>2, <3>3
  <2>2. ASSUME CollectBatch(t) PROVE Elsewhere
    <3>1. PICK B : call' = [call EXCEPT ![t].pc = "ask", ![t].fence = Len(log), ![t].batch = B]
      BY <2>2 DEF CollectBatch
    <3>2. PICK c : c = [call[t] EXCEPT !.pc = "ask", !.fence = Len(log), !.batch = B]
      OBVIOUS
    <3>3. call' = [call EXCEPT ![t] = c]
      BY <3>1, <3>2
    <3>4. c.pc = "ask"
      BY <1>1, <3>2 DEF Calls
    <3> QED
      BY <3>3, <3>4
  <2>3. ASSUME AskDriver(t) PROVE Elsewhere
    <3>1. PICK R : call' = [call EXCEPT ![t].pc = "answer", ![t].ready = R]
      BY <2>3 DEF AskDriver
    <3>2. PICK c : c = [call[t] EXCEPT !.pc = "answer", !.ready = R]
      OBVIOUS
    <3>3. call' = [call EXCEPT ![t] = c]
      BY <3>1, <3>2
    <3>4. c.pc = "answer"
      BY <1>1, <3>2 DEF Calls
    <3> QED
      BY <3>3, <3>4
  <2>4. ASSUME RespondQuery(t) PROVE Elsewhere
    <3>1. PICK G : G = IF call[t].event \in call[t].ready THEN Collected(call[t]) ELSE {}
      OBVIOUS
    <3>2. PICK R : R = {f \in call[t].ready : f = call[t].event \/ ~OwesCopies(f)}
      OBVIOUS
    <3>3. PICK c : c = [call[t] EXCEPT !.pc = "landquery", !.got = G, !.ready = R]
      OBVIOUS
    <3>4. call' = [call EXCEPT ![t] = c]
      BY <2>4, <3>1, <3>2, <3>3 DEF RespondQuery
    <3>5. c.pc = "landquery"
      BY <1>1, <3>3 DEF Calls
    <3> QED
      BY <3>4, <3>5
  <2> QED
    BY <2>1, <2>2, <2>3, <2>4
<1> QED
  BY <1>2, <1>3, <1>4, OwedQuiet

LEMMA NextOwed ==
    ASSUME Types, OwedInv, [Next]_vars
    PROVE  OwedInv'
<1>1. CASE UNCHANGED vars
  BY <1>1, OnwardShrink, OwedServer DEF vars, driver, server
<1>2. CASE Next
  <2>1. ASSUME NEW t \in Threads, Thread(t) PROVE OwedInv'
    <3>1. ASSUME NEW s \in load.streams \cup {Null},
                 CopyAsync(t, s) \/ \E e \in load.events : EventRecord(t, e, s)
          PROVE  OwedInv'
      BY <3>1, OwedPublish
    <3>2. ASSUME NEW s, StreamSynchronize(t, s) PROVE OwedInv'
      BY <3>2, OwedStreamSynchronize
    <3>3. ASSUME NEW e \in load.events, EventQuery(t, e) \/ EventSynchronize(t, e) PROVE OwedInv'
      BY <3>3, OwedEvents
    <3> QED
      BY <2>1, <3>1, <3>2, <3>3, OwedReturns, OwedProceeds DEF Thread
  <2>2. ASSUME NEW t \in Threads, Handler(t) PROVE OwedInv'
    BY <2>2, OwedDriverReturns, OwedRespondSynchronized, OwedProceeds DEF Handler
  <2>3. ASSUME NEW e \in Events, Recreate(e) PROVE OwedInv'
    BY <2>3, OnwardShrink, OwedServer DEF Recreate, WithoutMarkers
  <2>4. ASSUME NEW i, Complete(i) PROVE OwedInv'
    BY <2>4, OnwardShrink, OwedServer DEF Complete, server
  <2>5. ASSUME Execute PROVE OwedInv'
    BY <2>5, OnwardExecute, OwedServer DEF Execute
  <2> QED
    BY <1>2, <2>1, <2>2, <2>3, <2>4, <2>5, LoadTypes DEF Next
<1> QED
  BY <1>1, <1>2

LEMMA InitOwed ==
    ASSUME Init
    PROVE  OwedInv
<1>1. \A t \in Threads : call[t].pc = "idle"
  BY DEF Init, Idle
<1> QED
  BY <1>1 DEF OwedInv, OwedOK

=============================================================================
