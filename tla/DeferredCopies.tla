--------------------------- MODULE DeferredCopies ---------------------------
(***************************************************************************)
(* Device-to-host copies that the server holds until a synchronize         *)
(* collects them (cuda_server.cpp, cuda_server_memcpy.cpp), and the        *)
(* client's cache of event completions (events.cpp), which decides when    *)
(* cuEventQuery needs no round trip.                                       *)
(*                                                                         *)
(* Copies and event records are fire-and-forget: the log lists them in     *)
(* ticket order, and a request runs once every ticket published before it  *)
(* was executed (AsyncOrder).  A copy, or a record, is named by its        *)
(* position in the log.                                                    *)
(***************************************************************************)
EXTENDS Integers, Sequences, FiniteSets, FiniteSetsExt

CONSTANTS
    Threads,     \* client threads
    Streams,     \* streams other than the legacy default stream
    NonBlocking, \* those created with CU_STREAM_NON_BLOCKING; in a program of one
                 \* thread CU_STREAM_PER_THREAD is one that the device orders more
    Null,        \* the legacy default stream
    Events,
    None,        \* no event
    Slots,       \* kLupineEventQueryBatch
    Workloads    \* bounds on what a program does, one of which it keeps to

ASSUME CopiesAssumption ==
    /\ NonBlocking \subseteq Streams
    /\ Null \notin Streams
    /\ None \notin Events
    /\ Slots \in Nat \ {0}
    /\ IsFiniteSet(Threads)
    /\ \A w \in Workloads :
          /\ w.threads \subseteq Threads /\ w.streams \subseteq Streams
          /\ w.events \subseteq Events
          /\ w.copies \in Nat /\ w.records \in Nat /\ w.syncs \in BOOLEAN

VARIABLES
    load,      \* the threads, streams and events in use, how many copies and
               \* records are made, whether streams and events are synchronized
    log,       \* the fire-and-forget calls, in ticket order
    executed,  \* how many of them the server has handed to the driver
    finished,  \* those the device has completed
    born,      \* per event: length of the log when it was created
    pending,   \* lupine_pending_dtoh_copies(): per stream, copies and markers;
               \* a queue is filled in ticket order, so its set tells its order
    torn,      \* ghost: copies detached before the device completed them
    call,      \* per thread: the call it is in
    stale,     \* stale_semaphore
    stamps,    \* record_seq
    slots,     \* the event table
    landed     \* per copy: how often its bytes were written to client memory

driver == <<log, executed, finished, born>>
server == <<pending, torn>>
table == <<stamps, slots>>
vars == <<load, driver, server, call, stale, table, landed>>

AllStreams == Streams \cup {Null}
IsCopy(i) == log[i].event = None
Issued(isCopy) == {i \in DOMAIN log : IsCopy(i) <=> isCopy}

EmptySlot == [event |-> None, record |-> 0, complete |-> FALSE]
Idle == [pc |-> "idle", stream |-> Null, event |-> None, index |-> 0,
         asked |-> 0, fence |-> 0, stamp |-> 0, batch |-> {}, ready |-> {},
         got |-> {}, needs |-> {}]

Init ==
    /\ load \in Workloads
    /\ log = <<>>
    /\ executed = 0
    /\ finished = {}
    /\ born = [e \in Events |-> 0]
    /\ pending = [s \in AllStreams |-> {}]
    /\ torn = {}
    /\ call = [t \in Threads |-> Idle]
    /\ stale = 0
    /\ stamps = 0
    /\ slots = [i \in 1..Slots |-> EmptySlot]
    /\ landed = [i \in 1..(load.copies + load.records) |-> 0]

-----------------------------------------------------------------------------
(* The driver and the device *)

\* Work on stream s, and a synchronize of it, comes after earlier work on q: the
\* legacy default stream follows every stream that is not created as non-blocking.
Follows(s, q) == q = s \/ (s = Null /\ q \notin NonBlocking)

\* Work on s1 and s2 runs in the order of submission.
Ordered(s1, s2) == Follows(s1, s2) \/ Follows(s2, s1)

Complete(i) ==
    /\ i \in 1..executed \ finished
    /\ \A j \in 1..(i - 1) : Ordered(log[i].stream, log[j].stream) => j \in finished
    /\ finished' = finished \cup {i}
    /\ UNCHANGED <<log, executed, born, server, call, stale, table, landed>>

\* The last record of an event among the first n tickets, or 0.
LastRecord(e, n) ==
    Max({0} \cup {i \in (born[e] + 1)..n : log[i].event = e})

StreamDone(s) ==
    \A i \in 1..executed : Follows(s, log[i].stream) => i \in finished
EventDone(e) == LastRecord(e, executed) \in {0} \cup finished

-----------------------------------------------------------------------------
(* Fire-and-forget calls on the server *)

WithoutMarkers(items, e) == {i \in items : log[i].event # e}

\* Mutant: a record on the legacy default stream marks that stream only.
MarkedNullOnly(s) == {s}

\* The legacy default stream orders the event after every blocking stream.
Marked(s) ==
    IF s # Null THEN {s}
    ELSE {Null} \cup {q \in Streams \ NonBlocking : pending[q] # {}}

\* lupine_defer_dtoh, or cuEventRecord and lupine_note_event_record.
Execute ==
    LET i == executed + 1
        e == log[i].event
        into == IF IsCopy(i) THEN {log[i].stream} ELSE Marked(log[i].stream)
    IN /\ executed < Len(log)
       /\ executed' = i
       /\ pending' = [q \in AllStreams |->
             LET kept == IF IsCopy(i) THEN pending[q] ELSE WithoutMarkers(pending[q], e)
             IN  IF q \in into THEN kept \cup {i} ELSE kept]
       /\ UNCHANGED <<log, finished, born, torn, call, stale, table, landed>>

-----------------------------------------------------------------------------
(* Client threads *)

Start(t, fields) ==
    /\ t \in load.threads
    /\ call[t].pc = "idle"
    /\ call' = [call EXCEPT ![t] = fields]
Goto(t, pc) == call' = [call EXCEPT ![t].pc = pc]

Done(t) == call' = [call EXCEPT ![t] = Idle]

\* The call succeeds; what it owes its caller is still to be compared.
Succeed(t) ==
    call' = [call EXCEPT ![t] = [Idle EXCEPT !.pc = "success", !.needs = call[t].needs,
                                             !.asked = call[t].asked]]

Return(t) ==
    /\ call[t].pc = "success"
    /\ Done(t)
    /\ UNCHANGED <<driver, server, stale, table, landed>>

\* cuMemcpyDtoHAsync: the request is written, then the semaphore raised.
CopyAsync(t, s) ==
    /\ Start(t, [Idle EXCEPT !.pc = "count"])
    /\ Cardinality(Issued(TRUE)) < load.copies
    /\ log' = Append(log, [stream |-> s, event |-> None])
    /\ UNCHANGED <<executed, finished, born, server, stale, table, landed>>

CountCopy(t) ==
    /\ call[t].pc = "count"
    /\ stale' = stale + 1
    /\ Done(t)
    /\ UNCHANGED <<driver, server, table, landed>>

\* cuEventRecord: the request is written, then the cached completion voided;
\* the new stamp is drawn outside the table's mutex.
EventRecord(t, e, s) ==
    /\ Start(t, [Idle EXCEPT !.pc = "stamp", !.event = e, !.index = Len(log) + 1])
    /\ Cardinality(Issued(FALSE)) < load.records
    /\ log' = Append(log, [stream |-> s, event |-> e])
    /\ UNCHANGED <<executed, finished, born, server, stale, table, landed>>

DrawStamp(t) ==
    /\ call[t].pc = "stamp"
    /\ stamps' = stamps + 1
    /\ call' = [call EXCEPT ![t].pc = "invalidate", ![t].stamp = stamps + 1]
    /\ UNCHANGED <<driver, server, stale, slots, landed>>

SlotsOf(e) == {i \in 1..Slots : slots[i].event = e}

\* The event's slot, or the first one with the smallest stamp.
SlotFor(e) ==
    IF SlotsOf(e) # {} THEN Min(SlotsOf(e))
    ELSE Min({i \in 1..Slots : \A j \in 1..Slots : slots[i].record <= slots[j].record})

Invalidate(t) ==
    /\ call[t].pc = "invalidate"
    /\ slots' = [slots EXCEPT ![SlotFor(call[t].event)] =
                    [event |-> call[t].event, record |-> call[t].stamp,
                     complete |-> FALSE]]
    /\ Done(t)
    /\ UNCHANGED <<driver, server, stale, stamps, landed>>

InUse(e) == \E t \in Threads : call[t].event = e

\* cuEventDestroy_v2 of an event no thread uses, and a new event that gets the
\* same handle.  The lifecycle lock is exclusive: no query is in flight.
Recreate(e) ==
    /\ ~InUse(e)
    /\ \A t \in Threads : call[t].pc \notin
          {"collect", "ask", "answer", "landquery", "cache"}
    /\ Issued(FALSE) \cap {i \in DOMAIN log : log[i].event = e} \subseteq 1..executed
    /\ LastRecord(e, Len(log)) # 0
    /\ born' = [born EXCEPT ![e] = Len(log)]
    /\ pending' = [q \in AllStreams |-> WithoutMarkers(pending[q], e)]
    /\ slots' = [i \in 1..Slots |-> IF slots[i].event = e THEN EmptySlot ELSE slots[i]]
    /\ UNCHANGED <<log, executed, finished, torn, call, stale, stamps, landed>>

-----------------------------------------------------------------------------
(* Requests that collect copies *)

\* The copies whose bytes a call owes its caller: those issued on the stream,
\* or on the streams that the event's last record follows.
StreamOwes(s) == {i \in Issued(TRUE) : Follows(s, log[i].stream)}
EventOwes(e) ==
    LET r == LastRecord(e, Len(log))
    IN  {i \in Issued(TRUE) : i < r /\ Follows(log[r].stream, log[i].stream)}

StreamSynchronize(t, s) ==
    /\ Start(t, [Idle EXCEPT !.pc = "driver", !.stream = s, !.fence = Len(log),
                             !.needs = StreamOwes(s)])
    /\ UNCHANGED <<driver, server, stale, table, landed>>

EventSynchronize(t, e) ==
    /\ Start(t, [Idle EXCEPT !.pc = "driver", !.event = e, !.fence = Len(log),
                             !.needs = EventOwes(e)])
    /\ UNCHANGED <<driver, server, stale, table, landed>>

\* cuStreamSynchronize or cuEventSynchronize returns on the server.
DriverReturns(t) ==
    /\ call[t].pc = "driver"
    /\ executed >= call[t].fence
    /\ IF call[t].event = None THEN StreamDone(call[t].stream)
                               ELSE EventDone(call[t].event)
    /\ Goto(t, "detach")
    /\ UNCHANGED <<driver, server, stale, table, landed>>

Markers(items, e) == {m \in items : log[m].event = e}

\* The items of stream q that a call collects: all of its stream, of every stream
\* (the non-blocking ones too) when it is the legacy one, or those up to the
\* event's first marker.
Collects(c, q) ==
    IF c.event = None
    THEN {i \in pending[q] : c.stream \in {q, Null}}
    ELSE {i \in pending[q] : /\ Markers(pending[q], c.event) # {}
                             /\ \A m \in Markers(pending[q], c.event) : i <= m}

Collected(c) == {i \in UNION {Collects(c, q) : q \in AllStreams} : IsCopy(i)}

\* Mutant: the copies in front of the event's marker stay queued.
DetachKeeps(c) ==
    /\ pending' = [q \in AllStreams |->
          IF c.event # None THEN WithoutMarkers(pending[q], c.event)
          ELSE pending[q] \ Collects(c, q)]
    /\ torn' = torn \cup (Collected(c) \ finished)

\* lupine_detach_pending_dtoh_copies and lupine_detach_event_dtoh_copies.
Detach(c) ==
    /\ pending' = [q \in AllStreams |-> pending[q] \ Collects(c, q)]
    /\ torn' = torn \cup (Collected(c) \ finished)

RespondSynchronized(t) ==
    /\ call[t].pc = "detach"
    /\ Detach(call[t])
    /\ call' = [call EXCEPT ![t].pc = "land", ![t].got = Collected(call[t])]
    /\ UNCHANGED <<driver, stale, table, landed>>

\* Mutant: copies that arrive mean none are left.
HandedBackAll(n) == stale' = IF n = 0 THEN stale ELSE 0

\* Mutant: a response counts as one copy.
HandedBackOne(n) == stale' = IF n = 0 \/ stale = 0 THEN stale ELSE stale - 1

\* Mutant: the subtraction does not saturate.
HandedBackWraps(n) == stale' = stale - n

\* The subtraction saturates at zero.
HandedBack(n) == stale' = IF n >= stale THEN 0 ELSE stale - n

\* lupine_read_deferred_dtoh_copies.
Land(t) ==
    /\ call[t].pc \in {"land", "landquery"}
    /\ landed' = [i \in DOMAIN landed |->
                     IF i \in call[t].got THEN landed[i] + 1 ELSE landed[i]]
    /\ HandedBack(Cardinality(call[t].got))
    /\ IF call[t].pc = "land" THEN Succeed(t) ELSE Goto(t, "cache")
    /\ UNCHANGED <<driver, server, table>>

-----------------------------------------------------------------------------
(* cuEventQuery *)

\* The last record whose call has returned.
LastReturned(e) ==
    Max({0} \cup {i \in (born[e] + 1)..Len(log) : log[i].event = e /\
            \A t \in Threads : call[t].pc \in {"stamp", "invalidate"} => call[t].index # i})

QueryNeeded(e) == stale # 0 \/ ~\E i \in SlotsOf(e) : slots[i].complete

\* The copies owed are read first, the table under its mutex; a tracked event
\* that completed and no copy outstanding give a local answer.
EventQuery(t, e) ==
    /\ Start(t, [Idle EXCEPT !.pc = IF QueryNeeded(e) THEN "collect" ELSE "success",
                    !.event = e, !.asked = LastReturned(e), !.needs = EventOwes(e),
                    !.stamp = Max({0} \cup {slots[i].record : i \in SlotsOf(e)})])
    /\ UNCHANGED <<driver, server, stale, table, landed>>

\* Other outstanding events ride along; then the request is written.
CollectBatch(t) ==
    /\ call[t].pc = "collect"
    /\ call' = [call EXCEPT ![t].pc = "ask", ![t].fence = Len(log),
          ![t].batch = {[event |-> slots[i].event, record |-> slots[i].record] :
                         i \in {j \in 1..Slots : ~slots[j].complete /\
                                  slots[j].event \notin {None, call[t].event}}}]
    /\ UNCHANGED <<driver, server, stale, table, landed>>

\* handle_cuEventQuery up to the driver's answers.
AskDriver(t) ==
    /\ call[t].pc = "ask"
    /\ executed >= call[t].fence
    /\ call' = [call EXCEPT ![t].pc = "answer",
          ![t].ready = {e \in {call[t].event} \cup {b.event : b \in call[t].batch} :
                           EventDone(e)}]
    /\ UNCHANGED <<driver, server, stale, table, landed>>

\* lupine_event_owes_dtoh_copies.
OwesCopies(e) == Collected([Idle EXCEPT !.event = e]) # {}

\* The rest of the handler: copies ride back only for the event asked about.
RespondQuery(t) ==
    LET e == call[t].event IN
    /\ call[t].pc = "answer"
    /\ IF e \in call[t].ready THEN Detach(call[t]) ELSE UNCHANGED server
    /\ call' = [call EXCEPT ![t].pc = "landquery",
          ![t].got = IF e \in call[t].ready THEN Collected(call[t]) ELSE {},
          ![t].ready = {f \in @ : f = e \/ ~OwesCopies(f)}]
    /\ UNCHANGED <<driver, stale, table, landed>>

\* Mutant: an answer is cached for the event whatever record it was about.
CacheableAnyRecord(c, slot) == slot.event \in c.ready

\* The answer is about the record the slot holds.
Cacheable(c, slot) ==
    /\ slot.event \in c.ready
    /\ slot.record # 0
    /\ [event |-> slot.event, record |-> slot.record] \in
          c.batch \cup {[event |-> c.event, record |-> c.stamp]}

CacheCompletions(t) ==
    /\ call[t].pc = "cache"
    /\ slots' = [i \in 1..Slots |->
          IF Cacheable(call[t], slots[i]) THEN [slots[i] EXCEPT !.complete = TRUE]
          ELSE slots[i]]
    /\ IF call[t].event \in call[t].ready THEN Succeed(t) ELSE Done(t)
    /\ UNCHANGED <<driver, server, stale, stamps, landed>>

-----------------------------------------------------------------------------
Thread(t) ==
    \/ \E s \in load.streams \cup {Null} :
          \/ CopyAsync(t, s)
          \/ load.syncs /\ StreamSynchronize(t, s)
          \/ \E e \in load.events : EventRecord(t, e, s)
    \/ \E e \in load.events : EventQuery(t, e) \/ (load.syncs /\ EventSynchronize(t, e))
    \/ CountCopy(t)
    \/ DrawStamp(t)
    \/ Invalidate(t)
    \/ CollectBatch(t)
    \/ Land(t)
    \/ CacheCompletions(t)
    \/ Return(t)

Handler(t) ==
    \/ DriverReturns(t)
    \/ RespondSynchronized(t)
    \/ AskDriver(t)
    \/ RespondQuery(t)

Next ==
    /\ UNCHANGED load
    /\ \/ \E t \in load.threads : Thread(t) \/ Handler(t)
       \/ \E e \in Events : Recreate(e)
       \/ \E i \in DOMAIN log : Complete(i)
       \/ Execute

Spec == Init /\ [][Next]_vars

-----------------------------------------------------------------------------
(* Properties *)

Places == {"idle", "count", "stamp", "invalidate", "driver", "detach", "land",
           "collect", "ask", "answer", "landquery", "cache", "success"}

Calls ==
    [pc : Places, stream : AllStreams, event : Events \cup {None}, index : Nat,
     asked : Nat, fence : Nat, stamp : Nat,
     batch : SUBSET [event : Events, record : Nat], ready : SUBSET Events,
     got : SUBSET Nat, needs : SUBSET Nat]

\* Every variable has its type: queued items were executed, no event has two
\* slots of the table, and stale_semaphore, which is unsigned, does not wrap.
TypeOK ==
    /\ load \in Workloads
    /\ log \in Seq([stream : AllStreams, event : Events \cup {None}])
    /\ executed \in 0..Len(log)
    /\ finished \subseteq 1..executed
    /\ born \in [Events -> 0..Len(log)]
    /\ pending \in [AllStreams -> SUBSET (1..executed)]
    /\ torn \subseteq Issued(TRUE)
    /\ call \in [Threads -> Calls]
    /\ stale \in 0..load.copies
    /\ stamps \in Nat
    /\ slots \in [1..Slots -> [event : Events \cup {None}, record : Nat,
                              complete : BOOLEAN]]
    /\ \A i, j \in 1..Slots : slots[i].event = slots[j].event =>
                                 i = j \/ slots[i].event = None
    /\ landed \in [1..(load.copies + load.records) -> Nat]

\* A copy the server has taken is in exactly one place: queued once for its
\* stream, in one response, or landed; none is lost, none is delivered twice
\* (lupine_detach_pending_dtoh_copies, lupine_detach_event_dtoh_copies).
InOnePlace ==
    \A i \in Issued(TRUE) \cap 1..executed :
        Cardinality({q \in AllStreams : i \in pending[q]})
        + Cardinality({t \in Threads : i \in call[t].got /\
                                       call[t].pc \in {"land", "landquery"}})
        + landed[i] = 1

\* cuEventQuery reports success, locally or after a round trip, only when the
\* last record of the event that had returned before the call, or a later one, is
\* complete, although records and queries of other threads overlap
\* (lupine_event_cache_completions).
QueryTruthful ==
    \A t \in Threads : call[t].pc = "success" /\ call[t].asked # 0 =>
        \E r \in finished : r >= call[t].asked /\ log[r].event = log[call[t].asked].event

\* The semaphore is never below the copies counted and not yet handed back: one
\* response that brings some copies does not clear it
\* (lupine_event_stale_semaphore_add).
StaleCoversOwed ==
    stale + Cardinality({t \in Threads : call[t].pc = "count"}) >=
        Cardinality({i \in Issued(TRUE) : landed[i] = 0})

\* One thread issues all copies and collects them.
Serial == Cardinality(load.threads) = 1

\* A response carries only copies that the device has completed ("the deferred
\* device-to-host copies a successful call completes", codegen/README.md).
CollectedComplete == torn = {}

\* A copy that a response carries too early is one of a non-blocking stream.
BlockingComplete == \A i \in torn : log[i].stream \in NonBlocking

\* Once cuStreamSynchronize has its response, no copy issued before it on a stream
\* it waits for is still queued, whatever calls of other threads collected.  In a
\* program with one thread, responses carry complete copies of blocking streams,
\* and a call that collects copies has had those it owes written to client memory
\* when it returns success: every copy issued before it on its stream, or before
\* the record of its event ("they land at the next synchronize",
\* cuda_client_memcpy.cpp).  Of a non-blocking stream the bytes may be early ones:
\* a synchronize of the legacy stream collects its copies without waiting for them.
LandsAtSynchronize ==
    /\ \A t \in Threads : call[t].pc = "land" /\ call[t].event = None =>
          \A i \in call[t].needs : i \notin pending[log[i].stream]
    /\ Serial =>
          /\ BlockingComplete
          /\ \A t \in Threads : call[t].pc = "success" =>
                \A i \in call[t].needs : landed[i] > 0

\* In a program with one thread the semaphore is zero once every copy has been
\* handed back ("Held by every deferred device-to-host copy the server has not
\* handed back yet", events.h), so that the cache of completions is usable again.
StaleReleased == Serial =>
    ((\A t \in Threads : call[t].pc = "idle") /\ (\A i \in Issued(TRUE) : landed[i] > 0)
        => stale = 0)

=============================================================================
