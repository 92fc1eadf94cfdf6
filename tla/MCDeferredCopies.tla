-------------------------- MODULE MCDeferredCopies --------------------------
(***************************************************************************)
(* DeferredCopies on workloads in which threads and events are             *)
(* interchangeable.                                                        *)
(***************************************************************************)
EXTENDS DeferredCopies, TLC

Workload(threads, streams, events, copies, records, syncs) ==
    [threads |-> threads, streams |-> streams, events |-> events,
     copies |-> copies, records |-> records, syncs |-> syncs]

\* Two threads share copies on the legacy stream and an event; one thread has the
\* legacy and a blocking stream and two events, or a non-blocking stream as well
\* and one event; two threads race for the event table alone.
MCWorkloads ==
    {Workload(Threads, {}, {e}, 2, 1, TRUE) : e \in Events}
        \cup {Workload({t}, Streams \ NonBlocking, Events, 2, 2, TRUE) : t \in Threads}
        \cup {Workload({t}, Streams, {e}, 2, 1, TRUE) : t \in Threads, e \in Events}
        \cup {Workload(Threads, {}, Events, 0, 3, FALSE)}

\* Two threads, each with a stream of its own or the legacy one.
TornWorkloads == {Workload(Threads, Streams, {}, 1, 0, TRUE)}

Symmetry ==
    Permutations(Threads) \cup Permutations(Events)

=============================================================================
