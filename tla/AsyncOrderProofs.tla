-------------------------- MODULE AsyncOrderProofs --------------------------
(***************************************************************************)
(* The inductive invariant of AsyncOrder, the proof that the client's and  *)
(* the server's steps preserve it, for any set of lanes and any number of  *)
(* tickets, and the theorems that follow.                                  *)
(***************************************************************************)
EXTENDS AsyncOrder, TLAPS

\* Steps are tried with Zenon first, then with SMT.
USE ZenonT(30), SMTT(30)

-----------------------------------------------------------------------------
(* The inductive invariant. *)

\* A frame after which a later request of the same lane cannot run before
\* ticket t has ended.
FrameCovers(frame, t) ==
    \/ frame.type = "marker" /\ t < frame.upto
    \/ frame.type = "async" /\ frame.ticket = t

WorkerCovers(l, t) ==
    \/ spc[l] = "wait" /\ t < want[l]
    \/ spc[l] \in {"run", "exec"} /\ cur[l].type = "async" /\ cur[l].ticket = t

\* Ticket t is settled by the time lane l's worker passes its i-1 next frames.
Covered(l, i, t) ==
    \/ t \in ended
    \/ WorkerCovers(l, t)
    \/ \E j \in 1 .. (i - 1) : FrameCovers(wire[l][j], t)

BuilderInv ==
    \A l \in Lanes : pc[l] \in {"building", "written"} <=> builder = l

\* Every published ticket belongs to a call that returned; only a client whose
\* transport failed can have issued a ticket it will not publish.
PublishedInv ==
    /\ published <= issued
    /\ \A t \in Nat : t \in returned <=> t < published
    /\ builder = NoLane /\ ~downC => issued = published
    /\ \A l \in Lanes :
          /\ op[l].dep <= published
          /\ \A t \in Nat : t \in op[l].saw <=> t < op[l].dep
          /\ pc[l] = "written" \/ (pc[l] = "building" /\ ~downC)
               => issued = published + (IF op[l].async THEN 1 ELSE 0)

TicketsInv ==
    /\ ended \subseteq 0 .. (issued - 1)
    /\ \A l \in Lanes :
          /\ cur[l].type = "async" => cur[l].ticket < issued
          /\ \A i \in 1 .. Len(wire[l]) :
                wire[l][i].type = "async" => wire[l][i].ticket < issued

FailureInv ==
    /\ closedS => downS
    /\ \A l \in Lanes :
          /\ spc[l] = "dead" => downS
          /\ spc[l] = "exec" => cur[l].type = "async"

\* Every call still on a lane is covered for all it must follow.
WireInv ==
    \A l \in Lanes : spc[l] # "dead" =>
        \A i \in 1 .. Len(wire[l]) : wire[l][i].type # "marker" =>
            \A t \in wire[l][i].after : Covered(l, i, t)

\* The cached prefix is covered for whatever the cached lane writes next.
PrefixInv ==
    /\ prefix <= issued
    /\ \A l \in Lanes :
          /\ prefixStream = l /\ ~downS =>
                \A t \in 0 .. (prefix - 1) : Covered(l, Len(wire[l]) + 1, t)
          /\ pc[l] = "written" =>
                /\ prefixStream = l
                /\ op[l].async /\ ~downS =>
                      Covered(l, Len(wire[l]) + 1, issued - 1)

IInv ==
    /\ TypeOK
    /\ BuilderInv
    /\ PublishedInv
    /\ TicketsInv
    /\ FailureInv
    /\ ServedPrefixExact
    /\ FenceRespected
    /\ NoOverlapWait
    /\ WireInv
    /\ PrefixInv
-----------------------------------------------------------------------------
LEMMA InitIInv == Init => IInv
<1> SUFFICES ASSUME Init PROVE IInv
  OBVIOUS
<1> USE DEF Init
<1>1. TypeOK
  <2>1. NoOp \in Ops
    BY DEF NoOp, Ops
  <2>2. NoCall \in Calls
    BY DEF NoCall, Call, Calls
  <2>3. <<>> \in Seq(Markers \cup Calls)
    BY SMT
  <2> HIDE DEF NoOp, NoCall
  <2>4. /\ op \in [Lanes -> Ops] /\ cur \in [Lanes -> Calls]
        /\ wire \in [Lanes -> Seq(Markers \cup Calls)]
    BY <2>1, <2>2, <2>3
  <2> QED
    BY <2>4 DEF TypeOK
<1>2. BuilderInv
  BY LanesAssumption DEF BuilderInv
<1>. PublishedInv
  BY SMT DEF PublishedInv, NoOp
<1>3. TicketsInv /\ FailureInv /\ ServedPrefixExact /\ FenceRespected
  BY SMT DEF TicketsInv, FailureInv, ServedPrefixExact, FenceRespected, NoCall, Call
<1>4. NoOverlapWait /\ WireInv /\ PrefixInv
  BY SMT, LanesAssumption DEF NoOverlapWait, WireInv, PrefixInv
<1> QED
  BY <1>1, <1>2, <1>3, <1>4 DEF IInv

\* A step that leaves the lanes and their workers alone leaves the coverage of
\* every ticket alone, and with it what is said of the lanes only.
LEMMA CoverageStable ==
    ASSUME wire' = wire, spc' = spc, cur' = cur, want' = want, ended' = ended
    PROVE  /\ \A l, i, t : Covered(l, i, t)' <=> Covered(l, i, t)
           /\ FenceRespected => FenceRespected'
           /\ NoOverlapWait => NoOverlapWait'
           /\ WireInv => WireInv'
<1>1. \A l, i, t : Covered(l, i, t)' <=> Covered(l, i, t)
  BY SMT DEF Covered, WorkerCovers, FrameCovers
<1> QED
  BY <1>1 DEF FenceRespected, NoOverlapWait, WireInv

\* A lane whose worker and frames stay as they are keeps its coverage.
LEMMA LaneKept ==
    ASSUME NEW k, wire'[k] = wire[k], spc'[k] = spc[k], cur'[k] = cur[k],
           want'[k] = want[k], ended \subseteq ended'
    PROVE  \A i, t : Covered(k, i, t) => Covered(k, i, t)'
  BY DEF Covered, WorkerCovers, FrameCovers

LEMMA BuilderKept ==
    ASSUME BuilderInv, UNCHANGED <<pc, builder>>
    PROVE  BuilderInv'
  BY DEF BuilderInv

LEMMA PublishedKept ==
    ASSUME PublishedInv, UNCHANGED <<pc, op, builder, issued, published, returned>>,
           downC => downC'
    PROVE  PublishedInv'
  BY DEF PublishedInv

LEMMA CallEnterStep ==
    ASSUME IInv, NEW l \in Lanes, NEW isAsync \in BOOLEAN, CallEnter(l, isAsync)
    PROVE  IInv'
<1> USE DEF IInv, CallEnter, LoadDependency, serverVars
<1>1. TypeOK'
  BY SMTT(30) DEF TypeOK, Ops
<1>2. BuilderInv' /\ PublishedInv'
  BY SMT DEF TypeOK, BuilderInv, PublishedInv, Ops
<1>3. TicketsInv' /\ FailureInv' /\ ServedPrefixExact'
  BY DEF TicketsInv, FailureInv, ServedPrefixExact
<1>4. FenceRespected' /\ NoOverlapWait' /\ WireInv'
  BY CoverageStable
<1>5. PrefixInv'
  BY SMTT(30), CoverageStable DEF PrefixInv, TypeOK
<1> QED
  BY <1>1, <1>2, <1>3, <1>4, <1>5

LEMMA CallStartStep ==
    ASSUME IInv, NEW l \in Lanes, CallStart(l)
    PROVE  IInv'
<1> USE DEF IInv, CallStart, serverVars
<1>1. TypeOK'
  BY SMT DEF TypeOK
<1>2. BuilderInv'
  BY LanesAssumption DEF TypeOK, BuilderInv
<1>. PublishedInv'
  BY SMTT(30), LanesAssumption DEF TypeOK, BuilderInv, PublishedInv, Ops
<1>3. TicketsInv'
  <2>1. issued' >= issued /\ issued \in Nat /\ issued' \in Nat
    BY SMT DEF TypeOK
  <2>2. \A k \in Lanes : cur[k].ticket \in Nat
    BY DEF TypeOK, Calls
  <2>3. \A k \in Lanes : \A i \in 1 .. Len(wire[k]) :
           wire[k][i].type = "async" => wire[k][i].ticket \in Nat
    BY SMTT(30) DEF TypeOK, Calls, Markers
  <2> QED
    BY SMT, <2>1, <2>2, <2>3 DEF TicketsInv
<1>. FailureInv' /\ ServedPrefixExact'
  BY DEF FailureInv, ServedPrefixExact
<1>4. FenceRespected' /\ NoOverlapWait' /\ WireInv'
  BY CoverageStable
<1>5. PrefixInv'
  BY SMT, CoverageStable, LanesAssumption DEF PrefixInv, TypeOK, BuilderInv
<1> QED
  BY <1>1, <1>2, <1>3, <1>4, <1>5

LEMMA CallRejectStep ==
    ASSUME IInv, NEW l \in Lanes, CallReject(l)
    PROVE  IInv'
<1> USE DEF IInv, CallReject, NoOp, serverVars
<1>1. TypeOK'
  BY DEF TypeOK, Ops
<1>2. BuilderInv' /\ PublishedInv'
  BY SMT DEF TypeOK, BuilderInv, PublishedInv, Ops
<1>3. TicketsInv' /\ FailureInv' /\ ServedPrefixExact'
  BY DEF TicketsInv, FailureInv, ServedPrefixExact
<1>4. FenceRespected' /\ NoOverlapWait' /\ WireInv'
  BY CoverageStable
<1>5. PrefixInv'
  BY CoverageStable DEF PrefixInv, TypeOK
<1> QED
  BY <1>1, <1>2, <1>3, <1>4, <1>5

LEMMA CallPublishStep ==
    ASSUME IInv, NEW l \in Lanes, CallPublish(l)
    PROVE  IInv'
<1> USE DEF IInv, CallPublish, NoOp, serverVars
<1>. PICK o \in BOOLEAN : o = op[l].async
  BY DEF TypeOK, Ops
<1>1. TypeOK'
  <2>1. returned' \in SUBSET Nat
    BY SMT DEF TypeOK, PublishedInv
  <2>2. NoOp \in Ops
    BY DEF Ops
  <2>3. op' \in [Lanes -> Ops]
    BY <2>2 DEF TypeOK
  <2>4. pc' \in [Lanes -> {"idle", "entered", "building", "written", "await"}]
    BY DEF TypeOK
  <2> QED
    BY SMTT(30), <2>1, <2>3, <2>4 DEF TypeOK, ExtendedPrefix
<1>2. BuilderInv'
  BY LanesAssumption DEF TypeOK, BuilderInv
<1>. PublishedInv'
  <2>1. issued = published + (IF o THEN 1 ELSE 0)
    BY DEF PublishedInv
  <2>2. \A t \in Nat : t \in returned' <=> t < published'
    BY SMT, <2>1 DEF TypeOK, PublishedInv
  <2>3. \A k \in Lanes : pc'[k] \notin {"building", "written"}
    BY DEF TypeOK, BuilderInv
  <2>4. \A k \in Lanes : /\ op'[k].dep <= published'
                          /\ \A t \in Nat : t \in op'[k].saw <=> t < op'[k].dep
    BY SMTT(30), <2>1 DEF TypeOK, PublishedInv, Ops
  <2> QED
    BY SMT, <2>1, <2>2, <2>3, <2>4 DEF PublishedInv, TypeOK
<1>3. TicketsInv' /\ FailureInv' /\ ServedPrefixExact'
  BY DEF TicketsInv, FailureInv, ServedPrefixExact
<1>4. FenceRespected' /\ NoOverlapWait' /\ WireInv'
  BY CoverageStable
<1>5. PrefixInv'
  <2>1. prefixStream = l /\ prefixStream' = l
    BY DEF PrefixInv
  <2>2. \A k \in Lanes : pc'[k] # "written"
    BY DEF TypeOK, BuilderInv
  <2>3. issued = published + (IF o THEN 1 ELSE 0)
    BY DEF PublishedInv
  <2>4. prefix' <= issued'
    BY SMT DEF ExtendedPrefix, PrefixInv, TypeOK
  <2>5. ASSUME ~downS, NEW t \in 0 .. (prefix' - 1)
        PROVE  Covered(l, Len(wire[l]) + 1, t)
    <3>1. CASE t \in 0 .. (prefix - 1)
      BY <2>1, <2>5, <3>1 DEF PrefixInv
    <3>2. CASE t \notin 0 .. (prefix - 1)
      <4>1. o /\ t = issued - 1
        BY SMT, <2>3, <2>5, <3>2 DEF ExtendedPrefix, TypeOK
      <4> QED
        BY <2>5, <4>1 DEF PrefixInv
    <3> QED
      BY <3>1, <3>2
  <2> QED
    BY <2>1, <2>2, <2>4, <2>5, CoverageStable DEF PrefixInv
<1> QED
  BY <1>1, <1>2, <1>3, <1>4, <1>5

LEMMA CallReturnStep ==
    ASSUME IInv, NEW l \in Lanes, CallReturn(l)
    PROVE  IInv'
<1> USE DEF IInv, CallReturn, serverVars
<1>1. TypeOK'
  BY DEF TypeOK
<1>2. BuilderInv' /\ PublishedInv'
  BY DEF TypeOK, BuilderInv, PublishedInv
<1>3. TicketsInv' /\ FailureInv' /\ ServedPrefixExact'
  BY DEF TicketsInv, FailureInv, ServedPrefixExact
<1>4. FenceRespected' /\ NoOverlapWait' /\ WireInv'
  BY CoverageStable
<1>5. PrefixInv'
  BY CoverageStable DEF PrefixInv, TypeOK
<1> QED
  BY <1>1, <1>2, <1>3, <1>4, <1>5

\* What rpc_write_end appends to the lane.
LEMMA FramesFacts ==
    ASSUME TypeOK, PublishedInv, NEW l \in Lanes,
           op[l].async => issued > 0
    PROVE  LET w == wire[l]
               f == Frames(l)
               call == Call(op[l].async, IF op[l].async THEN issued - 1 ELSE 0, op[l].saw)
           IN  /\ f \in Seq(Markers \cup Calls)
               /\ Len(f) = Len(w) + (IF NeedsMarker(l) THEN 2 ELSE 1)
               /\ \A i \in 1 .. Len(w) : f[i] = w[i]
               /\ NeedsMarker(l) => f[Len(w) + 1] = Marker(op[l].dep)
               /\ f[Len(f)] = call
               /\ call \in Calls
<1> DEFINE call == Call(op[l].async, IF op[l].async THEN issued - 1 ELSE 0, op[l].saw)
           w == wire[l]
<1>1. w \in Seq(Markers \cup Calls)
  BY DEF TypeOK
<1>2. call \in Calls
  BY SMTT(30) DEF TypeOK, Call, Calls, Ops
<1>3. Marker(op[l].dep) \in Markers
  BY DEF TypeOK, Marker, Markers, Ops
<1>4. Frames(l) = IF NeedsMarker(l) THEN Append(Append(w, Marker(op[l].dep)), call)
                                    ELSE Append(w, call)
  BY DEF Frames
<1> HIDE DEF call, w
<1>5. NeedsMarker(l) \in BOOLEAN
  BY SMT DEF NeedsMarker
<1>6. CASE NeedsMarker(l)
  BY SMT, <1>1, <1>2, <1>3, <1>4, <1>6 DEF call, w
<1>7. CASE ~ NeedsMarker(l)
  BY SMT, <1>1, <1>2, <1>4, <1>7 DEF call, w
<1> QED
  BY <1>5, <1>6, <1>7

LEMMA CallWriteStep ==
    ASSUME IInv, NEW l \in Lanes, CallWrite(l)
    PROVE  IInv'
<1> USE DEF IInv
<1>1. pc[l] = "building" /\ prefixStream' = l
  BY DEF CallWrite
<1>2. UNCHANGED <<issued, published, returned, downC, answered, downS>>
  BY DEF CallWrite
<1>3. UNCHANGED <<spc, cur, want, serving, completed, ended, closedS>>
  BY DEF CallWrite, serverVars
<1>4. FailureInv' /\ ServedPrefixExact'
  BY <1>2, <1>3 DEF FailureInv, ServedPrefixExact
<1>5. FenceRespected'
  BY <1>3 DEF FenceRespected
<1>6. LanePrefix(l) \in Nat /\ CoveredPrefix(l) \in Nat
  BY DEF LanePrefix, CoveredPrefix, TypeOK, Ops
<1>7. LanePrefix(l) <= issued /\ CoveredPrefix(l) <= issued
  BY SMT DEF LanePrefix, CoveredPrefix, TypeOK, Ops, PrefixInv, PublishedInv
<1>8. CASE downC
  <2>1. /\ pc' = [pc EXCEPT ![l] = "idle"] /\ builder' = NoLane
        /\ op' = [op EXCEPT ![l] = NoOp] /\ prefix' = LanePrefix(l)
        /\ wire' = wire
    BY <1>8 DEF CallWrite
  <2>2. TypeOK'
    <3>1. NoOp \in Ops
      BY SMTT(30) DEF NoOp, Ops
    <3> QED
      BY <1>1, <1>2, <1>3, <1>6, <2>1, <3>1 DEF TypeOK
  <2>3. BuilderInv' /\ PublishedInv'
    BY SMTT(30), <1>1, <1>2, <1>8, <2>1, LanesAssumption
    DEF BuilderInv, PublishedInv, TypeOK, NoOp, Ops
  <2>4. TicketsInv'
    BY <1>2, <1>3, <2>1 DEF TicketsInv
  <2>5. NoOverlapWait' /\ WireInv'
    BY <1>3, <2>1, CoverageStable
  <2>6. \A k \in Lanes : pc'[k] # "written"
    BY <1>1, <2>1 DEF BuilderInv, TypeOK
  <2>7. PrefixInv'
    BY SMTT(30), <1>1, <1>2, <1>3, <1>6, <1>7, <2>1, <2>6, CoverageStable
    DEF PrefixInv, LanePrefix
  <2> QED
    BY <1>4, <1>5, <2>2, <2>3, <2>4, <2>5, <2>7
<1>9. CASE ~ downC
  <2>1. /\ pc' = [pc EXCEPT ![l] = "written"] /\ prefix' = CoveredPrefix(l)
        /\ wire' = IF downS THEN wire ELSE [wire EXCEPT ![l] = Frames(l)]
        /\ builder' = builder /\ op' = op
    BY <1>9 DEF CallWrite
  <2>2. issued = published + (IF op[l].async THEN 1 ELSE 0)
    BY <1>1, <1>9 DEF PublishedInv
  <2>3. op[l].async => issued > 0
    BY SMT, <2>2 DEF TypeOK
  <2> DEFINE w == wire[l]
             f == Frames(l)
             call == Call(op[l].async, IF op[l].async THEN issued - 1 ELSE 0, op[l].saw)
  <2>4. /\ f \in Seq(Markers \cup Calls)
        /\ Len(f) = Len(w) + (IF NeedsMarker(l) THEN 2 ELSE 1)
        /\ \A i \in 1 .. Len(w) : f[i] = w[i]
        /\ NeedsMarker(l) => f[Len(w) + 1] = Marker(op[l].dep)
        /\ f[Len(f)] = call
        /\ call \in Calls
    BY <2>3, FramesFacts
  <2> HIDE DEF f
  <2>w. wire' = IF downS THEN wire ELSE [wire EXCEPT ![l] = f]
    BY <2>1 DEF f
  <2>5. TypeOK'
    <3>1. wire' \in [Lanes -> Seq(Markers \cup Calls)]
      BY SMTT(30), <2>4, <2>w DEF TypeOK
    <3> QED
      BY SMTT(30), <1>1, <1>2, <1>3, <1>6, <2>1, <3>1 DEF TypeOK
  <2>6. BuilderInv' /\ PublishedInv'
    BY <1>1, <1>2, <1>9, <2>1, <2>2 DEF BuilderInv, PublishedInv, TypeOK
  <2>7. \A k \in Lanes : pc'[k] = "written" => k = l
    BY <1>1, <2>1 DEF BuilderInv, TypeOK
  <2>8. CASE downS
    <3>1. wire' = wire
      BY SMTT(30), <2>1, <2>8
    <3>2. TicketsInv' /\ NoOverlapWait' /\ WireInv'
      BY <1>2, <1>3, <3>1, CoverageStable DEF TicketsInv
    <3>3. PrefixInv'
      BY <1>1, <1>2, <1>7, <2>1, <2>7, <2>8 DEF PrefixInv
    <3> QED
      BY <1>4, <1>5, <2>5, <2>6, <3>2, <3>3
  <2>9. CASE ~ downS
    <3>1. wire' = [wire EXCEPT ![l] = f]
      BY <2>w, <2>9
    <3>2. wire'[l] = f /\ \A k \in Lanes : k # l => wire'[k] = wire[k]
      BY <3>1 DEF TypeOK
    <3>3. call.type # "marker" /\ call.after = op[l].saw
          /\ (op[l].async => call.type = "async" /\ call.ticket = issued - 1)
          /\ (~ op[l].async => call.type = "sync")
      BY DEF Call
    <3>4. Marker(op[l].dep).type = "marker" /\ Marker(op[l].dep).upto = op[l].dep
      BY SMTT(30) DEF Marker
    <3> HIDE DEF call
    <3>5. Len(w) \in Nat /\ Len(f) \in Nat
      BY SMT, <2>4 DEF TypeOK
    <3>6. NeedsMarker(l) \in BOOLEAN
      BY SMT DEF NeedsMarker
    <3>n. Len(f) > Len(w)
      <4>1. CASE NeedsMarker(l)
        BY SMT, <2>4, <3>5, <4>1
      <4>2. CASE ~ NeedsMarker(l)
        BY SMT, <2>4, <3>5, <4>2
      <4> QED
        BY <3>6, <4>1, <4>2
    <3>i. ASSUME NEW i \in 1 .. Len(f), i \notin 1 .. Len(w)
          PROVE  \/ i = Len(f) /\ f[i] = call
                 \/ /\ NeedsMarker(l) /\ i = Len(w) + 1 /\ i + 1 = Len(f)
                    /\ f[i] = Marker(op[l].dep) /\ f[i + 1] = call
      <4>1. CASE NeedsMarker(l)
        <5>1. Len(f) = Len(w) + 2
          BY <2>4, <4>1
        <5>2. i = Len(w) + 1 \/ i = Len(f)
          BY SMT, <3>5, <5>1, <3>i
        <5> QED
          BY SMT, <2>4, <3>5, <4>1, <5>1, <5>2
      <4>2. CASE ~ NeedsMarker(l)
        <5>1. Len(f) = Len(w) + 1
          BY <2>4, <4>2
        <5>2. i = Len(f)
          BY SMT, <3>5, <5>1, <3>i
        <5> QED
          BY <2>4, <5>2
      <4> QED
        BY <3>6, <4>1, <4>2
    <3>7. TicketsInv'
      <4>1. ASSUME NEW i \in 1 .. Len(f), f[i].type = "async"
            PROVE  f[i].ticket < issued
        <5>1. CASE i \in 1 .. Len(w)
          BY <2>4, <4>1, <5>1 DEF TicketsInv
        <5>2. CASE i \notin 1 .. Len(w)
          <6>1. f[i] = call
            BY SMTT(30), <3>4, <3>i, <4>1, <5>2
          <6>2. op[l].async /\ f[i].ticket = issued - 1
            BY <3>3, <4>1, <6>1
          <6> QED
            BY SMTT(30), <2>3, <6>2 DEF TypeOK
        <5> QED
          BY <5>1, <5>2
      <4> QED
        BY <1>2, <1>3, <3>2, <4>1 DEF TicketsInv
    <3>8. NoOverlapWait'
      <4>1. ASSUME NEW i \in 1 .. Len(f), f[i].type = "marker"
            PROVE  i < Len(f) /\ \A t \in 0 .. (f[i].upto - 1) : t \in f[i + 1].after
        <5>1. CASE i \in 1 .. Len(w)
          <6>1. w[i].type = "marker" /\ w[i].upto = f[i].upto
            BY <2>4, <4>1, <5>1
          <6>2. i + 1 \in 1 .. Len(w)
            BY SMTT(30), <3>5, <5>1, <6>1 DEF NoOverlapWait
          <6>3. QED
            <7>1. f[i + 1] = w[i + 1]
              BY <2>4, <6>2
            <7>2. \A t \in 0 .. (w[i].upto - 1) : t \in w[i + 1].after
              BY <5>1, <6>1 DEF NoOverlapWait
            <7>3. i < Len(f)
              BY SMT, <3>5, <3>n, <5>1
            <7> QED
              BY <6>1, <7>1, <7>2, <7>3
        <5>2. CASE i \notin 1 .. Len(w)
          <6>1. NeedsMarker(l) /\ i = Len(w) + 1 /\ i + 1 = Len(f)
            BY SMTT(30), <3>3, <3>i, <4>1, <5>2
          <6>2. f[i].upto = op[l].dep /\ f[i + 1].after = op[l].saw
            BY SMTT(30), <3>3, <3>4, <3>i, <5>2, <6>1, <4>1
          <6> QED
            BY SMTT(30), <3>5, <6>1, <6>2 DEF PublishedInv, TypeOK, Ops
        <5> QED
          BY <5>1, <5>2
      <4> QED
        BY <3>2, <4>1 DEF NoOverlapWait
    <3>9. \A k \in Lanes, i \in Nat : \A t : k # l => (Covered(k, i, t) <=> Covered(k, i, t)')
      BY SMTT(30), <1>3, <3>2 DEF Covered, WorkerCovers, FrameCovers
    <3>10. \A i \in 1 .. (Len(w) + 1), j \in Nat : \A t :
              Covered(l, i, t) /\ i <= j => Covered(l, j, t)'
      <4>1. SUFFICES ASSUME NEW i \in 1 .. (Len(w) + 1), NEW j \in Nat, NEW t,
                            Covered(l, i, t), i <= j
                     PROVE  Covered(l, j, t)'
        OBVIOUS
      <4>2. CASE t \in ended \/ WorkerCovers(l, t)
        BY SMTT(30), <1>3, <4>2 DEF Covered, WorkerCovers
      <4>3. CASE \E n \in 1 .. (i - 1) : FrameCovers(w[n], t)
        <5>1. PICK n \in 1 .. (i - 1) : FrameCovers(w[n], t)
          BY <4>3
        <5>2. n \in 1 .. Len(w) /\ n \in 1 .. (j - 1)
          BY SMT, <3>5, <4>1, <5>1
        <5>3. FrameCovers(wire'[l][n], t)
          BY <2>4, <3>2, <5>1, <5>2
        <5> QED
          BY <5>2, <5>3 DEF Covered, FrameCovers
      <4> QED
        BY <4>1, <4>2, <4>3 DEF Covered
    <3>11. ASSUME NEW t \in 0 .. (CoveredPrefix(l) - 1), NEW j \in Nat,
                  j >= Len(f)
           PROVE  Covered(l, j, t)'
      <4>1. CASE NeedsMarker(l)
        <5>0. Len(f) = Len(w) + 2
          BY <2>4, <4>1
        <5>1. t < op[l].dep /\ Len(w) + 1 \in 1 .. (j - 1)
          <6>1. t < op[l].dep
            BY SMT, <4>1 DEF CoveredPrefix, TypeOK, Ops
          <6>2. Len(w) + 1 \in 1 .. (j - 1)
            BY SMT, <3>5, <3>11, <5>0
          <6> QED
            BY <6>1, <6>2
        <5>2. FrameCovers(wire'[l][Len(w) + 1], t)
          BY <2>4, <3>2, <3>4, <4>1, <5>1 DEF FrameCovers
        <5> QED
          BY <5>1, <5>2 DEF Covered, FrameCovers
      <4>2. CASE ~ NeedsMarker(l)
        <5>1. prefixStream = l /\ t \in 0 .. (prefix - 1)
          BY SMTT(30), <4>2 DEF CoveredPrefix, LanePrefix, TypeOK
        <5>2. Covered(l, Len(w) + 1, t)
          BY <2>9, <5>1 DEF PrefixInv
        <5>3. Len(w) + 1 \in 1 .. (Len(w) + 1) /\ Len(w) + 1 <= j
          BY SMTT(30), <3>5, <3>n, <3>11
        <5> QED
          BY <3>10, <5>2, <5>3
      <4> QED
        BY SMTT(30), <3>6, <4>1, <4>2
    <3>12. WireInv'
      <4>1. ASSUME NEW i \in 1 .. Len(f), f[i].type # "marker",
                   NEW t \in f[i].after, spc[l] # "dead"
            PROVE  Covered(l, i, t)'
        <5>1. CASE i \in 1 .. Len(w)
          <6>1. Covered(l, i, t)
            BY <2>4, <4>1, <5>1 DEF WireInv
          <6>2. i \in 1 .. (Len(w) + 1) /\ i \in Nat /\ i <= i
            BY SMT, <3>5, <5>1
          <6> QED
            BY <3>10, <6>1, <6>2
        <5>2. CASE i \notin 1 .. Len(w)
          <6>1. i = Len(f)
            BY <3>4, <3>i, <4>1, <5>2
          <6>2. t \in op[l].saw
            BY <2>4, <3>3, <4>1, <6>1
          <6>3. t \in 0 .. (op[l].dep - 1)
            BY SMTT(30), <6>2 DEF PublishedInv, TypeOK, Ops
          <6>4. t \in 0 .. (CoveredPrefix(l) - 1)
            BY SMTT(30), <1>6, <6>3 DEF CoveredPrefix, NeedsMarker, TypeOK, Ops
          <6> QED
            BY SMTT(30), <3>5, <3>11, <6>1, <6>4
        <5> QED
          BY <5>1, <5>2
      <4>2. ASSUME NEW k \in Lanes, k # l, spc'[k] # "dead",
                   NEW i \in 1 .. Len(wire'[k]), wire'[k][i].type # "marker",
                   NEW t \in wire'[k][i].after
            PROVE  Covered(k, i, t)'
        BY SMTT(30), <1>3, <3>2, <3>9, <4>2 DEF WireInv
      <4> QED
        BY <1>3, <3>2, <4>1, <4>2 DEF WireInv
    <3>13. PrefixInv'
      <4>1. PICK m \in Nat : m = Len(f)
        BY <3>5
      <4>2. Len(wire'[l]) + 1 = m + 1 /\ m >= 1
        BY SMT, <3>2, <3>5, <3>n, <4>1
      <4>3. \A t \in 0 .. (prefix' - 1) : Covered(l, m + 1, t)'
        BY SMT, <2>1, <3>11, <4>1
      <4>4. op[l].async => Covered(l, m + 1, issued - 1)'
        <5>1. op[l].async => FrameCovers(wire[l][m], issued - 1)'
          BY <1>2, <2>4, <3>2, <3>3, <4>1 DEF FrameCovers
        <5>2. m \in 1 .. (m + 1 - 1)
          BY SMT, <4>2
        <5> QED
          BY SMT, <5>1, <5>2 DEF Covered
      <4>5. ASSUME NEW k \in Lanes, prefixStream' = k, ~ downS',
                   NEW t \in 0 .. (prefix' - 1)
            PROVE  Covered(k, Len(wire[k]) + 1, t)'
        BY <1>1, <4>2, <4>3, <4>5 DEF Covered
      <4>6. ASSUME NEW k \in Lanes, pc'[k] = "written", op'[k].async
            PROVE  Covered(k, Len(wire[k]) + 1, issued - 1)'
        BY <2>1, <2>7, <4>2, <4>4, <4>6 DEF Covered
      <4> QED
        BY <1>1, <1>2, <1>7, <2>1, <2>7, <4>5, <4>6 DEF PrefixInv
    <3> QED
      BY <1>4, <1>5, <2>5, <2>6, <3>7, <3>8, <3>12, <3>13
  <2> QED
    BY <2>8, <2>9
<1> QED
  BY <1>8, <1>9

-----------------------------------------------------------------------------
(* The server's steps. *)

\* A ticket below a count of tickets is a natural number.
LEMMA BelowNat ==
    ASSUME NEW n \in Nat, NEW t \in 0 .. (n - 1)
    PROVE  t \in Nat
BY SMT

\* A worker's step keeps what is said of the client, and of the lanes when no
\* live worker loses the coverage of a ticket.
LEMMA WorkerStepKeeps ==
    ASSUME IInv, UNCHANGED <<clientVars, downC, wire>>, downS => downS',
           \A k \in Lanes : spc'[k] # "dead" => spc[k] # "dead",
           \A k \in Lanes : spc'[k] = "dead" => downS',
           \A k \in Lanes, i \in Nat, t \in Nat :
              spc'[k] # "dead" /\ Covered(k, i, t) => Covered(k, i, t)'
    PROVE  BuilderInv' /\ PublishedInv' /\ NoOverlapWait' /\ WireInv' /\ PrefixInv'
<1> USE DEF IInv, clientVars
<1>1. BuilderInv' /\ PublishedInv' /\ NoOverlapWait'
  BY BuilderKept, PublishedKept DEF NoOverlapWait
<1>2. WireInv'
  <2>1. SUFFICES ASSUME NEW k \in Lanes, spc'[k] # "dead",
                        NEW i \in 1 .. Len(wire[k]), wire[k][i].type # "marker",
                        NEW t \in wire[k][i].after
                 PROVE  Covered(k, i, t)'
    BY DEF WireInv
  <2>2. Covered(k, i, t)
    BY <2>1 DEF WireInv
  <2>3. i \in Nat /\ t \in Nat
    BY SMT, <2>1 DEF TypeOK, Calls, Markers
  <2> QED
    BY <2>1, <2>2, <2>3
<1>3. PrefixInv'
  <2>1. ASSUME NEW k \in Lanes, prefixStream = k, ~ downS', NEW t \in 0 .. (prefix - 1)
        PROVE  Covered(k, Len(wire[k]) + 1, t)'
    <3>1. PICK m \in Nat : m = Len(wire[k]) + 1
      BY SMT DEF TypeOK
    <3>2. Covered(k, m, t)
      BY <2>1, <3>1 DEF PrefixInv
    <3>3. t \in Nat
      <4>1. prefix \in Nat
        BY DEF TypeOK
      <4> QED
        BY <4>1, BelowNat
    <3>4. Covered(k, m, t)'
      BY <2>1, <3>2, <3>3
    <3> QED
      BY <3>1, <3>4 DEF Covered
  <2>2. ASSUME NEW k \in Lanes, pc[k] = "written", op[k].async, ~ downS'
        PROVE  Covered(k, Len(wire[k]) + 1, issued - 1)'
    <3>1. PICK m \in Nat : m = Len(wire[k]) + 1
      BY SMT DEF TypeOK
    <3>2. PICK t \in Nat : t = issued - 1
      BY SMT, <2>2 DEF PublishedInv, TypeOK
    <3>3. Covered(k, m, t)
      BY <2>2, <3>1, <3>2 DEF PrefixInv
    <3>4. Covered(k, m, t)'
      BY <2>2, <3>3
    <3> QED
      BY <3>1, <3>2, <3>4 DEF Covered
  <2> QED
    BY <2>1, <2>2 DEF PrefixInv
<1> QED
  BY <1>1, <1>2, <1>3

LEMMA SequenceWaitStep ==
    ASSUME IInv, NEW l \in Lanes, SequenceWait(l)
    PROVE  IInv'
<1> USE DEF IInv, SequenceWait
<1>1. TypeOK'
  BY DEF TypeOK, clientVars
<1>2. TicketsInv' /\ ServedPrefixExact'
  BY DEF TicketsInv, ServedPrefixExact, clientVars
<1>3. FailureInv' /\ FenceRespected'
  <2>1. FailureInv'
    BY DEF FailureInv, TypeOK
  <2>2. FenceRespected'
    BY ZenonT(30) DEF FenceRespected, TypeOK
  <2> QED
    BY <2>1, <2>2
<1>4. ASSUME NEW k \in Lanes, NEW i \in Nat, NEW t \in Nat,
             spc'[k] # "dead", Covered(k, i, t)
      PROVE  Covered(k, i, t)'
  <2>1. CASE k # l
    BY <1>4, <2>1 DEF Covered, WorkerCovers, FrameCovers, TypeOK
  <2>2. CASE k = l
    <3>1. serving >= want[l]
      BY <1>4, <2>2 DEF TypeOK
    <3>2. WorkerCovers(l, t) => t \in ended
      BY SMT, <3>1 DEF WorkerCovers, ServedPrefixExact, TypeOK
    <3> QED
      BY <1>4, <2>2, <3>2 DEF Covered, FrameCovers
  <2> QED
    BY <2>1, <2>2
<1>5. BuilderInv' /\ PublishedInv' /\ NoOverlapWait' /\ WireInv' /\ PrefixInv'
  <2>1. \A k \in Lanes : spc'[k] # "dead" => spc[k] # "dead"
    BY DEF TypeOK
  <2>2. \A k \in Lanes : spc'[k] = "dead" => downS'
    BY <1>3 DEF FailureInv
  <2> QED
    BY <1>4, <2>1, <2>2, WorkerStepKeeps
<1> QED
  BY <1>1, <1>2, <1>3, <1>5

LEMMA WorkerExitStep ==
    ASSUME IInv, NEW l \in Lanes, WorkerExit(l)
    PROVE  IInv'
<1> USE DEF IInv, WorkerExit
<1>1. TypeOK'
  BY DEF TypeOK, clientVars
<1>2. TicketsInv' /\ ServedPrefixExact'
  BY DEF TicketsInv, ServedPrefixExact, clientVars
<1>3. FailureInv' /\ FenceRespected'
  BY DEF FailureInv, FenceRespected, TypeOK
<1>4. ASSUME NEW k \in Lanes, NEW i \in Nat, NEW t \in Nat,
             spc'[k] # "dead", Covered(k, i, t)
      PROVE  Covered(k, i, t)'
  BY <1>4 DEF Covered, WorkerCovers, FrameCovers, TypeOK
<1>5. BuilderInv' /\ PublishedInv' /\ NoOverlapWait' /\ WireInv' /\ PrefixInv'
  <2>1. \A k \in Lanes : spc'[k] # "dead" => spc[k] # "dead"
    BY DEF TypeOK
  <2>2. \A k \in Lanes : spc'[k] = "dead" => downS'
    BY <1>3 DEF FailureInv
  <2> QED
    BY <1>4, <2>1, <2>2, WorkerStepKeeps
<1> QED
  BY <1>1, <1>2, <1>3, <1>5

LEMMA SequenceBeginStep ==
    ASSUME IInv, NEW l \in Lanes, SequenceBegin(l)
    PROVE  IInv'
<1> USE DEF IInv, SequenceBegin
<1>1. TypeOK'
  BY DEF TypeOK, clientVars
<1>2. TicketsInv' /\ ServedPrefixExact'
  BY DEF TicketsInv, ServedPrefixExact, clientVars
<1>3. FailureInv' /\ FenceRespected'
  BY DEF FailureInv, FenceRespected, TypeOK
<1>4. ASSUME NEW k \in Lanes, NEW i \in Nat, NEW t \in Nat,
             spc'[k] # "dead", Covered(k, i, t)
      PROVE  Covered(k, i, t)'
  BY <1>4 DEF Covered, WorkerCovers, FrameCovers, TypeOK
<1>5. BuilderInv' /\ PublishedInv' /\ NoOverlapWait' /\ WireInv' /\ PrefixInv'
  <2>1. \A k \in Lanes : spc'[k] # "dead" => spc[k] # "dead"
    BY DEF TypeOK
  <2>2. \A k \in Lanes : spc'[k] = "dead" => downS'
    BY <1>3 DEF FailureInv
  <2> QED
    BY <1>4, <2>1, <2>2, WorkerStepKeeps
<1> QED
  BY <1>1, <1>2, <1>3, <1>5

LEMMA HandlerFailStep ==
    ASSUME IInv, NEW l \in Lanes, HandlerFail(l)
    PROVE  IInv'
<1> USE DEF IInv, HandlerFail
<1>1. TypeOK'
  <2>1. NoCall \in Calls
    BY DEF NoCall, Call, Calls
  <2> QED
    BY <2>1 DEF TypeOK, clientVars
<1>2. NoCall.type = "sync"
  BY DEF NoCall, Call
<1>3. TicketsInv' /\ ServedPrefixExact'
  BY <1>2 DEF TicketsInv, ServedPrefixExact, clientVars, TypeOK
<1>4. FailureInv' /\ FenceRespected'
  BY DEF FailureInv, FenceRespected, TypeOK
<1>5. ASSUME NEW k \in Lanes, NEW i \in Nat, NEW t \in Nat,
             spc'[k] # "dead", Covered(k, i, t)
      PROVE  Covered(k, i, t)'
  <2>1. k # l
    BY <1>5 DEF TypeOK
  <2> QED
    BY <1>5, <2>1 DEF Covered, WorkerCovers, FrameCovers, TypeOK
<1>6. BuilderInv' /\ PublishedInv' /\ NoOverlapWait' /\ WireInv' /\ PrefixInv'
  <2>1. \A k \in Lanes : spc'[k] # "dead" => spc[k] # "dead"
    BY DEF TypeOK
  <2> QED
    BY <1>5, <2>1, WorkerStepKeeps
<1> QED
  BY <1>1, <1>3, <1>4, <1>6

LEMMA FinishSyncStep ==
    ASSUME IInv, NEW l \in Lanes, FinishSync(l)
    PROVE  IInv'
<1> USE DEF IInv, FinishSync
<1>1. TypeOK'
  <2>1. NoCall \in Calls
    BY DEF NoCall, Call, Calls
  <2> QED
    BY <2>1 DEF TypeOK, clientVars
<1>2. NoCall.type = "sync"
  BY DEF NoCall, Call
<1>3. TicketsInv' /\ ServedPrefixExact'
  BY <1>2 DEF TicketsInv, ServedPrefixExact, clientVars, TypeOK
<1>4. FailureInv' /\ FenceRespected'
  BY DEF FailureInv, FenceRespected, TypeOK
<1>5. ASSUME NEW k \in Lanes, NEW i \in Nat, NEW t \in Nat,
             spc'[k] # "dead", Covered(k, i, t)
      PROVE  Covered(k, i, t)'
  <2>1. CASE k # l
    BY <1>5, <2>1 DEF Covered, WorkerCovers, FrameCovers, TypeOK
  <2>2. CASE k = l
    BY <1>5, <2>2 DEF Covered, WorkerCovers, FrameCovers, TypeOK
  <2> QED
    BY <2>1, <2>2
<1>6. BuilderInv' /\ PublishedInv' /\ NoOverlapWait' /\ WireInv' /\ PrefixInv'
  <2>1. \A k \in Lanes : spc'[k] # "dead" => spc[k] # "dead"
    BY DEF TypeOK
  <2>2. \A k \in Lanes : spc'[k] = "dead" => downS'
    BY <1>4 DEF FailureInv
  <2> QED
    BY <1>5, <2>1, <2>2, WorkerStepKeeps
<1> QED
  BY <1>1, <1>3, <1>4, <1>6

LEMMA TransportStep ==
    ASSUME IInv, ServerTransportFails \/ ClientTransportFails
    PROVE  IInv'
<1> USE DEF IInv, ServerTransportFails, ClientTransportFails, clientVars, serverVars
<1>1. TypeOK'
  BY DEF TypeOK
<1>2. BuilderInv' /\ PublishedInv'
  <2>1. BuilderInv'
    BY BuilderKept
  <2>2. PublishedInv'
    <3>1. UNCHANGED <<pc, op, builder, issued, published, returned>>
      OBVIOUS
    <3>2. downC => downC'
      OBVIOUS
    <3> QED
      BY <3>1, <3>2, PublishedKept
  <2> QED
    BY <2>1, <2>2
<1>3. TicketsInv' /\ FailureInv' /\ ServedPrefixExact'
  <2>1. TicketsInv' /\ ServedPrefixExact'
    BY DEF TicketsInv, ServedPrefixExact
  <2>2. FailureInv'
    BY SMT DEF FailureInv, TypeOK
  <2> QED
    BY <2>1, <2>2
<1>4. FenceRespected' /\ NoOverlapWait' /\ WireInv'
  BY SMTT(30), CoverageStable
<1>5. PrefixInv'
  BY SMTT(30), CoverageStable DEF PrefixInv, TypeOK
<1> QED
  BY <1>1, <1>2, <1>3, <1>4, <1>5

\* The worker takes the head of its lane: coverage by that frame becomes
\* coverage by the worker.
LEMMA DispatchStep ==
    ASSUME IInv, NEW l \in Lanes, Dispatch(l)
    PROVE  IInv'
<1> USE DEF IInv
<1> DEFINE w == wire[l]
           frame == Head(w)
<1>1. /\ spc[l] \in {"top", "read"} /\ w # <<>>
      /\ wire' = [wire EXCEPT ![l] = Tail(w)]
      /\ UNCHANGED <<clientVars, downC, answered, serving, completed, ended,
                     downS, closedS>>
  BY DEF Dispatch
<1>a. w \in Seq(Markers \cup Calls) /\ w # <<>>
  BY <1>1 DEF TypeOK
<1>2. /\ Len(w) \in Nat /\ 1 \in 1 .. Len(w)
      /\ Tail(w) \in Seq(Markers \cup Calls) /\ Len(Tail(w)) = Len(w) - 1
      /\ \A i \in 1 .. (Len(w) - 1) : Tail(w)[i] = w[i + 1]
  BY SMT, <1>a
<1>h. frame = w[1] /\ frame \in Markers \cup Calls
  BY SMT, <1>a
<1>3. /\ wire'[l] = Tail(w)
      /\ \A k \in Lanes : k # l => wire'[k] = wire[k]
  BY SMTT(30), <1>1 DEF TypeOK
<1>4. \/ /\ frame.type = "marker" /\ frame.upto \in Nat
         /\ want' = [want EXCEPT ![l] = frame.upto]
         /\ spc' = [spc EXCEPT ![l] = "wait"] /\ cur' = cur
      \/ /\ frame.type # "marker" /\ frame \in Calls
         /\ cur' = [cur EXCEPT ![l] = frame]
         /\ spc' = [spc EXCEPT ![l] = "run"] /\ want' = want
  BY <1>h DEF Dispatch, Markers, Calls
<1>5. \A k \in Lanes : k # l => spc'[k] = spc[k] /\ cur'[k] = cur[k] /\ want'[k] = want[k]
  BY <1>4 DEF TypeOK
<1>6. \/ /\ frame.type = "marker" /\ spc'[l] = "wait" /\ want'[l] = frame.upto
         /\ cur'[l] = cur[l]
      \/ frame.type # "marker" /\ spc'[l] = "run" /\ cur'[l] = frame
  BY <1>4 DEF TypeOK
<1> HIDE DEF frame
<1>7. TypeOK'
  <2>1. wire' \in [Lanes -> Seq(Markers \cup Calls)]
    BY <1>1, <1>2 DEF TypeOK
  <2>2. spc' \in [Lanes -> {"top", "read", "wait", "run", "exec", "dead"}]
    BY <1>4 DEF TypeOK
  <2>3. cur' \in [Lanes -> Calls]
    BY <1>4 DEF TypeOK
  <2>4. want' \in [Lanes -> Nat]
    BY <1>4 DEF TypeOK
  <2> QED
    BY SMTT(30), <1>1, <2>1, <2>2, <2>3, <2>4 DEF TypeOK, clientVars
<1>8. BuilderInv' /\ PublishedInv' /\ ServedPrefixExact'
  <2>1. BuilderInv' /\ PublishedInv'
    BY <1>1, BuilderKept, PublishedKept DEF clientVars
  <2>2. ServedPrefixExact'
    BY <1>1 DEF ServedPrefixExact, clientVars
  <2> QED
    BY <2>1, <2>2
<1>9. TicketsInv'
  <2>1. cur'[l].type = "async" => cur'[l].ticket < issued
    <3>1. w[1].type = "async" => w[1].ticket < issued
      BY <1>2 DEF TicketsInv
    <3>2. cur[l].type = "async" => cur[l].ticket < issued
      BY DEF TicketsInv
    <3> QED
      BY <1>h, <1>6, <3>1, <3>2
  <2>2. \A i \in 1 .. Len(wire'[l]) :
           wire'[l][i].type = "async" => wire'[l][i].ticket < issued
    <3>1. \A i \in 1 .. Len(w) : w[i].type = "async" => w[i].ticket < issued
      BY DEF TicketsInv
    <3>2. \A i \in 1 .. (Len(w) - 1) : i + 1 \in 1 .. Len(w)
      BY SMT, <1>2
    <3> QED
      BY <1>2, <1>3, <3>1, <3>2
  <2>3. ended' = ended /\ issued' = issued
    BY <1>1 DEF clientVars
  <2>4. \A k \in Lanes : cur'[k].type = "async" => cur'[k].ticket < issued
    BY <1>5, <2>1 DEF TicketsInv
  <2>5. \A k \in Lanes : \A i \in 1 .. Len(wire'[k]) :
           wire'[k][i].type = "async" => wire'[k][i].ticket < issued
    BY <1>3, <2>2 DEF TicketsInv
  <2> QED
    BY <2>3, <2>4, <2>5 DEF TicketsInv
<1>10. FailureInv'
  BY <1>1, <1>5, <1>6 DEF FailureInv
<1>11. FenceRespected'
  <2>1. ASSUME frame.type # "marker", NEW t \in frame.after
        PROVE  t \in ended
    <3>1. Covered(l, 1, t)
      <4>1. spc[l] # "dead"
        BY <1>1
      <4>2. w[1].type # "marker" /\ t \in w[1].after
        BY <1>h, <2>1
      <4> QED
        BY <1>2, <4>1, <4>2 DEF WireInv
    <3> QED
      BY SMT, <1>1, <3>1 DEF Covered, WorkerCovers
  <2> QED
    BY <1>1, <1>5, <1>6, <2>1 DEF FenceRespected
<1>12. NoOverlapWait'
  <2>1. ASSUME NEW i \in 1 .. Len(wire'[l]), wire'[l][i].type = "marker"
        PROVE  /\ i < Len(wire'[l])
               /\ \A t \in 0 .. (wire'[l][i].upto - 1) : t \in wire'[l][i + 1].after
    <3>1. i + 1 \in 1 .. Len(w) /\ wire'[l][i] = w[i + 1]
      BY SMT, <1>2, <1>3, <2>1
    <3>2. /\ i + 1 < Len(w)
          /\ \A t \in 0 .. (w[i + 1].upto - 1) : t \in w[i + 1 + 1].after
      BY <2>1, <3>1 DEF NoOverlapWait
    <3>3. wire'[l][i + 1] = w[i + 1 + 1]
      BY SMT, <1>2, <1>3, <2>1, <3>2
    <3>4. i < Len(wire'[l])
      BY SMTT(30), <1>2, <1>3, <3>2
    <3> QED
      BY <3>1, <3>2, <3>3, <3>4
  <2> QED
    BY <1>3, <2>1 DEF NoOverlapWait
<1>13. ASSUME NEW k \in Lanes, k # l, NEW i, NEW t, Covered(k, i, t)
       PROVE  Covered(k, i, t)'
  BY <1>1, <1>3, <1>5, <1>13 DEF Covered, WorkerCovers, FrameCovers
<1>14. ASSUME NEW i \in 1 .. Len(w), NEW t \in Nat, Covered(l, i + 1, t)
       PROVE  Covered(l, i, t)'
  <2>1. CASE t \in ended
    BY <1>1, <2>1 DEF Covered
  <2>2. CASE t \notin ended
    <3>1. PICK j \in 1 .. i : FrameCovers(w[j], t)
      BY SMT, <1>1, <1>14, <2>2 DEF Covered, WorkerCovers
    <3>2. CASE j = 1
      <4>1. WorkerCovers(l, t)'
        <5>1. FrameCovers(frame, t)
          BY SMTT(30), <1>h, <3>1, <3>2
        <5> QED
          BY <1>6, <5>1 DEF WorkerCovers, FrameCovers
      <4> QED
        BY <4>1 DEF Covered
    <3>3. CASE j # 1
      <4>1. j - 1 \in 1 .. (i - 1) /\ j - 1 \in 1 .. (Len(w) - 1)
        BY SMT, <1>2, <3>1, <3>3
      <4>2. wire'[l][j - 1] = w[j]
        BY SMT, <1>2, <1>3, <4>1
      <4>3. FrameCovers(wire[l][j - 1], t)'
        BY <3>1, <4>2 DEF FrameCovers
      <4> QED
        BY <4>1, <4>3 DEF Covered
    <3> QED
      BY <3>2, <3>3
  <2> QED
    BY <2>1, <2>2
<1>15. WireInv'
  <2>1. ASSUME NEW i \in 1 .. Len(wire'[l]), wire'[l][i].type # "marker",
               NEW t \in wire'[l][i].after
        PROVE  Covered(l, i, t)'
    <3>1. i \in 1 .. Len(w) /\ i + 1 \in 1 .. Len(w) /\ wire'[l][i] = w[i + 1]
      BY SMTT(30), <1>2, <1>3, <2>1
    <3>2. Covered(l, i + 1, t)
      BY <1>1, <2>1, <3>1 DEF WireInv
    <3>3. t \in Nat
      <4>1. w[i + 1] \in Calls
        BY SMTT(30), <1>a, <2>1, <3>1 DEF Markers
      <4> QED
        BY <2>1, <3>1, <4>1 DEF Calls
    <3> QED
      BY <1>14, <3>1, <3>2, <3>3
  <2>2. ASSUME NEW k \in Lanes, k # l, spc'[k] # "dead",
               NEW i \in 1 .. Len(wire'[k]), wire'[k][i].type # "marker",
               NEW t \in wire'[k][i].after
        PROVE  Covered(k, i, t)'
    BY SMTT(30), <1>3, <1>5, <1>13, <2>2 DEF WireInv
  <2> QED
    BY <2>1, <2>2 DEF WireInv
<1>16. PrefixInv'
  <2>1. ASSUME NEW k \in Lanes, NEW t \in Nat, Covered(k, Len(wire[k]) + 1, t)
        PROVE  Covered(k, Len(wire[k]) + 1, t)'
    <3>1. PICK m : m = Len(wire[k]) + 1
      OBVIOUS
    <3>2. CASE k # l
      <4>1. Covered(k, m, t)'
        BY <1>13, <2>1, <3>1, <3>2
      <4> QED
        BY <1>3, <3>1, <3>2, <4>1 DEF Covered
    <3>3. CASE k = l
      <4>1. PICK n \in 1 .. Len(w) : n = Len(w) /\ m = n + 1
        BY SMT, <1>2, <3>1, <3>3
      <4>2. Covered(l, n, t)'
        BY <1>14, <2>1, <3>1, <3>3, <4>1
      <4>3. Len(wire'[l]) + 1 = n
        BY SMTT(30), <1>2, <1>3, <4>1
      <4> QED
        BY <3>3, <4>2, <4>3 DEF Covered
    <3> QED
      BY <3>2, <3>3
  <2>2. \A k \in Lanes : pc[k] = "written" /\ op[k].async => issued - 1 \in Nat
    <3>1. issued \in Nat /\ published \in Nat
      BY DEF TypeOK
    <3>2. \A k \in Lanes : pc[k] = "written" /\ op[k].async => issued = published + 1
      BY DEF PublishedInv
    <3> QED
      BY SMT, <3>1, <3>2
  <2>3. ASSUME NEW k \in Lanes, prefixStream = k, ~ downS, NEW t \in 0 .. (prefix - 1)
        PROVE  Covered(k, Len(wire[k]) + 1, t)'
    BY SMT, <2>1, <2>3 DEF PrefixInv
  <2>4. ASSUME NEW k \in Lanes, pc[k] = "written", op[k].async, ~ downS
        PROVE  Covered(k, Len(wire[k]) + 1, issued - 1)'
    <3>1. PICK t \in Nat : t = issued - 1
      BY <2>2, <2>4
    <3>2. Covered(k, Len(wire[k]) + 1, t)
      BY <2>4, <3>1 DEF PrefixInv
    <3>3. Covered(k, Len(wire[k]) + 1, t)'
      BY <2>1, <3>2
    <3> QED
      BY ZenonT(30), <1>1, <3>1, <3>3 DEF Covered, clientVars
  <2> QED
    BY <1>1, <2>3, <2>4 DEF PrefixInv, clientVars
<1> QED
  BY <1>7, <1>8, <1>9, <1>10, <1>11, <1>12, <1>15, <1>16

-----------------------------------------------------------------------------
(* The sequence rpc_async_sequence_end advances to. *)

INSTANCE WellFoundedInduction

\* A bounded set of naturals misses a least number above t.
LEMMA LeastAbsent ==
    ASSUME NEW t \in Nat, NEW b \in Nat, NEW S, S \subseteq 0 .. (b - 1)
    PROVE  \E n \in Nat : /\ n > t /\ n \notin S
                          /\ \A k \in (t + 1) .. (n - 1) : k \in S
<1> DEFINE R == OpToRel(<, Nat)
           T == {n \in Nat : n > t /\ n \notin S}
<1>1. IsWellFoundedOn(R, Nat)
  BY NatLessThanWellFounded
<1>2. t + b + 1 \in T
  BY SMT
<1>3. PICK n \in T : \A y \in T : ~ (<<y, n>> \in R)
  <2> HIDE DEF R, T
  <2>1. T \subseteq Nat
    BY DEF T
  <2> QED
    BY <1>1, <1>2, <2>1, WFMin
<1>4. \A y \in T : ~ (y < n)
  BY <1>3 DEF OpToRel
<1> QED
  BY SMT, <1>4

\* NextServing is the end of the run of completed tickets that follows t.
LEMMA NextServingFacts ==
    ASSUME NEW t \in Nat, NEW b \in Nat, completed \subseteq 0 .. (b - 1)
    PROVE  /\ NextServing(t) \in Nat
           /\ NextServing(t) > t
           /\ NextServing(t) \notin completed
           /\ \A k \in (t + 1) .. (NextServing(t) - 1) : k \in completed
<1>1. PICK n \in Nat : /\ n > t /\ n \notin completed
                       /\ \A k \in (t + 1) .. (n - 1) : k \in completed
  BY LeastAbsent
<1>2. n \in {t + 1} \cup {k + 1 : k \in completed}
  <2>1. CASE n = t + 1
    BY <2>1
  <2>2. CASE n # t + 1
    <3>1. n - 1 \in completed
      BY SMTT(30), <1>1, <2>2
    <3> QED
      BY SMT, <3>1
  <2> QED
    BY <2>1, <2>2
<1>3. {t + 1} \cup {k + 1 : k \in completed} \subseteq Nat
  BY SMT
<1> QED
  BY <1>1, <1>2, <1>3 DEF NextServing

\* rpc_async_sequence_end keeps the served prefix exact, whatever the order in
\* which tickets end.
LEMMA SequenceEndExact ==
    ASSUME TypeOK, TicketsInv, ServedPrefixExact, NEW t \in Nat, SequenceEnd(t),
           ended' = ended \cup {t}
    PROVE  ServedPrefixExact' /\ serving' \in Nat /\ completed' \in SUBSET Nat
<1>1. completed \subseteq 0 .. (issued - 1)
  BY DEF ServedPrefixExact, TicketsInv
<1>2. CASE t = serving
  <2>1. PICK n \in Nat : /\ n = NextServing(t) /\ n > t /\ n \notin completed
                         /\ \A k \in (t + 1) .. (n - 1) : k \in completed
    BY <1>1, NextServingFacts DEF TypeOK
  <2>2. serving' = n /\ completed' = {k \in completed : k > n}
    BY <1>2, <2>1 DEF SequenceEnd
  <2>3. ASSUME NEW k \in Nat
        PROVE  k \in ended' <=> k \in (0 .. (n - 1)) \cup completed'
    BY SMT, <1>2, <2>1, <2>2 DEF ServedPrefixExact, TypeOK
  <2>4. ended' \subseteq Nat
    BY DEF TypeOK
  <2>5. completed' \subseteq Nat
    BY <2>2 DEF TypeOK
  <2>6. ended' = (0 .. (n - 1)) \cup completed'
    <3>1. \A k \in (0 .. (n - 1)) \cup completed' : k \in Nat
      BY SMT, <2>5
    <3> QED
      BY <2>3, <2>4, <3>1
  <2> QED
    BY <2>2, <2>6 DEF ServedPrefixExact, TypeOK
<1>3. CASE t # serving
  <2>1. serving' = serving /\ completed' = IF t > serving THEN completed \cup {t} ELSE completed
    BY <1>3 DEF SequenceEnd
  <2>2. CASE t > serving
    BY <2>1, <2>2 DEF ServedPrefixExact, TypeOK
  <2>3. CASE ~ (t > serving)
    <3>1. t \in 0 .. (serving - 1)
      BY SMTT(30), <1>3, <2>3 DEF TypeOK
    <3> QED
      BY <2>1, <2>3, <3>1 DEF ServedPrefixExact, TypeOK
  <2> QED
    BY <2>2, <2>3
<1> QED
  BY <1>2, <1>3

LEMMA FinishAsyncStep ==
    ASSUME IInv, NEW l \in Lanes, FinishAsync(l)
    PROVE  IInv'
<1> USE DEF IInv
<1>1. PICK t0 \in Nat : t0 = cur[l].ticket
  BY DEF TypeOK, Calls
<1>2. /\ spc[l] = "exec" /\ cur[l].type = "async" /\ t0 < issued
  BY <1>1 DEF FinishAsync, FailureInv, TicketsInv
<1>3. /\ ended' = ended \cup {t0}
      /\ spc' = [spc EXCEPT ![l] = "top"] /\ cur' = [cur EXCEPT ![l] = NoCall]
      /\ UNCHANGED <<clientVars, downC, wire, answered, want, downS, closedS>>
  BY <1>1 DEF FinishAsync
<1>4. ServedPrefixExact' /\ serving' \in Nat /\ completed' \in SUBSET Nat
  BY <1>1, <1>3, SequenceEndExact DEF FinishAsync
<1>5. NoCall \in Calls /\ NoCall.type = "sync"
  BY DEF NoCall, Call, Calls
<1>6. TypeOK'
  BY <1>3, <1>4, <1>5 DEF TypeOK, clientVars
<1>7. TicketsInv'
  <2>1. ended' \subseteq 0 .. (issued - 1)
    <3>1. issued \in Nat /\ ended \subseteq 0 .. (issued - 1)
      BY DEF TicketsInv, TypeOK
    <3>2. t0 \in 0 .. (issued - 1)
      BY SMTT(30), <1>2, <3>1
    <3> QED
      BY <1>3, <3>1, <3>2
  <2>2. \A k \in Lanes : cur'[k].type = "async" => cur'[k] = cur[k]
    BY <1>3, <1>5 DEF TypeOK
  <2>3. wire' = wire /\ issued' = issued
    BY <1>3 DEF clientVars
  <2> QED
    BY <2>1, <2>2, <2>3 DEF TicketsInv
<1>8. FailureInv' /\ FenceRespected'
  BY <1>3 DEF FailureInv, FenceRespected, TypeOK
<1>9. ASSUME NEW k \in Lanes, NEW i \in Nat, NEW t \in Nat,
             spc'[k] # "dead", Covered(k, i, t)
      PROVE  Covered(k, i, t)'
  <2>1. CASE k # l
    <3>1. spc'[k] = spc[k] /\ cur'[k] = cur[k] /\ want'[k] = want[k] /\ wire'[k] = wire[k]
      BY <1>3, <2>1 DEF TypeOK
    <3> QED
      BY <1>3, <1>9, <3>1, LaneKept
  <2>2. CASE k = l
    <3>1. WorkerCovers(l, t) => t \in ended'
      BY <1>1, <1>2, <1>3 DEF WorkerCovers
    <3> QED
      BY <1>3, <1>9, <2>2, <3>1 DEF Covered, FrameCovers
  <2> QED
    BY SMTT(30), <2>1, <2>2
<1>10. BuilderInv' /\ PublishedInv' /\ NoOverlapWait' /\ WireInv' /\ PrefixInv'
  <2>1. \A k \in Lanes : spc'[k] # "dead" => spc[k] # "dead"
    BY <1>2, <1>3 DEF TypeOK
  <2>2. \A k \in Lanes : spc'[k] = "dead" => downS'
    BY <1>8 DEF FailureInv
  <2> QED
    BY <1>3, <1>9, <2>1, <2>2, WorkerStepKeeps
<1> QED
  BY <1>4, <1>6, <1>7, <1>8, <1>10

-----------------------------------------------------------------------------
LEMMA NextIInv == IInv /\ [Next]_vars => IInv'
<1> SUFFICES ASSUME IInv, [Next]_vars PROVE IInv'
  OBVIOUS
<1>1. CASE UNCHANGED vars
  <2>1. UNCHANGED <<pc, op, builder, issued, published, prefixStream, prefix,
                    returned, downC, answered, serving, completed, downS, closedS>>
    BY <1>1 DEF vars
  <2>2. wire' = wire /\ spc' = spc /\ cur' = cur /\ want' = want /\ ended' = ended
    BY SMTT(30), <1>1 DEF vars
  <2>3. TypeOK' /\ BuilderInv' /\ PublishedInv'
    <3>1. TypeOK'
      BY SMTT(30), <2>1, <2>2 DEF IInv, TypeOK
    <3>2. BuilderInv' /\ PublishedInv'
      BY <2>1, BuilderKept, PublishedKept DEF IInv
    <3> QED
      BY <3>1, <3>2
  <2>4. TicketsInv' /\ FailureInv' /\ ServedPrefixExact'
    BY <2>1, <2>2 DEF IInv, TicketsInv, FailureInv, ServedPrefixExact
  <2>5. FenceRespected' /\ NoOverlapWait' /\ WireInv'
    BY SMTT(30), <2>2, CoverageStable DEF IInv
  <2>6. PrefixInv'
    BY <2>1, <2>2, CoverageStable DEF IInv, PrefixInv
  <2> QED
    BY <2>3, <2>4, <2>5, <2>6 DEF IInv
<1>2. ASSUME NEW l \in Lanes, Thread(l)
      PROVE  IInv'
  BY <1>2, CallEnterStep, CallStartStep, CallRejectStep, CallWriteStep,
     CallPublishStep, CallReturnStep DEF Thread
<1>3. ASSUME NEW l \in Lanes, Worker(l)
      PROVE  IInv'
  BY <1>3, DispatchStep, SequenceWaitStep, WorkerExitStep, SequenceBeginStep,
     HandlerFailStep, FinishAsyncStep, FinishSyncStep DEF Worker
<1> QED
  BY <1>1, <1>2, <1>3, TransportStep DEF Next

\* The inductive invariant holds in every reachable state.
THEOREM AsyncOrderInvariant == Spec => []IInv
  BY InitIInv, NextIInv, PTL DEF Spec

\* Type correctness for any set of lanes and any number of calls.
THEOREM AsyncOrderTypes == Spec => []TypeOK
<1>1. IInv => TypeOK
  BY DEF IInv
<1> QED
  BY <1>1, AsyncOrderInvariant, PTL

\* No request ever reaches its handler before the fire-and-forget calls that
\* had returned when it was made: the markers rpc_write_end omits are exactly
\* the ones the lane's own order makes superfluous.
THEOREM FencesHold == Spec => []FenceRespected
<1>1. IInv => FenceRespected
  BY DEF IInv
<1> QED
  BY <1>1, AsyncOrderInvariant, PTL

\* rpc_async_sequence_end joins out-of-order completions into the served
\* prefix without losing or inventing one.
THEOREM ServedPrefixIsExact == Spec => []ServedPrefixExact
<1>1. IInv => ServedPrefixExact
  BY DEF IInv
<1> QED
  BY <1>1, AsyncOrderInvariant, PTL

\* A marker waits only for calls that had returned when its request was made,
\* so a request never waits for one that overlaps it.
THEOREM MarkersNeverOverlap == Spec => []NoOverlapWait
<1>1. IInv => NoOverlapWait
  BY DEF IInv
<1> QED
  BY <1>1, AsyncOrderInvariant, PTL

=============================================================================
