------------------------ MODULE HandoffBarrierProofs ------------------------
(***************************************************************************)
(* What the socket barrier of a handoff is for, for any number of threads  *)
(* and of connections.  As long as the transport has not failed, where the *)
(* checkpoint thread is, what the supervisor expects and which commands    *)
(* are under way determine each other; from this follows that nothing      *)
(* overtakes the barrier.                                                  *)
(***************************************************************************)
EXTENDS Handoff, TLAPS

\* Steps are tried with Zenon first, then with SMT.
USE ZenonT(30), SMTT(30)

Commands == {"P", "F", "C", "X"}
Outgoing == Threads \cup {"drain", "D", "A", "ack"}
Incoming == Threads \cup {Conn, "ping"} \cup Commands

\* Frames the client has not handed to the socket, and commands the
\* checkpoint thread has not received.
Sent == Range(out) \cup Range(chunk)
Asked == Commands \cap (Range(down) \cup Range(controls))

AtMostOnce(s, c) == \A i, j \in DOMAIN s : s[i] = c /\ s[j] = c => i = j

FramesOK ==
    /\ out \in Seq(Outgoing) /\ chunk \in Seq(Outgoing)
    /\ down \in Seq(Incoming) /\ controls \in Seq(Commands)
    /\ barrier \in 0 .. Len(out)

\* No command is under way twice.
Once ==
    \A c \in Commands :
        /\ AtMostOnce(down, c) /\ AtMostOnce(controls, c)
        /\ ~(c \in Range(down) /\ c \in Range(controls))

\* Where the checkpoint thread is in checkpoint_handoff().
Free == {"recv", "resume", "resumed"}
Draining == {"captures", "drain", "drainwait", "D"}
Asking == {"dwait", "recvF"}
AtBarrier == {"await", "recvC"}
Moving == {"park", "dial"}

\* The supervisor has given up, and may have asked again.
Aborting == peer \in {"run", "asked"} /\ "X" \in Asked /\ Asked \subseteq {"X", "P"}

Turns ==
    /\ ck \in Free \cup Draining \cup Asking \cup AtBarrier \cup Moving
    /\ ck \in Free => peer \in {"run", "asked"} /\ Asked \subseteq {"P"}
    /\ ck \in Draining => peer = "asked" /\ Asked = {}
    /\ ck \in Asking => \/ Aborting
                        \/ peer \in {"asked", "ready"} /\ Asked = {}
                        \/ peer = "freezing" /\ Asked = {"F"}
    /\ ck \in AtBarrier => \/ Aborting
                           \/ peer \in {"freezing", "acked"} /\ Asked = {}
                           \/ peer = "moved" /\ Asked = {"C"}
    /\ ck \in Moving => peer = "moved" /\ Asked = {}
    /\ "P" \in Asked => peer = "asked"

\* "D" and "A" are sent once, when they are expected, and "A" is what the
\* writer stops behind.
Acks ==
    /\ "D" \in Sent => ck = "dwait" /\ peer = "asked" /\ Asked = {}
    /\ "D" \notin Range(out) \cap Range(chunk)
    /\ "A" \in Sent => ck = "await" /\ peer = "freezing"
    /\ "A" \in Range(out) => barrier # 0
    /\ barrier # 0 => /\ barrier \in DOMAIN out /\ out[barrier] = "A"
                      /\ AtMostOnce(out, "A") /\ "A" \notin Range(chunk)
    /\ "A" \in Range(chunk) => wpaused /\ chunk[Len(chunk)] = "A"

\* What has stopped by then.
Stopped ==
    /\ peer \in {"acked", "moved"} => wpaused /\ chunk = <<>>
    /\ ck \in {"recvF"} \cup AtBarrier \cup Moving => Sent \subseteq {"ack", "A"}
    /\ ck \in {"drain", "drainwait", "D", "resume"} \cup Asking \cup AtBarrier \cup Moving
           => paused
    /\ ck = "dial" => parked
    /\ ~attached => ck = "dial"
    /\ ~closed /\ ~wfailed

Exchange == Once /\ Turns /\ Acks /\ Stopped

Protocol == FramesOK /\ ~stray /\ (failed \/ Exchange)

(* Frames in queues *)

LEMMA EmptyQueue ==
    ASSUME NEW S
    PROVE  <<>> \in Seq(S) /\ Range(<<>>) = {}
  BY SMT DEF Range

LEMMA AppendQueue ==
    ASSUME NEW S, NEW s \in Seq(S), NEW x \in S
    PROVE  /\ Append(s, x) \in Seq(S)
           /\ Range(Append(s, x)) = Range(s) \cup {x}
           /\ \A c : AtMostOnce(s, c) /\ (x = c => c \notin Range(s))
                        => AtMostOnce(Append(s, x), c)
<1>1. Append(s, x) \in Seq(S) /\ Len(Append(s, x)) = Len(s) + 1 /\ Len(s) \in Nat
  BY SMT
<1>2. \A i \in 1 .. Len(s) : Append(s, x)[i] = s[i]
  BY SMT
<1>3. Append(s, x)[Len(s) + 1] = x
  BY SMT
<1>4. DOMAIN s = 1 .. Len(s) /\ DOMAIN Append(s, x) = 1 .. Len(s) + 1
  BY SMT, <1>1
<1>5. Range(Append(s, x)) = Range(s) \cup {x}
  BY SMT, <1>1, <1>2, <1>3, <1>4 DEF Range
<1>6. ASSUME NEW c, AtMostOnce(s, c), x = c => c \notin Range(s)
      PROVE  AtMostOnce(Append(s, x), c)
  BY SMT, <1>1, <1>2, <1>3, <1>4, <1>6 DEF AtMostOnce, Range
<1> QED
  BY <1>1, <1>5, <1>6

LEMMA TailQueue ==
    ASSUME NEW S, NEW s \in Seq(S), s # <<>>
    PROVE  /\ Tail(s) \in Seq(S) /\ Head(s) \in S
           /\ Range(s) = Range(Tail(s)) \cup {Head(s)}
           /\ \A c : AtMostOnce(s, c) => AtMostOnce(Tail(s), c)
           /\ \A c : AtMostOnce(s, c) /\ Head(s) = c => c \notin Range(Tail(s))
<1>1. /\ Len(s) \in Nat /\ Len(s) > 0 /\ Tail(s) \in Seq(S)
      /\ Len(Tail(s)) = Len(s) - 1 /\ Head(s) = s[1] /\ Head(s) \in S
  BY SMT
<1>2. \A i \in 1 .. Len(s) - 1 : Tail(s)[i] = s[i + 1]
  BY SMT
<1>3. DOMAIN s = 1 .. Len(s) /\ DOMAIN Tail(s) = 1 .. Len(s) - 1
  BY SMT, <1>1
<1>4. Range(Tail(s)) \cup {Head(s)} \subseteq Range(s)
  BY SMT, <1>1, <1>2, <1>3 DEF Range
<1>5. Range(s) \subseteq Range(Tail(s)) \cup {Head(s)}
  <2> SUFFICES ASSUME NEW i \in 1 .. Len(s) PROVE s[i] \in Range(Tail(s)) \cup {Head(s)}
    BY <1>3 DEF Range
  <2>1. CASE i = 1
    BY <1>1, <2>1
  <2>2. CASE i # 1
    <3>1. i - 1 \in 1 .. Len(s) - 1 /\ s[i] = Tail(s)[i - 1]
      BY SMT, <1>1, <1>2, <2>2
    <3> QED
      BY <1>3, <3>1 DEF Range
  <2> QED
    BY <2>1, <2>2
<1>6. Range(s) = Range(Tail(s)) \cup {Head(s)}
  BY <1>4, <1>5
<1>7. ASSUME NEW c, AtMostOnce(s, c)
      PROVE  AtMostOnce(Tail(s), c)
  BY SMT, <1>1, <1>2, <1>3, <1>7 DEF AtMostOnce
<1>8. ASSUME NEW c, AtMostOnce(s, c), Head(s) = c
      PROVE  c \notin Range(Tail(s))
  BY SMT, <1>1, <1>2, <1>3, <1>8 DEF AtMostOnce, Range
<1> QED
  BY <1>1, <1>6, <1>7, <1>8

LEMMA SplitQueue ==
    ASSUME NEW S, NEW s \in Seq(S), NEW b \in 1 .. Len(s), AtMostOnce(s, s[b])
    PROVE  /\ Range(SubSeq(s, 1, b)) \subseteq Range(s)
           /\ Range(SubSeq(s, b + 1, Len(s))) \subseteq Range(s) \ {s[b]}
           /\ SubSeq(s, 1, b)[Len(SubSeq(s, 1, b))] = s[b]
<1>1. Len(s) \in Nat /\ DOMAIN s = 1 .. Len(s)
  BY SMT
<1>2. /\ Len(SubSeq(s, 1, b)) = b /\ DOMAIN SubSeq(s, 1, b) = 1 .. b
      /\ \A i \in 1 .. b : SubSeq(s, 1, b)[i] = s[i]
  BY SMT, <1>1
<1>3. /\ DOMAIN SubSeq(s, b + 1, Len(s)) = 1 .. Len(s) - b
      /\ \A i \in 1 .. Len(s) - b : SubSeq(s, b + 1, Len(s))[i] = s[b + i]
  BY SMT, <1>1
<1>4. Range(SubSeq(s, 1, b)) \subseteq Range(s)
  BY SMT, <1>1, <1>2 DEF Range
<1>5. ASSUME NEW i \in 1 .. Len(s) - b
      PROVE  SubSeq(s, b + 1, Len(s))[i] \in Range(s) \ {s[b]}
  <2>1. b + i \in DOMAIN s /\ b + i # b /\ b \in DOMAIN s
    BY SMT, <1>1
  <2>2. s[b + i] # s[b] /\ s[b + i] \in Range(s)
    BY <2>1 DEF AtMostOnce, Range
  <2> QED
    BY <1>3, <2>2
<1>6. Range(SubSeq(s, b + 1, Len(s))) \subseteq Range(s) \ {s[b]}
  BY <1>3, <1>5 DEF Range
<1>7. SubSeq(s, 1, b)[Len(SubSeq(s, 1, b))] = s[b]
  BY SMT, <1>1, <1>2
<1> QED
  BY <1>4, <1>6, <1>7

LEMMA CutQueue ==
    ASSUME NEW S, NEW s \in Seq(S), NEW b \in 1 .. Len(s)
    PROVE  SubSeq(s, 1, b) \in Seq(S) /\ SubSeq(s, b + 1, Len(s)) \in Seq(S)
<1>1. Len(s) \in Nat /\ \A i \in 1 .. Len(s) : s[i] \in S
  BY SMT
<1>2. SubSeq(s, 1, b) \in Seq(S)
  BY SMT, <1>1
<1>3. SubSeq(s, b + 1, Len(s)) \in Seq(S)
  BY SMT, <1>1
<1> QED
  BY <1>2, <1>3

(* Commands under way *)

LEMMA CommandsKept ==
    ASSUME Once, UNCHANGED <<down, controls>>
    PROVE  Once' /\ Asked' = Asked
  BY DEF Once, Asked

LEMMA FrameSent ==
    ASSUME FramesOK, Once, NEW f \in Incoming, f \notin Asked,
           down' = Append(down, f), controls' = controls
    PROVE  /\ down' \in Seq(Incoming) /\ controls' \in Seq(Commands)
           /\ Once' /\ Asked' = Asked \cup (Commands \cap {f})
<1>1. down' \in Seq(Incoming) /\ Range(down') = Range(down) \cup {f}
  BY AppendQueue DEF FramesOK
<1>2. \A c \in Commands : AtMostOnce(down', c)
  BY AppendQueue DEF FramesOK, Once, Asked
<1>3. Once'
  BY <1>1, <1>2 DEF Once, Asked
<1>4. Asked' = Asked \cup (Commands \cap {f})
  BY <1>1 DEF Asked
<1> QED
  BY <1>1, <1>3, <1>4 DEF FramesOK

LEMMA FrameRead ==
    ASSUME FramesOK, Once, down # <<>>, Head(down) \notin Commands,
           down' = Tail(down), controls' = controls
    PROVE  /\ down' \in Seq(Incoming) /\ controls' \in Seq(Commands)
           /\ Once' /\ Asked' = Asked
<1>1. down' \in Seq(Incoming) /\ Range(down) = Range(down') \cup {Head(down)}
  BY TailQueue DEF FramesOK
<1>2. \A c \in Commands : AtMostOnce(down', c)
  BY TailQueue DEF FramesOK, Once
<1>3. Once'
  BY <1>1, <1>2 DEF Once
<1>4. Asked' = Asked
  BY <1>1 DEF Asked
<1> QED
  BY <1>1, <1>3, <1>4 DEF FramesOK

LEMMA CommandRead ==
    ASSUME FramesOK, Once, down # <<>>, Head(down) \in Commands,
           down' = Tail(down), controls' = Append(controls, Head(down))
    PROVE  /\ down' \in Seq(Incoming) /\ controls' \in Seq(Commands)
           /\ Once' /\ Asked' = Asked
<1> DEFINE f == Head(down)
<1>1. down' \in Seq(Incoming) /\ Range(down) = Range(down') \cup {f}
  BY TailQueue DEF FramesOK
<1>2. controls' \in Seq(Commands) /\ Range(controls') = Range(controls) \cup {f}
  BY AppendQueue DEF FramesOK
<1>3. \A c \in Commands : AtMostOnce(down', c)
  BY TailQueue DEF FramesOK, Once
<1>4. f \notin Range(controls) /\ f \notin Range(down')
  BY <1>1, TailQueue DEF FramesOK, Once
<1>5. \A c \in Commands : AtMostOnce(controls', c)
  BY SMT, <1>4, AppendQueue DEF FramesOK, Once
<1>6. Once'
  BY <1>1, <1>2, <1>3, <1>4, <1>5 DEF Once
<1>7. Asked' = Asked
  BY <1>1, <1>2 DEF Asked
<1> QED
  BY <1>1, <1>2, <1>6, <1>7

LEMMA CommandTaken ==
    ASSUME FramesOK, Once, NEW c, Received(c), controls' = Tail(controls), down' = down
    PROVE  /\ c \in Asked /\ controls' \in Seq(Commands)
           /\ Once' /\ Asked' = Asked \ {c}
<1>1. /\ controls' \in Seq(Commands) /\ c \in Commands
      /\ Range(controls) = Range(controls') \cup {c}
  BY TailQueue DEF FramesOK, Received
<1>2. c \notin Range(controls')
  BY <1>1, TailQueue DEF FramesOK, Received, Once
<1>3. \A d \in Commands : AtMostOnce(controls', d)
  BY TailQueue DEF FramesOK, Received, Once
<1>4. Once'
  BY <1>1, <1>3 DEF Once
<1>5. c \notin Range(down)
  BY <1>1 DEF Once
<1>6. Asked' = Asked \ {c} /\ c \in Asked
  BY <1>1, <1>2, <1>5 DEF Asked
<1> QED
  BY <1>1, <1>4, <1>6

(* Parts of Exchange that a step leaves alone *)

LEMMA TurnsKept ==
    ASSUME Turns, UNCHANGED <<ck, peer>>, Asked' = Asked
    PROVE  Turns'
  BY DEF Turns, Aborting

LEMMA AcksKept ==
    ASSUME Acks, UNCHANGED <<ck, peer, out, chunk, barrier, wpaused>>, Asked' = Asked
    PROVE  Acks'
  BY DEF Acks, Sent

LEMMA StoppedKept ==
    ASSUME Stopped, UNCHANGED <<ck, peer, out, chunk, wpaused, paused, parked, attached,
                                closed, wfailed>>
    PROVE  Stopped'
  BY DEF Stopped, Sent

\* Nothing matters any more once the transport has failed.
LEMMA FailedOK ==
    ASSUME FramesOK', ~stray', failed'
    PROVE  Protocol'
  BY DEF Protocol

LEMMA FramesKept ==
    ASSUME FramesOK, UNCHANGED <<out, chunk, down, controls, barrier>>
    PROVE  FramesOK'
  BY DEF FramesOK

LEMMA FailOK ==
    ASSUME Protocol, Fail, UNCHANGED <<out, barrier, controls, stray>>,
           chunk' = chunk \/ chunk' = <<>>
    PROVE  Protocol'
<1>1. chunk' \in Seq(Outgoing) /\ down' \in Seq(Incoming)
  BY EmptyQueue DEF Protocol, FramesOK, Fail
<1>2. FramesOK'
  BY <1>1 DEF Protocol, FramesOK
<1> QED
  BY <1>2, FailedOK DEF Protocol, Fail

\* A step that leaves the exchange alone.
pvars == <<ck, paused, out, barrier, chunk, wpaused, wfailed, controls, parked, failed,
           closed, down, peer, attached, stray>>

LEMMA ProtocolKept ==
    ASSUME Protocol, UNCHANGED pvars
    PROVE  Protocol'
<1>1. FramesOK' /\ ~stray' /\ failed' = failed
  BY FramesKept DEF Protocol, pvars
<1>2. Exchange => Exchange'
  BY CommandsKept, TurnsKept, AcksKept, StoppedKept DEF Exchange, pvars
<1> QED
  BY <1>1, <1>2 DEF Protocol

(* Application threads *)

LEMMA FrameQueued ==
    ASSUME Protocol, NEW f \in Outgoing, f \notin {"D", "A"}, out' = Append(out, f),
           f # "ack" => ck \notin {"recvF"} \cup AtBarrier \cup Moving,
           UNCHANGED <<ck, paused, barrier, chunk, wpaused, wfailed, parked, failed,
                       closed, peer, attached, stray>>,
           down' \in Seq(Incoming), controls' \in Seq(Commands),
           Exchange => Once' /\ Asked' = Asked
    PROVE  Protocol'
<1>1. out' \in Seq(Outgoing) /\ Range(out') = Range(out) \cup {f}
  BY AppendQueue DEF Protocol, FramesOK
<1>2. FramesOK' /\ ~stray' /\ failed' = failed
  BY SMT, <1>1 DEF Protocol, FramesOK
<1> SUFFICES ASSUME Exchange PROVE Exchange'
  BY SMT, <1>2 DEF Protocol
<1>3. Once' /\ Turns' /\ Asked' = Asked
  BY TurnsKept DEF Exchange
<1>4. AtMostOnce(out, "A") => AtMostOnce(out', "A")
  BY AppendQueue DEF Protocol, FramesOK
<1>5. Len(out) \in Nat /\ DOMAIN out = 1 .. Len(out) /\ DOMAIN out' = 1 .. Len(out) + 1
  BY SMT DEF Protocol, FramesOK
<1>6. \A i \in DOMAIN out : i \in DOMAIN out' /\ out'[i] = out[i]
  BY SMT, <1>5 DEF Protocol, FramesOK
<1>7. Sent' = Sent \cup {f}
  BY <1>1 DEF Sent
<1>8. Acks'
  BY <1>1, <1>3, <1>4, <1>6, <1>7 DEF Acks, Exchange
<1>9. Stopped'
  BY <1>7 DEF Stopped, Exchange
<1> QED
  BY <1>3, <1>8, <1>9 DEF Exchange

LEMMA EnterProtocol ==
    ASSUME Protocol, NEW t \in Threads, NEW why, Enter(t, why),
           UNCHANGED <<ck, paused, barrier, chunk, wpaused, wfailed, controls, parked,
                       failed, closed, down, peer, attached, stray>>
    PROVE  Protocol'
<1>1. CASE out' = out
  BY <1>1, ProtocolKept DEF pvars
<1>2. CASE ~paused /\ ~failed /\ out' = Append(out, t)
  <2>1. t \in Outgoing /\ t \notin {"D", "A", "ack"}
    BY FramesAssumption DEF Outgoing
  <2>2. ck \notin {"recvF"} \cup AtBarrier \cup Moving
    BY <1>2 DEF Protocol, Exchange, Stopped, Asking
  <2>3. down' \in Seq(Incoming) /\ controls' \in Seq(Commands)
    BY DEF Protocol, FramesOK
  <2>4. Exchange => Once' /\ Asked' = Asked
    BY CommandsKept DEF Exchange
  <2> QED
    BY <1>2, <2>1, <2>2, <2>3, <2>4, FrameQueued
<1> QED
  BY <1>1, <1>2 DEF Enter

LEMMA ApplicationProtocol ==
    ASSUME Protocol, NEW t \in Threads, Application(t)
    PROVE  Protocol'
<1>1. CASE Call(t)
  <2>1. PICK why : Enter(t, why)
    BY <1>1 DEF Call
  <2> QED
    BY <1>1, <2>1, EnterProtocol DEF Call, reader, server
<1>2. CASE Retry(t)
  BY <1>2, EnterProtocol DEF Retry, reader, server
<1>3. CASE Return(t)
  BY <1>3, ProtocolKept DEF Return, pvars, writer, server
<1>4. CASE ReturnError(t)
  BY <1>4, ProtocolKept DEF ReturnError, pvars, writer, server
<1> QED
  BY <1>1, <1>2, <1>3, <1>4 DEF Application

(* The writer *)

LEMMA WriterTakesProtocol ==
    ASSUME Protocol, WriterTakes
    PROVE  Protocol'
<1>0. /\ UNCHANGED <<ck, paused, wfailed, controls, parked, failed, closed, down, peer,
                     attached, stray>>
      /\ chunk = <<>> /\ out # <<>> /\ ~wpaused /\ Take
  BY DEF WriterTakes, reader, server
<1>1. CASE barrier = 0
  <2>1. chunk' = out /\ out' = <<>> /\ barrier' = 0 /\ wpaused' = wpaused
    BY <1>0, <1>1 DEF Take
  <2>2. Range(out') = {} /\ Range(chunk) = {} /\ out' \in Seq(Outgoing)
    BY <1>0, <2>1, EmptyQueue
  <2>3. FramesOK'
    BY SMT, <1>0, <1>1, <2>1, <2>2 DEF Protocol, FramesOK
  <2> SUFFICES ASSUME ~failed PROVE Exchange'
    BY <1>0, <2>3 DEF Protocol
  <2>4. Exchange
    BY DEF Protocol
  <2>5. Once' /\ Turns' /\ Asked' = Asked
    BY <1>0, <2>4, CommandsKept, TurnsKept DEF Exchange
  <2>6. Sent' = Sent
    BY <2>1, <2>2 DEF Sent
  <2>7. "A" \notin Range(out)
    BY <1>1, <2>4 DEF Exchange, Acks
  <2>8. Acks'
    BY <1>0, <2>1, <2>2, <2>4, <2>5, <2>6, <2>7 DEF Exchange, Acks
  <2>9. Stopped'
    BY <1>0, <2>1, <2>4, <2>6 DEF Exchange, Stopped
  <2> QED
    BY <2>5, <2>8, <2>9 DEF Exchange
<1>2. CASE barrier # 0
  <2>1. /\ chunk' = SubSeq(out, 1, barrier) /\ out' = SubSeq(out, barrier + 1, Len(out))
        /\ barrier' = 0 /\ wpaused'
    BY <1>0, <1>2 DEF Take
  <2>2. barrier \in 1 .. Len(out) /\ out \in Seq(Outgoing)
    BY SMT, <1>2 DEF Protocol, FramesOK
  <2>3. chunk' \in Seq(Outgoing) /\ out' \in Seq(Outgoing)
    BY <2>1, <2>2, CutQueue
  <2>4. FramesOK'
    BY SMT, <1>0, <2>1, <2>3 DEF Protocol, FramesOK
  <2> SUFFICES ASSUME ~failed PROVE Exchange'
    BY <1>0, <2>4 DEF Protocol
  <2>5. Exchange
    BY DEF Protocol
  <2>6. Once' /\ Turns' /\ Asked' = Asked
    BY <1>0, <2>5, CommandsKept, TurnsKept DEF Exchange
  <2>7. out[barrier] = "A" /\ AtMostOnce(out, "A")
    BY <1>2, <2>5 DEF Exchange, Acks
  <2>8. /\ Range(chunk') \subseteq Range(out) /\ Range(out') \subseteq Range(out)
        /\ "A" \notin Range(out') /\ chunk'[Len(chunk')] = "A"
    <3> DEFINE first == SubSeq(out, 1, barrier)
               rest == SubSeq(out, barrier + 1, Len(out))
    <3>1. AtMostOnce(out, out[barrier])
      BY <2>7
    <3>2. /\ Range(first) \subseteq Range(out) /\ Range(rest) \subseteq Range(out) \ {out[barrier]}
          /\ first[Len(first)] = out[barrier]
      BY <2>2, <3>1, SplitQueue
    <3>3. chunk' = first /\ out' = rest
      BY <2>1
    <3> HIDE DEF first, rest
    <3> QED
      BY <2>7, <3>2, <3>3
  <2>9. ck = "await" /\ peer = "freezing" /\ "D" \notin Range(out)
    <3>1. "A" \in Range(out)
      BY SMT, <2>2, <2>7 DEF Range
    <3> QED
      BY <2>5, <3>1 DEF Exchange, Acks, Sent
  <2>10. Acks'
    BY <1>0, <2>1, <2>8, <2>9 DEF Acks, Sent
  <2>11. Stopped'
    BY <1>0, <2>5, <2>8, <2>9 DEF Exchange, Stopped, Sent
  <2> QED
    BY <2>6, <2>10, <2>11 DEF Exchange
<1> QED
  BY <1>1, <1>2

\* What reaches the peer.
LEMMA Delivered ==
    ASSUME Deliver, ~stray, peer \notin {"acked", "moved"} \/ failed,
           "A" \in Range(chunk) /\ ~failed => chunk[Len(chunk)] = "A"
    PROVE  /\ ~stray'
           /\ "A" \in Range(chunk) /\ "D" \notin Range(chunk) => peer' = "acked"
           /\ "A" \notin Range(chunk) /\ "D" \in Range(chunk) => peer' = "ready"
           /\ Range(chunk) \cap {"A", "D"} = {} => peer' = peer
<1>1. ~stray'
  BY DEF Deliver
<1>2. peer' = CASE "A" \in Range(chunk) -> "acked"
                [] "D" \in Range(chunk) -> "ready"
                [] OTHER -> peer
  BY DEF Deliver
<1>3. CASE "A" \in Range(chunk) /\ "D" \notin Range(chunk)
  BY <1>1, <1>2, <1>3
<1>4. CASE "A" \notin Range(chunk) /\ "D" \in Range(chunk)
  BY <1>1, <1>2, <1>4
<1>5. CASE "A" \notin Range(chunk) /\ "D" \notin Range(chunk)
  BY <1>1, <1>2, <1>5
<1>6. CASE "A" \in Range(chunk) /\ "D" \in Range(chunk)
  BY <1>1, <1>6
<1> QED
  BY <1>3, <1>4, <1>5, <1>6

LEMMA WriterWroteProtocol ==
    ASSUME Protocol, WriterWrote
    PROVE  Protocol'
<1>0. /\ UNCHANGED <<ck, paused, out, barrier, wpaused, wfailed, controls, parked,
                     failed, closed, down, attached>>
      /\ chunk # <<>> /\ chunk' = <<>>
      /\ UNCHANGED <<peer, stray>> \/ Deliver
  BY DEF WriterWrote, reader
<1>1. Range(chunk') = {} /\ FramesOK' /\ Sent' \subseteq Sent /\ Range(out') = Range(out)
  BY <1>0, EmptyQueue DEF Protocol, FramesOK, Sent
<1>2. CASE failed
  <2>1. ~stray'
    BY <1>0, <1>2, Delivered DEF Protocol
  <2> QED
    BY <1>0, <1>1, <1>2, <2>1, FailedOK
<1>3. CASE ~failed
  <2>1. Exchange
    BY <1>3 DEF Protocol
  <2>2. Once' /\ Asked' = Asked
    BY <1>0, <2>1, CommandsKept DEF Exchange
  <2>3. peer \notin {"acked", "moved"}
    BY <1>0, <2>1 DEF Exchange, Stopped
  <2>4. CASE "A" \in Range(chunk) /\ Deliver
    <3>1. /\ ck = "await" /\ peer = "freezing" /\ wpaused /\ chunk[Len(chunk)] = "A"
          /\ barrier = 0 /\ "A" \notin Range(out) /\ "D" \notin Sent /\ Asked = {}
      <4>1. ck = "await" /\ peer = "freezing" /\ wpaused /\ chunk[Len(chunk)] = "A" /\ barrier = 0
        BY <2>1, <2>4 DEF Exchange, Acks, Sent
      <4> QED
        BY <2>1, <4>1 DEF Exchange, Acks, Turns, Aborting, AtBarrier
    <3>2. peer' = "acked" /\ ~stray'
      BY <2>3, <2>4, <3>1, Delivered DEF Protocol, Sent
    <3>3. Turns'
      BY <1>0, <2>1, <2>2, <3>1, <3>2
      DEF Turns, Free, Draining, Asking, AtBarrier, Moving
    <3>4. "A" \notin Sent' /\ "D" \notin Sent'
      BY <1>1, <3>1 DEF Sent
    <3>5. Acks'
      BY <1>0, <1>1, <3>1, <3>4 DEF Acks, Sent
    <3>6. Stopped'
      BY <1>0, <1>1, <2>1, <3>1, <3>2 DEF Exchange, Stopped
    <3> QED
      BY <1>1, <2>2, <3>2, <3>3, <3>5, <3>6 DEF Protocol, Exchange
  <2>5. CASE "A" \notin Range(chunk) /\ "D" \in Range(chunk) /\ Deliver
    <3>1. ck = "dwait" /\ peer = "asked" /\ Asked = {} /\ "D" \notin Range(out)
      BY <2>1, <2>5 DEF Exchange, Acks, Sent
    <3>2. peer' = "ready" /\ ~stray'
      BY <2>3, <2>5, Delivered DEF Protocol
    <3>3. "A" \notin Sent /\ barrier = 0
      BY <2>1, <3>1 DEF Exchange, Acks, Sent, Range
    <3>4. Turns'
      BY <1>0, <2>1, <2>2, <3>1, <3>2
      DEF Turns, Free, Draining, Asking, AtBarrier, Moving
    <3>5. "A" \notin Sent' /\ "D" \notin Sent'
      BY <1>1, <3>1, <3>3 DEF Sent
    <3>6. Acks'
      BY <1>0, <1>1, <3>3, <3>5 DEF Acks, Sent
    <3>7. Stopped'
      BY <1>0, <1>1, <2>1, <3>1, <3>2 DEF Exchange, Stopped
    <3> QED
      BY <1>1, <2>2, <3>2, <3>4, <3>6, <3>7 DEF Protocol, Exchange
  <2>6. CASE UNCHANGED <<peer, stray>> \/ (Range(chunk) \cap {"A", "D"} = {} /\ Deliver)
    <3>1. peer' = peer /\ ~stray'
      BY SMT, <2>3, <2>6, Delivered DEF Protocol
    <3>2. Turns'
      BY <1>0, <2>1, <2>2, <3>1, TurnsKept DEF Exchange
    <3>3. Acks'
      BY <1>0, <1>1, <2>1, <2>2, <3>1 DEF Exchange, Acks
    <3>4. Stopped'
      BY <1>0, <1>1, <2>1, <3>1 DEF Exchange, Stopped
    <3> QED
      BY <1>1, <2>2, <3>1, <3>2, <3>3, <3>4 DEF Protocol, Exchange
  <2> QED
    BY <1>0, <2>4, <2>5, <2>6
<1> QED
  BY <1>2, <1>3

(* The reader *)

LEMMA ReadFrameProtocol ==
    ASSUME Protocol, ReadFrame
    PROVE  Protocol'
<1>0. /\ UNCHANGED <<ck, paused, barrier, chunk, wfailed, failed, closed, peer, attached,
                     stray>>
      /\ down # <<>> /\ down' = Tail(down) /\ ~parked /\ ~failed
  BY DEF ReadFrame, server
<1>1. Exchange /\ FramesOK /\ Head(down) \in Incoming
  BY <1>0, TailQueue DEF Protocol, FramesOK
<1>2. CASE Head(down) \in Threads \cup {Conn}
  <2>1. UNCHANGED <<out, wpaused, controls, parked>> /\ Head(down) \notin Commands
    BY <1>2, FramesAssumption DEF ReadFrame, Commands
  <2>2. /\ down' \in Seq(Incoming) /\ controls' \in Seq(Commands)
        /\ Once' /\ Asked' = Asked
    BY <1>0, <1>1, <2>1, FrameRead DEF Exchange
  <2>3. Turns' /\ Acks' /\ Stopped'
    BY <1>0, <1>1, <2>1, <2>2, TurnsKept, AcksKept, StoppedKept DEF Exchange
  <2> QED
    BY <1>0, <1>1, <2>1, <2>2, <2>3 DEF Protocol, Exchange, FramesOK
<1>3. CASE Head(down) = "ping"
  <2>1. /\ out' = Append(out, "ack") /\ UNCHANGED <<wpaused, controls, parked>>
        /\ Head(down) \notin Commands
    BY <1>3, FramesAssumption DEF ReadFrame, Commands, reader
  <2>2. /\ down' \in Seq(Incoming) /\ controls' \in Seq(Commands)
        /\ Once' /\ Asked' = Asked
    BY <1>0, <1>1, <2>1, FrameRead DEF Exchange
  <2>3. "ack" \in Outgoing /\ "ack" \notin {"D", "A"}
    BY DEF Outgoing
  <2> QED
    BY <1>0, <2>1, <2>2, <2>3, FrameQueued
<1>4. CASE Head(down) \in Commands
  <2>1. /\ UNCHANGED out /\ Control(Head(down))
    BY <1>4, FramesAssumption DEF ReadFrame, Commands
  <2>2. /\ controls' = Append(controls, Head(down))
        /\ wpaused' = (wpaused /\ Head(down) # "X") /\ (parked => parked')
    BY <2>1 DEF Control
  <2>3. /\ down' \in Seq(Incoming) /\ controls' \in Seq(Commands)
        /\ Once' /\ Asked' = Asked
    BY <1>0, <1>1, <1>4, <2>2, CommandRead DEF Exchange
  <2>4. Turns' /\ FramesOK'
    BY <1>0, <1>1, <2>1, <2>3, TurnsKept DEF Exchange, FramesOK
  <2>5. Head(down) \in Asked
    BY SMT, <1>0, <1>1, <1>4, TailQueue DEF FramesOK, Asked
  <2>6. /\ peer \in {"acked", "moved"} => wpaused' = wpaused
        /\ "A" \in Range(chunk) => wpaused' = wpaused
    <3>1. CASE Head(down) = "X"
      <4>1. Aborting
        BY <1>1, <2>5, <3>1
        DEF Exchange, Turns, Free, Draining, Asking, AtBarrier, Moving
      <4> QED
        BY <1>1, <4>1 DEF Aborting, Exchange, Acks, Sent
    <3>2. CASE Head(down) # "X"
      BY <2>2, <3>2, <1>1 DEF Exchange, Acks, Stopped
    <3> QED
      BY <3>1, <3>2
  <2>7. Acks'
    BY SMT, <1>0, <1>1, <2>1, <2>3, <2>6 DEF Exchange, Acks, Sent
  <2>8. Stopped'
    BY <1>0, <1>1, <2>1, <2>2, <2>6 DEF Exchange, Stopped, Sent
  <2> QED
    BY <1>0, <1>1, <2>3, <2>4, <2>7, <2>8 DEF Protocol, Exchange
<1> QED
  BY <1>1, <1>2, <1>3, <1>4 DEF Incoming

\* The transport fails or is shut down.
LEMMA TransportFailsProtocol ==
    ASSUME Protocol, WriterFails \/ ReaderFails \/ Close \/ ShutDown \/ LeaveLoop
    PROVE  Protocol'
<1>1. Fail /\ UNCHANGED <<out, barrier, controls, stray>> /\ (chunk' = chunk \/ chunk' = <<>>)
  BY DEF WriterFails, ReaderFails, Close, ShutDown, LeaveLoop, Shutdown, writer, reader
<1> QED
  BY <1>1, FailOK

(* The peer *)

LEMMA ConcatOne ==
    ASSUME NEW S, NEW s \in Seq(S), NEW x \in S, NEW y \in S
    PROVE  /\ s \o Append(<<>>, x) = Append(s, x)
           /\ s \o (<<x>> \o <<>>) = Append(s, x)
           /\ s \o (<<x>> \o <<y>>) = Append(Append(s, x), y)
           /\ s \o Append(<<x>>, y) = Append(Append(s, x), y)
  BY SMT

\* A command with a frame of the session before or behind it.
LEMMA CommandSent ==
    ASSUME FramesOK, Once, NEW f \in Commands, f \notin Asked, controls' = controls,
           \/ down' = Append(down, f)
           \/ down' = Append(Append(down, f), "ping")
           \/ down' = Append(Append(down, "ping"), f)
    PROVE  down' \in Seq(Incoming) /\ Once' /\ Asked' = Asked \cup {f}
<1>0. /\ down \in Seq(Incoming) /\ f \in Incoming /\ "ping" \in Incoming
      /\ "ping" \notin Commands /\ f \notin Range(down) /\ f \notin Range(controls)
  BY DEF FramesOK, Incoming, Commands, Asked
<1>1. ASSUME NEW s \in Seq(Incoming), NEW g \in Incoming,
             \A c \in Commands : AtMostOnce(s, c), g \in Commands => g \notin Range(s)
      PROVE  /\ Append(s, g) \in Seq(Incoming) /\ Range(Append(s, g)) = Range(s) \cup {g}
             /\ \A c \in Commands : AtMostOnce(Append(s, g), c)
  BY <1>1, AppendQueue
<1>2. /\ down' \in Seq(Incoming) /\ \A c \in Commands : AtMostOnce(down', c)
      /\ Range(down) \cup {f} \subseteq Range(down')
      /\ Range(down') \subseteq Range(down) \cup {f, "ping"}
  <2>0. \A c \in Commands : AtMostOnce(down, c)
    BY DEF Once
  <2>1. CASE down' = Append(down, f)
    BY SMT, <1>0, <1>1, <2>0, <2>1
  <2>2. CASE down' = Append(Append(down, f), "ping")
    <3> DEFINE q == Append(down, f)
    <3>1. /\ q \in Seq(Incoming) /\ Range(q) = Range(down) \cup {f}
          /\ \A c \in Commands : AtMostOnce(q, c)
      BY <1>0, <1>1, <2>0
    <3>2. down' = Append(q, "ping")
      BY <2>2
    <3> HIDE DEF q
    <3>3. /\ down' \in Seq(Incoming) /\ Range(down') = Range(q) \cup {"ping"}
          /\ \A c \in Commands : AtMostOnce(down', c)
      BY <1>0, <1>1, <3>1, <3>2
    <3> QED
      BY <3>1, <3>3
  <2>3. CASE down' = Append(Append(down, "ping"), f)
    <3> DEFINE q == Append(down, "ping")
    <3>1. /\ q \in Seq(Incoming) /\ Range(q) = Range(down) \cup {"ping"}
          /\ \A c \in Commands : AtMostOnce(q, c)
      BY <1>0, <1>1, <2>0
    <3>2. down' = Append(q, f) /\ f \notin Range(q)
      BY <1>0, <2>3, <3>1
    <3> HIDE DEF q
    <3>3. /\ down' \in Seq(Incoming) /\ Range(down') = Range(q) \cup {f}
          /\ \A c \in Commands : AtMostOnce(down', c)
      BY <1>0, <1>1, <3>1, <3>2
    <3> QED
      BY <3>1, <3>3
  <2> QED
    BY <2>1, <2>2, <2>3
<1>3. Once'
  BY <1>0, <1>2 DEF Once
<1>4. Asked' = Asked \cup {f}
  BY <1>0, <1>2 DEF Asked
<1> QED
  BY <1>2, <1>3, <1>4

LEMMA PeerProtocol ==
    ASSUME Protocol, Peer
    PROVE  Protocol'
<1>0. /\ UNCHANGED <<ck, paused, out, barrier, chunk, wpaused, wfailed, controls, parked,
                     failed, closed, attached, stray>>
  BY DEF Peer, AskHandoff, Serve, ServeDrain, Proceed, Abort, Break, writer, reader
<1>1. \A f \in Incoming : down' = Append(down, f) => down' \in Seq(Incoming)
  BY SMT, AppendQueue DEF Protocol, FramesOK
<1>2. ASSUME FramesOK', Exchange => Exchange'
      PROVE  Protocol'
  BY <1>0, <1>2 DEF Protocol
<1>3. CASE Break
  BY <1>0, <1>3, ProtocolKept DEF Break, pvars
<1>4. CASE (\E t \in Threads : Serve(t)) \/ ServeDrain
  <2>1. PICK f \in Threads \cup {Conn} : down' = Append(down, f) /\ peer' = peer
    BY <1>4 DEF Serve, ServeDrain, Send
  <2>2. f \in Incoming /\ f \notin Commands
    BY <2>1, FramesAssumption DEF Incoming, Commands
  <2>3. FramesOK'
    BY <1>0, <1>1, <2>1, <2>2 DEF Protocol, FramesOK
  <2>4. Exchange => Once' /\ Asked' = Asked
    BY <1>0, <2>1, <2>2, FrameSent DEF Protocol, Exchange, Asked
  <2>5. Exchange => Turns' /\ Acks' /\ Stopped'
    BY <1>0, <2>1, <2>4, TurnsKept, AcksKept, StoppedKept DEF Exchange
  <2> QED
    BY <1>2, <2>3, <2>4, <2>5 DEF Exchange
<1>5. CASE AskHandoff
  <2>1. down' = Append(down, "P") /\ peer = "run" /\ peer' = "asked" /\ "P" \in Incoming
    BY <1>5 DEF AskHandoff, Send, Incoming, Commands
  <2>2. FramesOK'
    BY <1>0, <1>1, <2>1 DEF Protocol, FramesOK
  <2> SUFFICES ASSUME Exchange PROVE Exchange'
    BY <1>2, <2>2
  <2>3. "P" \notin Asked
    BY <2>1 DEF Exchange, Turns
  <2>4. Once' /\ Asked' = Asked \cup {"P"}
    BY <1>0, <2>1, <2>3, FrameSent DEF Protocol, Exchange, Commands
  <2>5. Turns'
    BY <1>0, <2>1, <2>4
    DEF Exchange, Turns, Aborting, Free, Draining, Asking, AtBarrier, Moving
  <2>6. Acks'
    <3>1. "D" \notin Sent /\ "A" \notin Sent
      BY <2>1 DEF Exchange, Acks
    <3> QED
      BY <1>0, <3>1 DEF Exchange, Acks, Sent
  <2>7. Stopped'
    BY <1>0, <2>1 DEF Exchange, Stopped, Sent
  <2> QED
    BY <2>4, <2>5, <2>6, <2>7 DEF Exchange
<1>6. CASE Abort
  <2>1. /\ down' = Append(down, "X") /\ peer \in {"ready", "acked"} /\ peer' = "run"
        /\ "X" \in Incoming
    BY <1>6 DEF Abort, Send, Incoming, Commands
  <2>2. FramesOK'
    BY <1>0, <1>1, <2>1 DEF Protocol, FramesOK
  <2> SUFFICES ASSUME Exchange PROVE Exchange'
    BY <1>2, <2>2
  <2>3. Asked = {} /\ ck \in Asking \cup AtBarrier
    BY <2>1 DEF Exchange, Turns, Aborting, Free, Draining, Asking, AtBarrier, Moving
  <2>4. Once' /\ Asked' = {"X"}
    BY <1>0, <2>1, <2>3, FrameSent DEF Protocol, Exchange, Commands
  <2>5. Turns'
    <3>1. Aborting'
      BY <2>1, <2>4 DEF Aborting
    <3> QED
      BY <1>0, <2>1, <2>3, <2>4, <3>1 DEF Turns, Free, Draining, Asking, AtBarrier, Moving
  <2>6. Acks'
    <3>1. "D" \notin Sent /\ "A" \notin Sent
      BY <2>1 DEF Exchange, Acks
    <3> QED
      BY <1>0, <3>1 DEF Exchange, Acks, Sent
  <2>7. Stopped'
    BY <1>0, <2>1 DEF Exchange, Stopped, Sent
  <2> QED
    BY <2>4, <2>5, <2>6, <2>7 DEF Exchange
<1>7. CASE Proceed
  <2>1. PICK pings \in {<<>>, <<"ping">>} :
            down' = down \o (IF peer = "ready" THEN <<"F">> \o pings ELSE Append(pings, "C"))
    BY <1>7 DEF Proceed
  <2> DEFINE f == IF peer = "ready" THEN "F" ELSE "C"
  <2>2. /\ peer \in {"ready", "acked"}
        /\ peer' = IF peer = "ready" THEN "freezing" ELSE "moved"
    BY <1>7 DEF Proceed
  <2>3. down \in Seq(Incoming) /\ {"F", "C", "ping"} \subseteq Incoming
    BY DEF Protocol, FramesOK, Incoming, Commands
  <2>4. \/ down' = Append(down, f)
        \/ down' = Append(Append(down, f), "ping")
        \/ down' = Append(Append(down, "ping"), f)
    <3>1. CASE peer = "ready" /\ pings = <<>>
      BY <2>1, <2>3, <3>1, ConcatOne
    <3>2. CASE peer = "ready" /\ pings = <<"ping">>
      <4>1. down' = down \o (<<"F">> \o <<"ping">>)
        BY <2>1, <3>2
      <4>2. down' = Append(Append(down, "F"), "ping")
        BY SMT, <2>3, <4>1, ConcatOne
      <4> QED
        BY <3>2, <4>2
    <3>3. CASE peer # "ready"
      BY SMT, <2>1, <2>3, <3>3, ConcatOne
    <3> QED
      BY <2>1, <3>1, <3>2, <3>3
  <2>5. f \in Commands
    BY DEF Commands
  <2>6. down' \in Seq(Incoming)
    <3>1. f \in Incoming /\ "ping" \in Incoming
      BY <2>3
    <3>2. Append(down, f) \in Seq(Incoming) /\ Append(down, "ping") \in Seq(Incoming)
      BY <2>3, <3>1, AppendQueue
    <3> QED
      BY SMTT(30), <2>4, <3>1, <3>2, AppendQueue
  <2>7. FramesOK'
    BY <1>0, <2>6 DEF Protocol, FramesOK
  <2> SUFFICES ASSUME Exchange PROVE Exchange'
    BY <1>2, <2>7
  <2>8. Asked = {} /\ ck \in (IF peer = "ready" THEN Asking ELSE AtBarrier)
    BY <2>2 DEF Exchange, Turns, Aborting, Free, Draining, Asking, AtBarrier, Moving
  <2>9. Once' /\ Asked' = {f}
    <3>1. f \notin Asked /\ Once /\ FramesOK
      BY <2>8 DEF Exchange, Protocol
    <3> HIDE DEF f
    <3>2. Once' /\ Asked' = Asked \cup {f}
      BY <1>0, <2>4, <2>5, <3>1, CommandSent
    <3> QED
      BY <2>8, <3>2
  <2>10. Turns'
    BY <1>0, <2>2, <2>8, <2>9 DEF Turns, Free, Draining, Asking, AtBarrier, Moving
  <2>11. "D" \notin Sent /\ "A" \notin Sent
    BY <2>2 DEF Exchange, Acks
  <2>12. Acks'
    BY <1>0, <2>11 DEF Exchange, Acks, Sent
  <2>13. Stopped'
    BY <1>0, <2>2 DEF Exchange, Stopped, Sent
  <2> QED
    BY <2>9, <2>10, <2>12, <2>13 DEF Exchange
<1> QED
  BY <1>3, <1>4, <1>5, <1>6, <1>7 DEF Peer

(* The checkpoint thread *)

LEMMA StepOK ==
    ASSUME Protocol, FramesOK', ~stray', failed' = failed, ~failed /\ Exchange => Exchange'
    PROVE  Protocol'
  BY DEF Protocol

\* It only moves on.
LEMMA MovesProtocol ==
    ASSUME Protocol,
           \/ PauseRequests \/ ReadDrained \/ DrainOutput \/ AwaitBarrier
           \/ ParkSocket \/ ResumeRequests \/ HandoffFails \/ CheckpointEnd
    PROVE  Protocol'
<1>0. UNCHANGED <<out, barrier, chunk, wpaused, wfailed, controls, parked, failed, closed,
                  down, peer, stray>>
  BY DEF PauseRequests, ReadDrained, DrainOutput, AwaitBarrier, ParkSocket, ResumeRequests,
         HandoffFails, CheckpointEnd, writer, reader, server
<1>1. FramesOK' /\ ~stray'
  BY <1>0, FramesKept DEF Protocol
<1> SUFFICES ASSUME ~failed, Exchange PROVE Exchange'
  BY <1>0, <1>1, StepOK
<1>2. Once' /\ Asked' = Asked /\ Sent' = Sent
  BY <1>0, CommandsKept DEF Exchange, Sent
<1>3. ~closed /\ ~wfailed
  BY DEF Exchange, Stopped
<1>4. CASE PauseRequests
  <2>1. ck = "captures" /\ ck' = "drain" /\ paused' /\ attached' = attached
    BY <1>3, <1>4 DEF PauseRequests, server
  <2>2. Turns'
    BY <1>0, <1>2, <2>1 DEF Exchange, Turns, Free, Draining, Asking, AtBarrier, Moving
  <2>3. Acks'
    BY <1>0, <1>2, <2>1 DEF Exchange, Acks
  <2>4. Stopped'
    BY <1>0, <1>2, <2>1 DEF Exchange, Stopped, Asking, AtBarrier, Moving
  <2> QED
    BY <1>2, <2>2, <2>3, <2>4 DEF Exchange
<1>5. CASE ReadDrained
  <2>1. ck = "drainwait" /\ ck' = "D" /\ UNCHANGED <<paused, attached>>
    BY <1>5 DEF ReadDrained, server
  <2>2. Turns'
    BY <1>0, <1>2, <2>1 DEF Exchange, Turns, Free, Draining, Asking, AtBarrier, Moving
  <2>3. Acks'
    BY <1>0, <1>2, <2>1 DEF Exchange, Acks
  <2>4. Stopped'
    BY <1>0, <1>2, <2>1 DEF Exchange, Stopped, Asking, AtBarrier, Moving
  <2> QED
    BY <1>2, <2>2, <2>3, <2>4 DEF Exchange
<1>6. CASE DrainOutput
  <2>1. /\ ck = "dwait" /\ ck' = "recvF" /\ UNCHANGED <<paused, attached>>
        /\ out = <<>> /\ chunk = <<>>
    BY <1>6 DEF DrainOutput, server
  <2>2. Sent = {}
    BY <2>1, EmptyQueue DEF Sent
  <2>3. Turns'
    BY <1>0, <1>2, <2>1
    DEF Exchange, Turns, Aborting, Free, Draining, Asking, AtBarrier, Moving
  <2>4. Acks'
    BY <1>0, <1>2, <2>1, <2>2 DEF Exchange, Acks, Sent
  <2>5. Stopped'
    BY <1>0, <1>2, <2>1, <2>2 DEF Exchange, Stopped, Asking, AtBarrier, Moving
  <2> QED
    BY <1>2, <2>3, <2>4, <2>5 DEF Exchange
<1>7. CASE AwaitBarrier
  <2>1. /\ ck = "await" /\ ck' = "recvC" /\ UNCHANGED <<paused, attached>>
        /\ chunk = <<>> /\ barrier = 0
    BY <1>7 DEF AwaitBarrier, server
  <2>2. "A" \notin Sent /\ "D" \notin Sent
    BY <2>1, EmptyQueue DEF Exchange, Acks, Sent
  <2>3. Turns'
    BY <1>0, <1>2, <2>1
    DEF Exchange, Turns, Aborting, Free, Draining, Asking, AtBarrier, Moving
  <2>4. Acks'
    BY <1>0, <1>2, <2>1, <2>2 DEF Exchange, Acks, Sent
  <2>5. Stopped'
    BY <1>0, <1>2, <2>1 DEF Exchange, Stopped, Asking, AtBarrier, Moving
  <2> QED
    BY <1>2, <2>3, <2>4, <2>5 DEF Exchange
<1>8. CASE ParkSocket
  <2>1. ck = "park" /\ ck' = "dial" /\ paused' = paused /\ parked
    BY <1>8 DEF ParkSocket
  <2>2. "A" \notin Sent /\ "D" \notin Sent
    BY <2>1 DEF Exchange, Acks
  <2>3. Turns'
    BY <1>0, <1>2, <2>1 DEF Exchange, Turns, Free, Draining, Asking, AtBarrier, Moving
  <2>4. Acks'
    BY <1>0, <1>2, <2>1, <2>2 DEF Exchange, Acks, Sent
  <2>5. Stopped'
    BY <1>0, <1>2, <2>1 DEF Exchange, Stopped, Asking, AtBarrier, Moving
  <2> QED
    BY <1>2, <2>3, <2>4, <2>5 DEF Exchange
<1>9. CASE ResumeRequests
  <2>1. ck = "resume" /\ ck' = "resumed" /\ attached' = attached
    BY <1>9 DEF ResumeRequests, server
  <2>2. Turns'
    BY <1>0, <1>2, <2>1 DEF Exchange, Turns, Free, Draining, Asking, AtBarrier, Moving
  <2>3. Acks'
    BY <1>0, <1>2, <2>1 DEF Exchange, Acks
  <2>4. Stopped'
    BY <1>0, <1>2, <2>1 DEF Exchange, Stopped, Asking, AtBarrier, Moving
  <2> QED
    BY <1>2, <2>2, <2>3, <2>4 DEF Exchange
<1>10. CASE HandoffFails
  BY <1>3, <1>10 DEF HandoffFails, GivesUp
<1>11. CASE CheckpointEnd
  <2>1. ck = "resumed" /\ ck' = "recv" /\ UNCHANGED <<paused, attached>>
    BY <1>11 DEF CheckpointEnd, server, Exchange, Turns, Free, Draining, Asking, AtBarrier,
                 Moving
  <2>2. Turns'
    BY <1>0, <1>2, <2>1 DEF Exchange, Turns, Free, Draining, Asking, AtBarrier, Moving
  <2>3. Acks'
    BY <1>0, <1>2, <2>1 DEF Exchange, Acks
  <2>4. Stopped'
    BY <1>0, <1>2, <2>1 DEF Exchange, Stopped, Asking, AtBarrier, Moving
  <2> QED
    BY <1>2, <2>2, <2>3, <2>4 DEF Exchange
<1> QED
  BY <1>4, <1>5, <1>6, <1>7, <1>8, <1>9, <1>10, <1>11

LEMMA SendsProtocol ==
    ASSUME Protocol, SendDrain \/ SendD \/ SendA
    PROVE  Protocol'
<1>0. /\ UNCHANGED <<paused, chunk, wpaused, wfailed, parked, failed, closed, down, peer,
                     attached, stray>>
      /\ ~failed
  BY DEF SendDrain, SendD, SendA, reader, server, Received
<1>1. Exchange /\ FramesOK /\ out \in Seq(Outgoing) /\ Len(out) \in Nat
  BY SMT, <1>0 DEF Protocol, FramesOK
<1>2. ASSUME NEW f \in Outgoing, out' = Append(out, f)
      PROVE  /\ out' \in Seq(Outgoing) /\ Range(out') = Range(out) \cup {f}
             /\ Sent' = Sent \cup {f} /\ Len(out') = Len(out) + 1
             /\ out'[Len(out) + 1] = f
             /\ \A i \in DOMAIN out : i \in DOMAIN out' /\ out'[i] = out[i]
  <2>1. out' \in Seq(Outgoing) /\ Range(out') = Range(out) \cup {f}
    BY <1>1, <1>2, AppendQueue
  <2>2. Sent' = Sent \cup {f}
    BY <1>0, <2>1 DEF Sent
  <2> QED
    BY SMT, <1>1, <1>2, <2>1, <2>2
<1>3. ASSUME FramesOK', Exchange' PROVE Protocol'
  BY <1>0, <1>3 DEF Protocol
<1>4. CASE SendDrain
  <2>1. /\ ck = "drain" /\ ck' = "drainwait" /\ out' = Append(out, "drain")
        /\ "drain" \in Outgoing /\ UNCHANGED <<barrier, controls>>
    BY <1>4 DEF SendDrain, reader, Outgoing
  <2>2. FramesOK'
    BY SMT, <1>0, <1>1, <1>2, <2>1 DEF FramesOK
  <2>3. Once' /\ Asked' = Asked
    BY <1>0, <1>1, <2>1, CommandsKept DEF Exchange
  <2>4. Turns'
    BY <1>0, <1>1, <2>1, <2>3 DEF Exchange, Turns, Free, Draining, Asking, AtBarrier, Moving
  <2>5. "A" \notin Sent' /\ "D" \notin Sent' /\ barrier = 0
    BY <1>1, <1>2, <2>1 DEF Exchange, Acks, Sent, Range
  <2>6. Acks'
    BY <1>0, <2>1, <2>5 DEF Acks, Sent
  <2>7. Stopped'
    BY <1>0, <1>1, <2>1 DEF Exchange, Stopped, Asking, AtBarrier, Moving
  <2> QED
    BY <1>3, <2>2, <2>3, <2>4, <2>6, <2>7 DEF Exchange
<1>5. CASE SendD
  <2>1. /\ ck = "D" /\ ck' = "dwait" /\ out' = Append(out, "D")
        /\ "D" \in Outgoing /\ UNCHANGED <<barrier, controls>>
    BY <1>5 DEF SendD, reader, Outgoing
  <2>2. FramesOK'
    BY SMT, <1>0, <1>1, <1>2, <2>1 DEF FramesOK
  <2>3. Once' /\ Asked' = Asked
    BY <1>0, <1>1, <2>1, CommandsKept DEF Exchange
  <2>4. peer = "asked" /\ Asked = {}
    BY <1>1, <2>1 DEF Exchange, Turns, Draining
  <2>5. Turns'
    BY <1>0, <2>1, <2>3, <2>4 DEF Turns, Free, Draining, Asking, AtBarrier, Moving
  <2>6. "A" \notin Sent /\ "D" \notin Sent /\ barrier = 0
    BY <1>1, <2>1 DEF Exchange, Acks, Sent, Range
  <2>7. "A" \notin Sent' /\ "D" \notin Range(chunk')
    BY <1>0, <1>2, <2>1, <2>6 DEF Sent
  <2>8. Acks'
    BY <1>0, <2>1, <2>3, <2>4, <2>6, <2>7 DEF Acks, Sent
  <2>9. Stopped'
    BY <1>0, <1>1, <2>1, <2>4 DEF Exchange, Stopped, Asking, AtBarrier, Moving
  <2> QED
    BY <1>3, <2>2, <2>3, <2>5, <2>8, <2>9 DEF Exchange
<1>6. CASE SendA
  <2>1. /\ ck = "recvF" /\ ck' = "await" /\ out' = Append(out, "A")
        /\ "A" \in Outgoing /\ barrier' = Len(out) + 1
        /\ Received("F") /\ controls' = Tail(controls)
    BY <1>6 DEF SendA, Outgoing
  <2>2. /\ "F" \in Asked /\ controls' \in Seq(Commands)
        /\ Once' /\ Asked' = Asked \ {"F"}
    BY <1>0, <1>1, <2>1, CommandTaken DEF Exchange
  <2>3. FramesOK'
    BY SMT, <1>0, <1>1, <1>2, <2>1, <2>2 DEF FramesOK
  <2>4. peer = "freezing" /\ Asked' = {}
    BY <1>1, <2>1, <2>2 DEF Exchange, Turns, Aborting, Asking
  <2>5. Turns'
    BY <1>0, <2>1, <2>4 DEF Turns, Free, Draining, Asking, AtBarrier, Moving
  <2>6. "A" \notin Sent /\ "D" \notin Sent
    BY <1>1, <2>1 DEF Exchange, Acks
  <2>7. AtMostOnce(out', "A")
    <3>1. AtMostOnce(out, "A") /\ "A" \notin Range(out)
      BY <2>6 DEF Sent, Range, AtMostOnce
    <3> QED
      BY <1>1, <2>1, <3>1, AppendQueue
  <2>8. barrier' \in DOMAIN out' /\ out'[barrier'] = "A" /\ barrier' # 0
    BY SMT, <1>1, <1>2, <2>1
  <2>9. "A" \notin Range(chunk') /\ "D" \notin Sent' /\ Sent' = Sent \cup {"A"}
    BY <1>0, <1>2, <2>1, <2>6 DEF Sent
  <2>10. Acks'
    BY <1>0, <2>1, <2>4, <2>7, <2>8, <2>9 DEF Acks, Sent
  <2>11. Stopped'
    BY <1>0, <1>1, <2>1, <2>9 DEF Exchange, Stopped, Asking, AtBarrier, Moving
  <2> QED
    BY <1>3, <2>2, <2>3, <2>5, <2>10, <2>11 DEF Exchange
<1> QED
  BY <1>4, <1>5, <1>6

LEMMA ReceivesProtocol ==
    ASSUME Protocol, ReceivePause \/ ReceiveCommit \/ ReceiveAbort
    PROVE  Protocol'
<1>0. /\ UNCHANGED <<paused, out, barrier, chunk, wpaused, wfailed, parked, failed, closed,
                     down, peer, attached, stray>>
      /\ ~failed /\ controls' = Tail(controls)
  BY DEF ReceivePause, ReceiveCommit, ReceiveAbort, writer, server, Received
<1>1. Exchange /\ FramesOK /\ Sent' = Sent
  BY <1>0 DEF Protocol, Sent
<1>2. ASSUME FramesOK', Exchange' PROVE Protocol'
  BY <1>0, <1>2 DEF Protocol
<1>3. ASSUME NEW c, Received(c)
      PROVE  c \in Asked /\ FramesOK' /\ Once' /\ Asked' = Asked \ {c}
  <2>1. c \in Asked /\ controls' \in Seq(Commands) /\ Once' /\ Asked' = Asked \ {c}
    BY <1>0, <1>1, <1>3, CommandTaken DEF Exchange
  <2> QED
    BY <1>0, <1>1, <2>1 DEF FramesOK
<1>4. CASE ReceivePause
  <2>1. ck = "recv" /\ ck' = "captures" /\ Received("P")
    BY <1>4 DEF ReceivePause
  <2>2. "P" \in Asked /\ FramesOK' /\ Once' /\ Asked' = Asked \ {"P"}
    BY <1>3, <2>1
  <2>3. peer = "asked" /\ Asked' = {}
    BY <1>1, <2>1, <2>2 DEF Exchange, Turns, Free
  <2>4. Turns'
    BY <1>0, <2>1, <2>3 DEF Turns, Free, Draining, Asking, AtBarrier, Moving
  <2>5. "A" \notin Sent /\ "D" \notin Sent
    BY <1>1, <2>1 DEF Exchange, Acks
  <2>6. Acks'
    BY <1>0, <1>1, <2>5 DEF Exchange, Acks, Sent
  <2>7. Stopped'
    BY <1>0, <1>1, <2>1 DEF Exchange, Stopped, Asking, AtBarrier, Moving
  <2> QED
    BY <1>2, <2>2, <2>4, <2>6, <2>7 DEF Exchange
<1>5. CASE ReceiveCommit
  <2>1. ck = "recvC" /\ ck' = "park" /\ Received("C")
    BY <1>5 DEF ReceiveCommit
  <2>2. "C" \in Asked /\ FramesOK' /\ Once' /\ Asked' = Asked \ {"C"}
    BY <1>3, <2>1
  <2>3. peer = "moved" /\ Asked' = {}
    BY <1>1, <2>1, <2>2 DEF Exchange, Turns, Aborting, AtBarrier
  <2>4. Turns'
    BY <1>0, <2>1, <2>3 DEF Turns, Free, Draining, Asking, AtBarrier, Moving
  <2>5. "A" \notin Sent /\ "D" \notin Sent
    BY <1>1, <2>1 DEF Exchange, Acks
  <2>6. Acks'
    BY <1>0, <1>1, <2>5 DEF Exchange, Acks, Sent
  <2>7. Stopped'
    BY <1>0, <1>1, <2>1 DEF Exchange, Stopped, Asking, AtBarrier, Moving
  <2> QED
    BY <1>2, <2>2, <2>4, <2>6, <2>7 DEF Exchange
<1>6. CASE ReceiveAbort
  <2>1. ck \in {"recvF", "recvC"} /\ ck' = "resume" /\ Received("X")
    BY <1>6 DEF ReceiveAbort
  <2>2. "X" \in Asked /\ FramesOK' /\ Once' /\ Asked' = Asked \ {"X"}
    BY <1>3, <2>1
  <2>3. Aborting
    BY SMT, <1>1, <2>1, <2>2 DEF Exchange, Turns, Asking, AtBarrier
  <2>4. peer \in {"run", "asked"} /\ Asked' \subseteq {"P"} /\ ("P" \in Asked' => peer = "asked")
    BY <1>1, <2>2, <2>3 DEF Aborting, Exchange, Turns
  <2>5. Turns'
    BY <1>0, <2>1, <2>4 DEF Turns, Free, Draining, Asking, AtBarrier, Moving
  <2>6. "A" \notin Sent /\ "D" \notin Sent
    BY <1>1, <2>1 DEF Exchange, Acks
  <2>7. Acks'
    BY <1>0, <1>1, <2>6 DEF Exchange, Acks, Sent
  <2>8. Stopped'
    BY <1>0, <1>1, <2>1, <2>4 DEF Exchange, Stopped, Asking, AtBarrier, Moving
  <2> QED
    BY <1>2, <2>2, <2>5, <2>7, <2>8 DEF Exchange
<1> QED
  BY <1>4, <1>5, <1>6

LEMMA ResumeSocketProtocol ==
    ASSUME Protocol, ResumeSocket
    PROVE  Protocol'
<1>0. /\ UNCHANGED <<paused, out, barrier, chunk, wfailed, controls, failed, closed, down,
                     stray>>
      /\ ~failed /\ ck = "dial" /\ ck' = "resume" /\ peer' = "run" /\ attached'
  BY DEF ResumeSocket
<1>1. Exchange /\ FramesOK' /\ ~stray' /\ Sent' = Sent
  BY <1>0, FramesKept DEF Protocol, Sent
<1>2. Once' /\ Asked' = Asked /\ Asked = {}
  BY <1>0, <1>1, CommandsKept DEF Exchange, Turns, Moving
<1>3. Turns'
  BY <1>0, <1>2 DEF Turns, Free, Draining, Asking, AtBarrier, Moving
<1>4. "A" \notin Sent /\ "D" \notin Sent
  BY <1>0, <1>1 DEF Exchange, Acks
<1>5. Acks'
  BY <1>0, <1>1, <1>4 DEF Exchange, Acks, Sent
<1>6. Stopped'
  BY <1>0, <1>1 DEF Exchange, Stopped, Asking, AtBarrier, Moving
<1> QED
  BY <1>0, <1>1, <1>2, <1>3, <1>5, <1>6 DEF Protocol, Exchange

(* Every step *)

LEMMA NextProtocol ==
    ASSUME Protocol, [HNext]_hvars
    PROVE  Protocol'
<1>1. CASE UNCHANGED hvars
  BY <1>1, ProtocolKept DEF hvars, pvars, writer, reader, server
<1>2. ASSUME NEW t \in Threads, Application(t) PROVE Protocol'
  BY <1>2, ApplicationProtocol
<1>3. ASSUME NEW t, CaptureBegin(t) \/ GateSpurious(t) PROVE Protocol'
  BY <1>3, ProtocolKept DEF CaptureBegin, GateSpurious, pvars, writer, reader, server
<1>4. ASSUME NEW k, OtherBegins(k) \/ OtherEnds(k) \/ GateWakes(k) PROVE Protocol'
  BY <1>4, ProtocolKept DEF OtherBegins, OtherEnds, GateWakes, pvars, writer, reader, server
<1>5. CASE CheckpointThread
  <2>1. CASE CheckpointBegin
    BY <2>1, ProtocolKept DEF CheckpointBegin, pvars, writer, reader, server
  <2> QED
    BY <1>5, <2>1, MovesProtocol, SendsProtocol, ReceivesProtocol, ResumeSocketProtocol,
       TransportFailsProtocol DEF CheckpointThread
<1>6. CASE WriterTakes \/ WriterWrote \/ WriterFails \/ ReadFrame \/ ReaderFails \/ Close \/ Peer
  BY <1>6, WriterTakesProtocol, WriterWroteProtocol, ReadFrameProtocol,
     TransportFailsProtocol, PeerProtocol
<1> QED
  BY <1>1, <1>2, <1>3, <1>4, <1>5, <1>6 DEF HNext

LEMMA InitProtocol == HInit => Protocol
<1> SUFFICES ASSUME HInit PROVE Protocol
  OBVIOUS
<1>1. /\ ck = "recv" /\ out = <<>> /\ barrier = 0 /\ chunk = <<>> /\ wfailed = FALSE
      /\ controls = <<>> /\ closed = FALSE /\ down = <<>> /\ peer = "run"
      /\ attached = TRUE /\ stray = FALSE
  BY DEF HInit
<1>2. \A S : <<>> \in Seq(S)
  BY EmptyQueue
<1>3. Len(out) = 0 /\ Range(out) = {} /\ Range(chunk) = {} /\ Range(down) = {}
      /\ Range(controls) = {}
  BY <1>1, EmptyQueue
<1>4. FramesOK
  BY SMT, <1>1, <1>2, <1>3 DEF FramesOK
<1>5. Once
  BY SMT, <1>1 DEF Once, AtMostOnce, Range
<1>6. Asked = {} /\ Sent = {}
  BY <1>3 DEF Asked, Sent
<1>7. Turns
  BY <1>1, <1>6 DEF Turns, Free, Draining, Asking, AtBarrier, Moving
<1>8. Acks
  BY <1>1, <1>3, <1>6 DEF Acks
<1>9. Stopped
  BY <1>1, <1>6 DEF Stopped, Asking, AtBarrier, Moving
<1> QED
  BY <1>1, <1>4, <1>5, <1>7, <1>8, <1>9 DEF Protocol, Exchange

\* The client and the supervisor stay in step, whatever the application, the
\* writer, the reader, other handoffs, aborts and lost frames do in between.
THEOREM HandoffInStep == HSpec => []Protocol
<1>1. Protocol /\ [HNext]_hvars => Protocol'
  BY NextProtocol
<1> QED
  BY <1>1, InitProtocol, PTL DEF HSpec

\* h2_write_main() hands the old socket no frame behind the 'A' of
\* lupine_handoff_send_control(): no frame is lost to a process already frozen.
THEOREM BarrierEndsTheOldSocket == HSpec => []BarrierIsLast
<1>1. Protocol => BarrierIsLast
  BY DEF Protocol, BarrierIsLast
<1> QED
  BY <1>1, HandoffInStep, PTL

\* When the supervisor takes the image no request, drain request or 'D' is
\* queued or half written: checkpoint_handoff() has waited for them all.
THEOREM NothingCutByBarrier == HSpec => []NoRequestAtBarrier
<1>1. Protocol => NoRequestAtBarrier
  <2> SUFFICES ASSUME Protocol, peer \in {"acked", "moved"}, ~failed
               PROVE  Range(out \o chunk) \cap (Threads \cup {"drain", "D"}) = {}
    BY DEF NoRequestAtBarrier
  <2>1. chunk = <<>> /\ Exchange /\ out \in Seq(Outgoing)
    BY DEF Protocol, Exchange, Stopped, FramesOK
  <2>2. ck \in AtBarrier \cup Moving
    BY <2>1 DEF Exchange, Turns, Aborting, Free, Draining, Asking
  <2>3. Range(out) \subseteq {"ack", "A"}
    BY <2>1, <2>2 DEF Exchange, Stopped, Sent
  <2>4. out \o chunk = out
    BY SMT, <2>1
  <2> QED
    BY <2>3, <2>4, FramesAssumption
<1> QED
  BY <1>1, HandoffInStep, PTL

\* From lupine_handoff_park_socket() to lupine_handoff_resume_socket() neither
\* the reader nor the writer is on the socket being replaced.
THEOREM ReplacedSocketIsIdle == HSpec => []SocketIdle
<1>1. Protocol => SocketIdle
  <2> SUFFICES ASSUME Protocol, ~attached, ~failed
               PROVE  parked /\ wpaused /\ chunk = <<>>
    BY DEF SocketIdle
  <2>1. Exchange /\ ck = "dial" /\ parked
    BY DEF Protocol, Exchange, Stopped
  <2>2. peer = "moved"
    BY <2>1 DEF Exchange, Turns, Moving
  <2> QED
    BY <2>1, <2>2 DEF Exchange, Stopped
<1> QED
  BY <1>1, HandoffInStep, PTL

=============================================================================
