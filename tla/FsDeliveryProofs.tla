------------------------- MODULE FsDeliveryProofs --------------------------
(***************************************************************************)
(* What the applications at the two ends see of a connection, proved for   *)
(* any queue length, any number of steps and any network: FrameSets are    *)
(* delivered in order and without a gap, and what is ACKed was delivered.  *)
(*                                                                         *)
(* The first part says what each function of the code leaves alone; the    *)
(* second is about unsequenced FrameSets; the third about the order of     *)
(* delivery; the fourth about what an ACK takes off the output queue; the  *)
(* last about what is listed, and what may fire, for a connection.         *)
(***************************************************************************)
EXTENDS FsProtocolProofs

-----------------------------------------------------------------------------
(* What the functions of the code leave alone.                             *)

\* The queues and what has been ACKed are as they were ...
SameQueues(f, g) ==
    /\ g.outq = f.outq /\ g.inq = f.inq /\ g.ipend = f.ipend
    /\ g.lastacksent = f.lastacksent

Same(f, g) == SameQueues(f, g) /\ g.exists = f.exists

\* ... or have been reset, and the output queue is in a later session.
Reset(f, g) ==
    /\ g.outq.items = <<>> /\ g.outq.nextseqno = 1
    /\ f.outq.sessionid = 0 => g.outq.sessionid = 0
    /\ f.outq.sessionid # 0 => g.outq.sessionid > f.outq.sessionid
    /\ g.inq.items = <<>> /\ g.inq.nextseqno = 1 /\ g.inq.sessionid = 0
    /\ g.lastacksent = NoSeq
    /\ (f.inq.isready => f.ipend) => (g.inq.isready => g.ipend)
    /\ g.inq.isready => f.inq.isready /\ f.inq.items = <<>>
    /\ g.ipend => f.ipend /\ f.inq.items = <<>>
    /\ g.exists = f.exists

Keeps(f, g) == Same(f, g) \/ Reset(f, g)

LEMMA KeepsTransitive ==
    ASSUME NEW f \in Fspe, NEW g \in Fspe, NEW h \in Fspe, Keeps(f, g), Keeps(g, h)
    PROVE  Keeps(f, h)
<1>1. f.outq.sessionid \in Nat /\ g.outq.sessionid \in Nat /\ h.outq.sessionid \in Nat
  BY FspeFields
<1> QED
  BY <1>1 DEF Keeps, Same, SameQueues, Reset

\* _fsprotocol_fspe_reinit
LEMMA ReinitResets ==
    ASSUME NEW f \in Fspe
    PROVE  Reinit(f) \in Fspe /\ Reset(f, Reinit(f))
<1> DEFINE g   == StopTimers(f)
           oq  == [items |-> <<>>, nextseqno |-> FirstSeqno,
                   sessionid |-> IF f.outq.sessionid = 0 THEN 0 ELSE f.outq.sessionid + 1,
                   isready |-> FALSE]
           iq  == [items |-> <<>>, nextseqno |-> FirstSeqno, sessionid |-> 0,
                   isready |-> f.inq.isready /\ f.inq.items = <<>>]
           una == f.unacked /\ f.outq.items = <<>>
           ip  == f.ipend /\ f.inq.items = <<>>
<1>1. g \in Fspe /\ g.outq = f.outq /\ g.inq = f.inq /\ g.unacked = f.unacked
      /\ g.ipend = f.ipend /\ g.exists = f.exists
  <2>1. "off" \in Timer
    BY DEF Timer
  <2> QED
    BY <2>1, Zenon DEF StopTimers, Fspe
<1>2. /\ oq \in Queue /\ oq.items = <<>> /\ oq.nextseqno = 1
      /\ f.outq.sessionid = 0 => oq.sessionid = 0
      /\ f.outq.sessionid # 0 => oq.sessionid > f.outq.sessionid
  BY FspeFields, EmptySeq DEF Queue, FirstSeqno
<1>3. /\ iq \in Queue /\ iq.items = <<>> /\ iq.nextseqno = 1 /\ iq.sessionid = 0
      /\ iq.isready = (f.inq.isready /\ f.inq.items = <<>>)
  BY FspeFields, EmptySeq DEF Queue, FirstSeqno
<1>4. una \in BOOLEAN /\ ip \in BOOLEAN
  BY FspeFields
<1>5. NoSeq \in SeqId /\ "NONE" \in State
  BY DEF NoSeq, SeqId, State
<1>6. Reinit(f) = [g EXCEPT !.unacked = una, !.outq = oq, !.ipend = ip, !.inq = iq,
                            !.lastacksent = NoSeq, !.lastseqsent = NoSeq,
                            !.nextrexmit = FALSE, !.acktimeout = FALSE,
                            !.state = "NONE", !.shutdown_complete = FALSE]
  BY <1>1, ZenonT(60) DEF Reinit
<1> HIDE DEF g, oq, iq, una
<1>7. /\ Reinit(f) \in Fspe /\ Reinit(f).outq = oq /\ Reinit(f).inq = iq
      /\ Reinit(f).ipend = ip /\ Reinit(f).lastacksent = NoSeq
      /\ Reinit(f).exists = f.exists
  <2> HIDE DEF ip
  <2> QED
    BY <1>1, <1>2, <1>3, <1>4, <1>5, <1>6, ZenonT(60) DEF Fspe
<1> QED
  BY <1>2, <1>3, <1>7 DEF Reset

\* A_CLOSE
LEMMA CloseResets ==
    ASSUME NEW f \in Fspe
    PROVE  Close(f) \in Fspe /\ Reset(f, Close(f))
<1>1. Reinit(f) \in Fspe /\ Reset(f, Reinit(f)) /\ "armed" \in Timer
  BY ReinitResets DEF Timer
<1>2. /\ Close(f) \in Fspe /\ Close(f).outq = Reinit(f).outq /\ Close(f).inq = Reinit(f).inq
      /\ Close(f).ipend = Reinit(f).ipend /\ Close(f).lastacksent = Reinit(f).lastacksent
      /\ Close(f).exists = Reinit(f).exists
  BY <1>1, Zenon DEF Close, Fspe
<1> QED
  BY <1>1, <1>2 DEF Reset

\* d, made from c, has sent nothing and kept the queues or reset them.
KeepsCtx(c, d) ==
    /\ d.f \in Fspe /\ Keeps(c.f, d.f)
    /\ d.psid = c.psid /\ d.tx = c.tx

\* The end of _fsprotocol_fsa.
LEMMA FsaFinishKeeps ==
    ASSUME NEW c \in Context, NEW s \in State, NEW i \in Input
    PROVE  /\ KeepsCtx(c, FsaFinish(c, s, i))
           /\ "CLOSE" \notin Actions(s, i) => Same(c.f, FsaFinish(c, s, i).f)
<1> DEFINE acts == Actions(s, i)
           t    == ShutTimer(c.f.shuttimer, acts)
           f1   == [c.f EXCEPT !.shuttimer = t]
           f2   == IF "CLOSE" \in acts THEN Close(f1) ELSE f1
           f3   == [f2 EXCEPT !.state = NextState(s, i)]
<1>1. c.f \in Fspe /\ c.f.shuttimer \in Timer
  BY CtxFields, FspeFields
<1>2. t \in Timer
  BY <1>1 DEF ShutTimer, Timer
<1> HIDE DEF t, acts
<1>3. f1 \in Fspe /\ Same(c.f, f1)
  BY <1>1, <1>2, Zenon DEF Fspe, Same, SameQueues
<1>4. FsaFinish(c, s, i) = [c EXCEPT !.f = f3]
  BY Zenon DEF FsaFinish, acts, t
<1>5. NextState(s, i) \in State
  BY Cells
<1>6. ASSUME NEW g \in Fspe
      PROVE  /\ [g EXCEPT !.state = NextState(s, i)] \in Fspe
             /\ Same(g, [g EXCEPT !.state = NextState(s, i)])
  BY <1>5, Zenon DEF Fspe, Same, SameQueues
<1> HIDE DEF f1
<1>7. f2 \in Fspe /\ Keeps(f1, f2) /\ ("CLOSE" \notin acts => Same(f1, f2))
  BY <1>3, CloseResets DEF Keeps, Same, SameQueues
<1> HIDE DEF f2
<1>8. f3 \in Fspe /\ Same(f2, f3)
  BY <1>6, <1>7
<1> HIDE DEF f3
<1>9. Keeps(c.f, f3) /\ ("CLOSE" \notin acts => Same(c.f, f3))
  <2>1. Keeps(c.f, f2)
    BY <1>1, <1>3, <1>7, KeepsTransitive DEF Keeps
  <2>2. Keeps(c.f, f3)
    BY <1>1, <1>7, <1>8, <2>1, KeepsTransitive DEF Keeps
  <2> QED
    BY <1>3, <1>7, <1>8, <2>2 DEF Same, SameQueues
<1>10. [c EXCEPT !.f = f3].f = f3 /\ [c EXCEPT !.f = f3].psid = c.psid
       /\ [c EXCEPT !.f = f3].tx = c.tx
  BY <1>8, CtxFields
<1> QED
  BY <1>4, <1>8, <1>9, <1>10 DEF KeepsCtx, acts

LEMMA FsaQuietKeeps ==
    ASSUME NEW c \in Context, NEW i \in Input
    PROVE  /\ KeepsCtx(c, FsaQuiet(c, i))
           /\ i = "REQSEND" => Same(c.f, FsaQuiet(c, i).f)
<1>1. c.f.state \in State
  BY CtxFields, FspeFields
<1>2. i = "REQSEND" => "CLOSE" \notin Actions(c.f.state, i)
  BY <1>1 DEF State, Actions, InShutdown
<1> QED
  BY <1>1, <1>2, FsaFinishKeeps DEF FsaQuiet

\* d, made from c, goes on with the connection: no timer of it was touched but that of
\* the next transmission, and the automaton at most came up.
Runs(c, d) ==
    /\ d.f.finalizetimer = c.f.finalizetimer
    /\ d.clk \in {c.clk, "early"}
    /\ d.f.state = c.f.state \/ (c.f.state \in {"NONE", "INIT"} /\ d.f.state \in {"INIT", "UP"})

\* The inputs that close nothing, in the states in which they do not.
Harmless(s, i) ==
    \/ i \in {"REQSEND", "GOTSTART"}
    \/ i = "OUTALLDONE" /\ s \in {"NONE", "INIT", "UP"}
    \/ i = "ACKTIMEOUT" /\ s = "UP"

\* A handler found a connection that is not being shut down, and announces an ACK
\* timeout at most.
Open(c) ==
    /\ c.f.state \in {"NONE", "INIT", "UP"}
    /\ c.clk = "late" => c.f.state = "UP"

LEMMA FsaQuietRuns ==
    ASSUME NEW c \in Context, NEW i \in Input, Harmless(c.f.state, i)
    PROVE  Runs(c, FsaQuiet(c, i)) /\ Same(c.f, FsaQuiet(c, i).f) /\ FsaQuiet(c, i).tx = c.tx
<1> DEFINE s  == c.f.state
           t  == ShutTimer(c.f.shuttimer, Actions(s, i))
           f1 == [c.f EXCEPT !.shuttimer = t]
           f2 == [f1 EXCEPT !.state = NextState(s, i)]
<1>1. c.f \in Fspe /\ c.f.shuttimer \in Timer /\ s \in State /\ NextState(s, i) \in State
  BY CtxFields, FspeFields, Cells
<1>2. "CLOSE" \notin Actions(s, i)
  BY <1>1 DEF State, Actions, InShutdown, Harmless
<1>3. /\ NextState(s, i) = s \/ (s \in {"NONE", "INIT"} /\ NextState(s, i) \in {"INIT", "UP"})
  BY <1>1 DEF State, NextState, InShutdown, Harmless
<1>4. t \in Timer
  BY <1>1 DEF ShutTimer, Timer
<1>5. FsaQuiet(c, i) = [c EXCEPT !.f = f2]
  BY <1>2, Zenon DEF FsaQuiet, FsaFinish
<1> HIDE DEF t
<1>6. f2 \in Fspe /\ f2.finalizetimer = c.f.finalizetimer /\ f2.state = NextState(s, i)
  BY <1>1, <1>4, Zenon DEF Fspe
<1> HIDE DEF f2
<1>7. FsaQuiet(c, i).f = f2 /\ FsaQuiet(c, i).clk = c.clk
  BY <1>5, <1>6, CtxFields
<1>8. Same(c.f, FsaQuiet(c, i).f) /\ FsaQuiet(c, i).tx = c.tx
  BY <1>1, <1>2, FsaFinishKeeps DEF FsaQuiet, KeepsCtx
<1> QED
  BY <1>3, <1>6, <1>7, <1>8 DEF Runs

\* Assignments to other fields keep the queues.
LEMMA SameFields ==
    ASSUME NEW f \in Fspe
    PROVE  /\ \A s \in SeqId : Same(f, [f EXCEPT !.lastseqsent = s])
           /\ \A b \in BOOLEAN : /\ Same(f, [f EXCEPT !.acktimeout = b])
                                 /\ Same(f, [f EXCEPT !.nextrexmit = b])
           /\ \A t \in Timer : /\ Same(f, [f EXCEPT !.shuttimer = t])
                               /\ Same(f, [f EXCEPT !.finalizetimer = t])
BY Zenon DEF Same, SameQueues, Fspe

\* What one transmission may hand to the socket: nothing, or the oldest FrameSet.
SendsHead(c, d) ==
    \/ d.tx = c.tx
    \/ c.f.outq.items # <<>> /\ d.tx = c.tx \cup {Data(Head(c.f.outq.items))}

\* _fsprotocol_xmitifwecan.  With a window of 2 a FrameSet is never sent before
\* all older ones are ACKed: what may be sent for the first time is sent when
\* the queue is shorter than the window.
LEMMA XmitKeeps ==
    ASSUME NEW c, SoundCtx(c)
    PROVE  /\ Xmit(c).f \in Fspe /\ Keeps(c.f, Xmit(c).f) /\ Xmit(c).psid = c.psid
           /\ Window <= 2 => SendsHead(c, Xmit(c))
           /\ Open(c) => Runs(c, Xmit(c)) /\ Same(c.f, Xmit(c).f)
           /\ \A y \in Xmit(c).tx :
                y \in c.tx \/ \E i \in DOMAIN c.f.outq.items : y = Data(c.f.outq.items[i])
<1> DEFINE q      == c.f.outq.items
           unsent == Unsent(c.f)
           new    == {Data(q[i]) : i \in unsent}
           v      == IF unsent # {} THEN Seqno(q[Len(q)]) ELSE Transmit(c, new).f.lastseqsent
           t1     == Transmit(c, new)
           g1     == [t1.f EXCEPT !.lastseqsent = v]
           c1     == [t1 EXCEPT !.f = g1]
           d2     == Transmit(c1, {Data(Head(q))})
           c2     == [d2 EXCEPT !.clk = "early"]
           c3     == FsaQuiet(c2, "ACKTIMEOUT")
           c4     == [c3 EXCEPT !.f.acktimeout = TRUE]
           c5     == [c1 EXCEPT !.f.nextrexmit = FALSE]
<1>1. c \in Context /\ c.f \in Fspe /\ Sound(c.f) /\ q \in Seq(FrameSet)
      /\ c.f.lastseqsent \in SeqId
  BY CtxFields, FspeFields DEF SoundCtx
<1>2. Len(q) \in Nat /\ DOMAIN q = 1 .. Len(q) /\ (\A i \in 1 .. Len(q) : q[i] \in FrameSet)
      /\ (Len(q) # 0 => q # <<>> /\ Head(q) = q[1])
  BY <1>1, LenProperties, ElementOfSeq
<1>3. unsent \subseteq DOMAIN q
  BY DEF Unsent
<1>4. new \in SUBSET Frames
  <2> SUFFICES ASSUME NEW i \in unsent PROVE Data(q[i]) \in Frames
    OBVIOUS
  <2> QED
    BY <1>2, <1>3, FrameTypes
<1>5. v \in SeqId
  <2>1. CASE unsent = {}
    BY <1>1, <1>4, <2>1, TransmitType
  <2>2. CASE unsent # {}
    <3>1. Len(q) \in 1 .. Len(q)
      BY <1>2, <1>3, <2>2
    <3> QED
      BY <1>2, <2>2, <3>1, FrameTypes
  <2> QED
    BY <2>1, <2>2
<1>6. Window <= 2 => new = {} \/ (q # <<>> /\ new = {Data(Head(q))})
  <2>1. ASSUME Window <= 2, unsent # {} PROVE Len(q) = 1 /\ unsent = {1}
    <3>1. PICK i \in unsent : TRUE
      BY <2>1
    <3> DEFINE n == Len(q)
    <3>2. n \in Nat /\ i \in 1 .. n /\ n < Window
      BY <1>2, <3>1 DEF Unsent
    <3> HIDE DEF n
    <3>3. n = 1
      BY <2>1, <3>2, WindowAssumption
    <3>4. Len(q) = 1
      BY <3>3 DEF n
    <3> QED
      BY <1>2, <1>3, <2>1, <3>4
  <2>2. ASSUME Window <= 2, unsent # {} PROVE q # <<>> /\ new = {Data(Head(q))}
    BY <1>2, <2>1, <2>2
  <2>3. unsent = {} => new = {}
    OBVIOUS
  <2> QED
    BY <2>2, <2>3
<1>6a. /\ \A y \in new : \E i \in DOMAIN q : y = Data(q[i])
       /\ q # <<>> => \E i \in DOMAIN q : Data(Head(q)) = Data(q[i])
  <2>1. q # <<>> => 1 \in DOMAIN q /\ Head(q) = q[1]
    BY <1>1, <1>2, EmptySeq
  <2> QED
    BY <1>3, <2>1
<1> HIDE DEF v, new, unsent
<1>7. t1 \in Context /\ t1.f = c.f /\ t1.clk = c.clk /\ t1.psid = c.psid
      /\ t1.tx = c.tx \cup new
  <2>1. t1.tx = c.tx \cup new
    BY <1>1, Zenon DEF Transmit, Context
  <2> QED
    BY <1>1, <1>4, <2>1, TransmitType
<1> HIDE DEF t1
<1>8. g1 \in Fspe /\ Same(c.f, g1)
      /\ g1.finalizetimer = c.f.finalizetimer /\ g1.state = c.f.state
  <2>1. g1.finalizetimer = c.f.finalizetimer /\ g1.state = c.f.state
    BY <1>1, <1>7, Zenon DEF Fspe
  <2> QED
    BY <1>1, <1>5, <1>7, <2>1, SetFields, SameFields
<1> HIDE DEF g1
<1>9. c1 \in Context /\ c1.f = g1 /\ c1.psid = c.psid /\ c1.tx = c.tx \cup new
      /\ c1.clk = c.clk
  BY <1>7, <1>8, CtxFields
<1>10. c1 = [Transmit(c, new) EXCEPT !.f.lastseqsent = v]
  BY Zenon DEF t1, g1
<1> HIDE DEF c1
<1>11. SoundCtx(c1)
  <2>1. \A d : d = [Transmit(c, new) EXCEPT !.f.lastseqsent = v] =>
              SoundCtx(d) /\ Follows(c.f, d.f) /\ d.clk = c.clk /\ d.psid = c.psid
    BY <1>4, <1>5, FirstTransmission
  <2> QED
    BY <1>10, <2>1, Zenon
<1>12. ASSUME q # <<>>
       PROVE  c2 \in Context /\ c2.f = c1.f /\ c2.psid = c.psid
              /\ c2.tx = c.tx \cup new \cup {Data(Head(q))}
              /\ c2.clk = "early"
  <2>1. Head(q) \in FrameSet
    BY <1>1, <1>12
  <2>2. {Data(Head(q))} \in SUBSET Frames
    BY <2>1, FrameTypes
  <2>3. d2 \in Context /\ d2.f = c1.f /\ d2.psid = c1.psid
    BY <1>9, <2>2, TransmitType
  <2>4. d2.tx = c1.tx \cup {Data(Head(q))}
    BY <1>9, Zenon DEF Transmit, Context
  <2> HIDE DEF d2
  <2>5. "early" \in Clock
    BY DEF Clock
  <2>6. c2.tx = d2.tx /\ c2.clk = "early"
    BY <2>3, Zenon DEF Context
  <2> QED
    BY <1>9, <2>3, <2>4, <2>5, <2>6, SetClock
<1> HIDE DEF c2
<1>13. ASSUME q # <<>>
       PROVE  /\ c4.f \in Fspe /\ Keeps(c.f, c4.f) /\ c4.psid = c.psid /\ c4.tx = c2.tx
              /\ c.f.state = "UP" => Runs(c, c4) /\ Same(c.f, c4.f)
  <2>1. KeepsCtx(c2, c3)
    BY <1>12, <1>13, FsaQuietKeeps DEF Input
  <2>2. SoundCtx(c2)
    BY <1>8, <1>9, <1>11, <1>12, <1>13 DEF SoundCtx
  <2>3. c3 \in Context
    BY <2>2, FsaQuietSound DEF QuietInput, SoundCtx
  <2>8. c2.f.state = "UP" => Runs(c2, c3) /\ Same(c2.f, c3.f)
    BY <1>12, <1>13, FsaQuietRuns DEF Harmless, Input
  <2> HIDE DEF c3
  <2> DEFINE g4 == [c3.f EXCEPT !.acktimeout = TRUE]
  <2>4. g4 \in Fspe /\ Same(c3.f, g4)
        /\ g4.finalizetimer = c3.f.finalizetimer /\ g4.state = c3.f.state
    <3>1. c3.f \in Fspe
      BY <2>1 DEF KeepsCtx
    <3>2. g4.finalizetimer = c3.f.finalizetimer /\ g4.state = c3.f.state
      BY <3>1, Zenon DEF Fspe
    <3> QED
      BY <3>1, <3>2, SetFields, SameFields
  <2>5. c4 = [c3 EXCEPT !.f = g4]
    BY Zenon
  <2> HIDE DEF g4, c4
  <2>6. c4.f = g4 /\ c4.psid = c3.psid /\ c4.tx = c3.tx /\ c4.clk = c3.clk
    BY <2>3, <2>4, <2>5, CtxFields
  <2>7. Keeps(g1, g4)
    BY <1>8, <1>9, <1>12, <1>13, <2>1, <2>4, KeepsTransitive DEF Keeps, KeepsCtx
  <2>9. c.f.state = "UP" => Runs(c, c4) /\ Same(c.f, c4.f)
    BY <1>8, <1>9, <1>12, <1>13, <2>4, <2>6, <2>8 DEF Runs, Same, SameQueues
  <2> QED
    BY <1>1, <1>8, <1>12, <1>13, <2>1, <2>4, <2>6, <2>7, <2>9, KeepsTransitive DEF Keeps, KeepsCtx
<1>14. c5.f \in Fspe /\ Same(c.f, c5.f) /\ c5.psid = c.psid /\ c5.tx = c.tx \cup new
       /\ Runs(c, c5)
  <2> DEFINE g5 == [c1.f EXCEPT !.nextrexmit = FALSE]
  <2>1. g5 \in Fspe /\ Same(c1.f, g5)
        /\ g5.finalizetimer = c1.f.finalizetimer /\ g5.state = c1.f.state
    <3>1. g5.finalizetimer = c1.f.finalizetimer /\ g5.state = c1.f.state
      BY <1>8, <1>9, Zenon DEF Fspe
    <3> QED
      BY <1>8, <1>9, <3>1, SetFields, SameFields
  <2>2. c5 = [c1 EXCEPT !.f = g5]
    BY Zenon
  <2> HIDE DEF g5, c5
  <2> QED
    BY <1>8, <1>9, <2>1, <2>2, CtxFields DEF Same, SameQueues, Runs
<1>15. q # <<>> => c.f.nextrexmit /\ c.f.acktimeout
  BY <1>1 DEF Sound
<1>16. \/ Xmit(c) = c1
       \/ Xmit(c) = [c1 EXCEPT !.f.nextrexmit = TRUE, !.clk = "early"] /\ q # <<>> /\ ~c.f.nextrexmit
       \/ q # <<>> /\ Xmit(c) = c2
       \/ q # <<>> /\ Xmit(c) = c4 /\ (c.clk = "late" \/ ~c.f.acktimeout)
       \/ Xmit(c) = c5
  <2>1. Xmit(c) =
          CASE ~c.f.nextrexmit /\ q # <<>> ->
               [c1 EXCEPT !.f.nextrexmit = TRUE, !.clk = "early"]
          [] c.f.nextrexmit /\ c.clk # "early" /\ q = <<>> ->
               [c1 EXCEPT !.f.nextrexmit = FALSE]
          [] c.f.nextrexmit /\ c.clk # "early" /\ q # <<>> ->
               IF c.clk = "late" \/ ~c.f.acktimeout THEN c4 ELSE c2
          [] OTHER -> c1
    BY <1>10, Zenon DEF Xmit, c2, v, new, unsent
  <2> HIDE DEF c4, c5
  <2> QED
    BY <2>1 DEF c5
<1> HIDE DEF c3, c4, c5
<1>17. /\ Xmit(c).f \in Fspe /\ Keeps(c.f, Xmit(c).f) /\ Xmit(c).psid = c.psid
       /\ \/ Xmit(c).tx = c.tx \cup new
          \/ q # <<>> /\ Xmit(c).tx = c.tx \cup new \cup {Data(Head(q))}
  BY <1>8, <1>9, <1>12, <1>13, <1>14, <1>15, <1>16 DEF Keeps
<1>18. Open(c) => Runs(c, Xmit(c)) /\ Same(c.f, Xmit(c).f)
  <2>1. Runs(c, c1) /\ Same(c.f, c1.f)
    BY <1>8, <1>9 DEF Runs
  <2>2. q # <<>> => Runs(c, c2) /\ Same(c.f, c2.f)
    BY <1>8, <1>9, <1>12 DEF Runs
  <2> QED
    BY <1>13, <1>14, <1>15, <1>16, <2>1, <2>2 DEF Open
<1> QED
  BY <1>6, <1>6a, <1>17, <1>18 DEF SendsHead

\* _fsprotocol_send1: outside shutdown it queues one FrameSet, then transmits.
LEMMA Send1Steps ==
    ASSUME NEW c, SoundCtx(c), NEW msg \in Nat, ~InShutdown(c.f.state)
    PROVE  \E d : /\ SoundCtx(d) /\ Send1(c, msg) = Xmit(d)
                  /\ d.psid = c.psid /\ d.tx = c.tx
                  /\ d.f.outq = Enq(c.f.outq, msg, c.psid) /\ d.f.inq = c.f.inq
                  /\ d.f.ipend = c.f.ipend /\ d.f.lastacksent = c.f.lastacksent
                  /\ d.f.exists = c.f.exists /\ Runs(c, d)
<1> DEFINE c1 == FsaQuiet(c, "REQSEND")
           c2 == IF c1.f.outq.items # <<>> THEN c1 ELSE StartOutput(c1)
           q  == Enq(c2.f.outq, msg, c.psid)
           g  == [c2.f EXCEPT !.outq = q]
           d  == [c2 EXCEPT !.f = g]
<1>1. /\ SoundCtx(c1) /\ c1.psid = c.psid /\ ~InShutdown(c1.f.state)
      /\ c1.f.state # "NONE"
  BY FsaQuietSound DEF QuietInput
<1>2. Same(c.f, c1.f) /\ c1.tx = c.tx
  BY FsaQuietKeeps DEF KeepsCtx, Input, SoundCtx
<1>2a. Runs(c, c1)
  BY FsaQuietRuns DEF Harmless, Input, SoundCtx
<1>3. Send1(c, msg) = Xmit(d)
  <2>1. [c2 EXCEPT !.f.outq = Enq(@, msg, c.psid)] = d
    BY Zenon
  <2> QED
    BY <2>1 DEF Send1
<1> HIDE DEF c1
<1>4. c1.f \in Fspe /\ c1 \in Context /\ c1.f.shuttimer = "off"
  BY <1>1, CtxFields DEF SoundCtx, Sound
<1>5. ASSUME c1.f.outq.items = <<>>
      PROVE  LET s == StartOutput(c1)
             IN  /\ s \in Context /\ Same(c1.f, s.f) /\ s.tx = c1.tx
                 /\ s.f.finalizetimer = c1.f.finalizetimer /\ s.clk = "early"
  <2> DEFINE g1 == [c1.f EXCEPT !.unacked = TRUE]
             g2 == [g1 EXCEPT !.nextrexmit = TRUE]
             g3 == [g2 EXCEPT !.acktimeout = TRUE]
             e1 == [c1 EXCEPT !.f = g3]
             e2 == [e1 EXCEPT !.clk = "early"]
  <2>1. g3 \in Fspe /\ Same(c1.f, g3) /\ g3.finalizetimer = c1.f.finalizetimer
    BY <1>4, Zenon DEF Fspe, Same, SameQueues
  <2>2. StartOutput(c1) = e2
    BY <1>4, Zenon DEF StartOutput, Context
  <2> HIDE DEF g3
  <2>3. e1 \in Context /\ e1.f = g3 /\ e1.tx = c1.tx
    BY <1>4, <2>1, CtxFields
  <2> HIDE DEF e1
  <2>4. "early" \in Clock
    BY DEF Clock
  <2>5. e2 \in Context /\ e2.f = g3 /\ e2.tx = c1.tx /\ e2.clk = "early"
    BY <2>3, <2>4, Zenon DEF Context
  <2> QED
    BY <2>1, <2>2, <2>5
<1>6. /\ c2 \in Context /\ c2.psid = c.psid /\ c2.f.unacked = TRUE
      /\ c2.f.nextrexmit = TRUE /\ c2.f.acktimeout = TRUE
      /\ c2.f.state = c1.f.state /\ c2.f.shuttimer = "off"
      /\ Same(c1.f, c2.f) /\ c2.tx = c.tx
      /\ c2.f.finalizetimer = c1.f.finalizetimer /\ c2.clk \in {c1.clk, "early"}
  <2>1. CASE c1.f.outq.items # <<>>
    <3>1. c1.f.unacked = TRUE /\ c1.f.nextrexmit = TRUE /\ c1.f.acktimeout = TRUE
      BY <1>1, <1>4, <2>1, FspeFields DEF SoundCtx, Sound
    <3> QED
      BY <1>1, <1>2, <1>4, <2>1, <3>1 DEF Same, SameQueues
  <2>2. CASE c1.f.outq.items = <<>>
    BY <1>1, <1>2, <1>4, <1>5, <2>2, StartOutputCtx
  <2> QED
    BY <2>1, <2>2
<1> HIDE DEF c2
<1>7. q \in Queue /\ q.items # <<>>
  <2>1. c2.f.outq \in Queue /\ c.psid \in Nat
    BY <1>6, CtxFields, FspeFields DEF SoundCtx
  <2> QED
    BY <2>1, EnqType
<1>8. q = Enq(c.f.outq, msg, c.psid)
  BY <1>2, <1>6 DEF Same, SameQueues
<1> HIDE DEF q
<1>9. /\ g \in Fspe /\ g.outq = q /\ g.unacked = TRUE /\ g.nextrexmit = TRUE
      /\ g.acktimeout = TRUE /\ g.state = c1.f.state /\ g.shuttimer = "off"
      /\ g.inq = c2.f.inq /\ g.ipend = c2.f.ipend /\ g.lastacksent = c2.f.lastacksent
      /\ g.exists = c2.f.exists /\ g.finalizetimer = c2.f.finalizetimer
  <2>1. c2.f \in Fspe
    BY <1>6, CtxFields
  <2> QED
    BY <1>6, <1>7, <2>1, Zenon DEF Fspe
<1> HIDE DEF g
<1>10. d \in Context /\ d.f = g /\ d.psid = c2.psid /\ d.tx = c2.tx /\ d.clk = c2.clk
  BY <1>6, <1>9, CtxFields
<1> HIDE DEF d
<1>11. SoundCtx(d)
  BY <1>1, <1>7, <1>9, <1>10 DEF SoundCtx, Sound
<1>12. Runs(c, d)
  BY <1>6, <1>9, <1>10, <1>2a DEF Runs
<1> QED
  BY <1>2, <1>3, <1>6, <1>8, <1>9, <1>10, <1>11, <1>12 DEF Same, SameQueues

\* _fsprotocol_ackseqno sends one ACK and may remember it.
LEMMA AckSeqnoSteps ==
    ASSUME NEW c, SoundCtx(c), NEW seq \in SeqId
    PROVE  LET d == AckSeqno(c, seq)
           IN  /\ d.psid = c.psid /\ d.f.outq = c.f.outq /\ d.f.inq = c.f.inq
               /\ d.f.ipend = c.f.ipend /\ d.f.exists = c.f.exists
               /\ Runs(c, d)
               /\ d.f.lastacksent \in {c.f.lastacksent, seq}
               /\ d.tx = c.tx \/ d.tx = c.tx \cup {Ack(seq)}
<1>1. CASE c.f.inq.sessionid \notin {0, seq[1]}
  BY <1>1 DEF AckSeqno, Runs
<1>2. CASE c.f.inq.sessionid \in {0, seq[1]}
  <2> DEFINE t == Transmit(c, {Ack(seq)})
             v == IF t.f.lastacksent = NoSeq \/ SeqLess(t.f.lastacksent, seq)
                    THEN seq ELSE t.f.lastacksent
             g == [t.f EXCEPT !.lastacksent = v]
             d == [t EXCEPT !.f = g]
  <2>1. {Ack(seq)} \in SUBSET Frames /\ c \in Context
    BY FrameTypes DEF SoundCtx
  <2>2. t \in Context /\ t.f = c.f /\ t.psid = c.psid /\ t.clk = c.clk
    BY <2>1, TransmitType
  <2>3. t.tx = c.tx \cup {Ack(seq)}
    BY <2>1, Zenon DEF Transmit, Context
  <2>4. AckSeqno(c, seq) = d
    BY <1>2, Zenon DEF AckSeqno
  <2> HIDE DEF t
  <2>5. t.f \in Fspe /\ v \in SeqId /\ v \in {c.f.lastacksent, seq}
    BY <2>2, CtxFields, FspeFields
  <2> HIDE DEF v
  <2>6. /\ g \in Fspe /\ g.outq = t.f.outq /\ g.inq = t.f.inq /\ g.ipend = t.f.ipend
        /\ g.lastacksent = v /\ g.exists = t.f.exists
        /\ g.finalizetimer = t.f.finalizetimer /\ g.state = t.f.state
    BY <2>5, Zenon DEF Fspe
  <2> HIDE DEF g
  <2>7. d.f = g /\ d.psid = t.psid /\ d.tx = t.tx /\ d.clk = t.clk
    BY <2>2, <2>6, CtxFields
  <2> HIDE DEF d
  <2> QED
    BY <2>2, <2>3, <2>4, <2>5, <2>6, <2>7 DEF Runs
<1> QED
  BY <1>1, <1>2

\* REQSHUTDOWN and RCVSHUTDOWN ACK, send a CONNSHUT, and end the automaton.
LEMMA FsaShutSteps ==
    ASSUME NEW c, SoundCtx(c), NEW i \in {"REQSHUTDOWN", "RCVSHUTDOWN"}, NEW seq \in SeqId
    PROVE  \E c1, c2 : /\ SoundCtx(c1) /\ SoundCtx(c2)
                       /\ c1 = c \/ (i = "RCVSHUTDOWN" /\ c1 = AckSeqno(c, seq))
                       /\ c2 = c1 \/ c2 = Send1(c1, CONNSHUT)
                       /\ KeepsCtx(c2, FsaShut(c, i, seq))
<1> DEFINE s    == c.f.state
           acts == Actions(s, i)
           c1   == IF "ACKME" \in acts THEN AckSeqno(c, seq) ELSE c
           c2   == IF "SNDSHUT" \in acts THEN Send1(c1, CONNSHUT) ELSE c1
<1>1. s \in State /\ i \in Input /\ CONNSHUT \in Nat
  BY CtxFields, FspeFields DEF SoundCtx, Input, CONNSHUT
<1>2. i = "REQSHUTDOWN" => "ACKME" \notin acts
  BY <1>1 DEF State, Actions, InShutdown
<1>3. FsaShut(c, i, seq) = FsaFinish(c2, s, i)
  BY DEF FsaShut
<1> HIDE DEF acts
<1>4. SoundCtx(c1) /\ (c1 = c \/ (i = "RCVSHUTDOWN" /\ c1 = AckSeqno(c, seq)))
  BY <1>2, AckSeqnoSound
<1> HIDE DEF c1
<1>5. SoundCtx(c2) /\ (c2 = c1 \/ c2 = Send1(c1, CONNSHUT))
  BY <1>1, <1>4, Send1Sound
<1> HIDE DEF c2
<1>6. KeepsCtx(c2, FsaShut(c, i, seq))
  BY <1>1, <1>3, <1>5, FsaFinishKeeps DEF SoundCtx
<1> QED
  BY <1>4, <1>5, <1>6

\* _fsprotocol_receive of an ACK changes nothing, or shortens the output queue.
LEMMA ReceiveAckSteps ==
    ASSUME NEW c, SoundCtx(c), NEW seq \in SeqId
    PROVE  \/ ReceiveAck(c, seq) = c
           \/ AckValid(c.f.outq, seq) /\
                \E d : /\ SoundCtx(d) /\ d.psid = c.psid /\ d.tx = c.tx
                       /\ d.f.outq = AckThrough(c.f.outq, seq) /\ d.f.inq = c.f.inq
                       /\ d.f.ipend = c.f.ipend /\ d.f.lastacksent = c.f.lastacksent
                       /\ d.f.exists = c.f.exists /\ Runs(c, d)
                       /\ \/ ReceiveAck(c, seq) = d \/ ReceiveAck(c, seq) = Xmit(d)
                          \/ /\ ReceiveAck(c, seq) = FsaQuiet(d, "OUTALLDONE")
                             /\ KeepsCtx(d, ReceiveAck(c, seq))
<1> DEFINE left == AckThrough(c.f.outq, seq)
           done == OutputDone(c, left)
           g1 == [c.f EXCEPT !.outq = left]
           g2 == [g1 EXCEPT !.unacked = FALSE]
           g3 == [g2 EXCEPT !.nextrexmit = FALSE]
           g4 == [g3 EXCEPT !.acktimeout = FALSE]
           h2 == [g1 EXCEPT !.nextrexmit = TRUE]
           h3 == [h2 EXCEPT !.acktimeout = TRUE]
           m1 == [c EXCEPT !.f = h3]
           more == [m1 EXCEPT !.clk = "early"]
<1>1. c \in Context /\ c.f \in Fspe /\ c.f.outq \in Queue /\ Sound(c.f)
  BY CtxFields, FspeFields DEF SoundCtx
<1>2. left \in Queue /\ (c.f.outq.items = <<>> => left.items = <<>>)
  BY <1>1, AckThroughType
<1>3. [c EXCEPT !.f.outq = left, !.f.nextrexmit = TRUE, !.f.acktimeout = TRUE,
                !.clk = "early"] = more
  BY <1>1, Zenon DEF Context
<1>4. \/ ReceiveAck(c, seq) = c
      \/ /\ AckValid(c.f.outq, seq) /\ left.items = <<>>
         /\ ReceiveAck(c, seq) = done \/ ReceiveAck(c, seq) = FsaQuiet(done, "OUTALLDONE")
      \/ /\ AckValid(c.f.outq, seq) /\ left.items # <<>>
         /\ ReceiveAck(c, seq) = Xmit(more)
  BY <1>3 DEF ReceiveAck
<1> HIDE DEF left
<1>5. ASSUME left.items = <<>>
      PROVE  /\ SoundCtx(done) /\ done.psid = c.psid /\ done.tx = c.tx
             /\ done.f.outq = left /\ done.f.inq = c.f.inq
             /\ done.f.ipend = c.f.ipend /\ done.f.lastacksent = c.f.lastacksent
             /\ done.f.exists = c.f.exists /\ Runs(c, done)
  <2>1. /\ done \in Context /\ done.psid = c.psid /\ done.f.outq = left
        /\ done.f.unacked = FALSE /\ done.f.state = c.f.state
        /\ done.f.shuttimer = c.f.shuttimer
    BY <1>1, <1>2, OutputDoneCtx
  <2>2. /\ g4 \in Fspe /\ g4.inq = c.f.inq /\ g4.ipend = c.f.ipend
        /\ g4.lastacksent = c.f.lastacksent /\ g4.exists = c.f.exists
        /\ g4.finalizetimer = c.f.finalizetimer
    BY <1>1, <1>2, Zenon DEF Fspe
  <2>3. done = [c EXCEPT !.f = g4]
    BY <1>1, Zenon DEF OutputDone, Context
  <2> HIDE DEF g4, done
  <2>4. done.f = g4 /\ done.tx = c.tx /\ done.clk = c.clk
    BY <1>1, <2>2, <2>3, CtxFields
  <2> QED
    BY <1>1, <1>5, <2>1, <2>2, <2>4 DEF SoundCtx, Sound, Runs
<1>6. ASSUME left.items # <<>>
      PROVE  /\ SoundCtx(more) /\ more.psid = c.psid /\ more.tx = c.tx
             /\ more.f.outq = left /\ more.f.inq = c.f.inq
             /\ more.f.ipend = c.f.ipend /\ more.f.lastacksent = c.f.lastacksent
             /\ more.f.exists = c.f.exists /\ Runs(c, more)
  <2>1. /\ h3 \in Fspe /\ h3.inq = c.f.inq /\ h3.ipend = c.f.ipend
        /\ h3.lastacksent = c.f.lastacksent /\ h3.outq = left /\ h3.exists = c.f.exists
        /\ h3.unacked = c.f.unacked /\ h3.state = c.f.state /\ h3.shuttimer = c.f.shuttimer
        /\ h3.nextrexmit = TRUE /\ h3.acktimeout = TRUE
        /\ h3.finalizetimer = c.f.finalizetimer
    BY <1>1, <1>2, Zenon DEF Fspe
  <2> HIDE DEF h3
  <2>2. m1 \in Context /\ m1.f = h3 /\ m1.psid = c.psid /\ m1.tx = c.tx
    BY <1>1, <2>1, CtxFields
  <2> HIDE DEF m1
  <2>3. "early" \in Clock
    BY DEF Clock
  <2>4. more \in Context /\ more.f = h3 /\ more.psid = c.psid /\ more.tx = c.tx
        /\ more.clk = "early"
    BY <2>2, <2>3, Zenon DEF Context
  <2> HIDE DEF more
  <2> QED
    BY <1>1, <1>2, <1>6, <2>1, <2>4 DEF SoundCtx, Sound, Runs
<1> HIDE DEF done, more
<1>7. ASSUME SoundCtx(done) PROVE KeepsCtx(done, FsaQuiet(done, "OUTALLDONE"))
  BY <1>7, FsaQuietKeeps DEF SoundCtx, Input
<1> QED
  BY <1>4, <1>5, <1>6, <1>7 DEF left

\* _fsprotocol_receive of a FrameSet: it goes through inqsorted, an ACK sent
\* before may be repeated, and the connection may become ready.
LEMMA ReceiveDataSteps ==
    ASSUME NEW c, SoundCtx(c), NEW fs \in FrameSet
    PROVE  LET r     == InqSorted(c.f.inq, fs)
               ready == BecomesReady(r.q, fs)
           IN  \E d : /\ SoundCtx(d) /\ ReceiveData(c, fs) = Xmit(d)
                      /\ d.psid = c.psid /\ d.f.outq = c.f.outq
                      /\ d.f.inq = [r.q EXCEPT !.isready = r.q.isready \/ ready]
                      /\ d.f.ipend = (c.f.ipend \/ ready)
                      /\ d.f.lastacksent = c.f.lastacksent /\ d.f.exists = c.f.exists
                      /\ Runs(c, d)
                      /\ \/ d.tx = c.tx
                         \/ AlreadyAcked(c.f, fs) /\ d.tx = c.tx \cup {Ack(c.f.lastacksent)}
<1> DEFINE r     == InqSorted(c.f.inq, fs)
           g1    == [c.f EXCEPT !.inq = r.q]
           c1    == [c EXCEPT !.f = g1]
           h1    == [g1 EXCEPT !.acktimeout = TRUE]
           c1t   == [c1 EXCEPT !.f = h1]
           c2    == CASE r.ok /\ fs.req = 1 -> FsaQuiet(c1t, "GOTSTART")
                      [] r.ok /\ fs.req > 1 -> c1t
                      [] ~r.ok /\ AlreadyAcked(c.f, fs) -> AckSeqno(c1, c.f.lastacksent)
                      [] OTHER -> c1
           ready == BecomesReady(c2.f.inq, fs)
           g2    == [c2.f EXCEPT !.ipend = c2.f.ipend \/ ready]
           q3    == [c2.f.inq EXCEPT !.isready = c2.f.inq.isready \/ ready]
           g3    == [g2 EXCEPT !.inq = q3]
           d     == [c2 EXCEPT !.f = g3]
<1>1. c \in Context /\ c.f \in Fspe /\ r.q \in Queue /\ c.f.lastacksent \in SeqId
      /\ Sound(c.f)
  BY CtxFields, FspeFields, InqSortedType DEF SoundCtx
<1>2. [c EXCEPT !.f.inq = r.q] = c1
  BY Zenon
<1>3. [c1 EXCEPT !.f.acktimeout = TRUE] = c1t
  <2>1. c1.f = g1
    BY <1>1, CtxFields, Zenon DEF Context
  <2> QED
    BY <2>1, Zenon
<1>4. Follows(c.f, g1) /\ g1.inq = r.q /\ g1.ipend = c.f.ipend
      /\ g1.lastacksent = c.f.lastacksent /\ g1.exists = c.f.exists
      /\ g1.finalizetimer = c.f.finalizetimer
  BY <1>1, Touch, Zenon DEF Fspe
<1> HIDE DEF g1
<1>5. SoundCtx(c1) /\ c1.f = g1 /\ c1.psid = c.psid /\ c1.tx = c.tx /\ c1.clk = c.clk
  <2>1. SoundCtx(c1) /\ c1.f = g1 /\ c1.psid = c.psid /\ c1.clk = c.clk
    BY <1>4, TouchCtx
  <2>2. c1.tx = c.tx
    BY <1>1, Zenon DEF Context
  <2> QED
    BY <2>1, <2>2
<1>6. Follows(g1, h1) /\ Same(g1, h1) /\ h1.finalizetimer = g1.finalizetimer
  <2>1. g1 \in Fspe
    BY <1>4 DEF Follows
  <2>2. h1.finalizetimer = g1.finalizetimer
    BY <2>1, Zenon DEF Fspe
  <2> HIDE DEF h1
  <2>3. Follows(g1, [g1 EXCEPT !.acktimeout = TRUE]) /\ Same(g1, [g1 EXCEPT !.acktimeout = TRUE])
    BY <2>1, Touch, SameFields
  <2> QED
    BY <2>2, <2>3 DEF h1
<1> HIDE DEF h1
<1>7. SoundCtx(c1t) /\ c1t.f = h1 /\ c1t.psid = c.psid /\ c1t.tx = c.tx /\ c1t.clk = c.clk
  <2> HIDE DEF c1
  <2>1. SoundCtx(c1t) /\ c1t.f = h1 /\ c1t.psid = c.psid /\ c1t.clk = c.clk
    BY <1>5, <1>6, TouchCtx
  <2>2. c1t.tx = c.tx
    BY <1>5, Zenon DEF Context, SoundCtx
  <2> QED
    BY <2>1, <2>2
<1>8. ReceiveData(c, fs) = Xmit([c2 EXCEPT !.f.ipend = @ \/ ready, !.f.inq.isready = @ \/ ready])
  BY <1>2, <1>3 DEF ReceiveData
<1> HIDE DEF c1, c1t
<1>8a. Runs(c, c1) /\ Runs(c, c1t)
  BY <1>4, <1>5, <1>6, <1>7 DEF Runs, Follows
<1>9. LET b == FsaQuiet(c1t, "GOTSTART")
      IN  SoundCtx(b) /\ Same(h1, b.f) /\ b.psid = c.psid /\ b.tx = c.tx /\ Runs(c1t, b)
  <2>1. c1t \in Context /\ "GOTSTART" \in Input /\ c1t.f.state \in State
    BY <1>7, CtxFields, FspeFields DEF SoundCtx, Input
  <2>2. "CLOSE" \notin Actions(c1t.f.state, "GOTSTART")
    BY <2>1 DEF State, Actions, InShutdown
  <2>3. KeepsCtx(c1t, FsaQuiet(c1t, "GOTSTART")) /\ Same(c1t.f, FsaQuiet(c1t, "GOTSTART").f)
    BY <2>1, <2>2, FsaFinishKeeps DEF FsaQuiet
  <2> QED
    BY <1>7, <2>1, <2>3, FsaQuietSound, FsaQuietRuns DEF KeepsCtx, QuietInput, Harmless
<1>10. /\ SoundCtx(c2) /\ c2.psid = c.psid /\ c2.f.outq = c.f.outq /\ c2.f.inq = r.q
       /\ c2.f.ipend = c.f.ipend /\ c2.f.lastacksent = c.f.lastacksent
       /\ c2.f.exists = c.f.exists /\ Runs(c, c2)
       /\ \/ c2.tx = c.tx
          \/ AlreadyAcked(c.f, fs) /\ c2.tx = c.tx \cup {Ack(c.f.lastacksent)}
  <2>1. \/ c2 = FsaQuiet(c1t, "GOTSTART") \/ c2 = c1t \/ c2 = c1
        \/ AlreadyAcked(c.f, fs) /\ c2 = AckSeqno(c1, c.f.lastacksent)
    <3> HIDE DEF r
    <3> QED
      OBVIOUS
  <2> HIDE DEF c2
  <2>2. CASE c2 = FsaQuiet(c1t, "GOTSTART")
    <3>1. Runs(c, c2)
      BY <1>9, <1>8a, <2>2 DEF Runs
    <3> QED
      BY <1>4, <1>6, <1>9, <2>2, <3>1 DEF Same, SameQueues, Follows
  <2>3. CASE c2 = c1t
    BY <1>4, <1>6, <1>7, <1>8a, <2>3 DEF Same, SameQueues, Follows
  <2>4. CASE c2 = c1
    BY <1>4, <1>5, <1>8a, <2>4 DEF Follows
  <2>5. CASE AlreadyAcked(c.f, fs) /\ c2 = AckSeqno(c1, c.f.lastacksent)
    <3>1. Runs(c, c2)
      BY <1>1, <1>5, <1>8a, <2>5, AckSeqnoSteps DEF Runs
    <3> QED
      BY <1>1, <1>4, <1>5, <2>5, <3>1, AckSeqnoSteps, AckSeqnoSound DEF Follows
  <2> QED
    BY <2>1, <2>2, <2>3, <2>4, <2>5
<1> HIDE DEF c2
<1>11. ready = BecomesReady(r.q, fs) /\ ready \in BOOLEAN
  BY <1>10 DEF BecomesReady
<1> HIDE DEF ready
<1>12. c2 \in Context /\ c2.f \in Fspe /\ c2.f.ipend \in BOOLEAN /\ c2.f.inq \in Queue
       /\ c2.f.inq.isready \in BOOLEAN
  BY <1>10, CtxFields, FspeFields DEF SoundCtx
<1>13. [c2 EXCEPT !.f.ipend = @ \/ ready, !.f.inq.isready = @ \/ ready] = d
  BY <1>12, Zenon DEF Context, Fspe
<1>14. Follows(c2.f, g2) /\ g2 \in Fspe
  <2>1. (c2.f.ipend \/ ready) \in BOOLEAN
    BY <1>11, <1>12
  <2>2. Follows(c2.f, g2)
    BY <1>12, <2>1, Touch
  <2> HIDE DEF g2
  <2> QED
    BY <2>2 DEF Follows
<1>15. q3 \in Queue
  BY <1>11, <1>12 DEF Queue
<1> HIDE DEF q3
<1>16. Follows(g2, g3)
  <2> HIDE DEF g2
  <2> QED
    BY <1>14, <1>15, Touch
<1>17. /\ g3.inq = q3 /\ g3.ipend = (c2.f.ipend \/ ready)
       /\ g3.lastacksent = c2.f.lastacksent /\ g3.exists = c2.f.exists
       /\ g3.finalizetimer = c2.f.finalizetimer
  BY <1>12, <1>15, Zenon DEF Fspe
<1> HIDE DEF g2, g3
<1>18. Follows(c2.f, g3)
  BY <1>14, <1>16, Follows2
<1>19. SoundCtx(d) /\ d.f = g3 /\ d.psid = c2.psid /\ d.tx = c2.tx /\ d.clk = c2.clk
  <2>1. SoundCtx(d) /\ d.f = g3 /\ d.psid = c2.psid /\ d.clk = c2.clk
    BY <1>10, <1>18, TouchCtx
  <2>2. d.tx = c2.tx
    BY <1>12, Zenon DEF Context
  <2> QED
    BY <2>1, <2>2
<1> HIDE DEF d
<1>20. g3.outq = c.f.outq /\ g3.inq = [r.q EXCEPT !.isready = r.q.isready \/ ready]
  BY <1>10, <1>17, <1>18 DEF q3, Follows
<1>21. ReceiveData(c, fs) = Xmit(d)
  BY <1>8, <1>13
<1>22. Runs(c, d)
  BY <1>10, <1>17, <1>18, <1>19 DEF Runs, Follows
<1> QED
  BY <1>10, <1>11, <1>17, <1>19, <1>20, <1>21, <1>22

\* _fsprotocol_read: a head that can be read leaves the queue, and a CONNSHUT
\* among such heads shuts the connection down.
LEMMA ReadSteps ==
    ASSUME NEW c, SoundCtx(c)
    PROVE  \/ ~HeadReady(c.f.inq) /\ (Read(c) = c \/ Read(c) = Xmit(c))
           \/ LET fs == Head(c.f.inq.items)
              IN  /\ HeadReady(c.f.inq) /\ fs \in FrameSet
                  /\ \E d1, d2 : /\ SoundCtx(d1) /\ SoundCtx(d2)
                                 /\ d1.psid = c.psid /\ d1.tx = c.tx
                                 /\ d1.f.outq = c.f.outq /\ d1.f.inq.items = Tail(c.f.inq.items)
                                 /\ d1.f.ipend = d1.f.inq.isready
                                 /\ HeadReady(d1.f.inq) <=> d1.f.inq.isready
                                 /\ d1.f.inq.sessionid = c.f.inq.sessionid
                                 /\ d1.f.inq.nextseqno =
                                       IF fs.req = 0 THEN c.f.inq.nextseqno
                                       ELSE c.f.inq.nextseqno + 1
                                 /\ d1.f.lastacksent = c.f.lastacksent
                                 /\ d1.f.exists = c.f.exists /\ Runs(c, d1)
                                 /\ \/ d2 = d1
                                    \/ /\ fs.msg = CONNSHUT
                                       /\ d2 = FsaShut(d1, "RCVSHUTDOWN", Seqno(fs))
                                 /\ Read(c) = Xmit(d2)
<1> DEFINE fs == Head(c.f.inq.items)
           q1 == [c.f.inq EXCEPT !.items = Tail(@),
                                 !.nextseqno = IF fs.req = 0 THEN @ ELSE @ + 1]
           q2 == [q1 EXCEPT !.isready = StillReady(q1)]
           g1 == [c.f EXCEPT !.inq = q2]
           g2 == [g1 EXCEPT !.ipend = StillReady(q1)]
           c1 == [c EXCEPT !.f.inq = q2, !.f.ipend = StillReady(q1)]
           d1 == [c EXCEPT !.f = g2]
           d2 == IF fs.msg = CONNSHUT THEN FsaShut(d1, "RCVSHUTDOWN", Seqno(fs)) ELSE d1
<1>1. c \in Context /\ c.f \in Fspe /\ c.f.inq \in Queue /\ c.f.inq.items \in Seq(FrameSet)
  BY CtxFields, FspeFields DEF SoundCtx
<1>2. c1 = d1
  BY <1>1, Zenon DEF Context
<1>3. \/ ~HeadReady(c.f.inq) /\ (Read(c) = c \/ Read(c) = Xmit(c))
      \/ HeadReady(c.f.inq) /\ Read(c) = Xmit(d2)
  <2>1. \/ ~HeadReady(c.f.inq) /\ (Read(c) = c \/ Read(c) = Xmit(c))
        \/ /\ HeadReady(c.f.inq)
           /\ Read(c) = Xmit(IF fs.msg = CONNSHUT
                               THEN FsaShut(c1, "RCVSHUTDOWN", Seqno(fs)) ELSE c1)
    <3> HIDE DEF q1, q2
    <3> QED
      BY DEF Read, HeadReady, q1, q2
  <2> HIDE DEF c1, d1
  <2> QED
    BY <1>2, <2>1
<1>4. ASSUME HeadReady(c.f.inq)
      PROVE  /\ fs \in FrameSet /\ Seqno(fs) \in SeqId
             /\ SoundCtx(d1) /\ d1.psid = c.psid /\ d1.tx = c.tx
             /\ d1.f.outq = c.f.outq /\ d1.f.inq.items = Tail(c.f.inq.items)
             /\ d1.f.ipend = d1.f.inq.isready /\ d1.f.lastacksent = c.f.lastacksent
             /\ HeadReady(d1.f.inq) <=> d1.f.inq.isready
             /\ d1.f.inq.sessionid = c.f.inq.sessionid
             /\ d1.f.inq.nextseqno = IF fs.req = 0 THEN c.f.inq.nextseqno
                                     ELSE c.f.inq.nextseqno + 1
             /\ d1.f.exists = c.f.exists /\ Runs(c, d1)
  <2>1. fs \in FrameSet /\ Tail(c.f.inq.items) \in Seq(FrameSet)
    BY <1>1, <1>4 DEF HeadReady
  <2>2. Seqno(fs) \in SeqId
    BY <2>1, FrameTypes
  <2> HIDE DEF fs
  <2>3. /\ q1 \in Queue /\ q1.items = Tail(c.f.inq.items)
        /\ q1.sessionid = c.f.inq.sessionid
        /\ q1.nextseqno = IF fs.req = 0 THEN c.f.inq.nextseqno ELSE c.f.inq.nextseqno + 1
    <3> DEFINE n == IF fs.req = 0 THEN c.f.inq.nextseqno ELSE c.f.inq.nextseqno + 1
               t == Tail(c.f.inq.items)
    <3>1. n \in Nat \ {0} /\ t \in Seq(FrameSet)
      BY <1>1, <2>1 DEF Queue
    <3>2. q1 = [c.f.inq EXCEPT !.items = t, !.nextseqno = n]
      OBVIOUS
    <3> HIDE DEF n, t, q1
    <3>3. q1 \in Queue /\ q1.items = t /\ q1.nextseqno = n /\ q1.sessionid = c.f.inq.sessionid
      BY <1>1, <3>1, <3>2 DEF Queue
    <3> QED
      BY <3>3 DEF n, t
  <2> HIDE DEF q1
  <2>4. StillReady(q1) \in BOOLEAN
    BY DEF StillReady, HeadReady
  <2>5. q2 \in Queue /\ q2.items = q1.items /\ q2.isready = StillReady(q1)
        /\ q2.nextseqno = q1.nextseqno /\ q2.sessionid = q1.sessionid
    BY <2>3, <2>4, Zenon DEF Queue
  <2>11. HeadReady(q2) <=> q2.isready
    BY <2>5 DEF StillReady, HeadReady
  <2> HIDE DEF q2
  <2>6. Follows(c.f, g1) /\ g1 \in Fspe
    BY <1>1, <2>5, Touch DEF Follows
  <2>7. /\ g2.inq = q2 /\ g2.ipend = StillReady(q1) /\ g2.outq = c.f.outq
        /\ g2.lastacksent = c.f.lastacksent /\ g2.exists = c.f.exists
        /\ g2.finalizetimer = c.f.finalizetimer /\ g2.state = c.f.state
    BY <1>1, <2>4, <2>5, Zenon DEF Fspe
  <2> HIDE DEF g1
  <2>8. Follows(g1, g2)
    BY <2>4, <2>6, Touch
  <2> HIDE DEF g2
  <2>9. SoundCtx(d1) /\ d1.psid = c.psid /\ d1.f = g2 /\ d1.clk = c.clk
    BY <2>6, <2>8, Follows2, TouchCtx
  <2>10. d1.tx = c.tx
    BY <1>1, Zenon DEF Context
  <2> QED
    BY <2>1, <2>2, <2>3, <2>5, <2>7, <2>9, <2>10, <2>11 DEF fs, Runs
<1> HIDE DEF d1
<1>5. ASSUME HeadReady(c.f.inq) PROVE SoundCtx(d2)
  BY <1>4, <1>5, FsaShutSound
<1> QED
  BY <1>3, <1>4, <1>5

-----------------------------------------------------------------------------
(* Unsequenced FrameSets.                                                  *)

LEMMA NothingInEmpty == ToSet(<<>>) = {}
BY DEF ToSet

\* No unsequenced FrameSet waits, and a queue whose head can be read is marked
\* ready and on ipend.
InqSequenced(f) ==
    /\ f.inq.isready => f.ipend
    /\ HeadReady(f.inq) => f.inq.isready
    /\ \A x \in ToSet(f.inq.items) : x.req # 0

\* Between _fsprotocol_receive and _fsprotocol_read one may be at the head, and
\* the read that follows takes it.
InqAlmostSequenced(f) ==
    \/ InqSequenced(f)
    \/ /\ f.ipend /\ HeadReady(f.inq)
       /\ \A x \in ToSet(Tail(f.inq.items)) : x.req # 0

LEMMA KeepsSequenced ==
    ASSUME NEW f, NEW g, Keeps(f, g)
    PROVE  /\ InqSequenced(f) => InqSequenced(g)
           /\ InqAlmostSequenced(f) => InqAlmostSequenced(g)
<1>1. CASE Same(f, g)
  BY <1>1 DEF Same, SameQueues, InqSequenced, InqAlmostSequenced
<1>2. CASE Reset(f, g)
  <2>1. (f.inq.isready => f.ipend) => InqSequenced(g)
    BY <1>2, NothingInEmpty DEF Reset, InqSequenced, HeadReady
  <2>2. InqAlmostSequenced(f) => (f.inq.isready => f.ipend)
    BY DEF InqAlmostSequenced, InqSequenced
  <2> QED
    BY <2>1, <2>2 DEF InqAlmostSequenced, InqSequenced
<1> QED
  BY <1>1, <1>2 DEF Keeps

LEMMA XmitSequenced ==
    ASSUME NEW c, SoundCtx(c)
    PROVE  /\ InqSequenced(c.f) => InqSequenced(Xmit(c).f)
           /\ InqAlmostSequenced(c.f) => InqAlmostSequenced(Xmit(c).f)
BY XmitKeeps, KeepsSequenced

LEMMA Send1Sequenced ==
    ASSUME NEW c, SoundCtx(c), NEW msg \in Nat, InqSequenced(c.f)
    PROVE  InqSequenced(Send1(c, msg).f)
<1>1. CASE InShutdown(c.f.state)
  BY <1>1 DEF Send1
<1>2. CASE ~InShutdown(c.f.state)
  <2>1. PICK d : /\ SoundCtx(d) /\ Send1(c, msg) = Xmit(d)
                 /\ d.f.inq = c.f.inq /\ d.f.ipend = c.f.ipend
    BY <1>2, Send1Steps
  <2>2. InqSequenced(d.f)
    BY <2>1 DEF InqSequenced
  <2> QED
    BY <2>1, <2>2, XmitSequenced
<1> QED
  BY <1>1, <1>2

LEMMA AckSeqnoSequenced ==
    ASSUME NEW c, SoundCtx(c), NEW seq \in SeqId, InqSequenced(c.f)
    PROVE  InqSequenced(AckSeqno(c, seq).f)
BY AckSeqnoSteps DEF InqSequenced

LEMMA FsaShutSequenced ==
    ASSUME NEW c, SoundCtx(c), NEW i \in {"REQSHUTDOWN", "RCVSHUTDOWN"}, NEW seq \in SeqId,
           InqSequenced(c.f)
    PROVE  InqSequenced(FsaShut(c, i, seq).f)
<1>1. PICK c1, c2 : /\ SoundCtx(c1) /\ SoundCtx(c2)
                    /\ c1 = c \/ (i = "RCVSHUTDOWN" /\ c1 = AckSeqno(c, seq))
                    /\ c2 = c1 \/ c2 = Send1(c1, CONNSHUT)
                    /\ KeepsCtx(c2, FsaShut(c, i, seq))
  BY FsaShutSteps
<1>2. InqSequenced(c1.f)
  BY <1>1, AckSeqnoSequenced
<1>3. InqSequenced(c2.f)
  BY <1>1, <1>2, Send1Sequenced DEF CONNSHUT
<1> QED
  BY <1>1, <1>3, KeepsSequenced DEF KeepsCtx

LEMMA ReceiveAckSequenced ==
    ASSUME NEW c, SoundCtx(c), NEW seq \in SeqId, InqSequenced(c.f)
    PROVE  InqSequenced(ReceiveAck(c, seq).f)
<1>1. CASE ReceiveAck(c, seq) = c
  BY <1>1
<1>2. CASE ReceiveAck(c, seq) # c
  <2>1. PICK d : /\ SoundCtx(d) /\ d.f.inq = c.f.inq /\ d.f.ipend = c.f.ipend
                 /\ \/ ReceiveAck(c, seq) = d \/ ReceiveAck(c, seq) = Xmit(d)
                    \/ KeepsCtx(d, ReceiveAck(c, seq))
    BY <1>2, ReceiveAckSteps
  <2>2. InqSequenced(d.f)
    BY <2>1 DEF InqSequenced
  <2> QED
    BY <2>1, <2>2, XmitSequenced, KeepsSequenced DEF KeepsCtx
<1> QED
  BY <1>1, <1>2

\* If the head can be read after inqsorted, it could be read before, or the FrameSet
\* that arrived is the one that is read next.
LEMMA HeadWasReady ==
    ASSUME NEW q \in Queue, NEW fs \in FrameSet, HeadReady(InqSorted(q, fs).q)
    PROVE  HeadReady(q) \/ fs.req \in {0, InqSorted(q, fs).q.nextseqno}
<1> DEFINE q1 == AdoptSession(q, fs)
<1> SUFFICES ASSUME fs.req # 0, fs.req # InqSorted(q, fs).q.nextseqno
             PROVE  HeadReady(q)
  OBVIOUS
<1>1. /\ q1 \in Queue
      /\ \/ q1.items = q.items /\ q1.nextseqno = q.nextseqno
         \/ q1.items = <<>> \/ q1.nextseqno = fs.req
  <2>1. \/ q1.items = q.items /\ q1.nextseqno = q.nextseqno
        \/ q1.items = <<>> \/ q1.nextseqno = fs.req
    BY DEF AdoptSession, Flush, Queue
  <2> QED
    BY <2>1, AdoptSessionType
<1> HIDE DEF q1
<1>2. InqSorted(q, fs).q \in {q, q1, InsertSorted(q1, fs)}
  BY DEF InqSorted, q1
<1>3. /\ InsertSorted(q1, fs).nextseqno = q1.nextseqno
      /\ \/ InsertSorted(q1, fs).items = q1.items
         \/ Head(InsertSorted(q1, fs).items) = fs
         \/ q1.items # <<>> /\ Head(InsertSorted(q1, fs).items) = Head(q1.items)
  BY <1>1, InsertSortedHead
<1> QED
  BY <1>1, <1>2, <1>3 DEF HeadReady

\* An unsequenced FrameSet is queued at the head of a connection that is, or
\* becomes, ready.
LEMMA ReceiveDataSequenced ==
    ASSUME NEW c, SoundCtx(c), NEW fs \in FrameSet, InqSequenced(c.f)
    PROVE  InqAlmostSequenced(ReceiveData(c, fs).f)
<1> DEFINE r     == InqSorted(c.f.inq, fs)
           ready == BecomesReady(r.q, fs)
<1>1. c.f.inq \in Queue /\ c.f.inq.items \in Seq(FrameSet) /\ r.q \in Queue
  BY CtxFields, FspeFields, InqSortedType DEF SoundCtx
<1>2. /\ ToSet(r.q.items) \subseteq ToSet(c.f.inq.items) \cup {fs}
      /\ r.q.isready = c.f.inq.isready
      /\ fs.req = 0 => \/ r.q = c.f.inq
                       \/ r.q = [c.f.inq EXCEPT !.items = <<fs>> \o c.f.inq.items]
  BY <1>1, InqSortedRange
<1>3. PICK d : /\ SoundCtx(d) /\ ReceiveData(c, fs) = Xmit(d)
               /\ d.f.inq = [r.q EXCEPT !.isready = r.q.isready \/ ready]
               /\ d.f.ipend = (c.f.ipend \/ ready)
  BY ReceiveDataSteps
<1> HIDE DEF r
<1>4. /\ d.f.inq.items = r.q.items /\ d.f.inq.nextseqno = r.q.nextseqno
      /\ d.f.inq.isready = (r.q.isready \/ ready)
  BY <1>1, <1>3 DEF Queue
<1>5. d.f.inq.isready => d.f.ipend
  BY <1>2, <1>3, <1>4 DEF InqSequenced
<1>6. CASE fs.req # 0 \/ r.q = c.f.inq
  <2>1. HeadReady(r.q) => r.q.isready \/ ready
    <3>1. HeadReady(r.q) => HeadReady(c.f.inq) \/ fs.req \in {0, r.q.nextseqno}
      BY <1>1, HeadWasReady DEF r
    <3> QED
      BY <1>2, <3>1 DEF InqSequenced, BecomesReady
  <2>2. HeadReady(d.f.inq) => d.f.inq.isready
    BY <1>4, <2>1 DEF HeadReady
  <2>3. InqSequenced(d.f)
    BY <1>2, <1>4, <1>5, <1>6, <2>2 DEF InqSequenced
  <2> QED
    BY <1>3, <2>3, XmitSequenced DEF InqAlmostSequenced
<1>7. CASE fs.req = 0 /\ r.q = [c.f.inq EXCEPT !.items = <<fs>> \o c.f.inq.items]
  <2>1. r.q.items = <<fs>> \o c.f.inq.items
    BY <1>1, <1>7 DEF Queue
  <2>2. /\ <<fs>> \o c.f.inq.items # <<>>
        /\ Head(<<fs>> \o c.f.inq.items) = fs /\ Tail(<<fs>> \o c.f.inq.items) = c.f.inq.items
    BY <1>1
  <2>3. HeadReady(d.f.inq)
    BY <1>4, <1>7, <2>1, <2>2 DEF HeadReady
  <2>4. d.f.ipend
    <3>1. ~r.q.isready => ready
      BY <1>7 DEF BecomesReady
    <3> QED
      BY <1>2, <1>3, <3>1 DEF InqSequenced
  <2>5. InqAlmostSequenced(d.f)
    BY <1>4, <2>1, <2>2, <2>3, <2>4 DEF InqAlmostSequenced, InqSequenced
  <2> QED
    BY <1>3, <2>5, XmitSequenced
<1> QED
  BY <1>2, <1>6, <1>7

\* _fsprotocol_read leaves none behind.
LEMMA ReadSequenced ==
    ASSUME NEW c, SoundCtx(c), InqAlmostSequenced(c.f)
    PROVE  InqSequenced(Read(c).f)
<1>1. CASE ~HeadReady(c.f.inq)
  <2>1. InqSequenced(c.f) /\ (Read(c) = c \/ Read(c) = Xmit(c))
    BY <1>1, ReadSteps DEF InqAlmostSequenced
  <2> QED
    BY <2>1, XmitSequenced
<1>2. CASE HeadReady(c.f.inq)
  <2> DEFINE fs == Head(c.f.inq.items)
  <2>1. PICK d1, d2 : /\ SoundCtx(d1) /\ SoundCtx(d2)
                      /\ d1.f.inq.items = Tail(c.f.inq.items)
                      /\ d1.f.ipend = d1.f.inq.isready
                      /\ HeadReady(d1.f.inq) => d1.f.inq.isready
                      /\ d2 = d1 \/ d2 = FsaShut(d1, "RCVSHUTDOWN", Seqno(fs))
                      /\ Read(c) = Xmit(d2)
    BY <1>2, ReadSteps
  <2>2. fs \in FrameSet
    BY <1>2, ReadSteps
  <2>3. Seqno(fs) \in SeqId
    BY <2>2, FrameTypes
  <2>4. c.f.inq.items \in Seq(FrameSet) /\ c.f.inq.items # <<>>
    BY <1>2, CtxFields, FspeFields DEF SoundCtx, HeadReady
  <2>5. ToSet(Tail(c.f.inq.items)) \subseteq ToSet(c.f.inq.items)
    BY <2>4, TailRange
  <2>6. \A x \in ToSet(Tail(c.f.inq.items)) : x.req # 0
    BY <2>5 DEF InqAlmostSequenced, InqSequenced
  <2>7. InqSequenced(d1.f)
    BY <2>1, <2>6 DEF InqSequenced
  <2> HIDE DEF fs
  <2>8. InqSequenced(d2.f)
    BY <2>1, <2>3, <2>7, FsaShutSequenced
  <2> QED
    BY <2>1, <2>8, XmitSequenced
<1> QED
  BY <1>1, <1>2

LEMMA DestroySequenced ==
    ASSUME NEW f \in Fspe
    PROVE  InqSequenced(Destroy(f))
<1> DEFINE r == Reinit(f)
<1>1. r \in Fspe
  BY ReinitResets
<1>2. r.ipend \in BOOLEAN /\ r.finalizetimer \in Timer /\ r.shuttimer \in Timer
      /\ r.unacked \in BOOLEAN
  BY <1>1, FspeFields
<1>3. Destroy(f).inq = NewQueue
  <2> HIDE DEF r
  <2>1. NoFspe \in Fspe /\ NoFspe.inq = NewQueue
    BY NoFspeSound DEF NoFspe
  <2> QED
    BY <1>2, <2>1, Zenon DEF Destroy, r, Fspe
<1> QED
  BY <1>3, NothingInEmpty DEF InqSequenced, NewQueue, HeadReady

-----------------------------------------------------------------------------
(* The order of delivery: what a handler at one end preserves.             *)
(*                                                                         *)
(* R are the FrameSets that the application at the other end has been      *)
(* given, RP those of the application at this end, and KP the sequenced    *)
(* FrameSets of the other end that are on their way to this one.           *)

\* A FrameSet with this sequence frame is in R.
Has(R, sid, req) == \E x \in R : x.sid = sid /\ x.req = req

\* All that was sent before the head of the output queue has been delivered.
OutqDelivered(q, R) ==
    /\ Numbered(q)
    /\ Base(q) > 1 => Has(R, q.sessionid, Base(q) - 1)

\* A FrameSet that may wait at this end, or be on its way to it.
Expected(x, KP) == x \in KP \/ (x.req = 0 /\ x.msg # CONNSHUT)

InqExpected(f, KP, RP) ==
    /\ \A x \in ToSet(f.inq.items) : Expected(x, KP)
    /\ f.lastacksent = NoSeq \/ Has(RP, f.lastacksent[1], f.lastacksent[2])

\* What is sent: a FrameSet whose predecessor was delivered, the ACK of one that
\* was read.
InOrder(x, R) == x.req # 0 /\ (x.req >= 2 => Has(R, x.sid, x.req - 1))

SentInOrder(tx, R, RP) ==
    \A x \in tx : /\ x.kind = "data" => InOrder(x.fs, R)
                  /\ x.kind = "ack" => Has(RP, x.fs.sid, x.fs.req)

OrderCtx(c, R, KP, RP) ==
    OutqDelivered(c.f.outq, R) /\ InqExpected(c.f, KP, RP) /\ SentInOrder(c.tx, R, RP)

LEMMA EmptyOutq ==
    ASSUME NEW q, q.items = <<>>, q.nextseqno = 1, NEW R
    PROVE  OutqDelivered(q, R) /\ Base(q) = 1
<1>1. Len(q.items) = 0
  BY EmptySeq
<1>2. Base(q) = 1
  BY <1>1 DEF Base
<1> QED
  BY <1>1, <1>2 DEF OutqDelivered, Numbered

LEMMA KeepsOrder ==
    ASSUME NEW R, NEW KP, NEW RP, NEW c, NEW d, KeepsCtx(c, d), OrderCtx(c, R, KP, RP)
    PROVE  OrderCtx(d, R, KP, RP)
<1>1. CASE Same(c.f, d.f)
  BY <1>1 DEF Same, SameQueues, OrderCtx, InqExpected, KeepsCtx
<1>2. CASE Reset(c.f, d.f)
  <2>1. OutqDelivered(d.f.outq, R)
    BY <1>2, EmptyOutq DEF Reset
  <2>2. InqExpected(d.f, KP, RP)
    BY <1>2, NothingInEmpty DEF Reset, InqExpected
  <2> QED
    BY <2>1, <2>2 DEF OrderCtx, KeepsCtx
<1> QED
  BY <1>1, <1>2 DEF KeepsCtx, Keeps

\* The head of the output queue may be sent.
LEMMA HeadInOrder ==
    ASSUME NEW q \in Queue, NEW R, OutqDelivered(q, R), q.items # <<>>
    PROVE  /\ Head(q.items).sid = q.sessionid /\ Head(q.items).req = Base(q)
           /\ InOrder(Head(q.items), R) /\ Base(q) \in Nat
<1>1. q.items \in Seq(FrameSet) /\ q.nextseqno \in Nat
  BY DEF Queue
<1>2. Len(q.items) \in Nat /\ Len(q.items) # 0 /\ Head(q.items) = q.items[1]
  BY <1>1, EmptySeq, LenProperties
<1>3. Base(q) \in Nat /\ Base(q) >= 1
  BY <1>1, <1>2 DEF Base, OutqDelivered, Numbered
<1>4. 1 \in 1 .. Len(q.items)
  BY <1>2
<1>5. Head(q.items).sid = q.sessionid /\ Head(q.items).req = Base(q) + 1 - 1
  BY <1>2, <1>4 DEF OutqDelivered, Numbered
<1> QED
  BY <1>3, <1>5 DEF InOrder, OutqDelivered

LEMMA XmitOrder ==
    ASSUME Window <= 2, NEW R, NEW KP, NEW RP, NEW c, SoundCtx(c), OrderCtx(c, R, KP, RP)
    PROVE  OrderCtx(Xmit(c), R, KP, RP)
<1> DEFINE d == Xmit(c)
<1>1. d.f \in Fspe /\ Keeps(c.f, d.f) /\ d.psid = c.psid /\ SendsHead(c, d)
  BY XmitKeeps
<1>2. c.f.outq \in Queue
  BY CtxFields, FspeFields DEF SoundCtx
<1> HIDE DEF d
<1> DEFINE b == [f |-> d.f, psid |-> c.psid, tx |-> c.tx]
<1>3. OrderCtx(b, R, KP, RP)
  <2>1. KeepsCtx(c, b)
    BY <1>1 DEF KeepsCtx
  <2> HIDE DEF b
  <2> QED
    BY <2>1, KeepsOrder
<1>4. SentInOrder(d.tx, R, RP)
  <2>1. CASE d.tx = c.tx
    BY <2>1 DEF OrderCtx
  <2>2. CASE c.f.outq.items # <<>> /\ d.tx = c.tx \cup {Data(Head(c.f.outq.items))}
    <3>1. InOrder(Head(c.f.outq.items), R)
      BY <1>2, <2>2, HeadInOrder DEF OrderCtx
    <3>2. /\ Data(Head(c.f.outq.items)).kind = "data"
          /\ Data(Head(c.f.outq.items)).fs = Head(c.f.outq.items)
      BY DEF Data
    <3> QED
      BY <2>2, <3>1, <3>2 DEF OrderCtx, SentInOrder
  <2> QED
    BY <1>1, <2>1, <2>2 DEF SendsHead
<1> QED
  BY <1>3, <1>4 DEF OrderCtx, d

\* A FrameSet that is queued does not change what is before the head.
LEMMA EnqDelivered ==
    ASSUME NEW q \in Queue, NEW R, OutqDelivered(q, R), NEW msg \in Nat, NEW psid \in Nat \ {0}
    PROVE  OutqDelivered(Enq(q, msg, psid), R)
<1> DEFINE r == Enq(q, msg, psid)
<1>1. \/ r = q
      \/ Numbered(r) /\ Base(r) = Base(q) /\ r.sessionid = EnqSession(q, psid)
  BY EnqNumbered DEF OutqDelivered
<1> HIDE DEF r
<1>2. q.sessionid = 0 => Base(q) <= 1
  <2>1. q.items \in Seq(FrameSet)
    BY DEF Queue
  <2>2. Len(q.items) \in Nat
    BY <2>1, LenProperties
  <2> QED
    BY <2>2 DEF OutqDelivered, Numbered, Base
<1>3. Base(q) \in Int
  <2>1. q.items \in Seq(FrameSet) /\ q.nextseqno \in Nat
    BY DEF Queue
  <2> QED
    BY <2>1, LenProperties DEF Base
<1> QED
  BY <1>1, <1>2, <1>3 DEF OutqDelivered, EnqSession, r

LEMMA Send1Order ==
    ASSUME Window <= 2, NEW R, NEW KP, NEW RP, NEW c, SoundCtx(c), OrderCtx(c, R, KP, RP),
           c.psid # 0, NEW msg \in Nat
    PROVE  OrderCtx(Send1(c, msg), R, KP, RP)
<1>1. CASE InShutdown(c.f.state)
  BY <1>1 DEF Send1
<1>2. CASE ~InShutdown(c.f.state)
  <2>1. PICK d : /\ SoundCtx(d) /\ Send1(c, msg) = Xmit(d) /\ d.tx = c.tx
                 /\ d.f.outq = Enq(c.f.outq, msg, c.psid) /\ d.f.inq = c.f.inq
                 /\ d.f.lastacksent = c.f.lastacksent
    BY <1>2, Send1Steps
  <2>2. c.f.outq \in Queue /\ c.psid \in Nat \ {0}
    BY CtxFields, FspeFields DEF SoundCtx
  <2>3. OutqDelivered(d.f.outq, R)
    BY <2>1, <2>2, EnqDelivered DEF OrderCtx
  <2>4. OrderCtx(d, R, KP, RP)
    BY <2>1, <2>3 DEF OrderCtx, InqExpected
  <2> QED
    BY <2>1, <2>4, XmitOrder
<1> QED
  BY <1>1, <1>2

LEMMA AckSeqnoOrder ==
    ASSUME NEW R, NEW KP, NEW RP, NEW c, SoundCtx(c), OrderCtx(c, R, KP, RP),
           NEW seq \in SeqId, Has(RP, seq[1], seq[2])
    PROVE  OrderCtx(AckSeqno(c, seq), R, KP, RP)
<1> DEFINE d == AckSeqno(c, seq)
<1>1. /\ d.f.outq = c.f.outq /\ d.f.inq = c.f.inq
      /\ d.f.lastacksent \in {c.f.lastacksent, seq}
      /\ d.tx = c.tx \/ d.tx = c.tx \cup {Ack(seq)}
  BY AckSeqnoSteps
<1> HIDE DEF d
<1>2. Ack(seq).kind = "ack" /\ Ack(seq).fs.sid = seq[1] /\ Ack(seq).fs.req = seq[2]
  BY DEF Ack
<1>3. SentInOrder(d.tx, R, RP)
  BY <1>1, <1>2 DEF OrderCtx, SentInOrder
<1> QED
  BY <1>1, <1>3 DEF OrderCtx, InqExpected, d

LEMMA FsaShutOrder ==
    ASSUME Window <= 2, NEW R, NEW KP, NEW RP, NEW c, SoundCtx(c), OrderCtx(c, R, KP, RP),
           c.psid # 0, NEW i \in {"REQSHUTDOWN", "RCVSHUTDOWN"}, NEW seq \in SeqId,
           i = "RCVSHUTDOWN" => Has(RP, seq[1], seq[2])
    PROVE  OrderCtx(FsaShut(c, i, seq), R, KP, RP)
<1>1. PICK c1, c2 : /\ SoundCtx(c1) /\ SoundCtx(c2)
                    /\ c1 = c \/ (i = "RCVSHUTDOWN" /\ c1 = AckSeqno(c, seq))
                    /\ c2 = c1 \/ c2 = Send1(c1, CONNSHUT)
                    /\ KeepsCtx(c2, FsaShut(c, i, seq))
  BY FsaShutSteps
<1>2. OrderCtx(c1, R, KP, RP) /\ c1.psid # 0
  BY <1>1, AckSeqnoOrder, AckSeqnoSound
<1>3. OrderCtx(c2, R, KP, RP)
  BY <1>1, <1>2, Send1Order DEF CONNSHUT
<1> QED
  BY <1>1, <1>3, KeepsOrder

\* An ACK of a delivered FrameSet takes delivered FrameSets off the queue.
LEMMA ReceiveAckOrder ==
    ASSUME Window <= 2, NEW R, NEW KP, NEW RP, NEW c, SoundCtx(c), OrderCtx(c, R, KP, RP),
           NEW seq \in SeqId, Has(R, seq[1], seq[2])
    PROVE  OrderCtx(ReceiveAck(c, seq), R, KP, RP)
<1>1. CASE ReceiveAck(c, seq) = c
  BY <1>1
<1>2. CASE ReceiveAck(c, seq) # c
  <2>1. PICK d : /\ SoundCtx(d) /\ d.tx = c.tx /\ d.f.outq = AckThrough(c.f.outq, seq)
                 /\ d.f.inq = c.f.inq /\ d.f.lastacksent = c.f.lastacksent
                 /\ \/ ReceiveAck(c, seq) = d \/ ReceiveAck(c, seq) = Xmit(d)
                    \/ KeepsCtx(d, ReceiveAck(c, seq))
    BY <1>2, ReceiveAckSteps
  <2>2. c.f.outq \in Queue /\ seq[2] < c.f.outq.nextseqno /\ seq[1] = c.f.outq.sessionid
    BY <1>2, CtxFields, FspeFields, ReceiveAckSteps DEF SoundCtx, AckValid
  <2> DEFINE q == c.f.outq
             r == AckThrough(q, seq)
  <2>3. /\ Numbered(r) /\ r.sessionid = q.sessionid
        /\ Base(r) = IF seq[2] < Base(q) THEN Base(q) ELSE seq[2] + 1
    BY <2>2, AckThroughNumbered DEF OrderCtx, OutqDelivered
  <2> HIDE DEF r
  <2>4. Has(R, q.sessionid, seq[2]) /\ seq[2] \in Nat
    BY <2>2 DEF SeqId
  <2>5. OutqDelivered(r, R)
    <3>1. CASE seq[2] < Base(q)
      BY <2>3, <3>1 DEF OrderCtx, OutqDelivered
    <3>2. CASE ~(seq[2] < Base(q))
      <4>1. Base(r) - 1 = seq[2]
        BY <2>3, <2>4, <3>2
      <4> QED
        BY <2>3, <2>4, <4>1 DEF OutqDelivered
    <3> QED
      BY <3>1, <3>2
  <2>6. OrderCtx(d, R, KP, RP)
    BY <2>1, <2>5 DEF OrderCtx, InqExpected, r
  <2> QED
    BY <2>1, <2>6, XmitOrder, KeepsOrder
<1> QED
  BY <1>1, <1>2

LEMMA ReceiveDataOrder ==
    ASSUME Window <= 2, NEW R, NEW KP, NEW RP, NEW c, SoundCtx(c), OrderCtx(c, R, KP, RP),
           NEW fs \in FrameSet, Expected(fs, KP)
    PROVE  OrderCtx(ReceiveData(c, fs), R, KP, RP)
<1> DEFINE r     == InqSorted(c.f.inq, fs)
           ready == BecomesReady(r.q, fs)
<1>1. c.f.inq \in Queue /\ r.q \in Queue /\ c.f.lastacksent \in SeqId
  BY CtxFields, FspeFields, InqSortedType DEF SoundCtx
<1>2. ToSet(r.q.items) \subseteq ToSet(c.f.inq.items) \cup {fs}
  BY <1>1, InqSortedRange
<1>3. PICK d : /\ SoundCtx(d) /\ ReceiveData(c, fs) = Xmit(d)
               /\ d.f.outq = c.f.outq
               /\ d.f.inq = [r.q EXCEPT !.isready = r.q.isready \/ ready]
               /\ d.f.lastacksent = c.f.lastacksent
               /\ \/ d.tx = c.tx
                  \/ AlreadyAcked(c.f, fs) /\ d.tx = c.tx \cup {Ack(c.f.lastacksent)}
  BY ReceiveDataSteps
<1> HIDE DEF r
<1>4. d.f.inq.items = r.q.items
  BY <1>1, <1>3 DEF Queue
<1>5. InqExpected(d.f, KP, RP)
  BY <1>2, <1>3, <1>4 DEF OrderCtx, InqExpected
<1>6. SentInOrder(d.tx, R, RP)
  <2>1. CASE d.tx = c.tx
    BY <2>1 DEF OrderCtx
  <2>2. CASE AlreadyAcked(c.f, fs) /\ d.tx = c.tx \cup {Ack(c.f.lastacksent)}
    <3> DEFINE l == c.f.lastacksent
    <3>1. l # NoSeq
      BY <1>1, <2>2 DEF AlreadyAcked, NoSeq, FrameSet
    <3>2. Has(RP, l[1], l[2])
      BY <3>1 DEF OrderCtx, InqExpected
    <3>3. Ack(l).kind = "ack" /\ Ack(l).fs.sid = l[1] /\ Ack(l).fs.req = l[2]
      BY DEF Ack
    <3> HIDE DEF l
    <3> QED
      BY <2>2, <3>2, <3>3 DEF OrderCtx, SentInOrder, l
  <2> QED
    BY <1>3, <2>1, <2>2
<1>7. OrderCtx(d, R, KP, RP)
  BY <1>3, <1>5, <1>6 DEF OrderCtx
<1> QED
  BY <1>3, <1>7, XmitOrder

\* What is read, if it has a sequence frame, is in RP.
LEMMA ReadOrder ==
    ASSUME Window <= 2, NEW R, NEW KP, NEW RP, NEW c, SoundCtx(c), OrderCtx(c, R, KP, RP),
           c.psid # 0, \A x \in KP : x.req # 0,
           LET fs == Head(c.f.inq.items)
           IN  HeadReady(c.f.inq) /\ fs.req # 0 => Has(RP, fs.sid, fs.req)
    PROVE  OrderCtx(Read(c), R, KP, RP)
<1>1. CASE ~HeadReady(c.f.inq)
  <2>1. Read(c) = c \/ Read(c) = Xmit(c)
    BY <1>1, ReadSteps
  <2> QED
    BY <2>1, XmitOrder
<1>2. CASE HeadReady(c.f.inq)
  <2> DEFINE fs == Head(c.f.inq.items)
  <2>1. PICK d1, d2 : /\ SoundCtx(d1) /\ SoundCtx(d2)
                      /\ d1.psid = c.psid /\ d1.tx = c.tx
                      /\ d1.f.outq = c.f.outq /\ d1.f.inq.items = Tail(c.f.inq.items)
                      /\ d1.f.lastacksent = c.f.lastacksent
                      /\ \/ d2 = d1
                         \/ /\ fs.msg = CONNSHUT
                            /\ d2 = FsaShut(d1, "RCVSHUTDOWN", Seqno(fs))
                      /\ Read(c) = Xmit(d2)
    BY <1>2, ReadSteps
  <2>2. fs \in FrameSet
    BY <1>2, ReadSteps
  <2>3. Seqno(fs) \in SeqId
    BY <2>2, FrameTypes
  <2>4. c.f.inq.items \in Seq(FrameSet) /\ c.f.inq.items # <<>>
    BY <1>2, CtxFields, FspeFields DEF SoundCtx, HeadReady
  <2>5. ToSet(Tail(c.f.inq.items)) \subseteq ToSet(c.f.inq.items)
    BY <2>4, TailRange
  <2>6. OrderCtx(d1, R, KP, RP) /\ d1.psid # 0
    BY <2>1, <2>5 DEF OrderCtx, InqExpected
  <2>7. OrderCtx(d2, R, KP, RP)
    <3>1. CASE d2 = d1
      BY <2>6, <3>1
    <3>2. CASE d2 # d1
      <4>1. fs.msg = CONNSHUT /\ d2 = FsaShut(d1, "RCVSHUTDOWN", Seqno(fs))
        BY <2>1, <3>2
      <4>2. fs \in ToSet(c.f.inq.items)
        BY <2>4, LenProperties DEF ToSet
      <4>3. fs.req # 0
        BY <4>1, <4>2 DEF OrderCtx, InqExpected, Expected
      <4>4. Has(RP, Seqno(fs)[1], Seqno(fs)[2])
        BY <1>2, <4>3 DEF Seqno
      <4> HIDE DEF fs
      <4> QED
        BY <2>1, <2>3, <2>6, <4>1, <4>4, FsaShutOrder
    <3> QED
      BY <3>1, <3>2
  <2> QED
    BY <2>1, <2>7, XmitOrder
<1> QED
  BY <1>1, <1>2

-----------------------------------------------------------------------------
(* No sequence number twice: what a handler at one end preserves.          *)
(*                                                                         *)
(* K are the sequenced FrameSets of this end that are on their way to the  *)
(* other end or were delivered there, and top the highest session id that  *)
(* this end ever had.                                                      *)

\* The sequence frame of x has been used: in a session before that of the output
\* queue, or in this one, and then no other FrameSet with it is queued.
Past(x, q, psid) ==
    \/ x.sid < EnqSession(q, psid)
    \/ /\ q.sessionid # 0 /\ x.sid = q.sessionid /\ x.req < q.nextseqno
       /\ \A y \in ToSet(q.items) : y.req = x.req => y = x

\* A nanoprobe that has told the CMA of its shutdown sends nothing but CONNSHUT
\* any more.  Its element may have been destroyed: then CONNSHUTs are numbered
\* from 1 again, in the session of the process.
Mode == {"fresh", "closing", "any"}

Unused(q, psid, K, m) ==
    /\ m = "fresh" => \A x \in K : Past(x, q, psid)
    /\ m = "closing" => \A x \in ToSet(q.items) : x.msg = CONNSHUT

SentData(tx) == {y.fs : y \in {x \in tx : x.kind = "data"}}

Upto(x, top, q) == x.sid <= top \/ x.sid <= q.sessionid

FreshCtx(c, K, top, m) ==
    /\ c.psid <= top
    /\ Unused(c.f.outq, c.psid, K \cup SentData(c.tx), m)
    /\ \A x \in SentData(c.tx) : Upto(x, top, c.f.outq)

\* A queue that has been emptied in a later session.
LEMMA KeepsFresh ==
    ASSUME NEW K \in SUBSET FrameSet, NEW top \in Nat, NEW m, NEW c, NEW d, SoundCtx(c),
           KeepsCtx(c, d), FreshCtx(c, K, top, m)
    PROVE  FreshCtx(d, K, top, m)
<1>1. CASE Same(c.f, d.f)
  BY <1>1 DEF Same, SameQueues, FreshCtx, KeepsCtx
<1>2. CASE Reset(c.f, d.f)
  <2> DEFINE q == c.f.outq
             r == d.f.outq
             S == K \cup SentData(c.tx)
  <2>1. /\ q \in Queue /\ r \in Queue /\ q.sessionid \in Nat /\ r.sessionid \in Nat
        /\ c.psid \in Nat /\ d.psid = c.psid /\ d.tx = c.tx /\ S \subseteq FrameSet
    <3>1. SentData(c.tx) \subseteq FrameSet
      BY CtxFields DEF SoundCtx, SentData, Frames
    <3> QED
      BY <3>1, CtxFields, FspeFields DEF SoundCtx, KeepsCtx, Queue
  <2>2. /\ r.items = <<>>
        /\ q.sessionid = 0 => r.sessionid = 0
        /\ q.sessionid # 0 => r.sessionid > q.sessionid
    BY <1>2 DEF Reset
  <2> HIDE DEF q, r
  <2>3. ASSUME NEW x \in FrameSet, Past(x, q, c.psid)
        PROVE  Past(x, r, c.psid)
    <3>1. x.sid \in Nat
      BY DEF FrameSet
    <3> QED
      BY <2>1, <2>2, <2>3, <3>1 DEF Past, EnqSession
  <2>4. ASSUME NEW x \in FrameSet, Upto(x, top, q)
        PROVE  Upto(x, top, r)
    <3>1. x.sid \in Nat
      BY DEF FrameSet
    <3> QED
      BY <2>1, <2>2, <2>4, <3>1 DEF Upto
  <2>5. Unused(r, c.psid, S, m)
    BY <2>1, <2>2, <2>3, NothingInEmpty DEF FreshCtx, Unused, q
  <2>6. \A x \in SentData(c.tx) : Upto(x, top, r)
    BY <2>1, <2>4 DEF FreshCtx, q
  <2> QED
    BY <2>1, <2>5, <2>6 DEF FreshCtx, r
<1> QED
  BY <1>1, <1>2 DEF KeepsCtx, Keeps

\* The head of the output queue uses its own sequence frame.
LEMMA HeadIsPast ==
    ASSUME NEW q \in Queue, NEW R, OutqDelivered(q, R), q.items # <<>>, NEW psid
    PROVE  /\ Past(Head(q.items), q, psid) /\ Head(q.items) \in ToSet(q.items)
           /\ Head(q.items).sid = q.sessionid
<1> DEFINE n == Len(q.items)
           b == Base(q)
<1>1. q.items \in Seq(FrameSet) /\ q.nextseqno \in Nat
  BY DEF Queue
<1>2. n \in Nat /\ n # 0 /\ Head(q.items) = q.items[1] /\ DOMAIN q.items = 1 .. n
  BY <1>1, EmptySeq, LenProperties
<1>3. b = q.nextseqno - n
  BY DEF Base
<1>4. /\ \A i \in 1 .. n : q.items[i].sid = q.sessionid /\ q.items[i].req = b + i - 1
      /\ q.sessionid = 0 => q.nextseqno = 1
      /\ b >= 1
  BY DEF OutqDelivered, Numbered
<1> HIDE DEF n, b
<1>5. b \in Nat /\ b < q.nextseqno /\ q.sessionid # 0
  BY <1>1, <1>2, <1>3, <1>4
<1>6. 1 \in 1 .. n
  BY <1>2
<1>7. q.items[1].sid = q.sessionid /\ q.items[1].req = b
  BY <1>4, <1>5, <1>6
<1>8. ASSUME NEW y \in ToSet(q.items), y.req = q.items[1].req
      PROVE  y = q.items[1]
  <2>1. PICK i \in 1 .. n : y = q.items[i]
    BY <1>2, <1>8 DEF ToSet
  <2>2. b + i - 1 = b
    BY <1>4, <1>7, <1>8, <2>1
  <2>3. i = 1
    BY <1>5, <2>2
  <2> QED
    BY <2>1, <2>3
<1>9. q.items[1] \in ToSet(q.items)
  BY <1>2, <1>6 DEF ToSet
<1> QED
  BY <1>2, <1>5, <1>7, <1>8, <1>9 DEF Past

LEMMA XmitFresh ==
    ASSUME Window <= 2, NEW K \in SUBSET FrameSet, NEW top \in Nat, NEW m,
           NEW R, NEW c, SoundCtx(c), OutqDelivered(c.f.outq, R), FreshCtx(c, K, top, m)
    PROVE  FreshCtx(Xmit(c), K, top, m)
<1> DEFINE d == Xmit(c)
           h == Head(c.f.outq.items)
           b == [c EXCEPT !.tx = d.tx]
<1>1. /\ d.f \in Fspe /\ Keeps(c.f, d.f) /\ d.psid = c.psid /\ SendsHead(c, d)
      /\ SoundCtx(d)
  BY XmitKeeps, XmitSound
<1>2. c.f.outq \in Queue /\ c \in Context /\ d.tx \in SUBSET Frames
  BY <1>1, CtxFields, FspeFields DEF SoundCtx
<1> HIDE DEF d
<1>3. b \in Context /\ b.f = c.f /\ b.psid = c.psid /\ b.tx = d.tx
  BY <1>2, Zenon DEF Context, Frames
<1> HIDE DEF b
<1>4. FreshCtx(b, K, top, m)
  <2>1. CASE d.tx = c.tx
    BY <1>3, <2>1 DEF FreshCtx
  <2>2. CASE c.f.outq.items # <<>> /\ d.tx = c.tx \cup {Data(h)}
    <3>1. /\ Past(h, c.f.outq, c.psid) /\ h.sid = c.f.outq.sessionid
          /\ h.sid \in Nat
      <4>1. c.f.outq.sessionid \in Nat
        BY <1>2 DEF Queue
      <4> QED
        BY <1>2, <2>2, <4>1, HeadIsPast
    <3>2. Data(h).kind = "data" /\ Data(h).fs = h
      BY DEF Data
    <3> HIDE DEF h
    <3>3. SentData(d.tx) = SentData(c.tx) \cup {h}
      BY <2>2, <3>2 DEF SentData
    <3>4. Upto(h, top, c.f.outq)
      BY <3>1 DEF Upto
    <3> QED
      BY <1>3, <3>1, <3>3, <3>4 DEF FreshCtx, Unused
  <2> QED
    BY <1>1, <2>1, <2>2 DEF SendsHead
<1>5. KeepsCtx(b, d) /\ SoundCtx(b)
  BY <1>1, <1>3 DEF KeepsCtx, SoundCtx
<1> QED
  BY <1>4, <1>5, KeepsFresh DEF d

\* _fsqueue_enq takes the next sequence frame.
LEMMA EnqFresh ==
    ASSUME NEW q \in Queue, NEW R, OutqDelivered(q, R), NEW msg \in Nat,
           NEW psid \in Nat \ {0}, NEW K \in SUBSET FrameSet, NEW m, Unused(q, psid, K, m),
           m = "closing" => msg = CONNSHUT
    PROVE  /\ Unused(Enq(q, msg, psid), psid, K, m)
           /\ Enq(q, msg, psid).sessionid \in {q.sessionid, EnqSession(q, psid)}
<1> DEFINE r  == Enq(q, msg, psid)
           fs == [sid |-> EnqSession(q, psid), req |-> q.nextseqno, msg |-> msg]
<1>1. \/ r = q
      \/ /\ r.items = Append(q.items, fs) /\ r.nextseqno = q.nextseqno + 1
         /\ r.sessionid = EnqSession(q, psid) /\ r.sessionid # 0 /\ fs \in FrameSet
  BY EnqNumbered DEF OutqDelivered
<1>2. CASE r = q
  BY <1>2
<1>3. CASE /\ r.items = Append(q.items, fs) /\ r.nextseqno = q.nextseqno + 1
           /\ r.sessionid = EnqSession(q, psid) /\ r.sessionid # 0 /\ fs \in FrameSet
  <2>1. fs.req = q.nextseqno /\ fs.msg = msg
    OBVIOUS
  <2>2. ToSet(r.items) = ToSet(q.items) \cup {fs}
    <3>1. q.items \in Seq(FrameSet) /\ <<fs>> \in Seq(FrameSet) /\ ToSet(<<fs>>) = {fs}
      <4> HIDE DEF fs
      <4> QED
        BY <1>3 DEF Queue, ToSet
    <3>2. r.items = q.items \o <<fs>>
      <4> HIDE DEF fs, r
      <4>1. Append(q.items, fs) = q.items \o <<fs>>
        BY <1>3, <3>1, AppendIsConcat
      <4> QED
        BY <1>3, <4>1
    <3> HIDE DEF fs, r
    <3> QED
      BY <3>1, <3>2, ConcatRange
  <2> HIDE DEF r, fs
  <2>3. q.nextseqno \in Nat /\ q.sessionid \in Nat
    BY DEF Queue
  <2>4. ASSUME NEW x \in FrameSet, Past(x, q, psid)
        PROVE  Past(x, r, psid)
    <3>1. x.sid \in Nat /\ x.req \in Nat
      BY DEF FrameSet
    <3>2. CASE x.sid < EnqSession(q, psid)
      BY <1>3, <3>2 DEF Past, EnqSession
    <3>3. CASE /\ q.sessionid # 0 /\ x.sid = q.sessionid /\ x.req < q.nextseqno
               /\ \A y \in ToSet(q.items) : y.req = x.req => y = x
      BY <1>3, <2>1, <2>2, <2>3, <3>1, <3>3 DEF Past, EnqSession
    <3> QED
      BY <2>4, <3>2, <3>3 DEF Past
  <2>5. Unused(r, psid, K, m)
    BY <2>1, <2>2, <2>4 DEF Unused
  <2> QED
    BY <1>3, <2>5 DEF r
<1> QED
  BY <1>1, <1>2, <1>3

LEMMA Send1Fresh ==
    ASSUME Window <= 2, NEW K \in SUBSET FrameSet, NEW top \in Nat, NEW m,
           NEW R, NEW c, SoundCtx(c), OutqDelivered(c.f.outq, R), FreshCtx(c, K, top, m), c.psid # 0, NEW msg \in Nat, m = "closing" => msg = CONNSHUT
    PROVE  FreshCtx(Send1(c, msg), K, top, m)
<1>1. CASE InShutdown(c.f.state)
  BY <1>1 DEF Send1
<1>2. CASE ~InShutdown(c.f.state)
  <2>1. PICK d : /\ SoundCtx(d) /\ Send1(c, msg) = Xmit(d) /\ d.tx = c.tx
                 /\ d.psid = c.psid
                 /\ d.f.outq = Enq(c.f.outq, msg, c.psid) /\ d.f.inq = c.f.inq
                 /\ d.f.lastacksent = c.f.lastacksent
    BY <1>2, Send1Steps
  <2> DEFINE q == c.f.outq
             S == K \cup SentData(c.tx)
  <2>2. /\ q \in Queue /\ q.sessionid \in Nat /\ c.psid \in Nat \ {0}
        /\ S \subseteq FrameSet
    <3>1. SentData(c.tx) \subseteq FrameSet
      BY CtxFields DEF SoundCtx, SentData, Frames
    <3> QED
      BY <3>1, CtxFields, FspeFields DEF SoundCtx, Queue
  <2>3. OutqDelivered(q, R) /\ OutqDelivered(d.f.outq, R)
    BY <2>1, <2>2, EnqDelivered
  <2>5. Unused(q, c.psid, S, m)
    BY DEF FreshCtx
  <2> HIDE DEF S, q
  <2>6. /\ Unused(d.f.outq, c.psid, S, m)
        /\ d.f.outq.sessionid \in {q.sessionid, EnqSession(q, c.psid)}
    BY <2>1, <2>2, <2>3, <2>5, EnqFresh DEF q
  <2>7. \A x \in SentData(c.tx) : Upto(x, top, d.f.outq)
    <3> SUFFICES ASSUME NEW x \in SentData(c.tx) PROVE Upto(x, top, d.f.outq)
      OBVIOUS
    <3>1. Upto(x, top, q) /\ x.sid \in Nat /\ c.psid <= top
      BY <2>2 DEF FreshCtx, q, S, FrameSet
    <3> QED
      BY <2>2, <2>6, <3>1 DEF Upto, EnqSession
  <2>8. FreshCtx(d, K, top, m)
    BY <2>1, <2>6, <2>7 DEF FreshCtx, S
  <2> QED
    BY <2>1, <2>3, <2>8, XmitFresh
<1> QED
  BY <1>1, <1>2

LEMMA AckSeqnoFresh ==
    ASSUME NEW K, NEW top, NEW m, NEW c, SoundCtx(c), FreshCtx(c, K, top, m), NEW seq \in SeqId
    PROVE  FreshCtx(AckSeqno(c, seq), K, top, m)
<1> DEFINE d == AckSeqno(c, seq)
<1>1. /\ d.f.outq = c.f.outq /\ d.psid = c.psid
      /\ d.tx = c.tx \/ d.tx = c.tx \cup {Ack(seq)}
  BY AckSeqnoSteps
<1> HIDE DEF d
<1>2. Ack(seq).kind # "data"
  BY DEF Ack
<1>3. SentData(d.tx) = SentData(c.tx)
  BY <1>1, <1>2 DEF SentData
<1> QED
  BY <1>1, <1>3 DEF FreshCtx, d

LEMMA FsaShutFresh ==
    ASSUME Window <= 2, NEW K \in SUBSET FrameSet, NEW top \in Nat, NEW m,
           NEW R, NEW c, SoundCtx(c), OutqDelivered(c.f.outq, R), FreshCtx(c, K, top, m), c.psid # 0,
           NEW i \in {"REQSHUTDOWN", "RCVSHUTDOWN"}, NEW seq \in SeqId
    PROVE  FreshCtx(FsaShut(c, i, seq), K, top, m)
<1>1. PICK c1, c2 : /\ SoundCtx(c1) /\ SoundCtx(c2)
                    /\ c1 = c \/ (i = "RCVSHUTDOWN" /\ c1 = AckSeqno(c, seq))
                    /\ c2 = c1 \/ c2 = Send1(c1, CONNSHUT)
                    /\ KeepsCtx(c2, FsaShut(c, i, seq))
  BY FsaShutSteps
<1>2. c1.f.outq = c.f.outq /\ FreshCtx(c1, K, top, m) /\ c1.psid # 0
  BY <1>1, AckSeqnoSteps, AckSeqnoFresh
<1>3. FreshCtx(c2, K, top, m)
  BY <1>1, <1>2, Send1Fresh DEF CONNSHUT
<1> QED
  BY <1>1, <1>3, KeepsFresh

LEMMA ReceiveAckFresh ==
    ASSUME Window <= 2, NEW K \in SUBSET FrameSet, NEW top \in Nat, NEW m,
           NEW R, NEW c, SoundCtx(c), OutqDelivered(c.f.outq, R), FreshCtx(c, K, top, m), NEW seq \in SeqId, Has(R, seq[1], seq[2])
    PROVE  FreshCtx(ReceiveAck(c, seq), K, top, m)
<1>1. CASE ReceiveAck(c, seq) = c
  BY <1>1
<1>2. CASE ReceiveAck(c, seq) # c
  <2>1. PICK d : /\ SoundCtx(d) /\ d.psid = c.psid /\ d.tx = c.tx
                 /\ d.f.outq = AckThrough(c.f.outq, seq)
                 /\ d.f.inq = c.f.inq /\ d.f.lastacksent = c.f.lastacksent
                 /\ \/ ReceiveAck(c, seq) = d \/ ReceiveAck(c, seq) = Xmit(d)
                    \/ KeepsCtx(d, ReceiveAck(c, seq))
    BY <1>2, ReceiveAckSteps
  <2>2. c.f.outq \in Queue /\ seq[2] < c.f.outq.nextseqno /\ seq[1] = c.f.outq.sessionid
    BY <1>2, CtxFields, FspeFields, ReceiveAckSteps DEF SoundCtx, AckValid
  <2> DEFINE q == c.f.outq
             r == AckThrough(q, seq)
  <2>3. /\ Numbered(r) /\ r.sessionid = q.sessionid /\ r.nextseqno = q.nextseqno
        /\ Base(r) = IF seq[2] < Base(q) THEN Base(q) ELSE seq[2] + 1
        /\ ToSet(r.items) \subseteq ToSet(q.items)
    BY <2>2, AckThroughNumbered DEF OutqDelivered
  <2> HIDE DEF r
  <2>4. OutqDelivered(r, R)
    <3>1. seq[2] \in Nat
      BY DEF SeqId
    <3>2. CASE seq[2] < Base(q)
      BY <2>3, <3>2 DEF OutqDelivered
    <3>3. CASE ~(seq[2] < Base(q))
      <4>1. Base(r) - 1 = seq[2]
        BY <2>3, <3>1, <3>3
      <4> QED
        BY <2>2, <2>3, <4>1 DEF OutqDelivered
    <3> QED
      BY <3>2, <3>3
  <2>5. OutqDelivered(d.f.outq, R)
    BY <2>1, <2>4 DEF r
  <2>6. FreshCtx(d, K, top, m)
    BY <2>1, <2>3 DEF FreshCtx, Unused, Past, Upto, EnqSession, r
  <2> QED
    BY <2>1, <2>5, <2>6, XmitFresh, KeepsFresh
<1> QED
  BY <1>1, <1>2

LEMMA ReceiveDataFresh ==
    ASSUME Window <= 2, NEW K \in SUBSET FrameSet, NEW top \in Nat, NEW m,
           NEW R, NEW c, SoundCtx(c), OutqDelivered(c.f.outq, R), FreshCtx(c, K, top, m),
           NEW fs \in FrameSet
    PROVE  FreshCtx(ReceiveData(c, fs), K, top, m)
<1> DEFINE r     == InqSorted(c.f.inq, fs)
           ready == BecomesReady(r.q, fs)
<1>1. PICK d : /\ SoundCtx(d) /\ ReceiveData(c, fs) = Xmit(d)
               /\ d.psid = c.psid /\ d.f.outq = c.f.outq
               /\ d.f.inq = [r.q EXCEPT !.isready = r.q.isready \/ ready]
               /\ d.f.ipend = (c.f.ipend \/ ready)
               /\ d.f.lastacksent = c.f.lastacksent /\ d.f.exists = c.f.exists
               /\ \/ d.tx = c.tx
                  \/ AlreadyAcked(c.f, fs) /\ d.tx = c.tx \cup {Ack(c.f.lastacksent)}
  <2> HIDE DEF r, ready
  <2> QED
    BY ReceiveDataSteps, ZenonT(60) DEF r, ready
<1> HIDE DEF r, ready
<1>2. Ack(c.f.lastacksent).kind # "data"
  BY DEF Ack
<1>3. SentData(d.tx) = SentData(c.tx)
  BY <1>1, <1>2 DEF SentData
<1>4. FreshCtx(d, K, top, m)
  BY <1>1, <1>3 DEF FreshCtx
<1> QED
  BY <1>1, <1>4, XmitFresh

LEMMA FsaShutOutq ==
    ASSUME NEW R, NEW c, SoundCtx(c), OutqDelivered(c.f.outq, R), c.psid # 0,
           NEW i \in {"REQSHUTDOWN", "RCVSHUTDOWN"}, NEW seq \in SeqId
    PROVE  OutqDelivered(FsaShut(c, i, seq).f.outq, R)
<1>1. PICK c1, c2 : /\ SoundCtx(c1) /\ SoundCtx(c2)
                    /\ c1 = c \/ (i = "RCVSHUTDOWN" /\ c1 = AckSeqno(c, seq))
                    /\ c2 = c1 \/ c2 = Send1(c1, CONNSHUT)
                    /\ KeepsCtx(c2, FsaShut(c, i, seq))
  BY FsaShutSteps
<1>2. c1.f.outq = c.f.outq /\ c1.psid = c.psid
  BY <1>1, AckSeqnoSteps
<1>3. \A f, g : Keeps(f, g) /\ OutqDelivered(f.outq, R) => OutqDelivered(g.outq, R)
  BY EmptyOutq DEF Keeps, Same, SameQueues, Reset
<1>4. OutqDelivered(c2.f.outq, R)
  <2>1. CASE c2 = c1
    BY <1>2, <2>1
  <2>2. CASE c2 = Send1(c1, CONNSHUT) /\ InShutdown(c1.f.state)
    BY <1>2, <2>2 DEF Send1
  <2>3. CASE c2 = Send1(c1, CONNSHUT) /\ ~InShutdown(c1.f.state)
    <3>1. PICK d : /\ SoundCtx(d) /\ c2 = Xmit(d)
                   /\ d.f.outq = Enq(c1.f.outq, CONNSHUT, c1.psid)
      BY <1>1, <2>3, Send1Steps DEF CONNSHUT
    <3>2. c1.f.outq \in Queue /\ c1.psid \in Nat \ {0}
      BY <1>1, <1>2, CtxFields, FspeFields DEF SoundCtx
    <3>3. OutqDelivered(d.f.outq, R)
      BY <1>2, <3>1, <3>2, EnqDelivered DEF CONNSHUT
    <3> QED
      BY <1>3, <3>1, <3>3, XmitKeeps
  <2> QED
    BY <1>1, <2>1, <2>2, <2>3
<1> QED
  BY <1>1, <1>3, <1>4 DEF KeepsCtx

LEMMA ReadFresh ==
    ASSUME Window <= 2, NEW K \in SUBSET FrameSet, NEW top \in Nat, NEW m,
           NEW R, NEW c, SoundCtx(c), OutqDelivered(c.f.outq, R), FreshCtx(c, K, top, m),
           c.psid # 0
    PROVE  FreshCtx(Read(c), K, top, m)
<1>1. CASE ~HeadReady(c.f.inq)
  BY <1>1, ReadSteps, XmitFresh
<1>2. CASE HeadReady(c.f.inq)
  <2> DEFINE fs == Head(c.f.inq.items)
  <2>1. PICK d1, d2 : /\ SoundCtx(d1) /\ SoundCtx(d2)
                      /\ d1.psid = c.psid /\ d1.tx = c.tx
                      /\ d1.f.outq = c.f.outq
                      /\ d2 = d1 \/ d2 = FsaShut(d1, "RCVSHUTDOWN", Seqno(fs))
                      /\ Read(c) = Xmit(d2)
    BY <1>2, ReadSteps
  <2>2. fs \in FrameSet
    BY <1>2, ReadSteps
  <2>3. Seqno(fs) \in SeqId
    BY <2>2, FrameTypes
  <2> HIDE DEF fs
  <2>4. FreshCtx(d1, K, top, m)
    BY <2>1 DEF FreshCtx
  <2>5. FreshCtx(d2, K, top, m)
    BY <2>1, <2>3, <2>4, FsaShutFresh
  <2>6. OutqDelivered(d2.f.outq, R)
    BY <2>1, <2>3, FsaShutOutq
  <2> QED
    BY <2>1, <2>5, <2>6, XmitFresh
<1> QED
  BY <1>1, <1>2

\* A destroyed element has forgotten all.
LEMMA DestroyForgets ==
    ASSUME NEW f \in Fspe
    PROVE  /\ Destroy(f).outq = NewQueue /\ Destroy(f).inq = NewQueue
           /\ Destroy(f).lastacksent = NoSeq
<1> DEFINE r == Reinit(f)
<1>1. r \in Fspe
  BY ReinitResets
<1>2. r.ipend \in BOOLEAN /\ r.finalizetimer \in Timer /\ r.shuttimer \in Timer
      /\ r.unacked \in BOOLEAN
  BY <1>1, FspeFields
<1> HIDE DEF r
<1>3. /\ NoFspe \in Fspe /\ NoFspe.inq = NewQueue /\ NoFspe.outq = NewQueue
      /\ NoFspe.lastacksent = NoSeq
  BY NoFspeSound DEF NoFspe
<1> QED
  BY <1>2, <1>3, Zenon DEF Destroy, r, Fspe

\* _fsprotocol_closeall after the HBSHUTDOWN: a connection that never carried
\* anything else is destroyed at once, and its sequence numbers forgotten.
LEMMA CloseAllFresh ==
    ASSUME Window <= 2, NEW K \in SUBSET FrameSet, NEW top \in Nat, NEW m, m # "closing",
           NEW R, NEW c, SoundCtx(c), OutqDelivered(c.f.outq, R), FreshCtx(c, K, top, m),
           c.psid # 0, c.tx = {}, c.f.outq.sessionid <= top, NEW msg \in Nat,
           OutqDelivered(Send1(c, msg).f.outq, R)
    PROVE  \/ FreshCtx(CloseAll(Send1(c, msg)), K, top, m)
           \/ FreshCtx(CloseAll(Send1(c, msg)), K, top, "closing")
<1> DEFINE d == Send1(c, msg)
<1>1. SoundCtx(d) /\ d.psid = c.psid /\ FreshCtx(d, K, top, m)
  BY Send1Sound, Send1Fresh
<1>2. \A x \in SentData(d.tx) : x.sid <= top
  <2>1. CASE InShutdown(c.f.state)
    BY <2>1 DEF Send1, SentData
  <2>2. CASE ~InShutdown(c.f.state)
    <3>1. PICK b : /\ SoundCtx(b) /\ Send1(c, msg) = Xmit(b) /\ b.tx = c.tx
                   /\ b.f.outq = Enq(c.f.outq, msg, c.psid)
      BY <2>2, Send1Steps
    <3>2. c.f.outq \in Queue /\ b.f.outq \in Queue /\ c.psid \in Nat \ {0}
      BY <3>1, CtxFields, FspeFields DEF SoundCtx
    <3>3. OutqDelivered(b.f.outq, R)
      BY <3>1, <3>2, EnqDelivered
    <3>4. b.f.outq.sessionid <= top
      <4>1. b.f.outq = c.f.outq \/ b.f.outq.sessionid = EnqSession(c.f.outq, c.psid)
        <5> DEFINE q == c.f.outq
                   p == c.psid
        <5>1. q \in Queue /\ p \in Nat \ {0} /\ Numbered(q)
          BY <3>2 DEF OutqDelivered
        <5> HIDE DEF q, p
        <5>2. Enq(q, msg, p) = q \/ Enq(q, msg, p).sessionid = EnqSession(q, p)
          BY <5>1, EnqNumbered
        <5> QED
          BY <3>1, <5>2 DEF q, p
      <4> QED
        BY <4>1 DEF EnqSession, FreshCtx
    <3>5. SendsHead(b, d)
      BY <3>1, XmitKeeps
    <3> HIDE DEF d
    <3> DEFINE h == Head(b.f.outq.items)
    <3>6. b.f.outq.items # <<>> => h.sid <= top
      BY <3>2, <3>3, <3>4, HeadIsPast
    <3>7. Data(h).fs = h
      BY DEF Data
    <3> QED
      BY <3>1, <3>5, <3>6, <3>7 DEF SendsHead, SentData
  <2> QED
    BY <2>1, <2>2
<1> HIDE DEF d
<1>3. CASE CanCloseImmediately(d.f)
  <2>1. d.f \in Fspe /\ Sound(d.f) /\ d \in Context
    BY <1>1, CtxFields DEF SoundCtx
  <2>2. Destroy(d.f) \in Fspe /\ Destroy(d.f).outq = NewQueue
    BY <2>1, DestroySound, DestroyForgets
  <2>3. CloseAll(d) = [d EXCEPT !.f = Destroy(d.f)]
    BY <1>3, Zenon DEF CloseAll
  <2>4. CloseAll(d).f = Destroy(d.f) /\ CloseAll(d).psid = c.psid /\ CloseAll(d).tx = d.tx
    BY <1>1, <2>1, <2>2, <2>3, CtxFields
  <2>5. NewQueue.items = <<>>
    BY DEF NewQueue
  <2>6. FreshCtx(CloseAll(d), K, top, "closing")
    BY <1>2, <2>2, <2>4, <2>5, NothingInEmpty DEF FreshCtx, Unused, Upto
  <2> QED
    BY <2>6 DEF d
<1>4. CASE ~CanCloseImmediately(d.f)
  <2>1. NoSeq \in SeqId
    BY DEF NoSeq, SeqId
  <2>2. FreshCtx(FsaShut(d, "REQSHUTDOWN", NoSeq), K, top, m)
    BY <1>1, <2>1, FsaShutFresh DEF d
  <2> QED
    BY <1>4, <2>2 DEF CloseAll, d
<1> QED
  BY <1>3, <1>4

-----------------------------------------------------------------------------
(* All together: the contexts of a handler at end e.  RP is what the       *)
(* application at e will have been given when the handler is done.         *)

\* The FrameSets of e that the other end has been given, or may be.
SentBy(e) ==
    {x \in FrameSet :
        /\ x.req # 0
        /\ \/ x \in rcvd[Peer(e)]
           \/ x \in ToSet(fspe[Peer(e)].inq.items)
           \/ \E p \in net : p.src = e /\ p.kind = "data" /\ p.fs = x}

\* Those of the other end that may come next.
Coming(e, RP) == {x \in SentBy(Peer(e)) : InOrder(x, RP)}

Delivers(c, e, RP, m) ==
    /\ SoundCtx(c) /\ c.psid = procsid[e] /\ c.psid # 0
    /\ InqSequenced(c.f)
    /\ Window <= 2 => /\ OrderCtx(c, rcvd[Peer(e)], Coming(e, RP), RP)
                      /\ FreshCtx(c, SentBy(e), topsid[e], m)

LEMMA SentByType ==
    ASSUME IInv, NEW e \in End
    PROVE  SentBy(e) \in SUBSET FrameSet /\ topsid[e] \in Nat
BY DEF SentBy, IInv, TypeOK

LEMMA KeepsDelivers ==
    ASSUME IInv, NEW e \in End, NEW RP, NEW m, NEW c, Delivers(c, e, RP, m),
           NEW d, SoundCtx(d), KeepsCtx(c, d)
    PROVE  Delivers(d, e, RP, m)
<1>1. InqSequenced(d.f) /\ d.psid = c.psid
  BY KeepsSequenced DEF Delivers, KeepsCtx
<1>2. Window <= 2 => OrderCtx(d, rcvd[Peer(e)], Coming(e, RP), RP)
  BY KeepsOrder DEF Delivers
<1>3. Window <= 2 => FreshCtx(d, SentBy(e), topsid[e], m)
  BY SentByType, KeepsFresh DEF Delivers
<1> QED
  BY <1>1, <1>2, <1>3 DEF Delivers

LEMMA SameQueuesDelivers ==
    ASSUME NEW e, NEW RP, NEW m, NEW c, Delivers(c, e, RP, m),
           NEW d, SoundCtx(d), SameQueues(c.f, d.f), d.psid = c.psid, d.tx = c.tx
    PROVE  Delivers(d, e, RP, m)
BY DEF Delivers, SameQueues, InqSequenced, OrderCtx, InqExpected, FreshCtx

LEMMA XmitDelivers ==
    ASSUME IInv, NEW e \in End, NEW RP, NEW m, NEW c, Delivers(c, e, RP, m)
    PROVE  Delivers(Xmit(c), e, RP, m)
<1>1. SoundCtx(Xmit(c)) /\ Xmit(c).psid = c.psid
  BY XmitSound DEF Delivers
<1>2. InqSequenced(Xmit(c).f)
  BY XmitSequenced DEF Delivers
<1>3. Window <= 2 => OrderCtx(Xmit(c), rcvd[Peer(e)], Coming(e, RP), RP)
  BY XmitOrder DEF Delivers
<1>4. Window <= 2 => FreshCtx(Xmit(c), SentBy(e), topsid[e], m)
  BY SentByType, XmitFresh DEF Delivers, OrderCtx
<1> QED
  BY <1>1, <1>2, <1>3, <1>4 DEF Delivers

LEMMA Send1Delivers ==
    ASSUME IInv, NEW e \in End, NEW RP, NEW m, NEW c, Delivers(c, e, RP, m), NEW msg \in Nat,
           m # "closing"
    PROVE  Delivers(Send1(c, msg), e, RP, m)
<1>1. SoundCtx(Send1(c, msg)) /\ Send1(c, msg).psid = c.psid
  BY Send1Sound DEF Delivers
<1>2. InqSequenced(Send1(c, msg).f)
  BY Send1Sequenced DEF Delivers
<1>3. Window <= 2 => OrderCtx(Send1(c, msg), rcvd[Peer(e)], Coming(e, RP), RP)
  BY Send1Order DEF Delivers
<1>4. Window <= 2 => FreshCtx(Send1(c, msg), SentBy(e), topsid[e], m)
  BY SentByType, Send1Fresh DEF Delivers, OrderCtx
<1> QED
  BY <1>1, <1>2, <1>3, <1>4 DEF Delivers

LEMMA AckSeqnoDelivers ==
    ASSUME NEW e, NEW RP, NEW m, NEW c, Delivers(c, e, RP, m), NEW seq \in SeqId,
           Window <= 2 => Has(RP, seq[1], seq[2])
    PROVE  Delivers(AckSeqno(c, seq), e, RP, m)
<1>1. SoundCtx(AckSeqno(c, seq)) /\ AckSeqno(c, seq).psid = c.psid
  BY AckSeqnoSound DEF Delivers
<1>2. InqSequenced(AckSeqno(c, seq).f)
  BY AckSeqnoSequenced DEF Delivers
<1>3. Window <= 2 => OrderCtx(AckSeqno(c, seq), rcvd[Peer(e)], Coming(e, RP), RP)
  BY AckSeqnoOrder DEF Delivers
<1>4. Window <= 2 => FreshCtx(AckSeqno(c, seq), SentBy(e), topsid[e], m)
  BY AckSeqnoFresh DEF Delivers
<1> QED
  BY <1>1, <1>2, <1>3, <1>4 DEF Delivers

LEMMA RequestShutdownDelivers ==
    ASSUME IInv, NEW e \in End, NEW RP, NEW m, NEW c, Delivers(c, e, RP, m)
    PROVE  Delivers(FsaShut(c, "REQSHUTDOWN", NoSeq), e, RP, m)
<1> DEFINE d == FsaShut(c, "REQSHUTDOWN", NoSeq)
<1>1. NoSeq \in SeqId
  BY DEF NoSeq, SeqId
<1>2. SoundCtx(d) /\ d.psid = c.psid
  BY <1>1, FsaShutSound DEF Delivers
<1>3. InqSequenced(d.f)
  BY <1>1, FsaShutSequenced DEF Delivers
<1>4. Window <= 2 => OrderCtx(d, rcvd[Peer(e)], Coming(e, RP), RP)
  BY <1>1, FsaShutOrder DEF Delivers
<1>5. Window <= 2 => FreshCtx(d, SentBy(e), topsid[e], m)
  BY <1>1, SentByType, FsaShutFresh DEF Delivers, OrderCtx
<1> QED
  BY <1>2, <1>3, <1>4, <1>5 DEF Delivers

LEMMA DestroyDelivers ==
    ASSUME NEW e, NEW RP, NEW m, NEW m2, NEW c, Delivers(c, e, RP, m), NEW d, SoundCtx(d),
           d.psid = c.psid, d.tx = c.tx, NEW f \in Fspe, d.f = Destroy(f),
           Window <= 2 => FreshCtx(d, SentBy(e), topsid[e], m2)
    PROVE  Delivers(d, e, RP, m2)
<1>1. d.f.outq = NewQueue /\ d.f.inq = NewQueue /\ d.f.lastacksent = NoSeq
  BY DestroyForgets
<1>2. InqSequenced(d.f)
  BY DestroySequenced
<1>3. NewQueue.items = <<>> /\ NewQueue.nextseqno = 1
  BY DEF NewQueue
<1>4. \A R : OutqDelivered(d.f.outq, R)
  BY <1>1, <1>3, EmptyOutq
<1>5. InqExpected(d.f, Coming(e, RP), RP)
  BY <1>1, <1>3, NothingInEmpty DEF InqExpected
<1> QED
  BY <1>2, <1>4, <1>5 DEF Delivers, OrderCtx

LEMMA CloseAllDelivers ==
    ASSUME IInv, NEW e \in End, NEW RP, NEW m, m # "closing", NEW c, Delivers(c, e, RP, m),
           c.tx = {}, Window <= 2 => c.f.outq.sessionid <= topsid[e], NEW msg \in Nat
    PROVE  \/ Delivers(CloseAll(Send1(c, msg)), e, RP, m)
           \/ Delivers(CloseAll(Send1(c, msg)), e, RP, "closing")
<1> DEFINE d == Send1(c, msg)
<1>1. Delivers(d, e, RP, m)
  BY Send1Delivers
<1>2. Window <= 2 => \/ FreshCtx(CloseAll(d), SentBy(e), topsid[e], m)
                     \/ FreshCtx(CloseAll(d), SentBy(e), topsid[e], "closing")
  BY <1>1, SentByType, CloseAllFresh DEF Delivers, OrderCtx
<1> HIDE DEF d
<1>3. CASE CanCloseImmediately(d.f)
  <2>1. d.f \in Fspe /\ Sound(d.f) /\ d \in Context
    BY <1>1, CtxFields DEF Delivers, SoundCtx
  <2>2. Destroy(d.f) \in Fspe
    BY <2>1, DestroySound
  <2>3. CloseAll(d) = [d EXCEPT !.f = Destroy(d.f)]
    BY <1>3, Zenon DEF CloseAll
  <2>4. CloseAll(d).f = Destroy(d.f) /\ CloseAll(d).psid = d.psid /\ CloseAll(d).tx = d.tx
    BY <2>1, <2>2, <2>3, CtxFields
  <2>5. SoundCtx(CloseAll(d))
    BY <1>1, CloseAllSound DEF Delivers
  <2> QED
    BY <1>1, <1>2, <2>1, <2>4, <2>5, DestroyDelivers DEF d
<1>4. CASE ~CanCloseImmediately(d.f)
  BY <1>1, <1>4, RequestShutdownDelivers DEF CloseAll, d
<1> QED
  BY <1>3, <1>4

-----------------------------------------------------------------------------
(* The invariant.                                                          *)

\* A FrameSet that an application that has been given R may be given next, or
\* that is not numbered and then not a CONNSHUT.
Proper(x, R) == InOrder(x, R) \/ (x.req = 0 /\ x.msg # CONNSHUT)

\* R has no gap.
Complete(R) ==
    \A x \in R : InOrder(x, R) /\ \A r \in 1 .. x.req : Has(R, x.sid, r)

\* p, which e has sent: a FrameSet that may come to the other end, or the ACK of
\* one that the application at e has been given.
PacketInOrder(p, e) ==
    /\ p.kind = "data" => Proper(p.fs, rcvd[Peer(e)])
    /\ p.kind = "ack" => Has(rcvd[e], p.fs.sid, p.fs.req)

InOrderAt(e) ==
    /\ OutqDelivered(fspe[e].outq, rcvd[Peer(e)])
    /\ \A x \in ToSet(fspe[e].inq.items) : Proper(x, rcvd[e])
    /\ \/ fspe[e].lastacksent = NoSeq
       \/ Has(rcvd[e], fspe[e].lastacksent[1], fspe[e].lastacksent[2])
    /\ \A x \in ToSet(toack[e]) : Has(rcvd[e], x.sid, x.req)
    /\ Complete(rcvd[e])
    /\ \A p \in net : p.src = e => PacketInOrder(p, e)

\* Sequence frames are not used twice while no finalize timer has fired, in a
\* nanoprobe that is stopping for CONNSHUTs only.
Modes(e) ==
    IF used.final # 0 \/ run[e] = "down" THEN {"any"}
    ELSE IF run[e] = "up" THEN {"fresh"} ELSE {"fresh", "closing"}

AckedDelivered(A, R) == \A x \in A : x.msg # CONNSHUT => x \in R

FreshAt(e) ==
    /\ procsid[e] <= topsid[e] /\ fspe[e].outq.sessionid <= topsid[e]
    /\ \A x \in SentBy(e) : x.sid <= topsid[e]
    /\ used.final = 0 => AckedDelivered(acked[e], rcvd[Peer(e)])
    /\ \E m \in Modes(e) : Unused(fspe[e].outq, procsid[e], SentBy(e), m)

DeliveryInv ==
    /\ \A e \in End : InqSequenced(fspe[e])
    /\ Window <= 2 => \A e \in End : InOrderAt(e) /\ FreshAt(e)

LEMMA PeerIsEnd ==
    ASSUME NEW e \in End
    PROVE  Peer(e) \in End /\ Peer(e) # e /\ Peer(Peer(e)) = e /\ End = {e, Peer(e)}
BY DEF End, Peer

\* More is delivered as time goes by.
LEMMA Grow ==
    ASSUME NEW R, NEW R2, R \subseteq R2
    PROVE  /\ \A s, r : Has(R, s, r) => Has(R2, s, r)
           /\ \A x : InOrder(x, R) => InOrder(x, R2)
           /\ \A x : Proper(x, R) => Proper(x, R2)
           /\ \A q : OutqDelivered(q, R) => OutqDelivered(q, R2)
           /\ \A A : AckedDelivered(A, R) => AckedDelivered(A, R2)
           /\ \A e, c, T : OrderCtx(c, T, Coming(e, R), R) => OrderCtx(c, T, Coming(e, R2), R2)
<1>1. \A s, r : Has(R, s, r) => Has(R2, s, r)
  BY DEF Has
<1>2. \A x : InOrder(x, R) => InOrder(x, R2)
  BY <1>1 DEF InOrder
<1>3. \A e, x : Expected(x, Coming(e, R)) => Expected(x, Coming(e, R2))
  BY <1>2 DEF Coming, Expected
<1>4. \A q : OutqDelivered(q, R) => OutqDelivered(q, R2)
  BY <1>1 DEF OutqDelivered
<1>5. \A e, f : InqExpected(f, Coming(e, R), R) => InqExpected(f, Coming(e, R2), R2)
  BY <1>1, <1>3 DEF InqExpected
<1>6. \A e, c, T : OrderCtx(c, T, Coming(e, R), R) => OrderCtx(c, T, Coming(e, R2), R2)
  BY <1>1, <1>5 DEF OrderCtx, SentInOrder
<1> QED
  BY <1>1, <1>2, <1>4, <1>6 DEF Proper, AckedDelivered

\* Fewer FrameSets use fewer sequence frames.
LEMMA Fewer ==
    ASSUME NEW q, NEW psid, NEW m, NEW K, NEW K2, K2 \subseteq K, Unused(q, psid, K, m)
    PROVE  Unused(q, psid, K2, m)
BY DEF Unused

\* Every handler starts from such a context.
LEMMA CtxKeeps ==
    ASSUME IInv, NEW e \in End, NEW clk \in Clock
    PROVE  /\ SoundCtx(Ctx(e, clk)) /\ Ctx(e, clk).psid = procsid[e] /\ procsid[e] \in Nat \ {0}
           /\ Ctx(e, clk).tx = {} /\ SameQueues(fspe[e], Ctx(e, clk).f)
           /\ Ctx(e, clk).f.exists = TRUE
<1> DEFINE g == AddConn(fspe[e])
<1>1. fspe[e] \in Fspe /\ procsid[e] \in Nat \ {0}
  BY DEF IInv, TypeOK
<1>2. SameQueues(fspe[e], g) /\ g.exists = TRUE
  BY <1>1, Zenon DEF AddConn, SameQueues, Fspe
<1>3. Ctx(e, clk) = [f |-> g, psid |-> procsid[e], clk |-> clk, tx |-> {}]
  BY DEF Ctx
<1> HIDE DEF g
<1>4. Ctx(e, clk).f = g /\ Ctx(e, clk).psid = procsid[e] /\ Ctx(e, clk).tx = {}
  BY <1>3
<1>5. SoundCtx(Ctx(e, clk))
  BY CtxSound
<1> QED
  BY <1>1, <1>2, <1>4, <1>5, Zenon

\* What waits at e was sent by the other end.
LEMMA WaitingIsComing ==
    ASSUME IInv, NEW e \in End, NEW x \in ToSet(fspe[e].inq.items), Proper(x, rcvd[e])
    PROVE  Expected(x, Coming(e, rcvd[e]))
<1>1. fspe[e].inq.items \in Seq(FrameSet) /\ Peer(e) \in End /\ Peer(Peer(e)) = e
  BY FspeFields, PeerIsEnd DEF IInv, TypeOK
<1>2. x \in FrameSet
  BY <1>1, ElementOfSeq DEF ToSet
<1>3. x.req # 0 => x \in SentBy(Peer(e))
  BY <1>1, <1>2 DEF SentBy
<1> QED
  BY <1>3 DEF Proper, Expected, Coming, InOrder

LEMMA CtxDelivers ==
    ASSUME IInv, DeliveryInv, NEW e \in End, NEW clk \in Clock
    PROVE  \E m \in Modes(e) : Delivers(Ctx(e, clk), e, rcvd[e], m)
<1> DEFINE c == Ctx(e, clk)
<1>1. /\ SoundCtx(c) /\ c.psid = procsid[e] /\ c.psid # 0 /\ c.tx = {}
      /\ SameQueues(fspe[e], c.f)
  BY CtxKeeps
<1> HIDE DEF c
<1>2. InqSequenced(c.f)
  BY <1>1 DEF SameQueues, InqSequenced, DeliveryInv
<1>3. Window <= 2 => OrderCtx(c, rcvd[Peer(e)], Coming(e, rcvd[e]), rcvd[e])
  BY <1>1, WaitingIsComing DEF DeliveryInv, InOrderAt, OrderCtx, SentInOrder, Same, SameQueues, InqExpected
<1>4. CASE Window <= 2
  <2>1. PICK m \in Modes(e) : Unused(fspe[e].outq, procsid[e], SentBy(e), m)
    BY <1>4 DEF DeliveryInv, FreshAt
  <2>2. SentData(c.tx) = {}
    BY <1>1 DEF SentData
  <2>3. SentBy(e) \cup SentData(c.tx) = SentBy(e)
    BY <2>2
  <2>4. Unused(c.f.outq, c.psid, SentBy(e) \cup SentData(c.tx), m)
    BY <1>1, <2>1, <2>3 DEF Same, SameQueues
  <2>5. c.psid <= topsid[e]
    BY <1>1, <1>4 DEF DeliveryInv, FreshAt
  <2>6. FreshCtx(c, SentBy(e), topsid[e], m)
    BY <2>2, <2>4, <2>5 DEF FreshCtx
  <2> QED
    BY <1>1, <1>2, <1>3, <2>6 DEF Delivers, c
<1>5. CASE ~(Window <= 2)
  <2>1. \E m : m \in Modes(e)
    BY DEF Modes
  <2> QED
    BY <1>1, <1>2, <1>5, <2>1 DEF Delivers, c
<1> QED
  BY <1>4, <1>5

\* A step of the other end that delivers nothing of e's: what e knows stays as it is.
Undisturbed(e) ==
    /\ SentBy(e)' \subseteq SentBy(e)
    /\ fspe'[e].outq = fspe[e].outq /\ procsid'[e] = procsid[e] /\ topsid'[e] = topsid[e]
    /\ run'[e] = run[e] /\ acked'[e] = acked[e]
    /\ rcvd[Peer(e)] \subseteq rcvd'[Peer(e)]
    /\ used'.final = 0 => used.final = 0

LEMMA UndisturbedFresh ==
    ASSUME NEW e, FreshAt(e), Undisturbed(e)
    PROVE  FreshAt(e)'
<1>1. PICK m \in Modes(e) : Unused(fspe[e].outq, procsid[e], SentBy(e), m)
  BY DEF FreshAt
<1>2. \A k : Unused(fspe[e].outq, procsid[e], SentBy(e), k) =>
             Unused(fspe'[e].outq, procsid'[e], SentBy(e)', k)
  BY Fewer DEF Undisturbed
<1>3. \E k \in Modes(e)' : Unused(fspe'[e].outq, procsid'[e], SentBy(e)', k)
  <2>1. CASE used'.final # 0 \/ run'[e] = "down"
    <3>1. "any" \in Modes(e)'
      BY <2>1 DEF Modes
    <3> QED
      BY <3>1 DEF Unused
  <2>2. CASE ~(used'.final # 0 \/ run'[e] = "down")
    <3>1. Modes(e)' = Modes(e)
      BY <2>2 DEF Modes, Undisturbed
    <3> QED
      BY <1>1, <1>2, <3>1
  <2> QED
    BY <2>1, <2>2
<1>4. used'.final = 0 => AckedDelivered(acked'[e], rcvd'[Peer(e)])
  BY Grow DEF FreshAt, Undisturbed
<1> QED
  BY <1>3, <1>4 DEF FreshAt, Undisturbed

\* What a handler at e leaves to the rest of the system.
Around(e) ==
    /\ UNCHANGED procsid
    /\ run'[Peer(e)] = run[Peer(e)] /\ toack'[Peer(e)] = toack[Peer(e)]
    /\ acked'[Peer(e)] = acked[Peer(e)]
    /\ used'.final = 0 => used.final = 0

\* What it gives to the application, and takes from the ACKs.
Gives(e, RP) ==
    /\ rcvd[e] \subseteq RP /\ RP \subseteq rcvd[e] \cup SentBy(Peer(e))
    /\ Complete(RP)
    /\ \A x \in ToSet(toack'[e]) : Has(RP, x.sid, x.req)
    /\ used'.final = 0 => AckedDelivered(acked'[e], rcvd[Peer(e)])

\* Every handler that ends in such a context keeps the invariant.
LEMMA FinishDelivers ==
    ASSUME IInv, DeliveryInv, NEW e \in End, NEW RP, NEW m \in Modes(e)', NEW d,
           Delivers(d, e, RP, m), Finish(e, d), rcvd' = [rcvd EXCEPT ![e] = RP],
           Around(e), Window <= 2 => Gives(e, RP)
    PROVE  DeliveryInv'
<1> DEFINE p == Peer(e)
           R == rcvd[p]
<1>1. p \in End /\ p # e /\ Peer(p) = e /\ End = {e, p}
  BY PeerIsEnd
<1>2. /\ fspe' = [fspe EXCEPT ![e] = d.f]
      /\ topsid' = [topsid EXCEPT ![e] = Higher(@, d.f.outq.sessionid)]
      /\ \A x \in net' : x \in net \/ x \in Packets(e, d)
  BY DEF Finish
<1>3. /\ fspe'[e] = d.f /\ fspe'[p] = fspe[p]
      /\ rcvd'[e] = RP /\ rcvd'[p] = R
      /\ topsid'[e] = Higher(topsid[e], d.f.outq.sessionid) /\ topsid'[p] = topsid[p]
  BY <1>1, <1>2 DEF IInv, TypeOK
<1>4. \A x \in End : InqSequenced(fspe'[x])
  BY <1>1, <1>3 DEF Delivers, DeliveryInv
<1>5. \A x \in Packets(e, d) : x.src = e /\ [kind |-> x.kind, fs |-> x.fs] \in d.tx
  <2>1. ASSUME NEW y \in d.tx
        PROVE  [kind |-> y.kind, fs |-> y.fs] \in d.tx
    <3>1. y \in Frames
      BY CtxFields DEF Delivers, SoundCtx
    <3>2. y = [kind |-> y.kind, fs |-> y.fs]
      BY <3>1 DEF Frames
    <3> QED
      BY <3>2
  <2>2. ASSUME NEW x \in Packets(e, d)
        PROVE  x.src = e /\ [kind |-> x.kind, fs |-> x.fs] \in d.tx
    <3>1. PICK y \in d.tx : x = [src |-> e, kind |-> y.kind, fs |-> y.fs]
      BY <2>2 DEF Packets
    <3>2. x.src = e /\ x.kind = y.kind /\ x.fs = y.fs
      BY <3>1
    <3> QED
      BY <2>1, <3>2, Zenon
  <2> QED
    BY <2>2
<1>6. \A x \in net' : x.src = p => x \in net
  BY <1>1, <1>2, <1>5
<1>7. ASSUME Window <= 2
      PROVE  InOrderAt(e)' /\ InOrderAt(p)'
  <2>1. OrderCtx(d, R, Coming(e, RP), RP) /\ InOrderAt(e) /\ InOrderAt(p) /\ Gives(e, RP)
    BY <1>1, <1>7 DEF Delivers, DeliveryInv
  <2>2. /\ \A s, r : Has(rcvd[e], s, r) => Has(RP, s, r)
        /\ \A x : Proper(x, rcvd[e]) => Proper(x, RP)
        /\ \A q : OutqDelivered(q, rcvd[e]) => OutqDelivered(q, RP)
    BY <2>1, Grow DEF Gives
  <2>3. ASSUME NEW x \in net', x.src = e
        PROVE  /\ x.kind = "data" => Proper(x.fs, R)
               /\ x.kind = "ack" => Has(RP, x.fs.sid, x.fs.req)
    <3>1. CASE x \in net
      BY <2>1, <2>2, <2>3, <3>1 DEF InOrderAt, PacketInOrder
    <3>2. CASE x \in Packets(e, d)
      <4> DEFINE y == [kind |-> x.kind, fs |-> x.fs]
      <4>1. y \in d.tx /\ y.kind = x.kind /\ y.fs = x.fs
        BY <1>5, <3>2
      <4> HIDE DEF y
      <4>2. y.kind = "data" => InOrder(y.fs, R)
        BY <2>1, <4>1 DEF OrderCtx, SentInOrder
      <4>3. y.kind = "ack" => Has(RP, y.fs.sid, y.fs.req)
        BY <2>1, <4>1 DEF OrderCtx, SentInOrder
      <4> QED
        BY <4>1, <4>2, <4>3 DEF Proper
    <3> QED
      BY <1>2, <3>1, <3>2
  <2>4. ASSUME NEW x \in net', x.src = p
        PROVE  /\ x.kind = "data" => Proper(x.fs, RP)
               /\ x.kind = "ack" => Has(R, x.fs.sid, x.fs.req)
    BY <1>1, <1>6, <2>1, <2>2, <2>4 DEF InOrderAt, PacketInOrder
  <2>5. \A x \in ToSet(d.f.inq.items) : Proper(x, RP)
    BY <2>1 DEF OrderCtx, InqExpected, Expected, Proper, Coming
  <2>6. InOrderAt(e)'
    BY <1>1, <1>3, <2>1, <2>3, <2>5
       DEF InOrderAt, PacketInOrder, OrderCtx, InqExpected, Gives
  <2>7. InOrderAt(p)'
    BY <1>1, <1>3, <2>1, <2>2, <2>4 DEF InOrderAt, PacketInOrder, Around
  <2> QED
    BY <2>6, <2>7
<1>8. ASSUME Window <= 2
      PROVE  FreshAt(e)' /\ FreshAt(p)'
  <2>1. /\ OrderCtx(d, R, Coming(e, RP), RP) /\ FreshCtx(d, SentBy(e), topsid[e], m)
        /\ FreshAt(e) /\ FreshAt(p) /\ Gives(e, RP) /\ d.psid = procsid[e]
    BY <1>1, <1>8 DEF Delivers, DeliveryInv
  <2>2. SentBy(e)' \subseteq SentBy(e) \cup SentData(d.tx)
    <3> SUFFICES ASSUME NEW x \in SentBy(e)'
                 PROVE  x \in SentBy(e) \/ x \in SentData(d.tx)
      OBVIOUS
    <3>1. CASE x \in rcvd'[p] \/ x \in ToSet(fspe'[p].inq.items)
      BY <1>3, <3>1 DEF SentBy
    <3>2. CASE \E y \in net' : y.src = e /\ y.kind = "data" /\ y.fs = x
      <4>1. PICK y \in net' : y.src = e /\ y.kind = "data" /\ y.fs = x
        BY <3>2
      <4>2. CASE y \in net
        BY <4>1, <4>2 DEF SentBy
      <4>3. CASE y \in Packets(e, d)
        <5> DEFINE z == [kind |-> y.kind, fs |-> y.fs]
        <5>1. z \in d.tx /\ z.kind = "data" /\ z.fs = x
          BY <1>5, <4>1, <4>3
        <5> HIDE DEF z
        <5> QED
          BY <5>1 DEF SentData
      <4> QED
        BY <1>2, <4>1, <4>2, <4>3
    <3> QED
      BY <3>1, <3>2 DEF SentBy
  <2>3. SentBy(p)' \subseteq SentBy(p)
    <3> SUFFICES ASSUME NEW x \in SentBy(p)'
                 PROVE  x \in SentBy(p)
      OBVIOUS
    <3>1. x \in FrameSet /\ x.req # 0
      BY DEF SentBy
    <3>2. CASE x \in rcvd'[e]
      BY <1>1, <1>3, <2>1, <3>1, <3>2 DEF SentBy, Gives
    <3>3. CASE x \in ToSet(fspe'[e].inq.items)
      BY <1>3, <2>1, <3>1, <3>3 DEF OrderCtx, InqExpected, Expected, Coming
    <3>4. CASE \E y \in net' : y.src = p /\ y.kind = "data" /\ y.fs = x
      BY <1>6, <3>1, <3>4 DEF SentBy
    <3> QED
      BY <1>1, <3>2, <3>3, <3>4 DEF SentBy
  <2>4. FreshAt(p)'
    <3>1. Undisturbed(p)
      BY <1>1, <1>3, <2>1, <2>3 DEF Undisturbed, Around, Gives
    <3> QED
      BY <2>1, <3>1, UndisturbedFresh
  <2>5. /\ topsid[e] \in Nat /\ d.f.outq.sessionid \in Nat /\ procsid[e] \in Nat
        /\ SentBy(e)' \subseteq FrameSet
    BY CtxFields, FspeFields DEF IInv, TypeOK, Delivers, SoundCtx, SentBy, Queue
  <2>6. /\ procsid'[e] <= topsid'[e] /\ fspe'[e].outq.sessionid <= topsid'[e]
    BY <1>3, <2>1, <2>5 DEF FreshAt, Higher, Around
  <2>7. ASSUME NEW x \in SentBy(e)' PROVE x.sid <= topsid'[e]
    <3>1. x.sid \in Nat
      BY <2>5, <2>7 DEF FrameSet
    <3>2. x.sid <= topsid[e] \/ x.sid <= d.f.outq.sessionid
      BY <2>1, <2>2, <2>7 DEF FreshAt, FreshCtx, Upto
    <3> QED
      BY <1>3, <2>5, <3>1, <3>2 DEF Higher
  <2>8. Unused(fspe'[e].outq, procsid'[e], SentBy(e)', m)
    BY <1>3, <2>1, <2>2, Fewer DEF FreshCtx, Around
  <2>9. FreshAt(e)'
    BY <1>3, <2>1, <2>6, <2>7, <2>8 DEF FreshAt, Gives
  <2> QED
    BY <2>4, <2>9
<1> QED
  BY <1>1, <1>4, <1>7, <1>8 DEF DeliveryInv

\* Most handlers give nothing to the application, and take no ACK.
LEMMA QuietDelivers ==
    ASSUME IInv, DeliveryInv, NEW e \in End, NEW m \in Modes(e)', NEW d,
           Delivers(d, e, rcvd[e], m), Finish(e, d), Around(e), UNCHANGED <<rcvd, acked>>,
           Window <= 2 => \A x \in ToSet(toack'[e]) : Has(rcvd[e], x.sid, x.req)
    PROVE  DeliveryInv'
<1>1. rcvd' = [rcvd EXCEPT ![e] = rcvd[e]]
  BY DEF IInv, TypeOK
<1>2. Window <= 2 => Gives(e, rcvd[e])
  BY DEF DeliveryInv, InOrderAt, FreshAt, Gives, Around
<1> QED
  BY <1>1, <1>2, FinishDelivers

LEMMA ToackDelivered ==
    ASSUME DeliveryInv, NEW e \in End, Window <= 2
    PROVE  \A x \in ToSet(toack[e]) : Has(rcvd[e], x.sid, x.req)
BY DEF DeliveryInv, InOrderAt

\* The counters of the bounds.
LEMMA FinalCount ==
    ASSUME NEW u \in Used, NEW e, NEW clk
    PROVE  /\ [u EXCEPT !.send[e] = @ + 1, !.late = @ + Late(e, clk)].final = u.final
           /\ [u EXCEPT !.send[e] = @ + 2, !.late = @ + Late(e, clk)].final = u.final
           /\ [u EXCEPT !.late = @ + Late(e, clk)].final = u.final
           /\ [u EXCEPT !.close = @ + 1, !.late = @ + Late(e, clk)].final = u.final
           /\ [u EXCEPT !.unseq = @ + 1].final = u.final
           /\ [u EXCEPT !.restart = @ + 1].final = u.final
           /\ [u EXCEPT !.final = @ + 1].final = u.final + 1
BY Zenon DEF Used

-----------------------------------------------------------------------------
(* The steps of the specification.                                         *)

\* What reaches e is acceptable to it.
LEMMA ReceivedDelivers ==
    ASSUME IInv, DeliveryInv, NEW e \in End, NEW p \in net, p.src = Peer(e), NEW clk \in Clock
    PROVE  LET c == Received(e, p, clk)
           IN  /\ SoundCtx(c) /\ c.psid = procsid[e] /\ c.psid # 0
               /\ InqAlmostSequenced(c.f)
               /\ Window <= 2 => OrderCtx(c, rcvd[Peer(e)], Coming(e, rcvd[e]), rcvd[e])
               /\ \E m \in Modes(e) : Window <= 2 => FreshCtx(c, SentBy(e), topsid[e], m)
<1> DEFINE b == Ctx(e, clk)
<1>1. PICK m \in Modes(e) : Delivers(b, e, rcvd[e], m)
  BY CtxDelivers
<1>2. p.fs \in FrameSet /\ Seqno(p.fs) \in SeqId /\ p.kind \in {"data", "ack"}
  BY FrameTypes DEF IInv, TypeOK, Packet
<1>3. Window <= 2 => PacketInOrder(p, Peer(e))
  BY PeerIsEnd DEF DeliveryInv, InOrderAt
<1>4. Peer(Peer(e)) = e
  BY PeerIsEnd
<1>5. SentBy(e) \in SUBSET FrameSet /\ topsid[e] \in Nat
  BY SentByType
<1>6. CASE p.kind = "ack"
  <2> DEFINE d == ReceiveAck(b, Seqno(p.fs))
  <2>1. Received(e, p, clk) = d
    BY <1>6 DEF Received
  <2> HIDE DEF b
  <2>2. SoundCtx(d) /\ d.psid = b.psid
    BY <1>1, <1>2, ReceiveAckSound DEF Delivers
  <2>3. InqSequenced(d.f)
    BY <1>1, <1>2, ReceiveAckSequenced DEF Delivers
  <2>4. Window <= 2 => Has(rcvd[Peer(e)], Seqno(p.fs)[1], Seqno(p.fs)[2])
    BY <1>3, <1>6 DEF PacketInOrder, Seqno
  <2>5. Window <= 2 => OrderCtx(d, rcvd[Peer(e)], Coming(e, rcvd[e]), rcvd[e])
    BY <1>1, <1>2, <2>4, ReceiveAckOrder DEF Delivers
  <2>6. Window <= 2 => FreshCtx(d, SentBy(e), topsid[e], m)
    BY <1>1, <1>2, <1>5, <2>4, ReceiveAckFresh DEF Delivers, OrderCtx
  <2> HIDE DEF d
  <2> QED
    BY <1>1, <2>1, <2>2, <2>3, <2>5, <2>6 DEF Delivers, InqAlmostSequenced
<1>7. CASE p.kind # "ack"
  <2> DEFINE d == ReceiveData(b, p.fs)
  <2>1. Received(e, p, clk) = d
    BY <1>7 DEF Received
  <2> HIDE DEF b
  <2>2. SoundCtx(d) /\ d.psid = b.psid
    BY <1>1, <1>2, ReceiveDataSound DEF Delivers
  <2>3. InqAlmostSequenced(d.f)
    BY <1>1, <1>2, ReceiveDataSequenced DEF Delivers
  <2>4. Window <= 2 => Expected(p.fs, Coming(e, rcvd[e]))
    <3>1. p.fs.req # 0 => p.fs \in SentBy(Peer(e))
      BY <1>2, <1>7 DEF SentBy
    <3> QED
      BY <1>2, <1>3, <1>4, <1>7, <3>1 DEF PacketInOrder, Proper, Expected, Coming, InOrder
  <2>5. Window <= 2 => OrderCtx(d, rcvd[Peer(e)], Coming(e, rcvd[e]), rcvd[e])
    BY <1>1, <1>2, <2>4, ReceiveDataOrder DEF Delivers
  <2>6. Window <= 2 => FreshCtx(d, SentBy(e), topsid[e], m)
    BY <1>1, <1>2, <1>5, ReceiveDataFresh DEF Delivers, OrderCtx
  <2> HIDE DEF d
  <2> QED
    BY <1>1, <2>1, <2>2, <2>3, <2>5, <2>6 DEF Delivers
<1> QED
  BY <1>6, <1>7

\* What the application is given next is what it may be given.
LEMMA ReadDelivers ==
    ASSUME IInv, NEW e \in End, NEW m, NEW c, SoundCtx(c), c.psid = procsid[e], c.psid # 0,
           InqAlmostSequenced(c.f),
           Window <= 2 => /\ OrderCtx(c, rcvd[Peer(e)], Coming(e, rcvd[e]), rcvd[e])
                          /\ FreshCtx(c, SentBy(e), topsid[e], m)
                          /\ Complete(rcvd[e])
    PROVE  LET d  == IF c.f.ipend THEN Read(c) ELSE c
               RP == rcvd[e] \cup ToSet(ReadResult(c))
           IN  /\ Delivers(d, e, RP, m)
               /\ Window <= 2 => Complete(RP) /\ RP \subseteq rcvd[e] \cup SentBy(Peer(e))
<1> DEFINE d  == IF c.f.ipend THEN Read(c) ELSE c
           fs == Head(c.f.inq.items)
           RR == ToSet(ReadResult(c))
           RP == rcvd[e] \cup RR
<1>1. SoundCtx(d) /\ d.psid = c.psid
  BY ReadSound
<1>2. InqSequenced(d.f)
  BY ReadSequenced DEF InqAlmostSequenced
<1>3. c.f.inq.items \in Seq(FrameSet)
  BY CtxFields, FspeFields DEF SoundCtx
<1>4. \/ RR = {}
      \/ /\ c.f.inq.items # <<>> /\ fs.req # 0 /\ fs \in ToSet(c.f.inq.items)
         /\ fs \in FrameSet /\ RR = {fs}
  <2>1. CASE c.f.ipend /\ HeadReady(c.f.inq) /\ fs.req # 0
    <3>1. ReadResult(c) = <<fs>> /\ c.f.inq.items # <<>>
      BY <2>1 DEF ReadResult, HeadReady
    <3>2. fs \in ToSet(c.f.inq.items) /\ fs \in FrameSet
      BY <1>3, <3>1, LenProperties DEF ToSet
    <3> HIDE DEF fs
    <3>3. ToSet(<<fs>>) = {fs}
      BY DEF ToSet
    <3> QED
      BY <2>1, <3>1, <3>2, <3>3
  <2>2. CASE ~(c.f.ipend /\ HeadReady(c.f.inq) /\ fs.req # 0)
    BY <2>2, NothingInEmpty DEF ReadResult
  <2> QED
    BY <2>1, <2>2
<1>5. c.f.ipend /\ HeadReady(c.f.inq) /\ fs.req # 0 => fs \in RR
  <2>1. ASSUME c.f.ipend, HeadReady(c.f.inq), fs.req # 0
        PROVE  fs \in RR
    <3>1. ReadResult(c) = <<fs>>
      BY <2>1 DEF ReadResult
    <3> HIDE DEF fs
    <3>2. fs \in ToSet(<<fs>>)
      BY DEF ToSet
    <3> QED
      BY <3>1, <3>2
  <2> QED
    BY <2>1
<1> HIDE DEF fs, RR
<1>6. /\ \A x : InOrder(x, rcvd[e]) => InOrder(x, RP)
      /\ \A s, r : Has(rcvd[e], s, r) => Has(RP, s, r)
  BY Grow
<1>7. ASSUME Window <= 2
      PROVE  Complete(RP) /\ RP \subseteq rcvd[e] \cup SentBy(Peer(e))
  <2>1. ASSUME NEW x \in RR
        PROVE  InOrder(x, rcvd[e]) /\ x \in SentBy(Peer(e)) /\ x.req \in Nat
    BY <1>4, <1>7, <2>1 DEF OrderCtx, InqExpected, Expected, Coming, FrameSet
  <2>2. ASSUME NEW x \in RR, NEW r \in 1 .. x.req
        PROVE  Has(RP, x.sid, r)
    <3>1. CASE r = x.req
      BY <2>2, <3>1 DEF Has
    <3>2. CASE r # x.req
      <4>1. x.req \in Nat /\ x.req >= 2 /\ r \in 1 .. x.req - 1
        BY <2>1, <2>2, <3>2
      <4>2. PICK y \in rcvd[e] : y.sid = x.sid /\ y.req = x.req - 1
        BY <2>1, <4>1 DEF InOrder, Has
      <4>3. Has(rcvd[e], x.sid, r)
        BY <1>7, <4>1, <4>2 DEF Complete
      <4> QED
        BY <1>6, <4>3
    <3> QED
      BY <3>1, <3>2
  <2> QED
    BY <1>6, <1>7, <2>1, <2>2 DEF Complete
<1>8. ASSUME Window <= 2
      PROVE  OrderCtx(d, rcvd[Peer(e)], Coming(e, RP), RP)
  <2>1. rcvd[e] \subseteq RP
    OBVIOUS
  <2> HIDE DEF RP
  <2>2. OrderCtx(c, rcvd[Peer(e)], Coming(e, RP), RP)
    BY <1>8, <2>1, Grow
  <2>3. CASE ~c.f.ipend
    BY <2>2, <2>3
  <2>4. CASE c.f.ipend
    <3>1. \A x \in Coming(e, RP) : x.req # 0
      BY DEF Coming, InOrder
    <3>2. HeadReady(c.f.inq) /\ fs.req # 0 => Has(RP, fs.sid, fs.req)
      BY <1>5, <2>4 DEF Has, RP
    <3>3. OrderCtx(Read(c), rcvd[Peer(e)], Coming(e, RP), RP)
      BY <1>8, <2>2, <3>1, <3>2, ReadOrder DEF fs
    <3> QED
      BY <2>4, <3>3
  <2> QED
    BY <2>3, <2>4
<1>9. Window <= 2 => FreshCtx(d, SentBy(e), topsid[e], m)
  BY SentByType, ReadFresh DEF OrderCtx
<1> QED
  BY <1>1, <1>2, <1>7, <1>8, <1>9 DEF Delivers, RR

\* What e takes off its output queue because of an ACK was delivered.
LEMMA AckedByDelivered ==
    ASSUME IInv, DeliveryInv, NEW e \in End, NEW p \in net, p.src = Peer(e), Window <= 2,
           used.final = 0, run[e] # "down"
    PROVE  AckedDelivered(AckedBy(fspe[e].outq, p), rcvd[Peer(e)])
<1> DEFINE q   == fspe[e].outq
           seq == Seqno(p.fs)
           R   == rcvd[Peer(e)]
<1> SUFFICES ASSUME NEW x \in AckedBy(q, p), x.msg # CONNSHUT
             PROVE  x \in R
  BY DEF AckedDelivered
<1>1. /\ p.kind = "ack" /\ AckValid(q, seq) /\ x \in ToSet(q.items)
      /\ x \notin ToSet(AckThrough(q, seq).items)
  BY DEF AckedBy
<1>2. q \in Queue /\ seq \in SeqId
  BY FspeFields, FrameTypes DEF IInv, TypeOK, Packet
<1>3. /\ OutqDelivered(q, R) /\ Complete(R) /\ Has(R, seq[1], seq[2])
  BY <1>1, PeerIsEnd DEF DeliveryInv, InOrderAt, PacketInOrder, Seqno
<1>4. PICK m \in Modes(e) : Unused(q, procsid[e], SentBy(e), m)
  BY DEF DeliveryInv, FreshAt
<1>5. m = "fresh"
  <2>1. m \in {"fresh", "closing"}
    BY DEF Modes
  <2> QED
    BY <1>1, <1>4, <2>1 DEF Unused
<1>6. R \subseteq SentBy(e)
  BY <1>3, PeerIsEnd DEF IInv, TypeOK, Complete, InOrder, SentBy
<1> HIDE DEF q, seq, R
<1>7. q.items \in Seq(FrameSet) /\ q.nextseqno \in Nat \ {0} /\ Len(q.items) \in Nat
      /\ q.sessionid \in Nat /\ seq[2] \in Nat
  BY <1>2, LenProperties DEF Queue, SeqId
<1>8. PICK i \in 1 .. Len(q.items) : x = q.items[i]
  BY <1>1, <1>7, LenProperties DEF ToSet
<1>9. Base(q) \in Nat /\ Base(q) >= 1
  BY <1>3, <1>7 DEF OutqDelivered, Numbered, Base
<1>10. x.sid = q.sessionid /\ x.req = Base(q) + i - 1
  BY <1>3, <1>8 DEF OutqDelivered, Numbered
<1>11. x.req <= seq[2] /\ seq[1] = q.sessionid
  <2>1. ~(x.req > seq[2])
    BY <1>1, <1>2, <1>3, <1>8, AckThroughNumbered DEF OutqDelivered, AckValid
  <2> QED
    BY <1>1, <1>7, <1>9, <1>10, <2>1 DEF AckValid
<1>12. Has(R, x.sid, x.req)
  <2>1. PICK y \in R : y.sid = q.sessionid /\ y.req = seq[2]
    BY <1>3, <1>11 DEF Has
  <2>2. x.req \in 1 .. seq[2]
    BY <1>7, <1>9, <1>10, <1>11
  <2> QED
    BY <1>3, <1>10, <2>1, <2>2 DEF Complete
<1>13. PICK y \in R : y.sid = x.sid /\ y.req = x.req
  BY <1>12 DEF Has
<1>14. Past(y, q, procsid[e])
  BY <1>4, <1>5, <1>6 DEF Unused
<1>15. q.sessionid # 0
  BY <1>3, <1>7, <1>8, <1>9 DEF OutqDelivered, Numbered, Base
<1>16. ~(y.sid < EnqSession(q, procsid[e]))
  BY <1>7, <1>10, <1>13, <1>15 DEF EnqSession
<1> QED
  BY <1>1, <1>13, <1>14, <1>16 DEF Past

\* What a handler that does not end, stop or finalize anything leaves alone.
LEMMA Calm ==
    ASSUME NEW e, UNCHANGED <<run, procsid>>, used'.final = used.final,
           toack'[Peer(e)] = toack[Peer(e)], acked'[Peer(e)] = acked[Peer(e)]
    PROVE  Around(e) /\ Modes(e)' = Modes(e)
BY DEF Around, Modes

LEMMA CalmDelivers ==
    ASSUME IInv, DeliveryInv, NEW e \in End, NEW m \in Modes(e), NEW d,
           Delivers(d, e, rcvd[e], m), Finish(e, d),
           UNCHANGED <<run, procsid, toack, rcvd, acked>>, used'.final = used.final
    PROVE  DeliveryInv'
BY Calm, QuietDelivers, ToackDelivered

\* What the application reads it will have to ACK.
LEMMA ToackGrows ==
    ASSUME IInv, DeliveryInv, NEW e \in End, Window <= 2, NEW rr \in Seq(FrameSet),
           toack' = [toack EXCEPT ![e] = @ \o rr]
    PROVE  \A x \in ToSet(toack'[e]) : Has(rcvd[e] \cup ToSet(rr), x.sid, x.req)
<1>1. toack[e] \in Seq(FrameSet) /\ toack'[e] = toack[e] \o rr
  BY Types
<1>2. ToSet(toack'[e]) = ToSet(toack[e]) \cup ToSet(rr)
  BY <1>1, ConcatRange
<1>3. \A s, r : Has(rcvd[e], s, r) => Has(rcvd[e] \cup ToSet(rr), s, r)
  BY DEF Has
<1>4. \A x \in ToSet(rr) : Has(rcvd[e] \cup ToSet(rr), x.sid, x.req)
  BY DEF Has
<1> QED
  BY <1>2, <1>3, <1>4, ToackDelivered

LEMMA RecvDelivers ==
    ASSUME IInv, DeliveryInv, NEW e \in End, NEW p \in net, NEW clk \in Clock,
           RecvFrameSets(e, p, clk)
    PROVE  DeliveryInv'
<1> DEFINE c  == Received(e, p, clk)
           d  == IF c.f.ipend THEN Read(c) ELSE c
           RR == ToSet(ReadResult(c))
           RP == rcvd[e] \cup RR
           AA == AckedBy(fspe[e].outq, p)
<1>1. /\ p.src = Peer(e) /\ run[e] # "down" /\ Finish(e, d)
      /\ toack' = [toack EXCEPT ![e] = @ \o ReadResult(c)]
      /\ rcvd' = [rcvd EXCEPT ![e] = @ \cup ToSet(ReadResult(c))]
      /\ acked' = [acked EXCEPT ![e] = @ \cup AckedBy(fspe[e].outq, p)]
      /\ used' = [used EXCEPT !.late = @ + Late(e, clk)]
      /\ UNCHANGED <<run, procsid>>
  BY DEF RecvFrameSets
<1>2. /\ SoundCtx(c) /\ c.psid = procsid[e] /\ c.psid # 0 /\ InqAlmostSequenced(c.f)
      /\ Window <= 2 => OrderCtx(c, rcvd[Peer(e)], Coming(e, rcvd[e]), rcvd[e])
  BY <1>1, ReceivedDelivers
<1>3. PICK m \in Modes(e) : Window <= 2 => FreshCtx(c, SentBy(e), topsid[e], m)
  BY <1>1, ReceivedDelivers
<1>4. Window <= 2 => AckedDelivered(AA, rcvd[Peer(e)]) \/ used.final # 0
  BY <1>1, AckedByDelivered
<1> HIDE DEF c, AA
<1>5. Window <= 2 => Complete(rcvd[e])
  BY DEF DeliveryInv, InOrderAt
<1>6. /\ Delivers(d, e, RP, m)
      /\ Window <= 2 => Complete(RP) /\ RP \subseteq rcvd[e] \cup SentBy(Peer(e))
  BY <1>2, <1>3, <1>5, ReadDelivers
<1> HIDE DEF d
<1>7. ReadResult(c) \in Seq(FrameSet)
  BY <1>2, ReadResultType DEF SoundCtx
<1>8. /\ rcvd' = [rcvd EXCEPT ![e] = RP] /\ toack'[Peer(e)] = toack[Peer(e)]
      /\ acked'[Peer(e)] = acked[Peer(e)] /\ acked'[e] = acked[e] \cup AA
  BY <1>1, PeerIsEnd, Types DEF AA
<1>9. used'.final = used.final
  <2>1. used \in Used
    BY Types
  <2> QED
    BY <1>1, <2>1, FinalCount
<1>10. Around(e) /\ m \in Modes(e)'
  BY <1>1, <1>3, <1>8, <1>9, Calm
<1>11. Window <= 2 => \A x \in ToSet(toack'[e]) : Has(RP, x.sid, x.req)
  BY <1>1, <1>7, ToackGrows
<1>12. Window <= 2 /\ used'.final = 0 => AckedDelivered(acked'[e], rcvd[Peer(e)])
  BY <1>4, <1>8, <1>9 DEF DeliveryInv, FreshAt, AckedDelivered
<1>13. rcvd[e] \subseteq RP
  OBVIOUS
<1> HIDE DEF RP
<1>14. Window <= 2 => Gives(e, RP)
  BY <1>6, <1>11, <1>12, <1>13 DEF Gives
<1> QED
  BY <1>1, <1>6, <1>8, <1>10, <1>14, FinishDelivers

LEMMA ReadPendingDelivers ==
    ASSUME IInv, DeliveryInv, NEW e \in End, NEW clk \in Clock, ReadPending(e, clk)
    PROVE  DeliveryInv'
<1> DEFINE c  == Ctx(e, clk)
           RR == ToSet(ReadResult(c))
           RP == rcvd[e] \cup RR
<1>1. /\ fspe[e].ipend /\ Finish(e, Read(c))
      /\ toack' = [toack EXCEPT ![e] = @ \o ReadResult(c)]
      /\ rcvd' = [rcvd EXCEPT ![e] = @ \cup ToSet(ReadResult(c))]
      /\ used' = [used EXCEPT !.late = @ + Late(e, clk)]
      /\ UNCHANGED <<run, procsid, acked>>
  BY DEF ReadPending
<1>2. PICK m \in Modes(e) : Delivers(c, e, rcvd[e], m)
  BY CtxDelivers
<1>3. c.f.ipend
  BY <1>1, CtxKeeps DEF Same, SameQueues
<1> HIDE DEF c
<1>4. Window <= 2 => Complete(rcvd[e])
  BY DEF DeliveryInv, InOrderAt
<1>5. /\ Delivers(Read(c), e, RP, m)
      /\ Window <= 2 => Complete(RP) /\ RP \subseteq rcvd[e] \cup SentBy(Peer(e))
  BY <1>2, <1>3, <1>4, ReadDelivers DEF Delivers, InqAlmostSequenced
<1>6. ReadResult(c) \in Seq(FrameSet)
  BY <1>2, ReadResultType DEF Delivers, SoundCtx
<1>7. rcvd' = [rcvd EXCEPT ![e] = RP] /\ toack'[Peer(e)] = toack[Peer(e)]
  BY <1>1, PeerIsEnd, Types
<1>8. used'.final = used.final
  <2>1. used \in Used
    BY Types
  <2> QED
    BY <1>1, <2>1, FinalCount
<1>9. Around(e) /\ m \in Modes(e)'
  BY <1>1, <1>2, <1>7, <1>8, Calm
<1>10. Window <= 2 => \A x \in ToSet(toack'[e]) : Has(RP, x.sid, x.req)
  BY <1>1, <1>6, ToackGrows
<1>11. Window <= 2 /\ used'.final = 0 => AckedDelivered(acked'[e], rcvd[Peer(e)])
  BY <1>1, <1>8 DEF DeliveryInv, FreshAt
<1>12. rcvd[e] \subseteq RP
  OBVIOUS
<1> HIDE DEF RP
<1>13. Window <= 2 => Gives(e, RP)
  BY <1>5, <1>10, <1>11, <1>12 DEF Gives
<1> QED
  BY <1>1, <1>5, <1>7, <1>9, <1>13, FinishDelivers

LEMMA SendDelivers ==
    ASSUME IInv, DeliveryInv, NEW e \in End, NEW clk \in Clock,
           SendAReliableFs(e, clk) \/ SendReliableFs(e, clk)
    PROVE  DeliveryInv'
<1> DEFINE c == Ctx(e, clk)
           n == used.send[e] + 1
<1>1. n \in Nat /\ n + 1 \in Nat /\ used \in Used
  BY Types
<1>2. UNCHANGED <<run, procsid, toack, rcvd, acked>> /\ run[e] = "up"
  BY DEF SendAReliableFs, SendReliableFs, MaySend
<1>3. used'.final = used.final
  <2>1. \/ used' = [used EXCEPT !.send[e] = @ + 1, !.late = @ + Late(e, clk)]
        \/ used' = [used EXCEPT !.send[e] = @ + 2, !.late = @ + Late(e, clk)]
    BY DEF SendAReliableFs, SendReliableFs
  <2>2. /\ [used EXCEPT !.send[e] = @ + 1, !.late = @ + Late(e, clk)].final = used.final
        /\ [used EXCEPT !.send[e] = @ + 2, !.late = @ + Late(e, clk)].final = used.final
    BY <1>1, FinalCount
  <2> QED
    BY <2>1, <2>2
<1>4. PICK m \in Modes(e) : Delivers(c, e, rcvd[e], m)
  BY CtxDelivers
<1>5. m # "closing"
  BY <1>2, <1>4 DEF Modes
<1>6. CASE SendAReliableFs(e, clk)
  <2>1. Finish(e, Send1(c, n))
    BY <1>6 DEF SendAReliableFs
  <2> HIDE DEF c, n
  <2>2. Delivers(Send1(c, n), e, rcvd[e], m)
    BY <1>1, <1>4, <1>5, Send1Delivers
  <2> QED
    BY <1>2, <1>3, <1>4, <2>1, <2>2, CalmDelivers
<1>7. CASE SendReliableFs(e, clk)
  <2> DEFINE d == CASE InShutdown(c.f.state) -> c
                    [] ~InShutdown(c.f.state) /\ HasQSpace(c.f.outq, 2) ->
                         Xmit(Send1(Send1(c, n), n + 1))
                    [] OTHER -> Xmit(c)
  <2>1. Finish(e, d)
    BY <1>7 DEF SendReliableFs
  <2> HIDE DEF c, n
  <2>2. d = c \/ d = Xmit(c) \/ d = Xmit(Send1(Send1(c, n), n + 1))
    OBVIOUS
  <2> HIDE DEF d
  <2>3. Delivers(Send1(c, n), e, rcvd[e], m)
    BY <1>1, <1>4, <1>5, Send1Delivers
  <2>4. Delivers(Send1(Send1(c, n), n + 1), e, rcvd[e], m)
    BY <1>1, <1>5, <2>3, Send1Delivers
  <2>5. Delivers(d, e, rcvd[e], m)
    BY <1>4, <2>2, <2>4, XmitDelivers
  <2> QED
    BY <1>2, <1>3, <1>4, <2>1, <2>5, CalmDelivers
<1> QED
  BY <1>6, <1>7

LEMMA TimeoutFunDelivers ==
    ASSUME IInv, DeliveryInv, NEW e \in End, NEW clk \in Clock, TimeoutFun(e, clk)
    PROVE  DeliveryInv'
<1>1. PICK m \in Modes(e) : Delivers(Ctx(e, clk), e, rcvd[e], m)
  BY CtxDelivers
<1>2. Delivers(Xmit(Ctx(e, clk)), e, rcvd[e], m)
  BY <1>1, XmitDelivers
<1>3. used \in Used
  BY Types
<1>4. used'.final = used.final
  BY <1>3, FinalCount DEF TimeoutFun
<1> QED
  BY <1>1, <1>2, <1>4, CalmDelivers DEF TimeoutFun

LEMMA CloseConnDelivers ==
    ASSUME IInv, DeliveryInv, NEW clk \in Clock, CloseConn(clk)
    PROVE  DeliveryInv'
<1>1. "cma" \in End /\ used \in Used
  BY Types DEF End
<1>2. PICK m \in Modes("cma") : Delivers(Ctx("cma", clk), "cma", rcvd["cma"], m)
  BY <1>1, CtxDelivers
<1>3. Delivers(FsaShut(Ctx("cma", clk), "REQSHUTDOWN", NoSeq), "cma", rcvd["cma"], m)
  BY <1>1, <1>2, RequestShutdownDelivers
<1>4. used'.final = used.final
  BY <1>1, FinalCount DEF CloseConn
<1> QED
  BY <1>1, <1>2, <1>3, <1>4, CalmDelivers DEF CloseConn

\* Once an element has been finalized, nothing is said of its sequence numbers.
LEMMA AnyDelivers ==
    ASSUME NEW e, NEW RP, NEW m, NEW c, Delivers(c, e, RP, m)
    PROVE  Delivers(c, e, RP, "any")
BY DEF Delivers, FreshCtx, Unused

LEMMA NanoInitiateShutdownDelivers ==
    ASSUME IInv, DeliveryInv, NEW clk \in Clock, NanoInitiateShutdown(clk)
    PROVE  DeliveryInv'
<1> DEFINE c == Ctx("nano", clk)
           n == used.send["nano"] + 1
           d == CloseAll(Send1(c, n))
<1>1. "nano" \in End /\ n \in Nat /\ used \in Used
  BY Types DEF End
<1>2. /\ run["nano"] = "up" /\ Finish("nano", d)
      /\ run' = [run EXCEPT !["nano"] = "stopping"]
      /\ used' = [used EXCEPT !.send["nano"] = @ + 1, !.late = @ + Late("nano", clk)]
      /\ UNCHANGED <<procsid, toack, rcvd, acked>>
  BY DEF NanoInitiateShutdown
<1>3. PICK m \in Modes("nano") : Delivers(c, "nano", rcvd["nano"], m)
  BY <1>1, CtxDelivers
<1>4. c.tx = {} /\ SameQueues(fspe["nano"], c.f)
  BY <1>1, CtxKeeps
<1>5. Window <= 2 => c.f.outq.sessionid <= topsid["nano"]
  BY <1>1, <1>4 DEF DeliveryInv, FreshAt, Same, SameQueues
<1>6. m = IF used.final # 0 THEN "any" ELSE "fresh"
  BY <1>2, <1>3 DEF Modes
<1> HIDE DEF c, n
<1>7. m # "closing"
  BY <1>6
<1>8. Delivers(d, "nano", rcvd["nano"], m) \/ Delivers(d, "nano", rcvd["nano"], "closing")
  BY <1>1, <1>3, <1>4, <1>5, <1>7, CloseAllDelivers
<1> HIDE DEF d
<1>9. used'.final = used.final
  BY <1>1, <1>2, FinalCount
<1>10. run'["nano"] = "stopping" /\ run'[Peer("nano")] = run[Peer("nano")]
  BY <1>1, <1>2, Types, PeerIsEnd
<1>11. Around("nano")
  BY <1>2, <1>9, <1>10 DEF Around
<1>12. Modes("nano")' = IF used.final # 0 THEN {"any"} ELSE {"fresh", "closing"}
  BY <1>9, <1>10 DEF Modes
<1>13. \E k \in Modes("nano")' : Delivers(d, "nano", rcvd["nano"], k)
  BY <1>6, <1>8, <1>12, AnyDelivers
<1> QED
  BY <1>1, <1>2, <1>11, <1>13, QuietDelivers, ToackDelivered

LEMMA AckMessageDelivers ==
    ASSUME IInv, DeliveryInv, NEW e \in End, AckMessage(e)
    PROVE  DeliveryInv'
<1> DEFINE c   == Ctx(e, "early")
           fs  == Head(toack[e])
           seq == Seqno(fs)
           d   == AckSeqno(c, seq)
<1>1. toack[e] \in Seq(FrameSet) /\ toack[e] # <<>>
  BY Types DEF AckMessage
<1>2. fs \in FrameSet /\ fs \in ToSet(toack[e]) /\ seq \in SeqId
  BY <1>1, LenProperties, FrameTypes DEF ToSet
<1>3. PICK m \in Modes(e) : Delivers(c, e, rcvd[e], m)
  BY CtxDelivers DEF Clock
<1>4. /\ Finish(e, d) /\ toack' = [toack EXCEPT ![e] = Tail(@)]
      /\ UNCHANGED <<run, procsid, rcvd, acked, used>>
  BY DEF AckMessage
<1> HIDE DEF c, fs
<1>5. Window <= 2 => Has(rcvd[e], seq[1], seq[2])
  BY <1>2, ToackDelivered DEF Seqno
<1> HIDE DEF seq
<1>6. Delivers(d, e, rcvd[e], m)
  BY <1>2, <1>3, <1>5, AckSeqnoDelivers
<1> HIDE DEF d
<1>7. toack'[Peer(e)] = toack[Peer(e)] /\ toack'[e] = Tail(toack[e])
  BY <1>4, PeerIsEnd, Types
<1>8. ToSet(toack'[e]) \subseteq ToSet(toack[e])
  BY <1>1, <1>7, TailRange
<1>9. Around(e) /\ m \in Modes(e)'
  BY <1>3, <1>4, <1>7, Calm
<1> QED
  BY <1>4, <1>6, <1>8, <1>9, QuietDelivers, ToackDelivered

\* The shutdown timer, and the finalize timer, touch nothing else before they
\* close, or destroy, the element.
LEMMA ShutTimeoutDelivers ==
    ASSUME IInv, DeliveryInv, NEW e \in End, ShutTimeout(e)
    PROVE  DeliveryInv'
<1> DEFINE c == Ctx(e, "early")
           g == [c.f EXCEPT !.shuttimer = "fired"]
           d == [c EXCEPT !.f.shuttimer = "fired"]
           h == FsaQuiet(d, "SHUT_TO")
<1>1. PICK m \in Modes(e) : Delivers(c, e, rcvd[e], m)
  BY CtxDelivers DEF Clock
<1>2. Finish(e, h) /\ UNCHANGED <<run, procsid, toack, rcvd, acked, used>>
  BY DEF ShutTimeout
<1>3. c.f.shuttimer = "armed"
  BY CtxSound DEF Clock, ShutTimeout
<1> HIDE DEF c
<1>4. \A x : x = [c EXCEPT !.f.shuttimer = "fired"] =>
           SoundCtx(FsaQuiet(x, "SHUT_TO")) /\ FsaQuiet(x, "SHUT_TO").psid = c.psid
  BY <1>1, <1>3, ShutToSound DEF Delivers
<1>5. SoundCtx(h)
  BY <1>4, Zenon
<1>6. c \in Context /\ c.f \in Fspe /\ "fired" \in Timer /\ "SHUT_TO" \in Input
  BY <1>1, CtxFields DEF Delivers, SoundCtx, Timer, Input
<1>7. g \in Fspe /\ Same(c.f, g)
  BY <1>6, Zenon DEF Fspe, Same, SameQueues
<1>8. d = [c EXCEPT !.f = g]
  BY Zenon
<1> HIDE DEF g
<1>9. [c EXCEPT !.f = g] \in Context /\ [c EXCEPT !.f = g].f = g
      /\ [c EXCEPT !.f = g].psid = c.psid /\ [c EXCEPT !.f = g].tx = c.tx
  BY <1>6, <1>7, CtxFields
<1>10. d \in Context /\ d.f = g /\ d.psid = c.psid /\ d.tx = c.tx
  BY <1>8, <1>9, Zenon
<1> HIDE DEF d
<1>11. KeepsCtx(d, h)
  BY <1>6, <1>10, FsaQuietKeeps
<1> HIDE DEF h
<1>12. KeepsCtx(c, h)
  BY <1>6, <1>7, <1>10, <1>11, KeepsTransitive DEF KeepsCtx, Keeps
<1>13. Delivers(h, e, rcvd[e], m)
  BY <1>1, <1>5, <1>12, KeepsDelivers
<1> QED
  BY <1>1, <1>2, <1>13, CalmDelivers

LEMMA FinalizeTimerDelivers ==
    ASSUME IInv, DeliveryInv, NEW e \in End, FinalizeTimer(e)
    PROVE  DeliveryInv'
<1> DEFINE c == Ctx(e, "early")
           f == fspe[e]
           g == IF f.state = "NONE" THEN Destroy(f) ELSE [f EXCEPT !.finalizetimer = "fired"]
           d == [c EXCEPT !.f = g]
<1>1. PICK m \in Modes(e) : Delivers(c, e, rcvd[e], m)
  BY CtxDelivers DEF Clock
<1>2. c \in Context /\ SameQueues(f, c.f) /\ c.tx = {}
  BY <1>1, CtxKeeps DEF Clock, Delivers, SoundCtx
<1>3. f \in Fspe /\ Sound(f) /\ "fired" \in Timer
  BY DEF IInv, TypeOK, AllSound, Timer
<1>4. /\ Finish(e, d) /\ used' = [used EXCEPT !.final = @ + 1]
      /\ UNCHANGED <<run, procsid, toack, rcvd, acked>>
  BY DEF FinalizeTimer
<1>5. used'.final \in Nat /\ used'.final # 0
  <2>1. used \in Used /\ used.final \in Nat
    BY Types DEF Used
  <2>2. used'.final = used.final + 1
    BY <1>4, <2>1, FinalCount
  <2> QED
    BY <2>1, <2>2
<1>6. Around(e) /\ "any" \in Modes(e)'
  BY <1>4, <1>5 DEF Around, Modes
<1> HIDE DEF c, f
<1>7. /\ Destroy(f) \in Fspe /\ Sound(Destroy(f))
      /\ [f EXCEPT !.finalizetimer = "fired"] \in Fspe
      /\ Sound([f EXCEPT !.finalizetimer = "fired"])
      /\ Same(f, [f EXCEPT !.finalizetimer = "fired"])
  <2>1. Follows(f, [f EXCEPT !.finalizetimer = "fired"])
    BY <1>3, Touch
  <2> QED
    BY <1>3, <2>1, DestroySound, FollowsSound, SameFields DEF Follows
<1>8. g \in Fspe /\ Sound(g) /\ (g = Destroy(f) \/ Same(f, g))
  BY <1>7
<1> HIDE DEF g
<1>9. SoundCtx(d) /\ d.f = g /\ d.psid = c.psid /\ d.tx = c.tx
  BY <1>2, <1>8, CtxFields DEF SoundCtx
<1> HIDE DEF d
<1>10. CASE g = Destroy(f)
  <2>1. Window <= 2 => FreshCtx(d, SentBy(e), topsid[e], "any")
    BY <1>1, <1>2, <1>9 DEF Delivers, FreshCtx, Unused, SentData
  <2>2. Delivers(d, e, rcvd[e], "any")
    BY <1>1, <1>3, <1>9, <1>10, <2>1, DestroyDelivers
  <2> QED
    BY <1>4, <1>6, <2>2, QuietDelivers, ToackDelivered
<1>11. CASE Same(f, g)
  <2>1. SameQueues(c.f, d.f) /\ d.tx = c.tx
    BY <1>2, <1>9, <1>11 DEF Same, SameQueues
  <2>2. Delivers(d, e, rcvd[e], "any")
    BY <1>1, <1>9, <2>1, SameQueuesDelivers, AnyDelivers
  <2> QED
    BY <1>4, <1>6, <2>2, QuietDelivers, ToackDelivered
<1> QED
  BY <1>8, <1>10, <1>11

\* An unsequenced FrameSet is never a CONNSHUT, and uses no sequence frame.
LEMMA SendAFrameSetDelivers ==
    ASSUME IInv, DeliveryInv, NEW e \in End, SendAFrameSet(e)
    PROVE  DeliveryInv'
<1> DEFINE fs == [sid |-> 0, req |-> 0, msg |-> used.unseq + 1]
           p  == [src |-> e, kind |-> "data", fs |-> fs]
<1>1. fs.req = 0 /\ fs.msg # CONNSHUT
  BY Types DEF Used, CONNSHUT
<1>2. p.kind = "data" /\ p.fs = fs
  OBVIOUS
<1>3. net' = net \cup {p} /\ UNCHANGED <<run, fspe, procsid, topsid, toack, rcvd, acked>>
  BY DEF SendAFrameSet
<1>4. used'.final = used.final
  <2>1. used \in Used
    BY Types
  <2> QED
    BY <2>1, FinalCount DEF SendAFrameSet
<1> HIDE DEF fs, p
<1>5. Window <= 2 => \A x \in End : PacketInOrder(p, x)
  BY <1>1, <1>2 DEF PacketInOrder, Proper
<1>6. Window <= 2 => \A x \in End : \A y \in net' : y.src = x => PacketInOrder(y, x)
  BY <1>3, <1>5 DEF DeliveryInv, InOrderAt
<1>7. \A y, x : PacketInOrder(y, x)' = PacketInOrder(y, x)
  BY <1>3 DEF PacketInOrder
<1>8. \A x \in End : Undisturbed(x)
  BY <1>1, <1>2, <1>3, <1>4 DEF SentBy, Undisturbed
<1>9. Window <= 2 => \A x \in End : FreshAt(x)'
  BY <1>8, UndisturbedFresh DEF DeliveryInv
<1> QED
  BY <1>3, <1>6, <1>9 DEF DeliveryInv, InOrderAt, PacketInOrder

\* A process that ends forgets all, and one that starts has a session of its own;
\* what was delivered stays delivered.
LEMMA ForgetDelivers ==
    ASSUME IInv, DeliveryInv, NEW e \in End, fspe' = [fspe EXCEPT ![e] = NoFspe],
           toack' = [toack EXCEPT ![e] = <<>>], UNCHANGED <<rcvd, acked>>, net' \subseteq net,
           used'.final = used.final, run'[Peer(e)] = run[Peer(e)],
           procsid'[Peer(e)] = procsid[Peer(e)], topsid'[Peer(e)] = topsid[Peer(e)],
           procsid'[e] \in Nat, topsid'[e] \in Nat, topsid[e] <= topsid'[e],
           procsid[e] <= topsid[e] => procsid'[e] <= topsid'[e],
           run'[e] = "down" \/ (run'[e] = "up" /\ topsid[e] < procsid'[e])
    PROVE  DeliveryInv'
<1> DEFINE p == Peer(e)
<1>1. NoFspe.outq = NewQueue /\ NoFspe.inq = NewQueue /\ NoFspe.lastacksent = NoSeq
  BY DEF NoFspe
<1>2. /\ NewQueue.items = <<>> /\ NewQueue.nextseqno = 1 /\ NewQueue.isready = FALSE
      /\ NewQueue.sessionid = 0
  BY DEF NewQueue
<1>3. \A R : OutqDelivered(NoFspe.outq, R)
  BY <1>1, <1>2, EmptyOutq
<1>4. InqSequenced(NoFspe)
  BY <1>1, <1>2, NothingInEmpty DEF InqSequenced, HeadReady
<1>5. p \in End /\ p # e /\ Peer(p) = e /\ End = {e, p}
  BY PeerIsEnd
<1>6. \A x \in End : /\ fspe'[x] = IF x = e THEN NoFspe ELSE fspe[x]
                     /\ toack'[x] = IF x = e THEN <<>> ELSE toack[x]
  BY DEF IInv, TypeOK
<1>7. \A x \in End : InqSequenced(fspe'[x])
  BY <1>4, <1>6 DEF DeliveryInv
<1>8. ASSUME Window <= 2, NEW x \in End PROVE InOrderAt(x)'
  <2>1. InOrderAt(x)
    BY <1>8 DEF DeliveryInv
  <2>2. OutqDelivered(fspe'[x].outq, rcvd[Peer(x)])
    BY <1>3, <1>6, <2>1 DEF InOrderAt
  <2>3. /\ \A y \in ToSet(fspe'[x].inq.items) : Proper(y, rcvd[x])
        /\ \/ fspe'[x].lastacksent = NoSeq
           \/ Has(rcvd[x], fspe'[x].lastacksent[1], fspe'[x].lastacksent[2])
    BY <1>1, <1>2, <1>6, <2>1, NothingInEmpty DEF InOrderAt
  <2>4. \A y \in ToSet(toack'[x]) : Has(rcvd[x], y.sid, y.req)
    BY <1>6, <2>1, NothingInEmpty DEF InOrderAt
  <2> QED
    BY <2>1, <2>2, <2>3, <2>4 DEF InOrderAt, PacketInOrder
<1>9. ASSUME NEW x \in End PROVE SentBy(x)' \subseteq SentBy(x)
  <2>1. ToSet(fspe'[Peer(x)].inq.items) \subseteq ToSet(fspe[Peer(x)].inq.items)
    BY <1>1, <1>2, <1>6, PeerIsEnd, NothingInEmpty
  <2> QED
    BY <2>1 DEF SentBy
<1>10. ASSUME Window <= 2 PROVE FreshAt(p)'
  <2>1. FreshAt(p) /\ fspe'[p].outq = fspe[p].outq
    BY <1>5, <1>6, <1>10 DEF DeliveryInv
  <2>2. Undisturbed(p)
    BY <1>5, <1>9, <2>1 DEF Undisturbed
  <2> QED
    BY <2>1, <2>2, UndisturbedFresh
<1>11. ASSUME Window <= 2 PROVE FreshAt(e)'
  <2>1. FreshAt(e)
    BY <1>11 DEF DeliveryInv
  <2>2. SentBy(e) \subseteq FrameSet /\ topsid[e] \in Nat /\ fspe'[e].outq = NewQueue
    BY <1>1, <1>6, SentByType
  <2>3. \A x \in SentBy(e)' : x.sid \in Nat /\ x.sid <= topsid[e]
    BY <1>9, <2>1, <2>2 DEF FreshAt, FrameSet
  <2>4. \E m \in Modes(e)' : Unused(NewQueue, procsid'[e], SentBy(e)', m)
    <3>1. CASE used'.final # 0 \/ run'[e] = "down"
      <4>1. "any" \in Modes(e)'
        BY <3>1 DEF Modes
      <4> QED
        BY <4>1 DEF Unused
    <3>2. CASE ~(used'.final # 0 \/ run'[e] = "down")
      <4>1. "fresh" \in Modes(e)' /\ topsid[e] < procsid'[e]
        BY <3>2 DEF Modes
      <4>2. \A x \in SentBy(e)' : Past(x, NewQueue, procsid'[e])
        BY <1>2, <2>2, <2>3, <4>1 DEF Past, EnqSession
      <4> QED
        BY <4>1, <4>2 DEF Unused
    <3> QED
      BY <3>1, <3>2
  <2> QED
    BY <1>2, <2>1, <2>2, <2>3, <2>4 DEF FreshAt
<1> QED
  BY <1>5, <1>7, <1>8, <1>10, <1>11 DEF DeliveryInv

LEMMA QuitDelivers ==
    ASSUME IInv, DeliveryInv, NEW e \in End, Quit(e)
    PROVE  DeliveryInv'
<1>1. procsid[e] \in Nat /\ topsid[e] \in Nat
  BY DEF IInv, TypeOK
<1>2. run'[e] = "down" /\ run'[Peer(e)] = run[Peer(e)]
  BY Types, PeerIsEnd DEF Quit
<1>3. /\ fspe' = [fspe EXCEPT ![e] = NoFspe] /\ toack' = [toack EXCEPT ![e] = <<>>]
      /\ UNCHANGED <<procsid, topsid, net, rcvd, acked, used>>
  BY DEF Quit
<1>4. topsid[e] <= topsid'[e] /\ (procsid[e] <= topsid[e] => procsid'[e] <= topsid'[e])
  BY <1>1, <1>3
<1> QED
  BY <1>1, <1>2, <1>3, <1>4, ForgetDelivers

LEMMA RestartDelivers ==
    ASSUME IInv, DeliveryInv, NEW e \in End, Restart(e)
    PROVE  DeliveryInv'
<1>1. procsid \in [End -> Nat \ {0}] /\ topsid \in [End -> Nat \ {0}] /\ used \in Used
  BY Types DEF IInv, TypeOK
<1>2. /\ topsid' = [topsid EXCEPT ![e] = @ + 1]
      /\ procsid' = [procsid EXCEPT ![e] = topsid[e] + 1]
      /\ run' = [run EXCEPT ![e] = "up"]
      /\ fspe' = [fspe EXCEPT ![e] = NoFspe] /\ toack' = [toack EXCEPT ![e] = <<>>]
      /\ net' \subseteq net /\ used' = [used EXCEPT !.restart = @ + 1]
      /\ UNCHANGED <<rcvd, acked>>
  BY DEF Restart
<1>3. run'[e] = "up" /\ run'[Peer(e)] = run[Peer(e)]
  BY <1>2, Types, PeerIsEnd
<1>4. /\ procsid'[e] = topsid[e] + 1 /\ topsid'[e] = topsid[e] + 1
      /\ procsid'[Peer(e)] = procsid[Peer(e)] /\ topsid'[Peer(e)] = topsid[Peer(e)]
      /\ topsid[e] \in Nat
  BY <1>1, <1>2, PeerIsEnd
<1>5. used'.final = used.final
  BY <1>1, <1>2, FinalCount
<1>6. /\ procsid'[e] \in Nat /\ topsid'[e] \in Nat /\ topsid[e] <= topsid'[e]
      /\ procsid'[e] <= topsid'[e] /\ topsid[e] < procsid'[e]
  BY <1>4
<1> QED
  BY <1>2, <1>3, <1>4, <1>5, <1>6, ForgetDelivers

LEMMA LoseDelivers ==
    ASSUME IInv, DeliveryInv, NEW p \in net, Lose(p)
    PROVE  DeliveryInv'
<1>1. net' \subseteq net /\ UNCHANGED <<run, fspe, procsid, topsid, toack, rcvd, acked, used>>
  BY DEF Lose
<1>2. \A x \in End : Undisturbed(x)
  BY <1>1 DEF Undisturbed, SentBy
<1>3. Window <= 2 => \A x \in End : FreshAt(x)'
  BY <1>2, UndisturbedFresh DEF DeliveryInv
<1>4. Window <= 2 => \A x \in End : InOrderAt(x)'
  BY <1>1 DEF DeliveryInv, InOrderAt, PacketInOrder
<1> QED
  BY <1>1, <1>3, <1>4 DEF DeliveryInv

LEMMA UnchangedDelivers == IInv /\ DeliveryInv /\ UNCHANGED vars => DeliveryInv'
<1> SUFFICES ASSUME IInv, DeliveryInv, UNCHANGED vars PROVE DeliveryInv'
  OBVIOUS
<1>1. UNCHANGED <<run, fspe, procsid, topsid, net, toack, rcvd, acked, used>>
  BY DEF vars
<1>2. \A x \in End : Undisturbed(x)
  BY <1>1 DEF Undisturbed, SentBy
<1>3. Window <= 2 => \A x \in End : FreshAt(x)'
  BY <1>2, UndisturbedFresh DEF DeliveryInv
<1>4. Window <= 2 => \A x \in End : InOrderAt(x)'
  BY <1>1 DEF DeliveryInv, InOrderAt, PacketInOrder
<1> QED
  BY <1>1, <1>3, <1>4 DEF DeliveryInv

LEMMA InitDelivers == Init => DeliveryInv
<1> SUFFICES ASSUME Init PROVE DeliveryInv
  OBVIOUS
<1>1. NoFspe.outq = NewQueue /\ NoFspe.inq = NewQueue /\ NoFspe.lastacksent = NoSeq
  BY DEF NoFspe
<1>2. /\ NewQueue.items = <<>> /\ NewQueue.nextseqno = 1 /\ NewQueue.isready = FALSE
      /\ NewQueue.sessionid = 0
  BY DEF NewQueue
<1>3. \A R : OutqDelivered(NoFspe.outq, R)
  BY <1>1, <1>2, EmptyOutq
<1>4. InqSequenced(NoFspe)
  BY <1>1, <1>2, NothingInEmpty DEF InqSequenced, HeadReady
<1>5. net = {} /\ \A e \in End : /\ fspe[e] = NoFspe /\ toack[e] = <<>> /\ rcvd[e] = {}
                                 /\ acked[e] = {} /\ procsid[e] = 1 /\ topsid[e] = 1
  BY DEF Init
<1>6. ASSUME NEW e \in End PROVE InOrderAt(e)
  BY <1>1, <1>2, <1>3, <1>5, NothingInEmpty DEF InOrderAt, Complete
<1>7. ASSUME NEW e \in End PROVE FreshAt(e)
  <2>1. SentBy(e) = {}
    BY <1>1, <1>2, <1>5, PeerIsEnd, NothingInEmpty DEF SentBy
  <2>2. \E m \in Modes(e) : Unused(fspe[e].outq, procsid[e], SentBy(e), m)
    <3>1. \E m \in Modes(e) : m # "closing"
      BY DEF Modes
    <3> QED
      BY <2>1, <3>1 DEF Unused
  <2> QED
    BY <1>1, <1>2, <1>5, <2>1, <2>2 DEF FreshAt, AckedDelivered
<1> QED
  BY <1>4, <1>5, <1>6, <1>7 DEF DeliveryInv

LEMMA NextDelivers == IInv /\ DeliveryInv /\ [Next]_vars => DeliveryInv'
<1> SUFFICES ASSUME IInv, DeliveryInv, [Next]_vars PROVE DeliveryInv'
  OBVIOUS
<1>1. ASSUME NEW e \in End, NEW clk \in Clock,
             \/ SendAReliableFs(e, clk) \/ SendReliableFs(e, clk)
             \/ ReadPending(e, clk) \/ TimeoutFun(e, clk)
             \/ \E p \in net : RecvFrameSets(e, p, clk)
      PROVE  DeliveryInv'
  BY <1>1, SendDelivers, ReadPendingDelivers, TimeoutFunDelivers, RecvDelivers
<1>2. ASSUME NEW e \in End,
             SendAFrameSet(e) \/ AckMessage(e) \/ ShutTimeout(e) \/ FinalizeTimer(e)
      PROVE  DeliveryInv'
  BY <1>2, SendAFrameSetDelivers, AckMessageDelivers, ShutTimeoutDelivers,
     FinalizeTimerDelivers
<1>3. ASSUME NEW e \in End, Restart(e) PROVE DeliveryInv'
  BY <1>3, RestartDelivers
<1>4. ASSUME NEW clk \in Clock, CloseConn(clk) \/ NanoInitiateShutdown(clk)
      PROVE  DeliveryInv'
  BY <1>4, CloseConnDelivers, NanoInitiateShutdownDelivers
<1>5. CASE NanoFinalShutdown \/ ShutdownWhenOutdone
  BY <1>5, QuitDelivers DEF NanoFinalShutdown, ShutdownWhenOutdone, End
<1>6. CASE \E p \in net : Lose(p)
  BY <1>6, LoseDelivers
<1>7. CASE UNCHANGED vars
  BY <1>7, UnchangedDelivers
<1> QED
  BY <1>1, <1>2, <1>3, <1>4, <1>5, <1>6, <1>7 DEF Next

-----------------------------------------------------------------------------
(* The theorems.                                                           *)

LEMMA DeliveryInvariance == Spec => []DeliveryInv
BY InitDelivers, NextDelivers, Invariance, PTL DEF Spec

\* Whatever is sent and however it is reordered, no unsequenced FrameSet (a
\* heartbeat) waits in an input queue between two handlers: recvframesets reads
\* the one it has just received at once, so the sorted insertion of inqsorted
\* never compares a sequence frame that is not there.
THEOREM UnsequencedNeverWaits == Spec => []UnsequencedIsRead
<1>1. IInv /\ DeliveryInv => UnsequencedIsRead
  <2> SUFFICES ASSUME IInv, DeliveryInv, NEW e \in End,
                      NEW i \in DOMAIN fspe[e].inq.items
               PROVE  fspe[e].inq.items[i].req # 0
    BY DEF UnsequencedIsRead
  <2>1. fspe[e].inq.items[i] \in ToSet(fspe[e].inq.items)
    BY DEF ToSet
  <2> QED
    BY <2>1 DEF DeliveryInv, InqSequenced
<1> QED
  BY <1>1, Invariance, DeliveryInvariance, PTL

\* With the window of fsprotocol.h an application sees every session from its
\* first FrameSet and without a gap, for any number of FrameSets and whatever
\* the network loses, repeats and reorders, across shutdowns and restarts.  A
\* window of 3 or more would let a receiver adopt a session in its middle.
THEOREM DeliveryIsInOrder ==
    ASSUME Window <= 2
    PROVE  Spec => []DeliveredInOrder
<1>1. IInv /\ DeliveryInv => DeliveredInOrder
  <2> SUFFICES ASSUME IInv, DeliveryInv, NEW e \in End, NEW fs \in rcvd[e], fs.req > 1
               PROVE  \E fs0 \in rcvd[e] : fs0.sid = fs.sid /\ fs0.req = fs.req - 1
    BY DEF DeliveredInOrder
  <2>1. fs.req \in Nat
    BY DEF IInv, TypeOK, FrameSet
  <2>2. InOrder(fs, rcvd[e])
    BY DEF DeliveryInv, InOrderAt, Complete
  <2> QED
    BY <2>1, <2>2 DEF InOrder, Has
<1> QED
  BY <1>1, Invariance, DeliveryInvariance, PTL

\* What an ACK took off a sender's output queue was given to the application at
\* the other end, for any number of sessions, shutdowns and restarts and whatever
\* the network does, for as long as no finalize timer has fired.  Such a timer
\* destroys an FsProtoElem, and the next one starts again in the session of its
\* process: an ACK of the old session is then an ACK of FrameSets not yet sent.
THEOREM AckedMeansDelivered ==
    ASSUME Window <= 2
    PROVE  Spec => [](used.final = 0 => AckedWasDelivered)
<1>1. IInv /\ DeliveryInv => (used.final = 0 => AckedWasDelivered)
  BY DEF DeliveryInv, FreshAt, AckedDelivered, AckedWasDelivered
<1> QED
  BY <1>1, Invariance, DeliveryInvariance, PTL

-----------------------------------------------------------------------------
(* What points to an FsProtoElem that has been destroyed.                  *)

\* An element that does not exist is not on the unacked list, and no timer holds a
\* pointer to it.
Unlisted(f) ==
    ~f.exists => ~f.unacked /\ f.shuttimer # "armed" /\ f.finalizetimer # "armed"

\* No retransmission, shutdown or finalize timer fires for a destroyed FsProtoElem.
NoTimerOfDestroyed == \A e \in End : Unlisted(fspe[e])

LEMMA XmitExists ==
    ASSUME NEW c, SoundCtx(c)
    PROVE  Xmit(c).f.exists = c.f.exists
BY XmitKeeps DEF Keeps, Same, Reset

LEMMA Send1Exists ==
    ASSUME NEW c, SoundCtx(c), NEW msg \in Nat
    PROVE  Send1(c, msg).f.exists = c.f.exists
<1>1. CASE InShutdown(c.f.state)
  BY <1>1 DEF Send1
<1>2. CASE ~InShutdown(c.f.state)
  <2>1. PICK d : SoundCtx(d) /\ Send1(c, msg) = Xmit(d) /\ d.f.exists = c.f.exists
    BY <1>2, Send1Steps
  <2> QED
    BY <2>1, XmitExists
<1> QED
  BY <1>1, <1>2

LEMMA FsaShutExists ==
    ASSUME NEW c, SoundCtx(c), NEW i \in {"REQSHUTDOWN", "RCVSHUTDOWN"}, NEW seq \in SeqId
    PROVE  FsaShut(c, i, seq).f.exists = c.f.exists
<1>1. PICK c1, c2 : /\ SoundCtx(c1) /\ SoundCtx(c2)
                    /\ c1 = c \/ (i = "RCVSHUTDOWN" /\ c1 = AckSeqno(c, seq))
                    /\ c2 = c1 \/ c2 = Send1(c1, CONNSHUT)
                    /\ KeepsCtx(c2, FsaShut(c, i, seq))
  BY FsaShutSteps
<1>2. c1.f.exists = c.f.exists
  BY <1>1, AckSeqnoSteps
<1>3. c2.f.exists = c1.f.exists
  BY <1>1, Send1Exists DEF CONNSHUT
<1> QED
  BY <1>1, <1>2, <1>3 DEF KeepsCtx, Keeps, Same, Reset

LEMMA ReceivedExists ==
    ASSUME IInv, NEW e \in End, NEW p \in net, NEW clk \in Clock
    PROVE  SoundCtx(Received(e, p, clk)) /\ Received(e, p, clk).f.exists = TRUE
<1> DEFINE b == Ctx(e, clk)
<1>1. SoundCtx(b) /\ b.f.exists = TRUE
  BY CtxKeeps
<1>2. p.fs \in FrameSet /\ Seqno(p.fs) \in SeqId
  BY FrameTypes DEF IInv, TypeOK, Packet
<1>3. ReceiveAck(b, Seqno(p.fs)).f.exists = b.f.exists
  <2> HIDE DEF b
  <2>1. CASE ReceiveAck(b, Seqno(p.fs)) = b
    BY <2>1
  <2>2. CASE ReceiveAck(b, Seqno(p.fs)) # b
    <3>1. PICK d : /\ SoundCtx(d) /\ d.f.exists = b.f.exists
                   /\ \/ ReceiveAck(b, Seqno(p.fs)) = d \/ ReceiveAck(b, Seqno(p.fs)) = Xmit(d)
                      \/ KeepsCtx(d, ReceiveAck(b, Seqno(p.fs)))
      BY <1>1, <1>2, <2>2, ReceiveAckSteps
    <3> QED
      BY <3>1, XmitExists DEF KeepsCtx, Keeps, Same, Reset
  <2> QED
    BY <2>1, <2>2
<1>4. ReceiveData(b, p.fs).f.exists = b.f.exists
  <2> HIDE DEF b
  <2> DEFINE fs    == p.fs
             r     == InqSorted(b.f.inq, fs)
             ready == BecomesReady(r.q, fs)
  <2>1. PICK d : SoundCtx(d) /\ ReceiveData(b, fs) = Xmit(d) /\ d.f.exists = b.f.exists
    <3> HIDE DEF fs
    <3>1. \E d : /\ SoundCtx(d) /\ ReceiveData(b, fs) = Xmit(d)
                 /\ d.f.inq = [r.q EXCEPT !.isready = r.q.isready \/ ready]
                 /\ d.f.exists = b.f.exists
      BY <1>1, <1>2, ReceiveDataSteps DEF fs
    <3> QED
      BY <3>1
  <2> QED
    BY <2>1, XmitExists
<1>5. \/ Received(e, p, clk) = ReceiveAck(b, Seqno(p.fs))
      \/ Received(e, p, clk) = ReceiveData(b, p.fs)
  BY DEF Received
<1> HIDE DEF b
<1>6. Received(e, p, clk).f.exists = TRUE
  BY <1>1, <1>3, <1>4, <1>5
<1> QED
  BY <1>6, ReceivedSound

LEMMA ReadExists ==
    ASSUME NEW c, SoundCtx(c)
    PROVE  Read(c).f.exists = c.f.exists
<1>1. CASE ~HeadReady(c.f.inq)
  BY <1>1, ReadSteps, XmitExists
<1>2. CASE HeadReady(c.f.inq)
  <2> DEFINE fs == Head(c.f.inq.items)
  <2>1. PICK d1, d2 : /\ SoundCtx(d1) /\ SoundCtx(d2) /\ d1.f.exists = c.f.exists
                      /\ d2 = d1 \/ d2 = FsaShut(d1, "RCVSHUTDOWN", Seqno(fs))
                      /\ Read(c) = Xmit(d2)
    BY <1>2, ReadSteps
  <2>2. fs \in FrameSet
    BY <1>2, ReadSteps
  <2>3. Seqno(fs) \in SeqId
    BY <2>2, FrameTypes
  <2> HIDE DEF fs
  <2> QED
    BY <2>1, <2>3, FsaShutExists, XmitExists
<1> QED
  BY <1>1, <1>2

\* _fsprotocol_protoelem_destroy
LEMMA DestroyUnlists ==
    ASSUME NEW f \in Fspe, Sound(f)
    PROVE  Destroy(f) \in Fspe /\ Unlisted(Destroy(f))
<1> DEFINE r == Reinit(f)
           d == [NoFspe EXCEPT !.unacked = r.unacked, !.ipend = r.ipend,
                               !.shuttimer = r.shuttimer, !.finalizetimer = r.finalizetimer]
<1>1. r \in Fspe /\ r.unacked = FALSE /\ r.shuttimer = "off" /\ r.finalizetimer = "off"
  BY ReinitSound DEF Sound
<1>2. r.ipend \in BOOLEAN /\ r.finalizetimer \in Timer /\ r.shuttimer \in Timer
  BY <1>1, FspeFields
<1>3. Destroy(f) = d
  BY DEF Destroy
<1> HIDE DEF r
<1>4. NoFspe \in Fspe
  BY NoFspeSound
<1>5. d \in Fspe /\ d.unacked = FALSE /\ d.shuttimer = "off" /\ d.finalizetimer = "off"
  BY <1>1, <1>2, <1>4, Zenon DEF Fspe
<1> HIDE DEF d
<1> QED
  BY <1>3, <1>5 DEF Unlisted

LEMMA CloseAllUnlists ==
    ASSUME NEW c, SoundCtx(c), c.f.exists = TRUE
    PROVE  Unlisted(CloseAll(c).f)
<1>1. CASE CanCloseImmediately(c.f)
  <2>1. Destroy(c.f) \in Fspe /\ Unlisted(Destroy(c.f)) /\ c \in Context
    BY CtxFields, DestroyUnlists DEF SoundCtx
  <2>2. CloseAll(c) = [c EXCEPT !.f = Destroy(c.f)]
    BY <1>1, Zenon DEF CloseAll
  <2> QED
    BY <2>1, <2>2, CtxFields
<1>2. CASE ~CanCloseImmediately(c.f)
  <2>1. NoSeq \in SeqId
    BY DEF NoSeq, SeqId
  <2> QED
    BY <1>2, <2>1, FsaShutExists DEF CloseAll, Unlisted
<1> QED
  BY <1>1, <1>2

\* A handler leaves an element that exists, or nothing that points to it.
LEMMA FinishUnlisted ==
    ASSUME IInv, NoTimerOfDestroyed, NEW e \in End, NEW c, Finish(e, c), Unlisted(c.f)
    PROVE  NoTimerOfDestroyed'
<1>1. fspe' = [fspe EXCEPT ![e] = c.f] /\ fspe \in [End -> Fspe]
  BY DEF Finish, IInv, TypeOK
<1> SUFFICES ASSUME NEW x \in End PROVE Unlisted(fspe'[x])
  BY DEF NoTimerOfDestroyed, Unlisted
<1> QED
  BY <1>1 DEF NoTimerOfDestroyed

LEMMA ForgetUnlisted ==
    ASSUME IInv, NoTimerOfDestroyed, NEW e \in End, fspe' = [fspe EXCEPT ![e] = NoFspe]
    PROVE  NoTimerOfDestroyed'
<1>1. fspe \in [End -> Fspe]
  BY DEF IInv, TypeOK
<1>2. Unlisted(NoFspe)
  BY DEF Unlisted, NoFspe
<1> SUFFICES ASSUME NEW x \in End PROVE Unlisted(fspe'[x])
  BY DEF NoTimerOfDestroyed, Unlisted
<1> QED
  BY <1>1, <1>2 DEF NoTimerOfDestroyed

LEMMA NextUnlisted == IInv /\ NoTimerOfDestroyed /\ [Next]_vars => NoTimerOfDestroyed'
<1> SUFFICES ASSUME IInv, NoTimerOfDestroyed, [Next]_vars PROVE NoTimerOfDestroyed'
  OBVIOUS
<1>0. ASSUME UNCHANGED fspe PROVE NoTimerOfDestroyed'
  BY <1>0 DEF NoTimerOfDestroyed, Unlisted
<1>1. ASSUME NEW e \in End, NEW clk \in Clock
      PROVE  /\ SoundCtx(Ctx(e, clk)) /\ Ctx(e, clk).f.exists = TRUE
             /\ used.send[e] + 1 \in Nat
  <2>1. SoundCtx(Ctx(e, clk)) /\ Ctx(e, clk).f.exists = TRUE
    BY CtxKeeps
  <2>2. used.send[e] \in Nat
    BY Types
  <2>3. used.send[e] + 1 \in Nat
    BY <2>2
  <2> QED
    BY <2>1, <2>3
<1>2. \A f : f.exists = TRUE => Unlisted(f)
  BY DEF Unlisted
<1>3. ASSUME NEW e \in End, NEW clk \in Clock, SendAReliableFs(e, clk)
      PROVE  NoTimerOfDestroyed'
  <2>1. Finish(e, Send1(Ctx(e, clk), used.send[e] + 1))
    BY <1>3 DEF SendAReliableFs
  <2>2. Send1(Ctx(e, clk), used.send[e] + 1).f.exists = TRUE
    BY <1>1, Send1Exists
  <2> QED
    BY <1>2, <2>1, <2>2, FinishUnlisted
<1>4. ASSUME NEW e \in End, NEW clk \in Clock, SendReliableFs(e, clk)
      PROVE  NoTimerOfDestroyed'
  <2> DEFINE c == Ctx(e, clk)
             m == used.send[e] + 1
             d == Send1(Send1(c, m), m + 1)
             r == CASE InShutdown(c.f.state) -> c
                    [] ~InShutdown(c.f.state) /\ HasQSpace(c.f.outq, 2) -> Xmit(d)
                    [] OTHER -> Xmit(c)
  <2>1. Finish(e, r)
    BY <1>4 DEF SendReliableFs
  <2>2. SoundCtx(c) /\ c.f.exists = TRUE /\ m \in Nat /\ m + 1 \in Nat
    <3>1. SoundCtx(c) /\ c.f.exists = TRUE /\ m \in Nat
      BY <1>1
    <3> HIDE DEF c, m
    <3> QED
      BY <3>1
  <2>3. r \in {c, Xmit(d), Xmit(c)}
    <3> HIDE DEF c, d
    <3> QED
      OBVIOUS
  <2> HIDE DEF c, m, r
  <2>4. SoundCtx(Send1(c, m)) /\ Send1(c, m).f.exists = TRUE
    BY <2>2, Send1Sound, Send1Exists
  <2>5. SoundCtx(d) /\ d.f.exists = TRUE
    BY <2>2, <2>4, Send1Sound, Send1Exists
  <2> HIDE DEF d
  <2>6. Xmit(d).f.exists = TRUE /\ Xmit(c).f.exists = TRUE
    BY <2>2, <2>5, XmitExists
  <2> QED
    BY <1>2, <2>1, <2>2, <2>6, <2>3, FinishUnlisted
<1>5. ASSUME NEW e \in End, NEW clk \in Clock, ReadPending(e, clk)
      PROVE  NoTimerOfDestroyed'
  <2>1. Finish(e, Read(Ctx(e, clk)))
    BY <1>5 DEF ReadPending
  <2>2. Read(Ctx(e, clk)).f.exists = TRUE
    BY <1>1, ReadExists
  <2> QED
    BY <1>2, <2>1, <2>2, FinishUnlisted
<1>6. ASSUME NEW e \in End, NEW clk \in Clock, TimeoutFun(e, clk)
      PROVE  NoTimerOfDestroyed'
  <2>1. Finish(e, Xmit(Ctx(e, clk)))
    BY <1>6 DEF TimeoutFun
  <2>2. Xmit(Ctx(e, clk)).f.exists = TRUE
    BY <1>1, XmitExists
  <2> QED
    BY <1>2, <2>1, <2>2, FinishUnlisted
<1>7. ASSUME NEW e \in End, NEW clk \in Clock, NEW p \in net, RecvFrameSets(e, p, clk)
      PROVE  NoTimerOfDestroyed'
  <2> DEFINE c == Received(e, p, clk)
  <2>1. Finish(e, IF c.f.ipend THEN Read(c) ELSE c)
    BY <1>7 DEF RecvFrameSets
  <2>2. SoundCtx(c) /\ c.f.exists = TRUE
    BY ReceivedExists
  <2> HIDE DEF c
  <2>3. (IF c.f.ipend THEN Read(c) ELSE c).f.exists = TRUE
    BY <2>2, ReadExists
  <2> QED
    BY <1>2, <2>1, <2>3, FinishUnlisted
<1>8. ASSUME NEW e \in End, AckMessage(e)
      PROVE  NoTimerOfDestroyed'
  <2> DEFINE c == Ctx(e, "early")
             s == Seqno(Head(toack[e]))
  <2>1. Finish(e, AckSeqno(c, s)) /\ toack[e] # <<>>
    BY <1>8 DEF AckMessage
  <2>2. SoundCtx(c) /\ c.f.exists = TRUE
    BY <1>1 DEF Clock
  <2>3. s \in SeqId
    <3>1. toack[e] \in Seq(FrameSet)
      BY Types
    <3>2. Head(toack[e]) \in FrameSet
      BY <2>1, <3>1
    <3> QED
      BY <3>2, FrameTypes
  <2> HIDE DEF c, s
  <2>4. AckSeqno(c, s).f.exists = TRUE
    BY <2>2, <2>3, AckSeqnoSteps
  <2> QED
    BY <1>2, <2>1, <2>4, FinishUnlisted
<1>9. ASSUME NEW e \in End, ShutTimeout(e)
      PROVE  NoTimerOfDestroyed'
  <2> DEFINE c == Ctx(e, "early")
             g == [c.f EXCEPT !.shuttimer = "fired"]
             d == [c EXCEPT !.f = g]
  <2>1. Finish(e, FsaQuiet([c EXCEPT !.f.shuttimer = "fired"], "SHUT_TO"))
    BY <1>9 DEF ShutTimeout
  <2>2. c \in Context /\ c.f \in Fspe /\ c.f.exists = TRUE /\ "fired" \in Timer
    BY <1>1, CtxFields DEF Clock, SoundCtx, Timer
  <2>3. [c EXCEPT !.f.shuttimer = "fired"] = d
    BY Zenon
  <2> HIDE DEF c
  <2>4. g \in Fspe /\ g.exists = TRUE
    BY <2>2, Zenon DEF Fspe
  <2> HIDE DEF g
  <2>5. d \in Context /\ d.f = g
    BY <2>2, <2>4, CtxFields
  <2> HIDE DEF d
  <2>6. FsaQuiet(d, "SHUT_TO").f.exists = TRUE
    BY <2>4, <2>5, FsaQuietKeeps DEF KeepsCtx, Keeps, Same, Reset, Input
  <2> QED
    BY <1>2, <2>1, <2>3, <2>6, FinishUnlisted
<1>10. ASSUME NEW e \in End, FinalizeTimer(e)
       PROVE  NoTimerOfDestroyed'
  <2> DEFINE c == Ctx(e, "early")
             f == fspe[e]
             g == IF f.state = "NONE" THEN Destroy(f) ELSE [f EXCEPT !.finalizetimer = "fired"]
  <2>1. Finish(e, [c EXCEPT !.f = g]) /\ f.finalizetimer = "armed"
    BY <1>10 DEF FinalizeTimer
  <2>2. f \in Fspe /\ Sound(f) /\ f.exists /\ c \in Context /\ "fired" \in Timer
    BY <1>1, <2>1 DEF IInv, TypeOK, AllSound, NoTimerOfDestroyed, Unlisted, Timer, Clock, SoundCtx
  <2> HIDE DEF f, c
  <2>3. Destroy(f) \in Fspe /\ Unlisted(Destroy(f))
    BY <2>2, DestroyUnlists
  <2>4. [f EXCEPT !.finalizetimer = "fired"] \in Fspe
        /\ [f EXCEPT !.finalizetimer = "fired"].exists = f.exists
    BY <2>2, Zenon DEF Fspe
  <2>5. g \in Fspe /\ Unlisted(g)
    BY <2>2, <2>3, <2>4 DEF Unlisted
  <2> HIDE DEF g
  <2>6. [c EXCEPT !.f = g].f = g
    BY <2>2, <2>5, CtxFields
  <2> QED
    BY <2>1, <2>5, <2>6, FinishUnlisted
<1>11. ASSUME NEW clk \in Clock, CloseConn(clk)
       PROVE  NoTimerOfDestroyed'
  <2>1. Finish("cma", FsaShut(Ctx("cma", clk), "REQSHUTDOWN", NoSeq))
    BY <1>11 DEF CloseConn
  <2>2. "cma" \in End /\ NoSeq \in SeqId
    BY DEF End, NoSeq, SeqId
  <2>3. FsaShut(Ctx("cma", clk), "REQSHUTDOWN", NoSeq).f.exists = TRUE
    BY <1>1, <2>2, FsaShutExists
  <2> QED
    BY <1>2, <2>1, <2>2, <2>3, FinishUnlisted
<1>12. ASSUME NEW clk \in Clock, NanoInitiateShutdown(clk)
       PROVE  NoTimerOfDestroyed'
  <2> DEFINE c == Ctx("nano", clk)
             d == Send1(c, used.send["nano"] + 1)
  <2>1. Finish("nano", CloseAll(d)) /\ "nano" \in End
    BY <1>12 DEF NanoInitiateShutdown, End
  <2>2. SoundCtx(d) /\ d.f.exists = TRUE
    BY <1>1, <2>1, Send1Sound, Send1Exists
  <2> HIDE DEF d
  <2> QED
    BY <2>1, <2>2, CloseAllUnlists, FinishUnlisted
<1>13. ASSUME NEW e \in End, Restart(e) \/ Quit(e)
       PROVE  NoTimerOfDestroyed'
  BY <1>13, ForgetUnlisted DEF Restart, Quit
<1>14. ASSUME \/ \E e \in End : SendAFrameSet(e)
              \/ \E p \in net : Lose(p)
              \/ UNCHANGED vars
       PROVE  NoTimerOfDestroyed'
  BY <1>0, <1>14 DEF SendAFrameSet, Lose, vars
<1>15. CASE NanoFinalShutdown \/ ShutdownWhenOutdone
  BY <1>13, <1>15 DEF NanoFinalShutdown, ShutdownWhenOutdone, End
<1> QED
  BY <1>3, <1>4, <1>5, <1>6, <1>7, <1>8, <1>9, <1>10, <1>11, <1>12, <1>13, <1>14, <1>15
  DEF Next

\* A destroyed FsProtoElem is not on the list of connections that are retransmitted,
\* and no timer fires for it, whatever was sent, lost, closed or restarted: the part of
\* DestroyedIsUnlisted that is about timers.  (It may be left on ipend, with reordered
\* packets of an old session; that it is not without them is checked by TLC.)
THEOREM DestroyedHasNoTimer == Spec => []NoTimerOfDestroyed
<1>1. Init => NoTimerOfDestroyed
  BY DEF Init, NoTimerOfDestroyed, Unlisted, NoFspe
<1> QED
  BY <1>1, NextUnlisted, Invariance, PTL DEF Spec

\* What arrived is not forgotten: a connection whose next FrameSet can be read is on
\* ipend, for any window and any behaviour of the network, with no proviso.
THEOREM NothingReadableIsForgotten == Spec => []ReadableIsListed
<1>1. IInv /\ DeliveryInv => ReadableIsListed
  BY DEF DeliveryInv, InqSequenced, ReadableIsListed
<1> QED
  BY <1>1, Invariance, DeliveryInvariance, PTL
=============================================================================
