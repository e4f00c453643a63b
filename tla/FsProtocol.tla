----------------------------- MODULE FsProtocol -----------------------------
(***************************************************************************)
(* The reliable FrameSet protocol (clientlib/fsprotocol.c) on the          *)
(* connection between one nanoprobe and the CMA: each end's FsProtoElem,   *)
(* the parent FsProtocol's unacked and ipend lists (membership of this     *)
(* connection), its three timers, and the UDP network between the ends.    *)
(*                                                                         *)
(* A handler of the code runs to completion in the GLib main loop.  It is  *)
(* one action here, built from functions on a context: the FsProtoElem the *)
(* C functions share through a pointer, the FrameSets handed to the socket *)
(* so far, and what the clock says of this connection's timers.            *)
(***************************************************************************)
EXTENDS FsQueue

CONSTANTS
    Window,       \* FSPROTO_WINDOWSIZE (2 in fsprotocol.h)
    StalePackets, \* TRUE: a packet of a session its sender has left may still arrive
    Senders,      \* the ends whose application sends reliably
    MaxSend,      \* bound: FrameSets each of them sends
    MaxSession,   \* bound: the highest session id FrameSets are sent in
    MaxUnseq,     \* bound: unsequenced FrameSets, both ends together
    MaxLate,      \* bound: ACK timeouts that close a connection, both ends together
    MaxClose,     \* bound: closeconn requests of the applications
    MayStop,      \* TRUE: the nanoprobe may be told to shut down
    MaxFinal,     \* bound: FsProtoElems destroyed by their finalize timer
    MaxRestart,   \* bound: process restarts
    Lossy         \* TRUE: the network may lose packets

ASSUME WindowAssumption == Window \in Nat \ {0}
ASSUME SwitchAssumption == {StalePackets, MayStop, Lossy} \subseteq BOOLEAN

VARIABLES
    run,      \* [End -> "up", "stopping" (nanoprobe shutdown) or "down"]
    connected,\* nano_connected: the nanoprobe has its configuration from the CMA
    fspe,     \* [End -> the FsProtoElem of that end]
    procsid,  \* [End -> the process's _sessionId]
    topsid,   \* [End -> the highest session id the end ever had]
    net,      \* packets in flight: a set, so any may be reordered or delivered twice
    toack,    \* [End -> FrameSets read by the application, not yet ACKed by it]
    rcvd,     \* history: [End -> FrameSets the application has been given]
    acked,    \* history: [End -> FrameSets that an ACK removed from outq]
    used      \* how much of each bound has been used

vars == <<run, connected, fspe, procsid, topsid, net, toack, rcvd, acked, used>>

End     == {"cma", "nano"}
Peer(e) == IF e = "cma" THEN "nano" ELSE "cma"

-----------------------------------------------------------------------------
(* The finite state automaton: nextstates[][] and actions[][].             *)

State == {"NONE", "INIT", "UP", "SHUT1", "SHUT2", "SHUT3"}
Input == {"GOTSTART", "REQSEND", "REQSHUTDOWN", "RCVSHUTDOWN",
          "ACKTIMEOUT", "OUTALLDONE", "SHUT_TO"}

InShutdown(s) == s \in {"SHUT1", "SHUT2", "SHUT3"}

NextState(s, i) ==
    CASE i = "GOTSTART"    -> IF s = "NONE" THEN "UP" ELSE s
      [] i = "REQSEND"     -> IF s = "NONE" THEN "INIT" ELSE s
      [] i = "REQSHUTDOWN" -> IF s \in {"INIT", "UP"} THEN "SHUT1" ELSE s
      [] i = "RCVSHUTDOWN" -> IF s = "SHUT3" THEN "NONE" ELSE "SHUT2"
      [] i = "ACKTIMEOUT"  -> IF s = "UP" THEN "UP" ELSE "NONE"
      [] i = "OUTALLDONE" /\ s = "INIT"  -> "UP"
      [] i = "OUTALLDONE" /\ s = "SHUT1" -> "SHUT3"
      [] i = "OUTALLDONE" /\ s = "SHUT2" -> "NONE"
      [] i = "OUTALLDONE" /\ s \in {"NONE", "UP", "SHUT3"} -> s
      [] i = "SHUT_TO"     -> IF InShutdown(s) THEN "NONE" ELSE s

\* The actions with an effect; A_OOPS, A_DEBUG and A_ACKTO only write to the log.
Actions(s, i) ==
    CASE i = "REQSHUTDOWN" /\ s = "NONE"             -> {"CLOSE"}
      [] i = "REQSHUTDOWN" /\ s \in {"INIT", "UP"}   -> {"SNDSHUT", "TIMER"}
      [] i = "RCVSHUTDOWN" /\ s = "NONE"             -> {"SNDSHUT", "TIMER"}
      [] i = "RCVSHUTDOWN" /\ s \in {"INIT", "UP"}   -> {"ACKME", "SNDSHUT", "TIMER"}
      [] i = "RCVSHUTDOWN" /\ s \in {"SHUT1", "SHUT2"} -> {"ACKME"}
      [] i = "RCVSHUTDOWN" /\ s = "SHUT3"            -> {"ACKME", "CLOSE", "NOTIME"}
      [] i = "ACKTIMEOUT" /\ s = "INIT"              -> {"CLOSE"}
      [] i = "ACKTIMEOUT" /\ InShutdown(s)           -> {"CLOSE", "NOTIME"}
      [] i = "OUTALLDONE" /\ s = "SHUT2"             -> {"CLOSE", "NOTIME"}
      [] i = "SHUT_TO" /\ InShutdown(s)              -> {"CLOSE"}
      [] OTHER                                       -> {}

-----------------------------------------------------------------------------
(* The FsProtoElem and the context of a handler.                           *)

\* A GLib source id field: 0, a source that will fire, or one that has fired
\* (the field keeps the number of a source that is gone).
Timer == {"off", "armed", "fired"}

\* nextrexmit and acktimeout are times; what matters is whether they are set.
Fspe == [exists : BOOLEAN, state : State, outq : Queue, inq : Queue,
         lastacksent : SeqId, lastseqsent : SeqId,
         nextrexmit : BOOLEAN, acktimeout : BOOLEAN,
         shuttimer : Timer, finalizetimer : Timer, shutdown_complete : BOOLEAN,
         unacked : BOOLEAN, ipend : BOOLEAN]

NoFspe == [exists |-> FALSE, state |-> "NONE", outq |-> NewQueue, inq |-> NewQueue,
           lastacksent |-> NoSeq, lastseqsent |-> NoSeq,
           nextrexmit |-> FALSE, acktimeout |-> FALSE,
           shuttimer |-> "off", finalizetimer |-> "off", shutdown_complete |-> FALSE,
           unacked |-> FALSE, ipend |-> FALSE]

\* A packet: a FrameSet, or an ACK carrying the sequence frame it acknowledges.
Packet == [src : End, kind : {"data", "ack"}, fs : FrameSet]

Data(fs)  == [kind |-> "data", fs |-> fs]
Ack(seq)  == [kind |-> "ack", fs |-> [sid |-> seq[1], req |-> seq[2], msg |-> CONNSHUT]]

\* "early": now <= nextrexmit; "due": past nextrexmit; "late": past acktimeout too.
Clock == {"early", "due", "late"}

Context == [f : Fspe, psid : Nat, clk : Clock,
            tx : SUBSET [kind : {"data", "ack"}, fs : FrameSet]]

\* _fsprotocol_addconn: the handlers create the FsProtoElem they do not find.
AddConn(f) == [f EXCEPT !.exists = TRUE]

Ctx(e, clk) == [f |-> AddConn(fspe[e]), psid |-> procsid[e], clk |-> clk, tx |-> {}]

Transmit(c, frames) == [c EXCEPT !.tx = @ \cup frames]

\* Mutant: the finalize timer survives a reset.
StopTimersButFinalize(f) == [f EXCEPT !.shuttimer = "off"]

StopTimers(f) == [f EXCEPT !.shuttimer = "off", !.finalizetimer = "off"]

\* Mutant: sequence numbers restart at 0.
FirstSeqnoIsZero == 0

FirstSeqno == 1

\* _fsprotocol_fspe_reinit.  An element with an empty inq stays on ipend.
Reinit(f) ==
    [StopTimers(f) EXCEPT
        !.unacked = @ /\ f.outq.items = <<>>,
        !.outq = [items |-> <<>>, nextseqno |-> FirstSeqno,
                  sessionid |-> IF @.sessionid = 0 THEN 0 ELSE @.sessionid + 1,
                  isready |-> FALSE],
        !.ipend = @ /\ f.inq.items = <<>>,
        !.inq = [items |-> <<>>, nextseqno |-> FirstSeqno, sessionid |-> 0,
                 isready |-> @.isready /\ @.items = <<>>],
        !.lastacksent = NoSeq, !.lastseqsent = NoSeq,
        !.nextrexmit = FALSE, !.acktimeout = FALSE,
        !.state = "NONE", !.shutdown_complete = FALSE]

\* Mutants: A_CLOSE that resets nothing / that does not report its completion.
CloseWithoutReset(f) == [f EXCEPT !.shutdown_complete = TRUE, !.finalizetimer = "armed"]
CloseUnreported(f)   == [Reinit(f) EXCEPT !.finalizetimer = "armed"]

\* A_CLOSE
Close(f) == [Reinit(f) EXCEPT !.shutdown_complete = TRUE, !.finalizetimer = "armed"]

\* _fsprotocol_protoelem_destroy: what may be left is the parent's lists and
\* GLib sources that point to the element.
Destroy(f) ==
    LET r == Reinit(f)
    IN  [NoFspe EXCEPT !.unacked = r.unacked, !.ipend = r.ipend,
                       !.shuttimer = r.shuttimer, !.finalizetimer = r.finalizetimer]

-----------------------------------------------------------------------------
(* The functions the handlers call.                                        *)

\* Mutant: the shutdown timer is never started.
ShutTimerNeverRuns(t, acts) == IF "NOTIME" \in acts THEN "off" ELSE t

\* A_TIMER and A_NOTIME
ShutTimer(t, acts) ==
    CASE "TIMER" \in acts /\ t = "off" -> "armed"
      [] "NOTIME" \in acts             -> "off"
      [] OTHER                         -> t

\* The end of _fsprotocol_fsa, entered in state s: timers, close, new state.
FsaFinish(c, s, i) ==
    LET acts == Actions(s, i)
        f1   == [c.f EXCEPT !.shuttimer = ShutTimer(@, acts)]
        f2   == IF "CLOSE" \in acts THEN Close(f1) ELSE f1
    IN  [c EXCEPT !.f = [f2 EXCEPT !.state = NextState(s, i)]]

\* _fsprotocol_fsa for an input none of whose cells sends or ACKs anything.
FsaQuiet(c, i) == FsaFinish(c, c.f.state, i)

\* Mutant: the window counts the FrameSets awaiting an ACK.
UnsentInWindow(f) ==
    {i \in DOMAIN f.outq.items : i <= Window /\ SeqLess(f.lastseqsent, Seqno(f.outq.items[i]))}

\* What has never been sent and may go out: all of it or nothing, depending on
\* the length of the queue.
Unsent(f) ==
    {i \in DOMAIN f.outq.items : /\ Len(f.outq.items) < Window
                                 /\ SeqLess(f.lastseqsent, Seqno(f.outq.items[i]))}

\* _fsprotocol_xmitifwecan: what may be sent for the first time, and the head
\* again when its time has come.
Xmit(c) ==
    LET q      == c.f.outq.items
        unsent == Unsent(c.f)
        c1     == [Transmit(c, {Data(q[i]) : i \in unsent})
                     EXCEPT !.f.lastseqsent = IF unsent # {} THEN Seqno(q[Len(q)]) ELSE @]
        c2     == [Transmit(c1, {Data(Head(q))}) EXCEPT !.clk = "early"]
    IN  CASE ~c.f.nextrexmit /\ q # <<>> ->
               [c1 EXCEPT !.f.nextrexmit = TRUE, !.clk = "early"]
          [] c.f.nextrexmit /\ c.clk # "early" /\ q = <<>> ->
               [c1 EXCEPT !.f.nextrexmit = FALSE]
          [] c.f.nextrexmit /\ c.clk # "early" /\ q # <<>> ->
               IF c.clk = "late" \/ ~c.f.acktimeout
                 THEN [FsaQuiet(c2, "ACKTIMEOUT") EXCEPT !.f.acktimeout = TRUE]
                 ELSE c2
          [] OTHER -> c1

\* Mutant: the first FrameSet in the queue does not start the ACK timeout.
StartOutputUntimed(c) ==
    [c EXCEPT !.f.unacked = TRUE, !.f.nextrexmit = TRUE, !.clk = "early"]

\* The output queue stops being empty.
StartOutput(c) ==
    [c EXCEPT !.f.unacked = TRUE, !.f.nextrexmit = TRUE, !.f.acktimeout = TRUE,
              !.clk = "early"]

\* _fsprotocol_send1
Send1(c, msg) ==
    IF InShutdown(c.f.state) THEN c
    ELSE LET c1 == FsaQuiet(c, "REQSEND")
             c2 == IF c1.f.outq.items # <<>> THEN c1 ELSE StartOutput(c1)
         IN  Xmit([c2 EXCEPT !.f.outq = Enq(@, msg, c.psid)])

\* _fsprotocol_ackseqno
AckSeqno(c, seq) ==
    IF c.f.inq.sessionid \notin {0, seq[1]} THEN c
    ELSE [Transmit(c, {Ack(seq)}) EXCEPT
             !.f.lastacksent = IF @ = NoSeq \/ SeqLess(@, seq) THEN seq ELSE @]

\* _fsprotocol_fsa for REQSHUTDOWN and RCVSHUTDOWN.  A_SNDSHUT runs send1 (and
\* with it the automaton) inside; the outer call then sets its own next state.
FsaShut(c, i, seq) ==
    LET s    == c.f.state
        acts == Actions(s, i)
        c1   == IF "ACKME" \in acts THEN AckSeqno(c, seq) ELSE c
        c2   == IF "SNDSHUT" \in acts THEN Send1(c1, CONNSHUT) ELSE c1
    IN  FsaFinish(c2, s, i)

\* Mutant: a connection with nothing left to ACK stays on the unacked list.
OutputDoneStillListed(c, q) ==
    [c EXCEPT !.f.outq = q, !.f.nextrexmit = FALSE, !.f.acktimeout = FALSE]

\* The output queue has become empty, or was empty already.
OutputDone(c, q) ==
    [c EXCEPT !.f.outq = q, !.f.unacked = FALSE, !.f.nextrexmit = FALSE,
              !.f.acktimeout = FALSE]

\* _fsprotocol_receive, an ACK
ReceiveAck(c, seq) ==
    LET left == AckThrough(c.f.outq, seq)
        done == OutputDone(c, left)
    IN  CASE ~AckValid(c.f.outq, seq) -> c
          [] AckValid(c.f.outq, seq) /\ left.items = <<>> ->
               IF c.f.outq.items # <<>> THEN FsaQuiet(done, "OUTALLDONE") ELSE done
          [] AckValid(c.f.outq, seq) /\ left.items # <<>> ->
               Xmit([c EXCEPT !.f.outq = left, !.f.nextrexmit = TRUE,
                              !.f.acktimeout = TRUE, !.clk = "early"])

\* Mutant: an ACK that got lost is not repeated.
AckNeverRepeated(f, fs) == FALSE

\* A FrameSet that was refused has been ACKed before.
AlreadyAcked(f, fs) ==
    fs.req # 0 /\ fs.sid = f.lastacksent[1] /\ fs.req <= f.lastacksent[2]

\* Mutant: an unsequenced FrameSet does not make its connection ready.
BecomesReadyBySeqno(q, fs) == ~q.isready /\ fs.req = q.nextseqno

\* The test looks at the FrameSet that arrived, whether or not it was queued.
BecomesReady(q, fs) == ~q.isready /\ fs.req \in {0, q.nextseqno}

\* _fsprotocol_receive, anything else
ReceiveData(c, fs) ==
    LET r  == InqSorted(c.f.inq, fs)
        c1 == [c EXCEPT !.f.inq = r.q]
        c2 == CASE r.ok /\ fs.req = 1 -> FsaQuiet([c1 EXCEPT !.f.acktimeout = TRUE], "GOTSTART")
                [] r.ok /\ fs.req > 1 -> [c1 EXCEPT !.f.acktimeout = TRUE]
                [] ~r.ok /\ AlreadyAcked(c.f, fs) -> AckSeqno(c1, c.f.lastacksent)
                [] OTHER -> c1
        ready == BecomesReady(c2.f.inq, fs)
    IN  Xmit([c2 EXCEPT !.f.ipend = @ \/ ready, !.f.inq.isready = @ \/ ready])

\* Mutant: one FrameSet is read, and the connection leaves the list.
OneReadOnly(q) == FALSE

\* Is there more to read?  If not, the connection leaves the ipend list.
StillReady(q) == HeadReady(q)

\* _fsprotocol_read of this connection when it is on ipend.
Read(c) ==
    LET fs == Head(c.f.inq.items)
        q1 == [c.f.inq EXCEPT !.items = Tail(@),
                              !.nextseqno = IF fs.req = 0 THEN @ ELSE @ + 1]
        c1 == [c EXCEPT !.f.inq = [q1 EXCEPT !.isready = StillReady(q1)],
                        !.f.ipend = StillReady(q1)]
    IN  CASE c.f.inq.items = <<>> -> c
          [] c.f.inq.items # <<>> /\ ~HeadReady(c.f.inq) -> Xmit(c)
          [] HeadReady(c.f.inq) ->
               Xmit(IF fs.msg = CONNSHUT
                      THEN FsaShut(c1, "RCVSHUTDOWN", Seqno(fs)) ELSE c1)

\* The sequenced FrameSet, if any, that Read hands to the application.
ReadResult(c) ==
    IF c.f.ipend /\ HeadReady(c.f.inq) /\ Head(c.f.inq.items).req # 0
      THEN <<Head(c.f.inq.items)>> ELSE <<>>

-----------------------------------------------------------------------------
(* The actions.                                                            *)

\* The session an end is in, or will use when it next sends.
Session(f, psid) == IF f.outq.sessionid = 0 THEN psid ELSE f.outq.sessionid

\* Does the network still deliver p?  The data packets of a session that its
\* sender has left are gone, unless StalePackets says that old packets live on.
Alive(p, f, psid) ==
    \/ StalePackets \/ p.kind = "ack" \/ p.fs.req = 0
    \/ p.fs.sid >= Session(f[p.src], psid[p.src])

Packets(e, c) == {[src |-> e, kind |-> x.kind, fs |-> x.fs] : x \in c.tx}

Higher(a, b) == IF a < b THEN b ELSE a

\* The handler at e leaves context c: store the element, send what it sent.
Finish(e, c) ==
    /\ c.f.outq.items # <<>> => c.f.outq.sessionid <= MaxSession
    /\ fspe' = [fspe EXCEPT ![e] = c.f]
    /\ topsid' = [topsid EXCEPT ![e] = Higher(@, c.f.outq.sessionid)]
    /\ net' = {p \in net \cup Packets(e, c) : Alive(p, fspe', procsid)}

\* In state UP an ACK timeout is only announced.  Elsewhere it closes the
\* connection, and is charged to its bound.
Strikes(e, clk) == clk = "late" /\ fspe[e].state # "UP"

\* The clock can only be past a retransmit time that is set.
Tick(e, clk) ==
    /\ clk # "early" => fspe[e].nextrexmit
    /\ Strikes(e, clk) => used.late < MaxLate

Late(e, clk) == IF Strikes(e, clk) THEN 1 ELSE 0

\* A nanoprobe that has its configuration, and no connection to the CMA: the
\* previous one has been closed and finalized at both ends.
Init ==
    /\ run = [e \in End |-> "up"]
    /\ connected = TRUE
    /\ fspe = [e \in End |-> NoFspe]
    /\ procsid = [e \in End |-> 1]
    /\ topsid = [e \in End |-> 1]
    /\ net = {}
    /\ toack = [e \in End |-> <<>>]
    /\ rcvd = [e \in End |-> {}]
    /\ acked = [e \in End |-> {}]
    /\ used = [send |-> [e \in End |-> 0], unseq |-> 0, late |-> 0,
               close |-> 0, final |-> 0, restart |-> 0]

\* A nanoprobe learns from its configuration where to send.
MaySend(e) == e \in Senders /\ run[e] = "up" /\ (e = "nano" => connected)

\* sendareliablefs: the application sends one FrameSet.
SendAReliableFs(e, clk) ==
    /\ MaySend(e) /\ used.send[e] < MaxSend
    /\ Tick(e, clk)
    /\ Finish(e, Send1(Ctx(e, clk), used.send[e] + 1))
    /\ used' = [used EXCEPT !.send[e] = @ + 1, !.late = @ + Late(e, clk)]
    /\ UNCHANGED <<run, connected, procsid, toack, rcvd, acked>>

\* sendreliablefs: the application sends a list of two.  Nothing is sent when
\* shutting down or when hasqspace says no.
SendReliableFs(e, clk) ==
    /\ MaySend(e) /\ used.send[e] + 1 < MaxSend
    /\ Tick(e, clk)
    /\ LET c == Ctx(e, clk)
           m == used.send[e] + 1
       IN  Finish(e, CASE InShutdown(c.f.state) -> c
                       [] ~InShutdown(c.f.state) /\ HasQSpace(c.f.outq, 2) ->
                            Xmit(Send1(Send1(c, m), m + 1))
                       [] OTHER -> Xmit(c))
    /\ used' = [used EXCEPT !.send[e] = @ + 2, !.late = @ + Late(e, clk)]
    /\ UNCHANGED <<run, connected, procsid, toack, rcvd, acked>>

\* sendaframeset: an unsequenced FrameSet (a heartbeat) goes straight to the socket.
SendAFrameSet(e) ==
    /\ run[e] # "down" /\ used.unseq < MaxUnseq
    /\ net' = net \cup {[src |-> e, kind |-> "data",
                         fs |-> [sid |-> 0, req |-> 0, msg |-> used.unseq + 1]]}
    /\ used' = [used EXCEPT !.unseq = @ + 1]
    /\ UNCHANGED <<run, connected, fspe, procsid, topsid, toack, rcvd, acked>>

\* recvframesets with a datagram: receive it, then read once if input is pending.
Received(e, p, clk) ==
    IF p.kind = "ack" THEN ReceiveAck(Ctx(e, clk), Seqno(p.fs))
                      ELSE ReceiveData(Ctx(e, clk), p.fs)

\* The first message the CMA's application sends is the SETCONFIG.
Configured(e, read) ==
    connected \/ (e = "nano" /\ \E fs \in ToSet(read) : fs.msg # CONNSHUT)

\* The FrameSets that packet p removes from output queue q.
AckedBy(q, p) ==
    IF p.kind = "ack" /\ AckValid(q, Seqno(p.fs))
      THEN ToSet(q.items) \ ToSet(AckThrough(q, Seqno(p.fs)).items) ELSE {}

RecvFrameSets(e, p, clk) ==
    /\ p \in net
    /\ p.src = Peer(e) /\ run[e] # "down"
    /\ Tick(e, clk)
    /\ LET c == Received(e, p, clk) IN
       /\ Finish(e, IF c.f.ipend THEN Read(c) ELSE c)
       /\ toack' = [toack EXCEPT ![e] = @ \o ReadResult(c)]
       /\ rcvd' = [rcvd EXCEPT ![e] = @ \cup ToSet(ReadResult(c))]
       /\ connected' = Configured(e, ReadResult(c))
       /\ acked' = [acked EXCEPT ![e] = @ \cup AckedBy(fspe[e].outq, p)]
    /\ used' = [used EXCEPT !.late = @ + Late(e, clk)]
    /\ UNCHANGED <<run, procsid>>

\* recvframesets without a datagram, called because iready() says so.
ReadPending(e, clk) ==
    /\ fspe[e].exists
    /\ fspe[e].ipend
    /\ Tick(e, clk)
    /\ LET c == Ctx(e, clk) IN
       /\ Finish(e, Read(c))
       /\ toack' = [toack EXCEPT ![e] = @ \o ReadResult(c)]
       /\ rcvd' = [rcvd EXCEPT ![e] = @ \cup ToSet(ReadResult(c))]
       /\ connected' = Configured(e, ReadResult(c))
    /\ used' = [used EXCEPT !.late = @ + Late(e, clk)]
    /\ UNCHANGED <<run, procsid, acked>>

\* ackmessage: the application ACKs what it read, in the order it read it.
AckMessage(e) ==
    /\ toack[e] # <<>>
    /\ fspe[e].exists
    /\ Finish(e, AckSeqno(Ctx(e, "early"), Seqno(Head(toack[e]))))
    /\ toack' = [toack EXCEPT ![e] = Tail(@)]
    /\ UNCHANGED <<run, connected, procsid, rcvd, acked, used>>

\* _fsprotocol_timeoutfun: the periodic retransmit timer.
TimeoutFun(e, clk) ==
    /\ fspe[e].unacked
    /\ Tick(e, clk)
    /\ Finish(e, Xmit(Ctx(e, clk)))
    /\ used' = [used EXCEPT !.late = @ + Late(e, clk)]
    /\ UNCHANGED <<run, connected, procsid, toack, rcvd, acked>>

\* _fsprotocol_shuttimeout
ShutTimeout(e) ==
    /\ fspe[e].shuttimer = "armed"
    /\ Finish(e, FsaQuiet([Ctx(e, "early") EXCEPT !.f.shuttimer = "fired"], "SHUT_TO"))
    /\ UNCHANGED <<run, connected, procsid, toack, rcvd, acked, used>>

\* _fsprotocol_finalizetimer
FinalizeTimer(e) ==
    /\ fspe[e].finalizetimer = "armed"
    /\ used.final < MaxFinal
    /\ LET c == Ctx(e, "early") IN
       Finish(e, [c EXCEPT !.f = IF fspe[e].state = "NONE" THEN Destroy(fspe[e])
                                 ELSE [fspe[e] EXCEPT !.finalizetimer = "fired"]])
    /\ used' = [used EXCEPT !.final = @ + 1]
    /\ UNCHANGED <<run, connected, procsid, toack, rcvd, acked>>

\* _fsprotocol_closeconn.  On this connection only the CMA calls it (a drone is
\* declared dead, or says STARTUP again); a nanoprobe closes all at once, below.
CloseConn(clk) ==
    LET e == "cma" IN
    /\ fspe[e].exists /\ run[e] = "up"
    /\ used.close < MaxClose
    /\ Tick(e, clk)
    /\ Finish(e, FsaShut(Ctx(e, clk), "REQSHUTDOWN", NoSeq))
    /\ used' = [used EXCEPT !.close = @ + 1, !.late = @ + Late(e, clk)]
    /\ UNCHANGED <<run, connected, procsid, toack, rcvd, acked>>

\* _fsprotocol_closeall: an element that never carried anything is removed at
\* once, any other gets a REQSHUTDOWN.
CanCloseImmediately(f) == f.outq.nextseqno <= 1 /\ f.inq.nextseqno <= 1

CloseAll(c) ==
    IF CanCloseImmediately(c.f) THEN [c EXCEPT !.f = Destroy(@)]
                                ELSE FsaShut(c, "REQSHUTDOWN", NoSeq)

\* _fsprotocol_activeconncount, for this connection.  The function also clears every
\* shutdown_complete when it counts none; its one caller then ends the process.
ActiveConn(f) ==
    /\ f.exists
    /\ f.state # "NONE"
    /\ f.inq.nextseqno > 1 \/ f.outq.nextseqno > 1
    /\ ~f.shutdown_complete

\* nano_initiate_shutdown: report HBSHUTDOWN upstream, then close all connections;
\* a nanoprobe that never was configured just ends.
NanoInitiateShutdown(clk) ==
    LET e == "nano" IN
    /\ run[e] = "up" /\ MayStop
    /\ connected
    /\ Tick(e, clk)
    /\ Finish(e, CloseAll(Send1(Ctx(e, clk), used.send[e] + 1)))
    /\ run' = [run EXCEPT ![e] = "stopping"]
    /\ used' = [used EXCEPT !.send[e] = @ + 1, !.late = @ + Late(e, clk)]
    /\ UNCHANGED <<connected, procsid, toack, rcvd, acked>>

\* The main loop ends, and with it the process.
Quit(e) ==
    /\ run' = [run EXCEPT ![e] = "down"]
    /\ fspe' = [fspe EXCEPT ![e] = NoFspe]
    /\ toack' = [toack EXCEPT ![e] = <<>>]
    /\ UNCHANGED <<connected, procsid, topsid, net, rcvd, acked, used>>

NanoFinalShutdown == run["nano"] = "up" /\ MayStop /\ ~connected /\ Quit("nano")

\* shutdown_when_outdone: the process ends once no connection counts as active.
ShutdownWhenOutdone ==
    run["nano"] = "stopping" /\ ~ActiveConn(fspe["nano"]) /\ Quit("nano")

\* The process at e dies, or has ended, and is started again.  Its _sessionId is
\* the time of day, taken to exceed every session id of that end before.
Restart(e) ==
    /\ used.restart < MaxRestart
    /\ topsid' = [topsid EXCEPT ![e] = @ + 1]
    /\ procsid' = [procsid EXCEPT ![e] = topsid[e] + 1]
    /\ run' = [run EXCEPT ![e] = "up"]
    /\ connected' = (connected /\ e # "nano")
    /\ fspe' = [fspe EXCEPT ![e] = NoFspe]
    /\ net' = {p \in net : Alive(p, fspe', procsid')}
    /\ toack' = [toack EXCEPT ![e] = <<>>]
    /\ used' = [used EXCEPT !.restart = @ + 1]
    /\ UNCHANGED <<rcvd, acked>>

\* UDP loses a packet.
Lose(p) ==
    /\ Lossy
    /\ net' = net \ {p}
    /\ UNCHANGED <<run, connected, fspe, procsid, topsid, toack, rcvd, acked, used>>

Next ==
    \/ \E e \in End, clk \in Clock :
          \/ SendAReliableFs(e, clk)
          \/ SendReliableFs(e, clk)
          \/ ReadPending(e, clk)
          \/ TimeoutFun(e, clk)
          \/ \E p \in net : RecvFrameSets(e, p, clk)
    \/ \E e \in End :
          \/ SendAFrameSet(e)
          \/ AckMessage(e)
          \/ ShutTimeout(e)
          \/ FinalizeTimer(e)
          \/ Restart(e)
    \/ \E clk \in Clock : CloseConn(clk) \/ NanoInitiateShutdown(clk)
    \/ NanoFinalShutdown \/ ShutdownWhenOutdone
    \/ \E p \in net : Lose(p)

Spec == Init /\ [][Next]_vars
-----------------------------------------------------------------------------
(* Properties.                                                             *)

TypeOK ==
    /\ run \in [End -> {"up", "stopping", "down"}]
    /\ connected \in BOOLEAN
    /\ fspe \in [End -> Fspe]
    /\ procsid \in [End -> Nat \ {0}]
    /\ topsid \in [End -> Nat \ {0}]
    /\ net \subseteq Packet
    /\ toack \in [End -> Seq(FrameSet)]
    /\ rcvd \in [End -> SUBSET FrameSet]
    /\ acked \in [End -> SUBSET FrameSet]
    /\ used \in [send : [End -> Nat], unseq : Nat, late : Nat, close : Nat,
                 final : Nat, restart : Nat]

\* _fsprotocol_auditfspe: a connection is on the unacked list exactly when it
\* has un-ACKed output.  Off the list, nothing would ever retransmit it.
AuditFspe ==
    \A e \in End : fspe[e].unacked <=> fspe[e].outq.items # <<>>

\* Un-ACKed output has its retransmit time and its ACK timeout set: it is
\* retransmitted, and never given up before an ACK timeout has passed.
OutputIsTimed ==
    \A e \in End : fspe[e].outq.items # <<>> => fspe[e].nextrexmit /\ fspe[e].acktimeout

\* The shutdown timer runs in the three shutdown states and in no other, so a
\* shutdown always ends and no timer outlives the connection it was set for.
ShutTimerRuns ==
    \A e \in End : /\ InShutdown(fspe[e].state) => fspe[e].shuttimer = "armed"
                   /\ ~InShutdown(fspe[e].state) => fspe[e].shuttimer = "off"

\* The check at the end of _fsprotocol_fsa: no output is left in state NONE.
NoneIsDrained ==
    \A e \in End : fspe[e].state = "NONE" => fspe[e].outq.items = <<>>

\* A connection whose next FrameSet can be read is marked ready and is on ipend: what
\* arrived is not forgotten, whatever the network loses, repeats and reorders, across
\* shutdowns and restarts.  The half of _fsprotocol_auditiready that a lost wakeup would
\* violate; its other half, that nothing else is listed, is not true of the code.
ReadableIsListed ==
    \A e \in End : HeadReady(fspe[e].inq) => fspe[e].inq.isready /\ fspe[e].ipend

\* inqsorted compares sequence frames without looking whether the queued
\* FrameSet has one: no unsequenced FrameSet waits in a queue between handlers.
UnsequencedIsRead ==
    \A e \in End : \A i \in DOMAIN fspe[e].inq.items : fspe[e].inq.items[i].req # 0

\* A destroyed FsProtoElem is on no list and no timer holds a pointer to it.
DestroyedIsUnlisted ==
    \A e \in End : ~fspe[e].exists =>
        /\ ~fspe[e].unacked /\ ~fspe[e].ipend
        /\ fspe[e].shuttimer # "armed" /\ fspe[e].finalizetimer # "armed"

\* What an ACK removed from the sender's queue was given to the peer's
\* application.  (CONNSHUTs, which only the protocol sends, may go unread.)
AckedWasDelivered ==
    \A e \in End : \A fs \in acked[e] : fs.msg # CONNSHUT => fs \in rcvd[Peer(e)]

\* An application sees every session from its first FrameSet and without a gap.
DeliveredInOrder ==
    \A e \in End : \A fs \in rcvd[e] :
        fs.req > 1 => \E fs0 \in rcvd[e] : fs0.sid = fs.sid /\ fs0.req = fs.req - 1
-----------------------------------------------------------------------------
(* Liveness.                                                               *)

\* GLib dispatches a timer that is due, and shutdown_when_outdone is polled.
\* Where ENABLED is dear for TLC, the guard of the action stands in its place: an
\* action whose guard stays (weak fairness) or keeps becoming (strong fairness)
\* true is taken again and again.
TimerFairness ==
    /\ \A e \in End : \/ []<>(fspe[e].shuttimer # "armed")
                      \/ []<><<ShutTimeout(e)>>_vars
    /\ \/ []<>(run["nano"] # "stopping" \/ ActiveConn(fspe["nano"]))
       \/ []<><<ShutdownWhenOutdone>>_vars

\* Would e, receiving p now, do anything?
Matters(e, p) ==
    LET c == Received(e, p, "early")
        d == IF c.f.ipend THEN Read(c) ELSE c
    IN  run[e] # "down" /\ (d.f # fspe[e] \/ Packets(e, d) \ net # {})

\* The packets in flight that carry the head of e's output queue, and its ACKs.
Pending(e) == fspe[e].outq.items # <<>>
Carries(p, e) ==
    /\ Pending(e)
    /\ p = [src |-> e, kind |-> "data", fs |-> Head(fspe[e].outq.items)]
Answers(p, e) ==
    /\ Pending(e)
    /\ p.src = Peer(e) /\ p.kind = "ack" /\ Seqno(p.fs) = Seqno(Head(fspe[e].outq.items))

RecvHead(e) == \E p \in net : Carries(p, e) /\ RecvFrameSets(Peer(e), p, "early")
RecvAck(e)  == \E p \in net : Answers(p, e) /\ RecvFrameSets(e, p, "early")

\* A network that does not lose the same packet for ever, a retransmit timer
\* that keeps running until the ACK timeout too is past, and applications that
\* ACK what they read.
NetworkFairness ==
    \A e \in End :
        /\ \/ <>[]~(\E p \in net : Carries(p, e) /\ Matters(Peer(e), p))
           \/ []<><<RecvHead(e)>>_vars
        /\ \/ <>[]~(\E p \in net : Answers(p, e) /\ Matters(e, p))
           \/ []<><<RecvAck(e)>>_vars
        /\ \/ []<>(~Pending(e) \/ \E p \in net : Carries(p, e))
           \/ []<><<TimeoutFun(e, "due")>>_vars
        /\ \/ []<>(~Pending(e) \/ (fspe[e].state # "UP" /\ used.late = MaxLate))
           \/ []<><<TimeoutFun(e, "late")>>_vars
        /\ WF_vars(AckMessage(e))

TimerSpec   == Spec /\ TimerFairness
NetworkSpec == Spec /\ TimerFairness /\ NetworkFairness

\* A shutdown ends by itself, whatever the network does.
ShutdownEnds ==
    \A e \in End : InShutdown(fspe[e].state) ~> ~InShutdown(fspe[e].state)

\* A nanoprobe told to stop does stop, even if the CMA keeps talking to it.
NanoprobeStops == run["nano"] = "stopping" ~> run["nano"] # "stopping"

\* What can empty an output queue otherwise than by ACKs: an ACK timeout outside state
\* UP, the end of a process, a request to close.
Setbacks == used.late + used.restart + used.close

\* _fsqueue_inqsorted of a process that has been started again may resume a session in
\* the middle (see OutputSettles); the first process at an end never does.
PeerIsFirst(e) == procsid[Peer(e)] = 1

\* Output is ACKed in the end over a network that keeps losing packets, unless another
\* setback comes: whatever has happened before, also after the sender was started again.
\* Only a receiver that was started again is left out.
OutputIsAcked ==
    \A e \in End : \A n \in 0 .. MaxLate + MaxRestart + MaxClose :
        Pending(e) /\ Setbacks = n ~> ~Pending(e) \/ Setbacks > n \/ ~PeerIsFirst(e)

\* Whatever happens, output is ACKed in the end or given up with its connection.
OutputSettles == \A e \in End : Pending(e) ~> ~Pending(e)
=============================================================================
