------------------------------ MODULE FsQueue ------------------------------
(***************************************************************************)
(* The FsQueue class (clientlib/fsqueue.c): a queue of FrameSets with the  *)
(* session id and the next sequence number of one direction of one         *)
(* connection.  An FsQueue is a value here, and each method a function     *)
(* from the old value to the new one.                                      *)
(*                                                                         *)
(* A FrameSet is abstracted to its sequence frame <<sid, req>> and what it *)
(* carries.  req = 0 stands for a FrameSet without a sequence frame (a     *)
(* heartbeat, a STARTUP), whose session id means nothing and is 0.         *)
(***************************************************************************)
EXTENDS Naturals, Sequences, FiniteSets, SequencesExt

CONSTANT MaxQLen    \* _maxqlen: the queue refuses to grow past this length

ASSUME MaxQLenAssumption == MaxQLen \in Nat \ {0}

CONNSHUT == 0       \* payload of a FRAMESETTYPE_CONNSHUT; others are 1, 2, ...

FrameSet == [sid : Nat, req : Nat, msg : Nat]
SeqId    == Nat \X Nat
NoSeq    == <<0, 0>>                  \* a NULL SeqnoFrame pointer
Seqno(fs) == <<fs.sid, fs.req>>

\* seqnoframe_compare(a, b) < 0: by session id, then by request id.
SeqLess(a, b) == a[1] < b[1] \/ (a[1] = b[1] /\ a[2] < b[2])

Queue == [items : Seq(FrameSet), nextseqno : Nat \ {0}, sessionid : Nat,
          isready : BOOLEAN]

NewQueue == [items |-> <<>>, nextseqno |-> 1, sessionid |-> 0, isready |-> FALSE]

Flush(q) == [q EXCEPT !.items = <<>>]

\* Room for one more / the test made before a list of FrameSets is sent.
HasQSpace1(q)         == Len(q.items) < MaxQLen
HasQSpace(q, desired) == MaxQLen + desired >= Len(q.items)

\* _fsqueue_enq: refuse when full, else number the FrameSet.  The first one
\* takes the session id of the process, later ones that of the queue.
EnqSession(q, procsid) == IF q.sessionid = 0 THEN procsid ELSE q.sessionid

Enq(q, msg, procsid) ==
    IF ~HasQSpace1(q) THEN q
    ELSE LET sid == EnqSession(q, procsid)
         IN  [q EXCEPT !.items = Append(@, [sid |-> sid, req |-> q.nextseqno, msg |-> msg]),
                       !.nextseqno = @ + 1,
                       !.sessionid = sid]

\* Can the head be given to the application?
HeadReady(q) ==
    /\ q.items # <<>>
    /\ Head(q.items).req \in {0, q.nextseqno}

\* _fsqueue_inqsorted, first half: what the sequence frame does to the session.
AdoptSession(q, fs) ==
    CASE q.sessionid = 0 ->
           [q EXCEPT !.sessionid = fs.sid,
                     !.nextseqno = IF fs.req >= 2 THEN fs.req ELSE @]
      [] q.sessionid # 0 /\ fs.sid > q.sessionid ->
           [Flush(q) EXCEPT !.sessionid = fs.sid, !.nextseqno = 1]
      [] OTHER -> q

\* Second half: the position that keeps the queue sorted; a duplicate is dropped.
InsertSorted(q, fs) ==
    LET before == Cardinality({i \in DOMAIN q.items : SeqLess(Seqno(q.items[i]), Seqno(fs))})
    IN  IF \E i \in DOMAIN q.items : Seqno(q.items[i]) = Seqno(fs) THEN q
        ELSE [q EXCEPT !.items = SubSeq(@, 1, before) \o <<fs>> \o SubSeq(@, before + 1, Len(@))]

\* The queue after inqsorted and whether it returned TRUE.
InqSorted(q, fs) ==
    LET q1 == AdoptSession(q, fs) IN
    CASE fs.req = 0 ->
           IF HasQSpace1(q)
             THEN [ok |-> TRUE, q |-> [q EXCEPT !.items = <<fs>> \o @]]
             ELSE [ok |-> FALSE, q |-> q]
      [] fs.req # 0 /\ q.sessionid # 0 /\ fs.sid < q.sessionid -> [ok |-> FALSE, q |-> q]
      [] fs.req # 0 /\ ~(q.sessionid # 0 /\ fs.sid < q.sessionid) ->
           IF fs.req < q1.nextseqno \/ ~HasQSpace1(q1)
             THEN [ok |-> FALSE, q |-> q1]
             ELSE [ok |-> TRUE, q |-> InsertSorted(q1, fs)]

\* _fsqueue_ackthrough: does the ACK belong to this queue, and what is left.
\* (AckValidAnySession, a mutant, forgets the session.)
AckValidAnySession(q, seq) == seq[2] < q.nextseqno

AckValid(q, seq) == seq[1] = q.sessionid /\ seq[2] < q.nextseqno

\* Mutant: one FrameSet too many is taken off the queue.
AckThroughOneMore(q, seq) ==
    LET acked == Cardinality({i \in DOMAIN q.items : q.items[i].req <= seq[2] + 1})
    IN  [q EXCEPT !.items = SubSeq(@, acked + 1, Len(@))]

AckThrough(q, seq) ==
    LET acked == Cardinality({i \in DOMAIN q.items : q.items[i].req <= seq[2]})
    IN  [q EXCEPT !.items = SubSeq(@, acked + 1, Len(@))]
=============================================================================
