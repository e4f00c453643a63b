------------------------- MODULE FsProtocolProofs --------------------------
(***************************************************************************)
(* The invariants of one FsProtoElem that the code audits, proved for any  *)
(* queue length, window and number of steps, on any network; before them   *)
(* the lemmas about the FsQueue operations that all proofs rest on.        *)
(***************************************************************************)
EXTENDS FsProtocol, SequenceTheorems, FiniteSetTheorems, TLAPS

-----------------------------------------------------------------------------
(* The FsQueue operations, for queues of any length.                       *)

\* What is counted among the positions of a queue is a number of positions:
\* the loops of inqsorted and ackthrough stop within the queue.
LEMMA CountType ==
    ASSUME NEW s \in Seq(FrameSet), NEW P \in SUBSET (DOMAIN s)
    PROVE  Cardinality(P) \in 0 .. Len(s)
<1>1. DOMAIN s = 1 .. Len(s) /\ Len(s) \in Nat
  BY LenProperties
<1>2. IsFiniteSet(1 .. Len(s)) /\ Cardinality(1 .. Len(s)) = Len(s)
  <2>1. 1 \in Int /\ Len(s) \in Int /\ (1 > Len(s) => Len(s) = 0)
    BY <1>1
  <2>2. /\ IsFiniteSet(1 .. Len(s))
        /\ Cardinality(1 .. Len(s)) = IF 1 > Len(s) THEN 0 ELSE Len(s) - 1 + 1
    BY <2>1, FS_Interval, Zenon
  <2> QED
    BY <2>1, <2>2, <1>1
<1>3. IsFiniteSet(P) /\ Cardinality(P) <= Len(s)
  BY <1>1, <1>2, FS_Subset
<1>4. Cardinality(P) \in Nat
  BY <1>3, FS_CardinalityType
<1> QED
  BY <1>1, <1>3, <1>4

\* A contiguous part of a queue is a sequence of FrameSets.
LEMMA PartType ==
    ASSUME NEW s \in Seq(FrameSet), NEW m \in 1 .. Len(s) + 1, NEW n \in 0 .. Len(s)
    PROVE  SubSeq(s, m, n) \in Seq(FrameSet)
<1>1. Len(s) \in Nat
  BY LenProperties
<1>2. m \in Int /\ n \in Int
  BY <1>1
<1>3. \A i \in m .. n : s[i] \in FrameSet
  BY <1>1, ElementOfSeq
<1> QED
  BY <1>2, <1>3, SubSeqProperties

LEMMA NewQueueType == NewQueue \in Queue
BY EmptySeq DEF NewQueue, Queue

\* _fsqueue_enq adds one FrameSet at the tail, or refuses.
LEMMA EnqType ==
    ASSUME NEW q \in Queue, NEW msg \in Nat, NEW psid \in Nat
    PROVE  /\ Enq(q, msg, psid) \in Queue
           /\ q.items = <<>> => Enq(q, msg, psid).items # <<>>
           /\ q.items # <<>> => Enq(q, msg, psid).items # <<>>
<1> DEFINE fs == [sid |-> EnqSession(q, psid), req |-> q.nextseqno, msg |-> msg]
<1>1. q.items \in Seq(FrameSet) /\ q.nextseqno \in Nat \ {0} /\ q.sessionid \in Nat
  BY DEF Queue
<1>2. fs \in FrameSet
  BY <1>1 DEF FrameSet, EnqSession
<1>3. Append(q.items, fs) \in Seq(FrameSet) /\ Append(q.items, fs) # <<>>
  BY <1>1, <1>2, AppendProperties, LenProperties, EmptySeq
<1>4. CASE ~HasQSpace1(q)
  <2>1. q.items # <<>>
    BY <1>4, MaxQLenAssumption, EmptySeq DEF HasQSpace1
  <2> QED
    BY <1>4, <2>1 DEF Enq
<1>5. CASE HasQSpace1(q)
  <2>1. Enq(q, msg, psid) = [q EXCEPT !.items = Append(q.items, fs),
                                      !.nextseqno = q.nextseqno + 1,
                                      !.sessionid = EnqSession(q, psid)]
    BY <1>5 DEF Enq
  <2>2. EnqSession(q, psid) \in Nat /\ q.nextseqno + 1 \in Nat \ {0}
    BY <1>1 DEF EnqSession
  <2> HIDE DEF fs
  <2> QED
    BY <1>3, <2>1, <2>2 DEF Queue
<1> QED
  BY <1>4, <1>5

\* _fsqueue_ackthrough only takes FrameSets off the queue.
LEMMA AckThroughType ==
    ASSUME NEW q \in Queue, NEW seq \in SeqId
    PROVE  /\ AckThrough(q, seq) \in Queue
           /\ q.items = <<>> => AckThrough(q, seq).items = <<>>
<1> DEFINE n == Cardinality({i \in DOMAIN q.items : q.items[i].req <= seq[2]})
<1>1. q.items \in Seq(FrameSet) /\ Len(q.items) \in Nat
  BY LenProperties DEF Queue
<1>2. n \in 0 .. Len(q.items)
  BY <1>1, CountType
<1> HIDE DEF n
<1>3. n + 1 \in 1 .. Len(q.items) + 1 /\ Len(q.items) \in 0 .. Len(q.items)
  BY <1>1, <1>2
<1>4. SubSeq(q.items, n + 1, Len(q.items)) \in Seq(FrameSet)
  BY <1>1, <1>3, PartType
<1>5. AckThrough(q, seq) = [q EXCEPT !.items = SubSeq(q.items, n + 1, Len(q.items))]
  BY DEF AckThrough, n
<1>6. AckThrough(q, seq) \in Queue /\ AckThrough(q, seq).items = SubSeq(q.items, n + 1, Len(q.items))
  BY <1>4, <1>5 DEF Queue
<1>7. ASSUME q.items = <<>> PROVE SubSeq(q.items, n + 1, Len(q.items)) = <<>>
  <2>1. Len(q.items) < n + 1 /\ n + 1 \in Int /\ Len(q.items) \in Int
    BY <1>2, <1>7, EmptySeq
  <2> QED
    BY <2>1, SubSeqEmpty
<1> QED
  BY <1>6, <1>7

\* The first half of _fsqueue_inqsorted.
LEMMA AdoptSessionType ==
    ASSUME NEW q \in Queue, NEW fs \in FrameSet
    PROVE  AdoptSession(q, fs) \in Queue
<1>1. q.sessionid \in Nat /\ q.nextseqno \in Nat \ {0} /\ fs.sid \in Nat /\ fs.req \in Nat
  BY DEF Queue, FrameSet
<1>2. CASE q.sessionid = 0
  <2> DEFINE first == IF fs.req >= 2 THEN fs.req ELSE q.nextseqno
  <2>1. AdoptSession(q, fs) = [q EXCEPT !.sessionid = fs.sid, !.nextseqno = first]
    BY <1>2 DEF AdoptSession
  <2>2. first \in Nat \ {0}
    BY <1>1
  <2> HIDE DEF first
  <2> QED
    BY <1>1, <2>1, <2>2 DEF Queue
<1>3. CASE q.sessionid # 0 /\ fs.sid > q.sessionid
  <2>1. AdoptSession(q, fs) = [Flush(q) EXCEPT !.sessionid = fs.sid, !.nextseqno = 1]
    BY <1>3 DEF AdoptSession
  <2>2. Flush(q) \in Queue
    BY EmptySeq DEF Queue, Flush
  <2>3. 1 \in Nat \ {0}
    OBVIOUS
  <2> QED
    BY <1>1, <2>1, <2>2, <2>3 DEF Queue
<1>4. CASE q.sessionid # 0 /\ ~(fs.sid > q.sessionid)
  BY <1>4 DEF AdoptSession
<1> QED
  BY <1>2, <1>3, <1>4

\* The second half: one FrameSet more, or none.
LEMMA InsertSortedType ==
    ASSUME NEW q \in Queue, NEW fs \in FrameSet
    PROVE  InsertSorted(q, fs) \in Queue
<1> DEFINE n == Cardinality({i \in DOMAIN q.items : SeqLess(Seqno(q.items[i]), Seqno(fs))})
           part1 == SubSeq(q.items, 1, n)
           part2 == SubSeq(q.items, n + 1, Len(q.items))
<1>1. q.items \in Seq(FrameSet) /\ Len(q.items) \in Nat
  BY LenProperties DEF Queue
<1>2. n \in 0 .. Len(q.items)
  BY <1>1, CountType
<1>3. CASE \E i \in DOMAIN q.items : Seqno(q.items[i]) = Seqno(fs)
  BY <1>3 DEF InsertSorted
<1>4. CASE ~ \E i \in DOMAIN q.items : Seqno(q.items[i]) = Seqno(fs)
  <2>1. InsertSorted(q, fs) = [q EXCEPT !.items = part1 \o <<fs>> \o part2]
    BY <1>4 DEF InsertSorted
  <2> HIDE DEF n
  <2>2. 1 \in 1 .. Len(q.items) + 1 /\ n + 1 \in 1 .. Len(q.items) + 1
        /\ Len(q.items) \in 0 .. Len(q.items)
    BY <1>1, <1>2
  <2>3. part1 \in Seq(FrameSet) /\ part2 \in Seq(FrameSet)
    BY <1>1, <1>2, <2>2, PartType
  <2>4. <<fs>> \in Seq(FrameSet)
    OBVIOUS
  <2> HIDE DEF part1, part2
  <2>5. part1 \o <<fs>> \o part2 \in Seq(FrameSet)
    BY <2>3, <2>4, ConcatProperties
  <2> QED
    BY <2>1, <2>5 DEF Queue
<1> QED
  BY <1>3, <1>4

LEMMA InqSortedType ==
    ASSUME NEW q \in Queue, NEW fs \in FrameSet
    PROVE  InqSorted(q, fs).q \in Queue
<1> DEFINE old == q.sessionid # 0 /\ fs.sid < q.sessionid
           q1  == AdoptSession(q, fs)
<1>1. q1 \in Queue
  BY AdoptSessionType
<1>2. InsertSorted(q1, fs) \in Queue
  BY <1>1, InsertSortedType
<1>3. CASE fs.req = 0
  <2>1. [q EXCEPT !.items = <<fs>> \o q.items] \in Queue
    <3>1. <<fs>> \in Seq(FrameSet) /\ q.items \in Seq(FrameSet)
      BY DEF Queue
    <3>2. <<fs>> \o q.items \in Seq(FrameSet)
      BY <3>1, ConcatProperties
    <3> QED
      BY <3>2 DEF Queue
  <2>2. \/ InqSorted(q, fs) = [ok |-> TRUE, q |-> [q EXCEPT !.items = <<fs>> \o q.items]]
        \/ InqSorted(q, fs) = [ok |-> FALSE, q |-> q]
    BY <1>3 DEF InqSorted
  <2> QED
    BY <2>1, <2>2
<1>4. CASE fs.req # 0 /\ old
  <2>1. InqSorted(q, fs) = [ok |-> FALSE, q |-> q]
    BY <1>4 DEF InqSorted
  <2> QED
    BY <2>1
<1>5. CASE fs.req # 0 /\ ~old
  <2>1. \/ InqSorted(q, fs) = [ok |-> FALSE, q |-> q1]
        \/ InqSorted(q, fs) = [ok |-> TRUE, q |-> InsertSorted(q1, fs)]
    BY <1>5 DEF InqSorted
  <2> HIDE DEF q1
  <2> QED
    BY <1>1, <1>2, <2>1
<1> QED
  BY <1>3, <1>4, <1>5

-----------------------------------------------------------------------------
(* What the queue holds.                                                   *)

\* A part of a sequence holds nothing else than the sequence.
LEMMA PartRange ==
    ASSUME NEW s \in Seq(FrameSet), NEW m \in 1 .. Len(s) + 1, NEW n \in 0 .. Len(s)
    PROVE  ToSet(SubSeq(s, m, n)) \subseteq ToSet(s)
<1>1. Len(s) \in Nat /\ DOMAIN s = 1 .. Len(s)
  BY LenProperties
<1>2. m \in Int /\ n \in Int /\ \A i \in m .. n : s[i] \in FrameSet
  BY <1>1, ElementOfSeq
<1> DEFINE p == SubSeq(s, m, n)
<1>3. /\ p \in Seq(FrameSet) /\ Len(p) = (IF m <= n THEN n - m + 1 ELSE 0)
      /\ \A i \in 1 .. n - m + 1 : p[i] = s[m + i - 1]
  BY <1>2, SubSeqProperties
<1> HIDE DEF p
<1>4. DOMAIN p = 1 .. Len(p)
  BY <1>3, LenProperties
<1>5. ASSUME NEW i \in DOMAIN p PROVE \E j \in DOMAIN s : p[i] = s[j]
  <2>1. m <= n /\ i \in 1 .. n - m + 1
    BY <1>2, <1>3, <1>4
  <2>2. m + i - 1 \in DOMAIN s
    BY <1>1, <2>1
  <2> QED
    BY <1>3, <2>1, <2>2
<1> QED
  BY <1>5 DEF ToSet, p

LEMMA TailRange ==
    ASSUME NEW s \in Seq(FrameSet), s # <<>>
    PROVE  ToSet(Tail(s)) \subseteq ToSet(s)
<1>1. /\ Len(s) \in Nat /\ DOMAIN s = 1 .. Len(s) /\ Tail(s) \in Seq(FrameSet)
      /\ Len(Tail(s)) = Len(s) - 1 /\ \A i \in 1 .. Len(s) - 1 : Tail(s)[i] = s[i + 1]
  BY LenProperties, HeadTailProperties
<1>2. DOMAIN Tail(s) = 1 .. Len(s) - 1
  BY <1>1, LenProperties
<1> QED
  BY <1>1, <1>2 DEF ToSet

LEMMA ConcatRange ==
    ASSUME NEW s \in Seq(FrameSet), NEW t \in Seq(FrameSet)
    PROVE  ToSet(s \o t) = ToSet(s) \cup ToSet(t)
<1> DEFINE u == s \o t
<1>1. /\ u \in Seq(FrameSet) /\ Len(u) = Len(s) + Len(t)
      /\ \A i \in 1 .. Len(s) + Len(t) : u[i] = IF i <= Len(s) THEN s[i] ELSE t[i - Len(s)]
  BY ConcatProperties
<1> HIDE DEF u
<1>2. /\ Len(s) \in Nat /\ Len(t) \in Nat
      /\ DOMAIN s = 1 .. Len(s) /\ DOMAIN t = 1 .. Len(t) /\ DOMAIN u = 1 .. Len(s) + Len(t)
  BY <1>1, LenProperties
<1>3. ASSUME NEW i \in DOMAIN u PROVE u[i] \in ToSet(s) \cup ToSet(t)
  <2>1. CASE i <= Len(s)
    BY <1>1, <1>2, <2>1 DEF ToSet
  <2>2. CASE ~(i <= Len(s))
    <3>1. i - Len(s) \in DOMAIN t /\ u[i] = t[i - Len(s)]
      BY <1>1, <1>2, <2>2
    <3> QED
      BY <3>1 DEF ToSet
  <2> QED
    BY <2>1, <2>2
<1>4. ASSUME NEW i \in DOMAIN s PROVE s[i] \in ToSet(u)
  BY <1>1, <1>2 DEF ToSet
<1>5. ASSUME NEW i \in DOMAIN t PROVE t[i] \in ToSet(u)
  <2>1. i + Len(s) \in DOMAIN u /\ ~(i + Len(s) <= Len(s)) /\ i + Len(s) - Len(s) = i
    BY <1>2
  <2>2. u[i + Len(s)] = t[i]
    BY <1>1, <1>2, <2>1
  <2> QED
    BY <2>1, <2>2 DEF ToSet
<1>6. ToSet(u) \subseteq ToSet(s) \cup ToSet(t)
  BY <1>3 DEF ToSet
<1>7. ToSet(s) \subseteq ToSet(u) /\ ToSet(t) \subseteq ToSet(u)
  BY <1>4, <1>5 DEF ToSet
<1> QED
  BY <1>6, <1>7 DEF u

LEMMA InsertSortedRange ==
    ASSUME NEW q \in Queue, NEW fs \in FrameSet
    PROVE  /\ ToSet(InsertSorted(q, fs).items) \subseteq ToSet(q.items) \cup {fs}
           /\ InsertSorted(q, fs).isready = q.isready
<1> DEFINE n == Cardinality({i \in DOMAIN q.items : SeqLess(Seqno(q.items[i]), Seqno(fs))})
           part1 == SubSeq(q.items, 1, n)
           part2 == SubSeq(q.items, n + 1, Len(q.items))
<1>1. q.items \in Seq(FrameSet) /\ Len(q.items) \in Nat
  BY LenProperties DEF Queue
<1>2. n \in 0 .. Len(q.items)
  BY <1>1, CountType
<1>3. CASE \E i \in DOMAIN q.items : Seqno(q.items[i]) = Seqno(fs)
  BY <1>3 DEF InsertSorted
<1>4. CASE ~ \E i \in DOMAIN q.items : Seqno(q.items[i]) = Seqno(fs)
  <2>1. InsertSorted(q, fs) = [q EXCEPT !.items = part1 \o <<fs>> \o part2]
    BY <1>4 DEF InsertSorted
  <2> HIDE DEF n
  <2>2. 1 \in 1 .. Len(q.items) + 1 /\ n + 1 \in 1 .. Len(q.items) + 1
        /\ Len(q.items) \in 0 .. Len(q.items)
    BY <1>1, <1>2
  <2>3. /\ part1 \in Seq(FrameSet) /\ part2 \in Seq(FrameSet)
        /\ ToSet(part1) \subseteq ToSet(q.items) /\ ToSet(part2) \subseteq ToSet(q.items)
    BY <1>1, <1>2, <2>2, PartType, PartRange
  <2>4. <<fs>> \in Seq(FrameSet) /\ ToSet(<<fs>>) = {fs}
    BY DEF ToSet
  <2> HIDE DEF part1, part2
  <2>5. /\ part1 \o <<fs>> \in Seq(FrameSet)
        /\ ToSet(part1 \o <<fs>>) = ToSet(part1) \cup {fs}
    <3>1. part1 \o <<fs>> \in Seq(FrameSet)
      BY <2>3, <2>4, ConcatProperties
    <3>2. ToSet(part1 \o <<fs>>) = ToSet(part1) \cup {fs}
      BY <2>3, <2>4, ConcatRange
    <3> QED
      BY <3>1, <3>2
  <2>6. ToSet(part1 \o <<fs>> \o part2) = ToSet(part1) \cup {fs} \cup ToSet(part2)
    BY <2>3, <2>5, ConcatRange
  <2>7. /\ InsertSorted(q, fs).items = part1 \o <<fs>> \o part2
        /\ InsertSorted(q, fs).isready = q.isready
    BY <2>1 DEF Queue
  <2> QED
    BY <2>3, <2>6, <2>7
<1> QED
  BY <1>3, <1>4

\* The head of the queue stays the head, unless the FrameSet becomes it.
LEMMA InsertSortedHead ==
    ASSUME NEW q \in Queue, NEW fs \in FrameSet
    PROVE  LET r == InsertSorted(q, fs)
           IN  /\ r.nextseqno = q.nextseqno
               /\ \/ r.items = q.items
                  \/ Head(r.items) = fs
                  \/ q.items # <<>> /\ Head(r.items) = Head(q.items)
<1> DEFINE n == Cardinality({i \in DOMAIN q.items : SeqLess(Seqno(q.items[i]), Seqno(fs))})
           part1 == SubSeq(q.items, 1, n)
           part2 == SubSeq(q.items, n + 1, Len(q.items))
<1>1. q.items \in Seq(FrameSet) /\ Len(q.items) \in Nat
  BY LenProperties DEF Queue
<1>2. n \in 0 .. Len(q.items)
  BY <1>1, CountType
<1>3. CASE \E i \in DOMAIN q.items : Seqno(q.items[i]) = Seqno(fs)
  BY <1>3 DEF InsertSorted
<1>4. CASE ~ \E i \in DOMAIN q.items : Seqno(q.items[i]) = Seqno(fs)
  <2>1. InsertSorted(q, fs) = [q EXCEPT !.items = part1 \o <<fs>> \o part2]
    BY <1>4 DEF InsertSorted
  <2> HIDE DEF n
  <2>2. 1 \in 1 .. Len(q.items) + 1 /\ n + 1 \in 1 .. Len(q.items) + 1
        /\ Len(q.items) \in 0 .. Len(q.items)
    BY <1>1, <1>2
  <2>3. part1 \in Seq(FrameSet) /\ part2 \in Seq(FrameSet)
    BY <1>1, <1>2, <2>2, PartType
  <2>4. /\ Len(part1) = n /\ n \in Nat
        /\ n # 0 => q.items # <<>> /\ part1[1] = q.items[1] /\ q.items[1] = Head(q.items)
    <3>1. 1 \in Int /\ n \in Int /\ \A i \in 1 .. n : q.items[i] \in FrameSet
      BY <1>1, <1>2, ElementOfSeq
    <3>2. /\ Len(part1) = IF 1 <= n THEN n - 1 + 1 ELSE 0
          /\ \A i \in 1 .. n - 1 + 1 : part1[i] = q.items[1 + i - 1]
      BY <3>1, SubSeqProperties
    <3> HIDE DEF part1
    <3>3. n # 0 => 1 \in 1 .. n - 1 + 1 /\ 1 + 1 - 1 = 1 /\ Len(q.items) # 0
      BY <1>1, <1>2
    <3> QED
      BY <1>1, <1>2, <3>2, <3>3
  <2> HIDE DEF part1, part2
  <2> DEFINE s == part1 \o <<fs>> \o part2
  <2>5. InsertSorted(q, fs).items = s /\ InsertSorted(q, fs).nextseqno = q.nextseqno
    BY <2>1 DEF Queue
  <2>6. Head(s) = IF n = 0 THEN fs ELSE part1[1]
    <3>1. <<fs>> \in Seq(FrameSet) /\ Len(<<fs>>) = 1 /\ <<fs>>[1] = fs
      OBVIOUS
    <3>2. /\ part1 \o <<fs>> \in Seq(FrameSet) /\ Len(part1 \o <<fs>>) = n + 1
          /\ (part1 \o <<fs>>)[1] = IF n = 0 THEN fs ELSE part1[1]
      BY <2>3, <2>4, <3>1, ConcatProperties
    <3>3. /\ s \in Seq(FrameSet) /\ Len(s) >= 1 /\ s[1] = (part1 \o <<fs>>)[1]
      BY <2>3, <2>4, <3>2, ConcatProperties
    <3> HIDE DEF s
    <3> QED
      BY <3>2, <3>3
  <2> HIDE DEF s
  <2> QED
    BY <2>4, <2>5, <2>6
<1> QED
  BY <1>3, <1>4

\* _fsqueue_inqsorted puts nothing but its FrameSet into the queue, and one
\* without a sequence frame at the head.
LEMMA InqSortedRange ==
    ASSUME NEW q \in Queue, NEW fs \in FrameSet
    PROVE  LET r == InqSorted(q, fs)
           IN  /\ ToSet(r.q.items) \subseteq ToSet(q.items) \cup {fs}
               /\ r.q.isready = q.isready
               /\ fs.req = 0 => \/ r.q = q
                                \/ r.q = [q EXCEPT !.items = <<fs>> \o q.items]
<1> DEFINE old == q.sessionid # 0 /\ fs.sid < q.sessionid
           q1  == AdoptSession(q, fs)
<1>1. q1 \in Queue /\ ToSet(q1.items) \subseteq ToSet(q.items) /\ q1.isready = q.isready
  <2>1. ToSet(<<>>) = {}
    BY DEF ToSet
  <2>2. /\ q1.items = q.items \/ q1.items = <<>>
        /\ q1.isready = q.isready
    BY DEF AdoptSession, Flush, Queue
  <2> HIDE DEF q1
  <2> QED
    BY <2>1, <2>2, AdoptSessionType DEF q1
<1>2. /\ ToSet(InsertSorted(q1, fs).items) \subseteq ToSet(q1.items) \cup {fs}
      /\ InsertSorted(q1, fs).isready = q1.isready
  BY <1>1, InsertSortedRange
<1>3. CASE fs.req = 0
  <2> DEFINE h == [q EXCEPT !.items = <<fs>> \o q.items]
  <2>1. \/ InqSorted(q, fs) = [ok |-> TRUE, q |-> h]
        \/ InqSorted(q, fs) = [ok |-> FALSE, q |-> q]
    BY <1>3 DEF InqSorted
  <2>2. <<fs>> \in Seq(FrameSet) /\ q.items \in Seq(FrameSet) /\ ToSet(<<fs>>) = {fs}
    BY DEF Queue, ToSet
  <2>3. ToSet(<<fs>> \o q.items) = {fs} \cup ToSet(q.items)
    BY <2>2, ConcatRange
  <2>4. h.items = <<fs>> \o q.items /\ h.isready = q.isready
    BY DEF Queue
  <2> HIDE DEF h
  <2>5. InqSorted(q, fs).q = h \/ InqSorted(q, fs).q = q
    BY <2>1
  <2>6. ToSet(h.items) \subseteq ToSet(q.items) \cup {fs}
    BY <2>3, <2>4
  <2>7. h = [q EXCEPT !.items = <<fs>> \o q.items]
    BY DEF h
  <2> QED
    BY <2>4, <2>5, <2>6, <2>7, Zenon
<1>4. CASE fs.req # 0 /\ old
  <2>1. InqSorted(q, fs) = [ok |-> FALSE, q |-> q]
    BY <1>4 DEF InqSorted
  <2> QED
    BY <1>4, <2>1
<1>5. CASE fs.req # 0 /\ ~old
  <2>1. \/ InqSorted(q, fs) = [ok |-> FALSE, q |-> q1]
        \/ InqSorted(q, fs) = [ok |-> TRUE, q |-> InsertSorted(q1, fs)]
    BY <1>5 DEF InqSorted
  <2> HIDE DEF q1
  <2> QED
    BY <1>1, <1>2, <1>5, <2>1
<1> QED
  BY <1>3, <1>4, <1>5

-----------------------------------------------------------------------------
(* The numbers of an output queue.                                         *)

\* The request id of the head, or of the next FrameSet when there is none.
Base(q) == q.nextseqno - Len(q.items)

\* The queue is numbered without a gap up to nextseqno, in one session.
Numbered(q) ==
    /\ Base(q) >= 1
    /\ \A i \in 1 .. Len(q.items) : /\ q.items[i].sid = q.sessionid
                                    /\ q.items[i].req = Base(q) + i - 1
    /\ q.sessionid = 0 => q.nextseqno = 1

\* _fsqueue_enq numbers on.
LEMMA EnqNumbered ==
    ASSUME NEW q \in Queue, Numbered(q), NEW msg \in Nat, NEW psid \in Nat \ {0}
    PROVE  LET r  == Enq(q, msg, psid)
               fs == [sid |-> EnqSession(q, psid), req |-> q.nextseqno, msg |-> msg]
           IN  \/ r = q /\ q.items # <<>>
               \/ /\ r \in Queue /\ Numbered(r) /\ Base(r) = Base(q)
                  /\ r.items = Append(q.items, fs) /\ fs \in FrameSet
                  /\ r.nextseqno = q.nextseqno + 1
                  /\ r.sessionid = EnqSession(q, psid) /\ r.sessionid # 0
<1> DEFINE fs == [sid |-> EnqSession(q, psid), req |-> q.nextseqno, msg |-> msg]
           r  == Enq(q, msg, psid)
           s  == Append(q.items, fs)
<1>1. /\ q.items \in Seq(FrameSet) /\ q.nextseqno \in Nat \ {0} /\ q.sessionid \in Nat
      /\ Len(q.items) \in Nat /\ DOMAIN q.items = 1 .. Len(q.items)
  BY LenProperties DEF Queue
<1>2. fs \in FrameSet /\ EnqSession(q, psid) # 0 /\ EnqSession(q, psid) \in Nat
  BY <1>1 DEF FrameSet, EnqSession
<1>3. CASE ~HasQSpace1(q)
  <2>1. q.items # <<>>
    BY <1>3, MaxQLenAssumption, EmptySeq DEF HasQSpace1
  <2> QED
    BY <1>3, <2>1 DEF Enq
<1>4. CASE HasQSpace1(q)
  <2>1. r = [q EXCEPT !.items = s, !.nextseqno = q.nextseqno + 1,
                      !.sessionid = EnqSession(q, psid)]
    BY <1>4 DEF Enq
  <2>2. /\ s \in Seq(FrameSet) /\ Len(s) = Len(q.items) + 1 /\ s[Len(q.items) + 1] = fs
        /\ \A i \in 1 .. Len(q.items) : s[i] = q.items[i]
    <3> HIDE DEF fs
    <3> QED
      BY <1>1, <1>2, AppendProperties
  <2>3. fs.sid = EnqSession(q, psid) /\ fs.req = q.nextseqno
    OBVIOUS
  <2> HIDE DEF s, fs
  <2>4. /\ r.items = s /\ r.nextseqno = q.nextseqno + 1 /\ r.sessionid = EnqSession(q, psid)
    BY <2>1 DEF Queue
  <2>5. r \in Queue
    BY <1>1, <1>2, EnqType
  <2> HIDE DEF r
  <2>6. Base(r) = Base(q)
    BY <1>1, <2>2, <2>4 DEF Base
  <2>7. ASSUME NEW i \in 1 .. Len(r.items)
        PROVE  r.items[i].sid = r.sessionid /\ r.items[i].req = Base(r) + i - 1
    <3>1. CASE i = Len(q.items) + 1
      <4>1. r.items[i].sid = r.sessionid /\ r.items[i].req = q.nextseqno
        BY <2>2, <2>3, <2>4, <3>1
      <4> QED
        BY <1>1, <2>6, <3>1, <4>1 DEF Base
    <3>2. CASE i # Len(q.items) + 1
      <4>1. i \in 1 .. Len(q.items) /\ r.items[i] = q.items[i]
        BY <1>1, <2>2, <2>4, <3>2
      <4>2. q.sessionid # 0
        BY <1>1, <4>1 DEF Numbered, Base
      <4> QED
        BY <2>4, <2>6, <4>1, <4>2 DEF Numbered, EnqSession
    <3> QED
      BY <3>1, <3>2
  <2>8. Numbered(r)
    BY <1>2, <2>4, <2>6, <2>7 DEF Numbered
  <2> QED
    BY <1>2, <2>4, <2>5, <2>6, <2>8 DEF s, fs, r
<1> QED
  BY <1>3, <1>4

\* _fsqueue_ackthrough takes off the head what is numbered up to the ACK, and
\* nothing else.
LEMMA AckThroughNumbered ==
    ASSUME NEW q \in Queue, Numbered(q), NEW seq \in SeqId, seq[2] < q.nextseqno
    PROVE  LET r == AckThrough(q, seq)
           IN  /\ r \in Queue /\ Numbered(r)
               /\ r.sessionid = q.sessionid /\ r.nextseqno = q.nextseqno
               /\ Base(r) = IF seq[2] < Base(q) THEN Base(q) ELSE seq[2] + 1
               /\ ToSet(r.items) \subseteq ToSet(q.items)
               /\ \A i \in 1 .. Len(q.items) :
                     q.items[i].req > seq[2] => q.items[i] \in ToSet(r.items)
<1> DEFINE P == {i \in DOMAIN q.items : q.items[i].req <= seq[2]}
           n == Cardinality(P)
           r == AckThrough(q, seq)
           k == IF seq[2] < Base(q) THEN 0 ELSE seq[2] - Base(q) + 1
           l == Len(q.items)
           s == SubSeq(q.items, n + 1, l)
<1>1. /\ q.items \in Seq(FrameSet) /\ q.nextseqno \in Nat \ {0} /\ q.sessionid \in Nat
      /\ l \in Nat /\ DOMAIN q.items = 1 .. l /\ seq[2] \in Nat
  BY LenProperties DEF Queue, SeqId
<1>2. r = [q EXCEPT !.items = s]
  BY DEF AckThrough
<1>3. r \in Queue
  BY AckThroughType
<1> HIDE DEF l
<1>4. /\ Base(q) = q.nextseqno - l /\ Base(q) >= 1 /\ Base(q) \in Int
      /\ \A i \in 1 .. l : /\ q.items[i].sid = q.sessionid
                           /\ q.items[i].req = Base(q) + i - 1
  BY <1>1 DEF Numbered, Base, l
<1>5. k \in 0 .. l
  BY <1>1, <1>4
<1>6. P = 1 .. k
  <2>1. ASSUME NEW i \in 1 .. l PROVE q.items[i].req <= seq[2] <=> i <= k
    <3> DEFINE b == Base(q)
               t == seq[2]
    <3>1. q.items[i].req = b + i - 1 /\ b \in Nat /\ b >= 1 /\ t \in Nat
      BY <1>1, <1>4
    <3>2. k = IF t < b THEN 0 ELSE t - b + 1
      OBVIOUS
    <3> HIDE DEF b, t, k
    <3> QED
      BY <1>1, <3>1, <3>2 DEF t
  <2> QED
    BY <1>1, <1>5, <2>1
<1>7. n = k
  <2>1. 1 \in Int /\ k \in Int
    BY <1>5
  <2>2. Cardinality(1 .. k) = IF 1 > k THEN 0 ELSE k - 1 + 1
    <3> HIDE DEF k
    <3> QED
      BY <2>1, FS_Interval, Zenon
  <2>3. n = Cardinality(1 .. k)
    BY <1>6
  <2> HIDE DEF n, P, k
  <2> QED
    BY <1>1, <1>5, <2>2, <2>3
<1> HIDE DEF n, P, k
<1>17. n \in Nat /\ n <= l
  BY <1>1, <1>5, <1>7
<1>8. n + 1 \in 1 .. l + 1 /\ l \in 0 .. l /\ n + 1 \in Int /\ l \in Int
  BY <1>1, <1>5, <1>7
<1>9. ToSet(s) \subseteq ToSet(q.items)
  BY <1>1, <1>8, PartRange DEF l
<1>10. /\ s \in Seq(FrameSet) /\ Len(s) = l - n
       /\ \A i \in 1 .. l - n : s[i] = q.items[n + i]
  <2>1. \A i \in n + 1 .. l : q.items[i] \in FrameSet
    BY <1>1, <1>8, ElementOfSeq DEF l
  <2>2. /\ s \in Seq(FrameSet) /\ Len(s) = (IF n + 1 <= l THEN l - (n + 1) + 1 ELSE 0)
        /\ \A i \in 1 .. l - (n + 1) + 1 : s[i] = q.items[n + 1 + i - 1]
    BY <1>8, <2>1, SubSeqProperties
  <2>3. Len(s) = l - n
    BY <1>1, <1>17, <1>8, <2>2
  <2>4. ASSUME NEW i \in 1 .. l - n PROVE s[i] = q.items[n + i]
    <3>1. i \in 1 .. l - (n + 1) + 1 /\ n + 1 + i - 1 = n + i
      BY <1>1, <1>17, <1>8
    <3> QED
      BY <2>2, <3>1
  <2> QED
    BY <2>2, <2>3, <2>4
<1> HIDE DEF s
<1>11. r.items = s /\ r.sessionid = q.sessionid /\ r.nextseqno = q.nextseqno
  BY <1>2 DEF Queue
<1> HIDE DEF r
<1>12. Base(r) = Base(q) + n
  <2>1. Base(r) = r.nextseqno - Len(r.items)
    BY DEF Base
  <2>2. Base(r) = q.nextseqno - (l - n)
    BY <1>10, <1>11, <2>1
  <2> QED
    BY <1>1, <1>4, <1>17, <2>2
<1>13. Base(r) = IF seq[2] < Base(q) THEN Base(q) ELSE seq[2] + 1
  BY <1>1, <1>4, <1>7, <1>12 DEF k
<1>14. ASSUME NEW i \in 1 .. Len(r.items)
       PROVE  r.items[i].sid = r.sessionid /\ r.items[i].req = Base(r) + i - 1
  <2>1. i \in 1 .. l - n /\ n + i \in 1 .. l
    BY <1>1, <1>17, <1>10, <1>11
  <2>2. r.items[i] = q.items[n + i]
    BY <1>10, <1>11, <2>1
  <2>3. q.items[n + i].sid = q.sessionid /\ q.items[n + i].req = Base(q) + (n + i) - 1
    BY <1>4, <2>1
  <2> QED
    BY <1>1, <1>4, <1>17, <1>11, <1>12, <2>1, <2>2, <2>3
<1>15. ASSUME NEW i \in 1 .. l, q.items[i].req > seq[2]
       PROVE  q.items[i] \in ToSet(r.items)
  <2>1. i > n
    <3>1. q.items[i].req = Base(q) + i - 1 /\ n = IF seq[2] < Base(q) THEN 0 ELSE seq[2] - Base(q) + 1
      BY <1>4, <1>7 DEF k
    <3>2. q.items[i].req > seq[2] /\ i \in Nat \ {0} /\ seq[2] \in Nat
      BY <1>1, <1>15
    <3>3. Base(q) \in Nat
      BY <1>4
    <3> QED
      BY <3>1, <3>2, <3>3
  <2>2. i - n \in 1 .. l - n /\ n + (i - n) = i
    BY <1>1, <1>17, <2>1
  <2>3. i - n \in DOMAIN s /\ s[i - n] = q.items[i]
    BY <1>10, <2>2, LenProperties
  <2> QED
    BY <1>11, <2>3 DEF ToSet
<1>16. Numbered(r)
  BY <1>1, <1>4, <1>17, <1>11, <1>12, <1>14 DEF Numbered
<1> QED
  BY <1>3, <1>9, <1>11, <1>13, <1>15, <1>16 DEF r, l

-----------------------------------------------------------------------------
(* One FsProtoElem.                                                        *)

\* What a handler may assume of the FsProtoElem it finds and must leave behind:
\* the conjunction of AuditFspe, OutputIsTimed, ShutTimerRuns and NoneIsDrained.
Sound(f) ==
    /\ f.unacked <=> f.outq.items # <<>>
    /\ f.outq.items # <<>> => f.nextrexmit /\ f.acktimeout
    /\ InShutdown(f.state) => f.shuttimer = "armed"
    /\ ~InShutdown(f.state) => f.shuttimer = "off"
    /\ f.state = "NONE" => f.outq.items = <<>>

SoundCtx(c) == c \in Context /\ Sound(c.f)

Frames == [kind : {"data", "ack"}, fs : FrameSet]

-----------------------------------------------------------------------------
(* Records: what a handler changes in a context.                           *)

LEMMA CtxFields ==
    ASSUME NEW c \in Context
    PROVE  /\ c.f \in Fspe /\ c.psid \in Nat /\ c.clk \in Clock /\ c.tx \in SUBSET Frames
           /\ \A f \in Fspe : /\ [c EXCEPT !.f = f] \in Context
                              /\ [c EXCEPT !.f = f].f = f
                              /\ [c EXCEPT !.f = f].clk = c.clk
                              /\ [c EXCEPT !.f = f].psid = c.psid
                              /\ [c EXCEPT !.f = f].tx = c.tx
BY Zenon DEF Context, Frames

LEMMA FspeFields ==
    ASSUME NEW f \in Fspe
    PROVE  /\ f.exists \in BOOLEAN /\ f.state \in State /\ f.outq \in Queue /\ f.inq \in Queue
           /\ f.lastacksent \in SeqId /\ f.lastseqsent \in SeqId
           /\ f.nextrexmit \in BOOLEAN /\ f.acktimeout \in BOOLEAN
           /\ f.shuttimer \in Timer /\ f.finalizetimer \in Timer
           /\ f.shutdown_complete \in BOOLEAN /\ f.unacked \in BOOLEAN /\ f.ipend \in BOOLEAN
           /\ f.outq.items \in Seq(FrameSet) /\ f.inq.items \in Seq(FrameSet)
           /\ f.outq.sessionid \in Nat /\ f.inq.sessionid \in Nat
           /\ f.outq.nextseqno \in Nat \ {0} /\ f.inq.nextseqno \in Nat \ {0}
           /\ f.outq.isready \in BOOLEAN /\ f.inq.isready \in BOOLEAN
BY Zenon DEF Fspe, Queue

\* Fspe and Context with their definitions hidden: one field at a time.
LEMMA SetFields ==
    ASSUME NEW f \in Fspe
    PROVE  /\ \A b \in BOOLEAN : /\ [f EXCEPT !.exists = b] \in Fspe
                                 /\ [f EXCEPT !.unacked = b] \in Fspe
                                 /\ [f EXCEPT !.ipend = b] \in Fspe
                                 /\ [f EXCEPT !.nextrexmit = b] \in Fspe
                                 /\ [f EXCEPT !.acktimeout = b] \in Fspe
           /\ \A t \in Timer : /\ [f EXCEPT !.shuttimer = t] \in Fspe
                               /\ [f EXCEPT !.finalizetimer = t] \in Fspe
           /\ \A s \in State : [f EXCEPT !.state = s] \in Fspe
           /\ \A s \in SeqId : /\ [f EXCEPT !.lastacksent = s] \in Fspe
                               /\ [f EXCEPT !.lastseqsent = s] \in Fspe
           /\ \A q \in Queue : /\ [f EXCEPT !.outq = q] \in Fspe
                               /\ [f EXCEPT !.inq = q] \in Fspe
BY Zenon DEF Fspe

LEMMA TransmitType ==
    ASSUME NEW c \in Context, NEW frames \in SUBSET Frames
    PROVE  /\ Transmit(c, frames) \in Context
           /\ Transmit(c, frames).f = c.f /\ Transmit(c, frames).clk = c.clk
           /\ Transmit(c, frames).psid = c.psid
BY Zenon DEF Transmit, Context, Frames

-----------------------------------------------------------------------------
(* _fsprotocol_fspe_reinit and A_CLOSE.                                    *)

\* A reset element is closed: nothing queued, nothing listed, no timer.
LEMMA ReinitSound ==
    ASSUME NEW f \in Fspe, f.unacked <=> f.outq.items # <<>>
    PROVE  /\ Reinit(f) \in Fspe
           /\ Reinit(f).outq.items = <<>> /\ Reinit(f).inq.items = <<>>
           /\ Reinit(f).unacked = FALSE /\ Reinit(f).state = "NONE"
           /\ Reinit(f).shuttimer = "off" /\ Reinit(f).finalizetimer = "off"
<1> DEFINE g   == StopTimers(f)
           oq  == [items |-> <<>>, nextseqno |-> FirstSeqno,
                   sessionid |-> IF f.outq.sessionid = 0 THEN 0 ELSE f.outq.sessionid + 1,
                   isready |-> FALSE]
           iq  == [items |-> <<>>, nextseqno |-> FirstSeqno, sessionid |-> 0,
                   isready |-> f.inq.isready /\ f.inq.items = <<>>]
           una == f.unacked /\ f.outq.items = <<>>
           ip  == f.ipend /\ f.inq.items = <<>>
<1>1. g \in Fspe /\ g.outq = f.outq /\ g.inq = f.inq /\ g.unacked = f.unacked
      /\ g.ipend = f.ipend /\ g.shuttimer = "off" /\ g.finalizetimer = "off"
  <2>1. "off" \in Timer
    BY DEF Timer
  <2> QED
    BY <2>1, Zenon DEF StopTimers, Fspe
<1>2. oq \in Queue /\ oq.items = <<>>
  BY FspeFields, EmptySeq DEF Queue, FirstSeqno
<1>3. iq \in Queue /\ iq.items = <<>>
  BY FspeFields, EmptySeq DEF Queue, FirstSeqno
<1>4. una = FALSE /\ ip \in BOOLEAN
  BY FspeFields
<1>5. NoSeq \in SeqId /\ "NONE" \in State
  BY DEF NoSeq, SeqId, State
<1>6. Reinit(f) = [g EXCEPT !.unacked = una, !.outq = oq, !.ipend = ip, !.inq = iq,
                            !.lastacksent = NoSeq, !.lastseqsent = NoSeq,
                            !.nextrexmit = FALSE, !.acktimeout = FALSE,
                            !.state = "NONE", !.shutdown_complete = FALSE]
  BY <1>1, ZenonT(60) DEF Reinit
<1> HIDE DEF g, oq, iq, una, ip
<1> QED
  BY <1>1, <1>2, <1>3, <1>4, <1>5, <1>6, ZenonT(60) DEF Fspe

LEMMA CloseSound ==
    ASSUME NEW f \in Fspe, f.unacked <=> f.outq.items # <<>>
    PROVE  /\ Close(f) \in Fspe /\ Sound(Close(f))
           /\ Close(f).state = "NONE"
<1>1. Reinit(f) \in Fspe
  BY ReinitSound
<1>2. "armed" \in Timer
  BY DEF Timer
<1>3. /\ Close(f) \in Fspe /\ Close(f).outq = Reinit(f).outq /\ Close(f).unacked = Reinit(f).unacked
      /\ Close(f).state = Reinit(f).state /\ Close(f).shuttimer = Reinit(f).shuttimer
  BY <1>1, <1>2, Zenon DEF Close, Fspe
<1> QED
  BY <1>3, ReinitSound DEF Sound, InShutdown

-----------------------------------------------------------------------------
(* The automaton.                                                          *)

\* Every cell of the two tables: A_CLOSE leads to NONE, A_TIMER to a shutdown
\* state from another one, and no other cell enters or leaves a shutdown state.
LEMMA Cells ==
    ASSUME NEW s \in State, NEW i \in Input
    PROVE  /\ NextState(s, i) \in State
           /\ "CLOSE" \in Actions(s, i) => NextState(s, i) = "NONE"
           /\ "CLOSE" \notin Actions(s, i) /\ NextState(s, i) = "NONE" => s = "NONE"
           /\ "TIMER" \in Actions(s, i) => /\ ~InShutdown(s) /\ InShutdown(NextState(s, i))
                                           /\ "NOTIME" \notin Actions(s, i)
                                           /\ "CLOSE" \notin Actions(s, i)
           /\ "NOTIME" \in Actions(s, i) => "CLOSE" \in Actions(s, i)
           /\ "TIMER" \notin Actions(s, i) /\ "CLOSE" \notin Actions(s, i)
                => (InShutdown(s) <=> InShutdown(NextState(s, i)))
BY DEF State, Input, NextState, Actions, InShutdown

\* The end of _fsprotocol_fsa, when the handler left the element consistent and
\* the state it was entered in says whether the shutdown timer runs.
LEMMA FsaFinishSound ==
    ASSUME NEW c \in Context, NEW s \in State, NEW i \in Input,
           c.f.unacked <=> c.f.outq.items # <<>>,
           "CLOSE" \notin Actions(s, i) =>
              /\ c.f.outq.items # <<>> => c.f.nextrexmit /\ c.f.acktimeout
              /\ s = "NONE" /\ NextState(s, i) = "NONE" => c.f.outq.items = <<>>
              /\ InShutdown(s) => c.f.shuttimer = "armed"
              /\ ~InShutdown(s) => c.f.shuttimer = "off"
    PROVE  /\ SoundCtx(FsaFinish(c, s, i))
           /\ FsaFinish(c, s, i).f.state = NextState(s, i)
           /\ FsaFinish(c, s, i).clk = c.clk /\ FsaFinish(c, s, i).psid = c.psid
           /\ "CLOSE" \notin Actions(s, i) => FsaFinish(c, s, i).f.outq = c.f.outq
<1> DEFINE acts == Actions(s, i)
           t    == ShutTimer(c.f.shuttimer, acts)
           f1   == [c.f EXCEPT !.shuttimer = t]
           f2   == IF "CLOSE" \in acts THEN Close(f1) ELSE f1
           f3   == [f2 EXCEPT !.state = NextState(s, i)]
<1>1. c.f \in Fspe /\ c.f.shuttimer \in Timer
  BY CtxFields, FspeFields
<1>2. t \in Timer
  BY <1>1 DEF ShutTimer, Timer
<1>3. /\ f1 \in Fspe /\ f1.unacked = c.f.unacked /\ f1.outq = c.f.outq /\ f1.shuttimer = t
      /\ f1.nextrexmit = c.f.nextrexmit /\ f1.acktimeout = c.f.acktimeout
  BY <1>1, <1>2, Zenon DEF Fspe
<1>4. FsaFinish(c, s, i) = [c EXCEPT !.f = f3]
  BY Zenon DEF FsaFinish
<1>5. NextState(s, i) \in State
  BY Cells
<1>6. CASE "CLOSE" \in acts
  <2>1. f2 \in Fspe /\ Sound(f2) /\ f2.state = "NONE"
    <3> HIDE DEF f1
    <3> QED
      BY <1>3, <1>6, CloseSound
  <2>2. NextState(s, i) = "NONE"
    BY <1>6, Cells
  <2> HIDE DEF f2
  <2>3. f3 \in Fspe /\ Sound(f3) /\ f3.state = "NONE"
    <3>1. f3 \in Fspe /\ f3.state = "NONE" /\ f3.unacked = f2.unacked /\ f3.outq = f2.outq
          /\ f3.shuttimer = f2.shuttimer /\ f3.nextrexmit = f2.nextrexmit
          /\ f3.acktimeout = f2.acktimeout
      BY <1>5, <2>1, <2>2, Zenon DEF Fspe
    <3> QED
      BY <2>1, <3>1 DEF Sound
  <2> HIDE DEF f3
  <2> QED
    BY <1>4, <1>6, <2>2, <2>3, CtxFields DEF SoundCtx
<1>7. CASE "CLOSE" \notin acts
  <2>1. f2 = f1
    BY <1>7
  <2>2. f3 \in Fspe /\ f3.state = NextState(s, i) /\ f3.unacked = c.f.unacked /\ f3.outq = c.f.outq
        /\ f3.shuttimer = t /\ f3.nextrexmit = c.f.nextrexmit /\ f3.acktimeout = c.f.acktimeout
    <3> HIDE DEF f1, t
    <3> QED
      BY <1>3, <1>5, <2>1, Zenon DEF Fspe
  <2>3. /\ InShutdown(NextState(s, i)) => t = "armed"
        /\ ~InShutdown(NextState(s, i)) => t = "off"
    BY <1>7, Cells DEF ShutTimer
  <2>4. NextState(s, i) = "NONE" => c.f.outq.items = <<>>
    BY <1>7, Cells
  <2> HIDE DEF f3, t
  <2>5. Sound(f3)
    BY <1>7, <2>2, <2>3, <2>4 DEF Sound
  <2> QED
    BY <1>4, <1>7, <2>2, <2>5, CtxFields DEF SoundCtx
<1> QED
  BY <1>6, <1>7

QuietInput == {"GOTSTART", "REQSEND", "ACKTIMEOUT", "OUTALLDONE"}

LEMMA FsaQuietSound ==
    ASSUME NEW c, SoundCtx(c), NEW i \in QuietInput
    PROVE  /\ SoundCtx(FsaQuiet(c, i))
           /\ FsaQuiet(c, i).f.state = NextState(c.f.state, i)
           /\ FsaQuiet(c, i).clk = c.clk /\ FsaQuiet(c, i).psid = c.psid
           /\ ~InShutdown(c.f.state) => ~InShutdown(FsaQuiet(c, i).f.state)
           /\ i = "REQSEND" => /\ FsaQuiet(c, i).f.outq = c.f.outq
                               /\ FsaQuiet(c, i).f.state # "NONE"
<1>1. c \in Context /\ c.f.state \in State /\ i \in Input /\ Sound(c.f)
  BY CtxFields, FspeFields DEF SoundCtx, QuietInput, Input
<1>2. "TIMER" \notin Actions(c.f.state, i)
  BY <1>1 DEF State, QuietInput, Actions, InShutdown
<1>3. ~InShutdown(c.f.state) => ~InShutdown(NextState(c.f.state, i))
  BY <1>1, <1>2, Cells DEF InShutdown
<1>4. i = "REQSEND" => NextState(c.f.state, i) # "NONE" /\ "CLOSE" \notin Actions(c.f.state, i)
  BY <1>1 DEF State, NextState, Actions, InShutdown
<1>5. FsaQuiet(c, i) = FsaFinish(c, c.f.state, i)
  BY DEF FsaQuiet
<1> QED
  BY <1>1, <1>3, <1>4, <1>5, FsaFinishSound DEF Sound

-----------------------------------------------------------------------------
(* Single assignments that leave a sound element sound.                    *)

\* g differs from f in nothing that Sound reads, except that timeouts may be set.
Follows(f, g) ==
    /\ g \in Fspe /\ g.outq = f.outq /\ g.unacked = f.unacked
    /\ g.state = f.state /\ g.shuttimer = f.shuttimer
    /\ f.outq.items # <<>> => /\ f.nextrexmit => g.nextrexmit
                              /\ f.acktimeout => g.acktimeout

LEMMA FollowsSound ==
    ASSUME NEW f, NEW g, Follows(f, g), Sound(f)
    PROVE  Sound(g)
BY DEF Follows, Sound

LEMMA Touch ==
    ASSUME NEW f \in Fspe
    PROVE  /\ \A s \in SeqId : /\ Follows(f, [f EXCEPT !.lastseqsent = s])
                               /\ Follows(f, [f EXCEPT !.lastacksent = s])
           /\ \A q \in Queue : Follows(f, [f EXCEPT !.inq = q])
           /\ \A b \in BOOLEAN : Follows(f, [f EXCEPT !.ipend = b])
           /\ Follows(f, [f EXCEPT !.exists = TRUE])
           /\ Follows(f, [f EXCEPT !.acktimeout = TRUE])
           /\ Follows(f, [f EXCEPT !.nextrexmit = TRUE])
           /\ f.outq.items = <<>> => Follows(f, [f EXCEPT !.nextrexmit = FALSE])
           /\ \A t \in Timer : Follows(f, [f EXCEPT !.finalizetimer = t])
<1> USE DEF Follows, Fspe
<1>1. ASSUME NEW s \in SeqId
      PROVE  Follows(f, [f EXCEPT !.lastseqsent = s]) /\ Follows(f, [f EXCEPT !.lastacksent = s])
  BY Zenon
<1>2. ASSUME NEW q \in Queue PROVE Follows(f, [f EXCEPT !.inq = q])
  BY Zenon
<1>3. ASSUME NEW b \in BOOLEAN PROVE Follows(f, [f EXCEPT !.ipend = b])
  BY Zenon
<1>4. ASSUME NEW t \in Timer PROVE Follows(f, [f EXCEPT !.finalizetimer = t])
  BY Zenon
<1>5. Follows(f, [f EXCEPT !.exists = TRUE])
  BY Zenon
<1>6. Follows(f, [f EXCEPT !.acktimeout = TRUE])
  BY Zenon
<1>7. Follows(f, [f EXCEPT !.nextrexmit = TRUE])
  BY Zenon
<1>8. f.outq.items = <<>> => Follows(f, [f EXCEPT !.nextrexmit = FALSE])
  BY Zenon
<1> HIDE DEF Follows, Fspe
<1> QED
  BY <1>1, <1>2, <1>3, <1>4, <1>5, <1>6, <1>7, <1>8, Zenon

\* A handler that changes the element of its context so leaves the context sound.
LEMMA TouchCtx ==
    ASSUME NEW c, SoundCtx(c), NEW g, Follows(c.f, g)
    PROVE  /\ SoundCtx([c EXCEPT !.f = g]) /\ [c EXCEPT !.f = g].f = g
           /\ [c EXCEPT !.f = g].clk = c.clk /\ [c EXCEPT !.f = g].psid = c.psid
<1>1. g \in Fspe /\ Sound(g)
  BY FollowsSound DEF Follows, SoundCtx
<1> QED
  BY <1>1, CtxFields, Zenon DEF SoundCtx

\* The clock of a context says nothing of the element.
LEMMA SetClock ==
    ASSUME NEW c \in Context, NEW k \in Clock
    PROVE  /\ [c EXCEPT !.clk = k] \in Context
           /\ [c EXCEPT !.clk = k].f = c.f /\ [c EXCEPT !.clk = k].psid = c.psid
BY Zenon DEF Context

-----------------------------------------------------------------------------
(* _fsprotocol_xmitifwecan.                                                *)

LEMMA FrameTypes ==
    /\ \A fs \in FrameSet : Data(fs) \in Frames /\ Seqno(fs) \in SeqId
    /\ \A seq \in SeqId : Ack(seq) \in Frames
BY DEF Data, Ack, Frames, FrameSet, Seqno, SeqId, CONNSHUT

\* The part that sends: it touches lastseqsent and the socket only.
LEMMA FirstTransmission ==
    ASSUME NEW c, SoundCtx(c), NEW v \in SeqId, NEW frames \in SUBSET Frames
    PROVE  \A d : d = [Transmit(c, frames) EXCEPT !.f.lastseqsent = v] =>
               SoundCtx(d) /\ Follows(c.f, d.f) /\ d.clk = c.clk /\ d.psid = c.psid
<1> TAKE d
<1> HAVE d = [Transmit(c, frames) EXCEPT !.f.lastseqsent = v]
<1> DEFINE t == Transmit(c, frames)
           g == [c.f EXCEPT !.lastseqsent = v]
<1>1. c \in Context /\ c.f \in Fspe /\ Sound(c.f)
  BY CtxFields DEF SoundCtx
<1>2. t \in Context /\ t.f = c.f /\ t.clk = c.clk /\ t.psid = c.psid
  BY <1>1, TransmitType
<1>3. Follows(c.f, g)
  BY <1>1, Touch
<1>4. d = [t EXCEPT !.f = g]
  BY <1>2, Zenon
<1> HIDE DEF t, g
<1>5. SoundCtx(t)
  BY <1>1, <1>2 DEF SoundCtx
<1>6. Follows(t.f, g)
  BY <1>2, <1>3
<1>7. /\ SoundCtx([t EXCEPT !.f = g]) /\ [t EXCEPT !.f = g].f = g
      /\ [t EXCEPT !.f = g].clk = t.clk /\ [t EXCEPT !.f = g].psid = t.psid
  BY <1>5, <1>6, TouchCtx
<1> QED
  BY <1>2, <1>3, <1>4, <1>7, Zenon

LEMMA SetAckTimeout ==
    ASSUME NEW c, SoundCtx(c), NEW d, d = [c EXCEPT !.f.acktimeout = TRUE]
    PROVE  SoundCtx(d) /\ Follows(c.f, d.f) /\ d.clk = c.clk /\ d.psid = c.psid
<1> DEFINE g == [c.f EXCEPT !.acktimeout = TRUE]
<1>1. Follows(c.f, g)
  BY CtxFields, Touch DEF SoundCtx
<1>2. d = [c EXCEPT !.f = g]
  BY Zenon
<1> HIDE DEF g
<1>3. /\ SoundCtx([c EXCEPT !.f = g]) /\ [c EXCEPT !.f = g].f = g
      /\ [c EXCEPT !.f = g].clk = c.clk /\ [c EXCEPT !.f = g].psid = c.psid
  BY <1>1, TouchCtx
<1> QED
  BY <1>1, <1>2, <1>3, Zenon

LEMMA StopRexmit ==
    ASSUME NEW c, SoundCtx(c), c.f.outq.items = <<>>, NEW d, d = [c EXCEPT !.f.nextrexmit = FALSE]
    PROVE  SoundCtx(d) /\ Follows(c.f, d.f) /\ d.clk = c.clk /\ d.psid = c.psid
<1> DEFINE g == [c.f EXCEPT !.nextrexmit = FALSE]
<1>1. Follows(c.f, g)
  BY CtxFields, Touch DEF SoundCtx
<1>2. d = [c EXCEPT !.f = g]
  BY Zenon
<1> HIDE DEF g
<1>3. /\ SoundCtx([c EXCEPT !.f = g]) /\ [c EXCEPT !.f = g].f = g
      /\ [c EXCEPT !.f = g].clk = c.clk /\ [c EXCEPT !.f = g].psid = c.psid
  BY <1>1, TouchCtx
<1> QED
  BY <1>1, <1>2, <1>3, Zenon

\* Transmission keeps the element sound, and starts no shutdown.
LEMMA XmitSound ==
    ASSUME NEW c, SoundCtx(c)
    PROVE  /\ SoundCtx(Xmit(c)) /\ Xmit(c).psid = c.psid
           /\ ~InShutdown(c.f.state) => ~InShutdown(Xmit(c).f.state)
<1> DEFINE q      == c.f.outq.items
           unsent == Unsent(c.f)
           new    == {Data(q[i]) : i \in unsent}
           v      == IF unsent # {} THEN Seqno(q[Len(q)]) ELSE Transmit(c, new).f.lastseqsent
           c1     == [Transmit(c, new) EXCEPT !.f.lastseqsent = v]
           d2     == Transmit(c1, {Data(Head(q))})
           c2     == [d2 EXCEPT !.clk = "early"]
           c3     == FsaQuiet(c2, "ACKTIMEOUT")
           c4     == [c3 EXCEPT !.f.acktimeout = TRUE]
           c5     == [c1 EXCEPT !.f.nextrexmit = FALSE]
<1>1. c \in Context /\ c.f \in Fspe /\ Sound(c.f) /\ q \in Seq(FrameSet)
      /\ c.f.lastseqsent \in SeqId
  BY CtxFields, FspeFields DEF SoundCtx
<1>2. Len(q) \in Nat /\ DOMAIN q = 1 .. Len(q) /\ (\A i \in 1 .. Len(q) : q[i] \in FrameSet)
  BY <1>1, LenProperties, ElementOfSeq
<1>3. unsent \subseteq DOMAIN q
  BY DEF Unsent
<1>4. new \in SUBSET Frames
  <2> SUFFICES ASSUME NEW i \in unsent PROVE Data(q[i]) \in Frames
    OBVIOUS
  <2> QED
    BY <1>2, <1>3, FrameTypes
<1>5. v \in SeqId
  <2>1. CASE unsent = {}
    BY <1>1, <1>4, <2>1, TransmitType
  <2>2. CASE unsent # {}
    <3>1. Len(q) \in 1 .. Len(q)
      BY <1>2, <1>3, <2>2
    <3> QED
      BY <1>2, <2>2, <3>1, FrameTypes
  <2> QED
    BY <2>1, <2>2
<1> HIDE DEF v, new
<1>6. c1 = [Transmit(c, new) EXCEPT !.f.lastseqsent = v]
  OBVIOUS
<1> HIDE DEF c1
<1>7. SoundCtx(c1) /\ Follows(c.f, c1.f) /\ c1.clk = c.clk /\ c1.psid = c.psid
  <2>1. \A d : d = [Transmit(c, new) EXCEPT !.f.lastseqsent = v] =>
              SoundCtx(d) /\ Follows(c.f, d.f) /\ d.clk = c.clk /\ d.psid = c.psid
    BY <1>4, <1>5, FirstTransmission
  <2> QED
    BY <1>6, <2>1, Zenon
<1>8. ASSUME q # <<>>
      PROVE  SoundCtx(c2) /\ c2.f = c1.f /\ c2.psid = c.psid
  <2>1. Head(q) \in FrameSet
    BY <1>1, <1>8
  <2>2. {Data(Head(q))} \in SUBSET Frames
    BY <2>1, FrameTypes
  <2>3. d2 \in Context /\ d2.f = c1.f /\ d2.psid = c1.psid
    BY <1>7, <2>2, TransmitType DEF SoundCtx
  <2> HIDE DEF d2
  <2>4. "early" \in Clock
    BY DEF Clock
  <2> QED
    BY <1>7, <2>3, <2>4, SetClock DEF SoundCtx
<1> HIDE DEF c2
<1>9. ASSUME q # <<>>
      PROVE  /\ SoundCtx(c4) /\ c4.psid = c.psid
             /\ ~InShutdown(c.f.state) => ~InShutdown(c4.f.state)
  <2>1. SoundCtx(c3) /\ c3.psid = c.psid
        /\ (~InShutdown(c2.f.state) => ~InShutdown(c3.f.state))
    BY <1>8, <1>9, FsaQuietSound DEF QuietInput
  <2> HIDE DEF c3
  <2>2. SoundCtx(c4) /\ Follows(c3.f, c4.f) /\ c4.psid = c3.psid
    BY <2>1, SetAckTimeout
  <2> HIDE DEF c4
  <2> QED
    BY <1>7, <1>8, <1>9, <2>1, <2>2 DEF Follows
<1>10. ASSUME q = <<>>
      PROVE  SoundCtx(c5) /\ c5.psid = c.psid /\ c5.f.state = c.f.state
  <2>1. c1.f.outq.items = <<>>
    BY <1>7, <1>10 DEF Follows
  <2>2. SoundCtx(c5) /\ Follows(c1.f, c5.f) /\ c5.psid = c1.psid
    BY <1>7, <2>1, StopRexmit
  <2> HIDE DEF c5
  <2> QED
    BY <1>7, <2>2 DEF Follows
<1>11. q # <<>> => c.f.nextrexmit
  BY <1>1 DEF Sound
<1>12. \/ Xmit(c) = c1
       \/ q # <<>> /\ Xmit(c) = c2
       \/ q # <<>> /\ Xmit(c) = c4
       \/ q = <<>> /\ Xmit(c) = c5
  BY <1>11 DEF Xmit, c1, c2, v, new
<1> HIDE DEF c3, c4, c5
<1> QED
  BY <1>7, <1>8, <1>9, <1>10, <1>12 DEF Follows

-----------------------------------------------------------------------------
(* _fsprotocol_send1, _fsprotocol_ackseqno and the inputs that shut down.  *)

LEMMA StartOutputCtx ==
    ASSUME NEW c \in Context
    PROVE  LET d == StartOutput(c)
           IN  /\ d \in Context /\ d.psid = c.psid /\ d.f.outq = c.f.outq
               /\ d.f.unacked = TRUE /\ d.f.nextrexmit = TRUE /\ d.f.acktimeout = TRUE
               /\ d.f.state = c.f.state /\ d.f.shuttimer = c.f.shuttimer
<1> DEFINE g1 == [c.f EXCEPT !.unacked = TRUE]
           g2 == [g1 EXCEPT !.nextrexmit = TRUE]
           g3 == [g2 EXCEPT !.acktimeout = TRUE]
           d1 == [c EXCEPT !.f = g3]
           d  == [d1 EXCEPT !.clk = "early"]
<1>1. c.f \in Fspe /\ "early" \in Clock
  BY CtxFields DEF Clock
<1>2. /\ g3 \in Fspe /\ g3.outq = c.f.outq /\ g3.unacked = TRUE /\ g3.nextrexmit = TRUE
      /\ g3.acktimeout = TRUE /\ g3.state = c.f.state /\ g3.shuttimer = c.f.shuttimer
  BY <1>1, Zenon DEF Fspe
<1>3. StartOutput(c) = d
  BY Zenon DEF StartOutput, Context
<1> HIDE DEF g3
<1>4. d1 \in Context /\ d1.f = g3 /\ d1.psid = c.psid
  BY <1>2, CtxFields
<1> HIDE DEF d1
<1>5. d \in Context /\ d.f = g3 /\ d.psid = c.psid
  BY <1>1, <1>4, SetClock
<1> QED
  BY <1>2, <1>3, <1>5

LEMMA SetOutq ==
    ASSUME NEW c \in Context, NEW q \in Queue
    PROVE  \A d : d = [c EXCEPT !.f.outq = q] =>
              /\ d \in Context /\ d.psid = c.psid /\ d.f.outq = q
              /\ d.f.unacked = c.f.unacked /\ d.f.nextrexmit = c.f.nextrexmit
              /\ d.f.acktimeout = c.f.acktimeout /\ d.f.state = c.f.state
              /\ d.f.shuttimer = c.f.shuttimer
<1> TAKE d
<1> HAVE d = [c EXCEPT !.f.outq = q]
<1> DEFINE g == [c.f EXCEPT !.outq = q]
<1>1. /\ g \in Fspe /\ g.outq = q /\ g.unacked = c.f.unacked /\ g.nextrexmit = c.f.nextrexmit
      /\ g.acktimeout = c.f.acktimeout /\ g.state = c.f.state /\ g.shuttimer = c.f.shuttimer
  <2>1. c.f \in Fspe
    BY CtxFields
  <2> QED
    BY <2>1, Zenon DEF Fspe
<1>2. d = [c EXCEPT !.f = g]
  BY Zenon
<1> HIDE DEF g
<1>3. /\ [c EXCEPT !.f = g] \in Context /\ [c EXCEPT !.f = g].f = g
      /\ [c EXCEPT !.f = g].psid = c.psid
  BY <1>1, CtxFields
<1> QED
  BY <1>1, <1>2, <1>3, Zenon

LEMMA Send1Sound ==
    ASSUME NEW c, SoundCtx(c), NEW msg \in Nat
    PROVE  /\ SoundCtx(Send1(c, msg)) /\ Send1(c, msg).psid = c.psid
           /\ ~InShutdown(c.f.state) => ~InShutdown(Send1(c, msg).f.state)
<1>1. CASE InShutdown(c.f.state)
  BY <1>1 DEF Send1
<1>2. CASE ~InShutdown(c.f.state)
  <2> DEFINE c1 == FsaQuiet(c, "REQSEND")
             c2 == IF c1.f.outq.items # <<>> THEN c1 ELSE StartOutput(c1)
             q  == Enq(c2.f.outq, msg, c.psid)
             d  == [c2 EXCEPT !.f.outq = q]
  <2>1. /\ SoundCtx(c1) /\ c1.psid = c.psid /\ ~InShutdown(c1.f.state)
        /\ c1.f.state # "NONE"
    BY <1>2, FsaQuietSound DEF QuietInput
  <2>2. Send1(c, msg) = Xmit(d)
    BY <1>2 DEF Send1
  <2> HIDE DEF c1
  <2>3. /\ c2 \in Context /\ c2.psid = c.psid /\ c2.f.unacked = TRUE
        /\ c2.f.nextrexmit = TRUE /\ c2.f.acktimeout = TRUE
        /\ c2.f.state = c1.f.state /\ c2.f.shuttimer = "off"
    <3>1. CASE c1.f.outq.items # <<>>
      BY <2>1, <3>1, CtxFields, FspeFields DEF SoundCtx, Sound
    <3>2. CASE c1.f.outq.items = <<>>
      <4>1. c1 \in Context /\ c1.f.shuttimer = "off"
        BY <2>1 DEF SoundCtx, Sound
      <4> QED
        BY <2>1, <3>2, <4>1, StartOutputCtx
    <3> QED
      BY <3>1, <3>2
  <2> HIDE DEF c2
  <2>4. q \in Queue /\ q.items # <<>>
    <3>1. c2.f.outq \in Queue /\ c.psid \in Nat
      BY <2>3, CtxFields, FspeFields DEF SoundCtx
    <3> QED
      BY <3>1, EnqType
  <2> HIDE DEF q
  <2>5. \A x : x = [c2 EXCEPT !.f.outq = q] =>
              /\ x \in Context /\ x.psid = c2.psid /\ x.f.outq = q
              /\ x.f.unacked = c2.f.unacked /\ x.f.nextrexmit = c2.f.nextrexmit
              /\ x.f.acktimeout = c2.f.acktimeout /\ x.f.state = c2.f.state
              /\ x.f.shuttimer = c2.f.shuttimer
    BY <2>3, <2>4, SetOutq
  <2>6. /\ d \in Context /\ d.psid = c2.psid /\ d.f.outq = q
        /\ d.f.unacked = c2.f.unacked /\ d.f.nextrexmit = c2.f.nextrexmit
        /\ d.f.acktimeout = c2.f.acktimeout /\ d.f.state = c2.f.state
        /\ d.f.shuttimer = c2.f.shuttimer
    BY <2>5, Zenon
  <2> HIDE DEF d
  <2>7. SoundCtx(d)
    BY <2>1, <2>3, <2>4, <2>6 DEF SoundCtx, Sound
  <2> QED
    BY <2>1, <2>2, <2>3, <2>6, <2>7, XmitSound
<1> QED
  BY <1>1, <1>2

\* An ACK is sent and remembered; nothing that Sound reads changes.
LEMMA AckSeqnoSound ==
    ASSUME NEW c, SoundCtx(c), NEW seq \in SeqId
    PROVE  /\ SoundCtx(AckSeqno(c, seq)) /\ AckSeqno(c, seq).psid = c.psid
           /\ AckSeqno(c, seq).f.state = c.f.state
<1>1. CASE c.f.inq.sessionid \notin {0, seq[1]}
  BY <1>1 DEF AckSeqno
<1>2. CASE c.f.inq.sessionid \in {0, seq[1]}
  <2> DEFINE t == Transmit(c, {Ack(seq)})
             v == IF t.f.lastacksent = NoSeq \/ SeqLess(t.f.lastacksent, seq)
                    THEN seq ELSE t.f.lastacksent
             g == [t.f EXCEPT !.lastacksent = v]
             d == [t EXCEPT !.f = g]
  <2>1. {Ack(seq)} \in SUBSET Frames
    BY FrameTypes
  <2>2. t \in Context /\ t.f = c.f /\ t.psid = c.psid
    BY <2>1, TransmitType DEF SoundCtx
  <2>3. AckSeqno(c, seq) = d
    BY <1>2, Zenon DEF AckSeqno
  <2> HIDE DEF t
  <2>4. v \in SeqId /\ t.f \in Fspe /\ SoundCtx(t)
    BY <2>2, CtxFields, FspeFields DEF SoundCtx
  <2> HIDE DEF v
  <2>5. Follows(t.f, g)
    BY <2>4, Touch
  <2> HIDE DEF g
  <2>6. SoundCtx(d) /\ d.f = g /\ d.psid = t.psid
    BY <2>4, <2>5, TouchCtx
  <2> HIDE DEF d
  <2> QED
    BY <2>2, <2>3, <2>5, <2>6 DEF Follows
<1> QED
  BY <1>1, <1>2

\* REQSHUTDOWN and RCVSHUTDOWN: A_SNDSHUT runs in the states outside shutdown
\* only, and its send1 does not start the shutdown by itself; so the timer is
\* still off when A_TIMER starts it.
LEMMA FsaShutSound ==
    ASSUME NEW c, SoundCtx(c), NEW i \in {"REQSHUTDOWN", "RCVSHUTDOWN"}, NEW seq \in SeqId
    PROVE  SoundCtx(FsaShut(c, i, seq)) /\ FsaShut(c, i, seq).psid = c.psid
<1> DEFINE s    == c.f.state
           acts == Actions(s, i)
           c1   == IF "ACKME" \in acts THEN AckSeqno(c, seq) ELSE c
           c2   == IF "SNDSHUT" \in acts THEN Send1(c1, CONNSHUT) ELSE c1
<1>1. s \in State /\ i \in Input
  BY CtxFields, FspeFields DEF SoundCtx, Input
<1>2. SoundCtx(c1) /\ c1.psid = c.psid /\ c1.f.state = s
  BY AckSeqnoSound
<1>3. FsaShut(c, i, seq) = FsaFinish(c2, s, i)
  BY DEF FsaShut
<1> HIDE DEF c1
<1>4. /\ "SNDSHUT" \in acts => ~InShutdown(s) /\ NextState(s, i) # "NONE"
      /\ "CLOSE" \notin acts /\ "SNDSHUT" \notin acts => InShutdown(s)
  BY <1>1 DEF State, Actions, NextState, InShutdown
<1>5. SoundCtx(c2) /\ c2.psid = c.psid
      /\ ("SNDSHUT" \in acts => ~InShutdown(c2.f.state))
      /\ ("SNDSHUT" \notin acts => c2.f.state = s)
  <2>1. CONNSHUT \in Nat
    BY DEF CONNSHUT
  <2> HIDE DEF acts
  <2> QED
    BY <1>2, <1>4, <2>1, Send1Sound
<1> HIDE DEF c2
<1>6. /\ c2 \in Context /\ (c2.f.unacked <=> c2.f.outq.items # <<>>)
      /\ c2.f.outq.items # <<>> => c2.f.nextrexmit /\ c2.f.acktimeout
  BY <1>5 DEF SoundCtx, Sound
<1>7. "CLOSE" \notin acts =>
        /\ s = "NONE" /\ NextState(s, i) = "NONE" => c2.f.outq.items = <<>>
        /\ InShutdown(s) => c2.f.shuttimer = "armed"
        /\ ~InShutdown(s) => c2.f.shuttimer = "off"
  <2> HIDE DEF acts
  <2> QED
    BY <1>4, <1>5 DEF SoundCtx, Sound, InShutdown
<1> QED
  BY <1>1, <1>3, <1>5, <1>6, <1>7, FsaFinishSound

-----------------------------------------------------------------------------
(* _fsprotocol_receive and _fsprotocol_read.                               *)

\* Two assignments in a row.
LEMMA Follows2 ==
    ASSUME NEW f, NEW g, NEW h, Follows(f, g), Follows(g, h)
    PROVE  Follows(f, h)
BY DEF Follows

LEMMA OutputDoneCtx ==
    ASSUME NEW c \in Context, NEW q \in Queue
    PROVE  LET d == OutputDone(c, q)
           IN  /\ d \in Context /\ d.psid = c.psid /\ d.f.outq = q
               /\ d.f.unacked = FALSE /\ d.f.state = c.f.state
               /\ d.f.shuttimer = c.f.shuttimer
<1> DEFINE g1 == [c.f EXCEPT !.outq = q]
           g2 == [g1 EXCEPT !.unacked = FALSE]
           g3 == [g2 EXCEPT !.nextrexmit = FALSE]
           g4 == [g3 EXCEPT !.acktimeout = FALSE]
           d  == [c EXCEPT !.f = g4]
<1>1. c.f \in Fspe
  BY CtxFields
<1>2. /\ g4 \in Fspe /\ g4.outq = q /\ g4.unacked = FALSE
      /\ g4.state = c.f.state /\ g4.shuttimer = c.f.shuttimer
  BY <1>1, Zenon DEF Fspe
<1>3. OutputDone(c, q) = d
  BY Zenon DEF OutputDone, Context
<1> HIDE DEF g4
<1>4. d \in Context /\ d.f = g4 /\ d.psid = c.psid
  BY <1>2, CtxFields
<1> QED
  BY <1>2, <1>3, <1>4

\* The output queue gets shorter and its clocks start again.
LEMMA OutputLeftCtx ==
    ASSUME NEW c \in Context, NEW q \in Queue
    PROVE  \A d : d = [c EXCEPT !.f.outq = q, !.f.nextrexmit = TRUE,
                                !.f.acktimeout = TRUE, !.clk = "early"] =>
               /\ d \in Context /\ d.psid = c.psid /\ d.f.outq = q
               /\ d.f.unacked = c.f.unacked /\ d.f.nextrexmit = TRUE /\ d.f.acktimeout = TRUE
               /\ d.f.state = c.f.state /\ d.f.shuttimer = c.f.shuttimer
<1> DEFINE g1 == [c.f EXCEPT !.outq = q]
           g2 == [g1 EXCEPT !.nextrexmit = TRUE]
           g3 == [g2 EXCEPT !.acktimeout = TRUE]
           d1 == [c EXCEPT !.f = g3]
           d  == [d1 EXCEPT !.clk = "early"]
<1>1. c.f \in Fspe /\ "early" \in Clock
  BY CtxFields DEF Clock
<1>2. /\ g3 \in Fspe /\ g3.outq = q /\ g3.unacked = c.f.unacked /\ g3.nextrexmit = TRUE
      /\ g3.acktimeout = TRUE /\ g3.state = c.f.state /\ g3.shuttimer = c.f.shuttimer
  BY <1>1, Zenon DEF Fspe
<1>3. [c EXCEPT !.f.outq = q, !.f.nextrexmit = TRUE, !.f.acktimeout = TRUE,
                !.clk = "early"] = d
  BY Zenon DEF Context
<1> HIDE DEF g3
<1>4. d1 \in Context /\ d1.f = g3 /\ d1.psid = c.psid
  BY <1>2, CtxFields
<1> HIDE DEF d1
<1>5. d \in Context /\ d.f = g3 /\ d.psid = c.psid
  BY <1>1, <1>4, SetClock
<1> QED
  BY <1>2, <1>3, <1>5, Zenon

LEMMA ReceiveAckSound ==
    ASSUME NEW c, SoundCtx(c), NEW seq \in SeqId
    PROVE  SoundCtx(ReceiveAck(c, seq)) /\ ReceiveAck(c, seq).psid = c.psid
<1> DEFINE left == AckThrough(c.f.outq, seq)
           done == OutputDone(c, left)
           more == [c EXCEPT !.f.outq = left, !.f.nextrexmit = TRUE,
                             !.f.acktimeout = TRUE, !.clk = "early"]
<1>1. c \in Context /\ c.f \in Fspe /\ c.f.outq \in Queue /\ Sound(c.f)
  BY CtxFields, FspeFields DEF SoundCtx
<1>2. left \in Queue /\ (c.f.outq.items = <<>> => left.items = <<>>)
  BY <1>1, AckThroughType
<1>3. \/ ReceiveAck(c, seq) = c
      \/ left.items = <<>> /\ ReceiveAck(c, seq) = done
      \/ left.items = <<>> /\ ReceiveAck(c, seq) = FsaQuiet(done, "OUTALLDONE")
      \/ left.items # <<>> /\ ReceiveAck(c, seq) = Xmit(more)
  BY DEF ReceiveAck
<1> HIDE DEF left
<1>4. ASSUME left.items = <<>> PROVE SoundCtx(done) /\ done.psid = c.psid
  <2>1. /\ done \in Context /\ done.psid = c.psid /\ done.f.outq = left
        /\ done.f.unacked = FALSE /\ done.f.state = c.f.state
        /\ done.f.shuttimer = c.f.shuttimer
    BY <1>1, <1>2, OutputDoneCtx
  <2> HIDE DEF done
  <2> QED
    BY <1>1, <1>4, <2>1 DEF SoundCtx, Sound
<1>5. ASSUME left.items # <<>> PROVE SoundCtx(more) /\ more.psid = c.psid
  <2>1. \A d : d = [c EXCEPT !.f.outq = left, !.f.nextrexmit = TRUE,
                             !.f.acktimeout = TRUE, !.clk = "early"] =>
               /\ d \in Context /\ d.psid = c.psid /\ d.f.outq = left
               /\ d.f.unacked = c.f.unacked /\ d.f.nextrexmit = TRUE /\ d.f.acktimeout = TRUE
               /\ d.f.state = c.f.state /\ d.f.shuttimer = c.f.shuttimer
    BY <1>1, <1>2, OutputLeftCtx
  <2>2. /\ more \in Context /\ more.psid = c.psid /\ more.f.outq = left
        /\ more.f.unacked = c.f.unacked /\ more.f.nextrexmit = TRUE
        /\ more.f.acktimeout = TRUE
        /\ more.f.state = c.f.state /\ more.f.shuttimer = c.f.shuttimer
    BY <2>1, Zenon
  <2> HIDE DEF more
  <2> QED
    BY <1>1, <1>2, <1>5, <2>2 DEF SoundCtx, Sound
<1> HIDE DEF done, more
<1> QED
  BY <1>3, <1>4, <1>5, FsaQuietSound, XmitSound DEF QuietInput

\* inq, ipend and acktimeout are no part of what Sound reads.
LEMMA ReceiveDataSound ==
    ASSUME NEW c, SoundCtx(c), NEW fs \in FrameSet
    PROVE  SoundCtx(ReceiveData(c, fs)) /\ ReceiveData(c, fs).psid = c.psid
<1> DEFINE r     == InqSorted(c.f.inq, fs)
           g1    == [c.f EXCEPT !.inq = r.q]
           c1    == [c EXCEPT !.f.inq = r.q]
           c1t   == [c1 EXCEPT !.f.acktimeout = TRUE]
           c2    == CASE r.ok /\ fs.req = 1 -> FsaQuiet(c1t, "GOTSTART")
                      [] r.ok /\ fs.req > 1 -> c1t
                      [] ~r.ok /\ AlreadyAcked(c.f, fs) -> AckSeqno(c1, c.f.lastacksent)
                      [] OTHER -> c1
           ready == BecomesReady(c2.f.inq, fs)
           g2    == [c2.f EXCEPT !.ipend = c2.f.ipend \/ ready]
           q3    == [g2.inq EXCEPT !.isready = g2.inq.isready \/ ready]
           g3    == [g2 EXCEPT !.inq = q3]
           c3    == [c2 EXCEPT !.f.ipend = @ \/ ready, !.f.inq.isready = @ \/ ready]
           d3    == [c2 EXCEPT !.f = g3]
<1>1. c \in Context /\ c.f \in Fspe /\ r.q \in Queue /\ c.f.lastacksent \in SeqId
  BY CtxFields, FspeFields, InqSortedType DEF SoundCtx
<1>2. ReceiveData(c, fs) = Xmit(c3)
  BY DEF ReceiveData
<1>3. SoundCtx(c1) /\ c1.psid = c.psid
  <2>1. Follows(c.f, g1)
    BY <1>1, Touch
  <2>2. c1 = [c EXCEPT !.f = g1]
    BY Zenon
  <2> HIDE DEF g1, c1
  <2>3. SoundCtx([c EXCEPT !.f = g1]) /\ [c EXCEPT !.f = g1].psid = c.psid
    BY <2>1, TouchCtx
  <2> QED
    BY <2>2, <2>3, Zenon
<1> HIDE DEF c1
<1>4. SoundCtx(c1t) /\ c1t.psid = c.psid
  BY <1>3, SetAckTimeout
<1> HIDE DEF c1t
<1>5. SoundCtx(c2) /\ c2.psid = c.psid
  <2>1. \/ c2 = FsaQuiet(c1t, "GOTSTART") \/ c2 = c1t
        \/ c2 = AckSeqno(c1, c.f.lastacksent) \/ c2 = c1
    <3> HIDE DEF r
    <3> QED
      OBVIOUS
  <2> HIDE DEF c2
  <2> QED
    BY <1>1, <1>3, <1>4, <2>1, FsaQuietSound, AckSeqnoSound DEF QuietInput
<1> HIDE DEF c2
<1>6. SoundCtx(c3) /\ c3.psid = c.psid
  <2>1. c2.f \in Fspe /\ (c2.f.ipend \/ ready) \in BOOLEAN
    BY <1>5, CtxFields, FspeFields DEF SoundCtx, BecomesReady
  <2>2. c3 = d3
    <3>1. c2 \in Context
      BY <1>5 DEF SoundCtx
    <3> HIDE DEF ready
    <3> QED
      BY <3>1, Zenon DEF Context
  <2> HIDE DEF c3, ready
  <2>3. Follows(c2.f, g2)
    BY <2>1, Touch
  <2> HIDE DEF g2
  <2>4. Follows(c2.f, g2) /\ g2 \in Fspe /\ g2.inq \in Queue
    BY <2>3, FspeFields DEF Follows
  <2>5. q3 \in Queue
    <3>1. ready \in BOOLEAN /\ g2.inq.isready \in BOOLEAN
      BY <2>4, FspeFields DEF ready, BecomesReady
    <3> QED
      BY <2>4, <3>1 DEF Queue
  <2> HIDE DEF q3
  <2>6. Follows(g2, g3)
    BY <2>4, <2>5, Touch
  <2> HIDE DEF g3
  <2>7. SoundCtx(d3) /\ d3.psid = c2.psid
    BY <1>5, <2>4, <2>6, Follows2, TouchCtx
  <2> HIDE DEF d3
  <2> QED
    BY <1>5, <2>2, <2>7
<1> HIDE DEF c3
<1> QED
  BY <1>2, <1>6, XmitSound

LEMMA ReadSound ==
    ASSUME NEW c, SoundCtx(c)
    PROVE  SoundCtx(Read(c)) /\ Read(c).psid = c.psid
<1> DEFINE fs == Head(c.f.inq.items)
           q1 == [c.f.inq EXCEPT !.items = Tail(@),
                                 !.nextseqno = IF fs.req = 0 THEN @ ELSE @ + 1]
           q2 == [q1 EXCEPT !.isready = StillReady(q1)]
           g1 == [c.f EXCEPT !.inq = q2]
           g2 == [g1 EXCEPT !.ipend = StillReady(q1)]
           c1 == [c EXCEPT !.f.inq = q2, !.f.ipend = StillReady(q1)]
           d1 == [c EXCEPT !.f = g2]
           c2 == IF fs.msg = CONNSHUT THEN FsaShut(c1, "RCVSHUTDOWN", Seqno(fs)) ELSE c1
<1>1. c.f \in Fspe /\ c.f.inq \in Queue /\ c.f.inq.items \in Seq(FrameSet)
  BY CtxFields, FspeFields DEF SoundCtx
<1>2. \/ Read(c) = c
      \/ Read(c) = Xmit(c)
      \/ c.f.inq.items # <<>> /\ Read(c) = Xmit(c2)
  <2> HIDE DEF q1, q2
  <2> QED
    BY DEF Read, HeadReady, q1, q2
<1>3. ASSUME c.f.inq.items # <<>> PROVE SoundCtx(c2) /\ c2.psid = c.psid
  <2>1. fs \in FrameSet /\ Tail(c.f.inq.items) \in Seq(FrameSet)
    BY <1>1, <1>3
  <2>2. Seqno(fs) \in SeqId
    BY <2>1, FrameTypes
  <2> HIDE DEF fs
  <2>3. q1 \in Queue
    <3> DEFINE n == IF fs.req = 0 THEN c.f.inq.nextseqno ELSE c.f.inq.nextseqno + 1
               t == Tail(c.f.inq.items)
    <3>1. n \in Nat \ {0} /\ t \in Seq(FrameSet)
      BY <1>1, <2>1 DEF Queue
    <3>2. q1 = [c.f.inq EXCEPT !.items = t, !.nextseqno = n]
      OBVIOUS
    <3> HIDE DEF n, t, q1
    <3> QED
      BY <1>1, <3>1, <3>2 DEF Queue
  <2> HIDE DEF q1
  <2>4. StillReady(q1) \in BOOLEAN
    BY DEF StillReady, HeadReady
  <2>5. q2 \in Queue
    BY <2>3, <2>4 DEF Queue
  <2> HIDE DEF q2
  <2>6. c1 = d1
    <3>1. c \in Context
      BY DEF SoundCtx
    <3> QED
      BY <3>1, Zenon DEF Context
  <2> HIDE DEF c1
  <2>7. Follows(c.f, g1) /\ g1 \in Fspe
    BY <1>1, <2>5, Touch DEF Follows
  <2> HIDE DEF g1
  <2>8. Follows(g1, g2)
    BY <2>4, <2>7, Touch
  <2> HIDE DEF g2
  <2>9. SoundCtx(d1) /\ d1.psid = c.psid
    BY <2>7, <2>8, Follows2, TouchCtx
  <2> HIDE DEF d1
  <2> QED
    BY <2>2, <2>9, <2>6, FsaShutSound
<1> HIDE DEF c2
<1> QED
  BY <1>2, <1>3, XmitSound

-----------------------------------------------------------------------------
(* Connections that go away, and connections that begin.                   *)

LEMMA NoFspeSound == NoFspe \in Fspe /\ Sound(NoFspe)
<1>1. /\ NewQueue \in Queue /\ NewQueue.items = <<>>
      /\ NoSeq \in SeqId /\ "off" \in Timer /\ "NONE" \in State
  BY NewQueueType DEF NewQueue, NoSeq, SeqId, Timer, State
<1>2. /\ NoFspe \in Fspe /\ NoFspe.outq = NewQueue /\ NoFspe.unacked = FALSE
      /\ NoFspe.state = "NONE" /\ NoFspe.shuttimer = "off"
  BY <1>1, Zenon DEF NoFspe, Fspe
<1> QED
  BY <1>1, <1>2 DEF Sound, InShutdown

LEMMA DestroySound ==
    ASSUME NEW f \in Fspe, Sound(f)
    PROVE  Destroy(f) \in Fspe /\ Sound(Destroy(f))
<1> DEFINE r == Reinit(f)
           d == [NoFspe EXCEPT !.unacked = r.unacked, !.ipend = r.ipend,
                               !.shuttimer = r.shuttimer, !.finalizetimer = r.finalizetimer]
<1>1. r \in Fspe /\ r.unacked = FALSE /\ r.shuttimer = "off"
  BY ReinitSound DEF Sound
<1>2. r.ipend \in BOOLEAN /\ r.finalizetimer \in Timer /\ r.shuttimer \in Timer
  BY <1>1, FspeFields
<1>3. Destroy(f) = d
  BY DEF Destroy
<1> HIDE DEF r
<1>4. NoFspe \in Fspe /\ Sound(NoFspe)
  BY NoFspeSound
<1>5. /\ d \in Fspe /\ d.outq = NoFspe.outq /\ d.unacked = FALSE
      /\ d.state = NoFspe.state /\ d.shuttimer = "off"
  BY <1>1, <1>2, <1>4, Zenon DEF Fspe
<1>6. NoFspe.state = "NONE"
  BY DEF NoFspe
<1> HIDE DEF d
<1> QED
  BY <1>3, <1>4, <1>5, <1>6 DEF Sound, InShutdown

LEMMA CloseAllSound ==
    ASSUME NEW c, SoundCtx(c)
    PROVE  SoundCtx(CloseAll(c)) /\ CloseAll(c).psid = c.psid
<1>1. c.f \in Fspe /\ Sound(c.f) /\ NoSeq \in SeqId
  BY CtxFields DEF SoundCtx, NoSeq, SeqId
<1>2. CASE CanCloseImmediately(c.f)
  <2>1. Destroy(c.f) \in Fspe /\ Sound(Destroy(c.f))
    BY <1>1, DestroySound
  <2>2. CloseAll(c) = [c EXCEPT !.f = Destroy(c.f)]
    BY <1>2, Zenon DEF CloseAll
  <2> QED
    BY <2>1, <2>2, CtxFields DEF SoundCtx
<1>3. CASE ~CanCloseImmediately(c.f)
  BY <1>1, <1>3, FsaShutSound DEF CloseAll
<1> QED
  BY <1>2, <1>3

\* The shutdown timer only runs in a shutdown state, where SHUT_TO closes.
LEMMA ShutToSound ==
    ASSUME NEW c, SoundCtx(c), c.f.shuttimer = "armed"
    PROVE  \A d : d = [c EXCEPT !.f.shuttimer = "fired"] =>
                SoundCtx(FsaQuiet(d, "SHUT_TO")) /\ FsaQuiet(d, "SHUT_TO").psid = c.psid
<1> DEFINE g == [c.f EXCEPT !.shuttimer = "fired"]
<1>1. c.f \in Fspe /\ Sound(c.f) /\ "fired" \in Timer /\ "SHUT_TO" \in Input
      /\ c.f.state \in State
  BY CtxFields, FspeFields DEF SoundCtx, Timer, Input
<1>2. "CLOSE" \in Actions(c.f.state, "SHUT_TO")
  BY <1>1 DEF Sound, Actions
<1>3. /\ g \in Fspe /\ g.unacked = c.f.unacked /\ g.outq = c.f.outq
      /\ g.state = c.f.state
  BY <1>1, Zenon DEF Fspe
<1>4. [c EXCEPT !.f.shuttimer = "fired"] = [c EXCEPT !.f = g]
  BY Zenon
<1> HIDE DEF g
<1>5. /\ [c EXCEPT !.f = g] \in Context /\ [c EXCEPT !.f = g].f = g
      /\ [c EXCEPT !.f = g].psid = c.psid
  BY <1>3, CtxFields DEF SoundCtx
<1>6. ASSUME NEW d, d = [c EXCEPT !.f.shuttimer = "fired"]
      PROVE  SoundCtx(FsaQuiet(d, "SHUT_TO")) /\ FsaQuiet(d, "SHUT_TO").psid = c.psid
  <2>1. d \in Context /\ d.f = g /\ d.psid = c.psid
    BY <1>4, <1>5, <1>6, Zenon
  <2>2. d.f.unacked <=> d.f.outq.items # <<>>
    BY <1>1, <1>3, <2>1 DEF Sound
  <2>3. FsaQuiet(d, "SHUT_TO") = FsaFinish(d, c.f.state, "SHUT_TO")
    BY <1>3, <2>1 DEF FsaQuiet
  <2> QED
    BY <1>1, <1>2, <2>1, <2>2, <2>3, FsaFinishSound
<1> QED
  BY <1>6, Zenon

-----------------------------------------------------------------------------
(* The invariant and the steps of the specification.                       *)

AllSound == \A e \in End : Sound(fspe[e])

IInv == TypeOK /\ AllSound

\* Every handler starts from a sound context.
LEMMA CtxSound ==
    ASSUME IInv, NEW e \in End, NEW clk \in Clock
    PROVE  SoundCtx(Ctx(e, clk)) /\ Ctx(e, clk).f.shuttimer = fspe[e].shuttimer
<1> DEFINE g == AddConn(fspe[e])
<1>1. fspe[e] \in Fspe /\ Sound(fspe[e]) /\ procsid[e] \in Nat
  BY DEF IInv, AllSound, TypeOK
<1>2. Follows(fspe[e], g)
  BY <1>1, Touch DEF AddConn
<1>3. g \in Fspe /\ Sound(g) /\ g.shuttimer = fspe[e].shuttimer
  BY <1>1, <1>2, FollowsSound DEF Follows
<1>4. Ctx(e, clk) = [f |-> g, psid |-> procsid[e], clk |-> clk, tx |-> {}]
  BY DEF Ctx
<1> HIDE DEF g
<1>5. Ctx(e, clk) \in Context /\ Ctx(e, clk).f = g
  BY <1>1, <1>3, <1>4 DEF Context
<1> QED
  BY <1>3, <1>5 DEF SoundCtx

\* Every handler that ends in a sound context leaves a sound element, and the
\* network with packets only.
LEMMA FinishSound ==
    ASSUME IInv, NEW e \in End, NEW c, SoundCtx(c), Finish(e, c)
    PROVE  /\ fspe' \in [End -> Fspe] /\ AllSound'
           /\ topsid' \in [End -> Nat \ {0}] /\ net' \subseteq Packet
<1>1. /\ c.f \in Fspe /\ Sound(c.f) /\ c.tx \in SUBSET Frames
      /\ c.f.outq.sessionid \in Nat
  BY CtxFields, FspeFields DEF SoundCtx
<1>2. fspe \in [End -> Fspe] /\ topsid \in [End -> Nat \ {0}] /\ net \subseteq Packet
  BY DEF IInv, TypeOK
<1>3. fspe' = [fspe EXCEPT ![e] = c.f]
  BY DEF Finish
<1>4. fspe' \in [End -> Fspe] /\ AllSound'
  BY <1>1, <1>2, <1>3 DEF AllSound, IInv
<1>5. topsid' \in [End -> Nat \ {0}]
  BY <1>1, <1>2 DEF Finish, Higher
<1>6. Packets(e, c) \subseteq Packet
  <2> SUFFICES ASSUME NEW x \in c.tx
               PROVE  [src |-> e, kind |-> x.kind, fs |-> x.fs] \in Packet
    BY DEF Packets
  <2> QED
    BY <1>1 DEF Frames, Packet
<1>7. net' \subseteq net \cup Packets(e, c)
  BY DEF Finish
<1> QED
  BY <1>2, <1>4, <1>5, <1>6, <1>7

Used == [send : [End -> Nat], unseq : Nat, late : Nat, close : Nat, final : Nat, restart : Nat]

\* The counters of the bounds stay numbers.
LEMMA UsedType ==
    ASSUME NEW u \in Used, NEW e \in End, NEW clk \in Clock
    PROVE  /\ [u EXCEPT !.send[e] = @ + 1, !.late = @ + Late(e, clk)] \in Used
           /\ [u EXCEPT !.send[e] = @ + 2, !.late = @ + Late(e, clk)] \in Used
           /\ [u EXCEPT !.late = @ + Late(e, clk)] \in Used
           /\ [u EXCEPT !.close = @ + 1, !.late = @ + Late(e, clk)] \in Used
           /\ [u EXCEPT !.unseq = @ + 1] \in Used
           /\ [u EXCEPT !.final = @ + 1] \in Used
           /\ [u EXCEPT !.restart = @ + 1] \in Used
<1>1. Late(e, clk) \in Nat
  BY DEF Late
<1> DEFINE l == u.late + Late(e, clk)
           k == u.close + 1
<1>2. l \in Nat /\ k \in Nat /\ u.unseq + 1 \in Nat /\ u.final + 1 \in Nat
      /\ u.restart + 1 \in Nat
  BY <1>1 DEF Used
<1>3. [u.send EXCEPT ![e] = @ + 1] \in [End -> Nat] /\ [u.send EXCEPT ![e] = @ + 2] \in [End -> Nat]
  BY DEF Used
<1> HIDE DEF l, k
<1>4. [u EXCEPT !.send = [u.send EXCEPT ![e] = @ + 1], !.late = l] \in Used
  BY <1>2, <1>3, Zenon DEF Used
<1>5. [u EXCEPT !.send = [u.send EXCEPT ![e] = @ + 2], !.late = l] \in Used
  BY <1>2, <1>3, Zenon DEF Used
<1>6. [u EXCEPT !.late = l] \in Used
  BY <1>2, Zenon DEF Used
<1>7. [u EXCEPT !.close = k, !.late = l] \in Used
  BY <1>2, Zenon DEF Used
<1>8. [u EXCEPT !.unseq = @ + 1] \in Used
  BY <1>2, Zenon DEF Used
<1>9. [u EXCEPT !.final = @ + 1] \in Used
  BY <1>2, Zenon DEF Used
<1>10. [u EXCEPT !.restart = @ + 1] \in Used
  BY <1>2, Zenon DEF Used
<1> QED
  BY <1>4, <1>5, <1>6, <1>7, <1>8, <1>9, <1>10, Zenon DEF l, k, Used

\* What recvframesets gives to the application is a sequence of FrameSets.
LEMMA ReadResultType ==
    ASSUME NEW c \in Context
    PROVE  /\ ReadResult(c) \in Seq(FrameSet)
           /\ ToSet(ReadResult(c)) \subseteq FrameSet
<1>1. c.f.inq.items \in Seq(FrameSet)
  BY CtxFields, FspeFields
<1>2. CASE ReadResult(c) = <<>>
  BY <1>2 DEF ToSet
<1>3. CASE c.f.inq.items # <<>> /\ ReadResult(c) = <<Head(c.f.inq.items)>>
  <2>1. Head(c.f.inq.items) \in FrameSet
    BY <1>1, <1>3
  <2> QED
    BY <1>3, <2>1 DEF ToSet
<1> QED
  BY <1>2, <1>3 DEF ReadResult, HeadReady

LEMMA AckedByType ==
    ASSUME NEW q \in Queue, NEW p
    PROVE  AckedBy(q, p) \subseteq FrameSet
<1>1. q.items \in Seq(FrameSet)
  BY DEF Queue
<1>2. ToSet(q.items) \subseteq FrameSet
  BY <1>1, ElementOfSeq DEF ToSet
<1> QED
  BY <1>2 DEF AckedBy

LEMMA ReceivedSound ==
    ASSUME IInv, NEW e \in End, NEW p \in net, NEW clk \in Clock
    PROVE  SoundCtx(Received(e, p, clk))
<1>1. p.fs \in FrameSet
  BY DEF IInv, TypeOK, Packet
<1>2. Seqno(p.fs) \in SeqId
  BY <1>1, FrameTypes
<1> QED
  BY <1>1, <1>2, CtxSound, ReceiveAckSound, ReceiveDataSound DEF Received

-----------------------------------------------------------------------------

LEMMA InitSound == Init => IInv
<1> SUFFICES ASSUME Init PROVE IInv
  OBVIOUS
<1>1. fspe \in [End -> Fspe] /\ AllSound
  BY NoFspeSound DEF Init, AllSound
<1>2. used \in Used
  BY DEF Init, Used
<1>3. toack \in [End -> Seq(FrameSet)]
  BY EmptySeq DEF Init
<1> QED
  BY <1>1, <1>2, <1>3 DEF Init, IInv, TypeOK, Used

LEMMA UnchangedSound == IInv /\ UNCHANGED vars => IInv'
BY DEF IInv, TypeOK, AllSound, vars

\* The actions that end in Finish, and leave run and procsid alone.
LEMMA HandlerSound ==
    ASSUME IInv, NEW e \in End, NEW c, SoundCtx(c), Finish(e, c),
           run' \in [End -> {"up", "stopping", "down"}], connected' \in BOOLEAN,
           UNCHANGED procsid, toack' \in [End -> Seq(FrameSet)],
           rcvd' \in [End -> SUBSET FrameSet], acked' \in [End -> SUBSET FrameSet],
           used' \in Used
    PROVE  IInv'
<1>1. /\ fspe' \in [End -> Fspe] /\ AllSound'
      /\ topsid' \in [End -> Nat \ {0}] /\ net' \subseteq Packet
  BY FinishSound
<1>2. procsid' \in [End -> Nat \ {0}]
  BY DEF IInv, TypeOK
<1> QED
  BY <1>1, <1>2 DEF IInv, TypeOK, Used

\* What TypeOK says of the variables that most handlers leave alone.
LEMMA Types ==
    ASSUME IInv
    PROVE  /\ run \in [End -> {"up", "stopping", "down"}] /\ connected \in BOOLEAN
           /\ toack \in [End -> Seq(FrameSet)] /\ rcvd \in [End -> SUBSET FrameSet]
           /\ acked \in [End -> SUBSET FrameSet] /\ used \in Used
           /\ \A e \in End : used.send[e] \in Nat
BY DEF IInv, TypeOK, Used

LEMMA SendSound ==
    ASSUME IInv, NEW e \in End, NEW clk \in Clock,
           SendAReliableFs(e, clk) \/ SendReliableFs(e, clk)
    PROVE  IInv'
<1> DEFINE c == Ctx(e, clk)
           m == used.send[e] + 1
<1>1. SoundCtx(c) /\ m \in Nat /\ m + 1 \in Nat
  BY CtxSound, Types
<1> HIDE DEF c
<1>2. used' \in Used
  <2>1. used \in Used
    BY Types
  <2>2. /\ [used EXCEPT !.send[e] = @ + 1, !.late = @ + Late(e, clk)] \in Used
        /\ [used EXCEPT !.send[e] = @ + 2, !.late = @ + Late(e, clk)] \in Used
    BY <2>1, UsedType, Zenon
  <2> QED
    BY <2>2, Zenon DEF SendAReliableFs, SendReliableFs
<1>3. UNCHANGED <<run, connected, procsid, toack, rcvd, acked>>
  BY DEF SendAReliableFs, SendReliableFs
<1>4. CASE SendAReliableFs(e, clk)
  <2>1. Finish(e, Send1(c, m))
    BY <1>4 DEF SendAReliableFs, c
  <2> HIDE DEF m
  <2>2. SoundCtx(Send1(c, m))
    BY <1>1, Send1Sound
  <2> QED
    BY <1>2, <1>3, <2>1, <2>2, Types, HandlerSound
<1>5. CASE SendReliableFs(e, clk)
  <2> DEFINE d == CASE InShutdown(c.f.state) -> c
                    [] ~InShutdown(c.f.state) /\ HasQSpace(c.f.outq, 2) ->
                         Xmit(Send1(Send1(c, m), m + 1))
                    [] OTHER -> Xmit(c)
  <2>1. Finish(e, d)
    BY <1>5 DEF SendReliableFs, c
  <2> HIDE DEF m
  <2>2. SoundCtx(Xmit(c)) /\ SoundCtx(Xmit(Send1(Send1(c, m), m + 1)))
    <3>1. SoundCtx(Send1(c, m))
      BY <1>1, Send1Sound
    <3>2. SoundCtx(Send1(Send1(c, m), m + 1))
      BY <1>1, <3>1, Send1Sound
    <3> QED
      BY <1>1, <3>2, XmitSound
  <2>3. d = c \/ d = Xmit(c) \/ d = Xmit(Send1(Send1(c, m), m + 1))
    OBVIOUS
  <2> HIDE DEF d
  <2>4. SoundCtx(d)
    BY <1>1, <2>2, <2>3
  <2> QED
    BY <1>2, <1>3, <2>1, <2>4, Types, HandlerSound
<1> QED
  BY <1>4, <1>5

LEMMA SendAFrameSetSound ==
    ASSUME IInv, NEW e \in End, SendAFrameSet(e)
    PROVE  IInv'
<1> DEFINE fs == [sid |-> 0, req |-> 0, msg |-> used.unseq + 1]
           p  == [src |-> e, kind |-> "data", fs |-> fs]
<1>1. used \in Used /\ used.unseq + 1 \in Nat
  BY Types DEF Used
<1>2. fs \in FrameSet
  BY <1>1 DEF FrameSet
<1> HIDE DEF fs
<1>3. p \in Packet
  BY <1>2 DEF Packet
<1>4. net' = net \cup {p}
  BY DEF SendAFrameSet, fs
<1> HIDE DEF p
<1>5. net' \subseteq Packet
  BY <1>3, <1>4 DEF IInv, TypeOK
<1>6. used' \in Used
  <2>1. e \in End /\ "early" \in Clock
    BY DEF Clock
  <2> QED
    BY <1>1, <2>1, UsedType, Zenon DEF SendAFrameSet
<1> QED
  BY <1>5, <1>6 DEF SendAFrameSet, IInv, TypeOK, AllSound, Used

LEMMA RecvSound ==
    ASSUME IInv, NEW e \in End, NEW p \in net, NEW clk \in Clock, RecvFrameSets(e, p, clk)
    PROVE  IInv'
<1> DEFINE c == Received(e, p, clk)
           d == IF c.f.ipend THEN Read(c) ELSE c
<1>1. SoundCtx(c)
  BY ReceivedSound
<1>2. /\ Finish(e, d)
      /\ toack' = [toack EXCEPT ![e] = @ \o ReadResult(c)]
      /\ rcvd' = [rcvd EXCEPT ![e] = @ \cup ToSet(ReadResult(c))]
      /\ connected' = Configured(e, ReadResult(c))
      /\ acked' = [acked EXCEPT ![e] = @ \cup AckedBy(fspe[e].outq, p)]
      /\ used' = [used EXCEPT !.late = @ + Late(e, clk)]
      /\ UNCHANGED <<run, procsid>>
  BY DEF RecvFrameSets
<1> HIDE DEF c
<1>3. SoundCtx(d)
  BY <1>1, ReadSound
<1> HIDE DEF d
<1>4. ReadResult(c) \in Seq(FrameSet) /\ ToSet(ReadResult(c)) \subseteq FrameSet
  BY <1>1, ReadResultType DEF SoundCtx
<1>5. AckedBy(fspe[e].outq, p) \subseteq FrameSet
  BY FspeFields, AckedByType DEF IInv, TypeOK
<1>6. used' \in Used
  <2>1. used \in Used
    BY Types
  <2> QED
    BY <1>2, <2>1, UsedType, Zenon
<1>7. toack' \in [End -> Seq(FrameSet)] /\ rcvd' \in [End -> SUBSET FrameSet]
      /\ acked' \in [End -> SUBSET FrameSet]
  BY <1>2, <1>4, <1>5, Types, ConcatProperties
<1>8. connected' \in BOOLEAN
  BY <1>2, Types DEF Configured
<1> QED
  BY <1>2, <1>3, <1>6, <1>7, <1>8, Types, HandlerSound

LEMMA ReadPendingSound ==
    ASSUME IInv, NEW e \in End, NEW clk \in Clock, ReadPending(e, clk)
    PROVE  IInv'
<1> DEFINE c == Ctx(e, clk)
<1>1. SoundCtx(c)
  BY CtxSound
<1>2. /\ Finish(e, Read(c))
      /\ toack' = [toack EXCEPT ![e] = @ \o ReadResult(c)]
      /\ rcvd' = [rcvd EXCEPT ![e] = @ \cup ToSet(ReadResult(c))]
      /\ connected' = Configured(e, ReadResult(c))
      /\ used' = [used EXCEPT !.late = @ + Late(e, clk)]
      /\ UNCHANGED <<run, procsid, acked>>
  BY DEF ReadPending
<1> HIDE DEF c
<1>3. SoundCtx(Read(c))
  BY <1>1, ReadSound
<1>4. ReadResult(c) \in Seq(FrameSet) /\ ToSet(ReadResult(c)) \subseteq FrameSet
  BY <1>1, ReadResultType DEF SoundCtx
<1>5. used' \in Used
  <2>1. used \in Used
    BY Types
  <2> QED
    BY <1>2, <2>1, UsedType, Zenon
<1>6. toack' \in [End -> Seq(FrameSet)] /\ rcvd' \in [End -> SUBSET FrameSet]
  BY <1>2, <1>4, Types, ConcatProperties
<1>7. connected' \in BOOLEAN
  BY <1>2, Types DEF Configured
<1> QED
  BY <1>2, <1>3, <1>5, <1>6, <1>7, Types, HandlerSound

LEMMA AckMessageSound ==
    ASSUME IInv, NEW e \in End, AckMessage(e)
    PROVE  IInv'
<1> DEFINE c   == Ctx(e, "early")
           seq == Seqno(Head(toack[e]))
<1>1. SoundCtx(c)
  BY CtxSound DEF Clock
<1>2. toack[e] \in Seq(FrameSet) /\ toack[e] # <<>>
  BY Types DEF AckMessage
<1>3. Head(toack[e]) \in FrameSet /\ Tail(toack[e]) \in Seq(FrameSet)
  BY <1>2
<1>4. seq \in SeqId
  BY <1>3, FrameTypes
<1>5. /\ Finish(e, AckSeqno(c, seq))
      /\ toack' = [toack EXCEPT ![e] = Tail(@)]
      /\ UNCHANGED <<run, connected, procsid, rcvd, acked, used>>
  BY DEF AckMessage
<1> HIDE DEF c, seq
<1>6. SoundCtx(AckSeqno(c, seq))
  BY <1>1, <1>4, AckSeqnoSound
<1>7. toack' \in [End -> Seq(FrameSet)]
  BY <1>3, <1>5, Types
<1> QED
  BY <1>5, <1>6, <1>7, Types, HandlerSound

LEMMA TimeoutFunSound ==
    ASSUME IInv, NEW e \in End, NEW clk \in Clock, TimeoutFun(e, clk)
    PROVE  IInv'
<1> DEFINE c == Ctx(e, clk)
<1>1. SoundCtx(c)
  BY CtxSound
<1>2. /\ Finish(e, Xmit(c)) /\ used' = [used EXCEPT !.late = @ + Late(e, clk)]
      /\ UNCHANGED <<run, connected, procsid, toack, rcvd, acked>>
  BY DEF TimeoutFun
<1> HIDE DEF c
<1>3. SoundCtx(Xmit(c))
  BY <1>1, XmitSound
<1>4. used' \in Used
  <2>1. used \in Used
    BY Types
  <2> QED
    BY <1>2, <2>1, UsedType, Zenon
<1> QED
  BY <1>2, <1>3, <1>4, Types, HandlerSound

LEMMA ShutTimeoutSound ==
    ASSUME IInv, NEW e \in End, ShutTimeout(e)
    PROVE  IInv'
<1> DEFINE c == Ctx(e, "early")
           d == [c EXCEPT !.f.shuttimer = "fired"]
<1>1. SoundCtx(c) /\ c.f.shuttimer = "armed"
  BY CtxSound DEF Clock, ShutTimeout
<1>2. /\ Finish(e, FsaQuiet(d, "SHUT_TO"))
      /\ UNCHANGED <<run, connected, procsid, toack, rcvd, acked, used>>
  BY DEF ShutTimeout
<1> HIDE DEF c
<1>3. \A x : x = [c EXCEPT !.f.shuttimer = "fired"] =>
           SoundCtx(FsaQuiet(x, "SHUT_TO")) /\ FsaQuiet(x, "SHUT_TO").psid = c.psid
  BY <1>1, ShutToSound
<1>4. SoundCtx(FsaQuiet(d, "SHUT_TO"))
  BY <1>3, Zenon
<1> HIDE DEF d
<1> QED
  BY <1>2, <1>4, Types, HandlerSound

LEMMA FinalizeTimerSound ==
    ASSUME IInv, NEW e \in End, FinalizeTimer(e)
    PROVE  IInv'
<1> DEFINE c == Ctx(e, "early")
           f == fspe[e]
           g == IF f.state = "NONE" THEN Destroy(f) ELSE [f EXCEPT !.finalizetimer = "fired"]
           d == [c EXCEPT !.f = g]
<1>1. c \in Context
  BY CtxSound DEF Clock, SoundCtx
<1>2. f \in Fspe /\ Sound(f) /\ "fired" \in Timer
  BY DEF IInv, TypeOK, AllSound, Timer
<1>3. /\ Finish(e, d) /\ used' = [used EXCEPT !.final = @ + 1]
      /\ UNCHANGED <<run, connected, procsid, toack, rcvd, acked>>
  BY DEF FinalizeTimer
<1> HIDE DEF c, f
<1>4. g \in Fspe /\ Sound(g)
  <2>1. Destroy(f) \in Fspe /\ Sound(Destroy(f))
    BY <1>2, DestroySound
  <2>2. Follows(f, [f EXCEPT !.finalizetimer = "fired"])
    BY <1>2, Touch
  <2>3. [f EXCEPT !.finalizetimer = "fired"] \in Fspe /\ Sound([f EXCEPT !.finalizetimer = "fired"])
    BY <1>2, <2>2, FollowsSound DEF Follows
  <2> QED
    BY <2>1, <2>3
<1> HIDE DEF g
<1>5. SoundCtx(d)
  BY <1>1, <1>4, CtxFields DEF SoundCtx
<1> HIDE DEF d
<1>6. used' \in Used
  <2>1. used \in Used /\ "early" \in Clock
    BY Types DEF Clock
  <2> QED
    BY <1>3, <2>1, UsedType, Zenon
<1> QED
  BY <1>3, <1>5, <1>6, Types, HandlerSound

LEMMA CloseConnSound ==
    ASSUME IInv, NEW clk \in Clock, CloseConn(clk)
    PROVE  IInv'
<1> DEFINE c == Ctx("cma", clk)
<1>1. SoundCtx(c) /\ "cma" \in End /\ NoSeq \in SeqId
  BY CtxSound DEF End, NoSeq, SeqId
<1>2. /\ Finish("cma", FsaShut(c, "REQSHUTDOWN", NoSeq))
      /\ used' = [used EXCEPT !.close = @ + 1, !.late = @ + Late("cma", clk)]
      /\ UNCHANGED <<run, connected, procsid, toack, rcvd, acked>>
  BY DEF CloseConn
<1> HIDE DEF c
<1>3. SoundCtx(FsaShut(c, "REQSHUTDOWN", NoSeq))
  BY <1>1, FsaShutSound
<1>4. used' \in Used
  <2>1. used \in Used
    BY Types
  <2> QED
    BY <1>1, <1>2, <2>1, UsedType, Zenon
<1> QED
  BY <1>1, <1>2, <1>3, <1>4, Types, HandlerSound

LEMMA NanoInitiateShutdownSound ==
    ASSUME IInv, NEW clk \in Clock, NanoInitiateShutdown(clk)
    PROVE  IInv'
<1> DEFINE c == Ctx("nano", clk)
           m == used.send["nano"] + 1
<1>1. SoundCtx(c) /\ "nano" \in End /\ m \in Nat
  BY CtxSound, Types DEF End
<1>2. /\ Finish("nano", CloseAll(Send1(c, m)))
      /\ run' = [run EXCEPT !["nano"] = "stopping"]
      /\ used' = [used EXCEPT !.send["nano"] = @ + 1, !.late = @ + Late("nano", clk)]
      /\ UNCHANGED <<connected, procsid, toack, rcvd, acked>>
  BY DEF NanoInitiateShutdown
<1> HIDE DEF c, m
<1>3. SoundCtx(CloseAll(Send1(c, m)))
  BY <1>1, Send1Sound, CloseAllSound
<1>4. used' \in Used
  <2>1. used \in Used
    BY Types
  <2> QED
    BY <1>1, <1>2, <2>1, UsedType, Zenon
<1>5. run' \in [End -> {"up", "stopping", "down"}]
  BY <1>2, Types
<1> QED
  BY <1>1, <1>2, <1>3, <1>4, <1>5, Types, HandlerSound

LEMMA QuitSound ==
    ASSUME IInv, NEW e \in End, Quit(e)
    PROVE  IInv'
<1>1. fspe' \in [End -> Fspe] /\ AllSound'
  BY NoFspeSound DEF Quit, IInv, TypeOK, AllSound
<1>2. toack' \in [End -> Seq(FrameSet)]
  BY Types, EmptySeq DEF Quit
<1>3. run' \in [End -> {"up", "stopping", "down"}]
  BY Types DEF Quit
<1> QED
  BY <1>1, <1>2, <1>3 DEF Quit, IInv, TypeOK

LEMMA RestartSound ==
    ASSUME IInv, NEW e \in End, Restart(e)
    PROVE  IInv'
<1>1. fspe' \in [End -> Fspe] /\ AllSound'
  BY NoFspeSound DEF Restart, IInv, TypeOK, AllSound
<1>2. toack' \in [End -> Seq(FrameSet)]
  BY Types, EmptySeq DEF Restart
<1>3. run' \in [End -> {"up", "stopping", "down"}] /\ connected' \in BOOLEAN
  BY Types DEF Restart
<1>4. procsid' \in [End -> Nat \ {0}] /\ topsid' \in [End -> Nat \ {0}]
  BY DEF Restart, IInv, TypeOK
<1>5. net' \subseteq Packet
  BY DEF Restart, IInv, TypeOK
<1>6. used' \in Used
  <2>1. used \in Used /\ "early" \in Clock
    BY Types DEF Clock
  <2> QED
    BY <2>1, UsedType, Zenon DEF Restart
<1> QED
  BY <1>1, <1>2, <1>3, <1>4, <1>5, <1>6 DEF Restart, IInv, TypeOK, Used

LEMMA LoseSound ==
    ASSUME IInv, NEW p \in net, Lose(p)
    PROVE  IInv'
BY DEF Lose, IInv, TypeOK, AllSound

\* Every step of the specification preserves the invariant.
LEMMA NextSound == IInv /\ [Next]_vars => IInv'
<1> SUFFICES ASSUME IInv, [Next]_vars PROVE IInv'
  OBVIOUS
<1>1. ASSUME NEW e \in End, NEW clk \in Clock,
             \/ SendAReliableFs(e, clk) \/ SendReliableFs(e, clk)
             \/ ReadPending(e, clk) \/ TimeoutFun(e, clk)
             \/ \E p \in net : RecvFrameSets(e, p, clk)
      PROVE  IInv'
  BY <1>1, SendSound, ReadPendingSound, TimeoutFunSound, RecvSound
<1>2. ASSUME NEW e \in End,
             \/ SendAFrameSet(e) \/ AckMessage(e) \/ ShutTimeout(e)
             \/ FinalizeTimer(e) \/ Restart(e)
      PROVE  IInv'
  BY <1>2, SendAFrameSetSound, AckMessageSound, ShutTimeoutSound, FinalizeTimerSound,
     RestartSound
<1>3. ASSUME NEW clk \in Clock, CloseConn(clk) \/ NanoInitiateShutdown(clk)
      PROVE  IInv'
  BY <1>3, CloseConnSound, NanoInitiateShutdownSound
<1>4. CASE NanoFinalShutdown \/ ShutdownWhenOutdone
  BY <1>4, QuitSound DEF NanoFinalShutdown, ShutdownWhenOutdone, End
<1>5. CASE \E p \in net : Lose(p)
  BY <1>5, LoseSound
<1>6. CASE UNCHANGED vars
  BY <1>6, UnchangedSound
<1> QED
  BY <1>1, <1>2, <1>3, <1>4, <1>5, <1>6 DEF Next

LEMMA Invariance == Spec => []IInv
BY InitSound, NextSound, PTL DEF Spec

-----------------------------------------------------------------------------
(* The theorems.                                                           *)

\* Every variable keeps its type; in particular the queues hold FrameSets and
\* sequence numbers never fall to 0, whatever arrives from the network.
THEOREM TypeCorrect == Spec => []TypeOK
<1>1. IInv => TypeOK
  BY DEF IInv
<1> QED
  BY <1>1, Invariance, PTL

\* AUDITFSPE never complains: a connection is on the unacked list exactly when
\* it has output to retransmit.
THEOREM AuditCorrect == Spec => []AuditFspe
<1>1. IInv => AuditFspe
  BY DEF IInv, AllSound, Sound, AuditFspe
<1> QED
  BY <1>1, Invariance, PTL

\* All pending output has a retransmit time and an ACK timeout.
THEOREM OutputTimed == Spec => []OutputIsTimed
<1>1. IInv => OutputIsTimed
  BY DEF IInv, AllSound, Sound, OutputIsTimed
<1> QED
  BY <1>1, Invariance, PTL

\* A connection that is shutting down has its shutdown timer running, and a
\* connection that is not has none.
THEOREM ShutdownTimed == Spec => []ShutTimerRuns
<1>1. IInv => ShutTimerRuns
  BY DEF IInv, AllSound, Sound, ShutTimerRuns
<1> QED
  BY <1>1, Invariance, PTL

\* The check at the end of _fsprotocol_fsa never complains: state NONE has no
\* output left.
THEOREM ClosedIsDrained == Spec => []NoneIsDrained
<1>1. IInv => NoneIsDrained
  BY DEF IInv, AllSound, Sound, NoneIsDrained
<1> QED
  BY <1>1, Invariance, PTL
=============================================================================
