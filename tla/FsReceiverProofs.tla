-------------------------- MODULE FsReceiverProofs ---------------------------
(***************************************************************************)
(* The receiving side of a connection, proved for any queue length, any    *)
(* number of steps, sessions, shutdowns and restarts, and a network that   *)
(* delivers old packets too: the place of the receiver never goes back     *)
(* but by a reset, and until then no FrameSet is read a second time.       *)
(*                                                                         *)
(* The first part is about the input queue, the second about the place,    *)
(* the third about what each function of the code does to them; the        *)
(* fourth has the invariant and its preservation, the fifth what is given  *)
(* to the application.  The theorems come last.                            *)
(***************************************************************************)
EXTENDS FsDeliveryProofs

-----------------------------------------------------------------------------
(* The input queue.                                                        *)

\* The sequenced FrameSets that wait are of the session of the queue, still to be
\* read, and none waits twice.
Tidy(q) ==
    \A i \in DOMAIN q.items : q.items[i].req # 0 =>
        /\ q.items[i].sid = q.sessionid /\ q.sessionid # 0
        /\ q.items[i].req >= q.nextseqno
        /\ \A j \in DOMAIN q.items : q.items[j].req = q.items[i].req => j = i

LEMMA EmptyTidy ==
    ASSUME NEW q, q.items = <<>>
    PROVE  Tidy(q)
BY DEF Tidy

\* _fsprotocol_read takes the FrameSet that is next.
LEMMA TailTidy ==
    ASSUME NEW q \in Queue, Tidy(q), HeadReady(q), NEW r \in Queue,
           r.items = Tail(q.items), r.sessionid = q.sessionid,
           r.nextseqno = IF Head(q.items).req = 0 THEN q.nextseqno ELSE q.nextseqno + 1
    PROVE  Tidy(r)
<1> DEFINE l == Len(q.items)
<1>1. /\ q.items \in Seq(FrameSet) /\ q.items # <<>> /\ q.nextseqno \in Nat
      /\ Head(q.items).req \in {0, q.nextseqno}
  BY DEF Queue, HeadReady
<1>2. /\ l \in Nat /\ l # 0 /\ DOMAIN q.items = 1 .. l /\ Head(q.items) = q.items[1]
      /\ \A i \in 1 .. l - 1 : r.items[i] = q.items[i + 1]
      /\ DOMAIN r.items = 1 .. l - 1
  <2>1. /\ Tail(q.items) \in Seq(FrameSet) /\ Len(Tail(q.items)) = l - 1
        /\ \A i \in 1 .. l - 1 : Tail(q.items)[i] = q.items[i + 1]
    BY <1>1, HeadTailProperties
  <2>2. l \in Nat /\ l # 0 /\ DOMAIN q.items = 1 .. l
    BY <1>1, LenProperties, EmptySeq
  <2> QED
    BY <1>1, <2>1, <2>2, LenProperties
<1> HIDE DEF l
<1>3. \A i \in 1 .. l - 1 : i + 1 \in 1 .. l /\ i + 1 # 1
  BY <1>2
<1>4. SUFFICES ASSUME NEW i \in 1 .. l - 1, r.items[i].req # 0
               PROVE  /\ r.items[i].sid = r.sessionid /\ r.sessionid # 0
                      /\ r.items[i].req >= r.nextseqno
                      /\ \A j \in 1 .. l - 1 : r.items[j].req = r.items[i].req => j = i
  BY <1>2 DEF Tidy
<1> DEFINE x == q.items[i + 1]
<1>5. /\ r.items[i] = x /\ x.req \in Nat /\ x.sid = q.sessionid /\ q.sessionid # 0
      /\ x.req >= q.nextseqno
      /\ \A j \in 1 .. l : q.items[j].req = x.req => j = i + 1
  <2>1. x \in FrameSet
    BY <1>1, <1>2, <1>3, ElementOfSeq
  <2> QED
    BY <1>2, <1>3, <1>4, <2>1 DEF Tidy, FrameSet
<1>6. Head(q.items).req # x.req
  BY <1>2, <1>3, <1>5
<1>7. x.req >= r.nextseqno
  BY <1>1, <1>5, <1>6
<1>8. ASSUME NEW j \in 1 .. l - 1, r.items[j].req = r.items[i].req
      PROVE  j = i
  <2>1. j + 1 = i + 1
    BY <1>2, <1>3, <1>5, <1>8
  <2> QED
    BY <2>1
<1> QED
  BY <1>5, <1>7, <1>8

\* An unsequenced FrameSet is queued before all others.
LEMMA PrependTidy ==
    ASSUME NEW q \in Queue, Tidy(q), NEW fs \in FrameSet, fs.req = 0, NEW r,
           r.items = <<fs>> \o q.items, r.sessionid = q.sessionid, r.nextseqno = q.nextseqno
    PROVE  Tidy(r)
<1> DEFINE l == Len(q.items)
           s == q.items
<1>1. /\ s \in Seq(FrameSet) /\ l \in Nat /\ DOMAIN s = 1 .. l
      /\ DOMAIN r.items = 1 .. l + 1
      /\ \A i \in 1 .. l + 1 : r.items[i] = IF i = 1 THEN fs ELSE s[i - 1]
  <2>1. s \in Seq(FrameSet) /\ <<fs>> \in Seq(FrameSet) /\ Len(<<fs>>) = 1 /\ <<fs>>[1] = fs
    BY DEF Queue
  <2>2. l \in Nat /\ DOMAIN s = 1 .. l
    BY <2>1, LenProperties
  <2>3. /\ <<fs>> \o s \in Seq(FrameSet) /\ Len(<<fs>> \o s) = 1 + l
        /\ \A i \in 1 .. 1 + l : (<<fs>> \o s)[i] =
                                     IF i <= 1 THEN <<fs>>[i] ELSE s[i - 1]
    BY <2>1, ConcatProperties
  <2> HIDE DEF l, s
  <2>4. \A i \in 1 .. l + 1 : (<<fs>> \o s)[i] = IF i = 1 THEN fs ELSE s[i - 1]
    BY <2>1, <2>2, <2>3
  <2>5. DOMAIN (<<fs>> \o s) = 1 .. l + 1
    BY <2>2, <2>3, LenProperties
  <2> QED
    BY <2>1, <2>2, <2>4, <2>5 DEF s
<1>2. \A i \in 1 .. l : /\ s[i].req # 0 => /\ s[i].sid = q.sessionid /\ q.sessionid # 0
                                           /\ s[i].req >= q.nextseqno
                        /\ \A j \in 1 .. l : s[i].req # 0 /\ s[j].req = s[i].req => j = i
  BY <1>1 DEF Tidy
<1> HIDE DEF l, s
<1>3. SUFFICES ASSUME NEW i \in 1 .. l + 1, r.items[i].req # 0
               PROVE  /\ r.items[i].sid = r.sessionid /\ r.sessionid # 0
                      /\ r.items[i].req >= r.nextseqno
                      /\ \A j \in 1 .. l + 1 : r.items[j].req = r.items[i].req => j = i
  BY <1>1 DEF Tidy
<1>4. i # 1 /\ i - 1 \in 1 .. l /\ r.items[i] = s[i - 1]
  BY <1>1, <1>3
<1>5. ASSUME NEW j \in 1 .. l + 1, r.items[j].req = r.items[i].req
      PROVE  j = i
  <2>1. j # 1 /\ j - 1 \in 1 .. l /\ r.items[j] = s[j - 1]
    BY <1>1, <1>3, <1>5
  <2>2. j - 1 = i - 1
    BY <1>2, <1>3, <1>4, <1>5, <2>1
  <2> QED
    BY <2>2
<1> QED
  BY <1>2, <1>3, <1>4, <1>5

\* The sorted insertion: nothing, or one FrameSet between two that stay.
LEMMA InsertSortedAt ==
    ASSUME NEW q \in Queue, NEW fs \in FrameSet
    PROVE  LET r == InsertSorted(q, fs)
               l == Len(q.items)
           IN  /\ r.sessionid = q.sessionid /\ r.nextseqno = q.nextseqno
               /\ \/ r = q /\ \E i \in DOMAIN q.items : Seqno(q.items[i]) = Seqno(fs)
                  \/ /\ ~ \E i \in DOMAIN q.items : Seqno(q.items[i]) = Seqno(fs)
                     /\ DOMAIN r.items = 1 .. l + 1 /\ r.items # <<>>
                     /\ \E n \in 0 .. l : \A i \in 1 .. l + 1 :
                           r.items[i] = IF i <= n THEN q.items[i]
                                        ELSE IF i = n + 1 THEN fs ELSE q.items[i - 1]
<1> DEFINE s == q.items
           l == Len(s)
           n == Cardinality({i \in DOMAIN q.items : SeqLess(Seqno(q.items[i]), Seqno(fs))})
           part1 == SubSeq(q.items, 1, n)
           part2 == SubSeq(q.items, n + 1, Len(q.items))
           t == part1 \o <<fs>> \o part2
<1>1. s \in Seq(FrameSet) /\ l \in Nat
  BY LenProperties DEF Queue
<1>2. n \in 0 .. l
  BY <1>1, CountType
<1>3. CASE \E i \in DOMAIN q.items : Seqno(q.items[i]) = Seqno(fs)
  BY <1>3 DEF InsertSorted
<1>4. CASE ~ \E i \in DOMAIN q.items : Seqno(q.items[i]) = Seqno(fs)
  <2>1. InsertSorted(q, fs) = [q EXCEPT !.items = t]
    BY <1>4 DEF InsertSorted
  <2> HIDE DEF n, s, l
  <2>2. /\ part1 \in Seq(FrameSet) /\ Len(part1) = n
        /\ \A i \in 1 .. n : part1[i] = s[i]
    <3>1. 1 \in Int /\ n \in Int /\ \A i \in 1 .. n : s[i] \in FrameSet
      BY <1>1, <1>2, ElementOfSeq DEF l
    <3>2. /\ SubSeq(s, 1, n) \in Seq(FrameSet)
          /\ Len(SubSeq(s, 1, n)) = IF 1 <= n THEN n - 1 + 1 ELSE 0
          /\ \A i \in 1 .. n - 1 + 1 : SubSeq(s, 1, n)[i] = s[1 + i - 1]
      BY <3>1, SubSeqProperties
    <3> QED
      BY <1>1, <1>2, <3>2 DEF s
  <2>3. /\ part2 \in Seq(FrameSet) /\ Len(part2) = l - n
        /\ \A i \in 1 .. l - n : part2[i] = s[n + i]
    <3>1. n + 1 \in Int /\ l \in Int /\ \A i \in n + 1 .. l : s[i] \in FrameSet
      BY <1>1, <1>2, ElementOfSeq DEF l
    <3>2. /\ SubSeq(s, n + 1, l) \in Seq(FrameSet)
          /\ Len(SubSeq(s, n + 1, l)) = IF n + 1 <= l THEN l - (n + 1) + 1 ELSE 0
          /\ \A i \in 1 .. l - (n + 1) + 1 : SubSeq(s, n + 1, l)[i] = s[n + 1 + i - 1]
      BY <3>1, SubSeqProperties
    <3> QED
      BY <1>1, <1>2, <3>2 DEF s, l
  <2> HIDE DEF part1, part2
  <2>4. <<fs>> \in Seq(FrameSet) /\ Len(<<fs>>) = 1 /\ <<fs>>[1] = fs
    OBVIOUS
  <2> DEFINE u == part1 \o <<fs>>
  <2>5. /\ u \in Seq(FrameSet) /\ Len(u) = n + 1
        /\ \A i \in 1 .. n + 1 : u[i] = IF i <= n THEN s[i] ELSE fs
    <3>1. /\ u \in Seq(FrameSet) /\ Len(u) = Len(part1) + Len(<<fs>>)
          /\ \A i \in 1 .. Len(part1) + Len(<<fs>>) :
                u[i] = IF i <= Len(part1) THEN part1[i] ELSE <<fs>>[i - Len(part1)]
      BY <2>2, <2>4, ConcatProperties
    <3> HIDE DEF u
    <3>2. \A i \in 1 .. n + 1 : i > n => i - n = 1
      BY <1>1, <1>2
    <3>3. ASSUME NEW i \in 1 .. n + 1 PROVE u[i] = IF i <= n THEN s[i] ELSE fs
      <4>1. CASE i <= n
        BY <1>1, <1>2, <2>2, <2>4, <3>1, <4>1
      <4>2. CASE i > n
        BY <1>1, <1>2, <2>2, <2>4, <3>1, <3>2, <4>2
      <4> QED
        BY <1>1, <1>2, <4>1, <4>2
    <3> QED
      BY <1>1, <1>2, <2>2, <2>4, <3>1, <3>3
  <2> HIDE DEF u
  <2>6. /\ t \in Seq(FrameSet) /\ Len(t) = l + 1
        /\ \A i \in 1 .. l + 1 : t[i] = IF i <= n + 1 THEN u[i] ELSE part2[i - (n + 1)]
    <3>1. /\ u \o part2 \in Seq(FrameSet) /\ Len(u \o part2) = Len(u) + Len(part2)
          /\ \A i \in 1 .. Len(u) + Len(part2) :
                (u \o part2)[i] = IF i <= Len(u) THEN u[i] ELSE part2[i - Len(u)]
      BY <2>3, <2>5, ConcatProperties
    <3>2. Len(u) + Len(part2) = l + 1
      BY <1>1, <1>2, <2>3, <2>5
    <3> QED
      BY <2>5, <3>1, <3>2 DEF u
  <2> HIDE DEF t
  <2>7. ASSUME NEW i \in 1 .. l + 1
        PROVE  t[i] = IF i <= n THEN s[i] ELSE IF i = n + 1 THEN fs ELSE s[i - 1]
    <3>1. CASE i <= n + 1
      BY <1>1, <1>2, <2>5, <2>6, <3>1
    <3>2. CASE i > n + 1
      <4>1. i - (n + 1) \in 1 .. l - n /\ n + (i - (n + 1)) = i - 1
        BY <1>1, <1>2, <3>2
      <4>2. t[i] = part2[i - (n + 1)]
        BY <1>1, <1>2, <2>6, <3>2
      <4>3. part2[i - (n + 1)] = s[n + (i - (n + 1))]
        BY <2>3, <4>1
      <4>4. ~(i <= n) /\ i # n + 1
        BY <1>1, <1>2, <3>2
      <4> QED
        BY <4>1, <4>2, <4>3, <4>4
    <3> QED
      BY <1>1, <1>2, <3>1, <3>2
  <2>8. DOMAIN t = 1 .. l + 1 /\ t # <<>>
    BY <1>1, <2>6, LenProperties
  <2>9. /\ InsertSorted(q, fs).items = t /\ InsertSorted(q, fs).sessionid = q.sessionid
        /\ InsertSorted(q, fs).nextseqno = q.nextseqno
    BY <2>1 DEF Queue
  <2> QED
    BY <1>2, <1>4, <2>7, <2>8, <2>9 DEF s, l
<1> QED
  BY <1>3, <1>4

LEMMA InsertTidy ==
    ASSUME NEW q \in Queue, Tidy(q), NEW fs \in FrameSet, fs.req # 0,
           fs.sid = q.sessionid, q.sessionid # 0, fs.req >= q.nextseqno
    PROVE  Tidy(InsertSorted(q, fs)) /\ InsertSorted(q, fs).items # <<>>
<1> DEFINE r == InsertSorted(q, fs)
           s == q.items
           l == Len(s)
<1>1. /\ r.sessionid = q.sessionid /\ r.nextseqno = q.nextseqno
      /\ \/ r = q /\ \E i \in DOMAIN s : Seqno(s[i]) = Seqno(fs)
         \/ /\ ~ \E i \in DOMAIN s : Seqno(s[i]) = Seqno(fs)
            /\ DOMAIN r.items = 1 .. l + 1 /\ r.items # <<>>
            /\ \E n \in 0 .. l : \A i \in 1 .. l + 1 :
                  r.items[i] = IF i <= n THEN s[i] ELSE IF i = n + 1 THEN fs ELSE s[i - 1]
  BY InsertSortedAt
<1>2. s \in Seq(FrameSet) /\ l \in Nat /\ DOMAIN s = 1 .. l
  BY LenProperties DEF Queue
<1>3. \A i \in 1 .. l : s[i].req # 0 =>
          /\ s[i].sid = q.sessionid /\ s[i].req >= q.nextseqno
          /\ \A j \in 1 .. l : s[j].req = s[i].req => j = i
  BY <1>2 DEF Tidy
<1> HIDE DEF r, l
<1>4. CASE \E i \in DOMAIN s : Seqno(s[i]) = Seqno(fs)
  BY <1>1, <1>2, <1>4 DEF r
<1>5. CASE ~ \E i \in DOMAIN s : Seqno(s[i]) = Seqno(fs)
  <2>1. PICK n \in 0 .. l : \A i \in 1 .. l + 1 :
           r.items[i] = IF i <= n THEN s[i] ELSE IF i = n + 1 THEN fs ELSE s[i - 1]
    BY <1>1, <1>5
  <2> DEFINE old(i) == IF i <= n THEN i ELSE i - 1
  <2>2. \A i \in 1 .. l + 1 : i # n + 1 => old(i) \in 1 .. l /\ r.items[i] = s[old(i)]
    BY <1>2, <2>1
  <2>3. r.items[n + 1] = fs /\ n + 1 \in 1 .. l + 1
    BY <1>2, <2>1
  <2>4. \A i, j \in 1 .. l + 1 : i # n + 1 /\ j # n + 1 /\ old(i) = old(j) => i = j
    BY <1>2
  <2> HIDE DEF old
  <2>5. \A i \in 1 .. l : s[i].req # fs.req
    <3>1. SUFFICES ASSUME NEW i \in 1 .. l, s[i].req = fs.req PROVE FALSE
      OBVIOUS
    <3>2. Seqno(s[i]) = Seqno(fs)
      BY <1>3, <3>1 DEF Seqno
    <3> QED
      BY <1>2, <1>5, <3>2
  <2>6. ASSUME NEW i \in 1 .. l + 1, r.items[i].req # 0
        PROVE  /\ r.items[i].sid = q.sessionid /\ r.items[i].req >= q.nextseqno
               /\ \A j \in 1 .. l + 1 : r.items[j].req = r.items[i].req => j = i
    <3>1. CASE i = n + 1
      <4>1. ASSUME NEW j \in 1 .. l + 1, r.items[j].req = r.items[i].req PROVE j = i
        BY <2>2, <2>3, <2>5, <3>1, <4>1
      <4> QED
        BY <2>3, <3>1, <4>1
    <3>2. CASE i # n + 1
      <4>1. old(i) \in 1 .. l /\ r.items[i] = s[old(i)]
        BY <2>2, <3>2
      <4>2. ASSUME NEW j \in 1 .. l + 1, r.items[j].req = r.items[i].req PROVE j = i
        <5>1. j # n + 1
          BY <2>3, <2>5, <4>1, <4>2
        <5>2. old(j) \in 1 .. l /\ r.items[j] = s[old(j)]
          BY <2>2, <5>1
        <5>3. old(j) = old(i)
          BY <1>3, <2>6, <4>1, <4>2, <5>2
        <5> QED
          BY <2>4, <3>2, <5>1, <5>3
      <4> QED
        BY <1>3, <2>6, <4>1, <4>2
    <3> QED
      BY <3>1, <3>2
  <2>7. DOMAIN r.items = 1 .. l + 1 /\ r.items # <<>>
    BY <1>1, <1>5
  <2> HIDE DEF s
  <2>8. Tidy(r)
    BY <1>1, <2>6, <2>7 DEF Tidy
  <2> QED
    BY <2>7, <2>8 DEF r
<1> QED
  BY <1>4, <1>5

\* What the sequence frame does to the session, as far as the rest needs it.
LEMMA AdoptSessionTidy ==
    ASSUME NEW q \in Queue, Tidy(q), NEW fs \in FrameSet, fs.req # 0, fs.sid # 0,
           fs.sid >= q.sessionid
    PROVE  LET r == AdoptSession(q, fs)
           IN  /\ r \in Queue /\ Tidy(r) /\ r.sessionid = fs.sid
               /\ r.items = q.items \/ (r.items = <<>> /\ r.nextseqno = 1)
<1> DEFINE r == AdoptSession(q, fs)
<1>1. /\ q.items \in Seq(FrameSet) /\ q.nextseqno \in Nat \ {0} /\ q.sessionid \in Nat
      /\ fs.sid \in Nat /\ fs.req \in Nat
  BY DEF Queue, FrameSet
<1>2. r \in Queue
  BY AdoptSessionType
<1>3. CASE q.sessionid = 0
  <2>1. r.items = q.items /\ r.sessionid = fs.sid
    BY <1>3 DEF AdoptSession, Queue
  <2>2. \A i \in DOMAIN q.items : q.items[i].req = 0
    BY <1>3 DEF Tidy
  <2> QED
    BY <1>2, <2>1, <2>2 DEF Tidy
<1>4. CASE q.sessionid # 0 /\ fs.sid > q.sessionid
  <2>1. r.items = <<>> /\ r.sessionid = fs.sid /\ r.nextseqno = 1
    BY <1>4 DEF AdoptSession, Flush, Queue
  <2> QED
    BY <1>2, <2>1, EmptyTidy
<1>5. CASE q.sessionid # 0 /\ fs.sid = q.sessionid
  <2>1. r = q
    BY <1>1, <1>5 DEF AdoptSession
  <2> QED
    BY <1>2, <1>5, <2>1
<1> QED
  BY <1>1, <1>3, <1>4, <1>5

\* _fsqueue_inqsorted keeps the queue tidy, whatever session the FrameSet is of.
LEMMA InqSortedTidy ==
    ASSUME NEW q \in Queue, Tidy(q), NEW fs \in FrameSet, fs.req # 0 => fs.sid # 0
    PROVE  Tidy(InqSorted(q, fs).q)
<1> DEFINE r  == InqSorted(q, fs).q
           q1 == AdoptSession(q, fs)
<1>1. q.sessionid \in Nat /\ fs.sid \in Nat /\ fs.req \in Nat
  BY DEF Queue, FrameSet
<1>2. CASE fs.req = 0
  <2> DEFINE h == [q EXCEPT !.items = <<fs>> \o q.items]
  <2>1. r = h \/ r = q
    BY <1>2 DEF InqSorted
  <2>2. h.items = <<fs>> \o q.items /\ h.sessionid = q.sessionid /\ h.nextseqno = q.nextseqno
    BY DEF Queue
  <2> HIDE DEF h, r
  <2>3. Tidy(h)
    BY <1>2, <2>2, PrependTidy
  <2> QED
    BY <2>1, <2>3 DEF r
<1>3. CASE fs.req # 0 /\ q.sessionid # 0 /\ fs.sid < q.sessionid
  BY <1>3 DEF InqSorted
<1>4. CASE fs.req # 0 /\ ~(q.sessionid # 0 /\ fs.sid < q.sessionid)
  <2>1. q1 \in Queue /\ Tidy(q1) /\ q1.sessionid = fs.sid
    BY <1>1, <1>4, AdoptSessionTidy
  <2> HIDE DEF q1
  <2>2. r = IF fs.req < q1.nextseqno \/ ~HasQSpace1(q1) THEN q1 ELSE InsertSorted(q1, fs)
    BY <1>4 DEF InqSorted, q1
  <2> HIDE DEF r
  <2>3. CASE fs.req < q1.nextseqno \/ ~HasQSpace1(q1)
    BY <2>1, <2>2, <2>3 DEF r
  <2>4. CASE ~(fs.req < q1.nextseqno \/ ~HasQSpace1(q1))
    <3>1. r = InsertSorted(q1, fs) /\ fs.req >= q1.nextseqno
      BY <1>1, <2>1, <2>2, <2>4 DEF Queue
    <3>2. Tidy(r)
      BY <1>4, <2>1, <3>1, InsertTidy
    <3> QED
      BY <3>2 DEF r
  <2> QED
    BY <2>3, <2>4
<1> QED
  BY <1>2, <1>3, <1>4

-----------------------------------------------------------------------------
(* The place of the receiver: the session of the input queue and the next  *)
(* sequence number to be read.                                             *)

Place(q) == <<q.sessionid, q.nextseqno>>

\* r, made from q, is in the same place or further in its session, or has been reset.
Stays(q, r) ==
    r.sessionid = 0 \/ (r.sessionid = q.sessionid /\ q.nextseqno <= r.nextseqno)

\* Or it is in a later session.
Forward(q, r) == Stays(q, r) \/ q.sessionid < r.sessionid

LEMMA StaysTransitive ==
    ASSUME NEW q \in Queue, NEW r \in Queue, NEW s \in Queue, Stays(r, s)
    PROVE  /\ Stays(q, r) => Stays(q, s)
           /\ Forward(q, r) => Forward(q, s)
<1>1. /\ q.sessionid \in Nat /\ r.sessionid \in Nat /\ s.sessionid \in Nat
      /\ q.nextseqno \in Nat /\ r.nextseqno \in Nat /\ s.nextseqno \in Nat
  BY DEF Queue
<1> QED
  BY <1>1 DEF Stays, Forward

LEMMA InqOf ==
    ASSUME NEW c, SoundCtx(c)
    PROVE  c.f.inq \in Queue /\ Stays(c.f.inq, c.f.inq)
<1>1. c.f.inq \in Queue /\ c.f.inq.nextseqno \in Nat
  BY CtxFields, FspeFields DEF SoundCtx
<1> QED
  BY <1>1 DEF Stays

\* inqsorted moves the place when it adopts a session, and only to a later one.
LEMMA InqSortedForward ==
    ASSUME NEW q \in Queue, NEW fs \in FrameSet
    PROVE  Forward(q, InqSorted(q, fs).q)
<1> DEFINE q1 == AdoptSession(q, fs)
<1>1. q.sessionid \in Nat /\ q.nextseqno \in Nat /\ fs.sid \in Nat
  BY DEF Queue, FrameSet
<1>2. /\ q1 \in Queue
      /\ \/ q1 = q
         \/ q.sessionid = 0 /\ q1.sessionid = fs.sid
         \/ q.sessionid < fs.sid /\ q1.sessionid = fs.sid
  <2>1. \/ q1 = q
        \/ q.sessionid = 0 /\ q1.sessionid = fs.sid
        \/ q.sessionid < fs.sid /\ q1.sessionid = fs.sid
    BY <1>1 DEF AdoptSession, Flush, Queue
  <2> QED
    BY <2>1, AdoptSessionType
<1> HIDE DEF q1
<1>3. Forward(q, q1) /\ Forward(q, q)
  BY <1>1, <1>2 DEF Forward, Stays
<1>4. /\ InsertSorted(q1, fs).sessionid = q1.sessionid
      /\ InsertSorted(q1, fs).nextseqno = q1.nextseqno
  BY <1>2, InsertSortedAt
<1>5. Forward(q, InsertSorted(q1, fs))
  BY <1>3, <1>4 DEF Forward, Stays
<1>6. Forward(q, [q EXCEPT !.items = <<fs>> \o q.items])
  BY <1>1 DEF Forward, Stays, Queue
<1>7. InqSorted(q, fs).q \in {q, q1, InsertSorted(q1, fs), [q EXCEPT !.items = <<fs>> \o q.items]}
  BY DEF InqSorted, q1
<1> QED
  BY <1>3, <1>5, <1>6, <1>7

-----------------------------------------------------------------------------
(* What the functions of the code do to the input queue, and that what     *)
(* they number and send has a session.                                     *)

\* What is queued, or has been handed to the socket, was numbered by an end whose
\* session id is a time of day, never 0.
Dated(c) ==
    /\ c.psid # 0
    /\ \A x \in ToSet(c.f.outq.items) : x.sid # 0
    /\ \A x \in SentData(c.tx) : x.sid # 0

\* d, made from c, is as good as c was.
Preserves(c, d) ==
    /\ d.psid = c.psid
    /\ Tidy(c.f.inq) => Tidy(d.f.inq)
    /\ Dated(c) => Dated(d)

\* ... and the receiver is where it was, or has read on.
Rests(c, d) == Preserves(c, d) /\ Stays(c.f.inq, d.f.inq)

\* ... or has adopted a later session.
Moves(c, d) == Preserves(c, d) /\ Forward(c.f.inq, d.f.inq)

LEMMA RestsTransitive ==
    ASSUME NEW b, SoundCtx(b), NEW c, SoundCtx(c), NEW d, SoundCtx(d), Rests(c, d)
    PROVE  /\ Rests(b, c) => Rests(b, d)
           /\ Moves(b, c) => Moves(b, d)
BY InqOf, StaysTransitive DEF Rests, Moves, Preserves

LEMMA SelfRests ==
    ASSUME NEW c, SoundCtx(c)
    PROVE  Rests(c, c)
BY InqOf DEF Rests, Preserves

LEMMA AckThroughRange ==
    ASSUME NEW q \in Queue, NEW seq \in SeqId
    PROVE  ToSet(AckThrough(q, seq).items) \subseteq ToSet(q.items)
<1> DEFINE n == Cardinality({i \in DOMAIN q.items : q.items[i].req <= seq[2]})
           t == SubSeq(q.items, n + 1, Len(q.items))
<1>1. q.items \in Seq(FrameSet) /\ Len(q.items) \in Nat
  BY LenProperties DEF Queue
<1>2. n \in 0 .. Len(q.items)
  BY <1>1, CountType
<1>3. AckThrough(q, seq) = [q EXCEPT !.items = t]
  BY DEF AckThrough
<1> HIDE DEF n
<1>4. n + 1 \in 1 .. Len(q.items) + 1 /\ Len(q.items) \in 0 .. Len(q.items)
  BY <1>1, <1>2
<1>5. ToSet(t) \subseteq ToSet(q.items)
  BY <1>1, <1>4, PartRange
<1> HIDE DEF t
<1>6. AckThrough(q, seq).items = t
  BY <1>3 DEF Queue
<1> QED
  BY <1>5, <1>6

\* A FrameSet that is queued for output takes the session of the queue, or of the
\* process, as its own.
LEMMA EnqDated ==
    ASSUME NEW q \in Queue, NEW msg \in Nat, NEW psid \in Nat \ {0},
           \A x \in ToSet(q.items) : x.sid # 0
    PROVE  \A x \in ToSet(Enq(q, msg, psid).items) : x.sid # 0
<1> DEFINE fs == [sid |-> EnqSession(q, psid), req |-> q.nextseqno, msg |-> msg]
           t  == Append(q.items, fs)
<1>1. Enq(q, msg, psid) = q \/ Enq(q, msg, psid).items = t
  BY DEF Enq, Queue
<1>2. q.items \in Seq(FrameSet) /\ fs \in FrameSet /\ fs.sid # 0
  BY DEF Queue, FrameSet, EnqSession
<1> HIDE DEF fs
<1>3. ASSUME NEW i \in DOMAIN t PROVE t[i] = fs \/ \E j \in DOMAIN q.items : t[i] = q.items[j]
  <2>1. /\ Len(q.items) \in Nat /\ DOMAIN q.items = 1 .. Len(q.items)
        /\ DOMAIN t = 1 .. Len(q.items) + 1 /\ t[Len(q.items) + 1] = fs
        /\ \A j \in 1 .. Len(q.items) : t[j] = q.items[j]
    BY <1>2, AppendProperties, LenProperties
  <2> HIDE DEF t
  <2>2. i \in 1 .. Len(q.items) \/ i = Len(q.items) + 1
    BY <1>3, <2>1
  <2> QED
    BY <2>1, <2>2
<1> HIDE DEF t
<1> QED
  BY <1>1, <1>2, <1>3 DEF ToSet

\* The elements are as they were, or reset.
LEMMA KeepsRests ==
    ASSUME NEW c, SoundCtx(c), NEW d, SoundCtx(d), Keeps(c.f, d.f), d.psid = c.psid,
           Dated(c) => \A x \in SentData(d.tx) : x.sid # 0
    PROVE  Rests(c, d)
<1>1. CASE Same(c.f, d.f)
  BY <1>1, InqOf DEF Same, SameQueues, Rests, Preserves, Dated
<1>2. CASE Reset(c.f, d.f)
  <2>1. Tidy(d.f.inq)
    BY <1>2, EmptyTidy DEF Reset
  <2>2. ToSet(d.f.outq.items) = {}
    BY <1>2, NothingInEmpty DEF Reset
  <2> QED
    BY <1>2, <2>1, <2>2 DEF Reset, Rests, Preserves, Dated, Stays
<1> QED
  BY <1>1, <1>2 DEF Keeps

LEMMA XmitRests ==
    ASSUME NEW c, SoundCtx(c)
    PROVE  Rests(c, Xmit(c)) /\ SoundCtx(Xmit(c))
<1> DEFINE d == Xmit(c)
<1>1. /\ SoundCtx(d) /\ Keeps(c.f, d.f) /\ d.psid = c.psid
      /\ \A y \in d.tx :
            y \in c.tx \/ \E i \in DOMAIN c.f.outq.items : y = Data(c.f.outq.items[i])
  BY XmitSound, XmitKeeps
<1> HIDE DEF d
<1>2. \A x \in SentData(d.tx) : x \in SentData(c.tx) \/ x \in ToSet(c.f.outq.items)
  BY <1>1 DEF SentData, Data, ToSet
<1>3. Dated(c) => \A x \in SentData(d.tx) : x.sid # 0
  BY <1>2 DEF Dated
<1> QED
  BY <1>1, <1>3, KeepsRests DEF d

\* A step, then _fsprotocol_xmitifwecan.
LEMMA ThenXmitRests ==
    ASSUME NEW c, SoundCtx(c), NEW d, SoundCtx(d)
    PROVE  /\ Rests(c, d) => Rests(c, Xmit(d))
           /\ Moves(c, d) => Moves(c, Xmit(d))
BY XmitRests, RestsTransitive

LEMMA Send1Rests ==
    ASSUME NEW c, SoundCtx(c), NEW msg \in Nat
    PROVE  Rests(c, Send1(c, msg)) /\ SoundCtx(Send1(c, msg))
<1>1. CASE InShutdown(c.f.state)
  BY <1>1, SelfRests DEF Send1
<1>2. CASE ~InShutdown(c.f.state)
  <2>1. PICK d : /\ SoundCtx(d) /\ Send1(c, msg) = Xmit(d) /\ d.psid = c.psid /\ d.tx = c.tx
                 /\ d.f.outq = Enq(c.f.outq, msg, c.psid) /\ d.f.inq = c.f.inq
    BY <1>2, Send1Steps
  <2>2. c.f.outq \in Queue /\ c.psid \in Nat
    BY CtxFields, FspeFields DEF SoundCtx
  <2>3. Dated(c) => Dated(d)
    BY <2>1, <2>2, EnqDated DEF Dated
  <2>4. Rests(c, d)
    BY <2>1, <2>3, InqOf DEF Rests, Preserves
  <2> QED
    BY <2>1, <2>4, ThenXmitRests, XmitSound
<1> QED
  BY <1>1, <1>2

LEMMA AckSeqnoRests ==
    ASSUME NEW c, SoundCtx(c), NEW seq \in SeqId
    PROVE  Rests(c, AckSeqno(c, seq)) /\ SoundCtx(AckSeqno(c, seq))
<1> DEFINE d == AckSeqno(c, seq)
<1>1. /\ SoundCtx(d) /\ d.psid = c.psid /\ d.f.outq = c.f.outq /\ d.f.inq = c.f.inq
      /\ d.tx = c.tx \/ d.tx = c.tx \cup {Ack(seq)}
  BY AckSeqnoSteps, AckSeqnoSound
<1> HIDE DEF d
<1>2. \A x \in SentData(d.tx) : x \in SentData(c.tx)
  BY <1>1 DEF SentData, Ack
<1> QED
  BY <1>1, <1>2, InqOf DEF Rests, Preserves, Dated, d

LEMMA FsaShutRests ==
    ASSUME NEW c, SoundCtx(c), NEW i \in {"REQSHUTDOWN", "RCVSHUTDOWN"}, NEW seq \in SeqId
    PROVE  Rests(c, FsaShut(c, i, seq)) /\ SoundCtx(FsaShut(c, i, seq))
<1> DEFINE d == FsaShut(c, i, seq)
<1>1. PICK c1, c2 : /\ SoundCtx(c1) /\ SoundCtx(c2)
                    /\ c1 = c \/ c1 = AckSeqno(c, seq)
                    /\ c2 = c1 \/ c2 = Send1(c1, CONNSHUT)
                    /\ KeepsCtx(c2, d)
  BY FsaShutSteps
<1>2. SoundCtx(d) /\ CONNSHUT \in Nat
  BY FsaShutSound DEF CONNSHUT
<1> HIDE DEF d
<1>3. Rests(c, c1)
  BY <1>1, AckSeqnoRests, SelfRests
<1>4. Rests(c1, c2)
  BY <1>1, <1>2, Send1Rests, SelfRests
<1>5. Rests(c2, d)
  BY <1>1, <1>2, KeepsRests DEF KeepsCtx, Dated
<1>6. Rests(c, c2)
  BY <1>1, <1>3, <1>4, RestsTransitive
<1> QED
  BY <1>1, <1>2, <1>5, <1>6, RestsTransitive DEF d

LEMMA ReceiveAckRests ==
    ASSUME NEW c, SoundCtx(c), NEW seq \in SeqId
    PROVE  Rests(c, ReceiveAck(c, seq)) /\ SoundCtx(ReceiveAck(c, seq))
<1>0. SoundCtx(ReceiveAck(c, seq))
  BY ReceiveAckSound
<1>1. CASE ReceiveAck(c, seq) = c
  BY <1>1, SelfRests
<1>2. CASE ReceiveAck(c, seq) # c
  <2>1. PICK d : /\ SoundCtx(d) /\ d.psid = c.psid /\ d.tx = c.tx
                 /\ d.f.outq = AckThrough(c.f.outq, seq) /\ d.f.inq = c.f.inq
                 /\ \/ ReceiveAck(c, seq) = d \/ ReceiveAck(c, seq) = Xmit(d)
                    \/ KeepsCtx(d, ReceiveAck(c, seq))
    BY <1>2, ReceiveAckSteps
  <2>2. ToSet(d.f.outq.items) \subseteq ToSet(c.f.outq.items)
    BY <2>1, AckThroughRange, CtxFields, FspeFields DEF SoundCtx
  <2>3. Rests(c, d)
    BY <2>1, <2>2, InqOf DEF Rests, Preserves, Dated
  <2>4. CASE KeepsCtx(d, ReceiveAck(c, seq))
    <3>1. Rests(d, ReceiveAck(c, seq))
      BY <1>0, <2>1, <2>4, KeepsRests DEF KeepsCtx, Dated
    <3> QED
      BY <1>0, <2>1, <2>3, <3>1, RestsTransitive
  <2> QED
    BY <1>0, <2>1, <2>3, <2>4, ThenXmitRests
<1> QED
  BY <1>0, <1>1, <1>2

LEMMA ReceiveDataMoves ==
    ASSUME NEW c, SoundCtx(c), NEW fs \in FrameSet, fs.req # 0 => fs.sid # 0
    PROVE  Moves(c, ReceiveData(c, fs)) /\ SoundCtx(ReceiveData(c, fs))
<1> DEFINE r     == InqSorted(c.f.inq, fs).q
           ready == BecomesReady(r, fs)
<1>1. PICK d : /\ SoundCtx(d) /\ ReceiveData(c, fs) = Xmit(d)
               /\ d.psid = c.psid /\ d.f.outq = c.f.outq
               /\ d.f.inq = [r EXCEPT !.isready = r.isready \/ ready]
               /\ \/ d.tx = c.tx
                  \/ d.tx = c.tx \cup {Ack(c.f.lastacksent)}
  BY ReceiveDataSteps
<1>2. c.f.inq \in Queue /\ r \in Queue /\ Forward(c.f.inq, r) /\ (Tidy(c.f.inq) => Tidy(r))
  BY InqOf, InqSortedType, InqSortedForward, InqSortedTidy
<1> HIDE DEF r, ready
<1>3. /\ d.f.inq.items = r.items /\ d.f.inq.sessionid = r.sessionid
      /\ d.f.inq.nextseqno = r.nextseqno
  BY <1>1, <1>2 DEF Queue
<1>4. Forward(c.f.inq, d.f.inq) /\ (Tidy(c.f.inq) => Tidy(d.f.inq))
  BY <1>2, <1>3 DEF Forward, Stays, Tidy
<1>5. \A x \in SentData(d.tx) : x \in SentData(c.tx)
  BY <1>1 DEF SentData, Ack
<1>6. Moves(c, d)
  BY <1>1, <1>4, <1>5 DEF Moves, Preserves, Dated
<1> QED
  BY <1>1, <1>6, ThenXmitRests, XmitSound

\* What the application is given is before the place, and the place after it.
LEMMA ReadRests ==
    ASSUME NEW c, SoundCtx(c)
    PROVE  /\ Rests(c, Read(c)) /\ SoundCtx(Read(c))
           /\ Tidy(c.f.inq) => \A x \in ToSet(ReadResult(c)) :
                Read(c).f.inq.sessionid = 0 \/ SeqLess(Seqno(x), Place(Read(c).f.inq))
<1>1. CASE ~HeadReady(c.f.inq)
  <2>1. Read(c) = c \/ Read(c) = Xmit(c)
    BY <1>1, ReadSteps
  <2>2. ToSet(ReadResult(c)) = {}
    BY <1>1, NothingInEmpty DEF ReadResult
  <2> QED
    BY <2>1, <2>2, SelfRests, XmitRests
<1>2. CASE HeadReady(c.f.inq)
  <2> DEFINE fs == Head(c.f.inq.items)
  <2>1. PICK d1, d2 : /\ SoundCtx(d1) /\ SoundCtx(d2) /\ d1.psid = c.psid /\ d1.tx = c.tx
                      /\ d1.f.outq = c.f.outq /\ d1.f.inq.items = Tail(c.f.inq.items)
                      /\ d1.f.inq.sessionid = c.f.inq.sessionid
                      /\ d1.f.inq.nextseqno = IF fs.req = 0 THEN c.f.inq.nextseqno
                                              ELSE c.f.inq.nextseqno + 1
                      /\ d2 = d1 \/ d2 = FsaShut(d1, "RCVSHUTDOWN", Seqno(fs))
                      /\ Read(c) = Xmit(d2)
    BY <1>2, ReadSteps
  <2>2. fs \in FrameSet /\ fs.req \in {0, c.f.inq.nextseqno}
    BY <1>2, ReadSteps DEF HeadReady
  <2>3. Seqno(fs) \in SeqId
    BY <2>2, FrameTypes
  <2>4. /\ c.f.inq \in Queue /\ d1.f.inq \in Queue /\ c.f.inq.nextseqno \in Nat
        /\ c.f.inq.items \in Seq(FrameSet) /\ c.f.inq.items # <<>>
    BY <1>2, <2>1, CtxFields, FspeFields DEF SoundCtx, HeadReady
  <2>5. Tidy(c.f.inq) /\ fs.req # 0 => fs.sid = c.f.inq.sessionid
    <3>1. 1 \in DOMAIN c.f.inq.items /\ fs = c.f.inq.items[1]
      <4>1. Len(c.f.inq.items) \in Nat /\ Len(c.f.inq.items) # 0
            /\ DOMAIN c.f.inq.items = 1 .. Len(c.f.inq.items)
        BY <2>4, LenProperties, EmptySeq
      <4> QED
        BY <2>4, <4>1
    <3> QED
      BY <3>1 DEF Tidy
  <2>6. ReadResult(c) \in {<<fs>>, <<>>} /\ (fs.req = 0 => ReadResult(c) = <<>>)
    BY DEF ReadResult
  <2>7. \A x \in ToSet(ReadResult(c)) : x = fs /\ fs.req # 0
    BY <2>6, NothingInEmpty DEF ToSet
  <2>8. Tidy(c.f.inq) => Tidy(d1.f.inq)
    BY <1>2, <2>1, <2>4, TailTidy
  <2> HIDE DEF fs
  <2>9. Rests(c, d1)
    BY <2>1, <2>4, <2>8 DEF Rests, Preserves, Stays, Dated
  <2>10. Rests(d1, d2)
    BY <2>1, <2>3, SelfRests, FsaShutRests
  <2>11. Rests(d1, Read(c)) /\ SoundCtx(Read(c))
    BY <2>1, <2>10, ThenXmitRests, ReadSound
  <2>12. Rests(c, Read(c))
    BY <2>1, <2>9, <2>11, RestsTransitive
  <2>13. ASSUME Tidy(c.f.inq), fs.req # 0, Read(c).f.inq.sessionid # 0
         PROVE  SeqLess(Seqno(fs), Place(Read(c).f.inq))
    <3>1. /\ fs.sid = c.f.inq.sessionid /\ fs.req = c.f.inq.nextseqno
          /\ d1.f.inq.nextseqno = c.f.inq.nextseqno + 1
      BY <2>1, <2>2, <2>5, <2>13
    <3>2. /\ Read(c).f.inq.sessionid = d1.f.inq.sessionid
          /\ d1.f.inq.nextseqno <= Read(c).f.inq.nextseqno
      BY <2>11, <2>13 DEF Rests, Stays
    <3>3. Read(c).f.inq.nextseqno \in Nat
      BY <2>11, CtxFields, FspeFields DEF SoundCtx
    <3>4. fs.req < Read(c).f.inq.nextseqno /\ fs.sid = Read(c).f.inq.sessionid
      BY <2>1, <2>4, <3>1, <3>2, <3>3
    <3> QED
      BY <3>4 DEF SeqLess, Seqno, Place
  <2> QED
    BY <2>7, <2>11, <2>12, <2>13
<1> QED
  BY <1>1, <1>2

\* A queue and its element that are forgotten: destroyed, or closed at once.
LEMMA DestroyRests ==
    ASSUME NEW c, SoundCtx(c), NEW d, d = [c EXCEPT !.f = Destroy(c.f)]
    PROVE  Rests(c, d)
<1>1. c \in Context /\ c.f \in Fspe /\ Destroy(c.f) \in Fspe
  BY CtxFields, DestroySound DEF SoundCtx
<1>2. Destroy(c.f).inq = NewQueue /\ Destroy(c.f).outq = NewQueue
  BY <1>1, DestroyForgets
<1>3. d.f = Destroy(c.f) /\ d.psid = c.psid /\ d.tx = c.tx
  BY <1>1, CtxFields
<1>4. /\ NewQueue.sessionid = 0 /\ NewQueue.items = <<>> /\ Tidy(NewQueue)
      /\ ToSet(NewQueue.items) = {}
  BY EmptyTidy, NothingInEmpty DEF NewQueue
<1> QED
  BY <1>2, <1>3, <1>4 DEF Rests, Preserves, Dated, Stays

LEMMA CloseAllRests ==
    ASSUME NEW c, SoundCtx(c)
    PROVE  Rests(c, CloseAll(c))
<1>1. NoSeq \in SeqId
  BY DEF NoSeq, SeqId
<1>2. CASE CanCloseImmediately(c.f)
  <2>1. CloseAll(c) = [c EXCEPT !.f = Destroy(c.f)]
    BY <1>2, Zenon DEF CloseAll
  <2> QED
    BY <2>1, DestroyRests
<1>3. CASE ~CanCloseImmediately(c.f)
  BY <1>1, <1>3, FsaShutRests DEF CloseAll
<1> QED
  BY <1>2, <1>3

-----------------------------------------------------------------------------
(* The invariant, and what every step does to the place of a receiver.     *)

ReceiverInv ==
    /\ \A e \in End : Tidy(fspe[e].inq)
    /\ \A e \in End : \A x \in ToSet(fspe[e].outq.items) : x.sid # 0
    /\ \A p \in net : p.kind = "data" /\ p.fs.req # 0 => p.fs.sid # 0

\* What a step does to the place of x, and to what its application has been given.
Advances(x) ==
    /\ Forward(fspe[x].inq, fspe'[x].inq)
    /\ \A y \in rcvd'[x] : \/ y \in rcvd[x] \/ fspe'[x].inq.sessionid = 0
                           \/ SeqLess(Seqno(y), Place(fspe'[x].inq))

Goes == ReceiverInv' /\ \A x \in End : Advances(x)

\* Every handler starts from such a context.
LEMMA CtxDated ==
    ASSUME IInv, ReceiverInv, NEW e \in End, NEW clk \in Clock
    PROVE  /\ SoundCtx(Ctx(e, clk)) /\ Dated(Ctx(e, clk))
           /\ Ctx(e, clk).f.inq = fspe[e].inq /\ Tidy(fspe[e].inq)
<1>1. SentData({}) = {}
  BY DEF SentData
<1> QED
  BY <1>1, CtxKeeps, ZenonT(40) DEF Dated, SameQueues, ReceiverInv

\* A step that leaves the element f at e.
LEMMA ElementGoes ==
    ASSUME IInv, ReceiverInv, NEW e \in End, NEW f, fspe' = [fspe EXCEPT ![e] = f],
           Tidy(f.inq), \A x \in ToSet(f.outq.items) : x.sid # 0,
           \A p \in net' : p \in net \/ (p.kind = "data" /\ p.fs.req # 0 => p.fs.sid # 0),
           Forward(fspe[e].inq, f.inq), rcvd'[Peer(e)] = rcvd[Peer(e)],
           \A y \in rcvd'[e] : \/ y \in rcvd[e] \/ f.inq.sessionid = 0
                               \/ SeqLess(Seqno(y), Place(f.inq))
    PROVE  Goes
<1>1. /\ Peer(e) \in End /\ Peer(e) # e /\ End = {e, Peer(e)} /\ fspe \in [End -> Fspe]
  BY PeerIsEnd DEF IInv, TypeOK
<1>2. fspe'[e] = f /\ fspe'[Peer(e)] = fspe[Peer(e)]
  BY <1>1
<1>3. Forward(fspe[Peer(e)].inq, fspe[Peer(e)].inq)
  <2>1. fspe[Peer(e)].inq.nextseqno \in Nat
    BY <1>1, FspeFields
  <2> QED
    BY <2>1 DEF Forward, Stays
<1>4. ReceiverInv'
  BY <1>1, <1>2 DEF ReceiverInv
<1>5. \A x \in End : Advances(x)
  BY <1>1, <1>2, <1>3 DEF Advances
<1> QED
  BY <1>4, <1>5 DEF Goes

\* A handler at e that ends with the context c.
LEMMA HandlerGoes ==
    ASSUME IInv, ReceiverInv, NEW e \in End, NEW clk \in Clock, NEW c, Finish(e, c),
           Moves(Ctx(e, clk), c), rcvd'[Peer(e)] = rcvd[Peer(e)],
           \A y \in rcvd'[e] : \/ y \in rcvd[e] \/ c.f.inq.sessionid = 0
                               \/ SeqLess(Seqno(y), Place(c.f.inq))
    PROVE  Goes
<1>1. Tidy(c.f.inq) /\ Dated(c) /\ Forward(fspe[e].inq, c.f.inq)
  BY CtxDated DEF Moves, Preserves
<1>2. fspe' = [fspe EXCEPT ![e] = c.f] /\ \A p \in net' : p \in net \/ p \in Packets(e, c)
  BY DEF Finish
<1>3. \A p \in Packets(e, c) : p.kind = "data" => p.fs.sid # 0
  <2>1. \A p \in Packets(e, c) : p.kind = "data" => p.fs \in SentData(c.tx)
    BY DEF Packets, SentData
  <2> QED
    BY <1>1, <2>1 DEF Dated
<1>4. \A p \in net' : p \in net \/ (p.kind = "data" /\ p.fs.req # 0 => p.fs.sid # 0)
  BY <1>2, <1>3
<1>5. \A x \in ToSet(c.f.outq.items) : x.sid # 0
  BY <1>1 DEF Dated
<1> QED
  BY <1>1, <1>2, <1>4, <1>5, ElementGoes

\* Most handlers give nothing to the application.
LEMMA QuietGoes ==
    ASSUME IInv, ReceiverInv, NEW e \in End, NEW clk \in Clock, NEW c, Finish(e, c),
           Rests(Ctx(e, clk), c), UNCHANGED rcvd
    PROVE  Goes
BY HandlerGoes DEF Rests, Moves, Forward

LEMMA ReceivedMoves ==
    ASSUME IInv, ReceiverInv, NEW e \in End, NEW p \in net, NEW clk \in Clock
    PROVE  /\ SoundCtx(Received(e, p, clk)) /\ Moves(Ctx(e, clk), Received(e, p, clk))
           /\ Tidy(Received(e, p, clk).f.inq)
           /\ Forward(fspe[e].inq, Received(e, p, clk).f.inq)
<1> DEFINE b == Ctx(e, clk)
           c == Received(e, p, clk)
<1>1. SoundCtx(b) /\ Dated(b) /\ b.f.inq = fspe[e].inq /\ Tidy(fspe[e].inq)
  BY CtxDated
<1>2. /\ p.fs \in FrameSet /\ Seqno(p.fs) \in SeqId /\ p.kind \in {"data", "ack"}
      /\ p.kind = "data" /\ p.fs.req # 0 => p.fs.sid # 0
  BY FrameTypes DEF IInv, TypeOK, Packet, ReceiverInv
<1>3. c = IF p.kind = "ack" THEN ReceiveAck(b, Seqno(p.fs)) ELSE ReceiveData(b, p.fs)
  BY DEF Received
<1> HIDE DEF b, c
<1>4. CASE p.kind = "ack"
  BY <1>1, <1>2, <1>3, <1>4, ReceiveAckRests DEF Rests, Moves, Forward, Preserves, b, c
<1>5. CASE p.kind # "ack"
  BY <1>1, <1>2, <1>3, <1>5, ReceiveDataMoves DEF Moves, Preserves, b, c
<1> QED
  BY <1>4, <1>5

LEMMA RecvGoes ==
    ASSUME IInv, ReceiverInv, NEW e \in End, NEW p \in net, NEW clk \in Clock,
           RecvFrameSets(e, p, clk)
    PROVE  Goes
<1> DEFINE b  == Ctx(e, clk)
           c  == Received(e, p, clk)
           d  == IF c.f.ipend THEN Read(c) ELSE c
           rr == ReadResult(c)
<1>1. Finish(e, d) /\ rcvd' = [rcvd EXCEPT ![e] = @ \cup ToSet(rr)]
  BY DEF RecvFrameSets
<1>2. SoundCtx(b) /\ SoundCtx(c) /\ Moves(b, c) /\ Tidy(c.f.inq)
  BY CtxDated, ReceivedMoves
<1>3. ~c.f.ipend => rr = <<>>
  BY DEF ReadResult
<1>4. rcvd'[e] = rcvd[e] \cup ToSet(rr) /\ rcvd'[Peer(e)] = rcvd[Peer(e)]
  BY <1>1, Types, PeerIsEnd
<1> HIDE DEF b, c
<1>5. /\ Rests(c, Read(c)) /\ SoundCtx(Read(c))
      /\ \A x \in ToSet(rr) :
           Read(c).f.inq.sessionid = 0 \/ SeqLess(Seqno(x), Place(Read(c).f.inq))
  BY <1>2, ReadRests
<1> HIDE DEF rr
<1>6. Moves(b, Read(c))
  BY <1>2, <1>5, RestsTransitive
<1>7. /\ Moves(b, d)
      /\ \A x \in ToSet(rr) : d.f.inq.sessionid = 0 \/ SeqLess(Seqno(x), Place(d.f.inq))
  BY <1>2, <1>3, <1>5, <1>6, NothingInEmpty
<1> HIDE DEF d
<1> QED
  BY <1>1, <1>4, <1>7, HandlerGoes DEF b

LEMMA ReadPendingGoes ==
    ASSUME IInv, ReceiverInv, NEW e \in End, NEW clk \in Clock, ReadPending(e, clk)
    PROVE  Goes
<1> DEFINE c  == Ctx(e, clk)
           rr == ReadResult(c)
<1>1. Finish(e, Read(c)) /\ rcvd' = [rcvd EXCEPT ![e] = @ \cup ToSet(rr)]
  BY DEF ReadPending
<1>2. SoundCtx(c) /\ Tidy(c.f.inq)
  BY CtxDated
<1>3. rcvd'[e] = rcvd[e] \cup ToSet(rr) /\ rcvd'[Peer(e)] = rcvd[Peer(e)]
  BY <1>1, Types, PeerIsEnd
<1> HIDE DEF c
<1>4. /\ Moves(c, Read(c))
      /\ \A x \in ToSet(rr) :
           Read(c).f.inq.sessionid = 0 \/ SeqLess(Seqno(x), Place(Read(c).f.inq))
  BY <1>2, ReadRests DEF Rests, Moves, Forward
<1> HIDE DEF rr
<1> QED
  BY <1>1, <1>3, <1>4, HandlerGoes DEF c

LEMMA SendGoes ==
    ASSUME IInv, ReceiverInv, NEW e \in End, NEW clk \in Clock,
           SendAReliableFs(e, clk) \/ SendReliableFs(e, clk)
    PROVE  Goes
<1> DEFINE b == Ctx(e, clk)
           m == used.send[e] + 1
           a == Send1(b, m)
           d == Send1(a, m + 1)
           r == CASE InShutdown(b.f.state) -> b
                  [] ~InShutdown(b.f.state) /\ HasQSpace(b.f.outq, 2) -> Xmit(d)
                  [] OTHER -> Xmit(b)
<1>1. m \in Nat /\ m + 1 \in Nat
  BY Types
<1>2. SoundCtx(b)
  BY CtxDated
<1>3. (Finish(e, a) \/ Finish(e, r)) /\ UNCHANGED rcvd
  BY DEF SendAReliableFs, SendReliableFs
<1>4. r \in {b, Xmit(d), Xmit(b)}
  <2> HIDE DEF b, d
  <2> QED
    OBVIOUS
<1> HIDE DEF b, m, r
<1>5. SoundCtx(a) /\ Rests(b, a)
  BY <1>1, <1>2, Send1Rests
<1> HIDE DEF a
<1>6. SoundCtx(d) /\ Rests(a, d)
  BY <1>1, <1>5, Send1Rests
<1> HIDE DEF d
<1>7. Rests(b, d)
  BY <1>2, <1>5, <1>6, RestsTransitive
<1>8. \A x \in {b, Xmit(d), Xmit(b)} : Rests(b, x)
  BY <1>2, <1>6, <1>7, SelfRests, XmitRests, ThenXmitRests
<1>9. \E x : Finish(e, x) /\ Rests(b, x)
  BY <1>3, <1>4, <1>5, <1>8
<1> QED
  BY <1>3, <1>9, QuietGoes DEF b

\* A process that ends or starts has no place.
LEMMA ForgetGoes ==
    ASSUME IInv, ReceiverInv, NEW e \in End, fspe' = [fspe EXCEPT ![e] = NoFspe],
           net' \subseteq net, UNCHANGED rcvd
    PROVE  Goes
<1>1. /\ NoFspe.inq.sessionid = 0 /\ Tidy(NoFspe.inq) /\ ToSet(NoFspe.outq.items) = {}
  BY EmptyTidy, NothingInEmpty DEF NoFspe, NewQueue
<1>2. Forward(fspe[e].inq, NoFspe.inq)
  BY <1>1 DEF Forward, Stays
<1> QED
  BY <1>1, <1>2, ElementGoes

\* A step of the network, or of an end that touches no element.
LEMMA NetGoes ==
    ASSUME IInv, ReceiverInv, UNCHANGED <<fspe, rcvd>>,
           \A p \in net' : p \in net \/ p.fs.req = 0
    PROVE  Goes
<1>1. fspe' = [fspe EXCEPT !["cma"] = fspe["cma"]] /\ "cma" \in End /\ fspe["cma"] \in Fspe
  BY DEF IInv, TypeOK, End
<1>2. Forward(fspe["cma"].inq, fspe["cma"].inq)
  <2>1. fspe["cma"].inq.nextseqno \in Nat
    BY <1>1, FspeFields
  <2> QED
    BY <2>1 DEF Forward, Stays
<1>3. Tidy(fspe["cma"].inq) /\ \A x \in ToSet(fspe["cma"].outq.items) : x.sid # 0
  BY <1>1 DEF ReceiverInv
<1> QED
  BY <1>1, <1>2, <1>3, ElementGoes

LEMMA TimeoutFunGoes ==
    ASSUME IInv, ReceiverInv, NEW e \in End, NEW clk \in Clock, TimeoutFun(e, clk)
    PROVE  Goes
<1>1. Finish(e, Xmit(Ctx(e, clk))) /\ UNCHANGED rcvd
  BY DEF TimeoutFun
<1>2. Rests(Ctx(e, clk), Xmit(Ctx(e, clk)))
  BY CtxDated, XmitRests
<1> QED
  BY <1>1, <1>2, QuietGoes

LEMMA AckMessageGoes ==
    ASSUME IInv, ReceiverInv, NEW e \in End, AckMessage(e)
    PROVE  Goes
<1> DEFINE b == Ctx(e, "early")
           s == Seqno(Head(toack[e]))
<1>1. Finish(e, AckSeqno(b, s)) /\ toack[e] # <<>> /\ UNCHANGED rcvd
  BY DEF AckMessage
<1>2. s \in SeqId
  <2>1. toack[e] \in Seq(FrameSet)
    BY Types
  <2>2. Head(toack[e]) \in FrameSet
    BY <1>1, <2>1
  <2> QED
    BY <2>2, FrameTypes
<1>3. SoundCtx(b) /\ "early" \in Clock
  BY CtxDated DEF Clock
<1> HIDE DEF b, s
<1>4. Rests(b, AckSeqno(b, s))
  BY <1>2, <1>3, AckSeqnoRests
<1> QED
  BY <1>1, <1>3, <1>4, QuietGoes DEF b

LEMMA ShutTimeoutGoes ==
    ASSUME IInv, ReceiverInv, NEW e \in End, ShutTimeout(e)
    PROVE  Goes
<1> DEFINE c == Ctx(e, "early")
           g == [c.f EXCEPT !.shuttimer = "fired"]
           d == [c EXCEPT !.f.shuttimer = "fired"]
           h == FsaQuiet(d, "SHUT_TO")
<1>1. Finish(e, h) /\ UNCHANGED rcvd
  BY DEF ShutTimeout
<1>2. /\ SoundCtx(c) /\ c.f \in Fspe /\ c \in Context /\ "early" \in Clock
      /\ "fired" \in Timer /\ "SHUT_TO" \in Input
  BY CtxDated, CtxFields DEF SoundCtx, Timer, Input, Clock
<1>3. h.psid = c.psid /\ h.tx = c.tx /\ Keeps(c.f, h.f) /\ h.f \in Fspe
  <2> HIDE DEF c
  <2>1. g \in Fspe /\ Same(c.f, g)
    BY <1>2, Zenon DEF Fspe, Same, SameQueues
  <2>2. d = [c EXCEPT !.f = g]
    BY Zenon
  <2> HIDE DEF g
  <2>3. /\ [c EXCEPT !.f = g] \in Context /\ [c EXCEPT !.f = g].f = g
        /\ [c EXCEPT !.f = g].psid = c.psid /\ [c EXCEPT !.f = g].tx = c.tx
    BY <1>2, <2>1, CtxFields
  <2>4. d \in Context /\ d.f = g /\ d.psid = c.psid /\ d.tx = c.tx
    BY <2>2, <2>3, Zenon
  <2> HIDE DEF d
  <2>5. KeepsCtx(d, h)
    BY <1>2, <2>4, FsaQuietKeeps
  <2> HIDE DEF h
  <2>6. Keeps(c.f, h.f)
    BY <1>2, <2>1, <2>4, <2>5, KeepsTransitive DEF KeepsCtx, Keeps
  <2> QED
    BY <2>4, <2>5, <2>6 DEF KeepsCtx
<1> HIDE DEF c, h
<1>4. Rests(c, h)
  <2>1. CASE Same(c.f, h.f)
    BY <1>2, <1>3, <2>1, InqOf DEF Same, SameQueues, Rests, Preserves, Dated
  <2>2. CASE Reset(c.f, h.f)
    <3>1. Tidy(h.f.inq) /\ ToSet(h.f.outq.items) = {}
      BY <2>2, EmptyTidy, NothingInEmpty DEF Reset
    <3> QED
      BY <1>3, <2>2, <3>1 DEF Reset, Rests, Preserves, Dated, Stays
  <2> QED
    BY <1>3, <2>1, <2>2 DEF Keeps
<1> QED
  BY <1>1, <1>2, <1>4, QuietGoes DEF c

LEMMA FinalizeTimerGoes ==
    ASSUME IInv, ReceiverInv, NEW e \in End, FinalizeTimer(e)
    PROVE  Goes
<1> DEFINE c == Ctx(e, "early")
           f == fspe[e]
           h == [f EXCEPT !.finalizetimer = "fired"]
           g == IF f.state = "NONE" THEN Destroy(f) ELSE h
<1>1. Finish(e, [c EXCEPT !.f = g]) /\ UNCHANGED rcvd
  BY DEF FinalizeTimer
<1>2. /\ SoundCtx(c) /\ c \in Context /\ "early" \in Clock /\ "fired" \in Timer
      /\ SameQueues(f, c.f) /\ Sound(f) /\ f \in Fspe
  BY CtxKeeps DEF SoundCtx, IInv, AllSound, TypeOK, Timer, Clock
<1> HIDE DEF c, f
<1>3. h \in Fspe /\ Same(f, h)
  BY <1>2, SetFields, SameFields
<1>4. /\ Destroy(f) \in Fspe /\ Destroy(f).inq = NewQueue /\ Destroy(f).outq = NewQueue
  BY <1>2, DestroySound, DestroyForgets
<1>5. /\ g \in Fspe
      /\ \/ g.inq = NewQueue /\ g.outq = NewQueue
         \/ g.inq = c.f.inq /\ g.outq = c.f.outq
  BY <1>2, <1>3, <1>4 DEF Same, SameQueues
<1> HIDE DEF g
<1>6. /\ [c EXCEPT !.f = g].f = g /\ [c EXCEPT !.f = g].psid = c.psid
      /\ [c EXCEPT !.f = g].tx = c.tx
  BY <1>2, <1>5, CtxFields
<1>7. /\ NewQueue.sessionid = 0 /\ Tidy(NewQueue) /\ ToSet(NewQueue.items) = {}
  BY EmptyTidy, NothingInEmpty DEF NewQueue
<1>8. Rests(c, [c EXCEPT !.f = g])
  BY <1>2, <1>5, <1>6, <1>7, InqOf DEF Rests, Preserves, Dated, Stays
<1> QED
  BY <1>1, <1>2, <1>8, QuietGoes DEF c

LEMMA CloseConnGoes ==
    ASSUME IInv, ReceiverInv, NEW clk \in Clock, CloseConn(clk)
    PROVE  Goes
<1>1. /\ Finish("cma", FsaShut(Ctx("cma", clk), "REQSHUTDOWN", NoSeq)) /\ UNCHANGED rcvd
      /\ "cma" \in End /\ NoSeq \in SeqId
  BY DEF CloseConn, End, NoSeq, SeqId
<1>2. Rests(Ctx("cma", clk), FsaShut(Ctx("cma", clk), "REQSHUTDOWN", NoSeq))
  BY <1>1, CtxDated, FsaShutRests
<1> QED
  BY <1>1, <1>2, QuietGoes

LEMMA NanoInitiateShutdownGoes ==
    ASSUME IInv, ReceiverInv, NEW clk \in Clock, NanoInitiateShutdown(clk)
    PROVE  Goes
<1> DEFINE b == Ctx("nano", clk)
           c == Send1(b, used.send["nano"] + 1)
<1>1. Finish("nano", CloseAll(c)) /\ UNCHANGED rcvd /\ "nano" \in End
  BY DEF NanoInitiateShutdown, End
<1>2. used.send["nano"] + 1 \in Nat /\ SoundCtx(b)
  <2>1. used.send["nano"] \in Nat
    BY <1>1 DEF IInv, TypeOK
  <2>2. used.send["nano"] + 1 \in Nat
    BY <2>1
  <2> QED
    BY <1>1, <2>2, CtxDated
<1> HIDE DEF b
<1>3. SoundCtx(c) /\ Rests(b, c)
  BY <1>2, Send1Rests
<1> HIDE DEF c
<1>4. Rests(c, CloseAll(c)) /\ SoundCtx(CloseAll(c))
  BY <1>3, CloseAllRests, CloseAllSound
<1>5. Rests(b, CloseAll(c))
  BY <1>2, <1>3, <1>4, RestsTransitive
<1> QED
  BY <1>1, <1>5, QuietGoes DEF b

LEMMA NextGoes == IInv /\ ReceiverInv /\ [Next]_vars => Goes
<1> SUFFICES ASSUME IInv, ReceiverInv, [Next]_vars PROVE Goes
  OBVIOUS
<1>1. CASE UNCHANGED vars
  BY <1>1, NetGoes DEF vars
<1>2. ASSUME NEW e \in End, Restart(e) \/ Quit(e) PROVE Goes
  BY <1>2, ForgetGoes DEF Restart, Quit
<1>3. CASE NanoFinalShutdown \/ ShutdownWhenOutdone
  BY <1>2, <1>3 DEF NanoFinalShutdown, ShutdownWhenOutdone, End
<1>4. ASSUME NEW e \in End, SendAFrameSet(e) PROVE Goes
  BY <1>4, NetGoes DEF SendAFrameSet
<1>5. ASSUME NEW p \in net, Lose(p) PROVE Goes
  BY <1>5, NetGoes DEF Lose
<1> QED
  BY <1>1, <1>2, <1>3, <1>4, <1>5, SendGoes, ReadPendingGoes, RecvGoes, TimeoutFunGoes,
     AckMessageGoes, ShutTimeoutGoes, FinalizeTimerGoes, CloseConnGoes,
     NanoInitiateShutdownGoes DEF Next

LEMMA InitReceiver == Init => ReceiverInv
<1> SUFFICES ASSUME Init PROVE ReceiverInv
  OBVIOUS
<1>1. Tidy(NoFspe.inq) /\ ToSet(NoFspe.outq.items) = {}
  BY EmptyTidy, NothingInEmpty DEF NoFspe, NewQueue
<1> QED
  BY <1>1 DEF Init, ReceiverInv

LEMMA ReceiverInvariance == Spec => []ReceiverInv
<1>1. IInv /\ ReceiverInv /\ [Next]_vars => ReceiverInv'
  BY NextGoes DEF Goes
<1> QED
  BY <1>1, InitReceiver, Invariance, PTL DEF Spec

-----------------------------------------------------------------------------
(* What the application is given.                                          *)

\* The input queue at e knows what the application has read: its session, or its next
\* sequence number, is past every FrameSet that was delivered.  A connection that has
\* been closed, or a process started again, at this end has forgotten it until the next
\* FrameSet arrives, and then need not remember all of it.
Remembers(e) ==
    \A x \in rcvd[e] : SeqLess(Seqno(x), Place(fspe[e].inq))

\* A queue that knows what was read knows it until it is reset.
LEMMA RemembersStill ==
    ASSUME IInv, IInv', Goes, NEW e \in End, Remembers(e), fspe'[e].inq.sessionid # 0
    PROVE  Remembers(e)'
<1>1. /\ Forward(fspe[e].inq, fspe'[e].inq)
      /\ \A y \in rcvd'[e] : y \in rcvd[e] \/ SeqLess(Seqno(y), Place(fspe'[e].inq))
  BY DEF Goes, Advances
<1>2. /\ fspe[e].inq.sessionid \in Nat /\ fspe'[e].inq.sessionid \in Nat
      /\ fspe[e].inq.nextseqno \in Nat /\ fspe'[e].inq.nextseqno \in Nat
  BY FspeFields DEF IInv, TypeOK
<1>3. ASSUME NEW y \in rcvd[e] PROVE SeqLess(Seqno(y), Place(fspe'[e].inq))
  <2>1. y.sid \in Nat /\ y.req \in Nat
    BY Types DEF FrameSet
  <2>2. SeqLess(Seqno(y), Place(fspe[e].inq))
    BY DEF Remembers
  <2> QED
    BY <1>1, <1>2, <2>1, <2>2 DEF SeqLess, Seqno, Place, Forward, Stays
<1> QED
  BY <1>1, <1>3 DEF Remembers

\* What is given to the application at e in a step, it has not been given before.
GivenOnce(e) ==
    \A i \in DOMAIN toack'[e] : i > Len(toack[e]) => toack'[e][i] \notin rcvd[e]

\* R is what was read before, at an end that was in place q when the handler began.
LEMMA ReadIsNew ==
    ASSUME NEW c, SoundCtx(c), Tidy(c.f.inq), NEW q \in Queue, Forward(q, c.f.inq),
           NEW R \in SUBSET FrameSet, \A x \in R : SeqLess(Seqno(x), Place(q))
    PROVE  \A x \in ToSet(ReadResult(c)) : x \notin R
<1> DEFINE fs == Head(c.f.inq.items)
<1>1. CASE ~(HeadReady(c.f.inq) /\ fs.req # 0)
  BY <1>1, NothingInEmpty DEF ReadResult
<1>2. CASE HeadReady(c.f.inq) /\ fs.req # 0
  <2>1. c.f.inq \in Queue /\ c.f.inq.items \in Seq(FrameSet) /\ c.f.inq.items # <<>>
    BY <1>2, CtxFields, FspeFields DEF SoundCtx, HeadReady
  <2>2. 1 \in DOMAIN c.f.inq.items /\ fs = c.f.inq.items[1]
    BY <2>1, LenProperties, EmptySeq
  <2>3. fs.sid = c.f.inq.sessionid /\ c.f.inq.sessionid # 0 /\ fs.req = c.f.inq.nextseqno
    BY <1>2, <2>2 DEF Tidy, HeadReady
  <2>4. \A x \in ToSet(ReadResult(c)) : x = fs
    BY NothingInEmpty DEF ReadResult, ToSet
  <2> HIDE DEF fs
  <2>5. ASSUME fs \in R PROVE FALSE
    <3>1. SeqLess(Seqno(fs), Place(q))
      BY <2>5
    <3>2. fs.sid < q.sessionid \/ (fs.sid = q.sessionid /\ fs.req < q.nextseqno)
      BY <3>1 DEF SeqLess, Seqno, Place
    <3>3. /\ q.sessionid \in Nat /\ q.nextseqno \in Nat
          /\ c.f.inq.sessionid \in Nat /\ c.f.inq.nextseqno \in Nat
      BY <2>1 DEF Queue
    <3>4. \/ c.f.inq.sessionid = q.sessionid /\ q.nextseqno <= c.f.inq.nextseqno
          \/ q.sessionid < c.f.inq.sessionid
      BY <2>3 DEF Forward, Stays
    <3> QED
      BY <2>3, <3>2, <3>3, <3>4
  <2> QED
    BY <2>4, <2>5
<1> QED
  BY <1>1, <1>2

\* recvframesets appends what it read.
LEMMA AppendedOnce ==
    ASSUME NEW t \in Seq(FrameSet), NEW rr \in Seq(FrameSet), NEW R,
           \A x \in ToSet(rr) : x \notin R
    PROVE  \A i \in DOMAIN (t \o rr) : i > Len(t) => (t \o rr)[i] \notin R
<1> DEFINE u == t \o rr
<1>1. /\ u \in Seq(FrameSet) /\ Len(u) = Len(t) + Len(rr)
      /\ \A i \in 1 .. Len(t) + Len(rr) : u[i] = IF i <= Len(t) THEN t[i] ELSE rr[i - Len(t)]
  BY ConcatProperties
<1> HIDE DEF u
<1>2. /\ Len(t) \in Nat /\ Len(rr) \in Nat /\ DOMAIN rr = 1 .. Len(rr)
      /\ DOMAIN u = 1 .. Len(t) + Len(rr)
  BY <1>1, LenProperties
<1>3. ASSUME NEW i \in DOMAIN u, i > Len(t) PROVE u[i] \notin R
  <2>1. i - Len(t) \in DOMAIN rr /\ u[i] = rr[i - Len(t)]
    BY <1>1, <1>2, <1>3
  <2> QED
    BY <2>1 DEF ToSet
<1> QED
  BY <1>3 DEF u

\* Nothing is given where nothing is appended.
LEMMA NoneGiven ==
    ASSUME IInv, NEW e \in End,
           toack'[e] = toack[e] \/ toack'[e] = <<>> \/
             (toack[e] # <<>> /\ toack'[e] = Tail(toack[e]))
    PROVE  GivenOnce(e)
<1> DEFINE t == toack[e]
<1>1. t \in Seq(FrameSet)
  BY Types
<1>2. Len(t) \in Nat /\ DOMAIN t = 1 .. Len(t)
  BY <1>1, LenProperties
<1>3. CASE toack'[e] = t
  BY <1>2, <1>3 DEF GivenOnce
<1>4. CASE toack'[e] = <<>>
  <2>1. DOMAIN toack'[e] = {}
    BY <1>4
  <2> QED
    BY <2>1 DEF GivenOnce
<1>5. CASE t # <<>> /\ toack'[e] = Tail(t)
  <2>1. Tail(t) \in Seq(FrameSet) /\ Len(Tail(t)) = Len(t) - 1
    BY <1>1, <1>5, HeadTailProperties
  <2>2. DOMAIN Tail(t) = 1 .. Len(t) - 1
    BY <2>1, LenProperties
  <2>3. \A i \in 1 .. Len(t) - 1 : ~(i > Len(t))
    BY <1>2
  <2> QED
    BY <1>5, <2>2, <2>3 DEF GivenOnce
<1> QED
  BY <1>3, <1>4, <1>5

LEMMA NextGives ==
    ASSUME IInv, ReceiverInv, [Next]_vars, NEW x \in End, Remembers(x)
    PROVE  GivenOnce(x)
<1>1. /\ fspe[x].inq \in Queue /\ rcvd[x] \in SUBSET FrameSet /\ toack[x] \in Seq(FrameSet)
      /\ \A y \in rcvd[x] : SeqLess(Seqno(y), Place(fspe[x].inq))
  BY Types, FspeFields DEF IInv, TypeOK, Remembers
<1>2. ASSUME NEW c, SoundCtx(c), Tidy(c.f.inq), Forward(fspe[x].inq, c.f.inq),
             toack' = [toack EXCEPT ![x] = @ \o ReadResult(c)]
      PROVE  GivenOnce(x)
  <2>1. ReadResult(c) \in Seq(FrameSet)
    BY <1>2, ReadResultType DEF SoundCtx
  <2>2. \A y \in ToSet(ReadResult(c)) : y \notin rcvd[x]
    BY <1>1, <1>2, ReadIsNew
  <2>3. toack'[x] = toack[x] \o ReadResult(c)
    BY <1>2, Types
  <2> QED
    BY <1>1, <2>1, <2>2, <2>3, AppendedOnce DEF GivenOnce
<1>3. ASSUME NEW e \in End, e # x, NEW f, toack' = [toack EXCEPT ![e] = f]
      PROVE  GivenOnce(x)
  BY <1>3, Types, NoneGiven
<1>4. ASSUME NEW e \in End, NEW clk \in Clock, NEW p \in net, RecvFrameSets(e, p, clk)
      PROVE  GivenOnce(x)
  <2> DEFINE c == Received(e, p, clk)
  <2>1. toack' = [toack EXCEPT ![e] = @ \o ReadResult(c)]
    BY <1>4 DEF RecvFrameSets
  <2>2. CASE e = x
    <3>1. SoundCtx(c) /\ Tidy(c.f.inq) /\ Forward(fspe[x].inq, c.f.inq)
      BY <2>2, ReceivedMoves
    <3> QED
      BY <1>2, <2>1, <2>2, <3>1
  <2>3. CASE e # x
    BY <1>3, <2>1, <2>3
  <2> QED
    BY <2>2, <2>3
<1>5. ASSUME NEW e \in End, NEW clk \in Clock, ReadPending(e, clk)
      PROVE  GivenOnce(x)
  <2> DEFINE c == Ctx(e, clk)
  <2>1. toack' = [toack EXCEPT ![e] = @ \o ReadResult(c)]
    BY <1>5 DEF ReadPending
  <2>2. CASE e = x
    <3>1. SoundCtx(c) /\ c.f.inq = fspe[x].inq /\ Tidy(c.f.inq)
      BY <2>2, CtxDated
    <3>2. Forward(fspe[x].inq, c.f.inq)
      BY <3>1, InqOf DEF Forward
    <3> QED
      BY <1>2, <2>1, <2>2, <3>1, <3>2
  <2>3. CASE e # x
    BY <1>3, <2>1, <2>3
  <2> QED
    BY <2>2, <2>3
<1>6. ASSUME NEW e \in End, AckMessage(e) PROVE GivenOnce(x)
  <2>1. toack[e] # <<>> /\ toack' = [toack EXCEPT ![e] = Tail(@)]
    BY <1>6 DEF AckMessage
  <2>2. toack'[x] = toack[x] \/ (toack[x] # <<>> /\ toack'[x] = Tail(toack[x]))
    BY <2>1, Types
  <2> QED
    BY <2>2, NoneGiven
<1>7. ASSUME NEW e \in End, Restart(e) \/ Quit(e) PROVE GivenOnce(x)
  <2>1. toack' = [toack EXCEPT ![e] = <<>>]
    BY <1>7 DEF Restart, Quit
  <2>2. toack'[x] = toack[x] \/ toack'[x] = <<>>
    BY <2>1, Types
  <2> QED
    BY <2>2, NoneGiven
<1>8. ASSUME UNCHANGED toack PROVE GivenOnce(x)
  BY <1>8, NoneGiven
<1>9. CASE NanoFinalShutdown \/ ShutdownWhenOutdone
  BY <1>7, <1>9 DEF NanoFinalShutdown, ShutdownWhenOutdone, End
<1>10. CASE \E e \in End, clk \in Clock :
              SendAReliableFs(e, clk) \/ SendReliableFs(e, clk) \/ TimeoutFun(e, clk)
  BY <1>8, <1>10 DEF SendAReliableFs, SendReliableFs, TimeoutFun
<1>11. CASE \E e \in End : SendAFrameSet(e) \/ ShutTimeout(e) \/ FinalizeTimer(e)
  BY <1>8, <1>11 DEF SendAFrameSet, ShutTimeout, FinalizeTimer
<1>12. CASE \E clk \in Clock : CloseConn(clk) \/ NanoInitiateShutdown(clk)
  BY <1>8, <1>12 DEF CloseConn, NanoInitiateShutdown
<1>13. CASE \E p \in net : Lose(p)
  BY <1>8, <1>13 DEF Lose
<1>14. CASE UNCHANGED vars
  BY <1>8, <1>14 DEF vars
<1> QED
  BY <1>4, <1>5, <1>6, <1>7, <1>9, <1>10, <1>11, <1>12, <1>13, <1>14 DEF Next

-----------------------------------------------------------------------------
(* The theorems.                                                           *)

\* The place of a receiver, its session and the next sequence number it will read,
\* never goes back but to the beginning, when the connection is closed, destroyed or
\* its process starts again: no reordered or repeated packet, of this session or of an
\* old one, makes inqsorted accept for a second time what has been read.
THEOREM ReceiverNeverGoesBack ==
    Spec => [][\A e \in End : Forward(fspe[e].inq, fspe'[e].inq)]_vars
<1>1. IInv /\ ReceiverInv /\ [Next]_vars
        => [\A e \in End : Forward(fspe[e].inq, fspe'[e].inq)]_vars
  BY NextGoes DEF Goes, Advances
<1> QED
  BY <1>1, Invariance, ReceiverInvariance, PTL DEF Spec

\* An input queue forgets what was read in no other way than by a reset, whatever the
\* network delivers late, and whichever end closes, is destroyed or starts again: every
\* FrameSet that is read moves the place past it, and stays before the place.
THEOREM OnlyAResetForgets ==
    Spec => [][\A e \in End : Remembers(e) =>
                  Remembers(e)' \/ fspe'[e].inq.sessionid = 0]_vars
<1>1. IInv /\ IInv' /\ ReceiverInv /\ [Next]_vars
        => [\A e \in End : Remembers(e) =>
               Remembers(e)' \/ fspe'[e].inq.sessionid = 0]_vars
  BY NextGoes, RemembersStill
<1> QED
  BY <1>1, Invariance, ReceiverInvariance, PTL DEF Spec

\* As long as a receiver remembers, and by the theorem above that is until it is reset
\* itself, no FrameSet is given to its application a second time: however often its
\* sender repeats it, and however late the network delivers it, of whatever session.
THEOREM ReadOnce ==
    Spec => [][\A e \in End : Remembers(e) => GivenOnce(e)]_vars
<1>1. IInv /\ ReceiverInv /\ [Next]_vars
        => [\A e \in End : Remembers(e) => GivenOnce(e)]_vars
  BY NextGives
<1> QED
  BY <1>1, Invariance, ReceiverInvariance, PTL DEF Spec
=============================================================================
