-------------------------- MODULE RscQueueProofs --------------------------
(***************************************************************************)
(* The safety of the queue of resource operations, proved for any set of   *)
(* resources and any number of requests.                                   *)
(***************************************************************************)
EXTENDS RscQueue, SequenceTheorems, FiniteSetTheorems, WellFoundedInduction, TLAPS

Injective(q) == \A i, j \in DOMAIN q : q[i] = q[j] => i = j

\* A request waits at one place only.
Distinct(qs) ==
    /\ \A r \in Rsc : Injective(qs[r])
    /\ \A r, s \in Rsc : r # s => Requests(qs[r]) \cap Requests(qs[s]) = {}

\* Agents run for queued requests, one of each resource.
Orderly(qs, executing) ==
    /\ \A n \in executing : \E r \in Rsc : n \in Requests(qs[r])
    /\ \A r \in Rsc : \A m, n \in Requests(qs[r]) \cap executing : m = n

\* Numbers above count are not in use.
Fresh == \A r \in Rsc : \A n \in Requests(queue[r]) : n <= count

IInv ==
    /\ QueueTypeOK
    /\ Fresh
    /\ Distinct(queue)
    /\ Orderly(queue, running)
    /\ TimerArmed
    /\ RunningIsCounted
    /\ trusted = succeeded /\ misled = {}

-----------------------------------------------------------------------------
(* Queues.                                                                 *)

\* The intervals that end in P are well-founded, so P has a least element.
LEMMA LeastPosition ==
    ASSUME NEW P \in SUBSET Nat, P # {}
    PROVE  \E i \in P : \A j \in P : i <= j
<1> DEFINE T == {1 .. i : i \in P}
<1>1. T \subseteq FiniteSubsetsOf(Nat)
  <2> SUFFICES ASSUME NEW i \in P PROVE 1 .. i \in FiniteSubsetsOf(Nat)
    OBVIOUS
  <2>1. IsFiniteSet(1 .. i)
    <3>1. 1 \in Int /\ i \in Int
      OBVIOUS
    <3> QED BY <3>1, FS_Interval
  <2> QED BY <2>1 DEF FiniteSubsetsOf
<1>2. PICK I \in T : \A J \in T : ~(<<J, I>> \in StrictSubsetOrdering(Nat))
  <2>1. T # {}
    OBVIOUS
  <2>2. IsWellFoundedOn(StrictSubsetOrdering(Nat), FiniteSubsetsOf(Nat))
    BY FS_StrictSubsetOrderingWellFounded
  <2> HIDE DEF T
  <2> QED BY <1>1, <2>1, <2>2, WFMin
<1>3. PICK i \in P : I = 1 .. i
  OBVIOUS
<1>4. ASSUME NEW j \in P, ~(i <= j) PROVE FALSE
  <2>1. (1 .. j) \subseteq (1 .. i) /\ 1 .. j # 1 .. i
    <3>1. i \in 1 .. i /\ i \notin 1 .. j
      BY <1>4
    <3> QED BY <3>1, <1>4
  <2>2. <<1 .. j, 1 .. i>> \in StrictSubsetOrdering(Nat)
    BY <2>1 DEF StrictSubsetOrdering
  <2> QED BY <1>2, <1>3, <2>2
<1> QED BY <1>3, <1>4

\* The loop of runqueue finds the first request that is due, if there is one.
LEMMA FirstOfType ==
    ASSUME NEW q \in Seq(Number), NEW S, Requests(q) \cap S # {}
    PROVE  FirstOf(q, S) \in Requests(q) \cap S
<1> DEFINE P == {i \in DOMAIN q : q[i] \in S}
<1>1. DOMAIN q = 1 .. Len(q) /\ Len(q) \in Nat
  BY LenProperties
<1>2. P \in SUBSET Nat /\ P # {}
  BY <1>1 DEF Requests
<1>3. PICK i \in P : \A j \in P : i <= j
  <2> HIDE DEF P
  <2> QED BY <1>2, LeastPosition
<1>4. \A j \in 1 .. (i - 1) : q[j] \notin S
  BY <1>1, <1>3
<1>5. \E k \in DOMAIN q : q[k] \in S /\ \A j \in 1 .. (k - 1) : q[j] \notin S
  BY <1>3, <1>4
<1> QED BY <1>5 DEF FirstOf, Requests

\* g_queue_remove takes one request out and keeps the others.
LEMMA WithoutType ==
    ASSUME NEW q \in Seq(Number), NEW n \in Requests(q), Injective(q)
    PROVE  /\ Without(q, n) \in Seq(Number)
           /\ Injective(Without(q, n))
           /\ Requests(Without(q, n)) = Requests(q) \ {n}
<1>1. DOMAIN q = 1 .. Len(q) /\ Len(q) \in Nat
  BY LenProperties
<1>2. PICK i \in DOMAIN q : q[i] = n /\ Without(q, n) = RemoveAt(q, i)
  BY DEF Requests, Without
<1> DEFINE a == SubSeq(q, 1, i - 1)
           b == SubSeq(q, i + 1, Len(q))
<1>3. \A j \in 1 .. Len(q) : q[j] \in Number
  BY <1>1, ElementOfSeq
<1>4. /\ a \in Seq(Number) /\ Len(a) = i - 1
      /\ \A j \in 1 .. (i - 1) : a[j] = q[j]
  <2>1. 1 \in Int /\ i - 1 \in Int /\ \A j \in 1 .. (i - 1) : q[j] \in Number
    BY <1>1, <1>3
  <2> QED BY <1>1, <2>1, SubSeqProperties
<1>5. /\ b \in Seq(Number) /\ Len(b) = Len(q) - i
      /\ \A j \in 1 .. (Len(q) - i) : b[j] = q[i + j]
  <2>1. /\ i + 1 \in Int /\ Len(q) \in Int
        /\ \A j \in (i + 1) .. Len(q) : q[j] \in Number
    BY <1>1, <1>3
  <2>2. /\ b \in Seq(Number)
        /\ Len(b) = IF i + 1 <= Len(q) THEN Len(q) - (i + 1) + 1 ELSE 0
        /\ \A j \in 1 .. Len(q) - (i + 1) + 1 : b[j] = q[i + 1 + j - 1]
    BY <2>1, SubSeqProperties
  <2> QED BY <1>1, <2>2
<1> HIDE DEF a, b
<1>6. /\ Without(q, n) \in Seq(Number)
      /\ Len(Without(q, n)) = Len(q) - 1
      /\ DOMAIN Without(q, n) = 1 .. (Len(q) - 1)
      /\ \A j \in 1 .. (Len(q) - 1) : Without(q, n)[j] = IF j < i THEN q[j] ELSE q[j + 1]
  <2>1. Without(q, n) = a \o b
    BY <1>2 DEF RemoveAt, a, b
  <2>2. /\ a \o b \in Seq(Number)
        /\ Len(a \o b) = Len(a) + Len(b)
        /\ \A j \in 1 .. Len(a) + Len(b) :
               (a \o b)[j] = IF j <= Len(a) THEN a[j] ELSE b[j - Len(a)]
    BY <1>4, <1>5, ConcatProperties
  <2>3. Len(a) + Len(b) = Len(q) - 1
    BY <1>1, <1>4, <1>5
  <2>4. ASSUME NEW j \in 1 .. (Len(q) - 1)
        PROVE  (a \o b)[j] = IF j < i THEN q[j] ELSE q[j + 1]
    <3>1. CASE j < i
      BY <3>1, <2>2, <2>3, <1>1, <1>4
    <3>2. CASE ~(j < i)
      <4>1. j - (i - 1) \in 1 .. (Len(q) - i) /\ i + (j - (i - 1)) = j + 1
        BY <3>2, <1>1
      <4>2. (a \o b)[j] = b[j - (i - 1)]
        BY <3>2, <2>2, <2>3, <1>1, <1>4
      <4> QED BY <3>2, <4>1, <4>2, <1>5
    <3> QED BY <3>1, <3>2
  <2>5. DOMAIN (a \o b) = 1 .. (Len(q) - 1)
    BY <2>2, <2>3, LenProperties
  <2> QED BY <2>1, <2>2, <2>3, <2>4, <2>5
<1>7. Injective(Without(q, n))
  <2> SUFFICES ASSUME NEW j \in 1 .. (Len(q) - 1), NEW k \in 1 .. (Len(q) - 1), j < k,
                      Without(q, n)[j] = Without(q, n)[k]
               PROVE  FALSE
    BY <1>1, <1>6 DEF Injective
  <2> DEFINE at(h) == IF h < i THEN h ELSE h + 1
  <2>1. at(j) \in DOMAIN q /\ at(k) \in DOMAIN q /\ at(j) # at(k)
    BY <1>1
  <2>2. q[at(j)] = q[at(k)]
    BY <1>6
  <2> QED BY <2>1, <2>2 DEF Injective
<1>8. ASSUME NEW m \in Requests(q) \ {n} PROVE m \in Requests(Without(q, n))
  <2>1. PICK j \in DOMAIN q : q[j] = m /\ j # i
    BY <1>2 DEF Requests
  <2>2. CASE j < i
    <3>1. j \in 1 .. (Len(q) - 1) /\ Without(q, n)[j] = m
      BY <1>1, <1>6, <2>1, <2>2
    <3> QED BY <3>1, <1>6 DEF Requests
  <2>3. CASE j > i
    <3>1. j - 1 \in 1 .. (Len(q) - 1) /\ ~(j - 1 < i) /\ (j - 1) + 1 = j
      BY <1>1, <2>1, <2>3
    <3>2. Without(q, n)[j - 1] = m
      BY <1>6, <2>1, <3>1
    <3> QED BY <3>1, <3>2, <1>6 DEF Requests
  <2> QED BY <1>1, <2>1, <2>2, <2>3
<1>9. Requests(Without(q, n)) \subseteq Requests(q) \ {n}
  <2> SUFFICES ASSUME NEW j \in 1 .. (Len(q) - 1)
               PROVE  Without(q, n)[j] \in Requests(q) \ {n}
    BY <1>6 DEF Requests
  <2>1. CASE j < i
    <3>1. j \in DOMAIN q /\ j # i /\ Without(q, n)[j] = q[j]
      BY <1>1, <1>6, <2>1
    <3> QED BY <3>1, <1>2 DEF Requests, Injective
  <2>2. CASE ~(j < i)
    <3>1. j + 1 \in DOMAIN q /\ j + 1 # i /\ Without(q, n)[j] = q[j + 1]
      BY <1>1, <1>6, <2>2
    <3> QED BY <3>1, <1>2 DEF Requests, Injective
  <2> QED BY <2>1, <2>2
<1> QED BY <1>6, <1>7, <1>8, <1>9

\* g_queue_push_tail of a request that is not in the queue.
LEMMA AppendType ==
    ASSUME NEW q \in Seq(Number), NEW n \in Number, n \notin Requests(q), Injective(q)
    PROVE  /\ Append(q, n) \in Seq(Number)
           /\ Injective(Append(q, n))
           /\ Requests(Append(q, n)) = Requests(q) \cup {n}
<1>1. DOMAIN q = 1 .. Len(q) /\ Len(q) \in Nat
  BY LenProperties
<1>2. /\ Append(q, n) \in Seq(Number)
      /\ DOMAIN Append(q, n) = 1 .. (Len(q) + 1)
      /\ \A i \in 1 .. Len(q) : Append(q, n)[i] = q[i]
      /\ Append(q, n)[Len(q) + 1] = n
  BY AppendProperties, LenProperties
<1>3. Injective(Append(q, n))
  BY <1>1, <1>2 DEF Injective, Requests
<1>4. \A i \in 1 .. (Len(q) + 1) : i \in 1 .. Len(q) \/ i = Len(q) + 1
  BY <1>1
<1>5. 1 .. Len(q) \subseteq 1 .. (Len(q) + 1) /\ Len(q) + 1 \in 1 .. (Len(q) + 1)
  BY <1>1
<1>6. Requests(Append(q, n)) = Requests(q) \cup {n}
  BY <1>1, <1>2, <1>4, <1>5 DEF Requests
<1> QED BY <1>2, <1>3, <1>6

-----------------------------------------------------------------------------
(* _resource_queue_runqueue                                                *)

LEMMA NumberFinite == IsFiniteSet(Number) /\ \A S \in SUBSET Number : IsFiniteSet(S)
<1>1. IsFiniteSet(1 .. MaxReq)
  <2>1. 1 \in Int /\ MaxReq \in Int
    BY QueueAssumption
  <2> QED BY <2>1, FS_Interval
<1> QED BY <1>1, FS_Subset DEF Number

\* What the callers of runqueue have made of the queues.  ended: the request
\* whose agent has just ended, whose is_running is still set.
RunnableQueues(qs, dues, cnt, ended) ==
    /\ qs \in [Rsc -> Seq(Number)] /\ Distinct(qs)
    /\ dues \subseteq Number /\ ended \subseteq running
    /\ Orderly(qs, running \ ended)
    /\ cnt \in Nat /\ cnt >= Cardinality(running \ ended)

\* runqueue starts agents of idle resources only, and counts them.
LEMMA RunQueueSound ==
    ASSUME NEW qs, NEW dues, NEW cnt, NEW ended,
           RunnableQueues(qs, dues, cnt, ended), running \subseteq Number,
           failed \in 0..MaxSpawnFail,
           RunQueue(qs, dues, cnt, ended)
    PROVE  /\ running' \subseteq Number /\ Orderly(qs, running')
           /\ active' \in Nat /\ active' >= Cardinality(running')
           /\ failed' \in 0..MaxSpawnFail
           /\ timer' = (timer /\ \E r \in Rsc : qs[r] # <<>>)
<1> DEFINE idle == {r \in Rsc : Startable(qs[r], dues)}
           starting == {FirstOf(qs[r], dues \ running) : r \in idle}
<1>1. ASSUME NEW r \in idle
      PROVE  /\ FirstOf(qs[r], dues \ running) \in Requests(qs[r]) \cap (dues \ running)
             /\ Requests(qs[r]) \cap running = {}
  <2>1. qs[r] \in Seq(Number)
    BY DEF RunnableQueues
  <2>2. Requests(qs[r]) \cap running = {} /\ Requests(qs[r]) \cap (dues \ running) # {}
    BY DEF Startable
  <2> QED BY <2>1, <2>2, FirstOfType
<1>2. starting \subseteq Number
  BY <1>1 DEF RunnableQueues
<1>3. PICK unspawned \in SUBSET starting :
        /\ failed + Cardinality(unspawned) <= MaxSpawnFail
        /\ failed' = failed + Cardinality(unspawned)
        /\ active' = cnt + Cardinality(starting)
        /\ running' = (running \cup (starting \ unspawned)) \ ended
        /\ timer' = (timer /\ \E r \in Rsc : qs[r] # <<>>)
  BY DEF RunQueue, CountChildren, Execute, ChildNotify
<1>4. failed' \in 0..MaxSpawnFail
  <2>1. Cardinality(unspawned) \in Nat
    BY <1>2, NumberFinite, FS_CardinalityType
  <2> QED BY <1>3, <2>1, QueueAssumption
<1>5. running' \subseteq Number
  BY <1>2, <1>3
<1>6. ASSUME NEW n \in running' PROVE \E r \in Rsc : n \in Requests(qs[r])
  <2>1. CASE n \in running \ ended
    BY <2>1 DEF RunnableQueues, Orderly
  <2>2. CASE n \in starting
    BY <2>2, <1>1
  <2> QED BY <1>3, <2>1, <2>2
<1>7. ASSUME NEW r \in Rsc, NEW m \in Requests(qs[r]) \cap running',
             NEW n \in Requests(qs[r]) \cap running'
      PROVE  m = n
  <2>1. CASE m \in running /\ n \in running
    BY <1>3, <2>1 DEF RunnableQueues, Orderly
  <2>2. ASSUME NEW k \in Requests(qs[r]) \cap running', k \notin running
        PROVE  r \in idle /\ k = FirstOf(qs[r], dues \ running)
    <3>1. k \in starting
      BY <1>3, <2>2
    <3>2. PICK s \in idle : k = FirstOf(qs[s], dues \ running)
      BY <3>1
    <3>3. k \in Requests(qs[s])
      BY <1>1, <3>2
    <3>4. Requests(qs[s]) \cap Requests(qs[r]) # {}
      BY <3>3
    <3>5. s = r
      BY <3>4 DEF RunnableQueues, Distinct
    <3> QED BY <3>2, <3>5
  <2>3. CASE m \notin running
    <3>1. n \notin running
      BY <2>2, <2>3, <1>1
    <3> QED BY <2>2, <2>3, <3>1
  <2>4. CASE n \notin running
    <3>1. m \notin running
      BY <2>2, <2>4, <1>1
    <3> QED BY <2>2, <2>4, <3>1
  <2> QED BY <2>1, <2>3, <2>4
<1>8. active' \in Nat /\ active' >= Cardinality(running')
  <2> DEFINE left == running \ ended
             all == left \cup starting
  <2>1. left \subseteq Number /\ all \subseteq Number /\ running' \subseteq all
    BY <1>2, <1>3
  <2>2. /\ IsFiniteSet(left) /\ IsFiniteSet(starting) /\ IsFiniteSet(all)
        /\ IsFiniteSet(left \cap starting) /\ IsFiniteSet(running')
    BY <1>2, <1>5, <2>1, NumberFinite
  <2>3. /\ Cardinality(left) \in Nat /\ Cardinality(starting) \in Nat
        /\ Cardinality(all) \in Nat /\ Cardinality(left \cap starting) \in Nat
        /\ Cardinality(running') \in Nat
    BY <2>2, FS_CardinalityType
  <2> HIDE DEF starting
  <2>4. Cardinality(all) = Cardinality(left) + Cardinality(starting)
                                             - Cardinality(left \cap starting)
    BY <2>2, FS_Union
  <2>5. Cardinality(running') <= Cardinality(all)
    BY <2>1, <2>2, FS_Subset
  <2>6. cnt \in Nat /\ cnt >= Cardinality(left)
    BY DEF RunnableQueues
  <2> HIDE DEF left, all
  <2> QED BY <1>3, <2>3, <2>4, <2>5, <2>6
<1> QED BY <1>3, <1>4, <1>5, <1>6, <1>7, <1>8 DEF Orderly

-----------------------------------------------------------------------------
(* The actions.                                                            *)

LEMMA InitSound == QueueInit => IInv
<1> SUFFICES ASSUME QueueInit PROVE IInv
  OBVIOUS
<1>1. \A r \in Rsc : queue[r] = <<>> /\ Requests(queue[r]) = {}
  BY DEF QueueInit, Requests
<1>2. \A n \in Number : elem[n] \in RscQElem
  BY QueueAssumption DEF QueueInit, NoElem, RscQElem
<1>3. QueueTypeOK
  <2>1. <<>> \in Seq(Number)
    BY EmptySeq
  <2>2. elem \in [Number -> RscQElem]
    BY <1>2 DEF QueueInit
  <2> QED BY <2>1, <2>2, QueueAssumption DEF QueueInit, QueueTypeOK
<1>4. Fresh
  BY <1>1 DEF Fresh
<1>5. Distinct(queue)
  BY <1>1 DEF Distinct, Injective
<1>6. Orderly(queue, running)
  BY DEF Orderly, QueueInit
<1>7. TimerArmed
  BY DEF TimerArmed, QueueInit
<1>8. RunningIsCounted
  BY FS_EmptySet DEF RunningIsCounted, QueueInit
<1> QED BY <1>3, <1>4, <1>5, <1>6, <1>7, <1>8 DEF IInv, QueueInit

LEMMA ElemType == ASSUME NEW request \in Request PROVE NewElem(request) \in RscQElem
<1>1. GetInt(request, "reqid") \in 0..MaxId
  <2>1. CASE request \in [reqid : 0..MaxId, init_delay : {1}]
    BY <2>1 DEF GetInt
  <2>2. CASE request \in [reqid : 1..MaxId, repeat_interval : {1}]
    BY <2>2, QueueAssumption DEF GetInt
  <2>3. CASE request \in [reqid : {n \in 1..MaxId : n = 1}, repeat_interval : {1},
                          cancel_on_fail : {TRUE}]
    BY <2>3, QueueAssumption DEF GetInt
  <2> QED BY <2>1, <2>2, <2>3 DEF Request
<1>2. (GetInt(request, "repeat_interval") > 0) \in BOOLEAN
  OBVIOUS
<1>3. GetBool(request, "cancel_on_fail") \in BOOLEAN
  BY DEF GetBool, Request
<1> QED BY <1>1, <1>2, <1>3 DEF NewElem, RscQElem

LEMMA UnchangedSound == IInv /\ UNCHANGED queuevars => IInv'
<1> SUFFICES ASSUME IInv, UNCHANGED queuevars PROVE IInv'
  OBVIOUS
<1>1. UNCHANGED <<queue, elem, due, running, succeeded, timer, active, count, failed,
                  trusted, misled>>
  BY DEF queuevars, agentvars, history
<1>2. QueueTypeOK'
  BY <1>1 DEF IInv, QueueTypeOK
<1>3. Fresh' /\ Distinct(queue)' /\ Orderly(queue, running)'
  BY <1>1 DEF IInv, Fresh, Distinct, Orderly, Injective, Requests
<1>4. TimerArmed' /\ RunningIsCounted'
  BY <1>1 DEF IInv, TimerArmed, RunningIsCounted
<1> QED BY <1>1, <1>2, <1>3, <1>4 DEF IInv

\* A request is taken: it gets a number that is not in use.
LEMMA QcmdSound ==
    ASSUME IInv, NEW rsc \in Rsc, NEW request \in Request, Qcmd(rsc, request)
    PROVE  IInv'
<1>1. CASE UNCHANGED queuevars
  BY <1>1, UnchangedSound
<1>2. CASE Accepts(rsc, request)
  <2> DEFINE n == count + 1
             q == queue[rsc]
  <2>1. /\ n \in Number /\ count' = n
        /\ queue' = [queue EXCEPT ![rsc] = Append(q, n)] /\ timer' = TRUE
        /\ elem' = [elem EXCEPT ![n] = NewElem(request)]
        /\ due' \in {due, due \cup {n}}
        /\ UNCHANGED <<running, succeeded, active, failed, trusted, misled>>
    BY <1>2, QueueAssumption DEF Qcmd, Push, Number, IInv, QueueTypeOK, history
  <2>2. \A r \in Rsc : queue[r] \in Seq(Number) /\ n \notin Requests(queue[r])
    <3>1. count \in Nat
      BY QueueAssumption DEF IInv, QueueTypeOK
    <3> QED BY <3>1 DEF IInv, QueueTypeOK, Fresh
  <2>3. /\ Append(q, n) \in Seq(Number) /\ Injective(Append(q, n))
        /\ Requests(Append(q, n)) = Requests(q) \cup {n}
    BY <2>1, <2>2, AppendType DEF IInv, Distinct
  <2>4. \A r \in Rsc : queue'[r] = IF r = rsc THEN Append(q, n) ELSE queue[r]
    BY <2>1 DEF IInv, QueueTypeOK
  <2> HIDE DEF n, q
  <2>5. \A r \in Rsc : Requests(queue'[r]) = IF r = rsc THEN Requests(queue[r]) \cup {n}
                                                        ELSE Requests(queue[r])
    BY <2>3, <2>4 DEF q
  <2>6. QueueTypeOK'
    <3>1. queue' \in [Rsc -> Seq(Number)]
      BY <2>1, <2>3 DEF IInv, QueueTypeOK
    <3>2. elem' \in [Number -> RscQElem]
      BY <2>1, ElemType DEF IInv, QueueTypeOK
    <3>3. due' \subseteq Number
      BY <2>1 DEF IInv, QueueTypeOK
    <3>4. count' \in 0..MaxReq
      BY <2>1, QueueAssumption DEF Number
    <3> QED BY <3>1, <3>2, <3>3, <3>4, <2>1 DEF IInv, QueueTypeOK
  <2>7. Fresh'
    <3>1. count \in Nat /\ n = count + 1 /\ \A r \in Rsc : \A k \in Requests(queue[r]) : k \in Number
      BY <2>2, ElementOfSeq, QueueAssumption DEF IInv, QueueTypeOK, n, Requests
    <3>2. ASSUME NEW r \in Rsc, NEW k \in Requests(queue'[r]) PROVE k <= n
      <4>1. k \in Requests(queue[r]) => k <= count /\ k \in Nat
        BY <3>1 DEF IInv, Fresh, Number
      <4>2. k \in Requests(queue[r]) \/ k = n
        <5>1. CASE r = rsc
          BY <5>1, <2>5
        <5>2. CASE r # rsc
          BY <5>2, <2>5
        <5> QED BY <5>1, <5>2
      <4> QED BY <4>1, <4>2, <3>1
    <3> QED BY <3>2, <2>1 DEF Fresh
  <2>8. Distinct(queue)'
    <3>1. \A r \in Rsc : Injective(queue'[r])
      BY <2>3, <2>4 DEF IInv, Distinct
    <3> QED BY <3>1, <2>2, <2>5 DEF IInv, Distinct
  <2>9. Orderly(queue, running)'
    <3>1. n \notin running
      BY <2>2 DEF IInv, Orderly
    <3>2. running' = running /\ \A r \in Rsc : Requests(queue'[r]) \cap running
                                               = Requests(queue[r]) \cap running
      <4>1. ASSUME NEW r \in Rsc
            PROVE  Requests(queue'[r]) \cap running = Requests(queue[r]) \cap running
        <5>1. CASE r = rsc
          BY <5>1, <3>1, <2>5
        <5>2. CASE r # rsc
          BY <5>2, <2>5
        <5> QED BY <5>1, <5>2
      <4> QED BY <4>1, <2>1
    <3>3. \A k \in running : \E r \in Rsc : k \in Requests(queue'[r])
      BY <3>1, <2>5 DEF IInv, Orderly
    <3> QED BY <3>2, <3>3 DEF IInv, Orderly
  <2> QED BY <2>1, <2>6, <2>7, <2>8, <2>9 DEF IInv, TimerArmed, RunningIsCounted
<1> QED BY <1>1, <1>2 DEF Qcmd

\* A queue without one of its requests, and the requests that are left.
LEMMA RemoveSound ==
    ASSUME IInv, NEW rsc \in Rsc, NEW n \in Requests(queue[rsc]),
           NEW qs, qs = [queue EXCEPT ![rsc] = Without(@, n)]
    PROVE  /\ qs \in [Rsc -> Seq(Number)] /\ Distinct(qs)
           /\ \A r \in Rsc : Requests(qs[r]) = Requests(queue[r]) \ {n}
           /\ n \in Number
<1> DEFINE q == queue[rsc]
<1>1. q \in Seq(Number) /\ Injective(q)
  BY DEF IInv, QueueTypeOK, Distinct
<1>2. /\ Without(q, n) \in Seq(Number) /\ Injective(Without(q, n))
      /\ Requests(Without(q, n)) = Requests(q) \ {n}
  BY <1>1, WithoutType
<1>3. \A r \in Rsc : qs[r] = IF r = rsc THEN Without(q, n) ELSE queue[r]
  BY DEF IInv, QueueTypeOK
<1>4. qs \in [Rsc -> Seq(Number)]
  BY <1>2 DEF IInv, QueueTypeOK
<1>5. \A r \in Rsc : r # rsc => n \notin Requests(queue[r])
  BY DEF IInv, Distinct
<1> HIDE DEF q
<1>6. \A r \in Rsc : Requests(qs[r]) = Requests(queue[r]) \ {n}
  BY <1>2, <1>3, <1>5 DEF q
<1>7. Distinct(qs)
  <2>1. \A r \in Rsc : Injective(qs[r])
    BY <1>2, <1>3 DEF IInv, Distinct
  <2> QED BY <2>1, <1>6 DEF IInv, Distinct
<1>8. n \in Number
  BY <1>1, ElementOfSeq, LenProperties DEF Requests, q
<1> QED BY <1>4, <1>6, <1>7, <1>8

LEMMA NoElemType == NoElem \in RscQElem
BY QueueAssumption DEF NoElem, RscQElem

LEMMA CancelSound ==
    ASSUME IInv, NEW rsc \in Rsc, NEW id, Cancel(rsc, id)
    PROVE  IInv'
<1> DEFINE found == {n \in Requests(queue[rsc]) : elem[n].requestid = id}
           n == FirstOf(queue[rsc], found)
<1>1. n \in Requests(queue[rsc])
  <2>1. queue[rsc] \in Seq(Number) /\ Requests(queue[rsc]) \cap found # {}
    BY DEF Cancel, IInv, QueueTypeOK
  <2> QED BY <2>1, FirstOfType
<1>2. /\ n \notin running
      /\ queue' = [queue EXCEPT ![rsc] = Without(@, n)]
      /\ elem' = [elem EXCEPT ![n] = NoElem]
      /\ due' = due \ {n} /\ succeeded' = succeeded \ {n}
      /\ trusted' = trusted \ {n} /\ misled' = misled \ {n}
      /\ UNCHANGED <<running, timer, active, count, failed>>
  BY DEF Cancel
<1> HIDE DEF n
<1>3. /\ queue' \in [Rsc -> Seq(Number)] /\ Distinct(queue')
      /\ \A r \in Rsc : Requests(queue'[r]) = Requests(queue[r]) \ {n}
      /\ n \in Number
  BY <1>1, <1>2, RemoveSound
<1>4. QueueTypeOK'
  BY <1>2, <1>3, NoElemType DEF IInv, QueueTypeOK
<1>5. Fresh'
  BY <1>2, <1>3 DEF IInv, Fresh
<1>6. Orderly(queue, running)'
  BY <1>2, <1>3 DEF IInv, Orderly
<1>7. TimerArmed'
  <2>1. queue[rsc] # <<>>
    BY <1>1 DEF Requests
  <2> QED BY <2>1, <1>2 DEF IInv, TimerArmed
<1> QED BY <1>2, <1>3, <1>4, <1>5, <1>6, <1>7 DEF IInv, RunningIsCounted

LEMMA RunTimerSound ==
    ASSUME IInv, RunTimer
    PROVE  IInv'
<1>1. /\ RunQueue(queue, due, active, {})
      /\ UNCHANGED <<queue, elem, due, succeeded, count, trusted, misled>>
  BY DEF RunTimer, history
<1>2. RunnableQueues(queue, due, active, {})
  <2>1. running \ {} = running
    OBVIOUS
  <2> QED BY <2>1 DEF IInv, QueueTypeOK, RunningIsCounted, RunnableQueues
<1>3. running \subseteq Number /\ failed \in 0..MaxSpawnFail
  BY DEF IInv, QueueTypeOK
<1>4. /\ running' \subseteq Number /\ Orderly(queue, running')
      /\ active' \in Nat /\ active' >= Cardinality(running')
      /\ failed' \in 0..MaxSpawnFail
      /\ timer' = (timer /\ \E r \in Rsc : queue[r] # <<>>)
  BY <1>1, <1>2, <1>3, RunQueueSound
<1>5. QueueTypeOK'
  BY <1>1, <1>4 DEF IInv, QueueTypeOK
<1>6. Fresh' /\ Distinct(queue)'
  BY <1>1 DEF IInv, Fresh, Distinct, Injective, Requests
<1>7. Orderly(queue, running)'
  BY <1>1, <1>4 DEF Orderly, Requests
<1>8. TimerArmed' /\ RunningIsCounted'
  BY <1>1, <1>4 DEF IInv, TimerArmed, RunningIsCounted
<1> QED BY <1>1, <1>5, <1>6, <1>7, <1>8 DEF IInv

LEMMA TimePassesSound ==
    ASSUME IInv, NEW n \in Number, TimePasses(n)
    PROVE  IInv'
<1>1. /\ due' = due \cup {n}
      /\ UNCHANGED <<queue, elem, running, succeeded, timer, active, count, failed,
                     trusted, misled>>
  BY DEF TimePasses, history
<1>2. QueueTypeOK'
  BY <1>1 DEF IInv, QueueTypeOK
<1>3. Fresh' /\ Distinct(queue)' /\ Orderly(queue, running)'
  BY <1>1 DEF IInv, Fresh, Distinct, Orderly, Injective, Requests
<1>4. TimerArmed' /\ RunningIsCounted'
  BY <1>1 DEF IInv, TimerArmed, RunningIsCounted
<1> QED BY <1>1, <1>2, <1>3, <1>4 DEF IInv

\* What the requestor is told of the run that has just ended: a request that
\* repeats is reported when it flips, any other always.
LEMMA ReportsSound ==
    ASSUME IInv, NEW n \in Number, NEW ok \in BOOLEAN, ChildExit(n, ok)
    PROVE  /\ trusted' = succeeded' /\ misled' = {}
           /\ succeeded' \subseteq Number
           /\ elem' \in [Number -> RscQElem]
<1>1. /\ trusted = succeeded /\ misled = {} /\ succeeded \subseteq Number
      /\ elem \in [Number -> RscQElem]
  BY DEF IInv, QueueTypeOK
<1>2. CASE ShouldRepeat(n, ok)
  <2>1. /\ succeeded' = IF ok THEN succeeded \cup {n} ELSE succeeded \ {n}
        /\ trusted' = IF IsNews(n, ok)
                      THEN (IF ok THEN trusted \cup {n} ELSE trusted \ {n}) ELSE trusted
        /\ misled' = IF ok = (n \in trusted') THEN misled \ {n} ELSE misled \cup {n}
        /\ elem' = elem
    BY <1>2 DEF ChildExit
  <2>2. IsNews(n, ok) <=> (ok # (n \in succeeded))
    BY <1>2 DEF IsNews
  <2>3. trusted' = succeeded'
    BY <1>1, <2>1, <2>2
  <2>4. ok = (n \in trusted')
    <3>1. CASE ok
      BY <3>1, <2>1, <2>3
    <3>2. CASE ~ok
      BY <3>2, <2>1, <2>3
    <3> QED BY <3>1, <3>2
  <2> QED BY <1>1, <2>1, <2>3, <2>4
<1>3. CASE ~ShouldRepeat(n, ok)
  <2>1. IsNews(n, ok)
    BY <1>3 DEF IsNews
  <2>2. /\ succeeded' = succeeded \ {n} /\ trusted' = trusted \ {n}
        /\ elem' = [elem EXCEPT ![n] = NoElem]
        /\ misled' = misled \ {n}
    BY <1>3, <2>1 DEF ChildExit
  <2> QED BY <1>1, <2>2, NoElemType
<1> QED BY <1>2, <1>3

\* An agent ends: its request leaves the queue or goes to the tail, and the
\* queues are looked through while it still counts as running.
LEMMA ChildExitSound ==
    ASSUME IInv, NEW n \in Number, NEW ok \in BOOLEAN, ChildExit(n, ok)
    PROVE  IInv'
<1>1. PICK rsc \in Rsc :
        /\ n \in Requests(queue[rsc])
        /\ LET rest == Without(queue[rsc], n) IN
           queue' = [queue EXCEPT ![rsc] = IF ShouldRepeat(n, ok) THEN Requeue(rest, n) ELSE rest]
  BY DEF ChildExit
<1>2. /\ n \in running /\ due' = due \ {n}
      /\ RunQueue(queue', due', active - 1, {n})
      /\ count' = count
  BY DEF ChildExit
<1> DEFINE rest == Without(queue[rsc], n)
           qs == [queue EXCEPT ![rsc] = Without(@, n)]
<1>3. /\ qs \in [Rsc -> Seq(Number)] /\ Distinct(qs)
      /\ \A r \in Rsc : Requests(qs[r]) = Requests(queue[r]) \ {n}
  <2> HIDE DEF qs
  <2>1. qs = [queue EXCEPT ![rsc] = Without(@, n)]
    BY DEF qs
  <2> QED BY <1>1, <2>1, RemoveSound
<1>4. qs[rsc] = rest /\ \A r \in Rsc : r # rsc => qs[r] = queue[r]
  BY DEF IInv, QueueTypeOK
<1>5. /\ queue' \in [Rsc -> Seq(Number)] /\ Distinct(queue')
      /\ \A r \in Rsc : Requests(queue'[r]) \ {n} = Requests(queue[r]) \ {n}
      /\ \A r \in Rsc : Requests(queue'[r]) \subseteq Requests(queue[r])
  <2>1. CASE ~ShouldRepeat(n, ok)
    <3>1. queue' = qs
      BY <1>1, <2>1
    <3> HIDE DEF qs
    <3> QED BY <1>3, <3>1
  <2>2. CASE ShouldRepeat(n, ok)
    <3>1. /\ rest \in Seq(Number) /\ Injective(rest) /\ n \notin Requests(rest)
          /\ Requests(rest) = Requests(queue[rsc]) \ {n}
      BY <1>3, <1>4 DEF Distinct
    <3>2. /\ Append(rest, n) \in Seq(Number) /\ Injective(Append(rest, n))
          /\ Requests(Append(rest, n)) = Requests(rest) \cup {n}
      <4> HIDE DEF rest
      <4> QED BY <3>1, AppendType
    <3>3. /\ queue' = [queue EXCEPT ![rsc] = Append(rest, n)]
          /\ \A r \in Rsc : queue'[r] = IF r = rsc THEN Append(rest, n) ELSE queue[r]
      BY <1>1, <2>2 DEF Requeue, IInv, QueueTypeOK
    <3> HIDE DEF rest, qs
    <3>4. queue' \in [Rsc -> Seq(Number)]
      BY <3>2, <3>3 DEF IInv, QueueTypeOK
    <3>5. \A r \in Rsc : Requests(queue'[r]) = Requests(queue[r])
      BY <1>1, <3>1, <3>2, <3>3
    <3>6. \A r \in Rsc : Injective(queue'[r])
      BY <3>2, <3>3 DEF IInv, Distinct
    <3>7. Distinct(queue')
      BY <3>5, <3>6 DEF IInv, Distinct
    <3> QED BY <3>4, <3>5, <3>7
  <2> QED BY <2>1, <2>2
<1> HIDE DEF rest, qs
<1>6. RunnableQueues(queue', due', active - 1, {n})
  <2>1. due' \subseteq Number /\ {n} \subseteq running
    BY <1>2 DEF IInv, QueueTypeOK
  <2>2. Orderly(queue', running \ {n})
    <3>1. ASSUME NEW m \in running \ {n} PROVE \E r \in Rsc : m \in Requests(queue'[r])
      <4>1. PICK r \in Rsc : m \in Requests(queue[r]) \ {n}
        BY DEF IInv, Orderly
      <4> QED BY <4>1, <1>5
    <3>2. ASSUME NEW r \in Rsc, NEW k \in Requests(queue'[r]) \cap (running \ {n}),
                 NEW m \in Requests(queue'[r]) \cap (running \ {n})
          PROVE  k = m
      BY <1>5 DEF IInv, Orderly
    <3> QED BY <3>1, <3>2 DEF Orderly
  <2>3. active - 1 \in Nat /\ active - 1 >= Cardinality(running \ {n})
    <3>1. IsFiniteSet(running) /\ Cardinality(running) \in Nat
      BY NumberFinite, FS_CardinalityType DEF IInv, QueueTypeOK
    <3>2. Cardinality(running \ {n}) = Cardinality(running) - 1
      BY <1>2, <3>1, FS_RemoveElement
    <3>3. IsFiniteSet(running \ {n}) /\ Cardinality(running \ {n}) \in Nat
      BY <3>1, FS_RemoveElement, FS_CardinalityType
    <3>4. active \in Nat /\ active >= Cardinality(running)
      BY DEF IInv, QueueTypeOK, RunningIsCounted
    <3> QED BY <3>1, <3>2, <3>3, <3>4
  <2> QED BY <1>5, <2>1, <2>2, <2>3 DEF RunnableQueues
<1>7. running \subseteq Number /\ failed \in 0..MaxSpawnFail
  BY DEF IInv, QueueTypeOK
<1>8. /\ running' \subseteq Number /\ Orderly(queue', running')
      /\ active' \in Nat /\ active' >= Cardinality(running')
      /\ failed' \in 0..MaxSpawnFail
      /\ timer' = (timer /\ \E r \in Rsc : queue'[r] # <<>>)
  BY <1>2, <1>6, <1>7, RunQueueSound
<1>9. QueueTypeOK'
  BY <1>2, <1>5, <1>8, ReportsSound DEF IInv, QueueTypeOK
<1>10. Fresh'
  BY <1>2, <1>5 DEF IInv, Fresh
<1>11. TimerArmed'
  <2>1. timer
    <3>1. queue[rsc] # <<>>
      BY <1>1 DEF Requests
    <3> QED BY <3>1 DEF IInv, TimerArmed
  <2> QED BY <2>1, <1>8 DEF TimerArmed
<1> QED BY <1>5, <1>8, <1>9, <1>10, <1>11, ReportsSound DEF IInv, RunningIsCounted

-----------------------------------------------------------------------------
(* The theorems.                                                           *)

LEMMA NextSound == IInv /\ [QueueNext]_queuevars => IInv'
<1> SUFFICES ASSUME IInv, [QueueNext]_queuevars PROVE IInv'
  OBVIOUS
<1>1. ASSUME NEW rsc \in Rsc, NEW request \in Request, Qcmd(rsc, request) PROVE IInv'
  BY <1>1, QcmdSound
<1>2. ASSUME NEW rsc \in Rsc, NEW id \in 1..MaxId, Cancel(rsc, id) PROVE IInv'
  BY <1>2, CancelSound
<1>3. CASE RunTimer
  BY <1>3, RunTimerSound
<1>4. ASSUME NEW n \in Number, AgentEnds(n) PROVE IInv'
  BY <1>4, ChildExitSound DEF AgentEnds
<1>5. ASSUME NEW n \in Number, TimePasses(n) PROVE IInv'
  BY <1>5, TimePassesSound
<1>6. CASE UNCHANGED queuevars
  BY <1>6, UnchangedSound
<1> QED BY <1>1, <1>2, <1>3, <1>4, <1>5, <1>6 DEF QueueNext, QueueSteps

LEMMA Invariance == QueueSpec => []IInv
BY InitSound, NextSound, PTL DEF QueueSpec

\* However many requests for however many resources are queued, repeat, fail and
\* are cancelled, two agents of one resource never run at the same time, although
\* runqueue is called from the timer and from the exit of every agent.
THEOREM OperationsExclude == QueueSpec => []OneAtATime
<1>1. IInv => OneAtATime
  <2> SUFFICES ASSUME IInv, NEW rsc \in Rsc
               PROVE  Cardinality(Requests(queue[rsc]) \cap running) <= 1
    BY DEF OneAtATime
  <2> DEFINE S == Requests(queue[rsc]) \cap running
  <2>1. \A m, n \in S : m = n
    BY DEF IInv, Orderly
  <2> HIDE DEF S
  <2>2. S = {} \/ \E n : S = {n}
    BY <2>1
  <2>3. Cardinality(S) <= 1
    <3>1. CASE S = {}
      BY <3>1, FS_EmptySet
    <3>2. ASSUME NEW n, S = {n} PROVE Cardinality(S) = 1
      BY <3>2, FS_Singleton, Zenon
    <3> QED BY <2>2, <3>1, <3>2
  <2> QED BY <2>3 DEF S
<1> QED BY <1>1, Invariance, PTL

\* The timer runs whenever a request is queued, so none is forgotten.
THEOREM QueueIsTimed == QueueSpec => []TimerArmed
<1>1. IInv => TimerArmed
  BY DEF IInv
<1> QED BY <1>1, Invariance, PTL

\* activechildcnt never drops below the number of running agents, each of which
\* will call back into the queue: it is not freed under them.
THEOREM ChildrenAreCounted == QueueSpec => []RunningIsCounted
<1>1. IInv => RunningIsCounted
  BY DEF IInv
<1> QED BY <1>1, Invariance, PTL

\* Reporting only flips and last runs, endnotify leaves no requestor with a
\* result that is no longer true.
THEOREM ReportsAreCurrent == QueueSpec => []ReportsStand
<1>1. IInv => ReportsStand
  BY DEF IInv, ReportsStand
<1> QED BY <1>1, Invariance, PTL

\* Every variable of the queue keeps its type.
THEOREM QueueTypeCorrect == QueueSpec => []QueueTypeOK
<1>1. IInv => QueueTypeOK
  BY DEF IInv
<1> QED BY <1>1, Invariance, PTL
=============================================================================
