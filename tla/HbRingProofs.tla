---------------------------- MODULE HbRingProofs ----------------------------
(***************************************************************************)
(* Proofs that the CMA keeps the drones that are up in one cycle and tells *)
(* each of them of its neighbours, for any number of drones.  The first    *)
(* part is about membership, which depends only on the two fields memdel   *)
(* and memnew of a pending transaction; the second about cycles, as        *)
(* relations; the third about what leave and join make of one; the fourth  *)
(* puts the actions together.                                              *)
(***************************************************************************)
EXTENDS HbRing, FiniteSetTheorems, TLAPS

-----------------------------------------------------------------------------
(* Membership                                                              *)

\* c has the fields of a pending transaction.
IsContext(c) ==
    c \in [memdel : {c.memdel}, memnew : {c.memnew}, del : {c.del}, new : {c.new},
           ip1 : {c.ip1}, ip2 : {c.ip2}, told : {c.told}]

\* r, made from c, makes the same members.
SameMembers(c, r) == IsContext(r) /\ r.memdel = c.memdel /\ r.memnew = c.memnew

\* The operators on links, insert points and orders change no membership.
LEMMA InsertAtMembers ==
    ASSUME NEW c, IsContext(c), NEW p1, NEW p2
    PROVE  SameMembers(c, InsertAt(c, p1, p2))
BY DEF IsContext, SameMembers, InsertAt

LEMMA RelateMembers ==
    ASSUME NEW c, IsContext(c), NEW links
    PROVE  SameMembers(c, Relate(c, links))
BY DEF IsContext, SameMembers, Relate

LEMMA SeparateMembers ==
    ASSUME NEW c, IsContext(c), NEW links
    PROVE  SameMembers(c, Separate(c, links))
BY DEF IsContext, SameMembers, Separate

LEMMA StartMembers ==
    ASSUME NEW c, IsContext(c), NEW d, NEW peers
    PROVE  SameMembers(c, StartHeartbeat(c, d, peers))
BY DEF IsContext, SameMembers, StartHeartbeat

LEMMA StopMembers ==
    ASSUME NEW c, IsContext(c), NEW d, NEW peers
    PROVE  SameMembers(c, StopHeartbeat(c, d, peers))
BY DEF IsContext, SameMembers, StopHeartbeat

LEMMA StartBothMembers ==
    ASSUME NEW c, IsContext(c), NEW a, NEW b
    PROVE  SameMembers(c, StartBoth(c, a, b))
<1>1. SameMembers(c, StartHeartbeat(c, a, {b}))
  BY StartMembers
<1>2. SameMembers(StartHeartbeat(c, a, {b}), StartBoth(c, a, b))
  BY <1>1, StartMembers DEF StartBoth, SameMembers
<1> QED BY <1>1, <1>2 DEF SameMembers

LEMMA StopBothMembers ==
    ASSUME NEW c, IsContext(c), NEW a, NEW b
    PROVE  SameMembers(c, StopBoth(c, a, b))
<1>1. SameMembers(c, StopHeartbeat(c, a, {b}))
  BY StopMembers
<1>2. SameMembers(StopHeartbeat(c, a, {b}), StopBoth(c, a, b))
  BY <1>1, StopMembers DEF StopBoth, SameMembers
<1> QED BY <1>1, <1>2 DEF SameMembers

LEMMA FarewellMembers ==
    ASSUME NEW c, IsContext(c), NEW peers, NEW d
    PROVE  SameMembers(c, Farewell(c, peers, d))
BY DEF IsContext, SameMembers, Farewell

LEMMA CloseGapMembers ==
    ASSUME NEW c, IsContext(c), NEW prev, NEW nxt
    PROVE  SameMembers(c, CloseGap(c, prev, nxt))
<1> DEFINE c1 == IF NextNode(nxt) # prev THEN StartBoth(c, nxt, prev) ELSE c
<1>1. SameMembers(c, c1)
  BY StartBothMembers DEF SameMembers
<1> HIDE DEF c1
<1>2. SameMembers(c1, InsertAt(c1, prev, nxt))
  BY <1>1, InsertAtMembers DEF SameMembers
<1>3. SameMembers(InsertAt(c1, prev, nxt), Relate(InsertAt(c1, prev, nxt), {<<prev, nxt>>}))
  BY <1>2, RelateMembers DEF SameMembers
<1> QED BY <1>1, <1>2, <1>3 DEF SameMembers, CloseGap, c1

\* What leave removes is the drone that leaves.
LEMMA LeaveMembers ==
    ASSUME NEW c, IsContext(c), NEW d
    PROVE  /\ IsContext(Leave(c, d))
           /\ Leave(c, d).memdel = c.memdel \cup {d}
           /\ Leave(c, d).memnew = c.memnew
<1> DEFINE prev == PrevNode(d)
           nxt == NextNode(d)
           c1 == [c EXCEPT !.memdel = @ \cup {d}]
           s  == Separate(c1, {<<prev, d>>, <<d, nxt>>})
           c2 == Farewell(s, {prev, nxt}, d)
<1>1. IsContext(c1) /\ c1.memdel = c.memdel \cup {d} /\ c1.memnew = c.memnew
  BY DEF IsContext
<1>5. Leave(c, d) = CASE prev = NoDrone /\ nxt = NoDrone -> InsertAt(c1, NoDrone, NoDrone)
                      [] prev = nxt /\ nxt # NoDrone     -> LeftAlone(c2, prev)
                      [] prev # nxt                      -> CloseGap(c2, prev, nxt)
  BY DEF Leave
<1> HIDE DEF prev, nxt, c1
<1>2. SameMembers(c1, s)
  BY <1>1, SeparateMembers
<1> HIDE DEF s
<1>3. SameMembers(s, c2)
  BY <1>2, FarewellMembers DEF SameMembers
<1> HIDE DEF c2
<1>4. /\ SameMembers(c1, InsertAt(c1, NoDrone, NoDrone))
      /\ SameMembers(c2, LeftAlone(c2, prev))
      /\ SameMembers(c2, CloseGap(c2, prev, nxt))
  BY <1>1, <1>2, <1>3, InsertAtMembers, CloseGapMembers DEF SameMembers, LeftAlone
<1>6. Leave(c, d) \in {InsertAt(c1, NoDrone, NoDrone), LeftAlone(c2, prev), CloseGap(c2, prev, nxt)}
  BY <1>5
<1> QED BY <1>1, <1>2, <1>3, <1>4, <1>6 DEF SameMembers

LEMMA MoveDownMembers ==
    ASSUME NEW c, IsContext(c)
    PROVE  SameMembers(c, MoveDown(c))
<1> DEFINE nn == NextNode(c.ip2)
           i  == InsertAt(c, c.ip2, nn)
<1>1. SameMembers(c, i)
  BY InsertAtMembers
<1>2. SameMembers(i, StopBoth(i, c.ip2, nn))
  BY <1>1, StopBothMembers DEF SameMembers
<1>3. MoveDown(c) \in {c, StopBoth(i, c.ip2, nn)}
  BY DEF MoveDown
<1> QED BY <1>1, <1>2, <1>3 DEF SameMembers

LEMMA InsertBetweenMembers ==
    ASSUME NEW c, IsContext(c), NEW d
    PROVE  SameMembers(c, InsertBetween(c, d))
<1> DEFINE s  == Separate(c, {<<c.ip1, c.ip2>>})
           b1 == StartBoth(s, d, c.ip1)
           b2 == StartBoth(b1, d, c.ip2)
           r  == Relate(b2, {<<c.ip1, d>>, <<d, c.ip2>>})
<1>1. SameMembers(c, s)
  BY SeparateMembers
<1>2. SameMembers(s, b1)
  BY <1>1, StartBothMembers DEF SameMembers
<1>3. SameMembers(b1, b2)
  BY <1>2, StartBothMembers DEF SameMembers
<1>4. SameMembers(b2, r)
  BY <1>3, RelateMembers DEF SameMembers
<1>5. SameMembers(r, InsertAt(r, d, c.ip2))
  BY <1>4, InsertAtMembers DEF SameMembers
<1> QED BY <1>1, <1>2, <1>3, <1>4, <1>5 DEF SameMembers, InsertBetween

LEMMA InsertSecondMembers ==
    ASSUME NEW c, IsContext(c), NEW d
    PROVE  SameMembers(c, InsertSecond(c, d))
<1> DEFINE b == StartBoth(c, d, c.ip1)
           r == Relate(b, {<<d, c.ip1>>, <<c.ip1, d>>})
<1>1. SameMembers(c, b)
  BY StartBothMembers
<1>2. SameMembers(b, r)
  BY <1>1, RelateMembers DEF SameMembers
<1>3. SameMembers(r, InsertAt(r, d, c.ip1))
  BY <1>2, InsertAtMembers DEF SameMembers
<1> QED BY <1>1, <1>2, <1>3 DEF SameMembers, InsertSecond

\* What join adds is the drone that joins, and it removes nobody else.
LEMMA JoinMembers ==
    ASSUME NEW c, IsContext(c), NEW d
    PROVE  /\ IsContext(Join(c, d))
           /\ Join(c, d).memdel \subseteq c.memdel \cup {d}
           /\ Join(c, d).memnew = c.memnew \cup {d}
<1> DEFINE c1 == LeaveFirst(c, d)
           c2 == [c1 EXCEPT !.memnew = @ \cup {d}]
           m  == MoveDown(c2)
<1>1. IsContext(c1) /\ c1.memdel \subseteq c.memdel \cup {d} /\ c1.memnew = c.memnew
  BY LeaveMembers DEF LeaveFirst
<1>2. Join(c, d) \in {InsertAt(c2, d, NoDrone), InsertSecond(c2, d), InsertBetween(m, d)}
  BY DEF Join
<1> HIDE DEF c1
<1>3. IsContext(c2) /\ c2.memdel = c1.memdel /\ c2.memnew = c1.memnew \cup {d}
  BY <1>1 DEF IsContext
<1> HIDE DEF c2
<1>4. SameMembers(c2, m)
  BY <1>3, MoveDownMembers
<1> HIDE DEF m
<1>5. /\ SameMembers(c2, InsertAt(c2, d, NoDrone))
      /\ SameMembers(c2, InsertSecond(c2, d))
      /\ SameMembers(m, InsertBetween(m, d))
  BY <1>3, <1>4, InsertAtMembers, InsertSecondMembers, InsertBetweenMembers DEF SameMembers
<1> QED BY <1>1, <1>2, <1>3, <1>4, <1>5 DEF SameMembers

-----------------------------------------------------------------------------

\* UpIsMemberOrRaised with the types it needs: inductive as it stands.
UpInv ==
    /\ status \in [Drone -> {"unknown", "up", "dead"}]
    /\ members \subseteq Drone /\ raised \subseteq Drone
    /\ UpIsMemberOrRaised

LEMMA BeginIsContext == IsContext(Begin) /\ Begin.memdel = {} /\ Begin.memnew = {}
BY DEF IsContext, Begin

LEMMA UpInvStep ==
    ASSUME UpInv, [Next]_vars
    PROVE  UpInv'
<1>1. ASSUME NEW d \in Drone, Boot(d) PROVE UpInv'
  BY <1>1 DEF UpInv, UpIsMemberOrRaised, Boot
<1>2. ASSUME NEW d \in Drone, NEW b, DispatchStartup(d, b) PROVE UpInv'
  <2>1. /\ status' = [status EXCEPT ![d] = "up"]
        /\ raised' = IF lastjoin[d] = b /\ d \notin members THEN raised \cup {d} ELSE raised \ {d}
    BY <1>2 DEF DispatchStartup
  <2>2. CASE IsDuplicate(d, b)
    <3>1. members' = members
      BY <1>2, <2>2, BeginIsContext DEF DispatchStartup, Commit
    <3>2. members' \cup raised' = members \cup raised \cup {d}
      BY <2>1, <2>2, <3>1 DEF IsDuplicate
    <3> QED BY <2>1, <3>1, <3>2 DEF UpInv, UpIsMemberOrRaised
  <2>3. CASE ~IsDuplicate(d, b)
    <3>1. members' = (members \ Join(Begin, d).memdel) \cup Join(Begin, d).memnew
      BY <1>2, <2>3 DEF DispatchStartup, Commit
    <3>2. members' = members \cup {d}
      BY <3>1, BeginIsContext, JoinMembers
    <3>3. raised' = raised \ {d}
      BY <2>1, <2>3 DEF IsDuplicate
    <3> QED BY <2>1, <3>2, <3>3 DEF UpInv, UpIsMemberOrRaised
  <2> QED BY <2>2, <2>3
<1>3. ASSUME NEW d \in Drone, NEW shutdown, DeathReport(d, shutdown) PROVE UpInv'
  <2>1. status' = [status EXCEPT ![d] = "dead"] /\ raised' = raised \ {d}
    BY <1>3 DEF DeathReport
  <2>2. members' = members \ {d}
    <3>1. CASE status[d] # "dead" /\ d \in members
      <4>1. members' = (members \ Leave(Begin, d).memdel) \cup Leave(Begin, d).memnew
        BY <1>3, <3>1 DEF DeathReport, Commit
      <4> QED BY <4>1, BeginIsContext, LeaveMembers
    <3>2. CASE ~(status[d] # "dead" /\ d \in members)
      <4>1. members' = (members \ Begin.memdel) \cup Begin.memnew
        BY <1>3, <3>2 DEF DeathReport, Commit
      <4>2. d \notin members
        BY <3>2 DEF UpInv, UpIsMemberOrRaised
      <4> QED BY <4>1, <4>2, BeginIsContext
    <3> QED BY <3>1, <3>2
  <2> QED BY <2>1, <2>2 DEF UpInv, UpIsMemberOrRaised
<1>4. ASSUME NEW reporter \in Drone, NEW src \in Drone, DispatchHbMartian(reporter, src)
      PROVE  UpInv'
  <2> DEFINE stopped == StopHeartbeat(Begin, src, {reporter})
  <2>1. IsContext(stopped) /\ stopped.memdel = {} /\ stopped.memnew = {}
    BY BeginIsContext, StopMembers DEF SameMembers
  <2>4. raised' = raised
    BY <1>4 DEF DispatchHbMartian
  <2>2. CASE status' = [status EXCEPT ![src] = "up"] /\ Commit(Join(stopped, src))
    <3>1. members' = (members \ Join(stopped, src).memdel) \cup Join(stopped, src).memnew
      BY <2>2 DEF Commit
    <3> HIDE DEF stopped
    <3>2. members' = members \cup {src}
      BY <2>1, <3>1, JoinMembers
    <3> QED BY <2>2, <2>4, <3>2 DEF UpInv, UpIsMemberOrRaised
  <2>3. CASE Commit(stopped) /\ UNCHANGED status
    BY <2>1, <2>3, <2>4 DEF Commit, UpInv, UpIsMemberOrRaised
  <2> QED BY <1>4, <2>2, <2>3 DEF DispatchHbMartian
<1>5. CASE CmaRestart
  BY <1>5 DEF UpInv, UpIsMemberOrRaised, CmaRestart
<1>6. CASE UNCHANGED vars
  BY <1>6 DEF UpInv, UpIsMemberOrRaised, vars
<1> QED BY <1>1, <1>2, <1>3, <1>4, <1>5, <1>6 DEF Next, DispatchHbDead, DispatchHbShutdown

\* The drones that the CMA considers up are exactly the members of its heartbeat
\* ring and those raised by a STARTUP that came once more after their death was
\* reported, whatever reports arrive in whatever order and in rings of any size.
THEOREM UpIsMonitored == Spec => []UpIsMemberOrRaised
<1>1. Init => UpInv
  BY DEF Init, UpInv, UpIsMemberOrRaised
<1>2. UpInv /\ [Next]_vars => UpInv'
  BY UpInvStep
<1>3. UpInv => UpIsMemberOrRaised
  BY DEF UpInv
<1> QED BY <1>1, <1>2, <1>3, PTL DEF Spec

-----------------------------------------------------------------------------
(* Cycles                                                                  *)

\* L is the link relation of one cycle through the elements of M; it is empty if
\* there are fewer than two.
Ring(M, L) ==
    /\ L \subseteq M \X M
    /\ \A a \in M : <<a, a>> \notin L
    /\ \A a, b, c \in M : <<a, b>> \in L /\ <<a, c>> \in L => b = c
    /\ \A a, b, c \in M : <<a, c>> \in L /\ <<b, c>> \in L => a = b
    /\ \A a, b \in M : a # b => (\E c \in M : <<a, c>> \in L) /\ (\E c \in M : <<c, a>> \in L)
    /\ \A S \in SUBSET M : S # {} /\ (\A a \in S, b \in M : <<a, b>> \in L => b \in S) => S = M

LEMMA NoRing == Ring({}, {})
BY DEF Ring

LEMMA RingOfOne == ASSUME NEW d PROVE Ring({d}, {})
BY DEF Ring

LEMMA RingOfTwo ==
    ASSUME NEW a, NEW b, a # b
    PROVE  Ring({a, b}, {<<a, b>>, <<b, a>>})
BY DEF Ring

\* d goes between a and b.
LEMMA RingInsert ==
    ASSUME NEW M, NEW L, Ring(M, L), NEW a, NEW b, <<a, b>> \in L, NEW d, d \notin M
    PROVE  Ring(M \cup {d}, (L \ {<<a, b>>}) \cup {<<a, d>>, <<d, b>>})
<1> DEFINE M1 == M \cup {d}
           L1 == (L \ {<<a, b>>}) \cup {<<a, d>>, <<d, b>>}
<1>1. a \in M /\ b \in M /\ a # b
  BY DEF Ring
<1>2. L1 \subseteq M1 \X M1 /\ \A x \in M1 : <<x, x>> \notin L1
  BY <1>1 DEF Ring
<1>3. \A x, y \in M1 : <<x, y>> \in L1 <=>
          \/ <<x, y>> \in L /\ ~(x = a /\ y = b)
          \/ x = a /\ y = d
          \/ x = d /\ y = b
  OBVIOUS
<1>4. \A x, y \in M1 : <<x, y>> \in L => x \in M /\ y \in M
  BY DEF Ring
<1> HIDE DEF L1
<1>5. /\ \A x, y, z \in M1 : <<x, y>> \in L1 /\ <<x, z>> \in L1 => y = z
      /\ \A x, y, z \in M1 : <<x, z>> \in L1 /\ <<y, z>> \in L1 => x = y
  BY <1>1, <1>3, <1>4 DEF Ring
<1>6. \A x, y \in M1 : x # y => (\E z \in M1 : <<x, z>> \in L1) /\ (\E z \in M1 : <<z, x>> \in L1)
  <2> SUFFICES ASSUME NEW x \in M1
               PROVE  (\E z \in M1 : <<x, z>> \in L1) /\ (\E z \in M1 : <<z, x>> \in L1)
    OBVIOUS
  <2>1. CASE x = d
    BY <1>1, <1>3, <2>1
  <2>2. CASE x \in M
    <3>1. PICK y, z \in M : <<x, y>> \in L /\ <<z, x>> \in L
      BY <1>1, <2>2 DEF Ring
    <3>2. \E w \in M1 : <<x, w>> \in L1
      BY <1>1, <1>3, <2>2, <3>1
    <3>3. \E w \in M1 : <<w, x>> \in L1
      BY <1>1, <1>3, <2>2, <3>1
    <3> QED BY <3>2, <3>3
  <2> QED BY <2>1, <2>2
<1>7. ASSUME NEW S \in SUBSET M1, S # {}, \A x \in S, y \in M1 : <<x, y>> \in L1 => y \in S
      PROVE  S = M1
  <2>1. a \in S => d \in S
    BY <1>1, <1>3, <1>7
  <2>2. d \in S => b \in S
    BY <1>1, <1>3, <1>7
  <2>3. \A x \in S \ {d}, y \in M : <<x, y>> \in L => y \in S \ {d}
    BY <1>1, <1>3, <1>7, <2>1, <2>2
  <2>4. S \ {d} # {}
    BY <1>1, <1>7, <2>2
  <2>5. S \ {d} \in SUBSET M
    OBVIOUS
  <2>6. S \ {d} = M
    BY <2>3, <2>4, <2>5 DEF Ring
  <2> QED BY <1>1, <2>1, <2>6
<1> HIDE DEF M1
<1>8. Ring(M1, L1)
  BY <1>2, <1>5, <1>6, <1>7 DEF Ring
<1> QED BY <1>8 DEF M1, L1

\* d leaves its neighbours p and n, which are two.
LEMMA RingRemove ==
    ASSUME NEW M, NEW L, Ring(M, L), NEW p, NEW d, NEW n,
           <<p, d>> \in L, <<d, n>> \in L, p # n
    PROVE  Ring(M \ {d}, (L \ {<<p, d>>, <<d, n>>}) \cup {<<p, n>>})
<1> DEFINE M1 == M \ {d}
           L1 == (L \ {<<p, d>>, <<d, n>>}) \cup {<<p, n>>}
<1>1. p \in M /\ d \in M /\ n \in M /\ p # d /\ d # n
  BY DEF Ring
<1>2. \A x, y \in M1 : <<x, y>> \in L1 <=> <<x, y>> \in L \/ (x = p /\ y = n)
  BY <1>1
<1>3. L1 \subseteq M1 \X M1 /\ \A x \in M1 : <<x, x>> \notin L1
  <2>1. \A x \in M : /\ <<x, d>> \in L => x = p
                     /\ <<d, x>> \in L => x = n
    BY <1>1 DEF Ring
  <2> QED BY <1>1, <2>1 DEF Ring
<1> HIDE DEF L1
<1>4. /\ \A x, y, z \in M1 : <<x, y>> \in L1 /\ <<x, z>> \in L1 => y = z
      /\ \A x, y, z \in M1 : <<x, z>> \in L1 /\ <<y, z>> \in L1 => x = y
  BY <1>1, <1>2 DEF Ring
<1>5. \A x, y \in M1 : x # y => (\E z \in M1 : <<x, z>> \in L1) /\ (\E z \in M1 : <<z, x>> \in L1)
  <2> SUFFICES ASSUME NEW x \in M1
               PROVE  (\E z \in M1 : <<x, z>> \in L1) /\ (\E z \in M1 : <<z, x>> \in L1)
    OBVIOUS
  <2>1. PICK y, z \in M : <<x, y>> \in L /\ <<z, x>> \in L
    BY <1>1 DEF Ring
  <2>2. \E w \in M1 : <<x, w>> \in L1
    <3>1. CASE x = p
      BY <1>1, <1>2, <3>1
    <3>2. CASE x # p
      <4>1. y # d
        BY <1>1, <2>1, <3>2 DEF Ring
      <4> QED BY <1>2, <2>1, <4>1
    <3> QED BY <3>1, <3>2
  <2>3. \E w \in M1 : <<w, x>> \in L1
    <3>1. CASE x = n
      BY <1>1, <1>2, <3>1
    <3>2. CASE x # n
      <4>1. z # d
        BY <1>1, <2>1, <3>2 DEF Ring
      <4> QED BY <1>2, <2>1, <4>1
    <3> QED BY <3>1, <3>2
  <2> QED BY <2>2, <2>3
<1>6. ASSUME NEW S \in SUBSET M1, S # {}, \A x \in S, y \in M1 : <<x, y>> \in L1 => y \in S
      PROVE  S = M1
  <2> DEFINE T == IF p \in S THEN S \cup {d} ELSE S
  <2>1. ASSUME NEW x \in T, NEW y \in M, <<x, y>> \in L PROVE y \in T
    <3>1. CASE x = d
      <4>1. y = n
        BY <1>1, <2>1, <3>1 DEF Ring
      <4>2. p \in S
        BY <2>1, <3>1
      <4>3. p \in M1 /\ n \in M1 /\ <<p, n>> \in L1
        BY <1>1, <1>2
      <4> QED BY <1>6, <4>1, <4>2, <4>3
    <3>2. CASE x # d /\ y = d
      BY <1>1, <2>1, <3>2 DEF Ring
    <3>3. CASE x # d /\ y # d
      BY <1>2, <1>6, <2>1, <3>3
    <3> QED BY <3>1, <3>2, <3>3
  <2>2. T \in SUBSET M /\ T # {}
    BY <1>1, <1>6
  <2>3. T = M
    <3> HIDE DEF T
    <3> QED BY <2>1, <2>2 DEF Ring
  <2> QED BY <2>3
<1> HIDE DEF M1
<1>7. Ring(M1, L1)
  BY <1>3, <1>4, <1>5, <1>6 DEF Ring
<1> QED BY <1>7 DEF M1, L1

\* A drone with one neighbour on both sides is in a ring of two.
LEMMA RingAlone ==
    ASSUME NEW M, NEW L, Ring(M, L), NEW p, NEW d, <<p, d>> \in L, <<d, p>> \in L
    PROVE  M = {p, d} /\ L = {<<p, d>>, <<d, p>>} /\ p # d
<1>1. p \in M /\ d \in M /\ p # d
  BY DEF Ring
<1>2. \A x \in {p, d}, y \in M : <<x, y>> \in L => y \in {p, d}
  BY <1>1 DEF Ring
<1>3. {p, d} \in SUBSET M /\ {p, d} # {}
  BY <1>1
<1>4. {p, d} = M
  BY <1>2, <1>3 DEF Ring
<1> QED BY <1>1, <1>4 DEF Ring

-----------------------------------------------------------------------------
(* Orders                                                                  *)

Told == [Drone -> SUBSET Drone]

\* What the drones must have been told when the ring is M with the links L: those in
\* F to exchange heartbeats with their neighbours, those outside D with nobody else.
Orders(M, L, T, F, D) ==
    /\ \A x \in M \cap F, y \in Drone : <<x, y>> \in L \/ <<y, x>> \in L => y \in T[x]
    /\ \A x \in M \ D, y \in Drone : y \in T[x] => <<x, y>> \in L \/ <<y, x>> \in L
    /\ \A x \in Drone \ (M \cup D) : T[x] = {}

\* T when a and b are told to exchange heartbeats, when they are told to stop, and when
\* those in S are told to forget d.
Started(T, a, b) ==
    [x \in Drone |-> IF x = a THEN T[x] \cup {b} ELSE IF x = b THEN T[x] \cup {a} ELSE T[x]]

Parted(T, a, b) ==
    [x \in Drone |-> IF x = a THEN T[x] \ {b} ELSE IF x = b THEN T[x] \ {a} ELSE T[x]]

Forgotten(T, S, d) == [x \in Drone |-> IF x \in S THEN T[x] \ {d} ELSE T[x]]

LEMMA ToldTypes ==
    ASSUME NEW T \in Told, NEW a \in Drone, NEW b \in Drone, NEW S
    PROVE  Started(T, a, b) \in Told /\ Parted(T, a, b) \in Told /\ Forgotten(T, S, a) \in Told
<1>1. Started(T, a, b) \in Told
  BY DEF Told, Started
<1>2. Parted(T, a, b) \in Told
  BY DEF Told, Parted
<1>3. Forgotten(T, S, a) \in Told
  BY DEF Told, Forgotten
<1> QED BY <1>1, <1>2, <1>3

LEMMA OrdersInsert ==
    ASSUME NEW M \in SUBSET Drone, NEW L, Ring(M, L), NEW a, NEW b, <<a, b>> \in L,
           NEW d \in Drone \ M, NEW T \in Told, NEW F, NEW D, Orders(M, L, T, F, D),
           NEW T1, T1 = IF <<b, a>> \in L THEN T ELSE Parted(T, a, b)
    PROVE  Orders(M \cup {d}, (L \ {<<a, b>>}) \cup {<<a, d>>, <<d, b>>},
                  Started(Started(T1, d, a), d, b), F \cup {d}, D)
<1> DEFINE L1 == (L \ {<<a, b>>}) \cup {<<a, d>>, <<d, b>>}
           T2 == Started(Started(T1, d, a), d, b)
           Adj(x, y) == <<x, y>> \in L \/ <<y, x>> \in L
           Joint(x, y) == (x = d /\ y \in {a, b}) \/ (y = d /\ x \in {a, b})
           Split(x, y) == (x = a /\ y = b) \/ (x = b /\ y = a)
<1>1. a \in M /\ b \in M /\ a # b /\ a # d /\ b # d /\ a \in Drone /\ b \in Drone
  BY DEF Ring
<1>2. \A x, y \in Drone : (<<x, y>> \in L1 \/ <<y, x>> \in L1) <=>
          Joint(x, y) \/ (Adj(x, y) /\ ~(Split(x, y) /\ <<b, a>> \notin L))
  <2>1. \A x, y \in Drone : <<x, y>> \in L1 <=>
            \/ <<x, y>> \in L /\ ~(x = a /\ y = b)
            \/ x = a /\ y = d
            \/ x = d /\ y = b
    OBVIOUS
  <2> HIDE DEF L1
  <2> QED BY <1>1, <2>1
<1>3. \A x, y \in Drone : y \in T2[x] <=>
          Joint(x, y) \/ (y \in T[x] /\ ~(Split(x, y) /\ <<b, a>> \notin L))
  <2>1. T1 \in Told /\ Started(T1, d, a) \in Told
    BY <1>1, ToldTypes
  <2>2. \A x, y \in Drone : y \in T1[x] <=> y \in T[x] /\ ~(Split(x, y) /\ <<b, a>> \notin L)
    <3>1. CASE <<b, a>> \in L
      BY <3>1
    <3>2. CASE <<b, a>> \notin L
      BY <1>1, <3>2 DEF Parted
    <3> QED BY <3>1, <3>2
  <2>3. \A x, y \in Drone : y \in Started(T1, d, a)[x] <=>
            y \in T1[x] \/ (x = d /\ y = a) \/ (x = a /\ y = d)
    BY <1>1, <2>1 DEF Started, Told
  <2>4. \A x, y \in Drone : y \in T2[x] <=>
            y \in Started(T1, d, a)[x] \/ (x = d /\ y = b) \/ (x = b /\ y = d)
    <3> HIDE DEF Joint
    <3> DEFINE U == Started(T1, d, a)
    <3> HIDE DEF U
    <3> QED BY <1>1, <2>1 DEF Started, Told, U
  <2> HIDE DEF T2, Split
  <2> QED BY <1>1, <2>2, <2>3, <2>4
<1>4. \A y \in Drone : ~Adj(d, y)
  BY DEF Ring
<1> HIDE DEF L1, T2
<1>5. \A x \in (M \cup {d}) \cap (F \cup {d}), y \in Drone :
          <<x, y>> \in L1 \/ <<y, x>> \in L1 => y \in T2[x]
  BY <1>1, <1>2, <1>3, <1>4 DEF Orders
<1>6. \A x \in (M \cup {d}) \ D, y \in Drone :
          y \in T2[x] => <<x, y>> \in L1 \/ <<y, x>> \in L1
  BY <1>1, <1>2, <1>3 DEF Orders
<1>7. \A x \in Drone \ (M \cup {d} \cup D) : T2[x] = {}
  <2>1. \A x \in Drone : T2[x] \subseteq Drone
    <3>1. T2 \in Told
      BY <1>1, ToldTypes DEF T2
    <3> QED BY <3>1 DEF Told
  <2> QED BY <1>1, <1>3, <2>1 DEF Orders
<1> QED BY <1>5, <1>6, <1>7 DEF Orders, L1, T2

LEMMA OrdersRemove ==
    ASSUME NEW M \in SUBSET Drone, NEW L, Ring(M, L), NEW p, NEW d, NEW n,
           <<p, d>> \in L, <<d, n>> \in L, p # n,
           NEW T \in Told, NEW F, NEW D, Orders(M, L, T, F, D),
           NEW T1, T1 = Forgotten(T, {p, n}, d),
           NEW D1, D1 = D \cup (IF T[d] # {} THEN {d} ELSE {})
    PROVE  Orders(M \ {d}, (L \ {<<p, d>>, <<d, n>>}) \cup {<<p, n>>},
                  IF <<n, p>> \in L THEN T1 ELSE Started(T1, n, p), F, D1)
<1> DEFINE L1 == (L \ {<<p, d>>, <<d, n>>}) \cup {<<p, n>>}
           T2 == IF <<n, p>> \in L THEN T1 ELSE Started(T1, n, p)
           Adj(x, y) == <<x, y>> \in L \/ <<y, x>> \in L
           Joint(x, y) == (x = p /\ y = n) \/ (x = n /\ y = p)
<1>1. p \in M /\ d \in M /\ n \in M /\ p # d /\ d # n /\ M \subseteq Drone
  BY DEF Ring
<1>2. \A x, y \in Drone : (<<x, y>> \in L1 \/ <<y, x>> \in L1) <=>
          Joint(x, y) \/ (Adj(x, y) /\ x # d /\ y # d)
  <2>1. \A x \in Drone : (<<x, d>> \in L => x = p) /\ (<<d, x>> \in L => x = n)
    BY <1>1 DEF Ring
  <2>2. \A x, y \in Drone : <<x, y>> \in L1 <=>
            (x = p /\ y = n) \/ (<<x, y>> \in L /\ x # d /\ y # d)
    BY <1>1, <2>1
  <2> HIDE DEF L1
  <2>3. \A x, y \in Drone : Adj(x, y) <=> Adj(y, x)
    OBVIOUS
  <2> QED BY <2>2
<1>3. \A x, y \in Drone : y \in T1[x] <=> y \in T[x] /\ ~(x \in {p, n} /\ y = d)
  BY <1>1 DEF Forgotten
<1>4. \A x, y \in Drone : y \in T2[x] <=>
          y \in T1[x] \/ (<<n, p>> \notin L /\ Joint(x, y))
  <2>1. T1 \in Told
    BY <1>1, ToldTypes
  <2>2. CASE <<n, p>> \in L
    BY <2>2
  <2>3. CASE <<n, p>> \notin L
    <3>1. T2 = Started(T1, n, p)
      BY <2>3
    <3> HIDE DEF T2
    <3> QED BY <1>1, <2>3, <3>1 DEF Started
  <2> QED BY <2>2, <2>3
<1>5. \A x \in Drone : T2[x] \subseteq Drone
  <2>1. T2 \in Told
    BY <1>1, ToldTypes
  <2> QED BY <2>1 DEF Told
<1> HIDE DEF L1, T2
<1>6. \A x \in (M \ {d}) \cap F, y \in Drone :
          <<x, y>> \in L1 \/ <<y, x>> \in L1 => y \in T2[x]
  BY <1>1, <1>2, <1>3, <1>4 DEF Orders
<1>7. \A x \in (M \ {d}) \ D1, y \in Drone : y \in T2[x] => <<x, y>> \in L1 \/ <<y, x>> \in L1
  <2>1. \A x \in M : Adj(x, d) => x \in {p, n}
    BY <1>1 DEF Ring
  <2> SUFFICES ASSUME NEW x \in (M \ {d}) \ D1, NEW y \in Drone, y \in T2[x], ~Joint(x, y)
               PROVE  <<x, y>> \in L1 \/ <<y, x>> \in L1
    BY <1>1, <1>2
  <2>2. y \in T1[x]
    BY <1>1, <1>4
  <2>3. Adj(x, y)
    BY <1>1, <1>3, <2>2 DEF Orders
  <2>4. y # d
    BY <1>1, <1>3, <2>1, <2>2, <2>3
  <2> QED BY <1>1, <1>2, <2>3, <2>4
<1>8. \A x \in Drone \ ((M \ {d}) \cup D1) : T2[x] = {}
  <2> SUFFICES ASSUME NEW x \in Drone, x \notin M \ {d}, x \notin D1
               PROVE  \A y \in Drone : y \notin T2[x]
    BY <1>5
  <2>1. T[x] = {} /\ x # p /\ x # n
    BY <1>1 DEF Orders
  <2> QED BY <1>3, <1>4, <2>1
<1> QED BY <1>6, <1>7, <1>8 DEF Orders, L1, T2

\* One drone leaves another.
LEMMA OrdersAlone ==
    ASSUME NEW p \in Drone, NEW d \in Drone, p # d,
           NEW T \in Told, NEW F, NEW D, Orders({p, d}, {<<p, d>>, <<d, p>>}, T, F, D),
           NEW D1, D1 = D \cup (IF T[d] # {} THEN {d} ELSE {})
    PROVE  Orders({p}, {}, Forgotten(T, {p}, d), F, D1)
<1> DEFINE T1 == Forgotten(T, {p}, d)
           Adj(x, y) == <<x, y>> \in {<<p, d>>, <<d, p>>} \/ <<y, x>> \in {<<p, d>>, <<d, p>>}
<1>1. \A x, y \in Drone : y \in T1[x] <=> y \in T[x] /\ ~(x = p /\ y = d)
  BY DEF Forgotten
<1>2. \A y \in Drone : Adj(p, y) => y = d
  OBVIOUS
<1>3. \A x \in Drone : T1[x] \subseteq Drone
  BY DEF Forgotten, Told
<1> HIDE DEF T1
<1> QED BY <1>1, <1>2, <1>3 DEF Orders, T1

\* The first, the last and the second of a ring.
LEMMA OrdersFirst ==
    ASSUME NEW d \in Drone, NEW T \in Told, NEW F, NEW D, Orders({}, {}, T, F, D)
    PROVE  Orders({d}, {}, T, F \cup {d}, D)
BY DEF Orders

LEMMA OrdersLast ==
    ASSUME NEW d \in Drone, NEW T \in Told, NEW F, NEW D, Orders({d}, {}, T, F, D),
           NEW D1, D1 = D \cup (IF T[d] # {} THEN {d} ELSE {})
    PROVE  Orders({}, {}, T, F, D1)
BY DEF Orders

LEMMA OrdersSecond ==
    ASSUME NEW p \in Drone, NEW d \in Drone, p # d,
           NEW T \in Told, NEW F, NEW D, Orders({p}, {}, T, F, D)
    PROVE  Orders({p, d}, {<<d, p>>, <<p, d>>}, Started(T, d, p), F \cup {d}, D)
<1> DEFINE T1 == Started(T, d, p)
           L1 == {<<d, p>>, <<p, d>>}
<1>1. \A x, y \in Drone : y \in T1[x] <=> y \in T[x] \/ (x = p /\ y = d) \/ (x = d /\ y = p)
  BY DEF Started
<1>2. \A x, y \in Drone : <<x, y>> \in L1 <=> (x = p /\ y = d) \/ (x = d /\ y = p)
  OBVIOUS
<1>3. \A x \in Drone : T1[x] \subseteq Drone
  BY DEF Started, Told
<1> HIDE DEF T1, L1
<1> QED BY <1>1, <1>2, <1>3 DEF Orders, T1, L1

-----------------------------------------------------------------------------
(* What the operators make of a pending transaction                        *)

\* The pending transactions with these fields, of which there is one: as a set, it
\* gives every operator on transactions a lemma that says which fields it changes.
Pending(md, mn, dl, nw, p1, p2, t) ==
    [memdel : {md}, memnew : {mn}, del : {dl}, new : {nw}, ip1 : {p1}, ip2 : {p2}, told : {t}]

LEMMA BeginPending == Begin \in Pending({}, {}, {}, {}, ip1, ip2, told)
BY DEF Begin, Pending

LEMMA PendingFields ==
    ASSUME NEW md, NEW mn, NEW dl, NEW nw, NEW p1, NEW p2, NEW t,
           NEW c \in Pending(md, mn, dl, nw, p1, p2, t)
    PROVE  /\ c.memdel = md /\ c.memnew = mn /\ c.del = dl /\ c.new = nw
           /\ c.ip1 = p1 /\ c.ip2 = p2 /\ c.told = t
BY DEF Pending

LEMMA MembersPending ==
    ASSUME NEW md, NEW mn, NEW dl, NEW nw, NEW p1, NEW p2, NEW t, NEW S,
           NEW c \in Pending(md, mn, dl, nw, p1, p2, t)
    PROVE  /\ [c EXCEPT !.memdel = @ \cup S] \in Pending(md \cup S, mn, dl, nw, p1, p2, t)
           /\ [c EXCEPT !.memnew = @ \cup S] \in Pending(md, mn \cup S, dl, nw, p1, p2, t)
BY DEF Pending

LEMMA InsertAtPending ==
    ASSUME NEW md, NEW mn, NEW dl, NEW nw, NEW p1, NEW p2, NEW t, NEW q1, NEW q2,
           NEW c \in Pending(md, mn, dl, nw, p1, p2, t)
    PROVE  InsertAt(c, q1, q2) \in Pending(md, mn, dl, nw, q1, q2, t)
BY DEF InsertAt, Pending

LEMMA LinksPending ==
    ASSUME NEW md, NEW mn, NEW dl, NEW nw, NEW p1, NEW p2, NEW t, NEW links,
           NEW c \in Pending(md, mn, dl, nw, p1, p2, t)
    PROVE  /\ Relate(c, links) \in Pending(md, mn, dl, nw \cup links, p1, p2, t)
           /\ Separate(c, links) \in Pending(md, mn, dl \cup (links \cap next), nw, p1, p2, t)
BY DEF Relate, Separate, Pending

LEMMA HeartbeatPending ==
    ASSUME NEW md, NEW mn, NEW dl, NEW nw, NEW p1, NEW p2, NEW t, NEW d, NEW S,
           NEW c \in Pending(md, mn, dl, nw, p1, p2, t)
    PROVE  /\ StartHeartbeat(c, d, S) \in Pending(md, mn, dl, nw, p1, p2, [t EXCEPT ![d] = @ \cup S])
           /\ StopHeartbeat(c, d, S) \in Pending(md, mn, dl, nw, p1, p2, [t EXCEPT ![d] = @ \ S])
BY DEF StartHeartbeat, StopHeartbeat, Pending

LEMMA StartBothPending ==
    ASSUME NEW md, NEW mn, NEW dl, NEW nw, NEW p1, NEW p2, NEW t \in Told,
           NEW a \in Drone, NEW b \in Drone, a # b,
           NEW c \in Pending(md, mn, dl, nw, p1, p2, t)
    PROVE  StartBoth(c, a, b) \in Pending(md, mn, dl, nw, p1, p2, Started(t, a, b))
<1> DEFINE t1 == [t EXCEPT ![a] = @ \cup {b}]
           t2 == [t1 EXCEPT ![b] = @ \cup {a}]
<1>1. t2 = Started(t, a, b)
  BY DEF Started, Told
<1>2. StartHeartbeat(c, a, {b}) \in Pending(md, mn, dl, nw, p1, p2, t1)
  BY HeartbeatPending
<1> HIDE DEF t1
<1>3. StartBoth(c, a, b) \in Pending(md, mn, dl, nw, p1, p2, t2)
  BY <1>2, HeartbeatPending DEF StartBoth
<1> QED BY <1>1, <1>3

LEMMA StopBothPending ==
    ASSUME NEW md, NEW mn, NEW dl, NEW nw, NEW p1, NEW p2, NEW t \in Told,
           NEW a \in Drone, NEW b \in Drone, a # b,
           NEW c \in Pending(md, mn, dl, nw, p1, p2, t)
    PROVE  StopBoth(c, a, b) \in Pending(md, mn, dl, nw, p1, p2, Parted(t, a, b))
<1> DEFINE t1 == [t EXCEPT ![a] = @ \ {b}]
           t2 == [t1 EXCEPT ![b] = @ \ {a}]
<1>1. t2 = Parted(t, a, b)
  BY DEF Parted, Told
<1>2. StopHeartbeat(c, a, {b}) \in Pending(md, mn, dl, nw, p1, p2, t1)
  BY HeartbeatPending
<1> HIDE DEF t1
<1>3. StopBoth(c, a, b) \in Pending(md, mn, dl, nw, p1, p2, t2)
  BY <1>2, HeartbeatPending DEF StopBoth
<1> QED BY <1>1, <1>3

LEMMA FarewellPending ==
    ASSUME NEW md, NEW mn, NEW dl, NEW nw, NEW p1, NEW p2, NEW t, NEW S, NEW d,
           NEW c \in Pending(md, mn, dl, nw, p1, p2, t)
    PROVE  Farewell(c, S, d) \in Pending(md, mn, dl, nw, p1, p2, Forgotten(t, S, d))
<1> DEFINE t1 == [x \in Drone |-> IF x \in S THEN c.told[x] \ {d} ELSE c.told[x]]
<1>1. t1 = Forgotten(t, S, d)
  BY DEF Forgotten, Pending
<1> HIDE DEF t1
<1>2. [c EXCEPT !.told = t1] \in Pending(md, mn, dl, nw, p1, p2, t1)
  BY DEF Pending
<1>3. Farewell(c, S, d) = [c EXCEPT !.told = t1]
  BY DEF Farewell, t1
<1> QED BY <1>1, <1>2, <1>3

-----------------------------------------------------------------------------
(* Neighbours as the database has them before the transaction              *)

LEMMA NextIs ==
    ASSUME members \subseteq Drone, Ring(members, next), NEW d, NEW x, <<d, x>> \in next
    PROVE  NextNode(d) = x
<1>1. {y \in Drone : <<d, y>> \in next} = {x}
  <2>1. x \in Drone /\ \A y : <<d, y>> \in next => y = x
    BY DEF Ring
  <2> QED BY <2>1
<1>2. (CHOOSE y \in {x} : TRUE) = x
  OBVIOUS
<1> QED BY <1>1, <1>2 DEF NextNode, First

LEMMA PrevIs ==
    ASSUME members \subseteq Drone, Ring(members, next), NEW d, NEW x, <<x, d>> \in next
    PROVE  PrevNode(d) = x
<1>1. {y \in Drone : <<y, d>> \in next} = {x}
  <2>1. x \in Drone /\ \A y : <<y, d>> \in next => y = x
    BY DEF Ring
  <2> QED BY <2>1
<1>2. (CHOOSE y \in {x} : TRUE) = x
  OBVIOUS
<1> QED BY <1>1, <1>2 DEF PrevNode, First

LEMMA NoNeighbour ==
    ASSUME NEW d, next = {}
    PROVE  NextNode(d) = NoDrone /\ PrevNode(d) = NoDrone
BY DEF NextNode, PrevNode, First

LEMMA NextLinked ==
    ASSUME NEW d, NextNode(d) # NoDrone
    PROVE  <<d, NextNode(d)>> \in next /\ NextNode(d) \in Drone
<1> DEFINE S == {x \in Drone : <<d, x>> \in next}
<1>1. S # {} /\ NextNode(d) = CHOOSE x \in S : TRUE
  BY DEF NextNode, First
<1>2. NextNode(d) \in S
  BY <1>1
<1> QED BY <1>2

\* In a ring, the next drone is the one that is linked.
LEMMA NextIff ==
    ASSUME members \subseteq Drone, Ring(members, next), NEW d \in Drone, NEW x \in Drone
    PROVE  NextNode(d) = x <=> <<d, x>> \in next
<1>1. ASSUME NextNode(d) = x PROVE <<d, x>> \in next
  BY <1>1, NextLinked, DroneAssumption
<1>2. ASSUME <<d, x>> \in next PROVE NextNode(d) = x
  BY <1>2, NextIs
<1> QED BY <1>1, <1>2

-----------------------------------------------------------------------------
(* leave                                                                   *)

\* The insert points a and b fit the ring.
Fit(M, L, a, b) ==
    \/ M = {} /\ a = NoDrone /\ b = NoDrone
    \/ M = {a} /\ b = NoDrone
    \/ <<a, b>> \in L

\* All there is to say of a ring, its insert points and the orders.
Good(M, L, a, b, T, F, D) ==
    M \in SUBSET Drone /\ T \in Told /\ Ring(M, L) /\ Fit(M, L, a, b) /\ Orders(M, L, T, F, D)

\* ... and of the ring that a transaction will leave.
GoodAfter(c, F, D) ==
    Good((members \ c.memdel) \cup c.memnew, (next \ c.del) \cup c.new, c.ip1, c.ip2, c.told, F, D)

\* A ring with one member has no links, one with more has a neighbour on each side.
LEMMA RingSides ==
    ASSUME NEW M, NEW L, Ring(M, L), NEW d \in M
    PROVE  \/ M = {d} /\ L = {}
           \/ \E p, n \in M : <<p, d>> \in L /\ <<d, n>> \in L /\ p # d /\ n # d
<1>1. CASE M = {d}
  BY <1>1 DEF Ring
<1>2. CASE M # {d}
  <2>1. PICK e \in M : e # d
    BY <1>2
  <2>2. PICK p, n \in M : <<d, n>> \in L /\ <<p, d>> \in L
    BY <2>1 DEF Ring
  <2> QED BY <2>2 DEF Ring
<1> QED BY <1>1, <1>2

\* r is the transaction in which d leaves, of a ring that d is alone in, that p and
\* d make up, or in which d is between p and n.
LeavesNobody(d, T, r) ==
    /\ members = {d} /\ next = {}
    /\ r \in Pending({d}, {}, {}, {}, NoDrone, NoDrone, T)

LeavesOne(p, d, T, r) ==
    /\ p # d /\ members = {p, d} /\ next = {<<p, d>>, <<d, p>>}
    /\ r \in Pending({d}, {}, next, {}, p, NoDrone, Forgotten(T, {p}, d))

LeavesTwo(p, d, n, T, r) ==
    /\ p # n /\ p # d /\ n # d /\ <<p, d>> \in next /\ <<d, n>> \in next
    /\ r \in Pending({d}, {}, {<<p, d>>, <<d, n>>}, {<<p, n>>}, p, n,
                     IF <<n, p>> \in next THEN Forgotten(T, {p, n}, d)
                     ELSE Started(Forgotten(T, {p, n}, d), n, p))

LEMMA LeaveCases ==
    ASSUME NEW T \in Told, NEW c \in Pending({}, {}, {}, {}, ip1, ip2, T), NEW d \in members,
           members \subseteq Drone, Ring(members, next),
           NEW r, r = Leave(c, d)
    PROVE  \/ LeavesNobody(d, T, r)
           \/ \E p \in members : LeavesOne(p, d, T, r)
           \/ \E p, n \in members : LeavesTwo(p, d, n, T, r)
<1> DEFINE prev == PrevNode(d)
           nxt == NextNode(d)
           c1 == [c EXCEPT !.memdel = @ \cup {d}]
           s  == Separate(c1, {<<prev, d>>, <<d, nxt>>})
           c2 == Farewell(s, {prev, nxt}, d)
<1>1. r = CASE prev = NoDrone /\ nxt = NoDrone -> InsertAt(c1, NoDrone, NoDrone)
            [] prev = nxt /\ nxt # NoDrone     -> LeftAlone(c2, prev)
            [] prev # nxt                      -> CloseGap(c2, prev, nxt)
  BY DEF Leave
<1> HIDE DEF prev, nxt, c1
<1>2. c1 \in Pending({d}, {}, {}, {}, ip1, ip2, T)
  <2>1. c1 \in Pending({} \cup {d}, {}, {}, {}, ip1, ip2, T)
    BY MembersPending DEF c1
  <2> QED BY <2>1
<1>3. c2 \in Pending({d}, {}, {<<prev, d>>, <<d, nxt>>} \cap next, {}, ip1, ip2,
                     Forgotten(T, {prev, nxt}, d))
  <2>1. s \in Pending({d}, {}, {} \cup ({<<prev, d>>, <<d, nxt>>} \cap next), {}, ip1, ip2, T)
    BY <1>2, LinksPending
  <2>2. {} \cup ({<<prev, d>>, <<d, nxt>>} \cap next) = {<<prev, d>>, <<d, nxt>>} \cap next
    OBVIOUS
  <2> HIDE DEF s
  <2> QED BY <2>1, <2>2, FarewellPending
<1> HIDE DEF c2
<1>4. CASE members = {d} /\ next = {}
  <2>1. prev = NoDrone /\ nxt = NoDrone
    BY <1>4, NoNeighbour DEF prev, nxt
  <2>2. r = InsertAt(c1, NoDrone, NoDrone)
    BY <1>1, <2>1
  <2> QED BY <1>2, <1>4, <2>2, InsertAtPending DEF LeavesNobody
<1>5. ASSUME NEW p \in members, NEW n \in members, <<p, d>> \in next, <<d, n>> \in next, p # d, n # d
      PROVE  LeavesOne(p, d, T, r) \/ LeavesTwo(p, d, n, T, r)
  <2>1. prev = p /\ nxt = n /\ p \in Drone /\ n \in Drone /\ d \in Drone /\ p # NoDrone /\ n # NoDrone
    BY <1>5, PrevIs, NextIs, DroneAssumption DEF prev, nxt
  <2>2. {<<prev, d>>, <<d, nxt>>} \cap next = {<<p, d>>, <<d, n>>}
    BY <1>5, <2>1
  <2>3. CASE p = n
    <3>1. members = {p, d} /\ next = {<<p, d>>, <<d, p>>}
      BY <1>5, <2>3, RingAlone
    <3>2. r = InsertAt(c2, p, NoDrone)
      BY <1>1, <2>1, <2>3 DEF LeftAlone
    <3>3. c2 \in Pending({d}, {}, next, {}, ip1, ip2, Forgotten(T, {p}, d))
      <4>1. {prev, nxt} = {p}
        BY <2>1, <2>3
      <4>2. {<<prev, d>>, <<d, nxt>>} \cap next = next
        BY <2>2, <2>3, <3>1
      <4> QED BY <1>3, <4>1, <4>2
    <3>4. r \in Pending({d}, {}, next, {}, p, NoDrone, Forgotten(T, {p}, d))
      BY <3>2, <3>3, InsertAtPending
    <3> QED BY <1>5, <3>1, <3>4 DEF LeavesOne
  <2>4. CASE p # n
    <3> DEFINE F == Forgotten(T, {p, n}, d)
               G == IF <<n, p>> \in next THEN F ELSE Started(F, n, p)
               dl == {<<p, d>>, <<d, n>>}
               c3 == IF NextNode(n) # p THEN StartBoth(c2, n, p) ELSE c2
               c4 == InsertAt(c3, p, n)
    <3>1. c2 \in Pending({d}, {}, dl, {}, ip1, ip2, F)
      BY <1>3, <2>1, <2>2
    <3>2. r = Relate(c4, {<<p, n>>})
      <4>1. r = CloseGap(c2, p, n)
        BY <1>1, <2>1, <2>4
      <4> QED BY <4>1 DEF CloseGap
    <3>3. F \in Told
      BY <2>1, ToldTypes
    <3>4. NextNode(n) = p <=> <<n, p>> \in next
      BY <2>1, NextIff
    <3> HIDE DEF F, dl
    <3>5. c3 \in Pending({d}, {}, dl, {}, ip1, ip2, G)
      <4>1. CASE <<n, p>> \in next
        BY <3>1, <3>4, <4>1
      <4>2. CASE <<n, p>> \notin next
        <5>1. StartBoth(c2, n, p) \in Pending({d}, {}, dl, {}, ip1, ip2, Started(F, n, p))
          BY <2>1, <2>4, <3>1, <3>3, StartBothPending
        <5> QED BY <3>4, <4>2, <5>1
      <4> QED BY <4>1, <4>2
    <3> HIDE DEF c3, G
    <3>6. c4 \in Pending({d}, {}, dl, {}, p, n, G)
      BY <3>5, InsertAtPending
    <3> HIDE DEF c4
    <3>7. Relate(c4, {<<p, n>>}) \in Pending({d}, {}, dl, {} \cup {<<p, n>>}, p, n, G)
      BY <3>6, LinksPending
    <3>8. {} \cup {<<p, n>>} = {<<p, n>>}
      OBVIOUS
    <3>9. r \in Pending({d}, {}, dl, {<<p, n>>}, p, n, G)
      BY <3>2, <3>7, <3>8
    <3> QED BY <1>5, <2>4, <3>9 DEF dl, F, G, LeavesTwo
  <2> QED BY <2>3, <2>4
<1>6. CASE \E p, n \in members : <<p, d>> \in next /\ <<d, n>> \in next /\ p # d /\ n # d
  BY <1>5, <1>6
<1> QED BY <1>4, <1>6, RingSides

\* What leave leaves is a ring again.
LEMMA LeaveGood ==
    ASSUME NEW T \in Told, NEW c \in Pending({}, {}, {}, {}, ip1, ip2, T), NEW d \in members,
           NEW F, NEW D, Good(members, next, ip1, ip2, T, F, D),
           NEW D1, D1 = D \cup (IF T[d] # {} THEN {d} ELSE {}),
           NEW r, r = Leave(c, d)
    PROVE  GoodAfter(r, F, D1)
<1>1. members \in SUBSET Drone /\ d \in Drone /\ Ring(members, next) /\ Orders(members, next, T, F, D)
  BY DEF Good
<1>2. CASE LeavesNobody(d, T, r)
  <2>1. /\ (members \ r.memdel) \cup r.memnew = {}
        /\ (next \ r.del) \cup r.new = {}
        /\ r.ip1 = NoDrone /\ r.ip2 = NoDrone /\ r.told = T
    BY <1>2, PendingFields DEF LeavesNobody
  <2>2. Orders({}, {}, T, F, D1)
    BY <1>1, <1>2, OrdersLast DEF LeavesNobody
  <2>3. Good({}, {}, NoDrone, NoDrone, T, F, D1)
    BY <2>2, NoRing DEF Good, Fit
  <2> QED BY <2>1, <2>3 DEF GoodAfter
<1>3. ASSUME NEW p \in members, LeavesOne(p, d, T, r)
      PROVE  GoodAfter(r, F, D1)
  <2> USE <1>3 DEF LeavesOne
  <2>1. r.memdel = {d} /\ r.memnew = {} /\ r.del = next /\ r.new = {}
        /\ r.ip1 = p /\ r.ip2 = NoDrone /\ r.told = Forgotten(T, {p}, d)
    BY <1>3, PendingFields
  <2>2. (members \ r.memdel) \cup r.memnew = {p} /\ (next \ r.del) \cup r.new = {}
    BY <1>3, <2>1
  <2>3. Forgotten(T, {p}, d) \in Told
    BY <1>1, ToldTypes
  <2>4. Orders({p}, {}, Forgotten(T, {p}, d), F, D1)
    <3>1. Orders({p, d}, {<<p, d>>, <<d, p>>}, T, F, D)
      BY <1>1, <1>3
    <3> QED BY <1>1, <1>3, <3>1, OrdersAlone
  <2>5. Good({p}, {}, p, NoDrone, Forgotten(T, {p}, d), F, D1)
    BY <1>1, <2>3, <2>4, RingOfOne DEF Good, Fit
  <2> QED BY <2>1, <2>2, <2>5 DEF GoodAfter
<1>4. ASSUME NEW p \in members, NEW n \in members, LeavesTwo(p, d, n, T, r)
      PROVE  GoodAfter(r, F, D1)
  <2> USE <1>4 DEF LeavesTwo
  <2> DEFINE M1 == members \ {d}
             L1 == (next \ {<<p, d>>, <<d, n>>}) \cup {<<p, n>>}
             T1 == Forgotten(T, {p, n}, d)
             T2 == IF <<n, p>> \in next THEN T1 ELSE Started(T1, n, p)
  <2>1. r.memdel = {d} /\ r.memnew = {} /\ r.del = {<<p, d>>, <<d, n>>} /\ r.new = {<<p, n>>}
        /\ r.ip1 = p /\ r.ip2 = n /\ r.told = T2
    BY <1>4, PendingFields
  <2>2. (members \ r.memdel) \cup r.memnew = M1 /\ (next \ r.del) \cup r.new = L1
    BY <2>1
  <2>3. T2 \in Told
    <3>1. T1 \in Told
      BY <1>1, <1>4, ToldTypes
    <3> QED BY <1>1, <1>4, <3>1, ToldTypes
  <2>4. Orders(M1, L1, T2, F, D1)
    BY <1>1, <1>4, OrdersRemove
  <2>5. Ring(M1, L1)
    BY <1>1, <1>4, RingRemove
  <2>6. <<p, n>> \in L1 /\ M1 \in SUBSET Drone
    BY <1>1
  <2> HIDE DEF M1, L1, T2
  <2>7. Good(M1, L1, p, n, T2, F, D1)
    BY <2>3, <2>4, <2>5, <2>6 DEF Good, Fit
  <2> QED BY <2>1, <2>2, <2>7 DEF GoodAfter
<1> QED BY <1>1, <1>2, <1>3, <1>4, LeaveCases

-----------------------------------------------------------------------------
(* join                                                                    *)

\* join, once the drone is not a member (any more).
Enter(c, d) ==
    LET c2 == [c EXCEPT !.memnew = @ \cup {d}]
    IN  CASE c2.ip1 = NoDrone                        -> InsertAt(c2, d, NoDrone)
          [] c2.ip1 # NoDrone /\ c2.ip2 = NoDrone    -> InsertSecond(c2, d)
          [] c2.ip1 # NoDrone /\ c2.ip2 # NoDrone    -> InsertBetween(MoveDown(c2), d)

LEMMA JoinEnters ==
    ASSUME NEW c, NEW d
    PROVE  Join(c, d) = Enter(LeaveFirst(c, d), d)
BY DEF Join, Enter

\* d goes between a and b, which the database has as neighbours.
LEMMA InsertBetweenGood ==
    ASSUME NEW M \in SUBSET Drone, NEW L, NEW d \in Drone \ M, NEW F, NEW D,
           NEW md, NEW dl, NEW nw, M = members \ md, L = (next \ dl) \cup nw,
           NEW a, NEW b, <<a, b>> \in next, <<a, b>> \in L, <<a, b>> \notin nw,
           Ring(M, L), NEW T \in Told, Orders(M, L, T, F, D),
           NEW T1, T1 = IF <<b, a>> \in L THEN T ELSE Parted(T, a, b),
           NEW c \in Pending(md, {d}, dl, nw, a, b, T1)
    PROVE  GoodAfter(InsertBetween(c, d), F \cup {d}, D)
<1> DEFINE M1 == M \cup {d}
           L1 == (L \ {<<a, b>>}) \cup {<<a, d>>, <<d, b>>}
           T2 == Started(T1, d, a)
           T3 == Started(T2, d, b)
           c1 == Separate(c, {<<a, b>>})
           c2 == StartBoth(c1, d, a)
           c3 == StartBoth(c2, d, b)
           c4 == Relate(c3, {<<a, d>>, <<d, b>>})
           c5 == InsertAt(c4, d, b)
<1>1. a \in Drone /\ b \in Drone /\ a # b /\ d # a /\ d # b
  BY DEF Ring
<1>2. T1 \in Told /\ T2 \in Told /\ T3 \in Told
  <2>1. T1 \in Told
    BY <1>1, ToldTypes
  <2>2. T2 \in Told
    BY <1>1, <2>1, ToldTypes
  <2> HIDE DEF T2
  <2>3. T3 \in Told
    BY <1>1, <2>2, ToldTypes
  <2> QED BY <2>1, <2>2, <2>3
<1>3. InsertBetween(c, d) = c5
  <2>1. c.ip1 = a /\ c.ip2 = b
    BY PendingFields
  <2> QED BY <2>1 DEF InsertBetween
<1>4. Orders(M1, L1, T3, F \cup {d}, D)
  BY OrdersInsert
<1>5. Ring(M1, L1)
  BY RingInsert
<1> HIDE DEF T2, T3, c1, c2, c3, c4, c5
<1>6. c1 \in Pending(md, {d}, dl \cup {<<a, b>>}, nw, a, b, T1)
  <2>1. c1 \in Pending(md, {d}, dl \cup ({<<a, b>>} \cap next), nw, a, b, T1)
    BY LinksPending DEF c1
  <2>2. {<<a, b>>} \cap next = {<<a, b>>}
    OBVIOUS
  <2> QED BY <2>1, <2>2
<1>7. c2 \in Pending(md, {d}, dl \cup {<<a, b>>}, nw, a, b, T2)
  BY <1>1, <1>2, <1>6, StartBothPending DEF c2, T2
<1>8. c3 \in Pending(md, {d}, dl \cup {<<a, b>>}, nw, a, b, T3)
  BY <1>1, <1>2, <1>7, StartBothPending DEF c3, T3
<1>9. c4 \in Pending(md, {d}, dl \cup {<<a, b>>}, nw \cup {<<a, d>>, <<d, b>>}, a, b, T3)
  BY <1>8, LinksPending DEF c4
<1>10. c5 \in Pending(md, {d}, dl \cup {<<a, b>>}, nw \cup {<<a, d>>, <<d, b>>}, d, b, T3)
  BY <1>9, InsertAtPending DEF c5
<1>11. /\ c5.memdel = md /\ c5.memnew = {d} /\ c5.del = dl \cup {<<a, b>>}
       /\ c5.new = nw \cup {<<a, d>>, <<d, b>>}
       /\ c5.ip1 = d /\ c5.ip2 = b /\ c5.told = T3
  BY <1>10, PendingFields
<1>12. (members \ md) \cup {d} = M1
  OBVIOUS
<1>13. (next \ (dl \cup {<<a, b>>})) \cup (nw \cup {<<a, d>>, <<d, b>>}) = L1
  OBVIOUS
<1>14. M1 \in SUBSET Drone /\ <<d, b>> \in L1
  OBVIOUS
<1> HIDE DEF M1, L1
<1>15. Good(M1, L1, d, b, T3, F \cup {d}, D)
  BY <1>2, <1>4, <1>5, <1>14 DEF Good, Fit
<1> QED BY <1>3, <1>11, <1>12, <1>13, <1>15 DEF GoodAfter

\* The insert point moves between b and the drone that the database has after it,
\* unless those are the insert points already.
LEMMA EnterBetweenGood ==
    ASSUME NEW M \in SUBSET Drone, NEW L, NEW d \in Drone \ M, NEW F, NEW D,
           NEW md, NEW dl, NEW nw, M = members \ md, L = (next \ dl) \cup nw,
           NEW a, NEW b, <<a, b>> \in L,
           NEW n, NextNode(b) = n, <<b, n>> \in next, <<b, n>> \in L,
           n = a => <<a, b>> \in next /\ <<a, b>> \notin nw,
           n # a => <<b, n>> \notin nw,
           Ring(M, L), NEW T \in Told, Orders(M, L, T, F, D),
           NEW c \in Pending(md, {d}, dl, nw, a, b, T)
    PROVE  GoodAfter(InsertBetween(MoveDown(c), d), F \cup {d}, D)
<1>1. a \in Drone /\ b \in Drone /\ n \in Drone /\ a # b /\ b # n
  BY DEF Ring
<1>2. c.ip1 = a /\ c.ip2 = b
  BY PendingFields
<1>3. CASE n = a
  <2>1. MoveDown(c) = c
    BY <1>2, <1>3 DEF MoveDown
  <2>2. <<b, a>> \in L
    BY <1>3
  <2>3. T = IF <<b, a>> \in L THEN T ELSE Parted(T, a, b)
    BY <2>2
  <2>4. GoodAfter(InsertBetween(c, d), F \cup {d}, D)
    BY <1>3, <2>3, InsertBetweenGood
  <2> QED BY <2>1, <2>4
<1>4. CASE n # a
  <2> DEFINE c1 == InsertAt(c, b, n)
             c2 == StopBoth(c1, b, n)
  <2>1. MoveDown(c) = c2
    BY <1>1, <1>2, <1>4, DroneAssumption DEF MoveDown
  <2>2. c1 \in Pending(md, {d}, dl, nw, b, n, T)
    BY InsertAtPending
  <2> HIDE DEF c1
  <2>3. c2 \in Pending(md, {d}, dl, nw, b, n, Parted(T, b, n))
    BY <1>1, <2>2, StopBothPending
  <2> HIDE DEF c2
  <2>4. <<n, b>> \notin L
    BY <1>4 DEF Ring
  <2>5. Parted(T, b, n) = IF <<n, b>> \in L THEN T ELSE Parted(T, b, n)
    BY <2>4
  <2>6. <<b, n>> \notin nw
    BY <1>4
  <2>7. GoodAfter(InsertBetween(c2, d), F \cup {d}, D)
    <3> DEFINE U == Parted(T, b, n)
    <3>1. U = IF <<n, b>> \in L THEN T ELSE Parted(T, b, n)
      BY <2>5
    <3>2. c2 \in Pending(md, {d}, dl, nw, b, n, U)
      BY <2>3
    <3> HIDE DEF U
    <3> QED BY <2>6, <3>1, <3>2, InsertBetweenGood
  <2> QED BY <2>1, <2>7
<1> QED BY <1>3, <1>4

\* What join makes of a ring that d is not a member (any more) is a ring again: if
\* there are two members to go between, the database must not mislead it.
LEMMA EnterGood ==
    ASSUME NEW M, NEW L, NEW d \in Drone \ M, NEW F, NEW D,
           NEW md, NEW dl, NEW nw, M = members \ md, L = (next \ dl) \cup nw,
           NEW a, NEW b, NEW T, Good(M, L, a, b, T, F, D),
           <<a, b>> \in L => LET n == NextNode(b) IN
               /\ <<b, n>> \in next /\ <<b, n>> \in L
               /\ n = a => <<a, b>> \in next /\ <<a, b>> \notin nw
               /\ n # a => <<b, n>> \notin nw,
           NEW c \in Pending(md, {}, dl, nw, a, b, T)
    PROVE  GoodAfter(Enter(c, d), F \cup {d}, D)
<1> DEFINE c2 == [c EXCEPT !.memnew = @ \cup {d}]
<1>1. c2 \in Pending(md, {d}, dl, nw, a, b, T)
  <2>1. c2 \in Pending(md, {} \cup {d}, dl, nw, a, b, T)
    BY MembersPending
  <2>2. {} \cup {d} = {d}
    OBVIOUS
  <2> QED BY <2>1, <2>2
<1>2. Enter(c, d) = CASE c2.ip1 = NoDrone                     -> InsertAt(c2, d, NoDrone)
                      [] c2.ip1 # NoDrone /\ c2.ip2 = NoDrone -> InsertSecond(c2, d)
                      [] c2.ip1 # NoDrone /\ c2.ip2 # NoDrone -> InsertBetween(MoveDown(c2), d)
  BY DEF Enter
<1> HIDE DEF c2
<1>3. c2.ip1 = a /\ c2.ip2 = b
  BY <1>1, PendingFields
<1>4. M \in SUBSET Drone /\ T \in Told /\ Ring(M, L) /\ Fit(M, L, a, b) /\ Orders(M, L, T, F, D)
  BY DEF Good
<1>5. CASE M = {} /\ a = NoDrone /\ b = NoDrone
  <2>1. Enter(c, d) = InsertAt(c2, d, NoDrone)
    BY <1>2, <1>3, <1>5
  <2>2. Enter(c, d) \in Pending(md, {d}, dl, nw, d, NoDrone, T)
    BY <1>1, <2>1, InsertAtPending
  <2> DEFINE r == Enter(c, d)
  <2> HIDE DEF r
  <2>3. r.memdel = md /\ r.memnew = {d} /\ r.del = dl /\ r.new = nw
        /\ r.ip1 = d /\ r.ip2 = NoDrone /\ r.told = T
    BY <2>2, PendingFields DEF r
  <2>4. L = {}
    BY <1>4, <1>5 DEF Ring
  <2>5. Orders({d}, {}, T, F \cup {d}, D)
    BY <1>4, <1>5, <2>4, OrdersFirst
  <2>6. Good({d}, {}, d, NoDrone, T, F \cup {d}, D)
    BY <1>4, <2>5, RingOfOne DEF Good, Fit
  <2>7. (members \ md) \cup {d} = {d} /\ (next \ dl) \cup nw = {}
    BY <1>5, <2>4
  <2>8. GoodAfter(r, F \cup {d}, D)
    BY <2>3, <2>6, <2>7 DEF GoodAfter
  <2> QED BY <2>8 DEF r
<1>6. CASE M = {a} /\ b = NoDrone
  <2> DEFINE t1 == Started(T, d, a)
             c3 == StartBoth(c2, d, a)
             c4 == Relate(c3, {<<d, a>>, <<a, d>>})
             c5 == InsertAt(c4, d, a)
             L1 == {<<d, a>>, <<a, d>>}
  <2>1. a \in Drone /\ a # d /\ a # NoDrone /\ t1 \in Told
    <3>1. a \in Drone /\ a # d
      BY <1>4, <1>6
    <3> QED BY <1>4, <3>1, DroneAssumption, ToldTypes
  <2>2. Enter(c, d) = c5
    <3>1. Enter(c, d) = InsertSecond(c2, d)
      BY <1>2, <1>3, <1>6, <2>1
    <3> QED BY <1>3, <3>1 DEF InsertSecond
  <2>3. L = {}
    BY <1>4, <1>6 DEF Ring
  <2>4. Orders({a, d}, L1, t1, F \cup {d}, D)
    BY <1>4, <1>6, <2>1, <2>3, OrdersSecond
  <2>5. Ring({d, a}, L1)
    BY <2>1, RingOfTwo
  <2> HIDE DEF t1, c3, c4, c5
  <2>6. c3 \in Pending(md, {d}, dl, nw, a, b, t1)
    BY <1>1, <1>4, <2>1, StartBothPending DEF c3, t1
  <2>7. c4 \in Pending(md, {d}, dl, nw \cup L1, a, b, t1)
    BY <2>6, LinksPending DEF c4
  <2>8. c5 \in Pending(md, {d}, dl, nw \cup L1, d, a, t1)
    BY <2>7, InsertAtPending DEF c5
  <2>9. c5.memdel = md /\ c5.memnew = {d} /\ c5.del = dl /\ c5.new = nw \cup L1
        /\ c5.ip1 = d /\ c5.ip2 = a /\ c5.told = t1
    BY <2>8, PendingFields
  <2>10. {a, d} = {d, a} /\ <<d, a>> \in L1 /\ {d, a} \in SUBSET Drone
    BY <2>1
  <2>11. (members \ md) \cup {d} = {d, a} /\ (next \ dl) \cup (nw \cup L1) = L1
    BY <1>6, <2>3
  <2> HIDE DEF L1
  <2>12. Good({d, a}, L1, d, a, t1, F \cup {d}, D)
    BY <2>1, <2>4, <2>5, <2>10 DEF Good, Fit
  <2> QED BY <2>2, <2>9, <2>11, <2>12 DEF GoodAfter
<1>7. CASE <<a, b>> \in L
  <2>1. a \in Drone /\ b \in Drone /\ a # NoDrone /\ b # NoDrone
    BY <1>4, <1>7, DroneAssumption DEF Ring
  <2>2. Enter(c, d) = InsertBetween(MoveDown(c2), d)
    BY <1>2, <1>3, <2>1
  <2> DEFINE n == NextNode(b)
  <2>3. /\ <<b, n>> \in next /\ <<b, n>> \in L
        /\ n = a => <<a, b>> \in next /\ <<a, b>> \notin nw
        /\ n # a => <<b, n>> \notin nw
    BY <1>7
  <2>4. NextNode(b) = n
    OBVIOUS
  <2> HIDE DEF n
  <2>5. GoodAfter(InsertBetween(MoveDown(c2), d), F \cup {d}, D)
    BY <1>1, <1>4, <1>7, <2>3, <2>4, EnterBetweenGood
  <2> QED BY <2>2, <2>5
<1> QED BY <1>4, <1>5, <1>6, <1>7 DEF Fit

\* A drone whose neighbours are two and neighbours of each other is in a ring of three.
LEMMA RingOfThree ==
    ASSUME NEW M, NEW L, Ring(M, L), NEW p, NEW d, NEW n, p # n,
           <<p, d>> \in L, <<d, n>> \in L, <<n, p>> \in L
    PROVE  Cardinality(M) = 3
<1>1. p \in M /\ d \in M /\ n \in M /\ p # d /\ d # n
  BY DEF Ring
<1>2. \A x \in {p, d, n}, y \in M : <<x, y>> \in L => y \in {p, d, n}
  BY <1>1 DEF Ring
<1>3. {p, d, n} \in SUBSET M /\ {p, d, n} # {}
  BY <1>1
<1>4. {p, d, n} = M
  BY <1>2, <1>3 DEF Ring
<1>5. IsFiniteSet({p}) /\ Cardinality({p}) = 1
  BY FS_Singleton
<1>6. {p} \cup {d} = {p, d} /\ d \notin {p}
  BY <1>1
<1>7. IsFiniteSet({p, d}) /\ Cardinality({p, d}) = 2
  <2>1. IsFiniteSet({p} \cup {d}) /\ Cardinality({p} \cup {d}) = 1 + 1
    BY <1>5, <1>6, FS_AddElement
  <2> QED BY <1>6, <2>1
<1>8. {p, d} \cup {n} = {p, d, n} /\ n \notin {p, d}
  BY <1>1
<1>9. Cardinality({p, d} \cup {n}) = 2 + 1
  BY <1>7, <1>8, FS_AddElement
<1> QED BY <1>4, <1>8, <1>9

\* Fewer or more orders of which nothing is said.
LEMMA OrdersWeaken ==
    ASSUME NEW M, NEW L, NEW T, NEW F, NEW D, Orders(M, L, T, F, D),
           NEW F1, F1 \subseteq F, NEW D1, D \subseteq D1
    PROVE  Orders(M, L, T, F1, D1)
BY DEF Orders

LEMMA GoodWeaken ==
    ASSUME NEW M, NEW L, NEW a, NEW b, NEW T, NEW F, NEW D, Good(M, L, a, b, T, F, D),
           NEW F1, F1 \subseteq F, NEW D1, D \subseteq D1
    PROVE  Good(M, L, a, b, T, F1, D1)
BY OrdersWeaken DEF Good

\* What join makes of a ring is a ring, unless it was of three and d was in it.
LEMMA JoinGood ==
    ASSUME NEW T \in Told, NEW c \in Pending({}, {}, {}, {}, ip1, ip2, T), NEW d \in Drone,
           NEW F, NEW D, Good(members, next, ip1, ip2, T, F, D),
           d \in members => Cardinality(members) # 3,
           NEW D1, D1 = D \cup (IF d \in members /\ T[d] # {} THEN {d} ELSE {})
    PROVE  GoodAfter(Join(c, d), F \cup {d}, D1)
<1>1. members \in SUBSET Drone /\ Ring(members, next)
  BY DEF Good
<1>2. CASE d \notin members
  <2>1. Join(c, d) = Enter(c, d)
    BY <1>2, JoinEnters DEF LeaveFirst
  <2>2. D1 = D
    BY <1>2
  <2>3. ASSUME <<ip1, ip2>> \in next
        PROVE  <<ip2, NextNode(ip2)>> \in next
    <3>1. ip1 \in members /\ ip2 \in members /\ ip1 # ip2
      BY <1>1, <2>3 DEF Ring
    <3>2. PICK n \in members : <<ip2, n>> \in next
      BY <1>1, <3>1 DEF Ring
    <3> QED BY <1>1, <3>2, NextIs
  <2>4. members = members \ {} /\ next = (next \ {}) \cup {}
    OBVIOUS
  <2>5. GoodAfter(Enter(c, d), F \cup {d}, D)
    <3> DEFINE e == {}
    <3>1. members = members \ e /\ next = (next \ e) \cup e
      BY <2>4
    <3>2. c \in Pending(e, {}, e, e, ip1, ip2, T)
      OBVIOUS
    <3>3. <<ip1, ip2>> \in next => LET n == NextNode(ip2) IN
               /\ <<ip2, n>> \in next
               /\ n = ip1 => <<ip1, ip2>> \in next /\ <<ip1, ip2>> \notin e
               /\ n # ip1 => <<ip2, n>> \notin e
      BY <2>3
    <3> HIDE DEF e
    <3> QED BY <1>2, <3>1, <3>2, <3>3, EnterGood
  <2> QED BY <2>1, <2>2, <2>5
<1>3. CASE d \in members
  <2> DEFINE r == Leave(c, d)
  <2>1. Join(c, d) = Enter(r, d)
    BY <1>3, JoinEnters DEF LeaveFirst
  <2>2. D1 = D \cup (IF T[d] # {} THEN {d} ELSE {})
    BY <1>3
  <2>3. GoodAfter(r, F, D1)
    BY <1>3, <2>2, LeaveGood
  <2>4. \/ LeavesNobody(d, T, r)
        \/ \E p \in members : LeavesOne(p, d, T, r)
        \/ \E p, n \in members : LeavesTwo(p, d, n, T, r)
    BY <1>1, <1>3, LeaveCases
  <2> HIDE DEF r
  <2> SUFFICES GoodAfter(Enter(r, d), F \cup {d}, D1)
    BY <2>1
  <2>5. ASSUME NEW md, NEW dl, NEW nw, NEW a, NEW b, NEW t,
               r \in Pending(md, {}, dl, nw, a, b, t), d \in md,
               <<a, b>> \in (next \ dl) \cup nw => LET n == NextNode(b) IN
                   /\ <<b, n>> \in next /\ <<b, n>> \in (next \ dl) \cup nw
                   /\ n = a => <<a, b>> \in next /\ <<a, b>> \notin nw
                   /\ n # a => <<b, n>> \notin nw
        PROVE  GoodAfter(Enter(r, d), F \cup {d}, D1)
    <3> DEFINE M == members \ md
               L == (next \ dl) \cup nw
    <3>1. r.memdel = md /\ r.memnew = {} /\ r.del = dl /\ r.new = nw
          /\ r.ip1 = a /\ r.ip2 = b /\ r.told = t
      BY <2>5, PendingFields
    <3>2. (members \ md) \cup {} = M
      OBVIOUS
    <3>3. Good(M, L, a, b, t, F, D1)
      BY <2>3, <3>1, <3>2 DEF GoodAfter
    <3>4. d \in Drone \ M
      BY <2>5
    <3>5. <<a, b>> \in L => LET n == NextNode(b) IN
              /\ <<b, n>> \in next /\ <<b, n>> \in L
              /\ n = a => <<a, b>> \in next /\ <<a, b>> \notin nw
              /\ n # a => <<b, n>> \notin nw
      BY <2>5
    <3>6. M = members \ md /\ L = (next \ dl) \cup nw
      OBVIOUS
    <3> HIDE DEF M, L
    <3> QED BY <2>5, <3>3, <3>4, <3>5, <3>6, EnterGood
  <2>6. CASE LeavesNobody(d, T, r)
    <3>1. (next \ {}) \cup {} = {}
      BY <2>6 DEF LeavesNobody
    <3> QED BY <2>5, <2>6, <3>1 DEF LeavesNobody
  <2>7. ASSUME NEW p \in members, LeavesOne(p, d, T, r)
        PROVE  GoodAfter(Enter(r, d), F \cup {d}, D1)
    <3>1. (next \ next) \cup {} = {}
      OBVIOUS
    <3> QED BY <2>5, <2>7, <3>1 DEF LeavesOne
  <2>8. ASSUME NEW p \in members, NEW n \in members, LeavesTwo(p, d, n, T, r)
        PROVE  GoodAfter(Enter(r, d), F \cup {d}, D1)
    <3> DEFINE dl == {<<p, d>>, <<d, n>>}
               t == IF <<n, p>> \in next THEN Forgotten(T, {p, n}, d)
                    ELSE Started(Forgotten(T, {p, n}, d), n, p)
               m == NextNode(n)
    <3>1. r \in Pending({d}, {}, dl, {<<p, n>>}, p, n, t)
      BY <2>8 DEF LeavesTwo
    <3>2. p # n /\ p # d /\ n # d /\ <<p, d>> \in next /\ <<d, n>> \in next
      BY <2>8 DEF LeavesTwo
    <3>3. <<n, m>> \in next
      <4>1. PICK x \in members : <<n, x>> \in next
        BY <1>1, <1>3, <3>2 DEF Ring
      <4> QED BY <1>1, <4>1, NextIs
    <3> HIDE DEF m
    <3>4. m # d
      BY <1>1, <1>3, <3>2, <3>3 DEF Ring
    <3>5. m # p
      BY <1>1, <1>3, <3>2, <3>3, RingOfThree
    <3>6. <<n, m>> \in (next \ dl) \cup {<<p, n>>} /\ <<n, m>> \notin {<<p, n>>}
      BY <3>2, <3>3, <3>4
    <3>7. LET x == NextNode(n) IN
              /\ <<n, x>> \in next /\ <<n, x>> \in (next \ dl) \cup {<<p, n>>}
              /\ x = p => <<p, n>> \in next /\ <<p, n>> \notin {<<p, n>>}
              /\ x # p => <<n, x>> \notin {<<p, n>>}
      BY <3>3, <3>5, <3>6 DEF m
    <3> HIDE DEF dl, t
    <3>8. d \in {d}
      OBVIOUS
    <3> QED BY <2>5, <3>1, <3>7, <3>8
  <2> QED BY <2>4, <2>6, <2>7, <2>8
<1> QED BY <1>2, <1>3

-----------------------------------------------------------------------------
(* The actions                                                             *)

\* The drones whose current process has joined.
Joined == {d \in Drone : lastjoin[d] = boot[d]}

\* What stays true of the insert points and the orders when the ring is torn.
Sound(M, L, a, b, T, F, D) ==
    /\ M \in SUBSET Drone /\ T \in Told /\ L \subseteq M \X M
    /\ Fit(M, L, a, b) /\ (<<a, b>> \in L => a # b)
    /\ Orders(M, L, T, F, D)

LEMMA GoodIsSound ==
    ASSUME NEW M, NEW L, NEW a, NEW b, NEW T, NEW F, NEW D
    PROVE  Good(M, L, a, b, T, F, D) <=> Sound(M, L, a, b, T, F, D) /\ Ring(M, L)
<1>1. Ring(M, L) => L \subseteq M \X M /\ (<<a, b>> \in L => a # b)
  BY DEF Ring
<1> QED BY <1>1 DEF Good, Sound

\* The inductive invariant: the types, the statuses, the insert points and orders,
\* and the ring while it is whole.
RingInv ==
    /\ boot \in [Drone -> Nat] /\ lastjoin \in [Drone -> Nat]
    /\ \A d \in Drone : lastjoin[d] <= boot[d]
    /\ graceful \in [Drone -> BOOLEAN] /\ torn \in BOOLEAN
    /\ dropped \subseteq Drone
    /\ UpInv
    /\ IsFiniteSet(members)
    /\ Sound(members, next, ip1, ip2, told, Joined, dropped)
    /\ torn \/ Ring(members, next)

\* Every action starts from a ring that is whole.
LEMMA WholeIsGood ==
    ASSUME RingInv, ~torn
    PROVE  Good(members, next, ip1, ip2, told, Joined, dropped)
BY GoodIsSound DEF RingInv

LEMMA GoodIsWhole ==
    ASSUME Good(members', next', ip1', ip2', told', Joined', dropped')
    PROVE  /\ Sound(members', next', ip1', ip2', told', Joined', dropped')
           /\ Ring(members', next')
BY GoodIsSound

LEMMA CommitGood ==
    ASSUME NEW c, NEW F, NEW D, GoodAfter(c, F, D), Commit(c), NEW F1, F1 \subseteq F, NEW D1, D \subseteq D1
    PROVE  Good(members', next', ip1', ip2', told', F1, D1)
<1>1. Good(members', next', ip1', ip2', told', F, D)
  BY DEF GoodAfter, Commit
<1> QED BY <1>1, GoodWeaken

LEMMA CommitNothing ==
    ASSUME NEW T, NEW c \in Pending({}, {}, {}, {}, ip1, ip2, T), Commit(c)
    PROVE  members' = members /\ next' = next /\ ip1' = ip1 /\ ip2' = ip2 /\ told' = T
<1>1. c.memdel = {} /\ c.memnew = {} /\ c.del = {} /\ c.new = {} /\ c.ip1 = ip1 /\ c.ip2 = ip2 /\ c.told = T
  BY PendingFields
<1> QED BY <1>1 DEF Commit

LEMMA CommitFinite ==
    ASSUME IsFiniteSet(members), NEW d, NEW T, NEW c \in Pending({}, {}, {}, {}, ip1, ip2, T),
           Commit(Join(c, d)) \/ Commit(Leave(c, d))
    PROVE  IsFiniteSet(members')
<1>1. IsContext(c) /\ c.memdel = {} /\ c.memnew = {}
  BY DEF Pending, IsContext
<1>2. members' \subseteq members \cup {d}
  <2>1. CASE Commit(Join(c, d))
    BY <1>1, <2>1, JoinMembers DEF Commit
  <2>2. CASE Commit(Leave(c, d))
    BY <1>1, <2>2, LeaveMembers DEF Commit
  <2> QED BY <2>1, <2>2
<1>3. IsFiniteSet(members \cup {d})
  BY FS_AddElement
<1> QED BY <1>2, <1>3, FS_Subset

LEMMA RingInvInit == Init => RingInv
<1> SUFFICES ASSUME Init PROVE RingInv
  OBVIOUS
<1>1. UpInv
  BY DEF Init, UpInv, UpIsMemberOrRaised
<1>2. Good(members, next, ip1, ip2, told, Joined, dropped)
  <2>1. told \in Told
    BY DEF Init, Told
  <2>2. Orders({}, {}, told, Joined, {})
    BY DEF Init, Orders
  <2> QED BY <2>1, <2>2, NoRing DEF Init, Good, Fit
<1>3. IsFiniteSet(members)
  BY FS_EmptySet DEF Init
<1>4. boot \in [Drone -> Nat] /\ lastjoin \in [Drone -> Nat]
      /\ (\A d \in Drone : lastjoin[d] <= boot[d]) /\ torn = FALSE
  BY DEF Init
<1> QED BY <1>1, <1>2, <1>3, <1>4, GoodIsSound DEF RingInv, Init

LEMMA BootRing ==
    ASSUME RingInv, UpInv', NEW d \in Drone, Boot(d)
    PROVE  RingInv'
<1>1. /\ boot' = [boot EXCEPT ![d] = @ + 1] /\ told' = [told EXCEPT ![d] = {}] /\ ~torn
      /\ dropped' = dropped \ {d}
      /\ UNCHANGED <<graceful, lastjoin, members, next, ip1, ip2, torn>>
  BY DEF Boot
<1>2. boot' \in [Drone -> Nat] /\ lastjoin' \in [Drone -> Nat]
      /\ (\A x \in Drone : lastjoin'[x] <= boot'[x])
  BY <1>1 DEF RingInv
<1>3. Joined' = Joined \ {d}
  BY <1>1 DEF Joined, RingInv
<1>4. Good(members, next, ip1, ip2, told, Joined, dropped)
  BY <1>1, WholeIsGood
<1>5. told' \in Told
  BY <1>1, <1>4 DEF Good, Told
<1>6. Orders(members, next, told', Joined', dropped')
  <2>1. \A x \in Drone : told'[x] = IF x = d THEN {} ELSE told[x]
    BY <1>1, <1>4 DEF Good, Told
  <2>2. members \subseteq Drone /\ Orders(members, next, told, Joined, dropped)
    BY <1>4 DEF Good
  <2> QED BY <1>1, <1>3, <2>1, <2>2 DEF Orders
<1>7. Good(members', next', ip1', ip2', told', Joined', dropped')
  BY <1>1, <1>4, <1>5, <1>6 DEF Good
<1> QED BY <1>1, <1>2, <1>7, GoodIsWhole DEF RingInv

\* The members of a ring of three that p and n are left of when d leaves.
LEMMA ThreeAreAll ==
    ASSUME members \in SUBSET Drone, IsFiniteSet(members), Ring(members, next),
           NEW d \in members, NEW T \in Told, NEW r, Cardinality(members) = 3,
           \/ LeavesNobody(d, T, r)
           \/ \E p \in members : LeavesOne(p, d, T, r)
           \/ \E p, n \in members : LeavesTwo(p, d, n, T, r)
    PROVE  \E p, n \in members : /\ LeavesTwo(p, d, n, T, r) /\ <<n, p>> \in next
                                  /\ members = {p, d, n}
<1>1. ASSUME NEW a, NEW b, a # b PROVE IsFiniteSet({a, b}) /\ Cardinality({a, b}) = 2
  <2>1. IsFiniteSet({a}) /\ Cardinality({a}) = 1 /\ {a} \cup {b} = {a, b} /\ b \notin {a}
    BY <1>1, FS_Singleton
  <2>2. IsFiniteSet({a} \cup {b}) /\ Cardinality({a} \cup {b}) = 1 + 1
    BY <2>1, FS_AddElement
  <2> QED BY <2>1, <2>2
<1>2. ~LeavesNobody(d, T, r)
  BY FS_Singleton DEF LeavesNobody
<1>3. ASSUME NEW p \in members PROVE ~LeavesOne(p, d, T, r)
  <2>1. p # d => Cardinality({p, d}) = 2
    BY <1>1
  <2> QED BY <2>1 DEF LeavesOne
<1>4. PICK p, n \in members : LeavesTwo(p, d, n, T, r)
  BY <1>2, <1>3
<1>5. p # n /\ p # d /\ n # d /\ <<p, d>> \in next /\ <<d, n>> \in next
  BY <1>4 DEF LeavesTwo
<1>6. members = {p, d, n}
  <2>1. {p, d} \cup {n} = {p, d, n} /\ n \notin {p, d} /\ {p, d, n} \in SUBSET members
    BY <1>5
  <2>2. IsFiniteSet({p, d}) /\ Cardinality({p, d}) = 2
    BY <1>1, <1>5
  <2>3. Cardinality({p, d} \cup {n}) = 2 + 1
    BY <2>1, <2>2, FS_AddElement
  <2>4. Cardinality({p, d, n}) = Cardinality(members)
    BY <2>1, <2>3
  <2> QED BY <2>1, <2>4, FS_Subset
<1>7. <<n, p>> \in next
  <2>1. PICK x \in members : <<n, x>> \in next
    BY <1>5 DEF Ring
  <2>2. x # n /\ x # d
    BY <1>5, <2>1 DEF Ring
  <2> QED BY <1>6, <2>1, <2>2
<1> QED BY <1>4, <1>6, <1>7

\* A member that joins anew in a ring of three tears it: the link from p to n, which
\* leave makes, stays beside those from p to d and from d to n.  The insert points and
\* the orders are not wronged by it.
LEMMA JoinTears ==
    ASSUME IsFiniteSet(members), NEW d \in members, Cardinality(members) = 3,
           NEW F, NEW D, Good(members, next, ip1, ip2, told, F, D),
           Commit(Join(Begin, d)), NEW F1, F1 \subseteq F \cup {d},
           NEW D1, D1 = D \cup (IF told[d] # {} THEN {d} ELSE {})
    PROVE  Sound(members', next', ip1', ip2', told', F1, D1)
<1> DEFINE r == Leave(Begin, d)
<1>1. members \in SUBSET Drone /\ d \in Drone /\ told \in Told /\ Ring(members, next)
      /\ Orders(members, next, told, F, D)
  BY DEF Good
<1>2. Join(Begin, d) = Enter(r, d)
  BY JoinEnters DEF LeaveFirst
<1>3. \/ LeavesNobody(d, told, r)
      \/ \E p \in members : LeavesOne(p, d, told, r)
      \/ \E p, n \in members : LeavesTwo(p, d, n, told, r)
  BY <1>1, BeginPending, LeaveCases
<1> HIDE DEF r
<1>4. PICK p, n \in members : /\ LeavesTwo(p, d, n, told, r) /\ <<n, p>> \in next
                              /\ members = {p, d, n}
  BY <1>1, <1>3, ThreeAreAll, ZenonT(40)
<1> DEFINE dl == {<<p, d>>, <<d, n>>}
           t1 == Forgotten(told, {p, n}, d)
           t2 == Started(t1, d, p)
           t3 == Started(t2, d, n)
           c2 == [r EXCEPT !.memnew = @ \cup {d}]
           s  == Separate(c2, {<<p, n>>})
           b1 == StartBoth(s, d, p)
           b2 == StartBoth(b1, d, n)
           e  == Relate(b2, {<<p, d>>, <<d, n>>})
<1>5. /\ p # n /\ p # d /\ n # d /\ <<p, d>> \in next /\ <<d, n>> \in next
      /\ r \in Pending({d}, {}, dl, {<<p, n>>}, p, n, t1)
      /\ p \in Drone /\ n \in Drone /\ p # NoDrone /\ n # NoDrone
  BY <1>1, <1>4, DroneAssumption DEF LeavesTwo
<1>6. t1 \in Told /\ t2 \in Told /\ t3 \in Told
  <2>1. t1 \in Told
    BY <1>1, <1>5, ToldTypes
  <2> HIDE DEF t1
  <2>2. t2 \in Told
    BY <1>1, <1>5, <2>1, ToldTypes
  <2> HIDE DEF t2
  <2>3. t3 \in Told
    BY <1>1, <1>5, <2>2, ToldTypes
  <2> QED BY <2>1, <2>2, <2>3
<1>7. <<p, n>> \notin next
  BY <1>1, <1>5 DEF Ring
<1>8. \A x, y \in Drone : y \in t3[x] <=>
          \/ y \in told[x]
          \/ (x = d /\ y \in {p, n}) \/ (y = d /\ x \in {p, n})
  <2>1. \A x, y \in Drone : y \in t1[x] <=> y \in told[x] /\ ~(y = d /\ x \in {p, n})
    BY DEF Forgotten
  <2> HIDE DEF t1
  <2>2. \A x, y \in Drone : y \in t2[x] <=>
            y \in t1[x] \/ (x = d /\ y = p) \/ (x = p /\ y = d)
    BY <1>1, <1>5, <1>6 DEF Started, Told
  <2> HIDE DEF t2
  <2>3. \A x, y \in Drone : y \in t3[x] <=>
            y \in t2[x] \/ (x = d /\ y = n) \/ (x = n /\ y = d)
    BY <1>1, <1>5, <1>6 DEF Started, Told
  <2> HIDE DEF t3
  <2> QED BY <1>5, <2>1, <2>2, <2>3
<1> HIDE DEF dl, t1, t2, t3
<1>9. c2 \in Pending({d}, {d}, dl, {<<p, n>>}, p, n, t1)
  <2>1. c2 \in Pending({d}, {} \cup {d}, dl, {<<p, n>>}, p, n, t1)
    BY <1>5, MembersPending
  <2>2. {} \cup {d} = {d}
    OBVIOUS
  <2> QED BY <2>1, <2>2
<1>10. Enter(r, d) = InsertBetween(MoveDown(c2), d)
  <2> HIDE DEF c2
  <2>1. c2.ip1 = p /\ c2.ip2 = n
    BY <1>9, PendingFields
  <2> QED BY <1>5, <2>1 DEF Enter, c2
<1> HIDE DEF c2
<1>11. c2.ip1 = p /\ c2.ip2 = n
  BY <1>9, PendingFields
<1>12. MoveDown(c2) = c2
  <2>1. NextNode(n) = p
    BY <1>1, <1>4, NextIs
  <2> QED BY <1>11, <2>1 DEF MoveDown
<1>13. Join(Begin, d) = InsertAt(e, d, n)
  BY <1>2, <1>10, <1>11, <1>12 DEF InsertBetween
<1>14. s \in Pending({d}, {d}, dl, {<<p, n>>}, p, n, t1)
  <2>1. s \in Pending({d}, {d}, dl \cup ({<<p, n>>} \cap next), {<<p, n>>}, p, n, t1)
    BY <1>9, LinksPending
  <2>2. dl \cup ({<<p, n>>} \cap next) = dl
    BY <1>7
  <2> QED BY <2>1, <2>2
<1> HIDE DEF s
<1>15. b1 \in Pending({d}, {d}, dl, {<<p, n>>}, p, n, t2)
  BY <1>1, <1>5, <1>6, <1>14, StartBothPending DEF t2
<1> HIDE DEF b1
<1>16. b2 \in Pending({d}, {d}, dl, {<<p, n>>}, p, n, t3)
  BY <1>1, <1>5, <1>6, <1>15, StartBothPending DEF t3
<1> HIDE DEF b2
<1>17. e \in Pending({d}, {d}, dl, {<<p, n>>} \cup {<<p, d>>, <<d, n>>}, p, n, t3)
  BY <1>16, LinksPending
<1> HIDE DEF e
<1>18. InsertAt(e, d, n) \in Pending({d}, {d}, dl, {<<p, n>>} \cup {<<p, d>>, <<d, n>>}, d, n, t3)
  BY <1>17, InsertAtPending
<1>19. /\ members' = (members \ {d}) \cup {d}
       /\ next' = (next \ dl) \cup ({<<p, n>>} \cup {<<p, d>>, <<d, n>>})
       /\ ip1' = d /\ ip2' = n /\ told' = t3
  <2> DEFINE c == InsertAt(e, d, n)
  <2>1. c.memdel = {d} /\ c.memnew = {d} /\ c.del = dl
        /\ c.new = {<<p, n>>} \cup {<<p, d>>, <<d, n>>}
        /\ c.ip1 = d /\ c.ip2 = n /\ c.told = t3
    BY <1>18, PendingFields
  <2>2. Commit(c)
    BY <1>13
  <2> HIDE DEF c
  <2> QED BY <2>1, <2>2 DEF Commit
<1>20. members' = members /\ next' = next \cup {<<p, n>>}
  BY <1>5, <1>19 DEF dl
<1>21. next' \subseteq members' \X members' /\ Fit(members', next', ip1', ip2')
       /\ (<<ip1', ip2'>> \in next' => ip1' # ip2')
  <2>1. next \subseteq members \X members
    BY <1>1 DEF Ring
  <2> QED BY <1>5, <1>19, <1>20, <2>1 DEF Fit
<1>22. Orders(members', next', told', F1, D1)
  <2> DEFINE Adj(x, y) == <<x, y>> \in next \/ <<y, x>> \in next
  <2>1. \A x, y \in Drone : <<x, y>> \in next' \/ <<y, x>> \in next' <=> Adj(x, y)
    BY <1>4, <1>20
  <2>2. /\ \A x \in members \cap F, y \in Drone : Adj(x, y) => y \in told[x]
        /\ \A x \in members \ D, y \in Drone : y \in told[x] => Adj(x, y)
        /\ \A x \in Drone \ (members \cup D) : told[x] = {}
    BY <1>1 DEF Orders
  <2>3. Adj(d, p) /\ Adj(d, n) /\ Adj(p, d) /\ Adj(n, d)
    BY <1>5
  <2>4. \A y \in Drone : Adj(d, y) => y \in {p, n}
    <3>1. \A y \in Drone : Adj(d, y) => y \in members /\ y # d
      BY <1>1 DEF Ring
    <3> QED BY <1>4, <3>1
  <2>8. told' = t3
    BY <1>19
  <2> HIDE DEF Adj
  <2>5. \A x \in members' \cap F1, y \in Drone : Adj(x, y) => y \in t3[x]
    BY <1>1, <1>8, <1>20, <2>2, <2>4
  <2>6. \A x \in members' \ D1, y \in Drone : y \in t3[x] => Adj(x, y)
    BY <1>1, <1>8, <1>20, <2>2, <2>3
  <2>7. \A x \in Drone \ (members' \cup D1) : t3[x] = {}
    <3>1. \A x \in Drone : t3[x] \subseteq Drone
      BY <1>6 DEF Told
    <3> QED BY <1>4, <1>8, <1>20, <2>2, <3>1
  <2> QED BY <1>1, <1>20, <2>1, <2>5, <2>6, <2>7, <2>8 DEF Orders
<1> QED BY <1>1, <1>6, <1>19, <1>20, <1>21, <1>22 DEF Sound

LEMMA StartupRing ==
    ASSUME RingInv, UpInv', NEW d \in Drone, NEW b \in Nat, DispatchStartup(d, b)
    PROVE  RingInv'
<1>1. /\ boot' = boot /\ lastjoin' = [lastjoin EXCEPT ![d] = b] /\ b \in 1..boot[d] /\ ~torn
      /\ graceful' = [graceful EXCEPT ![d] = FALSE]
  BY DEF DispatchStartup
<1>2. boot' \in [Drone -> Nat] /\ lastjoin' \in [Drone -> Nat]
      /\ (\A x \in Drone : lastjoin'[x] <= boot'[x])
  BY <1>1 DEF RingInv
<1>3. graceful' \in [Drone -> BOOLEAN]
  BY <1>1 DEF RingInv
<1>4. Joined' \subseteq Joined \cup {d}
  BY <1>1 DEF Joined, RingInv
<1>5. Good(members, next, ip1, ip2, told, Joined, dropped) /\ told \in Told
      /\ IsFiniteSet(members) /\ dropped \subseteq Drone
  BY <1>1, WholeIsGood DEF RingInv, Good
<1>6. CASE IsDuplicate(d, b)
  <2>1. Commit(Begin) /\ dropped' = dropped /\ torn' = torn
    BY <1>6 DEF DispatchStartup
  <2>2. members' = members /\ next' = next /\ ip1' = ip1 /\ ip2' = ip2 /\ told' = told
    BY <2>1, BeginPending, CommitNothing
  <2>3. Joined' = Joined
    BY <1>1, <1>6 DEF Joined, IsDuplicate, RingInv
  <2>4. Good(members', next', ip1', ip2', told', Joined', dropped')
    BY <1>5, <2>1, <2>2, <2>3
  <2> QED BY <1>1, <1>2, <1>3, <1>5, <2>1, <2>2, <2>4, GoodIsWhole DEF RingInv
<1>7. CASE ~IsDuplicate(d, b)
  <2>1. /\ Commit(Join(Begin, d)) /\ dropped' = dropped \cup Dropped(d)
        /\ torn' = (d \in members /\ Cardinality(members) = 3)
    BY <1>7 DEF DispatchStartup
  <2>2. dropped' = dropped \cup (IF d \in members /\ told[d] # {} THEN {d} ELSE {})
        /\ dropped' \subseteq Drone
    BY <1>5, <2>1 DEF Dropped
  <2>3. IsFiniteSet(members')
    BY <1>5, <2>1, BeginPending, CommitFinite
  <2>4. CASE torn'
    <3>1. d \in members /\ Cardinality(members) = 3
      BY <2>1, <2>4
    <3>2. dropped' = dropped \cup (IF told[d] # {} THEN {d} ELSE {})
      BY <2>2, <3>1
    <3>3. Sound(members', next', ip1', ip2', told', Joined', dropped')
      BY <1>4, <1>5, <2>1, <3>1, <3>2, JoinTears
    <3> QED BY <1>2, <1>3, <2>2, <2>3, <2>4, <3>3 DEF RingInv
  <2>5. CASE ~torn'
    <3>1. d \in members => Cardinality(members) # 3
      BY <2>1, <2>5
    <3>2. GoodAfter(Join(Begin, d), Joined \cup {d}, dropped')
      BY <1>5, <2>2, <3>1, BeginPending, JoinGood
    <3>3. Good(members', next', ip1', ip2', told', Joined', dropped')
      BY <1>4, <2>1, <3>2, CommitGood
    <3>4. torn' \in BOOLEAN
      BY <2>1
    <3> QED BY <1>2, <1>3, <2>2, <2>3, <3>3, <3>4, GoodIsWhole DEF RingInv
  <2> QED BY <2>4, <2>5
<1> QED BY <1>6, <1>7

LEMMA DeathRing ==
    ASSUME RingInv, UpInv', NEW d \in Drone, NEW shutdown \in BOOLEAN, DeathReport(d, shutdown)
    PROVE  RingInv'
<1>1. /\ boot' = boot /\ lastjoin' = lastjoin
      /\ graceful' = [graceful EXCEPT ![d] = shutdown]
      /\ Commit(IF status[d] # "dead" /\ d \in members THEN Leave(Begin, d) ELSE Begin)
      /\ dropped' = dropped \cup Dropped(d) /\ torn' = torn /\ ~torn
  BY DEF DeathReport
<1>2. graceful' \in [Drone -> BOOLEAN] /\ dropped' \subseteq Drone
  BY <1>1 DEF RingInv, Dropped
<1>3. Joined' = Joined
  BY <1>1 DEF Joined
<1>4. Good(members, next, ip1, ip2, told, Joined, dropped) /\ told \in Told /\ IsFiniteSet(members)
  BY <1>1, WholeIsGood DEF RingInv, Good
<1>5. CASE d \in members
  <2>1. Commit(Leave(Begin, d))
    BY <1>1, <1>5 DEF RingInv, UpInv, UpIsMemberOrRaised
  <2>2. dropped' = dropped \cup (IF told[d] # {} THEN {d} ELSE {})
    BY <1>1, <1>5 DEF Dropped
  <2>3. GoodAfter(Leave(Begin, d), Joined, dropped')
    BY <1>4, <1>5, <2>2, BeginPending, LeaveGood
  <2>4. Good(members', next', ip1', ip2', told', Joined', dropped')
    BY <1>3, <2>1, <2>3, CommitGood
  <2>5. IsFiniteSet(members')
    BY <1>4, <2>1, BeginPending, CommitFinite
  <2> QED BY <1>1, <1>2, <2>4, <2>5, GoodIsWhole DEF RingInv
<1>6. CASE d \notin members
  <2>1. Commit(Begin) /\ dropped' = dropped
    BY <1>1, <1>6 DEF Dropped
  <2>2. members' = members /\ next' = next /\ ip1' = ip1 /\ ip2' = ip2 /\ told' = told
    BY <2>1, BeginPending, CommitNothing
  <2>3. Good(members', next', ip1', ip2', told', Joined', dropped')
    BY <1>3, <1>4, <2>1, <2>2
  <2> QED BY <1>1, <1>2, <1>4, <2>1, <2>2, <2>3, GoodIsWhole DEF RingInv
<1> QED BY <1>5, <1>6

LEMMA MartianRing ==
    ASSUME RingInv, UpInv', NEW reporter \in Drone, NEW src \in Drone, DispatchHbMartian(reporter, src)
    PROVE  RingInv'
<1> DEFINE T == [told EXCEPT ![src] = @ \ {reporter}]
           stopped == StopHeartbeat(Begin, src, {reporter})
<1>1. /\ boot' = boot /\ lastjoin' = lastjoin /\ graceful' = graceful /\ dropped' = dropped
      /\ torn' = torn /\ ~torn
      /\ \/ status[src] # "up" /\ Commit(Join(stopped, src))
         \/ status[src] = "up" /\ ~ArePartners(reporter, src) /\ Commit(stopped)
  BY DEF DispatchHbMartian
<1>2. Joined' = Joined
  BY <1>1 DEF Joined
<1>3. /\ told \in Told /\ IsFiniteSet(members) /\ Ring(members, next) /\ members \in SUBSET Drone
      /\ Fit(members, next, ip1, ip2) /\ Orders(members, next, told, Joined, dropped)
  BY <1>1, WholeIsGood DEF RingInv, Good
<1>4. stopped \in Pending({}, {}, {}, {}, ip1, ip2, T)
  BY BeginPending, HeartbeatPending
<1>5. T \in Told
  BY <1>3 DEF Told
<1>6. \A x, y \in Drone : y \in T[x] <=> y \in told[x] /\ ~(x = src /\ y = reporter)
  BY <1>3 DEF Told
<1>7. \A x \in Drone : T[x] \subseteq Drone
  BY <1>5 DEF Told
<1> HIDE DEF T, stopped
<1>8. ASSUME src \notin members \/ ~ArePartners(reporter, src)
      PROVE  Good(members, next, ip1, ip2, T, Joined, dropped)
  <2>1. \A x \in members, y \in Drone :
            <<x, y>> \in next \/ <<y, x>> \in next => ~(x = src /\ y = reporter)
    BY <1>8 DEF ArePartners
  <2>2. Orders(members, next, T, Joined, dropped)
    <3>1. \A x \in members \cap Joined, y \in Drone :
              <<x, y>> \in next \/ <<y, x>> \in next => y \in T[x]
      BY <1>3, <1>6, <2>1 DEF Orders
    <3>2. \A x \in members \ dropped, y \in Drone :
              y \in T[x] => <<x, y>> \in next \/ <<y, x>> \in next
      BY <1>3, <1>6 DEF Orders
    <3>3. \A x \in Drone \ (members \cup dropped) : T[x] = {}
      BY <1>3, <1>6, <1>7 DEF Orders
    <3> QED BY <3>1, <3>2, <3>3 DEF Orders
  <2> QED BY <1>3, <1>5, <2>2 DEF Good
<1>9. CASE status[src] # "up" /\ Commit(Join(stopped, src))
  <2>1. src \notin members
    BY <1>9 DEF RingInv, UpInv, UpIsMemberOrRaised
  <2>2. GoodAfter(Join(stopped, src), Joined \cup {src}, dropped)
    <3>1. dropped = dropped \cup (IF src \in members /\ T[src] # {} THEN {src} ELSE {})
      BY <2>1
    <3> QED BY <1>4, <1>5, <1>8, <2>1, <3>1, JoinGood
  <2>3. Good(members', next', ip1', ip2', told', Joined', dropped')
    BY <1>1, <1>2, <1>9, <2>2, CommitGood
  <2>4. IsFiniteSet(members')
    BY <1>3, <1>4, <1>9, CommitFinite
  <2> QED BY <1>1, <2>3, <2>4, GoodIsWhole DEF RingInv
<1>10. CASE status[src] = "up" /\ ~ArePartners(reporter, src) /\ Commit(stopped)
  <2>1. members' = members /\ next' = next /\ ip1' = ip1 /\ ip2' = ip2 /\ told' = T
    BY <1>4, <1>10, CommitNothing
  <2>2. Good(members', next', ip1', ip2', told', Joined', dropped')
    BY <1>1, <1>2, <1>8, <1>10, <2>1
  <2> QED BY <1>1, <1>3, <2>1, <2>2, GoodIsWhole DEF RingInv
<1> QED BY <1>1, <1>9, <1>10

LEMMA RestartRing ==
    ASSUME RingInv, UpInv', CmaRestart
    PROVE  RingInv'
<1>2. ~torn /\ UNCHANGED <<boot, status, graceful, lastjoin, members, next, told, dropped, torn>>
  BY DEF CmaRestart
<1>1. /\ told \in Told /\ IsFiniteSet(members) /\ Ring(members, next) /\ members \in SUBSET Drone
      /\ Orders(members, next, told, Joined, dropped)
  BY <1>2, WholeIsGood DEF RingInv, Good
<1>3. Fit(members, next, ip1', ip2')
  <2>1. CASE members = {}
    BY <2>1 DEF CmaRestart, Fit
  <2>2. ASSUME NEW m \in members, ip1' = m, ip2' = NextNode(m)
        PROVE  Fit(members, next, ip1', ip2')
    <3>1. CASE members = {m} /\ next = {}
      BY <2>2, <3>1, NoNeighbour DEF Fit
    <3>2. CASE \E p, n \in members : <<p, m>> \in next /\ <<m, n>> \in next /\ p # m /\ n # m
      BY <1>1, <2>2, <3>2, NextIs DEF Fit
    <3> QED BY <1>1, <3>1, <3>2, RingSides
  <2> QED BY <2>1, <2>2 DEF CmaRestart
<1>4. Joined' = Joined
  BY <1>2 DEF Joined
<1>5. Good(members', next', ip1', ip2', told', Joined', dropped')
  BY <1>1, <1>2, <1>3, <1>4 DEF Good
<1> QED BY <1>2, <1>5, GoodIsWhole DEF RingInv

LEMMA RingInvStep ==
    ASSUME RingInv, [Next]_vars
    PROVE  RingInv'
<1>1. UpInv'
  BY UpInvStep DEF RingInv
<1>2. ASSUME NEW d \in Drone, Boot(d) PROVE RingInv'
  BY <1>1, <1>2, BootRing
<1>3. ASSUME NEW d \in Drone, NEW b \in 1..MaxBoot, DispatchStartup(d, b) PROVE RingInv'
  <2>1. b \in 1..boot[d] /\ boot[d] \in Nat
    BY <1>3 DEF DispatchStartup, RingInv
  <2> QED BY <1>1, <1>3, <2>1, StartupRing
<1>4. ASSUME NEW d \in Drone, DispatchHbDead(d) PROVE RingInv'
  BY <1>1, <1>4, DeathRing DEF DispatchHbDead
<1>5. ASSUME NEW d \in Drone, DispatchHbShutdown(d) PROVE RingInv'
  BY <1>1, <1>5, DeathRing DEF DispatchHbShutdown
<1>6. ASSUME NEW reporter \in Drone, NEW src \in Drone, DispatchHbMartian(reporter, src) PROVE RingInv'
  BY <1>1, <1>6, MartianRing
<1>7. CASE CmaRestart
  BY <1>1, <1>7, RestartRing
<1>8. CASE UNCHANGED vars
  BY <1>8 DEF vars, RingInv, UpInv, UpIsMemberOrRaised, Joined
<1> QED BY <1>2, <1>3, <1>4, <1>5, <1>6, <1>7, <1>8 DEF Next

-----------------------------------------------------------------------------
(* What the invariant says of the ring and of the orders                   *)

LEMMA PairHasTwo ==
    ASSUME NEW M, IsFiniteSet(M), NEW a \in M, NEW b \in M, a # b
    PROVE  Cardinality(M) \in Nat /\ Cardinality(M) >= 2
<1>1. IsFiniteSet({a}) /\ Cardinality({a}) = 1
  BY FS_Singleton
<1>2. b \notin {a} /\ {a} \cup {b} \subseteq M
  OBVIOUS
<1>3. Cardinality({a} \cup {b}) = 2 /\ IsFiniteSet({a} \cup {b})
  BY <1>1, <1>2, FS_AddElement
<1>4. Cardinality({a} \cup {b}) <= Cardinality(M)
  BY <1>2, FS_Subset
<1>5. Cardinality(M) \in Nat
  BY FS_CardinalityType
<1> QED BY <1>3, <1>4, <1>5

LEMMA CycleFromInv == RingInv => RingIsCycleUnlessTorn
<1> SUFFICES ASSUME RingInv, ~torn PROVE RingIsCycle
  BY DEF RingIsCycleUnlessTorn
<1>1. Ring(members, next) /\ IsFiniteSet(members)
  BY DEF RingInv
<1>2. next \subseteq members \X members
  BY <1>1 DEF Ring
<1>3. \A d \in members : status[d] = "up"
  BY DEF RingInv, UpInv, UpIsMemberOrRaised
<1>4. Cardinality(members) \in Nat
  BY <1>1, FS_CardinalityType
<1>5. Cardinality(members) < 2 => next = {}
  <2>1. SUFFICES ASSUME NEW a \in members, NEW b \in members, <<a, b>> \in next
                 PROVE  Cardinality(members) >= 2
    BY <1>2, <1>4
  <2>2. a # b
    BY <1>1, <2>1 DEF Ring
  <2> QED BY <1>1, <2>2, PairHasTwo
<1>6. ASSUME Cardinality(members) >= 2, NEW d \in members
      PROVE  /\ Cardinality({x \in members : <<d, x>> \in next}) = 1
             /\ Cardinality({x \in members : <<x, d>> \in next}) = 1
  <2>1. members # {d}
    <3>1. Cardinality({d}) = 1
      BY FS_Singleton
    <3> QED BY <1>6, <3>1
  <2>2. PICK p, n \in members : <<p, d>> \in next /\ <<d, n>> \in next
    BY <1>1, <2>1, RingSides
  <2>3. {x \in members : <<d, x>> \in next} = {n}
    <3>1. \A x \in members : <<d, x>> \in next <=> x = n
      BY <1>1, <2>2 DEF Ring
    <3> QED BY <3>1
  <2>4. {x \in members : <<x, d>> \in next} = {p}
    <3>1. \A x \in members : <<x, d>> \in next <=> x = p
      BY <1>1, <2>2 DEF Ring
    <3> QED BY <3>1
  <2> QED BY <2>3, <2>4, FS_Singleton
<1>7. ASSUME NEW S \in SUBSET members, S # {}, \A l \in next : l[1] \in S => l[2] \in S
      PROVE  S = members
  <2>1. \A a \in S, b \in members : <<a, b>> \in next => b \in S
    BY <1>7
  <2> QED BY <1>1, <1>7, <2>1 DEF Ring
<1> QED BY <1>2, <1>3, <1>5, <1>6, <1>7 DEF RingIsCycle

LEMMA FitFromInv == RingInv => InsertPointsFit
<1> SUFFICES ASSUME RingInv PROVE InsertPointsFit
  OBVIOUS
<1>1. IsFiniteSet(members) /\ Fit(members, next, ip1, ip2)
  BY DEF RingInv, Sound
<1>2. CASE members = {} /\ ip1 = NoDrone /\ ip2 = NoDrone
  <2>1. Cardinality(members) # 1
    BY <1>2, FS_EmptySet
  <2> QED BY <1>2, <2>1 DEF InsertPointsFit
<1>3. CASE members = {ip1} /\ ip2 = NoDrone
  <2>1. Cardinality(members) = 1 /\ members # {}
    BY <1>3, FS_Singleton
  <2> QED BY <1>3, <2>1 DEF InsertPointsFit
<1>4. CASE <<ip1, ip2>> \in next
  <2>1. ip1 \in members /\ ip2 \in members /\ ip1 # ip2
    BY <1>4 DEF RingInv, Sound
  <2>2. Cardinality(members) # 1 /\ members # {}
    BY <1>1, <2>1, PairHasTwo
  <2> QED BY <1>4, <2>2 DEF InsertPointsFit
<1> QED BY <1>1, <1>2, <1>3, <1>4 DEF Fit

LEMMA TypesFromInv == RingInv => TypeOK
<1> SUFFICES ASSUME RingInv PROVE TypeOK
  OBVIOUS
<1>1. /\ next \subseteq members \X members /\ Fit(members, next, ip1, ip2)
      /\ members \in SUBSET Drone /\ told \in Told
  BY DEF RingInv, Sound
<1>2. next \subseteq Link
  BY <1>1 DEF Link
<1>3. {ip1, ip2} \subseteq Drone \cup {NoDrone}
  BY <1>1 DEF Fit
<1> QED BY <1>1, <1>2, <1>3 DEF TypeOK, RingInv, UpInv, Told

LEMMA OrdersFromInv == RingInv => NeighboursAreTold /\ NoOrderIsLeft
<1> SUFFICES ASSUME RingInv PROVE NeighboursAreTold /\ NoOrderIsLeft
  OBVIOUS
<1>1. /\ Orders(members, next, told, Joined, dropped)
      /\ members \in SUBSET Drone /\ told \in Told
  BY DEF RingInv, Sound
<1>2. NeighboursAreTold
  BY <1>1 DEF Orders, NeighboursAreTold, Neighbours, Joined
<1>3. NoOrderIsLeft
  BY <1>1 DEF Orders, NoOrderIsLeft, Neighbours, Told
<1> QED BY <1>2, <1>3

\* The state of the ring keeps its types: the insert points are drones or None, the
\* links connect drones, and nobody is told of anything but drones.
THEOREM RingTypes == Spec => []TypeOK
<1>1. RingInv /\ [Next]_vars => RingInv'
  BY RingInvStep
<1> QED BY RingInvInit, <1>1, TypesFromInv, PTL DEF Spec

\* However many drones join, leave, die, come back, repeat old STARTUPs and report each
\* other, the links of the ring make one single cycle of its members, who are all up,
\* until a member joins anew in a ring of three: nothing else breaks the audit.
THEOREM RingStaysACycle == Spec => []RingIsCycleUnlessTorn
<1>1. RingInv /\ [Next]_vars => RingInv'
  BY RingInvStep
<1> QED BY RingInvInit, <1>1, CycleFromInv, PTL DEF Spec

\* The insert points, which HbRing keeps in memory, always fit the ring that the
\* database has, a restart of the CMA included.
THEOREM InsertPointsStayFit == Spec => []InsertPointsFit
<1>1. RingInv /\ [Next]_vars => RingInv'
  BY RingInvStep
<1> QED BY RingInvInit, <1>1, FitFromInv, PTL DEF Spec

\* Every member whose process has joined has been told to exchange heartbeats with
\* its neighbours: whoever is in the ring is watched.
THEOREM MembersAreWatched == Spec => []NeighboursAreTold
<1>1. RingInv /\ [Next]_vars => RingInv'
  BY RingInvStep
<1> QED BY RingInvInit, <1>1, OrdersFromInv, PTL DEF Spec

\* ... and with nobody else, unless its process left the ring with orders.
THEOREM OrdersAreTakenBack == Spec => []NoOrderIsLeft
<1>1. RingInv /\ [Next]_vars => RingInv'
  BY RingInvStep
<1> QED BY RingInvInit, <1>1, OrdersFromInv, PTL DEF Spec
=============================================================================
