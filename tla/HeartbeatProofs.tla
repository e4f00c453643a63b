-------------------------- MODULE HeartbeatProofs --------------------------
(***************************************************************************)
(* Proofs about heartbeats, for any number of nanoprobes and any times     *)
(* that the configuration may have: no live peer is declared dead, every   *)
(* silent one is, and the CMA hears of both.                               *)
(***************************************************************************)
EXTENDS Heartbeat, SequenceTheorems, FiniteSetTheorems, WellFoundedInduction, TLAPS

-----------------------------------------------------------------------------
(* Senders                                                                 *)

\* Does one of the senders s send to q in d seconds?
Due(s, q, d) == \E i \in DOMAIN s : s[i].sendaddr = q /\ s[i].due = d

\* r has the same senders as s to anybody but addr.
SameElsewhere(s, r, addr) ==
    \A q \in Node \ {addr}, d \in 0..Interval : Due(r, q, d) <=> Due(s, q, d)

LEMMA TimesAreNat ==
    /\ Interval \in Nat /\ Warntime \in Nat /\ Deadtime \in Nat /\ MartianTimeout \in Nat
    /\ 0 < Interval /\ Interval < Warntime /\ Warntime < Deadtime
BY TimesAssumption

\* hbsender_new adds a sender to addr, due in Interval.
LEMMA AddedSender ==
    ASSUME NEW s \in Seq(HbSender), NEW addr \in Node, NEW r, r = <<NewSender(addr)>> \o s
    PROVE  r \in Seq(HbSender) /\ SameElsewhere(s, r, addr)
<1>1. NewSender(addr) \in HbSender
  BY TimesAreNat DEF NewSender, HbSender
<1>2. <<NewSender(addr)>> \in Seq(HbSender) /\ Len(<<NewSender(addr)>>) = 1
      /\ <<NewSender(addr)>>[1] = NewSender(addr)
  BY <1>1
<1> DEFINE new == <<NewSender(addr)>>
<1> HIDE DEF new
<1>3. r \in Seq(HbSender) /\ Len(r) = 1 + Len(s) /\ Len(s) \in Nat
      /\ r[1] = NewSender(addr)
      /\ (\A i \in 1..Len(s) : r[i + 1] = s[i])
  <2>1. new \in Seq(HbSender) /\ Len(new) = 1 /\ new[1] = NewSender(addr) /\ r = new \o s
    BY <1>2 DEF new
  <2>2. /\ r \in Seq(HbSender) /\ Len(r) = Len(new) + Len(s)
        /\ \A i \in 1..(Len(new) + Len(s)) : r[i] = IF i <= Len(new) THEN new[i] ELSE s[i - Len(new)]
    BY <2>1, ConcatProperties
  <2>3. Len(s) \in Nat
    BY LenProperties
  <2> QED BY <2>1, <2>2, <2>3
<1>4. DOMAIN r = 1..(1 + Len(s)) /\ DOMAIN s = 1..Len(s)
  BY <1>3, LenProperties
<1>5. ASSUME NEW q \in Node \ {addr}, NEW d PROVE Due(r, q, d) <=> Due(s, q, d)
  <2>1. ASSUME NEW i \in DOMAIN r, r[i].sendaddr = q, r[i].due = d PROVE Due(s, q, d)
    <3>1. i # 1
      BY <1>3, <2>1 DEF NewSender
    <3>2. i - 1 \in DOMAIN s /\ r[i] = s[i - 1]
      BY <1>3, <1>4, <2>1, <3>1
    <3> QED BY <2>1, <3>2 DEF Due
  <2>2. ASSUME NEW i \in DOMAIN s, s[i].sendaddr = q, s[i].due = d PROVE Due(r, q, d)
    <3>1. i + 1 \in DOMAIN r /\ r[i + 1] = s[i]
      BY <1>3, <1>4, <2>2
    <3> QED BY <2>2, <3>1 DEF Due
  <2> QED BY <2>1, <2>2 DEF Due
<1> QED BY <1>3, <1>5 DEF SameElsewhere

\* hbsender_stopsend takes one sender to addr away.
LEMMA RemovedSender ==
    ASSUME NEW s \in Seq(HbSender), NEW addr \in Node, NEW k \in DOMAIN s, s[k].sendaddr = addr,
           NEW r, r = RemoveAt(s, k)
    PROVE  r \in Seq(HbSender) /\ SameElsewhere(s, r, addr)
<1> DEFINE a == SubSeq(s, 1, k - 1)
           b == SubSeq(s, k + 1, Len(s))
<1>1. k \in 1..Len(s) /\ Len(s) \in Nat /\ DOMAIN s = 1..Len(s)
  BY LenProperties
<1>2. /\ a \in Seq(HbSender) /\ Len(a) = k - 1
      /\ \A i \in 1..(k - 1) : a[i] = s[i]
  <2>1. \A i \in 1..(k - 1) : s[i] \in HbSender
    BY <1>1, ElementOfSeq
  <2> QED BY <1>1, <2>1, SubSeqProperties
<1>3. /\ b \in Seq(HbSender) /\ Len(b) = Len(s) - k
      /\ \A i \in 1..(Len(s) - k) : b[i] = s[k + i]
  <2>1. \A i \in (k + 1)..Len(s) : s[i] \in HbSender
    BY <1>1, ElementOfSeq
  <2>2. CASE k = Len(s)
    <3>1. b = <<>>
      BY <1>1, <2>2, SubSeqEmpty
    <3> QED BY <1>1, <2>2, <3>1
  <2>3. CASE k < Len(s)
    BY <1>1, <2>1, <2>3, SubSeqProperties
  <2> QED BY <1>1, <2>2, <2>3
<1>4. r = a \o b
  BY DEF RemoveAt
<1> HIDE DEF a, b
<1>5. /\ r \in Seq(HbSender) /\ Len(r) = Len(s) - 1
      /\ \A i \in 1..(Len(s) - 1) : r[i] = IF i < k THEN s[i] ELSE s[i + 1]
  <2>1. /\ r \in Seq(HbSender) /\ Len(r) = Len(a) + Len(b)
        /\ \A i \in 1..(Len(a) + Len(b)) : r[i] = IF i <= Len(a) THEN a[i] ELSE b[i - Len(a)]
    <3>1. a \in Seq(HbSender) /\ b \in Seq(HbSender)
      BY <1>2, <1>3
    <3> QED BY <1>4, <3>1, ConcatProperties
  <2>2. Len(a) + Len(b) = Len(s) - 1
    BY <1>1, <1>2, <1>3
  <2>3. ASSUME NEW i \in 1..(Len(s) - 1) PROVE r[i] = IF i < k THEN s[i] ELSE s[i + 1]
    <3>1. CASE i < k
      BY <1>1, <1>2, <2>1, <2>2, <3>1
    <3>2. CASE i >= k
      <4>1. r[i] = b[i - (k - 1)]
        BY <1>1, <1>2, <2>1, <2>2, <3>2
      <4>2. i - (k - 1) \in 1..(Len(s) - k) /\ k + (i - (k - 1)) = i + 1
        BY <1>1, <3>2
      <4> QED BY <1>1, <1>3, <3>2, <4>1, <4>2
    <3> QED BY <1>1, <3>1, <3>2
  <2> QED BY <2>1, <2>2, <2>3
<1>6. DOMAIN r = 1..(Len(s) - 1)
  BY <1>5, LenProperties
<1>7. ASSUME NEW q \in Node \ {addr}, NEW d PROVE Due(r, q, d) <=> Due(s, q, d)
  <2>1. ASSUME NEW i \in DOMAIN r, r[i].sendaddr = q, r[i].due = d PROVE Due(s, q, d)
    <3>1. PICK j \in DOMAIN s : r[i] = s[j]
      BY <1>1, <1>5, <1>6, <2>1
    <3> QED BY <2>1, <3>1 DEF Due
  <2>2. ASSUME NEW i \in DOMAIN s, s[i].sendaddr = q, s[i].due = d PROVE Due(r, q, d)
    <3>1. i # k
      BY <2>2
    <3>2. CASE i < k
      BY <1>1, <1>5, <1>6, <2>2, <3>2 DEF Due
    <3>3. CASE i > k
      <4>1. i - 1 \in DOMAIN r /\ r[i - 1] = s[i]
        BY <1>1, <1>5, <1>6, <2>2, <3>3
      <4> QED BY <2>2, <4>1 DEF Due
    <3> QED BY <1>1, <2>2, <3>1, <3>2, <3>3
  <2> QED BY <2>1, <2>2 DEF Due
<1> QED BY <1>5, <1>7 DEF SameElsewhere

-----------------------------------------------------------------------------
(* Types                                                                   *)

Said == {"nothing", "dead", "late", "backalive"}

\* L is what a nanoprobe may have for _hb_listeners.
IsListening(L) == L \in [DOMAIN L -> HbListener] /\ DOMAIN L \subseteq Node

HbTypes ==
    /\ run \in [Node -> {"up", "stopping", "down"}]
    /\ senders \in [Node -> Seq(HbSender)]
    /\ listeners = [n \in Node |-> listeners[n]]
    /\ \A n \in Node : IsListening(listeners[n]) /\ n \notin DOMAIN listeners[n]
    /\ checks \in [Node -> [timers : Nat, fired : Nat]]
    /\ \A n \in Node : checks[n].fired <= checks[n].timers
    /\ air \in [Node \X Node -> Nat]
    /\ told \in [Node -> [Node -> Said]]
    /\ gap \in [Node -> SUBSET Node]

\* Who has an HbListener has put one into the dispatch table.
InterceptInv ==
    /\ intercepts \in [Node -> BOOLEAN]
    /\ \A n \in Node : DOMAIN listeners[n] # {} => intercepts[n]

LEMMA TypesGive == HbTypes /\ InterceptInv => HbTypeOK
BY DEF HbTypes, HbTypeOK, InterceptInv, IsListening

-----------------------------------------------------------------------------
(* The invariant, as it is of one pair and of one nanoprobe                *)

\* The listener l expects heartbeats of a peer with the senders s to the address q,
\* of which k are in the air: none was missed, and if the peer has a sender to q the
\* next comes in time.
Attended(l, s, q, k) ==
    /\ ~l.timedout /\ l.age <= Interval
    /\ \/ k > 0
       \/ \A d \in 0..Interval : ~Due(s, q, d)
       \/ \E d \in 0..Interval : Due(s, q, d) /\ l.age + d <= Interval

\* The timers c look after the listeners L: there is one if there are any, and once
\* it has fired in this second no peer is both silent and held for alive.
Checked(L, c) ==
    /\ DOMAIN L # {} => c.timers > 0
    /\ c.fired > 0 => \A p \in DOMAIN L : L[p].timedout \/ L[p].age <= Deadtime
    /\ \A p \in DOMAIN L : L[p].timedout \/ L[p].age <= Deadtime + 1

GapInv ==
    \A n \in Node : \A p \in DOMAIN listeners[n] :
        p \notin gap[n] => Attended(listeners[n][p], senders[p], n, air[<<p, n>>])

CheckInv == \A n \in Node : Checked(listeners[n], checks[n])

\* A process that is gone listens to nobody.
DownInv == \A n \in Node : run[n] = "down" => DOMAIN listeners[n] = {}

HbInv == HbTypes /\ GapInv /\ CheckInv /\ DownInv /\ CmaIsTold

LEMMA SendsIff ==
    ASSUME HbTypes, NEW p \in Node, NEW n \in Node
    PROVE  SendsTo(p, n) <=> \E d \in 0..Interval : Due(senders[p], n, d)
<1>1. \A i \in DOMAIN senders[p] : senders[p][i].due \in 0..Interval
  <2>1. senders[p] \in Seq(HbSender)
    BY DEF HbTypes
  <2>2. \A i \in DOMAIN senders[p] : senders[p][i] \in HbSender
    BY <2>1, ElementOfSeq, LenProperties
  <2> QED BY <2>2 DEF HbSender
<1> QED BY <1>1 DEF SendsTo, Due

\* A listener that has just been made or refreshed is attended.
LEMMA FreshIsAttended ==
    ASSUME NEW l, ~l.timedout, l.age = 0, NEW s, NEW q, NEW k
    PROVE  Attended(l, s, q, k)
BY TimesAreNat DEF Attended

\* Senders to others do not matter; a heartbeat more in the air is as good.
LEMMA OtherSenders ==
    ASSUME NEW l, NEW s, NEW r, NEW addr \in Node, SameElsewhere(s, r, addr),
           NEW q \in Node, q # addr, NEW k, Attended(l, s, q, k)
    PROVE  Attended(l, r, q, k)
BY DEF Attended, SameElsewhere

LEMMA MoreInTheAir ==
    ASSUME NEW l, NEW s, NEW r, NEW q, NEW k \in Nat, Attended(l, s, q, k)
    PROVE  Attended(l, r, q, k + 1)
BY DEF Attended

LEMMA HbInvInit == Init => HbInv
<1> SUFFICES ASSUME Init PROVE HbInv
  OBVIOUS
<1>1. \A n \in Node : DOMAIN listeners[n] = {}
  BY DEF Init
<1>2. HbTypes
  <2>1. \A n \in Node : IsListening(listeners[n])
    BY DEF Init, IsListening
  <2>2. senders \in [Node -> Seq(HbSender)]
    BY EmptySeq DEF Init
  <2>3. checks \in [Node -> [timers : Nat, fired : Nat]] /\ \A n \in Node : checks[n].fired <= checks[n].timers
    BY DEF Init
  <2>4. told \in [Node -> [Node -> Said]]
    BY DEF Init, Said
  <2>5. air \in [Node \X Node -> Nat]
    BY DEF Init
  <2>6. run \in [Node -> {"up", "stopping", "down"}] /\ gap \in [Node -> SUBSET Node]
    BY DEF Init
  <2>7. listeners = [n \in Node |-> listeners[n]]
    BY DEF Init
  <2> QED BY <1>1, <2>1, <2>2, <2>3, <2>4, <2>5, <2>6, <2>7 DEF HbTypes
<1>3. CheckInv
  BY <1>1 DEF Init, CheckInv, Checked
<1> QED BY <1>1, <1>2, <1>3 DEF HbInv, GapInv, DownInv, CmaIsTold

-----------------------------------------------------------------------------
(* The CMA's orders                                                        *)

\* What an order makes of the senders of n: nothing, or something is sent to addr and
\* the senders to others stay.
Sends(n, addr, s) ==
    /\ s.senders \in Seq(HbSender)
    /\ \/ s.sent = 0 /\ s.senders = senders[n]
       \/ s.sent = 1 /\ SameElsewhere(senders[n], s.senders, addr)

\* The intervals that end in S are well-founded, so S has a least element.
LEMMA SmallestOf ==
    ASSUME NEW S \in SUBSET Nat, S # {}
    PROVE  \E x \in S : \A y \in S : x <= y
<1> DEFINE T == {1 .. x : x \in S}
<1>1. T \subseteq FiniteSubsetsOf(Nat)
  <2> SUFFICES ASSUME NEW x \in S PROVE 1 .. x \in FiniteSubsetsOf(Nat)
    OBVIOUS
  <2>1. IsFiniteSet(1 .. x)
    <3>1. 1 \in Int /\ x \in Int
      OBVIOUS
    <3> QED BY <3>1, FS_Interval
  <2> QED BY <2>1 DEF FiniteSubsetsOf
<1>2. PICK X \in T : \A Y \in T : ~(<<Y, X>> \in StrictSubsetOrdering(Nat))
  <2>1. IsWellFoundedOn(StrictSubsetOrdering(Nat), FiniteSubsetsOf(Nat))
    BY FS_StrictSubsetOrderingWellFounded
  <2>2. T # {}
    OBVIOUS
  <2> HIDE DEF T
  <2> QED BY <1>1, <2>1, <2>2, WFMin
<1>3. PICK x \in S : X = 1 .. x
  OBVIOUS
<1>4. ASSUME NEW y \in S, ~(x <= y) PROVE FALSE
  <2>1. x \in 1 .. x /\ x \notin 1 .. y
    BY <1>4
  <2>2. (1 .. y) \subseteq (1 .. x) /\ 1 .. y # 1 .. x
    BY <1>4, <2>1
  <2>3. <<1 .. y, 1 .. x>> \in StrictSubsetOrdering(Nat)
    BY <2>2 DEF StrictSubsetOrdering
  <2> QED BY <1>2, <1>3, <2>3
<1> QED BY <1>3, <1>4

LEMMA StartSends ==
    ASSUME HbTypes, NEW n \in Node, NEW addr \in Node
    PROVE  Sends(n, addr, StartSend(n, addr))
<1>1. senders[n] \in Seq(HbSender)
  BY DEF HbTypes
<1>2. StartSend(n, addr).senders = <<NewSender(addr)>> \o senders[n] /\ StartSend(n, addr).sent = 1
  BY DEF StartSend
<1> QED BY <1>1, <1>2, AddedSender DEF Sends

LEMMA StopSends ==
    ASSUME HbTypes, NEW n \in Node, NEW addr \in Node
    PROVE  Sends(n, addr, StopSend(n, addr))
<1> DEFINE mine == {i \in DOMAIN senders[n] : senders[n][i].sendaddr = addr}
           k == CHOOSE i \in mine : \A j \in mine : i <= j
<1>1. senders[n] \in Seq(HbSender)
  BY DEF HbTypes
<1>2. CASE mine = {}
  BY <1>1, <1>2 DEF StopSend, Sends
<1>3. CASE mine # {}
  <2>1. mine \subseteq Nat
    BY <1>1, LenProperties
  <2>2. \E x \in mine : \A y \in mine : x <= y
    <3> HIDE DEF mine
    <3> QED BY <1>3, <2>1, SmallestOf
  <2>3. k \in mine
    BY <2>2
  <2>4. StopSend(n, addr).senders = RemoveAt(senders[n], k) /\ StopSend(n, addr).sent = 1
    BY <1>3 DEF StopSend
  <2> HIDE DEF k
  <2>5. k \in DOMAIN senders[n] /\ senders[n][k].sendaddr = addr
    BY <2>3
  <2> QED BY <1>1, <2>4, <2>5, RemovedSender DEF Sends
<1> QED BY <1>2, <1>3

LEMMA EmitKeeps ==
    ASSUME HbTypes, NEW n \in Node, NEW addr \in Node, NEW k \in Int, air[<<n, addr>>] + k \in Nat,
           air' = Emit(air, n, addr, k)
    PROVE  /\ air' \in [Node \X Node -> Nat]
           /\ air'[<<n, addr>>] = air[<<n, addr>>] + k
           /\ \A p, m \in Node : p # n \/ m # addr => air'[<<p, m>>] = air[<<p, m>>]
<1>1. air' = [air EXCEPT ![<<n, addr>>] = air[<<n, addr>>] + k]
  BY DEF Emit
<1>2. air \in [Node \X Node -> Nat]
  BY DEF HbTypes
<1>3. air' \in [Node \X Node -> Nat] /\ air'[<<n, addr>>] = air[<<n, addr>>] + k
  BY <1>1, <1>2
<1>4. ASSUME NEW p \in Node, NEW m \in Node, p # n \/ m # addr
      PROVE  air'[<<p, m>>] = air[<<p, m>>]
  <2>1. <<p, m>> \in Node \X Node /\ <<p, m>> # <<n, addr>>
    BY <1>4
  <2> QED BY <1>1, <1>2, <2>1
<1> QED BY <1>3, <1>4

LEMMA SendsKeep ==
    ASSUME HbTypes, NEW n \in Node, NEW addr \in Node, addr # n, NEW s, Sends(n, addr, s),
           senders' = [senders EXCEPT ![n] = s.senders], air' = Emit(air, n, addr, s.sent)
    PROVE  /\ senders' \in [Node -> Seq(HbSender)] /\ air' \in [Node \X Node -> Nat]
           /\ \A m, p \in Node : \A l :
                  Attended(l, senders[p], m, air[<<p, m>>]) => Attended(l, senders'[p], m, air'[<<p, m>>])
<1>1. s.sent \in Nat /\ s.senders \in Seq(HbSender)
  BY DEF Sends
<1>2. senders' \in [Node -> Seq(HbSender)]
  BY <1>1 DEF HbTypes
<1>3. /\ air' \in [Node \X Node -> Nat] /\ air'[<<n, addr>>] = air[<<n, addr>>] + s.sent
      /\ \A p, m \in Node : p # n \/ m # addr => air'[<<p, m>>] = air[<<p, m>>]
  <2>1. air[<<n, addr>>] \in Nat
    BY DEF HbTypes
  <2>2. air[<<n, addr>>] + s.sent \in Nat /\ s.sent \in Int
    BY <1>1, <2>1
  <2> QED BY <2>2, EmitKeeps
<1>4. ASSUME NEW m \in Node, NEW p \in Node, NEW l, Attended(l, senders[p], m, air[<<p, m>>])
      PROVE  Attended(l, senders'[p], m, air'[<<p, m>>])
  <2>1. air[<<p, m>>] \in Nat
    BY DEF HbTypes
  <2>2. CASE p # n \/ s.sent = 0
    <3>1. senders'[p] = senders[p]
      BY <2>2 DEF HbTypes, Sends
    <3>2. air'[<<p, m>>] = air[<<p, m>>]
      BY <1>3, <2>1, <2>2
    <3> QED BY <1>4, <3>1, <3>2
  <2>3. CASE p = n /\ s.sent = 1
    <3>1. senders'[p] = s.senders
      BY <2>3 DEF HbTypes
    <3>2. SameElsewhere(senders[p], s.senders, addr)
      BY <2>3 DEF Sends
    <3>3. CASE m # addr
      <4>1. air'[<<p, m>>] = air[<<p, m>>]
        BY <1>3, <3>3
      <4> QED BY <1>4, <3>1, <3>2, <3>3, <4>1, OtherSenders
    <3>4. CASE m = addr
      <4>1. air'[<<p, m>>] = air[<<p, m>>] + 1
        BY <1>3, <2>3, <3>4
      <4> QED BY <1>4, <2>1, <4>1, MoreInTheAir
    <3> QED BY <3>3, <3>4
  <2> QED BY <2>2, <2>3 DEF Sends
<1> QED BY <1>2, <1>3, <1>4

\* The parts of HbTypes that an order to listen or to stop listening may change.
LEMMA ListenersKeep ==
    ASSUME HbTypes, NEW n \in Node, NEW L, IsListening(L), n \notin DOMAIN L,
           listeners' = [listeners EXCEPT ![n] = L]
    PROVE  /\ listeners' = [m \in Node |-> listeners'[m]]
           /\ \A m \in Node : IsListening(listeners'[m]) /\ m \notin DOMAIN listeners'[m]
           /\ listeners'[n] = L /\ \A m \in Node \ {n} : listeners'[m] = listeners[m]
<1>1. listeners = [m \in Node |-> listeners[m]]
  BY DEF HbTypes
<1>2. listeners'[n] = L /\ \A m \in Node \ {n} : listeners'[m] = listeners[m]
  BY <1>1
<1>3. listeners' = [m \in Node |-> listeners'[m]]
  BY <1>1
<1>4. \A m \in Node : IsListening(listeners'[m]) /\ m \notin DOMAIN listeners'[m]
  BY <1>2 DEF HbTypes
<1> QED BY <1>2, <1>3, <1>4

LEMMA NewListenerFits == NewListener \in HbListener /\ ~NewListener.timedout /\ NewListener.age = 0
BY TimesAreNat DEF NewListener, HbListener

LEMMA ObeyKeeps ==
    ASSUME HbInv, NEW n \in Node, NEW addr \in Node, NEW sends \in BOOLEAN, NEW expects \in BOOLEAN,
           Obey(n, sends, expects, addr)
    PROVE  HbInv'
<1> DEFINE s == SendHb(n, sends, addr)
<1>1. HbTypes /\ GapInv /\ CheckInv /\ DownInv /\ CmaIsTold /\ addr # n /\ run' = run
  BY DEF HbInv, Obey
<1>2. Sends(n, addr, s)
  <2>1. CASE sends
    BY <1>1, <2>1, StartSends DEF SendHb
  <2>2. CASE ~sends
    BY <1>1, <2>2 DEF SendHb, Sends, HbTypes
  <2> QED BY <2>1, <2>2
<1>3. senders' = [senders EXCEPT ![n] = s.senders] /\ air' = Emit(air, n, addr, s.sent)
  BY DEF Obey
<1> HIDE DEF s
<1>4. /\ senders' \in [Node -> Seq(HbSender)] /\ air' \in [Node \X Node -> Nat]
      /\ \A m, p \in Node : \A l :
             Attended(l, senders[p], m, air[<<p, m>>]) => Attended(l, senders'[p], m, air'[<<p, m>>])
  BY <1>1, <1>2, <1>3, SendsKeep
<1>5. CASE ~expects
  <2>1. UNCHANGED <<run, listeners, checks, told, gap>>
    BY <1>5 DEF Obey
  <2>2. HbTypes'
    BY <1>1, <1>4, <2>1 DEF HbTypes
  <2>3. GapInv'
    <3> SUFFICES ASSUME NEW m \in Node, NEW p \in DOMAIN listeners[m], p \notin gap[m]
                 PROVE  Attended(listeners[m][p], senders'[p], m, air'[<<p, m>>])
      BY <2>1 DEF GapInv
    <3>1. p \in Node
      BY <1>1 DEF HbTypes, IsListening
    <3> QED BY <1>1, <1>4, <3>1 DEF GapInv
  <2>4. CheckInv' /\ DownInv' /\ CmaIsTold'
    BY <1>1, <2>1 DEF CheckInv, DownInv, CmaIsTold
  <2> QED BY <2>2, <2>3, <2>4 DEF HbInv
<1>6. CASE expects
  <2> DEFINE L == Listen(n, addr)
  <2>1. /\ listeners' = [listeners EXCEPT ![n] = L]
        /\ checks' = [checks EXCEPT ![n] = AddCheck(n)]
        /\ told' = [told EXCEPT ![n][addr] = "nothing"]
        /\ gap' = [gap EXCEPT ![n] = @ \ {addr}]
    BY <1>6 DEF Obey
  <2>2. /\ DOMAIN L = DOMAIN listeners[n] \cup {addr} /\ L[addr] = NewListener
        /\ \A p \in DOMAIN listeners[n] \ {addr} : L[p] = listeners[n][p]
        /\ L \in [DOMAIN L -> HbListener]
    BY <1>1, NewListenerFits DEF Listen, HbTypes, IsListening
  <2> HIDE DEF L
  <2>3. IsListening(L) /\ n \notin DOMAIN L
    BY <1>1, <2>2 DEF HbTypes, IsListening
  <2>4. /\ listeners' = [m \in Node |-> listeners'[m]]
        /\ \A m \in Node : IsListening(listeners'[m]) /\ m \notin DOMAIN listeners'[m]
        /\ listeners'[n] = L /\ \A m \in Node \ {n} : listeners'[m] = listeners[m]
    BY <1>1, <2>1, <2>3, ListenersKeep
  <2>5. /\ checks' \in [Node -> [timers : Nat, fired : Nat]]
        /\ checks'[n].fired = checks[n].fired /\ checks'[n].timers >= checks[n].timers
        /\ DOMAIN listeners[n] = {} => checks'[n].timers > 0
        /\ \A m \in Node \ {n} : checks'[m] = checks[m]
    <3>1. AddCheck(n) \in [timers : Nat, fired : Nat]
          /\ AddCheck(n).fired = checks[n].fired /\ AddCheck(n).timers >= checks[n].timers
          /\ (DOMAIN listeners[n] = {} => AddCheck(n).timers > 0)
      BY <1>1 DEF AddCheck, HbTypes
    <3> QED BY <1>1, <2>1, <3>1 DEF HbTypes
  <2>6. told' \in [Node -> [Node -> Said]] /\ gap' \in [Node -> SUBSET Node]
    BY <1>1, <2>1 DEF HbTypes, Said
  <2>7. HbTypes'
    <3>1. \A m \in Node : checks'[m].fired <= checks'[m].timers
      <4>1. checks[n].fired \in Nat /\ checks[n].timers \in Nat /\ checks'[n].timers \in Nat
            /\ (\A m \in Node : checks[m].fired <= checks[m].timers)
        BY <1>1, <2>5 DEF HbTypes
      <4>2. checks'[n].fired <= checks'[n].timers
        BY <2>5, <4>1
      <4> QED BY <2>5, <4>1, <4>2
    <3> QED BY <1>1, <1>4, <2>4, <2>5, <2>6, <3>1 DEF HbTypes
  <2>8. GapInv'
    <3> SUFFICES ASSUME NEW m \in Node, NEW p \in DOMAIN listeners'[m], p \notin gap'[m]
                 PROVE  Attended(listeners'[m][p], senders'[p], m, air'[<<p, m>>])
      BY DEF GapInv
    <3>1. p \in Node
      BY <2>4 DEF IsListening
    <3>2. CASE m = n /\ p = addr
      BY <2>2, <2>4, <3>2, FreshIsAttended, NewListenerFits
    <3>3. CASE ~(m = n /\ p = addr)
      <4>1. p \in DOMAIN listeners[m] /\ listeners'[m][p] = listeners[m][p] /\ p \notin gap[m]
        BY <1>1, <2>1, <2>2, <2>4, <3>3 DEF HbTypes
      <4> QED BY <1>1, <1>4, <3>1, <4>1 DEF GapInv
    <3> QED BY <3>2, <3>3
  <2>9. CheckInv'
    <3> SUFFICES ASSUME NEW m \in Node PROVE Checked(listeners'[m], checks'[m])
      BY DEF CheckInv
    <3>1. CASE m # n
      BY <1>1, <2>4, <2>5, <3>1 DEF CheckInv
    <3>2. CASE m = n
      <4>1. Checked(listeners[n], checks[n]) /\ checks[n] \in [timers : Nat, fired : Nat]
            /\ checks'[n] \in [timers : Nat, fired : Nat]
        BY <1>1, <2>5 DEF CheckInv, HbTypes
      <4>2. \A p \in DOMAIN L : p = addr \/ (p \in DOMAIN listeners[n] /\ L[p] = listeners[n][p])
        BY <2>2
      <4> QED BY <2>2, <2>4, <2>5, <3>2, <4>1, <4>2, NewListenerFits, TimesAreNat DEF Checked
    <3> QED BY <3>1, <3>2
  <2>10. CmaIsTold'
    <3> SUFFICES ASSUME NEW m \in Node, run[m] = "up", NEW p \in DOMAIN listeners'[m]
                 PROVE  listeners'[m][p].timedout <=> told'[m][p] = "dead"
      BY <1>1 DEF CmaIsTold
    <3>1. p \in Node
      BY <2>4 DEF IsListening
    <3>2. CASE m = n /\ p = addr
      <4>1. told'[m][p] = "nothing"
        BY <1>1, <2>1, <3>2 DEF HbTypes
      <4> QED BY <2>2, <2>4, <3>2, <4>1, NewListenerFits
    <3>3. CASE ~(m = n /\ p = addr)
      <4>1. p \in DOMAIN listeners[m] /\ listeners'[m][p] = listeners[m][p]
        BY <2>2, <2>4, <3>3
      <4>2. told'[m][p] = told[m][p]
        BY <1>1, <2>1, <3>1, <3>3 DEF HbTypes
      <4> QED BY <1>1, <4>1, <4>2 DEF CmaIsTold
    <3> QED BY <3>2, <3>3
  <2>11. DownInv'
    BY <1>1, <2>4 DEF DownInv, Obey
  <2> QED BY <2>7, <2>8, <2>9, <2>10, <2>11 DEF HbInv
<1> QED BY <1>5, <1>6

LEMMA ObeyStopKeeps ==
    ASSUME HbInv, NEW n \in Node, NEW addr \in Node, NEW sends \in BOOLEAN, NEW expects \in BOOLEAN,
           ObeyStop(n, sends, expects, addr)
    PROVE  HbInv'
<1> DEFINE s == IF sends THEN StopSend(n, addr) ELSE [senders |-> senders[n], sent |-> 0]
<1>1. HbTypes /\ GapInv /\ CheckInv /\ DownInv /\ CmaIsTold /\ addr # n /\ run' = run /\ checks' = checks
  BY DEF HbInv, ObeyStop
<1>2. Sends(n, addr, s)
  <2>1. CASE sends
    BY <1>1, <2>1, StopSends
  <2>2. CASE ~sends
    BY <1>1, <2>2 DEF Sends, HbTypes
  <2> QED BY <2>1, <2>2
<1>3. senders' = [senders EXCEPT ![n] = s.senders] /\ air' = Emit(air, n, addr, s.sent)
  BY DEF ObeyStop
<1> HIDE DEF s
<1>4. /\ senders' \in [Node -> Seq(HbSender)] /\ air' \in [Node \X Node -> Nat]
      /\ \A m, p \in Node : \A l :
             Attended(l, senders[p], m, air[<<p, m>>]) => Attended(l, senders'[p], m, air'[<<p, m>>])
  BY <1>1, <1>2, <1>3, SendsKeep
<1>5. CASE ~expects
  <2>1. UNCHANGED <<listeners, told, gap>>
    BY <1>5 DEF ObeyStop
  <2>2. HbTypes'
    BY <1>1, <1>4, <2>1 DEF HbTypes
  <2>3. GapInv'
    <3> SUFFICES ASSUME NEW m \in Node, NEW p \in DOMAIN listeners[m], p \notin gap[m]
                 PROVE  Attended(listeners[m][p], senders'[p], m, air'[<<p, m>>])
      BY <2>1 DEF GapInv
    <3>1. p \in Node
      BY <1>1 DEF HbTypes, IsListening
    <3> QED BY <1>1, <1>4, <3>1 DEF GapInv
  <2>4. CheckInv' /\ DownInv' /\ CmaIsTold'
    BY <1>1, <2>1 DEF CheckInv, DownInv, CmaIsTold
  <2> QED BY <2>2, <2>3, <2>4 DEF HbInv
<1>6. CASE expects
  <2> DEFINE L == Unlisten(n, addr)
  <2>1. /\ listeners' = [listeners EXCEPT ![n] = L]
        /\ told' = [told EXCEPT ![n][addr] = "nothing"]
        /\ gap' = [gap EXCEPT ![n] = @ \ {addr}]
    BY <1>6 DEF ObeyStop
  <2>2. /\ DOMAIN L = DOMAIN listeners[n] \ {addr}
        /\ \A p \in DOMAIN listeners[n] \ {addr} : L[p] = listeners[n][p]
        /\ L \in [DOMAIN L -> HbListener]
    BY <1>1 DEF Unlisten, HbTypes, IsListening
  <2> HIDE DEF L
  <2>3. IsListening(L) /\ n \notin DOMAIN L
    BY <1>1, <2>2 DEF HbTypes, IsListening
  <2>4. /\ listeners' = [m \in Node |-> listeners'[m]]
        /\ \A m \in Node : IsListening(listeners'[m]) /\ m \notin DOMAIN listeners'[m]
        /\ listeners'[n] = L /\ \A m \in Node \ {n} : listeners'[m] = listeners[m]
    BY <1>1, <2>1, <2>3, ListenersKeep
  <2>5. \A m \in Node : \A p \in DOMAIN listeners'[m] :
            /\ ~(m = n /\ p = addr) /\ p \in Node
            /\ p \in DOMAIN listeners[m] /\ listeners'[m][p] = listeners[m][p]
    BY <2>2, <2>4 DEF IsListening
  <2>6. told' \in [Node -> [Node -> Said]] /\ gap' \in [Node -> SUBSET Node]
    BY <1>1, <2>1 DEF HbTypes, Said
  <2>7. HbTypes'
    BY <1>1, <1>4, <2>4, <2>6 DEF HbTypes
  <2>8. GapInv'
    <3> SUFFICES ASSUME NEW m \in Node, NEW p \in DOMAIN listeners'[m], p \notin gap'[m]
                 PROVE  Attended(listeners'[m][p], senders'[p], m, air'[<<p, m>>])
      BY DEF GapInv
    <3>1. p \notin gap[m]
      BY <1>1, <2>1, <2>5 DEF HbTypes
    <3> QED BY <1>1, <1>4, <2>5, <3>1 DEF GapInv
  <2>9. CheckInv'
    <3> SUFFICES ASSUME NEW m \in Node PROVE Checked(listeners'[m], checks[m])
      BY <1>1 DEF CheckInv
    <3>1. DOMAIN listeners'[m] # {} => DOMAIN listeners[m] # {}
      BY <2>5
    <3> QED BY <1>1, <2>5, <3>1 DEF CheckInv, Checked
  <2>10. CmaIsTold'
    <3> SUFFICES ASSUME NEW m \in Node, run[m] = "up", NEW p \in DOMAIN listeners'[m]
                 PROVE  listeners'[m][p].timedout <=> told'[m][p] = "dead"
      BY <1>1 DEF CmaIsTold
    <3>1. told \in [Node -> [Node -> Said]] /\ p \in Node /\ ~(m = n /\ p = addr)
      BY <1>1, <2>5 DEF HbTypes
    <3>2. told'[m][p] = told[m][p]
      BY <2>1, <3>1
    <3> QED BY <1>1, <2>5, <3>2 DEF CmaIsTold
  <2>11. DownInv'
    BY <1>1, <2>2, <2>4 DEF DownInv
  <2> QED BY <2>7, <2>8, <2>9, <2>10, <2>11 DEF HbInv
<1> QED BY <1>5, <1>6

-----------------------------------------------------------------------------
(* Heartbeats                                                              *)

\* The timer of a sender fires: what it sends is in the air.
LEMMA SendKeeps ==
    ASSUME HbInv, NEW n \in Node, NEW i \in DOMAIN senders[n], SendHeartbeat(n, i)
    PROVE  HbInv'
<1> DEFINE s == senders[n]
           addr == s[i].sendaddr
           r == [s EXCEPT ![i] = [sendaddr |-> addr, due |-> Interval]]
<1>1. HbTypes /\ GapInv /\ CheckInv /\ DownInv /\ CmaIsTold
      /\ UNCHANGED <<run, listeners, checks, martians, told, gap, events>>
  BY DEF HbInv, SendHeartbeat
<1>2. s \in Seq(HbSender) /\ i \in 1..Len(s) /\ Len(s) \in Nat
      /\ s \in [1..Len(s) -> HbSender] /\ DOMAIN s = 1..Len(s)
  BY <1>1, LenProperties, IsASeq DEF HbTypes
<1>3. addr \in Node /\ s[i] \in HbSender
  BY <1>2 DEF HbSender
<1>4. senders' = [senders EXCEPT ![n] = r]
  <2>1. [s[i] EXCEPT !.due = Interval] = [sendaddr |-> addr, due |-> Interval]
    BY <1>3 DEF HbSender
  <2>2. senders' = [senders EXCEPT ![n][i].due = Interval]
    BY DEF SendHeartbeat
  <2>3. senders' = [senders EXCEPT ![n] = [s EXCEPT ![i] = [s[i] EXCEPT !.due = Interval]]]
    BY <2>2
  <2> QED BY <2>1, <2>3
<1>5. r \in Seq(HbSender) /\ r \in [1..Len(s) -> HbSender] /\ DOMAIN r = 1..Len(s)
      /\ (\A j \in 1..Len(s) : r[j] = IF j = i THEN [sendaddr |-> addr, due |-> Interval] ELSE s[j])
  <2>1. [sendaddr |-> addr, due |-> Interval] \in HbSender
    BY <1>3, TimesAreNat DEF HbSender
  <2> QED BY <1>2, <2>1
<1>6. SameElsewhere(s, r, addr)
  <2> SUFFICES ASSUME NEW q \in Node \ {addr}, NEW d PROVE Due(r, q, d) <=> Due(s, q, d)
    BY DEF SameElsewhere
  <2>1. \A j \in 1..Len(s) : r[j].sendaddr = s[j].sendaddr /\ (j # i => r[j] = s[j])
    BY <1>2, <1>5
  <2>2. DOMAIN r = 1..Len(s) /\ DOMAIN s = 1..Len(s) /\ i \in 1..Len(s) /\ s[i].sendaddr = addr
    BY <1>2, <1>5
  <2> HIDE DEF r, s, addr
  <2> QED BY <2>1, <2>2 DEF Due
<1>7. air' = Emit(air, n, addr, 1)
  BY DEF SendHeartbeat
<1> HIDE DEF r, s, addr
<1>8. /\ air' \in [Node \X Node -> Nat] /\ air'[<<n, addr>>] = air[<<n, addr>>] + 1
      /\ \A p, m \in Node : p # n \/ m # addr => air'[<<p, m>>] = air[<<p, m>>]
  <2>1. air[<<n, addr>>] \in Nat
    BY <1>1, <1>3 DEF HbTypes
  <2>2. air[<<n, addr>>] + 1 \in Nat /\ 1 \in Int
    BY <2>1
  <2> QED BY <1>1, <1>3, <1>7, <2>2, EmitKeeps
<1>9. /\ senders' \in [Node -> Seq(HbSender)] /\ senders'[n] = r
      /\ \A m \in Node \ {n} : senders'[m] = senders[m]
  BY <1>1, <1>4, <1>5 DEF HbTypes
<1>10. HbTypes'
  BY <1>1, <1>8, <1>9 DEF HbTypes
<1>11. GapInv'
  <2> SUFFICES ASSUME NEW m \in Node, NEW p \in DOMAIN listeners[m], p \notin gap[m]
               PROVE  Attended(listeners[m][p], senders'[p], m, air'[<<p, m>>])
    BY <1>1 DEF GapInv
  <2>1. p \in Node /\ Attended(listeners[m][p], senders[p], m, air[<<p, m>>]) /\ air[<<p, m>>] \in Nat
    BY <1>1 DEF HbTypes, IsListening, GapInv
  <2>2. CASE p # n
    BY <1>8, <1>9, <2>1, <2>2
  <2>3. CASE p = n /\ m # addr
    <3>1. Attended(listeners[m][p], r, m, air[<<p, m>>])
      BY <1>3, <1>6, <2>1, <2>3, OtherSenders DEF s
    <3> QED BY <1>8, <1>9, <2>1, <2>3, <3>1
  <2>4. CASE p = n /\ m = addr
    BY <1>8, <1>9, <2>1, <2>4, MoreInTheAir
  <2> QED BY <2>2, <2>3, <2>4
<1>12. CheckInv' /\ DownInv' /\ CmaIsTold'
  BY <1>1 DEF CheckInv, DownInv, CmaIsTold
<1> QED BY <1>10, <1>11, <1>12 DEF HbInv

\* A heartbeat arrives: its listener, if there is one, starts anew.
LEMMA GotKeeps ==
    ASSUME HbInv, NEW n \in Node, NEW src \in Node, GotHeartbeat(n, src)
    PROVE  HbInv'
<1>1. HbTypes /\ GapInv /\ CheckInv /\ DownInv /\ CmaIsTold /\ UNCHANGED <<run, senders, checks, events>>
  BY DEF HbInv, GotHeartbeat
<1>2. /\ air' \in [Node \X Node -> Nat]
      /\ \A p, m \in Node : p # src \/ m # n => air'[<<p, m>>] = air[<<p, m>>]
  <2>1. air[<<src, n>>] \in Nat /\ air[<<src, n>>] > 0 /\ air' = Emit(air, src, n, -1)
    BY <1>1 DEF HbTypes, GotHeartbeat
  <2>2. air[<<src, n>>] + (-1) \in Nat /\ -1 \in Int
    BY <2>1
  <2> QED BY <1>1, <2>1, <2>2, EmitKeeps
<1>3. CASE run[n] # "down" /\ src \in DOMAIN listeners[n]
  <2> DEFINE l == listeners[n][src]
             L == [listeners[n] EXCEPT ![src] = Refresh(l)]
  <2>1. /\ listeners' = [listeners EXCEPT ![n] = L]
        /\ told' = IF Lateness(l) = "nothing" THEN told ELSE Tell(n, src, Lateness(l))
        /\ gap' = [gap EXCEPT ![n] = @ \ {src}]
    <3>1. listeners' = [listeners EXCEPT ![n][src] = Refresh(l)]
      BY <1>3 DEF GotHeartbeat
    <3> QED BY <1>3, <3>1 DEF GotHeartbeat
  <2>2. Refresh(l) \in HbListener /\ ~Refresh(l).timedout /\ Refresh(l).age = 0
    BY TimesAreNat DEF Refresh, HbListener
  <2>3. /\ DOMAIN L = DOMAIN listeners[n] /\ L[src] = Refresh(l)
        /\ \A p \in DOMAIN listeners[n] \ {src} : L[p] = listeners[n][p]
        /\ L \in [DOMAIN L -> HbListener] /\ listeners[n] \in [DOMAIN listeners[n] -> HbListener]
    BY <1>1, <1>3, <2>2 DEF HbTypes, IsListening
  <2>4. Lateness(l) \in {"nothing", "late", "backalive"} /\ l \in HbListener
        /\ (Lateness(l) = "nothing" => ~l.timedout)
    <3>1. l \in HbListener
      BY <1>3, <2>3
    <3> QED BY <3>1 DEF Lateness, HbListener
  <2> HIDE DEF L
  <2>5. IsListening(L) /\ n \notin DOMAIN L
    BY <1>1, <2>3 DEF HbTypes, IsListening
  <2>6. /\ listeners' = [m \in Node |-> listeners'[m]]
        /\ \A m \in Node : IsListening(listeners'[m]) /\ m \notin DOMAIN listeners'[m]
        /\ listeners'[n] = L /\ \A m \in Node \ {n} : listeners'[m] = listeners[m]
    BY <1>1, <2>1, <2>5, ListenersKeep
  <2>7. /\ told' \in [Node -> [Node -> Said]]
        /\ \A m, p \in Node : m # n \/ p # src => told'[m][p] = told[m][p]
        /\ run[n] = "up" => told'[n][src] # "dead"
    <3>1. told \in [Node -> [Node -> Said]]
      BY <1>1 DEF HbTypes
    <3>2. CASE Lateness(l) = "nothing"
      <4>1. ~l.timedout /\ told' = told
        BY <2>1, <2>4, <3>2
      <4>2. run[n] = "up" => told[n][src] # "dead"
        BY <1>1, <1>3, <4>1 DEF CmaIsTold
      <4> QED BY <3>1, <4>1, <4>2
    <3>3. CASE Lateness(l) # "nothing" /\ run[n] # "up"
      BY <2>1, <3>1, <3>3 DEF Tell, Reports
    <3>4. CASE Lateness(l) # "nothing" /\ run[n] = "up"
      <4> DEFINE w == Lateness(l)
      <4>1. told' = [told EXCEPT ![n][src] = w] /\ w \in Said /\ w # "dead"
        BY <2>1, <2>4, <3>4 DEF Tell, Reports, Said
      <4> HIDE DEF w
      <4> QED BY <3>1, <4>1
    <3> QED BY <3>2, <3>3, <3>4
  <2> HIDE DEF l
  <2>8. gap' \in [Node -> SUBSET Node]
    BY <1>1, <2>1 DEF HbTypes
  <2>9. HbTypes'
    BY <1>1, <1>2, <2>6, <2>7, <2>8 DEF HbTypes
  <2>10. ASSUME NEW m \in Node, NEW p \in DOMAIN listeners'[m], ~(m = n /\ p = src)
         PROVE  p \in Node /\ p \in DOMAIN listeners[m] /\ listeners'[m][p] = listeners[m][p]
    <3>1. p \in Node
      BY <2>6, <2>10 DEF IsListening
    <3> QED BY <2>3, <2>6, <2>10, <3>1
  <2>11. listeners'[n][src] = Refresh(l)
    BY <2>3, <2>6
  <2>12. GapInv'
    <3> SUFFICES ASSUME NEW m \in Node, NEW p \in DOMAIN listeners'[m], p \notin gap'[m]
                 PROVE  Attended(listeners'[m][p], senders[p], m, air'[<<p, m>>])
      BY <1>1 DEF GapInv
    <3>1. CASE m = n /\ p = src
      BY <2>2, <2>11, <3>1, FreshIsAttended
    <3>2. CASE ~(m = n /\ p = src)
      <4>1. p \in Node /\ p \in DOMAIN listeners[m] /\ listeners'[m][p] = listeners[m][p]
        BY <2>10, <3>2
      <4>2. p \notin gap[m]
        BY <1>1, <2>1, <3>2 DEF HbTypes
      <4>3. air'[<<p, m>>] = air[<<p, m>>]
        BY <1>2, <3>2, <4>1
      <4> QED BY <1>1, <4>1, <4>2, <4>3 DEF GapInv
    <3> QED BY <3>1, <3>2
  <2>13. CheckInv'
    <3> SUFFICES ASSUME NEW m \in Node PROVE Checked(listeners'[m], checks[m])
      BY <1>1 DEF CheckInv
    <3>1. DOMAIN listeners'[m] = DOMAIN listeners[m]
      BY <2>3, <2>6
    <3>2. \A p \in DOMAIN listeners'[m] :
              listeners'[m][p] = listeners[m][p] \/ listeners'[m][p].age = 0
      BY <2>2, <2>10, <2>11
    <3> QED BY <1>1, <3>1, <3>2, TimesAreNat DEF CheckInv, Checked
  <2>14. CmaIsTold'
    <3> SUFFICES ASSUME NEW m \in Node, run[m] = "up", NEW p \in DOMAIN listeners'[m]
                 PROVE  listeners'[m][p].timedout <=> told'[m][p] = "dead"
      BY <1>1 DEF CmaIsTold
    <3>1. CASE m = n /\ p = src
      BY <2>2, <2>7, <2>11, <3>1
    <3>2. CASE ~(m = n /\ p = src)
      <4>1. p \in Node /\ p \in DOMAIN listeners[m] /\ listeners'[m][p] = listeners[m][p]
        BY <2>10, <3>2
      <4>2. told'[m][p] = told[m][p]
        BY <2>7, <3>2, <4>1
      <4> QED BY <1>1, <4>1, <4>2 DEF CmaIsTold
    <3> QED BY <3>1, <3>2
  <2>15. DownInv'
    BY <1>1, <2>3, <2>6 DEF DownInv
  <2> QED BY <2>9, <2>12, <2>13, <2>14, <2>15 DEF HbInv
<1>4. CASE ~(run[n] # "down" /\ src \in DOMAIN listeners[n])
  <2>1. UNCHANGED <<listeners, told, gap>>
    BY <1>4 DEF GotHeartbeat
  <2>2. HbTypes'
    BY <1>1, <1>2, <2>1 DEF HbTypes
  <2>3. GapInv'
    <3> SUFFICES ASSUME NEW m \in Node, NEW p \in DOMAIN listeners[m], p \notin gap[m]
                 PROVE  Attended(listeners[m][p], senders[p], m, air'[<<p, m>>])
      BY <1>1, <2>1 DEF GapInv
    <3>1. p \in Node /\ (p # src \/ m # n)
      BY <1>1, <1>4 DEF HbTypes, IsListening, DownInv
    <3> QED BY <1>1, <1>2, <3>1 DEF GapInv
  <2>4. CheckInv' /\ DownInv' /\ CmaIsTold'
    BY <1>1, <2>1 DEF CheckInv, DownInv, CmaIsTold
  <2> QED BY <2>2, <2>3, <2>4 DEF HbInv
<1> QED BY <1>3, <1>4

\* A heartbeat is lost: its listener, if there is one, has missed it.
LEMMA LoseKeeps ==
    ASSUME HbInv, NEW src \in Node, NEW dst \in Node, Lose(src, dst)
    PROVE  HbInv'
<1>1. HbTypes /\ GapInv /\ CheckInv /\ DownInv /\ CmaIsTold
      /\ UNCHANGED <<run, senders, listeners, checks, told>>
  BY DEF HbInv, Lose
<1>2. gap' = [gap EXCEPT ![dst] = @ \cup ({src} \cap DOMAIN listeners[dst])]
  BY DEF Lose
<1>3. /\ air' \in [Node \X Node -> Nat]
      /\ \A p, m \in Node : p # src \/ m # dst => air'[<<p, m>>] = air[<<p, m>>]
  <2>1. air[<<src, dst>>] \in Nat /\ air[<<src, dst>>] > 0 /\ air' = Emit(air, src, dst, -1)
    BY <1>1 DEF HbTypes, Lose
  <2>2. air[<<src, dst>>] + (-1) \in Nat /\ -1 \in Int
    BY <2>1
  <2> QED BY <1>1, <2>1, <2>2, EmitKeeps
<1>4. gap' \in [Node -> SUBSET Node] /\ \A m \in Node : gap[m] \subseteq gap'[m]
  BY <1>1, <1>2 DEF HbTypes
<1>5. HbTypes'
  BY <1>1, <1>3, <1>4 DEF HbTypes
<1>6. GapInv'
  <2> SUFFICES ASSUME NEW m \in Node, NEW p \in DOMAIN listeners[m], p \notin gap'[m]
               PROVE  Attended(listeners[m][p], senders[p], m, air'[<<p, m>>])
    BY <1>1 DEF GapInv
  <2>1. p \in Node /\ p \notin gap[m] /\ (p # src \/ m # dst)
    BY <1>1, <1>2, <1>4 DEF HbTypes, IsListening
  <2> QED BY <1>1, <1>3, <2>1 DEF GapInv
<1>7. CheckInv' /\ DownInv' /\ CmaIsTold'
  BY <1>1 DEF CheckInv, DownInv, CmaIsTold
<1> QED BY <1>5, <1>6, <1>7 DEF HbInv

-----------------------------------------------------------------------------
(* Timeouts                                                                *)

\* A timer fires: who is silent for too long becomes dead, and has missed something.
LEMMA CheckKeeps ==
    ASSUME HbInv, NEW n \in Node, CheckTimeouts(n)
    PROVE  HbInv'
<1> DEFINE silent == {p \in DOMAIN listeners[n] : IsSilent(listeners[n][p])}
           L == [p \in DOMAIN listeners[n] |->
                   IF p \in silent THEN [listeners[n][p] EXCEPT !.timedout = TRUE] ELSE listeners[n][p]]
           c == AfterCheck(n)
<1>1. /\ HbTypes /\ GapInv /\ CheckInv /\ DownInv /\ CmaIsTold
      /\ UNCHANGED <<run, senders, martians, air, gap, events>>
      /\ checks[n].fired < checks[n].timers /\ run[n] # "down"
  BY DEF HbInv, CheckTimeouts
<1>2. /\ listeners' = [listeners EXCEPT ![n] = L]
      /\ told' = IF Reports(n)
                 THEN [told EXCEPT ![n] = [p \in Node |-> IF p \in silent THEN "dead" ELSE told[n][p]]]
                 ELSE told
      /\ checks' = [checks EXCEPT ![n] = c]
  <2>1. listeners = [m \in Node |-> listeners[m]] /\ told \in [Node -> [Node -> Said]]
        /\ checks \in [Node -> [timers : Nat, fired : Nat]]
    BY <1>1 DEF HbTypes
  <2>2. listeners' = [listeners EXCEPT ![n] = L]
    BY <2>1 DEF CheckTimeouts
  <2>3. told' = IF Reports(n)
                THEN [told EXCEPT ![n] = [p \in Node |-> IF p \in silent THEN "dead" ELSE told[n][p]]]
                ELSE told
    BY <2>1 DEF CheckTimeouts
  <2>4. checks' = [checks EXCEPT ![n] = c]
    BY DEF CheckTimeouts
  <2> QED BY <2>2, <2>3, <2>4
<1>3. \A p \in DOMAIN listeners[n] : listeners[n][p] \in HbListener /\ p \in Node
  BY <1>1 DEF HbTypes, IsListening
<1>4. /\ DOMAIN L = DOMAIN listeners[n] /\ L \in [DOMAIN L -> HbListener]
      /\ \A p \in silent : L[p].timedout /\ L[p].age = listeners[n][p].age
      /\ \A p \in DOMAIN listeners[n] \ silent : L[p] = listeners[n][p]
  BY <1>3 DEF HbListener
<1>5. \A p \in DOMAIN listeners[n] : p \in silent <=> IsSilent(listeners[n][p])
  OBVIOUS
<1>6. c \in [timers : Nat, fired : Nat] /\ c.fired <= c.timers
      /\ (DOMAIN listeners[n] # {} => c.timers > 0)
  <2>1. checks[n] \in [timers : Nat, fired : Nat]
    BY <1>1 DEF HbTypes
  <2> QED BY <1>1, <2>1 DEF AfterCheck
<1>7. silent \subseteq DOMAIN listeners[n]
  OBVIOUS
<1> HIDE DEF L, c, silent
<1>8. IsListening(L) /\ n \notin DOMAIN L
  BY <1>1, <1>4 DEF HbTypes, IsListening
<1>9. /\ listeners' = [m \in Node |-> listeners'[m]]
      /\ \A m \in Node : IsListening(listeners'[m]) /\ m \notin DOMAIN listeners'[m]
      /\ listeners'[n] = L /\ \A m \in Node \ {n} : listeners'[m] = listeners[m]
  BY <1>1, <1>2, <1>8, ListenersKeep
<1>10. /\ checks' \in [Node -> [timers : Nat, fired : Nat]]
       /\ checks'[n] = c /\ \A m \in Node \ {n} : checks'[m] = checks[m]
  BY <1>1, <1>2, <1>6 DEF HbTypes
<1>11. /\ told' \in [Node -> [Node -> Said]]
       /\ \A m \in Node \ {n} : told'[m] = told[m]
       /\ run[n] = "up" => \A p \in Node : told'[n][p] = IF p \in silent THEN "dead" ELSE told[n][p]
  <2>1. told \in [Node -> [Node -> Said]] /\ "dead" \in Said
    BY <1>1 DEF HbTypes, Said
  <2> QED BY <1>2, <2>1 DEF Reports
<1>12. HbTypes'
  BY <1>1, <1>6, <1>9, <1>10, <1>11 DEF HbTypes
<1>13. ASSUME NEW p \in DOMAIN listeners[n], p \in silent PROVE p \in gap[n]
  <2>1. ~listeners[n][p].timedout /\ listeners[n][p].age > Deadtime
    BY <1>5, <1>13 DEF IsSilent
  <2>2. listeners[n][p].age \in Nat
    BY <1>3, TimesAreNat DEF HbListener
  <2>3. ~Attended(listeners[n][p], senders[p], n, air[<<p, n>>])
    BY <2>1, <2>2, TimesAreNat DEF Attended
  <2> QED BY <1>1, <2>3 DEF GapInv
<1>14. GapInv'
  <2> SUFFICES ASSUME NEW m \in Node, NEW p \in DOMAIN listeners'[m], p \notin gap[m]
               PROVE  Attended(listeners'[m][p], senders[p], m, air[<<p, m>>])
    BY <1>1 DEF GapInv
  <2>1. p \in DOMAIN listeners[m] /\ listeners'[m][p] = listeners[m][p]
    BY <1>4, <1>9, <1>13
  <2> QED BY <1>1, <2>1 DEF GapInv
<1>15. CheckInv'
  <2> SUFFICES ASSUME NEW m \in Node PROVE Checked(listeners'[m], checks'[m])
    BY DEF CheckInv
  <2>1. CASE m # n
    BY <1>1, <1>9, <1>10, <2>1 DEF CheckInv
  <2>2. CASE m = n
    <3>1. \A p \in DOMAIN L : L[p].timedout \/ L[p].age <= Deadtime
      <4> SUFFICES ASSUME NEW p \in DOMAIN L, p \notin silent
                   PROVE  L[p].timedout \/ L[p].age <= Deadtime
        BY <1>4
      <4>1. L[p] = listeners[n][p] /\ ~IsSilent(listeners[n][p]) /\ listeners[n][p] \in HbListener
        BY <1>3, <1>4, <1>5
      <4> QED BY <4>1, TimesAreNat DEF IsSilent, HbListener
    <3>2. \A p \in DOMAIN L : L[p].timedout \/ L[p].age <= Deadtime + 1
      <4>1. \A p \in DOMAIN L : L[p].age \in Int
        BY <1>4, TimesAreNat DEF HbListener
      <4> QED BY <3>1, <4>1, TimesAreNat
    <3> QED BY <1>4, <1>6, <1>9, <1>10, <2>2, <3>1, <3>2 DEF Checked
  <2> QED BY <2>1, <2>2
<1>16. CmaIsTold'
  <2> SUFFICES ASSUME NEW m \in Node, run[m] = "up", NEW p \in DOMAIN listeners'[m]
               PROVE  listeners'[m][p].timedout <=> told'[m][p] = "dead"
    BY <1>1 DEF CmaIsTold
  <2>1. CASE m # n
    BY <1>1, <1>9, <1>11, <2>1 DEF CmaIsTold
  <2>2. CASE m = n /\ p \in silent
    BY <1>3, <1>4, <1>7, <1>9, <1>11, <2>2
  <2>3. CASE m = n /\ p \notin silent
    <3>1. p \in DOMAIN listeners[n] /\ L[p] = listeners[n][p] /\ p \in Node
      BY <1>3, <1>4, <1>9, <2>3
    <3>2. told'[n][p] = told[n][p]
      BY <1>11, <2>3, <3>1
    <3> QED BY <1>1, <1>9, <2>3, <3>1, <3>2 DEF CmaIsTold
  <2> QED BY <2>1, <2>2, <2>3
<1>17. DownInv'
  BY <1>1, <1>9 DEF DownInv
<1> QED BY <1>12, <1>14, <1>15, <1>16, <1>17 DEF HbInv

-----------------------------------------------------------------------------
(* The end of a process                                                    *)

LEMMA InitiateKeeps ==
    ASSUME HbInv, NEW n \in Node, NanoInitiateShutdown(n)
    PROVE  HbInv'
<1>1. HbTypes /\ GapInv /\ CheckInv /\ DownInv /\ CmaIsTold
      /\ UNCHANGED <<senders, listeners, checks, martians, air, told, gap>>
  BY DEF HbInv, NanoInitiateShutdown
<1>2. run' = [run EXCEPT ![n] = "stopping"] /\ run \in [Node -> {"up", "stopping", "down"}]
  BY <1>1 DEF NanoInitiateShutdown, HbTypes
<1>3. HbTypes'
  BY <1>1, <1>2 DEF HbTypes
<1>4. GapInv' /\ CheckInv'
  BY <1>1 DEF GapInv, CheckInv
<1>5. DownInv' /\ CmaIsTold'
  BY <1>1, <1>2 DEF DownInv, CmaIsTold
<1> QED BY <1>3, <1>4, <1>5 DEF HbInv

LEMMA ShutdownKeeps ==
    ASSUME HbInv, NEW n \in Node, NanoShutdown(n)
    PROVE  HbInv'
<1>1. HbTypes /\ GapInv /\ CheckInv /\ DownInv /\ CmaIsTold /\ air' = air
  BY DEF HbInv, NanoShutdown
<1>2. /\ run' = [run EXCEPT ![n] = "down"]
      /\ senders' = [senders EXCEPT ![n] = <<>>]
      /\ listeners' = [listeners EXCEPT ![n] = <<>>]
      /\ checks' = [checks EXCEPT ![n] = [timers |-> 0, fired |-> 0]]
      /\ told' = [told EXCEPT ![n] = [p \in Node |-> "nothing"]]
      /\ gap' = [gap EXCEPT ![n] = {}]
  BY DEF NanoShutdown
<1>3. IsListening(<<>>) /\ DOMAIN <<>> = {}
  BY DEF IsListening
<1>4. /\ listeners' = [m \in Node |-> listeners'[m]]
      /\ \A m \in Node : IsListening(listeners'[m]) /\ m \notin DOMAIN listeners'[m]
      /\ listeners'[n] = <<>> /\ \A m \in Node \ {n} : listeners'[m] = listeners[m]
  BY <1>1, <1>2, <1>3, ListenersKeep
<1>5. /\ senders' \in [Node -> Seq(HbSender)] /\ senders'[n] = <<>>
      /\ \A m \in Node \ {n} : senders'[m] = senders[m]
  BY <1>1, <1>2, EmptySeq DEF HbTypes
<1>6. /\ checks' \in [Node -> [timers : Nat, fired : Nat]]
      /\ checks'[n].fired = 0 /\ checks'[n].timers = 0
      /\ \A m \in Node \ {n} : checks'[m] = checks[m]
  BY <1>1, <1>2 DEF HbTypes
<1>7. /\ told' \in [Node -> [Node -> Said]] /\ \A m \in Node \ {n} : told'[m] = told[m]
  BY <1>1, <1>2 DEF HbTypes, Said
<1>8. /\ gap' \in [Node -> SUBSET Node] /\ \A m \in Node \ {n} : gap'[m] = gap[m]
      /\ run' \in [Node -> {"up", "stopping", "down"}] /\ \A m \in Node \ {n} : run'[m] = run[m]
  BY <1>1, <1>2 DEF HbTypes
<1>9. HbTypes'
  <2>1. air \in [Node \X Node -> Nat] /\ \A m \in Node : checks[m].fired <= checks[m].timers
    BY <1>1 DEF HbTypes
  <2>2. \A m \in Node : checks'[m].fired <= checks'[m].timers
    <3>1. checks'[n].fired <= checks'[n].timers
      BY <1>6
    <3> QED BY <1>6, <2>1, <3>1
  <2> QED BY <1>1, <1>4, <1>5, <1>6, <1>7, <1>8, <2>1, <2>2 DEF HbTypes
<1>10. DOMAIN listeners'[n] = {}
  BY <1>3, <1>4
<1>11. GapInv'
  <2> SUFFICES ASSUME NEW m \in Node, m # n, NEW p \in DOMAIN listeners[m], p \notin gap[m]
               PROVE  Attended(listeners[m][p], senders'[p], m, air[<<p, m>>])
    BY <1>1, <1>4, <1>8, <1>10 DEF GapInv
  <2>1. p \in Node /\ Attended(listeners[m][p], senders[p], m, air[<<p, m>>])
    BY <1>1 DEF HbTypes, IsListening, GapInv
  <2>2. CASE p = n
    <3>1. \A d \in 0..Interval : ~Due(senders'[p], m, d)
      BY <1>3, <1>5, <2>2 DEF Due
    <3> QED BY <2>1, <3>1 DEF Attended
  <2>3. CASE p # n
    BY <1>5, <2>1, <2>3
  <2> QED BY <2>2, <2>3
<1>12. CheckInv'
  BY <1>1, <1>4, <1>6, <1>10 DEF CheckInv, Checked
<1>13. DownInv'
  BY <1>1, <1>4, <1>8, <1>10 DEF DownInv
<1>14. CmaIsTold'
  BY <1>1, <1>4, <1>7, <1>8, <1>10 DEF CmaIsTold
<1> QED BY <1>9, <1>11, <1>12, <1>13, <1>14 DEF HbInv

-----------------------------------------------------------------------------
(* Time                                                                    *)

\* A second later every timer of the senders s is due a second earlier.
LEMMA LaterSenders ==
    ASSUME NEW s \in Seq(HbSender), \A i \in DOMAIN s : s[i].due > 0,
           NEW r, r = [i \in DOMAIN s |-> [s[i] EXCEPT !.due = @ - 1]]
    PROVE  /\ r \in Seq(HbSender)
           /\ \A q \in Node, d \in 0..Interval : Due(r, q, d) <=> Due(s, q, d + 1)
<1>1. DOMAIN s = 1..Len(s) /\ Len(s) \in Nat /\ \A i \in DOMAIN s : s[i] \in HbSender
  BY LenProperties, ElementOfSeq
<1>2. ASSUME NEW i \in DOMAIN s
      PROVE  r[i] \in HbSender /\ r[i].sendaddr = s[i].sendaddr /\ r[i].due = s[i].due - 1
  <2>1. s[i] \in HbSender /\ s[i].due > 0
    BY <1>1
  <2>2. s[i].due - 1 \in 0..Interval
    BY <2>1, TimesAreNat DEF HbSender
  <2>3. r[i] = [s[i] EXCEPT !.due = @ - 1]
    OBVIOUS
  <2> QED BY <2>1, <2>2, <2>3 DEF HbSender
<1>3. DOMAIN r = DOMAIN s
  OBVIOUS
<1>4. r \in Seq(HbSender)
  <2>1. r = [i \in 1..Len(s) |-> r[i]]
    BY <1>1
  <2>2. \A i \in 1..Len(s) : r[i] \in HbSender
    BY <1>1, <1>2
  <2> QED BY <1>1, <2>1, <2>2, IsASeq
<1>5. ASSUME NEW q \in Node, NEW d \in 0..Interval PROVE Due(r, q, d) <=> Due(s, q, d + 1)
  <2>1. \A i \in DOMAIN s : s[i].due \in Int
    BY <1>1, TimesAreNat DEF HbSender
  <2>2. ASSUME NEW i \in DOMAIN s PROVE (r[i].due = d) <=> (s[i].due = d + 1)
    <3>1. r[i].due = s[i].due - 1 /\ s[i].due \in Int /\ d \in Int
      BY <1>2, <2>1
    <3> QED BY <3>1
  <2> QED BY <1>2, <1>3, <2>2 DEF Due
<1> QED BY <1>4, <1>5

\* A second passes: what is attended is due a second earlier, and nobody whose
\* timers have all fired in that second becomes too old.
LEMMA TickKeeps ==
    ASSUME HbInv, Tick
    PROVE  HbInv'
<1>1. HbTypes /\ GapInv /\ CheckInv /\ DownInv /\ CmaIsTold /\ UNCHANGED <<run, air, told>>
  BY DEF HbInv, Tick
<1>2. /\ senders' = [n \in Node |-> [i \in DOMAIN senders[n] |-> [senders[n][i] EXCEPT !.due = @ - 1]]]
      /\ listeners' = [n \in Node |-> [p \in DOMAIN listeners[n] |->
                          [listeners[n][p] EXCEPT !.age = Older(@, Deadtime + 2)]]]
      /\ checks' = [n \in Node |-> [checks[n] EXCEPT !.fired = 0]]
      /\ gap' = [n \in Node |-> gap[n] \cup {p \in DOMAIN listeners[n] : ~SendsTo(p, n)}]
  BY DEF Tick
<1>3. /\ \A n \in Node : \A i \in DOMAIN senders[n] : senders[n][i].due > 0
      /\ \A n \in Node : checks[n].fired = checks[n].timers
      /\ \A p, n \in Node : air[<<p, n>>] = 0
  BY DEF Tick
<1>4. ASSUME NEW n \in Node
      PROVE  /\ senders'[n] \in Seq(HbSender)
             /\ \A q \in Node, d \in 0..Interval : Due(senders'[n], q, d) <=> Due(senders[n], q, d + 1)
  <2>1. senders'[n] = [i \in DOMAIN senders[n] |-> [senders[n][i] EXCEPT !.due = @ - 1]]
    BY <1>2
  <2>2. senders[n] \in Seq(HbSender) /\ \A i \in DOMAIN senders[n] : senders[n][i].due > 0
    BY <1>1, <1>3 DEF HbTypes
  <2> QED BY <2>1, <2>2, LaterSenders
<1>5. senders' \in [Node -> Seq(HbSender)]
  <2>1. senders' = [n \in Node |-> senders'[n]]
    BY <1>2
  <2> QED BY <1>4, <2>1
<1>6. \A n \in Node : DOMAIN listeners'[n] = DOMAIN listeners[n]
  BY <1>2
<1>7. ASSUME NEW n \in Node, NEW p \in DOMAIN listeners[n]
      PROVE  /\ p \in Node
             /\ listeners[n][p].age \in 0..(Deadtime + 2)
             /\ listeners'[n][p] \in HbListener
             /\ listeners'[n][p].timedout = listeners[n][p].timedout
             /\ listeners'[n][p].age = Older(listeners[n][p].age, Deadtime + 2)
  <2>1. p \in Node /\ listeners[n][p] \in HbListener
    BY <1>1 DEF HbTypes, IsListening
  <2>2. listeners[n][p].age \in 0..(Deadtime + 2)
    BY <2>1 DEF HbListener
  <2>3. Older(listeners[n][p].age, Deadtime + 2) \in 0..(Deadtime + 2)
    BY <2>2, TimesAreNat DEF Older
  <2> DEFINE a == Older(listeners[n][p].age, Deadtime + 2)
  <2>4. listeners'[n][p] = [listeners[n][p] EXCEPT !.age = a]
    BY <1>2
  <2> HIDE DEF a
  <2>5. a \in 0..(Deadtime + 2)
    BY <2>3 DEF a
  <2>6. listeners'[n][p] \in HbListener /\ listeners'[n][p].age = a
        /\ listeners'[n][p].timedout = listeners[n][p].timedout
    BY <2>1, <2>4, <2>5 DEF HbListener
  <2> QED BY <2>1, <2>2, <2>6 DEF a
<1>8. ASSUME NEW n \in Node
      PROVE  IsListening(listeners'[n]) /\ n \notin DOMAIN listeners'[n]
  <2>1. listeners'[n] = [p \in DOMAIN listeners'[n] |-> listeners'[n][p]]
    BY <1>2
  <2>2. DOMAIN listeners'[n] \subseteq Node /\ n \notin DOMAIN listeners'[n]
    BY <1>1, <1>6 DEF HbTypes, IsListening
  <2>3. \A p \in DOMAIN listeners'[n] : listeners'[n][p] \in HbListener
    BY <1>6, <1>7
  <2> QED BY <2>1, <2>2, <2>3 DEF IsListening
<1>9. ASSUME NEW n \in Node
      PROVE  checks'[n] \in [timers : Nat, fired : Nat] /\ checks'[n].fired = 0
             /\ checks'[n].timers = checks[n].timers /\ checks[n].timers \in Nat
             /\ checks[n].fired = checks[n].timers
  <2>1. checks[n] \in [timers : Nat, fired : Nat]
    BY <1>1 DEF HbTypes
  <2>2. checks'[n] = [checks[n] EXCEPT !.fired = 0]
    BY <1>2
  <2> QED BY <1>3, <2>1, <2>2
<1>10. checks' \in [Node -> [timers : Nat, fired : Nat]]
  <2>1. checks' = [n \in Node |-> checks'[n]]
    BY <1>2
  <2> QED BY <1>9, <2>1
<1>11. gap' \in [Node -> SUBSET Node]
  <2>1. \A n \in Node : gap[n] \in SUBSET Node /\ DOMAIN listeners[n] \subseteq Node
    BY <1>1 DEF HbTypes, IsListening
  <2> QED BY <1>2, <2>1
<1>12. HbTypes'
  <2>1. listeners' = [n \in Node |-> listeners'[n]]
    BY <1>2
  <2>2. \A n \in Node : checks'[n].fired <= checks'[n].timers
    BY <1>9
  <2>3. run \in [Node -> {"up", "stopping", "down"}] /\ air \in [Node \X Node -> Nat]
        /\ told \in [Node -> [Node -> Said]]
    BY <1>1 DEF HbTypes
  <2> QED BY <1>1, <1>5, <1>8, <1>10, <1>11, <2>1, <2>2, <2>3 DEF HbTypes
<1>13. GapInv'
  <2> SUFFICES ASSUME NEW n \in Node, NEW p \in DOMAIN listeners[n], p \notin gap'[n]
               PROVE  Attended(listeners'[n][p], senders'[p], n, air[<<p, n>>])
    BY <1>1, <1>6 DEF GapInv
  <2>1. p \in Node
    BY <1>7
  <2>2. p \notin gap[n] /\ SendsTo(p, n)
    BY <1>2
  <2>3. Attended(listeners[n][p], senders[p], n, air[<<p, n>>])
    BY <1>1, <2>2 DEF GapInv
  <2>4. \E d \in 0..Interval : Due(senders[p], n, d)
    BY <1>1, <2>1, <2>2, SendsIff
  <2>5. air[<<p, n>>] = 0
    BY <1>3, <2>1
  <2>6. PICK d \in 0..Interval : Due(senders[p], n, d) /\ listeners[n][p].age + d <= Interval
    BY <2>3, <2>4, <2>5 DEF Attended
  <2>7. d > 0
    BY <1>3, <2>1, <2>6 DEF Due
  <2>8. d \in Int /\ d - 1 \in 0..Interval /\ (d - 1) + 1 = d
    BY <2>6, <2>7, TimesAreNat
  <2>9. Due(senders'[p], n, d - 1)
    BY <1>4, <2>1, <2>6, <2>8
  <2>10. listeners'[n][p].age = listeners[n][p].age + 1 /\ listeners[n][p].age \in Nat
    BY <1>7, <2>6, <2>7, <2>8, TimesAreNat DEF Older
  <2>11. ~listeners'[n][p].timedout
    BY <1>7, <2>3 DEF Attended
  <2>12. listeners'[n][p].age <= Interval /\ listeners'[n][p].age + (d - 1) <= Interval
    BY <2>6, <2>7, <2>8, <2>10, TimesAreNat
  <2> QED BY <2>8, <2>9, <2>11, <2>12 DEF Attended
<1>14. CheckInv'
  <2> SUFFICES ASSUME NEW n \in Node PROVE Checked(listeners'[n], checks'[n])
    BY DEF CheckInv
  <2>1. Checked(listeners[n], checks[n])
    BY <1>1 DEF CheckInv
  <2>2. \A p \in DOMAIN listeners[n] : listeners[n][p].timedout \/ listeners[n][p].age <= Deadtime
    BY <1>9, <2>1 DEF Checked
  <2>3. ASSUME NEW p \in DOMAIN listeners[n]
        PROVE  listeners'[n][p].timedout \/ listeners'[n][p].age <= Deadtime + 1
    BY <1>7, <2>2, TimesAreNat DEF Older
  <2> QED BY <1>6, <1>9, <2>1, <2>3 DEF Checked
<1>15. DownInv' /\ CmaIsTold'
  BY <1>1, <1>6, <1>7 DEF DownInv, CmaIsTold
<1> QED BY <1>12, <1>13, <1>14, <1>15 DEF HbInv

-----------------------------------------------------------------------------
(* The theorems                                                            *)

LEMMA NextKeeps ==
    ASSUME HbInv, [Next]_vars
    PROVE  HbInv'
<1>1. ASSUME NEW n \in Node, NEW addr \in Node, NEW sends \in BOOLEAN, NEW expects \in BOOLEAN,
             Obey(n, sends, expects, addr) \/ ObeyStop(n, sends, expects, addr)
      PROVE  HbInv'
  BY <1>1, ObeyKeeps, ObeyStopKeeps
<1>2. ASSUME NEW n \in Node, NEW addr \in Node, GotHeartbeat(n, addr) \/ Lose(n, addr)
      PROVE  HbInv'
  BY <1>2, GotKeeps, LoseKeeps
<1>3. ASSUME NEW n \in Node, NEW i \in DOMAIN senders[n], SendHeartbeat(n, i)
      PROVE  HbInv'
  BY <1>3, SendKeeps
<1>4. ASSUME NEW n \in Node, CheckTimeouts(n) \/ NanoInitiateShutdown(n) \/ NanoShutdown(n)
      PROVE  HbInv'
  BY <1>4, CheckKeeps, InitiateKeeps, ShutdownKeeps
<1>5. CASE Tick
  BY <1>5, TickKeeps
<1>6. CASE UNCHANGED vars
  BY <1>6 DEF vars, HbInv, HbTypes, GapInv, CheckInv, DownInv, CmaIsTold
<1> QED BY <1>1, <1>2, <1>3, <1>4, <1>5, <1>6 DEF Next

LEMMA InterceptKeeps ==
    ASSUME HbTypes, InterceptInv, [Next]_vars
    PROVE  InterceptInv'
<1>1. /\ intercepts \in [Node -> BOOLEAN] /\ listeners = [n \in Node |-> listeners[n]]
      /\ \A n \in Node : DOMAIN listeners[n] # {} => intercepts[n]
  BY DEF HbTypes, InterceptInv
<1> DEFINE Keeps == intercepts' = intercepts /\ \A n \in Node : DOMAIN listeners'[n] \subseteq DOMAIN listeners[n]
<1>2. Keeps => InterceptInv'
  BY <1>1 DEF InterceptInv
<1>3. listeners' = listeners /\ intercepts' = intercepts => Keeps
  OBVIOUS
<1>4. ASSUME NEW n \in Node, NEW L, DOMAIN L \subseteq DOMAIN listeners[n],
             listeners' = [listeners EXCEPT ![n] = L], intercepts' = intercepts
      PROVE  Keeps
  BY <1>1, <1>4
<1> HIDE DEF Keeps
<1>5. ASSUME NEW n \in Node, NEW addr \in Node, NEW sends \in BOOLEAN, NEW expects \in BOOLEAN,
             Obey(n, sends, expects, addr)
      PROVE  InterceptInv'
  <2>1. CASE expects
    <3>1. listeners' = [listeners EXCEPT ![n] = Listen(n, addr)] /\ intercepts' = [intercepts EXCEPT ![n] = TRUE]
      BY <1>5, <2>1 DEF Obey
    <3> QED BY <1>1, <3>1 DEF InterceptInv
  <2>2. CASE ~expects
    BY <1>2, <1>3, <1>5, <2>2 DEF Obey
  <2> QED BY <2>1, <2>2
<1>6. ASSUME NEW n \in Node, NEW addr \in Node, NEW sends \in BOOLEAN, NEW expects \in BOOLEAN,
             ObeyStop(n, sends, expects, addr)
      PROVE  InterceptInv'
  <2>1. CASE expects
    <3>1. listeners' = [listeners EXCEPT ![n] = Unlisten(n, addr)] /\ intercepts' = intercepts
      BY <1>6, <2>1 DEF ObeyStop
    <3>2. DOMAIN Unlisten(n, addr) \subseteq DOMAIN listeners[n]
      BY DEF Unlisten
    <3> QED BY <1>2, <1>4, <3>1, <3>2
  <2>2. CASE ~expects
    BY <1>2, <1>3, <1>6, <2>2 DEF ObeyStop
  <2> QED BY <2>1, <2>2
<1>7. ASSUME NEW n \in Node, NEW src \in Node, GotHeartbeat(n, src)
      PROVE  InterceptInv'
  <2>1. CASE run[n] # "down" /\ src \in DOMAIN listeners[n]
    <3> DEFINE L == [listeners[n] EXCEPT ![src] = Refresh(listeners[n][src])]
    <3>1. listeners' = [listeners EXCEPT ![n] = L] /\ intercepts' = intercepts
      BY <1>1, <1>7, <2>1 DEF GotHeartbeat
    <3>2. DOMAIN L = DOMAIN listeners[n]
      OBVIOUS
    <3> HIDE DEF L
    <3> QED BY <1>2, <1>4, <3>1, <3>2
  <2>2. CASE ~(run[n] # "down" /\ src \in DOMAIN listeners[n])
    BY <1>2, <1>3, <1>7, <2>2 DEF GotHeartbeat
  <2> QED BY <2>1, <2>2
<1>8. ASSUME NEW n \in Node, CheckTimeouts(n)
      PROVE  InterceptInv'
  <2>1. PICK L : listeners' = [listeners EXCEPT ![n] = L] /\ DOMAIN L = DOMAIN listeners[n]
    BY <1>1, <1>8 DEF CheckTimeouts
  <2>2. intercepts' = intercepts
    BY <1>8 DEF CheckTimeouts
  <2> QED BY <1>2, <1>4, <2>1, <2>2
<1>9. ASSUME NEW n \in Node, NanoShutdown(n)
      PROVE  InterceptInv'
  <2>1. listeners' = [listeners EXCEPT ![n] = <<>>] /\ intercepts' = [intercepts EXCEPT ![n] = FALSE]
    BY <1>9 DEF NanoShutdown
  <2>2. DOMAIN <<>> = {}
    OBVIOUS
  <2> QED BY <1>1, <2>1, <2>2 DEF InterceptInv
<1>10. CASE Tick
  <2>1. \A n \in Node : DOMAIN listeners'[n] = DOMAIN listeners[n]
    BY <1>10 DEF Tick
  <2> QED BY <1>2, <1>10, <2>1 DEF Tick, Keeps
<1>11. ASSUME NEW n \in Node, NEW src \in Node, Lose(src, n)
       PROVE  InterceptInv'
  BY <1>2, <1>3, <1>11 DEF Lose
<1>12. ASSUME NEW n \in Node, NanoInitiateShutdown(n) \/ \E i \in DOMAIN senders[n] : SendHeartbeat(n, i)
       PROVE  InterceptInv'
  BY <1>2, <1>3, <1>12 DEF NanoInitiateShutdown, SendHeartbeat
<1>13. CASE UNCHANGED vars
  BY <1>2, <1>3, <1>13 DEF vars
<1> QED BY <1>5, <1>6, <1>7, <1>8, <1>9, <1>10, <1>11, <1>12, <1>13 DEF Next

\* The invariant holds of every state of the nanoprobes.
THEOREM HbInvAlways == Spec => []HbInv
<1>1. Init => HbInv
  BY HbInvInit
<1>2. HbInv /\ [Next]_vars => HbInv'
  BY NextKeeps
<1> QED BY <1>1, <1>2, PTL DEF Spec

\* Every variable keeps its type, nobody listens for itself, no timer of the listeners
\* fires twice in a second, and who listens for anybody intercepts heartbeats.
THEOREM HeartbeatTypes == Spec => []HbTypeOK
<1>1. HbInv /\ InterceptInv => HbTypeOK
  BY TypesGive DEF HbInv
<1>2. Init => InterceptInv
  <2>1. DOMAIN <<>> = {}
    OBVIOUS
  <2> QED BY <2>1 DEF Init, InterceptInv
<1>3. HbInv /\ InterceptInv /\ [Next]_vars => InterceptInv'
  BY InterceptKeeps DEF HbInv
<1> QED BY <1>1, <1>2, <1>3, HbInvAlways, PTL DEF Spec

\* _hblistener_checktimeouts declares a peer dead only if a heartbeat of it was lost or
\* it stopped sending: with any times for which the interval is below the warning time
\* and that below the dead time, and however orders, timers and heartbeats interleave.
THEOREM LivePeersAreNotDead == Spec => []NoFalseDeath
<1>1. HbInv => NoFalseDeath
  <2> SUFFICES ASSUME HbInv, NEW n \in Node, NEW p \in DOMAIN listeners[n], p \notin gap[n]
               PROVE  ~listeners[n][p].timedout
    BY DEF NoFalseDeath
  <2> QED BY DEF HbInv, GapInv, Attended
<1> QED BY <1>1, HbInvAlways, PTL

\* Whoever has been silent for the dead time is declared dead within the next second:
\* as long as _hb_listeners is not empty it has a timer, also when it was emptied and
\* filled again before the old timer noticed.
THEOREM SilentPeersAreDead == Spec => []DeadIsNoticed
<1>1. HbInv => DeadIsNoticed
  BY DEF HbInv, CheckInv, Checked, DeadIsNoticed
<1> QED BY <1>1, HbInvAlways, PTL

\* What _real_deadtime_agent, _real_warntime_agent and _real_comealive_agent told the
\* CMA last of a peer is its death exactly if its listener has timed out.
THEOREM CmaKnowsTheDead == Spec => []CmaIsTold
<1>1. HbInv => CmaIsTold
  BY DEF HbInv
<1> QED BY <1>1, HbInvAlways, PTL
=============================================================================
