------------------------------- MODULE HbRing -------------------------------
(***************************************************************************)
(* The CMA's heartbeat ring (cma/hbring.py) and the dispatch targets that  *)
(* change it (cma/dispatchtarget.py, Drone.death_report).  The ring is a   *)
(* circular list kept in the Neo4j database, with two insert points kept   *)
(* in memory; the CMA tells each drone whom to exchange heartbeats with.   *)
(*                                                                         *)
(* A FrameSet is dispatched as one transaction: what it reads from the     *)
(* database is the state before the transaction, what it relates and       *)
(* separates takes effect at the commit.  So an action here computes a     *)
(* context (the pending transaction) and then commits it.                  *)
(***************************************************************************)
EXTENDS Naturals, FiniteSets

CONSTANTS
    Drone,       \* the systems that run a nanoprobe
    NoDrone,     \* Python's None
    MaxBoot,     \* bound: starts of each nanoprobe process
    MaxRebooted  \* bound: drones that start more than once

ASSUME DroneAssumption == NoDrone \notin Drone

VARIABLES
    boot,     \* [Drone -> how often its nanoprobe has started]: the STARTUP's WALLCLOCK
    status,   \* [Drone -> "unknown" (not in the database), "up" or "dead"]
    graceful, \* [Drone -> is its reason HBSHUTDOWN?]
    lastjoin, \* [Drone -> the boot its last accepted STARTUP carried]
    members,  \* RingMember relationships of the ring
    next,     \* RingNext relationships: pairs of drones
    ip1, ip2, \* _insertpoint1 and _insertpoint2
    told,     \* [Drone -> the peers its current process was told to heartbeat with]
    dropped,  \* history: drones that left the ring while their process had orders
    raised,   \* history: drones up only because a STARTUP came again after their death
    torn      \* history: has a member joined anew in a ring of three?

vars == <<boot, status, graceful, lastjoin, members, next, ip1, ip2, told, dropped, raised, torn>>

-----------------------------------------------------------------------------
(* The pending transaction.                                                *)

Link == Drone \X Drone

\* What the transaction removes and adds, and what has already changed: the
\* insert points (memory) and the commands to the drones (sent at its end).
Context == [memdel : SUBSET Drone, memnew : SUBSET Drone,
            del : SUBSET Link, new : SUBSET Link,
            ip1 : Drone \cup {NoDrone}, ip2 : Drone \cup {NoDrone},
            told : [Drone -> SUBSET Drone]]

Begin == [memdel |-> {}, memnew |-> {}, del |-> {}, new |-> {},
          ip1 |-> ip1, ip2 |-> ip2, told |-> told]

Commit(c) ==
    /\ members' = (members \ c.memdel) \cup c.memnew
    /\ next' = (next \ c.del) \cup c.new
    /\ ip1' = c.ip1
    /\ ip2' = c.ip2
    /\ told' = c.told

InsertAt(c, p1, p2) == [c EXCEPT !.ip1 = p1, !.ip2 = p2]

\* Store.relate and Store.separate on RingNext links.
Relate(c, links) == [c EXCEPT !.new = @ \cup links]

Separate(c, links) == [c EXCEPT !.del = @ \cup (links \cap next)]

\* Drone.start_heartbeat and Drone.stop_heartbeat
StartHeartbeat(c, d, peers) == [c EXCEPT !.told[d] = @ \cup peers]

StopHeartbeat(c, d, peers) == [c EXCEPT !.told[d] = @ \ peers]

\* Both ends of a link at once.
StartBoth(c, a, b) == StartHeartbeat(StartHeartbeat(c, a, {b}), b, {a})
StopBoth(c, a, b)  == StopHeartbeat(StopHeartbeat(c, a, {b}), b, {a})

\* The first drone that load_related / load_in_related yield.
First(S) == IF S = {} THEN NoDrone ELSE CHOOSE d \in S : TRUE

NextNode(d) == First({x \in Drone : <<d, x>> \in next})
PrevNode(d) == First({x \in Drone : <<x, d>> \in next})

-----------------------------------------------------------------------------
(* HbRing.leave and HbRing.join                                            *)

\* Mutant: the neighbours are not told to stop.
FarewellUntold(c, peers, d) == c

\* The neighbours of d are told to stop; d itself is not.
Farewell(c, peers, d) ==
    [c EXCEPT !.told = [x \in Drone |-> IF x \in peers THEN @[x] \ {d} ELSE @[x]]]

\* Mutant: the second insert point is not reset.
LeftAloneTwice(c, prev) == [c EXCEPT !.ip1 = prev]

\* leave, two drones before
LeftAlone(c, prev) == InsertAt(c, prev, NoDrone)

\* Mutant: the neighbours of the departed are not introduced to each other.
CloseGapSilently(c, prev, nxt) == Relate(InsertAt(c, prev, nxt), {<<prev, nxt>>})

\* leave, at least three drones before: the neighbours of the departed become
\* neighbours of each other (in a ring of three they already were).
CloseGap(c, prev, nxt) ==
    LET c1 == IF NextNode(nxt) # prev THEN StartBoth(c, nxt, prev) ELSE c
    IN  Relate(InsertAt(c1, prev, nxt), {<<prev, nxt>>})

Leave(c, d) ==
    LET prev == PrevNode(d)
        nxt  == NextNode(d)
        c1   == [c EXCEPT !.memdel = @ \cup {d}]
        c2   == Farewell(Separate(c1, {<<prev, d>>, <<d, nxt>>}), {prev, nxt}, d)
    IN  CASE prev = NoDrone /\ nxt = NoDrone -> InsertAt(c1, NoDrone, NoDrone)
          [] prev = nxt /\ nxt # NoDrone     -> LeftAlone(c2, prev)
          [] prev # nxt                      -> CloseGap(c2, prev, nxt)

\* join, at least two drones before: the insert point moves down the ring if
\* there is a third drone.  Only then are its two ends told to part.
MoveDown(c) ==
    LET nextnext == NextNode(c.ip2)
    IN  IF nextnext \in {NoDrone, c.ip1} THEN c
        ELSE StopBoth(InsertAt(c, c.ip2, nextnext), c.ip2, nextnext)

\* The drone goes between the insert points and becomes the first of them.
InsertBetween(c, d) ==
    LET p1 == c.ip1
        p2 == c.ip2
        c1 == StartBoth(StartBoth(Separate(c, {<<p1, p2>>}), d, p1), d, p2)
    IN  InsertAt(Relate(c1, {<<p1, d>>, <<d, p2>>}), d, p2)

\* Mutant: a ring of one is treated like any other.
InsertSecondBetween(c, d) == InsertBetween(c, d)

\* join, one drone before
InsertSecond(c, d) ==
    InsertAt(Relate(StartBoth(c, d, c.ip1), {<<d, c.ip1>>, <<c.ip1, d>>}), d, c.ip1)

\* Mutant: a member that joins again does not leave first.
LeaveNever(c, d) == c

\* join: a drone that is a member already leaves first.
LeaveFirst(c, d) == IF d \in members THEN Leave(c, d) ELSE c

Join(c, d) ==
    LET c1 == LeaveFirst(c, d)
        c2 == [c1 EXCEPT !.memnew = @ \cup {d}]
    IN  CASE c2.ip1 = NoDrone                        -> InsertAt(c2, d, NoDrone)
          [] c2.ip1 # NoDrone /\ c2.ip2 = NoDrone    -> InsertSecond(c2, d)
          [] c2.ip1 # NoDrone /\ c2.ip2 # NoDrone    -> InsertBetween(MoveDown(c2), d)

-----------------------------------------------------------------------------
(* The actions: what arrives at the CMA, in any order the network likes,   *)
(* until a ring is torn: which of two links of a drone the code follows    *)
(* after that is up to the database, and is not modelled.                  *)

Init ==
    /\ boot = [d \in Drone |-> 0]
    /\ status = [d \in Drone |-> "unknown"]
    /\ graceful = [d \in Drone |-> FALSE]
    /\ lastjoin = [d \in Drone |-> 0]
    /\ members = {} /\ next = {}
    /\ ip1 = NoDrone /\ ip2 = NoDrone
    /\ told = [d \in Drone |-> {}]
    /\ dropped = {} /\ raised = {}
    /\ torn = FALSE

\* A nanoprobe process starts, knowing of no heartbeats to send; an earlier one
\* on that system is gone, whether or not the CMA has noticed.
Boot(d) ==
    /\ ~torn
    /\ boot[d] < MaxBoot
    /\ boot[d] > 0 => Cardinality({x \in Drone : boot[x] > 1} \cup {d}) <= MaxRebooted
    /\ boot' = [boot EXCEPT ![d] = @ + 1]
    /\ told' = [told EXCEPT ![d] = {}]
    /\ dropped' = dropped \ {d}
    /\ UNCHANGED <<status, graceful, lastjoin, members, next, ip1, ip2, raised, torn>>

\* Mutant: any STARTUP of a drone that has joined before is a duplicate.
IsKnown(d, b) == lastjoin[d] > 0

\* The STARTUP is a repetition: nano_reqconfig sends it with the same WALLCLOCK
\* until the drone is configured.
IsDuplicate(d, b) == lastjoin[d] = b

\* leave does not talk to the drone that leaves ("drone is dead"): its process
\* keeps its orders.
Dropped(d) == IF d \in members /\ told[d] # {} THEN {d} ELSE {}

\* DispatchSTARTUP of the process b of d, or of what the network kept of an
\* earlier one.  Drone.add sets the status before the test for a duplicate.
DispatchStartup(d, b) ==
    /\ ~torn
    /\ b \in 1..boot[d]
    /\ status' = [status EXCEPT ![d] = "up"]
    /\ graceful' = [graceful EXCEPT ![d] = FALSE]
    /\ lastjoin' = [lastjoin EXCEPT ![d] = b]
    /\ \/ /\ IsDuplicate(d, b)
          /\ Commit(Begin)
          /\ UNCHANGED <<dropped, torn>>
       \/ /\ ~IsDuplicate(d, b)
          /\ Commit(Join(Begin, d))
          /\ dropped' = dropped \cup Dropped(d)
          /\ torn' = (d \in members /\ Cardinality(members) = 3)
    /\ raised' = IF lastjoin[d] = b /\ d \notin members THEN raised \cup {d} ELSE raised \ {d}
    /\ UNCHANGED boot

\* Drone.death_report: the reason is recorded even of a drone already dead.
DeathReport(d, shutdown) ==
    /\ ~torn
    /\ status[d] # "unknown"
    /\ status' = [status EXCEPT ![d] = "dead"]
    /\ graceful' = [graceful EXCEPT ![d] = shutdown]
    /\ Commit(IF status[d] # "dead" /\ d \in members THEN Leave(Begin, d) ELSE Begin)
    /\ dropped' = dropped \cup Dropped(d)
    /\ raised' = raised \ {d}
    /\ UNCHANGED <<boot, lastjoin, torn>>

\* DispatchHBDEAD: some peer has missed d's heartbeats, rightly or not.
DispatchHbDead(d) == DeathReport(d, FALSE)

\* DispatchHBSHUTDOWN: d says that it stops.
DispatchHbShutdown(d) == DeathReport(d, TRUE)

\* are_partners
ArePartners(a, b) == <<a, b>> \in next \/ <<b, a>> \in next

\* DispatchHBMARTIAN: reporter gets heartbeats from src and expects none.
\* A drone wrongly declared dead is resurrected.
DispatchHbMartian(reporter, src) ==
    /\ ~torn
    /\ reporter # src
    /\ status[reporter] # "unknown" /\ status[src] # "unknown"
    /\ LET stopped == StopHeartbeat(Begin, src, {reporter}) IN
       \/ /\ status[src] # "up" /\ ~graceful[src]
          /\ status' = [status EXCEPT ![src] = "up"]
          /\ Commit(Join(stopped, src))
       \/ /\ status[src] = "up" /\ ~ArePartners(reporter, src)
          /\ Commit(stopped)
          /\ UNCHANGED status
    /\ UNCHANGED <<boot, graceful, lastjoin, dropped, raised, torn>>

\* The CMA restarts: HbRing.post_db_init finds the insert points again.
CmaRestart ==
    /\ ~torn
    /\ IF members = {} THEN ip1' = NoDrone /\ ip2' = NoDrone
       ELSE \E m \in members : ip1' = m /\ ip2' = NextNode(m)
    /\ UNCHANGED <<boot, status, graceful, lastjoin, members, next, told, dropped, raised, torn>>

Next ==
    \/ \E d \in Drone : \/ Boot(d) \/ \E b \in 1..MaxBoot : DispatchStartup(d, b)
                        \/ DispatchHbDead(d) \/ DispatchHbShutdown(d)
    \/ \E reporter, src \in Drone : DispatchHbMartian(reporter, src)
    \/ CmaRestart

Spec == Init /\ [][Next]_vars

-----------------------------------------------------------------------------
(* Properties.                                                             *)

TypeOK ==
    /\ boot \in [Drone -> Nat] /\ lastjoin \in [Drone -> Nat]
    /\ status \in [Drone -> {"unknown", "up", "dead"}]
    /\ graceful \in [Drone -> BOOLEAN]
    /\ members \subseteq Drone /\ next \subseteq Link
    /\ {ip1, ip2} \subseteq Drone \cup {NoDrone}
    /\ told \in [Drone -> SUBSET Drone]
    /\ dropped \subseteq Drone /\ raised \subseteq Drone
    /\ torn \in BOOLEAN

Neighbours(d) == {x \in Drone : <<d, x>> \in next \/ <<x, d>> \in next}

\* HbRing.AUDIT: the members are up and the links make one single cycle of
\* them; a ring of one has no links.
RingIsCycle ==
    /\ next \subseteq members \X members
    /\ \A d \in members : status[d] = "up"
    /\ Cardinality(members) < 2 => next = {}
    /\ Cardinality(members) >= 2 => \A d \in members :
           /\ Cardinality({x \in members : <<d, x>> \in next}) = 1
           /\ Cardinality({x \in members : <<x, d>> \in next}) = 1
    /\ Cardinality(members) >= 2 => \A S \in SUBSET members :
           S # {} /\ (\A l \in next : l[1] \in S => l[2] \in S) => S = members

\* The audit fails in one case only: a member that joins anew in a ring of three.
\* join does not find the link that leave has just made, which is not in the
\* database yet (hbring.py:166), and one drone is left with two next ones.
RingIsCycleUnlessTorn == torn \/ RingIsCycle

\* join relies on the insert points, which are kept apart from the ring: they
\* are neighbours, or name the only member, or say that the ring is empty.
InsertPointsFit ==
    CASE members = {}             -> ip1 = NoDrone /\ ip2 = NoDrone
      [] Cardinality(members) = 1 -> members = {ip1} /\ ip2 = NoDrone
      [] OTHER                    -> <<ip1, ip2>> \in next

\* A drone whose current process has joined has been told to heartbeat with
\* each of its neighbours: nobody in the ring goes unwatched.
NeighboursAreTold ==
    \A d \in members : lastjoin[d] = boot[d] => Neighbours(d) \subseteq told[d]

\* ... and with nobody else, unless it left the ring without being told to stop.
\* An order left over makes its receiver report a martian or a death.
NoOrderIsLeft ==
    \A d \in members \ dropped : told[d] \subseteq Neighbours(d)

\* "another way to get the list of all up servers" (GettingStarted.c): the drones
\* that are up are the members of the ring, and so all of them are monitored.  Not
\* those whose STARTUP came once more after their death was reported: Drone.add
\* says up, and as a duplicate the STARTUP puts nobody into the ring.
UpIsMemberOrRaised == \A d \in Drone : status[d] = "up" <=> d \in members \cup raised
=============================================================================
