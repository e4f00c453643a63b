-------------------------- MODULE DiscoveryProofs --------------------------
(***************************************************************************)
(* Proofs about the discovery agents, for any set of discoveries, any      *)
(* number of requests and any findings: an object is counted exactly as    *)
(* often as it is used, and what it holds for sent is what was sent last.  *)
(***************************************************************************)
EXTENDS Discovery, SequenceTheorems, TLAPS

-----------------------------------------------------------------------------
(* Types                                                                   *)

Data == {Nothing, "empty", "running"} \cup Value

Object == [name : Instance, refs : Nat, captures : BOOLEAN, timer : BOOLEAN, owned : BOOLEAN,
           child : Data, cache : Data, sentyet : BOOLEAN]

\* The table holds 0 or a position under every name, until it is destroyed.
IsTable(T) == T = <<>> \/ T \in [Instance -> Nat]

SendsTyped == told \in [Instance -> Data] /\ refused \in [Instance -> Data \cup {Accepted}]

DiscoveryTypes ==
    /\ objects \in Seq(Object) /\ IsTable(table)
    /\ config \in [Instance -> Data] /\ SendsTyped
    /\ cma \in BOOLEAN /\ world \in [Instance -> Value]

-----------------------------------------------------------------------------
(* The invariant, of any objects O and any table T                         *)

Heap(O, T) == [obj |-> O, table |-> T]

Listed(O, T, i) == T # <<>> /\ T[O[i].name] = i

\* What is registered under a name is an object of that name.
Fits(O, T) ==
    T # <<>> => \A n \in Instance : T[n] # 0 => T[n] \in DOMAIN O /\ O[T[n]].name = n

One(b) == IF b THEN 1 ELSE 0

Uses(O, T, i) == One(Listed(O, T, i)) + One(O[i].child # Nothing)

\* An object is counted once for the table, once for its child and X[i] times for
\* the function that works on it.
Counted(O, T, X) == \A i \in DOMAIN O : O[i].refs = Uses(O, T, i) + X[i]

NoExtra(O) == [i \in DOMAIN O |-> 0]

\* Only agents have children, and the timer the base class set is known by its id.
Kept(o) ==
    /\ o.child # Nothing => Kind[o.name] = "JSON"
    /\ o.timer /\ Kind[o.name] = "JSON" => o.owned /\ o.refs > 0

\* What o holds for sent was sent.
Truthful(o) ==
    /\ o.sentyet => Kind[o.name] # "SWITCH" /\ cma /\ LastSent[o.name] = config[o.name]
    /\ Kind[o.name] = "SWITCH" /\ o.cache # Nothing /\ o.refs > 0 => LastSent[o.name] = o.cache

DiscoveryInv ==
    /\ DiscoveryTypes
    /\ Fits(objects, table) /\ Counted(objects, table, NoExtra(objects))
    /\ \A i \in DOMAIN objects : Kept(objects[i]) /\ Truthful(objects[i])

LEMMA DataFacts ==
    /\ Nothing \notin Value /\ Nothing # "running" /\ Value \subseteq Data
    /\ Nothing \in Data /\ "running" \in Data /\ "empty" \in Data
BY DiscoveryAssumption DEF Data, Nothing

-----------------------------------------------------------------------------
(* Dropping a reference                                                    *)

\* o1 is o with fewer references, and without its timer if it was freed and knows it.
Dropped(o1, o) ==
    /\ o1.name = o.name /\ o1.child = o.child /\ o1.cache = o.cache
    /\ o1.sentyet = o.sentyet /\ o1.owned = o.owned
    /\ o1.refs <= o.refs /\ (o1.timer => o.timer)
    /\ o1.timer => o1.refs = o.refs \/ o1.refs > 0 \/ ~o.owned

LEMMA DroppedKeeps ==
    ASSUME NEW o \in Object, NEW o1 \in Object, Dropped(o1, o), Kept(o), Truthful(o)
    PROVE  Kept(o1) /\ Truthful(o1)
<1>1. o.refs \in Nat /\ o1.refs \in Nat
  BY DEF Object
<1> QED BY <1>1 DEF Dropped, Kept, Truthful

\* O1 is O with another object at i.
Replaced(O, O1, i) ==
    /\ O1 \in Seq(Object) /\ DOMAIN O1 = DOMAIN O
    /\ \A j \in DOMAIN O : j # i => O1[j] = O[j]

LEMMA ReplacedBy ==
    ASSUME NEW O \in Seq(Object), NEW i \in DOMAIN O, NEW o \in Object
    PROVE  Replaced(O, [O EXCEPT ![i] = o], i) /\ [O EXCEPT ![i] = o][i] = o
<1>1. i \in 1..Len(O)
  BY LenProperties
<1>2. [O EXCEPT ![i] = o] \in Seq(Object)
  BY <1>1, ExceptSeq
<1> QED BY <1>2 DEF Replaced

LEMMA FreedIs ==
    ASSUME NEW O \in Seq(Object), NEW T, NEW i \in DOMAIN O, NEW H, H = Freed(Heap(O, T), i)
    PROVE  /\ H = Heap(H.obj, T) /\ Replaced(O, H.obj, i)
           /\ H.obj[i].refs = 0 /\ Dropped(H.obj[i], O[i])
<1> DEFINE o == [O[i] EXCEPT !.refs = 0, !.timer = @ /\ ~O[i].owned]
<1>1. O[i] \in Object
  BY ElementOfSeq, LenProperties
<1>2. o \in Object
  BY <1>1 DEF Object
<1>3. o.refs = 0 /\ Dropped(o, O[i])
  <2>1. o \in [name : {O[i].name}, refs : {0}, captures : BOOLEAN, timer : BOOLEAN,
               owned : {O[i].owned}, child : {O[i].child}, cache : {O[i].cache},
               sentyet : {O[i].sentyet}]
    BY <1>1 DEF Object
  <2>2. o.timer = (O[i].timer /\ ~O[i].owned)
    BY <1>1, Zenon DEF Object
  <2> HIDE DEF o
  <2>3. O[i].refs \in Nat
    BY <1>1 DEF Object
  <2> QED BY <2>1, <2>2, <2>3 DEF Dropped
<1> DEFINE N == [O EXCEPT ![i] = o]
<1>4. H = Heap(N, T)
  BY DEF Freed, Heap
<1> HIDE DEF o
<1>5. Replaced(O, N, i) /\ N[i] = o
  BY <1>2, ReplacedBy
<1> HIDE DEF N
<1>6. H.obj = N /\ H.table = T
  BY <1>4 DEF Heap
<1> QED BY <1>3, <1>4, <1>5, <1>6

Less(heap, i) == [heap EXCEPT !.obj[i].refs = @ - 1]

LEMMA LessIs ==
    ASSUME NEW O \in Seq(Object), NEW T, NEW i \in DOMAIN O, O[i].refs > 1,
           NEW H, H = Less(Heap(O, T), i)
    PROVE  /\ H = Heap(H.obj, T) /\ Replaced(O, H.obj, i)
           /\ H.obj[i].refs = O[i].refs - 1 /\ Dropped(H.obj[i], O[i])
<1> DEFINE o == [O[i] EXCEPT !.refs = @ - 1]
<1>1. O[i] \in Object
  BY ElementOfSeq, LenProperties
<1>2. O[i].refs - 1 \in Nat
  BY <1>1 DEF Object
<1>3. o \in Object
  BY <1>1, <1>2 DEF Object
<1>4. o.refs = O[i].refs - 1 /\ Dropped(o, O[i])
  BY <1>1, <1>2 DEF Object, Dropped
<1> DEFINE N == [O EXCEPT ![i] = o]
<1>5. H = Heap(N, T)
  BY DEF Heap, Less
<1> HIDE DEF o
<1>6. Replaced(O, N, i) /\ N[i] = o
  BY <1>3, ReplacedBy
<1> HIDE DEF N
<1>7. H.obj = N /\ H.table = T
  BY <1>5 DEF Heap
<1> QED BY <1>4, <1>5, <1>6, <1>7

LEMMA HeapExcept ==
    ASSUME NEW O, NEW T \in [Instance -> Nat], NEW n \in Instance, NEW T1, T1 = [T EXCEPT ![n] = 0]
    PROVE  [Heap(O, T) EXCEPT !.table[n] = 0] = Heap(O, T1)
<1>1. [T EXCEPT ![n] = 0] = T1
  OBVIOUS
<1>2. Heap(O, T).table = T
  BY DEF Heap
<1>3. [Heap(O, T) EXCEPT !.table = T1] = Heap(O, T1)
  BY DEF Heap
<1> QED BY <1>1, <1>2, <1>3

\* O1 is O, with references dropped.
Shrunk(O, O1) ==
    /\ O1 \in Seq(Object) /\ DOMAIN O1 = DOMAIN O
    /\ \A j \in DOMAIN O : Dropped(O1[j], O[j])

LEMMA ObjectsAre ==
    ASSUME NEW O \in Seq(Object), NEW i \in DOMAIN O
    PROVE  O[i] \in Object /\ O[i].name \in Instance /\ O[i].refs \in Nat
<1>1. O[i] \in Object
  BY ElementOfSeq, LenProperties
<1> QED BY <1>1 DEF Object

LEMMA ShrunkToo ==
    ASSUME NEW O \in Seq(Object), NEW O1 \in Seq(Object), NEW i, Replaced(O, O1, i),
           i \in DOMAIN O => Dropped(O1[i], O[i])
    PROVE  Shrunk(O, O1)
<1>1. \A j \in DOMAIN O : O[j].refs \in Nat
  BY ObjectsAre
<1> QED BY <1>1 DEF Replaced, Shrunk, Dropped

LEMMA ShrunkTwice ==
    ASSUME NEW O \in Seq(Object), NEW O1, NEW O2, Shrunk(O, O1), Shrunk(O1, O2)
    PROVE  Shrunk(O, O2)
<1> SUFFICES ASSUME NEW j \in DOMAIN O PROVE Dropped(O2[j], O[j])
  BY DEF Shrunk
<1>1. O1 \in Seq(Object) /\ O2 \in Seq(Object) /\ j \in DOMAIN O1 /\ j \in DOMAIN O2
  BY DEF Shrunk
<1>2. O[j].refs \in Nat /\ O1[j].refs \in Nat /\ O2[j].refs \in Nat
  BY <1>1, ObjectsAre
<1> QED BY <1>2 DEF Shrunk, Dropped

\* g_hash_table_remove: the object that loses its registration loses a reference.
LEMMA RemovedIs ==
    ASSUME NEW O \in Seq(Object), NEW T, IsTable(T), Fits(O, T),
           NEW X \in [DOMAIN O -> Nat], Counted(O, T, X),
           NEW n \in Instance, NEW H, H = Removed(Heap(O, T), n)
    PROVE  /\ H = Heap(H.obj, H.table) /\ Shrunk(O, H.obj)
           /\ IsTable(H.table) /\ (H.table = <<>> <=> T = <<>>)
           /\ Fits(H.obj, H.table) /\ Counted(H.obj, H.table, X)
<1>1. Heap(O, T).obj = O /\ Heap(O, T).table = T
  BY DEF Heap
<1>2. CASE T = <<>> \/ T[n] = 0
  <2>1. H = Heap(O, T)
    BY <1>1, <1>2 DEF Removed
  <2>2. Shrunk(O, O)
    BY ObjectsAre DEF Dropped, Shrunk
  <2> QED BY <1>1, <2>1, <2>2
<1>3. CASE T # <<>> /\ T[n] # 0
  <2> DEFINE i == T[n]
             T1 == [T EXCEPT ![n] = 0]
  <2>1. T \in [Instance -> Nat] /\ i \in DOMAIN O /\ O[i].name = n
    BY <1>3 DEF IsTable, Fits
  <2>2. T1 \in [Instance -> Nat] /\ T1[n] = 0 /\ \A m \in Instance : m # n => T1[m] = T[m]
    BY <2>1
  <2>3. T1 # <<>>
    <3>1. n \in DOMAIN T1 /\ DOMAIN <<>> = {}
      BY <2>2
    <3> QED BY <3>1
  <2>4. [Heap(O, T) EXCEPT !.table[n] = 0] = Heap(O, T1)
    BY <2>1, HeapExcept
  <2> HIDE DEF T1
  <2>5. H = IF O[i].refs = 1 THEN Freed(Heap(O, T1), i) ELSE Less(Heap(O, T1), i)
    <3>1. Heap(O, T1).obj = O
      BY DEF Heap
    <3> QED BY <1>1, <1>3, <2>4, <3>1 DEF Removed, Less
  <2>6. i \in Nat /\ i # 0
    BY <1>3, <2>1
  <2> HIDE DEF i
  <2>7. Listed(O, T, i) /\ ~Listed(O, T1, i)
    BY <1>3, <2>1, <2>2, <2>6 DEF Listed, i
  <2>8. O[i].refs = Uses(O, T, i) + X[i] /\ X[i] \in Nat
    BY <2>1 DEF Counted
  <2>9. O[i].refs \in Nat /\ O[i].refs >= 1 /\ O[i].refs - 1 = Uses(O, T1, i) + X[i]
    BY <2>7, <2>8 DEF Uses, One
  <2>10. /\ H = Heap(H.obj, T1) /\ Replaced(O, H.obj, i)
         /\ H.obj[i].refs = O[i].refs - 1 /\ Dropped(H.obj[i], O[i])
    <3>1. CASE O[i].refs = 1
      BY <2>1, <2>5, <3>1, FreedIs
    <3>2. CASE O[i].refs # 1
      <4>1. O[i].refs > 1
        BY <2>9, <3>2
      <4> QED BY <2>1, <2>5, <3>2, <4>1, LessIs
    <3> QED BY <3>1, <3>2
  <2>11. H.table = T1
    BY <2>10 DEF Heap
  <2> DEFINE O1 == H.obj
  <2>12. O1 \in Seq(Object) /\ DOMAIN O1 = DOMAIN O
         /\ (\A j \in DOMAIN O : j # i => O1[j] = O[j])
         /\ O1[i].name = n /\ O1[i].child = O[i].child /\ O1[i].refs = O[i].refs - 1
    BY <2>1, <2>10 DEF Replaced, Dropped
  <2>13. Shrunk(O, O1)
    BY <2>10, <2>12, ShrunkToo
  <2>14. H = Heap(O1, T1)
    BY <2>10
  <2> HIDE DEF O1
  <2>15. Fits(O1, T1)
    BY <1>3, <2>1, <2>2, <2>12 DEF Fits, i
  <2>16. Counted(O1, T1, X)
    <3> SUFFICES ASSUME NEW j \in DOMAIN O PROVE O1[j].refs = Uses(O1, T1, j) + X[j]
      BY <2>12 DEF Counted
    <3>1. CASE j = i
      <4>1. ~Listed(O1, T1, i)
        BY <2>2, <2>6, <2>12 DEF Listed
      <4> QED BY <2>7, <2>9, <2>12, <3>1, <4>1 DEF Uses, One
    <3>2. CASE j # i
      <4>1. O[j].name \in Instance
        BY ObjectsAre
      <4>2. Listed(O1, T1, j) <=> Listed(O, T, j)
        <5>1. CASE O[j].name = n
          BY <1>3, <2>1, <2>2, <2>3, <2>12, <3>2, <5>1, <2>6, LenProperties DEF Listed, i
        <5>2. CASE O[j].name # n
          BY <1>3, <2>2, <2>3, <2>12, <3>2, <4>1, <5>2 DEF Listed
        <5> QED BY <5>1, <5>2
      <4>3. O[j].refs = Uses(O, T, j) + X[j]
        BY DEF Counted
      <4>4. Uses(O1, T1, j) = Uses(O, T, j)
        BY <2>12, <3>2, <4>2 DEF Uses, One
      <4> QED BY <2>12, <3>2, <4>3, <4>4
    <3> QED BY <3>1, <3>2
  <2> QED BY <1>3, <2>2, <2>3, <2>11, <2>13, <2>14, <2>15, <2>16 DEF IsTable, O1
<1> QED BY <1>2, <1>3

\* The object at i has a reference more, with X, than it should have, with Y.
OneTooMany(O, T, X, Y, i) ==
    /\ O \in Seq(Object) /\ IsTable(T) /\ Fits(O, T) /\ Counted(O, T, X)
    /\ X \in [DOMAIN O -> Nat] /\ Y \in [DOMAIN O -> Nat]
    /\ i \in DOMAIN O /\ X[i] = Y[i] + 1 /\ \A j \in DOMAIN O : j # i => Y[j] = X[j]

\* The heap H comes of O and T, and Y counts its objects.
Settled(O, T, Y, H) ==
    /\ H = Heap(H.obj, H.table) /\ Shrunk(O, H.obj)
    /\ IsTable(H.table) /\ (H.table = <<>> <=> T = <<>>)
    /\ Fits(H.obj, H.table) /\ Counted(H.obj, H.table, Y)

\* g_object_unref of an object that has a reference too many.
LEMMA UnrefIs ==
    ASSUME NEW O, NEW T, NEW X, NEW Y, NEW i, OneTooMany(O, T, X, Y, i)
    PROVE  Settled(O, T, Y, Unref(Heap(O, T), i))
<1> DEFINE H == Unref(Heap(O, T), i)
<1>0. /\ O \in Seq(Object) /\ IsTable(T) /\ Fits(O, T) /\ Counted(O, T, X)
      /\ X \in [DOMAIN O -> Nat] /\ Y \in [DOMAIN O -> Nat]
      /\ i \in DOMAIN O /\ X[i] = Y[i] + 1 /\ \A j \in DOMAIN O : j # i => Y[j] = X[j]
  BY DEF OneTooMany
<1> SUFFICES Settled(O, T, Y, H)
  OBVIOUS
<1> HIDE DEF H
<1> DEFINE F == Freed(Heap(O, T), i)
<1>1. Heap(O, T).obj = O /\ Heap(O, T).table = T
  BY DEF Heap
<1>2. X[i] \in Nat /\ Y[i] \in Nat /\ Y[i] = X[i] - 1 /\ X[i] > 0
  BY <1>0
<1>3. O[i].refs = Uses(O, T, i) + X[i] /\ X[i] \in Nat /\ O[i].name \in Instance
  BY <1>0, <1>2, ObjectsAre DEF Counted
<1>4. Uses(O, T, i) \in Nat
  BY DEF Uses, One
<1>5. ASSUME NEW O1, Replaced(O, O1, i), Dropped(O1[i], O[i]), O1[i].refs = O[i].refs - 1
      PROVE  Shrunk(O, O1) /\ Fits(O1, T) /\ Counted(O1, T, Y)
  <2>1. O1 \in Seq(Object) /\ DOMAIN O1 = DOMAIN O /\ (\A j \in DOMAIN O : j # i => O1[j] = O[j])
        /\ (\A j \in DOMAIN O : O1[j].name = O[j].name /\ O1[j].child = O[j].child)
    BY <1>5 DEF Replaced, Dropped
  <2>2. Shrunk(O, O1)
    BY <1>0, <1>5, <2>1, ShrunkToo
  <2>3. Fits(O1, T)
    BY <1>0, <2>1 DEF Fits
  <2>4. \A j \in DOMAIN O : Uses(O1, T, j) = Uses(O, T, j) /\ O[j].refs = Uses(O, T, j) + X[j]
    BY <1>0, <2>1 DEF Uses, Listed, Counted
  <2>5. Counted(O1, T, Y)
    <3> SUFFICES ASSUME NEW j \in DOMAIN O PROVE O1[j].refs = Uses(O1, T, j) + Y[j]
      BY <2>1 DEF Counted
    <3>1. CASE j = i
      BY <1>0, <1>2, <1>3, <1>4, <1>5, <2>4, <3>1
    <3>2. CASE j # i
      BY <1>0, <2>1, <2>4, <3>2
    <3> QED BY <3>1, <3>2
  <2> QED BY <2>2, <2>3, <2>5
<1>6. CASE O[i].refs = 1
  <2>1. H = Removed(F, O[i].name)
    BY <1>1, <1>6 DEF Unref, H
  <2>2. F = Heap(F.obj, T) /\ Replaced(O, F.obj, i) /\ F.obj[i].refs = 0 /\ Dropped(F.obj[i], O[i])
    BY <1>0, FreedIs
  <2> DEFINE O1 == F.obj
  <2>3. F = Heap(O1, T) /\ Replaced(O, O1, i) /\ O1[i].refs = O[i].refs - 1 /\ Dropped(O1[i], O[i])
    BY <1>6, <2>2
  <2> HIDE DEF O1, F
  <2>4. Shrunk(O, O1) /\ Fits(O1, T) /\ Counted(O1, T, Y) /\ O1 \in Seq(Object) /\ DOMAIN O1 = DOMAIN O
    BY <1>5, <2>3 DEF Shrunk
  <2>5. H = Removed(Heap(O1, T), O[i].name)
    BY <2>1, <2>3
  <2>7. Y \in [DOMAIN O1 -> Nat]
    BY <1>0, <2>4
  <2>6. /\ H = Heap(H.obj, H.table) /\ Shrunk(O1, H.obj)
        /\ IsTable(H.table) /\ (H.table = <<>> <=> T = <<>>)
        /\ Fits(H.obj, H.table) /\ Counted(H.obj, H.table, Y)
    BY <1>0, <1>3, <2>4, <2>5, <2>7, RemovedIs
  <2>8. Shrunk(O, H.obj)
    BY <1>0, <2>4, <2>6, ShrunkTwice
  <2> QED BY <2>6, <2>8 DEF Settled
<1>7. CASE O[i].refs # 1
  <2>1. H = Less(Heap(O, T), i)
    BY <1>1, <1>7 DEF Unref, Less, H
  <2>2. O[i].refs > 1
    BY <1>2, <1>3, <1>4, <1>7
  <2>3. H = Heap(H.obj, T) /\ Replaced(O, H.obj, i) /\ H.obj[i].refs = O[i].refs - 1 /\ Dropped(H.obj[i], O[i])
    BY <1>0, <2>1, <2>2, LessIs
  <2>4. H.table = T
    BY <2>3 DEF Heap
  <2>5. Shrunk(O, H.obj) /\ Fits(H.obj, T) /\ Counted(H.obj, T, Y)
    BY <1>5, <2>3
  <2> QED BY <1>0, <2>3, <2>4, <2>5 DEF Settled
<1> QED BY <1>6, <1>7

-----------------------------------------------------------------------------
(* An object changes                                                       *)

\* A child that two sums both count cancels.
LEMMA SameChildCancels ==
    ASSUME NEW refs \in Nat, NEW listed \in Nat, NEW before \in Nat, NEW after \in Nat,
           NEW x \in Nat, refs + before = listed + before + after + x
    PROVE  refs = listed + after + x
OBVIOUS

\* The object at i becomes o: if its child ends, one reference is too many.
LEMMA ReplacedFits ==
    ASSUME NEW O \in Seq(Object), NEW T, Fits(O, T), Counted(O, T, NoExtra(O)),
           NEW i \in DOMAIN O, NEW o \in Object, o.name = O[i].name, NEW x \in Nat,
           o.refs + One(O[i].child # Nothing) = O[i].refs + One(o.child # Nothing) + x,
           NEW O1, O1 = [O EXCEPT ![i] = o]
    PROVE  /\ Replaced(O, O1, i) /\ O1[i] = o /\ Fits(O1, T)
           /\ Counted(O1, T, [NoExtra(O) EXCEPT ![i] = x])
<1>1. Replaced(O, O1, i) /\ O1[i] = o
  BY ReplacedBy
<1>2. DOMAIN O1 = DOMAIN O /\ (\A j \in DOMAIN O : j # i => O1[j] = O[j])
      /\ (\A j \in DOMAIN O : O1[j].name = O[j].name)
  BY <1>1 DEF Replaced
<1>3. Fits(O1, T)
  BY <1>2 DEF Fits
<1>4. \A j \in DOMAIN O : Listed(O1, T, j) <=> Listed(O, T, j)
  BY <1>2 DEF Listed
<1>5. ASSUME NEW j \in DOMAIN O
      PROVE  O1[j].refs = Uses(O1, T, j) + [NoExtra(O) EXCEPT ![i] = x][j]
  <2>1. O[j].refs = Uses(O, T, j) + 0 /\ O[j].refs \in Nat
    BY ObjectsAre DEF Counted, NoExtra
  <2>2. CASE j = i
    <3>1. [NoExtra(O) EXCEPT ![i] = x][j] = x
      BY <2>2 DEF NoExtra
    <3>2. o.refs \in Nat
      BY DEF Object
    <3> DEFINE listed == One(Listed(O, T, i))
               before == One(O[i].child # Nothing)
               after  == One(o.child # Nothing)
    <3>3. Uses(O1, T, i) = listed + after
      BY <1>1, <1>4, <2>2 DEF Uses, One
    <3>4. Uses(O, T, i) = listed + before
      BY DEF Uses
    <3>5. listed \in Nat /\ after \in Nat /\ before \in Nat
      BY DEF One
    <3>6. o.refs + before = O[i].refs + after + x
      OBVIOUS
    <3> HIDE DEF listed, before, after
    <3>7. O[i].refs = Uses(O, T, i) /\ O[i].refs \in Nat /\ O1[i].refs = o.refs
      BY <1>1, <2>1, <2>2, <3>4, <3>5
    <3>8. o.refs + before = listed + before + after + x
      BY <3>4, <3>6, <3>7
    <3>9. o.refs = listed + after + x
      BY <3>2, <3>5, <3>8, SameChildCancels
    <3> QED BY <2>2, <3>1, <3>3, <3>7, <3>9
  <2>3. CASE j # i
    <3>1. [NoExtra(O) EXCEPT ![i] = x][j] = 0
      BY <2>3 DEF NoExtra
    <3>2. Uses(O1, T, j) = Uses(O, T, j)
      BY <1>2, <1>4, <2>3 DEF Uses, One
    <3> QED BY <1>2, <2>1, <2>3, <3>1, <3>2
  <2> QED BY <2>2, <2>3
<1> QED BY <1>1, <1>2, <1>3, <1>5 DEF Counted

\* The same when the references still fit.
LEMMA ReplacedCounts ==
    ASSUME NEW O \in Seq(Object), NEW T, Fits(O, T), Counted(O, T, NoExtra(O)),
           NEW i \in DOMAIN O, NEW o \in Object, o.name = O[i].name,
           o.refs + One(O[i].child # Nothing) = O[i].refs + One(o.child # Nothing),
           NEW O1, O1 = [O EXCEPT ![i] = o]
    PROVE  /\ Replaced(O, O1, i) /\ O1[i] = o /\ Fits(O1, T)
           /\ Counted(O1, T, NoExtra(O1))
<1>1. o.refs + One(O[i].child # Nothing) = O[i].refs + One(o.child # Nothing) + 0
  <2>1. o.refs \in Nat /\ O[i].refs \in Nat
    BY ObjectsAre DEF Object
  <2> QED BY <2>1 DEF One
<1>2. /\ Replaced(O, O1, i) /\ O1[i] = o /\ Fits(O1, T)
      /\ Counted(O1, T, [NoExtra(O) EXCEPT ![i] = 0])
  BY <1>1, ReplacedFits
<1>3. [NoExtra(O) EXCEPT ![i] = 0] = NoExtra(O1)
  BY <1>2 DEF NoExtra, Replaced
<1> QED BY <1>2, <1>3

LEMMA Sound ==
    ASSUME DiscoveryInv, NEW i \in DOMAIN objects
    PROVE  objects[i] \in Object /\ objects[i].name \in Instance /\ objects[i].refs \in Nat
           /\ Kept(objects[i]) /\ Truthful(objects[i])
BY ObjectsAre DEF DiscoveryInv, DiscoveryTypes

LEMMA SendsKept ==
    ASSUME UNCHANGED <<told, refused>>
    PROVE  LastSent' = LastSent /\ (SendsTyped => SendsTyped')
BY DEF LastSent, SendsTyped

\* One object changes, and what the CMA was told does not.
LEMMA ChangeKeeps ==
    ASSUME DiscoveryInv, NEW i \in DOMAIN objects, NEW o \in Object, o.name = objects[i].name,
           o.refs + One(objects[i].child # Nothing) = objects[i].refs + One(o.child # Nothing),
           Kept(o), Truthful(o),
           objects' = [objects EXCEPT ![i] = o], UNCHANGED <<table, config, cma, told, refused, world>>
    PROVE  DiscoveryInv'
<1>1. objects \in Seq(Object) /\ Fits(objects, table) /\ Counted(objects, table, NoExtra(objects))
  BY DEF DiscoveryInv, DiscoveryTypes
<1>2. /\ Replaced(objects, objects', i) /\ objects'[i] = o /\ Fits(objects', table)
      /\ Counted(objects', table, NoExtra(objects'))
  BY <1>1, ReplacedCounts
<1>3. DOMAIN objects' = DOMAIN objects /\ objects' \in Seq(Object)
      /\ (\A j \in DOMAIN objects : j # i => objects'[j] = objects[j])
  BY <1>2 DEF Replaced
<1>4. DiscoveryTypes'
  BY <1>3, SendsKept DEF DiscoveryInv, DiscoveryTypes
<1>5. ASSUME NEW j \in DOMAIN objects' PROVE (Kept(objects[j]) /\ Truthful(objects[j]))'
  <2>1. Kept(objects'[j]) /\ Truthful(objects'[j])
    BY <1>2, <1>3, Sound
  <2> QED BY <2>1, SendsKept DEF Kept, Truthful
<1> QED BY <1>2, <1>4, <1>5 DEF DiscoveryInv

LEMMA RediscoverKeeps ==
    ASSUME DiscoveryInv, NEW i \in DOMAIN objects, NEW spawns \in Spawns, Rediscover(i, spawns)
    PROVE  DiscoveryInv'
<1> DEFINE o == objects[i]
           o1 == Discover(o, spawns)
<1>1. o \in Object /\ Kept(o) /\ Truthful(o) /\ o.refs > 0 /\ Kind[o.name] = "JSON" /\ o.refs \in Nat
  BY Sound DEF Rediscover, Alive
<1>2. objects' = [objects EXCEPT ![i] = o1] /\ UNCHANGED <<table, config, cma, told, refused, world>>
  BY DEF Rediscover
<1> HIDE DEF o
<1>3. CASE o.child # Nothing
  <2>1. o1 = o
    BY <1>3 DEF Discover
  <2> QED BY <1>1, <1>2, <2>1, ChangeKeeps DEF o
<1>4. CASE o.child = Nothing /\ spawns
  <2>1. o1 = [o EXCEPT !.child = "running", !.refs = @ + 1]
    BY <1>1, <1>4 DEF Discover, Spawned
  <2>2. o1 \in [name : {o.name}, refs : {o.refs + 1}, captures : {o.captures}, timer : {o.timer},
                owned : {o.owned}, child : {"running"}, cache : {o.cache}, sentyet : {o.sentyet}]
    BY <1>1, <2>1 DEF Object
  <2> HIDE DEF o1
  <2>3. o1.name = o.name /\ o1.refs = o.refs + 1 /\ o1.timer = o.timer /\ o1.owned = o.owned
        /\ o1.child = "running" /\ o1.cache = o.cache /\ o1.sentyet = o.sentyet
    BY <2>2
  <2>4. o1 \in Object
    BY <1>1, <2>2, DataFacts DEF Object
  <2>5. Kept(o1) /\ Truthful(o1)
    BY <1>1, <2>3 DEF Kept, Truthful
  <2>6. o1.refs + One(o.child # Nothing) = o.refs + One(o1.child # Nothing)
    BY <1>1, <1>4, <2>3, DataFacts DEF One
  <2> QED BY <1>2, <2>3, <2>4, <2>5, <2>6, ChangeKeeps DEF o
<1>5. CASE o.child = Nothing /\ ~spawns
  <2>1. o1 = [o EXCEPT !.timer = FALSE]
    BY <1>1, <1>5 DEF Discover
  <2>2. o1 \in [name : {o.name}, refs : {o.refs}, captures : {o.captures}, timer : {FALSE},
                owned : {o.owned}, child : {o.child}, cache : {o.cache}, sentyet : {o.sentyet}]
    BY <1>1, <2>1 DEF Object
  <2> HIDE DEF o1
  <2>3. o1.name = o.name /\ o1.refs = o.refs /\ ~o1.timer
        /\ o1.child = o.child /\ o1.cache = o.cache /\ o1.sentyet = o.sentyet
    BY <2>2
  <2>4. o1 \in Object
    BY <1>1, <2>2 DEF Object
  <2>5. Kept(o1) /\ Truthful(o1)
    BY <1>1, <2>3 DEF Kept, Truthful
  <2> QED BY <1>2, <2>3, <2>4, <2>5, ChangeKeeps DEF o
<1> QED BY <1>3, <1>4, <1>5

LEMMA AgentPrintsKeeps ==
    ASSUME DiscoveryInv, NEW i \in DOMAIN objects, AgentPrints(i)
    PROVE  DiscoveryInv'
<1> DEFINE o == objects[i]
           v == world[o.name]
           o1 == [o EXCEPT !.child = v]
<1>1. o \in Object /\ o.name \in Instance /\ Kept(o) /\ Truthful(o) /\ o.child = "running"
  BY Sound DEF AgentPrints
<1>2. v \in Value
  BY <1>1 DEF DiscoveryInv, DiscoveryTypes
<1>3. objects' = [objects EXCEPT ![i] = o1] /\ UNCHANGED <<table, config, cma, told, refused, world>>
  BY DEF AgentPrints
<1> HIDE DEF o, v
<1>4. o1 \in Object /\ o1.name = o.name /\ o1.refs = o.refs /\ o1.child = v /\ o1.timer = o.timer
      /\ o1.owned = o.owned /\ o1.cache = o.cache /\ o1.sentyet = o.sentyet
  BY <1>1, <1>2, DataFacts DEF Object
<1>5. v # Nothing
  BY <1>2, DataFacts
<1> HIDE DEF o1
<1>6. Kept(o1) /\ Truthful(o1)
  BY <1>1, <1>4, DataFacts DEF Kept, Truthful
<1>7. o1.refs + One(o.child # Nothing) = o.refs + One(o1.child # Nothing)
  BY <1>1, <1>4, <1>5, DataFacts DEF One
<1> QED BY <1>3, <1>4, <1>6, <1>7, ChangeKeeps DEF o

\* Neither references nor children change: an end of a capture, an ARP packet.
LEMMA CapturesKeep ==
    ASSUME DiscoveryInv, NEW i \in DOMAIN objects, CaptureFails(i) \/ HearArp(i)
    PROVE  DiscoveryInv'
<1> DEFINE o == objects[i]
<1>1. o \in Object /\ o.name \in Instance /\ Kept(o) /\ Truthful(o)
  BY Sound
<1>2. CASE CaptureFails(i)
  <2> DEFINE o1 == [o EXCEPT !.captures = FALSE]
  <2>1. objects' = [objects EXCEPT ![i] = o1] /\ UNCHANGED <<table, config, cma, told, refused, world>>
    BY <1>2 DEF CaptureFails
  <2> HIDE DEF o
  <2>2. o1 \in Object /\ o1.name = o.name /\ o1.refs = o.refs /\ o1.child = o.child /\ o1.timer = o.timer
        /\ o1.owned = o.owned /\ o1.cache = o.cache /\ o1.sentyet = o.sentyet
    BY <1>1 DEF Object
  <2> HIDE DEF o1
  <2>3. Kept(o1) /\ Truthful(o1)
    BY <1>1, <2>2 DEF Kept, Truthful
  <2> QED BY <2>1, <2>2, <2>3, ChangeKeeps DEF o
<1>3. CASE HearArp(i)
  <2> DEFINE v == world[o.name]
             o1 == [o EXCEPT !.cache = v]
  <2>1. objects' = [objects EXCEPT ![i] = o1] /\ UNCHANGED <<table, config, cma, told, refused, world>>
        /\ Kind[o.name] = "ARP"
    BY <1>3 DEF HearArp
  <2>2. v \in Data
    BY <1>1, DataFacts DEF DiscoveryInv, DiscoveryTypes
  <2> HIDE DEF o, v
  <2>3. o1 \in Object /\ o1.name = o.name /\ o1.refs = o.refs /\ o1.child = o.child /\ o1.timer = o.timer
        /\ o1.owned = o.owned /\ o1.sentyet = o.sentyet
    BY <1>1, <2>2 DEF Object
  <2> HIDE DEF o1
  <2>4. Kept(o1) /\ Truthful(o1)
    BY <1>1, <2>1, <2>3 DEF Kept, Truthful
  <2> QED BY <2>1, <2>3, <2>4, ChangeKeeps DEF o
<1> QED BY <1>2, <1>3

-----------------------------------------------------------------------------
(* The CMA is told                                                         *)

\* Two switch discoveries of one name are not both alive: neither has a child, and
\* the table holds one.
LEMMA OneSwitch ==
    ASSUME DiscoveryInv, NEW i \in DOMAIN objects, NEW j \in DOMAIN objects,
           objects[i].name = objects[j].name, Kind[objects[i].name] = "SWITCH",
           objects[i].refs > 0, objects[j].refs > 0
    PROVE  i = j
<1>1. Counted(objects, table, NoExtra(objects))
  BY DEF DiscoveryInv
<1>2. objects[i].child = Nothing /\ objects[j].child = Nothing
  BY Sound DEF Kept
<1>3. Listed(objects, table, i) /\ Listed(objects, table, j)
  BY <1>1, <1>2 DEF Counted, Uses, One, NoExtra
<1> QED BY <1>3 DEF Listed

\* What is given to the protocol is what was sent last, whatever becomes of it.
LEMMA SendReliableIs ==
    ASSUME SendsTyped, NEW n \in Instance, NEW v \in Data, NEW accepted \in BOOLEAN,
           SendReliable(n, v, accepted)
    PROVE  SendsTyped' /\ LastSent'[n] = v /\ \A m \in Instance : m # n => LastSent'[m] = LastSent[m]
<1>1. v # Accepted
  BY DiscoveryAssumption DEF Data, Nothing, Accepted
<1>2. CASE accepted
  BY <1>2 DEF SendReliable, SendsTyped, LastSent
<1>3. CASE ~accepted
  BY <1>1, <1>3 DEF SendReliable, SendsTyped, LastSent
<1> QED BY <1>2, <1>3

LEMMA HearSwitchKeeps ==
    ASSUME DiscoveryInv, NEW i \in DOMAIN objects, NEW accepted \in BOOLEAN, HearSwitch(i, accepted)
    PROVE  DiscoveryInv'
<1> DEFINE o == objects[i]
           v == world[o.name]
           o1 == [o EXCEPT !.cache = v]
<1>1. o \in Object /\ o.name \in Instance /\ Kept(o) /\ Truthful(o) /\ o.refs > 0 /\ Kind[o.name] = "SWITCH"
  BY Sound DEF HearSwitch, Alive
<1>2. v \in Data
  BY <1>1, DataFacts DEF DiscoveryInv, DiscoveryTypes
<1>3. /\ objects' = [objects EXCEPT ![i] = o1] /\ SendReliable(o.name, v, accepted)
      /\ UNCHANGED <<table, config, cma, world>>
  BY DEF HearSwitch
<1>4. objects \in Seq(Object) /\ Fits(objects, table) /\ Counted(objects, table, NoExtra(objects))
      /\ SendsTyped
  BY DEF DiscoveryInv, DiscoveryTypes
<1>5. ASSUME NEW j \in DOMAIN objects, j # i, objects[j].name = o.name
      PROVE  ~(objects[j].refs > 0)
  BY <1>1, <1>5, OneSwitch
<1> HIDE DEF v
<1>6. SendsTyped' /\ LastSent'[o.name] = v
      /\ \A n \in Instance : n # o.name => LastSent'[n] = LastSent[n]
  BY <1>1, <1>2, <1>3, <1>4, SendReliableIs DEF o
<1>7. o1 \in Object /\ o1.name = o.name /\ o1.refs = o.refs /\ o1.child = o.child /\ o1.timer = o.timer
      /\ o1.owned = o.owned /\ o1.cache = v /\ o1.sentyet = o.sentyet
  BY <1>1, <1>2 DEF Object
<1> HIDE DEF o1
<1>8. /\ Replaced(objects, objects', i) /\ objects'[i] = o1 /\ Fits(objects', table)
      /\ Counted(objects', table, NoExtra(objects'))
  BY <1>3, <1>4, <1>7, ReplacedCounts
<1>9. DOMAIN objects' = DOMAIN objects /\ objects' \in Seq(Object)
      /\ (\A j \in DOMAIN objects : j # i => objects'[j] = objects[j])
  BY <1>8 DEF Replaced
<1>10. DiscoveryTypes'
  BY <1>3, <1>6, <1>9 DEF DiscoveryInv, DiscoveryTypes
<1>11. ASSUME NEW j \in DOMAIN objects' PROVE (Kept(objects[j]) /\ Truthful(objects[j]))'
  <2>1. CASE j = i
    <3>1. Kept(o1)
      BY <1>1, <1>7 DEF Kept
    <3>2. ~o1.sentyet
      BY <1>1, <1>7 DEF Truthful
    <3> QED BY <1>6, <1>7, <1>8, <2>1, <3>1, <3>2 DEF Kept, Truthful
  <2>2. CASE j # i
    <3>1. objects'[j] = objects[j] /\ Kept(objects[j]) /\ Truthful(objects[j]) /\ objects[j].name \in Instance
      BY <1>9, <2>2, Sound
    <3>2. CASE objects[j].name = o.name
      <4>1. ~(objects[j].refs > 0) /\ ~objects[j].sentyet
        BY <1>1, <1>5, <1>9, <2>2, <3>1, <3>2 DEF Truthful
      <4> QED BY <3>1, <4>1 DEF Kept, Truthful
    <3>3. CASE objects[j].name # o.name
      BY <1>3, <1>6, <3>1, <3>3 DEF Kept, Truthful
    <3> QED BY <3>2, <3>3
  <2> QED BY <2>1, <2>2
<1> QED BY <1>3, <1>8, <1>10, <1>11 DEF DiscoveryInv

\* _discovery_sendjson: what others of the same name hold for sent is told as well.
LEMMA SendJsonKeeps ==
    ASSUME DiscoveryInv, NEW o \in Object, Kind[o.name] # "SWITCH", Truthful(o),
           NEW v \in Data, NEW accepted \in BOOLEAN, SendJson(o, v, accepted), cma' = cma
    PROVE  /\ config' \in [Instance -> Data] /\ SendsTyped'
           /\ \A p \in Object : Truthful(p) => Truthful(p)'
           /\ SentYet(o, v).sentyet => cma /\ LastSent'[o.name] = config'[o.name]
<1>1. config \in [Instance -> Data] /\ SendsTyped /\ cma \in BOOLEAN /\ o.name \in Instance
  BY DEF DiscoveryInv, DiscoveryTypes, Object
<1>2. SentYet(o, v).sentyet = (o.sentyet \/ (cma /\ ~IsCached(o, v)))
  BY DEF SentYet, Object
<1>3. CASE IsCached(o, v)
  <2>1. UNCHANGED <<config, told, refused>>
    BY <1>3 DEF SendJson
  <2>2. o.sentyet
    BY <1>3 DEF IsCached
  <2> QED BY <1>1, <2>1, <2>2, SendsKept DEF Truthful
<1>4. CASE ~IsCached(o, v)
  <2>1. config' = [config EXCEPT ![o.name] = v]
        /\ IF cma THEN SendReliable(o.name, v, accepted) ELSE UNCHANGED <<told, refused>>
    BY <1>4 DEF SendJson
  <2>2. config' \in [Instance -> Data] /\ config'[o.name] = v
        /\ (\A n \in Instance : n # o.name => config'[n] = config[n])
    BY <1>1, <2>1
  <2>3. SendsTyped' /\ (cma => LastSent'[o.name] = v)
        /\ (\A n \in Instance : n # o.name => LastSent'[n] = LastSent[n])
    <3>1. CASE cma
      BY <1>1, <2>1, <3>1, SendReliableIs
    <3>2. CASE ~cma
      BY <1>1, <2>1, <3>2 DEF SendsTyped, LastSent
    <3> QED BY <3>1, <3>2
  <2>4. ASSUME NEW p \in Object, Truthful(p) PROVE Truthful(p)'
    <3>1. p.name \in Instance
      BY DEF Object
    <3>2. CASE p.name = o.name
      BY <2>2, <2>3, <2>4, <3>2 DEF Truthful
    <3>3. CASE p.name # o.name
      BY <2>2, <2>3, <2>4, <3>1, <3>3 DEF Truthful
    <3> QED BY <3>2, <3>3
  <2>5. SentYet(o, v).sentyet => cma /\ LastSent'[o.name] = config'[o.name]
    <3>1. SentYet(o, v).sentyet => cma
      BY <1>2 DEF Truthful
    <3> QED BY <2>2, <2>3, <3>1
  <2> QED BY <2>2, <2>3, <2>4, <2>5
<1> QED BY <1>3, <1>4

LEMMA SentYetIs ==
    ASSUME NEW o \in Object, NEW v
    PROVE  SentYet(o, v) \in Object /\ SentYet(o, v).name = o.name /\ SentYet(o, v).refs = o.refs
           /\ SentYet(o, v).child = o.child /\ SentYet(o, v).timer = o.timer
           /\ SentYet(o, v).owned = o.owned /\ SentYet(o, v).cache = o.cache
BY DEF SentYet, Object

LEMMA SendArpCacheKeeps ==
    ASSUME DiscoveryInv, NEW i \in DOMAIN objects, NEW accepted \in BOOLEAN, SendArpCache(i, accepted)
    PROVE  DiscoveryInv'
<1> DEFINE o == objects[i]
           s == SentYet(o, o.cache)
           o1 == [s EXCEPT !.owned = FALSE]
<1>1. o \in Object /\ o.name \in Instance /\ Kept(o) /\ Truthful(o) /\ Kind[o.name] = "ARP" /\ o.cache \in Data
  BY Sound DEF SendArpCache, Object
<1>2. objects' = [objects EXCEPT ![i] = o1] /\ SendJson(o, o.cache, accepted) /\ UNCHANGED <<table, cma, world>>
  BY DEF SendArpCache
<1> HIDE DEF o
<1>3. /\ config' \in [Instance -> Data] /\ SendsTyped'
      /\ \A p \in Object : Truthful(p) => Truthful(p)'
      /\ s.sentyet => cma /\ LastSent'[o.name] = config'[o.name]
  BY <1>1, <1>2, SendJsonKeeps
<1>4. s \in Object /\ s.name = o.name /\ s.refs = o.refs /\ s.child = o.child /\ s.timer = o.timer
      /\ s.cache = o.cache
  BY <1>1, SentYetIs
<1> HIDE DEF s
<1>5. o1 \in Object /\ o1.name = o.name /\ o1.refs = o.refs /\ o1.child = o.child /\ o1.cache = o.cache
      /\ o1.sentyet = s.sentyet
  BY <1>4 DEF Object
<1> HIDE DEF o1
<1>6. objects \in Seq(Object) /\ Fits(objects, table) /\ Counted(objects, table, NoExtra(objects))
  BY DEF DiscoveryInv, DiscoveryTypes
<1>7. o1.refs + One(o.child # Nothing) = o.refs + One(o1.child # Nothing)
  BY <1>5
<1>8. /\ Replaced(objects, objects', i) /\ objects'[i] = o1 /\ Fits(objects', table)
      /\ Counted(objects', table, NoExtra(objects'))
  BY <1>2, <1>5, <1>6, <1>7, ReplacedCounts DEF o
<1>9. DOMAIN objects' = DOMAIN objects /\ objects' \in Seq(Object)
      /\ (\A j \in DOMAIN objects : j # i => objects'[j] = objects[j])
  BY <1>8 DEF Replaced
<1>10. DiscoveryTypes'
  BY <1>2, <1>3, <1>9 DEF DiscoveryInv, DiscoveryTypes
<1>11. ASSUME NEW j \in DOMAIN objects' PROVE (Kept(objects[j]) /\ Truthful(objects[j]))'
  <2>1. CASE j = i
    BY <1>1, <1>2, <1>3, <1>5, <1>8, <2>1 DEF Kept, Truthful
  <2>2. CASE j # i
    <3>1. objects'[j] = objects[j] /\ Kept(objects[j]) /\ Truthful(objects[j])' /\ objects[j] \in Object
      <4>1. objects'[j] = objects[j] /\ Kept(objects[j]) /\ Truthful(objects[j]) /\ objects[j] \in Object
        BY <1>9, <2>2, Sound
      <4> DEFINE p == objects'[j]
      <4>2. Truthful(p) /\ p \in Object
        BY <4>1
      <4> HIDE DEF p
      <4> QED BY <1>2, <1>3, <4>1, <4>2 DEF p, Truthful
    <3> QED BY <3>1 DEF Kept, Truthful
  <2> QED BY <2>1, <2>2
<1> QED BY <1>2, <1>8, <1>10, <1>11 DEF DiscoveryInv

LEMMA QuietKeeps ==
    ASSUME DiscoveryInv, SetConfig \/ \E n \in Instance : WorldChanges(n)
    PROVE  DiscoveryInv'
<1>1. UNCHANGED <<objects, table, config, told, refused>> /\ (cma => cma')
  BY DEF SetConfig, WorldChanges
<1>2. cma' \in BOOLEAN /\ world' \in [Instance -> Value]
  BY DEF SetConfig, WorldChanges, DiscoveryInv, DiscoveryTypes
<1>3. DiscoveryTypes'
  BY <1>1, <1>2, SendsKept DEF DiscoveryInv, DiscoveryTypes
<1>4. \A i \in DOMAIN objects : Kept(objects[i])' /\ Truthful(objects[i])'
  BY <1>1, SendsKept DEF DiscoveryInv, Kept, Truthful
<1> QED BY <1>1, <1>3, <1>4 DEF DiscoveryInv

-----------------------------------------------------------------------------
(* References are dropped                                                  *)

\* Truthful in the next state
TruthfulNext(o) ==
    /\ o.sentyet => Kind[o.name] # "SWITCH" /\ cma' /\ LastSent'[o.name] = config'[o.name]
    /\ Kind[o.name] = "SWITCH" /\ o.cache # Nothing /\ o.refs > 0 => LastSent'[o.name] = o.cache

\* The next objects are O with references dropped, and all are counted again.
LEMMA ShrunkKeeps ==
    ASSUME NEW O \in Seq(Object), \A j \in DOMAIN O : Kept(O[j]) /\ TruthfulNext(O[j]),
           Shrunk(O, objects'), IsTable(table'), Fits(objects', table'),
           Counted(objects', table', NoExtra(objects')),
           config' \in [Instance -> Data], SendsTyped',
           cma' \in BOOLEAN, world' \in [Instance -> Value]
    PROVE  DiscoveryInv'
<1>1. objects' \in Seq(Object) /\ DOMAIN objects' = DOMAIN O
  BY DEF Shrunk
<1>2. ASSUME NEW j \in DOMAIN objects' PROVE (Kept(objects[j]) /\ Truthful(objects[j]))'
  <2>1. Dropped(objects'[j], O[j]) /\ Kept(O[j]) /\ TruthfulNext(O[j])
    BY <1>1 DEF Shrunk
  <2>2. O[j].refs \in Nat /\ objects'[j].refs \in Nat
    BY <1>1, ObjectsAre
  <2>3. Kept(objects'[j]) /\ TruthfulNext(objects'[j])
    BY <2>1, <2>2 DEF Dropped, Kept, TruthfulNext
  <2> QED BY <2>3 DEF Kept, Truthful, TruthfulNext
<1> QED BY <1>1, <1>2 DEF DiscoveryInv, DiscoveryTypes

\* An agent ends: its object may go, and with it whatever has its name by now.
LEMMA ChildExitsKeeps ==
    ASSUME DiscoveryInv, NEW i \in DOMAIN objects, NEW zero \in BOOLEAN, NEW accepted \in BOOLEAN,
           ChildExits(i, zero, accepted)
    PROVE  DiscoveryInv'
<1> DEFINE o == objects[i]
           s == IF zero THEN SentYet(o, o.child) ELSE o
           o1 == [s EXCEPT !.child = Nothing]
           O1 == [objects EXCEPT ![i] = o1]
           H == Unref(Heap(O1, table), i)
<1>1. o \in Object /\ o.name \in Instance /\ o.refs \in Nat /\ Kept(o) /\ Truthful(o)
      /\ o.child # Nothing /\ o.child \in Data
  BY Sound DEF ChildExits, Object
<1>2. /\ objects' = H.obj /\ table' = H.table
      /\ IF zero THEN SendJson(o, o.child, accepted) ELSE UNCHANGED <<config, told, refused>>
      /\ UNCHANGED <<cma, world>>
  BY DEF ChildExits, Heap
<1> HIDE DEF H
<1>3. objects \in Seq(Object) /\ Fits(objects, table) /\ Counted(objects, table, NoExtra(objects))
      /\ IsTable(table) /\ config \in [Instance -> Data] /\ SendsTyped
      /\ cma \in BOOLEAN /\ world \in [Instance -> Value]
  BY DEF DiscoveryInv, DiscoveryTypes
<1>4. s \in Object /\ s.name = o.name /\ s.refs = o.refs /\ s.timer = o.timer /\ s.owned = o.owned
  BY <1>1, SentYetIs
<1>5. /\ config' \in [Instance -> Data] /\ SendsTyped'
      /\ \A p \in Object : Truthful(p) => TruthfulNext(p)
      /\ s.sentyet => cma /\ LastSent'[o.name] = config'[o.name]
  <2> HIDE DEF o
  <2>1. Kind[o.name] # "SWITCH"
    BY <1>1 DEF Kept
  <2>2. CASE zero
    <3>1. /\ config' \in [Instance -> Data] /\ SendsTyped'
          /\ \A p \in Object : Truthful(p) => Truthful(p)'
          /\ SentYet(o, o.child).sentyet => cma /\ LastSent'[o.name] = config'[o.name]
      BY <1>1, <1>2, <2>1, <2>2, SendJsonKeeps
    <3>2. \A p \in Object : Truthful(p) => TruthfulNext(p)
      BY <3>1 DEF Truthful, TruthfulNext
    <3> QED BY <2>2, <3>1, <3>2
  <2>3. CASE ~zero
    BY <1>1, <1>2, <1>3, <2>3, SendsKept DEF Truthful, TruthfulNext
  <2> QED BY <2>2, <2>3
<1>6. o1 \in Object /\ o1.name = o.name /\ o1.refs = o.refs /\ o1.child = Nothing
      /\ o1.timer = o.timer /\ o1.owned = o.owned /\ o1.sentyet = s.sentyet
  <2> HIDE DEF s
  <2> QED BY <1>4, DataFacts DEF Object
<1>7. Kept(o1) /\ TruthfulNext(o1)
  <2> HIDE DEF o1
  <2> QED BY <1>1, <1>2, <1>5, <1>6 DEF Kept, TruthfulNext
<1> DEFINE X == [NoExtra(objects) EXCEPT ![i] = 1]
<1>8. Replaced(objects, O1, i) /\ O1[i] = o1 /\ Fits(O1, table) /\ Counted(O1, table, X)
  <2> HIDE DEF o1
  <2>1. o1.refs + One(o.child # Nothing) = o.refs + One(o1.child # Nothing) + 1
    BY <1>1, <1>6 DEF One
  <2> QED BY <1>3, <1>6, <2>1, ReplacedFits
<1> HIDE DEF O1
<1>9. O1 \in Seq(Object) /\ DOMAIN O1 = DOMAIN objects
      /\ (\A j \in DOMAIN objects : j # i => O1[j] = objects[j])
  BY <1>8 DEF Replaced
<1>10. /\ X \in [DOMAIN O1 -> Nat] /\ NoExtra(O1) \in [DOMAIN O1 -> Nat]
       /\ X[i] = NoExtra(O1)[i] + 1
       /\ \A j \in DOMAIN O1 : j # i => NoExtra(O1)[j] = X[j]
  BY <1>9 DEF NoExtra
<1> HIDE DEF X
<1>14. OneTooMany(O1, table, X, NoExtra(O1), i)
  BY <1>3, <1>8, <1>9, <1>10 DEF OneTooMany
<1>15. Settled(O1, table, NoExtra(O1), H)
  BY <1>14, UnrefIs DEF H
<1>11. /\ Shrunk(O1, H.obj) /\ IsTable(H.table)
       /\ Fits(H.obj, H.table) /\ Counted(H.obj, H.table, NoExtra(O1))
  BY <1>15 DEF Settled
<1>12. NoExtra(O1) = NoExtra(H.obj)
  BY <1>11 DEF NoExtra, Shrunk
<1>13. ASSUME NEW j \in DOMAIN O1 PROVE Kept(O1[j]) /\ TruthfulNext(O1[j])
  <2>1. CASE j = i
    BY <1>7, <1>8, <2>1
  <2>2. CASE j # i
    <3>1. O1[j] = objects[j] /\ Kept(objects[j]) /\ Truthful(objects[j]) /\ objects[j] \in Object
      BY <1>9, <2>2, Sound
    <3> QED BY <1>5, <3>1
  <2> QED BY <2>1, <2>2
<1> QED BY <1>2, <1>3, <1>5, <1>9, <1>11, <1>12, <1>13, ShrunkKeeps

\* Without a table only children count.
LEMMA Unlisted ==
    ASSUME NEW O, NEW j
    PROVE  Uses(O, <<>>, j) = One(O[j].child # Nothing) /\ One(O[j].child # Nothing) \in Nat
<1>1. One(Listed(O, <<>>, j)) = 0
  BY DEF One, Listed
<1>2. One(O[j].child # Nothing) \in Nat
  BY DEF One
<1> QED BY <1>1, <1>2 DEF Uses

LEMMA UnregisterAllKeeps ==
    ASSUME DiscoveryInv, UnregisterAll
    PROVE  DiscoveryInv'
<1> DEFINE X == [j \in DOMAIN objects |-> One(Listed(objects, table, j))]
           U(j) == Unref(Heap(objects, <<>>), j)
           Rest(j) == IF table[objects[j].name] # j THEN objects[j] ELSE U(j).obj[j]
<1>1. /\ table # <<>> /\ table' = <<>> /\ objects' = [j \in DOMAIN objects |-> Rest(j)]
      /\ UNCHANGED <<config, cma, told, refused, world>>
  BY DEF UnregisterAll, ShuttingDown, Heap
<1>2. objects \in Seq(Object) /\ Counted(objects, table, NoExtra(objects))
      /\ IsTable(table) /\ config \in [Instance -> Data] /\ SendsTyped
      /\ cma \in BOOLEAN /\ world \in [Instance -> Value]
  BY DEF DiscoveryInv, DiscoveryTypes
<1>3. X \in [DOMAIN objects -> Nat] /\ \A j \in DOMAIN objects : X[j] = One(Listed(objects, table, j))
  BY DEF One
<1>4. \A O : Fits(O, <<>>) /\ \A j : ~Listed(O, <<>>, j)
  BY DEF Fits, Listed
<1>5. Counted(objects, <<>>, X)
  <2> SUFFICES ASSUME NEW j \in DOMAIN objects
               PROVE  objects[j].refs = Uses(objects, <<>>, j) + X[j]
    BY DEF Counted
  <2>1. objects[j].refs = Uses(objects, table, j) + 0
    BY <1>2 DEF Counted, NoExtra
  <2>2. Uses(objects, <<>>, j) = One(objects[j].child # Nothing)
    BY <1>4 DEF Uses, One
  <2> HIDE DEF X
  <2> QED BY <1>3, <2>1, <2>2 DEF Uses, One
<1> HIDE DEF X, U
<1>6. ASSUME NEW j \in DOMAIN objects
      PROVE  Rest(j) \in Object /\ Dropped(Rest(j), objects[j])
             /\ Rest(j).refs = One(objects[j].child # Nothing)
  <2>1. objects[j] \in Object /\ objects[j].refs \in Nat
    BY Sound
  <2>2. objects[j].refs = Uses(objects, <<>>, j) + X[j] /\ X[j] = One(Listed(objects, table, j))
    BY <1>3, <1>5 DEF Counted
  <2>3. Uses(objects, <<>>, j) = One(objects[j].child # Nothing)
    BY <1>4 DEF Uses, One
  <2>4. CASE table[objects[j].name] # j
    <3>1. ~Listed(objects, table, j)
      BY <2>4 DEF Listed
    <3> QED BY <2>1, <2>2, <2>3, <2>4, <3>1 DEF One, Dropped
  <2>5. CASE table[objects[j].name] = j
    <3>1. X[j] = 1
      BY <1>1, <2>2, <2>5 DEF Listed, One
    <3> DEFINE Y == [X EXCEPT ![j] = 0]
    <3>2. IsTable(<<>>)
      BY DEF IsTable
    <3>12. Y \in [DOMAIN objects -> Nat] /\ Y[j] = 0 /\ \A m \in DOMAIN objects : m # j => Y[m] = X[m]
      BY <1>3
    <3>13. X[j] = Y[j] + 1
      BY <3>1, <3>12
    <3> HIDE DEF Y
    <3>14. OneTooMany(objects, <<>>, X, Y, j)
      BY <1>2, <1>3, <1>4, <1>5, <3>2, <3>12, <3>13 DEF OneTooMany
    <3>15. Settled(objects, <<>>, Y, U(j))
      BY <3>14, UnrefIs DEF U
    <3>3. /\ Shrunk(objects, U(j).obj) /\ (U(j).table = <<>> <=> <<>> = <<>>)
          /\ Counted(U(j).obj, U(j).table, Y)
      BY <3>15 DEF Settled
    <3> DEFINE V == U(j).obj
    <3>4. U(j).table = <<>>
      BY <3>3
    <3>5. Shrunk(objects, V) /\ Counted(V, <<>>, Y)
      BY <3>3, <3>4
    <3>6. Rest(j) = V[j]
      BY <2>5
    <3> HIDE DEF V, Rest
    <3>7. V \in Seq(Object) /\ DOMAIN V = DOMAIN objects /\ Dropped(V[j], objects[j])
      BY <3>5 DEF Shrunk
    <3>8. V[j] \in Object
      BY <3>7, ObjectsAre
    <3>10. V[j].refs = Uses(V, <<>>, j) + 0
      BY <3>5, <3>7, <3>12 DEF Counted
    <3>11. Uses(V, <<>>, j) = One(objects[j].child # Nothing)
      BY <3>7, Unlisted DEF Dropped
    <3> QED BY <3>6, <3>7, <3>8, <3>10, <3>11 DEF One
  <2> QED BY <2>4, <2>5
<1> HIDE DEF Rest
<1>7. DOMAIN objects' = DOMAIN objects /\ \A j \in DOMAIN objects : objects'[j] = Rest(j)
  BY <1>1
<1>8. objects' \in Seq(Object)
  <2>1. DOMAIN objects = 1..Len(objects) /\ Len(objects) \in Nat
    BY <1>2, LenProperties
  <2>2. objects' = [j \in 1..Len(objects) |-> Rest(j)] /\ \A j \in 1..Len(objects) : Rest(j) \in Object
    BY <1>1, <1>6, <2>1
  <2> QED BY <2>1, <2>2, IsASeq
<1>9. Shrunk(objects, objects')
  BY <1>6, <1>7, <1>8 DEF Shrunk
<1>10. Counted(objects', <<>>, NoExtra(objects'))
  <2> SUFFICES ASSUME NEW j \in DOMAIN objects' PROVE objects'[j].refs = Uses(objects', <<>>, j) + 0
    BY DEF Counted, NoExtra
  <2>1. objects'[j].refs = One(objects[j].child # Nothing) /\ objects'[j].child = objects[j].child
    BY <1>6, <1>7 DEF Dropped
  <2>2. Uses(objects', <<>>, j) = One(objects'[j].child # Nothing)
        /\ One(objects'[j].child # Nothing) \in Nat
    BY Unlisted
  <2> QED BY <2>1, <2>2
<1>11. \A j \in DOMAIN objects : Kept(objects[j]) /\ TruthfulNext(objects[j])
  BY <1>1, Sound, SendsKept DEF Truthful, TruthfulNext
<1> QED BY <1>1, <1>2, <1>4, <1>9, <1>10, <1>11, ShrunkKeeps, SendsKept DEF IsTable

-----------------------------------------------------------------------------
(* A discovery is asked for                                                *)

\* The object before it is registered: one reference for who made it, and one for
\* the child it has started, if it did.
LEMMA NewIs ==
    ASSUME NEW n \in Instance, NEW captures \in BOOLEAN, NEW spawns \in BOOLEAN,
           NEW o, o = Discover(NewObject(n, captures), spawns)
    PROVE  /\ o \in Object /\ o.name = n /\ ~o.sentyet
           /\ o.refs = 1 + One(o.child # Nothing)
           /\ o.child # Nothing => Kind[n] = "JSON"
           /\ Kind[n] = "JSON" => ~o.timer
           /\ Kind[n] = "SWITCH" => o.cache = Nothing
<1> DEFINE b == NewDiscovery(n)
<1>1. b \in Object /\ b.name = n /\ b.refs = 1 /\ b.child = Nothing /\ b.cache = Nothing
  BY DataFacts DEF NewDiscovery, Object
<1>5. ~b.sentyet /\ ~b.timer
  BY DEF NewDiscovery
<1>2. CASE Kind[n] = "JSON"
  <2>1. NewObject(n, captures) = b
    BY <1>2 DEF NewObject
  <2>2. o = IF spawns THEN Spawned(b) ELSE [b EXCEPT !.timer = FALSE]
    BY <1>1, <1>2, <2>1 DEF Discover
  <2> HIDE DEF b
  <2>3. CASE spawns
    <3>1. o = [b EXCEPT !.child = "running", !.refs = @ + 1]
      BY <2>2, <2>3 DEF Spawned
    <3>2. o \in [name : {b.name}, refs : {b.refs + 1}, captures : {b.captures}, timer : {b.timer},
                 owned : {b.owned}, child : {"running"}, cache : {b.cache}, sentyet : {b.sentyet}]
      BY <1>1, <3>1 DEF Object
    <3>3. o \in Object
      BY <1>1, <3>2, DataFacts DEF Object
    <3>4. o.name = n /\ o.refs = 2 /\ o.timer = b.timer /\ o.child = "running" /\ o.sentyet = b.sentyet
      BY <1>1, <3>2
    <3>5. One(o.child # Nothing) = 1
      BY <3>4, DataFacts DEF One
    <3> QED BY <1>2, <1>5, <3>3, <3>4, <3>5
  <2>4. CASE ~spawns
    <3>1. o = [b EXCEPT !.timer = FALSE]
      BY <2>2, <2>4
    <3>2. o \in [name : {n}, refs : {1}, captures : BOOLEAN, timer : {FALSE},
                 owned : BOOLEAN, child : {Nothing}, cache : {Nothing}, sentyet : {b.sentyet}]
      BY <1>1, <3>1 DEF Object
    <3>3. o \in Object
      BY <1>1, <3>2, DataFacts DEF Object
    <3>4. o.name = n /\ o.refs = 1 /\ ~o.timer /\ o.child = Nothing /\ o.sentyet = b.sentyet
      BY <3>2
    <3>5. One(o.child # Nothing) = 0
      BY <3>4 DEF One
    <3> QED BY <1>2, <1>5, <3>3, <3>4, <3>5
  <2> QED BY <2>3, <2>4
<1>3. CASE Kind[n] = "SWITCH"
  <2>1. NewObject(n, captures) = [b EXCEPT !.captures = captures]
    BY <1>3 DEF NewObject, NewSwitch
  <2>2. o = [b EXCEPT !.captures = captures]
    <3>1. NewObject(n, captures).name = n
      BY <1>1, <2>1 DEF Object
    <3> QED BY <1>3, <2>1, <3>1 DEF Discover
  <2> HIDE DEF b
  <2>3. o \in Object /\ o.name = n /\ o.refs = 1 /\ o.child = Nothing /\ o.sentyet = b.sentyet
        /\ o.cache = Nothing
    BY <1>1, <2>2 DEF Object
  <2> QED BY <1>3, <1>5, <2>3 DEF One
<1>4. CASE Kind[n] = "ARP"
  <2> DEFINE a == [b EXCEPT !.captures = captures, !.timer = TRUE, !.owned = TRUE, !.cache = "empty"]
  <2>1. NewObject(n, captures) = a
    BY <1>4 DEF NewObject, NewArp
  <2>2. o = a
    <3>1. a.name = n
      BY <1>1 DEF Object
    <3> HIDE DEF a
    <3> QED BY <1>4, <2>1, <3>1 DEF Discover
  <2> HIDE DEF b
  <2>3. a \in [name : {n}, refs : {1}, captures : {captures}, timer : {TRUE},
               owned : {TRUE}, child : {Nothing}, cache : {"empty"}, sentyet : {b.sentyet}]
    BY <1>1 DEF Object
  <2>4. a \in Object
    BY <1>1, <2>3, DataFacts DEF Object
  <2> HIDE DEF a
  <2> QED BY <1>4, <1>5, <2>2, <2>3, <2>4 DEF One
<1> QED BY <1>2, <1>3, <1>4, DiscoveryAssumption

LEMMA SameLength == ASSUME NEW m \in Nat, NEW k \in Nat, 1..m = 1..k PROVE m = k
<1>1. CASE m = 0 \/ k = 0
  BY <1>1
<1>2. CASE m # 0 /\ k # 0
  <2>1. m \in 1..k /\ k \in 1..m
    BY <1>2
  <2> QED BY <2>1
<1> QED BY <1>1, <1>2

LEMMA CaptureValues == \A n \in Instance : Captures(n) \subseteq BOOLEAN
BY DEF Captures

\* discovery_register puts the new object into the table before the one that had its
\* name loses its reference, and whoever made the new one drops it at last.
LEMMA StartDiscoverKeeps ==
    ASSUME DiscoveryInv, NEW n \in Instance, NEW spawns \in BOOLEAN, NEW captures \in BOOLEAN,
           StartDiscover(n, spawns, captures)
    PROVE  DiscoveryInv'
<1> DEFINE o == Discover(NewObject(n, captures), spawns)
           k == Len(objects) + 1
           new == [o EXCEPT !.refs = @ + 1, !.timer = @ \/ n \in Repeats, !.owned = @ \/ n \in Repeats]
           O1 == Append(objects, new)
           T1 == [table EXCEPT ![n] = k]
           old == table[n]
           R == IF old = 0 THEN Heap(O1, T1) ELSE Unref(Heap(O1, T1), old)
           H == Unref(R, Len(R.obj))
<1>1. /\ table # <<>> /\ objects' = H.obj /\ table' = H.table
      /\ UNCHANGED <<config, cma, told, refused, world>>
  BY DEF StartDiscover, Register, ShuttingDown, Heap
<1> HIDE DEF H, R
<1>2. objects \in Seq(Object) /\ Fits(objects, table) /\ Counted(objects, table, NoExtra(objects))
      /\ table \in [Instance -> Nat] /\ config \in [Instance -> Data] /\ SendsTyped
      /\ cma \in BOOLEAN /\ world \in [Instance -> Value]
  BY <1>1 DEF DiscoveryInv, DiscoveryTypes, IsTable
<1>3. /\ o \in Object /\ o.name = n /\ ~o.sentyet
      /\ o.refs = 1 + One(o.child # Nothing)
      /\ o.child # Nothing => Kind[n] = "JSON"
      /\ Kind[n] = "JSON" => ~o.timer
      /\ Kind[n] = "SWITCH" => o.cache = Nothing
  BY NewIs
<1> HIDE DEF o
<1>4. new \in [name : {n}, refs : {o.refs + 1}, captures : BOOLEAN, timer : BOOLEAN, owned : BOOLEAN,
               child : {o.child}, cache : {o.cache}, sentyet : {o.sentyet}]
      /\ (new.timer => o.timer \/ n \in Repeats) /\ (n \in Repeats => new.owned)
  <2> DEFINE t == (o.timer \/ n \in Repeats)
             w == (o.owned \/ n \in Repeats)
             r == o.refs + 1
  <2>1. new = [o EXCEPT !.refs = r, !.timer = t, !.owned = w]
    OBVIOUS
  <2>2. t \in BOOLEAN /\ w \in BOOLEAN
    BY Zenon
  <2>3. (t => o.timer \/ n \in Repeats) /\ (n \in Repeats => w)
    OBVIOUS
  <2> HIDE DEF t, w, r, new
  <2>4. new \in [name : {n}, refs : {r}, captures : BOOLEAN, timer : {t}, owned : {w},
                 child : {o.child}, cache : {o.cache}, sentyet : {o.sentyet}]
    BY <1>3, <2>1, <2>2 DEF Object
  <2>5. new.timer = t /\ new.owned = w
    BY <2>4
  <2> QED BY <2>2, <2>3, <2>4, <2>5 DEF r
<1> HIDE DEF new
<1>5. new \in Object /\ new.name = n /\ new.child = o.child /\ new.refs = 2 + One(new.child # Nothing)
      /\ ~new.sentyet /\ new.cache = o.cache
  <2>1. o.refs \in Nat /\ o.refs + 1 \in Nat /\ o.child \in Data /\ o.cache \in Data
    BY <1>3 DEF Object
  <2>2. new.name = n /\ new.child = o.child /\ new.refs = o.refs + 1 /\ ~new.sentyet /\ new.cache = o.cache
    BY <1>3, <1>4
  <2>3. new \in Object
    BY <1>3, <1>4, <2>1 DEF Object
  <2>4. One(new.child # Nothing) = One(o.child # Nothing) /\ One(o.child # Nothing) \in Nat
    BY <2>2 DEF One
  <2> QED BY <1>3, <2>2, <2>3, <2>4
<1>6. Kept(new) /\ TruthfulNext(new)
  <2>1. n \in Repeats => Kind[n] = "JSON"
    BY DiscoveryAssumption
  <2>2. new.refs > 0
    BY <1>5 DEF One
  <2> QED BY <1>3, <1>4, <1>5, <2>1, <2>2 DEF Kept, TruthfulNext
<1>7. /\ O1 \in Seq(Object) /\ Len(O1) = k /\ O1[k] = new
      /\ \A j \in 1..Len(objects) : O1[j] = objects[j]
  BY <1>2, <1>5, AppendProperties
<1>8. DOMAIN objects = 1..Len(objects) /\ DOMAIN O1 = 1..k /\ Len(objects) \in Nat
  BY <1>2, <1>7, LenProperties
<1> HIDE DEF O1
<1>9. k \in DOMAIN O1 /\ k \notin DOMAIN objects /\ k # 0 /\ k \in Nat
      /\ (\A j \in DOMAIN O1 : j # k => j \in DOMAIN objects /\ O1[j] = objects[j])
      /\ (\A j \in DOMAIN objects : j \in DOMAIN O1 /\ j # k /\ j # 0 /\ O1[j] = objects[j])
  BY <1>7, <1>8
<1> HIDE DEF k
<1>10. T1 \in [Instance -> Nat] /\ T1[n] = k /\ (\A m \in Instance : m # n => T1[m] = table[m])
  BY <1>2, <1>9
<1>11. T1 # <<>>
  <2>1. n \in DOMAIN T1 /\ DOMAIN <<>> = {}
    BY <1>10
  <2> QED BY <2>1
<1> HIDE DEF T1
<1>12. old # 0 => old \in DOMAIN objects /\ objects[old].name = n
  BY <1>1, <1>2 DEF Fits
<1> HIDE DEF old
<1>13. Fits(O1, T1)
  <2> SUFFICES ASSUME NEW m \in Instance, T1[m] # 0
               PROVE  T1[m] \in DOMAIN O1 /\ O1[T1[m]].name = m
    BY DEF Fits
  <2>1. CASE m = n
    BY <1>5, <1>7, <1>9, <1>10, <2>1
  <2>2. CASE m # n
    BY <1>1, <1>2, <1>9, <1>10, <2>2 DEF Fits
  <2> QED BY <2>1, <2>2
<1> DEFINE X == [j \in DOMAIN O1 |-> One(j = k) + One(j = old)]
           Y == [j \in DOMAIN O1 |-> One(j = k)]
<1>14. X \in [DOMAIN O1 -> Nat] /\ Y \in [DOMAIN O1 -> Nat]
  BY DEF One
<1>15. Counted(O1, T1, X)
  <2> SUFFICES ASSUME NEW j \in DOMAIN O1
               PROVE  O1[j].refs = Uses(O1, T1, j) + (One(j = k) + One(j = old))
    BY DEF Counted
  <2>1. CASE j = k
    <3>1. Listed(O1, T1, k)
      BY <1>5, <1>7, <1>10, <1>11 DEF Listed
    <3>2. k # old
      BY <1>9, <1>12
    <3> QED BY <1>5, <1>7, <2>1, <3>1, <3>2 DEF Uses, One
  <2>2. CASE j # k
    <3>1. j \in DOMAIN objects /\ O1[j] = objects[j] /\ objects[j].name \in Instance
      BY <1>9, <2>2, Sound
    <3>2. objects[j].refs = Uses(objects, table, j) + 0
      BY <1>2, <3>1 DEF Counted, NoExtra
    <3>3. CASE j = old
      <4>1. Listed(objects, table, j) /\ ~Listed(O1, T1, j)
        BY <1>1, <1>9, <1>10, <1>12, <2>2, <3>1, <3>3 DEF Listed, old
      <4> QED BY <2>2, <3>1, <3>2, <3>3, <4>1 DEF Uses, One
    <3>4. CASE j # old
      <4>1. Listed(objects, table, j) <=> Listed(O1, T1, j)
        <5>1. CASE objects[j].name = n
          BY <1>1, <1>10, <2>2, <3>1, <3>4, <5>1 DEF Listed, old
        <5>2. CASE objects[j].name # n
          BY <1>1, <1>10, <1>11, <3>1, <5>2 DEF Listed
        <5> QED BY <5>1, <5>2
      <4> QED BY <2>2, <3>1, <3>2, <3>4, <4>1 DEF Uses, One
    <3> QED BY <3>3, <3>4
  <2> QED BY <2>1, <2>2
<1>16. \A j \in DOMAIN O1 : Kept(O1[j]) /\ TruthfulNext(O1[j])
  <2>1. \A j \in DOMAIN objects : Kept(objects[j]) /\ TruthfulNext(objects[j])
    BY <1>1, Sound, SendsKept DEF Truthful, TruthfulNext
  <2> QED BY <1>6, <1>7, <1>9, <2>1
<1>17. /\ R = Heap(R.obj, R.table) /\ Shrunk(O1, R.obj) /\ IsTable(R.table)
       /\ Fits(R.obj, R.table) /\ Counted(R.obj, R.table, Y)
  <2>1. CASE old = 0
    <3>1. R.obj = O1 /\ R.table = T1 /\ R = Heap(O1, T1)
      BY <2>1 DEF R, Heap
    <3>2. X = Y
      BY <1>9, <2>1 DEF One
    <3>3. Shrunk(O1, O1)
      BY <1>7, ObjectsAre DEF Shrunk, Dropped
    <3> HIDE DEF X, Y
    <3> QED BY <1>10, <1>13, <1>15, <3>1, <3>2, <3>3 DEF IsTable
  <2>2. CASE old # 0
    <3>1. old \in DOMAIN O1 /\ old # k
      BY <1>9, <1>12, <2>2
    <3>2. X[old] = Y[old] + 1
      BY <3>1 DEF One
    <3>5. \A j \in DOMAIN O1 : j # old => Y[j] = X[j]
      <4> SUFFICES ASSUME NEW j \in DOMAIN O1, j # old PROVE Y[j] = X[j]
        OBVIOUS
      <4>1. X[j] = One(j = k) + One(j = old) /\ Y[j] = One(j = k)
        OBVIOUS
      <4>2. One(j = old) = 0 /\ One(j = k) \in Nat
        BY DEF One
      <4> QED BY <4>1, <4>2
    <3>3. R = Unref(Heap(O1, T1), old)
      BY <2>2 DEF R
    <3> HIDE DEF X, Y
    <3>4. IsTable(T1)
      BY <1>10 DEF IsTable
    <3>6. OneTooMany(O1, T1, X, Y, old)
      BY <1>7, <1>13, <1>14, <1>15, <3>1, <3>2, <3>4, <3>5 DEF OneTooMany
    <3>7. Settled(O1, T1, Y, R)
      BY <3>3, <3>6, UnrefIs
    <3> QED BY <3>7 DEF Settled
  <2> QED BY <2>1, <2>2
<1> DEFINE O2 == R.obj
           T2 == R.table
<1>18. /\ O2 \in Seq(Object) /\ DOMAIN O2 = DOMAIN O1 /\ Len(O2) = k
       /\ R = Heap(O2, T2) /\ H = Unref(Heap(O2, T2), k)
  <2>1. O2 \in Seq(Object) /\ DOMAIN O2 = DOMAIN O1 /\ R = Heap(O2, T2)
    BY <1>17 DEF Shrunk
  <2>2. DOMAIN O2 = 1..Len(O2) /\ Len(O2) \in Nat /\ DOMAIN O2 = 1..k /\ k \in Nat
    BY <1>8, <1>9, <2>1, LenProperties
  <2>3. Len(O2) = k
    <3> HIDE DEF O2
    <3>1. 1..Len(O2) = 1..k
      BY <2>2
    <3> QED BY <2>2, <3>1, SameLength
  <2>4. H = Unref(R, Len(O2))
    BY DEF H
  <2> QED BY <2>1, <2>3, <2>4
<1> HIDE DEF O2, T2
<1>19. Shrunk(O1, O2) /\ IsTable(T2) /\ Fits(O2, T2) /\ Counted(O2, T2, Y)
  BY <1>17 DEF O2, T2
<1>20. /\ NoExtra(O2) \in [DOMAIN O2 -> Nat] /\ Y[k] = NoExtra(O2)[k] + 1
       /\ \A j \in DOMAIN O2 : j # k => NoExtra(O2)[j] = Y[j]
  BY <1>9, <1>18 DEF NoExtra, One
<1> HIDE DEF Y
<1>24. OneTooMany(O2, T2, Y, NoExtra(O2), k)
  BY <1>9, <1>14, <1>18, <1>19, <1>20 DEF OneTooMany
<1>25. Settled(O2, T2, NoExtra(O2), H)
  BY <1>18, <1>24, UnrefIs
<1>21. /\ Shrunk(O2, H.obj) /\ IsTable(H.table) /\ Fits(H.obj, H.table)
       /\ Counted(H.obj, H.table, NoExtra(O2))
  BY <1>25 DEF Settled
<1>22. NoExtra(O2) = NoExtra(H.obj)
  BY <1>21 DEF NoExtra, Shrunk
<1>23. Shrunk(O1, H.obj)
  BY <1>7, <1>19, <1>21, ShrunkTwice
<1> QED BY <1>1, <1>2, <1>7, <1>16, <1>21, <1>22, <1>23, ShrunkKeeps, SendsKept

-----------------------------------------------------------------------------
(* The theorems                                                            *)

LEMMA DiscoveryInvInit == Init => DiscoveryInv
<1> SUFFICES ASSUME Init PROVE DiscoveryInv
  OBVIOUS
<1>1. objects = <<>> /\ DOMAIN objects = {} /\ objects \in Seq(Object)
  BY EmptySeq DEF Init
<1>2. table \in [Instance -> Nat] /\ \A n \in Instance : table[n] = 0
  BY DEF Init
<1>3. config \in [Instance -> Data] /\ SendsTyped /\ cma \in BOOLEAN
      /\ world \in [Instance -> Value]
  BY DataFacts DEF Init, SendsTyped
<1> QED BY <1>1, <1>2, <1>3 DEF DiscoveryInv, DiscoveryTypes, IsTable, Fits, Counted

LEMMA DiscoveryNextKeeps ==
    ASSUME DiscoveryInv, [Next]_vars
    PROVE  DiscoveryInv'
<1>1. ASSUME NEW n \in Instance, NEW spawns \in Spawns, NEW captures \in Captures(n),
             StartDiscover(n, spawns, captures)
      PROVE  DiscoveryInv'
  <2>1. spawns \in BOOLEAN /\ captures \in BOOLEAN
    BY DiscoveryAssumption, CaptureValues
  <2> QED BY <1>1, <2>1, StartDiscoverKeeps
<1>2. CASE SetConfig \/ \E n \in Instance : WorldChanges(n)
  BY <1>2, QuietKeeps
<1>3. ASSUME NEW i \in DOMAIN objects, NEW spawns \in Spawns, Rediscover(i, spawns)
      PROVE  DiscoveryInv'
  BY <1>3, RediscoverKeeps
<1>4. ASSUME NEW i \in DOMAIN objects, NEW zero \in BOOLEAN, NEW accepted \in BOOLEAN,
             ChildExits(i, zero, accepted)
      PROVE  DiscoveryInv'
  BY <1>4, ChildExitsKeeps
<1>5. ASSUME NEW i \in DOMAIN objects, NEW accepted \in BOOLEAN,
             \/ AgentPrints(i) \/ CaptureFails(i) \/ HearArp(i)
             \/ HearSwitch(i, accepted) \/ SendArpCache(i, accepted)
      PROVE  DiscoveryInv'
  BY <1>5, AgentPrintsKeeps, CapturesKeep, HearSwitchKeeps, SendArpCacheKeeps
<1>6. CASE UnregisterAll
  BY <1>6, UnregisterAllKeeps
<1>7. CASE UNCHANGED vars
  BY <1>7 DEF vars, DiscoveryInv, DiscoveryTypes, SendsTyped, LastSent, Kept, Truthful
<1> QED BY <1>1, <1>2, <1>3, <1>4, <1>5, <1>6, <1>7 DEF Next

\* The invariant holds of every state of the agents.
THEOREM DiscoveryInvAlways == Spec => []DiscoveryInv
<1>1. Init => DiscoveryInv
  BY DiscoveryInvInit
<1>2. DiscoveryInv /\ [Next]_vars => DiscoveryInv'
  BY DiscoveryNextKeeps
<1> QED BY <1>1, <1>2, PTL DEF Spec

\* A Discovery object is freed exactly when it is not registered any more and its agent
\* has ended, and the timer of discovery_register does not outlive it: however often it
\* is asked for again, and whatever ends or is unregistered in between.
THEOREM ObjectsLiveWhileNeeded == Spec => []LivesWhileNeeded
<1>1. DiscoveryInv => LivesWhileNeeded
  <2> SUFFICES ASSUME DiscoveryInv, NEW i \in DOMAIN objects
               PROVE  /\ objects[i].refs > 0 <=> Registered(i) \/ objects[i].child # Nothing
                      /\ objects[i].timer /\ Kind[objects[i].name] = "JSON" => objects[i].refs > 0
    BY DEF LivesWhileNeeded, Alive
  <2>1. objects[i].refs = Uses(objects, table, i) + 0
    BY DEF DiscoveryInv, Counted, NoExtra
  <2>2. Listed(objects, table, i) <=> Registered(i)
    BY DEF Listed, Registered, ShuttingDown
  <2>3. objects[i].refs > 0 <=> Registered(i) \/ objects[i].child # Nothing
    BY <2>1, <2>2 DEF Uses, One
  <2> QED BY <2>3, Sound DEF Kept
<1> QED BY <1>1, DiscoveryInvAlways, PTL

\* What _discovery_sendjson and _switchdiscovery_cache_info hold for sent is what the
\* protocol was given last: accepted, or refused and not repeated.  Several objects of one
\* name may be alive at a time.
THEOREM CachedWasLastSent == Spec => []CachedIsLastSent
<1>1. DiscoveryInv => CachedIsLastSent
  BY Sound DEF CachedIsLastSent, Truthful, Alive
<1> QED BY <1>1, DiscoveryInvAlways, PTL
=============================================================================
