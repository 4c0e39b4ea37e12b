------------------------ MODULE RegionWatchesProofs ------------------------
(* Proofs about the watches, for any finite number of clients, any areas   *)
(* and locks, a table of any size and any number of WATCH commands.        *)
EXTENDS RegionWatches, FiniteSetTheorems, TLAPS

-----------------------------------------------------------------------------
(* Geometry *)

(* Rectangles that have points and that the code takes to intersect share  *)
(* a point.                                                                *)
LEMMA IntersectingSharePoints ==
  ASSUME NEW a \in Rectangle, NEW b \in Rectangle, Intersects(a, b),
         HasPoints(a), HasPoints(b)
  PROVE  SharePoint(a, b)
<1>1. ASSUME NEW min \in Int, NEW max \in Int, NEW rmin \in Int, NEW rmax \in Int,
             min <= max, rmin <= rmax, Meets(min, max, rmin, rmax)
      PROVE  (min .. max) \cap (rmin .. rmax) # {}
  <2>1. CASE rmin >= min /\ rmin <= max
    BY <1>1, <2>1
  <2>2. CASE rmin <= min /\ rmax >= max
    BY <1>1, <2>2
  <2>3. CASE rmax >= min /\ rmax <= max
    BY <1>1, <2>3
  <2>4. QED
    BY <1>1, <2>1, <2>2, <2>3 DEF Meets
<1>2. /\ a.left \in Int /\ a.right \in Int /\ a.top \in Int /\ a.bottom \in Int
      /\ b.left \in Int /\ b.right \in Int /\ b.top \in Int /\ b.bottom \in Int
  BY DEF Rectangle
<1>3. (a.left .. a.right) \cap (b.left .. b.right) # {}
  BY <1>1, <1>2 DEF Intersects, HasPoints
<1>4. (a.top .. a.bottom) \cap (b.top .. b.bottom) # {}
  BY <1>1, <1>2 DEF Intersects, HasPoints
<1>5. QED
  BY <1>3, <1>4 DEF SharePoint

-----------------------------------------------------------------------------
(* The table *)

ActiveSlots == {i \in Slots : Active(i)}

TableType ==
  /\ watches \in [Slots -> [active : BOOLEAN, report : Locks \cup {NoLock},
                            watch : Watches \cup {Watch(NoClient, 0, NoArea)}]]
  /\ \A i \in Slots : Active(i) => watches[i].watch \in Watches
  /\ watchID \in [Clients -> 1 .. MaxWatches + 1]

SizeExact == size = Cardinality(ActiveSlots)

(* The slots of the watches of c. *)
Of(c) == {i \in Slots : Active(i) /\ watches[i].watch.owner = c}

(* A client has no more watches than it was given ids, and each has its    *)
(* own id.                                                                 *)
IdsInv ==
  /\ \A i \in Slots : Active(i) => watches[i].watch.id < watchID[watches[i].watch.owner]
  /\ \A i, j \in Slots :
       /\ Active(i) /\ Active(j)
       /\ watches[i].watch.owner = watches[j].watch.owner
       /\ watches[i].watch.id = watches[j].watch.id
       => i = j
  /\ \A c \in Clients : Cardinality(Of(c)) <= watchID[c] - 1

TableInv == TableType /\ SizeExact /\ IdsInv

LEMMA SlotsFinite == IsFiniteSet(Slots)
BY WatchesAssumption, FS_Interval DEF Slots

LEMMA SubsetsFinite ==
  ASSUME NEW S \in SUBSET Slots
  PROVE  IsFiniteSet(S) /\ Cardinality(S) \in Nat
BY SlotsFinite, FS_Subset, FS_CardinalityType

LEMMA OfIsSlots ==
  ASSUME NEW c
  PROVE  /\ Of(c) \subseteq Slots /\ ActiveSlots \subseteq Slots
         /\ IsFiniteSet(Of(c)) /\ Cardinality(Of(c)) \in Nat
         /\ IsFiniteSet(ActiveSlots) /\ Cardinality(ActiveSlots) \in Nat
<1>1. Of(c) \subseteq Slots /\ ActiveSlots \subseteq Slots
  BY DEF Of, ActiveSlots
<1>2. QED
  BY <1>1, SubsetsFinite

(* The loops see every active slot. *)
LEMMA SeenAll ==
  ASSUME SizeExact
  PROVE  Seen = ActiveSlots
<1> SUFFICES ASSUME NEW i \in ActiveSlots
             PROVE  Cardinality({j \in Slots : Active(j) /\ j < i}) < size
  BY DEF Seen, ActiveSlots
<1> DEFINE below == {j \in Slots : Active(j) /\ j < i}
<1>1. below \subseteq ActiveSlots /\ below # ActiveSlots
  BY DEF ActiveSlots, Slots
<1>2. IsFiniteSet(ActiveSlots)
  BY OfIsSlots
<1>3. Cardinality(below) < Cardinality(ActiveSlots)
  <2>1. Cardinality(below) <= Cardinality(ActiveSlots) /\ Cardinality(below) # Cardinality(ActiveSlots)
    BY <1>1, <1>2, FS_Subset
  <2>2. Cardinality(below) \in Nat /\ Cardinality(ActiveSlots) \in Nat
    BY <1>1, <1>2, FS_Subset, FS_CardinalityType
  <2>3. QED
    BY <2>1, <2>2
<1>4. QED
  BY <1>3 DEF SizeExact

(* The clients send WATCH so often that ids run out for none of them. *)
LEMMA WatchIDBounded ==
  ASSUME TableType, NEW c \in Clients,
         Cardinality({t \in Clients \X Listeners : t[2] < watchID[t[1]]}) < MaxWatches
  PROVE  watchID[c] \in Listeners
<1> DEFINE given == {t \in Clients \X Listeners : t[2] < watchID[t[1]]}
           own == {c} \X Listeners
<1>1. IsFiniteSet(Listeners) /\ Cardinality(Listeners) = MaxWatches /\ MaxWatches \in Nat
  BY WatchesAssumption, FS_Interval DEF Listeners
<1>2. IsFiniteSet(Clients \X Listeners)
  BY <1>1, WatchesAssumption, FS_Product
<1>3. IsFiniteSet(given) /\ Cardinality(given) \in Nat
  BY <1>2, FS_Subset, FS_CardinalityType
<1>4. IsFiniteSet(own) /\ Cardinality(own) = MaxWatches
  <2>1. IsFiniteSet({c}) /\ Cardinality({c}) = 1
    BY FS_Singleton
  <2>2. IsFiniteSet(own) /\ Cardinality(own) = 1 * MaxWatches
    BY <1>1, <2>1, FS_Product
  <2>3. QED
    BY <1>1, <2>2
<1>5. CASE watchID[c] = MaxWatches + 1
  <2>1. own \subseteq given
    BY <1>1, <1>5 DEF Listeners
  <2>2. Cardinality(own) <= Cardinality(given)
    BY <1>3, <2>1, FS_Subset
  <2>3. QED
    BY <1>1, <1>3, <1>4, <2>2
<1>6. QED
  BY <1>1, <1>5 DEF TableType, Listeners

(* A slot that is taken for the next watch of c. *)
Taken(i, c, area) ==
  /\ watches' = [watches EXCEPT ![i].active = TRUE,
                                ![i].watch = Watch(c, watchID[c], area)]
  /\ size' = size + 1
  /\ watchID' = [watchID EXCEPT ![c] = @ + 1]

LEMMA TakenEffect ==
  ASSUME TableInv, NEW c \in Clients, NEW area \in Areas, watchID[c] \in Listeners,
         NEW i \in Slots, ~ Active(i), Taken(i, c, area)
  PROVE  /\ TableInv'
         /\ Active(i)' /\ watches'[i].watch = Watch(c, watchID[c], area)
         /\ \A j \in Slots \ {i} : Active(j)' = Active(j) /\ watches'[j] = watches[j]
         /\ watchID'[c] = watchID[c] + 1
         /\ \A d \in Clients \ {c} : watchID'[d] = watchID[d]
         /\ Of(c)' = Of(c) \cup {i} /\ i \notin Of(c)
         /\ \A d \in Clients \ {c} : Of(d)' = Of(d)
<1>1. watchID[c] + 1 \in 1 .. MaxWatches + 1 /\ Watch(c, watchID[c], area) \in Watches
  BY WatchesAssumption DEF Listeners, Watch, Watches
<1>2. /\ Active(i)' /\ watches'[i].watch = Watch(c, watchID[c], area)
      /\ \A j \in Slots \ {i} : Active(j)' = Active(j) /\ watches'[j] = watches[j]
  BY DEF Taken, TableInv, TableType, Active
<1>3. /\ watchID'[c] = watchID[c] + 1
      /\ \A d \in Clients \ {c} : watchID'[d] = watchID[d]
  BY DEF Taken, TableInv, TableType
<1>4. TableType'
  <2>1. watches' \in [Slots -> [active : BOOLEAN, report : Locks \cup {NoLock},
                                watch : Watches \cup {Watch(NoClient, 0, NoArea)}]]
    BY <1>1 DEF Taken, TableInv, TableType
  <2>2. \A j \in Slots : Active(j)' => watches'[j].watch \in Watches
    BY <1>1, <1>2 DEF TableInv, TableType
  <2>3. watchID' \in [Clients -> 1 .. MaxWatches + 1]
    BY <1>1 DEF Taken, TableInv, TableType
  <2>4. QED
    BY <2>1, <2>2, <2>3 DEF TableType
<1>5. SizeExact'
  <2>1. ActiveSlots' = ActiveSlots \cup {i} /\ i \notin ActiveSlots
    BY <1>2 DEF ActiveSlots
  <2>2. Cardinality(ActiveSlots') = Cardinality(ActiveSlots) + 1
    BY <2>1, OfIsSlots, FS_AddElement
  <2>3. QED
    BY <2>2 DEF Taken, TableInv, SizeExact
<1>6. /\ Of(c)' = Of(c) \cup {i} /\ i \notin Of(c)
      /\ \A d \in Clients \ {c} : Of(d)' = Of(d)
  BY <1>2 DEF Of, Watch
<1>7. IdsInv'
  <2>1. \A j \in Slots : Active(j)' => watches'[j].watch.id < watchID'[watches'[j].watch.owner]
    <3> SUFFICES ASSUME NEW j \in Slots, Active(j)'
                 PROVE  watches'[j].watch.id < watchID'[watches'[j].watch.owner]
      OBVIOUS
    <3>1. CASE j = i
      BY <1>1, <1>2, <1>3, <3>1 DEF Watch, Listeners
    <3>2. CASE j # i
      <4>1. /\ Active(j) /\ watches'[j] = watches[j]
            /\ watches[j].watch.owner \in Clients /\ watches[j].watch.id \in Int
            /\ watches[j].watch.id < watchID[watches[j].watch.owner]
        <5>1. Active(j) /\ watches'[j] = watches[j]
          BY <1>2, <3>2
        <5>2. watches[j].watch \in Watches
          BY <5>1 DEF TableInv, TableType
        <5>3. watches[j].watch.id < watchID[watches[j].watch.owner]
          BY <5>1 DEF TableInv, IdsInv
        <5>4. watches[j].watch.owner \in Clients /\ watches[j].watch.id \in Int
          BY <5>2 DEF Watches, Listeners
        <5>5. QED
          BY <5>1, <5>3, <5>4
      <4>2. \A d \in Clients : watchID[d] \in Int /\ watchID'[d] \in Int /\ watchID[d] <= watchID'[d]
        BY <1>3 DEF TableInv, TableType
      <4>3. QED
        BY <4>1, <4>2
    <3>3. QED
      BY <3>1, <3>2
  <2>2. \A j \in Slots \ {i} : Active(j) /\ watches[j].watch.owner = c => watches[j].watch.id # watchID[c]
    BY DEF TableInv, TableType, IdsInv, Watches
  <2>3. ASSUME NEW j \in Slots, NEW k \in Slots, Active(j)', Active(k)',
               watches'[j].watch.owner = watches'[k].watch.owner,
               watches'[j].watch.id = watches'[k].watch.id
        PROVE  j = k
    <3>1. CASE j = i
      BY <1>2, <2>2, <2>3, <3>1 DEF Watch
    <3>2. CASE k = i
      BY <1>2, <2>2, <2>3, <3>2 DEF Watch
    <3>3. CASE j # i /\ k # i
      BY <1>2, <2>3, <3>3 DEF TableInv, IdsInv
    <3>4. QED
      BY <3>1, <3>2, <3>3
  <2>4. ASSUME NEW d \in Clients PROVE Cardinality(Of(d)') <= watchID'[d] - 1
    <3>1. CASE d = c
      <4>1. Cardinality(Of(c)') = Cardinality(Of(c)) + 1
        BY <1>6, OfIsSlots, FS_AddElement
      <4>2. Cardinality(Of(c)) \in Nat /\ Cardinality(Of(c)) <= watchID[c] - 1
        BY OfIsSlots DEF TableInv, IdsInv
      <4>3. QED
        BY <1>3, <3>1, <4>1, <4>2 DEF Listeners
    <3>2. CASE d # c
      BY <1>3, <1>6, <3>2 DEF TableInv, IdsInv
    <3>3. QED
      BY <3>1, <3>2
  <2>5. QED
    BY <2>1, <2>3, <2>4 DEF IdsInv
<1>8. QED
  BY <1>2, <1>3, <1>4, <1>5, <1>6, <1>7 DEF TableInv

(* A watch that is let go. *)
LEMMA LetGoEffect ==
  ASSUME TableInv, NEW i \in Slots, Active(i), LetGo(i), UNCHANGED watchID
  PROVE  /\ TableInv'
         /\ ~ Active(i)' /\ watches'[i].watch = watches[i].watch
         /\ \A j \in Slots \ {i} : Active(j)' = Active(j) /\ watches'[j] = watches[j]
         /\ \A d \in Clients : Of(d)' = Of(d) \ {i}
<1>1. /\ ~ Active(i)' /\ watches'[i].watch = watches[i].watch
      /\ \A j \in Slots \ {i} : Active(j)' = Active(j) /\ watches'[j] = watches[j]
  BY DEF LetGo, TableInv, TableType, Active
<1>2. TableType'
  <2>1. watches' \in [Slots -> [active : BOOLEAN, report : Locks \cup {NoLock},
                                watch : Watches \cup {Watch(NoClient, 0, NoArea)}]]
    BY DEF LetGo, TableInv, TableType
  <2>2. \A j \in Slots : Active(j)' => watches'[j].watch \in Watches
    BY <1>1 DEF TableInv, TableType
  <2>3. QED
    BY <2>1, <2>2 DEF TableInv, TableType
<1>3. SizeExact'
  <2>1. ActiveSlots' = ActiveSlots \ {i} /\ i \in ActiveSlots
    BY <1>1 DEF ActiveSlots
  <2>2. Cardinality(ActiveSlots') = Cardinality(ActiveSlots) - 1
    BY <2>1, OfIsSlots, FS_RemoveElement
  <2>3. QED
    BY <2>2 DEF LetGo, TableInv, SizeExact
<1>4. \A d \in Clients : Of(d)' = Of(d) \ {i}
  BY <1>1 DEF Of
<1>5. IdsInv'
  <2>1. ASSUME NEW d \in Clients PROVE Cardinality(Of(d)') <= watchID[d] - 1
    <3>1. Cardinality(Of(d)') <= Cardinality(Of(d)) /\ Cardinality(Of(d)') \in Nat
      BY <1>4, OfIsSlots, FS_Subset, FS_CardinalityType
    <3>2. Cardinality(Of(d)) \in Nat /\ Cardinality(Of(d)) <= watchID[d] - 1 /\ watchID[d] \in Int
      BY OfIsSlots DEF TableInv, IdsInv, TableType
    <3>3. QED
      BY <3>1, <3>2
  <2>2. QED
    BY <1>1, <2>1 DEF TableInv, IdsInv
<1>6. QED
  BY <1>1, <1>2, <1>3, <1>4, <1>5 DEF TableInv

Met(l) == {i \in Seen : doesIntersect(i, l)}

(* A report is written over the last one, where it meets the watch. *)
LEMMA ReportEffect ==
  ASSUME TableInv, NEW l \in Locks, UNCHANGED <<size, watchID>>,
         watches' = [i \in Slots |-> IF i \in Met(l) THEN [watches[i] EXCEPT !.report = l]
                                    ELSE watches[i]]
  PROVE  /\ TableInv'
         /\ \A i \in Slots : /\ Active(i)' = Active(i) /\ watches'[i].watch = watches[i].watch
                             /\ watches'[i].report = IF i \in Met(l) THEN l ELSE watches[i].report
         /\ \A d : Of(d)' = Of(d)
<1>1. ASSUME NEW i \in Slots
      PROVE  /\ Active(i)' = Active(i) /\ watches'[i].watch = watches[i].watch
             /\ watches'[i].report = IF i \in Met(l) THEN l ELSE watches[i].report
             /\ watches'[i] \in [active : BOOLEAN, report : Locks \cup {NoLock},
                               watch : Watches \cup {Watch(NoClient, 0, NoArea)}]
  BY DEF TableInv, TableType, Active
<1>2. \A d : Of(d)' = Of(d)
  BY <1>1 DEF Of
<1>3. ActiveSlots' = ActiveSlots
  BY <1>1 DEF ActiveSlots
<1>4. TableType'
  BY <1>1 DEF TableInv, TableType
<1>5. SizeExact'
  BY <1>3 DEF TableInv, SizeExact
<1>6. IdsInv'
  BY <1>1, <1>2 DEF TableInv, IdsInv
<1>7. QED
  BY <1>1, <1>2, <1>4, <1>5, <1>6 DEF TableInv

LEMMA TableUntouched ==
  ASSUME TableInv, UNCHANGED <<watches, size, watchID>>
  PROVE  TableInv'
BY DEF TableInv, TableType, SizeExact, IdsInv, ActiveSlots, Of, Active

-----------------------------------------------------------------------------
(* The threads *)

Thread ==
  [at : {"none", "created", "tests", "enters", "waits", "woken", "tells", "ended"},
   index : Slots, stirred : BOOLEAN, missed : BOOLEAN]

ThreadsType ==
  /\ arguments \in [Clients -> Slots]
  /\ alive \in [Clients -> BOOLEAN]
  /\ link \in [Clients -> {"reads", "deaf", "gone"}]
  /\ listener \in [Clients -> [Listeners -> Thread]]
  /\ wlock \in {Nobody} \cup (Clients \X (Listeners \cup {Main}))

(* Who holds the mutex sends. *)
HolderSends ==
  /\ \A c \in Clients, n \in Listeners :
       listener[c][n].at = "tells" <=> wlock = <<c, n>> /\ alive[c]
  /\ answer # NoAnswer => wlock[2] = Main /\ wlock # Nobody

(* A thread that is about to sleep, or sleeps, has not missed a broadcast. *)
Sleeps(c, n) ==
  LET t == listener[c][n]
  IN  t.at \in {"enters", "waits"} /\ ~ t.missed => Active(t.index)

Reported(i) == watches[i].report # NoLock /\ doesIntersect(i, watches[i].report)

(* What a thread will tell: as long as its client keeps all its watches,   *)
(* the slot of the thread is one of them, and a report woke it.            *)
Tells(c, n) ==
  LET t == listener[c][n]
  IN  /\ t.at # "none" => n < watchID[c]
      /\ t.at = "tells" => Active(t.index)
      /\ KeepsAll(c) /\ t.at \notin {"none", "created"} => t.index \in Of(c)
      /\ KeepsAll(c) /\ t.at \in {"woken", "tells"} /\ ~ t.stirred => Reported(t.index)

(* A thread that has not read its arguments will find one of the watches   *)
(* of its client in them, whichever WATCH wrote them.                      *)
ArgumentsHold ==
  \A c \in Clients : KeepsAll(c) /\ watchID[c] > 1 => arguments[c] \in Of(c)

ThreadsInv ==
  /\ ThreadsType
  /\ HolderSends
  /\ \A c \in Clients, n \in Listeners : Sleeps(c, n) /\ Tells(c, n)
  /\ ArgumentsHold

WatchesInv == TableInv /\ ThreadsInv

LEMMA MainIsNoListener == Main \notin Listeners /\ Nobody \notin Clients \X (Listeners \cup {Main})
BY WatchesAssumption DEF Main, Listeners, Nobody

LEMMA KeepsAllIs == \A c : KeepsAll(c) <=> Cardinality(Of(c)) = watchID[c] - 1
BY DEF KeepsAll, Of

LEMMA InitKeeps == Init => WatchesInv
<1> SUFFICES ASSUME Init PROVE WatchesInv
  OBVIOUS
<1>1. TableType
  BY WatchesAssumption DEF Init, TableType, Active
<1>2. ActiveSlots = {} /\ \A c : Of(c) = {}
  BY DEF Init, ActiveSlots, Of, Active
<1>3. SizeExact
  BY <1>2, FS_EmptySet DEF Init, SizeExact
<1>4. IdsInv
  BY <1>2, FS_EmptySet DEF Init, IdsInv, Active
<1>5. \A c \in Clients, n \in Listeners : listener[c][n] = Listener("none", 0)
  BY DEF Init, NoListeners
<1>6. ThreadsType
  BY WatchesAssumption DEF Init, ThreadsType, NoListeners, Listener, Thread, Slots
<1>7. HolderSends
  BY <1>5, MainIsNoListener DEF Init, HolderSends, Listener, Nobody
<1>8. \A c \in Clients, n \in Listeners : Sleeps(c, n) /\ Tells(c, n)
  BY <1>5 DEF Sleeps, Tells, Listener
<1>9. ArgumentsHold
  BY DEF Init, ArgumentsHold
<1>10. QED
  BY <1>1, <1>3, <1>4, <1>6, <1>7, <1>8, <1>9 DEF WatchesInv, TableInv, ThreadsInv

-----------------------------------------------------------------------------
(* The steps of one thread *)

(* What a thread knows it keeps, if nothing happens in the table. *)
LEMMA OtherThreads ==
  ASSUME UNCHANGED <<watches, watchID>>, NEW c \in Clients, NEW n \in Listeners,
         Sleeps(c, n), Tells(c, n), listener'[c][n] = listener[c][n]
  PROVE  Sleeps(c, n)' /\ Tells(c, n)'
BY DEF Sleeps, Tells, Active, KeepsAll, Of, Reported, doesIntersect

LEMMA ArgumentsKept ==
  ASSUME ArgumentsHold, UNCHANGED <<watches, watchID, arguments>>
  PROVE  ArgumentsHold'
BY DEF ArgumentsHold, KeepsAll, Of, Active

LEMMA Moved ==
  ASSUME ThreadsType, NEW c \in Clients, NEW n \in Listeners, NEW t \in Thread,
         listener' = [listener EXCEPT ![c][n] = t]
  PROVE  /\ listener' \in [Clients -> [Listeners -> Thread]]
         /\ listener'[c][n] = t
         /\ \A d \in Clients, m \in Listeners :
              <<d, m>> # <<c, n>> => listener'[d][m] = listener[d][m]
BY DEF ThreadsType

LEMMA GotoIs ==
  ASSUME ThreadsType, NEW c \in Clients, NEW n \in Listeners,
         NEW at \in {"enters", "waits", "woken", "tells", "ended"}, Goto(c, n, at)
  PROVE  /\ listener' \in [Clients -> [Listeners -> Thread]]
         /\ listener'[c][n].at = at
         /\ listener'[c][n].index = listener[c][n].index
         /\ listener'[c][n].stirred = listener[c][n].stirred
         /\ listener'[c][n].missed = listener[c][n].missed
         /\ \A d \in Clients, m \in Listeners :
              <<d, m>> # <<c, n>> => listener'[d][m] = listener[d][m]
<1>1. listener[c][n] \in Thread
  BY DEF ThreadsType
<1>2. [listener[c][n] EXCEPT !.at = at] \in Thread
  BY <1>1 DEF Thread
<1>3. listener' = [listener EXCEPT ![c][n] = [listener[c][n] EXCEPT !.at = at]]
  BY DEF Goto, ThreadsType
<1>4. /\ listener' \in [Clients -> [Listeners -> Thread]]
      /\ listener'[c][n] = [listener[c][n] EXCEPT !.at = at]
      /\ \A d \in Clients, m \in Listeners :
           <<d, m>> # <<c, n>> => listener'[d][m] = listener[d][m]
  BY ONLY ThreadsType, <1>2, <1>3, Moved
<1>5. QED
  BY <1>1, <1>4 DEF Thread

(* A thread that neither gets nor has the mutex. *)
LEMMA ThreadKeeps ==
  ASSUME WatchesInv, NEW c \in Clients, NEW n \in Listeners,
         UNCHANGED <<watches, size, wlock, watchID, arguments, alive, link, answer>>,
         listener' \in [Clients -> [Listeners -> Thread]],
         \A d \in Clients, m \in Listeners :
           <<d, m>> # <<c, n>> => listener'[d][m] = listener[d][m],
         listener[c][n].at # "tells", listener'[c][n].at # "tells",
         Sleeps(c, n)', Tells(c, n)'
  PROVE  WatchesInv'
<1> USE DEF WatchesInv, ThreadsInv
<1>1. TableInv'
  BY TableUntouched
<1>2. ThreadsType'
  BY DEF ThreadsType
<1>3. HolderSends'
  BY DEF HolderSends
<1>4. ASSUME NEW d \in Clients, NEW m \in Listeners PROVE Sleeps(d, m)' /\ Tells(d, m)'
  BY OtherThreads
<1>5. ArgumentsHold'
  BY ArgumentsKept
<1>6. QED
  BY <1>1, <1>2, <1>3, <1>4, <1>5

LEMMA StartKeeps ==
  ASSUME WatchesInv, NEW c \in Clients, NEW n \in Listeners, Start(c, n)
  PROVE  WatchesInv'
<1> USE DEF WatchesInv, ThreadsInv
<1>1. /\ listener[c][n].at = "created"
      /\ listener' = [listener EXCEPT ![c][n] = Listener("tests", arguments[c])]
      /\ UNCHANGED <<watches, size, wlock, watchID, arguments, alive, link, answer>>
  BY DEF Start
<1>2. Listener("tests", arguments[c]) \in Thread
  BY DEF ThreadsType, Thread, Listener
<1>3. /\ listener' \in [Clients -> [Listeners -> Thread]]
      /\ listener'[c][n] = Listener("tests", arguments[c])
      /\ \A d \in Clients, m \in Listeners :
           <<d, m>> # <<c, n>> => listener'[d][m] = listener[d][m]
  BY <1>1, <1>2, Moved
<1>4. n < watchID[c] /\ watchID[c] > 1
  BY <1>1 DEF Tells, TableInv, TableType, Listeners
<1>5. KeepsAll(c)' = KeepsAll(c) /\ Of(c)' = Of(c)
  BY <1>1 DEF KeepsAll, Of, Active
<1>6. KeepsAll(c) => arguments[c] \in Of(c)
  BY <1>4 DEF ArgumentsHold
<1>7. Sleeps(c, n)' /\ Tells(c, n)'
  BY <1>1, <1>3, <1>4, <1>5, <1>6 DEF Sleeps, Tells, Listener
<1>8. QED
  BY <1>1, <1>3, <1>7, ThreadKeeps DEF Listener

LEMMA TestKeeps ==
  ASSUME WatchesInv, NEW c \in Clients, NEW n \in Listeners, Test(c, n)
  PROVE  WatchesInv'
<1> USE DEF WatchesInv, ThreadsInv
<1> DEFINE at == IF Active(listener[c][n].index) THEN "enters" ELSE "ended"
<1>1. /\ listener[c][n].at = "tests" /\ Goto(c, n, at)
      /\ UNCHANGED <<watches, size, wlock, watchID, arguments, alive, link, answer>>
  BY DEF Test
<1>2. /\ listener' \in [Clients -> [Listeners -> Thread]]
      /\ listener'[c][n].at = at
      /\ listener'[c][n].index = listener[c][n].index
      /\ \A d \in Clients, m \in Listeners :
           <<d, m>> # <<c, n>> => listener'[d][m] = listener[d][m]
  <2>1. at \in {"enters", "waits", "woken", "tells", "ended"}
    OBVIOUS
  <2>2. Goto(c, n, at) /\ ThreadsType
    BY <1>1
  <2> HIDE DEF at
  <2>3. QED
    BY ONLY <2>1, <2>2, GotoIs
<1>3. Sleeps(c, n)'
  BY <1>1, <1>2 DEF Sleeps, Active
<1>4. KeepsAll(c)' = KeepsAll(c) /\ Of(c)' = Of(c)
  BY <1>1 DEF KeepsAll, Of, Active
<1>5. Tells(c, n)'
  BY <1>1, <1>2, <1>4 DEF Tells
<1>6. QED
  BY <1>1, <1>2, <1>3, <1>5, ThreadKeeps

LEMMA WaitKeeps ==
  ASSUME WatchesInv, NEW c \in Clients, NEW n \in Listeners, Wait(c, n)
  PROVE  WatchesInv'
<1> USE DEF WatchesInv, ThreadsInv
<1>1. /\ listener[c][n].at = "enters" /\ Goto(c, n, "waits")
      /\ UNCHANGED <<watches, size, wlock, watchID, arguments, alive, link, answer>>
  BY DEF Wait
<1>2. /\ listener' \in [Clients -> [Listeners -> Thread]]
      /\ listener'[c][n].at = "waits"
      /\ listener'[c][n].index = listener[c][n].index
      /\ listener'[c][n].missed = listener[c][n].missed
      /\ \A d \in Clients, m \in Listeners :
           <<d, m>> # <<c, n>> => listener'[d][m] = listener[d][m]
  BY <1>1, GotoIs
<1>3. Sleeps(c, n)'
  BY <1>1, <1>2 DEF Sleeps, Active
<1>4. KeepsAll(c)' = KeepsAll(c) /\ Of(c)' = Of(c)
  BY <1>1 DEF KeepsAll, Of, Active
<1>5. Tells(c, n)'
  BY <1>1, <1>2, <1>4 DEF Tells
<1>6. QED
  BY <1>1, <1>2, <1>3, <1>5, ThreadKeeps

LEMMA SpuriousWakeKeeps ==
  ASSUME WatchesInv, NEW c \in Clients, NEW n \in Listeners, SpuriousWake(c, n)
  PROVE  WatchesInv'
<1> USE DEF WatchesInv, ThreadsInv
<1> DEFINE t == [listener[c][n] EXCEPT !.at = "woken", !.stirred = TRUE]
<1>1. /\ listener[c][n].at = "waits"
      /\ listener' = [listener EXCEPT ![c][n].at = "woken", ![c][n].stirred = TRUE]
      /\ UNCHANGED <<watches, size, wlock, watchID, arguments, alive, link, answer>>
  BY DEF SpuriousWake
<1>2. listener[c][n] \in Thread
  BY DEF ThreadsType
<1>3. /\ t \in Thread /\ t.at = "woken" /\ t.stirred /\ t.index = listener[c][n].index
  BY <1>2 DEF Thread
<1>4. listener' = [listener EXCEPT ![c][n] = t]
  BY <1>1 DEF ThreadsType
<1> HIDE DEF t
<1>5. /\ listener' \in [Clients -> [Listeners -> Thread]]
      /\ listener'[c][n] = t
      /\ \A d \in Clients, m \in Listeners :
           <<d, m>> # <<c, n>> => listener'[d][m] = listener[d][m]
  <2>1. ThreadsType /\ t \in Thread
    BY <1>3
  <2>2. QED
    BY ONLY <2>1, <1>4, Moved
<1>6. Sleeps(c, n)'
  BY <1>3, <1>5 DEF Sleeps
<1>7. KeepsAll(c)' = KeepsAll(c) /\ Of(c)' = Of(c)
  BY <1>1 DEF KeepsAll, Of, Active
<1>8. Tells(c, n)'
  BY <1>1, <1>3, <1>5, <1>7 DEF Tells
<1>9. QED
  BY <1>1, <1>3, <1>5, <1>6, <1>8, ThreadKeeps

(* The thread that wakes leaves, or takes the mutex to send. *)
LEMMA WakeKeeps ==
  ASSUME WatchesInv, NEW c \in Clients, NEW n \in Listeners, Wake(c, n)
  PROVE  WatchesInv'
<1> USE DEF WatchesInv, ThreadsInv
<1>1. /\ listener[c][n].at = "woken" /\ alive[c] /\ wlock = Nobody
      /\ UNCHANGED <<watches, size, watchID, arguments, alive, link, answer>>
  BY DEF Wake, Serves
<1>2. KeepsAll(c)' = KeepsAll(c) /\ Of(c)' = Of(c)
  BY <1>1 DEF KeepsAll, Of, Active
<1>3. CASE Goto(c, n, "ended") /\ UNCHANGED wlock
  <2>1. /\ listener' \in [Clients -> [Listeners -> Thread]]
        /\ listener'[c][n].at = "ended"
        /\ listener'[c][n].index = listener[c][n].index
        /\ \A d \in Clients, m \in Listeners :
             <<d, m>> # <<c, n>> => listener'[d][m] = listener[d][m]
    BY <1>3, GotoIs
  <2>2. Sleeps(c, n)' /\ Tells(c, n)'
    BY <1>1, <1>2, <2>1 DEF Sleeps, Tells
  <2>3. QED
    BY <1>1, <1>3, <2>1, <2>2, ThreadKeeps
<1>4. CASE Active(listener[c][n].index) /\ Goto(c, n, "tells") /\ wlock' = <<c, n>>
  <2>1. /\ listener' \in [Clients -> [Listeners -> Thread]]
        /\ listener'[c][n].at = "tells"
        /\ listener'[c][n].index = listener[c][n].index
        /\ listener'[c][n].stirred = listener[c][n].stirred
        /\ \A d \in Clients, m \in Listeners :
             <<d, m>> # <<c, n>> => listener'[d][m] = listener[d][m]
    BY <1>4, GotoIs
  <2>2. TableInv'
    BY <1>1, TableUntouched
  <2>3. ThreadsType'
    BY <1>1, <1>4, <2>1 DEF ThreadsType
  <2>4. HolderSends'
    BY <1>1, <1>4, <2>1, MainIsNoListener DEF HolderSends
  <2>5. Sleeps(c, n)' /\ Tells(c, n)'
    BY <1>1, <1>2, <1>4, <2>1 DEF Sleeps, Tells, Reported, doesIntersect, Active
  <2>6. ASSUME NEW d \in Clients, NEW m \in Listeners PROVE Sleeps(d, m)' /\ Tells(d, m)'
    BY <1>1, <2>1, <2>5, OtherThreads
  <2>7. ArgumentsHold'
    BY <1>1, ArgumentsKept
  <2>8. QED
    BY <2>2, <2>3, <2>4, <2>6, <2>7
<1>5. QED
  BY <1>3, <1>4 DEF Wake, Leaves, Break

-----------------------------------------------------------------------------
(* The end of a send, and of a process *)

LEMMA SendKeeps ==
  ASSUME WatchesInv, NEW c \in Clients, NEW n \in Listeners \cup {Main}, Send(c, n)
  PROVE  WatchesInv'
<1> USE DEF WatchesInv, ThreadsInv
<1>1. /\ wlock = <<c, n>> /\ wlock' = Nobody /\ alive[c]
      /\ answer' = NoAnswer
      /\ UNCHANGED <<watches, size, watchID, arguments, alive, link>>
      /\ listener' = [listener EXCEPT ![c] = [m \in Listeners |->
           IF m = n THEN Listener("tests", listener[c][m].index) ELSE listener[c][m]]]
  BY DEF Send, Sends
<1>2. \A d \in Clients, m \in Listeners :
        listener'[d][m] = IF d = c /\ m = n THEN Listener("tests", listener[c][m].index)
                          ELSE listener[d][m]
  BY <1>1 DEF ThreadsType
<1>3. \A m \in Listeners : Listener("tests", listener[c][m].index) \in Thread
  BY DEF ThreadsType, Thread, Listener
<1>4. TableInv'
  BY <1>1, TableUntouched
<1>5. ThreadsType'
  <2>1. [m \in Listeners |-> IF m = n THEN Listener("tests", listener[c][m].index)
                            ELSE listener[c][m]] \in [Listeners -> Thread]
    BY <1>3 DEF ThreadsType
  <2>2. QED
    BY <1>1, <2>1 DEF ThreadsType
<1>6. HolderSends'
  <2>1. ASSUME NEW d \in Clients, NEW m \in Listeners PROVE listener'[d][m].at # "tells"
    <3>1. CASE d = c /\ m = n
      <4>1. listener'[d][m] = Listener("tests", listener[c][m].index)
        BY <1>2, <3>1
      <4>2. QED
        BY <4>1 DEF Listener
    <3>2. CASE ~ (d = c /\ m = n)
      <4>1. listener'[d][m] = listener[d][m]
        BY <1>2, <3>2
      <4>2. wlock # <<d, m>>
        BY <1>1, <3>2
      <4>3. QED
        BY <4>1, <4>2 DEF HolderSends
    <3>3. QED
      BY <3>1, <3>2
  <2>2. QED
    BY <1>1, <2>1, MainIsNoListener DEF HolderSends
<1>7. ASSUME NEW d \in Clients, NEW m \in Listeners PROVE Sleeps(d, m)' /\ Tells(d, m)'
  <2>1. CASE d = c /\ m = n
    <3>1. listener'[c][n] = Listener("tests", listener[c][n].index)
      BY <1>2, <2>1
    <3>2. listener[c][n].at = "tells"
      BY <1>1, <2>1 DEF HolderSends
    <3>3. KeepsAll(c)' = KeepsAll(c) /\ Of(c)' = Of(c)
      BY <1>1 DEF KeepsAll, Of, Active
    <3>4. QED
      BY <1>1, <2>1, <3>1, <3>2, <3>3 DEF Sleeps, Tells, Listener
  <2>2. CASE ~ (d = c /\ m = n)
    BY <1>1, <1>2, <2>2, OtherThreads
  <2>3. QED
    BY <2>1, <2>2
<1>8. ArgumentsHold'
  BY <1>1, ArgumentsKept
<1>9. QED
  BY <1>4, <1>5, <1>6, <1>7, <1>8

LEMMA DieKeeps ==
  ASSUME WatchesInv, NEW c \in Clients, Die(c),
         UNCHANGED <<watches, size, wlock, watchID, arguments, answer>>
  PROVE  WatchesInv'
<1> USE DEF WatchesInv, ThreadsInv
<1>1. /\ alive' = [alive EXCEPT ![c] = FALSE] /\ link' = [link EXCEPT ![c] = "gone"]
      /\ listener' = [listener EXCEPT ![c] = NoListeners]
  BY DEF Die
<1>2. NoListeners \in [Listeners -> Thread]
  BY WatchesAssumption DEF NoListeners, Listener, Thread, Slots
<1>3. ThreadsType'
  BY <1>1, <1>2 DEF ThreadsType
<1>4. /\ \A m \in Listeners : listener'[c][m].at = "none" /\ ~ alive'[c]
      /\ \A d \in Clients \ {c} : alive'[d] = alive[d] /\ listener'[d] = listener[d]
  BY <1>1 DEF ThreadsType, NoListeners, Listener
<1>5. HolderSends'
  BY <1>4 DEF HolderSends
<1>6. TableInv'
  BY TableUntouched
<1>7. ASSUME NEW d \in Clients, NEW m \in Listeners PROVE Sleeps(d, m)' /\ Tells(d, m)'
  <2>1. CASE d = c
    BY <1>4, <2>1 DEF Sleeps, Tells
  <2>2. CASE d # c
    BY <1>4, <2>2, OtherThreads
  <2>3. QED
    BY <2>1, <2>2
<1>8. ArgumentsHold'
  BY ArgumentsKept
<1>9. QED
  BY <1>3, <1>5, <1>6, <1>7, <1>8

(* A command that is answered: the main loop takes the mutex to send. *)
LEMMA AnswerKeepsHolder ==
  ASSUME ThreadsType, HolderSends, NEW c \in Clients, wlock = Nobody, wlock' = <<c, Main>>,
         \A d \in Clients, m \in Listeners :
           listener'[d][m].at = "tells" => listener[d][m].at = "tells"
  PROVE  HolderSends'
<1>1. \A d \in Clients, m \in Listeners : listener'[d][m].at # "tells" /\ wlock' # <<d, m>>
  BY MainIsNoListener DEF HolderSends
<1>2. wlock'[2] = Main /\ wlock' # Nobody
  BY MainIsNoListener
<1>3. QED
  BY <1>1, <1>2 DEF HolderSends

LEMMA WATCHESKeeps ==
  ASSUME WatchesInv, NEW c \in Clients, WATCHES(c)
  PROVE  WatchesInv'
<1> USE DEF WatchesInv, ThreadsInv
<1>1. /\ wlock = Nobody /\ wlock' = <<c, Main>>
      /\ UNCHANGED <<watches, size, watchID, arguments, alive, link, listener>>
  BY DEF WATCHES, Serves
<1>2. TableInv' /\ ArgumentsHold'
  BY <1>1, TableUntouched, ArgumentsKept
<1>3. ThreadsType'
  BY <1>1 DEF ThreadsType
<1>4. HolderSends'
  BY <1>1, AnswerKeepsHolder
<1>5. \A d \in Clients, m \in Listeners : Sleeps(d, m)' /\ Tells(d, m)'
  BY <1>1, OtherThreads
<1>6. QED
  BY <1>2, <1>3, <1>4, <1>5

-----------------------------------------------------------------------------
(* The commands that change the table *)

(* Once a client has let a watch go it never again keeps all of them. *)
LEMMA LetGoForGood ==
  ASSUME TableInv, NEW c \in Clients, NEW i \in Of(c), Of(c)' = Of(c) \ {i}, watchID' = watchID
  PROVE  ~ KeepsAll(c)'
<1>1. Cardinality(Of(c)') = Cardinality(Of(c)) - 1
  BY OfIsSlots, FS_RemoveElement
<1>2. Cardinality(Of(c)) \in Nat /\ Cardinality(Of(c)) <= watchID[c] - 1 /\ watchID[c] \in Int
  BY OfIsSlots DEF TableInv, IdsInv, TableType
<1>3. Cardinality(Of(c)') # watchID'[c] - 1
  BY <1>1, <1>2
<1>4. QED
  BY <1>3 DEF KeepsAll, Of

LEMMA KeepsAllNext == \A c : KeepsAll(c)' <=> Cardinality(Of(c)') = watchID'[c] - 1
BY DEF KeepsAll, Of

LEMMA WATCHKeeps ==
  ASSUME WatchesInv, NEW c \in Clients, NEW area \in Areas, WATCH(c, area)
  PROVE  WatchesInv'
<1> USE DEF WatchesInv, ThreadsInv
<1> DEFINE id == watchID[c]
<1>1. PICK i \in Slots :
        /\ ~ Active(i) /\ Taken(i, c, area)
        /\ arguments' = [arguments EXCEPT ![c] = i]
  BY DEF WATCH, Available, First, Taken
<1>2. /\ wlock = Nobody /\ wlock' = <<c, Main>>
      /\ listener' = [listener EXCEPT ![c][id] = Listener("created", 0)]
      /\ UNCHANGED <<alive, link>>
  BY DEF WATCH, Serves
<1>3. id \in Listeners
  BY WatchIDBounded DEF WATCH, TableInv
<1>4. /\ TableInv'
      /\ Active(i)'
      /\ \A j \in Slots \ {i} : Active(j)' = Active(j) /\ watches'[j] = watches[j]
      /\ watchID'[c] = watchID[c] + 1
      /\ \A d \in Clients \ {c} : watchID'[d] = watchID[d]
      /\ Of(c)' = Of(c) \cup {i} /\ i \notin Of(c)
      /\ \A d \in Clients \ {c} : Of(d)' = Of(d)
  BY <1>1, <1>3, TakenEffect
<1>5. Listener("created", 0) \in Thread
  BY WatchesAssumption DEF Listener, Thread, Slots
<1>6. /\ listener' \in [Clients -> [Listeners -> Thread]]
      /\ listener'[c][id] = Listener("created", 0)
      /\ \A d \in Clients, m \in Listeners :
           <<d, m>> # <<c, id>> => listener'[d][m] = listener[d][m]
  <2>1. ThreadsType
    OBVIOUS
  <2>2. QED
    BY ONLY <1>2, <1>3, <1>5, <2>1, Moved
<1>7. ThreadsType'
  BY <1>1, <1>2, <1>6 DEF ThreadsType
<1>8. HolderSends'
  <2>1. ASSUME NEW d \in Clients, NEW m \in Listeners, listener'[d][m].at = "tells"
        PROVE  listener[d][m].at = "tells"
    BY <1>6, <2>1 DEF Listener
  <2>2. QED
    BY <1>2, <2>1, AnswerKeepsHolder
<1>9. \A d \in Clients : KeepsAll(d)' => KeepsAll(d)
  <2>1. Cardinality(Of(c)') = Cardinality(Of(c)) + 1 /\ Cardinality(Of(c)) \in Nat
    BY <1>4, OfIsSlots, FS_AddElement
  <2>2. watchID[c] \in Nat
    BY <1>3 DEF Listeners
  <2>3. KeepsAll(c)' => KeepsAll(c)
    <3>1. /\ KeepsAll(c)' <=> Cardinality(Of(c)') = watchID'[c] - 1
          /\ KeepsAll(c) <=> Cardinality(Of(c)) = watchID[c] - 1
      BY KeepsAllIs, KeepsAllNext
    <3>2. Cardinality(Of(c)) + 1 = (watchID[c] + 1) - 1 => Cardinality(Of(c)) = watchID[c] - 1
      BY <2>1, <2>2
    <3>3. QED
      BY <1>4, <2>1, <3>1, <3>2
  <2>4. \A d \in Clients \ {c} : KeepsAll(d)' => KeepsAll(d)
    BY <1>4, KeepsAllIs, KeepsAllNext
  <2>5. QED
    BY <2>3, <2>4
<1>10. \A d \in Clients : Of(d) \subseteq Of(d)'
  BY <1>4
<1>11. ASSUME NEW d \in Clients, NEW m \in Listeners PROVE Sleeps(d, m)' /\ Tells(d, m)'
  <2>1. CASE d = c /\ m = id
    <3>1. m < watchID'[d]
      BY <1>3, <1>4, <2>1 DEF Listeners
    <3>2. QED
      BY <1>6, <2>1, <3>1 DEF Sleeps, Tells, Listener
  <2>2. CASE ~ (d = c /\ m = id)
    <3> DEFINE t == listener[d][m]
    <3>1. listener'[d][m] = t /\ t.index \in Slots
      BY <1>6, <2>2 DEF ThreadsType, Thread
    <3>2. Sleeps(d, m)'
      BY <1>4, <3>1 DEF Sleeps, Active
    <3>3. t.at # "none" => m < watchID'[d]
      <4>1. watchID[d] \in Int /\ watchID'[d] \in Int /\ watchID[d] <= watchID'[d] /\ m \in Int
        BY <1>3, <1>4 DEF TableInv, TableType, Listeners
      <4>2. QED
        BY <4>1 DEF Tells
    <3>4. t.at # "tells"
      BY <1>2, MainIsNoListener DEF HolderSends
    <3>5. KeepsAll(d)' /\ t.at \notin {"none", "created"} => t.index \in Of(d) /\ t.index \in Of(d)'
      BY <1>9, <1>10 DEF Tells
    <3>6. KeepsAll(d)' /\ t.at \in {"woken", "tells"} /\ ~ t.stirred => Reported(t.index)'
      <4> SUFFICES ASSUME KeepsAll(d)', t.at \in {"woken", "tells"}, ~ t.stirred
                   PROVE  Reported(t.index)'
        OBVIOUS
      <4>1. Reported(t.index) /\ t.index \in Of(d)
        BY <1>9 DEF Tells
      <4>2. watches'[t.index] = watches[t.index]
        BY <1>1, <1>4, <4>1 DEF Of
      <4>3. QED
        BY <3>1, <4>1, <4>2 DEF Reported, doesIntersect
    <3>7. QED
      BY <3>1, <3>2, <3>3, <3>4, <3>5, <3>6 DEF Tells
  <2>3. QED
    BY <2>1, <2>2
<1>12. ArgumentsHold'
  <2> SUFFICES ASSUME NEW d \in Clients, KeepsAll(d)', watchID'[d] > 1
               PROVE  arguments'[d] \in Of(d)'
    BY DEF ArgumentsHold
  <2>1. CASE d = c
    BY <1>1, <1>4, <2>1 DEF ThreadsType
  <2>2. CASE d # c
    BY <1>1, <1>4, <1>9, <2>2 DEF ThreadsType, ArgumentsHold
  <2>3. QED
    BY <2>1, <2>2
<1>13. QED
  BY <1>4, <1>7, <1>8, <1>11, <1>12

LEMMA FoundIs ==
  ASSUME TableInv, NEW c, NEW id
  PROVE  /\ Own(c) = Of(c)
         /\ Found(c, id) = {i \in Of(c) : watches[i].watch.id = id}
<1>1. Own(c) = Of(c)
  BY SeenAll DEF Own, Of, TableInv, ActiveSlots
<1>2. QED
  BY <1>1 DEF Found

LEMMA UNWATCHKeeps ==
  ASSUME WatchesInv, NEW c \in Clients, NEW k, UNWATCH(c, k)
  PROVE  WatchesInv'
<1> USE DEF WatchesInv, ThreadsInv
<1>1. /\ wlock = Nobody /\ wlock' = <<c, Main>>
      /\ UNCHANGED <<watchID, arguments, alive, link>>
  BY DEF UNWATCH, Serves
<1>2. CASE UNCHANGED <<watches, size, listener>>
  <2>1. TableInv' /\ ArgumentsHold'
    BY <1>1, <1>2, TableUntouched, ArgumentsKept
  <2>2. ThreadsType'
    BY <1>1, <1>2 DEF ThreadsType
  <2>3. HolderSends'
    BY <1>1, <1>2, AnswerKeepsHolder
  <2>4. \A d \in Clients, m \in Listeners : Sleeps(d, m)' /\ Tells(d, m)'
    BY <1>1, <1>2, OtherThreads
  <2>5. QED
    BY <2>1, <2>2, <2>3, <2>4
<1>3. ASSUME NEW i \in Slots, First(Found(c, k), i), LetGo(i),
             listener' = [d \in Clients |-> [n \in Listeners |->
               LET t == listener[d][n]
               IN  IF Woken(d, n, i) THEN [t EXCEPT !.at = "woken"]
                   ELSE IF t.at = "enters" /\ t.index = i THEN [t EXCEPT !.missed = TRUE]
                   ELSE t]]
      PROVE  WatchesInv'
  <2>1. i \in Of(c) /\ Active(i)
    BY <1>3, FoundIs DEF First, Of
  <2>2. /\ TableInv'
        /\ \A j \in Slots \ {i} : Active(j)' = Active(j) /\ watches'[j] = watches[j]
        /\ \A d \in Clients : Of(d)' = Of(d) \ {i}
    BY <1>1, <1>3, <2>1, LetGoEffect
  <2>3. ASSUME NEW d \in Clients, NEW m \in Listeners
        PROVE  /\ listener'[d][m] \in Thread
               /\ listener'[d][m].index = listener[d][m].index
               /\ listener'[d][m].at # listener[d][m].at => listener'[d][m].at = "woken"
               /\ listener[d][m].index # i \/ listener[d][m].at \in {"none", "created"}
                    => listener'[d][m] = listener[d][m]
               /\ listener'[d][m].at \in {"enters", "waits"} /\ ~ listener'[d][m].missed
                    => listener[d][m].index # i
    <3> DEFINE t == listener[d][m]
    <3>1. t \in Thread
      BY DEF ThreadsType
    <3>2. listener'[d][m] = IF t.at = "waits" /\ t.index = i THEN [t EXCEPT !.at = "woken"]
                            ELSE IF t.at = "enters" /\ t.index = i THEN [t EXCEPT !.missed = TRUE]
                            ELSE t
      BY <1>3 DEF Woken, Waiting
    <3> HIDE DEF t
    <3>3. CASE t.at = "waits" /\ t.index = i
      BY <3>1, <3>2, <3>3 DEF Thread, t
    <3>4. CASE t.at = "enters" /\ t.index = i
      BY <3>1, <3>2, <3>4 DEF Thread, t
    <3>5. CASE ~ (t.at \in {"waits", "enters"} /\ t.index = i)
      BY <3>1, <3>2, <3>5 DEF t
    <3>6. QED
      BY <3>3, <3>4, <3>5
  <2>4. ThreadsType'
    <3>1. listener' \in [Clients -> [Listeners -> Thread]]
      BY <1>3, <2>3
    <3>2. QED
      BY <1>1, <3>1 DEF ThreadsType
  <2>5. HolderSends'
    <3>1. \A d \in Clients, m \in Listeners :
            listener'[d][m].at = "tells" => listener[d][m].at = "tells"
      BY <2>3
    <3>2. QED
      BY <1>1, <3>1, AnswerKeepsHolder
  <2>6. ~ KeepsAll(c)' /\ \A d \in Clients \ {c} : Of(d)' = Of(d) /\ (KeepsAll(d)' <=> KeepsAll(d))
    <3>1. ~ KeepsAll(c)'
      BY <1>1, <2>1, <2>2, LetGoForGood
    <3>2. \A d \in Clients \ {c} : i \notin Of(d)
      BY <2>1 DEF Of
    <3>3. ASSUME NEW d \in Clients \ {c} PROVE Of(d)' = Of(d) /\ (KeepsAll(d)' <=> KeepsAll(d))
      <4>1. Of(d)' = Of(d)
        BY <2>2, <3>2
      <4>2. QED
        BY <1>1, <4>1, KeepsAllIs, KeepsAllNext
    <3>4. QED
      BY <3>1, <3>3
  <2>7. ASSUME NEW d \in Clients, NEW m \in Listeners PROVE Sleeps(d, m)' /\ Tells(d, m)'
    <3> DEFINE t == listener[d][m]
               u == listener'[d][m]
    <3>1. u.index = t.index /\ t.index \in Slots
      BY <2>3 DEF Thread
    <3>2. Sleeps(d, m)'
      <4> SUFFICES ASSUME u.at \in {"enters", "waits"}, ~ u.missed
                   PROVE  watches'[u.index].active
        BY DEF Sleeps, Active
      <4>1. t.index # i /\ u = t
        BY <2>3
      <4>2. Active(t.index)
        BY <4>1 DEF Sleeps
      <4>3. QED
        BY <2>2, <3>1, <4>1, <4>2 DEF Active
    <3>3. t.at # "tells" /\ u.at # "tells"
      BY <1>1, <2>3, MainIsNoListener DEF HolderSends
    <3>4. u.at # "none" => m < watchID'[d]
      BY <1>1, <2>3 DEF Tells
    <3>5. CASE KeepsAll(d)'
      <4>1. d # c /\ KeepsAll(d) /\ Of(d)' = Of(d)
        BY <2>6, <3>5
      <4>2. CASE t.at \in {"none", "created"}
        <5>1. u.at \in {"none", "created"}
          BY <2>3, <4>2
        <5>2. QED
          BY <3>3, <3>4, <3>2, <5>1 DEF Tells
      <4>3. CASE t.at \notin {"none", "created"}
        <5>1. t.index \in Of(d) /\ t.index # i
          BY <2>1, <4>1, <4>3 DEF Tells, Of
        <5>2. u = t /\ watches'[t.index] = watches[t.index]
          BY <2>2, <2>3, <3>1, <5>1
        <5>3. u.at = "woken" /\ ~ u.stirred =>
                /\ watches'[u.index].report # NoLock
                /\ Intersects(watches'[u.index].watch.area, watches'[u.index].report.area)
          BY <4>1, <5>2 DEF Tells, Reported, doesIntersect
        <5>4. QED
          BY <3>2, <3>3, <3>4, <4>1, <5>1, <5>2, <5>3 DEF Tells, Reported, doesIntersect
      <4>4. QED
        BY <4>2, <4>3
    <3>6. CASE ~ KeepsAll(d)'
      BY <3>2, <3>3, <3>4, <3>6 DEF Tells
    <3>7. QED
      BY <3>5, <3>6
  <2>8. ArgumentsHold'
    BY <1>1, <2>6 DEF ArgumentsHold
  <2>9. QED
    BY <2>2, <2>4, <2>5, <2>7, <2>8
<1>4. QED
  BY <1>2, <1>3 DEF UNWATCH

LEMMA ReportKeeps ==
  ASSUME WatchesInv, NEW c \in Clients, NEW l \in Locks, Report(c, l)
  PROVE  WatchesInv'
<1> USE DEF WatchesInv, ThreadsInv
<1>1. /\ wlock = Nobody
      /\ UNCHANGED <<size, wlock, watchID, arguments, alive, link, answer>>
      /\ watches' = [i \in Slots |-> IF i \in Met(l) THEN [watches[i] EXCEPT !.report = l]
                                     ELSE watches[i]]
      /\ listener' = [d \in Clients |-> [n \in Listeners |->
           IF \E i \in Met(l) : Woken(d, n, i) THEN [listener[d][n] EXCEPT !.at = "woken"]
           ELSE listener[d][n]]]
  BY DEF Report, Serves, Met
<1>2. /\ TableInv'
      /\ \A i \in Slots : /\ Active(i)' = Active(i) /\ watches'[i].watch = watches[i].watch
                          /\ watches'[i].report = IF i \in Met(l) THEN l ELSE watches[i].report
      /\ \A d : Of(d)' = Of(d)
  BY <1>1, ReportEffect
<1>3. \A d \in Clients : KeepsAll(d)' <=> KeepsAll(d)
  BY <1>1, <1>2, KeepsAllIs, KeepsAllNext
<1>4. ASSUME NEW d \in Clients, NEW m \in Listeners
      PROVE  /\ listener'[d][m] \in Thread
             /\ listener'[d][m].index = listener[d][m].index
             /\ \/ listener'[d][m] = listener[d][m]
                \/ /\ listener[d][m].at = "waits" /\ listener'[d][m].at = "woken"
                   /\ listener[d][m].index \in Met(l)
  <2> DEFINE t == listener[d][m]
  <2>1. t \in Thread
    BY DEF ThreadsType
  <2>2. listener'[d][m] = IF t.at = "waits" /\ t.index \in Met(l) THEN [t EXCEPT !.at = "woken"]
                          ELSE t
    BY <1>1 DEF Woken, Waiting
  <2> HIDE DEF t
  <2>3. CASE t.at = "waits" /\ t.index \in Met(l)
    BY <2>1, <2>2, <2>3 DEF Thread, t
  <2>4. CASE ~ (t.at = "waits" /\ t.index \in Met(l))
    BY <2>1, <2>2, <2>4 DEF Thread, t
  <2>5. QED
    BY <2>3, <2>4
<1>5. ThreadsType'
  <2>1. listener' \in [Clients -> [Listeners -> Thread]]
    BY <1>1, <1>4
  <2>2. QED
    BY <1>1, <2>1 DEF ThreadsType
<1>6. HolderSends'
  <2>1. \A d \in Clients, m \in Listeners :
          listener'[d][m].at = "tells" <=> listener[d][m].at = "tells"
    BY <1>4
  <2>2. QED
    BY <1>1, <2>1 DEF HolderSends
<1>7. ASSUME NEW d \in Clients, NEW m \in Listeners PROVE Sleeps(d, m)' /\ Tells(d, m)'
  <2> DEFINE t == listener[d][m]
             u == listener'[d][m]
  <2>1. u.index = t.index /\ t.index \in Slots
    BY <1>4 DEF Thread
  <2>2. \/ u = t
        \/ t.at = "waits" /\ u.at = "woken" /\ t.index \in Met(l)
    BY <1>4
  <2>3. watches'[t.index].active <=> Active(t.index)
    BY <1>2, <2>1 DEF Active
  <2>4. Sleeps(d, m)'
    <3>1. u.at \in {"enters", "waits"} => u = t
      BY <2>2
    <3>2. QED
      BY <2>1, <2>3, <3>1 DEF Sleeps, Active
  <2>5. u.at # "none" => m < watchID'[d]
    BY <1>1, <2>2 DEF Tells
  <2>6. u.at # "tells"
    BY <1>1, <1>6, MainIsNoListener DEF HolderSends
  <2>7. KeepsAll(d)' /\ u.at \notin {"none", "created"} => u.index \in Of(d)'
    BY <1>2, <1>3, <2>1, <2>2 DEF Tells
  <2>8. KeepsAll(d)' /\ u.at = "woken" /\ ~ u.stirred =>
          /\ watches'[u.index].report # NoLock
          /\ Intersects(watches'[u.index].watch.area, watches'[u.index].report.area)
    <3>1. CASE t.index \in Met(l)
      <4>1. l # NoLock /\ Intersects(watches[t.index].watch.area, l.area)
        BY <3>1, WatchesAssumption DEF Met, doesIntersect
      <4>2. watches'[t.index].report = l /\ watches'[t.index].watch = watches[t.index].watch
        BY <1>2, <2>1, <3>1
      <4>3. QED
        BY <2>1, <4>1, <4>2
    <3>2. CASE t.index \notin Met(l)
      <4>1. u = t
        BY <2>2, <3>2
      <4>2. /\ watches'[t.index].report = watches[t.index].report
            /\ watches'[t.index].watch = watches[t.index].watch
        BY <1>2, <2>1, <3>2
      <4>3. QED
        BY <1>3, <4>1, <4>2 DEF Tells, Reported, doesIntersect
    <3>3. QED
      BY <3>1, <3>2
  <2>9. QED
    BY <2>4, <2>5, <2>6, <2>7, <2>8 DEF Tells, Reported, doesIntersect
<1>8. ArgumentsHold'
  BY <1>1, <1>2, <1>3 DEF ArgumentsHold
<1>9. QED
  BY <1>2, <1>5, <1>6, <1>7, <1>8

LEMMA NextKeeps ==
  ASSUME WatchesInv, [Next]_vars
  PROVE  WatchesInv'
<1>1. ASSUME UNCHANGED <<watches, size, wlock, watchID, arguments, alive, listener, answer>>,
             link' \in [Clients -> {"reads", "deaf", "gone"}]
      PROVE  WatchesInv'
  <2>1. TableInv' /\ ArgumentsHold'
    BY <1>1, TableUntouched, ArgumentsKept DEF WatchesInv, ThreadsInv
  <2>2. ThreadsType' /\ HolderSends'
    BY <1>1 DEF WatchesInv, ThreadsInv, ThreadsType, HolderSends
  <2>3. \A d \in Clients, m \in Listeners : Sleeps(d, m)' /\ Tells(d, m)'
    BY <1>1, OtherThreads DEF WatchesInv, ThreadsInv
  <2>4. QED
    BY <2>1, <2>2, <2>3 DEF WatchesInv, ThreadsInv
<1>2. CASE UNCHANGED vars
  BY <1>1, <1>2 DEF vars, WatchesInv, ThreadsInv, ThreadsType
<1>3. ASSUME NEW c \in Clients, MainStep(c) PROVE WatchesInv'
  <2>1. CASE Exit(c)
    BY <2>1, DieKeeps DEF Exit
  <2>2. QED
    BY <1>3, <2>1, WATCHKeeps, UNWATCHKeeps, WATCHESKeeps, ReportKeeps DEF MainStep
<1>4. ASSUME NEW c \in Clients, NEW n \in Listeners, ListenRegion(c, n) PROVE WatchesInv'
  BY <1>4, StartKeeps, TestKeeps, WaitKeeps, SpuriousWakeKeeps, WakeKeeps DEF ListenRegion
<1>5. ASSUME NEW c \in Clients, NEW n \in Listeners \cup {Main}, Send(c, n) \/ SIGPIPE(c, n)
      PROVE  WatchesInv'
  <2>1. CASE SIGPIPE(c, n)
    BY <2>1, DieKeeps DEF SIGPIPE
  <2>2. QED
    BY <1>5, <2>1, SendKeeps
<1>6. ASSUME NEW c \in Clients, ClientFails(c) PROVE WatchesInv'
  <2>1. link' \in [Clients -> {"reads", "deaf", "gone"}]
    BY <1>6 DEF ClientFails, WatchesInv, ThreadsInv, ThreadsType
  <2>2. QED
    BY <1>1, <1>6, <2>1 DEF ClientFails
<1>7. CASE Next
  BY <1>3, <1>4, <1>5, <1>6, <1>7 DEF Next
<1>8. QED
  BY <1>2, <1>7

THEOREM WatchesAlways == Spec => []WatchesInv
BY InitKeeps, NextKeeps, PTL DEF Spec

-----------------------------------------------------------------------------
(* What follows *)

LEMMA TypesHold == WatchesInv => TypeOK
BY DEF WatchesInv, TableInv, TableType, SizeExact, ActiveSlots, ThreadsInv, ThreadsType,
       HolderSends, Thread, TypeOK

LEMMA NoneSleep == WatchesInv => NoneLeftAsleep
BY DEF WatchesInv, ThreadsInv, Sleeps, NoneLeftAsleep

LEMMA TruthTold == WatchesInv => TellsTruth
<1> SUFFICES ASSUME WatchesInv, NEW c \in Clients, NEW n \in Listeners,
                    listener[c][n].at = "tells"
             PROVE  LET w == watches[listener[c][n].index]
                    IN  /\ w.active
                        /\ KeepsAll(c) => w.watch.owner = c
                        /\ KeepsAll(c) /\ ~ listener[c][n].stirred =>
                             /\ w.report # NoLock
                             /\ HasPoints(w.watch.area) /\ HasPoints(w.report.area) =>
                                  SharePoint(w.watch.area, w.report.area)
  BY DEF TellsTruth
<1> DEFINE t == listener[c][n]
           w == watches[t.index]
<1>1. t.index \in Slots /\ Tells(c, n)
  BY DEF WatchesInv, ThreadsInv, ThreadsType, Thread
<1>2. w.active
  BY <1>1 DEF Tells, Active
<1>3. KeepsAll(c) => w.watch.owner = c
  BY <1>1 DEF Tells, Of
<1>4. ASSUME KeepsAll(c), ~ t.stirred
      PROVE  /\ w.report # NoLock
             /\ HasPoints(w.watch.area) /\ HasPoints(w.report.area) =>
                  SharePoint(w.watch.area, w.report.area)
  <2>1. w.report # NoLock /\ Intersects(w.watch.area, w.report.area)
    BY <1>1, <1>4 DEF Tells, Reported, doesIntersect
  <2>2. w.watch \in Watches
    BY <1>1, <1>2 DEF WatchesInv, TableInv, TableType, Active
  <2>3. w.report \in Locks
    BY <1>1, <2>1 DEF WatchesInv, TableInv, TableType
  <2>4. w.watch.area \in Rectangle /\ w.report.area \in Rectangle
    BY <2>2, <2>3, WatchesAssumption DEF Watches
  <2>5. QED
    BY <2>1, <2>4, IntersectingSharePoints
<1>5. QED
  BY <1>2, <1>3, <1>4

(* The table, the counter, the mutex and what each thread keeps have their *)
(* types; size is the number of active slots, and whoever holds the mutex  *)
(* sends (hw2.cpp:340-396, 853-965).                                       *)
THEOREM TypeCorrect == Spec => []TypeOK
BY WatchesAlways, TypesHold, PTL

(* No thread sleeps at a slot that was let go, unless the broadcast came   *)
(* while it was between the test and the wait (hw2.cpp:383-389, 916).      *)
THEOREM NobodyLeftAsleep == Spec => []NoneLeftAsleep
BY WatchesAlways, NoneSleep, PTL

(* Nobody is told of a watch that was let go.  A client that keeps all its *)
(* watches is told of its own only and, by a listener that was not woken   *)
(* spuriously, of a lock that shares a point with what it watches wherever *)
(* both have points, however often the arguments of its threads are        *)
(* written over and its slots reported into (hw2.cpp:340-396, 884-891).    *)
THEOREM ReportsTellTruth == Spec => []TellsTruth
BY WatchesAlways, TruthTold, PTL

-----------------------------------------------------------------------------
(* The server implements the plain list of watches *)

Watched == {watches[i].watch : i \in {j \in Slots : Active(j)}}

LEMMA WatchedIs ==
  /\ Watched = {watches[i].watch : i \in ActiveSlots}
  /\ Watched' = {watches'[i].watch : i \in ActiveSlots'}
BY DEF Watched, ActiveSlots

(* No answer is being sent while a process that serves takes the mutex. *)
LEMMA ServesIs ==
  ASSUME ThreadsInv, NEW c \in Clients, Serves(c)
  PROVE  List!Serves(c)
BY DEF ThreadsInv, HolderSends, Serves, List!Serves

LEMMA OwnIs ==
  ASSUME TableInv, NEW c
  PROVE  List!Own(c) = {watches[i].watch : i \in Of(c)}
BY DEF List!Own, Of

LEMMA WATCHImplements ==
  ASSUME WatchesInv, NEW c \in Clients, NEW area \in Areas, WATCH(c, area)
  PROVE  List!WATCH(c, area)
<1> DEFINE w == Watch(c, watchID[c], area)
<1>1. PICK i \in Slots : ~ Active(i) /\ Taken(i, c, area)
  BY DEF WATCH, Available, First, Taken
<1>2. watchID[c] \in Listeners
  BY WatchIDBounded DEF WATCH, WatchesInv, TableInv
<1>3. /\ Active(i)' /\ watches'[i].watch = w
      /\ \A j \in Slots \ {i} : Active(j)' = Active(j) /\ watches'[j] = watches[j]
  BY <1>1, <1>2, TakenEffect DEF WatchesInv
<1>4. ActiveSlots' = ActiveSlots \cup {i} /\ i \notin ActiveSlots
  BY <1>1, <1>3 DEF ActiveSlots
<1>5. \A j \in ActiveSlots : watches'[j].watch = watches[j].watch
  BY <1>3, <1>4 DEF ActiveSlots
<1>6. Watched' = Watched \cup {w}
  BY <1>3, <1>4, <1>5, WatchedIs
<1>7. List!Serves(c)
  BY ServesIs DEF WATCH, WatchesInv
<1>8. w = List!Watch(c, watchID[c], area) /\ answer' = List!Answer(c, "id", {w})
  BY DEF WATCH, Answer, Watch, List!Answer, List!Watch
<1>9. QED
  BY <1>6, <1>7, <1>8 DEF WATCH, List!WATCH, Watched

LEMMA UNWATCHImplements ==
  ASSUME WatchesInv, NEW c \in Clients, NEW id, UNWATCH(c, id)
  PROVE  List!UNWATCH(c, id)
<1> DEFINE named == {w \in List!Own(c) : w.id = id}
<1>1. List!Serves(c) /\ UNCHANGED <<watchID, alive>>
  BY ServesIs DEF UNWATCH, WatchesInv
<1>2. named = {watches[i].watch : i \in Found(c, id)}
  BY OwnIs, FoundIs DEF WatchesInv
<1>3. CASE Found(c, id) = {} /\ answer' = Answer(c, "failed", {}) /\ UNCHANGED watches
  <2>1. named = {} /\ UNCHANGED Watched
    BY <1>2, <1>3 DEF Watched, Active
  <2>2. QED
    BY <1>1, <1>3, <2>1 DEF List!UNWATCH, List!Answer, Answer, Watched
<1>4. ASSUME NEW i \in Slots, First(Found(c, id), i), LetGo(i), answer' = Answer(c, "ok", {})
      PROVE  List!UNWATCH(c, id)
  <2>1. i \in Found(c, id) /\ i \in Of(c) /\ i \in ActiveSlots /\ Active(i)
        /\ watches[i].watch.id = id /\ watches[i].watch.owner = c
    BY <1>4, FoundIs DEF First, Of, WatchesInv, ActiveSlots
  <2>2. /\ ~ Active(i)'
        /\ \A j \in Slots \ {i} : Active(j)' = Active(j) /\ watches'[j] = watches[j]
    BY <1>1, <1>4, <2>1, LetGoEffect DEF WatchesInv
  <2>3. Found(c, id) = {i}
    <3>1. ASSUME NEW j \in Found(c, id) PROVE j = i
      BY <2>1, FoundIs DEF WatchesInv, TableInv, IdsInv, Of
    <3>2. QED
      BY <2>1, <3>1
  <2>4. named = {watches[i].watch}
    BY <1>2, <2>3
  <2>5. \A j \in ActiveSlots \ {i} : watches[j].watch # watches[i].watch
    BY <2>1 DEF WatchesInv, TableInv, IdsInv, ActiveSlots
  <2>6. ActiveSlots' = ActiveSlots \ {i}
    BY <2>2 DEF ActiveSlots
  <2>7. \A j \in ActiveSlots' : watches'[j].watch = watches[j].watch
    BY <2>2, <2>6 DEF ActiveSlots
  <2>8. Watched' = Watched \ named
    BY <2>4, <2>5, <2>6, <2>7, WatchedIs
  <2>9. QED
    BY <1>1, <1>4, <2>4, <2>8 DEF List!UNWATCH, List!Answer, Answer, Watched
<1>5. QED
  BY <1>3, <1>4 DEF UNWATCH

LEMMA WATCHESImplements ==
  ASSUME WatchesInv, NEW c \in Clients, WATCHES(c)
  PROVE  List!WATCHES(c)
<1>1. List!Serves(c) /\ UNCHANGED <<watches, watchID, alive>>
  BY ServesIs DEF WATCHES, WatchesInv
<1>2. List!Own(c) = {watches[i].watch : i \in Own(c)} /\ Own(c) # {}
  BY OwnIs, FoundIs DEF WATCHES, WatchesInv
<1>3. answer' = List!Answer(c, "list", List!Own(c))
  BY <1>2 DEF WATCHES, Answer, List!Answer
<1>4. UNCHANGED Watched
  BY <1>1 DEF Watched, Active
<1>5. List!Own(c) # {}
  BY <1>2
<1>6. QED
  BY <1>1, <1>3, <1>4, <1>5 DEF List!WATCHES, Watched

(* A report changes no watch. *)
LEMMA ReportStutters ==
  ASSUME WatchesInv, NEW c \in Clients, NEW l \in Locks, Report(c, l)
  PROVE  UNCHANGED List!vars
<1>1. \A i \in Slots : Active(i)' = Active(i) /\ watches'[i].watch = watches[i].watch
  BY ReportEffect DEF Report, Met, WatchesInv
<1>2. ActiveSlots' = ActiveSlots
  BY <1>1 DEF ActiveSlots
<1>3. \A i \in ActiveSlots : watches'[i].watch = watches[i].watch
  BY <1>1 DEF ActiveSlots
<1>4. UNCHANGED Watched
  BY <1>2, <1>3, WatchedIs
<1>5. QED
  BY <1>4 DEF Report, List!vars, Watched

LEMMA DieImplements ==
  ASSUME NEW c \in Clients, alive[c], Die(c), UNCHANGED <<watches, watchID, answer>>
  PROVE  List!End(c)
BY DEF Die, List!End, Active

(* An answer is sent; a report that is sent is no answer. *)
LEMMA SendImplements ==
  ASSUME WatchesInv, NEW c \in Clients, NEW n \in Listeners \cup {Main}, Send(c, n)
  PROVE  List!Sent \/ UNCHANGED List!vars
<1>1. wlock = <<c, n>> /\ answer' = NoAnswer /\ UNCHANGED <<watches, watchID, alive>>
  BY DEF Send, Sends
<1>2. CASE n = Main
  BY <1>1, <1>2 DEF Send, Sends, List!Sent, Active
<1>3. CASE n \in Listeners
  <2>1. answer = NoAnswer
    BY <1>1, <1>3, MainIsNoListener DEF WatchesInv, ThreadsInv, HolderSends
  <2>2. QED
    BY <1>1, <2>1 DEF List!vars, Active
<1>4. QED
  BY <1>2, <1>3

LEMMA NextImplements ==
  ASSUME WatchesInv, [Next]_vars
  PROVE  [List!Next]_(List!vars)
<1>1. CASE UNCHANGED <<watches, watchID, alive, answer>>
  BY <1>1 DEF List!vars, Active
<1>2. ASSUME NEW c \in Clients, MainStep(c) PROVE [List!Next]_(List!vars)
  <2>1. ASSUME NEW area \in Areas, WATCH(c, area) PROVE List!Next
    BY <2>1, WATCHImplements DEF List!Next
  <2>2. ASSUME NEW id \in 1 .. watchID[c], UNWATCH(c, id) PROVE List!Next
    BY <2>2, UNWATCHImplements DEF List!Next
  <2>3. CASE WATCHES(c)
    BY <2>3, WATCHESImplements DEF List!Next
  <2>4. CASE Exit(c)
    BY <2>4, DieImplements DEF Exit, List!Next
  <2>5. QED
    BY <1>2, <2>1, <2>2, <2>3, <2>4, ReportStutters DEF MainStep
<1>3. ASSUME NEW c \in Clients, NEW n \in Listeners, ListenRegion(c, n)
      PROVE  UNCHANGED <<watches, watchID, alive, answer>>
  BY <1>3 DEF ListenRegion, Start, Test, Wait, SpuriousWake, Wake
<1>4. ASSUME NEW c \in Clients, NEW n \in Listeners \cup {Main}, Send(c, n) \/ SIGPIPE(c, n)
      PROVE  [List!Next]_(List!vars)
  <2>1. CASE SIGPIPE(c, n)
    BY <2>1, DieImplements DEF SIGPIPE, Sends, List!Next
  <2>2. QED
    BY <1>4, <2>1, SendImplements DEF List!Next
<1>5. CASE Next
  BY <1>1, <1>2, <1>3, <1>4, <1>5 DEF Next, ClientFails
<1>6. QED
  BY <1>1, <1>5 DEF vars

LEMMA InitImplements == Init => List!Init
BY DEF Init, List!Init, Active

(* For every order of the commands of all clients, WATCH, UNWATCH and      *)
(* WATCHES answer as a plain list would, with slots that are used again    *)
(* and processes that end while they send (hw2.cpp:853-965).               *)
THEOREM ServerImplementsWatchList == Spec => ImplementsWatchList
<1>1. WatchesInv /\ [Next]_vars => [List!Next]_(List!vars)
  BY NextImplements
<1>2. QED
  BY <1>1, InitImplements, WatchesAlways, PTL DEF Spec, ImplementsWatchList, List!Spec
=============================================================================
