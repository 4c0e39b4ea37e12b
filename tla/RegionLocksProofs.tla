------------------------- MODULE RegionLocksProofs -------------------------
(* Proofs about the region locks, for any number of clients, any requests  *)
(* and a table of any size.                                                *)
EXTENDS LockListings, FiniteSetTheorems, SequenceTheorems, TLAPS

-----------------------------------------------------------------------------
(* Geometry *)

(* Rectangles that share a point intersect, from whichever side the code   *)
(* asks.  It holds of any rectangles, also of those whose edges are the    *)
(* wrong way round, which have no points.                                  *)
LEMMA SharedPointsIntersect ==
  ASSUME NEW a \in Rectangle, NEW b \in Rectangle, SharePoint(a, b)
  PROVE  Intersects(a, b) /\ Intersects(b, a)
<1>1. PICK x \in Int : x \in a.left .. a.right /\ x \in b.left .. b.right
  BY DEF SharePoint, Rectangle
<1>2. PICK y \in Int : y \in a.top .. a.bottom /\ y \in b.top .. b.bottom
  BY DEF SharePoint, Rectangle
<1>3. QED
  BY <1>1, <1>2 DEF Rectangle, Intersects, Meets

LEMMA SharePointSymmetric ==
  ASSUME NEW a, NEW b, SharePoint(a, b)
  PROVE  SharePoint(b, a)
BY DEF SharePoint

-----------------------------------------------------------------------------
(* The table *)

ActiveSlots == {s \in Slots : Active(s)}

TableType ==
  /\ regions \in [Slots -> [active : BOOLEAN, lock : Locks \cup {NoLock}]]
  /\ \A s \in Slots : Active(s) => regions[s].lock \in Locks

LEMMA SlotsFinite ==
  /\ IsFiniteSet(Slots)
  /\ Cardinality(Slots) = MaxSize
BY LocksAssumption, FS_Interval DEF LocksAssumption, Slots

LEMMA ActiveFinite ==
  /\ IsFiniteSet(ActiveSlots)
  /\ Cardinality(ActiveSlots) \in 0 .. MaxSize
<1>1. ActiveSlots \subseteq Slots
  BY DEF ActiveSlots
<1>2. QED
  BY <1>1, SlotsFinite, FS_Subset, FS_CardinalityType, LocksAssumption DEF LocksAssumption

(* The loops see every active slot. *)
LEMMA SeenAll ==
  ASSUME SizeExact
  PROVE  Seen = ActiveSlots
<1> SUFFICES ASSUME NEW s \in ActiveSlots
             PROVE  Cardinality({t \in Slots : Active(t) /\ t < s}) < size
  BY DEF Seen, ActiveSlots
<1> DEFINE below == {t \in Slots : Active(t) /\ t < s}
<1>1. below \subseteq ActiveSlots /\ below # ActiveSlots
  BY DEF ActiveSlots, Slots
<1>2. Cardinality(below) < Cardinality(ActiveSlots)
  BY <1>1, ActiveFinite, FS_Subset, FS_CardinalityType
<1>3. QED
  BY <1>2 DEF SizeExact, ActiveSlots

(* What putting a lock into a slot, or letting it go, does. *)
LEMMA PutEffect ==
  ASSUME TableType, NEW s \in Slots, NEW active \in BOOLEAN,
         NEW lock \in Locks, Put(s, active, lock)
  PROVE  /\ TableType'
         /\ Active(s)' = active /\ regions'[s].lock = lock
         /\ \A t \in Slots \ {s} : Active(t)' = Active(t) /\ regions'[t] = regions[t]
BY DEF TableType, Put, Active

LEMMA PutKeepsSize ==
  ASSUME TableType, SizeExact, NEW s \in Slots, NEW active \in BOOLEAN,
         NEW lock \in Locks, Put(s, active, lock), Active(s) <=> ~ active
  PROVE  SizeExact'
<1>1. \A t \in Slots \ {s} : Active(t)' = Active(t)
  BY PutEffect
<1>2. Active(s)' = active
  BY PutEffect
<1>3. CASE active
  <2>1. ActiveSlots' = ActiveSlots \cup {s} /\ s \notin ActiveSlots
    BY <1>1, <1>2, <1>3 DEF ActiveSlots
  <2>2. Cardinality(ActiveSlots') = Cardinality(ActiveSlots) + 1
    BY <2>1, ActiveFinite, FS_AddElement
  <2>3. size' = size + 1
    BY <1>3 DEF Put
  <2>4. QED
    BY <2>2, <2>3 DEF SizeExact, ActiveSlots
<1>4. CASE ~ active
  <2>1. ActiveSlots' = ActiveSlots \ {s} /\ s \in ActiveSlots
    BY <1>1, <1>2, <1>4 DEF ActiveSlots
  <2>2. Cardinality(ActiveSlots') = Cardinality(ActiveSlots) - 1
    BY <2>1, ActiveFinite, FS_RemoveElement
  <2>3. size' = size - 1
    BY <1>4, ActiveFinite DEF Put, SizeExact, ActiveSlots
  <2>4. QED
    BY <2>2, <2>3 DEF SizeExact, ActiveSlots
<1>5. QED
  BY <1>3, <1>4

TableInv == TableType /\ SizeExact /\ NoConflict

(* A lock that nothing in the table blocks joins it. *)
LEMMA GrantKeepsTable ==
  ASSUME TableInv, NEW l \in Locks, Blocking(l) = {}, Grant(l)
  PROVE  /\ TableInv'
         /\ \E s \in Slots :
              /\ ~ Active(s)
              /\ Active(s)' /\ regions'[s].lock = l
              /\ \A t \in Slots \ {s} : Active(t)' = Active(t) /\ regions'[t] = regions[t]
<1>1. PICK s \in Slots : ~ Active(s) /\ Put(s, TRUE, l)
  BY DEF Grant, Available, First
<1>2. /\ TableType'
      /\ Active(s)' /\ regions'[s].lock = l
      /\ \A t \in Slots \ {s} : Active(t)' = Active(t) /\ regions'[t] = regions[t]
  BY <1>1, PutEffect DEF TableInv
<1>3. SizeExact'
  BY <1>1, PutKeepsSize DEF TableInv
<1>4. \A t \in Slots : Active(t) => ~ Blocks(regions[t].lock, l)
  BY SeenAll DEF Blocking, TableInv, ActiveSlots
<1>5. ASSUME NEW t \in Slots, Active(t), SharePoint(regions[t].lock.area, l.area)
      PROVE  regions[t].lock.type = "read" /\ l.type = "read"
  <2>1. regions[t].lock \in Locks
    BY <1>5 DEF TableInv, TableType
  <2>2. Intersects(regions[t].lock.area, l.area)
    BY <1>5, <2>1, SharedPointsIntersect DEF Locks
  <2>3. QED
    BY <1>4, <1>5, <2>1, <2>2 DEF Blocks, Locks
<1>6. NoConflict'
  <2> SUFFICES ASSUME NEW t \in Slots, NEW u \in Slots, Active(t)', Active(u)', t # u,
                      SharePoint(regions'[t].lock.area, regions'[u].lock.area)
               PROVE  regions'[t].lock.type = "read" /\ regions'[u].lock.type = "read"
    BY DEF NoConflict
  <2>1. CASE t = s
    <3>1. Active(u) /\ regions'[u] = regions[u] /\ regions'[t].lock = l
      BY <1>2, <2>1
    <3>2. SharePoint(regions[u].lock.area, l.area)
      BY <3>1, SharePointSymmetric
    <3>3. QED
      BY <1>5, <3>1, <3>2
  <2>2. CASE u = s
    BY <1>2, <1>5, <2>2
  <2>3. CASE t # s /\ u # s
    BY <1>2, <2>3 DEF TableInv, NoConflict
  <2>4. QED
    BY <2>1, <2>2, <2>3
<1>7. QED
  BY <1>1, <1>2, <1>3, <1>6 DEF TableInv

(* So does a lock that is let go leave it. *)
LEMMA LettingGoKeepsTable ==
  ASSUME TableInv, NEW s \in Slots, Active(s), Put(s, FALSE, regions[s].lock)
  PROVE  /\ TableInv'
         /\ ~ Active(s)'
         /\ \A t \in Slots \ {s} : Active(t)' = Active(t) /\ regions'[t] = regions[t]
<1>1. regions[s].lock \in Locks
  BY DEF TableInv, TableType
<1>2. /\ TableType'
      /\ ~ Active(s)'
      /\ \A t \in Slots \ {s} : Active(t)' = Active(t) /\ regions'[t] = regions[t]
  BY <1>1, PutEffect DEF TableInv
<1>3. SizeExact'
  BY <1>1, PutKeepsSize DEF TableInv
<1>4. NoConflict'
  BY <1>2 DEF TableInv, NoConflict
<1>5. QED
  BY <1>2, <1>3, <1>4 DEF TableInv

LEMMA TableUntouched ==
  ASSUME TableInv, UNCHANGED <<regions, size>>
  PROVE  TableInv'
BY DEF TableInv, TableType, SizeExact, NoConflict, Active

-----------------------------------------------------------------------------
(* Those who wait *)

WaitersType ==
  /\ pc \in [Clients -> {"reads", "waits", "woken", "gone"}]
  /\ request \in [Clients -> Locks \cup {NoLock}]
  /\ at \in [Clients -> Slots \cup {NoSlot}]
  /\ \A c \in Clients :
       /\ request[c] # NoLock <=> pc[c] \in {"waits", "woken"}
       /\ pc[c] = "waits" => at[c] \in Slots
       /\ request[c] # NoLock => request[c].owner = c

WaitersInv == WaitersType /\ NoneStranded

(* A grant moves no lock that is held, so it strands nobody. *)
LEMMA GrantStrandsNobody ==
  ASSUME TableInv, WaitersInv, NEW l \in Locks, Blocking(l) = {}, Grant(l),
         NEW c \in Clients, pc[c] = "waits"
  PROVE  regions'[at[c]].active /\ Blocks(regions'[at[c]].lock, request[c])
<1>1. at[c] \in Slots /\ Active(at[c]) /\ Blocks(regions[at[c]].lock, request[c])
  BY DEF WaitersInv, WaitersType, NoneStranded
<1>2. regions'[at[c]] = regions[at[c]]
  BY <1>1, GrantKeepsTable
<1>3. QED
  BY <1>1, <1>2 DEF Active

LEMMA GrantOrWaitKeeps ==
  ASSUME TableInv, WaitersInv, NEW c \in Clients, NEW l \in Locks,
         l.owner = c, pc[c] # "waits", GrantOrWait(c, l)
  PROVE  TableInv' /\ WaitersInv'
<1>1. CASE /\ Blocking(l) = {}
           /\ Grant(l)
           /\ pc' = [pc EXCEPT ![c] = "reads"]
           /\ request' = [request EXCEPT ![c] = NoLock]
           /\ at' = [at EXCEPT ![c] = NoSlot]
  <2>1. TableInv'
    BY <1>1, GrantKeepsTable
  <2>2. WaitersType'
    BY <1>1 DEF WaitersInv, WaitersType
  <2>3. NoneStranded'
    <3> SUFFICES ASSUME NEW d \in Clients, pc'[d] = "waits"
                 PROVE  regions'[at'[d]].active /\ Blocks(regions'[at'[d]].lock, request'[d])
      BY DEF NoneStranded, Active
    <3>1. d # c /\ pc[d] = "waits" /\ at'[d] = at[d] /\ request'[d] = request[d]
      BY <1>1 DEF WaitersInv, WaitersType
    <3>2. QED
      BY <1>1, <3>1, GrantStrandsNobody DEF Active
  <2>4. QED
    BY <2>1, <2>2, <2>3 DEF WaitersInv
<1>2. CASE \E s \in Slots :
             /\ First(Blocking(l), s)
             /\ pc' = [pc EXCEPT ![c] = "waits"]
             /\ request' = [request EXCEPT ![c] = l]
             /\ at' = [at EXCEPT ![c] = s]
             /\ UNCHANGED <<regions, size, answer>>
  <2>1. PICK s \in Slots :
          /\ First(Blocking(l), s)
          /\ pc' = [pc EXCEPT ![c] = "waits"]
          /\ request' = [request EXCEPT ![c] = l]
          /\ at' = [at EXCEPT ![c] = s]
          /\ UNCHANGED <<regions, size, answer>>
    BY <1>2
  <2>2. TableInv'
    BY <2>1, TableUntouched
  <2>3. WaitersType'
    BY <2>1, NoLockAssumption DEF WaitersInv, WaitersType
  <2>4. Active(s) /\ Blocks(regions[s].lock, l)
    BY <2>1 DEF First, Blocking, Seen
  <2>5. NoneStranded'
    BY <2>1, <2>4 DEF WaitersInv, WaitersType, NoneStranded, Active
  <2>6. QED
    BY <2>2, <2>3, <2>5 DEF WaitersInv
<1>3. QED
  BY <1>1, <1>2 DEF GrantOrWait

(* Whoever waits at a slot that is let go is woken. *)
LEMMA UNLOCKKeeps ==
  ASSUME TableInv, WaitersInv, NEW c \in Clients, NEW id, UNLOCK(c, id)
  PROVE  TableInv' /\ WaitersInv'
<1>1. CASE Found(c, id) = {} /\ UNCHANGED <<regions, size, pc, request, at>>
  <2>1. TableInv'
    BY <1>1, TableUntouched
  <2>2. WaitersInv'
    BY <1>1 DEF WaitersInv, WaitersType, NoneStranded, Active
  <2>3. QED
    BY <2>1, <2>2
<1>2. CASE \E s \in Slots :
             /\ First(Found(c, id), s)
             /\ Put(s, FALSE, regions[s].lock)
             /\ pc' = [d \in Clients |-> IF d \in Wakes(s) THEN "woken" ELSE pc[d]]
  <2>1. PICK s \in Slots :
          /\ First(Found(c, id), s)
          /\ Put(s, FALSE, regions[s].lock)
          /\ pc' = [d \in Clients |-> IF d \in Wakes(s) THEN "woken" ELSE pc[d]]
    BY <1>2
  <2>2. Active(s)
    BY <2>1 DEF First, Found, Seen
  <2>3. TableInv' /\ \A t \in Slots \ {s} : regions'[t] = regions[t]
    BY <2>1, <2>2, LettingGoKeepsTable
  <2>4. request' = request /\ at' = at
    BY DEF UNLOCK
  <2>5. WaitersType'
    BY <2>1, <2>4 DEF WaitersInv, WaitersType, Wakes
  <2>6. NoneStranded'
    <3> SUFFICES ASSUME NEW d \in Clients, pc'[d] = "waits"
                 PROVE  regions'[at'[d]].active /\ Blocks(regions'[at'[d]].lock, request'[d])
      BY DEF NoneStranded, Active
    <3>1. pc[d] = "waits" /\ at[d] \in Slots \ {s}
      BY <2>1 DEF Wakes, WaitersInv, WaitersType
    <3>2. QED
      BY <2>3, <2>4, <3>1 DEF WaitersInv, NoneStranded, Active
  <2>7. QED
    BY <2>3, <2>5, <2>6 DEF WaitersInv
<1>3. QED
  BY <1>1, <1>2 DEF UNLOCK, Put

-----------------------------------------------------------------------------
(* Ids *)

IdsInv ==
  /\ nextLockId \in 1 .. MaxIds + 1
  /\ \A s \in Slots : Active(s) => regions[s].lock.id < nextLockId
  /\ \A c \in Clients : request[c] # NoLock => request[c].id < nextLockId
  /\ UniqueIds

(* Nobody but c has the id of l. *)
Fresh(c, l) ==
  /\ \A s \in Slots : Active(s) => regions[s].lock.id # l.id
  /\ \A d \in Clients \ {c} : request[d] # NoLock => request[d].id # l.id

LEMMA GrantKeepsIds ==
  ASSUME TableInv, WaitersInv, IdsInv, NEW c \in Clients, NEW l \in Locks, Fresh(c, l),
         Blocking(l) = {}, Grant(l),
         nextLockId' \in nextLockId .. MaxIds + 1, l.id < nextLockId',
         request' = [request EXCEPT ![c] = NoLock]
  PROVE  IdsInv'
<1>1. PICK s \in Slots :
        /\ ~ Active(s)
        /\ Active(s)' /\ regions'[s].lock = l
        /\ \A t \in Slots \ {s} : Active(t)' = Active(t) /\ regions'[t] = regions[t]
  BY GrantKeepsTable
<1>2. \A d \in Clients : request'[d] # NoLock => d # c /\ request'[d] = request[d]
  BY DEF WaitersInv, WaitersType
<1>3. \A t \in Slots : Active(t) => regions[t].lock.id \in Int
  BY DEF TableInv, TableType, Locks, Ids
<1>4. \A d \in Clients : request[d] # NoLock => request[d].id \in Int
  BY DEF WaitersInv, WaitersType, Locks, Ids
<1>5. nextLockId \in Int /\ nextLockId' \in Int /\ nextLockId' \in 1 .. MaxIds + 1
  BY LocksAssumption DEF IdsInv, LocksAssumption
<1>6. \A t \in Slots : Active(t)' => regions'[t].lock.id < nextLockId'
  BY <1>1, <1>3, <1>5 DEF IdsInv
<1>7. \A d \in Clients : request'[d] # NoLock => request'[d].id < nextLockId'
  BY <1>2, <1>4, <1>5 DEF IdsInv
<1>8. UniqueIds'
  <2>1. ASSUME NEW t \in Slots, NEW u \in Slots, Active(t)', Active(u)',
               regions'[t].lock.id = regions'[u].lock.id
        PROVE  t = u
    BY <1>1, <2>1 DEF IdsInv, UniqueIds, Fresh
  <2>2. ASSUME NEW d \in Clients, NEW e \in Clients, request'[d] # NoLock,
               request'[e] # NoLock, request'[d].id = request'[e].id
        PROVE  d = e
    BY <1>2, <2>2 DEF IdsInv, UniqueIds
  <2>3. ASSUME NEW t \in Slots, NEW d \in Clients, Active(t)', request'[d] # NoLock
        PROVE  regions'[t].lock.id # request'[d].id
    BY <1>1, <1>2, <2>3 DEF IdsInv, UniqueIds, Fresh
  <2>4. QED
    BY <2>1, <2>2, <2>3 DEF UniqueIds
<1>9. QED
  BY <1>5, <1>6, <1>7, <1>8 DEF IdsInv

LEMMA GrantOrWaitKeepsIds ==
  ASSUME TableInv, WaitersInv, IdsInv, NEW c \in Clients, NEW l \in Locks, Fresh(c, l),
         GrantOrWait(c, l),
         nextLockId' \in nextLockId .. MaxIds + 1, l.id < nextLockId'
  PROVE  IdsInv'
<1>1. CASE Blocking(l) = {} /\ Grant(l) /\ request' = [request EXCEPT ![c] = NoLock]
  BY <1>1, GrantKeepsIds
<1>2. CASE UNCHANGED regions /\ request' = [request EXCEPT ![c] = l]
  <2>1. \A d \in Clients : request'[d] = IF d = c THEN l ELSE request[d]
    BY <1>2 DEF WaitersInv, WaitersType
  <2>2. \A t \in Slots : Active(t)' = Active(t) /\ regions'[t] = regions[t]
    BY <1>2 DEF Active
  <2>3. \A t \in Slots : Active(t) => regions[t].lock.id \in Int
    BY DEF TableInv, TableType, Locks, Ids
  <2>4. \A d \in Clients : request[d] # NoLock => request[d].id \in Int
    BY DEF WaitersInv, WaitersType, Locks, Ids
  <2>5. nextLockId \in Int /\ nextLockId' \in Int /\ nextLockId' \in 1 .. MaxIds + 1
    BY LocksAssumption DEF IdsInv, LocksAssumption
  <2>6. \A t \in Slots : Active(t)' => regions'[t].lock.id < nextLockId'
    BY <2>2, <2>3, <2>5 DEF IdsInv
  <2>7. \A d \in Clients : request'[d] # NoLock => request'[d].id < nextLockId'
    BY <2>1, <2>4, <2>5 DEF IdsInv
  <2>8. UniqueIds'
    BY <2>1, <2>2 DEF IdsInv, UniqueIds, Fresh
  <2>9. QED
    BY <2>5, <2>6, <2>7, <2>8 DEF IdsInv
<1>3. QED
  BY <1>1, <1>2 DEF GrantOrWait

(* A lock for a new request has an id that nobody has. *)
LEMMA NewLock ==
  ASSUME TableInv, WaitersInv, IdsInv, NEW c \in Clients, NEW r \in Requests,
         nextLockId <= MaxIds
  PROVE  /\ Lock(c, r) \in Locks
         /\ Lock(c, r).id = nextLockId /\ Lock(c, r).owner = c
         /\ Fresh(c, Lock(c, r))
<1>1. nextLockId \in Ids
  BY LocksAssumption DEF IdsInv, Ids, LocksAssumption
<1>2. Lock(c, r) \in Locks /\ Lock(c, r).id = nextLockId /\ Lock(c, r).owner = c
  BY <1>1, LocksAssumption DEF Lock, Locks, LocksAssumption
<1>3. Fresh(c, Lock(c, r))
  <2>1. \A t \in Slots : Active(t) => regions[t].lock.id \in Int
    BY DEF TableInv, TableType, Locks, Ids
  <2>2. \A d \in Clients : request[d] # NoLock => request[d].id \in Int
    BY DEF WaitersInv, WaitersType, Locks, Ids
  <2>3. QED
    BY <1>1, <1>2, <2>1, <2>2 DEF IdsInv, Fresh, Ids
<1>4. QED
  BY <1>2, <1>3

-----------------------------------------------------------------------------
(* Every step keeps everything *)

LocksInv ==
  /\ TableInv
  /\ WaitersInv
  /\ IdsInv
  /\ envlock \in {"free", "lost"}
  /\ answer \in {"none", "granted", "failed", "ok"}

LEMMA InitKeeps == Init => LocksInv
<1> SUFFICES ASSUME Init PROVE LocksInv
  OBVIOUS
<1>1. TableType /\ NoConflict
  BY LocksAssumption DEF Init, TableType, NoConflict, Active, LocksAssumption
<1>2. SizeExact
  <2>1. {s \in Slots : Active(s)} = {}
    BY DEF Init, Active
  <2>2. QED
    BY <2>1, FS_EmptySet DEF Init, SizeExact
<1>3. WaitersInv
  BY DEF Init, WaitersInv, WaitersType, NoneStranded
<1>4. IdsInv
  BY LocksAssumption DEF Init, IdsInv, UniqueIds, Active, LocksAssumption
<1>5. QED
  BY <1>1, <1>2, <1>3, <1>4 DEF LocksInv, TableInv, Init

LEMMA NothingMoves ==
  ASSUME TableInv, WaitersInv, IdsInv,
         UNCHANGED <<regions, size, nextLockId, request, at>>,
         pc' \in [Clients -> {"reads", "waits", "woken", "gone"}],
         \A c \in Clients : /\ pc'[c] = "waits" => pc[c] = "waits"
                            /\ pc'[c] \in {"waits", "woken"} <=> pc[c] \in {"waits", "woken"}
  PROVE  TableInv' /\ WaitersInv' /\ IdsInv'
<1>1. TableInv'
  BY TableUntouched
<1>2. WaitersInv'
  BY DEF WaitersInv, WaitersType, NoneStranded, Active
<1>3. IdsInv'
  BY DEF IdsInv, UniqueIds, Active
<1>4. QED
  BY <1>1, <1>2, <1>3

(* A process that ends waits for nothing, and strands nobody. *)
LEMMA EndKeeps ==
  ASSUME LocksInv, NEW c \in Clients, End(c), envlock' \in {"free", "lost"}
  PROVE  LocksInv'
<1>1. /\ pc' = [pc EXCEPT ![c] = "gone"]
      /\ request' = [request EXCEPT ![c] = NoLock]
      /\ at' = [at EXCEPT ![c] = NoSlot]
      /\ UNCHANGED <<regions, size, nextLockId, answer>>
  BY DEF End
<1>2. WaitersType /\ NoneStranded
  BY DEF LocksInv, WaitersInv
<1>3. \A d \in Clients :
        /\ pc'[d] = IF d = c THEN "gone" ELSE pc[d]
        /\ request'[d] = IF d = c THEN NoLock ELSE request[d]
        /\ at'[d] = IF d = c THEN NoSlot ELSE at[d]
  BY <1>1, <1>2 DEF WaitersType
<1>4. TableInv'
  BY <1>1, TableUntouched DEF LocksInv
<1>5. WaitersType'
  BY <1>1, <1>2 DEF WaitersType
<1>6. NoneStranded'
  BY <1>1, <1>2, <1>3 DEF NoneStranded, Active
<1>7. IdsInv'
  BY <1>1, <1>3 DEF LocksInv, IdsInv, UniqueIds, Active
<1>8. QED
  BY <1>1, <1>4, <1>5, <1>6, <1>7 DEF LocksInv, WaitersInv

LEMMA TRYLOCKKeeps ==
  ASSUME LocksInv, NEW c \in Clients, NEW r \in Requests, TRYLOCK(c, r)
  PROVE  LocksInv'
<1> USE DEF LocksInv
<1>1. CASE Blocking(Lock(c, r)) = {}
  <2>1. /\ Grant(Lock(c, r)) /\ nextLockId' = nextLockId + 1 /\ nextLockId <= MaxIds
        /\ pc[c] = "reads" /\ UNCHANGED <<envlock, pc, request, at>>
    BY <1>1 DEF TRYLOCK
  <2>2. /\ Lock(c, r) \in Locks /\ Lock(c, r).id = nextLockId
        /\ Fresh(c, Lock(c, r))
    BY <2>1, NewLock
  <2>3. TableInv'
    BY <1>1, <2>1, <2>2, GrantKeepsTable
  <2>4. WaitersInv'
    <3>1. WaitersType'
      BY <2>1 DEF WaitersInv, WaitersType
    <3>2. NoneStranded'
      <4> SUFFICES ASSUME NEW d \in Clients, pc'[d] = "waits"
                   PROVE  regions'[at'[d]].active /\ Blocks(regions'[at'[d]].lock, request'[d])
        BY DEF NoneStranded, Active
      <4>1. QED
        BY <1>1, <2>1, <2>2, GrantStrandsNobody
    <3>3. QED
      BY <3>1, <3>2 DEF WaitersInv
  <2>5. nextLockId' \in nextLockId .. MaxIds + 1 /\ Lock(c, r).id < nextLockId'
    BY <2>1, <2>2, LocksAssumption DEF IdsInv, LocksAssumption
  <2>6. request' = [request EXCEPT ![c] = NoLock]
    BY <2>1 DEF WaitersInv, WaitersType
  <2>7. IdsInv'
    BY <1>1, <2>1, <2>2, <2>5, <2>6, GrantKeepsIds
  <2>8. QED
    BY <2>1, <2>3, <2>4, <2>7 DEF Grant
<1>2. CASE Blocking(Lock(c, r)) # {}
  <2>1. /\ UNCHANGED <<regions, size, nextLockId, envlock, pc, request, at>>
        /\ answer' = "failed"
    BY <1>2 DEF TRYLOCK
  <2>2. QED
    BY <2>1, NothingMoves DEF WaitersInv, WaitersType
<1>3. QED
  BY <1>1, <1>2

LEMMA LOCKKeeps ==
  ASSUME LocksInv, NEW c \in Clients, NEW r \in Requests, LOCK(c, r)
  PROVE  LocksInv'
<1> USE DEF LocksInv
<1>1. /\ pc[c] = "reads" /\ nextLockId <= MaxIds /\ UNCHANGED envlock
      /\ nextLockId' = nextLockId + 1 /\ GrantOrWait(c, Lock(c, r))
  BY DEF LOCK, Taken
<1>2. /\ Lock(c, r) \in Locks /\ Lock(c, r).id = nextLockId /\ Lock(c, r).owner = c
      /\ Fresh(c, Lock(c, r))
  BY <1>1, NewLock
<1>3. TableInv' /\ WaitersInv'
  BY <1>1, <1>2, GrantOrWaitKeeps
<1>4. nextLockId' \in nextLockId .. MaxIds + 1 /\ Lock(c, r).id < nextLockId'
  BY <1>1, <1>2, LocksAssumption DEF IdsInv, LocksAssumption
<1>5. IdsInv'
  BY <1>1, <1>2, <1>4, GrantOrWaitKeepsIds
<1>6. QED
  BY <1>1, <1>3, <1>5 DEF GrantOrWait, Grant

LEMMA RecheckKeeps ==
  ASSUME LocksInv, NEW c \in Clients, Recheck(c)
  PROVE  LocksInv'
<1> USE DEF LocksInv
<1>1. /\ pc[c] = "woken" /\ UNCHANGED <<nextLockId, envlock>> /\ GrantOrWait(c, request[c])
  BY DEF Recheck
<1>2. request[c] \in Locks /\ request[c] # NoLock /\ request[c].owner = c
  BY <1>1 DEF WaitersInv, WaitersType
<1>3. Fresh(c, request[c])
  BY <1>2 DEF IdsInv, UniqueIds, Fresh
<1>4. TableInv' /\ WaitersInv'
  BY <1>1, <1>2, GrantOrWaitKeeps
<1>5. nextLockId' \in nextLockId .. MaxIds + 1 /\ request[c].id < nextLockId'
  BY <1>1, <1>2, LocksAssumption DEF IdsInv, LocksAssumption
<1>6. IdsInv'
  BY <1>1, <1>2, <1>3, <1>5, GrantOrWaitKeepsIds
<1>7. QED
  BY <1>1, <1>4, <1>6 DEF GrantOrWait, Grant

LEMMA UNLOCKKeepsIds ==
  ASSUME LocksInv, NEW c \in Clients, NEW id, UNLOCK(c, id)
  PROVE  IdsInv'
<1>1. UNCHANGED <<nextLockId, request>>
  BY DEF UNLOCK
<1>2. \A t \in Slots : Active(t)' => Active(t) /\ regions'[t].lock = regions[t].lock
  <2>1. CASE UNCHANGED regions
    BY <2>1 DEF Active
  <2>2. CASE \E s \in Slots : First(Found(c, id), s) /\ Put(s, FALSE, regions[s].lock)
    <3>1. PICK s \in Slots : First(Found(c, id), s) /\ Put(s, FALSE, regions[s].lock)
      BY <2>2
    <3>2. Active(s)
      BY <3>1 DEF First, Found, Seen
    <3>3. QED
      BY <3>1, <3>2, LettingGoKeepsTable DEF LocksInv
  <2>3. QED
    BY <2>1, <2>2 DEF UNLOCK
<1>3. QED
  BY <1>1, <1>2 DEF LocksInv, IdsInv, UniqueIds

LEMMA NextKeeps ==
  ASSUME LocksInv, [Next]_vars
  PROVE  LocksInv'
<1>1. CASE UNCHANGED vars
  BY <1>1, NothingMoves DEF LocksInv, WaitersInv, WaitersType, vars
<1>2. ASSUME NEW c \in Clients, NEW id \in Ids, UNLOCK(c, id) PROVE LocksInv'
  BY <1>2, UNLOCKKeeps, UNLOCKKeepsIds DEF LocksInv, UNLOCK
<1>3. ASSUME NEW c \in Clients, SpuriousWake(c) PROVE LocksInv'
  BY <1>3, NothingMoves DEF SpuriousWake, LocksInv, WaitersInv, WaitersType
<1>4. ASSUME NEW c \in Clients, Leave(c) \/ Killed(c) PROVE LocksInv'
  BY <1>4, EndKeeps DEF Leave, Killed, LocksInv
<1>5. CASE Next
  BY <1>2, <1>3, <1>4, <1>5, TRYLOCKKeeps, LOCKKeeps, RecheckKeeps DEF Next
<1>6. QED
  BY <1>1, <1>5

THEOREM LocksAlways == Spec => []LocksInv
BY InitKeeps, NextKeeps, PTL DEF Spec

-----------------------------------------------------------------------------
(* What follows *)

LEMMA Parts == LocksInv => TypeOK /\ NoConflict /\ SizeExact /\ NoneStranded /\ UniqueIds
<1> SUFFICES ASSUME LocksInv PROVE TypeOK
  BY DEF LocksInv, TableInv, WaitersInv, IdsInv
<1>1. size \in 0 .. MaxSize
  BY ActiveFinite DEF LocksInv, TableInv, SizeExact, ActiveSlots
<1>2. QED
  BY <1>1 DEF LocksInv, TableInv, TableType, WaitersInv, WaitersType, IdsInv, TypeOK

(* The table, the counters and what each process keeps have their types;   *)
(* in particular size stays within the table (hw2.cpp:572-575, 773-774).   *)
THEOREM TypeCorrect == Spec => []TypeOK
BY LocksAlways, Parts, PTL

(* However many clients lock and unlock whatever areas, a lock for writing *)
(* shares no point of the map with another lock (hw2.cpp:108-137, 557).    *)
THEOREM LocksNeverConflict == Spec => []NoConflict
BY LocksAlways, Parts, PTL

(* size is the number of active slots, so that the loops that count to it  *)
(* see all of them and end within the table (hw2.cpp:556-568, 751).        *)
THEOREM LoopsSeeAll == Spec => []SizeExact
BY LocksAlways, Parts, PTL

(* No client sleeps at a slot that does not block it: no broadcast is      *)
(* missed and no slot is taken over under a client that sleeps at it       *)
(* (hw2.cpp:661-688, 770-773).                                             *)
THEOREM NobodyIsStranded == Spec => []NoneStranded
BY LocksAlways, Parts, PTL

(* Ids that are given back by TRYLOCK never come to stand for two locks    *)
(* (hw2.cpp:551, 582, 652).                                                *)
THEOREM IdsStayUnique == Spec => []UniqueIds
BY LocksAlways, Parts, PTL

-----------------------------------------------------------------------------
(* The server implements the abstract map of locks *)

RequestOf(l) == [type |-> l.type, area |-> l.area]

(* Both modules compare rectangles in the same way. *)
LEMMA BlocksAgree == \A a, b : Service!Blocks(a, b) <=> Blocks(a, b)
BY DEF Service!Blocks, Service!Intersects, Service!Meets, Blocks, Intersects, Meets

(* A lock blocks a request and the lock made of it alike. *)
LEMMA BlocksRequest == \A a, l : Blocks(a, l) <=> Blocks(a, RequestOf(l))
BY DEF Blocks, RequestOf

LEMMA BlockedAgrees ==
  ASSUME TableInv, NEW l
  PROVE  Blocking(l) = {} <=> ~ Service!Blocked(RequestOf(l))
<1>1. Blocking(l) = {} <=> \A s \in Slots : Active(s) => ~ Blocks(regions[s].lock, l)
  BY SeenAll DEF Blocking, TableInv, ActiveSlots
<1>2. Service!Blocked(RequestOf(l)) <=> \E k \in Held : Blocks(k, RequestOf(l))
  BY BlocksAgree DEF Service!Blocked
<1>3. Service!Blocked(RequestOf(l))
        <=> \E s \in Slots : Active(s) /\ Blocks(regions[s].lock, RequestOf(l))
  BY <1>2 DEF Held
<1>4. QED
  BY <1>1, <1>3, BlocksRequest

LEMMA GrantImplements ==
  ASSUME LocksInv, NEW c \in Clients, NEW l \in Locks, l.owner = c, Fresh(c, l),
         Blocking(l) = {}, Grant(l)
  PROVE  Service!Grant(c, RequestOf(l))
<1> USE DEF LocksInv
<1>1. ~ Service!Blocked(RequestOf(l))
  BY BlockedAgrees
<1>2. l = Service!Lock(c, l.id, RequestOf(l))
  BY DEF Service!Lock, RequestOf, Locks
<1>3. \A k \in Held : k.id # l.id
  BY DEF Held, Fresh
<1>4. Held' = Held \cup {l}
  <2>1. PICK s \in Slots :
          /\ ~ Active(s)
          /\ Active(s)' /\ regions'[s].lock = l
          /\ \A t \in Slots \ {s} : Active(t)' = Active(t) /\ regions'[t] = regions[t]
    BY GrantKeepsTable
  <2>2. ASSUME NEW k \in Held' PROVE k \in Held \cup {l}
    <3>1. PICK t \in Slots : Active(t)' /\ k = regions'[t].lock
      BY <2>2 DEF Held
    <3>2. QED
      BY <2>1, <3>1 DEF Held
  <2>3. ASSUME NEW k \in Held PROVE k \in Held'
    <3>1. PICK t \in Slots : Active(t) /\ k = regions[t].lock
      BY <2>3 DEF Held
    <3>2. t # s
      BY <2>1, <3>1
    <3>3. QED
      BY <2>1, <3>1, <3>2 DEF Held
  <2>4. l \in Held'
    BY <2>1 DEF Held
  <2>5. QED
    BY <2>2, <2>3, <2>4
<1>5. l.id \in Ids /\ answer' = "granted"
  BY DEF Locks, Grant
<1>6. QED
  BY <1>1, <1>2, <1>3, <1>4, <1>5 DEF Service!Grant

(* Who waits wants what it asked for; who does not wants nothing. *)
LEMMA WantedIs ==
  ASSUME LocksInv, NEW c \in Clients
  PROVE  /\ pc[c] \notin {"waits", "woken"} => Wanted[c] = NoRequest
         /\ pc[c] \in {"waits", "woken"} => Wanted[c] = RequestOf(request[c])
BY DEF LocksInv, WaitersInv, WaitersType, Wanted, RequestOf

LEMMA WantedKept == UNCHANGED request => UNCHANGED Wanted
BY DEF Wanted

LEMMA HeldKept == UNCHANGED regions => UNCHANGED Held
BY DEF Held, Active

LEMMA RequestOfLock ==
  ASSUME NEW c, NEW r \in Requests
  PROVE  RequestOf(Lock(c, r)) = r
BY LocksAssumption DEF RequestOf, Lock, LocksAssumption

LEMMA TRYLOCKImplements ==
  ASSUME LocksInv, NEW c \in Clients, NEW r \in Requests, TRYLOCK(c, r)
  PROVE  Service!Try(c, r)
<1>1. Wanted[c] = NoRequest /\ UNCHANGED Wanted
  BY WantedIs, WantedKept DEF TRYLOCK
<1>2. CASE Blocking(Lock(c, r)) = {}
  <2>1. /\ Lock(c, r) \in Locks /\ Lock(c, r).owner = c /\ Fresh(c, Lock(c, r))
        /\ Grant(Lock(c, r))
    BY <1>2, NewLock DEF LocksInv, TRYLOCK
  <2>2. Service!Grant(c, r)
    BY <1>2, <2>1, GrantImplements, RequestOfLock
  <2>3. QED
    BY <1>1, <2>2 DEF Service!Try
<1>3. CASE Blocking(Lock(c, r)) # {}
  <2>1. Service!Blocked(r)
    BY <1>3, BlockedAgrees, RequestOfLock DEF LocksInv
  <2>2. answer' = "failed" /\ UNCHANGED Held
    BY <1>3, HeldKept DEF TRYLOCK
  <2>3. QED
    BY <1>1, <2>1, <2>2 DEF Service!Try
<1>4. QED
  BY <1>2, <1>3

LEMMA LOCKImplements ==
  ASSUME LocksInv, LocksInv', NEW c \in Clients, NEW r \in Requests, LOCK(c, r)
  PROVE  Service!Ask(c, r)
<1>1. /\ Wanted[c] = NoRequest /\ pc[c] = "reads" /\ request[c] = NoLock
      /\ nextLockId <= MaxIds /\ GrantOrWait(c, Lock(c, r))
  BY WantedIs DEF LOCK, LocksInv, WaitersInv, WaitersType
<1>2. Lock(c, r) \in Locks /\ Lock(c, r).owner = c /\ Fresh(c, Lock(c, r))
  BY <1>1, NewLock DEF LocksInv
<1>3. CASE /\ Blocking(Lock(c, r)) = {} /\ Grant(Lock(c, r))
           /\ request' = [request EXCEPT ![c] = NoLock]
  <2>1. Service!Grant(c, r)
    BY <1>2, <1>3, GrantImplements, RequestOfLock
  <2>2. request' = request
    BY <1>1, <1>3 DEF LocksInv, WaitersInv, WaitersType
  <2>3. QED
    BY <1>1, <2>1, <2>2, WantedKept DEF Service!Ask
<1>4. CASE /\ Blocking(Lock(c, r)) # {} /\ UNCHANGED <<regions, answer>>
           /\ request' = [request EXCEPT ![c] = Lock(c, r)]
  <2>1. Service!Blocked(r)
    BY <1>4, BlockedAgrees, RequestOfLock DEF LocksInv
  <2>2. Wanted' = [Wanted EXCEPT ![c] = r]
    <3>1. \A d \in Clients : request'[d] = IF d = c THEN Lock(c, r) ELSE request[d]
      BY <1>4 DEF LocksInv, WaitersInv, WaitersType
    <3>2. Lock(c, r) # NoLock /\ [type |-> Lock(c, r).type, area |-> Lock(c, r).area] = r
      BY <1>2, NoLockAssumption, RequestOfLock DEF RequestOf
    <3>3. QED
      BY <3>1, <3>2 DEF Wanted
  <2>3. QED
    BY <1>1, <1>4, <2>1, <2>2, HeldKept DEF Service!Ask
<1>5. QED
  BY <1>1, <1>3, <1>4 DEF GrantOrWait, First

(* A client that is woken in vain waits again: nothing shows. *)
LEMMA RecheckImplements ==
  ASSUME LocksInv, NEW c \in Clients, Recheck(c)
  PROVE  Service!Obtain(c) \/ UNCHANGED <<Held, Wanted, answer>>
<1>1. /\ pc[c] = "woken" /\ GrantOrWait(c, request[c])
      /\ request[c] \in Locks /\ request[c] # NoLock /\ request[c].owner = c
  BY DEF Recheck, LocksInv, WaitersInv, WaitersType
<1>2. CASE /\ Blocking(request[c]) = {} /\ Grant(request[c])
           /\ request' = [request EXCEPT ![c] = NoLock]
  <2>1. Fresh(c, request[c])
    BY <1>1 DEF LocksInv, IdsInv, UniqueIds, Fresh
  <2>2. Wanted[c] = RequestOf(request[c])
    BY <1>1, WantedIs
  <2>3. Service!Grant(c, Wanted[c])
    BY <1>1, <1>2, <2>1, <2>2, GrantImplements
  <2>4. Wanted[c] # NoRequest
    BY <1>1, <2>2, LocksAssumption DEF RequestOf, Locks, LocksAssumption
  <2>5. Wanted' = [Wanted EXCEPT ![c] = NoRequest]
    <3>1. \A d \in Clients : request'[d] = IF d = c THEN NoLock ELSE request[d]
      BY <1>2 DEF LocksInv, WaitersInv, WaitersType
    <3>2. QED
      BY <3>1 DEF Wanted
  <2>6. QED
    BY <2>3, <2>4, <2>5 DEF Service!Obtain
<1>3. CASE UNCHANGED <<regions, answer>> /\ request' = [request EXCEPT ![c] = request[c]]
  <2>1. request' = request
    BY <1>3 DEF LocksInv, WaitersInv, WaitersType
  <2>2. QED
    BY <1>3, <2>1, HeldKept, WantedKept
<1>4. QED
  BY <1>1, <1>2, <1>3 DEF GrantOrWait

LEMMA UNLOCKImplements ==
  ASSUME LocksInv, NEW c \in Clients, NEW id \in Ids, UNLOCK(c, id)
  PROVE  Service!Release(c, id)
<1> DEFINE mine == {l \in Held : l.id = id /\ l.owner = c}
<1>1. Wanted[c] = NoRequest /\ UNCHANGED Wanted
  BY WantedIs, WantedKept DEF UNLOCK
<1>2. Found(c, id) = {s \in Slots : /\ Active(s)
                                   /\ regions[s].lock.id = id /\ regions[s].lock.owner = c}
  BY SeenAll DEF Found, LocksInv, TableInv, ActiveSlots
<1>3. CASE Found(c, id) = {} /\ answer' = "failed" /\ UNCHANGED regions
  <2>1. mine = {}
    BY <1>2, <1>3 DEF Held
  <2>2. QED
    BY <1>1, <1>3, <2>1, HeldKept DEF Service!Release
<1>4. CASE \E s \in Slots : /\ First(Found(c, id), s) /\ Put(s, FALSE, regions[s].lock)
                            /\ answer' = "ok"
  <2>1. PICK s \in Slots : /\ First(Found(c, id), s) /\ Put(s, FALSE, regions[s].lock)
                          /\ answer' = "ok"
    BY <1>4
  <2>2. Active(s) /\ regions[s].lock.id = id /\ regions[s].lock.owner = c
    BY <1>2, <2>1 DEF First
  <2>3. /\ ~ Active(s)'
        /\ \A t \in Slots \ {s} : Active(t)' = Active(t) /\ regions'[t] = regions[t]
    BY <2>1, <2>2, LettingGoKeepsTable DEF LocksInv
  <2>4. regions[s].lock \in mine
    BY <2>2 DEF Held
  <2>5. \A t \in Slots : Active(t) /\ regions[t].lock.id = id => t = s
    BY <2>2 DEF LocksInv, IdsInv, UniqueIds
  <2>6. Held' = Held \ mine
    <3>1. ASSUME NEW k \in Held' PROVE k \in Held \ mine
      <4>1. PICK t \in Slots : Active(t)' /\ k = regions'[t].lock
        BY <3>1 DEF Held
      <4>2. t # s /\ Active(t) /\ k = regions[t].lock
        BY <2>3, <4>1
      <4>3. QED
        BY <2>5, <4>2 DEF Held
    <3>2. ASSUME NEW k \in Held \ mine PROVE k \in Held'
      <4>1. PICK t \in Slots : Active(t) /\ k = regions[t].lock
        BY <3>2 DEF Held
      <4>2. t # s
        BY <2>4, <3>2, <4>1
      <4>3. QED
        BY <2>3, <4>1, <4>2 DEF Held
    <3>3. QED
      BY <3>1, <3>2
  <2>7. QED
    BY <1>1, <2>1, <2>4, <2>6 DEF Service!Release
<1>5. QED
  BY <1>3, <1>4 DEF UNLOCK

(* A client that ends as it waits vanishes; the end of another one does    *)
(* not show.                                                               *)
LEMMA EndImplements ==
  ASSUME LocksInv, NEW c \in Clients, End(c)
  PROVE  Service!Vanish(c) \/ UNCHANGED <<Held, Wanted, answer>>
<1>1. /\ request' = [request EXCEPT ![c] = NoLock]
      /\ UNCHANGED <<Held, answer>>
      /\ request \in [Clients -> Locks \cup {NoLock}]
  BY HeldKept DEF End, LocksInv, WaitersInv, WaitersType
<1>2. CASE request[c] = NoLock
  <2>1. request' = request
    BY <1>1, <1>2
  <2>2. QED
    BY <1>1, <2>1, WantedKept
<1>3. CASE request[c] # NoLock
  <2>1. request[c] \in Locks
    BY <1>1, <1>3
  <2>2. Wanted[c] # NoRequest
    BY <1>3, <2>1, LocksAssumption DEF Wanted, Locks, LocksAssumption
  <2>3. Wanted' = [Wanted EXCEPT ![c] = NoRequest]
    <3>1. \A d \in Clients : request'[d] = IF d = c THEN NoLock ELSE request[d]
      BY <1>1
    <3>2. QED
      BY <3>1 DEF Wanted
  <2>4. QED
    BY <1>1, <2>2, <2>3 DEF Service!Vanish
<1>4. QED
  BY <1>2, <1>3

LEMMA NextImplements ==
  ASSUME LocksInv, LocksInv', [Next]_vars
  PROVE  [Service!Next]_(Service!vars)
<1>1. CASE UNCHANGED vars
  BY <1>1, HeldKept, WantedKept DEF vars, Service!vars
<1>2. ASSUME NEW c \in Clients, SpuriousWake(c)
      PROVE  UNCHANGED <<Held, Wanted, answer>>
  BY <1>2, HeldKept, WantedKept DEF SpuriousWake
<1>3. ASSUME NEW c \in Clients, Leave(c) \/ Killed(c)
      PROVE  Service!Vanish(c) \/ UNCHANGED <<Held, Wanted, answer>>
  BY <1>3, EndImplements DEF Leave, Killed
<1>4. CASE Next
  BY <1>2, <1>3, <1>4, TRYLOCKImplements, LOCKImplements, RecheckImplements, UNLOCKImplements
     DEF Next, Service!Next, Service!vars
<1>5. QED
  BY <1>1, <1>4

LEMMA InitImplements == Init => Service!Init
BY DEF Init, Service!Init, Held, Wanted, Active

(* For every order of the commands of all clients the server grants,       *)
(* refuses, makes wait and releases as the abstract map of locks does      *)
(* (hw2.cpp:541-788).                                                      *)
THEOREM ServerImplementsLockedMap == Spec => ImplementsLockedMap
<1>1. LocksInv /\ LocksInv' /\ [Next]_vars => [Service!Next]_(Service!vars)
  BY NextImplements
<1>2. QED
  BY <1>1, InitImplements, LocksAlways, PTL DEF Spec, ImplementsLockedMap, Service!Spec

-----------------------------------------------------------------------------
(* Recursion over the numbers, for the loops of the listings (the lemmas   *)
(* that MessageBoardProofs has for the loops of SEND)                      *)

(* A set of numbers has a least one. *)
LEMMA Smallest ==
  ASSUME NEW S \in SUBSET Nat, S # {}
  PROVE  \E m \in S : \A n \in S : m <= n
<1> DEFINE Below == {0 .. n : n \in S}
<1>1. ASSUME NEW n \in S PROVE 0 .. n \in FiniteSubsetsOf(Nat)
  <2>1. IsFiniteSet(0 .. n)
    BY FS_Interval
  <2>2. QED
    BY <2>1 DEF FiniteSubsetsOf
<1>2. PICK A \in Below : \A B \in Below : ~ (<<B, A>> \in StrictSubsetOrdering(Nat))
  <2>1. Below # {}
    OBVIOUS
  <2>2. Below \subseteq FiniteSubsetsOf(Nat)
    BY <1>1
  <2>3. IsWellFoundedOn(StrictSubsetOrdering(Nat), FiniteSubsetsOf(Nat))
    BY FS_StrictSubsetOrderingWellFounded
  <2> HIDE DEF Below
  <2>4. QED
    BY <2>1, <2>2, <2>3, WFMin
<1>3. PICK m \in S : A = 0 .. m
  BY <1>2
<1>4. ASSUME NEW n \in S PROVE m <= n
  <2>1. ~ (<<0 .. n, 0 .. m>> \in StrictSubsetOrdering(Nat))
    BY <1>2, <1>3
  <2>2. (0 .. n \subseteq 0 .. m) => 0 .. n = 0 .. m
    BY <2>1 DEF StrictSubsetOrdering
  <2>3. QED
    BY <2>2
<1>5. QED
  BY <1>4

(* Induction: a set that holds 0 and, with a number, the next one, holds   *)
(* them all.                                                               *)
LEMMA AllNumbers ==
  ASSUME NEW S, 0 \in S, \A n \in Nat : n \in S => n + 1 \in S
  PROVE  Nat \subseteq S
<1> SUFFICES ASSUME Nat \ S # {} PROVE FALSE
  OBVIOUS
<1>1. PICK m \in Nat \ S : \A n \in Nat \ S : m <= n
  BY Smallest
<1>2. m - 1 \in Nat /\ m - 1 \in S
  BY <1>1
<1>3. QED
  BY <1>1, <1>2

(* The first n rounds of it. *)
IsRun(X, x, F, h, n) ==
  /\ h \in [0 .. n -> X]
  /\ h[0] = x
  /\ \A k \in 0 .. n - 1 : h[k + 1] = F[k + 1][h[k]]

(* The values of a recursion over the numbers: from x, round n applies     *)
(* F[n].                                                                   *)
AreRounds(X, x, F, g) ==
  /\ g \in [Nat -> X]
  /\ g[0] = x
  /\ \A n \in Nat : g[n + 1] = F[n + 1][g[n]]

(* A value for every number of rounds exists: runs of every length do, and *)
(* two of them agree where both are defined.                               *)
LEMMA RoundsExist ==
  ASSUME NEW X, NEW x \in X, NEW F \in [Nat -> [X -> X]]
  PROVE  \E g : AreRounds(X, x, F, g)
<1> DEFINE Run(h, n) == IsRun(X, x, F, h, n)
           Reached == {n \in Nat : \E h : Run(h, n)}
<1>1. Nat \subseteq Reached
  <2>1. 0 \in Reached
    <3>1. Run([k \in 0 .. 0 |-> x], 0)
      BY DEF IsRun
    <3>2. QED
      BY <3>1
  <2>2. ASSUME NEW n \in Nat, n \in Reached PROVE n + 1 \in Reached
    <3>1. PICK h : Run(h, n)
      BY <2>2
    <3> DEFINE longer == [k \in 0 .. n + 1 |-> IF k <= n THEN h[k] ELSE F[n + 1][h[n]]]
    <3>2. h[n] \in X
      BY <3>1 DEF IsRun
    <3>3. F[n + 1][h[n]] \in X
      BY <3>2
    <3>4. longer \in [0 .. n + 1 -> X]
      BY <3>1, <3>3 DEF IsRun
    <3>5. \A k \in 0 .. n : longer[k + 1] = F[k + 1][longer[k]]
      BY <3>1 DEF IsRun
    <3>6. Run(longer, n + 1)
      BY <3>1, <3>4, <3>5 DEF IsRun
    <3>7. QED
      BY <3>6
  <2> HIDE DEF Reached
  <2>3. QED
    BY <2>1, <2>2, AllNumbers
<1> DEFINE Agree == {k \in Nat : \A m, n \in Nat : \A h, j :
                       k <= m /\ k <= n /\ Run(h, m) /\ Run(j, n) => h[k] = j[k]}
<1>2. Nat \subseteq Agree
  <2>1. 0 \in Agree
    BY DEF IsRun
  <2>2. ASSUME NEW k \in Nat, k \in Agree PROVE k + 1 \in Agree
    <3> SUFFICES ASSUME NEW m \in Nat, NEW n \in Nat, NEW h, NEW j,
                        k + 1 <= m, k + 1 <= n, Run(h, m), Run(j, n)
                 PROVE  h[k + 1] = j[k + 1]
      OBVIOUS
    <3>1. h[k] = j[k]
      BY <2>2
    <3>2. h[k + 1] = F[k + 1][h[k]] /\ j[k + 1] = F[k + 1][j[k]]
      BY DEF IsRun
    <3>3. QED
      BY <3>1, <3>2
  <2> HIDE DEF Agree
  <2>3. QED
    BY <2>1, <2>2, AllNumbers
<1> DEFINE run(n) == CHOOSE h : Run(h, n)
           g == [n \in Nat |-> run(n)[n]]
<1>3. \A n \in Nat : Run(run(n), n)
  BY <1>1
<1>4. g \in [Nat -> X]
  <2>1. ASSUME NEW n \in Nat PROVE run(n)[n] \in X
    <3>1. Run(run(n), n)
      BY <1>3
    <3> HIDE DEF run
    <3>2. QED
      BY <3>1 DEF IsRun
  <2> HIDE DEF run
  <2>2. QED
    BY <2>1
<1>5. g[0] = x
  BY <1>3 DEF IsRun
<1>6. ASSUME NEW n \in Nat PROVE g[n + 1] = F[n + 1][g[n]]
  <2>1. Run(run(n + 1), n + 1) /\ Run(run(n), n)
    BY <1>3
  <2> HIDE DEF run
  <2>2. run(n + 1)[n + 1] = F[n + 1][run(n + 1)[n]]
    BY <2>1 DEF IsRun
  <2>3. run(n + 1)[n] = run(n)[n]
    <3>1. n \in Agree
      BY <1>2
    <3>2. QED
      BY <2>1, <3>1
  <2>4. QED
    BY <2>2, <2>3
<1>7. QED
  BY <1>4, <1>5, <1>6 DEF AreRounds

-----------------------------------------------------------------------------
(* The order of the listings *)

(* On these locks the order that sortVector uses is a strict order: no     *)
(* lock comes before itself, and it is transitive.                         *)
Ordered(withID, S) ==
  /\ \A l \in S : ~ Before(withID, l, l)
  /\ \A l, m, n \in S : Before(withID, l, m) /\ Before(withID, m, n) => Before(withID, l, n)

Numbers == [1 .. 5 -> Int]

(* What Precedes says of five numbers, one after the other. *)
Smaller(k, m) ==
  \/ k[1] < m[1]
  \/ k[1] = m[1] /\ k[2] < m[2]
  \/ k[1] = m[1] /\ k[2] = m[2] /\ k[3] < m[3]
  \/ k[1] = m[1] /\ k[2] = m[2] /\ k[3] = m[3] /\ k[4] < m[4]
  \/ k[1] = m[1] /\ k[2] = m[2] /\ k[3] = m[3] /\ k[4] = m[4] /\ k[5] < m[5]

LEMMA PrecedesIsSmaller ==
  ASSUME NEW k \in Numbers, NEW m \in Numbers
  PROVE  Precedes(k, m) <=> Smaller(k, m)
<1> DEFINE Same(i) == \A j \in 1 .. i - 1 : k[j] = m[j]
<1>1. \A i : i \in 1 .. 5 <=> i = 1 \/ i = 2 \/ i = 3 \/ i = 4 \/ i = 5
  OBVIOUS
<1>2. /\ Same(1)
      /\ Same(2) <=> k[1] = m[1]
      /\ Same(3) <=> k[1] = m[1] /\ k[2] = m[2]
      /\ Same(4) <=> k[1] = m[1] /\ k[2] = m[2] /\ k[3] = m[3]
      /\ Same(5) <=> k[1] = m[1] /\ k[2] = m[2] /\ k[3] = m[3] /\ k[4] = m[4]
  <2>1. /\ \A j : ~ (j \in 1 .. 1 - 1)
        /\ \A j : j \in 1 .. 2 - 1 <=> j = 1
        /\ \A j : j \in 1 .. 3 - 1 <=> j = 1 \/ j = 2
        /\ \A j : j \in 1 .. 4 - 1 <=> j = 1 \/ j = 2 \/ j = 3
        /\ \A j : j \in 1 .. 5 - 1 <=> j = 1 \/ j = 2 \/ j = 3 \/ j = 4
    OBVIOUS
  <2>2. QED
    BY ONLY <2>1, Zenon
<1>3. Precedes(k, m) <=> \E i \in 1 .. 5 : k[i] < m[i] /\ Same(i)
  BY DEF Precedes, Numbers
<1> HIDE DEF Same
<1>4. Precedes(k, m) <=>
        \/ k[1] < m[1] /\ Same(1)
        \/ k[2] < m[2] /\ Same(2)
        \/ k[3] < m[3] /\ Same(3)
        \/ k[4] < m[4] /\ Same(4)
        \/ k[5] < m[5] /\ Same(5)
  BY <1>1, <1>3, Zenon
<1>5. QED
  BY <1>2, <1>4, Zenon DEF Smaller

LEMMA PrecedesIsStrict ==
  ASSUME NEW k \in Numbers
  PROVE  ~ Precedes(k, k)
BY PrecedesIsSmaller DEF Smaller, Numbers

LEMMA PrecedesIsTransitive ==
  ASSUME NEW k \in Numbers, NEW m \in Numbers, NEW n \in Numbers,
         Precedes(k, m), Precedes(m, n)
  PROVE  Precedes(k, n)
<1>1. Smaller(k, m) /\ Smaller(m, n)
  BY PrecedesIsSmaller
<1>2. \A i \in {1, 2, 3, 4, 5} : k[i] \in Int /\ m[i] \in Int /\ n[i] \in Int
  BY DEF Numbers
<1>3. Smaller(k, n)
  BY ONLY <1>1, <1>2 DEF Smaller
<1>4. QED
  BY <1>3, PrecedesIsSmaller

Typed(S) == \A l \in S : l.area \in Rectangle /\ l.type \in {"read", "write"}

LEMMA KeyNumbers ==
  ASSUME NEW S, Typed(S), NEW l \in S
  PROVE  Key(l) \in Numbers
<1>1. /\ l.area.left \in Int /\ l.area.top \in Int
      /\ Width(l.area) \in Int /\ Height(l.area) \in Int /\ TypeNumber(l) \in Int
  BY DEF Typed, Rectangle, Width, Height, TypeNumber
<1>2. QED
  BY <1>1 DEF Key, Numbers

(* The long condition of sortVector is the lexicographic order of x, y,    *)
(* width, height and type: it misses no case and has none too many.        *)
LEMMA LesserIsPrecedes ==
  ASSUME NEW S, Typed(S), NEW l \in S, NEW m \in S
  PROVE  Lesser(l, m) <=> Precedes(Key(l), Key(m))
<1> DEFINE a == l.area
           b == m.area
<1>1. a \in Rectangle /\ b \in Rectangle
  BY DEF Typed
<1>2. a = b <=> a.left = b.left /\ a.top = b.top /\ Width(a) = Width(b) /\ Height(a) = Height(b)
  BY <1>1 DEF Rectangle, Width, Height
<1>3. /\ Key(l)[1] = a.left /\ Key(m)[1] = b.left
      /\ Key(l)[2] = a.top /\ Key(m)[2] = b.top
      /\ Key(l)[3] = Width(a) /\ Key(m)[3] = Width(b)
      /\ Key(l)[4] = Height(a) /\ Key(m)[4] = Height(b)
      /\ Key(l)[5] = TypeNumber(l) /\ Key(m)[5] = TypeNumber(m)
  BY DEF Key
<1>4. Lesser(l, m) <=>
        \/ a.left < b.left
        \/ a.left = b.left /\ a.top < b.top
        \/ a.left = b.left /\ a.top = b.top /\ Width(a) < Width(b)
        \/ /\ a.left = b.left /\ a.top = b.top /\ Width(a) = Width(b)
           /\ Height(a) < Height(b)
        \/ a = b /\ TypeNumber(l) < TypeNumber(m)
  BY DEF Lesser
<1> HIDE DEF a, b
<1>5. Lesser(l, m) <=> Smaller(Key(l), Key(m))
  BY <1>2, <1>3, <1>4, Zenon DEF Smaller
<1>6. QED
  BY <1>5, KeyNumbers, PrecedesIsSmaller

LEMMA AreaOrdered ==
  ASSUME NEW S, Typed(S)
  PROVE  Ordered(FALSE, S)
<1>1. ASSUME NEW l \in S, NEW m \in S
      PROVE  Before(FALSE, l, m) <=> Precedes(Key(l), Key(m))
  BY LesserIsPrecedes DEF Before
<1>2. \A l \in S : Key(l) \in Numbers
  BY KeyNumbers
<1>3. QED
  BY <1>1, <1>2, PrecedesIsStrict, PrecedesIsTransitive DEF Ordered

LEMMA IdOrdered ==
  ASSUME NEW S, \A l \in S : l.id \in Int
  PROVE  Ordered(TRUE, S)
BY DEF Ordered, Before

-----------------------------------------------------------------------------
(* sortVector *)

(* ind[i] is what the loop over regs has found after i locks. *)
LeastLoop(withID, regs, ind) ==
  /\ ind[0] = 0
  /\ \A i \in Nat :
       ind[i + 1] = IF ind[i] = 0 \/ Before(withID, regs[i + 1], regs[ind[i]])
                    THEN i + 1 ELSE ind[i]
  /\ Least(withID, regs) = ind[Len(regs)]

LEMMA LeastRounds ==
  ASSUME NEW withID, NEW regs
  PROVE  \E ind : LeastLoop(withID, regs, ind)
<1> DEFINE F == [i \in Nat |-> [y \in Nat |->
                  IF y = 0 \/ Before(withID, regs[i], regs[y]) THEN i ELSE y]]
           IsLoop(g) == g = [i \in Nat |->
                  IF i = 0 THEN 0
                  ELSE IF g[i - 1] = 0 \/ Before(withID, regs[i], regs[g[i - 1]])
                       THEN i ELSE g[i - 1]]
           ind == CHOOSE g : IsLoop(g)
<1>1. F \in [Nat -> [Nat -> Nat]]
  OBVIOUS
<1>2. PICK g : AreRounds(Nat, 0, F, g)
  <2> HIDE DEF F
  <2>1. QED
    BY <1>1, RoundsExist
<1>3. IsLoop(g)
  <2>1. ASSUME NEW i \in Nat, i # 0
        PROVE  g[i] = IF g[i - 1] = 0 \/ Before(withID, regs[i], regs[g[i - 1]])
                      THEN i ELSE g[i - 1]
    <3>1. i - 1 \in Nat /\ (i - 1) + 1 = i
      BY <2>1
    <3>2. g[i] = F[i][g[i - 1]] /\ g[i - 1] \in Nat
      BY <1>2, <3>1 DEF AreRounds
    <3>3. QED
      BY <3>1, <3>2
  <2> HIDE DEF F
  <2>2. QED
    BY <1>2, <2>1 DEF AreRounds
<1>4. IsLoop(ind)
  <2> HIDE DEF IsLoop
  <2>1. QED
    BY <1>3
<1>5. Least(withID, regs) = ind[Len(regs)]
  BY DEF Least
<1> HIDE DEF ind
<1>6. ind[0] = 0
  BY <1>4
<1>7. ASSUME NEW i \in Nat
      PROVE  ind[i + 1] = IF ind[i] = 0 \/ Before(withID, regs[i + 1], regs[ind[i]])
                          THEN i + 1 ELSE ind[i]
  <2>1. i + 1 \in Nat /\ (i + 1) - 1 = i /\ i + 1 # 0
    OBVIOUS
  <2>2. ind[i + 1] = IF ind[(i + 1) - 1] = 0
                        \/ Before(withID, regs[i + 1], regs[ind[(i + 1) - 1]])
                     THEN i + 1 ELSE ind[(i + 1) - 1]
    BY <1>4, <2>1
  <2>3. QED
    BY <2>1, <2>2
<1>8. QED
  BY <1>5, <1>6, <1>7 DEF LeastLoop

(* The loop finds a lock that none of the others comes before. *)
LEMMA LeastIsLeast ==
  ASSUME NEW withID, NEW S, Ordered(withID, S), NEW regs \in Seq(S), regs # << >>
  PROVE  /\ Least(withID, regs) \in 1 .. Len(regs)
         /\ \A j \in 1 .. Len(regs) : ~ Before(withID, regs[j], regs[Least(withID, regs)])
<1>1. PICK ind : LeastLoop(withID, regs, ind)
  BY LeastRounds
<1>2. /\ Len(regs) \in Nat /\ Len(regs) # 0
      /\ \A j \in 1 .. Len(regs) : regs[j] \in S
  BY ElementOfSeq, EmptySeq
<1> DEFINE Right(i) == /\ ind[i] \in 1 .. i
                       /\ \A j \in 1 .. i : ~ Before(withID, regs[j], regs[ind[i]])
           Told == {i \in Nat : i \in 1 .. Len(regs) => Right(i)}
<1>3. Nat \subseteq Told
  <2>1. 0 \in Told
    OBVIOUS
  <2>2. ASSUME NEW i \in Nat, i \in Told PROVE i + 1 \in Told
    <3> SUFFICES ASSUME i + 1 \in 1 .. Len(regs) PROVE Right(i + 1)
      OBVIOUS
    <3>1. ind[i + 1] = IF ind[i] = 0 \/ Before(withID, regs[i + 1], regs[ind[i]])
                       THEN i + 1 ELSE ind[i]
      BY <1>1 DEF LeastLoop
    <3>2. regs[i + 1] \in S /\ ~ Before(withID, regs[i + 1], regs[i + 1])
      BY <1>2 DEF Ordered
    <3>3. CASE i = 0
      <4>1. ind[i + 1] = 1 /\ i + 1 = 1
        BY <1>1, <3>1, <3>3 DEF LeastLoop
      <4>2. QED
        BY <3>2, <4>1
    <3>4. CASE i # 0
      <4>1. i \in 1 .. Len(regs) /\ Right(i)
        BY <2>2, <3>4, <1>2
      <4>2. ind[i] \in 1 .. Len(regs) /\ ind[i] # 0 /\ regs[ind[i]] \in S
        BY <4>1, <1>2
      <4>3. CASE Before(withID, regs[i + 1], regs[ind[i]])
        <5>1. ind[i + 1] = i + 1
          BY <3>1, <4>3
        <5>2. ASSUME NEW j \in 1 .. i PROVE ~ Before(withID, regs[j], regs[i + 1])
          <6>1. regs[j] \in S /\ ~ Before(withID, regs[j], regs[ind[i]])
            BY <1>2, <4>1
          <6>2. QED
            BY <3>2, <4>2, <4>3, <6>1 DEF Ordered
        <5>3. QED
          BY <3>2, <5>1, <5>2
      <4>4. CASE ~ Before(withID, regs[i + 1], regs[ind[i]])
        <5>1. ind[i + 1] = ind[i]
          BY <3>1, <4>2, <4>4
        <5>2. QED
          BY <4>1, <4>4, <5>1
      <4>5. QED
        BY <4>3, <4>4
    <3>5. QED
      BY <3>3, <3>4
  <2> HIDE DEF Told
  <2>3. QED
    BY <2>1, <2>2, AllNumbers
<1>4. Right(Len(regs))
  BY <1>2, <1>3
<1>5. QED
  BY <1>1, <1>4 DEF LeastLoop

(* Taking one lock out of what is left. *)
LEMMA RemovedAt ==
  ASSUME NEW S, NEW regs \in Seq(S), NEW ind \in 1 .. Len(regs)
  PROVE  /\ RemoveAt(regs, ind) \in Seq(S)
         /\ Len(RemoveAt(regs, ind)) = Len(regs) - 1
         /\ \A j \in 1 .. Len(regs) - 1 :
              RemoveAt(regs, ind)[j] = IF j < ind THEN regs[j] ELSE regs[j + 1]
<1> DEFINE n == Len(regs)
           before == SubSeq(regs, 1, ind - 1)
           behind == SubSeq(regs, ind + 1, n)
<1>1. n \in Nat /\ ind \in Nat
  BY LenProperties
<1>2. /\ before \in Seq(S)
      /\ Len(before) = ind - 1
      /\ \A j \in 1 .. ind - 1 : before[j] = regs[j]
  BY <1>1
<1>3. /\ behind \in Seq(S)
      /\ Len(behind) = n - ind
      /\ \A j \in 1 .. n - ind : behind[j] = regs[ind + j]
  BY <1>1
<1>4. RemoveAt(regs, ind) = before \o behind
  BY DEF RemoveAt
<1> HIDE DEF before, behind
<1>5. /\ before \o behind \in Seq(S)
      /\ Len(before \o behind) = Len(before) + Len(behind)
      /\ \A j \in 1 .. Len(before) + Len(behind) :
           (before \o behind)[j] = IF j <= Len(before) THEN before[j] ELSE behind[j - Len(before)]
  BY <1>2, <1>3, ConcatProperties
<1>6. ASSUME NEW j \in 1 .. n - 1
      PROVE  (before \o behind)[j] = IF j < ind THEN regs[j] ELSE regs[j + 1]
  <2>1. CASE j < ind
    <3>1. j \in 1 .. ind - 1
      BY <1>1, <2>1
    <3>2. QED
      BY <1>1, <1>2, <1>3, <1>5, <2>1, <3>1
  <2>2. CASE ~ (j < ind)
    <3>1. j - (ind - 1) \in 1 .. n - ind /\ ind + (j - (ind - 1)) = j + 1 /\ ~ (j <= ind - 1)
      BY <1>1, <2>2
    <3>2. j \in 1 .. Len(before) + Len(behind)
      BY <1>1, <1>2, <1>3
    <3>3. (before \o behind)[j] = behind[j - (ind - 1)]
      BY <1>2, <1>5, <3>1, <3>2
    <3>4. behind[j - (ind - 1)] = regs[j + 1]
      BY <1>3, <3>1
    <3>5. QED
      BY <2>2, <3>3, <3>4
  <2>3. QED
    BY <2>1, <2>2
<1>7. QED
  BY <1>1, <1>2, <1>3, <1>4, <1>5, <1>6

(* round[k] is what sortVector has after k rounds. *)
SortLoop(withID, regs, round) ==
  /\ round[0] = [left |-> regs, result |-> << >>]
  /\ \A k \in Nat : round[k + 1] = MoveLeast(withID, round[k])
  /\ sortVector(withID, regs) = round[Len(regs)].result

LEMMA MoveLeastType ==
  ASSUME NEW withID, NEW S, Ordered(withID, S), NEW r \in [left : Seq(S), result : Seq(S)]
  PROVE  MoveLeast(withID, r) \in [left : Seq(S), result : Seq(S)]
<1> DEFINE ind == Least(withID, r.left)
<1>1. r.left \in Seq(S) /\ r.result \in Seq(S)
  OBVIOUS
<1>2. CASE r.left = << >>
  BY <1>2 DEF MoveLeast
<1>3. CASE r.left # << >>
  <2>1. ind \in 1 .. Len(r.left)
    BY <1>1, <1>3, LeastIsLeast
  <2> HIDE DEF ind
  <2>2. RemoveAt(r.left, ind) \in Seq(S)
    BY <1>1, <2>1, RemovedAt
  <2>3. r.left[ind] \in S
    BY <1>1, <2>1, ElementOfSeq
  <2>4. Append(r.result, r.left[ind]) \in Seq(S)
    BY <1>1, <2>3, AppendProperties
  <2>5. MoveLeast(withID, r)
          = [left |-> RemoveAt(r.left, ind), result |-> Append(r.result, r.left[ind])]
    BY <1>3 DEF MoveLeast, ind
  <2>6. QED
    BY <2>2, <2>4, <2>5
<1>4. QED
  BY <1>2, <1>3

LEMMA SortRounds ==
  ASSUME NEW withID, NEW S, Ordered(withID, S), NEW regs \in Seq(S)
  PROVE  \E round : SortLoop(withID, regs, round)
<1> DEFINE X == [left : Seq(S), result : Seq(S)]
           x == [left |-> regs, result |-> << >>]
           F == [k \in Nat |-> [r \in X |-> MoveLeast(withID, r)]]
           IsLoop(g) == g = [k \in Nat |-> IF k = 0 THEN x ELSE MoveLeast(withID, g[k - 1])]
           round == CHOOSE g : IsLoop(g)
<1>1. x \in X
  BY EmptySeq
<1>2. F \in [Nat -> [X -> X]]
  <2>1. \A r \in X : MoveLeast(withID, r) \in X
    BY MoveLeastType
  <2> HIDE DEF X
  <2>2. QED
    BY <2>1
<1> HIDE DEF X, x
<1>3. PICK g : AreRounds(X, x, F, g)
  <2> HIDE DEF F
  <2>1. QED
    BY <1>1, <1>2, RoundsExist
<1>4. IsLoop(g)
  <2>1. ASSUME NEW k \in Nat, k # 0 PROVE g[k] = MoveLeast(withID, g[k - 1])
    <3>1. k - 1 \in Nat /\ (k - 1) + 1 = k
      BY <2>1
    <3>2. g[k] = F[k][g[k - 1]] /\ g[k - 1] \in X
      BY <1>3, <3>1 DEF AreRounds
    <3>3. QED
      BY <3>1, <3>2
  <2> HIDE DEF F
  <2>2. QED
    BY <1>3, <2>1 DEF AreRounds
<1>5. IsLoop(round)
  <2> HIDE DEF IsLoop
  <2>1. QED
    BY <1>4
<1>6. sortVector(withID, regs) = round[Len(regs)].result
  BY DEF sortVector, x
<1> HIDE DEF round
<1>7. round[0] = x
  BY <1>5
<1>8. ASSUME NEW k \in Nat PROVE round[k + 1] = MoveLeast(withID, round[k])
  <2>1. k + 1 \in Nat /\ (k + 1) - 1 = k /\ k + 1 # 0
    OBVIOUS
  <2>2. QED
    BY <1>5, <2>1
<1>9. QED
  BY <1>6, <1>7, <1>8 DEF SortLoop, x

(* No lock of the list comes before an earlier one. *)
InOrder(withID, list) ==
  \A i, j \in 1 .. Len(list) : i < j => ~ Before(withID, list[j], list[i])

(* The function p shows that list has the locks of regs, each as often. *)
Rearranges(p, regs, list) ==
  /\ Len(list) = Len(regs)
  /\ p \in [1 .. Len(regs) -> 1 .. Len(regs)]
  /\ \A i, j \in 1 .. Len(regs) : p[i] = p[j] => i = j
  /\ \A i \in 1 .. Len(regs) : list[i] = regs[p[i]]

(* What holds after k rounds: the result is in order, nothing that is left *)
(* comes before it, and the two together are the locks of regs.            *)
SortedSoFar(withID, S, regs, k, r) ==
  /\ r.left \in Seq(S) /\ Len(r.left) = Len(regs) - k
  /\ r.result \in Seq(S) /\ Len(r.result) = k
  /\ InOrder(withID, r.result)
  /\ \A i \in 1 .. k, j \in 1 .. Len(regs) - k : ~ Before(withID, r.left[j], r.result[i])
  /\ \E p : Rearranges(p, regs, r.result \o r.left)

LEMMA RearrangedByRound ==
  ASSUME NEW S, NEW regs \in Seq(S), NEW k \in Nat, k < Len(regs),
         NEW left \in Seq(S), Len(left) = Len(regs) - k,
         NEW result \in Seq(S), Len(result) = k,
         NEW p, Rearranges(p, regs, result \o left), NEW ind \in 1 .. Len(left)
  PROVE  \E q : Rearranges(q, regs, Append(result, left[ind]) \o RemoveAt(left, ind))
<1> DEFINE n == Len(regs)
           list == result \o left
           taken == Append(result, left[ind])
           rest == RemoveAt(left, ind)
           From(i) == IF i <= k THEN i ELSE IF i = k + 1 THEN k + ind
                      ELSE IF i <= k + ind THEN i - 1 ELSE i
           q == [i \in 1 .. n |-> p[From(i)]]
<1>1. n \in Nat /\ Len(left) = n - k /\ ind \in 1 .. n - k
  BY LenProperties
<1>2. left[ind] \in S
  BY ElementOfSeq
<1>3. /\ taken \in Seq(S)
      /\ Len(taken) = k + 1
      /\ \A i \in 1 .. k : taken[i] = result[i]
      /\ taken[k + 1] = left[ind]
  BY <1>2, AppendProperties
<1>4. /\ rest \in Seq(S)
      /\ Len(rest) = n - k - 1
      /\ \A j \in 1 .. n - k - 1 : rest[j] = IF j < ind THEN left[j] ELSE left[j + 1]
  <2>1. /\ rest \in Seq(S)
        /\ Len(rest) = Len(left) - 1
        /\ \A j \in 1 .. Len(left) - 1 : rest[j] = IF j < ind THEN left[j] ELSE left[j + 1]
    BY RemovedAt
  <2> HIDE DEF rest
  <2>2. QED
    BY <1>1, <2>1
<1>5. /\ Len(list) = n
      /\ \A i \in 1 .. n : list[i] = IF i <= k THEN result[i] ELSE left[i - k]
  BY <1>1, ConcatProperties
<1> HIDE DEF taken, rest
<1>6. /\ Len(taken \o rest) = n
      /\ \A i \in 1 .. n : (taken \o rest)[i] = IF i <= k + 1 THEN taken[i] ELSE rest[i - (k + 1)]
  <2>1. /\ Len(taken \o rest) = Len(taken) + Len(rest)
        /\ \A i \in 1 .. Len(taken) + Len(rest) :
             (taken \o rest)[i] = IF i <= Len(taken) THEN taken[i] ELSE rest[i - Len(taken)]
    BY <1>3, <1>4, ConcatProperties
  <2>2. Len(taken) + Len(rest) = n
    BY <1>1, <1>3, <1>4
  <2>3. QED
    BY <1>3, <2>1, <2>2
<1>7. \A i \in 1 .. n : From(i) \in 1 .. n
  BY <1>1
<1>8. \A i, j \in 1 .. n : From(i) = From(j) => i = j
  BY <1>1
<1>9. ASSUME NEW i \in 1 .. n PROVE (taken \o rest)[i] = list[From(i)]
  <2>1. CASE i <= k
    BY <1>1, <1>3, <1>5, <1>6, <2>1
  <2>2. CASE i = k + 1
    <3>1. From(i) = k + ind /\ From(i) \in 1 .. n /\ ~ (From(i) <= k) /\ From(i) - k = ind
      BY <1>1, <2>2
    <3> HIDE DEF From
    <3>2. QED
      BY <1>3, <1>5, <1>6, <2>2, <3>1
  <2>3. CASE i > k + 1
    <3>1. i - (k + 1) \in 1 .. n - k - 1 /\ ~ (i <= k + 1)
      BY <1>1, <2>3
    <3>2. (taken \o rest)[i] = rest[i - (k + 1)]
      BY <1>6, <3>1
    <3>3. From(i) - k = IF i - (k + 1) < ind THEN i - (k + 1) ELSE (i - (k + 1)) + 1
      BY <1>1, <2>3
    <3>4. From(i) \in 1 .. n /\ ~ (From(i) <= k)
      BY <1>1, <2>3
    <3> HIDE DEF From
    <3>5. QED
      BY <1>4, <1>5, <3>1, <3>2, <3>3, <3>4
  <2>4. i <= k \/ i = k + 1 \/ i > k + 1
    BY ONLY n \in Nat, i \in 1 .. n, k \in Nat, <1>1
  <2> HIDE DEF From, list, n
  <2>5. QED
    BY <2>1, <2>2, <2>3, <2>4, Zenon
<1> HIDE DEF From
<1>10. /\ p \in [1 .. n -> 1 .. n]
       /\ \A i, j \in 1 .. n : p[i] = p[j] => i = j
       /\ \A i \in 1 .. n : list[i] = regs[p[i]]
  BY DEF Rearranges
<1>11. /\ q \in [1 .. n -> 1 .. n]
       /\ \A i, j \in 1 .. n : q[i] = q[j] => i = j
       /\ \A i \in 1 .. n : (taken \o rest)[i] = regs[q[i]]
  <2>1. \A i \in 1 .. n : q[i] = p[From(i)]
    OBVIOUS
  <2>2. q \in [1 .. n -> 1 .. n]
    <3> HIDE DEF n, list
    <3>1. \A i \in 1 .. n : p[From(i)] \in 1 .. n
      BY <1>7, <1>10
    <3>2. QED
      BY <3>1
  <2> HIDE DEF q, n, list
  <2>3. ASSUME NEW i \in 1 .. n, NEW j \in 1 .. n, q[i] = q[j] PROVE i = j
    <3>1. From(i) \in 1 .. n /\ From(j) \in 1 .. n /\ p[From(i)] = p[From(j)]
      BY <1>7, <2>1, <2>3, Zenon
    <3>2. From(i) = From(j)
      BY <1>10, <3>1, Zenon
    <3>3. QED
      BY <1>8, <3>2, Zenon
  <2>4. ASSUME NEW i \in 1 .. n PROVE (taken \o rest)[i] = regs[q[i]]
    <3>1. From(i) \in 1 .. n
      BY <1>7
    <3>2. list[From(i)] = regs[p[From(i)]]
      BY <1>10, <3>1
    <3>3. (taken \o rest)[i] = list[From(i)]
      BY <1>9
    <3>4. q[i] = p[From(i)]
      BY <2>1
    <3>5. QED
      BY <3>2, <3>3, <3>4, Zenon
  <2>5. QED
    BY <2>2, <2>3, <2>4
<1> HIDE DEF q
<1>12. Rearranges(q, regs, taken \o rest)
  BY <1>6, <1>11 DEF Rearranges
<1>13. QED
  BY <1>12 DEF taken, rest

LEMMA SortedByRound ==
  ASSUME NEW withID, NEW S, Ordered(withID, S), NEW regs \in Seq(S), NEW k \in Nat,
         k < Len(regs), NEW r \in [left : Seq(S), result : Seq(S)],
         SortedSoFar(withID, S, regs, k, r)
  PROVE  SortedSoFar(withID, S, regs, k + 1, MoveLeast(withID, r))
<1> DEFINE n == Len(regs)
           left == r.left
           result == r.result
           ind == Least(withID, left)
           taken == Append(result, left[ind])
           rest == RemoveAt(left, ind)
<1>1. /\ left \in Seq(S) /\ Len(left) = n - k
      /\ result \in Seq(S) /\ Len(result) = k
      /\ InOrder(withID, result)
      /\ \A i \in 1 .. k, j \in 1 .. n - k : ~ Before(withID, left[j], result[i])
      /\ n \in Nat
  BY LenProperties DEF SortedSoFar
<1>2. PICK p : Rearranges(p, regs, result \o left)
  BY DEF SortedSoFar
<1>3. left # << >>
  BY <1>1, EmptySeq
<1> HIDE DEF left, result, ind
<1>4. ind \in 1 .. Len(left) /\ \A j \in 1 .. Len(left) : ~ Before(withID, left[j], left[ind])
  BY <1>1, <1>3, LeastIsLeast DEF ind
<1>5. ind \in 1 .. n - k /\ \A j \in 1 .. n - k : ~ Before(withID, left[j], left[ind])
  BY <1>1, <1>4
<1>6. MoveLeast(withID, r) = [left |-> rest, result |-> taken]
  BY <1>3 DEF MoveLeast, left, result, ind
<1>7. /\ taken \in Seq(S)
      /\ Len(taken) = k + 1
      /\ \A i \in 1 .. k : taken[i] = result[i]
      /\ taken[k + 1] = left[ind]
  <2>1. left[ind] \in S
    BY <1>1, <1>4, ElementOfSeq
  <2>2. QED
    BY <1>1, <2>1, AppendProperties
<1>8. /\ rest \in Seq(S)
      /\ Len(rest) = n - (k + 1)
      /\ \A j \in 1 .. n - (k + 1) : \E i \in 1 .. n - k : rest[j] = left[i]
  <2>1. /\ rest \in Seq(S)
        /\ Len(rest) = Len(left) - 1
        /\ \A j \in 1 .. Len(left) - 1 : rest[j] = IF j < ind THEN left[j] ELSE left[j + 1]
    BY <1>1, <1>4, RemovedAt
  <2> HIDE DEF rest
  <2>2. Len(left) - 1 = n - (k + 1)
    BY <1>1
  <2>3. ASSUME NEW j \in 1 .. n - (k + 1)
        PROVE  j \in 1 .. n - k /\ j + 1 \in 1 .. n - k /\ j \in 1 .. Len(left) - 1
    BY <1>1, <2>2
  <2>4. QED
    BY <2>1, <2>2, <2>3
<1>9. \E q : Rearranges(q, regs, taken \o rest)
  BY <1>1, <1>2, <1>4, RearrangedByRound
<1> HIDE DEF taken, rest
<1>10. InOrder(withID, taken)
  <2> SUFFICES ASSUME NEW i \in 1 .. k + 1, NEW j \in 1 .. k + 1, i < j
               PROVE  ~ Before(withID, taken[j], taken[i])
    BY <1>7 DEF InOrder
  <2>1. i \in 1 .. k /\ taken[i] = result[i]
    BY <1>7
  <2>2. CASE j \in 1 .. k
    BY <1>1, <1>7, <2>1, <2>2 DEF InOrder
  <2>3. CASE j = k + 1
    BY <1>1, <1>5, <1>7, <2>1, <2>3
  <2>4. QED
    BY <2>2, <2>3
<1>11. ASSUME NEW i \in 1 .. k + 1, NEW j \in 1 .. n - (k + 1)
       PROVE  ~ Before(withID, rest[j], taken[i])
  <2>1. PICK m \in 1 .. n - k : rest[j] = left[m]
    BY <1>8
  <2>2. CASE i \in 1 .. k
    BY <1>1, <1>7, <2>1, <2>2
  <2>3. CASE i = k + 1
    BY <1>5, <1>7, <2>1, <2>3
  <2>4. QED
    BY <2>2, <2>3
<1>12. SortedSoFar(withID, S, regs, k + 1, [left |-> rest, result |-> taken])
  BY <1>7, <1>8, <1>9, <1>10, <1>11 DEF SortedSoFar
<1>13. QED
  BY <1>6, <1>12

(* sortVector returns the locks it was given, each as often as it was      *)
(* given it, in order.                                                     *)
LEMMA SortVectorSorts ==
  ASSUME NEW withID, NEW S, Ordered(withID, S), NEW regs \in Seq(S)
  PROVE  /\ sortVector(withID, regs) \in Seq(S)
         /\ InOrder(withID, sortVector(withID, regs))
         /\ \E p : Rearranges(p, regs, sortVector(withID, regs))
<1> DEFINE n == Len(regs)
<1>1. PICK round : SortLoop(withID, regs, round)
  BY SortRounds
<1>2. n \in Nat /\ \A i \in 1 .. n : regs[i] \in S
  BY LenProperties, ElementOfSeq
<1> DEFINE Told == {k \in Nat : k <= n =>
                      /\ round[k] \in [left : Seq(S), result : Seq(S)]
                      /\ SortedSoFar(withID, S, regs, k, round[k])}
<1>3. Nat \subseteq Told
  <2>1. 0 \in Told
    <3> DEFINE x == [left |-> regs, result |-> << >>]
    <3>1. round[0] = x
      BY <1>1 DEF SortLoop
    <3>2. << >> \in Seq(S) /\ Len(<< >>) = 0 /\ << >> \o regs = regs
      BY EmptySeq, ConcatEmptySeq
    <3>3. Rearranges([i \in 1 .. n |-> i], regs, regs)
      BY <1>2 DEF Rearranges
    <3>4. InOrder(withID, << >>)
      BY DEF InOrder
    <3>5. \E p : Rearranges(p, regs, << >> \o regs)
      BY <3>2, <3>3
    <3>6. SortedSoFar(withID, S, regs, 0, x)
      BY <1>2, <3>2, <3>4, <3>5 DEF SortedSoFar
    <3>7. x \in [left : Seq(S), result : Seq(S)]
      BY <3>2
    <3> HIDE DEF x
    <3>8. QED
      BY <3>1, <3>6, <3>7
  <2>2. ASSUME NEW k \in Nat, k \in Told PROVE k + 1 \in Told
    <3> SUFFICES ASSUME k + 1 <= n
                 PROVE  /\ round[k + 1] \in [left : Seq(S), result : Seq(S)]
                        /\ SortedSoFar(withID, S, regs, k + 1, round[k + 1])
      OBVIOUS
    <3>1. k < n /\ k <= n
      BY <1>2
    <3>2. round[k + 1] = MoveLeast(withID, round[k])
      BY <1>1 DEF SortLoop
    <3>3. /\ round[k] \in [left : Seq(S), result : Seq(S)]
          /\ SortedSoFar(withID, S, regs, k, round[k])
      BY <2>2, <3>1
    <3>4. QED
      BY <3>1, <3>2, <3>3, MoveLeastType, SortedByRound
  <2> HIDE DEF Told
  <2>3. QED
    BY <2>1, <2>2, AllNumbers
<1>4. n \in Told /\ n <= n
  BY <1>2, <1>3
<1>5. SortedSoFar(withID, S, regs, n, round[n])
  BY <1>4
<1> DEFINE result == round[n].result
           left == round[n].left
<1>6. result = sortVector(withID, regs)
  BY <1>1 DEF SortLoop
<1>7. /\ left \in Seq(S) /\ Len(left) = 0
      /\ result \in Seq(S)
      /\ InOrder(withID, result)
      /\ \E p : Rearranges(p, regs, result \o left)
  BY <1>2, <1>5 DEF SortedSoFar
<1> HIDE DEF result, left
<1>8. result \o left = result
  BY <1>7, EmptySeq, ConcatEmptySeq
<1>9. QED
  BY <1>6, <1>7, <1>8

(* How often the list has the lock l. *)
Times(list, l) == Cardinality({i \in DOMAIN list : list[i] = l})

(* A list that rearranges another has the same locks, each as often. *)
LEMMA RearrangedCounts ==
  ASSUME NEW S, NEW regs \in Seq(S), NEW list \in Seq(S), NEW p, Rearranges(p, regs, list)
  PROVE  /\ ToSet(list) = ToSet(regs)
         /\ \A l : Times(list, l) = Times(regs, l)
<1> DEFINE n == Len(regs)
           D == 1 .. n
           In(l) == {i \in DOMAIN list : list[i] = l}
           Of(l) == {i \in DOMAIN regs : regs[i] = l}
<1>1. /\ n \in Nat /\ Len(list) = n
      /\ DOMAIN list = D /\ DOMAIN regs = D
      /\ p \in [D -> D]
      /\ \A i, j \in D : p[i] = p[j] => i = j
      /\ \A i \in D : list[i] = regs[p[i]]
  BY LenProperties DEF Rearranges
<1>2. IsFiniteSet(D)
  <2>1. 1 \in Int /\ n \in Int
    BY <1>1
  <2> HIDE DEF n
  <2>2. QED
    BY <2>1, FS_Interval
<1> HIDE DEF D, n
<1>3. ASSUME NEW j \in D PROVE \E i \in D : p[i] = j
  <2>1. p \in Injection(D, D)
    BY <1>1 DEF Injection, IsInjective
  <2>2. p \in Surjection(D, D)
    BY <1>2, <2>1, FS_Injection
  <2>3. QED
    BY <2>2 DEF Surjection
<1>4. ToSet(list) = ToSet(regs)
  BY <1>1, <1>3 DEF ToSet
<1>5. ASSUME NEW l PROVE Cardinality(In(l)) = Cardinality(Of(l))
  <2> DEFINE f == [i \in In(l) |-> p[i]]
  <2>1. In(l) \subseteq D /\ \A i : i \in In(l) <=> i \in D /\ list[i] = l
    BY <1>1
  <2>2. \A j : j \in Of(l) <=> j \in D /\ regs[j] = l
    BY <1>1
  <2>3. IsFiniteSet(In(l))
    BY <1>2, <2>1, FS_Subset
  <2> HIDE DEF In, Of
  <2>4. f \in [In(l) -> Of(l)]
    BY <1>1, <2>1, <2>2
  <2>5. \A i, j \in In(l) : f[i] = f[j] => i = j
    BY <1>1, <2>1
  <2>6. \A j \in Of(l) : \E i \in In(l) : f[i] = j
    BY <1>1, <1>3, <2>1, <2>2
  <2> HIDE DEF f
  <2>7. f \in Bijection(In(l), Of(l))
    BY <2>4, <2>5, <2>6 DEF Bijection, Injection, Surjection, IsInjective
  <2>8. ExistsBijection(In(l), Of(l))
    BY <2>7 DEF ExistsBijection
  <2>9. QED
    BY <2>3, <2>8, FS_Bijection
<1>6. QED
  BY <1>4, <1>5 DEF Times

(* The code's order of the locks is the order of their keys. *)
LEMMA InOrderIsSorted ==
  ASSUME NEW S, Typed(S), NEW list \in Seq(S), InOrder(FALSE, list)
  PROVE  Sorted(list)
<1>1. DOMAIN list = 1 .. Len(list) /\ \A i \in 1 .. Len(list) : list[i] \in S
  BY LenProperties, ElementOfSeq
<1> SUFFICES ASSUME NEW i \in 1 .. Len(list), NEW j \in 1 .. Len(list), i < j
             PROVE  ~ Precedes(Key(list[j]), Key(list[i]))
  BY <1>1 DEF Sorted
<1>2. ~ Lesser(list[j], list[i])
  BY DEF InOrder, Before
<1>3. QED
  BY <1>1, <1>2, LesserIsPrecedes

(* Whatever list of locks sortVector is given, it returns the same locks,  *)
(* each as often, ordered by x, y, width, height and type                  *)
(* (hw2.cpp:252-274).                                                      *)
THEOREM SortVectorOrders ==
  ASSUME NEW S, Typed(S), NEW regs \in Seq(S)
  PROVE  /\ Sorted(sortVector(FALSE, regs))
         /\ \A l : Times(sortVector(FALSE, regs), l) = Times(regs, l)
<1> DEFINE result == sortVector(FALSE, regs)
<1>1. Ordered(FALSE, S)
  BY AreaOrdered
<1>2. /\ result \in Seq(S)
      /\ InOrder(FALSE, result)
      /\ \E p : Rearranges(p, regs, result)
  BY <1>1, SortVectorSorts
<1> HIDE DEF result
<1>3. Sorted(result)
  BY <1>2, InOrderIsSorted
<1>4. \A l : Times(result, l) = Times(regs, l)
  <2>1. PICK p : Rearranges(p, regs, result)
    BY <1>2
  <2>2. QED
    BY <1>2, <2>1, RearrangedCounts
<1>5. QED
  BY <1>3, <1>4 DEF result

LEMMA SamplesSorted == SortExact
<1>1. Typed(Samples)
  BY DEF Typed, Samples, Rectangle
<1> SUFFICES ASSUME NEW regs \in SampleLists
             PROVE  /\ Sorted(sortVector(FALSE, regs))
                    /\ \A l \in Samples : Times(sortVector(FALSE, regs), l) = Times(regs, l)
  BY DEF SortExact, Times
<1>2. regs \in Seq(Samples)
  <2>1. PICK n \in 0 .. 3 : regs \in [1 .. n -> Samples]
    BY DEF SampleLists
  <2>2. n \in Nat
    OBVIOUS
  <2>3. QED
    BY <2>1, <2>2, SeqDef, Zenon
<1>3. QED
  BY <1>1, <1>2, SortVectorOrders

-----------------------------------------------------------------------------
(* The locks in some slots, as a list *)

(* below[s] is what InSlots has after the slots below s. *)
SlotLoop(slots, below) ==
  /\ below[0] = << >>
  /\ \A s \in Nat :
       below[s + 1] = IF s \in slots THEN Append(below[s], regions[s].lock) ELSE below[s]
  /\ InSlots(slots) = below[MaxSize]

LEMMA SlotRounds ==
  ASSUME NEW slots, NEW S, \A s \in slots : regions[s].lock \in S
  PROVE  \E below : SlotLoop(slots, below)
<1> DEFINE Round(s, r) == IF s \in slots THEN Append(r, regions[s].lock) ELSE r
           F == [s \in Nat |-> [r \in Seq(S) |-> IF s - 1 \in slots
                                                 THEN Append(r, regions[s - 1].lock) ELSE r]]
           IsLoop(g) == g = [s \in Nat |-> IF s = 0 THEN << >>
                                           ELSE IF s - 1 \in slots
                                                THEN Append(g[s - 1], regions[s - 1].lock)
                                                ELSE g[s - 1]]
           below == CHOOSE g : IsLoop(g)
<1>1. << >> \in Seq(S)
  BY EmptySeq
<1>2. F \in [Nat -> [Seq(S) -> Seq(S)]]
  <2>1. \A s \in Nat, r \in Seq(S) :
          (IF s - 1 \in slots THEN Append(r, regions[s - 1].lock) ELSE r) \in Seq(S)
    BY AppendProperties
  <2>2. QED
    BY <2>1
<1>3. PICK g : AreRounds(Seq(S), << >>, F, g)
  <2> HIDE DEF F
  <2>1. QED
    BY <1>1, <1>2, RoundsExist
<1>4. IsLoop(g)
  <2>1. ASSUME NEW s \in Nat, s # 0
        PROVE  g[s] = IF s - 1 \in slots THEN Append(g[s - 1], regions[s - 1].lock)
                      ELSE g[s - 1]
    <3>1. s - 1 \in Nat /\ (s - 1) + 1 = s
      BY <2>1
    <3>2. g[s] = F[s][g[s - 1]] /\ g[s - 1] \in Seq(S)
      BY <1>3, <3>1 DEF AreRounds
    <3>3. QED
      BY <3>1, <3>2
  <2> HIDE DEF F
  <2>2. QED
    BY <1>3, <2>1 DEF AreRounds
<1>5. IsLoop(below)
  <2> HIDE DEF IsLoop
  <2>1. QED
    BY <1>4
<1>6. InSlots(slots) = below[MaxSize]
  BY DEF InSlots
<1> HIDE DEF below
<1>7. below[0] = << >>
  BY <1>5
<1>8. ASSUME NEW s \in Nat
      PROVE  below[s + 1] = IF s \in slots THEN Append(below[s], regions[s].lock) ELSE below[s]
  <2>1. s + 1 \in Nat /\ (s + 1) - 1 = s /\ s + 1 # 0
    OBVIOUS
  <2>2. QED
    BY <1>5, <2>1
<1>9. QED
  BY <1>6, <1>7, <1>8 DEF SlotLoop

(* The list has the lock of each of these slots below k, and no two times  *)
(* the same.                                                               *)
ListedBelow(slots, S, k, list) ==
  /\ list \in Seq(S)
  /\ \A i \in 1 .. Len(list) : \E s \in slots : s < k /\ list[i] = regions[s].lock
  /\ \A s \in slots : s < k => \E i \in 1 .. Len(list) : list[i] = regions[s].lock
  /\ \A i, j \in 1 .. Len(list) : list[i] = list[j] => i = j

LEMMA ListedByRound ==
  ASSUME NEW slots, slots \subseteq Nat, NEW S, \A s \in slots : regions[s].lock \in S,
         \A s, t \in slots : regions[s].lock = regions[t].lock => s = t,
         NEW k \in Nat, NEW list, ListedBelow(slots, S, k, list),
         NEW next, next = IF k \in slots THEN Append(list, regions[k].lock) ELSE list
  PROVE  ListedBelow(slots, S, k + 1, next)
<1> DEFINE new == Append(list, regions[k].lock)
           n == Len(list)
<1>1. /\ list \in Seq(S) /\ n \in Nat
      /\ \A i \in 1 .. n : \E s \in slots : s < k /\ list[i] = regions[s].lock
      /\ \A s \in slots : s < k => \E i \in 1 .. n : list[i] = regions[s].lock
      /\ \A i, j \in 1 .. n : list[i] = list[j] => i = j
  BY LenProperties DEF ListedBelow
<1>2. \A s \in slots : s < k + 1 <=> s < k \/ s = k
  OBVIOUS
<1>3. CASE k \notin slots
  BY <1>1, <1>2, <1>3 DEF ListedBelow
<1>4. CASE k \in slots
  <2>1. /\ new \in Seq(S) /\ Len(new) = n + 1
        /\ \A i \in 1 .. n : new[i] = list[i]
        /\ new[n + 1] = regions[k].lock
    BY <1>1, <1>4, AppendProperties
  <2> HIDE DEF new, n
  <2>2. \A i \in 1 .. n + 1 : i \in 1 .. n \/ i = n + 1
    BY <1>1
  <2>3. ASSUME NEW i \in 1 .. n + 1
        PROVE  \E s \in slots : s < k + 1 /\ new[i] = regions[s].lock
    BY <1>1, <1>2, <1>4, <2>1, <2>2
  <2>4. ASSUME NEW s \in slots, s < k + 1
        PROVE  \E i \in 1 .. n + 1 : new[i] = regions[s].lock
    <3>1. CASE s < k
      <4>1. PICK i \in 1 .. n : list[i] = regions[s].lock
        BY <1>1, <3>1
      <4>2. i \in 1 .. n + 1
        BY <1>1
      <4>3. QED
        BY <2>1, <4>1, <4>2
    <3>2. CASE s = k
      <4>1. n + 1 \in 1 .. n + 1
        BY <1>1
      <4>2. QED
        BY <2>1, <3>2, <4>1
    <3>3. QED
      BY <1>2, <2>4, <3>1, <3>2
  <2>5. \A i \in 1 .. n : list[i] # regions[k].lock
    BY <1>1, <1>4
  <2>6. ASSUME NEW i \in 1 .. n + 1, NEW j \in 1 .. n + 1, new[i] = new[j] PROVE i = j
    BY <1>1, <2>1, <2>2, <2>5, <2>6
  <2>7. ListedBelow(slots, S, k + 1, new)
    BY <2>1, <2>3, <2>4, <2>6 DEF ListedBelow
  <2>8. QED
    BY <1>4, <2>7 DEF new
<1>5. QED
  BY <1>3, <1>4

LEMMA InSlotsLists ==
  ASSUME NEW slots, slots \subseteq Slots, NEW S, \A s \in slots : regions[s].lock \in S,
         \A s, t \in slots : regions[s].lock = regions[t].lock => s = t
  PROVE  /\ InSlots(slots) \in Seq(S)
         /\ Lists(InSlots(slots), {regions[s].lock : s \in slots})
         /\ \A i, j \in 1 .. Len(InSlots(slots)) : InSlots(slots)[i] = InSlots(slots)[j] => i = j
<1>1. PICK below : SlotLoop(slots, below)
  BY SlotRounds
<1>2. /\ MaxSize \in Nat /\ slots \subseteq Nat
      /\ \A s \in slots : s < MaxSize
  BY LocksAssumption DEF LocksAssumption, Slots
<1> DEFINE Told == {k \in Nat : ListedBelow(slots, S, k, below[k])}
<1>3. Nat \subseteq Told
  <2>1. 0 \in Told
    <3>1. below[0] = << >> /\ << >> \in Seq(S) /\ Len(<< >>) = 0
      BY <1>1, EmptySeq DEF SlotLoop
    <3>2. \A s \in slots : ~ (s < 0)
      BY <1>2
    <3>3. ListedBelow(slots, S, 0, << >>)
      BY <3>1, <3>2 DEF ListedBelow
    <3>4. QED
      BY <3>1, <3>3
  <2>2. ASSUME NEW k \in Nat, k \in Told PROVE k + 1 \in Told
    <3>1. ListedBelow(slots, S, k, below[k])
      BY <2>2
    <3>2. below[k + 1] = IF k \in slots THEN Append(below[k], regions[k].lock) ELSE below[k]
      BY <1>1 DEF SlotLoop
    <3>3. ListedBelow(slots, S, k + 1, below[k + 1])
      BY <1>2, <3>1, <3>2, ListedByRound
    <3>4. QED
      BY <3>3
  <2> HIDE DEF Told
  <2>3. QED
    BY <2>1, <2>2, AllNumbers
<1> DEFINE list == InSlots(slots)
           n == Len(list)
           locks == {regions[s].lock : s \in slots}
<1>4. list = below[MaxSize]
  BY <1>1 DEF SlotLoop
<1>5. ListedBelow(slots, S, MaxSize, list)
  BY <1>2, <1>3, <1>4
<1> HIDE DEF list
<1>6. /\ list \in Seq(S) /\ n \in Nat /\ DOMAIN list = 1 .. n
      /\ \A i \in 1 .. n : \E s \in slots : list[i] = regions[s].lock
      /\ \A s \in slots : \E i \in 1 .. n : list[i] = regions[s].lock
      /\ \A i, j \in 1 .. n : list[i] = list[j] => i = j
  BY <1>2, <1>5, LenProperties DEF ListedBelow
<1> HIDE DEF n
<1>7. ToSet(list) = locks
  BY <1>6 DEF ToSet
<1>8. list \in Bijection(1 .. n, locks)
  <2>1. list \in [1 .. n -> locks]
    BY <1>6
  <2>2. \A l \in locks : \E i \in 1 .. n : list[i] = l
    BY <1>6
  <2>3. QED
    BY <1>6, <2>1, <2>2 DEF Bijection, Injection, Surjection, IsInjective
<1> HIDE DEF locks
<1>9. IsFiniteSet(1 .. n) /\ Cardinality(1 .. n) = n
  <2>1. 1 \in Int /\ n \in Int
    BY <1>6
  <2>2. Cardinality(1 .. n) = IF 1 > n THEN 0 ELSE n - 1 + 1
    BY <2>1, FS_Interval
  <2>3. QED
    BY <1>6, <2>1, <2>2, FS_Interval
<1>10. Cardinality(locks) = n
  BY <1>8, <1>9, FS_Bijection DEF ExistsBijection
<1>11. QED
  BY <1>6, <1>7, <1>10 DEF Lists, list, n, locks

-----------------------------------------------------------------------------
(* MYLOCKS and GETLOCKS *)

(* What a listing of the locks in some active slots is, sorted. *)
LEMMA SortedSlots ==
  ASSUME LocksInv, NEW slots, slots \subseteq ActiveSlots, NEW withID \in BOOLEAN,
         NEW r, r = sortVector(withID, InSlots(slots))
  PROVE  /\ r \in Seq(Locks)
         /\ Lists(r, {regions[s].lock : s \in slots})
         /\ InOrder(withID, r)
         /\ \A i, j \in 1 .. Len(r) : r[i].id = r[j].id => i = j
<1> DEFINE list == InSlots(slots)
           locks == {regions[s].lock : s \in slots}
<1>1. /\ slots \subseteq Slots
      /\ \A s \in slots : Active(s) /\ regions[s].lock \in Locks
      /\ \A s, t \in slots : regions[s].lock.id = regions[t].lock.id => s = t
  BY DEF ActiveSlots, LocksInv, TableInv, TableType, IdsInv, UniqueIds
<1>2. /\ list \in Seq(Locks)
      /\ Lists(list, locks)
      /\ \A i, j \in 1 .. Len(list) : list[i] = list[j] => i = j
  <2>1. \A s, t \in slots : regions[s].lock = regions[t].lock => s = t
    BY <1>1
  <2>2. QED
    BY <1>1, <2>1, InSlotsLists
<1>3. Ordered(withID, Locks)
  <2>1. Typed(Locks) /\ \A l \in Locks : l.id \in Int
    BY DEF Typed, Locks, Ids
  <2>2. Ordered(FALSE, Locks) /\ Ordered(TRUE, Locks)
    BY <2>1, AreaOrdered, IdOrdered
  <2>3. withID = FALSE \/ withID = TRUE
    OBVIOUS
  <2>4. QED
    BY <2>2, <2>3
<1> HIDE DEF list, locks
<1>4. r = sortVector(withID, list)
  BY DEF list
<1>5. /\ r \in Seq(Locks)
      /\ InOrder(withID, r)
      /\ \E p : Rearranges(p, list, r)
  BY <1>2, <1>3, <1>4, SortVectorSorts
<1>6. PICK p : Rearranges(p, list, r)
  BY <1>5
<1>7. ToSet(r) = ToSet(list) /\ Len(r) = Len(list)
  <2>1. ToSet(r) = ToSet(list)
    BY <1>2, <1>5, <1>6, RearrangedCounts
  <2>2. QED
    BY <1>6, <2>1 DEF Rearranges
<1>8. ASSUME NEW i \in 1 .. Len(r), NEW j \in 1 .. Len(r), r[i].id = r[j].id
      PROVE  i = j
  <2>1. /\ p[i] \in 1 .. Len(list) /\ r[i] = list[p[i]]
        /\ p[j] \in 1 .. Len(list) /\ r[j] = list[p[j]]
        /\ p[i] = p[j] => i = j
    BY <1>6, <1>7 DEF Rearranges
  <2>2. \A k \in 1 .. Len(list) : list[k] \in locks
    BY <1>2, LenProperties DEF Lists, ToSet
  <2>3. r[i] = r[j]
    BY <1>1, <1>8, <2>1, <2>2 DEF locks
  <2>4. QED
    BY <1>2, <2>1, <2>3
<1>9. QED
  BY <1>2, <1>5, <1>7, <1>8 DEF Lists, locks

(* MYLOCKS names the locks of the client, the oldest first. *)
LEMMA MYLOCKSExact ==
  ASSUME LocksInv, NEW c \in Clients
  PROVE  /\ Lists(MYLOCKS(c), {l \in Held : l.owner = c})
         /\ \A i \in 1 .. Len(MYLOCKS(c)) - 1 : MYLOCKS(c)[i].id < MYLOCKS(c)[i + 1].id
<1> DEFINE slots == {s \in Seen : regions[s].lock.owner = c}
           r == MYLOCKS(c)
<1>1. Seen = ActiveSlots
  BY SeenAll DEF LocksInv, TableInv
<1>2. slots \subseteq ActiveSlots
  BY <1>1
<1>3. {regions[s].lock : s \in slots} = {l \in Held : l.owner = c}
  BY <1>1 DEF Held, ActiveSlots
<1>4. r = sortVector(TRUE, InSlots(slots))
  BY DEF MYLOCKS
<1> HIDE DEF slots, r
<1>5. /\ r \in Seq(Locks)
      /\ Lists(r, {regions[s].lock : s \in slots})
      /\ InOrder(TRUE, r)
      /\ \A i, j \in 1 .. Len(r) : r[i].id = r[j].id => i = j
  BY <1>2, <1>4, SortedSlots
<1>6. ASSUME NEW i \in 1 .. Len(r) - 1 PROVE r[i].id < r[i + 1].id
  <2>1. Len(r) \in Nat
    BY <1>5, LenProperties
  <2>2. i \in 1 .. Len(r) /\ i + 1 \in 1 .. Len(r) /\ i < i + 1 /\ i # i + 1
    BY <2>1
  <2>3. r[i] \in Locks /\ r[i + 1] \in Locks
    BY <1>5, <2>2, ElementOfSeq
  <2>4. r[i].id \in Int /\ r[i + 1].id \in Int
    BY <2>3 DEF Locks, Ids
  <2>5. ~ (r[i + 1].id < r[i].id)
    BY <1>5, <2>2 DEF InOrder, Before
  <2>6. r[i].id # r[i + 1].id
    BY <1>5, <2>2
  <2>7. QED
    BY <2>4, <2>5, <2>6
<1>7. QED
  BY <1>3, <1>5, <1>6 DEF r

(* Rectangles that have points share one of them if they intersect. *)
LEMMA IntersectingSharePoints ==
  ASSUME NEW a \in Rectangle, NEW b \in Rectangle, HasPoints(a), HasPoints(b)
  PROVE  Intersects(a, b) <=> SharePoint(a, b)
<1>1. ASSUME NEW min \in Int, NEW max \in Int, NEW rmin \in Int, NEW rmax \in Int,
             min <= max, rmin <= rmax, Meets(min, max, rmin, rmax)
      PROVE  (min .. max) \cap (rmin .. rmax) # {}
  <2>1. \/ rmin \in (min .. max) \cap (rmin .. rmax)
        \/ min \in (min .. max) \cap (rmin .. rmax)
        \/ rmax \in (min .. max) \cap (rmin .. rmax)
    BY <1>1 DEF Meets
  <2>2. QED
    BY <2>1
<1>2. Intersects(a, b) => SharePoint(a, b)
  BY <1>1 DEF Intersects, SharePoint, HasPoints, Rectangle
<1>3. QED
  BY <1>2, SharedPointsIntersect

(* GETLOCKS names the locks that meet the area, in order. *)
LEMMA GETLOCKSExact ==
  ASSUME LocksInv, NEW area \in Rectangle, NEW locks, locks = ToSet(GETLOCKS(area))
  PROVE  /\ locks \subseteq Held /\ Lists(GETLOCKS(area), locks)
         /\ \A l \in Held :
              HasPoints(l.area) /\ HasPoints(area) => (l \in locks <=> SharePoint(l.area, area))
         /\ Sorted(GETLOCKS(area))
<1> DEFINE slots == {s \in Seen : Intersects(regions[s].lock.area, area)}
           r == GETLOCKS(area)
<1>1. Seen = ActiveSlots
  BY SeenAll DEF LocksInv, TableInv
<1>2. slots \subseteq ActiveSlots
  BY <1>1
<1>3. {regions[s].lock : s \in slots} = {l \in Held : Intersects(l.area, area)}
  BY <1>1 DEF Held, ActiveSlots
<1>4. r = sortVector(FALSE, InSlots(slots))
  BY DEF GETLOCKS
<1> HIDE DEF slots, r
<1>5. /\ r \in Seq(Locks)
      /\ Lists(r, {regions[s].lock : s \in slots})
      /\ InOrder(FALSE, r)
  BY <1>2, <1>4, SortedSlots
<1>6. locks = {l \in Held : Intersects(l.area, area)} /\ Lists(r, locks)
  BY <1>3, <1>5 DEF Lists, r
<1>7. \A l \in Held : l.area \in Rectangle
  BY DEF Held, LocksInv, TableInv, TableType, Locks
<1>8. \A l \in Held :
        HasPoints(l.area) /\ HasPoints(area) => (l \in locks <=> SharePoint(l.area, area))
  BY <1>6, <1>7, IntersectingSharePoints
<1>9. Sorted(r)
  <2>1. Typed(Locks)
    BY DEF Typed, Locks
  <2>2. QED
    BY <1>5, <2>1, InOrderIsSorted
<1>10. QED
  BY <1>6, <1>8, <1>9 DEF r

(* At every time and for any requests MYLOCKS lists exactly the locks of   *)
(* the client, the oldest first, and GETLOCKS exactly the locks that meet  *)
(* the area, which share a point with it if edges are the right way round, *)
(* ordered by x, y, width, height and type; and sortVector sorts           *)
(* (hw2.cpp:240-276, 789-852).                                             *)
THEOREM ListingsStayExact == Spec => []ListingsExact
<1>1. LocksInv => ListingsExact
  <2>1. \A area \in Areas : area \in Rectangle
    BY LocksAssumption DEF Areas, LocksAssumption
  <2>2. QED
    BY <2>1, SamplesSorted, MYLOCKSExact, GETLOCKSExact DEF ListingsExact
<1>2. QED
  BY <1>1, LocksAlways, PTL
=============================================================================
