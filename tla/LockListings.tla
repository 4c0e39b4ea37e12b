---------------------------- MODULE LockListings ----------------------------
(***************************************************************************)
(* The listings of the region lock server (hw2.cpp): MYLOCKS, GETLOCKS and *)
(* sortVector, which takes the least of what is left again and again.      *)
(* They change nothing; their replies are operators on the state of        *)
(* RegionLocks.                                                            *)
(***************************************************************************)
EXTENDS RegionLocks, SequencesExt

(* A lock for reading has the type 0 in the code, one for writing 1. *)
TypeNumber(l) == IF l.type = "write" THEN 1 ELSE 0
Width(a) == a.right - a.left
Height(a) == a.bottom - a.top

(* Slip: y decides without x being the same. *)
LesserLoose(l, m) ==
  LET a == l.area
      b == m.area
  IN  \/ a.left < b.left
      \/ a.top < b.top
      \/ a.left = b.left /\ a.top = b.top /\ Width(a) < Width(b)
      \/ /\ a.left = b.left /\ a.top = b.top /\ Width(a) = Width(b)
         /\ Height(a) < Height(b)
      \/ a = b /\ TypeNumber(l) < TypeNumber(m)
Lesser(l, m) ==
  LET a == l.area
      b == m.area
  IN  \/ a.left < b.left
      \/ a.left = b.left /\ a.top < b.top
      \/ a.left = b.left /\ a.top = b.top /\ Width(a) < Width(b)
      \/ /\ a.left = b.left /\ a.top = b.top /\ Width(a) = Width(b)
         /\ Height(a) < Height(b)
      \/ a = b /\ TypeNumber(l) < TypeNumber(m)

Before(withID, l, m) == IF withID THEN l.id < m.id ELSE Lesser(l, m)

(* The loop over the locks that are left: the first one is taken at first, *)
(* and a later one in its place if it comes before it.                     *)
Least(withID, regs) ==
  LET ind[i \in Nat] ==
        IF i = 0 THEN 0
        ELSE LET best == ind[i - 1]
             IN  IF best = 0 \/ Before(withID, regs[i], regs[best]) THEN i ELSE best
  IN  ind[Len(regs)]

(* A round of sortVector moves the least of the locks that are left. *)
MoveLeast(withID, r) ==
  LET ind == Least(withID, r.left)
  IN  IF r.left = << >> THEN r
      ELSE [left |-> RemoveAt(r.left, ind), result |-> Append(r.result, r.left[ind])]

sortVector(withID, regs) ==
  LET round[k \in Nat] == IF k = 0 THEN [left |-> regs, result |-> << >>]
                          ELSE MoveLeast(withID, round[k - 1])
  IN  round[Len(regs)].result

(* The locks in these slots, in the order of the table. *)
InSlots(slots) ==
  LET below[s \in Nat] == IF s = 0 THEN << >>
                          ELSE IF s - 1 \in slots THEN Append(below[s - 1], regions[s - 1].lock)
                          ELSE below[s - 1]
  IN  below[MaxSize]

MYLOCKS(c) == sortVector(TRUE, InSlots({s \in Seen : regions[s].lock.owner = c}))

GETLOCKS(area) ==
  sortVector(FALSE, InSlots({s \in Seen : Intersects(regions[s].lock.area, area)}))

-----------------------------------------------------------------------------
(* What the listings are compared with *)

Lists(listing, locks) == ToSet(listing) = locks /\ Len(listing) = Cardinality(locks)

Key(l) == <<l.area.left, l.area.top, Width(l.area), Height(l.area), TypeNumber(l)>>
Precedes(k, m) ==
  \E i \in DOMAIN k : k[i] < m[i] /\ \A j \in 1 .. i - 1 : k[j] = m[j]
Sorted(listing) ==
  \A i, j \in DOMAIN listing : i < j => ~ Precedes(Key(listing[j]), Key(listing[i]))

Areas == {r.area : r \in Requests}

(* Locks that agree in some of x, y, width, height and type. *)
Samples ==
  [area : {[left |-> x, right |-> x + w, top |-> y, bottom |-> y + h] :
             x \in 0 .. 1, y \in 0 .. 1, w \in 0 .. 1, h \in 0 .. 1},
   type : {"read", "write"}]
SampleLists == UNION {[1 .. n -> Samples] : n \in 0 .. 3}

SortExact ==
  \A regs \in SampleLists :
    LET result == sortVector(FALSE, regs)
    IN  /\ Sorted(result)
        /\ \A l \in Samples :
             Cardinality({i \in DOMAIN result : result[i] = l})
               = Cardinality({i \in DOMAIN regs : regs[i] = l})

(* MYLOCKS names exactly the locks the client holds, the oldest first.     *)
(* GETLOCKS names locks that are held, each once, ordered by x, y, width,  *)
(* height and type, and exactly those that share a point with the area     *)
(* where edges are the right way round.  Slots may have been let go in     *)
(* between and filled in any order.  And sortVector orders every list of   *)
(* up to three locks, those that agree in all but one number among them    *)
(* (hw2.cpp:240-276, 789-852).                                             *)
ListingsExact ==
  /\ SortExact
  /\ \A c \in Clients :
       /\ Lists(MYLOCKS(c), {l \in Held : l.owner = c})
       /\ \A i \in 1 .. Len(MYLOCKS(c)) - 1 : MYLOCKS(c)[i].id < MYLOCKS(c)[i + 1].id
  /\ \A area \in Areas :
       LET locks == ToSet(GETLOCKS(area))
       IN  /\ locks \subseteq Held /\ Lists(GETLOCKS(area), locks)
           /\ \A l \in Held :
                HasPoints(l.area) /\ HasPoints(area) => (l \in locks <=> SharePoint(l.area, area))
           /\ Sorted(GETLOCKS(area))
=============================================================================
