--------------------------- MODULE MapLockProofs ---------------------------
(* Proofs about map_lock and map_unlock, for any number of processes, any  *)
(* requests and any finite memory.                                         *)
EXTENDS MapLock, FiniteSetTheorems, SequenceTheorems, TLAPS

-----------------------------------------------------------------------------
(* The list *)

(* list_add puts an address in front. *)
LEMMA AddedInFront ==
  ASSUME NEW h \in Seq(Addresses), NEW a \in Addresses, NEW h2, h2 = <<a>> \o h
  PROVE  /\ h2 \in Seq(Addresses) /\ Len(h2) = Len(h) + 1
         /\ h2[1] = a
         /\ \A i \in 1 .. Len(h) : h2[i + 1] = h[i]
         /\ \A i \in 2 .. Len(h2) : i - 1 \in 1 .. Len(h) /\ h2[i] = h[i - 1]
<1>1. <<a>> \in Seq(Addresses) /\ Len(<<a>>) = 1 /\ <<a>>[1] = a
  OBVIOUS
<1>2. /\ h2 \in Seq(Addresses) /\ Len(h2) = 1 + Len(h)
      /\ \A i \in 1 .. 1 + Len(h) : h2[i] = IF i <= 1 THEN <<a>>[i] ELSE h[i - 1]
  BY <1>1, ConcatProperties
<1>3. Len(h) \in Nat
  OBVIOUS
<1>4. QED
  BY <1>1, <1>2, <1>3

(* list_del takes out the address at place i and closes the gap. *)
LEMMA TakenOut ==
  ASSUME NEW h \in Seq(Addresses), NEW i \in 1 .. Len(h), NEW h2, h2 = RemoveAt(h, i)
  PROVE  /\ h2 \in Seq(Addresses) /\ Len(h2) = Len(h) - 1
         /\ \A j \in 1 .. i - 1 : j \in 1 .. Len(h2) /\ h2[j] = h[j]
         /\ \A j \in i + 1 .. Len(h) : j - 1 \in 1 .. Len(h2) /\ h2[j - 1] = h[j]
         /\ \A j \in 1 .. Len(h2) :
              LET k == IF j < i THEN j ELSE j + 1
              IN  k \in (1 .. Len(h)) \ {i} /\ h2[j] = h[k]
<1> DEFINE left == SubSeq(h, 1, i - 1)
           right == SubSeq(h, i + 1, Len(h))
<1>1. Len(h) \in Nat /\ i \in Nat
  OBVIOUS
<1>2. /\ left \in Seq(Addresses) /\ Len(left) = i - 1
      /\ \A j \in 1 .. i - 1 : left[j] = h[j]
  BY <1>1
<1>3. /\ right \in Seq(Addresses) /\ Len(right) = Len(h) - i
      /\ \A j \in 1 .. Len(h) - i : right[j] = h[i + j]
  BY <1>1
<1> HIDE DEF left, right
<1>4. h2 = left \o right
  BY DEF RemoveAt, left, right
<1>5. /\ h2 \in Seq(Addresses) /\ Len(h2) = Len(left) + Len(right)
      /\ \A j \in 1 .. Len(left) + Len(right) :
           h2[j] = IF j <= Len(left) THEN left[j] ELSE right[j - Len(left)]
  <2>1. left \in Seq(Addresses) /\ right \in Seq(Addresses)
    BY <1>2, <1>3
  <2>2. /\ left \o right \in Seq(Addresses)
        /\ Len(left \o right) = Len(left) + Len(right)
        /\ \A j \in 1 .. Len(left) + Len(right) :
             (left \o right)[j] = IF j <= Len(left) THEN left[j] ELSE right[j - Len(left)]
    BY ONLY <2>1, ConcatProperties
  <2>3. QED
    BY ONLY <1>4, <2>2
<1>6. Len(h2) = Len(h) - 1
  <2>1. Len(h2) = (i - 1) + (Len(h) - i)
    BY <1>2, <1>3, <1>5
  <2>2. QED
    BY <1>1, <2>1
<1>7. ASSUME NEW j \in 1 .. Len(h2) PROVE h2[j] = IF j < i THEN h[j] ELSE h[j + 1]
  <2>1. h2[j] = IF j <= Len(left) THEN left[j] ELSE right[j - Len(left)]
    BY <1>1, <1>2, <1>3, <1>5
  <2>2. CASE j < i
    BY <1>1, <1>2, <2>1, <2>2
  <2>3. CASE ~ (j < i)
    <3>1. /\ j - Len(left) \in 1 .. Len(h) - i /\ ~ (j <= Len(left))
          /\ i + (j - Len(left)) = j + 1
      BY <1>1, <1>2, <1>6, <2>3
    <3>2. QED
      BY <1>3, <2>1, <2>3, <3>1
  <2>4. QED
    BY <2>2, <2>3
<1>8. \A j \in 1 .. i - 1 : j \in 1 .. Len(h2) /\ h2[j] = h[j]
  BY <1>1, <1>6, <1>7
<1>9. \A j \in i + 1 .. Len(h) : j - 1 \in 1 .. Len(h2) /\ h2[j - 1] = h[j]
  <2> SUFFICES ASSUME NEW j \in i + 1 .. Len(h)
               PROVE  j - 1 \in 1 .. Len(h2) /\ h2[j - 1] = h[j]
    OBVIOUS
  <2>1. j - 1 \in 1 .. Len(h2) /\ ~ (j - 1 < i) /\ (j - 1) + 1 = j
    BY <1>1, <1>6
  <2>2. QED
    BY <1>7, <2>1
<1>10. QED
  BY <1>1, <1>5, <1>6, <1>7, <1>8, <1>9

-----------------------------------------------------------------------------
(* The invariant.  MemoryKept is inductive together with the types, with   *)
(* ids that tell the locks of the list apart, and with who waits for what. *)

Types ==
  /\ heap \in [Addresses -> Contents]
  /\ head \in Seq(Addresses)
  /\ pc \in [Procs -> Steps]
  /\ newlock \in [Procs -> Addresses \cup {Null}]
  /\ tmp \in [Procs -> Addresses \cup {Null}]
  /\ interrupts \in 0 .. MaxInterrupts
  /\ answer \in {"none", "granted", "failed", "ok"}

(* Ids tell the places of the list apart, and so do addresses. *)
IdsApart ==
  /\ \A a \in Listed : heap[a].id \in Ids
  /\ \A i, j \in 1 .. Len(head) : heap[head[i]].id = heap[head[j]].id => i = j

(* A process in the kernel has a lock of its own to put in, and a lock in  *)
(* use is not complete.                                                    *)
Waiting ==
  /\ \A p \in Procs : pc[p] = "out" <=> newlock[p] = Null
  /\ \A a \in Addresses : heap[a].used => heap[a].area \in Rectangle /\ ~ heap[a].done

MapInv == Types /\ MemoryKept /\ IdsApart /\ Waiting

LEMMA InitMap == Init => MapInv
<1> SUFFICES ASSUME Init PROVE MapInv
  OBVIOUS
<1>1. head = << >> /\ Listed = {}
  BY DEF Init, Listed
<1>2. Types
  BY <1>1, MapLockAssumption DEF Init, Types, Contents, Unused, Steps
<1>3. MemoryKept
  BY <1>1 DEF Init, MemoryKept
<1>4. IdsApart
  BY <1>1 DEF IdsApart
<1>5. Waiting
  BY MapLockAssumption DEF Init, Waiting, Unused
<1>6. QED
  BY <1>2, <1>3, <1>4, <1>5 DEF MapInv

LEMMA ListedPlace ==
  ASSUME NEW a \in Listed
  PROVE  \E i \in 1 .. Len(head) : head[i] = a
BY DEF Listed

LEMMA ListedKept == UNCHANGED head => UNCHANGED Listed
BY DEF Listed

(* Only what is in use and not in the list is put in: the list gets one    *)
(* more lock, with an id that no other lock in it has.                     *)
LEMMA GrantEffect ==
  ASSUME Types, IdsApart, NEW a \in Addresses, a \notin Listed,
         NEW l \in Contents, Grant(a, l)
  PROVE  /\ heap' \in [Addresses -> Contents] /\ head' \in Seq(Addresses)
         /\ Listed' = Listed \cup {a}
         /\ \A b \in Addresses \ {a} : heap'[b] = heap[b]
         /\ \E id \in Ids : /\ heap'[a] = [l EXCEPT !.id = id]
                            /\ \A b \in Listed : heap[b].id # id
         /\ IdsApart'
<1>1. PICK id \in Ids : firstAvailableID(id) /\ heap' = [heap EXCEPT ![a] = [l EXCEPT !.id = id]]
  BY DEF Grant
<1>2. [l EXCEPT !.id = id] \in Contents
  BY DEF Contents
<1>3. /\ heap' \in [Addresses -> Contents]
      /\ heap'[a] = [l EXCEPT !.id = id]
      /\ \A b \in Addresses \ {a} : heap'[b] = heap[b]
  BY <1>1, <1>2 DEF Types
<1>4. /\ head' \in Seq(Addresses) /\ Len(head') = Len(head) + 1
      /\ head'[1] = a
      /\ \A i \in 1 .. Len(head) : head'[i + 1] = head[i]
      /\ \A i \in 2 .. Len(head') : i - 1 \in 1 .. Len(head) /\ head'[i] = head[i - 1]
  BY AddedInFront DEF Grant, Types
<1>5. \A b \in Listed : heap[b].id # id /\ b \in Addresses \ {a}
  BY <1>1, ListedPlace DEF firstAvailableID, Types
<1>6. Listed' = Listed \cup {a}
  <2>1. ASSUME NEW b \in Listed' PROVE b \in Listed \cup {a}
    <3>1. PICK i \in 1 .. Len(head') : head'[i] = b
      BY DEF Listed
    <3>2. i = 1 \/ i \in 2 .. Len(head')
      BY <1>4
    <3>3. QED
      BY <1>4, <3>1, <3>2 DEF Listed
  <2>2. ASSUME NEW b \in Listed PROVE b \in Listed'
    <3>1. PICK i \in 1 .. Len(head) : head[i] = b
      BY DEF Listed
    <3>2. Len(head) \in Nat
      BY DEF Types
    <3>3. i + 1 \in 1 .. Len(head') /\ head'[i + 1] = b
      BY <1>4, <3>1, <3>2
    <3>4. QED
      BY <3>3 DEF Listed
  <2>3. a \in Listed'
    <3>1. 1 \in 1 .. Len(head')
      BY <1>4 DEF Types
    <3>2. QED
      BY <1>4, <3>1 DEF Listed
  <2>4. QED
    BY <2>1, <2>2, <2>3
<1>7. heap'[a].id = id
  BY <1>3 DEF Contents
<1>8. IdsApart'
  <2>1. \A b \in Listed' : heap'[b].id \in Ids
    BY <1>3, <1>5, <1>6, <1>7 DEF IdsApart
  <2>2. ASSUME NEW i \in 2 .. Len(head')
        PROVE  /\ i - 1 \in 1 .. Len(head)
               /\ head'[i] = head[i - 1]
               /\ heap'[head'[i]].id = heap[head[i - 1]].id
               /\ heap'[head'[i]].id # id
    <3>1. i - 1 \in 1 .. Len(head) /\ head'[i] = head[i - 1]
      BY <1>4
    <3>2. head[i - 1] \in Listed
      BY <3>1 DEF Listed
    <3>3. QED
      BY <1>3, <1>5, <3>1, <3>2
  <2>3. ASSUME NEW i \in 1 .. Len(head'), NEW j \in 1 .. Len(head'),
               heap'[head'[i]].id = heap'[head'[j]].id
        PROVE  i = j
    <3>1. /\ i = 1 \/ i \in 2 .. Len(head')
          /\ j = 1 \/ j \in 2 .. Len(head')
      OBVIOUS
    <3>2. CASE i = 1
      BY <1>4, <1>7, <2>2, <2>3, <3>1, <3>2
    <3>3. CASE j = 1
      BY <1>4, <1>7, <2>2, <2>3, <3>1, <3>3
    <3>4. CASE i \in 2 .. Len(head') /\ j \in 2 .. Len(head')
      <4>1. i - 1 = j - 1
        BY <2>2, <2>3, <3>4 DEF IdsApart
      <4>2. QED
        BY <3>4, <4>1
    <3>5. QED
      BY <3>1, <3>2, <3>3, <3>4
  <2>4. QED
    BY <2>1, <2>3 DEF IdsApart
<1>9. QED
  BY <1>3, <1>4, <1>5, <1>6, <1>8

(* Process p goes to a step, and nobody else in or out of the kernel. *)
Goes(p, step) ==
  /\ pc' \in [Procs -> Steps] /\ pc'[p] = step
  /\ \A q \in Procs \ {p} : pc'[q] = "out" <=> pc[q] = "out"

(* A process that is stranded stays in the kernel. *)
LEMMA StrandedGoes ==
  ASSUME Types, NEW p \in Procs, NEW a, pc[p] = "out"
  PROVE  /\ pc' = Stranded(a) => Goes(p, "out")
         /\ pc' = [Stranded(a) EXCEPT ![p] = "called"] => Goes(p, "called")
BY DEF Types, Stranded, Goes, Steps

LEMMA OneGoes ==
  ASSUME Types, NEW p \in Procs, NEW step \in Steps, pc' = [pc EXCEPT ![p] = step]
  PROVE  Goes(p, step)
BY DEF Types, Goes

(* A grant to process p, of a lock that is in use, in no list and of       *)
(* nobody else, keeps the invariant.                                       *)
LEMMA GrantKeeps ==
  ASSUME MapInv, NEW p \in Procs, NEW a \in Addresses, a \notin Listed,
         NEW l \in Contents, l.used, ~ l.done, l.area \in Rectangle, Grant(a, l),
         \A q \in Procs \ {p} : newlock[q] # a,
         Goes(p, "out"), newlock' = [newlock EXCEPT ![p] = Null],
         tmp' \in [Procs -> Addresses \cup {Null}], UNCHANGED interrupts
  PROVE  MapInv'
<1> USE DEF MapInv
<1>1. /\ heap' \in [Addresses -> Contents] /\ head' \in Seq(Addresses)
      /\ Listed' = Listed \cup {a}
      /\ \A b \in Addresses \ {a} : heap'[b] = heap[b]
      /\ IdsApart'
      /\ \E id \in Ids : /\ heap'[a] = [l EXCEPT !.id = id]
                         /\ \A b \in Listed : heap[b].id # id
  <2>1. Types /\ IdsApart
    OBVIOUS
  <2>2. QED
    BY ONLY <2>1, a \notin Listed, Grant(a, l), GrantEffect
<1>2. heap'[a].used /\ ~ heap'[a].done /\ heap'[a].area = l.area
  <2>1. PICK id \in Ids : heap'[a] = [l EXCEPT !.id = id]
    BY <1>1
  <2>2. QED
    BY <2>1 DEF Contents
<1>3. Types'
  BY <1>1, MapLockAssumption DEF Types, Goes, Grant
<1>4. \A b \in Listed : b \in Addresses \ {a}
  BY ListedPlace DEF Types
<1>5. \A q \in Procs : newlock'[q] # Null => newlock'[q] = newlock[q] /\ q # p
  BY DEF Types
<1>6. MemoryKept'
  <2>1. \A b \in Listed' : heap'[b].used /\ ~ heap'[b].done
    BY <1>1, <1>2, <1>4 DEF MemoryKept
  <2>2. \A q \in Procs : newlock'[q] # Null => heap'[newlock'[q]].used /\ newlock'[q] \notin Listed'
    BY <1>1, <1>5 DEF MemoryKept, Types
  <2>3. \A q, r \in Procs : newlock'[q] # Null /\ newlock'[q] = newlock'[r] => q = r
    BY <1>5 DEF MemoryKept
  <2>4. QED
    BY <2>1, <2>2, <2>3 DEF MemoryKept
<1>7. Waiting'
  <2>1. \A q \in Procs : pc'[q] = "out" <=> newlock'[q] = Null
    BY DEF Waiting, Types, Goes
  <2>2. \A b \in Addresses : heap'[b].used => heap'[b].area \in Rectangle /\ ~ heap'[b].done
    BY <1>1, <1>2 DEF Waiting
  <2>3. QED
    BY <2>1, <2>2 DEF Waiting
<1>8. QED
  BY <1>1, <1>3, <1>6, <1>7

(* A process that waits, with the lock at a to put in, or waits again.     *)
LEMMA PostponeKeeps ==
  ASSUME MapInv, NEW p \in Procs, NEW a \in Addresses, a \notin Listed, NEW l, Postpone(p, a, l),
         Goes(p, "called"), heap' \in [Addresses -> Contents], heap'[a].used, ~ heap'[a].done,
         heap'[a].area \in Rectangle,
         \A b \in Addresses \ {a} : heap'[b] = heap[b],
         \A q \in Procs \ {p} : newlock[q] # a, UNCHANGED interrupts
  PROVE  MapInv'
<1> USE DEF MapInv
<1>1. PICK i \in 1 .. Len(head) :
        /\ tmp' = [tmp EXCEPT ![p] = head[i]]
        /\ newlock' = [newlock EXCEPT ![p] = a]
        /\ UNCHANGED <<head, answer>>
  BY DEF Postpone, Blocking
<1>2. head[i] \in Addresses /\ a # Null
  BY MapLockAssumption DEF Types
<1>3. Types'
  BY <1>1, <1>2, MapLockAssumption DEF Types, Goes
<1>4. Listed' = Listed /\ \A b \in Listed : b \in Addresses \ {a}
  BY <1>1, ListedKept, ListedPlace DEF Types
<1>5. newlock'[p] = a /\ pc'[p] = "called"
      /\ \A q \in Procs \ {p} : newlock'[q] = newlock[q] /\ (pc'[q] = "out" <=> pc[q] = "out")
  BY <1>1 DEF Types, Goes
<1>6. MemoryKept'
  <2>1. \A b \in Listed' : heap'[b].used /\ ~ heap'[b].done
    BY <1>4 DEF MemoryKept
  <2>2. \A q \in Procs : newlock'[q] # Null => heap'[newlock'[q]].used /\ newlock'[q] \notin Listed'
    BY <1>4, <1>5 DEF MemoryKept, Types
  <2>3. \A q, r \in Procs : newlock'[q] # Null /\ newlock'[q] = newlock'[r] => q = r
    BY <1>5 DEF MemoryKept
  <2>4. QED
    BY <2>1, <2>2, <2>3 DEF MemoryKept
<1>7. Waiting'
  <2>1. \A q \in Procs : pc'[q] = "out" <=> newlock'[q] = Null
    BY <1>2, <1>5 DEF Waiting
  <2>2. \A b \in Addresses : heap'[b].used => heap'[b].area \in Rectangle /\ ~ heap'[b].done
    BY DEF Waiting
  <2>3. QED
    BY <2>1, <2>2 DEF Waiting
<1>8. IdsApart'
  <2>1. \A b \in Listed : heap'[b] = heap[b]
    BY <1>4
  <2>2. \A j \in 1 .. Len(head) : head[j] \in Listed
    BY DEF Listed
  <2>3. QED
    BY <1>1, <1>4, <2>1, <2>2 DEF IdsApart
<1>9. QED
  BY <1>3, <1>6, <1>7, <1>8

LEMMA NewLockType ==
  ASSUME NEW r \in Requests
  PROVE  /\ NewLock(r) \in Contents /\ NewLock(r).used /\ ~ NewLock(r).done
         /\ NewLock(r).type = r.type /\ NewLock(r).area = r.area
         /\ r.area \in Rectangle
         /\ r = [type |-> r.type, area |-> r.area]
BY MapLockAssumption DEF NewLock, Contents

(* Memory that is not in use is nobody's. *)
LEMMA UnusedIsNobodys ==
  ASSUME MapInv, NEW a \in Addresses, ~ heap[a].used
  PROVE  a \notin Listed /\ \A q \in Procs : newlock[q] # a
BY MapLockAssumption DEF MapInv, MemoryKept

LEMMA OutOfKernel ==
  ASSUME Types, Waiting, NEW p \in Procs, pc[p] = "out"
  PROVE  /\ newlock[p] = Null
         /\ newlock = [newlock EXCEPT ![p] = Null]
BY DEF Types, Waiting

LEMMA TryLockKeeps ==
  ASSUME MapInv, NEW p \in Procs, NEW r \in Requests, TryLock(p, r)
  PROVE  MapInv'
<1>1. PICK a \in Addresses :
        /\ ~ heap[a].used
        /\ pc' = Stranded(a)
        /\ IF Blocking(r) = {} THEN Grant(a, NewLock(r))
           ELSE /\ heap' = [heap EXCEPT ![a] = [NewLock(r) EXCEPT !.used = FALSE]]
                /\ answer' = "failed"
                /\ UNCHANGED head
  BY DEF TryLock
<1>2. pc[p] = "out" /\ UNCHANGED <<newlock, tmp, interrupts>>
  BY DEF TryLock
<1>3. a \notin Listed /\ \A q \in Procs : newlock[q] # a
  BY <1>1, UnusedIsNobodys
<1> Goes(p, "out")
  BY <1>1, <1>2, StrandedGoes DEF MapInv
<1>4. CASE Blocking(r) = {}
  <2>1. Grant(a, NewLock(r))
    BY <1>1, <1>4
  <2>2. newlock' = [newlock EXCEPT ![p] = Null]
    BY <1>2, OutOfKernel DEF MapInv
  <2>3. tmp' \in [Procs -> Addresses \cup {Null}]
    BY <1>2 DEF MapInv, Types
  <2>4. QED
    BY <1>2, <1>3, <2>1, <2>2, <2>3, NewLockType, GrantKeeps
<1>5. CASE Blocking(r) # {}
  <2>1. /\ heap' = [heap EXCEPT ![a] = [NewLock(r) EXCEPT !.used = FALSE]]
        /\ answer' = "failed"
        /\ UNCHANGED head
    BY <1>1, <1>5
  <2>2. [NewLock(r) EXCEPT !.used = FALSE] \in Contents /\ ~ [NewLock(r) EXCEPT !.used = FALSE].used
    BY NewLockType DEF Contents
  <2>3. /\ heap' \in [Addresses -> Contents] /\ ~ heap'[a].used
        /\ \A b \in Addresses \ {a} : heap'[b] = heap[b]
    BY <2>1, <2>2 DEF MapInv, Types
  <2>4. Listed' = Listed /\ \A b \in Listed : b \in Addresses \ {a}
    BY <1>3, <2>1, ListedKept, ListedPlace DEF MapInv, Types
  <2>5. Types'
    BY <1>2, <2>1, <2>3 DEF MapInv, Types, Goes
  <2>6. MemoryKept'
    BY <1>2, <1>3, <2>3, <2>4 DEF MapInv, Types, MemoryKept
  <2>7. Waiting'
    BY <1>2, <2>3 DEF MapInv, Waiting, Goes
  <2>8. IdsApart'
    <3>1. \A j \in 1 .. Len(head) : head[j] \in Listed
      BY DEF Listed
    <3>2. QED
      BY <2>1, <2>3, <2>4, <3>1 DEF MapInv, IdsApart
  <2>9. QED
    BY <2>5, <2>6, <2>7, <2>8 DEF MapInv
<1>6. QED
  BY <1>4, <1>5

LEMMA map_lockKeeps ==
  ASSUME MapInv, NEW p \in Procs, NEW r \in Requests, map_lock(p, r)
  PROVE  MapInv'
<1>1. PICK a \in Addresses :
        /\ ~ heap[a].used
        /\ \/ /\ Blocking(r) = {}
              /\ Grant(a, NewLock(r))
              /\ pc' = Stranded(a)
              /\ UNCHANGED <<newlock, tmp>>
           \/ /\ Postpone(p, a, r)
              /\ heap' = [heap EXCEPT ![a] = NewLock(r)]
              /\ pc' = [Stranded(a) EXCEPT ![p] = "called"]
  BY DEF map_lock
<1>2. pc[p] = "out" /\ UNCHANGED interrupts
  BY DEF map_lock
<1>3. a \notin Listed /\ \A q \in Procs : newlock[q] # a
  BY <1>1, UnusedIsNobodys
<1>4. CASE Grant(a, NewLock(r)) /\ pc' = Stranded(a) /\ UNCHANGED <<newlock, tmp>>
  <2>1. Goes(p, "out") /\ newlock' = [newlock EXCEPT ![p] = Null]
    BY <1>2, <1>4, StrandedGoes, OutOfKernel DEF MapInv
  <2>2. tmp' \in [Procs -> Addresses \cup {Null}]
    BY <1>4 DEF MapInv, Types
  <2>3. QED
    BY <1>2, <1>3, <1>4, <2>1, <2>2, NewLockType, GrantKeeps
<1>5. CASE /\ Postpone(p, a, r)
           /\ heap' = [heap EXCEPT ![a] = NewLock(r)]
           /\ pc' = [Stranded(a) EXCEPT ![p] = "called"]
  <2>1. /\ heap' \in [Addresses -> Contents]
        /\ heap'[a].used /\ ~ heap'[a].done /\ heap'[a].area \in Rectangle
        /\ \A b \in Addresses \ {a} : heap'[b] = heap[b]
    BY <1>5, NewLockType DEF MapInv, Types
  <2>2. Goes(p, "called")
    BY <1>2, <1>5, StrandedGoes DEF MapInv
  <2>3. QED
    BY <1>2, <1>3, <1>5, <2>1, <2>2, PostponeKeeps
<1>6. QED
  BY <1>1, <1>4, <1>5

(* The lock that a process in the kernel wants to put in. *)
LEMMA OwnNewLock ==
  ASSUME MapInv, NEW p \in Procs, pc[p] # "out"
  PROVE  /\ newlock[p] \in Addresses /\ newlock[p] # Null /\ newlock[p] \notin Listed
         /\ heap[newlock[p]] \in Contents /\ heap[newlock[p]].used
         /\ heap[newlock[p]].area \in Rectangle /\ ~ heap[newlock[p]].done
         /\ \A q \in Procs \ {p} : newlock[q] # newlock[p]
BY DEF MapInv, Types, MemoryKept, Waiting

LEMMA RecheckKeeps ==
  ASSUME MapInv, NEW p \in Procs, Recheck(p)
  PROVE  MapInv'
<1> DEFINE a == newlock[p]
<1>1. pc[p] = "returned" /\ UNCHANGED interrupts
  BY DEF Recheck
<1>2. /\ a \in Addresses /\ a \notin Listed
      /\ heap[a] \in Contents /\ heap[a].used
      /\ heap[a].area \in Rectangle /\ ~ heap[a].done
      /\ \A q \in Procs \ {p} : newlock[q] # a
  BY <1>1, OwnNewLock
<1>3. CASE /\ Grant(a, heap[a])
           /\ pc' = [pc EXCEPT ![p] = "out"]
           /\ newlock' = [newlock EXCEPT ![p] = Null]
           /\ tmp' = [tmp EXCEPT ![p] = Null]
  <2>1. tmp' \in [Procs -> Addresses \cup {Null}]
    BY <1>3 DEF MapInv, Types
  <2>2. Goes(p, "out")
    BY <1>3, OneGoes DEF MapInv, Steps
  <2>3. QED
    BY <1>1, <1>2, <1>3, <2>1, <2>2, GrantKeeps
<1>4. CASE Postpone(p, a, heap[a]) /\ pc' = [pc EXCEPT ![p] = "called"] /\ UNCHANGED heap
  <2>1. Goes(p, "called")
    BY <1>4, OneGoes DEF MapInv, Steps
  <2>2. QED
    BY <1>1, <1>2, <1>4, <2>1, PostponeKeeps DEF MapInv, Types
<1>5. QED
  BY <1>3, <1>4 DEF Recheck

(* Wherever the process goes on, awake or not, while it is in the kernel. *)
LEMMA WaitingGoesOn ==
  ASSUME MapInv, NEW p \in Procs, pc[p] # "out",
         NEW step \in Steps \ {"out"}, pc' = [pc EXCEPT ![p] = step],
         UNCHANGED <<heap, head, newlock, tmp, interrupts, answer>>
  PROVE  MapInv'
<1>1. Types' /\ MemoryKept' /\ IdsApart'
  BY DEF MapInv, Types, MemoryKept, IdsApart, Listed
<1>2. Waiting'
  BY DEF MapInv, Types, Waiting
<1>3. QED
  BY <1>1, <1>2 DEF MapInv

LEMMA InterruptKeeps ==
  ASSUME MapInv, NEW p \in Procs, Interrupt(p)
  PROVE  MapInv'
<1>1. /\ pc' = [pc EXCEPT ![p] = "out"]
      /\ newlock' = [newlock EXCEPT ![p] = Null]
      /\ tmp' = [tmp EXCEPT ![p] = Null]
      /\ UNCHANGED <<heap, head>>
  BY DEF Interrupt
<1>2. Types'
  BY <1>1, MapLockAssumption DEF Interrupt, MapInv, Types, Steps
<1>3. Listed' = Listed
  BY <1>1, ListedKept
<1>4. \A q \in Procs : newlock'[q] # Null => newlock'[q] = newlock[q]
  BY <1>1 DEF MapInv, Types
<1>5. MemoryKept'
  BY <1>1, <1>3, <1>4 DEF MapInv, MemoryKept
<1>6. IdsApart'
  BY <1>1, <1>3 DEF MapInv, IdsApart
<1>7. Waiting'
  BY <1>1 DEF MapInv, Types, Waiting
<1>8. QED
  BY <1>2, <1>5, <1>6, <1>7 DEF MapInv

(* map_unlock takes one lock out of the list, the one with that id. *)
LEMMA UnlockEffect ==
  ASSUME Types, IdsApart, NEW i \in 1 .. Len(head), head' = Without(i),
         heap' = [heap EXCEPT ![head[i]] = [@ EXCEPT !.used = FALSE, !.done = TRUE]]
  PROVE  /\ heap' \in [Addresses -> Contents] /\ head' \in Seq(Addresses)
         /\ head[i] \in Addresses /\ ~ heap'[head[i]].used
         /\ \A b \in Addresses \ {head[i]} : heap'[b] = heap[b]
         /\ Listed' = Listed \ {head[i]}
         /\ IdsApart'
<1>1. head[i] \in Addresses /\ heap[head[i]] \in Contents
  BY DEF Types
<1>2. /\ heap' \in [Addresses -> Contents] /\ ~ heap'[head[i]].used
      /\ \A b \in Addresses \ {head[i]} : heap'[b] = heap[b]
  BY <1>1 DEF Types, Contents
<1>3. /\ head' \in Seq(Addresses) /\ Len(head') = Len(head) - 1
      /\ \A j \in 1 .. i - 1 : j \in 1 .. Len(head') /\ head'[j] = head[j]
      /\ \A j \in i + 1 .. Len(head) : j - 1 \in 1 .. Len(head') /\ head'[j - 1] = head[j]
      /\ \A j \in 1 .. Len(head') :
           LET k == IF j < i THEN j ELSE j + 1
           IN  k \in (1 .. Len(head)) \ {i} /\ head'[j] = head[k]
  <2>1. head \in Seq(Addresses) /\ head' = RemoveAt(head, i)
    BY DEF Types, Without
  <2>2. QED
    BY ONLY <2>1, TakenOut
<1>4. \A j \in (1 .. Len(head)) \ {i} : head[j] \in Addresses /\ head[j] # head[i]
  BY DEF Types, IdsApart
<1>5. Listed' = Listed \ {head[i]}
  <2>1. ASSUME NEW b \in Listed' PROVE b \in Listed \ {head[i]}
    <3>1. PICK j \in 1 .. Len(head') : head'[j] = b
      BY DEF Listed
    <3>2. PICK k \in (1 .. Len(head)) \ {i} : b = head[k]
      BY <1>3, <3>1
    <3>3. QED
      BY <1>4, <3>2 DEF Listed
  <2>2. ASSUME NEW b \in Listed \ {head[i]} PROVE b \in Listed'
    <3>1. PICK k \in 1 .. Len(head) : head[k] = b
      BY DEF Listed
    <3>2. k \in 1 .. i - 1 \/ k \in i + 1 .. Len(head)
      BY <2>2, <3>1 DEF Types
    <3>3. \E j \in 1 .. Len(head') : head'[j] = b
      BY <1>3, <3>1, <3>2
    <3>4. QED
      BY <3>3 DEF Listed
  <2>3. QED
    BY <2>1, <2>2
<1>6. IdsApart'
  <2>1. \A b \in Listed' : heap'[b].id \in Ids
    <3>1. \A b \in Listed' : b \in Listed /\ b \in Addresses \ {head[i]}
      BY <1>4, <1>5, ListedPlace
    <3>2. QED
      BY <1>2, <3>1 DEF IdsApart
  <2>2. ASSUME NEW j \in 1 .. Len(head'), NEW k \in 1 .. Len(head'),
               heap'[head'[j]].id = heap'[head'[k]].id
        PROVE  j = k
    <3> DEFINE old(n) == IF n < i THEN n ELSE n + 1
    <3>1. /\ old(j) \in (1 .. Len(head)) \ {i} /\ head'[j] = head[old(j)]
          /\ old(k) \in (1 .. Len(head)) \ {i} /\ head'[k] = head[old(k)]
      BY <1>3
    <3>2. heap[head[old(j)]].id = heap[head[old(k)]].id
      BY <1>2, <1>4, <2>2, <3>1
    <3>3. old(j) = old(k)
      BY <3>1, <3>2 DEF IdsApart
    <3>4. QED
      BY <1>3, <3>3
  <2>3. QED
    BY <2>1, <2>2 DEF IdsApart
<1>7. QED
  BY <1>1, <1>2, <1>3, <1>5, <1>6

LEMMA map_unlockKeeps ==
  ASSUME MapInv, NEW p \in Procs, NEW id, map_unlock(p, id)
  PROVE  MapInv'
<1>1. UNCHANGED <<newlock, tmp, interrupts>>
  BY DEF map_unlock
<1>2. CASE UNCHANGED <<head, heap, pc>> /\ answer' = "failed"
  BY <1>1, <1>2 DEF MapInv, Types, MemoryKept, IdsApart, Waiting, Listed
<1>3. ASSUME NEW i \in 1 .. Len(head),
             heap[head[i]].id = id, head' = Without(i),
             heap' = [heap EXCEPT ![head[i]] = [@ EXCEPT !.used = FALSE, !.done = TRUE]],
             pc' = [q \in Procs |->
               IF pc[q] = "sleeps" /\ tmp[q] = head[i] THEN "woken" ELSE pc[q]],
             answer' = "ok"
      PROVE  MapInv'
  <2>1. /\ heap' \in [Addresses -> Contents] /\ head' \in Seq(Addresses)
        /\ head[i] \in Addresses /\ ~ heap'[head[i]].used
        /\ \A b \in Addresses \ {head[i]} : heap'[b] = heap[b]
        /\ Listed' = Listed \ {head[i]}
        /\ IdsApart'
    BY <1>3, UnlockEffect DEF MapInv
  <2>2. head[i] \in Listed
    BY DEF Listed
  <2>3. pc' \in [Procs -> Steps]
    BY <1>3 DEF MapInv, Types, Steps
  <2>4. Types'
    BY <1>1, <1>3, <2>1, <2>3 DEF MapInv, Types
  <2>5. MemoryKept'
    <3>1. \A b \in Listed : b \in Addresses
      BY ListedPlace DEF MapInv, Types
    <3>2. \A b \in Listed' : b \in Listed /\ b \in Addresses \ {head[i]}
      BY <2>1, <3>1
    <3>3. \A q \in Procs : newlock[q] # Null => newlock[q] \in Addresses \ {head[i]}
      BY <2>2 DEF MapInv, Types, MemoryKept
    <3>4. QED
      BY <1>1, <2>1, <3>2, <3>3 DEF MapInv, MemoryKept
  <2>6. Waiting'
    <3>1. \A q \in Procs : pc'[q] = "out" <=> pc[q] = "out"
      BY <1>3
    <3>2. QED
      BY <1>1, <2>1, <3>1 DEF MapInv, Waiting
  <2>7. QED
    BY <2>1, <2>4, <2>5, <2>6 DEF MapInv
<1>4. QED
  BY <1>2, <1>3 DEF map_unlock

LEMMA NextKeeps ==
  ASSUME MapInv, [Next]_vars
  PROVE  MapInv'
<1>1. CASE UNCHANGED vars
  BY <1>1 DEF vars, MapInv, Types, MemoryKept, IdsApart, Waiting, Listed
<1>2. ASSUME NEW p \in Procs, Wait(p) \/ Resume(p) PROVE MapInv'
  <2>1. PICK step \in Steps \ {"out"} :
          /\ pc[p] # "out" /\ pc' = [pc EXCEPT ![p] = step]
          /\ UNCHANGED <<heap, head, newlock, tmp, interrupts, answer>>
    BY <1>2 DEF Wait, Resume, Steps
  <2>2. QED
    BY <2>1, WaitingGoesOn
<1>3. CASE Next
  BY <1>2, <1>3, TryLockKeeps, map_lockKeeps, InterruptKeeps, RecheckKeeps, map_unlockKeeps
     DEF Next
<1>4. QED
  BY <1>1, <1>3

THEOREM MapAlways == Spec => []MapInv
BY InitMap, NextKeeps, PTL DEF Spec

(* Locks with different ids are at different addresses, so there are at    *)
(* most as many in the list as there are addresses.                        *)
LEMMA ListFitsMemory ==
  ASSUME Types, IdsApart
  PROVE  Len(head) <= Cardinality(Addresses)
<1>1. IsFiniteSet(1 .. Len(head)) /\ Cardinality(1 .. Len(head)) = Len(head)
  BY FS_Interval DEF Types
<1>2. Cardinality(Addresses) \in Nat /\ Len(head) \in Nat
  BY MapLockAssumption, FS_CardinalityType DEF Types
<1>3. head \in [1 .. Len(head) -> Addresses]
  BY DEF Types
<1>4. CASE Cardinality(Addresses) < Len(head)
  <2>1. PICK i, j \in 1 .. Len(head) : i # j /\ head[i] = head[j]
    BY <1>1, <1>3, <1>4, MapLockAssumption, FS_PigeonHole
  <2>2. QED
    BY <2>1 DEF IdsApart
<1>5. QED
  BY <1>2, <1>4

LEMMA Parts == MapInv => TypeOK /\ MemoryKept
BY ListFitsMemory DEF MapInv, Types, TypeOK

(* The memory, the list and what each process keeps have their types, and  *)
(* there are no more locks in the list than places in memory               *)
(* (maplock536.c:47-156).                                                  *)
THEOREM TypeCorrect == Spec => []TypeOK
BY MapAlways, Parts, PTL

(* Whatever processes read in locks that were freed, the memory of a lock  *)
(* that is in the list, or is to be put in, is not free and is not shared  *)
(* (maplock536.c:77-116, 136-141).                                         *)
THEOREM MemoryStaysKept == Spec => []MemoryKept
BY MapAlways, Parts, PTL

-----------------------------------------------------------------------------
(* The calls implement the abstract map of locks *)

RequestOf(l) == [type |-> l.type, area |-> l.area]

HeldLock(a) ==
  [owner |-> "anyone", id |-> heap[a].id, type |-> heap[a].type, area |-> heap[a].area]

LEMMA HeldIs == Held = {HeldLock(a) : a \in Listed}
BY DEF Held, HeldLock

LEMMA BlocksAgree == \A a, b : Service!Blocks(a, b) <=> Blocks(a, b)
BY DEF Service!Blocks, Service!Intersects, Service!Meets, Blocks, Intersects, Meets

LEMMA BlockedAgrees ==
  ASSUME NEW l
  PROVE  Blocking(l) = {} <=> ~ Service!Blocked(RequestOf(l))
<1>1. Blocking(l) = {} <=> \A a \in Listed : ~ Blocks(heap[a], l)
  BY DEF Blocking, Listed
<1>2. Service!Blocked(RequestOf(l)) <=> \E a \in Listed : Blocks(HeldLock(a), RequestOf(l))
  BY HeldIs, BlocksAgree DEF Service!Blocked
<1>3. \A a : Blocks(HeldLock(a), RequestOf(l)) <=> Blocks(heap[a], l)
  BY DEF Blocks, HeldLock, RequestOf
<1>4. QED
  BY <1>1, <1>2, <1>3

LEMMA HeldKept ==
  ASSUME Listed' = Listed, \A a \in Listed : heap'[a] = heap[a]
  PROVE  UNCHANGED Held
BY HeldIs DEF HeldLock, Held

LEMMA WantedIs ==
  ASSUME MapInv, NEW p \in Procs
  PROVE  /\ pc[p] = "out" => Wanted[p] = NoRequest
         /\ pc[p] # "out" => /\ Wanted[p] = RequestOf(heap[newlock[p]])
                            /\ Wanted[p] # NoRequest
<1>1. CASE pc[p] = "out"
  BY <1>1 DEF MapInv, Waiting, Wanted
<1>2. CASE pc[p] # "out"
  <2>1. Wanted[p] = RequestOf(heap[newlock[p]])
    BY <1>2, OwnNewLock DEF Wanted, RequestOf
  <2>2. heap[newlock[p]].type \in {"read", "write"} /\ heap[newlock[p]].area \in Rectangle
    BY <1>2, OwnNewLock DEF Contents
  <2>3. QED
    BY <1>2, <2>1, <2>2, MapLockAssumption DEF RequestOf
<1>3. QED
  BY <1>1, <1>2

(* A step that leaves alone what a process has to put in leaves alone what *)
(* it wants.                                                               *)
LEMMA WantedKept ==
  ASSUME MapInv, NEW S \in SUBSET Procs,
         \A p \in S : /\ newlock'[p] = newlock[p]
                      /\ newlock[p] # Null => heap'[newlock[p]] = heap[newlock[p]]
  PROVE  \A p \in S : Wanted'[p] = Wanted[p]
BY DEF Wanted

LEMMA OneWants ==
  ASSUME NEW p \in Procs, NEW r, Wanted'[p] = r,
         \A q \in Procs \ {p} : Wanted'[q] = Wanted[q]
  PROVE  Wanted' = [Wanted EXCEPT ![p] = r]
<1>1. /\ DOMAIN Wanted = Procs /\ Wanted = [q \in DOMAIN Wanted |-> Wanted[q]]
      /\ DOMAIN Wanted' = Procs /\ Wanted' = [q \in DOMAIN Wanted' |-> Wanted'[q]]
  BY DEF Wanted
<1>2. QED
  BY <1>1

LEMMA GrantImplements ==
  ASSUME MapInv, NEW p \in Procs, NEW a \in Addresses, a \notin Listed,
         NEW l \in Contents, Blocking(l) = {}, Grant(a, l)
  PROVE  Service!Grant(p, RequestOf(l))
<1>1. ~ Service!Blocked(RequestOf(l))
  BY BlockedAgrees
<1>2. Types /\ IdsApart
  BY DEF MapInv
<1>3. /\ Listed' = Listed \cup {a}
      /\ \A b \in Addresses \ {a} : heap'[b] = heap[b]
      /\ \E id \in Ids : /\ heap'[a] = [l EXCEPT !.id = id]
                         /\ \A b \in Listed : heap[b].id # id
  BY ONLY <1>2, a \notin Listed, Grant(a, l), GrantEffect
<1>4. PICK id \in Ids : /\ heap'[a] = [l EXCEPT !.id = id]
                        /\ \A b \in Listed : heap[b].id # id
  BY <1>3
<1>5. \A b \in Listed : b \in Addresses \ {a}
  BY <1>2, ListedPlace DEF Types
<1>6. HeldLock(a)' = Service!Lock(p, id, RequestOf(l))
  BY <1>4 DEF HeldLock, Service!Lock, RequestOf, Contents
<1>7. \A b \in Listed : HeldLock(b)' = HeldLock(b)
  BY <1>3, <1>5 DEF HeldLock
<1>8. Held' = {HeldLock(b)' : b \in Listed'}
  BY DEF Held, HeldLock
<1>9. Held' = Held \cup {Service!Lock(p, id, RequestOf(l))}
  BY <1>3, <1>6, <1>7, <1>8, HeldIs
<1>10. \A k \in Held : k.id # id
  BY <1>4, HeldIs DEF HeldLock
<1>11. answer' = "granted"
  BY DEF Grant
<1>12. QED
  BY <1>1, <1>4, <1>9, <1>10, <1>11 DEF Service!Grant

(* A process that is granted a lock stops waiting, and only it. *)
LEMMA GrantEndsWaiting ==
  ASSUME MapInv, NEW p \in Procs, NEW a \in Addresses, a \notin Listed,
         NEW l \in Contents, Grant(a, l),
         \A q \in Procs \ {p} : newlock[q] # a,
         newlock' = [newlock EXCEPT ![p] = Null]
  PROVE  Wanted' = [Wanted EXCEPT ![p] = NoRequest]
<1>1. \A b \in Addresses \ {a} : heap'[b] = heap[b]
  <2>1. Types /\ IdsApart
    BY DEF MapInv
  <2>2. QED
    BY ONLY <2>1, a \notin Listed, Grant(a, l), GrantEffect
<1>2. \A q \in Procs \ {p} : Wanted'[q] = Wanted[q]
  <2>1. \A q \in Procs \ {p} : newlock'[q] = newlock[q]
    BY DEF MapInv, Types
  <2>2. \A q \in Procs \ {p} : newlock[q] # Null => newlock[q] \in Addresses \ {a}
    BY DEF MapInv, Types
  <2>3. QED
    BY <1>1, <2>1, <2>2, WantedKept
<1>3. Wanted'[p] = NoRequest
  BY DEF Wanted, MapInv, Types
<1>4. QED
  BY <1>2, <1>3, OneWants

LEMMA NothingWanted ==
  ASSUME MapInv, NEW p \in Procs, pc[p] = "out"
  PROVE  Wanted = [Wanted EXCEPT ![p] = NoRequest]
BY WantedIs DEF Wanted

LEMMA RequestOfNew ==
  ASSUME NEW r \in Requests
  PROVE  RequestOf(NewLock(r)) = r /\ RequestOf(r) = r /\ (Blocking(r) = Blocking(NewLock(r)))
BY NewLockType DEF RequestOf, Blocking, Blocks

LEMMA TryLockImplements ==
  ASSUME MapInv, NEW p \in Procs, NEW r \in Requests, TryLock(p, r)
  PROVE  Service!Try(p, r)
<1>1. PICK a \in Addresses :
        /\ ~ heap[a].used
        /\ IF Blocking(r) = {} THEN Grant(a, NewLock(r))
           ELSE /\ heap' = [heap EXCEPT ![a] = [NewLock(r) EXCEPT !.used = FALSE]]
                /\ answer' = "failed"
                /\ UNCHANGED head
  BY DEF TryLock
<1>2. pc[p] = "out" /\ newlock' = newlock
  BY DEF TryLock
<1>3. a \notin Listed /\ \A q \in Procs : newlock[q] # a
  BY <1>1, UnusedIsNobodys
<1>4. Wanted[p] = NoRequest
  BY <1>2, WantedIs
<1>5. CASE Blocking(r) = {}
  <2>1. Grant(a, NewLock(r)) /\ Blocking(NewLock(r)) = {} /\ NewLock(r) \in Contents
    BY <1>1, <1>5, RequestOfNew, NewLockType
  <2>2. Service!Grant(p, r)
    BY <1>3, <2>1, GrantImplements, RequestOfNew
  <2>3. newlock' = [newlock EXCEPT ![p] = Null]
    BY <1>2, OutOfKernel DEF MapInv
  <2>4. Wanted' = Wanted
    BY <1>2, <1>3, <2>1, <2>3, GrantEndsWaiting, NothingWanted
  <2>5. QED
    BY <1>4, <2>2, <2>4 DEF Service!Try
<1>6. CASE Blocking(r) # {}
  <2>1. /\ heap' = [heap EXCEPT ![a] = [NewLock(r) EXCEPT !.used = FALSE]]
        /\ answer' = "failed"
        /\ UNCHANGED head
    BY <1>1, <1>6
  <2>2. \A b \in Addresses \ {a} : heap'[b] = heap[b]
    BY <2>1 DEF MapInv, Types
  <2>3. \A b \in Listed : b \in Addresses \ {a}
    BY <1>3, ListedPlace DEF MapInv, Types
  <2>4. UNCHANGED Held
    BY <2>1, <2>2, <2>3, ListedKept, HeldKept
  <2>5. UNCHANGED Wanted
    <3>1. \A q \in Procs : newlock[q] # Null => newlock[q] \in Addresses \ {a}
      BY <1>3 DEF MapInv, Types
    <3>2. QED
      BY <1>2, <2>2, <3>1, WantedKept DEF Wanted
  <2>6. Service!Blocked(r)
    BY <1>6, BlockedAgrees, RequestOfNew
  <2>7. QED
    BY <1>4, <2>1, <2>4, <2>5, <2>6 DEF Service!Try
<1>7. QED
  BY <1>5, <1>6

LEMMA map_lockImplements ==
  ASSUME MapInv, NEW p \in Procs, NEW r \in Requests, map_lock(p, r)
  PROVE  Service!Ask(p, r)
<1>1. PICK a \in Addresses :
        /\ ~ heap[a].used
        /\ \/ /\ Blocking(r) = {}
              /\ Grant(a, NewLock(r))
              /\ pc' = Stranded(a)
              /\ UNCHANGED <<newlock, tmp>>
           \/ /\ Postpone(p, a, r)
              /\ heap' = [heap EXCEPT ![a] = NewLock(r)]
              /\ pc' = [Stranded(a) EXCEPT ![p] = "called"]
  BY DEF map_lock
<1>2. a \notin Listed /\ \A q \in Procs : newlock[q] # a
  BY <1>1, UnusedIsNobodys
<1>3. pc[p] = "out" /\ Wanted[p] = NoRequest
  BY WantedIs DEF map_lock
<1>4. CASE Blocking(r) = {} /\ Grant(a, NewLock(r)) /\ UNCHANGED <<newlock, tmp>>
  <2>1. Grant(a, NewLock(r)) /\ Blocking(NewLock(r)) = {} /\ NewLock(r) \in Contents
    BY <1>4, RequestOfNew, NewLockType
  <2>2. Service!Grant(p, r)
    BY <1>2, <2>1, GrantImplements, RequestOfNew
  <2>3. newlock' = [newlock EXCEPT ![p] = Null]
    BY <1>3, <1>4, OutOfKernel DEF MapInv
  <2>4. Wanted' = Wanted
    BY <1>2, <1>3, <2>1, <2>3, GrantEndsWaiting, NothingWanted
  <2>5. QED
    BY <1>3, <2>2, <2>4 DEF Service!Ask
<1>5. CASE Postpone(p, a, r) /\ heap' = [heap EXCEPT ![a] = NewLock(r)]
  <2>1. /\ Blocking(r) # {} /\ newlock' = [newlock EXCEPT ![p] = a]
        /\ UNCHANGED <<head, answer>>
    BY <1>5 DEF Postpone
  <2>2. heap'[a] = NewLock(r) /\ \A b \in Addresses \ {a} : heap'[b] = heap[b]
    BY <1>5 DEF MapInv, Types
  <2>3. \A b \in Listed : b \in Addresses \ {a}
    BY <1>2, ListedPlace DEF MapInv, Types
  <2>4. UNCHANGED Held
    BY <2>1, <2>2, <2>3, ListedKept, HeldKept
  <2>5. Service!Blocked(r)
    BY <2>1, BlockedAgrees, RequestOfNew
  <2>6. Wanted' = [Wanted EXCEPT ![p] = r]
    <3>1. \A q \in Procs \ {p} : newlock'[q] = newlock[q]
      BY <2>1 DEF MapInv, Types
    <3>2. \A q \in Procs : newlock[q] # Null => newlock[q] \in Addresses \ {a}
      BY <1>2 DEF MapInv, Types
    <3>3. \A q \in Procs \ {p} : Wanted'[q] = Wanted[q]
      BY <2>2, <3>1, <3>2, WantedKept
    <3>4. newlock'[p] = a /\ a # Null
      BY <2>1, MapLockAssumption DEF MapInv, Types
    <3>5. Wanted'[p] = r
      BY <2>2, <3>4, RequestOfNew DEF Wanted, RequestOf
    <3>6. QED
      BY <3>3, <3>5, OneWants
  <2>7. QED
    BY <1>3, <2>1, <2>4, <2>5, <2>6 DEF Service!Ask
<1>6. QED
  BY <1>1, <1>4, <1>5

(* A process that is woken in vain waits again: nothing shows. *)
LEMMA RecheckImplements ==
  ASSUME MapInv, NEW p \in Procs, Recheck(p)
  PROVE  Service!Obtain(p) \/ UNCHANGED Service!vars
<1> DEFINE a == newlock[p]
<1>1. pc[p] # "out"
  BY DEF Recheck
<1>2. /\ a \in Addresses /\ a \notin Listed /\ heap[a] \in Contents
      /\ \A q \in Procs \ {p} : newlock[q] # a
  BY <1>1, OwnNewLock
<1>3. Wanted[p] = RequestOf(heap[a]) /\ Wanted[p] # NoRequest
  BY <1>1, WantedIs
<1>4. CASE /\ Blocking(heap[a]) = {}
           /\ Grant(a, heap[a])
           /\ newlock' = [newlock EXCEPT ![p] = Null]
  <2>1. Service!Grant(p, Wanted[p])
    BY <1>2, <1>3, <1>4, GrantImplements
  <2>2. Wanted' = [Wanted EXCEPT ![p] = NoRequest]
    BY <1>2, <1>4, GrantEndsWaiting
  <2>3. QED
    BY <1>3, <2>1, <2>2 DEF Service!Obtain
<1>5. CASE Postpone(p, a, heap[a]) /\ UNCHANGED heap
  <2>1. newlock' = newlock /\ UNCHANGED <<head, answer>>
    BY <1>5 DEF Postpone, MapInv, Types
  <2>2. UNCHANGED <<Held, Wanted>>
    BY <1>5, <2>1 DEF Held, Wanted, Listed
  <2>3. QED
    BY <2>1, <2>2 DEF Service!vars
<1>6. QED
  BY <1>4, <1>5 DEF Recheck

LEMMA InterruptImplements ==
  ASSUME MapInv, NEW p \in Procs, Interrupt(p)
  PROVE  Service!GiveUp(p)
<1>1. Wanted[p] # NoRequest
  BY WantedIs DEF Interrupt
<1>2. /\ newlock' = [newlock EXCEPT ![p] = Null] /\ UNCHANGED <<heap, head>>
      /\ answer' = "failed"
  BY DEF Interrupt
<1>3. UNCHANGED Held
  BY <1>2 DEF Held, Listed
<1>4. \A q \in Procs \ {p} : Wanted'[q] = Wanted[q]
  BY <1>2 DEF Wanted, MapInv, Types
<1>5. Wanted'[p] = NoRequest
  BY <1>2 DEF Wanted, MapInv, Types
<1>6. QED
  BY <1>1, <1>2, <1>3, <1>4, <1>5, OneWants DEF Service!GiveUp

LEMMA map_unlockImplements ==
  ASSUME MapInv, NEW p \in Procs, NEW id, map_unlock(p, id)
  PROVE  Service!Release(p, id)
<1> DEFINE mine == {k \in Held : k.id = id /\ k.owner = "anyone"}
<1>1. Wanted[p] = NoRequest /\ newlock' = newlock
  BY WantedIs DEF map_unlock
<1>2. mine = {HeldLock(a) : a \in {b \in Listed : heap[b].id = id}}
  BY HeldIs DEF HeldLock
<1>3. CASE /\ \A a \in Listed : heap[a].id # id
           /\ answer' = "failed"
           /\ UNCHANGED <<head, heap, pc>>
  <2>1. mine = {}
    BY <1>2, <1>3
  <2>2. UNCHANGED <<Held, Wanted>>
    BY <1>1, <1>3 DEF Held, Wanted, Listed
  <2>3. QED
    BY <1>1, <1>3, <2>1, <2>2 DEF Service!Release
<1>4. ASSUME NEW i \in 1 .. Len(head),
             heap[head[i]].id = id, head' = Without(i),
             heap' = [heap EXCEPT ![head[i]] = [@ EXCEPT !.used = FALSE, !.done = TRUE]],
             answer' = "ok"
      PROVE  Service!Release(p, id)
  <2>1. /\ head[i] \in Addresses
        /\ \A b \in Addresses \ {head[i]} : heap'[b] = heap[b]
        /\ Listed' = Listed \ {head[i]}
    BY <1>4, UnlockEffect DEF MapInv
  <2>2. head[i] \in Listed
    BY DEF Listed
  <2>3. {b \in Listed : heap[b].id = id} = {head[i]}
    BY <1>4, <2>2, ListedPlace DEF MapInv, IdsApart
  <2>4. mine = {HeldLock(head[i])}
    BY <1>2, <2>3
  <2>5. \A b \in Listed' : b \in Listed /\ HeldLock(b)' = HeldLock(b)
    BY <2>1, ListedPlace DEF HeldLock, MapInv, Types
  <2>6. Held' = {HeldLock(b)' : b \in Listed'}
    BY DEF Held, HeldLock
  <2>7. \A b \in Listed : HeldLock(b) = HeldLock(head[i]) => b = head[i]
    BY <1>4, <2>3 DEF HeldLock
  <2>8. Held' = Held \ mine
    BY <2>1, <2>4, <2>5, <2>6, <2>7, HeldIs
  <2>9. Wanted' = Wanted
    <3>1. \A q \in Procs : newlock[q] # Null => newlock[q] \in Addresses \ {head[i]}
      BY <2>2 DEF MapInv, Types, MemoryKept
    <3>2. \A q \in Procs : Wanted'[q] = Wanted[q]
      BY <1>1, <2>1, <3>1, WantedKept
    <3>3. QED
      BY <3>2 DEF Wanted
  <2>10. QED
    BY <1>1, <1>4, <2>4, <2>8, <2>9 DEF Service!Release
<1>5. QED
  BY <1>3, <1>4 DEF map_unlock

LEMMA NextImplements ==
  ASSUME MapInv, [Next]_vars
  PROVE  [Service!Next]_(Service!vars)
<1>1. CASE UNCHANGED vars
  BY <1>1 DEF vars, Service!vars, Held, Wanted, Listed
<1>2. ASSUME NEW p \in Procs, Wait(p) \/ Resume(p) PROVE UNCHANGED Service!vars
  BY <1>2 DEF Wait, Resume, Service!vars, Held, Wanted, Listed
<1>3. CASE Next
  BY <1>2, <1>3, TryLockImplements, map_lockImplements, RecheckImplements,
     InterruptImplements, map_unlockImplements DEF Next, Service!Next
<1>4. QED
  BY <1>1, <1>3

LEMMA InitImplements == Init => Service!Init
BY DEF Init, Service!Init, Held, Wanted, Listed

(* Whatever processes sleep on, are woken by or are interrupted in, the    *)
(* calls grant, refuse, make wait and release as the abstract map of locks *)
(* does, with ids that are used again (maplock536.c:24-156).               *)
THEOREM CallsImplementLockedMap == Spec => ImplementsLockedMap
<1>1. MapInv /\ [Next]_vars => [Service!Next]_(Service!vars)
  BY NextImplements
<1>2. QED
  BY <1>1, InitImplements, MapAlways, PTL DEF Spec, ImplementsLockedMap, Service!Spec
=============================================================================
