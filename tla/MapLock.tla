------------------------------ MODULE MapLock ------------------------------
(***************************************************************************)
(* The system calls map_lock and map_unlock (maplock536.c): a linked list  *)
(* of the locks that are held, under one mutex, and in each lock a         *)
(* completion that waiting processes sleep on.  What runs from mutex_lock  *)
(* to mutex_unlock is one step; between them and while it sleeps a process *)
(* keeps a pointer to the lock it waits for.                               *)
(*                                                                         *)
(* map_unlock frees the lock while processes may still use the pointer.    *)
(* Freed memory keeps its contents until kmalloc hands it out again for a  *)
(* lock of another request; the locks are the only users of their memory   *)
(* that are modelled.                                                      *)
(***************************************************************************)
EXTENDS Rectangles, FiniteSets, Sequences, SequencesExt

(* An operator whose comment begins with "Slip:" is a mistake the code     *)
(* could have made in the definition that follows it; no specification     *)
(* uses it.                                                                *)

CONSTANTS
  Procs,      \* the processes that make the calls
  Requests,   \* the requests they make: records of a type and an area
  Addresses,  \* where kmalloc can put a lock
  Null,       \* the pointer of a process that waits for nothing
  NoRequest,  \* what such a process asks for, for LockedMap
  MaxInterrupts  \* bound: how many waiting processes get a signal

ASSUME MapLockAssumption ==
  /\ IsFiniteSet(Addresses)
  /\ Null \notin Addresses
  /\ NoRequest \notin [type : {"read", "write"}, area : Rectangle]
  /\ Requests \subseteq [type : {"read", "write"}, area : Rectangle]
  /\ MaxInterrupts \in Nat

Ids == 1 .. Cardinality(Addresses)

VARIABLES
  heap,        \* heap[a]: the lock at address a, in use or freed
  head,        \* the list of the addresses of the locks that are held
  pc,          \* pc[p]: where process p is; see Steps
  newlock,     \* newlock[p]: the lock that waiting process p wants to put in
  tmp,         \* tmp[p]: the lock whose completion p waits for
  interrupts,  \* history: how many waits were interrupted
  answer       \* what the last call returned

vars == <<heap, head, pc, newlock, tmp, interrupts, answer>>

(* "out" of the kernel; "called" with the mutex released, about to sleep;  *)
(* "sleeps" in the queue of the completion; "woken" by complete_all;       *)
(* "lost", asleep in no queue; "returned" from the wait.                   *)
Steps == {"out", "called", "sleeps", "woken", "lost", "returned"}

Unused == [used |-> FALSE, id |-> 0, done |-> FALSE, type |-> "read", area |-> NoRequest]

Init ==
  /\ heap = [a \in Addresses |-> Unused]
  /\ head = << >>
  /\ pc = [p \in Procs |-> "out"]
  /\ newlock = [p \in Procs |-> Null]
  /\ tmp = [p \in Procs |-> Null]
  /\ interrupts = 0
  /\ answer = "none"

-----------------------------------------------------------------------------
(* The list *)

Listed == {head[i] : i \in 1 .. Len(head)}

(* The new lock as kmalloc and init_completion leave it; 0 is no id yet. *)
NewLock(r) == [used |-> TRUE, id |-> 0, done |-> FALSE, type |-> r.type, area |-> r.area]

Blocking(l) == {i \in 1 .. Len(head) : Blocks(heap[head[i]], l)}

(* Slip: ids count the locks. *)
CountedID(id) == id = Len(head) + 1
(* The smallest id that no lock in the list has. *)
firstAvailableID(id) ==
  /\ id \in Ids
  /\ \A a \in Listed : heap[a].id # id
  /\ \A k \in 1 .. id - 1 : \E a \in Listed : heap[a].id = k

Grant(a, l) ==
  /\ \E id \in Ids : firstAvailableID(id) /\ heap' = [heap EXCEPT ![a] = [l EXCEPT !.id = id]]
  /\ head' = <<a>> \o head
  /\ answer' = "granted"

-----------------------------------------------------------------------------
(* map_lock *)

(* init_completion empties the queue of the lock it makes: whoever sleeps  *)
(* in it, on a lock that was here before, is in no queue any more.         *)
Stranded(a) ==
  [q \in Procs |-> IF pc[q] = "sleeps" /\ tmp[q] = a THEN "lost" ELSE pc[q]]

(* MAP_TRYLOCK: the lock that was allocated is freed again. *)
TryLock(p, r) ==
  /\ pc[p] = "out"
  /\ \E a \in Addresses :
       /\ ~ heap[a].used
       /\ pc' = Stranded(a)
       /\ IF Blocking(r) = {}
          THEN Grant(a, NewLock(r))
          ELSE /\ heap' = [heap EXCEPT ![a] = [NewLock(r) EXCEPT !.used = FALSE]]
               /\ answer' = "failed"
               /\ UNCHANGED head
  /\ UNCHANGED <<newlock, tmp, interrupts>>

(* The loop finds the first lock of the list that blocks the new one, and  *)
(* releases the mutex; the wait follows, with a step in between.           *)
Postpone(p, a, l) ==
  \E i \in Blocking(l) :
    /\ \A j \in Blocking(l) : i <= j
    /\ tmp' = [tmp EXCEPT ![p] = head[i]]
    /\ newlock' = [newlock EXCEPT ![p] = a]
    /\ UNCHANGED <<head, answer>>

map_lock(p, r) ==
  /\ pc[p] = "out"
  /\ \E a \in Addresses :
       /\ ~ heap[a].used
       /\ \/ /\ Blocking(r) = {}
             /\ Grant(a, NewLock(r))
             /\ pc' = Stranded(a)
             /\ UNCHANGED <<newlock, tmp>>
          \/ /\ Postpone(p, a, r)
             /\ heap' = [heap EXCEPT ![a] = NewLock(r)]
             /\ pc' = [Stranded(a) EXCEPT ![p] = "called"]
  /\ UNCHANGED interrupts

(* wait_for_completion_interruptible looks at the lock again without the   *)
(* mutex, and sleeps if it is not complete.                                *)
Wait(p) ==
  /\ pc[p] = "called"
  /\ pc' = [pc EXCEPT ![p] = IF heap[tmp[p]].done THEN "returned" ELSE "sleeps"]
  /\ UNCHANGED <<heap, head, newlock, tmp, interrupts, answer>>

(* A process that was woken looks once more.  If the memory has become     *)
(* another lock, which is not complete, it sleeps again, but in the queue  *)
(* that init_completion has emptied.                                       *)
Resume(p) ==
  /\ pc[p] = "woken"
  /\ pc' = [pc EXCEPT ![p] = IF heap[tmp[p]].done THEN "returned" ELSE "lost"]
  /\ UNCHANGED <<heap, head, newlock, tmp, interrupts, answer>>

(* A signal ends the wait: map_lock returns 0 and leaves the memory of the *)
(* new lock allocated.                                                     *)
Interrupt(p) ==
  /\ pc[p] \in {"called", "sleeps", "lost"}
  /\ interrupts < MaxInterrupts
  /\ interrupts' = interrupts + 1
  /\ pc' = [pc EXCEPT ![p] = "out"]
  /\ newlock' = [newlock EXCEPT ![p] = Null]
  /\ tmp' = [tmp EXCEPT ![p] = Null]
  /\ answer' = "failed"
  /\ UNCHANGED <<heap, head>>

(* After the wait the mutex is taken and the list searched from the start. *)
Recheck(p) ==
  /\ pc[p] = "returned"
  /\ LET a == newlock[p]
         l == heap[newlock[p]]
     IN  \/ /\ Blocking(l) = {}
            /\ Grant(a, l)
            /\ pc' = [pc EXCEPT ![p] = "out"]
            /\ newlock' = [newlock EXCEPT ![p] = Null]
            /\ tmp' = [tmp EXCEPT ![p] = Null]
         \/ /\ Postpone(p, a, l)
            /\ pc' = [pc EXCEPT ![p] = "called"]
            /\ UNCHANGED heap
  /\ UNCHANGED interrupts

-----------------------------------------------------------------------------
(* map_unlock *)

(* Slip: the lock is freed while it is in the list. *)
KeepsListed(i) == head
Without(i) == RemoveAt(head, i)

(* Whoever knows an id can release the lock.  complete_all wakes all that  *)
(* sleep on it, and the lock is freed before any of them runs.             *)
map_unlock(p, id) ==
  /\ pc[p] = "out"
  /\ \/ \E i \in 1 .. Len(head) :
          /\ heap[head[i]].id = id
          /\ head' = Without(i)
          /\ heap' = [heap EXCEPT ![head[i]] = [@ EXCEPT !.used = FALSE, !.done = TRUE]]
          /\ pc' = [q \in Procs |->
               IF pc[q] = "sleeps" /\ tmp[q] = head[i] THEN "woken" ELSE pc[q]]
          /\ answer' = "ok"
     \/ /\ \A a \in Listed : heap[a].id # id
        /\ answer' = "failed"
        /\ UNCHANGED <<head, heap, pc>>
  /\ UNCHANGED <<newlock, tmp, interrupts>>

Next ==
  \E p \in Procs :
    \/ \E r \in Requests : TryLock(p, r) \/ map_lock(p, r)
    \/ Wait(p)
    \/ Resume(p)
    \/ Interrupt(p)
    \/ Recheck(p)
    \/ \E id \in Ids : map_unlock(p, id)

Spec == Init /\ [][Next]_vars

(* A process in the kernel that can run runs, and gets the mutex in the    *)
(* end.  Processes need not make calls, nor get signals.                   *)
FairSpec ==
  Spec /\ \A p \in Procs : WF_vars(Wait(p)) /\ WF_vars(Resume(p)) /\ WF_vars(Recheck(p))

-----------------------------------------------------------------------------
(* Properties *)

Contents == [used : BOOLEAN, id : Ids \cup {0}, done : BOOLEAN,
             type : {"read", "write"}, area : Rectangle \cup {NoRequest}]

TypeOK ==
  /\ heap \in [Addresses -> Contents]
  /\ head \in Seq(Addresses) /\ Len(head) <= Cardinality(Addresses)
  /\ pc \in [Procs -> Steps]
  /\ newlock \in [Procs -> Addresses \cup {Null}]
  /\ tmp \in [Procs -> Addresses \cup {Null}]
  /\ interrupts \in 0 .. MaxInterrupts
  /\ answer \in {"none", "granted", "failed", "ok"}

(* The memory of the locks in the list, and of the locks that wait to be   *)
(* put in, is not free, and no two of them share it: what the use of freed *)
(* locks by waiting processes breaks, it is not the list                   *)
(* (maplock536.c:77-116, 136-141).                                         *)
MemoryKept ==
  /\ \A a \in Listed : heap[a].used /\ ~ heap[a].done
  /\ \A p \in Procs : newlock[p] # Null => heap[newlock[p]].used /\ newlock[p] \notin Listed
  /\ \A p, q \in Procs : newlock[p] # Null /\ newlock[p] = newlock[q] => p = q

(* "When a lock cannot be immediately given to a request, request blocks   *)
(* until the area can be locked": it does not stay blocked while no lock   *)
(* blocks it (maplock536.c:90-111).                                        *)
WaitersServed ==
  \A p \in Procs :
    []<>(newlock[p] # Null => \E a \in Listed : Blocks(heap[a], heap[newlock[p]]))

(* The locks and the requests that wait, as LockedMap sees them; there are *)
(* no owners.                                                              *)
Held ==
  {[owner |-> "anyone", id |-> heap[a].id, type |-> heap[a].type, area |-> heap[a].area] :
     a \in Listed}
Wanted ==
  [p \in Procs |-> IF newlock[p] = Null THEN NoRequest
                   ELSE [type |-> heap[newlock[p]].type, area |-> heap[newlock[p]].area]]

Service == INSTANCE LockedMap WITH
  Clients <- Procs, Owner <- [p \in Procs |-> "anyone"], held <- Held, wanted <- Wanted

(* Every call answers as the abstract map of locks does, whoever slept on  *)
(* what and was interrupted: locks that exclude each other are never held  *)
(* together, and "returned id uniquely identifies a successful lock        *)
(* request", though ids are used again (maplock536.c:24-45, 47-65,         *)
(* 67-156).                                                                *)
ImplementsLockedMap == Service!Spec
=============================================================================
