---------------------------- MODULE RegionLocks ----------------------------
(***************************************************************************)
(* The locks of the region lock server (hw2.cpp): the shared table         *)
(* `regions' with a condition variable in each of its slots, the counters  *)
(* `size' and `nextLockId', and the processes that serve one client each.  *)
(* What runs from pthread_mutex_lock(&env->envlock) to the unlock is one   *)
(* step; a command that waits is two or more, because pthread_cond_wait    *)
(* releases the mutex.                                                     *)
(*                                                                         *)
(* A slot that is let go keeps the lock but is not active.  The watches,   *)
(* to which a command reports once it has released the mutex, are not part *)
(* of this module.                                                         *)
(***************************************************************************)
EXTENDS Rectangles, FiniteSets

(* An operator whose comment begins with "Slip:" is a mistake the code     *)
(* could have made in the definition that follows it; no specification     *)
(* uses it.                                                                *)

CONSTANTS
  Clients,    \* the clients, each with a process and an owner id of its own
  Requests,   \* the requests they make: records of a type and an area
  NoLock,     \* what a slot holds that was never used
  NoRequest,  \* what a client asks for that does not wait, for LockedMap
  MaxSize,    \* bound: slots of the table (MAXSIZE is 100000)
  MaxIds      \* bound: how many locks are granted or waited for

ASSUME LocksAssumption ==
  /\ Requests \subseteq [type : {"read", "write"}, area : Rectangle]
  /\ MaxSize \in Nat \ {0}
  /\ MaxIds \in Nat
  /\ NoRequest \notin [type : {"read", "write"}, area : Rectangle]

Slots == 0 .. MaxSize - 1
NoSlot == -1
Ids == 1 .. MaxIds
Locks == [owner : Clients, id : Ids, type : {"read", "write"}, area : Rectangle]

ASSUME NoLockAssumption == NoLock \notin Locks

VARIABLES
  regions,     \* shared: the lock in each slot, and whether the slot is active
  size,        \* shared: how many slots are active
  nextLockId,  \* shared: the id of the next lock
  envlock,     \* shared: the mutex is "free", or "lost" with a dead process
  pc,          \* pc[c]: "reads" a command, "waits", is "woken", or is "gone"
  request,     \* request[c]: the lock that c waits for, or NoLock
  at,          \* at[c]: the slot whose condition variable c waits for
  answer       \* the last answer that a client got

vars == <<regions, size, nextLockId, envlock, pc, request, at, answer>>

Init ==
  /\ regions = [s \in Slots |-> [active |-> FALSE, lock |-> NoLock]]
  /\ size = 0
  /\ nextLockId = 1
  /\ envlock = "free"
  /\ pc = [c \in Clients |-> "reads"]
  /\ request = [c \in Clients |-> NoLock]
  /\ at = [c \in Clients |-> NoSlot]
  /\ answer = "none"

-----------------------------------------------------------------------------
(* The table *)

Active(s) == regions[s].active

(* Slip: slots that are not active are seen too. *)
SeenIdle == {s \in Slots : regions[s].lock # NoLock}
(* The slots that a loop over the table gets to see: it ends when it has   *)
(* seen `size' active ones.                                                *)
Seen == {s \in Slots : Active(s) /\ Cardinality({t \in Slots : Active(t) /\ t < s}) < size}

Blocking(l) == {s \in Seen : Blocks(regions[s].lock, l)}

(* The slot at which the loop stops. *)
First(slots, s) == s \in slots /\ \A t \in slots : s <= t

Lock(c, r) == [owner |-> c, id |-> nextLockId, type |-> r.type, area |-> r.area]

(* getFirstAvailableInd. *)
Available(s) == First({t \in Slots : ~ Active(t)}, s)

(* Slip: a lock that is let go stays counted. *)
PutUncounted(s, active, lock) ==
  /\ regions' = [regions EXCEPT ![s] = [active |-> active, lock |-> lock]]
  /\ size' = size + (IF active THEN 1 ELSE 0)
Put(s, active, lock) ==
  /\ regions' = [regions EXCEPT ![s] = [active |-> active, lock |-> lock]]
  /\ size' = size + (IF active THEN 1 ELSE -1)

Grant(l) ==
  /\ \E s \in Slots : Available(s) /\ Put(s, TRUE, l)
  /\ answer' = "granted"

-----------------------------------------------------------------------------
(* Commands.  A process that locks a mutex that is lost waits for ever. *)

(* TRYLOCKR and TRYLOCKW: if the lock is not granted its id is given back. *)
TRYLOCK(c, r) ==
  /\ pc[c] = "reads" /\ envlock = "free"
  /\ nextLockId <= MaxIds
  /\ IF Blocking(Lock(c, r)) = {}
     THEN Grant(Lock(c, r)) /\ nextLockId' = nextLockId + 1
     ELSE answer' = "failed" /\ UNCHANGED <<regions, size, nextLockId>>
  /\ UNCHANGED <<envlock, pc, request, at>>

(* LOCKR and LOCKW look for a lock that blocks them, at first and whenever *)
(* the wait for one is over.  Waiting keeps the id.                        *)
GrantOrWait(c, l) ==
  \/ /\ Blocking(l) = {}
     /\ Grant(l)
     /\ pc' = [pc EXCEPT ![c] = "reads"]
     /\ request' = [request EXCEPT ![c] = NoLock]
     /\ at' = [at EXCEPT ![c] = NoSlot]
  \/ \E s \in Slots :
       /\ First(Blocking(l), s)
       /\ pc' = [pc EXCEPT ![c] = "waits"]
       /\ request' = [request EXCEPT ![c] = l]
       /\ at' = [at EXCEPT ![c] = s]
       /\ UNCHANGED <<regions, size, answer>>

(* Slip: a lock that is waited for does not use up its id. *)
TakenIfGranted(l) == IF Blocking(l) = {} THEN nextLockId + 1 ELSE nextLockId
Taken(l) == nextLockId + 1

LOCK(c, r) ==
  /\ pc[c] = "reads" /\ envlock = "free"
  /\ nextLockId <= MaxIds
  /\ nextLockId' = Taken(Lock(c, r))
  /\ GrantOrWait(c, Lock(c, r))
  /\ UNCHANGED envlock

Recheck(c) ==
  /\ pc[c] = "woken" /\ envlock = "free"
  /\ GrantOrWait(c, request[c])
  /\ UNCHANGED <<nextLockId, envlock>>

(* Slip: pthread_cond_signal, which wakes one of them. *)
SignalWakes(s) ==
  LET waiting == {c \in Clients : pc[c] = "waits" /\ at[c] = s}
  IN  IF waiting = {} THEN {} ELSE {CHOOSE c \in waiting : TRUE}
(* Slip: nobody is told. *)
WakesNone(s) == {}
(* pthread_cond_broadcast wakes all that wait at the slot. *)
Wakes(s) == {c \in Clients : pc[c] = "waits" /\ at[c] = s}

(* Slip: anybody's lock is found. *)
FoundOfAny(c, id) == {s \in Seen : regions[s].lock.id = id}
Found(c, id) == {s \in Seen : regions[s].lock.id = id /\ regions[s].lock.owner = c}

UNLOCK(c, id) ==
  /\ pc[c] = "reads" /\ envlock = "free"
  /\ \/ \E s \in Slots :
          /\ First(Found(c, id), s)
          /\ Put(s, FALSE, regions[s].lock)
          /\ pc' = [d \in Clients |-> IF d \in Wakes(s) THEN "woken" ELSE pc[d]]
          /\ answer' = "ok"
     \/ /\ Found(c, id) = {}
        /\ answer' = "failed"
        /\ UNCHANGED <<regions, size, pc>>
  /\ UNCHANGED <<nextLockId, envlock, request, at>>

(* pthread_cond_wait may return without a broadcast. *)
SpuriousWake(c) ==
  /\ pc[c] = "waits"
  /\ pc' = [pc EXCEPT ![c] = "woken"]
  /\ UNCHANGED <<regions, size, nextLockId, envlock, request, at, answer>>

(* The process ends.  Its locks stay; what it waited for it waits for no   *)
(* more.                                                                   *)
End(c) ==
  /\ pc' = [pc EXCEPT ![c] = "gone"]
  /\ request' = [request EXCEPT ![c] = NoLock]
  /\ at' = [at EXCEPT ![c] = NoSlot]
  /\ UNCHANGED <<regions, size, nextLockId, answer>>

(* BYE, the end of the input, or SIGPIPE while an answer is sent.          *)
Leave(c) ==
  /\ pc[c] = "reads"
  /\ End(c)
  /\ UNCHANGED envlock

(* A listener of the process gets SIGPIPE as it reports to a client that   *)
(* has closed, and ends the process wherever its main thread is: while it  *)
(* waits or is about to take the mutex again, or while it holds it, in a   *)
(* command or in its recheck.  The mutex is not robust: nobody gets it     *)
(* again, and so nobody reads what the process was writing to the table,   *)
(* which is left as it was.  A broadcast that never returns, because a     *)
(* process was killed as it waited at the slot, does the same.             *)
Killed(c) ==
  /\ End(c)
  /\ \/ pc[c] \in {"waits", "woken"} /\ UNCHANGED envlock
     \/ /\ pc[c] \in {"reads", "woken"} /\ envlock = "free"
        /\ envlock' = "lost"

Next ==
  \E c \in Clients :
    \/ \E r \in Requests : TRYLOCK(c, r) \/ LOCK(c, r)
    \/ \E id \in Ids : UNLOCK(c, id)
    \/ Recheck(c)
    \/ SpuriousWake(c)
    \/ Leave(c)
    \/ Killed(c)

Spec == Init /\ [][Next]_vars

(* A process that is woken gets the mutex in the end, if it is not lost:   *)
(* nobody else keeps it.  Clients need not send commands, nor unlock       *)
(* anything.                                                               *)
FairSpec == Spec /\ \A c \in Clients : WF_vars(Recheck(c))

-----------------------------------------------------------------------------
(* Properties *)

TypeOK ==
  /\ regions \in [Slots -> [active : BOOLEAN, lock : Locks \cup {NoLock}]]
  /\ \A s \in Slots : Active(s) => regions[s].lock \in Locks
  /\ size \in 0 .. MaxSize
  /\ nextLockId \in 1 .. MaxIds + 1
  /\ envlock \in {"free", "lost"}
  /\ pc \in [Clients -> {"reads", "waits", "woken", "gone"}]
  /\ request \in [Clients -> Locks \cup {NoLock}]
  /\ at \in [Clients -> Slots \cup {NoSlot}]
  /\ answer \in {"none", "granted", "failed", "ok"}

(* Whatever was granted, waited for and let go before, a lock for writing  *)
(* shares no point of the map with another lock (hw2.cpp:108-137, 557).    *)
NoConflict ==
  \A s, t \in Slots :
    /\ Active(s) /\ Active(t) /\ s # t
    /\ SharePoint(regions[s].lock.area, regions[t].lock.area)
    => regions[s].lock.type = "read" /\ regions[t].lock.type = "read"

(* The loops over the table, which count to size and not to MAXSIZE, see   *)
(* every active slot and stay within the table (hw2.cpp:556-568, 751).     *)
SizeExact == size = Cardinality({s \in Slots : Active(s)})

(* A client that waits, waits for a lock that is held and blocks it: no    *)
(* broadcast was missed, and no slot was used again under it               *)
(* (hw2.cpp:661-688, 770-773).                                             *)
NoneStranded ==
  \A c \in Clients :
    pc[c] = "waits" => Active(at[c]) /\ Blocks(regions[at[c]].lock, request[c])

(* No two locks, held or waited for, have the same id, though one that is  *)
(* refused gives its id back while others wait with theirs                 *)
(* (hw2.cpp:551, 582, 652).                                                *)
UniqueIds ==
  /\ \A s, t \in Slots :
       Active(s) /\ Active(t) /\ regions[s].lock.id = regions[t].lock.id => s = t
  /\ \A c, d \in Clients :
       request[c] # NoLock /\ request[d] # NoLock /\ request[c].id = request[d].id
       => c = d
  /\ \A s \in Slots, c \in Clients :
       Active(s) /\ request[c] # NoLock => regions[s].lock.id # request[c].id

(* Nobody waits for ever for a lock that nothing blocks, however the slot  *)
(* it waits at is used again and whoever is killed as it waits, unless a   *)
(* process is killed while it holds the mutex (hw2.cpp:287, 654-688).      *)
WaitersServed ==
  \A c \in Clients :
    []<>(\/ envlock = "lost"
         \/ request[c] # NoLock =>
              \E s \in Slots : Active(s) /\ Blocks(regions[s].lock, request[c]))

(* The locks that are held and the requests that wait, as LockedMap sees them. *)
Held == {regions[s].lock : s \in {t \in Slots : Active(t)}}
Wanted ==
  [c \in Clients |-> IF request[c] = NoLock THEN NoRequest
                    ELSE [type |-> request[c].type, area |-> request[c].area]]

Service == INSTANCE LockedMap WITH
  Owner <- [c \in Clients |-> c], held <- Held, wanted <- Wanted

(* Every command answers as the abstract map of locks does, for every      *)
(* order of the commands of all clients: the slots, the counter and the    *)
(* waiting do not show (hw2.cpp:541-788).                                  *)
ImplementsLockedMap == Service!Spec
=============================================================================
