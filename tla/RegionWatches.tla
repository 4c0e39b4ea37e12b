--------------------------- MODULE RegionWatches ---------------------------
(***************************************************************************)
(* The watches of the region lock server (hw2.cpp): the shared table       *)
(* `watches' with a condition variable in each slot, its counter and its   *)
(* mutex `wlock', and in the process that serves a client the main loop    *)
(* and one listener thread for each WATCH.  A lock that is granted or let  *)
(* go is reported into every slot whose area it meets, and the listener at *)
(* the slot tells its client.                                              *)
(*                                                                         *)
(* A thread is a pair of its client and a number, 0 for the main loop.     *)
(* What runs under the mutex up to a send is one step and the send, which  *)
(* ends by releasing the mutex, is another: the client may not read, or be *)
(* gone.  The table of locks is not part of this module; a process that    *)
(* serves may report any lock at any time, which covers UNLOCK, where the  *)
(* slot is read again after another client may have used it.               *)
(***************************************************************************)
EXTENDS Rectangles, FiniteSets

(* An operator whose comment begins with "Slip:" is a mistake the code     *)
(* could have made in the definition that follows it; no specification     *)
(* uses it.                                                                *)

CONSTANTS
  Clients,     \* the clients, each with a process and an owner id of its own
  Areas,       \* the areas they watch
  Locks,       \* the locks that are reported: records with an area
  NoLock,      \* what a slot says that nothing was ever reported into
  NoArea,      \* the area of a slot that was never used
  NoClient,    \* its owner, and who holds a mutex that is free
  NoAnswer,    \* what is being sent when no answer is
  MaxSize,     \* bound: slots of the table (MAXSIZE is 100000)
  MaxWatches   \* bound: how often the clients send WATCH, all together

ASSUME WatchesAssumption ==
  /\ IsFiniteSet(Clients)
  /\ Areas \subseteq Rectangle /\ NoArea \notin Areas
  /\ \A l \in Locks : l.area \in Rectangle
  /\ NoLock \notin Locks
  /\ NoClient \notin Clients
  /\ MaxSize \in Nat \ {0}
  /\ MaxWatches \in Nat

Slots == 0 .. MaxSize - 1
Main == 0
Listeners == 1 .. MaxWatches
Nobody == <<NoClient, Main>>

VARIABLES
  watches,    \* shared: in each slot a watch and the last report about it
  size,       \* shared: how many slots are active
  wlock,      \* shared: the thread that holds the mutex, or Nobody
  watchID,    \* watchID[c]: the id of the next watch of c
  arguments,  \* arguments[c].index, on the stack of the main loop of c
  alive,      \* alive[c]: whether the process that serves c still runs
  link,       \* link[c]: the client "reads", is "deaf" and does not, or is
              \* "gone", as it is for a process that has ended
  listener,   \* listener[c][n]: where the thread is, and its slot
  answer      \* the answer that is being sent: to whom, what, which watches

vars == <<watches, size, wlock, watchID, arguments, alive, link, listener, answer>>

Watch(c, id, area) == [owner |-> c, id |-> id, area |-> area]
Answer(c, reply, ws) == [to |-> c, reply |-> reply, watches |-> ws]

(* `stirred': woken by nobody.  `missed': the slot was let go, and its     *)
(* condition variable broadcast, between the test and the wait.            *)
Listener(at, index) ==
  [at |-> at, index |-> index, stirred |-> FALSE, missed |-> FALSE]

NoListeners == [n \in Listeners |-> Listener("none", 0)]

Init ==
  /\ watches = [i \in Slots |-> [active |-> FALSE, report |-> NoLock,
                                 watch |-> Watch(NoClient, 0, NoArea)]]
  /\ size = 0
  /\ wlock = Nobody
  /\ watchID = [c \in Clients |-> 1]
  /\ arguments = [c \in Clients |-> 0]
  /\ alive = [c \in Clients |-> TRUE]
  /\ link = [c \in Clients |-> "reads"]
  /\ listener = [c \in Clients |-> NoListeners]
  /\ answer = NoAnswer

-----------------------------------------------------------------------------
(* The table *)

Active(i) == watches[i].active

(* A loop over the table ends when it has seen `size' active slots. *)
Seen == {i \in Slots : Active(i) /\ Cardinality({j \in Slots : Active(j) /\ j < i}) < size}

(* The slot at which the loop stops. *)
First(slots, i) == i \in slots /\ \A j \in slots : i <= j

(* getFirstAvailableInd. *)
Available(i) == First({j \in Slots : ~ Active(j)}, i)

doesIntersect(i, l) == Intersects(watches[i].watch.area, l.area)

Own(c) == {i \in Seen : watches[i].watch.owner = c}

(* Slip: anybody's watch is found. *)
FoundOfAny(c, id) == {i \in Seen : watches[i].watch.id = id}
Found(c, id) == {i \in Own(c) : watches[i].watch.id = id}

-----------------------------------------------------------------------------
(* The main loop of a process *)

Serves(c) == alive[c] /\ wlock = Nobody

(* The slot is taken, and a thread is created that gets the address of the *)
(* arguments, which the next WATCH of this client writes over.             *)
WATCH(c, area) ==
  /\ Serves(c)
  /\ Cardinality({t \in Clients \X Listeners : t[2] < watchID[t[1]]}) < MaxWatches
  /\ \E i \in Slots :
       /\ Available(i)
       /\ watches' = [watches EXCEPT ![i].active = TRUE,
                                     ![i].watch = Watch(c, watchID[c], area)]
       /\ arguments' = [arguments EXCEPT ![c] = i]
  /\ size' = size + 1
  /\ listener' = [listener EXCEPT ![c][watchID[c]] = Listener("created", 0)]
  /\ watchID' = [watchID EXCEPT ![c] = @ + 1]
  /\ wlock' = <<c, Main>>
  /\ answer' = Answer(c, "id", {Watch(c, watchID[c], area)})
  /\ UNCHANGED <<alive, link>>

Waiting(c, n, i) == listener[c][n].at = "waits" /\ listener[c][n].index = i

(* Slip: pthread_cond_signal, which wakes one of them. *)
Signalled(c, n, i) ==
  LET waiting == {t \in Clients \X Listeners : Waiting(t[1], t[2], i)}
  IN  Waiting(c, n, i) /\ <<c, n>> = CHOOSE t \in waiting : TRUE
(* pthread_cond_broadcast wakes all that wait at the slot. *)
Woken(c, n, i) == Waiting(c, n, i)

(* Slip: the counter is left alone. *)
LetGoUncounted(i) ==
  /\ watches' = [watches EXCEPT ![i].active = FALSE]
  /\ UNCHANGED size
LetGo(i) ==
  /\ watches' = [watches EXCEPT ![i].active = FALSE]
  /\ size' = size - 1

UNWATCH(c, id) ==
  /\ Serves(c)
  /\ \/ \E i \in Slots :
          /\ First(Found(c, id), i)
          /\ LetGo(i)
          /\ listener' = [d \in Clients |-> [n \in Listeners |->
               LET t == listener[d][n]
               IN  IF Woken(d, n, i) THEN [t EXCEPT !.at = "woken"]
                   ELSE IF t.at = "enters" /\ t.index = i THEN [t EXCEPT !.missed = TRUE]
                   ELSE t]]
          /\ answer' = Answer(c, "ok", {})
     \/ /\ Found(c, id) = {}
        /\ answer' = Answer(c, "failed", {})
        /\ UNCHANGED <<watches, size, listener>>
  /\ wlock' = <<c, Main>>
  /\ UNCHANGED <<watchID, arguments, alive, link>>

(* Nothing is sent to a client that has no watch, and nothing changes.     *)
WATCHES(c) ==
  /\ Serves(c)
  /\ Own(c) # {}
  /\ wlock' = <<c, Main>>
  /\ answer' = Answer(c, "list", {watches[i].watch : i \in Own(c)})
  /\ UNCHANGED <<watches, size, watchID, arguments, alive, link, listener>>

(* checkWatchesRevise, after a lock was granted or let go. *)
Report(c, l) ==
  /\ Serves(c)
  /\ LET met == {i \in Seen : doesIntersect(i, l)}
     IN  /\ watches' = [i \in Slots |-> IF i \in met THEN [watches[i] EXCEPT !.report = l]
                                        ELSE watches[i]]
         /\ listener' = [d \in Clients |-> [n \in Listeners |->
              IF \E i \in met : Woken(d, n, i) THEN [listener[d][n] EXCEPT !.at = "woken"]
              ELSE listener[d][n]]]
  /\ UNCHANGED <<size, wlock, watchID, arguments, alive, link, answer>>

(* A process ends with all its threads, whatever they are doing; its       *)
(* watches stay, and so does the mutex if one of them holds it.            *)
Die(c) ==
  /\ alive' = [alive EXCEPT ![c] = FALSE]
  /\ link' = [link EXCEPT ![c] = "gone"]
  /\ listener' = [listener EXCEPT ![c] = NoListeners]

(* BYE, or the end of the input. *)
Exit(c) ==
  /\ alive[c]
  /\ wlock # <<c, Main>>
  /\ Die(c)
  /\ UNCHANGED <<watches, size, wlock, watchID, arguments, answer>>

-----------------------------------------------------------------------------
(* The listener threads *)

Goto(c, n, at) == listener' = [listener EXCEPT ![c][n].at = at]

(* The thread reads its arguments, which may be those of a later WATCH. *)
Start(c, n) ==
  /\ alive[c]
  /\ listener[c][n].at = "created"
  /\ listener' = [listener EXCEPT ![c][n] = Listener("tests", arguments[c])]
  /\ UNCHANGED <<watches, size, wlock, watchID, arguments, alive, link, answer>>

(* The condition of the loop is read without the mutex. *)
Test(c, n) ==
  /\ alive[c]
  /\ listener[c][n].at = "tests"
  /\ Goto(c, n, IF Active(listener[c][n].index) THEN "enters" ELSE "ended")
  /\ UNCHANGED <<watches, size, wlock, watchID, arguments, alive, link, answer>>

Wait(c, n) ==
  /\ Serves(c)
  /\ listener[c][n].at = "enters"
  /\ Goto(c, n, "waits")
  /\ UNCHANGED <<watches, size, wlock, watchID, arguments, alive, link, answer>>

(* pthread_cond_wait may return without a broadcast. *)
SpuriousWake(c, n) ==
  /\ alive[c]
  /\ listener[c][n].at = "waits"
  /\ listener' = [listener EXCEPT ![c][n].at = "woken", ![c][n].stirred = TRUE]
  /\ UNCHANGED <<watches, size, wlock, watchID, arguments, alive, link, answer>>

(* Slip: active is not tested again after the wait. *)
NeverLeaves(c, n) == FALSE
Leaves(c, n) == ~ Active(listener[c][n].index)

(* Slip: the mutex is kept on the way out of the loop. *)
BreakLocked(c, n) == Goto(c, n, "ended") /\ wlock' = <<c, n>>
Break(c, n) == Goto(c, n, "ended") /\ UNCHANGED wlock

(* The wait returns with the mutex; the thread leaves, or sends the report *)
(* with the mutex taken.                                                   *)
Wake(c, n) ==
  /\ Serves(c)
  /\ listener[c][n].at = "woken"
  /\ IF Leaves(c, n) THEN Break(c, n)
     ELSE Goto(c, n, "tells") /\ wlock' = <<c, n>>
  /\ UNCHANGED <<watches, size, watchID, arguments, alive, link, answer>>

-----------------------------------------------------------------------------
(* Sending with the mutex taken *)

(* The thread holds the mutex and has something to send. *)
Sends(c, n) ==
  /\ alive[c]
  /\ wlock = <<c, n>>
  /\ IF n = Main THEN answer # NoAnswer ELSE listener[c][n].at = "tells"

(* The message goes out, or into the buffer of the socket if the client    *)
(* does not read and there is still room, and the mutex is released.       *)
Send(c, n) ==
  /\ Sends(c, n)
  /\ link[c] # "gone"
  /\ wlock' = Nobody
  /\ listener' = [listener EXCEPT ![c] = [m \in Listeners |->
       IF m = n THEN Listener("tests", listener[c][m].index) ELSE listener[c][m]]]
  /\ answer' = NoAnswer
  /\ UNCHANGED <<watches, size, watchID, arguments, alive, link>>

(* The client is gone: SIGPIPE ends the process, which holds the mutex. *)
SIGPIPE(c, n) ==
  /\ Sends(c, n)
  /\ link[c] = "gone"
  /\ Die(c)
  /\ UNCHANGED <<watches, size, wlock, watchID, arguments, answer>>

(* The client stops reading, or goes away; what it has sent is still read. *)
ClientFails(c) ==
  /\ alive[c]
  /\ \/ link[c] = "reads" /\ link' = [link EXCEPT ![c] = "deaf"]
     \/ link[c] # "gone" /\ link' = [link EXCEPT ![c] = "gone"]
  /\ UNCHANGED <<watches, size, wlock, watchID, arguments, alive, listener, answer>>

-----------------------------------------------------------------------------
MainStep(c) ==
  \/ \E area \in Areas : WATCH(c, area)
  \/ \E id \in 1 .. watchID[c] : UNWATCH(c, id)
  \/ WATCHES(c)
  \/ \E l \in Locks : Report(c, l)
  \/ Exit(c)

ListenRegion(c, n) ==
  Start(c, n) \/ Test(c, n) \/ Wait(c, n) \/ SpuriousWake(c, n) \/ Wake(c, n)

Next ==
  \E c \in Clients :
    \/ MainStep(c)
    \/ \E n \in Listeners : ListenRegion(c, n)
    \/ \E n \in Listeners \cup {Main} : Send(c, n) \/ SIGPIPE(c, n)
    \/ ClientFails(c)

Spec == Init /\ [][Next]_vars

(* The kernel lets a thread run that can send, and one that ends do so.    *)
(* A send to a client that does not read need never return.                *)
FairSpec ==
  /\ Spec
  /\ \A c \in Clients, n \in Listeners \cup {Main} :
       /\ WF_vars(link[c] = "reads" /\ Send(c, n))
       /\ WF_vars(SIGPIPE(c, n))

-----------------------------------------------------------------------------
(* Properties *)

Watches == [owner : Clients, id : Listeners, area : Areas]

(* The counter is the number of active slots, and whoever holds the mutex  *)
(* is about to send.                                                       *)
TypeOK ==
  /\ watches \in [Slots -> [active : BOOLEAN, report : Locks \cup {NoLock},
                            watch : Watches \cup {Watch(NoClient, 0, NoArea)}]]
  /\ \A i \in Slots : Active(i) => watches[i].watch \in Watches
  /\ size = Cardinality({i \in Slots : Active(i)})
  /\ watchID \in [Clients -> 1 .. MaxWatches + 1]
  /\ arguments \in [Clients -> Slots]
  /\ alive \in [Clients -> BOOLEAN]
  /\ link \in [Clients -> {"reads", "deaf", "gone"}]
  /\ listener \in [Clients -> [Listeners ->
       [at : {"none", "created", "tests", "enters", "waits", "woken", "tells", "ended"},
        index : Slots, stirred : BOOLEAN, missed : BOOLEAN]]]
  /\ \A c \in Clients, n \in Listeners :
       listener[c][n].at = "tells" <=> wlock = <<c, n>> /\ alive[c]
  /\ answer # NoAnswer => wlock[2] = Main /\ wlock # Nobody
  /\ wlock \in {Nobody} \cup (Clients \X (Listeners \cup {Main}))

KeepsAll(c) ==
  Cardinality({i \in Slots : Active(i) /\ watches[i].watch.owner = c}) = watchID[c] - 1

(* Nobody is told of a watch that was let go.  A client that keeps its     *)
(* watches is told of its own only, and of a lock that shares a point with *)
(* the area it watches (unless the edges of one are the wrong way round,   *)
(* for which the comparisons say little), though other clients use the     *)
(* slots around and the arguments of its threads are written over          *)
(* (hw2.cpp:340-396, 884-891).                                             *)
TellsTruth ==
  \A c \in Clients, n \in Listeners :
    LET t == listener[c][n]
        w == watches[t.index]
    IN  t.at = "tells" =>
          /\ w.active
          /\ KeepsAll(c) => w.watch.owner = c
          /\ KeepsAll(c) /\ ~ t.stirred =>
               /\ w.report # NoLock
               /\ HasPoints(w.watch.area) /\ HasPoints(w.report.area) =>
                    SharePoint(w.watch.area, w.report.area)

(* A thread sleeps at a slot that is not active only if the watch was let  *)
(* go while it was between the test and the wait: whoever already waits    *)
(* is woken, also where two threads wait at one slot (hw2.cpp:383-389,     *)
(* 916).                                                                   *)
NoneLeftAsleep ==
  \A c \in Clients, n \in Listeners :
    LET t == listener[c][n]
    IN  t.at = "waits" /\ ~ t.missed => Active(t.index)

(* The mutex is released again and again, unless its holder is the process *)
(* of a client that does not read, or one that ended while it sent         *)
(* (hw2.cpp:387-396, 853-965).                                             *)
MutexFreed ==
  []<>(\/ wlock = Nobody
       \/ \E c \in Clients, n \in Listeners \cup {Main} :
            wlock = <<c, n>> /\ (~ alive[c] \/ link[c] = "deaf"))

List == INSTANCE WatchList WITH
  watched <- {watches[i].watch : i \in {j \in Slots : Active(j)}}

(* For every order of the commands of all clients, WATCH, UNWATCH and      *)
(* WATCHES answer as a plain list would: first-fit slots, reused slots and *)
(* the counter do not show (hw2.cpp:853-965).                              *)
ImplementsWatchList == List!Spec
=============================================================================
