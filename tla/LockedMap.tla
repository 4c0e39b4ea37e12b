----------------------------- MODULE LockedMap -----------------------------
(***************************************************************************)
(* What a service that locks regions of a map promises: a request is       *)
(* granted when no lock that is held blocks it, a request that does not    *)
(* wait is refused only when one does, and a client releases only locks    *)
(* that are its own.  How a client waits, and which of several waiting     *)
(* clients is next, does not show.                                         *)
(***************************************************************************)
EXTENDS Rectangles

CONSTANTS
  Clients,   \* those who ask for locks
  Requests,  \* the requests they make: records of a type and an area
  NoRequest, \* what a client that waits for nothing asks for
  Ids,       \* the ids that locks are given
  Owner      \* Owner[c]: the owner of the locks that c is granted

VARIABLES
  held,      \* the locks: records of an owner, an id, a type and an area
  wanted,    \* wanted[c]: the request that c waits for, or NoRequest
  answer     \* the last answer that a client got

vars == <<held, wanted, answer>>

Lock(c, id, r) == [owner |-> Owner[c], id |-> id, type |-> r.type, area |-> r.area]

Blocked(r) == \E l \in held : Blocks(l, r)

Init ==
  /\ held = {}
  /\ wanted = [c \in Clients |-> NoRequest]
  /\ answer = "none"

Grant(c, r) ==
  /\ ~ Blocked(r)
  /\ \E id \in Ids :
       /\ \A l \in held : l.id # id
       /\ held' = held \cup {Lock(c, id, r)}
  /\ answer' = "granted"

(* A request that does not wait. *)
Try(c, r) ==
  /\ wanted[c] = NoRequest
  /\ \/ Grant(c, r)
     \/ Blocked(r) /\ answer' = "failed" /\ UNCHANGED held
  /\ UNCHANGED wanted

(* A request that waits, and is granted at once or later. *)
Ask(c, r) ==
  /\ wanted[c] = NoRequest
  /\ \/ Grant(c, r) /\ UNCHANGED wanted
     \/ /\ Blocked(r)
        /\ wanted' = [wanted EXCEPT ![c] = r]
        /\ UNCHANGED <<held, answer>>

Obtain(c) ==
  /\ wanted[c] # NoRequest
  /\ Grant(c, wanted[c])
  /\ wanted' = [wanted EXCEPT ![c] = NoRequest]

(* A client gives up waiting. *)
GiveUp(c) ==
  /\ wanted[c] # NoRequest
  /\ wanted' = [wanted EXCEPT ![c] = NoRequest]
  /\ answer' = "failed"
  /\ UNCHANGED held

(* A client vanishes while it waits, without an answer. *)
Vanish(c) ==
  /\ wanted[c] # NoRequest
  /\ wanted' = [wanted EXCEPT ![c] = NoRequest]
  /\ UNCHANGED <<held, answer>>

Release(c, id) ==
  /\ wanted[c] = NoRequest
  /\ LET mine == {l \in held : l.id = id /\ l.owner = Owner[c]}
     IN  /\ held' = held \ mine
         /\ answer' = (IF mine = {} THEN "failed" ELSE "ok")
  /\ UNCHANGED wanted

Next ==
  \E c \in Clients :
    \/ \E r \in Requests : Try(c, r) \/ Ask(c, r)
    \/ Obtain(c)
    \/ GiveUp(c)
    \/ Vanish(c)
    \/ \E id \in Ids : Release(c, id)

Spec == Init /\ [][Next]_vars
=============================================================================
