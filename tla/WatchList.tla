----------------------------- MODULE WatchList -----------------------------
(***************************************************************************)
(* What the watches of the region lock server promise to a client that     *)
(* keeps a list of them: WATCH puts an area on the list and answers with   *)
(* the next number, UNWATCH takes one of the client's own off it, WATCHES  *)
(* answers with the client's own.  The table, its counter and the          *)
(* threads that listen do not show.                                        *)
(***************************************************************************)
EXTENDS Integers

CONSTANTS
  Clients,  \* the clients, each with a process of its own
  Areas,    \* the areas they watch
  NoAnswer  \* what is being sent when no answer is

VARIABLES
  watched,  \* the watches: records of an owner, an id and an area
  watchID,  \* watchID[c]: the id of the next watch of c
  alive,    \* alive[c]: whether the process that serves c still runs
  answer    \* the answer that is being sent: to whom, what, which watches

vars == <<watched, watchID, alive, answer>>

Watch(c, id, area) == [owner |-> c, id |-> id, area |-> area]
Answer(c, reply, ws) == [to |-> c, reply |-> reply, watches |-> ws]
Own(c) == {w \in watched : w.owner = c}

Init ==
  /\ watched = {}
  /\ watchID = [c \in Clients |-> 1]
  /\ alive = [c \in Clients |-> TRUE]
  /\ answer = NoAnswer

(* One command after the other: an answer is sent before the next command. *)
Serves(c) == alive[c] /\ answer = NoAnswer

WATCH(c, area) ==
  /\ Serves(c)
  /\ watched' = watched \cup {Watch(c, watchID[c], area)}
  /\ watchID' = [watchID EXCEPT ![c] = @ + 1]
  /\ answer' = Answer(c, "id", {Watch(c, watchID[c], area)})
  /\ UNCHANGED alive

UNWATCH(c, id) ==
  /\ Serves(c)
  /\ LET named == {w \in Own(c) : w.id = id}
     IN  /\ watched' = watched \ named
         /\ answer' = Answer(c, IF named = {} THEN "failed" ELSE "ok", {})
  /\ UNCHANGED <<watchID, alive>>

(* A client without watches gets no answer at all. *)
WATCHES(c) ==
  /\ Serves(c)
  /\ Own(c) # {}
  /\ answer' = Answer(c, "list", Own(c))
  /\ UNCHANGED <<watched, watchID, alive>>

Sent ==
  /\ answer # NoAnswer
  /\ answer' = NoAnswer
  /\ UNCHANGED <<watched, watchID, alive>>

(* The process ends, with an answer unsent if it is being sent; the        *)
(* watches stay on the list.                                               *)
End(c) ==
  /\ alive[c]
  /\ alive' = [alive EXCEPT ![c] = FALSE]
  /\ UNCHANGED <<watched, watchID, answer>>

Next ==
  \/ \E c \in Clients :
       \/ \E area \in Areas : WATCH(c, area)
       \/ \E id \in 1 .. watchID[c] : UNWATCH(c, id)
       \/ WATCHES(c)
       \/ End(c)
  \/ Sent

Spec == Init /\ [][Next]_vars
=============================================================================
