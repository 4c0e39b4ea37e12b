--------------------------- MODULE FollowRegistry ---------------------------
(***************************************************************************)
(* What the registry of followed words promises, without the hash table:   *)
(* a set of (agent, word) pairs of at most Limit pairs.  A SEND notifies   *)
(* exactly the agents that registered one of its words.                    *)
(*                                                                         *)
(* An agent is the process that serves one client; it is known by its pid. *)
(* What is assumed of the constants stands in the modules that use this    *)
(* one, FollowTable and MessBoard.                                         *)
(* A word stands for all its spellings in upper and lower case.            *)
(***************************************************************************)
EXTENDS Naturals, FiniteSets

CONSTANTS
  Pids,      \* the pids of the agents
  Words,     \* the words that are followed and sent
  Limit,     \* MAX_FOLLOWER: how many pairs the registry takes
  AllowDisconnect  \* whether clients may close the connection without BYE

VARIABLES
  status,      \* status[p]: "new", "alive", or "dead" once the process is gone
  registered,  \* the (agent, word) pairs
  answer       \* what the last command answered, and whom it notified

vars == <<status, registered, answer>>

Answer(reply, notified, words) ==
  [reply |-> reply, notified |-> notified, words |-> words]

(* The reply alone: "ok", "limit", "already", or "none" where the code     *)
(* writes nothing into the buffer it has just allocated, and sends that.   *)
Reply(reply) == Answer(reply, {}, {})

Followed(p) == {w \in Words : <<p, w>> \in registered}

Init ==
  /\ status = [p \in Pids |-> "new"]
  /\ registered = {}
  /\ answer = Reply("none")

Accept(p) ==
  /\ status[p] = "new"
  /\ status' = [status EXCEPT ![p] = "alive"]
  /\ UNCHANGED <<registered, answer>>

FOLLOW(p, w) ==
  /\ status[p] = "alive"
  /\ IF Cardinality(registered) = Limit
     THEN answer' = Reply("limit") /\ UNCHANGED registered
     ELSE IF <<p, w>> \in registered
     THEN answer' = Reply("already") /\ UNCHANGED registered
     ELSE answer' = Reply("ok") /\ registered' = registered \cup {<<p, w>>}
  /\ UNCHANGED status

UNFOLLOW(p, w) ==
  /\ status[p] = "alive"
  /\ answer' = Reply(IF <<p, w>> \in registered THEN "ok" ELSE "none")
  /\ registered' = registered \ {<<p, w>>}
  /\ UNCHANGED status

FOLLOWING(p) ==
  /\ status[p] = "alive"
  /\ answer' = Answer("list", {}, Followed(p))
  /\ UNCHANGED <<status, registered>>

(* A message is the set of its words. *)
SEND(p, text) ==
  /\ status[p] = "alive"
  /\ answer' = Answer("ok", {q \in Pids : Followed(q) \cap text # {}}, {})
  /\ UNCHANGED <<status, registered>>

BYE(p) ==
  /\ status[p] = "alive"
  /\ status' = [status EXCEPT ![p] = "dead"]
  /\ registered' = registered \ ({p} \X Words)
  /\ answer' = Reply("none")

(* The client closes the connection without BYE: nothing is cleaned up. *)
Disconnect(p) ==
  /\ AllowDisconnect
  /\ status[p] = "alive"
  /\ status' = [status EXCEPT ![p] = "dead"]
  /\ UNCHANGED <<registered, answer>>

Next ==
  \E p \in Pids :
    \/ Accept(p)
    \/ \E w \in Words : FOLLOW(p, w) \/ UNFOLLOW(p, w)
    \/ FOLLOWING(p)
    \/ \E text \in SUBSET Words : SEND(p, text)
    \/ BYE(p)
    \/ Disconnect(p)

Spec == Init /\ [][Next]_vars

TypeOK ==
  /\ status \in [Pids -> {"new", "alive", "dead"}]
  /\ registered \in SUBSET (Pids \X Words)
  /\ answer \in [reply : {"none", "ok", "limit", "already", "list"},
                 notified : SUBSET Pids, words : SUBSET Words]
=============================================================================
