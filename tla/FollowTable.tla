---------------------------- MODULE FollowTable ----------------------------
(***************************************************************************)
(* The registry of followed words as the messboard server keeps it: the    *)
(* shared hash table `followList' with open addressing (linear probing, a  *)
(* removed entry leaves a tombstone), the shared counter `followCount',    *)
(* and in the private memory of every agent the list `follow' of its own   *)
(* words.  A command runs from sem_wait to sem_post, so it is one step.    *)
(*                                                                         *)
(* A word stands for all its spellings in upper and lower case: getHash    *)
(* and strcicmp tell no difference.  The order of the private list matters *)
(* to nobody, so it is a set.                                              *)
(***************************************************************************)
EXTENDS Integers, FiniteSets

(* An operator whose comment begins with "Slip:" is a mistake the code     *)
(* could have made in the definition that follows it; no specification     *)
(* uses it.  See MessageBoard.                                             *)

CONSTANTS
  Pids,             \* the pids of the agents
  Words,            \* the words that are followed and sent
  NoWord,           \* the word of a slot that was never used or was wiped
  MaxFollower,      \* MAX_FOLLOWER: slots of the table, limit of the counter
  Home,             \* Home[w]: getHash of the word
  AllowDisconnect   \* whether clients may close the connection without BYE

ASSUME TableAssumption ==
  /\ Pids \subseteq Nat \ {0}
  /\ NoWord \notin Words
  /\ MaxFollower \in Nat \ {0}
  /\ Home \in [Words -> 0 .. MaxFollower - 1]
  /\ AllowDisconnect \in BOOLEAN

Slots == 0 .. MaxFollower - 1

(* Values of pid that belong to no agent: a slot never used, a tombstone. *)
Unused == 0
Tombstone == -1

VARIABLES
  followList,   \* shared: the pid and the word in each slot
  followCount,  \* shared: how many words are followed, over all agents
  follow,       \* follow[p]: the private list of agent p
  status,       \* status[p]: "new", "alive", or "dead" once the process is gone
  hung,         \* an agent probes the table for ever, holding the semaphore
  answer        \* what the last command answered, and whom it notified

vars == <<followList, followCount, follow, status, hung, answer>>

Answer(reply, notified, words) ==
  [reply |-> reply, notified |-> notified, words |-> words]
Reply(reply) == Answer(reply, {}, {})

Init ==
  /\ followList = [s \in Slots |-> [pid |-> Unused, word |-> NoWord]]
  /\ followCount = 0
  /\ follow = [p \in Pids |-> {}]
  /\ status = [p \in Pids |-> "new"]
  /\ hung = FALSE
  /\ answer = Reply("none")

-----------------------------------------------------------------------------
(* Probing *)

(* How many slots a probe that starts at h visits before it visits s. *)
Distance(h, s) == IF s >= h THEN s - h ELSE s - h + MaxFollower

(* The slots visited on the way from h to s, s itself left out. *)
Before(h, s) == {t \in Slots : Distance(h, t) < Distance(h, s)}

(* Slip: tombstones are not used again. *)
NeverUsed(s) == followList[s].pid = Unused
Free(s) == followList[s].pid <= 0
Holds(s, p, w) == followList[s].pid = p /\ followList[s].word = w

(* Slip: a lookup stops at a tombstone. *)
ReachesByLive(h, s) == \A t \in Before(h, s) : followList[t].pid > 0
(* A lookup from h gets as far as s: no slot before was never used. *)
Reaches(h, s) == \A t \in Before(h, s) : followList[t].pid # Unused

(* FOLLOW and UNFOLLOW compare with the slot they began at before they     *)
(* wrap around, so a probe from slot 0 that nothing stops never ends.      *)
Endless(h) == h = 0

(* The agents that the table lists for w, as SEND looks them up. *)
Lookup(w) ==
  {p \in Pids : \E s \in Slots : Holds(s, p, w) /\ Reaches(Home[w], s)}

-----------------------------------------------------------------------------
(* Commands.  Once an agent hangs, nobody gets the semaphore any more. *)

Serves(p) == status[p] = "alive" /\ ~ hung

Accept(p) ==
  /\ status[p] = "new"
  /\ status' = [status EXCEPT ![p] = "alive"]
  /\ UNCHANGED <<followList, followCount, follow, hung, answer>>

(* Slip: the limit is exceeded by one. *)
LimitExceeded == followCount > MaxFollower
LimitReached == followCount = MaxFollower

(* Slip: a word is never found in the private list. *)
NeverFollowed(p, w) == FALSE
Follows(p, w) == w \in follow[p]

(* The slot a new entry goes to, unused or a tombstone. *)
Insertable(h, s) == Free(s) /\ \A t \in Before(h, s) : ~ Free(t)

(* Slip: the word is wiped after it was copied. *)
UnnamedEntry(p, w) == [pid |-> p, word |-> NoWord]
Entry(p, w) == [pid |-> p, word |-> w]

(* The first slot that is not in use takes the word; if there is none the  *)
(* word is in the private list and the counter only.                       *)
Insert(p, w) ==
  \/ \E s \in Slots :
       /\ Insertable(Home[w], s)
       /\ followList' = [followList EXCEPT ![s] = Entry(p, w)]
       /\ UNCHANGED hung
  \/ /\ \A s \in Slots : ~ Free(s)
     /\ hung' = Endless(Home[w])
     /\ UNCHANGED followList

FOLLOWRefused(p, w) ==
  /\ Serves(p)
  /\ LimitReached \/ Follows(p, w)
  /\ answer' = Reply(IF LimitReached THEN "limit" ELSE "already")
  /\ UNCHANGED <<followList, followCount, follow, status, hung>>

FOLLOW(p, w) ==
  /\ Serves(p)
  /\ ~ LimitReached
  /\ ~ Follows(p, w)
  /\ followCount' = followCount + 1
  /\ follow' = [follow EXCEPT ![p] = @ \cup {w}]
  /\ Insert(p, w)
  /\ answer' = Reply("ok")
  /\ UNCHANGED status

(* Slip: the slot becomes as if it had never been used. *)
Emptied == [pid |-> Unused, word |-> NoWord]
(* What UNFOLLOW leaves behind in the slot it empties. *)
Wiped == [pid |-> Tombstone, word |-> NoWord]

(* The probe for the entry stops at it, at a slot never used, or when it   *)
(* has gone round.                                                         *)
Remove(p, w) ==
  LET h == Home[w]
  IN  \/ \E s \in Slots :
           /\ Holds(s, p, w) /\ Reaches(h, s)
           /\ \A t \in Before(h, s) : ~ Holds(t, p, w)
           /\ followList' = [followList EXCEPT ![s] = Wiped]
           /\ UNCHANGED hung
      \/ /\ \A s \in Slots : Reaches(h, s) => ~ Holds(s, p, w)
         /\ hung' = (Endless(h) /\ \A s \in Slots : followList[s].pid # Unused)
         /\ UNCHANGED followList

UNFOLLOW(p, w) ==
  /\ Serves(p)
  /\ w \in follow[p]
  /\ follow' = [follow EXCEPT ![p] = @ \ {w}]
  /\ followCount' = followCount - 1
  /\ Remove(p, w)
  /\ answer' = Reply("ok")
  /\ UNCHANGED status

(* A word the agent does not follow: nothing is written to the reply. *)
UNFOLLOWRefused(p, w) ==
  /\ Serves(p)
  /\ w \notin follow[p]
  /\ answer' = Reply("none")
  /\ UNCHANGED <<followList, followCount, follow, status, hung>>

FOLLOWING(p) ==
  /\ Serves(p)
  /\ answer' = Answer("list", {}, follow[p])
  /\ UNCHANGED <<followList, followCount, follow, status, hung>>

(* A message is the set of its words. *)
SEND(p, text) ==
  /\ Serves(p)
  /\ answer' = Answer("ok", UNION {Lookup(w) : w \in text}, {})
  /\ UNCHANGED <<followList, followCount, follow, status, hung>>

(* What BYE does to the table: each entry of the agent becomes a tombstone *)
(* and is taken off the counter; the private list is not touched.          *)
Owned(p) == {s \in Slots : followList[s].pid = p}
(* Slip: the counter is left alone. *)
ForgetUncounted(p) ==
  /\ followList' = [s \in Slots |-> IF s \in Owned(p)
                                    THEN [followList[s] EXCEPT !.pid = Tombstone]
                                    ELSE followList[s]]
  /\ UNCHANGED followCount
Forget(p) ==
  /\ followList' = [s \in Slots |-> IF s \in Owned(p)
                                    THEN [followList[s] EXCEPT !.pid = Tombstone]
                                    ELSE followList[s]]
  /\ followCount' = followCount - Cardinality(Owned(p))

Exit(p) ==
  /\ status' = [status EXCEPT ![p] = "dead"]
  /\ follow' = [follow EXCEPT ![p] = {}]

BYE(p) ==
  /\ Serves(p)
  /\ Forget(p)
  /\ Exit(p)
  /\ answer' = Reply("none")
  /\ UNCHANGED hung

(* servecommand takes whatever begins with BYE for BYE, but the agent ends *)
(* only on the exact text: after "BYE\r\n" it serves on with its list.  A   *)
(* client that keeps to the protocol sends no such command, so Next leaves *)
(* this action out and NextByeText adds it.                                *)
BYEText(p) ==
  /\ Serves(p)
  /\ Forget(p)
  /\ answer' = Reply("none")
  /\ UNCHANGED <<follow, status, hung>>

(* The client closes the connection without BYE.  recv returns 0, which    *)
(* the agent takes for a command; the reply to it, or the next recv, ends  *)
(* the process, and its entries stay in the table.                         *)
Disconnect(p) ==
  /\ AllowDisconnect
  /\ Serves(p)
  /\ Exit(p)
  /\ UNCHANGED <<followList, followCount, hung, answer>>

Next ==
  \E p \in Pids :
    \/ Accept(p)
    \/ \E w \in Words :
         FOLLOW(p, w) \/ FOLLOWRefused(p, w) \/ UNFOLLOW(p, w) \/ UNFOLLOWRefused(p, w)
    \/ FOLLOWING(p)
    \/ \E text \in SUBSET Words : SEND(p, text)
    \/ BYE(p)
    \/ Disconnect(p)

Spec == Init /\ [][Next]_vars

(* The same for clients that may also send BYE with text behind it.        *)
NextByeText == Next \/ \E p \in Pids : BYEText(p)
ByeTextSpec == Init /\ [][NextByeText]_vars

-----------------------------------------------------------------------------
(* Properties *)

Live(s) == followList[s].pid \in Pids

TypeOK ==
  /\ followList \in [Slots -> [pid : Pids \cup {Unused, Tombstone},
                               word : Words \cup {NoWord}]]
  /\ \A s \in Slots : Live(s) => followList[s].word \in Words
  /\ followCount \in Int
  /\ follow \in [Pids -> SUBSET Words]
  /\ status \in [Pids -> {"new", "alive", "dead"}]
  /\ hung \in BOOLEAN
  /\ answer \in [reply : {"none", "ok", "limit", "already", "list"},
                 notified : SUBSET Pids, words : SUBSET Words]

(* A lookup that starts at the home slot of a word gets to every entry of  *)
(* the word, whatever was added, removed and reused in between: removing   *)
(* an entry cuts off none behind it (server.c:314-368).                    *)
AllReachable ==
  \A s \in Slots : Live(s) => Reaches(Home[followList[s].word], s)

(* No agent has two entries for a word, so that one UNFOLLOW ends the      *)
(* notifications for it (server.c:297-303, 356).                           *)
NoDuplicates ==
  \A s, t \in Slots : Live(s) /\ followList[s] = followList[t] => s = t

(* An agent of a living client lists a word exactly when the table does,   *)
(* though the two are kept apart (server.c:305-328, 337-368).              *)
ListsAgree ==
  \A p \in Pids : status[p] = "alive" =>
    \A w \in Words : w \in follow[p] <=> p \in Lookup(w)

(* The counter that stands for the limit is the number of entries, with    *)
(* the entries of clients that went away without BYE.                      *)
CountExact == followCount = Cardinality({s \in Slots : Live(s)})

(* A word that FOLLOW has said ok to has found a slot: the table is never  *)
(* too full for the counter, and no probe runs for ever holding the        *)
(* semaphore (server.c:291, 316-328, 350-369).                             *)
NeverHung == ~ hung

(* The table keeps the promise of the abstract registry.                   *)
Registered ==
  {pw \in Pids \X Words : \E s \in Slots : Holds(s, pw[1], pw[2])}

Registry == INSTANCE FollowRegistry WITH
  Limit <- MaxFollower, registered <- Registered

(* Every command answers and notifies as the abstract registry does, for   *)
(* every sequence of commands: the hash table, the tombstones, the counter *)
(* and the private lists do not show (server.c:203-255, 289-391).          *)
ImplementsRegistry == Registry!Spec
=============================================================================
