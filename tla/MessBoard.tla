----------------------------- MODULE MessBoard -----------------------------
(***************************************************************************)
(* The messboard server as a whole: one agent process per client, forked   *)
(* from the accept loop; one semaphore in shared memory around every       *)
(* command; SIGINT, sent by SEND to the agents that follow a word of the   *)
(* message; and the notifier threads that the signal handler starts.       *)
(*                                                                         *)
(* The registry is the abstract one, which FollowTable implements.  The    *)
(* board is the sequence of the messages sent: a notifier reads only the   *)
(* latest, and MessageBoard shows that slot currentIndex - 1 holds it.     *)
(* A client waits for the reply before it sends its next command.          *)
(***************************************************************************)
EXTENDS Integers, Sequences, FiniteSets

(* An operator whose comment begins with "Slip:" is a mistake the code     *)
(* could have made in the definition that follows it; no specification     *)
(* uses it.  See MessageBoard.                                             *)

CONSTANTS
  Pids,             \* the pids of the agents, one per client
  Words,            \* the words that are followed and sent
  Limit,            \* MAX_FOLLOWER
  AllowBye,         \* whether clients say BYE
  AllowDisconnect,  \* whether clients close the connection without BYE
  MaxCommands       \* bound: how many commands each client sends

ASSUME ServerAssumption ==
  /\ Pids \subseteq Nat \ {0}
  /\ Limit \in Nat \ {0}
  /\ AllowBye \in BOOLEAN
  /\ AllowDisconnect \in BOOLEAN
  /\ MaxCommands \in Nat

VARIABLES
  status, registered, answer,  \* the registry (see FollowRegistry)
  follow,      \* follow[p]: the private list of agent p, which notifiers read
  texts,       \* the messages sent; a message is the set of its words
  sem,         \* the semaphore
  pc,          \* pc[p]: where the main thread of agent p is
  cmd,         \* cmd[p]: the command agent p has received
  commands,    \* commands[p]: how many commands client p has sent
  pending,     \* pending[p]: SIGINT is pending for agent p
  threads,     \* threads[p]: how many notifier threads of p are at each step
  connected,   \* connected[p]: client p has its connection open
  deaf,        \* deaf[p]: client p has it open and reads from it no more
  inbox,       \* inbox[p]: the notifications client p got, <<message, word>>
  due          \* history: the notifications client p has asked for by FOLLOW

registry == <<status, registered, answer>>
vars == <<status, registered, answer, follow, texts, sem, pc, cmd, commands,
          pending, threads, connected, deaf, inbox, due>>

Registry == INSTANCE FollowRegistry

NoCommand == [op |-> "none"]
Commands ==
  [op : {"FOLLOW", "UNFOLLOW"}, word : Words]
    \cup [op : {"SEND"}, text : SUBSET Words \ {{}}]
    \cup [op : {"FOLLOWING"} \cup IF AllowBye THEN {"BYE"} ELSE {}]

(* What recv leaves in the buffer when the client has closed: no command. *)
Eof == [op |-> "eof"]

(* The steps at which a notifier thread may be. *)
ThreadSteps == {"sem_wait", "send", "sem_post"}
NoThreads == [step \in ThreadSteps |-> 0]

Init ==
  /\ Registry!Init
  /\ follow = [p \in Pids |-> {}]
  /\ texts = << >>
  /\ sem = 1
  /\ pc = [p \in Pids |-> "none"]
  /\ cmd = [p \in Pids |-> NoCommand]
  /\ commands = [p \in Pids |-> 0]
  /\ pending = [p \in Pids |-> FALSE]
  /\ threads = [p \in Pids |-> NoThreads]
  /\ connected = [p \in Pids |-> FALSE]
  /\ deaf = [p \in Pids |-> FALSE]
  /\ inbox = [p \in Pids |-> {}]
  /\ due = [p \in Pids |-> {}]

-----------------------------------------------------------------------------
Goto(p, from, to) == pc[p] = from /\ pc' = [pc EXCEPT ![p] = to]

(* The accept loop forks an agent, which starts in recv. *)
Accept(p) ==
  /\ Goto(p, "none", "recv")
  /\ Registry!Accept(p)
  /\ connected' = [connected EXCEPT ![p] = TRUE]
  /\ UNCHANGED <<follow, texts, sem, cmd, commands, pending, threads, deaf,
                 inbox, due>>

Receive(p) ==
  /\ Goto(p, "recv", "sem_wait")
  /\ IF connected[p]
     THEN /\ commands[p] < MaxCommands
          /\ commands' = [commands EXCEPT ![p] = @ + 1]
          /\ \E c \in Commands : cmd' = [cmd EXCEPT ![p] = c]
     ELSE cmd' = [cmd EXCEPT ![p] = Eof] /\ UNCHANGED commands
  /\ UNCHANGED <<registry, follow, texts, sem, pending, threads, connected,
                 deaf, inbox, due>>

(* Slip: the semaphore is tested and not taken. *)
Tested == sem > 0 /\ sem' = sem
(* Slip: the semaphore is taken without waiting for it. *)
Taken == sem' = sem - 1
Down == sem > 0 /\ sem' = sem - 1
Up == sem' = sem + 1

SemWait(p) ==
  /\ Goto(p, "sem_wait", "servecommand")
  /\ Down
  /\ UNCHANGED <<registry, follow, texts, cmd, commands, pending, threads,
                 connected, deaf, inbox, due>>

-----------------------------------------------------------------------------
(* servecommand, by the command received *)

ServeFOLLOW(p, w) ==
  /\ Registry!FOLLOW(p, w)
  /\ follow' = [follow EXCEPT ![p] = IF answer'.reply = "ok" THEN @ \cup {w} ELSE @]
  /\ UNCHANGED <<texts, pending, due>>

ServeUNFOLLOW(p, w) ==
  /\ Registry!UNFOLLOW(p, w)
  /\ follow' = [follow EXCEPT ![p] = @ \ {w}]
  /\ due' = [due EXCEPT ![p] = {n \in @ : n[2] # w}]
  /\ UNCHANGED <<texts, pending>>

(* Slip: only the agents that wait for a command are signalled. *)
KillIdle(targets) ==
  pending' = [q \in Pids |-> pending[q] \/ (q \in targets /\ pc[q] = "recv")]

(* A second SIGINT that finds one pending is merged with it; one for a     *)
(* process that is gone has no effect.                                     *)
Kill(targets) ==
  pending' = [q \in Pids |-> pending[q] \/ (q \in targets /\ pc[q] # "dead")]

ServeSEND(p, text) ==
  /\ Registry!SEND(p, text)
  /\ texts' = Append(texts, text)
  /\ Kill(answer'.notified)
  /\ due' = [q \in Pids |->
       due[q] \cup ({Len(texts) + 1} \X (Registry!Followed(q) \cap text))]
  /\ UNCHANGED follow

(* BYE leaves the private list alone. *)
ServeBYE(p) ==
  /\ Registry!BYE(p)
  /\ due' = [due EXCEPT ![p] = {}]
  /\ UNCHANGED <<follow, texts, pending>>

Serve(p) ==
  /\ Goto(p, "servecommand", "sem_post")
  /\ \/ cmd[p].op = "FOLLOW" /\ ServeFOLLOW(p, cmd[p].word)
     \/ cmd[p].op = "UNFOLLOW" /\ ServeUNFOLLOW(p, cmd[p].word)
     \/ cmd[p].op = "SEND" /\ ServeSEND(p, cmd[p].text)
     \/ cmd[p].op = "BYE" /\ ServeBYE(p)
     \/ cmd[p].op = "FOLLOWING" /\ Registry!FOLLOWING(p)
                                /\ UNCHANGED <<follow, texts, pending, due>>
     \/ cmd[p].op = "eof" /\ UNCHANGED <<registry, follow, texts, pending, due>>
  /\ UNCHANGED <<sem, cmd, commands, threads, connected, deaf, inbox>>

-----------------------------------------------------------------------------
SemPost(p) ==
  /\ Goto(p, "sem_post", IF cmd[p].op = "BYE" THEN "exit" ELSE "send")
  /\ Up
  /\ UNCHANGED <<registry, follow, texts, cmd, commands, pending, threads,
                 connected, deaf, inbox, due>>

(* The reply is sent. *)
Send(p) ==
  /\ Goto(p, "send", "recv")
  /\ UNCHANGED <<registry, follow, texts, sem, cmd, commands, pending, threads,
                 connected, deaf, inbox, due>>

(* The end of a process ends its threads wherever they are; a semaphore    *)
(* that one of them has taken stays taken.                                 *)
Die(p) ==
  /\ pc' = [pc EXCEPT ![p] = "dead"]
  /\ cmd' = [cmd EXCEPT ![p] = NoCommand]
  /\ pending' = [pending EXCEPT ![p] = FALSE]
  /\ threads' = [threads EXCEPT ![p] = NoThreads]
  /\ follow' = [follow EXCEPT ![p] = {}]
  /\ connected' = [connected EXCEPT ![p] = FALSE]
  /\ deaf' = [deaf EXCEPT ![p] = FALSE]
  /\ UNCHANGED <<texts, sem, commands, inbox, due>>

(* After BYE: shutdown, and exit from main. *)
Exit(p) ==
  /\ pc[p] = "exit"
  /\ Die(p)
  /\ UNCHANGED registry

(* A send to a client that is gone raises SIGPIPE, which nobody handles,   *)
(* or is the first such send and passes unnoticed; recv may report the     *)
(* reset connection, and then the agent exits.                             *)
Broken(p) ==
  /\ ~ connected[p]
  /\ \/ pc[p] \in {"recv", "send"}
     \/ threads[p].send > 0 /\ follow[p] # {}
  /\ Die(p)
  /\ IF status[p] = "alive" THEN Registry!Disconnect(p) ELSE UNCHANGED registry

(* The client closes the connection without BYE. *)
ClientCloses(p) ==
  /\ AllowDisconnect
  /\ connected[p]
  /\ connected' = [connected EXCEPT ![p] = FALSE]
  /\ deaf' = [deaf EXCEPT ![p] = FALSE]
  /\ UNCHANGED <<registry, follow, texts, sem, pc, cmd, commands, pending, threads,
                 inbox, due>>

(* The client keeps the connection and reads no more.  From then on a send *)
(* to it may find room in the socket's buffer still, or never return.      *)
ClientStopsReading(p) ==
  /\ connected[p] /\ ~ deaf[p]
  /\ deaf' = [deaf EXCEPT ![p] = TRUE]
  /\ UNCHANGED <<registry, follow, texts, sem, pc, cmd, commands, pending, threads,
                 connected, inbox, due>>

-----------------------------------------------------------------------------
(* Signal handler and notifier threads *)

(* notify() starts a thread. *)
HandleSignal(p) ==
  /\ pending[p]
  /\ pending' = [pending EXCEPT ![p] = FALSE]
  /\ threads' = [threads EXCEPT ![p].sem_wait = @ + 1]
  /\ UNCHANGED <<registry, follow, texts, sem, pc, cmd, commands, connected,
                 deaf, inbox, due>>

Step(p, from, to) ==
  /\ threads[p][from] > 0
  /\ threads' = [threads EXCEPT ![p][from] = @ - 1, ![p][to] = @ + 1]

NotifierSemWait(p) ==
  /\ Step(p, "sem_wait", "send")
  /\ Down
  /\ UNCHANGED <<registry, follow, texts, pc, cmd, commands, pending,
                 connected, deaf, inbox, due>>

(* The latest message goes to the client once for each word of the list,   *)
(* whether or not the word is in the message.                              *)
Notifications(p) == {Len(texts)} \X follow[p]

NotifierSend(p) ==
  /\ Step(p, "send", "sem_post")
  /\ inbox' = [inbox EXCEPT ![p] = IF connected[p] THEN @ \cup Notifications(p) ELSE @]
  /\ UNCHANGED <<registry, follow, texts, sem, pc, cmd, commands, pending,
                 connected, deaf, due>>

(* Slip: the thread ends without sem_post. *)
NotifierLeaves(p) ==
  /\ threads[p].sem_post > 0
  /\ threads' = [threads EXCEPT ![p].sem_post = @ - 1]
  /\ UNCHANGED <<registry, follow, texts, sem, pc, cmd, commands, pending,
                 connected, deaf, inbox, due>>

NotifierSemPost(p) ==
  /\ threads[p].sem_post > 0
  /\ threads' = [threads EXCEPT ![p].sem_post = @ - 1]
  /\ Up
  /\ UNCHANGED <<registry, follow, texts, pc, cmd, commands, pending,
                 connected, deaf, inbox, due>>

-----------------------------------------------------------------------------
(* What the server does of itself, and what clients do. *)
Runs(p) ==
  \/ SemWait(p) \/ Serve(p) \/ SemPost(p) \/ Send(p) \/ Exit(p)

Notifies(p) ==
  HandleSignal(p) \/ NotifierSemWait(p) \/ NotifierSend(p) \/ NotifierSemPost(p)

Next ==
  \E p \in Pids :
    \/ Accept(p) \/ Receive(p) \/ Runs(p) \/ Broken(p) \/ Notifies(p)
    \/ ClientCloses(p) \/ ClientStopsReading(p)

Spec == Init /\ [][Next]_vars

(* The main thread of p, or a notifier of p, is in a send that may never   *)
(* return.  The main thread holds nothing then; the notifier holds the     *)
(* semaphore.                                                              *)
ReplyStuck(p) == deaf[p] /\ pc[p] = "send"
NotifierStuck(p) == deaf[p] /\ threads[p].send > 0 /\ follow[p] # {}

(* The scheduler runs every thread that can run.  Clients may stop sending *)
(* and stop reading: nothing is promised of a send that is stuck.  At most *)
(* one send to a client that is gone passes unnoticed (see Broken), so     *)
(* that its agent does not read the end of the input for ever.             *)
Fairness ==
  \A p \in Pids :
    /\ WF_vars(Runs(p) /\ ~ ReplyStuck(p))
    /\ WF_vars(HandleSignal(p))
    /\ WF_vars(NotifierSemWait(p))
    /\ WF_vars((NotifierSend(p) \/ NotifierSemPost(p)) /\ ~ NotifierStuck(p))
    /\ SF_vars(Broken(p))

FairSpec == Spec /\ Fairness

-----------------------------------------------------------------------------
(* Properties *)

TypeOK ==
  /\ Registry!TypeOK
  /\ follow \in [Pids -> SUBSET Words]
  /\ texts \in Seq(SUBSET Words)
  /\ sem \in {0, 1}
  /\ pc \in [Pids -> {"none", "recv", "sem_wait", "servecommand", "sem_post",
                      "send", "exit", "dead"}]
  /\ cmd \in [Pids -> Commands \cup {NoCommand, Eof}]
  /\ commands \in [Pids -> 0 .. MaxCommands]
  /\ pending \in [Pids -> BOOLEAN]
  /\ threads \in [Pids -> [ThreadSteps -> Nat]]
  /\ connected \in [Pids -> BOOLEAN]
  /\ deaf \in [Pids -> BOOLEAN]
  /\ inbox \in [Pids -> SUBSET (Nat \X Words)]
  /\ due \in [Pids -> SUBSET (Nat \X Words)]

(* How many threads of p are between sem_wait and sem_post. *)
Sections(p) ==
  (IF pc[p] \in {"servecommand", "sem_post"} THEN 1 ELSE 0)
    + threads[p].send + threads[p].sem_post

(* At most one thread of all the agents is in a critical section, and none *)
(* when the semaphore is free, also when processes end with threads inside *)
(* (server.c:80, 118, 433-435).                                            *)
MutualExclusion ==
  /\ \A p, q \in Pids : Sections(p) > 0 /\ Sections(q) > 0 => p = q
  /\ \A p \in Pids : Sections(p) <= 1
  /\ sem = 1 => \A p \in Pids : Sections(p) = 0

(* Agent p has taken note of every signal that was sent to it. *)
Quiet(p) == ~ pending[p] /\ threads[p].sem_wait = 0 /\ threads[p].send = 0

(* However signals merge and threads overtake each other, an agent that is *)
(* quiet has told its client of the latest message, once for each word of  *)
(* it that the client follows (server.c:76-128, 249-255).                  *)
LatestDelivered ==
  \A p \in Pids : connected[p] /\ Quiet(p) =>
    \A n \in due[p] : n[1] = Len(texts) => n \in inbox[p]

(* A process has ended while one of its threads held the semaphore.        *)
Orphaned ==
  sem = 0 /\ (\E p \in Pids : pc[p] = "dead") /\ \A p \in Pids : Sections(p) = 0

(* A notifier sends to a client that does not read, with the semaphore     *)
(* held.                                                                   *)
Stalled == \E p \in Pids : NotifierStuck(p)

(* Nobody waits for the semaphore for ever, whatever the other clients do  *)
(* and wherever their agents end, with two exceptions: an agent has ended  *)
(* in a critical section, or a notifier is stuck in one, in a send to a    *)
(* client that does not read.  A reply to such a client holds nobody up    *)
(* (server.c:115, 428-443).                                                *)
EveryCommandServed == \A p \in Pids : []<>(pc[p] # "sem_wait" \/ Orphaned \/ Stalled)

(* No signal goes without an answer, with the same two exceptions: an      *)
(* agent is quiet in the end, and LatestDelivered says what its client has *)
(* been told by then (server.c:76-128).                                    *)
SignalsHandled == \A p \in Pids : []<>(Quiet(p) \/ Orphaned \/ Stalled)
=============================================================================
