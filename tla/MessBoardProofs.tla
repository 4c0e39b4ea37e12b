-------------------------- MODULE MessBoardProofs --------------------------
(* Proofs about the whole server, for any number of agents and words. *)
EXTENDS MessBoard, TLAPS

(* The semaphore is free or taken once; this is inductive only together    *)
(* with mutual exclusion: a thread that posts is in its critical section,  *)
(* and so the semaphore it posts is not free already.                      *)
Counted ==
  /\ threads \in [Pids -> [ThreadSteps -> Nat]]
  /\ DOMAIN pc = Pids

Exclusion ==
  /\ Counted
  /\ sem \in {0, 1}
  /\ MutualExclusion

(* The ways in which a step can change how many threads of agent p are in  *)
(* a critical section.                                                     *)
Stays(p)  == Sections(p)' = Sections(p) /\ sem' = sem
Enters(p) == Sections(p)' = Sections(p) + 1 /\ sem > 0 /\ sem' = sem - 1
Leaves(p) == Sections(p) > 0 /\ Sections(p)' = Sections(p) - 1 /\ sem' = sem + 1
Ends(p)   == Sections(p)' = 0 /\ sem' = sem

Moves(p) ==
  /\ Stays(p) \/ Enters(p) \/ Leaves(p) \/ Ends(p)
  /\ \A q \in Pids \ {p} : Sections(q)' = Sections(q)

LEMMA SectionsType == Counted => \A p \in Pids : Sections(p) \in Nat
BY DEF Counted, Sections, ThreadSteps

LEMMA MovesKeepExclusion ==
  ASSUME Exclusion, Counted', NEW p \in Pids, Moves(p)
  PROVE  Exclusion'
<1>1. \A q \in Pids : Sections(q) \in Nat
  BY SectionsType DEF Exclusion
<1>2. \A q \in Pids \ {p} : Sections(q)' = Sections(q)
  BY DEF Moves
<1>3. sem' \in {0, 1}
  BY <1>1 DEF Exclusion, MutualExclusion, Moves, Stays, Enters, Leaves, Ends
<1>4. \A q \in Pids : Sections(q)' > 0 => Sections(q) > 0 \/ (q = p /\ sem = 1)
  BY <1>1, <1>2 DEF Exclusion, Moves, Stays, Enters, Leaves, Ends
<1>5. \A q, r \in Pids : Sections(q)' > 0 /\ Sections(r)' > 0 => q = r
  BY <1>1, <1>4 DEF Exclusion, MutualExclusion
<1>6. \A q \in Pids : Sections(q)' <= 1
  BY <1>1, <1>2 DEF Exclusion, MutualExclusion, Moves, Stays, Enters, Leaves, Ends
<1>7. ASSUME sem' = 1, NEW q \in Pids PROVE Sections(q)' = 0
  <2>1. CASE q = p
    BY <1>1, <1>7, <2>1 DEF Exclusion, MutualExclusion, Moves, Stays, Enters, Leaves, Ends
  <2>2. CASE q # p
    BY <1>1, <1>2, <1>7, <2>2 DEF Exclusion, MutualExclusion, Moves, Stays, Enters, Leaves, Ends
  <2>3. QED
    BY <2>1, <2>2
<1>8. QED
  BY <1>3, <1>5, <1>6, <1>7 DEF Exclusion, MutualExclusion

LEMMA InitExclusion == Init => Exclusion
BY DEF Init, Exclusion, Counted, MutualExclusion, Sections, NoThreads, ThreadSteps

LEMMA AgentStepsMove ==
  ASSUME Counted, NEW p \in Pids,
         \/ Accept(p) \/ Receive(p) \/ SemWait(p) \/ Serve(p)
         \/ SemPost(p) \/ Send(p)
  PROVE  Counted' /\ Moves(p)
<1> USE DEF Counted, Moves, Stays, Enters, Leaves, Ends, Sections, ThreadSteps, Goto
<1>1. CASE Accept(p)
  BY <1>1 DEF Accept
<1>2. CASE Receive(p)
  BY <1>2 DEF Receive
<1>3. CASE SemWait(p)
  BY <1>3 DEF SemWait, Down
<1>4. CASE Serve(p)
  BY <1>4 DEF Serve
<1>5. CASE SemPost(p)
  BY <1>5 DEF SemPost, Up
<1>6. CASE Send(p)
  BY <1>6 DEF Send
<1>7. QED
  BY <1>1, <1>2, <1>3, <1>4, <1>5, <1>6

LEMMA DeathMoves ==
  ASSUME Counted, NEW p \in Pids, Die(p)
  PROVE  Counted' /\ Moves(p)
BY DEF Counted, Moves, Ends, Sections, ThreadSteps, Die, NoThreads

LEMMA StepMoves ==
  ASSUME Counted, NEW p \in Pids, NEW from \in ThreadSteps, NEW to \in ThreadSteps,
         from # to, Step(p, from, to), UNCHANGED pc
  PROVE  /\ Counted'
         /\ \A q \in Pids \ {p} : threads'[q] = threads[q]
         /\ threads[p][from] > 0
         /\ threads'[p][from] = threads[p][from] - 1
         /\ threads'[p][to] = threads[p][to] + 1
         /\ \A s \in ThreadSteps \ {from, to} : threads'[p][s] = threads[p][s]
<1>1. threads' = [threads EXCEPT ![p] = [[threads[p] EXCEPT ![from] = @ - 1] EXCEPT ![to] = @ + 1]]
  BY DEF Counted, Step
<1>2. threads'[p] = [[threads[p] EXCEPT ![from] = @ - 1] EXCEPT ![to] = @ + 1]
  BY <1>1 DEF Counted
<1>3. threads'[p] \in [ThreadSteps -> Nat]
  BY <1>2 DEF Counted, Step
<1>4. QED
  BY <1>1, <1>2, <1>3 DEF Counted, Step

LEMMA NotifierStepsMove ==
  ASSUME Counted, NEW p \in Pids, Notifies(p)
  PROVE  Counted' /\ Moves(p)
<1> USE DEF Counted, Moves, Stays, Enters, Leaves, Ends, Sections, ThreadSteps
<1>1. CASE HandleSignal(p)
  BY <1>1 DEF HandleSignal
<1>2. CASE NotifierSemWait(p)
  <2>1. Step(p, "sem_wait", "send") /\ Down /\ UNCHANGED pc
    BY <1>2 DEF NotifierSemWait
  <2>2. /\ Counted'
        /\ \A q \in Pids \ {p} : threads'[q] = threads[q]
        /\ threads'[p]["send"] = threads[p]["send"] + 1
        /\ threads'[p]["sem_post"] = threads[p]["sem_post"]
    BY <2>1, StepMoves
  <2>3. Enters(p)
    BY <2>1, <2>2 DEF Down
  <2>4. \A q \in Pids \ {p} : Sections(q)' = Sections(q)
    BY <2>1, <2>2
  <2>5. QED
    BY <2>2, <2>3, <2>4
<1>3. CASE NotifierSend(p)
  <2>1. Step(p, "send", "sem_post") /\ UNCHANGED <<sem, pc>>
    BY <1>3 DEF NotifierSend
  <2>2. /\ Counted'
        /\ \A q \in Pids \ {p} : threads'[q] = threads[q]
        /\ threads[p]["send"] > 0
        /\ threads'[p]["send"] = threads[p]["send"] - 1
        /\ threads'[p]["sem_post"] = threads[p]["sem_post"] + 1
    BY <2>1, StepMoves
  <2>3. Stays(p)
    BY <2>1, <2>2
  <2>4. \A q \in Pids \ {p} : Sections(q)' = Sections(q)
    BY <2>1, <2>2
  <2>5. QED
    BY <2>2, <2>3, <2>4
<1>4. CASE NotifierSemPost(p)
  BY <1>4 DEF NotifierSemPost, Up
<1>5. QED
  BY <1>1, <1>2, <1>3, <1>4 DEF Notifies

LEMMA NextKeepsExclusion == Exclusion /\ [Next]_vars => Exclusion'
<1> SUFFICES ASSUME Exclusion, [Next]_vars PROVE Exclusion'
  OBVIOUS
<1>1. CASE UNCHANGED vars
  BY <1>1 DEF vars, Exclusion, Counted, MutualExclusion, Sections
<1>2. ASSUME NEW p \in Pids, Accept(p) \/ Receive(p) \/ Runs(p) PROVE Exclusion'
  BY <1>2, AgentStepsMove, DeathMoves, MovesKeepExclusion DEF Runs, Exit, Exclusion
<1>3. ASSUME NEW p \in Pids, Broken(p) PROVE Exclusion'
  BY <1>3, DeathMoves, MovesKeepExclusion DEF Broken, Exclusion
<1>4. ASSUME NEW p \in Pids, ClientCloses(p) PROVE Exclusion'
  BY <1>4 DEF ClientCloses, Exclusion, Counted, MutualExclusion, Sections
<1>5. ASSUME NEW p \in Pids, ClientStopsReading(p) PROVE Exclusion'
  BY <1>5 DEF ClientStopsReading, Exclusion, Counted, MutualExclusion, Sections
<1>6. ASSUME NEW p \in Pids, Notifies(p) PROVE Exclusion'
  BY <1>6, NotifierStepsMove, MovesKeepExclusion DEF Exclusion
<1>7. QED
  BY <1>1, <1>2, <1>3, <1>4, <1>5, <1>6 DEF Next

(* Mutual exclusion of everything between sem_wait and sem_post, in main   *)
(* threads and in notifier threads, for any number of agents, of commands  *)
(* and of signals, and whatever processes end inside (server.c:80, 433).   *)
THEOREM CriticalSectionsExclude == Spec => []MutualExclusion
<1>1. Init => Exclusion
  BY InitExclusion
<1>2. Exclusion /\ [Next]_vars => Exclusion'
  BY NextKeepsExclusion
<1>3. Exclusion => MutualExclusion
  BY DEF Exclusion
<1>4. QED
  BY <1>1, <1>2, <1>3, PTL DEF Spec
-----------------------------------------------------------------------------
(* Types *)

(* The types without the bounds of the semaphore, which take mutual        *)
(* exclusion to prove.                                                     *)
AgentTypes ==
  /\ pc \in [Pids -> {"none", "recv", "sem_wait", "servecommand", "sem_post",
                      "send", "exit", "dead"}]
  /\ cmd \in [Pids -> Commands \cup {NoCommand, Eof}]
  /\ commands \in [Pids -> 0 .. MaxCommands]
  /\ pending \in [Pids -> BOOLEAN]
  /\ threads \in [Pids -> [ThreadSteps -> Nat]]
  /\ connected \in [Pids -> BOOLEAN]
  /\ deaf \in [Pids -> BOOLEAN]

ListTypes ==
  /\ follow \in [Pids -> SUBSET Words]
  /\ texts \in Seq(SUBSET Words)
  /\ inbox \in [Pids -> SUBSET (Nat \X Words)]
  /\ due \in [Pids -> SUBSET (Nat \X Words)]

Types == Registry!TypeOK /\ AgentTypes /\ ListTypes

LEMMA CommandTypes ==
  ASSUME AgentTypes, NEW p \in Pids
  PROVE  /\ cmd[p].op \in {"FOLLOW", "UNFOLLOW"} => cmd[p].word \in Words
         /\ cmd[p].op = "SEND" => cmd[p].text \in SUBSET Words
BY DEF AgentTypes, Commands, NoCommand, Eof

LEMMA InitTypes == Init => Types
<1> SUFFICES ASSUME Init PROVE Types
  OBVIOUS
<1>1. Registry!TypeOK
  BY DEF Init, Registry!Init, Registry!TypeOK, Registry!Reply, Registry!Answer
<1>2. AgentTypes
  BY ServerAssumption DEF Init, AgentTypes, NoThreads
<1>3. ListTypes
  BY DEF Init, ListTypes
<1>4. QED
  BY <1>1, <1>2, <1>3 DEF Types

LEMMA RegistryKeepsTypes ==
  ASSUME Registry!TypeOK, [Registry!Next]_registry
  PROVE  Registry!TypeOK'
<1> USE DEF Registry!TypeOK, Registry!Reply, Registry!Answer, Registry!Followed
<1>1. CASE UNCHANGED registry
  BY <1>1 DEF registry
<1>2. ASSUME NEW p \in Pids, Registry!Accept(p) \/ Registry!Disconnect(p)
      PROVE  Registry!TypeOK'
  BY <1>2 DEF Registry!Accept, Registry!Disconnect
<1>3. ASSUME NEW p \in Pids, NEW w \in Words, Registry!FOLLOW(p, w)
      PROVE  Registry!TypeOK'
  BY <1>3 DEF Registry!FOLLOW
<1>4. ASSUME NEW p \in Pids, NEW w \in Words, Registry!UNFOLLOW(p, w)
      PROVE  Registry!TypeOK'
  BY <1>4 DEF Registry!UNFOLLOW
<1>5. ASSUME NEW p \in Pids, Registry!FOLLOWING(p) PROVE Registry!TypeOK'
  BY <1>5 DEF Registry!FOLLOWING
<1>6. ASSUME NEW p \in Pids, NEW text \in SUBSET Words, Registry!SEND(p, text)
      PROVE  Registry!TypeOK'
  BY <1>6 DEF Registry!SEND
<1>7. ASSUME NEW p \in Pids, Registry!BYE(p) PROVE Registry!TypeOK'
  BY <1>7 DEF Registry!BYE
<1>8. QED
  BY <1>1, <1>2, <1>3, <1>4, <1>5, <1>6, <1>7 DEF Registry!Next

(* Whatever the server does, the registry makes one of its own steps.      *)
LEMMA ServeStepsRegistry ==
  ASSUME AgentTypes, NEW p \in Pids, Serve(p)
  PROVE  [Registry!Next]_registry
<1>1. CASE cmd[p].op = "FOLLOW" /\ ServeFOLLOW(p, cmd[p].word)
  BY <1>1, CommandTypes DEF ServeFOLLOW, Registry!Next
<1>2. CASE cmd[p].op = "UNFOLLOW" /\ ServeUNFOLLOW(p, cmd[p].word)
  BY <1>2, CommandTypes DEF ServeUNFOLLOW, Registry!Next
<1>3. CASE cmd[p].op = "SEND" /\ ServeSEND(p, cmd[p].text)
  BY <1>3, CommandTypes DEF ServeSEND, Registry!Next
<1>4. CASE ServeBYE(p)
  BY <1>4 DEF ServeBYE, Registry!Next
<1>5. CASE Registry!FOLLOWING(p) \/ UNCHANGED registry
  BY <1>5 DEF Registry!Next
<1>6. QED
  BY <1>1, <1>2, <1>3, <1>4, <1>5 DEF Serve

LEMMA NextStepsRegistry ==
  ASSUME AgentTypes, [Next]_vars
  PROVE  [Registry!Next]_registry
<1>1. CASE UNCHANGED vars
  BY <1>1 DEF vars, registry
<1>2. ASSUME NEW p \in Pids, Accept(p) PROVE Registry!Next
  BY <1>2 DEF Accept, Registry!Next
<1>3. ASSUME NEW p \in Pids, Broken(p) PROVE [Registry!Next]_registry
  BY <1>3 DEF Broken, Registry!Next
<1>4. ASSUME NEW p \in Pids,
             Receive(p) \/ ClientCloses(p) \/ ClientStopsReading(p) \/ Notifies(p)
      PROVE  UNCHANGED registry
  BY <1>4 DEF Receive, ClientCloses, ClientStopsReading, Notifies, HandleSignal,
              NotifierSemWait, NotifierSend, NotifierSemPost
<1>5. ASSUME NEW p \in Pids, Runs(p) PROVE [Registry!Next]_registry
  BY <1>5, ServeStepsRegistry DEF Runs, SemWait, SemPost, Send, Exit
<1>6. QED
  BY <1>1, <1>2, <1>3, <1>4, <1>5 DEF Next

LEMMA ServeKeepsTypes ==
  ASSUME Types, NEW p \in Pids, Serve(p)
  PROVE  AgentTypes' /\ ListTypes'
<1> USE DEF Types
<1>1. /\ pc' = [pc EXCEPT ![p] = "sem_post"]
      /\ UNCHANGED <<cmd, commands, threads, connected, deaf, inbox>>
  BY DEF Serve, Goto
<1>2. CASE cmd[p].op = "FOLLOW" /\ ServeFOLLOW(p, cmd[p].word)
  BY <1>1, <1>2, CommandTypes DEF ServeFOLLOW, AgentTypes, ListTypes
<1>3. CASE cmd[p].op = "UNFOLLOW" /\ ServeUNFOLLOW(p, cmd[p].word)
  BY <1>1, <1>3, CommandTypes DEF ServeUNFOLLOW, AgentTypes, ListTypes
<1>4. CASE cmd[p].op = "SEND" /\ ServeSEND(p, cmd[p].text)
  <2>1. cmd[p].text \in SUBSET Words
    BY <1>4, CommandTypes
  <2>2. texts' \in Seq(SUBSET Words) /\ Len(texts) + 1 \in Nat
    BY <1>4, <2>1 DEF ServeSEND, ListTypes
  <2>3. due' \in [Pids -> SUBSET (Nat \X Words)]
    <3>1. \A q \in Pids : {Len(texts) + 1} \X (Registry!Followed(q) \cap cmd[p].text)
                            \in SUBSET (Nat \X Words)
      BY <2>1, <2>2
    <3>2. QED
      BY <1>4, <3>1 DEF ServeSEND, ListTypes
  <2>4. pending' \in [Pids -> BOOLEAN]
    BY <1>4 DEF ServeSEND, Kill, AgentTypes
  <2>5. QED
    BY <1>1, <1>4, <2>2, <2>3, <2>4 DEF ServeSEND, AgentTypes, ListTypes
<1>5. CASE ServeBYE(p)
  BY <1>1, <1>5 DEF ServeBYE, AgentTypes, ListTypes
<1>6. CASE UNCHANGED <<follow, texts, pending, due>>
  BY <1>1, <1>6 DEF AgentTypes, ListTypes
<1>7. QED
  BY <1>2, <1>3, <1>4, <1>5, <1>6 DEF Serve

LEMMA NotifiesKeepsTypes ==
  ASSUME Types, NEW p \in Pids, Notifies(p)
  PROVE  AgentTypes' /\ ListTypes'
<1> USE DEF Types
<1>1. threads' \in [Pids -> [ThreadSteps -> Nat]]
  BY NotifierStepsMove DEF Counted, AgentTypes
<1>2. UNCHANGED <<follow, texts, pc, cmd, commands, connected, deaf, due>>
  BY DEF Notifies, HandleSignal, NotifierSemWait, NotifierSend, NotifierSemPost
<1>3. pending' \in [Pids -> BOOLEAN]
  BY DEF Notifies, HandleSignal, NotifierSemWait, NotifierSend, NotifierSemPost, AgentTypes
<1>4. inbox' \in [Pids -> SUBSET (Nat \X Words)]
  <2>1. CASE NotifierSend(p)
    <3>1. Notifications(p) \in SUBSET (Nat \X Words)
      BY DEF Notifications, ListTypes
    <3>2. QED
      BY <2>1, <3>1 DEF NotifierSend, ListTypes
  <2>2. CASE UNCHANGED inbox
    BY <2>2 DEF ListTypes
  <2>3. QED
    BY <2>1, <2>2 DEF Notifies, HandleSignal, NotifierSemWait, NotifierSemPost
<1>5. QED
  BY <1>1, <1>2, <1>3, <1>4 DEF AgentTypes, ListTypes

LEMMA NextKeepsTypes ==
  ASSUME Types, [Next]_vars
  PROVE  Types'
<1> USE DEF Types
<1>1. Registry!TypeOK'
  BY NextStepsRegistry, RegistryKeepsTypes
<1>2. CASE UNCHANGED vars
  BY <1>1, <1>2 DEF vars, AgentTypes, ListTypes
<1>3. ASSUME NEW p \in Pids, Accept(p) \/ SemWait(p) \/ SemPost(p) \/ Send(p)
      PROVE  AgentTypes' /\ ListTypes'
  BY <1>3 DEF Accept, SemWait, SemPost, Send, Goto, AgentTypes, ListTypes
<1>4. ASSUME NEW p \in Pids, Receive(p) PROVE AgentTypes' /\ ListTypes'
  BY <1>4, ServerAssumption DEF Receive, Goto, AgentTypes, ListTypes
<1>5. ASSUME NEW p \in Pids, Die(p) PROVE AgentTypes' /\ ListTypes'
  BY <1>5 DEF Die, NoThreads, AgentTypes, ListTypes
<1>6. ASSUME NEW p \in Pids, ClientCloses(p) \/ ClientStopsReading(p)
      PROVE  AgentTypes' /\ ListTypes'
  BY <1>6 DEF ClientCloses, ClientStopsReading, AgentTypes, ListTypes
<1>7. CASE Next
  BY <1>1, <1>3, <1>4, <1>5, <1>6, <1>7, ServeKeepsTypes, NotifiesKeepsTypes
     DEF Next, Runs, Exit, Broken
<1>8. QED
  BY <1>2, <1>7
LEMMA TypesSuffice == Types /\ sem \in {0, 1} => TypeOK
BY DEF Types, AgentTypes, ListTypes, TypeOK

LEMMA TypesAlways == Spec => []Types
BY InitTypes, NextKeepsTypes, PTL DEF Spec

LEMMA ExclusionAlways == Spec => []Exclusion
BY InitExclusion, NextKeepsExclusion, PTL DEF Spec

(* All of the server's state keeps its type, for any number of agents; in  *)
(* particular the semaphore is never more than 1, whatever processes end   *)
(* while they hold it (server.c:26-73, 425-446).                           *)
THEOREM TypeCorrect == Spec => []TypeOK
<1>1. Exclusion => sem \in {0, 1}
  BY DEF Exclusion
<1>2. QED
  BY <1>1, TypesAlways, ExclusionAlways, TypesSuffice, PTL

-----------------------------------------------------------------------------
(* Delivery.  That a client is told of the latest message is inductive     *)
(* only together with three facts about the lists: a process that is       *)
(* connected is neither new nor dead, an agent's private list holds        *)
(* whatever the registry holds for it, and what is due of the latest       *)
(* message is in that list, so that the next notifier will send it.        *)

ConnectedRuns == \A p \in Pids : connected[p] => pc[p] \notin {"none", "dead"}

ListHoldsRegistry ==
  \A p \in Pids :
    /\ pc[p] # "dead" => Registry!Followed(p) \subseteq follow[p]
    /\ pc[p] = "none" => Registry!Followed(p) = {} /\ due[p] = {}

(* What is due to p of the latest message. *)
DueNow(p) == {n \in due[p] : n[1] = Len(texts)}

DueIsListed ==
  \A p \in Pids :
    /\ \A n \in due[p] : n[1] <= Len(texts)
    /\ pc[p] # "dead" => \A n \in DueNow(p) : n[2] \in follow[p]

Delivery == ConnectedRuns /\ ListHoldsRegistry /\ DueIsListed /\ LatestDelivered

LEMMA InitDelivery == Init => Delivery
BY DEF Init, Registry!Init, Registry!Followed, Delivery, ConnectedRuns,
       ListHoldsRegistry, DueNow, DueIsListed, LatestDelivered

LEMMA RegistryUnchanged ==
  UNCHANGED registered => \A p \in Pids : Registry!Followed(p)' = Registry!Followed(p)
BY DEF Registry!Followed

(* A step that changes nothing but where agents are, and lets no new agent *)
(* come alive and no dead one come back.                                   *)
LEMMA StillDelivered ==
  ASSUME Delivery,
         UNCHANGED <<registered, follow, texts, due, inbox, connected, pending, threads>>,
         \A p \in Pids : pc'[p] # pc[p] => pc[p] # "dead" /\ pc'[p] \notin {"none", "dead"}
  PROVE  Delivery'
<1> USE DEF Delivery
<1>1. \A p \in Pids : Registry!Followed(p)' = Registry!Followed(p)
  BY RegistryUnchanged
<1>2. ConnectedRuns'
  BY DEF ConnectedRuns
<1>3. ListHoldsRegistry'
  BY <1>1 DEF ListHoldsRegistry
<1>4. DueIsListed'
  BY DEF DueIsListed, DueNow
<1>5. LatestDelivered'
  BY DEF LatestDelivered, Quiet
<1>6. QED
  BY <1>2, <1>3, <1>4, <1>5

LEMMA AcceptKeepsDelivery ==
  ASSUME Types, Delivery, NEW p \in Pids, Accept(p)
  PROVE  Delivery'
<1> USE DEF Delivery
<1>1. /\ pc[p] = "none" /\ pc' = [pc EXCEPT ![p] = "recv"]
      /\ connected' = [connected EXCEPT ![p] = TRUE]
      /\ UNCHANGED <<registered, follow, texts, pending, threads, inbox, due>>
  BY DEF Accept, Goto, Registry!Accept
<1>2. /\ \A q \in Pids \ {p} : pc'[q] = pc[q] /\ connected'[q] = connected[q]
      /\ pc'[p] = "recv"
  BY <1>1 DEF Types, AgentTypes
<1>3. \A q \in Pids : Registry!Followed(q)' = Registry!Followed(q)
  BY <1>1, RegistryUnchanged
<1>4. due[p] = {} /\ Registry!Followed(p) = {}
  BY <1>1 DEF ListHoldsRegistry
<1>5. ConnectedRuns'
  BY <1>2 DEF ConnectedRuns
<1>6. ListHoldsRegistry'
  BY <1>1, <1>2, <1>3, <1>4 DEF ListHoldsRegistry
<1>7. DueIsListed'
  BY <1>1, <1>2, <1>4 DEF DueIsListed, DueNow
<1>8. LatestDelivered'
  BY <1>1, <1>2, <1>4 DEF LatestDelivered, Quiet
<1>9. QED
  BY <1>5, <1>6, <1>7, <1>8

(* What a command does to the lists of the agent that runs it. *)
LEMMA ServeKeepsDelivery ==
  ASSUME Types, Types', Delivery, NEW p \in Pids, Serve(p)
  PROVE  Delivery'
<1> USE DEF Delivery
<1>1. /\ pc[p] = "servecommand" /\ pc' = [pc EXCEPT ![p] = "sem_post"]
      /\ UNCHANGED <<threads, connected, inbox>>
  BY DEF Serve, Goto
<1>2. /\ \A q \in Pids \ {p} : pc'[q] = pc[q]
      /\ pc[p] \notin {"none", "dead"} /\ pc'[p] \notin {"none", "dead"}
  BY <1>1 DEF Types, AgentTypes
<1>3. ConnectedRuns'
  BY <1>1, <1>2 DEF ConnectedRuns
<1>4. CASE cmd[p].op = "FOLLOW" /\ ServeFOLLOW(p, cmd[p].word)
  <2> DEFINE w == cmd[p].word
  <2>1. /\ UNCHANGED <<texts, pending, due>>
        /\ follow' = [follow EXCEPT ![p] = IF answer'.reply = "ok" THEN @ \cup {w} ELSE @]
        /\ Registry!FOLLOW(p, w)
    BY <1>4 DEF ServeFOLLOW
  <2>2. \/ registered' = registered
        \/ registered' = registered \cup {<<p, w>>} /\ answer'.reply = "ok"
    BY <2>1 DEF Registry!FOLLOW, Registry!Reply, Registry!Answer
  <2>3. \A q \in Pids : follow[q] \subseteq follow'[q]
    BY <2>1 DEF Types, ListTypes
  <2>4. \A q \in Pids \ {p} : Registry!Followed(q)' = Registry!Followed(q)
    BY <2>2 DEF Registry!Followed
  <2>5. Registry!Followed(p)' \subseteq follow'[p]
    <3>1. CASE registered' = registered
      BY <1>2, <2>3, <3>1 DEF Registry!Followed, ListHoldsRegistry
    <3>2. CASE registered' = registered \cup {<<p, w>>} /\ answer'.reply = "ok"
      BY <1>2, <2>1, <3>2 DEF Registry!Followed, ListHoldsRegistry, Types, ListTypes
    <3>3. QED
      BY <2>2, <3>1, <3>2
  <2>6. ListHoldsRegistry'
    BY <1>2, <2>1, <2>3, <2>4, <2>5 DEF ListHoldsRegistry
  <2>7. DueIsListed'
    BY <1>2, <2>1, <2>3 DEF DueIsListed, DueNow
  <2>8. LatestDelivered'
    BY <1>1, <2>1 DEF LatestDelivered, Quiet
  <2>9. QED
    BY <1>3, <2>6, <2>7, <2>8
<1>5. CASE cmd[p].op = "UNFOLLOW" /\ ServeUNFOLLOW(p, cmd[p].word)
  <2> DEFINE w == cmd[p].word
  <2>1. /\ UNCHANGED <<texts, pending>>
        /\ follow' = [follow EXCEPT ![p] = @ \ {w}]
        /\ due' = [due EXCEPT ![p] = {n \in @ : n[2] # w}]
        /\ registered' = registered \ {<<p, w>>}
    BY <1>5 DEF ServeUNFOLLOW, Registry!UNFOLLOW
  <2>2. /\ follow'[p] = follow[p] \ {w} /\ \A q \in Pids \ {p} : follow'[q] = follow[q]
        /\ due'[p] = {n \in due[p] : n[2] # w} /\ \A q \in Pids \ {p} : due'[q] = due[q]
    BY <2>1 DEF Types, ListTypes
  <2>3. /\ \A q \in Pids \ {p} : Registry!Followed(q)' = Registry!Followed(q)
        /\ Registry!Followed(p)' = Registry!Followed(p) \ {w}
    BY <2>1 DEF Registry!Followed
  <2>4. ListHoldsRegistry'
    BY <1>2, <2>2, <2>3 DEF ListHoldsRegistry
  <2>5. DueIsListed'
    BY <1>2, <2>1, <2>2 DEF DueIsListed, DueNow
  <2>6. LatestDelivered'
    BY <1>1, <2>1, <2>2 DEF LatestDelivered, Quiet
  <2>7. QED
    BY <1>3, <2>4, <2>5, <2>6
<1>6. CASE cmd[p].op = "SEND" /\ ServeSEND(p, cmd[p].text)
  <2> DEFINE text == cmd[p].text
             next == Len(texts) + 1
  <2>1. /\ UNCHANGED <<registered, follow>>
        /\ texts' = Append(texts, text)
        /\ pending' = [q \in Pids |-> \/ pending[q]
                         \/ /\ q \in {r \in Pids : Registry!Followed(r) \cap text # {}}
                            /\ pc[q] # "dead"]
        /\ due' = [q \in Pids |-> due[q] \cup ({next} \X (Registry!Followed(q) \cap text))]
    BY <1>6 DEF ServeSEND, Kill, Registry!SEND, Registry!Answer
  <2>2. \A q \in Pids : Registry!Followed(q)' = Registry!Followed(q)
    BY <2>1, RegistryUnchanged
  <2>3. Len(texts) \in Nat /\ Len(texts') = next
    BY <2>1, <1>6, CommandTypes DEF Types, ListTypes
  <2>4. \A q \in Pids : \A n \in due[q] : n[1] <= Len(texts) /\ n[1] \in Nat
    BY DEF DueIsListed, Types, ListTypes
  <2>5. \A q \in Pids : DueNow(q)' = {next} \X (Registry!Followed(q) \cap text)
    BY <2>1, <2>3, <2>4 DEF DueNow
  <2>6. ListHoldsRegistry'
    BY <1>2, <2>1, <2>2 DEF ListHoldsRegistry
  <2>7. DueIsListed'
    <3>1. ASSUME NEW q \in Pids, NEW n \in due'[q] PROVE n[1] <= Len(texts')
      BY <2>1, <2>3, <2>4, <3>1
    <3>2. ASSUME NEW q \in Pids, pc'[q] # "dead", NEW n \in DueNow(q)' PROVE n[2] \in follow'[q]
      BY <1>2, <2>1, <2>5, <3>2 DEF ListHoldsRegistry
    <3>3. QED
      BY <3>1, <3>2 DEF DueIsListed
  <2>8. LatestDelivered'
    <3> SUFFICES ASSUME NEW q \in Pids, connected'[q], Quiet(q)', NEW n \in DueNow(q)'
                 PROVE  FALSE
      BY DEF LatestDelivered, DueNow
    <3>1. Registry!Followed(q) \cap text # {}
      BY <2>5
    <3>2. pc[q] # "dead"
      BY <1>1 DEF ConnectedRuns
    <3>3. pending'[q]
      BY <2>1, <3>1, <3>2
    <3>4. QED
      BY <3>3 DEF Quiet
  <2>9. QED
    BY <1>3, <2>6, <2>7, <2>8
<1>7. CASE ServeBYE(p)
  <2>1. /\ UNCHANGED <<texts, pending, follow>>
        /\ due' = [due EXCEPT ![p] = {}]
        /\ registered' \subseteq registered
    BY <1>7 DEF ServeBYE, Registry!BYE
  <2>2. due'[p] = {} /\ \A q \in Pids \ {p} : due'[q] = due[q]
    BY <2>1 DEF Types, ListTypes
  <2>3. \A q \in Pids : Registry!Followed(q)' \subseteq Registry!Followed(q)
    BY <2>1 DEF Registry!Followed
  <2>4. ListHoldsRegistry'
    BY <1>2, <2>1, <2>2, <2>3 DEF ListHoldsRegistry
  <2>5. DueIsListed'
    BY <1>2, <2>1, <2>2 DEF DueIsListed, DueNow
  <2>6. LatestDelivered'
    BY <1>1, <2>1, <2>2 DEF LatestDelivered, Quiet
  <2>7. QED
    BY <1>3, <2>4, <2>5, <2>6
<1>8. CASE UNCHANGED <<registered, follow, texts, pending, due>>
  BY <1>1, <1>2, <1>8, StillDelivered
<1>9. QED
  BY <1>4, <1>5, <1>6, <1>7, <1>8 DEF Serve, Registry!FOLLOWING, registry

(* A process that ends, with its threads. *)
LEMMA DeathKeepsDelivery ==
  ASSUME Types, Delivery, NEW p \in Pids, Die(p), UNCHANGED registered
  PROVE  Delivery'
<1> USE DEF Delivery
<1>1. /\ UNCHANGED <<texts, inbox, due>>
      /\ pc'[p] = "dead" /\ ~ connected'[p]
      /\ \A q \in Pids \ {p} : /\ pc'[q] = pc[q] /\ connected'[q] = connected[q]
                               /\ follow'[q] = follow[q] /\ pending'[q] = pending[q]
                               /\ threads'[q] = threads[q]
  BY DEF Die, Types, AgentTypes, ListTypes
<1>2. \A q \in Pids : Registry!Followed(q)' = Registry!Followed(q)
  BY RegistryUnchanged
<1>3. ConnectedRuns'
  BY <1>1 DEF ConnectedRuns
<1>4. ListHoldsRegistry'
  BY <1>1, <1>2 DEF ListHoldsRegistry
<1>5. DueIsListed'
  BY <1>1 DEF DueIsListed, DueNow
<1>6. LatestDelivered'
  BY <1>1 DEF LatestDelivered, Quiet
<1>7. QED
  BY <1>3, <1>4, <1>5, <1>6

(* A notifier that sends, sends all that is due of the latest message; the *)
(* other steps of signals and threads leave an agent unquiet that was.     *)
LEMMA NotifiesKeepsDelivery ==
  ASSUME Types, Types', Delivery, NEW p \in Pids, Notifies(p)
  PROVE  Delivery'
<1> USE DEF Delivery
<1>1. UNCHANGED <<registered, follow, texts, pc, connected, due>>
  BY DEF Notifies, HandleSignal, NotifierSemWait, NotifierSend, NotifierSemPost, registry
<1>2. \A q \in Pids : Registry!Followed(q)' = Registry!Followed(q)
  BY <1>1, RegistryUnchanged
<1>3. ConnectedRuns' /\ ListHoldsRegistry' /\ DueIsListed'
  BY <1>1, <1>2 DEF ConnectedRuns, ListHoldsRegistry, DueIsListed, DueNow
<1>4. \A q \in Pids \ {p} : pending'[q] = pending[q] /\ threads'[q] = threads[q]
                              /\ inbox'[q] = inbox[q]
  BY DEF Notifies, HandleSignal, NotifierSemWait, NotifierSend, NotifierSemPost, Step,
         Types, AgentTypes, ListTypes
<1>5. ASSUME connected[p], Quiet(p)' PROVE DueNow(p) \subseteq inbox'[p]
  <2>1. CASE HandleSignal(p)
    <3>1. threads'[p].sem_wait = threads[p].sem_wait + 1 /\ threads[p].sem_wait \in Nat
      BY <2>1 DEF HandleSignal, Types, AgentTypes, ThreadSteps
    <3>2. QED
      BY <1>5, <3>1 DEF Quiet
  <2>2. CASE NotifierSemWait(p)
    <3>1. threads'[p]["send"] = threads[p]["send"] + 1 /\ threads[p]["send"] \in Nat
      BY <2>2, StepMoves DEF NotifierSemWait, Types, AgentTypes, Counted, ThreadSteps
    <3>2. QED
      BY <1>5, <3>1 DEF Quiet
  <2>3. CASE NotifierSend(p)
    <3>1. inbox'[p] = inbox[p] \cup ({Len(texts)} \X follow[p])
      BY <1>5, <2>3 DEF NotifierSend, Notifications, Types, ListTypes
    <3>2. \A n \in DueNow(p) : n \in {Len(texts)} \X follow[p]
      BY <1>5 DEF DueNow, DueIsListed, ConnectedRuns, Types, ListTypes
    <3>3. QED
      BY <3>1, <3>2
  <2>4. CASE NotifierSemPost(p)
    <3>1. /\ UNCHANGED <<pending, inbox>>
          /\ threads'[p].sem_wait = threads[p].sem_wait
          /\ threads'[p].send = threads[p].send
      BY <2>4 DEF NotifierSemPost, Types, AgentTypes, ThreadSteps
    <3>2. QED
      BY <1>5, <3>1 DEF Quiet, LatestDelivered, DueNow
  <2>5. QED
    BY <2>1, <2>2, <2>3, <2>4 DEF Notifies
<1>6. LatestDelivered'
  BY <1>1, <1>4, <1>5 DEF LatestDelivered, Quiet, DueNow
<1>7. QED
  BY <1>3, <1>6

LEMMA NextKeepsDelivery ==
  ASSUME Types, Types', Delivery, [Next]_vars
  PROVE  Delivery'
<1>1. CASE UNCHANGED vars
  BY <1>1, StillDelivered DEF vars
<1>2. ASSUME NEW p \in Pids, \/ Receive(p) \/ SemWait(p) \/ SemPost(p) \/ Send(p)
                              \/ ClientStopsReading(p)
      PROVE  Delivery'
  BY <1>2, StillDelivered
     DEF Receive, SemWait, SemPost, Send, ClientStopsReading, Goto, registry, Types,
         AgentTypes
<1>3. ASSUME NEW p \in Pids, Exit(p) \/ Broken(p) PROVE Delivery'
  BY <1>3, DeathKeepsDelivery DEF Exit, Broken, registry, Registry!Disconnect
<1>4. ASSUME NEW p \in Pids, ClientCloses(p) PROVE Delivery'
  <2>1. /\ connected' = [connected EXCEPT ![p] = FALSE]
        /\ UNCHANGED <<registered, follow, texts, pc, pending, threads, inbox, due>>
    BY <1>4 DEF ClientCloses, registry
  <2>2. \A q \in Pids : connected'[q] => connected[q]
    BY <2>1 DEF Types, AgentTypes
  <2>3. \A q \in Pids : Registry!Followed(q)' = Registry!Followed(q)
    BY <2>1, RegistryUnchanged
  <2>4. QED
    BY <2>1, <2>2, <2>3 DEF Delivery, ConnectedRuns, ListHoldsRegistry, DueIsListed,
                            DueNow, LatestDelivered, Quiet
<1>5. CASE Next
  BY <1>2, <1>3, <1>4, <1>5, AcceptKeepsDelivery, ServeKeepsDelivery, NotifiesKeepsDelivery
     DEF Next, Runs
<1>6. QED
  BY <1>1, <1>5

(* However signals merge, threads overtake each other and processes end,   *)
(* an agent with no signal pending and no thread on its way has told its   *)
(* client of the latest message, once for each word of it that the client  *)
(* follows: for any number of agents, words and messages                   *)
(* (server.c:76-128, 249-255).                                             *)
THEOREM LatestIsDelivered == Spec => []LatestDelivered
<1>1. Delivery => LatestDelivered
  BY DEF Delivery
<1>2. QED
  BY <1>1, InitDelivery, NextKeepsDelivery, TypesAlways, PTL DEF Spec
=============================================================================
