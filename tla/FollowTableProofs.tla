------------------------- MODULE FollowTableProofs -------------------------
(***************************************************************************)
(* Proofs about the table of followed words, for any table size, any hash  *)
(* function, and any number of agents and words.                           *)
(***************************************************************************)
EXTENDS FollowTable, FiniteSetTheorems, TLAPS

-----------------------------------------------------------------------------
(* The types *)

(* TypeOK in three parts, which the steps change one by one. *)
TableType ==
  /\ followList \in [Slots -> [pid : Pids \cup {Unused, Tombstone},
                               word : Words \cup {NoWord}]]
  /\ \A s \in Slots : Live(s) => followList[s].word \in Words

AgentsType ==
  /\ followCount \in Int
  /\ follow \in [Pids -> SUBSET Words]
  /\ status \in [Pids -> {"new", "alive", "dead"}]
  /\ hung \in BOOLEAN

AnswerType ==
  answer \in [reply : {"none", "ok", "limit", "already", "list"},
              notified : SUBSET Pids, words : SUBSET Words]

LEMMA TypeParts == TypeOK <=> TableType /\ AgentsType /\ AnswerType
BY DEF TypeOK, TableType, AgentsType, AnswerType

LEMMA ReplyType ==
  \A reply \in {"none", "ok", "limit", "already", "list"} :
    answer' = Reply(reply) => AnswerType'
BY DEF Reply, Answer, AnswerType

LEMMA InitType == Init => TypeOK
<1> SUFFICES ASSUME Init PROVE TypeOK
  OBVIOUS
<1>1. TableType
  BY TableAssumption DEF Init, TableType, TableAssumption, Unused, Tombstone, Live
<1>2. AgentsType
  <2>1. hung \in BOOLEAN
    BY DEF Init
  <2>2. followCount \in Int
    BY TableAssumption DEF Init, TableAssumption
  <2>3. follow \in [Pids -> SUBSET Words] /\ status \in [Pids -> {"new", "alive", "dead"}]
    BY DEF Init
  <2>4. QED
    BY <2>1, <2>2, <2>3 DEF AgentsType
<1>3. AnswerType
  BY DEF Init, AnswerType, Reply, Answer
<1>4. QED
  BY <1>1, <1>2, <1>3, TypeParts

(* What the steps do to the table, one slot at a time or all of an agent's *)
LEMMA PutType ==
  ASSUME TableType, NEW s \in Slots, NEW p \in Pids, NEW w \in Words,
         followList' = [followList EXCEPT ![s] = Entry(p, w)]
  PROVE  TableType'
BY DEF TableType, Live, Entry

LEMMA WipeType ==
  ASSUME TableType, NEW s \in Slots,
         followList' = [followList EXCEPT ![s] = Wiped]
  PROVE  TableType'
BY TableAssumption DEF TableType, Live, Wiped, TableAssumption, Tombstone

LEMMA ForgetType ==
  ASSUME TableType, NEW p \in Pids, Forget(p)
  PROVE  TableType'
BY TableAssumption DEF TableType, Live, Forget, Owned, TableAssumption, Tombstone

LEMMA OwnedCount ==
  ASSUME NEW p \in Pids
  PROVE  IsFiniteSet(Owned(p)) /\ Cardinality(Owned(p)) \in Nat
<1>1. IsFiniteSet(Slots)
  BY TableAssumption, FS_Interval DEF Slots, TableAssumption
<1>2. Owned(p) \in SUBSET Slots
  BY DEF Owned
<1>3. QED
  BY <1>1, <1>2, FS_Subset, FS_CardinalityType

(* A step of clients that keep to the protocol is one of any clients.      *)
LEMMA NextIsNextByeText == [Next]_vars => [NextByeText]_vars
BY DEF NextByeText

LEMMA NextType == TypeOK /\ [NextByeText]_vars => TypeOK'
<1> SUFFICES ASSUME TypeOK, [NextByeText]_vars PROVE TypeOK'
  OBVIOUS
<1>t. TableType /\ AgentsType /\ AnswerType
  BY TypeParts
<1> SUFFICES TableType' /\ AgentsType' /\ AnswerType'
  BY DEF TypeOK, TableType, AgentsType, AnswerType
<1>1. CASE UNCHANGED vars
  BY <1>1, <1>t DEF TableType, AgentsType, AnswerType, vars, Live
<1>2. ASSUME NEW p \in Pids, Accept(p) \/ FOLLOWING(p) \/ Disconnect(p)
      PROVE  TableType' /\ AgentsType' /\ AnswerType'
  BY <1>2, <1>t DEF TableType, AgentsType, AnswerType, Live, Accept, FOLLOWING,
                    Disconnect, Exit, Answer
<1>3. ASSUME NEW p \in Pids, NEW w \in Words, FOLLOW(p, w)
      PROVE  TableType' /\ AgentsType' /\ AnswerType'
  <2>1. TableType'
    <3>1. CASE UNCHANGED followList
      BY <1>t, <3>1 DEF TableType, Live
    <3>2. CASE \E s \in Slots : followList' = [followList EXCEPT ![s] = Entry(p, w)]
      BY <1>t, <3>2, PutType
    <3>3. QED
      BY <1>3, <3>1, <3>2 DEF FOLLOW, Insert
  <2>2. AgentsType'
    <3>1. hung' \in BOOLEAN
      BY <1>3, <1>t DEF FOLLOW, Insert, AgentsType, Endless
    <3>2. follow' \in [Pids -> SUBSET Words] /\ followCount' \in Int
      BY <1>3, <1>t DEF FOLLOW, AgentsType
    <3>3. QED
      BY <1>3, <1>t, <3>1, <3>2 DEF FOLLOW, AgentsType
  <2>3. AnswerType'
    BY <1>3, ReplyType DEF FOLLOW
  <2>4. QED
    BY <2>1, <2>2, <2>3
<1>4. ASSUME NEW p \in Pids, NEW w \in Words, UNFOLLOW(p, w)
      PROVE  TableType' /\ AgentsType' /\ AnswerType'
  <2>1. TableType'
    <3>1. CASE UNCHANGED followList
      BY <1>t, <3>1 DEF TableType, Live
    <3>2. CASE \E s \in Slots : followList' = [followList EXCEPT ![s] = Wiped]
      BY <1>t, <3>2, WipeType
    <3>3. QED
      BY <1>4, <3>1, <3>2 DEF UNFOLLOW, Remove
  <2>2. AgentsType'
    <3>1. hung' \in BOOLEAN
      BY <1>4, <1>t DEF UNFOLLOW, Remove, AgentsType
    <3>2. follow' \in [Pids -> SUBSET Words] /\ followCount' \in Int
      BY <1>4, <1>t DEF UNFOLLOW, AgentsType
    <3>3. QED
      BY <1>4, <1>t, <3>1, <3>2 DEF UNFOLLOW, AgentsType
  <2>3. AnswerType'
    BY <1>4, ReplyType DEF UNFOLLOW
  <2>4. QED
    BY <2>1, <2>2, <2>3
<1>5. ASSUME NEW p \in Pids, NEW w \in Words, FOLLOWRefused(p, w) \/ UNFOLLOWRefused(p, w)
      PROVE  TableType' /\ AgentsType' /\ AnswerType'
  <2>1. AnswerType'
    BY <1>5, ReplyType DEF FOLLOWRefused, UNFOLLOWRefused
  <2>2. QED
    BY <1>5, <1>t, <2>1 DEF TableType, AgentsType, Live, FOLLOWRefused, UNFOLLOWRefused
<1>6. ASSUME NEW p \in Pids, NEW text \in SUBSET Words, SEND(p, text)
      PROVE  TableType' /\ AgentsType' /\ AnswerType'
  BY <1>6, <1>t DEF TableType, AgentsType, AnswerType, Live, SEND, Answer, Lookup
<1>7. ASSUME NEW p \in Pids, BYE(p) \/ BYEText(p)
      PROVE  TableType' /\ AgentsType' /\ AnswerType'
  <2>1. TableType'
    BY <1>7, <1>t, ForgetType DEF BYE, BYEText
  <2>2. followCount' \in Int
    BY <1>7, <1>t, OwnedCount DEF BYE, BYEText, Forget, AgentsType
  <2>3. AgentsType'
    BY <1>7, <1>t, <2>2, TableAssumption DEF AgentsType, BYE, BYEText, Exit, TableAssumption
  <2>4. AnswerType'
    BY <1>7, ReplyType DEF BYE, BYEText
  <2>5. QED
    BY <2>1, <2>3, <2>4
<1>8. QED
  BY <1>1, <1>2, <1>3, <1>4, <1>5, <1>6, <1>7 DEF NextByeText, Next

(* The variables keep their types: the table holds pids, marks and words,  *)
(* whatever the commands (server.c:136-411).                               *)
THEOREM TypeCorrect == (Spec => []TypeOK) /\ (ByeTextSpec => []TypeOK)
BY InitType, NextType, NextIsNextByeText, PTL DEF Spec, ByeTextSpec

-----------------------------------------------------------------------------
(* The table *)

(* Why no word is entered twice: an entry of an agent that serves is in    *)
(* its private list, which FOLLOW looks at first; an agent that does not   *)
(* serve yet has none.                                                     *)
Owners ==
  \A s \in Slots : Live(s) =>
    LET p == followList[s].pid
    IN  /\ status[p] # "new"
        /\ status[p] = "alive" => followList[s].word \in follow[p]

TableInv == Owners /\ AllReachable /\ NoDuplicates

(* A step that only turns entries into tombstones cuts nothing off. *)
LEMMA RemovingKeepsTable ==
  ASSUME TableType, AllReachable, NoDuplicates,
         \A s \in Slots :
           /\ followList[s].pid # Unused => followList'[s].pid # Unused
           /\ Live(s)' => followList'[s] = followList[s]
  PROVE  AllReachable' /\ NoDuplicates'
<1>1. AllReachable'
  BY DEF AllReachable, Reaches, Before, Live
<1>2. NoDuplicates'
  BY DEF NoDuplicates, Live
<1>3. QED
  BY <1>1, <1>2

(* An entry put where FOLLOW puts it is reachable and cuts nothing off. *)
LEMMA PuttingKeepsTable ==
  ASSUME TableType, AllReachable, NoDuplicates,
         NEW p \in Pids, NEW w \in Words, NEW s \in Slots, Insertable(Home[w], s),
         \A t \in Slots : ~ Holds(t, p, w),
         followList' = [followList EXCEPT ![s] = Entry(p, w)]
  PROVE  AllReachable' /\ NoDuplicates'
<1>1. p \in Nat \ {0}
  BY TableAssumption DEF TableAssumption
<1>2. \A t \in Slots : followList'[t] = IF t = s THEN Entry(p, w) ELSE followList[t]
  BY DEF TableType
<1>3. \A t \in Slots : followList[t].pid # Unused => followList'[t].pid # Unused
  BY <1>1, <1>2 DEF Entry, Unused
<1>4. \A t \in Before(Home[w], s) : followList'[t].pid # Unused
  BY <1>3 DEF Insertable, Free, Before, Unused
<1>5. AllReachable'
  BY <1>2, <1>3, <1>4 DEF AllReachable, Reaches, Before, Live, Entry
<1>6. NoDuplicates'
  BY <1>2 DEF NoDuplicates, Live, Holds, Entry
<1>7. QED
  BY <1>5, <1>6

(* BYE leaves nothing of the agent, and the others as they were. *)
LEMMA ForgettingKeepsTable ==
  ASSUME TableType, AllReachable, NoDuplicates, NEW p \in Pids, Forget(p)
  PROVE  /\ AllReachable' /\ NoDuplicates'
         /\ \A s \in Slots : Live(s)' => followList'[s] = followList[s]
         /\ \A s \in Slots : followList'[s].pid # p
<1>1. /\ p # Unused /\ p # Tombstone /\ Tombstone \notin Pids
      /\ Tombstone # Unused
  BY TableAssumption DEF TableAssumption, Unused, Tombstone
<1>2. \A s \in Slots :
        /\ followList[s].pid = p => followList'[s].pid = Tombstone
        /\ followList[s].pid # p => followList'[s] = followList[s]
  BY DEF Forget, Owned, TableType
<1>3. \A s \in Slots : Live(s)' => followList'[s] = followList[s]
  BY <1>1, <1>2 DEF Live
<1>4. \A s \in Slots : followList[s].pid # Unused => followList'[s].pid # Unused
  BY <1>1, <1>2
<1>5. QED
  BY <1>1, <1>2, <1>3, <1>4, RemovingKeepsTable

LEMMA InitTable == Init => TableInv
BY TableAssumption
   DEF Init, TableInv, Owners, AllReachable, NoDuplicates, Live, Unused, TableAssumption

(* Owners, when the table, the lists and the states of the agents change.  *)
LEMMA NextTable == TypeOK /\ TableInv /\ [NextByeText]_vars => TableInv'
<1> SUFFICES ASSUME TypeOK, TableInv, [NextByeText]_vars PROVE TableInv'
  OBVIOUS
<1>t. TableType /\ AgentsType
  BY TypeParts
<1>i. Owners /\ AllReachable /\ NoDuplicates
  BY DEF TableInv
<1>same. ASSUME UNCHANGED followList PROVE AllReachable' /\ NoDuplicates'
  BY <1>same, <1>i DEF AllReachable, NoDuplicates, Live, Reaches, Before
<1>1. CASE UNCHANGED <<followList, follow, status>>
  BY <1>1, <1>i, <1>same DEF TableInv, Owners, Live
<1>2. ASSUME NEW p \in Pids, Accept(p) PROVE TableInv'
  <2>1. Owners'
    BY <1>2, <1>t, <1>i DEF Accept, Owners, Live, AgentsType
  <2>2. QED
    BY <1>2, <2>1, <1>same DEF Accept, TableInv
<1>3. ASSUME NEW p \in Pids, Disconnect(p) PROVE TableInv'
  <2>1. Owners'
    BY <1>3, <1>t, <1>i DEF Disconnect, Exit, Owners, Live, AgentsType
  <2>2. QED
    BY <1>3, <2>1, <1>same DEF Disconnect, TableInv
<1>4. ASSUME NEW p \in Pids, NEW w \in Words, FOLLOW(p, w) PROVE TableInv'
  <2>1. /\ status[p] = "alive" /\ w \notin follow[p]
        /\ follow' = [follow EXCEPT ![p] = @ \cup {w}] /\ status' = status
    BY <1>4 DEF FOLLOW, Serves, Follows
  <2>2. \A t \in Slots : ~ Holds(t, p, w)
    BY <2>1, <1>i DEF Owners, Holds, Live
  <2>3. CASE UNCHANGED followList
    BY <2>1, <2>3, <1>t, <1>i, <1>same DEF TableInv, Owners, Live, AgentsType
  <2>4. ASSUME NEW s \in Slots, Insertable(Home[w], s),
               followList' = [followList EXCEPT ![s] = Entry(p, w)]
        PROVE  TableInv'
    <3>1. AllReachable' /\ NoDuplicates'
      BY <2>2, <2>4, <1>t, <1>i, PuttingKeepsTable
    <3>2. \A t \in Slots : followList'[t] = IF t = s THEN Entry(p, w) ELSE followList[t]
      BY <2>4, <1>t DEF TableType
    <3>3. \A q \in Pids : follow'[q] = IF q = p THEN follow[q] \cup {w} ELSE follow[q]
      BY <2>1, <1>t DEF AgentsType
    <3>4. Owners'
      BY <2>1, <3>2, <3>3, <1>i DEF Owners, Live, Entry
    <3>5. QED
      BY <3>1, <3>4 DEF TableInv
  <2>5. QED
    BY <1>4, <2>3, <2>4 DEF FOLLOW, Insert
<1>5. ASSUME NEW p \in Pids, NEW w \in Words, UNFOLLOW(p, w) PROVE TableInv'
  <2>1. /\ follow' = [follow EXCEPT ![p] = @ \ {w}] /\ status' = status
        /\ Remove(p, w)
    BY <1>5 DEF UNFOLLOW
  <2>2. \A q \in Pids : follow'[q] = IF q = p THEN follow[q] \ {w} ELSE follow[q]
    BY <2>1, <1>t DEF AgentsType
  <2>3. ASSUME UNCHANGED followList, \A s \in Slots : Reaches(Home[w], s) => ~ Holds(s, p, w)
        PROVE  TableInv'
    <3>1. \A s \in Slots : ~ Holds(s, p, w)
      BY <2>3, <1>i DEF AllReachable, Holds, Live
    <3>2. Owners'
      BY <2>1, <2>2, <2>3, <3>1, <1>i DEF Owners, Live, Holds
    <3>3. QED
      BY <2>3, <3>2, <1>same DEF TableInv
  <2>4. ASSUME NEW s \in Slots, Holds(s, p, w),
               followList' = [followList EXCEPT ![s] = Wiped]
        PROVE  TableInv'
    <3>1. Tombstone \notin Pids /\ Tombstone # Unused
      BY TableAssumption DEF TableAssumption, Unused, Tombstone
    <3>2. \A t \in Slots : followList'[t] = IF t = s THEN Wiped ELSE followList[t]
      BY <2>4, <1>t DEF TableType
    <3>3. \A t \in Slots :
            /\ followList[t].pid # Unused => followList'[t].pid # Unused
            /\ Live(t)' => followList'[t] = followList[t] /\ t # s
      BY <3>1, <3>2 DEF Wiped, Live
    <3>4. AllReachable' /\ NoDuplicates'
      BY <3>3, <1>t, <1>i, RemovingKeepsTable
    <3>5. \A t \in Slots : Live(t) /\ Holds(t, p, w) => followList[t] = followList[s]
      BY <2>4, <1>t DEF TableType, Holds
    <3>6. \A t \in Slots : Live(t)' => ~ Holds(t, p, w)
      BY <3>3, <3>5, <1>i DEF NoDuplicates, Live
    <3>7. Owners'
      BY <2>1, <2>2, <3>3, <3>6, <1>i DEF Owners, Live, Holds
    <3>8. QED
      BY <3>4, <3>7 DEF TableInv
  <2>5. QED
    BY <2>1, <2>3, <2>4 DEF Remove
<1>6. ASSUME NEW p \in Pids, BYE(p) \/ BYEText(p) PROVE TableInv'
  <2>1. Forget(p)
    BY <1>6 DEF BYE, BYEText
  <2>2. /\ AllReachable' /\ NoDuplicates'
        /\ \A s \in Slots : Live(s)' => followList'[s] = followList[s]
        /\ \A s \in Slots : followList'[s].pid # p
    BY <2>1, <1>t, <1>i, ForgettingKeepsTable
  <2>3. \A q \in Pids \ {p} : status'[q] = status[q] /\ follow'[q] = follow[q]
    BY <1>6, <1>t DEF BYE, BYEText, Exit, AgentsType
  <2>4. Owners'
    BY <2>2, <2>3, <1>i DEF Owners, Live
  <2>5. QED
    BY <2>2, <2>4 DEF TableInv
<1>7. QED
  <2>1. ASSUME NEW p \in Pids, FOLLOWING(p) PROVE TableInv'
    BY <2>1, <1>1 DEF FOLLOWING
  <2>2. ASSUME NEW p \in Pids, NEW w \in Words, FOLLOWRefused(p, w) \/ UNFOLLOWRefused(p, w)
        PROVE  TableInv'
    BY <2>2, <1>1 DEF FOLLOWRefused, UNFOLLOWRefused
  <2>3. ASSUME NEW p \in Pids, NEW text \in SUBSET Words, SEND(p, text) PROVE TableInv'
    BY <2>3, <1>1 DEF SEND
  <2>4. CASE UNCHANGED vars
    BY <2>4, <1>1 DEF vars
  <2>5. QED
    BY <1>2, <1>3, <1>4, <1>5, <1>6, <2>1, <2>2, <2>3, <2>4 DEF NextByeText, Next

(* Whatever agents follow, unfollow and forget, in whatever order, and     *)
(* whether or not BYE comes with text behind it: no removal cuts an entry  *)
(* off from the lookups that start at its home slot (server.c:203-248,     *)
(* 314-368).                                                               *)
THEOREM EntriesStayReachable ==
  (Spec => []AllReachable) /\ (ByeTextSpec => []AllReachable)
<1>1. Init => TypeOK /\ TableInv
  BY InitType, InitTable
<1>2. TypeOK /\ TableInv /\ [NextByeText]_vars => TypeOK' /\ TableInv'
  BY NextType, NextTable
<1>3. TableInv => AllReachable
  BY DEF TableInv
<1>4. QED
  BY <1>1, <1>2, <1>3, NextIsNextByeText, PTL DEF Spec, ByeTextSpec

(* And no agent ever has two entries for one word (server.c:297-303).      *)
THEOREM EntriesStayUnique ==
  (Spec => []NoDuplicates) /\ (ByeTextSpec => []NoDuplicates)
<1>1. Init => TypeOK /\ TableInv
  BY InitType, InitTable
<1>2. TypeOK /\ TableInv /\ [NextByeText]_vars => TypeOK' /\ TableInv'
  BY NextType, NextTable
<1>3. TableInv => NoDuplicates
  BY DEF TableInv
<1>4. QED
  BY <1>1, <1>2, <1>3, NextIsNextByeText, PTL DEF Spec, ByeTextSpec

-----------------------------------------------------------------------------
(* The counter and the private lists, when nobody sends BYE with text      *)
(* behind it                                                               *)

LiveSlots == {s \in Slots : Live(s)}

(* Every word of a private list has its entry, and only agents that serve  *)
(* have a list.                                                            *)
Listed ==
  /\ \A p \in Pids : status[p] # "alive" => follow[p] = {}
  /\ \A p \in Pids : \A w \in follow[p] : \E s \in Slots : Holds(s, p, w)

Agreement == Listed /\ CountExact /\ ~ hung

LEMMA SlotsFinite == IsFiniteSet(Slots) /\ Cardinality(Slots) = MaxFollower
BY TableAssumption, FS_Interval DEF Slots, TableAssumption

LEMMA LiveSlotsFinite == IsFiniteSet(LiveSlots) /\ Cardinality(LiveSlots) \in Nat
<1>1. LiveSlots \in SUBSET Slots
  BY DEF LiveSlots
<1>2. QED
  BY <1>1, SlotsFinite, FS_Subset, FS_CardinalityType

(* The counter below the limit means that FOLLOW finds a slot. *)
LEMMA RoomWhileBelowLimit ==
  ASSUME TypeOK, CountExact, ~ LimitReached
  PROVE  \E s \in Slots : Free(s)
<1>1. Cardinality(LiveSlots) # MaxFollower
  BY DEF CountExact, LimitReached, LiveSlots
<1>2. PICK s \in Slots : ~ Live(s)
  BY <1>1, SlotsFinite DEF LiveSlots
<1>3. followList[s].pid \in {Unused, Tombstone}
  BY <1>2 DEF TypeOK, Live
<1>4. QED
  BY <1>2, <1>3 DEF Free, Unused, Tombstone

LEMMA InitAgreement == Init => Agreement
<1> SUFFICES ASSUME Init PROVE Agreement
  OBVIOUS
<1>1. {s \in Slots : Live(s)} = {}
  BY TableAssumption DEF Init, Live, Unused, TableAssumption
<1>2. CountExact
  BY <1>1, FS_EmptySet DEF Init, CountExact
<1>3. QED
  BY <1>2 DEF Init, Agreement, Listed

LEMMA FOLLOWKeepsAgreement ==
  ASSUME TypeOK, TableInv, Agreement, NEW p \in Pids, NEW w \in Words, FOLLOW(p, w)
  PROVE  Agreement'
<1>t. TableType /\ AgentsType
  BY TypeParts
<1>1. PICK s \in Slots : /\ Free(s)
                         /\ followList' = [followList EXCEPT ![s] = Entry(p, w)]
                         /\ UNCHANGED hung
  BY RoomWhileBelowLimit DEF Agreement, FOLLOW, Insert, Insertable
<1>2. /\ status[p] = "alive" /\ status' = status
      /\ follow' = [follow EXCEPT ![p] = @ \cup {w}]
      /\ followCount' = followCount + 1
  BY DEF FOLLOW, Serves
<1>3. \A t \in Slots : followList'[t] = IF t = s THEN Entry(p, w) ELSE followList[t]
  BY <1>1, <1>t DEF TableType
<1>4. ~ Live(s)
  <2>1. \A q \in Pids : q \in Nat /\ q # 0
    BY TableAssumption DEF TableAssumption
  <2>2. followList[s].pid <= 0
    BY <1>1 DEF Free
  <2>3. QED
    BY <2>1, <2>2 DEF Live
<1>5. LiveSlots' = LiveSlots \cup {s}
  BY <1>3 DEF LiveSlots, Live, Entry
<1>6. Cardinality(LiveSlots') = Cardinality(LiveSlots) + 1
  BY <1>4, <1>5, LiveSlotsFinite, FS_AddElement DEF LiveSlots
<1>7. CountExact'
  BY <1>2, <1>6 DEF Agreement, CountExact, LiveSlots
<1>8. \A q \in Pids : follow'[q] = IF q = p THEN follow[q] \cup {w} ELSE follow[q]
  BY <1>2, <1>t DEF AgentsType
<1>9. \A q \in Pids : \A v \in follow'[q] : \E t \in Slots : Holds(t, q, v)'
  <2> SUFFICES ASSUME NEW q \in Pids, NEW v \in follow'[q]
               PROVE  \E t \in Slots : Holds(t, q, v)'
    OBVIOUS
  <2>1. CASE q = p /\ v = w
    BY <2>1, <1>3 DEF Holds, Entry
  <2>2. CASE v \in follow[q]
    <3>1. PICK t \in Slots : Holds(t, q, v)
      BY <2>2 DEF Agreement, Listed
    <3>2. t # s
      BY <3>1, <1>4 DEF Holds, Live
    <3>3. QED
      BY <3>1, <3>2, <1>3 DEF Holds
  <2>3. QED
    BY <2>1, <2>2, <1>8
<1>10. QED
  BY <1>1, <1>2, <1>7, <1>8, <1>9 DEF Agreement, Listed

LEMMA UNFOLLOWKeepsAgreement ==
  ASSUME TypeOK, TableInv, Agreement, NEW p \in Pids, NEW w \in Words, UNFOLLOW(p, w)
  PROVE  Agreement'
<1>t. TableType /\ AgentsType
  BY TypeParts
<1>1. /\ status[p] = "alive" /\ w \in follow[p] /\ status' = status
      /\ follow' = [follow EXCEPT ![p] = @ \ {w}]
      /\ followCount' = followCount - 1
      /\ Remove(p, w)
  BY DEF UNFOLLOW, Serves
<1>2. \E s \in Slots : Reaches(Home[w], s) /\ Holds(s, p, w)
  BY <1>1 DEF Agreement, Listed, TableInv, AllReachable, Holds, Live
<1>3. PICK s \in Slots : /\ Holds(s, p, w)
                         /\ followList' = [followList EXCEPT ![s] = Wiped]
                         /\ UNCHANGED hung
  BY <1>1, <1>2 DEF Remove
<1>4. \A t \in Slots : followList'[t] = IF t = s THEN Wiped ELSE followList[t]
  BY <1>3, <1>t DEF TableType
<1>5. LiveSlots' = LiveSlots \ {s} /\ s \in LiveSlots
  BY <1>3, <1>4, TableAssumption DEF LiveSlots, Live, Wiped, Holds, Tombstone, TableAssumption
<1>6. Cardinality(LiveSlots') = Cardinality(LiveSlots) - 1
  BY <1>5, LiveSlotsFinite, FS_RemoveElement
<1>7. CountExact'
  BY <1>1, <1>6 DEF Agreement, CountExact, LiveSlots
<1>8. \A q \in Pids : follow'[q] = IF q = p THEN follow[q] \ {w} ELSE follow[q]
  BY <1>1, <1>t DEF AgentsType
<1>9. \A q \in Pids : \A v \in follow'[q] : \E t \in Slots : Holds(t, q, v)'
  <2> SUFFICES ASSUME NEW q \in Pids, NEW v \in follow'[q]
               PROVE  \E t \in Slots : Holds(t, q, v)'
    OBVIOUS
  <2>1. v \in follow[q] /\ ~ (q = p /\ v = w)
    BY <1>8
  <2>2. PICK t \in Slots : Holds(t, q, v)
    BY <2>1 DEF Agreement, Listed
  <2>3. t # s
    BY <2>1, <2>2, <1>3 DEF Holds
  <2>4. QED
    BY <2>2, <2>3, <1>4 DEF Holds
<1>10. QED
  BY <1>1, <1>3, <1>7, <1>8, <1>9 DEF Agreement, Listed

LEMMA BYEKeepsAgreement ==
  ASSUME TypeOK, TableInv, Agreement, NEW p \in Pids, BYE(p)
  PROVE  Agreement'
<1>t. TableType /\ AgentsType
  BY TypeParts
<1>1. /\ Forget(p) /\ hung' = hung
      /\ status' = [status EXCEPT ![p] = "dead"]
      /\ follow' = [follow EXCEPT ![p] = {}]
  BY DEF BYE, Exit
<1>2. \A s \in Slots : followList'[s] = IF followList[s].pid = p
                                        THEN [followList[s] EXCEPT !.pid = Tombstone]
                                        ELSE followList[s]
  BY <1>1 DEF Forget, Owned
<1>3. LiveSlots' = LiveSlots \ Owned(p) /\ LiveSlots \cap Owned(p) = Owned(p)
  <2>1. Tombstone \notin Pids
    BY TableAssumption DEF TableAssumption, Tombstone
  <2>2. \A s \in Slots : Live(s)' <=> Live(s) /\ followList[s].pid # p
    BY <2>1, <1>2, <1>t DEF Live, TableType
  <2>3. QED
    BY <2>2 DEF LiveSlots, Owned, Live
<1>4. Cardinality(LiveSlots') = Cardinality(LiveSlots) - Cardinality(Owned(p))
  <2>1. Cardinality(LiveSlots \ Owned(p))
          = Cardinality(LiveSlots) - Cardinality(LiveSlots \cap Owned(p))
    BY LiveSlotsFinite, FS_Difference
  <2>2. QED
    BY <1>3, <2>1
<1>5. CountExact'
  BY <1>1, <1>4 DEF Agreement, CountExact, LiveSlots, Forget
<1>6. \A q \in Pids : /\ follow'[q] = IF q = p THEN {} ELSE follow[q]
                      /\ q # p => status'[q] = status[q]
  BY <1>1, <1>t DEF AgentsType
<1>7. \A q \in Pids : \A v \in follow'[q] : \E t \in Slots : Holds(t, q, v)'
  <2> SUFFICES ASSUME NEW q \in Pids, NEW v \in follow'[q]
               PROVE  \E t \in Slots : Holds(t, q, v)'
    OBVIOUS
  <2>1. q # p /\ v \in follow[q]
    BY <1>6
  <2>2. PICK t \in Slots : Holds(t, q, v)
    BY <2>1 DEF Agreement, Listed
  <2>3. followList'[t] = followList[t]
    BY <2>1, <2>2, <1>2 DEF Holds
  <2>4. QED
    BY <2>2, <2>3 DEF Holds
<1>8. QED
  BY <1>1, <1>5, <1>6, <1>7 DEF Agreement, Listed

LEMMA NextAgreement ==
  ASSUME TypeOK, TableInv, Agreement, [Next]_vars
  PROVE  Agreement'
<1>t. TableType /\ AgentsType
  BY TypeParts
<1>1. CASE UNCHANGED <<followList, followCount, follow, status, hung>>
  BY <1>1 DEF Agreement, Listed, CountExact, Live, Holds
<1>2. ASSUME NEW p \in Pids, Accept(p) PROVE Agreement'
  BY <1>2, <1>t DEF Accept, Agreement, Listed, CountExact, Live, Holds, AgentsType
<1>3. ASSUME NEW p \in Pids, Disconnect(p) PROVE Agreement'
  <2>1. \A q \in Pids : /\ follow'[q] = IF q = p THEN {} ELSE follow[q]
                        /\ q # p => status'[q] = status[q]
    BY <1>3, <1>t DEF Disconnect, Exit, AgentsType
  <2>2. UNCHANGED <<followList, followCount, hung>>
    BY <1>3 DEF Disconnect
  <2>3. QED
    BY <2>1, <2>2 DEF Agreement, Listed, CountExact, Live, Holds
<1>5. ASSUME NEW p \in Pids,
             \/ FOLLOWING(p)
             \/ \E w \in Words : FOLLOWRefused(p, w) \/ UNFOLLOWRefused(p, w)
             \/ \E text \in SUBSET Words : SEND(p, text)
      PROVE  Agreement'
  BY <1>1, <1>5 DEF FOLLOWING, FOLLOWRefused, UNFOLLOWRefused, SEND
<1>6. CASE UNCHANGED vars
  BY <1>1, <1>6 DEF vars
<1>7. QED
  BY <1>2, <1>3, <1>5, <1>6, FOLLOWKeepsAgreement, UNFOLLOWKeepsAgreement,
     BYEKeepsAgreement DEF Next

Correct == TypeOK /\ TableInv /\ Agreement

LEMMA CorrectAlways == Spec => []Correct
<1>1. Init => Correct
  BY InitType, InitTable, InitAgreement DEF Correct
<1>2. Correct /\ [Next]_vars => Correct'
  BY NextIsNextByeText, NextType, NextTable, NextAgreement DEF Correct
<1>3. QED
  BY <1>1, <1>2, PTL DEF Spec

(* The counter that FOLLOW compares with the limit is the number of the    *)
(* entries (server.c:291, 304, 344, 388).                                  *)
THEOREM CounterStaysExact == Spec => []CountExact
<1>1. Correct => CountExact
  BY DEF Correct, Agreement
<1>2. QED
  BY <1>1, CorrectAlways, PTL

(* So a word that is accepted has a slot, and no probe runs for ever with  *)
(* the semaphore taken (server.c:316-328, 350-369).                        *)
THEOREM ProbesEnd == Spec => []NeverHung
<1>1. Correct => NeverHung
  BY DEF Correct, Agreement, NeverHung
<1>2. QED
  BY <1>1, CorrectAlways, PTL

(* What a word that is looked up finds: its registered pairs. *)
LEMMA LookupFindsRegistered ==
  ASSUME Correct, NEW w \in Words, NEW p \in Pids
  PROVE  p \in Lookup(w) <=> <<p, w>> \in Registered
BY DEF Correct, TableInv, AllReachable, Lookup, Registered, Holds, Live

(* What an agent that serves has registered: its private list. *)
LEMMA ListIsRegistered ==
  ASSUME Correct, NEW p \in Pids, status[p] = "alive", NEW w \in Words
  PROVE  w \in follow[p] <=> <<p, w>> \in Registered
<1>1. w \in follow[p] => <<p, w>> \in Registered
  BY DEF Correct, Agreement, Listed, Registered
<1>2. <<p, w>> \in Registered => w \in follow[p]
  BY DEF Correct, TableInv, Owners, Registered, Holds, Live
<1>3. QED
  BY <1>1, <1>2

(* An agent lists a word exactly when the table does (server.c:297-330,    *)
(* 337-369).                                                               *)
THEOREM ListsStayInAgreement == Spec => []ListsAgree
<1>1. Correct => ListsAgree
  BY LookupFindsRegistered, ListIsRegistered DEF ListsAgree
<1>2. QED
  BY <1>1, CorrectAlways, PTL

-----------------------------------------------------------------------------
(* The table implements the abstract registry *)

(* There are as many pairs as entries. *)
LEMMA RegisteredCount ==
  ASSUME Correct
  PROVE  Cardinality(Registered) = followCount
<1> DEFINE f == [s \in LiveSlots |-> <<followList[s].pid, followList[s].word>>]
<1>t. TableType
  BY TypeParts DEF Correct
<1>1. f \in [LiveSlots -> Registered]
  BY <1>t DEF TableType, LiveSlots, Live, Registered, Holds
<1>2. \A s, t \in LiveSlots : f[s] = f[t] => s = t
  <2> SUFFICES ASSUME NEW s \in LiveSlots, NEW t \in LiveSlots, f[s] = f[t]
               PROVE  s = t
    OBVIOUS
  <2>1. followList[s].pid = followList[t].pid /\ followList[s].word = followList[t].word
    OBVIOUS
  <2>2. followList[s] = followList[t]
    BY <2>1, <1>t DEF TableType, LiveSlots
  <2>3. QED
    BY <2>2 DEF Correct, TableInv, NoDuplicates, LiveSlots
<1>3. \A pw \in Registered : \E s \in LiveSlots : f[s] = pw
  BY DEF Registered, Holds, LiveSlots, Live
<1> HIDE DEF f
<1>4. f \in Bijection(LiveSlots, Registered)
  BY <1>1, <1>2, <1>3 DEF Bijection, Injection, Surjection, IsInjective
<1>5. Cardinality(Registered) = Cardinality(LiveSlots)
  BY <1>4, LiveSlotsFinite, FS_Bijection DEF ExistsBijection
<1>6. QED
  BY <1>5 DEF Correct, Agreement, CountExact, LiveSlots

(* A reply is the same record in both modules. *)
LEMMA RepliesAgree == \A r : Registry!Reply(r) = Reply(r)
BY DEF Registry!Reply, Registry!Answer, Reply, Answer

(* So is the number of its pairs. *)
LEMMA CardinalitiesAgree ==
  ASSUME NEW S PROVE Registry!Cardinality(S) = Cardinality(S)
BY DEF Registry!Cardinality, Cardinality

LEMMA InitRegistry == Init => Registry!Init
<1> SUFFICES ASSUME Init PROVE Registry!Init
  OBVIOUS
<1>1. Registered = {}
  BY TableAssumption DEF Init, Registered, Holds, Unused, TableAssumption
<1>2. QED
  BY <1>1 DEF Init, Registry!Init, Registry!Reply, Registry!Answer, Reply, Answer

LEMMA FOLLOWImplements ==
  ASSUME Correct, Correct', NEW p \in Pids, NEW w \in Words, FOLLOW(p, w)
  PROVE  Registry!FOLLOW(p, w)
<1>t. TableType /\ AgentsType
  BY TypeParts DEF Correct
<1>1. PICK s \in Slots : /\ Free(s)
                         /\ followList' = [followList EXCEPT ![s] = Entry(p, w)]
  BY RoomWhileBelowLimit DEF Correct, Agreement, FOLLOW, Insert, Insertable
<1>2. /\ status[p] = "alive" /\ w \notin follow[p] /\ followCount # MaxFollower
      /\ answer' = Reply("ok") /\ status' = status
  BY DEF FOLLOW, Serves, LimitReached, Follows
<1>3. Cardinality(Registered) # MaxFollower /\ <<p, w>> \notin Registered
  BY <1>2, RegisteredCount, ListIsRegistered
<1>4. \A q \in Pids : q \in Nat /\ q # 0
  BY TableAssumption DEF TableAssumption
<1>5. \A t \in Slots : followList'[t] = IF t = s THEN Entry(p, w) ELSE followList[t]
  BY <1>1, <1>t DEF TableType
<1>6. \A q \in Pids, v \in Words : ~ Holds(s, q, v)
  BY <1>1, <1>4 DEF Free, Holds
<1>7. Registered' = Registered \cup {<<p, w>>}
  <2>1. ASSUME NEW q \in Pids, NEW v \in Words
        PROVE  (\E t \in Slots : Holds(t, q, v)')
                 <=> (\E t \in Slots : Holds(t, q, v)) \/ (q = p /\ v = w)
    BY <1>5, <1>6 DEF Holds, Entry
  <2>2. QED
    BY <2>1 DEF Registered
<1>8. answer' = Registry!Reply("ok")
  BY <1>2, RepliesAgree
<1>9. QED
  BY <1>2, <1>3, <1>7, <1>8, CardinalitiesAgree DEF Registry!FOLLOW

LEMMA UNFOLLOWImplements ==
  ASSUME Correct, Correct', NEW p \in Pids, NEW w \in Words, UNFOLLOW(p, w)
  PROVE  Registry!UNFOLLOW(p, w)
<1>t. TableType /\ AgentsType
  BY TypeParts DEF Correct
<1>1. /\ status[p] = "alive" /\ w \in follow[p] /\ Remove(p, w)
      /\ answer' = Reply("ok") /\ status' = status
  BY DEF UNFOLLOW, Serves
<1>2. <<p, w>> \in Registered
  BY <1>1, ListIsRegistered
<1>3. \E s \in Slots : Reaches(Home[w], s) /\ Holds(s, p, w)
  BY <1>2 DEF Correct, TableInv, AllReachable, Registered, Holds, Live
<1>4. PICK s \in Slots : /\ Holds(s, p, w)
                         /\ followList' = [followList EXCEPT ![s] = Wiped]
  BY <1>1, <1>3 DEF Remove
<1>5. \A t \in Slots : followList'[t] = IF t = s THEN Wiped ELSE followList[t]
  BY <1>4, <1>t DEF TableType
<1>6. Tombstone \notin Pids
  BY TableAssumption DEF TableAssumption, Tombstone
<1>7. \A t \in Slots : Holds(t, p, w) => t = s
  BY <1>4, <1>t DEF Correct, TableInv, NoDuplicates, TableType, Holds, Live
<1>8. Registered' = Registered \ {<<p, w>>}
  <2>1. ASSUME NEW q \in Pids, NEW v \in Words
        PROVE  (\E t \in Slots : Holds(t, q, v)')
                 <=> (\E t \in Slots : Holds(t, q, v)) /\ ~ (q = p /\ v = w)
    <3>1. \A t \in Slots : Holds(t, q, v)' <=> Holds(t, q, v) /\ t # s
      BY <1>5, <1>6 DEF Holds, Wiped
    <3>2. Holds(s, q, v) => q = p /\ v = w
      BY <1>4 DEF Holds
    <3>3. QED
      BY <3>1, <3>2, <1>7
  <2>2. QED
    BY <2>1 DEF Registered
<1>9. QED
  BY <1>1, <1>2, <1>8
     DEF Registry!UNFOLLOW, Registry!Reply, Registry!Answer, Reply, Answer

LEMMA BYEImplements ==
  ASSUME Correct, Correct', NEW p \in Pids, BYE(p)
  PROVE  Registry!BYE(p)
<1>t. TableType /\ AgentsType
  BY TypeParts DEF Correct
<1>1. /\ status[p] = "alive" /\ status' = [status EXCEPT ![p] = "dead"]
      /\ answer' = Reply("none") /\ Forget(p)
  BY DEF BYE, Serves, Exit
<1>2. Tombstone \notin Pids
  BY TableAssumption DEF TableAssumption, Tombstone
<1>3. \A s \in Slots : followList'[s] = IF followList[s].pid = p
                                        THEN [followList[s] EXCEPT !.pid = Tombstone]
                                        ELSE followList[s]
  BY <1>1 DEF Forget, Owned
<1>4. \A q \in Pids, v \in Words, s \in Slots :
        Holds(s, q, v)' <=> Holds(s, q, v) /\ q # p
  BY <1>2, <1>3, <1>t DEF Holds, TableType
<1>5. Registered' = Registered \ ({p} \X Words)
  BY <1>4 DEF Registered
<1>6. QED
  BY <1>1, <1>5 DEF Registry!BYE, Registry!Reply, Registry!Answer, Reply, Answer

LEMMA QueriesImplement ==
  ASSUME Correct, NEW p \in Pids
  PROVE  /\ FOLLOWING(p) => Registry!FOLLOWING(p)
         /\ \A text \in SUBSET Words : SEND(p, text) => Registry!SEND(p, text)
         /\ \A w \in Words : FOLLOWRefused(p, w) => Registry!FOLLOW(p, w)
         /\ \A w \in Words : UNFOLLOWRefused(p, w) => Registry!UNFOLLOW(p, w)
<1>t. TableType /\ AgentsType
  BY TypeParts DEF Correct
<1>same. UNCHANGED followList => UNCHANGED Registered
  BY DEF Registered, Holds
<1>1. FOLLOWING(p) => Registry!FOLLOWING(p)
  <2> SUFFICES ASSUME FOLLOWING(p) PROVE Registry!FOLLOWING(p)
    OBVIOUS
  <2>1. Registry!Followed(p) = follow[p]
    BY <1>t, ListIsRegistered DEF Registry!Followed, FOLLOWING, Serves, AgentsType
  <2>2. QED
    BY <2>1, <1>same DEF FOLLOWING, Serves, Registry!FOLLOWING, Registry!Answer, Answer
<1>2. ASSUME NEW text \in SUBSET Words, SEND(p, text) PROVE Registry!SEND(p, text)
  <2>1. UNION {Lookup(w) : w \in text} = {q \in Pids : Registry!Followed(q) \cap text # {}}
    <3>1. UNION {Lookup(w) : w \in text} = {q \in Pids : \E w \in text : q \in Lookup(w)}
      BY DEF Lookup
    <3>2. \A q \in Pids : Registry!Followed(q) \cap text # {} <=> \E w \in text : <<q, w>> \in Registered
      BY DEF Registry!Followed
    <3>3. QED
      BY <3>1, <3>2, LookupFindsRegistered
  <2>2. QED
    BY <1>2, <2>1, <1>same DEF SEND, Serves, Registry!SEND, Registry!Answer, Answer
<1>3. ASSUME NEW w \in Words, FOLLOWRefused(p, w) PROVE Registry!FOLLOW(p, w)
  <2>1. /\ status[p] = "alive" /\ status' = status /\ Registered' = Registered
        /\ followCount = MaxFollower \/ w \in follow[p]
    BY <1>3, <1>same DEF FOLLOWRefused, Serves, LimitReached, Follows
  <2>2. /\ Cardinality(Registered) = followCount
        /\ <<p, w>> \in Registered <=> w \in follow[p]
    BY <2>1, RegisteredCount, ListIsRegistered
  <2>3. CASE followCount = MaxFollower
    <3>1. answer' = Registry!Reply("limit")
      BY <1>3, <2>3, RepliesAgree DEF FOLLOWRefused, LimitReached
    <3>2. QED
      BY <2>1, <2>2, <2>3, <3>1, CardinalitiesAgree DEF Registry!FOLLOW
  <2>4. CASE followCount # MaxFollower
    <3>1. answer' = Registry!Reply("already")
      BY <1>3, <2>4, RepliesAgree DEF FOLLOWRefused, LimitReached
    <3>2. QED
      BY <2>1, <2>2, <2>4, <3>1, CardinalitiesAgree DEF Registry!FOLLOW
  <2>5. QED
    BY <2>3, <2>4
<1>4. ASSUME NEW w \in Words, UNFOLLOWRefused(p, w) PROVE Registry!UNFOLLOW(p, w)
  <2>1. <<p, w>> \notin Registered
    BY <1>4, ListIsRegistered DEF UNFOLLOWRefused, Serves
  <2>2. QED
    BY <1>4, <2>1, <1>same
       DEF UNFOLLOWRefused, Serves, Registry!UNFOLLOW, Registry!Reply, Registry!Answer,
           Reply, Answer
<1>5. QED
  BY <1>1, <1>2, <1>3, <1>4

LEMMA NextImplements ==
  ASSUME Correct, Correct', [Next]_vars
  PROVE  [Registry!Next]_(Registry!vars)
<1>same. UNCHANGED followList => UNCHANGED Registered
  BY DEF Registered, Holds
<1>1. CASE UNCHANGED vars
  BY <1>1, <1>same DEF vars, Registry!vars
<1>2. ASSUME NEW p \in Pids, Accept(p) PROVE Registry!Accept(p)
  BY <1>2, <1>same DEF Accept, Registry!Accept
<1>3. ASSUME NEW p \in Pids, Disconnect(p) PROVE Registry!Disconnect(p)
  BY <1>3, <1>same DEF Disconnect, Serves, Exit, Registry!Disconnect
<1>5. CASE Next
  BY <1>2, <1>3, <1>5, FOLLOWImplements, UNFOLLOWImplements, BYEImplements,
     QueriesImplement DEF Next, Registry!Next
<1>6. QED
  BY <1>1, <1>5

(* For every sequence of commands the table, the counter and the lists     *)
(* answer and notify as a plain set of pairs would (server.c:203-255,      *)
(* 289-391), as long as nobody sends BYE with text behind it.              *)
THEOREM TableImplementsRegistry == Spec => ImplementsRegistry
<1>1. Init => Registry!Init
  BY InitRegistry
<1>2. Correct /\ Correct' /\ [Next]_vars => [Registry!Next]_(Registry!vars)
  BY NextImplements
<1>3. QED
  BY <1>1, <1>2, CorrectAlways, PTL DEF Spec, ImplementsRegistry, Registry!Spec
=============================================================================
