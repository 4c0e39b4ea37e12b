---------------------------- MODULE MessageBoard ----------------------------
(***************************************************************************)
(* The shared bulletin board of the messboard server: the text area        *)
(* `messages', the integer array `indexes' that marks where each message   *)
(* starts, and `currentIndex', the slot the next SEND fills.  A command    *)
(* runs from sem_wait to sem_post, so one SEND is one step.                *)
(*                                                                         *)
(* A cell of the text area is abstracted to the number of the message that *)
(* wrote it (messages are numbered from 1 in the order they are sent); 0   *)
(* is the NUL byte.  A message is its number and its length.               *)
(***************************************************************************)
EXTENDS Integers, Sequences, SequencesExt

(* An operator whose comment begins with "Slip:" is a mistake the code     *)
(* could have made in the definition that follows it; no specification     *)
(* uses it.  Each slip breaks a property, which shows that the property    *)
(* depends on that line of the code.                                       *)

CONSTANTS
  MaxNMess,       \* maxnmess: slots on the board
  MaxTotMessLen,  \* maxtotmesslen: characters on the board
  Lengths,        \* the message lengths that clients use
  MaxSends        \* bound of the model: how many messages are ever sent

(* One recv of BUF_SIZE bytes bounds a message; the code relies on a board *)
(* that can hold any single message.                                       *)
ASSUME BoardAssumption ==
  /\ MaxNMess \in Nat \ {0}
  /\ MaxTotMessLen \in Nat \ {0}
  /\ Lengths \subseteq 0 .. MaxTotMessLen
  /\ MaxSends \in Nat

(* The code reads and writes indexes[maxnmess] and indexes[maxnmess + 1],  *)
(* two integers past the array it asked shmget for.  The kernel rounds a   *)
(* segment up to whole pages of zeros, so they exist unless the array ends *)
(* within two integers of a page boundary; they are modelled.              *)
Slots == 0 .. MaxNMess + 1
Cells == 0 .. MaxTotMessLen - 1

VARIABLES
  indexes,        \* indexes[i]: first cell of slot i, last cell + 1 of slot i - 1
  messages,       \* the text area
  currentIndex,   \* the slot the next message goes to
  sent            \* history: sent[k] is the length of the k-th message

vars == <<indexes, messages, currentIndex, sent>>

Init ==
  /\ indexes = [i \in Slots |-> 0]
  /\ messages = [c \in Cells |-> 0]
  /\ currentIndex = 0
  /\ sent = << >>

-----------------------------------------------------------------------------
(* SEND *)

(* Slip: the slots are not counted. *)
WrapsByRoom(len) == indexes[currentIndex] + len > MaxTotMessLen
(* Slip: the room is not counted. *)
WrapsBySlots(len) == currentIndex = MaxNMess

(* A message that finds no slot or no room starts the next lap at 0. *)
Wraps(len) ==
  \/ currentIndex = MaxNMess
  \/ indexes[currentIndex] + len > MaxTotMessLen

Slot(len)  == IF Wraps(len) THEN 0 ELSE currentIndex
Start(len) == IF Wraps(len) THEN 0 ELSE indexes[currentIndex]

(* The while loop: from slot `first' on, the marks that the message runs   *)
(* over move to its end; the loop stops at a mark that is unused or is not *)
(* run over.                                                               *)
Swallow(first, end) ==
  [i \in Slots |-> IF i >= first /\ \A j \in first .. i : indexes[j] \in 1 .. end - 1
                   THEN end ELSE indexes[i]]

(* The first mark from slot i on that is not `end'. *)
Behind(marks, i, end) ==
  CHOOSE j \in i .. MaxNMess + 1 : marks[j] # end /\ \A k \in i .. j - 1 : marks[k] = end

(* Slip: the mark behind a run is taken over but not reset. *)
CompactKeeping(marks, first, end) ==
  LET inRun(i) == i \in first .. MaxNMess /\ marks[i] = end
  IN  [i \in Slots |-> IF inRun(i) /\ inRun(i - 1) THEN 0
                       ELSE IF inRun(i) THEN marks[Behind(marks, i, end)]
                       ELSE marks[i]]

(* The for loop, which runs downwards: in each run of marks equal to end,  *)
(* the first takes over the mark behind the run; the others and that mark  *)
(* become unused.                                                          *)
Compact(marks, first, end) ==
  LET inRun(i) == i \in first .. MaxNMess /\ marks[i] = end
  IN  [i \in Slots |-> IF inRun(i - 1) THEN 0
                       ELSE IF inRun(i) THEN marks[Behind(marks, i, end)]
                       ELSE marks[i]]

(* The marks after a message has been put in slot cur, up to `end'. *)
Marks(cur, end) ==
  IF indexes[cur + 1] = 0 THEN [indexes EXCEPT ![cur + 1] = end]
  ELSE IF indexes[cur + 1] >= end THEN indexes
  ELSE Compact(Swallow(cur + 1, end), cur + 2, end)

(* Slip: a message shorter than its slot clears nothing. *)
ClearedToUnlessShorter(cur, start, end) ==
  LET next == Marks(cur, end)[cur + 2]
  IN  IF indexes[cur + 1] = 0 \/ indexes[cur + 1] >= end THEN start
      ELSE IF next = 0 \/ next < start THEN MaxTotMessLen
      ELSE next

(* One past the last cell that is cleared before the text is copied; the   *)
(* cells are those of the slots taken over, so that no old text is left    *)
(* behind the message.                                                     *)
ClearedTo(cur, start, end) ==
  LET next == Marks(cur, end)[cur + 2]
  IN  IF indexes[cur + 1] = 0 \/ indexes[cur + 1] = end THEN start
      ELSE IF indexes[cur + 1] > end THEN indexes[cur + 1]
      ELSE IF next = 0 \/ next < start THEN MaxTotMessLen
      ELSE next

SEND(len) ==
  LET cur   == Slot(len)
      start == Start(len)
      end   == start + len
  IN  /\ Len(sent) < MaxSends
      /\ indexes' = Marks(cur, end)
      /\ messages' = [c \in Cells |->
                        IF c \in start .. end - 1 THEN Len(sent) + 1
                        ELSE IF c \in start .. ClearedTo(cur, start, end) - 1 THEN 0
                        ELSE messages[c]]
      /\ currentIndex' = cur + 1
      /\ sent' = Append(sent, len)

Next == \E len \in Lengths : SEND(len)

Spec == Init /\ [][Next]_vars

-----------------------------------------------------------------------------
(* LAST changes nothing; it is the reply computed from the state. *)

(* strncat stops at a NUL and, its size being unsigned, does not stop at a *)
(* size that came out negative.                                            *)
CopyEnd(b) ==
  IF indexes[b + 1] < indexes[b] THEN MaxTotMessLen ELSE indexes[b + 1]

UpToNUL(text) ==
  LET nuls == {k \in DOMAIN text : text[k] = 0}
  IN  SubSeq(text, 1, IF nuls = {} THEN Len(text) ELSE Min(nuls) - 1)

(* The text strncat copies out of slot b. *)
Fragment(b) ==
  UpToNUL([k \in 1 .. CopyEnd(b) - indexes[b] |-> messages[indexes[b] + k - 1]])

LastCount(n) == IF n = 0 \/ n >= MaxNMess THEN MaxNMess ELSE n

(* Slip: LAST starts one slot too late. *)
VisitedLate(n, i) == (currentIndex - LastCount(n) + 1 + i) % MaxNMess

(* The i-th slot (from 0) that LAST n visits. *)
Visited(n, i) ==
  LET from == currentIndex - LastCount(n)
  IN  ((IF from < 0 THEN from + MaxNMess ELSE from) + i) % MaxNMess

(* A line ends with a newline as soon as the reply has any text, so that   *)
(* only the lines without text it begins with are left out.                *)
FromFirstText(lines) ==
  LET texts == {k \in DOMAIN lines : lines[k] # << >>}
  IN  IF texts = {} THEN << >> ELSE SubSeq(lines, Min(texts), Len(lines))

(* The reply, a sequence of lines. *)
LastReply(n) ==
  FromFirstText([i \in 1 .. LastCount(n) |-> Fragment(Visited(n, i - 1))])

-----------------------------------------------------------------------------
(* Properties *)

(* What the k-th message looks like as a line of a reply. *)
Message(k) == [i \in 1 .. sent[k] |-> k]

TypeOK ==
  /\ indexes \in [Slots -> 0 .. MaxTotMessLen]
  /\ messages \in [Cells -> 0 .. MaxSends]
  /\ currentIndex \in 0 .. MaxNMess
  /\ sent \in Seq(Lengths)
  /\ Len(sent) <= MaxSends

(* The two loops of SEND, and the mark behind the last slot, rely on the   *)
(* integer after the last mark to be 0: it is the only thing that ends the *)
(* while loop (server.c:169) when all the marks are in use.                *)
LoopsStop == indexes[0] = 0 /\ indexes[MaxNMess + 1] = 0

(* The message in slot i of the lap that is being written. *)
LapMessage(i) == Len(sent) - currentIndex + 1 + i

(* Every message of the lap being written stands whole in its own slot,    *)
(* and behind it the slot holds NULs only, however the marks of the        *)
(* earlier laps have been swallowed, moved and dropped (server.c:141-198). *)
LapIntact ==
  \A i \in 0 .. currentIndex - 1 :
    LET k == LapMessage(i)
    IN  /\ k \in 1 .. Len(sent)
        /\ indexes[i] + sent[k] <= indexes[i + 1]
        /\ \A c \in indexes[i] .. indexes[i + 1] - 1 :
             messages[c] = IF c < indexes[i] + sent[k] THEN k ELSE 0

(* The messages from first on, as lines. *)
Lines(first) == FromFirstText([i \in 1 .. Len(sent) - first + 1 |-> Message(first + i - 1)])

(* LAST n returns exactly the last n messages, each whole, once and in the *)
(* order they were sent, as long as the lap being written has n of them    *)
(* (server.c:258-288).                                                     *)
LastWithinLap ==
  \A n \in 1 .. currentIndex : LastReply(n) = Lines(Len(sent) - n + 1)

(* "LAST n: Get the last n messages in the board": the last message but    *)
(* one is on the board, untouched, and LAST 2 returns it.                  *)
LastRetrievesLatest ==
  \A k \in 1 .. Len(sent) :
    LET n == Len(sent) - k + 1
    IN  /\ n <= MaxNMess
        /\ sent[k] > 0
        /\ Cardinality({c \in Cells : messages[c] = k}) = sent[k]
        => Contains(LastReply(n), Message(k))
=============================================================================
