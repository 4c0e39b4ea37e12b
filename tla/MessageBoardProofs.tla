------------------------- MODULE MessageBoardProofs -------------------------
(* Proofs about the board, for any number of slots and characters and any  *)
(* messages.                                                               *)
EXTENDS SendLoops, FiniteSetTheorems, SequenceTheorems, TLAPS

(* A set of naturals that is not empty has a smallest member: among the    *)
(* intervals from 0 to its members, one is minimal for inclusion.          *)
LEMMA Smallest ==
  ASSUME NEW S \in SUBSET Nat, S # {}
  PROVE  \E m \in S : \A n \in S : m <= n
<1> DEFINE Below == {0 .. n : n \in S}
<1>1. ASSUME NEW n \in S PROVE 0 .. n \in FiniteSubsetsOf(Nat)
  <2>1. IsFiniteSet(0 .. n)
    BY FS_Interval
  <2>2. QED
    BY <2>1 DEF FiniteSubsetsOf
<1>2. PICK A \in Below : \A B \in Below : ~ (<<B, A>> \in StrictSubsetOrdering(Nat))
  <2>1. Below # {}
    OBVIOUS
  <2>2. Below \subseteq FiniteSubsetsOf(Nat)
    BY <1>1
  <2>3. IsWellFoundedOn(StrictSubsetOrdering(Nat), FiniteSubsetsOf(Nat))
    BY FS_StrictSubsetOrderingWellFounded
  <2> HIDE DEF Below
  <2>4. QED
    BY <2>1, <2>2, <2>3, WFMin
<1>3. PICK m \in S : A = 0 .. m
  BY <1>2
<1>4. ASSUME NEW n \in S PROVE m <= n
  <2>1. ~ (<<0 .. n, 0 .. m>> \in StrictSubsetOrdering(Nat))
    BY <1>2, <1>3
  <2>2. (0 .. n \subseteq 0 .. m) => 0 .. n = 0 .. m
    BY <2>1 DEF StrictSubsetOrdering
  <2>3. QED
    BY <2>2
<1>5. QED
  BY <1>4

(* Induction: a set that holds 0 and, with a number, the next one, holds   *)
(* them all.                                                               *)
LEMMA AllNumbers ==
  ASSUME NEW S, 0 \in S, \A n \in Nat : n \in S => n + 1 \in S
  PROVE  Nat \subseteq S
<1> SUFFICES ASSUME Nat \ S # {} PROVE FALSE
  OBVIOUS
<1>1. PICK m \in Nat \ S : \A n \in Nat \ S : m <= n
  BY Smallest
<1>2. m - 1 \in Nat /\ m - 1 \in S
  BY <1>1
<1>3. QED
  BY <1>1, <1>2

(* The first n rounds of it. *)
IsRun(X, x, F, h, n) ==
  /\ h \in [0 .. n -> X]
  /\ h[0] = x
  /\ \A k \in 0 .. n - 1 : h[k + 1] = F[k + 1][h[k]]

(* The values of a recursion over the numbers: from x, round n applies     *)
(* F[n].                                                                   *)
AreRounds(X, x, F, g) ==
  /\ g \in [Nat -> X]
  /\ g[0] = x
  /\ \A n \in Nat : g[n + 1] = F[n + 1][g[n]]

(* A value for every number of rounds exists: runs of every length do, and *)
(* two of them agree where both are defined.                               *)
LEMMA RoundsExist ==
  ASSUME NEW X, NEW x \in X, NEW F \in [Nat -> [X -> X]]
  PROVE  \E g : AreRounds(X, x, F, g)
<1> DEFINE Run(h, n) == IsRun(X, x, F, h, n)
           Reached == {n \in Nat : \E h : Run(h, n)}
<1>1. Nat \subseteq Reached
  <2>1. 0 \in Reached
    <3>1. Run([k \in 0 .. 0 |-> x], 0)
      BY DEF IsRun
    <3>2. QED
      BY <3>1
  <2>2. ASSUME NEW n \in Nat, n \in Reached PROVE n + 1 \in Reached
    <3>1. PICK h : Run(h, n)
      BY <2>2
    <3> DEFINE longer == [k \in 0 .. n + 1 |-> IF k <= n THEN h[k] ELSE F[n + 1][h[n]]]
    <3>2. h[n] \in X
      BY <3>1 DEF IsRun
    <3>3. F[n + 1][h[n]] \in X
      BY <3>2
    <3>4. longer \in [0 .. n + 1 -> X]
      BY <3>1, <3>3 DEF IsRun
    <3>5. \A k \in 0 .. n : longer[k + 1] = F[k + 1][longer[k]]
      BY <3>1 DEF IsRun
    <3>6. Run(longer, n + 1)
      BY <3>1, <3>4, <3>5 DEF IsRun
    <3>7. QED
      BY <3>6
  <2> HIDE DEF Reached
  <2>3. QED
    BY <2>1, <2>2, AllNumbers
<1> DEFINE Agree == {k \in Nat : \A m, n \in Nat : \A h, j :
                       k <= m /\ k <= n /\ Run(h, m) /\ Run(j, n) => h[k] = j[k]}
<1>2. Nat \subseteq Agree
  <2>1. 0 \in Agree
    BY DEF IsRun
  <2>2. ASSUME NEW k \in Nat, k \in Agree PROVE k + 1 \in Agree
    <3> SUFFICES ASSUME NEW m \in Nat, NEW n \in Nat, NEW h, NEW j,
                        k + 1 <= m, k + 1 <= n, Run(h, m), Run(j, n)
                 PROVE  h[k + 1] = j[k + 1]
      OBVIOUS
    <3>1. h[k] = j[k]
      BY <2>2
    <3>2. h[k + 1] = F[k + 1][h[k]] /\ j[k + 1] = F[k + 1][j[k]]
      BY DEF IsRun
    <3>3. QED
      BY <3>1, <3>2
  <2> HIDE DEF Agree
  <2>3. QED
    BY <2>1, <2>2, AllNumbers
<1> DEFINE run(n) == CHOOSE h : Run(h, n)
           g == [n \in Nat |-> run(n)[n]]
<1>3. \A n \in Nat : Run(run(n), n)
  BY <1>1
<1>4. g \in [Nat -> X]
  <2>1. ASSUME NEW n \in Nat PROVE run(n)[n] \in X
    <3>1. Run(run(n), n)
      BY <1>3
    <3> HIDE DEF run
    <3>2. QED
      BY <3>1 DEF IsRun
  <2> HIDE DEF run
  <2>2. QED
    BY <2>1
<1>5. g[0] = x
  BY <1>3 DEF IsRun
<1>6. ASSUME NEW n \in Nat PROVE g[n + 1] = F[n + 1][g[n]]
  <2>1. Run(run(n + 1), n + 1) /\ Run(run(n), n)
    BY <1>3
  <2> HIDE DEF run
  <2>2. run(n + 1)[n + 1] = F[n + 1][run(n + 1)[n]]
    BY <2>1 DEF IsRun
  <2>3. run(n + 1)[n] = run(n)[n]
    <3>1. n \in Agree
      BY <1>2
    <3>2. QED
      BY <2>1, <3>1
  <2>4. QED
    BY <2>2, <2>3
<1>7. QED
  BY <1>4, <1>5, <1>6 DEF AreRounds

(* A mark that differs from `end' lies behind every run that some mark     *)
(* ends.                                                                   *)
LEMMA BehindExists ==
  ASSUME NEW marks, NEW i \in Slots, NEW end, marks[MaxNMess + 1] # end
  PROVE  /\ Behind(marks, i, end) \in i .. MaxNMess + 1
         /\ marks[Behind(marks, i, end)] # end
         /\ \A k \in i .. Behind(marks, i, end) - 1 : marks[k] = end
<1> DEFINE S == {j \in i .. MaxNMess + 1 : marks[j] # end}
<1>1. MaxNMess + 1 \in S
  BY BoardAssumption DEF Slots
<1>2. PICK m \in S : \A n \in S : m <= n
  <2>1. S \in SUBSET Nat
    BY BoardAssumption DEF Slots
  <2> HIDE DEF S
  <2>2. QED
    BY <1>1, <2>1, Smallest
<1>3. m \in i .. MaxNMess + 1 /\ marks[m] # end /\ \A k \in i .. m - 1 : marks[k] = end
  BY <1>2, BoardAssumption DEF Slots
<1>4. QED
  BY <1>3 DEF Behind

-----------------------------------------------------------------------------
(* The slot and the room a message gets *)

Board == TypeOK /\ LoopsStop

(* A message goes to a slot that exists and ends within the text area.     *)
LEMMA Placed ==
  ASSUME Board, NEW len \in Lengths
  PROVE  /\ Slot(len) \in 0 .. MaxNMess - 1
         /\ Start(len) \in 0 .. MaxTotMessLen
         /\ Start(len) + len \in 0 .. MaxTotMessLen
         /\ len \in 0 .. MaxTotMessLen
         /\ Start(len) = indexes[Slot(len)]
<1>1. indexes[currentIndex] \in 0 .. MaxTotMessLen
  BY BoardAssumption DEF Board, TypeOK, Slots
<1>2. len \in 0 .. MaxTotMessLen /\ MaxTotMessLen \in Nat /\ MaxNMess \in Nat \ {0}
  BY BoardAssumption
<1>3. CASE Wraps(len)
  BY <1>2, <1>3 DEF Board, LoopsStop, Slot, Start
<1>4. CASE ~ Wraps(len)
  BY <1>1, <1>2, <1>4 DEF Board, TypeOK, Slot, Start, Wraps
<1>5. QED
  BY <1>3, <1>4

-----------------------------------------------------------------------------
(* The marks a message leaves *)

(* The while loop changes no mark before its first and never the last one, *)
(* and it moves its first mark to the end of the message.                  *)
LEMMA SwallowKeeps ==
  ASSUME Board, NEW first \in 1 .. MaxNMess, NEW end \in 1 .. MaxTotMessLen,
         indexes[first] \in 1 .. end - 1
  PROVE  /\ Swallow(first, end) \in [Slots -> 0 .. MaxTotMessLen]
         /\ \A i \in 0 .. first - 1 : Swallow(first, end)[i] = indexes[i]
         /\ Swallow(first, end)[first] = end
         /\ Swallow(first, end)[MaxNMess + 1] = 0
<1> USE BoardAssumption DEF Board, TypeOK, LoopsStop
<1>1. Swallow(first, end) \in [Slots -> 0 .. MaxTotMessLen]
  <2>1. ASSUME NEW i \in Slots PROVE indexes[i] \in 0 .. MaxTotMessLen
    OBVIOUS
  <2>2. end \in 0 .. MaxTotMessLen
    OBVIOUS
  <2> DEFINE swallowed == Swallow(first, end)
  <2>3. swallowed = [i \in Slots |-> swallowed[i]]
    BY ONLY DEF Swallow
  <2>4. ASSUME NEW i \in Slots PROVE swallowed[i] \in {indexes[i], end}
    BY ONLY DEF Swallow
  <2> HIDE DEF swallowed
  <2>5. \A i \in Slots : swallowed[i] \in 0 .. MaxTotMessLen
    BY ONLY <2>1, <2>2, <2>4
  <2>6. swallowed \in [Slots -> 0 .. MaxTotMessLen]
    BY ONLY <2>3, <2>5
  <2>7. QED
    BY <2>6 DEF swallowed
<1>2. ASSUME NEW i \in 0 .. first - 1 PROVE Swallow(first, end)[i] = indexes[i]
  BY DEF Swallow, Slots
<1>3. Swallow(first, end)[first] = end
  <2>1. \A j \in first .. first : indexes[j] \in 1 .. end - 1
    <3>1. \A j \in first .. first : j = first
      OBVIOUS
    <3>2. QED
      BY <3>1
  <2>2. first \in Slots /\ first >= first
    BY DEF Slots
  <2>3. QED
    BY ONLY <2>1, <2>2 DEF Swallow
<1>4. Swallow(first, end)[MaxNMess + 1] = 0
  BY DEF Swallow, Slots
<1>5. QED
  BY <1>1, <1>2, <1>3, <1>4

(* The for loop changes no mark before its first, and leaves the last one  *)
(* unused.                                                                 *)
LEMMA CompactKeeps ==
  ASSUME BoardAssumption,
         NEW marks \in [Slots -> 0 .. MaxTotMessLen], marks[MaxNMess + 1] = 0,
         NEW first \in 2 .. MaxNMess + 1, NEW end \in 1 .. MaxTotMessLen
  PROVE  /\ Compact(marks, first, end) \in [Slots -> 0 .. MaxTotMessLen]
         /\ \A i \in 0 .. first - 1 : Compact(marks, first, end)[i] = marks[i]
         /\ Compact(marks, first, end)[MaxNMess + 1] = 0
<1> USE BoardAssumption
<1>1. ASSUME NEW i \in Slots PROVE marks[Behind(marks, i, end)] \in 0 .. MaxTotMessLen
  BY BehindExists DEF Slots
<1>2. Compact(marks, first, end) \in [Slots -> 0 .. MaxTotMessLen]
  BY <1>1 DEF Compact
<1>3. ASSUME NEW i \in 0 .. first - 1 PROVE Compact(marks, first, end)[i] = marks[i]
  BY DEF Compact, Slots
<1>4. Compact(marks, first, end)[MaxNMess + 1] = 0
  BY DEF Compact, Slots
<1>5. QED
  BY <1>2, <1>3, <1>4

(* The marks up to the slot of the message stay, the mark behind it is not *)
(* before its end, and nothing is written past the last mark.              *)
LEMMA MarksKept ==
  ASSUME Board, NEW cur \in 0 .. MaxNMess - 1, NEW end \in 0 .. MaxTotMessLen
  PROVE  /\ Marks(cur, end) \in [Slots -> 0 .. MaxTotMessLen]
         /\ \A i \in 0 .. cur : Marks(cur, end)[i] = indexes[i]
         /\ Marks(cur, end)[MaxNMess + 1] = 0
         /\ Marks(cur, end)[cur + 1] = IF indexes[cur + 1] > end THEN indexes[cur + 1] ELSE end
<1> USE BoardAssumption
<1>0. cur + 1 \in Slots /\ indexes[cur + 1] \in 0 .. MaxTotMessLen
  BY DEF Board, TypeOK, Slots
<1>1. CASE indexes[cur + 1] = 0
  BY <1>0, <1>1 DEF Board, TypeOK, LoopsStop, Marks, Slots
<1>2. CASE indexes[cur + 1] # 0 /\ indexes[cur + 1] >= end
  BY <1>0, <1>2 DEF Board, TypeOK, LoopsStop, Marks, Slots
<1>3. CASE indexes[cur + 1] # 0 /\ indexes[cur + 1] < end
  <2> DEFINE swallowed == Swallow(cur + 1, end)
  <2>1. /\ swallowed \in [Slots -> 0 .. MaxTotMessLen]
        /\ \A i \in 0 .. cur : swallowed[i] = indexes[i]
        /\ swallowed[cur + 1] = end
        /\ swallowed[MaxNMess + 1] = 0
    BY <1>0, <1>3, SwallowKeeps
  <2> HIDE DEF swallowed
  <2>2. /\ Compact(swallowed, cur + 2, end) \in [Slots -> 0 .. MaxTotMessLen]
        /\ \A i \in 0 .. cur + 1 : Compact(swallowed, cur + 2, end)[i] = swallowed[i]
        /\ Compact(swallowed, cur + 2, end)[MaxNMess + 1] = 0
    BY <1>0, <1>3, <2>1, CompactKeeps
  <2>3. Marks(cur, end) = Compact(swallowed, cur + 2, end)
    BY <1>0, <1>3 DEF Marks, swallowed
  <2>4. QED
    BY <1>0, <1>3, <2>1, <2>2, <2>3
<1>4. QED
  BY <1>0, <1>1, <1>2, <1>3

-----------------------------------------------------------------------------
(* The invariant: LapIntact is not inductive by itself, since a message    *)
(* could write over an earlier slot if the marks of the lap were not in    *)
(* order.                                                                  *)

LapSorted ==
  \A i, j \in 0 .. currentIndex : i <= j => indexes[i] <= indexes[j]

LapInv == Board /\ LapSorted /\ LapIntact

LEMMA LapInit == Init => LapInv
<1> SUFFICES ASSUME Init PROVE LapInv
  OBVIOUS
<1> USE BoardAssumption DEF Init
<1>1. TypeOK
  BY DEF TypeOK, Slots, Cells
<1>2. LoopsStop
  BY DEF LoopsStop, Slots
<1>3. LapSorted
  BY DEF LapSorted, Slots
<1>4. LapIntact
  BY DEF LapIntact
<1>5. QED
  BY <1>1, <1>2, <1>3, <1>4 DEF LapInv, Board

LEMMA SendKeepsBoard ==
  ASSUME Board, NEW len \in Lengths, SEND(len)
  PROVE  Board'
<1> USE BoardAssumption
<1> DEFINE cur == Slot(len)
           end == Start(len) + len
<1>1. cur \in 0 .. MaxNMess - 1 /\ end \in 0 .. MaxTotMessLen
  BY Placed
<1>2. /\ indexes' = Marks(cur, end)
      /\ currentIndex' = cur + 1
      /\ sent' = Append(sent, len)
      /\ Len(sent) < MaxSends
  BY DEF SEND
<1>3. messages' \in [Cells -> 0 .. MaxSends]
  <2>1. Len(sent) + 1 \in 0 .. MaxSends
    BY <1>2 DEF Board, TypeOK
  <2>2. messages \in [Cells -> 0 .. MaxSends] /\ 0 \in 0 .. MaxSends
    BY DEF Board, TypeOK
  <2>3. QED
    BY <2>1, <2>2 DEF SEND
<1> HIDE DEF cur, end
<1>4. /\ indexes' \in [Slots -> 0 .. MaxTotMessLen]
      /\ indexes'[0] = indexes[0]
      /\ indexes'[MaxNMess + 1] = 0
  BY <1>1, <1>2, MarksKept
<1>5. sent' \in Seq(Lengths) /\ Len(sent') <= MaxSends
  BY <1>2 DEF Board, TypeOK
<1>6. currentIndex' \in 0 .. MaxNMess
  BY <1>1, <1>2
<1>7. QED
  BY <1>3, <1>4, <1>5, <1>6 DEF Board, TypeOK, LoopsStop

(* Up to the slot that is written the marks stay; the next one is not      *)
(* before the end of the message.                                          *)
LEMMA SendMarks ==
  ASSUME Board, NEW len \in Lengths, SEND(len)
  PROVE  /\ \A i \in 0 .. Slot(len) : indexes'[i] = indexes[i]
         /\ indexes'[Slot(len) + 1] =
              IF indexes[Slot(len) + 1] > Start(len) + len
              THEN indexes[Slot(len) + 1] ELSE Start(len) + len
         /\ currentIndex' = Slot(len) + 1
BY Placed, MarksKept DEF SEND

LEMMA SendKeepsSorted ==
  ASSUME Board, LapSorted, NEW len \in Lengths, SEND(len)
  PROVE  LapSorted'
<1> DEFINE cur == Slot(len)
           end == Start(len) + len
<1>1. /\ cur \in 0 .. MaxNMess - 1
      /\ end \in 0 .. MaxTotMessLen
      /\ indexes[cur] <= end
  BY Placed, BoardAssumption
<1>2. /\ \A i \in 0 .. cur : indexes'[i] = indexes[i]
      /\ indexes'[cur + 1] = IF indexes[cur + 1] > end THEN indexes[cur + 1] ELSE end
      /\ currentIndex' = cur + 1
  BY SendMarks
<1>3. \A i \in 0 .. cur + 1 : indexes[i] \in 0 .. MaxTotMessLen
  BY <1>1, BoardAssumption DEF Board, TypeOK, Slots
<1>4. cur <= currentIndex
  BY <1>1, BoardAssumption DEF Board, TypeOK, Slot
<1> HIDE DEF cur, end
<1>5. \A i, j \in 0 .. cur : i <= j => indexes[i] <= indexes[j]
  BY <1>1, <1>4 DEF LapSorted, Board, TypeOK
<1>6. indexes'[cur + 1] \in 0 .. MaxTotMessLen /\ indexes'[cur + 1] >= indexes[cur]
  BY <1>1, <1>2, <1>3, BoardAssumption
<1>7. QED
  <2> SUFFICES ASSUME NEW i \in 0 .. cur + 1, NEW j \in 0 .. cur + 1, i <= j
               PROVE  indexes'[i] <= indexes'[j]
    BY <1>2 DEF LapSorted
  <2>1. CASE j \in 0 .. cur
    BY <1>1, <1>2, <1>5, <2>1
  <2>2. CASE j = cur + 1 /\ i \in 0 .. cur
    <3>1. indexes[i] <= indexes[cur]
      BY <1>1, <1>5, <2>2
    <3>2. QED
      BY <1>1, <1>2, <1>3, <1>6, <2>2, <3>1, BoardAssumption
  <2>3. CASE j = cur + 1 /\ i = cur + 1
    BY <1>6, <2>3, BoardAssumption
  <2>4. QED
    BY <1>1, <2>1, <2>2, <2>3

(* Slot i of the lap holds message k whole, and behind it NULs. *)
Holds(i, k) ==
  /\ k \in 1 .. Len(sent)
  /\ indexes[i] + sent[k] <= indexes[i + 1]
  /\ \A c \in indexes[i] .. indexes[i + 1] - 1 :
       messages[c] = IF c < indexes[i] + sent[k] THEN k ELSE 0

LEMMA LapHolds == LapIntact <=> \A i \in 0 .. currentIndex - 1 : Holds(i, LapMessage(i))
BY DEF LapIntact, Holds

(* What a message leaves in a cell. *)
LEMMA SendCells ==
  ASSUME Board, NEW len \in Lengths, SEND(len), NEW c \in Cells
  PROVE  messages'[c] =
           IF c \in Start(len) .. Start(len) + len - 1 THEN Len(sent) + 1
           ELSE IF c \in Start(len) .. ClearedTo(Slot(len), Start(len), Start(len) + len) - 1
           THEN 0 ELSE messages[c]
BY Placed, BoardAssumption DEF SEND, Cells, Board, TypeOK

(* The slots before the one that is written end where it starts.           *)
LEMMA SendKeepsEarlier ==
  ASSUME LapInv, NEW len \in Lengths, SEND(len), NEW i \in 0 .. Slot(len) - 1
  PROVE  Holds(i, LapMessage(i))'
<1> USE BoardAssumption
<1> DEFINE cur == Slot(len)
           start == Start(len)
           k == LapMessage(i)
<1>1. ~ Wraps(len) /\ cur = currentIndex /\ start = indexes[currentIndex]
  BY DEF Slot, Start
<1>2. Holds(i, k)
  BY <1>1, LapHolds DEF LapInv
<1>3. /\ currentIndex' = cur + 1
      /\ sent' = Append(sent, len)
      /\ Len(sent) \in Nat
      /\ currentIndex \in Nat
      /\ sent \in Seq(Lengths)
  BY DEF SEND, LapInv, Board, TypeOK
<1>4. LapMessage(i)' = k
  BY <1>1, <1>3 DEF LapMessage
<1>5. k \in 1 .. Len(sent') /\ sent'[k] = sent[k]
  BY <1>2, <1>3 DEF Holds
<1>6. indexes'[i] = indexes[i] /\ indexes'[i + 1] = indexes[i + 1]
  BY <1>1, SendMarks, Placed DEF LapInv
<1>7. indexes[i + 1] <= start
  BY <1>1, <1>3 DEF LapInv, LapSorted
<1>8. ASSUME NEW c \in indexes[i] .. indexes[i + 1] - 1 PROVE messages'[c] = messages[c]
  <2>1. /\ indexes[i] \in 0 .. MaxTotMessLen
        /\ indexes[i + 1] \in 0 .. MaxTotMessLen
        /\ start \in 0 .. MaxTotMessLen
    BY <1>1, Placed DEF LapInv, Board, TypeOK, Slots
  <2>2. c \in Cells /\ c < start
    BY <1>7, <2>1 DEF Cells
  <2>3. ~ (c \in start .. start + len - 1)
    BY <2>1, <2>2
  <2>4. ~ (c \in start .. ClearedTo(cur, start, start + len) - 1)
    BY <2>1, <2>2
  <2>5. messages'[c] = IF c \in start .. start + len - 1 THEN Len(sent) + 1
                       ELSE IF c \in start .. ClearedTo(cur, start, start + len) - 1 THEN 0
                       ELSE messages[c]
    BY <2>2, SendCells DEF LapInv
  <2> HIDE DEF cur, start
  <2>6. QED
    BY <2>3, <2>4, <2>5
<1>9. QED
  BY <1>2, <1>4, <1>5, <1>6, <1>8 DEF Holds

(* The slot that is written holds the new message.                         *)
LEMMA SendWrites ==
  ASSUME Board, NEW len \in Lengths, SEND(len), NEW cur, cur = Slot(len)
  PROVE  Holds(cur, LapMessage(cur))'
<1> USE BoardAssumption
<1> DEFINE start == Start(len)
           end == start + len
           k == Len(sent) + 1
<1>1. /\ cur \in 0 .. MaxNMess - 1
      /\ start \in 0 .. MaxTotMessLen
      /\ end \in 0 .. MaxTotMessLen
      /\ len \in 0 .. MaxTotMessLen
      /\ start = indexes[cur]
  BY Placed
<1>2. /\ currentIndex' = cur + 1
      /\ sent' = Append(sent, len)
      /\ Len(sent) \in Nat
      /\ sent \in Seq(Lengths)
  BY DEF SEND, Board, TypeOK
<1>3. indexes'[cur] = start /\ indexes'[cur + 1] = IF indexes[cur + 1] > end
                                                   THEN indexes[cur + 1] ELSE end
  BY <1>1, SendMarks
<1>4. indexes[cur + 1] \in 0 .. MaxTotMessLen
  BY <1>1 DEF Board, TypeOK, Slots
<1>5. LapMessage(cur)' = k
  BY <1>1, <1>2 DEF LapMessage
<1>6. k \in 1 .. Len(sent') /\ sent'[k] = len
  BY <1>2
<1>7. ClearedTo(cur, start, end) = indexes[cur + 1] \/ indexes[cur + 1] <= end
  BY <1>1, <1>4 DEF ClearedTo
<1>8. ASSUME NEW c \in start .. indexes'[cur + 1] - 1
      PROVE  messages'[c] = IF c < end THEN k ELSE 0
  <2>1. c \in Cells
    BY <1>1, <1>3, <1>4 DEF Cells
  <2>2. messages'[c] = IF c \in start .. end - 1 THEN k
                       ELSE IF c \in start .. ClearedTo(cur, start, end) - 1 THEN 0
                       ELSE messages[c]
    BY <2>1 DEF SEND
  <2> HIDE DEF start, end, k
  <2>3. CASE c < end
    BY <1>1, <2>2, <2>3, <1>3, <1>4
  <2>4. CASE c >= end
    <3>1. indexes[cur + 1] > end /\ c \in start .. indexes[cur + 1] - 1
      BY <1>1, <1>3, <1>4, <2>4
    <3>2. ClearedTo(cur, start, end) = indexes[cur + 1]
      BY <1>1, <1>4, <1>7, <3>1
    <3>3. QED
      BY <1>1, <2>2, <2>4, <3>1, <3>2
  <2>5. QED
    BY <1>1, <1>3, <1>4, <2>3, <2>4
<1>9. start + len <= indexes'[cur + 1]
  BY <1>1, <1>3, <1>4
<1>10. QED
  BY <1>3, <1>5, <1>6, <1>8, <1>9 DEF Holds

LEMMA SendKeepsLap ==
  ASSUME LapInv, NEW len \in Lengths, SEND(len)
  PROVE  LapIntact'
<1>1. currentIndex' = Slot(len) + 1 /\ Slot(len) \in Nat
  BY SendMarks, Placed DEF LapInv
<1>2. ASSUME NEW i \in 0 .. Slot(len) PROVE Holds(i, LapMessage(i))'
  <2>1. CASE i \in 0 .. Slot(len) - 1
    BY <2>1, SendKeepsEarlier
  <2>2. CASE i = Slot(len)
    BY <2>2, SendWrites DEF LapInv
  <2>3. QED
    BY <1>1, <2>1, <2>2
<1>3. QED
  BY <1>1, <1>2 DEF LapIntact, Holds

LEMMA LapNext == LapInv /\ [Next]_vars => LapInv'
<1>1. ASSUME LapInv, NEW len \in Lengths, SEND(len) PROVE LapInv'
  BY <1>1, SendKeepsBoard, SendKeepsSorted, SendKeepsLap DEF LapInv
<1>2. ASSUME LapInv, UNCHANGED vars PROVE LapInv'
  BY <1>2 DEF LapInv, Board, TypeOK, LoopsStop, LapSorted, LapIntact, LapMessage, vars
<1>3. QED
  BY <1>1, <1>2 DEF Next

LEMMA LapAlways == Spec => []LapInv
BY LapInit, LapNext, PTL DEF Spec

(* Every mark lies in the text area and no slot beyond the last is used    *)
(* (the declarations and SEND, server.c:64-73, 139-257).                   *)
THEOREM TypeCorrect == Spec => []TypeOK
BY LapAlways, PTL DEF LapInv, Board

(* The loops of SEND end: the integer after the marks stays 0, whatever is *)
(* sent (server.c:169).                                                    *)
THEOREM SendLoopsStop == Spec => []LoopsStop
BY LapAlways, PTL DEF LapInv, Board

(* Every message of the lap that is being written stands whole in its own  *)
(* slot with nothing left behind it, however many laps went before         *)
(* (server.c:141-198).                                                     *)
THEOREM LapStaysIntact == Spec => []LapIntact
BY LapAlways, PTL DEF LapInv
-----------------------------------------------------------------------------
(* LAST *)

(* The slots that LAST n visits are the last n of the lap, in their order. *)
LEMMA VisitedWithinLap ==
  ASSUME Board, NEW n \in 1 .. currentIndex, NEW i \in 0 .. n - 1
  PROVE  LastCount(n) = n /\ Visited(n, i) = currentIndex - n + i
<1> USE BoardAssumption DEF Board, TypeOK
<1>1. LastCount(n) = n
  BY DEF LastCount
<1>2. currentIndex - n + i \in 0 .. MaxNMess - 1
  OBVIOUS
<1>3. \A m \in Nat \ {0} : \A x \in 0 .. m - 1 : x % m = x
  OBVIOUS
<1>4. Visited(n, i) = (currentIndex - n + i) % MaxNMess
  BY <1>1 DEF Visited
<1>5. QED
  BY <1>1, <1>2, <1>3, <1>4

LEMMA LengthsNatural == Lengths \subseteq Nat
BY BoardAssumption

(* Cutting a text at its first NUL, when NULs fill it from some place on.  *)
LEMMA CutAtNul ==
  ASSUME NEW room \in Nat, NEW len \in 0 .. room, NEW k \in Nat \ {0},
         NEW text \in [1 .. room -> Nat],
         \A j \in 1 .. room : text[j] = IF j <= len THEN k ELSE 0
  PROVE  UpToNUL(text) \in [1 .. len -> {k}]
<1> DEFINE nuls == {j \in DOMAIN text : text[j] = 0}
<1>1. text \in Seq(Nat) /\ Len(text) = room
  OBVIOUS
<1>2. nuls = len + 1 .. room
  OBVIOUS
<1> HIDE DEF nuls
<1>3. (IF nuls = {} THEN Len(text) ELSE Min(nuls) - 1) = len
  <2>1. CASE len = room
    <3>1. nuls = {}
      BY <1>2, <2>1
    <3>2. QED
      BY <1>1, <2>1, <3>1
  <2>2. CASE len < room
    <3>1. \A x : (x \in nuls /\ \A y \in nuls : x <= y) <=> x = len + 1
      BY <1>2, <2>2
    <3>2. Min(nuls) = len + 1 /\ nuls # {}
      BY <3>1 DEF Min
    <3>3. QED
      BY <3>2
  <2>3. QED
    BY <2>1, <2>2
<1>4. SubSeq(text, 1, len) \in [1 .. len -> {k}]
  <2>1. \A j \in 1 .. len : text[j] = k
    OBVIOUS
  <2>2. SubSeq(text, 1, len) = [j \in 1 .. len |-> text[j]]
    BY <1>1
  <2>3. QED
    BY <2>1, <2>2
<1>5. QED
  BY <1>3, <1>4 DEF UpToNUL, nuls

(* What strncat copies out of a slot that holds a message is the message:  *)
(* the first NUL, if there is one, stands right behind it.                 *)
LEMMA FragmentOfHeld ==
  ASSUME Board, NEW b \in 0 .. MaxNMess - 1, NEW k, Holds(b, k)
  PROVE  Fragment(b) = Message(k)
<1> DEFINE from == indexes[b]
           room == indexes[b + 1] - indexes[b]
           text == [j \in 1 .. room |-> messages[from + j - 1]]
<1>1. k \in 1 .. Len(sent) /\ sent[k] \in Nat /\ k \in Nat \ {0}
  <2>1. k \in 1 .. Len(sent) /\ sent \in Seq(Lengths)
    BY DEF Holds, Board, TypeOK
  <2>2. sent[k] \in Lengths
    BY ONLY <2>1, ElementOfSeq
  <2>3. sent[k] \in Nat
    BY <2>2, LengthsNatural
  <2>4. QED
    BY ONLY <2>1, <2>3
<1>2. /\ from \in 0 .. MaxTotMessLen /\ indexes[b + 1] \in 0 .. MaxTotMessLen
      /\ from + sent[k] <= indexes[b + 1]
      /\ \A c \in from .. indexes[b + 1] - 1 : messages[c] = IF c < from + sent[k] THEN k ELSE 0
  BY BoardAssumption DEF Holds, Board, TypeOK, Slots
<1>3. from \in Nat /\ room \in Nat /\ sent[k] \in 0 .. room
  BY <1>1, <1>2, BoardAssumption
<1>4. /\ text \in [1 .. room -> Nat]
      /\ \A j \in 1 .. room : text[j] = IF j <= sent[k] THEN k ELSE 0
  <2>1. ASSUME NEW j \in 1 .. room
        PROVE  messages[from + j - 1] = IF j <= sent[k] THEN k ELSE 0
    <3>1. ASSUME NEW x \in Nat, NEW y \in Nat, NEW z \in Nat, NEW i \in 1 .. y - x
          PROVE  x + i - 1 \in x .. y - 1 /\ (x + i - 1 < x + z <=> i <= z)
      BY ONLY TRUE
    <3>2. indexes[b + 1] \in Nat
      BY <1>2, BoardAssumption
    <3>3. /\ from + j - 1 \in from .. indexes[b + 1] - 1
          /\ from + j - 1 < from + sent[k] <=> j <= sent[k]
      BY <1>1, <1>3, <3>1, <3>2
    <3>4. QED
      BY <1>2, <3>3
  <2>2. \A j \in 1 .. room : text[j] = messages[from + j - 1]
    OBVIOUS
  <2>3. \A j \in 1 .. room : text[j] \in Nat
    BY <1>1, <2>1, <2>2
  <2>4. text \in [1 .. room -> Nat]
    BY <2>3
  <2>5. QED
    BY <2>1, <2>2, <2>4
<1>5. CopyEnd(b) = indexes[b + 1]
  BY <1>2, <1>3 DEF CopyEnd
<1>6. Fragment(b) = UpToNUL(text)
  BY <1>5 DEF Fragment
<1> HIDE DEF text, room
<1>7. UpToNUL(text) \in [1 .. sent[k] -> {k}]
  BY <1>1, <1>3, <1>4, CutAtNul
<1>8. QED
  BY <1>6, <1>7 DEF Message

LEMMA LastOfLap == LapInv => LastWithinLap
<1> SUFFICES ASSUME LapInv, NEW n \in 1 .. currentIndex
             PROVE  LastReply(n) = Lines(Len(sent) - n + 1)
  BY DEF LastWithinLap
<1> DEFINE visited == [i \in 1 .. LastCount(n) |-> Fragment(Visited(n, i - 1))]
           first == Len(sent) - n + 1
           latest == [i \in 1 .. Len(sent) - first + 1 |-> Message(first + i - 1)]
<1>1. /\ currentIndex \in 0 .. MaxNMess /\ MaxNMess \in Nat
      /\ Len(sent) \in Nat /\ Board
  BY BoardAssumption DEF LapInv, Board, TypeOK
<1>2. LastCount(n) = n /\ Len(sent) - first + 1 = n
  BY <1>1, VisitedWithinLap
<1>3. ASSUME NEW i \in 1 .. n
      PROVE  Fragment(Visited(n, i - 1)) = Message(first + i - 1)
  <2>1. Visited(n, i - 1) = currentIndex - n + (i - 1)
    BY <1>1, VisitedWithinLap
  <2>2. /\ currentIndex - n + (i - 1) \in 0 .. currentIndex - 1
        /\ LapMessage(currentIndex - n + (i - 1)) = first + i - 1
    BY <1>1 DEF LapMessage
  <2>3. Holds(currentIndex - n + (i - 1), first + i - 1)
    BY <2>2, LapHolds DEF LapInv
  <2>4. QED
    BY <1>1, <2>1, <2>2, <2>3, FragmentOfHeld
<1>4. visited = latest
  BY <1>2, <1>3
<1> HIDE DEF visited, latest
<1>5. FromFirstText(visited) = FromFirstText(latest)
  BY <1>4
<1>6. QED
  BY <1>5 DEF LastReply, Lines, visited, latest

(* LAST n returns exactly the last n messages, whole, once and in the      *)
(* order they were sent, while the lap being written has n of them: for    *)
(* any board, whatever was sent before (server.c:258-288).                 *)
THEOREM LastReturnsLatest == Spec => []LastWithinLap
BY LapAlways, LastOfLap, PTL

-----------------------------------------------------------------------------
(* The loops round by round *)

(* The recursion that stands for the while loop has a solution, so that    *)
(* each round is what it says.                                             *)
LEMMA WhileRounds ==
  ASSUME NEW marks \in [Slots -> Int], NEW first \in Int, NEW end \in Int
  PROVE  \E round :
           /\ round[0] = [marks |-> marks, tmp |-> first]
           /\ \A k \in Nat : round[k + 1] = WhileRound(round[k], end)
           /\ WhileLoop(marks, first, end) = round[MaxNMess].marks
<1> DEFINE X == [marks : [Slots -> Int], tmp : Int]
           x == [marks |-> marks, tmp |-> first]
           F == [k \in Nat |-> [r \in X |-> WhileRound(r, end)]]
           IsLoop(g) == g = [k \in Nat |-> IF k = 0 THEN x ELSE WhileRound(g[k - 1], end)]
           round == CHOOSE g : IsLoop(g)
<1>1. ASSUME NEW r \in X PROVE WhileRound(r, end) \in X
  <2>0. r.marks \in [Slots -> Int] /\ r.tmp \in Int
    OBVIOUS
  <2>1. ASSUME NEW m \in [Slots -> Int], NEW i \in Int
        PROVE  [m EXCEPT ![i] = end] \in [Slots -> Int]
    OBVIOUS
  <2>2. QED
    BY <2>0, <2>1 DEF WhileRound
<1>2. F \in [Nat -> [X -> X]]
  BY <1>1
<1>3. PICK g : AreRounds(X, x, F, g)
  <2>1. x \in X
    OBVIOUS
  <2> HIDE DEF X, x, F
  <2>2. QED
    BY <1>2, <2>1, RoundsExist
<1>4. IsLoop(g)
  <2>1. ASSUME NEW k \in Nat, k # 0 PROVE g[k] = WhileRound(g[k - 1], end)
    <3> HIDE DEF X, x
    <3>1. k - 1 \in Nat /\ (k - 1) + 1 = k
      BY <2>1
    <3>2. g[k] = F[k][g[k - 1]] /\ g[k - 1] \in X
      BY <1>3, <3>1 DEF AreRounds
    <3>3. QED
      BY <3>1, <3>2
  <2> HIDE DEF X, F, x
  <2>2. QED
    BY <1>3, <2>1 DEF AreRounds
<1>5. IsLoop(round)
  <2> HIDE DEF IsLoop
  <2>1. QED
    BY <1>4
<1>6. WhileLoop(marks, first, end) = round[MaxNMess].marks
  BY DEF WhileLoop
<1> HIDE DEF round, x
<1>7. round[0] = x /\ \A k \in Nat : round[k + 1] = WhileRound(round[k], end)
  BY <1>5
<1>8. QED
  BY <1>6, <1>7 DEF x

(* A while loop that starts behind slot 0 and finds a mark that stops it   *)
(* moves the marks before the first such mark, as Swallow says.            *)
LEMMA WhileSwallows ==
  ASSUME Board, NEW first \in 1 .. MaxNMess, NEW end \in 1 .. MaxTotMessLen
  PROVE  WhileLoop(indexes, first, end) = Swallow(first, end)
<1> USE BoardAssumption
<1>1. /\ indexes \in [Slots -> Int]
      /\ \A i \in Slots : indexes[i] \in Nat
      /\ indexes[MaxNMess + 1] = 0
  BY DEF Board, TypeOK, LoopsStop
<1> DEFINE Stops == {i \in first .. MaxNMess + 1 : indexes[i] \notin 1 .. end - 1}
<1>2. PICK stop \in Stops : \A i \in Stops : stop <= i
  <2>1. Stops \in SUBSET Nat /\ MaxNMess + 1 \in Stops
    BY <1>1
  <2> HIDE DEF Stops
  <2>2. QED
    BY <2>1, Smallest
<1>3. /\ stop \in first .. MaxNMess + 1
      /\ indexes[stop] \notin 1 .. end - 1
      /\ \A i \in first .. stop - 1 : indexes[i] \in 1 .. end - 1
  BY <1>2
<1>4. PICK round :
        /\ round[0] = [marks |-> indexes, tmp |-> first]
        /\ \A k \in Nat : round[k + 1] = WhileRound(round[k], end)
        /\ WhileLoop(indexes, first, end) = round[MaxNMess].marks
  BY <1>1, WhileRounds
<1> DEFINE Moved(k) == [i \in Slots |-> IF i \in first .. stop - 1 /\ i < first + k
                                        THEN end ELSE indexes[i]]
           Tmp(k) == IF first + k <= stop THEN first + k ELSE stop
           Told == {k \in Nat : round[k] = [marks |-> Moved(k), tmp |-> Tmp(k)]}
<1>5. Nat \subseteq Told
  <2>1. 0 \in Told
    BY <1>1, <1>3, <1>4
  <2>2. ASSUME NEW k \in Nat, k \in Told PROVE k + 1 \in Told
    <3>1. round[k] = [marks |-> Moved(k), tmp |-> Tmp(k)]
      BY <2>2
    <3>2. round[k + 1] = WhileRound(round[k], end)
      BY <1>4
    <3>3. CASE first + k < stop
      <4>1. Tmp(k) = first + k /\ Tmp(k + 1) = first + k + 1 /\ first + k \in Slots
        BY <1>3, <3>3 DEF Slots
      <4>2. Moved(k)[first + k] = indexes[first + k]
        BY <4>1
      <4>3. indexes[first + k] # 0 /\ indexes[first + k] < end
        BY <1>3, <3>3
      <4>4. Moved(k + 1) = [Moved(k) EXCEPT ![first + k] = end]
        <5>1. \A i \in Slots : i < first + (k + 1) <=> i < first + k \/ i = first + k
          BY DEF Slots
        <5>2. first + k \in first .. stop - 1
          BY <1>3, <3>3
        <5>3. QED
          BY <5>1, <5>2, <4>1
      <4> HIDE DEF Moved, Tmp
      <4>5. round[k + 1] = [marks |-> Moved(k + 1), tmp |-> Tmp(k + 1)]
        BY <3>1, <3>2, <4>1, <4>2, <4>3, <4>4 DEF WhileRound
      <4>6. QED
        BY <4>5
    <3>4. CASE first + k >= stop
      <4>1. Tmp(k) = stop /\ Tmp(k + 1) = stop /\ stop \in Slots
        BY <1>3, <3>4 DEF Slots
      <4>2. Moved(k)[stop] = indexes[stop] /\ Moved(k + 1) = Moved(k)
        BY <1>3, <3>4, <4>1
      <4>3. ~ (indexes[stop] # 0 /\ indexes[stop] < end)
        BY <1>1, <1>3, <4>1
      <4> HIDE DEF Moved, Tmp
      <4>4. round[k + 1] = [marks |-> Moved(k + 1), tmp |-> Tmp(k + 1)]
        BY <3>1, <3>2, <4>1, <4>2, <4>3 DEF WhileRound
      <4>5. QED
        BY <4>4
    <3>5. QED
      BY <1>3, <3>3, <3>4
  <2> HIDE DEF Told
  <2>3. QED
    BY <2>1, <2>2, AllNumbers
<1>6. round[MaxNMess].marks = Moved(MaxNMess)
  <2>1. MaxNMess \in Told
    BY <1>5
  <2> HIDE DEF Moved, Tmp
  <2>2. QED
    BY <2>1
<1>7. Moved(MaxNMess) = Swallow(first, end)
  <2>1. ASSUME NEW i \in Slots
        PROVE  (i \in first .. stop - 1 /\ i < first + MaxNMess)
                 <=> (i >= first /\ \A j \in first .. i : indexes[j] \in 1 .. end - 1)
    BY <1>3 DEF Slots
  <2>2. QED
    BY <2>1 DEF Swallow
<1>8. QED
  BY <1>4, <1>6, <1>7

(* The same for the for loop. *)
LEMMA ForRounds ==
  ASSUME NEW marks \in [Slots -> Int], NEW cur \in Int, NEW end \in Int
  PROVE  \E round :
           /\ round[0] = marks
           /\ \A k \in Nat : round[k + 1] = ForRound(round[k], MaxNMess - k, end)
           /\ ForLoop(marks, cur, end) = round[MaxNMess - cur - 1]
<1> DEFINE X == [Slots -> Int]
           F == [k \in Nat |-> [m \in X |-> ForRound(m, MaxNMess + 1 - k, end)]]
           IsLoop(g) == g = [k \in Nat |-> IF k = 0 THEN marks
                                           ELSE ForRound(g[k - 1], MaxNMess + 1 - k, end)]
           round == CHOOSE g : IsLoop(g)
<1> USE BoardAssumption
<1>1. ASSUME NEW k \in Nat, NEW m \in X PROVE ForRound(m, MaxNMess + 1 - k, end) \in X
  <2> DEFINE i == MaxNMess + 1 - k
  <2>1. ASSUME NEW n \in X, NEW j \in Int, NEW y \in Int PROVE [n EXCEPT ![j] = y] \in X
    OBVIOUS
  <2>2. i \in Int /\ i + 1 \in Int /\ i <= MaxNMess + 1
    OBVIOUS
  <2>3. i + 1 \in Slots => m[i + 1] \in Int
    OBVIOUS
  <2>4. QED
    BY <2>1, <2>2, <2>3 DEF ForRound, Slots
<1>2. F \in [Nat -> [X -> X]]
  BY <1>1
<1>3. PICK g : AreRounds(X, marks, F, g)
  <2>1. marks \in X
    OBVIOUS
  <2> HIDE DEF X, F
  <2>2. QED
    BY <1>2, <2>1, RoundsExist
<1>4. IsLoop(g)
  <2>1. ASSUME NEW k \in Nat, k # 0
        PROVE  g[k] = ForRound(g[k - 1], MaxNMess + 1 - k, end)
    <3> HIDE DEF X
    <3>1. k - 1 \in Nat /\ (k - 1) + 1 = k
      BY <2>1
    <3>2. g[k] = F[k][g[k - 1]] /\ g[k - 1] \in X
      BY <1>3, <3>1 DEF AreRounds
    <3>3. QED
      BY <3>1, <3>2
  <2> HIDE DEF X, F
  <2>2. QED
    BY <1>3, <2>1 DEF AreRounds
<1>5. IsLoop(round)
  <2> HIDE DEF IsLoop
  <2>1. QED
    BY <1>4
<1>6. ForLoop(marks, cur, end) = round[MaxNMess - cur - 1]
  BY DEF ForLoop
<1> HIDE DEF round
<1>7. round[0] = marks
  BY <1>5
<1>8. ASSUME NEW k \in Nat PROVE round[k + 1] = ForRound(round[k], MaxNMess - k, end)
  <2>1. k + 1 \in Nat /\ (k + 1) - 1 = k /\ k + 1 # 0 /\ MaxNMess + 1 - (k + 1) = MaxNMess - k
    OBVIOUS
  <2>2. round[k + 1] = ForRound(round[(k + 1) - 1], MaxNMess + 1 - (k + 1), end)
    BY <1>5, <2>1
  <2>3. QED
    BY <2>1, <2>2
<1>9. QED
  BY <1>6, <1>7, <1>8

(* A round of the for loop takes one slot more into the closed form. *)
LEMMA ForRoundCompacts ==
  ASSUME NEW marks \in [Slots -> Int], NEW end \in Int,
         marks[MaxNMess + 1] = 0, end # 0, NEW i \in 1 .. MaxNMess
  PROVE  ForRound(Compact(marks, i + 1, end), i, end) = Compact(marks, i, end)
<1> USE BoardAssumption
<1> DEFINE later == Compact(marks, i + 1, end)
           inRun(n, j) == j \in n .. MaxNMess /\ marks[j] = end
<1>1. ASSUME NEW j \in Slots, NEW n \in {i, i + 1}
      PROVE  Compact(marks, n, end)[j] =
               IF inRun(n, j - 1) THEN 0
               ELSE IF inRun(n, j) THEN marks[Behind(marks, j, end)]
               ELSE marks[j]
  BY DEF Compact
<1>3. i \in Slots /\ i + 1 \in Slots /\ later[i] = marks[i]
  BY <1>1 DEF Slots
<1>4. CASE marks[i] # end
  <2>1. ASSUME NEW j \in Slots PROVE later[j] = Compact(marks, i, end)[j]
    <3>1. (inRun(i, j) <=> inRun(i + 1, j)) /\ (inRun(i, j - 1) <=> inRun(i + 1, j - 1))
      BY <1>4 DEF Slots
    <3>2. QED
      BY <1>1, <3>1
  <2>2. later = Compact(marks, i, end)
    BY <2>1 DEF Compact
  <2>3. QED
    BY <1>3, <1>4, <2>2 DEF ForRound
<1>5. CASE marks[i] = end
  <2> DEFINE mark == marks[Behind(marks, i, end)]
  <2>1. later[i + 1] = mark
    <3>1. /\ Behind(marks, i, end) \in i .. MaxNMess + 1
          /\ marks[Behind(marks, i, end)] # end
          /\ \A k \in i .. Behind(marks, i, end) - 1 : marks[k] = end
      BY <1>3, BehindExists
    <3>2. CASE i + 1 \in 1 .. MaxNMess /\ marks[i + 1] = end
      <4>1. later[i + 1] = marks[Behind(marks, i + 1, end)]
        BY <1>1, <1>3, <3>2
      <4>2. /\ Behind(marks, i + 1, end) \in i + 1 .. MaxNMess + 1
            /\ marks[Behind(marks, i + 1, end)] # end
            /\ \A k \in i + 1 .. Behind(marks, i + 1, end) - 1 : marks[k] = end
        BY <1>3, BehindExists
      <4>3. Behind(marks, i + 1, end) = Behind(marks, i, end)
        BY <1>5, <3>1, <4>2
      <4>4. QED
        BY <4>1, <4>3
    <3>3. CASE ~ (i + 1 \in 1 .. MaxNMess /\ marks[i + 1] = end)
      <4>1. marks[i + 1] # end
        BY <3>3
      <4>2. Behind(marks, i, end) = i + 1
        BY <1>5, <3>1, <4>1
      <4>3. later[i + 1] = marks[i + 1]
        BY <1>1, <1>3, <4>1
      <4>4. QED
        BY <4>2, <4>3
    <3>4. QED
      BY <3>2, <3>3
  <2>2. ASSUME NEW j \in Slots
        PROVE  Compact(marks, i, end)[j] =
                 IF j = i + 1 THEN 0 ELSE IF j = i THEN mark ELSE later[j]
    <3>1. CASE j = i + 1
      BY <1>1, <1>5, <3>1
    <3>2. CASE j = i
      BY <1>1, <1>5, <3>2
    <3>3. CASE j # i /\ j # i + 1
      <4>1. (inRun(i, j) <=> inRun(i + 1, j)) /\ (inRun(i, j - 1) <=> inRun(i + 1, j - 1))
        BY <3>3 DEF Slots
      <4>2. QED
        BY <1>1, <3>3, <4>1
    <3>4. QED
      BY <3>1, <3>2, <3>3
  <2>3. /\ later = [j \in Slots |-> later[j]]
        /\ Compact(marks, i, end) = [j \in Slots |-> Compact(marks, i, end)[j]]
    BY DEF Compact
  <2> HIDE DEF later, mark
  <2>4. CASE mark # 0
    <3>1. ForRound(later, i, end) = [later EXCEPT ![i] = mark, ![i + 1] = 0]
      BY <1>3, <1>5, <2>1, <2>4 DEF ForRound
    <3>2. [later EXCEPT ![i] = mark, ![i + 1] = 0]
            = [j \in Slots |-> IF j = i + 1 THEN 0 ELSE IF j = i THEN mark ELSE later[j]]
      BY <1>3, <2>3
    <3>3. Compact(marks, i, end)
            = [j \in Slots |-> IF j = i + 1 THEN 0 ELSE IF j = i THEN mark ELSE later[j]]
      BY <2>2, <2>3
    <3>4. QED
      BY <3>1, <3>2, <3>3 DEF later
  <2>5. CASE mark = 0
    <3>1. ForRound(later, i, end) = [later EXCEPT ![i] = 0]
      BY <1>3, <1>5, <2>1, <2>5 DEF ForRound
    <3>2. [later EXCEPT ![i] = 0]
            = [j \in Slots |-> IF j = i + 1 THEN 0 ELSE IF j = i THEN mark ELSE later[j]]
      BY <1>3, <2>1, <2>3, <2>5
    <3>3. Compact(marks, i, end)
            = [j \in Slots |-> IF j = i + 1 THEN 0 ELSE IF j = i THEN mark ELSE later[j]]
      BY <2>2, <2>3
    <3>4. QED
      BY <3>1, <3>2, <3>3 DEF later
  <2>6. QED
    BY <2>4, <2>5
<1>6. QED
  BY <1>4, <1>5

(* The for loop does what Compact says, when the mark behind the last     *)
(* slot is not in use.                                                     *)
LEMMA ForCompacts ==
  ASSUME NEW marks \in [Slots -> Int], NEW end \in Int,
         marks[MaxNMess + 1] = 0, end # 0, NEW cur \in 0 .. MaxNMess - 1
  PROVE  ForLoop(marks, cur, end) = Compact(marks, cur + 2, end)
<1> USE BoardAssumption
<1>1. PICK round :
        /\ round[0] = marks
        /\ \A k \in Nat : round[k + 1] = ForRound(round[k], MaxNMess - k, end)
        /\ ForLoop(marks, cur, end) = round[MaxNMess - cur - 1]
  BY ForRounds
<1> DEFINE Told == {k \in Nat : k < MaxNMess => round[k] = Compact(marks, MaxNMess - k + 1, end)}
<1>2. Nat \subseteq Told
  <2>1. 0 \in Told
    <3>1. Compact(marks, MaxNMess + 1, end) = marks
      BY DEF Compact
    <3>2. QED
      BY <1>1, <3>1
  <2>2. ASSUME NEW k \in Nat, k \in Told PROVE k + 1 \in Told
    <3> SUFFICES ASSUME k + 1 < MaxNMess
                 PROVE  round[k + 1] = Compact(marks, MaxNMess - (k + 1) + 1, end)
      OBVIOUS
    <3>1. MaxNMess - k \in 1 .. MaxNMess /\ MaxNMess - (k + 1) + 1 = MaxNMess - k
      OBVIOUS
    <3>2. round[k + 1] = ForRound(Compact(marks, MaxNMess - k + 1, end), MaxNMess - k, end)
      BY <1>1, <2>2
    <3>3. QED
      BY <3>1, <3>2, ForRoundCompacts
  <2> HIDE DEF Told
  <2>3. QED
    BY <2>1, <2>2, AllNumbers
<1>3. MaxNMess - cur - 1 \in Told /\ MaxNMess - (MaxNMess - cur - 1) + 1 = cur + 2
  BY <1>2
<1>4. QED
  BY <1>1, <1>3

(* On a board whose last mark is not in use both loops stop and compute    *)
(* the closed forms.                                                       *)
LEMMA LoopsOfSend == Board => LoopsAgree
<1> DEFINE Agree(cur, end) ==
             indexes[cur + 1] \in 1 .. end - 1 =>
               Compact(Swallow(cur + 1, end), cur + 2, end)
                 = ForLoop(WhileLoop(indexes, cur + 1, end), cur, end)
<1> SUFFICES ASSUME Board, NEW len \in Lengths
             PROVE  Agree(Slot(len), Start(len) + len)
  BY DEF LoopsAgree
<1> DEFINE cur == Slot(len)
           end == Start(len) + len
           marks == Swallow(cur + 1, end)
<1> SUFFICES ASSUME indexes[cur + 1] \in 1 .. end - 1
             PROVE  Compact(marks, cur + 2, end)
                      = ForLoop(WhileLoop(indexes, cur + 1, end), cur, end)
  OBVIOUS
<1> USE BoardAssumption
<1>1. cur \in 0 .. MaxNMess - 1 /\ end \in 1 .. MaxTotMessLen /\ cur + 1 \in 1 .. MaxNMess
  BY Placed
<1> HIDE DEF cur, end
<1>2. WhileLoop(indexes, cur + 1, end) = marks
  BY <1>1, WhileSwallows
<1>3. marks \in [Slots -> Int] /\ marks[MaxNMess + 1] = 0
  BY <1>1 DEF Swallow, Board, TypeOK, LoopsStop, Slots
<1> HIDE DEF marks
<1>4. ForLoop(marks, cur, end) = Compact(marks, cur + 2, end)
  BY <1>1, <1>3, ForCompacts
<1>5. QED
  BY <1>2, <1>4

(* The while loop and the for loop of SEND, run round by round as the code *)
(* has them, leave the marks that the closed forms give, for any number of *)
(* slots, any board and any message (server.c:166-184).                    *)
THEOREM LoopsComputeMarks == Spec => []LoopsAgree
BY LapAlways, LoopsOfSend, PTL DEF LapInv
=============================================================================
