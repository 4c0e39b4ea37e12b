----------------------------- MODULE SendLoops -----------------------------
(***************************************************************************)
(* The two loops of SEND over the marks as the code runs them, round by    *)
(* round; MessageBoard has what they compute in closed form.               *)
(***************************************************************************)
EXTENDS MessageBoard

WhileRound(r, end) ==
  IF r.marks[r.tmp] # 0 /\ r.marks[r.tmp] < end
  THEN [marks |-> [r.marks EXCEPT ![r.tmp] = end], tmp |-> r.tmp + 1]
  ELSE r

(* The while loop has a round for each slot at most. *)
WhileLoop(marks, first, end) ==
  LET round[k \in Nat] == IF k = 0 THEN [marks |-> marks, tmp |-> first]
                          ELSE WhileRound(round[k - 1], end)
  IN  round[MaxNMess].marks

ForRound(marks, i, end) ==
  IF marks[i] # end THEN marks
  ELSE IF marks[i + 1] # 0 THEN [marks EXCEPT ![i] = marks[i + 1], ![i + 1] = 0]
  ELSE [marks EXCEPT ![i] = 0]

(* The for loop goes down from the last slot to the second behind cur. *)
ForLoop(marks, cur, end) ==
  LET round[k \in Nat] == IF k = 0 THEN marks
                          ELSE ForRound(round[k - 1], MaxNMess + 1 - k, end)
  IN  round[MaxNMess - cur - 1]

(* What SEND does to the marks it runs over, in closed form in             *)
(* MessageBoard, is what the two loops of the code compute, run one after  *)
(* the other, in every state of the board and for every message            *)
(* (server.c:166-184).                                                     *)
LoopsAgree ==
  \A len \in Lengths :
    LET cur == Slot(len)
        end == Start(len) + len
    IN  indexes[cur + 1] \in 1 .. end - 1 =>
          Compact(Swallow(cur + 1, end), cur + 2, end)
            = ForLoop(WhileLoop(indexes, cur + 1, end), cur, end)
=============================================================================
