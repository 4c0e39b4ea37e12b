-------------------------- MODULE SynchronizeProofs -------------------------
(* Proofs about the walk, the commands and the shell, for any finite set   *)
(* of paths, any trees and any number of runs.                             *)
EXTENDS Synchronize, FiniteSetTheorems, SequenceTheorems, TLAPS

-----------------------------------------------------------------------------
(* Paths *)

LEMMA PathIs ==
  ASSUME NEW p \in Paths
  PROVE  /\ p \in Seq(STRING) /\ Len(p) \in Nat /\ Len(p) >= 1
         /\ Len(Parent(p)) = Len(p) - 1
         /\ \A k \in 1 .. Len(p) - 1 : Parent(p)[k] = p[k]
         /\ Parent(p) \in Seq(STRING)
         /\ Parent(p) = Root <=> Len(p) = 1
         /\ Len(p) > 1 => Parent(p) \in Paths
<1>1. p \in Seq(STRING) /\ Len(p) \in Nat /\ Len(p) >= 1
  BY SynchronizeAssumption, EmptySeq
<1>2. /\ Parent(p) \in Seq(STRING)
      /\ Len(Parent(p)) = IF 1 <= Len(p) - 1 THEN Len(p) - 1 ELSE 0
      /\ \A k \in 1 .. Len(p) - 1 : Parent(p)[k] = p[k]
  BY <1>1, SubSeqProperties DEF Parent, Front
<1>3. Len(p) > 1 => Parent(p) \in Paths
  BY <1>1, SynchronizeAssumption DEF Parent, Front
<1>4. Len(Parent(p)) = Len(p) - 1
  <2>1. \A m, n \in Nat : n >= 1 /\ m = (IF 1 <= n - 1 THEN n - 1 ELSE 0) => m = n - 1
    OBVIOUS
  <2>2. Len(Parent(p)) \in Nat
    BY <1>2
  <2>3. QED
    BY <1>1, <1>2, <2>1, <2>2
<1>5. Parent(p) = << >> <=> Len(Parent(p)) = 0
  BY <1>2, EmptySeq
<1>6. QED
  BY <1>1, <1>2, <1>3, <1>4, <1>5 DEF Root

(* A strict prefix, place by place. *)
LEMMA PrefixIs ==
  ASSUME NEW q \in Seq(STRING), NEW p \in Seq(STRING)
  PROVE  IsStrictPrefix(q, p) <=> Len(q) < Len(p) /\ \A k \in 1 .. Len(q) : q[k] = p[k]
<1>1. Len(q) \in Nat /\ Len(p) \in Nat
  OBVIOUS
<1>2. SubSeq(q, 1, Len(q)) = q
  BY SubSeqFull
<1>3. ASSUME Len(q) <= Len(p)
      PROVE  /\ SubSeq(p, 1, Len(q)) \in Seq(STRING)
             /\ Len(SubSeq(p, 1, Len(q))) = Len(q)
             /\ \A k \in 1 .. Len(q) : SubSeq(p, 1, Len(q))[k] = p[k]
  <2>1. \A k \in 1 .. Len(q) : p[k] \in STRING
    BY <1>1, <1>3
  <2>2. QED
    BY <1>1, <2>1, SubSeqProperties
<1>4. ASSUME Len(q) = Len(p), \A k \in 1 .. Len(q) : q[k] = p[k] PROVE q = p
  BY <1>4, SeqEqual
<1>5. ASSUME Len(q) <= Len(p)
      PROVE  q = SubSeq(p, 1, Len(q)) <=> \A k \in 1 .. Len(q) : q[k] = p[k]
  BY <1>3, <1>5, SeqEqual
<1>6. QED
  BY <1>1, <1>2, <1>4, <1>5 DEF IsStrictPrefix, IsPrefix

LEMMA PrefixOrSame ==
  ASSUME NEW q \in Paths, NEW p \in Paths
  PROVE  IsPrefix(q, p) <=> q = p \/ IsStrictPrefix(q, p)
<1>1. SubSeq(p, 1, Len(p)) = p /\ Len(p) \in Nat
  BY PathIs, SubSeqFull
<1>2. QED
  BY <1>1 DEF IsStrictPrefix, IsPrefix

LEMMA PrefixesOfPrefix ==
  ASSUME NEW q \in Paths, NEW p \in Paths, NEW r \in Paths,
         IsStrictPrefix(q, p), IsStrictPrefix(p, r)
  PROVE  IsStrictPrefix(q, r)
<1>1. /\ q \in Seq(STRING) /\ p \in Seq(STRING) /\ r \in Seq(STRING)
      /\ Len(q) \in Nat /\ Len(p) \in Nat /\ Len(r) \in Nat
  BY PathIs
<1>2. Len(q) < Len(p) /\ \A k \in 1 .. Len(q) : q[k] = p[k]
  BY <1>1, PrefixIs
<1>3. Len(p) < Len(r) /\ \A k \in 1 .. Len(p) : p[k] = r[k]
  BY <1>1, PrefixIs
<1>4. Len(q) < Len(r) /\ \A k \in 1 .. Len(q) : q[k] = r[k]
  BY <1>1, <1>2, <1>3
<1>5. QED
  BY <1>1, <1>4, PrefixIs

(* What is above one path is in line. *)
LEMMA PrefixesInLine ==
  ASSUME NEW q \in Paths, NEW r \in Paths, NEW p \in Paths,
         IsStrictPrefix(q, p), IsStrictPrefix(r, p)
  PROVE  q = r \/ IsStrictPrefix(q, r) \/ IsStrictPrefix(r, q)
<1>1. /\ q \in Seq(STRING) /\ p \in Seq(STRING) /\ r \in Seq(STRING)
      /\ Len(q) \in Nat /\ Len(p) \in Nat /\ Len(r) \in Nat
  BY PathIs
<1>2. \A k \in 1 .. Len(q) : q[k] = p[k]
  BY <1>1, PrefixIs
<1>3. \A k \in 1 .. Len(r) : r[k] = p[k]
  BY <1>1, PrefixIs
<1>4. CASE Len(q) < Len(r)
  <2>1. \A k \in 1 .. Len(q) : q[k] = r[k]
    BY <1>1, <1>2, <1>3, <1>4
  <2>2. QED
    BY <1>1, <1>4, <2>1, PrefixIs
<1>5. CASE Len(r) < Len(q)
  <2>1. \A k \in 1 .. Len(r) : r[k] = q[k]
    BY <1>1, <1>2, <1>3, <1>5
  <2>2. QED
    BY <1>1, <1>5, <2>1, PrefixIs
<1>6. CASE Len(q) = Len(r)
  BY <1>1, <1>2, <1>3, <1>6, SeqEqual
<1>7. QED
  BY <1>1, <1>4, <1>5, <1>6

LEMMA UnderIs ==
  ASSUME NEW q \in Paths, NEW r \in Paths
  PROVE  q \in Under(r) <=> q = r \/ IsStrictPrefix(r, q)
BY PrefixOrSame DEF Under

(* Above a path are its parent and what is above the parent. *)
LEMMA AboveIs ==
  ASSUME NEW q \in Paths, NEW p \in Paths
  PROVE  IsStrictPrefix(q, p) <=>
           1 < Len(p) /\ (q = Parent(p) \/ IsStrictPrefix(q, Parent(p)))
<1>1. /\ p \in Seq(STRING) /\ q \in Seq(STRING) /\ Parent(p) \in Seq(STRING)
      /\ Len(p) \in Nat /\ Len(q) \in Nat /\ Len(p) >= 1 /\ Len(q) >= 1
      /\ Len(Parent(p)) = Len(p) - 1
      /\ \A k \in 1 .. Len(p) - 1 : Parent(p)[k] = p[k]
  BY PathIs
<1>2. Len(q) = Len(p) - 1 /\ (\A k \in 1 .. Len(q) : q[k] = p[k]) => q = Parent(p)
  BY <1>1, SeqEqual
<1>3. QED
  BY <1>1, <1>2, PrefixIs

(* How deep a path is. *)
Depth(p) == Len(p)

LEMMA DepthIs ==
  ASSUME NEW p \in Paths
  PROVE  /\ Depth(p) \in Nat /\ 1 <= Depth(p)
         /\ Parent(p) = Root <=> Depth(p) = 1
         /\ 1 < Depth(p) => /\ Parent(p) \in Paths
                            /\ Depth(Parent(p)) = Depth(p) - 1
                            /\ IsStrictPrefix(Parent(p), p)
         /\ \A q \in Paths : IsStrictPrefix(q, p) => Depth(q) < Depth(p)
         /\ ~ IsStrictPrefix(p, p)
<1>1. /\ p \in Seq(STRING) /\ Depth(p) \in Nat /\ 1 <= Depth(p)
      /\ Depth(Parent(p)) = Depth(p) - 1
      /\ Parent(p) = Root <=> Depth(p) = 1
      /\ 1 < Depth(p) => Parent(p) \in Paths
  BY PathIs DEF Depth
<1>2. 1 < Depth(p) => IsStrictPrefix(Parent(p), p)
  BY <1>1, AboveIs DEF Depth
<1>3. ASSUME NEW q \in Paths, IsStrictPrefix(q, p) PROVE Depth(q) < Depth(p)
  BY <1>1, <1>3, PathIs, PrefixIs DEF Depth
<1>4. ~ IsStrictPrefix(p, p)
  BY DEF IsStrictPrefix
<1>5. QED
  BY <1>1, <1>2, <1>3, <1>4

-----------------------------------------------------------------------------
(* Entries *)

Thing == Things(Nat)

LEMMA ThingIs ==
  ASSUME NEW e \in Thing
  PROVE  /\ e.kind \in {"none", "dir", "file", "link"}
         /\ e.kind = "none" <=> e = None
         /\ e.kind = "dir" <=> e = Dir
         /\ e.time \in Nat /\ e.size \in Nat
<1>1. CASE e = None
  BY <1>1 DEF None, Dir
<1>2. CASE e = Dir
  BY <1>2 DEF None, Dir
<1>3. CASE e \in [kind : {"file", "link"}, time : Nat, size : Nat, what : STRING]
  <2>1. e.kind \in {"file", "link"} /\ e.time \in Nat /\ e.size \in Nat
    BY <1>3
  <2>2. None.kind = "none" /\ Dir.kind = "dir"
    BY DEF None, Dir
  <2>3. QED
    BY <2>1, <2>2
<1>4. QED
  BY <1>1, <1>2, <1>3 DEF Thing, Things

LEMMA SidesAre ==
  ASSUME NEW s \in Sides
  PROVE  /\ Other(s) \in Sides /\ Other(s) # s /\ Other(Other(s)) = s
         /\ \A t \in Sides : t = s \/ t = Other(s)
         /\ s \in {1, 2} /\ Other(1) = 2 /\ Other(2) = 1
BY DEF Sides, Other

(* Which of two files or links wins: the recent one, with -i the old one.  *)
Better(e, f) == IF mode = "union" THEN ~ MoreRecent(f, e) ELSE ~ MoreRecent(e, f)

(* What the operators print for an entry a beside b. *)
Outcome(w, s, p, a, b) ==
  \/ w = << >>
  \/ /\ b = None
     /\ \/ mode = "union" /\ a.kind = "dir" /\ w = <<CopyTree(s, p)>>
        \/ mode = "union" /\ a.kind = "file" /\ w = <<Copy(s, p)>>
        \/ mode = "union" /\ a.kind = "link" /\ w = <<Link(s, p, a)>>
        \/ mode = "intersect" /\ a.kind = "dir" /\ w = <<DeleteTree(s, p)>>
        \/ mode = "intersect" /\ a.kind \in {"file", "link"} /\ w = <<Delete(s, p)>>
  \/ /\ b # None /\ a.kind = "file" /\ b.kind = "file"
     /\ \/ Better(a, b) /\ w = <<Copy(s, p)>>
        \/ Better(b, a) /\ w = <<Copy(Other(s), p)>>
  \/ /\ b # None /\ a.kind = "link" /\ b.kind \in {"file", "link"}
     /\ \/ Better(a, b) /\ w = <<Link(s, p, a)>>
        \/ b.kind = "link" /\ Better(b, a) /\ w = <<Link(Other(s), p, b)>>
        \/ b.kind = "file" /\ Better(b, a) /\ w = <<Delete(s, p), Copy(Other(s), p)>>

LEMMA PrintedIs ==
  ASSUME NEW s \in Sides, NEW p, NEW a \in Thing, NEW b \in Thing,
         mode \in {"union", "intersect"}, a # None, a.kind # "none"
  PROVE  Outcome(Printed(s, p, a, b), s, p, a, b)
<1>1. /\ a.kind \in {"dir", "file", "link"} /\ a.time \in Nat /\ a.size \in Nat
      /\ b.kind \in {"none", "dir", "file", "link"} /\ b.time \in Nat /\ b.size \in Nat
      /\ b.kind = "none" <=> b = None
  BY ThingIs
<1>2. s = 1 => Other(s) = 2
  BY DEF Other
<1>3. CASE a.kind = "dir"
  <2>1. Printed(s, p, a, b) = IF mode = "union" THEN SyncDir(s, p, b) ELSE IntersectDir(s, p, b)
    BY <1>3 DEF Printed
  <2>2. QED
    BY <1>3, <2>1 DEF Outcome, SyncDir, IntersectDir
<1>4. CASE a.kind = "file"
  <2>1. Printed(s, p, a, b) = IF mode = "union" THEN SyncFile(s, p, a, b) ELSE IntersectFile(s, p, a, b)
    BY <1>4 DEF Printed
  <2>2. CASE b = None
    <3>1. SyncFile(s, p, a, b) = <<Copy(s, p)>> /\ IntersectFile(s, p, a, b) = <<Delete(s, p)>>
      BY <1>1, <2>2 DEF SyncFile, IntersectFile
    <3>2. QED
      BY <1>4, <2>1, <2>2, <3>1 DEF Outcome
  <2>3. CASE b # None /\ s = 1 /\ b.kind = "file"
    <3>1. /\ Newer(a, b) => Better(a, b) \/ mode = "intersect"
          /\ Newer(b, a) => Better(b, a) \/ mode = "intersect"
          /\ Newer(b, a) => Better(a, b) \/ mode = "union"
          /\ Newer(a, b) => Better(b, a) \/ mode = "union"
      BY <1>1, <1>4, <2>3 DEF Newer, Better, MoreRecent
    <3>2. \/ SyncFile(s, p, a, b) = << >>
          \/ SyncFile(s, p, a, b) = <<Copy(1, p)>> /\ Newer(a, b)
          \/ SyncFile(s, p, a, b) = <<Copy(2, p)>> /\ Newer(b, a)
      BY <2>3 DEF SyncFile
    <3>3. \/ IntersectFile(s, p, a, b) = << >>
          \/ IntersectFile(s, p, a, b) = <<Copy(1, p)>> /\ Newer(b, a)
          \/ IntersectFile(s, p, a, b) = <<Copy(2, p)>> /\ Newer(a, b)
      BY <2>3 DEF IntersectFile
    <3>4. QED
      BY <1>2, <1>4, <2>1, <2>3, <3>1, <3>2, <3>3 DEF Outcome
  <2>4. CASE b # None /\ ~ (s = 1 /\ b.kind = "file")
    <3>1. SyncFile(s, p, a, b) = << >> /\ IntersectFile(s, p, a, b) = << >>
      BY <2>4 DEF SyncFile, IntersectFile
    <3>2. QED
      BY <2>1, <3>1 DEF Outcome
  <2>5. QED
    BY <2>2, <2>3, <2>4
<1>5. CASE a.kind = "link"
  <2>1. Printed(s, p, a, b) = IF mode = "union" THEN SyncLink(s, p, a, b) ELSE IntersectLink(s, p, a, b)
    BY <1>5 DEF Printed
  <2>2. CASE b = None
    <3>1. SyncLink(s, p, a, b) = <<Link(s, p, a)>> /\ IntersectLink(s, p, a, b) = <<Delete(s, p)>>
      BY <1>1, <2>2 DEF SyncLink, IntersectLink
    <3>2. QED
      BY <1>5, <2>1, <2>2, <3>1 DEF Outcome
  <2>3. CASE b # None /\ s = 1 /\ b.kind = "link"
    <3>1. /\ Newer(a, b) => Better(a, b) \/ mode = "intersect"
          /\ ~ Newer(a, b) => Better(b, a) \/ mode = "intersect"
          /\ Newer(b, a) => Better(a, b) \/ mode = "union"
          /\ ~ Newer(b, a) => Better(b, a) \/ mode = "union"
      BY <1>1, <1>5, <2>3 DEF Newer, Better, MoreRecent
    <3>2. /\ SyncLink(s, p, a, b) = IF Newer(a, b) THEN <<Link(1, p, a)>> ELSE <<Link(2, p, b)>>
          /\ IntersectLink(s, p, a, b) = IF Newer(b, a) THEN <<Link(1, p, a)>> ELSE <<Link(2, p, b)>>
      BY <2>3 DEF SyncLink, IntersectLink
    <3>3. QED
      BY <1>2, <1>5, <2>1, <2>3, <3>1, <3>2 DEF Outcome
  <2>4. CASE b # None /\ b.kind = "file"
    <3>1. /\ a.time > b.time => Better(a, b) \/ mode = "intersect"
          /\ ~ (a.time > b.time) => Better(b, a) \/ mode = "intersect"
          /\ b.time < a.time => Better(b, a) \/ mode = "union"
          /\ ~ (b.time < a.time) => Better(a, b) \/ mode = "union"
      BY <1>1, <1>5, <2>4 DEF Better, MoreRecent
    <3>2. /\ SyncLink(s, p, a, b) =
               IF a.time > b.time THEN <<Link(s, p, a)>> ELSE <<Delete(s, p), Copy(Other(s), p)>>
          /\ IntersectLink(s, p, a, b) =
               IF b.time < a.time THEN <<Delete(s, p), Copy(Other(s), p)>> ELSE <<Link(s, p, a)>>
      BY <2>4 DEF SyncLink, IntersectLink
    <3>3. QED
      BY <1>5, <2>1, <2>4, <3>1, <3>2 DEF Outcome
  <2>5. CASE b # None /\ b.kind # "file" /\ ~ (s = 1 /\ b.kind = "link")
    <3>1. SyncLink(s, p, a, b) = << >> /\ IntersectLink(s, p, a, b) = << >>
      BY <2>5 DEF SyncLink, IntersectLink
    <3>2. QED
      BY <2>1, <3>1 DEF Outcome
  <2>6. QED
    BY <2>2, <2>3, <2>4, <2>5
<1>6. QED
  BY <1>1, <1>3, <1>4, <1>5

-----------------------------------------------------------------------------
(* The walk and the script *)

Call == [loop : 1 .. 6, left : SUBSET Paths, list : [Sides -> SUBSET Paths]]

Order == [do : {"cp -rp", "cp", "ln", "rm", "rm -rf"}, side : Sides, path : Paths, entry : Thing]

Forests == {t \in [Sides -> [Paths -> Thing]] : \A s \in Sides : WellFormed(t[s])}

Types ==
  /\ mode \in {"union", "intersect"}
  /\ runs \in 1 .. MaxRuns
  /\ strayed \subseteq Paths
  /\ frames \in Seq(Call)
  /\ script \in Seq(Order)
  /\ tree \in Forests /\ base \in Forests

(* The calls go down one path; where a call has gone down, it will not go  *)
(* down again.                                                             *)
Walk ==
  /\ \A i \in 1 .. Len(frames) :
       /\ i < Len(frames) => frames[i].loop = 1
       /\ frames[i].left \subseteq frames[i].list[SideOf(frames[i].loop)]
       /\ \A s \in Sides : \A p \in frames[i].list[s] : Depth(p) = i
  /\ \A n \in 1 .. Len(frames) : \A i \in 1 .. n - 1 : \A s \in Sides :
       \A p \in frames[n].list[s], q \in frames[i].left : ~ IsStrictPrefix(q, p)

(* The walk has yet to enter a directory above p. *)
Ahead(p) ==
  \E i \in 1 .. Len(frames) :
    frames[i].loop = 1 /\ \E q \in frames[i].left : IsStrictPrefix(q, p)

(* A command that the walk may print about p. *)
Proper(c, p) ==
  /\ c.path = p
  /\ c.do = "ln" => c.entry.kind = "link"
  /\ c.do = "cp -rp" => mode = "union"
  /\ c.do = "rm -rf" => mode = "intersect"

Commands ==
  \A i \in 1 .. Len(script) :
    Proper(script[i], script[i].path) /\ ~ Ahead(script[i].path)

WalkInv == Types /\ Walk /\ Commands

LEMMA InitialThings == Entries \subseteq Thing
<1>1. Things(0 .. LastTime) \subseteq Thing
  BY SynchronizeAssumption DEF Thing, Things
<1>2. None \in Thing
  BY DEF Thing, Things
<1>3. \A p \in Paths : Holds[p] \subseteq Things(0 .. LastTime)
  BY SynchronizeAssumption
<1>4. QED
  BY <1>1, <1>2, <1>3 DEF Entries

LEMMA LstatIs ==
  ASSUME tree \in Forests, NEW s \in Sides, NEW p \in Paths, NEW a \in Lstat(s, p)
  PROVE  a \in Thing /\ a # None /\ (tree[s][p] # None => a = tree[s][p])
<1>1. Dir \in Thing /\ Dir # None
  BY DEF Thing, Things, Dir, None
<1>2. tree[s][p] \in Thing
  BY DEF Forests
<1>3. QED
  BY <1>1, <1>2, InitialThings DEF Lstat

LEMMA EnterIs ==
  ASSUME NEW d
  PROVE  /\ Enter(d) \in Call
         /\ Enter(d).loop = 1 /\ Enter(d).left = Enter(d).list[1]
         /\ \A s \in Sides : \A p : p \in Enter(d).list[s] <=>
              p \in Paths /\ Parent(p) = d /\ tree[s][p] # None
<1>1. /\ Listing(d) \in [Sides -> SUBSET Paths]
      /\ \A s \in Sides : Listing(d)[s] = {p \in Paths : Parent(p) = d /\ tree[s][p] # None}
  BY DEF Listing
<1>2. 1 \in Sides
  BY DEF Sides
<1>3. QED
  BY <1>1, <1>2 DEF Enter, Call

LEMMA InnerIs ==
  ASSUME Types, Walk, frames # << >>, NEW n, n = Len(frames)
  PROVE  /\ n \in Nat /\ 1 <= n /\ frames[n] \in Call /\ Inner = frames[n]
         /\ SideOf(frames[n].loop) \in Sides
         /\ frames[n].left \subseteq frames[n].list[SideOf(frames[n].loop)]
         /\ frames[n].list[SideOf(frames[n].loop)] \subseteq Paths
<1>1. n \in Nat /\ 1 <= n
  BY EmptySeq DEF Types
<1>2. frames[n] \in Call /\ Inner = frames[n]
  BY <1>1 DEF Types, Inner, Last
<1>3. SideOf(frames[n].loop) \in Sides
  BY DEF SideOf, Sides
<1>4. QED
  BY <1>1, <1>2, <1>3 DEF Walk, Call

LEMMA VisitIs ==
  ASSUME Types, Walk, NEW p \in Paths, Visit(p), NEW n, n = Len(frames),
         NEW s, s = SideOf(frames[n].loop)
  PROVE  /\ n \in Nat /\ 1 <= n /\ frames[n] \in Call /\ s \in Sides
         /\ p \in frames[n].left /\ p \in frames[n].list[s] /\ Depth(p) = n
         /\ UNCHANGED <<mode, tree, runs, base, strayed>>
         /\ frames' \in Seq(Call) /\ n <= Len(frames') /\ Len(frames') <= n + 1
         /\ \A i \in 1 .. n : i < n => frames'[i] = frames[i]
         /\ frames'[n].loop = frames[n].loop /\ frames'[n].list = frames[n].list
         /\ frames'[n].left = frames[n].left \ {p}
         /\ n < Len(frames') => frames[n].loop = 1 /\ frames'[n + 1] = Enter(p)
         /\ \/ script' = script
            \/ \E a \in Lstat(s, p),
                  b \in IF p \in frames[n].list[Other(s)] THEN Lstat(Other(s), p) ELSE {None} :
                 a.kind = KindOf(frames[n].loop) /\ script' = script \o Printed(s, p, a, b)
<1> DEFINE rest == [frames EXCEPT ![n].left = @ \ {p}]
<1>1. /\ n \in Nat /\ 1 <= n /\ frames[n] \in Call /\ s \in Sides /\ Inner = frames[n]
      /\ frames[n].left \subseteq frames[n].list[s]
  BY InnerIs DEF Visit
<1>2. p \in frames[n].left /\ UNCHANGED <<mode, tree, runs, base, strayed>>
  BY <1>1 DEF Visit
<1>3. Depth(p) = n
  BY <1>1, <1>2 DEF Walk
<1>4. /\ rest \in Seq(Call) /\ Len(rest) = n
      /\ \A i \in 1 .. n : i < n => rest[i] = frames[i]
      /\ rest[n].loop = frames[n].loop /\ rest[n].list = frames[n].list
      /\ rest[n].left = frames[n].left \ {p}
  <2>1. [frames[n] EXCEPT !.left = @ \ {p}] \in Call
    BY <1>1 DEF Call
  <2>2. frames \in Seq(Call) /\ n \in 1 .. Len(frames)
    BY <1>1 DEF Types
  <2>3. rest \in Seq(Call)
    BY <2>1, <2>2
  <2>4. QED
    BY <1>1, <2>2, <2>3 DEF Call
<1> HIDE DEF rest
<1>5. \/ frames' = rest
      \/ frames[n].loop = 1 /\ frames' = Append(rest, Enter(p))
  BY <1>1 DEF Visit, rest
<1>6. /\ frames' \in Seq(Call) /\ n <= Len(frames') /\ Len(frames') <= n + 1
      /\ \A i \in 1 .. n : frames'[i] = rest[i]
      /\ n < Len(frames') => frames[n].loop = 1 /\ frames'[n + 1] = Enter(p)
  <2>1. CASE frames' = rest
    BY <1>1, <1>4, <2>1
  <2>2. CASE frames[n].loop = 1 /\ frames' = Append(rest, Enter(p))
    BY <1>1, <1>4, <2>2, EnterIs, AppendProperties
  <2>3. QED
    BY <1>5, <2>1, <2>2
<1>7. \/ script' = script
      \/ \E a \in Lstat(s, p),
            b \in IF p \in frames[n].list[Other(s)] THEN Lstat(Other(s), p) ELSE {None} :
           a.kind = KindOf(frames[n].loop) /\ script' = script \o Printed(s, p, a, b)
  BY <1>1 DEF Visit
<1>8. QED
  BY <1>1, <1>2, <1>3, <1>4, <1>6, <1>7

-----------------------------------------------------------------------------
(* A command that is run *)

LEMMA OneOrTwo ==
  ASSUME NEW S, NEW c \in S, NEW d \in S
  PROVE  /\ <<c>> \in Seq(S) /\ \A i \in 1 .. Len(<<c>>) : i = 1 /\ <<c>>[i] = c
         /\ <<c, d>> \in Seq(S)
         /\ \A i \in 1 .. Len(<<c, d>>) : (i = 1 /\ <<c, d>>[i] = c) \/ (i = 2 /\ <<c, d>>[i] = d)
<1>1. <<c>> \in Seq(S) /\ <<c, d>> \in Seq(S)
  OBVIOUS
<1>2. \A i \in 1 .. 1 : i = 1 /\ <<c>>[i] = c
  OBVIOUS
<1>3. \A i \in 1 .. 2 : (i = 1 /\ <<c, d>>[i] = c) \/ (i = 2 /\ <<c, d>>[i] = d)
  OBVIOUS
<1>4. Len(<<c>>) = 1 /\ Len(<<c, d>>) = 2
  OBVIOUS
<1>5. QED
  BY <1>1, <1>2, <1>3, <1>4

LEMMA CommandsAre ==
  ASSUME NEW s \in Sides, NEW p \in Paths
  PROVE  /\ CopyTree(s, p) \in Order /\ Copy(s, p) \in Order
         /\ Delete(s, p) \in Order /\ DeleteTree(s, p) \in Order
         /\ mode = "union" => Proper(CopyTree(s, p), p)
         /\ mode = "intersect" => Proper(DeleteTree(s, p), p)
         /\ Proper(Copy(s, p), p) /\ Proper(Delete(s, p), p)
         /\ \A e \in Thing : e.kind = "link" =>
              Link(s, p, e) \in Order /\ Proper(Link(s, p, e), p)
<1>1. None \in Thing
  BY DEF Thing, Things
<1>2. QED
  BY <1>1 DEF CopyTree, Copy, Link, Delete, DeleteTree, Command, Order, Proper

(* The commands of a call are about the entry it visits. *)
LEMMA OutcomeIs ==
  ASSUME NEW w, NEW s \in Sides, NEW p \in Paths, NEW a \in Thing, NEW b \in Thing,
         Outcome(w, s, p, a, b)
  PROVE  w \in Seq(Order) /\ \A i \in 1 .. Len(w) : Proper(w[i], p)
<1> DEFINE Goal == w \in Seq(Order) /\ \A i \in 1 .. Len(w) : Proper(w[i], p)
<1>1. Other(s) \in Sides
  BY SidesAre
<1>2. CASE w = << >>
  BY <1>2
<1>3. ASSUME NEW c \in Order, Proper(c, p), w = <<c>> PROVE Goal
  BY <1>3, OneOrTwo
<1>4. ASSUME NEW c \in Order, NEW d \in Order, Proper(c, p), Proper(d, p), w = <<c, d>>
      PROVE  Goal
  BY <1>4, OneOrTwo
<1> HIDE DEF Goal
<1>5. ASSUME NEW t \in Sides, w = <<Copy(t, p)>> \/ w = <<Delete(t, p)>> PROVE Goal
  BY <1>3, <1>5, CommandsAre
<1>6. ASSUME NEW t \in Sides, NEW e \in Thing, e.kind = "link", w = <<Link(t, p, e)>>
      PROVE  Goal
  BY <1>3, <1>6, CommandsAre
<1>7. CASE mode = "union" /\ w = <<CopyTree(s, p)>>
  BY <1>3, <1>7, CommandsAre
<1>8. CASE mode = "intersect" /\ w = <<DeleteTree(s, p)>>
  BY <1>3, <1>8, CommandsAre
<1>9. CASE w = <<Delete(s, p), Copy(Other(s), p)>>
  BY <1>1, <1>4, <1>9, CommandsAre
<1>10. Goal
  BY <1>1, <1>2, <1>5, <1>6, <1>7, <1>8, <1>9 DEF Outcome, Goal
<1>11. QED
  BY <1>10 DEF Goal

LEMMA ExecuteIs ==
  ASSUME Types, Execute, NEW c, c = script[1]
  PROVE  /\ c \in Order /\ 1 \in 1 .. Len(script)
         /\ script' \in Seq(Order)
         /\ \A i \in 1 .. Len(script') : i + 1 \in 1 .. Len(script) /\ script'[i] = script[i + 1]
         /\ \A i \in 1 .. Len(script) : i # 1 => i - 1 \in 1 .. Len(script') /\ script'[i - 1] = script[i]
         /\ UNCHANGED <<mode, frames, runs, base>>
         /\ \/ Strays(c) /\ strayed' = strayed \cup {c.path} /\ tree' = tree
            \/ ~ Strays(c) /\ Fails(c) /\ strayed' = strayed /\ tree' = tree
            \/ ~ Strays(c) /\ ~ Fails(c) /\ strayed' = strayed /\ tree' = Ran(c)
<1>1. /\ script \in Seq(Order) /\ script # << >> /\ script' = Tail(script)
      /\ UNCHANGED <<mode, frames, runs, base>>
  BY DEF Types, Execute
<1>2. Len(script) \in Nat /\ 1 <= Len(script)
  BY <1>1, EmptySeq
<1>3. /\ Head(script) = c /\ c \in Order
      /\ script' \in Seq(Order)
      /\ \A i \in 1 .. Len(script') : i + 1 \in 1 .. Len(script) /\ script'[i] = script[i + 1]
      /\ \A i \in 1 .. Len(script) : i # 1 => i - 1 \in 1 .. Len(script') /\ script'[i - 1] = script[i]
  BY <1>1, <1>2, HeadTailProperties
<1>4. QED
  BY <1>1, <1>2, <1>3 DEF Execute

LEMMA RanIs ==
  ASSUME tree \in Forests, NEW c \in Order
  PROVE  /\ SideTo(c) \in Sides
         /\ DOMAIN Ran(c) = Sides
         /\ Ran(c)[Other(SideTo(c))] = tree[Other(SideTo(c))]
         /\ DOMAIN Ran(c)[SideTo(c)] = Paths
         /\ \A q \in Paths :
              Ran(c)[SideTo(c)][q] = IF q \in Written(c) THEN Left(c, q) ELSE tree[SideTo(c)][q]
<1>1. c.side \in Sides /\ SideTo(c) \in Sides
  BY SidesAre DEF Order, SideTo
<1>2. tree \in [Sides -> [Paths -> Thing]]
  BY DEF Forests
<1>3. Other(SideTo(c)) \in Sides /\ Other(SideTo(c)) # SideTo(c)
  BY <1>1, SidesAre
<1>4. QED
  BY <1>1, <1>2, <1>3 DEF Ran

(* What a command leaves is one of these. *)
LEMMA LeftIs ==
  ASSUME tree \in Forests, runs \in Nat, NEW c \in Order, NEW q \in Paths,
         c.do = "ln" => c.entry.kind = "link"
  PROVE  /\ Left(c, q) \in Thing
         /\ c.do \in {"cp", "cp -rp"} => Left(c, q) = tree[c.side][q]
         /\ c.do \in {"rm", "rm -rf"} => Left(c, q) = None
         /\ c.do = "ln" => Left(c, q) = [c.entry EXCEPT !.time = LastTime + runs]
<1>1. CASE c.do \in {"cp", "cp -rp"}
  <2>1. Left(c, q) = tree[c.side][q]
    BY <1>1 DEF Left
  <2>2. c.side \in Sides /\ tree \in [Sides -> [Paths -> Thing]]
    BY DEF Order, Forests
  <2>3. tree[c.side][q] \in Thing
    BY <2>2
  <2>4. QED
    BY <1>1, <2>1, <2>3
<1>2. CASE c.do \in {"rm", "rm -rf"}
  <2>1. Left(c, q) = None
    BY <1>2 DEF Left
  <2>2. QED
    BY <1>2, <2>1 DEF Thing, Things
<1>3. CASE c.do = "ln"
  <2>1. Left(c, q) = [c.entry EXCEPT !.time = LastTime + runs]
    BY <1>3 DEF Left
  <2>2. c.entry \in Thing /\ c.entry.kind = "link"
    BY <1>3 DEF Order
  <2>3. None.kind # "link" /\ Dir.kind # "link"
    BY DEF None, Dir
  <2>4. c.entry \in [kind : {"file", "link"}, time : Nat, size : Nat, what : STRING]
    BY <2>2, <2>3 DEF Thing, Things
  <2>5. LastTime + runs \in Nat
    BY SynchronizeAssumption
  <2>6. [c.entry EXCEPT !.time = LastTime + runs] \in Thing
    BY <2>4, <2>5 DEF Thing, Things
  <2>7. QED
    BY <1>3, <2>1, <2>6
<1>4. QED
  BY <1>1, <1>2, <1>3 DEF Order

LEMMA RanTyped ==
  ASSUME tree \in Forests, runs \in Nat, NEW c \in Order, Proper(c, c.path)
  PROVE  Ran(c) \in [Sides -> [Paths -> Thing]]
<1> DEFINE t == SideTo(c)
<1>1. /\ t \in Sides /\ DOMAIN Ran(c) = Sides /\ DOMAIN Ran(c)[t] = Paths
      /\ Ran(c)[Other(t)] = tree[Other(t)]
      /\ \A q \in Paths : Ran(c)[t][q] = IF q \in Written(c) THEN Left(c, q) ELSE tree[t][q]
  BY RanIs
<1>2. tree \in [Sides -> [Paths -> Thing]]
  BY DEF Forests
<1>3. ASSUME NEW q \in Paths PROVE Ran(c)[t][q] \in Thing
  <2>1. Left(c, q) \in Thing
    BY LeftIs DEF Proper
  <2>2. tree[t][q] \in Thing
    BY <1>1, <1>2
  <2>3. QED
    BY <1>1, <2>1, <2>2
<1>4. Ran(c) = [tree EXCEPT ![t] = [q \in Paths |-> IF q \in Written(c) THEN Left(c, q) ELSE @[q]]]
  BY DEF Ran
<1>5. Ran(c)[t] \in [Paths -> Thing]
  <2>1. Ran(c)[t] = [q \in Paths |-> IF q \in Written(c) THEN Left(c, q) ELSE tree[t][q]]
    BY <1>1, <1>2, <1>4
  <2>2. QED
    BY <1>1, <1>3, <2>1
<1> HIDE DEF t
<1>6. Ran(c) = [tree EXCEPT ![t] = Ran(c)[t]]
  BY <1>1, <1>2, <1>4
<1>7. QED
  BY <1>1, <1>2, <1>5, <1>6

(* A command that neither strays nor fails leaves a tree: where it writes  *)
(* one path there is no directory, and the path is in directories.         *)
LEMMA RanWellFormed ==
  ASSUME tree \in Forests, runs \in Nat, NEW c \in Order, Proper(c, c.path),
         ~ Strays(c), ~ Fails(c)
  PROVE  Ran(c) \in Forests
<1> DEFINE t == SideTo(c)
           old == tree[t]
           new == Ran(c)[t]
           r == c.path
<1>1. /\ t \in Sides /\ DOMAIN Ran(c) = Sides
      /\ Ran(c)[Other(t)] = tree[Other(t)]
      /\ \A q \in Paths : new[q] = IF q \in Written(c) THEN Left(c, q) ELSE old[q]
  BY RanIs
<1>2. /\ r \in Paths /\ c.side \in Sides /\ c.do \in {"cp -rp", "cp", "ln", "rm", "rm -rf"}
      /\ tree \in [Sides -> [Paths -> Thing]]
      /\ \A s \in Sides : \A p, q \in Paths :
           tree[s][p] # None /\ IsStrictPrefix(q, p) => tree[s][q] = Dir
  BY DEF Order, Forests, WellFormed
<1>3. Dir # None /\ Dir.kind = "dir" /\ None.kind = "none"
  BY DEF Dir, None
<1>4. ASSUME NEW q \in Paths, IsStrictPrefix(q, r)
      PROVE  old[q] = Dir /\ q \notin Written(c)
  <2>1. 1 < Depth(r) /\ (q = Parent(r) \/ IsStrictPrefix(q, Parent(r)))
    BY <1>2, <1>4, AboveIs DEF Depth
  <2>2. Parent(r) \in Paths /\ Parent(r) # Root
    <3>1. 1 < Depth(r) => Parent(r) \in Paths
      BY <1>2, DepthIs
    <3>2. (Parent(r) = Root <=> Depth(r) = 1) /\ Depth(r) \in Nat
      BY <1>2, DepthIs
    <3>3. Depth(r) # 1
      BY <2>1, <3>2
    <3>4. QED
      BY <2>1, <3>1, <3>2, <3>3
  <2>3. old[Parent(r)] = Dir
    BY <2>2 DEF Fails
  <2>4. old[q] = Dir
    BY <1>1, <1>2, <1>3, <2>1, <2>2, <2>3
  <2>5. q # r /\ ~ IsStrictPrefix(r, q)
    BY <1>2, <1>4, DepthIs, PrefixesOfPrefix
  <2>6. QED
    BY <1>2, <2>4, <2>5, UnderIs DEF Written
<1>5. ASSUME c.do \in {"cp", "ln", "rm"}
      PROVE  \A p, q \in Paths : new[p] # None /\ IsStrictPrefix(q, p) => new[q] = Dir
  <2>1. Written(c) = {r}
    BY <1>5 DEF Written
  <2>2. old[r] # Dir
    <3>1. c.do = "cp" => Source(c).kind = "file"
      <4>1. tree[c.side][r] \in Thing
        BY <1>2
      <4>2. Source(c).kind \in {"none", "dir", "file", "link"}
        BY <4>1, ThingIs DEF Source
      <4>3. QED
        BY <4>2 DEF Strays, Fails
    <3>2. Target(c) = old[r]
      BY DEF Target
    <3>3. QED
      BY <1>3, <1>5, <3>1, <3>2 DEF Strays, Fails
  <2>3. \A q \in Paths : q # r => new[q] = old[q]
    BY <1>1, <2>1
  <2>4. ASSUME NEW p \in Paths, NEW q \in Paths, new[p] # None, IsStrictPrefix(q, p)
        PROVE  new[q] = Dir
    <3>1. CASE p = r
      <4>1. old[q] = Dir /\ q # r
        BY <1>4, <2>1, <2>4, <3>1
      <4>2. QED
        BY <2>3, <4>1
    <3>2. CASE p # r
      <4>1. old[q] = Dir
        BY <1>1, <1>2, <2>3, <2>4, <3>2
      <4>2. QED
        BY <2>2, <2>3, <4>1
    <3>3. QED
      BY <3>1, <3>2
  <2>5. QED
    BY <2>4
<1>6. ASSUME c.do \in {"cp -rp", "rm -rf"}
      PROVE  \A p, q \in Paths : new[p] # None /\ IsStrictPrefix(q, p) => new[q] = Dir
  <2>1. /\ \A q \in Paths : q \in Written(c) <=> q = r \/ IsStrictPrefix(r, q)
    BY <1>2, <1>6, UnderIs DEF Written
  <2>2. \A p, q \in Paths : p \notin Written(c) /\ IsStrictPrefix(q, p) => q \notin Written(c)
    BY <1>2, <2>1, PrefixesOfPrefix
  <2>3. ASSUME NEW p \in Paths, NEW q \in Paths, new[p] # None, IsStrictPrefix(q, p)
        PROVE  new[q] = Dir
    <3>1. CASE p \notin Written(c)
      <4>1. new[p] = old[p] /\ new[q] = old[q]
        BY <1>1, <2>2, <2>3, <3>1
      <4>2. QED
        BY <1>1, <1>2, <2>3, <4>1
    <3>2. CASE p \in Written(c) /\ c.do = "cp -rp"
      <4>1. new[p] = tree[c.side][p]
        BY <1>1, <3>2, LeftIs DEF Proper
      <4>2. tree[c.side][q] = Dir
        BY <1>2, <2>3, <4>1
      <4>3. CASE q \in Written(c)
        BY <1>1, <3>2, <4>2, <4>3, LeftIs DEF Proper
      <4>4. CASE q \notin Written(c)
        <5>1. IsStrictPrefix(q, r)
          BY <1>2, <2>1, <2>3, <3>2, <4>4, PrefixesInLine
        <5>2. QED
          BY <1>1, <1>4, <5>1
      <4>5. QED
        BY <4>3, <4>4
    <3>3. CASE p \in Written(c) /\ c.do = "rm -rf"
      <4>1. new[p] = None
        BY <1>1, <3>3, LeftIs DEF Proper
      <4>2. QED
        BY <2>3, <4>1
    <3>4. QED
      BY <1>6, <3>1, <3>2, <3>3
  <2>4. QED
    BY <2>3
<1>7. \A p, q \in Paths : new[p] # None /\ IsStrictPrefix(q, p) => new[q] = Dir
  BY <1>2, <1>5, <1>6
<1>8. \A s \in Sides : WellFormed(Ran(c)[s])
  <2>1. \A s \in Sides : s = t \/ s = Other(t)
    BY <1>1, SidesAre
  <2>2. WellFormed(new)
    BY <1>7 DEF WellFormed
  <2>3. \A s \in Sides : WellFormed(tree[s])
    BY DEF Forests
  <2>4. QED
    BY <1>1, <2>1, <2>2, <2>3, SidesAre
<1>9. QED
  BY <1>8, RanTyped DEF Forests

-----------------------------------------------------------------------------
(* The walk goes on *)

LEMMA ChildIs ==
  ASSUME NEW p \in Paths, NEW x \in Paths, Parent(x) = p
  PROVE  /\ Depth(x) = Depth(p) + 1 /\ IsStrictPrefix(p, x)
         /\ \A q \in Paths : IsStrictPrefix(q, x) => q = p \/ IsStrictPrefix(q, p)
<1>1. /\ Depth(p) \in Nat /\ 1 <= Depth(p) /\ Depth(x) \in Nat /\ 1 <= Depth(x)
      /\ Parent(x) = Root <=> Depth(x) = 1
      /\ 1 < Depth(x) => Depth(Parent(x)) = Depth(x) - 1 /\ IsStrictPrefix(Parent(x), x)
  BY DepthIs
<1>2. p # Root
  BY SynchronizeAssumption DEF Root
<1>3. 1 < Depth(x)
  BY <1>1, <1>2
<1>4. QED
  BY <1>1, <1>3, AboveIs

LEMMA RootEntered ==
  ASSUME NEW f, f = <<Enter(Root)>>
  PROVE  /\ f \in Seq(Call) /\ \A i \in 1 .. Len(f) : i = 1 /\ f[i] = Enter(Root)
         /\ \A s \in Sides : \A p \in Enter(Root).list[s] : p \in Paths /\ Depth(p) = 1
<1>1. f \in Seq(Call) /\ \A i \in 1 .. Len(f) : i = 1 /\ f[i] = Enter(Root)
  BY EnterIs, OneOrTwo
<1>2. ASSUME NEW s \in Sides, NEW p \in Enter(Root).list[s] PROVE p \in Paths /\ Depth(p) = 1
  <2>1. p \in Paths /\ Parent(p) = Root
    BY EnterIs
  <2>2. QED
    BY <2>1, DepthIs
<1>3. QED
  BY <1>1, <1>2

LEMMA InitWalk == Init => WalkInv
<1> SUFFICES ASSUME Init PROVE WalkInv
  OBVIOUS
<1>1. tree \in Forests
  <2>1. \A s \in Sides : tree[s] \in [Paths -> Thing] /\ WellFormed(tree[s])
    BY InitialThings DEF Init, Trees
  <2>2. tree \in [Sides -> [Paths -> Thing]]
    BY <2>1 DEF Init
  <2>3. QED
    BY <2>1, <2>2 DEF Forests
<1>2. /\ frames \in Seq(Call) /\ \A i \in 1 .. Len(frames) : i = 1 /\ frames[i] = Enter(Root)
      /\ \A s \in Sides : \A p \in Enter(Root).list[s] : p \in Paths /\ Depth(p) = 1
      /\ Enter(Root).loop = 1 /\ Enter(Root).left = Enter(Root).list[1]
  BY RootEntered, EnterIs DEF Init
<1>3. Types
  <2>1. runs \in 1 .. MaxRuns
    BY SynchronizeAssumption DEF Init
  <2>2. QED
    BY <1>1, <1>2, <2>1 DEF Init, Types
<1>4. Walk
  <2>1. frames \in Seq(Call) /\ SideOf(1) = 1
    BY <1>2 DEF SideOf
  <2>2. ~ \E i, j \in 1 .. Len(frames) : i < j
    BY <1>2
  <2>3. Len(frames) \in Nat
    BY <1>2
  <2>4. QED
    BY <1>2, <2>1, <2>2, <2>3 DEF Walk
<1>5. Commands
  BY DEF Init, Commands
<1>6. QED
  BY <1>3, <1>4, <1>5 DEF WalkInv

LEMMA StartAgainWalk ==
  ASSUME WalkInv, StartAgain
  PROVE  WalkInv'
<1>1. /\ frames' \in Seq(Call) /\ \A i \in 1 .. Len(frames') : i = 1 /\ frames'[i] = Enter(Root)
      /\ \A s \in Sides : \A p \in Enter(Root).list[s] : p \in Paths /\ Depth(p) = 1
      /\ Enter(Root).loop = 1 /\ Enter(Root).left = Enter(Root).list[1]
  BY RootEntered, EnterIs DEF StartAgain
<1>2. Types'
  <2>1. runs' \in 1 .. MaxRuns
    BY SynchronizeAssumption DEF StartAgain, WalkInv, Types
  <2>2. script' \in Seq(Order)
    BY DEF StartAgain
  <2>3. base' \in Forests
    BY DEF StartAgain, WalkInv, Types
  <2>4. QED
    BY <1>1, <2>1, <2>2, <2>3 DEF StartAgain, WalkInv, Types
<1>3. Walk'
  <2>1. SideOf(1) = 1 /\ Len(frames') \in Nat
    BY <1>1 DEF SideOf
  <2>2. ~ \E i, j \in 1 .. Len(frames') : i < j
    BY <1>1
  <2>3. QED
    BY <1>1, <2>1, <2>2 DEF Walk
<1>4. Commands'
  BY DEF StartAgain, Commands
<1>5. QED
  BY <1>2, <1>3, <1>4 DEF WalkInv

(* The walk does not come to be ahead of a path again. *)
LEMMA AheadStays ==
  ASSUME Types, Walk, \/ \E p \in Paths : Visit(p)
                      \/ NextLoop
                      \/ Return
                      \/ UNCHANGED frames,
         NEW y \in Paths, Ahead(y)'
  PROVE  Ahead(y)
<1> USE DEF Types
<1>1. PICK i \in 1 .. Len(frames') : \E q \in frames'[i].left :
        frames'[i].loop = 1 /\ IsStrictPrefix(q, y)
  BY DEF Ahead
<1>2. PICK q \in frames'[i].left : frames'[i].loop = 1 /\ IsStrictPrefix(q, y)
  BY <1>1
<1> DEFINE n == Len(frames)
<1>3. CASE \E p \in Paths : Visit(p)
  <2>1. PICK p \in Paths : Visit(p)
    BY <1>3
  <2>2. /\ n \in Nat /\ 1 <= n /\ p \in frames[n].left
        /\ frames' \in Seq(Call) /\ n <= Len(frames') /\ Len(frames') <= n + 1
        /\ \A j \in 1 .. n : j < n => frames'[j] = frames[j]
        /\ frames'[n].loop = frames[n].loop
        /\ frames'[n].left = frames[n].left \ {p}
        /\ n < Len(frames') => frames[n].loop = 1 /\ frames'[n + 1] = Enter(p)
    BY <2>1, VisitIs
  <2>3. CASE i < n
    BY <1>2, <2>2, <2>3 DEF Ahead
  <2>4. CASE i = n
    BY <1>2, <2>2, <2>4 DEF Ahead
  <2>5. CASE n < i
    <3>1. i = n + 1 /\ frames[n].loop = 1 /\ q \in Enter(p).left
      BY <1>2, <2>2, <2>5
    <3>2. q \in Paths /\ Parent(q) = p
      BY <3>1, EnterIs DEF Sides
    <3>3. IsStrictPrefix(p, y)
      BY <1>2, <3>2, ChildIs, PrefixesOfPrefix
    <3>4. QED
      BY <2>2, <3>1, <3>3 DEF Ahead
  <2>6. QED
    BY <2>2, <2>3, <2>4, <2>5
<1>4. CASE NextLoop
  <2>1. /\ n \in Nat /\ 1 <= n /\ frames[n] \in Call /\ Inner = frames[n]
    BY <1>4, InnerIs DEF NextLoop
  <2>2. i \in 1 .. n /\ (i # n => frames'[i] = frames[i]) /\ frames'[n].loop = frames[n].loop + 1
    BY <1>4, <2>1 DEF NextLoop, Call
  <2>3. i # n
    BY <1>2, <2>1, <2>2 DEF Call
  <2>4. QED
    BY <1>2, <2>2, <2>3 DEF Ahead
<1>5. CASE Return
  <2>1. /\ n \in Nat /\ 1 <= n
    BY <1>5, InnerIs DEF Return
  <2>2. i \in 1 .. n /\ frames'[i] = frames[i]
    BY <1>5, <2>1, SubSeqProperties DEF Return, Front
  <2>3. QED
    BY <1>2, <2>2 DEF Ahead
<1>6. CASE UNCHANGED frames
  BY <1>6 DEF Ahead
<1>7. QED
  BY <1>3, <1>4, <1>5, <1>6

(* What a call is about to visit is not below what another may visit. *)
LEMMA NotAhead ==
  ASSUME Types, Walk, NEW n \in 1 .. Len(frames), n = Len(frames),
         NEW s \in Sides, NEW p \in frames[n].list[s]
  PROVE  ~ Ahead(p)
<1> SUFFICES ASSUME NEW i \in 1 .. n, NEW q \in frames[i].left, IsStrictPrefix(q, p)
             PROVE  FALSE
  BY DEF Ahead
<1>1. frames[i] \in Call /\ frames[n] \in Call /\ SideOf(frames[i].loop) \in Sides
  BY DEF Types, SideOf, Sides
<1>2. p \in Paths /\ q \in Paths /\ q \in frames[i].list[SideOf(frames[i].loop)]
  BY <1>1 DEF Call, Walk
<1>3. CASE i < n
  BY <1>3 DEF Walk
<1>4. CASE i = n
  <2>1. Depth(q) = n /\ Depth(p) = n
    BY <1>1, <1>2, <1>4 DEF Walk
  <2>2. Depth(q) < Depth(p)
    BY <1>2, DepthIs
  <2>3. QED
    BY <2>1, <2>2
<1>5. QED
  BY <1>3, <1>4

LEMMA VisitWalk ==
  ASSUME WalkInv, NEW p \in Paths, Visit(p)
  PROVE  WalkInv'
<1> DEFINE n == Len(frames)
           s == SideOf(frames[n].loop)
<1>1. /\ Types /\ Walk /\ Commands
  BY DEF WalkInv
<1>2. /\ n \in Nat /\ 1 <= n /\ frames[n] \in Call /\ s \in Sides
      /\ p \in frames[n].left /\ p \in frames[n].list[s] /\ Depth(p) = n
      /\ UNCHANGED <<mode, tree, runs, base, strayed>>
      /\ frames' \in Seq(Call) /\ n <= Len(frames') /\ Len(frames') <= n + 1
      /\ \A i \in 1 .. n : i < n => frames'[i] = frames[i]
      /\ frames'[n].loop = frames[n].loop /\ frames'[n].list = frames[n].list
      /\ frames'[n].left = frames[n].left \ {p}
      /\ n < Len(frames') => frames[n].loop = 1 /\ frames'[n + 1] = Enter(p)
      /\ \/ script' = script
         \/ \E a \in Lstat(s, p),
               b \in IF p \in frames[n].list[Other(s)] THEN Lstat(Other(s), p) ELSE {None} :
              a.kind = KindOf(frames[n].loop) /\ script' = script \o Printed(s, p, a, b)
  BY <1>1, VisitIs
<1>3. /\ script' \in Seq(Order)
      /\ \A i \in 1 .. Len(script') :
           (i \in 1 .. Len(script) /\ script'[i] = script[i]) \/ Proper(script'[i], p)
  <2>1. CASE script' = script
    BY <1>1, <2>1 DEF Types
  <2>2. ASSUME NEW a \in Lstat(s, p),
               NEW b \in IF p \in frames[n].list[Other(s)] THEN Lstat(Other(s), p) ELSE {None},
               a.kind = KindOf(frames[n].loop), script' = script \o Printed(s, p, a, b)
        PROVE  /\ script' \in Seq(Order)
               /\ \A i \in 1 .. Len(script') :
                    (i \in 1 .. Len(script) /\ script'[i] = script[i]) \/ Proper(script'[i], p)
    <3>1. tree \in Forests /\ Other(s) \in Sides /\ None \in Thing
      BY <1>1, <1>2, SidesAre DEF Types, Thing, Things
    <3>2. a \in Thing /\ a # None /\ b \in Thing /\ a.kind # "none"
      BY <1>2, <2>2, <3>1, LstatIs, ThingIs
    <3>3. Outcome(Printed(s, p, a, b), s, p, a, b)
      BY <1>1, <1>2, <3>2, PrintedIs DEF Types
    <3>4. /\ Printed(s, p, a, b) \in Seq(Order)
          /\ \A i \in 1 .. Len(Printed(s, p, a, b)) : Proper(Printed(s, p, a, b)[i], p)
      BY <1>2, <3>2, <3>3, OutcomeIs
    <3>5. script \in Seq(Order)
      BY <1>1 DEF Types
    <3>6. QED
      BY <2>2, <3>4, <3>5, ConcatProperties
  <2>3. QED
    BY <1>2, <2>1, <2>2
<1>4. Types'
  BY <1>1, <1>2, <1>3 DEF Types
<1>5. Walk'
  <2>1. ASSUME NEW i \in 1 .. Len(frames')
        PROVE  /\ i < Len(frames') => frames'[i].loop = 1
               /\ frames'[i].left \subseteq frames'[i].list[SideOf(frames'[i].loop)]
               /\ \A t \in Sides : \A x \in frames'[i].list[t] : Depth(x) = i
    <3>1. CASE i < n
      BY <1>1, <1>2, <3>1 DEF Walk
    <3>2. CASE i = n
      BY <1>1, <1>2, <3>2 DEF Walk
    <3>3. CASE n < i
      <4>1. i = n + 1 /\ i = Len(frames') /\ frames'[i] = Enter(p)
        BY <1>2, <3>3
      <4>2. Enter(p).left \subseteq Enter(p).list[SideOf(Enter(p).loop)]
        BY EnterIs DEF SideOf
      <4>3. \A t \in Sides : \A x \in Enter(p).list[t] : Depth(x) = n + 1
        BY <1>2, EnterIs, ChildIs
      <4>4. QED
        BY <1>2, <4>1, <4>2, <4>3
    <3>4. QED
      BY <1>2, <3>1, <3>2, <3>3
  <2>2. ASSUME NEW m \in 1 .. Len(frames'), NEW i \in 1 .. m - 1, NEW t \in Sides,
               NEW x \in frames'[m].list[t], NEW q \in frames'[i].left
        PROVE  ~ IsStrictPrefix(q, x)
    <3>1. CASE m <= n
      BY <1>1, <1>2, <3>1 DEF Walk
    <3>2. CASE n < m
      <4>1. m = n + 1 /\ frames'[m] = Enter(p) /\ i \in 1 .. n
        BY <1>2, <3>2
      <4>2. x \in Paths /\ Parent(x) = p
        BY <4>1, EnterIs
      <4>3. q \in frames[i].left /\ (i = n => q # p)
        BY <1>2, <4>1
      <4>4. frames[i] \in Call /\ SideOf(frames[i].loop) \in Sides
        BY <1>1, <4>1 DEF Types, SideOf, Sides
      <4>5. q \in frames[i].list[SideOf(frames[i].loop)] /\ q \in Paths /\ Depth(q) = i
        BY <1>1, <4>1, <4>3, <4>4 DEF Walk, Call
      <4>6. q # p
        BY <1>2, <4>1, <4>3, <4>5
      <4>7. ~ IsStrictPrefix(q, p)
        <5>1. CASE i < n
          BY <1>1, <1>2, <4>1, <4>3, <5>1 DEF Walk
        <5>2. CASE i = n
          BY <1>2, <4>5, <5>2, DepthIs
        <5>3. QED
          BY <1>2, <4>1, <5>1, <5>2
      <4>8. QED
        BY <4>2, <4>5, <4>6, <4>7, ChildIs
    <3>3. QED
      BY <1>2, <3>1, <3>2
  <2>3. QED
    BY <2>1, <2>2 DEF Walk
<1>6. Commands'
  <2>1. ASSUME NEW i \in 1 .. Len(script'), NEW c \in Order, c = script'[i]
        PROVE  (Proper(c, c.path) /\ ~ Ahead(c.path))'
    <3>1. Proper(c, c.path)' <=> Proper(c, c.path)
      BY <1>2 DEF Proper
    <3>2. c.path \in Paths
      BY DEF Order
    <3>3. CASE i \in 1 .. Len(script) /\ script'[i] = script[i]
      <4>1. Proper(c, c.path) /\ ~ Ahead(c.path)
        BY <1>1, <2>1, <3>3 DEF Commands
      <4>2. ~ Ahead(c.path)'
        BY <1>1, <3>2, <4>1, AheadStays
      <4>3. QED
        BY <3>1, <4>1, <4>2
    <3>4. CASE Proper(script'[i], p)
      <4>1. c.path = p /\ Proper(c, c.path)
        BY <2>1, <3>4 DEF Proper
      <4>2. ~ Ahead(c.path)
        BY <1>1, <1>2, <4>1, NotAhead
      <4>3. ~ Ahead(c.path)'
        BY <1>1, <3>2, <4>2, AheadStays
      <4>4. QED
        BY <3>1, <4>1, <4>3
    <3>5. QED
      BY <1>3, <3>3, <3>4
  <2>2. \A i \in 1 .. Len(script') : script'[i] \in Order
    BY <1>3
  <2>3. QED
    BY <2>1, <2>2 DEF Commands
<1>7. QED
  BY <1>4, <1>5, <1>6 DEF WalkInv

LEMMA NextLoopIs ==
  ASSUME Types, Walk, NextLoop, NEW n, n = Len(frames)
  PROVE  /\ n \in Nat /\ 1 <= n /\ frames[n] \in Call /\ frames[n].left = {}
         /\ frames' \in Seq(Call) /\ Len(frames') = n
         /\ \A i \in 1 .. n : i < n => frames'[i] = frames[i]
         /\ frames[n].loop < 6 /\ frames'[n].loop = frames[n].loop + 1
         /\ frames'[n].list = frames[n].list
         /\ frames'[n].left = frames[n].list[SideOf(frames'[n].loop)]
         /\ UNCHANGED <<mode, tree, script, runs, base, strayed>>
<1>1. n \in Nat /\ 1 <= n /\ frames[n] \in Call /\ Inner = frames[n]
  BY InnerIs DEF NextLoop
<1> DEFINE k == frames[n].loop + 1
           call == [frames[n] EXCEPT !.loop = k, !.left = frames[n].list[SideOf(k)]]
<1>2. frames[n].loop < 6 /\ frames[n].left = {}
  BY <1>1 DEF NextLoop
<1>3. SideOf(k) \in Sides
  BY DEF SideOf, Sides
<1>4. call \in Call
  <2>1. k \in 1 .. 6
    BY <1>1, <1>2 DEF Call
  <2>2. frames[n].list[SideOf(k)] \in SUBSET Paths
    BY <1>1, <1>3 DEF Call
  <2>3. QED
    BY <1>1, <2>1, <2>2 DEF Call
<1>5. frames' = [frames EXCEPT ![n] = call]
  BY <1>1 DEF NextLoop, Types
<1>6. call.loop = k /\ call.list = frames[n].list /\ call.left = frames[n].list[SideOf(k)]
  BY <1>1 DEF Call
<1> HIDE DEF call
<1>7. /\ frames' \in Seq(Call) /\ Len(frames') = n
      /\ \A i \in 1 .. n : i < n => frames'[i] = frames[i]
      /\ frames'[n] = call
  <2>1. frames \in Seq(Call) /\ n \in 1 .. Len(frames)
    BY <1>1 DEF Types
  <2>2. QED
    BY <1>4, <1>5, <2>1
<1>8. UNCHANGED <<mode, tree, script, runs, base, strayed>>
  BY DEF NextLoop
<1>9. QED
  BY <1>1, <1>2, <1>6, <1>7, <1>8

LEMMA ReturnIs ==
  ASSUME Types, Walk, Return, NEW n, n = Len(frames)
  PROVE  /\ n \in Nat /\ 1 <= n
         /\ frames' \in Seq(Call) /\ Len(frames') < n
         /\ \A i \in 1 .. Len(frames') : i \in 1 .. n - 1 /\ frames'[i] = frames[i]
         /\ UNCHANGED <<mode, tree, script, runs, base, strayed>>
<1>1. n \in Nat /\ 1 <= n /\ frames' = SubSeq(frames, 1, n - 1)
  BY InnerIs DEF Return, Front
<1>2. \A i \in 1 .. n - 1 : frames[i] \in Call
  BY DEF Types
<1>3. /\ frames' \in Seq(Call)
      /\ Len(frames') = IF 1 <= n - 1 THEN n - 1 - 1 + 1 ELSE 0
      /\ \A i \in 1 .. n - 1 : frames'[i] = frames[i]
  BY <1>1, <1>2, SubSeqProperties
<1>4. Len(frames') < n /\ \A i \in 1 .. Len(frames') : i \in 1 .. n - 1
  <2>1. \A m \in Nat : m = (IF 1 <= n - 1 THEN n - 1 - 1 + 1 ELSE 0) => m < n /\ \A i \in 1 .. m : i \in 1 .. n - 1
    BY <1>1
  <2>2. QED
    BY <1>3, <2>1
<1>5. QED
  BY <1>1, <1>3, <1>4 DEF Return

LEMMA CommandsStay ==
  ASSUME Types, Walk, Commands, NextLoop \/ Return
  PROVE  Commands'
<1>1. UNCHANGED <<mode, script>>
  BY DEF NextLoop, Return
<1>2. ASSUME NEW i \in 1 .. Len(script), NEW c \in Order, c = script[i]
      PROVE  (Proper(c, c.path) /\ ~ Ahead(c.path))'
  <2>1. c.path \in Paths /\ Proper(c, c.path) /\ ~ Ahead(c.path)
    BY <1>2 DEF Commands, Order
  <2>2. ~ Ahead(c.path)'
    BY <2>1, AheadStays
  <2>3. QED
    BY <1>1, <2>1, <2>2 DEF Proper
<1>3. \A i \in 1 .. Len(script) : script[i] \in Order
  BY DEF Types
<1>4. QED
  BY <1>1, <1>2, <1>3 DEF Commands

LEMMA NextLoopWalk ==
  ASSUME WalkInv, NextLoop
  PROVE  WalkInv'
<1> DEFINE n == Len(frames)
<1>1. Types /\ Walk /\ Commands
  BY DEF WalkInv
<1>2. /\ n \in Nat /\ 1 <= n /\ frames[n] \in Call
      /\ frames' \in Seq(Call) /\ Len(frames') = n
      /\ \A i \in 1 .. n : i < n => frames'[i] = frames[i]
      /\ frames'[n].list = frames[n].list
      /\ frames'[n].left = frames[n].list[SideOf(frames'[n].loop)]
      /\ UNCHANGED <<mode, tree, script, runs, base, strayed>>
  BY <1>1, NextLoopIs
<1>3. Types'
  BY <1>1, <1>2 DEF Types
<1>4. Walk'
  <2>1. ASSUME NEW i \in 1 .. n
        PROVE  /\ i < n => frames'[i].loop = 1
               /\ frames'[i].left \subseteq frames'[i].list[SideOf(frames'[i].loop)]
               /\ \A t \in Sides : \A x \in frames'[i].list[t] : Depth(x) = i
    BY <1>1, <1>2 DEF Walk
  <2>2. ASSUME NEW m \in 1 .. n, NEW i \in 1 .. m - 1, NEW t \in Sides,
               NEW x \in frames'[m].list[t], NEW q \in frames'[i].left
        PROVE  ~ IsStrictPrefix(q, x)
    BY <1>1, <1>2 DEF Walk
  <2>3. QED
    BY <1>2, <2>1, <2>2 DEF Walk
<1>5. QED
  BY <1>1, <1>3, <1>4, CommandsStay DEF WalkInv

LEMMA ReturnWalk ==
  ASSUME WalkInv, Return
  PROVE  WalkInv'
<1> DEFINE n == Len(frames)
<1>1. Types /\ Walk /\ Commands
  BY DEF WalkInv
<1>2. /\ n \in Nat /\ 1 <= n
      /\ frames' \in Seq(Call) /\ Len(frames') < n
      /\ \A i \in 1 .. Len(frames') : i \in 1 .. n - 1 /\ frames'[i] = frames[i]
      /\ UNCHANGED <<mode, tree, script, runs, base, strayed>>
  BY <1>1, ReturnIs
<1>3. Types'
  BY <1>1, <1>2 DEF Types
<1>4. Walk'
  <2>1. ASSUME NEW i \in 1 .. Len(frames')
        PROVE  /\ i < Len(frames') => frames'[i].loop = 1
               /\ frames'[i].left \subseteq frames'[i].list[SideOf(frames'[i].loop)]
               /\ \A t \in Sides : \A x \in frames'[i].list[t] : Depth(x) = i
    <3>1. i \in 1 .. n /\ i < n /\ frames'[i] = frames[i]
      BY <1>2
    <3>2. QED
      BY <1>1, <3>1 DEF Walk
  <2>2. ASSUME NEW m \in 1 .. Len(frames'), NEW i \in 1 .. m - 1, NEW t \in Sides,
               NEW x \in frames'[m].list[t], NEW q \in frames'[i].left
        PROVE  ~ IsStrictPrefix(q, x)
    <3>1. m \in 1 .. n /\ frames'[m] = frames[m] /\ frames'[i] = frames[i]
      BY <1>2, SMTT(20)
    <3>2. QED
      BY <1>1, <3>1 DEF Walk
  <2>3. QED
    BY <2>1, <2>2 DEF Walk
<1>5. QED
  BY <1>1, <1>3, <1>4, CommandsStay DEF WalkInv

LEMMA ExecuteWalk ==
  ASSUME WalkInv, Execute
  PROVE  WalkInv'
<1> DEFINE c == script[1]
<1>1. Types /\ Walk /\ Commands
  BY DEF WalkInv
<1>2. /\ c \in Order /\ 1 \in 1 .. Len(script)
      /\ script' \in Seq(Order)
      /\ \A i \in 1 .. Len(script') : i + 1 \in 1 .. Len(script) /\ script'[i] = script[i + 1]
      /\ UNCHANGED <<mode, frames, runs, base>>
      /\ \/ Strays(c) /\ strayed' = strayed \cup {c.path} /\ tree' = tree
         \/ ~ Strays(c) /\ Fails(c) /\ strayed' = strayed /\ tree' = tree
         \/ ~ Strays(c) /\ ~ Fails(c) /\ strayed' = strayed /\ tree' = Ran(c)
  BY <1>1, ExecuteIs
<1>3. Types'
  <2>1. Proper(c, c.path) /\ c.path \in Paths /\ runs \in Nat
    <3>1. Proper(c, c.path)
      BY <1>1, <1>2 DEF Commands
    <3>2. c.path \in Paths
      BY <1>2 DEF Order
    <3>3. runs \in Nat
      BY <1>1, SynchronizeAssumption DEF Types
    <3>4. QED
      BY <3>1, <3>2, <3>3
  <2>2. tree' \in Forests
    BY <1>1, <1>2, <2>1, RanWellFormed DEF Types
  <2>3. QED
    BY <1>1, <1>2, <2>1, <2>2 DEF Types
<1>4. Walk'
  BY <1>1, <1>2 DEF Walk
<1>5. Commands'
  <2>1. ASSUME NEW i \in 1 .. Len(script'), NEW d, d = script'[i]
        PROVE  (Proper(d, d.path) /\ ~ Ahead(d.path))'
    <3>1. Proper(d, d.path) /\ ~ Ahead(d.path)
      BY <1>1, <1>2, <2>1 DEF Commands
    <3>2. QED
      BY <1>2, <3>1 DEF Proper, Ahead
  <2>2. QED
    BY <2>1 DEF Commands
<1>6. QED
  BY <1>3, <1>4, <1>5 DEF WalkInv

LEMMA WalkKept == WalkInv /\ [Next]_vars => WalkInv'
<1> SUFFICES ASSUME WalkInv, [Next]_vars PROVE WalkInv'
  OBVIOUS
<1>1. CASE UNCHANGED vars
  BY <1>1 DEF vars, WalkInv, Types, Walk, Commands, Proper, Ahead
<1>2. CASE Next
  BY <1>2, VisitWalk, NextLoopWalk, ReturnWalk, ExecuteWalk, StartAgainWalk DEF Next
<1>3. QED
  BY <1>1, <1>2

THEOREM WalkAlways == Spec => []WalkInv
BY InitWalk, WalkKept, PTL DEF Spec

(* The walk is never deeper than there are paths. *)
LEMMA DepthBounded ==
  ASSUME NEW p \in Paths
  PROVE  Depth(p) <= Cardinality(Paths)
<1> DEFINE n == Depth(p)
           above == [k \in 1 .. n |-> SubSeq(p, 1, k)]
<1>1. p \in Seq(STRING) /\ n \in Nat /\ n = Len(p)
  BY PathIs DEF Depth
<1>2. above \in [1 .. n -> Paths]
  BY <1>1, SynchronizeAssumption
<1>3. ASSUME NEW j \in 1 .. n, NEW k \in 1 .. n, above[j] = above[k]
      PROVE  j = k
  <2>1. \A i \in 1 .. n : p[i] \in STRING
    BY <1>1
  <2>2. \A i \in 1 .. n : Len(SubSeq(p, 1, i)) = IF 1 <= i THEN i - 1 + 1 ELSE 0
    BY <1>1, <2>1, SubSeqProperties
  <2>3. QED
    BY <1>3, <2>2
<1>4. above \in Injection(1 .. n, Paths)
  BY <1>2, <1>3 DEF Injection, IsInjective
<1>5. IsFiniteSet(Paths)
  BY SynchronizeAssumption
<1>6. Cardinality(1 .. n) <= Cardinality(Paths)
  BY <1>4, <1>5, FS_Injection
<1>7. Cardinality(1 .. n) = n
  <2>1. \A m \in Nat : 1 <= m => Cardinality(1 .. m) = m
    BY FS_Interval
  <2>2. 1 <= n
    BY DepthIs
  <2>3. QED
    BY <1>1, <2>1, <2>2
<1>8. QED
  BY <1>6, <1>7

StackBounded == Len(frames) <= 1 + Cardinality(Paths)

LEMMA InitStack == Init => StackBounded
<1> SUFFICES ASSUME Init PROVE StackBounded
  OBVIOUS
<1>1. frames \in Seq(Call) /\ \A i \in 1 .. Len(frames) : i = 1
  BY RootEntered DEF Init
<1>2. Len(frames) \in Nat /\ ~ (2 <= Len(frames))
  BY <1>1
<1>3. Cardinality(Paths) \in Nat
  BY SynchronizeAssumption, FS_CardinalityType
<1>4. QED
  BY <1>2, <1>3 DEF StackBounded

LEMMA StackKept == WalkInv /\ StackBounded /\ [Next]_vars => StackBounded'
<1> SUFFICES ASSUME WalkInv, StackBounded, [Next]_vars PROVE StackBounded'
  OBVIOUS
<1>1. Types /\ Walk /\ Len(frames) \in Nat
  BY DEF WalkInv, Types
<1>2. Cardinality(Paths) \in Nat
  BY SynchronizeAssumption, FS_CardinalityType
<1>3. ASSUME NEW p \in Paths, Visit(p) PROVE StackBounded'
  <2>1. Depth(p) = Len(frames) /\ frames' \in Seq(Call) /\ Len(frames') <= Len(frames) + 1
    BY <1>1, <1>3, VisitIs
  <2>2. Depth(p) <= Cardinality(Paths)
    BY DepthBounded
  <2>3. QED
    BY <1>1, <1>2, <2>1, <2>2 DEF StackBounded
<1>4. CASE NextLoop
  BY <1>1, <1>4, NextLoopIs DEF StackBounded
<1>5. CASE Return
  <2>1. frames' \in Seq(Call) /\ Len(frames') < Len(frames)
    BY <1>1, <1>5, ReturnIs
  <2>2. QED
    BY <1>1, <1>2, <2>1 DEF StackBounded
<1>6. CASE StartAgain
  <2>1. frames' \in Seq(Call) /\ \A i \in 1 .. Len(frames') : i = 1
    BY <1>6, RootEntered DEF StartAgain
  <2>2. Len(frames') \in Nat /\ ~ (2 <= Len(frames'))
    BY <2>1
  <2>3. QED
    BY <1>2, <2>2 DEF StackBounded
<1>7. CASE UNCHANGED frames
  BY <1>7 DEF StackBounded
<1>8. QED
  BY <1>3, <1>4, <1>5, <1>6, <1>7 DEF Next, Execute, vars

(* Types, and the walk: for any trees and however often the program is     *)
(* started, the calls go down one path of the trees, no deeper than there  *)
(* are paths, work on what they listed, and every entry of the trees stays *)
(* in a directory (synchronize.c:109-403 and 407-708).                     *)
THEOREM TypeCorrect == Spec => []TypeOK
<1>1. WalkInv /\ StackBounded => TypeOK
  <2> SUFFICES ASSUME WalkInv, StackBounded PROVE TypeOK
    OBVIOUS
  <2>1. Types /\ Walk
    BY DEF WalkInv
  <2>2. ASSUME NEW i \in 1 .. Len(frames)
        PROVE  /\ frames[i].loop \in 1 .. 6
               /\ i < Len(frames) => frames[i].loop = 1
               /\ frames[i].left \subseteq frames[i].list[SideOf(frames[i].loop)]
    <3>1. frames[i] \in Call
      BY <2>1 DEF Types
    <3>2. QED
      BY <2>1, <3>1 DEF Walk, Call
  <2>3. ASSUME NEW i \in 1 .. Len(script)
        PROVE  script[i].path \in Paths /\ script[i].side \in Sides
    <3>1. script[i] \in Order
      BY <2>1 DEF Types
    <3>2. QED
      BY <3>1 DEF Order
  <2>4. ASSUME NEW s \in Sides, NEW p \in Paths, tree[s][p] # None, Len(p) > 1
        PROVE  tree[s][Parent(p)] = Dir
    <3>1. Parent(p) \in Paths /\ IsStrictPrefix(Parent(p), p)
      BY <2>4, DepthIs, PathIs DEF Depth
    <3>2. QED
      BY <2>1, <2>4, <3>1 DEF Types, Forests, WellFormed
  <2>5. QED
    BY <2>1, <2>2, <2>3, <2>4 DEF TypeOK, Types, StackBounded
<1>2. QED
  BY <1>1, InitWalk, WalkKept, InitStack, StackKept, PTL DEF Spec

-----------------------------------------------------------------------------
(* Versions *)

IsKept(p, e) == \E k \in Kept(p) : Same(e, k)

(* The paths of which a version is to be kept. *)
Concerned(p) == Settled(p) /\ Kept(p) # {}

Directory(p) == \E s \in Sides : base[s][p] = Dir

LEMMA SameAgain ==
  ASSUME NEW e, NEW f, NEW g
  PROVE  /\ Same(e, e)
         /\ Same(e, f) /\ Same(g, f) => e.kind = g.kind
BY DEF Same

(* Of a path that is no directory there are files and links, of a          *)
(* directory nothing else; with -i both sides have it.                     *)
LEMMA VersionsAre ==
  ASSUME Types, NEW p \in Paths, Concerned(p)
  PROVE  /\ Kept(p) \subseteq {base[s][p] : s \in Sides} /\ None \notin Kept(p)
         /\ \A s \in Sides : base[s][p] \in Thing
         /\ mode = "intersect" => Common(p) /\ \A s \in Sides : base[s][p] # None
         /\ Directory(p) => \A s \in Sides : base[s][p] \in {None, Dir}
         /\ ~ Directory(p) => \A s \in Sides : base[s][p].kind \in {"none", "file", "link"}
<1>1. \A s \in Sides : base[s][p] \in Thing
  BY DEF Types, Forests
<1>2. Kept(p) \subseteq {base[s][p] : s \in Sides} /\ None \notin Kept(p)
  BY DEF Kept, Latest, Oldest, Versions
<1>3. IsPrefix(p, p)
  BY PrefixOrSame
<1>4. mode = "intersect" => Common(p)
  BY DEF Concerned, Kept
<1>5. Common(p) => \A s \in Sides : base[s][p] # None
  BY <1>3 DEF Common
<1>6. ~ Conflict(p)
  BY <1>3 DEF Concerned, Settled
<1>7. Directory(p) => \A s \in Sides : base[s][p] \in {None, Dir}
  <2> SUFFICES ASSUME NEW t \in Sides, base[t][p] = Dir, NEW s \in Sides
               PROVE  base[s][p] \in {None, Dir}
    BY DEF Directory
  <2>1. s = t \/ s = Other(t)
    BY SidesAre
  <2>2. ~ FileOrLink(base[Other(t)][p])
    BY <1>6 DEF Conflict
  <2>3. QED
    BY <1>1, <2>1, <2>2, ThingIs DEF FileOrLink
<1>8. ~ Directory(p) => \A s \in Sides : base[s][p].kind \in {"none", "file", "link"}
  BY <1>1, ThingIs DEF Directory
<1>9. QED
  BY <1>1, <1>2, <1>4, <1>5, <1>7, <1>8

(* The versions to be kept are of one kind. *)
LEMMA KeptAlike ==
  ASSUME Types, NEW p \in Paths, Concerned(p), ~ Directory(p),
         NEW e, NEW f, IsKept(p, e), IsKept(p, f)
  PROVE  e.kind = f.kind /\ e.kind \in {"file", "link"} /\ e # None
<1>1. PICK k \in Kept(p) : Same(e, k)
  BY DEF IsKept
<1>2. PICK l \in Kept(p) : Same(f, l)
  BY DEF IsKept
<1>3. /\ k \in Versions(p) /\ l \in Versions(p)
      /\ mode = "union" => ~ MoreRecent(k, l) /\ ~ MoreRecent(l, k)
      /\ mode # "union" => ~ MoreRecent(k, l) /\ ~ MoreRecent(l, k)
  BY DEF Kept, Latest, Oldest
<1>4. /\ k \in Thing /\ l \in Thing /\ k # None /\ l # None
      /\ k.kind \in {"none", "file", "link"} /\ l.kind \in {"none", "file", "link"}
  BY <1>3, VersionsAre DEF Versions
<1>5. /\ k.kind \in {"file", "link"} /\ l.kind \in {"file", "link"}
      /\ k.time \in Nat /\ l.time \in Nat /\ k.size \in Nat /\ l.size \in Nat
  BY <1>4, ThingIs
<1>6. k.kind = l.kind
  BY <1>3, <1>5 DEF MoreRecent
<1>7. e.kind = k.kind /\ f.kind = l.kind
  BY <1>1, <1>2 DEF Same
<1>8. None.kind = "none"
  BY DEF None
<1>9. QED
  BY <1>5, <1>6, <1>7, <1>8

LEMMA BetterIsKept ==
  ASSUME Types, NEW p \in Paths, Concerned(p), ~ Directory(p), NEW s \in Sides,
         base[s][p] # None,
         base[Other(s)][p] # None => Better(base[s][p], base[Other(s)][p])
  PROVE  IsKept(p, base[s][p])
<1> DEFINE e == base[s][p]
           f == base[Other(s)][p]
<1>1. e \in Thing /\ f \in Thing /\ mode \in {"union", "intersect"}
  BY VersionsAre, SidesAre DEF Types
<1>2. \A g \in Versions(p) : g # None /\ (g = e \/ g = f)
  BY SidesAre DEF Versions
<1>3. e \in Versions(p)
  BY DEF Versions
<1>4. e.time \in Nat /\ e.size \in Nat
  BY <1>1, ThingIs
<1>5. ~ MoreRecent(e, e)
  BY <1>4 DEF MoreRecent
<1> HIDE DEF e, f
<1>6. CASE mode = "union"
  <2>1. \A g \in Versions(p) : ~ MoreRecent(g, e)
    BY <1>2, <1>5, <1>6 DEF Better, e, f
  <2>2. e \in Kept(p)
    BY <1>3, <1>6, <2>1 DEF Kept, Latest
  <2>3. QED
    BY <2>2, SameAgain DEF IsKept, e
<1>7. CASE mode = "intersect"
  <2>1. \A g \in Versions(p) : ~ MoreRecent(e, g)
    BY <1>2, <1>5, <1>7 DEF Better, e, f
  <2>2. Common(p)
    BY <1>7, VersionsAre
  <2>3. e \in Kept(p)
    BY <1>3, <1>7, <2>1, <2>2 DEF Kept, Oldest
  <2>4. QED
    BY <2>3, SameAgain DEF IsKept, e
<1>8. QED
  BY <1>1, <1>6, <1>7

(* A command of this kind about p is printed and not yet run. *)
Pending(do, s, p) ==
  \E i \in 1 .. Len(script) : script[i].do = do /\ script[i].side = s /\ script[i].path = p

(* One side has a version that is kept; the other one has its own of the   *)
(* beginning, or nothing, or such a version too.                           *)
Values(p) ==
  /\ \E s \in Sides : IsKept(p, tree[s][p])
  /\ \A s \in Sides :
       \/ tree[s][p] \in {None, base[s][p]}
       \/ IsKept(p, tree[s][p]) /\ (tree[Other(s)][p] = None \/ IsKept(p, tree[Other(s)][p]))

(* What is copied is kept. *)
Copies(p) ==
  \A i \in 1 .. Len(script) :
    script[i].path = p /\ script[i].do \in {"cp", "ln"} =>
      /\ IsKept(p, tree[script[i].side][p])
      /\ script[i].do = "ln" => IsKept(p, script[i].entry)

(* Of what is removed the other side has the kept version, a file, and     *)
(* nothing will be copied from the side that loses it.                     *)
Removals(p) ==
  \A s \in Sides : Pending("rm", s, p) =>
    /\ IsKept(p, tree[Other(s)][p]) /\ tree[Other(s)][p].kind = "file"
    /\ ~ Pending("rm", Other(s), p) /\ ~ Pending("cp", s, p) /\ ~ Pending("ln", s, p)

(* The loop over the links of side s has been at p. *)
LinkVisited(f, s, p) ==
  \/ f.loop = 6 /\ (s = 1 \/ p \notin f.left)
  \/ f.loop = 5 /\ s = 1 /\ p \notin f.left

(* A call that lists p on one side only finds the kept version there, and  *)
(* what it lists is there until the loops over links have been at it.      *)
Finds(p, f) ==
  \A s \in Sides : p \in f.list[s] =>
    /\ p \notin f.list[Other(s)] =>
         /\ IsKept(p, tree[s][p])
         /\ tree[Other(s)][p] = None \/ IsKept(p, tree[Other(s)][p])
         /\ \A t \in Sides : ~ Pending("rm", t, p)
    /\ tree[s][p] = None => LinkVisited(f, s, p) /\ tree[Other(s)][p].kind = "file"
    /\ Pending("rm", s, p) => LinkVisited(f, s, p)

Listed(p) == \A i \in 1 .. Len(frames) : Finds(p, frames[i])

FileKept(p) == Values(p) /\ Copies(p) /\ Removals(p) /\ Listed(p)

DirectoryKept(p) == \E s \in Sides : tree[s][p] = Dir

(* With -i nothing is taken away that both sides have. *)
Intersected(p) ==
  mode = "intersect" =>
    /\ \A s \in Sides : ~ Pending("rm -rf", s, p)
    /\ \A i \in 1 .. Len(frames) : p \in frames[i].list[1] <=> p \in frames[i].list[2]
    /\ Ahead(p) => \A s \in Sides : tree[s][p] # None

VersionsInv ==
  \A p \in Paths : Concerned(p) =>
    /\ Intersected(p)
    /\ IF Directory(p) THEN DirectoryKept(p) ELSE FileKept(p)

(* What is kept of a path, and whether it is a directory, is settled by    *)
(* the trees the result is judged by.                                      *)
LEMMA KeptStays ==
  ASSUME mode' = mode, base' = base, NEW p \in Paths
  PROVE  /\ Kept(p)' = Kept(p)
         /\ \A e : IsKept(p, e)' <=> IsKept(p, e)
         /\ Directory(p)' <=> Directory(p)
         /\ strayed \subseteq strayed' /\ Concerned(p)' => Concerned(p)
<1>1. Kept(p)' = Kept(p)
  BY DEF Kept, Latest, Oldest, Versions, Common
<1>2. \A q : Conflict(q)' <=> Conflict(q)
  BY DEF Conflict
<1>3. strayed \subseteq strayed' /\ Settled(p)' => Settled(p)
  BY <1>2 DEF Settled
<1>4. QED
  BY <1>1, <1>3 DEF IsKept, Directory, Concerned

(* The other side has what one side has not. *)
LEMMA OneKept ==
  ASSUME Types, NEW p \in Paths, Concerned(p), ~ Directory(p), Values(p),
         NEW s \in Sides, tree[Other(s)][p] = None
  PROVE  IsKept(p, tree[s][p])
<1>1. PICK t \in Sides : IsKept(p, tree[t][p])
  BY DEF Values
<1>2. tree[t][p] # None
  BY <1>1, KeptAlike
<1>3. t = s
  BY <1>2, SidesAre
<1>4. QED
  BY <1>1, <1>3

(* Where both sides have an entry, the better one is kept. *)
LEMMA Decided ==
  ASSUME Types, NEW p \in Paths, Concerned(p), ~ Directory(p), Values(p),
         NEW s \in Sides, tree[s][p] # None, tree[Other(s)][p] # None,
         Better(tree[s][p], tree[Other(s)][p])
  PROVE  IsKept(p, tree[s][p])
<1>1. Other(s) \in Sides /\ Other(Other(s)) = s
  BY SidesAre
<1>2. tree[s][p] = base[s][p] \/ IsKept(p, tree[s][p])
  BY DEF Values
<1>3. tree[Other(s)][p] = base[Other(s)][p] \/ IsKept(p, tree[s][p])
  BY <1>1 DEF Values
<1>4. CASE tree[s][p] = base[s][p] /\ tree[Other(s)][p] = base[Other(s)][p]
  BY <1>4, BetterIsKept
<1>5. QED
  BY <1>2, <1>3, <1>4

-----------------------------------------------------------------------------
(* A visit *)

LEMMA ScriptGrows ==
  ASSUME script \in Seq(Order), NEW w \in Seq(Order), script' = script \o w
  PROVE  /\ w = << >> => script' = script
         /\ \A i \in 1 .. Len(script) : i \in 1 .. Len(script') /\ script'[i] = script[i]
         /\ \A i \in 1 .. Len(script') :
              \/ i \in 1 .. Len(script) /\ script'[i] = script[i]
              \/ \E j \in 1 .. Len(w) : script'[i] = w[j]
<1>1. /\ Len(script') = Len(script) + Len(w) /\ Len(script) \in Nat /\ Len(w) \in Nat
      /\ \A i \in 1 .. Len(script) + Len(w) :
           script'[i] = IF i <= Len(script) THEN script[i] ELSE w[i - Len(script)]
  BY ConcatProperties
<1>2. QED
  BY <1>1, ConcatEmptySeq

LEMMA VisitPrints ==
  ASSUME WalkInv, NEW v \in Paths, Visit(v), NEW n, n = Len(frames),
         NEW s, s = SideOf(frames[n].loop)
  PROVE  \E w \in Seq(Order) :
           /\ script' = script \o w
           /\ \A i \in 1 .. Len(w) : Proper(w[i], v)
           /\ w # << >> =>
                \E a \in Lstat(s, v),
                   b \in IF v \in frames[n].list[Other(s)] THEN Lstat(Other(s), v) ELSE {None} :
                  a.kind = KindOf(frames[n].loop) /\ Outcome(w, s, v, a, b) /\ a \in Thing /\ b \in Thing
<1>1. Types /\ Walk /\ script \in Seq(Order)
  BY DEF WalkInv, Types
<1>2. /\ n \in Nat /\ 1 <= n /\ frames[n] \in Call /\ s \in Sides /\ Inner = frames[n]
  BY <1>1, InnerIs DEF Visit
<1>3. \/ script' = script
      \/ \E a \in Lstat(s, v),
            b \in IF v \in frames[n].list[Other(s)] THEN Lstat(Other(s), v) ELSE {None} :
           a.kind = KindOf(frames[n].loop) /\ script' = script \o Printed(s, v, a, b)
  BY <1>2 DEF Visit
<1>4. CASE script' = script
  <2>1. script' = script \o << >>
    BY <1>1, <1>4, ConcatEmptySeq
  <2>2. << >> \in Seq(Order) /\ Len(<< >>) = 0
    OBVIOUS
  <2>3. PICK w \in Seq(Order) : w = << >> /\ Len(w) = 0 /\ script' = script \o w
    BY <2>1, <2>2
  <2>4. \A i \in 1 .. Len(w) : Proper(w[i], v)
    BY <2>3
  <2>5. QED
    BY <2>3, <2>4
<1>5. ASSUME NEW a \in Lstat(s, v),
             NEW b \in IF v \in frames[n].list[Other(s)] THEN Lstat(Other(s), v) ELSE {None},
             a.kind = KindOf(frames[n].loop), script' = script \o Printed(s, v, a, b)
      PROVE  \E w \in Seq(Order) :
               /\ script' = script \o w
               /\ \A i \in 1 .. Len(w) : Proper(w[i], v)
               /\ Outcome(w, s, v, a, b) /\ a \in Thing /\ b \in Thing
  <2>1. tree \in Forests /\ Other(s) \in Sides /\ None \in Thing
    BY <1>1, <1>2, SidesAre DEF Types, Thing, Things
  <2>2. a \in Thing /\ a # None /\ b \in Thing /\ a.kind # "none"
    BY <1>2, <1>5, <2>1, LstatIs, ThingIs
  <2>3. Outcome(Printed(s, v, a, b), s, v, a, b)
    BY <1>1, <1>2, <2>2, PrintedIs DEF Types
  <2>4. /\ Printed(s, v, a, b) \in Seq(Order)
        /\ \A i \in 1 .. Len(Printed(s, v, a, b)) : Proper(Printed(s, v, a, b)[i], v)
    BY <1>2, <2>2, <2>3, OutcomeIs
  <2>5. QED
    BY <1>5, <2>2, <2>3, <2>4
<1>6. CASE script' # script
  <2>1. PICK a \in Lstat(s, v),
             b \in IF v \in frames[n].list[Other(s)] THEN Lstat(Other(s), v) ELSE {None} :
          a.kind = KindOf(frames[n].loop) /\ script' = script \o Printed(s, v, a, b)
    BY <1>3, <1>6
  <2>2. PICK w \in Seq(Order) :
          /\ script' = script \o w
          /\ \A i \in 1 .. Len(w) : Proper(w[i], v)
          /\ Outcome(w, s, v, a, b) /\ a \in Thing /\ b \in Thing
    BY <1>5, <2>1
  <2>3. QED
    BY <2>1, <2>2
<1>7. QED
  BY <1>4, <1>6

(* A command that keeps what is to be kept: what it copies is kept, and    *)
(* what it removes from side s is not, but a file of the other side is.    *)
Right(c, s, p) ==
  \/ /\ c.do \in {"cp", "ln"} /\ IsKept(p, tree[c.side][p])
     /\ c.do = "ln" => IsKept(p, c.entry)
  \/ /\ c.do = "rm" /\ c.side = s /\ ~ IsKept(p, tree[s][p])
     /\ IsKept(p, tree[Other(s)][p]) /\ tree[Other(s)][p].kind = "file"

LEMMA RightIs ==
  ASSUME NEW p, NEW s \in Sides, NEW t \in Sides
  PROVE  /\ IsKept(p, tree[t][p]) => Right(Copy(t, p), s, p) /\ Copy(t, p).do # "rm"
         /\ \A e : IsKept(p, tree[t][p]) /\ IsKept(p, e) =>
              Right(Link(t, p, e), s, p) /\ Link(t, p, e).do # "rm"
         /\ ~ IsKept(p, tree[s][p]) /\ IsKept(p, tree[Other(s)][p])
              /\ tree[Other(s)][p].kind = "file" => Right(Delete(s, p), s, p)
BY DEF Right, Copy, Link, Delete, Command

(* What a visit looks up is there, unless it prints nothing. *)
LEMMA VisitFinds ==
  ASSUME WalkInv, NEW v \in Paths, Visit(v), Concerned(v), ~ Directory(v),
         FileKept(v), Intersected(v), NEW n, n = Len(frames),
         NEW s, s = SideOf(frames[n].loop),
         NEW a \in Lstat(s, v),
         NEW b \in IF v \in frames[n].list[Other(s)] THEN Lstat(Other(s), v) ELSE {None},
         a.kind = KindOf(frames[n].loop)
  PROVE  /\ a = tree[s][v] /\ a # None
         /\ v \in frames[n].list[Other(s)] => b = tree[Other(s)][v] /\ b # None
         /\ v \notin frames[n].list[Other(s)] => b = None /\ IsKept(v, a) /\ mode = "union"
         /\ \A t \in Sides : ~ Pending("rm", t, v)
<1> DEFINE f == frames[n]
           o == Other(s)
<1>1. Types /\ Walk /\ tree \in Forests /\ mode \in {"union", "intersect"}
  BY DEF WalkInv, Types
<1>2. n \in Nat /\ 1 <= n /\ s \in Sides /\ Inner = frames[n] /\ f.left \subseteq f.list[s]
  BY <1>1, InnerIs DEF Visit
<1>3. v \in f.left /\ v \in f.list[s] /\ Finds(v, f)
  BY <1>2 DEF Visit, FileKept, Listed
<1>4. o \in Sides /\ Other(o) = s /\ \A t \in Sides : t = s \/ t = o
  BY <1>2, SidesAre
<1>5. ~ LinkVisited(f, s, v)
  BY <1>3 DEF LinkVisited, SideOf
<1>6. LinkVisited(f, o, v) => a.kind = "link"
  BY <1>3 DEF LinkVisited, KindOf
<1> HIDE DEF f
<1>7. tree[s][v] # None
  BY <1>2, <1>3, <1>5 DEF Finds
<1>8. a = tree[s][v] /\ a # None
  BY <1>1, <1>2, <1>7, LstatIs
<1>9. CASE v \in f.list[o]
  <2>1. tree[o][v] # None
    BY <1>3, <1>4, <1>6, <1>8, <1>9 DEF Finds
  <2>2. b = tree[o][v]
    BY <1>1, <1>4, <1>9, <2>1, LstatIs DEF f
  <2>3. ~ Pending("rm", s, v)
    BY <1>2, <1>3, <1>5 DEF Finds
  <2>4. ~ Pending("rm", o, v)
    <3>1. SUFFICES ASSUME Pending("rm", o, v) PROVE FALSE
      OBVIOUS
    <3>2. LinkVisited(f, o, v)
      BY <1>3, <1>4, <1>9, <3>1 DEF Finds
    <3>3. tree[s][v].kind = "file"
      BY <1>4, <3>1 DEF FileKept, Removals
    <3>4. QED
      BY <1>6, <1>8, <3>2, <3>3
  <2>5. QED
    BY <1>4, <1>8, <1>9, <2>1, <2>2, <2>3, <2>4 DEF f
<1>10. CASE v \notin f.list[o]
  <2>1. IsKept(v, tree[s][v]) /\ \A t \in Sides : ~ Pending("rm", t, v)
    BY <1>2, <1>3, <1>10 DEF Finds
  <2>2. mode # "intersect"
    <3>1. mode = "intersect" => (v \in f.list[1] <=> v \in f.list[2])
      <4>1. n \in 1 .. Len(frames)
        BY <1>2
      <4>2. mode = "intersect" =>
              \A i \in 1 .. Len(frames) : v \in frames[i].list[1] <=> v \in frames[i].list[2]
        BY DEF Intersected
      <4>3. QED
        BY <4>1, <4>2 DEF f
    <3>2. (s = 1 /\ o = 2) \/ (s = 2 /\ o = 1)
      BY <1>2, SidesAre
    <3>3. QED
      BY <1>3, <1>10, <3>1, <3>2
  <2>3. QED
    BY <1>1, <1>8, <1>10, <2>1, <2>2 DEF f
<1>11. QED
  BY <1>9, <1>10

(* All that a visit of p in this call prints is right. *)
Rightly(w, s, p, f) ==
  \A i \in 1 .. Len(w) :
    /\ Right(w[i], s, p)
    /\ w[i].do = "rm" => p \in f.list[Other(s)] /\ KindOf(f.loop) = "link"

LEMMA VisitRight ==
  ASSUME WalkInv, NEW v \in Paths, Visit(v), Concerned(v), ~ Directory(v),
         FileKept(v), Intersected(v), NEW n, n = Len(frames),
         NEW s, s = SideOf(frames[n].loop),
         NEW a \in Lstat(s, v),
         NEW b \in IF v \in frames[n].list[Other(s)] THEN Lstat(Other(s), v) ELSE {None},
         a.kind = KindOf(frames[n].loop), NEW w \in Seq(Order), Outcome(w, s, v, a, b)
  PROVE  Rightly(w, s, v, frames[n])
<1> DEFINE o == Other(s)
           listed == v \in frames[n].list[o]
           Goal == \A i \in 1 .. Len(w) : Right(w[i], s, v) /\ (w[i].do = "rm" => listed /\ a.kind = "link")
<1> SUFFICES Goal
  BY DEF Rightly
<1>1. Types /\ Walk /\ Values(v) /\ n \in Nat /\ 1 <= n /\ s \in Sides
  BY InnerIs DEF WalkInv, Visit, FileKept
<1>2. /\ a = tree[s][v] /\ a # None
      /\ listed => b = tree[o][v] /\ b # None
      /\ ~ listed => b = None /\ IsKept(v, a) /\ mode = "union"
  BY VisitFinds
<1>3. o \in Sides /\ Other(o) = s
  BY <1>1, SidesAre
<1>4. listed /\ Better(a, b) => IsKept(v, a)
  BY <1>1, <1>2, Decided
<1>5. listed /\ Better(b, a) => IsKept(v, b)
  BY <1>1, <1>2, <1>3, Decided
<1>6. IsKept(v, a) => a.kind \in {"file", "link"}
  BY <1>1, KeptAlike
<1>7. IsKept(v, a) /\ IsKept(v, b) => a.kind = b.kind
  BY <1>1, KeptAlike
<1>8. CASE w = << >>
  BY <1>8 DEF Goal
<1>9. ASSUME NEW c, Right(c, s, v), c.do # "rm", w = <<c>> PROVE Goal
  BY <1>9, OneOrTwo
<1>10. ASSUME NEW c, NEW d, Right(c, s, v), Right(d, s, v), listed, a.kind = "link", w = <<c, d>>
       PROVE  Goal
  BY <1>10, OneOrTwo
<1> HIDE DEF Goal, listed, o
<1>11. CASE ~ listed
  <2>1. w = << >> \/ w = <<Copy(s, v)>> \/ w = <<Link(s, v, a)>>
    BY <1>2, <1>6, <1>11 DEF Outcome
  <2>2. QED
    BY <1>1, <1>2, <1>8, <1>9, <1>11, <2>1, RightIs
<1>12. CASE listed
  <2>1. \/ w = << >>
        \/ Better(a, b) /\ (w = <<Copy(s, v)>> \/ w = <<Link(s, v, a)>>)
        \/ Better(b, a) /\ (w = <<Copy(o, v)>> \/ w = <<Link(o, v, b)>>)
        \/ /\ Better(b, a) /\ a.kind = "link" /\ b.kind = "file"
           /\ w = <<Delete(s, v), Copy(o, v)>>
    BY <1>2, <1>12 DEF Outcome, o
  <2>2. CASE Better(a, b) /\ (w = <<Copy(s, v)>> \/ w = <<Link(s, v, a)>>)
    BY <1>1, <1>2, <1>4, <1>9, <1>12, <2>2, RightIs
  <2>3. CASE Better(b, a) /\ (w = <<Copy(o, v)>> \/ w = <<Link(o, v, b)>>)
    BY <1>1, <1>2, <1>3, <1>5, <1>9, <1>12, <2>3, RightIs
  <2>4. CASE /\ Better(b, a) /\ a.kind = "link" /\ b.kind = "file"
             /\ w = <<Delete(s, v), Copy(o, v)>>
    <3>1. IsKept(v, b) /\ ~ IsKept(v, a)
      BY <1>5, <1>7, <1>12, <2>4
    <3>2. Right(Delete(s, v), s, v) /\ Right(Copy(o, v), s, v)
      BY <1>1, <1>2, <1>3, <1>12, <2>4, <3>1, RightIs DEF o
    <3>3. QED
      BY <1>10, <1>12, <2>4, <3>2
  <2>5. QED
    BY <1>8, <2>1, <2>2, <2>3, <2>4
<1>13. QED
  BY <1>11, <1>12

(* A call still finds what it did, if the commands that remove something   *)
(* are about entries it has listed on both sides and visited.              *)
LEMMA FindsStays ==
  ASSUME mode' = mode, base' = base, NEW p \in Paths, NEW f, NEW g,
         \A t \in Sides : tree'[t][p] = tree[t][p],
         Finds(p, f), g.list = f.list,
         \A t \in Sides : LinkVisited(f, t, p) => LinkVisited(g, t, p),
         \A t \in Sides : Pending("rm", t, p)' =>
           \/ Pending("rm", t, p)
           \/ (\A u \in Sides : p \in f.list[u]) /\ LinkVisited(g, t, p)
  PROVE  Finds(p, g)'
<1> SUFFICES ASSUME NEW s \in Sides, p \in g.list[s]
             PROVE  (/\ p \notin g.list[Other(s)] =>
                          /\ IsKept(p, tree[s][p])
                          /\ tree[Other(s)][p] = None \/ IsKept(p, tree[Other(s)][p])
                          /\ \A t \in Sides : ~ Pending("rm", t, p)
                     /\ tree[s][p] = None => LinkVisited(g, s, p) /\ tree[Other(s)][p].kind = "file"
                     /\ Pending("rm", s, p) => LinkVisited(g, s, p))'
  BY DEF Finds
<1>1. Other(s) \in Sides
  BY SidesAre
<1>2. IsKept(p, tree[s][p])' <=> IsKept(p, tree[s][p])
  BY <1>1, KeptStays DEF IsKept
<1>3. IsKept(p, tree[Other(s)][p])' <=> IsKept(p, tree[Other(s)][p])
  BY <1>1, KeptStays DEF IsKept
<1>4. ASSUME p \notin g.list[Other(s)]
      PROVE  (/\ IsKept(p, tree[s][p])
              /\ tree[Other(s)][p] = None \/ IsKept(p, tree[Other(s)][p])
              /\ \A t \in Sides : ~ Pending("rm", t, p))'
  BY <1>1, <1>2, <1>3, <1>4 DEF Finds
<1>5. (tree[s][p] = None => LinkVisited(g, s, p) /\ tree[Other(s)][p].kind = "file")'
  BY <1>1 DEF Finds, LinkVisited
<1>6. (Pending("rm", s, p) => LinkVisited(g, s, p))'
  BY <1>1 DEF Finds, LinkVisited
<1>7. QED
  BY <1>4, <1>5, <1>6

(* A call finds the kept version in what it lists when it begins.          *)
LEMMA EnteredFinds ==
  ASSUME Types, NEW p \in Paths, Concerned(p), ~ Directory(p), Values(p), NEW f, NEW d,
         \A t \in Sides : p \in f.list[t] <=> Parent(p) = d /\ tree[t][p] # None,
         Parent(p) = d => \A t \in Sides : ~ Pending("rm", t, p)
  PROVE  Finds(p, f)
<1> SUFFICES ASSUME NEW s \in Sides, p \in f.list[s]
             PROVE  /\ p \notin f.list[Other(s)] =>
                         /\ IsKept(p, tree[s][p])
                         /\ tree[Other(s)][p] = None \/ IsKept(p, tree[Other(s)][p])
                         /\ \A t \in Sides : ~ Pending("rm", t, p)
                    /\ tree[s][p] = None => LinkVisited(f, s, p) /\ tree[Other(s)][p].kind = "file"
                    /\ Pending("rm", s, p) => LinkVisited(f, s, p)
  BY DEF Finds
<1>1. Parent(p) = d /\ tree[s][p] # None /\ \A t \in Sides : ~ Pending("rm", t, p)
  OBVIOUS
<1>2. p \notin f.list[Other(s)] => tree[Other(s)][p] = None
  BY <1>1, SidesAre
<1>3. QED
  BY <1>1, <1>2, OneKept

(* "rm -rf" is printed of a directory that the other side has not.         *)
Single(c) == c.do # "rm -rf"

LEMMA OutcomeRemoves ==
  ASSUME NEW w, NEW s, NEW p, NEW a, NEW b, Outcome(w, s, p, a, b), b # None
  PROVE  \A i \in 1 .. Len(w) : Single(w[i])
<1> DEFINE S == {Copy(s, p), Copy(Other(s), p), Link(s, p, a), Link(Other(s), p, b), Delete(s, p)}
           Goal == \A i \in 1 .. Len(w) : Single(w[i])
<1> SUFFICES Goal
  OBVIOUS
<1>1. \A c \in S : Single(c)
  <2>1. \A t, e : Copy(t, p).do = "cp" /\ Link(t, p, e).do = "ln" /\ Delete(t, p).do = "rm"
    BY DEF Copy, Link, Delete, Command
  <2>2. \A t, e : Single(Copy(t, p)) /\ Single(Link(t, p, e)) /\ Single(Delete(t, p))
    BY <2>1 DEF Single
  <2>3. QED
    BY <2>2
<1> HIDE DEF S
<1>2. CASE w = << >>
  BY <1>2
<1>3. ASSUME NEW c \in S, w = <<c>> PROVE Goal
  BY <1>1, <1>3, OneOrTwo
<1>4. ASSUME NEW c \in S, NEW d \in S, w = <<c, d>> PROVE Goal
  BY <1>1, <1>4, OneOrTwo
<1> HIDE DEF Goal
<1>5. \/ w = << >>
      \/ \E c \in S : w = <<c>>
      \/ \E c, d \in S : w = <<c, d>>
  BY DEF Outcome, S
<1>6. QED
  BY <1>2, <1>3, <1>4, <1>5

LEMMA VisitVersions ==
  ASSUME WalkInv, VersionsInv, NEW v \in Paths, Visit(v)
  PROVE  VersionsInv'
<1> SUFFICES ASSUME NEW x \in Paths, Concerned(x)'
             PROVE  (Intersected(x) /\ IF Directory(x) THEN DirectoryKept(x) ELSE FileKept(x))'
  BY DEF VersionsInv
<1> DEFINE n == Len(frames)
           s == SideOf(frames[n].loop)
           o == Other(s)
<1>1. /\ Types /\ Walk /\ Commands /\ script \in Seq(Order)
  BY DEF WalkInv, Types
<1>2. /\ n \in Nat /\ 1 <= n /\ frames[n] \in Call /\ s \in Sides
      /\ v \in frames[n].left /\ v \in frames[n].list[s] /\ Depth(v) = n
      /\ UNCHANGED <<mode, tree, runs, base, strayed>>
      /\ frames' \in Seq(Call) /\ n <= Len(frames') /\ Len(frames') <= n + 1
      /\ \A i \in 1 .. n : i < n => frames'[i] = frames[i]
      /\ frames'[n].loop = frames[n].loop /\ frames'[n].list = frames[n].list
      /\ frames'[n].left = frames[n].left \ {v}
      /\ n < Len(frames') => frames[n].loop = 1 /\ frames'[n + 1] = Enter(v)
  BY <1>1, VisitIs
<1>3. PICK w \in Seq(Order) :
        /\ script' = script \o w
        /\ \A i \in 1 .. Len(w) : Proper(w[i], v)
        /\ w # << >> =>
             \E a \in Lstat(s, v),
                b \in IF v \in frames[n].list[Other(s)] THEN Lstat(Other(s), v) ELSE {None} :
               a.kind = KindOf(frames[n].loop) /\ Outcome(w, s, v, a, b) /\ a \in Thing /\ b \in Thing
  BY VisitPrints
<1>4. /\ \A i \in 1 .. Len(script') :
           \/ i \in 1 .. Len(script) /\ script'[i] = script[i]
           \/ \E j \in 1 .. Len(w) : script'[i] = w[j]
  BY <1>1, <1>3, ScriptGrows
<1>5. /\ Kept(x)' = Kept(x) /\ (Directory(x)' <=> Directory(x)) /\ Concerned(x)
      /\ Intersected(x)
      /\ Directory(x) => DirectoryKept(x)
      /\ ~ Directory(x) => FileKept(x)
  BY <1>2, KeptStays DEF VersionsInv
<1>6. \A do, t : Pending(do, t, x)' =>
        \/ Pending(do, t, x)
        \/ x = v /\ \E j \in 1 .. Len(w) : w[j].do = do /\ w[j].side = t
  <2> SUFFICES ASSUME NEW do, NEW t, Pending(do, t, x)'
               PROVE  \/ Pending(do, t, x)
                      \/ x = v /\ \E j \in 1 .. Len(w) : w[j].do = do /\ w[j].side = t
    OBVIOUS
  <2>1. PICK i \in 1 .. Len(script') :
          script'[i].do = do /\ script'[i].side = t /\ script'[i].path = x
    BY DEF Pending
  <2>2. CASE i \in 1 .. Len(script) /\ script'[i] = script[i]
    BY <2>1, <2>2 DEF Pending
  <2>3. ASSUME NEW j \in 1 .. Len(w), script'[i] = w[j]
        PROVE  x = v /\ w[j].do = do /\ w[j].side = t
    <3>1. w[j].path = v
      BY <1>3 DEF Proper
    <3>2. QED
      BY <2>1, <2>3, <3>1
  <2>4. QED
    BY <1>4, <2>2, <2>3
<1>7. n < Len(frames') /\ Parent(x) = v => Ahead(x)
  BY <1>2, ChildIs DEF Ahead
<1>8. Ahead(x) => \A do, t : ~ Pending(do, t, x)
  BY <1>1 DEF Commands, Pending
<1> HIDE DEF n, s
<1>9. Intersected(x)'
  <2> SUFFICES ASSUME mode = "intersect"
               PROVE  (/\ \A t \in Sides : ~ Pending("rm -rf", t, x)
                       /\ \A i \in 1 .. Len(frames) : x \in frames[i].list[1] <=> x \in frames[i].list[2]
                       /\ Ahead(x) => \A t \in Sides : tree[t][x] # None)'
    BY <1>2 DEF Intersected
  <2>1. /\ \A t \in Sides : ~ Pending("rm -rf", t, x)
        /\ \A i \in 1 .. n : x \in frames[i].list[1] <=> x \in frames[i].list[2]
        /\ Ahead(x) => \A t \in Sides : tree[t][x] # None
    BY <1>5 DEF Intersected, n
  <2>2. ASSUME NEW t \in Sides, Pending("rm -rf", t, x)' PROVE FALSE
    <3>1. x = v
      BY <1>6, <2>1, <2>2
    <3>2. PICK j \in 1 .. Len(w) : w[j].do = "rm -rf"
      BY <1>6, <2>1, <2>2
    <3>3. w # << >>
      <4>1. \A u \in Seq(Order) : \A k \in 1 .. Len(u) : u # << >>
        OBVIOUS
      <4>2. QED
        BY <4>1
    <3>4. PICK a \in Lstat(s, v),
               b \in IF v \in frames[n].list[Other(s)] THEN Lstat(Other(s), v) ELSE {None} :
            Outcome(w, s, v, a, b)
      BY <1>3, <3>3
    <3>5. v \in frames[n].list[Other(s)]
      <4>1. n \in 1 .. n
        BY <1>2
      <4>2. v \in frames[n].list[1] <=> v \in frames[n].list[2]
        BY <2>1, <3>1, <4>1
      <4>3. (s = 1 /\ Other(s) = 2) \/ (s = 2 /\ Other(s) = 1)
        BY <1>2, SidesAre
      <4>4. QED
        BY <1>2, <4>2, <4>3
    <3>6. b # None
      BY <1>1, <1>2, <3>4, <3>5, LstatIs, SidesAre DEF Types
    <3>7. QED
      BY <3>2, <3>4, <3>6, OutcomeRemoves DEF Single
  <2>3. ASSUME NEW i \in 1 .. Len(frames')
        PROVE  x \in frames'[i].list[1] <=> x \in frames'[i].list[2]
    <3>1. CASE i <= n
      <4>1. i \in 1 .. n /\ frames'[i].list = frames[i].list
        BY <1>2, <3>1
      <4>2. QED
        BY <2>1, <4>1
    <3>2. CASE n < i
      <4>1. i = n + 1 /\ n < Len(frames') /\ frames'[i] = Enter(v)
        BY <1>2, <3>2
      <4>2. Parent(x) = v => \A t \in Sides : tree[t][x] # None
        BY <1>7, <2>1, <4>1
      <4>3. \A t \in Sides : x \in Enter(v).list[t] <=> Parent(x) = v
        BY <4>2, EnterIs
      <4>4. QED
        BY <4>1, <4>3 DEF Sides
    <3>3. QED
      BY <1>2, <3>1, <3>2
  <2>4. Ahead(x)' => Ahead(x)
    BY <1>1, AheadStays
  <2>5. QED
    BY <1>2, <2>1, <2>2, <2>3, <2>4
<1>10. ASSUME Directory(x) PROVE DirectoryKept(x)'
  BY <1>2, <1>5, <1>10 DEF DirectoryKept
<1>11. ASSUME ~ Directory(x) PROVE FileKept(x)'
  <2>1. Values(x) /\ Copies(x) /\ Removals(x) /\ Listed(x)
    BY <1>5, <1>11 DEF FileKept
  <2>2. ASSUME x = v, NEW j \in 1 .. Len(w)
        PROVE  /\ Right(w[j], s, v) /\ \A t \in Sides : ~ Pending("rm", t, v)
               /\ w[j].do = "rm" => v \in frames[n].list[o] /\ KindOf(frames[n].loop) = "link"
    <3>1. w # << >>
      BY <2>2
    <3>2. PICK a \in Lstat(s, v),
               b \in IF v \in frames[n].list[Other(s)] THEN Lstat(Other(s), v) ELSE {None} :
            a.kind = KindOf(frames[n].loop) /\ Outcome(w, s, v, a, b)
      BY <1>3, <3>1
    <3>3. Concerned(v) /\ ~ Directory(v) /\ FileKept(v) /\ Intersected(v)
      BY <1>5, <1>11, <2>2
    <3>4. \A t \in Sides : ~ Pending("rm", t, v)
      BY <3>2, <3>3, VisitFinds DEF n, s
    <3>5. Rightly(w, s, v, frames[n])
      BY <3>2, <3>3, VisitRight DEF n, s
    <3>6. QED
      BY <2>2, <3>4, <3>5 DEF Rightly
  <2>3. \A t \in Sides : IsKept(x, tree[t][x])' <=> IsKept(x, tree[t][x])
    BY <1>2, <1>5 DEF IsKept
  <2>4. Values(x)'
    BY <1>2, <2>1, <2>3, SidesAre DEF Values
  <2>5. Copies(x)'
    <3>1. ASSUME NEW i \in 1 .. Len(script'), NEW c, c = script'[i], c.path = x, c.do \in {"cp", "ln"}
          PROVE  (IsKept(x, tree[c.side][x]) /\ (c.do = "ln" => IsKept(x, c.entry)))'
      <4>1. IsKept(x, tree[c.side][x]) /\ (c.do = "ln" => IsKept(x, c.entry))
        <5>1. CASE i \in 1 .. Len(script) /\ script'[i] = script[i]
          BY <2>1, <3>1, <5>1 DEF Copies
        <5>2. ASSUME NEW j \in 1 .. Len(w), script'[i] = w[j]
              PROVE  IsKept(x, tree[c.side][x]) /\ (c.do = "ln" => IsKept(x, c.entry))
          <6>1. c = w[j] /\ x = v
            BY <1>3, <3>1, <5>2 DEF Proper
          <6>2. Right(c, s, x)
            BY <2>2, <6>1
          <6>3. QED
            BY <3>1, <6>2 DEF Right
        <5>3. QED
          BY <1>4, <5>1, <5>2
      <4>2. QED
        BY <1>2, <1>5, <4>1 DEF IsKept
    <3>2. QED
      BY <3>1 DEF Copies
  <2>6. Removals(x)'
    <3> SUFFICES ASSUME NEW t \in Sides, Pending("rm", t, x)'
                 PROVE  (/\ IsKept(x, tree[Other(t)][x]) /\ tree[Other(t)][x].kind = "file"
                         /\ ~ Pending("rm", Other(t), x) /\ ~ Pending("cp", t, x) /\ ~ Pending("ln", t, x))'
      BY DEF Removals
    <3>1. Other(t) \in Sides /\ Other(t) # t
      BY SidesAre
    <3>2. CASE Pending("rm", t, x)
      <4>1. \A j \in 1 .. Len(w) : x # v
        BY <2>2, <3>2
      <4>2. \A do, u : Pending(do, u, x)' => Pending(do, u, x)
        BY <1>6, <4>1
      <4>3. QED
        BY <1>2, <2>1, <2>3, <3>1, <3>2, <4>2 DEF Removals
    <3>3. CASE ~ Pending("rm", t, x)
      <4>1. x = v
        BY <1>6, <3>3
      <4>2. PICK j \in 1 .. Len(w) : w[j].do = "rm" /\ w[j].side = t
        BY <1>6, <3>3
      <4>3. /\ t = s /\ ~ IsKept(x, tree[s][x])
            /\ IsKept(x, tree[Other(s)][x]) /\ tree[Other(s)][x].kind = "file"
            /\ \A u \in Sides : ~ Pending("rm", u, x)
        BY <2>2, <4>1, <4>2 DEF Right
      <4>4. ~ Pending("rm", Other(t), x)'
        <5>1. \A k \in 1 .. Len(w) : w[k].do = "rm" => w[k].side = s
          BY <2>2, <4>1 DEF Right
        <5>2. QED
          BY <1>6, <3>1, <4>3, <5>1
      <4>5. ASSUME NEW do \in {"cp", "ln"}, Pending(do, t, x)' PROVE FALSE
        <5>1. IsKept(x, tree[t][x])'
          BY <2>5, <4>5 DEF Copies, Pending
        <5>2. QED
          BY <2>3, <4>3, <5>1
      <4>6. QED
        BY <1>2, <2>3, <3>1, <4>3, <4>4, <4>5
    <3>4. QED
      BY <3>2, <3>3
  <2>7. Listed(x)'
    <3>1. ASSUME NEW g, \A t \in Sides : x \notin g.list[t] PROVE Finds(x, g)'
      BY <3>1 DEF Finds
    <3>2. ASSUME NEW i \in 1 .. Len(frames'), NEW g, g = frames'[i], i < n \/ i = n PROVE Finds(x, g)'
      <4> DEFINE f == frames[i]
      <4>1. /\ i \in 1 .. n /\ g.list = f.list /\ g.loop = f.loop /\ g.left \subseteq f.left
            /\ i < n => g = f
            /\ i = n => g.left = f.left \ {v}
        BY <1>2, <3>2
      <4>2. Finds(x, f)
        BY <2>1, <4>1 DEF Listed, n
      <4>3. \A t \in Sides : LinkVisited(f, t, x) => LinkVisited(g, t, x)
        BY <4>1 DEF LinkVisited
      <4> HIDE DEF f
      <4>4. CASE x = v /\ i < n
        <5>1. \A t \in Sides : \A y \in frames[i].list[t] : Depth(y) = i
          BY <1>1, <4>1 DEF Walk, n
        <5>2. \A t \in Sides : x \notin g.list[t]
          BY <1>2, <4>1, <4>4, <5>1 DEF f
        <5>3. QED
          BY <3>1, <5>2
      <4>5. CASE x # v \/ i = n
        <5>1. ASSUME NEW t \in Sides, Pending("rm", t, x)', ~ Pending("rm", t, x)
              PROVE  (\A u \in Sides : x \in f.list[u]) /\ LinkVisited(g, t, x)
          <6>1. x = v /\ i = n
            BY <1>6, <4>5, <5>1
          <6>2. PICK j \in 1 .. Len(w) : w[j].do = "rm" /\ w[j].side = t
            BY <1>6, <5>1
          <6>3. t = s /\ v \in frames[n].list[o] /\ KindOf(frames[n].loop) = "link"
            BY <2>2, <6>1, <6>2 DEF Right
          <6>4. \A u \in Sides : x \in f.list[u]
            BY <1>2, <6>1, <6>3, SidesAre DEF f
          <6>5. frames[n].loop \in {5, 6} /\ (frames[n].loop = 5 => s = 1)
            <7>1. frames[n].loop \in 1 .. 6
              BY <1>2 DEF Call
            <7>2. \A k \in 1 .. 6 : KindOf(k) = "link" => k \in {5, 6}
              BY DEF KindOf
            <7>3. SideOf(5) = 1
              BY DEF SideOf
            <7>4. QED
              BY <6>3, <7>1, <7>2, <7>3 DEF s
          <6>6. LinkVisited(g, t, x)
            BY <4>1, <6>1, <6>3, <6>5 DEF LinkVisited, f
          <6>7. QED
            BY <6>4, <6>6
        <5>2. QED
          BY <1>2, <4>1, <4>2, <4>3, <5>1, FindsStays
      <4>6. QED
        BY <3>2, <4>4, <4>5
    <3>3. ASSUME NEW i \in 1 .. Len(frames'), NEW g, g = frames'[i], n < i PROVE Finds(x, g)'
      <4>1. n < Len(frames') /\ g = Enter(v)
        BY <1>2, <3>3
      <4>2. \A t \in Sides : x \in g.list[t] <=> Parent(x) = v /\ tree[t][x] # None
        BY <4>1, EnterIs
      <4>3. CASE Parent(x) = v
        <5>1. x # v
          BY <4>3, ChildIs, DepthIs
        <5>2. \A t \in Sides : ~ Pending("rm", t, x)
          BY <1>7, <1>8, <4>1, <4>3
        <5>3. Finds(x, g)
          BY <1>1, <1>5, <1>11, <2>1, <4>2, <5>2, EnteredFinds
        <5>4. \A t \in Sides : ~ Pending("rm", t, x)'
          BY <1>6, <5>1, <5>2
        <5>5. QED
          BY <1>2, <5>3, <5>4, FindsStays
      <4>4. CASE Parent(x) # v
        BY <3>1, <4>2, <4>4
      <4>5. QED
        BY <4>3, <4>4
    <3>4. ASSUME NEW i \in 1 .. Len(frames'), NEW g, g = frames'[i] PROVE Finds(x, g)'
      BY <1>2, <3>2, <3>3, <3>4
    <3>5. QED
      BY <3>4 DEF Listed
  <2>8. QED
    BY <2>4, <2>5, <2>6, <2>7 DEF FileKept
<1>12. QED
  BY <1>5, <1>9, <1>10, <1>11

-----------------------------------------------------------------------------
(* The end of a loop, or of a call *)

LEMMA CallsStay ==
  ASSUME Types, Walk, NextLoop \/ Return \/ UNCHANGED vars
  PROVE  /\ UNCHANGED <<mode, tree, script, runs, base, strayed>>
         /\ frames' \in Seq(Call)
         /\ \A i \in 1 .. Len(frames') :
              /\ i \in 1 .. Len(frames) /\ frames'[i].list = frames[i].list
              /\ \A t \in Sides, p \in Paths :
                   LinkVisited(frames[i], t, p) => LinkVisited(frames'[i], t, p)
<1> DEFINE n == Len(frames)
<1>1. CASE NextLoop
  <2>1. /\ n \in Nat /\ 1 <= n /\ frames[n].left = {}
        /\ frames' \in Seq(Call) /\ Len(frames') = n
        /\ \A i \in 1 .. n : i < n => frames'[i] = frames[i]
        /\ frames[n].loop < 6 /\ frames'[n].loop = frames[n].loop + 1
        /\ frames'[n].list = frames[n].list
        /\ UNCHANGED <<mode, tree, script, runs, base, strayed>>
    BY <1>1, NextLoopIs
  <2>2. \A t \in Sides, p \in Paths : LinkVisited(frames[n], t, p) => LinkVisited(frames'[n], t, p)
    BY <2>1 DEF LinkVisited
  <2>3. ASSUME NEW i \in 1 .. Len(frames')
        PROVE  /\ i \in 1 .. Len(frames) /\ frames'[i].list = frames[i].list
               /\ \A t \in Sides, p \in Paths :
                    LinkVisited(frames[i], t, p) => LinkVisited(frames'[i], t, p)
    <3>1. CASE i < n
      BY <2>1, <3>1
    <3>2. CASE i = n
      BY <2>1, <2>2, <3>2
    <3>3. QED
      BY <2>1, <3>1, <3>2
  <2>4. QED
    BY <2>1, <2>3
<1>2. CASE Return
  <2>1. /\ n \in Nat /\ 1 <= n
        /\ frames' \in Seq(Call) /\ Len(frames') < n
        /\ \A i \in 1 .. Len(frames') : i \in 1 .. n - 1 /\ frames'[i] = frames[i]
        /\ UNCHANGED <<mode, tree, script, runs, base, strayed>>
    BY <1>2, ReturnIs
  <2>2. \A i \in 1 .. Len(frames') : i \in 1 .. n /\ frames'[i] = frames[i]
    BY <2>1
  <2>3. QED
    BY <2>1, <2>2
<1>3. CASE UNCHANGED vars
  BY <1>3 DEF vars, Types
<1>4. QED
  BY <1>1, <1>2, <1>3

LEMMA CallsVersions ==
  ASSUME WalkInv, VersionsInv, NextLoop \/ Return \/ UNCHANGED vars
  PROVE  VersionsInv'
<1> SUFFICES ASSUME NEW x \in Paths, Concerned(x)'
             PROVE  (Intersected(x) /\ IF Directory(x) THEN DirectoryKept(x) ELSE FileKept(x))'
  BY DEF VersionsInv
<1>1. Types /\ Walk
  BY DEF WalkInv
<1>2. /\ UNCHANGED <<mode, tree, script, runs, base, strayed>>
      /\ \A i \in 1 .. Len(frames') :
           /\ i \in 1 .. Len(frames) /\ frames'[i].list = frames[i].list
           /\ \A t \in Sides : LinkVisited(frames[i], t, x) => LinkVisited(frames'[i], t, x)
  BY <1>1, CallsStay
<1>3. /\ Kept(x)' = Kept(x) /\ (Directory(x)' <=> Directory(x)) /\ Concerned(x)
      /\ Intersected(x)
      /\ Directory(x) => DirectoryKept(x)
      /\ ~ Directory(x) => FileKept(x)
  BY <1>2, KeptStays DEF VersionsInv
<1>4. \A do, t : Pending(do, t, x)' <=> Pending(do, t, x)
  BY <1>2 DEF Pending
<1>5. \A s : IsKept(x, tree[s][x])' <=> IsKept(x, tree[s][x])
  BY <1>2, <1>3 DEF IsKept
<1>6. Ahead(x)' => Ahead(x)
  BY <1>1, AheadStays DEF vars
<1>7. Intersected(x)'
  BY <1>2, <1>3, <1>4, <1>6 DEF Intersected
<1>8. ASSUME Directory(x) PROVE DirectoryKept(x)'
  BY <1>2, <1>3, <1>8 DEF DirectoryKept
<1>9. ASSUME ~ Directory(x) PROVE FileKept(x)'
  <2>1. Values(x) /\ Copies(x) /\ Removals(x) /\ Listed(x)
    BY <1>3, <1>9 DEF FileKept
  <2>2. Values(x)'
    BY <1>2, <1>5, <2>1 DEF Values
  <2>3. Copies(x)'
    <3>1. ASSUME NEW i \in 1 .. Len(script), NEW c, c = script[i], c.path = x, c.do \in {"cp", "ln"}
          PROVE  (IsKept(x, tree[c.side][x]) /\ (c.do = "ln" => IsKept(x, c.entry)))'
      <4>1. IsKept(x, tree[c.side][x]) /\ (c.do = "ln" => IsKept(x, c.entry))
        BY <2>1, <3>1 DEF Copies
      <4>2. QED
        BY <1>2, <1>3, <4>1 DEF IsKept
    <3>2. QED
      BY <1>2, <3>1 DEF Copies
  <2>4. Removals(x)'
    BY <1>2, <1>4, <1>5, <2>1 DEF Removals
  <2>5. Listed(x)'
    <3>1. ASSUME NEW i \in 1 .. Len(frames'), NEW g, g = frames'[i] PROVE Finds(x, g)'
      <4>1. Finds(x, frames[i])
        BY <1>2, <2>1 DEF Listed
      <4>2. g.list = frames[i].list /\ \A t \in Sides : LinkVisited(frames[i], t, x) => LinkVisited(g, t, x)
        BY <1>2, <3>1
      <4>3. QED
        BY <1>2, <1>4, <4>1, <4>2, FindsStays
    <3>2. QED
      BY <3>1 DEF Listed
  <2>6. QED
    BY <2>2, <2>3, <2>4, <2>5 DEF FileKept
<1>10. QED
  BY <1>3, <1>7, <1>8, <1>9

-----------------------------------------------------------------------------
(* A command is run *)

LEMMA ScriptIs ==
  ASSUME Types, NEW i \in 1 .. Len(script)
  PROVE  script[i] \in Order /\ script[i].side \in Sides /\ script[i].path \in Paths
<1>1. script \in Seq(Order)
  BY DEF Types
<1>2. script[i] \in Order
  BY <1>1
<1>3. \A c \in Order : c.side \in Sides /\ c.path \in Paths
  BY DEF Order
<1>4. QED
  BY <1>2, <1>3

(* With -i the directories above a path of which a version is kept are on  *)
(* both sides, and are kept.                                               *)
LEMMA AboveConcerned ==
  ASSUME Types, mode = "intersect", NEW x \in Paths, Concerned(x),
         NEW q \in Paths, IsStrictPrefix(q, x)
  PROVE  Concerned(q)
<1>1. Common(x) /\ \A s \in Sides : base[s][x] # None
  BY VersionsAre
<1>2. \A r \in Paths : IsPrefix(r, q) => IsPrefix(r, x)
  BY PrefixOrSame, PrefixesOfPrefix
<1>3. Settled(q) /\ Common(q)
  BY <1>1, <1>2 DEF Concerned, Settled, Common
<1>4. \A s \in Sides : base[s][q] = Dir
  BY <1>1 DEF Types, Forests, WellFormed
<1>5. Dir # None
  BY DEF Dir, None
<1>6. Versions(q) = {Dir}
  BY <1>4, <1>5 DEF Versions, Sides
<1>7. ~ MoreRecent(Dir, Dir)
  BY DEF MoreRecent, Dir
<1>8. Dir \in Kept(q)
  BY <1>3, <1>6, <1>7 DEF Kept, Oldest
<1>9. QED
  BY <1>3, <1>8 DEF Concerned

(* No "rm -rf" takes away a path of which a version is kept.               *)
LEMMA NoTreeRemoved ==
  ASSUME WalkInv, VersionsInv, NEW x \in Paths, Concerned(x),
         NEW i \in 1 .. Len(script), script[i].do = "rm -rf"
  PROVE  x \notin Under(script[i].path)
<1>1. Types /\ Commands
  BY DEF WalkInv
<1>2. script[i] \in Order /\ mode = "intersect"
  <2>1. Proper(script[i], script[i].path)
    BY <1>1 DEF Commands
  <2>2. script[i] \in Order
    BY <1>1, ScriptIs
  <2>3. mode = "intersect"
    BY <2>1 DEF Proper
  <2>4. QED
    BY <2>2, <2>3
<1>3. script[i].path \in Paths /\ script[i].side \in Sides
  BY <1>2 DEF Order
<1>4. ASSUME NEW q \in Paths, Concerned(q) PROVE script[i].path # q
  BY <1>2, <1>3, <1>4 DEF VersionsInv, Intersected, Pending
<1>5. \A q \in Paths : IsStrictPrefix(q, x) => Concerned(q)
  BY <1>1, <1>2, AboveConcerned
<1>6. QED
  BY <1>3, <1>4, <1>5, UnderIs

(* A directory gives way to no command but "rm -rf".                       *)
LEMMA DirectoryStays ==
  ASSUME tree \in Forests, NEW c \in Order, ~ Strays(c), ~ Fails(c), NEW x \in Paths,
         tree[SideTo(c)][x] = Dir, x \in Written(c)
  PROVE  c.do = "rm -rf"
<1> DEFINE t == SideTo(c)
           q == c.path
<1>1. /\ q \in Paths /\ c.side \in Sides /\ c.do \in {"cp -rp", "cp", "ln", "rm", "rm -rf"}
      /\ tree \in [Sides -> [Paths -> Thing]] /\ t \in Sides
  BY RanIs DEF Order, Forests
<1>2. Dir.kind = "dir" /\ Dir # None
  BY DEF Dir, None
<1>3. Target(c) = tree[t][q] /\ Source(c) = tree[c.side][q]
  BY DEF Target, Source
<1>4. Source(c).kind \in {"none", "dir", "file", "link"}
  BY <1>1, <1>3, ThingIs
<1>5. ASSUME c.do \in {"cp", "ln", "rm"} PROVE FALSE
  <2>1. Target(c).kind = "dir"
    BY <1>2, <1>3, <1>5 DEF Written
  <2>2. QED
    BY <1>4, <1>5, <2>1 DEF Strays, Fails
<1>6. ASSUME c.do = "cp -rp" PROVE FALSE
  <2>1. tree[t][q] = None
    BY <1>3, <1>6 DEF Strays
  <2>2. x = q \/ IsStrictPrefix(q, x)
    BY <1>1, <1>6, UnderIs DEF Written
  <2>3. QED
    BY <1>1, <1>2, <2>1, <2>2 DEF Forests, WellFormed
<1>7. QED
  BY <1>1, <1>5, <1>6

(* What a command does to a path of which a file or a link is kept:        *)
(* nothing; or both sides have a kept version; or one loses what the other *)
(* side keeps.                                                             *)
LEMMA ExecuteDoes ==
  ASSUME WalkInv, VersionsInv, Execute, NEW x \in Paths, Concerned(x),
         ~ Directory(x), FileKept(x), NEW c, c = script[1]
  PROVE  \/ \A s \in Sides : tree'[s][x] = tree[s][x]
         \/ \A s \in Sides : IsKept(x, tree'[s][x])
         \/ /\ Pending("rm", c.side, x) /\ c.side \in Sides
            /\ tree'[c.side][x] = None
            /\ tree'[Other(c.side)][x] = tree[Other(c.side)][x]
<1> DEFINE t == SideTo(c)
           q == c.path
<1>1. /\ Types /\ Walk /\ Commands /\ tree \in Forests
      /\ tree \in [Sides -> [Paths -> Thing]] /\ runs \in Nat
  BY SynchronizeAssumption DEF WalkInv, Types, Forests
<1>2. /\ c \in Order /\ 1 \in 1 .. Len(script)
      /\ \/ Strays(c) /\ strayed' = strayed \cup {c.path} /\ tree' = tree
         \/ ~ Strays(c) /\ Fails(c) /\ strayed' = strayed /\ tree' = tree
         \/ ~ Strays(c) /\ ~ Fails(c) /\ strayed' = strayed /\ tree' = Ran(c)
  BY <1>1, ExecuteIs
<1>3. c.side \in Sides /\ q \in Paths /\ c.do \in {"cp -rp", "cp", "ln", "rm", "rm -rf"}
  BY <1>2 DEF Order
<1>4. /\ t \in Sides /\ Other(t) \in Sides /\ Other(Other(t)) = t
      /\ \A s \in Sides : s = t \/ s = Other(t)
  BY <1>1, <1>2, RanIs, SidesAre
<1>5. c.do \notin {"rm", "rm -rf"} => Other(t) = c.side
  BY <1>3, SidesAre DEF SideTo
<1>6. Proper(c, q)
  BY <1>1, <1>2 DEF Commands
<1>7. CASE tree' = tree
  BY <1>7
<1>8. CASE ~ Strays(c) /\ ~ Fails(c) /\ tree' = Ran(c)
  <2>1. /\ tree'[Other(t)] = tree[Other(t)]
        /\ tree'[t][x] = IF x \in Written(c) THEN Left(c, x) ELSE tree[t][x]
    BY <1>1, <1>2, <1>8, RanIs
  <2>2. CASE x \notin Written(c)
    BY <1>4, <2>1, <2>2
  <2>3. ASSUME x \in Written(c), c.do \in {"cp", "ln"}
        PROVE  \A s \in Sides : IsKept(x, tree'[s][x])
    <3>1. q = x
      BY <2>3 DEF Written
    <3>2. IsKept(x, tree[c.side][x]) /\ (c.do = "ln" => IsKept(x, c.entry))
      BY <1>2, <2>3, <3>1 DEF FileKept, Copies
    <3>3. IsKept(x, Left(c, x))
      <4>1. CASE c.do = "cp"
        BY <1>1, <1>2, <3>2, <4>1, LeftIs
      <4>2. CASE c.do = "ln"
        <5>1. c.entry.kind = "link" /\ Left(c, x) = [c.entry EXCEPT !.time = LastTime + runs]
          BY <1>1, <1>2, <1>6, <4>2, LeftIs DEF Proper
        <5>2. c.entry \in [kind : {"file", "link"}, time : Nat, size : Nat, what : STRING]
          <6>1. None.kind # "link" /\ Dir.kind # "link"
            BY DEF None, Dir
          <6>2. c.entry \in Thing
            BY <1>2 DEF Order
          <6>3. QED
            BY <5>1, <6>1, <6>2 DEF Thing, Things
        <5>3. /\ Left(c, x).kind = c.entry.kind /\ Left(c, x).what = c.entry.what
              /\ Left(c, x).size = c.entry.size
          BY <5>1, <5>2
        <5>4. \A k : Same(c.entry, k) => Same(Left(c, x), k)
          BY <5>1, <5>3 DEF Same
        <5>5. QED
          BY <3>2, <4>2, <5>4 DEF IsKept
      <4>3. QED
        BY <2>3, <4>1, <4>2
    <3>4. QED
      BY <1>4, <1>5, <2>1, <2>3, <3>2, <3>3
  <2>4. ASSUME x \in Written(c), c.do = "cp -rp"
        PROVE  \A s \in Sides : IsKept(x, tree'[s][x])
    <3>1. tree[t][q] = None
      BY <1>8, <2>4 DEF Strays, Target
    <3>2. x = q \/ IsStrictPrefix(q, x)
      BY <1>3, <2>4, UnderIs DEF Written
    <3>3. tree[t][x] = None
      <4>1. Dir # None
        BY DEF Dir, None
      <4>2. QED
        BY <1>1, <1>3, <1>4, <3>1, <3>2, <4>1 DEF Forests, WellFormed
    <3>4. IsKept(x, tree[Other(t)][x])
      BY <1>1, <1>4, <3>3, OneKept DEF FileKept
    <3>5. Left(c, x) = tree[Other(t)][x]
      BY <1>1, <1>2, <1>5, <1>6, <2>4, LeftIs
    <3>6. QED
      BY <1>4, <2>1, <2>4, <3>4, <3>5
  <2>5. ASSUME x \in Written(c), c.do = "rm"
        PROVE  /\ Pending("rm", c.side, x) /\ tree'[c.side][x] = None
               /\ tree'[Other(c.side)][x] = tree[Other(c.side)][x]
    <3>1. q = x /\ t = c.side
      BY <2>5 DEF Written, SideTo
    <3>2. Pending("rm", c.side, x)
      BY <1>2, <2>5, <3>1 DEF Pending
    <3>3. Left(c, x) = None
      BY <1>1, <1>2, <2>5, LeftIs
    <3>4. QED
      BY <2>1, <2>5, <3>1, <3>2, <3>3
  <2>6. ASSUME x \in Written(c), c.do = "rm -rf" PROVE FALSE
    BY <1>2, <2>6, NoTreeRemoved DEF Written
  <2>7. QED
    BY <1>3, <2>2, <2>3, <2>4, <2>5, <2>6
<1>9. QED
  BY <1>2, <1>7, <1>8

LEMMA ExecuteVersions ==
  ASSUME WalkInv, VersionsInv, Execute
  PROVE  VersionsInv'
<1> SUFFICES ASSUME NEW x \in Paths, Concerned(x)'
             PROVE  (Intersected(x) /\ IF Directory(x) THEN DirectoryKept(x) ELSE FileKept(x))'
  BY DEF VersionsInv
<1> DEFINE c == script[1]
           t == SideTo(c)
<1>1. Types /\ Walk /\ Commands /\ tree \in Forests
  BY DEF WalkInv, Types
<1>2. /\ c \in Order /\ 1 \in 1 .. Len(script)
      /\ script' \in Seq(Order)
      /\ \A i \in 1 .. Len(script') : i + 1 \in 1 .. Len(script) /\ script'[i] = script[i + 1]
      /\ UNCHANGED <<mode, frames, runs, base>>
      /\ \/ Strays(c) /\ strayed' = strayed \cup {c.path} /\ tree' = tree
         \/ ~ Strays(c) /\ Fails(c) /\ strayed' = strayed /\ tree' = tree
         \/ ~ Strays(c) /\ ~ Fails(c) /\ strayed' = strayed /\ tree' = Ran(c)
  BY <1>1, ExecuteIs
<1>3. /\ Kept(x)' = Kept(x) /\ (Directory(x)' <=> Directory(x)) /\ Concerned(x)
      /\ Intersected(x)
      /\ Directory(x) => DirectoryKept(x)
      /\ ~ Directory(x) => FileKept(x)
  <2>1. strayed \subseteq strayed'
    BY <1>2
  <2>2. QED
    BY <1>2, <2>1, KeptStays DEF VersionsInv
<1>4. /\ t \in Sides /\ Other(t) \in Sides /\ \A s \in Sides : s = t \/ s = Other(t)
  BY <1>1, <1>2, RanIs, SidesAre
<1>5. \/ tree' = tree
      \/ /\ ~ Strays(c) /\ ~ Fails(c) /\ tree'[Other(t)] = tree[Other(t)]
         /\ tree'[t][x] = IF x \in Written(c) THEN Left(c, x) ELSE tree[t][x]
  BY <1>1, <1>2, RanIs
<1>6. \A do, s : Pending(do, s, x)' => Pending(do, s, x)
  BY <1>2 DEF Pending
<1>7. Proper(c, c.path) /\ ~ Ahead(c.path) /\ c.do \in {"cp -rp", "cp", "ln", "rm", "rm -rf"}
  BY <1>1, <1>2 DEF Commands, Order
<1>8. c.do = "rm -rf" => x \notin Written(c)
  BY <1>2, <1>3, NoTreeRemoved DEF Written
<1> HIDE DEF c, t
<1>9. Intersected(x)'
  <2>1. ASSUME mode = "intersect", Ahead(x), NEW s \in Sides PROVE tree'[s][x] # None
    <3>1. tree[s][x] # None
      BY <1>3, <2>1 DEF Intersected
    <3>2. x \notin Written(c)
      BY <1>7, <1>8, <2>1 DEF Written, Proper
    <3>3. QED
      BY <1>4, <1>5, <3>1, <3>2
  <2>2. Ahead(x)' => Ahead(x)
    BY <1>2 DEF Ahead
  <2>3. QED
    BY <1>2, <1>3, <1>6, <2>1, <2>2 DEF Intersected
<1>10. ASSUME Directory(x) PROVE DirectoryKept(x)'
  <2>1. PICK s \in Sides : tree[s][x] = Dir
    BY <1>3, <1>10 DEF DirectoryKept
  <2>2. s = t /\ x \in Written(c) => ~ (~ Strays(c) /\ ~ Fails(c))
    BY <1>1, <1>2, <1>8, <2>1, DirectoryStays DEF t
  <2>3. tree'[s][x] = Dir
    BY <1>4, <1>5, <2>1, <2>2
  <2>4. QED
    BY <2>3 DEF DirectoryKept
<1>11. ASSUME ~ Directory(x) PROVE FileKept(x)'
  <2>1. Values(x) /\ Copies(x) /\ Removals(x) /\ Listed(x)
    BY <1>3, <1>11 DEF FileKept
  <2>2. \A e : IsKept(x, e)' <=> IsKept(x, e)
    BY <1>3 DEF IsKept
  <2>3. ASSUME \A i \in 1 .. Len(script) :
                 script[i].path = x /\ script[i].do \in {"cp", "ln"} =>
                   IsKept(x, tree'[script[i].side][x])
        PROVE  Copies(x)'
    <3>1. ASSUME NEW i \in 1 .. Len(script'), NEW d, d = script'[i], d.path = x, d.do \in {"cp", "ln"}
          PROVE  (IsKept(x, tree[d.side][x]) /\ (d.do = "ln" => IsKept(x, d.entry)))'
      <4>1. d = script[i + 1] /\ i + 1 \in 1 .. Len(script)
        BY <1>2, <3>1
      <4>2. IsKept(x, tree'[d.side][x]) /\ (d.do = "ln" => IsKept(x, d.entry))
        BY <2>1, <2>3, <3>1, <4>1 DEF Copies
      <4>3. QED
        BY <1>3, <4>2 DEF IsKept
    <3>2. QED
      BY <3>1 DEF Copies
  <2>4. ASSUME \A s \in Sides : tree'[s][x] = tree[s][x] PROVE FileKept(x)'
    <3>1. \A s \in Sides : IsKept(x, tree[s][x])' <=> IsKept(x, tree[s][x])
      BY <1>3, <2>4 DEF IsKept
    <3>2. Values(x)'
      BY <1>2, <2>1, <2>4, <3>1, SidesAre DEF Values
    <3>3. Copies(x)'
      <4>1. \A i \in 1 .. Len(script) : script[i].side \in Sides
        BY <1>1, ScriptIs
      <4>2. QED
        BY <2>1, <2>3, <2>4, <4>1 DEF Copies
    <3>4. Removals(x)'
      BY <1>6, <2>1, <2>4, <3>1, SidesAre DEF Removals
    <3>5. Listed(x)'
      <4>1. ASSUME NEW i \in 1 .. Len(frames), NEW g, g = frames[i] PROVE Finds(x, g)'
        <5>1. Finds(x, g)
          BY <2>1, <4>1 DEF Listed
        <5>2. QED
          BY <1>2, <1>6, <2>4, <5>1, FindsStays
      <4>2. QED
        BY <1>2, <4>1 DEF Listed
    <3>6. QED
      BY <3>2, <3>3, <3>4, <3>5 DEF FileKept
  <2>5. ASSUME \A s \in Sides : IsKept(x, tree'[s][x]) PROVE FileKept(x)'
    <3>1. \A s \in Sides : IsKept(x, tree[s][x])' /\ tree'[s][x] # None
      BY <1>1, <1>3, <1>11, <2>5, KeptAlike DEF IsKept
    <3>2. Values(x)'
      BY <3>1, SidesAre DEF Values, Sides
    <3>3. Copies(x)'
      <4>1. \A i \in 1 .. Len(script) : script[i].side \in Sides
        BY <1>1, ScriptIs
      <4>2. QED
        BY <2>3, <2>5, <4>1
    <3>4. Removals(x)'
      <4> SUFFICES ASSUME NEW s \in Sides, Pending("rm", s, x)'
                   PROVE  (/\ IsKept(x, tree[Other(s)][x]) /\ tree[Other(s)][x].kind = "file"
                           /\ ~ Pending("rm", Other(s), x) /\ ~ Pending("cp", s, x) /\ ~ Pending("ln", s, x))'
        BY DEF Removals
      <4>1. Other(s) \in Sides
        BY SidesAre
      <4>2. /\ IsKept(x, tree[Other(s)][x]) /\ tree[Other(s)][x].kind = "file"
            /\ ~ Pending("rm", Other(s), x) /\ ~ Pending("cp", s, x) /\ ~ Pending("ln", s, x)
        BY <1>6, <2>1 DEF Removals
      <4>3. tree'[Other(s)][x].kind = "file"
        BY <1>1, <1>3, <1>11, <2>5, <4>1, <4>2, KeptAlike
      <4>4. QED
        BY <1>6, <3>1, <4>1, <4>2, <4>3
    <3>5. Listed(x)'
      <4>1. ASSUME NEW i \in 1 .. Len(frames), NEW g, g = frames[i] PROVE Finds(x, g)'
        <5>1. Finds(x, g)
          BY <2>1, <4>1 DEF Listed
        <5>2. QED
          BY <1>6, <3>1, <5>1, SidesAre DEF Finds, LinkVisited
      <4>2. QED
        BY <1>2, <4>1 DEF Listed
    <3>6. QED
      BY <3>2, <3>3, <3>4, <3>5 DEF FileKept
  <2>6. ASSUME NEW u \in Sides, Pending("rm", u, x),
               tree'[u][x] = None, tree'[Other(u)][x] = tree[Other(u)][x]
        PROVE  FileKept(x)'
    <3> DEFINE o == Other(u)
    <3>1. o \in Sides /\ o # u /\ Other(o) = u /\ \A s \in Sides : s = u \/ s = o
      BY SidesAre
    <3>2. /\ IsKept(x, tree[o][x]) /\ tree[o][x].kind = "file"
          /\ ~ Pending("rm", o, x) /\ ~ Pending("cp", u, x) /\ ~ Pending("ln", u, x)
      BY <2>1, <2>6 DEF Removals
    <3>3. IsKept(x, tree[o][x])' /\ tree'[o][x].kind = "file" /\ tree'[o][x] # None
      BY <1>1, <1>3, <1>11, <2>6, <3>2, KeptAlike DEF IsKept
    <3>4. Values(x)'
      BY <2>6, <3>1, <3>3 DEF Values
    <3>5. Copies(x)'
      <4>1. ASSUME NEW i \in 1 .. Len(script), script[i].path = x, script[i].do \in {"cp", "ln"}
            PROVE  IsKept(x, tree'[script[i].side][x])
        <5>1. Pending(script[i].do, script[i].side, x)
          BY <4>1 DEF Pending
        <5>2. script[i].side \in Sides
          BY <1>1, ScriptIs
        <5>3. script[i].side = o
          BY <3>1, <3>2, <4>1, <5>1, <5>2
        <5>4. QED
          BY <2>6, <3>2, <5>3
      <4>2. QED
        BY <2>3, <4>1
    <3>6. Removals(x)'
      BY <1>6, <3>1, <3>2, <3>3 DEF Removals
    <3>7. Listed(x)'
      <4>1. ASSUME NEW i \in 1 .. Len(frames), NEW g, g = frames[i] PROVE Finds(x, g)'
        <5>1. Finds(x, g)
          BY <2>1, <4>1 DEF Listed
        <5>2. ASSUME NEW s \in Sides, x \in g.list[s]
              PROVE  /\ x \in g.list[u] /\ x \in g.list[o] /\ LinkVisited(g, u, x)
          BY <2>6, <3>1, <5>1, <5>2 DEF Finds
        <5>3. ASSUME NEW s \in Sides, x \in g.list[s]
              PROVE  (/\ x \notin g.list[Other(s)] =>
                           /\ IsKept(x, tree[s][x])
                           /\ tree[Other(s)][x] = None \/ IsKept(x, tree[Other(s)][x])
                           /\ \A v \in Sides : ~ Pending("rm", v, x)
                      /\ tree[s][x] = None => LinkVisited(g, s, x) /\ tree[Other(s)][x].kind = "file"
                      /\ Pending("rm", s, x) => LinkVisited(g, s, x))'
          <6>1. x \in g.list[Other(s)]
            BY <3>1, <5>2, <5>3
          <6>2. tree'[s][x] = None => s = u
            BY <3>1, <3>3
          <6>3. Pending("rm", s, x)' => s = u
            BY <1>6, <3>1, <3>2
          <6>4. LinkVisited(g, u, x)'
            BY <5>2, <5>3 DEF LinkVisited
          <6>5. QED
            BY <3>3, <6>1, <6>2, <6>3, <6>4
        <5>4. QED
          BY <5>3 DEF Finds
      <4>2. QED
        BY <1>2, <4>1 DEF Listed
    <3>8. QED
      BY <3>4, <3>5, <3>6, <3>7 DEF FileKept
  <2>7. QED
    BY <1>3, <1>11, <2>4, <2>5, <2>6, ExecuteDoes DEF c
<1>12. QED
  BY <1>3, <1>9, <1>10, <1>11

-----------------------------------------------------------------------------
(* A start *)

Held ==
  \A p \in Paths : Concerned(p) => IF Directory(p) THEN DirectoryKept(p) ELSE Values(p)

Started ==
  /\ Types /\ frames = <<Enter(Root)>> /\ script = << >>
  /\ mode = "intersect" => base = tree
  /\ Held

LEMMA BaseHeld == Types /\ base = tree => Held
<1> SUFFICES ASSUME Types, base = tree, NEW p \in Paths, Concerned(p)
             PROVE  IF Directory(p) THEN DirectoryKept(p) ELSE Values(p)
  BY DEF Held
<1>1. Directory(p) => DirectoryKept(p)
  BY DEF Directory, DirectoryKept
<1>2. PICK k \in Kept(p) : TRUE
  BY DEF Concerned
<1>3. PICK s \in Sides : k = base[s][p]
  BY VersionsAre
<1>4. IsKept(p, tree[s][p])
  BY <1>2, <1>3, SameAgain DEF IsKept
<1>5. Values(p)
  BY <1>4 DEF Values
<1>6. QED
  BY <1>1, <1>5

LEMMA StartedVersions == Started => VersionsInv
<1> SUFFICES ASSUME Started, NEW x \in Paths, Concerned(x)
             PROVE  Intersected(x) /\ IF Directory(x) THEN DirectoryKept(x) ELSE FileKept(x)
  BY DEF VersionsInv
<1>1. /\ Types /\ Held /\ Len(script) = 0 /\ \A i \in 1 .. Len(frames) : frames[i] = Enter(Root)
      /\ mode = "intersect" => base = tree
  BY RootEntered DEF Started
<1>2. \A do, s : ~ Pending(do, s, x)
  BY <1>1 DEF Pending
<1>3. \A s \in Sides : x \in Enter(Root).list[s] <=> Parent(x) = Root /\ tree[s][x] # None
  BY EnterIs
<1>4. Intersected(x)
  <2>1. mode = "intersect" => \A s \in Sides : tree[s][x] # None
    BY <1>1, VersionsAre
  <2>2. mode = "intersect" => (x \in Enter(Root).list[1] <=> x \in Enter(Root).list[2])
    BY <1>3, <2>1 DEF Sides
  <2>3. QED
    BY <1>1, <1>2, <2>1, <2>2 DEF Intersected
<1>5. ASSUME ~ Directory(x) PROVE FileKept(x)
  <2>1. Values(x)
    BY <1>1, <1>5 DEF Held
  <2>2. Copies(x) /\ Removals(x)
    BY <1>1, <1>2 DEF Copies, Removals
  <2>3. Finds(x, Enter(Root))
    BY <1>1, <1>2, <1>3, <1>5, <2>1, EnteredFinds
  <2>4. QED
    BY <1>1, <2>1, <2>2, <2>3 DEF FileKept, Listed
<1>6. QED
  BY <1>1, <1>4, <1>5 DEF Held

LEMMA InitVersions == Init => VersionsInv
<1> SUFFICES ASSUME Init PROVE VersionsInv
  OBVIOUS
<1>1. Types
  BY InitWalk DEF WalkInv
<1>2. Started
  BY <1>1, BaseHeld DEF Init, Started
<1>3. QED
  BY <1>2, StartedVersions

LEMMA StartAgainStarts ==
  ASSUME WalkInv, VersionsInv, StartAgain, (Types /\ base = tree => Held)'
  PROVE  Started'
<1>1. Types'
  BY StartAgainWalk DEF WalkInv
<1>2. /\ mode' = mode /\ tree' = tree /\ strayed' = strayed
      /\ base' = IF mode = "union" THEN base ELSE tree
      /\ frames' = <<Enter(Root)>> /\ script' = << >>
  BY DEF StartAgain
<1>3. Enter(Root)' = Enter(Root)
  BY <1>2 DEF Enter, Listing
<1>4. mode \in {"union", "intersect"}
  BY DEF WalkInv, Types
<1>5. CASE mode = "intersect"
  BY <1>1, <1>2, <1>3, <1>5 DEF Started
<1>6. CASE mode = "union"
  <2>1. ASSUME NEW p \in Paths, Concerned(p)'
        PROVE  (IF Directory(p) THEN DirectoryKept(p) ELSE Values(p))'
    <3>1. Concerned(p) /\ Kept(p)' = Kept(p) /\ (Directory(p)' <=> Directory(p))
      BY <1>2, <1>6, <2>1, KeptStays
    <3>2. Directory(p) => DirectoryKept(p)'
      BY <1>2, <3>1 DEF VersionsInv, DirectoryKept
    <3>3. ASSUME ~ Directory(p) PROVE Values(p)'
      <4>1. Values(p)
        BY <3>1, <3>3 DEF VersionsInv, FileKept
      <4>2. \A s : IsKept(p, tree[s][p])' <=> IsKept(p, tree[s][p])
        BY <1>2, <3>1 DEF IsKept
      <4>3. QED
        BY <1>2, <1>6, <4>1, <4>2 DEF Values
    <3>4. QED
      BY <3>1, <3>2, <3>3
  <2>2. Held'
    BY <2>1 DEF Held
  <2>3. QED
    BY <1>1, <1>2, <1>3, <1>6, <2>2 DEF Started
<1>7. QED
  BY <1>4, <1>5, <1>6

LEMMA VersionsKept == WalkInv /\ VersionsInv /\ [Next]_vars => VersionsInv'
<1>1. (Types /\ base = tree => Held)'
  BY BaseHeld, PTL
<1>2. (Started => VersionsInv)'
  BY StartedVersions, PTL
<1> SUFFICES ASSUME WalkInv, VersionsInv, [Next]_vars PROVE VersionsInv'
  OBVIOUS
<1>3. CASE StartAgain
  BY <1>1, <1>2, <1>3, StartAgainStarts
<1>4. CASE UNCHANGED vars
  BY <1>4, CallsVersions
<1>5. CASE NextLoop \/ Return
  BY <1>5, CallsVersions
<1>6. CASE Next
  BY <1>3, <1>5, <1>6, VisitVersions, ExecuteVersions DEF Next
<1>7. QED
  BY <1>4, <1>6


(* At no moment between two commands, wherever the walk is, however far    *)
(* the shell is behind it, and however often both are cut off and started  *)
(* again, is the version that is to be kept gone from both trees, a link   *)
(* that is replaced by a file included (synchronize.c:345-346, 646-647).   *)
THEOREM VersionStaysSafe == Spec => []VersionNeverLost
<1>1. WalkInv /\ VersionsInv => VersionNeverLost
  <2> SUFFICES ASSUME WalkInv, VersionsInv, NEW p \in Paths, Settled(p), Kept(p) # {}
               PROVE  \E e \in Kept(p), s \in Sides : Same(tree[s][p], e)
    BY DEF VersionNeverLost
  <2>1. Concerned(p) /\ Types
    BY DEF Concerned, WalkInv
  <2>2. CASE Directory(p)
    <3>1. PICK s \in Sides : tree[s][p] = Dir
      BY <2>1, <2>2 DEF VersionsInv, DirectoryKept
    <3>2. PICK e \in Kept(p) : e = Dir
      BY <2>1, <2>2, VersionsAre
    <3>3. QED
      BY <3>1, <3>2, SameAgain
  <2>3. CASE ~ Directory(p)
    BY <2>1, <2>3 DEF VersionsInv, FileKept, Values, IsKept
  <2>4. QED
    BY <2>2, <2>3
<1>2. QED
  BY <1>1, InitWalk, WalkKept, InitVersions, VersionsKept, PTL DEF Spec

-----------------------------------------------------------------------------
(* Completeness: what the walk has not come to yet, what the shell has not *)
(* run yet, and what both sides agree on is all there is.                  *)

(* Whether a path may be on a side: who had it when the run began.         *)
Had(s, p) ==
  base[s][p] # None \/ (mode = "union" /\ base[Other(s)][p] # None)

(* Nothing comes from nowhere. *)
Origin(p) ==
  \A s \in Sides :
    /\ tree[s][p] # None => Had(s, p)
    /\ \A i \in 1 .. Len(frames) : p \in frames[i].list[s] => Had(s, p)
    /\ \A j \in 1 .. Len(script) :
         script[j].path = p /\ script[j].do \in {"cp", "ln"} => Had(s, p)

(* A directory that is to be kept stays on every side that had it, is what *)
(* the calls listed, and is only copied as a whole.                        *)
DirectoriesStay(p) ==
  /\ \A s \in Sides :
       /\ tree[s][p] \in {None, Dir}
       /\ base[s][p] = Dir => tree[s][p] = Dir
       /\ \A i \in 1 .. Len(frames) : p \in frames[i].list[s] => tree[s][p] = Dir
  /\ \A j \in 1 .. Len(script) : script[j].path = p =>
       script[j].do = "cp -rp" /\ tree[script[j].side][p] = Dir

(* Calls list, and commands name, only what is in a directory of both      *)
(* sides.                                                                  *)
InBoth(p) == Parent(p) = Root \/ \A s \in Sides : tree[s][Parent(p)] = Dir

Parents(p) ==
  /\ \A i \in 1 .. Len(frames), s \in Sides : p \in frames[i].list[s] => InBoth(p)
  /\ \A j \in 1 .. Len(script) : script[j].path = p => InBoth(p)

(* Two files that only their contents tell apart are let alone.            *)
Twins(p) == /\ base[1][p] # base[2][p]
            /\ base[1][p].kind = "file" /\ base[2][p].kind = "file"
            /\ base[1][p].time = base[2][p].time
            /\ base[1][p].size = base[2][p].size

TwinsStay(p) == Twins(p) =>
  /\ \A s \in Sides : tree[s][p] = base[s][p]
  /\ \A j \in 1 .. Len(script) : script[j].path # p
  /\ \A i \in 1 .. Len(frames) : p \in frames[i].list[1] <=> p \in frames[i].list[2]

(* The loop l of call f has yet to come to p. *)
ToCome(f, l, p) ==
  p \in f.list[SideOf(l)] /\ (f.loop < l \/ (f.loop = l /\ p \in f.left))

(* The loop that decides on p, a k on the first side and an l on the       *)
(* second, has yet to come to it.                                          *)
Due(f, p, k, l) ==
  \/ /\ p \in f.list[1] /\ p \in f.list[2]
     /\ \/ k = "file" /\ l = "file" /\ ToCome(f, 3, p)
        \/ k = "link" /\ l \in {"file", "link"} /\ ToCome(f, 5, p)
        \/ k = "file" /\ l = "link" /\ ToCome(f, 6, p)
  \/ /\ p \in f.list[1] /\ p \notin f.list[2]
     /\ (k = "file" /\ ToCome(f, 3, p)) \/ (k = "link" /\ ToCome(f, 5, p))
  \/ /\ p \in f.list[2] /\ p \notin f.list[1]
     /\ (l = "file" /\ ToCome(f, 4, p)) \/ (l = "link" /\ ToCome(f, 6, p))

Now(f, p) == Due(f, p, tree[1][p].kind, tree[2][p].kind)

(* What stands on both sides when a command has run. *)
Leaves(c) == IF c.do = "ln" THEN "link" ELSE "file"

(* One loop of one call prints about p: while its commands are pending no  *)
(* other will, whatever they leave.  "rm" comes with its "cp", and "ln"    *)
(* comes alone.                                                            *)
Once(p) ==
  \A j \in 1 .. Len(script) : script[j].path = p =>
    /\ script[j].do \in {"cp", "ln", "rm"}
    /\ \A i \in 1 .. Len(frames) :
         /\ ~ Now(frames[i], p)
         /\ ~ Due(frames[i], p, Leaves(script[j]), Leaves(script[j]))
    /\ script[j].do = "rm" =>
         \E k \in 1 .. Len(script) : j < k /\ script[k].path = p /\ script[k].do = "cp"
    /\ script[j].do = "ln" =>
         /\ Same(tree[script[j].side][p], script[j].entry)
         /\ \A k \in 1 .. Len(script) : script[k].path = p => k = j

DecidedOnce(p) ==
  /\ Parents(p)
  /\ IF Directory(p) THEN DirectoriesStay(p) ELSE TwinsStay(p) /\ Once(p)

OnceInv ==
  \A p \in Paths : Origin(p) /\ (Concerned(p) => DecidedOnce(p))

(* A command that brings p to the other side is pending. *)
Fixing(p) ==
  \E j \in 1 .. Len(script) :
    \/ script[j].path = p /\ script[j].do \in {"cp", "ln"}
    \/ script[j].do = "cp -rp" /\ IsPrefix(script[j].path, p)

(* Call f will print one, or go down to a call that does. *)
ComesTo(f, p) ==
  \/ \E q \in Paths : IsStrictPrefix(q, p) /\ ToCome(f, 1, q)
  \/ \E q \in Paths : /\ IsPrefix(q, p) /\ Directory(q)
                      /\ q \notin f.list[1] /\ ToCome(f, 2, q)
  \/ Directory(p) /\ p \notin f.list[2] /\ ToCome(f, 1, p)
  \/ ~ Directory(p) /\ Now(f, p)

Coming(p) == \E i \in 1 .. Len(frames) : ComesTo(frames[i], p)

Complete(p) == Agreed(p, Kept(p)) \/ Fixing(p) \/ Coming(p)

(* With -i: a command that removes p from side s is pending, or a call     *)
(* will print one, or go down to a call that does.                         *)
Removing(s, p) ==
  \E j \in 1 .. Len(script) :
    /\ script[j].side = s /\ IsPrefix(script[j].path, p)
    /\ \/ script[j].do = "rm -rf"
       \/ script[j].do = "rm" /\ script[j].path = p /\ tree[s][p] # Dir

LoopFor(s, e) == IF e.kind = "dir" THEN s ELSE IF e.kind = "file" THEN s + 2 ELSE s + 4

WillRemove(f, s, p) ==
  \/ \E q \in Paths : IsStrictPrefix(q, p) /\ q \in f.list[2] /\ ToCome(f, 1, q)
  \/ \E q \in Paths : /\ IsPrefix(q, p) /\ q \notin f.list[Other(s)]
                      /\ ToCome(f, LoopFor(s, tree[s][q]), q)

Losing(s, p) == Removing(s, p) \/ \E i \in 1 .. Len(frames) : WillRemove(frames[i], s, p)

Leaving(p) == \A s \in Sides : tree[s][p] # None => Losing(s, p)

CompleteInv ==
  \A p \in Paths : Settled(p) =>
    /\ Kept(p) # {} => Complete(p)
    /\ mode = "intersect" /\ ~ Common(p) => Leaving(p)

(* The next step from a directory on the way to a path below it. *)
LEMMA TowardIs ==
  ASSUME NEW p \in Paths, NEW d, d = Root \/ (d \in Paths /\ IsStrictPrefix(d, p))
  PROVE  \E r \in Paths : Parent(r) = d /\ (r = p \/ IsStrictPrefix(r, p))
<1> DEFINE n == Len(d)
           r == SubSeq(p, 1, n + 1)
<1>1. p \in Seq(STRING) /\ Len(p) \in Nat /\ Len(p) >= 1
  BY PathIs
<1>2. d \in Seq(STRING) /\ n \in Nat /\ n < Len(p) /\ \A k \in 1 .. n : d[k] = p[k]
  <2>1. CASE d = Root
    BY <1>1, <2>1 DEF Root
  <2>2. CASE d \in Paths /\ IsStrictPrefix(d, p)
    BY <1>1, <2>2, PathIs, PrefixIs
  <2>3. QED
    BY <2>1, <2>2
<1>3. r \in Paths
  <2>1. n + 1 \in 1 .. Len(p)
    BY <1>1, <1>2
  <2>2. QED
    BY <2>1, SynchronizeAssumption
<1>4. r \in Seq(STRING) /\ Len(r) = n + 1 /\ \A k \in 1 .. n + 1 : r[k] = p[k]
  <2>1. \A k \in 1 .. n + 1 : p[k] \in STRING
    BY <1>1, <1>2
  <2>2. /\ r \in Seq(STRING)
        /\ Len(r) = IF 1 <= n + 1 THEN n + 1 - 1 + 1 ELSE 0
        /\ \A k \in 1 .. n + 1 : r[k] = p[k]
    BY <1>2, <2>1, SubSeqProperties
  <2>3. QED
    BY <1>2, <2>2
<1> HIDE DEF r
<1>5. Parent(r) = d
  <2>1. /\ Parent(r) \in Seq(STRING) /\ Len(Parent(r)) = Len(r) - 1
        /\ \A k \in 1 .. Len(r) - 1 : Parent(r)[k] = r[k]
    BY <1>3, PathIs
  <2>2. Len(Parent(r)) = n /\ \A k \in 1 .. n : Parent(r)[k] = d[k]
    BY <1>2, <1>4, <2>1
  <2>3. QED
    BY <1>2, <2>1, <2>2, SeqEqual
<1>6. r = p \/ IsStrictPrefix(r, p)
  <2>1. CASE n + 1 = Len(p)
    BY <1>1, <1>4, <2>1, SeqEqual
  <2>2. CASE n + 1 < Len(p)
    BY <1>1, <1>4, <2>2, PrefixIs
  <2>3. QED
    BY <1>1, <1>2, <2>1, <2>2
<1>7. QED
  BY <1>3, <1>5, <1>6

LEMMA LoopsAre ==
  /\ SideOf(1) = 1 /\ SideOf(2) = 2 /\ SideOf(3) = 1
  /\ SideOf(4) = 2 /\ SideOf(5) = 1 /\ SideOf(6) = 2
  /\ KindOf(1) = "dir" /\ KindOf(2) = "dir" /\ KindOf(3) = "file"
  /\ KindOf(4) = "file" /\ KindOf(5) = "link" /\ KindOf(6) = "link"
BY DEF SideOf, KindOf

(* The visit of v finds an a and, on the other side, a b. *)
Found(v, a, b) ==
  LET f == frames[Len(frames)]
      s == SideOf(f.loop)
      o == Other(s)
  IN  /\ a = tree[s][v] /\ a # None
      /\ b = IF v \in f.list[o] THEN tree[o][v] ELSE None
      /\ v \in f.list[o] => b # None

LEMMA VisitDoes ==
  ASSUME WalkInv, NEW v \in Paths, Visit(v), NEW a, NEW b, Found(v, a, b)
  PROVE  LET n == Len(frames)
         IN  IF a.kind = KindOf(frames[n].loop)
             THEN /\ script' = script \o Printed(SideOf(frames[n].loop), v, a, b)
                  /\ frames[n].loop = 1 /\ b.kind = "dir" =>
                       n + 1 \in 1 .. Len(frames') /\ frames'[n + 1] = Enter(v)
             ELSE script' = script
<1> SUFFICES ASSUME NEW n, n = Len(frames), NEW s, s = SideOf(frames[n].loop), NEW o, o = Other(s)
             PROVE  IF a.kind = KindOf(frames[n].loop)
                    THEN /\ script' = script \o Printed(s, v, a, b)
                         /\ frames[n].loop = 1 /\ b.kind = "dir" =>
                              n + 1 \in 1 .. Len(frames') /\ frames'[n + 1] = Enter(v)
                    ELSE script' = script
  OBVIOUS
<1> DEFINE rest == [frames EXCEPT ![n].left = @ \ {v}]
<1>1. Types /\ Walk
  BY DEF WalkInv
<1>2. n \in Nat /\ 1 <= n /\ frames[n] \in Call /\ s \in Sides /\ Inner = frames[n]
  BY <1>1, InnerIs DEF Visit
<1>3. /\ Lstat(s, v) = {a} /\ (v \in frames[n].list[o] => Lstat(o, v) = {b})
      /\ v \notin frames[n].list[o] => b = None
  BY DEF Lstat, Found
<1>4. IF a.kind # KindOf(frames[n].loop) THEN frames' = rest /\ UNCHANGED script
      ELSE /\ script' = script \o Printed(s, v, a, b)
           /\ frames' = IF frames[n].loop = 1 /\ b.kind = "dir"
                        THEN Append(rest, Enter(v)) ELSE rest
  <2>1. \A x : x \in (IF v \in frames[n].list[o] THEN Lstat(o, v) ELSE {None}) <=> x = b
    BY <1>3
  <2>2. \A x : x \in Lstat(s, v) <=> x = a
    BY <1>3
  <2>3. \E x \in Lstat(SideOf(Inner.loop), v),
           y \in IF v \in Inner.list[Other(SideOf(Inner.loop))]
                 THEN Lstat(Other(SideOf(Inner.loop)), v) ELSE {None} :
          IF x.kind # KindOf(Inner.loop) THEN frames' = rest /\ UNCHANGED script
          ELSE /\ script' = script \o Printed(SideOf(Inner.loop), v, x, y)
               /\ frames' = IF Inner.loop = 1 /\ y.kind = "dir"
                            THEN Append(rest, Enter(v)) ELSE rest
    BY DEF Visit
  <2> HIDE DEF rest
  <2>4. PICK x \in Lstat(s, v), y \in IF v \in frames[n].list[o] THEN Lstat(o, v) ELSE {None} :
           IF x.kind # KindOf(frames[n].loop) THEN frames' = rest /\ UNCHANGED script
           ELSE /\ script' = script \o Printed(s, v, x, y)
                /\ frames' = IF frames[n].loop = 1 /\ y.kind = "dir"
                             THEN Append(rest, Enter(v)) ELSE rest
    BY <1>2, <2>3
  <2>5. x = a /\ y = b
    BY <2>1, <2>2
  <2>6. QED
    BY <2>4, <2>5
<1>5. rest \in Seq(Call) /\ Len(rest) = n
  <2>1. [frames[n] EXCEPT !.left = @ \ {v}] \in Call
    BY <1>2 DEF Call
  <2>2. frames \in Seq(Call) /\ n \in 1 .. Len(frames)
    BY <1>1, <1>2 DEF Types
  <2>3. QED
    BY <2>1, <2>2
<1> HIDE DEF rest
<1>6. LET f == Append(rest, Enter(v)) IN n + 1 \in 1 .. Len(f) /\ f[n + 1] = Enter(v)
  BY <1>2, <1>5, EnterIs, AppendProperties
<1>7. QED
  BY <1>2, <1>4, <1>6

(* What has yet to come, after a visit and after the end of a loop. *)
LEMMA VisitToCome ==
  ASSUME Types, Walk, NEW v \in Paths, Visit(v), NEW n, n = Len(frames)
  PROVE  /\ n \in 1 .. Len(frames) /\ n \in 1 .. Len(frames')
         /\ \A i \in 1 .. Len(frames) :
              /\ i \in 1 .. Len(frames') /\ frames'[i].list = frames[i].list
              /\ \A l \in 1 .. 6 : \A q \in Paths :
                   ToCome(frames'[i], l, q) <=>
                     ToCome(frames[i], l, q) /\ ~ (i = n /\ q = v /\ l = frames[n].loop)
         /\ \A i \in 1 .. Len(frames') :
              i \in 1 .. Len(frames) \/ (i = n + 1 /\ frames'[i] = Enter(v))
         /\ n + 1 \in 1 .. Len(frames') => frames[n].loop = 1
         /\ ToCome(frames[n], frames[n].loop, v)
<1> DEFINE s == SideOf(frames[n].loop)
<1>1. /\ n \in Nat /\ 1 <= n /\ frames[n] \in Call /\ s \in Sides
      /\ v \in frames[n].left /\ v \in frames[n].list[s]
      /\ frames' \in Seq(Call) /\ n <= Len(frames') /\ Len(frames') <= n + 1
      /\ \A i \in 1 .. n : i < n => frames'[i] = frames[i]
      /\ frames'[n].loop = frames[n].loop /\ frames'[n].list = frames[n].list
      /\ frames'[n].left = frames[n].left \ {v}
      /\ n < Len(frames') => frames[n].loop = 1 /\ frames'[n + 1] = Enter(v)
  BY VisitIs
<1>2. frames[n].loop \in 1 .. 6
  BY <1>1 DEF Call
<1>3. ASSUME NEW l \in 1 .. 6, NEW q \in Paths
      PROVE  ToCome(frames'[n], l, q) <=>
               ToCome(frames[n], l, q) /\ ~ (q = v /\ l = frames[n].loop)
  BY <1>1, <1>2 DEF ToCome
<1>4. ASSUME NEW i \in 1 .. Len(frames)
      PROVE  /\ i \in 1 .. Len(frames') /\ frames'[i].list = frames[i].list
             /\ \A l \in 1 .. 6 : \A q \in Paths :
                  ToCome(frames'[i], l, q) <=>
                    ToCome(frames[i], l, q) /\ ~ (i = n /\ q = v /\ l = frames[n].loop)
  <2>1. CASE i = n
    BY <1>1, <1>3, <2>1
  <2>2. CASE i < n
    BY <1>1, <2>2
  <2>3. QED
    BY <1>1, <2>1, <2>2
<1>5. \A i \in 1 .. Len(frames') : i \in 1 .. n \/ (i = n + 1 /\ frames'[i] = Enter(v))
  BY <1>1
<1>6. ToCome(frames[n], frames[n].loop, v)
  BY <1>1 DEF ToCome
<1>7. QED
  BY <1>1, <1>4, <1>5, <1>6

LEMMA CallsToCome ==
  ASSUME Types, Walk, NextLoop \/ Return \/ UNCHANGED vars
  PROVE  /\ UNCHANGED <<mode, tree, script, runs, base, strayed>>
         /\ \A i \in 1 .. Len(frames') :
              /\ i \in 1 .. Len(frames) /\ frames'[i].list = frames[i].list
              /\ \A l \in 1 .. 6 : \A q \in Paths :
                   ToCome(frames'[i], l, q) => ToCome(frames[i], l, q)
         /\ \A i \in 1 .. Len(frames) : \A l \in 1 .. 6 : \A q \in Paths :
              ToCome(frames[i], l, q) =>
                /\ i \in 1 .. Len(frames') /\ frames'[i].list = frames[i].list
                /\ ToCome(frames'[i], l, q)
<1> DEFINE n == Len(frames)
<1>1. CASE NextLoop
  <2>1. /\ n \in Nat /\ 1 <= n /\ frames[n] \in Call /\ frames[n].left = {}
        /\ frames' \in Seq(Call) /\ Len(frames') = n
        /\ \A i \in 1 .. n : i < n => frames'[i] = frames[i]
        /\ frames[n].loop < 6 /\ frames'[n].loop = frames[n].loop + 1
        /\ frames'[n].list = frames[n].list
        /\ frames'[n].left = frames[n].list[SideOf(frames'[n].loop)]
        /\ UNCHANGED <<mode, tree, script, runs, base, strayed>>
    BY <1>1, NextLoopIs
  <2>2. frames[n].loop \in 1 .. 6
    BY <2>1 DEF Call
  <2>3. \A l \in 1 .. 6 : \A q \in Paths : ToCome(frames'[n], l, q) <=> ToCome(frames[n], l, q)
    BY <2>1, <2>2 DEF ToCome
  <2>4. ASSUME NEW i \in 1 .. n
        PROVE  /\ i \in 1 .. Len(frames') /\ frames'[i].list = frames[i].list
               /\ \A l \in 1 .. 6 : \A q \in Paths :
                    ToCome(frames'[i], l, q) <=> ToCome(frames[i], l, q)
    <3>1. CASE i < n
      BY <2>1, <3>1
    <3>2. CASE i = n
      BY <2>1, <2>3, <3>2
    <3>3. QED
      BY <2>1, <3>1, <3>2
  <2>5. QED
    BY <2>1, <2>4
<1>2. CASE Return
  <2>1. /\ n \in Nat /\ 1 <= n
        /\ frames' \in Seq(Call) /\ Len(frames') < n
        /\ \A i \in 1 .. Len(frames') : i \in 1 .. n - 1 /\ frames'[i] = frames[i]
        /\ UNCHANGED <<mode, tree, script, runs, base, strayed>>
    BY <1>2, ReturnIs
  <2>2. Len(frames') = n - 1
    <3>1. frames' = SubSeq(frames, 1, n - 1) /\ \A i \in 1 .. n - 1 : frames[i] \in Call
      BY <1>2, <2>1 DEF Return, Front, Types
    <3>2. Len(frames') = IF 1 <= n - 1 THEN n - 1 - 1 + 1 ELSE 0
      BY <2>1, <3>1, SubSeqProperties
    <3>3. \A m \in Nat : 1 <= m => (IF 1 <= m - 1 THEN m - 1 - 1 + 1 ELSE 0) = m - 1
      OBVIOUS
    <3>4. QED
      BY <2>1, <3>2, <3>3
  <2>3. frames[n].left = {} /\ frames[n].loop = 6
    BY <1>2, InnerIs DEF Return
  <2>4. \A l \in 1 .. 6 : \A q \in Paths : ~ ToCome(frames[n], l, q)
    BY <2>3 DEF ToCome
  <2>5. \A i \in 1 .. n : i = n \/ i \in 1 .. Len(frames')
    BY <2>1, <2>2
  <2>6. \A i \in 1 .. Len(frames') : i \in 1 .. n /\ frames'[i] = frames[i]
    BY <2>1
  <2>7. QED
    BY <2>1, <2>4, <2>5, <2>6
<1>3. CASE UNCHANGED vars
  BY <1>3 DEF vars
<1>4. QED
  BY <1>1, <1>2, <1>3

LEMMA DirIs == Dir # None /\ Dir.kind = "dir" /\ None.kind = "none" /\ Dir \in Thing /\ None \in Thing
BY DEF Dir, None, Thing, Things

(* Of the versions of a path one is as good as any. *)
LEMMA BestExists ==
  ASSUME Types, NEW p \in Paths, NEW t \in Sides, base[t][p] # None
  PROVE  Latest(p) # {} /\ Oldest(p) # {}
<1> DEFINE V == Versions(p)
           e == base[t][p]
           f == base[Other(t)][p]
<1>1. Other(t) \in Sides /\ \A s \in Sides : s = t \/ s = Other(t)
  BY SidesAre
<1>2. e \in V /\ (f # None => f \in V) /\ \A g \in V : g = e \/ g = f
  BY <1>1 DEF Versions
<1>3. e \in Thing /\ f \in Thing
  BY <1>1 DEF Types, Forests
<1>4. ASSUME NEW g \in Thing, NEW h \in Thing
      PROVE  ~ MoreRecent(g, g) /\ ~ (MoreRecent(g, h) /\ MoreRecent(h, g))
  <2>1. g.time \in Nat /\ g.size \in Nat /\ h.time \in Nat /\ h.size \in Nat
    BY ThingIs
  <2>2. ~ MoreRecent(g, g)
    BY <2>1 DEF MoreRecent
  <2>3. MoreRecent(g, h) => ~ MoreRecent(h, g)
    BY <2>1 DEF MoreRecent
  <2>4. QED
    BY <2>2, <2>3
<1>5. /\ ~ MoreRecent(e, e) /\ ~ MoreRecent(f, f)
      /\ ~ (MoreRecent(e, f) /\ MoreRecent(f, e))
  BY <1>3, <1>4
<1> HIDE DEF V, e, f
<1>6. \E g \in V : ~ \E h \in V : MoreRecent(h, g)
  BY <1>2, <1>5
<1>7. \E g \in V : ~ \E h \in V : MoreRecent(g, h)
  BY <1>2, <1>5
<1>8. QED
  BY <1>6, <1>7 DEF Latest, Oldest, V

LEMMA KeptExists ==
  ASSUME Types, NEW p \in Paths, NEW t \in Sides, base[t][p] # None,
         mode = "intersect" => Common(p)
  PROVE  Kept(p) # {}
BY BestExists DEF Kept, Types

(* The directories above a path of which a version is kept are kept too.   *)
LEMMA AboveKept ==
  ASSUME Types, NEW x \in Paths, Concerned(x), NEW q \in Paths, IsStrictPrefix(q, x)
  PROVE  Concerned(q) /\ Directory(q)
<1>1. PICK s \in Sides : base[s][x] # None
  <2>1. Kept(x) \subseteq {base[s][x] : s \in Sides} /\ None \notin Kept(x)
    BY VersionsAre
  <2>2. PICK k \in Kept(x) : TRUE
    BY DEF Concerned
  <2>3. QED
    BY <2>1, <2>2
<1>2. base[s][q] = Dir
  BY <1>1 DEF Types, Forests, WellFormed
<1>3. base[s][q] # None
  BY <1>2, DirIs
<1>4. \A r \in Paths : IsPrefix(r, q) => IsPrefix(r, x)
  BY PrefixOrSame, PrefixesOfPrefix
<1>5. Settled(q) /\ (mode = "intersect" => Common(q))
  BY <1>4, VersionsAre DEF Concerned, Settled, Common
<1>6. Kept(q) # {}
  BY <1>3, <1>5, KeptExists
<1>7. QED
  BY <1>2, <1>5, <1>6 DEF Concerned, Directory

(* What is to be kept is there. *)
LEMMA KeptIsThere ==
  ASSUME WalkInv, VersionsInv, NEW x \in Paths, Concerned(x)
  PROVE  /\ Directory(x) => \E s \in Sides : tree[s][x] = Dir
         /\ ~ Directory(x) => \E s \in Sides : IsKept(x, tree[s][x])
         /\ \E s \in Sides : tree[s][x] # None
<1>1. Types
  BY DEF WalkInv
<1>2. Directory(x) => \E s \in Sides : tree[s][x] = Dir
  BY DEF VersionsInv, DirectoryKept
<1>3. ~ Directory(x) => \E s \in Sides : IsKept(x, tree[s][x])
  BY DEF VersionsInv, FileKept, Values
<1>4. Dir # None
  BY DirIs
<1>5. ~ Directory(x) => \A s \in Sides : IsKept(x, tree[s][x]) => tree[s][x] # None
  BY <1>1, KeptAlike
<1>6. QED
  BY <1>2, <1>3, <1>4, <1>5

(* Of a path that is no directory the trees have files and links. *)
LEMMA FileKinds ==
  ASSUME WalkInv, VersionsInv, NEW x \in Paths, Concerned(x), ~ Directory(x), NEW s \in Sides
  PROVE  /\ tree[s][x] \in Thing /\ tree[s][x].kind \in {"none", "file", "link"}
         /\ tree[s][x].kind = "none" <=> tree[s][x] = None
<1>1. Types /\ Values(x)
  BY DEF WalkInv, VersionsInv, FileKept
<1>2. tree[s][x] \in Thing
  BY <1>1 DEF Types, Forests
<1>3. tree[s][x] \in {None, base[s][x]} \/ IsKept(x, tree[s][x])
  BY <1>1 DEF Values
<1>4. base[s][x].kind \in {"none", "file", "link"} /\ None.kind = "none"
  BY <1>1, VersionsAre DEF None
<1>5. IsKept(x, tree[s][x]) => tree[s][x].kind \in {"file", "link"}
  BY <1>1, KeptAlike
<1>6. QED
  BY <1>2, <1>3, <1>4, <1>5, ThingIs

(* What both trees have alike, and is kept, is agreed. *)
LEMMA AlikeAgreed ==
  ASSUME NEW p, NEW e, IsKept(p, e), \A s \in Sides : Same(tree[s][p], e)
  PROVE  Agreed(p, Kept(p))
<1>1. PICK k \in Kept(p) : Same(e, k)
  BY DEF IsKept
<1>2. \A s \in Sides : Same(tree[s][p], k)
  BY <1>1 DEF Same
<1>3. QED
  BY <1>2 DEF Agreed

(* Both sides have a directory. *)
LEMMA DirectoriesAgree ==
  ASSUME Types, NEW p \in Paths, Concerned(p), Directory(p), \A s \in Sides : tree[s][p] = Dir
  PROVE  Agreed(p, Kept(p))
<1>1. PICK k \in Kept(p) : TRUE
  BY DEF Concerned
<1>2. k = Dir
  BY VersionsAre
<1>3. IsKept(p, Dir)
  BY <1>1, <1>2, SameAgain DEF IsKept
<1>4. QED
  BY <1>3, SameAgain, AlikeAgreed

-----------------------------------------------------------------------------
(* Nothing comes from nowhere *)

LEMMA HadBoth ==
  ASSUME Types, NEW p \in Paths, NEW s \in Sides, mode = "union", Had(s, p)
  PROVE  \A t \in Sides : Had(t, p)
BY SidesAre DEF Had

(* With -i nothing is copied that the other side has not. *)
TakesAway(c) == c.do \in {"rm", "rm -rf"}

LEMMA OutcomeBrings ==
  ASSUME NEW w, NEW s, NEW p, NEW a, NEW b, Outcome(w, s, p, a, b), b = None, mode = "intersect"
  PROVE  \A i \in 1 .. Len(w) : TakesAway(w[i])
<1> DEFINE S == {Delete(s, p), DeleteTree(s, p)}
           Goal == \A i \in 1 .. Len(w) : TakesAway(w[i])
<1> SUFFICES Goal
  OBVIOUS
<1>1. \A c \in S : TakesAway(c)
  <2>1. Delete(s, p).do = "rm" /\ DeleteTree(s, p).do = "rm -rf"
    BY DEF Delete, DeleteTree, Command
  <2>2. TakesAway(Delete(s, p)) /\ TakesAway(DeleteTree(s, p))
    BY <2>1 DEF TakesAway
  <2>3. QED
    BY <2>2
<1> HIDE DEF S
<1>2. CASE w = << >>
  BY <1>2
<1>3. ASSUME NEW c \in S, w = <<c>> PROVE Goal
  BY <1>1, <1>3, OneOrTwo
<1> HIDE DEF Goal
<1>4. w = << >> \/ \E c \in S : w = <<c>>
  <2>1. mode # "union"
    OBVIOUS
  <2>2. QED
    BY <2>1 DEF Outcome, S
<1>5. QED
  BY <1>2, <1>3, <1>4

LEMMA VisitOrigin ==
  ASSUME WalkInv, NEW v \in Paths, Visit(v), NEW x \in Paths, Origin(x)
  PROVE  Origin(x)'
<1> DEFINE n == Len(frames)
           s == SideOf(frames[n].loop)
           o == Other(s)
<1>1. Types /\ Walk /\ script \in Seq(Order)
  BY DEF WalkInv, Types
<1>2. /\ n \in Nat /\ 1 <= n /\ s \in Sides /\ v \in frames[n].list[s]
      /\ UNCHANGED <<mode, tree, runs, base, strayed>>
  BY <1>1, VisitIs
<1>3. /\ n \in 1 .. Len(frames)
      /\ \A i \in 1 .. Len(frames) : frames'[i].list = frames[i].list
      /\ \A i \in 1 .. Len(frames') :
           i \in 1 .. Len(frames) \/ (i = n + 1 /\ frames'[i] = Enter(v))
  BY <1>1, VisitToCome
<1>4. PICK w \in Seq(Order) :
        /\ script' = script \o w
        /\ \A i \in 1 .. Len(w) : Proper(w[i], v)
        /\ w # << >> =>
             \E a \in Lstat(s, v),
                b \in IF v \in frames[n].list[Other(s)] THEN Lstat(Other(s), v) ELSE {None} :
               a.kind = KindOf(frames[n].loop) /\ Outcome(w, s, v, a, b) /\ a \in Thing /\ b \in Thing
  BY VisitPrints
<1>5. \A j \in 1 .. Len(script') :
        \/ j \in 1 .. Len(script) /\ script'[j] = script[j]
        \/ \E m \in 1 .. Len(w) : script'[j] = w[m]
  BY <1>1, <1>4, ScriptGrows
<1>6. \A t : Had(t, x)' <=> Had(t, x)
  BY <1>2 DEF Had
<1>7. ASSUME NEW t \in Sides PROVE tree'[t][x] # None => Had(t, x)'
  BY <1>2, <1>6, <1>7 DEF Origin
<1>8. ASSUME NEW t \in Sides, NEW i \in 1 .. Len(frames'), x \in frames'[i].list[t]
      PROVE  Had(t, x)'
  <2>1. CASE i \in 1 .. Len(frames)
    BY <1>3, <1>6, <1>8, <2>1 DEF Origin
  <2>2. CASE frames'[i] = Enter(v)
    BY <1>6, <1>8, <2>2, EnterIs DEF Origin
  <2>3. QED
    BY <1>3, <2>1, <2>2
<1>9. ASSUME NEW t \in Sides, NEW j \in 1 .. Len(script'), script'[j].path = x,
             script'[j].do \in {"cp", "ln"}
      PROVE  Had(t, x)'
  <2>1. CASE j \in 1 .. Len(script) /\ script'[j] = script[j]
    BY <1>6, <1>9, <2>1 DEF Origin
  <2>2. CASE \E m \in 1 .. Len(w) : script'[j] = w[m]
    <3>1. PICK m \in 1 .. Len(w) : script'[j] = w[m]
      BY <2>2
    <3>2. v = x
      BY <1>4, <1>9, <3>1 DEF Proper
    <3>3. w # << >>
      BY <3>1
    <3>4. Had(s, x)
      BY <1>2, <1>3, <3>2 DEF Origin
    <3>5. CASE mode = "union"
      BY <1>1, <1>2, <1>6, <3>4, <3>5, HadBoth
    <3>6. CASE mode = "intersect"
      <4>1. PICK a \in Lstat(s, v),
                 b \in IF v \in frames[n].list[o] THEN Lstat(o, v) ELSE {None} :
              Outcome(w, s, v, a, b)
        BY <1>4, <3>3
      <4>2. b # None
        BY <1>9, <3>1, <3>6, <4>1, OutcomeBrings DEF TakesAway
      <4>3. v \in frames[n].list[o]
        BY <4>2
      <4>4. Had(o, x)
        BY <1>2, <1>3, <3>2, <4>3, SidesAre DEF Origin
      <4>5. QED
        BY <1>2, <1>6, <3>4, <4>4, SidesAre
    <3>7. QED
      BY <1>1, <3>5, <3>6 DEF Types
  <2>3. QED
    BY <1>5, <2>1, <2>2
<1>10. QED
  BY <1>7, <1>8, <1>9 DEF Origin

LEMMA CallsOrigin ==
  ASSUME WalkInv, NextLoop \/ Return \/ UNCHANGED vars, NEW x \in Paths, Origin(x)
  PROVE  Origin(x)'
<1>1. /\ UNCHANGED <<mode, tree, script, runs, base, strayed>>
      /\ \A i \in 1 .. Len(frames') : i \in 1 .. Len(frames) /\ frames'[i].list = frames[i].list
  BY CallsStay DEF WalkInv
<1>2. \A t : Had(t, x)' <=> Had(t, x)
  BY <1>1 DEF Had
<1>3. QED
  BY <1>1, <1>2 DEF Origin

LEMMA ExecuteOrigin ==
  ASSUME WalkInv, Execute, NEW x \in Paths, Origin(x)
  PROVE  Origin(x)'
<1> DEFINE c == script[1]
           t == SideTo(c)
<1>1. /\ Types /\ Commands /\ tree \in Forests /\ runs \in Nat
  BY SynchronizeAssumption DEF WalkInv, Types
<1>2. /\ c \in Order /\ 1 \in 1 .. Len(script)
      /\ \A i \in 1 .. Len(script') : i + 1 \in 1 .. Len(script) /\ script'[i] = script[i + 1]
      /\ UNCHANGED <<mode, frames, runs, base>>
      /\ \/ Strays(c) /\ strayed' = strayed \cup {c.path} /\ tree' = tree
         \/ ~ Strays(c) /\ Fails(c) /\ strayed' = strayed /\ tree' = tree
         \/ ~ Strays(c) /\ ~ Fails(c) /\ strayed' = strayed /\ tree' = Ran(c)
  BY <1>1, ExecuteIs
<1>3. \A s : Had(s, x)' <=> Had(s, x)
  BY <1>2 DEF Had
<1>4. Proper(c, c.path) /\ c.side \in Sides /\ c.do \in {"cp -rp", "cp", "ln", "rm", "rm -rf"}
  BY <1>1, <1>2 DEF Commands, Order
<1>5. ASSUME NEW s \in Sides, tree'[s][x] # None PROVE Had(s, x)'
  <2>1. CASE tree[s][x] # None
    BY <1>3, <2>1 DEF Origin
  <2>2. CASE tree[s][x] = None
    <3>1. tree' = Ran(c)
      BY <1>2, <1>5, <2>2
    <3>2. s = t /\ x \in Written(c) /\ Left(c, x) # None
      BY <1>1, <1>2, <1>5, <2>2, <3>1, RanIs, SidesAre
    <3>3. CASE c.do \in {"rm", "rm -rf"}
      BY <1>1, <1>2, <1>4, <3>2, <3>3, LeftIs DEF Proper
    <3>4. CASE c.do \in {"cp", "ln"}
      BY <1>2, <1>3, <3>2, <3>4 DEF Written, Origin
    <3>5. CASE c.do = "cp -rp"
      <4>1. tree[c.side][x] # None
        BY <1>1, <1>2, <1>4, <3>2, <3>5, LeftIs DEF Proper
      <4>2. Had(c.side, x) /\ mode = "union"
        BY <1>4, <3>5, <4>1 DEF Origin, Proper
      <4>3. QED
        BY <1>1, <1>3, <1>4, <4>2, HadBoth
    <3>6. QED
      BY <1>4, <3>3, <3>4, <3>5
  <2>3. QED
    BY <2>1, <2>2
<1>6. ASSUME NEW s \in Sides, NEW i \in 1 .. Len(frames'), x \in frames'[i].list[s]
      PROVE  Had(s, x)'
  BY <1>2, <1>3, <1>6 DEF Origin
<1>7. ASSUME NEW s \in Sides, NEW j \in 1 .. Len(script'), script'[j].path = x,
             script'[j].do \in {"cp", "ln"}
      PROVE  Had(s, x)'
  BY <1>2, <1>3, <1>7 DEF Origin
<1>8. QED
  BY <1>5, <1>6, <1>7 DEF Origin

-----------------------------------------------------------------------------
(* Directories stay *)

(* What a command does to a path of which a version is kept. *)
DoesAt(c, x) ==
  LET t == SideTo(c)
  IN  \/ \A s \in Sides : tree'[s][x] = tree[s][x]
      \/ /\ c.path = x /\ c.do \in {"cp", "ln", "rm"} /\ ~ Strays(c) /\ ~ Fails(c)
         /\ tree'[t][x] = Left(c, x) /\ tree'[Other(t)][x] = tree[Other(t)][x]
      \/ /\ c.do = "cp -rp" /\ IsPrefix(c.path, x) /\ t = Other(c.side)
         /\ tree[t][c.path] = None /\ tree[t][x] = None
         /\ tree'[t][x] = tree[c.side][x] /\ tree'[c.side][x] = tree[c.side][x]

LEMMA ExecuteAt ==
  ASSUME WalkInv, VersionsInv, Execute, NEW x \in Paths, Concerned(x)
  PROVE  DoesAt(script[1], x)
<1> SUFFICES ASSUME NEW c, c = script[1], NEW t, t = SideTo(c)
             PROVE
               \/ \A s \in Sides : tree'[s][x] = tree[s][x]
               \/ /\ c.path = x /\ c.do \in {"cp", "ln", "rm"} /\ ~ Strays(c) /\ ~ Fails(c)
                  /\ tree'[t][x] = Left(c, x) /\ tree'[Other(t)][x] = tree[Other(t)][x]
               \/ /\ c.do = "cp -rp" /\ IsPrefix(c.path, x) /\ t = Other(c.side)
                  /\ tree[t][c.path] = None /\ tree[t][x] = None
                  /\ tree'[t][x] = tree[c.side][x] /\ tree'[c.side][x] = tree[c.side][x]
  BY DEF DoesAt
<1>1. /\ Types /\ Commands /\ tree \in Forests /\ runs \in Nat
  BY SynchronizeAssumption DEF WalkInv, Types
<1>2. /\ c \in Order /\ 1 \in 1 .. Len(script)
      /\ \/ Strays(c) /\ strayed' = strayed \cup {c.path} /\ tree' = tree
         \/ ~ Strays(c) /\ Fails(c) /\ strayed' = strayed /\ tree' = tree
         \/ ~ Strays(c) /\ ~ Fails(c) /\ strayed' = strayed /\ tree' = Ran(c)
  BY <1>1, ExecuteIs
<1>3. /\ c.side \in Sides /\ c.path \in Paths /\ c.do \in {"cp -rp", "cp", "ln", "rm", "rm -rf"}
      /\ Proper(c, c.path)
  BY <1>1, <1>2 DEF Commands, Order
<1>4. t \in Sides /\ Other(Other(t)) = t /\ \A s \in Sides : s = t \/ s = Other(t)
  BY <1>1, <1>2, RanIs, SidesAre
<1>5. CASE tree' = tree
  BY <1>5
<1>6. CASE ~ Strays(c) /\ ~ Fails(c) /\ tree' = Ran(c)
  <2>1. /\ tree'[Other(t)] = tree[Other(t)]
        /\ tree'[t][x] = IF x \in Written(c) THEN Left(c, x) ELSE tree[t][x]
    BY <1>1, <1>2, <1>6, RanIs
  <2>2. CASE x \notin Written(c)
    BY <1>4, <2>1, <2>2
  <2>3. ASSUME x \in Written(c), c.do \in {"cp", "ln", "rm"} PROVE c.path = x
    BY <2>3 DEF Written
  <2>4. ASSUME x \in Written(c), c.do = "cp -rp"
        PROVE  /\ IsPrefix(c.path, x) /\ t = Other(c.side)
               /\ tree[t][c.path] = None /\ tree[t][x] = None
               /\ Left(c, x) = tree[c.side][x]
    <3>1. t = Other(c.side) /\ tree[t][c.path] = None
      BY <1>6, <2>4 DEF SideTo, Strays, Target
    <3>2. x = c.path \/ IsStrictPrefix(c.path, x)
      BY <1>3, <2>4, UnderIs DEF Written
    <3>3. tree[t][x] = None
      BY <1>1, <1>3, <1>4, <3>1, <3>2, DirIs DEF Forests, WellFormed
    <3>4. IsPrefix(c.path, x)
      BY <1>3, <3>2, PrefixOrSame
    <3>5. Left(c, x) = tree[c.side][x]
      BY <2>4 DEF Left
    <3>6. QED
      BY <3>1, <3>3, <3>4, <3>5
  <2>5. ASSUME x \in Written(c), c.do = "rm -rf" PROVE FALSE
    BY <1>2, <2>5, NoTreeRemoved DEF Written
  <2>6. c.do = "cp -rp" => Other(t) = c.side
    BY <1>3, SidesAre DEF SideTo
  <2>7. QED
    BY <1>3, <1>6, <2>1, <2>2, <2>3, <2>4, <2>5, <2>6
<1>7. QED
  BY <1>2, <1>5, <1>6

LEMMA ExecuteDirectory ==
  ASSUME WalkInv, VersionsInv, Execute, NEW x \in Paths, Concerned(x), DirectoriesStay(x),
         NEW s \in Sides
  PROVE  /\ tree'[s][x] \in {None, Dir}
         /\ tree[s][x] = Dir => tree'[s][x] = Dir
<1> DEFINE c == script[1]
           t == SideTo(c)
<1>1. 1 \in 1 .. Len(script) /\ c \in Order /\ c.side \in Sides /\ t \in Sides
  <2>1. 1 \in 1 .. Len(script) /\ c \in Order
    BY ExecuteIs DEF WalkInv
  <2>2. QED
    BY <2>1, RanIs DEF WalkInv, Types, Order
<1>2. \A r \in Sides : tree[r][x] \in {None, Dir}
  BY DEF DirectoriesStay
<1>3. c.path = x => c.do = "cp -rp"
  BY <1>1 DEF DirectoriesStay
<1>4. \/ \A r \in Sides : tree'[r][x] = tree[r][x]
      \/ /\ t = Other(c.side) /\ tree[t][x] = None
         /\ tree'[t][x] = tree[c.side][x] /\ tree'[c.side][x] = tree[c.side][x]
  BY <1>3, ExecuteAt DEF DoesAt
<1>5. t = Other(c.side) => s = t \/ s = c.side
  BY <1>1, SidesAre
<1>6. QED
  BY <1>1, <1>2, <1>4, <1>5, DirIs

LEMMA VisitDirectories ==
  ASSUME WalkInv, VersionsInv, NEW v \in Paths, Visit(v), NEW x \in Paths,
         Concerned(x), Directory(x), DirectoriesStay(x)
  PROVE  DirectoriesStay(x)'
<1> DEFINE n == Len(frames)
           s == SideOf(frames[n].loop)
           o == Other(s)
<1>1. Types /\ Walk /\ script \in Seq(Order)
  BY DEF WalkInv, Types
<1>2. /\ n \in Nat /\ 1 <= n /\ s \in Sides /\ v \in frames[n].list[s]
      /\ frames[n] \in Call
      /\ UNCHANGED <<mode, tree, runs, base, strayed>>
  BY <1>1, VisitIs
<1>3. /\ n \in 1 .. Len(frames)
      /\ \A i \in 1 .. Len(frames) : frames'[i].list = frames[i].list
      /\ \A i \in 1 .. Len(frames') :
           i \in 1 .. Len(frames) \/ (i = n + 1 /\ frames'[i] = Enter(v))
  BY <1>1, VisitToCome
<1>4. ASSUME NEW t \in Sides, NEW i \in 1 .. Len(frames'), x \in frames'[i].list[t]
      PROVE  tree[t][x] = Dir
  <2>1. CASE i \in 1 .. Len(frames)
    BY <1>3, <1>4, <2>1 DEF DirectoriesStay
  <2>2. CASE frames'[i] = Enter(v)
    <3>1. tree[t][x] \in {None, Dir}
      BY DEF DirectoriesStay
    <3>2. tree[t][x] # None
      BY <1>4, <2>2, EnterIs
    <3>3. QED
      BY <3>1, <3>2
  <2>3. QED
    BY <1>3, <2>1, <2>2
<1>5. ASSUME NEW j \in 1 .. Len(script'), script'[j].path = x
      PROVE  script'[j].do = "cp -rp" /\ tree[script'[j].side][x] = Dir
  <2>1. PICK w \in Seq(Order) : script' = script \o w /\ \A i \in 1 .. Len(w) : Proper(w[i], v)
    BY VisitPrints
  <2>2. \/ j \in 1 .. Len(script) /\ script'[j] = script[j]
        \/ \E m \in 1 .. Len(w) : script'[j] = w[m]
    BY <1>1, <2>1, ScriptGrows
  <2>3. CASE j \in 1 .. Len(script) /\ script'[j] = script[j]
    BY <1>5, <2>3 DEF DirectoriesStay
  <2>4. ASSUME NEW m \in 1 .. Len(w), script'[j] = w[m], ~ (script'[j].do = "cp -rp" /\ tree[script'[j].side][x] = Dir)
        PROVE  FALSE
    <3>1. v = x
      BY <1>5, <2>1, <2>4 DEF Proper
    <3>2. tree[s][x] = Dir
      BY <1>2, <1>3, <3>1 DEF DirectoriesStay
    <3>3. v \in frames[n].list[o] => tree[o][v] = Dir
      BY <1>2, <1>3, <3>1, SidesAre DEF DirectoriesStay
    <3>4. PICK b : /\ b = IF v \in frames[n].list[o] THEN tree[o][v] ELSE None
                   /\ \/ script' = script \o Printed(s, v, Dir, b)
                      \/ script' = script
      <4>1. ASSUME NEW b, b = IF v \in frames[n].list[o] THEN tree[o][v] ELSE None
            PROVE  script' = script \o Printed(s, v, Dir, b) \/ script' = script
        <5>1. Found(v, Dir, b)
          BY <3>1, <3>2, <3>3, <4>1, DirIs DEF Found
        <5>2. QED
          BY <5>1, VisitDoes
      <4>2. QED
        BY <4>1
    <3>5. Printed(s, v, Dir, b) = IF mode = "union" THEN SyncDir(s, v, b) ELSE IntersectDir(s, v, b)
      BY DirIs DEF Printed
    <3>6. mode = "intersect" => v \in frames[n].list[o]
      <4>1. mode = "intersect" => (v \in frames[n].list[1] <=> v \in frames[n].list[2])
        BY <1>3, <3>1 DEF VersionsInv, Intersected
      <4>2. (s = 1 /\ o = 2) \/ (s = 2 /\ o = 1)
        BY <1>2, SidesAre
      <4>3. QED
        BY <1>2, <4>1, <4>2
    <3>7. \/ script' = script
          \/ script' = script \o << >>
          \/ script' = script \o <<CopyTree(s, v)>>
      BY <1>1, <3>3, <3>4, <3>5, <3>6, DirIs DEF SyncDir, IntersectDir, Types
    <3>8. CASE script' = script \/ script' = script \o << >>
      <4>1. script' = script
        BY <1>1, <3>8, ConcatEmptySeq
      <4>2. QED
        BY <1>5, <2>4, <4>1 DEF DirectoriesStay
    <3>9. CASE script' = script \o <<CopyTree(s, v)>>
      <4>1. CopyTree(s, v) \in Order /\ CopyTree(s, v).do = "cp -rp" /\ CopyTree(s, v).side = s
        BY <1>2, CommandsAre DEF CopyTree, Command
      <4>2. ASSUME NEW k \in Order
            PROVE  <<k>> \in Seq(Order) /\ \A i \in 1 .. Len(<<k>>) : <<k>>[i] = k
        BY OneOrTwo
      <4>3. \/ j \in 1 .. Len(script) /\ script'[j] = script[j]
            \/ script'[j] = CopyTree(s, v)
        <5>1. PICK u \in Seq(Order) : /\ script' = script \o u
                                      /\ \A i \in 1 .. Len(u) : u[i] = CopyTree(s, v)
          BY <3>9, <4>1, <4>2
        <5>2. QED
          BY <1>1, <5>1, ScriptGrows
      <4>4. CASE j \in 1 .. Len(script) /\ script'[j] = script[j]
        BY <1>5, <2>4, <4>4 DEF DirectoriesStay
      <4>5. CASE script'[j] = CopyTree(s, v)
        BY <2>4, <3>1, <3>2, <4>1, <4>5
      <4>6. QED
        BY <4>3, <4>4, <4>5
    <3>10. QED
      BY <3>7, <3>8, <3>9
  <2>5. QED
    BY <2>2, <2>3, <2>4
<1>6. QED
  BY <1>2, <1>4, <1>5 DEF DirectoriesStay

LEMMA CallsDirectories ==
  ASSUME WalkInv, NextLoop \/ Return \/ UNCHANGED vars, NEW x \in Paths, DirectoriesStay(x)
  PROVE  DirectoriesStay(x)'
<1>1. /\ UNCHANGED <<mode, tree, script, runs, base, strayed>>
      /\ \A i \in 1 .. Len(frames') : i \in 1 .. Len(frames) /\ frames'[i].list = frames[i].list
  BY CallsStay DEF WalkInv
<1>2. QED
  BY <1>1 DEF DirectoriesStay

LEMMA ExecuteDirectories ==
  ASSUME WalkInv, VersionsInv, Execute, NEW x \in Paths, Concerned(x), DirectoriesStay(x)
  PROVE  DirectoriesStay(x)'
<1>1. /\ \A i \in 1 .. Len(script') : i + 1 \in 1 .. Len(script) /\ script'[i] = script[i + 1]
      /\ UNCHANGED <<mode, frames, runs, base>>
  BY ExecuteIs DEF WalkInv
<1>2. \A s \in Sides : tree'[s][x] \in {None, Dir} /\ (tree[s][x] = Dir => tree'[s][x] = Dir)
  BY ExecuteDirectory
<1>3. \A s \in Sides :
        /\ base'[s][x] = Dir => tree'[s][x] = Dir
        /\ \A i \in 1 .. Len(frames') : x \in frames'[i].list[s] => tree'[s][x] = Dir
  BY <1>1, <1>2 DEF DirectoriesStay
<1>4. ASSUME NEW j \in 1 .. Len(script'), script'[j].path = x
      PROVE  script'[j].do = "cp -rp" /\ tree'[script'[j].side][x] = Dir
  <2>1. j + 1 \in 1 .. Len(script) /\ script'[j] = script[j + 1]
    BY <1>1
  <2>2. script[j + 1].do = "cp -rp" /\ tree[script[j + 1].side][x] = Dir
    BY <1>4, <2>1 DEF DirectoriesStay
  <2>3. script[j + 1].side \in Sides
    BY <2>1, ScriptIs DEF WalkInv
  <2>4. QED
    BY <1>2, <2>1, <2>2, <2>3
<1>5. QED
  BY <1>2, <1>3, <1>4 DEF DirectoriesStay

-----------------------------------------------------------------------------
(* In a directory of both sides *)

(* The walk goes down only where both sides list the name. *)
LEMMA EntersBoth ==
  ASSUME WalkInv, NEW v \in Paths, Visit(v), Len(frames) + 1 \in 1 .. Len(frames')
  PROVE  \A s \in Sides : v \in frames[Len(frames)].list[s]
<1> SUFFICES ASSUME NEW n, n = Len(frames)
             PROVE  v \in frames[n].list[1] /\ v \in frames[n].list[2]
  BY DEF Sides
<1> DEFINE rest == [frames EXCEPT ![n].left = @ \ {v}]
<1>1. Types /\ Walk /\ n + 1 \in 1 .. Len(frames')
  BY DEF WalkInv
<1>2. n \in Nat /\ 1 <= n /\ frames[n] \in Call /\ Inner = frames[n]
  BY <1>1, InnerIs DEF Visit
<1>3. Len(rest) = n
  BY <1>1, <1>2 DEF Types
<1>4. frames' # rest
  BY <1>1, <1>2, <1>3
<1> HIDE DEF rest
<1>5. frames[n].loop = 1 /\ v \in frames[n].list[1]
  BY <1>1, <1>2, VisitIs, LoopsAre
<1>6. PICK b \in IF v \in frames[n].list[Other(1)] THEN Lstat(Other(1), v) ELSE {None} :
        b.kind = "dir"
  BY <1>2, <1>4, <1>5, LoopsAre DEF Visit, rest
<1>7. Other(1) = 2 /\ 1 \in Sides
  BY DEF Other, Sides
<1>8. b # None
  BY <1>6, DirIs
<1>9. QED
  BY <1>5, <1>6, <1>7, <1>8

(* Above a path of which a version is kept are directories that stay. *)
LEMMA ParentStays ==
  ASSUME WalkInv, OnceInv, NEW x \in Paths, Concerned(x), Parent(x) # Root
  PROVE  /\ Parent(x) \in Paths /\ Concerned(Parent(x)) /\ Directory(Parent(x))
         /\ DirectoriesStay(Parent(x))
<1>1. Types
  BY DEF WalkInv
<1>2. Parent(x) \in Paths /\ IsStrictPrefix(Parent(x), x)
  BY DepthIs
<1>3. Concerned(Parent(x)) /\ Directory(Parent(x))
  BY <1>1, <1>2, AboveKept
<1>4. QED
  BY <1>2, <1>3 DEF OnceInv, DecidedOnce

LEMMA VisitParents ==
  ASSUME WalkInv, OnceInv, NEW v \in Paths, Visit(v), NEW x \in Paths, Concerned(x)
  PROVE  Parents(x)'
<1> DEFINE n == Len(frames)
           s == SideOf(frames[n].loop)
<1>1. Types /\ Walk /\ Parents(x) /\ script \in Seq(Order)
  BY DEF WalkInv, Types, OnceInv, DecidedOnce
<1>2. s \in Sides /\ v \in frames[n].list[s] /\ UNCHANGED tree
  BY <1>1, VisitIs
<1>3. /\ n \in 1 .. Len(frames)
      /\ \A i \in 1 .. Len(frames) : frames'[i].list = frames[i].list
      /\ \A i \in 1 .. Len(frames') :
           i \in 1 .. Len(frames) \/ (i = n + 1 /\ frames'[i] = Enter(v))
  BY <1>1, VisitToCome
<1>4. InBoth(x)' <=> InBoth(x)
  BY <1>2 DEF InBoth
<1>5. ASSUME NEW i \in 1 .. Len(frames'), NEW t \in Sides, x \in frames'[i].list[t]
      PROVE  InBoth(x)
  <2>1. CASE i \in 1 .. Len(frames)
    BY <1>1, <1>3, <1>5, <2>1 DEF Parents
  <2>2. CASE i = n + 1 /\ frames'[i] = Enter(v)
    <3>1. Parent(x) = v
      BY <1>5, <2>2, EnterIs
    <3>2. v # Root
      BY SynchronizeAssumption DEF Root
    <3>3. DirectoriesStay(v)
      BY <3>1, <3>2, ParentStays
    <3>4. n + 1 \in 1 .. Len(frames')
      BY <2>2
    <3>5. \A r \in Sides : v \in frames[n].list[r]
      BY <3>4, EntersBoth
    <3>6. \A r \in Sides : tree[r][v] = Dir
      BY <1>3, <3>3, <3>5 DEF DirectoriesStay
    <3>7. QED
      BY <3>1, <3>6 DEF InBoth
  <2>3. QED
    BY <1>3, <2>1, <2>2
<1>6. ASSUME NEW j \in 1 .. Len(script'), script'[j].path = x
      PROVE  InBoth(x)
  <2>1. PICK w \in Seq(Order) : script' = script \o w /\ \A i \in 1 .. Len(w) : Proper(w[i], v)
    BY VisitPrints
  <2>2. \/ j \in 1 .. Len(script) /\ script'[j] = script[j]
        \/ \E m \in 1 .. Len(w) : script'[j] = w[m]
    BY <1>1, <2>1, ScriptGrows
  <2>3. CASE j \in 1 .. Len(script) /\ script'[j] = script[j]
    BY <1>1, <1>6, <2>3 DEF Parents
  <2>4. CASE \E m \in 1 .. Len(w) : script'[j] = w[m]
    <3>1. v = x
      BY <1>6, <2>1, <2>4 DEF Proper
    <3>2. QED
      BY <1>1, <1>2, <1>3, <3>1 DEF Parents
  <2>5. QED
    BY <2>2, <2>3, <2>4
<1>7. QED
  BY <1>4, <1>5, <1>6 DEF Parents

LEMMA CallsParents ==
  ASSUME WalkInv, NextLoop \/ Return \/ UNCHANGED vars, NEW x \in Paths, Parents(x)
  PROVE  Parents(x)'
<1>1. /\ UNCHANGED <<mode, tree, script, runs, base, strayed>>
      /\ \A i \in 1 .. Len(frames') : i \in 1 .. Len(frames) /\ frames'[i].list = frames[i].list
  BY CallsStay DEF WalkInv
<1>2. InBoth(x)' <=> InBoth(x)
  BY <1>1 DEF InBoth
<1>3. QED
  BY <1>1, <1>2 DEF Parents

(* No command removes or replaces a directory above such a path. *)
LEMMA ExecuteInBoth ==
  ASSUME WalkInv, VersionsInv, OnceInv, Execute, NEW x \in Paths, Concerned(x), InBoth(x)
  PROVE  InBoth(x)'
<1>1. CASE Parent(x) = Root
  BY <1>1 DEF InBoth
<1>2. CASE Parent(x) # Root
  <2>1. /\ Parent(x) \in Paths /\ Concerned(Parent(x)) /\ DirectoriesStay(Parent(x))
    BY <1>2, ParentStays
  <2>2. \A s \in Sides : tree[s][Parent(x)] = Dir => tree'[s][Parent(x)] = Dir
    BY <2>1, ExecuteDirectory
  <2>3. QED
    BY <1>2, <2>2 DEF InBoth
<1>3. QED
  BY <1>1, <1>2

LEMMA ExecuteParents ==
  ASSUME WalkInv, VersionsInv, OnceInv, Execute, NEW x \in Paths, Concerned(x)
  PROVE  Parents(x)'
<1>1. Parents(x)
  BY DEF OnceInv, DecidedOnce
<1>2. /\ \A i \in 1 .. Len(script') : i + 1 \in 1 .. Len(script) /\ script'[i] = script[i + 1]
      /\ UNCHANGED <<mode, frames, runs, base>>
  BY ExecuteIs DEF WalkInv
<1>3. InBoth(x) => InBoth(x)'
  BY ExecuteInBoth
<1>4. QED
  BY <1>1, <1>2, <1>3 DEF Parents

-----------------------------------------------------------------------------
(* One loop of one call prints about a path *)

(* What the operators print for a file or a link, case by case. *)
Prints(w, s, p, a, b) ==
  \/ a.kind = "file" /\ b = None /\ w = <<Copy(s, p)>>
  \/ /\ a.kind = "file" /\ b.kind = "file" /\ s = 1
     /\ a.time # b.time \/ a.size # b.size
     /\ \E t \in Sides : w = <<Copy(t, p)>>
  \/ a.kind = "link" /\ b = None /\ w = <<Link(s, p, a)>>
  \/ /\ a.kind = "link" /\ b.kind = "link" /\ s = 1
     /\ w = <<Link(1, p, a)>> \/ w = <<Link(2, p, b)>>
  \/ /\ a.kind = "link" /\ b.kind = "file"
     /\ w = <<Link(s, p, a)>> \/ w = <<Delete(s, p), Copy(Other(s), p)>>

LEMMA PrintsCases ==
  ASSUME NEW s \in Sides, NEW p, NEW a \in Thing, NEW b \in Thing,
         mode \in {"union", "intersect"}, a.kind \in {"file", "link"}, b = None => mode = "union",
         NEW w, w = Printed(s, p, a, b)
  PROVE  /\ w = << >> \/ Prints(w, s, p, a, b)
         /\ w = << >> => /\ b # None
                         /\ a.kind = "file" /\ b.kind = "file" /\ s = 1 =>
                              a.time = b.time /\ a.size = b.size
                         /\ a.kind = "link" => b.kind # "file" /\ ~ (b.kind = "link" /\ s = 1)
<1>1. /\ a.time \in Nat /\ a.size \in Nat /\ b.time \in Nat /\ b.size \in Nat
      /\ b.kind \in {"none", "dir", "file", "link"} /\ (b.kind = "none" <=> b = None)
  BY ThingIs
<1>2. 1 \in Sides /\ 2 \in Sides
  BY DEF Sides
<1>3. CASE a.kind = "file" /\ b = None
  <2>1. w = SyncFile(s, p, a, b)
    BY <1>3 DEF Printed
  <2>2. w = <<Copy(s, p)>>
    BY <1>1, <1>3, <2>1 DEF SyncFile
  <2>3. w # << >>
    BY <2>2
  <2>4. QED
    BY <1>3, <2>2, <2>3 DEF Prints
<1>4. CASE a.kind = "file" /\ b # None /\ ~ (s = 1 /\ b.kind = "file")
  <2>1. w = << >>
    BY <1>4 DEF Printed, SyncFile, IntersectFile
  <2>2. QED
    BY <1>4, <2>1
<1>5. CASE a.kind = "file" /\ b.kind = "file" /\ s = 1
  <2>1. CASE Newer(a, b) \/ Newer(b, a)
    <3>1. a.time # b.time \/ a.size # b.size
      BY <1>1, <2>1 DEF Newer
    <3>2. w = <<Copy(1, p)>> \/ w = <<Copy(2, p)>>
      BY <1>1, <1>5, <2>1 DEF Printed, SyncFile, IntersectFile
    <3>3. \E t \in Sides : w = <<Copy(t, p)>>
      BY <1>2, <3>2
    <3>4. w # << >>
      BY <3>2
    <3>5. QED
      BY <1>5, <3>1, <3>3, <3>4 DEF Prints
  <2>2. CASE ~ Newer(a, b) /\ ~ Newer(b, a)
    <3>1. w = << >>
      BY <1>1, <1>5, <2>2 DEF Printed, SyncFile, IntersectFile
    <3>2. a.time = b.time /\ a.size = b.size
      BY <1>1, <2>2 DEF Newer
    <3>3. QED
      BY <1>1, <1>5, <3>1, <3>2
  <2>3. QED
    BY <2>1, <2>2
<1>6. CASE a.kind = "link" /\ b = None
  <2>1. w = SyncLink(s, p, a, b)
    BY <1>6 DEF Printed
  <2>2. w = <<Link(s, p, a)>>
    BY <1>1, <1>6, <2>1 DEF SyncLink
  <2>3. w # << >>
    BY <2>2
  <2>4. QED
    BY <1>6, <2>2, <2>3 DEF Prints
<1>7. CASE a.kind = "link" /\ b.kind = "link" /\ s = 1
  <2>1. w = <<Link(1, p, a)>> \/ w = <<Link(2, p, b)>>
    BY <1>1, <1>7 DEF Printed, SyncLink, IntersectLink
  <2>2. QED
    BY <1>7, <2>1 DEF Prints
<1>8. CASE a.kind = "link" /\ b.kind = "file"
  <2>1. w = <<Link(s, p, a)>> \/ w = <<Delete(s, p), Copy(Other(s), p)>>
    BY <1>1, <1>8 DEF Printed, SyncLink, IntersectLink
  <2>2. QED
    BY <1>8, <2>1 DEF Prints
<1>9. CASE a.kind = "link" /\ b # None /\ b.kind # "file" /\ ~ (b.kind = "link" /\ s = 1)
  <2>1. w = << >>
    BY <1>9 DEF Printed, SyncLink, IntersectLink
  <2>2. QED
    BY <1>9, <2>1
<1>10. QED
  BY <1>1, <1>3, <1>4, <1>5, <1>6, <1>7, <1>8, <1>9

(* What a visit of a file or link prints, of what is in the trees. *)
LEMMA VisitPrintsFile ==
  ASSUME WalkInv, VersionsInv, NEW v \in Paths, Visit(v), Concerned(v), ~ Directory(v),
         NEW n, n = Len(frames), NEW s, s = SideOf(frames[n].loop)
  PROVE  \E w \in Seq(Order) : \E a, b \in Thing :
           /\ script' = script \o w
           /\ w = << >> \/ (/\ Prints(w, s, v, a, b) /\ a.kind = KindOf(frames[n].loop)
                            /\ a = tree[s][v] /\ a # None
                            /\ v \in frames[n].list[Other(s)] => b = tree[Other(s)][v] /\ b # None
                            /\ v \notin frames[n].list[Other(s)] => b = None)
<1>1. /\ Types /\ Walk /\ mode \in {"union", "intersect"} /\ tree \in Forests
      /\ FileKept(v) /\ Intersected(v)
  BY DEF WalkInv, Types, VersionsInv
<1>2. s \in Sides /\ Inner = frames[n]
  BY <1>1, InnerIs DEF Visit
<1>3. CASE script' = script
  <2>1. script' = script \o << >> /\ << >> \in Seq(Order)
    BY <1>1, <1>3, ConcatEmptySeq DEF Types
  <2>2. QED
    BY <2>1, DirIs
<1>4. ASSUME NEW a \in Lstat(s, v),
             NEW b \in IF v \in frames[n].list[Other(s)] THEN Lstat(Other(s), v) ELSE {None},
             a.kind = KindOf(frames[n].loop), script' = script \o Printed(s, v, a, b)
      PROVE  \E w \in Seq(Order) :
               /\ script' = script \o w /\ a \in Thing /\ b \in Thing
               /\ w = << >> \/ (/\ Prints(w, s, v, a, b) /\ a.kind = KindOf(frames[n].loop)
                                /\ a = tree[s][v] /\ a # None
                                /\ v \in frames[n].list[Other(s)] =>
                                     b = tree[Other(s)][v] /\ b # None
                                /\ v \notin frames[n].list[Other(s)] => b = None)
  <2> DEFINE w == Printed(s, v, a, b)
  <2>1. /\ a = tree[s][v] /\ a # None
        /\ v \in frames[n].list[Other(s)] => b = tree[Other(s)][v] /\ b # None
        /\ v \notin frames[n].list[Other(s)] => b = None /\ mode = "union"
    BY <1>1, <1>4, VisitFinds
  <2>2. Other(s) \in Sides
    BY <1>2, SidesAre
  <2>3. a \in Thing /\ b \in Thing
    BY <1>1, <1>2, <2>1, <2>2, DirIs DEF Forests
  <2>4. a.kind \in {"file", "link"}
    BY <1>2, <2>1, FileKinds
  <2>5. w = << >> \/ Prints(w, s, v, a, b)
    BY <1>1, <1>2, <1>4, <2>1, <2>3, <2>4, PrintsCases
  <2>6. w \in Seq(Order)
    <3>1. a # None /\ a.kind # "none"
      BY <2>1, <2>4
    <3>2. Outcome(w, s, v, a, b)
      BY <1>1, <1>2, <1>4, <2>3, <3>1, PrintedIs
    <3>3. QED
      BY <1>2, <2>3, <3>2, OutcomeIs
  <2> HIDE DEF w
  <2>7. script' = script \o w
    BY <1>4 DEF w
  <2>8. QED
    BY <1>4, <2>1, <2>3, <2>5, <2>6, <2>7
<1>5. \/ script' = script
      \/ \E a \in Lstat(s, v),
            b \in IF v \in frames[n].list[Other(s)] THEN Lstat(Other(s), v) ELSE {None} :
           a.kind = KindOf(frames[n].loop) /\ script' = script \o Printed(s, v, a, b)
  BY <1>2 DEF Visit
<1>6. CASE \E a \in Lstat(s, v),
              b \in IF v \in frames[n].list[Other(s)] THEN Lstat(Other(s), v) ELSE {None} :
             a.kind = KindOf(frames[n].loop) /\ script' = script \o Printed(s, v, a, b)
  <2>1. PICK a \in Lstat(s, v),
             b \in IF v \in frames[n].list[Other(s)] THEN Lstat(Other(s), v) ELSE {None} :
             a.kind = KindOf(frames[n].loop) /\ script' = script \o Printed(s, v, a, b)
    BY <1>6
  <2>2. PICK w \in Seq(Order) :
          /\ script' = script \o w /\ a \in Thing /\ b \in Thing
          /\ w = << >> \/ (/\ Prints(w, s, v, a, b) /\ a.kind = KindOf(frames[n].loop)
                           /\ a = tree[s][v] /\ a # None
                           /\ v \in frames[n].list[Other(s)] =>
                                b = tree[Other(s)][v] /\ b # None
                           /\ v \notin frames[n].list[Other(s)] => b = None)
    BY <1>4, <2>1
  <2>3. QED
    BY <2>2
<1>7. QED
  BY <1>3, <1>5, <1>6

(* The commands of one visit: "rm" comes with its "cp", "ln" comes alone.  *)
Set(w, x) ==
  \A m \in 1 .. Len(w) :
    /\ w[m].path = x /\ w[m].do \in {"cp", "ln", "rm"}
    /\ w[m].do = "rm" => \E k \in 1 .. Len(w) : m < k /\ w[k].do = "cp"
    /\ w[m].do = "ln" => /\ Same(tree[w[m].side][x], w[m].entry)
                         /\ \A k \in 1 .. Len(w) : k = m

LEMMA SetIs ==
  ASSUME NEW s \in Sides, NEW x
  PROVE  /\ Set(<< >>, x)
         /\ \A t : Set(<<Copy(t, x)>>, x)
         /\ Set(<<Delete(s, x), Copy(Other(s), x)>>, x)
         /\ \A t, e : e = tree[t][x] => Set(<<Link(t, x, e)>>, x)
<1>1. Set(<< >>, x)
  BY DEF Set
<1>2. ASSUME NEW t PROVE Set(<<Copy(t, x)>>, x)
  BY DEF Set, Copy, Command
<1>3. Set(<<Delete(s, x), Copy(Other(s), x)>>, x)
  BY DEF Set, Copy, Delete, Command
<1>4. ASSUME NEW t, NEW e, e = tree[t][x] PROVE Set(<<Link(t, x, e)>>, x)
  <2>1. Same(tree[t][x], e)
    BY <1>4 DEF Same
  <2>2. QED
    BY <2>1 DEF Set, Link, Command
<1>5. QED
  BY <1>1, <1>2, <1>3, <1>4

(* The loop that prints about x is the one that was due, and no other will *)
(* be, whether the commands run or not.                                    *)
LEMMA DueOnce ==
  ASSUME NEW f, NEW g, NEW x, NEW k, NEW l, g.list = f.list, f.loop \in 1 .. 6,
         \A i \in 1 .. 6 : i <= f.loop => ~ ToCome(g, i, x),
         ToCome(f, f.loop, x), x \in f.list[SideOf(f.loop)],
         \/ f.loop = 3 /\ k = "file" /\ (x \in f.list[2] => l = "file")
         \/ f.loop = 4 /\ l = "file" /\ x \notin f.list[1]
         \/ f.loop = 5 /\ k = "link" /\ (x \in f.list[2] => l \in {"file", "link"})
         \/ f.loop = 6 /\ l = "link" /\ (x \in f.list[1] => k = "file")
  PROVE  /\ Due(f, x, k, l) /\ ~ Due(g, x, k, l)
         /\ ~ Due(g, x, "file", "file")
         /\ f.loop > 4 => ~ Due(g, x, "link", "link")
<1>1. CASE f.loop = 3
  <2>1. ToCome(f, 3, x) /\ ~ ToCome(g, 3, x) /\ x \in f.list[1] /\ k = "file"
    BY <1>1, LoopsAre
  <2>2. QED
    BY <1>1, <2>1 DEF Due
<1>2. CASE f.loop = 4
  <2>1. /\ ToCome(f, 4, x) /\ ~ ToCome(g, 4, x) /\ x \in f.list[2] /\ l = "file"
        /\ x \notin f.list[1]
    BY <1>2, LoopsAre
  <2>2. QED
    BY <1>2, <2>1 DEF Due
<1>3. CASE f.loop = 5
  <2>1. /\ ToCome(f, 5, x) /\ ~ ToCome(g, 5, x) /\ ~ ToCome(g, 4, x) /\ ~ ToCome(g, 3, x)
        /\ x \in f.list[1] /\ k = "link"
    BY <1>3, LoopsAre
  <2>2. QED
    BY <1>3, <2>1 DEF Due
<1>4. CASE f.loop = 6
  <2>1. /\ ToCome(f, 6, x) /\ ~ ToCome(g, 6, x) /\ ~ ToCome(g, 5, x) /\ ~ ToCome(g, 4, x)
        /\ ~ ToCome(g, 3, x) /\ x \in f.list[2] /\ l = "link"
    BY <1>4, LoopsAre
  <2>2. QED
    BY <1>4, <2>1 DEF Due
<1>5. QED
  BY <1>1, <1>2, <1>3, <1>4

LEMMA PrintsLeave ==
  ASSUME NEW s \in Sides, NEW x \in Paths, NEW a \in Thing, NEW b \in Thing, NEW w,
         Prints(w, s, x, a, b), a.kind = "link" => a = tree[s][x],
         b.kind = "link" => b = tree[Other(s)][x]
  PROVE  /\ Set(w, x)
         /\ \A m \in 1 .. Len(w) : Leaves(w[m]) \in {"file", "link"}
         /\ a.kind = "file" => \A m \in 1 .. Len(w) : Leaves(w[m]) = "file"
<1>1. CASE \E t \in Sides : w = <<Copy(t, x)>>
  <2>1. PICK t \in Sides : w = <<Copy(t, x)>>
    BY <1>1
  <2>2. Set(w, x)
    BY <2>1, SetIs
  <2>3. \A m \in 1 .. Len(w) : Leaves(w[m]) = "file"
    BY <2>1 DEF Leaves, Copy, Command
  <2>4. QED
    BY <2>2, <2>3
<1>2. CASE w = <<Delete(s, x), Copy(Other(s), x)>>
  <2>1. Set(w, x)
    BY <1>2, SetIs
  <2>2. \A m \in 1 .. Len(w) : Leaves(w[m]) = "file"
    BY <1>2 DEF Leaves, Copy, Delete, Command
  <2>3. QED
    BY <2>1, <2>2
<1>3. CASE a.kind = "link" /\ \E t \in Sides : \E e : w = <<Link(t, x, e)>> /\ e = tree[t][x]
  <2>1. PICK t \in Sides : \E e : w = <<Link(t, x, e)>> /\ e = tree[t][x]
    BY <1>3
  <2>2. Set(w, x)
    BY <2>1, SetIs
  <2>3. \A m \in 1 .. Len(w) : Leaves(w[m]) = "link"
    BY <2>1 DEF Leaves, Link, Command
  <2>4. QED
    BY <1>3, <2>2, <2>3
<1>4. s = 1 => Other(s) = 2
  BY DEF Other
<1>5. 1 \in Sides /\ 2 \in Sides
  BY DEF Sides
<1>6. ASSUME a.kind = "link", w = <<Link(s, x, a)>>
      PROVE  \E t \in Sides : \E e : w = <<Link(t, x, e)>> /\ e = tree[t][x]
  BY <1>6
<1>7. ASSUME a.kind = "link", b.kind = "link", s = 1, w = <<Link(1, x, a)>> \/ w = <<Link(2, x, b)>>
      PROVE  \E t \in Sides : \E e : w = <<Link(t, x, e)>> /\ e = tree[t][x]
  <2>1. a = tree[1][x] /\ b = tree[2][x]
    BY <1>4, <1>7
  <2>2. QED
    BY <1>5, <1>7, <2>1
<1>8. QED
  BY <1>1, <1>2, <1>3, <1>6, <1>7 DEF Prints

(* A visit that prints was due, and after it nothing is. *)
LEMMA VisitDue ==
  ASSUME WalkInv, VersionsInv, NEW x \in Paths, Visit(x), Concerned(x), ~ Directory(x),
         NEW n, n = Len(frames), NEW s, s = SideOf(frames[n].loop),
         NEW a \in Thing, NEW b \in Thing, NEW w, Prints(w, s, x, a, b),
         a.kind = KindOf(frames[n].loop), a = tree[s][x],
         x \in frames[n].list[Other(s)] => b = tree[Other(s)][x] /\ b # None,
         x \notin frames[n].list[Other(s)] => b = None
  PROVE  /\ Now(frames[n], x)
         /\ ~ Due(frames'[n], x, tree[1][x].kind, tree[2][x].kind)
         /\ Set(w, x)
         /\ \A m \in 1 .. Len(w) : ~ Due(frames'[n], x, Leaves(w[m]), Leaves(w[m]))
<1> DEFINE f == frames[n]
           g == frames'[n]
           k == tree[1][x].kind
           l == tree[2][x].kind
<1>1. Types /\ Walk
  BY DEF WalkInv
<1>2. /\ n \in 1 .. Len(frames) /\ g.list = f.list /\ ToCome(f, f.loop, x)
      /\ \A i \in 1 .. 6 : ToCome(g, i, x) <=> ToCome(f, i, x) /\ i # f.loop
  BY <1>1, VisitToCome
<1>3. f.loop \in 1 .. 6 /\ s \in Sides /\ x \in f.list[s]
  BY <1>1, VisitIs DEF Call
<1>4. \A i \in 1 .. 6 : i <= f.loop => ~ ToCome(g, i, x)
  <2> SUFFICES ASSUME NEW i \in 1 .. 6, i <= f.loop, i # f.loop, ToCome(f, i, x) PROVE FALSE
    BY <1>2
  <2>1. ~ (f.loop < i) /\ f.loop # i
    BY <1>3
  <2>2. QED
    BY <2>1 DEF ToCome
<1>5. /\ a.kind \in {"file", "link"} /\ b.kind \in {"none", "file", "link"}
      /\ b.kind = "none" <=> b = None
      /\ (s = 1 /\ Other(s) = 2) \/ (s = 2 /\ Other(s) = 1)
      /\ k \in {"none", "file", "link"} /\ l \in {"none", "file", "link"}
  <2>1. (s = 1 /\ Other(s) = 2) \/ (s = 2 /\ Other(s) = 1)
    BY <1>3, SidesAre
  <2>2. 1 \in Sides /\ 2 \in Sides /\ Other(s) \in Sides
    BY <1>3, SidesAre DEF Sides
  <2>3. \A t \in Sides : tree[t][x].kind \in {"none", "file", "link"}
    BY FileKinds
  <2>4. b = None \/ b = tree[Other(s)][x]
    OBVIOUS
  <2>5. b.kind \in {"none", "file", "link"}
    BY <2>2, <2>3, <2>4, DirIs
  <2>6. a.kind \in {"file", "link"}
    BY DEF Prints
  <2>7. QED
    BY <2>1, <2>2, <2>3, <2>5, <2>6, ThingIs
<1>6. \/ f.loop = 3 /\ k = "file" /\ (x \in f.list[2] => l = "file")
      \/ f.loop = 4 /\ l = "file" /\ x \notin f.list[1]
      \/ f.loop = 5 /\ k = "link" /\ (x \in f.list[2] => l \in {"file", "link"})
      \/ f.loop = 6 /\ l = "link" /\ (x \in f.list[1] => k = "file")
  <2>1. /\ a.kind = "file" => f.loop \in {3, 4}
        /\ a.kind = "link" => f.loop \in {5, 6}
        /\ f.loop \in {3, 5} => s = 1
        /\ f.loop \in {4, 6} => s = 2
    BY <1>3, LoopsAre
  <2>2. /\ a.kind = "file" => b = None \/ (b.kind = "file" /\ s = 1)
        /\ a.kind = "link" => b = None \/ (b.kind = "link" /\ s = 1) \/ b.kind = "file"
    BY DEF Prints
  <2>3. CASE s = 1
    <3>1. a.kind = k /\ (x \in f.list[2] => b.kind = l /\ b # None)
      BY <1>5, <2>3
    <3>2. QED
      BY <1>5, <2>1, <2>2, <2>3, <3>1
  <2>4. CASE s = 2
    <3>1. a.kind = l /\ (x \in f.list[1] => b.kind = k /\ b # None)
      BY <1>5, <2>4
    <3>2. QED
      BY <1>5, <2>1, <2>2, <2>4, <3>1
  <2>5. QED
    BY <1>5, <2>3, <2>4
<1>7. /\ Due(f, x, k, l) /\ ~ Due(g, x, k, l)
      /\ ~ Due(g, x, "file", "file")
      /\ f.loop > 4 => ~ Due(g, x, "link", "link")
  <2>1. g.list = f.list /\ ToCome(f, f.loop, x) /\ x \in f.list[SideOf(f.loop)]
    BY <1>2, <1>3
  <2> HIDE DEF f, g, k, l
  <2>2. QED
    BY <1>3, <1>4, <1>6, <2>1, DueOnce
<1>8. /\ Set(w, x)
      /\ \A m \in 1 .. Len(w) : Leaves(w[m]) \in {"file", "link"}
      /\ a.kind = "file" => \A m \in 1 .. Len(w) : Leaves(w[m]) = "file"
  <2>1. b.kind = "link" => b = tree[Other(s)][x]
    BY <1>5
  <2>2. QED
    BY <1>3, <2>1, PrintsLeave
<1>9. a.kind = "link" => f.loop > 4
  <2>1. f.loop \in {1, 2, 3, 4} => KindOf(f.loop) # "link"
    BY LoopsAre
  <2>2. QED
    BY <1>3, <2>1
<1>10. \A m \in 1 .. Len(w) : ~ Due(g, x, Leaves(w[m]), Leaves(w[m]))
  BY <1>5, <1>7, <1>8, <1>9
<1>11. QED
  BY <1>7, <1>8, <1>10 DEF Now

LEMMA DueShrinks ==
  ASSUME NEW f, NEW g, NEW x, g.list = f.list,
         \A i \in 1 .. 6 : ToCome(g, i, x) => ToCome(f, i, x)
  PROVE  \A k, l : Due(g, x, k, l) => Due(f, x, k, l)
<1>1. /\ ToCome(g, 3, x) => ToCome(f, 3, x)
      /\ ToCome(g, 4, x) => ToCome(f, 4, x)
      /\ ToCome(g, 5, x) => ToCome(f, 5, x)
      /\ ToCome(g, 6, x) => ToCome(f, 6, x)
  OBVIOUS
<1>2. QED
  BY <1>1 DEF Due

(* Nothing is due of what is not listed. *)
LEMMA DueListed ==
  ASSUME NEW f, NEW x, NEW k, NEW l, Due(f, x, k, l)
  PROVE  \E s \in Sides : x \in f.list[s]
<1>1. 1 \in Sides /\ 2 \in Sides
  BY DEF Sides
<1>2. x \in f.list[1] \/ x \in f.list[2]
  BY DEF Due
<1>3. QED
  BY <1>1, <1>2

(* As long as nothing is printed about x and it is not listed anew.        *)
LEMMA OnceStays ==
  ASSUME Types, NEW x, Once(x), \A s \in Sides : tree'[s][x] = tree[s][x],
         \A j \in 1 .. Len(script) : j \in 1 .. Len(script') /\ script'[j] = script[j],
         \A j \in 1 .. Len(script') : script'[j].path = x => j \in 1 .. Len(script),
         \A j \in 1 .. Len(script) : script[j].path = x =>
           \A i \in 1 .. Len(frames') : \A k, l :
             Due(frames'[i], x, k, l) => \E h \in 1 .. Len(frames) : Due(frames[h], x, k, l)
  PROVE  Once(x)'
<1> SUFFICES ASSUME NEW j \in 1 .. Len(script'), script'[j].path = x
             PROVE  (/\ script[j].do \in {"cp", "ln", "rm"}
                     /\ \A i \in 1 .. Len(frames) :
                          /\ ~ Now(frames[i], x)
                          /\ ~ Due(frames[i], x, Leaves(script[j]), Leaves(script[j]))
                     /\ script[j].do = "rm" =>
                          \E k \in 1 .. Len(script) : j < k /\ script[k].path = x /\ script[k].do = "cp"
                     /\ script[j].do = "ln" =>
                          /\ Same(tree[script[j].side][x], script[j].entry)
                          /\ \A k \in 1 .. Len(script) : script[k].path = x => k = j)'
  BY DEF Once
<1>1. j \in 1 .. Len(script) /\ script'[j] = script[j] /\ script[j].path = x
  OBVIOUS
<1>2. script[j].side \in Sides /\ 1 \in Sides /\ 2 \in Sides
  BY <1>1, ScriptIs DEF Sides
<1>3. script'[j].do \in {"cp", "ln", "rm"}
  BY <1>1 DEF Once
<1>4. ASSUME NEW i \in 1 .. Len(frames')
      PROVE  /\ ~ Due(frames'[i], x, tree[1][x].kind, tree[2][x].kind)
             /\ ~ Due(frames'[i], x, Leaves(script[j]), Leaves(script[j]))
  <2>1. \A h \in 1 .. Len(frames) :
          /\ ~ Due(frames[h], x, tree[1][x].kind, tree[2][x].kind)
          /\ ~ Due(frames[h], x, Leaves(script[j]), Leaves(script[j]))
    BY <1>1 DEF Once, Now
  <2>2. QED
    BY <1>1, <2>1
<1>5. Leaves(script[j])' = Leaves(script[j])
  BY <1>1 DEF Leaves
<1>6. \A i \in 1 .. Len(frames') :
        /\ ~ Due(frames'[i], x, tree'[1][x].kind, tree'[2][x].kind)
        /\ ~ Due(frames'[i], x, Leaves(script[j])', Leaves(script[j])')
  BY <1>2, <1>4, <1>5
<1>7. script'[j].do = "rm" =>
        \E k \in 1 .. Len(script') : j < k /\ script'[k].path = x /\ script'[k].do = "cp"
  BY <1>1 DEF Once
<1>8. script'[j].do = "ln" =>
        /\ Same(tree[script'[j].side][x], script'[j].entry)
        /\ \A k \in 1 .. Len(script') : script'[k].path = x => k = j
  <2>1. \A k \in 1 .. Len(script') : script'[k].path = x => k \in 1 .. Len(script) /\ script[k].path = x
    OBVIOUS
  <2>2. QED
    BY <1>1, <2>1 DEF Once
<1>9. (\A i \in 1 .. Len(frames) :
         /\ ~ Now(frames[i], x)
         /\ ~ Due(frames[i], x, Leaves(script[j]), Leaves(script[j])))'
  BY <1>6 DEF Now
<1>10. tree'[script'[j].side][x] = tree[script'[j].side][x]
  BY <1>1, <1>2
<1>11. QED
  BY <1>3, <1>7, <1>8, <1>9, <1>10 DEF Same

(* The commands of a visit are all there are about its path. *)
LEMMA SetPrinted ==
  ASSUME script \in Seq(Order), NEW w \in Seq(Order), script' = script \o w, NEW x,
         Set(w, x), tree' = tree, \A j \in 1 .. Len(script) : script[j].path # x,
         \A m \in 1 .. Len(w) : \A i \in 1 .. Len(frames') :
           /\ ~ Due(frames'[i], x, tree[1][x].kind, tree[2][x].kind)
           /\ ~ Due(frames'[i], x, Leaves(w[m]), Leaves(w[m]))
  PROVE  Once(x)'
<1> DEFINE N == Len(script)
<1>1. /\ Len(script') = N + Len(w) /\ N \in Nat /\ Len(w) \in Nat
      /\ \A i \in 1 .. N + Len(w) :
           script'[i] = IF i <= N THEN script[i] ELSE w[i - N]
  BY ConcatProperties
<1>2. \A j \in 1 .. Len(script') : script'[j].path = x =>
        j - N \in 1 .. Len(w) /\ script'[j] = w[j - N] /\ j = (j - N) + N
  BY <1>1
<1>3. \A m \in 1 .. Len(w) : m + N \in 1 .. Len(script') /\ script'[m + N] = w[m]
  BY <1>1
<1> SUFFICES ASSUME NEW j \in 1 .. Len(script'), script'[j].path = x
             PROVE  (/\ script[j].do \in {"cp", "ln", "rm"}
                     /\ \A i \in 1 .. Len(frames) :
                          /\ ~ Now(frames[i], x)
                          /\ ~ Due(frames[i], x, Leaves(script[j]), Leaves(script[j]))
                     /\ script[j].do = "rm" =>
                          \E k \in 1 .. Len(script) : j < k /\ script[k].path = x /\ script[k].do = "cp"
                     /\ script[j].do = "ln" =>
                          /\ Same(tree[script[j].side][x], script[j].entry)
                          /\ \A k \in 1 .. Len(script) : script[k].path = x => k = j)'
  BY DEF Once
<1>4. PICK m \in 1 .. Len(w) : script'[j] = w[m] /\ j = m + N
  BY <1>2
<1> HIDE DEF N
<1>5. (\A i \in 1 .. Len(frames) :
         /\ ~ Now(frames[i], x)
         /\ ~ Due(frames[i], x, Leaves(script[j]), Leaves(script[j])))'
  <2>1. Leaves(script[j])' = Leaves(w[m])
    BY <1>4 DEF Leaves
  <2>2. QED
    BY <2>1 DEF Now
<1>6. w[m].do \in {"cp", "ln", "rm"} /\ w[m].path = x
  BY DEF Set
<1>7. ASSUME w[m].do = "rm"
      PROVE  \E k \in 1 .. Len(script') : j < k /\ script'[k].path = x /\ script'[k].do = "cp"
  <2>1. PICK k \in 1 .. Len(w) : m < k /\ w[k].do = "cp" /\ w[k].path = x
    BY <1>7 DEF Set
  <2>2. k + N \in 1 .. Len(script') /\ script'[k + N] = w[k]
    BY <1>3
  <2>3. j < k + N
    BY <1>1, <1>4, <2>1
  <2>4. QED
    BY <2>1, <2>2, <2>3
<1>8. ASSUME w[m].do = "ln"
      PROVE  /\ Same(tree[w[m].side][x], w[m].entry)
             /\ \A k \in 1 .. Len(script') : script'[k].path = x => k = j
  <2>1. /\ Same(tree[w[m].side][x], w[m].entry)
        /\ \A k \in 1 .. Len(w) : k = m
    BY <1>8 DEF Set
  <2>2. ASSUME NEW k \in 1 .. Len(script'), script'[k].path = x PROVE k = j
    <3>1. PICK i \in 1 .. Len(w) : k = i + N
      BY <1>2, <2>2
    <3>2. i = m
      BY <2>1
    <3>3. QED
      BY <1>4, <3>1, <3>2
  <2>3. QED
    BY <2>1, <2>2
<1>9. QED
  BY <1>4, <1>5, <1>6, <1>7, <1>8 DEF Same

LEMMA VisitOnce ==
  ASSUME WalkInv, VersionsInv, NEW v \in Paths, Visit(v), NEW x \in Paths,
         Concerned(x), ~ Directory(x), Once(x)
  PROVE  Once(x)'
<1> DEFINE n == Len(frames)
           s == SideOf(frames[n].loop)
<1>1. Types /\ Walk /\ Commands /\ script \in Seq(Order)
  BY DEF WalkInv, Types
<1>2. /\ n \in Nat /\ s \in Sides /\ v \in frames[n].left /\ Depth(v) = n /\ tree' = tree
      /\ v \in frames[n].list[s]
  BY <1>1, VisitIs
<1>3. /\ n \in 1 .. Len(frames)
      /\ \A i \in 1 .. Len(frames) :
           /\ frames'[i].list = frames[i].list
           /\ \A l \in 1 .. 6 : ToCome(frames'[i], l, x) => ToCome(frames[i], l, x)
      /\ \A i \in 1 .. Len(frames') :
           i \in 1 .. Len(frames) \/ (i = n + 1 /\ frames'[i] = Enter(v))
      /\ n + 1 \in 1 .. Len(frames') => frames[n].loop = 1
  BY <1>1, VisitToCome
<1>4. \A i \in 1 .. Len(frames) : \A k, l : Due(frames'[i], x, k, l) => Due(frames[i], x, k, l)
  BY <1>3, DueShrinks
<1>5. \A k, l : Due(Enter(v), x, k, l) => Parent(x) = v
  BY DueListed, EnterIs
<1>6. ASSUME NEW j \in 1 .. Len(script), script[j].path = x, n + 1 \in 1 .. Len(frames')
      PROVE  Parent(x) # v
  <2> SUFFICES ASSUME Parent(x) = v PROVE FALSE
    OBVIOUS
  <2>1. IsStrictPrefix(v, x)
    BY ChildIs
  <2>2. Ahead(x)
    BY <1>2, <1>3, <1>6, <2>1 DEF Ahead
  <2>3. QED
    BY <1>1, <1>6, <2>2 DEF Commands
<1>7. PICK w \in Seq(Order) : script' = script \o w /\ \A i \in 1 .. Len(w) : Proper(w[i], v)
  BY VisitPrints
<1>8. /\ w = << >> => script' = script
      /\ \A j \in 1 .. Len(script) : j \in 1 .. Len(script') /\ script'[j] = script[j]
      /\ \A j \in 1 .. Len(script') :
           \/ j \in 1 .. Len(script) /\ script'[j] = script[j]
           \/ \E m \in 1 .. Len(w) : script'[j] = w[m]
  BY <1>1, <1>7, ScriptGrows
<1>9. ASSUME \A j \in 1 .. Len(script') : script'[j].path = x => j \in 1 .. Len(script)
      PROVE  Once(x)'
  <2>1. \A j \in 1 .. Len(script) : script[j].path = x =>
          \A i \in 1 .. Len(frames') : \A k, l :
            Due(frames'[i], x, k, l) => \E h \in 1 .. Len(frames) : Due(frames[h], x, k, l)
    BY <1>3, <1>4, <1>5, <1>6
  <2>2. QED
    BY <1>1, <1>2, <1>8, <1>9, <2>1, OnceStays
<1>10. CASE v # x
  <2>1. \A m \in 1 .. Len(w) : w[m].path # x
    BY <1>7, <1>10 DEF Proper
  <2>2. QED
    BY <1>8, <1>9, <2>1
<1>11. CASE v = x
  <2>1. PICK u \in Seq(Order) : \E a, b \in Thing :
          /\ script' = script \o u
          /\ u = << >> \/ (/\ Prints(u, s, x, a, b) /\ a.kind = KindOf(frames[n].loop)
                           /\ a = tree[s][x] /\ a # None
                           /\ x \in frames[n].list[Other(s)] => b = tree[Other(s)][x] /\ b # None
                           /\ x \notin frames[n].list[Other(s)] => b = None)
    BY <1>11, VisitPrintsFile
  <2>2. CASE u = << >>
    <3>1. script' = script
      BY <1>1, <2>1, <2>2, ConcatEmptySeq
    <3>2. QED
      BY <1>9, <3>1
  <2>3. CASE u # << >>
    <3>1. PICK a \in Thing, b \in Thing :
            /\ script' = script \o u
            /\ Prints(u, s, x, a, b) /\ a.kind = KindOf(frames[n].loop) /\ a = tree[s][x]
            /\ x \in frames[n].list[Other(s)] => b = tree[Other(s)][x] /\ b # None
            /\ x \notin frames[n].list[Other(s)] => b = None
      BY <2>1, <2>3
    <3>2. /\ Now(frames[n], x)
          /\ ~ Due(frames'[n], x, tree[1][x].kind, tree[2][x].kind)
          /\ Set(u, x)
          /\ \A m \in 1 .. Len(u) : ~ Due(frames'[n], x, Leaves(u[m]), Leaves(u[m]))
      BY <1>11, <3>1, VisitDue
    <3>3. \A j \in 1 .. Len(script) : script[j].path # x
      BY <1>3, <3>2 DEF Once
    <3>4. ASSUME NEW i \in 1 .. Len(frames'), i # n, NEW k, NEW l PROVE ~ Due(frames'[i], x, k, l)
      <4>1. CASE i \in 1 .. Len(frames)
        <5>1. \A t \in Sides : x \notin frames[i].list[t]
          BY <1>1, <1>2, <1>11, <3>4, <4>1 DEF Walk
        <5>2. QED
          BY <1>3, <4>1, <5>1, DueListed
      <4>2. CASE frames'[i] = Enter(v)
        <5>1. Parent(x) # x
          <6>1. Depth(x) \in Nat /\ 1 <= Depth(x) /\ (Parent(x) = Root <=> Depth(x) = 1)
                /\ (1 < Depth(x) => Depth(Parent(x)) = Depth(x) - 1)
            BY DepthIs
          <6>2. x # Root
            BY SynchronizeAssumption DEF Root
          <6>3. QED
            BY <6>1, <6>2
        <5>2. QED
          BY <1>5, <1>11, <4>2, <5>1
      <4>3. QED
        BY <1>3, <4>1, <4>2
    <3>5. \A m \in 1 .. Len(u) : \A i \in 1 .. Len(frames') :
            /\ ~ Due(frames'[i], x, tree[1][x].kind, tree[2][x].kind)
            /\ ~ Due(frames'[i], x, Leaves(u[m]), Leaves(u[m]))
      BY <3>2, <3>4
    <3>6. QED
      BY <1>1, <1>2, <3>1, <3>2, <3>3, <3>5, SetPrinted
  <2>4. QED
    BY <2>2, <2>3
<1>12. QED
  BY <1>10, <1>11

LEMMA CallsOnce ==
  ASSUME WalkInv, NextLoop \/ Return \/ UNCHANGED vars, NEW x \in Paths, Once(x)
  PROVE  Once(x)'
<1>1. Types /\ Walk
  BY DEF WalkInv
<1>2. /\ UNCHANGED <<mode, tree, script, runs, base, strayed>>
      /\ \A i \in 1 .. Len(frames') :
           /\ i \in 1 .. Len(frames) /\ frames'[i].list = frames[i].list
           /\ \A l \in 1 .. 6 : ToCome(frames'[i], l, x) => ToCome(frames[i], l, x)
  BY <1>1, CallsToCome
<1>3. \A i \in 1 .. Len(frames') : i \in 1 .. Len(frames)
        /\ \A k, l : Due(frames'[i], x, k, l) => Due(frames[i], x, k, l)
  BY <1>2, DueShrinks
<1>4. QED
  BY <1>1, <1>2, <1>3, OnceStays

(* While a command about x is pending nothing above x is copied. *)
About(x) == \E j \in 1 .. Len(script) : script[j].path = x

LEMMA AboveChild ==
  ASSUME NEW q \in Paths, NEW p \in Paths, IsStrictPrefix(q, p)
  PROVE  /\ Parent(p) # Root /\ Parent(p) \in Paths
         /\ q = Parent(p) \/ IsStrictPrefix(q, Parent(p))
<1>1. 1 < Depth(p) /\ (q = Parent(p) \/ IsStrictPrefix(q, Parent(p)))
  BY AboveIs DEF Depth
<1>2. Depth(p) \in Nat /\ Depth(p) # 1
  BY <1>1, DepthIs
<1>3. QED
  BY <1>1, <1>2, DepthIs

LEMMA NoTreeCopied ==
  ASSUME WalkInv, OnceInv, NEW x \in Paths, Concerned(x), ~ Directory(x), About(x),
         NEW i \in 1 .. Len(script), script[i].do = "cp -rp", IsPrefix(script[i].path, x)
  PROVE  \A s \in Sides : tree[s][script[i].path] = Dir
<1>1. Types /\ Parents(x) /\ Once(x) /\ tree \in Forests
  BY DEF WalkInv, Types, OnceInv, DecidedOnce
<1>2. script[i].path \in Paths
  BY <1>1, ScriptIs
<1>3. script[i].path # x
  BY <1>1 DEF Once
<1>4. IsStrictPrefix(script[i].path, x)
  BY <1>2, <1>3, PrefixOrSame
<1>5. /\ Parent(x) # Root /\ Parent(x) \in Paths
      /\ script[i].path = Parent(x) \/ IsStrictPrefix(script[i].path, Parent(x))
  BY <1>2, <1>4, AboveChild
<1>6. \A s \in Sides : tree[s][Parent(x)] = Dir
  BY <1>1, <1>5 DEF Parents, InBoth, About
<1>7. \A s \in Sides : IsStrictPrefix(script[i].path, Parent(x)) => tree[s][script[i].path] = Dir
  BY <1>1, <1>2, <1>5, <1>6, DirIs DEF Forests, WellFormed
<1>8. QED
  BY <1>5, <1>6, <1>7

(* What a command does to a file or a link about which others are pending. *)
LEMMA ExecuteFile ==
  ASSUME WalkInv, VersionsInv, OnceInv, Execute, NEW x \in Paths, Concerned(x), ~ Directory(x),
         About(x), NEW c, c = script[1]
  PROVE  \/ \A s \in Sides : tree'[s][x] = tree[s][x]
         \/ c.path = x /\ c.do = "cp" /\ \A s \in Sides : tree'[s][x].kind = "file"
         \/ c.path = x /\ c.do = "ln" /\ \A s \in Sides : tree'[s][x].kind = "link"
         \/ /\ c.path = x /\ c.do = "rm" /\ c.side \in Sides
            /\ tree'[c.side][x] = None /\ tree[Other(c.side)][x].kind = "file"
            /\ tree'[Other(c.side)][x] = tree[Other(c.side)][x]
<1> DEFINE t == SideTo(c)
<1>1. /\ Types /\ Commands /\ tree \in Forests /\ runs \in Nat
      /\ Parents(x) /\ Once(x) /\ FileKept(x)
  BY SynchronizeAssumption DEF WalkInv, Types, OnceInv, DecidedOnce, VersionsInv
<1>2. c \in Order /\ 1 \in 1 .. Len(script)
  BY <1>1, ExecuteIs
<1>3. c.side \in Sides /\ c.path \in Paths /\ Proper(c, c.path)
  BY <1>1, <1>2 DEF Commands, Order
<1>4. t \in Sides /\ \A s \in Sides : s = t \/ s = Other(t)
  BY <1>1, <1>2, RanIs, SidesAre
<1>5. \/ \A s \in Sides : tree'[s][x] = tree[s][x]
      \/ /\ c.path = x /\ c.do \in {"cp", "ln", "rm"} /\ ~ Strays(c) /\ ~ Fails(c)
         /\ tree'[t][x] = Left(c, x) /\ tree'[Other(t)][x] = tree[Other(t)][x]
      \/ /\ c.do = "cp -rp" /\ IsPrefix(c.path, x) /\ t = Other(c.side)
         /\ tree[t][c.path] = None
  <2>1. DoesAt(c, x)
    BY ExecuteAt
  <2>2. QED
    BY <2>1 DEF DoesAt
<1>6. ASSUME c.do = "cp -rp", IsPrefix(c.path, x), tree[t][c.path] = None PROVE FALSE
  <2>1. \A s \in Sides : tree[s][c.path] = Dir
    BY <1>2, <1>6, NoTreeCopied
  <2>2. QED
    BY <1>4, <1>6, <2>1, DirIs
<1>7. ASSUME c.path = x, c.do = "cp", ~ Strays(c), ~ Fails(c),
             tree'[t][x] = Left(c, x), tree'[Other(t)][x] = tree[Other(t)][x]
      PROVE  \A s \in Sides : tree'[s][x].kind = "file"
  <2>1. Left(c, x) = tree[c.side][x] /\ Other(t) = c.side
    BY <1>1, <1>2, <1>3, <1>7, LeftIs, SidesAre DEF Proper, SideTo
  <2>2. tree[c.side][x].kind \in {"none", "file", "link"}
    BY <1>3, FileKinds
  <2>3. tree[c.side][x].kind = "file"
    BY <1>7, <2>2 DEF Strays, Fails, Source
  <2>4. QED
    BY <1>4, <1>7, <2>1, <2>3
<1>8. ASSUME c.path = x, c.do = "ln", tree'[t][x] = Left(c, x),
             tree'[Other(t)][x] = tree[Other(t)][x]
      PROVE  \A s \in Sides : tree'[s][x].kind = "link"
  <2>1. c.entry.kind = "link" /\ Other(t) = c.side /\ c.entry \in Thing
    BY <1>3, <1>2, <1>8, SidesAre DEF Proper, SideTo, Order
  <2>2. Left(c, x) = [c.entry EXCEPT !.time = LastTime + runs]
    BY <1>1, <1>2, <1>8, <2>1, LeftIs
  <2>3. Left(c, x).kind = "link"
    <3>1. c.entry \in [kind : {"file", "link"}, time : Nat, size : Nat, what : STRING]
      <4>1. None.kind # "link" /\ Dir.kind # "link"
        BY DirIs
      <4>2. QED
        BY <2>1, <4>1 DEF Thing, Things
    <3>2. QED
      BY <2>1, <2>2, <3>1
  <2>4. tree[c.side][x].kind = "link"
    <3>1. Same(tree[c.side][x], c.entry)
      BY <1>1, <1>2, <1>8 DEF Once
    <3>2. QED
      BY <2>1, <3>1 DEF Same
  <2>5. QED
    BY <1>4, <1>8, <2>1, <2>3, <2>4
<1>9. ASSUME c.path = x, c.do = "rm", tree'[t][x] = Left(c, x),
             tree'[Other(t)][x] = tree[Other(t)][x]
      PROVE  /\ tree'[c.side][x] = None /\ tree[Other(c.side)][x].kind = "file"
             /\ tree'[Other(c.side)][x] = tree[Other(c.side)][x]
  <2>1. t = c.side /\ Left(c, x) = None
    BY <1>1, <1>2, <1>9, LeftIs DEF SideTo
  <2>2. Pending("rm", c.side, x)
    BY <1>2, <1>9 DEF Pending
  <2>3. QED
    BY <1>1, <1>3, <1>9, <2>1, <2>2 DEF FileKept, Removals
<1>10. QED
  BY <1>3, <1>5, <1>6, <1>7, <1>8, <1>9

LEMMA ExecuteOnce ==
  ASSUME WalkInv, VersionsInv, OnceInv, Execute, NEW x \in Paths, Concerned(x), ~ Directory(x)
  PROVE  Once(x)'
<1> DEFINE c == script[1]
<1>1. /\ Types /\ Once(x) /\ FileKept(x)
  BY DEF WalkInv, OnceInv, DecidedOnce, VersionsInv
<1>2. /\ 1 \in 1 .. Len(script)
      /\ \A i \in 1 .. Len(script') : i + 1 \in 1 .. Len(script) /\ script'[i] = script[i + 1]
      /\ \A i \in 1 .. Len(script) : i # 1 => i - 1 \in 1 .. Len(script') /\ script'[i - 1] = script[i]
      /\ UNCHANGED <<mode, frames, runs, base>>
  BY <1>1, ExecuteIs
<1> SUFFICES ASSUME NEW j \in 1 .. Len(script'), script'[j].path = x
             PROVE  (/\ script[j].do \in {"cp", "ln", "rm"}
                     /\ \A i \in 1 .. Len(frames) :
                          /\ ~ Now(frames[i], x)
                          /\ ~ Due(frames[i], x, Leaves(script[j]), Leaves(script[j]))
                     /\ script[j].do = "rm" =>
                          \E k \in 1 .. Len(script) : j < k /\ script[k].path = x /\ script[k].do = "cp"
                     /\ script[j].do = "ln" =>
                          /\ Same(tree[script[j].side][x], script[j].entry)
                          /\ \A k \in 1 .. Len(script) : script[k].path = x => k = j)'
  BY DEF Once
<1>3. PICK h \in 1 .. Len(script) : h = j + 1 /\ h # 1 /\ script'[j] = script[h] /\ script[h].path = x
  BY <1>2
<1>4. /\ script[h].do \in {"cp", "ln", "rm"}
      /\ \A i \in 1 .. Len(frames) :
           /\ ~ Now(frames[i], x)
           /\ ~ Due(frames[i], x, Leaves(script[h]), Leaves(script[h]))
      /\ script[h].do = "rm" =>
           \E k \in 1 .. Len(script) : h < k /\ script[k].path = x /\ script[k].do = "cp"
      /\ script[h].do = "ln" =>
           /\ Same(tree[script[h].side][x], script[h].entry)
           /\ \A k \in 1 .. Len(script) : script[k].path = x => k = h
  BY <1>1, <1>3 DEF Once
<1>5. 1 \in Sides /\ 2 \in Sides /\ script[h].side \in Sides
  BY <1>1, ScriptIs DEF Sides
<1>6. c.path = x =>
        /\ c.do # "ln"
        /\ \A i \in 1 .. Len(frames) : ~ Due(frames[i], x, Leaves(c), Leaves(c))
  <2>1. c.path = x => \A i \in 1 .. Len(frames) : ~ Due(frames[i], x, Leaves(c), Leaves(c))
    BY <1>1, <1>2 DEF Once
  <2>2. c.path = x /\ c.do = "ln" => \A k \in 1 .. Len(script) : script[k].path = x => k = 1
    BY <1>1, <1>2 DEF Once
  <2>3. script[h].path = x /\ h # 1
    BY <1>3
  <2>4. c.path = x /\ c.do = "ln" => FALSE
    BY <2>2, <2>3
  <2>5. QED
    BY <2>1, <2>4
<1>7. \/ \A s \in Sides : tree'[s][x] = tree[s][x]
      \/ c.path = x /\ c.do = "cp" /\ \A s \in Sides : tree'[s][x].kind = "file"
      \/ c.path = x /\ c.do = "ln" /\ \A s \in Sides : tree'[s][x].kind = "link"
      \/ /\ c.path = x /\ c.do = "rm" /\ c.side \in Sides
         /\ tree'[c.side][x] = None /\ tree[Other(c.side)][x].kind = "file"
         /\ tree'[Other(c.side)][x] = tree[Other(c.side)][x]
  BY <1>3, ExecuteFile DEF About
<1>8. \A i \in 1 .. Len(frames) : ~ Due(frames[i], x, tree'[1][x].kind, tree'[2][x].kind)
  <2>1. CASE \A s \in Sides : tree'[s][x] = tree[s][x]
    BY <1>4, <1>5, <2>1 DEF Now
  <2>2. CASE c.path = x /\ c.do = "cp" /\ \A s \in Sides : tree'[s][x].kind = "file"
    <3>1. Leaves(c) = "file"
      BY <2>2 DEF Leaves
    <3>2. QED
      BY <1>5, <1>6, <2>2, <3>1
  <2>3. CASE c.path = x /\ c.do = "rm" /\ c.side \in Sides /\ tree'[c.side][x] = None
    <3>1. Pending("rm", c.side, x)
      BY <1>2, <2>3 DEF Pending
    <3>2. \A i \in 1 .. Len(frames) : x \in frames[i].list[1] <=> x \in frames[i].list[2]
      <4>1. \A i \in 1 .. Len(frames) : \A s \in Sides :
              x \in frames[i].list[s] => x \in frames[i].list[Other(s)]
        BY <1>1, <2>3, <3>1 DEF FileKept, Listed, Finds
      <4>2. Other(1) = 2 /\ Other(2) = 1
        BY DEF Other
      <4>3. QED
        BY <1>5, <4>1, <4>2
    <3>3. tree'[1][x].kind = "none" \/ tree'[2][x].kind = "none"
      BY <2>3, SidesAre, DirIs
    <3>4. QED
      BY <3>2, <3>3 DEF Due
  <2>4. QED
    BY <1>6, <1>7, <2>1, <2>2, <2>3
<1>9. (\A i \in 1 .. Len(frames) :
         /\ ~ Now(frames[i], x)
         /\ ~ Due(frames[i], x, Leaves(script[j]), Leaves(script[j])))'
  <2>1. Leaves(script[j])' = Leaves(script[h])
    BY <1>3 DEF Leaves
  <2>2. QED
    BY <1>2, <1>4, <1>8, <2>1 DEF Now
<1>10. ASSUME script[h].do = "rm"
       PROVE  \E k \in 1 .. Len(script') : j < k /\ script'[k].path = x /\ script'[k].do = "cp"
  <2>1. PICK k \in 1 .. Len(script) : h < k /\ script[k].path = x /\ script[k].do = "cp"
    BY <1>4, <1>10
  <2>2. k # 1 /\ j < k - 1
    BY <1>3, <2>1
  <2>3. k - 1 \in 1 .. Len(script') /\ script'[k - 1] = script[k]
    BY <1>2, <2>2
  <2>4. QED
    BY <2>1, <2>2, <2>3
<1>11. ASSUME script[h].do = "ln"
       PROVE  /\ Same(tree'[script[h].side][x], script[h].entry)
              /\ \A k \in 1 .. Len(script') : script'[k].path = x => k = j
  <2>1. c.path # x
    BY <1>2, <1>3, <1>4, <1>11
  <2>2. tree'[script[h].side][x] = tree[script[h].side][x]
    BY <1>5, <1>7, <2>1
  <2>3. \A k \in 1 .. Len(script') : script'[k].path = x => k = j
    <3>1. ASSUME NEW k \in 1 .. Len(script'), script'[k].path = x PROVE k = j
      <4>1. k + 1 \in 1 .. Len(script) /\ script[k + 1].path = x
        BY <1>2, <3>1
      <4>2. k + 1 = h
        BY <1>4, <1>11, <4>1
      <4>3. QED
        BY <1>3, <4>2
    <3>2. QED
      BY <3>1
  <2>4. QED
    BY <1>4, <1>11, <2>2, <2>3
<1>12. QED
  BY <1>3, <1>4, <1>9, <1>10, <1>11 DEF Same

LEMMA VisitTwins ==
  ASSUME WalkInv, VersionsInv, NEW v \in Paths, Visit(v), NEW x \in Paths,
         Concerned(x), ~ Directory(x), TwinsStay(x)
  PROVE  TwinsStay(x)'
<1> DEFINE n == Len(frames)
           s == SideOf(frames[n].loop)
           o == Other(s)
<1>1. Types /\ Walk /\ script \in Seq(Order)
  BY DEF WalkInv, Types
<1>2. /\ s \in Sides /\ v \in frames[n].list[s] /\ UNCHANGED <<mode, tree, runs, base, strayed>>
  BY <1>1, VisitIs
<1>3. /\ n \in 1 .. Len(frames)
      /\ \A i \in 1 .. Len(frames) : frames'[i].list = frames[i].list
      /\ \A i \in 1 .. Len(frames') :
           i \in 1 .. Len(frames) \/ (i = n + 1 /\ frames'[i] = Enter(v))
  BY <1>1, VisitToCome
<1> SUFFICES ASSUME Twins(x)
             PROVE  /\ \A t \in Sides : tree[t][x] = base[t][x]
                    /\ \A j \in 1 .. Len(script') : script'[j].path # x
                    /\ \A i \in 1 .. Len(frames') :
                         x \in frames'[i].list[1] <=> x \in frames'[i].list[2]
  <2>1. Twins(x)' <=> Twins(x)
    BY <1>2 DEF Twins
  <2>2. QED
    BY <1>2, <2>1 DEF TwinsStay
<1>4. /\ \A t \in Sides : tree[t][x] = base[t][x]
      /\ \A j \in 1 .. Len(script) : script[j].path # x
      /\ \A i \in 1 .. Len(frames) : x \in frames[i].list[1] <=> x \in frames[i].list[2]
  BY DEF TwinsStay
<1>5. 1 \in Sides /\ 2 \in Sides /\ ((s = 1 /\ o = 2) \/ (s = 2 /\ o = 1))
  BY <1>2, SidesAre DEF Sides
<1>6. \A t \in Sides : tree[t][x].kind = "file" /\ tree[t][x] # None
  BY <1>4, <1>5, DirIs DEF Twins, Sides
<1>7. ASSUME NEW i \in 1 .. Len(frames') PROVE x \in frames'[i].list[1] <=> x \in frames'[i].list[2]
  <2>1. CASE i \in 1 .. Len(frames)
    BY <1>3, <1>4, <2>1
  <2>2. CASE frames'[i] = Enter(v)
    BY <1>5, <1>6, <2>2, EnterIs
  <2>3. QED
    BY <1>3, <2>1, <2>2
<1>8. ASSUME NEW j \in 1 .. Len(script'), script'[j].path = x PROVE FALSE
  <2>1. PICK w \in Seq(Order) : script' = script \o w /\ \A i \in 1 .. Len(w) : Proper(w[i], v)
    BY VisitPrints
  <2>2. v = x
    <3>1. \E m \in 1 .. Len(w) : script'[j] = w[m]
      BY <1>1, <1>4, <1>8, <2>1, ScriptGrows
    <3>2. QED
      BY <1>8, <2>1, <3>1 DEF Proper
  <2>3. PICK u \in Seq(Order) : \E a, b \in Thing :
          /\ script' = script \o u
          /\ u = << >> \/ (/\ Prints(u, s, x, a, b) /\ a.kind = KindOf(frames[n].loop)
                           /\ a = tree[s][x] /\ a # None
                           /\ x \in frames[n].list[Other(s)] => b = tree[Other(s)][x] /\ b # None
                           /\ x \notin frames[n].list[Other(s)] => b = None)
    BY <2>2, VisitPrintsFile
  <2>4. u # << >>
    <3> SUFFICES ASSUME u = << >> PROVE FALSE
      OBVIOUS
    <3>1. script' = script
      BY <1>1, <2>3, ConcatEmptySeq
    <3>2. QED
      BY <1>4, <1>8, <3>1
  <2>5. PICK a \in Thing, b \in Thing :
          /\ Prints(u, s, x, a, b) /\ a = tree[s][x]
          /\ x \in frames[n].list[Other(s)] => b = tree[Other(s)][x] /\ b # None
    BY <2>3, <2>4
  <2>6. x \in frames[n].list[o]
    BY <1>2, <1>3, <1>4, <1>5, <2>2
  <2>7. /\ a.kind = "file" /\ b.kind = "file" /\ b # None
        /\ a.time = b.time /\ a.size = b.size
    BY <1>4, <1>5, <1>6, <2>5, <2>6 DEF Twins
  <2>8. QED
    BY <2>5, <2>7 DEF Prints
<1>9. QED
  BY <1>4, <1>7, <1>8

LEMMA CallsTwins ==
  ASSUME WalkInv, NextLoop \/ Return \/ UNCHANGED vars, NEW x \in Paths, TwinsStay(x)
  PROVE  TwinsStay(x)'
<1>1. /\ UNCHANGED <<mode, tree, script, runs, base, strayed>>
      /\ \A i \in 1 .. Len(frames') : i \in 1 .. Len(frames) /\ frames'[i].list = frames[i].list
  BY CallsStay DEF WalkInv
<1>2. Twins(x)' <=> Twins(x)
  BY <1>1 DEF Twins
<1>3. QED
  BY <1>1, <1>2 DEF TwinsStay

LEMMA ExecuteTwins ==
  ASSUME WalkInv, VersionsInv, Execute, NEW x \in Paths, Concerned(x), TwinsStay(x)
  PROVE  TwinsStay(x)'
<1> DEFINE c == script[1]
<1>1. Types
  BY DEF WalkInv
<1>2. /\ 1 \in 1 .. Len(script) /\ c \in Order
      /\ \A i \in 1 .. Len(script') : i + 1 \in 1 .. Len(script) /\ script'[i] = script[i + 1]
      /\ UNCHANGED <<mode, frames, runs, base>>
  BY <1>1, ExecuteIs
<1>3. Twins(x)' <=> Twins(x)
  BY <1>2 DEF Twins
<1> SUFFICES ASSUME Twins(x) PROVE \A s \in Sides : tree'[s][x] = base[s][x]
  BY <1>2, <1>3 DEF TwinsStay
<1>4. /\ \A s \in Sides : tree[s][x] = base[s][x]
      /\ c.path # x
  BY <1>2 DEF TwinsStay
<1>5. SideTo(c) \in Sides /\ 1 \in Sides /\ 2 \in Sides
  BY <1>1, <1>2, RanIs DEF Types, Sides
<1>6. tree[SideTo(c)][x] # None
  <2>1. \A s \in Sides : base[s][x].kind = "file"
    BY DEF Twins, Sides
  <2>2. QED
    BY <1>4, <1>5, <2>1, DirIs
<1>7. DoesAt(c, x)
  BY ExecuteAt
<1>8. QED
  BY <1>4, <1>6, <1>7 DEF DoesAt

-----------------------------------------------------------------------------
(* A start *)

(* What the trees are like when the program is started. *)
Open ==
  \A p \in Paths :
    /\ \A s \in Sides : tree[s][p] # None => Had(s, p)
    /\ Concerned(p) =>
         IF Directory(p)
         THEN \A s \in Sides : tree[s][p] \in {None, Dir} /\ (base[s][p] = Dir => tree[s][p] = Dir)
         ELSE Twins(p) => \A s \in Sides : tree[s][p] = base[s][p]

Opened == Types /\ frames = <<Enter(Root)>> /\ script = << >> /\ Open

LEMMA BaseOpen == Types /\ base = tree => Open
<1> SUFFICES ASSUME Types, base = tree, NEW p \in Paths
             PROVE  /\ \A s \in Sides : tree[s][p] # None => Had(s, p)
                    /\ Concerned(p) =>
                         IF Directory(p)
                         THEN \A s \in Sides : tree[s][p] \in {None, Dir}
                                               /\ (base[s][p] = Dir => tree[s][p] = Dir)
                         ELSE Twins(p) => \A s \in Sides : tree[s][p] = base[s][p]
  BY DEF Open
<1>1. \A s \in Sides : tree[s][p] # None => Had(s, p)
  BY DEF Had
<1>2. Concerned(p) /\ Directory(p) => \A s \in Sides : base[s][p] \in {None, Dir}
  BY VersionsAre
<1>3. QED
  BY <1>1, <1>2

LEMMA OpenedOnce == Opened => OnceInv
<1> SUFFICES ASSUME Opened, NEW x \in Paths
             PROVE  Origin(x) /\ (Concerned(x) => DecidedOnce(x))
  BY DEF OnceInv
<1>1. /\ Types /\ Open /\ Len(script) = 0
      /\ \A i \in 1 .. Len(frames) : frames[i] = Enter(Root)
  BY RootEntered DEF Opened
<1>2. \A s \in Sides : x \in Enter(Root).list[s] <=> Parent(x) = Root /\ tree[s][x] # None
  BY EnterIs
<1>3. \A s \in Sides : tree[s][x] # None => Had(s, x)
  BY <1>1 DEF Open
<1>4. Origin(x)
  BY <1>1, <1>2, <1>3 DEF Origin
<1>5. Parents(x)
  BY <1>1, <1>2 DEF Parents, InBoth
<1>6. ASSUME Concerned(x), Directory(x) PROVE DirectoriesStay(x)
  <2>1. \A s \in Sides : tree[s][x] \in {None, Dir} /\ (base[s][x] = Dir => tree[s][x] = Dir)
    BY <1>1, <1>6 DEF Open
  <2>2. \A s \in Sides : x \in Enter(Root).list[s] => tree[s][x] = Dir
    BY <1>2, <2>1
  <2>3. QED
    BY <1>1, <2>1, <2>2 DEF DirectoriesStay
<1>7. ASSUME Concerned(x), ~ Directory(x) PROVE TwinsStay(x)
  <2> SUFFICES ASSUME Twins(x)
               PROVE  /\ \A s \in Sides : tree[s][x] = base[s][x]
                      /\ \A j \in 1 .. Len(script) : script[j].path # x
                      /\ \A i \in 1 .. Len(frames) :
                           x \in frames[i].list[1] <=> x \in frames[i].list[2]
    BY DEF TwinsStay
  <2>1. \A s \in Sides : tree[s][x] = base[s][x]
    BY <1>1, <1>7 DEF Open
  <2>2. 1 \in Sides /\ 2 \in Sides
    BY DEF Sides
  <2>3. \A s \in Sides : tree[s][x] # None
    <3>1. \A s \in Sides : base[s][x].kind = "file"
      BY DEF Twins, Sides
    <3>2. QED
      BY <2>1, <3>1, DirIs
  <2>4. QED
    BY <1>1, <1>2, <2>1, <2>2, <2>3
<1>8. Once(x)
  BY <1>1 DEF Once
<1>9. QED
  BY <1>4, <1>5, <1>6, <1>7, <1>8 DEF DecidedOnce

LEMMA InitOnce == Init => OnceInv
<1> SUFFICES ASSUME Init PROVE OnceInv
  OBVIOUS
<1>1. Types
  BY InitWalk DEF WalkInv
<1>2. Opened
  BY <1>1, BaseOpen DEF Init, Opened
<1>3. QED
  BY <1>2, OpenedOnce

LEMMA StartAgainOpens ==
  ASSUME WalkInv, VersionsInv, OnceInv, StartAgain, (Types /\ base = tree => Open)'
  PROVE  Opened'
<1>1. Types'
  BY StartAgainWalk DEF WalkInv
<1>2. /\ mode' = mode /\ tree' = tree /\ strayed' = strayed
      /\ base' = IF mode = "union" THEN base ELSE tree
      /\ frames' = <<Enter(Root)>> /\ script' = << >>
  BY DEF StartAgain
<1>3. Enter(Root)' = Enter(Root)
  BY <1>2 DEF Enter, Listing
<1>4. mode \in {"union", "intersect"}
  BY DEF WalkInv, Types
<1>5. CASE mode = "intersect"
  BY <1>1, <1>2, <1>3, <1>5 DEF Opened
<1>6. CASE mode = "union"
  <2>1. ASSUME NEW p \in Paths
        PROVE  (/\ \A s \in Sides : tree[s][p] # None => Had(s, p)
                /\ Concerned(p) =>
                     IF Directory(p)
                     THEN \A s \in Sides : tree[s][p] \in {None, Dir}
                                           /\ (base[s][p] = Dir => tree[s][p] = Dir)
                     ELSE Twins(p) => \A s \in Sides : tree[s][p] = base[s][p])'
    <3>1. \A s : Had(s, p)' <=> Had(s, p)
      BY <1>2, <1>6 DEF Had
    <3>2. (Concerned(p)' => Concerned(p)) /\ (Directory(p)' <=> Directory(p))
      BY <1>2, <1>6, KeptStays
    <3>3. Twins(p)' <=> Twins(p)
      BY <1>2, <1>6 DEF Twins
    <3>4. \A s \in Sides : tree[s][p] # None => Had(s, p)
      BY DEF OnceInv, Origin
    <3>5. Concerned(p) /\ Directory(p) =>
            \A s \in Sides : tree[s][p] \in {None, Dir} /\ (base[s][p] = Dir => tree[s][p] = Dir)
      BY DEF OnceInv, DecidedOnce, DirectoriesStay
    <3>6. Concerned(p) /\ ~ Directory(p) => (Twins(p) => \A s \in Sides : tree[s][p] = base[s][p])
      BY DEF OnceInv, DecidedOnce, TwinsStay
    <3>7. QED
      BY <1>2, <1>6, <3>1, <3>2, <3>3, <3>4, <3>5, <3>6
  <2>2. Open'
    BY <2>1 DEF Open
  <2>3. QED
    BY <1>1, <1>2, <1>3, <2>2 DEF Opened
<1>7. QED
  BY <1>4, <1>5, <1>6

LEMMA OnceKept == WalkInv /\ VersionsInv /\ OnceInv /\ [Next]_vars => OnceInv'
<1>1. (Types /\ base = tree => Open)'
  BY BaseOpen, PTL
<1>2. (Opened => OnceInv)'
  BY OpenedOnce, PTL
<1> SUFFICES ASSUME WalkInv, VersionsInv, OnceInv, [Next]_vars PROVE OnceInv'
  OBVIOUS
<1>3. CASE StartAgain
  BY <1>1, <1>2, <1>3, StartAgainOpens
<1>4. ASSUME mode' = mode, base' = base, strayed \subseteq strayed',
             \A x \in Paths : Origin(x) => Origin(x)',
             \A x \in Paths : Concerned(x) =>
               /\ Parents(x)'
               /\ Directory(x) /\ DirectoriesStay(x) => DirectoriesStay(x)'
               /\ ~ Directory(x) /\ TwinsStay(x) /\ Once(x) => TwinsStay(x)' /\ Once(x)'
      PROVE  OnceInv'
  <2> SUFFICES ASSUME NEW x \in Paths PROVE (Origin(x) /\ (Concerned(x) => DecidedOnce(x)))'
    BY DEF OnceInv
  <2>1. Origin(x)'
    BY <1>4 DEF OnceInv
  <2>2. ASSUME Concerned(x)' PROVE DecidedOnce(x)'
    <3>1. mode' = mode /\ base' = base /\ strayed \subseteq strayed'
      BY <1>4
    <3>2. (Concerned(x)' => Concerned(x)) /\ (Directory(x)' <=> Directory(x))
      BY <3>1, KeptStays
    <3>3. DecidedOnce(x)
      BY <2>2, <3>2 DEF OnceInv
    <3>4. QED
      BY <1>4, <2>2, <3>2, <3>3 DEF DecidedOnce
  <2>3. QED
    BY <2>1, <2>2
<1>5. ASSUME NEW v \in Paths, Visit(v) PROVE OnceInv'
  <2>1. mode' = mode /\ base' = base /\ strayed \subseteq strayed'
    BY <1>5 DEF Visit
  <2>2. \A x \in Paths : Origin(x) => Origin(x)'
    BY <1>5, VisitOrigin
  <2>3. \A x \in Paths : Concerned(x) => Parents(x)'
    BY <1>5, VisitParents
  <2>4. \A x \in Paths : Concerned(x) /\ Directory(x) /\ DirectoriesStay(x) => DirectoriesStay(x)'
    BY <1>5, VisitDirectories
  <2>5. \A x \in Paths : Concerned(x) /\ ~ Directory(x) /\ TwinsStay(x) => TwinsStay(x)'
    BY <1>5, VisitTwins
  <2>6. \A x \in Paths : Concerned(x) /\ ~ Directory(x) /\ Once(x) => Once(x)'
    BY <1>5, VisitOnce
  <2>7. QED
    BY <1>4, <2>1, <2>2, <2>3, <2>4, <2>5, <2>6
<1>6. CASE NextLoop \/ Return \/ UNCHANGED vars
  <2>1. mode' = mode /\ base' = base /\ strayed \subseteq strayed'
    BY <1>6, CallsStay DEF WalkInv
  <2>2. \A x \in Paths : Origin(x) => Origin(x)'
    BY <1>6, CallsOrigin
  <2>3. \A x \in Paths : Concerned(x) => Parents(x)'
    BY <1>6, CallsParents DEF OnceInv, DecidedOnce
  <2>4. \A x \in Paths : DirectoriesStay(x) => DirectoriesStay(x)'
    BY <1>6, CallsDirectories
  <2>5. \A x \in Paths : TwinsStay(x) => TwinsStay(x)'
    BY <1>6, CallsTwins
  <2>6. \A x \in Paths : Once(x) => Once(x)'
    BY <1>6, CallsOnce
  <2>7. QED
    BY <1>4, <2>1, <2>2, <2>3, <2>4, <2>5, <2>6
<1>7. CASE Execute
  <2>1. mode' = mode /\ base' = base /\ strayed \subseteq strayed'
    BY <1>7 DEF Execute
  <2>2. \A x \in Paths : Origin(x) => Origin(x)'
    BY <1>7, ExecuteOrigin
  <2>3. \A x \in Paths : Concerned(x) => Parents(x)'
    BY <1>7, ExecuteParents
  <2>4. \A x \in Paths : Concerned(x) /\ DirectoriesStay(x) => DirectoriesStay(x)'
    BY <1>7, ExecuteDirectories
  <2>5. \A x \in Paths : Concerned(x) /\ TwinsStay(x) => TwinsStay(x)'
    BY <1>7, ExecuteTwins
  <2>6. \A x \in Paths : Concerned(x) /\ ~ Directory(x) => Once(x)'
    BY <1>7, ExecuteOnce
  <2>7. QED
    BY <1>4, <2>1, <2>2, <2>3, <2>4, <2>5, <2>6
<1>8. QED
  BY <1>3, <1>5, <1>6, <1>7 DEF Next

-----------------------------------------------------------------------------
(* What the walk comes to *)

(* Equal times and sizes: both files are as good. *)
LEMMA TiesAgree ==
  ASSUME WalkInv, VersionsInv, OnceInv, NEW p \in Paths, Concerned(p), ~ Directory(p),
         \A s \in Sides : tree[s][p].kind = "file",
         tree[1][p].time = tree[2][p].time, tree[1][p].size = tree[2][p].size
  PROVE  Agreed(p, Kept(p))
<1>1. Types /\ Values(p) /\ TwinsStay(p)
  BY DEF WalkInv, VersionsInv, FileKept, OnceInv, DecidedOnce
<1>2. 1 \in Sides /\ 2 \in Sides /\ Other(1) = 2 /\ Other(2) = 1
  BY DEF Sides, Other
<1>3. \A s \in Sides : tree[s][p] # None /\ tree[s][p] \in Thing
  BY FileKinds
<1>4. Better(tree[1][p], tree[2][p]) /\ Better(tree[2][p], tree[1][p])
  <2>1. \A s \in Sides : tree[s][p].time \in Nat /\ tree[s][p].size \in Nat
    BY <1>3, ThingIs
  <2>2. ~ MoreRecent(tree[1][p], tree[2][p]) /\ ~ MoreRecent(tree[2][p], tree[1][p])
    BY <1>2, <2>1 DEF MoreRecent
  <2>3. QED
    BY <2>2 DEF Better
<1>5. IsKept(p, tree[1][p]) /\ IsKept(p, tree[2][p])
  BY <1>1, <1>2, <1>3, <1>4, Decided
<1>6. PICK k \in Kept(p), l \in Kept(p) : Same(tree[1][p], k) /\ Same(tree[2][p], l)
  BY <1>5 DEF IsKept
<1>7. CASE k = l
  <2>1. \A s \in Sides : Same(tree[s][p], k)
    BY <1>6, <1>7 DEF Sides
  <2>2. QED
    BY <2>1 DEF Agreed
<1>8. CASE k # l
  <2>1. /\ k.kind = "file" /\ l.kind = "file" /\ k.time = l.time /\ k.size = l.size
    BY <1>2, <1>6 DEF Same
  <2>2. (k = base[1][p] /\ l = base[2][p]) \/ (k = base[2][p] /\ l = base[1][p])
    <3>1. \A e \in Kept(p) : e = base[1][p] \/ e = base[2][p]
      BY <1>1, VersionsAre DEF Sides
    <3>2. QED
      BY <1>8, <3>1
  <2>3. Twins(p)
    BY <1>8, <2>1, <2>2 DEF Twins
  <2>4. \A s \in Sides : tree[s][p] = base[s][p]
    BY <1>1, <2>3 DEF TwinsStay
  <2>5. QED
    BY <1>8, <2>1, <2>4 DEF Agreed
<1>9. QED
  BY <1>7, <1>8

(* A call that begins has yet to come to all it lists. *)
LEMMA EnterToCome ==
  ASSUME NEW d, NEW l \in 1 .. 6, NEW q, q \in Enter(d).list[SideOf(l)]
  PROVE  ToCome(Enter(d), l, q)
<1>1. Enter(d).loop = 1 /\ Enter(d).left = Enter(d).list[1]
  BY EnterIs
<1>2. l = 1 \/ 1 < l
  OBVIOUS
<1>3. QED
  BY <1>1, <1>2, LoopsAre DEF ToCome

LEMMA EnterDue ==
  ASSUME NEW d, NEW p, NEW k \in {"none", "file", "link"}, NEW l \in {"none", "file", "link"},
         p \in Enter(d).list[1] <=> k # "none",
         p \in Enter(d).list[2] <=> l # "none",
         k # "none" \/ l # "none"
  PROVE  Due(Enter(d), p, k, l)
<1> DEFINE f == Enter(d)
<1>1. /\ p \in f.list[1] => ToCome(f, 3, p) /\ ToCome(f, 5, p)
      /\ p \in f.list[2] => ToCome(f, 4, p) /\ ToCome(f, 6, p)
  BY LoopsAre, EnterToCome
<1> HIDE DEF f
<1>2. QED
  BY <1>1 DEF Due, f

(* A call that begins on the way to p comes to it, or it is agreed. *)
LEMMA EnterComing ==
  ASSUME WalkInv, VersionsInv, OnceInv, NEW p \in Paths, Concerned(p),
         NEW d, d = Root \/ (d \in Paths /\ IsStrictPrefix(d, p))
  PROVE  Agreed(p, Kept(p)) \/ ComesTo(Enter(d), p)
<1> DEFINE f == Enter(d)
<1>1. Types
  BY DEF WalkInv
<1>2. PICK r \in Paths : Parent(r) = d /\ (r = p \/ IsStrictPrefix(r, p))
  BY TowardIs
<1>3. \A s \in Sides : r \in f.list[s] <=> tree[s][r] # None
  BY <1>2, EnterIs
<1>4. 1 \in Sides /\ 2 \in Sides /\ \A s \in Sides : s = 1 \/ s = 2
  BY DEF Sides
<1>5. r \in f.list[1] => ToCome(f, 1, r)
  BY LoopsAre, EnterToCome
<1>6. r \in f.list[2] => ToCome(f, 2, r)
  BY LoopsAre, EnterToCome
<1>7. IsPrefix(r, p)
  BY <1>2, PrefixOrSame
<1>8. CASE IsStrictPrefix(r, p)
  <2>1. Concerned(r) /\ Directory(r)
    BY <1>1, <1>8, AboveKept
  <2>2. \E s \in Sides : tree[s][r] # None
    BY <2>1, KeptIsThere
  <2>3. CASE r \in f.list[1]
    BY <1>5, <1>8, <2>3 DEF ComesTo
  <2>4. CASE r \notin f.list[1]
    <3>1. r \in f.list[2]
      BY <1>3, <1>4, <2>2, <2>4
    <3>2. QED
      BY <1>6, <1>7, <2>1, <2>4, <3>1 DEF ComesTo
  <2>5. QED
    BY <2>3, <2>4
<1>9. CASE r = p /\ Directory(p)
  <2>1. \A s \in Sides : tree[s][p] \in {None, Dir}
    BY <1>9 DEF OnceInv, DecidedOnce, DirectoriesStay
  <2>2. \E s \in Sides : tree[s][p] # None
    BY KeptIsThere
  <2>3. CASE r \in f.list[1] /\ r \in f.list[2]
    <3>1. \A s \in Sides : tree[s][p] = Dir
      BY <1>3, <1>4, <1>9, <2>1, <2>3
    <3>2. QED
      BY <1>1, <1>9, <3>1, DirectoriesAgree
  <2>4. CASE r \in f.list[1] /\ r \notin f.list[2]
    BY <1>5, <1>9, <2>4 DEF ComesTo
  <2>5. CASE r \notin f.list[1]
    <3>1. r \in f.list[2]
      BY <1>3, <1>4, <1>9, <2>2, <2>5
    <3>2. QED
      BY <1>6, <1>7, <1>9, <2>5, <3>1 DEF ComesTo
  <2>6. QED
    BY <2>3, <2>4, <2>5
<1>10. CASE r = p /\ ~ Directory(p)
  <2>1. \E s \in Sides : tree[s][p] # None
    BY KeptIsThere
  <2>2. \A s \in Sides : /\ tree[s][p].kind \in {"none", "file", "link"}
                         /\ tree[s][p].kind = "none" <=> tree[s][p] = None
    BY <1>10, FileKinds
  <2>3. Due(f, p, tree[1][p].kind, tree[2][p].kind)
    BY <1>3, <1>4, <1>10, <2>1, <2>2, EnterDue
  <2>4. QED
    BY <1>10, <2>3 DEF ComesTo, Now
<1>11. QED
  BY <1>2, <1>8, <1>9, <1>10

(* A call with the same names comes to what the other came to. *)
LEMMA ComesStays ==
  ASSUME NEW p \in Paths, NEW f, NEW g, g.list = f.list,
         \A l \in 1 .. 6 : \A q \in Paths : ToCome(f, l, q) => ToCome(g, l, q),
         ComesTo(f, p)
  PROVE  ComesTo(g, p)
<1>1. \A k, l : Due(f, p, k, l) => Due(g, p, k, l)
  BY DueShrinks
<1>2. \A q \in Paths : /\ ToCome(f, 1, q) => ToCome(g, 1, q)
                       /\ ToCome(f, 2, q) => ToCome(g, 2, q)
  OBVIOUS
<1>3. Now(f, p) => Now(g, p)
  BY <1>1 DEF Now
<1>4. QED
  BY <1>2, <1>3 DEF ComesTo

(* What a call comes to, it comes to after a step that leaves the path. *)
LEMMA ComesThen ==
  ASSUME mode' = mode, base' = base, NEW p \in Paths, NEW g, ComesTo(g, p),
         tree'[1][p] = tree[1][p], tree'[2][p] = tree[2][p],
         NEW i \in 1 .. Len(frames'), frames'[i] = g
  PROVE  Coming(p)'
<1>1. \A q \in Paths : Directory(q)' <=> Directory(q)
  BY DEF Directory
<1>2. \/ \E q \in Paths : IsStrictPrefix(q, p) /\ ToCome(frames'[i], 1, q)
      \/ \E q \in Paths : /\ IsPrefix(q, p) /\ Directory(q)'
                          /\ q \notin frames'[i].list[1] /\ ToCome(frames'[i], 2, q)
      \/ Directory(p)' /\ p \notin frames'[i].list[2] /\ ToCome(frames'[i], 1, p)
      \/ ~ Directory(p)' /\ Due(frames'[i], p, tree'[1][p].kind, tree'[2][p].kind)
  BY <1>1 DEF ComesTo, Now
<1>3. QED
  BY <1>2 DEF Coming, ComesTo, Now

-----------------------------------------------------------------------------
(* What the shell makes of a path of which a version is kept *)

(* The other judgements of what is kept do not change in a run. *)
LEMMA AgreedSame ==
  ASSUME mode' = mode, base' = base, NEW p \in Paths, \A s \in Sides : tree'[s][p] = tree[s][p],
         Agreed(p, Kept(p))
  PROVE  Agreed(p, Kept(p))'
<1>1. Kept(p)' = Kept(p)
  BY DEF Kept, Latest, Oldest, Versions, Common
<1>2. \/ Kept(p) = {} /\ \A s \in Sides : tree'[s][p] = None
      \/ \E e \in Kept(p) : \A s \in Sides : Same(tree'[s][p], e)
      \/ /\ \E e, f \in Kept(p) : e # f /\ e.kind = "file" /\ f.kind = "file"
         /\ \A s \in Sides : tree'[s][p] = base[s][p]
  BY DEF Agreed
<1>3. QED
  BY <1>1, <1>2 DEF Agreed, Same

(* Both sides have a kept version alike when a step has been made. *)
LEMMA AlikeThen ==
  ASSUME mode' = mode, base' = base, NEW p \in Paths, NEW e, IsKept(p, e),
         \A s \in Sides : Same(tree'[s][p], e)
  PROVE  Agreed(p, Kept(p))'
<1>1. Kept(p)' = Kept(p)
  BY DEF Kept, Latest, Oldest, Versions, Common
<1>2. PICK k \in Kept(p) : Same(e, k)
  BY DEF IsKept
<1>3. \A s \in Sides : Same(tree'[s][p], k)
  BY <1>2 DEF Same
<1>4. QED
  BY <1>1, <1>3 DEF Agreed, Same

(* "cp" and "ln" leave the kept version on both sides. *)
LEMMA CopyAgrees ==
  ASSUME WalkInv, VersionsInv, OnceInv, NEW x \in Paths, Concerned(x), ~ Directory(x),
         mode' = mode, base' = base, 1 \in 1 .. Len(script), NEW c, c = script[1],
         c.path = x, c.do \in {"cp", "ln"},
         tree'[SideTo(c)][x] = Left(c, x), tree'[Other(SideTo(c))][x] = tree[Other(SideTo(c))][x]
  PROVE  Agreed(x, Kept(x))'
<1> DEFINE t == SideTo(c)
<1>1. Types /\ Commands /\ tree \in Forests /\ runs \in Nat /\ FileKept(x) /\ Once(x)
  BY SynchronizeAssumption DEF WalkInv, Types, VersionsInv, OnceInv, DecidedOnce
<1>2. c \in Order /\ c.side \in Sides /\ c.path \in Paths /\ Proper(c, c.path)
  BY <1>1, ScriptIs DEF Commands
<1>3. Other(t) = c.side /\ \A s \in Sides : s = t \/ s = c.side
  BY <1>2, SidesAre DEF SideTo
<1>4. IsKept(x, tree[c.side][x]) /\ (c.do = "ln" => IsKept(x, c.entry))
  BY <1>1 DEF FileKept, Copies
<1>5. CASE c.do = "cp"
  <2>1. Left(c, x) = tree[c.side][x]
    BY <1>5 DEF Left
  <2>2. \A s \in Sides : tree'[s][x] = tree[c.side][x]
    BY <1>3, <2>1
  <2>3. \A s \in Sides : Same(tree'[s][x], tree[c.side][x])
    BY <2>2 DEF Same
  <2>4. QED
    BY <1>4, <2>3, AlikeThen
<1>6. CASE c.do = "ln"
  <2>1. c.entry.kind = "link" /\ c.entry \in Thing
    BY <1>2, <1>6 DEF Proper, Order
  <2>2. Left(c, x) = [c.entry EXCEPT !.time = LastTime + runs]
    BY <1>6 DEF Left
  <2>3. Same(Left(c, x), c.entry)
    <3>1. c.entry \in [kind : {"file", "link"}, time : Nat, size : Nat, what : STRING]
      <4>1. None.kind # "link" /\ Dir.kind # "link"
        BY DirIs
      <4>2. QED
        BY <2>1, <4>1 DEF Thing, Things
    <3>2. QED
      BY <2>1, <2>2, <3>1 DEF Same
  <2>4. Same(tree[c.side][x], c.entry)
    BY <1>1, <1>6 DEF Once
  <2>5. \A s \in Sides : tree'[s][x] = Left(c, x) \/ tree'[s][x] = tree[c.side][x]
    BY <1>3
  <2>6. \A s \in Sides : Same(tree'[s][x], c.entry)
    BY <2>3, <2>4, <2>5 DEF Same
  <2>7. QED
    BY <1>4, <1>6, <2>6, AlikeThen
<1>7. QED
  BY <1>5, <1>6

(* So does "cp -rp", of all that is below. *)
LEMMA CopyTreeAgrees ==
  ASSUME WalkInv, VersionsInv, OnceInv, NEW x \in Paths, Concerned(x),
         mode' = mode, base' = base, NEW r \in Sides, NEW t \in Sides, t = Other(r),
         tree[t][x] = None, tree'[t][x] = tree[r][x], tree'[r][x] = tree[r][x]
  PROVE  Agreed(x, Kept(x))'
<1>1. Types
  BY DEF WalkInv
<1>2. r = Other(t) /\ \A s \in Sides : s = t \/ s = r
  BY SidesAre
<1>3. CASE Directory(x)
  <2>1. tree[r][x] = Dir
    BY <1>2, <1>3, KeptIsThere, DirIs
  <2>2. PICK k \in Kept(x) : k = Dir
    BY <1>1, <1>3, VersionsAre DEF Concerned
  <2>3. IsKept(x, Dir)
    BY <2>2, SameAgain DEF IsKept
  <2>4. \A s \in Sides : tree'[s][x] = Dir
    BY <1>2, <2>1
  <2>5. \A s \in Sides : Same(tree'[s][x], Dir)
    BY <2>4 DEF Same
  <2>6. QED
    BY <2>3, <2>5, AlikeThen
<1>4. CASE ~ Directory(x)
  <2>1. Values(x)
    BY <1>4 DEF VersionsInv, FileKept
  <2>2. IsKept(x, tree[r][x])
    BY <1>1, <1>2, <1>4, <2>1, OneKept
  <2>3. \A s \in Sides : tree'[s][x] = tree[r][x]
    BY <1>2
  <2>4. \A s \in Sides : Same(tree'[s][x], tree[r][x])
    BY <2>3 DEF Same
  <2>5. QED
    BY <2>2, <2>4, AlikeThen
<1>5. QED
  BY <1>3, <1>4

(* A command leaves a path alone, or agrees it, or its "cp" comes next.    *)
LEMMA ExecuteAgrees ==
  ASSUME WalkInv, VersionsInv, OnceInv, Execute, NEW x \in Paths, Concerned(x)
  PROVE  \/ \A s \in Sides : tree'[s][x] = tree[s][x]
         \/ Agreed(x, Kept(x))'
         \/ Fixing(x)'
<1> DEFINE c == script[1]
           t == SideTo(c)
<1>1. Types /\ DecidedOnce(x)
  BY DEF WalkInv, OnceInv
<1>2. /\ 1 \in 1 .. Len(script) /\ c \in Order
      /\ \A i \in 1 .. Len(script) : i # 1 => i - 1 \in 1 .. Len(script') /\ script'[i - 1] = script[i]
      /\ UNCHANGED <<mode, frames, runs, base>>
  BY <1>1, ExecuteIs
<1>3. c.side \in Sides /\ t \in Sides
  BY <1>1, <1>2, RanIs DEF Types, Order
<1>4. DoesAt(c, x)
  BY ExecuteAt
<1>5. CASE \A s \in Sides : tree'[s][x] = tree[s][x]
  BY <1>5
<1>6. CASE /\ c.path = x /\ c.do \in {"cp", "ln", "rm"}
           /\ tree'[t][x] = Left(c, x) /\ tree'[Other(t)][x] = tree[Other(t)][x]
  <2>1. ~ Directory(x)
    BY <1>1, <1>2, <1>6 DEF DecidedOnce, DirectoriesStay
  <2>2. CASE c.do \in {"cp", "ln"}
    BY <1>2, <1>6, <2>1, <2>2, CopyAgrees
  <2>3. CASE c.do = "rm"
    <3>1. PICK k \in 1 .. Len(script) : 1 < k /\ script[k].path = x /\ script[k].do = "cp"
      BY <1>1, <1>2, <1>6, <2>1, <2>3 DEF DecidedOnce, Once
    <3>2. k - 1 \in 1 .. Len(script') /\ script'[k - 1] = script[k]
      BY <1>2, <3>1
    <3>3. QED
      BY <3>1, <3>2 DEF Fixing
  <2>4. QED
    BY <1>6, <2>2, <2>3
<1>7. CASE /\ t = Other(c.side) /\ tree[t][x] = None
           /\ tree'[t][x] = tree[c.side][x] /\ tree'[c.side][x] = tree[c.side][x]
  BY <1>2, <1>3, <1>7, CopyTreeAgrees
<1>8. QED
  BY <1>4, <1>5, <1>6, <1>7 DEF DoesAt

(* The command that brings a path does so, or writes beside. *)
LEMMA ExecuteBrings ==
  ASSUME WalkInv, VersionsInv, OnceInv, Execute, NEW x \in Paths, Concerned(x), Settled(x)',
         NEW c, c = script[1],
         \/ c.path = x /\ c.do \in {"cp", "ln"}
         \/ c.do = "cp -rp" /\ IsPrefix(c.path, x)
  PROVE  Agreed(x, Kept(x))'
<1> DEFINE t == SideTo(c)
<1>1. Types /\ Commands /\ tree \in Forests
  BY DEF WalkInv, Types
<1>2. /\ 1 \in 1 .. Len(script) /\ c \in Order
      /\ UNCHANGED <<mode, frames, runs, base>>
      /\ \/ Strays(c) /\ strayed' = strayed \cup {c.path} /\ tree' = tree
         \/ ~ Strays(c) /\ Fails(c) /\ strayed' = strayed /\ tree' = tree
         \/ ~ Strays(c) /\ ~ Fails(c) /\ strayed' = strayed /\ tree' = Ran(c)
  BY <1>1, ExecuteIs
<1>3. /\ c.side \in Sides /\ c.path \in Paths /\ c.do \in {"cp -rp", "cp", "ln"}
      /\ t \in Sides /\ t = Other(c.side) /\ Other(t) = c.side
  <2>1. c.side \in Sides /\ c.path \in Paths
    BY <1>2 DEF Order
  <2>2. t = Other(c.side)
    BY DEF SideTo
  <2>3. QED
    BY <2>1, <2>2, SidesAre
<1>4. IsPrefix(c.path, x)
  BY <1>3, PrefixOrSame
<1>5. ~ Strays(c)
  <2> SUFFICES ASSUME Strays(c) PROVE FALSE
    OBVIOUS
  <2>1. c.path \in strayed'
    BY <1>2
  <2>2. QED
    BY <1>3, <1>4, <2>1 DEF Settled
<1>6. Concerned(c.path) /\ InBoth(c.path)
  <2>1. Concerned(c.path)
    BY <1>1, <1>3, <1>4, PrefixOrSame, AboveKept
  <2>2. Parents(c.path)
    BY <1>3, <2>1 DEF OnceInv, DecidedOnce
  <2>3. QED
    BY <1>2, <2>1, <2>2 DEF Parents
<1>7. c.path = x /\ c.do \in {"cp", "ln"} => ~ Directory(x)
  BY <1>2 DEF OnceInv, DecidedOnce, DirectoriesStay
<1>8. ~ Fails(c)
  <2>1. Parent(c.path) = Root \/ tree[t][Parent(c.path)] = Dir
    BY <1>3, <1>6 DEF InBoth
  <2>2. ASSUME c.do = "cp" PROVE Source(c).kind \notin {"none", "dir"}
    <3>1. c.path = x /\ ~ Directory(x)
      BY <1>7, <2>2
    <3>2. IsKept(x, tree[c.side][x])
      BY <1>2, <2>2, <3>1 DEF VersionsInv, FileKept, Copies
    <3>3. tree[c.side][x].kind \in {"file", "link"}
      BY <1>1, <3>1, <3>2, KeptAlike
    <3>4. QED
      BY <3>1, <3>3 DEF Source
  <2>3. QED
    BY <1>3, <2>1, <2>2 DEF Fails
<1>9. /\ tree'[Other(t)] = tree[Other(t)]
      /\ tree'[t][x] = IF x \in Written(c) THEN Left(c, x) ELSE tree[t][x]
  BY <1>1, <1>2, <1>5, <1>8, RanIs
<1>10. CASE c.path = x /\ c.do \in {"cp", "ln"}
  <2>1. x \in Written(c)
    BY <1>10 DEF Written
  <2>2. tree'[t][x] = Left(c, x) /\ tree'[Other(t)][x] = tree[Other(t)][x]
    BY <1>9, <2>1
  <2>3. QED
    BY <1>2, <1>7, <1>10, <2>2, CopyAgrees
<1>11. CASE c.do = "cp -rp"
  <2>1. x \in Written(c)
    BY <1>4, <1>11 DEF Written, Under
  <2>2. Left(c, x) = tree[c.side][x]
    BY <1>11 DEF Left
  <2>3. tree[t][c.path] = None
    BY <1>5, <1>11 DEF Strays, Target
  <2>4. tree[t][x] = None
    <3>1. x = c.path \/ IsStrictPrefix(c.path, x)
      BY <1>3, <1>4, PrefixOrSame
    <3>2. QED
      BY <1>1, <1>3, <2>3, <3>1, DirIs DEF Forests, WellFormed
  <2>5. tree'[t][x] = tree[c.side][x] /\ tree'[c.side][x] = tree[c.side][x]
    BY <1>3, <1>9, <2>1, <2>2
  <2>6. QED
    BY <1>2, <1>3, <2>4, <2>5, CopyTreeAgrees
<1>12. QED
  BY <1>10, <1>11

LEMMA ExecuteComplete ==
  ASSUME WalkInv, VersionsInv, OnceInv, Execute, NEW x \in Paths, Concerned(x), Settled(x)',
         Complete(x)
  PROVE  Complete(x)'
<1>1. /\ 1 \in 1 .. Len(script)
      /\ \A i \in 1 .. Len(script) : i # 1 => i - 1 \in 1 .. Len(script') /\ script'[i - 1] = script[i]
      /\ UNCHANGED <<mode, frames, runs, base>> /\ strayed \subseteq strayed'
  BY ExecuteIs DEF WalkInv
<1>2. CASE Fixing(x)
  <2>1. PICK j \in 1 .. Len(script) :
          \/ script[j].path = x /\ script[j].do \in {"cp", "ln"}
          \/ script[j].do = "cp -rp" /\ IsPrefix(script[j].path, x)
    BY <1>2 DEF Fixing
  <2>2. CASE j = 1
    <3>1. Agreed(x, Kept(x))'
      BY <2>1, <2>2, ExecuteBrings
    <3>2. QED
      BY <3>1 DEF Complete
  <2>3. CASE j # 1
    <3>1. j - 1 \in 1 .. Len(script') /\ script'[j - 1] = script[j]
      BY <1>1, <2>3
    <3>2. Fixing(x)'
      BY <2>1, <3>1 DEF Fixing
    <3>3. QED
      BY <3>2 DEF Complete
  <2>4. QED
    BY <2>2, <2>3
<1>3. CASE Agreed(x, Kept(x))' \/ Fixing(x)'
  BY <1>3 DEF Complete
<1>4. CASE (Agreed(x, Kept(x)) \/ Coming(x)) /\ \A s \in Sides : tree'[s][x] = tree[s][x]
  <2>1. Agreed(x, Kept(x)) => Agreed(x, Kept(x))'
    BY <1>1, <1>4, AgreedSame
  <2>2. Coming(x) => Coming(x)'
    <3>1. 1 \in Sides /\ 2 \in Sides
      BY DEF Sides
    <3>2. ASSUME NEW i \in 1 .. Len(frames), ComesTo(frames[i], x) PROVE Coming(x)'
      BY <1>1, <1>4, <3>1, <3>2, ComesThen
    <3>3. QED
      BY <3>2 DEF Coming
  <2>3. QED
    BY <1>4, <2>1, <2>2 DEF Complete
<1>5. QED
  BY <1>2, <1>3, <1>4, ExecuteAgrees DEF Complete

-----------------------------------------------------------------------------
(* What a visit makes of it *)

LEMMA PrintedThere ==
  ASSUME script \in Seq(Order), NEW w \in Seq(Order), script' = script \o w, NEW m \in 1 .. Len(w)
  PROVE  \E j \in 1 .. Len(script') : script'[j] = w[m]
<1>1. /\ Len(script') = Len(script) + Len(w) /\ Len(script) \in Nat /\ Len(w) \in Nat
      /\ \A i \in 1 .. Len(script) + Len(w) :
           script'[i] = IF i <= Len(script) THEN script[i] ELSE w[i - Len(script)]
  BY ConcatProperties
<1>2. Len(script) + m \in 1 .. Len(script') /\ script'[Len(script) + m] = w[m]
  BY <1>1
<1>3. QED
  BY <1>2

LEMMA FixingStays ==
  ASSUME NEW p, Fixing(p),
         \A j \in 1 .. Len(script) : j \in 1 .. Len(script') /\ script'[j] = script[j]
  PROVE  Fixing(p)'
<1>1. PICK j \in 1 .. Len(script) :
        \/ script[j].path = p /\ script[j].do \in {"cp", "ln"}
        \/ script[j].do = "cp -rp" /\ IsPrefix(script[j].path, p)
  BY DEF Fixing
<1>2. j \in 1 .. Len(script') /\ script'[j] = script[j]
  OBVIOUS
<1>3. QED
  BY <1>1, <1>2 DEF Fixing

(* A directory that the other side does not list is copied as a whole. *)
LEMMA VisitCopies ==
  ASSUME WalkInv, VersionsInv, OnceInv, NEW v \in Paths, Visit(v), Concerned(v), Directory(v),
         NEW n, n = Len(frames), frames[n].loop \in {1, 2},
         v \notin frames[n].list[Other(SideOf(frames[n].loop))],
         NEW p \in Paths, IsPrefix(v, p)
  PROVE  Fixing(p)'
<1> DEFINE s == SideOf(frames[n].loop)
<1>1. Types /\ Walk /\ script \in Seq(Order) /\ mode \in {"union", "intersect"}
  BY DEF WalkInv, Types
<1>2. s \in Sides /\ v \in frames[n].list[s] /\ n \in 1 .. Len(frames)
  BY <1>1, VisitIs, VisitToCome
<1>3. tree[s][v] = Dir
  BY <1>2 DEF OnceInv, DecidedOnce, DirectoriesStay
<1>4. mode = "union"
  <2>1. (s = 1 /\ Other(s) = 2) \/ (s = 2 /\ Other(s) = 1)
    BY <1>2, SidesAre
  <2>2. mode = "intersect" => (v \in frames[n].list[1] <=> v \in frames[n].list[2])
    BY <1>2 DEF VersionsInv, Intersected
  <2>3. QED
    BY <1>1, <1>2, <2>1, <2>2
<1>5. Found(v, Dir, None)
  BY <1>3, DirIs DEF Found
<1>6. KindOf(frames[n].loop) = Dir.kind
  BY LoopsAre, DirIs
<1>7. script' = script \o Printed(s, v, Dir, None)
  BY <1>5, <1>6, VisitDoes
<1>8. Printed(s, v, Dir, None) = <<CopyTree(s, v)>>
  BY <1>4, DirIs DEF Printed, SyncDir
<1>9. PICK j \in 1 .. Len(script') : script'[j] = CopyTree(s, v)
  <2> DEFINE w == <<CopyTree(s, v)>>
  <2>1. w \in Seq(Order) /\ 1 \in 1 .. Len(w) /\ w[1] = CopyTree(s, v)
    BY <1>2, CommandsAre
  <2>2. script' = script \o w
    BY <1>7, <1>8
  <2> HIDE DEF w
  <2>3. \E j \in 1 .. Len(script') : script'[j] = w[1]
    BY <1>1, <2>1, <2>2, PrintedThere
  <2>4. QED
    BY <2>1, <2>3
<1>10. CopyTree(s, v).do = "cp -rp" /\ CopyTree(s, v).path = v
  BY DEF CopyTree, Command
<1>11. QED
  BY <1>9, <1>10 DEF Fixing

LEMMA PrintsFix ==
  ASSUME NEW s, NEW x, NEW a, NEW b, NEW w, Prints(w, s, x, a, b)
  PROVE  \E m \in 1 .. Len(w) : w[m].path = x /\ w[m].do \in {"cp", "ln"}
<1>1. ASSUME NEW t, w = <<Copy(t, x)>> \/ \E e : w = <<Link(t, x, e)>>
      PROVE  1 \in 1 .. Len(w) /\ w[1].path = x /\ w[1].do \in {"cp", "ln"}
  BY <1>1 DEF Copy, Link, Command
<1>2. ASSUME w = <<Delete(s, x), Copy(Other(s), x)>>
      PROVE  2 \in 1 .. Len(w) /\ w[2].path = x /\ w[2].do \in {"cp", "ln"}
  BY <1>2 DEF Copy, Delete, Command
<1>3. (\E t : w = <<Copy(t, x)>> \/ \E e : w = <<Link(t, x, e)>>)
        \/ w = <<Delete(s, x), Copy(Other(s), x)>>
  BY DEF Prints
<1>4. QED
  BY <1>1, <1>2, <1>3

(* The loop that was due is the one that comes to x. *)
DueAt(f, x, k, l) ==
  \/ f.loop = 3 /\ k = "file" /\ x \in f.list[1] /\ (x \in f.list[2] => l = "file")
  \/ f.loop = 4 /\ l = "file" /\ x \in f.list[2] /\ x \notin f.list[1]
  \/ f.loop = 5 /\ k = "link" /\ x \in f.list[1] /\ (x \in f.list[2] => l \in {"file", "link"})
  \/ f.loop = 6 /\ l = "link" /\ x \in f.list[2] /\ (x \in f.list[1] => k = "file")

LEMMA DueHere ==
  ASSUME NEW f, NEW g, NEW x, NEW k, NEW l, g.list = f.list,
         \A i \in 1 .. 6 : ToCome(f, i, x) /\ i # f.loop => ToCome(g, i, x),
         Due(f, x, k, l), ~ Due(g, x, k, l)
  PROVE  DueAt(f, x, k, l)
<1>1. /\ ToCome(f, 3, x) /\ f.loop # 3 => ToCome(g, 3, x)
      /\ ToCome(f, 4, x) /\ f.loop # 4 => ToCome(g, 4, x)
      /\ ToCome(f, 5, x) /\ f.loop # 5 => ToCome(g, 5, x)
      /\ ToCome(f, 6, x) /\ f.loop # 6 => ToCome(g, 6, x)
  OBVIOUS
<1>2. QED
  BY <1>1 DEF Due, DueAt

(* It prints, unless there is nothing to choose. *)
LEMMA VisitFixes ==
  ASSUME WalkInv, VersionsInv, OnceInv, NEW x \in Paths, Visit(x), Concerned(x), ~ Directory(x),
         NEW n, n = Len(frames), DueAt(frames[n], x, tree[1][x].kind, tree[2][x].kind)
  PROVE  Agreed(x, Kept(x)) \/ Fixing(x)'
<1> DEFINE f == frames[n]
           s == SideOf(f.loop)
           o == Other(s)
           a == tree[s][x]
           b == IF x \in f.list[o] THEN tree[o][x] ELSE None
           w == Printed(s, x, a, b)
<1>1. Types /\ Walk /\ script \in Seq(Order) /\ mode \in {"union", "intersect"}
  BY DEF WalkInv, Types
<1>2. s \in Sides /\ n \in 1 .. Len(frames) /\ o \in Sides
      /\ ((s = 1 /\ o = 2) \/ (s = 2 /\ o = 1))
  BY <1>1, VisitIs, VisitToCome, SidesAre
<1>3. /\ s = 1 <=> f.loop \in {3, 5}
      /\ KindOf(f.loop) = a.kind /\ a.kind \in {"file", "link"}
      /\ x \in f.list[o] => b.kind \in {"file", "link"}
      /\ f.loop = 4 => b = None
      /\ f.loop = 3 /\ x \in f.list[o] => tree[1][x].kind = "file" /\ tree[2][x].kind = "file"
      /\ f.loop = 6 /\ x \in f.list[o] => b.kind = "file"
  BY <1>2, LoopsAre DEF DueAt
<1>4. a \in Thing /\ b \in Thing /\ a # None /\ (x \in f.list[o] => b # None)
  <2>1. a \in Thing /\ tree[o][x] \in Thing
    BY <1>1, <1>2 DEF Types, Forests
  <2>2. QED
    BY <1>3, <2>1, DirIs
<1>5. b = None => mode = "union"
  <2>1. mode = "intersect" => (x \in f.list[1] <=> x \in f.list[2])
    BY <1>2 DEF VersionsInv, Intersected
  <2>2. x \in f.list[s]
    BY <1>1, VisitIs
  <2>3. QED
    BY <1>1, <1>2, <1>4, <2>1, <2>2
<1>6. Found(x, a, b)
  BY <1>4 DEF Found
<1>7. script' = script \o w
  <2> HIDE DEF a, b
  <2>1. script' = script \o Printed(SideOf(frames[n].loop), x, a, b)
    BY <1>3, <1>6, VisitDoes
  <2>2. QED
    BY <2>1
<1>8. /\ w = << >> \/ Prints(w, s, x, a, b)
      /\ w = << >> => /\ b # None
                      /\ a.kind = "file" /\ b.kind = "file" /\ s = 1 =>
                           a.time = b.time /\ a.size = b.size
                      /\ a.kind = "link" => b.kind # "file" /\ ~ (b.kind = "link" /\ s = 1)
  <2> HIDE DEF a, b
  <2>1. QED
    BY <1>1, <1>2, <1>3, <1>4, <1>5, PrintsCases
<1>9. CASE w = << >>
  <2>1. x \in f.list[o]
    BY <1>8, <1>9
  <2>2. f.loop \in {3, 4, 5, 6}
    BY DEF DueAt
  <2>3. f.loop = 3 /\ s = 1 /\ a.kind = "file" /\ b.kind = "file"
    <3>1. f.loop # 4
      BY <1>3, <1>8, <1>9
    <3>2. f.loop # 6
      BY <1>3, <1>8, <1>9, <2>1, LoopsAre
    <3>3. f.loop # 5
      BY <1>3, <1>8, <1>9, <2>1, LoopsAre
    <3>4. QED
      BY <1>3, <2>1, <2>2, <3>1, <3>2, <3>3, <1>2
  <2>4. a = tree[1][x] /\ b = tree[2][x]
    BY <1>2, <2>1, <2>3
  <2>5. /\ tree[1][x].time = tree[2][x].time /\ tree[1][x].size = tree[2][x].size
        /\ \A t \in Sides : tree[t][x].kind = "file"
    <3>1. a.time = b.time /\ a.size = b.size
      BY <1>8, <1>9, <2>3
    <3>2. \A t \in Sides : t = 1 \/ t = 2
      BY DEF Sides
    <3>3. QED
      BY <2>3, <2>4, <3>1, <3>2
  <2>6. QED
    BY <2>5, TiesAgree
<1>10. CASE Prints(w, s, x, a, b)
  <2>1. PICK m \in 1 .. Len(w) : w[m].path = x /\ w[m].do \in {"cp", "ln"}
    <3> HIDE DEF w, a, b
    <3>1. QED
      BY <1>10, PrintsFix
  <2>2. w \in Seq(Order)
    <3>1. Outcome(w, s, x, a, b)
      <4> HIDE DEF a, b
      <4>1. a.kind # "none"
        BY <1>3
      <4>2. QED
        BY <1>1, <1>2, <1>4, <4>1, PrintedIs
    <3> HIDE DEF w, a, b
    <3>2. QED
      BY <1>2, <1>4, <3>1, OutcomeIs
  <2>3. PICK j \in 1 .. Len(script') : script'[j] = w[m]
    <3> HIDE DEF w
    <3>1. QED
      BY <1>1, <1>7, <2>2, PrintedThere
  <2>4. QED
    BY <2>1, <2>3 DEF Fixing
<1>11. QED
  BY <1>8, <1>9, <1>10

(* What a call came to, and after a visit does not, the visit was at.      *)
LEMMA VisitReaches ==
  ASSUME Types, Walk, NEW v \in Paths, Visit(v), NEW p \in Paths, NEW n, n = Len(frames),
         NEW i \in 1 .. Len(frames), ComesTo(frames[i], p), ~ ComesTo(frames'[i], p)
  PROVE  LET f == frames[n]
         IN  \/ f.loop = 1 /\ IsStrictPrefix(v, p)
             \/ f.loop = 2 /\ IsPrefix(v, p) /\ Directory(v) /\ v \notin f.list[1]
             \/ f.loop = 1 /\ v = p /\ Directory(p) /\ p \notin f.list[2]
             \/ v = p /\ ~ Directory(p) /\ DueAt(f, p, tree[1][p].kind, tree[2][p].kind)
<1> DEFINE f == frames[i]
           g == frames'[i]
<1>1. /\ g.list = f.list /\ n \in 1 .. Len(frames)
      /\ \A l \in 1 .. 6 : \A q \in Paths :
           ToCome(g, l, q) <=> ToCome(f, l, q) /\ ~ (i = n /\ q = v /\ l = frames[n].loop)
  BY VisitToCome
<1> HIDE DEF f, g
<1>2. i = n
  <2> SUFFICES ASSUME i # n PROVE FALSE
    OBVIOUS
  <2>1. \A l \in 1 .. 6 : \A q \in Paths : ToCome(f, l, q) => ToCome(g, l, q)
    BY <1>1
  <2>2. ComesTo(f, p) /\ ~ ComesTo(g, p)
    BY DEF f, g
  <2>3. QED
    BY <1>1, <2>1, <2>2, ComesStays
<1>3. f = frames[n]
  BY <1>2 DEF f
<1>4. ASSUME NEW q \in Paths, NEW l \in {1, 2}, ToCome(f, l, q), ~ ToCome(g, l, q)
      PROVE  q = v /\ f.loop = l
  BY <1>1, <1>3, <1>4
<1>5. ComesTo(f, p) /\ ~ ComesTo(g, p)
  BY DEF f, g
<1>6. CASE \E q \in Paths : IsStrictPrefix(q, p) /\ ToCome(f, 1, q)
  <2>1. PICK q \in Paths : IsStrictPrefix(q, p) /\ ToCome(f, 1, q)
    BY <1>6
  <2>2. ~ ToCome(g, 1, q)
    BY <1>5, <2>1 DEF ComesTo
  <2>3. QED
    BY <1>3, <1>4, <2>1, <2>2
<1>7. CASE \E q \in Paths : /\ IsPrefix(q, p) /\ Directory(q)
                            /\ q \notin f.list[1] /\ ToCome(f, 2, q)
  <2>1. PICK q \in Paths : IsPrefix(q, p) /\ Directory(q) /\ q \notin f.list[1] /\ ToCome(f, 2, q)
    BY <1>7
  <2>2. ~ ToCome(g, 2, q)
    BY <1>1, <1>5, <2>1 DEF ComesTo
  <2>3. q = v /\ f.loop = 2
    BY <1>4, <2>1, <2>2
  <2>4. QED
    BY <1>3, <2>1, <2>3
<1>8. CASE Directory(p) /\ p \notin f.list[2] /\ ToCome(f, 1, p)
  <2>1. ~ ToCome(g, 1, p)
    BY <1>1, <1>5, <1>8 DEF ComesTo
  <2>2. QED
    BY <1>3, <1>4, <1>8, <2>1
<1>9. CASE ~ Directory(p) /\ Now(f, p)
  <2> DEFINE k == tree[1][p].kind
             l == tree[2][p].kind
  <2>1. Due(f, p, k, l) /\ ~ Due(g, p, k, l)
    BY <1>5, <1>9 DEF ComesTo, Now
  <2> HIDE DEF k, l
  <2>2. \A j \in 1 .. 6 : ToCome(f, j, p) /\ j # f.loop => ToCome(g, j, p)
    BY <1>1, <1>3
  <2>3. DueAt(f, p, k, l)
    BY <1>1, <2>1, <2>2, DueHere
  <2>4. p = v
    <3> SUFFICES ASSUME p # v PROVE FALSE
      OBVIOUS
    <3>1. \A j \in 1 .. 6 : ToCome(f, j, p) => ToCome(g, j, p)
      BY <1>1
    <3>2. QED
      BY <1>1, <2>1, <3>1, DueShrinks
  <2>5. QED
    BY <1>3, <1>9, <2>3, <2>4 DEF k, l
<1>10. QED
  BY <1>5, <1>6, <1>7, <1>8, <1>9 DEF ComesTo

(* A directory on both sides is entered. *)
LEMMA VisitEnters ==
  ASSUME WalkInv, OnceInv, NEW v \in Paths, Visit(v), Concerned(v), Directory(v),
         NEW n, n = Len(frames), frames[n].loop = 1, v \in frames[n].list[2]
  PROVE  n + 1 \in 1 .. Len(frames') /\ frames'[n + 1] = Enter(v)
<1>1. Types /\ Walk
  BY DEF WalkInv
<1>2. n \in 1 .. Len(frames) /\ v \in frames[n].list[1]
  BY <1>1, VisitIs, VisitToCome, LoopsAre
<1>3. tree[1][v] = Dir /\ tree[2][v] = Dir
  <2>1. DirectoriesStay(v)
    BY DEF OnceInv, DecidedOnce
  <2>2. 1 \in Sides /\ 2 \in Sides
    BY DEF Sides
  <2>3. v \in frames[n].list[2]
    OBVIOUS
  <2> QED
    BY <1>2, <2>1, <2>2, <2>3 DEF DirectoriesStay
<1>4. Other(1) = 2
  BY DEF Other
<1>5. Found(v, Dir, Dir)
  BY <1>3, <1>4, LoopsAre, DirIs DEF Found
<1>6. Dir.kind = KindOf(frames[n].loop)
  BY LoopsAre, DirIs
<1>7. QED
  BY <1>5, <1>6, DirIs, VisitDoes

LEMMA VisitComplete ==
  ASSUME WalkInv, VersionsInv, OnceInv, NEW v \in Paths, Visit(v), NEW p \in Paths, Concerned(p),
         Complete(p)
  PROVE  Complete(p)'
<1> DEFINE n == Len(frames)
<1>1. /\ Types /\ Walk /\ script \in Seq(Order)
      /\ UNCHANGED <<mode, tree, runs, base, strayed>>
  BY VisitIs DEF WalkInv, Types
<1>2. \A j \in 1 .. Len(script) : j \in 1 .. Len(script') /\ script'[j] = script[j]
  <2>1. PICK w \in Seq(Order) : script' = script \o w
    BY VisitPrints
  <2>2. QED
    BY <1>1, <2>1, ScriptGrows
<1>3. Agreed(p, Kept(p)) => Complete(p)'
  BY <1>1, AgreedSame DEF Complete
<1>4. Fixing(p) => Complete(p)'
  BY <1>2, FixingStays DEF Complete
<1>5. ASSUME NEW i \in 1 .. Len(frames), ComesTo(frames[i], p), ComesTo(frames'[i], p)
      PROVE  Complete(p)'
  <2>1. i \in 1 .. Len(frames')
    BY <1>1, VisitToCome
  <2>2. QED
    BY <1>1, <1>5, <2>1, ComesThen DEF Complete
<1>6. ASSUME NEW i \in 1 .. Len(frames), ComesTo(frames[i], p), ~ ComesTo(frames'[i], p)
      PROVE  Complete(p)'
  <2> DEFINE f == frames[n]
  <2>1. \/ f.loop = 1 /\ IsStrictPrefix(v, p)
        \/ f.loop = 2 /\ IsPrefix(v, p) /\ Directory(v) /\ v \notin f.list[1]
        \/ f.loop = 1 /\ v = p /\ Directory(p) /\ p \notin f.list[2]
        \/ v = p /\ ~ Directory(p) /\ DueAt(f, p, tree[1][p].kind, tree[2][p].kind)
    BY <1>1, <1>6, VisitReaches
  <2>2. IsPrefix(v, p) => Concerned(v)
    BY <1>1, PrefixOrSame, AboveKept
  <2>3. SideOf(1) = 1 /\ SideOf(2) = 2 /\ Other(1) = 2 /\ Other(2) = 1
    BY LoopsAre DEF Other
  <2>4. CASE f.loop = 1 /\ IsStrictPrefix(v, p)
    <3>1. Concerned(v) /\ Directory(v) /\ IsPrefix(v, p)
      BY <1>1, <2>4, AboveKept, PrefixOrSame
    <3>2. CASE v \in f.list[2]
      <4>1. n + 1 \in 1 .. Len(frames') /\ frames'[n + 1] = Enter(v)
        BY <2>4, <3>1, <3>2, VisitEnters
      <4>2. Agreed(p, Kept(p)) \/ ComesTo(Enter(v), p)
        BY <2>4, EnterComing
      <4>3. ComesTo(Enter(v), p) => Coming(p)'
        BY <1>1, <4>1, ComesThen
      <4>4. QED
        BY <1>3, <4>2, <4>3 DEF Complete
    <3>3. CASE v \notin f.list[2]
      <4>1. Fixing(p)'
        BY <2>3, <2>4, <3>1, <3>3, VisitCopies
      <4>2. QED
        BY <4>1 DEF Complete
    <3>4. QED
      BY <3>2, <3>3
  <2>5. CASE f.loop = 2 /\ IsPrefix(v, p) /\ Directory(v) /\ v \notin f.list[1]
    <3>1. Fixing(p)'
      BY <2>2, <2>3, <2>5, VisitCopies
    <3>2. QED
      BY <3>1 DEF Complete
  <2>6. CASE f.loop = 1 /\ v = p /\ Directory(p) /\ p \notin f.list[2]
    <3>1. IsPrefix(v, p)
      BY <2>6, PrefixOrSame
    <3>2. Fixing(p)'
      BY <2>2, <2>3, <2>6, <3>1, VisitCopies
    <3>3. QED
      BY <3>2 DEF Complete
  <2>7. CASE v = p /\ ~ Directory(p) /\ DueAt(f, p, tree[1][p].kind, tree[2][p].kind)
    <3>1. Agreed(p, Kept(p)) \/ Fixing(p)'
      BY <2>7, VisitFixes
    <3>2. QED
      BY <1>3, <3>1 DEF Complete
  <2>8. QED
    BY <2>1, <2>4, <2>5, <2>6, <2>7
<1>7. QED
  BY <1>3, <1>4, <1>5, <1>6 DEF Complete, Coming

LEMMA CallsComplete ==
  ASSUME WalkInv, NextLoop \/ Return \/ UNCHANGED vars, NEW p \in Paths, Complete(p)
  PROVE  Complete(p)'
<1>1. Types /\ Walk
  BY DEF WalkInv
<1>2. /\ UNCHANGED <<mode, tree, script, runs, base, strayed>>
      /\ \A i \in 1 .. Len(frames) : \A l \in 1 .. 6 : \A q \in Paths :
           ToCome(frames[i], l, q) =>
             /\ i \in 1 .. Len(frames') /\ frames'[i].list = frames[i].list
             /\ ToCome(frames'[i], l, q)
  BY <1>1, CallsToCome
<1>3. Agreed(p, Kept(p)) => Complete(p)'
  BY <1>2, AgreedSame DEF Complete
<1>4. Fixing(p) => Complete(p)'
  BY <1>2, FixingStays DEF Complete
<1>5. ASSUME NEW i \in 1 .. Len(frames), ComesTo(frames[i], p) PROVE Complete(p)'
  <2>1. \E l \in 1 .. 6 : \E q \in Paths : ToCome(frames[i], l, q)
    BY <1>5 DEF ComesTo, Now, Due
  <2>2. i \in 1 .. Len(frames') /\ frames'[i].list = frames[i].list
    BY <1>2, <2>1
  <2>3. ComesTo(frames'[i], p)
    BY <1>2, <1>5, <2>2, ComesStays
  <2>4. QED
    BY <1>2, <2>2, <2>3, ComesThen DEF Complete
<1>6. QED
  BY <1>3, <1>4, <1>5 DEF Complete, Coming

-----------------------------------------------------------------------------
(* With -i, what both sides do not have is going *)

LEMMA LoopForIs ==
  ASSUME NEW s \in Sides, NEW e \in Thing, e # None
  PROVE  /\ LoopFor(s, e) \in 1 .. 6 /\ SideOf(LoopFor(s, e)) = s
         /\ KindOf(LoopFor(s, e)) = e.kind
<1>1. e.kind \in {"dir", "file", "link"}
  BY ThingIs
<1>2. s = 1 \/ s = 2
  BY DEF Sides
<1>3. LoopFor(s, e) = IF e.kind = "dir" THEN s ELSE IF e.kind = "file" THEN s + 2 ELSE s + 4
  BY DEF LoopFor
<1>4. CASE s = 1
  BY <1>1, <1>3, <1>4, LoopsAre
<1>5. CASE s = 2
  BY <1>1, <1>3, <1>5, LoopsAre
<1>6. QED
  BY <1>2, <1>4, <1>5

(* Above what a tree has it has directories. *)
LEMMA AboveIsDir ==
  ASSUME tree \in Forests, NEW s \in Sides, NEW p \in Paths, tree[s][p] # None,
         NEW q \in Paths, IsPrefix(q, p)
  PROVE  tree[s][q] \in Thing /\ tree[s][q] # None /\ (q # p => tree[s][q] = Dir)
<1>1. q = p \/ IsStrictPrefix(q, p)
  BY PrefixOrSame
<1>2. IsStrictPrefix(q, p) => tree[s][q] = Dir
  BY DEF Forests, WellFormed
<1>3. tree[s][q] \in Thing
  BY DEF Forests
<1>4. QED
  BY <1>1, <1>2, <1>3, DirIs

(* One side had nothing there. *)
LEMMA NotBoth ==
  ASSUME WalkInv, mode = "intersect", NEW p \in Paths, \A s \in Sides : Had(s, p)
  PROVE  Common(p)
<1>1. \A s \in Sides : base[s][p] # None
  BY DEF Had
<1>2. ASSUME NEW q \in Paths, NEW s \in Sides, IsPrefix(q, p) PROVE base[s][q] # None
  <2>1. q = p \/ IsStrictPrefix(q, p)
    BY <1>2, PrefixOrSame
  <2>2. IsStrictPrefix(q, p) => base[s][q] = Dir
    BY <1>1 DEF WalkInv, Types, Forests, WellFormed
  <2>3. QED
    BY <1>1, <2>1, <2>2, DirIs
<1>3. QED
  BY <1>2 DEF Common

(* So nothing is brought there. *)
LEMMA NothingBrought ==
  ASSUME WalkInv, OnceInv, mode = "intersect", NEW p \in Paths, ~ Common(p)
  PROVE  /\ \A j \in 1 .. Len(script) :
              /\ script[j].path = p => script[j].do \notin {"cp", "ln"}
              /\ script[j].do # "cp -rp"
         /\ \A s \in Sides : tree[s][p] # None => tree[Other(s)][p] = None
<1>1. Origin(p) /\ Commands
  BY DEF OnceInv, WalkInv
<1>2. ~ \A s \in Sides : Had(s, p)
  BY NotBoth
<1>3. \A j \in 1 .. Len(script) : script[j].path = p => script[j].do \notin {"cp", "ln"}
  BY <1>1, <1>2 DEF Origin
<1>4. \A j \in 1 .. Len(script) : script[j].do # "cp -rp"
  BY <1>1 DEF Commands, Proper
<1>5. ASSUME NEW s \in Sides, tree[s][p] # None PROVE tree[Other(s)][p] = None
  <2>1. Other(s) \in Sides /\ \A t \in Sides : t = s \/ t = Other(s)
    BY SidesAre
  <2>2. Had(s, p) /\ (tree[Other(s)][p] # None => Had(Other(s), p))
    BY <1>1, <1>5, <2>1 DEF Origin
  <2>3. QED
    BY <1>2, <2>1, <2>2
<1>6. QED
  BY <1>3, <1>4, <1>5

LEMMA ExecuteShrinks ==
  ASSUME WalkInv, OnceInv, Execute, mode = "intersect", NEW p \in Paths, ~ Common(p),
         NEW s \in Sides
  PROVE  tree'[s][p] \in {tree[s][p], None}
<1> DEFINE c == script[1]
           t == SideTo(c)
<1>1. Types /\ tree \in Forests /\ runs \in Nat
  BY SynchronizeAssumption DEF WalkInv, Types
<1>2. /\ c \in Order /\ 1 \in 1 .. Len(script)
      /\ tree' = tree \/ tree' = Ran(c)
  BY <1>1, ExecuteIs
<1>3. /\ c.path = p => c.do \notin {"cp", "ln"}
      /\ c.do # "cp -rp" /\ c.do \in {"cp -rp", "cp", "ln", "rm", "rm -rf"}
  BY <1>2, NothingBrought DEF Order
<1>4. CASE tree' = Ran(c)
  <2>1. /\ t \in Sides /\ tree'[Other(t)] = tree[Other(t)]
        /\ tree'[t][p] = IF p \in Written(c) THEN Left(c, p) ELSE tree[t][p]
    BY <1>1, <1>2, <1>4, RanIs
  <2>2. s = t \/ s = Other(t)
    BY <2>1, SidesAre
  <2>3. p \in Written(c) => Left(c, p) = None
    BY <1>3 DEF Written, Left
  <2>4. QED
    BY <2>1, <2>2, <2>3
<1>5. QED
  BY <1>2, <1>4

LEMMA ParentAbove ==
  ASSUME NEW q \in Paths, Parent(q) # Root
  PROVE  Parent(q) \in Paths /\ IsStrictPrefix(Parent(q), q)
<1>1. Depth(q) \in Nat /\ 1 <= Depth(q) /\ Depth(q) # 1
  BY DepthIs
<1>2. 1 < Depth(q)
  BY <1>1
<1>3. QED
  BY <1>2, DepthIs

(* The command that removes it does so. *)
LEMMA ExecuteRemoves ==
  ASSUME WalkInv, Execute, NEW p \in Paths, NEW s \in Sides, tree[s][p] # None,
         NEW c, c = script[1], c.side = s, IsPrefix(c.path, p),
         c.do = "rm -rf" \/ (c.do = "rm" /\ c.path = p /\ tree[s][p] # Dir)
  PROVE  tree'[s][p] = None
<1>1. Types /\ tree \in Forests
  BY DEF WalkInv, Types
<1>2. /\ c \in Order /\ 1 \in 1 .. Len(script)
      /\ \/ Strays(c)
         \/ ~ Strays(c) /\ Fails(c)
         \/ ~ Strays(c) /\ ~ Fails(c) /\ tree' = Ran(c)
  BY <1>1, ExecuteIs
<1>3. c.path \in Paths /\ SideTo(c) = s
  BY <1>2 DEF Order, SideTo
<1>4. ~ Strays(c)
  BY DEF Strays
<1>5. ~ Fails(c)
  <2>1. ASSUME c.do = "rm" PROVE Target(c).kind # "dir"
    <3>1. Target(c) = tree[s][p] /\ tree[s][p] \in Thing
      BY <1>1, <1>3, <2>1 DEF Target, Forests
    <3>2. tree[s][p].kind # "dir"
      BY <2>1, <3>1, ThingIs
    <3>3. QED
      BY <3>1, <3>2
  <2>2. ASSUME Parent(c.path) # Root PROVE tree[s][Parent(c.path)] = Dir
    <3>1. Parent(c.path) \in Paths /\ IsStrictPrefix(Parent(c.path), c.path)
      BY <1>3, <2>2, ParentAbove
    <3>2. IsStrictPrefix(Parent(c.path), p)
      BY <1>3, <3>1, PrefixOrSame, PrefixesOfPrefix
    <3>3. QED
      BY <1>1, <3>1, <3>2 DEF Forests, WellFormed
  <2>3. QED
    BY <1>3, <2>1, <2>2 DEF Fails
<1>6. tree'[s][p] = IF p \in Written(c) THEN Left(c, p) ELSE tree[s][p]
  BY <1>1, <1>2, <1>3, <1>4, <1>5, RanIs
<1>7. p \in Written(c) /\ Left(c, p) = None
  <2>1. CASE c.do = "rm -rf"
    BY <2>1 DEF Written, Left, Under
  <2>2. CASE c.do = "rm" /\ c.path = p
    BY <2>2 DEF Written, Left
  <2>3. QED
    BY <2>1, <2>2
<1>8. QED
  BY <1>6, <1>7

(* What a call will remove, it will after a step that leaves the path.     *)
LEMMA WillThen ==
  ASSUME NEW p \in Paths, NEW s \in Sides, NEW g, WillRemove(g, s, p),
         \A q \in Paths : IsPrefix(q, p) => tree'[s][q] = tree[s][q],
         NEW i \in 1 .. Len(frames'), frames'[i] = g
  PROVE  Losing(s, p)'
<1>1. \/ \E q \in Paths : IsStrictPrefix(q, p) /\ q \in frames'[i].list[2] /\ ToCome(frames'[i], 1, q)
      \/ \E q \in Paths : /\ IsPrefix(q, p) /\ q \notin frames'[i].list[Other(s)]
                          /\ ToCome(frames'[i], LoopFor(s, tree'[s][q]), q)
  BY DEF WillRemove
<1>2. QED
  BY <1>1 DEF Losing, WillRemove

LEMMA WillStays ==
  ASSUME tree \in Forests, NEW p \in Paths, NEW s \in Sides, tree[s][p] # None, NEW f, NEW g,
         g.list = f.list,
         \A l \in 1 .. 6 : \A q \in Paths : ToCome(f, l, q) => ToCome(g, l, q),
         WillRemove(f, s, p)
  PROVE  WillRemove(g, s, p)
<1>1. \A q \in Paths : IsPrefix(q, p) => LoopFor(s, tree[s][q]) \in 1 .. 6
  BY AboveIsDir, LoopForIs
<1>2. \A q \in Paths : ToCome(f, 1, q) => ToCome(g, 1, q)
  OBVIOUS
<1>3. \A q \in Paths : IsPrefix(q, p) /\ ToCome(f, LoopFor(s, tree[s][q]), q) =>
                         ToCome(g, LoopFor(s, tree[s][q]), q)
  BY <1>1
<1>4. QED
  BY <1>2, <1>3 DEF WillRemove

(* A call that begins on the way to p will remove it. *)
LEMMA EnterLeaving ==
  ASSUME WalkInv, OnceInv, mode = "intersect", NEW p \in Paths, ~ Common(p),
         NEW s \in Sides, tree[s][p] # None,
         NEW d, d = Root \/ (d \in Paths /\ IsStrictPrefix(d, p))
  PROVE  WillRemove(Enter(d), s, p)
<1> DEFINE f == Enter(d)
<1>1. tree \in Forests
  BY DEF WalkInv, Types
<1>2. PICK r \in Paths : Parent(r) = d /\ (r = p \/ IsStrictPrefix(r, p))
  BY TowardIs
<1>3. IsPrefix(r, p)
  BY <1>2, PrefixOrSame
<1>4. tree[s][r] \in Thing /\ tree[s][r] # None
  BY <1>1, <1>3, AboveIsDir
<1>5. Other(s) \in Sides /\ ((s = 1 /\ Other(s) = 2) \/ (s = 2 /\ Other(s) = 1))
  BY SidesAre
<1>6. r \in f.list[s] /\ (r \in f.list[Other(s)] <=> tree[Other(s)][r] # None)
  BY <1>2, <1>4, <1>5, EnterIs
<1>7. CASE r \notin f.list[Other(s)]
  <2>1. LoopFor(s, tree[s][r]) \in 1 .. 6 /\ SideOf(LoopFor(s, tree[s][r])) = s
    BY <1>4, LoopForIs
  <2>2. ToCome(f, LoopFor(s, tree[s][r]), r)
    BY <1>6, <2>1, EnterToCome
  <2>3. QED
    BY <1>3, <1>7, <2>2 DEF WillRemove
<1>8. CASE r \in f.list[Other(s)]
  <2>1. r # p
    BY <1>6, <1>8, NothingBrought
  <2>2. r \in f.list[1] /\ r \in f.list[2]
    BY <1>5, <1>6, <1>8
  <2>3. ToCome(f, 1, r)
    BY <2>2, LoopsAre, EnterToCome
  <2>4. QED
    BY <1>2, <2>1, <2>2, <2>3 DEF WillRemove
<1>9. QED
  BY <1>7, <1>8

LEMMA ExecuteLeaving ==
  ASSUME WalkInv, OnceInv, Execute, mode = "intersect", NEW p \in Paths, ~ Common(p), Leaving(p)
  PROVE  Leaving(p)'
<1> SUFFICES ASSUME NEW s \in Sides, tree'[s][p] # None PROVE Losing(s, p)'
  BY DEF Leaving
<1>1. Types /\ tree \in Forests /\ tree' \in Forests
  <2>1. WalkInv'
    BY ExecuteWalk
  <2>2. QED
    BY <2>1 DEF WalkInv, Types
<1>2. /\ 1 \in 1 .. Len(script)
      /\ \A j \in 1 .. Len(script) : j # 1 => j - 1 \in 1 .. Len(script') /\ script'[j - 1] = script[j]
      /\ UNCHANGED <<mode, frames, runs, base>>
  BY <1>1, ExecuteIs
<1>3. tree[s][p] # None /\ tree'[s][p] = tree[s][p]
  BY ExecuteShrinks
<1>4. ASSUME NEW q \in Paths, IsPrefix(q, p) PROVE tree'[s][q] = tree[s][q]
  <2>1. CASE q = p
    BY <1>3, <2>1
  <2>2. CASE IsStrictPrefix(q, p)
    BY <1>1, <1>3, <2>2 DEF Forests, WellFormed
  <2>3. QED
    BY <1>4, <2>1, <2>2, PrefixOrSame
<1>5. CASE Removing(s, p)
  <2>1. PICK j \in 1 .. Len(script) :
          /\ script[j].side = s /\ IsPrefix(script[j].path, p)
          /\ \/ script[j].do = "rm -rf"
             \/ script[j].do = "rm" /\ script[j].path = p /\ tree[s][p] # Dir
    BY <1>5 DEF Removing
  <2>2. j # 1
    <3> SUFFICES ASSUME j = 1 PROVE FALSE
      OBVIOUS
    <3>1. tree'[s][p] = None
      BY <1>3, <2>1, ExecuteRemoves
    <3>2. QED
      BY <3>1
  <2>3. j - 1 \in 1 .. Len(script') /\ script'[j - 1] = script[j]
    BY <1>2, <2>2
  <2>4. Removing(s, p)'
    BY <1>3, <2>1, <2>3 DEF Removing
  <2>5. QED
    BY <2>4 DEF Losing
<1>6. ASSUME NEW i \in 1 .. Len(frames), WillRemove(frames[i], s, p) PROVE Losing(s, p)'
  BY <1>2, <1>4, <1>6, WillThen
<1>7. QED
  BY <1>3, <1>5, <1>6 DEF Leaving, Losing

(* A directory above it that both sides have is kept. *)
LEMMA BothListed ==
  ASSUME WalkInv, VersionsInv, OnceInv, mode = "intersect", NEW v \in Paths, Settled(v),
         NEW i \in 1 .. Len(frames), v \in frames[i].list[1], v \in frames[i].list[2],
         NEW s \in Sides, tree[s][v] = Dir
  PROVE  Concerned(v) /\ Directory(v)
<1>1. \A t \in Sides : Had(t, v)
  <2>1. \A t \in Sides : t = 1 \/ t = 2
    BY DEF Sides
  <2>2. QED
    BY <2>1 DEF OnceInv, Origin
<1>2. Common(v)
  BY <1>1, NotBoth
<1>3. base[s][v] # None
  BY <1>1 DEF Had
<1>4. Concerned(v)
  BY <1>2, <1>3, KeptExists DEF Concerned, WalkInv
<1>5. Directory(v)
  BY <1>4, FileKinds, DirIs
<1>6. QED
  BY <1>4, <1>5

(* A visit to an entry that the other side has not removes it. *)
LEMMA VisitRemoves ==
  ASSUME WalkInv, mode = "intersect", NEW v \in Paths, Visit(v), NEW n, n = Len(frames),
         NEW s \in Sides, NEW p \in Paths, tree[s][p] # None, IsPrefix(v, p),
         v \notin frames[n].list[Other(s)], frames[n].loop = LoopFor(s, tree[s][v])
  PROVE  Removing(s, p)'
<1> DEFINE a == tree[s][v]
           w == Printed(s, v, a, None)
<1>1. Types /\ script \in Seq(Order) /\ tree \in Forests /\ tree' = tree
  BY DEF WalkInv, Types, Visit
<1>2. a \in Thing /\ a # None /\ (v # p => a = Dir)
  BY <1>1, AboveIsDir
<1>3. SideOf(frames[n].loop) = s /\ KindOf(frames[n].loop) = a.kind
  BY <1>2, LoopForIs
<1>4. Found(v, a, None)
  BY <1>2, <1>3 DEF Found
<1>5. script' = script \o w
  <2> HIDE DEF a
  <2>1. script' = script \o Printed(SideOf(frames[n].loop), v, a, None)
    BY <1>3, <1>4, VisitDoes
  <2>2. QED
    BY <1>3, <2>1
<1>6. a.kind \in {"dir", "file", "link"} /\ (a.kind = "dir" <=> a = Dir)
  BY <1>2, ThingIs
<1>7. w = IF a.kind = "dir" THEN <<DeleteTree(s, v)>> ELSE <<Delete(s, v)>>
  <2> HIDE DEF a
  <2>1. QED
    BY <1>6, DirIs DEF Printed, IntersectDir, IntersectFile, IntersectLink
<1>8. /\ w \in Seq(Order) /\ 1 \in 1 .. Len(w)
      /\ w[1] = IF a.kind = "dir" THEN DeleteTree(s, v) ELSE Delete(s, v)
  <2>1. DeleteTree(s, v) \in Order /\ Delete(s, v) \in Order
    BY CommandsAre
  <2>2. CASE a.kind = "dir"
    <3>1. w = <<DeleteTree(s, v)>>
      BY <1>7, <2>2
    <3> HIDE DEF w, a
    <3>2. QED
      BY <2>1, <2>2, <3>1
  <2>3. CASE a.kind # "dir"
    <3>1. w = <<Delete(s, v)>>
      BY <1>7, <2>3
    <3> HIDE DEF w, a
    <3>2. QED
      BY <2>1, <2>3, <3>1
  <2>4. QED
    BY <2>2, <2>3
<1>9. PICK j \in 1 .. Len(script') : script'[j] = w[1]
  <2> HIDE DEF w
  <2>1. QED
    BY <1>1, <1>5, <1>8, PrintedThere
<1>10. /\ DeleteTree(s, v).do = "rm -rf" /\ DeleteTree(s, v).side = s /\ DeleteTree(s, v).path = v
       /\ Delete(s, v).do = "rm" /\ Delete(s, v).side = s /\ Delete(s, v).path = v
  BY DEF DeleteTree, Delete, Command
<1>11. CASE a.kind = "dir"
  <2>1. script'[j].do = "rm -rf" /\ script'[j].side = s /\ script'[j].path = v
    BY <1>8, <1>9, <1>10, <1>11
  <2>2. QED
    BY <2>1 DEF Removing
<1>12. CASE a.kind # "dir"
  <2>1. script'[j].do = "rm" /\ script'[j].side = s /\ script'[j].path = v
    BY <1>8, <1>9, <1>10, <1>12
  <2>2. v = p /\ tree'[s][p] # Dir
    BY <1>1, <1>2, <1>6, <1>12
  <2>3. QED
    BY <2>1, <2>2 DEF Removing
<1>13. QED
  BY <1>11, <1>12

LEMMA VisitLeaving ==
  ASSUME WalkInv, VersionsInv, OnceInv, NEW v \in Paths, Visit(v), mode = "intersect",
         NEW p \in Paths, Settled(p), ~ Common(p), Leaving(p)
  PROVE  Leaving(p)'
<1> DEFINE n == Len(frames)
<1>1. /\ Types /\ Walk /\ script \in Seq(Order) /\ tree \in Forests
      /\ UNCHANGED <<mode, tree, runs, base, strayed>>
  BY VisitIs DEF WalkInv, Types
<1> SUFFICES ASSUME NEW s \in Sides, tree[s][p] # None PROVE Losing(s, p)'
  BY <1>1 DEF Leaving
<1>2. \A j \in 1 .. Len(script) : j \in 1 .. Len(script') /\ script'[j] = script[j]
  <2>1. PICK w \in Seq(Order) : script' = script \o w
    BY VisitPrints
  <2>2. QED
    BY <1>1, <2>1, ScriptGrows
<1>3. CASE Removing(s, p)
  <2>1. Removing(s, p)'
    BY <1>1, <1>2, <1>3 DEF Removing
  <2>2. QED
    BY <2>1 DEF Losing
<1>4. ASSUME NEW i \in 1 .. Len(frames), WillRemove(frames[i], s, p) PROVE Losing(s, p)'
  <2> DEFINE f == frames[i]
             g == frames'[i]
  <2>1. /\ i \in 1 .. Len(frames') /\ g.list = f.list /\ n \in 1 .. Len(frames)
        /\ \A l \in 1 .. 6 : \A q \in Paths :
             ToCome(g, l, q) <=> ToCome(f, l, q) /\ ~ (i = n /\ q = v /\ l = frames[n].loop)
    BY <1>1, VisitToCome
  <2>2. ASSUME WillRemove(g, s, p) PROVE Losing(s, p)'
    BY <1>1, <2>1, <2>2, WillThen
  <2>3. ASSUME NEW q \in Paths, IsStrictPrefix(q, p), q \in f.list[2], ToCome(f, 1, q)
        PROVE  Losing(s, p)'
    <3>1. CASE ToCome(g, 1, q)
      BY <2>1, <2>2, <2>3, <3>1 DEF WillRemove
    <3>2. CASE ~ ToCome(g, 1, q)
      <4>1. i = n /\ q = v /\ frames[n].loop = 1
        BY <2>1, <2>3, <3>2
      <4>2. v \in frames[n].list[1] /\ v \in frames[n].list[2]
        BY <1>1, <2>3, <4>1, LoopsAre, VisitIs
      <4>3. tree[s][v] = Dir
        BY <1>1, <2>3, <4>1 DEF Forests, WellFormed
      <4>4. Settled(v)
        <5>1. \A r \in Paths : IsPrefix(r, v) => IsPrefix(r, p)
          BY <2>3, <4>1, PrefixOrSame, PrefixesOfPrefix
        <5>2. QED
          BY <5>1 DEF Settled
      <4>5. Concerned(v) /\ Directory(v)
        BY <2>1, <4>2, <4>3, <4>4, BothListed
      <4>6. n + 1 \in 1 .. Len(frames') /\ frames'[n + 1] = Enter(v)
        BY <4>1, <4>2, <4>5, VisitEnters
      <4>7. WillRemove(Enter(v), s, p)
        BY <2>3, <4>1, EnterLeaving
      <4>8. QED
        BY <1>1, <4>6, <4>7, WillThen
    <3>3. QED
      BY <3>1, <3>2
  <2>4. ASSUME NEW q \in Paths, IsPrefix(q, p), q \notin f.list[Other(s)],
               ToCome(f, LoopFor(s, tree[s][q]), q)
        PROVE  Losing(s, p)'
    <3>1. CASE ToCome(g, LoopFor(s, tree[s][q]), q)
      BY <2>1, <2>2, <2>4, <3>1 DEF WillRemove
    <3>2. CASE ~ ToCome(g, LoopFor(s, tree[s][q]), q)
      <4>1. LoopFor(s, tree[s][q]) \in 1 .. 6
        BY <1>1, <2>4, AboveIsDir, LoopForIs
      <4>2. i = n /\ q = v /\ frames[n].loop = LoopFor(s, tree[s][v])
        BY <2>1, <2>4, <3>2, <4>1
      <4>3. Removing(s, p)'
        BY <2>4, <4>2, VisitRemoves
      <4>4. QED
        BY <4>3 DEF Losing
    <3>3. QED
      BY <3>1, <3>2
  <2>5. QED
    BY <1>4, <2>3, <2>4 DEF WillRemove
<1>5. QED
  BY <1>3, <1>4 DEF Leaving, Losing

LEMMA CallsLeaving ==
  ASSUME WalkInv, NextLoop \/ Return \/ UNCHANGED vars, NEW p \in Paths, Leaving(p)
  PROVE  Leaving(p)'
<1>1. Types /\ Walk /\ tree \in Forests
  BY DEF WalkInv, Types
<1>2. /\ UNCHANGED <<mode, tree, script, runs, base, strayed>>
      /\ \A i \in 1 .. Len(frames) : \A l \in 1 .. 6 : \A q \in Paths :
           ToCome(frames[i], l, q) =>
             /\ i \in 1 .. Len(frames') /\ frames'[i].list = frames[i].list
             /\ ToCome(frames'[i], l, q)
  BY <1>1, CallsToCome
<1> SUFFICES ASSUME NEW s \in Sides, tree[s][p] # None PROVE Losing(s, p)'
  BY <1>2 DEF Leaving
<1>3. Removing(s, p) => Losing(s, p)'
  BY <1>2 DEF Removing, Losing
<1>4. ASSUME NEW i \in 1 .. Len(frames), WillRemove(frames[i], s, p) PROVE Losing(s, p)'
  <2>1. \E l \in 1 .. 6 : \E q \in Paths : ToCome(frames[i], l, q)
    <3>1. \A q \in Paths : IsPrefix(q, p) => LoopFor(s, tree[s][q]) \in 1 .. 6
      BY <1>1, AboveIsDir, LoopForIs
    <3>2. QED
      BY <1>4, <3>1 DEF WillRemove
  <2>2. i \in 1 .. Len(frames') /\ frames'[i].list = frames[i].list
    BY <1>2, <2>1
  <2>3. WillRemove(frames'[i], s, p)
    BY <1>1, <1>2, <1>4, <2>2, WillStays
  <2>4. QED
    BY <1>2, <2>2, <2>3, WillThen
<1>5. QED
  BY <1>3, <1>4 DEF Leaving, Losing

-----------------------------------------------------------------------------
(* A run of the program that begins will come to everything. *)
LEMMA StartedComplete ==
  WalkInv /\ VersionsInv /\ OnceInv /\ frames = <<Enter(Root)>> => CompleteInv
<1> SUFFICES ASSUME WalkInv, VersionsInv, OnceInv, frames = <<Enter(Root)>>,
                    NEW p \in Paths, Settled(p)
             PROVE  /\ Kept(p) # {} => Complete(p)
                    /\ mode = "intersect" /\ ~ Common(p) => Leaving(p)
  BY DEF CompleteInv
<1>1. 1 \in 1 .. Len(frames) /\ frames[1] = Enter(Root)
  OBVIOUS
<1>2. ASSUME Kept(p) # {} PROVE Complete(p)
  <2>1. Concerned(p)
    BY <1>2 DEF Concerned
  <2>2. Agreed(p, Kept(p)) \/ ComesTo(Enter(Root), p)
    BY <2>1, EnterComing
  <2>3. QED
    BY <1>1, <2>2 DEF Complete, Coming
<1>3. ASSUME mode = "intersect", ~ Common(p), NEW s \in Sides, tree[s][p] # None
      PROVE  Losing(s, p)
  <2>1. WillRemove(Enter(Root), s, p)
    BY <1>3, EnterLeaving
  <2>2. QED
    BY <1>1, <2>1 DEF Losing
<1>4. QED
  BY <1>2, <1>3 DEF Leaving

LEMMA CompleteKept ==
  WalkInv /\ VersionsInv /\ OnceInv /\ CompleteInv /\ [Next]_vars => CompleteInv'
<1>1. (WalkInv /\ VersionsInv /\ OnceInv /\ frames = <<Enter(Root)>> => CompleteInv)'
  BY StartedComplete, PTL
<1> SUFFICES ASSUME WalkInv, VersionsInv, OnceInv, CompleteInv, [Next]_vars PROVE CompleteInv'
  OBVIOUS
<1>2. CASE StartAgain
  <2>1. WalkInv' /\ VersionsInv' /\ OnceInv'
    BY WalkKept, VersionsKept, OnceKept
  <2>2. frames' = <<Enter(Root)>>'
    BY <1>2 DEF StartAgain, Enter, Listing
  <2>3. QED
    BY <1>1, <2>1, <2>2
<1>3. ASSUME mode' = mode, base' = base, strayed \subseteq strayed',
             \A p \in Paths : Settled(p)' /\ Concerned(p) /\ Complete(p) => Complete(p)',
             \A p \in Paths : mode = "intersect" /\ Settled(p) /\ ~ Common(p) /\ Leaving(p) =>
                                Leaving(p)'
      PROVE  CompleteInv'
  <2> SUFFICES ASSUME NEW p \in Paths, Settled(p)'
               PROVE  (/\ Kept(p) # {} => Complete(p)
                       /\ mode = "intersect" /\ ~ Common(p) => Leaving(p))'
    BY DEF CompleteInv
  <2>1. mode' = mode /\ base' = base
    BY <1>3
  <2>2. Settled(p)
    BY <1>3 DEF Settled, Conflict
  <2>3. Kept(p)' = Kept(p)
    BY <2>1, KeptStays
  <2>4. Common(p)' <=> Common(p)
    BY <2>1 DEF Common
  <2>5. ASSUME Kept(p) # {} PROVE Complete(p)'
    <3>1. Concerned(p) /\ Complete(p)
      BY <2>2, <2>5 DEF Concerned, CompleteInv
    <3>2. QED
      BY <1>3, <3>1
  <2>6. ASSUME mode = "intersect", ~ Common(p) PROVE Leaving(p)'
    <3>1. Leaving(p)
      BY <2>2, <2>6 DEF CompleteInv
    <3>2. QED
      BY <1>3, <2>2, <2>6, <3>1
  <2>7. QED
    BY <2>1, <2>3, <2>4, <2>5, <2>6
<1>4. ASSUME NEW v \in Paths, Visit(v) PROVE CompleteInv'
  <2>1. mode' = mode /\ base' = base /\ strayed \subseteq strayed'
    BY <1>4 DEF Visit
  <2>2. \A p \in Paths : Concerned(p) /\ Complete(p) => Complete(p)'
    BY <1>4, VisitComplete
  <2>3. \A p \in Paths : mode = "intersect" /\ Settled(p) /\ ~ Common(p) /\ Leaving(p) => Leaving(p)'
    BY <1>4, VisitLeaving
  <2>4. QED
    BY <1>3, <2>1, <2>2, <2>3
<1>5. CASE NextLoop \/ Return \/ UNCHANGED vars
  <2>1. mode' = mode /\ base' = base /\ strayed \subseteq strayed'
    BY <1>5, CallsStay DEF WalkInv
  <2>2. \A p \in Paths : Complete(p) => Complete(p)'
    BY <1>5, CallsComplete
  <2>3. \A p \in Paths : Leaving(p) => Leaving(p)'
    BY <1>5, CallsLeaving
  <2>4. QED
    BY <1>3, <2>1, <2>2, <2>3
<1>6. CASE Execute
  <2>1. mode' = mode /\ base' = base /\ strayed \subseteq strayed'
    BY <1>6 DEF Execute
  <2>2. \A p \in Paths : Settled(p)' /\ Concerned(p) /\ Complete(p) => Complete(p)'
    BY <1>6, ExecuteComplete
  <2>3. \A p \in Paths : mode = "intersect" /\ ~ Common(p) /\ Leaving(p) => Leaving(p)'
    BY <1>6, ExecuteLeaving
  <2>4. QED
    BY <1>3, <2>1, <2>2, <2>3
<1>7. QED
  BY <1>2, <1>4, <1>5, <1>6 DEF Next

(* When nothing is pending or to come, all there is is agreed. *)
LEMMA DoneIsAgreed ==
  WalkInv /\ OnceInv /\ CompleteInv => Result
<1> SUFFICES ASSUME WalkInv, OnceInv, CompleteInv, Done, NEW p \in Paths, Settled(p)
             PROVE  Agreed(p, Kept(p))
  BY DEF Result
<1>1. Types /\ mode \in {"union", "intersect"}
  BY DEF WalkInv, Types
<1>2. \A i : i \notin 1 .. Len(frames) /\ i \notin 1 .. Len(script)
  BY DEF Done
<1>3. CASE Kept(p) # {}
  <2>1. Complete(p)
    BY <1>3 DEF CompleteInv
  <2>2. ~ Fixing(p) /\ ~ Coming(p)
    BY <1>2 DEF Fixing, Coming
  <2>3. QED
    BY <2>1, <2>2 DEF Complete
<1>4. CASE Kept(p) = {}
  <2>1. ASSUME mode = "union", NEW s \in Sides PROVE tree[s][p] = None
    <3>1. \A t \in Sides : base[t][p] = None
      BY <1>1, <1>4, <2>1, KeptExists
    <3>2. ~ Had(s, p)
      BY <2>1, <3>1, SidesAre DEF Had
    <3>3. QED
      BY <2>1, <3>2 DEF OnceInv, Origin
  <2>2. ASSUME mode = "intersect", NEW s \in Sides PROVE tree[s][p] = None
    <3>1. ~ Common(p)
      <4> SUFFICES ASSUME Common(p) PROVE FALSE
        OBVIOUS
      <4>1. IsPrefix(p, p)
        BY PrefixOrSame
      <4>2. base[s][p] # None
        BY <2>2, <4>1 DEF Common
      <4>3. QED
        BY <1>1, <1>4, <2>2, <4>2, KeptExists
    <3>2. Leaving(p)
      BY <2>2, <3>1 DEF CompleteInv
    <3>3. ~ Losing(s, p)
      BY <1>2 DEF Losing, Removing
    <3>4. QED
      BY <2>2, <3>2, <3>3 DEF Leaving
  <2>3. QED
    BY <1>1, <1>4, <2>1, <2>2 DEF Agreed
<1>5. QED
  BY <1>3, <1>4

(* When the walk has returned and the shell has run all it printed, both   *)
(* trees hold of every path the version to be kept, and nothing else,      *)
(* wherever no command wrote beside and nothing was in conflict: whatever  *)
(* the order of the names, however far the shell was behind the walk, and  *)
(* however often both were cut off and started again.                      *)
THEOREM ResultReached == Spec => []Result
<1>1. Init => WalkInv /\ VersionsInv /\ OnceInv /\ CompleteInv
  <2> SUFFICES ASSUME Init PROVE WalkInv /\ VersionsInv /\ OnceInv /\ CompleteInv
    OBVIOUS
  <2>1. WalkInv /\ VersionsInv /\ OnceInv
    BY InitWalk, InitVersions, InitOnce
  <2>2. frames = <<Enter(Root)>>
    BY DEF Init
  <2>3. QED
    BY <2>1, <2>2, StartedComplete
<1>2. QED
  BY <1>1, WalkKept, VersionsKept, OnceKept, CompleteKept, DoneIsAgreed, PTL DEF Spec
=============================================================================
