---------------------------- MODULE Synchronize ----------------------------
(***************************************************************************)
(* The directory synchroniser (synchronize.c) and the shell that runs what *)
(* it prints.  The program walks two directory trees together and prints   *)
(* commands; the commands go to a shell, which may run them while the walk *)
(* is still going on (a pipe) or after it.  Whoever uses it may cut both   *)
(* off between two commands and start again.                               *)
(*                                                                         *)
(* A directory is listed once, when the walk enters it; what kind of thing *)
(* an entry is, and its time and size, are looked up when a loop comes to  *)
(* it, so after commands may already have run.  A lookup of an entry that  *)
(* has gone fails, the program does not notice, and reads whatever the     *)
(* structure held before.                                                  *)
(***************************************************************************)
EXTENDS Integers, SequencesExt

(* An operator whose comment begins with "Slip:" is a mistake the code     *)
(* could have made in the definition that follows it; no specification     *)
(* uses it.                                                                *)

CONSTANTS
  Paths,        \* the paths below the two roots: sequences of names
  Holds,        \* for each path, the entries it may have in the beginning
  ToDirectory,  \* the targets of links that are directories
  LastTime,     \* no entry has a later time in the beginning
  MaxRuns       \* bound: how often the program is started

None == [kind |-> "none", time |-> 0, size |-> 0, what |-> ""]
Dir  == [kind |-> "dir", time |-> 0, size |-> 0, what |-> ""]

(* What may stand at a path: time and size matter of files and links only. *)
Things(times) ==
  {None, Dir} \cup [kind : {"file", "link"}, time : times, size : Nat, what : STRING]

ASSUME SynchronizeAssumption ==
  /\ IsFiniteSet(Paths)
  /\ \A p \in Paths : /\ p \in Seq(STRING) /\ p # << >>
                       /\ \A n \in 1 .. Len(p) : SubSeq(p, 1, n) \in Paths
  /\ LastTime \in Nat /\ MaxRuns \in Nat \ {0}
  /\ Holds \in [Paths -> SUBSET Things(0 .. LastTime)]

Sides == 1 .. 2
Other(s) == 3 - s

VARIABLES
  mode,     \* "union", or "intersect" for -i
  tree,     \* the two trees
  frames,   \* the calls of the recursive walk, the innermost last
  script,   \* the commands printed and not yet run
  runs,     \* how often the program was started
  base,     \* for the properties: the trees the result is judged by
  strayed   \* for the properties: paths a command wrote beside

vars == <<mode, tree, frames, script, runs, base, strayed>>

Parent(p) == Front(p)
Root == <<>>
Under(p) == {q \in Paths : IsPrefix(p, q)}

Entries == {None} \cup UNION {Holds[p] : p \in Paths}

(* A tree: an entry is in directories of the tree. *)
WellFormed(t) ==
  \A p, q \in Paths : t[p] # None /\ IsStrictPrefix(q, p) => t[q] = Dir

Trees == {t \in [Paths -> Entries] : WellFormed(t) /\ \A p \in Paths : t[p] \in Holds[p]}

-----------------------------------------------------------------------------
(* The walk. *)

(* Slip: "." is not left out, the name by which a directory lists itself.  *)
ListingWithDot(d) ==
  [s \in Sides |-> {p \in Paths : (Parent(p) = d \/ p = d) /\ tree[s][p] # None}]

(* The two calls of opendir and readdir at the beginning of a call. *)
Listing(d) ==
  [s \in Sides |-> {p \in Paths : Parent(p) = d /\ tree[s][p] # None}]

(* The six loops of a call: which side's entries they take, of what kind. *)
SideOf(loop) == IF loop \in {1, 3, 5} THEN 1 ELSE 2
KindOf(loop) == <<"dir", "dir", "file", "file", "link", "link">>[loop]

Enter(d) == LET list == Listing(d)
            IN  [loop |-> 1, left |-> list[1], list |-> list]

(* What lstat says of an entry; anything if the entry has gone. *)
Lstat(s, p) ==
  IF tree[s][p] # None THEN {tree[s][p]}
  ELSE ({Dir} \cup Entries) \ {None}

(* The commands; `side' is where a copy comes from, and what is removed.   *)
(* The target of a link is read when the command is printed.               *)
Command(do, s, p, e) == [do |-> do, side |-> s, path |-> p, entry |-> e]
CopyTree(s, p)   == Command("cp -rp", s, p, None)
Copy(s, p)       == Command("cp", s, p, None)
Link(s, p, e)    == Command("ln", s, p, e)
Delete(s, p)     == Command("rm", s, p, None)
DeleteTree(s, p) == Command("rm -rf", s, p, None)

(* The time decides and, between equal times, the size. *)
Newer(e, f) == \/ e.time > f.time
               \/ e.time = f.time /\ e.size > f.size

-----------------------------------------------------------------------------
(* What the loops print for an entry p of side s, which is a; b is the     *)
(* entry of the same name on the other side, None if it is not listed.     *)

SyncDir(s, p, b) == IF b = None THEN <<CopyTree(s, p)>> ELSE <<>>

SyncFile(s, p, a, b) ==
  CASE b = None -> <<Copy(s, p)>>
    [] s = 1 /\ b.kind = "file" /\ Newer(a, b) -> <<Copy(1, p)>>
    [] s = 1 /\ b.kind = "file" /\ Newer(b, a) -> <<Copy(2, p)>>
    [] OTHER -> <<>>

(* Slip: the loser is removed and the winner with it, as the two loops     *)
(* would do if each removed the entry it stands at.                        *)
SyncLinkRemovingBoth(s, p, a, b) ==
  CASE b = None -> <<Link(s, p, a)>>
    [] s = 1 /\ b.kind = "link" -> IF Newer(a, b) THEN <<Link(1, p, a)>> ELSE <<Link(2, p, b)>>
    [] b.kind = "file" -> IF a.time > b.time THEN <<Link(s, p, a)>>
                          ELSE <<Delete(Other(s), p), Copy(Other(s), p)>>
    [] OTHER -> <<>>

(* A link wins over a file only by its time. *)
SyncLink(s, p, a, b) ==
  CASE b = None -> <<Link(s, p, a)>>
    [] s = 1 /\ b.kind = "link" -> IF Newer(a, b) THEN <<Link(1, p, a)>> ELSE <<Link(2, p, b)>>
    [] b.kind = "file" -> IF a.time > b.time THEN <<Link(s, p, a)>>
                          ELSE <<Delete(s, p), Copy(Other(s), p)>>
    [] OTHER -> <<>>

IntersectDir(s, p, b) == IF b = None THEN <<DeleteTree(s, p)>> ELSE <<>>

IntersectFile(s, p, a, b) ==
  CASE b = None -> <<Delete(s, p)>>
    [] s = 1 /\ b.kind = "file" /\ Newer(b, a) -> <<Copy(1, p)>>
    [] s = 1 /\ b.kind = "file" /\ Newer(a, b) -> <<Copy(2, p)>>
    [] OTHER -> <<>>

(* Slip: at equal times the file wins, as in the other mode. *)
IntersectLinkToFile(s, p, a, b) ==
  CASE b = None -> <<Delete(s, p)>>
    [] s = 1 /\ b.kind = "link" -> IF Newer(b, a) THEN <<Link(1, p, a)>> ELSE <<Link(2, p, b)>>
    [] b.kind = "file" -> IF b.time <= a.time THEN <<Delete(s, p), Copy(Other(s), p)>>
                          ELSE <<Link(s, p, a)>>
    [] OTHER -> <<>>

(* A file wins over a link only by its time. *)
IntersectLink(s, p, a, b) ==
  CASE b = None -> <<Delete(s, p)>>
    [] s = 1 /\ b.kind = "link" -> IF Newer(b, a) THEN <<Link(1, p, a)>> ELSE <<Link(2, p, b)>>
    [] b.kind = "file" -> IF b.time < a.time THEN <<Delete(s, p), Copy(Other(s), p)>>
                          ELSE <<Link(s, p, a)>>
    [] OTHER -> <<>>

Printed(s, p, a, b) ==
  CASE a.kind = "dir"  -> IF mode = "union" THEN SyncDir(s, p, b) ELSE IntersectDir(s, p, b)
    [] a.kind = "file" -> IF mode = "union" THEN SyncFile(s, p, a, b) ELSE IntersectFile(s, p, a, b)
    [] a.kind = "link" -> IF mode = "union" THEN SyncLink(s, p, a, b) ELSE IntersectLink(s, p, a, b)

-----------------------------------------------------------------------------
(* What a command does to the trees. *)

SideTo(c) == IF c.do \in {"rm", "rm -rf"} THEN c.side ELSE Other(c.side)
Target(c) == tree[SideTo(c)][c.path]
Source(c) == tree[c.side][c.path]

(* cp writes through a link, ln and cp -rp write into a directory.         *)
Strays(c) ==
  \/ c.do = "cp" /\ Source(c).kind = "file" /\ Target(c).kind \in {"dir", "link"}
  \/ c.do = "cp" /\ Source(c).kind = "link"
  \/ c.do = "cp -rp" /\ Target(c) # None
  \/ c.do = "ln" /\ (Target(c).kind = "dir" \/ Target(c).what \in ToDirectory)

(* rm does not remove directories, cp wants a file, and there must be a    *)
(* directory to write in.                                                  *)
Fails(c) ==
  \/ c.do = "rm" /\ Target(c).kind = "dir"
  \/ Parent(c.path) # Root /\ tree[SideTo(c)][Parent(c.path)] # Dir
  \/ c.do = "cp" /\ Source(c).kind \in {"none", "dir"}

(* The paths a command writes, and what it leaves there. *)
Written(c) == IF c.do \in {"cp -rp", "rm -rf"} THEN Under(c.path) ELSE {c.path}

Left(c, q) ==
  CASE c.do \in {"cp", "cp -rp"} -> tree[c.side][q]
    [] c.do = "ln" -> [c.entry EXCEPT !.time = LastTime + runs]
    [] c.do \in {"rm", "rm -rf"} -> None

Ran(c) ==
  [tree EXCEPT ![SideTo(c)] =
     [q \in Paths |-> IF q \in Written(c) THEN Left(c, q) ELSE @[q]]]

-----------------------------------------------------------------------------
Init ==
  /\ mode \in {"union", "intersect"}
  /\ tree \in [Sides -> Trees]
  /\ frames = <<Enter(Root)>>
  /\ script = <<>>
  /\ runs = 1
  /\ base = tree
  /\ strayed = {}

Inner == Last(frames)

(* One round of a loop: the next entry in the order of readdir. *)
Visit(p) ==
  LET s == SideOf(Inner.loop)
      o == Other(s)
      rest == [frames EXCEPT ![Len(frames)].left = @ \ {p}]
  IN  /\ frames # <<>>
      /\ p \in Inner.left
      /\ \E a \in Lstat(s, p), b \in IF p \in Inner.list[o] THEN Lstat(o, p) ELSE {None} :
           IF a.kind # KindOf(Inner.loop) THEN frames' = rest /\ UNCHANGED script
           ELSE /\ script' = script \o Printed(s, p, a, b)
                /\ frames' = IF Inner.loop = 1 /\ b.kind = "dir"
                             THEN Append(rest, Enter(p)) ELSE rest
      /\ UNCHANGED <<mode, tree, runs, base, strayed>>

(* The end of a loop. *)
NextLoop ==
  /\ frames # <<>>
  /\ Inner.left = {}
  /\ Inner.loop < 6
  /\ LET next == Inner.loop + 1
     IN  frames' = [frames EXCEPT ![Len(frames)].loop = next,
                                  ![Len(frames)].left = Inner.list[SideOf(next)]]
  /\ UNCHANGED <<mode, tree, script, runs, base, strayed>>

(* The end of the last loop: the call returns. *)
Return ==
  /\ frames # <<>>
  /\ Inner.left = {}
  /\ Inner.loop = 6
  /\ frames' = Front(frames)
  /\ UNCHANGED <<mode, tree, script, runs, base, strayed>>

(* The shell runs the next command. *)
Execute ==
  /\ script # <<>>
  /\ LET c == Head(script)
     IN  IF Strays(c) THEN strayed' = strayed \cup {c.path} /\ UNCHANGED tree
         ELSE IF Fails(c) THEN UNCHANGED <<tree, strayed>>
         ELSE tree' = Ran(c) /\ UNCHANGED strayed
  /\ script' = Tail(script)
  /\ UNCHANGED <<mode, frames, runs, base>>

(* Program and shell are done or cut off, and started again.  In union     *)
(* mode the result is still judged by the trees before the first run.      *)
StartAgain ==
  /\ runs < MaxRuns
  /\ runs' = runs + 1
  /\ frames' = <<Enter(Root)>>
  /\ script' = <<>>
  /\ base' = IF mode = "union" THEN base ELSE tree
  /\ UNCHANGED <<mode, tree, strayed>>

Next ==
  \/ \E p \in Paths : Visit(p)
  \/ NextLoop
  \/ Return
  \/ Execute
  \/ StartAgain

Spec == Init /\ [][Next]_vars

-----------------------------------------------------------------------------
(* Invariants. *)

FileOrLink(e) == e.kind \in {"file", "link"}

(* The walk goes down one path, the innermost call last, a call works on   *)
(* names it has listed, and an entry is in a directory.                    *)
TypeOK ==
  /\ mode \in {"union", "intersect"}
  /\ runs \in 1 .. MaxRuns
  /\ strayed \subseteq Paths
  /\ Len(frames) <= 1 + Cardinality(Paths)
  /\ \A i \in 1 .. Len(frames) :
       /\ frames[i].loop \in 1 .. 6
       /\ i < Len(frames) => frames[i].loop = 1
       /\ frames[i].left \subseteq frames[i].list[SideOf(frames[i].loop)]
  /\ \A i \in 1 .. Len(script) : script[i].path \in Paths /\ script[i].side \in Sides
  /\ \A s \in Sides, p \in Paths :
       tree[s][p] # None /\ Len(p) > 1 => tree[s][Parent(p)] = Dir

(* What the properties ask of two entries: a file with its time, a link    *)
(* with its target.                                                        *)
Same(e, f) == /\ e.kind = f.kind
              /\ e.what = f.what
              /\ e.size = f.size
              /\ e.kind = "file" => e.time = f.time

(* "When two timestamps are equal but the file sizes or types are          *)
(* different": the larger file, and a file rather than a link.             *)
MoreRecent(e, f) ==
  \/ e.time > f.time
  \/ e.time = f.time /\ e.kind = "file" /\ f.kind = "link"
  \/ e.time = f.time /\ e.kind = f.kind /\ e.size > f.size

Versions(p) == {base[s][p] : s \in Sides} \ {None}
Latest(p) == {e \in Versions(p) : ~ \E f \in Versions(p) : MoreRecent(f, e)}
Oldest(p) == {e \in Versions(p) : ~ \E f \in Versions(p) : MoreRecent(e, f)}

(* A directory on one side and something else on the other. *)
Conflict(p) == \E s \in Sides : base[s][p] = Dir /\ FileOrLink(base[Other(s)][p])

(* Paths a command did not write beside, outside of conflicts. *)
Settled(p) == \A q \in Paths : IsPrefix(q, p) => ~Conflict(q) /\ q \notin strayed

(* On both sides: the path itself and the directories it is in. *)
Common(p) == \A q \in Paths, s \in Sides : IsPrefix(q, p) => base[s][q] # None

(* The versions of which one is to be kept; none if the path is to go. *)
Kept(p) == IF mode = "union" THEN Latest(p)
           ELSE IF Common(p) THEN Oldest(p) ELSE {}

Done == frames = <<>> /\ script = <<>>

(* Both sides hold the same one of these versions, or nothing if there is  *)
(* none.  Two files that only their contents tell apart stay as they are.  *)
Agreed(p, versions) ==
  \/ versions = {} /\ \A s \in Sides : tree[s][p] = None
  \/ \E e \in versions : \A s \in Sides : Same(tree[s][p], e)
  \/ /\ \E e, f \in versions : e # f /\ e.kind = "file" /\ f.kind = "file"
     /\ \A s \in Sides : tree[s][p] = base[s][p]

(* When all commands have run, a path of either tree is in both, in its    *)
(* most recent version, and no other path is; with -i only the paths both  *)
(* trees had are left, in their oldest version, judged by what the last    *)
(* run found.  So it is whatever order the names were listed in, however   *)
(* far the shell was behind the walk, and however often program and shell  *)
(* were cut off and started again.                                         *)
Result == Done => \A p \in Paths : Settled(p) => Agreed(p, Kept(p))

(* At no moment, also between the two commands that replace a link by a    *)
(* file, is the version that is to be kept gone from both trees.           *)
VersionNeverLost ==
  \A p \in Paths : Settled(p) /\ Kept(p) # {} =>
    \E e \in Kept(p), s \in Sides : Same(tree[s][p], e)
=============================================================================
