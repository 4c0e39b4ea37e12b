---------------------------- MODULE FrameBuffer ----------------------------
(***************************************************************************)
(* The frame buffer driver (main.c and fb536.h) on the map lock library    *)
(* beside it (maplock536.c).  Processes open the device, shared frame of   *)
(* pixels, set windows on it and read and write through them; a file may   *)
(* be shared by several processes.  Before it touches the frame a call     *)
(* locks the area of its window, or the whole frame, and it computes that  *)
(* area before it waits for the lock.                                      *)
(*                                                                         *)
(* Of the library the module keeps what lock_lib and unlock_lib do for a   *)
(* caller: a lock is granted when no lock that is held blocks it, and a    *)
(* wait can end with a signal.  A lock is granted together with the first  *)
(* look at the window that follows; no other step tells the two apart.     *)
(* One minor device is modelled, the contents of the pixels are not, and   *)
(* the offset of a file, which lseek sets to anything, is chosen when it   *)
(* is read.                                                                *)
(***************************************************************************)
EXTENDS Rectangles

(* An operator whose comment begins with "Slip:" is a mistake the code     *)
(* could have made in the definition that follows it; no specification     *)
(* uses it.                                                                *)

CONSTANTS
  Procs,      \* the processes that call the driver
  Files,      \* the open files they may have
  Sizes,      \* sizes of the frame: records of a width and a height
  Windows,    \* the windows they ask for
  Ops,        \* the operations of a write
  Counts,     \* how many bytes they read or write
  MaxOffset,  \* bound: the offsets of a file
  None        \* no lock, no file, no argument, no place

ASSUME FrameBufferAssumption ==
  /\ Sizes \subseteq [width : Nat \ {0}, height : Nat \ {0}]
  /\ Windows \subseteq [x : Nat, y : Nat, width : Nat, height : Nat]
  /\ Counts \subseteq Nat \ {0}
  /\ MaxOffset \in Nat
  /\ None \notin Files
  /\ None \notin [type : {"read", "write"}, area : Rectangle]

VARIABLES
  dev,       \* the device: its width, height and operation
  frame,     \* how many bytes of memory the frame has, 0 when it is freed
  files,     \* files[f]: whether it is open and active, its window, whether
             \* SETSIZE has yet to come to it; and, for the properties, askew:
             \* two calls wrote to the window at a time, or the size it was
             \* set by was out of date
  call,      \* call[p]: the call that p is in, and how far
  lock,      \* lock[p]: the lock that p holds, or None
  overtaken  \* for the properties: the window or the size that the call of
             \* p computed its area or its window from is not the one it
             \* works with

vars == <<dev, frame, files, call, lock, overtaken>>

Window(x, y, width, height) == [x |-> x, y |-> y, width |-> width, height |-> height]
WholeFrame == Window(0, 0, dev.width, dev.height)

(* The edges of the area that is locked for a window. *)
Edges(w) ==
  [left |-> w.x, right |-> w.x + w.width, top |-> w.y, bottom |-> w.y + w.height]

Closed == [state |-> "closed", active |-> FALSE, window |-> Window(0, 0, 0, 0),
           due |-> FALSE, askew |-> FALSE]
User == [at |-> "user", does |-> "nothing", file |-> None, arg |-> None,
         request |-> None, place |-> None, cursor |-> None, side |-> "width", value |-> 0]

Init ==
  /\ \E s \in Sizes, op \in Ops :
       /\ dev = [width |-> s.width, height |-> s.height, op |-> op]
       /\ frame = s.width * s.height
  /\ files = [f \in Files |-> Closed]
  /\ call = [p \in Procs |-> User]
  /\ lock = [p \in Procs |-> None]
  /\ overtaken = [p \in Procs |-> FALSE]

-----------------------------------------------------------------------------
(* Windows *)

Fits(w) == w.x + w.width <= dev.width /\ w.y + w.height <= dev.height
Astray(w) == w.x > dev.width \/ w.y > dev.height

(* A window may begin at the right or the lower edge of the frame, and     *)
(* then goes over it.                                                      *)
Cropped(w) ==
  /\ ~ Astray(w)
  /\ w.x < dev.width => w.x + w.width <= dev.width
  /\ w.y < dev.height => w.y + w.height <= dev.height

Fields == {"x", "y", "width", "height"}

(* A call that has stored some fields of a window and not yet all, or the  *)
(* cropping of SETSIZE that stands at the file.                            *)
Storing(p, f) == call[p].at \in {"y", "width", "height"} /\ call[p].file = f
Writing(p, f) == Storing(p, f) \/ call[p].cursor = f

-----------------------------------------------------------------------------
(* Files *)

Ready(p) == call[p].at = "user"
Enter(p, c) == call' = [call EXCEPT ![p] = c]
Usable(p, f) == Ready(p) /\ files[f].state = "open" /\ files[f].active

(* open reads the size, and puts the file into the list of the device. *)
Open(p, f) ==
  /\ Ready(p)
  /\ files[f].state = "closed"
  /\ files' = [files EXCEPT ![f].state = "opening"]
  /\ Enter(p, [User EXCEPT !.at = "opens", !.file = f, !.arg = WholeFrame])
  /\ UNCHANGED <<dev, frame, lock, overtaken>>

ListAdd(p) ==
  /\ call[p].at = "opens"
  /\ LET w == call[p].arg
     IN  files' = [files EXCEPT ![call[p].file] =
           [state |-> "open", active |-> TRUE, window |-> w,
            due |-> FALSE, askew |-> overtaken[p]]]
  /\ Enter(p, User)
  /\ overtaken' = [overtaken EXCEPT ![p] = FALSE]
  /\ UNCHANGED <<dev, frame, lock>>

(* The kernel calls release when no call uses the file any more.  That it  *)
(* then frees what the cropping stands at is left out.                     *)
Release(f) ==
  /\ files[f].state = "open"
  /\ \A p \in Procs : call[p].file # f /\ call[p].cursor # f
  /\ files' = [files EXCEPT ![f] = Closed]
  /\ UNCHANGED <<dev, frame, call, lock, overtaken>>

(* SETWINDOW looks at the size of the device, and then assigns the window, *)
(* one field after the other and without a lock.                           *)
SETWINDOW(p, f, w) ==
  /\ Usable(p, f)
  /\ Fits(w)
  /\ Enter(p, [User EXCEPT !.at = "x", !.does = "SETWINDOW", !.file = f, !.arg = w])
  /\ UNCHANGED <<dev, frame, files, lock, overtaken>>

(* Whoever reads or writes through a window that changes is overtaken. *)
OvertakenBy(f) ==
  [q \in Procs |-> overtaken[q] \/ (call[q].at = "copies" /\ call[q].file = f)]

AfterField == [x |-> "y", y |-> "width", width |-> "height"]

Assign(p) ==
  LET f == call[p].file
      field == call[p].at
      last == field = "height"
  IN  /\ field \in Fields
      /\ files' = [files EXCEPT
           ![f].window = [@ EXCEPT ![field] = call[p].arg[field]],
           ![f].askew = \/ IF field = "x" THEN \E q \in Procs \ {p} : Writing(q, f) ELSE @
                        \/ last /\ overtaken[p]]
      /\ Enter(p, IF last THEN User ELSE [call[p] EXCEPT !.at = AfterField[field]])
      /\ overtaken' = [OvertakenBy(f) EXCEPT ![p] = overtaken[p] /\ ~ last]
      /\ UNCHANGED <<dev, frame, lock>>

-----------------------------------------------------------------------------
(* The area is computed, and the call goes for the lock *)

(* Slip: a write asks for a lock for reading. *)
TypeRead(does) == IF does \in {"read", "write"} THEN "read" ELSE "write"
Type(does) == IF does = "read" THEN "read" ELSE "write"

Area(does, f) == Edges(IF does \in {"read", "write"} THEN files[f].window ELSE WholeFrame)

Ask(p, f, does, arg) ==
  /\ Usable(p, f)
  /\ Enter(p, [User EXCEPT !.at = "asks", !.does = does, !.file = f, !.arg = arg,
                           !.request = [type |-> Type(does), area |-> Area(does, f)]])
  /\ UNCHANGED <<dev, frame, files, lock, overtaken>>

Blocked(p) ==
  \E q \in Procs : lock[q] # None /\ Blocks(lock[q], call[p].request)

(* A signal ends the wait. *)
Interrupted(p) ==
  /\ call[p].at = "asks"
  /\ Blocked(p)
  /\ Enter(p, User)
  /\ UNCHANGED <<dev, frame, files, lock, overtaken>>

(* SETSIZE has freed the frame, and has no new one yet. *)
Resizes(p) == call[p].at \in {"heightens", "resizes"}

(* The lock is granted, on an area that may be out of date by now. *)
Obtain(p) ==
  /\ call[p].at = "asks"
  /\ ~ Blocked(p)
  /\ lock' = [lock EXCEPT ![p] = call[p].request]
  /\ overtaken' = [overtaken EXCEPT ![p] =
       \/ call[p].request.area # Area(call[p].does, call[p].file)
       \/ call[p].does \in {"read", "write"} /\ Astray(files[call[p].file].window)
       \/ \E q \in Procs : Resizes(q)]

(* Slip: a return without map_unlock. *)
LeaveLocked(p) == Enter(p, User) /\ UNCHANGED <<lock, overtaken>>
(* map_unlock and the end of the call. *)
Leave(p) ==
  /\ Enter(p, User)
  /\ lock' = [lock EXCEPT ![p] = None]
  /\ overtaken' = [overtaken EXCEPT ![p] = FALSE]

-----------------------------------------------------------------------------
(* read and write *)

(* The next pixel: its row and column in the window, and in the frame.     *)
Place(w, row, col, left) ==
  [row |-> row, col |-> col, frow |-> w.y + row, fcol |-> w.x + col, left |-> left]

Advance(pl, w) ==
  IF pl.col + 1 = w.width THEN Place(w, pl.row + 1, 0, pl.left - 1)
  ELSE Place(w, pl.row, pl.col + 1, pl.left - 1)

(* With a window of width 0 the division traps, and the process ends with  *)
(* its lock held.                                                          *)
Start(p, offset, count) ==
  LET w == files[call[p].file].window
      size == w.width * w.height
      left == IF offset + count > size THEN size - offset ELSE count
  IN  /\ call[p].does \in {"read", "write"}
      /\ \/ /\ Obtain(p)
            /\ offset <= size
            /\ w.width = 0
            /\ Enter(p, [User EXCEPT !.at = "dead"])
         \/ /\ Obtain(p)
            /\ w.width # 0
            /\ offset < size
            /\ call' = [call EXCEPT ![p].at = "copies",
                 ![p].place = Place(w, offset \div w.width, offset % w.width, left)]
         \/ /\ call[p].at = "asks"
            /\ ~ Blocked(p)
            /\ offset > size \/ (offset = size /\ w.width # 0)
            /\ Leave(p)
      /\ UNCHANGED <<dev, frame, files>>

(* Slip: the place is not looked at before each pixel. *)
Anywhere(pl) == TRUE
InFrame(pl) == pl.frow < dev.height /\ pl.fcol < dev.width

(* One pixel is copied.  The call ends at the last one, at one that is     *)
(* outside of the frame, or because of the buffer of the user.             *)
Copy(p) ==
  LET pl == call[p].place
  IN  /\ call[p].at = "copies"
      /\ \/ Leave(p)
         \/ /\ InFrame(pl)
            /\ pl.left > 1
            /\ call' = [call EXCEPT ![p].place = Advance(pl, files[call[p].file].window)]
            /\ UNCHANGED <<lock, overtaken>>
      /\ UNCHANGED <<dev, frame, files>>

-----------------------------------------------------------------------------
(* The calls that lock the whole frame *)

FirstStep(does) ==
  CASE does = "RESET" -> "clears" [] does = "SETOP" -> "sets" [] does = "SETSIZE" -> "frees"

LockFrame(p) ==
  /\ call[p].does \in {"RESET", "SETOP", "SETSIZE"}
  /\ Obtain(p)
  /\ call' = [call EXCEPT ![p].at = FirstStep(call[p].does)]
  /\ UNCHANGED <<dev, frame, files>>

Clear(p) ==
  /\ call[p].at = "clears"
  /\ Leave(p)
  /\ UNCHANGED <<dev, frame, files>>

SetOp(p) ==
  /\ call[p].at = "sets"
  /\ dev' = [dev EXCEPT !.op = call[p].arg]
  /\ Leave(p)
  /\ UNCHANGED <<frame, files>>

OnFrame(p) == call[p].at \in {"clears", "sets", "frees", "heightens", "resizes"}

(* Whoever sets a window by the size that is replaced is overtaken. *)
SizeChanges ==
  overtaken' = [q \in Procs |-> overtaken[q] \/ call[q].at \in {"opens"} \cup Fields]

(* vfree, and the new size, one number after the other. *)
Free(p) ==
  /\ call[p].at = "frees"
  /\ frame' = 0
  /\ dev' = [dev EXCEPT !.width = call[p].arg.width]
  /\ call' = [call EXCEPT ![p].at = "heightens"]
  /\ SizeChanges
  /\ UNCHANGED <<files, lock>>

SetHeight(p) ==
  /\ call[p].at = "heightens"
  /\ dev' = [dev EXCEPT !.height = call[p].arg.height]
  /\ call' = [call EXCEPT ![p].at = "resizes"]
  /\ SizeChanges
  /\ UNCHANGED <<frame, files, lock>>

(* vmalloc.  The files that are in the list now will be cropped. *)
Allocate(p) ==
  /\ call[p].at = "resizes"
  /\ frame' = dev.width * dev.height
  /\ files' = [f \in Files |-> [files[f] EXCEPT !.due = files[f].state = "open"]]
  /\ call' = [call EXCEPT ![p].at = "crops"]
  /\ overtaken' = [q \in Procs |-> overtaken[q] \/ call[q].at = "copies"]
  /\ UNCHANGED <<dev, lock>>

-----------------------------------------------------------------------------
(* checkWindowsAndCrop, under the lock on the frame, which no SETWINDOW    *)
(* takes.  It looks at a corner and a length at a time, first those of the *)
(* width, and may then write the length.                                   *)

Crops(p) == call[p].at \in {"crops", "looks", "cuts", "tests"}

Corner(w, side) == IF side = "width" THEN w.x ELSE w.y
Length(w, side) == IF side = "width" THEN w.width ELSE w.height
Limit(p) == IF call[p].side = "width" THEN call[p].arg.width ELSE call[p].arg.height
AtCursor(p) == files[call[p].cursor].window

(* The next file in the list, which an open does not come to any more. *)
NextFile(p, f) ==
  /\ call[p].at = "crops"
  /\ files[f].due
  /\ files' = [files EXCEPT ![f].due = FALSE, ![f].askew = \E q \in Procs : Storing(q, f)]
  /\ call' = [call EXCEPT ![p].at = "looks", ![p].cursor = f]
  /\ UNCHANGED <<dev, frame, lock, overtaken>>

(* Slip: what is cut on one side is not looked at on the other. *)
OnwardIfWhole(c) ==
  IF c.side = "width" /\ c.value = 0
  THEN [c EXCEPT !.at = "looks", !.side = "height", !.value = 0]
  ELSE [c EXCEPT !.at = "tests", !.side = "width", !.value = 0]
(* Both sides of the window are looked at, and then its corner. *)
Onward(c) ==
  IF c.side = "width" THEN [c EXCEPT !.at = "looks", !.side = "height", !.value = 0]
  ELSE [c EXCEPT !.at = "tests", !.side = "width", !.value = 0]

TooLong(p) ==
  LET from == Corner(AtCursor(p), call[p].side)
  IN  from < Limit(p) /\ from + Length(AtCursor(p), call[p].side) > Limit(p)

(* The length that the frame leaves. *)
Cut(p) == Limit(p) - Corner(AtCursor(p), call[p].side)

Look(p) ==
  /\ call[p].at = "looks"
  /\ \/ TooLong(p) /\ Enter(p, [call[p] EXCEPT !.at = "cuts", !.value = Cut(p)])
     \/ ~ TooLong(p) /\ Enter(p, Onward(call[p]))
  /\ UNCHANGED <<dev, frame, files, lock, overtaken>>

Shorten(p) ==
  /\ call[p].at = "cuts"
  /\ files' = [files EXCEPT ![call[p].cursor].window =
       [@ EXCEPT ![call[p].side] = call[p].value]]
  /\ Enter(p, Onward(call[p]))
  /\ overtaken' = OvertakenBy(call[p].cursor)
  /\ UNCHANGED <<dev, frame, lock>>

(* A window whose corner is at the new edge stays active. *)
Test(p) ==
  /\ call[p].at = "tests"
  /\ files' = [files EXCEPT ![call[p].cursor].active = @ /\ ~ Astray(AtCursor(p))]
  /\ call' = [call EXCEPT ![p].at = "crops", ![p].cursor = None]
  /\ UNCHANGED <<dev, frame, lock, overtaken>>

EndOfList(p) ==
  /\ call[p].at = "crops"
  /\ \A f \in Files : ~ files[f].due
  /\ Leave(p)
  /\ UNCHANGED <<dev, frame, files>>

-----------------------------------------------------------------------------
Calls(p, f) ==
  \/ Open(p, f)
  \/ \E w \in Windows : SETWINDOW(p, f, w)
  \/ \E does \in {"read", "write", "RESET"} : Ask(p, f, does, None)
  \/ \E s \in Sizes : Ask(p, f, "SETSIZE", s)
  \/ \E op \in Ops : Ask(p, f, "SETOP", op)

Steps(p) ==
  \/ ListAdd(p)
  \/ Assign(p)
  \/ Interrupted(p)
  \/ \E offset \in 0 .. MaxOffset, count \in Counts : Start(p, offset, count)
  \/ Copy(p)
  \/ LockFrame(p)
  \/ Clear(p)
  \/ SetOp(p)
  \/ Free(p)
  \/ SetHeight(p)
  \/ Allocate(p)
  \/ \E f \in Files : NextFile(p, f)
  \/ Look(p)
  \/ Shorten(p)
  \/ Test(p)
  \/ EndOfList(p)

Next ==
  \/ \E p \in Procs : Steps(p) \/ \E f \in Files : Calls(p, f)
  \/ \E f \in Files : Release(f)

Spec == Init /\ [][Next]_vars

-----------------------------------------------------------------------------
(* Properties *)

(* A process holds a lock exactly while it works on the frame, and for     *)
(* ever if it died there; only a call of SETSIZE leaves the frame without  *)
(* memory.                                                                 *)
TypeOK ==
  /\ dev \in [width : {s.width : s \in Sizes}, height : {s.height : s \in Sizes}, op : Ops]
  /\ overtaken \in [Procs -> BOOLEAN]
  /\ \A f \in Files :
       /\ files[f].state \in {"closed", "opening", "open"}
       /\ files[f].active => files[f].state = "open"
       /\ files[f].due => files[f].state = "open" /\ \E p \in Procs : Crops(p)
       /\ files[f].window \in [x : Nat, y : Nat, width : Nat, height : Nat]
  /\ \A p \in Procs :
       /\ \/ call[p].at \in {"user", "opens", "asks", "copies", "dead"} \cup Fields
          \/ OnFrame(p)
          \/ Crops(p)
       /\ lock[p] # None <=> call[p].at \in {"copies", "dead"} \/ OnFrame(p) \/ Crops(p)
       /\ call[p].file # None => files[call[p].file].state # "closed"
       /\ call[p].cursor # None => Crops(p) /\ files[call[p].cursor].state = "open"
  /\ \/ frame = dev.width * dev.height
     \/ \E p \in Procs : Resizes(p)

OnPixel(p) == call[p].at = "copies" /\ InFrame(call[p].place)

Collide(p, q) ==
  \/ OnFrame(p) /\ (OnFrame(q) \/ OnPixel(q))
  \/ /\ OnPixel(p) /\ OnPixel(q)
     /\ call[p].place.frow = call[q].place.frow
     /\ call[p].place.fcol = call[q].place.fcol
     /\ {call[p].does, call[q].does} # {"read"}

(* Two calls are never at the same pixel, one of them to write it, and no  *)
(* call is at a pixel while another clears the frame, sets the operation   *)
(* or changes the size, unless one of the two was overtaken between the    *)
(* computation of its area and its end (main.c:87-131, 146-212, 266-311).  *)
AccessesExclude ==
  \A p, q \in Procs :
    p # q /\ Collide(p, q) => overtaken[p] \/ overtaken[q]

(* A call is about to touch, or to free, memory that the frame has not. *)
Faults(p) ==
  \/ OnPixel(p) /\ call[p].place.frow * dev.width + call[p].place.fcol >= frame
  \/ call[p].at = "clears" /\ frame < dev.width * dev.height
  \/ call[p].at = "frees" /\ frame = 0

(* Nobody touches memory that is not the frame's, neither at its ends nor  *)
(* while it is replaced, though windows go over its edge and change while  *)
(* they are read; unless the call, or one that changes the size, was       *)
(* overtaken (main.c:102-121, 168-203, 283-291).                           *)
FrameSafe ==
  \A p \in Procs :
    Faults(p) => \/ overtaken[p]
                 \/ \E q \in Procs : Resizes(q) /\ overtaken[q]

(* Whatever sizes came and went, an active window is within the frame, or  *)
(* begins just at its edge, once SETSIZE and SETWINDOW are done with it;   *)
(* unless a size was replaced between the check of SETWINDOW, or the look  *)
(* of open, and the end of that call, or two calls wrote to the window at  *)
(* a time: two of SETWINDOW on a file that is shared, or one and the       *)
(* cropping (main.c:220-233, 325-331).                                     *)
WindowsCropped ==
  \A f \in Files :
    /\ files[f].state = "open" /\ files[f].active /\ ~ files[f].askew
    /\ \A p \in Procs : ~ Resizes(p) /\ ~ Crops(p) /\ ~ Storing(p, f)
    => Cropped(files[f].window)

(* "All kernel structures should be protected against race conditions      *)
(* including framebuffer data": nobody touches memory that is not the      *)
(* frame's.                                                                *)
FramebufferProtected == \A p \in Procs : ~ Faults(p)
=============================================================================
