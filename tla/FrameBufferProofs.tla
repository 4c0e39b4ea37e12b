------------------------- MODULE FrameBufferProofs -------------------------
(* Proofs about the frame buffer driver, for any processes, files, sizes   *)
(* and windows.                                                            *)
EXTENDS FrameBuffer, TLAPS

-----------------------------------------------------------------------------
(* The inductive invariant *)

Ats == {"user", "opens", "x", "y", "width", "height", "asks", "copies", "dead",
        "clears", "sets", "frees", "heightens", "resizes",
        "crops", "looks", "cuts", "tests"}
Kinds == {"nothing", "SETWINDOW", "read", "write", "RESET", "SETOP", "SETSIZE"}
AnyWindow == [x : Nat, y : Nat, width : Nat, height : Nat]
AnySize == [width : Nat \ {0}, height : Nat \ {0}]
Areas == {a \in Rectangle : a.left <= a.right /\ a.top <= a.bottom}
Requests == [type : {"read", "write"}, area : Areas]
Places == [row : Nat, col : Nat, frow : Nat, fcol : Nat, left : Nat \ {0}]
FileRecords ==
  [state : {"closed", "opening", "open"}, active : BOOLEAN,
   window : AnyWindow, due : BOOLEAN, askew : BOOLEAN]
CallRecords ==
  [at : Ats, does : Kinds, file : Files \cup {None},
   arg : AnyWindow \cup AnySize \cup Ops \cup {None},
   request : Requests \cup {None}, place : Places \cup {None},
   cursor : Files \cup {None}, side : {"width", "height"}, value : Nat]

Typed ==
  /\ dev \in [width : Nat \ {0}, height : Nat \ {0}, op : Ops]
  /\ \E s \in Sizes : dev.width = s.width
  /\ \E s \in Sizes : dev.height = s.height
  /\ frame \in Nat
  /\ files \in [Files -> FileRecords]
  /\ call \in [Procs -> CallRecords]
  /\ lock \in [Procs -> Requests \cup {None}]
  /\ overtaken \in [Procs -> BOOLEAN]

(* A file that is in use is open; one that is being opened is in one call. *)
(* So is one that the cropping stands at.                                  *)
UsesFile(c) == c.at \notin {"user", "dead"}
AtFile(c) == c.at \in {"looks", "cuts", "tests"}
InUse(c, fs) ==
  /\ c.file # None <=> UsesFile(c)
  /\ UsesFile(c) => fs[c.file].state = IF c.at = "opens" THEN "opening" ELSE "open"
  /\ c.cursor # None <=> AtFile(c)
  /\ AtFile(c) => fs[c.cursor].state = "open"

FilesInUse ==
  /\ \A f \in Files : files[f].active \/ files[f].due => files[f].state = "open"
  /\ \A p \in Procs : InUse(call[p], files)
  /\ \A p, q \in Procs :
       call[p].at = "opens" /\ call[q].at = "opens" /\ call[p].file = call[q].file => p = q

(* What a call asks for is what it does; every area that is locked for the *)
(* whole frame begins at the origin.                                       *)
FrameKinds == {"RESET", "SETOP", "SETSIZE"}
AtOrigin(r) ==
  /\ r.type = "write"
  /\ r.area.left = 0 /\ r.area.top = 0
  /\ r.area.right \in Nat /\ r.area.bottom \in Nat

SizeAts == {"frees", "heightens", "resizes", "crops", "looks", "cuts", "tests"}
FrameAts == {"clears", "sets"} \cup SizeAts

Arguments(c) ==
  /\ c.at \in {"opens"} \cup Fields => c.arg \in AnyWindow
  /\ (c.at = "asks" /\ c.does = "SETOP") \/ c.at = "sets" => c.arg \in Ops
  /\ (c.at = "asks" /\ c.does = "SETSIZE") \/ c.at \in SizeAts => c.arg \in Sizes
  /\ c.at \in {"asks", "copies"} \cup FrameAts =>
       /\ c.request \in Requests
       /\ c.does = "write" => c.request.type = "write"
       /\ c.does \in FrameKinds => AtOrigin(c.request)
  /\ c.at = "copies" => c.does \in {"read", "write"} /\ c.place \in Places
  /\ c.at \in FrameAts => c.does \in FrameKinds
  /\ c.at \notin {"looks", "cuts"} => c.side = "width"

Holds(c) == c.at \in FrameAts

Stages ==
  \A p \in Procs :
    /\ Arguments(call[p])
    /\ lock[p] # None <=> call[p].at \in {"copies", "dead"} \/ Holds(call[p])
    /\ call[p].at = "copies" \/ Holds(call[p]) => lock[p] = call[p].request

(* Locks that are held do not block each other. *)
Apart ==
  \A p, q \in Procs :
    p # q /\ lock[p] # None /\ lock[q] # None => ~ Blocks(lock[p], lock[q])

(* The frame has its memory unless SETSIZE replaces it; the size is that   *)
(* which SETSIZE was called with.                                          *)
Resizing == \E p \in Procs : Resizes(p)

Memory ==
  /\ ~ Resizing => frame = dev.width * dev.height
  /\ \A p \in Procs : call[p].at \in SizeAts \ {"frees"} => call[p].arg.width = dev.width
  /\ \A p \in Procs :
       call[p].at \in SizeAts \ {"frees", "heightens"} => call[p].arg.height = dev.height

(* Calls that were not overtaken: the lock is on the frame, or on the      *)
(* window, as it is now, a place is within the window, and a call that     *)
(* goes through pixels and one that works on the frame exclude each other. *)
Fresh(p) == ~ overtaken[p]

WithinWindow(pl, w) ==
  /\ pl.col < w.width
  /\ pl.row * w.width + pl.col + pl.left <= w.width * w.height
  /\ pl.frow = w.y + pl.row
  /\ pl.fcol = w.x + pl.col

Near(w, d) == w.x <= d.width /\ w.y <= d.height

FreshFrame ==
  \A p \in Procs :
    call[p].at \in {"clears", "sets", "frees"} /\ Fresh(p) => lock[p].area = Edges(WholeFrame)

FreshWindow ==
  \A p \in Procs :
    call[p].at = "copies" /\ Fresh(p) =>
      LET w == files[call[p].file].window
      IN  /\ lock[p].area = Edges(w)
          /\ WithinWindow(call[p].place, w)
          /\ ~ Resizing => Near(w, dev)

FreshApart ==
  \A p, q \in Procs :
    ~ (OnFrame(p) /\ Fresh(p) /\ call[q].at = "copies" /\ Fresh(q))

(* Windows.  A call that sets one and was not overtaken goes by the size   *)
(* of the frame; what it has stored stays until it has stored all, unless  *)
(* somebody else writes to the window.                                     *)
Sets(c) == c.at \in {"opens"} \cup Fields

Fitting == \A p \in Procs : Sets(call[p]) /\ Fresh(p) => Fits(call[p].arg)

Begun(at, w, arg) ==
  /\ w.x = arg.x
  /\ at \in {"width", "height"} => w.y = arg.y
  /\ at = "height" => w.width = arg.width

Stored ==
  \A p \in Procs, f \in Files :
    Storing(p, f) /\ Fresh(p) /\ ~ files[f].askew =>
      Begun(call[p].at, files[f].window, call[p].arg)

Mixed ==
  \A p, q \in Procs, f \in Files :
    p # q /\ Storing(p, f) /\ Writing(q, f) => files[f].askew

(* What the cropping has looked at and nobody has written to since. *)
Ends(from, length, end) == from < end => from + length <= end

Room(c, w) ==
  IF c.side = "width" THEN c.arg.width - w.x ELSE c.arg.height - w.y

Seen(c, w) ==
  /\ c.side = "height" \/ c.at = "tests" => Ends(w.x, w.width, c.arg.width)
  /\ c.at = "tests" => Ends(w.y, w.height, c.arg.height)
  /\ c.at = "cuts" => c.value = Room(c, w)

Looked ==
  \A p \in Procs :
    AtFile(call[p]) /\ ~ files[call[p].cursor].askew => Seen(call[p], AtCursor(p))

(* The windows that nobody is or will be at. *)
AtRest(f) ==
  /\ files[f].state = "open" /\ files[f].active /\ ~ files[f].askew /\ ~ files[f].due
  /\ \A p \in Procs : ~ Writing(p, f)

RestCropped == ~ Resizing => \A f \in Files : AtRest(f) => Cropped(files[f].window)

DueLater == \A f \in Files : files[f].due => \E p \in Procs : Crops(p)

WindowsInv == Fitting /\ Stored /\ Mixed /\ Looked /\ RestCropped /\ DueLater

FrameInv ==
  /\ Typed
  /\ FilesInUse
  /\ Stages
  /\ Apart
  /\ Memory
  /\ FreshFrame
  /\ FreshWindow
  /\ FreshApart
  /\ WindowsInv

-----------------------------------------------------------------------------
(* Areas *)

(* Two areas with a common point meet. *)
LEMMA PointInBoth ==
  ASSUME NEW a \in Rectangle, NEW b \in Rectangle, NEW x \in Int, NEW y \in Int,
         a.left <= x, x <= a.right, a.top <= y, y <= a.bottom,
         b.left <= x, x <= b.right, b.top <= y, y <= b.bottom
  PROVE  Intersects(a, b)
BY DEF Intersects, Meets, Rectangle

(* Any two locks on the whole frame block each other, also when the frame  *)
(* had another size when one of them was computed.                         *)
LEMMA OriginsBlock ==
  ASSUME NEW r \in Requests, NEW s \in Requests, AtOrigin(r), AtOrigin(s)
  PROVE  Blocks(r, s)
<1>1. Intersects(r.area, s.area)
  BY PointInBoth, 0 \in Int DEF AtOrigin, Requests, Areas
<1>2. QED
  BY <1>1 DEF Blocks, AtOrigin

LEMMA EdgesType ==
  ASSUME NEW w \in AnyWindow
  PROVE  /\ Edges(w) \in Rectangle /\ Edges(w) \in Areas
         /\ Edges(w).left = w.x /\ Edges(w).right = w.x + w.width
         /\ Edges(w).top = w.y /\ Edges(w).bottom = w.y + w.height
BY DEF AnyWindow, Edges, Rectangle, Areas

LEMMA WholeFrameType ==
  ASSUME Typed
  PROVE  /\ WholeFrame \in AnyWindow
         /\ WholeFrame.x = 0 /\ WholeFrame.y = 0
         /\ WholeFrame.width = dev.width /\ WholeFrame.height = dev.height
BY DEF Typed, WholeFrame, Window, AnyWindow

LEMMA WindowMeetsFrame ==
  ASSUME Typed, NEW w \in AnyWindow, Near(w, dev)
  PROVE  /\ Intersects(Edges(w), Edges(WholeFrame))
         /\ Intersects(Edges(WholeFrame), Edges(w))
<1>1. w.x \in Nat /\ w.y \in Nat /\ w.width \in Nat /\ w.height \in Nat
  BY DEF AnyWindow
<1>2. w.x <= dev.width /\ w.y <= dev.height /\ dev.width \in Nat /\ dev.height \in Nat
  BY <1>1 DEF Near, Typed
<1>3. QED
  BY <1>1, <1>2, EdgesType, WholeFrameType, PointInBoth

(* Where the calls are in their windows. *)

LEMMA RowWithin ==
  ASSUME NEW pl \in Places, NEW w \in AnyWindow, WithinWindow(pl, w)
  PROVE  pl.row < w.height
<1>1. /\ pl.row \in Nat /\ pl.col \in Nat /\ pl.left \in Nat \ {0}
      /\ w.width \in Nat /\ w.height \in Nat
  BY DEF Places, AnyWindow
<1>2. pl.row * w.width + pl.col + pl.left <= w.width * w.height
  BY DEF WithinWindow
<1>3. \A r, wd, h \in Nat : h <= r => wd * h <= r * wd
  OBVIOUS
<1>4. pl.row * w.width \in Nat /\ w.width * w.height \in Nat
  BY <1>1
<1>5. QED
  BY <1>1, <1>2, <1>3, <1>4

LEMMA PlaceInEdges ==
  ASSUME NEW pl \in Places, NEW w \in AnyWindow, WithinWindow(pl, w)
  PROVE  /\ Edges(w).left <= pl.fcol /\ pl.fcol <= Edges(w).right
         /\ Edges(w).top <= pl.frow /\ pl.frow <= Edges(w).bottom
<1>1. pl.row < w.height
  BY RowWithin
<1>2. QED
  BY <1>1, EdgesType DEF WithinWindow, Places, AnyWindow

LEMMA AdvanceWithin ==
  ASSUME NEW pl \in Places, NEW w \in AnyWindow, pl.left > 1
  PROVE  /\ Advance(pl, w) \in Places
         /\ WithinWindow(pl, w) => WithinWindow(Advance(pl, w), w)
<1>1. Advance(pl, w) \in Places
  BY DEF Advance, Place, Places, AnyWindow
<1>2. ASSUME WithinWindow(pl, w) PROVE WithinWindow(Advance(pl, w), w)
  <2>1. /\ pl.row \in Nat /\ pl.col \in Nat /\ pl.left \in Nat \ {0}
        /\ w.width \in Nat /\ w.height \in Nat /\ w.x \in Nat /\ w.y \in Nat
    BY DEF Places, AnyWindow
  <2>2. (pl.row + 1) * w.width = pl.row * w.width + w.width
    BY <2>1
  <2>3. CASE pl.col + 1 = w.width
    <3> DEFINE next == Place(w, pl.row + 1, 0, pl.left - 1)
    <3>1. Advance(pl, w) = next
      BY <2>3 DEF Advance
    <3>2. /\ next.row = pl.row + 1 /\ next.col = 0 /\ next.left = pl.left - 1
          /\ next.frow = w.y + (pl.row + 1) /\ next.fcol = w.x + 0
      BY DEF Place
    <3>3. pl.row * w.width \in Nat /\ w.width * w.height \in Nat
      BY <2>1
    <3>4. (pl.row + 1) * w.width + 0 + (pl.left - 1) <= w.width * w.height
      BY <1>2, <2>1, <2>2, <2>3, <3>3 DEF WithinWindow
    <3> HIDE DEF next
    <3>5. QED
      BY <1>2, <2>1, <2>3, <3>1, <3>2, <3>4 DEF WithinWindow
  <2>4. CASE pl.col + 1 # w.width
    <3>1. pl.row * w.width \in Nat /\ w.width * w.height \in Nat
      BY <2>1
    <3>2. QED
      BY <1>2, <2>1, <2>4, <3>1 DEF WithinWindow, Advance, Place
  <2>5. QED
    BY <2>3, <2>4
<1>3. QED
  BY <1>1, <1>2

LEMMA FirstPlaceWithin ==
  ASSUME NEW w \in AnyWindow, w.width # 0, NEW offset \in Nat, NEW left \in Nat \ {0},
         offset + left <= w.width * w.height
  PROVE  LET pl == Place(w, offset \div w.width, offset % w.width, left)
         IN  pl \in Places /\ WithinWindow(pl, w)
<1>1. w.width \in Nat \ {0} /\ w.height \in Nat /\ w.x \in Nat /\ w.y \in Nat
  BY DEF AnyWindow
<1> DEFINE row == offset \div w.width
           col == offset % w.width
<1>2. \A n \in Nat, d \in Nat \ {0} : n \div d \in Nat /\ n % d \in 0 .. d - 1
  OBVIOUS
<1>3. row \in Nat /\ col \in 0 .. w.width - 1 /\ offset = row * w.width + col
  <2>1. \A n \in Nat, d \in Nat \ {0} : n % d = n - (n \div d) * d
    OBVIOUS
  <2>2. row \in Nat /\ col \in 0 .. w.width - 1 /\ col = offset - row * w.width
    BY <1>1, <1>2, <2>1
  <2> HIDE DEF row, col
  <2>3. row * w.width \in Nat
    BY <1>1, <2>2
  <2>4. QED
    BY <2>2, <2>3
<1> HIDE DEF row, col
<1>4. Place(w, row, col, left) \in Places
  BY <1>1, <1>3 DEF Place, Places
<1>5. row * w.width \in Nat /\ w.width * w.height \in Nat
  BY <1>1, <1>3
<1>6. WithinWindow(Place(w, row, col, left), w)
  BY <1>1, <1>3, <1>5 DEF WithinWindow, Place
<1>7. QED
  BY <1>4, <1>6 DEF row, col

(* A place in the frame is in its memory. *)
LEMMA PixelInMemory ==
  ASSUME Typed, NEW pl \in Places, InFrame(pl)
  PROVE  pl.frow * dev.width + pl.fcol < dev.width * dev.height
<1>1. /\ pl.frow \in Nat /\ pl.fcol \in Nat
      /\ dev.width \in Nat \ {0} /\ dev.height \in Nat \ {0}
  BY DEF Places, Typed
<1>2. pl.frow + 1 <= dev.height /\ pl.fcol < dev.width
  BY <1>1 DEF InFrame
<1>3. \A r, wd, h \in Nat : r + 1 <= h => r * wd + wd <= wd * h
  OBVIOUS
<1>4. pl.frow * dev.width \in Nat /\ dev.width * dev.height \in Nat
  BY <1>1
<1>5. QED
  BY <1>1, <1>2, <1>3, <1>4

-----------------------------------------------------------------------------
(* Types *)

LEMMA UserType == User \in CallRecords
BY DEF User, CallRecords, Ats, Kinds, Fields

LEMMA UserInUse ==
  ASSUME NEW fs
  PROVE  InUse(User, fs) /\ Arguments(User) /\ User.at = "user" /\ User.cursor = None
BY DEF InUse, UsesFile, AtFile, User, Arguments, Fields, FrameAts, SizeAts

LEMMA RequestIsLock == None \notin Requests
BY FrameBufferAssumption DEF FrameBufferAssumption, Requests, Areas

LEMMA EnterEffect ==
  ASSUME Typed, NEW p \in Procs, NEW c \in CallRecords, Enter(p, c)
  PROVE  /\ call' \in [Procs -> CallRecords]
         /\ call'[p] = c
         /\ \A q \in Procs \ {p} : call'[q] = call[q]
BY DEF Typed, Enter

LEMMA LeaveEffect ==
  ASSUME Typed, NEW p \in Procs, Leave(p)
  PROVE  /\ call' \in [Procs -> CallRecords]
         /\ lock' \in [Procs -> Requests \cup {None}]
         /\ overtaken' \in [Procs -> BOOLEAN]
         /\ call'[p] = User /\ lock'[p] = None
         /\ \A q \in Procs \ {p} :
              call'[q] = call[q] /\ lock'[q] = lock[q] /\ overtaken'[q] = overtaken[q]
<1>1. Enter(p, User)
  BY DEF Leave
<1>2. QED
  BY <1>1, EnterEffect, UserType DEF Leave, Typed

LEMMA ObtainEffect ==
  ASSUME Typed, Stages, NEW p \in Procs, Obtain(p)
  PROVE  /\ lock' \in [Procs -> Requests \cup {None}]
         /\ overtaken' \in [Procs -> BOOLEAN]
         /\ lock'[p] = call[p].request /\ call[p].request \in Requests
         /\ \A q \in Procs \ {p} : lock'[q] = lock[q] /\ overtaken'[q] = overtaken[q]
<1>1. call[p].request \in Requests
  BY DEF Obtain, Stages, Arguments
<1>2. lock' \in [Procs -> Requests \cup {None}] /\ lock'[p] = call[p].request
  BY <1>1 DEF Obtain, Typed
<1>3. overtaken' \in [Procs -> BOOLEAN]
  BY DEF Obtain, Typed
<1>4. QED
  BY <1>1, <1>2, <1>3 DEF Obtain, Typed

-----------------------------------------------------------------------------
(* What most steps keep *)

(* The call of p changes, and no file is opened or closed. *)
LEMMA UseStep ==
  ASSUME Typed, FilesInUse, NEW p \in Procs, NEW c \in CallRecords,
         call'[p] = c, \A q \in Procs \ {p} : call'[q] = call[q],
         InUse(c, files), c.at # "opens",
         \A f \in Files : files'[f].state = files[f].state,
         \A f \in Files : files'[f].active \/ files'[f].due => files'[f].state = "open"
  PROVE  FilesInUse'
<1>1. \A d \in CallRecords : InUse(d, files) => InUse(d, files')
  BY DEF InUse, CallRecords
<1>2. \A q \in Procs : InUse(call'[q], files')
  BY <1>1 DEF FilesInUse, Typed
<1>3. \A q, r \in Procs :
        call'[q].at = "opens" /\ call'[r].at = "opens" /\ call'[q].file = call'[r].file => q = r
  BY DEF FilesInUse
<1>4. QED
  BY <1>2, <1>3 DEF FilesInUse

(* A call that writes to no window now. *)
Quiet(c) == c.cursor = None /\ c.at \notin {"y", "width", "height"}

QuietCall(q) ==
  \/ call'[q] = call[q] /\ (overtaken[q] => overtaken'[q])
  \/ /\ Quiet(call[q]) /\ Quiet(call'[q])
     /\ Sets(call'[q]) /\ ~ overtaken'[q] => Fits(call'[q].arg)

QuietFile(f) ==
  \/ files'[f] = files[f]
  \/ /\ ~ files'[f].due
     /\ \A q \in Procs : ~ Writing(q, f)
     /\ files'[f].state = "open" /\ ~ files'[f].askew => Cropped(files'[f].window)

LEMMA QuietWindows ==
  ASSUME Typed, WindowsInv, FilesInUse', dev'.width = dev.width, dev'.height = dev.height,
         Resizing' <=> Resizing,
         \A q \in Procs : QuietCall(q),
         \A f \in Files : QuietFile(f),
         (\A q \in Procs : Crops(q) => Crops(q)') \/ (\A f \in Files : ~ files'[f].due)
  PROVE  WindowsInv'
<1>1. \A q \in Procs, f \in Files :
        /\ Storing(q, f)' => call'[q] = call[q] /\ Storing(q, f) /\ (Fresh(q)' => Fresh(q))
        /\ Writing(q, f)' => call'[q] = call[q] /\ Writing(q, f)
        /\ Writing(q, f) => Writing(q, f)'
  BY FrameBufferAssumption
     DEF QuietCall, Quiet, Storing, Writing, Fresh, FrameBufferAssumption
<1>2. \A q \in Procs, f \in Files : Writing(q, f) => files'[f] = files[f]
  BY DEF QuietFile
<1>3. \A w : (Fits(w)' <=> Fits(w)) /\ (Cropped(w)' <=> Cropped(w))
  BY DEF Fits, Cropped, Astray
<1>4. Fitting'
  BY <1>3 DEF WindowsInv, Fitting, QuietCall, Fresh
<1>5. Stored'
  BY <1>1, <1>2 DEF WindowsInv, Stored, Writing
<1>6. Mixed'
  BY <1>1, <1>2 DEF WindowsInv, Mixed
<1>7. Looked'
  <2> SUFFICES ASSUME NEW q \in Procs, AtFile(call'[q]), ~ files'[call'[q].cursor].askew
               PROVE  Seen(call'[q], AtCursor(q)')
    BY DEF Looked
  <2>1. call'[q].cursor # None
    BY DEF FilesInUse, InUse
  <2>2. call'[q] = call[q]
    BY <2>1 DEF QuietCall, Quiet
  <2>3. call[q].cursor \in Files
    BY <2>1, <2>2 DEF Typed, CallRecords
  <2>4. files'[call[q].cursor] = files[call[q].cursor]
    BY <1>2, <2>3 DEF Writing
  <2>5. QED
    BY <2>2, <2>4 DEF WindowsInv, Looked, AtCursor
<1>8. RestCropped'
  <2> SUFFICES ASSUME ~ Resizing', NEW f \in Files, AtRest(f)' PROVE Cropped(files[f].window)'
    BY DEF RestCropped
  <2>1. CASE files'[f] = files[f]
    BY <1>1, <1>3, <2>1 DEF WindowsInv, RestCropped, AtRest
  <2>2. CASE files'[f] # files[f]
    BY <1>3, <2>2 DEF AtRest, QuietFile
  <2>3. QED
    BY <2>1, <2>2
<1>9. DueLater'
  <2> SUFFICES ASSUME NEW f \in Files, files'[f].due PROVE \E q \in Procs : Crops(q)'
    BY DEF DueLater
  <2>1. files[f].due
    BY DEF QuietFile
  <2>2. QED
    BY <2>1 DEF WindowsInv, DueLater
<1>10. QED
  BY <1>4, <1>5, <1>6, <1>7, <1>8, <1>9 DEF WindowsInv

-----------------------------------------------------------------------------
(* Steps of calls that work neither on pixels nor on the frame *)

Idle == {"user", "opens", "asks"} \cup Fields
Cropping == {"crops", "looks", "cuts", "tests"}

Aside(c, d) ==
  \/ c.at \in Idle /\ d.at \in Idle
  \/ /\ c.at \in Cropping /\ d.at \in Cropping
     /\ d.arg = c.arg /\ d.request = c.request

(* Such a step leaves the locks and the memory alone, and a window that    *)
(* somebody reads through only if that call counts as overtaken.           *)
LEMMA IdleStep ==
  ASSUME FrameInv, Typed', FilesInUse', WindowsInv',
         UNCHANGED <<dev, frame, lock>>,
         \A q \in Procs :
           call'[q] = call[q] \/ (Aside(call[q], call'[q]) /\ Arguments(call'[q])),
         \A q \in Procs : overtaken[q] /\ call[q].at \notin Idle => overtaken'[q],
         \A q \in Procs :
           call[q].at = "copies" /\ ~ overtaken'[q] =>
             files'[call[q].file].window = files[call[q].file].window
  PROVE  FrameInv'
<1>1. \A q \in Procs :
        \/ call'[q] = call[q]
        \/ /\ call[q].at \notin {"copies", "dead", "clears", "sets", "frees", "heightens", "resizes"}
           /\ call'[q].at \notin {"copies", "dead", "clears", "sets", "frees", "heightens", "resizes"}
           /\ Arguments(call'[q])
  BY DEF Aside, Idle, Cropping, Fields
<1>2. Resizing' <=> Resizing
  BY <1>1 DEF Resizing, Resizes
<1>3. \A q \in Procs :
        /\ call'[q].at \in FrameAts <=> call[q].at \in FrameAts
        /\ call'[q].at \in FrameAts =>
             /\ call'[q].arg = call[q].arg /\ call'[q].request = call[q].request
             /\ call'[q].at = call[q].at
                \/ (call'[q].at \in Cropping /\ call[q].at \in Cropping)
  BY DEF Aside, Idle, Cropping, Fields, FrameAts, SizeAts
<1>4. Stages'
  <2>1. \A q \in Procs : Arguments(call'[q])
    BY DEF FrameInv, Stages
  <2>2. \A q \in Procs : call'[q].at \in {"copies", "dead"} => call'[q] = call[q]
    BY <1>1
  <2>3. \A q \in Procs : call[q].at \in {"copies", "dead"} => call'[q] = call[q]
    BY <1>1
  <2>4. QED
    BY <1>3, <2>1, <2>2, <2>3 DEF FrameInv, Stages, Holds
<1>5. Apart'
  BY DEF FrameInv, Apart
<1>6. Memory'
  BY <1>2, <1>3 DEF FrameInv, Memory, SizeAts, FrameAts, Cropping
<1>7. \A q \in Procs : call[q].at \notin Idle /\ Fresh(q)' => Fresh(q)
  BY DEF Fresh
<1>8. FreshFrame'
  BY <1>1, <1>7 DEF FrameInv, FreshFrame, WholeFrame, Idle, Fields
<1>9. FreshApart'
  BY <1>1, <1>7 DEF FrameInv, FreshApart, OnFrame, Idle, Fields
<1>10. FreshWindow'
  BY <1>1, <1>2, <1>7 DEF FrameInv, FreshWindow, Fresh, Idle, Fields
<1>11. QED
  BY <1>4, <1>5, <1>6, <1>8, <1>9, <1>10 DEF FrameInv

LEMMA CroppedFits ==
  ASSUME Typed, NEW w \in AnyWindow, Fits(w)
  PROVE  Cropped(w)
BY DEF Typed, AnyWindow, Fits, Cropped, Astray

LEMMA OpenKeeps ==
  ASSUME FrameInv, NEW p \in Procs, NEW f \in Files, Open(p, f)
  PROVE  FrameInv'
<1> DEFINE c == [User EXCEPT !.at = "opens", !.file = f, !.arg = WholeFrame]
<1>1. Typed /\ FilesInUse /\ WindowsInv
  BY DEF FrameInv
<1>2. /\ c \in CallRecords /\ c.at = "opens" /\ c.file = f /\ c.arg = WholeFrame
      /\ c.arg \in AnyWindow /\ c.cursor = None /\ c.side = "width"
  BY <1>1, WholeFrameType DEF User, CallRecords, Ats, Kinds
<1>3. /\ call' \in [Procs -> CallRecords] /\ call'[p] = c
      /\ \A q \in Procs \ {p} : call'[q] = call[q]
  BY <1>1, <1>2, EnterEffect DEF Open
<1> HIDE DEF c
<1>4. /\ files' \in [Files -> FileRecords]
      /\ files'[f] = [files[f] EXCEPT !.state = "opening"] /\ files'[f].state = "opening"
      /\ files'[f].due = files[f].due /\ files'[f].active = files[f].active
      /\ \A g \in Files \ {f} : files'[g] = files[g]
      /\ files[f].state = "closed"
  BY <1>1 DEF Open, Typed, FileRecords
<1>5. Typed'
  BY <1>1, <1>3, <1>4 DEF Open, Typed
<1>6. call[p].at = "user" /\ call'[p].at = "opens"
  BY <1>2, <1>3 DEF Open, Ready
<1>7. \A q \in Procs :
        /\ UsesFile(call[q]) => call[q].file \in Files \ {f}
        /\ AtFile(call[q]) => call[q].cursor \in Files \ {f}
  BY <1>1, <1>4 DEF FilesInUse, InUse, Typed, CallRecords
<1>8. FilesInUse'
  <2>1. \A g \in Files : files'[g].active \/ files'[g].due => files'[g].state = "open"
    BY <1>1, <1>4 DEF FilesInUse
  <2>2. \A q \in Procs \ {p} : InUse(call'[q], files')
    BY <1>1, <1>3, <1>4, <1>7 DEF InUse, FilesInUse
  <2>3. InUse(call'[p], files')
    BY <1>2, <1>3, <1>4, FrameBufferAssumption
       DEF InUse, UsesFile, AtFile, FrameBufferAssumption
  <2>4. \A q \in Procs \ {p} : call'[q].at = "opens" => call'[q].file # f
    BY <1>3, <1>7 DEF UsesFile
  <2>5. \A q, r \in Procs :
          call'[q].at = "opens" /\ call'[r].at = "opens" /\ call'[q].file = call'[r].file => q = r
    BY <1>1, <1>2, <1>3, <2>4 DEF FilesInUse
  <2>6. QED
    BY <2>1, <2>2, <2>3, <2>5 DEF FilesInUse
<1>9. WindowsInv'
  <2>1. Fits(WholeFrame)
    BY <1>1, WholeFrameType DEF Fits, Typed
  <2>2. call[p].cursor = None
    BY <1>1, <1>6 DEF FilesInUse, InUse, AtFile
  <2>3. QuietCall(p)
    BY <1>2, <1>3, <1>6, <2>1, <2>2 DEF QuietCall, Quiet
  <2>4. \A q \in Procs : QuietCall(q)
    BY <1>3, <2>3 DEF QuietCall, Open
  <2>5. QuietFile(f)
    <3>1. \A q \in Procs : ~ Writing(q, f)
      BY <1>1, <1>7, FrameBufferAssumption
         DEF Writing, Storing, UsesFile, FilesInUse, InUse, FrameBufferAssumption
    <3>2. ~ files'[f].due
      BY <1>1, <1>4 DEF FilesInUse
    <3>3. QED
      BY <1>4, <3>1, <3>2 DEF QuietFile
  <2>6. \A g \in Files : QuietFile(g)
    BY <1>4, <2>5 DEF QuietFile
  <2>7. \A q \in Procs : (Resizes(q)' <=> Resizes(q)) /\ (Crops(q) => Crops(q)')
    BY <1>3, <1>6 DEF Resizes, Crops
  <2>8. Resizing' <=> Resizing
    BY <2>7 DEF Resizing
  <2>9. QED
    BY <1>1, <1>8, <2>4, <2>6, <2>7, <2>8, QuietWindows DEF Open
<1>10. Arguments(call'[p])
  BY <1>2, <1>3 DEF Arguments, FrameAts, SizeAts
<1>11. \A q \in Procs : call[q].at = "copies" =>
         files'[call[q].file].window = files[call[q].file].window
  BY <1>4, <1>7 DEF UsesFile
<1>12. QED
  BY <1>3, <1>5, <1>6, <1>8, <1>9, <1>10, <1>11, IdleStep DEF Open, Idle, Aside

(* The call of p changes and nothing else. *)
LEMMA CallStep ==
  ASSUME FrameInv, NEW p \in Procs, NEW c \in CallRecords,
         Enter(p, c), UNCHANGED <<dev, frame, files, lock, overtaken>>,
         call[p].at \in {"user", "asks"}, c.at \in {"user", "asks", "x"}, c.cursor = None,
         c.at = "x" => Fits(c.arg), Arguments(c), InUse(c, files)
  PROVE  FrameInv'
<1>1. Typed /\ FilesInUse /\ WindowsInv
  BY DEF FrameInv
<1>2. /\ call' \in [Procs -> CallRecords] /\ call'[p] = c
      /\ \A q \in Procs \ {p} : call'[q] = call[q]
  BY <1>1, EnterEffect
<1>3. Typed'
  BY <1>1, <1>2 DEF Typed
<1>4. FilesInUse'
  BY <1>1, <1>2, UseStep DEF FilesInUse
<1>5. WindowsInv'
  <2>1. call[p].cursor = None
    BY <1>1 DEF FilesInUse, InUse, AtFile
  <2>2. QuietCall(p)
    BY <1>2, <2>1 DEF QuietCall, Quiet, Sets, Fields
  <2>3. \A q \in Procs : QuietCall(q)
    BY <1>2, <2>2 DEF QuietCall
  <2>4. \A g \in Files : QuietFile(g)
    BY DEF QuietFile
  <2>5. \A q \in Procs : (Resizes(q)' <=> Resizes(q)) /\ (Crops(q) => Crops(q)')
    BY <1>2 DEF Resizes, Crops
  <2>6. Resizing' <=> Resizing
    BY <2>5 DEF Resizing
  <2>7. QED
    BY <1>1, <1>4, <2>3, <2>4, <2>5, <2>6, QuietWindows
<1>6. QED
  BY <1>2, <1>3, <1>4, <1>5, IdleStep DEF Aside, Idle, Fields

LEMMA InterruptedKeeps ==
  ASSUME FrameInv, NEW p \in Procs, Interrupted(p)
  PROVE  FrameInv'
BY CallStep, UserType, UserInUse DEF Interrupted

LEMMA SETWINDOWKeeps ==
  ASSUME FrameInv, NEW p \in Procs, NEW f \in Files, NEW w \in Windows, SETWINDOW(p, f, w)
  PROVE  FrameInv'
<1> DEFINE c == [User EXCEPT !.at = "x", !.does = "SETWINDOW", !.file = f, !.arg = w]
<1>1. w \in AnyWindow /\ f # None
  BY FrameBufferAssumption DEF FrameBufferAssumption, AnyWindow
<1>2. /\ c \in CallRecords /\ c.at = "x" /\ c.file = f /\ c.arg = w
      /\ c.cursor = None /\ c.side = "width"
  BY <1>1 DEF User, CallRecords, Ats, Kinds
<1>3. Enter(p, c) /\ files[f].state = "open" /\ call[p].at = "user"
  BY DEF SETWINDOW, Usable, Ready
<1> HIDE DEF c
<1>4. Arguments(c) /\ InUse(c, files)
  BY <1>1, <1>2, <1>3 DEF Arguments, InUse, UsesFile, AtFile, FrameAts, SizeAts
<1>5. QED
  BY <1>2, <1>3, <1>4, CallStep DEF SETWINDOW

LEMMA AskKeeps ==
  ASSUME FrameInv, NEW p \in Procs, NEW f \in Files,
         NEW does \in {"read", "write"} \cup FrameKinds,
         NEW arg \in AnySize \cup Ops \cup {None},
         does = "SETOP" => arg \in Ops,
         does = "SETSIZE" => arg \in Sizes,
         Ask(p, f, does, arg)
  PROVE  FrameInv'
<1> DEFINE r == [type |-> Type(does), area |-> Area(does, f)]
           c == [User EXCEPT !.at = "asks", !.does = does, !.file = f, !.arg = arg,
                             !.request = r]
<1>1. f # None /\ Typed /\ files[f].window \in AnyWindow
  BY FrameBufferAssumption DEF FrameBufferAssumption, FrameInv, Typed, FileRecords
<1>2. Area(does, f) \in Areas
  BY <1>1, EdgesType, WholeFrameType DEF Area
<1>3. r \in Requests /\ (does = "write" => r.type = "write")
  BY <1>2 DEF Requests, Type
<1>4. ASSUME does \in FrameKinds PROVE AtOrigin(r)
  <2>1. Area(does, f) = Edges(WholeFrame) /\ Type(does) = "write"
    BY <1>4 DEF Area, Type, FrameKinds
  <2>2. /\ Edges(WholeFrame).left = 0 /\ Edges(WholeFrame).top = 0
        /\ Edges(WholeFrame).right = dev.width /\ Edges(WholeFrame).bottom = dev.height
    BY <1>1, WholeFrameType DEF Edges, Typed
  <2>3. QED
    BY <1>1, <2>1, <2>2 DEF AtOrigin, Typed
<1> HIDE DEF r
<1>5. /\ c \in CallRecords
      /\ c.at = "asks" /\ c.file = f /\ c.arg = arg /\ c.request = r /\ c.does = does
      /\ c.cursor = None /\ c.side = "width"
  BY <1>1, <1>3 DEF User, CallRecords, Ats, Kinds, FrameKinds
<1>6. Enter(p, c) /\ files[f].state = "open" /\ call[p].at = "user"
  BY DEF Ask, Usable, Ready, r
<1> HIDE DEF c
<1>7. Arguments(c)
  BY <1>3, <1>4, <1>5 DEF Arguments, FrameAts, SizeAts, Fields
<1>8. InUse(c, files)
  BY <1>1, <1>5, <1>6 DEF InUse, UsesFile, AtFile
<1>9. QED
  BY <1>5, <1>6, <1>7, <1>8, CallStep DEF Ask

LEMMA ListAddKeeps ==
  ASSUME FrameInv, NEW p \in Procs, ListAdd(p)
  PROVE  FrameInv'
<1> DEFINE f == call[p].file
           w == call[p].arg
<1>1. Typed /\ FilesInUse /\ Stages /\ WindowsInv
  BY DEF FrameInv
<1>2. /\ call[p].at = "opens" /\ call[p].cursor = None
      /\ f \in Files /\ files[f].state = "opening" /\ w \in AnyWindow
  BY <1>1, FrameBufferAssumption
     DEF ListAdd, FilesInUse, InUse, UsesFile, AtFile, Stages, Arguments, Typed, CallRecords
<1>3. /\ call' \in [Procs -> CallRecords] /\ call'[p] = User
      /\ \A q \in Procs \ {p} : call'[q] = call[q]
  BY <1>1, EnterEffect, UserType DEF ListAdd
<1>4. /\ files' \in [Files -> FileRecords]
      /\ files'[f].state = "open" /\ files'[f].window = w
      /\ files'[f].due = FALSE /\ files'[f].askew = overtaken[p]
      /\ \A g \in Files \ {f} : files'[g] = files[g]
  BY <1>1, <1>2 DEF ListAdd, Typed, FileRecords
<1>5. /\ overtaken' \in [Procs -> BOOLEAN]
      /\ \A q \in Procs \ {p} : overtaken'[q] = overtaken[q]
  BY <1>1 DEF ListAdd, Typed
<1>6. Typed'
  BY <1>1, <1>3, <1>4, <1>5 DEF ListAdd, Typed
<1>7. \A q \in Procs \ {p} :
        /\ UsesFile(call[q]) => call[q].file \in Files \ {f}
        /\ AtFile(call[q]) => call[q].cursor \in Files \ {f}
  <2> SUFFICES ASSUME NEW q \in Procs \ {p}
               PROVE  /\ UsesFile(call[q]) => call[q].file \in Files \ {f}
                      /\ AtFile(call[q]) => call[q].cursor \in Files \ {f}
    OBVIOUS
  <2>1. /\ UsesFile(call[q]) => call[q].file \in Files
        /\ AtFile(call[q]) => call[q].cursor \in Files \ {f}
    BY <1>1, <1>2 DEF FilesInUse, InUse, Typed, CallRecords
  <2>2. ASSUME UsesFile(call[q]), call[q].file = f PROVE FALSE
    BY <1>1, <1>2, <2>2 DEF FilesInUse, InUse
  <2>3. QED
    BY <2>1, <2>2
<1>8. FilesInUse'
  <2>1. \A g \in Files : files'[g].active \/ files'[g].due => files'[g].state = "open"
    BY <1>1, <1>2, <1>4 DEF FilesInUse
  <2>2. \A q \in Procs : InUse(call'[q], files')
    BY <1>1, <1>3, <1>4, <1>7, UserInUse DEF InUse, FilesInUse
  <2>3. \A q, r \in Procs :
          call'[q].at = "opens" /\ call'[r].at = "opens" /\ call'[q].file = call'[r].file => q = r
    BY <1>1, <1>3, UserInUse DEF FilesInUse
  <2>4. QED
    BY <2>1, <2>2, <2>3 DEF FilesInUse
<1>9. WindowsInv'
  <2>1. QuietCall(p)
    BY <1>2, <1>3, UserInUse DEF QuietCall, Quiet, Sets, Fields
  <2>2. \A q \in Procs : QuietCall(q)
    BY <1>3, <1>5, <2>1 DEF QuietCall
  <2>3. QuietFile(f)
    <3>1. \A q \in Procs : ~ Writing(q, f)
      BY <1>1, <1>2, <1>7, FrameBufferAssumption
         DEF Writing, Storing, UsesFile, FilesInUse, InUse, FrameBufferAssumption
    <3>2. ~ overtaken[p] => Cropped(w)
      BY <1>1, <1>2, CroppedFits DEF WindowsInv, Fitting, Fresh, Sets
    <3>3. QED
      BY <1>4, <3>1, <3>2 DEF QuietFile
  <2>4. \A g \in Files : QuietFile(g)
    BY <1>4, <2>3 DEF QuietFile
  <2>5. \A q \in Procs : (Resizes(q)' <=> Resizes(q)) /\ (Crops(q) => Crops(q)')
    BY <1>2, <1>3, UserInUse DEF Resizes, Crops
  <2>6. Resizing' <=> Resizing
    BY <2>5 DEF Resizing
  <2>7. QED
    BY <1>1, <1>8, <2>2, <2>4, <2>5, <2>6, QuietWindows DEF ListAdd
<1>10. \A q \in Procs : call[q].at = "copies" =>
         files'[call[q].file].window = files[call[q].file].window
  BY <1>2, <1>4, <1>7 DEF UsesFile
<1>11. QED
  BY <1>2, <1>3, <1>5, <1>6, <1>8, <1>9, <1>10, UserInUse, IdleStep DEF ListAdd, Idle, Aside

LEMMA ReleaseKeeps ==
  ASSUME FrameInv, NEW f \in Files, Release(f)
  PROVE  FrameInv'
<1>1. Typed /\ FilesInUse /\ WindowsInv
  BY DEF FrameInv
<1>2. Closed \in FileRecords /\ Closed.state = "closed" /\ ~ Closed.active /\ ~ Closed.due
  BY DEF Closed, FileRecords, Window, AnyWindow
<1>3. /\ files' \in [Files -> FileRecords] /\ files'[f] = Closed
      /\ \A g \in Files \ {f} : files'[g] = files[g]
  BY <1>1, <1>2 DEF Release, Typed
<1>4. Typed'
  BY <1>1, <1>3 DEF Release, Typed
<1>5. \A q \in Procs :
        /\ UsesFile(call[q]) => call[q].file \in Files \ {f}
        /\ AtFile(call[q]) => call[q].cursor \in Files \ {f}
  BY <1>1 DEF Release, FilesInUse, InUse, Typed, CallRecords
<1>6. FilesInUse'
  <2>1. \A g \in Files : files'[g].active \/ files'[g].due => files'[g].state = "open"
    BY <1>1, <1>2, <1>3 DEF FilesInUse
  <2>2. \A q \in Procs : InUse(call[q], files')
    BY <1>1, <1>3, <1>5 DEF InUse, FilesInUse
  <2>3. QED
    BY <1>1, <2>1, <2>2 DEF FilesInUse, Release
<1>7. WindowsInv'
  <2>1. \A q \in Procs : QuietCall(q)
    BY DEF QuietCall, Release
  <2>2. QuietFile(f)
    BY <1>2, <1>3 DEF QuietFile, Release, Writing, Storing
  <2>3. \A g \in Files : QuietFile(g)
    BY <1>3, <2>2 DEF QuietFile
  <2>4. \A q \in Procs : Crops(q) => Crops(q)'
    BY DEF Crops, Release
  <2>5. Resizing' <=> Resizing
    BY DEF Resizing, Resizes, Release
  <2>6. QED
    BY <1>1, <1>6, <2>1, <2>3, <2>4, <2>5, QuietWindows DEF Release
<1>8. \A q \in Procs : call[q].at = "copies" =>
        files'[call[q].file].window = files[call[q].file].window
  BY <1>3, <1>5 DEF UsesFile
<1>9. QED
  BY <1>4, <1>6, <1>7, <1>8, IdleStep DEF Release

-----------------------------------------------------------------------------
(* A field of a window is stored *)

NowAskew(p, f, at) ==
  \/ at = "x" /\ \E q \in Procs \ {p} : Writing(q, f)
  \/ at # "x" /\ files[f].askew
  \/ at = "height" /\ overtaken[p]

LEMMA AssignEffect ==
  ASSUME Typed, FilesInUse, Stages, NEW p \in Procs, Assign(p),
         NEW f, f = call[p].file, NEW at, at = call[p].at, NEW arg, arg = call[p].arg
  PROVE  /\ f \in Files /\ files[f].state = "open" /\ arg \in AnyWindow /\ at \in Fields
         /\ call[p].cursor = None
         /\ files' \in [Files -> FileRecords]
         /\ files'[f].window.x = IF at = "x" THEN arg.x ELSE files[f].window.x
         /\ files'[f].window.y = IF at = "y" THEN arg.y ELSE files[f].window.y
         /\ files'[f].window.width = IF at = "width" THEN arg.width ELSE files[f].window.width
         /\ files'[f].window.height = IF at = "height" THEN arg.height ELSE files[f].window.height
         /\ files'[f].askew <=> NowAskew(p, f, at)
         /\ \A g \in Files : /\ files'[g].state = files[g].state
                             /\ files'[g].active = files[g].active
                             /\ files'[g].due = files[g].due
         /\ \A g \in Files \ {f} : files'[g] = files[g]
<1>1. /\ at \in Fields /\ f \in Files /\ files[f].state = "open" /\ arg \in AnyWindow
      /\ call[p].cursor = None
  BY FrameBufferAssumption
     DEF Assign, FilesInUse, InUse, UsesFile, AtFile, Stages, Arguments, Typed, CallRecords, Fields
<1> DEFINE w == [files[f].window EXCEPT ![at] = arg[at]]
           mixes == \E q \in Procs \ {p} : Writing(q, f)
           askew == \/ IF at = "x" THEN mixes ELSE files[f].askew
                    \/ at = "height" /\ overtaken[p]
<1>2. files[f] \in FileRecords /\ files[f].window \in AnyWindow /\ files[f].askew \in BOOLEAN
  BY <1>1 DEF Typed, FileRecords
<1>3. /\ w \in AnyWindow
      /\ w.x = IF at = "x" THEN arg.x ELSE files[f].window.x
      /\ w.y = IF at = "y" THEN arg.y ELSE files[f].window.y
      /\ w.width = IF at = "width" THEN arg.width ELSE files[f].window.width
      /\ w.height = IF at = "height" THEN arg.height ELSE files[f].window.height
  <2>1. CASE at = "x"
    BY <1>1, <1>2, <2>1 DEF AnyWindow
  <2>2. CASE at = "y"
    BY <1>1, <1>2, <2>2 DEF AnyWindow
  <2>3. CASE at = "width"
    BY <1>1, <1>2, <2>3 DEF AnyWindow
  <2>4. CASE at = "height"
    BY <1>1, <1>2, <2>4 DEF AnyWindow
  <2>5. QED
    BY <1>1, <2>1, <2>2, <2>3, <2>4 DEF Fields
<1>4. files' = [files EXCEPT ![f].window = w, ![f].askew = askew]
  BY DEF Assign
<1>5. askew \in BOOLEAN
  OBVIOUS
<1> HIDE DEF w, mixes, askew
<1>6. /\ files' \in [Files -> FileRecords]
      /\ files'[f] = [files[f] EXCEPT !.window = w, !.askew = askew]
      /\ \A g \in Files \ {f} : files'[g] = files[g]
  BY <1>1, <1>2, <1>3, <1>4, <1>5 DEF Typed, FileRecords
<1>7. /\ files'[f].window = w /\ files'[f].askew = askew
      /\ files'[f].state = files[f].state
      /\ files'[f].active = files[f].active /\ files'[f].due = files[f].due
  BY <1>2, <1>6 DEF FileRecords
<1>8. files'[f].askew <=> NowAskew(p, f, at)
  BY <1>2, <1>7 DEF askew, mixes, NowAskew
<1>9. QED
  BY <1>1, <1>3, <1>6, <1>7, <1>8

(* Where the call goes on. *)
LEMMA AssignCall ==
  ASSUME Typed, FilesInUse, Stages, NEW p \in Procs, Assign(p),
         NEW at, at = call[p].at
  PROVE  /\ call' \in [Procs -> CallRecords]
         /\ \A q \in Procs \ {p} : call'[q] = call[q]
         /\ at = "height" => call'[p] = User
         /\ at # "height" =>
              /\ call'[p].at = AfterField[at] /\ AfterField[at] \in {"y", "width", "height"}
              /\ call'[p].file = call[p].file /\ call'[p].arg = call[p].arg
              /\ call'[p].cursor = None
         /\ Arguments(call'[p]) /\ InUse(call'[p], files) /\ call'[p].at # "opens"
<1> DEFINE c == [call[p] EXCEPT !.at = AfterField[at]]
<1>1. at \in Fields /\ call[p] \in CallRecords
  BY DEF Assign, Typed
<1>2. CASE at = "height"
  BY <1>2, EnterEffect, UserType, UserInUse DEF Assign
<1>3. CASE at # "height"
  <2>1. AfterField[at] \in {"y", "width", "height"}
    BY <1>1, <1>3 DEF AfterField, Fields
  <2>2. /\ c \in CallRecords
        /\ c.at = AfterField[at] /\ c.file = call[p].file /\ c.arg = call[p].arg
        /\ c.cursor = call[p].cursor /\ c.side = call[p].side
    BY <1>1, <2>1 DEF CallRecords, Ats
  <2>3. Enter(p, c)
    BY <1>3 DEF Assign
  <2> HIDE DEF c
  <2>4. /\ call' \in [Procs -> CallRecords] /\ call'[p] = c
        /\ \A q \in Procs \ {p} : call'[q] = call[q]
    BY <2>2, <2>3, EnterEffect
  <2>5. Arguments(c)
    BY <1>1, <2>1, <2>2 DEF Stages, Arguments, FrameAts, SizeAts, Fields
  <2>6. InUse(c, files) /\ c.cursor = None
    BY <1>1, <2>1, <2>2 DEF FilesInUse, InUse, UsesFile, AtFile, Fields
  <2>7. QED
    BY <1>3, <2>1, <2>2, <2>4, <2>5, <2>6
<1>4. QED
  BY <1>2, <1>3

LEMMA AssignWindows ==
  ASSUME FrameInv, NEW p \in Procs, Assign(p)
  PROVE  WindowsInv'
<1> DEFINE f == call[p].file
           at == call[p].at
           arg == call[p].arg
<1>1. Typed /\ FilesInUse /\ Stages /\ WindowsInv
  BY DEF FrameInv
<1>2. /\ f \in Files /\ arg \in AnyWindow /\ at \in Fields /\ call[p].cursor = None
      /\ files' \in [Files -> FileRecords]
      /\ \A g \in Files : files'[g].due = files[g].due
      /\ \A g \in Files \ {f} : files'[g] = files[g]
  BY <1>1, AssignEffect
<1>3. /\ files'[f].window.x = IF at = "x" THEN arg.x ELSE files[f].window.x
      /\ files'[f].window.y = IF at = "y" THEN arg.y ELSE files[f].window.y
      /\ files'[f].window.width = IF at = "width" THEN arg.width ELSE files[f].window.width
      /\ files'[f].window.height = IF at = "height" THEN arg.height ELSE files[f].window.height
  BY <1>1, AssignEffect
<1>4. files'[f].askew <=> NowAskew(p, f, at)
  BY <1>1, AssignEffect
<1>5. /\ \A q \in Procs \ {p} : call'[q] = call[q]
      /\ at = "height" => call'[p] = User
      /\ at # "height" =>
           /\ call'[p].at = AfterField[at] /\ AfterField[at] \in {"y", "width", "height"}
           /\ call'[p].file = f /\ call'[p].arg = arg
           /\ call'[p].cursor = None
  BY <1>1, AssignCall
<1>6. /\ \A q \in Procs \ {p} : Fresh(q)' => Fresh(q)
      /\ at # "height" => (Fresh(p)' => Fresh(p))
      /\ dev' = dev
  BY <1>1 DEF Assign, OvertakenBy, Typed, Fresh
<1> HIDE DEF f, at, arg
(* Whoever writes to the window besides is known by askew. *)
<1>7. ASSUME NEW q \in Procs \ {p}, Writing(q, f) PROVE files'[f].askew
  <2>1. CASE at = "x"
    BY <1>4, <1>7, <2>1 DEF NowAskew
  <2>2. CASE at # "x"
    <3>1. Storing(p, f)
      BY <1>2, <2>2 DEF Storing, Fields, f, at
    <3>2. QED
      BY <1>1, <1>2, <1>4, <1>7, <2>2, <3>1 DEF WindowsInv, Mixed, NowAskew
  <2>3. QED
    BY <2>1, <2>2
<1>8. \A q \in Procs \ {p}, g \in Files :
        (Storing(q, g)' <=> Storing(q, g)) /\ (Writing(q, g)' <=> Writing(q, g))
  BY <1>5 DEF Storing, Writing
<1>9. \A g \in Files : Storing(p, g)' \/ Writing(p, g)' => g = f /\ at # "height"
  <2>1. call'[p].cursor = None
    BY <1>5, UserInUse
  <2>2. at = "height" => call'[p].at = "user"
    BY <1>5, UserInUse
  <2>3. \A g \in Files : call'[p].cursor # g
    BY <2>1, FrameBufferAssumption DEF FrameBufferAssumption
  <2>4. QED
    BY <1>5, <2>2, <2>3 DEF Storing, Writing
<1>10. Fitting'
  <2>1. \A w : Fits(w)' <=> Fits(w)
    BY <1>6 DEF Fits
  <2>2. ASSUME Sets(call'[p]), Fresh(p)' PROVE Fits(call'[p].arg)
    <3>1. at # "height"
      BY <1>5, <2>2, UserInUse DEF Sets, Fields
    <3>2. Sets(call[p]) /\ Fresh(p)
      BY <1>2, <1>6, <2>2, <3>1 DEF Sets, at
    <3>3. QED
      BY <1>1, <1>5, <3>1, <3>2 DEF WindowsInv, Fitting, arg
  <2>3. QED
    BY <1>1, <1>5, <1>6, <2>1, <2>2 DEF WindowsInv, Fitting
<1>11. Stored'
  <2> SUFFICES ASSUME NEW q \in Procs, NEW g \in Files,
                      Storing(q, g)', Fresh(q)', ~ files'[g].askew
               PROVE  Begun(call'[q].at, files'[g].window, call'[q].arg)
    BY DEF Stored
  <2>1. CASE q # p
    <3>1. Storing(q, g) /\ Fresh(q) /\ call'[q] = call[q]
      BY <1>5, <1>6, <1>8, <2>1
    <3>2. g # f
      BY <1>7, <2>1, <3>1 DEF Writing
    <3>3. files'[g] = files[g]
      BY <1>2, <3>2
    <3>4. QED
      BY <1>1, <3>1, <3>3 DEF WindowsInv, Stored
  <2>2. CASE q = p
    <3>1. g = f /\ at # "height" /\ Fresh(p)
      BY <1>6, <1>9, <2>2
    <3>2. call'[p].at = AfterField[at] /\ call'[p].arg = arg
      BY <1>5, <3>1
    <3>3. CASE at = "x"
      <4>1. call'[p].at = "y"
        BY <3>2, <3>3 DEF AfterField
      <4>2. QED
        BY <1>3, <2>2, <3>1, <3>2, <3>3, <4>1 DEF Begun
    <3>4. CASE at # "x"
      <4>1. Storing(p, f) /\ ~ files[f].askew
        BY <1>2, <1>4, <3>1, <3>4 DEF NowAskew, Storing, Fields, f, at
      <4>2. Begun(at, files[f].window, arg)
        BY <1>1, <1>2, <3>1, <4>1 DEF WindowsInv, Stored, at, arg
      <4>3. at = "y" \/ at = "width"
        BY <1>2, <3>1, <3>4 DEF Fields
      <4>4. CASE at = "y"
        <5>1. call'[p].at = "width"
          BY <3>2, <4>4 DEF AfterField
        <5>2. QED
          BY <1>3, <2>2, <3>1, <3>2, <4>2, <4>4, <5>1 DEF Begun
      <4>5. CASE at = "width"
        <5>1. call'[p].at = "height"
          BY <3>2, <4>5 DEF AfterField
        <5>2. QED
          BY <1>3, <2>2, <3>1, <3>2, <4>2, <4>5, <5>1 DEF Begun
      <4>6. QED
        BY <4>3, <4>4, <4>5
    <3>5. QED
      BY <3>3, <3>4
  <2>3. QED
    BY <2>1, <2>2
<1>12. Mixed'
  <2> SUFFICES ASSUME NEW q \in Procs, NEW r \in Procs, NEW g \in Files, q # r,
                      Storing(q, g)', Writing(r, g)'
               PROVE  files'[g].askew
    BY DEF Mixed
  <2>1. Writing(q, g)'
    BY DEF Writing
  <2>2. CASE g = f
    BY <1>7, <1>8, <2>1, <2>2
  <2>3. CASE g # f
    <3>1. q # p /\ r # p
      BY <1>9, <2>1, <2>3
    <3>2. Storing(q, g) /\ Writing(r, g) /\ files'[g] = files[g]
      BY <1>2, <1>8, <2>3, <3>1
    <3>3. QED
      BY <1>1, <3>2 DEF WindowsInv, Mixed
  <2>4. QED
    BY <2>2, <2>3
<1>13. Looked'
  <2> SUFFICES ASSUME NEW q \in Procs, AtFile(call'[q]), ~ files'[call'[q].cursor].askew
               PROVE  Seen(call'[q], AtCursor(q)')
    BY DEF Looked
  <2>1. q # p
    BY <1>5, UserInUse DEF AtFile
  <2>2. call'[q] = call[q] /\ call[q].cursor \in Files
    BY <1>1, <1>5, <2>1 DEF FilesInUse, InUse, Typed, CallRecords
  <2>3. call[q].cursor # f
    BY <1>7, <2>1, <2>2 DEF Writing
  <2>4. files'[call[q].cursor] = files[call[q].cursor]
    BY <1>2, <2>2, <2>3
  <2>5. QED
    BY <1>1, <2>2, <2>4 DEF WindowsInv, Looked, AtCursor
<1>14. RestCropped'
  <2> SUFFICES ASSUME ~ Resizing', NEW g \in Files, AtRest(g)' PROVE Cropped(files[g].window)'
    BY DEF RestCropped
  <2>1. \A w : (Fits(w)' <=> Fits(w)) /\ (Cropped(w)' <=> Cropped(w))
    BY <1>6 DEF Fits, Cropped, Astray
  <2>2. CASE g # f
    <3>1. files'[g] = files[g]
      BY <1>2, <2>2
    <3>2. ~ Writing(p, g)
      BY <1>2, <2>2, FrameBufferAssumption DEF Writing, Storing, FrameBufferAssumption, f
    <3>3. AtRest(g)
      BY <1>8, <3>1, <3>2 DEF AtRest
    <3>4. ~ Resizing
      BY <1>2, <1>5 DEF Resizing, Resizes, Fields, at
    <3>5. QED
      BY <1>1, <2>1, <3>1, <3>3, <3>4 DEF WindowsInv, RestCropped
  <2>3. CASE g = f
    <3>1. at = "height"
      BY <1>5, <2>3 DEF AtRest, Writing, Storing
    <3>2. ~ files[f].askew /\ Fresh(p)
      BY <1>4, <2>3, <3>1 DEF AtRest, Fresh, NowAskew
    <3>3. Storing(p, f) /\ Sets(call[p])
      BY <3>1 DEF Storing, Sets, Fields, f, at
    <3>4. Begun(at, files[f].window, arg) /\ Fits(arg)
      BY <1>1, <1>2, <3>2, <3>3 DEF WindowsInv, Stored, Fitting, at, arg
    <3>5. files'[f].window = arg
      <4>1. files'[f].window \in AnyWindow
        BY <1>2 DEF FileRecords
      <4>2. /\ files'[f].window.x = arg.x /\ files'[f].window.y = arg.y
            /\ files'[f].window.width = arg.width /\ files'[f].window.height = arg.height
        BY <1>3, <3>1, <3>4 DEF Begun
      <4>3. QED
        BY <1>2, <4>1, <4>2 DEF AnyWindow
    <3>6. QED
      BY <1>1, <1>2, <2>1, <2>3, <3>4, <3>5, CroppedFits
  <2>4. QED
    BY <2>2, <2>3
<1>15. DueLater'
  <2>1. \A q \in Procs : Crops(q) => Crops(q)'
    BY <1>2, <1>5 DEF Crops, Fields, at
  <2>2. QED
    BY <1>1, <1>2, <2>1 DEF WindowsInv, DueLater
<1>16. QED
  BY <1>10, <1>11, <1>12, <1>13, <1>14, <1>15 DEF WindowsInv

LEMMA AssignKeeps ==
  ASSUME FrameInv, NEW p \in Procs, Assign(p)
  PROVE  FrameInv'
<1> DEFINE f == call[p].file
<1>1. Typed /\ FilesInUse /\ Stages
  BY DEF FrameInv
<1>2. /\ f \in Files /\ files[f].state = "open" /\ call[p].at \in Fields
      /\ files' \in [Files -> FileRecords]
      /\ \A g \in Files : /\ files'[g].state = files[g].state
                          /\ files'[g].active = files[g].active
                          /\ files'[g].due = files[g].due
      /\ \A g \in Files \ {f} : files'[g] = files[g]
  BY <1>1, AssignEffect
<1>3. /\ call' \in [Procs -> CallRecords]
      /\ \A q \in Procs \ {p} : call'[q] = call[q]
      /\ call[p].at = "height" => call'[p] = User
      /\ call[p].at # "height" =>
           call'[p].at = AfterField[call[p].at] /\ AfterField[call[p].at] \in {"y", "width", "height"}
      /\ Arguments(call'[p]) /\ InUse(call'[p], files) /\ call'[p].at # "opens"
  BY <1>1, AssignCall
<1>4. overtaken' \in [Procs -> BOOLEAN]
  BY <1>1 DEF Assign, OvertakenBy, Typed
<1>5. Typed'
  BY <1>1, <1>2, <1>3, <1>4 DEF Assign, Typed
<1>6. FilesInUse'
  <2>1. \A g \in Files : files'[g].active \/ files'[g].due => files'[g].state = "open"
    BY <1>1, <1>2 DEF FilesInUse
  <2>2. call'[p] \in CallRecords
    BY <1>3
  <2>3. QED
    BY <1>1, <1>2, <1>3, <2>1, <2>2, UseStep
<1>7. WindowsInv'
  BY AssignWindows
<1>8. \A q \in Procs : overtaken[q] /\ call[q].at \notin Idle => overtaken'[q]
  BY <1>1, <1>2 DEF Assign, OvertakenBy, Typed, Idle
<1>9. ASSUME NEW q \in Procs, call[q].at = "copies", ~ overtaken'[q]
      PROVE  files'[call[q].file].window = files[call[q].file].window
  <2>1. call[q].file \in Files /\ q # p
    BY <1>1, <1>2, <1>9 DEF FilesInUse, InUse, UsesFile, Typed, CallRecords, Fields
  <2>2. call[q].file # f
    BY <1>1, <1>9, <2>1 DEF Assign, OvertakenBy, Typed
  <2>3. QED
    BY <1>2, <2>1, <2>2
<1>10. Aside(call[p], call'[p])
  BY <1>2, <1>3, UserInUse DEF Aside, Idle, Fields
<1>11. QED
  BY <1>3, <1>5, <1>6, <1>7, <1>8, <1>9, <1>10, IdleStep DEF Assign

-----------------------------------------------------------------------------
(* Steps of calls that hold a lock, or end without one *)

(* The end of a call, at which the operation of the device may be set.     *)
LEMMA LeaveStep ==
  ASSUME FrameInv, NEW p \in Procs, Leave(p), UNCHANGED <<frame, files>>,
         dev' \in [width : Nat \ {0}, height : Nat \ {0}, op : Ops],
         dev'.width = dev.width, dev'.height = dev.height,
         call[p].at \in {"asks", "copies", "clears", "sets", "crops"},
         call[p].at = "crops" => \A f \in Files : ~ files[f].due
  PROVE  FrameInv'
<1>1. Typed /\ FilesInUse /\ Stages /\ WindowsInv
  BY DEF FrameInv
<1>2. /\ call' \in [Procs -> CallRecords]
      /\ lock' \in [Procs -> Requests \cup {None}]
      /\ overtaken' \in [Procs -> BOOLEAN]
      /\ call'[p] = User /\ lock'[p] = None
      /\ \A q \in Procs \ {p} :
           call'[q] = call[q] /\ lock'[q] = lock[q] /\ overtaken'[q] = overtaken[q]
  BY <1>1, LeaveEffect
<1>3. Typed'
  BY <1>1, <1>2 DEF Typed
<1>4. FilesInUse'
  <2>1. User \in CallRecords /\ InUse(User, files) /\ User.at # "opens"
    BY UserType, UserInUse
  <2>2. \A f \in Files : files'[f].active \/ files'[f].due => files'[f].state = "open"
    BY <1>1 DEF FilesInUse
  <2>3. QED
    BY <1>1, <1>2, <2>1, <2>2, UseStep
<1>5. Stages'
  BY <1>1, <1>2, UserInUse DEF Stages, Holds, FrameAts, SizeAts
<1>6. Apart'
  BY <1>2 DEF FrameInv, Apart
<1>7. Resizing' <=> Resizing
  <2>1. \A q \in Procs : Resizes(q)' <=> Resizes(q)
    BY <1>2, UserInUse DEF Resizes
  <2>2. QED
    BY <2>1 DEF Resizing
<1>8. Memory'
  <2>1. \A q \in Procs : call'[q].at \in SizeAts => call'[q] = call[q]
    BY <1>2, UserInUse DEF SizeAts
  <2>2. QED
    BY <1>7, <2>1 DEF FrameInv, Memory
<1>9. FreshFrame'
  <2>1. WholeFrame' = WholeFrame
    BY DEF WholeFrame
  <2>2. \A q \in Procs : call'[q].at \in {"clears", "sets", "frees"} => q # p
    BY <1>2, UserInUse
  <2>3. QED
    BY <1>2, <2>1, <2>2 DEF FrameInv, FreshFrame, Fresh
<1>10. FreshWindow'
  <2>1. \A w : Near(w, dev') <=> Near(w, dev)
    BY DEF Near
  <2>2. ASSUME NEW q \in Procs, call'[q].at = "copies"
        PROVE  q # p /\ call'[q] = call[q] /\ lock'[q] = lock[q] /\ overtaken'[q] = overtaken[q]
    BY <1>2, <2>2, UserInUse
  <2>3. QED
    BY <1>7, <2>1, <2>2 DEF FrameInv, FreshWindow, Fresh
<1>11. FreshApart'
  <2>1. \A q \in Procs : OnFrame(q)' \/ call'[q].at = "copies" => q # p
    BY <1>2, UserInUse DEF OnFrame
  <2>2. QED
    BY <1>2, <2>1 DEF FrameInv, FreshApart, Fresh, OnFrame
<1>12. WindowsInv'
  <2>1. call[p].cursor = None
    BY <1>1 DEF FilesInUse, InUse, AtFile
  <2>2. QuietCall(p)
    BY <1>2, <2>1, UserInUse DEF QuietCall, Quiet, Sets, Fields
  <2>3. \A q \in Procs : QuietCall(q)
    BY <1>2, <2>2 DEF QuietCall
  <2>4. \A g \in Files : QuietFile(g)
    BY DEF QuietFile
  <2>5. CASE call[p].at = "crops"
    BY <1>1, <1>4, <1>7, <2>3, <2>4, <2>5, QuietWindows
  <2>6. CASE call[p].at # "crops"
    <3>1. \A q \in Procs : Crops(q) => Crops(q)'
      BY <1>2, <2>6 DEF Crops
    <3>2. QED
      BY <1>1, <1>4, <1>7, <2>3, <2>4, <3>1, QuietWindows
  <2>7. QED
    BY <2>5, <2>6
<1>13. QED
  BY <1>3, <1>4, <1>5, <1>6, <1>8, <1>9, <1>10, <1>11, <1>12 DEF FrameInv

LEMMA BlocksSymmetric ==
  ASSUME NEW r \in Requests, NEW s \in Requests, Blocks(r, s)
  PROVE  Blocks(s, r)
BY DEF Blocks, Requests, Areas, Intersects, Meets, Rectangle

LEMMA ObtainKeepsApart ==
  ASSUME Typed, Stages, Apart, NEW p \in Procs, Obtain(p)
  PROVE  Apart'
<1>1. /\ lock'[p] = call[p].request /\ call[p].request \in Requests
      /\ \A q \in Procs \ {p} : lock'[q] = lock[q]
  BY ObtainEffect
<1>2. ASSUME NEW q \in Procs \ {p}, lock[q] # None
      PROVE  ~ Blocks(lock[q], lock'[p]) /\ ~ Blocks(lock'[p], lock[q])
  <2>1. lock[q] \in Requests
    BY <1>2 DEF Typed
  <2>2. ~ Blocks(lock[q], lock'[p])
    BY <1>1, <1>2 DEF Obtain, Blocked
  <2>3. QED
    BY <1>1, <2>1, <2>2, BlocksSymmetric
<1>3. ASSUME NEW q \in Procs, NEW r \in Procs, q # r, lock'[q] # None, lock'[r] # None
      PROVE  ~ Blocks(lock'[q], lock'[r])
  BY <1>1, <1>2, <1>3 DEF Apart
<1>4. QED
  BY <1>3 DEF Apart

(* At most one call has the whole frame locked, overtaken or not. *)
LEMMA OneOnFrame ==
  ASSUME Typed, Stages, Apart, NEW p \in Procs, NEW q \in Procs,
         Holds(call[p]), Holds(call[q])
  PROVE  p = q
<1>1. /\ lock[p] \in Requests /\ AtOrigin(lock[p])
      /\ lock[q] \in Requests /\ AtOrigin(lock[q])
  BY DEF Stages, Arguments, Holds
<1>2. QED
  BY <1>1, OriginsBlock, RequestIsLock DEF Apart

(* A call that asks for the whole frame waits while another works on it. *)
LEMMA NobodyOnFrame ==
  ASSUME Typed, Stages, NEW p \in Procs, call[p].at = "asks", call[p].does \in FrameKinds,
         ~ Blocked(p), NEW q \in Procs
  PROVE  ~ Holds(call[q])
<1> SUFFICES ASSUME Holds(call[q]) PROVE FALSE
  OBVIOUS
<1>1. lock[q] \in Requests /\ AtOrigin(lock[q])
  BY DEF Stages, Arguments, Holds
<1>2. call[p].request \in Requests /\ AtOrigin(call[p].request)
  BY DEF Stages, Arguments
<1>3. QED
  BY <1>1, <1>2, OriginsBlock, RequestIsLock DEF Blocked

(* A call is granted its lock and goes on to c. *)
LEMMA ObtainStep ==
  ASSUME FrameInv, NEW p \in Procs, NEW c \in CallRecords, Obtain(p), Enter(p, c),
         UNCHANGED <<dev, frame, files>>,
         c.at \in {"copies", "dead", "clears", "sets", "frees"}, c.cursor = None,
         c.at # "dead" => c.file = call[p].file /\ c.request = call[p].request,
         Arguments(c), InUse(c, files),
         c.at \in {"clears", "sets", "frees"} /\ ~ overtaken'[p] =>
           call[p].request.area = Edges(WholeFrame),
         c.at = "copies" /\ ~ overtaken'[p] =>
           LET w == files[c.file].window
           IN  call[p].request.area = Edges(w) /\ WithinWindow(c.place, w) /\ Near(w, dev),
         FreshApart'
  PROVE  FrameInv'
<1>1. Typed /\ FilesInUse /\ Stages /\ Apart /\ WindowsInv
  BY DEF FrameInv
<1>2. /\ lock' \in [Procs -> Requests \cup {None}]
      /\ overtaken' \in [Procs -> BOOLEAN]
      /\ lock'[p] = call[p].request /\ call[p].request \in Requests
      /\ \A q \in Procs \ {p} : lock'[q] = lock[q] /\ overtaken'[q] = overtaken[q]
  BY <1>1, ObtainEffect
<1>3. /\ call' \in [Procs -> CallRecords] /\ call'[p] = c
      /\ \A q \in Procs \ {p} : call'[q] = call[q]
  BY <1>1, EnterEffect
<1>4. Typed'
  BY <1>1, <1>2, <1>3 DEF Typed
<1>5. FilesInUse'
  <2>1. \A f \in Files : files'[f].active \/ files'[f].due => files'[f].state = "open"
    BY <1>1 DEF FilesInUse
  <2>2. QED
    BY <1>1, <1>3, <2>1, UseStep
<1>6. Stages'
  BY <1>1, <1>2, <1>3, RequestIsLock DEF Stages, Holds, FrameAts, SizeAts
<1>7. Apart'
  BY <1>1, ObtainKeepsApart
<1>8. \A q \in Procs : Resizes(q)' <=> Resizes(q)
  BY <1>3 DEF Obtain, Resizes
<1>9. Resizing' <=> Resizing
  BY <1>8 DEF Resizing
<1>10. Memory'
  <2>1. \A q \in Procs : call'[q].at \in SizeAts \ {"frees"} => call'[q] = call[q]
    BY <1>3 DEF SizeAts
  <2>2. QED
    BY <1>9, <2>1 DEF FrameInv, Memory
<1>11. FreshFrame'
  <2>1. WholeFrame' = WholeFrame
    BY DEF WholeFrame
  <2>2. QED
    BY <1>2, <1>3, <2>1 DEF FrameInv, FreshFrame, Fresh
<1>12. FreshWindow'
  BY <1>2, <1>3, <1>9 DEF FrameInv, FreshWindow, Fresh
<1>13. WindowsInv'
  <2>1. call[p].at = "asks" /\ call[p].cursor = None
    BY <1>1 DEF Obtain, FilesInUse, InUse, AtFile
  <2>2. QuietCall(p)
    BY <1>3, <2>1 DEF QuietCall, Quiet, Sets, Fields
  <2>3. \A q \in Procs : QuietCall(q)
    BY <1>2, <1>3, <2>2 DEF QuietCall
  <2>4. \A g \in Files : QuietFile(g)
    BY DEF QuietFile
  <2>5. \A q \in Procs : Crops(q) => Crops(q)'
    BY <1>3, <2>1 DEF Crops
  <2>6. QED
    BY <1>1, <1>5, <1>9, <2>3, <2>4, <2>5, QuietWindows
<1>14. QED
  BY <1>4, <1>5, <1>6, <1>7, <1>10, <1>11, <1>12, <1>13 DEF FrameInv

(* A window that is locked now, and the frame that was locked before. *)
LEMMA WindowGrantApart ==
  ASSUME FrameInv, NEW p \in Procs, NEW c \in CallRecords, Obtain(p), Enter(p, c),
         UNCHANGED <<dev, frame, files>>,
         c.at = "copies", call[p].does \in {"read", "write"}
  PROVE  FreshApart'
<1>1. Typed /\ FilesInUse /\ Stages
  BY DEF FrameInv
<1>2. /\ overtaken' \in [Procs -> BOOLEAN] /\ call[p].request \in Requests
      /\ \A q \in Procs \ {p} : overtaken'[q] = overtaken[q]
  BY <1>1, ObtainEffect
<1>3. call'[p] = c /\ \A q \in Procs \ {p} : call'[q] = call[q]
  BY <1>1, EnterEffect
<1>4. call[p].at = "asks" /\ call[p].file \in Files /\ files[call[p].file].window \in AnyWindow
  BY <1>1 DEF Obtain, FilesInUse, InUse, UsesFile, Typed, CallRecords, FileRecords
<1> DEFINE w == files[call[p].file].window
<1>5. ASSUME ~ overtaken'[p]
      PROVE  /\ call[p].request.area = Edges(w)
             /\ Near(w, dev)
             /\ \A q \in Procs : ~ Resizes(q)
  <2>1. /\ call[p].request.area = Area(call[p].does, call[p].file)
        /\ ~ Astray(w)
        /\ \A q \in Procs : ~ Resizes(q)
    BY <1>1, <1>5 DEF Obtain, Typed
  <2>2. Near(w, dev)
    BY <1>1, <1>4, <2>1 DEF Near, Astray, AnyWindow, Typed
  <2>3. QED
    BY <2>1, <2>2 DEF Area
<1>6. ASSUME NEW q \in Procs \ {p}, OnFrame(q), Fresh(q), ~ overtaken'[p]
      PROVE  FALSE
  <2>1. call[q].at \in {"clears", "sets", "frees"}
    BY <1>5, <1>6 DEF OnFrame, Resizes
  <2>2. /\ lock[q].area = Edges(WholeFrame)
        /\ lock[q] # None /\ lock[q].type = "write"
    BY <1>1, <1>6, <2>1, RequestIsLock
       DEF FrameInv, FreshFrame, Stages, Arguments, AtOrigin, Holds, FrameAts, SizeAts
  <2>3. Intersects(Edges(WholeFrame), Edges(w))
    BY <1>1, <1>4, <1>5, <1>6, WindowMeetsFrame
  <2>4. Blocked(p)
    BY <1>5, <1>6, <2>2, <2>3 DEF Blocked, Blocks
  <2>5. QED
    BY <2>4 DEF Obtain
<1>7. QED
  BY <1>2, <1>3, <1>6 DEF FrameInv, FreshApart, Fresh, OnFrame

(* The frame that is locked now, and a window that was locked before. *)
LEMMA FrameGrantApart ==
  ASSUME FrameInv, NEW p \in Procs, NEW c \in CallRecords, Obtain(p), Enter(p, c),
         UNCHANGED <<dev, frame, files>>,
         c.at # "copies", call[p].does \in FrameKinds
  PROVE  FreshApart'
<1>1. Typed /\ FilesInUse /\ Stages
  BY DEF FrameInv
<1>2. /\ overtaken' \in [Procs -> BOOLEAN] /\ call[p].request \in Requests
      /\ \A q \in Procs \ {p} : overtaken'[q] = overtaken[q]
  BY <1>1, ObtainEffect
<1>3. call'[p] = c /\ \A q \in Procs \ {p} : call'[q] = call[q]
  BY <1>1, EnterEffect
<1>4. call[p].at = "asks" /\ ~ Blocked(p) /\ call[p].request.type = "write"
  BY <1>1 DEF Obtain, Stages, Arguments, AtOrigin
<1>5. ASSUME ~ overtaken'[p] PROVE call[p].request.area = Edges(WholeFrame)
  BY <1>1, <1>5 DEF Obtain, Typed, Area, FrameKinds
<1>6. ASSUME NEW q \in Procs \ {p}, call[q].at = "copies", Fresh(q), ~ overtaken'[p]
      PROVE  FALSE
  <2> DEFINE w == files[call[q].file].window
  <2>1. w \in AnyWindow
    BY <1>1, <1>6 DEF FilesInUse, InUse, UsesFile, Typed, CallRecords, FileRecords
  <2>2. ~ Resizing
    BY <1>1, <1>4, NobodyOnFrame DEF Resizing, Resizes, Holds, FrameAts, SizeAts
  <2>3. lock[q].area = Edges(w) /\ Near(w, dev) /\ lock[q] # None
    BY <1>1, <1>6, <2>2, RequestIsLock DEF FrameInv, FreshWindow, Stages
  <2>4. Intersects(Edges(w), Edges(WholeFrame))
    BY <1>1, <2>1, <2>3, WindowMeetsFrame
  <2>5. Blocked(p)
    BY <1>4, <1>5, <1>6, <2>3, <2>4 DEF Blocked, Blocks
  <2>6. QED
    BY <1>4, <2>5
<1>7. QED
  BY <1>2, <1>3, <1>6 DEF FrameInv, FreshApart, Fresh, OnFrame

LEMMA StartKeeps ==
  ASSUME FrameInv, NEW p \in Procs, NEW offset \in Nat, NEW count \in Nat \ {0},
         Start(p, offset, count)
  PROVE  FrameInv'
<1> DEFINE w == files[call[p].file].window
           size == w.width * w.height
           left == IF offset + count > size THEN size - offset ELSE count
           pl == Place(w, offset \div w.width, offset % w.width, left)
           dead == [User EXCEPT !.at = "dead"]
           c == [call[p] EXCEPT !.at = "copies", !.place = pl]
<1>1. Typed /\ FilesInUse /\ Stages /\ call[p] \in CallRecords
  BY DEF FrameInv, Typed
<1>2. call[p].at = "asks" /\ call[p].does \in {"read", "write"} /\ UNCHANGED <<dev, frame, files>>
  BY DEF Start, Obtain
<1>3. call[p].file \in Files /\ files[call[p].file].state = "open" /\ w \in AnyWindow
  BY <1>1, <1>2 DEF FilesInUse, InUse, UsesFile, Typed, CallRecords, FileRecords
<1>4. size \in Nat
  BY <1>3 DEF AnyWindow
<1>5. CASE Obtain(p) /\ Enter(p, dead)
  <2>1. /\ dead \in CallRecords /\ dead.at = "dead" /\ dead.cursor = None
        /\ Arguments(dead) /\ InUse(dead, files)
    BY DEF User, CallRecords, Ats, Kinds, Arguments, InUse, UsesFile, AtFile,
           Fields, FrameAts, SizeAts
  <2>2. FreshApart'
    <3>1. call'[p] = dead /\ \A q \in Procs \ {p} : call'[q] = call[q]
      BY <1>1, <1>5, <2>1, EnterEffect
    <3>2. \A q \in Procs \ {p} : overtaken'[q] = overtaken[q]
      BY <1>1, <1>5, ObtainEffect
    <3> HIDE DEF dead
    <3>3. QED
      BY <2>1, <3>1, <3>2 DEF FrameInv, FreshApart, Fresh, OnFrame
  <2> HIDE DEF dead
  <2>3. QED
    BY <1>2, <1>5, <2>1, <2>2, ObtainStep
<1>6. CASE /\ Obtain(p) /\ w.width # 0 /\ offset < size
           /\ call' = [call EXCEPT ![p].at = "copies", ![p].place = pl]
  <2>1. left \in Nat \ {0} /\ offset + left <= size
    BY <1>4, <1>6
  <2>2. pl \in Places /\ WithinWindow(pl, w)
    BY <1>3, <1>6, <2>1, FirstPlaceWithin
  <2> HIDE DEF pl
  <2>3. /\ c \in CallRecords /\ c.at = "copies" /\ c.place = pl
        /\ c.file = call[p].file /\ c.request = call[p].request /\ c.does = call[p].does
        /\ c.cursor = call[p].cursor /\ c.side = call[p].side
    BY <1>1, <2>2 DEF CallRecords, Ats
  <2>4. Enter(p, c)
    BY <1>1, <1>6 DEF Enter, Typed
  <2> HIDE DEF c
  <2>5. Arguments(c) /\ InUse(c, files) /\ c.cursor = None
    <3>1. Arguments(c)
      BY <1>1, <1>2, <2>2, <2>3 DEF Arguments, Stages, FrameAts, SizeAts, Fields, FrameKinds
    <3>2. InUse(c, files) /\ c.cursor = None
      BY <1>1, <1>2, <2>3 DEF FilesInUse, InUse, UsesFile, AtFile
    <3>3. QED
      BY <3>1, <3>2
  <2>6. FreshApart'
    BY <1>2, <1>6, <2>3, <2>4, WindowGrantApart
  <2>7. ASSUME ~ overtaken'[p] PROVE call[p].request.area = Edges(w) /\ Near(w, dev)
    <3>1. call[p].request.area = Area(call[p].does, call[p].file) /\ ~ Astray(w)
      BY <1>1, <1>2, <1>6, <2>7 DEF Obtain, Typed
    <3>2. QED
      BY <1>1, <1>2, <1>3, <3>1 DEF Near, Astray, AnyWindow, Typed, Area
  <2>8. QED
    BY <1>2, <1>6, <2>2, <2>3, <2>4, <2>5, <2>6, <2>7, ObtainStep
<1>7. CASE Leave(p)
  BY <1>1, <1>2, <1>7, LeaveStep DEF Typed
<1>8. QED
  BY <1>5, <1>6, <1>7 DEF Start

LEMMA LockFrameKeeps ==
  ASSUME FrameInv, NEW p \in Procs, LockFrame(p)
  PROVE  FrameInv'
<1> DEFINE at == FirstStep(call[p].does)
           c == [call[p] EXCEPT !.at = at]
<1>1. Typed /\ FilesInUse /\ Stages /\ call[p] \in CallRecords
  BY DEF FrameInv, Typed
<1>2. /\ call[p].at = "asks" /\ call[p].does \in FrameKinds
      /\ Obtain(p) /\ UNCHANGED <<dev, frame, files>>
  BY DEF LockFrame, Obtain, FrameKinds
<1>3. /\ at \in {"clears", "sets", "frees"}
      /\ at = "sets" => call[p].does = "SETOP"
      /\ at = "frees" => call[p].does = "SETSIZE"
  BY <1>2 DEF FirstStep, FrameKinds
<1>4. call' = [call EXCEPT ![p].at = at]
  BY DEF LockFrame
<1> HIDE DEF at
<1>5. /\ c \in CallRecords /\ c.at = at /\ c.file = call[p].file /\ c.arg = call[p].arg
      /\ c.request = call[p].request /\ c.does = call[p].does
      /\ c.cursor = call[p].cursor /\ c.side = call[p].side
  BY <1>1, <1>3 DEF CallRecords, Ats
<1>6. Enter(p, c)
  BY <1>1, <1>4 DEF Enter, Typed
<1> HIDE DEF c
<1>7. Arguments(c)
  BY <1>1, <1>2, <1>3, <1>5 DEF Arguments, Stages, FrameKinds, FrameAts, SizeAts, Fields
<1>8. InUse(c, files) /\ c.cursor = None
  BY <1>1, <1>2, <1>3, <1>5 DEF FilesInUse, InUse, UsesFile, AtFile
<1>9. FreshApart'
  BY <1>2, <1>3, <1>5, <1>6, FrameGrantApart
<1>10. ASSUME ~ overtaken'[p] PROVE call[p].request.area = Edges(WholeFrame)
  BY <1>1, <1>2, <1>10 DEF Obtain, Typed, Area, FrameKinds
<1>11. QED
  BY <1>2, <1>3, <1>5, <1>6, <1>7, <1>8, <1>9, <1>10, ObtainStep

LEMMA CopyKeeps ==
  ASSUME FrameInv, NEW p \in Procs, Copy(p)
  PROVE  FrameInv'
<1> DEFINE pl == call[p].place
           f == call[p].file
           w == files[f].window
           next == Advance(pl, w)
<1>1. Typed /\ FilesInUse /\ Stages /\ WindowsInv /\ call[p] \in CallRecords
  BY DEF FrameInv, Typed
<1>2. call[p].at = "copies" /\ UNCHANGED <<dev, frame, files>>
  BY DEF Copy
<1>3. CASE Leave(p)
  BY <1>1, <1>2, <1>3, LeaveStep DEF Typed
<1>4. CASE /\ pl.left > 1 /\ call' = [call EXCEPT ![p].place = next]
           /\ UNCHANGED <<lock, overtaken>>
  <2>1. w \in AnyWindow /\ pl \in Places
    BY <1>1, <1>2 DEF FilesInUse, InUse, UsesFile, Stages, Arguments, Typed, CallRecords, FileRecords
  <2>2. next \in Places /\ (WithinWindow(pl, w) => WithinWindow(next, w))
    BY <1>4, <2>1, AdvanceWithin
  <2> HIDE DEF next
  <2>3. /\ call' \in [Procs -> CallRecords]
        /\ call'[p] = [call[p] EXCEPT !.place = next]
        /\ \A q \in Procs \ {p} : call'[q] = call[q]
    BY <1>1, <1>4, <2>2 DEF Typed, CallRecords
  <2>4. /\ call'[p].place = next
        /\ call'[p].at = call[p].at /\ call'[p].does = call[p].does
        /\ call'[p].file = call[p].file /\ call'[p].arg = call[p].arg
        /\ call'[p].request = call[p].request
        /\ call'[p].cursor = call[p].cursor /\ call'[p].side = call[p].side
    BY <1>1, <2>3 DEF CallRecords
  <2>5. \A q \in Procs :
          /\ call'[q].at = call[q].at /\ call'[q].does = call[q].does
          /\ call'[q].file = call[q].file /\ call'[q].arg = call[q].arg
          /\ call'[q].request = call[q].request
          /\ call'[q].cursor = call[q].cursor
    BY <2>3, <2>4
  <2>6. Typed'
    BY <1>1, <1>2, <1>4, <2>3 DEF Typed
  <2>7. FilesInUse'
    BY <1>1, <1>2, <2>5 DEF FilesInUse, InUse, UsesFile, AtFile
  <2>8. Stages'
    <3>1. Arguments(call'[p])
      BY <1>1, <1>2, <2>2, <2>4 DEF Stages, Arguments
    <3>2. \A q \in Procs : Arguments(call'[q])
      BY <1>1, <2>3, <3>1 DEF Stages
    <3>3. QED
      BY <1>1, <1>4, <2>5, <3>2 DEF Stages, Holds
  <2>9. Apart'
    BY <1>4 DEF FrameInv, Apart
  <2>10. Resizing' <=> Resizing
    BY <2>5 DEF Resizing, Resizes
  <2>11. Memory'
    BY <1>2, <2>5, <2>10 DEF FrameInv, Memory
  <2>12. FreshFrame'
    <3>1. WholeFrame' = WholeFrame
      BY <1>2 DEF WholeFrame
    <3>2. QED
      BY <1>4, <2>5, <3>1 DEF FrameInv, FreshFrame, Fresh
  <2>13. FreshWindow'
    BY <1>2, <1>4, <2>2, <2>3, <2>4, <2>10 DEF FrameInv, FreshWindow, Fresh
  <2>14. FreshApart'
    BY <1>4, <2>5 DEF FrameInv, FreshApart, Fresh, OnFrame
  <2>15. WindowsInv'
    <3>1. QuietCall(p)
      BY <1>1, <1>2, <2>4 DEF QuietCall, Quiet, Sets, Fields, FilesInUse, InUse, AtFile
    <3>2. \A q \in Procs : QuietCall(q)
      BY <1>4, <2>3, <3>1 DEF QuietCall
    <3>3. \A g \in Files : QuietFile(g)
      BY <1>2 DEF QuietFile
    <3>4. \A q \in Procs : Crops(q) => Crops(q)'
      BY <2>5 DEF Crops
    <3>5. QED
      BY <1>1, <1>2, <2>7, <2>10, <3>2, <3>3, <3>4, QuietWindows
  <2>16. QED
    BY <2>6, <2>7, <2>8, <2>9, <2>11, <2>12, <2>13, <2>14, <2>15 DEF FrameInv
<1>5. QED
  BY <1>3, <1>4 DEF Copy

LEMMA ClearKeeps ==
  ASSUME FrameInv, NEW p \in Procs, Clear(p)
  PROVE  FrameInv'
BY LeaveStep DEF Clear, FrameInv, Typed

LEMMA SetOpKeeps ==
  ASSUME FrameInv, NEW p \in Procs, SetOp(p)
  PROVE  FrameInv'
<1>1. call[p].arg \in Ops
  BY DEF SetOp, FrameInv, Stages, Arguments
<1>2. /\ dev' \in [width : Nat \ {0}, height : Nat \ {0}, op : Ops]
      /\ dev'.width = dev.width /\ dev'.height = dev.height
  BY <1>1 DEF SetOp, FrameInv, Typed
<1>3. QED
  BY <1>2, LeaveStep DEF SetOp


(* One number of the size changes, the memory is gone, and nobody else has *)
(* the frame locked.                                                       *)
LEMMA SizeStep ==
  ASSUME FrameInv, NEW p \in Procs, NEW at \in {"heightens", "resizes"},
         call[p].at = IF at = "heightens" THEN "frees" ELSE "heightens",
         call' = [call EXCEPT ![p].at = at],
         dev' \in [width : Nat \ {0}, height : Nat \ {0}, op : Ops],
         \E s \in Sizes : dev'.width = s.width,
         \E s \in Sizes : dev'.height = s.height,
         dev'.width = call[p].arg.width,
         at = "resizes" => dev'.height = call[p].arg.height,
         frame' \in Nat,
         SizeChanges, UNCHANGED <<files, lock>>
  PROVE  FrameInv'
<1> DEFINE c == [call[p] EXCEPT !.at = at]
<1>1. Typed /\ FilesInUse /\ Stages /\ Apart /\ WindowsInv /\ call[p] \in CallRecords
  BY DEF FrameInv, Typed
<1>2. call[p].at \in {"frees", "heightens"} /\ call[p].cursor = None
  BY <1>1 DEF FilesInUse, InUse, AtFile
<1>3. /\ c \in CallRecords /\ c.at = at /\ c.arg = call[p].arg /\ c.does = call[p].does
      /\ c.file = call[p].file /\ c.request = call[p].request
      /\ c.cursor = None /\ c.side = call[p].side
  BY <1>1, <1>2 DEF CallRecords, Ats
<1>4. /\ call' \in [Procs -> CallRecords] /\ call'[p] = c
      /\ \A q \in Procs \ {p} : call'[q] = call[q]
  BY <1>1, <1>3 DEF Typed
<1> HIDE DEF c
<1>5. /\ overtaken' \in [Procs -> BOOLEAN]
      /\ \A q \in Procs : overtaken[q] => overtaken'[q]
      /\ \A q \in Procs : Sets(call[q]) => overtaken'[q]
  BY <1>1 DEF SizeChanges, Typed, Sets
<1>6. Typed'
  BY <1>1, <1>4, <1>5 DEF Typed
<1>7. FilesInUse'
  <2>1. InUse(c, files) /\ c.at # "opens"
    BY <1>1, <1>2, <1>3 DEF FilesInUse, InUse, UsesFile, AtFile
  <2>2. \A f \in Files : files'[f].active \/ files'[f].due => files'[f].state = "open"
    BY <1>1 DEF FilesInUse
  <2>3. QED
    BY <1>1, <1>3, <1>4, <2>1, <2>2, UseStep
<1>8. Stages'
  <2>1. Arguments(c)
    BY <1>1, <1>2, <1>3 DEF Stages, Arguments, FrameAts, SizeAts, Fields
  <2>2. \A q \in Procs : Arguments(call'[q])
    BY <1>1, <1>4, <2>1 DEF Stages
  <2>3. Holds(c) /\ Holds(call[p]) /\ c.at \notin {"copies", "dead"}
    BY <1>2, <1>3 DEF Holds, FrameAts, SizeAts
  <2>4. QED
    BY <1>1, <1>3, <1>4, <2>2, <2>3 DEF Stages
<1>9. Apart'
  BY <1>1 DEF Apart
<1>10. \A q \in Procs \ {p} : ~ Holds(call[q]) /\ ~ Holds(call'[q])
  BY <1>1, <1>2, <1>4, OneOnFrame DEF Holds, FrameAts, SizeAts
<1>11. Resizing' /\ Resizes(p)'
  BY <1>3, <1>4 DEF Resizing, Resizes
<1>12. Memory'
  <2>1. \A q \in Procs : call'[q].at \in SizeAts => q = p
    BY <1>10 DEF Holds, FrameAts
  <2>2. QED
    BY <1>3, <1>4, <1>11, <2>1 DEF Memory
<1>13. FreshFrame'
  <2>1. \A q \in Procs : call'[q].at \notin {"clears", "sets", "frees"}
    BY <1>3, <1>4, <1>10 DEF Holds, FrameAts, SizeAts
  <2>2. QED
    BY <2>1 DEF FreshFrame
<1>14. FreshWindow'
  <2>1. \A q \in Procs : call'[q].at = "copies" => call'[q] = call[q]
    BY <1>3, <1>4
  <2>2. QED
    BY <1>5, <1>11, <2>1 DEF FrameInv, FreshWindow, Fresh
<1>15. FreshApart'
  <2>1. \A q \in Procs :
          /\ OnFrame(q)' => OnFrame(q)
          /\ call'[q].at = "copies" => call[q].at = "copies"
    BY <1>2, <1>3, <1>4 DEF OnFrame
  <2>2. QED
    BY <1>5, <2>1 DEF FrameInv, FreshApart, Fresh
<1>16. WindowsInv'
  <2>1. \A q \in Procs : Sets(call'[q]) => overtaken'[q]
    BY <1>3, <1>4, <1>5 DEF Sets, Fields
  <2>2. \A q \in Procs, f \in Files :
          /\ Storing(q, f)' <=> Storing(q, f)
          /\ Writing(q, f)' <=> Writing(q, f)
    BY <1>2, <1>3, <1>4 DEF Storing, Writing
  <2>3. Fitting' /\ Stored'
    BY <2>1 DEF Fitting, Stored, Fresh, Storing, Sets, Fields
  <2>4. Mixed'
    BY <1>1, <2>2 DEF WindowsInv, Mixed
  <2>5. Looked'
    BY <1>3, <1>4, <1>10 DEF Looked, AtFile, Holds, FrameAts, SizeAts
  <2>6. RestCropped'
    BY <1>11 DEF RestCropped
  <2>7. DueLater'
    BY <1>1, <1>2, <1>10 DEF WindowsInv, DueLater, Crops, Holds, FrameAts, SizeAts
  <2>8. QED
    BY <2>3, <2>4, <2>5, <2>6, <2>7 DEF WindowsInv
<1>17. QED
  BY <1>6, <1>7, <1>8, <1>9, <1>12, <1>13, <1>14, <1>15, <1>16 DEF FrameInv

LEMMA FreeKeeps ==
  ASSUME FrameInv, NEW p \in Procs, Free(p)
  PROVE  FrameInv'
<1>1. Typed /\ Stages
  BY DEF FrameInv
<1>2. call[p].at = "frees" /\ call[p].arg \in Sizes /\ call[p].arg \in AnySize
  BY <1>1, FrameBufferAssumption
     DEF Free, Stages, Arguments, SizeAts, FrameBufferAssumption, AnySize
<1>3. /\ dev' \in [width : Nat \ {0}, height : Nat \ {0}, op : Ops]
      /\ dev'.width = call[p].arg.width /\ dev'.height = dev.height /\ frame' = 0
  BY <1>1, <1>2 DEF Free, Typed, AnySize
<1>4. /\ \E s \in Sizes : dev'.width = s.width
      /\ \E s \in Sizes : dev'.height = s.height
  BY <1>1, <1>2, <1>3 DEF Typed
<1>5. /\ call' = [call EXCEPT ![p].at = "heightens"]
      /\ SizeChanges /\ UNCHANGED <<files, lock>>
  BY DEF Free
<1>6. QED
  BY <1>2, <1>3, <1>4, <1>5, SizeStep

LEMMA SetHeightKeeps ==
  ASSUME FrameInv, NEW p \in Procs, SetHeight(p)
  PROVE  FrameInv'
<1>1. Typed /\ Stages /\ Memory
  BY DEF FrameInv
<1>2. call[p].at = "heightens" /\ call[p].arg \in Sizes /\ call[p].arg \in AnySize
  BY <1>1, FrameBufferAssumption
     DEF SetHeight, Stages, Arguments, SizeAts, FrameBufferAssumption, AnySize
<1>3. call[p].arg.width = dev.width
  BY <1>1, <1>2 DEF Memory, SizeAts
<1>4. /\ dev' \in [width : Nat \ {0}, height : Nat \ {0}, op : Ops]
      /\ dev'.width = dev.width /\ dev'.height = call[p].arg.height
      /\ frame' \in Nat
  BY <1>1, <1>2 DEF SetHeight, Typed, AnySize
<1>5. /\ \E s \in Sizes : dev'.width = s.width
      /\ \E s \in Sizes : dev'.height = s.height
  BY <1>1, <1>2, <1>4 DEF Typed
<1>6. /\ call' = [call EXCEPT ![p].at = "resizes"]
      /\ SizeChanges /\ UNCHANGED <<files, lock>>
  BY DEF SetHeight
<1>7. QED
  BY <1>2, <1>3, <1>4, <1>5, <1>6, SizeStep

(* The memory is there again, and every open file will be cropped.         *)
LEMMA AllocateKeeps ==
  ASSUME FrameInv, NEW p \in Procs, Allocate(p)
  PROVE  FrameInv'
<1> DEFINE c == [call[p] EXCEPT !.at = "crops"]
<1>1. Typed /\ FilesInUse /\ Stages /\ Apart /\ Memory /\ WindowsInv /\ call[p] \in CallRecords
  BY DEF FrameInv, Typed
<1>2. /\ call[p].at = "resizes" /\ call[p].cursor = None
      /\ frame' = dev.width * dev.height /\ dev' = dev /\ lock' = lock
  BY <1>1 DEF Allocate, FilesInUse, InUse, AtFile
<1>3. /\ c \in CallRecords /\ c.at = "crops" /\ c.arg = call[p].arg /\ c.does = call[p].does
      /\ c.file = call[p].file /\ c.request = call[p].request
      /\ c.cursor = None /\ c.side = call[p].side
  BY <1>1, <1>2 DEF CallRecords, Ats
<1>4. /\ call' \in [Procs -> CallRecords] /\ call'[p] = c
      /\ \A q \in Procs \ {p} : call'[q] = call[q]
  BY <1>1, <1>3 DEF Allocate, Typed
<1> HIDE DEF c
<1>5. /\ overtaken' \in [Procs -> BOOLEAN]
      /\ \A q \in Procs : overtaken'[q] <=> overtaken[q] \/ call[q].at = "copies"
  BY <1>1 DEF Allocate, Typed
<1>6. /\ files' \in [Files -> FileRecords]
      /\ \A f \in Files :
           /\ files'[f].state = files[f].state /\ files'[f].active = files[f].active
           /\ files'[f].window = files[f].window /\ files'[f].askew = files[f].askew
           /\ files'[f].due <=> files[f].state = "open"
  <2>1. \A f \in Files : files[f] \in FileRecords
    BY <1>1 DEF Typed
  <2>2. \A f \in Files : (files[f].state = "open") \in BOOLEAN
    OBVIOUS
  <2>3. \A f \in Files :
          files'[f] = [files[f] EXCEPT !.due = (files[f].state = "open")]
    BY DEF Allocate
  <2>4. \A f \in Files : files'[f] \in FileRecords
    BY <2>1, <2>3 DEF FileRecords
  <2>5. files' \in [Files -> FileRecords]
    BY <2>4 DEF Allocate
  <2>6. QED
    BY <2>1, <2>3, <2>5 DEF FileRecords
<1>7. frame' \in Nat
  BY <1>1, <1>2 DEF Typed
<1>8. Typed'
  BY <1>1, <1>2, <1>4, <1>5, <1>6, <1>7 DEF Typed
<1>9. FilesInUse'
  <2>1. \A f \in Files : files'[f].active \/ files'[f].due => files'[f].state = "open"
    BY <1>1, <1>6 DEF FilesInUse
  <2>2. InUse(c, files) /\ c.at # "opens"
    BY <1>1, <1>2, <1>3 DEF FilesInUse, InUse, UsesFile, AtFile
  <2>3. QED
    BY <1>1, <1>3, <1>4, <1>6, <2>1, <2>2, UseStep
<1>10. Stages'
  <2>1. Arguments(c)
    BY <1>1, <1>2, <1>3 DEF Stages, Arguments, FrameAts, SizeAts, Fields
  <2>2. \A q \in Procs : Arguments(call'[q])
    BY <1>1, <1>4, <2>1 DEF Stages
  <2>3. Holds(c) /\ Holds(call[p]) /\ c.at \notin {"copies", "dead"}
    BY <1>2, <1>3 DEF Holds, FrameAts, SizeAts
  <2>4. QED
    BY <1>1, <1>2, <1>3, <1>4, <2>2, <2>3 DEF Stages
<1>11. Apart'
  BY <1>1, <1>2 DEF Apart
<1>12. \A q \in Procs \ {p} : ~ Holds(call[q]) /\ ~ Holds(call'[q])
  BY <1>1, <1>2, <1>4, OneOnFrame DEF Holds, FrameAts, SizeAts
<1>13. \A q \in Procs : ~ Resizes(q)' /\ ~ OnFrame(q)'
  BY <1>3, <1>4, <1>12 DEF Resizes, OnFrame, Holds, FrameAts, SizeAts
<1>14. Memory'
  <2>1. \A q \in Procs : call'[q].at \in SizeAts => q = p
    BY <1>12 DEF Holds, FrameAts
  <2>2. call[p].arg.width = dev.width /\ call[p].arg.height = dev.height
    BY <1>1, <1>2 DEF Memory, SizeAts
  <2>3. QED
    BY <1>2, <1>3, <1>4, <2>1, <2>2 DEF Memory
<1>15. FreshFrame' /\ FreshApart'
  BY <1>13 DEF FreshFrame, FreshApart, OnFrame
<1>16. FreshWindow'
  BY <1>3, <1>4, <1>5 DEF FreshWindow, Fresh
<1>17. WindowsInv'
  <2>1. \A w : Fits(w)' <=> Fits(w)
    BY <1>2 DEF Fits
  <2>2. \A q \in Procs : Sets(call'[q]) => call'[q] = call[q] /\ (Fresh(q)' => Fresh(q))
    BY <1>3, <1>4, <1>5 DEF Sets, Fields, Fresh
  <2>3. \A q \in Procs, f \in Files :
          /\ Storing(q, f)' <=> Storing(q, f)
          /\ Writing(q, f)' <=> Writing(q, f)
          /\ Storing(q, f) => Sets(call[q]) /\ Sets(call'[q])
    BY <1>2, <1>3, <1>4 DEF Storing, Writing, Sets, Fields
  <2>4. Fitting'
    BY <1>1, <2>1, <2>2 DEF WindowsInv, Fitting
  <2>5. Stored'
    BY <1>1, <1>6, <2>2, <2>3 DEF WindowsInv, Stored
  <2>6. Mixed'
    BY <1>1, <1>6, <2>3 DEF WindowsInv, Mixed
  <2>7. Looked'
    BY <1>3, <1>4, <1>12 DEF Looked, AtFile, Holds, FrameAts, SizeAts
  <2>8. RestCropped'
    BY <1>6 DEF RestCropped, AtRest
  <2>9. DueLater'
    BY <1>3, <1>4 DEF DueLater, Crops
  <2>10. QED
    BY <2>4, <2>5, <2>6, <2>7, <2>8, <2>9 DEF WindowsInv
<1>18. QED
  BY <1>8, <1>9, <1>10, <1>11, <1>14, <1>15, <1>16, <1>17 DEF FrameInv

-----------------------------------------------------------------------------
(* The cropping *)

LEMMA CropperAlone ==
  ASSUME Typed, FilesInUse, Stages, Apart, NEW p \in Procs, call[p].at \in Cropping
  PROVE  \A q \in Procs \ {p} :
           ~ AtFile(call[q]) /\ call[q].at \notin Cropping /\ call[q].cursor = None
<1>1. \A q \in Procs \ {p} : ~ Holds(call[q])
  BY OneOnFrame DEF Cropping, Holds, FrameAts, SizeAts
<1>2. \A q \in Procs \ {p} : ~ AtFile(call[q]) /\ call[q].at \notin Cropping
  BY <1>1 DEF AtFile, Cropping, Holds, FrameAts, SizeAts
<1>3. QED
  BY <1>2 DEF FilesInUse, InUse

(* A step of the cropping, from one of its stages to another. *)
LEMMA CropStep ==
  ASSUME FrameInv, NEW p \in Procs, NEW c \in CallRecords,
         call[p].at \in Cropping, c.at \in Cropping,
         c.file = call[p].file, c.arg = call[p].arg, c.does = call[p].does,
         c.request = call[p].request, c.at \in {"crops", "tests"} => c.side = "width",
         c.cursor = None <=> c.at = "crops",
         c.at # "crops" => files[c.cursor].state = "open",
         call' = [call EXCEPT ![p] = c], UNCHANGED <<dev, frame, lock>>,
         overtaken' \in [Procs -> BOOLEAN],
         \A q \in Procs : overtaken[q] => overtaken'[q],
         files' \in [Files -> FileRecords],
         \A f \in Files : /\ files'[f].state = files[f].state
                          /\ files'[f].active => files[f].active
                          /\ files'[f].due => files[f].due,
         \A q \in Procs :
           call[q].at = "copies" /\ ~ overtaken'[q] =>
             files'[call[q].file].window = files[call[q].file].window,
         WindowsInv'
  PROVE  FrameInv'
<1>1. Typed /\ FilesInUse /\ Stages
  BY DEF FrameInv
<1>2. /\ call' \in [Procs -> CallRecords] /\ call'[p] = c
      /\ \A q \in Procs \ {p} : call'[q] = call[q]
  BY <1>1 DEF Typed
<1>3. Typed'
  BY <1>1, <1>2 DEF Typed
<1>4. FilesInUse'
  <2>1. InUse(c, files) /\ c.at # "opens"
    BY <1>1 DEF FilesInUse, InUse, UsesFile, AtFile, Cropping
  <2>2. \A f \in Files : files'[f].active \/ files'[f].due => files'[f].state = "open"
    BY <1>1 DEF FilesInUse
  <2>3. QED
    BY <1>1, <1>2, <2>1, <2>2, UseStep
<1>5. Arguments(c)
  BY <1>1 DEF Stages, Arguments, Cropping, FrameAts, SizeAts, Fields
<1>6. Aside(call[p], call'[p])
  BY <1>2 DEF Aside
<1>7. QED
  BY <1>2, <1>3, <1>4, <1>5, <1>6, IdleStep

LEMMA NextFileKeeps ==
  ASSUME FrameInv, NEW p \in Procs, NEW f \in Files, NextFile(p, f)
  PROVE  FrameInv'
<1> DEFINE c == [call[p] EXCEPT !.at = "looks", !.cursor = f]
           mixes == \E q \in Procs : Storing(q, f)
<1>1. Typed /\ FilesInUse /\ Stages /\ Apart /\ WindowsInv /\ call[p] \in CallRecords
  BY DEF FrameInv, Typed
<1>2. /\ call[p].at = "crops" /\ call[p].cursor = None /\ call[p].side = "width"
      /\ files[f].due /\ files[f].state = "open"
      /\ UNCHANGED <<dev, frame, lock, overtaken>>
  BY <1>1 DEF NextFile, FilesInUse, InUse, AtFile, Stages, Arguments
<1>3. /\ c \in CallRecords /\ c.at = "looks" /\ c.cursor = f /\ c.arg = call[p].arg
      /\ c.file = call[p].file /\ c.does = call[p].does /\ c.request = call[p].request
      /\ c.side = "width"
  BY <1>1, <1>2 DEF CallRecords, Ats
<1>4. call' = [call EXCEPT ![p] = c]
  BY <1>1 DEF NextFile, Typed
<1> HIDE DEF c
<1>5. call'[p] = c /\ \A q \in Procs \ {p} : call'[q] = call[q]
  BY <1>1, <1>4 DEF Typed
<1>6. /\ files' \in [Files -> FileRecords]
      /\ files'[f] = [files[f] EXCEPT !.due = FALSE, !.askew = mixes]
      /\ \A g \in Files \ {f} : files'[g] = files[g]
  <2>1. mixes \in BOOLEAN
    OBVIOUS
  <2>2. files' = [files EXCEPT ![f].due = FALSE, ![f].askew = mixes]
    BY DEF NextFile
  <2> HIDE DEF mixes
  <2>3. QED
    BY <1>1, <2>1, <2>2 DEF Typed, FileRecords
<1>7. /\ files'[f].state = files[f].state /\ files'[f].active = files[f].active
      /\ files'[f].window = files[f].window /\ ~ files'[f].due
      /\ files'[f].askew = mixes
  BY <1>1, <1>6 DEF Typed, FileRecords
<1>8. \A q \in Procs \ {p} : ~ AtFile(call[q]) /\ call[q].cursor = None
  BY <1>1, <1>2, CropperAlone DEF Cropping
<1>9. \A q \in Procs, g \in Files :
        /\ Storing(q, g)' <=> Storing(q, g)
        /\ Storing(q, g) => q # p /\ call'[q] = call[q]
        /\ g # f => (Writing(q, g)' <=> Writing(q, g))
  BY <1>2, <1>3, <1>5, FrameBufferAssumption DEF Storing, Writing, FrameBufferAssumption
<1>10. WindowsInv'
  <2>1. Fitting'
    <3>1. \A w : Fits(w)' <=> Fits(w)
      BY <1>2 DEF Fits
    <3>2. \A q \in Procs : Sets(call'[q]) => call'[q] = call[q] /\ (Fresh(q)' => Fresh(q))
      BY <1>2, <1>3, <1>5 DEF Sets, Fields, Fresh
    <3>3. QED
      BY <1>1, <3>1, <3>2 DEF WindowsInv, Fitting
  <2>2. Stored'
    <3> SUFFICES ASSUME NEW q \in Procs, NEW g \in Files,
                        Storing(q, g)', Fresh(q)', ~ files'[g].askew
                 PROVE  Begun(call'[q].at, files'[g].window, call'[q].arg)
      BY DEF Stored
    <3>1. Storing(q, g) /\ call'[q] = call[q] /\ Fresh(q)
      BY <1>2, <1>9 DEF Fresh
    <3>2. g # f
      BY <1>7, <3>1
    <3>3. QED
      BY <1>1, <1>6, <3>1, <3>2 DEF WindowsInv, Stored
  <2>3. Mixed'
    <3> SUFFICES ASSUME NEW q \in Procs, NEW r \in Procs, NEW g \in Files, q # r,
                        Storing(q, g)', Writing(r, g)'
                 PROVE  files'[g].askew
      BY DEF Mixed
    <3>1. CASE g = f
      BY <1>7, <1>9, <3>1
    <3>2. CASE g # f
      BY <1>1, <1>6, <1>9, <3>2 DEF WindowsInv, Mixed
    <3>3. QED
      BY <3>1, <3>2
  <2>4. Looked'
    BY <1>3, <1>5, <1>8 DEF Looked, Seen
  <2>5. RestCropped'
    <3> SUFFICES ASSUME ~ Resizing', NEW g \in Files, AtRest(g)' PROVE Cropped(files[g].window)'
      BY DEF RestCropped
    <3>1. g # f
      BY <1>3, <1>5 DEF AtRest, Writing
    <3>2. AtRest(g) /\ files'[g] = files[g]
      BY <1>6, <1>9, <3>1 DEF AtRest
    <3>3. ~ Resizing
      BY <1>2, <1>5 DEF Resizing, Resizes
    <3>4. QED
      BY <1>1, <1>2, <3>2, <3>3 DEF WindowsInv, RestCropped, Cropped, Astray
  <2>6. DueLater'
    BY <1>3, <1>5 DEF DueLater, Crops
  <2>7. QED
    BY <2>1, <2>2, <2>3, <2>4, <2>5, <2>6 DEF WindowsInv
<1>11. \A g \in Files :
         /\ files'[g].state = files[g].state /\ files'[g].window = files[g].window
         /\ files'[g].active => files[g].active
         /\ files'[g].due => files[g].due
  BY <1>6, <1>7
<1>12. \A q \in Procs : call[q].at = "copies" =>
         files'[call[q].file].window = files[call[q].file].window
  BY <1>1, <1>11 DEF FilesInUse, InUse, UsesFile, Typed, CallRecords
<1>13. /\ c.cursor = None <=> c.at = "crops"
       /\ overtaken' \in [Procs -> BOOLEAN]
  BY <1>1, <1>2, <1>3, FrameBufferAssumption DEF FrameBufferAssumption, Typed
<1>14. QED
  BY <1>2, <1>3, <1>4, <1>6, <1>10, <1>11, <1>12, <1>13, CropStep DEF Cropping

(* The cropping stays at a file, and may write to its window. *)
LEMMA CursorWindows ==
  ASSUME FrameInv, NEW p \in Procs, NEW c, NEW f \in Files,
         AtFile(call[p]), call[p].cursor = f, AtFile(c), c.cursor = f, dev' = dev,
         call'[p] = c, \A q \in Procs \ {p} : call'[q] = call[q],
         \A q \in Procs : overtaken[q] => overtaken'[q],
         files'[f].state = files[f].state, files'[f].active = files[f].active,
         files'[f].due = files[f].due, files'[f].askew = files[f].askew,
         \A g \in Files \ {f} : files'[g] = files[g],
         files' # files => call[p].at = "cuts",
         ~ files[f].askew => Seen(c, files'[f].window)
  PROVE  WindowsInv'
<1>1. Typed /\ FilesInUse /\ Stages /\ Apart /\ WindowsInv
  BY DEF FrameInv
<1>2. \A q \in Procs \ {p} : ~ AtFile(call[q])
  BY <1>1, CropperAlone DEF Cropping, AtFile
<1>3. \A q \in Procs, g \in Files :
        /\ Storing(q, g)' <=> Storing(q, g)
        /\ Storing(q, g) => q # p /\ call'[q] = call[q]
        /\ Writing(q, g)' <=> Writing(q, g)
  BY DEF Storing, Writing, AtFile
<1>4. Writing(p, f) /\ Writing(p, f)'
  BY DEF Writing
<1>5. \A q \in Procs : Storing(q, f) => files[f].askew
  BY <1>1, <1>3, <1>4 DEF WindowsInv, Mixed
<1>6. \A q \in Procs : Fresh(q)' => Fresh(q)
  BY DEF Fresh
<1>7. Fitting'
  <2>1. \A w : Fits(w)' <=> Fits(w)
    BY DEF Fits
  <2>2. \A q \in Procs : Sets(call'[q]) => call'[q] = call[q]
    BY DEF Sets, Fields, AtFile
  <2>3. QED
    BY <1>1, <1>6, <2>1, <2>2 DEF WindowsInv, Fitting
<1>8. Stored'
  <2> SUFFICES ASSUME NEW q \in Procs, NEW g \in Files,
                      Storing(q, g)', Fresh(q)', ~ files'[g].askew
               PROVE  Begun(call'[q].at, files'[g].window, call'[q].arg)
    BY DEF Stored
  <2>1. Storing(q, g) /\ call'[q] = call[q] /\ Fresh(q) /\ g # f
    BY <1>3, <1>5, <1>6
  <2>2. QED
    BY <1>1, <2>1 DEF WindowsInv, Stored
<1>9. Mixed'
  <2>1. \A g \in Files : files'[g].askew = files[g].askew
    OBVIOUS
  <2>2. QED
    BY <1>1, <1>3, <2>1 DEF WindowsInv, Mixed
<1>10. Looked'
  BY <1>2 DEF Looked, AtCursor
<1>11. RestCropped'
  <2> SUFFICES ASSUME ~ Resizing', NEW g \in Files, AtRest(g)' PROVE Cropped(files[g].window)'
    BY DEF RestCropped
  <2>1. g # f
    BY <1>4 DEF AtRest
  <2>2. AtRest(g) /\ files'[g] = files[g]
    BY <1>3, <2>1 DEF AtRest
  <2>3. ~ Resizing
    BY DEF Resizing, Resizes, AtFile
  <2>4. QED
    BY <1>1, <2>2, <2>3 DEF WindowsInv, RestCropped, Cropped, Astray
<1>12. DueLater'
  BY DEF DueLater, Crops, AtFile
<1>13. QED
  BY <1>7, <1>8, <1>9, <1>10, <1>11, <1>12 DEF WindowsInv

(* What the cropping stands at. *)
LEMMA CursorType ==
  ASSUME FrameInv, NEW p \in Procs, AtFile(call[p])
  PROVE  /\ call[p].cursor \in Files /\ files[call[p].cursor].state = "open"
         /\ AtCursor(p) \in AnyWindow
         /\ call[p] \in CallRecords
         /\ call[p].arg \in AnySize /\ call[p].side \in {"width", "height"}
         /\ ~ files[call[p].cursor].askew => Seen(call[p], AtCursor(p))
<1>1. Typed /\ FilesInUse /\ Stages /\ Looked
  BY DEF FrameInv, WindowsInv
<1>2. call[p].cursor \in Files /\ files[call[p].cursor].state = "open" /\ call[p] \in CallRecords
  BY <1>1 DEF FilesInUse, InUse, Typed, CallRecords
<1>3. AtCursor(p) \in AnyWindow
  BY <1>1, <1>2 DEF AtCursor, Typed, FileRecords
<1>4. call[p].arg \in AnySize
  BY <1>1, FrameBufferAssumption
     DEF AtFile, Stages, Arguments, SizeAts, FrameBufferAssumption, AnySize
<1>5. QED
  BY <1>1, <1>2, <1>3, <1>4 DEF Looked, CallRecords

(* To the other side, or to the corner. *)
LEMMA OnwardEffect ==
  ASSUME NEW c \in CallRecords, AtFile(c)
  PROVE  /\ Onward(c) \in CallRecords /\ AtFile(Onward(c))
         /\ Onward(c).cursor = c.cursor /\ Onward(c).arg = c.arg /\ Onward(c).file = c.file
         /\ Onward(c).does = c.does /\ Onward(c).request = c.request
         /\ c.side = "width" => Onward(c).at = "looks" /\ Onward(c).side = "height"
         /\ c.side # "width" => Onward(c).at = "tests" /\ Onward(c).side = "width"
BY DEF Onward, CallRecords, Ats, AtFile

(* One side is in order now; so was the width, when it is the other. *)
LEMMA SeenOnward ==
  ASSUME NEW c \in CallRecords, AtFile(c), NEW w,
         c.side = "height" => Ends(w.x, w.width, c.arg.width),
         c.side = "width" => Ends(w.x, w.width, c.arg.width),
         c.side = "height" => Ends(w.y, w.height, c.arg.height)
  PROVE  Seen(Onward(c), w)
<1>1. c.side \in {"width", "height"}
  BY DEF CallRecords
<1>2. QED
  BY <1>1, OnwardEffect DEF Seen

LEMMA LookKeeps ==
  ASSUME FrameInv, NEW p \in Procs, Look(p)
  PROVE  FrameInv'
<1> DEFINE f == call[p].cursor
           w == AtCursor(p)
           s == call[p].arg
<1>1. /\ call[p].at = "looks" /\ AtFile(call[p])
      /\ UNCHANGED <<dev, frame, files, lock, overtaken>>
  BY DEF Look, AtFile
<1>2. /\ f \in Files /\ files[f].state = "open" /\ w \in AnyWindow /\ s \in AnySize
      /\ call[p] \in CallRecords /\ call[p].side \in {"width", "height"}
      /\ ~ files[f].askew => Seen(call[p], w)
  BY <1>1, CursorType
<1>3. /\ w.x \in Nat /\ w.y \in Nat /\ w.width \in Nat /\ w.height \in Nat
      /\ s.width \in Nat /\ s.height \in Nat
  BY <1>2 DEF AnyWindow, AnySize
<1>4. Typed /\ FilesInUse
  BY DEF FrameInv
<1>5. ASSUME NEW c \in CallRecords, call' = [call EXCEPT ![p] = c], AtFile(c),
             c.cursor = f, c.arg = s, c.file = call[p].file, c.does = call[p].does,
             c.request = call[p].request, c.at = "tests" => c.side = "width",
             ~ files[f].askew => Seen(c, w)
      PROVE  FrameInv'
  <2>1. call'[p] = c /\ \A q \in Procs \ {p} : call'[q] = call[q]
    BY <1>4, <1>5 DEF Typed
  <2>2. WindowsInv'
    BY <1>1, <1>2, <1>5, <2>1, CursorWindows DEF AtCursor
  <2>3. /\ overtaken' \in [Procs -> BOOLEAN] /\ files' \in [Files -> FileRecords]
        /\ f # None
    BY <1>1, <1>2, <1>4, FrameBufferAssumption DEF Typed, FrameBufferAssumption
  <2>4. c.at \in Cropping \ {"crops"} /\ call[p].at \in Cropping
    BY <1>1, <1>5 DEF AtFile, Cropping
  <2>5. QED
    BY <1>1, <1>2, <1>5, <2>2, <2>3, <2>4, CropStep
<1>6. CASE TooLong(p) /\ Enter(p, [call[p] EXCEPT !.at = "cuts", !.value = Cut(p)])
  <2> DEFINE c == [call[p] EXCEPT !.at = "cuts", !.value = Cut(p)]
  <2>1. Cut(p) \in Nat /\ Cut(p) = Room(call[p], w)
    <3>1. Corner(w, call[p].side) < Limit(p)
      BY <1>6 DEF TooLong
    <3>2. QED
      BY <1>2, <1>3, <3>1 DEF Cut, Corner, Limit, Room
  <2>2. /\ c \in CallRecords /\ c.at = "cuts" /\ c.value = Cut(p) /\ c.cursor = f /\ c.arg = s
        /\ c.file = call[p].file /\ c.does = call[p].does /\ c.request = call[p].request
        /\ c.side = call[p].side
    BY <1>2, <2>1 DEF CallRecords, Ats
  <2>3. call' = [call EXCEPT ![p] = c]
    BY <1>6 DEF Enter
  <2> HIDE DEF c
  <2>4. ~ files[f].askew => Seen(c, w)
    BY <1>1, <1>2, <2>1, <2>2 DEF Seen, Room
  <2>5. QED
    BY <1>5, <2>2, <2>3, <2>4 DEF AtFile
<1>7. CASE ~ TooLong(p) /\ Enter(p, Onward(call[p]))
  <2>1. /\ call[p].side = "width" => Ends(w.x, w.width, s.width)
        /\ call[p].side = "height" => Ends(w.y, w.height, s.height)
    BY <1>2, <1>3, <1>7 DEF TooLong, Corner, Length, Limit, Ends
  <2>2. ~ files[f].askew => Seen(Onward(call[p]), w)
    BY <1>1, <1>2, <2>1, SeenOnward DEF Seen
  <2>3. call' = [call EXCEPT ![p] = Onward(call[p])]
    BY <1>7 DEF Enter
  <2>4. QED
    BY <1>1, <1>2, <1>5, <2>2, <2>3, OnwardEffect
<1>8. QED
  BY <1>6, <1>7 DEF Look

LEMMA ShortenKeeps ==
  ASSUME FrameInv, NEW p \in Procs, Shorten(p)
  PROVE  FrameInv'
<1> DEFINE f == call[p].cursor
           w == AtCursor(p)
           s == call[p].arg
           side == call[p].side
           new == [files[f].window EXCEPT ![side] = call[p].value]
           c == Onward(call[p])
<1>1. call[p].at = "cuts" /\ AtFile(call[p]) /\ UNCHANGED <<dev, frame, lock>>
  BY DEF Shorten, AtFile
<1>2. /\ f \in Files /\ files[f].state = "open" /\ w \in AnyWindow /\ s \in AnySize
      /\ call[p] \in CallRecords /\ side \in {"width", "height"}
      /\ ~ files[f].askew => Seen(call[p], w)
  BY <1>1, CursorType
<1>3. /\ w.x \in Nat /\ w.y \in Nat /\ w.width \in Nat /\ w.height \in Nat
      /\ s.width \in Nat /\ s.height \in Nat /\ call[p].value \in Nat
  BY <1>2 DEF AnyWindow, AnySize, CallRecords
<1>4. Typed /\ FilesInUse /\ files[f] \in FileRecords /\ files[f].window = w
  BY <1>2 DEF FrameInv, Typed, AtCursor
<1>5. /\ new \in AnyWindow /\ new.x = w.x /\ new.y = w.y
      /\ side = "width" => new.width = call[p].value /\ new.height = w.height
      /\ side = "height" => new.height = call[p].value /\ new.width = w.width
  <2>1. CASE side = "width"
    BY <1>2, <1>3, <1>4, <2>1 DEF AnyWindow
  <2>2. CASE side = "height"
    BY <1>2, <1>3, <1>4, <2>2 DEF AnyWindow
  <2>3. QED
    BY <1>2, <2>1, <2>2
<1>6. files' = [files EXCEPT ![f].window = new]
  BY DEF Shorten
<1> HIDE DEF new
<1>7. /\ files' \in [Files -> FileRecords]
      /\ files'[f].window = new /\ files'[f].state = files[f].state
      /\ files'[f].active = files[f].active /\ files'[f].due = files[f].due
      /\ files'[f].askew = files[f].askew
      /\ \A g \in Files \ {f} : files'[g] = files[g]
  BY <1>2, <1>4, <1>5, <1>6 DEF Typed, FileRecords
<1>8. /\ overtaken' \in [Procs -> BOOLEAN]
      /\ \A q \in Procs :
           overtaken'[q] <=> overtaken[q] \/ (call[q].at = "copies" /\ call[q].file = f)
  BY <1>4 DEF Shorten, OvertakenBy, Typed
<1>9. /\ c \in CallRecords /\ AtFile(c) /\ c.cursor = f /\ c.arg = s
      /\ c.file = call[p].file /\ c.does = call[p].does /\ c.request = call[p].request
      /\ c.at = "tests" => c.side = "width"
  BY <1>1, <1>2, OnwardEffect
<1>10. ASSUME ~ files[f].askew PROVE Seen(c, new)
  <2>1. call[p].value = Room(call[p], w) /\ (side = "height" => Ends(w.x, w.width, s.width))
    BY <1>1, <1>2, <1>10 DEF Seen
  <2>2. /\ side = "width" => Ends(new.x, new.width, s.width)
        /\ side = "height" => Ends(new.y, new.height, s.height)
    BY <1>3, <1>5, <2>1 DEF Room, Ends
  <2>3. side = "height" => Ends(new.x, new.width, s.width)
    BY <1>5, <2>1
  <2>4. QED
    BY <1>1, <1>2, <2>2, <2>3, SeenOnward
<1>11. call' = [call EXCEPT ![p] = c]
  BY DEF Shorten, Enter
<1> HIDE DEF c
<1>12. call'[p] = c /\ \A q \in Procs \ {p} : call'[q] = call[q]
  BY <1>4, <1>11 DEF Typed
<1>13. WindowsInv'
  BY <1>1, <1>2, <1>7, <1>8, <1>9, <1>10, <1>12, CursorWindows
<1>14. ASSUME NEW q \in Procs, call[q].at = "copies", ~ overtaken'[q]
       PROVE  files'[call[q].file].window = files[call[q].file].window
  <2>1. call[q].file \in Files
    BY <1>4, <1>14 DEF FilesInUse, InUse, UsesFile, Typed, CallRecords
  <2>2. call[q].file # f
    BY <1>8, <1>14
  <2>3. QED
    BY <1>7, <2>1, <2>2
<1>15. c.at \in Cropping \ {"crops"} /\ call[p].at \in Cropping /\ f # None
  BY <1>1, <1>2, <1>9, FrameBufferAssumption DEF AtFile, Cropping, FrameBufferAssumption
<1>16. \A g \in Files : /\ files'[g].state = files[g].state
                        /\ files'[g].active => files[g].active
                        /\ files'[g].due => files[g].due
  BY <1>7
<1>17. QED
  BY <1>1, <1>2, <1>7, <1>8, <1>9, <1>11, <1>13, <1>14, <1>15, <1>16, CropStep

LEMMA TestKeeps ==
  ASSUME FrameInv, NEW p \in Procs, Test(p)
  PROVE  FrameInv'
<1> DEFINE f == call[p].cursor
           w == AtCursor(p)
           s == call[p].arg
           on == files[f].active /\ ~ Astray(w)
           c == [call[p] EXCEPT !.at = "crops", !.cursor = None]
<1>1. call[p].at = "tests" /\ AtFile(call[p]) /\ UNCHANGED <<dev, frame, lock, overtaken>>
  BY DEF Test, AtFile
<1>2. /\ f \in Files /\ files[f].state = "open" /\ w \in AnyWindow /\ s \in AnySize
      /\ call[p] \in CallRecords
      /\ ~ files[f].askew => Seen(call[p], w)
  BY <1>1, CursorType
<1>3. /\ Typed /\ FilesInUse /\ Stages /\ Apart /\ Memory /\ WindowsInv
      /\ files[f] \in FileRecords /\ files[f].window = w
  BY <1>2 DEF FrameInv, Typed, AtCursor
<1>4. /\ c \in CallRecords /\ c.at = "crops" /\ c.cursor = None /\ c.arg = s
      /\ c.file = call[p].file /\ c.does = call[p].does /\ c.request = call[p].request
      /\ c.side = "width"
  BY <1>1, <1>2, <1>3 DEF Stages, Arguments, CallRecords, Ats
<1>5. call' = [call EXCEPT ![p] = c]
  BY <1>3 DEF Test, Typed
<1> HIDE DEF c
<1>6. call'[p] = c /\ \A q \in Procs \ {p} : call'[q] = call[q]
  BY <1>3, <1>5 DEF Typed
<1>7. files' = [files EXCEPT ![f].active = on] /\ on \in BOOLEAN
  BY DEF Test
<1>8. (on => files[f].active) /\ (on => ~ Astray(w))
  OBVIOUS
<1> HIDE DEF on
<1>9. /\ files' \in [Files -> FileRecords]
      /\ files'[f].active = on /\ files'[f].state = files[f].state
      /\ files'[f].window = w /\ files'[f].due = files[f].due
      /\ files'[f].askew = files[f].askew
      /\ \A g \in Files \ {f} : files'[g] = files[g]
  BY <1>2, <1>3, <1>7 DEF Typed, FileRecords
<1>10. \A q \in Procs \ {p} : ~ AtFile(call[q])
  BY <1>1, <1>3, CropperAlone DEF Cropping
<1>11. \A q \in Procs, g \in Files :
        /\ Storing(q, g)' <=> Storing(q, g)
        /\ Storing(q, g) => q # p /\ call'[q] = call[q]
        /\ Writing(q, g)' => Writing(q, g)
        /\ g # f => (Writing(q, g)' <=> Writing(q, g))
  BY <1>1, <1>4, <1>6, FrameBufferAssumption DEF Storing, Writing, FrameBufferAssumption
<1>12. WindowsInv'
  <2>1. Fitting'
    <3>1. \A v : Fits(v)' <=> Fits(v)
      BY <1>1 DEF Fits
    <3>2. \A q \in Procs : Sets(call'[q]) => call'[q] = call[q] /\ (Fresh(q)' => Fresh(q))
      BY <1>1, <1>4, <1>6 DEF Sets, Fields, Fresh
    <3>3. QED
      BY <1>3, <3>1, <3>2 DEF WindowsInv, Fitting
  <2>2. \A g \in Files : files'[g].window = files[g].window /\ files'[g].askew = files[g].askew
    BY <1>3, <1>9
  <2>3. Stored'
    BY <1>1, <1>3, <1>11, <2>2 DEF WindowsInv, Stored, Fresh
  <2>4. Mixed'
    BY <1>3, <1>11, <2>2 DEF WindowsInv, Mixed
  <2>5. Looked'
    BY <1>4, <1>6, <1>10 DEF Looked, AtFile
  <2>6. RestCropped'
    <3> SUFFICES ASSUME NEW g \in Files, AtRest(g)' PROVE Cropped(files[g].window)'
      BY DEF RestCropped
    <3>1. CASE g # f
      <4>1. AtRest(g) /\ files'[g] = files[g]
        BY <1>9, <1>11, <3>1 DEF AtRest
      <4>2. ~ Resizing
        <5>1. \A q \in Procs : Holds(call[q]) => q = p
          BY <1>1, <1>3, OneOnFrame DEF Holds, FrameAts, SizeAts
        <5>2. QED
          BY <1>1, <5>1 DEF Resizing, Resizes, Holds, FrameAts, SizeAts
      <4>3. QED
        BY <1>1, <1>3, <4>1, <4>2 DEF WindowsInv, RestCropped, Cropped, Astray
    <3>2. CASE g = f
      <4>1. ~ files[f].askew /\ ~ Astray(w)
        BY <1>8, <1>9, <3>2 DEF AtRest
      <4>2. Ends(w.x, w.width, s.width) /\ Ends(w.y, w.height, s.height)
        BY <1>1, <1>2, <4>1 DEF Seen
      <4>3. s.width = dev.width /\ s.height = dev.height
        BY <1>1, <1>3 DEF Memory, SizeAts
      <4>4. Cropped(w)
        BY <4>1, <4>2, <4>3 DEF Cropped, Ends
      <4>5. QED
        BY <1>1, <1>9, <3>2, <4>4 DEF Cropped, Astray
    <3>3. QED
      BY <3>1, <3>2
  <2>7. DueLater'
    BY <1>4, <1>6 DEF DueLater, Crops
  <2>8. QED
    BY <2>1, <2>3, <2>4, <2>5, <2>6, <2>7 DEF WindowsInv
<1>13. \A g \in Files : /\ files'[g].state = files[g].state /\ files'[g].window = files[g].window
                        /\ files'[g].active => files[g].active
                        /\ files'[g].due => files[g].due
  BY <1>3, <1>8, <1>9
<1>14. \A q \in Procs : call[q].at = "copies" =>
         files'[call[q].file].window = files[call[q].file].window
  BY <1>3, <1>13 DEF FilesInUse, InUse, UsesFile, Typed, CallRecords
<1>15. overtaken' \in [Procs -> BOOLEAN] /\ \A q \in Procs : overtaken[q] => overtaken'[q]
  BY <1>1, <1>3 DEF Typed
<1>16. c.at \in Cropping /\ call[p].at \in Cropping /\ (c.cursor = None <=> c.at = "crops")
  BY <1>1, <1>4 DEF Cropping
<1>17. QED
  BY <1>1, <1>4, <1>5, <1>9, <1>12, <1>13, <1>14, <1>15, <1>16, CropStep

LEMMA EndOfListKeeps ==
  ASSUME FrameInv, NEW p \in Procs, EndOfList(p)
  PROVE  FrameInv'
BY LeaveStep DEF EndOfList, FrameInv, Typed

-----------------------------------------------------------------------------
(* The invariant holds always *)

LEMMA InitKeeps == Init => FrameInv
<1> SUFFICES ASSUME Init PROVE FrameInv
  OBVIOUS
<1>1. PICK s \in Sizes, op \in Ops :
        /\ dev = [width |-> s.width, height |-> s.height, op |-> op]
        /\ frame = s.width * s.height
  BY DEF Init
<1>2. s \in AnySize /\ s = [width |-> s.width, height |-> s.height]
  BY FrameBufferAssumption DEF FrameBufferAssumption, AnySize
<1>3. Closed \in FileRecords /\ Closed.state = "closed" /\ ~ Closed.active /\ ~ Closed.due
  BY DEF Closed, FileRecords, Window, AnyWindow
<1>4. /\ \A f \in Files : files[f] = Closed
      /\ \A p \in Procs : call[p] = User /\ lock[p] = None
  BY DEF Init
<1>5. Typed
  <2>1. dev \in [width : Nat \ {0}, height : Nat \ {0}, op : Ops] /\ frame \in Nat
    BY <1>1, <1>2 DEF AnySize
  <2>2. dev.width = s.width /\ dev.height = s.height
    BY <1>1
  <2>3. QED
    BY <1>3, <2>1, <2>2, UserType DEF Init, Typed
<1>6. FilesInUse
  BY <1>3, <1>4, UserInUse DEF FilesInUse
<1>7. Stages /\ Apart
  BY <1>4, UserInUse DEF Stages, Apart, Holds, FrameAts, SizeAts
<1>8. Memory
  <2>1. dev.width = s.width /\ dev.height = s.height
    BY <1>1
  <2>2. QED
    BY <1>1, <1>4, <2>1, UserInUse DEF Memory, SizeAts
<1>9. FreshFrame /\ FreshWindow /\ FreshApart
  BY <1>4, UserInUse DEF FreshFrame, FreshWindow, FreshApart
<1>10. WindowsInv
  BY <1>3, <1>4, UserInUse
     DEF WindowsInv, Fitting, Stored, Mixed, Looked, RestCropped, DueLater, AtRest, AtFile,
         Storing, Sets, Fields
<1>11. QED
  BY <1>5, <1>6, <1>7, <1>8, <1>9, <1>10 DEF FrameInv

LEMMA StutterKeeps ==
  ASSUME FrameInv, UNCHANGED vars
  PROVE  FrameInv'
<1>1. /\ UNCHANGED <<dev, frame, files, call, lock, overtaken>>
  BY DEF vars
<1>2. Typed' /\ FilesInUse'
  BY <1>1 DEF FrameInv, Typed, FilesInUse
<1>3. /\ \A q \in Procs : QuietCall(q) /\ (Crops(q) => Crops(q)')
      /\ \A f \in Files : QuietFile(f)
      /\ Resizing' <=> Resizing
  BY <1>1 DEF QuietCall, QuietFile, Crops, Resizing, Resizes
<1>4. WindowsInv'
  BY <1>1, <1>2, <1>3, QuietWindows DEF FrameInv
<1>5. QED
  BY <1>1, <1>2, <1>4, IdleStep

LEMMA StepKeeps ==
  ASSUME FrameInv, NEW p \in Procs, Steps(p)
  PROVE  FrameInv'
<1>1. ASSUME NEW offset \in 0 .. MaxOffset, NEW count \in Counts, Start(p, offset, count)
      PROVE  FrameInv'
  <2>1. offset \in Nat /\ count \in Nat \ {0}
    BY FrameBufferAssumption DEF FrameBufferAssumption
  <2>2. QED
    BY <1>1, <2>1, StartKeeps
<1>2. QED
  BY <1>1, ListAddKeeps, AssignKeeps, InterruptedKeeps, CopyKeeps, LockFrameKeeps,
     ClearKeeps, SetOpKeeps, FreeKeeps, SetHeightKeeps, AllocateKeeps, NextFileKeeps,
     LookKeeps, ShortenKeeps, TestKeeps, EndOfListKeeps DEF Steps

LEMMA CallsKeep ==
  ASSUME FrameInv, NEW p \in Procs, NEW f \in Files, Calls(p, f)
  PROVE  FrameInv'
<1>1. CASE Open(p, f)
  BY <1>1, OpenKeeps
<1>2. CASE \E w \in Windows : SETWINDOW(p, f, w)
  BY <1>2, SETWINDOWKeeps
<1>3. CASE \E does \in {"read", "write", "RESET"} : Ask(p, f, does, None)
  BY <1>3, AskKeeps DEF FrameKinds
<1>4. CASE \E s \in Sizes : Ask(p, f, "SETSIZE", s)
  BY <1>4, AskKeeps, FrameBufferAssumption DEF FrameKinds, FrameBufferAssumption, AnySize
<1>5. CASE \E op \in Ops : Ask(p, f, "SETOP", op)
  BY <1>5, AskKeeps DEF FrameKinds
<1>6. QED
  BY <1>1, <1>2, <1>3, <1>4, <1>5 DEF Calls

LEMMA FrameAlways == Spec => []FrameInv
<1>1. Init => FrameInv
  BY InitKeeps
<1>2. FrameInv /\ [Next]_vars => FrameInv'
  BY StutterKeeps, StepKeeps, CallsKeep, ReleaseKeeps DEF Next
<1>3. QED
  BY <1>1, <1>2, PTL DEF Spec

-----------------------------------------------------------------------------
(* Theorems *)

(* The state of the driver has its types, a lock is held exactly while the *)
(* frame is worked on, or for ever by a call that died, and only SETSIZE   *)
(* leaves the frame without memory (main.c:77-350).                        *)
THEOREM TypeCorrect == Spec => []TypeOK
<1>1. FrameInv => TypeOK
  <2> SUFFICES ASSUME FrameInv PROVE TypeOK
    OBVIOUS
  <2>1. Typed /\ FilesInUse /\ Stages /\ Memory /\ DueLater
    BY DEF FrameInv, WindowsInv
  <2>2. /\ dev \in [width : {s.width : s \in Sizes}, height : {s.height : s \in Sizes}, op : Ops]
        /\ overtaken \in [Procs -> BOOLEAN]
    BY <2>1 DEF Typed
  <2>3. ASSUME NEW f \in Files
        PROVE  /\ files[f].state \in {"closed", "opening", "open"}
               /\ files[f].active => files[f].state = "open"
               /\ files[f].due => files[f].state = "open" /\ \E p \in Procs : Crops(p)
               /\ files[f].window \in [x : Nat, y : Nat, width : Nat, height : Nat]
    BY <2>1 DEF Typed, FilesInUse, FileRecords, AnyWindow, DueLater
  <2>4. ASSUME NEW p \in Procs
        PROVE  /\ \/ call[p].at \in {"user", "opens", "asks", "copies", "dead"} \cup Fields
                  \/ OnFrame(p)
                  \/ Crops(p)
               /\ lock[p] # None <=> call[p].at \in {"copies", "dead"} \/ OnFrame(p) \/ Crops(p)
               /\ call[p].file # None => files[call[p].file].state # "closed"
               /\ call[p].cursor # None => Crops(p) /\ files[call[p].cursor].state = "open"
    <3>1. call[p].at \in Ats
      BY <2>1 DEF Typed, CallRecords
    <3>2. Holds(call[p]) <=> OnFrame(p) \/ Crops(p)
      BY DEF Holds, FrameAts, SizeAts, OnFrame, Crops
    <3>3. lock[p] # None <=> call[p].at \in {"copies", "dead"} \/ OnFrame(p) \/ Crops(p)
      BY <2>1, <3>2 DEF Stages
    <3>4. call[p].file # None => files[call[p].file].state # "closed"
      BY <2>1 DEF FilesInUse, InUse
    <3>5. call[p].cursor # None => Crops(p) /\ files[call[p].cursor].state = "open"
      BY <2>1 DEF FilesInUse, InUse, AtFile, Crops
    <3>6. QED
      BY <3>1, <3>3, <3>4, <3>5 DEF Ats, OnFrame, Crops, Fields
  <2>5. \/ frame = dev.width * dev.height
        \/ \E p \in Procs : Resizes(p)
    BY <2>1 DEF Memory, Resizing
  <2>6. QED
    BY <2>2, <2>3, <2>4, <2>5 DEF TypeOK
<1>2. QED
  BY <1>1, FrameAlways, PTL

(* Two calls are never at the same pixel, one of them to write it, nor one *)
(* at a pixel and another at the whole frame, unless one was overtaken     *)
(* between the computation of its area and its end (main.c:87-131,         *)
(* 146-212, 266-311).                                                      *)
THEOREM AccessesStayExclusive == Spec => []AccessesExclude
<1>1. FrameInv => AccessesExclude
  <2> SUFFICES ASSUME FrameInv, NEW p \in Procs, NEW q \in Procs, p # q, Collide(p, q),
                      ~ overtaken[p], ~ overtaken[q]
               PROVE  FALSE
    BY DEF AccessesExclude
  <2>1. Typed /\ FilesInUse /\ Stages /\ Apart /\ FreshWindow /\ FreshApart
    BY DEF FrameInv
  <2>2. CASE OnFrame(p) /\ OnFrame(q)
    BY <2>1, <2>2, OneOnFrame DEF OnFrame, Holds, FrameAts, SizeAts
  <2>3. CASE OnFrame(p) /\ OnPixel(q)
    BY <2>1, <2>3 DEF FreshApart, Fresh, OnPixel
  <2>4. CASE /\ OnPixel(p) /\ OnPixel(q)
             /\ call[p].place.frow = call[q].place.frow
             /\ call[p].place.fcol = call[q].place.fcol
             /\ {call[p].does, call[q].does} # {"read"}
    <3> DEFINE row == call[p].place.frow
               col == call[p].place.fcol
    <3>1. ASSUME NEW r \in Procs, OnPixel(r), ~ overtaken[r]
          PROVE  /\ lock[r] \in Requests
                 /\ lock[r].area.left <= call[r].place.fcol
                 /\ call[r].place.fcol <= lock[r].area.right
                 /\ lock[r].area.top <= call[r].place.frow
                 /\ call[r].place.frow <= lock[r].area.bottom
                 /\ call[r].place \in Places
                 /\ call[r].does \in {"read", "write"}
                 /\ call[r].does = "write" => lock[r].type = "write"
      <4> DEFINE w == files[call[r].file].window
      <4>1. call[r].at = "copies"
        BY <3>1 DEF OnPixel
      <4>2. w \in AnyWindow
        BY <2>1, <4>1 DEF FilesInUse, InUse, UsesFile, Typed, CallRecords, FileRecords
      <4>3. /\ lock[r] = call[r].request /\ lock[r] \in Requests
            /\ call[r].place \in Places /\ call[r].does \in {"read", "write"}
            /\ call[r].does = "write" => lock[r].type = "write"
        BY <2>1, <4>1 DEF Stages, Arguments
      <4>4. lock[r].area = Edges(w) /\ WithinWindow(call[r].place, w)
        BY <2>1, <3>1, <4>1 DEF FreshWindow, Fresh
      <4>5. QED
        BY <4>2, <4>3, <4>4, PlaceInEdges
    <3>2. row \in Int /\ col \in Int
      BY <2>4, <3>1 DEF Places
    <3>3. lock[p].area \in Rectangle /\ lock[q].area \in Rectangle
      BY <2>4, <3>1 DEF Requests, Areas
    <3>4. Intersects(lock[p].area, lock[q].area)
      BY <2>4, <3>1, <3>2, <3>3, PointInBoth
    <3>5. lock[p].type = "write" \/ lock[q].type = "write"
      BY <2>4, <3>1
    <3>6. Blocks(lock[p], lock[q])
      BY <3>4, <3>5 DEF Blocks
    <3>7. QED
      BY <2>1, <2>4, <3>1, <3>6, RequestIsLock DEF Apart
  <2>5. QED
    BY <2>2, <2>3, <2>4 DEF Collide
<1>2. QED
  BY <1>1, FrameAlways, PTL

(* Memory that is not the frame's is touched or freed only by a call that  *)
(* was overtaken, or while a SETSIZE that was is at work (main.c:102-121,  *)
(* 168-203, 283-291).                                                      *)
THEOREM FrameStaysSafe == Spec => []FrameSafe
<1>1. FrameInv => FrameSafe
  <2> SUFFICES ASSUME FrameInv, NEW p \in Procs, Faults(p), ~ overtaken[p],
                      \A q \in Procs : Resizes(q) => ~ overtaken[q]
               PROVE  FALSE
    BY DEF FrameSafe
  <2>1. Typed /\ Stages /\ Apart /\ Memory /\ FreshApart
    BY DEF FrameInv
  <2>2. CASE OnPixel(p) /\ call[p].place.frow * dev.width + call[p].place.fcol >= frame
    <3>1. ~ Resizing
      BY <2>1, <2>2 DEF Resizing, Resizes, OnPixel, OnFrame, FreshApart, Fresh
    <3>2. call[p].place \in Places /\ InFrame(call[p].place)
      BY <2>1, <2>2 DEF OnPixel, Stages, Arguments
    <3>3. call[p].place.frow * dev.width + call[p].place.fcol < dev.width * dev.height
      BY <2>1, <3>2, PixelInMemory
    <3>4. frame = dev.width * dev.height /\ frame \in Nat
      BY <2>1, <3>1 DEF Memory, Typed
    <3>5. call[p].place.frow * dev.width + call[p].place.fcol \in Nat
      BY <2>1, <3>2 DEF Places, Typed
    <3>6. QED
      BY <2>2, <3>3, <3>4, <3>5
  <2>3. ASSUME call[p].at \in {"clears", "frees"} PROVE frame = dev.width * dev.height
    <3>1. ~ Resizing
      BY <2>1, <2>3, OneOnFrame DEF Resizing, Resizes, Holds, FrameAts, SizeAts
    <3>2. QED
      BY <2>1, <3>1 DEF Memory
  <2>4. frame \in Nat /\ dev.width \in Nat \ {0} /\ dev.height \in Nat \ {0}
    BY <2>1 DEF Typed
  <2>5. dev.width * dev.height \in Nat \ {0}
    BY <2>4
  <2>6. QED
    BY <2>2, <2>3, <2>4, <2>5 DEF Faults
<1>2. QED
  BY <1>1, FrameAlways, PTL

(* An active window of an open file is within the frame, or begins just   *)
(* at its edge, while no SETSIZE is between its vfree and its end and no   *)
(* SETWINDOW has stored a part of it; unless the size was replaced between *)
(* the check of the SETWINDOW, or the look of the open, that it came from  *)
(* and the end of that call, or two calls wrote to the window at a time    *)
(* (main.c:220-233, 325-331).                                              *)
THEOREM WindowsStayCropped == Spec => []WindowsCropped
<1>1. FrameInv => WindowsCropped
  <2> SUFFICES ASSUME FrameInv, NEW f \in Files,
                      files[f].state = "open", files[f].active, ~ files[f].askew,
                      \A p \in Procs : ~ Resizes(p) /\ ~ Crops(p) /\ ~ Storing(p, f)
               PROVE  Cropped(files[f].window)
    BY DEF WindowsCropped
  <2>1. FilesInUse /\ RestCropped /\ DueLater
    BY DEF FrameInv, WindowsInv
  <2>2. ~ files[f].due
    BY <2>1 DEF DueLater
  <2>3. \A p \in Procs : call[p].cursor = None
    BY <2>1 DEF FilesInUse, InUse, AtFile, Crops
  <2>4. AtRest(f)
    BY <2>2, <2>3, FrameBufferAssumption DEF AtRest, Writing, FrameBufferAssumption
  <2>5. QED
    BY <2>1, <2>4 DEF RestCropped, Resizing
<1>2. QED
  BY <1>1, FrameAlways, PTL
=============================================================================
