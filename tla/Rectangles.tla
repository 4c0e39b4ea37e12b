----------------------------- MODULE Rectangles -----------------------------
(***************************************************************************)
(* When two rectangles of a map meet and when two locks on them exclude    *)
(* each other, as the region lock server (hw2.cpp) and the map lock system *)
(* calls (maplock536.c) compute it.  Coordinates are integers; the server  *)
(* has doubles, on which the same comparisons are made.                    *)
(***************************************************************************)
EXTENDS Integers

(* A rectangle, by its edges, which belong to it. *)
Rectangle == [left : Int, right : Int, top : Int, bottom : Int]

(* An operator whose comment begins with "Slip:" is a mistake the code     *)
(* could have made in the definition that follows it; no specification     *)
(* uses it.                                                                *)

(* Slip: an interval that covers the other is forgotten. *)
MeetsAtEnds(min, max, rmin, rmax) ==
  \/ rmin >= min /\ rmin <= max
  \/ rmax >= min /\ rmax <= max

(* How the interval from rmin to rmax lies to the one from min to max: it  *)
(* begins within it, covers it, or ends within it.                         *)
Meets(min, max, rmin, rmax) ==
  \/ rmin >= min /\ rmin <= max
  \/ rmin <= min /\ rmax >= max
  \/ rmax >= min /\ rmax <= max

Intersects(a, b) ==
  /\ Meets(a.left, a.right, b.left, b.right)
  /\ Meets(a.top, a.bottom, b.top, b.bottom)

(* The lock a, which is held, keeps the request b from being granted. *)
Blocks(a, b) ==
  Intersects(a.area, b.area) /\ (a.type = "write" \/ b.type = "write")

(* The edges are the right way round: width and height are not negative.   *)
HasPoints(a) == a.left <= a.right /\ a.top <= a.bottom

(* What the comparisons stand for: a point of the map that lies in both. *)
SharePoint(a, b) ==
  /\ (a.left .. a.right) \cap (b.left .. b.right) # {}
  /\ (a.top .. a.bottom) \cap (b.top .. b.bottom) # {}
=============================================================================
