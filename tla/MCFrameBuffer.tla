--------------------------- MODULE MCFrameBuffer ---------------------------
(* Model of FrameBuffer: a frame of one pixel and one of two rows of two;  *)
(* windows of a row, of its last pixel, and an empty one.  The first two   *)
(* mix to a window beyond the frame.                                       *)
EXTENDS FrameBuffer, TLC

MCSizes == {[width |-> 1, height |-> 1], [width |-> 2, height |-> 2]}
MCWindows == {Window(0, 0, 2, 1), Window(1, 0, 1, 1), Window(1, 0, 0, 1)}

(* A frame that grows, and a window in what is new of it. *)
GrowingSizes == {[width |-> 1, height |-> 1], [width |-> 3, height |-> 1]}
FarWindow == {Window(2, 0, 1, 1)}

MCSymmetry == Permutations(Procs) \cup Permutations(Files)
=============================================================================
