--------------------------- MODULE MCSynchronize ---------------------------
(* Model of Synchronize: a directory d with an entry x in it, and an entry *)
(* g beside it.  Two files differ only in their contents, and two links    *)
(* only in their targets, which are as long.                               *)
EXTENDS Synchronize

d == <<"d">>
x == <<"d", "x">>
g == <<"g">>

MCPaths == {d, x, g}

File(t, n, w) == [kind |-> "file", time |-> t, size |-> n, what |-> w]
ALink(t, w)   == [kind |-> "link", time |-> t, size |-> 1, what |-> w]
Longer(t, w)  == [kind |-> "link", time |-> t, size |-> 2, what |-> w]

MCHolds ==
  (d :> {None, Dir, File(1, 1, "u")}) @@
  (x :> {None, File(2, 1, "v"), ALink(1, "a"), ALink(2, "b")}) @@
  (g :> {None, File(1, 1, "u"), File(1, 1, "v"), File(1, 2, "w"), File(2, 1, "v"),
         ALink(1, "a"), ALink(1, "b"), Longer(1, "dir"), ALink(2, "b")})
=============================================================================
