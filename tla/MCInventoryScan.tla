--------------------------- MODULE MCInventoryScan ---------------------------
(***************************************************************************)
(* Small trees for InventoryScan: a root r with directories a and b, two   *)
(* entries in a and one in b, which may be a second name of a file in a.   *)
(* The caps are the largest tree's needs, and each of them just below.     *)
(***************************************************************************)
EXTENDS InventoryScan

CONSTANTS r, a, b, a1, a2, b1, ir, ia, ib, i1, i2, i3

MCParent == a :> r @@ b :> r @@ a1 :> a @@ a2 :> a @@ b1 :> b
MCOrder  == <<r, a, a1, a2, b, b1>>

Plenty == [entries |-> 7, depth |-> 3, candidates |-> 6, inspect |-> 1, file |-> 2, directory |-> 4]
MCCaps == {Plenty, [Plenty EXCEPT !.entries = 3], [Plenty EXCEPT !.entries = 6],
           [Plenty EXCEPT !.depth = 1], [Plenty EXCEPT !.candidates = 1]}

\* Entry a1 is a file, a link, an empty directory or missing; b1 is missing,
\* a file or the second name of a2.
Shape(k, b1kind, shared, limits) ==
    [kind |-> r :> "dir" @@ a :> "dir" @@ b :> "dir" @@ a1 :> k @@ a2 :> "file" @@ b1 :> b1kind,
     ino |-> r :> ir @@ a :> ia @@ b :> ib @@ a1 :> i1 @@ a2 :> i2 @@ b1 :> IF shared THEN i2 ELSE i3,
     size |-> ir :> 1 @@ ia :> 1 @@ ib :> 1 @@ i1 :> 1 @@ i2 :> 2 @@ i3 :> 3,
     large |-> {i1}, mounts |-> {}, foreign |-> {}, table |-> TRUE, caps |-> limits]

Shapes == {Shape(k, "absent", FALSE, c) : k \in Kinds, c \in MCCaps}
     \cup {Shape(k, "file", FALSE, c) : k \in Kinds, c \in MCCaps}
     \cup {Shape(k, "file", TRUE, Plenty) : k \in Kinds}
Bounded == {[t EXCEPT !.mounts = {b}, !.foreign = {b}] : t \in {Shape("file", "file", FALSE, Plenty)}}
      \cup {[t EXCEPT !.foreign = {b}] : t \in {Shape("file", "file", FALSE, Plenty)}}
      \cup {[t EXCEPT !.table = FALSE] : t \in {Shape("file", "file", FALSE, Plenty)}}
MCTrees == Shapes \cup Bounded
=============================================================================
