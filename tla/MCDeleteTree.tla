---------------------------- MODULE MCDeleteTree ----------------------------
(***************************************************************************)
(* Small machines for DeleteTree: a single file, an empty directory, a     *)
(* directory with two files, and one with a file and a subdirectory, next  *)
(* to one unrelated file the owner may move in.                            *)
(***************************************************************************)
EXTENDS DeleteTree

CONSTANTS base, r, s, a, b, x, cand, n1, n2

Unused == [n \in Names |-> NoInode]

File(k) == [kind |-> "file", own |-> 0, ver |-> 0, blocks |-> k]
Dir     == [kind |-> "dir", own |-> 0, ver |-> 0, blocks |-> 1]
Free    == [kind |-> "free", own |-> 0, ver |-> 0, blocks |-> 0]

\* The machine whose directories and files are the given functions.
Machine(dirs, files) ==
    [tree  |-> [i \in Inodes |-> IF i \in DOMAIN dirs THEN dirs[i] @@ Unused ELSE Unused],
     node  |-> [i \in Inodes |-> CASE i \in DOMAIN dirs  -> Dir
                                   [] i \in DOMAIN files -> File(files[i])
                                   [] OTHER              -> Free],
     alive |-> IF Procs = {} THEN {} ELSE {CHOOSE p \in Procs : TRUE},
     refs  |-> {}]

FileMachine  == Machine(base :> (cand :> a), a :> 1)
EmptyMachine == Machine(base :> (cand :> r) @@ r :> Unused, << >>)
FlatMachine  == Machine(base :> (cand :> r) @@ r :> (n1 :> a @@ n2 :> b), a :> 1 @@ b :> 1)
NestMachine  == Machine(base :> (cand :> r) @@ r :> (n1 :> a @@ n2 :> s) @@ s :> (n1 :> b),
                        a :> 1 @@ b :> 1)

MCHosts     == {FileMachine, EmptyMachine, FlatMachine, NestMachine}
MCProcHosts == {FileMachine, FlatMachine}
=============================================================================
