---------------------------- MODULE InventoryScan ----------------------------
(***************************************************************************)
(* scan of cleanup_agent/inventory.py: a depth-first walk with an explicit *)
(* stack that counts what lies below a root, adds directory sizes up from  *)
(* below and keeps the large files and directories as candidates.          *)
(*                                                                         *)
(* Every lstat and every listing of a directory is a step of its own; in   *)
(* between other programs move entries away, create them and let files     *)
(* grow.  Paths are fixed names; a path is bound to an inode or absent.    *)
(* What inspect finds of a candidate is the subject of DeleteTree.         *)
(***************************************************************************)
EXTENDS Integers, Sequences, FiniteSets, SequencesExt, FiniteSetsExt, TLC

CONSTANTS
    Paths, root,
    Parent,       \* Parent[p]: directory of p, for every path but the root
    Order,        \* the paths in their lexical order
    Inodes,
    Trees,        \* what may lie on the disk, with mounts and caps
    MaxChanges,   \* bound: changes of other programs
    MaxBytes      \* bound: blocks of an inode

Kinds == {"dir", "file", "link", "absent"}
Caps  == [entries : Nat \ {0}, depth : Nat \ {0}, candidates : Nat, inspect : Nat,
          file : Nat, directory : Nat]
\* large: inodes whose logical size reaches the file threshold.  table: the
\* mount table could be read.  foreign: directories on another device.
Tree  == [kind : [Paths -> Kinds], ino : [Paths -> Inodes], size : [Inodes -> 0..MaxBytes],
          large : SUBSET Inodes, mounts : SUBSET Paths, foreign : SUBSET Paths,
          table : BOOLEAN, caps : Caps]

ASSUME ScanAssumption ==
    /\ IsFiniteSet(Paths) /\ root \in Paths /\ Parent \in [Paths \ {root} -> Paths]
    /\ Order \in Seq(Paths) /\ ToSet(Order) = Paths /\ Len(Order) = Cardinality(Paths)
    /\ \A i, j \in DOMAIN Order : Order[j] # root /\ Parent[Order[j]] = Order[i] => i < j
    /\ \A t \in Trees :
          /\ t \in Tree /\ t.kind[root] = "dir"
          /\ \A p \in Paths \ {root} : t.kind[p] # "absent" => t.kind[Parent[p]] = "dir"
          \* a directory has one name
          /\ \A p, q \in Paths : t.kind[p] = "dir" /\ t.kind[q] # "absent" /\ t.ino[p] = t.ino[q] => p = q
    /\ MaxChanges \in Nat /\ MaxBytes \in Nat

Frame == [path : Paths, depth : Nat, post : BOOLEAN]

VARIABLES
    fs,       \* the tree now
    changes,  \* changes made so far
    touched,  \* history: paths and inodes other programs changed during the scan
    pc,       \* walk, enumerate (the directory at), rank, done
    stack,    \* [path, depth, post]
    at,       \* [path, depth] of the directory to enumerate
    dirs,     \* [bytes, entries] of each directory met
    counted,  \* entries lstat answered for
    bytes,    \* totals.allocated_bytes
    seen,     \* inodes of the regular files met
    records,  \* [path, ino, bytes, entries, kind] of everything large
    sparse,   \* inodes of sparse facts
    skipped,  \* [path, reason]
    result,   \* candidates with their evidence, when done
    visited   \* history: paths lstat answered for

scanVars == <<pc, stack, at, dirs, counted, bytes, seen, records, sparse, skipped, result, visited>>
vars     == <<fs, changes, touched, scanVars>>

caps == fs.caps

Below[p \in Paths] == {q \in Paths \ {root} : Parent[q] = p}
Above[p \in Paths] == IF p = root THEN {p} ELSE {p} \cup Above[Parent[p]]
Exists(p)  == fs.kind[p] # "absent"
\* A path is present while all directories on the way to it are.
Present    == {p \in Paths : \A q \in Above[p] : Exists(q)}
Entries(p) == Below[p] \cap Present

Status == IF skipped = {} /\ fs.table THEN "complete" ELSE "partial"

TypeOK ==
    /\ fs \in Tree /\ changes \in 0..MaxChanges /\ touched \subseteq Paths \cup Inodes
    /\ pc \in {"walk", "enumerate", "rank", "done"}
    /\ stack \in Seq(Frame) /\ at \in [path : Paths, depth : Nat]
    /\ DOMAIN dirs \subseteq Paths /\ dirs \in [DOMAIN dirs -> [bytes : Nat, entries : Nat]]
    /\ counted \in Nat /\ bytes \in Nat /\ seen \subseteq Inodes /\ sparse \subseteq Inodes
    /\ records \subseteq [path : Paths, ino : Inodes, bytes : Nat, entries : Nat, kind : {"dir", "file"}]
    /\ IsFiniteSet(records)
    /\ result \subseteq [record : records, inspected : BOOLEAN] /\ visited \subseteq Paths

Init ==
    /\ fs \in Trees /\ changes = 0 /\ touched = {} /\ pc = "walk"
    /\ stack = <<[path |-> root, depth |-> 0, post |-> FALSE]>> /\ at = [path |-> root, depth |-> 0]
    /\ dirs = [p \in {root} |-> [bytes |-> 0, entries |-> 0]]
    /\ counted = 0 /\ bytes = 0 /\ seen = {} /\ records = {} /\ sparse = {} /\ skipped = {}
    /\ result = {} /\ visited = {}

-----------------------------------------------------------------------------
(* The walk.                                                               *)

Top  == stack[Len(stack)]
Rest == SubSeq(stack, 1, Len(stack) - 1)
SkipQuietly(p, reason) == skipped' = skipped  \* mutated form: what is skipped leaves the scan complete
Skip(p, reason) == skipped' = skipped \cup {[path |-> p, reason |-> reason]}

Walking(post) == pc = "walk" /\ stack # <<>> /\ Top.post = post

PostOffByOne ==  \* mutated form: the directory itself is taken off
    /\ Walking(TRUE) /\ stack' = Rest
    /\ LET p == Top.path
           d == dirs[p]
       IN /\ dirs' = [dirs EXCEPT ![Parent[p]] = [bytes |-> @.bytes + d.bytes,
                                                  entries |-> @.entries + d.entries - 1]]
          /\ records' = IF d.bytes >= caps.directory /\ p \in Present
                        THEN records \cup {[path |-> p, ino |-> fs.ino[p], bytes |-> d.bytes,
                                            entries |-> d.entries + 1, kind |-> "dir"]}
                        ELSE records
    /\ UNCHANGED <<fs, changes, touched, pc, at, counted, bytes, seen, sparse, skipped, result, visited>>

PostUnsummed ==  \* mutated form: a sum does not reach the parent
    /\ Walking(TRUE) /\ stack' = Rest
    /\ LET p == Top.path
           d == dirs[p]
       IN /\ dirs' = [dirs EXCEPT ![Parent[p]] = [bytes |-> @.bytes,
                                                  entries |-> @.entries + d.entries + 1]]
          /\ records' = IF d.bytes >= caps.directory /\ p \in Present
                        THEN records \cup {[path |-> p, ino |-> fs.ino[p], bytes |-> d.bytes,
                                            entries |-> d.entries + 1, kind |-> "dir"]}
                        ELSE records
    /\ UNCHANGED <<fs, changes, touched, pc, at, counted, bytes, seen, sparse, skipped, result, visited>>

\* The second visit of a directory: its sum goes to its parent, and its
\* identity is read again when it is large.
Post ==
    /\ Walking(TRUE) /\ stack' = Rest
    /\ LET p == Top.path
           d == dirs[p]
       IN /\ dirs' = [dirs EXCEPT ![Parent[p]] = [bytes |-> @.bytes + d.bytes,
                                                  entries |-> @.entries + d.entries + 1]]
          /\ records' = IF d.bytes >= caps.directory /\ p \in Present
                        THEN records \cup {[path |-> p, ino |-> fs.ino[p], bytes |-> d.bytes,
                                            entries |-> d.entries + 1, kind |-> "dir"]}
                        ELSE records
    /\ UNCHANGED <<fs, changes, touched, pc, at, counted, bytes, seen, sparse, skipped, result, visited>>

StatFails ==
    /\ Walking(FALSE) /\ Top.path \notin Present /\ stack' = Rest /\ Skip(Top.path, "stat")
    /\ UNCHANGED <<fs, changes, touched, pc, at, dirs, counted, bytes, seen, records, sparse, result, visited>>

\* The first visit: lstat answers.
Stat(kind) ==
    /\ Walking(FALSE) /\ Top.path \in Present /\ fs.kind[Top.path] = kind
    /\ counted' = counted + 1 /\ visited' = visited \cup {Top.path}

\* Why the children of a directory are not looked at.
Barrier(p, depth) ==
    IF p # root /\ p \in fs.mounts THEN "mount_boundary"
    ELSE IF p # root /\ ~fs.table THEN "mount_visibility_unknown"
    ELSE IF p \in fs.foreign THEN "filesystem_boundary"
    ELSE IF depth >= caps.depth THEN "depth_budget_exhausted" ELSE "none"

StatDirectory ==
    /\ Stat("dir")
    /\ LET p     == Top.path
           size  == fs.size[fs.ino[p]]
           stop  == Barrier(p, Top.depth)
       IN /\ bytes' = bytes + size
          /\ dirs' = [q \in DOMAIN dirs \cup {p} |->
                        IF q \in DOMAIN dirs THEN dirs[q] ELSE [bytes |-> size, entries |-> 0]]
          /\ stack' = IF p = root THEN Rest ELSE Append(Rest, [Top EXCEPT !.post = TRUE])
          /\ IF stop = "none"
             THEN /\ pc' = "enumerate" /\ at' = [path |-> p, depth |-> Top.depth]
                  /\ UNCHANGED skipped
             ELSE Skip(p, stop) /\ UNCHANGED <<pc, at>>
    /\ UNCHANGED <<fs, changes, touched, seen, records, sparse, result>>

RoomForOne == caps.entries - counted  \* mutated form: what is queued already is forgotten

\* Room for children in the budget of entries.
Room == caps.entries - counted - Len(stack)

\* The directory lists its entries in any order; those the budget has no
\* room for are left out.
Enumerate ==
    /\ pc = "enumerate" /\ pc' = "walk"
    /\ \/ /\ at.path \in Present /\ fs.kind[at.path] = "dir"
          /\ LET all   == Entries(at.path)
                 taken == Max({0, Min({Room, Cardinality(all)})})
             IN \E S \in kSubset(taken, all) : \E order \in SetToSeqs(S) :
                  /\ stack' = stack \o [i \in 1..taken |-> [path |-> order[i], depth |-> at.depth + 1,
                                                            post |-> FALSE]]
                  /\ IF S = all THEN UNCHANGED skipped ELSE Skip(at.path, "entry_queue_budget_exhausted")
       \/ /\ ~(at.path \in Present /\ fs.kind[at.path] = "dir")
          /\ Skip(at.path, "enumerate") /\ UNCHANGED stack
    /\ UNCHANGED <<fs, changes, touched, at, dirs, counted, bytes, seen, records, sparse, result, visited>>

StatFileTwice ==  \* mutated form: every name adds the bytes of the file
    /\ Stat("file") /\ stack' = Rest
    /\ LET p     == Top.path
           i     == fs.ino[p]
           size  == fs.size[i]
           first == i \notin seen
       IN /\ bytes' = bytes + size
          /\ seen' = seen \cup {i}
          /\ dirs' = [dirs EXCEPT ![Parent[p]] = [bytes |-> IF first THEN @.bytes + size ELSE @.bytes,
                                                  entries |-> @.entries + 1]]
          /\ records' = IF first /\ size >= caps.file
                        THEN records \cup {[path |-> p, ino |-> i, bytes |-> size, entries |-> 1, kind |-> "file"]}
                        ELSE records
          /\ sparse' = IF first /\ size < caps.file /\ i \in fs.large THEN sparse \cup {i} ELSE sparse
    /\ UNCHANGED <<fs, changes, touched, pc, at, skipped, result>>

\* A further name of a file adds an entry but no bytes.
StatFile ==
    /\ Stat("file") /\ stack' = Rest
    /\ LET p     == Top.path
           i     == fs.ino[p]
           size  == fs.size[i]
           first == i \notin seen
       IN /\ bytes' = IF first THEN bytes + size ELSE bytes
          /\ seen' = seen \cup {i}
          /\ dirs' = [dirs EXCEPT ![Parent[p]] = [bytes |-> IF first THEN @.bytes + size ELSE @.bytes,
                                                  entries |-> @.entries + 1]]
          /\ records' = IF first /\ size >= caps.file
                        THEN records \cup {[path |-> p, ino |-> i, bytes |-> size, entries |-> 1, kind |-> "file"]}
                        ELSE records
          /\ sparse' = IF first /\ size < caps.file /\ i \in fs.large THEN sparse \cup {i} ELSE sparse
    /\ UNCHANGED <<fs, changes, touched, pc, at, skipped, result>>

StatLink ==
    /\ Stat("link") /\ stack' = Rest /\ bytes' = bytes + fs.size[fs.ino[Top.path]]
    /\ Skip(Top.path, "symlink_not_followed")
    /\ UNCHANGED <<fs, changes, touched, pc, at, dirs, seen, records, sparse, result>>

WalkDone ==
    /\ pc = "walk" /\ stack = <<>> /\ pc' = "rank"
    /\ UNCHANGED <<fs, changes, touched, stack, at, dirs, counted, bytes, seen, records, sparse, skipped,
                   result, visited>>

Position(p) == CHOOSE i \in DOMAIN Order : Order[i] = p
Larger(r, s) == r.bytes > s.bytes \/ (r.bytes = s.bytes /\ Position(r.path) < Position(s.path))
Place(r) == Cardinality({s \in records : Larger(s, r)})

\* The largest records become candidates, the first of them are inspected.
Rank ==
    /\ pc = "rank" /\ pc' = "done"
    /\ result' = {[record |-> r, inspected |-> Place(r) < caps.inspect] :
                    r \in {s \in records : Place(s) < caps.candidates}}
    /\ LET cut(n, reason) == IF n > caps.candidates THEN {[path |-> root, reason |-> reason]} ELSE {}
       IN skipped' = skipped \cup cut(Cardinality(records), "candidate_budget_exhausted")
                             \cup cut(Cardinality(sparse), "sparse_fact_budget_exhausted")
    /\ UNCHANGED <<fs, changes, touched, stack, at, dirs, counted, bytes, seen, records, sparse, visited>>

-----------------------------------------------------------------------------
(* Other programs.                                                         *)

Change == pc \in {"walk", "enumerate"} /\ changes < MaxChanges /\ changes' = changes + 1

\* p is moved out of the tree with all that lies below it.
MoveAway(p) ==
    /\ Change /\ p \in Present \ {root}
    /\ LET gone == {q \in Paths : p \in Above[q]}
       IN /\ fs' = [fs EXCEPT !.kind = [q \in Paths |-> IF q \in gone THEN "absent" ELSE @[q]]]
          /\ touched' = touched \cup gone \cup {fs.ino[q] : q \in gone \cap Present}
    /\ UNCHANGED scanVars

\* A new file or empty directory at p, or a new name of an existing file.
Appear(p, kind, i) ==
    /\ Change /\ p \in Paths \ (Present \cup {root}) /\ Parent[p] \in Present /\ fs.kind[Parent[p]] = "dir"
    /\ kind = "dir" => \A q \in Present : fs.ino[q] # i
    /\ \A q \in Present : fs.ino[q] = i => fs.kind[q] = "file"
    /\ fs' = [fs EXCEPT !.kind[p] = kind, !.ino[p] = i] /\ touched' = touched \cup {p, i}
    /\ UNCHANGED scanVars

Grow(i) ==
    /\ Change /\ fs.size[i] < MaxBytes /\ fs' = [fs EXCEPT !.size[i] = @ + 1]
    /\ touched' = touched \cup {i}
    /\ UNCHANGED scanVars

OtherPrograms ==
    \/ \E p \in Paths : MoveAway(p)
    \/ \E p \in Paths, kind \in {"file", "dir"}, i \in Inodes : Appear(p, kind, i)
    \/ \E i \in Inodes : Grow(i)

Scan == Post \/ StatFails \/ StatDirectory \/ Enumerate \/ StatFile \/ StatLink \/ WalkDone \/ Rank

Next == Scan \/ OtherPrograms

Spec == Init /\ [][Next]_vars

-----------------------------------------------------------------------------

\* The entries counted and those still queued never exceed max_entries, so
\* the check behind lstat (line 181) is never met and no listed entry is
\* dropped once it is on the stack.
WithinBudget ==
    counted + Cardinality({i \in DOMAIN stack : ~stack[i].post}) <= caps.entries

Blocks(S) == SumFunctionOnSet(fs.size, {fs.ino[p] : p \in S})
Subtree(p) == {q \in Present : p \in Above[q]}
Quiet == touched = {}

\* A complete scan that nobody disturbed counted every entry, and every
\* block once however many names its file has.
TotalsExact ==
    pc = "done" /\ Quiet /\ Status = "complete" => counted = Cardinality(Present) /\ bytes = Blocks(Present)

\* Nobody touched d, a directory above it, or anything in it.
Alone(d) == (Above[d] \cup {q \in Paths : d \in Above[q]} \cup {fs.ino[q] : q \in Subtree(d)}) \cap touched = {}

\* In a complete scan every directory nobody touched, with all that lies in
\* it, is a candidate exactly when it is large, with its identity, its true
\* size and its number of entries, whatever happens elsewhere.  When it
\* shares a file with the outside it is credited with no more than lies in it.
SizesExact ==
    pc = "done" /\ Status = "complete" =>
        \A d \in Present \ {root} : fs.kind[d] = "dir" =>
            LET mine  == {c.record : c \in {x \in result : x.record.path = d}}
                own   == Subtree(d)
                apart == \A q \in Present \ own : \A p \in own : fs.ino[p] # fs.ino[q]
            IN Alone(d) => /\ \A m \in mine : m.bytes <= Blocks(own)
                           /\ apart => mine = IF Blocks(own) < caps.directory THEN {}
                                              ELSE {[path |-> d, ino |-> fs.ino[d], bytes |-> Blocks(own),
                                                     entries |-> Cardinality(own), kind |-> "dir"]}

\* Whatever other programs do meanwhile, a scan that calls itself complete
\* has met every entry nobody touched, and each large file among them is a
\* candidate under one of its names.
NothingMissed ==
    pc = "done" /\ Status = "complete" =>
        \A p \in Present : Above[p] \cap touched = {} =>
            /\ p \in visited
            /\ fs.kind[p] = "file" /\ fs.ino[p] \notin touched /\ fs.size[fs.ino[p]] >= caps.file
               => \E c \in result : c.record.ino = fs.ino[p]
-----------------------------------------------------------------------------
(* What the properties rest on (module InventoryScanProofs).               *)

\* What exists lies in a directory, and a directory has one name.
TreeInv ==
    /\ fs.kind[root] = "dir"
    /\ \A p \in Paths \ {root} : Exists(p) => fs.kind[Parent[p]] = "dir"
    /\ \A p, q \in Paths : fs.kind[p] = "dir" /\ Exists(q) /\ fs.ino[p] = fs.ino[q] => p = q

\* A directory that is visited again was entered before.
StackInv ==
    /\ \A k \in DOMAIN stack : stack[k].post => stack[k].path \in DOMAIN dirs \ {root}
    /\ pc \in {"rank", "done"} => stack = <<>>

\* What nobody touched was met, or lies below a path that is still queued or
\* a directory that is about to be listed, or something was left out.
Queued       == {stack[k].path : k \in {j \in DOMAIN stack : ~stack[j].post}}
Untouched(p) == Above[p] \cap touched = {}
Awaited(p)   == \/ Above[p] \cap Queued # {}
                \/ pc = "enumerate" /\ p # at.path /\ at.path \in Above[p]
CoverInv ==
    skipped = {} => \A p \in Present : Untouched(p) => p \in visited \/ Awaited(p)

\* A file that was met is known, and a large one has its record, which is not
\* cut off in a complete scan.
RecordInv ==
    /\ \A p \in visited \ touched : fs.kind[p] = "file" => fs.ino[p] \in seen
    /\ \A i \in seen \ touched : fs.size[i] >= caps.file => \E r \in records : r.ino = i
    /\ pc = "done" /\ skipped = {} => records \subseteq {c.record : c \in result}

\* Directories that were entered and not left.
Open == {stack[k].path : k \in {j \in DOMAIN stack : stack[j].post}}

\* Every frame is on the stack once, and what lies in an open directory is
\* above it.
FrameOrder ==
    \A j, k \in DOMAIN stack :
        /\ stack[j].post = stack[k].post /\ stack[j].path = stack[k].path => j = k
        /\ stack[j].post /\ stack[j].path # stack[k].path /\ stack[j].path \in Above[stack[k].path] => j < k

\* Every path is queued once and met once, after the directory it lies in,
\* and a directory is open while an entry of it is open or queued.
Nesting ==
    /\ Queued \cap visited = {} /\ Open \subseteq visited \ {root} /\ DOMAIN dirs \subseteq visited \cup {root}
    /\ \A q \in Open \cup Queued : q = root \/ Parent[q] \in Open \cup {root}
    /\ \A q \in (visited \cup Queued) \ {root} :
          /\ Parent[q] \in visited
          /\ pc = "enumerate" => Parent[q] # at.path
    /\ pc = "enumerate" => at.path \in visited /\ at.path \in Open \cup {root}

\* Every path that was met counts once, and is there unless it was touched.
CountInv ==
    /\ counted = Cardinality(visited) /\ visited \ touched \subseteq Present
    /\ \A q \in Open \ touched : fs.kind[q] = "dir"

OnceInv == FrameOrder /\ Nesting /\ CountInv

\* What was met below an open or closed directory and has reached its sum.
Landed(d) == {q \in visited : d \in Above[q] /\ Open \cap (Above[q] \ Above[d]) = {}}

\* C are the paths that were credited: every directory, and of every file the
\* name that was met first.
Weight    == [q \in Paths |-> fs.size[fs.ino[q]]]
Credit(C) ==
    /\ \A p \in visited \ touched : p \in C \/ fs.ino[p] \in seen
    /\ \A p \in C \ touched : fs.kind[p] = "dir" \/ fs.ino[p] \in seen
    /\ \A i \in seen \ touched : \E q \in C \cap Present : fs.ino[q] = i
    /\ \A p, q \in C \ touched : fs.ino[p] = fs.ino[q] => p = q
    /\ touched = {} => bytes = SumFunctionOnSet(Weight, C)
\* The sum of a directory.
Sums(C) ==
    \A d \in visited \ {root} : fs.kind[d] = "dir" /\ Alone(d) =>
        /\ d \in DOMAIN dirs
        /\ dirs[d] = [bytes |-> SumFunctionOnSet(Weight, Landed(d) \cap C), entries |-> Cardinality(Landed(d)) - 1]
\* The record of a directory that was left.
Listed(C) ==
    /\ \A r \in records : r.path \in visited \ Open
    /\ \A d \in visited \ (Open \cup {root}) : fs.kind[d] = "dir" /\ Alone(d) =>
          /\ Subtree(d) \subseteq visited
          /\ LET sum == SumFunctionOnSet(Weight, Subtree(d) \cap C)
             IN {r \in records : r.path = d} =
                   IF sum < caps.directory THEN {}
                   ELSE {[path |-> d, ino |-> fs.ino[d], bytes |-> sum, entries |-> Cardinality(Subtree(d)), kind |-> "dir"]}
SumsInv == skipped = {} => \E C \in SUBSET visited : Credit(C) /\ Sums(C) /\ Listed(C)
=============================================================================
