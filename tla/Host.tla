-------------------------------- MODULE Host --------------------------------
(***************************************************************************)
(* The machine the cleanup agent runs on: one directory tree, the inodes   *)
(* its entries name, and the other processes that hold references to them. *)
(* None of it is code of the repository.  It is the part of the operating  *)
(* system that cleanup_agent/safety.py observes with lstat, scandir, /proc *)
(* and /proc/self/mountinfo, and changes with unlink and rmdir, and it is  *)
(* modelled by what that module can see of it.                             *)
(*                                                                         *)
(* An inode number may be reused once its last link and its last reference *)
(* are gone, as it is on the common Linux filesystems.                     *)
(***************************************************************************)
EXTENDS Integers, FiniteSets, SequencesExt

CONSTANTS
    Inodes,        \* inode numbers
    NoInode,       \* what an unused name is bound to
    Top,           \* the directory that holds the candidate
    Names,         \* file names
    Cand,          \* the name of the candidate in Top
    LinkDir,       \* the directory every symbolic link points to
    Procs,         \* pids of the other processes
    PathRef,       \* the path of the candidate, or of something below it
    Fds,           \* descriptor numbers
    InitHosts,     \* initial [tree, node, alive, refs] of the machine
    CreateKinds,   \* kinds of entries other programs may create
    Sizes,         \* allocated sizes other programs may produce
    MaxChanges,    \* bound: changes other programs make to the file system
    MaxOpens       \* bound: references other processes acquire

Kinds   == {"free", "file", "link", "dir", "special", "mount"}
Targets == Inodes \cup {PathRef}

\* What /proc shows of a process: its command line and working directory,
\* which name paths, and its mappings and descriptors, which lead to inodes.
\* A handle is a process with one of these ways and what it holds by it.
PathWays == {"cmdline", "cwd"}
Ways     == PathWays \cup {"map"} \cup Fds
Handles  == {h \in Procs \X Ways \X Targets : h[2] \in PathWays <=> h[3] = PathRef}

\* own stands for uid, gid and permission bits: 0 and 1 are of one uid, 2 of
\* another.  ver advances with every change of size, mtime, ctime or link
\* count, and when a number is reused.
Owners   == 0..2
Uid(own) == IF own = 2 THEN 1 ELSE 0

Node == [kind : Kinds, own : Owners, ver : Nat, blocks : Nat]
Tree == [Inodes -> [Names -> Inodes \cup {NoInode}]]

\* No directory lies below itself, and a directory has one name.
Hierarchy(t, attr) ==
    /\ \A S \in (SUBSET Inodes) \ {{}} : \E i \in S : \A d \in S, n \in Names : t[d][n] # i
    /\ \A d, e \in Inodes, n, m \in Names :
          t[d][n] = t[e][m] /\ t[d][n] \in Inodes /\ attr[t[d][n]].kind = "dir" => d = e /\ n = m

ASSUME HostAssumption ==
    /\ IsFiniteSet(Inodes) /\ IsFiniteSet(Names)
    /\ NoInode \notin Inodes /\ PathRef \notin Inodes
    /\ PathWays \cap Fds = {} /\ "map" \notin Fds
    /\ Top \in Inodes /\ LinkDir \in Inodes \cup {NoInode}
    /\ Cand \in Names
    /\ CreateKinds \subseteq Kinds /\ Sizes \subseteq Nat
    /\ MaxChanges \in Nat /\ MaxOpens \in Nat
    /\ \A h \in InitHosts :
          /\ h.tree \in Tree /\ h.node \in [Inodes -> Node]
          /\ h.alive \subseteq Procs /\ h.refs \subseteq {r \in Handles : r[1] \in h.alive}
          /\ h.node[Top].kind = "dir" /\ h.tree[Top][Cand] \in Inodes /\ Hierarchy(h.tree, h.node)

VARIABLES
    tree,      \* what each name of each directory is bound to
    node,      \* the attributes of each inode
    alive,     \* running processes
    refs,      \* <<p, w, x>>: process p holds x by way w
    changes,   \* file system changes other programs made so far
    opens      \* times other processes acquired one so far

fsVars   == <<tree, node, changes>>
procVars == <<alive, refs, opens>>
hostVars == <<tree, node, changes, alive, refs, opens>>

HostTypeOK ==
    /\ tree \in Tree
    /\ node \in [Inodes -> Node]
    /\ alive \subseteq Procs
    /\ refs \subseteq {r \in Handles : r[1] \in alive}
    /\ changes \in Nat
    /\ opens \in Nat

HostInit ==
    /\ \E h \in InitHosts :
          tree = h.tree /\ node = h.node /\ alive = h.alive /\ refs = h.refs
    /\ changes = 0
    /\ opens = 0

-----------------------------------------------------------------------------
(* Observations.                                                           *)

Lookup(d, n) == IF d \in Inodes THEN tree[d][n] ELSE NoInode
Links(i)     == {e \in Inodes \X Names : tree[e[1]][e[2]] = i}
Entries(d)   == {n \in Names : tree[d][n] # NoInode}
IsDir(i)     == i \in Inodes /\ node[i].kind \in {"dir", "mount"}
Held(p)      == {r \in refs : r[1] = p}
InUse(i)     == \E r \in refs : r[3] = i

\* A path lookup follows symbolic links in every component but the last.
Follow(i) == IF i \in Inodes /\ node[i].kind = "link" THEN LinkDir ELSE i
Resolve(path) == FoldLeft(LAMBDA i, n : Lookup(Follow(i), n), Top, path)

Stats    == [ino : Inodes \cup {NoInode}, kind : Kinds, own : Owners, ver : Nat, blocks : Nat,
             nlink : Nat]
Observed == {st \in Stats : st.ino \in Inodes}
StatOf(i) == [ino |-> i, kind |-> node[i].kind, own |-> node[i].own, ver |-> node[i].ver,
              blocks |-> node[i].blocks, nlink |-> Cardinality(Links(i))]

\* All inodes in the subtree of directory i.
Within(i) == {j \in Inodes : \A S \in SUBSET Inodes :
                (i \in S /\ \A d \in S, n \in Names : tree[d][n] \in S \cup {NoInode}) => j \in S}

-----------------------------------------------------------------------------
(* System calls.                                                           *)

Touched(i) == [node[i] EXCEPT !.ver = @ + 1]

\* The attributes after the entry <<d, n>> is removed: the directory changes,
\* the inode loses a link, and its number is free when nothing refers to it.
Unbound(d, n) ==
    LET i == tree[d][n]
    IN  [node EXCEPT ![d] = Touched(d),
                     ![i] = IF Links(i) = {<<d, n>>} /\ ~InUse(i)
                            THEN [Touched(i) EXCEPT !.kind = "free", !.blocks = 0]
                            ELSE Touched(i)]

Bind(d, n, i) == tree' = [tree EXCEPT ![d][n] = i]

Removable(i) ==
    \/ node[i].kind \in {"file", "link", "special"}
    \/ node[i].kind = "dir" /\ Entries(i) = {}

-----------------------------------------------------------------------------
(* What other programs do to the file system.                              *)

Change == changes < MaxChanges /\ changes' = changes + 1 /\ UNCHANGED procVars

\* A program writes to a file: its size, times or blocks change.
Write(i) ==
    /\ Change
    /\ node[i].kind = "file"
    /\ \E b \in Sizes : node' = [node EXCEPT ![i] = [Touched(i) EXCEPT !.blocks = b]]
    /\ UNCHANGED tree

\* chmod or chown.
Chown(i) ==
    /\ Change
    /\ node[i].kind \in {"file", "dir"} /\ i # Top
    /\ \E o \in Owners \ {node[i].own} :
          node' = [node EXCEPT ![i] = [Touched(i) EXCEPT !.own = o]]
    /\ UNCHANGED tree

\* A new entry takes any free inode number.
Create(d, n, i) ==
    /\ Change
    /\ node[d].kind = "dir" /\ tree[d][n] = NoInode /\ node[i].kind = "free"
    /\ \E k \in CreateKinds, b \in Sizes :
          node' = [node EXCEPT ![d] = Touched(d),
                               ![i] = [Touched(i) EXCEPT !.kind = k, !.own = 0, !.blocks = b]]
    /\ Bind(d, n, i)

Delete(d, n) ==
    /\ Change
    /\ tree[d][n] # NoInode /\ Removable(tree[d][n])
    /\ node' = Unbound(d, n)
    /\ Bind(d, n, NoInode)

\* rename(2), over an existing file or to an unused name.
Rename(d, n, e, m) ==
    LET i == tree[d][n] IN
    /\ Change
    /\ i # NoInode /\ node[i].kind # "mount" /\ node[e].kind = "dir" /\ <<d, n>> # <<e, m>>
    /\ IsDir(i) => e \notin Within(i)
    /\ tree[e][m] # NoInode =>
          tree[e][m] # i /\ Removable(tree[e][m]) /\ ~IsDir(i) /\ ~IsDir(tree[e][m])
    /\ LET after == IF tree[e][m] = NoInode THEN node ELSE Unbound(e, m)
       IN  node' = [x \in Inodes |-> IF x \in {d, e, i} THEN [after[x] EXCEPT !.ver = @ + 1]
                                                         ELSE after[x]]
    /\ tree' = [tree EXCEPT ![d][n] = NoInode, ![e][m] = i]

Link(d, n, i) ==
    /\ Change
    /\ node[d].kind = "dir" /\ tree[d][n] = NoInode
    /\ node[i].kind = "file" /\ Links(i) # {}
    /\ node' = [node EXCEPT ![d] = Touched(d), ![i] = Touched(i)]
    /\ Bind(d, n, i)

\* Another file system is mounted over a directory: the name now leads to its
\* root, and the directory above does not change.
MountOver(d, n, i) ==
    /\ Change
    /\ tree[d][n] # NoInode /\ node[tree[d][n]].kind = "dir" /\ node[i].kind = "free"
    /\ node' = [node EXCEPT ![i] = [Touched(i) EXCEPT !.kind = "mount"]]
    /\ Bind(d, n, i)

FileSystemStep ==
    /\ changes < MaxChanges
    /\ \E i \in Inodes :
          \/ Write(i)
          \/ Chown(i)
          \/ \E n \in Names :
                \/ \E d \in Inodes : Create(d, n, i)
                \/ \E d \in Inodes : Link(d, n, i)
                \/ \E d \in Inodes : MountOver(d, n, i)
                \/ Delete(i, n)
                \/ \E e \in Inodes, m \in Names : Rename(i, n, e, m)

-----------------------------------------------------------------------------
(* What other processes do with references.                                *)

\* A process opens or maps an inode, duplicates or receives a descriptor,
\* changes into the candidate or starts a program with its path.  To move a
\* reference is to acquire it another way and to let go of the first.
Open(p, w, x) ==
    /\ opens < MaxOpens /\ opens' = opens + 1
    /\ p \in alive /\ <<p, w, x>> \in Handles \ refs
    /\ w \in Fds => \A r \in Held(p) : r[2] # w
    /\ x \in Inodes => node[x].kind # "free" /\ (Links(x) # {} \/ InUse(x))
    /\ refs' = refs \cup {<<p, w, x>>}
    /\ UNCHANGED <<tree, node, changes, alive>>

Close(r) ==
    /\ refs' = refs \ {r}
    /\ UNCHANGED <<tree, node, changes, alive, opens>>

\* fork: the child inherits every reference.
Fork(p, q) ==
    /\ opens < MaxOpens /\ opens' = opens + 1
    /\ p \in alive /\ q \notin alive
    /\ alive' = alive \cup {q}
    /\ refs' = refs \cup {<<q, r[2], r[3]>> : r \in Held(p)}
    /\ UNCHANGED <<tree, node, changes>>

Exit(p) ==
    /\ p \in alive
    /\ alive' = alive \ {p}
    /\ refs' = refs \ Held(p)
    /\ UNCHANGED <<tree, node, changes, opens>>

ProcessStep ==
    \/ \E r \in refs : Close(r)
    \/ \E p \in Procs :
          \/ \E w \in Ways, x \in Targets : Open(p, w, x)
          \/ \E q \in Procs : Fork(p, q)
          \/ Exit(p)
=============================================================================
