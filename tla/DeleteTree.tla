----------------------------- MODULE DeleteTree -----------------------------
(***************************************************************************)
(* Deletion of one approved candidate: the part of execute_delete that     *)
(* touches the machine, in cleanup_agent/safety.py.                        *)
(*                                                                         *)
(*   inspect    lstat of the candidate, then                               *)
(*   tree       _tree_evidence: the inventory of the tree, path by path    *)
(*   check      _proc_evidence: who refers to an inode of the inventory    *)
(*   parent     _unlink_tree pins the parent directory                     *)
(*   ...        the walk: every entry is compared with what was recorded,  *)
(*              references are checked again, it is compared again, and    *)
(*              removed                                                    *)
(*                                                                         *)
(* Every system call is a step of its own, so that other programs of the   *)
(* module Host act between any two of them.  Gathering evidence changes    *)
(* nothing, so the model stops at the first fact that rejects a candidate, *)
(* where the code collects them all.  A failing system call ends the walk  *)
(* (the handler of OSError in _unlink_tree).                               *)
(***************************************************************************)
EXTENDS Host

CONSTANTS
    Self,           \* the agent's own entry of the process table
    SelfVisible,    \* whether PROC_ROOT lists the agent's own process
    SelfNamed,      \* whether its command line names the candidate (--approve-path)
    MayHide,        \* whether a process may be unreadable
    MayExpire,      \* whether the deletion may run out of time
    MaxTreeEntries, \* limits["max_tree_entries"]
    FdLimit         \* RLIMIT_NOFILE, counting the walker's descriptors

ASSUME DeleteTreeAssumption ==
    /\ Self \notin Procs
    /\ SelfVisible \in BOOLEAN /\ SelfNamed \in BOOLEAN
    /\ MayHide \in BOOLEAN /\ MayExpire \in BOOLEAN
    /\ MaxTreeEntries \in Nat /\ FdLimit \in Nat

VARIABLES
    pc,         \* the next step of the deletion
    planned,    \* identity of the candidate in the plan
    expected,   \* identity of the candidate at the recheck
    pending,    \* paths _tree_evidence has still to visit
    listing,    \* the directory _tree_evidence is about to list
    inventory,  \* what it recorded of every entry it visited
    ret,        \* what the current process check was made for
    todo,       \* processes the check has still to read
    reading,    \* the process it is reading
    mentioned,  \* whether the command line of that process names the candidate
    fds,        \* listed descriptors of it that are still to be followed
    watch,      \* what it looks for
    hit,        \* it found a reference
    blind,      \* it could not see something
    stack,      \* directories the walker has still to visit
    cur,        \* the one it is visiting
    childDir,   \* descriptor of the open directory, or NoInode
    entries,    \* names in childDir still to be looked at
    batch,      \* its children as looked at, then those still to be unlinked
    target,     \* the entry being unlinked, as scanned
    seen,       \* the last stat of the entry about to be removed
    visited,    \* entries counted against max_tree_entries
    deleted,    \* bytes accounted as deleted
    expired,    \* the deadline has passed
    reason,     \* why the deletion ended
    removed,    \* history: what was removed, what the last stat saw, what was recorded
    overtime,   \* history: removals after the deadline, counted up to two
    late        \* history: removals since a reference was acquired, counted up to two

evidenceVars == <<planned, expected, pending, listing, inventory>>
checkVars    == <<ret, todo, reading, mentioned, fds, watch, hit, blind>>
walkVars     == <<stack, cur, childDir, entries, batch, target, seen, visited>>
resultVars   == <<deleted, removed, overtime, late>>
vars == <<hostVars, pc, evidenceVars, checkVars, walkVars, resultVars, expired, reason>>

Frame    == [dir : Inodes, name : Names, id : Stats, post : BOOLEAN]
FileRef  == [dir : Inodes, name : Names, st : Stats]
Removal  == [actual : Stats, seen : Stats, recorded : Stats]
Checkers == {"recheck", "file", "post"}
Steps    == {"inspect", "tree", "list", "check", "scan", "cwd", "maps", "fds", "stat", "parent",
             "root", "pop", "pre", "openDir", "listDir", "scanDir", "files", "file", "unlink",
             "prePost", "post", "rmdir", "done"}
\* A process check is reading the process table.
Scanning == {"scan", "cwd", "maps", "fds", "stat"}

TypeOK ==
    /\ HostTypeOK
    /\ pc \in Steps
    /\ planned \in Stats /\ expected \in Stats
    /\ pending \subseteq Seq(Names) /\ listing \in Seq(Names)
    /\ inventory \subseteq Observed
    /\ ret \in Checkers
    /\ todo \subseteq Procs \cup {Self} /\ reading \in Procs \cup {Self}
    /\ mentioned \in BOOLEAN
    /\ fds \subseteq Fds /\ watch \subseteq Inodes
    /\ hit \in BOOLEAN /\ blind \in BOOLEAN
    /\ stack \in Seq(Frame) /\ cur \in Frame
    /\ childDir \in Inodes \cup {NoInode}
    /\ pc \in {"listDir", "scanDir", "files"} => childDir \in Inodes
    /\ pc = "scanDir" =>
          IsFiniteSet(batch) /\ \A c \in batch : c.dir = childDir /\ c.st.ino \in Inodes
    /\ entries \subseteq Names /\ batch \subseteq FileRef /\ target \in FileRef /\ seen \in Stats
    /\ visited \in Nat /\ deleted \in Nat
    /\ expired \in BOOLEAN
    /\ removed \subseteq Removal
    /\ overtime \in 0..2
    /\ late \in [refs -> 0..2]

-----------------------------------------------------------------------------
SameIdentity(x, y) ==
    /\ x.ino = y.ino /\ x.kind = y.kind /\ x.own = y.own /\ x.ver = y.ver /\ x.nlink = y.nlink

SameObject(x, y) == x.ino = y.ino /\ x.kind = y.kind /\ x.own = y.own

UnlinkableShared(st) == st.kind \in {"link", "file"}   \* mutated form: hard links pass

\* Only regular files and symbolic links are unlinked, and no hard links.
Unlinkable(st) == st.kind = "link" \/ (st.kind = "file" /\ st.nlink <= 1)

MemberOfAny(st) == st.kind # "mount"   \* mutated form: only the device is compared

\* Membership is by device and inode number.
Member(st) == st.kind # "mount" /\ \E m \in inventory : m.ino = st.ino

\* The directories the walker has open while it runs.
OpenDirsParents ==   \* mutated form: the one it is reading is forgotten
    {Top} \cup {cur.dir}
OpenDirs ==
    {Top} \cup {stack[k].dir : k \in 1..Len(stack)} \cup {cur.dir} \cup ({childDir} \ {NoInode})
OpenCount == Len(stack) + (IF childDir = NoInode THEN 2 ELSE 3)

\* What a descriptor is compared with: every inode of the inventory, and the
\* one the candidate's path leads to now.
Inventory    == {m.ino : m \in inventory}
WatchRoot(i) == {i}   \* mutated form: members are not passed on
Watch(i)     == Inventory \cup {i}

\* The deadline is the walker's: the recheck has none.
Untimed   == FALSE   \* mutated form: the checks never look at the clock
OutOfTime == expired /\ ret # "recheck"

\* Bytes accounted when the entry of the last stat is removed.
AccountedFilesOnly == deleted + (IF seen.kind = "dir" THEN 0 ELSE seen.blocks)   \* mutated form
AccountedNegative  == deleted - seen.blocks                                      \* mutated form
Accounted          == deleted + seen.blocks

VerdictOffByOne ==   \* mutated form: one block is taken for none
    CASE pc # "done"   -> "running"
      [] reason = "ok" -> "deleted"
      [] OTHER         -> IF deleted > 1 THEN "partial" ELSE "rejected"

\* execute_delete calls an unfinished deletion partial when bytes were freed.
Verdict ==
    CASE pc # "done"      -> "running"
      [] reason = "ok"    -> "deleted"
      [] OTHER            -> IF deleted > 0 THEN "partial" ELSE "rejected"

Stop(why) ==
    /\ pc' = "done"
    /\ reason' = why
    /\ UNCHANGED <<hostVars, evidenceVars, checkVars, walkVars, resultVars, expired>>

-----------------------------------------------------------------------------
(* The recheck: inspect and _tree_evidence.                                *)

Inspect ==
    LET i == tree[Top][Cand] IN
    /\ pc = "inspect"
    /\ IF i = NoInode THEN Stop("unavailable")
       ELSE IF ~(node[i].kind = "dir" \/ (node[i].kind = "file" /\ StatOf(i).nlink <= 1))
            THEN Stop("unsafe")
       ELSE IF ~SameIdentity(planned, StatOf(i)) THEN Stop("identity_changed_since_scan")
       ELSE /\ expected' = StatOf(i)
            /\ pending' = {<<Cand>>}
            /\ pc' = "tree"
            /\ UNCHANGED <<hostVars, planned, listing, inventory, checkVars, walkVars, resultVars,
                           expired, reason>>

\* _tree_evidence takes one path from its stack and calls lstat.
TreeEntry ==
    /\ pc = "tree"
    /\ \E path \in pending :
       LET i == Resolve(path) IN
       IF i \notin Inodes THEN Stop("unknown")
       ELSE IF visited + 1 > MaxTreeEntries THEN Stop("unknown")
       ELSE IF node[i].kind \in {"mount", "special"} THEN Stop("unknown")
       ELSE IF ~IsDir(i) /\ ~Unlinkable(StatOf(i)) THEN Stop("unsafe")
       ELSE IF node[i].kind = "link" \/ \E m \in inventory : Uid(m.own) # Uid(node[i].own)
            THEN Stop("unsafe")
       ELSE /\ inventory' = inventory \cup {StatOf(i)}
            /\ pending' = pending \ {path}
            /\ visited' = visited + 1
            /\ listing' = path
            /\ pc' = IF IsDir(i) THEN "list" ELSE "tree"
            /\ UNCHANGED <<hostVars, planned, expected, checkVars, stack, cur, childDir, entries,
                           batch, target, seen, resultVars, expired, reason>>

\* A separate scandir lists the directory, by path.
TreeList ==
    LET d == Follow(Resolve(listing)) IN
    /\ pc = "list"
    /\ IF ~IsDir(d) THEN Stop("unknown")
       ELSE /\ pending' = pending \cup {Append(listing, n) : n \in Entries(d)}
            /\ pc' = "tree"
            /\ UNCHANGED <<hostVars, planned, expected, listing, inventory, checkVars, walkVars,
                           resultVars, expired, reason>>

TreeDone ==
    /\ pc = "tree" /\ pending = {}
    /\ pc' = "check"
    /\ ret' = "recheck"
    /\ visited' = 0
    /\ UNCHANGED <<hostVars, evidenceVars, todo, reading, mentioned, fds, watch, hit, blind,
                   stack, cur, childDir, entries, batch, target, seen, resultVars, expired,
                   reason>>

-----------------------------------------------------------------------------
(* _proc_evidence, alone at the recheck and inside check_live_references.  *)

CheckBegin ==
    LET i == tree[Top][Cand] IN
    /\ pc = "check"
    /\ IF OutOfTime THEN Stop("delete_time_budget_exhausted")
       ELSE IF i = NoInode THEN Stop("process_visibility_unknown_before_unlink")
       ELSE /\ todo' = alive \cup (IF SelfVisible THEN {Self} ELSE {})
            /\ watch' = Watch(i)
            /\ hit' = FALSE /\ blind' = FALSE
            /\ pc' = "scan"
            /\ UNCHANGED <<hostVars, evidenceVars, ret, reading, mentioned, fds, walkVars,
                           resultVars, expired, reason>>

\* What cannot be read counts as unknown.
Hidden == MayHide /\ blind' = TRUE

\* The command line of the next process is read.  One that has exited is
\* skipped, here and later.
ReadCmdline(p) ==
    /\ pc = "scan" /\ p \in todo
    /\ todo' = todo \ {p}
    /\ reading' = p
    /\ \/ p \notin alive /\ UNCHANGED <<pc, mentioned, blind>>
       \/ p \in alive /\ Hidden /\ UNCHANGED <<pc, mentioned>>
       \/ /\ p \in alive
          /\ mentioned' = (<<p, "cmdline", PathRef>> \in refs)
          /\ pc' = "cwd"
          /\ UNCHANGED blind
    /\ UNCHANGED <<hostVars, evidenceVars, ret, fds, watch, hit, walkVars, resultVars, expired,
                   reason>>

\* Its working directory is.  Only then is the command line judged, and it
\* may prove too long to be.
ReadCwd ==
    LET inside == <<reading, "cwd", PathRef>> \in refs IN
    /\ pc = "cwd"
    /\ mentioned' = FALSE
    /\ \/ reading \notin alive /\ pc' = "scan" /\ UNCHANGED <<hit, blind>>
       \/ reading \in alive /\ Hidden /\ pc' = "scan" /\ UNCHANGED hit
       \/ reading \in alive /\ Hidden /\ pc' = "maps" /\ hit' = (hit \/ inside)
       \/ /\ reading \in alive
          /\ hit' = (hit \/ mentioned \/ inside)
          /\ pc' = "maps"
          /\ UNCHANGED blind
    /\ UNCHANGED <<hostVars, evidenceVars, ret, todo, reading, fds, watch, walkVars, resultVars,
                   expired, reason>>

\* Its mappings are read, and compared with the inventory alone.
ReadMaps ==
    /\ pc = "maps"
    /\ pc' = "fds"
    /\ \/ Hidden /\ UNCHANGED hit
       \/ hit' = (hit \/ \E x \in Inventory : <<reading, "map", x>> \in refs) /\ UNCHANGED blind
    /\ UNCHANGED <<hostVars, evidenceVars, ret, todo, reading, mentioned, fds, watch, walkVars,
                   resultVars, expired, reason>>

\* Its descriptors are listed, some of them if there are too many.
ListFds ==
    LET open == {w \in Fds : \E r \in Held(reading) : r[2] = w} IN
    /\ pc = "fds"
    /\ \/ fds' = open /\ UNCHANGED blind
       \/ Hidden /\ fds' \in SUBSET open
    /\ pc' = IF fds' = {} THEN "scan" ELSE "stat"
    /\ UNCHANGED <<hostVars, evidenceVars, ret, todo, reading, mentioned, watch, hit, walkVars,
                   resultVars, expired, reason>>

\* One after the other they are followed with stat, if they are still open,
\* to what they lead to now; the first that leads to the tree is enough.
StatFd(w) ==
    LET leads == \E x \in watch : <<reading, w, x>> \in refs IN
    /\ pc = "stat" /\ w \in fds
    /\ \/ Hidden /\ fds' = fds \ {w} /\ UNCHANGED hit
       \/ /\ hit' = (hit \/ leads)
          /\ fds' = IF leads THEN {} ELSE fds \ {w}
          /\ UNCHANGED blind
    /\ pc' = IF fds' = {} THEN "scan" ELSE "stat"
    /\ UNCHANGED <<hostVars, evidenceVars, ret, todo, reading, mentioned, watch, walkVars,
                   resultVars, expired, reason>>

ReadProcess ==
    \/ \E p \in Procs : ReadCmdline(p)
    \/ ReadCwd \/ ReadMaps \/ ListFds
    \/ \E w \in Fds : StatFd(w)

\* The agent meets its own command line and its own open directories in the
\* same process table.
ScanSelf ==
    /\ pc = "scan" /\ Self \in todo
    /\ todo' = todo \ {Self}
    /\ hit' = (hit \/ SelfNamed \/ (ret # "recheck" /\ OpenDirs \cap watch # {}))
    /\ UNCHANGED <<hostVars, pc, evidenceVars, ret, reading, mentioned, fds, watch, blind,
                   walkVars, resultVars, expired, reason>>

CheckEndWaits ==   \* mutated form: a reference is waited for instead of reported
    /\ pc = "scan" /\ todo = {}
    /\ pc' = IF hit THEN "check" ELSE IF ret = "recheck" THEN "parent" ELSE ret
    /\ UNCHANGED <<hostVars, evidenceVars, checkVars, walkVars, resultVars, expired, reason>>

CheckEnd ==
    /\ pc = "scan" /\ todo = {}
    /\ IF hit THEN Stop(IF ret = "recheck" THEN "active_process_reference"
                                           ELSE "active_process_reference_before_unlink")
       ELSE IF blind THEN Stop("process_visibility_unknown_before_unlink")
       ELSE IF OutOfTime THEN Stop("delete_time_budget_exhausted")
       ELSE /\ pc' = IF ret = "recheck" THEN "parent" ELSE ret
            /\ UNCHANGED <<hostVars, evidenceVars, checkVars, walkVars, resultVars, expired,
                           reason>>

-----------------------------------------------------------------------------
(* _unlink_tree.                                                           *)

\* The parent is opened component by component without following links; an
\* ancestor that was replaced makes one of those calls fail.
OpenParent ==
    /\ pc = "parent"
    /\ \/ Stop("parent_path_changed")
       \/ /\ pc' = "root"
          /\ UNCHANGED <<hostVars, evidenceVars, checkVars, walkVars, resultVars, expired, reason>>

\* A file is unlinked from the parent, a directory is handed to the walker.
StatRoot ==
    LET i == tree[Top][Cand] IN
    /\ pc = "root"
    /\ IF i = NoInode THEN Stop("delete_error")
       ELSE IF ~SameIdentity(expected, StatOf(i)) THEN Stop("identity_changed_before_delete")
       ELSE /\ IF IsDir(i)
               THEN /\ stack' = <<[dir |-> Top, name |-> Cand, id |-> expected, post |-> FALSE]>>
                    /\ pc' = "pop"
                    /\ UNCHANGED <<target, ret>>
               ELSE /\ target' = [dir |-> Top, name |-> Cand, st |-> expected]
                    /\ ret' = "file"
                    /\ pc' = "check"
                    /\ UNCHANGED stack
            /\ UNCHANGED <<hostVars, evidenceVars, todo, reading, mentioned, fds, watch, hit,
                           blind, cur, childDir, entries, batch, seen, visited, resultVars,
                           expired, reason>>

Pop ==
    LET top == stack[Len(stack)] IN
    /\ pc = "pop"
    /\ IF stack = <<>> THEN Stop("ok")
       ELSE IF expired THEN Stop("delete_time_budget_exhausted")
       ELSE /\ cur' = top
            /\ stack' = SubSeq(stack, 1, Len(stack) - 1)
            /\ pc' = IF top.post THEN "prePost" ELSE "pre"
            /\ UNCHANGED <<hostVars, evidenceVars, checkVars, childDir, entries, batch, target,
                           seen, visited, resultVars, expired, reason>>

\* The directory is still what its parent's scan recorded.
StatDir ==
    LET i == tree[cur.dir][cur.name] IN
    /\ pc = "pre"
    /\ IF i = NoInode THEN Stop("delete_error")
       ELSE IF ~SameIdentity(cur.id, StatOf(i)) THEN Stop("entry_changed_during_delete")
       ELSE /\ pc' = "openDir"
            /\ UNCHANGED <<hostVars, evidenceVars, checkVars, walkVars, resultVars, expired,
                           reason>>

\* It is opened without following links, and the descriptor compared.
OpenDir ==
    LET i == tree[cur.dir][cur.name] IN
    /\ pc = "openDir"
    /\ IF ~IsDir(i) \/ OpenCount + 1 > FdLimit THEN Stop("delete_error")
       ELSE IF ~SameIdentity(cur.id, StatOf(i)) THEN Stop("directory_identity_changed")
       ELSE /\ childDir' = i
            /\ pc' = "listDir"
            /\ UNCHANGED <<hostVars, evidenceVars, checkVars, stack, cur, entries, batch, target,
                           seen, visited, resultVars, expired, reason>>

\* A duplicate of the descriptor lists its entries,
ListDir ==
    /\ pc = "listDir"
    /\ IF OpenCount + 1 > FdLimit THEN Stop("delete_error")
       ELSE /\ entries' = Entries(childDir)
            /\ batch' = {}
            /\ pc' = "scanDir"
            /\ UNCHANGED <<hostVars, evidenceVars, checkVars, stack, cur, childDir, target, seen,
                           visited, resultVars, expired, reason>>

\* and they are looked at one after the other.
Child(n) == [dir |-> childDir, name |-> n, st |-> StatOf(tree[childDir][n])]

StatChild ==
    /\ pc = "scanDir"
    /\ \E n \in entries :
       IF Lookup(childDir, n) = NoInode THEN Stop("delete_error")
       ELSE /\ batch' = batch \cup {Child(n)}
            /\ entries' = entries \ {n}
            /\ UNCHANGED <<hostVars, pc, evidenceVars, checkVars, stack, cur, childDir, target,
                           seen, visited, resultVars, expired, reason>>

\* All must be in the inventory.  The directory is pushed to be removed after
\* the subdirectories that are pushed above it.
ScanDir ==
    LET dirs == {c \in batch : c.st.kind = "dir"} IN
    /\ pc = "scanDir" /\ entries = {}
    /\ IF visited + Cardinality(batch) > MaxTreeEntries THEN Stop("tree_entry_budget_exhausted")
       ELSE IF \E c \in batch : ~Member(c.st) THEN Stop("tree_entry_not_in_rechecked_inventory")
       ELSE IF OpenCount + 1 + Cardinality(dirs) > FdLimit THEN Stop("delete_error")
       ELSE /\ \E order \in SetToSeqs(dirs) :
                  stack' = Append(stack, [cur EXCEPT !.post = TRUE])
                             \o [k \in 1..Len(order) |->
                                   [dir |-> childDir, name |-> order[k].name,
                                    id |-> order[k].st, post |-> FALSE]]
            /\ batch' = batch \ dirs
            /\ visited' = visited + Cardinality(batch)
            /\ pc' = "files"
            /\ UNCHANGED <<hostVars, evidenceVars, checkVars, cur, childDir, entries, target,
                           seen, resultVars, expired, reason>>

\* The next entry that is not a directory is compared with its scan.
StatFile ==
    /\ pc = "files"
    /\ \E c \in batch :
       LET i == Lookup(c.dir, c.name) IN
       IF i = NoInode THEN Stop("delete_error")
       ELSE IF ~SameIdentity(c.st, StatOf(i)) THEN Stop("entry_changed_during_delete")
       ELSE IF ~Unlinkable(StatOf(i)) THEN Stop("unsafe_tree_entry")
       ELSE /\ target' = c
            /\ batch' = batch \ {c}
            /\ ret' = "file"
            /\ pc' = "check"
            /\ UNCHANGED <<hostVars, evidenceVars, todo, reading, mentioned, fds, watch, hit,
                           blind, stack, cur, childDir, entries, seen, visited, resultVars,
                           expired, reason>>

FilesDone ==
    /\ pc = "files" /\ batch = {}
    /\ childDir' = NoInode
    /\ pc' = "pop"
    /\ UNCHANGED <<hostVars, evidenceVars, checkVars, stack, cur, entries, batch, target, seen,
                   visited, resultVars, expired, reason>>

\* After the references were checked the entry is compared once more.
RestatFile ==
    LET i == tree[target.dir][target.name] IN
    /\ pc = "file"
    /\ IF i = NoInode THEN Stop("delete_error")
       ELSE IF ~SameIdentity(target.st, StatOf(i)) \/ ~Unlinkable(StatOf(i))
            THEN Stop("entry_changed_during_delete")
       ELSE /\ seen' = StatOf(i)
            /\ pc' = "unlink"
            /\ UNCHANGED <<hostVars, evidenceVars, checkVars, stack, cur, childDir, entries,
                           batch, target, visited, resultVars, expired, reason>>

\* Effects shared by unlink and rmdir; the bytes are those of the last stat.
Discard(d, n, recorded) ==
    /\ node' = Unbound(d, n)
    /\ Bind(d, n, NoInode)
    /\ deleted' = Accounted
    /\ removed' = removed \cup
         {[actual |-> StatOf(tree[d][n]), seen |-> seen, recorded |-> recorded]}
    /\ overtime' = IF expired /\ overtime < 2 THEN overtime + 1 ELSE overtime
    /\ late' = [r \in refs |-> IF late[r] < 2 THEN late[r] + 1 ELSE late[r]]
    /\ UNCHANGED <<changes, procVars, evidenceVars, checkVars, walkVars, expired>>

\* unlink(2) fails on a directory.  The root of a file candidate is the last.
UnlinkFile ==
    LET i == tree[target.dir][target.name] IN
    /\ pc = "unlink"
    /\ IF i = NoInode \/ IsDir(i) THEN Stop("delete_error")
       ELSE /\ Discard(target.dir, target.name, target.st)
            /\ IF childDir = NoInode
               THEN pc' = "done" /\ reason' = "ok"
               ELSE pc' = "files" /\ UNCHANGED reason

\* A directory whose subdirectories were visited: same object before the check,
StatPost ==
    LET i == tree[cur.dir][cur.name] IN
    /\ pc = "prePost"
    /\ IF i = NoInode THEN Stop("delete_error")
       ELSE IF ~SameObject(cur.id, StatOf(i)) THEN Stop("directory_changed_during_delete")
       ELSE /\ ret' = "post"
            /\ pc' = "check"
            /\ UNCHANGED <<hostVars, evidenceVars, todo, reading, mentioned, fds, watch, hit,
                           blind, walkVars, resultVars, expired, reason>>

\* and after it.
RestatPost ==
    LET i == tree[cur.dir][cur.name] IN
    /\ pc = "post"
    /\ IF i = NoInode THEN Stop("delete_error")
       ELSE IF ~SameObject(cur.id, StatOf(i)) THEN Stop("directory_changed_during_delete")
       ELSE /\ seen' = StatOf(i)
            /\ pc' = "rmdir"
            /\ UNCHANGED <<hostVars, evidenceVars, checkVars, stack, cur, childDir, entries,
                           batch, target, visited, resultVars, expired, reason>>

\* rmdir(2) fails on anything but an empty directory.
RemoveDir ==
    LET i == tree[cur.dir][cur.name] IN
    /\ pc = "rmdir"
    /\ IF i = NoInode \/ node[i].kind # "dir" \/ Entries(i) # {} THEN Stop("delete_error")
       ELSE /\ Discard(cur.dir, cur.name, cur.id)
            /\ pc' = "pop"
            /\ UNCHANGED reason

-----------------------------------------------------------------------------
(* Time and the other programs.                                            *)

DeadlinePasses ==
    /\ MayExpire /\ ~expired
    /\ expired' = TRUE
    /\ UNCHANGED <<hostVars, pc, evidenceVars, checkVars, walkVars, resultVars, reason>>

\* A reference that was not held all along starts its count again.
OtherPrograms ==
    /\ (FileSystemStep \/ ProcessStep)
    /\ late' = [r \in refs' |-> IF r \in refs THEN late[r] ELSE 0]
    /\ UNCHANGED <<pc, evidenceVars, checkVars, walkVars, deleted, removed, overtime, expired,
                   reason>>

NoStat == [ino |-> NoInode, kind |-> "free", own |-> 0, ver |-> 0, blocks |-> 0, nlink |-> 0]

Init ==
    /\ HostInit
    /\ pc = "inspect"
    /\ planned = StatOf(tree[Top][Cand]) /\ expected = NoStat
    /\ pending = {} /\ listing = <<>> /\ inventory = {}
    /\ ret = "recheck" /\ todo = {} /\ reading = Self
    /\ mentioned = FALSE /\ fds = {} /\ watch = {} /\ hit = FALSE /\ blind = FALSE
    /\ stack = <<>> /\ cur = [dir |-> Top, name |-> Cand, id |-> NoStat, post |-> FALSE]
    /\ childDir = NoInode /\ entries = {} /\ batch = {}
    /\ target = [dir |-> Top, name |-> Cand, st |-> NoStat] /\ seen = NoStat
    /\ visited = 0 /\ deleted = 0 /\ expired = FALSE /\ reason = "none"
    /\ removed = {} /\ overtime = 0
    /\ late = [r \in refs |-> 0]

Agent ==
    \/ Inspect \/ TreeEntry \/ TreeList \/ TreeDone
    \/ CheckBegin \/ ReadProcess \/ ScanSelf \/ CheckEnd
    \/ OpenParent \/ StatRoot \/ Pop
    \/ StatDir \/ OpenDir \/ ListDir \/ StatChild \/ ScanDir
    \/ StatFile \/ FilesDone \/ RestatFile \/ UnlinkFile
    \/ StatPost \/ RestatPost \/ RemoveDir

Environment == pc # "done" /\ (OtherPrograms \/ DeadlinePasses)

Next == Agent \/ Environment

Spec == Init /\ [][Next]_vars

\* The deletion is one thread that the kernel schedules.
FairSpec == Spec /\ WF_vars(Agent)

-----------------------------------------------------------------------------
(* Properties.                                                             *)

\* Something changed the entry between the last stat and the call that
\* removes it: the window README.md:60 leaves open.
Raced(r) == r.actual # r.seen

Inventoried(i) == i = expected.ino \/ \E m \in inventory : m.ino = i

\* Whatever other programs do between two system calls of _unlink_tree, an
\* entry it removes (outside the last window) is an inode of the rechecked
\* inventory; a file or link is exactly as the scan of its directory recorded
\* it, a directory is still the same object.
RemovalsVerified ==
    \A r \in removed : ~Raced(r) =>
        /\ Inventoried(r.actual.ino)
        /\ IF r.actual.kind = "dir" THEN SameObject(r.recorded, r.actual)
                                    ELSE SameIdentity(r.recorded, r.actual)

\* No regular file with a second name is unlinked, so the data a user can
\* still reach elsewhere is never counted as freed.
NothingShared ==
    \A r \in removed : ~Raced(r) /\ r.actual.kind = "file" => r.actual.nlink <= 1

\* check_live_references looks at the clock before and after it reads the
\* process table: at most the one removal it has just cleared can follow the
\* deadline.
OvertimeBounded == overtime <= 1

\* A process that acquires a reference to the tree and keeps it where it is
\* (the same descriptor number, a mapping, its working directory, its command
\* line) sees at most one more entry disappear, though the four are read one
\* after the other while it and others open, close and fork: the entry
\* cleared before the reference was there to be seen.
Tracked == {r \in refs : r[3] \in Inventory \cup {PathRef}}
HolderStops == \A r \in Tracked : late[r] <= 1

Taken     == {r.actual.ino : r \in removed}
Blocks(S) == SumFunctionOnSet([m \in S |-> m.blocks], S)

\* A deletion that nobody disturbed and that is reported as done removed the
\* whole inventory, and the bytes it reports are those of the inventory, which
\* are the bytes execute_delete compared with the limits of the rule.
CompleteWhenUndisturbed ==
    changes = 0 /\ Verdict = "deleted" =>
        /\ Taken = Inventory
        /\ deleted = Blocks(inventory)

\* A rejection leaves the tree as it was, but for entries that occupied no
\* blocks; a success removed the candidate itself.
VerdictHonest ==
    /\ Verdict = "rejected" => \A r \in removed : r.seen.blocks = 0
    /\ Verdict = "deleted" => \E r \in removed : r.recorded = expected

\* A live reference is reported only when another process acquired one
\* (tests/test_safety.py:175 expects the unreferenced tree to be deleted).
RefusalHasHolder ==
    reason = "active_process_reference_before_unlink" => opens > 0

\* With the real process table the walker meets itself: whatever other
\* programs do, all it ever removes is a file candidate or the candidate
\* directory itself, found empty.
OnlyTheCandidate ==
    SelfVisible => \A r \in removed : ~SelfNamed /\ r.recorded = expected

\* README.md:58: a change of a file stops the deletion.  Nothing but a
\* directory is removed whose number or size differs from what the recheck
\* recorded.
ChangedFilesSurvive ==
    \A r \in removed : ~Raced(r) /\ r.actual.kind # "dir" =>
        \E m \in inventory : m.ino = r.actual.ino /\ m.blocks = r.actual.blocks

\* The deletion ends, whatever the other programs do.
Terminates == <>(pc = "done")

\* If nobody changes or opens anything and time does not run out, the outcome on
\* a real /proc, where the program is in the process table it reads, is settled:
\* it deletes a file or an empty directory its command line does not name, and
\* refuses every other candidate whole.
Undisturbed ==
    /\ SelfVisible
    /\ changes = 0 /\ opens = 0 /\ ~expired /\ ~blind
    /\ reason # "parent_path_changed"
MeetsItself == SelfNamed \/ Cardinality(inventory) > 1
UndisturbedOutcome ==
    []Undisturbed => <>(Verdict = IF MeetsItself THEN "rejected" ELSE "deleted")

\* The deletion as a client sees it, in the terms of Clearance.
AfterCheck == {"file", "unlink", "post", "rmdir"}
Surveying  == pc \in {"inspect", "tree", "list"}
Phase      == CASE pc = "done" -> "ended"
                [] Surveying \/ (pc \in {"check"} \cup Scanning /\ ret = "recheck") -> "deciding"
                [] OTHER -> "removing"

Contract == INSTANCE Clearance WITH
    phase    <- Phase,
    approved <- {i \in Inodes : Inventoried(i)},
    cleared  <- pc \in AfterCheck,
    overdue  <- expired,
    gone     <- {r.seen.ino : r \in removed}

\* Every behaviour of the walk keeps the promises of Clearance.
KeepsContract == Contract!CSpec
-----------------------------------------------------------------------------
(* Inductive invariants behind OvertimeBounded and HolderStops (module     *)
(* DeleteTreeProofs), RemovalsVerified, NothingShared, VerdictHonest,      *)
(* OnlyTheCandidate and CompleteWhenUndisturbed (module DeleteTreeSafety). *)

\* Everything the walker may remove comes from the inventory, and what it is
\* about to remove was compared with what it recorded.
Known(st) == st = NoStat \/ (st.ino \in Inodes /\ Inventoried(st.ino))

ProvenanceInv ==
    /\ pc = "inspect" => expected = NoStat
    /\ Surveying => stack = <<>> /\ batch = {} /\ removed = {} /\ target.st = NoStat
                       /\ cur.id = NoStat
    /\ pc \notin {"scanDir", "done"} => \A c \in batch : Known(c.st)
    /\ \A k \in 1..Len(stack) : Known(stack[k].id)
    /\ Known(cur.id) /\ Known(target.st)
    /\ pc \in {"unlink", "rmdir"} => seen.ino \in Inodes /\ Inventoried(seen.ino)
    /\ pc = "unlink" => SameIdentity(target.st, seen) /\ Unlinkable(seen)
    /\ pc = "rmdir" => SameObject(cur.id, seen)
    /\ RemovalsVerified /\ NothingShared

\* A cleared removal is the first one after the deadline.
OvertimeInv ==
    /\ overtime > 0 => expired
    /\ pc \in AfterCheck => overtime = 0
    /\ OvertimeBounded

\* A check that ends without a finding has met every reference that was there
\* when something was last removed.
Unread(w) ==
    \/ pc = "cwd"  /\ (w # "cmdline" \/ mentioned)
    \/ pc = "maps" /\ w \notin PathWays
    \/ pc = "fds"  /\ w \in Fds
    \/ pc = "stat" /\ w \in fds
Unmet(r) == ~(hit \/ blind \/ r[1] \in todo \/ (reading = r[1] /\ Unread(r[2])))

HolderInv ==
    /\ Surveying => \A r \in refs : late[r] = 0
    /\ pc \in Scanning => Inventory \subseteq watch
    /\ pc \in AfterCheck => \A r \in Tracked : late[r] = 0
    /\ pc \in Scanning => \A r \in Tracked : Unmet(r) => late[r] = 0
    /\ HolderStops

\* What was recorded of the candidate lies at the bottom of the stack, or is
\* being visited, until it is removed.
RootGone    == \E r \in removed : r.recorded = expected
RootStacked == stack # <<>> /\ stack[1].id = expected
Checking(b) == pc \in {"check"} \cup Scanning /\ ret = b
AtFile      == Checking("file") \/ pc \in {"file", "unlink"}
AtDir       == \/ Checking("post")
               \/ pc \in {"pre", "openDir", "listDir", "scanDir", "prePost", "post", "rmdir"}

\* A walk ends well when the stack is empty, or after its only file.
VerdictInv ==
    /\ deleted = 0 => \A r \in removed : r.seen.blocks = 0
    /\ Surveying \/ Checking("recheck") \/ pc \in {"parent", "root"} => childDir = NoInode
    /\ pc \in {"pop", "files"} => RootStacked \/ RootGone
    /\ AtFile => IF childDir = NoInode THEN target.st = expected ELSE RootStacked \/ RootGone
    /\ AtDir => RootStacked \/ RootGone \/ (stack = <<>> /\ cur.id = expected)
    /\ reason = "ok" => pc = "done" /\ RootGone

Walking   == pc \in {"pop", "files"} \/ AtFile \/ AtDir

\* The candidate is in the inventory, or its path led elsewhere while the
\* inventory was made.  That leaves its mark: an entry that is renamed, linked
\* or removed gets another version, and what is mounted over one stays there.
RootInv ==
    /\ tree[Top][Cand] # NoInode => node[Top].kind = "dir"
    /\ pc \notin {"inspect", "tree", "list", "done"} => pending = {}
    /\ pc \in {"tree", "list", "parent", "root"} \/ Checking("recheck") =>
        /\ expected.ino \in Inodes /\ expected.ver <= node[expected.ino].ver
        /\ node[expected.ino].ver = expected.ver =>
            /\ tree[Top][Cand] \in Inodes
            /\ tree[Top][Cand] = expected.ino \/ node[tree[Top][Cand]].kind = "mount"
            /\ <<Cand>> \in pending \/ expected.ino \in Inventory
    /\ Walking => expected.ino \in Inventory

\* Every directory the walker works in, but the one above the candidate, is in
\* the inventory, so that a check that reads the agent itself meets it.
SelfInv ==
    /\ \A k \in 1..Len(stack) : stack[k].id = expected \/ stack[k].dir \in Inventory
    /\ AtDir => cur.id = expected \/ cur.dir \in Inventory
    /\ childDir # NoInode => childDir \in Inventory
    /\ SelfVisible /\ pc \in Scanning /\ ret # "recheck" =>
        Self \in todo \/ hit \/ (~SelfNamed /\ OpenDirs \cap watch = {})
    /\ SelfVisible /\ pc \in AfterCheck => ~SelfNamed /\ OpenDirs \cap Inventory = {}
    /\ OnlyTheCandidate

\* As long as nobody changes the file system, what the survey records of the
\* candidate and of every path is what is there, and every path but the
\* candidate's leads to an entry of a directory it has recorded.
LiesIn(i, S) == \E d \in S : node[d].kind = "dir" /\ \E n \in Names : tree[d][n] = i
SurveyInv ==
    /\ pc \in {"tree", "list"} => expected.ino = tree[Top][Cand]
    /\ Surveying => \A m \in inventory : m = StatOf(m.ino)
    /\ \A path \in pending : Resolve(path) = expected.ino \/ LiesIn(Resolve(path), Inventory)
    /\ pc = "list" => Resolve(listing) \in Inventory /\ node[Resolve(listing)].kind = "dir"

\* What was recorded and not removed is as recorded, but for the version of a
\* directory whose entries are going, and its way from the candidate is still
\* there.
RemainsInv ==
    /\ \A m \in inventory : m.kind \in {"dir", "file"}
                            /\ \A k \in inventory : m.ino = k.ino => m = k
    /\ \A m \in inventory : m.ino \notin Taken =>
          node[m.ino].kind = m.kind /\ node[m.ino].blocks = m.blocks
    /\ \A i \in Inventory \ Taken : i = expected.ino \/ LiesIn(i, Inventory \ Taken)

\* What was removed has no name left, so that its blocks are counted once.
TakenInv ==
    /\ pc = "unlink" => seen = StatOf(tree[target.dir][target.name])
    /\ pc = "rmdir" => seen = StatOf(tree[cur.dir][cur.name])
    /\ Taken \subseteq Inventory
    /\ \A d \in Inodes, n \in Names : tree[d][n] \notin Taken
    /\ deleted = Blocks({m \in inventory : m.ino \in Taken})
    /\ \A r \in removed : ~Raced(r)

UndisturbedInv == changes = 0 => Hierarchy(tree, node) /\ SurveyInv /\ RemainsInv /\ TakenInv
=============================================================================
