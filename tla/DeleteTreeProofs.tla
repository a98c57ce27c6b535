-------------------------- MODULE DeleteTreeProofs --------------------------
(***************************************************************************)
(* Proofs about DeleteTree for every machine, every number of processes    *)
(* and every bound: its type correctness, the deadline, and the processes  *)
(* that hold references.                                                   *)
(***************************************************************************)
EXTENDS DeleteTree, FiniteSetTheorems, SequenceTheorems, TLAPS

(***************************************************************************)
(* What lstat returns is a stat record.                                    *)
(***************************************************************************)
LEMMA StatType ==
    ASSUME HostTypeOK, NEW i \in Inodes
    PROVE  StatOf(i) \in Stats /\ StatOf(i) \in Observed
<1>1. IsFiniteSet(Inodes \X Names)
  BY HostAssumption, FS_Product
<1>2. IsFiniteSet(Links(i))
  BY <1>1, FS_Subset DEF Links
<1>3. Cardinality(Links(i)) \in Nat
  BY <1>2, FS_CardinalityType
<1>4. node[i] \in Node
  BY DEF HostTypeOK
<1> QED
  BY <1>3, <1>4 DEF StatOf, Stats, Observed, Node

\* NoStat stands for an identity that was not read yet.
LEMMA NoStatType == NoStat \in Stats
BY DEF NoStat, Stats, Kinds, Owners

\* An entry of the directory being listed, with its stat record.
LEMMA ChildType ==
    ASSUME TypeOK, pc = "scanDir", NEW n \in Names, Lookup(childDir, n) # NoInode
    PROVE  Child(n) \in FileRef /\ Child(n).dir = childDir /\ Child(n).st.ino \in Inodes
<1>1. childDir \in Inodes
  BY DEF TypeOK
<1>2. tree[childDir][n] \in Inodes
  BY <1>1 DEF TypeOK, HostTypeOK, Tree, Lookup
<1>3. StatOf(tree[childDir][n]) \in Stats
  BY <1>2, StatType DEF TypeOK
<1> QED
  BY <1>1, <1>2, <1>3 DEF Child, FileRef, StatOf

\* Stopping changes nothing but the program counter and the reason.
LEMMA StopType ==
    ASSUME TypeOK, NEW why, Stop(why)
    PROVE  TypeOK'
BY DEF TypeOK, HostTypeOK, Stop, hostVars, evidenceVars, checkVars, walkVars, resultVars, Steps

\* Removing an entry keeps the machine well typed.
LEMMA UnboundType ==
    ASSUME HostTypeOK, NEW d \in Inodes, NEW n \in Names, tree[d][n] \in Inodes
    PROVE  /\ Unbound(d, n) \in [Inodes -> Node]
           /\ [tree EXCEPT ![d][n] = NoInode] \in Tree
<1>1. \A i \in Inodes : Touched(i) \in Node
  BY DEF HostTypeOK, Touched, Node
<1>2. \A i \in Inodes : [Touched(i) EXCEPT !.kind = "free", !.blocks = 0] \in Node
  BY <1>1 DEF Node, Kinds
<1>3. Unbound(d, n) \in [Inodes -> Node]
  BY <1>1, <1>2 DEF Unbound, HostTypeOK
<1>4. [tree EXCEPT ![d][n] = NoInode] \in Tree
  BY DEF HostTypeOK, Tree
<1> QED
  BY <1>3, <1>4
-----------------------------------------------------------------------------
(* Type correctness.                                                       *)

LEMMA TypeInit == Init => TypeOK
<1> SUFFICES ASSUME Init PROVE TypeOK
  OBVIOUS
<1>1. HostTypeOK
  BY HostAssumption DEF Init, HostInit, HostTypeOK
<1>2. tree[Top][Cand] \in Inodes
  BY HostAssumption DEF Init, HostInit
<1>3. planned \in Stats /\ expected \in Stats /\ seen \in Stats
  BY <1>1, <1>2, StatType, NoStatType DEF Init
<1>4. cur \in Frame /\ target \in FileRef
  BY HostAssumption, NoStatType DEF Init, Frame, FileRef
<1>5. listing \in Seq(Names) /\ stack \in Seq(Frame)
  BY EmptySeq DEF Init
<1>6. late \in [refs -> 0..2]
  BY DEF Init
<1>7. /\ pc \in Steps /\ ret \in Checkers /\ todo \subseteq Procs \cup {Self}
      /\ reading \in Procs \cup {Self} /\ fds \subseteq Fds /\ watch \subseteq Inodes
      /\ childDir \in Inodes \cup {NoInode} /\ pending \subseteq Seq(Names)
      /\ inventory \subseteq Observed /\ entries \subseteq Names /\ batch \subseteq FileRef
      /\ removed \subseteq Removal
  BY DEF Init, Steps, Checkers
<1>8. visited \in Nat /\ deleted \in Nat /\ overtime \in 0..2
  BY DEF Init
<1>9. mentioned \in BOOLEAN /\ hit \in BOOLEAN /\ blind \in BOOLEAN /\ expired \in BOOLEAN
  BY Zenon DEF Init
<1>10. pc \notin {"listDir", "scanDir", "files"}
  BY DEF Init
<1> QED
  BY <1>1, <1>3, <1>4, <1>5, <1>6, <1>7, <1>8, <1>9, <1>10 DEF TypeOK

\* The steps of the recheck.
LEMMA TypeRecheck ==
    ASSUME TypeOK, Inspect \/ TreeEntry \/ TreeList \/ TreeDone
    PROVE  TypeOK'
<1> USE DEF hostVars, evidenceVars, checkVars, walkVars, resultVars, HostTypeOK
<1>1. CASE Inspect
  <2>1. CASE \E why : Stop(why)
    BY <2>1, StopType
  <2>2. CASE ~\E why : Stop(why)
    <3> DEFINE i == tree[Top][Cand]
    <3>1. i \in Inodes /\ expected' = StatOf(i) /\ pending' = {<<Cand>>} /\ pc' = "tree"
          /\ UNCHANGED <<hostVars, planned, listing, inventory, checkVars, walkVars,
                         resultVars, expired, reason>>
      BY <1>1, <2>2, HostAssumption DEF Inspect, TypeOK, Tree
    <3>2. StatOf(i) \in Stats
      BY <3>1, StatType DEF TypeOK
    <3>3. <<Cand>> \in Seq(Names)
      BY HostAssumption
    <3> QED
      BY <3>1, <3>2, <3>3 DEF TypeOK, Steps
  <2> QED
    BY <2>1, <2>2
<1>2. CASE TreeEntry
  <2>1. CASE \E why : Stop(why)
    BY <2>1, StopType
  <2>2. CASE ~\E why : Stop(why)
    <3>1. PICK path \in pending : LET i == Resolve(path) IN
            /\ i \in Inodes /\ inventory' = inventory \cup {StatOf(i)}
            /\ pending' = pending \ {path} /\ visited' = visited + 1 /\ listing' = path
            /\ pc' \in {"list", "tree"}
            /\ UNCHANGED <<hostVars, planned, expected, checkVars, stack, cur, childDir, entries,
                           batch, target, seen, resultVars, expired, reason>>
      BY <1>2, <2>2 DEF TreeEntry
    <3>2. StatOf(Resolve(path)) \in Observed
      BY <3>1, StatType DEF TypeOK
    <3> QED
      BY <3>1, <3>2 DEF TypeOK, Steps
  <2> QED
    BY <2>1, <2>2
<1>3. CASE TreeList
  <2>1. CASE \E why : Stop(why)
    BY <2>1, StopType
  <2>2. CASE ~\E why : Stop(why)
    <3> DEFINE d == Follow(Resolve(listing))
    <3>1. \A n \in Entries(d) : Append(listing, n) \in Seq(Names)
      BY DEF TypeOK, Entries
    <3>2. /\ pending' = pending \cup {Append(listing, n) : n \in Entries(d)} /\ pc' = "tree"
          /\ UNCHANGED <<hostVars, planned, expected, listing, inventory, checkVars, walkVars,
                         resultVars, expired, reason>>
      BY <1>3, <2>2 DEF TreeList
    <3> HIDE DEF d
    <3> QED
      BY <3>1, <3>2 DEF TypeOK, Steps
  <2> QED
    BY <2>1, <2>2
<1>4. CASE TreeDone
  BY <1>4 DEF TreeDone, TypeOK, Steps, Checkers
<1> QED
  BY <1>1, <1>2, <1>3, <1>4

\* Reading one process.  Boolean values are split off, one leaf each.
LEMMA TypeRead == ASSUME TypeOK, ReadProcess PROVE TypeOK'
<1> USE DEF evidenceVars, walkVars, resultVars
<1>1. /\ UNCHANGED <<hostVars, evidenceVars, ret, watch, walkVars, resultVars, expired, reason>>
      /\ pc' \in {"scan", "cwd", "maps", "fds", "stat"}
      /\ todo' \subseteq todo /\ reading' \in Procs \cup {reading}
  BY DEF ReadProcess, ReadCmdline, ReadCwd, ReadMaps, ListFds, StatFd
<1>2. fds' \subseteq Fds
  BY DEF ReadProcess, ReadCmdline, ReadCwd, ReadMaps, ListFds, StatFd, TypeOK
<1>3. mentioned' \in BOOLEAN
  <2>1. CASE \E p \in Procs : mentioned' = (<<p, "cmdline", PathRef>> \in refs)
    <3>1. PICK p \in Procs : mentioned' = (<<p, "cmdline", PathRef>> \in refs)
      BY <2>1
    <3>2. (<<p, "cmdline", PathRef>> \in refs) \in BOOLEAN
      OBVIOUS
    <3> QED
      BY <3>1, <3>2, Zenon
  <2>2. CASE ~\E p \in Procs : mentioned' = (<<p, "cmdline", PathRef>> \in refs)
    BY <2>2 DEF ReadProcess, ReadCmdline, ReadCwd, ReadMaps, ListFds, StatFd, TypeOK
  <2> QED
    BY <2>1, <2>2
<1>4. hit' \in BOOLEAN
  <2>1. hit \in BOOLEAN /\ mentioned \in BOOLEAN
    BY DEF TypeOK
  <2>2. CASE UNCHANGED hit
    BY <2>1, <2>2
  <2>3. CASE ~UNCHANGED hit
    <3>1. CASE ReadCwd
      BY <2>1, <2>3, <3>1, Zenon DEF ReadCwd
    <3>2. CASE ReadMaps
      BY <2>1, <2>3, <3>2, Zenon DEF ReadMaps
    <3>3. CASE \E w \in Fds : StatFd(w)
      BY <2>1, <2>3, <3>3, Zenon DEF StatFd
    <3> QED
      BY <2>3, <3>1, <3>2, <3>3 DEF ReadProcess, ReadCmdline, ListFds
  <2> QED
    BY <2>2, <2>3
<1>5. blind' \in BOOLEAN
  <2>1. UNCHANGED blind \/ blind' = TRUE
    BY DEF ReadProcess, ReadCmdline, ReadCwd, ReadMaps, ListFds, StatFd, Hidden
  <2> QED
    BY <2>1 DEF TypeOK
<1> QED
  BY <1>1, <1>2, <1>3, <1>4, <1>5 DEF TypeOK, HostTypeOK, hostVars, Steps

\* The steps of a process check.
LEMMA TypeCheck ==
    ASSUME TypeOK, CheckBegin \/ ReadProcess \/ ScanSelf \/ CheckEnd
    PROVE  TypeOK'
<1> USE DEF hostVars, evidenceVars, checkVars, walkVars, resultVars
<1>1. CASE CheckBegin
  <2>1. CASE \E why : Stop(why)
    BY <2>1, StopType
  <2>2. CASE ~\E why : Stop(why)
    <3> DEFINE i == tree[Top][Cand]
    <3>1. i \in Inodes /\ watch' = Watch(i)
      BY <1>1, <2>2, HostAssumption DEF CheckBegin, TypeOK, HostTypeOK, Tree
    <3>2. hit' = FALSE /\ blind' = FALSE /\ pc' = "scan"
          /\ todo' = alive \cup (IF SelfVisible THEN {Self} ELSE {})
          /\ UNCHANGED <<hostVars, evidenceVars, ret, reading, mentioned, fds, walkVars,
                         resultVars, expired, reason>>
      BY <1>1, <2>2 DEF CheckBegin
    <3>3. Watch(i) \subseteq Inodes
      <4>1. \A m \in inventory : m.ino \in Inodes
        BY DEF TypeOK, Observed
      <4> QED
        BY <3>1, <4>1 DEF Watch, Inventory
    <3> QED
      BY <3>1, <3>2, <3>3 DEF TypeOK, HostTypeOK, Steps
  <2> QED
    BY <2>1, <2>2
<1>2. CASE ScanSelf
  <2>1. hit' \in BOOLEAN
    <3>1. SelfNamed \in BOOLEAN
      BY DeleteTreeAssumption
    <3>2. hit \in BOOLEAN
      BY DEF TypeOK
    <3> QED
      BY <1>2, <3>1, <3>2, Zenon DEF ScanSelf
  <2> QED
    BY <1>2, <2>1 DEF ScanSelf, TypeOK, HostTypeOK
<1>3. CASE CheckEnd
  <2>1. CASE \E why : Stop(why)
    BY <2>1, StopType
  <2>2. CASE ~\E why : Stop(why)
    BY <1>3, <2>2 DEF CheckEnd, TypeOK, HostTypeOK, Steps, Checkers
  <2> QED
    BY <2>1, <2>2
<1> QED
  BY <1>1, <1>2, <1>3, TypeRead

\* The steps of the walk that only look.
LEMMA TypeWalk ==
    ASSUME TypeOK,
           \/ OpenParent \/ StatRoot \/ Pop \/ StatDir \/ OpenDir \/ ListDir \/ StatChild
           \/ StatFile \/ FilesDone \/ RestatFile \/ StatPost \/ RestatPost
    PROVE  TypeOK'
<1> USE DEF hostVars, evidenceVars, checkVars, walkVars, resultVars
<1>0. CASE \E why : Stop(why)
  BY <1>0, StopType
<1> SUFFICES ASSUME ~\E why : Stop(why) PROVE TypeOK'
  BY <1>0
<1>1. CASE OpenParent
  BY <1>1 DEF OpenParent, TypeOK, HostTypeOK, Steps
<1>2. CASE StatRoot
  <2>1. [dir |-> Top, name |-> Cand, id |-> expected, post |-> FALSE] \in Frame
    BY HostAssumption DEF TypeOK, Frame
  <2>2. <<[dir |-> Top, name |-> Cand, id |-> expected, post |-> FALSE]>> \in Seq(Frame)
    BY <2>1
  <2>3. [dir |-> Top, name |-> Cand, st |-> expected] \in FileRef
    BY HostAssumption DEF TypeOK, FileRef
  <2>4. pc' \in {"pop", "check"} /\ ret' \in Checkers /\ stack' \in Seq(Frame) /\ target' \in FileRef
    BY <1>2, <2>2, <2>3 DEF StatRoot, Checkers, TypeOK
  <2>5. UNCHANGED <<hostVars, evidenceVars, todo, reading, mentioned, fds, watch, hit, blind,
                    cur, childDir, entries, batch, seen, visited, resultVars, expired, reason>>
    BY <1>2 DEF StatRoot
  <2> QED
    BY <2>4, <2>5 DEF TypeOK, HostTypeOK, Steps
<1>3. CASE Pop
  <2>1. stack # <<>> /\ cur' = stack[Len(stack)]
        /\ stack' = SubSeq(stack, 1, Len(stack) - 1) /\ pc' \in {"pre", "prePost"}
        /\ UNCHANGED <<hostVars, evidenceVars, checkVars, childDir, entries, batch, target, seen,
                       visited, resultVars, expired, reason>>
    BY <1>3 DEF Pop
  <2>2. Len(stack) \in Nat /\ Len(stack) > 0 /\ \A k \in 1..Len(stack) : stack[k] \in Frame
    BY <2>1 DEF TypeOK
  <2>3. stack' \in Seq(Frame)
    BY <2>1, <2>2, SubSeqProperties
  <2>4. cur' \in Frame
    BY <2>1, <2>2
  <2> QED
    BY <2>1, <2>3, <2>4 DEF TypeOK, HostTypeOK, Steps
<1>4. CASE StatDir
  BY <1>4 DEF StatDir, TypeOK, HostTypeOK, Steps
<1>5. CASE OpenDir
  BY <1>5 DEF OpenDir, TypeOK, HostTypeOK, Steps, IsDir
<1>11. CASE ListDir
  <2>1. entries' \subseteq Names /\ batch' = {} /\ pc' = "scanDir" /\ childDir \in Inodes
        /\ UNCHANGED <<hostVars, evidenceVars, checkVars, stack, cur, childDir, target, seen,
                       visited, resultVars, expired, reason>>
    BY <1>11 DEF ListDir, Entries, TypeOK
  <2>2. IsFiniteSet(batch') /\ \A c \in batch' : c.dir = childDir' /\ c.st.ino \in Inodes
    BY <2>1, FS_EmptySet
  <2> QED
    BY <2>1, <2>2 DEF TypeOK, HostTypeOK, Steps
<1>12. CASE StatChild
  <2>1. PICK n \in entries :
          /\ Lookup(childDir, n) # NoInode
          /\ batch' = batch \cup {Child(n)} /\ entries' = entries \ {n}
          /\ UNCHANGED <<hostVars, pc, evidenceVars, checkVars, stack, cur, childDir, target,
                         seen, visited, resultVars, expired, reason>>
    BY <1>12 DEF StatChild
  <2>2. pc = "scanDir" /\ n \in Names /\ childDir \in Inodes
    BY <1>12 DEF StatChild, TypeOK
  <2>3. Child(n) \in FileRef /\ Child(n).dir = childDir /\ Child(n).st.ino \in Inodes
    BY <2>1, <2>2, ChildType
  <2>4. IsFiniteSet(batch) /\ \A c \in batch : c.dir = childDir /\ c.st.ino \in Inodes
    BY <2>2 DEF TypeOK
  <2>5. IsFiniteSet(batch')
    BY <2>1, <2>4, FS_AddElement
  <2>6. batch' \subseteq FileRef /\ \A c \in batch' : c.dir = childDir /\ c.st.ino \in Inodes
    BY <2>1, <2>3, <2>4 DEF TypeOK
  <2> QED
    BY <2>1, <2>2, <2>5, <2>6 DEF TypeOK, HostTypeOK
<1>6. CASE StatFile
  BY <1>6 DEF StatFile, TypeOK, HostTypeOK, Steps, Checkers
<1>7. CASE FilesDone
  BY <1>7 DEF FilesDone, TypeOK, HostTypeOK, Steps
<1>8. CASE RestatFile
  <2>1. tree[target.dir][target.name] \in Inodes
    BY <1>8 DEF RestatFile, TypeOK, HostTypeOK, Tree, FileRef
  <2> QED
    BY <1>8, <2>1, StatType DEF RestatFile, TypeOK, HostTypeOK, Steps
<1>9. CASE StatPost
  BY <1>9 DEF StatPost, TypeOK, HostTypeOK, Steps, Checkers
<1>10. CASE RestatPost
  <2>1. tree[cur.dir][cur.name] \in Inodes
    BY <1>10 DEF RestatPost, TypeOK, HostTypeOK, Tree, Frame
  <2> QED
    BY <1>10, <2>1, StatType DEF RestatPost, TypeOK, HostTypeOK, Steps
<1> QED
  BY <1>1, <1>2, <1>3, <1>4, <1>5, <1>6, <1>7, <1>8, <1>9, <1>10, <1>11, <1>12

\* What ScanDir does when it does not stop.
LEMMA ScanDirStep ==
    ASSUME TypeOK, ScanDir, ~\E why : Stop(why)
    PROVE  /\ pc = "scanDir" /\ pc' = "files"
           /\ \A c \in batch : Member(c.st)
           /\ \E order \in Seq(batch) :
                 stack' = Append(stack, [cur EXCEPT !.post = TRUE])
                            \o [k \in 1..Len(order) |->
                                  [dir |-> childDir, name |-> order[k].name,
                                   id |-> order[k].st, post |-> FALSE]]
           /\ batch' \subseteq batch
           /\ visited' = visited + Cardinality(batch)
           /\ UNCHANGED <<hostVars, evidenceVars, checkVars, cur, childDir, entries, target, seen,
                          resultVars, expired, reason>>
<1> DEFINE dirs == {c \in batch : c.st.kind = "dir"}
<1>1. /\ pc = "scanDir" /\ pc' = "files"
      /\ \A c \in batch : Member(c.st)
      /\ \E order \in SetToSeqs(dirs) :
            stack' = Append(stack, [cur EXCEPT !.post = TRUE])
                       \o [k \in 1..Len(order) |->
                             [dir |-> childDir, name |-> order[k].name,
                              id |-> order[k].st, post |-> FALSE]]
      /\ batch' = batch \ dirs
      /\ visited' = visited + Cardinality(batch)
      /\ UNCHANGED <<hostVars, evidenceVars, checkVars, cur, childDir, entries, target, seen,
                     resultVars, expired, reason>>
  BY DEF ScanDir
<1>2. IsFiniteSet(dirs)
  <2>1. IsFiniteSet(batch) /\ dirs \subseteq batch
    BY <1>1 DEF TypeOK
  <2> HIDE DEF dirs
  <2> QED
    BY <2>1, FS_Subset
<1>3. Cardinality(dirs) \in Nat
  BY <1>2, FS_CardinalityType
<1>4. SetToSeqs(dirs) \subseteq Seq(batch)
  <2>1. dirs \subseteq batch
    OBVIOUS
  <2> HIDE DEF dirs
  <2> SUFFICES ASSUME NEW f \in SetToSeqs(dirs) PROVE f \in Seq(batch)
    OBVIOUS
  <2>2. f \in [1..Cardinality(dirs) -> batch]
    BY <2>1 DEF SetToSeqs
  <2> QED
    BY <1>3, <2>2
<1> QED
  BY <1>1, <1>4

LEMMA TypeScanDir == ASSUME TypeOK, ScanDir PROVE TypeOK'
<1> USE DEF hostVars, evidenceVars, checkVars, walkVars, resultVars
<1>0. CASE \E why : Stop(why)
  BY <1>0, StopType
<1> SUFFICES ASSUME ~\E why : Stop(why) PROVE TypeOK'
  BY <1>0
<1>1. pc = "scanDir" /\ childDir \in Inodes
  BY ScanDirStep DEF TypeOK
<1>2. batch \subseteq FileRef /\ IsFiniteSet(batch)
  BY <1>1 DEF TypeOK
<1>3. Cardinality(batch) \in Nat
  BY <1>2, FS_CardinalityType
<1>4. PICK order \in Seq(batch) :
        stack' = Append(stack, [cur EXCEPT !.post = TRUE])
                   \o [k \in 1..Len(order) |->
                         [dir |-> childDir, name |-> order[k].name,
                          id |-> order[k].st, post |-> FALSE]]
  BY ScanDirStep
<1>5. stack' \in Seq(Frame)
  <2> DEFINE pushed == [k \in 1..Len(order) |->
                          [dir |-> childDir, name |-> order[k].name,
                           id |-> order[k].st, post |-> FALSE]]
  <2>1. \A k \in 1..Len(order) : order[k] \in FileRef
    BY <1>2
  <2>2. \A k \in 1..Len(order) : pushed[k] \in Frame
    BY <1>1, <2>1 DEF Frame, FileRef
  <2>3. pushed \in Seq(Frame)
    BY <2>2
  <2>4. [cur EXCEPT !.post = TRUE] \in Frame
    BY DEF TypeOK, Frame
  <2>5. Append(stack, [cur EXCEPT !.post = TRUE]) \in Seq(Frame)
    BY <2>4, AppendProperties DEF TypeOK
  <2> QED
    BY <1>4, <2>3, <2>5, ConcatProperties
<1>6. /\ pc' = "files" /\ batch' \subseteq FileRef /\ visited' \in Nat
      /\ UNCHANGED <<hostVars, evidenceVars, checkVars, cur, childDir, entries, target, seen,
                     resultVars, expired, reason>>
  BY <1>2, <1>3, ScanDirStep DEF TypeOK
<1> QED
  BY <1>1, <1>5, <1>6 DEF TypeOK, HostTypeOK, Steps

\* The two steps that remove something.
LEMMA TypeDiscard ==
    ASSUME TypeOK, NEW d \in Inodes, NEW n \in Names, NEW recorded \in Stats,
           tree[d][n] \in Inodes, Discard(d, n, recorded),
           pc' \in Steps \ {"listDir", "scanDir"}, pc' = "files" => childDir \in Inodes
    PROVE  TypeOK'
<1> USE DEF evidenceVars, checkVars, walkVars, procVars
<1>1. node' \in [Inodes -> Node] /\ tree' \in Tree
  BY UnboundType DEF Discard, Bind, TypeOK
<1>2. deleted' \in Nat
  <2>1. deleted' = deleted + seen.blocks
    BY DEF Discard, Accounted
  <2>2. deleted \in Nat /\ seen.blocks \in Nat
    BY DEF TypeOK, Stats
  <2> QED
    BY <2>1, <2>2
<1>3. removed' \subseteq Removal
  <2>1. [actual |-> StatOf(tree[d][n]), seen |-> seen, recorded |-> recorded] \in Removal
    BY StatType DEF TypeOK, Removal
  <2> QED
    BY <2>1 DEF Discard, TypeOK
<1>4. overtime' \in 0..2
  BY DEF Discard, TypeOK
<1>5. late' \in [refs -> 0..2]
  BY DEF Discard, TypeOK
<1>6. UNCHANGED <<changes, alive, refs, opens, planned, expected, pending, listing, inventory,
                  ret, todo, reading, mentioned, fds, watch, hit, blind, stack, cur, childDir,
                  entries, batch, target, seen, visited, expired>>
  BY DEF Discard
<1> QED
  BY <1>1, <1>2, <1>3, <1>4, <1>5, <1>6 DEF TypeOK, HostTypeOK

LEMMA TypeRemove == ASSUME TypeOK, UnlinkFile \/ RemoveDir PROVE TypeOK'
<1>0. CASE \E why : Stop(why)
  BY <1>0, StopType
<1> SUFFICES ASSUME ~\E why : Stop(why) PROVE TypeOK'
  BY <1>0
<1>1. CASE UnlinkFile
  <2>1. /\ tree[target.dir][target.name] # NoInode
        /\ Discard(target.dir, target.name, target.st)
        /\ pc' \in Steps \ {"listDir", "scanDir"}
        /\ pc' = "files" => childDir # NoInode
    BY <1>1 DEF UnlinkFile, Steps
  <2>2. target.dir \in Inodes /\ target.name \in Names /\ target.st \in Stats
    BY DEF TypeOK, FileRef
  <2>3. tree[target.dir][target.name] \in Inodes /\ childDir \in Inodes \cup {NoInode}
    BY <2>1, <2>2 DEF TypeOK, HostTypeOK, Tree
  <2>4. pc' = "files" => childDir \in Inodes
    BY <2>1, <2>3
  <2> QED
    BY <2>1, <2>2, <2>3, <2>4, TypeDiscard
<1>2. CASE RemoveDir
  <2>1. /\ tree[cur.dir][cur.name] # NoInode
        /\ Discard(cur.dir, cur.name, cur.id)
        /\ pc' = "pop"
    BY <1>2 DEF RemoveDir
  <2>2. cur.dir \in Inodes /\ cur.name \in Names /\ cur.id \in Stats
    BY DEF TypeOK, Frame
  <2>3. tree[cur.dir][cur.name] \in Inodes
    BY <2>1, <2>2 DEF TypeOK, HostTypeOK, Tree
  <2> QED
    BY <2>1, <2>2, <2>3, TypeDiscard DEF Steps
<1> QED
  BY <1>1, <1>2

\* What other programs do keeps the machine well typed.
LEMMA HostStepType ==
    ASSUME HostTypeOK, FileSystemStep \/ ProcessStep
    PROVE  HostTypeOK'
<1>1. ASSUME NEW i \in Inodes
      PROVE  Touched(i) \in Node
  BY DEF HostTypeOK, Touched, Node
<1>2. CASE FileSystemStep
  <2>0. ASSUME Change PROVE changes' \in Nat /\ UNCHANGED <<alive, refs, opens>>
    BY <2>0 DEF Change, procVars, HostTypeOK
  <2> SUFFICES node' \in [Inodes -> Node] /\ tree' \in Tree /\ Change
    BY <2>0 DEF HostTypeOK
  <2>1. ASSUME NEW i \in Inodes, Write(i) PROVE node' \in [Inodes -> Node] /\ tree' \in Tree /\ Change
    <3>1. \A b \in Sizes : [Touched(i) EXCEPT !.blocks = b] \in Node
      BY <1>1, HostAssumption DEF Node
    <3> QED
      BY <2>1, <3>1 DEF Write, HostTypeOK
  <2>2. ASSUME NEW i \in Inodes, Chown(i) PROVE node' \in [Inodes -> Node] /\ tree' \in Tree /\ Change
    <3>1. PICK o \in Owners : node' = [node EXCEPT ![i] = [Touched(i) EXCEPT !.own = o]]
      BY <2>2 DEF Chown
    <3>2. [Touched(i) EXCEPT !.own = o] \in Node
      BY <1>1 DEF Node
    <3> QED
      BY <2>2, <3>1, <3>2 DEF Chown, HostTypeOK
  <2>3. ASSUME NEW i \in Inodes, NEW d \in Inodes, NEW n \in Names, Create(d, n, i)
        PROVE  node' \in [Inodes -> Node] /\ tree' \in Tree /\ Change
    <3>1. ASSUME NEW k \in CreateKinds, NEW size \in Sizes
          PROVE  [Touched(i) EXCEPT !.kind = k, !.own = 0, !.blocks = size] \in Node
      <4>1. Touched(i) \in Node /\ k \in Kinds /\ size \in Nat /\ 0 \in Owners
        BY <1>1, HostAssumption DEF Owners
      <4> QED
        BY <4>1 DEF Node
    <3>2. tree' \in Tree
      BY <2>3 DEF Create, Bind, HostTypeOK, Tree
    <3> QED
      BY <1>1, <2>3, <3>1, <3>2 DEF Create, HostTypeOK
  <2>4. ASSUME NEW i \in Inodes, NEW d \in Inodes, NEW n \in Names, Link(d, n, i)
        PROVE  node' \in [Inodes -> Node] /\ tree' \in Tree /\ Change
    <3>1. tree' \in Tree
      BY <2>4 DEF Link, Bind, HostTypeOK, Tree
    <3> QED
      BY <1>1, <2>4, <3>1 DEF Link, HostTypeOK
  <2>5. ASSUME NEW i \in Inodes, NEW d \in Inodes, NEW n \in Names, MountOver(d, n, i)
        PROVE  node' \in [Inodes -> Node] /\ tree' \in Tree /\ Change
    <3>1. [Touched(i) EXCEPT !.kind = "mount"] \in Node
      BY <1>1 DEF Node, Kinds
    <3>2. tree' \in Tree
      BY <2>5 DEF MountOver, Bind, HostTypeOK, Tree
    <3> QED
      BY <2>5, <3>1, <3>2 DEF MountOver, HostTypeOK
  <2>6. ASSUME NEW d \in Inodes, NEW n \in Names, Delete(d, n)
        PROVE  node' \in [Inodes -> Node] /\ tree' \in Tree /\ Change
    <3>1. tree[d][n] \in Inodes
      BY <2>6 DEF Delete, HostTypeOK, Tree
    <3> QED
      BY <2>6, <3>1, UnboundType DEF Delete, Bind
  <2>7. ASSUME NEW d \in Inodes, NEW n \in Names, NEW e \in Inodes, NEW m \in Names,
               Rename(d, n, e, m)
        PROVE  node' \in [Inodes -> Node] /\ tree' \in Tree /\ Change
    <3> DEFINE i == tree[d][n]
               after == IF tree[e][m] = NoInode THEN node ELSE Unbound(e, m)
    <3>1. i \in Inodes
      BY <2>7 DEF Rename, HostTypeOK, Tree
    <3>2. after \in [Inodes -> Node]
      <4>1. CASE tree[e][m] = NoInode
        BY <4>1 DEF HostTypeOK
      <4>2. CASE tree[e][m] # NoInode
        <5>1. tree[e][m] \in Inodes
          BY <4>2 DEF HostTypeOK, Tree
        <5> QED
          BY <4>2, <5>1, UnboundType
      <4> QED
        BY <4>1, <4>2
    <3>3. node' = [x \in Inodes |-> IF x \in {d, e, i} THEN [after[x] EXCEPT !.ver = @ + 1]
                                                        ELSE after[x]]
      BY <2>7 DEF Rename
    <3> HIDE DEF after
    <3>4. \A x \in Inodes : after[x] \in Node /\ [after[x] EXCEPT !.ver = @ + 1] \in Node
      BY <3>2 DEF Node
    <3>5. node' \in [Inodes -> Node]
      BY <3>3, <3>4
    <3>6. tree' = [tree EXCEPT ![d][n] = NoInode, ![e][m] = i]
      BY <2>7 DEF Rename
    <3>7. tree' \in Tree
      BY <3>1, <3>6 DEF HostTypeOK, Tree
    <3> QED
      BY <2>7, <3>5, <3>7 DEF Rename
  <2> QED
    BY <1>2, <2>1, <2>2, <2>3, <2>4, <2>5, <2>6, <2>7 DEF FileSystemStep
<1>3. CASE ProcessStep
  <2>1. ASSUME NEW p \in Procs, NEW w \in Ways, NEW x \in Targets, Open(p, w, x)
        PROVE  HostTypeOK'
    BY <2>1 DEF Open, HostTypeOK
  <2>4. ASSUME NEW r \in refs, Close(r)
        PROVE  HostTypeOK'
    BY <2>4 DEF Close, HostTypeOK
  <2>2. ASSUME NEW p \in Procs, NEW q \in Procs, Fork(p, q)
        PROVE  HostTypeOK'
    <3>1. alive' = alive \cup {q} /\ alive \subseteq Procs
          /\ refs \subseteq {r \in Handles : r[1] \in alive}
      BY <2>2 DEF Fork, HostTypeOK
    <3>2. ASSUME NEW r \in refs' PROVE r \in Handles /\ r[1] \in alive'
      <4>1. CASE r \in refs
        BY <3>1, <4>1
      <4>2. CASE r \notin refs
        <5>1. PICK o \in refs : r = <<q, o[2], o[3]>>
          BY <2>2, <4>2 DEF Fork, Held
        <5>2. o \in Handles
          BY <3>1
        <5> QED
          BY <3>1, <5>1, <5>2 DEF Handles
      <4> QED
        BY <4>1, <4>2
    <3>3. alive' \subseteq Procs
      BY <3>1
    <3>4. opens' \in Nat /\ UNCHANGED <<tree, node, changes>>
      BY <2>2 DEF Fork, HostTypeOK
    <3> QED
      BY <3>2, <3>3, <3>4 DEF HostTypeOK
  <2>3. ASSUME NEW p \in Procs, Exit(p)
        PROVE  HostTypeOK'
    BY <2>3 DEF Exit, Held, HostTypeOK
  <2> QED
    BY <1>3, <2>1, <2>2, <2>3, <2>4 DEF ProcessStep
<1> QED
  BY <1>2, <1>3

LEMMA TypeEnvironment == ASSUME TypeOK, Environment PROVE TypeOK'
<1> USE DEF evidenceVars, checkVars, walkVars
<1>1. CASE OtherPrograms
  <2>1. HostTypeOK'
    BY <1>1, HostStepType DEF OtherPrograms, TypeOK
  <2>2. late' \in [refs' -> 0..2]
    BY <1>1 DEF OtherPrograms, TypeOK
  <2> QED
    BY <1>1, <2>1, <2>2 DEF OtherPrograms, TypeOK
<1>2. CASE DeadlinePasses
  BY <1>2 DEF DeadlinePasses, TypeOK, HostTypeOK, hostVars, resultVars
<1> QED
  BY <1>1, <1>2 DEF Environment

LEMMA TypeStutter == ASSUME TypeOK, UNCHANGED vars PROVE TypeOK'
BY DEF TypeOK, HostTypeOK, vars, hostVars, evidenceVars, checkVars, walkVars, resultVars

LEMMA TypeNext == TypeOK /\ [Next]_vars => TypeOK'
BY TypeRecheck, TypeCheck, TypeWalk, TypeScanDir, TypeRemove, TypeEnvironment, TypeStutter
   DEF Next, Agent

\* Every state of every behaviour is well typed.
THEOREM TypeCorrect == Spec => []TypeOK
<1>1. Init => TypeOK
  BY TypeInit
<1>2. TypeOK /\ [Next]_vars => TypeOK'
  BY TypeNext
<1> QED
  BY <1>1, <1>2, PTL DEF Spec

-----------------------------------------------------------------------------
(***************************************************************************)
(* Frame lemmas: which steps remove, and which only look.                  *)
(***************************************************************************)

\* A step of the agent that is not a removal leaves the machine and the
\* history alone, and reaches a cleared step only from another one or from a
\* check of the walker that found nothing in time.
LEMMA LookingStep ==
    ASSUME TypeOK, Agent, ~UnlinkFile, ~RemoveDir
    PROVE  /\ UNCHANGED <<hostVars, resultVars, expired>>
           /\ pc # "done"
           /\ pc' \in AfterCheck =>
                \/ pc \in AfterCheck
                \/ CheckEnd /\ ret # "recheck" /\ ~OutOfTime
<1> USE DEF AfterCheck
<1>0. ASSUME NEW why, Stop(why) PROVE UNCHANGED <<hostVars, resultVars, expired>> /\ pc' = "done"
  BY <1>0 DEF Stop
<1>1. CASE Inspect \/ TreeEntry \/ TreeList \/ TreeDone
  BY <1>0, <1>1 DEF Inspect, TreeEntry, TreeList, TreeDone, checkVars, walkVars
<1>2. CASE CheckBegin \/ ReadProcess \/ ScanSelf
  BY <1>0, <1>2 DEF CheckBegin, ReadProcess, ReadCmdline, ReadCwd, ReadMaps, ListFds, StatFd,
                    ScanSelf
<1>3. CASE CheckEnd
  BY <1>0, <1>3 DEF CheckEnd
<1>4. CASE OpenParent \/ StatRoot \/ Pop \/ StatDir \/ OpenDir
  BY <1>0, <1>4 DEF OpenParent, StatRoot, Pop, StatDir, OpenDir
<1>5. CASE ListDir \/ StatChild \/ ScanDir
  BY <1>0, <1>5 DEF ListDir, StatChild, ScanDir
<1>6. CASE StatFile \/ FilesDone \/ RestatFile \/ StatPost \/ RestatPost
  BY <1>0, <1>6 DEF StatFile, FilesDone, RestatFile, StatPost, RestatPost
<1> QED
  BY <1>1, <1>2, <1>3, <1>4, <1>5, <1>6 DEF Agent

\* Reading a process touches nothing but the state of the check.
LEMMA ReadStep ==
    ASSUME ReadProcess
    PROVE  /\ pc \in {"scan", "cwd", "maps", "fds", "stat"}
           /\ pc' \in {"scan", "cwd", "maps", "fds", "stat"}
           /\ UNCHANGED <<hostVars, evidenceVars, ret, watch, walkVars, resultVars, expired, reason>>
           /\ \A p : p \in todo /\ p \notin Procs => p \in todo'
BY DEF ReadProcess, ReadCmdline, ReadCwd, ReadMaps, ListFds, StatFd

\* Listing a directory touches nothing but the list.
LEMMA ListStep ==
    ASSUME ListDir \/ StatChild, ~\E why : Stop(why)
    PROVE  /\ pc \in {"listDir", "scanDir"} /\ pc' = "scanDir"
           /\ UNCHANGED <<hostVars, evidenceVars, checkVars, stack, cur, childDir, target, seen,
                          visited, resultVars, expired, reason>>
BY DEF ListDir, StatChild

\* A removal is a cleared step, and nothing is cleared after it.
LEMMA RemovalStep ==
    ASSUME TypeOK, UnlinkFile \/ RemoveDir
    PROVE  /\ pc \in {"unlink", "rmdir"}
           /\ pc' \in {"done", "files", "pop"}
           /\ \/ \E why : Stop(why)
              \/ \E d \in Inodes, n \in Names, recorded \in Stats : Discard(d, n, recorded)
<1>1. target.dir \in Inodes /\ target.name \in Names /\ target.st \in Stats
  BY DEF TypeOK, FileRef
<1>2. cur.dir \in Inodes /\ cur.name \in Names /\ cur.id \in Stats
  BY DEF TypeOK, Frame
<1>3. CASE UnlinkFile
  BY <1>1, <1>3 DEF UnlinkFile, Stop
<1>4. CASE RemoveDir
  BY <1>2, <1>4 DEF RemoveDir, Stop
<1> QED
  BY <1>3, <1>4

-----------------------------------------------------------------------------
(* The deadline.                                                           *)

LEMMA OvertimeInit == Init => OvertimeInv
BY DEF Init, OvertimeInv, OvertimeBounded, AfterCheck

LEMMA OvertimeNext == TypeOK /\ OvertimeInv /\ [Next]_vars => OvertimeInv'
<1> SUFFICES ASSUME TypeOK, OvertimeInv, [Next]_vars PROVE OvertimeInv'
  OBVIOUS
<1> USE DEF OvertimeInv, OvertimeBounded, AfterCheck
<1>1. CASE Agent /\ ~UnlinkFile /\ ~RemoveDir
  <2>1. UNCHANGED <<overtime, expired>>
    BY <1>1, LookingStep DEF resultVars
  <2>2. CASE pc' \in AfterCheck
    <3>1. pc \in AfterCheck \/ ~expired
      BY <1>1, <2>2, LookingStep DEF OutOfTime
    <3>2. overtime \in 0..2
      BY DEF TypeOK
    <3>3. overtime = 0
      BY <3>1, <3>2
    <3> QED
      BY <2>1, <3>3
  <2> QED
    BY <2>1, <2>2
<1>2. CASE UnlinkFile \/ RemoveDir
  <2>1. CASE \E why : Stop(why)
    BY <2>1 DEF Stop, resultVars
  <2>2. CASE \E d \in Inodes, n \in Names, recorded \in Stats : Discard(d, n, recorded)
    <3>1. overtime = 0 /\ pc' \notin AfterCheck
      BY <1>2, RemovalStep
    <3>2. overtime' = (IF expired /\ overtime < 2 THEN overtime + 1 ELSE overtime)
          /\ expired' = expired
      BY <2>2 DEF Discard
    <3> QED
      BY <3>1, <3>2
  <2> QED
    BY <1>2, <2>1, <2>2, RemovalStep
<1>3. CASE Environment
  <2>1. CASE OtherPrograms
    BY <2>1 DEF OtherPrograms
  <2>2. CASE DeadlinePasses
    BY <2>2 DEF DeadlinePasses, resultVars
  <2> QED
    BY <1>3, <2>1, <2>2 DEF Environment
<1>4. CASE UNCHANGED vars
  BY <1>4 DEF vars, resultVars
<1> QED
  BY <1>1, <1>2, <1>3, <1>4 DEF Next

\* However many entries are left, at most one is removed after the deadline.
THEOREM DeadlineHolds == Spec => []OvertimeBounded
<1>1. Init => OvertimeInv
  BY OvertimeInit
<1>2. TypeOK /\ OvertimeInv /\ [Next]_vars => OvertimeInv'
  BY OvertimeNext
<1>3. OvertimeInv => OvertimeBounded
  BY DEF OvertimeInv
<1> QED
  BY <1>1, <1>2, <1>3, TypeCorrect, PTL DEF Spec

-----------------------------------------------------------------------------
(* References.                                                             *)

\* What holds a member of the tree, and how.
LEMMA TrackedType ==
    ASSUME TypeOK, NEW r \in Tracked
    PROVE  /\ r \in refs /\ r = <<r[1], r[2], r[3]>> /\ r[1] \in alive /\ r[1] \in Procs
           /\ r[2] \in PathWays => r = <<r[1], r[2], PathRef>>
           /\ r[2] \notin PathWays => r[3] \in Inventory /\ (r[2] = "map" \/ r[2] \in Fds)
<1>1. r \in refs /\ r[3] \in Inventory \cup {PathRef}
  BY DEF Tracked
<1>2. r \in Handles /\ r[1] \in alive
  BY <1>1 DEF TypeOK, HostTypeOK
<1> QED
  BY <1>1, <1>2 DEF Handles, Ways

LEMMA HolderInit == Init => HolderInv
<1> SUFFICES ASSUME Init PROVE HolderInv
  OBVIOUS
<1>1. \A r \in refs : late[r] = 0
  BY DEF Init
<1>2. \A r \in Tracked : late[r] = 0
  BY <1>1 DEF Tracked
<1>3. pc = "inspect"
  BY DEF Init
<1> QED
  BY <1>1, <1>2, <1>3 DEF HolderInv, HolderStops, AfterCheck, Scanning

\* Stopping keeps the invariant: nothing of it depends on the reason.
LEMMA HolderStopped == ASSUME HolderInv, NEW why, Stop(why) PROVE HolderInv'
BY DEF Stop, HolderInv, HolderStops, Tracked, Inventory, Surveying, AfterCheck, Scanning,
       hostVars, evidenceVars, checkVars, resultVars

\* While the tree is surveyed nothing has been removed yet.
LEMMA HolderSurvey ==
    ASSUME TypeOK, HolderInv, Inspect \/ TreeEntry \/ TreeList \/ TreeDone, ~\E why : Stop(why)
    PROVE  HolderInv'
<1>1. Surveying
  BY DEF Surveying, Inspect, TreeEntry, TreeList, TreeDone
<1>2. pc' \in {"tree", "list", "check"} /\ UNCHANGED <<refs, late>>
  BY DEF Inspect, TreeEntry, TreeList, TreeDone, hostVars, resultVars
<1>3. \A r \in refs' : late'[r] = 0
  BY <1>1, <1>2 DEF HolderInv
<1>4. HolderStops'
  BY <1>3 DEF HolderStops, Tracked
<1> QED
  BY <1>2, <1>3, <1>4 DEF HolderInv, AfterCheck, Scanning

\* Who was in the process table when the check began is still to be read.
LEMMA HolderBegin ==
    ASSUME TypeOK, HolderInv, CheckBegin, ~\E why : Stop(why)
    PROVE  HolderInv'
<1>1. /\ pc = "check" /\ pc' = "scan"
      /\ alive \subseteq todo' /\ watch' = Watch(tree[Top][Cand])
      /\ UNCHANGED <<refs, late, inventory>>
  BY DEF CheckBegin, hostVars, resultVars, evidenceVars
<1>2. (Inventory \subseteq watch)'
  BY <1>1 DEF Watch, Inventory
<1>3. Tracked' = Tracked
  BY <1>1 DEF Tracked, Inventory
<1>4. \A r \in Tracked' : ~Unmet(r)'
  BY <1>1, <1>3, TrackedType DEF Unmet
<1>5. HolderStops'
  BY <1>1, <1>3 DEF HolderInv, HolderStops
<1> QED
  BY <1>1, <1>2, <1>4, <1>5 DEF HolderInv, Surveying, AfterCheck

\* What is held is met by the step that looks for it, or is still to come.
LEMMA ReadMeets ==
    ASSUME TypeOK, HolderInv, ReadProcess, NEW r \in Tracked, ~hit', ~blind', ~Unmet(r)
    PROVE  ~Unmet(r)'
<1>0. /\ r \in refs /\ r = <<r[1], r[2], r[3]>> /\ r[1] \in alive /\ r[1] \in Procs
      /\ r[2] \in PathWays => r = <<r[1], r[2], PathRef>>
      /\ r[2] \notin PathWays => r[3] \in Inventory /\ (r[2] = "map" \/ r[2] \in Fds)
  BY TrackedType
<1>1. ~Hidden
  BY DEF Hidden
<1>2. ~hit
  BY Zenon DEF ReadProcess, ReadCmdline, ReadCwd, ReadMaps, ListFds, StatFd
<1>3. ~blind
  BY <1>1 DEF ReadProcess, ReadCmdline, ReadCwd, ReadMaps, ListFds, StatFd
<1>4. r[1] \in todo \/ (reading = r[1] /\ Unread(r[2]))
  BY <1>2, <1>3 DEF Unmet
<1>5. SUFFICES r[1] \in todo' \/ (reading' = r[1] /\ Unread(r[2])')
  BY DEF Unmet
<1>6. CASE \E p \in Procs : ReadCmdline(p)
  <2>1. PICK p \in Procs : ReadCmdline(p)
    BY <1>6
  <2>2. pc = "scan" /\ todo' = todo \ {p} /\ reading' = p
    BY <2>1 DEF ReadCmdline
  <2>3. r[1] \in todo
    BY <1>4, <2>2 DEF Unread
  <2>4. CASE r[1] = p
    <3>1. pc' = "cwd" /\ mentioned' = (<<p, "cmdline", PathRef>> \in refs)
      BY <1>0, <1>1, <2>1, <2>4 DEF ReadCmdline
    <3>2. CASE r[2] = "cmdline"
      <4>1. <<p, "cmdline", PathRef>> \in refs
        BY <1>0, <2>4, <3>2 DEF PathWays
      <4> QED
        BY <2>2, <2>4, <3>1, <4>1, Zenon DEF Unread
    <3>3. CASE r[2] # "cmdline"
      BY <2>2, <2>4, <3>1, <3>3, Zenon DEF Unread
    <3> QED
      BY <3>2, <3>3
  <2>5. CASE r[1] # p
    BY <2>2, <2>3, <2>5
  <2> QED
    BY <2>4, <2>5
<1>7. CASE ReadCwd
  <2>1. pc = "cwd" /\ UNCHANGED <<todo, reading>>
    BY <1>7 DEF ReadCwd
  <2>2. CASE r[1] \in todo
    BY <2>1, <2>2
  <2>3. CASE reading = r[1] /\ Unread(r[2])
    <3>1. pc' = "maps" /\ hit' = (hit \/ mentioned \/ <<reading, "cwd", PathRef>> \in refs)
      BY <1>0, <1>1, <1>7, <2>3 DEF ReadCwd
    <3>2. ~mentioned /\ <<reading, "cwd", PathRef>> \notin refs
      BY <3>1, Zenon
    <3>3. r[2] # "cmdline"
      BY <2>1, <2>3, <3>2, Zenon DEF Unread
    <3>4. r[2] # "cwd"
      BY <1>0, <2>3, <3>2 DEF PathWays
    <3>5. r[2] \notin PathWays
      BY <3>3, <3>4 DEF PathWays
    <3> QED
      BY <2>1, <2>3, <3>1, <3>5, Zenon DEF Unread
  <2> QED
    BY <1>4, <2>2, <2>3
<1>8. CASE ReadMaps
  <2>1. pc = "maps" /\ pc' = "fds" /\ UNCHANGED <<todo, reading>>
        /\ hit' = (hit \/ \E x \in Inventory : <<reading, "map", x>> \in refs)
    BY <1>1, <1>8 DEF ReadMaps
  <2>2. CASE r[1] \in todo
    BY <2>1, <2>2
  <2>3. CASE reading = r[1] /\ Unread(r[2])
    <3>1. r[2] \notin PathWays
      BY <2>1, <2>3 DEF Unread
    <3>2. ~\E x \in Inventory : <<reading, "map", x>> \in refs
      BY <2>1, Zenon
    <3>3. r[2] \in Fds
      BY <1>0, <2>3, <3>1, <3>2
    <3> QED
      BY <2>1, <2>3, <3>3 DEF Unread
  <2> QED
    BY <1>4, <2>2, <2>3
<1>9. CASE ListFds
  <2>1. /\ pc = "fds" /\ UNCHANGED <<todo, reading>>
        /\ fds' = {w \in Fds : \E o \in Held(reading) : o[2] = w}
        /\ pc' = IF fds' = {} THEN "scan" ELSE "stat"
    BY <1>1, <1>9 DEF ListFds
  <2>2. CASE r[1] \in todo
    BY <2>1, <2>2
  <2>3. CASE reading = r[1] /\ Unread(r[2])
    <3>1. r[2] \in fds'
      BY <1>0, <2>1, <2>3 DEF Unread, Held
    <3> QED
      BY <2>1, <2>3, <3>1 DEF Unread
  <2> QED
    BY <1>4, <2>2, <2>3
<1>10. CASE \E w \in Fds : StatFd(w)
  <2>1. PICK w \in Fds : StatFd(w)
    BY <1>10
  <2> DEFINE leads == \E x \in watch : <<reading, w, x>> \in refs
  <2>2. /\ pc = "stat" /\ UNCHANGED <<todo, reading>>
        /\ hit' = (hit \/ leads)
        /\ fds' = IF leads THEN {} ELSE fds \ {w}
        /\ pc' = IF fds' = {} THEN "scan" ELSE "stat"
    BY <1>1, <2>1 DEF StatFd
  <2>3. ~leads
    <3> HIDE DEF leads
    <3> QED
      BY <2>2, Zenon
  <2>4. CASE r[1] \in todo
    BY <2>2, <2>4
  <2>5. CASE reading = r[1] /\ Unread(r[2])
    <3>1. r[2] \in fds
      BY <2>2, <2>5 DEF Unread
    <3>2. r[3] \in watch
      BY <1>0, <2>2, <3>1, HostAssumption DEF HolderInv, Scanning, TypeOK
    <3>3. r[2] # w
      BY <1>0, <2>3, <2>5, <3>2
    <3> QED
      BY <2>2, <2>3, <2>5, <3>1, <3>3 DEF Unread
  <2> QED
    BY <1>4, <2>4, <2>5
<1> QED
  BY <1>6, <1>7, <1>8, <1>9, <1>10 DEF ReadProcess

\* So reading one process forgets no reference.
LEMMA HolderScan ==
    ASSUME TypeOK, HolderInv, ReadProcess \/ ScanSelf
    PROVE  HolderInv'
<1>1. /\ pc \in Scanning /\ pc' \in Scanning
      /\ UNCHANGED <<refs, late, inventory, watch, alive>>
  BY DEF ReadProcess, ReadCmdline, ReadCwd, ReadMaps, ListFds, StatFd, ScanSelf, Scanning,
         hostVars, resultVars, evidenceVars
<1>2. HolderStops' /\ Tracked' = Tracked
  BY <1>1 DEF HolderInv, HolderStops, Tracked, Inventory
<1>3. ASSUME NEW r \in Tracked, Unmet(r)' PROVE Unmet(r)
  <2>1. ~hit' /\ ~blind'
    BY <1>3, Zenon DEF Unmet
  <2>2. CASE ReadProcess
    BY <1>3, <2>1, <2>2, ReadMeets
  <2>3. CASE ScanSelf
    <3>1. UNCHANGED <<pc, reading, mentioned, fds, blind>> /\ todo' = todo \ {Self}
      BY <2>3 DEF ScanSelf
    <3>2. ~hit
      BY <2>1, <2>3, Zenon DEF ScanSelf
    <3>3. r[1] # Self
      BY TrackedType, DeleteTreeAssumption
    <3>4. Unread(r[2])' = Unread(r[2])
      BY <3>1 DEF Unread
    <3> QED
      BY <1>3, <3>1, <3>2, <3>3, <3>4 DEF Unmet
  <2> QED
    BY <2>2, <2>3
<1>4. \A r \in Tracked' : Unmet(r)' => late'[r] = 0
  BY <1>1, <1>2, <1>3 DEF HolderInv
<1>5. (Inventory \subseteq watch)'
  BY <1>1 DEF HolderInv, Inventory
<1> QED
  BY <1>1, <1>2, <1>4, <1>5 DEF HolderInv, Surveying, AfterCheck, Scanning

\* A check that read everybody and saw everything met every reference.
LEMMA HolderEnd ==
    ASSUME TypeOK, HolderInv, CheckEnd, ~\E why : Stop(why)
    PROVE  HolderInv'
<1>1. pc = "scan" /\ todo = {} /\ ~hit /\ ~blind /\ pc' \in Checkers \cup {"parent"}
      /\ UNCHANGED <<refs, late, inventory>>
  BY DEF CheckEnd, TypeOK, hostVars, resultVars, evidenceVars
<1>2. pc' \notin {"inspect", "tree", "list"} \cup Scanning
  BY DEF CheckEnd, TypeOK, Checkers, Scanning
<1>3. \A r \in Tracked : Unmet(r)
  BY <1>1 DEF Unmet, Unread
<1>4. \A r \in Tracked : late[r] = 0
  BY <1>1, <1>3 DEF HolderInv, Scanning
<1> QED
  BY <1>1, <1>2, <1>4 DEF HolderInv, HolderStops, Tracked, Inventory, Surveying

\* The other steps of the walk leave references, counters and inventory alone.
LEMMA HolderWalk ==
    ASSUME TypeOK, HolderInv, ~\E why : Stop(why),
           \/ OpenParent \/ StatRoot \/ Pop \/ StatDir \/ OpenDir \/ ListDir \/ StatChild
           \/ ScanDir \/ StatFile \/ FilesDone \/ RestatFile \/ StatPost \/ RestatPost
    PROVE  HolderInv'
<1>1. UNCHANGED <<refs, late, inventory>>
  BY DEF OpenParent, StatRoot, Pop, StatDir, OpenDir, ListDir, StatChild, ScanDir, StatFile,
         FilesDone, RestatFile, StatPost, RestatPost, hostVars, resultVars, evidenceVars
<1>2. pc' \in {"root", "pop", "check", "pre", "prePost", "openDir", "listDir", "scanDir", "files",
               "unlink", "rmdir"}
  BY DEF OpenParent, StatRoot, Pop, StatDir, OpenDir, ListDir, StatChild, ScanDir, StatFile,
         FilesDone, RestatFile, StatPost, RestatPost
<1>3. pc' \in AfterCheck => pc \in AfterCheck
  BY DEF OpenParent, StatRoot, Pop, StatDir, OpenDir, ListDir, StatChild, ScanDir, StatFile,
         FilesDone, RestatFile, StatPost, RestatPost, AfterCheck
<1> QED
  BY <1>1, <1>2, <1>3 DEF HolderInv, HolderStops, Tracked, Inventory, Surveying, Scanning

\* A removal counts once for whoever holds a reference.
LEMMA HolderRemove ==
    ASSUME TypeOK, HolderInv, UnlinkFile \/ RemoveDir, ~\E why : Stop(why)
    PROVE  HolderInv'
<1>1. /\ UNCHANGED <<refs, inventory>>
      /\ late' = [r \in refs |-> IF late[r] < 2 THEN late[r] + 1 ELSE late[r]]
  BY RemovalStep DEF Discard, procVars, evidenceVars
<1>2. \A r \in Tracked : r \in refs /\ late[r] = 0
  BY RemovalStep DEF HolderInv, Tracked, AfterCheck
<1>3. \A r \in Tracked' : late'[r] <= 1
  BY <1>1, <1>2 DEF Tracked, Inventory
<1> QED
  BY <1>3, RemovalStep DEF HolderInv, HolderStops, Surveying, AfterCheck, Scanning

\* A reference that another program acquires starts with no removals.
LEMMA HolderEnvironment ==
    ASSUME TypeOK, HolderInv, Environment
    PROVE  HolderInv'
<1>1. CASE OtherPrograms
  <2>1. /\ UNCHANGED <<pc, inventory, watch, hit, blind, todo, reading, mentioned, fds>>
        /\ late' = [r \in refs' |-> IF r \in refs THEN late[r] ELSE 0]
    BY <1>1 DEF OtherPrograms, evidenceVars, checkVars
  <2>4. \A r \in refs' : late'[r] = 0 \/ (r \in refs /\ late'[r] = late[r])
    BY <2>1
  <2>5. \A r \in Tracked' : late'[r] = 0 \/ (r \in Tracked /\ late'[r] = late[r])
    BY <2>1, <2>4 DEF Tracked, Inventory
  <2>6. \A r : Unmet(r)' = Unmet(r)
    BY <2>1 DEF Unmet, Unread
  <2>7. Surveying' => \A r \in refs' : late'[r] = 0
    BY <2>1, <2>4 DEF HolderInv, Surveying
  <2>8. (pc \in Scanning => Inventory \subseteq watch)'
    BY <2>1 DEF HolderInv, Inventory, Scanning
  <2>9. (pc \in AfterCheck => \A r \in Tracked : late[r] = 0)'
    BY <2>1, <2>5 DEF HolderInv, AfterCheck
  <2>10. (pc \in Scanning => \A r \in Tracked : Unmet(r) => late[r] = 0)'
    BY <2>1, <2>5, <2>6 DEF HolderInv, Scanning
  <2>11. HolderStops'
    BY <2>5 DEF HolderInv, HolderStops
  <2> QED
    BY <2>7, <2>8, <2>9, <2>10, <2>11 DEF HolderInv
<1>2. CASE DeadlinePasses
  BY <1>2 DEF DeadlinePasses, HolderInv, HolderStops, Tracked, Inventory, Surveying, AfterCheck,
     Scanning, Unmet, Unread,
     hostVars, evidenceVars, checkVars, resultVars
<1> QED
  BY <1>1, <1>2 DEF Environment

LEMMA HolderNext == TypeOK /\ HolderInv /\ [Next]_vars => HolderInv'
<1> SUFFICES ASSUME TypeOK, HolderInv, [Next]_vars PROVE HolderInv'
  OBVIOUS
<1>1. CASE \E why : Stop(why)
  BY <1>1, HolderStopped
<1>2. CASE Agent /\ ~\E why : Stop(why)
  BY <1>2, HolderSurvey, HolderBegin, HolderScan, HolderEnd, HolderWalk, HolderRemove DEF Agent
<1>3. CASE Environment
  BY <1>3, HolderEnvironment
<1>4. CASE UNCHANGED vars
  BY <1>4 DEF vars, HolderInv, HolderStops, Tracked, Inventory, Surveying, AfterCheck,
     Scanning, Unmet, Unread,
     hostVars, evidenceVars, checkVars, resultVars
<1> QED
  BY <1>1, <1>2, <1>3, <1>4 DEF Next

\* A process that keeps a reference to the tree where it is loses at most one
\* entry.
THEOREM HoldersAreMet == Spec => []HolderStops
<1>1. Init => HolderInv
  BY HolderInit
<1>2. TypeOK /\ HolderInv /\ [Next]_vars => HolderInv'
  BY HolderNext
<1>3. HolderInv => HolderStops
  BY DEF HolderInv
<1> QED
  BY <1>1, <1>2, <1>3, TypeCorrect, PTL DEF Spec

=============================================================================
