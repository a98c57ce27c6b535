--------------------------- MODULE DeleteTreeSafety ---------------------------
(***************************************************************************)
(* Proofs about what DeleteTree removes and reports, that it keeps the     *)
(* promises of Clearance, and that a deletion nobody disturbs is complete. *)
(***************************************************************************)
EXTENDS DeleteTreeProofs, FiniteFacts

\* The steps of a check that reads the process table are spelled out.
USE DEF Scanning

(***************************************************************************)
(* What was recorded is never forgotten: the identity is read once, by     *)
(* Inspect, and the inventory only grows.                                  *)
(***************************************************************************)
LEMMA RecordedStays ==
    ASSUME TypeOK, ProvenanceInv, [Next]_vars
    PROVE  /\ \A i \in Inodes : Inventoried(i) => Inventoried(i)'
           /\ ~Inspect \/ (\E why : Stop(why)) => UNCHANGED expected
           /\ inventory \subseteq inventory'
           /\ ~Surveying => UNCHANGED <<expected, inventory>>
<1>1. CASE Inspect /\ ~\E why : Stop(why)
  <2>1. expected.ino = NoInode /\ UNCHANGED inventory
    BY <1>1 DEF Inspect, ProvenanceInv, NoStat
  <2>2. Surveying
    BY <1>1 DEF Inspect, Surveying
  <2> QED
    BY <1>1, <2>1, <2>2, HostAssumption DEF Inventoried
<1>2. CASE ~Inspect \/ \E why : Stop(why)
  <2>1. UNCHANGED expected /\ inventory \subseteq inventory' /\ (Surveying \/ UNCHANGED inventory)
    <3>1. CASE \E why : Stop(why)
      BY <3>1 DEF Stop, evidenceVars
    <3>2. CASE ~\E why : Stop(why)
      <4>1. CASE TreeEntry \/ TreeList \/ TreeDone
        BY <3>2, <4>1 DEF TreeEntry, TreeList, TreeDone, Surveying, evidenceVars
      <4>2. CASE CheckBegin \/ ReadProcess \/ ScanSelf
                 \/ CheckEnd
        BY <3>2, <4>2, ReadStep DEF CheckBegin, ScanSelf, CheckEnd, evidenceVars
      <4>3. CASE OpenParent \/ StatRoot \/ Pop \/ StatDir \/ OpenDir \/ ScanDir
        BY <3>2, <4>3 DEF OpenParent, StatRoot, Pop, StatDir, OpenDir, ScanDir, evidenceVars
      <4>8. CASE ListDir \/ StatChild
        BY <3>2, <4>8, ListStep DEF evidenceVars
      <4>4. CASE StatFile \/ FilesDone \/ RestatFile \/ StatPost \/ RestatPost
        BY <3>2, <4>4 DEF StatFile, FilesDone, RestatFile, StatPost, RestatPost, evidenceVars
      <4>5. CASE UnlinkFile \/ RemoveDir
        BY <3>2, <4>5, RemovalStep DEF Discard, evidenceVars
      <4>6. CASE Environment
        BY <4>6 DEF Environment, OtherPrograms, DeadlinePasses, evidenceVars
      <4>7. CASE UNCHANGED vars
        BY <4>7 DEF vars, evidenceVars
      <4> QED
        BY <1>2, <3>2, <4>1, <4>2, <4>3, <4>4, <4>5, <4>6, <4>7, <4>8 DEF Next, Agent
    <3> QED
      BY <3>1, <3>2
  <2> QED
    BY <2>1 DEF Inventoried
<1> QED
  BY <1>1, <1>2 DEF Inspect

\* In terms of stat records.
LEMMA KnownStays ==
    ASSUME TypeOK, ProvenanceInv, [Next]_vars, NEW st \in Stats, Known(st)
    PROVE  Known(st)'
<1>1. CASE st = NoStat
  BY <1>1 DEF Known, NoStat
<1>2. CASE st # NoStat
  BY <1>2, RecordedStays DEF Known, NoStat
<1> QED
  BY <1>1, <1>2

LEMMA ProvenanceInit == Init => ProvenanceInv
BY DEF Init, ProvenanceInv, Known, Surveying, RemovalsVerified, NothingShared

\* The part of the invariant about past removals depends on nothing else.
LEMMA HistoryStays ==
    ASSUME TypeOK, ProvenanceInv, [Next]_vars, UNCHANGED removed
    PROVE  RemovalsVerified' /\ NothingShared'
<1>1. \A r \in removed : r.actual \in Stats
  BY DEF TypeOK, Removal
<1>2. ASSUME NEW r \in removed, ~Raced(r) PROVE Inventoried(r.actual.ino)'
  <2>1. Inventoried(r.actual.ino)
    BY <1>2 DEF ProvenanceInv, RemovalsVerified
  <2>2. CASE ~Surveying
    <3>1. UNCHANGED expected
      BY <2>2, RecordedStays DEF Surveying, Inspect
    <3> QED
      BY <2>1, <3>1, RecordedStays DEF Inventoried
  <2>3. CASE Surveying
    BY <1>2, <2>3 DEF ProvenanceInv
  <2> QED
    BY <2>2, <2>3
<1>3. RemovalsVerified'
  BY <1>2 DEF ProvenanceInv, RemovalsVerified, Raced, SameObject, SameIdentity
<1> QED
  BY <1>3 DEF ProvenanceInv, NothingShared, Raced

\* Stopping.
LEMMA ProvenanceStopped ==
    ASSUME TypeOK, ProvenanceInv, NEW why, Stop(why), [Next]_vars
    PROVE  ProvenanceInv'
<1>1. RemovalsVerified' /\ NothingShared'
  BY HistoryStays DEF Stop, resultVars
<1> QED
  BY <1>1 DEF Stop, ProvenanceInv, Surveying, Known, Inventoried, evidenceVars, walkVars

\* The survey: the walk has not begun.
LEMMA ProvenanceSurvey ==
    ASSUME TypeOK, ProvenanceInv, [Next]_vars, ~\E why : Stop(why),
           Inspect \/ TreeEntry \/ TreeList \/ TreeDone
    PROVE  ProvenanceInv'
<1>1. Surveying /\ pc' \in {"tree", "list", "check"}
      /\ UNCHANGED <<stack, cur, batch, target, removed>>
  BY DEF Surveying, Inspect, TreeEntry, TreeList, TreeDone, walkVars, resultVars
<1>2. stack = <<>> /\ batch = {} /\ removed = {} /\ target.st = NoStat /\ cur.id = NoStat
  BY <1>1 DEF ProvenanceInv
<1>3. RemovalsVerified' /\ NothingShared'
  BY <1>1, HistoryStays
<1> QED
  BY <1>1, <1>2, <1>3 DEF ProvenanceInv, Known

\* Steps that leave stack, batch, target and current directory as they are.
LEMMA ProvenanceCheck ==
    ASSUME TypeOK, ProvenanceInv, [Next]_vars, ~\E why : Stop(why),
           \/ CheckBegin \/ ReadProcess \/ ScanSelf
           \/ CheckEnd \/ OpenParent \/ StatDir \/ OpenDir \/ FilesDone \/ StatPost
    PROVE  ProvenanceInv'
<1>1. UNCHANGED <<stack, cur, batch, target, removed, expected, inventory>>
  BY ReadStep DEF CheckBegin, ScanSelf, CheckEnd, OpenParent, StatDir,
         OpenDir, FilesDone, StatPost, walkVars, resultVars, evidenceVars
<1>2. pc' \notin {"inspect", "tree", "list", "unlink", "rmdir"} /\ pc \notin {"scanDir", "done"}
  BY ReadStep DEF CheckBegin, ScanSelf, CheckEnd, OpenParent, StatDir,
         OpenDir, FilesDone, StatPost, TypeOK, Checkers
<1>3. RemovalsVerified' /\ NothingShared'
  BY <1>1, HistoryStays
<1> QED
  BY <1>1, <1>2, <1>3 DEF ProvenanceInv, Known, Inventoried, Surveying

\* What Pop leaves of the stack.
LEMMA ShorterStack ==
    ASSUME NEW S, NEW s \in Seq(S), s # <<>>, NEW t, t = SubSeq(s, 1, Len(s) - 1)
    PROVE  Len(t) = Len(s) - 1 /\ \A k \in 1 .. Len(t) : t[k] = s[k]
<1> DEFINE L == Len(s)
<1>0. L \in Nat /\ s \in [1 .. L -> S]
  BY LenProperties
<1>1. L \in Nat /\ L > 0 /\ \A k \in 1 .. L - 1 : s[k] \in S
  <2>1. L > 0
    BY EmptySeq
  <2> HIDE DEF L
  <2> QED
    BY <1>0, <2>1
<1> HIDE DEF L
<1>2. L - 1 \in Int /\ 1 \in Int
  BY <1>1
<1>3. /\ Len(SubSeq(s, 1, L - 1)) = IF 1 <= L - 1 THEN (L - 1) - 1 + 1 ELSE 0
      /\ \A k \in 1 .. (L - 1) - 1 + 1 : SubSeq(s, 1, L - 1)[k] = s[1 + k - 1]
  BY <1>1, <1>2, SubSeqProperties
<1>4. Len(t) = L - 1
  <2>1. (IF 1 <= L - 1 THEN (L - 1) - 1 + 1 ELSE 0) = L - 1
    BY <1>1
  <2> QED
    BY <1>3, <2>1, Zenon DEF L
<1>5. ASSUME NEW k \in 1 .. L - 1 PROVE t[k] = s[k]
  <2>1. 1 + k - 1 = k /\ k \in 1 .. (L - 1) - 1 + 1
    BY <1>1
  <2>2. SubSeq(s, 1, L - 1)[k] = s[1 + k - 1]
    BY <1>3, <2>1, Zenon
  <2> QED
    BY <2>1, <2>2, Zenon DEF L
<1> QED
  BY <1>4, <1>5 DEF L

\* What ScanDir leaves on the stack: what was there, the directory it listed,
\* and its subdirectories.
LEMMA LongerStack ==
    ASSUME TypeOK, ScanDir, ~\E why : Stop(why)
    PROVE  /\ Len(stack) \in Nat /\ Len(stack') \in Nat /\ Len(stack') > Len(stack)
           /\ \A k \in 1..Len(stack) : stack'[k] = stack[k]
           /\ stack'[Len(stack) + 1].dir = cur.dir /\ stack'[Len(stack) + 1].id = cur.id
           /\ \A k \in 1..Len(stack') : k > Len(stack) + 1 =>
                 stack'[k].dir = childDir /\ \E c \in batch : stack'[k].id = c.st
<1> DEFINE top   == [cur EXCEPT !.post = TRUE]
           base  == Append(stack, top)
<1>1. PICK order \in Seq(batch) :
        stack' = base \o [k \in 1..Len(order) |->
                            [dir |-> childDir, name |-> order[k].name,
                             id |-> order[k].st, post |-> FALSE]]
  BY ScanDirStep
<1> DEFINE pushed == [k \in 1..Len(order) |->
                        [dir |-> childDir, name |-> order[k].name,
                         id |-> order[k].st, post |-> FALSE]]
<1>2. stack \in Seq(Frame) /\ top \in Frame /\ top.dir = cur.dir /\ top.id = cur.id
  BY DEF TypeOK, Frame
<1>3. Len(order) \in Nat /\ \A k \in 1..Len(order) : order[k] \in batch
  BY <1>1
<1>4. pushed \in Seq(Frame) /\ Len(pushed) = Len(order)
      /\ \A k \in 1..Len(order) : pushed[k].dir = childDir /\ pushed[k].id = order[k].st
  <2>1. childDir \in Inodes
    BY ScanDirStep DEF TypeOK
  <2>2. \A k \in 1..Len(order) : order[k] \in FileRef
    BY <1>3 DEF TypeOK
  <2>3. \A k \in 1..Len(order) : pushed[k] \in Frame
    BY <2>1, <2>2 DEF Frame, FileRef
  <2> QED
    BY <1>3, <2>3
<1>5. stack' = base \o pushed
  BY <1>1
<1> HIDE DEF top, pushed
<1>6. /\ base \in Seq(Frame) /\ Len(base) = Len(stack) + 1
      /\ \A k \in 1..Len(stack) : base[k] = stack[k]
      /\ base[Len(stack) + 1] = top
  BY <1>2, AppendProperties
<1> HIDE DEF base
<1>7. /\ Len(stack') = Len(base) + Len(order)
      /\ \A k \in 1..Len(base) + Len(order) :
            stack'[k] = IF k <= Len(base) THEN base[k] ELSE pushed[k - Len(base)]
  <2>1. base \in Seq(Frame) /\ pushed \in Seq(Frame)
    BY <1>4, <1>6
  <2>2. Len(base \o pushed) = Len(base) + Len(pushed)
    BY <2>1, ConcatProperties, Zenon
  <2>3. \A k \in 1 .. Len(base) + Len(pushed) :
           (base \o pushed)[k] = IF k <= Len(base) THEN base[k] ELSE pushed[k - Len(base)]
    BY <2>1, ConcatProperties, Zenon
  <2> QED
    BY <1>4, <1>5, <2>2, <2>3
<1>8. Len(stack) \in Nat
  BY <1>2, LenProperties
<1>9. \A k \in 1..Len(stack) : stack'[k] = stack[k]
  BY <1>3, <1>6, <1>7, <1>8
<1>10. stack'[Len(stack) + 1] = top
  BY <1>3, <1>6, <1>7, <1>8
<1>11. ASSUME NEW k \in 1..Len(stack'), k > Len(stack) + 1
       PROVE  stack'[k].dir = childDir /\ \E c \in batch : stack'[k].id = c.st
  <2>1. stack'[k] = pushed[k - Len(base)] /\ k - Len(base) \in 1..Len(order)
    BY <1>3, <1>6, <1>7, <1>8, <1>11
  <2> QED
    BY <1>3, <1>4, <2>1
<1> QED
  BY <1>2, <1>3, <1>6, <1>7, <1>8, <1>9, <1>10, <1>11

\* The directories and entries a step takes up come from the inventory.
LEMMA ProvenanceTakeUp ==
    ASSUME TypeOK, ProvenanceInv, [Next]_vars, ~\E why : Stop(why),
           StatRoot \/ Pop \/ ListDir \/ StatChild \/ ScanDir \/ StatFile
    PROVE  ProvenanceInv'
<1>1. UNCHANGED <<removed, expected, inventory>>
  BY ListStep DEF StatRoot, Pop, ScanDir, StatFile, resultVars, evidenceVars
<1>2. pc' \notin {"inspect", "tree", "list", "unlink", "rmdir"}
  BY ListStep DEF StatRoot, Pop, ScanDir, StatFile
<1>3. RemovalsVerified' /\ NothingShared'
  BY <1>1, HistoryStays
<1>4. \A st : Known(st)' = Known(st)
  BY <1>1 DEF Known, Inventoried
<1>5. /\ pc \notin {"scanDir", "done"} => \A c \in batch : Known(c.st)
      /\ \A k \in 1..Len(stack) : Known(stack[k].id)
      /\ Known(cur.id) /\ Known(target.st)
  BY DEF ProvenanceInv
<1>6. SUFFICES /\ pc' # "scanDir" => \A c \in batch' : Known(c.st)
               /\ \A k \in 1..Len(stack') : Known(stack'[k].id)
               /\ Known(cur'.id) /\ Known(target'.st)
  BY <1>2, <1>3, <1>4 DEF ProvenanceInv, Surveying
<1>7. CASE StatRoot
  <2>1. Known(expected)
    <3>1. tree[Top][Cand] \in Inodes /\ SameIdentity(expected, StatOf(tree[Top][Cand]))
      BY <1>7, HostAssumption DEF StatRoot, TypeOK, HostTypeOK, Tree
    <3> QED
      BY <3>1 DEF Known, Inventoried, SameIdentity, StatOf
  <2>2. UNCHANGED <<batch, cur>> /\ pc = "root"
        /\ \/ UNCHANGED target
              /\ stack' = <<[dir |-> Top, name |-> Cand, id |-> expected, post |-> FALSE]>>
           \/ UNCHANGED stack
              /\ target' = [dir |-> Top, name |-> Cand, st |-> expected]
    BY <1>7 DEF StatRoot, walkVars
  <2> QED
    BY <1>5, <2>1, <2>2
<1>8. CASE Pop
  <2>1. /\ stack # <<>> /\ cur' = stack[Len(stack)]
        /\ stack' = SubSeq(stack, 1, Len(stack) - 1) /\ UNCHANGED <<batch, target>>
        /\ pc = "pop"
    BY <1>8 DEF Pop
  <2>2. stack \in Seq(Frame) /\ Len(stack) \in Nat /\ Len(stack) > 0
    BY <2>1 DEF TypeOK
  <2>3. Len(stack') = Len(stack) - 1 /\ \A k \in 1..Len(stack') : stack'[k] = stack[k]
    BY <2>1, <2>2, ShorterStack
  <2> QED
    BY <1>5, <2>1, <2>2, <2>3
<1>9. CASE ScanDir
  <2>1. pc = "scanDir" /\ batch' \subseteq batch /\ (\A c \in batch : Member(c.st))
        /\ UNCHANGED <<cur, target>>
    BY <1>9, ScanDirStep
  <2>2. \A c \in batch : Known(c.st)
    <3>1. \A c \in batch : c.st.ino \in Inodes
      BY <2>1 DEF TypeOK
    <3> QED
      BY <2>1, <3>1 DEF Known, Inventoried, Member
  <2>3. ASSUME NEW k \in 1..Len(stack') PROVE Known(stack'[k].id)
    <3>1. Len(stack) \in Nat /\ Len(stack') \in Nat
      BY <1>9, LongerStack
    <3>2. CASE k \in 1..Len(stack)
      BY <1>5, <1>9, <3>2, LongerStack
    <3>3. CASE k = Len(stack) + 1
      BY <1>5, <1>9, <3>3, LongerStack
    <3>4. CASE k > Len(stack) + 1
      BY <1>9, <2>2, <3>4, LongerStack
    <3> QED
      BY <3>1, <3>2, <3>3, <3>4
  <2> QED
    BY <1>5, <2>1, <2>2, <2>3
<1>10. CASE StatFile
  <2>1. target' \in batch /\ batch' \subseteq batch /\ UNCHANGED <<stack, cur>> /\ pc = "files"
    BY <1>10 DEF StatFile
  <2> QED
    BY <1>5, <2>1
<1>11. CASE ListDir \/ StatChild
  BY <1>5, <1>11, ListStep
<1> QED
  BY <1>7, <1>8, <1>9, <1>10, <1>11

\* The last stat before a removal.
LEMMA ProvenanceRestat ==
    ASSUME TypeOK, ProvenanceInv, [Next]_vars, ~\E why : Stop(why), RestatFile \/ RestatPost
    PROVE  ProvenanceInv'
<1>1. UNCHANGED <<stack, cur, batch, target, removed, expected, inventory>>
  BY DEF RestatFile, RestatPost, resultVars, evidenceVars
<1>2. pc' \in {"unlink", "rmdir"} /\ pc \in {"file", "post"}
  BY DEF RestatFile, RestatPost
<1>3. RemovalsVerified' /\ NothingShared'
  BY <1>1, HistoryStays
<1>4. Known(cur.id) /\ Known(target.st)
  BY DEF ProvenanceInv
<1>5. CASE RestatFile
  <2> DEFINE i == tree[target.dir][target.name]
  <2>1. i \in Inodes /\ seen' = StatOf(i) /\ pc' = "unlink"
        /\ SameIdentity(target.st, StatOf(i)) /\ Unlinkable(StatOf(i))
    BY <1>5 DEF RestatFile, TypeOK, HostTypeOK, Tree, FileRef
  <2>2. StatOf(i).ino = i /\ target.st.ino = i
    BY <2>1 DEF StatOf, SameIdentity
  <2>3. Inventoried(i)
    BY <1>4, <2>1, <2>2, HostAssumption DEF Known, NoStat
  <2> HIDE DEF i
  <2>4. (seen.ino \in Inodes /\ Inventoried(seen.ino))'
    BY <1>1, <2>1, <2>2, <2>3 DEF Inventoried
  <2>5. SameIdentity(target.st, seen)' /\ Unlinkable(seen)'
    BY <1>1, <2>1 DEF SameIdentity, Unlinkable
  <2> QED
    BY <1>1, <1>2, <1>3, <2>1, <2>4, <2>5 DEF ProvenanceInv, Surveying, Known, Inventoried
<1>6. CASE RestatPost
  <2> DEFINE i == tree[cur.dir][cur.name]
  <2>1. i \in Inodes /\ seen' = StatOf(i) /\ pc' = "rmdir" /\ SameObject(cur.id, StatOf(i))
    BY <1>6 DEF RestatPost, TypeOK, HostTypeOK, Tree, Frame
  <2>2. StatOf(i).ino = i /\ cur.id.ino = i
    BY <2>1 DEF StatOf, SameObject
  <2>3. Inventoried(i)
    BY <1>4, <2>1, <2>2, HostAssumption DEF Known, NoStat
  <2> HIDE DEF i
  <2>4. (seen.ino \in Inodes /\ Inventoried(seen.ino))'
    BY <1>1, <2>1, <2>2, <2>3 DEF Inventoried
  <2>5. SameObject(cur.id, seen)'
    BY <1>1, <2>1 DEF SameObject
  <2> QED
    BY <1>1, <1>2, <1>3, <2>1, <2>4, <2>5 DEF ProvenanceInv, Surveying, Known, Inventoried
<1> QED
  BY <1>5, <1>6

\* A removal of what the last stat saw is a removal of what was recorded.
LEMMA ProvenanceRemove ==
    ASSUME TypeOK, ProvenanceInv, [Next]_vars, ~\E why : Stop(why), UnlinkFile \/ RemoveDir
    PROVE  ProvenanceInv'
<1>1. UNCHANGED <<stack, cur, batch, target, expected, inventory>>
      /\ pc' \notin {"inspect", "tree", "list", "unlink", "rmdir"} /\ pc \in {"unlink", "rmdir"}
  BY RemovalStep DEF Discard, walkVars, evidenceVars
<1>2. seen.ino \in Inodes /\ Inventoried(seen.ino)
  BY RemovalStep DEF ProvenanceInv
<1>3. PICK r : /\ removed' = removed \cup {r}
               /\ ~Raced(r) => /\ Inventoried(r.actual.ino)
                               /\ IF r.actual.kind = "dir" THEN SameObject(r.recorded, r.actual)
                                                           ELSE SameIdentity(r.recorded, r.actual)
                               /\ r.actual.kind = "file" => r.actual.nlink <= 1
  <2>1. CASE UnlinkFile
    <3> DEFINE i == tree[target.dir][target.name]
               r == [actual |-> StatOf(i), seen |-> seen, recorded |-> target.st]
    <3>1. pc = "unlink" /\ i # NoInode /\ ~IsDir(i) /\ removed' = removed \cup {r}
      BY <2>1 DEF UnlinkFile, Discard
    <3>2. i \in Inodes
      BY <3>1 DEF TypeOK, HostTypeOK, Tree, FileRef
    <3>3. SameIdentity(target.st, seen) /\ Unlinkable(seen)
      BY <3>1 DEF ProvenanceInv
    <3>4. StatOf(i).kind # "dir"
      BY <3>1, <3>2 DEF IsDir, StatOf
    <3> HIDE DEF i
    <3>5. r.actual = StatOf(i) /\ r.seen = seen /\ r.recorded = target.st
      OBVIOUS
    <3> HIDE DEF r
    <3> QED
      BY <1>2, <3>1, <3>3, <3>4, <3>5 DEF Raced, Unlinkable
  <2>2. CASE RemoveDir
    <3> DEFINE i == tree[cur.dir][cur.name]
               r == [actual |-> StatOf(i), seen |-> seen, recorded |-> cur.id]
    <3>1. pc = "rmdir" /\ node[i].kind = "dir" /\ removed' = removed \cup {r}
      BY <2>2 DEF RemoveDir, Discard
    <3>2. SameObject(cur.id, seen)
      BY <3>1 DEF ProvenanceInv
    <3>3. StatOf(i).kind = "dir"
      BY <3>1 DEF StatOf
    <3> HIDE DEF i
    <3>4. r.actual = StatOf(i) /\ r.seen = seen /\ r.recorded = cur.id
      OBVIOUS
    <3> HIDE DEF r
    <3> QED
      BY <1>2, <3>1, <3>2, <3>3, <3>4 DEF Raced
  <2> QED
    BY <2>1, <2>2
<1>4. RemovalsVerified'
  <2>1. RemovalsVerified /\ \A i : Inventoried(i)' = Inventoried(i)
    BY <1>1 DEF ProvenanceInv, Inventoried
  <2> QED
    BY <1>3, <2>1 DEF RemovalsVerified, Raced, SameObject, SameIdentity
<1>5. NothingShared'
  BY <1>3 DEF ProvenanceInv, NothingShared, Raced
<1> QED
  BY <1>1, <1>4, <1>5 DEF ProvenanceInv, Surveying, Known, Inventoried

\* Other programs reach none of the walker's own state.
LEMMA ProvenanceOthers ==
    ASSUME TypeOK, ProvenanceInv, [Next]_vars, Environment \/ UNCHANGED vars
    PROVE  ProvenanceInv'
<1>1. UNCHANGED <<pc, evidenceVars, walkVars, removed>>
  BY DEF Environment, OtherPrograms, DeadlinePasses, vars, resultVars
<1>2. RemovalsVerified' /\ NothingShared'
  BY <1>1, HistoryStays
<1> QED
  BY <1>1, <1>2 DEF ProvenanceInv, Surveying, Known, Inventoried, evidenceVars, walkVars,
     SameObject, SameIdentity, Unlinkable

LEMMA ProvenanceNext == TypeOK /\ ProvenanceInv /\ [Next]_vars => ProvenanceInv'
BY ProvenanceStopped, ProvenanceSurvey, ProvenanceCheck, ProvenanceTakeUp, ProvenanceRestat,
   ProvenanceRemove, ProvenanceOthers DEF Next, Agent

LEMMA ProvenanceCorrect == Spec => []ProvenanceInv
<1>1. Init => ProvenanceInv
  BY ProvenanceInit
<1>2. TypeOK /\ ProvenanceInv /\ [Next]_vars => ProvenanceInv'
  BY ProvenanceNext
<1> QED
  BY <1>1, <1>2, TypeCorrect, PTL DEF Spec

\* Whatever happens between two system calls, what is removed was recorded.
THEOREM RemovesWhatItRecorded == Spec => []RemovalsVerified
<1>1. ProvenanceInv => RemovalsVerified
  BY DEF ProvenanceInv
<1> QED
  BY <1>1, ProvenanceCorrect, PTL

\* No file with a second name is unlinked.
THEOREM SharedFilesStay == Spec => []NothingShared
<1>1. ProvenanceInv => NothingShared
  BY DEF ProvenanceInv
<1> QED
  BY <1>1, ProvenanceCorrect, PTL

-----------------------------------------------------------------------------
(* The verdict.                                                            *)

LEMMA VerdictInit == Init => VerdictInv
BY DEF Init, VerdictInv, AtFile, AtDir, Checking

\* While the tree is surveyed and checked the walk has not begun.
LEMMA VerdictSurvey ==
    ASSUME TypeOK, ProvenanceInv, VerdictInv, ~\E why : Stop(why),
           \/ Inspect \/ TreeEntry \/ TreeList \/ TreeDone
           \/ OpenParent
    PROVE  VerdictInv'
<1>1. /\ pc \in {"inspect", "tree", "list", "parent"}
      /\ pc' \in {"tree", "list", "root"} \/ (pc' = "check" /\ ret' = "recheck")
      /\ UNCHANGED <<deleted, removed, childDir, reason>>
  BY DEF Inspect, TreeEntry, TreeList, TreeDone, OpenParent, resultVars, walkVars
<1>2. reason # "ok" /\ childDir = NoInode
  BY <1>1 DEF VerdictInv, Surveying
<1> QED
  BY <1>1, <1>2 DEF VerdictInv, AtFile, AtDir, Checking, Surveying

\* A process check stays on its way to what it was made for.
LEMMA VerdictCheck ==
    ASSUME TypeOK, VerdictInv, ~\E why : Stop(why),
           \/ CheckBegin \/ ReadProcess \/ ScanSelf
           \/ CheckEnd
    PROVE  VerdictInv'
<1>1. /\ pc \in {"check"} \cup Scanning
      /\ UNCHANGED <<evidenceVars, ret, walkVars, resultVars, reason>>
      /\ \/ pc' \in Scanning
         \/ pc' = IF ret = "recheck" THEN "parent" ELSE ret
  BY ReadStep DEF CheckBegin, ScanSelf, CheckEnd, checkVars
<1>2. ret \in Checkers
  BY DEF TypeOK
<1>3. UNCHANGED <<expected, stack, cur, childDir, target, deleted, removed, reason, ret>>
  BY <1>1 DEF evidenceVars, walkVars, resultVars
<1>4. /\ RootStacked' = RootStacked /\ RootGone' = RootGone
  BY <1>3 DEF RootStacked, RootGone
<1>5. /\ AtFile' => AtFile
      /\ AtDir' => AtDir
      /\ (Surveying \/ Checking("recheck") \/ pc \in {"parent", "root"})' => Checking("recheck")
      /\ pc' \notin {"pop", "files", "done"} /\ pc # "done"
  BY <1>1, <1>2 DEF AtFile, AtDir, Checking, Surveying, Checkers
<1> QED
  BY <1>3, <1>4, <1>5 DEF VerdictInv

\* A step of the walk that takes the next entry up, or looks at it.
LEMMA VerdictWalk ==
    ASSUME TypeOK, VerdictInv, ~\E why : Stop(why),
           \/ StatRoot \/ Pop \/ StatDir \/ OpenDir \/ ListDir \/ StatChild \/ ScanDir
           \/ StatFile \/ FilesDone \/ RestatFile \/ StatPost \/ RestatPost
    PROVE  VerdictInv'
<1>1. /\ UNCHANGED <<evidenceVars, resultVars, reason>>
      /\ pc \notin {"inspect", "tree", "list", "check", "parent", "done"} \cup Scanning
      /\ pc' \notin {"inspect", "tree", "list", "parent", "root", "done"} \cup Scanning
      /\ pc' = "check" => ret' # "recheck"
  BY ListStep DEF StatRoot, Pop, StatDir, OpenDir, ScanDir, StatFile, FilesDone, RestatFile,
                  StatPost, RestatPost
<1>2. /\ UNCHANGED <<expected, deleted, removed, reason>>
      /\ RootGone' = RootGone
  BY <1>1 DEF evidenceVars, resultVars, RootGone
<1>3. /\ (Surveying \/ Checking("recheck") \/ pc \in {"parent", "root"})' = FALSE
      /\ reason # "ok"
  BY <1>1, <1>2 DEF Surveying, Checking, VerdictInv
<1>4. SUFFICES /\ pc' \in {"pop", "files"} => RootStacked' \/ RootGone
               /\ AtFile' => IF childDir' = NoInode THEN target'.st = expected
                                                    ELSE RootStacked' \/ RootGone
               /\ AtDir' => RootStacked' \/ RootGone \/ (stack' = <<>> /\ cur'.id = expected)
  BY <1>2, <1>3 DEF VerdictInv
<1>5. stack \in Seq(Frame) /\ cur \in Frame
  BY DEF TypeOK
<1>6. CASE StatRoot
  <2>1. childDir = NoInode /\ childDir' = childDir
    BY <1>6 DEF StatRoot, VerdictInv
  <2>2. CASE pc' = "pop"
    <3>1. stack' = <<[dir |-> Top, name |-> Cand, id |-> expected, post |-> FALSE]>>
      BY <1>6, <2>2 DEF StatRoot
    <3>2. RootStacked'
      BY <1>2, <3>1 DEF RootStacked
    <3> QED
      BY <2>2, <3>2 DEF AtFile, AtDir, Checking
  <2>3. CASE pc' = "check"
    <3>1. target'.st = expected /\ ret' = "file"
      BY <1>6, <2>3 DEF StatRoot
    <3> QED
      BY <2>1, <2>3, <3>1 DEF AtFile, AtDir, Checking
  <2> QED
    BY <1>6, <2>2, <2>3 DEF StatRoot
<1>7. CASE Pop
  <2>1. /\ stack # <<>> /\ cur' = stack[Len(stack)] /\ stack' = SubSeq(stack, 1, Len(stack) - 1)
        /\ pc = "pop" /\ pc' \in {"pre", "prePost"}
    BY <1>7 DEF Pop
  <2>2. RootStacked \/ RootGone
    BY <2>1 DEF VerdictInv
  <2>3. ASSUME RootStacked PROVE RootStacked' \/ (stack' = <<>> /\ cur'.id = expected)
    <3>1. CASE Len(stack) = 1
      BY <1>5, <2>1, <2>3, <3>1 DEF RootStacked
    <3>2. CASE Len(stack) > 1
      <4>1. Len(stack') = Len(stack) - 1 /\ \A k \in 1 .. Len(stack') : stack'[k] = stack[k]
        BY <1>5, <2>1, ShorterStack
      <4>2. 1 \in 1 .. Len(stack') /\ 1 \in 1 .. Len(stack)
        <5>1. Len(stack) \in Nat
          BY <1>5, LenProperties
        <5> QED
          BY <3>2, <4>1, <5>1
      <4>3. stack' # <<>>
        BY <4>2, EmptySeq
      <4> QED
        BY <1>2, <2>3, <4>1, <4>2, <4>3 DEF RootStacked
    <3>3. Len(stack) \in Nat
      BY <1>5, LenProperties
    <3>4. Len(stack) # 0
      BY <1>5, <2>1, EmptySeq
    <3>5. Len(stack) = 1 \/ Len(stack) > 1
      <4> DEFINE L == Len(stack)
      <4>1. L \in Nat /\ L # 0
        BY <3>3, <3>4
      <4> HIDE DEF L
      <4>2. L = 1 \/ L > 1
        BY <4>1
      <4> QED
        BY <4>2 DEF L
    <3> QED
      BY <3>1, <3>2, <3>5
  <2> QED
    BY <2>1, <2>2, <2>3 DEF AtFile, AtDir, Checking
<1>8. CASE StatDir \/ OpenDir \/ StatPost \/ RestatPost
  <2>1. UNCHANGED <<stack, cur>> /\ pc \in {"pre", "openDir", "prePost", "post"}
    <3>1. CASE StatDir \/ OpenDir
      BY <3>1 DEF StatDir, OpenDir, walkVars
    <3>2. CASE StatPost \/ RestatPost
      BY <3>2 DEF StatPost, RestatPost, walkVars
    <3> QED
      BY <1>8, <3>1, <3>2
  <2>2. ~AtFile' /\ pc' \notin {"pop", "files"}
    BY <1>8 DEF StatDir, OpenDir, StatPost, RestatPost, AtFile, Checking
  <2> QED
    BY <1>2, <2>1, <2>2 DEF VerdictInv, RootStacked, AtDir
<1>12. CASE ListDir \/ StatChild
  <2>1. UNCHANGED <<stack, cur>> /\ pc \in {"listDir", "scanDir"} /\ pc' = "scanDir"
    BY <1>12, ListStep
  <2> QED
    BY <1>2, <2>1 DEF VerdictInv, RootStacked, AtDir, AtFile, Checking
<1>9. CASE ScanDir
  <2>1. pc = "scanDir" /\ pc' = "files"
    BY <1>9 DEF ScanDir
  <2>2. /\ Len(stack') > Len(stack) /\ Len(stack) \in Nat /\ Len(stack') \in Nat
        /\ \A k \in 1..Len(stack) : stack'[k] = stack[k]
        /\ stack'[Len(stack) + 1].id = cur.id
    BY <1>9, LongerStack
  <2>3. stack' # <<>>
    BY <2>2, EmptySeq
  <2>4. stack = <<>> => stack'[1].id = cur.id
    BY <2>2
  <2>5. stack # <<>> => stack'[1] = stack[1]
    <3>1. stack # <<>> => Len(stack) # 0
      BY <1>5, EmptySeq
    <3> QED
      BY <2>2, <3>1
  <2>6. RootStacked \/ RootGone \/ (stack = <<>> /\ cur.id = expected)
    BY <2>1 DEF VerdictInv, AtDir
  <2>7. RootStacked' \/ RootGone
    BY <1>2, <2>3, <2>4, <2>5, <2>6 DEF RootStacked
  <2> QED
    BY <2>1, <2>7 DEF AtFile, AtDir, Checking
<1>10. CASE StatFile \/ FilesDone
  <2>1. /\ pc = "files" /\ UNCHANGED stack
        /\ pc' = "pop" \/ (pc' = "check" /\ ret' = "file" /\ childDir' = childDir)
    BY <1>10 DEF StatFile, FilesDone
  <2>2. childDir # NoInode
    BY <2>1, HostAssumption DEF TypeOK
  <2> QED
    BY <1>2, <2>1, <2>2 DEF VerdictInv, RootStacked, AtFile, AtDir, Checking
<1>11. CASE RestatFile
  <2>1. UNCHANGED <<stack, childDir, target>> /\ AtFile /\ pc' = "unlink"
    BY <1>11 DEF RestatFile, AtFile
  <2> QED
    BY <1>2, <2>1 DEF VerdictInv, RootStacked, AtDir, Checking
<1> QED
  BY <1>6, <1>7, <1>8, <1>9, <1>10, <1>11, <1>12

\* What a removal records, and what it adds to the bytes accounted.
LEMMA VerdictRemove ==
    ASSUME TypeOK, ProvenanceInv, VerdictInv, ~\E why : Stop(why), UnlinkFile \/ RemoveDir
    PROVE  VerdictInv'
<1> DEFINE was == IF UnlinkFile THEN target.st ELSE cur.id
<1>1. /\ deleted' = deleted + seen.blocks
      /\ UNCHANGED <<expected, stack, cur, childDir, target>>
      /\ \E a : removed' = removed \cup {[actual |-> a, seen |-> seen, recorded |-> was]}
  <2>1. CASE UnlinkFile
    BY <2>1 DEF UnlinkFile, Discard, Accounted, evidenceVars, walkVars
  <2>2. CASE RemoveDir /\ ~UnlinkFile
    BY <2>2 DEF RemoveDir, Discard, Accounted, evidenceVars, walkVars
  <2> QED
    BY <2>1, <2>2
<1>2. deleted \in Nat /\ seen.blocks \in Nat /\ \A r \in removed : r.seen.blocks \in Nat
  BY DEF TypeOK, Stats, Removal
<1>3. deleted' = 0 => \A r \in removed' : r.seen.blocks = 0
  BY <1>1, <1>2 DEF VerdictInv
<1>4. /\ RootStacked' = RootStacked
      /\ RootGone \/ was = expected => RootGone'
  <2> HIDE DEF was
  <2>1. PICK a : removed' = removed \cup {[actual |-> a, seen |-> seen, recorded |-> was]}
    BY <1>1
  <2>2. [actual |-> a, seen |-> seen, recorded |-> was].recorded = was
    OBVIOUS
  <2>3. RootGone \/ was = expected => RootGone'
    BY <1>1, <2>1, <2>2 DEF RootGone
  <2>4. RootStacked' = RootStacked
    BY <1>1 DEF RootStacked
  <2> QED
    BY <2>3, <2>4
<1>5. CASE UnlinkFile
  <2>1. AtFile /\ was = target.st /\ pc = "unlink"
    BY <1>5 DEF UnlinkFile, AtFile
  <2>2. CASE childDir = NoInode
    <3>1. RootGone'
      BY <1>4, <2>1, <2>2 DEF VerdictInv
    <3>2. pc' = "done"
      BY <1>5, <2>2 DEF UnlinkFile
    <3> QED
      BY <1>3, <3>1, <3>2 DEF VerdictInv, Surveying, Checking, AtFile, AtDir
  <2>3. CASE childDir # NoInode
    <3>1. (RootStacked \/ RootGone)'
      BY <1>4, <2>1, <2>3 DEF VerdictInv
    <3>2. pc' = "files" /\ reason' = reason /\ reason # "ok"
      BY <1>5, <2>1, <2>3 DEF UnlinkFile, VerdictInv
    <3> QED
      BY <1>3, <3>1, <3>2 DEF VerdictInv, Surveying, Checking, AtFile, AtDir
  <2> QED
    BY <2>2, <2>3
<1>6. CASE RemoveDir /\ ~UnlinkFile
  <2>1. AtDir /\ was = cur.id /\ pc = "rmdir"
    BY <1>6 DEF RemoveDir, AtDir
  <2>2. (RootStacked \/ RootGone)'
    BY <1>4, <2>1 DEF VerdictInv
  <2>3. pc' = "pop" /\ reason' = reason /\ reason # "ok"
    BY <1>6, <2>1 DEF RemoveDir, VerdictInv
  <2> QED
    BY <1>3, <2>2, <2>3 DEF VerdictInv, Surveying, Checking, AtFile, AtDir
<1> QED
  BY <1>5, <1>6

\* A walk that ends well ends with an empty stack; any other reason but "ok"
\* promises nothing.
LEMMA VerdictStopped ==
    ASSUME TypeOK, VerdictInv, Agent, NEW why, Stop(why)
    PROVE  VerdictInv'
<1>1. pc # "done"
  BY LookingStep, RemovalStep
<1>2. pc' = "done" /\ reason' = why /\ UNCHANGED <<expected, deleted, removed>>
  BY DEF Stop, evidenceVars, resultVars
<1>3. why = "ok" => RootGone
  <2> SUFFICES ASSUME why = "ok" PROVE RootGone
    OBVIOUS
  <2>1. reason # "ok" /\ reason' = "ok" /\ UNCHANGED <<node, deleted, removed>>
    BY <1>1, <1>2 DEF VerdictInv, Stop, hostVars
  <2>2. CASE Pop
    BY <2>1, <2>2 DEF Pop, Stop, VerdictInv, RootStacked
  <2>3. CASE Inspect \/ TreeEntry \/ TreeList \/ TreeDone
    BY <2>1, <2>3 DEF Inspect, TreeEntry, TreeList, TreeDone, Stop
  <2>4. CASE CheckBegin \/ ReadProcess \/ ScanSelf \/ CheckEnd
    BY <2>1, <2>4, ReadStep DEF CheckBegin, ScanSelf, CheckEnd, Stop
  <2>5. CASE OpenParent \/ StatRoot \/ StatDir \/ OpenDir
    BY <2>1, <2>5 DEF OpenParent, StatRoot, StatDir, OpenDir, Stop
  <2>6. CASE ListDir \/ StatChild \/ ScanDir
    BY <2>1, <2>6 DEF ListDir, StatChild, ScanDir, Stop
  <2>7. CASE StatFile \/ FilesDone \/ RestatFile \/ StatPost \/ RestatPost
    BY <2>1, <2>7 DEF StatFile, FilesDone, RestatFile, StatPost, RestatPost, Stop
  <2>8. CASE UnlinkFile
    <3>0. pc = "unlink"
      BY <2>8 DEF UnlinkFile
    <3>1. CASE Stop("delete_error")
      BY <2>1, <3>1 DEF Stop
    <3>2. CASE Discard(target.dir, target.name, target.st) /\ reason' = "ok" /\ childDir = NoInode
      <4> DEFINE new == [actual |-> StatOf(tree[target.dir][target.name]), seen |-> seen,
                         recorded |-> target.st]
      <4>0. removed' = removed \cup {new} /\ new.recorded = target.st
        BY <3>2 DEF Discard
      <4> HIDE DEF new
      <4>1. \E r \in removed' : r.recorded = target.st
        BY <4>0
      <4> QED
        BY <2>1, <3>0, <3>2, <4>1 DEF VerdictInv, AtFile, RootGone
    <3> QED
      BY <2>1, <2>8, <3>1, <3>2 DEF UnlinkFile
  <2>9. CASE RemoveDir
    BY <2>1, <2>9 DEF RemoveDir, Stop
  <2> QED
    BY <2>2, <2>3, <2>4, <2>5, <2>6, <2>7, <2>8, <2>9 DEF Agent
<1>4. RootGone' = RootGone
  BY <1>2 DEF RootGone
<1> QED
  BY <1>2, <1>3, <1>4 DEF VerdictInv, Surveying, Checking, AtFile, AtDir

LEMMA VerdictNext == TypeOK /\ ProvenanceInv /\ VerdictInv /\ [Next]_vars => VerdictInv'
<1> SUFFICES ASSUME TypeOK, ProvenanceInv, VerdictInv, [Next]_vars PROVE VerdictInv'
  OBVIOUS
<1>1. CASE Agent /\ \E why : Stop(why)
  BY <1>1, VerdictStopped
<1>2. CASE Agent /\ ~\E why : Stop(why)
  BY <1>2, VerdictSurvey, VerdictCheck, VerdictWalk, VerdictRemove DEF Agent
<1>3. CASE Environment \/ UNCHANGED vars
  <2>1. UNCHANGED <<pc, evidenceVars, ret, walkVars, deleted, removed, reason>>
    BY <1>3 DEF Environment, OtherPrograms, DeadlinePasses, vars, checkVars, resultVars
  <2> QED
    BY <2>1 DEF VerdictInv, Surveying, Checking, AtFile, AtDir, RootStacked, RootGone,
       evidenceVars, walkVars
<1> QED
  BY <1>1, <1>2, <1>3 DEF Next

\* The result a client gets says what happened: "rejected" frees no bytes, and
\* "deleted" has removed the candidate that was rechecked.
THEOREM VerdictHolds == Spec => []VerdictHonest
<1>1. TypeOK /\ VerdictInv => VerdictHonest
  <2> SUFFICES ASSUME TypeOK, VerdictInv PROVE VerdictHonest
    OBVIOUS
  <2>1. Verdict = "deleted" => RootGone
    BY DEF Verdict, VerdictInv
  <2>2. Verdict = "rejected" => deleted = 0
    BY DEF Verdict, TypeOK
  <2> QED
    BY <2>1, <2>2 DEF VerdictHonest, VerdictInv, RootGone
<1> QED
  BY <1>1, VerdictInit, VerdictNext, TypeCorrect, ProvenanceCorrect, PTL DEF Spec

-----------------------------------------------------------------------------
(* The candidate and its path.                                             *)

\* The path of the candidate has one component to look up.
LEMMA ResolveCand ==
    ASSUME node[Top].kind # "link"
    PROVE  Resolve(<<Cand>>) = tree[Top][Cand]
<1> DEFINE path == <<Cand>>
           Answers(g) == g = [s \in SUBSET DOMAIN path |->
                                IF s = {} THEN Top
                                ELSE Lookup(Follow(g[s \ {Max(s)}]), path[Max(s)])]
           g0 == [s \in SUBSET DOMAIN path |-> IF s = {} THEN Top ELSE tree[Top][Cand]]
<1>1. Resolve(path) = (CHOOSE g : Answers(g))[DOMAIN path]
  BY DEF Resolve, FoldLeft, MapThenFoldSet
<1>2. DOMAIN path = {1} /\ path[1] = Cand
  OBVIOUS
<1>3. Max({1}) = 1
  BY DEF Max
<1>4. Lookup(Follow(Top), Cand) = tree[Top][Cand]
  BY HostAssumption DEF Lookup, Follow
<1>5. Answers(g0)
  <2>1. ASSUME NEW s \in SUBSET DOMAIN path, s # {}
        PROVE  Lookup(Follow(g0[s \ {Max(s)}]), path[Max(s)]) = tree[Top][Cand]
    <3>1. s = {1}
      BY <1>2, <2>1
    <3>2. Max(s) = 1 /\ s \ {Max(s)} = {} /\ g0[{}] = Top
      BY <1>3, <3>1
    <3> QED
      BY <1>2, <1>4, <3>2
  <2> QED
    BY <2>1
<1>6. Answers(CHOOSE g : Answers(g))
  BY <1>5
<1> DEFINE g1 == CHOOSE g : Answers(g)
<1> HIDE DEF g1
<1>7. g1[DOMAIN path] = tree[Top][Cand]
  <2>1. DOMAIN path \in SUBSET DOMAIN path /\ {} \in SUBSET DOMAIN path /\ DOMAIN path # {}
    BY <1>2
  <2>2. g1[{}] = Top
    BY <1>6, <2>1 DEF g1
  <2>3. g1[DOMAIN path] = Lookup(Follow(g1[(DOMAIN path) \ {Max(DOMAIN path)}]), path[Max(DOMAIN path)])
    BY <1>6, <2>1 DEF g1
  <2>4. Max(DOMAIN path) = 1 /\ (DOMAIN path) \ {Max(DOMAIN path)} = {}
    BY <1>2, <1>3
  <2> QED
    BY <1>2, <1>4, <2>2, <2>3, <2>4
<1> QED
  BY <1>1, <1>7 DEF g1

\* Removing an entry touches its directory and its inode, and changes the kind
\* of no other one.
LEMMA UnboundMarks ==
    ASSUME HostTypeOK, NEW d \in Inodes, NEW n \in Names, tree[d][n] \in Inodes
    PROVE  /\ Unbound(d, n)[tree[d][n]].ver > node[tree[d][n]].ver
           /\ \A i \in Inodes : /\ Unbound(d, n)[i].ver >= node[i].ver
                                /\ i # tree[d][n] => Unbound(d, n)[i].kind = node[i].kind
<1>1. \A i \in Inodes : /\ node[i] \in Node /\ Touched(i) \in Node
                        /\ Touched(i).ver = node[i].ver + 1 /\ Touched(i).kind = node[i].kind
  BY DEF HostTypeOK, Touched, Node
<1>2. \A i \in Inodes : node[i].ver \in Nat
  BY <1>1 DEF Node
<1> DEFINE j == tree[d][n]
           after == IF Links(j) = {<<d, n>>} /\ ~InUse(j)
                    THEN [Touched(j) EXCEPT !.kind = "free", !.blocks = 0]
                    ELSE Touched(j)
<1>3. after.ver = Touched(j).ver
  BY <1>1 DEF Node
<1> HIDE DEF after
<1>4. Unbound(d, n) = [node EXCEPT ![d] = Touched(d), ![j] = after]
  BY DEF Unbound, after
<1>5. DOMAIN node = Inodes
  BY DEF HostTypeOK
<1>6. Unbound(d, n)[j] = after
  BY <1>4, <1>5
<1>7. \A i \in Inodes \ {j} : Unbound(d, n)[i] = IF i = d THEN Touched(i) ELSE node[i]
  BY <1>4, <1>5
<1>8. Unbound(d, n)[j].ver > node[j].ver /\ Unbound(d, n)[j].ver >= node[j].ver
  BY <1>1, <1>2, <1>3, <1>6
<1>9. ASSUME NEW i \in Inodes, i # j
      PROVE  Unbound(d, n)[i].ver >= node[i].ver /\ Unbound(d, n)[i].kind = node[i].kind
  BY <1>1, <1>2, <1>7, <1>9
<1> HIDE DEF j
<1> QED
  BY <1>8, <1>9 DEF j

\* What other programs can make of the entry of the candidate.
Marked(i)   == node[i].kind # "mount" /\ node'[i].ver > node[i].ver
CandKept    == tree'[Top][Cand] = tree[Top][Cand]
CandMounted == tree'[Top][Cand] \in Inodes /\ node'[tree'[Top][Cand]].kind = "mount"
TopHolds    == tree[Top][Cand] # NoInode => node[Top].kind = "dir"

\* Versions only grow, what is mounted stays, and the entry of the candidate
\* changes only if its inode is touched or something is mounted over it.
LEMMA EntryFate ==
    ASSUME HostTypeOK, TopHolds, FileSystemStep
    PROVE  /\ \A i \in Inodes : node'[i].ver >= node[i].ver
           /\ \A i \in Inodes : node[i].kind = "mount" => node'[i].kind = "mount"
           /\ TopHolds'
           /\ tree[Top][Cand] \in Inodes => CandKept \/ CandMounted \/ Marked(tree[Top][Cand])
<1> DEFINE Goal == /\ \A i \in Inodes : node'[i].ver >= node[i].ver
                   /\ \A i \in Inodes : node[i].kind = "mount" => node'[i].kind = "mount"
                   /\ TopHolds'
                   /\ tree[Top][Cand] \in Inodes =>
                         CandKept \/ CandMounted \/ Marked(tree[Top][Cand])
<1>1. \A i \in Inodes : /\ node[i] \in Node /\ node[i].ver \in Nat
                        /\ Touched(i) \in Node
                        /\ Touched(i).ver = node[i].ver + 1 /\ Touched(i).kind = node[i].kind
  BY DEF HostTypeOK, Touched, Node
<1>2. DOMAIN node = Inodes /\ DOMAIN tree = Inodes /\ \A d \in Inodes : DOMAIN tree[d] = Names
  BY DEF HostTypeOK, Tree
<1>3. Top \in Inodes /\ Cand \in Names /\ NoInode \notin Inodes
  BY HostAssumption
\* A step that only touches inodes.
<1>4. ASSUME UNCHANGED tree,
             \A i \in Inodes : node'[i].ver >= node[i].ver /\ node'[i].kind = node[i].kind
      PROVE  Goal
  BY <1>3, <1>4 DEF TopHolds, CandKept
\* A step that binds an entry no other was bound to, and touches inodes.
<1>5. ASSUME NEW d \in Inodes, NEW n \in Names, NEW i \in Inodes, Bind(d, n, i),
             tree[d][n] = NoInode, node[d].kind = "dir", node[i].kind # "mount",
             \A x \in Inodes : node'[x].ver >= node[x].ver,
             \A x \in Inodes : node'[x].kind = node[x].kind \/ (x = i /\ node[i].kind = "free")
      PROVE  Goal
  <2>1. tree' = [tree EXCEPT ![d][n] = i]
    BY <1>5 DEF Bind
  <2>2. tree[Top][Cand] \in Inodes => CandKept
    BY <1>2, <1>3, <1>5, <2>1 DEF CandKept
  <2>3. TopHolds'
    BY <1>2, <1>3, <1>5, <2>1 DEF TopHolds
  <2> QED
    BY <1>5, <2>2, <2>3
<1>6. ASSUME NEW i \in Inodes, Write(i) \/ Chown(i) PROVE Goal
  <2>1. UNCHANGED tree
    BY <1>6 DEF Write, Chown
  <2>2. PICK v : /\ node' = [node EXCEPT ![i] = v]
                 /\ v.ver = node[i].ver + 1 /\ v.kind = node[i].kind
    <3>1. CASE Write(i)
      <4>1. PICK b \in Sizes : node' = [node EXCEPT ![i] = [Touched(i) EXCEPT !.blocks = b]]
        BY <3>1 DEF Write
      <4>2. [Touched(i) EXCEPT !.blocks = b].ver = node[i].ver + 1
            /\ [Touched(i) EXCEPT !.blocks = b].kind = node[i].kind
        BY <1>1 DEF Node
      <4> QED
        BY <4>1, <4>2
    <3>2. CASE Chown(i)
      <4>1. PICK o \in Owners : node' = [node EXCEPT ![i] = [Touched(i) EXCEPT !.own = o]]
        BY <3>2 DEF Chown
      <4>2. [Touched(i) EXCEPT !.own = o].ver = node[i].ver + 1
            /\ [Touched(i) EXCEPT !.own = o].kind = node[i].kind
        BY <1>1 DEF Node
      <4> QED
        BY <4>1, <4>2
    <3> QED
      BY <1>6, <3>1, <3>2
  <2>3. ASSUME NEW x \in Inodes PROVE node'[x].ver >= node[x].ver /\ node'[x].kind = node[x].kind
    BY <1>1, <1>2, <2>2
  <2> QED
    BY <1>4, <2>1, <2>3
<1>7. ASSUME NEW d \in Inodes, NEW n \in Names, NEW i \in Inodes, Create(d, n, i) PROVE Goal
  <2>1. /\ node[d].kind = "dir" /\ tree[d][n] = NoInode /\ node[i].kind = "free" /\ Bind(d, n, i)
    BY <1>7 DEF Create
  <2>2. PICK k \in CreateKinds, b \in Sizes :
           node' = [node EXCEPT ![d] = Touched(d),
                                ![i] = [Touched(i) EXCEPT !.kind = k, !.own = 0, !.blocks = b]]
    BY <1>7 DEF Create
  <2>3. [Touched(i) EXCEPT !.kind = k, !.own = 0, !.blocks = b].ver = node[i].ver + 1
    BY <1>1 DEF Node
  <2>4. ASSUME NEW x \in Inodes
        PROVE  node'[x].ver >= node[x].ver /\ (node'[x].kind = node[x].kind \/ x = i)
    BY <1>1, <1>2, <2>2, <2>3
  <2> QED
    BY <1>5, <2>1, <2>4
<1>8. ASSUME NEW d \in Inodes, NEW n \in Names, NEW i \in Inodes, Link(d, n, i) PROVE Goal
  <2>1. /\ node[d].kind = "dir" /\ tree[d][n] = NoInode /\ node[i].kind = "file" /\ Bind(d, n, i)
        /\ node' = [node EXCEPT ![d] = Touched(d), ![i] = Touched(i)]
    BY <1>8 DEF Link
  <2>2. ASSUME NEW x \in Inodes PROVE node'[x].ver >= node[x].ver /\ node'[x].kind = node[x].kind
    BY <1>1, <1>2, <2>1
  <2> QED
    BY <1>5, <2>1, <2>2
<1>9. ASSUME NEW d \in Inodes, NEW n \in Names, NEW i \in Inodes, MountOver(d, n, i) PROVE Goal
  <2>1. /\ node[i].kind = "free" /\ tree' = [tree EXCEPT ![d][n] = i]
        /\ tree[d][n] # NoInode
        /\ node' = [node EXCEPT ![i] = [Touched(i) EXCEPT !.kind = "mount"]]
    BY <1>9 DEF MountOver, Bind
  <2>2. [Touched(i) EXCEPT !.kind = "mount"].ver = node[i].ver + 1
        /\ [Touched(i) EXCEPT !.kind = "mount"].kind = "mount"
    BY <1>1 DEF Node
  <2>3. ASSUME NEW x \in Inodes
        PROVE  node'[x].ver >= node[x].ver
               /\ node'[x].kind = (IF x = i THEN "mount" ELSE node[x].kind)
    BY <1>1, <1>2, <2>1, <2>2
  <2>4. CandKept \/ CandMounted
    BY <1>2, <1>3, <2>1, <2>3 DEF CandKept, CandMounted
  <2>5. TopHolds'
    <3>1. tree'[Top][Cand] # NoInode => tree[Top][Cand] # NoInode
      BY <1>2, <1>3, <2>1
    <3> QED
      BY <1>3, <2>1, <2>3, <3>1 DEF TopHolds
  <2> QED
    BY <2>1, <2>3, <2>4, <2>5
<1>10. ASSUME NEW d \in Inodes, NEW n \in Names, Delete(d, n) PROVE Goal
  <2> DEFINE j == tree[d][n]
  <2>1. j \in Inodes /\ Removable(j) /\ node' = Unbound(d, n)
        /\ tree' = [tree EXCEPT ![d][n] = NoInode]
    BY <1>10 DEF Delete, Bind, HostTypeOK, Tree
  <2>2. /\ node'[j].ver > node[j].ver
        /\ \A i \in Inodes : /\ node'[i].ver >= node[i].ver
                             /\ i # j => node'[i].kind = node[i].kind
    BY <2>1, UnboundMarks
  <2>3. node[j].kind # "mount" /\ (node[j].kind = "dir" => Entries(j) = {})
    BY <2>1 DEF Removable
  <2>4. CandKept \/ Marked(tree[Top][Cand])
    <3>1. CASE <<Top, Cand>> = <<d, n>>
      BY <2>2, <2>3, <3>1 DEF Marked
    <3>2. CASE <<Top, Cand>> # <<d, n>>
      BY <1>2, <1>3, <2>1, <3>2 DEF CandKept
    <3> QED
      BY <3>1, <3>2
  <2>5. TopHolds'
    <3>1. CASE <<Top, Cand>> = <<d, n>>
      BY <1>2, <1>3, <2>1, <3>1 DEF TopHolds
    <3>2. CASE <<Top, Cand>> # <<d, n>>
      <4>1. tree'[Top][Cand] = tree[Top][Cand]
        BY <1>2, <1>3, <2>1, <3>2
      <4>2. tree[Top][Cand] # NoInode => Top # j
        BY <1>3, <2>3 DEF Entries, TopHolds
      <4> QED
        <5>1. Top # j => node'[Top].kind = node[Top].kind
          BY <1>3, <2>2
        <5> QED
          BY <4>1, <4>2, <5>1 DEF TopHolds
    <3> QED
      BY <3>1, <3>2
  <2>6. \A i \in Inodes : node[i].kind = "mount" => node'[i].kind = "mount"
    BY <2>2, <2>3
  <2>7. \A i \in Inodes : node'[i].ver >= node[i].ver
    BY <2>2
  <2> QED
    BY <2>4, <2>5, <2>6, <2>7
<1>11. ASSUME NEW d \in Inodes, NEW n \in Names, NEW e \in Inodes, NEW m \in Names,
              Rename(d, n, e, m)
       PROVE  Goal
  <2> DEFINE i == tree[d][n]
             j == tree[e][m]
             after == IF j = NoInode THEN node ELSE Unbound(e, m)
  <2>1. /\ i \in Inodes /\ j \in Inodes \cup {NoInode}
        /\ node[i].kind # "mount" /\ node[e].kind = "dir"
        /\ j # NoInode => Removable(j) /\ ~IsDir(j)
        /\ tree' = [tree EXCEPT ![d][n] = NoInode, ![e][m] = i]
        /\ node' = [x \in Inodes |-> IF x \in {d, e, i} THEN [after[x] EXCEPT !.ver = @ + 1]
                                                        ELSE after[x]]
        /\ <<d, n>> # <<e, m>>
    BY <1>11 DEF Rename, HostTypeOK, Tree
  <2>2. after \in [Inodes -> Node]
    BY <2>1, UnboundType DEF HostTypeOK
  <2>3. \A x \in Inodes : /\ after[x].ver >= node[x].ver
                          /\ x # j => after[x].kind = node[x].kind
                          /\ x = j => after[x].ver > node[x].ver
    <3>1. CASE j = NoInode
      BY <1>1, <1>3, <3>1
    <3>2. CASE j # NoInode
      <4>1. j \in Inodes /\ after = Unbound(e, m)
        BY <2>1, <3>2
      <4> HIDE DEF after
      <4>2. /\ Unbound(e, m)[j].ver > node[j].ver
            /\ \A x \in Inodes : /\ Unbound(e, m)[x].ver >= node[x].ver
                                 /\ x # j => Unbound(e, m)[x].kind = node[x].kind
        BY <4>1, UnboundMarks
      <4> HIDE DEF j
      <4> QED
        BY <4>1, <4>2
    <3> QED
      BY <3>1, <3>2
  <2> HIDE DEF after
  <2>4. ASSUME NEW x \in Inodes
        PROVE  /\ node'[x].ver >= after[x].ver /\ node'[x].kind = after[x].kind
               /\ x \in {d, e, i} => node'[x].ver > after[x].ver
    <3>1. after[x] \in Node /\ after[x].ver \in Nat
      BY <2>2 DEF Node
    <3> QED
      BY <2>1, <3>1 DEF Node
  <2>5. \A x \in Inodes : after[x].ver \in Nat /\ node'[x].ver \in Nat
    <3>1. \A x \in Inodes : after[x] \in Node
      BY <2>2
    <3>2. \A x \in Inodes : [after[x] EXCEPT !.ver = @ + 1] \in Node
      BY <3>1 DEF Node
    <3> QED
      BY <2>1, <3>1, <3>2 DEF Node
  <2>6. \A x \in Inodes : node'[x].ver >= node[x].ver
    BY <1>1, <2>3, <2>4, <2>5
  <2>7. node'[i].ver > node[i].ver
    BY <1>1, <2>1, <2>3, <2>4, <2>5
  <2>8. j \in Inodes => node'[j].ver > node[j].ver /\ node[j].kind \notin {"mount", "dir"}
    BY <1>1, <1>3, <2>1, <2>3, <2>4, <2>5 DEF IsDir
  <2>9. \A x \in Inodes : x # j => node'[x].kind = node[x].kind
    BY <2>3, <2>4
  <2>10. tree[Top][Cand] \in Inodes => CandKept \/ Marked(tree[Top][Cand])
    <3>1. CASE <<Top, Cand>> = <<d, n>>
      BY <2>1, <2>7, <3>1 DEF Marked
    <3>2. CASE <<Top, Cand>> = <<e, m>>
      BY <2>8, <3>2 DEF Marked
    <3>3. CASE <<Top, Cand>> # <<d, n>> /\ <<Top, Cand>> # <<e, m>>
      BY <1>2, <1>3, <2>1, <3>3 DEF CandKept
    <3> QED
      BY <3>1, <3>2, <3>3
  <2>11. TopHolds'
    <3>1. CASE <<Top, Cand>> = <<d, n>>
      BY <1>2, <1>3, <2>1, <3>1 DEF TopHolds
    <3>2. CASE <<Top, Cand>> = <<e, m>>
      BY <1>3, <2>1, <2>8, <2>9, <3>2 DEF TopHolds
    <3>3. CASE <<Top, Cand>> # <<d, n>> /\ <<Top, Cand>> # <<e, m>>
      BY <1>2, <1>3, <2>1, <2>8, <2>9, <3>3 DEF TopHolds
    <3> QED
      BY <3>1, <3>2, <3>3
  <2> QED
    BY <2>6, <2>8, <2>9, <2>10, <2>11
<1> HIDE DEF Goal
<1>12. Goal
  BY <1>6, <1>7, <1>8, <1>9, <1>10, <1>11 DEF FileSystemStep
<1> QED
  BY <1>12 DEF Goal

\* Only the survey reads the path of the candidate, and it ends with every
\* path visited.
Seeking == pc \in {"tree", "list", "parent", "root"} \/ Checking("recheck")

LEMMA RootInit == Init => RootInv
<1> SUFFICES ASSUME Init PROVE RootInv
  OBVIOUS
<1>1. node[Top].kind = "dir"
  BY HostAssumption DEF Init, HostInit
<1>2. pc = "inspect"
  BY DEF Init
<1> QED
  BY <1>1, <1>2 DEF RootInv, Walking, AtFile, AtDir, Checking

LEMMA RootStopped == ASSUME RootInv, NEW why, Stop(why) PROVE RootInv'
BY DEF Stop, RootInv, hostVars, Walking, AtFile, AtDir, Checking

LEMMA RootSurvey ==
    ASSUME TypeOK, RootInv, ~\E why : Stop(why), Inspect \/ TreeEntry \/ TreeList \/ TreeDone
    PROVE  RootInv'
<1>0. /\ pc \in {"inspect", "tree", "list"}
      /\ pc' \in {"tree", "list"} \/ (pc' = "check" /\ ret' = "recheck" /\ pending' = {})
      /\ UNCHANGED <<tree, node>>
  BY DEF Inspect, TreeEntry, TreeList, TreeDone, hostVars, evidenceVars
<1>1. SUFFICES /\ expected'.ino \in Inodes /\ expected'.ver <= node[expected'.ino].ver
               /\ node[expected'.ino].ver = expected'.ver =>
                     /\ tree[Top][Cand] \in Inodes
                     /\ tree[Top][Cand] = expected'.ino \/ node[tree[Top][Cand]].kind = "mount"
                     /\ <<Cand>> \in pending' \/ expected'.ino \in Inventory'
  BY <1>0 DEF RootInv, Walking, AtFile, AtDir, Checking
<1>2. CASE Inspect
  <2>1. /\ tree[Top][Cand] # NoInode /\ expected' = StatOf(tree[Top][Cand])
        /\ pending' = {<<Cand>>}
    BY <1>2 DEF Inspect
  <2>2. tree[Top][Cand] \in Inodes
    BY <2>1, HostAssumption DEF TypeOK, HostTypeOK, Tree
  <2>3. node[tree[Top][Cand]].ver \in Nat
    BY <2>2 DEF TypeOK, HostTypeOK, Node
  <2>4. expected'.ino = tree[Top][Cand] /\ expected'.ver = node[tree[Top][Cand]].ver
    BY <2>1 DEF StatOf
  <2> QED
    BY <2>1, <2>2, <2>3, <2>4
<1>3. CASE TreeEntry
  <2>1. PICK path \in pending :
          /\ inventory' = inventory \cup {StatOf(Resolve(path))}
          /\ pending' = pending \ {path} /\ expected' = expected
          /\ node[Resolve(path)].kind # "mount"
    BY <1>3 DEF TreeEntry
  <2>2. Inventory' = Inventory \cup {Resolve(path)}
    <3> DEFINE st == StatOf(Resolve(path))
    <3>1. inventory' = inventory \cup {st} /\ st.ino = Resolve(path)
      BY <2>1 DEF StatOf
    <3> HIDE DEF st
    <3> QED
      BY <3>1 DEF Inventory
  <2>3. ASSUME node[expected.ino].ver = expected.ver, <<Cand>> = path
        PROVE  expected.ino = Resolve(path)
    <3>1. tree[Top][Cand] \in Inodes /\ node[Top].kind = "dir"
      BY <1>0, <1>3, <2>3, HostAssumption DEF RootInv, TreeEntry
    <3>2. Resolve(path) = tree[Top][Cand]
      BY <2>3, <3>1, ResolveCand
    <3> QED
      BY <1>3, <2>1, <2>3, <3>2 DEF RootInv, TreeEntry
  <2>4. pc = "tree"
    BY <1>3 DEF TreeEntry
  <2> QED
    BY <2>1, <2>2, <2>3, <2>4 DEF RootInv
<1>4. CASE TreeList \/ TreeDone
  <2>1. pc \in {"tree", "list"} /\ UNCHANGED <<expected, inventory>> /\ pending \subseteq pending'
    BY <1>4 DEF TreeList, TreeDone, evidenceVars
  <2> QED
    BY <2>1 DEF RootInv, Inventory
<1> QED
  BY <1>2, <1>3, <1>4

\* The steps after the survey leave the inventory alone; the walk begins with
\* the entry whose identity was read at the recheck.
LEMMA RootLater ==
    ASSUME TypeOK, RootInv, ~\E why : Stop(why), Agent,
           ~(Inspect \/ TreeEntry \/ TreeList \/ TreeDone), ~UnlinkFile, ~RemoveDir
    PROVE  RootInv'
<1>1. UNCHANGED <<tree, node>>
  BY LookingStep DEF hostVars
<1>2. /\ pc \notin {"inspect", "tree", "list"}
      /\ UNCHANGED evidenceVars
  <2>1. CASE CheckBegin \/ ReadProcess \/ ScanSelf \/ CheckEnd
    BY <2>1, ReadStep DEF CheckBegin, ScanSelf, CheckEnd
  <2>2. CASE OpenParent \/ StatRoot \/ Pop \/ StatDir \/ OpenDir
    BY <2>2 DEF OpenParent, StatRoot, Pop, StatDir, OpenDir
  <2>3. CASE ListDir \/ StatChild \/ ScanDir
    BY <2>3, ListStep DEF ScanDir
  <2>4. CASE StatFile \/ FilesDone \/ RestatFile \/ StatPost \/ RestatPost
    BY <2>4 DEF StatFile, FilesDone, RestatFile, StatPost, RestatPost
  <2> QED
    BY <2>1, <2>2, <2>3, <2>4 DEF Agent
<1>3. pc # "done" /\ UNCHANGED <<expected, pending, inventory>> /\ pending = {}
  BY <1>2, LookingStep DEF evidenceVars, RootInv
<1>4. Inventory' = Inventory
  BY <1>3 DEF Inventory
<1>5. /\ Seeking' => Seeking
      /\ Walking' => Walking \/ StatRoot
  <2>0. ret \in Checkers
    BY DEF TypeOK
  <2>1. CASE CheckBegin \/ ReadProcess \/ ScanSelf \/ CheckEnd
    BY <2>0, <2>1, ReadStep DEF CheckBegin, ScanSelf, CheckEnd, Seeking, Walking,
       AtFile, AtDir, Checking, Checkers, checkVars
  <2>2. CASE OpenParent \/ Pop \/ StatDir \/ OpenDir
    BY <2>2 DEF OpenParent, Pop, StatDir, OpenDir, Seeking, Walking, AtFile, AtDir, Checking
  <2>3. CASE ListDir \/ StatChild \/ ScanDir \/ FilesDone
    BY <2>3, ListStep DEF ScanDir, FilesDone, Seeking, Walking, AtFile, AtDir, Checking
  <2>4. CASE StatFile \/ RestatFile
    BY <2>4 DEF StatFile, RestatFile, Seeking, Walking, AtFile, AtDir, Checking
  <2>5. CASE StatPost \/ RestatPost
    BY <2>5 DEF StatPost, RestatPost, Seeking, Walking, AtFile, AtDir, Checking
  <2>6. CASE StatRoot
    BY <2>6 DEF StatRoot, Seeking, Checking
  <2> QED
    BY <1>2, <2>1, <2>2, <2>3, <2>4, <2>5, <2>6
       DEF Agent, Inspect, TreeEntry, TreeList, TreeDone
<1>6. StatRoot => expected.ino \in Inventory
  <2> SUFFICES ASSUME StatRoot PROVE expected.ino \in Inventory
    OBVIOUS
  <2>1. pc = "root" /\ expected.ino = tree[Top][Cand] /\ expected.ver = node[expected.ino].ver
    BY DEF StatRoot, SameIdentity, StatOf
  <2> QED
    BY <1>3, <2>1 DEF RootInv
<1>7. Walking' => (expected.ino \in Inventory)'
  BY <1>3, <1>4, <1>5, <1>6 DEF RootInv
<1> QED
  BY <1>1, <1>3, <1>4, <1>5, <1>7 DEF RootInv, Seeking

\* The directory that is removed is empty, so it is not the one above the
\* candidate while the candidate is there.
LEMMA RootRemove ==
    ASSUME TypeOK, RootInv, ~\E why : Stop(why), UnlinkFile \/ RemoveDir
    PROVE  RootInv'
<1>1. PICK d \in Inodes, n \in Names :
         /\ tree[d][n] # NoInode
         /\ node' = Unbound(d, n) /\ tree' = [tree EXCEPT ![d][n] = NoInode]
         /\ UNCHANGED <<expected, inventory, pending>>
         /\ ~IsDir(tree[d][n]) \/ Entries(tree[d][n]) = {}
         /\ pc \in {"unlink", "rmdir"} /\ pc' \in {"files", "pop", "done"}
  <2>1. CASE UnlinkFile
    <3>1. target.dir \in Inodes /\ target.name \in Names
      BY DEF TypeOK, FileRef
    <3> QED
      BY <2>1, <3>1 DEF UnlinkFile, Discard, Bind, evidenceVars
  <2>2. CASE RemoveDir
    <3>1. cur.dir \in Inodes /\ cur.name \in Names
      BY DEF TypeOK, Frame
    <3> QED
      BY <2>2, <3>1 DEF RemoveDir, Discard, Bind, evidenceVars
  <2> QED
    BY <2>1, <2>2
<1>2. tree[d][n] \in Inodes
  BY <1>1 DEF TypeOK, HostTypeOK, Tree
<1>3. (tree[Top][Cand] # NoInode => node[Top].kind = "dir")'
  <2> SUFFICES ASSUME tree'[Top][Cand] # NoInode PROVE node'[Top].kind = "dir"
    OBVIOUS
  <2>1. tree[Top][Cand] # NoInode
    BY <1>1, HostAssumption DEF TypeOK, HostTypeOK, Tree
  <2>2. node[Top].kind = "dir" /\ IsDir(Top) /\ Entries(Top) # {}
    BY <2>1, HostAssumption DEF RootInv, IsDir, Entries
  <2>3. Top # tree[d][n]
    BY <1>1, <2>2
  <2> QED
    BY <1>1, <1>2, <2>2, <2>3, HostAssumption, UnboundMarks DEF TypeOK
<1>4. Walking /\ (Walking => expected.ino \in Inventory)'
  BY <1>1 DEF Walking, AtFile, AtDir, RootInv, Inventory
<1> QED
  BY <1>1, <1>3, <1>4 DEF RootInv, Checking

\* Whatever other programs do to the path of the candidate before the walk
\* begins, either it still leads there or its inode has got another version.
LEMMA RootEnvironment ==
    ASSUME TypeOK, RootInv, OtherPrograms
    PROVE  RootInv'
<1>1. UNCHANGED <<pc, ret, expected, pending, inventory>>
  BY DEF OtherPrograms, evidenceVars, checkVars
<1>2. UNCHANGED <<Seeking, Walking, Inventory>>
  BY <1>1 DEF Seeking, Walking, AtFile, AtDir, Checking, Inventory
<1>3. CASE ProcessStep
  <2>1. UNCHANGED <<tree, node>>
    BY <1>3 DEF ProcessStep, Open, Close, Fork, Exit
  <2> QED
    BY <1>1, <1>2, <2>1 DEF RootInv, Seeking
<1>4. CASE FileSystemStep
  <2>1. /\ \A i \in Inodes : node'[i].ver >= node[i].ver
        /\ \A i \in Inodes : node[i].kind = "mount" => node'[i].kind = "mount"
        /\ TopHolds'
        /\ tree[Top][Cand] \in Inodes => CandKept \/ CandMounted \/ Marked(tree[Top][Cand])
    BY <1>4, EntryFate DEF TypeOK, RootInv, TopHolds
  <2>2. ASSUME Seeking
        PROVE  /\ expected.ver <= node'[expected.ino].ver
               /\ node'[expected.ino].ver = expected.ver => node[expected.ino].ver = expected.ver
    <3>1. expected.ino \in Inodes /\ expected.ver <= node[expected.ino].ver
      BY <2>2 DEF RootInv, Seeking
    <3>2. expected.ver \in Nat /\ node[expected.ino].ver \in Nat
      BY <3>1 DEF TypeOK, Stats, HostTypeOK, Node
    <3>3. HostTypeOK'
      BY <1>4, HostStepType DEF TypeOK
    <3>4. node'[expected.ino].ver \in Nat
      BY <3>1, <3>3 DEF HostTypeOK, Node
    <3> QED
      BY <2>1, <3>1, <3>2, <3>4
  <2>3. ASSUME Seeking, node'[expected.ino].ver = expected.ver
        PROVE  /\ tree'[Top][Cand] \in Inodes
               /\ tree'[Top][Cand] = expected.ino \/ node'[tree'[Top][Cand]].kind = "mount"
               /\ <<Cand>> \in pending \/ expected.ino \in Inventory
    <3>1. /\ tree[Top][Cand] \in Inodes
          /\ tree[Top][Cand] = expected.ino \/ node[tree[Top][Cand]].kind = "mount"
          /\ <<Cand>> \in pending \/ expected.ino \in Inventory
      BY <2>2, <2>3 DEF RootInv, Seeking
    <3>2. ~Marked(tree[Top][Cand])
      <4>1. CASE tree[Top][Cand] = expected.ino
        <5>1. node[expected.ino].ver = expected.ver /\ expected.ver \in Nat
          BY <2>2, <2>3 DEF TypeOK, Stats
        <5> QED
          BY <2>3, <4>1, <5>1 DEF Marked
      <4>2. CASE node[tree[Top][Cand]].kind = "mount"
        BY <4>2 DEF Marked
      <4> QED
        BY <3>1, <4>1, <4>2
    <3> QED
      BY <2>1, <3>1, <3>2 DEF CandKept, CandMounted
  <2> QED
    BY <1>1, <1>2, <2>1, <2>2, <2>3 DEF RootInv, Seeking, TopHolds
<1> QED
  BY <1>3, <1>4 DEF OtherPrograms

LEMMA RootNext == TypeOK /\ RootInv /\ [Next]_vars => RootInv'
<1> SUFFICES ASSUME TypeOK, RootInv, [Next]_vars PROVE RootInv'
  OBVIOUS
<1>1. CASE Agent /\ \E why : Stop(why)
  BY <1>1, RootStopped
<1>2. CASE Agent /\ ~\E why : Stop(why)
  BY <1>2, RootSurvey, RootLater, RootRemove
<1>3. CASE Environment /\ OtherPrograms
  BY <1>3, RootEnvironment
<1>4. CASE DeadlinePasses \/ UNCHANGED vars
  <2>1. UNCHANGED <<tree, node, pc, evidenceVars, ret>>
    BY <1>4 DEF DeadlinePasses, vars, hostVars, checkVars
  <2> QED
    BY <2>1 DEF RootInv, Walking, AtFile, AtDir, Checking, Inventory, evidenceVars
<1> QED
  BY <1>1, <1>2, <1>3, <1>4 DEF Next, Environment

-----------------------------------------------------------------------------
(* What a walk that meets itself can remove.                               *)

LEMMA SelfInit == Init => SelfInv
<1> SUFFICES ASSUME Init PROVE SelfInv
  OBVIOUS
<1>1. pc = "inspect" /\ stack = <<>> /\ childDir = NoInode /\ removed = {}
  BY DEF Init
<1>2. 1 .. Len(stack) = {}
  BY <1>1
<1> QED
  BY <1>1, <1>2 DEF SelfInv, OnlyTheCandidate, AfterCheck, AtDir, Checking

LEMMA SelfStopped == ASSUME SelfInv, NEW why, Stop(why) PROVE SelfInv'
BY DEF Stop, SelfInv, OnlyTheCandidate, evidenceVars, walkVars, resultVars, AfterCheck, AtDir,
       Checking, Inventory

\* The survey only adds to the inventory; the walk has not begun.
LEMMA SelfSurvey ==
    ASSUME TypeOK, ProvenanceInv, VerdictInv, SelfInv, ~\E why : Stop(why),
           \/ Inspect \/ TreeEntry \/ TreeList \/ TreeDone
           \/ OpenParent
    PROVE  SelfInv'
<1>1. /\ pc \in {"inspect", "tree", "list", "parent"}
      /\ pc' \in {"tree", "list", "root"} \/ (pc' = "check" /\ ret' = "recheck")
      /\ UNCHANGED <<stack, childDir, removed>>
  BY DEF Inspect, TreeEntry, TreeList, TreeDone, OpenParent, resultVars, walkVars
<1>2. pc \in {"inspect", "tree", "list"} => stack = <<>>
  BY DEF ProvenanceInv, Surveying
<1>3. pc = "parent" => UNCHANGED <<expected, inventory>>
  BY <1>1 DEF Inspect, TreeEntry, TreeList, TreeDone, OpenParent, evidenceVars
<1>4. childDir = NoInode
  BY <1>1 DEF VerdictInv, Surveying
<1>5. (\A k \in 1..Len(stack) : stack[k].id = expected \/ stack[k].dir \in Inventory)'
  <2>1. CASE stack = <<>>
    <3>1. 1 .. Len(stack') = {}
      BY <1>1, <2>1
    <3> QED
      BY <3>1
  <2>2. CASE stack # <<>>
    BY <1>1, <1>2, <1>3, <2>2 DEF SelfInv, Inventory
  <2> QED
    BY <2>1, <2>2
<1>6. OnlyTheCandidate'
  <2>1. removed = {} \/ UNCHANGED expected
    BY <1>1, <1>3 DEF ProvenanceInv, Surveying
  <2> QED
    BY <1>1, <2>1 DEF SelfInv, OnlyTheCandidate
<1> QED
  BY <1>1, <1>4, <1>5, <1>6 DEF SelfInv, AfterCheck, AtDir, Checking

\* A check that reads the agent itself meets every directory it works in.
LEMMA SelfCheck ==
    ASSUME TypeOK, HolderInv, SelfInv, ~\E why : Stop(why),
           \/ CheckBegin \/ ReadProcess \/ ScanSelf
           \/ CheckEnd
    PROVE  SelfInv'
<1>0. ret \in Checkers /\ Self \notin Procs
  BY DeleteTreeAssumption DEF TypeOK
<1>1. /\ pc \in {"check"} \cup Scanning
      /\ UNCHANGED <<evidenceVars, ret, walkVars, removed>>
      /\ pc' \in Scanning \/ (CheckEnd /\ pc' = IF ret = "recheck" THEN "parent" ELSE ret)
  BY ReadStep DEF CheckBegin, ScanSelf, CheckEnd, checkVars, resultVars
<1>2. UNCHANGED <<expected, inventory, stack, cur, childDir, ret, removed>>
  BY <1>1 DEF evidenceVars, walkVars
<1>3. UNCHANGED <<OpenDirs, Inventory, OnlyTheCandidate>>
  BY <1>2 DEF OpenDirs, Inventory, OnlyTheCandidate
<1>4. AtDir' => AtDir
  BY <1>0, <1>1 DEF AtDir, Checking, Checkers
<1>5. (SelfVisible /\ pc \in Scanning /\ ret # "recheck" =>
          Self \in todo \/ hit \/ (~SelfNamed /\ OpenDirs \cap watch = {}))'
  <2> SUFFICES ASSUME SelfVisible, pc' \in Scanning, ret # "recheck"
               PROVE  Self \in todo' \/ hit' \/ (~SelfNamed /\ OpenDirs \cap watch' = {})
    BY <1>2, <1>3
  <2>1. CASE CheckBegin
    BY <2>1 DEF CheckBegin
  <2>2. CASE ScanSelf
    <3>1. hit' = (hit \/ SelfNamed \/ (ret # "recheck" /\ OpenDirs \cap watch # {})) /\ watch' = watch
      BY <2>2 DEF ScanSelf
    <3>2. SelfNamed => hit'
      BY <3>1, Zenon
    <3>3. OpenDirs \cap watch # {} => hit'
      BY <3>1, Zenon
    <3> QED
      BY <3>1, <3>2, <3>3
  <2>3. CASE ReadProcess
    <3>1. watch' = watch /\ (Self \in todo => Self \in todo') /\ pc \in Scanning
      BY <1>0, <2>3, ReadStep
    <3>2. hit => hit'
      BY <2>3, Zenon DEF ReadProcess, ReadCmdline, ReadCwd, ReadMaps, ListFds, StatFd
    <3> QED
      BY <3>1, <3>2 DEF SelfInv
  <2>4. CASE CheckEnd
    BY <1>0, <2>4 DEF CheckEnd, Checkers
  <2> QED
    BY <2>1, <2>2, <2>3, <2>4
<1>6. (SelfVisible /\ pc \in AfterCheck => ~SelfNamed /\ OpenDirs \cap Inventory = {})'
  <2> SUFFICES ASSUME SelfVisible, pc' \in AfterCheck
               PROVE  ~SelfNamed /\ OpenDirs \cap Inventory = {}
    BY <1>3
  <2>1. CheckEnd /\ ret # "recheck"
    BY <1>1 DEF AfterCheck
  <2>2. pc = "scan" /\ todo = {} /\ ~hit
    BY <2>1 DEF CheckEnd
  <2>3. Inventory \subseteq watch
    BY <2>2 DEF HolderInv, Inventory
  <2> QED
    BY <2>1, <2>2, <2>3 DEF SelfInv
<1> QED
  BY <1>2, <1>3, <1>4, <1>5, <1>6 DEF SelfInv

\* The walker opens what the inventory names, and works below what it opened.
LEMMA SelfWalk ==
    ASSUME TypeOK, ProvenanceInv, RootInv, SelfInv, ~\E why : Stop(why),
           \/ StatRoot \/ Pop \/ StatDir \/ OpenDir \/ ListDir \/ StatChild \/ ScanDir
           \/ StatFile \/ FilesDone \/ RestatFile \/ StatPost \/ RestatPost
    PROVE  SelfInv'
<1>1. /\ UNCHANGED <<evidenceVars, removed>>
      /\ pc \notin {"inspect", "tree", "list", "check", "parent", "done"} \cup Scanning
      /\ pc' \notin {"inspect", "tree", "list", "parent", "root", "done"} \cup Scanning
      /\ pc' \in AfterCheck => RestatFile \/ RestatPost
  BY ListStep DEF StatRoot, Pop, StatDir, OpenDir, ScanDir, StatFile, FilesDone, RestatFile,
                  StatPost, RestatPost, AfterCheck, resultVars
<1>2. UNCHANGED <<expected, Inventory, OnlyTheCandidate>>
  BY <1>1 DEF evidenceVars, Inventory, OnlyTheCandidate
<1>3. (SelfVisible /\ pc \in AfterCheck => ~SelfNamed /\ OpenDirs \cap Inventory = {})'
  <2>1. RestatFile \/ RestatPost => pc \in AfterCheck /\ UNCHANGED OpenDirs
    BY DEF RestatFile, RestatPost, AfterCheck, OpenDirs
  <2> QED
    BY <1>1, <1>2, <2>1 DEF SelfInv
<1>4. SUFFICES /\ \A k \in 1..Len(stack') : stack'[k].id = expected \/ stack'[k].dir \in Inventory
               /\ AtDir' => cur'.id = expected \/ cur'.dir \in Inventory
               /\ childDir' # NoInode => childDir' \in Inventory
  BY <1>1, <1>2, <1>3 DEF SelfInv
<1>5. stack \in Seq(Frame) /\ cur \in Frame
  BY DEF TypeOK
<1>6. CASE StatRoot
  <2>1. childDir' = childDir /\ ~AtDir'
    BY <1>6 DEF StatRoot, AtDir, Checking
  <2>2. \/ stack' = stack
        \/ stack' = <<[dir |-> Top, name |-> Cand, id |-> expected, post |-> FALSE]>>
    BY <1>6 DEF StatRoot
  <2>3. \A k \in 1..Len(stack') : stack'[k].id = expected \/ stack'[k].dir \in Inventory
    BY <2>2 DEF SelfInv
  <2> QED
    BY <2>1, <2>3 DEF SelfInv
<1>7. CASE Pop
  <2>1. /\ stack # <<>> /\ cur' = stack[Len(stack)] /\ stack' = SubSeq(stack, 1, Len(stack) - 1)
        /\ childDir' = childDir
    BY <1>7 DEF Pop
  <2>2. Len(stack') = Len(stack) - 1 /\ \A k \in 1 .. Len(stack') : stack'[k] = stack[k]
    BY <1>5, <2>1, ShorterStack
  <2>3. Len(stack) \in Nat /\ Len(stack) > 0
    BY <1>5, <2>1
  <2> QED
    BY <2>1, <2>2, <2>3 DEF SelfInv
<1>8. CASE StatDir \/ StatPost \/ RestatPost
  <2>1. UNCHANGED <<stack, cur, childDir>>
    BY <1>8 DEF StatDir, StatPost, RestatPost, walkVars
  <2>2. AtDir
    BY <1>8 DEF StatDir, StatPost, RestatPost, AtDir
  <2> QED
    BY <1>2, <2>1, <2>2 DEF SelfInv
<1>9. CASE OpenDir
  <2>1. /\ UNCHANGED <<stack, cur>> /\ pc = "openDir"
        /\ childDir' = tree[cur.dir][cur.name] /\ IsDir(childDir')
        /\ SameIdentity(cur.id, StatOf(childDir'))
    BY <1>9 DEF OpenDir
  <2>2. childDir' \in Inodes /\ cur.id.ino = childDir'
    BY <2>1 DEF IsDir, SameIdentity, StatOf
  <2>3. Inventoried(childDir')
    BY <2>2, HostAssumption DEF ProvenanceInv, Known, NoStat
  <2>4. expected.ino \in Inventory /\ AtDir
    BY <2>1 DEF RootInv, Walking, AtDir
  <2>5. childDir' \in Inventory
    BY <2>3, <2>4 DEF Inventoried, Inventory
  <2> QED
    BY <2>1, <2>4, <2>5 DEF SelfInv
<1>10. CASE ScanDir
  <2>1. pc = "scanDir" /\ pc' = "files" /\ childDir' = childDir
    BY <1>10, ScanDirStep
  <2>2. childDir \in Inventory
    BY <2>1, HostAssumption DEF TypeOK, SelfInv
  <2>3. cur.id = expected \/ cur.dir \in Inventory
    BY <2>1 DEF SelfInv, AtDir
  <2>4. ASSUME NEW k \in 1..Len(stack')
        PROVE  stack'[k].id = expected \/ stack'[k].dir \in Inventory
    <3>1. Len(stack) \in Nat /\ Len(stack') \in Nat
      BY <1>10, LongerStack
    <3>2. CASE k \in 1..Len(stack)
      BY <1>10, <3>2, LongerStack DEF SelfInv
    <3>3. CASE k = Len(stack) + 1
      BY <1>10, <2>3, <3>3, LongerStack
    <3>4. CASE k > Len(stack) + 1
      BY <1>10, <2>2, <3>4, LongerStack
    <3> QED
      BY <3>1, <3>2, <3>3, <3>4
  <2> QED
    BY <2>1, <2>2, <2>4 DEF AtDir, Checking
<1>11. CASE StatFile \/ FilesDone \/ RestatFile
  <2>1. UNCHANGED stack /\ (childDir' = childDir \/ childDir' = NoInode)
    BY <1>11 DEF StatFile, FilesDone, RestatFile
  <2>2. ~AtDir'
    BY <1>11 DEF StatFile, FilesDone, RestatFile, AtDir, Checking
  <2> QED
    BY <2>1, <2>2 DEF SelfInv
<1>12. CASE ListDir \/ StatChild
  <2>1. UNCHANGED <<stack, cur, childDir>> /\ AtDir
    BY <1>12, ListStep DEF AtDir
  <2> QED
    BY <1>2, <2>1 DEF SelfInv
<1> QED
  BY <1>6, <1>7, <1>8, <1>9, <1>10, <1>11, <1>12

\* A removal in a directory of the inventory would have been met by the check
\* before it.
LEMMA SelfRemove ==
    ASSUME TypeOK, VerdictInv, SelfInv, ~\E why : Stop(why), UnlinkFile \/ RemoveDir
    PROVE  SelfInv'
<1>1. /\ UNCHANGED <<expected, inventory, stack, cur, childDir, ret>>
      /\ pc \in AfterCheck /\ pc' \in {"files", "pop", "done"}
  BY DEF UnlinkFile, RemoveDir, Discard, evidenceVars, walkVars, checkVars, AfterCheck
<1>2. UNCHANGED <<Inventory, OpenDirs>>
  BY <1>1 DEF Inventory, OpenDirs
<1>3. SelfVisible => ~SelfNamed /\ OpenDirs \cap Inventory = {}
  BY <1>1 DEF SelfInv
<1>4. PICK r : removed' = removed \cup {r} /\ (SelfVisible => r.recorded = expected)
  <2>1. CASE UnlinkFile
    <3> DEFINE new == [actual |-> StatOf(tree[target.dir][target.name]), seen |-> seen,
                       recorded |-> target.st]
    <3>1. removed' = removed \cup {new} /\ new.recorded = target.st
      BY <2>1 DEF UnlinkFile, Discard
    <3> HIDE DEF new
    <3>2. SelfVisible => childDir = NoInode
      <4>1. childDir # NoInode => childDir \in OpenDirs
        BY DEF OpenDirs
      <4> QED
        BY <1>3, <4>1 DEF SelfInv
    <3>3. childDir = NoInode => target.st = expected
      BY <2>1 DEF UnlinkFile, VerdictInv, AtFile
    <3> QED
      BY <3>1, <3>2, <3>3
  <2>2. CASE RemoveDir
    <3> DEFINE new == [actual |-> StatOf(tree[cur.dir][cur.name]), seen |-> seen,
                       recorded |-> cur.id]
    <3>1. removed' = removed \cup {new} /\ new.recorded = cur.id
      BY <2>2 DEF RemoveDir, Discard
    <3> HIDE DEF new
    <3>2. cur.id = expected \/ cur.dir \in Inventory
      BY <2>2 DEF RemoveDir, SelfInv, AtDir
    <3>3. cur.dir \in OpenDirs
      BY DEF OpenDirs
    <3> QED
      BY <1>3, <3>1, <3>2, <3>3
  <2> QED
    BY <2>1, <2>2
<1>5. OnlyTheCandidate'
  BY <1>1, <1>3, <1>4 DEF SelfInv, OnlyTheCandidate
<1> QED
  BY <1>1, <1>2, <1>5 DEF SelfInv, AfterCheck, AtDir, Checking

LEMMA SelfNext ==
    /\ TypeOK /\ ProvenanceInv /\ HolderInv /\ VerdictInv /\ RootInv /\ SelfInv /\ [Next]_vars
    => SelfInv'
<1> SUFFICES ASSUME TypeOK, ProvenanceInv, HolderInv, VerdictInv, RootInv, SelfInv, [Next]_vars
             PROVE  SelfInv'
  OBVIOUS
<1>1. CASE Agent /\ \E why : Stop(why)
  BY <1>1, SelfStopped
<1>2. CASE Agent /\ ~\E why : Stop(why)
  BY <1>2, SelfSurvey, SelfCheck, SelfWalk, SelfRemove DEF Agent
<1>3. CASE Environment \/ UNCHANGED vars
  <2>1. UNCHANGED <<pc, evidenceVars, checkVars, walkVars, removed>>
    BY <1>3 DEF Environment, OtherPrograms, DeadlinePasses, vars, resultVars
  <2> QED
    BY <2>1 DEF SelfInv, OnlyTheCandidate, AtDir, Checking, AfterCheck, OpenDirs, Inventory,
       evidenceVars, checkVars, walkVars
<1> QED
  BY <1>1, <1>2, <1>3 DEF Next

\* With the real process table the walker removes nothing but a file candidate
\* or the candidate directory itself, whatever other programs do.
THEOREM OnlyTheCandidateHolds == Spec => []OnlyTheCandidate
<1>1. SelfInv => OnlyTheCandidate
  BY DEF SelfInv
<1> QED
  BY <1>1, SelfInit, SelfNext, RootInit, RootNext, VerdictInit, VerdictNext, HolderInit, HolderNext,
     TypeCorrect, ProvenanceCorrect, PTL DEF Spec

-----------------------------------------------------------------------------
(* Refinement.                                                             *)

Approved == {i \in Inodes : Inventoried(i)}
Gone     == {r.seen.ino : r \in removed}
contractVars == <<Phase, Approved, pc \in AfterCheck, expired, Gone>>

LEMMA ContractInit == Init => Contract!CInit
<1> SUFFICES ASSUME Init PROVE Contract!CInit
  OBVIOUS
<1>1. Phase = "deciding" /\ pc \notin AfterCheck
  BY DEF Init, Phase, Surveying, AfterCheck
<1>2. Approved = {}
  BY HostAssumption DEF Init, Approved, Inventoried, NoStat
<1>3. Gone = {} /\ expired = FALSE
  BY DEF Init, Gone
<1> QED
  BY <1>1, <1>2, <1>3 DEF Contract!CInit, Approved, Gone

\* A step that the client cannot see.
LEMMA ContractQuiet ==
    ASSUME TypeOK, ProvenanceInv, [Next]_vars, ~\E why : Stop(why),
           \/ CheckBegin \/ ReadProcess \/ ScanSelf
           \/ OpenParent \/ StatRoot \/ Pop \/ StatDir \/ OpenDir \/ ListDir \/ StatChild
           \/ ScanDir \/ StatFile \/ FilesDone \/ RestatFile \/ StatPost \/ RestatPost
    PROVE  UNCHANGED contractVars
<1>1. UNCHANGED <<removed, expired, expected, inventory>>
  BY ReadStep, ListStep DEF CheckBegin, ScanSelf, OpenParent, StatRoot, Pop, StatDir,
         OpenDir, ScanDir, StatFile, FilesDone, RestatFile, StatPost, RestatPost, resultVars,
         evidenceVars
<1>2. Approved' = Approved /\ Gone' = Gone
  BY <1>1 DEF Approved, Gone, Inventoried
<1>3. CASE CheckBegin \/ ReadProcess \/ ScanSelf
  <2>1. pc \in {"check"} \cup Scanning /\ pc' \in Scanning /\ ret' = ret
    BY <1>3, ReadStep DEF CheckBegin, ScanSelf
  <2> QED
    BY <1>1, <1>2, <2>1 DEF contractVars, Phase, Surveying, AfterCheck
<1>4. CASE StatRoot \/ StatFile \/ StatPost
  <2>1. pc \in {"root", "files", "prePost"} /\ (pc' = "pop" \/ (pc' = "check" /\ ret' # "recheck"))
    BY <1>4 DEF StatRoot, StatFile, StatPost
  <2> QED
    BY <1>1, <1>2, <2>1 DEF contractVars, Phase, Surveying, AfterCheck
<1>5. CASE OpenParent \/ Pop \/ StatDir \/ OpenDir \/ ListDir \/ StatChild \/ ScanDir
           \/ FilesDone
  <2>1. /\ pc \in {"parent", "pop", "pre", "openDir", "listDir", "scanDir", "files"}
        /\ pc' \in {"root", "pre", "prePost", "openDir", "listDir", "scanDir", "files", "pop"}
    BY <1>5, ListStep DEF OpenParent, Pop, StatDir, OpenDir, ScanDir, FilesDone
  <2> QED
    BY <1>1, <1>2, <2>1 DEF contractVars, Phase, Surveying, AfterCheck
<1>6. CASE RestatFile \/ RestatPost
  <2>1. pc \in {"file", "post"} /\ pc' \in {"unlink", "rmdir"}
    BY <1>6 DEF RestatFile, RestatPost
  <2> QED
    BY <1>1, <1>2, <2>1 DEF contractVars, Phase, Surveying, AfterCheck
<1> QED
  BY <1>3, <1>4, <1>5, <1>6

LEMMA ContractStop ==
    ASSUME TypeOK, Agent, NEW why, Stop(why)
    PROVE  Contract!End
<1>1. pc # "done"
  BY LookingStep, RemovalStep
<1>2. pc' = "done" /\ UNCHANGED <<removed, expired, expected, inventory>>
  BY DEF Stop, resultVars, evidenceVars
<1>3. Phase # "ended" /\ Phase' = "ended" /\ (pc \in AfterCheck)' = FALSE
  BY <1>1, <1>2 DEF Phase, Surveying, AfterCheck
<1>4. Approved' = Approved /\ Gone' = Gone
  BY <1>2 DEF Approved, Gone, Inventoried
<1> QED
  BY <1>2, <1>3, <1>4 DEF Contract!End, Approved, Gone

LEMMA ContractSurvey ==
    ASSUME TypeOK, ProvenanceInv, [Next]_vars, ~\E why : Stop(why),
           Inspect \/ TreeEntry \/ TreeList \/ TreeDone
    PROVE  Contract!Survey
<1>1. /\ Surveying /\ (Surveying' \/ (pc' = "check" /\ ret' = "recheck"))
      /\ UNCHANGED <<removed, expired>>
  BY DEF Inspect, TreeEntry, TreeList, TreeDone, Surveying, resultVars
<1>2. Phase = "deciding" /\ Phase' = "deciding" /\ UNCHANGED (pc \in AfterCheck)
  BY <1>1 DEF Phase, Surveying, AfterCheck
<1>3. Approved \subseteq Approved' /\ Approved' \subseteq Inodes
  BY RecordedStays DEF Approved
<1>4. Gone' = Gone
  BY <1>1 DEF Gone
<1> QED
  BY <1>1, <1>2, <1>3, <1>4 DEF Contract!Survey, Approved, Gone

\* A check of the recheck approves, a check of the walker grants one removal.
LEMMA ContractGrant ==
    ASSUME TypeOK, CheckEnd, ~\E why : Stop(why)
    PROVE  Contract!Approve \/ Contract!Grant
<1>1. pc = "scan" /\ ~OutOfTime /\ UNCHANGED <<removed, expired, expected, inventory>>
      /\ pc' = (IF ret = "recheck" THEN "parent" ELSE ret)
  BY DEF CheckEnd, resultVars, evidenceVars
<1>2. Approved' = Approved /\ Gone' = Gone
  BY <1>1 DEF Approved, Gone, Inventoried
<1>3. CASE ret = "recheck"
  <2>1. Phase = "deciding" /\ Phase' = "removing" /\ UNCHANGED (pc \in AfterCheck)
    BY <1>1, <1>3 DEF Phase, Surveying, AfterCheck
  <2> QED
    BY <1>1, <1>2, <2>1 DEF Contract!Approve, Approved, Gone
<1>4. CASE ret # "recheck"
  <2>1. ret \in {"file", "post"} /\ pc' = ret /\ ~expired
    BY <1>1, <1>4 DEF OutOfTime, TypeOK, Checkers
  <2>2. Phase = "removing" /\ Phase' = "removing" /\ pc \notin AfterCheck /\ (pc \in AfterCheck)' = TRUE
    BY <1>1, <1>4, <2>1 DEF Phase, Surveying, AfterCheck
  <2> QED
    BY <1>1, <1>2, <2>1, <2>2 DEF Contract!Grant, Approved, Gone
<1> QED
  BY <1>3, <1>4

LEMMA ContractTake ==
    ASSUME TypeOK, ProvenanceInv, UnlinkFile \/ RemoveDir, ~\E why : Stop(why)
    PROVE  \E i \in Inodes : Contract!Take(i)
<1>1. /\ pc \in {"unlink", "rmdir"} /\ pc' \in {"done", "files", "pop"}
      /\ UNCHANGED <<expired, expected, inventory>>
      /\ \E r : removed' = removed \cup {r} /\ r.seen = seen
  <2>1. PICK d \in Inodes, n \in Names, recorded \in Stats : Discard(d, n, recorded)
    BY RemovalStep
  <2>2. UNCHANGED <<expired, expected, inventory>>
    BY <2>1 DEF Discard, evidenceVars
  <2> DEFINE r == [actual |-> StatOf(tree[d][n]), seen |-> seen, recorded |-> recorded]
  <2>3. removed' = removed \cup {r} /\ r.seen = seen
    BY <2>1 DEF Discard
  <2> HIDE DEF r
  <2> QED
    BY <2>2, <2>3, RemovalStep
<1>2. seen.ino \in Inodes /\ seen.ino \in Approved
  BY <1>1 DEF ProvenanceInv, Approved
<1>3. Phase = "removing" /\ Phase' \in {"removing", "ended"}
      /\ pc \in AfterCheck /\ (pc \in AfterCheck)' = FALSE
  BY <1>1 DEF Phase, Surveying, AfterCheck
<1>4. Approved' = Approved /\ Gone' = Gone \cup {seen.ino}
  BY <1>1 DEF Approved, Gone, Inventoried
<1> QED
  BY <1>1, <1>2, <1>3, <1>4 DEF Contract!Take, Approved, Gone

LEMMA ContractEnvironment ==
    ASSUME Environment
    PROVE  Contract!Expire \/ UNCHANGED contractVars
<1>1. UNCHANGED <<pc, ret, removed, expected, inventory>>
  BY DEF Environment, OtherPrograms, DeadlinePasses, evidenceVars, checkVars, resultVars
<1>2. UNCHANGED <<Phase, Approved, pc \in AfterCheck, Gone>>
  BY <1>1 DEF Phase, Surveying, Approved, Gone, Inventoried, AfterCheck
<1>3. CASE OtherPrograms
  BY <1>2, <1>3 DEF OtherPrograms, contractVars
<1>4. CASE DeadlinePasses
  BY <1>2, <1>4 DEF DeadlinePasses, Contract!Expire, Approved, Gone
<1> QED
  BY <1>3, <1>4 DEF Environment

LEMMA ContractNext ==
    TypeOK /\ ProvenanceInv /\ [Next]_vars => [Contract!CNext]_(Contract!cvars)
<1> SUFFICES ASSUME TypeOK, ProvenanceInv, [Next]_vars
             PROVE  Contract!CNext \/ UNCHANGED contractVars
  BY DEF Contract!cvars, contractVars, Approved, Gone
<1>1. CASE Agent /\ \E why : Stop(why)
  BY <1>1, ContractStop DEF Contract!CNext
<1>2. CASE Agent /\ ~\E why : Stop(why)
  BY <1>2, ContractQuiet, ContractSurvey, ContractGrant, ContractTake DEF Agent, Contract!CNext
<1>3. CASE Environment
  BY <1>3, ContractEnvironment DEF Contract!CNext
<1>4. CASE UNCHANGED vars
  BY <1>4 DEF vars, evidenceVars, checkVars, resultVars, contractVars, Phase, Surveying, Approved,
     Gone, Inventoried, AfterCheck
<1> QED
  BY <1>1, <1>2, <1>3, <1>4 DEF Next

\* Every behaviour of the deletion is one that Clearance allows: it removes
\* only what it recorded, one entry per clearance, no clearance is granted
\* after the deadline, and nothing is removed after it has ended.
THEOREM ImplementsClearance == Spec => KeepsContract
<1>1. Init => Contract!CInit
  BY ContractInit
<1>2. TypeOK /\ ProvenanceInv /\ [Next]_vars => [Contract!CNext]_(Contract!cvars)
  BY ContractNext
<1> QED
  BY <1>1, <1>2, TypeCorrect, ProvenanceCorrect, PTL DEF Spec, KeepsContract, Contract!CSpec


-----------------------------------------------------------------------------
(* Looking up a path.                                                      *)

\* One component of a path, seen from x, in the tree t with the attributes a.
Origin(a, x)     == IF x \in Inodes /\ a[x].kind = "link" THEN LinkDir ELSE x
Onward(t, a, x, n) == IF Origin(a, x) \in Inodes THEN t[Origin(a, x)][n] ELSE NoInode

\* What the fold of Resolve computes for a set of components of a path: it
\* takes the last of them off.
Descent(g, t, a, path, S) ==
    g = [s \in SUBSET S |-> IF s = {} THEN Top ELSE Onward(t, a, g[s \ {Max(s)}], path[Max(s)])]
Way(t, a, path) == (CHOOSE g : Descent(g, t, a, path, DOMAIN path))[DOMAIN path]

LEMMA ResolveIsWay ==
    ASSUME NEW path
    PROVE  Resolve(path) = Way(tree, node, path) /\ Resolve(path)' = Way(tree', node', path)
<1>1. Resolve(path) = Way(tree, node, path)
  BY DEF Resolve, FoldLeft, MapThenFoldSet, Way, Descent, Onward, Origin, Lookup, Follow
<1>2. Resolve(path)' = Way(tree', node', path)
  BY DEF Resolve, FoldLeft, MapThenFoldSet, Way, Descent, Onward, Origin, Lookup, Follow
<1> QED
  BY <1>1, <1>2

\* A set of positions has a last one.
LEMMA LastPosition ==
    ASSUME NEW L \in Nat, NEW s \in SUBSET (1..L), s # {}
    PROVE  Max(s) \in s /\ \A x \in s : x <= Max(s)
<1> DEFINE mirror == {L + 1 - x : x \in s}
<1>1. mirror \subseteq 1..L /\ mirror # {}
  <2>1. \A x \in s : x \in 1..L /\ L + 1 - x \in 1..L
    OBVIOUS
  <2>2. PICK x \in s : TRUE
    OBVIOUS
  <2>3. L + 1 - x \in mirror
    BY <2>2
  <2> QED
    BY <2>1, <2>3
<1>2. PICK k \in mirror : \A j \in mirror : k <= j
  <2> HIDE DEF mirror
  <2> QED
    BY <1>1, FirstPosition
<1>3. PICK y \in s : k = L + 1 - y
  BY <1>2
<1>4. \A x \in s : x <= y
  <2> SUFFICES ASSUME NEW x \in s PROVE x <= y
    OBVIOUS
  <2>1. k <= L + 1 - x
    BY <1>2
  <2> QED
    BY <1>3, <2>1
<1> QED
  BY <1>4 DEF Max

\* Two functions that differ at a set differ first at a part of it.
LEMMA FirstDifference ==
    ASSUME NEW T, IsFiniteSet(T), NEW g, NEW h, g[T] # h[T]
    PROVE  \E U \in SUBSET T : g[U] # h[U] /\ \A V \in SUBSET U : V # U => g[V] = h[V]
<1>1. PICK Q : Q = {U \in SUBSET T : g[U] # h[U]}
  OBVIOUS
<1>2. Q \subseteq SUBSET T /\ Q # {}
  BY <1>1
<1>3. PICK U \in Q : \A V \in Q : V \subseteq U => V = U
  BY <1>2, MinimalSubset
<1> QED
  BY <1>1, <1>3

\* Components of a path, and paths with the same ones.
Positions(S)     == IsFiniteSet(S) /\ \A U \in SUBSET S : U # {} => Max(U) \in U
SameOn(S, p, q) == \A k \in S : p[k] = q[k]

LEMMA PositionsTo ==
    ASSUME NEW L \in Nat, NEW S \in SUBSET (1..L)
    PROVE  Positions(S)
<1>1. IsFiniteSet(1..L)
  BY FS_Interval
<1>2. IsFiniteSet(S)
  BY <1>1, FS_Subset
<1>3. ASSUME NEW U \in SUBSET S, U # {} PROVE Max(U) \in U
  <2>1. U \in SUBSET (1..L)
    OBVIOUS
  <2> QED
    BY <1>3, <2>1, LastPosition
<1> QED
  BY <1>2, <1>3 DEF Positions

\* Solutions for two sets of components agree where both are defined.
LEMMA DescentsAgree ==
    ASSUME NEW S, NEW T, NEW t, NEW a, NEW p, NEW q, NEW g, NEW h, Descent(g, t, a, p, S),
           Descent(h, t, a, q, T), Positions(S), T \subseteq S, SameOn(T, p, q)
    PROVE  g[T] = h[T]
<1> SUFFICES ASSUME g[T] # h[T] PROVE FALSE
  OBVIOUS
<1>1. IsFiniteSet(T)
  BY FS_Subset DEF Positions
<1>2. PICK U \in SUBSET T : g[U] # h[U] /\ \A V \in SUBSET U : V # U => g[V] = h[V]
  BY <1>1, FirstDifference
<1>3. U \in SUBSET T /\ U \in SUBSET S
  OBVIOUS
<1>4. U # {}
  BY <1>2, <1>3 DEF Descent
<1>5. Max(U) \in U
  BY <1>3, <1>4 DEF Positions
<1>6. g[U \ {Max(U)}] = h[U \ {Max(U)}]
  BY <1>2, <1>5
<1>7. g[U] = Onward(t, a, g[U \ {Max(U)}], p[Max(U)])
  BY <1>3, <1>4 DEF Descent
<1>8. h[U] = Onward(t, a, h[U \ {Max(U)}], q[Max(U)])
  BY <1>3, <1>4 DEF Descent
<1>9. p[Max(U)] = q[Max(U)]
  BY <1>3, <1>5 DEF SameOn
<1> QED
  BY <1>2, <1>6, <1>7, <1>8, <1>9

\* There is a solution: the first set of components without one would get it
\* from those for its parts.
LEMMA DescentExists ==
    ASSUME NEW L \in Nat, NEW t, NEW a, NEW p
    PROVE  \E g : Descent(g, t, a, p, 1..L)
<1> DEFINE All == 1..L
           Bad == {U \in SUBSET All : ~ \E g : Descent(g, t, a, p, U)}
<1> SUFFICES ASSUME Bad # {} PROVE FALSE
  OBVIOUS
<1>1. PICK U \in Bad : \A V \in Bad : V \subseteq U => V = U
  <2>1. IsFiniteSet(All)
    BY FS_Interval
  <2>2. Bad \subseteq SUBSET All
    OBVIOUS
  <2> HIDE DEF Bad, All
  <2> QED
    BY <2>1, <2>2, MinimalSubset
<1> DEFINE H(V) == CHOOSE g : Descent(g, t, a, p, V)
           h == [s \in SUBSET U |->
                   IF s = {} THEN Top
                   ELSE Onward(t, a, H(s \ {Max(s)})[s \ {Max(s)}], p[Max(s)])]
<1>2. U \in SUBSET (1..L)
  BY <1>1
<1>3. \A V \in SUBSET U : V # U => Descent(H(V), t, a, p, V)
  BY <1>1
<1>4. \A s \in SUBSET U : s # U => h[s] = H(s)[s]
  <2> SUFFICES ASSUME NEW s \in SUBSET U, s # U PROVE h[s] = H(s)[s]
    OBVIOUS
  <2>1. Descent(H(s), t, a, p, s)
    BY <1>3
  <2>2. CASE s = {}
    <3>1. h[s] = Top
      BY <2>2
    <3> HIDE DEF H, h
    <3> QED
      BY <2>1, <2>2, <3>1 DEF Descent
  <2>3. CASE s # {}
    <3> DEFINE v == s \ {Max(s)}
    <3>1. Max(s) \in s
      BY <1>2, <2>3, LastPosition
    <3>2. Descent(H(v), t, a, p, v) /\ v \subseteq s
      BY <1>2, <1>3, <3>1
    <3>3. H(s)[v] = H(v)[v]
      <4>1. Positions(s)
        BY <1>2, PositionsTo
      <4>2. SameOn(v, p, p)
        BY DEF SameOn
      <4> DEFINE x == H(s)
                 y == H(v)
      <4> HIDE DEF H, h, v, x, y, Bad, All
      <4>3. Descent(x, t, a, p, s) /\ Descent(y, t, a, p, v) /\ v \subseteq s
        BY <2>1, <3>2 DEF x, y
      <4>4. x[v] = y[v]
        BY <4>1, <4>2, <4>3, DescentsAgree
      <4> QED
        BY <4>4 DEF x, y
    <3>4. H(s)[s] = Onward(t, a, H(s)[v], p[Max(s)])
      <4> HIDE DEF H
      <4> QED
        BY <2>1, <2>3 DEF Descent
    <3>5. h[s] = Onward(t, a, H(v)[v], p[Max(s)])
      BY <2>3
    <3> QED
      BY <3>3, <3>4, <3>5
  <2> QED
    BY <2>2, <2>3
<1>5. Descent(h, t, a, p, U)
  <2>1. \A s \in SUBSET U : s # {} => h[s] = Onward(t, a, h[s \ {Max(s)}], p[Max(s)])
    <3> SUFFICES ASSUME NEW s \in SUBSET U, s # {}
                 PROVE  h[s] = Onward(t, a, h[s \ {Max(s)}], p[Max(s)])
      OBVIOUS
    <3>1. Max(s) \in s
      BY <1>2, LastPosition
    <3>2. h[s \ {Max(s)}] = H(s \ {Max(s)})[s \ {Max(s)}]
      BY <1>4, <3>1
    <3> QED
      BY <3>2
  <2>2. h[{}] = Top
    OBVIOUS
  <2>3. h = [s \in SUBSET U |-> h[s]]
    OBVIOUS
  <2> HIDE DEF h
  <2>4. \A s \in SUBSET U : h[s] = IF s = {} THEN Top
                                   ELSE Onward(t, a, h[s \ {Max(s)}], p[Max(s)])
    BY <2>1, <2>2
  <2> QED
    BY <2>3, <2>4 DEF Descent
<1> QED
  BY <1>1, <1>5

\* What a solution is for the whole set.
LEMMA DescentStep ==
    ASSUME NEW g, NEW t, NEW a, NEW p, NEW S, Descent(g, t, a, p, S), S # {}
    PROVE  g[S] = Onward(t, a, g[S \ {Max(S)}], p[Max(S)])
<1>1. S \in SUBSET S
  OBVIOUS
<1> QED
  BY <1>1 DEF Descent

\* A longer path is looked up from where the shorter one leads.
LEMMA ResolveAppend ==
    ASSUME NEW path \in Seq(Names), NEW n \in Names
    PROVE  Resolve(Append(path, n)) = Lookup(Follow(Resolve(path)), n)
<1>1. PICK L \in Nat : L = Len(path)
  BY LenProperties
<1>2. PICK M \in Nat : M = L + 1
  BY <1>1
<1>3. PICK q : q = Append(path, n)
  OBVIOUS
<1>4. DOMAIN path = 1..L /\ DOMAIN q = 1..M /\ q[M] = n /\ \A k \in 1..L : q[k] = path[k]
  BY <1>1, <1>2, <1>3, AppendProperties, LenProperties
<1>5. PICK T : T = 1..L
  OBVIOUS
<1>6. PICK S : S = 1..M
  OBVIOUS
<1>7. PICK h : h = CHOOSE f : Descent(f, tree, node, path, T)
  OBVIOUS
<1>8. PICK g : g = CHOOSE f : Descent(f, tree, node, q, S)
  OBVIOUS
<1>9. Descent(h, tree, node, path, T)
  <2>1. \E f : Descent(f, tree, node, path, T)
    BY <1>5, DescentExists
  <2> QED
    BY <1>7, <2>1
<1>10. Descent(g, tree, node, q, S)
  <2>1. \E f : Descent(f, tree, node, q, S)
    BY <1>6, DescentExists
  <2> QED
    BY <1>8, <2>1
<1>11. Resolve(q) = g[S]
  BY <1>4, <1>6, <1>8, ResolveIsWay DEF Way
<1>12. Resolve(path) = h[T]
  BY <1>4, <1>5, <1>7, ResolveIsWay DEF Way
<1>13. M \in S /\ S \ {M} = T
  BY <1>1, <1>2, <1>5, <1>6
<1>14. T \in SUBSET S /\ S # {} /\ S \in SUBSET (1..M)
  BY <1>6, <1>13
<1>15. Max(S) = M
  <2>1. Max(S) \in S /\ \A x \in S : x <= Max(S)
    BY <1>14, LastPosition
  <2> QED
    BY <1>6, <1>13, <2>1
<1>16. g[T] = h[T]
  <2>1. SameOn(T, q, path)
    BY <1>4, <1>5 DEF SameOn
  <2>2. Positions(S) /\ T \subseteq S
    BY <1>14, PositionsTo
  <2> QED
    BY <1>9, <1>10, <2>1, <2>2, DescentsAgree
<1>17. g[S] = Onward(tree, node, g[S \ {Max(S)}], q[Max(S)])
  BY <1>10, <1>14, DescentStep
<1>18. Resolve(q) = Onward(tree, node, Resolve(path), n)
  BY <1>4, <1>11, <1>12, <1>13, <1>15, <1>16, <1>17
<1> QED
  BY <1>3, <1>18 DEF Onward, Origin, Lookup, Follow

-----------------------------------------------------------------------------
(* A deletion nobody disturbs.                                             *)

LEMMA StatsStay == ASSUME UNCHANGED <<tree, node>> PROVE \A i : StatOf(i)' = StatOf(i)
BY DEF StatOf, Links

LEMMA PathsStay == ASSUME UNCHANGED <<tree, node>> PROVE \A path : Resolve(path)' = Resolve(path)
BY ResolveIsWay

LEMMA UndisturbedInit == Init => UndisturbedInv
<1> SUFFICES ASSUME Init PROVE UndisturbedInv
  OBVIOUS
<1>1. /\ pc = "inspect" /\ pending = {} /\ inventory = {} /\ removed = {} /\ deleted = 0
      /\ \E h \in InitHosts : tree = h.tree /\ node = h.node
  BY DEF Init, HostInit
<1>2. Hierarchy(tree, node)
  BY <1>1, HostAssumption
<1>3. Inventory = {} /\ Taken = {}
  BY <1>1 DEF Inventory, Taken
<1>4. Blocks({m \in inventory : m.ino \in Taken}) = 0
  <2>1. {m \in inventory : m.ino \in Taken} = {}
    BY <1>1
  <2> QED
    BY <2>1, SumEmpty DEF Blocks
<1> QED
  BY <1>1, <1>2, <1>3, <1>4 DEF UndisturbedInv, SurveyInv, RemainsInv, TakenInv

\* What the last stat of the entry that is about to go has seen.
LastSeen == /\ pc = "unlink" => seen = StatOf(tree[target.dir][target.name])
            /\ pc = "rmdir" => seen = StatOf(tree[cur.dir][cur.name])

\* Nothing is lost by a step that changes neither the machine nor what was
\* recorded.
LEMMA UndisturbedStill ==
    ASSUME UndisturbedInv,
           UNCHANGED <<tree, node, changes, evidenceVars, deleted, removed>>,
           pc' \in {"inspect", "tree", "list"} => pc' = pc,
           LastSeen' \/ (pc' = pc /\ UNCHANGED <<seen, target, cur>>)
    PROVE  UndisturbedInv'
<1> SUFFICES ASSUME changes = 0
             PROVE  (Hierarchy(tree, node) /\ SurveyInv /\ RemainsInv /\ TakenInv)'
  BY DEF UndisturbedInv
<1>0. UNCHANGED <<tree, node, expected, pending, listing, inventory, deleted, removed>>
  BY DEF evidenceVars
<1>1. Hierarchy(tree, node) /\ SurveyInv /\ RemainsInv /\ TakenInv
  BY DEF UndisturbedInv
<1>2. Inventory' = Inventory /\ Taken' = Taken
  BY <1>0 DEF Inventory, Taken
<1>3. (\A i : StatOf(i)' = StatOf(i)) /\ (\A path : Resolve(path)' = Resolve(path))
  BY <1>0, StatsStay, PathsStay
<1>4. \A i, S : LiesIn(i, S)' = LiesIn(i, S)
  BY <1>0 DEF LiesIn
<1>5. SurveyInv'
  BY <1>0, <1>1, <1>2, <1>3, <1>4 DEF SurveyInv, Surveying
<1>6. RemainsInv'
  BY <1>0, <1>1, <1>2, <1>4 DEF RemainsInv
<1>7. TakenInv'
  <2>1. LastSeen'
    BY <1>0, <1>1, <1>3 DEF TakenInv, LastSeen
  <2> QED
    BY <1>0, <1>1, <1>2, <2>1 DEF TakenInv, Raced, LastSeen
<1> QED
  BY <1>0, <1>1, <1>5, <1>6, <1>7

\* The survey has removed nothing.
LEMMA NothingTaken ==
    ASSUME TakenInv, removed = {}, UNCHANGED <<tree, removed, deleted>>, pc' \notin {"unlink", "rmdir"}
    PROVE  Taken = {} /\ TakenInv'
<1>1. Taken = {} /\ Taken' = {}
  BY DEF Taken
<1>2. {m \in inventory : m.ino \in Taken} = {} /\ {m \in inventory' : m.ino \in Taken'} = {}
  BY <1>1
<1>3. deleted' = Blocks({})
  BY <1>2 DEF TakenInv
<1>4. deleted' = Blocks({m \in inventory' : m.ino \in Taken'})
  BY <1>2, <1>3
<1>5. (deleted = Blocks({m \in inventory : m.ino \in Taken}))'
  BY <1>4 DEF Blocks
<1> QED
  BY <1>1, <1>5 DEF TakenInv

LEMMA UndisturbedInspect ==
    ASSUME TypeOK, ProvenanceInv, RootInv, UndisturbedInv, Inspect, ~\E why : Stop(why)
    PROVE  UndisturbedInv'
<1> SUFFICES ASSUME changes = 0
             PROVE  (Hierarchy(tree, node) /\ SurveyInv /\ RemainsInv /\ TakenInv)'
  BY DEF UndisturbedInv, Inspect, hostVars
<1>0. /\ UNCHANGED <<tree, node, inventory, removed, deleted>>
      /\ pc = "inspect" /\ pc' = "tree" /\ tree[Top][Cand] # NoInode
      /\ expected' = StatOf(tree[Top][Cand]) /\ pending' = {<<Cand>>}
  BY DEF Inspect, hostVars, resultVars
<1>1. Hierarchy(tree, node) /\ SurveyInv /\ RemainsInv /\ TakenInv
  BY DEF UndisturbedInv, Inspect, hostVars
<1>2. removed = {} /\ expected.ino = NoInode
  BY <1>0 DEF ProvenanceInv, Surveying, NoStat
<1>3. Taken = {} /\ TakenInv'
  BY <1>0, <1>1, <1>2, NothingTaken
<1>4. Inventory' = Inventory /\ Taken' = Taken
  BY <1>0 DEF Inventory, Taken
<1>5. (\A i : StatOf(i)' = StatOf(i)) /\ (\A path : Resolve(path)' = Resolve(path))
  BY <1>0, StatsStay, PathsStay
<1>6. \A i, S : LiesIn(i, S)' = LiesIn(i, S)
  BY <1>0 DEF LiesIn
<1>7. tree[Top][Cand] \in Inodes /\ node[Top].kind = "dir"
  BY <1>0, HostAssumption DEF TypeOK, HostTypeOK, Tree, RootInv
<1>8. Resolve(<<Cand>>) = tree[Top][Cand]
  BY <1>7, ResolveCand
<1>9. expected'.ino = tree[Top][Cand]
  BY <1>0 DEF StatOf
<1>10. SurveyInv'
  <2>1. \A path \in pending' : Resolve(path)' = expected'.ino
    BY <1>0, <1>5, <1>8, <1>9
  <2> QED
    BY <1>0, <1>1, <1>4, <1>5, <1>9, <2>1 DEF SurveyInv, Surveying
<1>11. \A i \in Inventory : i # NoInode
  BY HostAssumption DEF TypeOK, Observed, Inventory
<1>12. RemainsInv'
  BY <1>0, <1>1, <1>2, <1>4, <1>6, <1>11 DEF RemainsInv
<1> QED
  BY <1>0, <1>1, <1>3, <1>10, <1>12

LEMMA UndisturbedEntry ==
    ASSUME TypeOK, ProvenanceInv, UndisturbedInv, TreeEntry, ~\E why : Stop(why)
    PROVE  UndisturbedInv'
<1> SUFFICES ASSUME changes = 0
             PROVE  (Hierarchy(tree, node) /\ SurveyInv /\ RemainsInv /\ TakenInv)'
  BY DEF UndisturbedInv, TreeEntry, hostVars
<1>0. /\ UNCHANGED <<tree, node, removed, deleted, expected>>
      /\ pc = "tree" /\ pc' \in {"tree", "list"}
  BY DEF TreeEntry, hostVars, resultVars
<1>1. Hierarchy(tree, node) /\ SurveyInv /\ RemainsInv /\ TakenInv
  BY DEF UndisturbedInv, TreeEntry, hostVars
<1>2. removed = {}
  BY <1>0 DEF ProvenanceInv, Surveying
<1>3. Taken = {} /\ TakenInv'
  BY <1>0, <1>1, <1>2, NothingTaken
<1>4. PICK path \in pending :
        /\ Resolve(path) \in Inodes
        /\ node[Resolve(path)].kind \notin {"mount", "special", "link"}
        /\ IsDir(Resolve(path)) \/ Unlinkable(StatOf(Resolve(path)))
        /\ inventory' = inventory \cup {StatOf(Resolve(path))}
        /\ pending' = pending \ {path} /\ listing' = path
        /\ pc' = IF IsDir(Resolve(path)) THEN "list" ELSE "tree"
  BY DEF TreeEntry
<1>5. PICK i : i = Resolve(path)
  OBVIOUS
<1>6. i \in Inodes /\ node[i].kind \in {"dir", "file"} /\ (pc' = "list" => node[i].kind = "dir")
  BY <1>4, <1>5 DEF IsDir, Unlinkable, StatOf
<1>7. StatOf(i).ino = i /\ StatOf(i).kind = node[i].kind /\ StatOf(i).blocks = node[i].blocks
  BY DEF StatOf
<1>8. PICK st : st = StatOf(i)
  OBVIOUS
<1>9. inventory' = inventory \cup {st} /\ st.ino = i
  BY <1>4, <1>5, <1>7, <1>8
<1>10. Inventory' = Inventory \cup {i} /\ Taken' = {}
  BY <1>0, <1>3, <1>9 DEF Inventory, Taken
<1>11. (\A x : StatOf(x)' = StatOf(x)) /\ (\A p : Resolve(p)' = Resolve(p))
  BY <1>0, StatsStay, PathsStay
<1>12. \A x : LiesIn(x, Inventory) => LiesIn(x, Inventory)'
  BY <1>0, <1>10 DEF LiesIn
<1>13. \A m \in inventory' : m = StatOf(m.ino)
  BY <1>0, <1>1, <1>7, <1>8, <1>9 DEF SurveyInv, Surveying
<1>14. SurveyInv'
  <2>1. \A p \in pending' : Resolve(p)' = expected.ino \/ LiesIn(Resolve(p), Inventory)'
    BY <1>1, <1>4, <1>11, <1>12 DEF SurveyInv
  <2> QED
    BY <1>0, <1>1, <1>4, <1>5, <1>6, <1>10, <1>11, <1>13, <2>1 DEF SurveyInv
<1>15. RemainsInv'
  <2>1. \A m \in inventory' : m.kind \in {"dir", "file"}
    BY <1>1, <1>6, <1>7, <1>8, <1>9 DEF RemainsInv
  <2>2. \A m \in inventory', k \in inventory' : m.ino = k.ino => m = k
    BY <1>13
  <2>3. \A m \in inventory' : node[m.ino].kind = m.kind /\ node[m.ino].blocks = m.blocks
    BY <1>13 DEF StatOf
  <2>4. i = expected.ino \/ LiesIn(i, Inventory)'
    BY <1>1, <1>4, <1>5, <1>12 DEF SurveyInv
  <2>5. \A x \in Inventory' : x = expected.ino \/ LiesIn(x, Inventory)'
    BY <1>1, <1>3, <1>10, <1>12, <2>4 DEF RemainsInv
  <2>6. Inventory' \ Taken' = Inventory' /\ \A x : LiesIn(x, Inventory)' => LiesIn(x, Inventory \ Taken)'
    BY <1>10 DEF LiesIn
  <2> QED
    BY <1>0, <2>1, <2>2, <2>3, <2>5, <2>6 DEF RemainsInv
<1> QED
  BY <1>0, <1>1, <1>3, <1>14, <1>15

LEMMA UndisturbedList ==
    ASSUME TypeOK, ProvenanceInv, UndisturbedInv, TreeList, ~\E why : Stop(why)
    PROVE  UndisturbedInv'
<1> SUFFICES ASSUME changes = 0
             PROVE  (Hierarchy(tree, node) /\ SurveyInv /\ RemainsInv /\ TakenInv)'
  BY DEF UndisturbedInv, TreeList, hostVars
<1>0. /\ UNCHANGED <<tree, node, inventory, removed, deleted, expected>>
      /\ pc = "list" /\ pc' = "tree"
  BY DEF TreeList, hostVars, resultVars
<1>1. Hierarchy(tree, node) /\ SurveyInv /\ RemainsInv /\ TakenInv
  BY DEF UndisturbedInv, TreeList, hostVars
<1>2. removed = {}
  BY <1>0 DEF ProvenanceInv, Surveying
<1>3. Taken = {} /\ TakenInv'
  BY <1>0, <1>1, <1>2, NothingTaken
<1>4. Inventory' = Inventory /\ Taken' = Taken
  BY <1>0 DEF Inventory, Taken
<1>5. (\A x : StatOf(x)' = StatOf(x)) /\ (\A p : Resolve(p)' = Resolve(p))
  BY <1>0, StatsStay, PathsStay
<1>6. \A x, S : LiesIn(x, S)' = LiesIn(x, S)
  BY <1>0 DEF LiesIn
<1>7. PICK d : d = Resolve(listing)
  OBVIOUS
<1>8. d \in Inventory /\ node[d].kind = "dir" /\ d \in Inodes
  BY <1>0, <1>1, <1>7 DEF SurveyInv, TypeOK, Inventory, Observed
<1>9. Follow(d) = d /\ listing \in Seq(Names)
  BY <1>8 DEF Follow, TypeOK
<1>10. pending' = pending \cup {Append(listing, n) : n \in Entries(d)}
  BY <1>7, <1>9 DEF TreeList
<1>11. ASSUME NEW n \in Names PROVE LiesIn(Resolve(Append(listing, n)), Inventory) \/ n \notin Entries(d)
  <2>1. Resolve(Append(listing, n)) = tree[d][n]
    BY <1>7, <1>8, <1>9, ResolveAppend DEF Lookup
  <2> QED
    BY <1>8, <2>1 DEF LiesIn
<1>12. \A p \in pending' : Resolve(p) = expected.ino \/ LiesIn(Resolve(p), Inventory)
  <2>1. ASSUME NEW p \in pending' PROVE Resolve(p) = expected.ino \/ LiesIn(Resolve(p), Inventory)
    <3>1. CASE p \in pending
      BY <1>1, <3>1 DEF SurveyInv
    <3>2. CASE p \notin pending
      <4>1. PICK n \in Entries(d) : p = Append(listing, n)
        BY <1>10, <3>2
      <4>2. n \in Names
        BY DEF Entries
      <4> QED
        BY <1>11, <4>1, <4>2
    <3> QED
      BY <3>1, <3>2
  <2> QED
    BY <2>1
<1>13. SurveyInv'
  BY <1>0, <1>1, <1>4, <1>5, <1>6, <1>12 DEF SurveyInv, Surveying
<1>14. RemainsInv'
  BY <1>0, <1>1, <1>4, <1>6 DEF RemainsInv
<1> QED
  BY <1>0, <1>1, <1>3, <1>13, <1>14

\* The steps that only look, and stopping.
LEMMA UndisturbedLooks ==
    ASSUME TypeOK, UndisturbedInv, ~\E why : Stop(why), Agent,
           ~Inspect, ~TreeEntry, ~TreeList, ~UnlinkFile, ~RemoveDir
    PROVE  UndisturbedInv'
<1>1. UNCHANGED <<tree, node, changes, deleted, removed>>
  BY LookingStep DEF hostVars, resultVars
<1>2. /\ UNCHANGED evidenceVars
      /\ pc' \notin {"inspect", "tree", "list"}
      /\ pc' \in {"unlink", "rmdir"} => RestatFile \/ RestatPost
  <2>1. CASE TreeDone \/ CheckBegin \/ OpenParent \/ StatRoot
    BY <2>1 DEF TreeDone, CheckBegin, OpenParent, StatRoot
  <2>2. CASE ReadProcess \/ ScanSelf
    BY <2>2, ReadStep DEF ScanSelf
  <2>3. CASE CheckEnd
    BY <2>3 DEF CheckEnd, TypeOK, Checkers
  <2>4. CASE Pop \/ StatDir \/ OpenDir
    BY <2>4 DEF Pop, StatDir, OpenDir
  <2>5. CASE ListDir \/ StatChild \/ ScanDir
    BY <2>5, ListStep DEF ScanDir
  <2>6. CASE StatFile \/ FilesDone \/ RestatFile \/ StatPost \/ RestatPost
    BY <2>6 DEF StatFile, FilesDone, RestatFile, StatPost, RestatPost
  <2> QED
    BY <2>1, <2>2, <2>3, <2>4, <2>5, <2>6 DEF Agent
<1>3. \A i : StatOf(i)' = StatOf(i)
  BY <1>1, StatsStay
<1>4. LastSeen'
  <2>1. CASE RestatFile
    BY <1>1, <1>3, <2>1 DEF RestatFile, LastSeen
  <2>2. CASE RestatPost
    BY <1>1, <1>3, <2>2 DEF RestatPost, LastSeen
  <2>3. CASE ~RestatFile /\ ~RestatPost
    BY <1>2, <2>3 DEF LastSeen
  <2> QED
    BY <2>1, <2>2, <2>3
<1> QED
  BY <1>1, <1>2, <1>4, UndisturbedStill

LEMMA UndisturbedStopped == ASSUME UndisturbedInv, NEW why, Stop(why) PROVE UndisturbedInv'
<1>1. /\ UNCHANGED <<tree, node, changes, evidenceVars, deleted, removed>>
      /\ pc' = "done"
  BY DEF Stop, hostVars, resultVars
<1> QED
  BY <1>1, UndisturbedStill DEF LastSeen

\* Whoever changes the file system ends the promise; other programs, the
\* clock and stuttering do nothing.
LEMMA UndisturbedOthers ==
    ASSUME TypeOK, UndisturbedInv, Environment \/ UNCHANGED vars
    PROVE  UndisturbedInv'
<1>1. CASE FileSystemStep /\ Environment
  <2>1. changes' = changes + 1
    <3>1. /\ \A i \in Inodes : Write(i) \/ Chown(i) => Change
          /\ \A d, i \in Inodes, n \in Names :
                Create(d, n, i) \/ Link(d, n, i) \/ MountOver(d, n, i) \/ Delete(i, n) => Change
          /\ \A d, e \in Inodes, n, m \in Names : Rename(d, n, e, m) => Change
      <4>1. \A i \in Inodes : Write(i) \/ Chown(i) => Change
        BY DEF Write, Chown
      <4>2. \A d, i \in Inodes, n \in Names :
              Create(d, n, i) \/ Link(d, n, i) \/ MountOver(d, n, i) \/ Delete(i, n) => Change
        BY DEF Create, Link, MountOver, Delete
      <4>3. \A d, e \in Inodes, n, m \in Names : Rename(d, n, e, m) => Change
        BY DEF Rename
      <4> QED
        BY <4>1, <4>2, <4>3
    <3>2. Change
      BY <1>1, <3>1 DEF FileSystemStep
    <3> QED
      BY <3>2 DEF Change
  <2> QED
    BY <2>1 DEF UndisturbedInv, TypeOK, HostTypeOK
<1>2. CASE ~(FileSystemStep /\ Environment)
  <2>1. UNCHANGED <<tree, node, changes, evidenceVars, deleted, removed, pc, seen, target, cur>>
    <3>1. CASE Environment /\ OtherPrograms
      BY <1>2, <3>1 DEF OtherPrograms, ProcessStep, Open, Close, Fork, Exit, walkVars
    <3>2. CASE Environment /\ DeadlinePasses
      BY <3>2 DEF DeadlinePasses, hostVars, resultVars, walkVars
    <3>3. CASE UNCHANGED vars
      BY <3>3 DEF vars, hostVars, resultVars, walkVars
    <3> QED
      BY <3>1, <3>2, <3>3 DEF Environment
  <2> QED
    BY <2>1, UndisturbedStill
<1> QED
  BY <1>1, <1>2

\* What a removal does when nobody interferes.
Unlinked(d, n, i) ==
    /\ tree[d][n] = i /\ node' = Unbound(d, n) /\ tree' = [tree EXCEPT ![d][n] = NoInode]
    /\ \/ node[i].kind = "dir" /\ Entries(i) = {}
       \/ node[i].kind # "dir" /\ Cardinality(Links(i)) <= 1
Accounts(i) ==
    /\ deleted' = deleted + node[i].blocks
    /\ \E r : removed' = removed \cup {r} /\ r.actual.ino = i /\ ~Raced(r)
    /\ UNCHANGED <<evidenceVars, changes>>

LEMMA UndisturbedRemoval ==
    ASSUME TypeOK, ProvenanceInv, RootInv, RemainsInv, TakenInv, ~\E why : Stop(why),
           UnlinkFile \/ RemoveDir
    PROVE  \E d \in Inodes, n \in Names, i \in Inventory \ Taken : Unlinked(d, n, i) /\ Accounts(i)
<1>0. pc \in {"unlink", "rmdir"} /\ expected.ino \in Inventory
  BY RemovalStep DEF RootInv, Walking, AtFile, AtDir
<1>1. seen.ino \in Inventory
  BY <1>0 DEF ProvenanceInv, Inventoried, Inventory
<1>2. PICK d \in Inodes, n \in Names, recorded \in Stats :
         /\ Discard(d, n, recorded) /\ seen = StatOf(tree[d][n])
         /\ \/ ~IsDir(tree[d][n]) /\ Unlinkable(seen)
            \/ node[tree[d][n]].kind = "dir" /\ Entries(tree[d][n]) = {}
  <2>1. target.dir \in Inodes /\ target.name \in Names /\ target.st \in Stats
    BY DEF TypeOK, FileRef
  <2>2. cur.dir \in Inodes /\ cur.name \in Names /\ cur.id \in Stats
    BY DEF TypeOK, Frame
  <2>3. CASE UnlinkFile
    BY <2>1, <2>3 DEF UnlinkFile, ProvenanceInv, TakenInv
  <2>4. CASE RemoveDir
    BY <2>2, <2>4 DEF RemoveDir, TakenInv
  <2> QED
    BY <2>3, <2>4
<1>3. PICK i : i = tree[d][n]
  OBVIOUS
<1>4. /\ seen.ino = i /\ seen.kind = node[i].kind /\ seen.blocks = node[i].blocks
      /\ seen.nlink = Cardinality(Links(i))
  BY <1>2, <1>3 DEF StatOf
<1>5. i \in Inventory \ Taken
  BY <1>1, <1>2, <1>3, <1>4 DEF TakenInv
<1>6. i \in Inodes
  BY <1>5 DEF TypeOK, Observed, Inventory
<1>7. node[i].kind \in {"dir", "file"}
  <2>1. PICK m \in inventory : m.ino = i
    BY <1>5 DEF Inventory
  <2> QED
    BY <1>5, <2>1 DEF RemainsInv
<1>8. Unlinked(d, n, i)
  <2>1. \/ node[i].kind = "dir" /\ Entries(i) = {}
        \/ node[i].kind # "dir" /\ Cardinality(Links(i)) <= 1
    BY <1>2, <1>3, <1>4, <1>6, <1>7 DEF IsDir, Unlinkable
  <2> QED
    BY <1>2, <1>3, <2>1 DEF Unlinked, Discard, Bind
<1>9. Accounts(i)
  <2>1. PICK r : r = [actual |-> StatOf(tree[d][n]), seen |-> seen, recorded |-> recorded]
    OBVIOUS
  <2>2. removed' = removed \cup {r} /\ deleted' = deleted + seen.blocks
        /\ UNCHANGED <<evidenceVars, changes>>
    BY <1>2, <2>1 DEF Discard, Accounted
  <2>3. r.actual = seen /\ r.seen = seen
    BY <1>2, <2>1
  <2> QED
    BY <1>4, <2>2, <2>3 DEF Accounts, Raced
<1> QED
  BY <1>5, <1>8, <1>9

\* The attributes of every other inode stay, but for the version of its
\* directory.
LEMMA UnboundRest ==
    ASSUME HostTypeOK, NEW d \in Inodes, NEW n \in Names, NEW i \in Inodes, tree[d][n] = i,
           NEW x \in Inodes, x # i
    PROVE  Unbound(d, n)[x].kind = node[x].kind /\ Unbound(d, n)[x].blocks = node[x].blocks
<1>1. PICK after : Unbound(d, n) = [node EXCEPT ![d] = Touched(d), ![i] = after]
  BY DEF Unbound
<1>2. node \in [Inodes -> Node]
  BY DEF HostTypeOK
<1>3. Unbound(d, n)[x] = IF x = d THEN Touched(x) ELSE node[x]
  BY <1>1, <1>2
<1>4. Touched(x).kind = node[x].kind /\ Touched(x).blocks = node[x].blocks
  BY <1>2 DEF Touched, Node
<1> QED
  BY <1>3, <1>4

\* An entry that may be unlinked has no other name.
LEMMA LastName ==
    ASSUME HostTypeOK, Hierarchy(tree, node), NEW d \in Inodes, NEW n \in Names, NEW i \in Inodes,
           Unlinked(d, n, i), NEW e \in Inodes, NEW m \in Names, tree[e][m] = i
    PROVE  e = d /\ m = n
<1>1. tree[d][n] = i
  BY DEF Unlinked
<1>2. CASE node[i].kind = "dir"
  BY <1>1, <1>2 DEF Hierarchy
<1>3. CASE Cardinality(Links(i)) <= 1
  <2>1. PICK L : L = Links(i)
    OBVIOUS
  <2>2. IsFiniteSet(L) /\ Cardinality(L) <= 1
    <3>1. IsFiniteSet(Inodes \X Names)
      BY HostAssumption, FS_Product
    <3> QED
      BY <1>3, <2>1, <3>1, FS_Subset DEF Links
  <2>3. <<d, n>> \in L /\ <<e, m>> \in L
    BY <1>1, <2>1 DEF Links
  <2>4. PICK x : x = <<d, n>>
    OBVIOUS
  <2>5. IsFiniteSet(L \ {x}) /\ Cardinality(L \ {x}) = Cardinality(L) - 1
    BY <2>2, <2>3, <2>4, FS_RemoveElement
  <2>6. Cardinality(L \ {x}) = 0
    <3>1. Cardinality(L) \in Nat /\ Cardinality(L \ {x}) \in Nat
      BY <2>2, <2>5, FS_CardinalityType
    <3> QED
      BY <2>2, <2>5, <3>1
  <2>7. L \ {x} = {}
    BY <2>5, <2>6, FS_EmptySet
  <2>8. <<e, m>> = <<d, n>>
    BY <2>3, <2>4, <2>7
  <2> QED
    BY <2>8
<1> QED
  BY <1>2, <1>3 DEF Unlinked

\* After the entry is gone, what is left is as it was.
LEMMA OthersStay ==
    ASSUME HostTypeOK, Hierarchy(tree, node), NEW d \in Inodes, NEW n \in Names, NEW i \in Inodes,
           Unlinked(d, n, i)
    PROVE  /\ \A e \in Inodes, m \in Names :
                /\ tree'[e][m] # NoInode => tree'[e][m] = tree[e][m]
                /\ tree[e][m] # i => tree'[e][m] = tree[e][m]
                /\ tree'[e][m] # i
           /\ \A x \in Inodes : x # i => node'[x].kind = node[x].kind /\ node'[x].blocks = node[x].blocks
<1>1. tree[d][n] = i /\ tree' = [tree EXCEPT ![d][n] = NoInode] /\ node' = Unbound(d, n)
  BY DEF Unlinked
<1>2. tree \in [Inodes -> [Names -> Inodes \cup {NoInode}]] /\ NoInode \notin Inodes
  BY HostAssumption DEF HostTypeOK, Tree
<1>3. ASSUME NEW e \in Inodes, NEW m \in Names
      PROVE  tree'[e][m] = IF e = d /\ m = n THEN NoInode ELSE tree[e][m]
  BY <1>1, <1>2
<1>4. ASSUME NEW e \in Inodes, NEW m \in Names
      PROVE  tree[e][m] = i => e = d /\ m = n
  BY LastName
<1>5. \A x \in Inodes : x # i => node'[x].kind = node[x].kind /\ node'[x].blocks = node[x].blocks
  BY <1>1, UnboundRest
<1>6. ASSUME NEW e \in Inodes, NEW m \in Names
      PROVE  /\ tree'[e][m] # NoInode => tree'[e][m] = tree[e][m]
             /\ tree[e][m] # i => tree'[e][m] = tree[e][m]
             /\ tree'[e][m] # i
  BY <1>1, <1>2, <1>3, <1>4
<1> QED
  BY <1>5, <1>6

LEMMA HierarchyStays ==
    ASSUME HostTypeOK, Hierarchy(tree, node), NEW d \in Inodes, NEW n \in Names, NEW i \in Inodes,
           Unlinked(d, n, i)
    PROVE  Hierarchy(tree, node)'
<1>0. \A e \in Inodes, m \in Names :
         tree'[e][m] # NoInode => tree'[e][m] = tree[e][m] /\ tree'[e][m] # i
  BY OthersStay
<1>1. ASSUME NEW S \in (SUBSET Inodes) \ {{}}
      PROVE  \E x \in S : \A e \in S, m \in Names : tree'[e][m] # x
  <2>1. PICK x \in S : \A e \in S, m \in Names : tree[e][m] # x
    BY DEF Hierarchy
  <2>2. x \in Inodes /\ x # NoInode
    BY HostAssumption
  <2> QED
    BY <2>1, <2>2, OthersStay
<1>2. ASSUME NEW a \in Inodes, NEW e \in Inodes, NEW b \in Names, NEW m \in Names,
             tree'[a][b] = tree'[e][m], tree'[a][b] \in Inodes, node'[tree'[a][b]].kind = "dir"
      PROVE  a = e /\ b = m
  <2>1. PICK x \in Inodes : x = tree'[a][b]
    BY <1>2
  <2>2. x # NoInode /\ x = tree'[e][m]
    BY <1>2, <2>1, HostAssumption
  <2>3. x = tree[a][b] /\ x # i
    BY <1>0, <2>1, <2>2
  <2>4. x = tree[e][m]
    BY <1>0, <2>2
  <2>5. node[x].kind = "dir"
    BY <1>2, <2>1, <2>3, OthersStay
  <2>6. tree[a][b] = x /\ tree[e][m] = x
    BY <2>3, <2>4
  <2> QED
    BY <2>5, <2>6 DEF Hierarchy
<1> QED
  BY <1>1, <1>2 DEF Hierarchy

LEMMA RemainsStays ==
    ASSUME TypeOK, Hierarchy(tree, node), RemainsInv, UNCHANGED <<expected, inventory>>,
           NEW d \in Inodes, NEW n \in Names, NEW i \in Inodes, Unlinked(d, n, i),
           Taken' = Taken \cup {i}
    PROVE  RemainsInv'
<1>1. Inventory' = Inventory /\ Inventory \subseteq Inodes
  BY DEF Inventory, TypeOK, Observed
<1>2. PICK Rest : Rest = Inventory \ Taken
  OBVIOUS
<1>3. PICK Left : Left = Rest \ {i}
  OBVIOUS
<1>4. (Inventory \ Taken)' = Left
  BY <1>1, <1>2, <1>3
<1>5. ASSUME NEW m \in inventory, m.ino \notin Taken'
      PROVE  node'[m.ino].kind = m.kind /\ node'[m.ino].blocks = m.blocks
  <2>1. m.ino \in Inodes /\ m.ino # i /\ m.ino \notin Taken
    BY <1>5 DEF TypeOK, Observed
  <2>2. node[m.ino].kind = m.kind /\ node[m.ino].blocks = m.blocks
    BY <2>1 DEF RemainsInv
  <2> QED
    BY <2>1, <2>2, OthersStay DEF TypeOK
<1>6. ASSUME NEW x \in Left, x # expected.ino
      PROVE  \E e \in Left : node'[e].kind = "dir" /\ \E m \in Names : tree'[e][m] = x
  <2>1. x \in Rest /\ x # i /\ x \in Inodes
    BY <1>1, <1>2, <1>3
  <2>2. PICK e \in Rest : node[e].kind = "dir" /\ \E m \in Names : tree[e][m] = x
    BY <1>2, <1>6, <2>1 DEF RemainsInv, LiesIn
  <2>3. PICK m \in Names : tree[e][m] = x
    BY <2>2
  <2>4. e # i
    <3>1. x # NoInode
      BY <2>1, HostAssumption
    <3>2. m \in Entries(e)
      BY <2>3, <3>1 DEF Entries
    <3> QED
      BY <2>2, <3>2 DEF Unlinked
  <2>5. e \in Left /\ e \in Inodes
    BY <1>1, <1>2, <1>3, <2>4
  <2>6. node'[e].kind = "dir" /\ tree'[e][m] = x
    BY <2>1, <2>2, <2>3, <2>4, <2>5, OthersStay DEF TypeOK
  <2> QED
    BY <2>5, <2>6
<1>7. (\A x \in Inventory \ Taken : x = expected.ino \/ LiesIn(x, Inventory \ Taken))'
  BY <1>4, <1>6 DEF LiesIn
<1> QED
  BY <1>5, <1>7 DEF RemainsInv

-----------------------------------------------------------------------------
(* What was recorded of each inode is counted once.                        *)

LEMMA InventoryFinite ==
    ASSUME TypeOK, RemainsInv
    PROVE  IsFiniteSet(inventory)
<1>1. PICK f : f = [m \in inventory |-> m.ino]
  OBVIOUS
<1>2. f \in [inventory -> Inodes]
  BY <1>1 DEF TypeOK, Observed
<1>3. \A m, k \in inventory : f[m] = f[k] => m = k
  BY <1>1 DEF RemainsInv
<1>4. f \in Injection(inventory, Inodes)
  BY <1>2, <1>3 DEF Injection, IsInjective
<1> QED
  BY <1>4, HostAssumption, FS_Injection

LEMMA BlocksAdd ==
    ASSUME NEW S, IsFiniteSet(S), NEW m, m \notin S, \A x \in S \cup {m} : x.blocks \in Nat
    PROVE  Blocks(S \cup {m}) = m.blocks + Blocks(S)
<1>1. PICK f : f = [x \in S \cup {m} |-> x.blocks]
  OBVIOUS
<1>2. PICK g : g = [x \in S |-> x.blocks]
  OBVIOUS
<1>3. \A x \in S : g[x] \in Int /\ f[x] = g[x]
  BY <1>1, <1>2
<1>4. SumFunctionOnSet(g, S) = SumFunctionOnSet(f, S)
  BY <1>3, SumSame
<1>5. \A x \in S \cup {m} : f[x] \in Int
  BY <1>1
<1>6. SumFunctionOnSet(f, S \cup {m}) = f[m] + SumFunctionOnSet(f, S)
  BY <1>5, SumAdd
<1> QED
  BY <1>1, <1>2, <1>4, <1>6 DEF Blocks

LEMMA TakenStays ==
    ASSUME TypeOK, Hierarchy(tree, node), RemainsInv, TakenInv, pc' \notin {"unlink", "rmdir"},
           NEW d \in Inodes, NEW n \in Names, NEW i \in Inventory \ Taken,
           Unlinked(d, n, i), Accounts(i)
    PROVE  TakenInv' /\ Taken' = Taken \cup {i}
<1>1. PICK r : removed' = removed \cup {r} /\ r.actual.ino = i /\ ~Raced(r)
  BY DEF Accounts
<1>2. Taken' = Taken \cup {i}
  BY <1>1 DEF Taken
<1>3. UNCHANGED inventory /\ Inventory' = Inventory /\ deleted' = deleted + node[i].blocks
  BY DEF Accounts, evidenceVars, Inventory
<1>4. i \in Inodes /\ Taken \subseteq Inodes
  BY DEF TakenInv, TypeOK, Observed, Inventory
<1>5. PICK m \in inventory : m.ino = i
  BY DEF Inventory
<1>6. PICK B : B = {k \in inventory : k.ino \in Taken}
  OBVIOUS
<1>7. {k \in inventory' : k.ino \in Taken'} = B \cup {m} /\ m \notin B
  BY <1>2, <1>3, <1>5, <1>6 DEF RemainsInv
<1>8. Blocks(B \cup {m}) = m.blocks + Blocks(B)
  <2>1. IsFiniteSet(B)
    BY <1>6, InventoryFinite, FS_Subset
  <2>2. \A x \in B \cup {m} : x.blocks \in Nat
    BY <1>5, <1>6 DEF TypeOK, Observed, Stats
  <2> QED
    BY <1>7, <2>1, <2>2, BlocksAdd
<1>9. node[i].blocks = m.blocks /\ m.blocks \in Nat
  BY <1>5 DEF RemainsInv, TypeOK, Observed, Stats
<1>10. deleted \in Nat /\ deleted = Blocks(B)
  BY <1>6 DEF TypeOK, TakenInv
<1>11. deleted' = Blocks({k \in inventory' : k.ino \in Taken'})
  <2>1. PICK A : A = {k \in inventory' : k.ino \in Taken'}
    OBVIOUS
  <2>2. Blocks(A) = m.blocks + deleted
    BY <1>7, <1>8, <1>10, <2>1
  <2>3. Blocks(A) = deleted'
    BY <1>3, <1>9, <1>10, <2>2
  <2> QED
    BY <2>1, <2>3
<1>12. (deleted = Blocks({k \in inventory : k.ino \in Taken}))'
  BY <1>11 DEF Blocks
<1>13. ASSUME NEW e \in Inodes, NEW k \in Names PROVE tree'[e][k] \notin Taken'
  <2>1. CASE tree'[e][k] = NoInode
    BY <1>2, <1>4, <2>1, HostAssumption
  <2>2. CASE tree'[e][k] # NoInode
    <3>1. tree'[e][k] = tree[e][k] /\ tree'[e][k] # i
      BY <1>4, <2>2, OthersStay DEF TypeOK
    <3> QED
      BY <1>2, <3>1 DEF TakenInv
  <2> QED
    BY <2>1, <2>2
<1>14. \A q \in removed' : ~Raced(q)
  BY <1>1 DEF TakenInv
<1>15. Taken' \subseteq Inventory'
  BY <1>2, <1>3 DEF TakenInv
<1> QED
  BY <1>2, <1>12, <1>13, <1>14, <1>15 DEF TakenInv, Raced

LEMMA UndisturbedRemoved ==
    ASSUME TypeOK, ProvenanceInv, RootInv, UndisturbedInv, ~\E why : Stop(why),
           UnlinkFile \/ RemoveDir
    PROVE  UndisturbedInv'
<1>1. pc \in {"unlink", "rmdir"} /\ pc' \in {"done", "files", "pop"}
  BY RemovalStep
<1>2. changes' = changes
  BY RemovalStep DEF Discard
<1> SUFFICES ASSUME changes = 0
             PROVE  (Hierarchy(tree, node) /\ SurveyInv /\ RemainsInv /\ TakenInv)'
  BY <1>2 DEF UndisturbedInv
<1>3. Hierarchy(tree, node) /\ SurveyInv /\ RemainsInv /\ TakenInv
  BY DEF UndisturbedInv
<1>4. PICK d \in Inodes, n \in Names, i \in Inventory \ Taken : Unlinked(d, n, i) /\ Accounts(i)
  BY <1>3, UndisturbedRemoval
<1>5. i \in Inodes /\ HostTypeOK
  BY DEF TypeOK, Observed, Inventory
<1>6. UNCHANGED <<expected, inventory, pending>>
  BY <1>4 DEF Accounts, evidenceVars
<1>7. TakenInv' /\ Taken' = Taken \cup {i}
  BY <1>1, <1>3, <1>4, TakenStays
<1>8. Hierarchy(tree, node)'
  BY <1>3, <1>4, <1>5, HierarchyStays
<1>9. RemainsInv'
  BY <1>3, <1>4, <1>5, <1>6, <1>7, RemainsStays
<1>10. SurveyInv'
  <2>1. pending' = {}
    BY <1>1, <1>6 DEF RootInv
  <2> QED
    BY <1>1, <2>1 DEF SurveyInv, Surveying
<1> QED
  BY <1>7, <1>8, <1>9, <1>10

LEMMA UndisturbedNext ==
    TypeOK /\ ProvenanceInv /\ RootInv /\ UndisturbedInv /\ [Next]_vars => UndisturbedInv'
<1> SUFFICES ASSUME TypeOK, ProvenanceInv, RootInv, UndisturbedInv, [Next]_vars
             PROVE  UndisturbedInv'
  OBVIOUS
<1>1. CASE Agent /\ \E why : Stop(why)
  BY <1>1, UndisturbedStopped
<1>2. CASE Agent /\ ~\E why : Stop(why)
  BY <1>2, UndisturbedInspect, UndisturbedEntry, UndisturbedList, UndisturbedRemoved,
     UndisturbedLooks
<1>3. CASE Environment \/ UNCHANGED vars
  BY <1>3, UndisturbedOthers
<1> QED
  BY <1>1, <1>2, <1>3 DEF Next

\* Once the candidate is gone nothing of the inventory can remain: the topmost
\* entry that does would lie in a directory that remains.
LEMMA NothingRemains ==
    ASSUME TypeOK, ProvenanceInv, VerdictInv, UndisturbedInv
    PROVE  CompleteWhenUndisturbed
<1> SUFFICES ASSUME changes = 0, Verdict = "deleted"
             PROVE  Taken = Inventory /\ deleted = Blocks(inventory)
  BY DEF CompleteWhenUndisturbed
<1>1. Hierarchy(tree, node) /\ RemainsInv /\ TakenInv
  BY DEF UndisturbedInv
<1>2. reason = "ok"
  BY DEF Verdict
<1>3. PICK r \in removed : r.recorded = expected /\ ~Raced(r)
  BY <1>1, <1>2 DEF VerdictInv, RootGone, TakenInv
<1>4. r.recorded.ino = r.actual.ino
  BY <1>3 DEF ProvenanceInv, RemovalsVerified, SameObject, SameIdentity
<1>5. expected.ino \in Taken
  BY <1>3, <1>4 DEF Taken
<1>6. Inventory \ Taken = {}
  <2> SUFFICES ASSUME Inventory \ Taken # {} PROVE FALSE
    OBVIOUS
  <2>1. PICK Rest : Rest = Inventory \ Taken
    OBVIOUS
  <2>2. Rest \in (SUBSET Inodes) \ {{}}
    BY <2>1 DEF TypeOK, Observed, Inventory
  <2>3. PICK x \in Rest : \A e \in Rest, m \in Names : tree[e][m] # x
    BY <1>1, <2>2 DEF Hierarchy
  <2>4. x # expected.ino
    BY <1>5, <2>1
  <2>5. LiesIn(x, Rest)
    BY <1>1, <2>1, <2>4 DEF RemainsInv
  <2> QED
    BY <2>3, <2>5 DEF LiesIn
<1>7. Taken = Inventory
  BY <1>1, <1>6 DEF TakenInv
<1>8. {m \in inventory : m.ino \in Taken} = inventory
  BY <1>7 DEF Inventory
<1>9. deleted = Blocks(inventory)
  BY <1>1, <1>8 DEF TakenInv
<1> QED
  BY <1>7, <1>9

\* A deletion that execute_delete reports as done while nobody changed the file
\* system removed every entry _tree_evidence had listed, and the bytes
\* _unlink_tree counted are theirs.
THEOREM CompleteHolds == Spec => []CompleteWhenUndisturbed
<1>1. TypeOK /\ ProvenanceInv /\ VerdictInv /\ UndisturbedInv => CompleteWhenUndisturbed
  BY NothingRemains
<1> QED
  BY <1>1, TypeCorrect, ProvenanceCorrect, VerdictInit, VerdictNext, RootInit, RootNext,
     UndisturbedInit, UndisturbedNext, PTL DEF Spec
=============================================================================
