------------------------ MODULE InventoryScanProofs ------------------------
(***************************************************************************)
(* Proofs about the scan: the budget of entries holds, and a scan that     *)
(* calls itself complete has met every entry nobody touched and has its    *)
(* totals and the sizes of directories right, for every tree, every set of *)
(* caps and any changes of other programs.                                 *)
(***************************************************************************)
EXTENDS InventoryScan, FiniteFacts, SequenceTheorems

-----------------------------------------------------------------------------
(* Paths.                                                                  *)

\* A set of paths in which everything has its directory in the set is empty:
\* directories come first in the lexical order.
LEMMA NoDescent ==
    ASSUME NEW B \in SUBSET (Paths \ {root}), \A p \in B : Parent[p] \in B
    PROVE  B = {}
<1> SUFFICES ASSUME B # {} PROVE FALSE
  OBVIOUS
<1> DEFINE I == {i \in 1..Len(Order) : Order[i] \in B}
<1>1. Len(Order) \in Nat /\ DOMAIN Order = 1..Len(Order)
  BY ScanAssumption, LenProperties
<1>2. \A p \in Paths : \E i \in 1..Len(Order) : Order[i] = p
  BY <1>1, ScanAssumption DEF ToSet
<1>3. I # {}
  BY <1>2
<1>4. I \subseteq 1..Len(Order)
  OBVIOUS
<1>5. PICK k \in I : \A j \in I : k <= j
  <2> HIDE DEF I
  <2> QED
    BY <1>1, <1>3, <1>4, FirstPosition
<1>6. Order[k] # root /\ Parent[Order[k]] \in B /\ k \in DOMAIN Order
  BY <1>1, <1>5
<1>7. PICK i \in 1..Len(Order) : Order[i] = Parent[Order[k]]
  BY <1>2, <1>6
<1>8. i < k
  BY <1>1, <1>6, <1>7, ScanAssumption
<1>9. i \in I
  BY <1>6, <1>7
<1>10. k \in Nat /\ i \in Nat /\ k <= i
  BY <1>5, <1>7, <1>9
<1> QED
  BY <1>8, <1>10

\* What a path and the directories above it are: the least set that has the
\* path and, with a path below the root, its directory.
Closed(S)  == \A x \in S \ {root} : Parent[x] \in S
Closure(p) == {q \in Paths : \A S \in SUBSET Paths : p \in S /\ Closed(S) => q \in S}

\* That set solves the equation of Above.
LEMMA ClosureStep ==
    ASSUME NEW p \in Paths
    PROVE  Closure(p) = IF p = root THEN {p} ELSE {p} \cup Closure(Parent[p])
<1>1. p # root => Parent[p] \in Paths
  BY ScanAssumption
<1>2. p \in Closure(p)
  BY DEF Closure
<1>3. CASE p = root
  <2>1. {root} \in SUBSET Paths /\ Closed({root})
    BY ScanAssumption DEF Closed
  <2> QED
    BY <1>2, <1>3, <2>1 DEF Closure
<1>4. CASE p # root
  <2>1. Closure(Parent[p]) \subseteq Closure(p)
    BY <1>4 DEF Closure, Closed
  <2> DEFINE S == {p} \cup Closure(Parent[p])
  <2>2. S \in SUBSET Paths
    BY DEF Closure
  <2>3. \A x \in S \ {root} : Parent[x] \in S
    <3> TAKE x \in S \ {root}
    <3>1. CASE x = p
      BY <1>1, <1>4, <3>1 DEF Closure
    <3>2. CASE x \in Closure(Parent[p])
      <4>1. Parent[x] \in Paths
        BY <2>2, ScanAssumption
      <4> QED
        BY <3>2, <4>1 DEF Closure, Closed
    <3> QED
      BY <3>1, <3>2
  <2>4. Closure(p) \subseteq S
    BY <2>2, <2>3 DEF Closure, Closed
  <2> QED
    BY <1>2, <1>4, <2>1, <2>4
<1> QED
  BY <1>3, <1>4

\* Above is defined for every path.
LEMMA AboveStep ==
    \A p \in Paths : Above[p] = IF p = root THEN {p} ELSE {p} \cup Above[Parent[p]]
<1> DEFINE f == [p \in Paths |-> Closure(p)]
<1>1. f = [p \in Paths |-> IF p = root THEN {p} ELSE {p} \cup f[Parent[p]]]
  <2>1. \A p \in Paths : p # root => Parent[p] \in Paths
    BY ScanAssumption
  <2>2. \A p \in Paths : f[p] = IF p = root THEN {p} ELSE {p} \cup f[Parent[p]]
    BY <2>1, ClosureStep
  <2> QED
    BY <2>2
<1>2. Above = [p \in Paths |-> IF p = root THEN {p} ELSE {p} \cup Above[Parent[p]]]
  <2>1. \E g : g = [p \in Paths |-> IF p = root THEN {p} ELSE {p} \cup g[Parent[p]]]
    <3> HIDE DEF f
    <3> QED
      BY <1>1
  <2> QED
    BY <2>1, Zenon DEF Above
<1> QED
  BY <1>2

\* What lies above a path: paths, the path itself and the root.
LEMMA AbovePaths ==
    \A p \in Paths : Above[p] \subseteq Paths /\ p \in Above[p] /\ root \in Above[p]
<1> DEFINE B == {p \in Paths : ~(Above[p] \subseteq Paths /\ root \in Above[p])}
<1>1. B \in SUBSET (Paths \ {root})
  BY AboveStep
<1>2. \A p \in B : Parent[p] \in B
  <2> TAKE p \in B
  <2>1. p # root /\ Parent[p] \in Paths /\ Above[p] = {p} \cup Above[Parent[p]]
    BY <1>1, AboveStep, ScanAssumption
  <2> QED
    BY <2>1
<1>3. B = {}
  <2> HIDE DEF B
  <2> QED
    BY <1>1, <1>2, NoDescent
<1> QED
  BY <1>3, AboveStep

\* What lies above a directory lies above everything in it.
LEMMA AboveTransitive ==
    \A p \in Paths : \A q \in Above[p] : Above[q] \subseteq Above[p]
<1> DEFINE B == {p \in Paths : \E q \in Above[p] : ~(Above[q] \subseteq Above[p])}
<1>1. B \in SUBSET (Paths \ {root})
  BY AboveStep
<1>2. \A p \in B : Parent[p] \in B
  <2> TAKE p \in B
  <2>1. p # root /\ Parent[p] \in Paths /\ Above[p] = {p} \cup Above[Parent[p]]
    BY <1>1, AboveStep, ScanAssumption
  <2> QED
    BY <2>1
<1>3. B = {}
  <2> HIDE DEF B
  <2> QED
    BY <1>1, <1>2, NoDescent
<1> QED
  BY <1>3

\* A path below a directory lies in or below an entry of the directory.
LEMMA WayDown ==
    \A p \in Paths : \A q \in Above[p] : q # p => \E c \in Above[p] : c # root /\ Parent[c] = q
<1> DEFINE B == {p \in Paths : \E q \in Above[p] : q # p /\ \A c \in Above[p] : ~(c # root /\ Parent[c] = q)}
<1>1. B \in SUBSET (Paths \ {root})
  BY AboveStep
<1>2. \A p \in B : Parent[p] \in B
  <2> TAKE p \in B
  <2>1. p # root /\ Parent[p] \in Paths /\ Above[p] = {p} \cup Above[Parent[p]]
    BY <1>1, AboveStep, ScanAssumption
  <2>2. PICK q \in Above[p] : q # p /\ \A c \in Above[p] : ~(c # root /\ Parent[c] = q)
    OBVIOUS
  <2>3. q # Parent[p] /\ q \in Above[Parent[p]]
    BY <2>1, <2>2
  <2> QED
    BY <2>1, <2>2, <2>3
<1>3. B = {}
  <2> HIDE DEF B
  <2> QED
    BY <1>1, <1>2, NoDescent
<1> QED
  BY <1>3

-----------------------------------------------------------------------------
(* Types.                                                                  *)

\* The number of entries of a listing that are queued: none when there is no
\* room, else no more than there is room for and no more than there are.
LEMMA Fitting ==
    ASSUME NEW m \in Int, NEW n \in Nat
    PROVE  Max({0, Min({m, n})}) = IF m <= 0 THEN 0 ELSE IF m <= n THEN m ELSE n
<1>1. Min({m, n}) = IF m <= n THEN m ELSE n
  <2>1. Min({m, n}) \in {m, n} /\ \A y \in {m, n} : Min({m, n}) <= y
    <3>1. \E x \in {m, n} : \A y \in {m, n} : x <= y
      <4>1. CASE m <= n
        BY <4>1
      <4>2. CASE n <= m
        BY <4>2
      <4> QED
        BY <4>1, <4>2
    <3> QED
      BY <3>1 DEF Min
  <2> QED
    BY <2>1
<1> DEFINE least == IF m <= n THEN m ELSE n
<1>2. least \in Int
  OBVIOUS
<1>3. Max({0, least}) = IF least <= 0 THEN 0 ELSE least
  <2> HIDE DEF least
  <2>1. Max({0, least}) \in {0, least} /\ \A y \in {0, least} : Max({0, least}) >= y
    <3>1. \E x \in {0, least} : \A y \in {0, least} : x >= y
      <4>1. CASE 0 <= least
        BY <1>2, <4>1
      <4>2. CASE least <= 0
        BY <1>2, <4>2
      <4> QED
        BY <1>2, <4>1, <4>2
    <3> QED
      BY <3>1 DEF Max
  <2> QED
    BY <1>2, <2>1
<1>4. Max({0, Min({m, n})}) = Max({0, least})
  BY <1>1
<1> QED
  BY <1>3, <1>4

\* What the tree of a state is.
LEMMA TreeTyped ==
    ASSUME TypeOK
    PROVE  /\ fs.kind \in [Paths -> Kinds] /\ fs.ino \in [Paths -> Inodes]
           /\ fs.size \in [Inodes -> 0..MaxBytes] /\ \A i \in Inodes : fs.size[i] \in Nat
           /\ caps.entries \in Nat \ {0} /\ caps.depth \in Nat \ {0} /\ caps.candidates \in Nat
           /\ caps.file \in Nat
<1>1. /\ fs.kind \in [Paths -> Kinds] /\ fs.ino \in [Paths -> Inodes]
      /\ fs.size \in [Inodes -> 0..MaxBytes] /\ fs.caps \in Caps
  BY DEF TypeOK, Tree
<1>2. \A i \in Inodes : fs.size[i] \in Nat
  BY <1>1, ScanAssumption
<1> QED
  BY <1>1, <1>2 DEF Caps, caps

\* What is present is a path, and all above it is present.
LEMMA PresentPaths ==
    /\ Present \subseteq Paths /\ IsFiniteSet(Present)
    /\ \A p \in Present : Exists(p) /\ \A q \in Above[p] : q \in Present
<1>1. Present \subseteq Paths
  BY DEF Present
<1>2. IsFiniteSet(Present)
  BY <1>1, ScanAssumption, FS_Subset
<1>3. \A p \in Present : \A q \in Above[p] : q \in Present
  BY AbovePaths, AboveTransitive DEF Present
<1>4. \A p \in Present : Exists(p)
  BY AbovePaths DEF Present
<1> QED
  BY <1>1, <1>2, <1>3, <1>4

\* The top of the stack and what is below it.
LEMMA TopRest ==
    ASSUME TypeOK, stack # <<>>
    PROVE  /\ Len(stack) \in Nat \ {0} /\ DOMAIN stack = 1..Len(stack)
           /\ Top \in Frame /\ Len(stack) \in DOMAIN stack /\ Top = stack[Len(stack)]
           /\ Rest \in Seq(Frame) /\ Len(Rest) = Len(stack) - 1 /\ DOMAIN Rest = 1..(Len(stack) - 1)
           /\ \A k \in 1..(Len(stack) - 1) : Rest[k] = stack[k]
<1>1. stack \in Seq(Frame) /\ Len(stack) \in Nat \ {0} /\ DOMAIN stack = 1..Len(stack)
  BY LenProperties, EmptySeq DEF TypeOK
<1>2. Len(stack) \in DOMAIN stack /\ Top = stack[Len(stack)] /\ Top \in Frame
  BY <1>1 DEF Top
<1>3. Rest \in Seq(Frame) /\ Len(Rest) = Len(stack) - 1
      /\ \A k \in 1..(Len(stack) - 1) : Rest[k] = stack[k]
  BY <1>1 DEF Rest
<1> QED
  BY <1>1, <1>2, <1>3

\* The entries of a directory and the sequence of frames made of them.
LEMMA ListingTyped ==
    ASSUME TypeOK, NEW S \in SUBSET Entries(at.path), NEW order \in SetToSeqs(S),
           NEW n, n = Cardinality(S)
    PROVE  /\ IsFiniteSet(S) /\ n \in Nat /\ order \in [1..n -> S] /\ S \subseteq Paths
           /\ [i \in 1..n |-> [path |-> order[i], depth |-> at.depth + 1, post |-> FALSE]] \in Seq(Frame)
<1>1. S \subseteq Paths /\ IsFiniteSet(S) /\ n \in Nat
  BY PresentPaths, FS_Subset, FS_CardinalityType DEF Entries
<1>2. order \in [1..n -> S]
  BY DEF SetToSeqs
<1>3. at.depth + 1 \in Nat
  BY DEF TypeOK
<1>4. \A i \in 1..n : [path |-> order[i], depth |-> at.depth + 1, post |-> FALSE] \in Frame
  BY <1>1, <1>2, <1>3 DEF Frame
<1>5. [i \in 1..n |-> [path |-> order[i], depth |-> at.depth + 1, post |-> FALSE]] \in Seq(Frame)
  BY <1>1, <1>4
<1> QED
  BY <1>1, <1>2, <1>5

\* The scan starts in a well typed state.
LEMMA InitTyped ==
    ASSUME Init
    PROVE  TypeOK /\ StackInv /\ TreeInv
<1>1. fs \in Tree /\ TreeInv
  BY ScanAssumption DEF Init, TreeInv, Exists
<1> DEFINE first == [path |-> root, depth |-> 0, post |-> FALSE]
<1>2. first \in Frame
  BY ScanAssumption DEF Frame
<1>3. stack = <<first>> /\ first.post = FALSE
  BY DEF Init
<1>4. stack \in Seq(Frame) /\ \A k \in DOMAIN stack : stack[k] = first
  <2> HIDE DEF first
  <2> QED
    BY <1>2, <1>3
<1>5. StackInv
  BY <1>3, <1>4, Zenon DEF StackInv, Init
<1>6. dirs = [x \in {root} |-> [bytes |-> 0, entries |-> 0]]
  BY DEF Init
<1>7. DOMAIN dirs \subseteq Paths /\ dirs \in [DOMAIN dirs -> [bytes : Nat, entries : Nat]]
  BY <1>6, ScanAssumption
<1>8. records = {} /\ result = {} /\ at = [path |-> root, depth |-> 0]
  BY DEF Init
<1> HIDE DEF first
<1>9. TypeOK
  BY <1>1, <1>4, <1>7, <1>8, ScanAssumption, FS_EmptySet DEF Init, TypeOK
<1> QED
  BY <1>1, <1>5, <1>9

\* What is recorded stays recorded in a well typed result.
LEMMA ResultKept ==
    ASSUME TypeOK, records \subseteq records', result' = result
    PROVE  result' \subseteq [record : records', inspected : BOOLEAN]
<1>1. [record : records, inspected : BOOLEAN] \subseteq [record : records', inspected : BOOLEAN]
  OBVIOUS
<1>2. result \subseteq [record : records, inspected : BOOLEAN]
  BY DEF TypeOK
<1> QED
  BY <1>1, <1>2

\* A record is added.
LEMMA RecordAdded ==
    ASSUME TypeOK,
           NEW new \in [path : Paths, ino : Inodes, bytes : Nat, entries : Nat, kind : {"dir", "file"}],
           records' = records \/ records' = records \cup {new}
    PROVE  /\ records \subseteq records'
           /\ records' \subseteq [path : Paths, ino : Inodes, bytes : Nat, entries : Nat, kind : {"dir", "file"}]
           /\ IsFiniteSet(records')
<1>1. IsFiniteSet(records) /\ IsFiniteSet(records \cup {new})
  BY FS_AddElement DEF TypeOK
<1>2. IsFiniteSet(records')
  BY <1>1
<1>3. records \subseteq [path : Paths, ino : Inodes, bytes : Nat, entries : Nat, kind : {"dir", "file"}]
  BY DEF TypeOK
<1> QED
  BY <1>2, <1>3

\* The top frame is taken off.
LEMMA PopTyped ==
    ASSUME TypeOK, StackInv, stack # <<>>, stack' = Rest, pc' = "walk" \/ pc' = "enumerate",
           DOMAIN dirs \subseteq DOMAIN dirs'
    PROVE  stack' \in Seq(Frame) /\ StackInv'
<1>1. \A k \in DOMAIN stack' : stack'[k] = stack[k] /\ k \in DOMAIN stack
  BY TopRest
<1>2. \A k \in DOMAIN stack' : stack'[k].post => stack'[k].path \in DOMAIN dirs' \ {root}
  BY <1>1 DEF StackInv
<1> QED
  BY <1>2, TopRest DEF StackInv

\* The second visit.
LEMMA PostTyped ==
    ASSUME TypeOK, StackInv, Post
    PROVE  TypeOK' /\ StackInv'
<1> DEFINE p == Top.path
           d == dirs[p]
           new == [path |-> p, ino |-> fs.ino[p], bytes |-> d.bytes, entries |-> d.entries + 1, kind |-> "dir"]
           sum == [bytes |-> dirs[Parent[p]].bytes + d.bytes, entries |-> dirs[Parent[p]].entries + d.entries + 1]
<1>1. stack # <<>> /\ Top.post /\ pc = "walk" /\ stack' = Rest
  BY DEF Post, Walking
<1>2. p \in Paths /\ p \in DOMAIN dirs
  BY <1>1, TopRest DEF Frame, StackInv
<1>3. d.bytes \in Nat /\ d.entries \in Nat
  BY <1>2 DEF TypeOK
<1>4. new \in [path : Paths, ino : Inodes, bytes : Nat, entries : Nat, kind : {"dir", "file"}]
  BY <1>2, <1>3, TreeTyped
<1>5. records' = records \cup {new} \/ records' = records
  BY DEF Post
<1>6. dirs' = [dirs EXCEPT ![Parent[p]] = sum]
  BY DEF Post
<1>7. Parent[p] \in DOMAIN dirs => sum \in [bytes : Nat, entries : Nat]
  <2> HIDE DEF d
  <2>1. Parent[p] \in DOMAIN dirs => dirs[Parent[p]] \in [bytes : Nat, entries : Nat]
    BY DEF TypeOK
  <2> QED
    BY <1>3, <2>1
<1>8. UNCHANGED <<fs, changes, touched, pc, at, counted, bytes, seen, sparse, skipped, result, visited>>
  BY DEF Post
<1> HIDE DEF d, new, sum
<1>9. DOMAIN dirs' = DOMAIN dirs /\ dirs' \in [DOMAIN dirs -> [bytes : Nat, entries : Nat]]
  BY <1>6, <1>7 DEF TypeOK
<1>10. stack' \in Seq(Frame) /\ StackInv'
  BY <1>1, <1>8, <1>9, PopTyped
<1>11. records \subseteq records'
       /\ records' \subseteq [path : Paths, ino : Inodes, bytes : Nat, entries : Nat, kind : {"dir", "file"}]
       /\ IsFiniteSet(records')
  BY <1>4, <1>5, RecordAdded
<1>12. result' \subseteq [record : records', inspected : BOOLEAN]
  BY <1>8, <1>11, ResultKept
<1> QED
  BY <1>8, <1>9, <1>10, <1>11, <1>12 DEF TypeOK

\* The first visit counts the entry.
LEMMA StatTyped ==
    ASSUME TypeOK, NEW kind, Stat(kind)
    PROVE  /\ pc = "walk" /\ stack # <<>> /\ ~Top.post /\ Top.path \in Present /\ fs.kind[Top.path] = kind
           /\ Top.path \in Paths /\ Top.depth \in Nat
           /\ counted' \in Nat /\ visited' \subseteq Paths /\ fs.ino[Top.path] \in Inodes
           /\ fs.size[fs.ino[Top.path]] \in Nat
<1>1. pc = "walk" /\ stack # <<>> /\ ~Top.post /\ Top.path \in Present /\ fs.kind[Top.path] = kind
  BY Zenon DEF Stat, Walking
<1>2. Top.path \in Paths /\ Top.depth \in Nat
  BY <1>1, TopRest DEF Frame
<1>3. counted' = counted + 1 /\ visited' = visited \cup {Top.path}
  BY DEF Stat
<1>4. counted \in Nat /\ visited \subseteq Paths
  BY DEF TypeOK
<1>5. fs.ino[Top.path] \in Inodes
  BY <1>2, TreeTyped
<1>6. fs.size[fs.ino[Top.path]] \in Nat
  BY <1>5, TreeTyped
<1> QED
  BY <1>1, <1>2, <1>3, <1>4, <1>5, <1>6

\* The top frame is replaced by another.
LEMMA AgainTyped ==
    ASSUME TypeOK, stack # <<>>, NEW again \in Frame
    PROVE  /\ Append(Rest, again) \in Seq(Frame) /\ DOMAIN Append(Rest, again) = 1..Len(stack)
           /\ Append(Rest, again)[Len(stack)] = again
           /\ \A k \in 1..(Len(stack) - 1) : Append(Rest, again)[k] = stack[k]
<1> DEFINE r == Rest
           n == Len(stack)
<1>1. r \in Seq(Frame) /\ Len(r) = n - 1 /\ n \in Nat \ {0} /\ \A k \in 1..(n - 1) : r[k] = stack[k]
  BY TopRest
<1> HIDE DEF r, n
<1>2. /\ Append(r, again) \in Seq(Frame) /\ Len(Append(r, again)) = Len(r) + 1
      /\ Append(r, again)[Len(r) + 1] = again /\ \A k \in 1..Len(r) : Append(r, again)[k] = r[k]
  BY <1>1, AppendProperties
<1>3. DOMAIN Append(r, again) = 1..n
  BY <1>1, <1>2, LenProperties
<1>4. Len(r) + 1 = n
  BY <1>1
<1>5. Append(r, again)[n] = again /\ \A k \in 1..(n - 1) : Append(r, again)[k] = stack[k]
  BY <1>1, <1>2, <1>4
<1> QED
  BY <1>2, <1>3, <1>5 DEF r, n

\* The first visit of a directory.
LEMMA StatDirectoryTyped ==
    ASSUME TypeOK, StackInv, StatDirectory
    PROVE  TypeOK' /\ StackInv'
<1> DEFINE p    == Top.path
           size == fs.size[fs.ino[p]]
           new  == [bytes |-> size, entries |-> 0]
           again == [Top EXCEPT !.post = TRUE]
<1>1. /\ pc = "walk" /\ stack # <<>> /\ p \in Paths /\ Top.depth \in Nat
      /\ counted' \in Nat /\ visited' \subseteq Paths /\ size \in Nat
  BY StatTyped DEF StatDirectory
<1>3. dirs' = [x \in DOMAIN dirs \cup {p} |-> IF x \in DOMAIN dirs THEN dirs[x] ELSE new]
  BY DEF StatDirectory
<1>4. /\ DOMAIN dirs' = DOMAIN dirs \cup {p} /\ DOMAIN dirs' \subseteq Paths
      /\ dirs' \in [DOMAIN dirs' -> [bytes : Nat, entries : Nat]]
  <2>1. new \in [bytes : Nat, entries : Nat]
    BY <1>1
  <2> HIDE DEF new
  <2> QED
    BY <1>1, <1>3, <2>1 DEF TypeOK
<1>5. pc' \in {"walk", "enumerate"} /\ at' \in [path : Paths, depth : Nat]
  BY <1>1 DEF StatDirectory, TypeOK
<1>6. again \in Frame /\ again.post /\ again.path = p
  BY <1>1, TopRest DEF Frame
<1>7. stack' \in Seq(Frame) /\ StackInv'
  <2>1. CASE p = root
    <3>1. stack' = Rest
      BY <2>1 DEF StatDirectory
    <3> QED
      BY <1>1, <1>4, <1>5, <3>1, PopTyped
  <2>2. CASE p # root
    <3>1. stack' = Append(Rest, again)
      BY <2>2 DEF StatDirectory
    <3> HIDE DEF again
    <3>2. /\ stack' \in Seq(Frame) /\ DOMAIN stack' = 1..Len(stack) /\ stack'[Len(stack)] = again
          /\ \A k \in 1..(Len(stack) - 1) : stack'[k] = stack[k]
      BY <1>1, <1>6, <3>1, AgainTyped
    <3>3. \A k \in DOMAIN stack' : stack'[k].post => stack'[k].path \in DOMAIN dirs' \ {root}
      <4> TAKE k \in DOMAIN stack'
      <4>1. CASE k = Len(stack)
        BY <1>4, <1>6, <2>2, <3>2, <4>1
      <4>2. CASE k # Len(stack)
        <5>1. k \in 1..(Len(stack) - 1) /\ k \in DOMAIN stack
          BY <1>1, <3>2, <4>2, TopRest
        <5> QED
          BY <1>4, <3>2, <5>1 DEF StackInv
      <4> QED
        BY <4>1, <4>2
    <3> QED
      BY <1>5, <3>2, <3>3 DEF StackInv
  <2> QED
    BY <2>1, <2>2
<1>8. bytes' \in Nat
  <2>1. bytes' = bytes + size
    BY DEF StatDirectory
  <2>2. bytes \in Nat
    BY DEF TypeOK
  <2> HIDE DEF size
  <2> QED
    BY <1>1, <2>1, <2>2
<1>9. UNCHANGED <<fs, changes, touched, seen, records, sparse, result>>
  BY DEF StatDirectory
<1> HIDE DEF p, size, new, again
<1> QED
  BY <1>1, <1>4, <1>5, <1>7, <1>8, <1>9 DEF TypeOK

\* What a listing does: each entry it takes is queued once, and it takes all
\* of them unless something is recorded as skipped.
Listing(S, n, order) ==
    /\ S \subseteq Paths
    /\ n = 0 \/ n <= Room
    /\ \A p \in S : \E i \in 1..n : order[i] = p
    /\ \A i, j \in 1..n : order[i] = order[j] => i = j
    /\ S = Entries(at.path) \/ skipped' # {}
    /\ Len(stack) \in Nat /\ DOMAIN stack = 1..Len(stack)
    /\ stack' \in Seq(Frame) /\ DOMAIN stack' = 1..(Len(stack) + n)
    /\ \A k \in 1..Len(stack) : stack'[k] = stack[k]
    /\ \A i \in 1..n : stack'[Len(stack) + i] = [path |-> order[i], depth |-> at.depth + 1, post |-> FALSE]

LEMMA ListingStep ==
    ASSUME TypeOK, Enumerate, at.path \in Present, fs.kind[at.path] = "dir"
    PROVE  \E S \in SUBSET Entries(at.path) : \E n \in Nat : \E order \in [1..n -> S] : Listing(S, n, order)
<1> DEFINE all   == Entries(at.path)
           taken == Max({0, Min({Room, Cardinality(all)})})
           frames(order) == [i \in 1..taken |-> [path |-> order[i], depth |-> at.depth + 1, post |-> FALSE]]
<1>1. PICK S \in kSubset(taken, all) : \E order \in SetToSeqs(S) :
         /\ stack' = stack \o frames(order)
         /\ IF S = all THEN UNCHANGED skipped ELSE Skip(at.path, "entry_queue_budget_exhausted")
  BY DEF Enumerate
<1>2. PICK order \in SetToSeqs(S) :
         /\ stack' = stack \o frames(order)
         /\ IF S = all THEN UNCHANGED skipped ELSE Skip(at.path, "entry_queue_budget_exhausted")
  BY <1>1
<1>3. S \in SUBSET all /\ taken = Cardinality(S)
  BY <1>1 DEF kSubset
<1> HIDE DEF taken
<1>4. IsFiniteSet(S) /\ taken \in Nat /\ order \in [1..taken -> S] /\ S \subseteq Paths
      /\ frames(order) \in Seq(Frame)
  BY <1>2, <1>3, ListingTyped
<1>5. S = all \/ skipped' # {}
  BY <1>2 DEF Skip
<1>6. \A p \in S : \E i \in 1..taken : order[i] = p
  <2>1. \A i, j \in 1..taken : i # j => order[i] # order[j]
    BY <1>3 DEF SetToSeqs
  <2>2. order \in Injection(1..taken, S)
    BY <1>4, <2>1 DEF Injection, IsInjective
  <2>3. IsFiniteSet(1..taken) /\ Cardinality(1..taken) = taken
    BY <1>4, FS_Interval
  <2>4. order \in Surjection(1..taken, S)
    BY <1>3, <1>4, <2>2, <2>3, FS_Injection
  <2> QED
    BY <2>4 DEF Surjection
<1>16. \A i, j \in 1..taken : order[i] = order[j] => i = j
  BY <1>3 DEF SetToSeqs
<1>7. taken = 0 \/ taken <= Room
  <2>1. Len(stack) \in Nat /\ counted \in Nat /\ caps.entries \in Nat
    BY TreeTyped, LenProperties DEF TypeOK
  <2>2. Room \in Int
    BY <2>1 DEF Room
  <2>3. Cardinality(all) \in Nat
    BY PresentPaths, FS_Subset, FS_CardinalityType DEF Entries
  <2> QED
    BY <2>2, <2>3, Fitting DEF taken
<1>8. stack \in Seq(Frame) /\ Len(stack) \in Nat /\ DOMAIN stack = 1..Len(stack)
  BY LenProperties DEF TypeOK
<1> DEFINE new == frames(order)
<1>9. new \in Seq(Frame) /\ Len(new) = taken
      /\ \A i \in 1..taken : new[i] = [path |-> order[i], depth |-> at.depth + 1, post |-> FALSE]
  <2>1. new \in Seq(Frame) /\ DOMAIN new = 1..taken
    BY <1>4
  <2>2. Len(new) = taken
    <3> HIDE DEF new
    <3> QED
      BY <1>4, <2>1
  <2> QED
    BY <2>1, <2>2
<1>10. stack' = stack \o new
  BY <1>2
<1> HIDE DEF new, all
<1>11. /\ stack' \in Seq(Frame) /\ Len(stack') = Len(stack) + taken
       /\ \A i \in 1..(Len(stack) + taken) :
             stack'[i] = IF i <= Len(stack) THEN stack[i] ELSE new[i - Len(stack)]
  BY <1>8, <1>9, <1>10, ConcatProperties
<1>12. DOMAIN stack' = 1..(Len(stack) + taken)
  BY <1>11, LenProperties
<1>13. \A k \in 1..Len(stack) : stack'[k] = stack[k]
  BY <1>4, <1>8, <1>11
<1>14. \A i \in 1..taken : stack'[Len(stack) + i] = new[i]
  BY <1>4, <1>8, <1>11
<1>15. \A i \in 1..taken : stack'[Len(stack) + i] = [path |-> order[i], depth |-> at.depth + 1, post |-> FALSE]
  BY <1>9, <1>14
<1>17. Listing(S, taken, order)
  BY <1>3, <1>4, <1>5, <1>6, <1>7, <1>8, <1>11, <1>12, <1>13, <1>15, <1>16 DEF all, Listing
<1> QED
  BY <1>3, <1>4, <1>17, Zenon DEF all

\* A listing.
LEMMA EnumerateTyped ==
    ASSUME TypeOK, StackInv, Enumerate
    PROVE  TypeOK' /\ StackInv'
<1>1. UNCHANGED <<fs, changes, touched, at, dirs, counted, bytes, seen, records, sparse, result, visited>>
      /\ pc = "enumerate" /\ pc' = "walk"
  BY DEF Enumerate
<1>2. stack' \in Seq(Frame)
      /\ \A k \in DOMAIN stack' : stack'[k].post => k \in DOMAIN stack /\ stack'[k] = stack[k]
  <2>1. CASE at.path \in Present /\ fs.kind[at.path] = "dir"
    <3>1. PICK S \in SUBSET Entries(at.path) : \E n \in Nat : \E order \in [1..n -> S] : Listing(S, n, order)
      BY <2>1, ListingStep
    <3>2. PICK n \in Nat : \E order \in [1..n -> S] : Listing(S, n, order)
      BY <3>1
    <3>6. PICK order \in [1..n -> S] : Listing(S, n, order)
      BY <3>2
    <3>3. /\ Len(stack) \in Nat /\ DOMAIN stack = 1..Len(stack)
          /\ stack' \in Seq(Frame) /\ DOMAIN stack' = 1..(Len(stack) + n)
          /\ \A k \in 1..Len(stack) : stack'[k] = stack[k]
          /\ \A i \in 1..n : stack'[Len(stack) + i] =
                               [path |-> order[i], depth |-> at.depth + 1, post |-> FALSE]
      BY <3>6 DEF Listing
    <3>4. \A i \in 1..n : ~stack'[Len(stack) + i].post
      <4> TAKE i \in 1..n
      <4> DEFINE f == stack'[Len(stack) + i]
      <4>1. f = [path |-> order[i], depth |-> at.depth + 1, post |-> FALSE]
        BY <3>3
      <4> HIDE DEF f
      <4>2. ~f.post
        BY <4>1
      <4> QED
        BY <4>2 DEF f
    <3>5. \A k \in DOMAIN stack' : k \notin 1..Len(stack) => k - Len(stack) \in 1..n
                                      /\ k = Len(stack) + (k - Len(stack))
      BY <3>3
    <3> QED
      BY <3>3, <3>4, <3>5
  <2>2. CASE ~(at.path \in Present /\ fs.kind[at.path] = "dir")
    <3>1. stack' = stack
      BY <2>2 DEF Enumerate
    <3> QED
      BY <3>1 DEF TypeOK
  <2> QED
    BY <2>1, <2>2
<1>3. StackInv'
  BY <1>1, <1>2 DEF StackInv
<1> QED
  BY <1>1, <1>2, <1>3 DEF TypeOK

\* The first visit of a file.
LEMMA StatFileTyped ==
    ASSUME TypeOK, StackInv, StatFile
    PROVE  TypeOK' /\ StackInv'
<1> DEFINE p     == Top.path
           i     == fs.ino[p]
           size  == fs.size[i]
           first == i \notin seen
           new == [path |-> p, ino |-> i, bytes |-> size, entries |-> 1, kind |-> "file"]
           sum == [bytes |-> IF first THEN dirs[Parent[p]].bytes + size ELSE dirs[Parent[p]].bytes,
                   entries |-> dirs[Parent[p]].entries + 1]
<1>1. /\ pc = "walk" /\ stack # <<>> /\ p \in Paths /\ i \in Inodes /\ size \in Nat
      /\ counted' \in Nat /\ visited' \subseteq Paths
  BY StatTyped DEF StatFile
<1>2. stack' = Rest /\ UNCHANGED <<fs, changes, touched, pc, at, skipped, result>>
  BY DEF StatFile
<1>3. new \in [path : Paths, ino : Inodes, bytes : Nat, entries : Nat, kind : {"dir", "file"}]
  BY <1>1
<1>4. records' = records \cup {new} \/ records' = records
  BY DEF StatFile
<1>5. dirs' = [dirs EXCEPT ![Parent[p]] = sum]
  BY DEF StatFile
<1>6. Parent[p] \in DOMAIN dirs => sum \in [bytes : Nat, entries : Nat]
  <2> HIDE DEF size, first
  <2>1. Parent[p] \in DOMAIN dirs => dirs[Parent[p]] \in [bytes : Nat, entries : Nat]
    BY DEF TypeOK
  <2> QED
    BY <1>1, <2>1
<1>7. seen' = seen \cup {i} /\ (bytes' = bytes + size \/ bytes' = bytes)
      /\ (sparse' = sparse \cup {i} \/ sparse' = sparse)
  BY DEF StatFile
<1> HIDE DEF p, i, size, first, new, sum
<1>8. DOMAIN dirs' = DOMAIN dirs /\ dirs' \in [DOMAIN dirs -> [bytes : Nat, entries : Nat]]
  BY <1>5, <1>6 DEF TypeOK
<1>9. stack' \in Seq(Frame) /\ StackInv'
  BY <1>1, <1>2, <1>8, PopTyped
<1>10. records \subseteq records'
       /\ records' \subseteq [path : Paths, ino : Inodes, bytes : Nat, entries : Nat, kind : {"dir", "file"}]
       /\ IsFiniteSet(records')
  BY <1>3, <1>4, RecordAdded
<1>11. result' \subseteq [record : records', inspected : BOOLEAN]
  BY <1>2, <1>10, ResultKept
<1>12. seen' \subseteq Inodes /\ sparse' \subseteq Inodes /\ bytes' \in Nat
  BY <1>1, <1>7 DEF TypeOK
<1> QED
  BY <1>1, <1>2, <1>8, <1>9, <1>10, <1>11, <1>12 DEF TypeOK

\* The first visit of a link, and of what is gone.
LEMMA StatOtherTyped ==
    ASSUME TypeOK, StackInv, StatLink \/ StatFails
    PROVE  TypeOK' /\ StackInv'
<1>1. pc = "walk" /\ stack # <<>> /\ stack' = Rest
      /\ UNCHANGED <<fs, changes, touched, pc, at, dirs, seen, records, sparse, result>>
  BY DEF StatLink, StatFails, Stat, Walking
<1>2. stack' \in Seq(Frame) /\ StackInv'
  BY <1>1, PopTyped
<1>3. counted' \in Nat /\ visited' \subseteq Paths /\ bytes' \in Nat
  <2>1. CASE StatLink
    <3>1. counted' \in Nat /\ visited' \subseteq Paths /\ fs.size[fs.ino[Top.path]] \in Nat
      BY <2>1, StatTyped DEF StatLink
    <3> QED
      BY <2>1, <3>1 DEF StatLink, TypeOK
  <2>2. CASE StatFails
    BY <2>2 DEF StatFails, TypeOK
  <2> QED
    BY <2>1, <2>2
<1> QED
  BY <1>1, <1>2, <1>3 DEF TypeOK

\* The end of the walk, and the ranking.
LEMMA EndTyped ==
    ASSUME TypeOK, StackInv, WalkDone \/ Rank
    PROVE  TypeOK' /\ StackInv'
<1>1. UNCHANGED <<fs, changes, touched, stack, at, dirs, counted, bytes, seen, records, sparse, visited>>
      /\ pc' \in {"rank", "done"} /\ stack = <<>>
  BY DEF WalkDone, Rank, StackInv
<1>2. result' \subseteq [record : records', inspected : BOOLEAN]
  <2>1. CASE WalkDone
    BY <1>1, <2>1, ResultKept DEF WalkDone
  <2>2. CASE Rank
    <3>1. result' = {[record |-> r, inspected |-> Place(r) < caps.inspect] :
                        r \in {s \in records : Place(s) < caps.candidates}}
      BY <2>2 DEF Rank
    <3>2. SUFFICES ASSUME NEW c \in result' PROVE c \in [record : records, inspected : BOOLEAN]
      BY <1>1
    <3>3. PICK r \in records : c = [record |-> r, inspected |-> Place(r) < caps.inspect]
      BY <3>1
    <3>4. (Place(r) < caps.inspect) \in BOOLEAN
      <4> DEFINE m == Place(r)
                 n == caps.inspect
      <4>1. m \in Nat
        BY FS_Subset, FS_CardinalityType DEF Place, TypeOK
      <4>2. n \in Nat
        BY DEF caps, TypeOK, Tree, Caps
      <4> HIDE DEF m, n
      <4>3. (m < n) \in BOOLEAN
        BY <4>1, <4>2
      <4> QED
        BY <4>3 DEF m, n
    <3> QED
      BY <3>3, <3>4, Zenon
  <2> QED
    BY <2>1, <2>2
<1>3. StackInv'
  BY <1>1 DEF StackInv
<1> QED
  BY <1>1, <1>2, <1>3 DEF TypeOK

\* What exists is present: it lies in a directory, which exists.
LEMMA ExistsPresent ==
    ASSUME TreeInv
    PROVE  \A p \in Paths : Exists(p) => p \in Present
<1> DEFINE B == {p \in Paths : Exists(p) /\ p \notin Present}
<1>1. \A p \in B : p # root
  BY AboveStep DEF Present
<1>2. \A p \in B : Parent[p] \in B
  <2> TAKE p \in B
  <2>1. p # root /\ Parent[p] \in Paths /\ Above[p] = {p} \cup Above[Parent[p]]
    BY <1>1, AboveStep, ScanAssumption
  <2>2. Exists(Parent[p])
    BY <2>1 DEF TreeInv, Exists
  <2>3. Parent[p] \notin Present
    BY <2>1 DEF Present
  <2> QED
    BY <2>1, <2>2, <2>3
<1>3. B \in SUBSET (Paths \ {root})
  BY <1>1
<1>4. B = {}
  <2> HIDE DEF B
  <2> QED
    BY <1>2, <1>3, NoDescent
<1> QED
  BY <1>4

\* What a move takes away: everything at and below a path.
Gone(p) == {q \in Paths : p \in Above[q]}

\* A move leaves a tree.
LEMMA MoveAwayStep ==
    ASSUME TypeOK, TreeInv, NEW p \in Paths, MoveAway(p)
    PROVE  /\ fs' \in Tree /\ TreeInv' /\ UNCHANGED scanVars /\ caps' = caps /\ p # root
           /\ fs'.kind = [q \in Paths |-> IF q \in Gone(p) THEN "absent" ELSE fs.kind[q]]
           /\ fs'.ino = fs.ino /\ fs'.size = fs.size /\ fs'.table = fs.table
           /\ changes' \in 0..MaxChanges /\ touched' \subseteq Paths \cup Inodes
           /\ touched' = touched \cup Gone(p) \cup {fs.ino[q] : q \in Gone(p) \cap Present}
<1>1. /\ fs' = [fs EXCEPT !.kind = [q \in Paths |-> IF q \in Gone(p) THEN "absent" ELSE fs.kind[q]]]
      /\ touched' = touched \cup Gone(p) \cup {fs.ino[q] : q \in Gone(p) \cap Present}
      /\ p \in Present \ {root} /\ changes' = changes + 1 /\ changes < MaxChanges /\ UNCHANGED scanVars
  BY DEF MoveAway, Change, Gone
<1> DEFINE kind == [q \in Paths |-> IF q \in Gone(p) THEN "absent" ELSE fs.kind[q]]
<1>2. kind \in [Paths -> Kinds]
  BY TreeTyped DEF Kinds
<1>3. fs' = [fs EXCEPT !.kind = kind]
  BY <1>1
<1>4. \A q \in Paths : kind[q] = IF q \in Gone(p) THEN "absent" ELSE fs.kind[q]
  OBVIOUS
<1>5. Gone(p) \subseteq Paths
  BY DEF Gone
<1> HIDE DEF kind
<1>6. fs \in Tree
  BY DEF TypeOK
<1>7. fs' \in Tree /\ fs'.kind = kind /\ fs'.ino = fs.ino /\ fs'.size = fs.size /\ fs'.table = fs.table
      /\ fs'.caps = fs.caps
  BY <1>2, <1>3, <1>6 DEF Tree
<1>8. root \notin Gone(p)
  BY <1>1, AboveStep, ScanAssumption DEF Gone
<1>9. \A q \in Paths \ {root} : q \notin Gone(p) => Parent[q] \in Paths /\ Parent[q] \notin Gone(p)
  BY AboveStep, ScanAssumption DEF Gone
<1>10. TreeInv'
  <2>1. fs'.kind[root] = "dir"
    BY <1>4, <1>7, <1>8, ScanAssumption DEF TreeInv
  <2>2. \A q \in Paths \ {root} : kind[q] # "absent" => kind[Parent[q]] = "dir"
    <3> TAKE q \in Paths \ {root}
    <3> HAVE kind[q] # "absent"
    <3>1. q \notin Gone(p) /\ fs.kind[q] # "absent"
      BY <1>4
    <3>2. fs.kind[Parent[q]] = "dir"
      BY <3>1 DEF TreeInv, Exists
    <3> QED
      BY <1>4, <1>9, <3>1, <3>2
  <2>3. \A q, r \in Paths : kind[q] = "dir" /\ kind[r] # "absent" /\ fs.ino[q] = fs.ino[r] => q = r
    BY <1>4 DEF TreeInv, Exists
  <2> QED
    BY <1>7, <2>1, <2>2, <2>3 DEF TreeInv, Exists
<1>11. changes' \in 0..MaxChanges
  BY <1>1, ScanAssumption DEF TypeOK
<1>12. touched' \subseteq Paths \cup Inodes
  <2>1. {fs.ino[q] : q \in Gone(p) \cap Present} \subseteq Inodes
    BY <1>5, TreeTyped
  <2> QED
    BY <1>1, <1>5, <2>1 DEF TypeOK
<1> QED
  BY <1>1, <1>7, <1>10, <1>11, <1>12 DEF caps, kind

\* A new entry leaves a tree.
LEMMA AppearStep ==
    ASSUME TypeOK, TreeInv, NEW p \in Paths, NEW kind \in {"file", "dir"}, NEW i \in Inodes,
           Appear(p, kind, i)
    PROVE  /\ fs' \in Tree /\ TreeInv' /\ UNCHANGED scanVars /\ caps' = caps /\ p # root /\ p \notin Present
           /\ \A q \in Paths \ {p} : fs'.kind[q] = fs.kind[q] /\ fs'.ino[q] = fs.ino[q]
           /\ fs'.size = fs.size /\ fs'.table = fs.table
           /\ changes' \in 0..MaxChanges /\ touched' \subseteq Paths \cup Inodes
           /\ touched' = touched \cup {p, i}
<1>1. /\ fs' = [fs EXCEPT !.kind[p] = kind, !.ino[p] = i] /\ touched' = touched \cup {p, i}
      /\ p # root /\ p \notin Present /\ Parent[p] \in Present /\ fs.kind[Parent[p]] = "dir"
      /\ changes' = changes + 1 /\ changes < MaxChanges /\ UNCHANGED scanVars
      /\ kind = "dir" => \A q \in Present : fs.ino[q] # i
      /\ \A q \in Present : fs.ino[q] = i => fs.kind[q] = "file"
  BY DEF Appear, Change
<1>2. fs \in Tree
  BY DEF TypeOK
<1>3. /\ fs'.kind = [fs.kind EXCEPT ![p] = kind] /\ fs'.ino = [fs.ino EXCEPT ![p] = i]
      /\ fs'.size = fs.size /\ fs'.table = fs.table /\ fs'.caps = fs.caps
  BY <1>1, <1>2 DEF Tree
<1>4. fs'.kind \in [Paths -> Kinds] /\ fs'.ino \in [Paths -> Inodes]
  BY <1>3, TreeTyped DEF Kinds
<1>5. fs' = [fs EXCEPT !.kind = fs'.kind, !.ino = fs'.ino]
  BY <1>1, <1>2, <1>3 DEF Tree
<1> DEFINE k == fs'.kind
           o == fs'.ino
<1>6. fs' \in Tree
  <2>1. k \in [Paths -> Kinds] /\ o \in [Paths -> Inodes] /\ fs' = [fs EXCEPT !.kind = k, !.ino = o]
    BY <1>4, <1>5
  <2> HIDE DEF k, o
  <2> QED
    BY <1>2, <2>1 DEF Tree
<1>7. TreeInv'
  <2>1. fs'.kind[root] = "dir"
    BY <1>1, <1>3, TreeTyped DEF TreeInv
  <2>2. \A q \in Paths \ {root} : fs'.kind[q] # "absent" => fs'.kind[Parent[q]] = "dir"
    <3> TAKE q \in Paths \ {root}
    <3> HAVE fs'.kind[q] # "absent"
    <3>1. Parent[q] \in Paths
      BY ScanAssumption
    <3>2. CASE q = p
      <4>1. Parent[p] # p
        BY <1>1
      <4> QED
        BY <1>1, <1>3, <3>1, <3>2, <4>1, TreeTyped
    <3>3. CASE q # p
      <4>1. Exists(q)
        BY <1>3, <3>3, TreeTyped DEF Exists
      <4>2. Parent[q] \in Present /\ fs.kind[Parent[q]] = "dir"
        BY <3>1, <4>1, ExistsPresent DEF TreeInv, Exists
      <4>3. Parent[q] # p
        BY <1>1, <4>2
      <4> QED
        BY <1>3, <3>1, <4>2, <4>3, TreeTyped
    <3> QED
      BY <3>2, <3>3
  <2>3. ASSUME NEW q \in Paths, NEW r \in Paths, fs'.kind[q] = "dir", fs'.kind[r] # "absent",
               fs'.ino[q] = fs'.ino[r]
        PROVE  q = r
    <3>1. ASSUME NEW x \in Paths \ {p}, fs'.kind[x] # "absent"
          PROVE  x \in Present /\ fs'.kind[x] = fs.kind[x] /\ fs'.ino[x] = fs.ino[x] /\ Exists(x)
      BY <1>3, <3>1, ExistsPresent, TreeTyped DEF Exists
    <3>2. fs'.kind[p] = kind /\ fs'.ino[p] = i
      BY <1>3, TreeTyped
    <3>3. CASE q = p
      BY <1>1, <2>3, <3>1, <3>2, <3>3
    <3>4. CASE q # p /\ r = p
      BY <1>1, <2>3, <3>1, <3>2, <3>4
    <3>5. CASE q # p /\ r # p
      BY <2>3, <3>1, <3>5 DEF TreeInv
    <3> QED
      BY <3>3, <3>4, <3>5
  <2> QED
    BY <2>1, <2>2, <2>3 DEF TreeInv, Exists
<1>8. changes' \in 0..MaxChanges
  BY <1>1, ScanAssumption DEF TypeOK
<1>9. touched' \subseteq Paths \cup Inodes
  BY <1>1 DEF TypeOK
<1>10. \A q \in Paths \ {p} : fs'.kind[q] = fs.kind[q] /\ fs'.ino[q] = fs.ino[q]
  BY <1>3, TreeTyped
<1> QED
  BY <1>1, <1>3, <1>6, <1>7, <1>8, <1>9, <1>10 DEF caps

\* A file that grows leaves the tree as it is.
LEMMA GrowStep ==
    ASSUME TypeOK, TreeInv, NEW i \in Inodes, Grow(i)
    PROVE  /\ fs' \in Tree /\ TreeInv' /\ UNCHANGED scanVars /\ caps' = caps
           /\ fs'.kind = fs.kind /\ fs'.ino = fs.ino /\ fs'.table = fs.table
           /\ fs'.size = [fs.size EXCEPT ![i] = @ + 1]
           /\ changes' \in 0..MaxChanges /\ touched' \subseteq Paths \cup Inodes
           /\ touched' = touched \cup {i}
<1>1. /\ fs' = [fs EXCEPT !.size[i] = @ + 1] /\ touched' = touched \cup {i} /\ fs.size[i] < MaxBytes
      /\ changes' = changes + 1 /\ changes < MaxChanges /\ UNCHANGED scanVars
  BY DEF Grow, Change
<1>2. fs \in Tree
  BY DEF TypeOK
<1>3. /\ fs'.kind = fs.kind /\ fs'.ino = fs.ino /\ fs'.table = fs.table /\ fs'.caps = fs.caps
      /\ fs'.size = [fs.size EXCEPT ![i] = @ + 1]
  BY <1>1, <1>2 DEF Tree
<1>4. fs'.size \in [Inodes -> 0..MaxBytes]
  <2>1. fs.size[i] + 1 \in 0..MaxBytes
    BY <1>1, TreeTyped, ScanAssumption
  <2> QED
    BY <1>3, <2>1, TreeTyped
<1> DEFINE s == fs'.size
<1>5. fs' = [fs EXCEPT !.size = s] /\ s \in [Inodes -> 0..MaxBytes]
  BY <1>1, <1>2, <1>3, <1>4 DEF Tree
<1>6. fs' \in Tree
  <2> HIDE DEF s
  <2> QED
    BY <1>2, <1>5 DEF Tree
<1>7. TreeInv'
  BY <1>3 DEF TreeInv, Exists
<1>8. changes' \in 0..MaxChanges
  BY <1>1, ScanAssumption DEF TypeOK
<1>9. touched' \subseteq Paths \cup Inodes
  BY <1>1 DEF TypeOK
<1> QED
  BY <1>1, <1>3, <1>6, <1>7, <1>8, <1>9 DEF caps

\* A step of another program.
LEMMA OtherTyped ==
    ASSUME TypeOK, StackInv, TreeInv, OtherPrograms
    PROVE  TypeOK' /\ StackInv' /\ TreeInv'
<1>1. /\ fs' \in Tree /\ TreeInv' /\ UNCHANGED scanVars
      /\ changes' \in 0..MaxChanges /\ touched' \subseteq Paths \cup Inodes
  BY MoveAwayStep, AppearStep, GrowStep DEF OtherPrograms
<1>2. StackInv'
  BY <1>1 DEF StackInv, scanVars
<1> QED
  BY <1>1, <1>2 DEF TypeOK, scanVars

\* Every step keeps the types.
LEMMA StepTyped ==
    ASSUME TypeOK, StackInv, TreeInv, [Next]_vars
    PROVE  TypeOK' /\ StackInv' /\ TreeInv'
<1>1. CASE Scan
  <2>1. TypeOK' /\ StackInv'
    BY <1>1, PostTyped, StatDirectoryTyped, EnumerateTyped, StatFileTyped, StatOtherTyped, EndTyped DEF Scan
  <2>2. fs' = fs
    BY <1>1 DEF Scan, Post, StatFails, StatDirectory, Enumerate, StatFile, StatLink, WalkDone, Rank
  <2> QED
    BY <2>1, <2>2 DEF TreeInv, Exists
<1>2. CASE OtherPrograms
  BY <1>2, OtherTyped
<1>3. CASE UNCHANGED vars
  BY <1>3 DEF TypeOK, StackInv, TreeInv, Exists, vars, scanVars
<1> QED
  BY <1>1, <1>2, <1>3 DEF Next

\* Every state of the scan is well typed: the stack holds entries of the tree,
\* the sums are natural numbers, what is recorded has a path and an inode
\* (scan of inventory.py).
THEOREM TypeCorrect == Spec => []TypeOK
<1>1. Init => TypeOK /\ StackInv /\ TreeInv
  BY InitTyped
<1>2. TypeOK /\ StackInv /\ TreeInv /\ [Next]_vars => (TypeOK /\ StackInv /\ TreeInv)'
  BY StepTyped
<1> QED
  BY <1>1, <1>2, PTL DEF Spec

-----------------------------------------------------------------------------
(* The budget of entries.                                                  *)

Typed   == TypeOK /\ StackInv /\ TreeInv
Pending == {i \in DOMAIN stack : ~stack[i].post}

\* The entries that wait to be counted are finitely many.
LEMMA PendingFinite ==
    ASSUME TypeOK
    PROVE  IsFiniteSet(Pending) /\ Cardinality(Pending) \in Nat /\ Pending \subseteq 1..Len(stack)
           /\ Len(stack) \in Nat /\ DOMAIN stack = 1..Len(stack)
<1>1. Len(stack) \in Nat /\ DOMAIN stack = 1..Len(stack)
  BY LenProperties DEF TypeOK
<1>2. IsFiniteSet(1..Len(stack))
  BY <1>1, FS_Interval
<1>3. Pending \subseteq 1..Len(stack)
  BY <1>1 DEF Pending
<1>4. IsFiniteSet(Pending)
  BY <1>2, <1>3, FS_Subset
<1> QED
  BY <1>1, <1>3, <1>4, FS_CardinalityType

\* An entry that is looked at no longer waits.
LEMMA LessPending ==
    ASSUME TypeOK, stack # <<>>, ~Top.post,
           \A k \in DOMAIN stack' : ~stack'[k].post => k \in 1..(Len(stack) - 1) /\ stack'[k] = stack[k]
    PROVE  Cardinality(Pending') \in Nat /\ Cardinality(Pending') <= Cardinality(Pending) - 1
<1> DEFINE l == Len(stack)
           P == Pending
           Q == P \ {l}
<1>1. IsFiniteSet(P) /\ Cardinality(P) \in Nat /\ l \in P /\ l \in Nat
  BY PendingFinite, TopRest DEF Pending
<1>2. Pending' \subseteq Q
  <2>1. \A k \in Pending' : k \in 1..(l - 1) /\ stack'[k] = stack[k] /\ ~stack'[k].post
    BY DEF Pending
  <2>2. \A k \in Pending' : k \in DOMAIN stack /\ k # l
    BY <1>1, <2>1, TopRest
  <2> QED
    BY <2>1, <2>2 DEF Pending
<1> HIDE DEF P
<1>3. IsFiniteSet(Q) /\ Cardinality(Q) = Cardinality(P) - 1
  BY <1>1, FS_RemoveElement
<1> HIDE DEF Q
<1>4. IsFiniteSet(Pending') /\ Cardinality(Pending') <= Cardinality(Q)
  BY <1>2, <1>3, FS_Subset
<1>5. Cardinality(Pending') \in Nat
  BY <1>4, FS_CardinalityType
<1> QED
  BY <1>1, <1>3, <1>4, <1>5 DEF P

\* Nothing is added to what waits.
LEMMA NotMorePending ==
    ASSUME TypeOK, \A k \in DOMAIN stack' : ~stack'[k].post => k \in DOMAIN stack /\ stack'[k] = stack[k]
    PROVE  Cardinality(Pending') \in Nat /\ Cardinality(Pending') <= Cardinality(Pending)
<1>1. Pending' \subseteq Pending
  BY DEF Pending
<1>2. IsFiniteSet(Pending') /\ Cardinality(Pending') <= Cardinality(Pending)
  BY <1>1, PendingFinite, FS_Subset
<1> QED
  BY <1>2, FS_CardinalityType

\* A listing queues no more than there is room for.
LEMMA EnumeratePending ==
    ASSUME TypeOK, Enumerate, WithinBudget
    PROVE  counted + Cardinality(Pending') <= caps.entries
<1>1. counted \in Nat /\ caps.entries \in Nat /\ counted + Cardinality(Pending) <= caps.entries
  BY TreeTyped DEF TypeOK, WithinBudget, Pending
<1>2. CASE at.path \in Present /\ fs.kind[at.path] = "dir"
  <2>1. PICK n \in Nat : \E S, order : Listing(S, n, order)
    BY <1>2, ListingStep
  <2>2. /\ n = 0 \/ n <= Room
        /\ Len(stack) \in Nat /\ DOMAIN stack = 1..Len(stack)
        /\ DOMAIN stack' = 1..(Len(stack) + n)
        /\ \A k \in 1..Len(stack) : stack'[k] = stack[k]
    BY <2>1 DEF Listing
  <2>3. CASE n = 0
    <3>1. \A k \in DOMAIN stack' : k \in DOMAIN stack /\ stack'[k] = stack[k]
      BY <2>2, <2>3
    <3>2. Cardinality(Pending') \in Nat /\ Cardinality(Pending') <= Cardinality(Pending)
      BY <3>1, NotMorePending
    <3> QED
      BY <1>1, <3>2, PendingFinite
  <2>4. CASE n # 0
    <3> DEFINE m == Len(stack) + n
    <3>1. m \in Nat /\ Pending' \subseteq 1..m /\ counted + m <= caps.entries
      <4>1. n <= caps.entries - counted - Len(stack)
        BY <2>2, <2>4 DEF Room
      <4>2. Pending' \subseteq 1..m
        BY <2>2 DEF Pending
      <4> QED
        BY <1>1, <2>2, <4>1, <4>2
    <3> HIDE DEF m
    <3>2. IsFiniteSet(1..m) /\ Cardinality(1..m) = m
      BY <3>1, FS_Interval
    <3>3. IsFiniteSet(Pending') /\ Cardinality(Pending') <= m
      BY <3>1, <3>2, FS_Subset
    <3>4. Cardinality(Pending') \in Nat
      BY <3>3, FS_CardinalityType
    <3> QED
      BY <1>1, <3>1, <3>3, <3>4
  <2> QED
    BY <2>3, <2>4
<1>3. CASE ~(at.path \in Present /\ fs.kind[at.path] = "dir")
  <2>1. stack' = stack
    BY <1>3 DEF Enumerate
  <2>2. Pending' = Pending
    BY <2>1 DEF Pending
  <2> QED
    BY <1>1, <2>2
<1> QED
  BY <1>2, <1>3

\* A step that only takes off the top frame, and what it leaves of the rest.
LEMMA RestFrames ==
    ASSUME TypeOK, stack # <<>>, stack' = Rest
    PROVE  \A k \in DOMAIN stack' : k \in 1..(Len(stack) - 1) /\ stack'[k] = stack[k] /\ k \in DOMAIN stack
<1>1. Len(stack) \in Nat \ {0} /\ DOMAIN stack = 1..Len(stack) /\ DOMAIN Rest = 1..(Len(stack) - 1)
      /\ \A k \in 1..(Len(stack) - 1) : Rest[k] = stack[k]
  BY TopRest
<1> QED
  BY <1>1

\* The stack after the first visit of an entry.
LEMMA StatFrames ==
    ASSUME TypeOK, StatDirectory \/ StatFile \/ StatLink
    PROVE  /\ stack # <<>> /\ ~Top.post /\ pc = "walk"
           /\ \A k \in DOMAIN stack' : ~stack'[k].post => k \in 1..(Len(stack) - 1) /\ stack'[k] = stack[k]
           /\ \A k \in 1..(Len(stack) - 1) : k \in DOMAIN stack' /\ stack'[k] = stack[k]
<1>1. stack # <<>> /\ ~Top.post /\ pc = "walk"
  BY StatTyped DEF StatDirectory, StatFile, StatLink
<1>2. Len(stack) \in Nat \ {0} /\ DOMAIN Rest = 1..(Len(stack) - 1)
      /\ \A k \in 1..(Len(stack) - 1) : Rest[k] = stack[k]
  BY <1>1, TopRest
<1>3. CASE stack' = Rest
  BY <1>1, <1>2, <1>3
<1> DEFINE again == [Top EXCEPT !.post = TRUE]
<1>4. CASE stack' = Append(Rest, again)
  <2>1. again \in Frame /\ again.post
    BY <1>1, TopRest DEF Frame
  <2> HIDE DEF again
  <2>2. /\ DOMAIN stack' = 1..Len(stack) /\ stack'[Len(stack)] = again
        /\ \A k \in 1..(Len(stack) - 1) : stack'[k] = stack[k]
    BY <1>1, <1>4, <2>1, AgainTyped
  <2>3. \A k \in 1..(Len(stack) - 1) : k \in DOMAIN stack'
    BY <1>2, <2>2
  <2>4. \A k \in DOMAIN stack' : k = Len(stack) \/ k \in 1..(Len(stack) - 1)
    BY <1>2, <2>2
  <2> QED
    BY <1>1, <2>1, <2>2, <2>3, <2>4
<1>5. stack' = Rest \/ stack' = Append(Rest, again)
  BY DEF StatDirectory, StatFile, StatLink
<1> QED
  BY <1>3, <1>4, <1>5

\* Every step keeps the budget.
LEMMA StepWithinBudget ==
    ASSUME Typed, WithinBudget, [Next]_vars
    PROVE  WithinBudget'
<1>1. TypeOK /\ StackInv /\ TreeInv
  BY DEF Typed
<1>2. counted \in Nat /\ caps.entries \in Nat /\ counted + Cardinality(Pending) <= caps.entries
      /\ Cardinality(Pending) \in Nat
  BY <1>1, TreeTyped, PendingFinite DEF TypeOK, WithinBudget, Pending
<1> SUFFICES counted' + Cardinality(Pending') <= caps.entries /\ caps' = caps
  BY DEF WithinBudget, Pending
<1>3. CASE StatDirectory \/ StatFile \/ StatLink
  <2>1. Cardinality(Pending') \in Nat /\ Cardinality(Pending') <= Cardinality(Pending) - 1
    BY <1>1, <1>3, StatFrames, LessPending
  <2>2. counted' = counted + 1 /\ fs' = fs
    BY <1>3 DEF StatDirectory, StatFile, StatLink, Stat
  <2> QED
    BY <1>2, <2>1, <2>2 DEF caps
<1>4. CASE Post \/ StatFails
  <2>1. stack # <<>> /\ stack' = Rest /\ counted' = counted /\ fs' = fs
    BY <1>4 DEF Post, StatFails, Walking
  <2>2. Cardinality(Pending') \in Nat /\ Cardinality(Pending') <= Cardinality(Pending)
    BY <1>1, <2>1, RestFrames, NotMorePending
  <2> QED
    BY <1>2, <2>1, <2>2 DEF caps
<1>5. CASE Enumerate
  <2>1. counted' = counted /\ fs' = fs
    BY <1>5 DEF Enumerate
  <2> QED
    BY <1>1, <1>5, <2>1, EnumeratePending DEF caps
<1>6. CASE WalkDone \/ Rank \/ UNCHANGED vars
  <2>1. counted' = counted /\ fs' = fs /\ stack' = stack
    BY <1>6 DEF WalkDone, Rank, vars, scanVars
  <2>2. Pending' = Pending
    BY <2>1 DEF Pending
  <2> QED
    BY <1>2, <2>1, <2>2 DEF caps
<1>7. CASE OtherPrograms
  <2>1. UNCHANGED scanVars /\ caps' = caps
    BY <1>1, <1>7, MoveAwayStep, AppearStep, GrowStep DEF OtherPrograms
  <2>2. Pending' = Pending /\ counted' = counted
    BY <2>1 DEF Pending, scanVars
  <2> QED
    BY <1>2, <2>1, <2>2
<1> QED
  BY <1>3, <1>4, <1>5, <1>6, <1>7 DEF Next, Scan

\* The scan starts within its budget: the root waits.
LEMMA InitWithinBudget ==
    ASSUME Init
    PROVE  WithinBudget
<1>1. TypeOK
  BY InitTyped
<1>2. stack = <<[path |-> root, depth |-> 0, post |-> FALSE]>> /\ counted = 0
  BY DEF Init
<1>3. Pending \subseteq {1}
  BY <1>2 DEF Pending
<1>4. IsFiniteSet({1}) /\ Cardinality({1}) = 1
  BY FS_Singleton
<1> DEFINE one == {1}
<1>5. Cardinality(Pending) <= 1 /\ Cardinality(Pending) \in Nat
  <2>1. IsFiniteSet(one) /\ Cardinality(one) = 1 /\ Pending \in SUBSET one
    BY <1>3, <1>4
  <2> HIDE DEF one
  <2>2. Cardinality(Pending) <= Cardinality(one)
    BY <2>1, FS_Subset
  <2> QED
    BY <1>1, <2>1, <2>2, PendingFinite
<1>6. caps.entries \in Nat \ {0}
  BY <1>1, TreeTyped
<1> QED
  BY <1>2, <1>5, <1>6 DEF WithinBudget, Pending

\* What is counted and what waits on the stack stays within max_entries, so no
\* listed entry is dropped after lstat (inventory.py lines 181 and 221).
THEOREM WithinBudgetHolds == Spec => []WithinBudget
<1>1. Init => Typed /\ WithinBudget
  BY InitTyped, InitWithinBudget DEF Typed
<1>2. Typed /\ WithinBudget /\ [Next]_vars => (Typed /\ WithinBudget)'
  BY StepTyped, StepWithinBudget DEF Typed
<1> QED
  BY <1>1, <1>2, PTL DEF Spec

-----------------------------------------------------------------------------
(* What a complete scan has met.                                           *)

\* What other programs leave untouched stays as it is.
LEMMA UntouchedKept ==
    ASSUME Typed, OtherPrograms
    PROVE  /\ UNCHANGED scanVars /\ caps' = caps /\ touched \subseteq touched'
           /\ \A q \in Paths \ touched' : fs'.kind[q] = fs.kind[q] /\ fs'.ino[q] = fs.ino[q]
           /\ \A i \in Inodes \ touched' : fs'.size[i] = fs.size[i]
<1>1. TypeOK /\ TreeInv
  BY DEF Typed
<1>2. CASE \E p \in Paths : MoveAway(p)
  <2>1. PICK p \in Paths : MoveAway(p)
    BY <1>2
  <2>2. /\ UNCHANGED scanVars /\ caps' = caps /\ touched' = touched \cup Gone(p) \cup {fs.ino[q] : q \in Gone(p) \cap Present}
        /\ fs'.kind = [q \in Paths |-> IF q \in Gone(p) THEN "absent" ELSE fs.kind[q]]
        /\ fs'.ino = fs.ino /\ fs'.size = fs.size
    BY <1>1, <2>1, MoveAwayStep
  <2> QED
    BY <2>2
<1>3. CASE \E p \in Paths, kind \in {"file", "dir"}, i \in Inodes : Appear(p, kind, i)
  <2>1. PICK p \in Paths, kind \in {"file", "dir"}, i \in Inodes : Appear(p, kind, i)
    BY <1>3
  <2>2. /\ UNCHANGED scanVars /\ caps' = caps /\ touched' = touched \cup {p, i}
        /\ \A q \in Paths \ {p} : fs'.kind[q] = fs.kind[q] /\ fs'.ino[q] = fs.ino[q]
        /\ fs'.size = fs.size
    BY <1>1, <2>1, AppearStep
  <2> QED
    BY <1>1, <2>2, TreeTyped
<1>4. CASE \E i \in Inodes : Grow(i)
  <2>1. PICK i \in Inodes : Grow(i)
    BY <1>4
  <2>2. /\ UNCHANGED scanVars /\ caps' = caps /\ touched' = touched \cup {i}
        /\ fs'.kind = fs.kind /\ fs'.ino = fs.ino /\ fs'.size = [fs.size EXCEPT ![i] = @ + 1]
    BY <1>1, <2>1, GrowStep
  <2> QED
    BY <1>1, <2>2, TreeTyped
<1> QED
  BY <1>2, <1>3, <1>4 DEF OtherPrograms

\* A present entry with nothing touched above it was present and untouched.
LEMMA UntouchedPresent ==
    ASSUME Typed, OtherPrograms, NEW p \in Paths, p \in Present', Above[p] \cap touched' = {}
    PROVE  p \in Present /\ Untouched(p)
<1>1. \A q \in Above[p] : fs'.kind[q] # "absent"
  BY DEF Present, Exists
<1>2. \A q \in Above[p] : fs'.kind[q] = fs.kind[q]
  BY AbovePaths, UntouchedKept
<1>3. touched \subseteq touched'
  BY UntouchedKept
<1> QED
  BY <1>1, <1>2, <1>3 DEF Present, Exists, Untouched

\* What lies below a path lies below an entry of it that is present.
LEMMA EntryOnTheWay ==
    ASSUME NEW p \in Present, NEW q \in Above[p], q # p
    PROVE  \E c \in Above[p] : c \in Entries(q)
<1>1. p \in Paths /\ q \in Paths
  BY PresentPaths, AbovePaths
<1>2. PICK c \in Above[p] : c # root /\ Parent[c] = q
  BY <1>1, WayDown
<1>3. c \in Present /\ c \in Paths
  BY PresentPaths
<1> QED
  BY <1>1, <1>2, <1>3 DEF Entries, Below

\* Skipped entries stay on record.
LEMMA SkippedKept ==
    ASSUME [Next]_vars, Typed
    PROVE  skipped \subseteq skipped'
<1>1. CASE OtherPrograms
  BY <1>1, UntouchedKept DEF scanVars
<1>2. CASE Scan
  BY <1>2 DEF Scan, Post, StatFails, StatDirectory, Enumerate, StatFile, StatLink, WalkDone, Rank, Skip
<1>3. CASE UNCHANGED vars
  BY <1>3 DEF vars, scanVars
<1> QED
  BY <1>1, <1>2, <1>3 DEF Next

\* The covering part of the invariant for one path.
Covered(p) == p \in visited \/ Awaited(p)

\* A frame that stays on the stack keeps its path awaited.
LEMMA StillQueued ==
    ASSUME NEW p, NEW k \in DOMAIN stack, ~stack[k].post, stack[k].path \in Above[p],
           k \in DOMAIN stack', stack'[k] = stack[k]
    PROVE  Covered(p)'
<1>1. stack'[k].path \in Queued'
  BY DEF Queued
<1> QED
  BY <1>1 DEF Covered, Awaited

\* The visit of an entry covers what lies below it.
LEMMA StatCovers ==
    ASSUME Typed, StatDirectory \/ StatFile \/ StatLink, skipped' = {}, NEW p \in Present, Covered(p)
    PROVE  Covered(p)'
<1>1. TypeOK /\ StackInv /\ TreeInv
  BY DEF Typed
<1>2. stack # <<>> /\ pc = "walk" /\ \A k \in 1..(Len(stack) - 1) : k \in DOMAIN stack' /\ stack'[k] = stack[k]
  BY <1>1, StatFrames
<1>3. visited' = visited \cup {Top.path}
  BY DEF StatDirectory, StatFile, StatLink, Stat
<1>4. CASE p \in visited
  BY <1>3, <1>4 DEF Covered
<1>5. CASE p \notin visited
  <2>1. PICK k \in DOMAIN stack : ~stack[k].post /\ stack[k].path \in Above[p]
    BY <1>2, <1>5 DEF Covered, Awaited, Queued
  <2>2. Len(stack) \in Nat \ {0} /\ DOMAIN stack = 1..Len(stack) /\ Top = stack[Len(stack)]
    BY <1>1, <1>2, TopRest
  <2>3. CASE k # Len(stack)
    <3>1. k \in 1..(Len(stack) - 1)
      BY <2>2, <2>3
    <3> QED
      BY <1>2, <2>1, <3>1, StillQueued
  <2>4. CASE k = Len(stack)
    <3>1. Top.path \in Above[p]
      BY <2>1, <2>2, <2>4
    <3>2. CASE p = Top.path
      BY <1>3, <3>2 DEF Covered
    <3>3. CASE p # Top.path
      <4>1. PICK c \in Above[p] : c \in Entries(Top.path)
        BY <3>1, <3>3, EntryOnTheWay
      <4>2. fs.kind[Top.path] = "dir"
        <5>1. Top.path \in Paths
          BY <1>1, <1>2, TopRest DEF Frame
        <5>2. c \in Paths \ {root} /\ Parent[c] = Top.path /\ c \in Present
          BY <4>1, <5>1 DEF Entries, Below
        <5> QED
          BY <1>1, <5>2, PresentPaths DEF TreeInv
      <4>3. StatDirectory
        BY <4>2 DEF StatFile, StatLink, Stat
      <4>4. Barrier(Top.path, Top.depth) = "none"
        BY <4>3 DEF StatDirectory, Skip
      <4>5. pc' = "enumerate" /\ at'.path = Top.path
        BY <4>3, <4>4 DEF StatDirectory
      <4> QED
        BY <3>1, <3>3, <4>5 DEF Covered, Awaited
    <3> QED
      BY <3>2, <3>3
  <2> QED
    BY <2>3, <2>4
<1> QED
  BY <1>4, <1>5

\* A complete listing queues what leads to everything below the directory.
LEMMA EnumerateCovers ==
    ASSUME Typed, Enumerate, skipped' = {}, NEW p \in Present, Covered(p)
    PROVE  Covered(p)'
<1>1. TypeOK /\ StackInv /\ TreeInv
  BY DEF Typed
<1>2. at.path \in Present /\ fs.kind[at.path] = "dir"
  BY DEF Enumerate, Skip
<1>3. PICK S \in SUBSET Entries(at.path) : \E n \in Nat : \E order \in [1..n -> S] : Listing(S, n, order)
  BY <1>1, <1>2, ListingStep
<1>4. PICK n \in Nat : \E order \in [1..n -> S] : Listing(S, n, order)
  BY <1>3
<1>10. PICK order \in [1..n -> S] : Listing(S, n, order)
  BY <1>4
<1>5. /\ \A c \in S : \E i \in 1..n : order[i] = c
      /\ Len(stack) \in Nat /\ DOMAIN stack = 1..Len(stack)
      /\ DOMAIN stack' = 1..(Len(stack) + n)
      /\ \A k \in 1..Len(stack) : stack'[k] = stack[k]
      /\ \A i \in 1..n : stack'[Len(stack) + i] =
                           [path |-> order[i], depth |-> at.depth + 1, post |-> FALSE]
  BY <1>10 DEF Listing
<1>6. S = Entries(at.path)
  BY <1>10 DEF Listing
<1>7. CASE p \in visited
  BY <1>7 DEF Enumerate, Covered
<1>8. CASE \E k \in DOMAIN stack : ~stack[k].post /\ stack[k].path \in Above[p]
  <2>1. PICK k \in DOMAIN stack : ~stack[k].post /\ stack[k].path \in Above[p]
    BY <1>8
  <2>2. k \in DOMAIN stack' /\ stack'[k] = stack[k]
    BY <1>5
  <2> QED
    BY <2>1, <2>2, StillQueued
<1>9. CASE p # at.path /\ at.path \in Above[p]
  <2>1. PICK c \in Above[p] : c \in S
    BY <1>6, <1>9, EntryOnTheWay
  <2>2. PICK i \in 1..n : order[i] = c
    BY <1>5, <2>1
  <2> DEFINE k == Len(stack) + i
  <2>3. k \in DOMAIN stack' /\ stack'[k] = [path |-> c, depth |-> at.depth + 1, post |-> FALSE]
    BY <1>5, <2>2
  <2> HIDE DEF k
  <2>4. ~stack'[k].post /\ stack'[k].path = c
    BY <2>3
  <2>5. c \in Queued'
    BY <2>3, <2>4 DEF Queued
  <2> QED
    BY <2>1, <2>5 DEF Covered, Awaited
<1> QED
  BY <1>7, <1>8, <1>9 DEF Covered, Awaited, Queued

\* Every step keeps what nobody touched met or awaited.
LEMMA StepCover ==
    ASSUME Typed, CoverInv, [Next]_vars
    PROVE  CoverInv'
<1>1. TypeOK /\ StackInv /\ TreeInv
  BY DEF Typed
<1> SUFFICES ASSUME skipped' = {}, NEW p \in Present', Untouched(p)'
             PROVE  Covered(p)'
  BY DEF CoverInv, Covered
<1>2. skipped = {}
  BY SkippedKept
<1>3. ASSUME OtherPrograms PROVE p \in Present /\ Untouched(p) /\ UNCHANGED scanVars
  <2>1. p \in Paths
    BY DEF Present
  <2> QED
    BY <1>3, <2>1, UntouchedPresent, UntouchedKept DEF Untouched
<1>4. ASSUME Scan \/ UNCHANGED vars PROVE p \in Present /\ Untouched(p)
  <2>1. fs' = fs /\ touched' = touched
    BY <1>4 DEF Scan, Post, StatFails, StatDirectory, Enumerate, StatFile, StatLink, WalkDone, Rank, vars
  <2> QED
    BY <2>1 DEF Present, Exists, Untouched
<1>5. p \in Present /\ Covered(p)
  <2>1. p \in Present /\ Untouched(p)
    BY <1>3, <1>4 DEF Next
  <2> QED
    BY <1>2, <2>1 DEF CoverInv, Covered
<1>6. CASE OtherPrograms \/ UNCHANGED vars
  <2>1. visited' = visited /\ stack' = stack /\ pc' = pc /\ at' = at
    BY <1>3, <1>6 DEF vars, scanVars
  <2> QED
    BY <1>5, <2>1 DEF Covered, Awaited, Queued
<1>7. CASE StatDirectory \/ StatFile \/ StatLink
  BY <1>5, <1>7, StatCovers
<1>8. CASE Enumerate
  BY <1>5, <1>8, EnumerateCovers
<1>9. CASE StatFails
  BY <1>9 DEF StatFails, Skip
<1>10. CASE Post
  <2>1. stack # <<>> /\ Top.post /\ pc = "walk" /\ stack' = Rest /\ visited' = visited
    BY <1>10 DEF Post, Walking
  <2>2. CASE p \in visited
    BY <2>1, <2>2 DEF Covered
  <2>3. CASE p \notin visited
    <3>1. PICK k \in DOMAIN stack : ~stack[k].post /\ stack[k].path \in Above[p]
      BY <1>5, <2>1, <2>3 DEF Covered, Awaited, Queued
    <3>2. Len(stack) \in Nat \ {0} /\ DOMAIN stack = 1..Len(stack) /\ Top = stack[Len(stack)]
          /\ DOMAIN Rest = 1..(Len(stack) - 1) /\ \A j \in 1..(Len(stack) - 1) : Rest[j] = stack[j]
      BY <1>1, <2>1, TopRest
    <3>3. k # Len(stack)
      BY <2>1, <3>1, <3>2
    <3>4. k \in 1..(Len(stack) - 1)
      BY <3>2, <3>3
    <3> QED
      BY <2>1, <3>1, <3>2, <3>4, StillQueued
  <2> QED
    BY <2>2, <2>3
<1>11. CASE WalkDone \/ Rank
  <2>1. stack = <<>> /\ pc # "enumerate" /\ visited' = visited
    BY <1>1, <1>11 DEF WalkDone, Rank, StackInv
  <2>2. p \in visited
    BY <1>5, <2>1 DEF Covered, Awaited, Queued
  <2> QED
    BY <2>1, <2>2 DEF Covered
<1> QED
  BY <1>6, <1>7, <1>8, <1>9, <1>10, <1>11 DEF Next, Scan

\* At the start the root is queued, which is above everything.
LEMMA InitCover ==
    ASSUME Init
    PROVE  CoverInv
<1>1. stack = <<[path |-> root, depth |-> 0, post |-> FALSE]>>
  BY DEF Init
<1>2. root \in Queued
  <2>1. 1 \in DOMAIN stack /\ stack[1].path = root /\ ~stack[1].post
    BY <1>1
  <2> QED
    BY <2>1 DEF Queued
<1>3. \A p \in Present : root \in Above[p]
  BY AbovePaths DEF Present
<1> QED
  BY <1>2, <1>3 DEF CoverInv, Awaited

\* The place of a record: there is room for all when there are no more than
\* candidates are kept.
LEMMA PlaceBelow ==
    ASSUME TypeOK, NEW r \in records
    PROVE  Place(r) \in Nat /\ Place(r) < Cardinality(records) /\ Cardinality(records) \in Nat
<1> DEFINE R == records
           Q == R \ {r}
           L == {s \in R : Larger(s, r)}
<1>1. IsFiniteSet(R) /\ r.bytes \in Nat /\ r.path \in Paths
  BY DEF TypeOK
<1>2. Position(r.path) \in Nat
  <2>1. \E i \in DOMAIN Order : Order[i] = r.path
    BY <1>1, ScanAssumption DEF ToSet
  <2>2. Position(r.path) \in DOMAIN Order
    BY <2>1 DEF Position
  <2> QED
    BY <2>2, ScanAssumption, LenProperties
<1>3. ~Larger(r, r)
  BY <1>1, <1>2 DEF Larger
<1>4. L \subseteq Q /\ r \in R
  BY <1>3
<1>5. Place(r) = Cardinality(L)
  BY DEF Place
<1> HIDE DEF R, L
<1>6. IsFiniteSet(Q) /\ Cardinality(Q) = Cardinality(R) - 1 /\ Cardinality(R) \in Nat
  BY <1>1, <1>4, FS_RemoveElement, FS_CardinalityType
<1> HIDE DEF Q
<1>7. IsFiniteSet(L) /\ Cardinality(L) <= Cardinality(Q)
  BY <1>4, <1>6, FS_Subset
<1>8. Cardinality(L) \in Nat
  BY <1>7, FS_CardinalityType
<1> QED
  BY <1>5, <1>6, <1>7, <1>8 DEF R

\* The first visit of a file makes it known, and records it when it is large.
LEMMA StatFileRecords ==
    ASSUME TypeOK, RecordInv, StatFile
    PROVE  RecordInv'
<1> DEFINE p     == Top.path
           i     == fs.ino[p]
           size  == fs.size[i]
           first == i \notin seen
           new == [path |-> p, ino |-> i, bytes |-> size, entries |-> 1, kind |-> "file"]
<1>1. pc = "walk" /\ visited' = visited \cup {p} /\ seen' = seen \cup {i}
  BY DEF StatFile, Stat, Walking
<1>2. UNCHANGED <<fs, touched, pc, skipped, result>>
  BY DEF StatFile
<1>3. records' = IF first /\ size >= caps.file THEN records \cup {new} ELSE records
  BY DEF StatFile
<1>4. \A q \in visited' \ touched' : fs'.kind[q] = "file" => fs'.ino[q] \in seen'
  BY <1>1, <1>2 DEF RecordInv
<1>5. \A j \in seen' \ touched' : fs'.size[j] >= caps'.file => \E r \in records' : r.ino = j
  <2> TAKE j \in seen' \ touched'
  <2> HAVE fs'.size[j] >= caps'.file
  <2>1. fs.size[j] >= caps.file /\ j \notin touched
    BY <1>2 DEF caps
  <2>2. CASE j \in seen
    <3>1. PICK r \in records : r.ino = j
      BY <2>1, <2>2 DEF RecordInv
    <3> QED
      BY <1>3, <3>1
  <2>3. CASE j \notin seen
    <3>1. j = i
      BY <1>1, <2>3
    <3>2. first /\ size >= caps.file
      BY <2>1, <2>3, <3>1
    <3>3. new \in records' /\ new.ino = j
      BY <1>3, <3>1, <3>2
    <3> QED
      BY <3>3
  <2> QED
    BY <2>2, <2>3
<1> QED
  BY <1>1, <1>2, <1>4, <1>5 DEF RecordInv

\* Every step keeps the records.
LEMMA StepRecords ==
    ASSUME Typed, RecordInv, [Next]_vars
    PROVE  RecordInv'
<1>1. TypeOK /\ StackInv /\ TreeInv
  BY DEF Typed
<1>2. CASE StatFile
  BY <1>1, <1>2, StatFileRecords
<1>3. CASE StatDirectory \/ StatLink
  <2>1. visited' = visited \cup {Top.path} /\ fs.kind[Top.path] # "file" /\ pc' # "done"
    BY <1>3 DEF StatDirectory, StatLink, Stat, Walking
  <2>2. UNCHANGED <<fs, touched, seen, records>>
    BY <1>3 DEF StatDirectory, StatLink
  <2> QED
    BY <2>1, <2>2 DEF RecordInv, caps
<1>4. CASE Post
  <2>1. UNCHANGED <<fs, touched, seen, visited>> /\ records \subseteq records' /\ pc' # "done"
    BY <1>4 DEF Post, Walking
  <2> QED
    BY <2>1 DEF RecordInv, caps
<1>5. CASE StatFails \/ Enumerate \/ WalkDone
  <2>1. UNCHANGED <<fs, touched, seen, records, visited>> /\ pc' # "done"
    BY <1>5 DEF StatFails, Enumerate, WalkDone, Walking
  <2> QED
    BY <2>1 DEF RecordInv, caps
<1>6. CASE Rank
  <2>1. UNCHANGED <<fs, touched, seen, records, visited>>
    BY <1>6 DEF Rank
  <2>2. ASSUME skipped' = {} PROVE records \subseteq {c.record : c \in result'}
    <3>1. ~(Cardinality(records) > caps.candidates)
      BY <1>6, <2>2 DEF Rank
    <3> SUFFICES ASSUME NEW r \in records PROVE \E c \in result' : c.record = r
      OBVIOUS
    <3>2. Place(r) < caps.candidates
      BY <1>1, <3>1, PlaceBelow, TreeTyped
    <3>3. result' = {[record |-> s, inspected |-> Place(s) < caps.inspect] :
                        s \in {s \in records : Place(s) < caps.candidates}}
      BY <1>6 DEF Rank
    <3> DEFINE c == [record |-> r, inspected |-> Place(r) < caps.inspect]
    <3>4. c \in result' /\ c.record = r
      BY <3>2, <3>3
    <3> QED
      BY <3>4
  <2> QED
    BY <2>1, <2>2 DEF RecordInv, caps
<1>7. CASE OtherPrograms
  <2>1. /\ UNCHANGED scanVars /\ caps' = caps /\ touched \subseteq touched'
        /\ \A q \in Paths \ touched' : fs'.kind[q] = fs.kind[q] /\ fs'.ino[q] = fs.ino[q]
        /\ \A i \in Inodes \ touched' : fs'.size[i] = fs.size[i]
    BY <1>7, UntouchedKept
  <2>2. visited \subseteq Paths /\ seen \subseteq Inodes
    BY <1>1 DEF TypeOK
  <2> QED
    BY <2>1, <2>2 DEF RecordInv, scanVars
<1>8. CASE UNCHANGED vars
  BY <1>8 DEF RecordInv, caps, vars, scanVars
<1> QED
  BY <1>2, <1>3, <1>4, <1>5, <1>6, <1>7, <1>8 DEF Next, Scan

\* At the end the invariants give what the property asks for.
LEMMA EndMissesNothing ==
    ASSUME Typed, CoverInv, RecordInv
    PROVE  NothingMissed
<1> SUFFICES ASSUME pc = "done", Status = "complete", NEW p \in Present, Above[p] \cap touched = {}
             PROVE  /\ p \in visited
                    /\ fs.kind[p] = "file" /\ fs.ino[p] \notin touched /\ fs.size[fs.ino[p]] >= caps.file
                       => \E c \in result : c.record.ino = fs.ino[p]
  BY DEF NothingMissed
<1>1. skipped = {} /\ stack = <<>>
  BY DEF Status, Typed, StackInv
<1>2. p \in visited
  BY <1>1 DEF CoverInv, Awaited, Queued, Untouched
<1>3. ASSUME fs.kind[p] = "file", fs.ino[p] \notin touched, fs.size[fs.ino[p]] >= caps.file
      PROVE  \E c \in result : c.record.ino = fs.ino[p]
  <2>1. p \notin touched
    BY AbovePaths, PresentPaths
  <2>2. fs.ino[p] \in seen
    BY <1>2, <1>3, <2>1 DEF RecordInv
  <2>3. PICK r \in records : r.ino = fs.ino[p]
    BY <1>3, <2>2 DEF RecordInv
  <2>4. PICK c \in result : c.record = r
    BY <1>1 DEF RecordInv
  <2> QED
    BY <2>3, <2>4
<1> QED
  BY <1>2, <1>3

\* A scan that calls itself complete has met every entry nobody touched, and
\* every large file among them is a candidate, whatever other programs do
\* meanwhile (scan of inventory.py).
THEOREM NothingMissedHolds == Spec => []NothingMissed
<1>1. Init => Typed /\ CoverInv /\ RecordInv
  <2>1. Init => RecordInv
    BY DEF Init, RecordInv
  <2> QED
    BY <2>1, InitTyped, InitCover DEF Typed
<1>2. Typed /\ CoverInv /\ RecordInv /\ [Next]_vars => (Typed /\ CoverInv /\ RecordInv)'
  BY StepTyped, StepCover, StepRecords DEF Typed
<1>3. Typed /\ CoverInv /\ RecordInv => NothingMissed
  BY EndMissesNothing
<1> QED
  BY <1>1, <1>2, <1>3, PTL DEF Spec

-----------------------------------------------------------------------------
(* Directories and what lies below them.                                   *)

\* A path is no directory of itself.
LEMMA AboveParent ==
    ASSUME NEW p \in Paths \ {root}
    PROVE  /\ Parent[p] \in Paths /\ Parent[p] # p /\ Above[p] = {p} \cup Above[Parent[p]]
           /\ p \notin Above[Parent[p]]
<1>1. Parent[p] \in Paths /\ Above[p] = {p} \cup Above[Parent[p]]
  BY AboveStep, ScanAssumption
<1>2. \A x \in Paths \ {root} : Parent[x] # x
  <2> SUFFICES ASSUME NEW x \in Paths \ {root}, Parent[x] = x PROVE FALSE
    OBVIOUS
  <2>1. {x} \in SUBSET (Paths \ {root}) /\ \A y \in {x} : Parent[y] \in {x}
    OBVIOUS
  <2>2. {x} = {}
    BY <2>1, NoDescent
  <2> QED
    BY <2>2
<1> DEFINE B == {x \in Paths \ {root} : x \in Above[Parent[x]]}
<1>3. ASSUME NEW x \in Paths \ {root}, x \in Above[Parent[x]]
      PROVE  Parent[x] \in Paths \ {root} /\ Parent[x] \in Above[Parent[Parent[x]]]
  <2>1. PICK y \in Paths : y = Parent[x]
    BY ScanAssumption
  <2>2. y # x /\ Above[x] = {x} \cup Above[y] /\ y \in Above[y] /\ x \in Above[y]
    BY <1>2, <1>3, <2>1, AboveStep, AbovePaths
  <2>3. y # root
    BY <2>2, AboveStep
  <2>4. Above[y] = {y} \cup Above[Parent[y]] /\ Parent[y] \in Paths
    BY <2>1, <2>3, AboveStep, ScanAssumption
  <2>5. y \in Above[Parent[y]]
    BY <2>2, <2>4, AboveTransitive
  <2> QED
    BY <2>1, <2>3, <2>5
<1>4. B = {}
  <2>1. B \in SUBSET (Paths \ {root}) /\ \A x \in B : Parent[x] \in B
    BY <1>3
  <2> HIDE DEF B
  <2> QED
    BY <2>1, NoDescent
<1> QED
  BY <1>1, <1>2, <1>4

\* Of two paths above one another each is the other.
LEMMA AboveAntisymmetric ==
    \A p \in Paths : \A q \in Above[p] : p \in Above[q] => p = q
<1> SUFFICES ASSUME NEW p \in Paths, NEW q \in Above[p], p \in Above[q], p # q PROVE FALSE
  OBVIOUS
<1>1. p # root
  BY AboveStep
<1>2. q \in Above[Parent[p]] /\ Parent[p] \in Paths
  BY <1>1, AboveParent
<1>3. p \in Above[Parent[p]]
  BY <1>2, AboveTransitive
<1> QED
  BY <1>1, <1>3, AboveParent

\* What lies above one path lies in a line.
LEMMA AboveLinear ==
    \A p \in Paths : \A a, b \in Above[p] : a \in Above[b] \/ b \in Above[a]
<1> DEFINE B == {p \in Paths : \E a, b \in Above[p] : ~(a \in Above[b] \/ b \in Above[a])}
<1>1. B \in SUBSET (Paths \ {root})
  BY AboveStep
<1>2. \A p \in B : Parent[p] \in B
  <2> TAKE p \in B
  <2>1. p # root /\ Parent[p] \in Paths /\ Above[p] = {p} \cup Above[Parent[p]]
    BY <1>1, AboveStep, ScanAssumption
  <2>2. PICK a \in Above[p], b \in Above[p] : ~(a \in Above[b] \/ b \in Above[a])
    OBVIOUS
  <2>3. a # p /\ b # p
    BY <2>2
  <2> QED
    BY <2>1, <2>2, <2>3
<1>3. B = {}
  <2> HIDE DEF B
  <2> QED
    BY <1>1, <1>2, NoDescent
<1> QED
  BY <1>3

\* Everything above what was met, and above what is queued, was met.
LEMMA MetAbove ==
    ASSUME Nesting, TypeOK
    PROVE  \A q \in Paths : q \in visited \cup Queued => \A x \in Above[q] : x # q => x \in visited
<1> DEFINE B == {q \in Paths : q \in visited \cup Queued /\ \E x \in Above[q] : x # q /\ x \notin visited}
<1>1. B \in SUBSET (Paths \ {root})
  BY AboveStep
<1>2. \A q \in B : Parent[q] \in B
  <2> TAKE q \in B
  <2>1. q # root /\ Parent[q] \in Paths /\ Above[q] = {q} \cup Above[Parent[q]] /\ Parent[q] \in visited
    BY <1>1, AboveStep, ScanAssumption DEF Nesting
  <2> QED
    BY <2>1
<1>3. B = {}
  <2> HIDE DEF B
  <2> QED
    BY <1>1, <1>2, NoDescent
<1> QED
  BY <1>3

-----------------------------------------------------------------------------
(* The order of the walk.                                                  *)

\* The paths on the stack.
LEMMA StackPaths ==
    ASSUME TypeOK
    PROVE  /\ Queued \subseteq Paths /\ Open \subseteq Paths
           /\ \A k \in DOMAIN stack : /\ stack[k].path \in Paths
                                      /\ stack[k].post => stack[k].path \in Open
                                      /\ ~stack[k].post => stack[k].path \in Queued
<1>1. \A k \in DOMAIN stack : stack[k] \in Frame
  BY LenProperties DEF TypeOK
<1> QED
  BY <1>1 DEF Queued, Open, Frame

\* The paths on the stack when its top is taken off.
LEMMA PopSets ==
    ASSUME TypeOK, FrameOrder, stack # <<>>, stack' = Rest
    PROVE  /\ FrameOrder' /\ Top.path \in Paths
           /\ Top.post => Top.path \in Open /\ Open' = Open \ {Top.path} /\ Queued' = Queued
           /\ ~Top.post => Top.path \in Queued /\ Open' = Open /\ Queued' = Queued \ {Top.path}
<1> DEFINE n == Len(stack)
<1>1. /\ n \in Nat \ {0} /\ DOMAIN stack = 1..n /\ Top = stack[n] /\ n \in DOMAIN stack /\ Top \in Frame
      /\ DOMAIN stack' = 1..(n - 1) /\ \A k \in 1..(n - 1) : stack'[k] = stack[k]
  BY TopRest
<1> HIDE DEF n
<1>2. \A k \in DOMAIN stack' : k \in DOMAIN stack /\ k # n /\ stack'[k] = stack[k]
  BY <1>1
<1>3. \A k \in DOMAIN stack : k # n => k \in DOMAIN stack'
  BY <1>1
<1>4. FrameOrder'
  BY <1>2 DEF FrameOrder
<1>5. \A k \in DOMAIN stack' : stack[k].post = stack[n].post => stack'[k].path # Top.path
  BY <1>1, <1>2 DEF FrameOrder
<1>9. \A k \in DOMAIN stack : stack[k].post \in BOOLEAN
  <2>1. \A k \in DOMAIN stack : stack[k] \in Frame
    BY LenProperties DEF TypeOK
  <2> QED
    BY <2>1 DEF Frame
<1>6. Top.path \in Paths
  BY <1>1 DEF Frame
<1>7. CASE Top.post
  <2>1. Top.path \in Open
    BY <1>1, <1>7 DEF Open
  <2>2. Queued' = Queued
    BY <1>1, <1>2, <1>3, <1>7 DEF Queued
  <2>3. \A k \in DOMAIN stack' : stack'[k].post => stack'[k].path \in Open \ {Top.path}
    <3> SUFFICES ASSUME NEW k \in DOMAIN stack', stack'[k].post PROVE stack'[k].path \in Open \ {Top.path}
      OBVIOUS
    <3>1. stack'[k].path # Top.path
      BY <1>1, <1>2, <1>5, <1>7, <1>9
    <3> QED
      BY <1>2, <3>1 DEF Open
  <2>4. \A x \in Open \ {Top.path} : x \in Open'
    BY <1>1, <1>2, <1>3 DEF Open
  <2>5. Open' = Open \ {Top.path}
    BY <2>3, <2>4 DEF Open
  <2> QED
    BY <1>4, <1>6, <1>7, <2>1, <2>2, <2>5
<1>8. CASE ~Top.post
  <2>1. Top.path \in Queued
    BY <1>1, <1>8 DEF Queued
  <2>2. Open' = Open
    BY <1>1, <1>2, <1>3, <1>8 DEF Open
  <2>3. \A k \in DOMAIN stack' : ~stack'[k].post => stack'[k].path \in Queued \ {Top.path}
    <3> SUFFICES ASSUME NEW k \in DOMAIN stack', ~stack'[k].post PROVE stack'[k].path \in Queued \ {Top.path}
      OBVIOUS
    <3>1. stack'[k].path # Top.path
      BY <1>1, <1>2, <1>5, <1>8, <1>9
    <3> QED
      BY <1>2, <3>1 DEF Queued
  <2>4. \A x \in Queued \ {Top.path} : x \in Queued'
    BY <1>1, <1>2, <1>3 DEF Queued
  <2>5. Queued' = Queued \ {Top.path}
    BY <2>3, <2>4 DEF Queued
  <2> QED
    BY <1>4, <1>6, <1>8, <2>1, <2>2, <2>5
<1> QED
  BY <1>7, <1>8

\* The paths on the stack when a directory is put back for its second visit.
LEMMA AgainSets ==
    ASSUME TypeOK, FrameOrder, Nesting, stack # <<>>, ~Top.post,
           stack' = Append(Rest, [Top EXCEPT !.post = TRUE])
    PROVE  /\ FrameOrder' /\ Top.path \in Queued
           /\ Open' = Open \cup {Top.path} /\ Queued' = Queued \ {Top.path}
<1> DEFINE n == Len(stack)
           p == Top.path
           again == [Top EXCEPT !.post = TRUE]
<1>1. /\ n \in Nat \ {0} /\ DOMAIN stack = 1..n /\ Top = stack[n] /\ n \in DOMAIN stack /\ Top \in Frame
  BY TopRest
<1>2. again \in Frame /\ again.post /\ again.path = p
  BY <1>1 DEF Frame
<1>3. DOMAIN stack' = 1..n /\ stack'[n] = again /\ \A k \in 1..(n - 1) : stack'[k] = stack[k]
  <2>1. stack' = Append(Rest, again)
    OBVIOUS
  <2> HIDE DEF again
  <2> QED
    BY <1>2, <2>1, AgainTyped
<1>4. p \in Queued /\ p \in Paths
  BY <1>1, StackPaths
<1> HIDE DEF n, p, again
<1>5. \A k \in DOMAIN stack' : k # n => k \in DOMAIN stack /\ stack'[k] = stack[k] /\ k < n
  BY <1>1, <1>3
<1>6. \A k \in DOMAIN stack : k # n => k \in DOMAIN stack' /\ stack'[k] = stack[k]
  BY <1>1, <1>3
<1>7. p \notin visited
  BY <1>4 DEF Nesting
<1>8. \A k \in DOMAIN stack' : k # n /\ stack'[k].post => stack'[k].path # p
  BY <1>5, <1>7, StackPaths DEF Nesting
<1>9. \A k \in DOMAIN stack' : k # n /\ stack'[k].path # p => p \notin Above[stack'[k].path]
  <2> SUFFICES ASSUME NEW k \in DOMAIN stack', k # n, stack'[k].path # p PROVE p \notin Above[stack'[k].path]
    OBVIOUS
  <2>1. stack[k].path \in Paths /\ stack[k].path \in Open \cup Queued
    BY <1>5, StackPaths
  <2>2. stack[k].path \in visited \cup Queued
    BY <2>1 DEF Nesting
  <2> QED
    BY <1>5, <1>7, <2>1, <2>2, MetAbove
<1>10. FrameOrder'
  <2> SUFFICES ASSUME NEW j \in DOMAIN stack', NEW k \in DOMAIN stack'
               PROVE  /\ stack'[j].post = stack'[k].post /\ stack'[j].path = stack'[k].path => j = k
                      /\ stack'[j].post /\ stack'[j].path # stack'[k].path
                         /\ stack'[j].path \in Above[stack'[k].path] => j < k
    BY DEF FrameOrder
  <2>1. CASE j = n /\ k = n
    BY <2>1
  <2>2. CASE j = n /\ k # n
    BY <1>2, <1>3, <1>8, <1>9, <2>2
  <2>3. CASE j # n /\ k = n
    BY <1>2, <1>3, <1>5, <1>8, <2>3
  <2>4. CASE j # n /\ k # n
    BY <1>5, <2>4 DEF FrameOrder
  <2> QED
    BY <2>1, <2>2, <2>3, <2>4
<1>11. Open' = Open \cup {p}
  <2>1. \A x \in Open' : x \in Open \cup {p}
    BY <1>2, <1>3, <1>5 DEF Open
  <2>2. n \in DOMAIN stack'
    BY <1>1, <1>3
  <2>3. p \in Open'
    BY <1>2, <1>3, <2>2 DEF Open
  <2>4. ~stack[n].post
    BY <1>1
  <2>5. \A x \in Open : x \in Open'
    BY <1>6, <2>4 DEF Open
  <2> QED
    BY <2>1, <2>3, <2>5
<1>12. Queued' = Queued \ {p}
  <2>1. \A k \in DOMAIN stack' : ~stack'[k].post => k # n /\ k \in DOMAIN stack /\ stack'[k] = stack[k]
    BY <1>2, <1>3, <1>5
  <2>2. \A k \in DOMAIN stack : k # n /\ ~stack[k].post => stack[k].path # p
    <3> SUFFICES ASSUME NEW k \in DOMAIN stack, k # n, ~stack[k].post, stack[k].path = p PROVE FALSE
      OBVIOUS
    <3>1. stack[k] \in Frame /\ stack[n] \in Frame
      BY <1>1, LenProperties DEF TypeOK
    <3>2. stack[k].post = stack[n].post
      BY <1>1, <3>1 DEF Frame
    <3> QED
      BY <1>1, <3>2 DEF FrameOrder, p
  <2>3. \A x \in Queued' : x \in Queued \ {p}
    BY <2>1, <2>2 DEF Queued
  <2>4. \A x \in Queued \ {p} : x \in Queued'
    BY <1>1, <1>6 DEF Queued, p
  <2> QED
    BY <2>3, <2>4
<1> QED
  BY <1>4, <1>10, <1>11, <1>12 DEF p

\* The paths on the stack after a listing: entries that were not met and not
\* queued, all of them unless something is skipped.
LEMMA ListingSets ==
    ASSUME TypeOK, FrameOrder, Nesting, Enumerate, at.path \in Present, fs.kind[at.path] = "dir"
    PROVE  /\ FrameOrder' /\ Open' = Open
           /\ \E S \in SUBSET Entries(at.path) : Queued' = Queued \cup S /\ S \cap (visited \cup Queued) = {}
<1>1. PICK S \in SUBSET Entries(at.path) : \E n \in Nat : \E order \in [1..n -> S] : Listing(S, n, order)
  BY ListingStep
<1>2. PICK n \in Nat : \E order \in [1..n -> S] : Listing(S, n, order)
  BY <1>1
<1>3. PICK order \in [1..n -> S] : Listing(S, n, order)
  BY <1>2
<1> DEFINE l == Len(stack)
           f(i) == [path |-> order[i], depth |-> at.depth + 1, post |-> FALSE]
<1>4. /\ l \in Nat /\ DOMAIN stack = 1..l /\ DOMAIN stack' = 1..(l + n)
      /\ \A k \in 1..l : stack'[k] = stack[k]
      /\ \A i \in 1..n : stack'[l + i] = f(i)
      /\ \A c \in S : \E i \in 1..n : order[i] = c
      /\ \A i, j \in 1..n : order[i] = order[j] => i = j
  BY <1>3 DEF Listing
<1>5. \A i \in 1..n : f(i).path = order[i] /\ ~f(i).post
  OBVIOUS
<1> HIDE DEF l, f
<1>6. \A k \in DOMAIN stack' : k \notin DOMAIN stack => \E i \in 1..n : k = l + i
  <2> TAKE k \in DOMAIN stack'
  <2> HAVE k \notin DOMAIN stack
  <2>1. k - l \in 1..n /\ k = l + (k - l)
    BY <1>4
  <2> QED
    BY <2>1
<1>7. S \cap (visited \cup Queued) = {} /\ S \subseteq Paths
  <2>1. pc = "enumerate"
    BY DEF Enumerate
  <2>2. \A c \in S : c \in Paths \ {root} /\ Parent[c] = at.path
    <3>1. at.path \in Paths
      BY DEF TypeOK
    <3> QED
      BY <3>1 DEF Entries, Below
  <2> QED
    BY <2>1, <2>2 DEF Nesting
<1>8. \A i \in 1..n : ~stack'[l + i].post /\ stack'[l + i].path = order[i] /\ order[i] \in S
  BY <1>4, <1>5
<1>9. \A k \in DOMAIN stack' : k \notin DOMAIN stack => ~stack'[k].post /\ stack'[k].path \in S
  BY <1>6, <1>8
<1>10. \A k \in DOMAIN stack : k \in DOMAIN stack' /\ stack'[k] = stack[k]
  BY <1>4
<1>11. FrameOrder'
  <2> SUFFICES ASSUME NEW j \in DOMAIN stack', NEW k \in DOMAIN stack'
               PROVE  /\ stack'[j].post = stack'[k].post /\ stack'[j].path = stack'[k].path => j = k
                      /\ stack'[j].post /\ stack'[j].path # stack'[k].path
                         /\ stack'[j].path \in Above[stack'[k].path] => j < k
    BY DEF FrameOrder
  <2>1. CASE j \in DOMAIN stack /\ k \in DOMAIN stack
    BY <1>10, <2>1 DEF FrameOrder
  <2>2. CASE j \in DOMAIN stack /\ k \notin DOMAIN stack
    <3>1. j < k
      BY <1>4, <2>2
    <3>2. stack'[j].post = stack'[k].post => stack'[j].path \in Queued
      <4>1. stack[j] \in Frame /\ stack'[j] = stack[j]
        BY <1>10, <2>2, LenProperties DEF TypeOK
      <4>2. ~stack'[k].post
        BY <1>9, <2>2
      <4> DEFINE g == stack'[k].post
      <4>3. g = stack[j].post => ~stack[j].post
        BY <4>2
      <4> HIDE DEF g
      <4> QED
        BY <2>2, <4>1, <4>3, StackPaths DEF g
    <3> QED
      BY <1>7, <1>9, <2>2, <3>1, <3>2
  <2>3. CASE j \notin DOMAIN stack /\ k \in DOMAIN stack
    <3>1. ~stack'[j].post
      BY <1>9, <2>3
    <3>2. stack'[j].post = stack'[k].post => stack'[k].path \in Queued
      <4>1. stack[k] \in Frame /\ stack'[k] = stack[k]
        BY <1>10, <2>3, LenProperties DEF TypeOK
      <4> DEFINE g == stack'[j].post
      <4>3. g = stack[k].post => ~stack[k].post
        BY <3>1
      <4> HIDE DEF g
      <4> QED
        BY <2>3, <4>1, <4>3, StackPaths DEF g
    <3> QED
      BY <1>7, <1>9, <2>3, <3>1, <3>2
  <2>4. CASE j \notin DOMAIN stack /\ k \notin DOMAIN stack
    <3>1. PICK a \in 1..n : j = l + a
      BY <1>6, <2>4
    <3>2. PICK b \in 1..n : k = l + b
      BY <1>6, <2>4
    <3>4. stack'[j].path = order[a] /\ stack'[k].path = order[b]
      BY <1>8, <3>1, <3>2
    <3>5. order[a] = order[b] => a = b
      BY <1>4
    <3>3. stack'[j].path = stack'[k].path => a = b
      BY <3>4, <3>5
    <3> QED
      BY <1>9, <2>4, <3>1, <3>2, <3>3
  <2> QED
    BY <2>1, <2>2, <2>3, <2>4
<1>12. Open' = Open
  BY <1>9, <1>10 DEF Open
<1>13. Queued' = Queued \cup S
  <2>1. \A x \in Queued' : x \in Queued \cup S
    BY <1>9, <1>10 DEF Queued
  <2>2. \A x \in Queued : x \in Queued'
    BY <1>10 DEF Queued
  <2>3. \A c \in S : c \in Queued'
    <3> TAKE c \in S
    <3>1. PICK i \in 1..n : order[i] = c
      BY <1>4
    <3>2. l + i \in DOMAIN stack' /\ ~stack'[l + i].post /\ stack'[l + i].path = c
      BY <1>4, <1>8, <3>1
    <3> QED
      BY <3>2 DEF Queued
  <2> QED
    BY <2>1, <2>2, <2>3
<1> QED
  BY <1>7, <1>11, <1>12, <1>13

\* A visit of a queued path.
LEMMA VisitNests ==
    ASSUME TypeOK, Nesting, pc = "walk", NEW p \in Queued, visited' = visited \cup {p},
           Queued' = Queued \ {p}, Open' = Open \/ (Open' = Open \cup {p} /\ p # root),
           DOMAIN dirs' \subseteq DOMAIN dirs \cup {p},
           pc' = "walk" \/ (pc' = "enumerate" /\ at'.path = p /\ p \in Open' \cup {root})
    PROVE  Nesting'
<1>1. p \in Paths /\ p \notin visited /\ (p = root \/ Parent[p] \in Open \cup {root})
  BY StackPaths DEF Nesting
<1>2. /\ Queued' \cap visited' = {} /\ Open' \subseteq visited' \ {root}
      /\ DOMAIN dirs' \subseteq visited' \cup {root}
  BY DEF Nesting
<1>3. \A q \in Open' \cup Queued' : q = root \/ Parent[q] \in Open' \cup {root}
  BY <1>1 DEF Nesting
<1>4. \A q \in (visited' \cup Queued') \ {root} : Parent[q] \in visited /\ Parent[q] # p
  <2>1. \A q \in (visited' \cup Queued') \ {root} : q \in (visited \cup Queued) \ {root}
    OBVIOUS
  <2> QED
    BY <1>1, <2>1 DEF Nesting
<1> QED
  BY <1>2, <1>3, <1>4 DEF Nesting

\* A visit counts one path.
LEMMA VisitCounts ==
    ASSUME TypeOK, CountInv, NEW p \in Present, p \notin visited, visited' = visited \cup {p},
           counted' = counted + 1, fs' = fs, touched' = touched,
           \A q \in Open' : q \in Open \/ (q = p /\ fs.kind[p] = "dir")
    PROVE  CountInv'
<1>1. IsFiniteSet(visited)
  BY ScanAssumption, FS_Subset DEF TypeOK
<1>2. Cardinality(visited') = Cardinality(visited) + 1
  BY <1>1, FS_AddElement
<1>3. Present' = Present
  BY DEF Present, Exists
<1>4. visited' \ touched' \subseteq Present'
  BY <1>3 DEF CountInv
<1>5. \A q \in Open' \ touched' : fs'.kind[q] = "dir"
  BY DEF CountInv
<1> QED
  BY <1>2, <1>4, <1>5 DEF CountInv

\* The first visit of an entry keeps the order of the walk.
LEMMA StatOnce ==
    ASSUME Typed, OnceInv, StatDirectory \/ StatFile \/ StatLink
    PROVE  /\ OnceInv' /\ Top.path \in Present /\ Top.path \in Queued /\ Top.path \notin visited
           /\ visited' = visited \cup {Top.path}
           /\ ~StatDirectory \/ Top.path = root => Open' = Open
           /\ StatDirectory /\ Top.path # root => Open' = Open \cup {Top.path}
<1> DEFINE p == Top.path
<1>1. TypeOK /\ StackInv /\ TreeInv /\ FrameOrder /\ Nesting /\ CountInv
  BY DEF Typed, OnceInv
<1>2. /\ stack # <<>> /\ ~Top.post /\ pc = "walk" /\ p \in Present /\ p \in Paths
      /\ visited' = visited \cup {p} /\ counted' = counted + 1 /\ UNCHANGED <<fs, touched>>
  BY <1>1, StatTyped DEF StatDirectory, StatFile, StatLink, Stat
<1>3. p \in Queued
  BY <1>1, <1>2, TopRest, StackPaths
<1>4. p \notin visited
  BY <1>1, <1>3 DEF Nesting
<1>5. DOMAIN dirs' \subseteq DOMAIN dirs \cup {p}
  BY DEF StatDirectory, StatFile, StatLink
<1>6. CASE StatDirectory /\ p # root
  <2>1. stack' = Append(Rest, [Top EXCEPT !.post = TRUE])
    BY <1>6 DEF StatDirectory
  <2>2. fs.kind[p] = "dir"
    BY <1>6 DEF StatDirectory, Stat
  <2>3. pc' = "walk" \/ (pc' = "enumerate" /\ at'.path = p)
    BY <1>2, <1>6 DEF StatDirectory
  <2> HIDE DEF p
  <2>4. FrameOrder' /\ Open' = Open \cup {p} /\ Queued' = Queued \ {p}
    BY <1>1, <1>2, <2>1, AgainSets DEF p
  <2>5. p \in Open'
    BY <2>4
  <2>6. Nesting'
    BY <1>1, <1>2, <1>3, <1>5, <1>6, <2>3, <2>4, <2>5, VisitNests
  <2>7. CountInv'
    BY <1>1, <1>2, <1>4, <2>2, <2>4, VisitCounts
  <2> QED
    BY <1>2, <1>3, <1>4, <1>6, <2>4, <2>6, <2>7 DEF OnceInv, p
<1>7. CASE ~(StatDirectory /\ p # root)
  <2>1. stack' = Rest
    BY <1>7 DEF StatDirectory, StatFile, StatLink
  <2>2. pc' = "walk" \/ (pc' = "enumerate" /\ at'.path = p /\ p = root)
    BY <1>2, <1>7 DEF StatDirectory, StatFile, StatLink
  <2> HIDE DEF p
  <2>3. FrameOrder' /\ Open' = Open /\ Queued' = Queued \ {p}
    BY <1>1, <1>2, <2>1, PopSets DEF p
  <2>4. Nesting'
    BY <1>1, <1>2, <1>3, <1>5, <2>2, <2>3, VisitNests
  <2>5. CountInv'
    BY <1>1, <1>2, <1>4, <2>3, VisitCounts
  <2> QED
    BY <1>2, <1>3, <1>4, <1>7, <2>3, <2>4, <2>5 DEF OnceInv, p
<1> QED
  BY <1>6, <1>7

\* The second visit of a directory closes it: nothing below it is left.
LEMMA PostOnce ==
    ASSUME Typed, OnceInv, Post
    PROVE  /\ OnceInv' /\ Top.path \in Open /\ Open' = Open \ {Top.path} /\ visited' = visited
           /\ \A q \in (Open \cup Queued) \ {Top.path} : Top.path \notin Above[q]
<1> DEFINE p == Top.path
           n == Len(stack)
<1>1. TypeOK /\ StackInv /\ TreeInv /\ FrameOrder /\ Nesting /\ CountInv
  BY DEF Typed, OnceInv
<1>2. /\ stack # <<>> /\ Top.post /\ pc = "walk" /\ stack' = Rest
      /\ UNCHANGED <<fs, touched, pc, at, counted, visited>> /\ DOMAIN dirs' = DOMAIN dirs
  BY DEF Post, Walking
<1>3. FrameOrder' /\ p \in Open /\ Open' = Open \ {p} /\ Queued' = Queued
  BY <1>1, <1>2, PopSets
<1>4. n \in Nat \ {0} /\ DOMAIN stack = 1..n /\ Top = stack[n] /\ n \in DOMAIN stack
  BY <1>1, <1>2, TopRest
<1>5. \A k \in DOMAIN stack : stack[k].path # p => p \notin Above[stack[k].path]
  BY <1>1, <1>2, <1>4 DEF FrameOrder
<1>6. \A q \in (Open \cup Queued) \ {p} : p \notin Above[q]
  BY <1>5 DEF Open, Queued
<1> HIDE DEF p, n
<1>7. \A q \in Open' \cup Queued' : q = root \/ Parent[q] \in Open' \cup {root}
  <2> SUFFICES ASSUME NEW q \in Open' \cup Queued', q # root PROVE Parent[q] \in Open' \cup {root}
    OBVIOUS
  <2>1. q \in Open \cup Queued /\ q # p
    BY <1>1, <1>3 DEF Nesting
  <2>2. q \in Paths /\ Parent[q] \in Open \cup {root}
    BY <1>1, <2>1, StackPaths DEF Nesting
  <2>3. Parent[q] \in Above[q]
    BY <2>2, AboveParent, AbovePaths
  <2> QED
    BY <1>3, <1>6, <2>1, <2>2, <2>3
<1>8. Nesting'
  BY <1>1, <1>2, <1>3, <1>7 DEF Nesting
<1>9. CountInv'
  BY <1>1, <1>2, <1>3 DEF CountInv, Present, Exists
<1> QED
  BY <1>2, <1>3, <1>6, <1>8, <1>9 DEF OnceInv, p

\* A listing keeps the order of the walk.
LEMMA EnumerateOnce ==
    ASSUME Typed, OnceInv, Enumerate
    PROVE  OnceInv' /\ Open' = Open
<1>1. TypeOK /\ StackInv /\ TreeInv /\ FrameOrder /\ Nesting /\ CountInv
  BY DEF Typed, OnceInv
<1>2. pc = "enumerate" /\ pc' = "walk" /\ UNCHANGED <<fs, touched, at, dirs, counted, visited>>
  BY DEF Enumerate
<1>3. CASE at.path \in Present /\ fs.kind[at.path] = "dir"
  <2>1. FrameOrder' /\ Open' = Open
    BY <1>1, <1>3, ListingSets
  <2>2. PICK S \in SUBSET Entries(at.path) : Queued' = Queued \cup S /\ S \cap (visited \cup Queued) = {}
    BY <1>1, <1>3, ListingSets
  <2>3. \A c \in S : Parent[c] = at.path
    <3>1. at.path \in Paths
      BY <1>1 DEF TypeOK
    <3> QED
      BY <3>1 DEF Entries, Below
  <2>4. Nesting'
    BY <1>1, <1>2, <2>1, <2>2, <2>3 DEF Nesting
  <2>5. CountInv'
    BY <1>1, <1>2, <2>1 DEF CountInv, Present, Exists
  <2> QED
    BY <2>1, <2>4, <2>5 DEF OnceInv
<1>4. CASE ~(at.path \in Present /\ fs.kind[at.path] = "dir")
  <2>1. stack' = stack
    BY <1>4 DEF Enumerate
  <2>2. FrameOrder' /\ Open' = Open /\ Queued' = Queued
    BY <1>1, <2>1 DEF FrameOrder, Open, Queued
  <2>3. Nesting'
    BY <1>1, <1>2, <2>2 DEF Nesting
  <2>4. CountInv'
    BY <1>1, <1>2, <2>2 DEF CountInv, Present, Exists
  <2> QED
    BY <2>2, <2>3, <2>4 DEF OnceInv
<1> QED
  BY <1>3, <1>4

\* A present path stays present with its inode when the path or the inode
\* stays untouched.
LEMMA PresentKept ==
    ASSUME Typed, OtherPrograms, NEW q \in Present, q \notin touched' \/ fs.ino[q] \notin touched'
    PROVE  q \in Present' /\ fs'.ino[q] = fs.ino[q]
<1>1. TypeOK /\ TreeInv
  BY DEF Typed
<1>2. q \in Paths /\ q \in Above[q] /\ \A x \in Above[q] : x \in Paths /\ Exists(x)
  BY PresentPaths, AbovePaths
<1>3. CASE \E p \in Paths : MoveAway(p)
  <2>1. PICK p \in Paths : MoveAway(p)
    BY <1>3
  <2>2. /\ touched' = touched \cup Gone(p) \cup {fs.ino[x] : x \in Gone(p) \cap Present}
        /\ fs'.kind = [x \in Paths |-> IF x \in Gone(p) THEN "absent" ELSE fs.kind[x]]
        /\ fs'.ino = fs.ino
    BY <1>1, <2>1, MoveAwayStep
  <2>3. q \notin Gone(p)
    BY <2>2
  <2>4. \A x \in Above[q] : x \notin Gone(p)
    BY <1>2, <2>3, AboveTransitive DEF Gone
  <2> QED
    BY <1>2, <2>2, <2>4 DEF Present, Exists
<1>4. CASE \E p \in Paths, kind \in {"file", "dir"}, i \in Inodes : Appear(p, kind, i)
  <2>1. PICK p \in Paths, kind \in {"file", "dir"}, i \in Inodes : Appear(p, kind, i)
    BY <1>4
  <2>2. p \notin Present /\ \A x \in Paths \ {p} : fs'.kind[x] = fs.kind[x] /\ fs'.ino[x] = fs.ino[x]
    BY <1>1, <2>1, AppearStep
  <2>3. \A x \in Above[q] : x # p
    BY <2>2, PresentPaths
  <2> QED
    BY <1>2, <2>2, <2>3 DEF Present, Exists
<1>5. CASE \E i \in Inodes : Grow(i)
  <2>1. fs'.kind = fs.kind /\ fs'.ino = fs.ino
    BY <1>1, <1>5, GrowStep
  <2> QED
    BY <1>2, <2>1 DEF Present, Exists
<1> QED
  BY <1>3, <1>4, <1>5 DEF OtherPrograms

\* Every step keeps the order of the walk.
LEMMA StepOnce ==
    ASSUME Typed, OnceInv, [Next]_vars
    PROVE  OnceInv'
<1>1. TypeOK /\ StackInv /\ TreeInv /\ FrameOrder /\ Nesting /\ CountInv
  BY DEF Typed, OnceInv
<1>2. CASE StatDirectory \/ StatFile \/ StatLink
  BY <1>2, StatOnce
<1>3. CASE Post
  BY <1>3, PostOnce
<1>4. CASE Enumerate
  BY <1>4, EnumerateOnce
<1>5. CASE StatFails
  <2>1. /\ stack # <<>> /\ ~Top.post /\ pc = "walk" /\ stack' = Rest
        /\ UNCHANGED <<fs, touched, pc, at, dirs, counted, visited>>
    BY <1>5 DEF StatFails, Walking
  <2>2. FrameOrder' /\ Open' = Open /\ Queued' = Queued \ {Top.path}
    BY <1>1, <2>1, PopSets
  <2>3. Nesting'
    BY <1>1, <2>1, <2>2 DEF Nesting
  <2>4. CountInv'
    BY <1>1, <2>1, <2>2 DEF CountInv, Present, Exists
  <2> QED
    BY <2>2, <2>3, <2>4 DEF OnceInv
<1>6. CASE WalkDone \/ Rank \/ UNCHANGED vars
  <2>1. UNCHANGED <<fs, touched, stack, at, dirs, counted, visited>>
        /\ (pc' = pc \/ pc' # "enumerate")
    BY <1>6 DEF WalkDone, Rank, vars, scanVars
  <2>2. FrameOrder' /\ Open' = Open /\ Queued' = Queued
    BY <1>1, <2>1 DEF FrameOrder, Open, Queued
  <2>3. Nesting'
    BY <1>1, <2>1, <2>2 DEF Nesting
  <2>4. CountInv'
    BY <1>1, <2>1, <2>2 DEF CountInv, Present, Exists
  <2> QED
    BY <2>2, <2>3, <2>4 DEF OnceInv
<1>7. CASE OtherPrograms
  <2>1. /\ UNCHANGED scanVars /\ touched \subseteq touched'
        /\ \A q \in Paths \ touched' : fs'.kind[q] = fs.kind[q]
    BY <1>7, UntouchedKept
  <2>2. FrameOrder' /\ Open' = Open /\ Queued' = Queued
    BY <1>1, <2>1 DEF FrameOrder, Open, Queued, scanVars
  <2>3. Nesting'
    BY <1>1, <2>1, <2>2 DEF Nesting, scanVars
  <2>4. visited' \ touched' \subseteq Present'
    BY <1>1, <1>7, <2>1, PresentKept DEF CountInv, scanVars
  <2>5. \A q \in Open' \ touched' : fs'.kind[q] = "dir"
    BY <1>1, <2>1, <2>2, StackPaths DEF CountInv
  <2>6. CountInv'
    BY <1>1, <2>1, <2>4, <2>5 DEF CountInv, scanVars
  <2> QED
    BY <2>2, <2>3, <2>6 DEF OnceInv
<1> QED
  BY <1>2, <1>3, <1>4, <1>5, <1>6, <1>7 DEF Next, Scan

\* At the start nothing was met.
LEMMA InitOnce ==
    ASSUME Init
    PROVE  OnceInv
<1> DEFINE first == [path |-> root, depth |-> 0, post |-> FALSE]
<1>1. stack = <<first>> /\ visited = {} /\ pc = "walk" /\ counted = 0
  BY DEF Init
<1>2. DOMAIN stack = {1} /\ stack[1] = first
  BY <1>1
<1>3. first.path = root /\ ~first.post
  OBVIOUS
<1> HIDE DEF first
<1>4. Open = {} /\ Queued = {root}
  BY <1>2, <1>3 DEF Open, Queued
<1>5. FrameOrder
  BY <1>2, <1>3 DEF FrameOrder
<1>6. DOMAIN dirs = {root}
  BY DEF Init
<1>7. Nesting
  BY <1>1, <1>4, <1>6 DEF Nesting
<1>8. CountInv
  BY <1>1, <1>4, FS_EmptySet DEF CountInv
<1> QED
  BY <1>5, <1>7, <1>8 DEF OnceInv

-----------------------------------------------------------------------------
(* What reached the sum of a directory.                                    *)

\* Sets of paths are finite, and the weights are natural numbers.
LEMMA WeightTyped ==
    ASSUME TypeOK
    PROVE  /\ \A S \in SUBSET Paths : IsFiniteSet(S)
           /\ \A q \in Paths : Weight[q] = fs.size[fs.ino[q]] /\ Weight[q] \in Nat
<1>1. \A S \in SUBSET Paths : IsFiniteSet(S)
  BY ScanAssumption, FS_Subset
<1>2. \A q \in Paths : Weight[q] = fs.size[fs.ino[q]] /\ fs.ino[q] \in Inodes
  BY TreeTyped DEF Weight
<1>3. \A q \in Paths : Weight[q] \in Nat
  BY <1>2, TreeTyped
<1> QED
  BY <1>1, <1>2, <1>3

\* The sum of a directory goes on with a file in it; that of another directory
\* stays.
LEMMA LandedFile ==
    ASSUME TypeOK, Nesting, NEW p \in Queued \ {root}, visited' = visited \cup {p}, Open' = Open,
           NEW d \in visited \ {root}
    PROVE  /\ p \notin Landed(d)
           /\ Landed(d)' = IF d = Parent[p] THEN Landed(d) \cup {p} ELSE Landed(d)
<1> DEFINE x == Parent[p]
<1>1. p \in Paths /\ d \in Paths /\ p \notin visited /\ d # p
  BY StackPaths DEF Nesting, TypeOK
<1>2. x \in Paths /\ Above[p] = {p} \cup Above[x] /\ p \notin Above[x] /\ x \in Open \cup {root} /\ x \in Above[x]
  BY <1>1, AboveParent, AbovePaths DEF Nesting
<1>3. p \notin Open /\ p \notin Landed(d)
  BY <1>1 DEF Nesting, Landed
<1>4. Landed(d)' = Landed(d) \cup {q \in {p} : d \in Above[p] /\ Open \cap (Above[p] \ Above[d]) = {}}
  BY DEF Landed
<1> HIDE DEF x
<1>5. CASE d = x
  BY <1>2, <1>3, <1>4, <1>5 DEF x
<1>6. CASE d # x
  <2> SUFFICES ASSUME d \in Above[p], Open \cap (Above[p] \ Above[d]) = {} PROVE FALSE
    BY <1>3, <1>4, <1>6 DEF x
  <2>1. d \in Above[x]
    BY <1>1, <1>2
  <2>2. x # root
    BY <1>2, <2>1, AboveStep
  <2>3. x \notin Above[d]
    BY <1>2, <1>6, <2>1, AboveAntisymmetric
  <2> QED
    BY <1>2, <2>2, <2>3
<1> QED
  BY <1>3, <1>5, <1>6

\* A directory starts a sum of its own.
LEMMA LandedDirectory ==
    ASSUME TypeOK, Nesting, NEW p \in Queued, visited' = visited \cup {p}, Open' = Open \cup {p}
    PROVE  /\ \A d \in visited \ {root} : p \notin Landed(d) /\ Landed(d)' = Landed(d)
           /\ Landed(p)' = {p}
<1>1. p \in Paths /\ p \notin visited /\ visited \subseteq Paths
  BY StackPaths DEF Nesting, TypeOK
<1>2. \A q \in visited : p \notin Above[q]
  BY <1>1, MetAbove
<1>3. Landed(p)' = {p}
  <2>1. p \in Above[p] /\ Open' \cap (Above[p] \ Above[p]) = {}
    BY <1>1, AbovePaths
  <2>2. \A q \in visited' : p \in Above[q] => q = p
    BY <1>2
  <2> QED
    BY <2>1, <2>2 DEF Landed
<1>4. ASSUME NEW d \in visited \ {root}
      PROVE  p \notin Landed(d) /\ Landed(d)' = Landed(d)
  <2>1. d \in Paths /\ d # p
    BY <1>1
  <2>2. p \notin Landed(d)
    BY <1>1 DEF Landed
  <2>3. p \notin Landed(d)'
    <3> SUFFICES ASSUME d \in Above[p], p \in Above[d] PROVE FALSE
      BY <1>1, AbovePaths DEF Landed
    <3> QED
      BY <1>1, <2>1, AboveAntisymmetric
  <2>4. \A q \in visited : Open' \cap (Above[q] \ Above[d]) = Open \cap (Above[q] \ Above[d])
    BY <1>2
  <2> QED
    BY <2>2, <2>3, <2>4 DEF Landed
<1> QED
  BY <1>3, <1>4

\* The sum of a directory that is left reaches its parent.
LEMMA LandedPost ==
    ASSUME TypeOK, Nesting, NEW y \in Open, Open' = Open \ {y}, visited' = visited,
           NEW d \in visited \ {root}
    PROVE  /\ Landed(d) \cap (IF d = Parent[y] THEN Landed(y) ELSE {}) = {}
           /\ Landed(d)' = Landed(d) \cup (IF d = Parent[y] THEN Landed(y) ELSE {})
<1> DEFINE x == Parent[y]
<1>1. y \in Paths \ {root} /\ d \in Paths /\ visited \subseteq Paths /\ y \in visited
  BY StackPaths DEF Nesting, TypeOK
<1>2. x \in Paths /\ Above[y] = {y} \cup Above[x] /\ y \notin Above[x] /\ x \in Open \cup {root} /\ x \in Above[x]
  BY <1>1, AboveParent, AbovePaths DEF Nesting
<1> HIDE DEF x
<1>3. CASE d = x
  <2>1. ASSUME NEW q \in visited, y \in Above[q]
        PROVE  x \in Above[q] /\ Above[q] \ Above[x] = (Above[q] \ Above[y]) \cup {y}
    <3>1. Above[y] \subseteq Above[q]
      BY <1>1, <2>1, AboveTransitive
    <3> QED
      BY <1>2, <2>1, <3>1
  <2>2. \A q \in visited : y \in Above[q] =>
            /\ q \notin Landed(x)
            /\ q \in Landed(x)' <=> q \in Landed(y)
    <3> SUFFICES ASSUME NEW q \in visited, y \in Above[q]
                 PROVE  /\ q \notin Landed(x)
                        /\ q \in Landed(x)' <=> q \in Landed(y)
      OBVIOUS
    <3>1. x \in Above[q] /\ y \in Above[q] \ Above[x]
      BY <1>2, <2>1
    <3>2. Open' \cap (Above[q] \ Above[x]) = Open \cap (Above[q] \ Above[y])
      BY <1>1, <1>2, <2>1, AbovePaths
    <3> QED
      BY <3>1, <3>2 DEF Landed
  <2>3. \A q \in visited : y \notin Above[q] =>
            /\ q \notin Landed(y)
            /\ q \in Landed(x)' <=> q \in Landed(x)
    BY <1>2 DEF Landed
  <2>4. Landed(x) \subseteq visited /\ Landed(y) \subseteq visited /\ Landed(x)' \subseteq visited
    BY DEF Landed
  <2>5. Landed(x) \cap Landed(y) = {} /\ Landed(x)' = Landed(x) \cup Landed(y)
    BY <2>2, <2>3, <2>4
  <2> QED
    BY <1>3, <2>5 DEF x
<1>4. CASE d # x
  <2>1. ASSUME NEW q \in visited, d \in Above[q], Open' \cap (Above[q] \ Above[d]) = {},
               y \in Above[q] \ Above[d]
        PROVE  FALSE
    <3>1. d \in Above[y]
      BY <1>1, <2>1, AboveLinear
    <3>2. d \in Above[x]
      BY <1>1, <1>2, <2>1, <3>1, AbovePaths
    <3>3. x # root
      BY <1>2, <3>2, AboveStep
    <3>4. x \notin Above[d]
      BY <1>2, <1>4, <3>2, AboveAntisymmetric
    <3>5. x \in Above[q] /\ x # y
      BY <1>1, <1>2, <2>1, AboveTransitive
    <3> QED
      BY <1>2, <2>1, <3>3, <3>4, <3>5
  <2>2. \A q \in visited : q \in Landed(d)' <=> q \in Landed(d)
    BY <2>1 DEF Landed
  <2>3. Landed(d) \subseteq visited /\ Landed(d)' \subseteq visited
    BY DEF Landed
  <2> QED
    BY <1>4, <2>2, <2>3 DEF x
<1> QED
  BY <1>3, <1>4

-----------------------------------------------------------------------------
(* Directories that nobody touches.                                        *)

\* What lies in such a directory.
LEMMA AloneInside ==
    ASSUME TypeOK, NEW d \in Paths, Alone(d), NEW q \in Paths, d \in Above[q]
    PROVE  /\ Alone(q) /\ Untouched(q) /\ q \notin touched
           /\ q \in Present => fs.ino[q] \notin touched /\ q \in Subtree(d)
<1>1. \A x \in Above[q] : x \notin touched
  <2> TAKE x \in Above[q]
  <2>1. x \in Paths /\ (x \in Above[d] \/ d \in Above[x])
    BY AbovePaths, AboveLinear
  <2> QED
    BY <2>1 DEF Alone
<1>2. \A x \in Paths : q \in Above[x] => d \in Above[x]
  BY AboveTransitive
<1>3. Subtree(q) \subseteq Subtree(d)
  BY <1>2, PresentPaths DEF Subtree
<1>4. Alone(q)
  BY <1>1, <1>2, <1>3 DEF Alone
<1>5. q \in Present => q \in Subtree(d)
  BY DEF Subtree
<1> QED
  BY <1>1, <1>4, <1>5, AbovePaths DEF Untouched, Alone

\* Such a directory was so before, with the same entries, inodes and sizes.
LEMMA AloneBefore ==
    ASSUME Typed, OtherPrograms, NEW d \in Paths, Alone(d)'
    PROVE  /\ Alone(d) /\ Subtree(d)' = Subtree(d) /\ fs'.kind[d] = fs.kind[d] /\ fs'.ino[d] = fs.ino[d]
           /\ \A q \in Subtree(d) : q \notin touched' /\ fs'.ino[q] = fs.ino[q] /\ Weight'[q] = Weight[q]
<1>1. TypeOK
  BY DEF Typed
<1>2. /\ touched \subseteq touched'
      /\ \A q \in Paths \ touched' : fs'.kind[q] = fs.kind[q] /\ fs'.ino[q] = fs.ino[q]
      /\ \A i \in Inodes \ touched' : fs'.size[i] = fs.size[i]
  BY UntouchedKept
<1>3. \A q \in Paths : q \in Above[d] \/ d \in Above[q] => q \notin touched'
  BY DEF Alone
<1>4. \A q \in Paths : d \in Above[q] => (q \in Present' <=> q \in Present)
  <2> SUFFICES ASSUME NEW q \in Paths, d \in Above[q]
               PROVE  \A x \in Above[q] : fs'.kind[x] = fs.kind[x]
    BY DEF Present, Exists
  <2> TAKE x \in Above[q]
  <2>1. x \in Paths /\ (x \in Above[d] \/ d \in Above[x])
    BY AbovePaths, AboveLinear
  <2> QED
    BY <1>2, <1>3, <2>1
<1>5. Subtree(d)' = Subtree(d) /\ Subtree(d) \subseteq Paths
  BY <1>4, PresentPaths DEF Subtree, Present
<1>6. \A q \in Subtree(d) : q \notin touched' /\ fs'.ino[q] = fs.ino[q]
  BY <1>2, <1>3, <1>5 DEF Subtree
<1>7. \A q \in Subtree(d) : fs.ino[q] \notin touched' /\ fs.ino[q] \in Inodes
  <2>1. \A q \in Subtree(d) : fs'.ino[q] \notin touched'
    BY <1>5 DEF Alone
  <2> QED
    BY <1>1, <1>5, <1>6, <2>1, TreeTyped
<1>8. Alone(d)
  <2>1. {fs.ino[q] : q \in Subtree(d)} \cap touched = {}
    BY <1>2, <1>7
  <2>2. Above[d] \cap touched = {} /\ {q \in Paths : d \in Above[q]} \cap touched = {}
    BY <1>2, <1>3, AbovePaths
  <2> QED
    BY <2>1, <2>2 DEF Alone
<1>9. \A q \in Subtree(d) : Weight'[q] = Weight[q]
  BY <1>2, <1>5, <1>6, <1>7 DEF Weight
<1>10. fs'.kind[d] = fs.kind[d] /\ fs'.ino[d] = fs.ino[d]
  BY <1>2, <1>3, AbovePaths
<1> QED
  BY <1>5, <1>6, <1>8, <1>9, <1>10

-----------------------------------------------------------------------------
(* Credits.                                                                *)

\* A step of the scan leaves the tree.
LEMMA TreeSame ==
    ASSUME fs' = fs, touched' = touched
    PROVE  /\ Present' = Present /\ Weight' = Weight /\ caps' = caps
           /\ \A d : Subtree(d)' = Subtree(d) /\ (Alone(d)' <=> Alone(d))
<1>1. Present' = Present
  BY DEF Present, Exists
<1> QED
  BY <1>1 DEF Weight, caps, Subtree, Alone

\* A file is credited to its first name.
LEMMA CreditFile ==
    ASSUME Typed, OnceInv, StatFile, NEW C \in SUBSET visited, Credit(C), NEW p, p = Top.path,
           NEW D, D = IF fs.ino[p] \in seen THEN C ELSE C \cup {p}
    PROVE  Credit(D)'
<1>1. TypeOK /\ TreeInv /\ CountInv /\ (StatDirectory \/ StatFile \/ StatLink)
  BY DEF Typed, OnceInv
<1>2. /\ p \in Present /\ p \notin visited /\ visited' = visited \cup {p} /\ visited \subseteq Paths
  BY <1>1, StatOnce DEF TypeOK
<1> DEFINE i == fs.ino[p]
<1>3. /\ UNCHANGED <<fs, touched>> /\ seen' = seen \cup {i}
      /\ bytes' = IF i \notin seen THEN bytes + fs.size[i] ELSE bytes
  BY DEF StatFile
<1>4. Present' = Present /\ Weight' = Weight /\ p \in Paths /\ Exists(p)
  BY <1>2, <1>3, TreeSame, PresentPaths
<1> HIDE DEF i
<1>5. \A q \in visited' \ touched : q \in D \/ fs.ino[q] \in seen'
  BY <1>2, <1>3 DEF Credit, i
<1>6. \A q \in D \ touched : fs.kind[q] = "dir" \/ fs.ino[q] \in seen'
  BY <1>2, <1>3 DEF Credit, i
<1>7. \A j \in seen' \ touched : \E q \in D \cap Present : fs.ino[q] = j
  <2> TAKE j \in seen' \ touched
  <2>1. CASE j \in seen
    BY <2>1 DEF Credit
  <2>2. CASE j \notin seen
    BY <1>2, <1>3, <2>2 DEF i
  <2> QED
    BY <2>1, <2>2
<1>8. \A q \in C \ touched : i \notin seen => fs.ino[q] # i
  <2> SUFFICES ASSUME NEW q \in C \ touched, i \notin seen, fs.ino[q] = i PROVE FALSE
    OBVIOUS
  <2>1. fs.kind[q] = "dir" /\ q \in Paths /\ q # p
    BY <1>2 DEF Credit
  <2> QED
    BY <1>1, <1>4, <2>1 DEF TreeInv, i
<1>9. \A q, r \in D \ touched : fs.ino[q] = fs.ino[r] => q = r
  BY <1>8 DEF Credit, i
<1>10. touched = {} => bytes' = SumFunctionOnSet(Weight, D)
  <2> SUFFICES ASSUME touched = {}, i \notin seen PROVE bytes' = SumFunctionOnSet(Weight, C \cup {p})
    BY <1>3 DEF Credit, i
  <2>1. IsFiniteSet(C) /\ p \notin C /\ \A q \in C \cup {p} : Weight[q] \in Int
    BY <1>1, <1>2, <1>4, WeightTyped
  <2>2. SumFunctionOnSet(Weight, C \cup {p}) = Weight[p] + SumFunctionOnSet(Weight, C)
    BY <2>1, SumAdd
  <2>3. bytes = SumFunctionOnSet(Weight, C) /\ Weight[p] = fs.size[i]
    BY <1>1, <1>4, WeightTyped DEF Credit, i
  <2>4. bytes \in Nat /\ Weight[p] \in Nat
    BY <1>1, <1>4, WeightTyped DEF TypeOK
  <2> QED
    BY <1>3, <2>2, <2>3, <2>4
<1> QED
  BY <1>3, <1>4, <1>5, <1>6, <1>7, <1>9, <1>10 DEF Credit

\* A directory is credited to its one name.
LEMMA CreditDirectory ==
    ASSUME Typed, OnceInv, StatDirectory, NEW C \in SUBSET visited, Credit(C), NEW p, p = Top.path
    PROVE  Credit(C \cup {p})'
<1> DEFINE D == C \cup {p}
<1>1. TypeOK /\ TreeInv /\ CountInv /\ (StatDirectory \/ StatFile \/ StatLink)
  BY DEF Typed, OnceInv
<1>2. /\ p \in Present /\ p \notin visited /\ visited' = visited \cup {p} /\ visited \subseteq Paths
  BY <1>1, StatOnce DEF TypeOK
<1>3. /\ UNCHANGED <<fs, touched, seen>> /\ bytes' = bytes + fs.size[fs.ino[p]] /\ fs.kind[p] = "dir"
  BY DEF StatDirectory, Stat
<1>4. Present' = Present /\ Weight' = Weight /\ p \in Paths
  BY <1>2, <1>3, TreeSame, PresentPaths
<1>5. \A q \in visited' \ touched : q \in D \/ fs.ino[q] \in seen
  BY <1>2 DEF Credit
<1>6. \A q \in D \ touched : fs.kind[q] = "dir" \/ fs.ino[q] \in seen
  BY <1>3 DEF Credit
<1>7. \A j \in seen \ touched : \E q \in D \cap Present : fs.ino[q] = j
  BY DEF Credit
<1>8. \A q \in C \ touched : fs.ino[q] # fs.ino[p]
  <2> SUFFICES ASSUME NEW q \in C \ touched, fs.ino[q] = fs.ino[p] PROVE FALSE
    OBVIOUS
  <2>1. q \in Paths /\ q # p /\ Exists(q)
    BY <1>1, <1>2, PresentPaths DEF CountInv
  <2> QED
    BY <1>1, <1>3, <1>4, <2>1 DEF TreeInv
<1>9. \A q, r \in D \ touched : fs.ino[q] = fs.ino[r] => q = r
  BY <1>8 DEF Credit
<1>10. touched = {} => bytes' = SumFunctionOnSet(Weight, D)
  <2> SUFFICES ASSUME touched = {} PROVE bytes' = SumFunctionOnSet(Weight, C \cup {p})
    OBVIOUS
  <2>1. IsFiniteSet(C) /\ p \notin C /\ \A q \in C \cup {p} : Weight[q] \in Int
    BY <1>1, <1>2, <1>4, WeightTyped
  <2>2. SumFunctionOnSet(Weight, C \cup {p}) = Weight[p] + SumFunctionOnSet(Weight, C)
    BY <2>1, SumAdd
  <2>3. bytes = SumFunctionOnSet(Weight, C) /\ Weight[p] = fs.size[fs.ino[p]]
    BY <1>1, <1>4, WeightTyped DEF Credit
  <2>4. bytes \in Nat /\ Weight[p] \in Nat
    BY <1>1, <1>4, WeightTyped DEF TypeOK
  <2> QED
    BY <1>3, <2>2, <2>3, <2>4
<1> HIDE DEF D
<1>11. Credit(D)'
  BY <1>3, <1>4, <1>5, <1>6, <1>7, <1>9, <1>10 DEF Credit
<1> QED
  BY <1>11 DEF D

\* Every step of another program touches something.
LEMMA OtherTouches ==
    ASSUME Typed, OtherPrograms
    PROVE  touched' # {}
<1>1. CASE \E p \in Paths : MoveAway(p)
  <2>1. PICK p \in Paths : MoveAway(p)
    BY <1>1
  <2>2. p \in Gone(p) /\ Gone(p) \subseteq touched'
    BY <2>1, AbovePaths, MoveAwayStep DEF Gone, Typed
  <2> QED
    BY <2>2
<1>2. CASE \E p \in Paths, kind \in {"file", "dir"}, i \in Inodes : Appear(p, kind, i)
  BY <1>2 DEF Appear
<1>3. CASE \E i \in Inodes : Grow(i)
  BY <1>3 DEF Grow
<1> QED
  BY <1>1, <1>2, <1>3 DEF OtherPrograms

\* Other programs leave the credits of what they do not touch.
LEMMA CreditOther ==
    ASSUME Typed, OnceInv, OtherPrograms, NEW C \in SUBSET visited, Credit(C)
    PROVE  Credit(C)'
<1>1. /\ visited' = visited /\ seen' = seen /\ touched \subseteq touched' /\ touched' # {}
      /\ \A q \in Paths \ touched' : fs'.kind[q] = fs.kind[q] /\ fs'.ino[q] = fs.ino[q]
  BY UntouchedKept, OtherTouches DEF scanVars
<1>2. visited \subseteq Paths
  BY DEF Typed, TypeOK
<1>3. \A q \in visited' \ touched' : q \in C \/ fs'.ino[q] \in seen'
  BY <1>1, <1>2 DEF Credit
<1>4. \A q \in C \ touched' : fs'.kind[q] = "dir" \/ fs'.ino[q] \in seen'
  BY <1>1, <1>2 DEF Credit
<1>5. \A j \in seen' \ touched' : \E q \in C \cap Present' : fs'.ino[q] = j
  <2> TAKE j \in seen' \ touched'
  <2>1. PICK q \in C \cap Present : fs.ino[q] = j
    BY <1>1 DEF Credit
  <2>2. q \in Present' /\ fs'.ino[q] = fs.ino[q]
    BY <2>1, PresentKept
  <2> QED
    BY <2>1, <2>2
<1>6. \A q, r \in C \ touched' : fs'.ino[q] = fs'.ino[r] => q = r
  BY <1>1, <1>2 DEF Credit
<1> QED
  BY <1>1, <1>3, <1>4, <1>5, <1>6 DEF Credit

-----------------------------------------------------------------------------
(* The sums of the directories.                                            *)

\* A file goes into the sum of its directory, with its bytes when it is
\* credited.
LEMMA SumsFile ==
    ASSUME Typed, OnceInv, StatFile, NEW C \in SUBSET visited, Sums(C), NEW p, p = Top.path,
           NEW D, D = IF fs.ino[p] \in seen THEN C ELSE C \cup {p}
    PROVE  Sums(D)'
<1>1. TypeOK /\ TreeInv /\ Nesting /\ (StatDirectory \/ StatFile \/ StatLink) /\ ~StatDirectory
  BY DEF Typed, OnceInv, StatFile, StatDirectory, Stat
<1>2. /\ p \in Present /\ p \in Queued /\ p \notin visited /\ visited' = visited \cup {p}
      /\ visited \subseteq Paths /\ Open' = Open
  BY <1>1, StatOnce DEF TypeOK
<1> DEFINE i     == fs.ino[p]
           x     == Parent[p]
           first == i \notin seen
<1>3. /\ UNCHANGED <<fs, touched>> /\ fs.kind[p] = "file"
      /\ dirs' = [dirs EXCEPT ![x] = [bytes |-> IF first THEN @.bytes + fs.size[i] ELSE @.bytes,
                                      entries |-> @.entries + 1]]
  BY DEF StatFile, Stat
<1>4. Weight' = Weight /\ p \in Paths /\ p # root
  BY <1>1, <1>2, <1>3, TreeSame, PresentPaths DEF TreeInv
<1> SUFFICES ASSUME NEW d \in visited' \ {root}, fs'.kind[d] = "dir", Alone(d)'
             PROVE  /\ d \in DOMAIN dirs'
                    /\ dirs'[d] = [bytes |-> SumFunctionOnSet(Weight', Landed(d)' \cap D),
                                   entries |-> Cardinality(Landed(d)') - 1]
  BY DEF Sums
<1>5. d \in visited \ {root} /\ fs.kind[d] = "dir" /\ Alone(d)
  BY <1>2, <1>3, TreeSame
<1> DEFINE L == Landed(d)
<1>6. /\ d \in DOMAIN dirs
      /\ dirs[d] = [bytes |-> SumFunctionOnSet(Weight, L \cap C), entries |-> Cardinality(L) - 1]
  BY <1>5 DEF Sums
<1>7. p \notin L /\ Landed(d)' = IF d = x THEN L \cup {p} ELSE L
  BY <1>1, <1>2, <1>4, <1>5, LandedFile
<1>8. L \subseteq Paths /\ p \notin C
  BY <1>2 DEF Landed
<1>9. IsFiniteSet(L) /\ IsFiniteSet(L \cap C) /\ Cardinality(L) \in Nat
  BY <1>1, <1>8, WeightTyped, FS_CardinalityType
<1> HIDE DEF L, i, first
<1>10. DOMAIN dirs' = DOMAIN dirs
  BY <1>3
<1>11. CASE d = x
  <2>1. dirs'[d] = [bytes |-> IF first THEN SumFunctionOnSet(Weight, L \cap C) + fs.size[i]
                              ELSE SumFunctionOnSet(Weight, L \cap C),
                    entries |-> (Cardinality(L) - 1) + 1]
    <3> HIDE DEF x
    <3> QED
      BY <1>3, <1>6, <1>11
  <2>2. Cardinality(L \cup {p}) = Cardinality(L) + 1
    BY <1>7, <1>9, FS_AddElement
  <2>3. (Cardinality(L) - 1) + 1 = Cardinality(L \cup {p}) - 1
    BY <1>9, <2>2
  <2>4. CASE first
    <3>1. (L \cup {p}) \cap D = (L \cap C) \cup {p} /\ p \notin L \cap C
      BY <1>7, <2>4 DEF first, i
    <3>2. \A y \in (L \cap C) \cup {p} : Weight[y] \in Int
      BY <1>1, <1>4, <1>8, WeightTyped
    <3>3. SumFunctionOnSet(Weight, (L \cap C) \cup {p}) = Weight[p] + SumFunctionOnSet(Weight, L \cap C)
      BY <1>9, <3>1, <3>2, SumAdd
    <3>4. SumFunctionOnSet(Weight, L \cap C) \in Int /\ Weight[p] \in Int /\ Weight[p] = fs.size[i]
      BY <1>1, <1>4, <1>9, <3>2, SumInt, WeightTyped DEF i
    <3>6. SumFunctionOnSet(Weight, (L \cup {p}) \cap D) = SumFunctionOnSet(Weight, (L \cap C) \cup {p})
      BY <3>1
    <3>5. SumFunctionOnSet(Weight, L \cap C) + fs.size[i] = SumFunctionOnSet(Weight, (L \cup {p}) \cap D)
      BY <3>3, <3>4, <3>6
    <3> QED
      BY <1>4, <1>6, <1>7, <1>10, <1>11, <2>1, <2>3, <2>4, <3>5
  <2>5. CASE ~first
    <3>1. (L \cup {p}) \cap D = L \cap C
      BY <1>8, <2>5 DEF first, i
    <3> QED
      BY <1>4, <1>6, <1>7, <1>10, <1>11, <2>1, <2>3, <2>5, <3>1
  <2> QED
    BY <2>4, <2>5
<1>12. CASE d # x
  <2>1. L \cap D = L \cap C
    BY <1>7, <1>8
  <2>2. dirs'[d] = dirs[d]
    BY <1>3, <1>6, <1>12
  <2> QED
    BY <1>4, <1>6, <1>7, <1>10, <1>12, <2>1, <2>2
<1> QED
  BY <1>11, <1>12

\* A directory starts its sum with itself.
LEMMA SumsDirectory ==
    ASSUME Typed, OnceInv, StatDirectory, NEW C \in SUBSET visited, Sums(C), NEW p, p = Top.path
    PROVE  Sums(C \cup {p})'
<1>1. TypeOK /\ TreeInv /\ Nesting /\ (StatDirectory \/ StatFile \/ StatLink)
  BY DEF Typed, OnceInv
<1>2. /\ p \in Present /\ p \in Queued /\ p \notin visited /\ visited' = visited \cup {p}
      /\ visited \subseteq Paths
      /\ p # root => Open' = Open \cup {p}
  BY <1>1, StatOnce DEF TypeOK
<1> DEFINE size == fs.size[fs.ino[p]]
<1>3. /\ UNCHANGED <<fs, touched>>
      /\ dirs' = [q \in DOMAIN dirs \cup {p} |->
                     IF q \in DOMAIN dirs THEN dirs[q] ELSE [bytes |-> size, entries |-> 0]]
  BY DEF StatDirectory
<1>4. Weight' = Weight /\ p \in Paths
  BY <1>2, <1>3, TreeSame, PresentPaths
<1> SUFFICES ASSUME NEW d \in visited' \ {root}, fs'.kind[d] = "dir", Alone(d)'
             PROVE  /\ d \in DOMAIN dirs'
                    /\ dirs'[d] = [bytes |-> SumFunctionOnSet(Weight', Landed(d)' \cap (C \cup {p})),
                                   entries |-> Cardinality(Landed(d)') - 1]
  <2> DEFINE D == C \cup {p}
  <2>1. SUFFICES Sums(D)'
    OBVIOUS
  <2> HIDE DEF D
  <2> QED
    BY DEF Sums, D
<1>5. p # root
  <2>1. d = p \/ d \in visited
    BY <1>2
  <2>2. d \in visited => root \in visited
    BY <1>1, <1>2, AbovePaths, MetAbove
  <2> QED
    BY <1>2, <2>1, <2>2
<1>6. Open' = Open \cup {p}
  BY <1>2, <1>5
<1>7. CASE d = p
  <2>1. p \notin DOMAIN dirs
    BY <1>1, <1>2, <1>5 DEF Nesting
  <2>2. dirs'[p] = [bytes |-> size, entries |-> 0] /\ p \in DOMAIN dirs'
    BY <1>3, <2>1
  <2>3. Landed(p)' = {p}
    BY <1>1, <1>2, <1>6, LandedDirectory
  <2>4. SumFunctionOnSet(Weight, {} \cup {p}) = Weight[p] + SumFunctionOnSet(Weight, {})
    <3>1. IsFiniteSet({}) /\ \A y \in {} \cup {p} : Weight[y] \in Int
      BY <1>1, <1>4, WeightTyped, FS_EmptySet
    <3> QED
      BY <3>1, SumAdd
  <2>5. Weight[p] \in Nat /\ Weight[p] = size
    BY <1>1, <1>4, WeightTyped
  <2>6. {p} \cap (C \cup {p}) = {} \cup {p}
    OBVIOUS
  <2>7. SumFunctionOnSet(Weight, {p} \cap (C \cup {p})) = size
    BY <2>4, <2>5, <2>6, SumEmpty
  <2>8. Cardinality({p}) - 1 = 0
    BY FS_Singleton
  <2> QED
    BY <1>4, <1>7, <2>2, <2>3, <2>7, <2>8
<1>8. CASE d # p
  <2>1. d \in visited \ {root} /\ fs.kind[d] = "dir" /\ Alone(d)
    BY <1>2, <1>3, <1>8, TreeSame
  <2>2. p \notin Landed(d) /\ Landed(d)' = Landed(d)
    BY <1>1, <1>2, <1>6, <2>1, LandedDirectory
  <2>3. /\ d \in DOMAIN dirs
        /\ dirs[d] = [bytes |-> SumFunctionOnSet(Weight, Landed(d) \cap C), entries |-> Cardinality(Landed(d)) - 1]
    BY <2>1 DEF Sums
  <2>4. d \in DOMAIN dirs' /\ dirs'[d] = dirs[d]
    BY <1>3, <2>3
  <2>5. Landed(d) \cap (C \cup {p}) = Landed(d) \cap C
    BY <2>2
  <2> QED
    BY <1>4, <2>2, <2>3, <2>4, <2>5
<1> QED
  BY <1>7, <1>8

\* The sum of a directory that is left is added to that of its parent.
LEMMA SumsPost ==
    ASSUME Typed, OnceInv, Post, NEW C \in SUBSET visited, Sums(C)
    PROVE  Sums(C)'
<1> DEFINE y == Top.path
           x == Parent[y]
<1>1. TypeOK /\ TreeInv /\ Nesting /\ CountInv
  BY DEF Typed, OnceInv
<1>2. y \in Open /\ Open' = Open \ {y} /\ visited' = visited /\ visited \subseteq Paths
  BY <1>1, PostOnce DEF TypeOK
<1>3. /\ UNCHANGED <<fs, touched>>
      /\ dirs' = [dirs EXCEPT ![x] = [bytes |-> @.bytes + dirs[y].bytes,
                                      entries |-> @.entries + dirs[y].entries + 1]]
  BY DEF Post
<1>4. Weight' = Weight
  BY <1>3, TreeSame
<1>5. y \in visited \ {root} /\ y \in Paths \ {root}
  BY <1>1, <1>2 DEF Nesting
<1>6. x \in Paths /\ x \in Above[y]
  BY <1>5, AboveParent, AbovePaths
<1> HIDE DEF y, x
<1> SUFFICES ASSUME NEW d \in visited' \ {root}, fs'.kind[d] = "dir", Alone(d)'
             PROVE  /\ d \in DOMAIN dirs'
                    /\ dirs'[d] = [bytes |-> SumFunctionOnSet(Weight', Landed(d)' \cap C),
                                   entries |-> Cardinality(Landed(d)') - 1]
  BY DEF Sums
<1>7. d \in visited \ {root} /\ fs.kind[d] = "dir" /\ Alone(d) /\ d \in Paths
  BY <1>2, <1>3, TreeSame
<1> DEFINE A == Landed(d)
           B == Landed(y)
<1>8. /\ d \in DOMAIN dirs
      /\ dirs[d] = [bytes |-> SumFunctionOnSet(Weight, A \cap C), entries |-> Cardinality(A) - 1]
  BY <1>7 DEF Sums
<1>9. A \cap (IF d = x THEN B ELSE {}) = {} /\ Landed(d)' = A \cup (IF d = x THEN B ELSE {})
  BY <1>1, <1>2, <1>7, LandedPost DEF x
<1>10. A \subseteq Paths /\ B \subseteq Paths
  BY <1>2 DEF Landed
<1>11. DOMAIN dirs' = DOMAIN dirs
  BY <1>3
<1>12. CASE d = x
  <2>1. Alone(y) /\ y \notin touched
    BY <1>1, <1>5, <1>6, <1>7, <1>12, AloneInside
  <2>2. fs.kind[y] = "dir"
    BY <1>1, <1>2, <2>1 DEF CountInv
  <2>3. dirs[y] = [bytes |-> SumFunctionOnSet(Weight, B \cap C), entries |-> Cardinality(B) - 1]
    BY <1>5, <2>1, <2>2 DEF Sums
  <2> HIDE DEF A, B
  <2>4. dirs'[d] = [bytes |-> SumFunctionOnSet(Weight, A \cap C) + SumFunctionOnSet(Weight, B \cap C),
                    entries |-> (Cardinality(A) - 1) + (Cardinality(B) - 1) + 1]
    BY <1>3, <1>8, <1>12, <2>3
  <2>5. A \cap B = {} /\ Landed(d)' = A \cup B
    BY <1>9, <1>12
  <2>6. IsFiniteSet(A) /\ IsFiniteSet(B) /\ Cardinality(A) \in Nat /\ Cardinality(B) \in Nat
    BY <1>1, <1>10, WeightTyped, FS_CardinalityType
  <2>7. Cardinality(A \cup B) = Cardinality(A) + Cardinality(B)
    <3>1. Cardinality(A \cup B) = Cardinality(A) + Cardinality(B) - Cardinality(A \cap B)
      BY <2>6, FS_Union
    <3>2. Cardinality(A \cap B) = 0
      BY <2>5, FS_EmptySet
    <3> QED
      BY <2>6, <3>1, <3>2
  <2>8. (Cardinality(A) - 1) + (Cardinality(B) - 1) + 1 = Cardinality(A \cup B) - 1
    BY <2>6, <2>7
  <2>9. SumFunctionOnSet(Weight, (A \cup B) \cap C) =
            SumFunctionOnSet(Weight, A \cap C) + SumFunctionOnSet(Weight, B \cap C)
    <3> DEFINE U == (A \cup B) \cap C
               V == A \cap C
    <3>1. IsFiniteSet(U) /\ V \in SUBSET U /\ \A q \in U : Weight[q] \in Int
      BY <1>1, <1>10, WeightTyped
    <3>2. U \ V = B \cap C
      BY <2>5
    <3> HIDE DEF U, V
    <3>3. SumFunctionOnSet(Weight, U) = SumFunctionOnSet(Weight, V) + SumFunctionOnSet(Weight, U \ V)
      BY <3>1, SumSplit
    <3> QED
      BY <3>2, <3>3 DEF U, V
  <2> QED
    BY <1>4, <1>8, <1>11, <2>4, <2>5, <2>8, <2>9
<1>13. CASE d # x
  <2>1. dirs'[d] = dirs[d]
    BY <1>3, <1>8, <1>13
  <2>2. Landed(d)' = A
    BY <1>9, <1>13
  <2> QED
    BY <1>4, <1>8, <1>11, <2>1, <2>2
<1> QED
  BY <1>12, <1>13

\* Other programs leave the sums of the directories they do not touch.
LEMMA SumsOther ==
    ASSUME Typed, OnceInv, OtherPrograms, NEW C \in SUBSET visited, Sums(C)
    PROVE  Sums(C)'
<1>1. TypeOK /\ CountInv
  BY DEF Typed, OnceInv
<1>2. visited' = visited /\ dirs' = dirs /\ stack' = stack /\ touched \subseteq touched' /\ visited \subseteq Paths
  BY <1>1, UntouchedKept DEF scanVars, TypeOK
<1> SUFFICES ASSUME NEW d \in visited' \ {root}, fs'.kind[d] = "dir", Alone(d)'
             PROVE  /\ d \in DOMAIN dirs'
                    /\ dirs'[d] = [bytes |-> SumFunctionOnSet(Weight', Landed(d)' \cap C),
                                   entries |-> Cardinality(Landed(d)') - 1]
  BY DEF Sums
<1>3. d \in visited \ {root} /\ d \in Paths
  BY <1>2
<1>4. Alone(d) /\ fs.kind[d] = "dir" /\ \A q \in Subtree(d) : Weight'[q] = Weight[q]
  BY <1>3, AloneBefore
<1>5. Landed(d)' = Landed(d)
  BY <1>2 DEF Landed, Open
<1>6. /\ d \in DOMAIN dirs
      /\ dirs[d] = [bytes |-> SumFunctionOnSet(Weight, Landed(d) \cap C), entries |-> Cardinality(Landed(d)) - 1]
  BY <1>3, <1>4 DEF Sums
<1>7. Landed(d) \subseteq Subtree(d)
  <2> SUFFICES ASSUME NEW q \in Landed(d) PROVE q \in Subtree(d)
    OBVIOUS
  <2>1. q \in visited /\ d \in Above[q] /\ q \in Paths
    BY <1>2 DEF Landed
  <2>2. q \notin touched
    BY <1>1, <1>3, <1>4, <2>1, AloneInside
  <2>3. q \in Present
    BY <1>1, <2>1, <2>2 DEF CountInv
  <2> QED
    BY <2>1, <2>3 DEF Subtree
<1>8. SumFunctionOnSet(Weight, Landed(d) \cap C) = SumFunctionOnSet(Weight', Landed(d) \cap C)
  <2> DEFINE S == Landed(d) \cap C
             f == Weight
             g == Weight'
  <2>1. S \subseteq Paths
    BY <1>2 DEF Landed
  <2>2. IsFiniteSet(S) /\ \A q \in S : f[q] \in Int /\ g[q] = f[q]
    BY <1>1, <1>4, <1>7, <2>1, WeightTyped
  <2> HIDE DEF S, f, g
  <2>3. SumFunctionOnSet(f, S) = SumFunctionOnSet(g, S)
    BY <2>2, SumSame
  <2> QED
    BY <2>3 DEF S, f, g
<1> QED
  BY <1>2, <1>5, <1>6, <1>8

-----------------------------------------------------------------------------
(* The records of the directories.                                         *)

\* The first visit of an entry leaves the records of the directories that were
\* left: nothing of them was still to be met.
LEMMA ListedVisit ==
    ASSUME TypeOK, fs' = fs, touched' = touched, NEW C \in SUBSET visited, Listed(C),
           NEW p, p \notin visited, visited' = visited \cup {p}, Nesting,
           NEW D, D = C \/ D = C \cup {p},
           Open' = Open \/ Open' = Open \cup {p}, fs.kind[p] = "dir" => p \in Open' \cup {root},
           NEW new, new.path = p, records' = records \/ (records' = records \cup {new} /\ Open' = Open)
    PROVE  Listed(D)'
<1>1. /\ Weight' = Weight /\ caps' = caps
      /\ \A d : Subtree(d)' = Subtree(d) /\ (Alone(d)' <=> Alone(d))
  BY TreeSame
<1>2. p \notin Open
  BY DEF Nesting
<1>3. \A r \in records' : r.path \in visited' \ Open'
  <2> TAKE r \in records'
  <2>1. CASE r \in records
    BY <2>1 DEF Listed
  <2>2. CASE r \notin records
    BY <1>2, <2>2
  <2> QED
    BY <2>1, <2>2
<1>4. ASSUME NEW d \in visited' \ (Open' \cup {root}), fs'.kind[d] = "dir", Alone(d)'
      PROVE  /\ Subtree(d)' \subseteq visited'
             /\ LET sum == SumFunctionOnSet(Weight', Subtree(d)' \cap D)
                IN {r \in records' : r.path = d} =
                      IF sum < caps'.directory THEN {}
                      ELSE {[path |-> d, ino |-> fs'.ino[d], bytes |-> sum,
                             entries |-> Cardinality(Subtree(d)'), kind |-> "dir"]}
  <2>1. d # p
    BY <1>4
  <2>2. d \in visited \ (Open \cup {root}) /\ fs.kind[d] = "dir" /\ Alone(d)
    BY <1>1, <1>4, <2>1
  <2>3. Subtree(d) \subseteq visited
    BY <2>2 DEF Listed
  <2>4. Subtree(d) \cap D = Subtree(d) \cap C
    BY <2>3
  <2>5. {r \in records' : r.path = d} = {r \in records : r.path = d}
    BY <2>1
  <2>6. LET sum == SumFunctionOnSet(Weight, Subtree(d) \cap C)
        IN {r \in records : r.path = d} =
              IF sum < caps.directory THEN {}
              ELSE {[path |-> d, ino |-> fs.ino[d], bytes |-> sum,
                     entries |-> Cardinality(Subtree(d)), kind |-> "dir"]}
    BY <2>2 DEF Listed
  <2> QED
    BY <1>1, <2>3, <2>4, <2>5, <2>6
<1> QED
  BY <1>3, <1>4 DEF Listed

\* Nothing but what a directory that is left had summed up lies in it.
LEMMA LandedAll ==
    ASSUME Typed, OnceInv, CoverInv, skipped = {}, Post, NEW y, y = Top.path, Alone(y)
    PROVE  Landed(y) = Subtree(y)
<1>1. TypeOK /\ Nesting /\ CountInv /\ pc = "walk"
  BY DEF Typed, OnceInv, Post, Walking
<1>2. y \in Open /\ \A q \in (Open \cup Queued) \ {y} : y \notin Above[q]
  BY PostOnce
<1>3. y \in visited /\ y \in Paths /\ y \notin Queued
  BY <1>1, <1>2 DEF Nesting, TypeOK
<1>4. ASSUME NEW q \in Landed(y) PROVE q \in Subtree(y)
  <2>1. q \in visited /\ y \in Above[q] /\ q \in Paths
    BY <1>1 DEF Landed, TypeOK
  <2>2. q \notin touched
    BY <1>1, <1>3, <2>1, AloneInside
  <2> QED
    BY <1>1, <2>1, <2>2 DEF CountInv, Subtree
<1>5. ASSUME NEW q \in Subtree(y) PROVE q \in Landed(y)
  <2>1. q \in Present /\ y \in Above[q] /\ q \in Paths
    BY PresentPaths DEF Subtree
  <2>2. Untouched(q)
    BY <1>1, <1>3, <2>1, AloneInside
  <2>3. ASSUME NEW z \in Above[q], z \in Open \cup Queued PROVE z \in Above[y] /\ z \notin Queued
    <3>1. y \in Above[z] => z = y
      BY <1>2, <2>3
    <3>2. z \in Above[y]
      BY <1>3, <2>1, <3>1, AboveLinear, AbovePaths
    <3>3. z \in visited
      BY <1>1, <1>3, <3>2, MetAbove
    <3> QED
      BY <1>1, <3>2, <3>3 DEF Nesting
  <2>4. q \in visited
    BY <1>1, <2>1, <2>2, <2>3 DEF CoverInv, Awaited
  <2> QED
    BY <2>1, <2>3, <2>4 DEF Landed
<1> QED
  BY <1>4, <1>5

\* A directory that is left has its record when it is large.
LEMMA ListedPost ==
    ASSUME Typed, OnceInv, CoverInv, skipped = {}, Post, NEW C \in SUBSET visited, Sums(C), Listed(C)
    PROVE  Listed(C)'
<1>1. PICK y : y = Top.path
  OBVIOUS
<1>2. TypeOK /\ Nesting /\ CountInv
  BY DEF Typed, OnceInv
<1>3. y \in Open /\ Open' = Open \ {y} /\ visited' = visited /\ visited \subseteq Paths
  BY <1>1, <1>2, PostOnce DEF TypeOK
<1> DEFINE d == dirs[y]
           new == [path |-> y, ino |-> fs.ino[y], bytes |-> d.bytes, entries |-> d.entries + 1, kind |-> "dir"]
<1>4. /\ UNCHANGED <<fs, touched>>
      /\ records' = IF d.bytes >= caps.directory /\ y \in Present THEN records \cup {new} ELSE records
  BY <1>1 DEF Post
<1>5. new.path = y
  OBVIOUS
<1>6. y \in visited \ {root} /\ y \in Paths
  BY <1>2, <1>3 DEF Nesting
<1>7. /\ Weight' = Weight /\ caps' = caps
      /\ \A x : Subtree(x)' = Subtree(x) /\ (Alone(x)' <=> Alone(x))
  BY <1>4, TreeSame
<1>8. \A r \in records' : r.path \in visited' \ Open'
  BY <1>3, <1>4, <1>5, <1>6 DEF Listed
<1>9. ASSUME NEW x \in visited' \ (Open' \cup {root}), fs'.kind[x] = "dir", Alone(x)'
      PROVE  /\ Subtree(x)' \subseteq visited'
             /\ LET sum == SumFunctionOnSet(Weight', Subtree(x)' \cap C)
                IN {r \in records' : r.path = x} =
                      IF sum < caps'.directory THEN {}
                      ELSE {[path |-> x, ino |-> fs'.ino[x], bytes |-> sum,
                             entries |-> Cardinality(Subtree(x)'), kind |-> "dir"]}
  <2>1. CASE x # y
    <3>1. x \in visited \ (Open \cup {root}) /\ fs.kind[x] = "dir" /\ Alone(x)
      BY <1>3, <1>4, <1>7, <1>9, <2>1
    <3>2. Subtree(x) \subseteq visited
      BY <3>1 DEF Listed
    <3>3. LET sum == SumFunctionOnSet(Weight, Subtree(x) \cap C)
          IN {r \in records : r.path = x} =
                IF sum < caps.directory THEN {}
                ELSE {[path |-> x, ino |-> fs.ino[x], bytes |-> sum,
                       entries |-> Cardinality(Subtree(x)), kind |-> "dir"]}
      BY <3>1 DEF Listed
    <3>4. {r \in records' : r.path = x} = {r \in records : r.path = x}
      <4> HIDE DEF new, d
      <4> QED
        BY <1>4, <1>5, <2>1
    <3> QED
      BY <1>3, <1>4, <1>7, <3>2, <3>3, <3>4
  <2>2. CASE x = y
    <3>1. Alone(y) /\ fs.kind[y] = "dir"
      BY <1>4, <1>7, <1>9, <2>2
    <3>2. Landed(y) = Subtree(y)
      BY <1>1, <3>1, LandedAll
    <3> DEFINE S == Subtree(y)
               sum == SumFunctionOnSet(Weight, S \cap C)
    <3>3. d = [bytes |-> sum, entries |-> Cardinality(S) - 1]
      BY <1>6, <3>1, <3>2 DEF Sums
    <3>4. S \subseteq visited /\ S \subseteq Paths
      BY <1>3, <3>2 DEF Landed
    <3>5. IsFiniteSet(S) /\ Cardinality(S) \in Nat /\ sum \in Nat
      <4>1. IsFiniteSet(S) /\ IsFiniteSet(S \cap C) /\ \A q \in S \cap C : Weight[q] \in Nat
        BY <1>2, <3>4, WeightTyped
      <4> QED
        BY <4>1, SumNat, FS_CardinalityType
    <3> HIDE DEF S, sum
    <3>6. d.bytes = sum /\ d.entries = Cardinality(S) - 1
      BY <3>3
    <3>7. (Cardinality(S) - 1) + 1 = Cardinality(S)
      BY <3>5
    <3>8. new = [path |-> y, ino |-> fs.ino[y], bytes |-> sum, entries |-> Cardinality(S), kind |-> "dir"]
      <4> HIDE DEF d
      <4> QED
        BY <3>6, <3>7
    <3>9. y \in Present
      BY <1>2, <1>6, <3>1, AloneInside, AbovePaths DEF CountInv
    <3>10. caps.directory \in Nat
      BY <1>2 DEF TypeOK, Tree, Caps, caps
    <3> HIDE DEF new, d
    <3>11. {r \in records : r.path = y} = {}
      BY <1>3 DEF Listed
    <3>12. {r \in records' : r.path = y} = IF sum < caps.directory THEN {} ELSE {new}
      <4>1. CASE sum < caps.directory
        <5>1. records' = records
          BY <1>4, <3>5, <3>6, <3>10, <4>1
        <5> QED
          BY <3>11, <4>1, <5>1
      <4>2. CASE ~(sum < caps.directory)
        <5>1. records' = records \cup {new}
          BY <1>4, <3>5, <3>6, <3>9, <3>10, <4>2
        <5> QED
          BY <1>5, <3>11, <4>2, <5>1
      <4> QED
        BY <4>1, <4>2
    <3> QED
      BY <1>3, <1>4, <1>7, <2>2, <3>4, <3>8, <3>12 DEF S, sum
  <2> QED
    BY <2>1, <2>2
<1> QED
  BY <1>8, <1>9 DEF Listed

\* Other programs leave the records of what they do not touch.
LEMMA ListedOther ==
    ASSUME Typed, OnceInv, OtherPrograms, NEW C \in SUBSET visited, Listed(C)
    PROVE  Listed(C)'
<1>1. TypeOK
  BY DEF Typed
<1>2. visited' = visited /\ records' = records /\ stack' = stack /\ caps' = caps /\ visited \subseteq Paths
  BY <1>1, UntouchedKept DEF scanVars, TypeOK
<1>3. Open' = Open
  BY <1>2 DEF Open
<1>4. ASSUME NEW d \in visited' \ (Open' \cup {root}), fs'.kind[d] = "dir", Alone(d)'
      PROVE  /\ Subtree(d)' \subseteq visited'
             /\ LET sum == SumFunctionOnSet(Weight', Subtree(d)' \cap C)
                IN {r \in records' : r.path = d} =
                      IF sum < caps'.directory THEN {}
                      ELSE {[path |-> d, ino |-> fs'.ino[d], bytes |-> sum,
                             entries |-> Cardinality(Subtree(d)'), kind |-> "dir"]}
  <2>1. d \in visited \ (Open \cup {root}) /\ d \in Paths
    BY <1>2, <1>3, <1>4
  <2>2. /\ Alone(d) /\ Subtree(d)' = Subtree(d) /\ fs.kind[d] = "dir" /\ fs'.ino[d] = fs.ino[d]
        /\ \A q \in Subtree(d) : Weight'[q] = Weight[q]
    BY <1>4, <2>1, AloneBefore
  <2>3. Subtree(d) \subseteq visited
    BY <2>1, <2>2 DEF Listed
  <2>4. LET sum == SumFunctionOnSet(Weight, Subtree(d) \cap C)
        IN {r \in records : r.path = d} =
              IF sum < caps.directory THEN {}
              ELSE {[path |-> d, ino |-> fs.ino[d], bytes |-> sum,
                     entries |-> Cardinality(Subtree(d)), kind |-> "dir"]}
    BY <2>1, <2>2 DEF Listed
  <2>5. SumFunctionOnSet(Weight, Subtree(d) \cap C) = SumFunctionOnSet(Weight', Subtree(d) \cap C)
    <3> DEFINE S == Subtree(d) \cap C
               f == Weight
               g == Weight'
    <3>1. S \subseteq Paths
      BY <1>2
    <3>2. IsFiniteSet(S) /\ \A q \in S : f[q] \in Int /\ g[q] = f[q]
      BY <1>1, <2>2, <3>1, WeightTyped
    <3> HIDE DEF S, f, g
    <3>3. SumFunctionOnSet(f, S) = SumFunctionOnSet(g, S)
      BY <3>2, SumSame
    <3> QED
      BY <3>3 DEF S, f, g
  <2> QED
    BY <1>2, <2>2, <2>3, <2>4, <2>5
<1>5. \A r \in records' : r.path \in visited' \ Open'
  BY <1>2, <1>3 DEF Listed
<1> QED
  BY <1>4, <1>5 DEF Listed

-----------------------------------------------------------------------------
(* The sums and the records of every directory, step by step.              *)

\* A step that neither meets nor leaves an entry keeps all of it.
LEMMA SumsKept ==
    ASSUME UNCHANGED <<fs, touched, seen, bytes, visited, dirs, records>>, Open' = Open,
           NEW C \in SUBSET visited, Credit(C), Sums(C), Listed(C)
    PROVE  Credit(C)' /\ Sums(C)' /\ Listed(C)'
<1>1. /\ Present' = Present /\ Weight' = Weight /\ caps' = caps
      /\ \A d : Subtree(d)' = Subtree(d) /\ (Alone(d)' <=> Alone(d))
  BY TreeSame
<1>2. \A d : Landed(d)' = Landed(d)
  BY DEF Landed
<1>3. Credit(C)'
  BY <1>1 DEF Credit
<1>4. Sums(C)'
  BY <1>1, <1>2 DEF Sums
<1>5. Listed(C)'
  BY <1>1 DEF Listed
<1> QED
  BY <1>3, <1>4, <1>5

\* The first visit of a file.
LEMMA SumsStatFile ==
    ASSUME Typed, OnceInv, StatFile, NEW C \in SUBSET visited, Credit(C), Sums(C), Listed(C)
    PROVE  \E D \in SUBSET visited' : Credit(D)' /\ Sums(D)' /\ Listed(D)'
<1>1. TypeOK /\ Nesting
  BY DEF Typed, OnceInv
<1>2. PICK p : p = Top.path
  OBVIOUS
<1>3. PICK D : D = IF fs.ino[p] \in seen THEN C ELSE C \cup {p}
  OBVIOUS
<1>4. Credit(D)'
  BY <1>2, <1>3, CreditFile
<1>5. Sums(D)'
  BY <1>2, <1>3, SumsFile
<1>6. p \notin visited /\ visited' = visited \cup {p} /\ Open' = Open
  <2>1. ~StatDirectory
    BY DEF StatFile, StatDirectory, Stat
  <2> QED
    BY <1>2, <2>1, StatOnce
<1>7. fs' = fs /\ touched' = touched /\ fs.kind[p] # "dir"
  BY <1>2 DEF StatFile, Stat
<1>8. PICK new : new = [path |-> p, ino |-> fs.ino[p], bytes |-> fs.size[fs.ino[p]], entries |-> 1,
                        kind |-> "file"]
  OBVIOUS
<1>9. new.path = p /\ (records' = records \/ records' = records \cup {new})
  BY <1>2, <1>8 DEF StatFile
<1>10. Listed(D)'
  BY <1>1, <1>3, <1>6, <1>7, <1>9, ListedVisit
<1>11. D \in SUBSET visited'
  BY <1>3, <1>6
<1> QED
  BY <1>4, <1>5, <1>10, <1>11

\* The first visit of a directory.
LEMMA SumsStatDirectory ==
    ASSUME Typed, OnceInv, StatDirectory, NEW C \in SUBSET visited, Credit(C), Sums(C), Listed(C)
    PROVE  \E D \in SUBSET visited' : Credit(D)' /\ Sums(D)' /\ Listed(D)'
<1>1. TypeOK /\ Nesting
  BY DEF Typed, OnceInv
<1>2. PICK p : p = Top.path
  OBVIOUS
<1>3. PICK D : D = C \cup {p}
  OBVIOUS
<1>4. Credit(D)'
  BY <1>2, <1>3, CreditDirectory
<1>5. Sums(D)'
  BY <1>2, <1>3, SumsDirectory
<1>6. /\ p \notin visited /\ visited' = visited \cup {p}
      /\ (p = root /\ Open' = Open) \/ (p # root /\ Open' = Open \cup {p})
  BY <1>2, StatOnce
<1>7. fs' = fs /\ touched' = touched /\ records' = records
  BY DEF StatDirectory
<1>8. PICK new : new = [path |-> p]
  OBVIOUS
<1>9. Listed(D)'
  <2>1. new.path = p
    BY <1>8
  <2>2. p \in Open' \cup {root} /\ (Open' = Open \/ Open' = Open \cup {p})
    BY <1>6
  <2> QED
    BY <1>1, <1>3, <1>6, <1>7, <2>1, <2>2, ListedVisit
<1>10. D \in SUBSET visited'
  BY <1>3, <1>6
<1> QED
  BY <1>4, <1>5, <1>9, <1>10

\* Every step keeps the credits, the sums and the records.
LEMMA StepSums ==
    ASSUME Typed, OnceInv, CoverInv, SumsInv, [Next]_vars
    PROVE  SumsInv'
<1>1. TypeOK /\ StackInv /\ TreeInv
  BY DEF Typed
<1> SUFFICES ASSUME skipped' = {}
             PROVE  \E D \in SUBSET visited' : Credit(D)' /\ Sums(D)' /\ Listed(D)'
  BY DEF SumsInv
<1>2. skipped = {}
  BY SkippedKept
<1>3. PICK C \in SUBSET visited : Credit(C) /\ Sums(C) /\ Listed(C)
  BY <1>2 DEF SumsInv
<1>4. CASE StatFile
  BY <1>3, <1>4, SumsStatFile
<1>5. CASE StatDirectory
  BY <1>3, <1>5, SumsStatDirectory
<1>6. CASE StatFails \/ StatLink
  BY <1>6 DEF StatFails, StatLink, Skip
<1>7. CASE Post
  <2>1. UNCHANGED <<fs, touched, seen, bytes, visited>>
    BY <1>7 DEF Post
  <2>2. Present' = Present /\ Weight' = Weight
    BY <2>1, TreeSame
  <2>3. Credit(C)'
    BY <1>3, <2>1, <2>2 DEF Credit
  <2>4. Sums(C)'
    BY <1>3, <1>7, SumsPost
  <2>5. Listed(C)'
    BY <1>2, <1>3, <1>7, ListedPost
  <2> QED
    BY <2>1, <2>3, <2>4, <2>5
<1>8. CASE Enumerate \/ WalkDone \/ Rank \/ UNCHANGED vars
  <2>1. UNCHANGED <<fs, touched, seen, bytes, visited, dirs, records>>
    BY <1>8 DEF Enumerate, WalkDone, Rank, vars, scanVars
  <2>2. Open' = Open
    <3>1. CASE Enumerate
      BY <3>1, EnumerateOnce
    <3>2. CASE WalkDone \/ Rank \/ UNCHANGED vars
      <4>1. stack' = stack
        BY <3>2 DEF WalkDone, Rank, vars, scanVars
      <4> QED
        BY <4>1 DEF Open
    <3> QED
      BY <1>8, <3>1, <3>2
  <2>3. Credit(C)' /\ Sums(C)' /\ Listed(C)'
    BY <1>3, <2>1, <2>2, SumsKept
  <2> QED
    BY <2>1, <2>3
<1>9. CASE OtherPrograms
  <2>1. visited' = visited
    BY <1>9, UntouchedKept DEF Typed, scanVars
  <2>2. Credit(C)' /\ Sums(C)' /\ Listed(C)'
    BY <1>3, <1>9, CreditOther, SumsOther, ListedOther
  <2> QED
    BY <2>1, <2>2
<1> QED
  BY <1>4, <1>5, <1>6, <1>7, <1>8, <1>9 DEF Next, Scan

\* At the start nothing is credited.
LEMMA InitSums ==
    ASSUME Init
    PROVE  SumsInv
<1>1. visited = {} /\ records = {} /\ seen = {} /\ bytes = 0
  BY DEF Init
<1>2. Credit({})
  BY <1>1, SumEmpty DEF Credit
<1>3. Sums({}) /\ Listed({})
  BY <1>1 DEF Sums, Listed
<1> QED
  BY <1>1, <1>2, <1>3 DEF SumsInv

-----------------------------------------------------------------------------
(* What the sums come to at the end.                                       *)

\* Paths with an inode each weigh what their inodes do.
LEMMA WeightIsBlocks ==
    ASSUME TypeOK, NEW S \in SUBSET Paths, \A x, y \in S : fs.ino[x] = fs.ino[y] => x = y
    PROVE  SumFunctionOnSet(Weight, S) = Blocks(S)
<1> DEFINE f == fs.size
           g == fs.ino
           h == Weight
<1>1. IsFiniteSet(S) /\ \A x \in S : h[x] = f[g[x]] /\ f[g[x]] \in Int
  BY WeightTyped
<1>2. \A x, y \in S : g[x] = g[y] => x = y
  OBVIOUS
<1>3. SumFunctionOnSet(h, S) = SumFunctionOnSet(f, {g[x] : x \in S})
  <2> HIDE DEF f, g, h
  <2> QED
    BY <1>1, <1>2, SumImage
<1> QED
  BY <1>3 DEF Blocks

\* More paths have no fewer blocks.
LEMMA BlocksPart ==
    ASSUME TypeOK, NEW S \in SUBSET Paths, NEW T \in SUBSET S
    PROVE  Blocks(T) <= Blocks(S)
<1> DEFINE A == {fs.ino[p] : p \in S}
           B == {fs.ino[p] : p \in T}
           f == fs.size
           g == [p \in S |-> fs.ino[p]]
<1>1. IsFiniteSet(S) /\ g \in Surjection(S, A)
  BY WeightTyped DEF Surjection
<1>2. B \in SUBSET A
  OBVIOUS
<1>3. \A i \in A : f[i] \in Nat
  BY WeightTyped
<1> HIDE DEF A, B, f, g
<1>4. IsFiniteSet(A)
  BY <1>1, FS_Surjection
<1>5. SumFunctionOnSet(f, B) <= SumFunctionOnSet(f, A)
  BY <1>2, <1>3, <1>4, SumPart
<1> QED
  BY <1>5 DEF A, B, f, Blocks

\* At the end of a complete scan everything untouched was met, and nothing is
\* open.
LEMMA AllMet ==
    ASSUME Typed, CoverInv, pc = "done", Status = "complete"
    PROVE  skipped = {} /\ Open = {} /\ \A p \in Present : Untouched(p) => p \in visited
<1>1. skipped = {} /\ stack = <<>>
  BY DEF Status, Typed, StackInv
<1>2. Queued = {} /\ Open = {}
  BY <1>1 DEF Queued, Open
<1> QED
  BY <1>1, <1>2 DEF CoverInv, Awaited

\* The totals of an undisturbed scan.
LEMMA EndTotals ==
    ASSUME Typed, OnceInv, CoverInv, SumsInv
    PROVE  TotalsExact
<1> SUFFICES ASSUME pc = "done", touched = {}, Status = "complete"
             PROVE  counted = Cardinality(Present) /\ bytes = Blocks(Present)
  BY DEF TotalsExact, Quiet
<1>1. TypeOK /\ CountInv
  BY DEF Typed, OnceInv
<1>2. skipped = {} /\ Present \subseteq visited
  BY AllMet DEF Untouched
<1>3. visited = Present /\ counted = Cardinality(visited)
  BY <1>1, <1>2 DEF CountInv
<1>4. PICK C \in SUBSET visited : Credit(C)
  BY <1>2 DEF SumsInv
<1>5. bytes = SumFunctionOnSet(Weight, C)
  BY <1>4 DEF Credit
<1>6. SumFunctionOnSet(Weight, C) = Blocks(C)
  <2>1. C \in SUBSET Paths
    BY <1>3, PresentPaths
  <2>2. \A x, y \in C : fs.ino[x] = fs.ino[y] => x = y
    BY <1>4 DEF Credit
  <2> QED
    BY <1>1, <2>1, <2>2, WeightIsBlocks
<1>7. {fs.ino[p] : p \in C} = {fs.ino[p] : p \in Present}
  <2>1. ASSUME NEW p \in Present PROVE \E q \in C : fs.ino[q] = fs.ino[p]
    BY <1>3, <1>4 DEF Credit
  <2> QED
    BY <1>3, <2>1
<1> QED
  BY <1>3, <1>5, <1>6, <1>7 DEF Blocks

\* The record of a directory nobody touched.
LEMMA EndSizes ==
    ASSUME Typed, OnceInv, CoverInv, RecordInv, SumsInv
    PROVE  SizesExact
<1> SUFFICES ASSUME pc = "done", Status = "complete", NEW d \in Present \ {root}, fs.kind[d] = "dir",
                    Alone(d), NEW own, own = Subtree(d),
                    NEW mine, mine = {c.record : c \in {x \in result : x.record.path = d}}
             PROVE  /\ \A m \in mine : m.bytes <= Blocks(own)
                    /\ (\A q \in Present \ own : \A p \in own : fs.ino[p] # fs.ino[q])
                       => mine = IF Blocks(own) < caps.directory THEN {}
                                 ELSE {[path |-> d, ino |-> fs.ino[d], bytes |-> Blocks(own),
                                        entries |-> Cardinality(own), kind |-> "dir"]}
  BY DEF SizesExact
<1>1. TypeOK /\ Present \subseteq Paths /\ own \subseteq Present
  BY PresentPaths DEF Typed, Subtree
<1>2. skipped = {} /\ Open = {} /\ \A p \in Present : Untouched(p) => p \in visited
  BY AllMet
<1>3. PICK C \in SUBSET visited : Credit(C) /\ Listed(C)
  BY <1>2 DEF SumsInv
<1>4. \A q \in own : q \in visited \ touched /\ fs.ino[q] \notin touched
  <2> SUFFICES ASSUME NEW q \in own PROVE q \in visited \ touched /\ fs.ino[q] \notin touched
    OBVIOUS
  <2>1. q \in Present /\ q \in Paths /\ d \in Paths /\ d \in Above[q]
    BY <1>1 DEF Subtree
  <2>2. Untouched(q) /\ q \notin touched /\ fs.ino[q] \notin touched
    BY <1>1, <2>1, AloneInside
  <2> QED
    BY <1>2, <2>1, <2>2
<1>5. d \in own
  BY <1>1, AbovePaths DEF Subtree
<1>6. mine = {r \in records : r.path = d}
  <2>1. \A c \in result : c.record \in records
    BY <1>1 DEF TypeOK
  <2>2. records \subseteq {c.record : c \in result}
    BY <1>2 DEF RecordInv
  <2> QED
    BY <2>1, <2>2
<1>7. SumFunctionOnSet(Weight, own \cap C) = Blocks(own \cap C)
  <2>1. own \cap C \in SUBSET Paths
    BY <1>1
  <2>2. \A x, y \in own \cap C : fs.ino[x] = fs.ino[y] => x = y
    BY <1>3, <1>4 DEF Credit
  <2> QED
    BY <1>1, <2>1, <2>2, WeightIsBlocks
<1>8. mine = IF Blocks(own \cap C) < caps.directory THEN {}
             ELSE {[path |-> d, ino |-> fs.ino[d], bytes |-> Blocks(own \cap C),
                    entries |-> Cardinality(own), kind |-> "dir"]}
  <2>1. d \in visited \ (Open \cup {root})
    BY <1>2, <1>4, <1>5
  <2> QED
    BY <1>3, <1>6, <1>7, <2>1 DEF Listed
<1>9. Blocks(own \cap C) <= Blocks(own)
  BY <1>1, BlocksPart
<1>10. \A m \in mine : m.bytes <= Blocks(own)
  <2> SUFFICES ASSUME NEW m \in mine PROVE m.bytes <= Blocks(own)
    OBVIOUS
  <2>1. m = [path |-> d, ino |-> fs.ino[d], bytes |-> Blocks(own \cap C), entries |-> Cardinality(own),
             kind |-> "dir"]
    BY <1>8
  <2> QED
    BY <1>9, <2>1
<1>11. ASSUME \A q \in Present \ own : \A p \in own : fs.ino[p] # fs.ino[q]
       PROVE  Blocks(own \cap C) = Blocks(own)
  <2>1. ASSUME NEW p \in own PROVE \E q \in own \cap C : fs.ino[q] = fs.ino[p]
    <3>1. CASE p \in C
      BY <2>1, <3>1
    <3>2. CASE p \notin C
      <4>1. fs.ino[p] \in seen \ touched
        BY <1>3, <1>4, <2>1, <3>2 DEF Credit
      <4>2. PICK q \in C \cap Present : fs.ino[q] = fs.ino[p]
        BY <1>3, <4>1 DEF Credit
      <4> QED
        BY <1>11, <2>1, <4>2
    <3> QED
      BY <3>1, <3>2
  <2>2. {fs.ino[p] : p \in own \cap C} = {fs.ino[p] : p \in own}
    BY <2>1
  <2> QED
    BY <2>2 DEF Blocks
<1> QED
  BY <1>8, <1>10, <1>11

\* The scan keeps the order of the walk, the credits, the sums and the records.
LEMMA WalkInvariant == Spec => [](Typed /\ CoverInv /\ RecordInv /\ OnceInv /\ SumsInv)
<1>1. Init => Typed /\ CoverInv /\ RecordInv /\ OnceInv /\ SumsInv
  <2>1. Init => RecordInv
    BY DEF Init, RecordInv
  <2> QED
    BY <2>1, InitTyped, InitCover, InitOnce, InitSums DEF Typed
<1>2. Typed /\ CoverInv /\ RecordInv /\ OnceInv /\ SumsInv /\ [Next]_vars
      => (Typed /\ CoverInv /\ RecordInv /\ OnceInv /\ SumsInv)'
  <2>1. Typed /\ [Next]_vars => Typed'
    BY StepTyped DEF Typed
  <2> QED
    BY <2>1, StepCover, StepRecords, StepOnce, StepSums
<1> QED
  BY <1>1, <1>2, PTL DEF Spec

\* A complete scan that nobody disturbed has counted every entry of the tree
\* once, and the blocks of every inode once however many names it has (scan of
\* inventory.py).
THEOREM TotalsExactHolds == Spec => []TotalsExact
<1>1. Typed /\ CoverInv /\ RecordInv /\ OnceInv /\ SumsInv => TotalsExact
  BY EndTotals
<1> QED
  BY <1>1, WalkInvariant, PTL

\* In a complete scan the record of a directory nobody touched has its identity,
\* its true size and its number of entries, whatever happens elsewhere, and
\* never more bytes than lie in it (scan of inventory.py).
THEOREM SizesExactHolds == Spec => []SizesExact
<1>1. Typed /\ CoverInv /\ RecordInv /\ OnceInv /\ SumsInv => SizesExact
  BY EndSizes
<1> QED
  BY <1>1, WalkInvariant, PTL
=============================================================================
