------------------------ MODULE LauncherBundleProofs ------------------------
(***************************************************************************)
(* Proofs about launchers that share a runtime directory: a launcher that  *)
(* starts the bundled program has a whole bundle for as long as it runs,   *)
(* and leaves no extraction directory behind, for any number of launchers, *)
(* any payload and whatever lay at the path before them.                   *)
(***************************************************************************)
EXTENDS LauncherBundle, TLAPS

-----------------------------------------------------------------------------
(* Types.                                                                  *)

\* What the constants are.
LEMMA Names ==
    /\ Old \notin Launchers /\ None \notin Dirs /\ Old \in Dirs /\ Launchers \subseteq Dirs
    /\ Marker \in Parts /\ Hashed \subseteq Parts /\ Parts = Hashed \cup Rest \cup {Marker}
    /\ ToSet(Archive) \subseteq Parts /\ Leftovers \subseteq SUBSET Parts
    /\ \A i \in DOMAIN Archive : Archive[i] \in Parts
  BY BundleAssumption DEF Dirs, Parts, Rest, ToSet

\* What is at the path is a set of parts.
LEMMA HereParts ==
    ASSUME TypeOK
    PROVE  Here \subseteq Parts
  BY Names DEF TypeOK, Here

\* The program starts in a well typed state.
LEMMA InitTyped ==
    ASSUME Init
    PROVE  TypeOK
<1>1. PICK S \in Leftovers : holds = [d \in Dirs |-> IF d = Old /\ bundle = Old THEN S ELSE {}]
  BY DEF Init
<1>2. holds \in [Dirs -> SUBSET Parts]
  BY <1>1, Names
<1>3. /\ bundle \in Dirs \cup {None} /\ todo \in [Launchers -> SUBSET Hashed]
      /\ {hand, looked} \subseteq [Launchers -> Dirs \cup {None}]
      /\ pc = [l \in Launchers |-> "look"]
  BY Names DEF Init
<1>4. silent \in BOOLEAN /\ raced \in BOOLEAN /\ short \in BOOLEAN
  BY Zenon DEF Init
<1>5. {silent, raced, short} \subseteq BOOLEAN
  BY <1>4
<1> QED
  BY <1>2, <1>3, <1>5 DEF TypeOK

\* The kinds of steps, told by what they do to the history.
LEMMA HistoryKept ==
    ASSUME NEW l \in Launchers, Launcher(l) \/ Kill(l)
    PROVE  /\ silent' = silent
           /\ raced' = raced \/ OpenBundle(l)
           /\ short' = short \/ short' = TRUE
  BY DEF Launcher, Kill, ReadMarker, VerifyPart, VerifyEnds, Lstat, OpenBundle, RemovePart,
         RemoveDirectory, ExtractPart, ExtractFails, WriteMarker, RenameLooks, Rename, history

\* The history variables stay Boolean.
LEMMA HistoryTyped ==
    ASSUME TypeOK, NEW l \in Launchers, Launcher(l) \/ Kill(l)
    PROVE  {silent', raced', short'} \subseteq BOOLEAN
<1>1. silent \in BOOLEAN /\ raced \in BOOLEAN /\ short \in BOOLEAN
  BY DEF TypeOK
<1>2. raced' \in BOOLEAN
  <2>1. CASE raced' = raced
    BY <1>1, <2>1
  <2>2. CASE OpenBundle(l)
    <3>1. raced' = (raced \/ bundle \notin {None, looked[l]})
      BY <2>2 DEF OpenBundle
    <3> QED
      BY <3>1, Zenon
  <2> QED
    BY <2>1, <2>2, HistoryKept
<1>3. silent' \in BOOLEAN /\ short' \in BOOLEAN
  BY <1>1, HistoryKept
<1> QED
  BY <1>2, <1>3

\* Every step keeps the types: a launcher moves from one control state to
\* another, the directories stay sets of parts.
LEMMA StepTyped ==
    ASSUME TypeOK, [Next]_vars
    PROVE  TypeOK'
<1>1. CASE UNCHANGED vars
  BY <1>1 DEF TypeOK, vars
<1>2. ASSUME NEW l \in Launchers, Launcher(l) \/ Kill(l)
      PROVE  TypeOK'
  <2>0. {silent', raced', short'} \subseteq BOOLEAN
    BY <1>2, HistoryTyped
  <2>1. CASE ReadMarker(l)
    BY <2>0, <2>1 DEF TypeOK, ReadMarker, Go
  <2>2. CASE VerifyPart(l)
    BY <2>0, <2>2 DEF TypeOK, VerifyPart
  <2>3. CASE VerifyEnds(l) \/ Lstat(l)
    BY <2>0, <2>3 DEF TypeOK, VerifyEnds, Lstat, Go
  <2>4. CASE OpenBundle(l)
    BY <2>0, <2>4 DEF TypeOK, OpenBundle, Go
  <2>5. CASE RemovePart(l)
    <3>1. hand[l] \in Dirs
      BY <2>5 DEF TypeOK, RemovePart
    <3>2. holds' \in [Dirs -> SUBSET Parts]
      BY <2>5, <3>1 DEF TypeOK, RemovePart
    <3> QED
      BY <2>0, <2>5, <3>2 DEF TypeOK, RemovePart
  <2>6. CASE RemoveDirectory(l)
    BY <2>0, <2>6 DEF TypeOK, RemoveDirectory, Go
  <2>7. CASE ExtractPart(l)
    <3>1. holds' \in [Dirs -> SUBSET Parts]
      BY <2>7, Names DEF TypeOK, ExtractPart
    <3> QED
      BY <2>0, <2>7, <3>1 DEF TypeOK, ExtractPart
  <2>8. CASE ExtractFails(l) \/ WriteMarker(l)
    <3>1. holds' \in [Dirs -> SUBSET Parts]
      BY <2>8, Names DEF TypeOK, ExtractFails, WriteMarker
    <3> QED
      BY <2>0, <2>8, <3>1 DEF TypeOK, ExtractFails, WriteMarker, Go
  <2>9. CASE RenameLooks(l) \/ Rename(l)
    BY <2>0, <2>9, Names DEF TypeOK, RenameLooks, Rename, Go
  <2>10. CASE Kill(l)
    BY <2>0, <2>10 DEF TypeOK, Kill
  <2> QED
    BY <1>2, <2>1, <2>2, <2>3, <2>4, <2>5, <2>6, <2>7, <2>8, <2>9, <2>10 DEF Launcher
<1> QED
  BY <1>1, <1>2 DEF Next

\* Whatever the launchers do, in any order and wherever one is killed, the
\* state is well typed.
THEOREM TypeCorrect == Spec => []TypeOK
<1> QED
  BY InitTyped, StepTyped, PTL DEF Spec

-----------------------------------------------------------------------------
(* No extraction directory is left behind.                                 *)

\* At first nobody has extracted anything.
LEMMA InitTidy ==
    ASSUME Init
    PROVE  TidyInv
<1>1. \A l \in Launchers : holds[l] = {}
  BY Names DEF Init
<1> QED
  BY <1>1 DEF TidyInv, Tidy, Init

\* An extraction works on the launcher's own directory.
LEMMA WorkOnOwn ==
    ASSUME TypeOK, NEW l \in Launchers, ExtractPart(l) \/ ExtractFails(l) \/ WriteMarker(l)
    PROVE  \E S \in SUBSET Parts, at \in {"extract", "failed", "rename"} :
             /\ holds' = [holds EXCEPT ![l] = S] /\ pc' = [pc EXCEPT ![l] = at]
             /\ at = "failed" => S = {}
             /\ at = "rename" => S = Parts
<1>0. l \in Dirs /\ holds[l] \subseteq Parts /\ Parts = ToSet(Archive) \cup {Marker}
  BY Names DEF TypeOK, Parts
<1>1. CASE ExtractPart(l)
  <2>1. PICK i \in DOMAIN Archive : holds' = [holds EXCEPT ![l] = @ \cup {Archive[i]}]
    BY <1>1 DEF ExtractPart
  <2>2. holds[l] \cup {Archive[i]} \in SUBSET Parts
    BY <1>0, Names
  <2>3. pc' = [pc EXCEPT ![l] = "extract"]
    BY <1>1 DEF ExtractPart, TypeOK
  <2> QED
    BY <2>1, <2>2, <2>3
<1>2. CASE ExtractFails(l)
  BY <1>2 DEF ExtractFails, Go
<1>3. CASE WriteMarker(l)
  <2>1. holds[l] \cup {Marker} = Parts
    BY <1>0, <1>3 DEF WriteMarker
  <2> QED
    BY <1>3, <2>1 DEF WriteMarker, Go
<1> QED
  BY <1>1, <1>2, <1>3

\* A launcher empties its own directory on every way from the extraction to
\* its end, except the one where the directory becomes the bundle.
LEMMA StepTidy ==
    ASSUME TypeOK, TidyInv, [Next]_vars
    PROVE  TidyInv'
<1>1. CASE UNCHANGED vars
  BY <1>1 DEF TidyInv, Tidy, vars
<1>2. ASSUME NEW l \in Launchers, Launcher(l) \/ Kill(l)
      PROVE  TidyInv'
  <2>1. CASE ReadMarker(l) \/ VerifyPart(l) \/ VerifyEnds(l) \/ Lstat(l) \/ OpenBundle(l)
    BY <2>1 DEF TypeOK, TidyInv, Tidy, ReadMarker, VerifyPart, VerifyEnds, Lstat, OpenBundle, Go
  <2>2. CASE RemovePart(l)
    <3>1. hand[l] \in Dirs
      BY <2>2 DEF TypeOK, RemovePart
    <3>2. \A m \in Launchers : holds'[m] \subseteq holds[m]
      BY <2>2, <3>1, Names DEF TypeOK, RemovePart
    <3> QED
      BY <2>2, <3>2 DEF TypeOK, TidyInv, Tidy, RemovePart
  <2>3. CASE RemoveDirectory(l)
    <3>1. CASE bundle' = bundle
      BY <2>3, <3>1 DEF TypeOK, TidyInv, Tidy, RemoveDirectory, Go
    <3>2. CASE Here = {} /\ bundle' = None
      <4>1. \A m \in Launchers : bundle = m => holds[m] = {}
        BY <3>2, Names DEF Here
      <4> QED
        BY <2>3, <3>2, <4>1 DEF TypeOK, TidyInv, Tidy, RemoveDirectory, Go
    <3> QED
      BY <2>3, <3>1, <3>2 DEF RemoveDirectory
  <2>4. CASE ExtractPart(l) \/ ExtractFails(l) \/ WriteMarker(l)
    <3>0. \E S \in SUBSET Parts, at \in {"extract", "failed", "rename"} :
            /\ holds' = [holds EXCEPT ![l] = S] /\ pc' = [pc EXCEPT ![l] = at]
            /\ at = "failed" => S = {}
      BY <2>4, WorkOnOwn
    <3>1. \A m \in Launchers \ {l} : holds'[m] = holds[m] /\ pc'[m] = pc[m]
      BY <3>0, Names DEF TypeOK
    <3>2. pc'[l] \in {"extract", "rename"} \/ (pc'[l] = "failed" /\ holds'[l] = {})
      BY <3>0, Names DEF TypeOK
    <3>3. bundle' = bundle
      BY <2>4 DEF ExtractPart, ExtractFails, WriteMarker
    <3> QED
      BY <3>1, <3>2, <3>3 DEF TidyInv, Tidy
  <2>5. CASE Rename(l)
    <3>1. \A m \in Launchers \ {l} : holds'[m] = holds[m] /\ pc'[m] = pc[m]
      BY <2>5, Names DEF TypeOK, Rename, Go
    <3>2. CASE Here = {} /\ pc'[l] = "run" /\ bundle' = l
      <4>1. \A m \in Launchers : bundle = m => holds[m] = {}
        BY <3>2, Names DEF Here
      <4> QED
        BY <3>1, <3>2, <4>1 DEF TidyInv, Tidy
    <3>3. CASE pc'[l] = "again" /\ holds'[l] = {} /\ bundle' = bundle
      BY <3>1, <3>3 DEF TidyInv, Tidy
    <3> QED
      BY <2>5, <3>2, <3>3, Names DEF TypeOK, Rename, Go
  <2>6. CASE RenameLooks(l)
    <3>1. \A m \in Launchers \ {l} : holds'[m] = holds[m] /\ pc'[m] = pc[m]
      BY <2>6, Names DEF TypeOK, RenameLooks, Go
    <3>2. bundle' = bundle /\ (pc'[l] = "move" \/ holds'[l] = {})
      BY <2>6, Names DEF TypeOK, RenameLooks, Go
    <3>3. pc'[l] \in {"move", "again"}
      BY <2>6 DEF TypeOK, RenameLooks, Go
    <3> QED
      BY <3>1, <3>2, <3>3 DEF TidyInv, Tidy
  <2>7. CASE Kill(l)
    BY <2>7 DEF TypeOK, TidyInv, Tidy, Kill
  <2> QED
    BY <1>2, <2>1, <2>2, <2>3, <2>4, <2>5, <2>6, <2>7 DEF Launcher
<1> QED
  BY <1>1, <1>2 DEF Next

\* A launcher that starts the program or gives up leaves no extraction
\* directory of its own beside the bundle.
THEOREM TidyHolds == Spec => []Tidy
<1>1. Spec => []TidyInv
  BY TypeCorrect, InitTidy, StepTidy, PTL DEF Spec
<1>2. TidyInv => Tidy
  BY DEF TidyInv
<1> QED
  BY <1>1, <1>2, PTL

-----------------------------------------------------------------------------
(* What runs is whole.                                                     *)

\* A directory that lacks something is not whole; nothing is not whole.
LEMMA NotWhole ==
    /\ Parts # {} /\ Hashed \cup {Marker} \subseteq Parts
    /\ Here # {} => bundle # None
  BY Names DEF Here

\* At first the bundle is Old, as it was left, or there is none.
LEMMA InitWhole ==
    ASSUME Init
    PROVE  WholeInv
<1> SUFFICES ASSUME ~silent
             PROVE  PathInv /\ \A l \in Launchers : SeenInv(l)
  BY DEF WholeInv
<1>1. PICK S \in Leftovers : holds = [d \in Dirs |-> IF d = Old /\ bundle = Old THEN S ELSE {}]
  BY DEF Init
<1>2. bundle = Old \/ (bundle = None /\ holds[Old] = {})
  BY <1>1, Names DEF Init
<1>3. bundle = Old => Here = Parts \/ ~(Hashed \cup {Marker} \subseteq Here)
  <2> SUFFICES ASSUME bundle = Old, Hashed \cup {Marker} \subseteq Here
               PROVE  Here = Parts
    OBVIOUS
  <2>1. Rest \subseteq Here
    BY DEF Init
  <2>2. TypeOK
    BY InitTyped
  <2> QED
    BY <2>1, <2>2, HereParts, Names
<1>4. \A l \in Launchers : pc[l] = "look"
  BY DEF Init
<1>5. PathInv
  BY <1>2, <1>3, Names DEF PathInv
<1>6. \A l \in Launchers : SeenInv(l)
  BY <1>4 DEF SeenInv
<1> QED
  BY <1>5, <1>6

\* Steps that leave the path and every directory alone, but the one l works
\* in, disturb only what l has seen.
LEMMA OthersSee ==
    ASSUME TypeOK, PathInv, \A m \in Launchers : SeenInv(m),
           NEW l \in Launchers, pc[l] # "run", bundle' = bundle,
           \A d \in Dirs \ {l} : holds'[d] = holds[d],
           \A m \in Launchers \ {l} : /\ pc'[m] = pc[m] /\ todo'[m] = todo[m]
                                      /\ hand'[m] = hand[m] /\ looked'[m] = looked[m]
    PROVE  /\ Here' = Here /\ PathInv' /\ \A m \in Launchers \ {l} : SeenInv(m)'
           /\ holds'[Old] = holds[Old]
<1>1. bundle # l
  BY DEF PathInv
<1>2. Here' = Here
  BY <1>1, Names DEF Here, TypeOK
<1>3. holds'[Old] = holds[Old]
  BY Names
<1>4. PathInv'
  <2>1. (bundle = Old \/ holds[Old] = {})'
    BY <1>3 DEF PathInv
  <2>2. (bundle = Old => Here = Parts \/ ~(Hashed \cup {Marker} \subseteq Here))'
    BY <1>2 DEF PathInv
  <2>3. (bundle \in Launchers => pc[bundle] = "run" /\ Here = Parts)'
    BY <1>1, <1>2 DEF PathInv
  <2> QED
    BY <2>1, <2>2, <2>3 DEF PathInv
<1>5. ASSUME NEW m \in Launchers \ {l}
      PROVE  SeenInv(m)'
  <2>1. holds'[m] = holds[m]
    BY Names
  <2>2. SeenInv(m)
    OBVIOUS
  <2> QED
    BY <1>2, <1>3, <2>1, <2>2 DEF SeenInv
<1> QED
  BY <1>2, <1>3, <1>4, <1>5

\* When something is missing at the path, it is not the bundle of a launcher,
\* Old is not whole, nobody runs and nobody verifies the bundle of another.
LEMMA Missing ==
    ASSUME TypeOK, PathInv, \A m \in Launchers : SeenInv(m), Here # Parts
    PROVE  /\ bundle \notin Launchers /\ holds[Old] # Parts
           /\ \A m \in Launchers : pc[m] # "run" /\ (pc[m] = "verify" => looked[m] = Old)
<1>1. bundle \notin Launchers
  BY DEF PathInv
<1>2. holds[Old] # Parts
  <2>1. CASE bundle = Old
    BY <2>1, Names DEF Here
  <2>2. CASE holds[Old] = {}
    BY <2>2, NotWhole
  <2> QED
    BY <2>1, <2>2 DEF PathInv
<1> QED
  BY <1>1, <1>2 DEF SeenInv

\* Looking and verifying: who sees a marker goes on to verify, and who misses
\* a part has not seen a whole bundle.
LEMMA LookingSees ==
    ASSUME TypeOK, PathInv, \A m \in Launchers : SeenInv(m), NEW l \in Launchers,
           ReadMarker(l) \/ VerifyPart(l) \/ VerifyEnds(l) \/ Lstat(l)
    PROVE  PathInv' /\ \A m \in Launchers : SeenInv(m)'
<1>1. /\ bundle' = bundle /\ holds' = holds /\ hand' = hand /\ pc[l] # "run"
      /\ \A m \in Launchers \ {l} : /\ pc'[m] = pc[m] /\ todo'[m] = todo[m]
                                    /\ hand'[m] = hand[m] /\ looked'[m] = looked[m]
  BY DEF TypeOK, ReadMarker, VerifyPart, VerifyEnds, Lstat, Go
<1>2. /\ Here' = Here /\ PathInv' /\ holds'[Old] = holds[Old]
      /\ \A m \in Launchers \ {l} : SeenInv(m)'
  BY <1>1, OthersSee
<1>3. SeenInv(l)
  OBVIOUS
<1>4. CASE ReadMarker(l)
  <2>1. todo'[l] = Hashed
    BY <1>4 DEF ReadMarker, TypeOK
  <2>2. ASSUME pc'[l] = "verify" /\ looked'[l] = bundle /\ Marker \in Here
       PROVE  SeenInv(l)'
    <3>0. bundle \in Launchers \/ bundle = Old
      BY <2>2, NotWhole DEF TypeOK, Dirs
    <3>1. Here # Parts => ~(Hashed \subseteq Here) /\ bundle = Old
      BY <2>2, <3>0 DEF PathInv
    <3> QED
      BY <1>1, <1>2, <2>1, <2>2, <3>1, NotWhole DEF SeenInv
  <2>3. ASSUME pc'[l] = "stat" /\ looked'[l] = bundle /\ Marker \notin Here
       PROVE  SeenInv(l)'
    <3>1. Here # Parts
      BY <2>3, Names
    <3>2. bundle \in {Old, None} /\ holds[Old] # Parts
      BY <3>1, Missing DEF TypeOK, Dirs
    <3> QED
      BY <1>2, <2>3, <3>2 DEF SeenInv
  <2>4. ASSUME pc'[l] = "reverify" /\ Marker \in Here
       PROVE  SeenInv(l)'
    <3>0. bundle \in Launchers \/ bundle = Old
      BY <2>4, NotWhole DEF TypeOK, Dirs
    <3>1. Here # Parts => ~(Hashed \subseteq Here)
      BY <2>4, <3>0 DEF PathInv
    <3> QED
      BY <1>2, <2>1, <2>4, <3>1 DEF SeenInv
  <2>5. ASSUME pc'[l] = "failed"
       PROVE  SeenInv(l)'
    BY <2>5 DEF SeenInv
  <2>6. SeenInv(l)'
    BY <1>4, <2>2, <2>3, <2>4, <2>5 DEF ReadMarker, TypeOK, Go
  <2> QED
    BY <1>2, <2>6
<1>5. CASE VerifyPart(l)
  <2>1. PICK p \in todo[l] \cap Here : todo' = [todo EXCEPT ![l] = @ \ {p}]
    BY <1>5 DEF VerifyPart
  <2>2. ~(todo[l] \subseteq Here) => ~(todo'[l] \subseteq Here)
    <3>1. todo'[l] = todo[l] \ {p} /\ p \in Here
      BY <2>1 DEF TypeOK
    <3> QED
      BY <3>1
  <2>3. pc'[l] = pc[l] /\ looked' = looked /\ pc[l] \in {"verify", "reverify"}
    BY <1>5 DEF VerifyPart
  <2>4. SeenInv(l)'
    BY <1>1, <1>2, <1>3, <2>2, <2>3 DEF SeenInv
  <2> QED
    BY <1>2, <2>4
<1>6. CASE VerifyEnds(l)
  <2>1. pc[l] \in {"verify", "reverify"} /\ looked' = looked
    BY <1>6 DEF VerifyEnds, Go
  <2>2. CASE todo[l] = {} /\ pc'[l] = "run"
    <3>1. Here = Parts
      BY <1>3, <2>1, <2>2 DEF SeenInv
    <3>2. bundle # None
      BY <3>1, NotWhole
    <3> QED
      BY <1>1, <1>2, <2>2, <3>1, <3>2 DEF SeenInv
  <2>3. CASE ~(todo[l] \subseteq Here) /\ pc[l] = "verify" /\ pc'[l] = "stat"
    <3>1. Here # Parts
      BY <2>3, Names DEF TypeOK
    <3>2. looked[l] = Old /\ holds[Old] # Parts
      BY <2>3, <3>1, Missing
    <3>3. SeenInv(l)'
      BY <1>2, <2>1, <2>3, <3>2 DEF SeenInv
    <3> QED
      BY <1>2, <3>3
  <2>4. CASE pc'[l] = "failed"
    BY <1>2, <2>4 DEF SeenInv
  <2> QED
    BY <1>6, <2>2, <2>3, <2>4 DEF VerifyEnds, Valid, Go, TypeOK
<1>7. CASE Lstat(l)
  <2>1. pc[l] = "stat" /\ pc'[l] \in {"extract", "open"} /\ looked' = looked
    BY <1>7 DEF Lstat, Go, TypeOK
  <2>2. SeenInv(l)'
    BY <1>2, <1>3, <2>1 DEF SeenInv
  <2> QED
    BY <1>2, <2>2
<1> QED
  BY <1>4, <1>5, <1>6, <1>7

\* Removing: a launcher opens what it had found, which is Old, and takes parts
\* of it away.
LEMMA RemovingSees ==
    ASSUME TypeOK, PathInv, \A m \in Launchers : SeenInv(m), NEW l \in Launchers,
           (OpenBundle(l) /\ ~raced') \/ RemovePart(l) \/ RemoveDirectory(l)
    PROVE  PathInv' /\ \A m \in Launchers : SeenInv(m)'
<1>1. SeenInv(l)
  OBVIOUS
<1>2. CASE OpenBundle(l) /\ ~raced'
  <2>1. bundle \in {None, looked[l]}
    BY <1>2 DEF OpenBundle
  <2>2. /\ bundle' = bundle /\ holds' = holds /\ looked' = looked /\ pc[l] = "open"
        /\ \A m \in Launchers \ {l} : /\ pc'[m] = pc[m] /\ todo'[m] = todo[m]
                                      /\ hand'[m] = hand[m] /\ looked'[m] = looked[m]
    BY <1>2 DEF OpenBundle, Go, TypeOK
  <2>3. /\ Here' = Here /\ PathInv' /\ holds'[Old] = holds[Old]
        /\ \A m \in Launchers \ {l} : SeenInv(m)'
    BY <2>2, OthersSee
  <2>4. pc'[l] = "extract" \/ (pc'[l] = "remove" /\ bundle # None /\ hand'[l] = bundle)
    BY <1>2 DEF OpenBundle, Go, TypeOK
  <2>5. SeenInv(l)'
    BY <1>1, <2>1, <2>2, <2>3, <2>4 DEF SeenInv
  <2> QED
    BY <2>3, <2>5
<1>3. CASE RemovePart(l)
  <2>1. PICK p \in holds[hand[l]] : holds' = [holds EXCEPT ![hand[l]] = @ \ {p}]
    BY <1>3 DEF RemovePart
  <2>2. hand[l] = Old /\ holds[Old] # Parts
    BY <1>1, <1>3 DEF RemovePart, SeenInv, TypeOK
  <2>3. bundle = Old /\ Here = holds[Old]
    BY <2>1, <2>2, Names DEF PathInv, Here
  <2>4. bundle' = bundle /\ pc' = pc /\ todo' = todo /\ hand' = hand /\ looked' = looked
    BY <1>3 DEF RemovePart
  <2>5. /\ holds'[Old] = holds[Old] \ {p} /\ Here' = Here \ {p}
        /\ \A m \in Launchers : holds'[m] = holds[m]
    BY <2>1, <2>2, <2>3, <2>4, Names DEF Here, TypeOK
  <2>6. Here' # Parts /\ ~(Hashed \cup {Marker} \subseteq Here') /\ holds'[Old] # Parts
    <3>1. ~(Hashed \cup {Marker} \subseteq Here)
      BY <2>2, <2>3 DEF PathInv
    <3>2. ~(Hashed \cup {Marker} \subseteq Here')
      BY <2>5, <3>1
    <3> QED
      BY <2>3, <2>5, <3>2, NotWhole
  <2>7. PathInv'
    BY <2>3, <2>4, <2>6, Names DEF PathInv
  <2>8. ASSUME NEW m \in Launchers
        PROVE  SeenInv(m)'
    <3>1. SeenInv(m) /\ pc[m] # "run" /\ (pc[m] = "verify" => looked[m] = Old)
      BY <2>2, <2>3, Missing
    <3>2. ~(todo[m] \subseteq Here) => ~(todo'[m] \subseteq Here')
      BY <2>4, <2>5
    <3> QED
      BY <2>2, <2>3, <2>4, <2>5, <2>6, <3>1, <3>2 DEF SeenInv
  <2> QED
    BY <2>7, <2>8
<1>4. CASE RemoveDirectory(l)
  <2>1. /\ holds' = holds /\ looked' = looked /\ pc[l] = "remove"
        /\ \A m \in Launchers \ {l} : /\ pc'[m] = pc[m] /\ todo'[m] = todo[m]
                                      /\ hand'[m] = hand[m] /\ looked'[m] = looked[m]
    BY <1>4 DEF RemoveDirectory, Go, TypeOK
  <2>2. CASE bundle' = bundle /\ pc'[l] = "failed"
    <3>1. PathInv' /\ \A m \in Launchers \ {l} : SeenInv(m)'
      BY <2>1, <2>2, OthersSee
    <3>2. SeenInv(l)'
      BY <2>2 DEF SeenInv
    <3> QED
      BY <3>1, <3>2
  <2>3. CASE Here = {} /\ bundle' = None /\ pc'[l] = "extract"
    <3>1. Here # Parts /\ Here' = {} /\ holds'[Old] = holds[Old]
      BY <2>1, <2>3, NotWhole DEF Here
    <3>2. PathInv'
      <4>1. holds'[Old] = {}
        BY <2>1, <2>3, Names DEF PathInv, Here
      <4> QED
        BY <2>3, <4>1, Names DEF PathInv
    <3>3. ASSUME NEW m \in Launchers \ {l}
          PROVE  SeenInv(m)'
      <4>1. SeenInv(m) /\ pc[m] # "run" /\ (pc[m] = "verify" => looked[m] = Old)
        BY <3>1, Missing
      <4>2. ~(todo[m] \subseteq Here) => ~(todo'[m] \subseteq Here')
        BY <2>1, <2>3, <3>1
      <4> QED
        BY <2>1, <3>1, <4>1, <4>2, NotWhole DEF SeenInv
    <3>4. SeenInv(l)'
      BY <2>3 DEF SeenInv
    <3> QED
      BY <3>2, <3>3, <3>4
  <2> QED
    BY <1>4, <2>2, <2>3 DEF RemoveDirectory, Go, TypeOK
<1> QED
  BY <1>2, <1>3, <1>4

\* Extracting is beside the path, and the rename puts a whole bundle there
\* when nothing is in its way.
LEMMA ReplacingSees ==
    ASSUME TypeOK, PathInv, \A m \in Launchers : SeenInv(m), NEW l \in Launchers,
           ExtractPart(l) \/ ExtractFails(l) \/ WriteMarker(l)
           \/ RenameLooks(l) \/ Rename(l) \/ Kill(l)
    PROVE  PathInv' /\ \A m \in Launchers : SeenInv(m)'
<1>1. /\ todo' = todo /\ hand' = hand /\ looked' = looked /\ pc[l] # "run"
      /\ \A m \in Launchers \ {l} : pc'[m] = pc[m]
  BY DEF TypeOK, ExtractPart, ExtractFails, WriteMarker, RenameLooks, Rename, Kill, Go
<1>2. CASE ExtractPart(l) \/ ExtractFails(l) \/ WriteMarker(l)
  <2>1. PICK S \in SUBSET Parts, at \in {"extract", "failed", "rename"} :
          /\ holds' = [holds EXCEPT ![l] = S] /\ pc' = [pc EXCEPT ![l] = at]
          /\ at = "rename" => S = Parts
    BY <1>2, WorkOnOwn
  <2>2. bundle' = bundle /\ \A d \in Dirs \ {l} : holds'[d] = holds[d]
    BY <1>2, <2>1 DEF TypeOK, ExtractPart, ExtractFails, WriteMarker
  <2>3. PathInv' /\ \A m \in Launchers \ {l} : SeenInv(m)'
    BY <1>1, <2>2, OthersSee
  <2>4. pc'[l] = at /\ holds'[l] = S
    BY <2>1, Names DEF TypeOK
  <2>5. SeenInv(l)'
    BY <2>1, <2>4 DEF SeenInv
  <2> QED
    BY <2>3, <2>5
<1>3. CASE Kill(l) \/ RenameLooks(l) \/ (Rename(l) /\ Here # {})
  <2>1. bundle' = bundle /\ \A d \in Dirs \ {l} : holds'[d] = holds[d]
    BY <1>3 DEF TypeOK, RenameLooks, Rename, Kill
  <2>2. PathInv' /\ \A m \in Launchers \ {l} : SeenInv(m)'
    BY <1>1, <2>1, OthersSee
  <2>3. pc'[l] \in {"again", "killed"} \/ (pc'[l] = "move" /\ holds'[l] = Parts)
    BY <1>3 DEF TypeOK, RenameLooks, Rename, Kill, Go, SeenInv
  <2>4. SeenInv(l)'
    BY <2>3 DEF SeenInv
  <2> QED
    BY <2>2, <2>4
<1>4. CASE Rename(l) /\ Here = {}
  <2>1. bundle' = l /\ holds' = holds /\ pc'[l] = "run" /\ holds[l] = Parts
    BY <1>4 DEF Rename, Go, TypeOK, SeenInv
  <2>2. Here' = Parts /\ holds'[Old] = holds[Old] /\ l # None /\ l # Old
    BY <2>1, Names DEF Here
  <2>3. PathInv'
    <3>1. holds'[Old] = {}
      BY <1>4, <2>2, Names DEF PathInv, Here
    <3> QED
      BY <2>1, <2>2, <3>1 DEF PathInv
  <2>4. ASSUME NEW m \in Launchers \ {l}
        PROVE  SeenInv(m)'
    <3>1. SeenInv(m)
      OBVIOUS
    <3> QED
      BY <1>1, <2>1, <2>2, <3>1 DEF SeenInv
  <2>5. SeenInv(l)'
    BY <2>1, <2>2 DEF SeenInv
  <2> QED
    BY <2>3, <2>4, <2>5
<1> QED
  BY <1>2, <1>3, <1>4

\* Every step keeps a whole bundle whole.
LEMMA StepWhole ==
    ASSUME TypeOK, WholeInv, [Next]_vars
    PROVE  WholeInv'
<1>1. CASE UNCHANGED vars
  BY <1>1 DEF WholeInv, PathInv, SeenInv, Here, vars
<1>2. ASSUME NEW l \in Launchers, Launcher(l) \/ Kill(l)
      PROVE  WholeInv'
  <2> SUFFICES ASSUME ~silent', ~raced'
               PROVE  PathInv' /\ \A m \in Launchers : SeenInv(m)'
    BY DEF WholeInv
  <2>1. ~silent
    BY <1>2, HistoryKept
  <2>2. ~raced
    <3>1. CASE OpenBundle(l)
      BY <3>1 DEF OpenBundle
    <3> QED
      BY <1>2, <3>1, HistoryKept
  <2>3. PathInv /\ \A m \in Launchers : SeenInv(m)
    BY <2>1, <2>2 DEF WholeInv
  <2> QED
    BY <1>2, <2>3, LookingSees, RemovingSees, ReplacingSees DEF Launcher
<1> QED
  BY <1>1, <1>2 DEF Next

\* A launcher that started the program has a whole bundle under it, however
\* many launchers come, are killed or get in one another's way meanwhile, if
\* no part was missing that nothing verifies and no launcher removed the
\* bundle another put at the path after it had looked.
THEOREM RunsWholeHolds == Spec => []RunsWhole
<1>1. Spec => []WholeInv
  BY TypeCorrect, InitWhole, StepWhole, PTL DEF Spec
<1>2. WholeInv => RunsWhole
  BY DEF WholeInv, SeenInv, RunsWhole
<1> QED
  BY <1>1, <1>2, PTL
=============================================================================
