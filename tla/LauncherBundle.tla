--------------------------- MODULE LauncherBundle ---------------------------
(***************************************************************************)
(* Launchers that share a runtime directory: ensureBundle and the start of *)
(* the bundled program in packaging/launcher/main.go.  Each looks for a    *)
(* valid bundle, removes an invalid one, extracts its own beside it and    *)
(* renames it into place.                                                  *)
(*                                                                         *)
(* A directory is a set of parts.  The bundle is looked up by its path at  *)
(* every step; extraction and removal go part by part, and a launcher may  *)
(* be killed in between.  A launcher with an ephemeral directory of its    *)
(* own is the case of one launcher.                                        *)
(***************************************************************************)
EXTENDS Naturals, FiniteSets, SequencesExt

CONSTANTS
    Launchers,
    Old,       \* the directory that may lie at the path from the start
    None,      \* no directory
    Archive,   \* the parts of the payload, in its order
    Hashed,    \* those verifyBundle hashes; no one verifies libraries and Python modules
    Leftovers  \* what Old may hold, as extraction, removal or a user left it

Marker == "marker"
Rest   == ToSet(Archive) \ Hashed
Parts  == ToSet(Archive) \cup {Marker}
Dirs   == Launchers \cup {Old}

ASSUME BundleAssumption ==
    /\ Old \notin Launchers /\ None \notin Dirs /\ IsFiniteSet(Launchers)
    /\ Archive \in Seq(ToSet(Archive)) /\ Marker \notin ToSet(Archive)
    /\ Hashed \subseteq ToSet(Archive) /\ Hashed # {}
    /\ Leftovers \subseteq SUBSET Parts

VARIABLES
    bundle,  \* the directory at the path of the bundle, or None
    holds,   \* the parts of each directory; launcher l extracts into directory l
    pc,
    todo,    \* hashed parts the launcher has still to verify
    hand,    \* the directory a launcher is removing
    looked,  \* history: the directory the launcher found at the path at first
    silent,  \* history: Old lacked parts that nothing verifies
    raced,   \* history: a launcher began to remove another directory than the one it looked at
    short    \* history: an extraction failed

vars == <<bundle, holds, pc, todo, hand, looked, silent, raced, short>>
history == <<silent, raced, short>>

TypeOK ==
    /\ bundle \in Dirs \cup {None}
    /\ holds \in [Dirs -> SUBSET Parts]
    /\ pc \in [Launchers -> {"look", "verify", "stat", "open", "remove", "extract", "rename", "move",
                             "again", "reverify", "run", "failed", "killed"}]
    /\ todo \in [Launchers -> SUBSET Hashed]
    /\ {hand, looked} \subseteq [Launchers -> Dirs \cup {None}]
    /\ \A l \in Launchers : pc[l] = "remove" => hand[l] # None
    /\ {silent, raced, short} \subseteq BOOLEAN

Here == IF bundle = None THEN {} ELSE holds[bundle]

Init ==
    /\ bundle = None \/ bundle = Old
    /\ \E S \in Leftovers : holds = [d \in Dirs |-> IF d = Old /\ bundle = Old THEN S ELSE {}]
    /\ pc = [l \in Launchers |-> "look"] /\ todo = [l \in Launchers |-> {}]
    /\ hand = [l \in Launchers |-> None] /\ looked = [l \in Launchers |-> None]
    /\ silent = (Hashed \cup {Marker} \subseteq Here /\ ~(Rest \subseteq Here)) /\ raced = FALSE /\ short = FALSE

Go(l, from, to) == pc[l] = from /\ pc' = [pc EXCEPT ![l] = to]

-----------------------------------------------------------------------------
(* Is there a valid bundle?  First when the launcher comes, and again when *)
(* its own could not be renamed.                                           *)

ReadMarker(l) ==
    /\ \/ Go(l, "look", IF Marker \in Here THEN "verify" ELSE "stat") /\ looked' = [looked EXCEPT ![l] = bundle]
       \/ Go(l, "again", IF Marker \in Here THEN "reverify" ELSE "failed") /\ UNCHANGED looked
    /\ todo' = [todo EXCEPT ![l] = Hashed]
    /\ UNCHANGED <<bundle, holds, hand, history>>

\* verifyBundle, one file after the other.
VerifyPart(l) ==
    /\ pc[l] \in {"verify", "reverify"}
    /\ \E p \in todo[l] \cap Here : todo' = [todo EXCEPT ![l] = @ \ {p}]
    /\ UNCHANGED <<bundle, holds, pc, hand, looked, history>>

ValidByMarker(l) == TRUE   \* mutated form: the marker is believed
Valid(l) == todo[l] = {}

VerifyEnds(l) ==
    /\ \/ Valid(l) /\ (Go(l, "verify", "run") \/ Go(l, "reverify", "run"))
       \/ ~(todo[l] \subseteq Here) /\ (Go(l, "verify", "stat") \/ Go(l, "reverify", "failed"))
    /\ UNCHANGED <<bundle, holds, todo, hand, looked, history>>

-----------------------------------------------------------------------------
(* An invalid one is removed.                                              *)

LstatRefuses(l) ==   \* mutated form: an invalid bundle is an error
    /\ Go(l, "stat", IF bundle = None THEN "extract" ELSE "failed")
    /\ UNCHANGED <<bundle, holds, todo, hand, looked, history>>
Lstat(l) ==
    /\ Go(l, "stat", IF bundle = None THEN "extract" ELSE "open")
    /\ UNCHANGED <<bundle, holds, todo, hand, looked, history>>

\* RemoveAll opens what is at the path by now.
OpenBlindly(l) ==   \* mutated form: that nothing may be there any more is forgotten
    /\ Go(l, "open", "remove") /\ hand' = [hand EXCEPT ![l] = bundle]
    /\ UNCHANGED <<bundle, holds, todo, looked, history>>
OpenBundle(l) ==
    /\ Go(l, "open", IF bundle = None THEN "extract" ELSE "remove")
    /\ hand' = [hand EXCEPT ![l] = bundle]
    /\ raced' = (raced \/ bundle \notin {None, looked[l]})
    /\ UNCHANGED <<bundle, holds, todo, looked, silent, short>>

RemovePart(l) ==
    /\ pc[l] = "remove"
    /\ \E p \in holds[hand[l]] : holds' = [holds EXCEPT ![hand[l]] = @ \ {p}]
    /\ UNCHANGED <<bundle, pc, todo, hand, looked, history>>

\* The directory itself goes by its path, where another may lie meanwhile.
RemoveDirectory(l) ==
    /\ pc[l] = "remove" /\ holds[hand[l]] = {}
    /\ \/ Here = {} /\ Go(l, "remove", "extract") /\ bundle' = None
       \/ Here # {} /\ Go(l, "remove", "failed") /\ UNCHANGED bundle
    /\ UNCHANGED <<holds, todo, hand, looked, history>>

-----------------------------------------------------------------------------
(* A new one is extracted and renamed.                                     *)

ExtractPart(l) ==
    /\ pc[l] = "extract"
    /\ \E i \in DOMAIN Archive :
         /\ \A j \in DOMAIN Archive : Archive[j] \in holds[l] <=> j < i
         /\ holds' = [holds EXCEPT ![l] = @ \cup {Archive[i]}]
    /\ UNCHANGED <<bundle, pc, todo, hand, looked, history>>

\* No space, or a file that cannot be written: the new directory is removed.
ExtractFailsUntidy(l) ==   \* mutated form: the extracted parts stay
    /\ Go(l, "extract", "failed") /\ short' = TRUE
    /\ UNCHANGED <<bundle, holds, todo, hand, looked, silent, raced>>
ExtractFails(l) ==
    /\ Go(l, "extract", "failed") /\ holds' = [holds EXCEPT ![l] = {}] /\ short' = TRUE
    /\ UNCHANGED <<bundle, todo, hand, looked, silent, raced>>

\* verifyBundle of the new directory, and the marker.
WriteMarker(l) ==
    /\ ToSet(Archive) \subseteq holds[l]
    /\ Go(l, "extract", "rename") /\ holds' = [holds EXCEPT ![l] = @ \cup {Marker}]
    /\ UNCHANGED <<bundle, todo, hand, looked, history>>

\* os.Rename of Go first looks at the path and refuses any directory there.
\* When it fails, a valid bundle of another launcher will do.  The own one is
\* removed on return, which nobody can tell from now.
RenameLooks(l) ==
    /\ \/ bundle = None /\ Go(l, "rename", "move") /\ UNCHANGED holds
       \/ bundle # None /\ Go(l, "rename", "again") /\ holds' = [holds EXCEPT ![l] = {}]
    /\ UNCHANGED <<bundle, todo, hand, looked, history>>

\* rename(2) itself replaces an empty directory, which may be there by now.
Rename(l) ==
    /\ \/ Here = {} /\ Go(l, "move", "run") /\ bundle' = l /\ UNCHANGED holds
       \/ /\ Here # {} /\ Go(l, "move", "again")
          /\ holds' = [holds EXCEPT ![l] = {}] /\ UNCHANGED bundle
    /\ UNCHANGED <<todo, hand, looked, history>>

Kill(l) ==
    /\ pc[l] \notin {"run", "failed", "killed"} /\ pc' = [pc EXCEPT ![l] = "killed"]
    /\ UNCHANGED <<bundle, holds, todo, hand, looked, history>>

Launcher(l) ==
    \/ ReadMarker(l) \/ VerifyPart(l) \/ VerifyEnds(l) \/ Lstat(l) \/ OpenBundle(l) \/ RemovePart(l)
    \/ RemoveDirectory(l) \/ ExtractPart(l) \/ ExtractFails(l) \/ WriteMarker(l)
    \/ RenameLooks(l) \/ Rename(l)

Next == \E l \in Launchers : Launcher(l) \/ Kill(l)

Spec == Init /\ [][Next]_vars /\ \A l \in Launchers : WF_vars(Launcher(l))

-----------------------------------------------------------------------------

\* A launcher that goes on to start the bundled program has a whole bundle for
\* as long as it runs, wherever others were killed, with two exceptions: parts
\* that nothing verifies were missing before, or a launcher that had found no
\* valid bundle removed the one another put there after it had looked.
RunsWhole ==
    \A l \in Launchers : pc[l] = "run" /\ ~silent /\ ~raced => bundle # None /\ Here = Parts

\* Whoever is not killed leaves no extraction directory behind.
Tidy ==
    \A l \in Launchers : pc[l] \in {"run", "failed"} => bundle = l \/ holds[l] = {}

\* Launchers that get in one another's way do not all fail: one starts its
\* program, unless one was killed or an extraction failed.
SomeoneStarts == <>(short \/ \E l \in Launchers : pc[l] \in {"run", "killed"})

-----------------------------------------------------------------------------
(* What the properties rest on.                                            *)

\* A launcher has extracted parts only from the extraction to its end.
TidyInv ==
    /\ \A l \in Launchers : pc[l] \notin {"extract", "rename", "move", "run", "killed"} => holds[l] = {}
    /\ Tidy

\* At the path lies a whole bundle that a launcher put there and runs, or Old.
\* Old is whole or lacks something that is verified, and elsewhere it is gone.
PathInv ==
    /\ bundle = Old \/ holds[Old] = {}
    /\ bundle = Old => Here = Parts \/ ~(Hashed \cup {Marker} \subseteq Here)
    /\ bundle \in Launchers => pc[bundle] = "run" /\ Here = Parts

\* Only Old is ever removed, by who found it not whole; who found the bundle of
\* another will run it; and who verifies one that is not whole will miss a part.
SeenInv(l) ==
    /\ pc[l] = "remove" => hand[l] = looked[l]
    /\ pc[l] \in {"stat", "open", "remove"} => looked[l] \in {Old, None} /\ holds[Old] # Parts
    /\ pc[l] = "verify" /\ looked[l] # Old => bundle # None /\ Here = Parts
    /\ pc[l] \in {"verify", "reverify"} /\ Here # Parts => ~(todo[l] \subseteq Here)
    /\ pc[l] \in {"rename", "move"} => holds[l] = Parts
    /\ pc[l] = "run" => bundle # None /\ Here = Parts

\* As long as no launcher raced another to the path, and Old lacks nothing that
\* goes unverified: a whole bundle stays.
WholeInv == ~silent /\ ~raced => PathInv /\ \A l \in Launchers : SeenInv(l)
=============================================================================
