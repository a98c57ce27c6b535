----------------------------- MODULE Clearance ------------------------------
(***************************************************************************)
(* What the deletion of one candidate promises, without saying how: a set  *)
(* of inodes is approved once; every removal uses up a clearance of its    *)
(* own, granted before the deadline; only approved inodes are removed; and *)
(* once the deletion has ended nothing is removed any more.                *)
(***************************************************************************)
CONSTANT Inodes

VARIABLES
    phase,      \* "deciding", "removing" or "ended"
    approved,   \* inodes that may be removed
    cleared,    \* a removal is cleared
    overdue,    \* the deadline has passed
    gone        \* inodes that were removed

cvars == <<phase, approved, cleared, overdue, gone>>

CInit ==
    /\ phase = "deciding" /\ approved = {}
    /\ cleared = FALSE /\ overdue = FALSE /\ gone = {}

\* Evidence is gathered: the inventory is extended.
Survey ==
    /\ phase = "deciding"
    /\ approved' \in SUBSET Inodes /\ approved \subseteq approved'
    /\ UNCHANGED <<phase, cleared, overdue, gone>>

Approve ==
    /\ phase = "deciding" /\ phase' = "removing"
    /\ UNCHANGED <<approved, cleared, overdue, gone>>

Grant ==
    /\ phase = "removing" /\ ~cleared /\ ~overdue
    /\ cleared' = TRUE
    /\ UNCHANGED <<phase, approved, overdue, gone>>

\* The last removal of a deletion may end it.
Take(i) ==
    /\ phase = "removing" /\ cleared /\ i \in approved
    /\ gone' = gone \cup {i}
    /\ cleared' = FALSE
    /\ phase' \in {"removing", "ended"}
    /\ UNCHANGED <<approved, overdue>>

End ==
    /\ phase # "ended" /\ phase' = "ended"
    /\ cleared' = FALSE
    /\ UNCHANGED <<approved, overdue, gone>>

Expire ==
    /\ ~overdue /\ overdue' = TRUE
    /\ UNCHANGED <<phase, approved, cleared, gone>>

CNext == Survey \/ Approve \/ Grant \/ (\E i \in Inodes : Take(i)) \/ End \/ Expire

CSpec == CInit /\ [][CNext]_cvars
=============================================================================
