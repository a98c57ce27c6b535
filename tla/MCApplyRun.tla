----------------------------- MODULE MCApplyRun -----------------------------
(***************************************************************************)
(* Small plans for ApplyRun.  Candidate c1 lies inside c2, c3 beside them. *)
(* The scenarios are every combination of a few rule lists, approvals,     *)
(* item lists and command lines.                                           *)
(***************************************************************************)
EXTENDS ApplyRun

CONSTANTS c1, c2, c3, A, B, docker, bogus

MCInside == c1 :> {} @@ c2 :> {c1} @@ c3 :> {}
MCOwn    == c1 :> 1 @@ c2 :> 2 @@ c3 :> 1

Cat(id, covers, valid, maxCount, maxBytes, checks) ==
    [id |-> id, covers |-> covers, valid |-> valid, maxCount |-> maxCount,
     maxBytes |-> maxBytes, checks |-> checks]

\* One rule; two that meet in c2; a broken one; one with an unknown check.
OneRule   == <<Cat(A, {c1, c2, c3}, TRUE, 3, 4, {})>>
Tight     == <<Cat(A, {c1, c3}, TRUE, 1, 2, {docker})>>
TwoRules  == <<Cat(A, {c1, c2}, TRUE, 2, 2, {docker}), Cat(B, {c2, c3}, TRUE, 1, 3, {})>>
Broken    == <<Cat(A, {c1, c3}, FALSE, 0, 0, {}), Cat(B, {c3}, TRUE, 1, 1, {})>>
Unknown   == <<Cat(A, {c1, c3}, TRUE, 1, 2, {bogus})>>
\* Two rules with one id: the wide limits come first.
SameId    == <<Cat(A, {c2}, TRUE, 2, 3, {}), Cat(A, {c1, c3}, TRUE, 1, 1, {docker})>>
\* The rule that covers c1 is fine, the first one with its id was never validated.
SameIdBad == <<Cat(A, {c3}, FALSE, 1, 1, {}), Cat(A, {c1}, TRUE, 2, 3, {})>>

Exactly(c, match, checks) == <<[cand |-> c, match |-> match, checks |-> checks]>>

ScenariosOf(RuleLists, ApprovalLists, ItemLists) ==
    {[manual |-> m, items |-> i, review |-> {c1, c2, c3}, rules |-> r, enabled |-> {A, B},
      approvals |-> a, categories |-> cat, paths |-> p] :
        m \in BOOLEAN, i \in ItemLists, r \in RuleLists, a \in ApprovalLists,
        cat \in {{A}, {B}, {A, B}, {}}, p \in {{}, {c3}}}

Commanded(S) == {s \in S : s.categories # {} \/ s.paths # {}}

MCScenarios ==
    Commanded(ScenariosOf({OneRule, Tight, TwoRules, Broken, Unknown, SameId, SameIdBad},
                          {<< >>, Exactly(c3, "equal", {}), Exactly(c3, "same", {docker}),
                           Exactly(c3, "other", {docker})},
                          {<<c1, c2, c3>>, <<c3, c2, c1>>, <<c3, c1, c3>>}))

MCSmall == {s \in MCScenarios : s.manual /\ s.approvals = << >> /\ s.items = <<c1, c2, c3>>}
=============================================================================
